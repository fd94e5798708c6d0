------------------------------- MODULE NvkImage -------------------------------
(***************************************************************************)
(* The images of NVK (nvk_image.c): their creation, the memory they need,   *)
(* its binding, and the sparse binds of a queue.                            *)
(*                                                                         *)
(* A plane that is sparse or block-linear has a range of addresses of its   *)
(* own, to which memory is mapped page by page; any other is addressed in   *)
(* the memory it is bound to.  A D32S8 image carries a plane for stencil    *)
(* copies behind its own, a linear one a tiled shadow with memory of its    *)
(* own.                                                                     *)
(*                                                                         *)
(* Sizes and offsets count the unit of the smallest alignment.  The create  *)
(* info is the handle of its image: a client creates each at most once at   *)
(* a time.  The sparse binds of a queue are applied in their order: bind    *)
(* jobs run in order (NvkQueue).                                            *)
(***************************************************************************)
EXTENDS NvkImageFormat, FiniteSetsExt

CONSTANTS
  Scenarios,  \* sets of create infos a behaviour draws from
  Queries,    \* what a client asks before it creates an image
  Alias,      \* from a create info to that of the swapchain image it is bound to
  Vas,        \* address ranges
  Mems,       \* client memory objects
  NoMem,      \* VK_NULL_HANDLE
  MemSize,    \* the size of each
  BindAlign,  \* pdev->nvkmd->bind_align_B
  Tile,       \* the size of a sparse tile
  BindUnits,  \* the lengths of opaque binds, in units of their alignment
  MaxBinds    \* bound on the sparse binds of a behaviour

(* All that anything is aligned to.  They are powers of two: the larger of    *)
(* two is a multiple of the other.                                          *)
Alignments ==
  {BindAlign} \cup UNION {{nil.align : nil \in LayoutsOf(i.format)} : i \in UNION Scenarios}

ASSUME ImageAssumption ==
  /\ {MemSize, BindAlign, Tile, MaxBinds} \subseteq Nat \ {0} /\ NoMem \notin Mems /\ "none" \notin Vas
  /\ \A some \in Scenarios : \A i \in some :
       /\ IsFormat(i.format) /\ Supported(i) /\ SparseAssertions(i) /\ ModifierAssertions(i)
       /\ i.multisampled => Limits(i).samples
  /\ \A a, b \in Alignments : a <= b => b % a = 0
  /\ \A i \in DOMAIN Alias : Alias[i] \notin DOMAIN Alias
  /\ \A i \in Queries : IsQuery(i)

VARIABLES
  infos,   \* the create infos of the behaviour
  image,   \* per create info its struct nvk_image, or NoImage
  vas,     \* address ranges: what is mapped at each offset, or Free
  making,  \* nvk_CreateImage in progress
  told,    \* the images, or planes of them, whose binding was reported as a success
  batch,   \* nvk_BindImageMemory2 in progress: what it has bound so far, and its result
  queue,   \* the queue's sparse binds, whether it is lost, and the last bind (a history)
  query    \* the last question of nvk_GetPhysicalDeviceImageFormatProperties2

vars == <<infos, image, vas, making, told, batch, queue, query>>

NoImage  == [planes |-> <<>>]
NoBatch  == [parts |-> {}, result |-> "ok", open |-> FALSE]
Free     == <<"free">>
Unbound  == <<>>
Live     == {i \in infos : image[i] # NoImage}
FreeVas  == {v \in Vas : vas[v] = Free}

Align(n, a) == ((n + a - 1) \div a) * a
Least(a, b) == IF a < b THEN a ELSE b
Most(a, b)  == IF a < b THEN b ELSE a

(* nvk_image_plane_size_align_B                                             *)
PlaneAlign(im, p) ==
  IF im.sparse \/ p.nil.kind # 0 THEN Most(p.nil.align, BindAlign) ELSE p.nil.align
PlaneSize(im, p) == Align(p.nil.size, PlaneAlign(im, p))

(* Mutant: a block-linear plane has no range of its own. *)
HasVaSparse(im, p) == im.sparse

HasVa(im, p) == im.sparse \/ p.nil.kind # 0

(***************************************************************************)
(* One part behind the other, from an offset: what the memory requirements,  *)
(* the layout of a subresource, bindings and opaque binds each walk through. *)
(* start[n] is the end of part n - 1, start[1] the offset.                  *)
(***************************************************************************)
Part(im, p) == [size |-> PlaneSize(im, p), align |-> PlaneAlign(im, p)]

Starts(parts, from) ==
  LET start[n \in 1 .. Len(parts) + 1] ==
        IF n = 1 THEN from ELSE Align(start[n - 1], parts[n - 1].align) + parts[n - 1].size
  IN start

Parts(im, ns) == [k \in DOMAIN ns |-> Part(im, im.planes[ns[k]])]
UpTo(n)       == [k \in 1 .. n |-> k]

(* The planes that n names: one of a disjoint image, or all of them; and the *)
(* temporary.                                                               *)
Targets(im, n) ==
  IF im.disjoint THEN <<n>> \o [k \in 1 .. Len(im.planes) - im.count |-> im.count + k]
  ELSE UpTo(Len(im.planes))

(* nvk_get_image_memory_requirements                                        *)
Requirements(im, n) ==
  LET parts == Parts(im, Targets(im, n))
  IN [size  |-> Starts(parts, 0)[Len(parts) + 1],
      align |-> Max({parts[k].align : k \in DOMAIN parts})]

(* nvk_get_image_subresource_layout: where a host finds a plane.             *)
LayoutOffset(im, n) == IF im.disjoint THEN 0 ELSE Starts(Parts(im, UpTo(im.count)), 0)[n]

Init ==
  /\ infos \in Scenarios
  /\ image = [i \in infos |-> NoImage] /\ vas = [v \in Vas |-> Free]
  /\ making = NoImage /\ told = {} /\ batch = NoBatch
  /\ queue = [binds |-> 0, lost |-> FALSE, last |-> <<>>] /\ query = <<>>

GetPhysicalDeviceImageFormatProperties2 ==
  /\ infos = {} /\ IF query = <<>> THEN query' \in Queries ELSE query' = <<>>
  /\ UNCHANGED <<infos, image, vas, making, told, batch, queue>>

(***************************************************************************)
(* Creation: nvk_image_init, a range for each plane that takes one, memory  *)
(* for the shadow.  What fails ends in nvk_image_finish.                    *)
(***************************************************************************)
Held(im) ==
  {im.planes[n].va : n \in DOMAIN im.planes} \cup {im.shadow[n].va : n \in DOMAIN im.shadow}

(* Mutant: the planes are freed and the temporary behind them is not. *)
FinishPlanes(im) ==
  [v \in Vas |-> IF \E n \in 1 .. im.count : im.planes[n].va = v THEN Free ELSE vas[v]]

Finish(im) == [v \in Vas |-> IF v \in Held(im) THEN Free ELSE vas[v]]

CreateBegin ==
  \E i \in infos \ Live :
    /\ making = NoImage /\ ~batch.open
    /\ i \in DOMAIN Alias => <<Alias[i], 1>> \in told
    /\ making' = [info |-> i, im |-> ImageInit(i), next |-> 1]
    /\ UNCHANGED <<infos, image, vas, told, batch, queue, query>>

CreateFails ==
  /\ vas' = Finish(making.im) /\ making' = NoImage
  /\ UNCHANGED <<infos, image, told, batch, queue, query>>

AllocVa ==
  /\ making # NoImage /\ making.next <= Len(making.im.planes)
  /\ LET im == making.im
         p  == im.planes[making.next]
         given(v) == [p EXCEPT !.va = v, !.addr = <<"va", v>>]
     IN \/ /\ HasVa(im, p)
           /\ \E v \in FreeVas :
                /\ vas' = [vas EXCEPT ![v] = [o \in 0 .. PlaneSize(im, p) - 1 |-> Unbound]]
                /\ making' = [making EXCEPT !.im.planes[making.next] = given(v), !.next = @ + 1]
           /\ UNCHANGED <<infos, image, told, batch, queue, query>>
        \/ HasVa(im, p) /\ CreateFails
        \/ /\ ~HasVa(im, p)
           /\ making' = [making EXCEPT !.next = @ + 1]
           /\ UNCHANGED <<infos, image, vas, told, batch, queue, query>>

AllocShadow ==
  /\ making # NoImage /\ making.next = Len(making.im.planes) + 1
  /\ \/ /\ making.im.shadow # <<>>
        /\ \E v \in FreeVas :
             /\ vas' = [vas EXCEPT ![v] = [o \in 0 .. making.im.shadow[1].nil.size - 1 |-> <<"own", o>>]]
             /\ image' = [image EXCEPT ![making.info] =
                            [making.im EXCEPT !.shadow[1].va = v, !.shadow[1].addr = <<"va", v>>]]
        /\ making' = NoImage /\ UNCHANGED <<infos, told, batch, queue, query>>
     \/ making.im.shadow # <<>> /\ CreateFails
     \/ /\ making.im.shadow = <<>>
        /\ image' = [image EXCEPT ![making.info] = making.im] /\ making' = NoImage
        /\ UNCHANGED <<infos, vas, told, batch, queue, query>>

(* A swapchain's image goes after those that alias it.                      *)
DestroyImage ==
  \E i \in Live :
    /\ ~batch.open /\ making = NoImage /\ \A j \in Live \cap DOMAIN Alias : Alias[j] # i
    /\ vas' = Finish(image[i]) /\ image' = [image EXCEPT ![i] = NoImage]
    /\ told' = {part \in told : part[1] # i}
    /\ UNCHANGED <<infos, making, batch, queue, query>>

(***************************************************************************)
(* nvk_BindImageMemory2, one nvk_bind_image_memory after the other.  A      *)
(* client binds an image, or a plane of a disjoint one, once.               *)
(***************************************************************************)
Place(im, ns, k, from) == Align(Starts(Parts(im, ns), from)[k], PlaneAlign(im, im.planes[ns[k]]))

(* nvk_image_plane_bind                                                     *)
BoundPlane(im, p, m, at) ==
  [p EXCEPT !.addr = IF p.va = "none" THEN <<"mem", m, at>> ELSE @,
            !.host = IF "host" \in im.usage THEN <<m, at>> ELSE @]

Unasked(im) == (IF im.disjoint THEN 1 .. im.count ELSE {1}) \ DOMAIN im.asked

BindBegin ==
  /\ ~batch.open /\ making = NoImage /\ \E i \in Live : ~image[i].sparse /\ Unasked(image[i]) # {}
  /\ batch' = [NoBatch EXCEPT !.open = TRUE]
  /\ UNCHANGED <<infos, image, vas, making, told, queue, query>>

(* Mutant: an error is forgotten when the next image is bound. *)
LastResult(result) == result

FirstError(result) == IF batch.result = "ok" THEN result ELSE batch.result

(* The planes up to the one that fails keep what they were given.           *)
BindImageMemory ==
  \E i \in Live, m \in Mems : \E n \in Unasked(image[i]), offset \in 0 .. MemSize - 1 :
    LET im   == image[i]
        ns   == Targets(im, n)
        req  == Requirements(im, n)
        at   == [k \in DOMAIN ns |-> Place(im, ns, k, offset)]
    IN /\ batch.open /\ ~im.sparse /\ i \notin DOMAIN Alias
       /\ offset % req.align = 0 /\ offset + req.size <= MemSize
       /\ \E bound \in 0 .. Len(ns) :
            /\ bound < Len(ns) => HasVa(im, im.planes[ns[bound + 1]])
            /\ image' = [image EXCEPT
                 ![i].planes = [x \in DOMAIN @ |->
                    IF \E k \in 1 .. bound : ns[k] = x
                    THEN BoundPlane(im, @[x], m, at[CHOOSE k \in 1 .. bound : ns[k] = x]) ELSE @[x]],
                 ![i].asked = [x \in DOMAIN @ \cup {n} |-> IF x = n THEN <<m, offset>> ELSE @[x]]]
            /\ vas' = [v \in Vas |->
                 IF \E k \in 1 .. bound : im.planes[ns[k]].va = v
                 THEN LET k == CHOOSE k \in 1 .. bound : im.planes[ns[k]].va = v
                      IN [o \in DOMAIN vas[v] |-> <<m, at[k] + o>>]
                 ELSE vas[v]]
            /\ batch' = [batch EXCEPT !.parts = @ \cup {<<i, n>>},
                                      !.result = FirstError(IF bound = Len(ns) THEN "ok" ELSE "error")]
       /\ UNCHANGED <<infos, making, told, queue, query>>

SwapchainAddress(i) == image[Alias[i]].planes[1].addr

(* An image bound to one of a swapchain takes the address of its plane.      *)
BindSwapchainImage ==
  \E i \in Live \cap DOMAIN Alias :
    /\ batch.open /\ Unasked(image[i]) # {} /\ <<Alias[i], 1>> \in told
    /\ image' = [image EXCEPT ![i].planes[1].addr = SwapchainAddress(i),
                              ![i].asked = [n \in {1} |-> <<"swapchain", 0>>]]
    /\ batch' = [batch EXCEPT !.parts = @ \cup {<<i, 1>>}, !.result = FirstError("ok")]
    /\ UNCHANGED <<infos, vas, making, told, queue, query>>

BindEnd ==
  /\ batch.open /\ batch.parts # {}
  /\ told' = told \cup (IF batch.result = "ok" THEN batch.parts ELSE {})
  /\ batch' = NoBatch
  /\ UNCHANGED <<infos, image, vas, making, queue, query>>

(***************************************************************************)
(* Sparse binds.  An opaque bind goes to a range of the image, or from      *)
(* NVK_MIP_TAIL_START_OFFSET on (tail) to one of its mip tail.              *)
(***************************************************************************)
(* The tiles of a layer, one level of them, and after it its mip tail.       *)
LayerTiles(nil) == nil.w * nil.h * nil.d
Stride(nil)     == LayerTiles(nil) * Tile + nil.tail
WholeTail(nil)  == nil.tail * nil.layers

(* next_opaque_bind_plane: what of a bind hits a plane that starts there.    *)
NextOpaque(bind, size, start) ==
  LET lead == start - bind.offset
      skip == bind.offset - start
  IN IF lead > 0
     THEN [hit |-> lead < bind.size, at |-> 0, from |-> bind.from + lead,
           size |-> Least(bind.size - lead, size)]
     ELSE [hit |-> skip < size, at |-> skip, from |-> bind.from, size |-> Least(bind.size, size - skip)]

Row(at, from, size) == [at |-> at, from |-> from, size |-> size]

(* A row per layer that the range of the tail [hit.at, hit.at + hit.size)    *)
(* touches.                                                                 *)
TailRows(nil, hit) ==
  LET end == hit.at + hit.size
      of(a) == LET first == Most(a * nil.tail, hit.at)
                   last  == Least((a + 1) * nil.tail, end)
               IN Row(LayerTiles(nil) * Tile + a * Stride(nil) + first - a * nil.tail,
                      hit.from + first - hit.at, last - first)
  IN {of(a) : a \in hit.at \div nil.tail .. (end + nil.tail - 1) \div nil.tail - 1}

(* What an opaque bind does to plane n: to a mip tail the plane counts as     *)
(* long as its tail.                                                        *)
OpaqueRows(im, n, bind) ==
  LET tailed(k) == bind.tail /\ k <= im.count
      parts == [k \in DOMAIN im.planes |->
                  [Part(im, im.planes[k]) EXCEPT
                     !.size = IF tailed(k) THEN WholeTail(im.planes[k].nil) ELSE @]]
      hit == NextOpaque(bind, parts[n].size, Align(Starts(parts, 0)[n], parts[n].align))
  IN IF ~hit.hit THEN {}
     ELSE IF tailed(n) THEN TailRows(im.planes[n].nil, hit)
     ELSE {Row(hit.at, hit.from, hit.size)}

(* Mutant: the rows of memory are as long as those of the image. *)
TileRowsWide(nil, box) ==
  {Row(box.layer * Stride(nil) + (box.x + (box.y + y) * nil.w + (box.z + z) * nil.w * nil.h) * Tile,
       box.from + (y * nil.w + z * nil.w * box.h) * Tile, box.w * Tile)
     : y \in 0 .. box.h - 1, z \in 0 .. box.d - 1}

(* queue_image_plane_bind: a row of tiles at a time.                         *)
TileRows(nil, box) ==
  {Row(box.layer * Stride(nil) + (box.x + (box.y + y) * nil.w + (box.z + z) * nil.w * nil.h) * Tile,
       box.from + (y * box.w + z * box.w * box.h) * Tile, box.w * Tile)
     : y \in 0 .. box.h - 1, z \in 0 .. box.d - 1}

(* nvkmd_ctx_bind                                                           *)
Mapped(pages, rows, m) ==
  [o \in DOMAIN pages |->
     IF \E r \in rows : o \in r.at .. r.at + r.size - 1
     THEN LET r == CHOOSE r \in rows : o \in r.at .. r.at + r.size - 1
          IN IF m = NoMem THEN Unbound ELSE <<m, r.from + o - r.at>>
     ELSE pages[o]]

(* Mutant: the temporary for stencil copies is not counted. *)
TailRequirementsNoTemp(im) ==
  LET nil == im.planes[1].nil
  IN [tail |-> nil.first > 0, size |-> IF nil.first = 0 THEN nil.size ELSE WholeTail(nil)]

(* nvk_get_image_sparse_memory_requirements: where the mip tail is bound, and *)
(* how long it is.  first counts the levels before it.                      *)
TailRequirements(im) ==
  LET nil  == im.planes[1].nil
      temp == IF Len(im.planes) > im.count THEN im.planes[2].nil.size ELSE 0
  IN [tail |-> nil.first > 0, size |-> (IF nil.first = 0 THEN nil.size ELSE WholeTail(nil)) + temp]

Binds(im, align, tail, size) ==
  {b \in [tail : {tail}, offset : 0 .. size - 1, size : {n * align : n \in BindUnits}, from : {BindAlign}] :
     b.offset + b.size <= size /\ b.offset % align = 0}

Bindable(i) == i \in Live /\ image[i].sparse /\ ~queue.lost /\ queue.binds < MaxBinds

(* The planes up to the one whose bind fails; a failure loses the queue.     *)
OpaqueBind(i, bind, kind, m) ==
  LET im == image[i]
  IN \E bound \in 0 .. Len(im.planes) :
       /\ vas' = [v \in Vas |->
            IF \E n \in 1 .. bound : im.planes[n].va = v
            THEN Mapped(vas[v], OpaqueRows(im, CHOOSE n \in 1 .. bound : im.planes[n].va = v, bind), m)
            ELSE vas[v]]
       /\ queue' = [binds |-> queue.binds + 1, lost |-> bound < Len(im.planes),
                    last  |-> [kind |-> kind, offset |-> bind.offset, size |-> bind.size, mem |-> m,
                               from |-> bind.from, reached |-> bound]]
       /\ UNCHANGED <<infos, image, making, told, batch, query>>

QueueOpaqueBind ==
  \E i \in infos, m \in Mems \cup {NoMem} :
    /\ Bindable(i)
    /\ LET req == Requirements(image[i], 1)
       IN \E bind \in Binds(image[i], req.align, FALSE, req.size) : OpaqueBind(i, bind, "whole", m)

QueueMipTailBind ==
  \E i \in infos, m \in Mems \cup {NoMem} :
    /\ Bindable(i) /\ image[i].resident
    /\ LET req == TailRequirements(image[i])
       IN \E bind \in Binds(image[i], Requirements(image[i], 1).align, req.tail, req.size) :
            OpaqueBind(i, bind, "tail", m)

Boxes(nil) ==
  {b \in [layer : 0 .. nil.layers - 1, x : 0 .. nil.w - 1, y : 0 .. nil.h - 1, z : 0 .. nil.d - 1,
          w : 1 .. nil.w, h : 1 .. nil.h, d : 1 .. nil.d, from : {BindAlign}] :
     b.x + b.w <= nil.w /\ b.y + b.h <= nil.h /\ b.z + b.d <= nil.d}

TilesCall(b, m) ==
  [kind |-> "tiles", mem |-> m, layer |-> b.layer, x |-> b.x, y |-> b.y, z |-> b.z,
   w |-> b.w, h |-> b.h, d |-> b.d, from |-> b.from]

QueueImageBind ==
  \E i \in infos, m \in Mems \cup {NoMem} :
    /\ Bindable(i) /\ image[i].resident
    /\ LET p == image[i].planes[1]
       IN \E box \in Boxes(p.nil) :
            \/ /\ vas' = [vas EXCEPT ![p.va] = Mapped(@, TileRows(p.nil, box), m)]
               /\ queue' = [queue EXCEPT !.binds = @ + 1, !.last = TilesCall(box, m)]
            \/ queue' = [queue EXCEPT !.lost = TRUE] /\ UNCHANGED vas
    /\ UNCHANGED <<infos, image, making, told, batch, query>>

Next ==
  \/ GetPhysicalDeviceImageFormatProperties2
  \/ CreateBegin \/ AllocVa \/ AllocShadow \/ DestroyImage
  \/ BindBegin \/ BindImageMemory \/ BindSwapchainImage \/ BindEnd
  \/ QueueOpaqueBind \/ QueueMipTailBind \/ QueueImageBind

Spec == Init /\ [][Next]_vars

(***************************************************************************)
(* Properties                                                              *)
(***************************************************************************)
(* A queue whose binds were lost takes none, and addresses are typed.        *)
TypeOK ==
  /\ infos \in Scenarios /\ told \subseteq infos \X (1 .. 3) /\ queue.binds \in 0 .. MaxBinds
  /\ making = NoImage \/ making.info \in infos \ Live
  /\ \A i \in Live : \A n \in DOMAIN image[i].planes :
       LET p == image[i].planes[n]
       IN IF image[i].sparse \/ p.nil.kind # 0 THEN p.va \in Vas /\ vas[p.va] # Free ELSE p.va = "none"

(* Every range of addresses belongs to one image, wherever its creation      *)
(* failed: none is leaked, shared or given back while in use.               *)
Images == {image[i] : i \in Live} \cup (IF making = NoImage THEN {} ELSE {making.im})
RangesAccounted ==
  /\ \A v \in Vas : vas[v] # Free <=> \E im \in Images : v \in Held(im)
  /\ \A v \in Vas : Cardinality({im \in Images : v \in Held(im)}) <= 1

(* What the GPU finds o units into a plane.                                  *)
Seen(p, o) == IF p.addr[1] = "va" THEN vas[p.addr[2]][o] ELSE <<p.addr[2], p.addr[3] + o>>

(* Once its binding was reported as a success, each plane of an image sees    *)
(* memory of its own, aligned as the plane needs, all within the size the    *)
(* requirements gave from the offset of the client.                         *)
BindingsFit ==
  \A part \in told :
    LET im    == image[part[1]]
        asked == im.asked[part[2]]
        room  == asked[2] .. asked[2] + Requirements(im, part[2]).size - 1
        seen(k) == {Seen(im.planes[k], o) : o \in 0 .. PlaneSize(im, im.planes[k]) - 1}
        ns    == Targets(im, part[2])
    IN part[1] \in DOMAIN Alias \/
       \A j \in DOMAIN ns :
         /\ \A page \in seen(ns[j]) : page # Unbound /\ page[1] = asked[1] /\ page[2] \in room
         /\ Seen(im.planes[ns[j]], 0)[2] % PlaneAlign(im, im.planes[ns[j]]) = 0
         /\ \A k \in 1 .. j - 1 : seen(ns[j]) \cap seen(ns[k]) = {}

(* The layout a host is told of, the copy a host makes and the GPU agree on   *)
(* where a plane is.                                                        *)
LayoutMatchesBinding ==
  \A part \in told :
    LET im == image[part[1]]
    IN part[1] \in DOMAIN Alias \/
       \A n \in (IF im.disjoint THEN {part[2]} ELSE 1 .. im.count) :
         LET there == <<im.asked[part[2]][1], im.asked[part[2]][2] + LayoutOffset(im, n)>>
         IN Seen(im.planes[n], 0) = there /\ ("host" \in im.usage => im.planes[n].host = there)

(* An image bound to a swapchain's sees the memory of that one.               *)
SwapchainImageShared ==
  \A i \in DOMAIN Alias :
    i \in infos /\ <<i, 1>> \in told =>
      Seen(image[i].planes[1], 0) = Seen(image[Alias[i]].planes[1], 0)

(* A successful bind of either kind puts an image where it should be, and     *)
(* the host finds it there.                                                 *)
BindingsSound == BindingsFit /\ LayoutMatchesBinding /\ SwapchainImageShared

(* Binding all that the requirements name binds the whole image: the whole    *)
(* range every plane, and the mip tail what no tile covers.                 *)
Covered(im, n, bind) ==
  UNION {r.at .. r.at + r.size - 1 : r \in OpaqueRows(im, n, bind)}
Tiles(nil) == UNION {{a * Stride(nil) + t : t \in 0 .. LayerTiles(nil) * Tile - 1} : a \in 0 .. nil.layers - 1}
RequirementsCover ==
  \A i \in Live : image[i].sparse =>
    LET im    == image[i]
        range == [tail |-> FALSE, offset |-> 0, size |-> Requirements(im, 1).size, from |-> 0]
        tail  == TailRequirements(im)
        whole(n) == 0 .. PlaneSize(im, im.planes[n]) - 1
    IN /\ \A n \in DOMAIN im.planes : Covered(im, n, range) = whole(n)
       /\ im.resident =>
            \A n \in DOMAIN im.planes :
              whole(n) = Covered(im, n, [range EXCEPT !.tail = tail.tail, !.size = tail.size])
                         \cup (IF n = 1 THEN Tiles(im.planes[1].nil) ELSE {})

(***************************************************************************)
(* The sparse images implement SparseBacking                                 *)
(***************************************************************************)
SparseInfos == {i \in infos : "binding" \in i.flags}
TheSparse   == CHOOSE i \in SparseInfos : TRUE
SparseShape ==
  IF SparseInfos = {} THEN [sizes |-> <<>>]
  ELSE LET im  == ImageInit(TheSparse)
           nil == im.planes[1].nil
       IN [w |-> nil.w, h |-> nil.h, d |-> nil.d, layers |-> nil.layers, tail |-> nil.tail,
           first |-> nil.first, sizes |-> [n \in DOMAIN im.planes |-> PlaneSize(im, im.planes[n])]]

SparseMap ==
  IF SparseInfos \cap Live = {} THEN <<>>
  ELSE LET im == image[TheSparse] IN [n \in DOMAIN im.planes |-> vas[im.planes[n].va]]

Backing == INSTANCE SparseBacking WITH shape <- SparseShape, call <- queue.last, backing <- SparseMap

(* Each bind gives the units it names the memory it says, and no other,       *)
(* however planes, rows and layers are cut.                                 *)
ImplementsBacking == Backing!Spec

(* A supported query of a sparse image says what its creation assumes of it,  *)
(* a single plane, and that there is a block to bind it by.                  *)
SparseSinglePlane ==
  query # <<>> /\ Supported(query) /\ {"binding", "residency"} \subseteq query.flags =>
    SparseAssertions(query) /\ (query.tiling # "drm" => SparseBlock(query))

(* An image can be made with every modifier listed for its format, and used   *)
(* for all that the list says.                                              *)
ListedModifiersSupported ==
  query # <<>> =>
    \A m \in ModifierList(query.format) :
      \A u \in {"src", "dst", "sampled", "storage", "color", "zs"} :
        FormatFeatures(query.format, "drm", m) \cap UsageFeatures(u) # {} =>
          /\ Supported([query EXCEPT !.tiling = "drm", !.mod = m, !.type = "2D", !.flags = {},
                                     !.usage = {u}, !.handle = "dma_buf"])
          /\ ModifierAssertions([query EXCEPT !.tiling = "drm"])

(* What the queries answer, creation can keep.                               *)
QueriesKept == SparseSinglePlane /\ ListedModifiersSupported
==============================================================================
