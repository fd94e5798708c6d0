---------------------------- MODULE DrmShimDevice ----------------------------
(***************************************************************************)
(* The device half of src/winsys/drm_shim.c: the libdrm replacement that   *)
(* lets Mesa NVK drive the Switch GPU through libnx.  One global device,   *)
(* g_dev, guarded by one mutex, holds a table of buffer objects (BOs), a   *)
(* table of GPFIFO channels and the address space they are mapped in.      *)
(*                                                                         *)
(* Every entry point holds g_dev.lock from its first access to its last,   *)
(* except that nouveau_dispatch reads nv_up BEFORE it takes the lock; so   *)
(* an entry point is one action, and a thread that has passed the nv_up    *)
(* test waits in "inside" while others run.  VM_BIND alone takes several   *)
(* actions: its loop over the request's operations, with the lock held.    *)
(*                                                                         *)
(* Kernel-side objects (libnx services, nvmap objects, channels, mappings) *)
(* are kept apart from the shim's own tables, so that a table entry and    *)
(* the object it stands for can disagree.                                  *)
(***************************************************************************)
EXTENDS Integers, FiniteSets, Sequences

CONSTANTS
  NBos,       \* SHIM_MAX_BOS: the slots of bos[]
  NChannels,  \* SHIM_MAX_CHANNELS: the slots of channels[]
  NPages,     \* pages of the reserved small-page VA arena
  MaxSize,    \* bound on the size of a BO, in pages
  MaxOpen,    \* bound on the number of times the device is held open
  Threads,    \* client threads
  NoThread,   \* value of lock when no thread holds it across steps
  ClientLeaks \* whether the client may close the device with BOs or channels
              \* still open, which NVK does not

(***************************************************************************)
(* The client binds what NVK binds: any part of a BO (the offset into it   *)
(* is not kept by the shim, nor here), at as many addresses as it likes,   *)
(* since an image, each of its planes and a sparse range have addresses of *)
(* their own besides the one of the memory; and at addresses where BOs     *)
(* still open were bound before, since NVK frees an address before the     *)
(* memory.                                                                 *)
(***************************************************************************)
ASSUME DeviceAssumption ==
  /\ NBos \in Nat \ {0}
  /\ NChannels \in Nat \ {0}
  /\ NPages \in Nat \ {0}
  /\ MaxSize \in Nat \ {0}
  /\ MaxOpen \in Nat \ {0}
  /\ NoThread \notin Threads
  /\ ClientLeaks \in BOOLEAN

Slots      == 1 .. NBos
ChanSlots  == 1 .. NChannels
ArenaPages == 1 .. NPages

(* Where nvAddressSpaceMap puts an internal BO: outside the arena and clear *)
(* of every other BO.                                                       *)
AutoVa(s) == NPages + MaxSize + s
Vas       == 1 .. (NPages + MaxSize + NBos)

(* The libnx services in the order shim_nv_up brings them up. *)
Services == <<"nv", "fence", "map", "gpu", "as">>
UpTo(k)  == {Services[i] : i \in 1 .. k}

Orphan == -1   \* owner of a mapping whose nvmap object has been closed
NoMap  == [obj |-> 0, len |-> 0]

Bo   == [used : BOOLEAN, size : 0 .. MaxSize, gpu_mapped : BOOLEAN,
         gpu_va : {0} \cup Vas]
Chan == [used : BOOLEAN, cmdbuf_bo : {0} \cup Slots, zcull_bo : {0} \cup Slots,
         engines_bound : BOOLEAN]

Mapping == [obj : {Orphan, 0} \cup Slots, len : 0 .. MaxSize]

ZeroBo   == [used |-> FALSE, size |-> 0, gpu_mapped |-> FALSE, gpu_va |-> 0]
ZeroChan == [used |-> FALSE, cmdbuf_bo |-> 0, zcull_bo |-> 0, engines_bound |-> FALSE]

VARIABLES
  refcnt,    \* g_dev.refcnt
  nv_up,     \* g_dev.nv_up
  arena,     \* g_dev.va_base # 0: the arena was reserved
  bos,       \* g_dev.bos
  channels,  \* g_dev.channels
  lock,      \* the thread inside VM_BIND's loop, or NoThread
  inside,    \* threads past nouveau_dispatch's nv_up test
  services,  \* libnx services initialised
  nvmaps,    \* slots whose nvmap object is open in the kernel
  hwchans,   \* slots whose GPFIFO channel is open in the kernel
  queued,    \* channels whose ring holds a SET_OBJECT list not kicked off yet
  bound,     \* open channels on which the GPU has the engine classes bound
  executed,  \* open channels on which the GPU was given a client pushbuf
  asmap,     \* the address space: the mapping that begins at each address
  last       \* where the client last bound the BO of each slot, 0 if nowhere:
             \* history, to say what gpu_va should be

shimVars   == <<refcnt, nv_up, arena, bos, channels, lock, inside>>
chanKernel == <<hwchans, queued, bound, executed>>
kernelVars == <<services, nvmaps, chanKernel, asmap>>
vars       == <<shimVars, kernelVars, last>>

TypeOK ==
  /\ refcnt \in 0 .. MaxOpen
  /\ nv_up \in BOOLEAN /\ arena \in BOOLEAN
  /\ bos \in [Slots -> Bo]
  /\ channels \in [ChanSlots -> Chan]
  /\ lock \in Threads \cup {NoThread}
  /\ inside \subseteq Threads
  /\ services \subseteq UpTo(5)
  /\ nvmaps \subseteq Slots
  /\ hwchans \subseteq ChanSlots /\ queued \subseteq ChanSlots
  /\ bound \subseteq ChanSlots /\ executed \subseteq ChanSlots
  /\ asmap \in [Vas -> Mapping]
  /\ last \in [Slots -> {0} \cup ArenaPages]

UsedBos   == {s \in Slots : bos[s].used}
ClientBos == {s \in UsedBos : ~bos[s].gpu_mapped}
UsedChans == {c \in ChanSlots : channels[c].used}

(* The slot a linear search for a free entry of table finds. *)
FirstFree(table, s) == ~table[s].used /\ \A r \in DOMAIN table : r < s => table[r].used

-----------------------------------------------------------------------------
(* The address space, as the shim's calls change it. *)

Extent(as, p) == p .. (p + as[p].len - 1)

(* A fixed mapping is accepted only in the reserved arena, over no other. *)
Fits(p, len) ==
  /\ nv_up /\ arena
  /\ p .. (p + len - 1) \subseteq ArenaPages
  /\ \A q \in ArenaPages : Extent(asmap, q) \cap (p .. (p + len - 1)) = {}

Map(as, va, s, len) == [as EXCEPT ![va] = [obj |-> s, len |-> len]]
Unmap(as, va)       == [as EXCEPT ![va] = NoMap]

(* A mapping keeps its pages after nvMapClose of its buffer. *)
CloseMap(as, s) ==
  [va \in Vas |-> IF as[va].obj = s THEN [as[va] EXCEPT !.obj = Orphan] ELSE as[va]]

-----------------------------------------------------------------------------
(* Lifecycle: drm_shim_open, drm_shim_close, shim_nv_up, shim_nv_down. *)

Init ==
  /\ refcnt = 0 /\ nv_up = FALSE /\ arena = FALSE
  /\ bos = [s \in Slots |-> ZeroBo]
  /\ channels = [c \in ChanSlots |-> ZeroChan]
  /\ lock = NoThread /\ inside = {}
  /\ services = {} /\ nvmaps = {}
  /\ hwchans = {} /\ queued = {} /\ bound = {} /\ executed = {}
  /\ asmap = [va \in Vas |-> NoMap]
  /\ last = [s \in Slots |-> 0]

NvUp ==
  /\ services' = UpTo(5)
  /\ arena' \in BOOLEAN  \* a failed reservation is logged and tolerated
  /\ nv_up' = TRUE

CascadeOffByOne(k) == UpTo(IF k > 1 THEN k - 2 ELSE 0)

(* The services released by the labels that run when stage k fails. *)
Cascade(k) == UpTo(k - 1)

NvUpFails ==
  \E k \in 1 .. 5 :
    /\ services' = (services \cup UpTo(k - 1)) \ Cascade(k)
    /\ UNCHANGED <<nv_up, arena>>

Open ==
  /\ lock = NoThread
  /\ \/ /\ refcnt = 0
        /\ \/ NvUp /\ refcnt' = 1
           \/ NvUpFails /\ UNCHANGED refcnt
     \/ /\ refcnt \in 1 .. (MaxOpen - 1)
        /\ refcnt' = refcnt + 1
        /\ UNCHANGED <<services, nv_up, arena>>
  /\ UNCHANGED <<bos, channels, lock, inside, nvmaps, chanKernel, asmap, last>>

(* shim_nv_down clears "used" and nothing else of a table entry. *)
NvDown ==
  /\ channels' = [c \in ChanSlots |-> [channels[c] EXCEPT !.used = FALSE]]
  /\ hwchans' = hwchans \ UsedChans
  /\ queued' = queued \ UsedChans
  /\ bound' = bound \ UsedChans
  /\ executed' = executed \ UsedChans
  /\ bos' = [s \in Slots |-> [bos[s] EXCEPT !.used = FALSE]]
  /\ nvmaps' = nvmaps \ UsedBos
  /\ asmap' = [va \in Vas |-> NoMap]  \* nvAddressSpaceClose drops every mapping
  /\ arena' = FALSE
  /\ services' = {}
  /\ nv_up' = FALSE
  /\ last' = [s \in Slots |-> 0]

MayCloseDevice == ClientLeaks \/ (ClientBos = {} /\ UsedChans = {})

CloseUnguarded ==
  /\ lock = NoThread
  /\ refcnt' = refcnt - 1
  /\ \/ refcnt = 1 /\ MayCloseDevice /\ NvDown
     \/ /\ refcnt # 1
        /\ UNCHANGED <<nv_up, arena, bos, channels, kernelVars, last>>
  /\ UNCHANGED <<lock, inside>>

Close ==
  /\ lock = NoThread
  /\ refcnt > 0
  /\ refcnt' = refcnt - 1
  /\ \/ refcnt = 1 /\ MayCloseDevice /\ NvDown
     \/ /\ refcnt > 1
        /\ UNCHANGED <<nv_up, arena, bos, channels, kernelVars, last>>
  /\ UNCHANGED <<lock, inside>>

(* nouveau_dispatch tests nv_up without the lock, then queues for the lock. *)
Enter(t) ==
  /\ t \notin inside
  /\ nv_up
  /\ inside' = inside \cup {t}
  /\ UNCHANGED <<refcnt, nv_up, arena, bos, channels, lock, kernelVars, last>>

(* A handler of thread t runs from lock to unlock in this step. *)
Handler(t) ==
  /\ t \in inside
  /\ lock = NoThread
  /\ inside' = inside \ {t}
  /\ UNCHANGED <<refcnt, nv_up, arena, lock, services, last>>

-----------------------------------------------------------------------------
(* Buffer objects. *)

(* shim_bo_alloc_locked writes used, size and gpu_mapped; gpu_va keeps what *)
(* the slot's last BO left there.                                           *)
AllocBo(b, s, size) ==
  [b EXCEPT ![s] = [@ EXCEPT !.used = TRUE, !.size = size, !.gpu_mapped = FALSE]]

GemNew(t, s, size) ==
  /\ Handler(t)
  /\ FirstFree(bos, s)
  /\ nv_up  \* nvMapCreate fails on a device that is down
  /\ bos' = AllocBo(bos, s, size)
  /\ nvmaps' = nvmaps \cup {s}
  /\ UNCHANGED <<channels, chanKernel, asmap>>

(* No free slot, no memory, nvMapCreate or nvGpuChannelCreate refused, or a *)
(* handler that changes no table: GETPARAM, NVIF, VM_INIT, GEM_INFO,        *)
(* GEM_CPU_PREP, an EXEC with nothing to push.                              *)
NoChange(t) == Handler(t) /\ UNCHANGED <<bos, channels, nvmaps, chanKernel, asmap>>

(* The address drmCloseBufferHandle unmaps; 0 when it unmaps none. *)
ReleasedVa(b) == IF b.gpu_mapped THEN 0 ELSE b.gpu_va

(* drmCloseBufferHandle does not test nv_up. *)
CloseBuffer(s) ==
  /\ lock = NoThread
  /\ s \in ClientBos
  /\ LET va == ReleasedVa(bos[s])
     IN  asmap' = CloseMap(IF va = 0 THEN asmap ELSE Unmap(asmap, va), s)
  /\ nvmaps' = nvmaps \ {s}
  /\ bos' = [bos EXCEPT ![s] = ZeroBo]
  /\ last' = [last EXCEPT ![s] = 0]
  /\ UNCHANGED <<refcnt, nv_up, arena, channels, lock, inside, services, chanKernel>>

Covers(b, va) == b.used /\ b.gpu_va # 0 /\ va >= b.gpu_va /\ va < b.gpu_va + b.size

(* drm_shim_bo_nvmap_by_va: the slot whose nvmap it returns, 0 for false. *)
NvmapByVa(va) ==
  IF \E s \in Slots : Covers(bos[s], va)
  THEN CHOOSE s \in Slots : Covers(bos[s], va) /\ \A r \in Slots : r < s => ~Covers(bos[r], va)
  ELSE 0

-----------------------------------------------------------------------------
(* VM_BIND: the loop of nouveau_vm_bind over vm_bind_op, lock held.  The    *)
(* operations of the request are chosen as the loop reaches them.           *)

VmBindBegin(t) ==
  /\ t \in inside
  /\ lock = NoThread
  /\ lock' = t
  /\ UNCHANGED <<refcnt, nv_up, arena, bos, channels, inside, kernelVars, last>>

RecordFirstVa(b, p) == IF b.gpu_va = 0 THEN [b EXCEPT !.gpu_va = p] ELSE b

(* A BO remembers the last address it was bound at. *)
RecordVa(b, p) == [b EXCEPT !.gpu_va = p]

VmBindMap(t, s, p, len) ==
  /\ lock = t
  /\ s \in ClientBos /\ len <= bos[s].size
  /\ Fits(p, len)
  /\ asmap' = Map(asmap, p, s, len)
  /\ bos' = [bos EXCEPT ![s] = RecordVa(@, p)]
  /\ last' = [last EXCEPT ![s] = p]
  /\ UNCHANGED <<refcnt, nv_up, arena, channels, lock, inside, services, nvmaps, chanKernel>>

(* OP_UNMAP, or OP_MAP with no handle and no SPARSE flag: the address is    *)
(* unmapped, and no BO forgets it.                                          *)
VmBindUnmap(t, p) ==
  /\ lock = t
  /\ asmap' = Unmap(asmap, p)
  /\ UNCHANGED <<refcnt, nv_up, arena, bos, channels, lock, inside, services, nvmaps, chanKernel, last>>

(* The last operation is done, or one has failed and the rest are dropped.  *)
VmBindReturn(t) ==
  /\ lock = t
  /\ lock' = NoThread
  /\ inside' = inside \ {t}
  /\ UNCHANGED <<refcnt, nv_up, arena, bos, channels, kernelVars, last>>

-----------------------------------------------------------------------------
(* Channels. *)

(* shim_internal_bo_locked: a one-page BO mapped where the kernel likes. *)
InternalBo(b, s) ==
  [b EXCEPT ![s] = [used |-> TRUE, size |-> 1, gpu_mapped |-> TRUE, gpu_va |-> AutoVa(s)]]
MapInternal(as, s) == Map(as, AutoVa(s), s, 1)

ReleaseBo(b, s)        == [b EXCEPT ![s] = ZeroBo]
UnmapInternal(as, b, s) == CloseMap(Unmap(as, b[s].gpu_va), s)

(* Success: a zcull BO at z and a command BO at m; engines_bound is not     *)
(* written.                                                                 *)
ChannelAlloc(t, c, z, m) ==
  /\ Handler(t)
  /\ nv_up
  /\ FirstFree(channels, c) /\ FirstFree(bos, z) /\ FirstFree(InternalBo(bos, z), m)
  /\ bos' = InternalBo(InternalBo(bos, z), m)
  /\ nvmaps' = nvmaps \cup {z, m}
  /\ asmap' = MapInternal(MapInternal(asmap, z), m)
  /\ channels' = [channels EXCEPT ![c] = [@ EXCEPT !.used = TRUE, !.zcull_bo = z, !.cmdbuf_bo = m]]
  /\ hwchans' = hwchans \cup {c}
  /\ UNCHANGED <<queued, bound, executed>>

(* Label fail_chan: the zcull BO could not be made.  A BO whose GPU mapping *)
(* failed leaves its slot zeroed.                                           *)
ChannelAllocFailsEarly(t, c) ==
  /\ Handler(t)
  /\ nv_up
  /\ FirstFree(channels, c)
  /\ \/ UNCHANGED bos
     \/ \E z \in Slots : FirstFree(bos, z) /\ bos' = ReleaseBo(bos, z)
  /\ channels' = [channels EXCEPT ![c] = ZeroChan]
  /\ UNCHANGED <<nvmaps, asmap, chanKernel>>

AfterFailNoClose(maps, z) == maps

(* The nvmap objects left once label fail_bos has released slot z. *)
AfterFail(maps, z) == maps \ {z}

(* Label fail_bos: the zcull BO exists, then nvGpuChannelZcullBind or the   *)
(* command BO fails, the latter perhaps with a slot zeroed.                 *)
ChannelAllocFailsLate(t, c, z) ==
  /\ Handler(t)
  /\ nv_up
  /\ FirstFree(channels, c) /\ FirstFree(bos, z)
  /\ LET b1 == InternalBo(bos, z)
     IN  \/ bos' = ReleaseBo(b1, z)
         \/ \E m \in Slots : FirstFree(b1, m) /\ bos' = ReleaseBo(ReleaseBo(b1, m), z)
  /\ nvmaps' = AfterFail(nvmaps \cup {z}, z)
  /\ asmap' = UnmapInternal(MapInternal(asmap, z), InternalBo(bos, z), z)
  /\ channels' = [channels EXCEPT ![c] = ZeroChan]
  /\ UNCHANGED chanKernel

FreedBosCmdbufOnly(ch) == {ch.cmdbuf_bo}

(* The internal BOs nouveau_channel_free gives back. *)
FreedBos(ch) == {s \in {ch.cmdbuf_bo, ch.zcull_bo} : s # 0 /\ bos[s].used}

ClearedKeepsEngines(ch) == [ZeroChan EXCEPT !.engines_bound = ch.engines_bound]

(* memset of the channel entry. *)
Cleared(ch) == ZeroChan

ChannelFree(t, c) ==
  /\ Handler(t)
  /\ c \in UsedChans
  /\ LET freed == FreedBos(channels[c])
     IN  /\ bos' = [s \in Slots |-> IF s \in freed THEN ZeroBo ELSE bos[s]]
         /\ nvmaps' = nvmaps \ freed
         /\ asmap' = [va \in Vas |-> IF \E s \in freed : bos[s].gpu_va = va THEN NoMap ELSE asmap[va]]
  /\ channels' = [channels EXCEPT ![c] = Cleared(@)]
  /\ hwchans' = hwchans \ {c}
  /\ queued' = queued \ {c}
  /\ bound' = bound \ {c}
  /\ executed' = executed \ {c}

(* EXEC with pushbufs.  The first one of a channel puts the SET_OBJECT list *)
(* in the ring ahead of them; a kickoff that fails leaves the ring as it is *)
(* for the next one, with the flag already set.                             *)
Exec(t, c) ==
  /\ Handler(t)
  /\ c \in UsedChans
  /\ channels' = [channels EXCEPT ![c].engines_bound = TRUE]
  /\ LET ring == IF channels[c].engines_bound THEN queued ELSE queued \cup {c}
     IN  \/ /\ bound' = bound \cup ({c} \cap ring)
            /\ queued' = ring \ {c}
            /\ executed' = executed \cup {c}
         \/ /\ queued' = ring
            /\ UNCHANGED <<bound, executed>>
  /\ UNCHANGED <<bos, nvmaps, hwchans, asmap>>

-----------------------------------------------------------------------------
ChannelOp(t) ==
  \E c \in ChanSlots :
    \/ \E z, m \in Slots : ChannelAlloc(t, c, z, m)
    \/ ChannelAllocFailsEarly(t, c)
    \/ \E z \in Slots : ChannelAllocFailsLate(t, c, z)
    \/ ChannelFree(t, c)
    \/ Exec(t, c)

VmBindOp(t) ==
  \/ VmBindBegin(t)
  \/ \E s \in Slots, p \in ArenaPages, len \in 1 .. MaxSize : VmBindMap(t, s, p, len)
  \/ \E p \in ArenaPages : VmBindUnmap(t, p)
  \/ VmBindReturn(t)

Next ==
  \/ Open
  \/ Close
  \/ \E s \in Slots : CloseBuffer(s)
  \/ \E t \in Threads :
       \/ Enter(t)
       \/ NoChange(t)
       \/ \E s \in Slots, size \in 1 .. MaxSize : GemNew(t, s, size)
       \/ VmBindOp(t)
       \/ ChannelOp(t)

Spec == Init /\ [][Next]_vars

-----------------------------------------------------------------------------
(* Properties. *)

(* The zero-copy presenter finds the memory of a swapchain image by its GPU *)
(* address.  Wherever the GPU has a client BO mapped, that search should    *)
(* return that BO, as its comment promises.  It does not: one remembered    *)
(* address and the size of the whole BO are not enough for a BO bound at    *)
(* two addresses, or by a part, or unbound since.                           *)
LookupFindsBoundBo ==
  \A p, q \in ArenaPages :
    asmap[p].obj \in Slots /\ q \in Extent(asmap, p) => NvmapByVa(q) = asmap[p].obj

(* Whatever failed on the way, an internal BO belongs to exactly one open   *)
(* channel, as its zcull context or its command list, and every open        *)
(* channel has both: no failure path leaks one, frees one twice or shares   *)
(* one.                                                                     *)
Owns(c, s) == channels[c].zcull_bo = s \/ channels[c].cmdbuf_bo = s
InternalBosOwned ==
  /\ \A c \in UsedChans :
       /\ channels[c].zcull_bo # channels[c].cmdbuf_bo
       /\ {channels[c].zcull_bo, channels[c].cmdbuf_bo} \subseteq UsedBos \ ClientBos
  /\ \A s \in UsedBos \ ClientBos :
       \E c \in UsedChans : Owns(c, s) /\ \A d \in UsedChans : Owns(d, s) => d = c

(* The kernel holds exactly the objects the tables know of: a failed step   *)
(* of bring-up, of BO or channel creation, or the last close, leaves none   *)
(* open that nothing will close, and frees none that is still in a table.   *)
(* A handler that a thread entered before the device went down finds and    *)
(* makes nothing.                                                           *)
KernelObjectsMatch ==
  /\ nvmaps = UsedBos
  /\ hwchans = UsedChans
  /\ nv_up => services = UpTo(5)
  /\ ~nv_up => services = {}
  /\ nv_up <=> refcnt > 0
  /\ ~nv_up => \A va \in Vas : asmap[va] = NoMap

(* No client pushbuf reaches the GPU on a channel whose subchannels have no *)
(* engine class bound (it would MMU-fault), however often kickoff failed    *)
(* before and whatever the channel slot was used for earlier.               *)
WorkOnBoundEngines == executed \subseteq bound

(* The shim implements GPU virtual memory as GpuVm states it, whatever the  *)
(* client binds where: bindings change only as VM_BIND and the end of a BO  *)
(* ask, at the one address that BO was last bound at, and never by what     *)
(* happens to internal BOs, failing channels or an earlier user of a slot.  *)
Vm == INSTANCE GpuVm WITH
        Bos   <- Slots,
        Pages <- ArenaPages,
        Lens  <- 1 .. MaxSize,
        Gone  <- Orphan,
        live  <- UsedBos,
        binds <- [p \in ArenaPages |-> asmap[p]]
ImplementsGpuVm == Vm!Spec
==============================================================================
