------------------------------ MODULE MCNvkImage ------------------------------
(***************************************************************************)
(* Create infos and queries for NvkImage.  Layouts are small: a unit is half *)
(* a page of the binding alignment, a tile one page.                        *)
(***************************************************************************)
EXTENDS NvkImage, TLC

Nil(size, align, kind) ==
  [size |-> size, align |-> align, kind |-> kind,
   w |-> 0, h |-> 0, d |-> 0, layers |-> 1, tail |-> size, first |-> 0]

(* Two layers of two by two tiles and a tail of a tile; tiles in depth; all   *)
(* in the tail.                                                             *)
Layered  == [Nil(20, 2, 1) EXCEPT !.w = 2, !.h = 2, !.d = 1, !.layers = 2, !.tail = 2, !.first = 1]
Deep     == [Nil(8, 2, 1) EXCEPT !.w = 2, !.h = 1, !.d = 2, !.layers = 1, !.tail = 0, !.first = 1]
Small    == Nil(4, 2, 1)

Plane(caps, tiled, linear) ==
  [caps |-> caps, pow2 |-> TRUE, zs |-> FALSE, coarse |-> FALSE, tiled |-> tiled, linear |-> linear]
ColorCaps == {"texture", "target", "storage"}

R8     == [Plane(ColorCaps, Nil(3, 2, 1), Nil(3, 2, 0)) EXCEPT !.coarse = TRUE]
RG8    == Plane(ColorCaps, Nil(2, 1, 1), Nil(2, 1, 0))
RGB8   == [Plane({"texture"}, Nil(3, 1, 0), Nil(3, 1, 0)) EXCEPT !.pow2 = FALSE]
Bc1    == Plane({"texture"}, Nil(2, 2, 1), Nil(2, 1, 0))
D32(t) == [Plane({"texture", "zs"}, t, Nil(3, 1, 0)) EXCEPT !.zs = TRUE]
Color(t) == Plane(ColorCaps, t, Nil(3, 1, 0))

Format(planes) == [planes |-> planes, ycbcr |-> FALSE, d32s8 |-> FALSE, stencil |-> Nil(4, 2, 1)]
Nv12           == [Format(<<R8, RG8>>) EXCEPT !.ycbcr = TRUE]
Yuyv           == [Format(<<RG8>>) EXCEPT !.ycbcr = TRUE]
D32S8(t)       == [Format(<<D32(t)>>) EXCEPT !.d32s8 = TRUE]

Info(format) ==
  [format |-> format, tiling |-> "optimal", mod |-> "invalid", type |-> "2D", flags |-> {},
   usage |-> {"sampled"}, multisampled |-> FALSE, handle |-> "none", id |-> 0]

Wsi        == [Info(Format(<<R8>>)) EXCEPT !.usage = {"color"}]
AliasOfWsi == [Wsi EXCEPT !.id = 1]
Disjoint   == [Info(Nv12) EXCEPT !.flags = {"disjoint"}]
Planar     == [Info(Nv12) EXCEPT !.id = 2]
Host       == [Info(Nv12) EXCEPT !.usage = {"host", "dst"}, !.tiling = "linear"]
Depth      == [Info(D32S8(Nil(3, 2, 1))) EXCEPT !.usage = {"zs"}, !.multisampled = TRUE]
Scanout    == [Info(Format(<<R8>>)) EXCEPT !.tiling = "drm", !.mod = "linear"]

SparseInfo(format) == [Info(format) EXCEPT !.flags = {"binding", "residency"}]
SparseDepth == SparseInfo(D32S8(Layered))
SparseDeep  == [SparseInfo(Format(<<Color(Deep)>>)) EXCEPT !.type = "3D"]
SparseSmall == SparseInfo(D32S8(Small))

AllScenarios ==
  {{}, {Wsi, AliasOfWsi}, {Disjoint, Scanout}, {Host, Depth}, {Planar}, {SparseDepth}, {SparseDeep}, {SparseSmall}}
Aliases == AliasOfWsi :> Wsi

Formats == {Format(<<R8>>), Format(<<RGB8>>), Format(<<Bc1>>), Nv12, Yuyv, D32S8(Small)}
Asked(formats, tilings) ==
  [format : formats, tiling : tilings, mod : {"linear", "block", "foreign"}, type : {"2D", "3D"},
   flags : SUBSET {"binding", "residency", "disjoint"} \cup {{"cube", "residency", "binding"}, {"array2d"}},
   usage : {{"sampled"}, {"storage", "src"}, {"color", "dst"}, {"zs"}, {"host"}},
   multisampled : {FALSE}, handle : {"none", "dma_buf"}, id : {0}]

(* A sparse image without residency does not exist in the queries: a client   *)
(* sets the two flags together.                                             *)
AllQueries == {q \in Asked(Formats, Tilings) : "residency" \in q.flags => "binding" \in q.flags}

Symmetry == Permutations(Vas) \cup Permutations(Mems)
==============================================================================
