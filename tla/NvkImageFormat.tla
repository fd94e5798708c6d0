---------------------------- MODULE NvkImageFormat ----------------------------
(***************************************************************************)
(* What NVK says of an image before it exists (nvk_image.c): the features   *)
(* of a format, the modifiers it lists, whether a combination of format,    *)
(* tiling, type, flags and usage is supported, and the struct nvk_image     *)
(* that nvk_image_init makes of a create info.  The GPU is that of the      *)
(* Switch, a Maxwell B.                                                     *)
(*                                                                         *)
(* A plane format is a record of what NIL knows of it: caps, the units that *)
(* take it; pow2, whether its block size is a power of two; zs; coarse      *)
(* (R8_UINT); and its layouts tiled and linear.  A format has one or more   *)
(* plane formats, and is YCbCr or not.                                      *)
(***************************************************************************)
EXTENDS Integers, Sequences, FiniteSets

Tilings == {"optimal", "linear", "drm"}

(* The modifiers a client can name: linear, NVIDIA's block-linear ones, one  *)
(* of another vendor, and DRM_FORMAT_MOD_INVALID where there is none.       *)
Modifiers == {"linear", "block", "foreign", "invalid"}

If(condition, set) == IF condition THEN set ELSE {}

PlaneFeatures(p, tiling, mod) ==
  LET zs == "zs" \in p.caps
      f  == If("texture" \in p.caps, {"sampled", "blit_src"})
            \cup If("target" \in p.caps /\ tiling # "linear", {"color", "blit_dst"})
            \cup If(p.zs, {"zs"})
            \cup If("storage" \in p.caps, {"storage"})
            \cup If(p.coarse /\ tiling = "optimal", {"shading_rate"})
      supported ==
        /\ tiling = "drm" => mod \in {"linear", "block"}
        /\ p.pow2
        /\ p.zs => zs /\ tiling # "linear"
  IN IF ~supported \/ f = {} THEN {}
     ELSE f \cup {"src", "dst"} \cup If(~p.zs, {"host"})

Planes(format) == DOMAIN format.planes

(* The features of every plane of a format.                                 *)
AllPlanes(format, tiling, mod) ==
  LET of(i) == PlaneFeatures(format.planes[i], tiling, mod)
  IN {x \in of(1) : \A i \in Planes(format) : x \in of(i)}

FormatFeatures(format, tiling, mod) ==
  LET f == AllPlanes(format, tiling, mod)
  IN IF ~format.ycbcr \/ f = {} THEN f
     ELSE (f \ {"blit_src", "blit_dst", "color", "storage"})
          \cup If(Len(format.planes) > 1, {"disjoint"})

(* Mutant: the planes of YCbCr images may have modifiers too. *)
ModifierListOfAny(format) ==
  {m \in {"linear", "block"} : FormatFeatures(format, "drm", m) # {}}

(* nvk_get_drm_format_modifier_properties_list                              *)
ModifierList(format) ==
  IF format.ycbcr \/ PlaneFeatures(format.planes[1], "optimal", "invalid") = {} THEN {}
  ELSE {m \in {"linear", "block"} : FormatFeatures(format, "drm", m) # {}}

(* vk_image_usage_to_format_features: one of these is needed.               *)
UsageFeatures(u) ==
  CASE u = "src"     -> {"src", "blit_src"}
    [] u = "dst"     -> {"dst", "blit_dst"}
    [] u = "input"   -> {"color", "zs"}
    [] u \in {"sampled", "storage", "color", "zs", "shading_rate"} -> {u}
    [] OTHER         -> {}

(***************************************************************************)
(* nvk_GetPhysicalDeviceImageFormatProperties2.  A query i has a format,    *)
(* tiling, modifier, type, flags, usage, more samples than one or not, and  *)
(* the handle of external memory.                                          *)
(***************************************************************************)
Sparse(i) == i.flags \cap {"binding", "residency"} # {}

SparseSupported(i) ==
  /\ "residency" \in i.flags => i.type # "1D" /\ i.tiling # "linear"
  /\ i.format.d32s8 => ~({"cube", "residency"} \subseteq i.flags)
  /\ "array2d" \in i.flags => ~Sparse(i) /\ "aliased" \notin i.flags
  /\ "binding" \in i.flags => "host" \notin i.usage

PlanesSupported(i) ==
  /\ Len(i.format.planes) = 1 /\ "alias" \notin i.flags => "disjoint" \notin i.flags
  /\ i.format.ycbcr => i.type = "2D" /\ ~Sparse(i)

UsageSupported(i) ==
  \A u \in i.usage :
    "extended" \notin i.flags /\ UsageFeatures(u) # {} =>
      AllPlanes(i.format, i.tiling, i.mod) \cap UsageFeatures(u) # {}

HandleSupported(i) ==
  \/ i.handle \in {"none", "opaque_fd"}
  \/ i.handle = "dma_buf" /\ i.tiling # "optimal"

Supported(i) ==
  /\ AllPlanes(i.format, i.tiling, i.mod) # {}
  /\ i.tiling \in {"linear", "drm"} => i.type = "2D"
  /\ SparseSupported(i) /\ PlanesSupported(i) /\ UsageSupported(i) /\ HandleSupported(i)

(* What the properties returned tell apart: arrays, mip levels, samples.     *)
Limits(i) ==
  [layers  |-> i.type # "3D" /\ i.tiling = "optimal",
   levels  |-> ~i.format.ycbcr /\ i.tiling = "optimal",
   samples |-> /\ i.tiling = "optimal" /\ i.type = "2D" /\ ~i.format.ycbcr
               /\ AllPlanes(i.format, i.tiling, i.mod) \cap {"color", "zs"} # {}
               /\ "cube" \notin i.flags]

(* nvk_GetPhysicalDeviceSparseImageFormatProperties2: is there a block?      *)
SparseBlock(i) ==
  LET sparse == [i EXCEPT !.flags = {"binding", "residency"}, !.handle = "none", !.mod = "invalid"]
  IN Supported(sparse) /\ (i.multisampled => Limits(sparse).samples)

(***************************************************************************)
(* nvk_image_init.  The layouts are NIL's.                                  *)
(***************************************************************************)
(* nil_select_best_drm_format_mod on the list of a client, and what vk_image *)
(* has in the other tilings.                                                *)
SelectedModifier(i) == IF i.tiling = "drm" THEN i.mod ELSE "invalid"

Layout(p, i) ==
  IF i.tiling = "linear" \/ SelectedModifier(i) = "linear" THEN p.linear ELSE p.tiled

InitPlane(nil) == [nil |-> nil, va |-> "none", addr |-> <<>>, host |-> <<>>]

(* Its temporary for stencil copies, which goes behind the planes, and the   *)
(* tiled shadow of a linear image.                                          *)
StencilCopyTemp(i) == IF i.format.d32s8 THEN <<InitPlane(i.format.stencil)>> ELSE <<>>

TiledShadow(i) ==
  IF SelectedModifier(i) = "linear" THEN <<InitPlane(i.format.planes[1].tiled)>> ELSE <<>>

(* The usage a client asks for is widened to what meta operations need.      *)
WidenedUsage(i) ==
  i.usage \cup If(i.multisampled /\ i.usage \cap {"color", "zs"} # {}, {"sampled"})
          \cup If("src" \in i.usage, {"sampled"}) \cup If("dst" \in i.usage, {"color"})

ImageInit(i) ==
  [planes   |-> [n \in Planes(i.format) |-> InitPlane(Layout(i.format.planes[n], i))]
                \o StencilCopyTemp(i),
   count    |-> Len(i.format.planes),
   shadow   |-> TiledShadow(i),
   disjoint |-> Len(i.format.planes) > 1 /\ "disjoint" \in i.flags,
   sparse   |-> "binding" \in i.flags,
   resident |-> "residency" \in i.flags,
   usage    |-> WidenedUsage(i),
   asked    |-> <<>>]

(* The layouts of a format, ...                                             *)
LayoutsOf(format) ==
  {format.stencil} \cup UNION {{format.planes[n].tiled, format.planes[n].linear} : n \in DOMAIN format.planes}

(* ... and what NIL and the formats of Vulkan give: a layout has a size and   *)
(* an alignment; there are at most three planes, of which one that is not    *)
(* alone is YCbCr, and stencil behind depth is in a plane that is alone.      *)
IsLayout(nil) == {nil.size, nil.align} \subseteq Nat \ {0} /\ nil.kind \in Nat

IsFormat(format) ==
  /\ format.planes \in Seq({format.planes[n] : n \in DOMAIN format.planes})
  /\ Len(format.planes) \in 1 .. 3 /\ \A nil \in LayoutsOf(format) : IsLayout(nil)
  /\ Len(format.planes) > 1 => format.ycbcr /\ ~format.d32s8

(* A question names no number of samples.                                   *)
IsQuery(i) ==
  /\ i \in [format : {i.format}, tiling : Tilings, mod : Modifiers, type : {"1D", "2D", "3D"},
           flags : {i.flags}, usage : {i.usage}, multisampled : {FALSE}, handle : {i.handle}, id : {i.id}]
  /\ IsFormat(i.format)

(* What nvk_image_init and nvk_image_plane_alloc_va assert of a create info.  *)
SparseAssertions(i) == "residency" \in i.flags => Len(i.format.planes) = 1 /\ "binding" \in i.flags
ModifierAssertions(i) == i.tiling = "drm" => Len(i.format.planes) = 1

==============================================================================
