------------------------------ MODULE NvkGfxState ------------------------------
(***************************************************************************)
(* How nvk_cmd_draw.c turns the graphics state a command buffer has        *)
(* recorded into registers of the 3D engine.                               *)
(*                                                                         *)
(* Every register the nvk_flush_*_state functions write has a row: the     *)
(* dynamic states whose dirty bits make the function write it, and the     *)
(* value it writes.  A register is written when one of its states is       *)
(* dirty, and holds what it held before when none is.  What goes through   *)
(* an MME macro instead follows the rows.                                  *)
(*                                                                         *)
(* c is the state of the command buffer: c.dyn the value of each dynamic   *)
(* state, c.dirty the dirty ones, c.render the rendering in progress.      *)
(***************************************************************************)
EXTENDS NvkMme, TLC

CONSTANTS
  Unknown,            \* what a register holds that nothing has written
  ResetClip,          \* VIEWPORT_CLIP_MIN/MAX_Z of a new channel: never initialised
  DepthClampZeroOne   \* depthClampZeroOne on, without EXT_depth_range_unrestricted

Unused == -1          \* MESA_VK_ATTACHMENT_UNUSED

(* The states whose value is written as it is. *)
PlainRs == {"RS_RASTERIZER_DISCARD_ENABLE", "RS_POLYGON_MODE", "RS_FRONT_FACE",
  "RS_PROVOKING_VERTEX", "RS_DEPTH_BIAS_ENABLE", "RS_DEPTH_BIAS_FACTORS", "RS_LINE_WIDTH",
  "RS_LINE_MODE", "RS_LINE_STIPPLE_ENABLE", "RS_LINE_STIPPLE", "RS_RASTERIZATION_STREAM"}
PlainDs == {"DS_DEPTH_COMPARE_OP", "DS_DEPTH_BOUNDS_TEST_BOUNDS", "DS_STENCIL_OP",
  "DS_STENCIL_COMPARE_MASK", "DS_STENCIL_WRITE_MASK", "DS_STENCIL_REFERENCE"}
PlainCb == {"CB_LOGIC_OP_ENABLE", "CB_LOGIC_OP", "CB_BLEND_CONSTANTS"}
Plain   == PlainRs \cup PlainDs \cup PlainCb
           \cup {"IA_PRIMITIVE_RESTART_ENABLE", "MS_SAMPLE_MASK"}

DynStates == Plain \cup {"VI", "VI_BINDINGS_VALID", "VI_BINDING_STRIDES",
  "IA_PRIMITIVE_TOPOLOGY", "TS_PATCH_CONTROL_POINTS", "TS_DOMAIN_ORIGIN",
  "VP_VIEWPORT_COUNT", "VP_VIEWPORTS", "VP_SCISSOR_COUNT", "VP_SCISSORS",
  "VP_DEPTH_CLIP_NEGATIVE_ONE_TO_ONE", "VP_DEPTH_CLAMP_RANGE", "RS_DEPTH_CLAMP_ENABLE",
  "RS_DEPTH_CLIP_ENABLE", "RS_CULL_MODE", "RS_CONSERVATIVE_MODE",
  "RS_EXTRA_PRIMITIVE_OVERESTIMATION_SIZE", "MS_RASTERIZATION_SAMPLES",
  "MS_ALPHA_TO_COVERAGE_ENABLE", "MS_ALPHA_TO_ONE_ENABLE", "MS_SAMPLE_LOCATIONS",
  "MS_SAMPLE_LOCATIONS_ENABLE", "DS_DEPTH_TEST_ENABLE", "DS_DEPTH_WRITE_ENABLE",
  "DS_DEPTH_BOUNDS_TEST_ENABLE", "DS_STENCIL_TEST_ENABLE", "CB_BLEND_ENABLES",
  "CB_BLEND_EQUATIONS", "CB_WRITE_MASKS", "CB_COLOR_WRITE_ENABLES", "RP_ATTACHMENTS",
  "COLOR_ATTACHMENT_MAP"}

Row(reg, on, val)    == [r \in {<<reg, 0>>} |-> [on |-> on, val |-> val]]
PlainRows(c, states) == [r \in states \X {0} |-> [on |-> {r[1]}, val |-> c.dyn[r[1]]]]

(* Rows of different registers together. *)
Merge(parts) ==
  [r \in UNION {DOMAIN parts[i] : i \in DOMAIN parts} |->
    parts[CHOOSE i \in DOMAIN parts : r \in DOMAIN parts[i]][r]]

(***************************************************************************)
(* The rows of each nvk_flush_*_state function                             *)
(***************************************************************************)
ViRows(c) ==
  LET on == {"VI", "VI_BINDINGS_VALID"}
  IN Merge(<<Row("VERTEX_ATTRIBUTE_A", on, c.dyn["VI"]),
             [r \in {"VERTEX_STREAM_FREQUENCY"} \X c.dyn["VI_BINDINGS_VALID"] |->
               [on |-> on, val |-> c.dyn["VI"]]]>>)

IaRows(c) ==
  LET topology == c.dyn["IA_PRIMITIVE_TOPOLOGY"]
  IN Merge(<<Row("DRAW_BEGIN", {"IA_PRIMITIVE_TOPOLOGY"},
                 IF topology = "meta_rect_list" THEN "triangle_list" ELSE topology),
             PlainRows(c, {"IA_PRIMITIVE_RESTART_ENABLE"})>>)

TsRows(c) ==
  LET points == c.dyn["TS_PATCH_CONTROL_POINTS"]
  IN Row("PATCH", {"TS_PATCH_CONTROL_POINTS"}, IF points = 0 THEN 1 ELSE points)

ViewportStates ==
  {"VP_VIEWPORTS", "VP_DEPTH_CLIP_NEGATIVE_ONE_TO_ONE", "VP_DEPTH_CLAMP_RANGE"}

(* A scissor is written when the scissors are dirty, and one beyond their   *)
(* count is disabled when the count is.                                     *)
VpRows(c) ==
  LET dyn == c.dyn
      viewport(i) == <<dyn["VP_VIEWPORTS"][i], dyn["VP_DEPTH_CLIP_NEGATIVE_ONE_TO_ONE"]>>
  IN Merge(<<[r \in {"VIEWPORT"} \X (1 .. dyn["VP_VIEWPORT_COUNT"]) |->
               [on |-> ViewportStates, val |-> viewport(r[2])]],
             [r \in {"SCISSOR"} \X Viewports |->
               IF r[2] <= dyn["VP_SCISSOR_COUNT"]
               THEN [on |-> {"VP_SCISSORS"}, val |-> dyn["VP_SCISSORS"][r[2]]]
               ELSE [on |-> {"VP_SCISSOR_COUNT"}, val |-> "disabled"]],
             Row("VIEWPORT_Z_CLIP", {"VP_DEPTH_CLIP_NEGATIVE_ONE_TO_ONE"},
                 dyn["VP_DEPTH_CLIP_NEGATIVE_ONE_TO_ONE"])>>)

ZClampZeroOne(c) == c.render.depth # "float" \/ DepthClampZeroOne

(* vk_rasterization_state_depth_clip_enable *)
ZClip(c) == IF c.dyn["RS_DEPTH_CLIP_ENABLE"] = "not_clamp"
            THEN ~c.dyn["RS_DEPTH_CLAMP_ENABLE"] ELSE c.dyn["RS_DEPTH_CLIP_ENABLE"] = "on"

RsRows(c) ==
  LET clamp == c.dyn["RS_DEPTH_CLAMP_ENABLE"]
      cull  == c.dyn["RS_CULL_MODE"]
  IN Merge(<<
       Row("VIEWPORT_CLIP_CONTROL", {"RS_DEPTH_CLIP_ENABLE", "RS_DEPTH_CLAMP_ENABLE"},
           [min_z_zero_max_z_one |-> ~clamp /\ ZClampZeroOne(c), geometry_clip |-> ZClip(c)]),
       Row("OGL_SET_CULL", {"RS_CULL_MODE"}, cull # "none"),
       [r \in {<<"OGL_SET_CULL_FACE", 0>> : face \in {cull} \ {"none"}} |->
         [on |-> {"RS_CULL_MODE"}, val |-> cull]],
       Row("CONSERVATIVE_RASTER",
           {"RS_CONSERVATIVE_MODE", "RS_EXTRA_PRIMITIVE_OVERESTIMATION_SIZE"},
           c.dyn["RS_CONSERVATIVE_MODE"]),
       PlainRows(c, PlainRs)>>)

SampleCount(c) == IF c.dyn["MS_RASTERIZATION_SAMPLES"] = 0 THEN 1
                                                          ELSE c.dyn["MS_RASTERIZATION_SAMPLES"]
SampleLocations(c) ==
  IF c.dyn["MS_SAMPLE_LOCATIONS_ENABLE"] THEN c.dyn["MS_SAMPLE_LOCATIONS"]
                                         ELSE <<"standard", SampleCount(c)>>
SampleLocationStates ==
  {"MS_RASTERIZATION_SAMPLES", "MS_SAMPLE_LOCATIONS", "MS_SAMPLE_LOCATIONS_ENABLE"}

MsRows(c) ==
  Merge(<<
    Row("ANTI_ALIAS_ALPHA_CONTROL", {"MS_ALPHA_TO_COVERAGE_ENABLE", "MS_ALPHA_TO_ONE_ENABLE"},
        <<c.dyn["MS_ALPHA_TO_COVERAGE_ENABLE"], c.dyn["MS_ALPHA_TO_ONE_ENABLE"]>>),
    Row("SAMPLE_POSITIONS", SampleLocationStates, SampleLocations(c)),
    PlainRows(c, {"MS_SAMPLE_MASK"})>>)

DsRows(c) ==
  LET enable(s, format) == Row(s, {s}, c.dyn[s] /\ format)
      depth == c.render.depth # "none"
  IN Merge(<<enable("DS_DEPTH_TEST_ENABLE", depth), enable("DS_DEPTH_WRITE_ENABLE", depth),
             enable("DS_DEPTH_BOUNDS_TEST_ENABLE", depth),
             enable("DS_STENCIL_TEST_ENABLE", c.render.stencil), PlainRows(c, PlainDs)>>)

(* SET_CT_SELECT: a location nothing is mapped to takes the first target    *)
(* no other location has.                                                   *)
CtSelect(map) ==
  LET mapped == {a \in Targets : map[a] # Unused}
      locs   == {map[a] : a \in mapped}
      nth(x, S) == Cardinality({y \in S : y < x})
      target(l) == IF l \in locs THEN CHOOSE a \in mapped : map[a] = l
                   ELSE CHOOSE a \in Targets \ mapped :
                          nth(a, Targets \ mapped) = nth(l, Targets \ locs)
      max    == IF locs = {} THEN 0 ELSE CHOOSE l \in locs : \A k \in locs : k <= l
  IN [count |-> max + 1, target |-> [l \in Targets |-> target(l)]]

CbRows(c) ==
  LET per(name, on) ==
        [r \in {name} \X (0 .. c.render.count - 1) |-> [on |-> {on}, val |-> c.dyn[on][r[2]]]]
  IN Merge(<<per("BLEND", "CB_BLEND_ENABLES"), per("BLEND_PER_TARGET", "CB_BLEND_EQUATIONS"),
             Row("CT_SELECT", {"COLOR_ATTACHMENT_MAP"}, CtSelect(c.dyn["COLOR_ATTACHMENT_MAP"])),
             PlainRows(c, PlainCb)>>)

Rows(c) == Merge(<<ViRows(c), IaRows(c), TsRows(c), VpRows(c), RsRows(c), MsRows(c), DsRows(c),
                   CbRows(c)>>)

Registers ==
  ({"VERTEX_ATTRIBUTE_A", "DRAW_BEGIN", "PATCH", "VIEWPORT_Z_CLIP", "VIEWPORT_CLIP_CONTROL",
    "OGL_SET_CULL", "OGL_SET_CULL_FACE", "CONSERVATIVE_RASTER", "ANTI_ALIAS_ALPHA_CONTROL",
    "SAMPLE_POSITIONS", "DS_DEPTH_TEST_ENABLE", "DS_DEPTH_WRITE_ENABLE",
    "DS_DEPTH_BOUNDS_TEST_ENABLE", "DS_STENCIL_TEST_ENABLE", "CT_SELECT"} \cup Plain) \X {0}
  \cup {"VERTEX_STREAM_FREQUENCY"} \X Streams \cup {"VIEWPORT", "SCISSOR"} \X Viewports
  \cup {"BLEND", "BLEND_PER_TARGET"} \X Targets

WriteRows(g, c) ==
  LET rows    == Rows(c)
      written == {r \in DOMAIN rows : rows[r].on \cap c.dirty # {}}
  IN [g EXCEPT !.reg = [r \in DOMAIN @ |-> IF r \in written THEN rows[r].val ELSE @[r]]]

(***************************************************************************)
(* What the flush functions hand to macros                                 *)
(***************************************************************************)
Dirty(c, states) == c.dirty \cap states # {}

FlushVi(g, c) ==
  LET valid == c.dyn["VI_BINDINGS_VALID"]
      g1 == IF Dirty(c, {"VI_BINDINGS_VALID"}) THEN SetVbEnables(g, valid) ELSE g
      set[s \in 0 .. NumStreams] ==
        IF s = 0 THEN g1
        ELSE IF s - 1 \in valid THEN SetVbStride(set[s - 1], s - 1, c.dyn["VI_BINDING_STRIDES"])
             ELSE set[s - 1]
  IN IF Dirty(c, {"VI_BINDINGS_VALID", "VI_BINDING_STRIDES"}) THEN set[NumStreams] ELSE g1

FlushTs(g, c) ==
  IF Dirty(c, {"TS_DOMAIN_ORIGIN"})
  THEN SetTessParams(g, [lower_left |-> c.dyn["TS_DOMAIN_ORIGIN"] = "lower_left"]) ELSE g

(* The range a viewport is clamped to: the application's, or its own. *)
ClampRange(c, i) ==
  IF c.dyn["VP_DEPTH_CLAMP_RANGE"] # "viewport" THEN c.dyn["VP_DEPTH_CLAMP_RANGE"]
                                                ELSE c.dyn["VP_VIEWPORTS"][i]

FlushVp(g, c) ==
  LET set[i \in 0 .. c.dyn["VP_VIEWPORT_COUNT"]] ==
        IF i = 0 THEN g ELSE SetViewportMinMaxZ(set[i - 1], i, ClampRange(c, i))
  IN IF Dirty(c, ViewportStates)
     THEN set[c.dyn["VP_VIEWPORT_COUNT"]] ELSE g

FlushRs(g, c) ==
  LET g1 == IF Dirty(c, {"RS_DEPTH_CLIP_ENABLE", "RS_DEPTH_CLAMP_ENABLE"})
            THEN SetZClamp(g, c.dyn["RS_DEPTH_CLAMP_ENABLE"]) ELSE g
  IN IF /\ Dirty(c, {"RS_CONSERVATIVE_MODE", "RS_EXTRA_PRIMITIVE_OVERESTIMATION_SIZE"})
        /\ c.dyn["RS_CONSERVATIVE_MODE"]
     THEN SetConservativeRaster(g1, c.dyn["RS_EXTRA_PRIMITIVE_OVERESTIMATION_SIZE"]) ELSE g1

Log2(n) == CHOOSE k \in 0 .. 4 : 2^k = n

(* nil_choose_sample_layout *)
SampleCounts == {1, 2, 4, 8}
SampleLayout(samples) ==
  CASE samples = 1 -> "1x1" [] samples = 2 -> "2x1_d3d" [] samples = 4 -> "2x2"
    [] samples = 8 -> "4x2_d3d"

(* Mutant: the masks reach the scratch after the macro that reads them. *)
SetSampleLayoutFirst(g, samples) ==
  LET layout == SampleLayout(samples)
  IN [SetAntiAlias(g, [samples |-> Log2(samples)])
        EXCEPT !.aa.mode = layout, !.aa.two = TwoPassMasks(layout),
               !.aa.four = FourPassMasks(layout)]

SetSampleLayout(g, samples) ==
  LET layout == SampleLayout(samples)
  IN SetAntiAlias([g EXCEPT !.aa.mode = layout, !.aa.two = TwoPassMasks(layout),
                            !.aa.four = FourPassMasks(layout)],
                  [samples |-> Log2(samples)])

(* With attachments the layout is theirs, and nvk_CmdBeginRendering set it. *)
FlushMs(g, c) ==
  LET g1 == IF Dirty(c, {"MS_RASTERIZATION_SAMPLES"}) /\ c.render.samples = 0
            THEN SetSampleLayout(g, SampleCount(c)) ELSE g
  IN IF Dirty(c, SampleLocationStates)
     THEN LoadConstant(g1, "sample_locations", SampleLocations(c)) ELSE g1

(* Mutant: a target that no location is mapped to is not masked. *)
WriteMaskUnmapped(c, a) ==
  IF a \in c.dyn["CB_COLOR_WRITE_ENABLES"] /\ a \in c.dyn["RP_ATTACHMENTS"] /\ a < c.render.count
  THEN c.dyn["CB_WRITE_MASKS"][a] ELSE 0

(* The mask of a target: what the pipeline writes of it, if it is enabled,  *)
(* part of the render pass and mapped to a location.                        *)
WriteMask(c, a) ==
  IF /\ a \in c.dyn["CB_COLOR_WRITE_ENABLES"]
     /\ a \in c.dyn["RP_ATTACHMENTS"]
     /\ c.dyn["COLOR_ATTACHMENT_MAP"][a] # Unused
     /\ a < c.render.count
  THEN c.dyn["CB_WRITE_MASKS"][a] ELSE 0

FlushCb(g, c) ==
  LET mask[n \in 0 .. NumTargets] ==
        IF n = 0 THEN 0 ELSE mask[n - 1] + 16^(n - 1) * WriteMask(c, n - 1)
  IN IF Dirty(c, {"CB_WRITE_MASKS", "CB_COLOR_WRITE_ENABLES", "RP_ATTACHMENTS",
                  "COLOR_ATTACHMENT_MAP"})
     THEN SetWriteMask(g, c.render.count, mask[NumTargets]) ELSE g

(* nvk_cmd_flush_gfx_dynamic_state, but for clearing the dirty bits. *)
FlushDynamicState(g, c) ==
  LET g1 == FlushRs(FlushVp(FlushTs(FlushVi(WriteRows(g, c), c), c), c), c)
  IN FlushCb(FlushMs(g1, c), c)
==============================================================================
