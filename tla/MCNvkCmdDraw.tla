----------------------------- MODULE MCNvkCmdDraw -----------------------------
(* NvkCmdDraw with the applications that the runs check.                   *)
EXTENDS NvkCmdDraw

Color == [count |-> 1, views |-> {0}, depth |-> None, stencil |-> FALSE, samples |-> 1,
          view_mask |-> {}, image |-> FALSE, aligned |-> TRUE, load |-> "load",
          store |-> TRUE, resolve |-> FALSE, suspending |-> FALSE, resuming |-> FALSE]
One   == [start |-> 0, count |-> 3, instances |-> 1, first_instance |-> 0, offset |-> 0]
Two   == [start |-> 3, count |-> 6, instances |-> 2, first_instance |-> 5, offset |-> 7]

App(vary, values, passes, calls) ==
  [vary |-> vary, values |-> values, passes |-> passes, calls |-> calls, draws |-> {One},
   shaders |-> ("vs" :> {"vs_one"} @@ "tes" :> {} @@ "fs" :> {"fs"}), inherits |-> {}]

BOTH == {TRUE, FALSE}
All(v)      == [i \in Viewports |-> v]
Each(v)     == [t \in Targets |-> v]

(* Depth clamping, its range and the viewports, in passes with and without  *)
(* depth, with clears between.                                              *)
Raster == App({"RS_DEPTH_CLAMP_ENABLE", "VP_VIEWPORTS", "VP_DEPTH_CLAMP_RANGE"},
  ("RS_DEPTH_CLAMP_ENABLE" :> BOTH @@ "VP_VIEWPORTS" :> {All("one"), [All("one") EXCEPT ![2] = "two"]}
     @@ "VP_DEPTH_CLAMP_RANGE" :> {"viewport", "app"}),
  {[Color EXCEPT !.depth = "float"], [Color EXCEPT !.load = "clear"]},
  {"Draw"})

(* Samples of the passes and of the state, against the shading rate.        *)
Samplings == [App({"MS_RASTERIZATION_SAMPLES"}, ("MS_RASTERIZATION_SAMPLES" :> {4, 8}),
    {[Color EXCEPT !.samples = 4, !.resolve = TRUE], [Color EXCEPT !.samples = 8, !.load = "clear"],
     [Color EXCEPT !.samples = 0, !.views = {}, !.count = 0]},
    {"Draw", "ExecuteCommands"})
  EXCEPT !.shaders["fs"] = {"fs", "fs_half"}, !.inherits = {0}]

(* Which target an output of the fragment shader goes to.                   *)
Colors == App({"CB_WRITE_MASKS", "CB_COLOR_WRITE_ENABLES", "COLOR_ATTACHMENT_MAP", "RP_ATTACHMENTS"},
  ("CB_WRITE_MASKS" :> {Each(15), [Each(15) EXCEPT ![1] = 0]}
     @@ "CB_COLOR_WRITE_ENABLES" :> {Targets, {0}}
     @@ "COLOR_ATTACHMENT_MAP" :> {[Each(Unused) EXCEPT ![1] = 1], 0 :> 1 @@ 1 :> 0}
     @@ "RP_ATTACHMENTS" :> {Targets, {0}}),
  {Color, [Color EXCEPT !.count = 2, !.views = {0, 1}], [Color EXCEPT !.count = 2, !.views = {1}]},
  {"Draw"})

Vertices == App({"VI_BINDINGS_VALID", "VI_BINDING_STRIDES"},
  ("VI_BINDINGS_VALID" :> {{0}, {0, 1}} @@ "VI_BINDING_STRIDES" :> {0, 16}),
  {[Color EXCEPT !.load = "clear"]}, {"Draw", "BindVertexBuffers"})

Tessellation == [App({"TS_DOMAIN_ORIGIN"}, ("TS_DOMAIN_ORIGIN" :> {"upper_left", "lower_left"}),
    {[Color EXCEPT !.load = "clear"]}, {"Draw", "ExecuteCommands"})
  EXCEPT !.shaders["tes"] = {"tes_cw", "tes_ccw", NULL}]

Descriptors == [App({}, <<>>, {[Color EXCEPT !.load = "clear"]}, {"Draw", "BindDescriptorSets"})
  EXCEPT !.shaders["vs"] = {"vs_one", "vs_two", "vs_swap"}, !.shaders["fs"] = {"fs_full"}]

(* Every kind of draw, with views and without.                              *)
View(mask) == [Color EXCEPT !.view_mask = mask]
Drawing == [App({}, <<>>, {Color, View({0, 1}), View({1})}, {"Draw", "DrawMulti", "DrawIndirect"})
  EXCEPT !.draws = {One, Two}]

Feedback == App({}, <<>>, {Color},
  {"DrawIndexed", "DrawIndirectByteCount", "TransformFeedback", "BindIndexBuffer"})

Predicated == App({}, <<>>, {[Color EXCEPT !.load = "clear"], [View({1}) EXCEPT !.load = "clear"]},
                  {"Draw", "ConditionalRendering", "ExecuteCommands", "PushConstants"})

Linear == App({}, <<>>,
  LET target == [Color EXCEPT !.image = TRUE]
      parts(p) == {p, [p EXCEPT !.suspending = TRUE], [p EXCEPT !.resuming = TRUE]}
  IN UNION {parts([target EXCEPT !.aligned = al, !.depth = depth, !.load = load]) :
              al \in BOTH, depth \in {None, "float"}, load \in {"load", "clear"}}
     \cup {Color},
  {"Draw"})

(* Applications that are not part of the draw run.                            *)
Counts == App({"VP_VIEWPORT_COUNT", "VP_VIEWPORTS"},
  ("VP_VIEWPORT_COUNT" :> {1, 2} @@ "VP_VIEWPORTS" :> {All("one"), All("two")}), {Color}, {"Draw"})

(* A secondary that names the samples it will draw with, in a pass without  *)
(* attachments; the state has no others, as nvk_flush_ms_state asserts.     *)
Inherited == [App({"MS_RASTERIZATION_SAMPLES"}, ("MS_RASTERIZATION_SAMPLES" :> {4}),
    {[Color EXCEPT !.samples = 0, !.views = {}, !.count = 0]}, {"Draw", "ExecuteCommands"})
  EXCEPT !.inherits = {0, 4}]

ViewportCounts == {Counts}
InheritedSamples == {Inherited}
FeedbackOnly   == {Feedback}

DrawScenarios == {Raster, Samplings, Colors, Vertices, Tessellation, Descriptors, Drawing,
                  Feedback, Predicated, Linear}
==============================================================================
