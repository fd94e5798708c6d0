------------------------------ MODULE NvkCmdDraw ------------------------------
(***************************************************************************)
(* The drawing commands of an NVK command buffer (nvk_cmd_draw.c) on the   *)
(* class of the Switch (Maxwell B): what the CPU keeps of the state while  *)
(* recording, what it leaves dirty, and what the 3D engine holds when the  *)
(* commands run.                                                           *)
(*                                                                         *)
(* A command buffer records without reading the engine, so recording a     *)
(* command and running it are one step here.  A secondary command buffer   *)
(* is recorded at the place where it is executed.                          *)
(*                                                                         *)
(* An application is a scenario: the states it varies, the render passes   *)
(* it begins, the calls it makes and the draws it asks for.                *)
(***************************************************************************)
EXTENDS NvkGfxState, SequencesExt

CONSTANTS Scenarios,
          MaxFeedback   \* bound on a transform feedback counter

VARIABLES
  scenario,   \* what this application does
  cmd,        \* the nvk_cmd_buffer that is recording
  outer,      \* the primary a secondary is executed in, or NoCmd
  g,          \* the 3D engine
  fresh,      \* which of the linear image's copies hold its latest contents
  suspended,  \* the suspended pass that has to be resumed, or NoPass
  bound,      \* what the application has bound: vertex and counter buffers, predicate
  counters,   \* the transform feedback counters in memory
  call        \* the last draw call, or NoCall

vars == <<scenario, cmd, outer, g, fresh, suspended, bound, counters, call>>

NoCmd  == [level |-> "none"]
NoPass == [count |-> 0]
NoCall == [draws |-> <<>>, views |-> {}]
NULL   == "null"
None   == "none"

MayCall(name) == name \in scenario.calls

(***************************************************************************)
(* The command buffer                                                      *)
(***************************************************************************)
Stages == {"vs", "tes", "fs"}
Vtgm   == {"vs", "tes"}          \* the stages before rasterization
Slots  == 0 .. 2                 \* constant buffers of a group
Sets   == 0 .. 1                 \* descriptor sets with a constant buffer
Root   == <<"root", 0>>
NoCbuf == <<"invalid", 0>>
UniformBuffer(s) == <<"set", s>>

(* The shaders: their constant buffer maps, and what their code sets.  The   *)
(* root table is in slot 0, the buffers of descriptor sets follow.           *)
RootAnd(sets) == [n \in 0 .. Len(sets) |-> IF n = 0 THEN Root ELSE UniformBuffer(sets[n])]
Shader(name) ==
  CASE name = "vs_one"  -> [cbufs |-> RootAnd(<<0>>)]
    [] name = "vs_two"  -> [cbufs |-> RootAnd(<<0, 1>>)]
    [] name = "vs_swap" -> [cbufs |-> RootAnd(<<1>>)]
    [] name = "tes_cw"  -> [cbufs |-> RootAnd(<<>>), domain |-> "triangle", prims |-> "cw"]
    [] name = "tes_ccw" -> [cbufs |-> RootAnd(<<>>), domain |-> "triangle", prims |-> "ccw"]
    [] name = "fs"      -> [cbufs |-> RootAnd(<<>>), rcp |-> 4]
    [] name = "fs_half" -> [cbufs |-> RootAnd(<<>>), rcp |-> 1]
    [] name = "fs_full" -> [cbufs |-> RootAnd(<<0>>), rcp |-> 0]
    [] name = "meta_vs" -> [cbufs |-> RootAnd(<<>>)]
    [] name = "meta_fs" -> [cbufs |-> RootAnd(<<0>>), rcp |-> 4]

NoShaders == [s \in Stages |-> NULL]
NoRender  == [in |-> FALSE, count |-> 0, views |-> {}, depth |-> None, stencil |-> FALSE,
              samples |-> 0, view_mask |-> {}, linear |-> FALSE, image |-> FALSE,
              store |-> FALSE, resolve |-> FALSE, suspending |-> FALSE]
ZeroRange == [addr |-> 0, size |-> 0]
Identity(count) == [a \in Targets |-> IF a < count THEN a ELSE Unused]

(* A pass is a VkRenderingInfo with these members, and a stage runs a shader *)
(* of its own or none.  No two attachments are mapped to one location.      *)
PassFields == {"count", "views", "depth", "stencil", "samples", "view_mask", "image", "aligned",
               "load", "store", "resolve", "suspending", "resuming"}
IsPass(p)  == /\ DOMAIN p = PassFields
              /\ p.count \in 0 .. NumTargets /\ p.views \subseteq 0 .. p.count - 1
              /\ p.samples \in {0} \cup SampleCounts
              /\ {p.stencil, p.image, p.aligned, p.store, p.resolve, p.suspending, p.resuming}
                   \subseteq BOOLEAN
ShadersOf  == [s \in Stages |->
  CASE s = "vs"  -> {"vs_one", "vs_two", "vs_swap", NULL}
    [] s = "tes" -> {"tes_cw", "tes_ccw", NULL}
    [] s = "fs"  -> {"fs", "fs_half", "fs_full", NULL}]
LocationMaps == {map \in [Targets -> Targets \cup {Unused}] :
                   \A a, b \in Targets : map[a] = map[b] => a = b \/ map[a] = Unused}

ASSUME ScenarioAssumption ==
  \A app \in Scenarios :
    /\ app.vary \subseteq DynStates
    /\ \A s \in app.vary :
         /\ s = "VI_BINDINGS_VALID" => app.values[s] \subseteq SUBSET Streams
         /\ s = "VP_VIEWPORT_COUNT" => app.values[s] \subseteq 1 .. NumViewports
         /\ s = "MS_RASTERIZATION_SAMPLES" => app.values[s] \subseteq {0} \cup SampleCounts
         /\ s = "CB_WRITE_MASKS" => app.values[s] \subseteq [Targets -> 0 .. 15]
         /\ s = "COLOR_ATTACHMENT_MAP" => app.values[s] \subseteq LocationMaps
    /\ \A p \in app.passes : IsPass(p)
    /\ \A s \in Stages : app.shaders[s] \subseteq ShadersOf[s]
    /\ app.inherits \subseteq {0} \cup SampleCounts

ASSUME FeedbackAssumption == MaxFeedback \in Nat

(* What an application sets once; it varies the states of its scenario.     *)
DefaultDyn == [s \in DynStates |->
  CASE s = "VI_BINDINGS_VALID" -> {0}
    [] s = "VI_BINDING_STRIDES" -> 16
    [] s = "IA_PRIMITIVE_TOPOLOGY" -> "patch_list"
    [] s = "TS_PATCH_CONTROL_POINTS" -> 3
    [] s = "TS_DOMAIN_ORIGIN" -> "upper_left"
    [] s \in {"VP_VIEWPORT_COUNT", "VP_SCISSOR_COUNT"} -> NumViewports
    [] s \in {"VP_VIEWPORTS", "VP_SCISSORS"} -> [i \in Viewports |-> "one"]
    [] s = "VP_DEPTH_CLAMP_RANGE" -> "viewport"
    [] s = "RS_DEPTH_CLIP_ENABLE" -> "not_clamp"
    [] s = "RS_CULL_MODE" -> "back"
    [] s = "MS_RASTERIZATION_SAMPLES" -> 1
    [] s = "MS_SAMPLE_LOCATIONS" -> <<"custom", 1>>
    [] s \in {"VP_DEPTH_CLIP_NEGATIVE_ONE_TO_ONE", "RS_DEPTH_CLAMP_ENABLE",
              "RS_CONSERVATIVE_MODE", "MS_ALPHA_TO_COVERAGE_ENABLE", "MS_ALPHA_TO_ONE_ENABLE",
              "MS_SAMPLE_LOCATIONS_ENABLE", "DS_DEPTH_TEST_ENABLE", "DS_DEPTH_WRITE_ENABLE",
              "DS_DEPTH_BOUNDS_TEST_ENABLE", "DS_STENCIL_TEST_ENABLE"} -> FALSE
    [] s = "RS_EXTRA_PRIMITIVE_OVERESTIMATION_SIZE" -> 0
    [] s \in {"CB_BLEND_ENABLES", "CB_BLEND_EQUATIONS"} -> [a \in Targets |-> "one"]
    [] s = "CB_WRITE_MASKS" -> [a \in Targets |-> 15]
    [] s \in {"CB_COLOR_WRITE_ENABLES", "RP_ATTACHMENTS"} -> Targets
    [] s = "COLOR_ATTACHMENT_MAP" -> Identity(0)
    [] OTHER -> "one"]

(* The state the internal draws of vk_meta use, apart from the samples and  *)
(* the attachment map, which are those of the pass.                         *)
MetaDyn(c) == [s \in DynStates |->
  CASE s = "VI_BINDINGS_VALID" -> {0}
    [] s = "VI_BINDING_STRIDES" -> 8
    [] s = "IA_PRIMITIVE_TOPOLOGY" -> "meta_rect_list"
    [] s = "TS_PATCH_CONTROL_POINTS" -> 0
    [] s \in {"VP_VIEWPORT_COUNT", "VP_SCISSOR_COUNT"} -> 1
    [] s \in {"VP_VIEWPORTS", "VP_SCISSORS"} -> [i \in Viewports |-> "meta"]
    [] s = "RS_CULL_MODE" -> "none"
    [] s = "MS_RASTERIZATION_SAMPLES" -> c.render.samples
    [] s \in {"CB_BLEND_ENABLES", "CB_BLEND_EQUATIONS"} -> [a \in Targets |-> "meta"]
    [] s \in {"DS_DEPTH_TEST_ENABLE", "DS_DEPTH_WRITE_ENABLE"} -> TRUE
    [] s = "COLOR_ATTACHMENT_MAP" -> Identity(c.render.count)
    [] s \in Plain \cup {"VI"} -> "meta"
    [] OTHER -> DefaultDyn[s]]

(* A command buffer at vkBeginCommandBuffer, with the state and the shaders  *)
(* that the application does not vary set at once.                          *)
Fresh(level) ==
  LET set == DynStates \ (scenario.vary \cup {"COLOR_ATTACHMENT_MAP"})
      only(shaders) == IF Cardinality(shaders) = 1 THEN CHOOSE s \in shaders : TRUE ELSE NULL
      dyn  == IF "VP_VIEWPORTS" \in set THEN DefaultDyn
              ELSE [DefaultDyn EXCEPT !["VP_VIEWPORTS"] = [i \in Viewports |-> Unknown]]
  IN [level |-> level, dyn |-> dyn, set |-> set, dirty |-> set, render |-> NoRender,
      shaders |-> [s \in Stages |-> only(scenario.shaders[s])], shaders_dirty |-> Stages,
      cbufs |-> [at \in Stages \X Slots |-> NoCbuf], cbufs_dirty |-> {},
      sets |-> [s \in Sets |-> NoBuffer], push |-> Unknown, vb0 |-> ZeroRange]

Unbound == [vb |-> [s \in Streams |-> Unknown], predicate |-> "always", counters |-> {}]

(* nvk_push_draw_state_init: rasterization and its scratch registers *)
RasterInit ==
  LET tess == [domain |-> "isoline", prims |-> "points", lower_left |-> FALSE]
  IN [tess |-> [params |-> tess, hw |-> TessHw(tess)],
      aa |-> [params |-> AntiAliasInit, passes |-> 1, mode |-> "1x1",
              two |-> NoMasks, four |-> NoMasks],
      z |-> [clamp |-> FALSE, range |-> [i \in Viewports |-> ResetClip],
             clip |-> [i \in Viewports |-> ResetClip]],
      conservative |-> [scratch |-> -1, hw |-> Unknown],
      write |-> [t \in Targets |-> 0], single |-> TRUE,
      predicate |-> "always", override |-> FALSE, view_mask |-> {},
      target |-> [t \in Targets |-> NULL], xfb |-> [on |-> FALSE, pointer |-> [b \in XfbBuffers |-> 0]],
      reg |-> [r \in Registers |-> IF r[1] = "SCISSOR" THEN "disabled" ELSE Unknown],
      drawn |-> <<>>, layers |-> <<>>, when |-> {}]

(* and what is bound: no shaders, no vertex streams, CB0 in every slot 0,   *)
(* selected and zeroed.                                                     *)
BindingInit ==
  [selector |-> CB0, stray |-> FALSE,
   cb0 |-> [sample_masks |-> NoMasks, sample_locations |-> <<"zero", 0>>,
            first_vertex |-> 0, first_instance |-> 0, draw_index |-> 0, view_index |-> 0,
            push |-> Unknown],
   vertex_id_base |-> 0, layer |-> 0,
   cbuf |-> [at \in Stages \X Slots |-> IF at[2] = 0 THEN CB0 ELSE NoBuffer],
   prog |-> NoShaders, vtgm |-> NULL,
   vb |-> [enables |-> {}, format |-> [s \in Streams |-> [enable |-> FALSE, stride |-> 0]],
           range |-> [s \in Streams |-> Unknown]],
   ib |-> Unknown]

DrawStateInit ==
  LET raster == DOMAIN RasterInit
  IN [x \in raster \cup DOMAIN BindingInit |->
       IF x \in raster THEN RasterInit[x] ELSE BindingInit[x]]

(***************************************************************************)
(* Setting state.  SET_DYN_VALUE of the Vulkan runtime: a state is dirty    *)
(* when it was not set before or changes; an array is compared as far as it *)
(* is given.                                                                *)
(***************************************************************************)
SetDyn(c, s, v) ==
  LET count == CASE s = "VP_VIEWPORTS" -> c.dyn["VP_VIEWPORT_COUNT"]
                 [] s = "VP_SCISSORS" -> c.dyn["VP_SCISSOR_COUNT"]
                 [] OTHER -> 0
      new   == IF count = 0 THEN v
               ELSE [i \in Viewports |-> IF i <= count THEN v[i] ELSE c.dyn[s][i]]
  IN IF s \in c.set /\ c.dyn[s] = new THEN c
     ELSE [c EXCEPT !.dyn[s] = new, !.set = @ \cup {s}, !.dirty = @ \cup {s}]

SetLocations(c, map) == SetDyn(c, "COLOR_ATTACHMENT_MAP", map)

(* Mutant: what depends on the depth format stays clean. *)
DirtyRenderPassColor(c) ==
  [c EXCEPT !.dirty = @ \cup {
     "CB_COLOR_WRITE_ENABLES", "CB_BLEND_ENABLES", "CB_BLEND_EQUATIONS", "CB_WRITE_MASKS",
     "DS_STENCIL_TEST_ENABLE", "MS_RASTERIZATION_SAMPLES", "COLOR_ATTACHMENT_MAP"}]

DirtyRenderPass(c) ==
  [c EXCEPT !.dirty = @ \cup {
     "CB_COLOR_WRITE_ENABLES", "CB_BLEND_ENABLES", "CB_BLEND_EQUATIONS", "CB_WRITE_MASKS",
     "DS_DEPTH_TEST_ENABLE", "DS_DEPTH_WRITE_ENABLE", "DS_DEPTH_BOUNDS_TEST_ENABLE",
     "DS_STENCIL_TEST_ENABLE", "MS_RASTERIZATION_SAMPLES", "COLOR_ATTACHMENT_MAP",
     "RS_DEPTH_CLAMP_ENABLE", "RS_DEPTH_CLIP_ENABLE"}]

BindGraphicsShader(c, stage, shader) ==
  IF c.shaders[stage] = shader THEN c
  ELSE [c EXCEPT !.shaders[stage] = shader, !.shaders_dirty = @ \cup {stage}]

(* Binding a descriptor set makes the constant buffers read from it dirty.  *)
BindDescriptorSet(c, s, buffer) ==
  [c EXCEPT !.sets[s] = buffer,
            !.cbufs_dirty = @ \cup {at \in Stages \X Slots : c.cbufs[at] = UniformBuffer(s)}]

(* Everything but the render pass is undefined after vkCmdExecuteCommands.  *)
InvalidateGraphicsState(c) ==
  LET zero == Fresh(c.level)
  IN [zero EXCEPT !.dyn = c.dyn, !.set = c.set, !.dirty = DynStates, !.render = c.render]

(***************************************************************************)
(* nvk_cmd_flush_gfx_state, on a pair of a command buffer and an engine     *)
(***************************************************************************)
On(c, h) == [c |-> c, g |-> h]

FlushDyn(f) ==
  IF f.c.dirty = {} THEN f
  ELSE On([f.c EXCEPT !.dirty = {}], FlushDynamicState(f.g, f.c))

CbufMap(c, s) == IF c.shaders[s] = NULL THEN <<>> ELSE Shader(c.shaders[s]).cbufs
InUse(c) == {at \in Stages \X Slots : at[2] \in DOMAIN CbufMap(c, at[1])}

LastVtgm(c) == IF c.shaders["tes"] # NULL THEN c.shaders["tes"] ELSE c.shaders["vs"]

(* The words of a shader set the program and, for two stages, a macro; those *)
(* of the last stage before rasterization give the layer back to the target. *)
PushShaders(h, c) ==
  LET on  == c.shaders_dirty
      pushed(s) == s \in on /\ c.shaders[s] # NULL
      h1  == [h EXCEPT !.prog = [s \in Stages |-> IF s \in on THEN c.shaders[s] ELSE @[s]]]
      h2  == IF pushed("tes")
             THEN SetTessParams(h1, [domain |-> Shader(c.shaders["tes"]).domain,
                                     prims  |-> Shader(c.shaders["tes"]).prims]) ELSE h1
      h3  == IF pushed("fs") THEN SetAntiAlias(h2, [rcp |-> Shader(c.shaders["fs"]).rcp]) ELSE h2
  IN IF on \cap Vtgm # {} THEN [h3 EXCEPT !.vtgm = LastVtgm(c), !.layer = 0] ELSE h3

(* Mutant: the slot after a changed one is made dirty. *)
FlushShadersNext(f) ==
  LET c == f.c
      changed == {at \in InUse(c) : /\ at[1] \in c.shaders_dirty
                                    /\ c.cbufs[at] # CbufMap(c, at[1])[at[2]]}
      c1 == [c EXCEPT !.cbufs = [at \in DOMAIN @ |->
                          IF at \in changed THEN CbufMap(c, at[1])[at[2]] ELSE @[at]],
                      !.cbufs_dirty = @ \cup {<<at[1], at[2] + 1>> : at \in changed},
                      !.shaders_dirty = {}]
  IN IF c.shaders_dirty = {} THEN f ELSE On(c1, PushShaders(f.g, c))

FlushShaders(f) ==
  LET c == f.c
      changed == {at \in InUse(c) : /\ at[1] \in c.shaders_dirty
                                    /\ c.cbufs[at] # CbufMap(c, at[1])[at[2]]}
      c1 == [c EXCEPT !.cbufs = [at \in DOMAIN @ |->
                          IF at \in changed THEN CbufMap(c, at[1])[at[2]] ELSE @[at]],
                      !.cbufs_dirty = @ \cup changed, !.shaders_dirty = {}]
  IN IF c.shaders_dirty = {} THEN f ELSE On(c1, PushShaders(f.g, c))

(* Mutant: the slots no shader uses now are clean too. *)
FlushCbufsAll(f) ==
  LET c      == f.c
      rebind == c.cbufs_dirty \cap InUse(c)
      ubos   == {at \in rebind : c.cbufs[at] # Root}
      h      == BindCbufDesc(f.g, [at \in ubos |-> c.sets[c.cbufs[at][2]]])
  IN On([c EXCEPT !.cbufs_dirty = {}], IF ubos # {} THEN SelectCb0(h) ELSE h)

(* Only the buffers in use are bound again, and the root table stays where  *)
(* nvk_push_draw_state_init bound it; the table is selected again last.     *)
FlushCbufs(f) ==
  LET c      == f.c
      rebind == c.cbufs_dirty \cap InUse(c)
      ubos   == {at \in rebind : c.cbufs[at] # Root}
      bind   == [at \in ubos |-> c.sets[c.cbufs[at][2]]]
      h      == BindCbufDesc(f.g, bind)
  IN On([c EXCEPT !.cbufs_dirty = @ \ rebind], IF ubos # {} THEN SelectCb0(h) ELSE h)

FlushGfxState(c, h) == FlushCbufs(FlushShaders(FlushDyn(On(c, h))))

(***************************************************************************)
(* Rendering.  p is a VkRenderingInfo: the views bound to its attachments,  *)
(* the depth format, the samples of the views (0 when there are none), and  *)
(* whether attachment 0 is the linear image, and aligned for rendering.     *)
(***************************************************************************)
RenderingLinear(p) == /\ p.depth = None /\ ~p.stencil
                      /\ \A a \in p.views : a = 0 /\ p.image /\ p.aligned

(* An image without a 128 byte alignment is rendered in its tiled shadow.   *)
Copy(render) == IF render.linear THEN "plane" ELSE "shadow"
ColorTarget(p, a) ==
  IF a \notin p.views THEN NULL
  ELSE IF p.image /\ a = 0 /\ ~RenderingLinear(p) THEN "shadow" ELSE "plane"

RenderState(p) ==
  [in |-> TRUE, count |-> p.count, views |-> p.views, depth |-> p.depth, stencil |-> p.stencil,
   samples |-> p.samples, view_mask |-> p.view_mask, linear |-> RenderingLinear(p),
   image |-> p.image, store |-> p.store, resolve |-> p.resolve, suspending |-> p.suspending]

(* nvk_CmdBeginRendering up to the load operations *)
SetRendering(c, h, p) ==
  LET c1 == SetLocations([c EXCEPT !.render = RenderState(p)], Identity(p.count))
      h1 == [h EXCEPT !.view_mask = p.view_mask,
                      !.target = [a \in Targets |-> ColorTarget(p, a)]]
  IN On(DirtyRenderPass(c1), IF p.samples # 0 THEN SetSampleLayout(h1, p.samples) ELSE h1)

(* A draw of vk_meta: its own state, shaders and vertices, and all that the  *)
(* application bound put back and left dirty.                               *)
MetaRect == [start |-> 0, count |-> 4, instances |-> 1, first_vertex |-> 0, base_vertex |-> 0,
             first_instance |-> 0]
MetaDraw(f) ==
  LET c  == f.c
      c1 == [c EXCEPT !.dyn = MetaDyn(c), !.dirty = DynStates, !.sets[0] = "meta",
                      !.cbufs_dirty = @ \cup {at \in DOMAIN c.cbufs : c.cbufs[at] = UniformBuffer(0)}]
      c2 == BindGraphicsShader(BindGraphicsShader(BindGraphicsShader(c1,
              "vs", "meta_vs"), "fs", "meta_fs"), "tes", NULL)
      h1 == BindVb(f.g, 0, [addr |-> 64, size |-> 64])
      d  == FlushGfxState(c2, LoadConstant(h1, "push", "meta"))
      h2 == BindVb(DrawAll(d.g, <<MetaRect>>), 0, c.vb0)
      h3 == IF c.push = Unknown THEN h2 ELSE LoadConstant(h2, "push", c.push)
      c3 == [d.c EXCEPT !.dyn = c.dyn, !.dirty = c.set]
      c4 == BindDescriptorSet(c3, 0, c.sets[0])
  IN On(BindGraphicsShader(BindGraphicsShader(BindGraphicsShader(c4,
          "vs", c.shaders["vs"]), "fs", c.shaders["fs"]), "tes", c.shaders["tes"]), h3)

(* Mutant: the clears are subject to the predicate. *)
ClearAttachmentsPlain(f) == MetaDraw(f)

(* The clears of the load operations run whatever the predicate says.       *)
ClearAttachments(f) ==
  LET d == MetaDraw(On(f.c, [f.g EXCEPT !.override = TRUE]))
  IN On(d.c, [d.g EXCEPT !.override = FALSE])

(* What an action starts from: nothing drawn yet. *)
Engine == [g EXCEPT !.drawn = <<>>, !.layers = <<>>, !.when = {}]
Become(f) == cmd' = f.c /\ g' = f.g

Recording == cmd # NoCmd
Unchanged(rest) == UNCHANGED <<scenario, rest>> /\ call' = NoCall

(* Which copies are current after the load operation of the linear image:   *)
(* a clear is of the copy that is rendered, and a load copies the image to  *)
(* its shadow if that is rendered.  A resumed pass loads nothing.           *)
LoadedImage(p) == p.image /\ 0 \in p.views
CopiedIn == IF "plane" \in fresh THEN fresh \cup {"shadow"} ELSE fresh \ {"shadow"}

(* Mutant: a resumed pass copies the image in. *)
LoadedAgain(p) ==
  IF ~LoadedImage(p) THEN fresh
  ELSE IF p.load = "clear" /\ ~p.resuming THEN {Copy(RenderState(p))}
  ELSE IF RenderingLinear(p) THEN fresh ELSE CopiedIn

Loaded(p) ==
  IF p.resuming \/ ~LoadedImage(p) THEN fresh
  ELSE IF p.load = "clear" THEN {Copy(RenderState(p))}
  ELSE IF p.load = "load" /\ ~RenderingLinear(p) THEN CopiedIn ELSE fresh

BeginRendering ==
  \E p \in scenario.passes :
    LET f == SetRendering(cmd, Engine, p)
    IN /\ Recording /\ cmd.level = "primary" /\ ~cmd.render.in
       /\ IF suspended = NoPass THEN ~p.resuming
                                ELSE p = [suspended EXCEPT !.resuming = TRUE, !.suspending = FALSE]
       /\ Become(IF p.resuming \/ p.load # "clear" THEN f ELSE ClearAttachments(f))
       /\ fresh' = Loaded(p)
       /\ suspended' = IF p.suspending THEN p ELSE NoPass
       /\ Unchanged(<<outer, bound, counters>>)

(* The resolve is a draw of vk_meta in a pass of its own. *)
ResolvePass == [count |-> 1, views |-> {0}, depth |-> None, stencil |-> FALSE, samples |-> 1,
                view_mask |-> {}, image |-> FALSE, aligned |-> TRUE, load |-> None,
                store |-> TRUE, resolve |-> FALSE, suspending |-> FALSE, resuming |-> FALSE]
ResolveRendering(f) ==
  LET d == MetaDraw(SetRendering(f.c, f.g, ResolvePass))
  IN On([d.c EXCEPT !.render = NoRender], d.g)

EndRendering ==
  LET render == cmd.render
      f      == On([cmd EXCEPT !.render = NoRender], Engine)
  IN /\ Recording /\ cmd.level = "primary" /\ render.in /\ ~g.xfb.on
     /\ fresh' = IF /\ ~render.suspending /\ render.store /\ render.image /\ 0 \in render.views
                    /\ ~render.linear
                 THEN IF "shadow" \in fresh THEN fresh \cup {"plane"} ELSE fresh \ {"plane"}
                 ELSE fresh
     /\ Become(IF render.resolve /\ ~render.suspending THEN ResolveRendering(f) ELSE f)
     /\ Unchanged(<<outer, suspended, bound, counters>>)

(***************************************************************************)
(* Command buffers                                                         *)
(***************************************************************************)
BeginCommandBuffer ==
  /\ cmd = NoCmd
  /\ cmd' = Fresh("primary")
  /\ bound' = [Unbound EXCEPT !.predicate = g.predicate]
  /\ g' = Engine
  /\ Unchanged(<<outer, fresh, suspended, counters>>)

EndCommandBuffer ==
  /\ Recording /\ cmd.level = "primary" /\ ~cmd.render.in /\ g.predicate = "always"
  /\ cmd' = NoCmd
  /\ g' = Engine
  /\ Unchanged(<<outer, fresh, suspended, bound, counters>>)

(* The inheritance of a secondary that continues a pass: the formats and    *)
(* samples of the pass, or the samples it will draw with if the pass has no *)
(* attachments.                                                             *)
ExecuteSecondary ==
  /\ MayCall("ExecuteCommands") /\ Recording /\ cmd.level = "primary" /\ cmd.render.in
  /\ \E samples \in IF cmd.render.samples # 0 THEN {cmd.render.samples} ELSE scenario.inherits :
       LET inherited == [cmd.render EXCEPT !.samples = samples]
       IN cmd' = DirtyRenderPass(SetLocations([Fresh("secondary") EXCEPT !.render = inherited],
                                              Identity(cmd.render.count)))
  /\ outer' = cmd
  /\ bound' = [Unbound EXCEPT !.predicate = bound.predicate]
  /\ g' = Engine
  /\ Unchanged(<<fresh, suspended, counters>>)

EndSecondary ==
  /\ Recording /\ cmd.level = "secondary"
  /\ cmd' = InvalidateGraphicsState(outer)
  /\ outer' = NoCmd
  /\ bound' = [Unbound EXCEPT !.predicate = bound.predicate]
  /\ g' = Engine
  /\ Unchanged(<<fresh, suspended, counters>>)

(***************************************************************************)
(* State and bindings                                                      *)
(***************************************************************************)
SetState ==
  /\ Recording
  /\ \E s \in scenario.vary : \E v \in scenario.values[s] : cmd' = SetDyn(cmd, s, v)
  /\ g' = Engine
  /\ Unchanged(<<outer, fresh, suspended, bound, counters>>)

BindShader ==
  /\ Recording
  /\ \E stage \in {s \in Stages : Cardinality(scenario.shaders[s]) > 1} :
     \E shader \in scenario.shaders[stage] :
       cmd' = BindGraphicsShader(cmd, stage, shader)
  /\ g' = Engine
  /\ Unchanged(<<outer, fresh, suspended, bound, counters>>)

BindSets ==
  /\ MayCall("BindDescriptorSets") /\ Recording
  /\ \E s \in Sets, buffer \in {"a", "b"} : cmd' = BindDescriptorSet(cmd, s, buffer)
  /\ g' = Engine
  /\ Unchanged(<<outer, fresh, suspended, bound, counters>>)

PushConstants ==
  /\ MayCall("PushConstants") /\ Recording
  /\ \E v \in {"a", "b"} : /\ cmd' = [cmd EXCEPT !.push = v]
                           /\ g' = LoadConstant(Engine, "push", v)
  /\ Unchanged(<<outer, fresh, suspended, bound, counters>>)

BindVertexBuffers ==
  /\ MayCall("BindVertexBuffers") /\ Recording
  /\ \E s \in Streams, r \in {[addr |-> 16, size |-> 0], [addr |-> 16, size |-> 32]} :
       /\ bound' = [bound EXCEPT !.vb[s] = r]
       /\ g' = BindVb(Engine, s, r)
       /\ cmd' = IF s = 0 THEN [cmd EXCEPT !.vb0 = r] ELSE cmd
  /\ Unchanged(<<outer, fresh, suspended, counters>>)

BindIndexBuffer ==
  /\ MayCall("BindIndexBuffer") /\ Recording
  /\ \E type \in {"uint8", "uint16", "uint32"} :
       g' = BindIb(Engine, [addr |-> 16, size |-> 32], type)
  /\ Unchanged(<<cmd, outer, fresh, suspended, bound, counters>>)

(***************************************************************************)
(* Draws                                                                   *)
(***************************************************************************)
(* A valid draw: every state is set, there is something to draw with, and   *)
(* the samples are those of the attachments.                                *)
MayDraw == /\ Recording /\ cmd.render.in
           /\ scenario.vary \subseteq cmd.set
           /\ \A i \in 1 .. cmd.dyn["VP_VIEWPORT_COUNT"] : cmd.dyn["VP_VIEWPORTS"][i] # Unknown
           /\ cmd.render.samples \in {0, SampleCount(cmd)}
           /\ cmd.shaders["vs"] # NULL

(* A target is written with what it held: the other copy is older now.      *)
Written == IF cmd.render.image /\ 0 \in cmd.render.views THEN {Copy(cmd.render)} ELSE fresh

Feed(h) == IF h.xfb.on
           THEN [h EXCEPT !.xfb.pointer = [b \in XfbBuffers |-> @[b] + 1]] ELSE h

DrawCall(name, draws) ==
  LET f == FlushGfxState(cmd, Engine)
  IN /\ MayCall(name) /\ MayDraw
     /\ g.xfb.on => \A b \in XfbBuffers : g.xfb.pointer[b] < MaxFeedback
     /\ Become(On(f.c, Feed(DrawAll(f.g, draws))))
     /\ fresh' = Written
     /\ call' = [draws |-> draws, views |-> cmd.render.view_mask]
     /\ UNCHANGED <<scenario, outer, suspended, bound, counters>>

Plainly(d)   == [start |-> d.start, count |-> d.count, instances |-> d.instances,
                 first_vertex |-> d.start, base_vertex |-> 0, first_instance |-> d.first_instance]
Indexed(d)   == [Plainly(d) EXCEPT !.first_vertex = d.offset, !.base_vertex = d.offset]
ByteCount(d) == [Plainly(d) EXCEPT !.start = 0, !.first_vertex = 0]

Draw == \E d \in scenario.draws : DrawCall("Draw", <<Plainly(d)>>)
DrawIndexed == \E d \in scenario.draws : DrawCall("DrawIndexed", <<Indexed(d)>>)
DrawMulti == \E d, e \in scenario.draws : DrawCall("DrawMulti", <<Plainly(d), Plainly(e)>>)
DrawMultiIndexed ==
  \E d, e \in scenario.draws : DrawCall("DrawMulti", <<Indexed(d), Indexed(e)>>)
DrawIndirectByteCount ==
  \E d \in scenario.draws : DrawCall("DrawIndirectByteCount", <<ByteCount(d)>>)

(* The draws of an indirect call whose buffer fits one push. *)
DrawIndirect ==
  \E d, e \in scenario.draws : DrawCall("DrawIndirect", <<Plainly(d), Plainly(e)>>)
DrawIndexedIndirect ==
  \E d, e \in scenario.draws : DrawCall("DrawIndirect", <<Indexed(d), Indexed(e)>>)

(***************************************************************************)
(* Transform feedback and conditional rendering                            *)
(***************************************************************************)
BeginTransformFeedback ==
  /\ MayCall("TransformFeedback") /\ Recording /\ cmd.render.in /\ ~g.xfb.on
  /\ \E from \in SUBSET XfbBuffers :
       LET zero == [Engine EXCEPT !.xfb = [on |-> TRUE, pointer |-> [b \in XfbBuffers |-> 0]]]
           load[n \in 0 .. Cardinality(XfbBuffers)] ==
             IF n = 0 THEN zero
             ELSE IF n - 1 \in from THEN XfbCounterLoad(load[n - 1], n - 1, counters[n - 1])
                  ELSE load[n - 1]
       IN /\ g' = load[Cardinality(XfbBuffers)]
          /\ bound' = [bound EXCEPT !.counters = from]
  /\ Unchanged(<<cmd, outer, fresh, suspended, counters>>)

EndTransformFeedback ==
  /\ Recording /\ g.xfb.on
  /\ \E to \in SUBSET XfbBuffers :
       counters' = [b \in XfbBuffers |-> IF b \in to THEN g.xfb.pointer[b] ELSE counters[b]]
  /\ g' = [Engine EXCEPT !.xfb.on = FALSE]
  /\ bound' = [bound EXCEPT !.counters = {}]
  /\ Unchanged(<<cmd, outer, fresh, suspended>>)

(* Out of memory for the copy of the predicate, nothing is set. *)
BeginConditionalRendering ==
  /\ MayCall("ConditionalRendering") /\ Recording /\ bound.predicate = "always"
  /\ \/ \E when \in {"equal", "not_equal"} : /\ bound' = [bound EXCEPT !.predicate = when]
                                             /\ g' = [Engine EXCEPT !.predicate = when]
     \/ UNCHANGED bound /\ g' = Engine
  /\ Unchanged(<<cmd, outer, fresh, suspended, counters>>)

EndConditionalRendering ==
  /\ MayCall("ConditionalRendering") /\ Recording /\ bound.predicate # "always"
  /\ bound' = [bound EXCEPT !.predicate = "always"]
  /\ g' = [Engine EXCEPT !.predicate = "always"]
  /\ Unchanged(<<cmd, outer, fresh, suspended, counters>>)

Init ==
  /\ scenario \in Scenarios
  /\ cmd = NoCmd /\ outer = NoCmd /\ g = DrawStateInit
  /\ fresh = {"plane"} /\ suspended = NoPass
  /\ bound = Unbound /\ counters = [b \in XfbBuffers |-> 0] /\ call = NoCall

Next ==
  \/ BeginCommandBuffer \/ EndCommandBuffer \/ ExecuteSecondary \/ EndSecondary
  \/ BeginRendering \/ EndRendering
  \/ SetState \/ BindShader \/ BindSets \/ PushConstants \/ BindVertexBuffers \/ BindIndexBuffer
  \/ Draw \/ DrawIndexed \/ DrawMulti \/ DrawMultiIndexed \/ DrawIndirectByteCount
  \/ DrawIndirect \/ DrawIndexedIndirect
  \/ BeginTransformFeedback \/ EndTransformFeedback
  \/ BeginConditionalRendering \/ EndConditionalRendering

Spec == Init /\ [][Next]_vars

(***************************************************************************)
(* Properties                                                              *)
(***************************************************************************)
(* The dirty states are states, constant buffers are bound by slot, and a   *)
(* secondary is recorded only inside a primary.                             *)
TypeOK ==
  /\ scenario \in Scenarios
  /\ Recording => /\ cmd.dirty \subseteq DynStates /\ cmd.set \subseteq DynStates
                  /\ cmd.cbufs_dirty \subseteq Stages \X Slots
                  /\ cmd.shaders_dirty \subseteq Stages
                  /\ DOMAIN cmd.dyn = DynStates
  /\ outer # NoCmd => Recording /\ cmd.level = "secondary" /\ outer.level = "primary"
  /\ fresh \subseteq {"plane", "shadow"}
  /\ {counters, g.xfb.pointer} \subseteq [XfbBuffers -> 0 .. MaxFeedback]
  /\ DOMAIN g.reg = Registers

Clean(states) == Recording /\ states \subseteq cmd.set \ cmd.dirty

(* Inside a pass, a state that is set and not dirty is in the engine,        *)
(* whatever passes, internal draws and secondary command buffers came       *)
(* between setting it and now: nvk_flush_*_state may skip it.               *)
CleanStateInEngine ==
  Recording /\ cmd.render.in =>
    LET rows == Rows(cmd)
    IN \A r \in DOMAIN rows : Clean(rows[r].on) => g.reg[r] = rows[r].val

(* The depth range a viewport clips to is its own or the application's       *)
(* while depth is clamped and the whole line while it is not.               *)
DepthRangeFollowsClamp ==
  /\ g.z.clip = IF g.z.clamp THEN g.z.range ELSE [i \in Viewports |-> INF]
  /\ Clean({"RS_DEPTH_CLAMP_ENABLE", "RS_DEPTH_CLIP_ENABLE"}) =>
       g.z.clamp = cmd.dyn["RS_DEPTH_CLAMP_ENABLE"]
  /\ Clean(ViewportStates) =>
       \A i \in 1 .. cmd.dyn["VP_VIEWPORT_COUNT"] : g.z.range[i] = ClampRange(cmd, i)

(* The tessellator runs with the primitives of the bound shader, turned      *)
(* round for a lower left origin, though shader and origin reach it through *)
(* one register by separate commands.                                       *)
TessellationCurrent ==
  Clean({"TS_DOMAIN_ORIGIN"}) /\ cmd.shaders["tes"] # NULL /\ "tes" \notin cmd.shaders_dirty =>
    g.tess.hw = TessHw([domain     |-> Shader(cmd.shaders["tes"]).domain,
                        prims      |-> Shader(cmd.shaders["tes"]).prims,
                        lower_left |-> cmd.dyn["TS_DOMAIN_ORIGIN"] = "lower_left"])

(* What macros combine from separate commands is right in whichever order   *)
(* the commands come: viewports and clamping, shader and origin.            *)
MacroStateCurrent == DepthRangeFollowsClamp /\ TessellationCurrent

(* Fragments are shaded as often as the shader asks for with the samples of  *)
(* the pass, and the masks in CB0 divide those samples between the passes:  *)
(* each sample is in its own mask, and masks are equal or disjoint.         *)
ExpectedSamples == IF cmd.render.samples = 0 THEN SampleCount(cmd) ELSE cmd.render.samples
SampleShadingCurrent ==
  /\ Clean({"MS_RASTERIZATION_SAMPLES"}) /\ cmd.render.in
  /\ "fs" \notin cmd.shaders_dirty /\ cmd.shaders["fs"] # NULL
  => LET want  == [rcp |-> Shader(cmd.shaders["fs"]).rcp, samples |-> Log2(ExpectedSamples)]
         used  == 0 .. ExpectedSamples - 1
         masks == [s \in used |-> g.cb0.sample_masks[s] \cap used]
     IN /\ g.aa.mode = SampleLayout(ExpectedSamples)
        /\ g.aa.passes = 2^PassesLog2(want)
        /\ \A s \in used : s \in masks[s] /\ Cardinality(masks[s]) * g.aa.passes = ExpectedSamples
        /\ \A s, t \in used : masks[s] = masks[t] \/ masks[s] \cap masks[t] = {}

(* A shader output that is mapped to no attachment goes nowhere: the target  *)
(* the engine selects for it is no view, or masked; and an output that is   *)
(* mapped goes to its attachment.                                           *)
NoStrayColorWrite ==
  /\ Recording /\ cmd.render.in
  /\ Clean({"COLOR_ATTACHMENT_MAP", "CB_WRITE_MASKS", "CB_COLOR_WRITE_ENABLES", "RP_ATTACHMENTS"})
  => LET select == g.reg[<<"CT_SELECT", 0>>]
         map    == cmd.dyn["COLOR_ATTACHMENT_MAP"]
     IN /\ \A l \in 0 .. select.count - 1 :
             LET a == select.target[l]
             IN map[a] = l \/ g.target[a] = NULL \/ (~g.single /\ g.write[a] = 0)
        /\ \A a \in Targets : map[a] # Unused =>
             map[a] < select.count /\ select.target[map[a]] = a
        /\ g.single => \A a \in 0 .. cmd.render.count - 1 : g.write[a] = WriteMask(cmd, a)

(* The engine fetches from the streams the state enables, with their         *)
(* strides, at the addresses the application bound, though internal draws   *)
(* use stream 0 for themselves.                                             *)
VertexStreamsCurrent ==
  /\ \A s \in Streams : g.vb.format[s].enable = (s \in g.vb.enables)
  /\ Recording => \A s \in Streams :
                    bound.vb[s] # Unknown => g.vb.range[s] = Bindable(bound.vb[s])
  /\ Clean({"VI_BINDINGS_VALID", "VI_BINDING_STRIDES"}) =>
       /\ g.vb.enables = cmd.dyn["VI_BINDINGS_VALID"]
       /\ \A s \in g.vb.enables : g.vb.format[s].stride = cmd.dyn["VI_BINDING_STRIDES"]

(* A slot that a shader reads and that is not dirty holds the buffer of its  *)
(* descriptor set, whichever shaders and sets came and went; the root table *)
(* is bound in slot 0 and selected, so no draw parameter lands elsewhere,   *)
(* and it holds the push constants of the application.                      *)
ConstantBuffersCurrent ==
  /\ g.selector = CB0 /\ ~g.stray
  /\ \A s \in Stages : g.cbuf[<<s, 0>>] = CB0
  /\ Recording =>
       /\ cmd.push # Unknown => g.cb0.push = cmd.push
       /\ \A at \in InUse(cmd) \ cmd.cbufs_dirty :
            at[1] \notin cmd.shaders_dirty /\ at[2] # 0 =>
              g.cbuf[at] = cmd.sets[CbufMap(cmd, at[1])[at[2]][2]]

(* The engine runs the shaders that are bound, none where none is.           *)
ShadersCurrent ==
  Recording => /\ \A s \in Stages \ cmd.shaders_dirty : g.prog[s] = cmd.shaders[s]
               /\ cmd.shaders_dirty \cap Vtgm = {} => g.vtgm = LastVtgm(cmd)

(* A draw reads what the application bound, though internal draws and        *)
(* secondary command buffers bind shaders, streams and buffers of their own. *)
BindingsCurrent == VertexStreamsCurrent /\ ConstantBuffersCurrent /\ ShadersCurrent

(* What a draw call draws: every draw in order, in every view of the pass   *)
(* from the lowest, every instance in order, with its parameters in CB0.    *)
DrawnFor(d, index, views) ==
  LET view(v) == [n \in 1 .. d.instances |->
                   Drawn(d, n, d.first_vertex, d.base_vertex, d.first_instance, index, v)]
  IN IF views = {} THEN view(0)
     ELSE LET order == SetToSortSeq(views, <) IN FlattenSeq([i \in 1 .. Len(order) |-> view(order[i])])
DrawnAsAsked ==
  /\ call # NoCall =>
       /\ g.drawn = FlattenSeq([i \in 1 .. Len(call.draws) |->
                                  DrawnFor(call.draws[i], i - 1, call.views)])
       /\ g.when = {bound.predicate}
       /\ call.views # {} => \A i \in DOMAIN g.drawn : g.layers[i] = g.drawn[i].view

(* A pass that loads the linear image starts from its latest contents, and   *)
(* one that stores it leaves them in the image, though it is rendered in a  *)
(* tiled shadow; between passes only the image is read.                     *)
LinearImageCurrent ==
  IF Recording /\ cmd.render.in /\ cmd.render.image /\ 0 \in cmd.render.views
  THEN Copy(cmd.render) \in fresh
  ELSE suspended = NoPass => "plane" \in fresh

(* The clears of the load operations are not subject to the predicate.       *)
ClearsUnconditional ==
  [][BeginRendering /\ g'.when # {} => g'.when = {"always"} /\ ~g'.override]_vars

(* "Nothing to do for MESA_VK_DYNAMIC_VP_VIEWPORT_COUNT": a viewport below   *)
(* the count is in the engine whenever the viewports are not dirty.         *)
NothingToDoForViewportCount ==
  Clean(ViewportStates \cup {"VP_VIEWPORT_COUNT"}) =>
    \A i \in 1 .. cmd.dyn["VP_VIEWPORT_COUNT"] :
      g.reg[<<"VIEWPORT", i>>] = Rows(cmd)[<<"VIEWPORT", i>>].val

(* "When we don't have any attachments, we defer SET_ANTI_ALIAS to draw time  *)
(* where we base it on dynamic rasterizationSamples": once a draw has taken *)
(* the samples, the layout is theirs, in a secondary as in a primary.       *)
SamplesDeferredToDraw ==
  Clean({"MS_RASTERIZATION_SAMPLES"}) /\ cmd.render.in
  /\ cmd.render.views = {} /\ cmd.render.depth = None /\ ~cmd.render.stencil
  => g.aa.mode = SampleLayout(SampleCount(cmd))

(* "The STREAM_OUT_BUFFER_LOAD_WRITE_POINTER registers are 8 dword stride":  *)
(* beginning again from a counter goes on where it ended.                   *)
FeedbackResumes ==
  [][BeginTransformFeedback =>
       \A b \in bound'.counters : g'.xfb.pointer[b] = counters[b]]_vars
==============================================================================
