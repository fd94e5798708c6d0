--------------------------- MODULE NvkCmdDrawProofs ---------------------------
(***************************************************************************)
(* Theorems about NvkCmdDraw for every number of targets, streams, views   *)
(* and viewports and for every application: what the recording command     *)
(* buffer keeps, that the linear image is current in every pass, and that  *)
(* the 3D engine holds what the command buffer thinks it holds: the         *)
(* bindings, the clean states, and what the macros combine of them.        *)
(***************************************************************************)
EXTENDS NvkGfxStateProofs

CmdFields == {"level", "dyn", "set", "dirty", "render", "shaders", "shaders_dirty", "cbufs",
              "cbufs_dirty", "sets", "push", "vb0"}
RenderFields == {"in", "count", "views", "depth", "stencil", "samples", "view_mask", "linear",
                 "image", "store", "resolve", "suspending"}

IsCmd(c)    == DOMAIN c = CmdFields
IsRender(r) == /\ DOMAIN r = RenderFields
               /\ {r.in, r.linear, r.image, r.store, r.resolve, r.suspending} \subseteq BOOLEAN
Alike(c, d) == IsCmd(d) /\ d.level = c.level /\ d.render = c.render

(* The pass of a secondary is that of its primary, but for the samples.     *)
SamePass(r, s) == \A field \in RenderFields \ {"samples"} : r[field] = s[field]

CmdInv ==
  /\ scenario \in Scenarios
  /\ Recording => /\ IsCmd(cmd) /\ IsRender(cmd.render) /\ cmd.level \in {"primary", "secondary"}
  /\ IF Recording /\ cmd.level = "secondary"
     THEN /\ IsCmd(outer) /\ IsRender(outer.render) /\ outer.level = "primary"
          /\ cmd.render.in /\ SamePass(outer.render, cmd.render)
     ELSE outer = NoCmd

Binds(r) == r.image /\ 0 \in r.views
Holds(r) == IF Binds(r) THEN Copy(r) \in fresh ELSE "plane" \in fresh
InPass   == Recording /\ cmd.render.in

(* The copy that a pass renders, or the next one resumes, is the latest.    *)
ImageInv ==
  /\ suspended # NoPass => /\ suspended \in scenario.passes /\ suspended.suspending
                           /\ Holds(RenderState(suspended))
  /\ InPass => /\ Holds(cmd.render)
               /\ Binds(cmd.render) => cmd.render.store
               /\ IF suspended = NoPass THEN ~cmd.render.suspending
                  ELSE SamePass(RenderState(suspended), cmd.render)
  /\ ~InPass /\ suspended = NoPass => "plane" \in fresh

(* Every pass that binds the linear image loads or clears it, and stores it: *)
(* one that does not leaves its contents undefined.                         *)
PassesKeepImage ==
  \A app \in Scenarios : \A p \in app.passes :
    LoadedImage(p) => p.store /\ p.load \in {"load", "clear"}

(***************************************************************************)
(* What recording keeps of a command buffer                                *)
(***************************************************************************)
(* Setting a state keeps the pass and the level. *)
LEMMA SetDynAlike ==
  ASSUME NEW c, IsCmd(c), NEW s, NEW v
  PROVE  Alike(c, SetDyn(c, s, v))
<1> DEFINE count == CASE s = "VP_VIEWPORTS" -> c.dyn["VP_VIEWPORT_COUNT"]
                     [] s = "VP_SCISSORS" -> c.dyn["VP_SCISSOR_COUNT"]
                     [] OTHER -> 0
           new   == IF count = 0 THEN v
                    ELSE [i \in Viewports |-> IF i <= count THEN v[i] ELSE c.dyn[s][i]]
<1> HIDE DEF new
<1>1. SetDyn(c, s, v) = IF s \in c.set /\ c.dyn[s] = new THEN c
                        ELSE [c EXCEPT !.dyn[s] = new, !.set = @ \cup {s}, !.dirty = @ \cup {s}]
  BY DEF SetDyn, new
<1>2. QED
  BY <1>1 DEF Alike, IsCmd, CmdFields

(* So do the other commands that touch one field each. *)
LEMMA FieldsAlike ==
  ASSUME NEW c, IsCmd(c), NEW s, NEW x
  PROVE  /\ Alike(c, DirtyRenderPass(c)) /\ Alike(c, BindGraphicsShader(c, s, x))
         /\ Alike(c, BindDescriptorSet(c, s, x))
<1>1. Alike(c, DirtyRenderPass(c))
  BY DEF Alike, IsCmd, CmdFields, DirtyRenderPass
<1>2. Alike(c, BindGraphicsShader(c, s, x))
  BY DEF Alike, IsCmd, CmdFields, BindGraphicsShader
<1>3. Alike(c, BindDescriptorSet(c, s, x))
  BY DEF Alike, IsCmd, CmdFields, BindDescriptorSet
<1>4. QED
  BY <1>1, <1>2, <1>3

(* A command buffer that begins has no pass; one that comes back from a      *)
(* secondary keeps its own.                                                 *)
LEMMA FreshFacts ==
  ASSUME NEW level
  PROVE  /\ IsCmd(Fresh(level)) /\ Fresh(level).level = level /\ Fresh(level).render = NoRender
         /\ \A c : IsCmd(c) => Alike(c, InvalidateGraphicsState(c))
<1>1. \A l : IsCmd(Fresh(l)) /\ Fresh(l).level = l /\ Fresh(l).render = NoRender
  BY DEF Fresh, IsCmd, CmdFields
<1>2. ASSUME NEW c, IsCmd(c) PROVE Alike(c, InvalidateGraphicsState(c))
  <2>1. PICK zero : zero = Fresh(c.level)
    OBVIOUS
  <2>2. InvalidateGraphicsState(c)
          = [zero EXCEPT !.dyn = c.dyn, !.set = c.set, !.dirty = DynStates, !.render = c.render]
    BY <2>1 DEF InvalidateGraphicsState
  <2>3. QED
    BY <1>1, <1>2, <2>1, <2>2 DEF Alike, IsCmd, CmdFields
<1>3. QED
  BY <1>1, <1>2

(* Flushing cleans, and keeps the rest. *)
LEMMA FlushAlike ==
  ASSUME NEW c, IsCmd(c), NEW h
  PROVE  Alike(c, FlushGfxState(c, h).c)
<1>1. ASSUME NEW d, NEW k, IsCmd(d)
      PROVE  /\ Alike(d, FlushDyn(On(d, k)).c) /\ Alike(d, FlushCbufs(On(d, k)).c)
  BY <1>1 DEF Alike, IsCmd, CmdFields, FlushDyn, FlushCbufs, On
<1>2. ASSUME NEW d, NEW k, IsCmd(d) PROVE Alike(d, FlushShaders(On(d, k)).c)
  <2> DEFINE changed == {at \in InUse(d) : /\ at[1] \in d.shaders_dirty
                                           /\ d.cbufs[at] # CbufMap(d, at[1])[at[2]]}
             cbufs == [at \in DOMAIN d.cbufs |->
                         IF at \in changed THEN CbufMap(d, at[1])[at[2]] ELSE d.cbufs[at]]
             d1 == [d EXCEPT !.cbufs = cbufs, !.cbufs_dirty = @ \cup changed, !.shaders_dirty = {}]
  <2> HIDE DEF changed, cbufs
  <2>1. Alike(d, d1)
    BY <1>2 DEF Alike, IsCmd, CmdFields
  <2>2. FlushShaders(On(d, k)).c = d \/ FlushShaders(On(d, k)).c = d1
    BY DEF FlushShaders, On, changed, cbufs
  <2>3. QED
    BY <1>2, <2>1, <2>2 DEF Alike
<1> DEFINE f1 == FlushDyn(On(c, h))
           f2 == FlushShaders(f1)
<1>4. PICK d1, k1 : f1 = On(d1, k1)
  BY DEF FlushDyn
<1>5. PICK d2, k2 : f2 = On(d2, k2)
  BY <1>4 DEF FlushShaders
<1>6. Alike(c, d1) /\ Alike(d1, d2)
  BY <1>1, <1>2, <1>4, <1>5 DEF On, Alike
<1>7. Alike(d2, FlushGfxState(c, h).c)
  BY <1>1, <1>5, <1>6 DEF FlushGfxState, Alike
<1>8. QED
  BY <1>6, <1>7 DEF Alike


(* An internal draw gives back what it borrowed. *)
LEMMA MetaDrawAlike ==
  ASSUME NEW f, IsCmd(f.c)
  PROVE  Alike(f.c, MetaDraw(f).c)
<1> DEFINE c  == f.c
           c1 == [c EXCEPT !.dyn = MetaDyn(c), !.dirty = DynStates, !.sets[0] = "meta",
                   !.cbufs_dirty = @ \cup {at \in DOMAIN c.cbufs : c.cbufs[at] = UniformBuffer(0)}]
           c2 == BindGraphicsShader(BindGraphicsShader(BindGraphicsShader(c1,
                   "vs", "meta_vs"), "fs", "meta_fs"), "tes", NULL)
<1>1. Alike(c, c1)
  <2>1. PICK dyn, dirty :
          /\ dyn = MetaDyn(c)
          /\ dirty = c.cbufs_dirty \cup {at \in DOMAIN c.cbufs : c.cbufs[at] = UniformBuffer(0)}
    OBVIOUS
  <2>2. c1 = [c EXCEPT !.dyn = dyn, !.dirty = DynStates, !.sets[0] = "meta", !.cbufs_dirty = dirty]
    BY <2>1
  <2> HIDE DEF c1
  <2>3. QED
    BY <2>2 DEF Alike, IsCmd, CmdFields
<1> HIDE DEF c1
<1>2. Alike(c, c2)
  <2>1. PICK a, b : /\ a = BindGraphicsShader(c1, "vs", "meta_vs")
                    /\ b = BindGraphicsShader(a, "fs", "meta_fs")
    OBVIOUS
  <2>2. IsCmd(c1)
    BY <1>1 DEF Alike
  <2>3. Alike(c1, a)
    BY <2>1, <2>2, FieldsAlike
  <2>4. Alike(a, b)
    BY <2>1, <2>3, FieldsAlike DEF Alike
  <2>5. Alike(b, c2)
    BY <2>1, <2>4, FieldsAlike DEF Alike
  <2>6. QED
    BY <1>1, <2>3, <2>4, <2>5 DEF Alike
<1> HIDE DEF c2
<1>3. PICK h : MetaDraw(f).c =
        LET d  == FlushGfxState(c2, h)
            c3 == [d.c EXCEPT !.dyn = c.dyn, !.dirty = c.set]
            c4 == BindDescriptorSet(c3, 0, c.sets[0])
        IN BindGraphicsShader(BindGraphicsShader(BindGraphicsShader(c4,
             "vs", c.shaders["vs"]), "fs", c.shaders["fs"]), "tes", c.shaders["tes"])
  BY DEF MetaDraw, On, c1, c2
<1>4. PICK d : d = FlushGfxState(c2, h).c
  OBVIOUS
<1>5. Alike(c, d)
  BY <1>2, <1>4, FlushAlike DEF Alike
<1> DEFINE c3 == [d EXCEPT !.dyn = c.dyn, !.dirty = c.set]
<1>6. Alike(c, c3)
  BY <1>5 DEF Alike, IsCmd, CmdFields
<1>7. MetaDraw(f).c =
        BindGraphicsShader(BindGraphicsShader(BindGraphicsShader(BindDescriptorSet(c3, 0, c.sets[0]),
             "vs", c.shaders["vs"]), "fs", c.shaders["fs"]), "tes", c.shaders["tes"])
  BY <1>3, <1>4
<1> HIDE DEF c3
<1>8. QED
  BY <1>6, <1>7, FieldsAlike DEF Alike

(* What is left of c with another pass. *)
Passed(f, c, render) == IsCmd(f.c) /\ f.c.level = c.level /\ f.c.render = render

(* A pass that begins is the one asked for, its clears included; one that    *)
(* ends leaves no pass, its resolve included.                               *)
LEMMA PassFacts ==
  ASSUME NEW c, IsCmd(c), NEW h, NEW p
  PROVE  /\ Passed(SetRendering(c, h, p), c, RenderState(p))
         /\ Passed(ClearAttachments(SetRendering(c, h, p)), c, RenderState(p))
         /\ Passed(On([c EXCEPT !.render = NoRender], h), c, NoRender)
         /\ Passed(ResolveRendering(On([c EXCEPT !.render = NoRender], h)), c, NoRender)
<1> USE DEF Passed
<1>1. ASSUME NEW d, NEW k, NEW q, IsCmd(d) PROVE Passed(SetRendering(d, k, q), d, RenderState(q))
  <2> DEFINE d0 == [d EXCEPT !.render = RenderState(q)]
             d1 == SetLocations(d0, Identity(q.count))
  <2>1. IsCmd(d0) /\ d0.level = d.level /\ d0.render = RenderState(q)
    BY <1>1 DEF IsCmd, CmdFields
  <2> HIDE DEF d0
  <2>2. Alike(d0, d1)
    BY <2>1, SetDynAlike DEF SetLocations
  <2>3. SetRendering(d, k, q).c = DirtyRenderPass(d1)
    BY DEF SetRendering, On, d0
  <2> HIDE DEF d1
  <2>4. QED
    BY <2>1, <2>2, <2>3, FieldsAlike DEF Alike
<1>2. ASSUME NEW f, IsCmd(f.c) PROVE Alike(f.c, ClearAttachments(f).c)
  BY <1>2, MetaDrawAlike DEF ClearAttachments, On
<1>3. ASSUME NEW d, IsCmd(d)
      PROVE  LET e == [d EXCEPT !.render = NoRender]
             IN IsCmd(e) /\ e.level = d.level /\ e.render = NoRender
  BY <1>3 DEF IsCmd, CmdFields
<1>4. ASSUME NEW f, IsCmd(f.c) PROVE Passed(ResolveRendering(f), f.c, NoRender)
  <2>1. PICK q : q = SetRendering(f.c, f.g, ResolvePass)
    OBVIOUS
  <2>2. PICK d : d = MetaDraw(q)
    OBVIOUS
  <2>3. IsCmd(d.c) /\ d.c.level = f.c.level
    BY <1>1, <1>4, <2>1, <2>2, MetaDrawAlike DEF Alike
  <2>4. ResolveRendering(f).c = [d.c EXCEPT !.render = NoRender]
    BY <2>1, <2>2 DEF ResolveRendering, On
  <2>5. QED
    BY <1>3, <2>3, <2>4
<1>5. Passed(SetRendering(c, h, p), c, RenderState(p))
  BY <1>1
<1>6. Passed(ClearAttachments(SetRendering(c, h, p)), c, RenderState(p))
  BY <1>2, <1>5 DEF Alike
<1> DEFINE ended == On([c EXCEPT !.render = NoRender], h)
<1>7. Passed(ended, c, NoRender)
  BY <1>3 DEF On
<1> HIDE DEF ended
<1>8. Passed(ResolveRendering(ended), c, NoRender)
  BY <1>4, <1>7
<1>9. QED
  BY <1>5, <1>6, <1>7, <1>8 DEF ended


(***************************************************************************)
(* The pass of the command buffer                                          *)
(***************************************************************************)
Draws == \/ Draw \/ DrawIndexed \/ DrawMulti \/ DrawMultiIndexed \/ DrawIndirectByteCount
         \/ DrawIndirect \/ DrawIndexedIndirect
Sets1 == \/ SetState \/ BindShader \/ BindSets \/ PushConstants \/ BindVertexBuffers
         \/ BindIndexBuffer \/ BeginTransformFeedback \/ EndTransformFeedback
         \/ BeginConditionalRendering \/ EndConditionalRendering

(* Neither a draw nor a command that sets state changes the pass; a draw     *)
(* writes its target.                                                       *)
LEMMA PassKept ==
  ASSUME CmdInv, Draws \/ Sets1
  PROVE  /\ Recording /\ Alike(cmd, cmd') /\ UNCHANGED <<scenario, outer, suspended>>
         /\ fresh' = fresh \/ (cmd.render.in /\ fresh' = Written)
<1>1. CASE Draws
  <2>1. PICK name, draws : DrawCall(name, draws)
    BY <1>1 DEF Draws, Draw, DrawIndexed, DrawMulti, DrawMultiIndexed, DrawIndirectByteCount,
                DrawIndirect, DrawIndexedIndirect
  <2>2. /\ Recording /\ cmd.render.in /\ cmd' = FlushGfxState(cmd, Engine).c
        /\ fresh' = Written /\ UNCHANGED <<scenario, outer, suspended>>
    BY <2>1 DEF DrawCall, MayDraw, Become, On
  <2>3. Alike(cmd, cmd')
    BY <2>2, FlushAlike DEF CmdInv
  <2>4. QED
    BY <2>2, <2>3
<1>2. CASE Sets1
  <2>1. Recording /\ IsCmd(cmd) /\ UNCHANGED <<scenario, outer, suspended, fresh>>
    BY <1>2 DEF Sets1, SetState, BindShader, BindSets, PushConstants, BindVertexBuffers,
                BindIndexBuffer, BeginTransformFeedback, EndTransformFeedback,
                BeginConditionalRendering, EndConditionalRendering, Unchanged, CmdInv
  <2>2. Alike(cmd, cmd')
    <3>1. CASE SetState
      BY <2>1, <3>1, SetDynAlike DEF SetState
    <3>2. CASE BindShader \/ BindSets
      BY <2>1, <3>2, FieldsAlike DEF BindShader, BindSets
    <3>3. CASE PushConstants
      BY <2>1, <3>3 DEF PushConstants, Alike, IsCmd, CmdFields
    <3>4. CASE BindVertexBuffers
      BY <2>1, <3>4 DEF BindVertexBuffers, Alike, IsCmd, CmdFields
    <3>5. CASE \/ BindIndexBuffer \/ BeginTransformFeedback \/ EndTransformFeedback
               \/ BeginConditionalRendering \/ EndConditionalRendering
      BY <2>1, <3>5 DEF BindIndexBuffer, BeginTransformFeedback, EndTransformFeedback,
                        BeginConditionalRendering, EndConditionalRendering, Unchanged, Alike
    <3>6. QED
      BY <1>2, <3>1, <3>2, <3>3, <3>4, <3>5 DEF Sets1
  <2>3. Recording /\ fresh' = fresh /\ UNCHANGED <<scenario, outer, suspended>>
    BY <2>1
  <2>4. QED
    BY <2>2, <2>3
<1>3. QED
  BY <1>1, <1>2

(* What the commands that change the pass make of it. *)
LEMMA CommandBufferFacts ==
  ASSUME CmdInv
  PROVE  /\ BeginCommandBuffer =>
              /\ ~Recording /\ IsCmd(cmd') /\ cmd'.level = "primary" /\ cmd'.render = NoRender
              /\ UNCHANGED <<scenario, outer, fresh, suspended>>
         /\ EndCommandBuffer =>
              /\ Recording /\ cmd.level = "primary" /\ ~cmd.render.in /\ cmd' = NoCmd
              /\ UNCHANGED <<scenario, outer, fresh, suspended>>
         /\ EndSecondary =>
              /\ Recording /\ cmd.level = "secondary" /\ outer' = NoCmd /\ Alike(outer, cmd')
              /\ UNCHANGED <<scenario, fresh, suspended>>
<1>1. ASSUME BeginCommandBuffer
      PROVE  /\ ~Recording /\ IsCmd(cmd') /\ cmd'.level = "primary" /\ cmd'.render = NoRender
             /\ UNCHANGED <<scenario, outer, fresh, suspended>>
  BY <1>1, FreshFacts DEF BeginCommandBuffer, Unchanged, Recording
<1>2. ASSUME EndCommandBuffer
      PROVE  /\ Recording /\ cmd.level = "primary" /\ ~cmd.render.in /\ cmd' = NoCmd
             /\ UNCHANGED <<scenario, outer, fresh, suspended>>
  BY <1>2 DEF EndCommandBuffer, Unchanged
<1>3. ASSUME EndSecondary
      PROVE  /\ Recording /\ cmd.level = "secondary" /\ outer' = NoCmd /\ Alike(outer, cmd')
             /\ UNCHANGED <<scenario, fresh, suspended>>
  BY <1>3, FreshFacts DEF EndSecondary, Unchanged, CmdInv
<1>4. QED
  BY <1>1, <1>2, <1>3

(* A secondary begins with the pass it inherits. *)
LEMMA SecondaryFacts ==
  ASSUME CmdInv, ExecuteSecondary
  PROVE  /\ Recording /\ cmd.level = "primary" /\ cmd.render.in /\ outer' = cmd
         /\ IsCmd(cmd') /\ cmd'.level = "secondary"
         /\ \E samples \in IF cmd.render.samples # 0 THEN {cmd.render.samples} ELSE scenario.inherits :
              cmd'.render = [cmd.render EXCEPT !.samples = samples]
         /\ UNCHANGED <<scenario, fresh, suspended>>
<1>1. PICK samples \in IF cmd.render.samples # 0 THEN {cmd.render.samples} ELSE scenario.inherits :
        cmd' = DirtyRenderPass(SetLocations(
                 [Fresh("secondary") EXCEPT !.render = [cmd.render EXCEPT !.samples = samples]],
                 Identity(cmd.render.count)))
  BY DEF ExecuteSecondary
<1>2. PICK render, zero, map : /\ render = [cmd.render EXCEPT !.samples = samples]
                               /\ zero = Fresh("secondary") /\ map = Identity(cmd.render.count)
  OBVIOUS
<1>3. PICK c : c = [zero EXCEPT !.render = render]
  OBVIOUS
<1>4. IsCmd(c) /\ c.level = "secondary" /\ c.render = render
  BY <1>2, <1>3, FreshFacts DEF IsCmd, CmdFields
<1>5. PICK d : d = SetLocations(c, map)
  OBVIOUS
<1>6. Alike(c, d)
  BY <1>4, <1>5, SetDynAlike DEF SetLocations
<1>7. cmd' = DirtyRenderPass(d)
  BY <1>1, <1>2, <1>3, <1>5
<1>8. IsCmd(cmd') /\ cmd'.level = "secondary" /\ cmd'.render = render
  BY <1>4, <1>6, <1>7, FieldsAlike DEF Alike
<1>9. /\ Recording /\ cmd.level = "primary" /\ cmd.render.in /\ outer' = cmd
      /\ UNCHANGED <<scenario, fresh, suspended>>
  BY DEF ExecuteSecondary, Unchanged
<1>10. QED
  BY <1>2, <1>8, <1>9

(* A pass begins with its load operation. *)
LEMMA BeginFacts ==
  ASSUME CmdInv, BeginRendering
  PROVE  \E p \in scenario.passes :
           /\ Recording /\ cmd.level = "primary" /\ ~cmd.render.in
           /\ IF suspended = NoPass THEN ~p.resuming
              ELSE p = [suspended EXCEPT !.resuming = TRUE, !.suspending = FALSE]
           /\ IsCmd(cmd') /\ cmd'.level = "primary" /\ cmd'.render = RenderState(p)
           /\ fresh' = Loaded(p) /\ suspended' = IF p.suspending THEN p ELSE NoPass
           /\ UNCHANGED <<scenario, outer>>
<1>1. PICK p \in scenario.passes :
        /\ Recording /\ cmd.level = "primary" /\ ~cmd.render.in
        /\ IF suspended = NoPass THEN ~p.resuming
           ELSE p = [suspended EXCEPT !.resuming = TRUE, !.suspending = FALSE]
        /\ LET f == SetRendering(cmd, Engine, p)
           IN cmd' = f.c \/ cmd' = ClearAttachments(f).c
        /\ fresh' = Loaded(p) /\ suspended' = IF p.suspending THEN p ELSE NoPass
        /\ UNCHANGED <<scenario, outer>>
  BY DEF BeginRendering, Become, Unchanged
<1>2. IsCmd(cmd)
  BY <1>1 DEF CmdInv
<1>3. PICK h : h = Engine
  OBVIOUS
<1>4. /\ Passed(SetRendering(cmd, h, p), cmd, RenderState(p))
      /\ Passed(ClearAttachments(SetRendering(cmd, h, p)), cmd, RenderState(p))
  BY <1>2, PassFacts
<1>5. IsCmd(cmd') /\ cmd'.level = cmd.level /\ cmd'.render = RenderState(p)
  <2>1. PICK f : f = SetRendering(cmd, h, p)
    OBVIOUS
  <2>2. cmd' = f.c \/ cmd' = ClearAttachments(f).c
    BY <1>1, <1>3, <2>1
  <2>3. QED
    BY <1>4, <2>1, <2>2 DEF Passed
<1>6. QED
  BY <1>1, <1>5

(* A pass ends with its store operation. *)
LEMMA EndFacts ==
  ASSUME CmdInv, EndRendering
  PROVE  /\ Recording /\ cmd.level = "primary" /\ cmd.render.in
         /\ IsCmd(cmd') /\ cmd'.level = "primary" /\ cmd'.render = NoRender
         /\ fresh' = IF /\ ~cmd.render.suspending /\ cmd.render.store /\ Binds(cmd.render)
                        /\ ~cmd.render.linear
                     THEN IF "shadow" \in fresh THEN fresh \cup {"plane"} ELSE fresh \ {"plane"}
                     ELSE fresh
         /\ UNCHANGED <<scenario, outer, suspended>>
<1>1. LET f == On([cmd EXCEPT !.render = NoRender], Engine)
      IN cmd' = f.c \/ cmd' = ResolveRendering(f).c
  BY DEF EndRendering, Become
<1>2. IsCmd(cmd) /\ Recording /\ cmd.level = "primary" /\ cmd.render.in
  BY DEF EndRendering, CmdInv
<1>3. IsCmd(cmd') /\ cmd'.level = "primary" /\ cmd'.render = NoRender
  BY <1>1, <1>2, PassFacts DEF Passed
<1>4. fresh' = IF /\ ~cmd.render.suspending /\ cmd.render.store /\ Binds(cmd.render)
                  /\ ~cmd.render.linear
               THEN IF "shadow" \in fresh THEN fresh \cup {"plane"} ELSE fresh \ {"plane"}
               ELSE fresh
  BY DEF EndRendering, Binds
<1>5. UNCHANGED <<scenario, outer, suspended>>
  BY DEF EndRendering, Unchanged
<1>6. QED
  BY <1>2, <1>3, <1>4, <1>5


(***************************************************************************)
(* The command buffer is consistent                                        *)
(***************************************************************************)
(* The pass that an application asks for has its members. *)
LEMMA RenderTypes ==
  /\ IsRender(NoRender) /\ ~NoRender.in /\ NoRender.image = FALSE
  /\ \A p : IsPass(p) =>
       /\ IsRender(RenderState(p)) /\ RenderState(p).in /\ p # NoPass
       /\ RenderState(p).image = p.image /\ RenderState(p).views = p.views
       /\ RenderState(p).store = p.store /\ RenderState(p).suspending = p.suspending
       /\ RenderState(p).linear = RenderingLinear(p)
  /\ \A r, samples : IsRender(r) =>
       LET s == [r EXCEPT !.samples = samples] IN IsRender(s) /\ SamePass(r, s)
<1>1. IsRender(NoRender) /\ ~NoRender.in /\ NoRender.image = FALSE
  BY DEF NoRender, IsRender, RenderFields
<1>2. ASSUME NEW p, IsPass(p)
      PROVE  /\ IsRender(RenderState(p)) /\ RenderState(p).in /\ p # NoPass
             /\ RenderState(p).image = p.image /\ RenderState(p).views = p.views
             /\ RenderState(p).store = p.store /\ RenderState(p).suspending = p.suspending
             /\ RenderState(p).linear = RenderingLinear(p)
  <2>1. PICK linear \in BOOLEAN : linear = RenderingLinear(p)
    BY DEF RenderingLinear
  <2>2. p # NoPass
    BY <1>2 DEF IsPass, PassFields, NoPass
  <2>3. QED
    BY <1>2, <2>1, <2>2 DEF IsPass, PassFields, RenderState, IsRender, RenderFields
<1>3. ASSUME NEW r, NEW samples, IsRender(r)
      PROVE  LET s == [r EXCEPT !.samples = samples] IN IsRender(s) /\ SamePass(r, s)
  BY <1>3 DEF IsRender, RenderFields, SamePass
<1>4. QED
  BY <1>1, <1>2, <1>3

(* The passes are those of an application. *)
LEMMA ScenarioFacts ==
  ASSUME CmdInv, NEW p \in scenario.passes
  PROVE  IsPass(p)
BY ScenarioAssumption DEF CmdInv

(* Every step keeps the command buffer consistent. *)
LEMMA CmdStep ==
  ASSUME CmdInv, [Next]_vars
  PROVE  CmdInv'
<1>1. CASE UNCHANGED vars
  BY <1>1 DEF vars, CmdInv, Recording
<1>2. CASE Draws \/ Sets1
  <2>1. /\ Recording /\ Alike(cmd, cmd') /\ UNCHANGED <<scenario, outer>>
    BY <1>2, PassKept
  <2>2. cmd' # NoCmd
    BY <2>1 DEF Alike, IsCmd, CmdFields, NoCmd
  <2>3. QED
    BY <2>1, <2>2 DEF CmdInv, Alike, Recording
<1>3. CASE BeginCommandBuffer
  <2>1. cmd' # NoCmd
    BY <1>3, CommandBufferFacts DEF IsCmd, CmdFields, NoCmd
  <2>2. QED
    BY <1>3, <2>1, CommandBufferFacts, RenderTypes DEF CmdInv, Recording
<1>4. CASE EndCommandBuffer
  BY <1>4, CommandBufferFacts DEF CmdInv, Recording
<1>5. CASE EndSecondary
  <2>1. cmd' # NoCmd
    BY <1>5, CommandBufferFacts DEF Alike, IsCmd, CmdFields, NoCmd
  <2>2. QED
    BY <1>5, <2>1, CommandBufferFacts DEF CmdInv, Recording, Alike
<1>6. CASE ExecuteSecondary
  <2>1. cmd' # NoCmd
    BY <1>6, SecondaryFacts DEF IsCmd, CmdFields, NoCmd
  <2>2. PICK samples : cmd'.render = [cmd.render EXCEPT !.samples = samples]
    BY <1>6, SecondaryFacts
  <2>3. IsRender(cmd.render) /\ IsRender(cmd'.render) /\ SamePass(cmd.render, cmd'.render)
    <3>1. PICK r : r = cmd.render
      OBVIOUS
    <3>2. IsRender(r)
      BY <1>6, <3>1, SecondaryFacts DEF CmdInv
    <3>3. IsRender([r EXCEPT !.samples = samples]) /\ SamePass(r, [r EXCEPT !.samples = samples])
      BY <3>2, RenderTypes
    <3>4. QED
      BY <2>2, <3>1, <3>2, <3>3
  <2>4. cmd'.render.in
    BY <1>6, <2>3, SecondaryFacts DEF SamePass, RenderFields
  <2>5. QED
    BY <1>6, <2>1, <2>3, <2>4, SecondaryFacts DEF CmdInv, Recording
<1>7. CASE BeginRendering
  <2>1. PICK p \in scenario.passes :
          /\ Recording /\ cmd.level = "primary"
          /\ IsCmd(cmd') /\ cmd'.level = "primary" /\ cmd'.render = RenderState(p)
          /\ UNCHANGED <<scenario, outer>>
    BY <1>7, BeginFacts
  <2>2. IsRender(cmd'.render)
    BY <2>1, ScenarioFacts, RenderTypes
  <2>3. cmd' # NoCmd
    BY <2>1 DEF IsCmd, CmdFields, NoCmd
  <2>4. QED
    BY <2>1, <2>2, <2>3 DEF CmdInv, Recording
<1>8. CASE EndRendering
  <2>1. cmd' # NoCmd
    BY <1>8, EndFacts DEF IsCmd, CmdFields, NoCmd
  <2>2. QED
    BY <1>8, <2>1, EndFacts, RenderTypes DEF CmdInv, Recording
<1>9. QED
  BY <1>1, <1>2, <1>3, <1>4, <1>5, <1>6, <1>7, <1>8 DEF Next, Draws, Sets1

(***************************************************************************)
(* The linear image is current                                             *)
(***************************************************************************)
(* Two passes alike but for the samples hold the same copy. *)
LEMMA HoldsAlike ==
  ASSUME NEW r, NEW s, SamePass(r, s)
  PROVE  /\ Binds(r) = Binds(s) /\ Copy(r) = Copy(s) /\ (Holds(r) <=> Holds(s))
         /\ r.store = s.store /\ r.suspending = s.suspending /\ r.in = s.in
BY DEF SamePass, RenderFields, Binds, Copy, Holds

(* A load operation makes the copy of its pass the latest. *)
LEMMA LoadedHolds ==
  ASSUME PassesKeepImage, CmdInv, NEW p \in scenario.passes,
         IF p.resuming THEN Holds(RenderState(p)) ELSE "plane" \in fresh
  PROVE  LET r == RenderState(p)
         IN IF Binds(r) THEN Copy(r) \in Loaded(p) /\ r.store ELSE "plane" \in Loaded(p)
<1>1. /\ RenderState(p).image = p.image /\ RenderState(p).views = p.views
      /\ RenderState(p).store = p.store /\ RenderState(p).linear = RenderingLinear(p)
  BY ScenarioFacts, RenderTypes
<1>2. LoadedImage(p) = Binds(RenderState(p)) /\ (LoadedImage(p) => p.store /\ p.load \in {"load", "clear"})
  BY <1>1 DEF LoadedImage, Binds, PassesKeepImage, CmdInv
<1>3. CASE p.resuming
  BY <1>1, <1>2, <1>3 DEF Loaded, Holds
<1>4. CASE ~p.resuming
  <2>1. "plane" \in fresh
    BY <1>4
  <2>2. CASE p.load = "clear"
    BY <1>1, <1>2, <1>4, <2>1, <2>2 DEF Loaded
  <2>3. CASE p.load # "clear"
    BY <1>1, <1>2, <1>4, <2>1, <2>3 DEF Loaded, CopiedIn, Copy
  <2>4. QED
    BY <2>2, <2>3
<1>5. QED
  BY <1>3, <1>4

(* Every step leaves the copy that matters the latest. *)
LEMMA ImageStep ==
  ASSUME PassesKeepImage, CmdInv, ImageInv, [Next]_vars
  PROVE  ImageInv'
<1>1. CASE UNCHANGED vars
  BY <1>1 DEF vars, ImageInv, InPass, Recording, Holds, Binds, Copy
<1>2. CASE Draws \/ Sets1
  <2>1. /\ Recording /\ Alike(cmd, cmd') /\ UNCHANGED <<scenario, outer, suspended>>
        /\ fresh' = fresh \/ (cmd.render.in /\ fresh' = Written)
    BY <1>2, PassKept
  <2>2. cmd' # NoCmd /\ cmd'.render = cmd.render
    BY <2>1 DEF Alike, IsCmd, CmdFields, NoCmd
  <2>3. CASE fresh' = fresh
    BY <2>1, <2>2, <2>3 DEF ImageInv, InPass, Recording, Holds, Binds, Copy
  <2>4. CASE fresh' = {Copy(cmd.render)} /\ Binds(cmd.render) /\ cmd.render.in
    <3>1. Holds(cmd.render)'
      BY <2>2, <2>4 DEF Holds, Binds, Copy
    <3>2. suspended # NoPass => Holds(RenderState(suspended))'
      <4>1. suspended # NoPass => SamePass(RenderState(suspended), cmd.render)
        BY <2>1, <2>4 DEF ImageInv, InPass
      <4>2. suspended # NoPass =>
              /\ Binds(RenderState(suspended)) = Binds(cmd.render)
              /\ Copy(RenderState(suspended)) = Copy(cmd.render)
        BY <4>1, HoldsAlike
      <4>3. QED
        BY <2>1, <2>4, <4>2 DEF Holds, Binds, Copy
    <3>3. QED
      BY <2>1, <2>2, <2>4, <3>1, <3>2 DEF ImageInv, InPass, Recording, Binds
  <2>5. QED
    BY <2>1, <2>3, <2>4 DEF Written, Binds
<1>3. CASE BeginCommandBuffer
  <2>1. /\ ~Recording /\ cmd'.render = NoRender /\ ~NoRender.in
        /\ UNCHANGED <<scenario, fresh, suspended>>
    BY <1>3, CommandBufferFacts, RenderTypes
  <2>2. QED
    BY <2>1 DEF ImageInv, InPass, Holds, Binds, Copy
<1>4. CASE EndCommandBuffer
  <2>1. cmd' = NoCmd /\ ~cmd.render.in /\ UNCHANGED <<scenario, fresh, suspended>>
    BY <1>4, CommandBufferFacts
  <2>2. QED
    BY <2>1 DEF ImageInv, InPass, Recording, Holds, Binds, Copy
<1>5. CASE EndSecondary \/ ExecuteSecondary
  <2>1. /\ Recording /\ cmd.render.in /\ UNCHANGED <<scenario, fresh, suspended>>
        /\ cmd' # NoCmd /\ SamePass(cmd.render, cmd'.render)
    <3>1. CASE EndSecondary
      <4>1. /\ Recording /\ cmd.level = "secondary" /\ Alike(outer, cmd')
            /\ UNCHANGED <<scenario, fresh, suspended>>
        BY <3>1, CommandBufferFacts
      <4>2. cmd.render.in /\ SamePass(outer.render, cmd.render)
        BY <4>1 DEF CmdInv
      <4>3. cmd'.render = outer.render /\ cmd' # NoCmd
        BY <4>1 DEF Alike, IsCmd, CmdFields, NoCmd
      <4>4. QED
        BY <4>1, <4>2, <4>3 DEF SamePass
    <3>2. CASE ExecuteSecondary
      <4>1. PICK r, samples : r = cmd.render /\ cmd'.render = [r EXCEPT !.samples = samples]
        BY <3>2, SecondaryFacts
      <4>2. /\ Recording /\ cmd.render.in /\ IsCmd(cmd')
            /\ UNCHANGED <<scenario, fresh, suspended>>
        BY <3>2, SecondaryFacts
      <4>3. IsRender(r)
        BY <4>1, <4>2 DEF CmdInv
      <4>4. SamePass(r, [r EXCEPT !.samples = samples])
        BY <4>3, RenderTypes
      <4>5. cmd' # NoCmd
        BY <4>2 DEF IsCmd, CmdFields, NoCmd
      <4>6. QED
        BY <4>1, <4>2, <4>4, <4>5
    <3>3. QED
      BY <1>5, <3>1, <3>2
  <2>2. PICK r, s : r = cmd.render /\ s = cmd'.render
    OBVIOUS
  <2>3. /\ Binds(r) = Binds(s) /\ Copy(r) = Copy(s) /\ (Holds(r) <=> Holds(s))
        /\ r.store = s.store /\ r.suspending = s.suspending /\ r.in = s.in
    BY <2>1, <2>2, HoldsAlike
  <2>4. \A x : SamePass(x, r) => SamePass(x, s)
    BY <2>1, <2>2 DEF SamePass
  <2>5. \A x : Holds(x)' <=> Holds(x)
    BY <2>1 DEF Holds, Binds, Copy
  <2>6. /\ suspended # NoPass => /\ suspended \in scenario.passes /\ suspended.suspending
                                 /\ Holds(RenderState(suspended))
        /\ Holds(r) /\ (Binds(r) => r.store)
        /\ IF suspended = NoPass THEN ~r.suspending ELSE SamePass(RenderState(suspended), r)
    BY <2>1, <2>2 DEF ImageInv, InPass
  <2>7. InPass' /\ InPass
    BY <2>1, <2>2, <2>3 DEF InPass, Recording
  <2>8. Binds(s) <=> Binds(cmd.render)'
    BY <2>2 DEF Binds
  <2>9. QED
    BY <2>1, <2>2, <2>3, <2>4, <2>5, <2>6, <2>7, <2>8 DEF ImageInv
<1>6. CASE BeginRendering
  <2>1. PICK p \in scenario.passes :
          /\ Recording /\ ~cmd.render.in
          /\ IF suspended = NoPass THEN ~p.resuming
             ELSE p = [suspended EXCEPT !.resuming = TRUE, !.suspending = FALSE]
          /\ IsCmd(cmd') /\ cmd'.render = RenderState(p)
          /\ fresh' = Loaded(p) /\ suspended' = IF p.suspending THEN p ELSE NoPass
          /\ UNCHANGED scenario
    BY <1>6, BeginFacts
  <2>2. cmd' # NoCmd
    BY <2>1 DEF IsCmd, CmdFields, NoCmd
  <2>3. IF p.resuming THEN Holds(RenderState(p)) ELSE "plane" \in fresh
    <3>1. CASE suspended = NoPass
      BY <2>1, <3>1 DEF ImageInv, InPass
    <3>2. CASE suspended # NoPass
      <4>1. /\ suspended \in scenario.passes /\ Holds(RenderState(suspended))
            /\ p = [suspended EXCEPT !.resuming = TRUE, !.suspending = FALSE]
        BY <2>1, <3>2 DEF ImageInv
      <4>2. IsPass(suspended)
        BY <4>1, ScenarioFacts
      <4>3. /\ p.resuming = TRUE /\ p.image = suspended.image /\ p.views = suspended.views
            /\ p.depth = suspended.depth /\ p.stencil = suspended.stencil
            /\ p.aligned = suspended.aligned
        BY <4>1, <4>2 DEF IsPass, PassFields
      <4>4. RenderingLinear(p) = RenderingLinear(suspended)
        BY <4>3 DEF RenderingLinear
      <4>5. /\ RenderState(p).image = RenderState(suspended).image
            /\ RenderState(p).views = RenderState(suspended).views
            /\ RenderState(p).linear = RenderState(suspended).linear
        BY <4>2, <4>3, <4>4, ScenarioFacts, RenderTypes
      <4>6. QED
        BY <4>1, <4>3, <4>5 DEF Holds, Binds, Copy
    <3>3. QED
      BY <3>1, <3>2
  <2>4. PICK r : r = RenderState(p)
    OBVIOUS
  <2>5. IF Binds(r) THEN Copy(r) \in Loaded(p) /\ r.store ELSE "plane" \in Loaded(p)
    BY <2>3, <2>4, LoadedHolds
  <2>6. Holds(r)' /\ (Binds(r) => r.store)
    BY <2>1, <2>5 DEF Holds, Binds, Copy
  <2>7. IsPass(p) /\ r.suspending = p.suspending /\ r.in /\ p # NoPass /\ SamePass(r, r)
    BY <2>4, ScenarioFacts, RenderTypes DEF SamePass
  <2>8. p.suspending \in BOOLEAN
    BY <2>7 DEF IsPass
  <2>9. cmd'.render = r /\ (Binds(cmd.render)' <=> Binds(r))
    BY <2>1, <2>4 DEF Binds
  <2>10. CASE p.suspending
    BY <2>1, <2>2, <2>4, <2>6, <2>7, <2>9, <2>10 DEF ImageInv, InPass, Recording
  <2>11. CASE ~p.suspending
    BY <2>1, <2>2, <2>4, <2>6, <2>7, <2>9, <2>11 DEF ImageInv, InPass, Recording
  <2>12. QED
    BY <2>10, <2>11
<1>7. CASE EndRendering
  <2>1. /\ Recording /\ cmd.render.in /\ cmd'.render = NoRender /\ ~NoRender.in
        /\ fresh' = IF /\ ~cmd.render.suspending /\ cmd.render.store /\ Binds(cmd.render)
                       /\ ~cmd.render.linear
                    THEN IF "shadow" \in fresh THEN fresh \cup {"plane"} ELSE fresh \ {"plane"}
                    ELSE fresh
        /\ UNCHANGED <<scenario, suspended>>
    BY <1>7, EndFacts, RenderTypes
  <2>2. ~InPass'
    BY <2>1 DEF InPass
  <2>3. /\ Holds(cmd.render) /\ (Binds(cmd.render) => cmd.render.store)
        /\ IF suspended = NoPass THEN ~cmd.render.suspending
           ELSE /\ SamePass(RenderState(suspended), cmd.render)
                /\ suspended \in scenario.passes /\ suspended.suspending
                /\ Holds(RenderState(suspended))
    BY <2>1 DEF ImageInv, InPass
  <2>4. CASE suspended = NoPass
    BY <2>1, <2>2, <2>3, <2>4 DEF ImageInv, Holds, Copy
  <2>5. CASE suspended # NoPass
    <3>1. RenderState(suspended).suspending = suspended.suspending
      BY <2>3, <2>5, ScenarioFacts, RenderTypes
    <3>2. cmd.render.suspending
      BY <2>3, <2>5, <3>1, HoldsAlike
    <3>3. fresh' = fresh
      BY <2>1, <3>2
    <3>4. Holds(RenderState(suspended))'
      BY <2>1, <2>3, <2>5, <3>3 DEF Holds, Binds, Copy
    <3>5. QED
      BY <2>1, <2>2, <2>3, <2>5, <3>4 DEF ImageInv
  <2>6. QED
    BY <2>4, <2>5
<1>8. QED
  BY <1>1, <1>2, <1>3, <1>4, <1>5, <1>6, <1>7 DEF Next, Draws, Sets1

(* The copy of the linear image that a pass renders is the latest, and the   *)
(* image is between passes (nvk_CmdBeginRendering and nvk_CmdEndRendering    *)
(* with their copies to and from the tiled shadow), through suspended and   *)
(* resumed passes and secondary command buffers.                            *)
THEOREM LinearImageCorrect ==
  ASSUME PassesKeepImage
  PROVE  Spec => []LinearImageCurrent
<1>1. Init => CmdInv /\ ImageInv
  BY DEF Init, CmdInv, ImageInv, InPass, Recording
<1>2. CmdInv /\ ImageInv /\ [Next]_vars => (CmdInv /\ ImageInv)'
  BY CmdStep, ImageStep
<1>3. CmdInv /\ ImageInv => LinearImageCurrent
  BY DEF ImageInv, InPass, LinearImageCurrent, Holds, Binds, Copy
<1>4. QED
  BY <1>1, <1>2, <1>3, PTL DEF Spec

(***************************************************************************)
(* What the command buffer knows of the engine                             *)
(***************************************************************************)
ShaderNames == {"vs_one", "vs_two", "vs_swap", "tes_cw", "tes_ccw", "fs", "fs_half", "fs_full",
                "meta_vs", "meta_fs", NULL}
FsNames == {"fs", "fs_half", "fs_full", "meta_fs", NULL}
UniformBuffers == {UniformBuffer(s) : s \in Sets}
SamplesNamed == {0} \cup SampleCounts

Typed(c) ==
  /\ IsCmd(c)
  /\ DOMAIN c.dyn = DynStates /\ c.set \subseteq DynStates /\ c.dirty \subseteq DynStates
  /\ c.dyn["VI_BINDINGS_VALID"] \subseteq Streams
  /\ c.dyn["VP_VIEWPORT_COUNT"] \in 1 .. NumViewports
  /\ c.dyn["MS_RASTERIZATION_SAMPLES"] \in SamplesNamed
  /\ c.dyn["CB_WRITE_MASKS"] \in [Targets -> 0 .. 15]
  /\ c.dyn["COLOR_ATTACHMENT_MAP"] \in LocationMaps
  /\ c.render.count \in 0 .. NumTargets /\ c.render.samples \in SamplesNamed
  /\ c.shaders \in [Stages -> ShaderNames] /\ c.shaders["fs"] \in FsNames
  /\ c.shaders_dirty \subseteq Stages
  /\ DOMAIN c.sets = Sets
  /\ DOMAIN c.cbufs = Stages \X Slots /\ c.cbufs_dirty \subseteq Stages \X Slots

(* Slot 0 is for the root table alone, and the slots of a clean shader are   *)
(* those of its constant buffer map.                                        *)
Slotted(c) ==
  /\ \A at \in Stages \X Slots :
       c.cbufs[at] \in {NoCbuf} \cup IF at[2] = 0 THEN {Root} ELSE UniformBuffers
  /\ \A at \in InUse(c) :
       at[1] \notin c.shaders_dirty => c.cbufs[at] = CbufMap(c, at[1])[at[2]]

ShadersIn(c, h) ==
  /\ \A s \in Stages \ c.shaders_dirty : h.prog[s] = c.shaders[s]
  /\ c.shaders_dirty \cap Vtgm = {} => h.vtgm = LastVtgm(c)

BuffersIn(c, h) ==
  /\ \A s \in Stages : h.cbuf[<<s, 0>>] = CB0
  /\ \A at \in (Stages \X Slots) \ c.cbufs_dirty :
       c.cbufs[at] \in UniformBuffers => h.cbuf[at] = c.sets[c.cbufs[at][2]]

Corr(c, h) == /\ Typed(c) /\ Slotted(c) /\ Rooted(h)
              /\ ShadersIn(c, h) /\ BuffersIn(c, h) /\ VertexCurrent(c, h) /\ StateCurrent(c, h)

(* d is c, flushed; k is h after shaders and buffers are bound too.          *)
Kin(c, d)  == /\ d.dyn = c.dyn /\ d.set = c.set /\ d.render = c.render /\ d.shaders = c.shaders
              /\ d.sets = c.sets /\ d.push = c.push /\ d.vb0 = c.vb0 /\ d.level = c.level
Held(h, k) ==
  /\ k.vb.range = h.vb.range /\ k.cb0.push = h.cb0.push /\ k.xfb = h.xfb
  /\ k.override = h.override /\ k.predicate = h.predicate
  /\ \A x \in k.when : x \in h.when \/ x = Mode(h)

(* One part of a flush after another. *)
LEMMA HeldTransitive ==
  ASSUME NEW h, NEW k, NEW l, NEW b, NEW c, NEW d
  PROVE  /\ Held(h, h) /\ Kin(b, b) /\ (Kept(h, k) => Held(h, k))
         /\ Held(h, k) /\ Held(k, l) => Held(h, l)
         /\ Kin(b, c) /\ Kin(c, d) => Kin(b, d)
BY DEF Held, Kept, Kin, Mode

(* A macro that binds nothing leaves what the command buffer knows of what   *)
(* is bound true, and one that tunes nothing all that it knows.             *)
LEMMA CorrStill ==
  ASSUME NEW c, NEW h, NEW k, Corr(c, h)
  PROVE  /\ Still(h, k) /\ StateCurrent(c, k) => Corr(c, k)
         /\ Ran(h, k) => Corr(c, k)
<1>1. Still(h, k) /\ StateCurrent(c, k) => Corr(c, k)
  BY DEF Corr, Still, Kept, ShadersIn, BuffersIn, VertexCurrent
<1>2. Ran(h, k) => StateCurrent(c, k)
  BY StateAloof DEF Ran, Corr
<1>3. QED
  BY <1>1, <1>2 DEF Ran

(* The sizes that rows take from a typed command buffer. *)
LEMMA TypedBounded ==
  ASSUME NEW c, Typed(c)
  PROVE  Bounded(c)
BY DEF Typed, Bounded

(* What one knows of the engine from another that it follows, in its pass.   *)
LEMMA KinState ==
  ASSUME NEW c, NEW d, NEW h, StateCurrent(c, h), Typed(c), Typed(d), Follows(c, d),
         d.render = c.render
  PROVE  StateCurrent(d, h)
<1>1. PassIn(d.render, h)
  BY DEF StateCurrent
<1>2. QED
  BY <1>1, TypedBounded, StateLocal

(* The maps of the shaders: the root table in slot 0, sets in the others.    *)
LEMMA ShaderMaps ==
  ASSUME NEW c, Typed(c), NEW s \in Stages, NEW n \in DOMAIN CbufMap(c, s)
  PROVE  /\ n \in Slots
         /\ CbufMap(c, s)[n] \in IF n = 0 THEN {Root} ELSE UniformBuffers
<1> DEFINE name == c.shaders[s]
           Good(m) == \A i \in DOMAIN m : /\ i \in Slots
                                         /\ m[i] \in IF i = 0 THEN {Root} ELSE UniformBuffers
<1>1. name \in ShaderNames
  BY DEF Typed
<1>2. UniformBuffer(0) \in UniformBuffers /\ UniformBuffer(1) \in UniformBuffers
  BY DEF UniformBuffers, Sets
<1> HIDE DEF name
<1>3. Good(RootAnd(<<>>))
  BY DEF Slots, RootAnd
<1>4. Good(RootAnd(<<0>>)) /\ Good(RootAnd(<<1>>))
  BY <1>2 DEF Slots, RootAnd
<1>5. Good(RootAnd(<<0, 1>>))
  BY <1>2 DEF Slots, RootAnd
<1>6. CASE name = NULL
  BY <1>6 DEF CbufMap, name
<1>7. CASE name # NULL
  <2>1. CbufMap(c, s) = Shader(name).cbufs
    BY <1>7 DEF CbufMap, name
  <2>2. Shader(name).cbufs \in {RootAnd(<<>>), RootAnd(<<0>>), RootAnd(<<1>>), RootAnd(<<0, 1>>)}
    BY <1>1, <1>7 DEF ShaderNames, Shader
  <2>3. Good(Shader(name).cbufs)
    BY <1>3, <1>4, <1>5, <2>2
  <2>4. QED
    BY <2>1, <2>3
<1>8. QED
  BY <1>6, <1>7

(***************************************************************************)
(* Flushing                                                                *)
(***************************************************************************)
(* The dynamic state. *)
LEMMA FlushDynCorr ==
  ASSUME NEW c, NEW h, Corr(c, h)
  PROVE  \E d, k : FlushDyn(On(c, h)) = On(d, k) /\ Corr(d, k) /\ Kin(c, d) /\ Held(h, k)
<1>1. CASE c.dirty = {}
  BY <1>1, HeldTransitive DEF FlushDyn, On
<1>2. CASE c.dirty # {}
  <2>1. PICK d : d = [c EXCEPT !.dirty = {}]
    OBVIOUS
  <2>2. PICK g0, g1 : g0 = WriteRows(h, c) /\ g1 = FlushVi(g0, c)
    OBVIOUS
  <2>3. PICK g2, g3 : g2 = FlushTs(g1, c) /\ g3 = FlushVp(g2, c)
    OBVIOUS
  <2>4. PICK g4, g5, g6 : g4 = FlushRs(g3, c) /\ g5 = FlushMs(g4, c) /\ g6 = FlushCb(g5, c)
    OBVIOUS
  <2>5. FlushDyn(On(c, h)) = On(d, g6)
    <3>1. FlushDyn(On(c, h)) = On(d, FlushDynamicState(h, c))
      BY <1>2, <2>1 DEF FlushDyn, On
    <3>2. QED
      BY <2>2, <2>3, <2>4, <3>1 DEF FlushDynamicState
  <2>6. Typed(c) /\ Rooted(h) /\ VertexCurrent(c, h) /\ StateCurrent(c, h)
    BY DEF Corr
  <2>7. Still(h, g0) /\ Rooted(g0) /\ Formatted(g0.vb)
    BY <2>2, <2>6, ShadowStill, StillTransitive DEF Still, VertexCurrent
  <2> DEFINE valid == c.dyn["VI_BINDINGS_VALID"]
  <2>8. /\ Kept(g0, g1) /\ Formatted(g1.vb)
        /\ g1.vb.enables = IF "VI_BINDINGS_VALID" \in c.dirty THEN valid ELSE g0.vb.enables
        /\ IF Dirty(c, VertexState)
           THEN \A s \in valid : g1.vb.format[s].stride = c.dyn["VI_BINDING_STRIDES"]
           ELSE g1 = g0
    <3>1. /\ Shifted(g0, g1) /\ Formatted(g1.vb)
          /\ g1.vb.enables = IF "VI_BINDINGS_VALID" \in c.dirty THEN valid ELSE g0.vb.enables
          /\ IF Dirty(c, VertexState)
             THEN \A s \in valid : g1.vb.format[s].stride = c.dyn["VI_BINDING_STRIDES"]
             ELSE g1 = g0
      BY <2>2, <2>6, <2>7, FlushViFacts DEF Typed
    <3>2. QED
      BY <3>1 DEF Shifted
  <2>9. c.dyn["VP_VIEWPORT_COUNT"] \in Nat
    BY <2>6, MmeAssumption DEF Typed
  <2>10. Still(g1, g2) /\ Rooted(g2)
    BY <2>3, <2>8, FlushStill, StillTransitive DEF Kept
  <2>11. Still(g2, g3) /\ Rooted(g3)
    BY <2>3, <2>9, <2>10, ViewportsStill, StillTransitive
  <2>12. Still(g3, g4) /\ Rooted(g4)
    BY <2>4, <2>11, FlushStill, StillTransitive
  <2>13. Still(g4, g5) /\ Rooted(g5)
    BY <2>4, <2>12, FlushStill, StillTransitive
  <2>14. Kept(g5, g6) /\ g6.vb = g5.vb
    BY <2>4, <2>13, FlushCbStill
  <2>15. Still(g1, g3)
    BY <2>10, <2>11, StillTransitive
  <2>16. Still(g3, g5)
    BY <2>12, <2>13, StillTransitive
  <2>17. Kept(g1, g6) /\ g6.vb = g1.vb
    <3>1. Kept(g1, g5) /\ g5.vb = g1.vb
      BY <2>15, <2>16, StillTransitive DEF Still
    <3>2. QED
      BY <2>14, <3>1, StillTransitive
  <2>18. Kept(h, g6) /\ g6.vb = g1.vb /\ g0.vb = h.vb
    <3>1. Kept(h, g0) /\ g0.vb = h.vb
      BY <2>7 DEF Still
    <3>2. Kept(h, g1)
      BY <2>8, <3>1, StillTransitive
    <3>3. QED
      BY <2>17, <3>1, <3>2, StillTransitive
  <2>19. /\ d.dyn = c.dyn /\ d.set = c.set /\ d.dirty = {} /\ Typed(d) /\ Kin(c, d)
         /\ d.cbufs = c.cbufs /\ d.cbufs_dirty = c.cbufs_dirty /\ d.shaders_dirty = c.shaders_dirty
    BY <2>1, <2>6 DEF Typed, IsCmd, CmdFields, Kin
  <2>20. Slotted(d) /\ ShadersIn(d, g6) /\ BuffersIn(d, g6)
    <3>1. /\ d.shaders = c.shaders /\ d.sets = c.sets
          /\ g6.prog = h.prog /\ g6.cbuf = h.cbuf /\ g6.vtgm = h.vtgm
      BY <2>18, <2>19 DEF Kin, Kept
    <3>2. \A s : CbufMap(d, s) = CbufMap(c, s)
      BY <3>1 DEF CbufMap
    <3>3. InUse(d) = InUse(c) /\ LastVtgm(d) = LastVtgm(c)
      BY <3>1, <3>2 DEF InUse, LastVtgm
    <3>4. Slotted(d)
      BY <2>19, <3>2, <3>3 DEF Slotted, Corr
    <3>5. ShadersIn(d, g6)
      BY <2>19, <3>1, <3>3 DEF ShadersIn, Corr
    <3>6. BuffersIn(d, g6)
      BY <2>19, <3>1 DEF BuffersIn, Corr
    <3>7. QED
      BY <3>4, <3>5, <3>6
  <2>21. VertexCurrent(d, g6)
    <3>1. "VI_BINDINGS_VALID" \in c.set => g6.vb.enables = valid
      <4>1. "VI_BINDINGS_VALID" \in c.set \ c.dirty => h.vb.enables = valid
        BY <2>6 DEF VertexCurrent, CleanIn
      <4>2. QED
        BY <2>8, <2>18, <4>1
    <3>2. VertexState \subseteq c.set =>
            \A s \in valid : g6.vb.format[s].stride = c.dyn["VI_BINDING_STRIDES"]
      <4>1. CASE Dirty(c, VertexState)
        BY <2>8, <2>18, <4>1
      <4>2. CASE ~Dirty(c, VertexState)
        <5>1. VertexState \subseteq c.set => CleanIn(c, VertexState)
          BY <4>2 DEF Dirty, CleanIn
        <5>2. QED
          BY <2>6, <2>8, <2>18, <4>2, <5>1 DEF VertexCurrent
      <4>3. QED
        BY <4>1, <4>2
    <3>3. QED
      BY <2>8, <2>18, <2>19, <3>1, <3>2 DEF VertexCurrent, CleanIn
  <2>22. StateCurrent(d, g6)
    <3>1. FlushDynamicState(h, c) = g6
      BY <2>2, <2>3, <2>4 DEF FlushDynamicState
    <3>2. d.render = c.render /\ d.shaders = c.shaders /\ Formatted(h.vb) /\ Bounded(c)
      BY <2>6, <2>19, TypedBounded DEF Kin, VertexCurrent
    <3>3. /\ c.dyn["MS_RASTERIZATION_SAMPLES"] \in {0} \cup SampleCounts
          /\ c.dyn["CB_WRITE_MASKS"] \in [Targets -> 0 .. 15]
      BY <2>6 DEF Typed, SamplesNamed
    <3>4. QED
      BY <2>6, <2>19, <3>1, <3>2, <3>3, FlushState
  <2>23. Corr(d, g6) /\ Held(h, g6)
    BY <2>18, <2>19, <2>20, <2>21, <2>22, HeldTransitive DEF Corr, Kept
  <2>24. QED
    BY <2>5, <2>19, <2>23
<1>3. QED
  BY <1>1, <1>2

(* The words of the shaders bind no buffer. *)
LEMMA PushShadersFacts ==
  ASSUME NEW h, Rooted(h), NEW c
  PROVE  LET k == PushShaders(h, c)
         IN /\ Rooted(k) /\ Held(h, k) /\ k.vb = h.vb /\ k.cbuf = h.cbuf
            /\ \A s \in Stages : k.prog[s] = IF s \in c.shaders_dirty THEN c.shaders[s] ELSE h.prog[s]
            /\ k.vtgm = IF c.shaders_dirty \cap Vtgm # {} THEN LastVtgm(c) ELSE h.vtgm
<1> DEFINE on == c.shaders_dirty
           prog == [s \in Stages |-> IF s \in on THEN c.shaders[s] ELSE h.prog[s]]
<1>1. PICK h1 : h1 = [h EXCEPT !.prog = prog]
  OBVIOUS
<1>2. PICK tess, rcp, h2, h3 :
        /\ h2 = h1 \/ h2 = SetTessParams(h1, tess)
        /\ h3 = h2 \/ h3 = SetAntiAlias(h2, rcp)
        /\ PushShaders(h, c) = IF on \cap Vtgm # {} THEN [h3 EXCEPT !.vtgm = LastVtgm(c), !.layer = 0]
                                                    ELSE h3
  BY <1>1 DEF PushShaders
<1>3. DOMAIN prog = Stages /\ \A s \in Stages : prog[s] = IF s \in on THEN c.shaders[s] ELSE h.prog[s]
  OBVIOUS
<1> HIDE DEF prog
<1>4. Rooted(h1) /\ h1.prog = prog /\ \A x \in EngineFields \ {"prog"} : h1[x] = h[x]
  BY <1>1, <1>3 DEF Rooted, EngineFields
<1>5. Still(h1, h2)
  BY <1>2, <1>4, ShadowStill, StillTransitive
<1>6. Still(h2, h3)
  BY <1>2, <1>5, AntiAliasStill, StillTransitive
<1>7. Still(h1, h3)
  BY <1>5, <1>6, StillTransitive
<1>8. /\ Rooted(h3) /\ Held(h, h3) /\ h3.vb = h.vb /\ h3.cbuf = h.cbuf /\ h3.prog = prog
      /\ h3.vtgm = h.vtgm
  BY <1>4, <1>7 DEF Still, Kept, Held, Mode, EngineFields
<1>9. CASE on \cap Vtgm = {}
  BY <1>2, <1>3, <1>8, <1>9
<1>10. CASE on \cap Vtgm # {}
  <2>1. PICK k, last : last = LastVtgm(c) /\ k = [h3 EXCEPT !.vtgm = last, !.layer = 0]
    OBVIOUS
  <2>2. Rooted(k) /\ k.vtgm = last /\ \A x \in EngineFields \ {"vtgm", "layer"} : k[x] = h3[x]
    BY <1>8, <2>1 DEF Rooted, EngineFields
  <2>3. Held(h, k) /\ k.vb = h.vb /\ k.cbuf = h.cbuf /\ k.prog = prog
    BY <1>8, <2>2 DEF Held, Mode, EngineFields
  <2>4. PushShaders(h, c) = k
    BY <1>2, <1>10, <2>1
  <2>5. QED
    BY <1>3, <1>10, <2>1, <2>2, <2>3, <2>4
<1>11. QED
  BY <1>9, <1>10

(* They tune the tessellator and the samples for the shaders. *)
LEMMA PushShadersState ==
  ASSUME NEW c, NEW h, Typed(c), Rooted(h), StateCurrent(c, h),
         NEW d, d.dyn = c.dyn, d.set = c.set, d.dirty = c.dirty, d.render = c.render,
         d.shaders = c.shaders, d.shaders_dirty = {}
  PROVE  StateCurrent(d, PushShaders(h, c))
<1> DEFINE on == c.shaders_dirty
           prog == [s \in Stages |-> IF s \in on THEN c.shaders[s] ELSE h.prog[s]]
           pushed(s) == s \in on /\ c.shaders[s] # NULL
<1>1. PICK h1 : h1 = [h EXCEPT !.prog = prog]
  OBVIOUS
<1>2. PICK tes, part : /\ tes = c.shaders["tes"]
                       /\ part = [domain |-> Shader(tes).domain, prims |-> Shader(tes).prims]
  OBVIOUS
<1>3. PICK fs, rate : fs = c.shaders["fs"] /\ rate = Shader(fs).rcp
  OBVIOUS
<1>4. PICK h2 : h2 = IF pushed("tes") THEN SetTessParams(h1, part) ELSE h1
  OBVIOUS
<1>5. PICK h3 : h3 = IF pushed("fs") THEN SetAntiAlias(h2, [rcp |-> rate]) ELSE h2
  OBVIOUS
<1>6. PICK k : /\ k = PushShaders(h, c)
               /\ k = IF on \cap Vtgm # {} THEN [h3 EXCEPT !.vtgm = LastVtgm(c), !.layer = 0] ELSE h3
  BY <1>1, <1>2, <1>3, <1>4, <1>5 DEF PushShaders
<1>7. DOMAIN prog = Stages
  OBVIOUS
<1> HIDE DEF prog
<1>8. Rooted(h1) /\ Aloof(h, h1)
  BY <1>1, <1>7 DEF Rooted, EngineFields, Aloof, Colors
<1>9. Tuned(h1) /\ PassIn(c.render, h1) /\ DynIn(c, h1)
  BY <1>8, StateAloof DEF StateCurrent
<1>10. /\ TessTuned(h1.tess) /\ SamplingTuned(h1.aa, h1.cb0.sample_masks)
       /\ TessIn(c, h1.tess.params) /\ SamplesIn(c, h1.aa.params)
  BY <1>9 DEF Tuned, DynIn
<1>11. /\ h2.z = h1.z /\ h2.aa = h1.aa /\ h2.reg = h1.reg /\ h2.cb0 = h1.cb0 /\ Rooted(h2)
       /\ TessTuned(h2.tess) /\ TessIn(d, h2.tess.params) /\ Colors(h1, h2)
  <2>1. CASE pushed("tes")
    <3>1. h2 = SetTessParams(h1, part)
      BY <1>4, <2>1
    <3>2. /\ h2.z = h1.z /\ h2.aa = h1.aa /\ h2.reg = h1.reg /\ h2.cb0 = h1.cb0
          /\ TessTuned(h2.tess) /\ h2.tess.params = SetMasked(h1.tess.params, part)
      BY <1>8, <1>10, <3>1, TessFacts
    <3>3. /\ h2.tess.params.domain = Shader(tes).domain /\ h2.tess.params.prims = Shader(tes).prims
          /\ h2.tess.params.lower_left = h1.tess.params.lower_left
      BY <1>2, <1>10, <3>2 DEF SetMasked, TessTuned
    <3>4. Rooted(h2) /\ Colors(h1, h2)
      BY <1>8, <3>1, ShadowStill, StillTransitive DEF Still
    <3>5. TessIn(d, h2.tess.params)
      BY <1>2, <1>10, <3>3 DEF TessIn, CleanIn
    <3>6. QED
      BY <3>2, <3>4, <3>5
  <2>2. CASE ~pushed("tes")
    BY <1>4, <1>8, <1>10, <2>2 DEF TessIn, CleanIn, Colors
  <2>3. QED
    BY <2>1, <2>2
<1>12. /\ h3.z = h2.z /\ h3.tess = h2.tess /\ h3.reg = h2.reg /\ Rooted(h3)
       /\ SamplingTuned(h3.aa, h3.cb0.sample_masks) /\ SamplesIn(d, h3.aa.params)
       /\ h3.aa.params.samples = h1.aa.params.samples /\ Colors(h2, h3)
  <2>0. \A e : e.dyn = c.dyn => SampleCount(e) = SampleCount(c)
    BY DEF SampleCount
  <2>1. CASE pushed("fs")
    <3>1. PICK r \in Rates \ {15} : r = rate
      BY <1>3, <2>1 DEF Typed, FsNames, Shader, Rates
    <3>2. h3 = SetAntiAlias(h2, [rcp |-> r])
      BY <1>5, <2>1, <3>1
    <3>3. /\ h3.tess = h2.tess /\ h3.z = h2.z /\ h3.reg = h2.reg
          /\ SamplingTuned(h3.aa, h3.cb0.sample_masks)
          /\ h3.aa.params.samples = h2.aa.params.samples /\ h3.aa.params.rcp = r
      BY <1>10, <1>11, <3>2, RateFacts
    <3>4. Rooted(h3) /\ Colors(h2, h3)
      BY <1>11, <3>2, AntiAliasStill, StillTransitive DEF Still
    <3>5. SamplesIn(d, h3.aa.params)
      BY <1>3, <1>10, <1>11, <2>0, <3>1, <3>3 DEF SamplesIn, CleanIn
    <3>6. QED
      BY <1>11, <3>3, <3>4, <3>5
  <2>2. CASE ~pushed("fs")
    BY <1>5, <1>10, <1>11, <2>0, <2>2 DEF SamplesIn, CleanIn, Colors
  <2>3. QED
    BY <2>1, <2>2
<1>13. Aloof(h3, k)
  BY <1>6, <1>12 DEF Rooted, EngineFields, Aloof, Colors
<1>14. Tuned(h3) /\ PassIn(d.render, h3)
  BY <1>9, <1>11, <1>12 DEF Tuned, PassIn, Colors
<1>15. DynIn(d, h3)
  <2>1. DepthIn(c, h3.z) /\ RowsIn(c, h3.reg)
    BY <1>9, <1>11, <1>12 DEF DynIn
  <2>2. DepthIn(d, h3.z)
    BY <2>1 DEF DepthIn, CleanIn, ClampRange
  <2>3. Rows(d) = Rows(c)
    BY RowsSame
  <2>4. \A states : Settled(d, states) = Settled(c, states)
    BY DEF Settled
  <2>5. RowsIn(d, h3.reg)
    BY <2>1, <2>3, <2>4 DEF RowsIn
  <2>6. ColorIn(d, h3)
    <3>1. ColorIn(c, h1)
      BY <1>9 DEF DynIn
    <3>2. /\ h3.reg = h1.reg /\ h3.write = h1.write /\ h3.single = h1.single
          /\ \A a : WriteMask(d, a) = WriteMask(c, a)
      BY <1>11, <1>12 DEF Colors, WriteMask
    <3>3. \A states : CleanIn(d, states) = CleanIn(c, states)
      BY DEF CleanIn
    <3>4. QED
      BY <3>1, <3>2, <3>3 DEF ColorIn, MasksIn
  <2>7. QED
    BY <1>11, <1>12, <2>2, <2>5, <2>6 DEF DynIn
<1>16. StateCurrent(d, h3)
  BY <1>14, <1>15 DEF StateCurrent
<1>17. QED
  BY <1>6, <1>13, <1>16, StateAloof

(* The shaders, and the slots that they read something else from. *)
LEMMA FlushShadersCorr ==
  ASSUME NEW c, NEW h, Corr(c, h)
  PROVE  \E d, k : /\ FlushShaders(On(c, h)) = On(d, k) /\ Corr(d, k) /\ Kin(c, d) /\ Held(h, k)
                   /\ d.shaders_dirty = {}
<1>1. CASE c.shaders_dirty = {}
  BY <1>1, HeldTransitive DEF FlushShaders, On
<1>2. CASE c.shaders_dirty # {}
  <2> DEFINE changed == {at \in InUse(c) : /\ at[1] \in c.shaders_dirty
                                            /\ c.cbufs[at] # CbufMap(c, at[1])[at[2]]}
             cbufs == [at \in DOMAIN c.cbufs |->
                         IF at \in changed THEN CbufMap(c, at[1])[at[2]] ELSE c.cbufs[at]]
  <2>1. PICK k : k = PushShaders(h, c)
    OBVIOUS
  <2>2. PICK d : d = [c EXCEPT !.cbufs = cbufs, !.cbufs_dirty = @ \cup changed, !.shaders_dirty = {}]
    OBVIOUS
  <2>3. FlushShaders(On(c, h)) = On(d, k)
    BY <1>2, <2>1, <2>2 DEF FlushShaders, On
  <2>4. /\ Typed(c) /\ Slotted(c) /\ Rooted(h) /\ ShadersIn(c, h) /\ BuffersIn(c, h)
        /\ VertexCurrent(c, h) /\ StateCurrent(c, h)
    BY DEF Corr
  <2>5. /\ changed \subseteq Stages \X Slots /\ DOMAIN cbufs = Stages \X Slots
        /\ \A at \in Stages \X Slots :
             cbufs[at] = IF at \in changed THEN CbufMap(c, at[1])[at[2]] ELSE c.cbufs[at]
    BY <2>4 DEF InUse, Typed
  <2>6. \A at \in changed : CbufMap(c, at[1])[at[2]] \in IF at[2] = 0 THEN {Root} ELSE UniformBuffers
    <3>1. SUFFICES ASSUME NEW at \in changed
                   PROVE  CbufMap(c, at[1])[at[2]] \in IF at[2] = 0 THEN {Root} ELSE UniformBuffers
      OBVIOUS
    <3>2. at[1] \in Stages /\ at[2] \in DOMAIN CbufMap(c, at[1])
      BY DEF InUse
    <3>3. QED
      BY <2>4, <3>2, ShaderMaps
  <2>7. \A at \in InUse(c) : at \notin changed /\ at[1] \in c.shaders_dirty =>
                             c.cbufs[at] = CbufMap(c, at[1])[at[2]]
    OBVIOUS
  <2> HIDE DEF changed, cbufs
  <2>8. /\ Typed(d) /\ Kin(c, d) /\ d.cbufs = cbufs /\ d.cbufs_dirty = c.cbufs_dirty \cup changed
        /\ d.shaders_dirty = {} /\ d.dirty = c.dirty
    BY <2>2, <2>4, <2>5 DEF Typed, IsCmd, CmdFields, Kin
  <2>9. /\ d.shaders = c.shaders /\ d.sets = c.sets /\ d.dyn = c.dyn /\ d.set = c.set
        /\ InUse(d) = InUse(c) /\ LastVtgm(d) = LastVtgm(c) /\ \A s : CbufMap(d, s) = CbufMap(c, s)
    <3>1. d.shaders = c.shaders /\ d.sets = c.sets /\ d.dyn = c.dyn /\ d.set = c.set
      BY <2>8 DEF Kin
    <3>2. \A s : CbufMap(d, s) = CbufMap(c, s)
      BY <3>1 DEF CbufMap
    <3>3. QED
      BY <3>1, <3>2 DEF InUse, LastVtgm
  <2>10. Slotted(d)
    <3>1. \A at \in Stages \X Slots :
            cbufs[at] \in {NoCbuf} \cup IF at[2] = 0 THEN {Root} ELSE UniformBuffers
      BY <2>4, <2>5, <2>6 DEF Slotted
    <3>2. \A at \in InUse(c) : cbufs[at] = CbufMap(c, at[1])[at[2]]
      <4>1. InUse(c) \subseteq Stages \X Slots
        BY DEF InUse
      <4>2. QED
        BY <2>4, <2>5, <2>7, <4>1 DEF Slotted
    <3>3. QED
      BY <2>8, <2>9, <3>1, <3>2 DEF Slotted
  <2>11. /\ Rooted(k) /\ Held(h, k) /\ k.vb = h.vb /\ k.cbuf = h.cbuf
         /\ \A s \in Stages : k.prog[s] = IF s \in c.shaders_dirty THEN c.shaders[s] ELSE h.prog[s]
         /\ k.vtgm = IF c.shaders_dirty \cap Vtgm # {} THEN LastVtgm(c) ELSE h.vtgm
    BY <2>1, <2>4, PushShadersFacts
  <2>12. ShadersIn(d, k)
    BY <2>4, <2>8, <2>9, <2>11 DEF ShadersIn
  <2>13. BuffersIn(d, k)
    <3>1. \A s \in Stages : k.cbuf[<<s, 0>>] = CB0
      BY <2>4, <2>11 DEF BuffersIn
    <3>2. \A at \in (Stages \X Slots) \ d.cbufs_dirty :
            d.cbufs[at] \in UniformBuffers => k.cbuf[at] = d.sets[d.cbufs[at][2]]
      BY <2>4, <2>5, <2>8, <2>9, <2>11 DEF BuffersIn
    <3>3. QED
      BY <3>1, <3>2 DEF BuffersIn
  <2>14. VertexCurrent(d, k)
    BY <2>4, <2>8, <2>9, <2>11 DEF VertexCurrent, CleanIn
  <2>15. StateCurrent(d, k)
    <3>1. d.render = c.render
      BY <2>8 DEF Kin
    <3>2. QED
      BY <2>1, <2>4, <2>8, <2>9, <3>1, PushShadersState
  <2>16. QED
    BY <2>3, <2>8, <2>10, <2>11, <2>12, <2>13, <2>14, <2>15 DEF Corr
<1>3. QED
  BY <1>1, <1>2

(* The constant buffers in use: none is bound over the root table, and it is *)
(* selected again.                                                          *)
LEMMA FlushCbufsCorr ==
  ASSUME NEW c, NEW h, Corr(c, h), c.shaders_dirty = {}
  PROVE  \E d, k : /\ FlushCbufs(On(c, h)) = On(d, k) /\ Corr(d, k) /\ Kin(c, d) /\ Held(h, k)
                   /\ d.shaders_dirty = {} /\ d.cbufs_dirty \cap InUse(d) = {}
<1> DEFINE rebind == c.cbufs_dirty \cap InUse(c)
           ubos   == {at \in rebind : c.cbufs[at] # Root}
           bind   == [at \in ubos |-> c.sets[c.cbufs[at][2]]]
           cbuf   == [at \in DOMAIN h.cbuf |-> IF at \in ubos THEN bind[at] ELSE h.cbuf[at]]
<1>1. /\ Typed(c) /\ Slotted(c) /\ Rooted(h) /\ ShadersIn(c, h) /\ BuffersIn(c, h)
      /\ VertexCurrent(c, h) /\ StateCurrent(c, h)
  BY DEF Corr
<1>2. PICK d : d = [c EXCEPT !.cbufs_dirty = @ \ rebind]
  OBVIOUS
<1>3. PICK sel, l : /\ l = [h EXCEPT !.cbuf = cbuf, !.selector = sel]
                    /\ l = BindCbufDesc(h, bind) /\ (ubos = {} => sel = h.selector)
  <2>1. DOMAIN bind = ubos
    OBVIOUS
  <2> DEFINE sel == IF \E at \in DOMAIN bind : bind[at] # NoBuffer THEN "ubo" ELSE h.selector
  <2>2. BindCbufDesc(h, bind) = [h EXCEPT !.cbuf = cbuf, !.selector = sel]
    <3> HIDE DEF bind, ubos
    <3>1. QED
      BY <2>1 DEF BindCbufDesc
  <2>3. ubos = {} => sel = h.selector
    BY <2>1
  <2> HIDE DEF sel
  <2>4. QED
    BY <2>2, <2>3
<1>4. PICK k : k = IF ubos # {} THEN SelectCb0(l) ELSE l
  OBVIOUS
<1>5. FlushCbufs(On(c, h)) = On(d, k)
  BY <1>2, <1>3, <1>4 DEF FlushCbufs, On
<1>6. /\ Typed(d) /\ Kin(c, d) /\ d.cbufs = c.cbufs /\ d.cbufs_dirty = c.cbufs_dirty \ rebind
      /\ d.shaders_dirty = {} /\ d.dirty = c.dirty
  BY <1>1, <1>2 DEF Typed, IsCmd, CmdFields, Kin
<1>7. /\ d.shaders = c.shaders /\ d.sets = c.sets /\ d.dyn = c.dyn /\ d.set = c.set
      /\ InUse(d) = InUse(c) /\ LastVtgm(d) = LastVtgm(c) /\ \A s : CbufMap(d, s) = CbufMap(c, s)
  <2>1. d.shaders = c.shaders /\ d.sets = c.sets /\ d.dyn = c.dyn /\ d.set = c.set
    BY <1>6 DEF Kin
  <2>2. \A s : CbufMap(d, s) = CbufMap(c, s)
    BY <2>1 DEF CbufMap
  <2>3. QED
    BY <2>1, <2>2 DEF InUse, LastVtgm
<1>8. Slotted(d)
  BY <1>1, <1>6, <1>7 DEF Slotted
<1>9. InUse(c) \subseteq Stages \X Slots
  BY DEF InUse
<1>10. \A at \in InUse(c) : c.cbufs[at] \in IF at[2] = 0 THEN {Root} ELSE UniformBuffers
  <2>1. SUFFICES ASSUME NEW at \in InUse(c)
                 PROVE  c.cbufs[at] \in IF at[2] = 0 THEN {Root} ELSE UniformBuffers
    OBVIOUS
  <2>2. c.cbufs[at] = CbufMap(c, at[1])[at[2]]
    BY <1>1 DEF Slotted
  <2>3. at[1] \in Stages /\ at[2] \in DOMAIN CbufMap(c, at[1])
    BY DEF InUse
  <2>4. QED
    BY <1>1, <2>2, <2>3, ShaderMaps
<1>11. DOMAIN cbuf = Stages \X Slots /\ \A at \in Stages \X Slots :
         cbuf[at] = IF at \in ubos THEN c.sets[c.cbufs[at][2]] ELSE h.cbuf[at]
  BY <1>1 DEF Rooted
<1>12. ubos \subseteq Stages \X Slots /\ \A at \in ubos : at[2] # 0
  BY <1>9, <1>10
<1>13. \A at \in rebind : c.cbufs[at] \in UniformBuffers => at \in ubos
  BY DEF UniformBuffers, UniformBuffer, Root
<1> HIDE DEF ubos, cbuf
<1>14. Rooted(k) /\ k.cbuf = cbuf /\ \A x \in EngineFields \ {"cbuf", "selector"} : k[x] = h[x]
  BY <1>1, <1>3, <1>4, <1>11 DEF Rooted, EngineFields, SelectCb0
<1>15. Held(h, k) /\ ShadersIn(d, k) /\ VertexCurrent(d, k)
  BY <1>1, <1>6, <1>7, <1>14 DEF Held, Mode, ShadersIn, VertexCurrent, CleanIn, EngineFields
<1>16. BuffersIn(d, k)
  <2>1. ASSUME NEW s \in Stages PROVE k.cbuf[<<s, 0>>] = CB0
    <3>1. <<s, 0>> \in Stages \X Slots /\ <<s, 0>> \notin ubos
      BY <1>12 DEF Slots
    <3>2. QED
      BY <1>1, <1>11, <1>14, <3>1 DEF BuffersIn
  <2>2. ASSUME NEW at \in (Stages \X Slots) \ d.cbufs_dirty, d.cbufs[at] \in UniformBuffers
        PROVE  k.cbuf[at] = d.sets[d.cbufs[at][2]]
    <3>1. CASE at \in ubos
      BY <1>6, <1>7, <1>11, <1>14, <3>1
    <3>2. CASE at \notin ubos
      <4>1. at \notin c.cbufs_dirty
        BY <1>6, <1>13, <2>2, <3>2
      <4>2. QED
        BY <1>1, <1>6, <1>7, <1>11, <1>14, <2>2, <3>2, <4>1 DEF BuffersIn
    <3>3. QED
      BY <3>1, <3>2
  <2>3. QED
    BY <2>1, <2>2 DEF BuffersIn
<1>17. d.cbufs_dirty \cap InUse(d) = {}
  BY <1>6, <1>7
<1>18. StateCurrent(d, k)
  <2>1. Follows(c, d) /\ d.render = c.render
    BY <1>1, <1>6, <1>7 DEF Follows, Kin
  <2>2. Aloof(h, k)
    BY <1>14 DEF Aloof, Colors, EngineFields
  <2>3. StateCurrent(d, h)
    BY <1>1, <1>6, <2>1, KinState
  <2>4. QED
    BY <2>2, <2>3, StateAloof
<1>19. QED
  BY <1>5, <1>6, <1>8, <1>14, <1>15, <1>16, <1>17, <1>18 DEF Corr

(* All of nvk_cmd_flush_gfx_state. *)
LEMMA FlushCorr ==
  ASSUME NEW c, NEW h, Corr(c, h)
  PROVE  \E d, k : FlushGfxState(c, h) = On(d, k) /\ Corr(d, k) /\ Kin(c, d) /\ Held(h, k)
<1>1. PICK d1, k1 : FlushDyn(On(c, h)) = On(d1, k1) /\ Corr(d1, k1) /\ Kin(c, d1) /\ Held(h, k1)
  BY FlushDynCorr
<1>2. PICK d2, k2 : /\ FlushShaders(On(d1, k1)) = On(d2, k2) /\ Corr(d2, k2) /\ Kin(d1, d2)
                    /\ Held(k1, k2) /\ d2.shaders_dirty = {}
  BY <1>1, FlushShadersCorr
<1>3. PICK d3, k3 : /\ FlushCbufs(On(d2, k2)) = On(d3, k3) /\ Corr(d3, k3) /\ Kin(d2, d3)
                    /\ Held(k2, k3)
  BY <1>2, FlushCbufsCorr
<1>4. FlushGfxState(c, h) = On(d3, k3)
  BY <1>1, <1>2, <1>3 DEF FlushGfxState
<1>5. Kin(c, d2) /\ Held(h, k2)
  BY <1>1, <1>2, HeldTransitive
<1>6. Kin(c, d3) /\ Held(h, k3)
  BY <1>3, <1>5, HeldTransitive
<1>7. QED
  BY <1>3, <1>4, <1>6

(***************************************************************************)
(* Commands that set state                                                 *)
(***************************************************************************)
(* d differs from c in what a command set. *)
Args(c, d) == d.push = c.push /\ d.vb0 = c.vb0

(* The values that the model takes the size of something from. *)
Sized(s, v) == /\ s = "VI_BINDINGS_VALID" => v \subseteq Streams
               /\ s = "VP_VIEWPORT_COUNT" => v \in 1 .. NumViewports
               /\ s = "MS_RASTERIZATION_SAMPLES" => v \in SamplesNamed
               /\ s = "CB_WRITE_MASKS" => v \in [Targets -> 0 .. 15]
               /\ s = "COLOR_ATTACHMENT_MAP" => v \in LocationMaps
               /\ FixedCounts => s \notin Counts

(* Making states dirty asks for nothing. *)
LEMMA DirtyCorr ==
  ASSUME NEW c, NEW h, Corr(c, h), NEW dirty, dirty \subseteq DynStates
  PROVE  LET d == [c EXCEPT !.dirty = @ \cup dirty] IN Corr(d, h) /\ Kin(c, d)
<1>1. PICK d : d = [c EXCEPT !.dirty = @ \cup dirty]
  OBVIOUS
<1>2. /\ IsCmd(d) /\ d.dirty = c.dirty \cup dirty
      /\ \A x \in CmdFields \ {"dirty"} : d[x] = c[x]
  BY <1>1 DEF Corr, Typed, IsCmd, CmdFields
<1>3. Kin(c, d)
  BY <1>2 DEF Kin, CmdFields
<1>4. \A s : CbufMap(d, s) = CbufMap(c, s)
  BY <1>3 DEF CbufMap, Kin
<1>5. InUse(d) = InUse(c) /\ LastVtgm(d) = LastVtgm(c)
  BY <1>3, <1>4 DEF InUse, LastVtgm, Kin
<1>6. Typed(d)
  BY <1>2 DEF Corr, Typed, CmdFields
<1>7. Slotted(d)
  BY <1>2, <1>4, <1>5 DEF Corr, Slotted, CmdFields
<1>8. ShadersIn(d, h) /\ BuffersIn(d, h)
  BY <1>2, <1>5 DEF Corr, ShadersIn, BuffersIn, CmdFields
<1>9. VertexCurrent(d, h)
  BY <1>2 DEF Corr, VertexCurrent, CleanIn, CmdFields
<1>10. StateCurrent(d, h)
  <2>1. /\ d.dyn = c.dyn /\ d.set = c.set /\ d.render = c.render
        /\ d.shaders = c.shaders /\ d.shaders_dirty = c.shaders_dirty
    BY <1>2 DEF CmdFields
  <2>2. Follows(c, d)
    BY <1>2, <2>1 DEF Follows
  <2>3. QED
    BY <1>6, <2>1, <2>2, KinState DEF Corr
<1>11. QED
  BY <1>1, <1>3, <1>6, <1>7, <1>8, <1>9, <1>10 DEF Corr

(* A state that is set to another value becomes dirty. *)
LEMMA SetDynCorr ==
  ASSUME NEW c, NEW h, Corr(c, h), NEW s \in DynStates, NEW v, Sized(s, v)
  PROVE  Corr(SetDyn(c, s, v), h) /\ Args(c, SetDyn(c, s, v))
<1> DEFINE count == CASE s = "VP_VIEWPORTS" -> c.dyn["VP_VIEWPORT_COUNT"]
                     [] s = "VP_SCISSORS" -> c.dyn["VP_SCISSOR_COUNT"]
                     [] OTHER -> 0
           new   == IF count = 0 THEN v
                    ELSE [i \in Viewports |-> IF i <= count THEN v[i] ELSE c.dyn[s][i]]
<1>1. s \in {"VI_BINDINGS_VALID", "VP_VIEWPORT_COUNT", "MS_RASTERIZATION_SAMPLES", "CB_WRITE_MASKS",
            "COLOR_ATTACHMENT_MAP"} => new = v
  OBVIOUS
<1>2. SetDyn(c, s, v) = IF s \in c.set /\ c.dyn[s] = new THEN c
                        ELSE [c EXCEPT !.dyn[s] = new, !.set = @ \cup {s}, !.dirty = @ \cup {s}]
  BY DEF SetDyn
<1> HIDE DEF new
<1>3. PICK d : d = [c EXCEPT !.dyn[s] = new, !.set = @ \cup {s}, !.dirty = @ \cup {s}]
  OBVIOUS
<1>4. /\ IsCmd(d) /\ d.dirty = c.dirty \cup {s} /\ d.set = c.set \cup {s}
      /\ d.dyn = [c.dyn EXCEPT ![s] = new]
      /\ \A x \in CmdFields \ {"dirty", "set", "dyn"} : d[x] = c[x]
  BY <1>3 DEF Corr, Typed, IsCmd, CmdFields
<1>5. DOMAIN d.dyn = DynStates /\ \A t \in DynStates : d.dyn[t] = IF t = s THEN new ELSE c.dyn[t]
  BY <1>4 DEF Corr, Typed
<1>6. d.shaders = c.shaders /\ d.sets = c.sets /\ Args(c, d)
  BY <1>4 DEF CmdFields, Args
<1>7. \A t : CbufMap(d, t) = CbufMap(c, t)
  BY <1>6 DEF CbufMap
<1>8. InUse(d) = InUse(c) /\ LastVtgm(d) = LastVtgm(c)
  BY <1>6, <1>7 DEF InUse, LastVtgm
<1>9. {"VI_BINDINGS_VALID", "VP_VIEWPORT_COUNT", "VP_SCISSOR_COUNT", "VI_BINDING_STRIDES",
       "MS_RASTERIZATION_SAMPLES", "CB_WRITE_MASKS", "COLOR_ATTACHMENT_MAP"} \subseteq DynStates
  BY DEF DynStates
<1>10. /\ d.dyn["VI_BINDINGS_VALID"] \subseteq Streams
       /\ d.dyn["VP_VIEWPORT_COUNT"] \in 1 .. NumViewports
       /\ d.dyn["MS_RASTERIZATION_SAMPLES"] \in SamplesNamed
       /\ d.dyn["CB_WRITE_MASKS"] \in [Targets -> 0 .. 15]
       /\ d.dyn["COLOR_ATTACHMENT_MAP"] \in LocationMaps
  BY <1>1, <1>5, <1>9 DEF Sized, Corr, Typed
<1>11. Typed(d)
  BY <1>4, <1>5, <1>10 DEF Corr, Typed, CmdFields
<1>12. Slotted(d)
  BY <1>4, <1>7, <1>8 DEF Corr, Slotted, CmdFields
<1>13. ShadersIn(d, h) /\ BuffersIn(d, h)
  BY <1>4, <1>8 DEF Corr, ShadersIn, BuffersIn, CmdFields
<1>14. VertexCurrent(d, h)
  <2>1. \A states : CleanIn(d, states) => s \notin states /\ CleanIn(c, states)
    BY <1>4 DEF CleanIn
  <2>2. CleanIn(d, VertexState) => CleanIn(d, {"VI_BINDINGS_VALID"})
    BY DEF CleanIn, VertexState
  <2>3. CleanIn(d, {"VI_BINDINGS_VALID"}) => d.dyn["VI_BINDINGS_VALID"] = c.dyn["VI_BINDINGS_VALID"]
    BY <1>5, <1>9, <2>1
  <2>4. CleanIn(d, VertexState) => d.dyn["VI_BINDING_STRIDES"] = c.dyn["VI_BINDING_STRIDES"]
    BY <1>5, <1>9, <2>1 DEF VertexState
  <2>5. QED
    BY <2>1, <2>2, <2>3, <2>4 DEF VertexCurrent, Corr
<1>15. StateCurrent(d, h)
  <2>1. d.render = c.render /\ d.shaders_dirty = c.shaders_dirty
    BY <1>4 DEF CmdFields
  <2>2. \A t \in d.set \ d.dirty : t \in c.set \ c.dirty /\ d.dyn[t] = c.dyn[t]
    BY <1>4, <1>5 DEF Corr, Typed
  <2>3. FixedCounts => \A t \in Counts : d.dyn[t] = c.dyn[t]
    BY <1>5, <1>9 DEF Sized, Counts
  <2>4. Follows(c, d)
    BY <1>6, <2>1, <2>2, <2>3 DEF Follows
  <2>5. QED
    BY <1>11, <2>1, <2>4, KinState DEF Corr
<1>16. Corr(d, h)
  BY <1>11, <1>12, <1>13, <1>14, <1>15 DEF Corr
<1>17. QED
  BY <1>2, <1>3, <1>6, <1>16 DEF Args

(* A shader that is bound is dirty until it is flushed. *)
LEMMA BindShaderCorr ==
  ASSUME NEW c, NEW h, Corr(c, h), NEW stage \in Stages, NEW shader \in ShaderNames,
         stage = "fs" => shader \in FsNames
  PROVE  LET d == BindGraphicsShader(c, stage, shader)
         IN /\ Corr(d, h) /\ Args(c, d) /\ d.dyn = c.dyn /\ d.set = c.set /\ d.dirty = c.dirty
<1>1. CASE c.shaders[stage] = shader
  BY <1>1 DEF BindGraphicsShader, Args
<1>2. CASE c.shaders[stage] # shader
  <2>1. PICK d : d = [c EXCEPT !.shaders[stage] = shader, !.shaders_dirty = @ \cup {stage}]
    OBVIOUS
  <2>2. /\ IsCmd(d) /\ d.shaders_dirty = c.shaders_dirty \cup {stage}
        /\ d.shaders = [c.shaders EXCEPT ![stage] = shader]
        /\ \A x \in CmdFields \ {"shaders", "shaders_dirty"} : d[x] = c[x]
    BY <2>1 DEF Corr, Typed, IsCmd, CmdFields
  <2>3. /\ d.shaders \in [Stages -> ShaderNames] /\ d.shaders["fs"] \in FsNames
        /\ \A s \in Stages : s # stage => d.shaders[s] = c.shaders[s]
    BY <2>2 DEF Corr, Typed, Stages
  <2>4. \A s \in Stages : s # stage => CbufMap(d, s) = CbufMap(c, s)
    BY <2>3 DEF CbufMap
  <2>5. Typed(d) /\ d.dyn = c.dyn /\ d.set = c.set /\ d.dirty = c.dirty
    BY <2>2, <2>3 DEF Corr, Typed, CmdFields
  <2>6. Slotted(d)
    <3>1. ASSUME NEW at \in InUse(d), at[1] \notin d.shaders_dirty
          PROVE  c.cbufs[at] = CbufMap(d, at[1])[at[2]]
      <4>1. at[1] \in Stages /\ at[1] # stage /\ at[1] \notin c.shaders_dirty
        BY <2>2, <3>1 DEF InUse
      <4>2. at \in InUse(c) /\ CbufMap(d, at[1]) = CbufMap(c, at[1])
        BY <2>4, <3>1, <4>1 DEF InUse
      <4>3. QED
        BY <4>1, <4>2 DEF Corr, Slotted
    <3>2. QED
      BY <2>2, <3>1 DEF Corr, Slotted, CmdFields
  <2>7. ShadersIn(d, h)
    <3>1. ASSUME d.shaders_dirty \cap Vtgm = {} PROVE h.vtgm = LastVtgm(d)
      <4>1. c.shaders_dirty \cap Vtgm = {} /\ stage \notin Vtgm
        BY <2>2, <3>1
      <4>2. d.shaders["vs"] = c.shaders["vs"] /\ d.shaders["tes"] = c.shaders["tes"]
        BY <2>3, <4>1 DEF Vtgm, Stages
      <4>3. QED
        BY <4>1, <4>2 DEF Corr, ShadersIn, LastVtgm
    <3>2. QED
      BY <2>2, <2>3, <3>1 DEF Corr, ShadersIn
  <2>8. BuffersIn(d, h)
    BY <2>2 DEF Corr, BuffersIn, CmdFields
  <2>9. VertexCurrent(d, h)
    BY <2>5 DEF Corr, VertexCurrent, CleanIn
  <2>10. Args(c, d)
    BY <2>2 DEF Args, CmdFields
  <2>11. StateCurrent(d, h)
    <3>1. d.render = c.render
      BY <2>2 DEF CmdFields
    <3>2. Follows(c, d)
      BY <2>2, <2>3, <2>5, <3>1 DEF Follows, Stages
    <3>3. QED
      BY <2>5, <3>1, <3>2, KinState DEF Corr
  <2>12. QED
    BY <1>2, <2>1, <2>5, <2>6, <2>7, <2>8, <2>9, <2>10, <2>11 DEF Corr, BindGraphicsShader
<1>3. QED
  BY <1>1, <1>2

(* A set that is bound makes the slots it fills dirty, whether a shader reads *)
(* them now or not.                                                         *)
LEMMA BindSetCorr ==
  ASSUME NEW c, NEW h, Corr(c, h), NEW s \in Sets, NEW buffer
  PROVE  LET d == BindDescriptorSet(c, s, buffer)
         IN /\ Corr(d, h) /\ Args(c, d) /\ d.dyn = c.dyn /\ d.set = c.set /\ d.dirty = c.dirty
            /\ d.shaders = c.shaders
<1> DEFINE reads == {at \in Stages \X Slots : c.cbufs[at] = UniformBuffer(s)}
<1>1. PICK d : d = [c EXCEPT !.sets[s] = buffer, !.cbufs_dirty = @ \cup reads]
  OBVIOUS
<1>2. \A at \in Stages \X Slots : at \notin reads => c.cbufs[at] # UniformBuffer(s)
  OBVIOUS
<1>3. reads \subseteq Stages \X Slots
  OBVIOUS
<1>4. BindDescriptorSet(c, s, buffer) = d
  BY <1>1 DEF BindDescriptorSet
<1> HIDE DEF reads
<1>5. /\ IsCmd(d) /\ d.cbufs_dirty = c.cbufs_dirty \cup reads
      /\ d.sets = [c.sets EXCEPT ![s] = buffer]
      /\ \A x \in CmdFields \ {"sets", "cbufs_dirty"} : d[x] = c[x]
  BY <1>1 DEF Corr, Typed, IsCmd, CmdFields
<1>6. DOMAIN d.sets = Sets /\ \A t \in Sets : t # s => d.sets[t] = c.sets[t]
  BY <1>5 DEF Corr, Typed
<1>7. /\ d.shaders = c.shaders /\ d.dyn = c.dyn /\ d.set = c.set /\ d.dirty = c.dirty
      /\ d.cbufs = c.cbufs /\ d.shaders_dirty = c.shaders_dirty /\ Args(c, d)
  BY <1>5 DEF CmdFields, Args
<1>8. \A t : CbufMap(d, t) = CbufMap(c, t)
  BY <1>7 DEF CbufMap
<1>9. InUse(d) = InUse(c) /\ LastVtgm(d) = LastVtgm(c)
  BY <1>7, <1>8 DEF InUse, LastVtgm
<1>10. Typed(d)
  BY <1>3, <1>5, <1>6, <1>7 DEF Corr, Typed, CmdFields
<1>11. Slotted(d) /\ ShadersIn(d, h) /\ VertexCurrent(d, h)
  BY <1>7, <1>8, <1>9 DEF Corr, Slotted, ShadersIn, VertexCurrent, CleanIn
<1>12. BuffersIn(d, h)
  <2>1. ASSUME NEW at \in (Stages \X Slots) \ d.cbufs_dirty, d.cbufs[at] \in UniformBuffers
        PROVE  h.cbuf[at] = d.sets[d.cbufs[at][2]]
    <3>1. at \notin c.cbufs_dirty /\ c.cbufs[at] # UniformBuffer(s)
      BY <1>2, <1>5, <2>1
    <3>2. PICK t \in Sets : c.cbufs[at] = UniformBuffer(t)
      BY <1>7, <2>1 DEF UniformBuffers
    <3>3. t # s /\ c.cbufs[at][2] = t
      BY <3>1, <3>2 DEF UniformBuffer
    <3>4. h.cbuf[at] = c.sets[t]
      BY <1>7, <2>1, <3>1, <3>3 DEF Corr, BuffersIn
    <3>5. QED
      BY <1>6, <1>7, <3>3, <3>4
  <2>2. QED
    BY <2>1 DEF Corr, BuffersIn
<1>13. StateCurrent(d, h)
  <2>1. d.render = c.render
    BY <1>5 DEF CmdFields
  <2>2. Follows(c, d)
    BY <1>7, <2>1 DEF Follows
  <2>3. QED
    BY <1>10, <2>1, <2>2, KinState DEF Corr
<1>14. QED
  BY <1>4, <1>7, <1>10, <1>11, <1>12, <1>13 DEF Corr

(***************************************************************************)
(* Internal draws                                                          *)
(***************************************************************************)
(* k is h with other vertex buffers, push constants and draws. *)
Run(h, k) == /\ k.xfb = h.xfb /\ k.override = h.override /\ k.predicate = h.predicate
             /\ \A x \in k.when : x \in h.when \/ x = Mode(h)

(* One part of an internal draw after another. *)
LEMMA RunTransitive ==
  ASSUME NEW h, NEW k, NEW l
  PROVE  Run(h, h) /\ (Held(h, k) => Run(h, k)) /\ (Still(h, k) => Run(h, k) /\ Held(h, k))
         /\ (Run(h, k) /\ Run(k, l) => Run(h, l))
BY DEF Run, Held, Still, Kept, Mode

(* Binding a vertex buffer or the push constants. *)
LEMMA BindVbCorr ==
  ASSUME NEW c, NEW h, Corr(c, h), NEW s \in Streams, NEW r
  PROVE  LET k == BindVb(h, s, r)
         IN /\ Corr(c, k) /\ Run(h, k) /\ k.cb0 = h.cb0 /\ k.when = h.when
            /\ \A t \in Streams : k.vb.range[t] = IF t = s THEN Bindable(r) ELSE h.vb.range[t]
<1>1. PICK k, x : x = Bindable(r) /\ k = [h EXCEPT !.vb.range[s] = x]
  OBVIOUS
<1>2. Rooted(h) /\ IsVb(h.vb)
  BY DEF Corr, Rooted
<1>3. /\ k.vb = [h.vb EXCEPT !.range = [h.vb.range EXCEPT ![s] = x]]
      /\ DOMAIN k = EngineFields /\ \A y \in EngineFields \ {"vb"} : k[y] = h[y]
  BY <1>1, <1>2 DEF Rooted, EngineFields
<1>4. /\ k.vb.enables = h.vb.enables /\ k.vb.format = h.vb.format /\ IsVb(k.vb)
      /\ \A t \in Streams : k.vb.range[t] = IF t = s THEN x ELSE h.vb.range[t]
  BY <1>2, <1>3 DEF IsVb
<1>5. Rooted(k)
  BY <1>2, <1>3, <1>4 DEF Rooted, EngineFields
<1>6. Run(h, k) /\ k.cb0 = h.cb0 /\ k.cbuf = h.cbuf /\ k.prog = h.prog /\ k.vtgm = h.vtgm
      /\ k.when = h.when
  BY <1>3 DEF Run, EngineFields
<1>7. Corr(c, k)
  <2>1. Aloof(h, k)
    BY <1>3 DEF Aloof, Colors, EngineFields
  <2>2. StateCurrent(c, k)
    BY <2>1, StateAloof DEF Corr
  <2>3. QED
    BY <1>4, <1>5, <1>6, <2>2 DEF Corr, ShadersIn, BuffersIn, VertexCurrent, Formatted
<1>8. QED
  BY <1>1, <1>4, <1>6, <1>7 DEF BindVb

(* Push constants reach the root table and nothing else. *)
LEMMA LoadPushCorr ==
  ASSUME NEW c, NEW h, Corr(c, h), NEW v
  PROVE  LET k == LoadConstant(h, "push", v)
         IN Corr(c, k) /\ Run(h, k) /\ k.cb0.push = v /\ k.vb = h.vb /\ k.when = h.when
<1>1. PICK k : k = LoadConstant(h, "push", v)
  OBVIOUS
<1>2. Rooted(k) /\ k.cb0.push = v /\ \A x \in EngineFields \ {"cb0"} : k[x] = h[x]
  <2>1. Rooted(h)
    BY DEF Corr
  <2>2. k = [h EXCEPT !.cb0["push"] = v]
    BY <1>1, <2>1 DEF LoadConstant, Rooted
  <2>3. QED
    BY <2>1, <2>2 DEF Rooted, EngineFields, Cb0Fields
<1>3. /\ k.vb = h.vb /\ k.cbuf = h.cbuf /\ k.prog = h.prog /\ k.vtgm = h.vtgm /\ Run(h, k)
      /\ k.when = h.when
  BY <1>2 DEF Run, EngineFields
<1>4. Corr(c, k)
  <2>1. k.cb0.sample_masks = h.cb0.sample_masks
    <3>1. Rooted(h) /\ "push" \in Cb0Fields
      BY DEF Corr, Cb0Fields
    <3>2. [h.cb0 EXCEPT !["push"] = v] = k.cb0
      BY <1>1, <3>1, LoadStill
    <3>3. QED
      BY <3>1, <3>2 DEF Rooted, Cb0Fields
  <2>2. Aloof(h, k)
    BY <1>2, <2>1 DEF Aloof, Colors, EngineFields
  <2>3. StateCurrent(c, k)
    BY <2>2, StateAloof DEF Corr
  <2>4. QED
    BY <1>2, <1>3, <2>3 DEF Corr, ShadersIn, BuffersIn, VertexCurrent
<1>5. QED
  BY <1>1, <1>2, <1>3, <1>4

(* The locations of a pass are those of its attachments. *)
LEMMA IdentityMaps ==
  ASSUME NEW n \in Nat
  PROVE  Identity(n) \in LocationMaps
<1>1. Targets \subseteq Nat
  BY MmeAssumption DEF Targets
<1>2. PICK map : map = Identity(n)
  OBVIOUS
<1>3. map \in [Targets -> Targets \cup {Unused}]
  BY <1>2 DEF Identity
<1>4. \A a, b \in Targets : map[a] = map[b] => a = b \/ map[a] = Unused
  BY <1>1, <1>2 DEF Identity, Unused
<1>5. QED
  BY <1>2, <1>3, <1>4 DEF LocationMaps

(* All states put back at once, and dirty. *)
LEMMA RedoneCorr ==
  ASSUME NEW c, NEW h, Corr(c, h), NEW dyn, NEW dirty, DOMAIN dyn = DynStates,
         dyn["VI_BINDINGS_VALID"] \subseteq Streams, dyn["VP_VIEWPORT_COUNT"] \in 1 .. NumViewports,
         dyn["MS_RASTERIZATION_SAMPLES"] \in SamplesNamed,
         dyn["CB_WRITE_MASKS"] \in [Targets -> 0 .. 15],
         dyn["COLOR_ATTACHMENT_MAP"] \in LocationMaps,
         c.set \subseteq dirty, dirty \subseteq DynStates
  PROVE  LET d == [c EXCEPT !.dyn = dyn, !.dirty = dirty]
         IN Corr(d, h) /\ Args(c, d) /\ d.shaders = c.shaders
<1>1. PICK d : d = [c EXCEPT !.dyn = dyn, !.dirty = dirty]
  OBVIOUS
<1>2. /\ IsCmd(d) /\ d.dyn = dyn /\ d.dirty = dirty
      /\ \A x \in CmdFields \ {"dyn", "dirty"} : d[x] = c[x]
  BY <1>1 DEF Corr, Typed, IsCmd, CmdFields
<1>3. /\ d.shaders = c.shaders /\ d.sets = c.sets /\ d.cbufs = c.cbufs /\ Args(c, d)
      /\ d.shaders_dirty = c.shaders_dirty /\ d.cbufs_dirty = c.cbufs_dirty /\ d.set = c.set
  BY <1>2 DEF CmdFields, Args
<1>4. \A s : CbufMap(d, s) = CbufMap(c, s)
  BY <1>3 DEF CbufMap
<1>5. InUse(d) = InUse(c) /\ LastVtgm(d) = LastVtgm(c)
  BY <1>3, <1>4 DEF InUse, LastVtgm
<1>6. Typed(d)
  BY <1>2, <1>3 DEF Corr, Typed, CmdFields
<1>7. Slotted(d) /\ ShadersIn(d, h) /\ BuffersIn(d, h)
  BY <1>3, <1>4, <1>5 DEF Corr, Slotted, ShadersIn, BuffersIn
<1>8. VertexCurrent(d, h)
  <2>1. ~CleanIn(d, VertexState) /\ ~CleanIn(d, {"VI_BINDINGS_VALID"})
    BY <1>2, <1>3 DEF CleanIn, VertexState
  <2>2. Formatted(h.vb)
    BY DEF Corr, VertexCurrent
  <2>3. QED
    BY <2>1, <2>2 DEF VertexCurrent
<1>9. StateCurrent(d, h)
  <2>1. d.render = c.render
    BY <1>2 DEF CmdFields
  <2>2. Follows(c, d)
    BY <1>2, <1>3, <2>1 DEF Follows
  <2>3. QED
    BY <1>6, <2>1, <2>2, KinState DEF Corr
<1>10. QED
  BY <1>1, <1>3, <1>6, <1>7, <1>8, <1>9 DEF Corr

(* The shaders of an internal draw, and back. *)
LEMMA BindShadersCorr ==
  ASSUME NEW c, NEW h, Corr(c, h), NEW vs \in ShaderNames, NEW fs \in FsNames,
         NEW tes \in ShaderNames
  PROVE  LET d == BindGraphicsShader(BindGraphicsShader(BindGraphicsShader(c, "vs", vs), "fs", fs), "tes", tes)
         IN Corr(d, h) /\ Args(c, d)
<1>1. {"vs", "fs", "tes"} \subseteq Stages
  BY DEF Stages
<1>2. PICK a : a = BindGraphicsShader(c, "vs", vs)
  OBVIOUS
<1>3. PICK b : b = BindGraphicsShader(a, "fs", fs)
  OBVIOUS
<1>4. PICK d : d = BindGraphicsShader(b, "tes", tes)
  OBVIOUS
<1>5. Corr(a, h) /\ Args(c, a)
  BY <1>1, <1>2, BindShaderCorr
<1>6. Corr(b, h) /\ Args(a, b)
  <2>1. fs \in ShaderNames
    BY DEF FsNames, ShaderNames
  <2>2. QED
    BY <1>1, <1>3, <1>5, <2>1, BindShaderCorr
<1>7. Corr(d, h) /\ Args(b, d)
  BY <1>1, <1>4, <1>6, BindShaderCorr
<1>8. QED
  BY <1>2, <1>3, <1>4, <1>5, <1>6, <1>7 DEF Args

(* An internal draw leaves the vertex buffer and the push constants of the   *)
(* application, and all that it borrowed dirty.                             *)
Restored(c, h, k) ==
  /\ Run(h, k)
  /\ c.push # Unknown => k.cb0.push = c.push
  /\ \A s \in Streams : k.vb.range[s] = IF s = 0 THEN Bindable(c.vb0) ELSE h.vb.range[s]

(* An internal draw leaves what the application bound bound, or dirty. *)
LEMMA MetaDrawCorr ==
  ASSUME NEW c, NEW h, Corr(c, h)
  PROVE  \E d, k : MetaDraw(On(c, h)) = On(d, k) /\ Corr(d, k) /\ Args(c, d) /\ Restored(c, h, k)
<1>1. 0 \in Streams /\ 0 \in Sets /\ 1 \in 1 .. NumViewports
  BY MmeAssumption DEF Streams, Sets
<1>2. Typed(c)
  BY DEF Corr
<1> DEFINE c1 == [c EXCEPT !.dyn = MetaDyn(c), !.dirty = DynStates, !.sets[0] = "meta",
                   !.cbufs_dirty = @ \cup {at \in DOMAIN c.cbufs : c.cbufs[at] = UniformBuffer(0)}]
           c2 == BindGraphicsShader(BindGraphicsShader(BindGraphicsShader(c1,
                   "vs", "meta_vs"), "fs", "meta_fs"), "tes", NULL)
<1>3. Corr(c1, h) /\ Args(c, c1)
  <2>1. PICK e : e = BindDescriptorSet(c, 0, "meta")
    OBVIOUS
  <2>2. Corr(e, h) /\ Args(c, e) /\ e.set = c.set
    BY <1>1, <2>1, BindSetCorr
  <2>3. PICK dyn : dyn = MetaDyn(c)
    OBVIOUS
  <2>4. /\ DOMAIN dyn = DynStates /\ dyn["VI_BINDINGS_VALID"] = {0} /\ dyn["VP_VIEWPORT_COUNT"] = 1
        /\ dyn["MS_RASTERIZATION_SAMPLES"] = c.render.samples
        /\ dyn["CB_WRITE_MASKS"] = [a \in Targets |-> 15]
        /\ dyn["COLOR_ATTACHMENT_MAP"] = Identity(c.render.count)
    <3>1. {"VI_BINDINGS_VALID", "VP_VIEWPORT_COUNT", "MS_RASTERIZATION_SAMPLES", "CB_WRITE_MASKS",
           "COLOR_ATTACHMENT_MAP"} \subseteq DynStates
      BY DEF DynStates
    <3>2. {"VI_BINDINGS_VALID", "VP_VIEWPORT_COUNT", "MS_RASTERIZATION_SAMPLES", "CB_WRITE_MASKS",
           "COLOR_ATTACHMENT_MAP"} \cap Plain = {}
      BY DEF Plain, PlainRs, PlainDs, PlainCb
    <3>3. dyn["CB_WRITE_MASKS"] = DefaultDyn["CB_WRITE_MASKS"]
      BY <2>3, <3>1, <3>2 DEF MetaDyn
    <3>4. DefaultDyn["CB_WRITE_MASKS"] = [a \in Targets |-> 15]
      BY <3>1 DEF DefaultDyn
    <3>5. QED
      BY <2>3, <3>1, <3>2, <3>3, <3>4 DEF MetaDyn
  <2>5. c1 = [e EXCEPT !.dyn = dyn, !.dirty = DynStates]
    <3>1. PICK more : more = {at \in Stages \X Slots : c.cbufs[at] = UniformBuffer(0)}
      OBVIOUS
    <3>2. e = [c EXCEPT !.sets[0] = "meta", !.cbufs_dirty = @ \cup more]
      BY <2>1, <3>1 DEF BindDescriptorSet
    <3>3. c1 = [c EXCEPT !.dyn = dyn, !.dirty = DynStates, !.sets[0] = "meta", !.cbufs_dirty = @ \cup more]
      BY <1>2, <2>3, <3>1 DEF Typed
    <3> HIDE DEF c1
    <3>4. QED
      BY <1>2, <3>2, <3>3 DEF Typed, IsCmd, CmdFields
  <2>6. e.set \subseteq DynStates
    BY <2>2 DEF Corr, Typed
  <2> HIDE DEF c1
  <2>7. Corr(c1, h) /\ Args(e, c1)
    <3>1. /\ dyn["MS_RASTERIZATION_SAMPLES"] \in SamplesNamed
          /\ dyn["CB_WRITE_MASKS"] \in [Targets -> 0 .. 15]
          /\ dyn["COLOR_ATTACHMENT_MAP"] \in LocationMaps
      BY <1>2, <2>4, IdentityMaps DEF Typed
    <3>2. QED
      BY <1>1, <2>2, <2>4, <2>5, <2>6, <3>1, RedoneCorr
  <2>8. QED
    BY <2>2, <2>7 DEF Args
<1> HIDE DEF c1
<1>4. Corr(c2, h) /\ Args(c, c2)
  <2>1. {"meta_vs", NULL} \subseteq ShaderNames /\ "meta_fs" \in FsNames
    BY DEF ShaderNames, FsNames
  <2>2. QED
    BY <1>3, <2>1, BindShadersCorr DEF Args
<1>5. c2.set = c.set
  <2>1. c1.set = c.set
    BY <1>2 DEF c1, Typed, IsCmd, CmdFields
  <2>2. \A e, stage, shader : IsCmd(e) => BindGraphicsShader(e, stage, shader).set = e.set
    BY DEF BindGraphicsShader, IsCmd, CmdFields
  <2>3. \A e, stage, shader : IsCmd(e) => IsCmd(BindGraphicsShader(e, stage, shader))
    BY FieldsAlike DEF Alike
  <2>4. IsCmd(c1)
    BY <1>3 DEF Corr, Typed
  <2>5. QED
    BY <2>1, <2>2, <2>3, <2>4
<1> HIDE DEF c2
<1>6. PICK h1 : h1 = BindVb(h, 0, [addr |-> 64, size |-> 64])
  OBVIOUS
<1>7. PICK hp : hp = LoadConstant(h1, "push", "meta")
  OBVIOUS
<1>8. PICK d1, k1 : /\ FlushGfxState(c2, hp) = On(d1, k1) /\ Corr(d1, k1) /\ Kin(c2, d1) /\ Held(hp, k1)
                    /\ Run(h, hp) /\ \A t \in Streams : t # 0 => hp.vb.range[t] = h.vb.range[t]
  <2>1. /\ Corr(c2, h1) /\ Run(h, h1) /\ \A t \in Streams : t # 0 => h1.vb.range[t] = h.vb.range[t]
    BY <1>1, <1>4, <1>6, BindVbCorr
  <2>2. Corr(c2, hp) /\ Run(h1, hp) /\ hp.vb = h1.vb
    BY <1>7, <2>1, LoadPushCorr
  <2>3. Run(h, hp)
    BY <2>1, <2>2, RunTransitive
  <2>4. QED
    BY <2>1, <2>2, <2>3, FlushCorr
<1>9. PICK draws : draws = <<MetaRect>>
  OBVIOUS
<1>10. PICK k2 : k2 = DrawAll(k1, draws)
  OBVIOUS
<1>11. Corr(d1, k2) /\ Run(h, k2) /\ \A t \in Streams : t # 0 => k2.vb.range[t] = h.vb.range[t]
  <2>1. Len(draws) \in Nat
    BY <1>9
  <2>2. Ran(k1, k2) /\ Still(k1, k2)
    BY <1>8, <1>10, <2>1, DrawAllStill, RanTransitive DEF Corr
  <2>3. Corr(d1, k2)
    BY <1>8, <2>2, CorrStill
  <2>4. Run(h, k1)
    BY <1>8, RunTransitive
  <2>5. Run(h, k2) /\ k2.vb = k1.vb
    BY <2>2, <2>4, RunTransitive DEF Still
  <2>6. QED
    BY <1>8, <2>3, <2>5 DEF Held
<1>12. PICK k3 : k3 = BindVb(k2, 0, c.vb0)
  OBVIOUS
<1>13. PICK k4 : k4 = IF c.push = Unknown THEN k3 ELSE LoadConstant(k3, "push", c.push)
  OBVIOUS
<1>14. Corr(d1, k4) /\ Restored(c, h, k4)
  <2>1. /\ Corr(d1, k3) /\ Run(k2, k3)
        /\ \A t \in Streams : k3.vb.range[t] = IF t = 0 THEN Bindable(c.vb0) ELSE k2.vb.range[t]
    BY <1>1, <1>11, <1>12, BindVbCorr
  <2>2. /\ Corr(d1, k4) /\ Run(k3, k4) /\ k4.vb = k3.vb
        /\ c.push # Unknown => k4.cb0.push = c.push
    BY <1>13, <2>1, LoadPushCorr, RunTransitive
  <2>3. Run(h, k3)
    BY <1>11, <2>1, RunTransitive
  <2>4. Run(h, k4)
    BY <2>2, <2>3, RunTransitive
  <2>5. QED
    BY <1>11, <2>1, <2>2, <2>4 DEF Restored
<1> DEFINE c3 == [d1 EXCEPT !.dyn = c.dyn, !.dirty = c.set]
           c4 == BindDescriptorSet(c3, 0, c.sets[0])
           c5 == BindGraphicsShader(BindGraphicsShader(BindGraphicsShader(c4,
                   "vs", c.shaders["vs"]), "fs", c.shaders["fs"]), "tes", c.shaders["tes"])
<1>15. MetaDraw(On(c, h)) = On(c5, k4)
  <2>1. MetaDraw(On(c, h)) =
          LET d == FlushGfxState(c2, hp)
              k == BindVb(DrawAll(d.g, draws), 0, c.vb0)
              e == BindDescriptorSet([d.c EXCEPT !.dyn = c.dyn, !.dirty = c.set], 0, c.sets[0])
          IN On(BindGraphicsShader(BindGraphicsShader(BindGraphicsShader(e,
                  "vs", c.shaders["vs"]), "fs", c.shaders["fs"]), "tes", c.shaders["tes"]),
                IF c.push = Unknown THEN k ELSE LoadConstant(k, "push", c.push))
    BY <1>6, <1>7, <1>9 DEF MetaDraw, On, c1, c2
  <2>2. FlushGfxState(c2, hp).c = d1 /\ FlushGfxState(c2, hp).g = k1
    BY <1>8 DEF On
  <2>3. QED
    BY <1>10, <1>12, <1>13, <2>1, <2>2
<1>16. Corr(c3, k4) /\ Args(c, c3)
  <2>1. d1.set = c.set /\ Args(c, d1)
    BY <1>4, <1>5, <1>8 DEF Kin, Args
  <2>2. Corr(c3, k4) /\ Args(d1, c3)
    <3>1. /\ DOMAIN c.dyn = DynStates /\ c.set \subseteq DynStates
          /\ c.dyn["VI_BINDINGS_VALID"] \subseteq Streams
          /\ c.dyn["VP_VIEWPORT_COUNT"] \in 1 .. NumViewports
          /\ c.dyn["MS_RASTERIZATION_SAMPLES"] \in SamplesNamed
          /\ c.dyn["CB_WRITE_MASKS"] \in [Targets -> 0 .. 15]
          /\ c.dyn["COLOR_ATTACHMENT_MAP"] \in LocationMaps
      BY <1>2 DEF Typed
    <3>2. QED
      BY <1>14, <2>1, <3>1, RedoneCorr
  <2>3. QED
    BY <2>1, <2>2 DEF Args
<1> HIDE DEF c3
<1>17. Corr(c4, k4) /\ Args(c, c4)
  BY <1>1, <1>16, BindSetCorr DEF Args
<1> HIDE DEF c4
<1>18. Corr(c5, k4) /\ Args(c, c5)
  <2>1. c.shaders["vs"] \in ShaderNames /\ c.shaders["fs"] \in FsNames /\ c.shaders["tes"] \in ShaderNames
    BY <1>2 DEF Typed, Stages
  <2>2. PICK vs \in ShaderNames, fs \in FsNames, tes \in ShaderNames :
          vs = c.shaders["vs"] /\ fs = c.shaders["fs"] /\ tes = c.shaders["tes"]
    BY <2>1
  <2>3. PICK e : e = BindGraphicsShader(BindGraphicsShader(BindGraphicsShader(
                       c4, "vs", vs), "fs", fs), "tes", tes)
    OBVIOUS
  <2>4. Corr(e, k4) /\ Args(c4, e)
    BY <1>17, <2>3, BindShadersCorr
  <2>5. c5 = e
    BY <2>2, <2>3
  <2> HIDE DEF c5
  <2>6. QED
    BY <1>17, <2>4, <2>5 DEF Args
<1>19. QED
  BY <1>14, <1>15, <1>18

(***************************************************************************)
(* Passes                                                                  *)
(***************************************************************************)
(* What the application bound is in the engine. *)
Fed(c, b, h) ==
  /\ \A s \in Streams : b.vb[s] # Unknown => h.vb.range[s] = Bindable(b.vb[s])
  /\ b.vb[0] # Unknown => c.vb0 = b.vb[0]
  /\ c.push # Unknown => h.cb0.push = c.push

(* What keeps the streams and the push constants keeps what was bound there. *)
LEMMA FedKept ==
  ASSUME NEW c, NEW d, NEW b, NEW h, NEW k, Fed(c, b, h), Args(c, d),
         \/ k.vb.range = h.vb.range /\ k.cb0.push = h.cb0.push
         \/ Restored(c, h, k)
  PROVE  Fed(d, b, k)
<1>1. CASE k.vb.range = h.vb.range /\ k.cb0.push = h.cb0.push
  BY <1>1 DEF Fed, Args
<1>2. CASE Restored(c, h, k)
  <2>1. 0 \in Streams
    BY MmeAssumption DEF Streams
  <2>2. QED
    BY <1>2, <2>1 DEF Fed, Args, Restored
<1>3. QED
  BY <1>1, <1>2

(* No clean state of d depends on the pass that it enters, or it has none.   *)
Enters(d, h) ==
  /\ d.render.count \in 0 .. NumTargets /\ d.render.samples \in SamplesNamed
  /\ PassIn(d.render, h) /\ (~d.render.in \/ PassStates \cap d.set \subseteq d.dirty)

(* A command that changes only what no state or binding depends on. *)
LEMMA OtherCorr ==
  ASSUME NEW c, NEW h, Corr(c, h), NEW d, IsCmd(d), d.render = c.render \/ Enters(d, h),
         \A x \in CmdFields \ {"push", "vb0", "render", "level"} : d[x] = c[x]
  PROVE  Corr(d, h)
<1>1. /\ d.shaders = c.shaders /\ d.sets = c.sets /\ d.cbufs = c.cbufs /\ d.dyn = c.dyn
      /\ d.set = c.set /\ d.dirty = c.dirty
      /\ d.shaders_dirty = c.shaders_dirty /\ d.cbufs_dirty = c.cbufs_dirty
  BY DEF CmdFields
<1>2. \A s : CbufMap(d, s) = CbufMap(c, s)
  BY <1>1 DEF CbufMap
<1>3. InUse(d) = InUse(c) /\ LastVtgm(d) = LastVtgm(c)
  BY <1>1, <1>2 DEF InUse, LastVtgm
<1>4. Typed(d)
  BY <1>1 DEF Corr, Typed, Enters
<1>5. Slotted(d) /\ ShadersIn(d, h) /\ BuffersIn(d, h) /\ VertexCurrent(d, h)
  BY <1>1, <1>2, <1>3 DEF Corr, Slotted, ShadersIn, BuffersIn, VertexCurrent, CleanIn
<1>6. StateCurrent(d, h)
  <2>1. Follows(c, d)
    BY <1>1 DEF Follows, Enters
  <2>2. PassIn(d.render, h)
    BY DEF Enters, Corr, StateCurrent
  <2>3. Bounded(c) /\ Bounded(d)
    BY <1>4, TypedBounded DEF Corr
  <2>4. QED
    BY <2>1, <2>2, <2>3, StateLocal DEF Corr
<1>7. QED
  BY <1>4, <1>5, <1>6 DEF Corr

(* Leaving a pass. *)
LEMMA LeavesPass ==
  ASSUME NEW d, d.render = NoRender, NEW h
  PROVE  Enters(d, h)
BY MmeAssumption DEF Enters, NoRender, PassIn, SamplesNamed

(* The engine whatever records for it: the root table is bound and selected, *)
(* and what the macros keep is consistent.                                  *)
Basis(h) == /\ Rooted(h) /\ Formatted(h.vb) /\ Tuned(h)
            /\ \A s \in Stages : h.cbuf[<<s, 0>>] = CB0

(* The fields of the engine that no binding depends on. *)
Aside == {"ib", "drawn", "layers", "when", "override", "predicate", "xfb"}

(* Changing those leaves every binding as it is. *)
LEMMA AsideCorr ==
  ASSUME NEW h, Basis(h), NEW k, DOMAIN k = EngineFields, DOMAIN k.xfb = {"on", "pointer"},
         \A x \in EngineFields \ Aside : k[x] = h[x]
  PROVE  /\ Basis(k) /\ k.vb = h.vb /\ k.cb0 = h.cb0
         /\ \A c : Corr(c, h) => Corr(c, k)
<1>1. /\ k.vb = h.vb /\ k.cb0 = h.cb0 /\ k.cbuf = h.cbuf /\ k.prog = h.prog /\ k.vtgm = h.vtgm
      /\ k.reg = h.reg /\ k.selector = h.selector /\ k.stray = h.stray
  BY DEF EngineFields, Aside
<1>2. Rooted(k)
  BY <1>1 DEF Basis, Rooted
<1>3. Aloof(h, k)
  BY <1>1 DEF Aloof, Colors, EngineFields, Aside
<1>4. Basis(k)
  BY <1>1, <1>2, <1>3, StateAloof DEF Basis
<1>5. ASSUME NEW c, Corr(c, h) PROVE Corr(c, k)
  <2>1. StateCurrent(c, k)
    BY <1>3, <1>5, StateAloof DEF Corr
  <2>2. QED
    BY <1>1, <1>2, <1>5, <2>1 DEF Corr, ShadersIn, BuffersIn, VertexCurrent
<1>6. QED
  BY <1>1, <1>4, <1>5

(* Recording needs the root table bound and selected. *)
LEMMA CorrBasis ==
  ASSUME NEW c, NEW h, Corr(c, h)
  PROVE  Basis(h)
BY DEF Corr, Basis, VertexCurrent, BuffersIn, StateCurrent

(* A sample layout draws nothing. *)
LEMMA LayoutQuiet ==
  ASSUME NEW h, Rooted(h), NEW x
  PROVE  SetSampleLayout(h, x).when = h.when
<1>1. PICK mode, two, four, part :
        SetSampleLayout(h, x)
          = SetAntiAlias([h EXCEPT !.aa.mode = mode, !.aa.two = two, !.aa.four = four], part)
  BY DEF SetSampleLayout
<1>2. PICK l : l = [h EXCEPT !.aa.mode = mode, !.aa.two = two, !.aa.four = four]
  OBVIOUS
<1>3. DOMAIN l = EngineFields /\ \A f \in EngineFields \ {"aa"} : l[f] = h[f]
  BY <1>2 DEF Rooted, EngineFields
<1>4. PICK params, passes, masks :
        \/ SetAntiAlias(l, part) = l
        \/ SetAntiAlias(l, part)
             = LoadConstant([l EXCEPT !.aa.params = params, !.aa.passes = passes], "sample_masks", masks)
  BY DEF SetAntiAlias
<1>5. PICK m : m = [l EXCEPT !.aa.params = params, !.aa.passes = passes]
  OBVIOUS
<1>6. DOMAIN m = EngineFields /\ \A f \in EngineFields \ {"aa"} : m[f] = l[f]
  BY <1>3, <1>5 DEF EngineFields
<1>7. LoadConstant(m, "sample_masks", masks).when = m.when
  BY <1>6 DEF LoadConstant, EngineFields
<1>8. l.when = h.when /\ m.when = l.when
  BY <1>3, <1>6 DEF EngineFields
<1>9. QED
  BY <1>1, <1>2, <1>4, <1>5, <1>7, <1>8

(* Outside a pass no sample count is asked for. *)
LEMMA LayoutCorr ==
  ASSUME NEW c, NEW h, Corr(c, h), ~c.render.in, NEW n \in SampleCounts
  PROVE  LET k == SetSampleLayout(h, n)
         IN Corr(c, k) /\ Still(h, k) /\ k.when = h.when /\ k.aa.params.samples = Log2(n)
<1>1. PICK k : k = SetSampleLayout(h, n)
  OBVIOUS
<1>2. Rooted(h) /\ Tuned(h) /\ DynIn(c, h) /\ SamplingTuned(h.aa, h.cb0.sample_masks)
  BY DEF Corr, StateCurrent, Tuned
<1>3. /\ k.tess = h.tess /\ k.z = h.z /\ k.reg = h.reg
      /\ SamplingTuned(k.aa, k.cb0.sample_masks)
      /\ k.aa.params.samples = Log2(n) /\ k.aa.params.rcp = h.aa.params.rcp
  BY <1>1, <1>2, LayoutFacts
<1>4. Still(h, k) /\ k.when = h.when
  BY <1>1, <1>2, AntiAliasStill, LayoutQuiet, StillTransitive
<1>5. StateCurrent(c, k)
  <2>1. Tuned(k) /\ PassIn(c.render, k)
    BY <1>2, <1>3 DEF Tuned, PassIn
  <2>2. SamplesIn(c, k.aa.params) /\ ColorIn(c, k)
    BY <1>2, <1>3 DEF DynIn, SamplesIn, ColorIn
  <2>3. DynIn(c, k)
    BY <1>2, <1>3, <2>2 DEF DynIn
  <2>4. QED
    BY <2>1, <2>3 DEF StateCurrent
<1>6. QED
  BY <1>1, <1>3, <1>4, <1>5, CorrStill

(* The pass is set before what depends on it is made dirty; the order does   *)
(* not matter.                                                              *)
LEMMA RenderCommutes ==
  ASSUME NEW c, IsCmd(c), NEW render, NEW map
  PROVE  DirtyRenderPass(SetLocations([c EXCEPT !.render = render], map))
           = [DirtyRenderPass(SetLocations(c, map)) EXCEPT !.render = render]
<1>1. PICK c0 : c0 = [c EXCEPT !.render = render]
  OBVIOUS
<1>2. IsCmd(c0) /\ c0.dyn = c.dyn /\ c0.set = c.set /\ c0.dirty = c.dirty
  BY <1>1 DEF IsCmd, CmdFields
<1>3. PICK s, dyn : s = "COLOR_ATTACHMENT_MAP" /\ dyn = [c.dyn EXCEPT ![s] = map]
  OBVIOUS
<1>4. \A d : SetLocations(d, map) =
         IF s \in d.set /\ d.dyn[s] = map THEN d
         ELSE [d EXCEPT !.dyn[s] = map, !.set = @ \cup {s}, !.dirty = @ \cup {s}]
  BY <1>3 DEF SetLocations, SetDyn
<1>5. \A d : DirtyRenderPass(d) = [d EXCEPT !.dirty = @ \cup PassStates]
  BY DEF DirtyRenderPass, PassStates
<1>6. CASE s \in c.set /\ c.dyn[s] = map
  <2>1. SetLocations(c, map) = c /\ SetLocations(c0, map) = c0
    BY <1>2, <1>4, <1>6
  <2>2. [c0 EXCEPT !.dirty = @ \cup PassStates]
          = [[c EXCEPT !.dirty = @ \cup PassStates] EXCEPT !.render = render]
    BY <1>1 DEF IsCmd, CmdFields
  <2>3. QED
    BY <1>1, <1>5, <2>1, <2>2
<1>7. CASE ~(s \in c.set /\ c.dyn[s] = map)
  <2>1. PICK d : d = [c EXCEPT !.dyn[s] = map, !.set = @ \cup {s}, !.dirty = @ \cup {s}]
    OBVIOUS
  <2>2. PICK d0 : d0 = [c0 EXCEPT !.dyn[s] = map, !.set = @ \cup {s}, !.dirty = @ \cup {s}]
    OBVIOUS
  <2>3. SetLocations(c, map) = d /\ SetLocations(c0, map) = d0
    BY <1>2, <1>4, <1>7, <2>1, <2>2
  <2>4. IsCmd(d) /\ d0 = [d EXCEPT !.render = render]
    BY <1>1, <2>1, <2>2 DEF IsCmd, CmdFields
  <2>5. [d0 EXCEPT !.dirty = @ \cup PassStates]
          = [[d EXCEPT !.dirty = @ \cup PassStates] EXCEPT !.render = render]
    BY <2>4 DEF IsCmd, CmdFields
  <2>6. QED
    BY <1>1, <1>5, <2>3, <2>5
<1>8. QED
  BY <1>6, <1>7

(* A command buffer in another pass. *)
LEMMA EnterCorr ==
  ASSUME NEW c, NEW h, Corr(c, h), NEW render, render.count \in 0 .. NumTargets,
         render.samples \in SamplesNamed, PassIn(render, h), NEW map \in LocationMaps
  PROVE  LET d == DirtyRenderPass(SetLocations([c EXCEPT !.render = render], map))
         IN Corr(d, h) /\ Args(c, d)
<1>1. PICK e : e = SetLocations(c, map)
  OBVIOUS
<1>2. Corr(e, h) /\ Args(c, e)
  <2>1. "COLOR_ATTACHMENT_MAP" \in DynStates /\ Sized("COLOR_ATTACHMENT_MAP", map)
    BY DEF DynStates, Sized, Counts
  <2>2. QED
    BY <1>1, <2>1, SetDynCorr DEF SetLocations
<1>3. PICK f : f = [e EXCEPT !.dirty = @ \cup PassStates]
  OBVIOUS
<1>4. Corr(f, h) /\ Kin(e, f) /\ PassStates \subseteq f.dirty
  <2>1. PassStates \subseteq DynStates
    BY DEF PassStates, DynStates
  <2>2. Corr(f, h) /\ Kin(e, f)
    BY <1>2, <1>3, <2>1, DirtyCorr
  <2>3. PassStates \subseteq f.dirty
    BY <1>2, <1>3 DEF Corr, Typed, IsCmd, CmdFields
  <2>4. QED
    BY <2>2, <2>3
<1>5. PICK d : d = [f EXCEPT !.render = render]
  OBVIOUS
<1>6. IsCmd(d) /\ d.render = render /\ \A x \in CmdFields \ {"render"} : d[x] = f[x]
  BY <1>4, <1>5 DEF Corr, Typed, IsCmd, CmdFields
<1>7. Enters(d, h)
  BY <1>4, <1>6 DEF Enters, CmdFields
<1>8. Corr(d, h)
  BY <1>4, <1>6, <1>7, OtherCorr
<1>9. Args(c, d)
  BY <1>2, <1>4, <1>6 DEF Args, Kin, CmdFields
<1>10. d = DirtyRenderPass(SetLocations([c EXCEPT !.render = render], map))
  <2>1. IsCmd(c) /\ DirtyRenderPass(e) = f
    BY <1>3 DEF Corr, Typed, DirtyRenderPass, PassStates
  <2>2. QED
    BY <1>1, <1>5, <2>1, RenderCommutes
<1>11. QED
  BY <1>8, <1>9, <1>10

(* A pass that is set binds nothing and draws nothing. *)
LEMMA SetRenderingCorr ==
  ASSUME NEW c, NEW h, Corr(c, h), ~c.render.in, NEW p, IsPass(p)
  PROVE  \E d, k : /\ SetRendering(c, h, p) = On(d, k) /\ Corr(d, k) /\ Args(c, d)
                   /\ Kept(h, k) /\ k.vb = h.vb /\ k.when = h.when
<1>1. PICK render : render = RenderState(p)
  OBVIOUS
<1>2. PICK mask, target : mask = p.view_mask /\ target = [a \in Targets |-> ColorTarget(p, a)]
  OBVIOUS
<1>3. PICK h1 : h1 = [h EXCEPT !.view_mask = mask, !.target = target]
  OBVIOUS
<1>4. /\ h1.target = target /\ DOMAIN h1 = EngineFields
      /\ \A x \in EngineFields \ {"view_mask", "target"} : h1[x] = h[x]
  BY <1>3 DEF Corr, Rooted, EngineFields
<1>5. Kept(h, h1) /\ h1.vb = h.vb /\ h1.when = h.when
  BY <1>4 DEF Corr, Rooted, Kept, EngineFields
<1>6. Corr(c, h1)
  <2>1. /\ h1.tess = h.tess /\ h1.z = h.z /\ h1.aa = h.aa /\ h1.reg = h.reg /\ h1.cb0 = h.cb0
        /\ h1.prog = h.prog /\ h1.vtgm = h.vtgm /\ h1.cbuf = h.cbuf
    BY <1>4 DEF EngineFields
  <2>2. ColorIn(c, h1)
    BY <2>1 DEF Corr, StateCurrent, DynIn, ColorIn
  <2>3. StateCurrent(c, h1)
    BY <2>1, <2>2 DEF Corr, StateCurrent, Tuned, PassIn, DynIn
  <2>4. QED
    BY <1>5, <2>1, <2>3 DEF Corr, Kept, ShadersIn, BuffersIn, VertexCurrent
<1>7. PICK k : k = IF p.samples # 0 THEN SetSampleLayout(h1, p.samples) ELSE h1
  OBVIOUS
<1>8. /\ render.count \in 0 .. NumTargets /\ render.samples \in SamplesNamed
      /\ render.samples = p.samples /\ p.count \in Nat
  BY <1>1, MmeAssumption DEF IsPass, RenderState, SamplesNamed
<1>9. Corr(c, k) /\ Kept(h, k) /\ k.vb = h.vb /\ k.when = h.when /\ PassIn(render, k)
  <2>1. \A a \in Targets : a < render.count \/ h1.target[a] = NULL
    <3>1. p.views \subseteq 0 .. p.count - 1 /\ render.count = p.count /\ Targets \subseteq Nat
      BY <1>1, MmeAssumption DEF IsPass, RenderState, Targets
    <3>2. \A a \in Targets : a < render.count \/ a \notin p.views
      BY <1>8, <3>1
    <3>3. QED
      BY <1>2, <1>4, <3>2 DEF ColorTarget
  <2>2. CASE p.samples # 0
    <3>1. PICK n \in SampleCounts : n = p.samples
      BY <1>8, <2>2 DEF SamplesNamed
    <3>2. Corr(c, k) /\ Still(h1, k) /\ k.when = h1.when /\ k.aa.params.samples = Log2(n)
      BY <1>6, <1>7, <2>2, <3>1, LayoutCorr
    <3>3. PassIn(render, k)
      BY <1>8, <2>1, <3>1, <3>2 DEF PassIn, Still, Colors
    <3>4. QED
      BY <1>5, <3>2, <3>3, StillTransitive DEF Still
  <2>3. CASE p.samples = 0
    BY <1>5, <1>6, <1>7, <1>8, <2>1, <2>3 DEF PassIn
  <2>4. QED
    BY <2>2, <2>3
<1>10. PICK map : map = Identity(p.count)
  OBVIOUS
<1>11. PICK d : d = DirtyRenderPass(SetLocations([c EXCEPT !.render = render], map))
  OBVIOUS
<1>12. Corr(d, k) /\ Args(c, d)
  BY <1>8, <1>9, <1>10, <1>11, EnterCorr, IdentityMaps
<1>13. SetRendering(c, h, p) = On(d, k)
  BY <1>1, <1>2, <1>3, <1>7, <1>10, <1>11 DEF SetRendering
<1>14. QED
  BY <1>9, <1>12, <1>13

(* The clears of a pass, and its resolve. *)
LEMMA ClearCorr ==
  ASSUME NEW c, NEW h, Corr(c, h)
  PROVE  \E d, k : /\ ClearAttachments(On(c, h)) = On(d, k) /\ Corr(d, k)
                   /\ (\A b : Fed(c, b, h) => Fed(d, b, k))
                   /\ k.override = FALSE /\ k.xfb = h.xfb
                   /\ \A x \in k.when : x \in h.when \/ x = "always"
<1>1. PICK h1 : h1 = [h EXCEPT !.override = TRUE]
  OBVIOUS
<1>2. Rooted(h)
  BY DEF Corr
<1>3. /\ DOMAIN h1 = EngineFields /\ h1.override = TRUE
      /\ \A x \in EngineFields \ {"override"} : h1[x] = h[x]
  BY <1>1, <1>2 DEF Rooted, EngineFields
<1>4. h1.xfb = h.xfb /\ h1.when = h.when /\ Mode(h1) = "always"
  BY <1>3 DEF EngineFields, Mode
<1>5. Corr(c, h1) /\ h1.vb = h.vb /\ h1.cb0 = h.cb0
  BY <1>2, <1>3, <1>4, CorrBasis, AsideCorr DEF Rooted, Aside
<1>6. PICK d, l : MetaDraw(On(c, h1)) = On(d, l) /\ Corr(d, l) /\ Args(c, d) /\ Restored(c, h1, l)
  BY <1>5, MetaDrawCorr
<1>7. PICK k : k = [l EXCEPT !.override = FALSE]
  OBVIOUS
<1>8. Rooted(l)
  BY <1>6 DEF Corr
<1>9. /\ DOMAIN k = EngineFields /\ k.override = FALSE
      /\ \A x \in EngineFields \ {"override"} : k[x] = l[x]
  BY <1>7, <1>8 DEF Rooted, EngineFields
<1>10. k.xfb = l.xfb /\ k.when = l.when
  BY <1>9 DEF EngineFields
<1>11. Corr(d, k) /\ k.vb = l.vb /\ k.cb0 = l.cb0
  BY <1>6, <1>8, <1>9, <1>10, CorrBasis, AsideCorr DEF Rooted, Aside
<1>12. ASSUME NEW b, Fed(c, b, h) PROVE Fed(d, b, k)
  <2>1. Fed(c, b, h1)
    BY <1>5, <1>12 DEF Fed
  <2>2. Fed(d, b, l)
    BY <1>6, <2>1, FedKept
  <2>3. QED
    BY <1>11, <2>2 DEF Fed
<1>13. k.xfb = h.xfb /\ \A x \in k.when : x \in h.when \/ x = "always"
  BY <1>4, <1>6, <1>10 DEF Restored, Run
<1>14. ClearAttachments(On(c, h)) = On(d, k)
  <2>1. ClearAttachments(On(c, h))
          = On(MetaDraw(On(c, h1)).c, [MetaDraw(On(c, h1)).g EXCEPT !.override = FALSE])
    BY <1>1 DEF ClearAttachments, On
  <2>2. MetaDraw(On(c, h1)).c = d /\ MetaDraw(On(c, h1)).g = l
    BY <1>6 DEF On
  <2>3. QED
    BY <1>7, <2>1, <2>2
<1>15. QED
  BY <1>9, <1>11, <1>12, <1>13, <1>14

(* The resolve draws outside the pass, with the predicate of the application. *)
LEMMA ResolveCorr ==
  ASSUME NEW c, NEW h, Corr(c, h), ~c.render.in
  PROVE  \E d, k : /\ ResolveRendering(On(c, h)) = On(d, k) /\ Corr(d, k)
                   /\ (\A b : Fed(c, b, h) => Fed(d, b, k))
                   /\ k.override = h.override /\ k.xfb = h.xfb
<1>1. PICK p : p = ResolvePass
  OBVIOUS
<1>2. PICK d1, k1 : /\ SetRendering(c, h, p) = On(d1, k1) /\ Corr(d1, k1) /\ Args(c, d1)
                    /\ Kept(h, k1)
  <2>1. IsPass(p)
    BY <1>1, MmeAssumption DEF IsPass, PassFields, ResolvePass, SampleCounts
  <2>2. QED
    BY <2>1, SetRenderingCorr
<1>3. PICK d2, k : MetaDraw(On(d1, k1)) = On(d2, k) /\ Corr(d2, k) /\ Args(d1, d2) /\ Restored(d1, k1, k)
  BY <1>2, MetaDrawCorr
<1>4. PICK d : d = [d2 EXCEPT !.render = NoRender]
  OBVIOUS
<1>5. IsCmd(d) /\ d.render = NoRender /\ \A x \in CmdFields \ {"render"} : d[x] = d2[x]
  BY <1>3, <1>4 DEF Corr, Typed, IsCmd, CmdFields
<1>6. Corr(d, k) /\ Args(d2, d)
  BY <1>3, <1>5, LeavesPass, OtherCorr DEF Args, CmdFields
<1>7. ASSUME NEW b, Fed(c, b, h) PROVE Fed(d, b, k)
  <2>1. Fed(d1, b, k1)
    BY <1>2, <1>7, FedKept DEF Kept
  <2>2. Fed(d2, b, k)
    BY <1>3, <2>1, FedKept
  <2>3. QED
    BY <1>6, <2>2, FedKept
<1>8. k.override = h.override /\ k.xfb = h.xfb
  BY <1>2, <1>3 DEF Kept, Restored, Run
<1>9. ResolveRendering(On(c, h)) = On(d, k)
  <2>1. On(c, h).c = c /\ On(c, h).g = h /\ On(d2, k).c = d2 /\ On(d2, k).g = k
    BY DEF On
  <2>2. QED
    BY <1>1, <1>2, <1>3, <1>4, <2>1 DEF ResolveRendering
<1>10. QED
  BY <1>6, <1>7, <1>8, <1>9

(***************************************************************************)
(* The bindings are current                                                *)
(***************************************************************************)
IsBound(b) == DOMAIN b = {"vb", "predicate", "counters"} /\ DOMAIN b.vb = Streams

BindInv ==
  /\ Basis(g) /\ g.override = FALSE /\ IsBound(bound)
  /\ Recording => Corr(cmd, g) /\ Fed(cmd, bound, g)
  /\ outer # NoCmd => Typed(outer)

(* A secondary draws with the samples of the pass, if none are named.        *)
InheritInv == Recording /\ cmd.level = "secondary" /\ NothingInherited =>
                outer.render.samples = cmd.render.samples

(* Every step keeps the samples of a secondary those of the pass. *)
LEMMA InheritStep ==
  ASSUME CmdInv, InheritInv, [Next]_vars
  PROVE  InheritInv'
<1>1. CASE UNCHANGED vars
  BY <1>1 DEF vars, InheritInv, Recording
<1>2. CASE Draws \/ Sets1
  BY <1>2, PassKept DEF InheritInv, Alike
<1>3. CASE BeginCommandBuffer \/ EndCommandBuffer \/ EndSecondary
  <2>1. BeginCommandBuffer => cmd'.level = "primary"
    BY CommandBufferFacts
  <2>2. EndCommandBuffer => cmd' = NoCmd
    BY CommandBufferFacts
  <2>3. EndSecondary => cmd'.level = "primary"
    BY CommandBufferFacts DEF CmdInv, Alike
  <2>4. QED
    BY <1>3, <2>1, <2>2, <2>3 DEF InheritInv, Recording
<1>4. CASE ExecuteSecondary
  <2>1. PICK samples \in IF cmd.render.samples # 0 THEN {cmd.render.samples} ELSE scenario.inherits :
          cmd'.render = [cmd.render EXCEPT !.samples = samples]
    BY <1>4, SecondaryFacts
  <2>2. outer' = cmd /\ Recording /\ IsRender(cmd.render) /\ scenario \in Scenarios
    BY <1>4, SecondaryFacts DEF CmdInv
  <2>3. cmd'.render.samples = samples
    BY <2>1, <2>2 DEF IsRender, RenderFields
  <2>4. NothingInherited => samples = cmd.render.samples
    BY <2>1, <2>2 DEF NothingInherited
  <2>5. QED
    BY <2>2, <2>3, <2>4 DEF InheritInv
<1>5. CASE BeginRendering
  BY <1>5, BeginFacts DEF InheritInv
<1>6. CASE EndRendering
  BY <1>6, EndFacts DEF InheritInv
<1>7. QED
  BY <1>1, <1>2, <1>3, <1>4, <1>5, <1>6 DEF Next, Draws, Sets1

(* What an action starts from holds what the engine held. *)
LEMMA EngineFacts ==
  ASSUME Basis(g)
  PROVE  /\ Basis(Engine) /\ \A c : Corr(c, g) => Corr(c, Engine)
         /\ \A c, b : Fed(c, b, g) => Fed(c, b, Engine)
         /\ Engine.vb = g.vb /\ Engine.cb0 = g.cb0 /\ Engine.xfb = g.xfb
         /\ Engine.override = g.override /\ Engine.when = {}
<1>1. PICK h, k : h = g /\ k = [h EXCEPT !.drawn = <<>>, !.layers = <<>>, !.when = {}]
  OBVIOUS
<1>2. k = Engine /\ Rooted(h)
  BY <1>1 DEF Engine, Basis
<1>3. /\ DOMAIN k = EngineFields /\ k.when = {}
      /\ \A x \in EngineFields \ {"drawn", "layers", "when"} : k[x] = h[x]
  BY <1>1, <1>2 DEF Rooted, EngineFields
<1>4. k.xfb = h.xfb /\ k.override = h.override
  BY <1>3 DEF EngineFields
<1>5. Basis(k) /\ k.vb = h.vb /\ k.cb0 = h.cb0 /\ \A c : Corr(c, h) => Corr(c, k)
  BY <1>1, <1>2, <1>3, <1>4, AsideCorr DEF Rooted, Aside
<1>6. \A c, b : Fed(c, b, h) => Fed(c, b, k)
  BY <1>5 DEF Fed
<1>7. QED
  BY <1>1, <1>2, <1>3, <1>4, <1>5, <1>6

(* A command buffer that begins knows nothing of the engine. *)
Starting(c) == /\ Typed(c) /\ c.shaders_dirty = Stages /\ c.cbufs_dirty = {} /\ c.set \subseteq c.dirty
               /\ \A at \in Stages \X Slots : c.cbufs[at] = NoCbuf

(* Knowing nothing but the samples of the pass is always right. *)
LEMMA StartCorr ==
  ASSUME NEW c, NEW h, Starting(c), Basis(h), PassIn(c.render, h)
  PROVE  Corr(c, h)
<1>1. Slotted(c)
  <2>1. \A at \in InUse(c) : at[1] \in Stages
    BY DEF InUse
  <2>2. QED
    BY <2>1 DEF Starting, Slotted
<1>2. ShadersIn(c, h)
  BY DEF Starting, ShadersIn, Vtgm, Stages
<1>3. BuffersIn(c, h)
  <2>1. NoCbuf \notin UniformBuffers
    BY DEF NoCbuf, UniformBuffers, UniformBuffer
  <2>2. QED
    BY <2>1 DEF Starting, Basis, BuffersIn
<1>4. VertexCurrent(c, h)
  <2>1. ~CleanIn(c, VertexState) /\ ~CleanIn(c, {"VI_BINDINGS_VALID"})
    BY DEF Starting, CleanIn, VertexState
  <2>2. QED
    BY <2>1 DEF Basis, VertexCurrent
<1>5. StateCurrent(c, h)
  <2>1. c.set \ c.dirty = {} /\ c.shaders_dirty = Stages
    BY DEF Starting
  <2>2. DepthIn(c, h.z) /\ TessIn(c, h.tess.params) /\ SamplesIn(c, h.aa.params)
    BY <2>1 DEF DepthIn, TessIn, SamplesIn, CleanIn, ViewportStates, Stages
  <2>3. RowsIn(c, h.reg)
    <3>1. Carries(c, c) /\ Bounded(c)
      BY TypedBounded DEF Carries, Starting
    <3>2. \A r \in DOMAIN Rows(c) : Rows(c)[r].on # {}
      BY <3>1, LocalRows DEF Local
    <3>3. QED
      BY <2>1, <3>2 DEF RowsIn, Settled
  <2>4. ColorIn(c, h)
    BY <2>1 DEF ColorIn, CleanIn, MaskStates
  <2>5. QED
    BY <2>2, <2>3, <2>4 DEF StateCurrent, DynIn, Basis
<1>6. QED
  BY <1>1, <1>2, <1>3, <1>4, <1>5 DEF Starting, Basis, Corr

(* vkBeginCommandBuffer knows nothing, whatever the application sets at once. *)
LEMMA FreshStarting ==
  ASSUME scenario \in Scenarios, NEW level
  PROVE  /\ Starting(Fresh(level)) /\ Fresh(level).push = Unknown
         /\ Fresh(level).render = NoRender
<1> DEFINE only(shaders) == IF Cardinality(shaders) = 1 THEN CHOOSE s \in shaders : TRUE ELSE NULL
           set == DynStates \ (scenario.vary \cup {"COLOR_ATTACHMENT_MAP"})
<1>1. PICK dyn, shaders, c :
        /\ shaders = [s \in Stages |-> only(scenario.shaders[s])]
        /\ dyn = DefaultDyn \/ dyn = [DefaultDyn EXCEPT !["VP_VIEWPORTS"] = [i \in Viewports |-> Unknown]]
        /\ c = Fresh(level)
        /\ c = [level |-> level, dyn |-> dyn, set |-> set, dirty |-> set, render |-> NoRender,
                shaders |-> shaders, shaders_dirty |-> Stages,
                cbufs |-> [at \in Stages \X Slots |-> NoCbuf], cbufs_dirty |-> {},
                sets |-> [s \in Sets |-> NoBuffer], push |-> Unknown, vb0 |-> ZeroRange]
  BY DEF Fresh
<1>2. shaders \in [Stages -> ShaderNames] /\ shaders["fs"] \in FsNames
  <2>1. SUFFICES ASSUME NEW s \in Stages
                 PROVE  /\ only(scenario.shaders[s]) \in ShaderNames
                        /\ s = "fs" => only(scenario.shaders[s]) \in FsNames
    BY <1>1 DEF Stages
  <2>2. scenario.shaders[s] \subseteq ShaderNames /\ (s = "fs" => scenario.shaders[s] \subseteq FsNames)
    <3>1. scenario.shaders[s] \subseteq ShadersOf[s]
      BY ScenarioAssumption
    <3>2. ShadersOf[s] \subseteq ShaderNames /\ (s = "fs" => ShadersOf[s] \subseteq FsNames)
      BY DEF ShadersOf, ShaderNames, FsNames, Stages
    <3>3. QED
      BY <3>1, <3>2
  <2>3. Cardinality(scenario.shaders[s]) = 1 => scenario.shaders[s] # {}
    BY FS_EmptySet
  <2>4. NULL \in ShaderNames /\ NULL \in FsNames
    BY DEF ShaderNames, FsNames
  <2>5. QED
    BY <2>2, <2>3, <2>4
<1>3. /\ DOMAIN dyn = DynStates /\ dyn["VI_BINDINGS_VALID"] = {0}
      /\ dyn["VP_VIEWPORT_COUNT"] = NumViewports /\ dyn["MS_RASTERIZATION_SAMPLES"] = 1
      /\ dyn["CB_WRITE_MASKS"] = [a \in Targets |-> 15] /\ dyn["COLOR_ATTACHMENT_MAP"] = Identity(0)
  <2>1. {"VI_BINDINGS_VALID", "VP_VIEWPORT_COUNT", "MS_RASTERIZATION_SAMPLES", "CB_WRITE_MASKS",
         "COLOR_ATTACHMENT_MAP"} \subseteq DynStates
    BY DEF DynStates
  <2>2. DOMAIN DefaultDyn = DynStates
    BY DEF DefaultDyn
  <2>3. DefaultDyn["VI_BINDINGS_VALID"] = {0}
    BY <2>1 DEF DefaultDyn
  <2>4. DefaultDyn["VP_VIEWPORT_COUNT"] = NumViewports
    BY <2>1 DEF DefaultDyn
  <2>5. DefaultDyn["MS_RASTERIZATION_SAMPLES"] = 1
    BY <2>1 DEF DefaultDyn
  <2>6. DefaultDyn["CB_WRITE_MASKS"] = [a \in Targets |-> 15]
    BY <2>1 DEF DefaultDyn
  <2>7. DefaultDyn["COLOR_ATTACHMENT_MAP"] = Identity(0)
    BY <2>1 DEF DefaultDyn
  <2>8. PICK d : d = DefaultDyn
    OBVIOUS
  <2>9. QED
    BY <1>1, <2>1, <2>2, <2>3, <2>4, <2>5, <2>6, <2>7, <2>8
<1>4. /\ 0 \in Streams /\ NumViewports \in 1 .. NumViewports /\ 0 \in 0 .. NumTargets
      /\ {0, 1} \subseteq SamplesNamed
  BY MmeAssumption DEF Streams, SamplesNamed, SampleCounts
<1>5. /\ IsCmd(c) /\ c.dyn = dyn /\ c.set = set /\ c.dirty = set /\ c.shaders = shaders
      /\ c.shaders_dirty = Stages /\ c.cbufs_dirty = {} /\ c.sets = [s \in Sets |-> NoBuffer]
      /\ c.cbufs = [at \in Stages \X Slots |-> NoCbuf] /\ c.push = Unknown
      /\ c.render = NoRender
  BY <1>1 DEF IsCmd, CmdFields
<1>6. Typed(c)
  <2>1. dyn["CB_WRITE_MASKS"] \in [Targets -> 0 .. 15] /\ dyn["COLOR_ATTACHMENT_MAP"] \in LocationMaps
    BY <1>3, IdentityMaps
  <2>2. QED
    BY <1>2, <1>3, <1>4, <1>5, <2>1 DEF Typed, NoRender
<1>7. QED
  BY <1>1, <1>5, <1>6 DEF Starting

(* Nothing is bound for a command buffer that begins. *)
LEMMA UnboundFed ==
  ASSUME NEW c, c.push = Unknown, NEW h, NEW predicate
  PROVE  LET b == [Unbound EXCEPT !.predicate = predicate] IN IsBound(b) /\ Fed(c, b, h)
<1>1. PICK b : b = [Unbound EXCEPT !.predicate = predicate]
  OBVIOUS
<1>2. b.vb = [s \in Streams |-> Unknown] /\ DOMAIN b = {"vb", "predicate", "counters"}
  BY <1>1 DEF Unbound
<1>3. 0 \in Streams
  BY MmeAssumption DEF Streams
<1>4. QED
  BY <1>1, <1>2, <1>3 DEF IsBound, Fed

(* Command buffers that begin and end. *)
LEMMA CommandBufferBind ==
  ASSUME CmdInv, BindInv, InheritInv,
         BeginCommandBuffer \/ EndCommandBuffer \/ ExecuteSecondary \/ EndSecondary
  PROVE  BindInv'
<1>1. g' = Engine
  BY DEF BeginCommandBuffer, EndCommandBuffer, ExecuteSecondary, EndSecondary
<1>2. PICK h : h = Engine
  OBVIOUS
<1>3. Basis(h) /\ h.override = FALSE /\ h.vb = g.vb
  BY <1>2, EngineFacts DEF BindInv
<1>4. scenario \in Scenarios
  BY DEF CmdInv
<1>5. ASSUME NEW level
      PROVE  /\ Starting(Fresh(level)) /\ Fresh(level).push = Unknown
             /\ Fresh(level).render = NoRender /\ PassIn(NoRender, h)
  BY <1>4, FreshStarting, RenderTypes DEF PassIn
<1>6. CASE BeginCommandBuffer
  <2>1. /\ cmd' = Fresh("primary") /\ bound' = [Unbound EXCEPT !.predicate = g.predicate]
        /\ outer' = outer
    BY <1>6 DEF BeginCommandBuffer, Unchanged
  <2>2. PICK c, x : c = Fresh("primary") /\ x = g.predicate
    OBVIOUS
  <2>3. Corr(c, h)
    BY <1>3, <1>5, <2>2, StartCorr
  <2>4. IsBound(bound') /\ Fed(c, bound', h)
    BY <1>5, <2>1, <2>2, UnboundFed
  <2>5. QED
    BY <1>1, <1>2, <1>3, <2>1, <2>2, <2>3, <2>4 DEF BindInv
<1>7. CASE EndCommandBuffer
  <2>1. cmd' = NoCmd /\ outer' = outer /\ bound' = bound
    BY <1>7 DEF EndCommandBuffer, Unchanged
  <2>2. QED
    BY <1>1, <1>2, <1>3, <2>1 DEF BindInv, Recording
<1>8. CASE ExecuteSecondary
  <2>1. PICK samples \in IF cmd.render.samples # 0 THEN {cmd.render.samples} ELSE scenario.inherits :
          cmd' = DirtyRenderPass(SetLocations(
                   [Fresh("secondary") EXCEPT !.render = [cmd.render EXCEPT !.samples = samples]],
                   Identity(cmd.render.count)))
    BY <1>8 DEF ExecuteSecondary
  <2>2. Recording /\ outer' = cmd /\ bound' = [Unbound EXCEPT !.predicate = bound.predicate]
    BY <1>8 DEF ExecuteSecondary
  <2>3. PICK pass, zero, map : pass = cmd.render /\ zero = Fresh("secondary") /\ map = Identity(pass.count)
    OBVIOUS
  <2>4. PICK render : render = [pass EXCEPT !.samples = samples]
    OBVIOUS
  <2>5. Corr(zero, h) /\ zero.push = Unknown
    BY <1>3, <1>5, <2>3, StartCorr
  <2>6. /\ pass.count \in 0 .. NumTargets /\ pass.samples \in SamplesNamed /\ PassIn(pass, h)
        /\ IsRender(pass)
    <3>1. Corr(cmd, h)
      BY <1>2, <2>2, EngineFacts DEF BindInv
    <3>2. QED
      BY <2>2, <2>3, <3>1 DEF Corr, Typed, StateCurrent, CmdInv
  <2>7. render.samples = samples /\ render.count = pass.count /\ render.in = pass.in
    BY <2>4, <2>6 DEF IsRender, RenderFields
  <2>8. samples \in SamplesNamed
    BY <1>4, <2>1, <2>3, <2>6, ScenarioAssumption DEF SamplesNamed
  <2>9. PassIn(render, h)
    <3>1. NothingInherited /\ samples # 0 => samples = pass.samples
      BY <1>4, <2>1, <2>3 DEF NothingInherited
    <3>2. QED
      BY <2>6, <2>7, <3>1 DEF PassIn
  <2>10. Corr(cmd', h) /\ cmd'.push = Unknown
    <3>1. PICK d : d = DirtyRenderPass(SetLocations([zero EXCEPT !.render = render], map))
      OBVIOUS
    <3>2. Corr(d, h) /\ Args(zero, d)
      <4>1. map \in LocationMaps /\ render.count \in 0 .. NumTargets
        BY <2>3, <2>6, <2>7, IdentityMaps, MmeAssumption
      <4>2. QED
        BY <2>5, <2>7, <2>8, <2>9, <3>1, <4>1, EnterCorr
    <3>3. cmd' = d
      BY <2>1, <2>3, <2>4, <3>1
    <3>4. QED
      BY <2>5, <3>2, <3>3 DEF Args
  <2>11. IsBound(bound') /\ Fed(cmd', bound', h)
    BY <2>2, <2>10, UnboundFed
  <2>12. Typed(outer')
    BY <2>2 DEF BindInv, Corr
  <2>13. QED
    BY <1>1, <1>2, <1>3, <2>10, <2>11, <2>12 DEF BindInv
<1>9. CASE EndSecondary
  <2>1. /\ cmd' = InvalidateGraphicsState(outer) /\ outer' = NoCmd /\ outer # NoCmd
        /\ bound' = [Unbound EXCEPT !.predicate = bound.predicate]
    <3>1. Recording /\ cmd.level = "secondary"
      BY <1>9 DEF EndSecondary
    <3>2. outer # NoCmd
      BY <3>1 DEF CmdInv, IsCmd, CmdFields, NoCmd
    <3>3. QED
      BY <1>9, <3>2 DEF EndSecondary
  <2>2. PICK c, zero : c = outer /\ zero = Fresh(c.level)
    OBVIOUS
  <2>3. PICK d : d = [zero EXCEPT !.dyn = c.dyn, !.set = c.set, !.dirty = DynStates, !.render = c.render]
    OBVIOUS
  <2>4. cmd' = d
    BY <2>1, <2>2, <2>3 DEF InvalidateGraphicsState
  <2>5. Typed(c) /\ Starting(zero) /\ zero.push = Unknown
    BY <1>5, <2>1, <2>2 DEF BindInv
  <2>6. Starting(d) /\ d.push = Unknown
    <3>1. /\ IsCmd(d) /\ d.dyn = c.dyn /\ d.set = c.set /\ d.dirty = DynStates
          /\ \A x \in CmdFields \ {"dyn", "set", "dirty", "render"} : d[x] = zero[x]
      BY <2>3, <2>5 DEF Starting, Typed, IsCmd, CmdFields
    <3>2. /\ d.shaders = zero.shaders /\ d.shaders_dirty = zero.shaders_dirty /\ d.sets = zero.sets
          /\ d.cbufs = zero.cbufs /\ d.cbufs_dirty = zero.cbufs_dirty /\ d.push = zero.push
      BY <3>1 DEF CmdFields
    <3>3. d.render = c.render
      BY <2>3, <2>5 DEF Starting, Typed, IsCmd, CmdFields
    <3>4. QED
      BY <2>5, <3>1, <3>2, <3>3 DEF Starting, Typed
  <2>7. Corr(d, h)
    <3>1. d.render = c.render
      BY <2>3, <2>5 DEF Starting, Typed, IsCmd, CmdFields
    <3>2. /\ Recording /\ cmd.level = "secondary" /\ c.render.in = cmd.render.in
          /\ c.render.count = cmd.render.count
      BY <1>9, <2>2 DEF EndSecondary, CmdInv, SamePass, RenderFields
    <3>3. PassIn(cmd.render, h)
      BY <1>2, <3>2, EngineFacts DEF BindInv, Corr, StateCurrent
    <3>4. PassIn(d.render, h)
      BY <2>2, <3>1, <3>2, <3>3 DEF PassIn, InheritInv
    <3>5. QED
      BY <1>3, <2>6, <3>4, StartCorr
  <2>8. IsBound(bound') /\ Fed(d, bound', h)
    BY <2>1, <2>6, UnboundFed
  <2>9. QED
    BY <1>1, <1>2, <1>3, <2>1, <2>4, <2>7, <2>8 DEF BindInv
<1>10. QED
  BY <1>6, <1>7, <1>8, <1>9

(* Passes that begin and end. *)
LEMMA PassBind ==
  ASSUME CmdInv, BindInv, BeginRendering \/ EndRendering
  PROVE  /\ BindInv' /\ g'.xfb = g.xfb
         /\ BeginRendering => \A x \in g'.when : x = "always"
<1>1. PICK c, h : c = cmd /\ h = Engine
  OBVIOUS
<1>2. Recording
  BY DEF BeginRendering, EndRendering
<1>3. /\ Corr(c, h) /\ Fed(c, bound, h) /\ h.override = FALSE /\ h.when = {} /\ h.xfb = g.xfb
  BY <1>1, <1>2, EngineFacts DEF BindInv
<1>4. bound' = bound /\ outer' = outer
  BY DEF BeginRendering, EndRendering, Unchanged
<1>5. CASE BeginRendering
  <2>0. PICK p \in scenario.passes :
          LET f == SetRendering(c, h, p)
          IN /\ ~c.render.in
             /\ \/ cmd' = f.c /\ g' = f.g
                \/ cmd' = ClearAttachments(f).c /\ g' = ClearAttachments(f).g
    BY <1>1, <1>5 DEF BeginRendering, Become
  <2>1. PICK f : /\ f = SetRendering(c, h, p)
                 /\ \/ cmd' = f.c /\ g' = f.g
                    \/ cmd' = ClearAttachments(f).c /\ g' = ClearAttachments(f).g
    BY <2>0
  <2>2. PICK d, k : /\ SetRendering(c, h, p) = On(d, k) /\ Corr(d, k) /\ Args(c, d)
                    /\ Kept(h, k) /\ k.when = h.when
    <3>1. IsPass(p)
      BY ScenarioFacts
    <3>2. QED
      BY <1>3, <2>0, <3>1, SetRenderingCorr
  <2>3. Fed(d, bound, k) /\ k.override = FALSE /\ k.xfb = h.xfb
    BY <1>3, <2>2, FedKept DEF Kept
  <2>4. PICK d2, k2 : /\ ClearAttachments(On(d, k)) = On(d2, k2) /\ Corr(d2, k2)
                      /\ (\A b : Fed(d, b, k) => Fed(d2, b, k2))
                      /\ k2.override = FALSE /\ k2.xfb = k.xfb
                      /\ \A x \in k2.when : x \in k.when \/ x = "always"
    <3>1. Corr(d, k)
      BY <2>2
    <3>2. QED
      BY <3>1, ClearCorr
  <2>5. (cmd' = d /\ g' = k) \/ (cmd' = d2 /\ g' = k2)
    <3>1. f = On(d, k) /\ ClearAttachments(f) = On(d2, k2)
      BY <2>1, <2>2, <2>4
    <3>2. PICK f2 : f2 = ClearAttachments(f)
      OBVIOUS
    <3>3. f.c = d /\ f.g = k /\ f2.c = d2 /\ f2.g = k2
      BY <3>1, <3>2 DEF On
    <3>4. QED
      BY <2>1, <3>2, <3>3, Zenon
  <2>6. Corr(cmd', g') /\ Fed(cmd', bound, g') /\ g'.override = FALSE /\ g'.xfb = g.xfb
    BY <1>3, <2>2, <2>3, <2>4, <2>5
  <2>7. \A x \in g'.when : x = "always"
    BY <1>3, <2>2, <2>4, <2>5
  <2>8. Basis(g')
    BY <2>6, CorrBasis
  <2>9. QED
    BY <1>4, <2>6, <2>7, <2>8 DEF BindInv
<1>6. CASE EndRendering
  <2>1. PICK e : e = [c EXCEPT !.render = NoRender]
    OBVIOUS
  <2>2. \/ cmd' = e /\ g' = h
        \/ cmd' = ResolveRendering(On(e, h)).c /\ g' = ResolveRendering(On(e, h)).g
    BY <1>1, <1>6, <2>1 DEF EndRendering, Become, On
  <2>3. Corr(e, h) /\ Fed(e, bound, h)
    <3>1. /\ IsCmd(e) /\ e.render = NoRender
          /\ \A x \in CmdFields \ {"render"} : e[x] = c[x]
      BY <1>3, <2>1 DEF Corr, Typed, IsCmd, CmdFields
    <3>2. Args(c, e)
      BY <3>1 DEF Args, CmdFields
    <3>3. Enters(e, h)
      BY <3>1, LeavesPass
    <3>4. QED
      BY <1>3, <3>1, <3>2, <3>3, OtherCorr, FedKept DEF CmdFields
  <2>4. PICK d, k : /\ ResolveRendering(On(e, h)) = On(d, k) /\ Corr(d, k)
                    /\ (\A b : Fed(e, b, h) => Fed(d, b, k))
                    /\ k.override = h.override /\ k.xfb = h.xfb
    <3>1. ~e.render.in
      BY <1>3, <2>1 DEF Corr, Typed, IsCmd, CmdFields, NoRender
    <3>2. QED
      BY <2>3, <3>1, ResolveCorr
  <2>5. (cmd' = e /\ g' = h) \/ (cmd' = d /\ g' = k)
    <3>1. PICK f : f = ResolveRendering(On(e, h))
      OBVIOUS
    <3>2. f.c = d /\ f.g = k
      BY <2>4, <3>1 DEF On
    <3>3. QED
      BY <2>2, <3>1, <3>2, Zenon
  <2>6. Corr(cmd', g') /\ Fed(cmd', bound, g') /\ g'.override = FALSE /\ g'.xfb = g.xfb
    BY <1>3, <2>3, <2>4, <2>5
  <2>7. Basis(g')
    BY <2>6, CorrBasis
  <2>8. ~BeginRendering
    <3>1. cmd.render.in
      BY <1>6 DEF EndRendering
    <3>2. QED
      BY <3>1 DEF BeginRendering
  <2>9. QED
    BY <1>4, <2>6, <2>7, <2>8 DEF BindInv
<1>7. QED
  BY <1>5, <1>6

(* Commands that set state. *)
LEMMA SetBind ==
  ASSUME CmdInv, BindInv, SetState \/ BindShader \/ BindSets
  PROVE  BindInv' /\ g'.xfb = g.xfb
<1>1. PICK c, h : c = cmd /\ h = Engine
  OBVIOUS
<1>2. Recording /\ g' = h /\ bound' = bound /\ outer' = outer
  BY <1>1 DEF SetState, BindShader, BindSets, Unchanged
<1>3. /\ Corr(c, h) /\ Fed(c, bound, h) /\ h.override = FALSE /\ h.xfb = g.xfb
  BY <1>1, <1>2, EngineFacts DEF BindInv
<1>4. scenario \in Scenarios
  BY DEF CmdInv
<1>5. Corr(cmd', h) /\ Args(c, cmd')
  <2>1. CASE SetState
    <3>1. PICK s \in scenario.vary : \E v \in scenario.values[s] : cmd' = SetDyn(c, s, v)
      BY <1>1, <2>1 DEF SetState
    <3>2. PICK v \in scenario.values[s] : cmd' = SetDyn(c, s, v)
      BY <3>1
    <3>3. s \in DynStates /\ Sized(s, v)
      <4>1. FixedCounts => s \notin Counts
        BY <1>4 DEF FixedCounts
      <4>2. QED
        BY <1>4, <4>1, ScenarioAssumption DEF Sized, SamplesNamed
    <3>4. QED
      BY <1>3, <3>2, <3>3, SetDynCorr
  <2>2. CASE BindShader
    <3>0. PICK stage \in Stages : \E shader \in scenario.shaders[stage] :
            cmd' = BindGraphicsShader(c, stage, shader)
      BY <1>1, <2>2 DEF BindShader
    <3>1. PICK shader \in scenario.shaders[stage] : cmd' = BindGraphicsShader(c, stage, shader)
      BY <3>0
    <3>2. scenario.shaders[stage] \subseteq ShadersOf[stage]
      BY <1>4, ScenarioAssumption
    <3>3. ShadersOf[stage] \subseteq ShaderNames /\ (stage = "fs" => ShadersOf[stage] \subseteq FsNames)
      BY DEF ShadersOf, ShaderNames, FsNames, Stages
    <3>4. shader \in ShaderNames /\ (stage = "fs" => shader \in FsNames)
      BY <3>2, <3>3
    <3>5. QED
      BY <1>3, <3>1, <3>4, BindShaderCorr
  <2>3. CASE BindSets
    <3>1. PICK s \in Sets, buffer \in {"a", "b"} : cmd' = BindDescriptorSet(c, s, buffer)
      BY <1>1, <2>3 DEF BindSets
    <3>2. QED
      BY <1>3, <3>1, BindSetCorr
  <2>4. QED
    BY <2>1, <2>2, <2>3
<1>6. Fed(cmd', bound, h)
  BY <1>3, <1>5, FedKept
<1>7. Basis(h)
  BY <1>3, CorrBasis
<1>8. QED
  BY <1>2, <1>3, <1>5, <1>6, <1>7 DEF BindInv

(* Commands that bind what the engine reads by itself. *)
LEMMA FeedBind ==
  ASSUME CmdInv, BindInv, PushConstants \/ BindVertexBuffers \/ BindIndexBuffer
  PROVE  BindInv' /\ g'.xfb = g.xfb
<1>1. PICK c, h : c = cmd /\ h = Engine
  OBVIOUS
<1>2. Recording /\ outer' = outer
  BY DEF PushConstants, BindVertexBuffers, BindIndexBuffer, Unchanged
<1>3. /\ Corr(c, h) /\ Fed(c, bound, h) /\ h.override = FALSE /\ h.xfb = g.xfb /\ IsBound(bound)
  BY <1>1, <1>2, EngineFacts DEF BindInv
<1>4. Corr(cmd', g') /\ Fed(cmd', bound', g') /\ g'.override = FALSE /\ g'.xfb = g.xfb /\ IsBound(bound')
  <2>1. CASE PushConstants
    <3>1. PICK v : cmd' = [c EXCEPT !.push = v] /\ g' = LoadConstant(h, "push", v) /\ bound' = bound
      BY <1>1, <2>1 DEF PushConstants, Unchanged
    <3>2. Corr(c, g') /\ Run(h, g') /\ g'.cb0.push = v /\ g'.vb = h.vb
      BY <1>3, <3>1, LoadPushCorr
    <3>3. /\ IsCmd(cmd') /\ cmd'.push = v /\ cmd'.vb0 = c.vb0
          /\ \A x \in CmdFields \ {"push"} : cmd'[x] = c[x]
      BY <1>3, <3>1 DEF Corr, Typed, IsCmd, CmdFields
    <3>4. Corr(cmd', g')
      <4>1. cmd'.render = c.render
        BY <3>3 DEF CmdFields
      <4>2. QED
        BY <3>2, <3>3, <4>1, OtherCorr
    <3>5. Fed(cmd', bound', g')
      BY <1>3, <3>1, <3>2, <3>3 DEF Fed
    <3>6. QED
      BY <1>3, <3>1, <3>2, <3>4, <3>5 DEF Run
  <2>2. CASE BindVertexBuffers
    <3>0. PICK s \in Streams :
            \E r : /\ bound' = [bound EXCEPT !.vb[s] = r] /\ g' = BindVb(h, s, r)
                   /\ cmd' = IF s = 0 THEN [c EXCEPT !.vb0 = r] ELSE c
      BY <1>1, <2>2 DEF BindVertexBuffers
    <3>1. PICK r : /\ bound' = [bound EXCEPT !.vb[s] = r] /\ g' = BindVb(h, s, r)
                   /\ cmd' = IF s = 0 THEN [c EXCEPT !.vb0 = r] ELSE c
      BY <3>0
    <3>2. /\ Corr(c, g') /\ Run(h, g') /\ g'.cb0 = h.cb0
          /\ \A t \in Streams : g'.vb.range[t] = IF t = s THEN Bindable(r) ELSE h.vb.range[t]
      BY <1>3, <3>1, BindVbCorr
    <3>3. /\ IsCmd(cmd') /\ cmd'.push = c.push /\ cmd'.vb0 = IF s = 0 THEN r ELSE c.vb0
          /\ \A x \in CmdFields \ {"vb0"} : cmd'[x] = c[x]
      BY <1>3, <3>1 DEF Corr, Typed, IsCmd, CmdFields
    <3>4. Corr(cmd', g')
      <4>1. cmd'.render = c.render
        BY <3>3 DEF CmdFields
      <4>2. QED
        BY <3>2, <3>3, <4>1, OtherCorr
    <3>5. IsBound(bound') /\ \A t \in Streams : bound'.vb[t] = IF t = s THEN r ELSE bound.vb[t]
      BY <1>3, <3>1 DEF IsBound
    <3>6. 0 \in Streams
      BY MmeAssumption DEF Streams
    <3>7. Fed(cmd', bound', g')
      BY <1>3, <3>2, <3>3, <3>5, <3>6 DEF Fed
    <3>8. QED
      BY <1>3, <3>2, <3>4, <3>5, <3>7 DEF Run
  <2>3. CASE BindIndexBuffer
    <3>1. PICK ib : g' = [h EXCEPT !.ib = ib] /\ cmd' = c /\ bound' = bound
      BY <1>1, <2>3 DEF BindIndexBuffer, BindIb, Unchanged
    <3>2. Rooted(h) /\ Basis(h)
      BY <1>3, CorrBasis DEF Corr
    <3>3. DOMAIN g' = EngineFields /\ \A x \in EngineFields \ {"ib"} : g'[x] = h[x]
      BY <3>1, <3>2 DEF Rooted, EngineFields
    <3>4. g'.xfb = h.xfb /\ g'.override = h.override
      BY <3>3 DEF EngineFields
    <3>5. Corr(c, g') /\ g'.vb = h.vb /\ g'.cb0 = h.cb0
      BY <1>3, <3>2, <3>3, <3>4, AsideCorr DEF Rooted, Aside
    <3>6. QED
      BY <1>3, <3>1, <3>4, <3>5 DEF Fed
  <2>4. QED
    BY <2>1, <2>2, <2>3
<1>5. Basis(g')
  BY <1>4, CorrBasis
<1>6. QED
  BY <1>2, <1>4, <1>5 DEF BindInv

(* The draws of the application. *)
LEMMA DrawBind ==
  ASSUME CmdInv, BindInv, Draws
  PROVE  /\ BindInv'
         /\ \/ g'.xfb = g.xfb
            \/ /\ g.xfb.on /\ \A b \in XfbBuffers : g.xfb.pointer[b] < MaxFeedback
               /\ g'.xfb = [g.xfb EXCEPT !.pointer = [b \in XfbBuffers |-> @[b] + 1]]
<1>1. PICK name, draws : DrawCall(name, draws) /\ Len(draws) \in Nat
  <2>1. ASSUME NEW d, NEW e PROVE Len(<<d>>) \in Nat /\ Len(<<d, e>>) \in Nat
    OBVIOUS
  <2>2. \/ \E n, d : DrawCall(n, <<d>>)
        \/ \E n, d, e : DrawCall(n, <<d, e>>)
    BY Zenon DEF Draws, Draw, DrawIndexed, DrawMulti, DrawMultiIndexed, DrawIndirectByteCount,
                 DrawIndirect, DrawIndexedIndirect
  <2>3. CASE \E n, d : DrawCall(n, <<d>>)
    <3>1. PICK n, d : DrawCall(n, <<d>>)
      BY <2>3
    <3>2. Len(<<d>>) \in Nat
      BY <2>1
    <3>3. QED
      BY <3>1, <3>2, Zenon
  <2>4. CASE \E n, d, e : DrawCall(n, <<d, e>>)
    <3>1. PICK n, d, e : DrawCall(n, <<d, e>>)
      BY <2>4
    <3>2. Len(<<d, e>>) \in Nat
      BY <2>1
    <3>3. QED
      BY <3>1, <3>2, Zenon
  <2>5. QED
    BY <2>2, <2>3, <2>4
<1>2. PICK c, h : c = cmd /\ h = Engine
  OBVIOUS
<1>3. Recording /\ bound' = bound /\ outer' = outer
  BY <1>1 DEF DrawCall, MayDraw
<1>4. /\ Corr(c, h) /\ Fed(c, bound, h) /\ h.override = FALSE /\ h.xfb = g.xfb
  BY <1>2, <1>3, EngineFacts DEF BindInv
<1>5. PICK d, k : FlushGfxState(c, h) = On(d, k) /\ Corr(d, k) /\ Kin(c, d) /\ Held(h, k)
  BY <1>4, FlushCorr
<1>6. PICK l : l = DrawAll(k, draws)
  OBVIOUS
<1>7. cmd' = d /\ g' = Feed(l)
  <2>1. /\ cmd' = FlushGfxState(c, h).c
        /\ g' = Feed(DrawAll(FlushGfxState(c, h).g, draws))
    BY <1>1, <1>2 DEF DrawCall, Become, On
  <2>2. QED
    BY <1>5, <1>6, <2>1 DEF On
<1>8. Still(k, l) /\ Corr(d, l)
  <2>1. Ran(k, l)
    BY <1>1, <1>5, <1>6, DrawAllStill DEF Corr
  <2>2. QED
    BY <1>5, <2>1, CorrStill, RanTransitive
<1>9. Fed(d, bound, l) /\ l.override = FALSE /\ l.xfb = g.xfb
  <2>1. l.vb.range = h.vb.range /\ l.cb0.push = h.cb0.push /\ l.override = FALSE /\ l.xfb = g.xfb
    BY <1>4, <1>5, <1>8 DEF Still, Kept, Held
  <2>2. Args(c, d)
    BY <1>5 DEF Kin, Args
  <2>3. QED
    BY <1>4, <2>1, <2>2, FedKept
<1>10. CASE ~l.xfb.on
  <2>1. g' = l
    BY <1>7, <1>10 DEF Feed
  <2>2. Basis(l)
    BY <1>8, CorrBasis
  <2>3. QED
    BY <1>3, <1>7, <1>8, <1>9, <2>1, <2>2 DEF BindInv
<1>11. CASE l.xfb.on
  <2>1. g' = [l EXCEPT !.xfb.pointer = [b \in XfbBuffers |-> @[b] + 1]]
    BY <1>7, <1>11 DEF Feed
  <2>2. Rooted(l) /\ Basis(l)
    BY <1>8, CorrBasis DEF Corr
  <2>3. /\ DOMAIN g' = EngineFields
        /\ g'.xfb = [l.xfb EXCEPT !.pointer = [b \in XfbBuffers |-> @[b] + 1]]
        /\ \A x \in EngineFields \ {"xfb"} : g'[x] = l[x]
    BY <2>1, <2>2 DEF Rooted, EngineFields
  <2>4. DOMAIN g'.xfb = {"on", "pointer"} /\ g'.override = l.override
    BY <2>2, <2>3 DEF Rooted, EngineFields
  <2>5. Basis(g') /\ Corr(d, g') /\ g'.vb = l.vb /\ g'.cb0 = l.cb0
    BY <1>8, <2>2, <2>3, <2>4, AsideCorr DEF Aside
  <2>6. Fed(d, bound, g')
    BY <1>9, <2>5 DEF Fed
  <2>7. \A b \in XfbBuffers : g.xfb.pointer[b] < MaxFeedback
    BY <1>1, <1>9, <1>11 DEF DrawCall
  <2>8. BindInv'
    BY <1>3, <1>7, <1>9, <2>4, <2>5, <2>6 DEF BindInv
  <2>9. QED
    BY <1>9, <1>11, <2>3, <2>7, <2>8
<1>12. QED
  BY <1>10, <1>11

(***************************************************************************)
(* Transform feedback and conditional rendering                            *)
(***************************************************************************)
Pointers == [XfbBuffers -> 0 .. MaxFeedback]
FeedInv  == counters \in Pointers /\ g.xfb.pointer \in Pointers

(* Feedback begins at zero or at the counters, and changes nothing else. *)
LEMMA FeedbackBegins ==
  ASSUME Basis(g), FeedInv, BeginTransformFeedback
  PROVE  \E p \in Pointers : g' = [Engine EXCEPT !.xfb = [on |-> TRUE, pointer |-> p]]
<1>1. PICK h : h = Engine
  OBVIOUS
<1>2. DOMAIN h = EngineFields
  BY <1>1, EngineFacts DEF Basis, Rooted
<1>3. Cardinality(XfbBuffers) = 2 /\ MaxFeedback \in Nat
  <2>1. 0 \in Int /\ 1 \in Int
    OBVIOUS
  <2>2. Cardinality(0 .. 1) = IF 0 > 1 THEN 0 ELSE 1 - 0 + 1
    BY <2>1, FS_Interval, Zenon
  <2>3. Cardinality(0 .. 1) = 2
    BY <2>2
  <2>4. QED
    BY <2>3, FeedbackAssumption DEF XfbBuffers
<1> DEFINE With(p) == [h EXCEPT !.xfb = [on |-> TRUE, pointer |-> p]]
           zero == [Engine EXCEPT !.xfb = [on |-> TRUE, pointer |-> [b \in XfbBuffers |-> 0]]]
           Step(from, k, n) == IF n - 1 \in from THEN XfbCounterLoad(k, n - 1, counters[n - 1]) ELSE k
           Whole(from, f, m) ==
             f = [n \in 0 .. m |-> IF n = 0 THEN zero ELSE Step(from, f[n - 1], n)]
<1>4. PICK from : g' = (CHOOSE f : Whole(from, f, Cardinality(XfbBuffers)))[Cardinality(XfbBuffers)]
  BY ZenonT(60) DEF BeginTransformFeedback
<1>5. PICK p0 \in Pointers : zero = With(p0)
  <2>1. [b \in XfbBuffers |-> 0] \in Pointers
    BY <1>3 DEF Pointers
  <2>2. QED
    BY <1>1, <2>1
<1>6. ASSUME NEW p \in Pointers, NEW n \in 1 .. 2
      PROVE  \E q \in Pointers : Step(from, With(p), n) = With(q)
  <2>1. PICK v : v = counters[n - 1] /\ v \in 0 .. MaxFeedback
    BY DEF FeedInv, Pointers, XfbBuffers
  <2>2. PICK q : q = [b \in XfbBuffers |-> IF n - 1 = 8 * b THEN v ELSE p[b]]
    OBVIOUS
  <2>3. q \in Pointers
    BY <2>1, <2>2 DEF Pointers
  <2>4. XfbCounterLoad(With(p), n - 1, v) = With(q)
    <3>1. "xfb" \in DOMAIN h
      BY <1>2 DEF EngineFields
    <3>2. PICK k : k = With(p)
      OBVIOUS
    <3>3. "xfb" \in DOMAIN k /\ k.xfb = [on |-> TRUE, pointer |-> p]
      BY <3>1, <3>2
    <3>4. q = [b \in XfbBuffers |-> IF n - 1 = 8 * b THEN v ELSE k.xfb.pointer[b]]
      BY <2>2, <3>3
    <3>5. XfbCounterLoad(k, n - 1, v) = [k EXCEPT !.xfb.pointer = q]
      BY <3>3, <3>4 DEF XfbCounterLoad
    <3>6. [k EXCEPT !.xfb.pointer = q] = [k EXCEPT !.xfb = [on |-> TRUE, pointer |-> q]]
      <4>1. PICK x : x = [k.xfb EXCEPT !.pointer = q]
        OBVIOUS
      <4>2. x = [on |-> TRUE, pointer |-> q]
        <5>1. ASSUME NEW t
              PROVE  [[on |-> t, pointer |-> p] EXCEPT !.pointer = q] = [on |-> t, pointer |-> q]
          OBVIOUS
        <5>2. [[on |-> TRUE, pointer |-> p] EXCEPT !.pointer = q] = [on |-> TRUE, pointer |-> q]
          BY <5>1, Zenon
        <5>3. QED
          BY <3>3, <4>1, <5>2, Zenon
      <4>3. [k EXCEPT !.xfb.pointer = q] = [k EXCEPT !.xfb = x]
        BY <3>3, <4>1
      <4>4. QED
        BY <4>2, <4>3
    <3>7. QED
      BY <3>2, <3>5, <3>6
  <2>5. QED
    BY <2>1, <2>3, <2>4
<1> HIDE DEF zero, With, Step
<1>7. PICK p1 \in Pointers : Step(from, zero, 1) = With(p1)
  BY <1>5, <1>6
<1>8. PICK p2 \in Pointers : Step(from, Step(from, zero, 1), 2) = With(p2)
  BY <1>6, <1>7
<1>9. PICK f : f = (CHOOSE e : Whole(from, e, Cardinality(XfbBuffers)))
  OBVIOUS
<1>10. Whole(from, f, 2)
  <2> DEFINE e == [n \in 0 .. 2 |-> IF n = 0 THEN zero ELSE IF n = 1 THEN Step(from, zero, 1)
                                    ELSE Step(from, Step(from, zero, 1), 2)]
  <2>1. e[0] = zero /\ e[1] = Step(from, e[0], 1) /\ e[2] = Step(from, e[1], 2)
    OBVIOUS
  <2>2. ASSUME NEW n \in 0 .. 2 PROVE e[n] = IF n = 0 THEN zero ELSE Step(from, e[n - 1], n)
    <3>1. n = 0 \/ n = 1 \/ n = 2
      OBVIOUS
    <3> HIDE DEF e
    <3>2. QED
      BY <2>1, <3>1
  <2>3. Whole(from, e, 2)
    BY <2>2
  <2> HIDE DEF Whole, e
  <2>4. QED
    BY <1>3, <1>9, <2>3
<1>11. f[0] = zero /\ f[1] = Step(from, f[0], 1) /\ f[2] = Step(from, f[1], 2)
  BY <1>10
<1>12. g' = f[2]
  BY <1>3, <1>4, <1>9
<1>13. QED
  BY <1>1, <1>8, <1>11, <1>12 DEF With

(* Commands that only the feedback or the predicate of the engine see. *)
LEMMA FeedbackBind ==
  ASSUME BindInv, FeedInv,
         \/ BeginTransformFeedback \/ EndTransformFeedback
         \/ BeginConditionalRendering \/ EndConditionalRendering
  PROVE  BindInv' /\ FeedInv'
<1>1. PICK h : h = Engine
  OBVIOUS
<1>2. /\ Basis(h) /\ h.override = FALSE /\ h.xfb = g.xfb /\ IsBound(bound) /\ Recording
      /\ Corr(cmd, h) /\ Fed(cmd, bound, h)
  BY <1>1, EngineFacts DEF BindInv, BeginTransformFeedback, EndTransformFeedback,
                           BeginConditionalRendering, EndConditionalRendering
<1>3. cmd' = cmd /\ outer' = outer
  BY DEF BeginTransformFeedback, EndTransformFeedback,
         BeginConditionalRendering, EndConditionalRendering, Unchanged
<1>4. Rooted(h) /\ h.xfb.pointer \in Pointers
  BY <1>2 DEF Basis, FeedInv
<1>5. /\ DOMAIN g' = EngineFields /\ DOMAIN g'.xfb = {"on", "pointer"}
      /\ \A x \in EngineFields \ Aside : g'[x] = h[x]
      /\ g'.override = h.override
      /\ g'.xfb.pointer \in Pointers /\ counters' \in Pointers
  <2>1. CASE BeginTransformFeedback
    <3>1. PICK p \in Pointers : g' = [h EXCEPT !.xfb = [on |-> TRUE, pointer |-> p]]
      BY <1>1, <2>1, FeedbackBegins DEF BindInv
    <3>2. counters' = counters
      BY <2>1 DEF BeginTransformFeedback, Unchanged
    <3>3. DOMAIN g' = EngineFields /\ g'.xfb = [on |-> TRUE, pointer |-> p]
      BY <1>4, <3>1 DEF Rooted, EngineFields
    <3>4. \A x \in EngineFields \ {"xfb"} : g'[x] = h[x]
      BY <1>4, <3>1 DEF Rooted, EngineFields
    <3>5. QED
      BY <3>2, <3>3, <3>4 DEF FeedInv, Aside, EngineFields
  <2>2. CASE EndTransformFeedback
    <3>1. /\ g' = [h EXCEPT !.xfb.on = FALSE]
          /\ \E to \in SUBSET XfbBuffers :
               counters' = [b \in XfbBuffers |-> IF b \in to THEN g.xfb.pointer[b] ELSE counters[b]]
      BY <1>1, <2>2 DEF EndTransformFeedback
    <3>2. counters' \in Pointers
      BY <3>1 DEF FeedInv, Pointers
    <3>3. DOMAIN g' = EngineFields /\ g'.xfb = [h.xfb EXCEPT !.on = FALSE]
      BY <1>4, <3>1 DEF Rooted, EngineFields
    <3>4. \A x \in EngineFields \ {"xfb"} : g'[x] = h[x]
      BY <1>4, <3>1 DEF Rooted, EngineFields
    <3>5. g'.xfb.pointer = h.xfb.pointer /\ DOMAIN g'.xfb = {"on", "pointer"}
      BY <1>4, <3>3 DEF Rooted
    <3>6. QED
      BY <1>4, <3>2, <3>3, <3>4, <3>5 DEF Aside, EngineFields
  <2>3. CASE BeginConditionalRendering \/ EndConditionalRendering
    <3>1. (\E when : g' = [h EXCEPT !.predicate = when]) \/ g' = h
      BY <1>1, <2>3 DEF BeginConditionalRendering, EndConditionalRendering
    <3>2. counters' = counters
      BY <2>3 DEF BeginConditionalRendering, EndConditionalRendering, Unchanged
    <3>3. DOMAIN g' = EngineFields /\ \A x \in EngineFields \ {"predicate"} : g'[x] = h[x]
      BY <1>4, <3>1 DEF Rooted
    <3>4. g'.xfb = h.xfb /\ g'.override = h.override
      BY <3>3 DEF EngineFields
    <3>5. QED
      BY <1>4, <3>2, <3>3, <3>4 DEF Rooted, FeedInv, Aside
  <2>4. QED
    BY <2>1, <2>2, <2>3
<1>6. IsBound(bound') /\ bound'.vb = bound.vb
  <2>1. PICK b : b = bound
    OBVIOUS
  <2>2. \/ \E v : bound' = [b EXCEPT !.counters = v] \/ bound' = [b EXCEPT !.predicate = v]
        \/ bound' = b
    BY <2>1 DEF BeginTransformFeedback, EndTransformFeedback,
                BeginConditionalRendering, EndConditionalRendering
  <2>3. QED
    BY <1>2, <2>1, <2>2 DEF IsBound
<1>7. PICK k : k = g'
  OBVIOUS
<1>8. Basis(k) /\ k.vb = h.vb /\ k.cb0 = h.cb0 /\ Corr(cmd, k)
  BY <1>2, <1>5, <1>7, AsideCorr
<1>9. Fed(cmd, bound', k)
  BY <1>2, <1>6, <1>8 DEF Fed
<1>10. BindInv'
  BY <1>2, <1>3, <1>5, <1>6, <1>7, <1>8, <1>9 DEF BindInv
<1>11. QED
  BY <1>5, <1>10 DEF FeedInv

(***************************************************************************)
(* The invariants                                                          *)
(***************************************************************************)
(* Every step keeps what the command buffer knows of the engine true. *)
LEMMA BindStep ==
  ASSUME CmdInv, BindInv, FeedInv, InheritInv, [Next]_vars
  PROVE  BindInv' /\ FeedInv'
<1>1. CASE UNCHANGED vars
  <2>1. UNCHANGED <<cmd, outer, g, bound, counters>>
    BY <1>1 DEF vars
  <2>2. BindInv'
    BY <2>1 DEF BindInv, Recording
  <2>3. FeedInv'
    BY <2>1 DEF FeedInv
  <2>4. QED
    BY <2>2, <2>3
<1>2. CASE BeginCommandBuffer \/ EndCommandBuffer \/ ExecuteSecondary \/ EndSecondary
  <2>1. g' = Engine /\ counters' = counters
    BY <1>2 DEF BeginCommandBuffer, EndCommandBuffer, ExecuteSecondary, EndSecondary, Unchanged
  <2>2. g'.xfb = g.xfb
    BY <2>1, EngineFacts DEF BindInv
  <2>3. QED
    BY <1>2, <2>1, <2>2, CommandBufferBind DEF FeedInv
<1>3. CASE BeginRendering \/ EndRendering
  <2>1. counters' = counters
    BY <1>3 DEF BeginRendering, EndRendering, Unchanged
  <2>2. QED
    BY <1>3, <2>1, PassBind DEF FeedInv
<1>4. CASE \/ SetState \/ BindShader \/ BindSets
           \/ PushConstants \/ BindVertexBuffers \/ BindIndexBuffer
  <2>1. counters' = counters
    BY <1>4 DEF SetState, BindShader, BindSets, PushConstants, BindVertexBuffers, BindIndexBuffer,
                Unchanged
  <2>2. QED
    BY <1>4, <2>1, SetBind, FeedBind DEF FeedInv
<1>5. CASE Draws
  <2>1. counters' = counters
    BY <1>5 DEF Draws, Draw, DrawIndexed, DrawMulti, DrawMultiIndexed, DrawIndirectByteCount,
                DrawIndirect, DrawIndexedIndirect, DrawCall
  <2>2. PICK x, p : x = g.xfb /\ p = x.pointer /\ p \in Pointers
    BY DEF FeedInv
  <2>3. BindInv'
    BY <1>5, DrawBind
  <2>4. DOMAIN x = {"on", "pointer"}
    BY <2>2 DEF BindInv, Basis, Rooted
  <2>5. CASE g'.xfb = x
    BY <2>1, <2>2, <2>3, <2>5 DEF FeedInv
  <2>6. CASE /\ \A b \in XfbBuffers : p[b] < MaxFeedback
             /\ g'.xfb = [x EXCEPT !.pointer = [b \in XfbBuffers |-> p[b] + 1]]
    <3>1. [b \in XfbBuffers |-> p[b] + 1] \in Pointers
      BY <2>2, <2>6, FeedbackAssumption DEF Pointers
    <3>2. g'.xfb.pointer \in Pointers
      BY <2>4, <2>6, <3>1
    <3>3. QED
      BY <2>1, <2>3, <3>2 DEF FeedInv
  <2>7. QED
    BY <1>5, <2>2, <2>5, <2>6, DrawBind
<1>6. CASE \/ BeginTransformFeedback \/ EndTransformFeedback
           \/ BeginConditionalRendering \/ EndConditionalRendering
  BY <1>6, FeedbackBind
<1>7. QED
  BY <1>1, <1>2, <1>3, <1>4, <1>5, <1>6 DEF Next, Draws

(* What nvk_push_draw_state_init leaves to the macros is what they keep. *)
LEMMA InitTuned ==
  /\ TessTuned(RasterInit.tess) /\ DepthTuned(RasterInit.z)
  /\ \A masks : SamplingTuned(RasterInit.aa, masks)
<1>1. TessTuned(RasterInit.tess)
  <2>1. PICK t : t = [domain |-> "isoline", prims |-> "points", lower_left |-> FALSE]
    OBVIOUS
  <2>2. RasterInit.tess = [params |-> t, hw |-> TessHw(t)]
    BY <2>1 DEF RasterInit
  <2>3. DOMAIN t = {"domain", "prims", "lower_left"}
    BY <2>1
  <2>4. QED
    BY <2>2, <2>3 DEF TessTuned
<1>2. DepthTuned(RasterInit.z)
  <2>1. PICK z : z = RasterInit.z
    OBVIOUS
  <2>2. /\ DOMAIN z = {"clamp", "range", "clip"} /\ z.clamp = FALSE
        /\ z.range = [i \in Viewports |-> ResetClip] /\ z.clip = [i \in Viewports |-> ResetClip]
    BY <2>1 DEF RasterInit
  <2>3. QED
    BY <2>1, <2>2 DEF DepthTuned
<1>3. ASSUME NEW masks PROVE SamplingTuned(RasterInit.aa, masks)
  <2>1. PICK aa : aa = RasterInit.aa
    OBVIOUS
  <2>2. /\ DOMAIN aa = {"params", "passes", "mode", "two", "four"}
        /\ aa.params = AntiAliasInit /\ aa.passes = 1 /\ aa.mode = "1x1"
        /\ aa.two = NoMasks /\ aa.four = NoMasks
    BY <2>1 DEF RasterInit
  <2>3. DOMAIN aa.params = {"rcp", "samples"} /\ aa.params.rcp = 15 /\ aa.params.samples = 0
    BY <2>2 DEF AntiAliasInit
  <2>4. aa.passes = 2^PassesLog2(aa.params)
    <3>1. PassesLog2(aa.params) = 0
      BY <2>3 DEF PassesLog2
    <3>2. QED
      BY <2>2, <3>1
  <2>5. LaidOut(aa, 1)
    <3>1. SampleLayout(1) = "1x1"
      BY DEF SampleLayout
    <3>2. TwoPassMasks("1x1") = NoMasks /\ FourPassMasks("1x1") = NoMasks
      BY DEF TwoPassMasks, FourPassMasks
    <3>3. Log2(1) = 0
      BY LogFacts
    <3>4. QED
      BY <2>2, <2>3, <3>1, <3>2, <3>3 DEF LaidOut
  <2>6. QED
    BY <2>1, <2>2, <2>3, <2>4, <2>5 DEF SamplingTuned, SampleCounts, Rates
<1>4. QED
  BY <1>1, <1>2, <1>3

(* nvk_push_draw_state_init selects the root table and binds it in slot 0. *)
LEMMA BindInit ==
  ASSUME Init
  PROVE  CmdInv /\ BindInv /\ FeedInv /\ InheritInv
<1>1. CmdInv /\ InheritInv
  BY DEF Init, CmdInv, InheritInv, Recording
<1>2. PICK h : h = DrawStateInit /\ g = h
  BY DEF Init
<1>3. DOMAIN h = EngineFields
  <2>1. DOMAIN RasterInit = {"tess", "aa", "z", "conservative", "write", "single", "predicate",
                             "override", "view_mask", "target", "xfb", "reg", "drawn", "layers", "when"}
    BY DEF RasterInit
  <2>2. DOMAIN BindingInit = {"selector", "stray", "cb0", "vertex_id_base", "layer", "cbuf", "prog",
                              "vtgm", "vb", "ib"}
    BY DEF BindingInit
  <2>3. QED
    BY <1>2, <2>1, <2>2 DEF DrawStateInit, EngineFields
<1>4. /\ \A x \in DOMAIN RasterInit : h[x] = RasterInit[x]
      /\ \A x \in DOMAIN BindingInit \ DOMAIN RasterInit : h[x] = BindingInit[x]
  BY <1>2 DEF DrawStateInit
<1>5. /\ h.override = FALSE /\ h.xfb = [on |-> FALSE, pointer |-> [b \in XfbBuffers |-> 0]]
      /\ h.reg = [r \in Registers |-> IF r[1] = "SCISSOR" THEN "disabled" ELSE Unknown]
  <2>1. {"override", "xfb", "reg"} \subseteq DOMAIN RasterInit
    BY DEF RasterInit
  <2>2. h.override = RasterInit.override /\ h.xfb = RasterInit.xfb /\ h.reg = RasterInit.reg
    BY <1>4, <2>1
  <2>3. QED
    BY <2>2 DEF RasterInit
<1>6. /\ h.selector = CB0 /\ h.stray = FALSE /\ DOMAIN h.cb0 = Cb0Fields
      /\ h.cbuf = [at \in Stages \X Slots |-> IF at[2] = 0 THEN CB0 ELSE NoBuffer]
      /\ h.prog = NoShaders
      /\ h.vb = [enables |-> {}, format |-> [s \in Streams |-> [enable |-> FALSE, stride |-> 0]],
                 range |-> [s \in Streams |-> Unknown]]
  <2>1. {"selector", "stray", "cb0", "cbuf", "prog", "vb"} \subseteq DOMAIN BindingInit \ DOMAIN RasterInit
    BY DEF BindingInit, RasterInit
  <2>2. /\ h.selector = BindingInit.selector /\ h.stray = BindingInit.stray
        /\ h.cb0 = BindingInit.cb0 /\ h.cbuf = BindingInit.cbuf /\ h.prog = BindingInit.prog
        /\ h.vb = BindingInit.vb
    BY <1>4, <2>1
  <2>3. QED
    BY <2>2 DEF BindingInit, Cb0Fields
<1>7. IsVb(h.vb) /\ Formatted(h.vb)
  <2>1. PICK off : off = [enable |-> FALSE, stride |-> 0]
    OBVIOUS
  <2>2. /\ DOMAIN h.vb = {"enables", "format", "range"} /\ h.vb.enables = {}
        /\ h.vb.format = [s \in Streams |-> off] /\ DOMAIN h.vb.range = Streams
    BY <1>6, <2>1
  <2>3. DOMAIN off = {"enable", "stride"} /\ ~off.enable /\ off.enable \in BOOLEAN
    BY <2>1
  <2>4. \A s \in Streams : h.vb.format[s] = off
    BY <2>2
  <2>5. Formatted(h.vb)
    <3>1. SUFFICES ASSUME NEW s \in Streams PROVE off.enable = (s \in {})
      BY <2>2, <2>4, Zenon DEF Formatted
    <3>2. off.enable = FALSE
      BY <2>1
    <3>3. (s \in {}) = FALSE
      OBVIOUS
    <3>4. QED
      BY <3>2, <3>3, Zenon
  <2>6. IsVb(h.vb)
    BY <2>2, <2>3, <2>4 DEF IsVb
  <2>7. QED
    BY <2>5, <2>6
<1>8. Rooted(h)
  BY <1>3, <1>5, <1>6, <1>7 DEF Rooted, NoShaders
<1>9. \A s \in Stages : h.cbuf[<<s, 0>>] = CB0
  BY <1>6 DEF Slots
<1>10. IsBound(bound)
  BY DEF Init, Unbound, IsBound
<1>11. BindInv
  <2>1. {"tess", "z", "aa"} \subseteq DOMAIN RasterInit
    BY DEF RasterInit
  <2>2. h.tess = RasterInit.tess /\ h.z = RasterInit.z /\ h.aa = RasterInit.aa
    BY <1>4, <2>1
  <2>3. Tuned(h)
    BY <2>2, InitTuned DEF Tuned
  <2>4. QED
    BY <1>2, <1>5, <1>7, <1>8, <1>9, <1>10, <2>3 DEF Init, BindInv, Basis, Recording
<1>12. FeedInv
  <2>1. [b \in XfbBuffers |-> 0] \in Pointers
    BY FeedbackAssumption DEF Pointers
  <2>2. g.xfb.pointer = [b \in XfbBuffers |-> 0]
    BY <1>2, <1>5
  <2>3. QED
    BY <2>1, <2>2 DEF Init, FeedInv
<1>13. QED
  BY <1>1, <1>11, <1>12

(* The inductive invariant of the engine and the command buffer. *)
EngineInv == CmdInv /\ BindInv /\ FeedInv /\ InheritInv

(* It holds of a new queue, ... *)
LEMMA EngineInit == Init => EngineInv
BY BindInit DEF EngineInv

(* and every step keeps it. *)
LEMMA EngineStep == EngineInv /\ [Next]_vars => EngineInv'
BY CmdStep, BindStep, InheritStep DEF EngineInv

(* What the command buffer knows of the engine is what a draw reads. *)
LEMMA BindCurrent ==
  ASSUME BindInv
  PROVE  BindingsCurrent
<1>1. VertexStreamsCurrent
  <2>1. \A s \in Streams : g.vb.format[s].enable = (s \in g.vb.enables)
    BY DEF BindInv, Basis, Formatted
  <2>2. Recording => \A s \in Streams :
                       bound.vb[s] # Unknown => g.vb.range[s] = Bindable(bound.vb[s])
    BY DEF BindInv, Fed
  <2>3. ASSUME Clean({"VI_BINDINGS_VALID", "VI_BINDING_STRIDES"})
        PROVE  /\ g.vb.enables = cmd.dyn["VI_BINDINGS_VALID"]
               /\ \A s \in g.vb.enables : g.vb.format[s].stride = cmd.dyn["VI_BINDING_STRIDES"]
    <3>1. VertexCurrent(cmd, g) /\ CleanIn(cmd, VertexState) /\ CleanIn(cmd, {"VI_BINDINGS_VALID"})
      BY <2>3 DEF BindInv, Corr, Clean, CleanIn, VertexState
    <3>2. QED
      BY <3>1 DEF VertexCurrent
  <2>4. QED
    BY <2>1, <2>2, <2>3 DEF VertexStreamsCurrent
<1>2. ConstantBuffersCurrent
  <2>1. g.selector = CB0 /\ ~g.stray /\ \A s \in Stages : g.cbuf[<<s, 0>>] = CB0
    BY DEF BindInv, Basis, Rooted
  <2>2. Recording => (cmd.push # Unknown => g.cb0.push = cmd.push)
    BY DEF BindInv, Fed
  <2>3. ASSUME Recording, NEW at \in InUse(cmd) \ cmd.cbufs_dirty,
               at[1] \notin cmd.shaders_dirty, at[2] # 0
        PROVE  g.cbuf[at] = cmd.sets[CbufMap(cmd, at[1])[at[2]][2]]
    <3>1. Corr(cmd, g)
      BY <2>3 DEF BindInv
    <3>2. at \in Stages \X Slots /\ at[1] \in Stages /\ at[2] \in DOMAIN CbufMap(cmd, at[1])
      BY DEF InUse
    <3>3. cmd.cbufs[at] = CbufMap(cmd, at[1])[at[2]]
      BY <2>3, <3>1 DEF Corr, Slotted
    <3>4. CbufMap(cmd, at[1])[at[2]] \in UniformBuffers
      BY <2>3, <3>1, <3>2, ShaderMaps DEF Corr
    <3>5. QED
      BY <3>1, <3>2, <3>3, <3>4 DEF Corr, BuffersIn
  <2>4. QED
    BY <2>1, <2>2, <2>3 DEF ConstantBuffersCurrent
<1>3. ShadersCurrent
  BY DEF BindInv, Corr, ShadersIn, ShadersCurrent
<1>4. QED
  BY <1>1, <1>2, <1>3 DEF BindingsCurrent

(* A draw reads the shaders, vertex streams, constant buffers and push       *)
(* constants that the application bound (nvk_cmd_flush_gfx_state and         *)
(* nvk_meta_begin / nvk_meta_end), whatever internal draws, passes and       *)
(* secondary command buffers bound for themselves in between.                *)
THEOREM BindingsCorrect == Spec => []BindingsCurrent
<1>1. Init => EngineInv
  BY EngineInit
<1>2. EngineInv /\ [Next]_vars => EngineInv'
  BY EngineStep
<1>3. EngineInv => BindingsCurrent
  BY BindCurrent DEF EngineInv
<1>4. QED
  BY <1>1, <1>2, <1>3, PTL DEF Spec

(* The clears of a pass run outside the predicate of conditional rendering   *)
(* (nvk_CmdBeginRendering sets SET_RENDER_ENABLE_OVERRIDE around them), and  *)
(* nothing after them does.                                                  *)
THEOREM ClearsCorrect == Spec => ClearsUnconditional
<1>1. Init => EngineInv
  BY EngineInit
<1>2. EngineInv /\ [Next]_vars => EngineInv'
  BY EngineStep
<1>3. EngineInv /\ EngineInv' /\ BeginRendering /\ g'.when # {} =>
        g'.when = {"always"} /\ ~g'.override
  <2>1. SUFFICES ASSUME CmdInv, BindInv, BindInv', BeginRendering, g'.when # {}
                 PROVE  g'.when = {"always"} /\ ~g'.override
    BY DEF EngineInv
  <2>2. \A x \in g'.when : x = "always"
    BY <2>1, PassBind
  <2>3. g'.override = FALSE
    BY <2>1 DEF BindInv
  <2>4. QED
    BY <2>1, <2>2, <2>3
<1>4. QED
  BY <1>1, <1>2, <1>3, PTL DEF Spec, ClearsUnconditional

(* The copies of the linear image are the image and its shadow. *)
FreshInv == fresh \subseteq {"plane", "shadow"}

(* Every step keeps the copies those two. *)
LEMMA FreshStep ==
  ASSUME CmdInv, FreshInv, [Next]_vars
  PROVE  FreshInv'
<1>1. CASE UNCHANGED vars
  BY <1>1 DEF vars, FreshInv
<1>2. CASE Draws \/ Sets1
  BY <1>2, PassKept DEF FreshInv, Written, Copy
<1>3. CASE BeginCommandBuffer \/ EndCommandBuffer \/ EndSecondary
  BY <1>3, CommandBufferFacts DEF FreshInv
<1>4. CASE ExecuteSecondary
  BY <1>4, SecondaryFacts DEF FreshInv
<1>5. CASE BeginRendering
  <2>1. PICK p \in scenario.passes : fresh' = Loaded(p)
    BY <1>5, BeginFacts
  <2>2. QED
    BY <2>1 DEF FreshInv, Loaded, CopiedIn, Copy
<1>6. CASE EndRendering
  BY <1>6, EndFacts DEF FreshInv
<1>7. QED
  BY <1>1, <1>2, <1>3, <1>4, <1>5, <1>6 DEF Next, Draws, Sets1

(* What the invariants say of the types. *)
LEMMA InvTypes ==
  ASSUME CmdInv, BindInv, FeedInv, FreshInv
  PROVE  TypeOK
<1>1. Recording => /\ cmd.dirty \subseteq DynStates /\ cmd.set \subseteq DynStates
                   /\ cmd.cbufs_dirty \subseteq Stages \X Slots
                   /\ cmd.shaders_dirty \subseteq Stages /\ DOMAIN cmd.dyn = DynStates
  BY DEF BindInv, Corr, Typed
<1>2. outer # NoCmd => Recording /\ cmd.level = "secondary" /\ outer.level = "primary"
  BY DEF CmdInv
<1>3. {counters, g.xfb.pointer} \subseteq [XfbBuffers -> 0 .. MaxFeedback]
  BY DEF FeedInv, Pointers
<1>4. DOMAIN g.reg = Registers
  BY DEF BindInv, Basis, Rooted
<1>5. QED
  BY <1>1, <1>2, <1>3, <1>4 DEF TypeOK, FreshInv, CmdInv

(* The command buffer, the engine and the feedback counters have their       *)
(* types, and a secondary records only inside a primary.                     *)
THEOREM TypeCorrect == Spec => []TypeOK
<1>1. Init => EngineInv /\ FreshInv
  BY EngineInit DEF Init, FreshInv
<1>2. EngineInv /\ FreshInv /\ [Next]_vars => (EngineInv /\ FreshInv)'
  BY EngineStep, FreshStep DEF EngineInv
<1>3. EngineInv /\ FreshInv => TypeOK
  BY InvTypes DEF EngineInv
<1>4. QED
  BY <1>1, <1>2, <1>3, PTL DEF Spec

(***************************************************************************)
(* The state is current                                                    *)
(***************************************************************************)
(* The depth range is what the clean states ask for. *)
LEMMA DepthCurrent ==
  ASSUME ResetClip = INF, FixedCounts, BindInv
  PROVE  DepthRangeFollowsClamp
<1>1. Tuned(g) /\ (Recording => DynIn(cmd, g))
  BY DEF BindInv, Basis, Corr, StateCurrent
<1>2. g.z.clip = IF g.z.clamp THEN g.z.range ELSE [i \in Viewports |-> INF]
  BY <1>1 DEF Tuned, DepthTuned
<1>3. ASSUME Clean({"RS_DEPTH_CLAMP_ENABLE", "RS_DEPTH_CLIP_ENABLE"})
      PROVE  g.z.clamp = cmd.dyn["RS_DEPTH_CLAMP_ENABLE"]
  <2>1. Recording /\ CleanIn(cmd, {"RS_DEPTH_CLAMP_ENABLE"})
    BY <1>3 DEF Clean, CleanIn
  <2>2. QED
    BY <1>1, <2>1 DEF DynIn, DepthIn
<1>4. ASSUME Clean(ViewportStates), NEW i \in 1 .. cmd.dyn["VP_VIEWPORT_COUNT"]
      PROVE  g.z.range[i] = ClampRange(cmd, i)
  <2>1. Recording /\ CleanIn(cmd, ViewportStates)
    BY <1>4 DEF Clean, CleanIn
  <2>2. QED
    BY <1>1, <1>4, <2>1 DEF DynIn, DepthIn
<1>5. QED
  BY <1>2, <1>3, <1>4 DEF DepthRangeFollowsClamp

(* So are the primitives of the tessellator. *)
LEMMA TessellatorCurrent ==
  ASSUME BindInv
  PROVE  TessellationCurrent
<1>1. Tuned(g) /\ (Recording => DynIn(cmd, g))
  BY DEF BindInv, Basis, Corr, StateCurrent
<1>2. SUFFICES ASSUME Clean({"TS_DOMAIN_ORIGIN"}), cmd.shaders["tes"] # NULL,
                      "tes" \notin cmd.shaders_dirty,
                      NEW p, p = [domain     |-> Shader(cmd.shaders["tes"]).domain,
                                  prims      |-> Shader(cmd.shaders["tes"]).prims,
                                  lower_left |-> cmd.dyn["TS_DOMAIN_ORIGIN"] = "lower_left"]
               PROVE  g.tess.hw = TessHw(p)
  BY DEF TessellationCurrent
<1>3. Recording /\ CleanIn(cmd, {"TS_DOMAIN_ORIGIN"})
  BY <1>2 DEF Clean, CleanIn
<1>4. PICK q : q = g.tess.params
  OBVIOUS
<1>5. q.domain = p.domain /\ q.prims = p.prims /\ q.lower_left = p.lower_left
  <2>1. TessIn(cmd, q)
    BY <1>1, <1>3, <1>4 DEF DynIn
  <2>2. q.domain = Shader(cmd.shaders["tes"]).domain /\ q.prims = Shader(cmd.shaders["tes"]).prims
    BY <1>2, <2>1 DEF TessIn
  <2>3. q.lower_left = (cmd.dyn["TS_DOMAIN_ORIGIN"] = "lower_left")
    BY <1>3, <2>1 DEF TessIn
  <2>4. /\ p.domain = Shader(cmd.shaders["tes"]).domain
        /\ p.prims = Shader(cmd.shaders["tes"]).prims
        /\ p.lower_left = (cmd.dyn["TS_DOMAIN_ORIGIN"] = "lower_left")
    BY <1>2
  <2>5. QED
    BY <2>2, <2>3, <2>4
<1>6. TessHw(q) = TessHw(p)
  BY <1>5 DEF TessHw
<1>7. g.tess.hw = TessHw(q)
  BY <1>1, <1>4 DEF Tuned, TessTuned
<1>8. QED
  BY <1>6, <1>7

(* What viewports, clamping, tessellation shaders and origins leave in the   *)
(* engine is right in whichever order their commands come.  The hypotheses   *)
(* are those of the runs: the uninitialised clip range of a new channel is   *)
(* the whole line, and no viewport is uncovered by a count alone.            *)
THEOREM MacroStateCorrect ==
  ASSUME ResetClip = INF, FixedCounts
  PROVE  Spec => []MacroStateCurrent
<1>1. Init => EngineInv
  BY EngineInit
<1>2. EngineInv /\ [Next]_vars => EngineInv'
  BY EngineStep
<1>3. EngineInv => MacroStateCurrent
  BY DepthCurrent, TessellatorCurrent DEF EngineInv, MacroStateCurrent
<1>4. QED
  BY <1>1, <1>2, <1>3, PTL DEF Spec

(* The tessellator runs with the primitives of the bound shader and the      *)
(* origin, for any scenario: no hypothesis is needed.                        *)
THEOREM TessellationCorrect == Spec => []TessellationCurrent
<1>1. Init => EngineInv
  BY EngineInit
<1>2. EngineInv /\ [Next]_vars => EngineInv'
  BY EngineStep
<1>3. EngineInv => TessellationCurrent
  BY TessellatorCurrent DEF EngineInv
<1>4. QED
  BY <1>1, <1>2, <1>3, PTL DEF Spec

(* A state that is set and not dirty is in the engine, inside every pass:    *)
(* the nvk_flush_*_state functions skip nothing they should write.           *)
THEOREM CleanStateCorrect ==
  ASSUME FixedCounts
  PROVE  Spec => []CleanStateInEngine
<1>1. Init => EngineInv
  BY EngineInit
<1>2. EngineInv /\ [Next]_vars => EngineInv'
  BY EngineStep
<1>3. EngineInv => CleanStateInEngine
  <2>1. SUFFICES ASSUME EngineInv, Recording, cmd.render.in, NEW r \in DOMAIN Rows(cmd),
                        Clean(Rows(cmd)[r].on)
                 PROVE  g.reg[r] = Rows(cmd)[r].val
    BY DEF CleanStateInEngine
  <2>2. RowsIn(cmd, g.reg)
    BY <2>1 DEF EngineInv, BindInv, Corr, StateCurrent, DynIn
  <2>3. Settled(cmd, Rows(cmd)[r].on)
    BY <2>1 DEF Clean, Settled
  <2>4. QED
    BY <2>1, <2>2, <2>3 DEF RowsIn
<1>4. QED
  BY <1>1, <1>2, <1>3, PTL DEF Spec

(* The samples of the pass are those the engine shades with. *)
LEMMA ShadingCurrent ==
  ASSUME NothingInherited, BindInv
  PROVE  SampleShadingCurrent
<1>1. SUFFICES ASSUME Clean({"MS_RASTERIZATION_SAMPLES"}), cmd.render.in,
                      "fs" \notin cmd.shaders_dirty, cmd.shaders["fs"] # NULL,
                      NEW n, n = ExpectedSamples,
                      NEW want, want = [rcp |-> Shader(cmd.shaders["fs"]).rcp, samples |-> Log2(n)]
               PROVE  /\ g.aa.mode = SampleLayout(n) /\ g.aa.passes = 2^PassesLog2(want)
                      /\ Divides(g.cb0.sample_masks, n, g.aa.passes)
  BY DEF SampleShadingCurrent, Divides
<1>2. Recording /\ CleanIn(cmd, {"MS_RASTERIZATION_SAMPLES"})
  BY <1>1 DEF Clean, CleanIn
<1>3. PICK aa, masks : aa = g.aa /\ masks = g.cb0.sample_masks
  OBVIOUS
<1>4. /\ Typed(cmd) /\ SamplingTuned(aa, masks) /\ PassIn(cmd.render, g) /\ SamplesIn(cmd, aa.params)
  BY <1>2, <1>3 DEF BindInv, Corr, StateCurrent, Tuned, DynIn
<1>5. n \in SampleCounts /\ aa.params.samples = Log2(n)
  <2>1. CASE cmd.render.samples = 0
    <3>1. n = SampleCount(cmd)
      BY <1>1, <2>1 DEF ExpectedSamples
    <3>2. n \in SampleCounts
      BY <1>4, <3>1 DEF SampleCount, Typed, SamplesNamed, SampleCounts
    <3>3. QED
      BY <1>1, <1>2, <1>4, <2>1, <3>1, <3>2 DEF SamplesIn
  <2>2. CASE cmd.render.samples # 0
    <3>1. n = cmd.render.samples
      BY <1>1, <2>2 DEF ExpectedSamples
    <3>2. n \in SampleCounts
      BY <1>4, <2>2, <3>1 DEF Typed, SamplesNamed
    <3>3. QED
      BY <1>1, <1>3, <1>4, <2>2, <3>1, <3>2 DEF PassIn
  <2>3. QED
    BY <2>1, <2>2
<1>6. LaidOut(aa, n)
  <2>1. PICK m \in SampleCounts : LaidOut(aa, m)
    BY <1>4 DEF SamplingTuned
  <2>2. Log2(m) = Log2(n)
    BY <1>5, <2>1 DEF LaidOut
  <2>3. m = n
    BY <1>5, <2>2, LogFacts
  <2>4. QED
    BY <2>1, <2>3
<1>7. aa.params.rcp \in Rates \ {15} /\ aa.params.rcp = want.rcp
  <2>1. PICK fs : fs = cmd.shaders["fs"]
    OBVIOUS
  <2>2. fs \in FsNames \ {NULL}
    BY <1>1, <1>4, <2>1 DEF Typed
  <2>3. Shader(fs).rcp \in {0, 1, 4}
    BY <2>2 DEF FsNames, Shader
  <2>4. aa.params.rcp = Shader(fs).rcp
    BY <1>1, <1>4, <2>1 DEF SamplesIn
  <2>5. want.rcp = Shader(fs).rcp
    BY <1>1, <2>1
  <2>6. QED
    BY <2>3, <2>4, <2>5 DEF Rates
<1>8. PassesLog2(want) = PassesLog2(aa.params)
  <2>1. want.samples = aa.params.samples
    BY <1>1, <1>5
  <2>2. QED
    BY <1>7, <2>1 DEF PassesLog2
<1>9. aa.passes = 2^PassesLog2(aa.params) /\ masks = Masks(aa.params, aa.two, aa.four)
  BY <1>4, <1>7 DEF SamplingTuned
<1>10. Divides(masks, n, aa.passes)
  BY <1>5, <1>6, <1>7, <1>9, MasksDivide
<1>11. aa.mode = SampleLayout(n)
  BY <1>6 DEF LaidOut
<1>12. QED
  BY <1>3, <1>8, <1>9, <1>10, <1>11

(* Fragments are shaded as often as their shader asks for, with the samples  *)
(* of the pass and masks that divide them between the passes, whatever      *)
(* passes, internal draws and secondaries set in between.  The hypothesis    *)
(* is needed: samples that a secondary names for a pass without attachments *)
(* reach no macro.                                                          *)
THEOREM SampleShadingCorrect ==
  ASSUME NothingInherited
  PROVE  Spec => []SampleShadingCurrent
<1>1. Init => EngineInv
  BY EngineInit
<1>2. EngineInv /\ [Next]_vars => EngineInv'
  BY EngineStep
<1>3. EngineInv => SampleShadingCurrent
  BY ShadingCurrent DEF EngineInv
<1>4. QED
  BY <1>1, <1>2, <1>3, PTL DEF Spec

(* The targets of the pass have their masks, and the rest are null. *)
LEMMA WritesCurrent ==
  ASSUME FewTargets, BindInv
  PROVE  NoStrayColorWrite
<1>1. SUFFICES ASSUME Recording, cmd.render.in, Clean(MaskStates),
                      NEW map, map = cmd.dyn["COLOR_ATTACHMENT_MAP"],
                      NEW select, select = g.reg[<<"CT_SELECT", 0>>]
               PROVE  /\ \A l \in 0 .. select.count - 1 :
                           \/ map[select.target[l]] = l
                           \/ g.target[select.target[l]] = NULL
                           \/ ~g.single /\ g.write[select.target[l]] = 0
                      /\ \A a \in Targets : map[a] # Unused =>
                           map[a] < select.count /\ select.target[map[a]] = a
                      /\ g.single => \A a \in 0 .. cmd.render.count - 1 : g.write[a] = WriteMask(cmd, a)
  <2>1. MaskStates = {"COLOR_ATTACHMENT_MAP", "CB_WRITE_MASKS", "CB_COLOR_WRITE_ENABLES",
                      "RP_ATTACHMENTS"}
    BY DEF MaskStates
  <2>2. QED
    BY <1>1, <2>1 DEF NoStrayColorWrite
<1>2. CleanIn(cmd, MaskStates) /\ CleanIn(cmd, {"COLOR_ATTACHMENT_MAP"})
  BY <1>1 DEF Clean, CleanIn, MaskStates
<1>3. Typed(cmd) /\ PassIn(cmd.render, g) /\ ColorIn(cmd, g)
  BY <1>1 DEF BindInv, Corr, StateCurrent, DynIn
<1>4. map \in LocationMaps /\ cmd.render.count \in Nat /\ Targets = 0 .. NumTargets - 1 /\ NumTargets \in Nat
  BY <1>1, <1>3, MmeAssumption DEF Typed, Targets
<1>5. MasksIn(cmd, g) /\ select = CtSelect(map)
  BY <1>1, <1>2, <1>3 DEF ColorIn
<1>6. /\ select.count \in 1 .. NumTargets
      /\ \A l \in Targets : select.target[l] \in Targets /\ map[select.target[l]] \in {l, Unused}
      /\ \A a \in Targets : map[a] # Unused => map[a] < select.count /\ select.target[map[a]] = a
  BY <1>4, <1>5, SelectFacts
<1>7. ASSUME NEW l \in 0 .. select.count - 1
      PROVE  \/ map[select.target[l]] = l
             \/ g.target[select.target[l]] = NULL
             \/ ~g.single /\ g.write[select.target[l]] = 0
  <2>1. PICK a : a = select.target[l]
    OBVIOUS
  <2>2. a \in Targets /\ map[a] \in {l, Unused}
    BY <1>4, <1>6, <2>1
  <2>3. CASE map[a] = l
    BY <2>1, <2>3
  <2>4. CASE map[a] = Unused /\ a < cmd.render.count
    <3>1. a \in 0 .. cmd.render.count - 1
      BY <1>4, <2>2, <2>4
    <3>2. g.write[a] = WriteMask(cmd, a) /\ ~g.single
      BY <1>5, <3>1 DEF MasksIn
    <3>3. WriteMask(cmd, a) = 0
      BY <1>1, <2>4 DEF WriteMask
    <3>4. QED
      BY <2>1, <3>2, <3>3
  <2>5. CASE ~(a < cmd.render.count)
    BY <1>1, <1>3, <2>1, <2>2, <2>5 DEF PassIn
  <2>6. QED
    BY <2>2, <2>3, <2>4, <2>5
<1>8. QED
  BY <1>5, <1>6, <1>7 DEF MasksIn

(* No fragment output reaches a target it is not mapped to, whatever passes, *)
(* location maps, masks, internal draws and secondaries the application      *)
(* records in whichever order.  The engine has eight targets (NVK_MAX_RTS),  *)
(* which is what the masks packed into one word have room for.              *)
THEOREM NoStrayColorCorrect ==
  ASSUME FewTargets
  PROVE  Spec => []NoStrayColorWrite
<1>1. Init => EngineInv
  BY EngineInit
<1>2. EngineInv /\ [Next]_vars => EngineInv'
  BY EngineStep
<1>3. EngineInv => NoStrayColorWrite
  BY WritesCurrent DEF EngineInv
<1>4. QED
  BY <1>1, <1>2, <1>3, PTL DEF Spec

==============================================================================
