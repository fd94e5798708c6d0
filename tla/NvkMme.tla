-------------------------------- MODULE NvkMme --------------------------------
(***************************************************************************)
(* The MME macros of nvk_cmd_draw.c, as functions on the state of the 3D   *)
(* engine, for the class the Switch has (Maxwell B).                       *)
(*                                                                         *)
(* A macro runs on the GPU, in the order of the push buffers.  Several     *)
(* keep a copy of their argument in a scratch register and write the       *)
(* engine's register only when the copy changes, or combine an argument    *)
(* with what another macro left in the scratch.                            *)
(*                                                                         *)
(* g is the engine: its registers, the scratch of the macros, and the      *)
(* contents of CB0, the constant buffer of the root table, which the       *)
(* macros write through whatever buffer is selected.                       *)
(***************************************************************************)
EXTENDS Integers, Sequences, FiniteSets

CONSTANT NumViewports  \* NVK_MAX_VIEWPORTS
CONSTANT NumTargets    \* NVK_MAX_RTS
CONSTANT NumStreams    \* vertex streams
CONSTANT NumViews      \* bits of a view mask

NumSamples == 8        \* NVK_MAX_SAMPLES

ASSUME MmeAssumption ==
  {NumViewports, NumTargets, NumStreams, NumViews} \subseteq Nat \ {0}

Viewports == 1 .. NumViewports
Targets   == 0 .. NumTargets - 1
Streams   == 0 .. NumStreams - 1
Samples   == 0 .. NumSamples - 1
XfbBuffers == 0 .. 1   \* of the engine's four

CB0 == "cb0"
INF == "infinite"   \* the clip range -INFINITY .. INFINITY

(* The part of a packed register that "part" names is replaced. *)
SetMasked(old, part) ==
  [f \in DOMAIN old |-> IF f \in DOMAIN part THEN part[f] ELSE old[f]]

(* A word written into the selected constant buffer; only CB0 may be it. *)
LoadConstant(g, field, v) ==
  IF g.selector = CB0 THEN [g EXCEPT !.cb0[field] = v]
                      ELSE [g EXCEPT !.stray = TRUE]

SelectCb0(g) == [g EXCEPT !.selector = CB0]

(***************************************************************************)
(* Macros that shadow a packed register                                    *)
(***************************************************************************)
SetConservativeRaster(g, new) ==
  IF g.conservative.scratch = new THEN g
  ELSE [g EXCEPT !.conservative = [scratch |-> new, hw |-> new]]

(* A lower left origin turns the triangles round. *)
TessHw(p) ==
  [domain |-> p.domain,
   prims  |-> CASE p.lower_left /\ p.prims = "cw"  -> "ccw"
                [] p.lower_left /\ p.prims = "ccw" -> "cw"
                [] OTHER -> p.prims]

SetTessParams(g, part) ==
  LET params == SetMasked(g.tess.params, part)
  IN IF params = g.tess.params THEN g
     ELSE [g EXCEPT !.tess = [params |-> params, hw |-> TessHw(params)]]

(* SET_VIEWPORT_CLIP_MIN/MAX_Z holds the range of a viewport only while     *)
(* depth is clamped; the scratch always does.                               *)
SetViewportMinMaxZ(g, vp, range) ==
  [g EXCEPT !.z.range[vp] = range,
            !.z.clip[vp]  = IF g.z.clamp THEN range ELSE @]

(* Mutant: clamping does not bring the range back. *)
SetZClampOff(g, clamp) ==
  [g EXCEPT !.z.clamp = clamp,
            !.z.clip  = IF clamp THEN @ ELSE [vp \in Viewports |-> INF]]

SetZClamp(g, clamp) ==
  IF clamp = g.z.clamp THEN g
  ELSE [g EXCEPT !.z.clamp = clamp,
                 !.z.clip  = IF clamp THEN g.z.range ELSE [vp \in Viewports |-> INF]]

(***************************************************************************)
(* Anti-aliasing: rcp is the log2 of 1 / minSampleShading, samples the     *)
(* log2 of the sample count.                                               *)
(***************************************************************************)
AntiAliasInit == [rcp |-> 15, samples |-> 0]

(* The samples of the pass that each sample belongs to, for the layouts     *)
(* with more than one sample a pass and more than one pass.                 *)
EachAlone == [s \in Samples |-> {s}]
NoMasks   == [s \in Samples |-> {}]
Groups(parts) == [s \in Samples |-> UNION {p \in parts : s \in p}]

TwoPassMasks(layout) ==
  CASE layout = "2x2"     -> [s \in Samples |-> IF s >= 4 THEN {} ELSE
                                IF s % 2 = 0 THEN {0, 2} ELSE {1, 3}]
    [] layout = "4x2"     -> Groups({{0, 1, 2, 3}, {4, 5, 6, 7}})
    [] layout = "4x2_d3d" -> Groups({{0, 2, 6, 7}, {1, 3, 4, 5}})
    [] OTHER -> NoMasks

FourPassMasks(layout) ==
  CASE layout = "4x2"     -> Groups({{0, 1}, {2, 3}, {4, 5}, {6, 7}})
    [] layout = "4x2_d3d" -> Groups({{0, 7}, {1, 4}, {2, 6}, {3, 5}})
    [] OTHER -> NoMasks

PassesLog2(p) == IF p.samples > p.rcp THEN p.samples - p.rcp ELSE 0

(* The masks are read from the scratch at the time the macro runs. *)
SetAntiAlias(g, part) ==
  LET params == SetMasked(g.aa.params, part)
      passes == PassesLog2(params)
      masks  == CASE params.samples = passes -> EachAlone
                  [] params.samples # passes /\ passes = 0 -> [s \in Samples |-> Samples]
                  [] params.samples # passes /\ passes = 1 -> g.aa.two
                  [] params.samples # passes /\ passes = 2 -> g.aa.four
      g1     == [g EXCEPT !.aa.params = params, !.aa.passes = 2^passes]
  IN IF params = g.aa.params THEN g
     ELSE LoadConstant(g1, "sample_masks", masks)

(***************************************************************************)
(* Colour writes, vertex and index buffers                                 *)
(***************************************************************************)
(* mask has four bits a target.  The test for a mask common to all targets  *)
(* adds where it means to extract.                                          *)
SetWriteMask(g, count, mask) ==
  LET shifted(i) == mask \div 16^i
  IN [g EXCEPT !.write  = [t \in Targets |-> IF t < count THEN shifted(t) % 16 ELSE @[t]],
               !.single = \A i \in 0 .. count - 1 : mask % 16 = shifted(i) + 15]

SetVbEnables(g, enables) ==
  [g EXCEPT !.vb.enables = enables,
            !.vb.format  = [s \in Streams |->
               IF (s \in enables) # (s \in g.vb.enables)
               THEN [@[s] EXCEPT !.enable = s \in enables] ELSE @[s]]]

SetVbStride(g, s, stride) == [g EXCEPT !.vb.format[s].stride = stride]

(* Ranges are [addr, size]; an empty one is the zero page, with nothing in  *)
(* it to read.                                                              *)
ZeroPage == "zero_page"
Bindable(r) == IF r.addr = 0 \/ r.size = 0 THEN [addr |-> ZeroPage, size |-> 0] ELSE r

BindVb(g, s, r) == [g EXCEPT !.vb.range[s] = Bindable(r)]

IndexSize(type) == CASE type = "uint8" -> 1 [] type = "uint16" -> 2 [] OTHER -> 4
BindIb(g, r, type) ==
  [g EXCEPT !.ib = [range |-> Bindable(r), size |-> IndexSize(type),
                    restart_bits |-> 8 * IndexSize(type)]]

(* bind gives the buffer of each <<group, slot>> bound; one of no size is    *)
(* made invalid without being selected.                                     *)
NoBuffer == "no_buffer"
BindCbufDesc(g, bind) ==
  [g EXCEPT !.cbuf     = [at \in DOMAIN @ |-> IF at \in DOMAIN bind THEN bind[at] ELSE @[at]],
            !.selector = IF \E at \in DOMAIN bind : bind[at] # NoBuffer THEN "ubo" ELSE @]

(***************************************************************************)
(* Draws.  A draw is [start, count, instances, first_vertex, base_vertex,   *)
(* first_instance]; what it draws is the sequence of what each BEGIN sees.  *)
(***************************************************************************)
(* Mutant: the first draw leaves the index as it is. *)
SetDrawParamsLater(g, d, index) ==
  LET g1 == LoadConstant(LoadConstant(g, "first_vertex", d.first_vertex),
                         "first_instance", d.first_instance)
      g2 == IF index = 0 THEN g1 ELSE LoadConstant(g1, "draw_index", index)
  IN [LoadConstant(g2, "view_index", 0) EXCEPT !.vertex_id_base = d.base_vertex]

SetDrawParams(g, d, index) ==
  LET g1 == LoadConstant(g,  "first_vertex", d.first_vertex)
      g2 == LoadConstant(g1, "first_instance", d.first_instance)
      g3 == LoadConstant(g2, "draw_index", index)
      g4 == LoadConstant(g3, "view_index", 0)
  IN [g4 EXCEPT !.vertex_id_base = d.base_vertex]

EmitViewIndex(g, view) == [LoadConstant(g, "view_index", view) EXCEPT !.layer = view]

Drawn(d, nth, first_vertex, base_vertex, instance, index, view) ==
  [start |-> d.start, count |-> d.count, nth |-> nth, first_vertex |-> first_vertex,
   base_vertex |-> base_vertex, instance |-> instance, index |-> index, view |-> view]

(* An instance after the first does not start the instance numbers again. *)
DrawLoop(g, d) ==
  LET cb0 == g.cb0
      seen(n) == Drawn(d, n, cb0.first_vertex, g.vertex_id_base, cb0.first_instance,
                       cb0.draw_index, cb0.view_index)
  IN [g EXCEPT !.drawn  = @ \o [n \in 1 .. d.instances |-> seen(n)],
               !.layers = @ \o [n \in 1 .. d.instances |-> g.layer],
               !.when   = @ \cup {IF g.override THEN "always" ELSE g.predicate}]

(* One pass over the views a mask can have; draw[v] is the engine after the *)
(* views below v.                                                           *)
BuildDraw(g, d, index) ==
  LET g1 == SetDrawParams(g, d, index)
      draw[v \in 0 .. NumViews] ==
        IF v = 0 THEN g1
        ELSE IF v - 1 \in g1.view_mask
             THEN DrawLoop(EmitViewIndex(draw[v - 1], v - 1), d)
             ELSE draw[v - 1]
  IN IF g1.view_mask = {} THEN DrawLoop(g1, d) ELSE draw[NumViews]

(* The draws of one call, or of one push of an indirect one, numbered from 0. *)
DrawAll(g, draws) ==
  LET run[n \in 0 .. Len(draws)] ==
        IF n = 0 THEN g ELSE BuildDraw(run[n - 1], draws[n], n - 1)
  IN run[Len(draws)]

(* Dword 8 b of the array is the write pointer of buffer b. *)
XfbCounterLoad(g, dword, counter) ==
  [g EXCEPT !.xfb.pointer = [b \in XfbBuffers |-> IF dword = 8 * b THEN counter ELSE @[b]]]
==============================================================================
