-------------------------- MODULE NvkGfxStateProofs --------------------------
(***************************************************************************)
(* Lemmas about NvkGfxState and NvkMme: which registers the rows of the     *)
(* graphics state give, what each macro leaves alone, that flushing the     *)
(* dirty states leaves every clean state in the engine, that the masks of a *)
(* sample layout divide its samples between the passes, and that each color *)
(* target has the mask and the location the state gives it.                 *)
(***************************************************************************)
EXTENDS NvkCmdDraw, FiniteSetTheorems, TLAPS

(***************************************************************************)
(* Rows                                                                    *)
(***************************************************************************)
(* The states that a pass makes dirty, for what is written depends on it.    *)
PassStates == {
  "CB_COLOR_WRITE_ENABLES", "CB_BLEND_ENABLES", "CB_BLEND_EQUATIONS", "CB_WRITE_MASKS",
  "DS_DEPTH_TEST_ENABLE", "DS_DEPTH_WRITE_ENABLE", "DS_DEPTH_BOUNDS_TEST_ENABLE",
  "DS_STENCIL_TEST_ENABLE", "MS_RASTERIZATION_SAMPLES", "COLOR_ATTACHMENT_MAP",
  "RS_DEPTH_CLAMP_ENABLE", "RS_DEPTH_CLIP_ENABLE"}
Counts == {"VP_VIEWPORT_COUNT", "VP_SCISSOR_COUNT"}

(* The states are clean, and what they give depends on no pass or on this.   *)
Settled(d, on) == on \subseteq d.set \ d.dirty /\ (d.render.in \/ on \cap PassStates = {})

(* What is clean in d is clean in c, with the values it has there.           *)
Carries(c, d) ==
  /\ \A s \in d.set \ d.dirty : s \in c.set \ c.dirty /\ d.dyn[s] = c.dyn[s]
  /\ d.set \subseteq d.dirty \/ \A s \in Counts : d.dyn[s] = c.dyn[s]
  /\ d.render = c.render \/ ~d.render.in \/ PassStates \cap d.set \subseteq d.dirty

(* The values that a row takes its registers from. *)
Bounded(c) ==
  /\ c.dyn["VI_BINDINGS_VALID"] \subseteq Streams
  /\ c.dyn["VP_VIEWPORT_COUNT"] \in 1 .. NumViewports
  /\ c.render.count \in 0 .. NumTargets

(* P and Q are rows of c and d in the registers R: a row that is settled in  *)
(* d is the same in c.                                                      *)
Local(P, Q, d, R) ==
  /\ DOMAIN P \subseteq R /\ DOMAIN Q \subseteq R
  /\ \A r \in DOMAIN Q : /\ Q[r].on # {}
                         /\ Settled(d, Q[r].on) => r \in DOMAIN P /\ P[r] = Q[r]

(* Rows of different registers together. *)
LEMMA LocalMerge ==
  ASSUME NEW n \in Nat, NEW P, NEW Q, NEW N, NEW d, DOMAIN P = 1 .. n, DOMAIN Q = 1 .. n,
         \A i \in 1 .. n : Local(P[i], Q[i], d, N[i]),
         \A i, j \in 1 .. n : \A r \in N[i] : r \in N[j] => i = j
  PROVE  Local(Merge(P), Merge(Q), d, UNION {N[i] : i \in 1 .. n})
<1> DEFINE at(parts, r) == CHOOSE i \in DOMAIN parts : r \in DOMAIN parts[i]
<1>1. ASSUME NEW parts
      PROVE  /\ DOMAIN Merge(parts) = UNION {DOMAIN parts[i] : i \in DOMAIN parts}
             /\ \A r \in DOMAIN Merge(parts) :
                  /\ at(parts, r) \in DOMAIN parts /\ r \in DOMAIN parts[at(parts, r)]
                  /\ Merge(parts)[r] = parts[at(parts, r)][r]
  BY DEF Merge
<1> HIDE DEF at
<1> DEFINE R == UNION {N[i] : i \in 1 .. n}
<1>2. DOMAIN Merge(P) \subseteq R
  <2>1. SUFFICES ASSUME NEW r \in DOMAIN Merge(P) PROVE r \in R
    OBVIOUS
  <2>2. PICK i \in 1 .. n : r \in DOMAIN P[i]
    BY <1>1
  <2>3. r \in N[i]
    BY <2>2 DEF Local
  <2>4. QED
    BY <2>3
<1>3. DOMAIN Merge(Q) \subseteq R
  <2>1. SUFFICES ASSUME NEW r \in DOMAIN Merge(Q) PROVE r \in R
    OBVIOUS
  <2>2. PICK i \in 1 .. n : r \in DOMAIN Q[i]
    BY <1>1
  <2>3. r \in N[i]
    BY <2>2 DEF Local
  <2>4. QED
    BY <2>3
<1>4. ASSUME NEW r \in DOMAIN Merge(Q)
      PROVE  /\ Merge(Q)[r].on # {}
             /\ Settled(d, Merge(Q)[r].on) => r \in DOMAIN Merge(P) /\ Merge(P)[r] = Merge(Q)[r]
  <2>1. PICK i \in 1 .. n : r \in DOMAIN Q[i] /\ Merge(Q)[r] = Q[i][r]
    BY <1>1, <1>4
  <2>2. Local(P[i], Q[i], d, N[i])
    OBVIOUS
  <2>3. ASSUME Settled(d, Merge(Q)[r].on) PROVE r \in DOMAIN Merge(P) /\ Merge(P)[r] = Merge(Q)[r]
    <3>1. r \in DOMAIN P[i] /\ P[i][r] = Q[i][r]
      BY <2>1, <2>2, <2>3 DEF Local
    <3>2. r \in DOMAIN Merge(P)
      <4>1. r \in UNION {DOMAIN P[j] : j \in DOMAIN P}
        BY <3>1
      <4>2. QED
        BY <1>1, <4>1
    <3>3. at(P, r) \in 1 .. n /\ r \in DOMAIN P[at(P, r)] /\ Merge(P)[r] = P[at(P, r)][r]
      BY <1>1, <3>2
    <3>4. r \in N[i] /\ r \in N[at(P, r)]
      BY <2>2, <3>1, <3>3 DEF Local
    <3>5. at(P, r) = i
      BY <3>3, <3>4
    <3>6. QED
      BY <2>1, <3>1, <3>2, <3>3, <3>5
  <2>4. QED
    BY <2>1, <2>2, <2>3 DEF Local
<1>5. QED
  BY <1>2, <1>3, <1>4 DEF Local

(* A single register. *)
LEMMA LocalRow ==
  ASSUME NEW d, NEW reg, NEW on, on # {}, NEW v, NEW w, Settled(d, on) => v = w
  PROVE  Local(Row(reg, on, v), Row(reg, on, w), d, {<<reg, 0>>})
BY DEF Local, Row

(* The states written as they are. *)
LEMMA LocalPlain ==
  ASSUME NEW c, NEW d, Carries(c, d), NEW states
  PROVE  Local(PlainRows(c, states), PlainRows(d, states), d, states \X {0})
<1> DEFINE P == PlainRows(c, states)
           Q == PlainRows(d, states)
<1>1. DOMAIN P = states \X {0} /\ DOMAIN Q = states \X {0}
  BY DEF PlainRows
<1>2. ASSUME NEW r \in states \X {0}
      PROVE  Q[r].on # {} /\ (Settled(d, Q[r].on) => P[r] = Q[r])
  <2>1. /\ P[r] = [on |-> {r[1]}, val |-> c.dyn[r[1]]]
        /\ Q[r] = [on |-> {r[1]}, val |-> d.dyn[r[1]]]
    BY DEF PlainRows
  <2>2. Settled(d, {r[1]}) => d.dyn[r[1]] = c.dyn[r[1]]
    BY DEF Carries, Settled
  <2>3. QED
    BY <2>1, <2>2
<1>3. QED
  BY <1>1, <1>2 DEF Local

(* Two groups of rows. *)
LEMMA LocalTwo ==
  ASSUME NEW d, NEW P1, NEW Q1, NEW R1, NEW P2, NEW Q2, NEW R2,
         Local(P1, Q1, d, R1), Local(P2, Q2, d, R2),
         R1 \cap R2 = {}
  PROVE  Local(Merge(<<P1, P2>>), Merge(<<Q1, Q2>>), d, R1 \cup R2)
<1>1. PICK P, Q, N, n : n = 2 /\ P = <<P1, P2>> /\ Q = <<Q1, Q2>> /\ N = <<R1, R2>>
  OBVIOUS
<1>2. n \in Nat /\ DOMAIN P = 1 .. n /\ DOMAIN Q = 1 .. n
  BY <1>1
<1>3. \A i \in 1 .. n : Local(P[i], Q[i], d, N[i])
  BY <1>1
<1>4. \A i, j \in 1 .. n : \A r \in N[i] : r \in N[j] => i = j
  BY <1>1
<1>5. Local(Merge(P), Merge(Q), d, UNION {N[i] : i \in 1 .. n})
  BY <1>2, <1>3, <1>4, LocalMerge
<1>6. UNION {N[i] : i \in 1 .. n} = R1 \cup R2
  BY <1>1
<1>7. QED
  BY <1>1, <1>5, <1>6

(* Three groups of rows. *)
LEMMA LocalThree ==
  ASSUME NEW d, NEW P1, NEW Q1, NEW R1, NEW P2, NEW Q2, NEW R2, NEW P3, NEW Q3, NEW R3,
         Local(P1, Q1, d, R1), Local(P2, Q2, d, R2), Local(P3, Q3, d, R3),
         R1 \cap R2 = {}, R1 \cap R3 = {}, R2 \cap R3 = {}
  PROVE  Local(Merge(<<P1, P2, P3>>), Merge(<<Q1, Q2, Q3>>), d, R1 \cup R2 \cup R3)
<1>1. PICK P, Q, N, n : n = 3 /\ P = <<P1, P2, P3>> /\ Q = <<Q1, Q2, Q3>> /\ N = <<R1, R2, R3>>
  OBVIOUS
<1>2. n \in Nat /\ DOMAIN P = 1 .. n /\ DOMAIN Q = 1 .. n
  BY <1>1
<1>3. \A i \in 1 .. n : Local(P[i], Q[i], d, N[i])
  BY <1>1
<1>4. \A i, j \in 1 .. n : \A r \in N[i] : r \in N[j] => i = j
  BY <1>1
<1>5. Local(Merge(P), Merge(Q), d, UNION {N[i] : i \in 1 .. n})
  BY <1>2, <1>3, <1>4, LocalMerge
<1>6. UNION {N[i] : i \in 1 .. n} = R1 \cup R2 \cup R3
  BY <1>1
<1>7. QED
  BY <1>1, <1>5, <1>6

(* Four groups of rows. *)
LEMMA LocalFour ==
  ASSUME NEW d, NEW P1, NEW Q1, NEW R1, NEW P2, NEW Q2, NEW R2, NEW P3, NEW Q3, NEW R3,
         NEW P4, NEW Q4, NEW R4,
         Local(P1, Q1, d, R1), Local(P2, Q2, d, R2), Local(P3, Q3, d, R3), Local(P4, Q4, d, R4),
         R1 \cap R2 = {}, R1 \cap R3 = {}, R1 \cap R4 = {}, R2 \cap R3 = {}, R2 \cap R4 = {},
         R3 \cap R4 = {}
  PROVE  Local(Merge(<<P1, P2, P3, P4>>), Merge(<<Q1, Q2, Q3, Q4>>), d, R1 \cup R2 \cup R3 \cup R4)
<1>1. PICK P, Q, N, n : n = 4 /\ P = <<P1, P2, P3, P4>> /\ Q = <<Q1, Q2, Q3, Q4>> /\ N = <<R1, R2, R3, R4>>
  OBVIOUS
<1>2. n \in Nat /\ DOMAIN P = 1 .. n /\ DOMAIN Q = 1 .. n
  BY <1>1
<1>3. \A i \in 1 .. n : Local(P[i], Q[i], d, N[i])
  BY <1>1
<1>4. \A i, j \in 1 .. n : \A r \in N[i] : r \in N[j] => i = j
  BY <1>1
<1>5. Local(Merge(P), Merge(Q), d, UNION {N[i] : i \in 1 .. n})
  BY <1>2, <1>3, <1>4, LocalMerge
<1>6. UNION {N[i] : i \in 1 .. n} = R1 \cup R2 \cup R3 \cup R4
  BY <1>1
<1>7. QED
  BY <1>1, <1>5, <1>6

(* Five groups of rows. *)
LEMMA LocalFive ==
  ASSUME NEW d, NEW P1, NEW Q1, NEW R1, NEW P2, NEW Q2, NEW R2, NEW P3, NEW Q3, NEW R3,
         NEW P4, NEW Q4, NEW R4, NEW P5, NEW Q5, NEW R5,
         Local(P1, Q1, d, R1), Local(P2, Q2, d, R2), Local(P3, Q3, d, R3),
         Local(P4, Q4, d, R4), Local(P5, Q5, d, R5),
         R1 \cap R2 = {}, R1 \cap R3 = {}, R1 \cap R4 = {}, R1 \cap R5 = {}, R2 \cap R3 = {},
         R2 \cap R4 = {}, R2 \cap R5 = {}, R3 \cap R4 = {}, R3 \cap R5 = {}, R4 \cap R5 = {}
  PROVE  Local(Merge(<<P1, P2, P3, P4, P5>>), Merge(<<Q1, Q2, Q3, Q4, Q5>>), d,
               R1 \cup R2 \cup R3 \cup R4 \cup R5)
<1>1. PICK P, Q, N, n : /\ n = 5 /\ P = <<P1, P2, P3, P4, P5>> /\ Q = <<Q1, Q2, Q3, Q4, Q5>>
                        /\ N = <<R1, R2, R3, R4, R5>>
  OBVIOUS
<1>2. n \in Nat /\ DOMAIN P = 1 .. n /\ DOMAIN Q = 1 .. n
  BY <1>1
<1>3. \A i \in 1 .. n : Local(P[i], Q[i], d, N[i])
  BY <1>1
<1>4. \A i, j \in 1 .. n : \A r \in N[i] : r \in N[j] => i = j
  BY <1>1
<1>5. Local(Merge(P), Merge(Q), d, UNION {N[i] : i \in 1 .. n})
  BY <1>2, <1>3, <1>4, LocalMerge
<1>6. UNION {N[i] : i \in 1 .. n} = R1 \cup R2 \cup R3 \cup R4 \cup R5
  BY <1>1
<1>7. QED
  BY <1>1, <1>5, <1>6

(* Settled states carry their values, and the counts and the pass they use.  *)
LEMMA SettledFacts ==
  ASSUME NEW c, NEW d, Carries(c, d), NEW on, on # {}, Settled(d, on)
  PROVE  /\ \A s \in on : d.dyn[s] = c.dyn[s]
         /\ \A s \in Counts : d.dyn[s] = c.dyn[s]
         /\ on \cap PassStates # {} => d.render = c.render
BY DEF Carries, Settled

(* Any registers that include those of the rows. *)
LEMMA LocalMore ==
  ASSUME NEW P, NEW Q, NEW d, NEW R, NEW S, Local(P, Q, d, R), R \subseteq S
  PROVE  Local(P, Q, d, S)
BY DEF Local

(* The vertex attributes. *)
ViRegisters == {<<"VERTEX_ATTRIBUTE_A", 0>>} \cup {"VERTEX_STREAM_FREQUENCY"} \X Streams

(* The rows of the vertex attributes are local. *)
LEMMA LocalVi ==
  ASSUME NEW c, NEW d, Carries(c, d), Bounded(c), Bounded(d)
  PROVE  Local(ViRows(c), ViRows(d), d, ViRegisters)
<1> DEFINE on == {"VI", "VI_BINDINGS_VALID"}
           freq(e) == [r \in {"VERTEX_STREAM_FREQUENCY"} \X e.dyn["VI_BINDINGS_VALID"] |->
                        [on |-> on, val |-> e.dyn["VI"]]]
<1>1. \A e : ViRows(e) = Merge(<<Row("VERTEX_ATTRIBUTE_A", on, e.dyn["VI"]), freq(e)>>)
  BY DEF ViRows
<1>2. Settled(d, on) => /\ d.dyn["VI"] = c.dyn["VI"]
                        /\ d.dyn["VI_BINDINGS_VALID"] = c.dyn["VI_BINDINGS_VALID"]
  BY SettledFacts
<1>3. Local(Row("VERTEX_ATTRIBUTE_A", on, c.dyn["VI"]), Row("VERTEX_ATTRIBUTE_A", on, d.dyn["VI"]),
            d, {<<"VERTEX_ATTRIBUTE_A", 0>>})
  BY <1>2, LocalRow
<1>4. Local(freq(c), freq(d), d, {"VERTEX_STREAM_FREQUENCY"} \X Streams)
  BY <1>2 DEF Local, Bounded
<1>5. {<<"VERTEX_ATTRIBUTE_A", 0>>} \cap ({"VERTEX_STREAM_FREQUENCY"} \X Streams) = {}
  OBVIOUS
<1> HIDE DEF on, freq
<1>6. QED
  BY <1>1, <1>3, <1>4, <1>5, LocalTwo DEF ViRegisters

(* The primitives. *)
IaRegisters == {<<"DRAW_BEGIN", 0>>} \cup {"IA_PRIMITIVE_RESTART_ENABLE"} \X {0}

(* The rows of the primitives are local. *)
LEMMA LocalIa ==
  ASSUME NEW c, NEW d, Carries(c, d)
  PROVE  Local(IaRows(c), IaRows(d), d, IaRegisters)
<1> DEFINE on == {"IA_PRIMITIVE_TOPOLOGY"}
           begin(e) == IF e.dyn["IA_PRIMITIVE_TOPOLOGY"] = "meta_rect_list" THEN "triangle_list"
                       ELSE e.dyn["IA_PRIMITIVE_TOPOLOGY"]
           plain == {"IA_PRIMITIVE_RESTART_ENABLE"}
<1>1. \A e : IaRows(e) = Merge(<<Row("DRAW_BEGIN", on, begin(e)), PlainRows(e, plain)>>)
  BY DEF IaRows
<1>2. Settled(d, on) => begin(c) = begin(d)
  BY SettledFacts
<1>3. Local(Row("DRAW_BEGIN", on, begin(c)), Row("DRAW_BEGIN", on, begin(d)), d, {<<"DRAW_BEGIN", 0>>})
  BY <1>2, LocalRow
<1>4. Local(PlainRows(c, plain), PlainRows(d, plain), d, plain \X {0})
  BY LocalPlain
<1>5. {<<"DRAW_BEGIN", 0>>} \cap (plain \X {0}) = {}
  OBVIOUS
<1> HIDE DEF on, begin
<1>6. QED
  BY <1>1, <1>3, <1>4, <1>5, LocalTwo DEF IaRegisters

(* The tessellation control points. *)
LEMMA LocalTs ==
  ASSUME NEW c, NEW d, Carries(c, d)
  PROVE  Local(TsRows(c), TsRows(d), d, {<<"PATCH", 0>>})
<1> DEFINE on == {"TS_PATCH_CONTROL_POINTS"}
           points(e) == IF e.dyn["TS_PATCH_CONTROL_POINTS"] = 0 THEN 1
                        ELSE e.dyn["TS_PATCH_CONTROL_POINTS"]
<1>1. \A e : TsRows(e) = Row("PATCH", on, points(e))
  BY DEF TsRows
<1>2. Settled(d, on) => points(c) = points(d)
  BY SettledFacts
<1> HIDE DEF points
<1>3. QED
  BY <1>1, <1>2, LocalRow

(* The viewports and scissors, of as many viewports. *)
VpRegisters == {"VIEWPORT"} \X Viewports \cup {"SCISSOR"} \X Viewports
               \cup {<<"VIEWPORT_Z_CLIP", 0>>}

(* The rows of the viewports and scissors are local. *)
LEMMA LocalVp ==
  ASSUME NEW c, NEW d, Carries(c, d), Bounded(c), Bounded(d)
  PROVE  Local(VpRows(c), VpRows(d), d, VpRegisters)
<1> DEFINE z == "VP_DEPTH_CLIP_NEGATIVE_ONE_TO_ONE"
           viewports(e) == [r \in {"VIEWPORT"} \X (1 .. e.dyn["VP_VIEWPORT_COUNT"]) |->
             [on |-> ViewportStates, val |-> <<e.dyn["VP_VIEWPORTS"][r[2]], e.dyn[z]>>]]
           scissor(e, i) == IF i <= e.dyn["VP_SCISSOR_COUNT"]
                            THEN [on |-> {"VP_SCISSORS"}, val |-> e.dyn["VP_SCISSORS"][i]]
                            ELSE [on |-> {"VP_SCISSOR_COUNT"}, val |-> "disabled"]
           scissors(e) == [r \in {"SCISSOR"} \X Viewports |-> scissor(e, r[2])]
<1>1. \A e : VpRows(e) = Merge(<<viewports(e), scissors(e), Row("VIEWPORT_Z_CLIP", {z}, e.dyn[z])>>)
  BY DEF VpRows
<1>2. Settled(d, ViewportStates) =>
        /\ d.dyn["VP_VIEWPORTS"] = c.dyn["VP_VIEWPORTS"] /\ d.dyn[z] = c.dyn[z]
        /\ d.dyn["VP_VIEWPORT_COUNT"] = c.dyn["VP_VIEWPORT_COUNT"]
  BY SettledFacts DEF ViewportStates, Counts
<1>3. Local(viewports(c), viewports(d), d, {"VIEWPORT"} \X Viewports)
  <2>1. /\ 1 .. c.dyn["VP_VIEWPORT_COUNT"] \subseteq Viewports
        /\ 1 .. d.dyn["VP_VIEWPORT_COUNT"] \subseteq Viewports
    BY MmeAssumption DEF Bounded, Viewports
  <2>2. ViewportStates # {}
    BY DEF ViewportStates
  <2>3. QED
    BY <1>2, <2>1, <2>2 DEF Local
<1>4. ASSUME NEW i \in Viewports
      PROVE  /\ scissor(d, i).on # {}
             /\ Settled(d, scissor(d, i).on) => scissor(c, i) = scissor(d, i)
  <2>1. Settled(d, {"VP_SCISSORS"}) => /\ d.dyn["VP_SCISSORS"] = c.dyn["VP_SCISSORS"]
                                      /\ d.dyn["VP_SCISSOR_COUNT"] = c.dyn["VP_SCISSOR_COUNT"]
    BY SettledFacts DEF Counts
  <2>2. Settled(d, {"VP_SCISSOR_COUNT"}) => d.dyn["VP_SCISSOR_COUNT"] = c.dyn["VP_SCISSOR_COUNT"]
    BY SettledFacts DEF Counts
  <2>3. QED
    BY <2>1, <2>2
<1> HIDE DEF scissor
<1>5. Local(scissors(c), scissors(d), d, {"SCISSOR"} \X Viewports)
  BY <1>4 DEF Local
<1>6. Local(Row("VIEWPORT_Z_CLIP", {z}, c.dyn[z]), Row("VIEWPORT_Z_CLIP", {z}, d.dyn[z]), d,
            {<<"VIEWPORT_Z_CLIP", 0>>})
  <2>1. Settled(d, {z}) => c.dyn[z] = d.dyn[z]
    BY SettledFacts
  <2>2. QED
    BY <2>1, LocalRow
<1>7. /\ ({"VIEWPORT"} \X Viewports) \cap ({"SCISSOR"} \X Viewports) = {}
      /\ ({"VIEWPORT"} \X Viewports) \cap {<<"VIEWPORT_Z_CLIP", 0>>} = {}
      /\ ({"SCISSOR"} \X Viewports) \cap {<<"VIEWPORT_Z_CLIP", 0>>} = {}
  OBVIOUS
<1> HIDE DEF viewports, scissors
<1>8. QED
  BY <1>1, <1>3, <1>5, <1>6, <1>7, LocalThree DEF VpRegisters

(* The rasterizer, whose depth clamp depends on the format of the pass.      *)
RsRegisters == {<<"VIEWPORT_CLIP_CONTROL", 0>>} \cup {<<"OGL_SET_CULL", 0>>}
               \cup {<<"OGL_SET_CULL_FACE", 0>>} \cup {<<"CONSERVATIVE_RASTER", 0>>}
               \cup PlainRs \X {0}

(* The rows of the rasterizer are local. *)
LEMMA LocalRs ==
  ASSUME NEW c, NEW d, Carries(c, d)
  PROVE  Local(RsRows(c), RsRows(d), d, RsRegisters)
<1> DEFINE clip == {"RS_DEPTH_CLIP_ENABLE", "RS_DEPTH_CLAMP_ENABLE"}
           control(e) == [min_z_zero_max_z_one |-> ~e.dyn["RS_DEPTH_CLAMP_ENABLE"] /\ ZClampZeroOne(e),
                          geometry_clip |-> ZClip(e)]
           cull(e) == e.dyn["RS_CULL_MODE"]
           face(e) == [r \in {<<"OGL_SET_CULL_FACE", 0>> : f \in {cull(e)} \ {"none"}} |->
                        [on |-> {"RS_CULL_MODE"}, val |-> cull(e)]]
           cons == {"RS_CONSERVATIVE_MODE", "RS_EXTRA_PRIMITIVE_OVERESTIMATION_SIZE"}
<1>1. \A e : RsRows(e) = Merge(<<Row("VIEWPORT_CLIP_CONTROL", clip, control(e)),
                                Row("OGL_SET_CULL", {"RS_CULL_MODE"}, cull(e) # "none"), face(e),
                                Row("CONSERVATIVE_RASTER", cons, e.dyn["RS_CONSERVATIVE_MODE"]),
                                PlainRows(e, PlainRs)>>)
  BY DEF RsRows
<1>2. Settled(d, {"RS_CULL_MODE"}) => cull(c) = cull(d)
  BY SettledFacts
<1>3. Local(Row("VIEWPORT_CLIP_CONTROL", clip, control(c)), Row("VIEWPORT_CLIP_CONTROL", clip, control(d)),
            d, {<<"VIEWPORT_CLIP_CONTROL", 0>>})
  <2>1. Settled(d, clip) => /\ d.dyn["RS_DEPTH_CLIP_ENABLE"] = c.dyn["RS_DEPTH_CLIP_ENABLE"]
                            /\ d.dyn["RS_DEPTH_CLAMP_ENABLE"] = c.dyn["RS_DEPTH_CLAMP_ENABLE"]
                            /\ d.render = c.render
    BY SettledFacts DEF PassStates
  <2>2. Settled(d, clip) => control(c) = control(d)
    BY <2>1 DEF ZClampZeroOne, ZClip
  <2> HIDE DEF control
  <2>3. QED
    BY <2>2, LocalRow
<1>4. Local(Row("OGL_SET_CULL", {"RS_CULL_MODE"}, cull(c) # "none"),
            Row("OGL_SET_CULL", {"RS_CULL_MODE"}, cull(d) # "none"), d, {<<"OGL_SET_CULL", 0>>})
  BY <1>2, LocalRow
<1>5. Local(face(c), face(d), d, {<<"OGL_SET_CULL_FACE", 0>>})
  <2>1. /\ DOMAIN face(c) \subseteq {<<"OGL_SET_CULL_FACE", 0>>}
        /\ DOMAIN face(d) \subseteq {<<"OGL_SET_CULL_FACE", 0>>}
    OBVIOUS
  <2>2. \A r \in DOMAIN face(d) : face(d)[r].on = {"RS_CULL_MODE"}
    OBVIOUS
  <2>3. Settled(d, {"RS_CULL_MODE"}) => face(c) = face(d)
    BY <1>2
  <2> HIDE DEF face
  <2>4. QED
    BY <2>1, <2>2, <2>3 DEF Local
<1>6. Local(Row("CONSERVATIVE_RASTER", cons, c.dyn["RS_CONSERVATIVE_MODE"]),
            Row("CONSERVATIVE_RASTER", cons, d.dyn["RS_CONSERVATIVE_MODE"]), d,
            {<<"CONSERVATIVE_RASTER", 0>>})
  <2>1. Settled(d, cons) => c.dyn["RS_CONSERVATIVE_MODE"] = d.dyn["RS_CONSERVATIVE_MODE"]
    BY SettledFacts
  <2>2. QED
    BY <2>1, LocalRow
<1>7. Local(PlainRows(c, PlainRs), PlainRows(d, PlainRs), d, PlainRs \X {0})
  BY LocalPlain
<1> HIDE DEF clip, control, face, cons
<1>8. PICK R1, R2, R3, R4, R5 :
        /\ R1 = {<<"VIEWPORT_CLIP_CONTROL", 0>>} /\ R2 = {<<"OGL_SET_CULL", 0>>}
        /\ R3 = {<<"OGL_SET_CULL_FACE", 0>>} /\ R4 = {<<"CONSERVATIVE_RASTER", 0>>}
        /\ R5 = PlainRs \X {0}
  OBVIOUS
<1>9. /\ R1 \cap R2 = {} /\ R1 \cap R3 = {} /\ R1 \cap R4 = {} /\ R1 \cap R5 = {} /\ R2 \cap R3 = {}
      /\ R2 \cap R4 = {} /\ R2 \cap R5 = {} /\ R3 \cap R4 = {} /\ R3 \cap R5 = {} /\ R4 \cap R5 = {}
  BY <1>8 DEF PlainRs
<1>10. RsRegisters = R1 \cup R2 \cup R3 \cup R4 \cup R5
  BY <1>8 DEF RsRegisters
<1>11. QED
  BY <1>1, <1>3, <1>4, <1>5, <1>6, <1>7, <1>8, <1>9, <1>10, LocalFive

(* The samples. *)
MsRegisters == {<<"ANTI_ALIAS_ALPHA_CONTROL", 0>>} \cup {<<"SAMPLE_POSITIONS", 0>>}
               \cup {"MS_SAMPLE_MASK"} \X {0}

(* The rows of the samples are local. *)
LEMMA LocalMs ==
  ASSUME NEW c, NEW d, Carries(c, d)
  PROVE  Local(MsRows(c), MsRows(d), d, MsRegisters)
<1> DEFINE alpha == {"MS_ALPHA_TO_COVERAGE_ENABLE", "MS_ALPHA_TO_ONE_ENABLE"}
           control(e) == <<e.dyn["MS_ALPHA_TO_COVERAGE_ENABLE"], e.dyn["MS_ALPHA_TO_ONE_ENABLE"]>>
           plain == {"MS_SAMPLE_MASK"}
<1>1. \A e : MsRows(e) = Merge(<<Row("ANTI_ALIAS_ALPHA_CONTROL", alpha, control(e)),
                                Row("SAMPLE_POSITIONS", SampleLocationStates, SampleLocations(e)),
                                PlainRows(e, plain)>>)
  BY DEF MsRows
<1>2. Settled(d, alpha) => control(c) = control(d)
  BY SettledFacts
<1>3. Settled(d, SampleLocationStates) => SampleLocations(c) = SampleLocations(d)
  BY SettledFacts DEF SampleLocationStates, SampleLocations, SampleCount
<1>4. Local(Row("ANTI_ALIAS_ALPHA_CONTROL", alpha, control(c)),
            Row("ANTI_ALIAS_ALPHA_CONTROL", alpha, control(d)), d, {<<"ANTI_ALIAS_ALPHA_CONTROL", 0>>})
  BY <1>2, LocalRow
<1>5. Local(Row("SAMPLE_POSITIONS", SampleLocationStates, SampleLocations(c)),
            Row("SAMPLE_POSITIONS", SampleLocationStates, SampleLocations(d)), d,
            {<<"SAMPLE_POSITIONS", 0>>})
  <2>1. SampleLocationStates # {}
    BY DEF SampleLocationStates
  <2>2. QED
    BY <1>3, <2>1, LocalRow
<1>6. Local(PlainRows(c, plain), PlainRows(d, plain), d, plain \X {0})
  BY LocalPlain
<1>7. /\ {<<"ANTI_ALIAS_ALPHA_CONTROL", 0>>} \cap {<<"SAMPLE_POSITIONS", 0>>} = {}
      /\ {<<"ANTI_ALIAS_ALPHA_CONTROL", 0>>} \cap (plain \X {0}) = {}
      /\ {<<"SAMPLE_POSITIONS", 0>>} \cap (plain \X {0}) = {}
  OBVIOUS
<1> HIDE DEF alpha, control
<1>8. QED
  BY <1>1, <1>4, <1>5, <1>6, <1>7, LocalThree DEF MsRegisters

(* Depth and stencil tests, which depend on the formats of the pass.         *)
DsRegisters == {<<"DS_DEPTH_TEST_ENABLE", 0>>} \cup {<<"DS_DEPTH_WRITE_ENABLE", 0>>}
               \cup {<<"DS_DEPTH_BOUNDS_TEST_ENABLE", 0>>} \cup {<<"DS_STENCIL_TEST_ENABLE", 0>>}
               \cup PlainDs \X {0}

(* The rows of the depth and stencil tests are local. *)
LEMMA LocalDs ==
  ASSUME NEW c, NEW d, Carries(c, d)
  PROVE  Local(DsRows(c), DsRows(d), d, DsRegisters)
<1> DEFINE depth(e) == e.render.depth # "none"
           enable(e, s, format) == Row(s, {s}, e.dyn[s] /\ format)
<1>1. \A e : DsRows(e) = Merge(<<enable(e, "DS_DEPTH_TEST_ENABLE", depth(e)),
                                enable(e, "DS_DEPTH_WRITE_ENABLE", depth(e)),
                                enable(e, "DS_DEPTH_BOUNDS_TEST_ENABLE", depth(e)),
                                enable(e, "DS_STENCIL_TEST_ENABLE", e.render.stencil),
                                PlainRows(e, PlainDs)>>)
  BY DEF DsRows
<1>2. ASSUME NEW s \in PassStates
      PROVE  /\ Local(enable(c, s, depth(c)), enable(d, s, depth(d)), d, {<<s, 0>>})
             /\ Local(enable(c, s, c.render.stencil), enable(d, s, d.render.stencil), d, {<<s, 0>>})
  <2>1. Settled(d, {s}) => d.dyn[s] = c.dyn[s] /\ d.render = c.render
    BY SettledFacts
  <2>2. Settled(d, {s}) => /\ (c.dyn[s] /\ depth(c)) = (d.dyn[s] /\ depth(d))
                           /\ (c.dyn[s] /\ c.render.stencil) = (d.dyn[s] /\ d.render.stencil)
    BY <2>1
  <2>3. {s} # {}
    OBVIOUS
  <2>4. QED
    BY <2>2, <2>3, LocalRow
<1>3. Local(PlainRows(c, PlainDs), PlainRows(d, PlainDs), d, PlainDs \X {0})
  BY LocalPlain
<1>4. {"DS_DEPTH_TEST_ENABLE", "DS_DEPTH_WRITE_ENABLE", "DS_DEPTH_BOUNDS_TEST_ENABLE",
       "DS_STENCIL_TEST_ENABLE"} \subseteq PassStates
  BY DEF PassStates
<1> HIDE DEF enable, depth
<1>5. PICK R1, R2, R3, R4, R5 :
        /\ R1 = {<<"DS_DEPTH_TEST_ENABLE", 0>>} /\ R2 = {<<"DS_DEPTH_WRITE_ENABLE", 0>>}
        /\ R3 = {<<"DS_DEPTH_BOUNDS_TEST_ENABLE", 0>>} /\ R4 = {<<"DS_STENCIL_TEST_ENABLE", 0>>}
        /\ R5 = PlainDs \X {0}
  OBVIOUS
<1>6. /\ R1 \cap R2 = {} /\ R1 \cap R3 = {} /\ R1 \cap R4 = {} /\ R1 \cap R5 = {} /\ R2 \cap R3 = {}
      /\ R2 \cap R4 = {} /\ R2 \cap R5 = {} /\ R3 \cap R4 = {} /\ R3 \cap R5 = {} /\ R4 \cap R5 = {}
  BY <1>5 DEF PlainDs
<1>7. DsRegisters = R1 \cup R2 \cup R3 \cup R4 \cup R5
  BY <1>5 DEF DsRegisters
<1>8. QED
  BY <1>1, <1>2, <1>3, <1>4, <1>5, <1>6, <1>7, LocalFive

(* The colour state of the attachments of the pass. *)
CbRegisters == {"BLEND"} \X Targets \cup {"BLEND_PER_TARGET"} \X Targets
               \cup {<<"CT_SELECT", 0>>} \cup PlainCb \X {0}

(* The rows of the colour state are local. *)
LEMMA LocalCb ==
  ASSUME NEW c, NEW d, Carries(c, d), Bounded(c), Bounded(d)
  PROVE  Local(CbRows(c), CbRows(d), d, CbRegisters)
<1> DEFINE per(e, name, on) ==
             [r \in {name} \X (0 .. e.render.count - 1) |-> [on |-> {on}, val |-> e.dyn[on][r[2]]]]
           select(e) == CtSelect(e.dyn["COLOR_ATTACHMENT_MAP"])
           map == {"COLOR_ATTACHMENT_MAP"}
<1>1. \A e : CbRows(e) = Merge(<<per(e, "BLEND", "CB_BLEND_ENABLES"),
                                per(e, "BLEND_PER_TARGET", "CB_BLEND_EQUATIONS"),
                                Row("CT_SELECT", map, select(e)), PlainRows(e, PlainCb)>>)
  BY DEF CbRows
<1>2. ASSUME NEW name, NEW s \in PassStates
      PROVE  Local(per(c, name, s), per(d, name, s), d, {name} \X Targets)
  <2>1. Settled(d, {s}) => d.dyn[s] = c.dyn[s] /\ d.render = c.render
    BY SettledFacts
  <2>2. 0 .. c.render.count - 1 \subseteq Targets /\ 0 .. d.render.count - 1 \subseteq Targets
    BY MmeAssumption DEF Bounded, Targets
  <2>3. QED
    BY <2>1, <2>2 DEF Local
<1>3. Local(Row("CT_SELECT", map, select(c)), Row("CT_SELECT", map, select(d)), d, {<<"CT_SELECT", 0>>})
  <2>1. Settled(d, map) => select(c) = select(d)
    BY SettledFacts
  <2> HIDE DEF select
  <2>2. QED
    BY <2>1, LocalRow
<1>4. Local(PlainRows(c, PlainCb), PlainRows(d, PlainCb), d, PlainCb \X {0})
  BY LocalPlain
<1>5. {"CB_BLEND_ENABLES", "CB_BLEND_EQUATIONS"} \subseteq PassStates
  BY DEF PassStates
<1> HIDE DEF per, select, map
<1>6. PICK R1, R2, R3, R4 : /\ R1 = {"BLEND"} \X Targets /\ R2 = {"BLEND_PER_TARGET"} \X Targets
                            /\ R3 = {<<"CT_SELECT", 0>>} /\ R4 = PlainCb \X {0}
  OBVIOUS
<1>7. /\ R1 \cap R2 = {} /\ R1 \cap R3 = {} /\ R1 \cap R4 = {} /\ R2 \cap R3 = {} /\ R2 \cap R4 = {}
      /\ R3 \cap R4 = {}
  BY <1>6 DEF PlainCb
<1>8. CbRegisters = R1 \cup R2 \cup R3 \cup R4
  BY <1>6 DEF CbRegisters
<1>9. Local(per(c, "BLEND", "CB_BLEND_ENABLES"), per(d, "BLEND", "CB_BLEND_ENABLES"), d, R1)
  BY <1>2, <1>5, <1>6
<1>10. Local(per(c, "BLEND_PER_TARGET", "CB_BLEND_EQUATIONS"),
             per(d, "BLEND_PER_TARGET", "CB_BLEND_EQUATIONS"), d, R2)
  BY <1>2, <1>5, <1>6
<1>11. QED
  BY <1>1, <1>3, <1>4, <1>6, <1>7, <1>8, <1>9, <1>10, LocalFour

(* A row that is settled is the same wherever it carries over from, and its  *)
(* registers are the engine's.                                              *)
LEMMA LocalRows ==
  ASSUME NEW c, NEW d, Carries(c, d), Bounded(c), Bounded(d)
  PROVE  Local(Rows(c), Rows(d), d, Registers)
<1>1. PICK n, P, Q, N :
        /\ n = 8
        /\ P = <<ViRows(c), IaRows(c), TsRows(c), VpRows(c), RsRows(c), MsRows(c), DsRows(c), CbRows(c)>>
        /\ Q = <<ViRows(d), IaRows(d), TsRows(d), VpRows(d), RsRows(d), MsRows(d), DsRows(d), CbRows(d)>>
        /\ N = <<ViRegisters, IaRegisters, {<<"PATCH", 0>>}, VpRegisters, RsRegisters, MsRegisters,
                 DsRegisters, CbRegisters>>
  OBVIOUS
<1>2. n \in Nat /\ DOMAIN P = 1 .. n /\ DOMAIN Q = 1 .. n
  BY <1>1
<1>3. \A i \in 1 .. n : Local(P[i], Q[i], d, N[i])
  BY <1>1, LocalVi, LocalIa, LocalTs, LocalVp, LocalRs, LocalMs, LocalDs, LocalCb
<1> DEFINE names == <<{"VERTEX_ATTRIBUTE_A", "VERTEX_STREAM_FREQUENCY"},
                      {"DRAW_BEGIN", "IA_PRIMITIVE_RESTART_ENABLE"}, {"PATCH"},
                      {"VIEWPORT", "SCISSOR", "VIEWPORT_Z_CLIP"},
                      {"VIEWPORT_CLIP_CONTROL", "OGL_SET_CULL", "OGL_SET_CULL_FACE",
                       "CONSERVATIVE_RASTER"} \cup PlainRs,
                      {"ANTI_ALIAS_ALPHA_CONTROL", "SAMPLE_POSITIONS", "MS_SAMPLE_MASK"},
                      {"DS_DEPTH_TEST_ENABLE", "DS_DEPTH_WRITE_ENABLE", "DS_DEPTH_BOUNDS_TEST_ENABLE",
                       "DS_STENCIL_TEST_ENABLE"} \cup PlainDs,
                      {"BLEND", "BLEND_PER_TARGET", "CT_SELECT"} \cup PlainCb>>
           at(name) == IF name \in names[1] THEN 1 ELSE IF name \in names[2] THEN 2
                       ELSE IF name \in names[3] THEN 3 ELSE IF name \in names[4] THEN 4
                       ELSE IF name \in names[5] THEN 5 ELSE IF name \in names[6] THEN 6
                       ELSE IF name \in names[7] THEN 7 ELSE 8
<1>4. \A r \in ViRegisters : at(r[1]) = 1
  BY DEF ViRegisters
<1>5. \A r \in IaRegisters : at(r[1]) = 2
  BY DEF IaRegisters
<1>6. at(<<"PATCH", 0>>[1]) = 3
  OBVIOUS
<1>7. \A r \in VpRegisters : at(r[1]) = 4
  BY DEF VpRegisters
<1>8. \A r \in RsRegisters : at(r[1]) = 5
  BY DEF RsRegisters, PlainRs
<1>9. \A r \in MsRegisters : at(r[1]) = 6
  BY DEF MsRegisters, PlainRs
<1>10. \A r \in DsRegisters : at(r[1]) = 7
  BY DEF DsRegisters, PlainRs, PlainDs
<1>11. \A r \in CbRegisters : at(r[1]) = 8
  BY DEF CbRegisters, PlainRs, PlainDs, PlainCb
<1> HIDE DEF at
<1>12. \A i \in 1 .. n : \A r \in N[i] : at(r[1]) = i
  BY <1>1, <1>4, <1>5, <1>6, <1>7, <1>8, <1>9, <1>10, <1>11
<1>13. \A i, j \in 1 .. n : \A r \in N[i] : r \in N[j] => i = j
  BY <1>12
<1>14. Local(Merge(P), Merge(Q), d, UNION {N[i] : i \in 1 .. n})
  BY <1>2, <1>3, <1>13, LocalMerge
<1>15. Merge(P) = Rows(c) /\ Merge(Q) = Rows(d)
  BY <1>1 DEF Rows
<1>16. UNION {N[i] : i \in 1 .. n} \subseteq Registers
  <2>1. ViRegisters \subseteq Registers /\ IaRegisters \subseteq Registers
    BY DEF ViRegisters, IaRegisters, Registers, Plain
  <2>2. {<<"PATCH", 0>>} \subseteq Registers /\ VpRegisters \subseteq Registers
    BY DEF VpRegisters, Registers
  <2>3. RsRegisters \subseteq Registers
    BY DEF RsRegisters, Registers, Plain
  <2>4. MsRegisters \subseteq Registers
    BY DEF MsRegisters, Registers, Plain
  <2>5. DsRegisters \subseteq Registers
    BY DEF DsRegisters, Registers, Plain
  <2>6. CbRegisters \subseteq Registers
    BY DEF CbRegisters, Registers, Plain
  <2>7. SUFFICES ASSUME NEW i \in 1 .. n PROVE N[i] \subseteq Registers
    OBVIOUS
  <2>8. QED
    BY <1>1, <2>1, <2>2, <2>3, <2>4, <2>5, <2>6
<1>17. QED
  BY <1>14, <1>15, <1>16, LocalMore

(***************************************************************************)
(* Recursive functions on an interval                                      *)
(***************************************************************************)
(* Induction up to n: were k the first number missing, the successor would  *)
(* map the numbers below k into themselves, one to one but not onto.        *)
LEMMA Climb ==
  ASSUME NEW n \in Nat, NEW T, 0 \in T, \A i \in 1 .. n : i - 1 \in T => i \in T
  PROVE  \A i \in 0 .. n : i \in T
<1> DEFINE P == {i \in 0 .. n : \A j \in 0 .. i : j \in T}
           f == [i \in P |-> i + 1]
<1>1. SUFFICES ASSUME NEW k \in 0 .. n, k \notin T PROVE FALSE
  OBVIOUS
<1>2. 0 \in P /\ P \subseteq Nat /\ \A i \in P : i <= n /\ i # n
  BY <1>1
<1>3. \A i \in P : i + 1 \in P
  <2>1. SUFFICES ASSUME NEW i \in P PROVE i + 1 \in P
    OBVIOUS
  <2>2. i + 1 \in 1 .. n /\ i \in T
    BY <1>2
  <2>3. i + 1 \in T
    <3>1. PICK m : m = i + 1
      OBVIOUS
    <3>2. m \in 1 .. n /\ m - 1 = i
      BY <2>2, <3>1, <1>2
    <3>3. QED
      BY <2>2, <3>1, <3>2
  <2>4. \A j \in 0 .. i + 1 : j \in 0 .. i \/ j = i + 1
    BY <1>2
  <2>5. QED
    BY <2>2, <2>3, <2>4
<1>4. IsFiniteSet(P)
  BY <1>2, FS_BoundedSetOfNaturals
<1>5. f \in Injection(P, P)
  BY <1>2, <1>3 DEF Injection, IsInjective
<1> HIDE DEF P
<1>6. f \in Surjection(P, P)
  <2> HIDE DEF f
  <2>1. QED
    BY <1>4, <1>5, FS_Injection
<1>7. PICK i \in P : f[i] = 0
  BY <1>2, <1>6 DEF Surjection
<1>8. QED
  BY <1>2, <1>7

(***************************************************************************)
(* The engine                                                              *)
(***************************************************************************)
EngineFields == {"tess", "aa", "z", "conservative", "write", "single", "predicate", "override",
  "view_mask", "target", "xfb", "reg", "drawn", "layers", "when", "selector", "stray", "cb0",
  "vertex_id_base", "layer", "cbuf", "prog", "vtgm", "vb", "ib"}
Cb0Fields == {"sample_masks", "sample_locations", "first_vertex", "first_instance", "draw_index",
  "view_index", "push"}

IsVb(vb) == /\ DOMAIN vb = {"enables", "format", "range"}
            /\ DOMAIN vb.format = Streams /\ DOMAIN vb.range = Streams
            /\ \A s \in Streams : DOMAIN vb.format[s] = {"enable", "stride"}

(* An engine with the root table selected. *)
Rooted(h) ==
  /\ DOMAIN h = EngineFields /\ DOMAIN h.cb0 = Cb0Fields /\ DOMAIN h.reg = Registers
  /\ DOMAIN h.cbuf = Stages \X Slots /\ DOMAIN h.prog = Stages /\ DOMAIN h.xfb = {"on", "pointer"}
  /\ IsVb(h.vb) /\ h.selector = CB0 /\ h.stray = FALSE

(* When a draw takes place. *)
Mode(h) == IF h.override THEN "always" ELSE h.predicate

(* The targets, and what may be written to them. *)
Colors(h, k) == k.write = h.write /\ k.single = h.single /\ k.target = h.target

(* k is h after macros that bind nothing; Still, after ones that leave the   *)
(* vertex format and the targets alone too.                                 *)
Kept(h, k) ==
  /\ Rooted(k) /\ k.vb.range = h.vb.range /\ k.cb0.push = h.cb0.push
  /\ k.cbuf = h.cbuf /\ k.prog = h.prog /\ k.vtgm = h.vtgm /\ k.xfb = h.xfb
  /\ k.override = h.override /\ k.predicate = h.predicate
  /\ \A x \in k.when : x \in h.when \/ x = Mode(h)
Still(h, k) == Kept(h, k) /\ k.vb = h.vb /\ Colors(h, k)

(* k has the rasterization state of h; Shifted and Ran, after macros that    *)
(* leave that alone.                                                        *)
Aloof(h, k) == /\ k.tess = h.tess /\ k.z = h.z /\ k.aa = h.aa /\ k.reg = h.reg
               /\ k.cb0.sample_masks = h.cb0.sample_masks /\ Colors(h, k)
Shifted(h, k) == Kept(h, k) /\ Aloof(h, k)
Ran(h, k)     == Still(h, k) /\ Aloof(h, k)

(* One macro after another. *)
LEMMA StillTransitive ==
  ASSUME NEW h, NEW k, NEW l
  PROVE  /\ Rooted(h) => Still(h, h)
         /\ Kept(h, k) /\ Kept(k, l) => Kept(h, l)
         /\ Still(h, k) /\ Still(k, l) => Still(h, l)
         /\ Still(h, k) => Rooted(k) /\ Kept(h, k)
BY DEF Kept, Still, Colors, Mode

(* And of those that tune nothing. *)
LEMMA RanTransitive ==
  ASSUME NEW h, NEW k, NEW l
  PROVE  /\ Rooted(h) => Ran(h, h) /\ Shifted(h, h)
         /\ Ran(h, k) /\ Ran(k, l) => Ran(h, l)
         /\ Shifted(h, k) /\ Shifted(k, l) => Shifted(h, l)
         /\ Ran(h, k) => Rooted(k) /\ Still(h, k) /\ Shifted(h, k) /\ Kept(h, k)
<1>1. Aloof(h, h) /\ (Aloof(h, k) /\ Aloof(k, l) => Aloof(h, l))
  BY DEF Aloof, Colors
<1>2. QED
  BY <1>1, StillTransitive DEF Ran, Shifted, Still

(* Any change of these fields binds nothing. *)
LEMMA FieldStill ==
  ASSUME NEW h, Rooted(h), NEW v
  PROVE  /\ Still(h, [h EXCEPT !.tess = v]) /\ Still(h, [h EXCEPT !.z = v])
         /\ Ran(h, [h EXCEPT !.conservative = v]) /\ Still(h, [h EXCEPT !.aa = v])
         /\ Ran(h, [h EXCEPT !.vertex_id_base = v]) /\ Ran(h, [h EXCEPT !.layer = v])
         /\ Ran(h, [h EXCEPT !.view_mask = v])
         /\ (DOMAIN v = Registers => Still(h, [h EXCEPT !.reg = v]))
<1> USE DEF Ran, Aloof, Still, Colors, Kept, Rooted, EngineFields
<1>1. Still(h, [h EXCEPT !.tess = v]) /\ Still(h, [h EXCEPT !.z = v])
  OBVIOUS
<1>2. Ran(h, [h EXCEPT !.conservative = v]) /\ Still(h, [h EXCEPT !.aa = v])
  OBVIOUS
<1>3. Ran(h, [h EXCEPT !.vertex_id_base = v]) /\ Ran(h, [h EXCEPT !.layer = v])
  OBVIOUS
<1>4. Ran(h, [h EXCEPT !.view_mask = v])
  OBVIOUS
<1>5. DOMAIN v = Registers => Still(h, [h EXCEPT !.reg = v])
  OBVIOUS
<1>6. QED
  BY <1>1, <1>2, <1>3, <1>4, <1>5

(* Any engine that differs in the depth range alone. *)
LEMMA OneStill ==
  ASSUME NEW h, Rooted(h), NEW k, DOMAIN k = EngineFields,
         \A x \in EngineFields \ {"z"} : k[x] = h[x]
  PROVE  Still(h, k)
BY DEF Still, Colors, Kept, Rooted, EngineFields

(* A word of the root table reaches it. *)
LEMMA LoadStill ==
  ASSUME NEW h, Rooted(h), NEW field \in Cb0Fields, NEW v
  PROVE  LET k == LoadConstant(h, field, v)
         IN /\ field # "push" => Still(h, k)
            /\ field \notin {"push", "sample_masks"} => Ran(h, k)
            /\ field = "push" => /\ Rooted(k) /\ k.cb0.push = v
                                 /\ [h.cb0 EXCEPT !["push"] = v] = k.cb0
                                 /\ \A x \in EngineFields \ {"cb0"} : k[x] = h[x]
<1>1. LoadConstant(h, field, v) = [h EXCEPT !.cb0[field] = v]
  BY DEF LoadConstant, Rooted
<1>2. QED
  BY <1>1 DEF Ran, Aloof, Still, Colors, Kept, Rooted, EngineFields, Cb0Fields

(***************************************************************************)
(* Macros bind nothing                                                     *)
(***************************************************************************)
(* Macros that shadow a register. *)
LEMMA ShadowStill ==
  ASSUME NEW h, Rooted(h), NEW x, NEW y
  PROVE  /\ Ran(h, SetConservativeRaster(h, x)) /\ Still(h, SetTessParams(h, x))
         /\ Still(h, SetViewportMinMaxZ(h, x, y)) /\ Still(h, SetZClamp(h, x))
         /\ Still(h, WriteRows(h, x))
<1>1. Still(h, h)
  BY StillTransitive
<1>2. Ran(h, SetConservativeRaster(h, x))
  BY FieldStill, RanTransitive DEF SetConservativeRaster
<1>3. Still(h, SetTessParams(h, x))
  BY <1>1, FieldStill DEF SetTessParams
<1>4. Still(h, SetViewportMinMaxZ(h, x, y))
  <2>1. PICK k : k = SetViewportMinMaxZ(h, x, y)
    OBVIOUS
  <2>2. DOMAIN k = EngineFields /\ \A f \in EngineFields \ {"z"} : k[f] = h[f]
    BY <2>1 DEF SetViewportMinMaxZ, Rooted, EngineFields
  <2>3. QED
    BY <2>1, <2>2, OneStill
<1>5. Still(h, SetZClamp(h, x))
  <2>1. PICK k : k = SetZClamp(h, x)
    OBVIOUS
  <2>2. DOMAIN k = EngineFields /\ \A f \in EngineFields \ {"z"} : k[f] = h[f]
    BY <2>1 DEF SetZClamp, Rooted, EngineFields
  <2>3. QED
    BY <2>1, <2>2, OneStill
<1>6. Still(h, WriteRows(h, x))
  <2> DEFINE rows    == Rows(x)
             written == {q \in DOMAIN rows : rows[q].on \cap x.dirty # {}}
             reg     == [q \in DOMAIN h.reg |-> IF q \in written THEN rows[q].val ELSE h.reg[q]]
  <2>1. WriteRows(h, x) = [h EXCEPT !.reg = reg]
    BY DEF WriteRows
  <2>2. DOMAIN reg = Registers
    BY DEF Rooted
  <2> HIDE DEF reg
  <2>3. Still(h, [h EXCEPT !.reg = reg])
    BY <2>2, FieldStill
  <2>4. QED
    BY <2>1, <2>3, Zenon
<1>7. QED
  BY <1>2, <1>3, <1>4, <1>5, <1>6

(* The macro that computes the masks of the samples, and the layout first. *)
LEMMA AntiAliasStill ==
  ASSUME NEW h, Rooted(h), NEW x
  PROVE  Still(h, SetAntiAlias(h, x)) /\ Still(h, SetSampleLayout(h, x))
<1>1. ASSUME NEW k, Rooted(k), NEW part PROVE Still(k, SetAntiAlias(k, part))
  <2>1. PICK params, passes, masks :
          \/ SetAntiAlias(k, part) = k
          \/ SetAntiAlias(k, part)
               = LoadConstant([k EXCEPT !.aa.params = params, !.aa.passes = passes], "sample_masks", masks)
    BY DEF SetAntiAlias
  <2>2. Still(k, LoadConstant([k EXCEPT !.aa.params = params, !.aa.passes = passes],
                              "sample_masks", masks))
    <3>1. PICK aa : [k EXCEPT !.aa.params = params, !.aa.passes = passes] = [k EXCEPT !.aa = aa]
      BY <1>1 DEF Rooted, EngineFields
    <3>2. PICK l : l = [k EXCEPT !.aa = aa]
      OBVIOUS
    <3>3. Still(k, l)
      BY <1>1, <3>2, FieldStill
    <3>4. Still(l, LoadConstant(l, "sample_masks", masks))
      BY <3>3, LoadStill, StillTransitive DEF Cb0Fields
    <3>5. QED
      BY <3>1, <3>2, <3>3, <3>4, StillTransitive
  <2>3. QED
    BY <1>1, <2>1, <2>2, StillTransitive
<1>2. Still(h, SetSampleLayout(h, x))
  <2>1. PICK mode, two, four, part :
          SetSampleLayout(h, x)
            = SetAntiAlias([h EXCEPT !.aa.mode = mode, !.aa.two = two, !.aa.four = four], part)
    BY DEF SetSampleLayout
  <2>2. PICK aa : [h EXCEPT !.aa.mode = mode, !.aa.two = two, !.aa.four = four] = [h EXCEPT !.aa = aa]
    BY DEF Rooted, EngineFields
  <2>3. PICK l : l = [h EXCEPT !.aa = aa]
    OBVIOUS
  <2>4. Still(h, l)
    BY <2>3, FieldStill
  <2>5. Still(l, SetAntiAlias(l, part))
    BY <1>1, <2>4, StillTransitive
  <2>6. QED
    BY <2>1, <2>2, <2>3, <2>4, <2>5, StillTransitive
<1>3. QED
  BY <1>1, <1>2

(***************************************************************************)
(* Draws bind and tune nothing                                             *)
(***************************************************************************)
(* One pass of a draw, its parameters and its view. *)
LEMMA LoopStill ==
  ASSUME NEW h, Rooted(h), NEW d, NEW x
  PROVE  /\ Ran(h, DrawLoop(h, d)) /\ Ran(h, SetDrawParams(h, d, x))
         /\ Ran(h, EmitViewIndex(h, x))
<1>1. Ran(h, DrawLoop(h, d))
  <2>1. PICK n, l, k :
          /\ DrawLoop(h, d) = k
          /\ k = [h EXCEPT !.drawn = n, !.layers = l, !.when = @ \cup {Mode(h)}]
    BY DEF DrawLoop, Mode
  <2>2. Ran(h, k)
    BY <2>1 DEF Ran, Aloof, Still, Colors, Kept, Rooted, EngineFields
  <2>3. QED
    BY <2>1, <2>2
<1>2. Ran(h, SetDrawParams(h, d, x))
  <2>1. PICK g1 : g1 = LoadConstant(h, "first_vertex", d.first_vertex)
    OBVIOUS
  <2>2. PICK g2 : g2 = LoadConstant(g1, "first_instance", d.first_instance)
    OBVIOUS
  <2>3. PICK g3 : g3 = LoadConstant(g2, "draw_index", x)
    OBVIOUS
  <2>4. PICK g4 : g4 = LoadConstant(g3, "view_index", 0)
    OBVIOUS
  <2>5. Ran(h, g1)
    BY <2>1, LoadStill DEF Cb0Fields
  <2>6. Rooted(g1) /\ Ran(g1, g2)
    BY <2>2, <2>5, LoadStill, RanTransitive DEF Cb0Fields
  <2>7. Rooted(g2) /\ Ran(g2, g3)
    BY <2>3, <2>6, LoadStill, RanTransitive DEF Cb0Fields
  <2>8. Rooted(g3) /\ Ran(g3, g4)
    BY <2>4, <2>7, LoadStill, RanTransitive DEF Cb0Fields
  <2>9. Rooted(g4) /\ Ran(g4, [g4 EXCEPT !.vertex_id_base = d.base_vertex])
    BY <2>8, FieldStill, RanTransitive
  <2>10. SetDrawParams(h, d, x) = [g4 EXCEPT !.vertex_id_base = d.base_vertex]
    BY <2>1, <2>2, <2>3, <2>4 DEF SetDrawParams
  <2>11. Ran(h, g3)
    BY <2>5, <2>6, <2>7, RanTransitive
  <2>12. QED
    BY <2>8, <2>9, <2>10, <2>11, RanTransitive
<1>3. Ran(h, EmitViewIndex(h, x))
  <2>1. PICK k : k = LoadConstant(h, "view_index", x)
    OBVIOUS
  <2>2. Ran(h, k) /\ Rooted(k)
    BY <2>1, LoadStill, RanTransitive DEF Cb0Fields
  <2>3. Ran(k, [k EXCEPT !.layer = x])
    BY <2>2, FieldStill
  <2>4. EmitViewIndex(h, x) = [k EXCEPT !.layer = x]
    BY <2>1 DEF EmitViewIndex
  <2>5. QED
    BY <2>2, <2>3, <2>4, RanTransitive
<1>4. QED
  BY <1>1, <1>2, <1>3

(* Every view of a draw. *)
LEMMA BuildStill ==
  ASSUME NEW h, Rooted(h), NEW d, NEW index
  PROVE  Ran(h, BuildDraw(h, d, index))
<1> DEFINE g1 == SetDrawParams(h, d, index)
           Step(k, v) == IF v - 1 \in g1.view_mask THEN DrawLoop(EmitViewIndex(k, v - 1), d) ELSE k
           Whole(f, n) == f = [v \in 0 .. n |-> IF v = 0 THEN g1 ELSE Step(f[v - 1], v)]
           draw == CHOOSE f : Whole(f, NumViews)
<1>1. Ran(h, g1) /\ Ran(h, DrawLoop(g1, d))
  <2>1. Ran(h, g1)
    BY LoopStill
  <2> HIDE DEF g1
  <2>2. Ran(g1, DrawLoop(g1, d))
    BY <2>1, LoopStill, RanTransitive
  <2>3. QED
    BY <2>1, <2>2, RanTransitive
<1>2. BuildDraw(h, d, index) = IF g1.view_mask = {} THEN DrawLoop(g1, d) ELSE draw[NumViews]
  BY DEF BuildDraw
<1>3. ASSUME NEW k, Rooted(k), NEW v PROVE Ran(k, Step(k, v))
  <2>1. PICK l : l = EmitViewIndex(k, v - 1)
    OBVIOUS
  <2>2. Ran(k, l) /\ Ran(l, DrawLoop(l, d))
    BY <1>3, <2>1, LoopStill, RanTransitive
  <2> HIDE DEF g1
  <2>3. QED
    BY <1>3, <2>1, <2>2, RanTransitive
<1> HIDE DEF g1, Step
<1>4. NumViews \in Nat
  BY MmeAssumption
<1>5. \E f : Whole(f, NumViews)
  <2> DEFINE T == {n \in 0 .. NumViews : \E f : Whole(f, n)}
  <2>1. 0 \in T
    <3>1. Whole([v \in 0 .. 0 |-> g1], 0)
      OBVIOUS
    <3> HIDE DEF Whole
    <3>2. QED
      BY <1>4, <3>1
  <2>2. ASSUME NEW n \in 1 .. NumViews, n - 1 \in T PROVE n \in T
    <3>1. PICK f : Whole(f, n - 1)
      BY <2>2
    <3> DEFINE e == [v \in 0 .. n |-> IF v = n THEN Step(f[n - 1], n) ELSE f[v]]
    <3>2. ASSUME NEW v \in 0 .. n PROVE e[v] = IF v = 0 THEN g1 ELSE Step(e[v - 1], v)
      BY <2>2, <3>1
    <3>3. Whole(e, n)
      BY <3>2
    <3> HIDE DEF Whole, e
    <3>4. QED
      BY <3>3
  <2> HIDE DEF T
  <2>3. NumViews \in T
    BY <1>4, <2>1, <2>2, Climb
  <2>4. QED
    BY <2>3 DEF T
<1>6. Whole(draw, NumViews)
  <2> HIDE DEF Whole
  <2>1. QED
    BY <1>5
<1> HIDE DEF draw
<1>7. Ran(h, draw[NumViews])
  <2> DEFINE T == {n \in 0 .. NumViews : Ran(h, draw[n])}
  <2>1. 0 \in T
    BY <1>1, <1>4, <1>6
  <2>2. ASSUME NEW n \in 1 .. NumViews, n - 1 \in T PROVE n \in T
    <3>1. draw[n] = Step(draw[n - 1], n)
      BY <1>4, <1>6
    <3>2. PICK k : k = draw[n - 1] /\ Ran(h, k)
      BY <2>2
    <3>3. Ran(k, Step(k, n))
      BY <1>3, <3>2, RanTransitive
    <3>4. Ran(h, draw[n])
      BY <3>1, <3>2, <3>3, RanTransitive
    <3>5. QED
      BY <3>4
  <2> HIDE DEF T
  <2>3. NumViews \in T
    BY <1>4, <2>1, <2>2, Climb
  <2>4. QED
    BY <2>3 DEF T
<1>8. QED
  BY <1>1, <1>2, <1>7

(* Every draw of a call. *)
LEMMA DrawAllStill ==
  ASSUME NEW h, Rooted(h), NEW draws, Len(draws) \in Nat
  PROVE  Ran(h, DrawAll(h, draws))
<1> DEFINE N == Len(draws)
           Step(k, n) == BuildDraw(k, draws[n], n - 1)
           Whole(f, m) == f = [n \in 0 .. m |-> IF n = 0 THEN h ELSE Step(f[n - 1], n)]
           run == CHOOSE f : Whole(f, N)
<1>1. DrawAll(h, draws) = run[N]
  BY DEF DrawAll
<1>2. ASSUME NEW k, Rooted(k), NEW n PROVE Ran(k, Step(k, n))
  BY <1>2, BuildStill
<1> HIDE DEF Step
<1>3. PICK n1 : n1 = N
  OBVIOUS
<1>4. n1 \in Nat
  BY <1>3
<1>5. \E f : Whole(f, n1)
  <2> DEFINE T == {n \in 0 .. n1 : \E f : Whole(f, n)}
  <2>1. 0 \in T
    <3>1. Whole([v \in 0 .. 0 |-> h], 0)
      OBVIOUS
    <3> HIDE DEF Whole
    <3>2. QED
      BY <1>4, <3>1
  <2>2. ASSUME NEW n \in 1 .. n1, n - 1 \in T PROVE n \in T
    <3>1. PICK f : Whole(f, n - 1)
      BY <2>2
    <3> DEFINE e == [v \in 0 .. n |-> IF v = n THEN Step(f[n - 1], n) ELSE f[v]]
    <3>2. ASSUME NEW v \in 0 .. n PROVE e[v] = IF v = 0 THEN h ELSE Step(e[v - 1], v)
      BY <1>4, <2>2, <3>1
    <3>3. Whole(e, n)
      BY <3>2
    <3> HIDE DEF Whole, e
    <3>4. QED
      BY <3>3
  <2> HIDE DEF T
  <2>3. n1 \in T
    BY <1>4, <2>1, <2>2, Climb
  <2>4. QED
    BY <2>3 DEF T
<1>6. Whole(run, n1)
  <2> HIDE DEF Whole
  <2>1. QED
    BY <1>3, <1>5
<1> HIDE DEF run
<1>7. Ran(h, run[n1])
  <2> DEFINE T == {n \in 0 .. n1 : Ran(h, run[n])}
  <2>1. 0 \in T
    BY <1>4, <1>6, RanTransitive
  <2>2. ASSUME NEW n \in 1 .. n1, n - 1 \in T PROVE n \in T
    <3>1. run[n] = Step(run[n - 1], n)
      BY <1>4, <1>6
    <3>2. PICK k : k = run[n - 1] /\ Ran(h, k)
      BY <2>2
    <3>3. Ran(k, Step(k, n))
      BY <1>2, <3>2, RanTransitive
    <3>4. Ran(h, run[n])
      BY <3>1, <3>2, <3>3, RanTransitive
    <3>5. QED
      BY <3>4
  <2> HIDE DEF T
  <2>3. n1 \in T
    BY <1>4, <2>1, <2>2, Climb
  <2>4. QED
    BY <2>3 DEF T
<1>8. QED
  BY <1>1, <1>3, <1>7

(***************************************************************************)
(* Flushing the state binds nothing, and leaves the vertex format current  *)
(***************************************************************************)
(* The depth range of every viewport. *)
LEMMA ViewportsStill ==
  ASSUME NEW h, Rooted(h), NEW c, c.dyn["VP_VIEWPORT_COUNT"] \in Nat
  PROVE  Still(h, FlushVp(h, c))
<1> DEFINE N == c.dyn["VP_VIEWPORT_COUNT"]
           Step(k, n) == SetViewportMinMaxZ(k, n, ClampRange(c, n))
           Whole(f, m) == f = [n \in 0 .. m |-> IF n = 0 THEN h ELSE Step(f[n - 1], n)]
           set == CHOOSE f : Whole(f, N)
<1>1. FlushVp(h, c) = IF Dirty(c, ViewportStates) THEN set[N] ELSE h
  BY DEF FlushVp
<1>2. ASSUME NEW k, Rooted(k), NEW n PROVE Still(k, Step(k, n))
  BY <1>2, ShadowStill
<1> HIDE DEF Step
<1>3. PICK n1 : n1 = N
  OBVIOUS
<1>4. n1 \in Nat
  BY <1>3
<1>5. \E f : Whole(f, n1)
  <2> DEFINE T == {n \in 0 .. n1 : \E f : Whole(f, n)}
  <2>1. 0 \in T
    <3>1. Whole([v \in 0 .. 0 |-> h], 0)
      OBVIOUS
    <3> HIDE DEF Whole
    <3>2. QED
      BY <1>4, <3>1
  <2>2. ASSUME NEW n \in 1 .. n1, n - 1 \in T PROVE n \in T
    <3>1. PICK f : Whole(f, n - 1)
      BY <2>2
    <3> DEFINE e == [v \in 0 .. n |-> IF v = n THEN Step(f[n - 1], n) ELSE f[v]]
    <3>2. ASSUME NEW v \in 0 .. n PROVE e[v] = IF v = 0 THEN h ELSE Step(e[v - 1], v)
      BY <1>4, <2>2, <3>1
    <3>3. Whole(e, n)
      BY <3>2
    <3> HIDE DEF Whole, e
    <3>4. QED
      BY <3>3
  <2> HIDE DEF T
  <2>3. n1 \in T
    BY <1>4, <2>1, <2>2, Climb
  <2>4. QED
    BY <2>3 DEF T
<1>6. Whole(set, n1)
  <2> HIDE DEF Whole
  <2>1. QED
    BY <1>3, <1>5
<1> HIDE DEF set
<1>7. Still(h, set[n1])
  <2> DEFINE T == {n \in 0 .. n1 : Still(h, set[n])}
  <2>1. 0 \in T
    BY <1>4, <1>6, StillTransitive
  <2>2. ASSUME NEW n \in 1 .. n1, n - 1 \in T PROVE n \in T
    <3>1. set[n] = Step(set[n - 1], n)
      BY <1>4, <1>6
    <3>2. PICK k : k = set[n - 1] /\ Still(h, k)
      BY <2>2
    <3>3. Still(k, Step(k, n))
      BY <1>2, <3>2, StillTransitive
    <3>4. Still(h, set[n])
      BY <3>1, <3>2, <3>3, StillTransitive
    <3>5. QED
      BY <3>4
  <2> HIDE DEF T
  <2>3. n1 \in T
    BY <1>4, <2>1, <2>2, Climb
  <2>4. QED
    BY <2>3 DEF T
<1>8. QED
  BY <1>1, <1>3, <1>7, StillTransitive

(* The states that only macros and registers hold. *)
LEMMA FlushStill ==
  ASSUME NEW h, Rooted(h), NEW c
  PROVE  /\ Still(h, FlushTs(h, c)) /\ Still(h, FlushRs(h, c))
         /\ Still(h, FlushMs(h, c))
<1>1. Still(h, h)
  BY StillTransitive
<1>2. Still(h, FlushTs(h, c))
  BY <1>1, ShadowStill DEF FlushTs
<1>3. Still(h, FlushRs(h, c))
  <2>1. PICK k : /\ k = h \/ k = SetZClamp(h, c.dyn["RS_DEPTH_CLAMP_ENABLE"])
                 /\ \/ FlushRs(h, c) = k
                    \/ FlushRs(h, c)
                         = SetConservativeRaster(k, c.dyn["RS_EXTRA_PRIMITIVE_OVERESTIMATION_SIZE"])
    BY DEF FlushRs
  <2>2. Still(h, k)
    BY <1>1, <2>1, ShadowStill
  <2>3. Still(k, SetConservativeRaster(k, c.dyn["RS_EXTRA_PRIMITIVE_OVERESTIMATION_SIZE"]))
    <3>1. PICK l : l = SetConservativeRaster(k, c.dyn["RS_EXTRA_PRIMITIVE_OVERESTIMATION_SIZE"])
      OBVIOUS
    <3>2. Ran(k, l)
      BY <2>2, <3>1, ShadowStill, StillTransitive
    <3>3. QED
      BY <3>1, <3>2, RanTransitive
  <2>4. QED
    BY <2>1, <2>2, <2>3, StillTransitive
<1>4. Still(h, FlushMs(h, c))
  <2>1. PICK k : /\ k = h \/ k = SetSampleLayout(h, SampleCount(c))
                 /\ \/ FlushMs(h, c) = k
                    \/ FlushMs(h, c) = LoadConstant(k, "sample_locations", SampleLocations(c))
    BY DEF FlushMs
  <2>2. Still(h, k)
    BY <1>1, <2>1, AntiAliasStill
  <2>3. Still(k, LoadConstant(k, "sample_locations", SampleLocations(c)))
    BY <2>2, LoadStill, StillTransitive DEF Cb0Fields
  <2>4. QED
    BY <2>1, <2>2, <2>3, StillTransitive
<1>5. QED
  BY <1>2, <1>3, <1>4

(* A stream fetches if it is enabled, and a clean vertex state is that of c. *)
Formatted(vb) == \A s \in Streams : vb.format[s].enable = (s \in vb.enables)
CleanIn(c, states) == states \subseteq c.set \ c.dirty
VertexState == {"VI_BINDINGS_VALID", "VI_BINDING_STRIDES"}
VertexCurrent(c, h) ==
  LET valid == c.dyn["VI_BINDINGS_VALID"]
  IN /\ Formatted(h.vb)
     /\ CleanIn(c, {"VI_BINDINGS_VALID"}) => h.vb.enables = valid
     /\ CleanIn(c, VertexState) =>
          \A s \in valid : h.vb.format[s].stride = c.dyn["VI_BINDING_STRIDES"]

(* The two macros of the vertex streams. *)
LEMMA StreamMacros ==
  ASSUME NEW h, Rooted(h), Formatted(h.vb), NEW stride
  PROVE  /\ \A valid : LET k == SetVbEnables(h, valid)
                       IN Shifted(h, k) /\ Formatted(k.vb) /\ k.vb.enables = valid
         /\ \A s \in Streams :
              LET k == SetVbStride(h, s, stride)
              IN /\ Shifted(h, k) /\ Formatted(k.vb) /\ k.vb.enables = h.vb.enables
                 /\ \A t \in Streams : k.vb.format[t].stride =
                                       IF t = s THEN stride ELSE h.vb.format[t].stride
<1>1. ASSUME NEW valid
      PROVE  LET k == SetVbEnables(h, valid)
             IN Shifted(h, k) /\ Formatted(k.vb) /\ k.vb.enables = valid
  <2> DEFINE format == [s \in Streams |->
               IF (s \in valid) # (s \in h.vb.enables)
               THEN [h.vb.format[s] EXCEPT !.enable = s \in valid] ELSE h.vb.format[s]]
             k == SetVbEnables(h, valid)
  <2>1. k = [h EXCEPT !.vb.enables = valid, !.vb.format = format]
    BY DEF SetVbEnables
  <2>2. \A s \in Streams : /\ format[s].enable = (s \in valid)
                           /\ DOMAIN format[s] = {"enable", "stride"}
    BY DEF Rooted, IsVb, Formatted
  <2>3. DOMAIN format = Streams
    OBVIOUS
  <2> HIDE DEF format, k
  <2>4. /\ k.vb = [h.vb EXCEPT !.enables = valid, !.format = format]
        /\ DOMAIN k = EngineFields /\ \A x \in EngineFields \ {"vb"} : k[x] = h[x]
    BY <2>1 DEF Rooted, EngineFields
  <2>5. /\ k.vb.enables = valid /\ k.vb.format = format /\ k.vb.range = h.vb.range
        /\ DOMAIN k.vb = DOMAIN h.vb
    BY <2>4 DEF Rooted, IsVb
  <2>6. Formatted(k.vb) /\ IsVb(k.vb)
    BY <2>2, <2>3, <2>5 DEF Formatted, IsVb, Rooted
  <2>7. Shifted(h, k)
    BY <2>4, <2>5, <2>6 DEF Shifted, Aloof, Colors, Kept, Rooted, EngineFields
  <2>8. QED
    BY <2>5, <2>6, <2>7 DEF k
<1>2. ASSUME NEW s \in Streams
      PROVE  LET k == SetVbStride(h, s, stride)
             IN /\ Shifted(h, k) /\ Formatted(k.vb) /\ k.vb.enables = h.vb.enables
                /\ \A t \in Streams : k.vb.format[t].stride =
                                      IF t = s THEN stride ELSE h.vb.format[t].stride
  <2> DEFINE format == [h.vb.format EXCEPT ![s].stride = stride]
             k == SetVbStride(h, s, stride)
  <2>1. k = [h EXCEPT !.vb.format = format]
    BY DEF SetVbStride, Rooted, IsVb, EngineFields
  <2>2. \A t \in Streams : /\ format[t].enable = h.vb.format[t].enable
                           /\ format[t].stride = IF t = s THEN stride ELSE h.vb.format[t].stride
                           /\ DOMAIN format[t] = {"enable", "stride"}
    BY DEF Rooted, IsVb
  <2>3. DOMAIN format = Streams
    BY DEF Rooted, IsVb
  <2> HIDE DEF format, k
  <2>4. /\ k.vb = [h.vb EXCEPT !.format = format]
        /\ DOMAIN k = EngineFields /\ \A x \in EngineFields \ {"vb"} : k[x] = h[x]
    BY <2>1 DEF Rooted, EngineFields
  <2>5. /\ k.vb.enables = h.vb.enables /\ k.vb.format = format /\ k.vb.range = h.vb.range
        /\ DOMAIN k.vb = DOMAIN h.vb
    BY <2>4 DEF Rooted, IsVb
  <2>6. Formatted(k.vb) /\ IsVb(k.vb)
    BY <2>2, <2>3, <2>5 DEF Formatted, IsVb, Rooted
  <2>7. Shifted(h, k)
    BY <2>4, <2>5, <2>6 DEF Shifted, Aloof, Colors, Kept, Rooted, EngineFields
  <2>8. QED
    BY <2>2, <2>5, <2>6, <2>7 DEF k
<1>3. QED
  BY <1>1, <1>2

(* The enables and the strides of the streams that are enabled. *)
LEMMA FlushViFacts ==
  ASSUME NEW h, Rooted(h), Formatted(h.vb), NEW c, c.dyn["VI_BINDINGS_VALID"] \subseteq Streams
  PROVE  LET valid == c.dyn["VI_BINDINGS_VALID"]
             k     == FlushVi(h, c)
         IN /\ Shifted(h, k) /\ Formatted(k.vb)
            /\ k.vb.enables = IF "VI_BINDINGS_VALID" \in c.dirty THEN valid ELSE h.vb.enables
            /\ IF Dirty(c, VertexState)
               THEN \A s \in valid : k.vb.format[s].stride = c.dyn["VI_BINDING_STRIDES"]
               ELSE k = h
<1> DEFINE valid  == c.dyn["VI_BINDINGS_VALID"]
           stride == c.dyn["VI_BINDING_STRIDES"]
           g1 == IF Dirty(c, {"VI_BINDINGS_VALID"}) THEN SetVbEnables(h, valid) ELSE h
           Step(k, n) == IF n - 1 \in valid THEN SetVbStride(k, n - 1, stride) ELSE k
           Whole(f, m) == f = [n \in 0 .. m |-> IF n = 0 THEN g1 ELSE Step(f[n - 1], n)]
           set == CHOOSE f : Whole(f, NumStreams)
           Right(k, n) == /\ Shifted(h, k) /\ Formatted(k.vb) /\ k.vb.enables = g1.vb.enables
                          /\ \A s \in valid : s < n => k.vb.format[s].stride = stride
<1>1. FlushVi(h, c) = IF Dirty(c, VertexState) THEN set[NumStreams] ELSE g1
  <2>1. FlushVi(h, c) = IF Dirty(c, VertexState)
                        THEN (CHOOSE f : f = [n \in 0 .. NumStreams |-> IF n = 0 THEN g1
                                ELSE IF n - 1 \in valid THEN SetVbStride(f[n - 1], n - 1, stride)
                                     ELSE f[n - 1]])[NumStreams] ELSE g1
    BY DEF FlushVi, VertexState
  <2>2. QED
    BY <2>1
<1>2. /\ Shifted(h, g1) /\ Formatted(g1.vb)
      /\ g1.vb.enables = IF "VI_BINDINGS_VALID" \in c.dirty THEN valid ELSE h.vb.enables
      /\ ~Dirty(c, VertexState) => g1 = h
  <2>1. Dirty(c, {"VI_BINDINGS_VALID"}) <=> "VI_BINDINGS_VALID" \in c.dirty
    BY DEF Dirty
  <2>2. ~Dirty(c, VertexState) => ~Dirty(c, {"VI_BINDINGS_VALID"})
    BY DEF Dirty, VertexState
  <2>3. Shifted(h, h)
    BY RanTransitive
  <2>4. QED
    BY <2>1, <2>2, <2>3, StreamMacros
<1> HIDE DEF g1
<1>3. NumStreams \in Nat /\ Streams = 0 .. NumStreams - 1
  BY MmeAssumption DEF Streams
<1>4. ASSUME NEW n \in 1 .. NumStreams, NEW k, Right(k, n - 1) PROVE Right(Step(k, n), n)
  <2>1. Rooted(k) /\ n - 1 \in Streams
    BY <1>3, <1>4 DEF Shifted, Kept
  <2>2. CASE n - 1 \in valid
    <3>1. PICK l : l = SetVbStride(k, n - 1, stride)
      OBVIOUS
    <3>2. /\ Shifted(k, l) /\ Formatted(l.vb) /\ l.vb.enables = k.vb.enables
          /\ \A t \in Streams : l.vb.format[t].stride = IF t = n - 1 THEN stride ELSE k.vb.format[t].stride
      BY <1>4, <2>1, <3>1, StreamMacros
    <3>3. Shifted(h, l)
      BY <1>4, <3>2, RanTransitive
    <3>4. \A s \in valid : s < n => s = n - 1 \/ s < n - 1
      BY <1>3
    <3>5. QED
      BY <1>4, <2>2, <3>1, <3>2, <3>3, <3>4
  <2>3. CASE n - 1 \notin valid
    <3>1. \A s \in valid : s < n => s < n - 1
      BY <1>3, <2>3
    <3>2. QED
      BY <1>4, <2>3, <3>1
  <2>4. QED
    BY <2>2, <2>3
<1>5. Right(g1, 0)
  BY <1>2, <1>3
<1> HIDE DEF Step, Right
<1>6. \E f : Whole(f, NumStreams)
  <2> DEFINE T == {n \in 0 .. NumStreams : \E f : Whole(f, n)}
  <2>1. 0 \in T
    <3>1. Whole([v \in 0 .. 0 |-> g1], 0)
      OBVIOUS
    <3> HIDE DEF Whole
    <3>2. QED
      BY <1>3, <3>1
  <2>2. ASSUME NEW n \in 1 .. NumStreams, n - 1 \in T PROVE n \in T
    <3>1. PICK f : Whole(f, n - 1)
      BY <2>2
    <3> DEFINE e == [v \in 0 .. n |-> IF v = n THEN Step(f[n - 1], n) ELSE f[v]]
    <3>2. ASSUME NEW v \in 0 .. n PROVE e[v] = IF v = 0 THEN g1 ELSE Step(e[v - 1], v)
      BY <1>3, <2>2, <3>1
    <3>3. Whole(e, n)
      BY <3>2
    <3> HIDE DEF Whole, e
    <3>4. QED
      BY <3>3
  <2> HIDE DEF T
  <2>3. NumStreams \in T
    BY <1>3, <2>1, <2>2, Climb
  <2>4. QED
    BY <2>3 DEF T
<1>7. Whole(set, NumStreams)
  <2> HIDE DEF Whole
  <2>1. QED
    BY <1>6
<1> HIDE DEF set
<1>8. Right(set[NumStreams], NumStreams)
  <2> DEFINE T == {n \in 0 .. NumStreams : Right(set[n], n)}
  <2>1. 0 \in T
    BY <1>3, <1>5, <1>7
  <2>2. ASSUME NEW n \in 1 .. NumStreams, n - 1 \in T PROVE n \in T
    <3>1. set[n] = Step(set[n - 1], n)
      BY <1>3, <1>7
    <3>2. Right(set[n - 1], n - 1)
      BY <2>2
    <3>3. Right(set[n], n)
      BY <1>4, <3>1, <3>2
    <3>4. QED
      BY <3>3
  <2> HIDE DEF T
  <2>3. NumStreams \in T
    BY <1>3, <2>1, <2>2, Climb
  <2>4. QED
    BY <2>3 DEF T
<1>9. \A s \in valid : s < NumStreams
  BY <1>3
<1>10. CASE Dirty(c, VertexState)
  BY <1>1, <1>2, <1>8, <1>9, <1>10 DEF Right
<1>11. CASE ~Dirty(c, VertexState)
  BY <1>1, <1>2, <1>11
<1>12. QED
  BY <1>10, <1>11

(***************************************************************************)
(* The state in the engine                                                 *)
(***************************************************************************)
(* No application varies how many viewports or scissors there are: the       *)
(* viewports below a count that was raised are not written again.           *)
FixedCounts == \A app \in Scenarios : app.vary \cap Counts = {}

(* No secondary names samples for a pass that has no attachments.            *)
NothingInherited == \A app \in Scenarios : app.inherits \subseteq {0}

(* The engine has eight targets (NVK_MAX_RTS): a mask of all is a word.      *)
FewTargets == NumTargets <= 8

(* What the macros keep among their registers and scratch.                   *)
TessTuned(t) ==
  /\ DOMAIN t = {"params", "hw"} /\ DOMAIN t.params = {"domain", "prims", "lower_left"}
  /\ t.hw = TessHw(t.params)
DepthTuned(z) ==
  /\ DOMAIN z = {"clamp", "range", "clip"} /\ DOMAIN z.range = Viewports /\ DOMAIN z.clip = Viewports
  /\ ResetClip = INF => z.clip = IF z.clamp THEN z.range ELSE [i \in Viewports |-> INF]

Masks(p, two, four) ==
  LET passes == PassesLog2(p)
  IN CASE p.samples = passes -> EachAlone
       [] p.samples # passes /\ passes = 0 -> [s \in Samples |-> Samples]
       [] p.samples # passes /\ passes = 1 -> two
       [] p.samples # passes /\ passes = 2 -> four
Rates == {0, 1, 4, 15}
LaidOut(aa, n) ==
  /\ aa.params.samples = Log2(n) /\ aa.mode = SampleLayout(n)
  /\ aa.two = TwoPassMasks(SampleLayout(n)) /\ aa.four = FourPassMasks(SampleLayout(n))
SamplingTuned(aa, masks) ==
  /\ DOMAIN aa = {"params", "passes", "mode", "two", "four"}
  /\ DOMAIN aa.params = {"rcp", "samples"} /\ aa.params.rcp \in Rates
  /\ aa.passes = 2^PassesLog2(aa.params)
  /\ \E n \in SampleCounts : LaidOut(aa, n)
  /\ aa.params.rcp # 15 => masks = Masks(aa.params, aa.two, aa.four)

Tuned(h) == TessTuned(h.tess) /\ DepthTuned(h.z) /\ SamplingTuned(h.aa, h.cb0.sample_masks)

(* The states a write mask is made of, besides the pass. *)
MaskStates == {"CB_WRITE_MASKS", "CB_COLOR_WRITE_ENABLES", "RP_ATTACHMENTS", "COLOR_ATTACHMENT_MAP"}

(* Each target of the pass has its own mask, and none is taken for another's. *)
MasksIn(c, h) ==
  /\ \A a \in 0 .. c.render.count - 1 : h.write[a] = WriteMask(c, a)
  /\ h.single => c.render.count = 0

(* From the start of a pass, the samples of its attachments are in the       *)
(* engine, and a target beyond them is null.                                 *)
PassIn(render, h) ==
  /\ render.in /\ NothingInherited /\ render.samples # 0 => h.aa.params.samples = Log2(render.samples)
  /\ render.in => \A a \in Targets : a < render.count \/ h.target[a] = NULL

(* The clean states of c are in the engine: in the depth range, ...          *)
DepthIn(c, z) ==
  /\ CleanIn(c, {"RS_DEPTH_CLAMP_ENABLE"}) => z.clamp = c.dyn["RS_DEPTH_CLAMP_ENABLE"]
  /\ FixedCounts /\ CleanIn(c, ViewportStates) =>
       \A i \in 1 .. c.dyn["VP_VIEWPORT_COUNT"] : z.range[i] = ClampRange(c, i)

(* the tessellator, ...                                                      *)
TessIn(c, p) ==
  /\ CleanIn(c, {"TS_DOMAIN_ORIGIN"}) => p.lower_left = (c.dyn["TS_DOMAIN_ORIGIN"] = "lower_left")
  /\ "tes" \notin c.shaders_dirty /\ c.shaders["tes"] # NULL =>
       p.domain = Shader(c.shaders["tes"]).domain /\ p.prims = Shader(c.shaders["tes"]).prims

(* the samples, ...                                                          *)
SamplesIn(c, p) ==
  /\ "fs" \notin c.shaders_dirty /\ c.shaders["fs"] # NULL => p.rcp = Shader(c.shaders["fs"]).rcp
  /\ c.render.in /\ c.render.samples = 0 /\ CleanIn(c, {"MS_RASTERIZATION_SAMPLES"}) =>
       p.samples = Log2(SampleCount(c))

(* the targets, ...                                                          *)
ColorIn(c, h) ==
  /\ CleanIn(c, {"COLOR_ATTACHMENT_MAP"}) =>
       h.reg[<<"CT_SELECT", 0>>] = CtSelect(c.dyn["COLOR_ATTACHMENT_MAP"])
  /\ FewTargets /\ c.render.in /\ CleanIn(c, MaskStates) => MasksIn(c, h)

(* and the registers.                                                        *)
RowsIn(c, reg) ==
  FixedCounts => \A r \in DOMAIN Rows(c) : Settled(c, Rows(c)[r].on) => reg[r] = Rows(c)[r].val

DynIn(c, h) == /\ DepthIn(c, h.z) /\ TessIn(c, h.tess.params)
               /\ SamplesIn(c, h.aa.params) /\ RowsIn(c, h.reg) /\ ColorIn(c, h)

StateCurrent(c, h) == Tuned(h) /\ PassIn(c.render, h) /\ DynIn(c, h)

(* d asks for no more than c: what is clean in it is clean in c.             *)
Follows(c, d) ==
  /\ \A s \in d.set \ d.dirty : s \in c.set \ c.dirty /\ d.dyn[s] = c.dyn[s]
  /\ FixedCounts => d.set \subseteq d.dirty \/ \A s \in Counts : d.dyn[s] = c.dyn[s]
  /\ d.render = c.render \/ ~d.render.in \/ PassStates \cap d.set \subseteq d.dirty
  /\ \A s \in {"tes", "fs"} : s \notin d.shaders_dirty =>
       s \notin c.shaders_dirty /\ d.shaders[s] = c.shaders[s]

(* What c knows of the engine is known of d.                                 *)
LEMMA StateLocal ==
  ASSUME NEW c, NEW d, NEW h, Follows(c, d), Bounded(c), Bounded(d), StateCurrent(c, h),
         PassIn(d.render, h)
  PROVE  StateCurrent(d, h)
<1>1. ASSUME NEW states, CleanIn(d, states)
      PROVE  CleanIn(c, states) /\ \A s \in states : d.dyn[s] = c.dyn[s]
  BY <1>1 DEF CleanIn, Follows
<1>2. DepthIn(d, h.z)
  <2>1. CleanIn(d, {"RS_DEPTH_CLAMP_ENABLE"}) => h.z.clamp = d.dyn["RS_DEPTH_CLAMP_ENABLE"]
    BY <1>1 DEF StateCurrent, DynIn, DepthIn
  <2>2. ASSUME FixedCounts, CleanIn(d, ViewportStates), NEW i \in 1 .. d.dyn["VP_VIEWPORT_COUNT"]
        PROVE  h.z.range[i] = ClampRange(d, i)
    <3>1. ~(d.set \subseteq d.dirty)
      BY <2>2 DEF CleanIn, ViewportStates
    <3>2. d.dyn["VP_VIEWPORT_COUNT"] = c.dyn["VP_VIEWPORT_COUNT"]
      BY <2>2, <3>1 DEF Follows, Counts
    <3>3. CleanIn(c, ViewportStates) /\ ClampRange(d, i) = ClampRange(c, i)
      BY <1>1, <2>2 DEF ViewportStates, ClampRange
    <3>4. QED
      BY <2>2, <3>2, <3>3 DEF StateCurrent, DynIn, DepthIn
  <2>3. QED
    BY <2>1, <2>2 DEF DepthIn
<1>3. TessIn(d, h.tess.params)
  <2>1. TessIn(c, h.tess.params)
    BY DEF StateCurrent, DynIn
  <2>2. CleanIn(d, {"TS_DOMAIN_ORIGIN"}) =>
          CleanIn(c, {"TS_DOMAIN_ORIGIN"}) /\ d.dyn["TS_DOMAIN_ORIGIN"] = c.dyn["TS_DOMAIN_ORIGIN"]
    BY <1>1
  <2>3. "tes" \notin d.shaders_dirty => "tes" \notin c.shaders_dirty /\ d.shaders["tes"] = c.shaders["tes"]
    BY DEF Follows
  <2>4. QED
    BY <2>1, <2>2, <2>3 DEF TessIn
<1>4. SamplesIn(d, h.aa.params)
  <2>1. SamplesIn(c, h.aa.params)
    BY DEF StateCurrent, DynIn
  <2>2. "fs" \notin d.shaders_dirty => "fs" \notin c.shaders_dirty /\ d.shaders["fs"] = c.shaders["fs"]
    BY DEF Follows
  <2>3. ASSUME d.render.in, d.render.samples = 0, CleanIn(d, {"MS_RASTERIZATION_SAMPLES"})
        PROVE  h.aa.params.samples = Log2(SampleCount(d))
    <3>1. d.render = c.render
      BY <2>3 DEF Follows, PassStates, CleanIn
    <3>2. CleanIn(c, {"MS_RASTERIZATION_SAMPLES"}) /\ SampleCount(d) = SampleCount(c)
      BY <1>1, <2>3 DEF SampleCount
    <3>3. QED
      BY <2>1, <2>3, <3>1, <3>2 DEF SamplesIn
  <2>4. QED
    BY <2>1, <2>2, <2>3 DEF SamplesIn
<1>5. RowsIn(d, h.reg)
  <2>1. SUFFICES ASSUME FixedCounts, NEW r \in DOMAIN Rows(d), Settled(d, Rows(d)[r].on)
                 PROVE  h.reg[r] = Rows(d)[r].val
    BY DEF RowsIn
  <2>2. Carries(c, d)
    BY <2>1 DEF Follows, Carries
  <2>3. Local(Rows(c), Rows(d), d, Registers)
    BY <2>2, LocalRows
  <2>4. r \in DOMAIN Rows(c) /\ Rows(c)[r] = Rows(d)[r] /\ Rows(d)[r].on # {}
    BY <2>1, <2>3 DEF Local
  <2>5. Settled(c, Rows(c)[r].on)
    BY <2>1, <2>2, <2>4 DEF Settled, Carries
  <2>6. QED
    BY <2>1, <2>4, <2>5 DEF StateCurrent, DynIn, RowsIn
<1>6. ColorIn(d, h)
  <2>1. ColorIn(c, h)
    BY DEF StateCurrent, DynIn
  <2>2. CleanIn(d, {"COLOR_ATTACHMENT_MAP"}) =>
          /\ CleanIn(c, {"COLOR_ATTACHMENT_MAP"})
          /\ d.dyn["COLOR_ATTACHMENT_MAP"] = c.dyn["COLOR_ATTACHMENT_MAP"]
    BY <1>1
  <2>3. ASSUME d.render.in, CleanIn(d, MaskStates), MasksIn(c, h) PROVE MasksIn(d, h)
    <3>1. d.render = c.render
      BY <2>3 DEF Follows, PassStates, CleanIn, MaskStates
    <3>2. \A s \in MaskStates : d.dyn[s] = c.dyn[s]
      BY <1>1, <2>3
    <3>3. \A a : WriteMask(d, a) = WriteMask(c, a)
      BY <3>1, <3>2 DEF WriteMask, MaskStates
    <3>4. QED
      BY <2>3, <3>1, <3>3 DEF MasksIn
  <2>4. d.render.in /\ CleanIn(d, MaskStates) => c.render.in /\ CleanIn(c, MaskStates)
    BY <1>1 DEF Follows, PassStates, CleanIn, MaskStates
  <2>5. QED
    BY <2>1, <2>2, <2>3, <2>4 DEF ColorIn
<1>7. QED
  BY <1>2, <1>3, <1>4, <1>5, <1>6 DEF StateCurrent, DynIn

(* An engine with the same rasterization state. *)
LEMMA StateAloof ==
  ASSUME NEW h, NEW k, Aloof(h, k)
  PROVE  /\ Tuned(h) => Tuned(k)
         /\ \A r : PassIn(r, h) => PassIn(r, k)
         /\ \A c : (DynIn(c, h) => DynIn(c, k)) /\ (StateCurrent(c, h) => StateCurrent(c, k))
BY DEF Aloof, Colors, Tuned, PassIn, DynIn, ColorIn, MasksIn, StateCurrent

(* Macros that shadow a register, and what they leave alone. *)
LEMMA TessFacts ==
  ASSUME NEW h, Rooted(h), TessTuned(h.tess), NEW part
  PROVE  LET k == SetTessParams(h, part)
         IN /\ k.z = h.z /\ k.aa = h.aa /\ k.reg = h.reg /\ k.cb0 = h.cb0
            /\ TessTuned(k.tess) /\ k.tess.params = SetMasked(h.tess.params, part)
<1>1. PICK params : params = SetMasked(h.tess.params, part)
  OBVIOUS
<1>2. PICK tess : tess = [params |-> params, hw |-> TessHw(params)]
  OBVIOUS
<1>3. DOMAIN params = {"domain", "prims", "lower_left"}
  BY <1>1 DEF SetMasked, TessTuned
<1>4. PICK k : k = SetTessParams(h, part)
  OBVIOUS
<1>5. k = IF params = h.tess.params THEN h ELSE [h EXCEPT !.tess = tess]
  BY <1>1, <1>2, <1>4 DEF SetTessParams
<1>6. CASE params = h.tess.params
  BY <1>1, <1>4, <1>5, <1>6
<1>7. CASE params # h.tess.params
  <2>1. k.tess = tess /\ k.z = h.z /\ k.aa = h.aa /\ k.reg = h.reg /\ k.cb0 = h.cb0
    BY <1>5, <1>7 DEF Rooted, EngineFields
  <2>2. TessTuned(tess) /\ tess.params = params
    BY <1>2, <1>3 DEF TessTuned
  <2>3. QED
    BY <1>1, <1>4, <2>1, <2>2
<1>8. QED
  BY <1>6, <1>7

(* The flush of the tessellation state sets the origin, if it is dirty. *)
LEMMA FlushTsFacts ==
  ASSUME NEW h, Rooted(h), TessTuned(h.tess), NEW c
  PROVE  LET k == FlushTs(h, c)
             p == k.tess.params
         IN /\ k.z = h.z /\ k.aa = h.aa /\ k.reg = h.reg /\ k.cb0 = h.cb0
            /\ TessTuned(k.tess) /\ p.domain = h.tess.params.domain /\ p.prims = h.tess.params.prims
            /\ p.lower_left = IF "TS_DOMAIN_ORIGIN" \in c.dirty
                              THEN c.dyn["TS_DOMAIN_ORIGIN"] = "lower_left"
                              ELSE h.tess.params.lower_left
<1>1. PICK k : k = FlushTs(h, c)
  OBVIOUS
<1>2. CASE "TS_DOMAIN_ORIGIN" \notin c.dirty
  <2>1. k = h
    BY <1>1, <1>2 DEF FlushTs, Dirty
  <2>2. QED
    BY <1>1, <1>2, <2>1
<1>3. CASE "TS_DOMAIN_ORIGIN" \in c.dirty
  <2>1. PICK b : b = (c.dyn["TS_DOMAIN_ORIGIN"] = "lower_left")
    OBVIOUS
  <2>2. PICK part : part = [lower_left |-> b]
    OBVIOUS
  <2>3. k = SetTessParams(h, part)
    BY <1>1, <1>3, <2>1, <2>2 DEF FlushTs, Dirty
  <2>4. /\ k.z = h.z /\ k.aa = h.aa /\ k.reg = h.reg /\ k.cb0 = h.cb0
        /\ TessTuned(k.tess) /\ k.tess.params = SetMasked(h.tess.params, part)
    BY <2>3, TessFacts
  <2>5. /\ k.tess.params.lower_left = b /\ k.tess.params.domain = h.tess.params.domain
        /\ k.tess.params.prims = h.tess.params.prims
    BY <2>2, <2>4 DEF SetMasked, TessTuned
  <2>6. QED
    BY <1>1, <1>3, <2>1, <2>4, <2>5
<1>4. QED
  BY <1>2, <1>3

(* Clamping depth brings back the range, and not clamping removes it. *)
LEMMA ZClampFacts ==
  ASSUME NEW h, Rooted(h), DepthTuned(h.z), NEW clamp
  PROVE  LET k == SetZClamp(h, clamp)
         IN /\ k.tess = h.tess /\ k.aa = h.aa /\ k.reg = h.reg /\ k.cb0 = h.cb0
            /\ DepthTuned(k.z) /\ k.z.clamp = clamp /\ k.z.range = h.z.range
<1>1. PICK k : k = SetZClamp(h, clamp)
  OBVIOUS
<1>2. CASE clamp = h.z.clamp
  BY <1>1, <1>2 DEF SetZClamp
<1>3. CASE clamp # h.z.clamp
  <2>1. PICK clip : clip = IF clamp THEN h.z.range ELSE [i \in Viewports |-> INF]
    OBVIOUS
  <2>2. k = [h EXCEPT !.z.clamp = clamp, !.z.clip = clip]
    BY <1>1, <1>3, <2>1 DEF SetZClamp
  <2>3. /\ k.tess = h.tess /\ k.aa = h.aa /\ k.reg = h.reg /\ k.cb0 = h.cb0
        /\ k.z = [h.z EXCEPT !.clamp = clamp, !.clip = clip]
    BY <2>2 DEF Rooted, EngineFields
  <2>4. /\ k.z.clamp = clamp /\ k.z.clip = clip /\ k.z.range = h.z.range
        /\ DOMAIN k.z = {"clamp", "range", "clip"}
    BY <2>3 DEF DepthTuned
  <2>5. DOMAIN clip = Viewports
    BY <2>1 DEF DepthTuned
  <2>6. DepthTuned(k.z)
    BY <2>1, <2>4, <2>5 DEF DepthTuned
  <2>7. QED
    BY <1>1, <2>3, <2>4, <2>6
<1>4. QED
  BY <1>2, <1>3

(* The range of one viewport. *)
LEMMA MinMaxFacts ==
  ASSUME NEW h, Rooted(h), DepthTuned(h.z), NEW i \in Viewports, NEW range
  PROVE  LET k == SetViewportMinMaxZ(h, i, range)
         IN /\ k.tess = h.tess /\ k.aa = h.aa /\ k.reg = h.reg /\ k.cb0 = h.cb0
            /\ DepthTuned(k.z) /\ k.z.clamp = h.z.clamp
            /\ \A j \in Viewports : k.z.range[j] = IF j = i THEN range ELSE h.z.range[j]
<1>1. PICK k : k = SetViewportMinMaxZ(h, i, range)
  OBVIOUS
<1>2. PICK ranges, clips :
        /\ ranges = [h.z.range EXCEPT ![i] = range]
        /\ clips = [h.z.clip EXCEPT ![i] = IF h.z.clamp THEN range ELSE h.z.clip[i]]
  OBVIOUS
<1>3. k = [h EXCEPT !.z = [h.z EXCEPT !.range = ranges, !.clip = clips]]
  BY <1>1, <1>2 DEF SetViewportMinMaxZ, Rooted, EngineFields, DepthTuned
<1>4. /\ k.tess = h.tess /\ k.aa = h.aa /\ k.reg = h.reg /\ k.cb0 = h.cb0
      /\ k.z = [h.z EXCEPT !.range = ranges, !.clip = clips]
  BY <1>3 DEF Rooted, EngineFields
<1>5. /\ DOMAIN ranges = Viewports /\ DOMAIN clips = Viewports
      /\ \A j \in Viewports : ranges[j] = IF j = i THEN range ELSE h.z.range[j]
      /\ \A j \in Viewports : clips[j] = IF j = i /\ h.z.clamp THEN range ELSE h.z.clip[j]
  BY <1>2 DEF DepthTuned
<1>6. /\ k.z.range = ranges /\ k.z.clip = clips /\ k.z.clamp = h.z.clamp
      /\ DOMAIN k.z = {"clamp", "range", "clip"}
  BY <1>4 DEF DepthTuned
<1>7. ASSUME ResetClip = INF
      PROVE  clips = IF h.z.clamp THEN ranges ELSE [j \in Viewports |-> INF]
  <2>1. h.z.clip = IF h.z.clamp THEN h.z.range ELSE [j \in Viewports |-> INF]
    BY <1>7 DEF DepthTuned
  <2>2. CASE h.z.clamp
    BY <1>2, <2>1, <2>2
  <2>3. CASE ~h.z.clamp
    BY <1>2, <2>1, <2>3
  <2>4. QED
    BY <2>2, <2>3
<1>8. DepthTuned(k.z)
  BY <1>5, <1>6, <1>7 DEF DepthTuned
<1>9. QED
  BY <1>1, <1>4, <1>5, <1>6, <1>8

(* Every viewport below the count takes its range. *)
LEMMA FlushVpFacts ==
  ASSUME NEW h, Rooted(h), DepthTuned(h.z), NEW c, c.dyn["VP_VIEWPORT_COUNT"] \in 1 .. NumViewports
  PROVE  LET k == FlushVp(h, c)
         IN /\ k.tess = h.tess /\ k.aa = h.aa /\ k.reg = h.reg /\ k.cb0 = h.cb0
            /\ DepthTuned(k.z) /\ k.z.clamp = h.z.clamp
            /\ IF Dirty(c, ViewportStates)
               THEN \A i \in 1 .. c.dyn["VP_VIEWPORT_COUNT"] : k.z.range[i] = ClampRange(c, i)
               ELSE k.z = h.z
<1> DEFINE N == c.dyn["VP_VIEWPORT_COUNT"]
           Step(k, n) == SetViewportMinMaxZ(k, n, ClampRange(c, n))
           Whole(f, m) == f = [n \in 0 .. m |-> IF n = 0 THEN h ELSE Step(f[n - 1], n)]
           set == CHOOSE f : Whole(f, N)
           Right(k, n) == /\ Rooted(k) /\ k.tess = h.tess /\ k.aa = h.aa /\ k.reg = h.reg
                          /\ k.cb0 = h.cb0 /\ DepthTuned(k.z) /\ k.z.clamp = h.z.clamp
                          /\ \A i \in Viewports : i <= n => k.z.range[i] = ClampRange(c, i)
<1>1. FlushVp(h, c) = IF Dirty(c, ViewportStates) THEN set[N] ELSE h
  BY DEF FlushVp
<1>2. NumViewports \in Nat /\ N \in 1 .. NumViewports /\ Viewports = 1 .. NumViewports
  BY MmeAssumption DEF Viewports
<1>3. ASSUME NEW n \in 1 .. N, NEW k, Right(k, n - 1) PROVE Right(Step(k, n), n)
  <2>1. n \in Viewports
    BY <1>2
  <2>2. PICK l : l = SetViewportMinMaxZ(k, n, ClampRange(c, n))
    OBVIOUS
  <2>3. Rooted(l)
    BY <1>3, <2>2, ShadowStill, StillTransitive
  <2>4. /\ l.tess = k.tess /\ l.aa = k.aa /\ l.reg = k.reg /\ l.cb0 = k.cb0
        /\ DepthTuned(l.z) /\ l.z.clamp = k.z.clamp
        /\ \A j \in Viewports : l.z.range[j] = IF j = n THEN ClampRange(c, n) ELSE k.z.range[j]
    BY <1>3, <2>1, <2>2, MinMaxFacts
  <2>5. \A i \in Viewports : i <= n => i = n \/ i <= n - 1
    BY <1>2
  <2>6. QED
    BY <1>3, <2>2, <2>3, <2>4, <2>5
<1>4. Right(h, 0)
  BY <1>2
<1> HIDE DEF Step, Right
<1>5. PICK n1 : n1 = N
  OBVIOUS
<1>6. n1 \in Nat
  BY <1>2, <1>5
<1>7. \E f : Whole(f, n1)
  <2> DEFINE T == {n \in 0 .. n1 : \E f : Whole(f, n)}
  <2>1. 0 \in T
    <3>1. Whole([v \in 0 .. 0 |-> h], 0)
      OBVIOUS
    <3> HIDE DEF Whole
    <3>2. QED
      BY <1>6, <3>1
  <2>2. ASSUME NEW n \in 1 .. n1, n - 1 \in T PROVE n \in T
    <3>1. PICK f : Whole(f, n - 1)
      BY <2>2
    <3> DEFINE e == [v \in 0 .. n |-> IF v = n THEN Step(f[n - 1], n) ELSE f[v]]
    <3>2. ASSUME NEW v \in 0 .. n PROVE e[v] = IF v = 0 THEN h ELSE Step(e[v - 1], v)
      BY <1>6, <2>2, <3>1
    <3>3. Whole(e, n)
      BY <3>2
    <3> HIDE DEF Whole, e
    <3>4. QED
      BY <3>3
  <2> HIDE DEF T
  <2>3. n1 \in T
    BY <1>6, <2>1, <2>2, Climb
  <2>4. QED
    BY <2>3 DEF T
<1>8. Whole(set, n1)
  <2> HIDE DEF Whole
  <2>1. QED
    BY <1>5, <1>7
<1> HIDE DEF set
<1>9. Right(set[n1], n1)
  <2> DEFINE T == {n \in 0 .. n1 : Right(set[n], n)}
  <2>1. 0 \in T
    BY <1>4, <1>6, <1>8
  <2>2. ASSUME NEW n \in 1 .. n1, n - 1 \in T PROVE n \in T
    <3>1. set[n] = Step(set[n - 1], n)
      BY <1>6, <1>8
    <3>2. Right(set[n - 1], n - 1)
      BY <2>2
    <3>3. Right(set[n], n)
      BY <1>3, <1>5, <3>1, <3>2
    <3>4. QED
      BY <3>3
  <2> HIDE DEF T
  <2>3. n1 \in T
    BY <1>6, <2>1, <2>2, Climb
  <2>4. QED
    BY <2>3 DEF T
<1>10. \A i \in 1 .. N : i \in Viewports /\ i <= n1
  BY <1>2, <1>5
<1>11. CASE Dirty(c, ViewportStates)
  BY <1>1, <1>5, <1>9, <1>10, <1>11 DEF Right
<1>12. CASE ~Dirty(c, ViewportStates)
  BY <1>1, <1>12
<1>13. QED
  BY <1>11, <1>12

(* The flush of the rasterizer clamps depth as the state asks. *)
LEMMA FlushRsFacts ==
  ASSUME NEW h, Rooted(h), DepthTuned(h.z), NEW c
  PROVE  LET k == FlushRs(h, c)
         IN /\ k.tess = h.tess /\ k.aa = h.aa /\ k.reg = h.reg
            /\ k.cb0.sample_masks = h.cb0.sample_masks
            /\ DepthTuned(k.z) /\ k.z.range = h.z.range
            /\ k.z.clamp = IF Dirty(c, {"RS_DEPTH_CLIP_ENABLE", "RS_DEPTH_CLAMP_ENABLE"})
                           THEN c.dyn["RS_DEPTH_CLAMP_ENABLE"] ELSE h.z.clamp
<1>1. PICK l : l = IF Dirty(c, {"RS_DEPTH_CLIP_ENABLE", "RS_DEPTH_CLAMP_ENABLE"})
                   THEN SetZClamp(h, c.dyn["RS_DEPTH_CLAMP_ENABLE"]) ELSE h
  OBVIOUS
<1>2. PICK size, k : /\ k = FlushRs(h, c)
                     /\ k = l \/ k = SetConservativeRaster(l, size)
  BY <1>1 DEF FlushRs
<1>3. Rooted(l)
  BY <1>1, ShadowStill, StillTransitive
<1>4. Aloof(l, k)
  BY <1>2, <1>3, ShadowStill, RanTransitive DEF Ran
<1>5. /\ l.tess = h.tess /\ l.aa = h.aa /\ l.reg = h.reg /\ l.cb0 = h.cb0
      /\ DepthTuned(l.z) /\ l.z.range = h.z.range
      /\ l.z.clamp = IF Dirty(c, {"RS_DEPTH_CLIP_ENABLE", "RS_DEPTH_CLAMP_ENABLE"})
                     THEN c.dyn["RS_DEPTH_CLAMP_ENABLE"] ELSE h.z.clamp
  BY <1>1, ZClampFacts
<1>6. QED
  BY <1>2, <1>4, <1>5 DEF Aloof

(* The macro of the samples: the passes and masks of what changed. *)
AaFields == {"params", "passes", "mode", "two", "four"}

(* It leaves the layout and the masks of the layout as they are. *)
LEMMA AntiAliasFacts ==
  ASSUME NEW h, Rooted(h), DOMAIN h.aa = AaFields, NEW part
  PROVE  LET k == SetAntiAlias(h, part)
             p == SetMasked(h.aa.params, part)
         IN /\ k.tess = h.tess /\ k.z = h.z /\ k.reg = h.reg
            /\ DOMAIN k.aa = AaFields
            /\ k.aa.mode = h.aa.mode /\ k.aa.two = h.aa.two /\ k.aa.four = h.aa.four
            /\ k.aa.params = p
            /\ IF p = h.aa.params
               THEN k.aa = h.aa /\ k.cb0.sample_masks = h.cb0.sample_masks
               ELSE /\ k.aa.passes = 2^PassesLog2(p)
                    /\ k.cb0.sample_masks = Masks(p, h.aa.two, h.aa.four)
<1>1. PICK k, p, passes, masks :
        /\ k = SetAntiAlias(h, part) /\ p = SetMasked(h.aa.params, part)
        /\ passes = 2^PassesLog2(p) /\ masks = Masks(p, h.aa.two, h.aa.four)
  OBVIOUS
<1>2. PICK l : l = [h EXCEPT !.aa.params = p, !.aa.passes = passes]
  OBVIOUS
<1>3. k = IF p = h.aa.params THEN h ELSE LoadConstant(l, "sample_masks", masks)
  BY <1>1, <1>2 DEF SetAntiAlias, Masks
<1>4. CASE p = h.aa.params
  BY <1>1, <1>3, <1>4
<1>5. CASE p # h.aa.params
  <2>1. /\ DOMAIN l = DOMAIN h /\ l.aa = [h.aa EXCEPT !.params = p, !.passes = passes]
        /\ \A x \in EngineFields \ {"aa"} : l[x] = h[x]
    BY <1>2 DEF Rooted, EngineFields
  <2>2. k = [l EXCEPT !.cb0["sample_masks"] = masks]
    BY <1>3, <1>5, <2>1 DEF LoadConstant, Rooted, EngineFields
  <2>3. /\ k.aa = l.aa /\ k.tess = h.tess /\ k.z = h.z /\ k.reg = h.reg
        /\ k.cb0.sample_masks = masks
    BY <2>1, <2>2 DEF Rooted, EngineFields, Cb0Fields
  <2>4. /\ DOMAIN l.aa = AaFields /\ l.aa.params = p /\ l.aa.passes = passes
        /\ l.aa.mode = h.aa.mode /\ l.aa.two = h.aa.two /\ l.aa.four = h.aa.four
    BY <2>1 DEF AaFields
  <2>5. QED
    BY <1>1, <1>5, <2>3, <2>4
<1>6. QED
  BY <1>4, <1>5

(* The counts of the samples by their logarithms. *)
LEMMA LogFacts == /\ Log2(1) = 0 /\ Log2(2) = 1 /\ Log2(4) = 2 /\ Log2(8) = 3
                  /\ \A m, n \in SampleCounts : Log2(m) = Log2(n) => m = n
<1>1. 2^0 = 1 /\ 2^1 = 2 /\ 2^2 = 4 /\ 2^3 = 8 /\ 2^4 = 16
  BY SMT
<1>2. 0 .. 4 = {0, 1, 2, 3, 4}
  OBVIOUS
<1>3. ASSUME NEW n, NEW m \in 0 .. 4, 2^m = n, \A k \in 0 .. 4 : 2^k = n => k = m
      PROVE  Log2(n) = m
  BY <1>3, Zenon DEF Log2
<1>4. \A k \in 0 .. 4 : (2^k = 1 => k = 0) /\ (2^k = 2 => k = 1) /\ (2^k = 4 => k = 2) /\ (2^k = 8 => k = 3)
  <2>1. SUFFICES ASSUME NEW k \in 0 .. 4
                 PROVE  (2^k = 1 => k = 0) /\ (2^k = 2 => k = 1) /\ (2^k = 4 => k = 2) /\ (2^k = 8 => k = 3)
    OBVIOUS
  <2>2. k = 0 \/ k = 1 \/ k = 2 \/ k = 3 \/ k = 4
    BY <1>2
  <2>3. k = 0 => 2^k = 1
    BY <1>1
  <2>4. k = 1 => 2^k = 2
    BY <1>1
  <2>5. k = 2 => 2^k = 4
    BY <1>1
  <2>6. k = 3 => 2^k = 8
    BY <1>1
  <2>7. k = 4 => 2^k = 16
    BY <1>1
  <2> DEFINE p == 2^k
  <2> HIDE DEF p
  <2>8. (p = 1 => k = 0) /\ (p = 2 => k = 1) /\ (p = 4 => k = 2) /\ (p = 8 => k = 3)
    BY <2>2, <2>3, <2>4, <2>5, <2>6, <2>7 DEF p
  <2>9. QED
    BY <2>8 DEF p
<1>5. Log2(1) = 0
  BY <1>1, <1>3, <1>4
<1>6. Log2(2) = 1
  BY <1>1, <1>3, <1>4
<1>7. Log2(4) = 2
  BY <1>1, <1>3, <1>4
<1>8. Log2(8) = 3
  BY <1>1, <1>3, <1>4
<1>9. QED
  BY <1>5, <1>6, <1>7, <1>8 DEF SampleCounts

(* A shader sets how often fragments are shaded. *)
LEMMA RateFacts ==
  ASSUME NEW h, Rooted(h), SamplingTuned(h.aa, h.cb0.sample_masks), NEW r \in Rates \ {15}
  PROVE  LET k == SetAntiAlias(h, [rcp |-> r])
         IN /\ k.tess = h.tess /\ k.z = h.z /\ k.reg = h.reg
            /\ SamplingTuned(k.aa, k.cb0.sample_masks)
            /\ k.aa.params.samples = h.aa.params.samples /\ k.aa.params.rcp = r
<1>1. PICK part : part = [rcp |-> r]
  OBVIOUS
<1>2. PICK k, p : k = SetAntiAlias(h, part) /\ p = SetMasked(h.aa.params, part)
  OBVIOUS
<1>3. DOMAIN p = {"rcp", "samples"} /\ p.rcp = r /\ p.samples = h.aa.params.samples
  BY <1>1, <1>2 DEF SetMasked, SamplingTuned
<1>4. /\ k.tess = h.tess /\ k.z = h.z /\ k.reg = h.reg
      /\ DOMAIN k.aa = AaFields
      /\ k.aa.mode = h.aa.mode /\ k.aa.two = h.aa.two /\ k.aa.four = h.aa.four
      /\ k.aa.params = p
      /\ IF p = h.aa.params
         THEN k.aa = h.aa /\ k.cb0.sample_masks = h.cb0.sample_masks
         ELSE /\ k.aa.passes = 2^PassesLog2(p)
              /\ k.cb0.sample_masks = Masks(p, h.aa.two, h.aa.four)
  BY <1>2, AntiAliasFacts DEF SamplingTuned, AaFields
<1>5. SamplingTuned(k.aa, k.cb0.sample_masks)
  <2>1. CASE p = h.aa.params
    BY <1>4, <2>1
  <2>2. CASE p # h.aa.params
    <3>1. \E n \in SampleCounts : LaidOut(k.aa, n)
      BY <1>3, <1>4 DEF SamplingTuned, LaidOut
    <3>2. QED
      BY <1>3, <1>4, <2>2, <3>1 DEF SamplingTuned, AaFields
  <2>3. QED
    BY <2>1, <2>2
<1>6. QED
  BY <1>1, <1>2, <1>3, <1>4, <1>5

(* A sample layout. *)
LEMMA LayoutFacts ==
  ASSUME NEW h, Rooted(h), SamplingTuned(h.aa, h.cb0.sample_masks), NEW n \in SampleCounts
  PROVE  LET k == SetSampleLayout(h, n)
         IN /\ k.tess = h.tess /\ k.z = h.z /\ k.reg = h.reg
            /\ SamplingTuned(k.aa, k.cb0.sample_masks)
            /\ k.aa.params.samples = Log2(n) /\ k.aa.params.rcp = h.aa.params.rcp
<1>1. PICK part, mode, two, four :
        /\ part = [samples |-> Log2(n)] /\ mode = SampleLayout(n)
        /\ two = TwoPassMasks(mode) /\ four = FourPassMasks(mode)
  OBVIOUS
<1>2. PICK l : l = [h EXCEPT !.aa.mode = mode, !.aa.two = two, !.aa.four = four]
  OBVIOUS
<1>3. PICK k, p : k = SetAntiAlias(l, part) /\ p = SetMasked(l.aa.params, part)
  OBVIOUS
<1>4. k = SetSampleLayout(h, n)
  BY <1>1, <1>2, <1>3 DEF SetSampleLayout
<1>0. PICK aa : aa = [h.aa EXCEPT !.mode = mode, !.two = two, !.four = four]
  OBVIOUS
<1>5. /\ l = [h EXCEPT !.aa = aa] /\ l.aa = aa
      /\ l.tess = h.tess /\ l.z = h.z /\ l.reg = h.reg /\ l.cb0 = h.cb0
  BY <1>2, <1>0 DEF Rooted, EngineFields
<1>6. Rooted(l)
  BY <1>5, FieldStill, StillTransitive
<1>7. /\ DOMAIN l.aa = AaFields /\ l.aa.params = h.aa.params /\ l.aa.passes = h.aa.passes
      /\ l.aa.mode = mode /\ l.aa.two = two /\ l.aa.four = four
  <2>1. DOMAIN h.aa = AaFields
    BY DEF SamplingTuned, AaFields
  <2>2. /\ DOMAIN aa = DOMAIN h.aa /\ aa.params = h.aa.params /\ aa.passes = h.aa.passes
        /\ aa.mode = mode /\ aa.two = two /\ aa.four = four
    BY <1>0, <2>1 DEF AaFields
  <2>3. QED
    BY <1>5, <2>1, <2>2
<1>8. DOMAIN p = {"rcp", "samples"} /\ p.rcp = h.aa.params.rcp /\ p.samples = Log2(n)
  BY <1>1, <1>3, <1>7 DEF SetMasked, SamplingTuned
<1>9. /\ k.tess = h.tess /\ k.z = h.z /\ k.reg = h.reg
      /\ DOMAIN k.aa = AaFields
      /\ k.aa.mode = mode /\ k.aa.two = two /\ k.aa.four = four
      /\ k.aa.params = p
      /\ IF p = h.aa.params
         THEN k.aa = l.aa /\ k.cb0.sample_masks = h.cb0.sample_masks
         ELSE /\ k.aa.passes = 2^PassesLog2(p)
              /\ k.cb0.sample_masks = Masks(p, two, four)
  <2>1. /\ k.tess = l.tess /\ k.z = l.z /\ k.reg = l.reg
        /\ DOMAIN k.aa = AaFields
        /\ k.aa.mode = l.aa.mode /\ k.aa.two = l.aa.two /\ k.aa.four = l.aa.four
        /\ k.aa.params = p
        /\ IF p = l.aa.params
           THEN k.aa = l.aa /\ k.cb0.sample_masks = l.cb0.sample_masks
           ELSE /\ k.aa.passes = 2^PassesLog2(p)
                /\ k.cb0.sample_masks = Masks(p, l.aa.two, l.aa.four)
    BY <1>3, <1>6, <1>7, AntiAliasFacts
  <2>2. QED
    BY <1>5, <1>7, <2>1
<1>10. LaidOut(k.aa, n)
  BY <1>1, <1>8, <1>9 DEF LaidOut
<1>11. SamplingTuned(k.aa, k.cb0.sample_masks)
  <2>1. CASE p = h.aa.params
    <3>1. PICK m \in SampleCounts : LaidOut(h.aa, m)
      BY DEF SamplingTuned
    <3>2. Log2(m) = Log2(n)
      BY <1>8, <2>1, <3>1 DEF LaidOut
    <3>3. m = n
      BY <3>1, <3>2, LogFacts
    <3>4. two = h.aa.two /\ four = h.aa.four
      BY <1>1, <3>1, <3>3 DEF LaidOut
    <3>5. /\ k.aa.params = h.aa.params /\ k.aa.passes = h.aa.passes /\ k.aa.two = h.aa.two
          /\ k.aa.four = h.aa.four /\ k.cb0.sample_masks = h.cb0.sample_masks
      BY <1>7, <1>9, <2>1, <3>4
    <3>6. QED
      BY <1>9, <1>10, <3>5 DEF SamplingTuned, AaFields
  <2>2. CASE p # h.aa.params
    <3>1. p.rcp \in Rates
      BY <1>8 DEF SamplingTuned
    <3>2. QED
      BY <1>8, <1>9, <1>10, <2>2, <3>1 DEF SamplingTuned, AaFields
  <2>3. QED
    BY <2>1, <2>2
<1>12. QED
  BY <1>4, <1>8, <1>9, <1>11

(* The registers of dirty states, and no other. *)
LEMMA WriteRowsFacts ==
  ASSUME NEW h, Rooted(h), NEW c
  PROVE  LET k == WriteRows(h, c)
         IN /\ k.tess = h.tess /\ k.z = h.z /\ k.aa = h.aa /\ k.cb0 = h.cb0
            /\ \A r \in Registers :
                 k.reg[r] = IF r \in DOMAIN Rows(c) /\ Rows(c)[r].on \cap c.dirty # {}
                            THEN Rows(c)[r].val ELSE h.reg[r]
<1>1. PICK rows, written : /\ rows = Rows(c)
                           /\ written = {r \in DOMAIN rows : rows[r].on \cap c.dirty # {}}
  OBVIOUS
<1>2. PICK reg, k : /\ reg = [r \in DOMAIN h.reg |-> IF r \in written THEN rows[r].val ELSE h.reg[r]]
                    /\ k = [h EXCEPT !.reg = reg]
  OBVIOUS
<1>3. WriteRows(h, c) = k
  BY <1>1, <1>2 DEF WriteRows
<1>4. \A r \in Registers : reg[r] = IF r \in DOMAIN rows /\ rows[r].on \cap c.dirty # {}
                                    THEN rows[r].val ELSE h.reg[r]
  BY <1>1, <1>2 DEF Rooted
<1>5. /\ k.tess = h.tess /\ k.z = h.z /\ k.aa = h.aa /\ k.cb0 = h.cb0 /\ k.reg = reg
  BY <1>2 DEF Rooted, EngineFields
<1>6. QED
  BY <1>1, <1>3, <1>4, <1>5

(* The rows depend on the states and the pass alone. *)
LEMMA RowsSame ==
  ASSUME NEW c, NEW d, d.dyn = c.dyn, d.render = c.render
  PROVE  Rows(d) = Rows(c)
<1>1. ViRows(d) = ViRows(c)
  BY DEF ViRows
<1>2. \A states : PlainRows(d, states) = PlainRows(c, states)
  BY DEF PlainRows
<1>3. IaRows(d) = IaRows(c)
  BY <1>2 DEF IaRows
<1>4. TsRows(d) = TsRows(c)
  BY DEF TsRows
<1>5. VpRows(d) = VpRows(c)
  BY DEF VpRows
<1>6. RsRows(d) = RsRows(c)
  BY <1>2 DEF RsRows, ZClampZeroOne, ZClip
<1>7. MsRows(d) = MsRows(c)
  BY <1>2 DEF MsRows, SampleLocations, SampleCount
<1>8. DsRows(d) = DsRows(c)
  BY <1>2 DEF DsRows
<1>9. CbRows(d) = CbRows(c)
  BY <1>2 DEF CbRows
<1>10. QED
  BY <1>1, <1>3, <1>4, <1>5, <1>6, <1>7, <1>8, <1>9 DEF Rows

(* The samples of a pass without attachments. *)
LEMMA FlushMsFacts ==
  ASSUME NEW h, Rooted(h), SamplingTuned(h.aa, h.cb0.sample_masks), NEW c,
         c.dyn["MS_RASTERIZATION_SAMPLES"] \in {0} \cup SampleCounts
  PROVE  LET k == FlushMs(h, c)
         IN /\ k.tess = h.tess /\ k.z = h.z /\ k.reg = h.reg
            /\ SamplingTuned(k.aa, k.cb0.sample_masks)
            /\ k.aa.params.rcp = h.aa.params.rcp
            /\ k.aa.params.samples = IF "MS_RASTERIZATION_SAMPLES" \in c.dirty /\ c.render.samples = 0
                                     THEN Log2(SampleCount(c)) ELSE h.aa.params.samples
<1>1. Dirty(c, {"MS_RASTERIZATION_SAMPLES"}) <=> "MS_RASTERIZATION_SAMPLES" \in c.dirty
  BY DEF Dirty
<1>2. PICK n : n = SampleCount(c)
  OBVIOUS
<1>3. n \in SampleCounts
  BY <1>2 DEF SampleCount, SampleCounts
<1>4. PICK l : l = IF "MS_RASTERIZATION_SAMPLES" \in c.dirty /\ c.render.samples = 0
                   THEN SetSampleLayout(h, n) ELSE h
  OBVIOUS
<1>5. PICK k, locations : /\ k = FlushMs(h, c)
                          /\ k = l \/ k = LoadConstant(l, "sample_locations", locations)
  BY <1>1, <1>2, <1>4 DEF FlushMs
<1>6. /\ l.tess = h.tess /\ l.z = h.z /\ l.reg = h.reg
      /\ SamplingTuned(l.aa, l.cb0.sample_masks)
      /\ l.aa.params.rcp = h.aa.params.rcp
      /\ l.aa.params.samples = IF "MS_RASTERIZATION_SAMPLES" \in c.dirty /\ c.render.samples = 0
                               THEN Log2(n) ELSE h.aa.params.samples
  BY <1>3, <1>4, LayoutFacts
<1>7. Rooted(l)
  BY <1>4, AntiAliasStill, StillTransitive
<1>8. Aloof(l, k)
  BY <1>5, <1>7, LoadStill, RanTransitive DEF Ran, Cb0Fields
<1>9. QED
  BY <1>2, <1>5, <1>6, <1>8 DEF Aloof

(***************************************************************************)
(* The targets                                                             *)
(***************************************************************************)
(* How many members of S are below x. *)
Below(x, S) == Cardinality({y \in S : y < x})

(* The members of a finite set of numbers are numbered from 0. *)
LEMMA Numbered ==
  ASSUME NEW S, S \subseteq Nat, IsFiniteSet(S)
  PROVE  /\ \A x \in S : Below(x, S) \in 0 .. Cardinality(S) - 1
         /\ \A n \in 0 .. Cardinality(S) - 1 : \E y \in S : Below(y, S) = n
<1>1. Cardinality(S) \in Nat
  BY FS_CardinalityType
<1>2. \A x : IsFiniteSet({y \in S : y < x}) /\ Below(x, S) \in Nat
  <2>1. SUFFICES ASSUME NEW x PROVE IsFiniteSet({y \in S : y < x}) /\ Below(x, S) \in Nat
    OBVIOUS
  <2>2. PICK T : T = {y \in S : y < x}
    OBVIOUS
  <2>3. IsFiniteSet(T)
    BY <2>2, FS_Subset
  <2>4. Cardinality(T) \in Nat
    BY <2>3, FS_CardinalityType
  <2>5. QED
    BY <2>2, <2>3, <2>4 DEF Below
<1>3. \A x \in S : Below(x, S) < Cardinality(S)
  <2>1. SUFFICES ASSUME NEW x \in S PROVE Below(x, S) < Cardinality(S)
    OBVIOUS
  <2>2. PICK T : T = {y \in S : y < x}
    OBVIOUS
  <2>3. T \in SUBSET S /\ T # S
    <3>1. x \notin T
      BY <2>2
    <3>2. QED
      BY <2>2, <3>1
  <2>4. Cardinality(T) <= Cardinality(S) /\ Cardinality(T) # Cardinality(S)
    BY <2>3, FS_Subset
  <2>5. Cardinality(T) = Below(x, S)
    BY <2>2 DEF Below
  <2>6. \A b, m \in Nat : b <= m /\ b # m => b < m
    OBVIOUS
  <2>7. QED
    BY <1>1, <1>2, <2>4, <2>5, <2>6
<1>4. \A x, y \in S : x < y => Below(x, S) # Below(y, S)
  <2>1. SUFFICES ASSUME NEW x \in S, NEW y \in S, x < y PROVE Below(x, S) # Below(y, S)
    OBVIOUS
  <2>2. PICK T, U : T = {z \in S : z < x} /\ U = {z \in S : z < y}
    OBVIOUS
  <2>3. T \in SUBSET U /\ T # U
    <3>1. x \in U /\ x \notin T
      BY <2>1, <2>2
    <3>2. \A z \in T : z \in U
      BY <2>1, <2>2
    <3>3. QED
      BY <3>1, <3>2
  <2>4. IsFiniteSet(U)
    BY <1>2, <2>2
  <2>5. Cardinality(U) # Cardinality(T)
    BY <2>3, <2>4, FS_Subset
  <2>6. QED
    BY <2>2, <2>5 DEF Below
<1> DEFINE N == 0 .. Cardinality(S) - 1
           f == [x \in S |-> Below(x, S)]
<1>5. \A x \in S : Below(x, S) \in N
  <2>1. \A b, m \in Nat : b < m => b \in 0 .. m - 1
    OBVIOUS
  <2>2. QED
    BY <1>1, <1>2, <1>3, <2>1
<1>6. f \in Injection(S, N)
  <2>1. \A x, y \in S : Below(x, S) = Below(y, S) => x = y
    BY <1>4
  <2>2. f \in [S -> N]
    BY <1>5
  <2>3. \A x, y \in S : f[x] = f[y] => x = y
    BY <2>1
  <2> HIDE DEF f, N
  <2>4. QED
    BY <2>2, <2>3 DEF Injection, IsInjective
<1>7. IsFiniteSet(N) /\ Cardinality(N) = Cardinality(S)
  <2>1. PICK n : n = Cardinality(S)
    OBVIOUS
  <2>2. IsFiniteSet(0 .. n - 1) /\ Cardinality(0 .. n - 1) = IF 0 > n - 1 THEN 0 ELSE (n - 1) - 0 + 1
    BY <1>1, <2>1, FS_Interval
  <2>3. QED
    BY <1>1, <2>1, <2>2
<1>8. f \in Surjection(S, N)
  <2> HIDE DEF f, N
  <2>1. QED
    BY <1>6, <1>7, FS_Injection
<1>9. \A n \in N : \E y \in S : Below(y, S) = n
  <2>1. \A n \in N : \E y \in S : f[y] = n
    <3> HIDE DEF f, N
    <3>1. QED
      BY <1>8 DEF Surjection
  <2>2. QED
    BY <2>1
<1>10. QED
  BY <1>5, <1>9

(* A set of numbers up to n that is not empty has a largest. *)
LEMMA Largest ==
  ASSUME NEW n \in Nat, NEW S, S \subseteq 0 .. n, S # {}
  PROVE  \E m \in S : \A k \in S : k <= m
<1> DEFINE T == {i \in 0 .. n + 1 : \E k \in S : k >= i}
<1>1. SUFFICES ASSUME \A m \in S : \E k \in S : ~(k <= m) PROVE FALSE
  OBVIOUS
<1>2. 0 \in T
  <2>1. PICK k : k \in S
    OBVIOUS
  <2>2. k \in 0 .. n
    BY <2>1
  <2>3. 0 \in 0 .. n + 1 /\ k >= 0
    BY <2>2
  <2>4. QED
    BY <2>1, <2>3
<1>3. ASSUME NEW i \in 1 .. n + 1, i - 1 \in T PROVE i \in T
  <2>1. PICK m \in S : m >= i - 1
    BY <1>3
  <2>2. PICK k \in S : ~(k <= m)
    BY <1>1
  <2>3. m \in 0 .. n /\ k \in 0 .. n
    BY <2>1, <2>2
  <2>4. k >= i
    BY <2>1, <2>2, <2>3
  <2>5. QED
    BY <2>2, <2>4
<1>4. n + 1 \in T
  <2> HIDE DEF T
  <2>1. n + 1 \in Nat /\ n + 1 \in 0 .. n + 1
    OBVIOUS
  <2>2. QED
    BY <1>2, <1>3, <2>1, Climb
<1>5. PICK k \in S : k >= n + 1
  BY <1>4
<1>6. k \in 0 .. n
  BY <1>5
<1>7. QED
  BY <1>5, <1>6

(* Where the outputs of a shader go: location l to a target that is mapped   *)
(* to l, or to one that nothing is mapped to if there is none.              *)
LEMMA SelectFacts ==
  ASSUME NEW map \in LocationMaps
  PROVE  LET select == CtSelect(map)
         IN /\ select.count \in 1 .. NumTargets
            /\ \A l \in Targets : /\ select.target[l] \in Targets
                                  /\ map[select.target[l]] \in {l, Unused}
            /\ \A a \in Targets : map[a] # Unused =>
                 map[a] < select.count /\ select.target[map[a]] = a
<1> DEFINE mapped == {a \in Targets : map[a] # Unused}
           locs   == {map[a] : a \in mapped}
           rest   == Targets \ mapped
           free   == Targets \ locs
           target(l) == IF l \in locs THEN CHOOSE a \in mapped : map[a] = l
                        ELSE CHOOSE a \in rest : Below(a, rest) = Below(l, free)
           max    == IF locs = {} THEN 0 ELSE CHOOSE l \in locs : \A k \in locs : k <= l
<1>1. CtSelect(map) = [count |-> max + 1, target |-> [l \in Targets |-> target(l)]]
  BY DEF CtSelect, Below
<1>2. map \in [Targets -> Targets \cup {Unused}] /\ Unused \notin Targets
  BY MmeAssumption DEF LocationMaps, Unused, Targets
<1>3. \A a, b \in mapped : map[a] = map[b] => a = b
  BY DEF LocationMaps
<1>4. locs \subseteq Targets /\ Unused \notin locs
  BY <1>2
<1>5. NumTargets \in Nat \ {0} /\ Targets = 0 .. NumTargets - 1 /\ Targets \subseteq Nat
  BY MmeAssumption DEF Targets
<1>6. IsFiniteSet(Targets)
  BY <1>5, FS_Interval
<1>7. /\ IsFiniteSet(mapped) /\ IsFiniteSet(locs) /\ IsFiniteSet(rest) /\ IsFiniteSet(free)
      /\ Cardinality(rest) = Cardinality(free)
  <2>1. IsFiniteSet(mapped) /\ IsFiniteSet(locs) /\ IsFiniteSet(rest) /\ IsFiniteSet(free)
    <3>1. mapped \in SUBSET Targets /\ locs \in SUBSET Targets
      BY <1>4
    <3>2. rest \in SUBSET Targets /\ free \in SUBSET Targets
      OBVIOUS
    <3> HIDE DEF mapped, locs, rest, free
    <3>3. QED
      BY <1>6, <3>1, <3>2, FS_Subset
  <2>2. Cardinality(locs) = Cardinality(mapped)
    <3> DEFINE f == [a \in mapped |-> map[a]]
    <3>1. f \in [mapped -> locs] /\ \A a, b \in mapped : f[a] = f[b] => a = b
      BY <1>3
    <3>2. \A l \in locs : \E a \in mapped : f[a] = l
      OBVIOUS
    <3> HIDE DEF f, mapped, locs
    <3>3. f \in Bijection(mapped, locs)
      BY <3>1, <3>2 DEF Bijection, Injection, Surjection, IsInjective
    <3>4. ExistsBijection(mapped, locs)
      BY <3>3 DEF ExistsBijection
    <3>5. QED
      BY <2>1, <3>4, FS_Bijection
  <2>3. Targets \cap mapped = mapped /\ Targets \cap locs = locs
    BY <1>4
  <2>4. Cardinality(rest) = Cardinality(Targets) - Cardinality(mapped)
    <3>1. Cardinality(Targets \ mapped) = Cardinality(Targets) - Cardinality(Targets \cap mapped)
      <4> HIDE DEF mapped
      <4>1. QED
        BY <1>6, FS_Difference
    <3>2. QED
      BY <2>3, <3>1
  <2>5. Cardinality(free) = Cardinality(Targets) - Cardinality(locs)
    <3>1. Cardinality(Targets \ locs) = Cardinality(Targets) - Cardinality(Targets \cap locs)
      <4> HIDE DEF locs
      <4>1. QED
        BY <1>6, FS_Difference
    <3>2. QED
      BY <2>3, <3>1
  <2>6. QED
    BY <2>1, <2>2, <2>4, <2>5
<1>8. \A l \in locs : target(l) \in mapped /\ map[target(l)] = l
  <2>1. SUFFICES ASSUME NEW l \in locs PROVE target(l) \in mapped /\ map[target(l)] = l
    OBVIOUS
  <2>2. \E a \in mapped : map[a] = l
    OBVIOUS
  <2>3. target(l) = CHOOSE a \in mapped : map[a] = l
    OBVIOUS
  <2> HIDE DEF target, mapped
  <2>4. QED
    BY <2>2, <2>3
<1>9. \A l \in free : target(l) \in rest
  <2>1. SUFFICES ASSUME NEW l \in free PROVE target(l) \in rest
    OBVIOUS
  <2>2. rest \subseteq Nat /\ free \subseteq Nat
    BY <1>5
  <2>3. target(l) = CHOOSE a \in rest : Below(a, rest) = Below(l, free)
    OBVIOUS
  <2> HIDE DEF target, rest, free
  <2>4. Below(l, free) \in 0 .. Cardinality(free) - 1
    BY <1>7, <2>2, Numbered
  <2>5. \E a \in rest : Below(a, rest) = Below(l, free)
    BY <1>7, <2>2, <2>4, Numbered
  <2>6. QED
    BY <2>3, <2>5
<1>10. max \in Targets /\ \A k \in locs : k <= max
  <2>1. CASE locs = {}
    <3>1. max = 0 /\ \A k \in locs : k <= max
      BY <2>1
    <3>2. 0 \in Targets
      BY <1>5
    <3>3. QED
      BY <3>1, <3>2
  <2>2. CASE locs # {}
    <3>1. max = CHOOSE l \in locs : \A k \in locs : k <= l
      BY <2>2
    <3>2. NumTargets - 1 \in Nat
      BY <1>5
    <3> HIDE DEF locs, max
    <3>3. \E l \in locs : \A k \in locs : k <= l
      BY <1>4, <1>5, <2>2, <3>2, Largest
    <3>4. QED
      BY <1>4, <3>1, <3>3
  <2>3. QED
    BY <2>1, <2>2
<1> HIDE DEF target, max
<1>11. PICK select : select = CtSelect(map)
  OBVIOUS
<1>12. select.count = max + 1 /\ \A l \in Targets : select.target[l] = target(l)
  BY <1>1, <1>11
<1>13. select.count \in 1 .. NumTargets
  BY <1>5, <1>10, <1>12
<1>14. ASSUME NEW l \in Targets
       PROVE  select.target[l] \in Targets /\ map[select.target[l]] \in {l, Unused}
  <2>1. CASE l \in locs
    BY <1>8, <1>12, <2>1
  <2>2. CASE l \notin locs
    <3>1. target(l) \in rest
      BY <1>9, <2>2
    <3>2. target(l) \in Targets /\ map[target(l)] = Unused
      BY <3>1
    <3>3. QED
      BY <1>12, <3>2
  <2>3. QED
    BY <2>1, <2>2
<1>15. ASSUME NEW a \in Targets, map[a] # Unused
       PROVE  map[a] < select.count /\ select.target[map[a]] = a
  <2>1. a \in mapped /\ map[a] \in locs /\ map[a] \in Targets
    BY <1>2, <1>15
  <2>2. target(map[a]) \in mapped /\ map[target(map[a])] = map[a]
    BY <1>8, <2>1
  <2>3. target(map[a]) = a
    BY <1>3, <2>1, <2>2
  <2>4. map[a] <= max /\ map[a] \in Int /\ max \in Int
    BY <1>5, <1>10, <2>1
  <2>5. QED
    BY <1>12, <2>1, <2>3, <2>4
<1>16. QED
  BY <1>11, <1>13, <1>14, <1>15

(* The word v has the nibbles w. *)
Nibbles(v, w) == v = w[0] + 16 * w[1] + 256 * w[2] + 4096 * w[3] + 65536 * w[4]
                       + 1048576 * w[5] + 16777216 * w[6] + 268435456 * w[7]
Powers == /\ 16^0 = 1 /\ 16^1 = 16 /\ 16^2 = 256 /\ 16^3 = 4096 /\ 16^4 = 65536
          /\ 16^5 = 1048576 /\ 16^6 = 16777216 /\ 16^7 = 268435456

(* The powers of 16 in a word. *)
LEMMA PowerFacts == Powers
BY SMT DEF Powers

(* Division by a power takes away what is below it. *)
LEMMA Shift ==
  ASSUME NEW q \in Nat, NEW lo \in Nat
  PROVE  /\ lo < 1 => (lo + q) \div 1 = q
         /\ lo < 16 => (lo + 16 * q) \div 16 = q /\ (lo + 16 * q) % 16 = lo
         /\ lo < 256 => (lo + 256 * q) \div 256 = q
         /\ lo < 4096 => (lo + 4096 * q) \div 4096 = q
         /\ lo < 65536 => (lo + 65536 * q) \div 65536 = q
         /\ lo < 1048576 => (lo + 1048576 * q) \div 1048576 = q
         /\ lo < 16777216 => (lo + 16777216 * q) \div 16777216 = q
         /\ lo < 268435456 => (lo + 268435456 * q) \div 268435456 = q
<1>1. lo < 1 => (lo + q) \div 1 = q
  OBVIOUS
<1>2. lo < 16 => (lo + 16 * q) \div 16 = q /\ (lo + 16 * q) % 16 = lo
  OBVIOUS
<1>3. lo < 256 => (lo + 256 * q) \div 256 = q
  OBVIOUS
<1>4. lo < 4096 => (lo + 4096 * q) \div 4096 = q
  OBVIOUS
<1>5. lo < 65536 => (lo + 65536 * q) \div 65536 = q
  OBVIOUS
<1>6. lo < 1048576 => (lo + 1048576 * q) \div 1048576 = q
  OBVIOUS
<1>7. lo < 16777216 => (lo + 16777216 * q) \div 16777216 = q
  OBVIOUS
<1>8. lo < 268435456 => (lo + 268435456 * q) \div 268435456 = q
  OBVIOUS
<1>9. QED
  BY <1>1, <1>2, <1>3, <1>4, <1>5, <1>6, <1>7, <1>8

(* Shifting brings a nibble down. *)
LEMMA NibbleFacts ==
  ASSUME NEW v, NEW w \in [0 .. 7 -> 0 .. 15], Nibbles(v, w), NEW a \in 0 .. 7
  PROVE  v \in Nat /\ (v \div 16^a) % 16 = w[a]
<1>1. PICK w0, w1, w2, w3, w4, w5, w6, w7 :
        /\ w[0] = w0 /\ w[1] = w1 /\ w[2] = w2 /\ w[3] = w3
        /\ w[4] = w4 /\ w[5] = w5 /\ w[6] = w6 /\ w[7] = w7
  BY Zenon
<1>2. /\ w0 \in 0 .. 15 /\ w1 \in 0 .. 15 /\ w2 \in 0 .. 15 /\ w3 \in 0 .. 15
      /\ w4 \in 0 .. 15 /\ w5 \in 0 .. 15 /\ w6 \in 0 .. 15 /\ w7 \in 0 .. 15
  BY <1>1
<1>3. PICK q7, q6, q5, q4, q3, q2, q1, q0 :
        /\ q7 = w7 + 16 * 0 /\ q6 = w6 + 16 * q7 /\ q5 = w5 + 16 * q6 /\ q4 = w4 + 16 * q5
        /\ q3 = w3 + 16 * q4 /\ q2 = w2 + 16 * q3 /\ q1 = w1 + 16 * q2 /\ q0 = w0 + 16 * q1
  BY Zenon
<1>4. q7 \in Nat /\ q6 \in Nat /\ q5 \in Nat /\ q4 \in Nat
  BY <1>2, <1>3
<1>5. q3 \in Nat /\ q2 \in Nat /\ q1 \in Nat /\ q0 \in Nat
  BY <1>2, <1>3, <1>4
<1>6. /\ v = q0 /\ v = w0 + 16 * q1 /\ v = w0 + 16 * w1 + 256 * q2
      /\ v = w0 + 16 * w1 + 256 * w2 + 4096 * q3
  BY <1>1, <1>2, <1>3, <1>4, <1>5 DEF Nibbles
<1>7. /\ v = w0 + 16 * w1 + 256 * w2 + 4096 * w3 + 65536 * q4
      /\ v = w0 + 16 * w1 + 256 * w2 + 4096 * w3 + 65536 * w4 + 1048576 * q5
  BY <1>2, <1>3, <1>4, <1>5, <1>6
<1>8. /\ v = w0 + 16 * w1 + 256 * w2 + 4096 * w3 + 65536 * w4 + 1048576 * w5 + 16777216 * q6
      /\ v = w0 + 16 * w1 + 256 * w2 + 4096 * w3 + 65536 * w4 + 1048576 * w5 + 16777216 * w6
               + 268435456 * q7
  BY <1>2, <1>3, <1>4, <1>5, <1>7
<1>9. /\ q0 % 16 = w0 /\ q1 % 16 = w1 /\ q2 % 16 = w2 /\ q3 % 16 = w3
      /\ q4 % 16 = w4 /\ q5 % 16 = w5 /\ q6 % 16 = w6 /\ q7 % 16 = w7
  BY <1>2, <1>3, <1>4, <1>5, Shift
<1>10. v \div 1 = q0 /\ v \div 16 = q1
  BY <1>2, <1>5, <1>6, Shift
<1>11. v \div 256 = q2
  BY <1>2, <1>5, <1>6, Shift
<1>12. v \div 4096 = q3
  BY <1>2, <1>5, <1>6, Shift
<1>13. v \div 65536 = q4
  BY <1>2, <1>4, <1>7, Shift
<1>14. v \div 1048576 = q5
  BY <1>2, <1>4, <1>7, Shift
<1>15. v \div 16777216 = q6
  BY <1>2, <1>4, <1>8, Shift
<1>16. v \div 268435456 = q7
  BY <1>2, <1>4, <1>8, Shift
<1>17. v \in Nat
  BY <1>5, <1>6
<1>18. a = 0 \/ a = 1 \/ a = 2 \/ a = 3 \/ a = 4 \/ a = 5 \/ a = 6 \/ a = 7
  OBVIOUS
<1>19. a = 0 => (v \div 16^a) % 16 = w[a]
  BY <1>1, <1>9, <1>10, PowerFacts DEF Powers
<1>20. a = 1 => (v \div 16^a) % 16 = w[a]
  BY <1>1, <1>9, <1>10, PowerFacts DEF Powers
<1>21. a = 2 => (v \div 16^a) % 16 = w[a]
  BY <1>1, <1>9, <1>11, PowerFacts DEF Powers
<1>22. a = 3 => (v \div 16^a) % 16 = w[a]
  BY <1>1, <1>9, <1>12, PowerFacts DEF Powers
<1>23. a = 4 => (v \div 16^a) % 16 = w[a]
  BY <1>1, <1>9, <1>13, PowerFacts DEF Powers
<1>24. a = 5 => (v \div 16^a) % 16 = w[a]
  BY <1>1, <1>9, <1>14, PowerFacts DEF Powers
<1>25. a = 6 => (v \div 16^a) % 16 = w[a]
  BY <1>1, <1>9, <1>15, PowerFacts DEF Powers
<1>26. a = 7 => (v \div 16^a) % 16 = w[a]
  BY <1>1, <1>9, <1>16, PowerFacts DEF Powers
<1>27. QED
  BY <1>17, <1>18, <1>19, <1>20, <1>21, <1>22, <1>23, <1>24, <1>25, <1>26

(* A nibble that was not there is added. *)
LEMMA NibbleAdded ==
  ASSUME NEW v, NEW w \in [0 .. 7 -> 0 .. 15], Nibbles(v, w), NEW m \in 0 .. 7, w[m] = 0,
         NEW x \in 0 .. 15, NEW u, u = [w EXCEPT ![m] = x]
  PROVE  Nibbles(v + 16^m * x, u)
<1>1. PICK w0, w1, w2, w3, w4, w5, w6, w7 :
        /\ w[0] = w0 /\ w[1] = w1 /\ w[2] = w2 /\ w[3] = w3
        /\ w[4] = w4 /\ w[5] = w5 /\ w[6] = w6 /\ w[7] = w7
  BY Zenon
<1>2. /\ w0 \in Nat /\ w1 \in Nat /\ w2 \in Nat /\ w3 \in Nat
      /\ w4 \in Nat /\ w5 \in Nat /\ w6 \in Nat /\ w7 \in Nat
  BY <1>1
<1>3. v = w0 + 16 * w1 + 256 * w2 + 4096 * w3 + 65536 * w4
            + 1048576 * w5 + 16777216 * w6 + 268435456 * w7
  BY <1>1, <1>2 DEF Nibbles
<1>4. /\ u[0] = (IF m = 0 THEN x ELSE w0) /\ u[1] = (IF m = 1 THEN x ELSE w1)
      /\ u[2] = (IF m = 2 THEN x ELSE w2) /\ u[3] = (IF m = 3 THEN x ELSE w3)
      /\ u[4] = (IF m = 4 THEN x ELSE w4) /\ u[5] = (IF m = 5 THEN x ELSE w5)
      /\ u[6] = (IF m = 6 THEN x ELSE w6) /\ u[7] = (IF m = 7 THEN x ELSE w7)
  BY <1>1
<1>5. CASE m = 0
  <2>1. 16^m * x = 1 * x /\ w0 = 0
    BY <1>1, <1>5, PowerFacts DEF Powers
  <2>2. /\ u[0] = x /\ u[1] = w1 /\ u[2] = w2 /\ u[3] = w3
        /\ u[4] = w4 /\ u[5] = w5 /\ u[6] = w6 /\ u[7] = w7
    BY <1>4, <1>5
  <2>3. v + 1 * x = x + 16 * w1 + 256 * w2 + 4096 * w3
                      + 65536 * w4 + 1048576 * w5 + 16777216 * w6 + 268435456 * w7
    BY <1>2, <1>3, <2>1
  <2>4. QED
    BY <2>1, <2>2, <2>3 DEF Nibbles
<1>6. CASE m = 1
  <2>1. 16^m * x = 16 * x /\ w1 = 0
    BY <1>1, <1>6, PowerFacts DEF Powers
  <2>2. /\ u[0] = w0 /\ u[1] = x /\ u[2] = w2 /\ u[3] = w3
        /\ u[4] = w4 /\ u[5] = w5 /\ u[6] = w6 /\ u[7] = w7
    BY <1>4, <1>6
  <2>3. v + 16 * x = w0 + 16 * x + 256 * w2 + 4096 * w3
                      + 65536 * w4 + 1048576 * w5 + 16777216 * w6 + 268435456 * w7
    BY <1>2, <1>3, <2>1
  <2>4. QED
    BY <2>1, <2>2, <2>3 DEF Nibbles
<1>7. CASE m = 2
  <2>1. 16^m * x = 256 * x /\ w2 = 0
    BY <1>1, <1>7, PowerFacts DEF Powers
  <2>2. /\ u[0] = w0 /\ u[1] = w1 /\ u[2] = x /\ u[3] = w3
        /\ u[4] = w4 /\ u[5] = w5 /\ u[6] = w6 /\ u[7] = w7
    BY <1>4, <1>7
  <2>3. v + 256 * x = w0 + 16 * w1 + 256 * x + 4096 * w3
                      + 65536 * w4 + 1048576 * w5 + 16777216 * w6 + 268435456 * w7
    BY <1>2, <1>3, <2>1
  <2>4. QED
    BY <2>1, <2>2, <2>3 DEF Nibbles
<1>8. CASE m = 3
  <2>1. 16^m * x = 4096 * x /\ w3 = 0
    BY <1>1, <1>8, PowerFacts DEF Powers
  <2>2. /\ u[0] = w0 /\ u[1] = w1 /\ u[2] = w2 /\ u[3] = x
        /\ u[4] = w4 /\ u[5] = w5 /\ u[6] = w6 /\ u[7] = w7
    BY <1>4, <1>8
  <2>3. v + 4096 * x = w0 + 16 * w1 + 256 * w2 + 4096 * x
                      + 65536 * w4 + 1048576 * w5 + 16777216 * w6 + 268435456 * w7
    BY <1>2, <1>3, <2>1
  <2>4. QED
    BY <2>1, <2>2, <2>3 DEF Nibbles
<1>9. CASE m = 4
  <2>1. 16^m * x = 65536 * x /\ w4 = 0
    BY <1>1, <1>9, PowerFacts DEF Powers
  <2>2. /\ u[0] = w0 /\ u[1] = w1 /\ u[2] = w2 /\ u[3] = w3
        /\ u[4] = x /\ u[5] = w5 /\ u[6] = w6 /\ u[7] = w7
    BY <1>4, <1>9
  <2>3. v + 65536 * x = w0 + 16 * w1 + 256 * w2 + 4096 * w3
                      + 65536 * x + 1048576 * w5 + 16777216 * w6 + 268435456 * w7
    BY <1>2, <1>3, <2>1
  <2>4. QED
    BY <2>1, <2>2, <2>3 DEF Nibbles
<1>10. CASE m = 5
  <2>1. 16^m * x = 1048576 * x /\ w5 = 0
    BY <1>1, <1>10, PowerFacts DEF Powers
  <2>2. /\ u[0] = w0 /\ u[1] = w1 /\ u[2] = w2 /\ u[3] = w3
        /\ u[4] = w4 /\ u[5] = x /\ u[6] = w6 /\ u[7] = w7
    BY <1>4, <1>10
  <2>3. v + 1048576 * x = w0 + 16 * w1 + 256 * w2 + 4096 * w3
                      + 65536 * w4 + 1048576 * x + 16777216 * w6 + 268435456 * w7
    BY <1>2, <1>3, <2>1
  <2>4. QED
    BY <2>1, <2>2, <2>3 DEF Nibbles
<1>11. CASE m = 6
  <2>1. 16^m * x = 16777216 * x /\ w6 = 0
    BY <1>1, <1>11, PowerFacts DEF Powers
  <2>2. /\ u[0] = w0 /\ u[1] = w1 /\ u[2] = w2 /\ u[3] = w3
        /\ u[4] = w4 /\ u[5] = w5 /\ u[6] = x /\ u[7] = w7
    BY <1>4, <1>11
  <2>3. v + 16777216 * x = w0 + 16 * w1 + 256 * w2 + 4096 * w3
                      + 65536 * w4 + 1048576 * w5 + 16777216 * x + 268435456 * w7
    BY <1>2, <1>3, <2>1
  <2>4. QED
    BY <2>1, <2>2, <2>3 DEF Nibbles
<1>12. CASE m = 7
  <2>1. 16^m * x = 268435456 * x /\ w7 = 0
    BY <1>1, <1>12, PowerFacts DEF Powers
  <2>2. /\ u[0] = w0 /\ u[1] = w1 /\ u[2] = w2 /\ u[3] = w3
        /\ u[4] = w4 /\ u[5] = w5 /\ u[6] = w6 /\ u[7] = x
    BY <1>4, <1>12
  <2>3. v + 268435456 * x = w0 + 16 * w1 + 256 * w2 + 4096 * w3
                      + 65536 * w4 + 1048576 * w5 + 16777216 * w6 + 268435456 * x
    BY <1>2, <1>3, <2>1
  <2>4. QED
    BY <2>1, <2>2, <2>3 DEF Nibbles
<1>13. m = 0 \/ m = 1 \/ m = 2 \/ m = 3 \/ m = 4 \/ m = 5 \/ m = 6 \/ m = 7
  OBVIOUS
<1>14. QED
  BY <1>13, <1>5, <1>6, <1>7, <1>8, <1>9, <1>10, <1>11, <1>12

(* The packed mask gives each target its own. *)
LEMMA FlushCbFacts ==
  ASSUME NEW h, DOMAIN h = EngineFields, NEW c, FewTargets, c.render.count \in 0 .. NumTargets,
         c.dyn["CB_WRITE_MASKS"] \in [Targets -> 0 .. 15]
  PROVE  LET k == FlushCb(h, c)
         IN /\ k.target = h.target
            /\ IF Dirty(c, MaskStates) THEN MasksIn(c, k)
               ELSE k.write = h.write /\ k.single = h.single
<1> DEFINE Step(k, n) == k + 16^(n - 1) * WriteMask(c, n - 1)
           Whole(f, m) == f = [n \in 0 .. m |-> IF n = 0 THEN 0 ELSE Step(f[n - 1], n)]
           mask == CHOOSE f : Whole(f, NumTargets)
           upto(n) == [t \in 0 .. 7 |-> IF t < n THEN WriteMask(c, t) ELSE 0]
           Right(k, n) == Nibbles(k, upto(n))
<1>1. FlushCb(h, c) = IF Dirty(c, MaskStates) THEN SetWriteMask(h, c.render.count, mask[NumTargets]) ELSE h
  <2>1. FlushCb(h, c) = IF Dirty(c, MaskStates)
                        THEN SetWriteMask(h, c.render.count,
                               (CHOOSE f : f = [n \in 0 .. NumTargets |-> IF n = 0 THEN 0
                                 ELSE f[n - 1] + 16^(n - 1) * WriteMask(c, n - 1)])[NumTargets])
                        ELSE h
    BY DEF FlushCb, MaskStates
  <2>2. QED
    BY <2>1
<1>2. NumTargets \in Nat /\ NumTargets <= 8 /\ Targets = 0 .. NumTargets - 1
  BY MmeAssumption DEF Targets, FewTargets
<1>3. \A t \in Targets : WriteMask(c, t) \in 0 .. 15
  BY DEF WriteMask
<1>4. \A n \in 0 .. NumTargets : upto(n) \in [0 .. 7 -> 0 .. 15]
  BY <1>2, <1>3
<1>5. Right(0, 0)
  BY DEF Nibbles
<1>6. ASSUME NEW n \in 1 .. NumTargets, NEW k, Right(k, n - 1) PROVE Right(Step(k, n), n)
  <2>1. PICK m : m = n - 1
    OBVIOUS
  <2>2. m \in Targets /\ n = m + 1
    BY <1>2, <2>1
  <2>3. PICK w, v, x : w = upto(m) /\ v = upto(n) /\ x = WriteMask(c, m)
    OBVIOUS
  <2>4. w \in [0 .. 7 -> 0 .. 15] /\ v \in [0 .. 7 -> 0 .. 15] /\ x \in 0 .. 15
    BY <1>2, <1>3, <1>4, <2>2, <2>3
  <2>5. \A t \in 0 .. 7 : v[t] = IF t = m THEN x ELSE w[t]
    BY <1>2, <2>2, <2>3
  <2>6. w[m] = 0 /\ m \in 0 .. 7
    BY <1>2, <2>2, <2>3
  <2>7. Step(k, n) = k + 16^m * x
    BY <2>1, <2>3
  <2>8. Nibbles(k, w)
    BY <1>6, <2>1, <2>3
  <2> HIDE DEF upto, Step
  <2>9. Nibbles(k + 16^m * x, v)
    <3>1. v = [w EXCEPT ![m] = x]
      BY <2>4, <2>5
    <3>2. QED
      BY <2>4, <2>6, <2>8, <3>1, NibbleAdded
  <2>10. QED
    BY <2>3, <2>7, <2>9
<1> HIDE DEF Step, Right
<1>7. \E f : Whole(f, NumTargets)
  <2> DEFINE T == {n \in 0 .. NumTargets : \E f : Whole(f, n)}
  <2>1. 0 \in T
    <3>1. Whole([v \in 0 .. 0 |-> 0], 0)
      OBVIOUS
    <3> HIDE DEF Whole
    <3>2. QED
      BY <1>2, <3>1
  <2>2. ASSUME NEW n \in 1 .. NumTargets, n - 1 \in T PROVE n \in T
    <3>1. PICK f : Whole(f, n - 1)
      BY <2>2
    <3> DEFINE e == [v \in 0 .. n |-> IF v = n THEN Step(f[n - 1], n) ELSE f[v]]
    <3>2. ASSUME NEW v \in 0 .. n PROVE e[v] = IF v = 0 THEN 0 ELSE Step(e[v - 1], v)
      BY <1>2, <2>2, <3>1
    <3>3. Whole(e, n)
      BY <3>2
    <3> HIDE DEF Whole, e
    <3>4. QED
      BY <3>3
  <2> HIDE DEF T
  <2>3. NumTargets \in T
    BY <1>2, <2>1, <2>2, Climb
  <2>4. QED
    BY <2>3 DEF T
<1>8. Whole(mask, NumTargets)
  <2> HIDE DEF Whole
  <2>1. QED
    BY <1>7
<1> HIDE DEF mask
<1>9. Right(mask[NumTargets], NumTargets)
  <2> DEFINE T == {n \in 0 .. NumTargets : Right(mask[n], n)}
  <2>1. 0 \in T
    BY <1>2, <1>5, <1>8
  <2>2. ASSUME NEW n \in 1 .. NumTargets, n - 1 \in T PROVE n \in T
    <3>1. mask[n] = Step(mask[n - 1], n)
      BY <1>2, <1>8
    <3>2. Right(mask[n - 1], n - 1)
      BY <2>2
    <3>3. Right(mask[n], n)
      BY <1>6, <3>1, <3>2
    <3>4. QED
      BY <3>3
  <2> HIDE DEF T
  <2>3. NumTargets \in T
    BY <1>2, <2>1, <2>2, Climb
  <2>4. QED
    BY <2>3 DEF T
<1>10. PICK v, w : v = mask[NumTargets] /\ w = upto(NumTargets)
  OBVIOUS
<1>11. /\ v \in Nat /\ \A a \in 0 .. 7 : (v \div 16^a) % 16 = w[a]
       /\ w \in [0 .. 7 -> 0 .. 15]
  <2>1. w \in [0 .. 7 -> 0 .. 15]
    BY <1>2, <1>4, <1>10
  <2>2. Nibbles(v, w)
    BY <1>9, <1>10 DEF Right
  <2> HIDE DEF upto
  <2>3. QED
    BY <2>1, <2>2, NibbleFacts
<1>12. \A a \in Targets : a \in 0 .. 7 /\ w[a] = WriteMask(c, a)
  BY <1>2, <1>10
<1>13. PICK k : k = SetWriteMask(h, c.render.count, v)
  OBVIOUS
<1>14. /\ k.target = h.target
       /\ \A a \in Targets : k.write[a] = IF a < c.render.count THEN (v \div 16^a) % 16 ELSE h.write[a]
       /\ k.single = \A i \in 0 .. c.render.count - 1 : v % 16 = (v \div 16^i) + 15
  BY <1>13 DEF SetWriteMask, EngineFields
<1>15. MasksIn(c, k)
  <2>1. ASSUME NEW a \in 0 .. c.render.count - 1 PROVE k.write[a] = WriteMask(c, a)
    <3>1. a \in Targets /\ a < c.render.count
      BY <1>2
    <3>2. QED
      BY <1>11, <1>12, <1>14, <3>1
  <2>2. ASSUME k.single, c.render.count # 0 PROVE FALSE
    <3>1. 0 \in 0 .. c.render.count - 1
      BY <1>2, <2>2
    <3>2. v % 16 = (v \div 16^0) + 15
      BY <1>14, <2>2, <3>1
    <3>3. v % 16 = v + 15
      <4>1. 16^0 = 1
        BY PowerFacts DEF Powers
      <4>2. v \div 1 = v
        BY <1>11
      <4>3. QED
        BY <3>2, <4>1, <4>2
    <3>4. QED
      BY <1>11, <3>3
  <2>3. QED
    BY <2>1, <2>2 DEF MasksIn
<1>16. QED
  BY <1>1, <1>10, <1>13, <1>14, <1>15

(* The row of one part, when no other part has it. *)
LEMMA MergeAt ==
  ASSUME NEW P, NEW j \in DOMAIN P, NEW r, r \in DOMAIN P[j],
         \A i \in DOMAIN P : r \in DOMAIN P[i] => i = j
  PROVE  r \in DOMAIN Merge(P) /\ Merge(P)[r] = P[j][r]
<1>1. r \in UNION {DOMAIN P[i] : i \in DOMAIN P}
  OBVIOUS
<1>2. (CHOOSE i \in DOMAIN P : r \in DOMAIN P[i]) = j
  OBVIOUS
<1>3. QED
  BY <1>1, <1>2 DEF Merge

(* The row that selects the targets. *)
LEMMA SelectRow ==
  ASSUME NEW c, Bounded(c), NEW r, r = <<"CT_SELECT", 0>>
  PROVE  /\ r \in DOMAIN Rows(c) /\ r \in Registers
         /\ Rows(c)[r] = [on |-> {"COLOR_ATTACHMENT_MAP"}, val |-> CtSelect(c.dyn["COLOR_ATTACHMENT_MAP"])]
<1> DEFINE per(name, on) ==
             [q \in {name} \X (0 .. c.render.count - 1) |-> [on |-> {on}, val |-> c.dyn[on][q[2]]]]
<1>1. PICK row, select : /\ select = CtSelect(c.dyn["COLOR_ATTACHMENT_MAP"])
                         /\ row = [on |-> {"COLOR_ATTACHMENT_MAP"}, val |-> select]
  OBVIOUS
<1>2. PICK P : P = <<per("BLEND", "CB_BLEND_ENABLES"), per("BLEND_PER_TARGET", "CB_BLEND_EQUATIONS"),
                     Row("CT_SELECT", {"COLOR_ATTACHMENT_MAP"}, select), PlainRows(c, PlainCb)>>
  OBVIOUS
<1>3. CbRows(c) = Merge(P)
  BY <1>1, <1>2 DEF CbRows
<1>4. r \in DOMAIN CbRows(c) /\ CbRows(c)[r] = row
  <2>1. DOMAIN P = 1 .. 4 /\ r \in DOMAIN P[3] /\ P[3][r] = row
    BY <1>1, <1>2 DEF Row
  <2>2. r \notin DOMAIN P[1] /\ r \notin DOMAIN P[2] /\ r \notin DOMAIN P[4]
    BY <1>2 DEF PlainRows, PlainCb
  <2>3. \A i \in DOMAIN P : r \in DOMAIN P[i] => i = 3
    BY <2>1, <2>2
  <2>4. QED
    BY <1>3, <2>1, <2>3, MergeAt
<1>5. PICK Q : Q = <<ViRows(c), IaRows(c), TsRows(c), VpRows(c), RsRows(c), MsRows(c), DsRows(c), CbRows(c)>>
  OBVIOUS
<1>6. Rows(c) = Merge(Q)
  BY <1>5 DEF Rows
<1>7. Carries(c, c)
  BY DEF Carries
<1>8. r \notin DOMAIN ViRows(c) /\ r \notin DOMAIN IaRows(c) /\ r \notin DOMAIN TsRows(c)
  <2>1. r \notin ViRegisters /\ r \notin IaRegisters /\ r \notin {<<"PATCH", 0>>}
    BY DEF ViRegisters, IaRegisters
  <2>2. QED
    BY <1>7, <2>1, LocalVi, LocalIa, LocalTs DEF Local
<1>9. r \notin DOMAIN VpRows(c) /\ r \notin DOMAIN RsRows(c)
  <2>1. r \notin VpRegisters /\ r \notin RsRegisters
    BY DEF VpRegisters, RsRegisters, PlainRs
  <2>2. QED
    BY <1>7, <2>1, LocalVp, LocalRs DEF Local
<1>10. r \notin DOMAIN MsRows(c) /\ r \notin DOMAIN DsRows(c)
  <2>1. r \notin MsRegisters /\ r \notin DsRegisters
    BY DEF MsRegisters, DsRegisters, PlainDs
  <2>2. QED
    BY <1>7, <2>1, LocalMs, LocalDs DEF Local
<1>11. \A i \in DOMAIN Q : r \in DOMAIN Q[i] => i = 8
  BY <1>5, <1>8, <1>9, <1>10
<1>12. 8 \in DOMAIN Q /\ r \in DOMAIN Q[8] /\ Q[8][r] = row
  BY <1>4, <1>5
<1>13. r \in Registers
  BY DEF Registers
<1>14. QED
  BY <1>1, <1>6, <1>11, <1>12, <1>13, MergeAt

(***************************************************************************)
(* The flush                                                               *)
(***************************************************************************)
(* The write mask is all that the flush of the colour state changes by macro. *)
LEMMA FlushCbStill ==
  ASSUME NEW h, Rooted(h), NEW c
  PROVE  LET k == FlushCb(h, c)
         IN /\ Kept(h, k) /\ k.vb = h.vb
            /\ k.tess = h.tess /\ k.z = h.z /\ k.aa = h.aa /\ k.reg = h.reg /\ k.cb0 = h.cb0
<1>1. PICK mask : FlushCb(h, c) = h \/ FlushCb(h, c) = SetWriteMask(h, c.render.count, mask)
  BY DEF FlushCb
<1> DEFINE k == FlushCb(h, c)
<1> HIDE DEF k
<1>2. CASE k = h
  BY <1>2, StillTransitive DEF Still, k
<1>3. CASE k = SetWriteMask(h, c.render.count, mask)
  <2>1. PICK w, b : k = [h EXCEPT !.write = w, !.single = b]
    BY <1>3 DEF SetWriteMask
  <2>2. /\ Kept(h, k) /\ k.vb = h.vb
        /\ k.tess = h.tess /\ k.z = h.z /\ k.aa = h.aa /\ k.reg = h.reg /\ k.cb0 = h.cb0
    BY <2>1 DEF Kept, Rooted, EngineFields
  <2>3. QED
    BY <2>2 DEF k
<1>4. QED
  BY <1>1, <1>2, <1>3 DEF k

(* A flush leaves every state that is set in the engine. *)
LEMMA FlushState ==
  ASSUME NEW c, NEW h, Rooted(h), Formatted(h.vb), Bounded(c),
         c.dyn["MS_RASTERIZATION_SAMPLES"] \in {0} \cup SampleCounts,
         c.dyn["CB_WRITE_MASKS"] \in [Targets -> 0 .. 15], StateCurrent(c, h),
         NEW d, d.dyn = c.dyn, d.set = c.set, d.render = c.render, d.dirty = {},
         d.shaders = c.shaders, d.shaders_dirty = c.shaders_dirty
  PROVE  StateCurrent(d, FlushDynamicState(h, c))
<1>1. PICK g0, g1, g2 : g0 = WriteRows(h, c) /\ g1 = FlushVi(g0, c) /\ g2 = FlushTs(g1, c)
  OBVIOUS
<1>2. PICK g3, g4, g5 : g3 = FlushVp(g2, c) /\ g4 = FlushRs(g3, c) /\ g5 = FlushMs(g4, c)
  OBVIOUS
<1>3. PICK k : k = FlushCb(g5, c)
  OBVIOUS
<1>4. k = FlushDynamicState(h, c)
  BY <1>1, <1>2, <1>3 DEF FlushDynamicState
<1>5. /\ TessTuned(h.tess) /\ DepthTuned(h.z) /\ SamplingTuned(h.aa, h.cb0.sample_masks)
      /\ DepthIn(c, h.z) /\ TessIn(c, h.tess.params) /\ SamplesIn(c, h.aa.params) /\ RowsIn(c, h.reg)
      /\ ColorIn(c, h)
  BY DEF StateCurrent, Tuned, DynIn
<1>6. Rooted(g0) /\ g0.vb = h.vb /\ Colors(h, g0)
  BY <1>1, ShadowStill, StillTransitive DEF Still
<1>7. Rooted(g1) /\ Aloof(g0, g1)
  BY <1>1, <1>6, FlushViFacts DEF Shifted, Kept, Bounded
<1>8. Rooted(g2) /\ Colors(g1, g2)
  BY <1>1, <1>7, FlushStill, StillTransitive DEF Still
<1>9. c.dyn["VP_VIEWPORT_COUNT"] \in 1 .. NumViewports /\ c.dyn["VP_VIEWPORT_COUNT"] \in Nat
  BY MmeAssumption DEF Bounded
<1>10. Rooted(g3) /\ Colors(g2, g3)
  BY <1>2, <1>8, <1>9, ViewportsStill, StillTransitive DEF Still
<1>11. Rooted(g4) /\ Colors(g3, g4)
  BY <1>2, <1>10, FlushStill, StillTransitive DEF Still
<1>12. Rooted(g5) /\ Colors(g4, g5)
  BY <1>2, <1>11, FlushStill, StillTransitive DEF Still
<1>13. k.tess = g5.tess /\ k.z = g5.z /\ k.aa = g5.aa /\ k.reg = g5.reg /\ k.cb0 = g5.cb0
  BY <1>3, <1>12, FlushCbStill
<1>14. /\ g1.tess = h.tess /\ g1.z = h.z /\ g1.aa = h.aa /\ g1.cb0.sample_masks = h.cb0.sample_masks
       /\ \A r \in Registers :
            g1.reg[r] = IF r \in DOMAIN Rows(c) /\ Rows(c)[r].on \cap c.dirty # {}
                        THEN Rows(c)[r].val ELSE h.reg[r]
  <2>1. /\ g0.tess = h.tess /\ g0.z = h.z /\ g0.aa = h.aa /\ g0.cb0 = h.cb0
        /\ \A r \in Registers :
             g0.reg[r] = IF r \in DOMAIN Rows(c) /\ Rows(c)[r].on \cap c.dirty # {}
                         THEN Rows(c)[r].val ELSE h.reg[r]
    BY <1>1, WriteRowsFacts
  <2>2. QED
    BY <1>7, <2>1 DEF Aloof
<1>15. /\ g2.z = h.z /\ g2.aa = h.aa /\ g2.reg = g1.reg /\ g2.cb0.sample_masks = h.cb0.sample_masks
       /\ TessTuned(g2.tess) /\ g2.tess.params.domain = h.tess.params.domain
       /\ g2.tess.params.prims = h.tess.params.prims
       /\ g2.tess.params.lower_left = IF "TS_DOMAIN_ORIGIN" \in c.dirty
                                      THEN c.dyn["TS_DOMAIN_ORIGIN"] = "lower_left"
                                      ELSE h.tess.params.lower_left
  <2>1. /\ g2.z = g1.z /\ g2.aa = g1.aa /\ g2.reg = g1.reg /\ g2.cb0 = g1.cb0
        /\ TessTuned(g2.tess) /\ g2.tess.params.domain = g1.tess.params.domain
        /\ g2.tess.params.prims = g1.tess.params.prims
        /\ g2.tess.params.lower_left = IF "TS_DOMAIN_ORIGIN" \in c.dirty
                                       THEN c.dyn["TS_DOMAIN_ORIGIN"] = "lower_left"
                                       ELSE g1.tess.params.lower_left
    <3>1. TessTuned(g1.tess)
      BY <1>5, <1>14
    <3>2. QED
      BY <1>1, <1>7, <3>1, FlushTsFacts
  <2>2. QED
    BY <1>14, <2>1
<1>16. /\ g3.tess = g2.tess /\ g3.aa = h.aa /\ g3.reg = g1.reg /\ g3.cb0.sample_masks = h.cb0.sample_masks
       /\ DepthTuned(g3.z) /\ g3.z.clamp = h.z.clamp
       /\ IF Dirty(c, ViewportStates)
          THEN \A i \in 1 .. c.dyn["VP_VIEWPORT_COUNT"] : g3.z.range[i] = ClampRange(c, i)
          ELSE g3.z = h.z
  <2>1. /\ g3.tess = g2.tess /\ g3.aa = g2.aa /\ g3.reg = g2.reg /\ g3.cb0 = g2.cb0
        /\ DepthTuned(g3.z) /\ g3.z.clamp = g2.z.clamp
        /\ IF Dirty(c, ViewportStates)
           THEN \A i \in 1 .. c.dyn["VP_VIEWPORT_COUNT"] : g3.z.range[i] = ClampRange(c, i)
           ELSE g3.z = g2.z
    BY <1>2, <1>5, <1>8, <1>9, <1>15, FlushVpFacts
  <2>2. QED
    BY <1>15, <2>1
<1>17. /\ g4.tess = g2.tess /\ g4.aa = h.aa /\ g4.reg = g1.reg /\ g4.cb0.sample_masks = h.cb0.sample_masks
       /\ DepthTuned(g4.z) /\ g4.z.range = g3.z.range
       /\ g4.z.clamp = IF Dirty(c, {"RS_DEPTH_CLIP_ENABLE", "RS_DEPTH_CLAMP_ENABLE"})
                       THEN c.dyn["RS_DEPTH_CLAMP_ENABLE"] ELSE h.z.clamp
  <2>1. /\ g4.tess = g3.tess /\ g4.aa = g3.aa /\ g4.reg = g3.reg
        /\ g4.cb0.sample_masks = g3.cb0.sample_masks
        /\ DepthTuned(g4.z) /\ g4.z.range = g3.z.range
        /\ g4.z.clamp = IF Dirty(c, {"RS_DEPTH_CLIP_ENABLE", "RS_DEPTH_CLAMP_ENABLE"})
                        THEN c.dyn["RS_DEPTH_CLAMP_ENABLE"] ELSE g3.z.clamp
    BY <1>2, <1>10, <1>16, FlushRsFacts
  <2>2. QED
    BY <1>16, <2>1
<1>18. /\ g5.tess = g2.tess /\ g5.z = g4.z /\ g5.reg = g1.reg
       /\ SamplingTuned(g5.aa, g5.cb0.sample_masks)
       /\ g5.aa.params.rcp = h.aa.params.rcp
       /\ g5.aa.params.samples = IF "MS_RASTERIZATION_SAMPLES" \in c.dirty /\ c.render.samples = 0
                                 THEN Log2(SampleCount(c)) ELSE h.aa.params.samples
  <2>1. SamplingTuned(g4.aa, g4.cb0.sample_masks)
    BY <1>5, <1>17
  <2>2. /\ g5.tess = g4.tess /\ g5.z = g4.z /\ g5.reg = g4.reg
        /\ SamplingTuned(g5.aa, g5.cb0.sample_masks)
        /\ g5.aa.params.rcp = g4.aa.params.rcp
        /\ g5.aa.params.samples = IF "MS_RASTERIZATION_SAMPLES" \in c.dirty /\ c.render.samples = 0
                                  THEN Log2(SampleCount(c)) ELSE g4.aa.params.samples
    BY <1>2, <1>11, <2>1, FlushMsFacts
  <2>3. QED
    BY <1>17, <2>2
<1>19. Tuned(g5)
  BY <1>15, <1>17, <1>18 DEF Tuned
<1>20. Colors(h, g5)
  BY <1>6, <1>7, <1>8, <1>10, <1>11, <1>12 DEF Aloof, Colors
<1>21. DepthIn(d, g5.z)
  <2>1. CleanIn(d, {"RS_DEPTH_CLAMP_ENABLE"}) => g5.z.clamp = d.dyn["RS_DEPTH_CLAMP_ENABLE"]
    <3>1. CASE Dirty(c, {"RS_DEPTH_CLIP_ENABLE", "RS_DEPTH_CLAMP_ENABLE"})
      BY <1>17, <1>18, <3>1
    <3>2. CASE ~Dirty(c, {"RS_DEPTH_CLIP_ENABLE", "RS_DEPTH_CLAMP_ENABLE"})
      <4>1. CleanIn(d, {"RS_DEPTH_CLAMP_ENABLE"}) => CleanIn(c, {"RS_DEPTH_CLAMP_ENABLE"})
        BY <3>2 DEF CleanIn, Dirty
      <4>2. QED
        BY <1>5, <1>17, <1>18, <3>2, <4>1 DEF DepthIn
    <3>3. QED
      BY <3>1, <3>2
  <2>2. ASSUME FixedCounts, CleanIn(d, ViewportStates), NEW i \in 1 .. d.dyn["VP_VIEWPORT_COUNT"]
        PROVE  g5.z.range[i] = ClampRange(d, i)
    <3>1. ClampRange(d, i) = ClampRange(c, i)
      BY DEF ClampRange
    <3>2. CASE Dirty(c, ViewportStates)
      BY <1>16, <1>17, <1>18, <2>2, <3>1, <3>2
    <3>3. CASE ~Dirty(c, ViewportStates)
      <4>1. CleanIn(c, ViewportStates)
        BY <2>2, <3>3 DEF CleanIn, Dirty
      <4>2. h.z.range[i] = ClampRange(c, i)
        BY <1>5, <2>2, <4>1 DEF DepthIn
      <4>3. QED
        BY <1>16, <1>17, <1>18, <3>1, <3>3, <4>2
    <3>4. QED
      BY <3>2, <3>3
  <2>3. QED
    BY <2>1, <2>2 DEF DepthIn
<1>22. TessIn(d, g5.tess.params)
  <2>1. CleanIn(d, {"TS_DOMAIN_ORIGIN"}) =>
          "TS_DOMAIN_ORIGIN" \in c.dirty \/ CleanIn(c, {"TS_DOMAIN_ORIGIN"})
    BY DEF CleanIn
  <2>2. QED
    BY <1>5, <1>15, <1>18, <2>1 DEF TessIn
<1>23. SamplesIn(d, g5.aa.params)
  <2>1. SampleCount(d) = SampleCount(c)
    BY DEF SampleCount
  <2>2. CleanIn(d, {"MS_RASTERIZATION_SAMPLES"}) =>
          "MS_RASTERIZATION_SAMPLES" \in c.dirty \/ CleanIn(c, {"MS_RASTERIZATION_SAMPLES"})
    BY DEF CleanIn
  <2>3. QED
    BY <1>5, <1>18, <2>1, <2>2 DEF SamplesIn
<1>24. RowsIn(d, g5.reg)
  <2>1. SUFFICES ASSUME FixedCounts, NEW r \in DOMAIN Rows(d), Settled(d, Rows(d)[r].on)
                 PROVE  g5.reg[r] = Rows(d)[r].val
    BY DEF RowsIn
  <2>2. Rows(d) = Rows(c)
    BY RowsSame
  <2>3. Carries(c, c)
    BY DEF Carries
  <2>4. r \in Registers
    BY <2>1, <2>2, <2>3, LocalRows DEF Local
  <2>5. CASE Rows(c)[r].on \cap c.dirty # {}
    BY <1>14, <1>18, <2>1, <2>2, <2>4, <2>5
  <2>6. CASE Rows(c)[r].on \cap c.dirty = {}
    <3>1. Settled(c, Rows(c)[r].on)
      BY <2>1, <2>2, <2>6 DEF Settled
    <3>2. h.reg[r] = Rows(c)[r].val
      BY <1>5, <2>1, <2>2, <3>1 DEF RowsIn
    <3>3. QED
      BY <1>14, <1>18, <2>2, <2>4, <2>6, <3>2
  <2>7. QED
    BY <2>5, <2>6
<1>25. k.target = h.target
  <2>1. k.target = g5.target
    <3>1. FlushCb(g5, c).target = g5.target
      BY DEF FlushCb, SetWriteMask
    <3>2. QED
      BY <1>3, <3>1
  <2>2. QED
    BY <1>20, <2>1 DEF Colors
<1>26. PassIn(d.render, k)
  BY <1>13, <1>18, <1>25 DEF StateCurrent, PassIn
<1>27. ColorIn(d, k)
  <2>1. ASSUME CleanIn(d, {"COLOR_ATTACHMENT_MAP"})
        PROVE  k.reg[<<"CT_SELECT", 0>>] = CtSelect(d.dyn["COLOR_ATTACHMENT_MAP"])
    <3>1. PICK r, val : r = <<"CT_SELECT", 0>> /\ val = CtSelect(c.dyn["COLOR_ATTACHMENT_MAP"])
      OBVIOUS
    <3>2. /\ r \in DOMAIN Rows(c) /\ r \in Registers
          /\ Rows(c)[r] = [on |-> {"COLOR_ATTACHMENT_MAP"}, val |-> val]
      BY <3>1, SelectRow
    <3>3. k.reg[r] = IF "COLOR_ATTACHMENT_MAP" \in c.dirty THEN val ELSE h.reg[r]
      BY <1>13, <1>14, <1>18, <3>2
    <3>4. "COLOR_ATTACHMENT_MAP" \in c.dirty \/ CleanIn(c, {"COLOR_ATTACHMENT_MAP"})
      BY <2>1 DEF CleanIn
    <3>5. QED
      BY <1>5, <3>1, <3>3, <3>4 DEF ColorIn
  <2>2. ASSUME FewTargets, d.render.in, CleanIn(d, MaskStates) PROVE MasksIn(d, k)
    <3>1. IF Dirty(c, MaskStates) THEN MasksIn(c, k) ELSE k.write = g5.write /\ k.single = g5.single
      BY <1>3, <1>12, <2>2, FlushCbFacts DEF Rooted, Bounded
    <3>2. MasksIn(c, k)
      <4>1. CASE Dirty(c, MaskStates)
        BY <3>1, <4>1
      <4>2. CASE ~Dirty(c, MaskStates)
        <5>1. CleanIn(c, MaskStates)
          BY <2>2, <4>2 DEF CleanIn, Dirty
        <5>2. MasksIn(c, h)
          BY <1>5, <2>2, <5>1 DEF ColorIn
        <5>3. k.write = h.write /\ k.single = h.single
          BY <1>20, <3>1, <4>2 DEF Colors
        <5>4. QED
          BY <5>2, <5>3 DEF MasksIn
      <4>3. QED
        BY <4>1, <4>2
    <3>3. \A a : WriteMask(d, a) = WriteMask(c, a)
      BY DEF WriteMask
    <3>4. QED
      BY <3>2, <3>3 DEF MasksIn
  <2>3. QED
    BY <2>1, <2>2 DEF ColorIn
<1>28. QED
  BY <1>4, <1>13, <1>19, <1>21, <1>22, <1>23, <1>24, <1>26, <1>27 DEF StateCurrent, DynIn, Tuned

(***************************************************************************)
(* The masks of sample shading                                             *)
(***************************************************************************)
(* The samples 0 .. n - 1 divided by masks between that many passes. *)
Divides(masks, n, passes) ==
  LET used == 0 .. n - 1
      m    == [s \in used |-> masks[s] \cap used]
  IN /\ \A s \in used : s \in m[s] /\ Cardinality(m[s]) * passes = n
     /\ \A s, t \in used : m[s] = m[t] \/ m[s] \cap m[t] = {}

(* Masks that are the parts of a partition into parts of one size divide.    *)
LEMMA PartsDivide ==
  ASSUME NEW n \in Nat, NEW parts, NEW size \in Nat, NEW passes \in Nat,
         size * passes = n,
         \A p \in parts : p \subseteq 0 .. n - 1 /\ Cardinality(p) = size,
         \A p, q \in parts : p = q \/ p \cap q = {},
         NEW masks,
         \A s \in 0 .. n - 1 : \E p \in parts : s \in p /\ masks[s] \cap (0 .. n - 1) = p
  PROVE  Divides(masks, n, passes)
<1>1. PICK used : used = 0 .. n - 1
  OBVIOUS
<1>2. PICK m : m = [s \in used |-> masks[s] \cap used]
  OBVIOUS
<1>3. \A s \in used : \E p \in parts : s \in p /\ m[s] = p
  BY <1>1, <1>2
<1>4. \A s \in used : s \in m[s] /\ m[s] \in parts
  BY <1>3
<1>5. \A s \in used : Cardinality(m[s]) * passes = n
  BY <1>4
<1>6. \A s, t \in used : m[s] = m[t] \/ m[s] \cap m[t] = {}
  BY <1>4
<1>7. QED
  BY <1>1, <1>2, <1>4, <1>5, <1>6 DEF Divides

(* A mask of its own for each sample, and one for all. *)
LEMMA PlainDivide ==
  ASSUME NEW n \in SampleCounts
  PROVE  Divides(EachAlone, n, n) /\ Divides([s \in Samples |-> Samples], n, 1)
<1>1. n \in Nat /\ 0 .. n - 1 \subseteq Samples
  BY DEF SampleCounts, Samples, NumSamples
<1>2. Divides(EachAlone, n, n)
  <2>1. PICK parts, masks, one : /\ parts = {{s} : s \in 0 .. n - 1} /\ masks = EachAlone
                                 /\ one = 1
    OBVIOUS
  <2>2. \A s : Cardinality({s}) = 1
    BY FS_Singleton
  <2>3. \A p \in parts : p \subseteq 0 .. n - 1 /\ Cardinality(p) = one
    BY <2>1, <2>2
  <2>4. \A p, q \in parts : p = q \/ p \cap q = {}
    BY <2>1
  <2>5. \A s \in 0 .. n - 1 : \E p \in parts : s \in p /\ masks[s] \cap (0 .. n - 1) = p
    <3>1. SUFFICES ASSUME NEW s \in 0 .. n - 1
                   PROVE  {s} \in parts /\ masks[s] \cap (0 .. n - 1) = {s}
      OBVIOUS
    <3>2. masks[s] = {s}
      BY <1>1, <2>1, <3>1 DEF EachAlone
    <3>3. QED
      BY <2>1, <3>1, <3>2
  <2>6. one * n = n /\ one \in Nat /\ n \in Nat
    BY <1>1, <2>1
  <2>7. Divides(masks, n, n)
    BY <2>3, <2>4, <2>5, <2>6, PartsDivide
  <2>8. QED
    BY <2>1, <2>7
<1>3. Divides([s \in Samples |-> Samples], n, 1)
  <2>1. PICK used, parts, masks, one : /\ used = 0 .. n - 1 /\ parts = {used}
                                       /\ masks = [s \in Samples |-> Samples] /\ one = 1
    OBVIOUS
  <2>2. Cardinality(used) = n
    <3>1. 0 \in Int /\ n - 1 \in Int
      BY <1>1
    <3>2. Cardinality(0 .. n - 1) = IF 0 > n - 1 THEN 0 ELSE n - 1 - 0 + 1
      BY <3>1, FS_Interval, Zenon
    <3>3. QED
      BY <1>1, <2>1, <3>2
  <2>3. \A p \in parts : p \subseteq 0 .. n - 1 /\ Cardinality(p) = n
    BY <2>1, <2>2
  <2>4. \A p, q \in parts : p = q \/ p \cap q = {}
    BY <2>1
  <2>5. \A s \in 0 .. n - 1 : \E p \in parts : s \in p /\ masks[s] \cap (0 .. n - 1) = p
    BY <1>1, <2>1
  <2>6. n * one = n /\ one \in Nat /\ n \in Nat
    BY <1>1, <2>1
  <2>7. Divides(masks, n, one)
    BY <2>3, <2>4, <2>5, <2>6, PartsDivide
  <2>8. QED
    BY <2>1, <2>7
<1>4. QED
  BY <1>2, <1>3

(* Two samples are two. *)
LEMMA PairSize ==
  ASSUME NEW a, NEW b, a # b
  PROVE  Cardinality({a, b}) = 2
<1>1. IsFiniteSet({a}) /\ Cardinality({a}) = 1
  BY FS_Singleton
<1>2. Cardinality({a} \cup {b}) = Cardinality({a}) + 1
  BY <1>1, FS_AddElement
<1>3. {a} \cup {b} = {a, b}
  OBVIOUS
<1>4. QED
  BY <1>1, <1>2, <1>3

(* The halves of 2x2 and the quarters of 4x2 (nvk_mme_set_anti_alias).       *)
LEMMA LayoutDivide ==
  Divides(TwoPassMasks("2x2"), 4, 2) /\ Divides(FourPassMasks("4x2_d3d"), 8, 4)
<1>1. Divides(TwoPassMasks("2x2"), 4, 2)
  <2>1. PICK n, two, parts, masks : /\ n = 4 /\ two = 2 /\ parts = {{0, 2}, {1, 3}}
                                    /\ masks = TwoPassMasks("2x2")
    OBVIOUS
  <2>2. \A p \in parts : p \subseteq 0 .. n - 1 /\ Cardinality(p) = two
    <3>1. 0 # 2 /\ 1 # 3
      OBVIOUS
    <3>2. Cardinality({0, 2}) = 2 /\ Cardinality({1, 3}) = 2
      BY <3>1, PairSize, Zenon
    <3>3. {0, 2} \subseteq 0 .. n - 1 /\ {1, 3} \subseteq 0 .. n - 1
      BY <2>1
    <3>4. QED
      BY <2>1, <3>2, <3>3, Zenon
  <2>3. \A p, q \in parts : p = q \/ p \cap q = {}
    <3>1. {0, 2} \cap {1, 3} = {} /\ {1, 3} \cap {0, 2} = {}
      OBVIOUS
    <3>2. QED
      BY <2>1, <3>1, Zenon
  <2>4. \A s \in 0 .. n - 1 : masks[s] = IF s % 2 = 0 THEN {0, 2} ELSE {1, 3}
    BY <2>1 DEF TwoPassMasks, Samples, NumSamples
  <2>5. \A s \in 0 .. n - 1 : \E p \in parts : s \in p /\ masks[s] \cap (0 .. n - 1) = p
    <3>1. SUFFICES ASSUME NEW s \in 0 .. n - 1
                   PROVE  s \in masks[s] /\ masks[s] \in parts
      BY <2>2
    <3>2. s = 0 \/ s = 1 \/ s = 2 \/ s = 3
      BY <2>1
    <3>3. QED
      BY <2>1, <2>4, <3>2
  <2>6. two * two = n /\ two \in Nat /\ n \in Nat
    BY <2>1
  <2>7. Divides(masks, n, two)
    BY <2>2, <2>3, <2>5, <2>6, PartsDivide
  <2>8. QED
    BY <2>1, <2>7
<1>2. Divides(FourPassMasks("4x2_d3d"), 8, 4)
  <2>1. PICK n, two, four, parts, masks :
          /\ n = 8 /\ two = 2 /\ four = 4 /\ parts = {{0, 7}, {1, 4}, {2, 6}, {3, 5}}
          /\ masks = FourPassMasks("4x2_d3d")
    OBVIOUS
  <2>2. \A p \in parts : p \subseteq 0 .. n - 1 /\ Cardinality(p) = two
    <3>1. 0 # 7 /\ 1 # 4 /\ 2 # 6 /\ 3 # 5
      OBVIOUS
    <3>2. /\ Cardinality({0, 7}) = 2 /\ Cardinality({1, 4}) = 2
          /\ Cardinality({2, 6}) = 2 /\ Cardinality({3, 5}) = 2
      BY <3>1, PairSize, Zenon
    <3>3. /\ {0, 7} \subseteq 0 .. n - 1 /\ {1, 4} \subseteq 0 .. n - 1
          /\ {2, 6} \subseteq 0 .. n - 1 /\ {3, 5} \subseteq 0 .. n - 1
      BY <2>1
    <3>4. QED
      BY <2>1, <3>2, <3>3, Zenon
  <2>3. \A p, q \in parts : p = q \/ p \cap q = {}
    BY <2>1
  <2>4. ASSUME NEW s \in 0 .. n - 1, NEW p \in parts, s \in p
        PROVE  masks[s] = p
    <3>1. masks = Groups(parts)
      BY <2>1 DEF FourPassMasks
    <3>2. s \in Samples
      BY <2>1 DEF Samples, NumSamples
    <3>3. masks[s] = UNION {q \in parts : s \in q}
      BY <3>1, <3>2 DEF Groups
    <3>4. {q \in parts : s \in q} = {p}
      BY <2>3, <2>4
    <3>5. UNION {p} = p
      OBVIOUS
    <3>6. QED
      BY <3>3, <3>4, <3>5
  <2>5. \A s \in 0 .. n - 1 : \E p \in parts : s \in p /\ masks[s] \cap (0 .. n - 1) = p
    <3>1. SUFFICES ASSUME NEW s \in 0 .. n - 1 PROVE \E p \in parts : s \in p
      BY <2>2, <2>4
    <3>2. s = 0 \/ s = 1 \/ s = 2 \/ s = 3 \/ s = 4 \/ s = 5 \/ s = 6 \/ s = 7
      BY <2>1
    <3>3. QED
      BY <2>1, <3>2
  <2>6. two * four = n /\ two \in Nat /\ four \in Nat /\ n \in Nat
    BY <2>1
  <2>7. Divides(masks, n, four)
    BY <2>2, <2>3, <2>5, <2>6, PartsDivide
  <2>8. QED
    BY <2>1, <2>7
<1>3. QED
  BY <1>1, <1>2

(* The masks of a layout divide its samples at every rate of a shader.       *)
LEMMA MasksDivide ==
  ASSUME NEW n \in SampleCounts, NEW aa, LaidOut(aa, n), aa.params.rcp \in Rates \ {15}
  PROVE  Divides(Masks(aa.params, aa.two, aa.four), n, 2^PassesLog2(aa.params))
<1>1. PICK p, rcp, k, l : p = aa.params /\ rcp = p.rcp /\ k = p.samples /\ l = PassesLog2(p)
  OBVIOUS
<1>2. n \in {1, 2, 4, 8} /\ rcp \in {0, 1, 4}
  BY <1>1 DEF SampleCounts, Rates
<1>3. k = IF n = 1 THEN 0 ELSE IF n = 2 THEN 1 ELSE IF n = 4 THEN 2 ELSE 3
  BY <1>1, <1>2, LogFacts DEF LaidOut
<1>4. l = IF k > rcp THEN k - rcp ELSE 0
  BY <1>1 DEF PassesLog2
<1>5. 2^0 = 1 /\ 2^1 = 2 /\ 2^2 = 4 /\ 2^3 = 8
  BY SMT
<1>6. PICK masks : masks = Masks(p, aa.two, aa.four)
  OBVIOUS
<1>7. CASE l = k
  <2>1. masks = EachAlone
    BY <1>1, <1>6, <1>7 DEF Masks
  <2>2. 2^l = n
    <3>1. k = 0 => 2^k = 1
      BY <1>5
    <3>2. k = 1 => 2^k = 2
      BY <1>5
    <3>3. k = 2 => 2^k = 4
      BY <1>5
    <3>4. k = 3 => 2^k = 8
      BY <1>5
    <3>5. PICK e : e = 2^k
      OBVIOUS
    <3>6. e = n
      BY <1>2, <1>3, <3>1, <3>2, <3>3, <3>4, <3>5
    <3>7. QED
      BY <1>7, <3>5, <3>6
  <2>3. QED
    BY <1>1, <1>6, <2>1, <2>2, PlainDivide
<1>8. CASE l # k /\ l = 0
  <2>1. masks = [s \in Samples |-> Samples]
    BY <1>1, <1>6, <1>8 DEF Masks
  <2>2. QED
    BY <1>1, <1>5, <1>6, <1>8, <2>1, PlainDivide
<1>9. CASE l # k /\ l = 1
  <2>1. n = 4
    BY <1>2, <1>3, <1>4, <1>9
  <2>2. masks = TwoPassMasks("2x2")
    <3>1. SampleLayout(4) = "2x2"
      BY DEF SampleLayout
    <3>2. masks = aa.two
      BY <1>1, <1>6, <1>9 DEF Masks
    <3>3. QED
      BY <2>1, <3>1, <3>2 DEF LaidOut
  <2>3. QED
    BY <1>1, <1>5, <1>6, <1>9, <2>1, <2>2, LayoutDivide
<1>10. CASE l # k /\ l = 2
  <2>1. n = 8
    BY <1>2, <1>3, <1>4, <1>10
  <2>2. masks = FourPassMasks("4x2_d3d")
    <3>1. SampleLayout(8) = "4x2_d3d"
      BY DEF SampleLayout
    <3>2. masks = aa.four
      BY <1>1, <1>6, <1>10 DEF Masks
    <3>3. QED
      BY <2>1, <3>1, <3>2 DEF LaidOut
  <2>3. QED
    BY <1>1, <1>5, <1>6, <1>10, <2>1, <2>2, LayoutDivide
<1>11. l = k \/ l = 0 \/ l = 1 \/ l = 2
  BY <1>2, <1>3, <1>4
<1>12. QED
  BY <1>7, <1>8, <1>9, <1>10, <1>11

==============================================================================
