---------------------------- MODULE NvkImageProofs ----------------------------
(***************************************************************************)
(* Proofs about NvkImage, for any create infos, queries, memory objects and *)
(* address ranges, and any alignments and bounds.                          *)
(***************************************************************************)
EXTENDS NvkImage, FiniteSetTheorems, FunctionTheorems, SequenceTheorems, TLAPS

-----------------------------------------------------------------------------
(* Types. *)

Infos   == UNION Scenarios
Layouts == UNION {LayoutsOf(i.format) : i \in Infos}
Asks    == (Mems \X Nat) \cup {<<"swapchain", 0>>}
Askings == UNION {[D -> Asks] : D \in SUBSET (1 .. 3)}

(* A plane, and an image or what is being made of one.                      *)
PlaneType == [nil  : Layouts, va : Vas \cup {"none"},
              addr : {<<>>} \cup ({"va"} \X Vas) \cup ({"mem"} \X Mems \X Nat),
              host : {<<>>} \cup (Mems \X Nat)]
ImageType == [planes : Seq(PlaneType), count : 1 .. 3, shadow : Seq(PlaneType),
              disjoint : BOOLEAN, sparse : BOOLEAN, resident : BOOLEAN,
              usage : {WidenedUsage(i) : i \in Infos},
              asked : Askings]

(* The layouts of an image have a size and an alignment.                     *)
LEMMA LayoutFacts ==
  \A nil \in Layouts : nil.size \in Nat \ {0} /\ nil.align \in Nat \ {0} /\ nil.kind \in Nat
<1>1. ASSUME NEW i \in Infos PROVE IsFormat(i.format)
  BY ImageAssumption DEF Infos
<1>2. ASSUME NEW nil \in Layouts PROVE IsLayout(nil)
  BY <1>1 DEF Layouts, IsFormat
<1>3. QED
  BY <1>2 DEF IsLayout

(* The sizes and alignments of a plane are those of a range of addresses.    *)
LEMMA PlaneFacts ==
  ASSUME NEW im, NEW p \in PlaneType
  PROVE  PlaneAlign(im, p) \in Nat \ {0} /\ PlaneSize(im, p) \in Nat \ {0}
<1>1. p.nil.size \in Nat \ {0} /\ p.nil.align \in Nat \ {0} /\ BindAlign \in Nat \ {0}
  BY LayoutFacts, ImageAssumption DEF PlaneType
<1>2. PlaneAlign(im, p) \in Nat \ {0}
  BY <1>1 DEF PlaneAlign, Most
<1>3. \A n, a \in Nat \ {0} : Align(n, a) \in Nat \ {0}
  <2>1. ASSUME NEW n \in Nat \ {0}, NEW a \in Nat \ {0}
        PROVE  Align(n, a) \in Nat \ {0}
    <3>1. (n + a - 1) \div a \in Nat \ {0}
      BY <2>1
    <3>2. QED
      BY <3>1 DEF Align
  <2>2. QED
    BY <2>1
<1>4. QED
  BY <1>1, <1>2, <1>3 DEF PlaneSize

(* What nvk_image_init makes.                                               *)
LEMMA InitType ==
  ASSUME NEW i \in Infos
  PROVE  /\ ImageInit(i) \in ImageType
         /\ \A n \in DOMAIN ImageInit(i).planes : ImageInit(i).planes[n].va = "none"
         /\ \A n \in DOMAIN ImageInit(i).shadow : ImageInit(i).shadow[n].va = "none"
         /\ Len(ImageInit(i).shadow) \in {0, 1}
<1> DEFINE im == ImageInit(i)
           Made == {InitPlane(nil) : nil \in Layouts}
<1>1. IsFormat(i.format)
  BY ImageAssumption DEF Infos
<1>2. /\ i.format.stencil \in Layouts
      /\ \A n \in Planes(i.format) :
           i.format.planes[n].tiled \in Layouts /\ i.format.planes[n].linear \in Layouts
  <2>1. LayoutsOf(i.format) \subseteq Layouts
    BY DEF Layouts
  <2>2. QED
    BY <2>1 DEF LayoutsOf, Planes
<1>3. Made \subseteq PlaneType /\ \A p \in Made : p.va = "none"
  BY DEF InitPlane, PlaneType
<1>4. [n \in Planes(i.format) |-> InitPlane(Layout(i.format.planes[n], i))] \in Seq(Made)
  <2>1. \A n \in Planes(i.format) : InitPlane(Layout(i.format.planes[n], i)) \in Made
    BY <1>2 DEF Layout
  <2>2. Planes(i.format) = 1 .. Len(i.format.planes) /\ Len(i.format.planes) \in Nat
    BY <1>1 DEF IsFormat, Planes
  <2>3. QED
    BY <2>1, <2>2
<1>t. \A nil \in Layouts : InitPlane(nil) \in Made
  OBVIOUS
<1> HIDE DEF Made
<1>5. StencilCopyTemp(i) \in Seq(Made)
  <2>1. InitPlane(i.format.stencil) \in Made
    BY <1>2, <1>t
  <2>2. QED
    BY <2>1 DEF StencilCopyTemp
<1>6. im.planes \in Seq(Made)
  BY <1>4, <1>5 DEF ImageInit
<1>7. im.shadow \in Seq(Made) /\ Len(im.shadow) \in {0, 1}
  <2>1. 1 \in Planes(i.format)
    BY <1>1 DEF IsFormat, Planes
  <2>2. TiledShadow(i) \in Seq(Made) /\ Len(TiledShadow(i)) \in {0, 1}
    <3>1. InitPlane(i.format.planes[1].tiled) \in Made
      BY <1>2, <1>t, <2>1
    <3>2. QED
      BY <3>1 DEF TiledShadow
  <2>3. QED
    BY <2>2 DEF ImageInit
<1>8. im.asked \in [{} -> Asks]
  BY DEF ImageInit
<1>9. im \in ImageType
  <2>1. im.planes \in Seq(PlaneType) /\ im.shadow \in Seq(PlaneType)
    BY <1>3, <1>6, <1>7
  <2>2. im.count \in 1 .. 3
    BY <1>1 DEF ImageInit, IsFormat
  <2>3. im.asked \in Askings
    BY <1>8 DEF Askings
  <2>4. im.usage \in {WidenedUsage(j) : j \in Infos}
    BY DEF ImageInit
  <2>5. im = [planes |-> im.planes, count |-> im.count, shadow |-> im.shadow, disjoint |-> im.disjoint,
              sparse |-> im.sparse, resident |-> im.resident, usage |-> im.usage, asked |-> im.asked]
    BY DEF ImageInit
  <2>6. im.disjoint \in BOOLEAN /\ im.sparse \in BOOLEAN /\ im.resident \in BOOLEAN
    BY DEF ImageInit
  <2> HIDE DEF im
  <2>7. QED
    BY <2>1, <2>2, <2>3, <2>4, <2>5, <2>6 DEF ImageType
<1>10. QED
  BY <1>3, <1>6, <1>7, <1>9

-----------------------------------------------------------------------------
(* One part behind the other.                                              *)

Chunks(parts) ==
  /\ Len(parts) \in 0 .. 4
  /\ \A k \in 1 .. Len(parts) : parts[k].size \in Nat /\ parts[k].align \in Nat \ {0}

(* An aligned number is a number, no smaller and a multiple.                *)
LEMMA AlignFacts ==
  ASSUME NEW n \in Nat, NEW a \in Nat \ {0}
  PROVE  Align(n, a) \in Nat /\ Align(n, a) >= n
<1> DEFINE q == (n + a - 1) \div a
<1>1. q \in Nat /\ n + a - 1 < (q + 1) * a
  OBVIOUS
<1>2. (q + 1) * a = q * a + a
  BY <1>1
<1> HIDE DEF q
<1>3. q * a \in Nat /\ q * a >= n
  BY <1>1, <1>2
<1>4. QED
  BY <1>3 DEF Align, q

(* The recursive function Starts exists, so that it obeys its equation: each  *)
(* part starts where the one before it ends.                                *)
LEMMA StartsFacts ==
  ASSUME NEW parts, NEW from \in Nat, Chunks(parts)
  PROVE  /\ DOMAIN Starts(parts, from) = 1 .. Len(parts) + 1
         /\ Starts(parts, from)[1] = from
         /\ \A n \in 1 .. Len(parts) :
              Starts(parts, from)[n + 1] = Align(Starts(parts, from)[n], parts[n].align) + parts[n].size
         /\ \A n \in 1 .. Len(parts) + 1 : Starts(parts, from)[n] \in Nat
<1> DEFINE Next1(s, n) == Align(s, parts[n].align) + parts[n].size
           D == 1 .. Len(parts) + 1
           Walk(f) == [n \in D |-> IF n = 1 THEN from ELSE Align(f[n - 1], parts[n - 1].align) + parts[n - 1].size]
           s2 == Next1(from, 1)
           s3 == Next1(s2, 2)
           s4 == Next1(s3, 3)
           s5 == Next1(s4, 4)
           g == [n \in D |-> IF n = 1 THEN from ELSE IF n = 2 THEN s2 ELSE IF n = 3 THEN s3
                             ELSE IF n = 4 THEN s4 ELSE s5]
           f == Starts(parts, from)
<1>1. Len(parts) \in 0 .. 4
  BY DEF Chunks
<1>d. ASSUME NEW n \in D
      PROVE  /\ n \in {1, 2, 3, 4, 5} /\ n - 1 \in 0 .. 4
             /\ n # 1 => n - 1 \in D /\ n - 1 \in 1 .. Len(parts)
  <2>1. PICK m : m = Len(parts)
    OBVIOUS
  <2>a. m \in 0 .. 4
    BY <1>1, <2>1
  <2>b. n \in 1 .. m + 1
    BY <2>1
  <2> HIDE DEF g, Walk, s2, s3, s4, s5, f, Next1, D
  <2>2. n \in {1, 2, 3, 4, 5} /\ n - 1 \in 0 .. 4 /\ (n # 1 => n - 1 \in 1 .. m + 1 /\ n - 1 \in 1 .. m)
    BY <2>a, <2>b
  <2>3. QED
    BY <2>1, <2>2 DEF D
<1>2. g = Walk(g)
  <2>1. \A n \in D : n \in {1, 2, 3, 4, 5} /\ n - 1 \in 0 .. 4 /\ (n # 1 => n - 1 \in D)
    BY <1>d
  <2>2. ASSUME NEW n \in D PROVE g[n] = Walk(g)[n]
    <3>1. n \in {1, 2, 3, 4, 5}
      BY <2>1
    <3>2. g[n] = (IF n = 1 THEN from ELSE IF n = 2 THEN s2 ELSE IF n = 3 THEN s3
                  ELSE IF n = 4 THEN s4 ELSE s5)
      OBVIOUS
    <3>3. n # 1 => g[n - 1] = (IF n - 1 = 1 THEN from ELSE IF n - 1 = 2 THEN s2 ELSE IF n - 1 = 3 THEN s3
                               ELSE IF n - 1 = 4 THEN s4 ELSE s5)
      BY <2>1
    <3>4. Walk(g)[n] = (IF n = 1 THEN from ELSE Next1(g[n - 1], n - 1))
      OBVIOUS
    <3> HIDE DEF g, Walk, Next1, s2, s3, s4, s5
    <3>5. CASE n = 1
      BY <3>2, <3>4, <3>5
    <3>6. CASE n = 2
      BY <3>2, <3>3, <3>4, <3>6 DEF s2
    <3>7. CASE n = 3
      BY <3>2, <3>3, <3>4, <3>7 DEF s3
    <3>8. CASE n = 4
      BY <3>2, <3>3, <3>4, <3>8 DEF s4
    <3>9. CASE n = 5
      BY <3>2, <3>3, <3>4, <3>9 DEF s5
    <3>10. QED
      BY <3>1, <3>5, <3>6, <3>7, <3>8, <3>9
  <2>3. DOMAIN g = D /\ DOMAIN Walk(g) = D
    OBVIOUS
  <2>4. QED
    BY <2>2
<1>3. f = CHOOSE h : h = Walk(h)
  BY DEF Starts
<1>4. f = Walk(f)
  <2> HIDE DEF f, g, Walk
  <2>1. QED
    BY <1>2, <1>3
<1> HIDE DEF f, g, s2, s3, s4, s5
<1>5. DOMAIN f = D /\ \A n \in D : f[n] = IF n = 1 THEN from ELSE Next1(f[n - 1], n - 1)
  BY <1>4
<1>6. f[1] = from
  BY <1>1, <1>5
<1>7. ASSUME NEW n \in 1 .. Len(parts) PROVE f[n + 1] = Next1(f[n], n)
  <2>1. n + 1 \in D /\ n + 1 # 1 /\ (n + 1) - 1 = n
    BY <1>1
  <2> HIDE DEF D, Next1
  <2>2. QED
    BY <1>5, <2>1
<1>8. ASSUME NEW n \in 1 .. Len(parts), f[n] \in Nat PROVE f[n + 1] \in Nat
  <2>1. parts[n].size \in Nat /\ parts[n].align \in Nat \ {0}
    BY DEF Chunks
  <2>2. Align(f[n], parts[n].align) \in Nat
    BY <1>8, <2>1, AlignFacts
  <2>3. QED
    BY <1>7, <2>1, <2>2
<1>9. ASSUME NEW n \in D PROVE f[n] \in Nat
  <2>1. f[1] \in Nat
    BY <1>6
  <2>2. 1 \in 1 .. Len(parts) => f[2] \in Nat
    BY <1>8, <2>1
  <2>3. 2 \in 1 .. Len(parts) => f[3] \in Nat
    BY <1>1, <1>8, <2>2
  <2>4. 3 \in 1 .. Len(parts) => f[4] \in Nat
    BY <1>1, <1>8, <2>3
  <2>5. 4 \in 1 .. Len(parts) => f[5] \in Nat
    BY <1>1, <1>8, <2>4
  <2>6. n \in {1, 2, 3, 4, 5} /\ (n # 1 => n - 1 \in 1 .. Len(parts))
    BY <1>d
  <2> HIDE DEF D, Next1
  <2>7. QED
    BY <2>1, <2>2, <2>3, <2>4, <2>5, <2>6
<1>10. QED
  BY <1>5, <1>6, <1>7, <1>9 DEF f

-----------------------------------------------------------------------------
(* An image keeps what nvk_image_init made of it, but for addresses.         *)
Shaped(im, i) ==
  LET new == ImageInit(i) IN
  /\ Len(im.planes) = Len(new.planes) /\ Len(im.shadow) = Len(new.shadow)
  /\ \A n \in 1 .. Len(im.planes) : im.planes[n].nil = new.planes[n].nil
  /\ im.count = new.count /\ im.disjoint = new.disjoint /\ im.sparse = new.sparse
  /\ im.resident = new.resident /\ im.usage = new.usage

(* There are up to three planes and a temporary, and none of these behind     *)
(* the planes of a disjoint image.                                          *)
LEMMA ShapeFacts ==
  ASSUME NEW i \in Infos, NEW im \in ImageType, Shaped(im, i)
  PROVE  /\ im.count \in 1 .. 3 /\ Len(im.planes) \in 1 .. 4
         /\ Len(im.planes) = im.count \/ Len(im.planes) = im.count + 1
         /\ im.disjoint => Len(im.planes) = im.count
         /\ Len(im.shadow) \in {0, 1}
         /\ DOMAIN im.planes = 1 .. Len(im.planes) /\ DOMAIN im.shadow = 1 .. Len(im.shadow)
         /\ \A n \in 1 .. Len(im.planes) : im.planes[n] \in PlaneType
<1> DEFINE new  == ImageInit(i)
           made == [n \in Planes(i.format) |-> InitPlane(Layout(i.format.planes[n], i))]
           L    == Len(i.format.planes)
<1>f. IsFormat(i.format)
  BY ImageAssumption DEF Infos
<1>1. L \in 1 .. 3 /\ (L > 1 => ~i.format.d32s8) /\ Planes(i.format) = 1 .. L
  BY <1>f DEF IsFormat, Planes
<1>2. made \in Seq({InitPlane(nil) : nil \in Layouts} \cup {made[n] : n \in 1 .. L}) /\ Len(made) = L
  <2> HIDE DEF L
  <2>1. made \in [1 .. L -> {made[n] : n \in 1 .. L}]
    BY <1>1
  <2> HIDE DEF made
  <2>2. QED
    BY <1>1, <2>1
<1>3. /\ StencilCopyTemp(i) \in Seq({InitPlane(i.format.stencil)})
      /\ i.format.d32s8 => Len(StencilCopyTemp(i)) = 1
      /\ ~i.format.d32s8 => Len(StencilCopyTemp(i)) = 0
  <2> DEFINE temp == InitPlane(i.format.stencil)
  <2>1. StencilCopyTemp(i) = IF i.format.d32s8 THEN <<temp>> ELSE <<>>
    BY DEF StencilCopyTemp
  <2> HIDE DEF temp
  <2>2. <<temp>> \in Seq({temp}) /\ Len(<<temp>>) = 1 /\ <<>> \in Seq({temp}) /\ Len(<<>>) = 0
    OBVIOUS
  <2>3. QED
    BY <2>1, <2>2 DEF temp
<1>4. new.planes = made \o StencilCopyTemp(i) /\ new.count = L
      /\ new.disjoint = (L > 1 /\ "disjoint" \in i.flags)
  BY DEF ImageInit
<1> HIDE DEF new, made, L
<1>5. Len(new.planes) = L + Len(StencilCopyTemp(i))
  <2> DEFINE A == {InitPlane(nil) : nil \in Layouts} \cup {made[n] : n \in 1 .. L}
             B == {InitPlane(i.format.stencil)}
  <2>1. made \in Seq(A) /\ StencilCopyTemp(i) \in Seq(B)
    BY <1>2, <1>3
  <2> HIDE DEF A, B
  <2>2. made \in Seq(A \cup B) /\ StencilCopyTemp(i) \in Seq(A \cup B)
    BY <2>1
  <2>3. Len(made \o StencilCopyTemp(i)) = Len(made) + Len(StencilCopyTemp(i))
    BY <2>2
  <2>4. QED
    BY <1>2, <1>4, <2>3
<1>6. im.planes \in Seq(PlaneType) /\ im.shadow \in Seq(PlaneType)
  BY DEF ImageType
<1>7. Len(im.planes) = Len(new.planes) /\ im.count = new.count /\ im.disjoint = new.disjoint
      /\ Len(im.shadow) = Len(new.shadow)
  BY DEF Shaped, new
<1>8. Len(new.shadow) \in {0, 1}
  BY InitType DEF new
<1>9. Len(im.planes) = im.count \/ Len(im.planes) = im.count + 1
  BY <1>1, <1>3, <1>4, <1>5, <1>7
<1>d. im.count = L /\ Len(im.planes) = L + Len(StencilCopyTemp(i))
  BY <1>4, <1>5, <1>7
<1>t. Len(StencilCopyTemp(i)) \in {0, 1} /\ (L > 1 => Len(StencilCopyTemp(i)) = 0)
  BY <1>1, <1>3
<1>10. im.disjoint => Len(im.planes) = im.count
  <2>1. im.disjoint => L > 1
    BY <1>4, <1>7
  <2>2. QED
    BY <1>1, <1>d, <1>t, <2>1
<1>11. im.count \in 1 .. 3 /\ Len(im.planes) \in 1 .. 4
  <2> DEFINE t == Len(StencilCopyTemp(i))
  <2>1. L \in {1, 2, 3} /\ t \in {0, 1} /\ (L > 1 => t = 0)
    BY <1>1, <1>t
  <2> HIDE DEF t
  <2>2. L \in 1 .. 3 /\ L + t \in 1 .. 4
    BY <2>1
  <2>3. QED
    BY <1>d, <2>2 DEF t
<1>12. QED
  BY <1>6, <1>7, <1>8, <1>9, <1>10, <1>11

(* The parts of an image that a binding walks: planes of it, each once.       *)
LEMMA TargetsFacts ==
  ASSUME NEW i \in Infos, NEW im \in ImageType, Shaped(im, i),
         NEW n \in 1 .. im.count, im.disjoint \/ n = 1
  PROVE  LET ns == Targets(im, n)
         IN /\ Len(ns) \in 1 .. 4 /\ DOMAIN ns = 1 .. Len(ns)
            /\ \A k \in 1 .. Len(ns) : ns[k] \in 1 .. Len(im.planes)
            /\ \A k, l \in 1 .. Len(ns) : ns[k] = ns[l] => k = l
            /\ im.disjoint => Len(ns) = 1 /\ ns[1] = n
            /\ ~im.disjoint => Len(ns) = Len(im.planes) /\ \A k \in 1 .. Len(ns) : ns[k] = k
<1> DEFINE ns == Targets(im, n)
<1>1. /\ im.count \in 1 .. 3 /\ Len(im.planes) \in 1 .. 4
      /\ im.disjoint => Len(im.planes) = im.count
  BY ShapeFacts
<1>2. im.disjoint \in BOOLEAN
  BY DEF ImageType
<1>3. CASE im.disjoint
  <2>1. Len(im.planes) - im.count = 0
    BY <1>1, <1>3
  <2>2. [k \in 1 .. 0 |-> im.count + k] = <<>>
    OBVIOUS
  <2>3. ns = <<n>> \o <<>>
    BY <1>3, <2>1, <2>2 DEF Targets
  <2>4. ns = <<n>>
    BY <2>3
  <2> HIDE DEF ns
  <2>5. Len(ns) = 1 /\ ns[1] = n /\ DOMAIN ns = 1 .. 1
    BY <2>4
  <2>6. n \in 1 .. Len(im.planes)
    BY <1>1, <1>3
  <2>7. QED
    BY <1>3, <2>5, <2>6 DEF ns
<1>4. CASE ~im.disjoint
  <2>1. ns = [k \in 1 .. Len(im.planes) |-> k]
    BY <1>4 DEF Targets, UpTo
  <2>2. PICK L : L = Len(im.planes)
    OBVIOUS
  <2>3. L \in 1 .. 4
    BY <1>1, <2>2
  <2>4. ns = [k \in 1 .. L |-> k]
    BY <2>1, <2>2
  <2> HIDE DEF ns
  <2>5. ns \in Seq(1 .. L) /\ Len(ns) = L
    <3>1. ns \in [1 .. L -> 1 .. L]
      BY <2>4
    <3>2. QED
      BY <2>3, <3>1
  <2>6. \A k \in 1 .. L : ns[k] = k
    BY <2>4
  <2>7. DOMAIN ns = 1 .. L
    BY <2>4
  <2>8. QED
    BY <1>4, <2>2, <2>3, <2>5, <2>6, <2>7 DEF ns
<1>5. QED
  BY <1>2, <1>3, <1>4

(* The planes of an image as parts, and where one of them is placed.         *)
LEMMA PartsFacts ==
  ASSUME NEW im \in ImageType, NEW ns, Len(ns) \in 0 .. 4, DOMAIN ns = 1 .. Len(ns),
         \A k \in 1 .. Len(ns) : ns[k] \in 1 .. Len(im.planes)
  PROVE  /\ Chunks(Parts(im, ns)) /\ Len(Parts(im, ns)) = Len(ns)
         /\ \A k \in 1 .. Len(ns) :
              /\ Parts(im, ns)[k].size = PlaneSize(im, im.planes[ns[k]])
              /\ Parts(im, ns)[k].align = PlaneAlign(im, im.planes[ns[k]])
<1> DEFINE parts == Parts(im, ns)
<1>1. im.planes \in Seq(PlaneType)
  BY DEF ImageType
<1>2. \A k \in 1 .. Len(ns) : im.planes[ns[k]] \in PlaneType
  BY <1>1
<1>3. parts = [k \in 1 .. Len(ns) |-> Part(im, im.planes[ns[k]])]
  BY DEF Parts
<1>4. \A k \in 1 .. Len(ns) :
        /\ parts[k] = Part(im, im.planes[ns[k]])
        /\ parts[k].size = PlaneSize(im, im.planes[ns[k]])
        /\ parts[k].align = PlaneAlign(im, im.planes[ns[k]])
  BY <1>3 DEF Part
<1>5. \A k \in 1 .. Len(ns) : parts[k].size \in Nat /\ parts[k].align \in Nat \ {0}
  BY <1>2, <1>4, PlaneFacts
<1>6. Len(parts) = Len(ns)
  <2>1. parts \in [1 .. Len(ns) -> {parts[k] : k \in 1 .. Len(ns)}] /\ Len(ns) \in Nat
    BY <1>3
  <2> HIDE DEF parts
  <2>2. QED
    BY <2>1
<1>7. QED
  BY <1>4, <1>5, <1>6 DEF Chunks

(* Where a plane is placed: at its start or behind.                          *)
LEMMA PlaceType ==
  ASSUME NEW im \in ImageType, NEW ns, Len(ns) \in 0 .. 4, DOMAIN ns = 1 .. Len(ns),
         \A k \in 1 .. Len(ns) : ns[k] \in 1 .. Len(im.planes),
         NEW from \in Nat, NEW k \in 1 .. Len(ns)
  PROVE  Place(im, ns, k, from) \in Nat /\ Place(im, ns, k, from) >= Starts(Parts(im, ns), from)[k]
<1>1. Chunks(Parts(im, ns)) /\ Len(Parts(im, ns)) = Len(ns)
  BY PartsFacts
<1>2. Starts(Parts(im, ns), from)[k] \in Nat
  <2>1. k \in 1 .. Len(Parts(im, ns)) + 1
    BY <1>1
  <2>2. QED
    BY <1>1, <2>1, StartsFacts
<1>3. PlaneAlign(im, im.planes[ns[k]]) \in Nat \ {0}
  <2>1. im.planes[ns[k]] \in PlaneType
    BY DEF ImageType
  <2>2. QED
    BY <2>1, PlaneFacts
<1>4. QED
  BY <1>2, <1>3, AlignFacts DEF Place

-----------------------------------------------------------------------------
(* What is reported as bound are planes of images, at most three of each.     *)
Some == infos \X (1 .. 3)

TypeInv ==
  /\ infos \in Scenarios /\ image \in [infos -> ImageType \cup {NoImage}]
  /\ \A i \in Live : Shaped(image[i], i)
  /\ vas = [v \in Vas |-> vas[v]]
  /\ \/ making = NoImage
     \/ /\ making \in [info : infos \ Live, im : ImageType, next : Nat \ {0}]
        /\ Shaped(making.im, making.info)
  /\ told \subseteq Some
  /\ batch \in [parts : SUBSET Some, result : {"ok", "error"}, open : BOOLEAN]
  /\ queue = [binds |-> queue.binds, lost |-> queue.lost, last |-> queue.last]
  /\ queue.binds \in 0 .. MaxBinds
  /\ query = <<>> \/ query \in Queries

(* What is reported as bound, or about to be, is there.                      *)
ToldInv == told \cup batch.parts \subseteq Live \X (1 .. 3) /\ (batch.open \/ batch.parts = {})

(* No image is not an image.                                                *)
LEMMA NoImageType ==
  /\ NoImage \notin ImageType
  /\ \A x : \A S, T, U : x \in [info : S, im : T, next : U] => x # NoImage
<1>1. "count" \notin DOMAIN NoImage /\ "info" \notin DOMAIN NoImage
  BY DEF NoImage
<1>2. \A im \in ImageType : "count" \in DOMAIN im
  BY DEF ImageType
<1>3. \A S, T, U : \A x \in [info : S, im : T, next : U] : "info" \in DOMAIN x
  OBVIOUS
<1>4. QED
  BY <1>1, <1>2, <1>3

(* An image that is there.                                                  *)
LEMMA LiveFacts ==
  ASSUME TypeInv, NEW i \in Live
  PROVE  i \in infos /\ i \in Infos /\ image[i] \in ImageType /\ Shaped(image[i], i)
BY DEF TypeInv, Live, Infos

(* A plane that gets its range or its memory leaves the image in shape.      *)
LEMMA PlanesSet ==
  ASSUME NEW i \in Infos, NEW im \in ImageType, Shaped(im, i),
         NEW P, DOMAIN P = DOMAIN im.planes, P = [x \in DOMAIN P |-> P[x]],
         \A x \in DOMAIN im.planes : P[x] \in PlaneType /\ P[x].nil = im.planes[x].nil
  PROVE  LET new == [im EXCEPT !.planes = P]
         IN /\ new \in ImageType /\ Shaped(new, i)
            /\ new.planes = P /\ new.shadow = im.shadow /\ new.asked = im.asked
<1> DEFINE new == [im EXCEPT !.planes = P]
<1>1. DOMAIN im.planes = 1 .. Len(im.planes) /\ Len(im.planes) \in Nat
  BY ShapeFacts
<1>2. P \in Seq(PlaneType) /\ Len(P) = Len(im.planes)
  <2>1. P \in [1 .. Len(im.planes) -> PlaneType]
    BY <1>1
  <2>2. QED
    BY <1>1, <2>1
<1>3. new \in ImageType
  BY <1>2 DEF ImageType
<1>4. /\ new.planes = P /\ new.shadow = im.shadow /\ new.asked = im.asked
      /\ new.count = im.count /\ new.disjoint = im.disjoint /\ new.sparse = im.sparse
      /\ new.resident = im.resident /\ new.usage = im.usage
  BY DEF ImageType
<1> HIDE DEF new
<1>5. Shaped(new, i)
  BY <1>1, <1>2, <1>4 DEF Shaped
<1>6. QED
  BY <1>3, <1>4, <1>5 DEF new

(* The same of the shadow, ...                                              *)
LEMMA ShadowSet ==
  ASSUME NEW i \in Infos, NEW im \in ImageType, Shaped(im, i),
         NEW S \in Seq(PlaneType), Len(S) = Len(im.shadow)
  PROVE  LET new == [im EXCEPT !.shadow = S]
         IN /\ new \in ImageType /\ Shaped(new, i)
            /\ new.planes = im.planes /\ new.shadow = S /\ new.asked = im.asked
<1> DEFINE new == [im EXCEPT !.shadow = S]
<1>1. new \in ImageType
  BY DEF ImageType
<1>2. /\ new.planes = im.planes /\ new.shadow = S /\ new.asked = im.asked
      /\ new.count = im.count /\ new.disjoint = im.disjoint /\ new.sparse = im.sparse
      /\ new.resident = im.resident /\ new.usage = im.usage
  BY DEF ImageType
<1> HIDE DEF new
<1>3. Shaped(new, i)
  BY <1>2 DEF Shaped
<1>4. QED
  BY <1>1, <1>2, <1>3 DEF new

(* ... and of what it was bound to.                                         *)
LEMMA AskedSet ==
  ASSUME NEW i \in Infos, NEW im \in ImageType, Shaped(im, i),
         NEW asked \in Askings
  PROVE  LET new == [im EXCEPT !.asked = asked]
         IN /\ new \in ImageType /\ Shaped(new, i)
            /\ new.planes = im.planes /\ new.shadow = im.shadow /\ new.asked = asked
<1> DEFINE new == [im EXCEPT !.asked = asked]
<1>1. new \in ImageType
  BY DEF ImageType
<1>2. /\ new.planes = im.planes /\ new.shadow = im.shadow /\ new.asked = asked
      /\ new.count = im.count /\ new.disjoint = im.disjoint /\ new.sparse = im.sparse
      /\ new.resident = im.resident /\ new.usage = im.usage
  BY DEF ImageType
<1> HIDE DEF new
<1>3. Shaped(new, i)
  BY <1>2 DEF Shaped
<1>4. QED
  BY <1>1, <1>2, <1>3 DEF new

-----------------------------------------------------------------------------
(* What the actions do.                                                    *)

Makings == [info : infos \ Live, im : ImageType, next : Nat \ {0}]

(* A range for a plane, no range that is free, or no need of one.            *)
LEMMA AllocVaEffects ==
  ASSUME TypeInv, AllocVa
  PROVE  LET im == making.im
             k  == making.next
             p  == im.planes[k]
         IN /\ making \in Makings /\ making.info \in Infos /\ Shaped(im, making.info)
            /\ k \in 1 .. Len(im.planes) /\ p \in PlaneType
            /\ UNCHANGED <<infos, image, told, batch, queue, query>>
            /\ \/ /\ HasVa(im, p)
                  /\ \E v \in FreeVas :
                       /\ vas' = [vas EXCEPT ![v] = [o \in 0 .. PlaneSize(im, p) - 1 |-> Unbound]]
                       /\ making' \in Makings /\ Shaped(making'.im, making.info)
                       /\ making'.info = making.info /\ making'.next = k + 1
                       /\ making'.im.planes = [im.planes EXCEPT ![k] = [p EXCEPT !.va = v, !.addr = <<"va", v>>]]
                       /\ making'.im.shadow = im.shadow /\ making'.im.asked = im.asked
               \/ HasVa(im, p) /\ making' = NoImage /\ vas' = Finish(im)
               \/ /\ ~HasVa(im, p) /\ making' \in Makings /\ making'.im = im /\ making'.info = making.info
                  /\ making'.next = k + 1 /\ vas' = vas
<1> DEFINE im == making.im
           k  == making.next
           p  == im.planes[k]
<1>1. /\ making # NoImage /\ making \in Makings /\ Shaped(im, making.info)
      /\ infos \in Scenarios
  BY DEF AllocVa, TypeInv, Makings
<1>2. making.info \in Infos /\ im \in ImageType /\ k \in Nat \ {0}
  BY <1>1 DEF Makings, Infos
<1>3. im.planes \in Seq(PlaneType) /\ Len(im.planes) \in Nat /\ DOMAIN im.planes = 1 .. Len(im.planes)
  BY <1>2 DEF ImageType
<1>4. k <= Len(im.planes)
  BY DEF AllocVa
<1>5. k \in 1 .. Len(im.planes) /\ p \in PlaneType
  BY <1>2, <1>3, <1>4
<1>6. CASE HasVa(im, p) /\ CreateFails
  BY <1>1, <1>2, <1>5, <1>6 DEF CreateFails
<1>7. ASSUME NEW v \in FreeVas, HasVa(im, p),
             vas' = [vas EXCEPT ![v] = [o \in 0 .. PlaneSize(im, p) - 1 |-> Unbound]],
             making' = [making EXCEPT !.im.planes[making.next] = [p EXCEPT !.va = v, !.addr = <<"va", v>>],
                                      !.next = @ + 1],
             UNCHANGED <<infos, image, told, batch, queue, query>>
      PROVE  /\ making' \in Makings /\ Shaped(making'.im, making.info)
             /\ making'.info = making.info /\ making'.next = k + 1
             /\ making'.im.planes = [im.planes EXCEPT ![k] = [p EXCEPT !.va = v, !.addr = <<"va", v>>]]
             /\ making'.im.shadow = im.shadow /\ making'.im.asked = im.asked
  <2> DEFINE q   == [p EXCEPT !.va = v, !.addr = <<"va", v>>]
             P   == [im.planes EXCEPT ![k] = q]
             new == [im EXCEPT !.planes = P]
  <2>1. v \in Vas
    BY DEF FreeVas
  <2>2. q \in PlaneType /\ q.nil = p.nil
    BY <1>5, <2>1 DEF PlaneType
  <2>3. making'.im = [im EXCEPT !.planes = P] /\ making'.info = making.info /\ making'.next = k + 1
        /\ making' = [info |-> making.info, im |-> making'.im, next |-> k + 1]
    <3>1. making' = [making EXCEPT !.im = new, !.next = k + 1]
      BY <1>1, <1>2, <1>7 DEF Makings, ImageType
    <3> HIDE DEF new, k
    <3>2. QED
      BY <1>1, <3>1 DEF Makings, new
  <2> HIDE DEF q
  <2>4. /\ DOMAIN P = DOMAIN im.planes /\ P = [x \in DOMAIN P |-> P[x]]
        /\ \A x \in DOMAIN im.planes : P[x] \in PlaneType /\ P[x].nil = im.planes[x].nil
    BY <1>3, <1>5, <2>2
  <2> HIDE DEF P
  <2>5. new \in ImageType /\ Shaped(new, making.info)
        /\ new.planes = P /\ new.shadow = im.shadow /\ new.asked = im.asked
    <3> HIDE DEF im
    <3>1. Shaped(im, making.info)
      BY <1>1 DEF im
    <3>2. QED
      BY <1>2, <2>4, <3>1, PlanesSet
  <2> HIDE DEF new
  <2>6. making'.im = new
    BY <2>3 DEF new
  <2>7. making' \in Makings
    <3>1. making.info \in infos \ Live /\ k + 1 \in Nat \ {0}
      BY <1>1, <1>2 DEF Makings
    <3>2. QED
      BY <2>3, <2>5, <2>6, <3>1 DEF Makings
  <2>8. QED
    BY <2>3, <2>5, <2>6, <2>7 DEF P, q
<1>8. CASE /\ ~HasVa(im, p) /\ making' = [making EXCEPT !.next = @ + 1]
           /\ UNCHANGED <<infos, image, vas, told, batch, queue, query>>
  <2>1. making' \in Makings /\ making'.im = im /\ making'.info = making.info /\ making'.next = k + 1
    BY <1>1, <1>8 DEF Makings
  <2>2. QED
    BY <1>1, <1>2, <1>5, <1>8, <2>1
<1>9. QED
  BY <1>1, <1>2, <1>5, <1>6, <1>7, <1>8 DEF AllocVa

(* An image that is ready, with its shadow when it takes one, or is given up. *)
LEMMA AllocShadowEffects ==
  ASSUME TypeInv, AllocShadow
  PROVE  LET im == making.im
             i  == making.info
         IN /\ making \in Makings /\ i \in infos \ Live /\ i \in Infos /\ Shaped(im, i)
            /\ making.next = Len(im.planes) + 1 /\ making' = NoImage
            /\ UNCHANGED <<infos, told, batch, queue, query>>
            /\ \/ \E v \in FreeVas, n \in Nat, new \in ImageType :
                    /\ Shaped(new, i) /\ new.planes = im.planes /\ new.asked = im.asked
                    /\ DOMAIN new.shadow = {1} /\ new.shadow[1].va = v /\ DOMAIN im.shadow = {1}
                    /\ vas' = [vas EXCEPT ![v] = [o \in 0 .. n - 1 |-> <<"own", o>>]]
                    /\ image' = [image EXCEPT ![i] = new]
               \/ vas' = Finish(im) /\ image' = image
               \/ /\ vas' = vas /\ image' = [image EXCEPT ![i] = im] /\ im.shadow = <<>>
<1> DEFINE im == making.im
           i  == making.info
<1>1. /\ making # NoImage /\ making \in Makings /\ Shaped(im, i) /\ infos \in Scenarios
      /\ making.next = Len(im.planes) + 1
  BY DEF AllocShadow, TypeInv, Makings
<1>2. i \in infos \ Live /\ i \in Infos /\ im \in ImageType
  BY <1>1 DEF Makings, Infos
<1>3. CASE CreateFails
  BY <1>1, <1>2, <1>3 DEF CreateFails
<1>4. ASSUME NEW v \in FreeVas, im.shadow # <<>>,
             vas' = [vas EXCEPT ![v] = [o \in 0 .. im.shadow[1].nil.size - 1 |-> <<"own", o>>]],
             image' = [image EXCEPT ![i] = [im EXCEPT !.shadow[1].va = v, !.shadow[1].addr = <<"va", v>>]]
      PROVE  \E w \in FreeVas, n \in Nat, new \in ImageType :
                    /\ Shaped(new, i) /\ new.planes = im.planes /\ new.asked = im.asked
                    /\ DOMAIN new.shadow = {1} /\ new.shadow[1].va = w /\ DOMAIN im.shadow = {1}
                    /\ vas' = [vas EXCEPT ![w] = [o \in 0 .. n - 1 |-> <<"own", o>>]]
                    /\ image' = [image EXCEPT ![i] = new]
  <2> DEFINE new == [im EXCEPT !.shadow[1].va = v, !.shadow[1].addr = <<"va", v>>]
             n   == im.shadow[1].nil.size
  <2>1. v \in Vas
    BY DEF FreeVas
  <2> HIDE DEF i, im
  <2>a. i \in Infos /\ im \in ImageType /\ Shaped(im, i) /\ im.shadow # <<>>
    BY <1>1, <1>2, <1>4
  <2>b. im.shadow \in Seq(PlaneType) /\ Len(im.shadow) \in {0, 1}
    BY <2>a, ShapeFacts DEF ImageType
  <2>c. Len(im.shadow) = 1 /\ DOMAIN im.shadow = {1} /\ im.shadow[1] \in PlaneType
    BY <2>a, <2>b, EmptySeq
  <2> DEFINE q == [im.shadow[1] EXCEPT !.va = v, !.addr = <<"va", v>>]
             S == [im.shadow EXCEPT ![1] = q]
  <2>d. q \in PlaneType /\ q.va = v
    BY <2>1, <2>c DEF PlaneType
  <2>e. new = [im EXCEPT !.shadow = S]
    BY <2>a, <2>c DEF ImageType
  <2> HIDE DEF q, new
  <2>f. S \in Seq(PlaneType) /\ Len(S) = Len(im.shadow) /\ DOMAIN S = {1} /\ S[1].va = v
    BY <2>b, <2>c, <2>d
  <2> HIDE DEF S
  <2>2. /\ new \in ImageType /\ Shaped(new, i) /\ new.planes = im.planes /\ new.asked = im.asked
        /\ DOMAIN new.shadow = {1} /\ new.shadow[1].va = v /\ DOMAIN im.shadow = {1}
    BY <2>a, <2>c, <2>e, <2>f, ShadowSet
  <2>3. n \in Nat
    BY <2>c, LayoutFacts DEF PlaneType
  <2>4. /\ vas' = [vas EXCEPT ![v] = [o \in 0 .. n - 1 |-> <<"own", o>>]]
        /\ image' = [image EXCEPT ![i] = new]
    BY <1>4 DEF new
  <2> HIDE DEF n, new
  <2>5. QED
    BY <2>2, <2>3, <2>4
<1>6. QED
  BY <1>1, <1>2, <1>3, <1>4 DEF AllocShadow, CreateFails

(* A plane that is bound keeps its layout and its range.                     *)
LEMMA BoundPlaneType ==
  ASSUME NEW im, NEW p \in PlaneType, NEW m \in Mems, NEW at \in Nat
  PROVE  /\ BoundPlane(im, p, m, at) \in PlaneType
         /\ BoundPlane(im, p, m, at).nil = p.nil /\ BoundPlane(im, p, m, at).va = p.va
BY DEF BoundPlane, PlaneType

(* One nvk_bind_image_memory: the planes before the one that fails are bound, *)
(* each at its place, and their ranges mapped to it.                         *)
Bound(i, m, n, offset, bound, new) ==
  LET im == image[i]
      ns == Targets(im, n)
  IN /\ batch.open /\ ~im.sparse /\ i \notin DOMAIN Alias
     /\ n \in 1 .. im.count /\ (im.disjoint \/ n = 1) /\ n \notin DOMAIN im.asked
     /\ offset % Requirements(im, n).align = 0 /\ bound \in 0 .. Len(ns)
     /\ Shaped(new, i) /\ new.shadow = im.shadow /\ image' = [image EXCEPT ![i] = new]
     /\ new.asked = [x \in DOMAIN im.asked \cup {n} |-> IF x = n THEN <<m, offset>> ELSE im.asked[x]]
     /\ \A x \in 1 .. Len(im.planes) :
          /\ new.planes[x].va = im.planes[x].va
          /\ (\A k \in 1 .. bound : ns[k] # x) => new.planes[x] = im.planes[x]
     /\ \A k \in 1 .. bound :
          new.planes[ns[k]] = BoundPlane(im, im.planes[ns[k]], m, Place(im, ns, k, offset))
     /\ \A v \in Vas :
          \/ vas'[v] = vas[v] /\ \A k \in 1 .. bound : im.planes[ns[k]].va # v
          \/ \E k \in 1 .. bound :
               /\ im.planes[ns[k]].va = v
               /\ vas'[v] = [o \in DOMAIN vas[v] |-> <<m, Place(im, ns, k, offset) + o>>]
     /\ batch' = [batch EXCEPT !.parts = @ \cup {<<i, n>>},
                               !.result = FirstError(IF bound = Len(ns) THEN "ok" ELSE "error")]
     /\ vas' = [v \in Vas |-> vas'[v]] /\ UNCHANGED <<infos, making, told, queue, query>>

(* The action is one such binding.                                          *)
LEMMA BindEffects ==
  ASSUME TypeInv, BindImageMemory
  PROVE  \E i \in Live, m \in Mems, n \in 1 .. 3, offset \in Nat, bound \in 0 .. 4, new \in ImageType :
           Bound(i, m, n, offset, bound, new)
<1>1. PICK i \in Live, m \in Mems : \E n \in Unasked(image[i]), offset \in 0 .. MemSize - 1 :
        LET im   == image[i]
            ns   == Targets(im, n)
            req  == Requirements(im, n)
            at   == [k \in DOMAIN ns |-> Place(im, ns, k, offset)]
        IN /\ batch.open /\ ~im.sparse /\ i \notin DOMAIN Alias
           /\ offset % req.align = 0 /\ offset + req.size <= MemSize
           /\ \E bound \in 0 .. Len(ns) :
                /\ bound < Len(ns) => HasVa(im, im.planes[ns[bound + 1]])
                /\ image' = [image EXCEPT
                     ![i].planes = [x \in DOMAIN @ |->
                        IF \E k \in 1 .. bound : ns[k] = x
                        THEN BoundPlane(im, @[x], m, at[CHOOSE k \in 1 .. bound : ns[k] = x]) ELSE @[x]],
                     ![i].asked = [x \in DOMAIN @ \cup {n} |-> IF x = n THEN <<m, offset>> ELSE @[x]]]
                /\ vas' = [v \in Vas |->
                     IF \E k \in 1 .. bound : im.planes[ns[k]].va = v
                     THEN LET k == CHOOSE k \in 1 .. bound : im.planes[ns[k]].va = v
                          IN [o \in DOMAIN vas[v] |-> <<m, at[k] + o>>]
                     ELSE vas[v]]
                /\ batch' = [batch EXCEPT !.parts = @ \cup {<<i, n>>},
                                          !.result = FirstError(IF bound = Len(ns) THEN "ok" ELSE "error")]
           /\ UNCHANGED <<infos, making, told, queue, query>>
  BY DEF BindImageMemory
<1> DEFINE im == image[i]
<1>2. PICK n \in Unasked(im), offset \in 0 .. MemSize - 1 :
        LET ns   == Targets(im, n)
            req  == Requirements(im, n)
            at   == [k \in DOMAIN ns |-> Place(im, ns, k, offset)]
        IN /\ batch.open /\ ~im.sparse /\ i \notin DOMAIN Alias
           /\ offset % req.align = 0 /\ offset + req.size <= MemSize
           /\ \E bound \in 0 .. Len(ns) :
                /\ bound < Len(ns) => HasVa(im, im.planes[ns[bound + 1]])
                /\ image' = [image EXCEPT
                     ![i].planes = [x \in DOMAIN @ |->
                        IF \E k \in 1 .. bound : ns[k] = x
                        THEN BoundPlane(im, @[x], m, at[CHOOSE k \in 1 .. bound : ns[k] = x]) ELSE @[x]],
                     ![i].asked = [x \in DOMAIN @ \cup {n} |-> IF x = n THEN <<m, offset>> ELSE @[x]]]
                /\ vas' = [v \in Vas |->
                     IF \E k \in 1 .. bound : im.planes[ns[k]].va = v
                     THEN LET k == CHOOSE k \in 1 .. bound : im.planes[ns[k]].va = v
                          IN [o \in DOMAIN vas[v] |-> <<m, at[k] + o>>]
                     ELSE vas[v]]
                /\ batch' = [batch EXCEPT !.parts = @ \cup {<<i, n>>},
                                          !.result = FirstError(IF bound = Len(ns) THEN "ok" ELSE "error")]
           /\ UNCHANGED <<infos, making, told, queue, query>>
  BY <1>1
<1> DEFINE ns == Targets(im, n)
           at == [k \in DOMAIN ns |-> Place(im, ns, k, offset)]
<1>3. PICK bound \in 0 .. Len(ns) :
        /\ image' = [image EXCEPT
             ![i].planes = [x \in DOMAIN @ |->
                IF \E k \in 1 .. bound : ns[k] = x
                THEN BoundPlane(im, @[x], m, at[CHOOSE k \in 1 .. bound : ns[k] = x]) ELSE @[x]],
             ![i].asked = [x \in DOMAIN @ \cup {n} |-> IF x = n THEN <<m, offset>> ELSE @[x]]]
        /\ vas' = [v \in Vas |->
             IF \E k \in 1 .. bound : im.planes[ns[k]].va = v
             THEN LET k == CHOOSE k \in 1 .. bound : im.planes[ns[k]].va = v
                  IN [o \in DOMAIN vas[v] |-> <<m, at[k] + o>>]
             ELSE vas[v]]
        /\ batch' = [batch EXCEPT !.parts = @ \cup {<<i, n>>},
                                  !.result = FirstError(IF bound = Len(ns) THEN "ok" ELSE "error")]
  BY <1>2
<1>4. /\ batch.open /\ ~im.sparse /\ i \notin DOMAIN Alias
      /\ offset % Requirements(im, n).align = 0 /\ UNCHANGED <<infos, making, told, queue, query>>
  BY <1>2
<1>5. i \in infos /\ i \in Infos /\ im \in ImageType /\ Shaped(im, i) /\ offset \in Nat
  BY LiveFacts, ImageAssumption
<1>6. im.count \in 1 .. 3 /\ DOMAIN im.planes = 1 .. Len(im.planes)
      /\ \A x \in 1 .. Len(im.planes) : im.planes[x] \in PlaneType
  BY <1>5, ShapeFacts
<1>7. n \in 1 .. im.count /\ (im.disjoint \/ n = 1) /\ n \notin DOMAIN im.asked /\ n \in 1 .. 3
  BY <1>6 DEF Unasked
<1>8. /\ Len(ns) \in 1 .. 4 /\ DOMAIN ns = 1 .. Len(ns)
      /\ \A k \in 1 .. Len(ns) : ns[k] \in 1 .. Len(im.planes)
      /\ \A k, l \in 1 .. Len(ns) : ns[k] = ns[l] => k = l
  <2> HIDE DEF im
  <2>1. QED
    BY <1>5, <1>7, TargetsFacts
<1>9. bound \in 0 .. 4 /\ Len(ns) \in 0 .. 4 /\ \A k \in 1 .. bound : k \in 1 .. Len(ns)
  <2> HIDE DEF ns, im
  <2>1. Len(ns) \in 1 .. 4
    BY <1>8, Zenon
  <2>2. PICK L : L = Len(ns)
    OBVIOUS
  <2>3. L \in 1 .. 4 /\ bound \in 0 .. L
    BY <2>1, <2>2
  <2> HIDE DEF at
  <2>4. L \in 0 .. 4 /\ bound \in 0 .. 4 /\ \A k \in 1 .. bound : k \in 1 .. L
    BY <2>3
  <2>5. QED
    BY <2>2, <2>4
<1>10. \A k \in 1 .. bound : at[k] = Place(im, ns, k, offset) /\ Place(im, ns, k, offset) \in Nat
  <2> HIDE DEF ns, im
  <2>1. ASSUME NEW k \in 1 .. bound PROVE Place(im, ns, k, offset) \in Nat
    <3>1. k \in 1 .. Len(ns) /\ Len(ns) \in 0 .. 4
      BY <1>9
    <3>2. QED
      BY <1>5, <1>8, <3>1, PlaceType
  <2>2. QED
    BY <1>8, <1>9, <2>1
<1> DEFINE P == [x \in DOMAIN im.planes |->
                   IF \E k \in 1 .. bound : ns[k] = x
                   THEN BoundPlane(im, im.planes[x], m, at[CHOOSE k \in 1 .. bound : ns[k] = x])
                   ELSE im.planes[x]]
           A == [x \in DOMAIN im.asked \cup {n} |-> IF x = n THEN <<m, offset>> ELSE im.asked[x]]
           mid == [im EXCEPT !.planes = P]
           new == [mid EXCEPT !.asked = A]
<1>11. image' = [image EXCEPT ![i] = new]
  <2>1. image' = [image EXCEPT ![i].planes = P, ![i].asked = A]
    BY <1>3
  <2> HIDE DEF P, A, ns, at
  <2>2. [image EXCEPT ![i].planes = P, ![i].asked = A] = [image EXCEPT ![i] = new]
    BY <1>5 DEF TypeInv, ImageType
  <2>3. QED
    BY <2>1, <2>2
<1> HIDE DEF ns, im, at
<1>12. ASSUME NEW k \in 1 .. bound
       PROVE  (CHOOSE l \in 1 .. bound : ns[l] = ns[k]) = k
  BY <1>8, <1>9
<1>13. \A k \in 1 .. bound : P[ns[k]] = BoundPlane(im, im.planes[ns[k]], m, at[k])
  BY <1>6, <1>8, <1>9, <1>12
<1>14. \A x \in 1 .. Len(im.planes) : (\A k \in 1 .. bound : ns[k] # x) => P[x] = im.planes[x]
  BY <1>6
<1>15. \A x \in 1 .. Len(im.planes) : P[x] \in PlaneType /\ P[x].nil = im.planes[x].nil
                                      /\ P[x].va = im.planes[x].va
  <2> HIDE DEF P
  <2>1. TAKE x \in 1 .. Len(im.planes)
  <2>2. CASE \A k \in 1 .. bound : ns[k] # x
    BY <1>6, <1>14, <2>2
  <2>3. ASSUME NEW k \in 1 .. bound, ns[k] = x
        PROVE  P[x] \in PlaneType /\ P[x].nil = im.planes[x].nil /\ P[x].va = im.planes[x].va
    <3>1. P[x] = BoundPlane(im, im.planes[x], m, at[k])
      BY <1>13, <2>3
    <3>2. at[k] \in Nat /\ im.planes[x] \in PlaneType
      BY <1>6, <1>10
    <3>3. QED
      BY <3>1, <3>2, BoundPlaneType
  <2>4. QED
    BY <2>2, <2>3
<1>16. DOMAIN P = DOMAIN im.planes /\ P = [x \in DOMAIN P |-> P[x]]
  OBVIOUS
<1> HIDE DEF P
<1>17. mid \in ImageType /\ Shaped(mid, i)
       /\ mid.planes = P /\ mid.shadow = im.shadow /\ mid.asked = im.asked
  BY <1>5, <1>6, <1>15, <1>16, PlanesSet
<1> HIDE DEF mid
<1>18. <<m, offset>> \in Asks
  BY <1>5 DEF Asks
<1>19. A \in Askings
  <2>1. PICK E \in SUBSET (1 .. 3) : im.asked \in [E -> Asks]
    BY <1>5 DEF ImageType, Askings
  <2>2. A \in [E \cup {n} -> Asks] /\ E \cup {n} \in SUBSET (1 .. 3)
    BY <1>7, <1>18, <2>1
  <2> HIDE DEF A
  <2>3. QED
    BY <2>2 DEF Askings
<1>20. new \in ImageType /\ Shaped(new, i)
       /\ new.planes = P /\ new.shadow = im.shadow /\ new.asked = A
  <2> HIDE DEF A
  <2>1. i \in Infos /\ mid \in ImageType /\ Shaped(mid, i)
    BY <1>5, <1>17
  <2>2. LET x == [mid EXCEPT !.asked = A]
        IN /\ x \in ImageType /\ Shaped(x, i)
           /\ x.planes = mid.planes /\ x.shadow = mid.shadow /\ x.asked = A
    BY <1>19, <2>1, AskedSet
  <2>3. QED
    BY <1>17, <2>2
<1>21. ASSUME NEW v \in Vas
       PROVE  \/ vas'[v] = vas[v] /\ \A k \in 1 .. bound : im.planes[ns[k]].va # v
              \/ \E k \in 1 .. bound :
                   /\ im.planes[ns[k]].va = v
                   /\ vas'[v] = [o \in DOMAIN vas[v] |-> <<m, Place(im, ns, k, offset) + o>>]
  <2>1. CASE \A k \in 1 .. bound : im.planes[ns[k]].va # v
    BY <1>3, <2>1 DEF im, ns, at
  <2>2. ASSUME NEW l \in 1 .. bound, im.planes[ns[l]].va = v
        PROVE  \E k \in 1 .. bound :
                 /\ im.planes[ns[k]].va = v
                 /\ vas'[v] = [o \in DOMAIN vas[v] |-> <<m, Place(im, ns, k, offset) + o>>]
    <3> DEFINE k == CHOOSE k \in 1 .. bound : im.planes[ns[k]].va = v
    <3>1. k \in 1 .. bound /\ im.planes[ns[k]].va = v
      BY <2>2
    <3>2. vas'[v] = [o \in DOMAIN vas[v] |-> <<m, at[k] + o>>]
      BY <1>3, <2>2
    <3> HIDE DEF k
    <3>3. QED
      BY <1>10, <3>1, <3>2
  <2>3. QED
    BY <2>1, <2>2
<1>22. vas' = [v \in Vas |-> vas'[v]]
  BY <1>3
<1> HIDE DEF A, new
<1>23. Bound(i, m, n, offset, bound, new)
  <2>1. \A x \in 1 .. Len(im.planes) :
          /\ new.planes[x].va = im.planes[x].va
          /\ (\A k \in 1 .. bound : ns[k] # x) => new.planes[x] = im.planes[x]
    BY <1>14, <1>15, <1>20
  <2>2. \A k \in 1 .. bound :
          new.planes[ns[k]] = BoundPlane(im, im.planes[ns[k]], m, Place(im, ns, k, offset))
    BY <1>10, <1>13, <1>20
  <2>3. new.asked = [x \in DOMAIN im.asked \cup {n} |-> IF x = n THEN <<m, offset>> ELSE im.asked[x]]
    BY <1>20 DEF A
  <2>4. QED
    BY <1>3, <1>4, <1>7, <1>11, <1>20, <1>21, <1>22, <2>1, <2>2, <2>3 DEF Bound, im, ns
<1>24. QED
  BY <1>5, <1>7, <1>9, <1>20, <1>23

(* An image bound to one of a swapchain: its first plane has the address of   *)
(* the other's.                                                             *)
LEMMA SwapchainEffects ==
  ASSUME TypeInv, ToldInv, BindSwapchainImage
  PROVE  \E i \in Live, new \in ImageType :
           /\ i \in DOMAIN Alias /\ batch.open /\ <<Alias[i], 1>> \in told /\ Unasked(image[i]) # {}
           /\ Shaped(new, i) /\ new.shadow = image[i].shadow
           /\ new.asked = [n \in {1} |-> <<"swapchain", 0>>]
           /\ \A x \in 1 .. Len(image[i].planes) :
                /\ new.planes[x].va = image[i].planes[x].va
                /\ x # 1 => new.planes[x] = image[i].planes[x]
           /\ new.planes[1].addr = SwapchainAddress(i)
           /\ image' = [image EXCEPT ![i] = new]
           /\ batch' = [batch EXCEPT !.parts = @ \cup {<<i, 1>>}, !.result = FirstError("ok")]
           /\ UNCHANGED <<infos, vas, making, told, queue, query>>
<1>1. PICK i \in Live \cap DOMAIN Alias :
        /\ batch.open /\ Unasked(image[i]) # {} /\ <<Alias[i], 1>> \in told
        /\ image' = [image EXCEPT ![i].planes[1].addr = SwapchainAddress(i),
                                  ![i].asked = [n \in {1} |-> <<"swapchain", 0>>]]
        /\ batch' = [batch EXCEPT !.parts = @ \cup {<<i, 1>>}, !.result = FirstError("ok")]
        /\ UNCHANGED <<infos, vas, making, told, queue, query>>
  BY DEF BindSwapchainImage
<1> DEFINE im == image[i]
           at == SwapchainAddress(i)
           P  == [im.planes EXCEPT ![1] = [im.planes[1] EXCEPT !.addr = at]]
           A  == [n \in {1} |-> <<"swapchain", 0>>]
           mid == [im EXCEPT !.planes = P]
           new == [mid EXCEPT !.asked = A]
<1>2. i \in infos /\ i \in Infos /\ im \in ImageType /\ Shaped(im, i)
  BY LiveFacts
<1>3. DOMAIN im.planes = 1 .. Len(im.planes) /\ Len(im.planes) \in 1 .. 4
      /\ \A x \in 1 .. Len(im.planes) : im.planes[x] \in PlaneType
  BY <1>2, ShapeFacts
<1>4. \E p \in PlaneType : at = p.addr
  <2>1. Alias[i] \in Live
    BY <1>1 DEF ToldInv
  <2>2. Alias[i] \in Infos /\ image[Alias[i]] \in ImageType /\ Shaped(image[Alias[i]], Alias[i])
    BY <2>1, LiveFacts
  <2>3. image[Alias[i]].planes[1] \in PlaneType
    <3>1. /\ Len(image[Alias[i]].planes) \in 1 .. 4
          /\ \A n \in 1 .. Len(image[Alias[i]].planes) : image[Alias[i]].planes[n] \in PlaneType
      BY <2>2, ShapeFacts
    <3>2. QED
      BY <3>1
  <2>4. QED
    BY <2>3 DEF SwapchainAddress
<1>5. image' = [image EXCEPT ![i] = new]
  <2>1. image' = [image EXCEPT ![i].planes[1].addr = at, ![i].asked = A]
    BY <1>1
  <2> HIDE DEF A, at
  <2>2. [image EXCEPT ![i].planes[1].addr = at, ![i].asked = A] = [image EXCEPT ![i] = new]
    BY <1>2, <1>3 DEF TypeInv, ImageType
  <2>3. QED
    BY <2>1, <2>2
<1> HIDE DEF im, at
<1>6. /\ DOMAIN P = DOMAIN im.planes /\ P = [x \in DOMAIN P |-> P[x]]
      /\ \A x \in DOMAIN im.planes : P[x] \in PlaneType /\ P[x].nil = im.planes[x].nil
                                     /\ P[x].va = im.planes[x].va
      /\ P[1].addr = at /\ \A x \in DOMAIN im.planes : x # 1 => P[x] = im.planes[x]
  <2>a. PICK L : L = Len(im.planes)
    OBVIOUS
  <2>b. L \in 1 .. 4 /\ DOMAIN im.planes = 1 .. L
    BY <1>3, <2>a
  <2>c. 1 \in 1 .. L
    BY <2>b
  <2>1. 1 \in DOMAIN im.planes /\ im.planes[1] \in PlaneType
    BY <1>3, <2>b, <2>c
  <2> DEFINE q == [im.planes[1] EXCEPT !.addr = at]
  <2>2. q \in PlaneType /\ q.nil = im.planes[1].nil /\ q.va = im.planes[1].va /\ q.addr = at
    BY <1>4, <2>1 DEF PlaneType
  <2> HIDE DEF q
  <2>3. DOMAIN P = DOMAIN im.planes /\ P = [x \in DOMAIN P |-> P[x]]
        /\ P[1] = q /\ \A x \in DOMAIN im.planes : x # 1 => P[x] = im.planes[x]
    BY <2>1 DEF q
  <2> HIDE DEF P
  <2>4. QED
    BY <1>3, <2>2, <2>3
<1> HIDE DEF P
<1>7. mid \in ImageType /\ Shaped(mid, i)
      /\ mid.planes = P /\ mid.shadow = im.shadow /\ mid.asked = im.asked
  <2>1. /\ \A x \in DOMAIN im.planes : P[x] \in PlaneType /\ P[x].nil = im.planes[x].nil
        /\ DOMAIN P = DOMAIN im.planes /\ P = [x \in DOMAIN P |-> P[x]]
    BY <1>6
  <2>2. QED
    BY <1>2, <2>1, PlanesSet
<1> HIDE DEF mid
<1>8. A \in Askings
  <2>1. A \in [{1} -> Asks] /\ {1} \in SUBSET (1 .. 3)
    BY DEF Asks
  <2> HIDE DEF A
  <2>2. QED
    BY <2>1 DEF Askings
<1>9. new \in ImageType /\ Shaped(new, i)
      /\ new.planes = P /\ new.shadow = im.shadow /\ new.asked = A
  <2> HIDE DEF A
  <2>1. LET x == [mid EXCEPT !.asked = A]
        IN /\ x \in ImageType /\ Shaped(x, i)
           /\ x.planes = mid.planes /\ x.shadow = mid.shadow /\ x.asked = A
    BY <1>2, <1>7, <1>8, AskedSet
  <2>2. QED
    BY <1>7, <2>1
<1> HIDE DEF new
<1>10. QED
  BY <1>1, <1>3, <1>5, <1>6, <1>9 DEF im, at

-----------------------------------------------------------------------------
(* Types are kept. *)

(* An image takes its place, ...                                            *)
LEMMA ImagePut ==
  ASSUME TypeInv, NEW i \in infos, NEW new \in ImageType, Shaped(new, i),
         image' = [image EXCEPT ![i] = new], infos' = infos
  PROVE  /\ image' \in [infos -> ImageType \cup {NoImage}]
         /\ Live' = Live \cup {i} /\ image'[i] = new
         /\ \A j \in infos : j # i => image'[j] = image[j]
         /\ \A j \in Live' : Shaped(image'[j], j)
<1>1. image \in [infos -> ImageType \cup {NoImage}]
  BY DEF TypeInv
<1>2. new # NoImage
  BY NoImageType
<1>3. image'[i] = new /\ \A j \in infos : j # i => image'[j] = image[j]
  BY <1>1
<1>4. image' \in [infos -> ImageType \cup {NoImage}]
  BY <1>1
<1>5. Live' = Live \cup {i}
  BY <1>2, <1>3 DEF Live
<1>6. \A j \in Live' : Shaped(image'[j], j)
  BY <1>3, <1>5 DEF TypeInv, Live
<1>7. QED
  BY <1>3, <1>4, <1>5, <1>6

(* ... or is destroyed.                                                     *)
LEMMA ImageGone ==
  ASSUME TypeInv, NEW i \in Live, image' = [image EXCEPT ![i] = NoImage], infos' = infos
  PROVE  /\ image' \in [infos -> ImageType \cup {NoImage}]
         /\ Live' = Live \ {i}
         /\ \A j \in infos : j # i => image'[j] = image[j]
         /\ \A j \in Live' : Shaped(image'[j], j)
<1>1. image \in [infos -> ImageType \cup {NoImage}] /\ i \in infos
  BY DEF TypeInv, Live
<1>3. image'[i] = NoImage /\ \A j \in infos : j # i => image'[j] = image[j]
  BY <1>1
<1>4. image' \in [infos -> ImageType \cup {NoImage}]
  BY <1>1
<1>5. Live' = Live \ {i}
  BY <1>3 DEF Live
<1>6. \A j \in Live' : Shaped(image'[j], j)
  BY <1>3, <1>5 DEF TypeInv, Live
<1>7. QED
  BY <1>3, <1>4, <1>5, <1>6

(* What the creation, the destruction and the binding of an image keep.      *)
LEMMA TypeStep ==
  ASSUME TypeInv, ToldInv, [Next]_vars
  PROVE  TypeInv' /\ ToldInv'
<1> DEFINE BatchType == [parts : SUBSET Some, result : {"ok", "error"}, open : BOOLEAN]
           MakingOK == making = NoImage \/ (making \in Makings /\ Shaped(making.im, making.info))
<1>0. /\ batch \in BatchType /\ told \subseteq Some /\ told \cup batch.parts \subseteq Live \X (1 .. 3)
      /\ infos \in Scenarios /\ MakingOK
  BY DEF TypeInv, ToldInv, Makings
<1>1. CASE UNCHANGED vars
  BY <1>1 DEF TypeInv, ToldInv, vars, Live, Some
<1>2. CASE GetPhysicalDeviceImageFormatProperties2
  <2>1. UNCHANGED <<infos, image, vas, making, told, batch, queue>>
        /\ (query' = <<>> \/ query' \in Queries)
    BY <1>2 DEF GetPhysicalDeviceImageFormatProperties2
  <2>2. QED
    BY <2>1 DEF TypeInv, ToldInv, Live, Some
<1>3. CASE CreateBegin
  <2>1. PICK i \in infos \ Live : making' = [info |-> i, im |-> ImageInit(i), next |-> 1]
    BY <1>3 DEF CreateBegin
  <2>2. UNCHANGED <<infos, image, vas, told, batch, queue, query>>
    BY <1>3 DEF CreateBegin
  <2>3. i \in Infos
    BY <1>0 DEF Infos
  <2>4. ImageInit(i) \in ImageType
    BY <2>3, InitType
  <2>5. Shaped(ImageInit(i), i)
    BY DEF Shaped
  <2>6. Live' = Live
    BY <2>2 DEF Live
  <2>7. making' \in [info : infos' \ Live', im : ImageType, next : Nat \ {0}]
        /\ Shaped(making'.im, making'.info)
    BY <2>1, <2>2, <2>4, <2>5, <2>6
  <2>8. QED
    BY <2>2, <2>6, <2>7 DEF TypeInv, ToldInv, Some
<1>4. CASE AllocVa
  <2>1. UNCHANGED <<infos, image, told, batch, queue, query>>
        /\ making \in Makings /\ Shaped(making.im, making.info)
    BY <1>4, AllocVaEffects
  <2>2. /\ vas' = [v \in Vas |-> vas'[v]]
        /\ making' = NoImage \/ (making' \in Makings /\ Shaped(making'.im, making'.info))
    <3>1. vas = [v \in Vas |-> vas[v]]
      BY DEF TypeInv
    <3>2. CASE making' = NoImage /\ vas' = Finish(making.im)
      BY <3>2 DEF Finish
    <3>3. ASSUME NEW v, NEW n, vas' = [vas EXCEPT ![v] = [o \in n |-> Unbound]],
                 making' \in Makings, Shaped(making'.im, making.info), making'.info = making.info
          PROVE  /\ vas' = [w \in Vas |-> vas'[w]]
                 /\ making' = NoImage \/ (making' \in Makings /\ Shaped(making'.im, making'.info))
      BY <3>1, <3>3
    <3>4. CASE making' \in Makings /\ making'.im = making.im /\ making'.info = making.info /\ vas' = vas
      BY <2>1, <3>1, <3>4
    <3>5. QED
      BY <1>4, <3>2, <3>3, <3>4, AllocVaEffects
  <2>3. Live' = Live
    BY <2>1 DEF Live
  <2>4. QED
    BY <2>1, <2>2, <2>3 DEF TypeInv, ToldInv, Some, Makings
<1>5. CASE AllocShadow
  <2>1. /\ UNCHANGED <<infos, told, batch, queue, query>> /\ making' = NoImage
        /\ making \in Makings /\ Shaped(making.im, making.info) /\ making.info \in infos \ Live
    BY <1>5, AllocShadowEffects
  <2>v. vas = [v \in Vas |-> vas[v]]
    BY DEF TypeInv
  <2>2. ASSUME NEW new \in ImageType, Shaped(new, making.info), vas' = [v \in Vas |-> vas'[v]],
               image' = [image EXCEPT ![making.info] = new]
        PROVE  TypeInv' /\ ToldInv'
    <3>1. /\ image' \in [infos -> ImageType \cup {NoImage}] /\ Live' = Live \cup {making.info}
          /\ \A j \in Live' : Shaped(image'[j], j)
      BY <2>1, <2>2, ImagePut
    <3>2. QED
      BY <2>1, <2>2, <3>1 DEF TypeInv, ToldInv, Some
  <2>3. CASE vas' = Finish(making.im) /\ image' = image
    <3>1. Live' = Live /\ vas' = [v \in Vas |-> vas'[v]]
      BY <2>1, <2>3 DEF Live, Finish
    <3>2. QED
      BY <2>1, <2>3, <3>1 DEF TypeInv, ToldInv, Some
  <2>4. ASSUME NEW v \in FreeVas, NEW n \in Nat, NEW new \in ImageType, Shaped(new, making.info),
               vas' = [vas EXCEPT ![v] = [o \in 0 .. n - 1 |-> <<"own", o>>]],
               image' = [image EXCEPT ![making.info] = new]
        PROVE  TypeInv' /\ ToldInv'
    BY <2>2, <2>4, <2>v
  <2>5. CASE vas' = vas /\ image' = [image EXCEPT ![making.info] = making.im]
    BY <2>1, <2>2, <2>5, <2>v DEF Makings
  <2>6. QED
    BY <1>5, <2>3, <2>4, <2>5, AllocShadowEffects
<1>6. CASE DestroyImage
  <2>1. PICK i \in Live :
          /\ ~batch.open /\ making = NoImage
          /\ vas' = Finish(image[i]) /\ image' = [image EXCEPT ![i] = NoImage]
          /\ told' = {part \in told : part[1] # i}
          /\ UNCHANGED <<infos, making, batch, queue, query>>
    BY <1>6 DEF DestroyImage
  <2>2. /\ image' \in [infos -> ImageType \cup {NoImage}] /\ Live' = Live \ {i}
        /\ \A j \in Live' : Shaped(image'[j], j)
    BY <2>1, ImageGone
  <2>3. vas' = [v \in Vas |-> vas'[v]]
    BY <2>1 DEF Finish
  <2>4. told' \subseteq Live' \X (1 .. 3) /\ batch'.parts = {} /\ told' \subseteq Some
    BY <1>0, <2>1, <2>2 DEF ToldInv
  <2>5. QED
    BY <2>1, <2>2, <2>3, <2>4 DEF TypeInv, ToldInv, Some
<1>7. CASE BindBegin
  <2>1. /\ batch' = [NoBatch EXCEPT !.open = TRUE]
        /\ UNCHANGED <<infos, image, vas, making, told, queue, query>>
    BY <1>7 DEF BindBegin
  <2>2. batch' \in BatchType /\ batch'.parts = {} /\ batch'.open
    BY <2>1 DEF NoBatch
  <2>3. QED
    BY <2>1, <2>2 DEF TypeInv, ToldInv, Some, Live
<1>8. ASSUME NEW i \in Live, NEW new \in ImageType, NEW n \in 1 .. 3, NEW result \in {"ok", "error"},
             Shaped(new, i), image' = [image EXCEPT ![i] = new], batch.open,
             batch' = [batch EXCEPT !.parts = @ \cup {<<i, n>>}, !.result = FirstError(result)],
             vas' = [v \in Vas |-> vas'[v]], UNCHANGED <<infos, making, told, queue, query>>
      PROVE  TypeInv' /\ ToldInv'
  <2>1. i \in infos
    BY DEF Live
  <2>p. /\ image' \in [infos -> ImageType \cup {NoImage}] /\ Live' = Live \cup {i}
        /\ \A j \in Live' : Shaped(image'[j], j)
    BY <1>8, <2>1, ImagePut
  <2>l. Live' = Live
    BY <2>p
  <2>2. /\ image' \in [infos -> ImageType \cup {NoImage}] /\ Live' = Live
        /\ \A j \in Live' : Shaped(image'[j], j)
    BY <2>p, <2>l
  <2>3. batch' \in BatchType /\ batch'.parts = batch.parts \cup {<<i, n>>} /\ batch'.open
    <3>1. <<i, n>> \in Some
      BY <2>1 DEF Some
    <3>2. FirstError(result) \in {"ok", "error"}
      BY <1>0 DEF FirstError
    <3>3. batch' = [parts |-> batch.parts \cup {<<i, n>>}, result |-> FirstError(result), open |-> TRUE]
      <4>1. batch = [parts |-> batch.parts, result |-> batch.result, open |-> TRUE]
        BY <1>0, <1>8
      <4>2. QED
        BY <1>8, <4>1
    <3>4. batch.parts \cup {<<i, n>>} \in SUBSET Some
      BY <1>0, <3>1
    <3>5. QED
      BY <3>2, <3>3, <3>4
  <2>4. QED
    BY <1>8, <2>2, <2>3 DEF TypeInv, ToldInv, Some
<1>9. CASE BindImageMemory
  <2>1. PICK i \in Live, m \in Mems, n \in 1 .. 3, offset \in Nat, bound \in 0 .. 4, new \in ImageType :
          Bound(i, m, n, offset, bound, new)
    BY <1>9, BindEffects
  <2>2. QED
    BY <1>8, <2>1 DEF Bound
<1>10. CASE BindSwapchainImage
  <2>1. PICK i \in Live, new \in ImageType :
          /\ Shaped(new, i) /\ image' = [image EXCEPT ![i] = new] /\ batch.open
          /\ batch' = [batch EXCEPT !.parts = @ \cup {<<i, 1>>}, !.result = FirstError("ok")]
          /\ UNCHANGED <<infos, vas, making, told, queue, query>>
    BY <1>10, SwapchainEffects
  <2>2. vas' = [v \in Vas |-> vas'[v]]
    BY <2>1 DEF TypeInv
  <2>3. 1 \in 1 .. 3 /\ "ok" \in {"ok", "error"}
    OBVIOUS
  <2>4. QED
    BY <1>8, <2>1, <2>2, <2>3
<1>11. CASE BindEnd
  <2>1. /\ told' = told \cup (IF batch.result = "ok" THEN batch.parts ELSE {}) /\ batch' = NoBatch
        /\ UNCHANGED <<infos, image, vas, making, queue, query>>
    BY <1>11 DEF BindEnd
  <2>2. batch' \in BatchType /\ batch'.parts = {}
    BY <2>1 DEF NoBatch
  <2>3. told' \subseteq Live \X (1 .. 3) /\ told' \subseteq Some
    BY <1>0, <2>1
  <2>4. QED
    BY <2>1, <2>2, <2>3 DEF TypeInv, ToldInv, Some, Live
<1>12. ASSUME vas' = [v \in Vas |-> vas'[v]], queue.binds < MaxBinds,
              \E l, c : \E b \in {queue.binds, queue.binds + 1} : queue' = [binds |-> b, lost |-> l, last |-> c],
              UNCHANGED <<infos, image, making, told, batch, query>>
       PROVE  TypeInv' /\ ToldInv'
  <2>1. queue.binds \in 0 .. MaxBinds /\ MaxBinds \in Nat
    BY ImageAssumption DEF TypeInv
  <2>2. queue' = [binds |-> queue'.binds, lost |-> queue'.lost, last |-> queue'.last]
        /\ queue'.binds \in 0 .. MaxBinds
    BY <1>12, <2>1
  <2>3. QED
    BY <1>12, <2>2 DEF TypeInv, ToldInv, Some, Live
<1>13. ASSUME NEW i, NEW bind, NEW kind, NEW m, OpaqueBind(i, bind, kind, m), queue.binds < MaxBinds
       PROVE  TypeInv' /\ ToldInv'
  <2>1. /\ vas' = [v \in Vas |-> vas'[v]] /\ UNCHANGED <<infos, image, making, told, batch, query>>
        /\ \E l, c : queue' = [binds |-> queue.binds + 1, lost |-> l, last |-> c]
    BY <1>13 DEF OpaqueBind
  <2>2. QED
    BY <1>12, <1>13, <2>1
<1>14. CASE QueueOpaqueBind
  <2>1. PICK i, bind, m : OpaqueBind(i, bind, "whole", m) /\ Bindable(i)
    BY <1>14 DEF QueueOpaqueBind
  <2>2. QED
    BY <1>13, <2>1 DEF Bindable
<1>15. CASE QueueMipTailBind
  <2>1. PICK i, bind, m : OpaqueBind(i, bind, "tail", m) /\ Bindable(i)
    BY <1>15 DEF QueueMipTailBind
  <2>2. QED
    BY <1>13, <2>1 DEF Bindable
<1>16. CASE QueueImageBind
  <2>1. /\ UNCHANGED <<infos, image, making, told, batch, query>> /\ queue.binds < MaxBinds
        /\ \E v, pages, call :
             \/ vas' = [vas EXCEPT ![v] = pages] /\ queue' = [queue EXCEPT !.binds = @ + 1, !.last = call]
             \/ vas' = vas /\ queue' = [queue EXCEPT !.lost = TRUE]
    <3>1. PICK i \in infos, m \in Mems \cup {NoMem} :
            /\ Bindable(i) /\ image[i].resident
            /\ LET p == image[i].planes[1]
               IN \E box \in Boxes(p.nil) :
                    \/ /\ vas' = [vas EXCEPT ![p.va] = Mapped(@, TileRows(p.nil, box), m)]
                       /\ queue' = [queue EXCEPT !.binds = @ + 1, !.last = TilesCall(box, m)]
                    \/ queue' = [queue EXCEPT !.lost = TRUE] /\ UNCHANGED vas
            /\ UNCHANGED <<infos, image, making, told, batch, query>>
      BY <1>16 DEF QueueImageBind
    <3> DEFINE p == image[i].planes[1]
    <3>2. PICK box \in Boxes(p.nil) :
            \/ /\ vas' = [vas EXCEPT ![p.va] = Mapped(@, TileRows(p.nil, box), m)]
               /\ queue' = [queue EXCEPT !.binds = @ + 1, !.last = TilesCall(box, m)]
            \/ queue' = [queue EXCEPT !.lost = TRUE] /\ UNCHANGED vas
      BY <3>1
    <3> DEFINE pages == Mapped(vas[p.va], TileRows(p.nil, box), m)
               call  == TilesCall(box, m)
    <3>3. \/ vas' = [vas EXCEPT ![p.va] = pages] /\ queue' = [queue EXCEPT !.binds = @ + 1, !.last = call]
          \/ vas' = vas /\ queue' = [queue EXCEPT !.lost = TRUE]
      <4>1. vas = [v \in Vas |-> vas[v]]
        BY DEF TypeInv
      <4>2. QED
        BY <3>2, <4>1
    <3> HIDE DEF pages, call
    <3>4. \E v, pg, cl :
             \/ vas' = [vas EXCEPT ![v] = pg] /\ queue' = [queue EXCEPT !.binds = @ + 1, !.last = cl]
             \/ vas' = vas /\ queue' = [queue EXCEPT !.lost = TRUE]
      <4> HIDE DEF p
      <4>1. QED
        BY <3>3
    <3>5. queue.binds < MaxBinds /\ UNCHANGED <<infos, image, making, told, batch, query>>
      BY <3>1 DEF Bindable
    <3>6. QED
      BY <3>4, <3>5
  <2>2. queue = [binds |-> queue.binds, lost |-> queue.lost, last |-> queue.last]
        /\ vas = [v \in Vas |-> vas[v]]
    BY DEF TypeInv
  <2>3. /\ vas' = [v \in Vas |-> vas'[v]]
        /\ \E l, c : \E b \in {queue.binds, queue.binds + 1} : queue' = [binds |-> b, lost |-> l, last |-> c]
    <3>1. PICK v, pages, call :
             \/ vas' = [vas EXCEPT ![v] = pages] /\ queue' = [queue EXCEPT !.binds = @ + 1, !.last = call]
             \/ vas' = vas /\ queue' = [queue EXCEPT !.lost = TRUE]
      BY <2>1
    <3>2. vas' = [w \in Vas |-> vas'[w]]
      BY <2>2, <3>1
    <3>3. \/ queue' = [binds |-> queue.binds + 1, lost |-> queue.lost, last |-> call]
          \/ queue' = [binds |-> queue.binds, lost |-> TRUE, last |-> queue.last]
      BY <2>2, <3>1
    <3>4. QED
      BY <3>2, <3>3
  <2>4. QED
    BY <1>12, <2>1, <2>3
<1>17. QED
  BY <1>1, <1>2, <1>3, <1>4, <1>5, <1>6, <1>7, <1>9, <1>10, <1>11, <1>14, <1>15, <1>16 DEF Next

-----------------------------------------------------------------------------
(* Ranges of addresses. *)

Ranges(im) == Held(im) \cap Vas

(* The planes of an image before the next have ranges of their sizes, those   *)
(* that take one, each its own.                                             *)
Placed(im, next, V) ==
  /\ \A n \in 1 .. Len(im.planes) :
       LET p == im.planes[n]
       IN IF HasVa(im, p) /\ n < next
          THEN p.va \in Vas /\ DOMAIN V[p.va] = 0 .. PlaneSize(im, p) - 1
          ELSE p.va = "none"
  /\ \A m, n \in 1 .. Len(im.planes) :
       im.planes[m].va = im.planes[n].va /\ im.planes[m].va \in Vas => m = n

Whole(im, V) == Placed(im, Len(im.planes) + 1, V)
NoShadow(im) == \A n \in DOMAIN im.shadow : im.shadow[n].va = "none"

(* Who has ranges: the images, and the one being made.                      *)
Owners   == Live \cup (IF making = NoImage THEN {} ELSE {making.info})
Owned(i) == IF i \in Live THEN image[i] ELSE making.im
Ledger   == [i \in Owners |-> Ranges(Owned(i))]

(* What is not free is held by one of them.                                  *)
Balanced(H, F) ==
  /\ \A v \in Vas : v \notin F <=> \E i \in DOMAIN H : v \in H[i]
  /\ \A i, j \in DOMAIN H : i # j => H[i] \cap H[j] = {}

RangesInv ==
  /\ \A v \in Vas : vas[v] = Free \/ \E n \in Nat : DOMAIN vas[v] = 0 .. n - 1
  /\ \A i \in Live : Whole(image[i], vas)
  /\ making # NoImage => Placed(making.im, making.next, vas) /\ NoShadow(making.im)
  /\ Balanced(Ledger, FreeVas)

(* The account balances when a range that was free is given, ...              *)
LEMMA Give ==
  ASSUME NEW H, NEW F, Balanced(H, F), NEW i \in DOMAIN H, NEW v \in F, v \in Vas
  PROVE  Balanced([H EXCEPT ![i] = @ \cup {v}], F \ {v})
BY DEF Balanced

(* ... when those of an image are given back, ...                            *)
LEMMA GiveBack ==
  ASSUME NEW H, NEW F, Balanced(H, F), NEW i \in DOMAIN H
  PROVE  Balanced([j \in DOMAIN H \ {i} |-> H[j]], F \cup H[i])
BY DEF Balanced

(* ... and when an image comes that has none.                                *)
LEMMA Come ==
  ASSUME NEW H, NEW F, Balanced(H, F), NEW i, i \notin DOMAIN H
  PROVE  Balanced([j \in DOMAIN H \cup {i} |-> IF j = i THEN {} ELSE H[j]], F)
BY DEF Balanced

(* A range is never empty of its name: what is mapped is not Free.           *)
LEMMA NotFree ==
  \A f : (\E n \in Nat : DOMAIN f = 0 .. n - 1) => f # Free
<1>1. DOMAIN Free = {1}
  BY DEF Free
<1>2. \A n \in Nat : 0 .. n - 1 # {1}
  <2>1. ASSUME NEW n \in Nat, 0 .. n - 1 = {1} PROVE FALSE
    <3>1. 1 \in 0 .. n - 1
      BY <2>1
    <3>2. 0 \in 0 .. n - 1
      BY <3>1
    <3>3. QED
      BY <2>1, <3>2
  <2>2. QED
    BY <2>1
<1>3. QED
  BY <1>1, <1>2

(* An image whose planes and shadow keep their ranges.                       *)
SameRanges(new, im) ==
  /\ \A n \in 1 .. Len(im.planes) : new.planes[n].va = im.planes[n].va
  /\ new.shadow = im.shadow

(* It holds the ranges it held, whole if they were.                          *)
LEMMA SameRangesFacts ==
  ASSUME NEW i \in Infos, NEW im \in ImageType, NEW new \in ImageType, Shaped(im, i), Shaped(new, i),
         SameRanges(new, im)
  PROVE  Held(new) = Held(im) /\ \A V : Whole(im, V) => Whole(new, V)
<1>1. /\ Len(new.planes) = Len(im.planes) /\ new.sparse = im.sparse
      /\ \A n \in 1 .. Len(im.planes) : new.planes[n].nil = im.planes[n].nil
  BY DEF Shaped
<1>2. DOMAIN im.planes = 1 .. Len(im.planes) /\ DOMAIN new.planes = 1 .. Len(im.planes)
  BY <1>1, ShapeFacts
<1>3. \A n \in 1 .. Len(im.planes) :
        /\ HasVa(new, new.planes[n]) <=> HasVa(im, im.planes[n])
        /\ PlaneSize(new, new.planes[n]) = PlaneSize(im, im.planes[n])
  BY <1>1 DEF HasVa, PlaneSize, PlaneAlign
<1>4. Held(new) = Held(im)
  BY <1>2 DEF Held, SameRanges
<1>5. \A V : Whole(im, V) => Whole(new, V)
  BY <1>1, <1>3 DEF Whole, Placed, SameRanges
<1>6. QED
  BY <1>4, <1>5

(* What is mapped elsewhere does not matter to an image.                     *)
LEMMA PlacedFrame ==
  ASSUME NEW i \in Infos, NEW im \in ImageType, Shaped(im, i), NEW next, NEW V, NEW W,
         \A v \in Ranges(im) : DOMAIN W[v] = DOMAIN V[v], Placed(im, next, V)
  PROVE  Placed(im, next, W)
<1>1. \A n \in 1 .. Len(im.planes) : im.planes[n].va \in Vas => im.planes[n].va \in Ranges(im)
  BY ShapeFacts DEF Ranges, Held
<1>2. QED
  BY <1>1 DEF Placed

(* Whose range a plane's is.                                                *)
LEMMA OwnedFacts ==
  ASSUME TypeInv
  PROVE  /\ \A i \in Owners : i \in Infos /\ Owned(i) \in ImageType /\ Shaped(Owned(i), i)
         /\ \A i \in Live : Owned(i) = image[i]
         /\ making # NoImage => making.info \in Owners \ Live /\ Owned(making.info) = making.im
<1>1. \A i \in Live : Owned(i) = image[i]
  BY DEF Owned
<1>2. ASSUME making # NoImage
      PROVE  /\ making.info \in Owners \ Live /\ Owned(making.info) = making.im
             /\ making.info \in Infos /\ making.im \in ImageType /\ Shaped(making.im, making.info)
  BY <1>2 DEF TypeInv, Owners, Owned, Infos
<1>3. \A i \in Live : i \in Infos /\ image[i] \in ImageType /\ Shaped(image[i], i)
  BY LiveFacts
<1>4. QED
  BY <1>1, <1>2, <1>3 DEF Owners

(* The planes of an image that take a range have one, which is in use.       *)
LEMMA PlaneInUse ==
  ASSUME TypeInv, RangesInv, NEW i \in Live, NEW n \in 1 .. Len(image[i].planes),
         HasVa(image[i], image[i].planes[n])
  PROVE  LET v == image[i].planes[n].va
         IN /\ v \in Vas /\ vas[v] # Free /\ v \in Ranges(image[i])
            /\ DOMAIN vas[v] = 0 .. PlaneSize(image[i], image[i].planes[n]) - 1
<1> DEFINE im == image[i]
           v  == im.planes[n].va
<1>1. i \in Infos /\ im \in ImageType /\ Shaped(im, i)
  BY LiveFacts
<1>2. n < Len(im.planes) + 1
  BY <1>1, ShapeFacts
<1>3. v \in Vas /\ DOMAIN vas[v] = 0 .. PlaneSize(im, im.planes[n]) - 1
  BY <1>2 DEF RangesInv, Whole, Placed
<1>4. v \in Ranges(im)
  BY <1>1, <1>3, ShapeFacts DEF Ranges, Held
<1>5. i \in DOMAIN Ledger /\ Ledger[i] = Ranges(im)
  BY DEF Ledger, Owners, Owned
<1>6. v \notin FreeVas
  BY <1>3, <1>4, <1>5 DEF RangesInv, Balanced
<1>7. QED
  BY <1>3, <1>4, <1>6 DEF FreeVas

(* A plane of an image has a range if it takes one, and nothing else.         *)
LEMMA PlaneVa ==
  ASSUME TypeInv, RangesInv, NEW i \in Live, NEW n \in 1 .. Len(image[i].planes),
         image[i].planes[n].va \in Vas
  PROVE  HasVa(image[i], image[i].planes[n])
BY ImageAssumption DEF RangesInv, Whole, Placed

(* Mapping keeps all ranges.                                                *)
LEMMA RangesKept ==
  ASSUME TypeInv, TypeInv', RangesInv, UNCHANGED <<infos, making>>, Live' = Live,
         \A i \in Live : SameRanges(image'[i], image[i]),
         \A v \in Vas : DOMAIN vas'[v] = DOMAIN vas[v] /\ (vas'[v] = Free <=> vas[v] = Free)
  PROVE  RangesInv'
<1>1. \A v \in Vas : vas'[v] = Free \/ \E n \in Nat : DOMAIN vas'[v] = 0 .. n - 1
  BY DEF RangesInv
<1>2. FreeVas' = FreeVas
  BY DEF FreeVas
<1>3. ASSUME NEW i \in Live
      PROVE  /\ Held(image'[i]) = Held(image[i]) /\ Whole(image'[i], vas')
  <2>1. i \in Infos /\ image[i] \in ImageType /\ Shaped(image[i], i)
    BY LiveFacts
  <2>2. image'[i] \in ImageType /\ Shaped(image'[i], i)
    BY DEF TypeInv, Live
  <2>3. Held(image'[i]) = Held(image[i]) /\ \A V : Whole(image[i], V) => Whole(image'[i], V)
    BY <2>1, <2>2, SameRangesFacts
  <2>4. Whole(image[i], vas')
    <3>1. \A v \in Ranges(image[i]) : DOMAIN vas'[v] = DOMAIN vas[v]
      BY DEF Ranges
    <3>2. QED
      BY <2>1, <3>1, PlacedFrame DEF RangesInv, Whole
  <2>5. QED
    BY <2>3, <2>4
<1>4. ASSUME making # NoImage
      PROVE  Placed(making.im, making.next, vas') /\ NoShadow(making.im)
  <2>1. making.info \in Infos /\ making.im \in ImageType /\ Shaped(making.im, making.info)
    BY <1>4, OwnedFacts
  <2>2. \A v \in Ranges(making.im) : DOMAIN vas'[v] = DOMAIN vas[v]
    BY DEF Ranges
  <2>3. QED
    BY <1>4, <2>1, <2>2, PlacedFrame DEF RangesInv
<1>5. Ledger' = Ledger
  <2>1. Owners' = Owners
    BY DEF Owners
  <2>2. \A i \in Owners : Ranges(Owned(i))' = Ranges(Owned(i))
    BY <1>3 DEF Owners, Owned, Ranges
  <2>3. QED
    BY <2>1, <2>2 DEF Ledger
<1>6. QED
  BY <1>1, <1>2, <1>3, <1>4, <1>5 DEF RangesInv

(* Only a range in use is mapped anew, and it stays as long as it is.         *)
LEMMA Remapped ==
  ASSUME TypeInv, RangesInv,
         \A v \in Vas : \/ vas'[v] = vas[v]
                        \/ /\ DOMAIN vas'[v] = DOMAIN vas[v]
                           /\ \E i \in Live : \E n \in 1 .. Len(image[i].planes) : image[i].planes[n].va = v
  PROVE  \A v \in Vas : DOMAIN vas'[v] = DOMAIN vas[v] /\ (vas'[v] = Free <=> vas[v] = Free)
<1>1. ASSUME NEW v \in Vas, DOMAIN vas'[v] = DOMAIN vas[v],
             NEW i \in Live, NEW n \in 1 .. Len(image[i].planes), image[i].planes[n].va = v
      PROVE  vas[v] # Free /\ vas'[v] # Free
  <2>1. HasVa(image[i], image[i].planes[n])
    BY <1>1, PlaneVa
  <2>2. vas[v] # Free
    BY <1>1, <2>1, PlaneInUse
  <2>3. \E k \in Nat : DOMAIN vas[v] = 0 .. k - 1
    BY <2>2 DEF RangesInv
  <2>4. QED
    BY <1>1, <2>2, <2>3, NotFree
<1>2. QED
  BY <1>1

(* Binding keeps them, ...                                                  *)
LEMMA RangesBound ==
  ASSUME TypeInv, TypeInv', RangesInv,
         NEW i \in Live, NEW m \in Mems, NEW n \in 1 .. 3, NEW offset \in Nat, NEW bound \in 0 .. 4,
         NEW new \in ImageType, Bound(i, m, n, offset, bound, new)
  PROVE  RangesInv'
<1> DEFINE im == image[i]
           ns == Targets(im, n)
<1>1. i \in infos /\ i \in Infos /\ im \in ImageType /\ Shaped(im, i)
  BY LiveFacts
<1>2. /\ n \in 1 .. im.count /\ (im.disjoint \/ n = 1) /\ bound \in 0 .. Len(ns)
      /\ Shaped(new, i) /\ new.shadow = im.shadow /\ image' = [image EXCEPT ![i] = new]
      /\ \A x \in 1 .. Len(im.planes) : new.planes[x].va = im.planes[x].va
      /\ UNCHANGED <<infos, making>>
      /\ \A v \in Vas :
          \/ vas'[v] = vas[v]
          \/ \E k \in 1 .. bound :
               im.planes[ns[k]].va = v /\ \E f : vas'[v] = [o \in DOMAIN vas[v] |-> f[o]]
  <2>1. \A v \in Vas :
          \/ vas'[v] = vas[v]
          \/ \E k \in 1 .. bound :
               im.planes[ns[k]].va = v /\ \E f : vas'[v] = [o \in DOMAIN vas[v] |-> f[o]]
    <3>1. TAKE v \in Vas
    <3>2. ASSUME NEW k \in 1 .. bound, im.planes[ns[k]].va = v,
                 vas'[v] = [o \in DOMAIN vas[v] |-> <<m, Place(im, ns, k, offset) + o>>]
          PROVE  \E f : vas'[v] = [o \in DOMAIN vas[v] |-> f[o]]
      <4> DEFINE f == [o \in DOMAIN vas[v] |-> <<m, Place(im, ns, k, offset) + o>>]
      <4>1. vas'[v] = [o \in DOMAIN vas[v] |-> f[o]]
        BY <3>2
      <4> HIDE DEF f
      <4>2. QED
        BY <4>1
    <3>3. QED
      BY <3>2 DEF Bound
  <2>2. QED
    BY <2>1 DEF Bound
<1>p. Live' = Live \cup {i} /\ image'[i] = new /\ \A j \in infos : j # i => image'[j] = image[j]
  BY <1>1, <1>2, ImagePut
<1>3. Live' = Live /\ image'[i] = new /\ \A j \in infos : j # i => image'[j] = image[j]
  BY <1>p
<1>4. \A j \in Live : SameRanges(image'[j], image[j])
  BY <1>2, <1>3 DEF SameRanges, Live
<1>5. \A k \in 1 .. bound : ns[k] \in 1 .. Len(im.planes)
  <2> HIDE DEF im
  <2>1. Len(ns) \in 1 .. 4 /\ \A k \in 1 .. Len(ns) : ns[k] \in 1 .. Len(im.planes)
    BY <1>1, <1>2, TargetsFacts
  <2> HIDE DEF ns
  <2>2. \A k \in 1 .. bound : k \in 1 .. Len(ns)
    BY <1>2, <2>1
  <2>3. QED
    BY <2>1, <2>2
<1>6. \A v \in Vas : \/ vas'[v] = vas[v]
                     \/ /\ DOMAIN vas'[v] = DOMAIN vas[v]
                        /\ \E j \in Live : \E k \in 1 .. Len(image[j].planes) : image[j].planes[k].va = v
  BY <1>2, <1>5
<1> HIDE DEF im, ns
<1>7. \A v \in Vas : DOMAIN vas'[v] = DOMAIN vas[v] /\ (vas'[v] = Free <=> vas[v] = Free)
  BY <1>6, Remapped
<1>8. QED
  BY <1>2, <1>3, <1>4, <1>7, RangesKept

(* ... and a sparse bind does; ...                                          *)
LEMMA RangesOpaque ==
  ASSUME TypeInv, TypeInv', RangesInv,
         NEW i \in Live, NEW bind, NEW kind, NEW m, OpaqueBind(i, bind, kind, m)
  PROVE  RangesInv'
<1> DEFINE im == image[i]
<1>1. PICK bound \in 0 .. Len(im.planes) :
         vas' = [v \in Vas |->
            IF \E n \in 1 .. bound : im.planes[n].va = v
            THEN Mapped(vas[v], OpaqueRows(im, CHOOSE n \in 1 .. bound : im.planes[n].va = v, bind), m)
            ELSE vas[v]]
  BY DEF OpaqueBind
<1>2. UNCHANGED <<infos, image, making>> /\ Live' = Live
  BY DEF OpaqueBind, Live
<1>3. i \in Infos /\ im \in ImageType /\ Shaped(im, i)
  BY LiveFacts
<1>4. \A n \in 1 .. bound : n \in 1 .. Len(im.planes)
  <2>1. PICK L : L = Len(im.planes)
    OBVIOUS
  <2>2. L \in 1 .. 4 /\ bound \in 0 .. L
    BY <1>3, <2>1, ShapeFacts
  <2>3. \A n \in 1 .. bound : n \in 1 .. L
    BY <2>2
  <2>4. QED
    BY <2>1, <2>3
<1>5. \A pages, rows : DOMAIN Mapped(pages, rows, m) = DOMAIN pages
  BY DEF Mapped
<1>6. \A v \in Vas : \/ vas'[v] = vas[v]
                     \/ /\ DOMAIN vas'[v] = DOMAIN vas[v]
                        /\ \E j \in Live : \E n \in 1 .. Len(image[j].planes) : image[j].planes[n].va = v
  BY <1>1, <1>4, <1>5
<1>7. \A v \in Vas : DOMAIN vas'[v] = DOMAIN vas[v] /\ (vas'[v] = Free <=> vas[v] = Free)
  BY <1>6, Remapped
<1>8. \A j \in Live : SameRanges(image'[j], image[j])
  BY <1>2 DEF SameRanges
<1>9. QED
  BY <1>2, <1>7, <1>8, RangesKept

(* ... one of tiles as well.                                                *)
LEMMA RangesTiles ==
  ASSUME TypeInv, TypeInv', RangesInv, QueueImageBind
  PROVE  RangesInv'
<1>p. PICK i \in Live : \E rows, m :
        \/ vas' = [vas EXCEPT ![image[i].planes[1].va] = Mapped(@, rows, m)]
        \/ vas' = vas
  <2>1. PICK i \in infos, m \in Mems \cup {NoMem} :
          /\ Bindable(i)
          /\ \E box \in Boxes(image[i].planes[1].nil) :
               \/ vas' = [vas EXCEPT ![image[i].planes[1].va] =
                                        Mapped(@, TileRows(image[i].planes[1].nil, box), m)]
               \/ vas' = vas
    BY DEF QueueImageBind
  <2>2. i \in Live
    BY <2>1 DEF Bindable
  <2>3. QED
    BY <2>1, <2>2
<1>1. PICK rows, m :
        \/ vas' = [vas EXCEPT ![image[i].planes[1].va] = Mapped(@, rows, m)]
        \/ vas' = vas
  BY <1>p
<1>2. UNCHANGED <<infos, image, making>> /\ Live' = Live
  BY DEF QueueImageBind, Live
<1> DEFINE im == image[i]
<1>3. i \in Infos /\ im \in ImageType /\ Shaped(im, i)
  BY LiveFacts
<1>4. 1 \in 1 .. Len(im.planes)
  <2>1. PICK L : L = Len(im.planes)
    OBVIOUS
  <2>2. L \in 1 .. 4
    BY <1>3, <2>1, ShapeFacts
  <2>3. 1 \in 1 .. L
    BY <2>2
  <2>4. QED
    BY <2>1, <2>3
<1>5. \A pages : DOMAIN Mapped(pages, rows, m) = DOMAIN pages
  BY DEF Mapped
<1>6. \A v \in Vas : \/ vas'[v] = vas[v]
                     \/ DOMAIN vas'[v] = DOMAIN vas[v] /\ im.planes[1].va = v
  <2>1. vas = [v \in Vas |-> vas[v]]
    BY DEF TypeInv
  <2> HIDE DEF im
  <2>2. \/ vas' = [vas EXCEPT ![im.planes[1].va] = Mapped(vas[im.planes[1].va], rows, m)]
        \/ vas' = vas
    BY <1>1 DEF im
  <2>3. QED
    BY <1>5, <2>1, <2>2
<1>7. \A v \in Vas : \/ vas'[v] = vas[v]
                     \/ /\ DOMAIN vas'[v] = DOMAIN vas[v]
                        /\ \E j \in Live : \E n \in 1 .. Len(image[j].planes) : image[j].planes[n].va = v
  BY <1>4, <1>6
<1>8. \A v \in Vas : DOMAIN vas'[v] = DOMAIN vas[v] /\ (vas'[v] = Free <=> vas[v] = Free)
  BY <1>7, Remapped
<1>9. \A j \in Live : SameRanges(image'[j], image[j])
  BY <1>2 DEF SameRanges
<1>10. QED
  BY <1>2, <1>8, <1>9, RangesKept

(* ... a creation starts without any; ...                                   *)
LEMMA RangesCreate ==
  ASSUME TypeInv, TypeInv', RangesInv, CreateBegin
  PROVE  RangesInv'
<1>1. PICK i \in infos \ Live : making = NoImage /\ making' = [info |-> i, im |-> ImageInit(i), next |-> 1]
  BY DEF CreateBegin
<1>2. UNCHANGED <<infos, image, vas>> /\ Live' = Live
  BY DEF CreateBegin, Live
<1> DEFINE im == ImageInit(i)
<1>3. i \in Infos
  BY DEF TypeInv, Infos
<1>4. im \in ImageType /\ (\A n \in DOMAIN im.planes : im.planes[n].va = "none") /\ NoShadow(im)
  BY <1>3, InitType DEF NoShadow
<1>5. Shaped(im, i)
  BY DEF Shaped
<1> HIDE DEF im
<1>6. DOMAIN im.planes = 1 .. Len(im.planes)
  BY <1>3, <1>4, <1>5, ShapeFacts
<1>7. Placed(im, 1, vas)
  <2>1. \A n \in 1 .. Len(im.planes) : ~(n < 1)
    <3>1. PICK L : L = Len(im.planes)
      OBVIOUS
    <3>2. \A n \in 1 .. L : ~(n < 1)
      OBVIOUS
    <3>3. QED
      BY <3>1, <3>2
  <2>2. QED
    BY <1>4, <1>6, <2>1, ImageAssumption DEF Placed
<1>8. Ranges(im) = {}
  BY <1>4, ImageAssumption DEF Ranges, Held, NoShadow
<1>9. making' # NoImage /\ making'.im = im /\ making'.next = 1 /\ making'.info = i
  BY <1>1, NoImageType DEF im, TypeInv
<1>10. Ledger' = [j \in DOMAIN Ledger \cup {i} |-> IF j = i THEN {} ELSE Ledger[j]]
  <2>1. Owners = Live /\ Owners' = Live \cup {i}
    BY <1>1, <1>2, <1>9 DEF Owners
  <2>2. \A j \in Live : Ranges(Owned(j))' = Ranges(Owned(j))
    BY <1>2 DEF Owned, Ranges, Held
  <2>3. Ranges(Owned(i))' = {}
    BY <1>1, <1>2, <1>8, <1>9 DEF Owned, Ranges, Held
  <2>4. QED
    BY <1>1, <2>1, <2>2, <2>3 DEF Ledger
<1>11. Balanced(Ledger', FreeVas')
  <2>1. i \notin DOMAIN Ledger
    BY <1>1 DEF Ledger, Owners
  <2>2. FreeVas' = FreeVas
    BY <1>2 DEF FreeVas
  <2>3. QED
    BY <1>10, <2>1, <2>2, Come DEF RangesInv
<1>12. QED
  BY <1>2, <1>4, <1>7, <1>9, <1>11 DEF RangesInv

(* ... and what fails gives back what it has; ...                           *)
LEMMA FinishFacts ==
  ASSUME TypeInv, RangesInv, NEW i \in Owners, vas' = Finish(Owned(i)),
         Ledger' = [j \in DOMAIN Ledger \ {i} |-> Ledger[j]], infos' = infos
  PROVE  /\ Balanced(Ledger', FreeVas')
         /\ \A v \in Vas : vas'[v] = Free \/ \E n \in Nat : DOMAIN vas'[v] = 0 .. n - 1
         /\ \A j \in Owners : j # i => \A v \in Ranges(Owned(j)) : vas'[v] = vas[v]
<1>1. DOMAIN Ledger = Owners /\ \A j \in Owners : Ledger[j] = Ranges(Owned(j))
  BY DEF Ledger
<1>2. \A v \in Vas : vas'[v] = IF v \in Ranges(Owned(i)) THEN Free ELSE vas[v]
  BY DEF Finish, Ranges
<1>3. FreeVas' = FreeVas \cup Ranges(Owned(i))
  BY <1>2 DEF FreeVas, Ranges
<1>4. Balanced(Ledger', FreeVas')
  BY <1>1, <1>3, GiveBack DEF RangesInv
<1>5. \A v \in Vas : vas'[v] = Free \/ \E n \in Nat : DOMAIN vas'[v] = 0 .. n - 1
  BY <1>2 DEF RangesInv
<1>6. ASSUME NEW j \in Owners, j # i, NEW v \in Ranges(Owned(j)) PROVE vas'[v] = vas[v]
  <2>1. Balanced(Ledger, FreeVas)
    BY DEF RangesInv
  <2>2. v \notin Ranges(Owned(i)) /\ v \in Vas
    BY <1>1, <1>6, <2>1 DEF Balanced, Ranges
  <2>3. QED
    BY <1>2, <2>2
<1>7. QED
  BY <1>4, <1>5, <1>6

(* ... the image being made, ...                                            *)
LEMMA RangesFail ==
  ASSUME TypeInv, TypeInv', RangesInv, making # NoImage, making' = NoImage,
         vas' = Finish(making.im), UNCHANGED <<infos, image>>
  PROVE  RangesInv'
<1> DEFINE i == making.info
<1>1. i \in Owners \ Live /\ Owned(i) = making.im
  BY OwnedFacts
<1>2. Live' = Live /\ Owners' = Live /\ Owners = Live \cup {i}
  BY DEF Live, Owners
<1>3. \A j \in Live : Owned(j) = image[j] /\ Ranges(Owned(j))' = Ranges(Owned(j))
  BY <1>2 DEF Owned, Ranges, Held
<1> HIDE DEF i
<1>4. Ledger' = [j \in DOMAIN Ledger \ {i} |-> Ledger[j]]
  BY <1>1, <1>2, <1>3 DEF Ledger
<1>5. /\ Balanced(Ledger', FreeVas')
      /\ \A v \in Vas : vas'[v] = Free \/ \E n \in Nat : DOMAIN vas'[v] = 0 .. n - 1
      /\ \A j \in Owners : j # i => \A v \in Ranges(Owned(j)) : vas'[v] = vas[v]
  <2>1. vas' = Finish(Owned(i))
    BY <1>1
  <2>2. QED
    BY <1>1, <1>4, <2>1, FinishFacts
<1>6. ASSUME NEW j \in Live PROVE Whole(image[j], vas')
  <2>1. j \in Infos /\ image[j] \in ImageType /\ Shaped(image[j], j)
    BY LiveFacts
  <2>2. \A v \in Ranges(image[j]) : DOMAIN vas'[v] = DOMAIN vas[v]
    BY <1>1, <1>2, <1>3, <1>5
  <2>3. QED
    BY <2>1, <2>2, PlacedFrame DEF RangesInv, Whole
<1>7. QED
  BY <1>2, <1>5, <1>6 DEF RangesInv

(* ... as an image that is destroyed does.                                  *)
LEMMA RangesDestroy ==
  ASSUME TypeInv, TypeInv', RangesInv, DestroyImage
  PROVE  RangesInv'
<1>1. PICK i \in Live :
        /\ making = NoImage /\ vas' = Finish(image[i]) /\ image' = [image EXCEPT ![i] = NoImage]
        /\ UNCHANGED <<infos, making>>
  BY DEF DestroyImage
<1>2. Live' = Live \ {i} /\ \A j \in infos : j # i => image'[j] = image[j]
  BY <1>1, ImageGone
<1>3. Owners = Live /\ Owners' = Live \ {i}
  BY <1>1, <1>2 DEF Owners
<1>4. Owned(i) = image[i] /\ \A j \in Live \ {i} : Owned(j) = image[j] /\ Ranges(Owned(j))' = Ranges(Owned(j))
  BY <1>2 DEF Owned, Ranges, Held, Live
<1>5. Ledger' = [j \in DOMAIN Ledger \ {i} |-> Ledger[j]]
  BY <1>3, <1>4 DEF Ledger
<1>6. /\ Balanced(Ledger', FreeVas')
      /\ \A v \in Vas : vas'[v] = Free \/ \E n \in Nat : DOMAIN vas'[v] = 0 .. n - 1
      /\ \A j \in Owners : j # i => \A v \in Ranges(Owned(j)) : vas'[v] = vas[v]
  BY <1>1, <1>3, <1>4, <1>5, FinishFacts
<1>7. ASSUME NEW j \in Live' PROVE Whole(image'[j], vas')
  <2>1. j \in Live /\ j # i /\ image'[j] = image[j]
    BY <1>2 DEF Live
  <2>2. j \in Infos /\ image[j] \in ImageType /\ Shaped(image[j], j)
    BY <2>1, LiveFacts
  <2>3. \A v \in Ranges(image[j]) : DOMAIN vas'[v] = DOMAIN vas[v]
    BY <1>3, <1>4, <1>6, <2>1
  <2>4. QED
    BY <2>1, <2>2, <2>3, PlacedFrame DEF RangesInv, Whole
<1>8. QED
  BY <1>1, <1>6, <1>7 DEF RangesInv

IsRange(f, n) == DOMAIN f = 0 .. n - 1

(* A range goes to the image that is being made.                             *)
LEMMA GivenFacts ==
  ASSUME TypeInv, RangesInv, making # NoImage, NEW v \in FreeVas, NEW f, NEW n \in Nat,
         vas' = [vas EXCEPT ![v] = f], IsRange(f, n), infos' = infos,
         Ledger' = [Ledger EXCEPT ![making.info] = @ \cup {v}]
  PROVE  /\ Balanced(Ledger', FreeVas')
         /\ \A w \in Vas : vas'[w] = Free \/ \E k \in Nat : DOMAIN vas'[w] = 0 .. k - 1
         /\ \A j \in Owners : v \notin Ranges(Owned(j)) /\ \A w \in Ranges(Owned(j)) : vas'[w] = vas[w]
         /\ v \in Vas /\ vas'[v] = f
<1>1. v \in Vas /\ vas[v] = Free /\ vas = [w \in Vas |-> vas[w]]
  BY DEF FreeVas, TypeInv
<1>2. vas'[v] = f /\ \A w \in Vas : w # v => vas'[w] = vas[w]
  BY <1>1
<1>3. f # Free
  BY NotFree DEF IsRange
<1>4. FreeVas' = FreeVas \ {v}
  BY <1>2, <1>3 DEF FreeVas
<1>5. making.info \in DOMAIN Ledger /\ Balanced(Ledger, FreeVas)
  BY OwnedFacts DEF RangesInv, Ledger
<1>6. Balanced(Ledger', FreeVas')
  BY <1>1, <1>4, <1>5, Give
<1>7. \A w \in Vas : vas'[w] = Free \/ \E k \in Nat : DOMAIN vas'[w] = 0 .. k - 1
  BY <1>2 DEF RangesInv, IsRange
<1>8. \A j \in Owners : v \notin Ranges(Owned(j))
  BY <1>1, <1>5 DEF Balanced, Ledger
<1>9. \A j \in Owners : \A w \in Ranges(Owned(j)) : w \in Vas /\ w # v
  BY <1>8 DEF Ranges
<1>10. QED
  BY <1>1, <1>2, <1>6, <1>7, <1>8, <1>9

(* Every plane that takes a range is given one, or the image is given up.     *)
LEMMA RangesAllocVa ==
  ASSUME TypeInv, TypeInv', RangesInv, AllocVa
  PROVE  RangesInv'
<1> DEFINE im == making.im
           k  == making.next
           p  == im.planes[k]
           i  == making.info
<1>1. /\ making \in Makings /\ i \in Infos /\ Shaped(im, i)
      /\ k \in 1 .. Len(im.planes) /\ p \in PlaneType
      /\ UNCHANGED <<infos, image>> /\ making # NoImage
  BY AllocVaEffects DEF AllocVa
<1>2. /\ im \in ImageType /\ i \in Owners \ Live /\ Owned(i) = im
      /\ Placed(im, k, vas) /\ NoShadow(im)
      /\ DOMAIN im.planes = 1 .. Len(im.planes) /\ Len(im.planes) \in 1 .. 4
  BY <1>1, OwnedFacts, ShapeFacts DEF Makings, RangesInv
<1>l. k \in Nat /\ k <= Len(im.planes) /\ \A n \in 1 .. Len(im.planes) : n \in Nat /\ ~(k < k)
  BY <1>1, <1>2
<1>3. Live' = Live /\ \A j \in Live : image'[j] = image[j]
  BY <1>1 DEF Live
<1>4. CASE HasVa(im, p) /\ making' = NoImage /\ vas' = Finish(im)
  BY <1>1, <1>4, RangesFail
<1>5. CASE /\ ~HasVa(im, p) /\ making' \in Makings /\ making'.im = im /\ making'.info = i
           /\ making'.next = k + 1 /\ vas' = vas
  <2>1. Placed(im, k + 1, vas)
    <3>1. ASSUME NEW n \in 1 .. Len(im.planes), HasVa(im, im.planes[n])
          PROVE  n < k + 1 <=> n < k
      <4>1. n # k
        BY <1>5, <3>1
      <4>2. n \in Nat /\ k \in Nat
        BY <1>l
      <4>3. QED
        BY <4>1, <4>2
    <3>2. QED
      BY <1>2, <3>1 DEF Placed
  <2>2. Ledger' = Ledger
    <3>1. Owners' = Owners
      BY <1>1, <1>3, <1>5, NoImageType DEF Owners, Makings
    <3>2. \A j \in Owners : Owned(j)' = Owned(j)
      BY <1>1, <1>3, <1>5 DEF Owners, Owned
    <3>3. QED
      BY <3>1, <3>2 DEF Ledger, Ranges, Held
  <2>3. FreeVas' = FreeVas
    BY <1>5 DEF FreeVas
  <2>4. Placed(making'.im, making'.next, vas') /\ NoShadow(making'.im)
    BY <1>2, <1>5, <2>1
  <2>5. \A j \in Live' : Whole(image'[j], vas')
    BY <1>3, <1>5 DEF RangesInv
  <2>6. QED
    BY <1>3, <1>5, <2>2, <2>3, <2>4, <2>5 DEF RangesInv
<1>6. ASSUME NEW v \in FreeVas, HasVa(im, p),
             vas' = [vas EXCEPT ![v] = [o \in 0 .. PlaneSize(im, p) - 1 |-> Unbound]],
             making' \in Makings, Shaped(making'.im, i), making'.info = i, making'.next = k + 1,
             making'.im.planes = [im.planes EXCEPT ![k] = [p EXCEPT !.va = v, !.addr = <<"va", v>>]],
             making'.im.shadow = im.shadow
      PROVE  RangesInv'
  <2> DEFINE size == PlaneSize(im, p)
             f    == [o \in 0 .. size - 1 |-> Unbound]
             q    == [p EXCEPT !.va = v, !.addr = <<"va", v>>]
             new  == making'.im
  <2>1. size \in Nat /\ DOMAIN f = 0 .. size - 1 /\ q.va = v /\ q.nil = p.nil
    BY <1>1, PlaneFacts DEF PlaneType
  <2>2. new \in ImageType /\ making' # NoImage
    BY <1>6, NoImageType DEF Makings
  <2> HIDE DEF q, size, f
  <2>3. /\ DOMAIN new.planes = 1 .. Len(im.planes) /\ new.planes[k] = q
        /\ \A n \in 1 .. Len(im.planes) : n # k => new.planes[n] = im.planes[n]
    BY <1>1, <1>2, <1>6 DEF q
  <2> HIDE DEF new
  <2>4. /\ Len(new.planes) = Len(im.planes) /\ new.sparse = im.sparse /\ new.shadow = im.shadow
    BY <1>1, <1>6 DEF Shaped, new
  <2>5. p.va = "none"
    BY <1>1, <1>2, <1>l DEF Placed
  <2>6. Ranges(new) = Ranges(im) \cup {v}
    <3>1. v \in Vas /\ "none" \notin Vas
      BY ImageAssumption DEF FreeVas
    <3>2. \A w \in Vas : w \in Held(im) <=> \E n \in 1 .. Len(im.planes) : im.planes[n].va = w
      BY <1>2, <3>1 DEF Held, NoShadow
    <3>3. \A w \in Vas : w \in Held(new) <=> \E n \in 1 .. Len(im.planes) : new.planes[n].va = w
      BY <1>2, <2>3, <2>4, <3>1 DEF Held, NoShadow
    <3>4. \A w \in Vas : w \in Held(new) <=> w \in Held(im) \/ w = v
      <4>1. TAKE w \in Vas
      <4>2. new.planes[k].va = v /\ im.planes[k].va # w
        BY <2>1, <2>3, <2>5, <3>1
      <4>3. ASSUME w \in Held(im) PROVE w \in Held(new)
        <5>1. PICK n \in 1 .. Len(im.planes) : im.planes[n].va = w
          BY <3>2, <4>3
        <5>2. n # k
          BY <4>2, <5>1
        <5>3. QED
          BY <2>3, <3>3, <5>1, <5>2
      <4>4. ASSUME w \in Held(new) PROVE w \in Held(im) \/ w = v
        <5>1. PICK n \in 1 .. Len(im.planes) : new.planes[n].va = w
          BY <3>3, <4>4
        <5>2. QED
          BY <2>3, <3>2, <4>2, <5>1
      <4>5. w = v => w \in Held(new)
        BY <1>1, <3>3, <4>2
      <4>6. QED
        BY <4>3, <4>4, <4>5
    <3>5. QED
      BY <3>1, <3>4 DEF Ranges
  <2>7. Ledger' = [Ledger EXCEPT ![i] = @ \cup {v}]
    <3>1. PICK r : r = i
      OBVIOUS
    <3>2. Owners' = Owners /\ Owned(r)' = new /\ r \in Owners
      BY <1>2, <1>3, <1>6, <2>2, <3>1 DEF Owners, Owned, new
    <3>3. Ranges(Owned(r))' = Ranges(new)
      BY <3>2 DEF Ranges, Held
    <3>4. \A j \in Owners : j # r => Owned(j)' = Owned(j)
      BY <1>3, <3>1 DEF Owners, Owned
    <3>5. \A j \in Owners : j # r => Ranges(Owned(j))' = Ranges(Owned(j))
      BY <3>4 DEF Ranges, Held
    <3>6. Ranges(new) = Ranges(Owned(r)) \cup {v}
      BY <1>2, <2>6, <3>1
    <3>7. Ledger' = [Ledger EXCEPT ![r] = @ \cup {v}]
      BY <3>2, <3>3, <3>5, <3>6 DEF Ledger
    <3>8. QED
      BY <3>1, <3>7
  <2>8. /\ Balanced(Ledger', FreeVas')
        /\ \A w \in Vas : vas'[w] = Free \/ \E n \in Nat : DOMAIN vas'[w] = 0 .. n - 1
        /\ \A j \in Owners : v \notin Ranges(Owned(j)) /\ \A w \in Ranges(Owned(j)) : vas'[w] = vas[w]
        /\ v \in Vas /\ vas'[v] = f
    <3>1. vas' = [vas EXCEPT ![v] = f] /\ infos' = infos
      BY <1>1, <1>6 DEF f, size
    <3>2. IsRange(f, size)
      BY <2>1 DEF IsRange
    <3>3. QED
      BY <1>1, <2>1, <2>7, <3>1, <3>2, GivenFacts
  <2>9. v \notin Ranges(im) /\ \A w \in Ranges(im) : vas'[w] = vas[w]
    BY <1>2, <2>8
  <2>10. Placed(new, k + 1, vas')
    <3>0. \A n \in 1 .. Len(im.planes) : im.planes[n].va \in Vas => im.planes[n].va \in Ranges(im)
      BY <1>2 DEF Ranges, Held
    <3>1. ASSUME NEW n \in 1 .. Len(im.planes)
          PROVE  IF HasVa(new, new.planes[n]) /\ n < k + 1
                 THEN new.planes[n].va \in Vas
                      /\ DOMAIN vas'[new.planes[n].va] = 0 .. PlaneSize(new, new.planes[n]) - 1
                 ELSE new.planes[n].va = "none"
      <4>1. n \in Nat /\ k \in Nat
        BY <1>l
      <4>2. CASE n = k
        <5>1. PlaneSize(new, q) = size
          BY <2>1, <2>4 DEF PlaneSize, PlaneAlign, size
        <5>2. HasVa(new, q) /\ n < k + 1
          BY <1>6, <2>1, <2>4, <4>1, <4>2 DEF HasVa
        <5>3. DOMAIN vas'[v] = 0 .. size - 1
          BY <2>1, <2>8
        <5>4. new.planes[n] = q
          BY <2>3, <4>2
        <5>5. QED
          BY <2>1, <2>8, <5>1, <5>2, <5>3, <5>4
      <4>3. CASE n # k
        <5>1. new.planes[n] = im.planes[n] /\ (n < k + 1 <=> n < k)
          BY <2>3, <4>1, <4>3
        <5>2. /\ HasVa(new, im.planes[n]) <=> HasVa(im, im.planes[n])
              /\ PlaneSize(new, im.planes[n]) = PlaneSize(im, im.planes[n])
          BY <2>4 DEF HasVa, PlaneSize, PlaneAlign
        <5>3. IF HasVa(im, im.planes[n]) /\ n < k
              THEN im.planes[n].va \in Vas
                   /\ DOMAIN vas[im.planes[n].va] = 0 .. PlaneSize(im, im.planes[n]) - 1
              ELSE im.planes[n].va = "none"
          BY <1>2 DEF Placed
        <5>4. im.planes[n].va \in Vas => vas'[im.planes[n].va] = vas[im.planes[n].va]
          BY <2>9, <3>0
        <5>5. QED
          BY <5>1, <5>2, <5>3, <5>4
      <4>4. QED
        BY <4>2, <4>3
    <3>2. ASSUME NEW m \in 1 .. Len(im.planes), NEW n \in 1 .. Len(im.planes),
                 new.planes[m].va = new.planes[n].va, new.planes[m].va \in Vas
          PROVE  m = n
      <4>1. CASE m # k /\ n # k
        BY <1>2, <2>3, <3>2, <4>1 DEF Placed
      <4>2. CASE m = k /\ n # k
        BY <2>1, <2>3, <2>9, <3>0, <3>2, <4>2
      <4>3. CASE m # k /\ n = k
        BY <2>1, <2>3, <2>9, <3>0, <3>2, <4>3
      <4>4. QED
        BY <4>1, <4>2, <4>3
    <3>3. QED
      BY <2>4, <3>1, <3>2 DEF Placed
  <2>11. ASSUME NEW j \in Live PROVE Whole(image'[j], vas')
    <3>1. j \in Infos /\ image[j] \in ImageType /\ Shaped(image[j], j) /\ j \in Owners /\ Owned(j) = image[j]
      BY LiveFacts DEF Owners, Owned
    <3>2. \A w \in Ranges(image[j]) : DOMAIN vas'[w] = DOMAIN vas[w]
      BY <2>8, <3>1
    <3>3. QED
      BY <1>3, <3>1, <3>2, PlacedFrame DEF RangesInv, Whole
  <2>12. NoShadow(new)
    BY <1>2, <2>4 DEF NoShadow
  <2>13. QED
    BY <1>3, <1>6, <2>8, <2>10, <2>11, <2>12 DEF RangesInv, new
<1>7. QED
  BY <1>4, <1>5, <1>6, AllocVaEffects

(* The last range is that of the shadow; then the image is there.            *)
LEMMA RangesAllocShadow ==
  ASSUME TypeInv, TypeInv', RangesInv, AllocShadow
  PROVE  RangesInv'
<1>0. making # NoImage
  BY DEF AllocShadow
<1>p. PICK i, im : i = making.info /\ im = making.im
  OBVIOUS
<1>1. /\ making \in Makings /\ i \in infos \ Live /\ i \in Infos /\ Shaped(im, i)
      /\ making.next = Len(im.planes) + 1 /\ making' = NoImage /\ UNCHANGED infos
  BY <1>p, AllocShadowEffects
<1>2. /\ im \in ImageType /\ i \in Owners /\ Owned(i) = im /\ Whole(im, vas) /\ NoShadow(im)
  BY <1>0, <1>1, <1>p, OwnedFacts DEF Makings, RangesInv, Whole
<1>3. CASE vas' = Finish(im) /\ image' = image
  BY <1>0, <1>1, <1>3, <1>p, RangesFail
(* The image is ready: it has new ranges or those it had.                    *)
<1>4. ASSUME NEW new \in ImageType, Shaped(new, i), new.planes = im.planes,
             image' = [image EXCEPT ![i] = new]
      PROVE  /\ Live' = Live \cup {i} /\ Owners' = Owners /\ Owned(i)' = new
             /\ \A j \in Owners : j # i => Owned(j)' = Owned(j)
             /\ \A V : Whole(im, V) => Whole(new, V)
  <2>1. Live' = Live \cup {i} /\ image'[i] = new /\ \A j \in infos : j # i => image'[j] = image[j]
    BY <1>1, <1>4, ImagePut
  <2>2. Owners' = Owners
    BY <1>0, <1>1, <1>p, <2>1 DEF Owners
  <2>3. \A j \in Live : j \in infos
    BY DEF Live
  <2>4. Owned(i)' = new /\ \A j \in Owners : j # i => Owned(j)' = Owned(j)
    BY <1>1, <1>p, <2>1, <2>3 DEF Owned, Owners
  <2>5. \A V : Whole(im, V) => Whole(new, V)
    <3>1. new.sparse = im.sparse
      BY <1>1, <1>4 DEF Shaped
    <3>2. \A p : HasVa(new, p) = HasVa(im, p) /\ PlaneSize(new, p) = PlaneSize(im, p)
      BY <3>1 DEF HasVa, PlaneSize, PlaneAlign
    <3>3. QED
      BY <1>4, <3>2 DEF Whole, Placed
  <2>6. QED
    BY <2>1, <2>2, <2>4, <2>5
<1>5. CASE vas' = vas /\ image' = [image EXCEPT ![i] = im]
  <2>1. /\ Live' = Live \cup {i} /\ Owners' = Owners /\ Owned(i)' = im
        /\ \A j \in Owners : j # i => Owned(j)' = Owned(j)
    BY <1>1, <1>2, <1>4, <1>5
  <2>2. Ledger' = Ledger /\ FreeVas' = FreeVas
    BY <1>2, <1>5, <2>1 DEF Ledger, Ranges, Held, FreeVas
  <2>3. \A j \in Live' : image'[j] = IF j = i THEN im ELSE image[j]
    BY <2>1, OwnedFacts DEF Owned, Owners
  <2>4. \A j \in Live' : Whole(image'[j], vas')
    BY <1>2, <1>5, <2>1, <2>3 DEF RangesInv
  <2>5. QED
    BY <1>1, <1>5, <2>2, <2>4 DEF RangesInv
<1>6. ASSUME NEW v \in FreeVas, NEW n \in Nat, NEW new \in ImageType,
             Shaped(new, i), new.planes = im.planes, DOMAIN new.shadow = {1}, new.shadow[1].va = v,
             vas' = [vas EXCEPT ![v] = [o \in 0 .. n - 1 |-> <<"own", o>>]],
             image' = [image EXCEPT ![i] = new]
      PROVE  RangesInv'
  <2> DEFINE f == [o \in 0 .. n - 1 |-> <<"own", o>>]
  <2>1. /\ Live' = Live \cup {i} /\ Owners' = Owners /\ Owned(i)' = new
        /\ \A j \in Owners : j # i => Owned(j)' = Owned(j)
        /\ \A V : Whole(im, V) => Whole(new, V)
    BY <1>4, <1>6
  <2>2. Ranges(new) = Ranges(im) \cup {v}
    <3>1. v \in Vas /\ "none" \notin Vas
      BY ImageAssumption DEF FreeVas
    <3>2. \A w \in Vas : w \in Held(im) <=> \E k \in DOMAIN im.planes : im.planes[k].va = w
      BY <1>2, <3>1 DEF Held, NoShadow
    <3>3. \A w \in Vas : w \in Held(new) <=> w = v \/ \E k \in DOMAIN im.planes : im.planes[k].va = w
      BY <1>6 DEF Held
    <3>4. QED
      BY <3>1, <3>2, <3>3 DEF Ranges
  <2>3. Ledger' = [Ledger EXCEPT ![i] = @ \cup {v}]
    <3>1. Ranges(Owned(i))' = Ranges(new)
      BY <2>1 DEF Ranges, Held
    <3>2. \A j \in Owners : j # i => Ranges(Owned(j))' = Ranges(Owned(j))
      BY <2>1 DEF Ranges, Held
    <3>3. QED
      BY <1>2, <2>1, <2>2, <3>1, <3>2 DEF Ledger
  <2>4. IsRange(f, n)
    BY DEF IsRange
  <2>5. vas' = [vas EXCEPT ![v] = f] /\ infos' = infos /\ Ledger' = [Ledger EXCEPT ![making.info] = @ \cup {v}]
    BY <1>1, <1>6, <1>p, <2>3
  <2> HIDE DEF f
  <2>6. /\ Balanced(Ledger', FreeVas')
        /\ \A w \in Vas : vas'[w] = Free \/ \E k \in Nat : DOMAIN vas'[w] = 0 .. k - 1
        /\ \A j \in Owners : v \notin Ranges(Owned(j)) /\ \A w \in Ranges(Owned(j)) : vas'[w] = vas[w]
    BY <1>0, <2>4, <2>5, GivenFacts
  <2>7. Whole(new, vas')
    <3>1. \A w \in Ranges(im) : DOMAIN vas'[w] = DOMAIN vas[w]
      BY <1>2, <2>6
    <3>2. Whole(im, vas')
      BY <1>1, <1>2, <3>1, PlacedFrame DEF Whole
    <3>3. QED
      BY <2>1, <3>2
  <2>8. ASSUME NEW j \in Live PROVE Whole(image[j], vas')
    <3>1. j \in Infos /\ image[j] \in ImageType /\ Shaped(image[j], j) /\ j \in Owners /\ Owned(j) = image[j]
      BY LiveFacts DEF Owners, Owned
    <3>2. \A w \in Ranges(image[j]) : DOMAIN vas'[w] = DOMAIN vas[w]
      BY <2>6, <3>1
    <3>3. QED
      BY <3>1, <3>2, PlacedFrame DEF RangesInv, Whole
  <2>9. \A j \in Live' : image'[j] = IF j = i THEN new ELSE image[j]
    BY <2>1, OwnedFacts DEF Owned, Owners
  <2>10. \A j \in Live' : Whole(image'[j], vas')
    BY <2>1, <2>7, <2>8, <2>9
  <2>11. QED
    BY <1>1, <2>6, <2>10 DEF RangesInv
<1>7. QED
  BY <1>3, <1>5, <1>6, <1>p, AllocShadowEffects

(* Every step keeps the ranges of images apart and accounted for.            *)
LEMMA RangesStep ==
  ASSUME TypeInv, ToldInv, RangesInv, [Next]_vars
  PROVE  RangesInv'
<1>0. TypeInv'
  BY TypeStep
<1>1. CASE UNCHANGED <<infos, image, vas, making>>
  <2>1. Live' = Live /\ \A j \in Live : SameRanges(image'[j], image[j])
    BY <1>1 DEF Live, SameRanges
  <2>2. QED
    BY <1>0, <1>1, <2>1, RangesKept
<1>2. CASE BindImageMemory
  <2>1. PICK i \in Live, m \in Mems, n \in 1 .. 3, offset \in Nat, bound \in 0 .. 4, new \in ImageType :
          Bound(i, m, n, offset, bound, new)
    BY <1>2, BindEffects
  <2>2. QED
    BY <1>0, <2>1, RangesBound
<1>3. CASE BindSwapchainImage
  <2>1. PICK i \in Live, new \in ImageType :
           /\ Shaped(new, i) /\ new.shadow = image[i].shadow
           /\ \A x \in 1 .. Len(image[i].planes) : new.planes[x].va = image[i].planes[x].va
           /\ image' = [image EXCEPT ![i] = new] /\ UNCHANGED <<infos, vas, making>>
    BY <1>3, SwapchainEffects
  <2>2. i \in infos
    BY DEF Live
  <2>3. Live' = Live \cup {i} /\ image'[i] = new /\ \A j \in infos : j # i => image'[j] = image[j]
    BY <2>1, <2>2, ImagePut
  <2>4. Live' = Live /\ \A j \in Live : SameRanges(image'[j], image[j])
    BY <2>1, <2>3 DEF SameRanges, Live
  <2>5. QED
    BY <1>0, <2>1, <2>4, RangesKept
<1>4. ASSUME NEW i, NEW bind, NEW kind, NEW m, Bindable(i), OpaqueBind(i, bind, kind, m)
      PROVE  RangesInv'
  <2>1. i \in Live
    BY <1>4 DEF Bindable
  <2>2. QED
    BY <1>0, <1>4, <2>1, RangesOpaque
<1>5. CASE QueueOpaqueBind \/ QueueMipTailBind
  <2>1. PICK i, bind, kind, m : Bindable(i) /\ OpaqueBind(i, bind, kind, m)
    BY <1>5 DEF QueueOpaqueBind, QueueMipTailBind
  <2>2. QED
    BY <1>4, <2>1
<1>6. CASE GetPhysicalDeviceImageFormatProperties2 \/ BindBegin \/ BindEnd \/ UNCHANGED vars
  BY <1>1, <1>6 DEF GetPhysicalDeviceImageFormatProperties2, BindBegin, BindEnd, vars
<1>7. QED
  BY <1>0, <1>2, <1>3, <1>5, <1>6, RangesCreate, RangesAllocVa, RangesAllocShadow, RangesDestroy,
     RangesTiles DEF Next

-----------------------------------------------------------------------------
(* The image invariant. *)

ImageInv == TypeInv /\ ToldInv /\ RangesInv

(* At first there are no images and all ranges are free, ...                 *)
LEMMA InitInv == Init => ImageInv
<1> SUFFICES ASSUME Init PROVE ImageInv
  OBVIOUS
<1>1. /\ infos \in Scenarios /\ image = [i \in infos |-> NoImage] /\ vas = [v \in Vas |-> Free]
      /\ making = NoImage /\ told = {} /\ batch = NoBatch
      /\ queue = [binds |-> 0, lost |-> FALSE, last |-> <<>>] /\ query = <<>>
  BY DEF Init
<1>2. Live = {}
  BY <1>1 DEF Live
<1>3. TypeInv
  <2>1. 0 \in 0 .. MaxBinds
    BY ImageAssumption
  <2>2. batch \in [parts : SUBSET Some, result : {"ok", "error"}, open : BOOLEAN]
    BY <1>1 DEF NoBatch
  <2>3. vas = [v \in Vas |-> vas[v]] /\ image \in [infos -> ImageType \cup {NoImage}]
        /\ told \subseteq Some
    BY <1>1
  <2>4. queue = [binds |-> queue.binds, lost |-> queue.lost, last |-> queue.last] /\ queue.binds = 0
    BY <1>1
  <2>5. QED
    BY <1>1, <1>2, <2>1, <2>2, <2>3, <2>4 DEF TypeInv
<1>4. ToldInv
  BY <1>1 DEF ToldInv, NoBatch
<1>5. RangesInv
  <2>1. \A v \in Vas : vas[v] = Free
    BY <1>1
  <2>2. DOMAIN Ledger = {} /\ FreeVas = Vas
    BY <1>1, <1>2 DEF Ledger, Owners, FreeVas
  <2>3. Balanced(Ledger, FreeVas)
    BY <2>2 DEF Balanced
  <2>4. QED
    BY <1>1, <1>2, <2>1, <2>3 DEF RangesInv
<1>6. QED
  BY <1>3, <1>4, <1>5 DEF ImageInv

(* ... and every step keeps the account.                                     *)
LEMMA NextInv == ImageInv /\ [Next]_vars => ImageInv'
BY TypeStep, RangesStep DEF ImageInv

(* The invariant holds of every behaviour.                                   *)
LEMMA Invariant == Spec => []ImageInv
BY InitInv, NextInv, PTL DEF Spec

(* Types: a plane that takes a range has one that is in use, no other has     *)
(* (TypeOK).                                                                *)
THEOREM TypeCorrect == Spec => []TypeOK
<1>1. ImageInv => TypeOK
  <2> SUFFICES ASSUME ImageInv PROVE TypeOK
    OBVIOUS
  <2>1. TypeInv /\ ToldInv /\ RangesInv
    BY DEF ImageInv
  <2>2. /\ infos \in Scenarios /\ told \subseteq infos \X (1 .. 3) /\ queue.binds \in 0 .. MaxBinds
        /\ making = NoImage \/ making.info \in infos \ Live
    BY <2>1 DEF TypeInv, Some
  <2>3. ASSUME NEW i \in Live, NEW n \in DOMAIN image[i].planes
        PROVE  LET p == image[i].planes[n]
               IN IF image[i].sparse \/ p.nil.kind # 0 THEN p.va \in Vas /\ vas[p.va] # Free ELSE p.va = "none"
    <3>1. i \in Infos /\ image[i] \in ImageType /\ Shaped(image[i], i)
      BY <2>1, LiveFacts
    <3>2. n \in 1 .. Len(image[i].planes)
      BY <3>1, ShapeFacts
    <3>3. CASE HasVa(image[i], image[i].planes[n])
      BY <2>1, <3>2, <3>3, PlaneInUse DEF HasVa
    <3>4. CASE ~HasVa(image[i], image[i].planes[n])
      <4>1. image[i].planes[n].va = "none"
        BY <2>1, <3>2, <3>4 DEF RangesInv, Whole, Placed
      <4>2. QED
        BY <3>4, <4>1 DEF HasVa
    <3>5. QED
      BY <3>3, <3>4
  <2>4. QED
    BY <2>2, <2>3 DEF TypeOK
<1>2. QED
  BY <1>1, Invariant, PTL

(* Wherever a creation fails, and whatever is destroyed: a range is in use if *)
(* and only if an image, or the one being made, holds it, and no two do       *)
(* (RangesAccounted).                                                       *)
THEOREM RangesCorrect == Spec => []RangesAccounted
<1>1. ImageInv => RangesAccounted
  <2> SUFFICES ASSUME ImageInv PROVE RangesAccounted
    OBVIOUS
  <2>1. TypeInv /\ Balanced(Ledger, FreeVas)
    BY DEF ImageInv, RangesInv
  <2>2. Images = {Owned(i) : i \in Owners}
    <3>1. \A i \in Live : Owned(i) = image[i]
      BY DEF Owned
    <3>2. making # NoImage => Owned(making.info) = making.im
      BY <2>1, OwnedFacts
    <3>3. QED
      BY <3>1, <3>2 DEF Images, Owners
  <2>3. ASSUME NEW v \in Vas PROVE vas[v] # Free <=> \E im \in Images : v \in Held(im)
    <3>1. vas[v] # Free <=> \E i \in Owners : v \in Ranges(Owned(i))
      BY <2>1 DEF Balanced, Ledger, FreeVas
    <3>2. QED
      BY <2>2, <3>1 DEF Ranges
  <2>4. ASSUME NEW v \in Vas PROVE Cardinality({im \in Images : v \in Held(im)}) <= 1
    <3> DEFINE S == {im \in Images : v \in Held(im)}
    <3>1. ASSUME NEW a \in S, NEW b \in S PROVE a = b
      <4>1. PICK i \in Owners, j \in Owners : a = Owned(i) /\ b = Owned(j)
        BY <2>2
      <4>2. v \in Ranges(Owned(i)) /\ v \in Ranges(Owned(j))
        BY <4>1 DEF Ranges
      <4>3. i = j
        BY <2>1, <4>2 DEF Balanced, Ledger
      <4>4. QED
        BY <4>1, <4>3
    <3> HIDE DEF S
    <3>2. S = {} \/ \E a : S = {a}
      BY <3>1
    <3>3. QED
      BY <3>2, FS_EmptySet, FS_Singleton, SMTT(30) DEF S
  <2>5. QED
    BY <2>3, <2>4 DEF RangesAccounted
<1>2. QED
  BY <1>1, Invariant, PTL

-----------------------------------------------------------------------------
(* What is supported. *)

(* A format that is not YCbCr has a single plane.                            *)
LEMMA OnePlane ==
  ASSUME NEW format, IsFormat(format), ~format.ycbcr
  PROVE  Len(format.planes) = 1
<1>1. PICK L : L = Len(format.planes)
  OBVIOUS
<1>2. L \in 1 .. 3 /\ ~(L > 1)
  BY <1>1 DEF IsFormat
<1>3. L = 1
  BY <1>2
<1>4. QED
  BY <1>1, <1>3

(* The modifier matters to DRM images only.                                  *)
LEMMA ModifierOfDrm ==
  ASSUME NEW format, NEW tiling, tiling # "drm", NEW m, NEW n
  PROVE  AllPlanes(format, tiling, m) = AllPlanes(format, tiling, n)
<1>1. \A p : PlaneFeatures(p, tiling, m) = PlaneFeatures(p, tiling, n)
  BY DEF PlaneFeatures
<1>2. QED
  BY <1>1 DEF AllPlanes

(* A sparse image that is supported has a block, unless its usage was taken   *)
(* on trust.                                                                *)
LEMMA SparseQuery ==
  ASSUME NEW i, IsQuery(i), Supported(i), {"binding", "residency"} \subseteq i.flags
  PROVE  SparseAssertions(i) /\ (i.tiling # "drm" /\ "extended" \notin i.flags => SparseBlock(i))
<1>1. ~i.format.ycbcr /\ IsFormat(i.format)
  BY DEF IsQuery, Supported, PlanesSupported, Sparse
<1>2. Len(i.format.planes) = 1
  BY <1>1, OnePlane
<1>3. ASSUME i.tiling # "drm", "extended" \notin i.flags PROVE SparseBlock(i)
  <2> DEFINE sparse == [i EXCEPT !.flags = {"binding", "residency"}, !.handle = "none", !.mod = "invalid"]
  <2>1. /\ sparse.format = i.format /\ sparse.tiling = i.tiling /\ sparse.type = i.type
        /\ sparse.flags = {"binding", "residency"} /\ sparse.usage = i.usage /\ sparse.handle = "none"
        /\ sparse.mod = "invalid" /\ i.multisampled = FALSE
    BY DEF IsQuery
  <2> HIDE DEF sparse
  <2>2. AllPlanes(i.format, i.tiling, "invalid") = AllPlanes(i.format, i.tiling, i.mod)
    BY <1>3, ModifierOfDrm
  <2>3. AllPlanes(sparse.format, sparse.tiling, sparse.mod) # {}
        /\ (sparse.tiling \in {"linear", "drm"} => sparse.type = "2D")
    BY <2>1, <2>2 DEF Supported
  <2>4. SparseSupported(sparse)
    BY <2>1 DEF Supported, SparseSupported
  <2>5. PlanesSupported(sparse) /\ HandleSupported(sparse)
    BY <1>1, <2>1 DEF PlanesSupported, HandleSupported
  <2>6. UsageSupported(sparse)
    BY <1>3, <2>1, <2>2 DEF Supported, UsageSupported
  <2>7. Supported(sparse)
    BY <2>3, <2>4, <2>5, <2>6 DEF Supported
  <2>8. QED
    BY <2>1, <2>7 DEF SparseBlock, sparse
<1>4. QED
  BY <1>2, <1>3 DEF SparseAssertions

(* An image can be made with any modifier that is listed.                    *)
LEMMA ModifierQuery ==
  ASSUME NEW i, IsQuery(i), NEW m \in ModifierList(i.format), NEW u,
         FormatFeatures(i.format, "drm", m) \cap UsageFeatures(u) # {}
  PROVE  /\ Supported([i EXCEPT !.tiling = "drm", !.mod = m, !.type = "2D", !.flags = {},
                                !.usage = {u}, !.handle = "dma_buf"])
         /\ ModifierAssertions([i EXCEPT !.tiling = "drm"])
<1> DEFINE of   == [i EXCEPT !.tiling = "drm", !.mod = m, !.type = "2D", !.flags = {},
                             !.usage = {u}, !.handle = "dma_buf"]
           same == [i EXCEPT !.tiling = "drm"]
<1>1. ~i.format.ycbcr /\ IsFormat(i.format)
  BY DEF ModifierList, IsQuery
<1>2. Len(i.format.planes) = 1
  BY <1>1, OnePlane
<1>3. FormatFeatures(i.format, "drm", m) = AllPlanes(i.format, "drm", m)
  BY <1>1 DEF FormatFeatures
<1>4. /\ of.format = i.format /\ of.tiling = "drm" /\ of.mod = m /\ of.type = "2D" /\ of.flags = {}
      /\ of.usage = {u} /\ of.handle = "dma_buf" /\ same.format = i.format
  BY DEF IsQuery
<1> HIDE DEF of, same
<1>5. AllPlanes(of.format, of.tiling, of.mod) \cap UsageFeatures(u) # {}
  BY <1>3, <1>4
<1>6. SparseSupported(of) /\ PlanesSupported(of) /\ UsageSupported(of) /\ HandleSupported(of)
  BY <1>1, <1>4, <1>5 DEF SparseSupported, PlanesSupported, UsageSupported, HandleSupported, Sparse
<1>7. Supported(of)
  BY <1>4, <1>5, <1>6 DEF Supported
<1>8. ModifierAssertions(same)
  BY <1>2, <1>4 DEF ModifierAssertions
<1>9. QED
  BY <1>7, <1>8 DEF of, same

(* What the queries answer, of any format and any combination, creation can   *)
(* keep: a sparse image has a single plane and a block to bind it by, and an  *)
(* image can be made with every modifier listed (QueriesKept).  Usage that is *)
(* left unchecked, for views of other formats, is only checked by the query   *)
(* for the block, which takes no flags.                                     *)
THEOREM QueriesCorrect ==
  ASSUME \A i \in Queries : "extended" \notin i.flags
  PROVE  Spec => []QueriesKept
<1>1. ImageInv => QueriesKept
  <2> SUFFICES ASSUME ImageInv, query # <<>> PROVE QueriesKept
    BY DEF QueriesKept, SparseSinglePlane, ListedModifiersSupported
  <2>1. query \in Queries /\ IsQuery(query) /\ "extended" \notin query.flags
    BY ImageAssumption DEF ImageInv, TypeInv
  <2>2. SparseSinglePlane
    BY <2>1, SparseQuery DEF SparseSinglePlane
  <2>3. ListedModifiersSupported
    BY <2>1, ModifierQuery DEF ListedModifiersSupported
  <2>4. QED
    BY <2>2, <2>3 DEF QueriesKept
<1>2. QED
  BY <1>1, Invariant, PTL
==============================================================================
