------------------------- MODULE NvkImageBindingProofs -------------------------
(***************************************************************************)
(* Proofs about the bindings of NvkImage: where the planes of an image that *)
(* is bound lie, and what the GPU and the host find there.                  *)
(***************************************************************************)
EXTENDS NvkImageProofs

-----------------------------------------------------------------------------
(* Multiples and alignments. *)

(* A multiple of a number leaves no remainder.                               *)
LEMMA Multiple ==
  ASSUME NEW a \in Nat \ {0}, NEW n \in Nat
  PROVE  n % a = 0 <=> \E q \in Nat : n = q * a
<1>1. n = (n \div a) * a + (n % a) /\ n \div a \in Nat /\ n % a \in 0 .. a - 1
  OBVIOUS
<1>2. ASSUME NEW q \in Nat, n = q * a PROVE n % a = 0
  <2>1. PICK d, r : d = n \div a /\ r = n % a
    OBVIOUS
  <2>2. d \in Nat /\ r \in Nat /\ r < a /\ q * a = d * a + r
    BY <1>1, <1>2, <2>1
  <2>3. ~(q > d)
    <3>1. ASSUME q > d PROVE FALSE
      <4>1. q * a >= (d + 1) * a
        BY <2>2, <3>1
      <4>2. (d + 1) * a = d * a + a
        BY <2>2
      <4>3. QED
        BY <2>2, <4>1, <4>2
    <3>2. QED
      BY <3>1
  <2>4. ~(q < d)
    <3>1. ASSUME q < d PROVE FALSE
      <4>1. d * a >= (q + 1) * a
        BY <2>2, <3>1
      <4>2. (q + 1) * a = q * a + a
        OBVIOUS
      <4>3. QED
        BY <2>2, <4>1, <4>2
    <3>2. QED
      BY <3>1
  <2>5. r = 0
    BY <2>2, <2>3, <2>4
  <2>6. QED
    BY <2>1, <2>5
<1>3. ASSUME n % a = 0 PROVE \E q \in Nat : n = q * a
  <2>1. PICK d : d = n \div a
    OBVIOUS
  <2>2. d \in Nat /\ n = d * a
    BY <1>1, <1>3, <2>1
  <2>3. QED
    BY <2>2
<1>4. QED
  BY <1>2, <1>3

(* What divides a divisor divides a number, ...                              *)
LEMMA Divisible ==
  ASSUME NEW a \in Nat \ {0}, NEW b \in Nat \ {0}, NEW n \in Nat, b % a = 0, n % b = 0
  PROVE  n % a = 0
<1>1. PICK q \in Nat : n = q * b
  BY Multiple
<1>2. PICK r \in Nat : b = r * a
  BY Multiple
<1>3. n = (q * r) * a /\ q * r \in Nat
  BY <1>1, <1>2
<1>4. QED
  BY <1>3, Multiple

(* ... and what divides two numbers divides their sum.                       *)
LEMMA SumMultiple ==
  ASSUME NEW a \in Nat \ {0}, NEW m \in Nat, NEW n \in Nat, m % a = 0, n % a = 0
  PROVE  (m + n) % a = 0
<1>1. PICK q \in Nat : m = q * a
  BY Multiple
<1>2. PICK r \in Nat : n = r * a
  BY Multiple
<1>3. m + n = (q + r) * a /\ q + r \in Nat /\ m + n \in Nat
  BY <1>1, <1>2
<1>4. QED
  BY <1>3, Multiple

(* An aligned number is a multiple, and a multiple is aligned.               *)
LEMMA AlignMultiple ==
  ASSUME NEW a \in Nat \ {0}, NEW n \in Nat
  PROVE  Align(n, a) % a = 0 /\ (n % a = 0 => Align(n, a) = n)
<1> DEFINE q == (n + a - 1) \div a
<1>1. q \in Nat /\ Align(n, a) = q * a /\ Align(n, a) \in Nat
  BY DEF Align
<1>2. ASSUME n % a = 0 PROVE Align(n, a) = n
  <2>1. PICK r \in Nat : n = r * a
    BY <1>2, Multiple
  <2>2. (r * a + (a - 1)) \div a = r
    OBVIOUS
  <2>3. q = r
    BY <2>1, <2>2
  <2>4. QED
    BY <1>1, <2>1, <2>3
<1> HIDE DEF q
<1>3. QED
  BY <1>1, <1>2, Multiple

(* A multiple passes through an alignment.                                   *)
LEMMA AlignShift ==
  ASSUME NEW a \in Nat \ {0}, NEW n \in Nat, NEW s \in Nat, n % a = 0
  PROVE  Align(n + s, a) = n + Align(s, a)
<1>1. PICK r \in Nat : n = r * a
  BY Multiple
<1>2. (r * a + (s + a - 1)) \div a = r + (s + a - 1) \div a
  OBVIOUS
<1>3. PICK t : t = (s + a - 1) \div a
  OBVIOUS
<1>4. t \in Nat
  BY <1>3
<1>5. Align(n + s, a) = (r + t) * a
  <2>1. n + s + a - 1 = r * a + (s + a - 1)
    BY <1>1
  <2>2. QED
    BY <1>2, <1>3, <2>1 DEF Align
<1>6. (r + t) * a = r * a + t * a
  BY <1>4
<1>7. QED
  BY <1>1, <1>3, <1>5, <1>6 DEF Align

(* The parts behind the first start behind it, in their order.               *)
LEMMA StartsRise ==
  ASSUME NEW parts, NEW from \in Nat, Chunks(parts)
  PROVE  \A j, k \in 1 .. Len(parts) + 1 : j <= k => Starts(parts, from)[j] <= Starts(parts, from)[k]
<1> DEFINE s == Starts(parts, from)
<1>1. PICK L : L = Len(parts)
  OBVIOUS
<1>2. L \in 0 .. 4
  BY <1>1 DEF Chunks
<1>3. /\ \A n \in 1 .. L : s[n + 1] = Align(s[n], parts[n].align) + parts[n].size
      /\ \A n \in 1 .. L + 1 : s[n] \in Nat
  BY <1>1, StartsFacts
<1> HIDE DEF s
<1>4. ASSUME NEW n \in 1 .. L PROVE s[n] <= s[n + 1]
  <2>1. parts[n].size \in Nat /\ parts[n].align \in Nat \ {0}
    BY <1>1 DEF Chunks
  <2>2. s[n] \in Nat
    BY <1>2, <1>3
  <2>3. Align(s[n], parts[n].align) \in Nat /\ Align(s[n], parts[n].align) >= s[n]
    BY <2>1, <2>2, AlignFacts
  <2>4. QED
    BY <1>3, <2>1, <2>2, <2>3
<1>5. /\ L >= 1 => s[1] <= s[2]
      /\ L >= 2 => s[2] <= s[3]
      /\ L >= 3 => s[3] <= s[4]
      /\ L >= 4 => s[4] <= s[5]
  <2>1. \A n \in {1, 2, 3, 4} : L >= n => n \in 1 .. L
    BY <1>2
  <2>2. \A n \in {1, 2, 3, 4} : L >= n => s[n] <= s[n + 1]
    BY <1>4, <2>1
  <2>3. 1 + 1 = 2 /\ 2 + 1 = 3 /\ 3 + 1 = 4 /\ 4 + 1 = 5
    OBVIOUS
  <2>4. QED
    BY <2>2, <2>3
<1>6. ASSUME NEW j \in 1 .. L + 1, NEW k \in 1 .. L + 1, j <= k PROVE s[j] <= s[k]
  <2>1. j \in {1, 2, 3, 4, 5} /\ k \in {1, 2, 3, 4, 5} /\ k - 1 <= L /\ k \in Nat
    BY <1>2
  <2>2. \A n \in {1, 2, 3, 4, 5} : n <= k => s[n] \in Nat
    BY <1>2, <1>3, <2>1
  <2>3. QED
    BY <1>2, <1>5, <1>6, <2>1, <2>2
<1>7. QED
  BY <1>1, <1>6 DEF s

(* Parts that start at a multiple of their alignments lie as they lie from 0.  *)
LEMMA StartsShift ==
  ASSUME NEW parts, NEW from \in Nat, Chunks(parts),
         \A k \in 1 .. Len(parts) : from % parts[k].align = 0
  PROVE  \A n \in 1 .. Len(parts) + 1 : Starts(parts, from)[n] = from + Starts(parts, 0)[n]
<1> DEFINE s == Starts(parts, from)
           z == Starts(parts, 0)
<1>1. PICK L : L = Len(parts)
  OBVIOUS
<1>2. L \in 0 .. 4
  BY <1>1 DEF Chunks
<1>3. /\ \A n \in 1 .. L : s[n + 1] = Align(s[n], parts[n].align) + parts[n].size
      /\ \A n \in 1 .. L : z[n + 1] = Align(z[n], parts[n].align) + parts[n].size
      /\ \A n \in 1 .. L + 1 : z[n] \in Nat
      /\ s[1] = from /\ z[1] = 0
  BY <1>1, StartsFacts
<1> HIDE DEF s, z
<1>4. ASSUME NEW n \in 1 .. L, s[n] = from + z[n] PROVE s[n + 1] = from + z[n + 1]
  <2>1. parts[n].size \in Nat /\ parts[n].align \in Nat \ {0} /\ from % parts[n].align = 0
    BY <1>1 DEF Chunks
  <2>2. z[n] \in Nat
    BY <1>2, <1>3
  <2>3. Align(s[n], parts[n].align) = from + Align(z[n], parts[n].align)
    <3>1. PICK a, y : a = parts[n].align /\ y = z[n]
      OBVIOUS
    <3>2. a \in Nat \ {0} /\ y \in Nat /\ from % a = 0
      BY <2>1, <2>2, <3>1
    <3>3. Align(from + y, a) = from + Align(y, a)
      BY <3>2, AlignShift
    <3>4. QED
      BY <1>4, <3>1, <3>3
  <2>4. Align(z[n], parts[n].align) \in Nat
    BY <2>1, <2>2, AlignFacts
  <2>5. QED
    BY <1>3, <2>1, <2>3, <2>4
<1>5. /\ s[1] = from + z[1]
      /\ L >= 1 => s[2] = from + z[2]
      /\ L >= 2 => s[3] = from + z[3]
      /\ L >= 3 => s[4] = from + z[4]
      /\ L >= 4 => s[5] = from + z[5]
  <2>1. \A n \in {1, 2, 3, 4} : L >= n => n \in 1 .. L
    BY <1>2
  <2>2. \A n \in {1, 2, 3, 4} : L >= n /\ s[n] = from + z[n] => s[n + 1] = from + z[n + 1]
    BY <1>4, <2>1
  <2>3. 1 + 1 = 2 /\ 2 + 1 = 3 /\ 3 + 1 = 4 /\ 4 + 1 = 5 /\ L \in Nat
    BY <1>2
  <2>4. s[1] = from + z[1]
    BY <1>3
  <2>5. L >= 1 => s[2] = from + z[2]
    BY <2>2, <2>3, <2>4
  <2>6. L >= 2 => s[3] = from + z[3]
    BY <2>2, <2>3, <2>5
  <2>7. L >= 3 => s[4] = from + z[4]
    BY <2>2, <2>3, <2>6
  <2>8. L >= 4 => s[5] = from + z[5]
    BY <2>2, <2>3, <2>7
  <2>9. QED
    BY <2>4, <2>5, <2>6, <2>7, <2>8
<1>6. ASSUME NEW n \in 1 .. L + 1 PROVE s[n] = from + z[n]
  <2>1. n \in {1, 2, 3, 4, 5} /\ L >= n - 1
    BY <1>2
  <2>2. QED
    BY <1>2, <1>5, <2>1
<1>7. QED
  BY <1>1, <1>6 DEF s, z

(* Parts in front of others lie as they lie alone.                            *)
LEMMA StartsPrefix ==
  ASSUME NEW parts, NEW short, Chunks(parts), Chunks(short), Len(short) <= Len(parts),
         \A k \in 1 .. Len(short) : short[k].size = parts[k].size /\ short[k].align = parts[k].align
  PROVE  \A n \in 1 .. Len(short) + 1 : Starts(short, 0)[n] = Starts(parts, 0)[n]
<1> DEFINE s == Starts(short, 0)
           z == Starts(parts, 0)
<1>1. PICK L, M : L = Len(short) /\ M = Len(parts)
  OBVIOUS
<1>2. L \in 0 .. 4 /\ M \in 0 .. 4 /\ L <= M
  BY <1>1 DEF Chunks
<1>3. /\ \A n \in 1 .. L : s[n + 1] = Align(s[n], short[n].align) + short[n].size
      /\ \A n \in 1 .. M : z[n + 1] = Align(z[n], parts[n].align) + parts[n].size
      /\ s[1] = 0 /\ z[1] = 0
  BY <1>1, StartsFacts
<1> HIDE DEF s, z
<1>4. ASSUME NEW n \in 1 .. L, s[n] = z[n] PROVE s[n + 1] = z[n + 1]
  <2>1. n \in 1 .. M
    BY <1>2
  <2>2. QED
    BY <1>1, <1>3, <1>4, <2>1
<1>5. /\ s[1] = z[1]
      /\ L >= 1 => s[2] = z[2]
      /\ L >= 2 => s[3] = z[3]
      /\ L >= 3 => s[4] = z[4]
      /\ L >= 4 => s[5] = z[5]
  <2>1. \A n \in {1, 2, 3, 4} : L >= n => n \in 1 .. L
    BY <1>2
  <2>2. \A n \in {1, 2, 3, 4} : L >= n /\ s[n] = z[n] => s[n + 1] = z[n + 1]
    BY <1>4, <2>1
  <2>3. 1 + 1 = 2 /\ 2 + 1 = 3 /\ 3 + 1 = 4 /\ 4 + 1 = 5 /\ L \in Nat
    BY <1>2
  <2>4. s[1] = z[1]
    BY <1>3
  <2>5. L >= 1 => s[2] = z[2]
    BY <2>2, <2>3, <2>4
  <2>6. L >= 2 => s[3] = z[3]
    BY <2>2, <2>3, <2>5
  <2>7. L >= 3 => s[4] = z[4]
    BY <2>2, <2>3, <2>6
  <2>8. L >= 4 => s[5] = z[5]
    BY <2>2, <2>3, <2>7
  <2>9. QED
    BY <2>4, <2>5, <2>6, <2>7, <2>8
<1>6. ASSUME NEW n \in 1 .. L + 1 PROVE s[n] = z[n]
  <2>1. n \in {1, 2, 3, 4, 5} /\ L >= n - 1
    BY <1>2
  <2>2. QED
    BY <1>2, <1>5, <2>1
<1>7. QED
  BY <1>1, <1>6 DEF s, z

(* Parts of whole alignments, each no coarser than the one before, need no    *)
(* room between them.                                                       *)
LEMMA StartsAligned ==
  ASSUME NEW parts, Chunks(parts),
         \A k \in 1 .. Len(parts) : parts[k].size % parts[k].align = 0,
         \A k \in 2 .. Len(parts) : parts[k - 1].align % parts[k].align = 0
  PROVE  \A k \in 1 .. Len(parts) : Starts(parts, 0)[k] % parts[k].align = 0
<1> DEFINE z == Starts(parts, 0)
<1>1. PICK L : L = Len(parts)
  OBVIOUS
<1>2. L \in 0 .. 4
  BY <1>1 DEF Chunks
<1>3. /\ \A n \in 1 .. L : z[n + 1] = Align(z[n], parts[n].align) + parts[n].size
      /\ \A n \in 1 .. L + 1 : z[n] \in Nat
      /\ z[1] = 0
  BY <1>1, StartsFacts
<1> HIDE DEF z
<1>4. ASSUME NEW k \in 1 .. L PROVE z[k] % parts[k].align = 0
  <2>1. parts[k].size \in Nat /\ parts[k].align \in Nat \ {0}
    BY <1>1 DEF Chunks
  <2>2. CASE k = 1
    <3>1. 0 % parts[k].align = 0
      BY <2>1
    <3>2. QED
      BY <1>3, <2>2, <3>1
  <2>3. CASE k # 1
    <3> DEFINE n == k - 1
    <3>1. n \in 1 .. L /\ k = n + 1 /\ k \in 2 .. L
      BY <1>2, <2>3
    <3>2. parts[n].align % parts[k].align = 0
      BY <1>1, <3>1
    <3> HIDE DEF n
    <3>3. parts[n].size \in Nat /\ parts[n].align \in Nat \ {0} /\ parts[n].size % parts[n].align = 0
      BY <1>1, <3>1 DEF Chunks
    <3>4. z[n] \in Nat /\ z[k] \in Nat
      BY <1>2, <1>3, <3>1
    <3> DEFINE a == Align(z[n], parts[n].align)
    <3>5. a % parts[n].align = 0 /\ a \in Nat
      BY <3>3, <3>4, AlignMultiple, AlignFacts
    <3>6. z[k] = a + parts[n].size
      BY <1>3, <3>1
    <3> HIDE DEF a
    <3>7. z[k] % parts[n].align = 0
      BY <3>3, <3>5, <3>6, SumMultiple
    <3>8. QED
      BY <2>1, <3>2, <3>3, <3>4, <3>7, Divisible
  <2>4. QED
    BY <2>2, <2>3
<1>5. QED
  BY <1>1, <1>4 DEF z

-----------------------------------------------------------------------------
(* Bindings. *)

(* Where a plane goes depends on the shape of its image.                     *)
LEMMA SameShape ==
  ASSUME NEW i \in Infos, NEW im \in ImageType, NEW new \in ImageType, Shaped(im, i), Shaped(new, i),
         NEW n \in 1 .. im.count, im.disjoint \/ n = 1
  PROVE  LET ns == Targets(im, n)
         IN /\ Targets(new, n) = ns /\ Requirements(new, n) = Requirements(im, n)
            /\ \A k \in 1 .. Len(ns) : \A from : Place(new, ns, k, from) = Place(im, ns, k, from)
            /\ \A x \in 1 .. Len(im.planes) :
                 /\ HasVa(new, new.planes[x]) <=> HasVa(im, im.planes[x])
                 /\ PlaneSize(new, new.planes[x]) = PlaneSize(im, im.planes[x])
<1> DEFINE ns == Targets(im, n)
<1>1. /\ Len(new.planes) = Len(im.planes) /\ new.sparse = im.sparse /\ new.disjoint = im.disjoint
      /\ new.count = im.count /\ \A x \in 1 .. Len(im.planes) : new.planes[x].nil = im.planes[x].nil
  BY DEF Shaped
<1>2. \A x \in 1 .. Len(im.planes) :
        /\ HasVa(new, new.planes[x]) <=> HasVa(im, im.planes[x])
        /\ PlaneSize(new, new.planes[x]) = PlaneSize(im, im.planes[x])
        /\ PlaneAlign(new, new.planes[x]) = PlaneAlign(im, im.planes[x])
  BY <1>1 DEF HasVa, PlaneSize, PlaneAlign
<1>3. Targets(new, n) = ns
  BY <1>1 DEF Targets
<1>4. DOMAIN ns = 1 .. Len(ns) /\ \A k \in 1 .. Len(ns) : ns[k] \in 1 .. Len(im.planes)
  BY TargetsFacts
<1> HIDE DEF ns
<1>5. Parts(new, ns) = Parts(im, ns)
  BY <1>2, <1>4 DEF Parts, Part
<1>6. Requirements(new, n) = Requirements(im, n)
  BY <1>3, <1>5 DEF Requirements, ns
<1>7. \A k \in 1 .. Len(ns) : \A from : Place(new, ns, k, from) = Place(im, ns, k, from)
  BY <1>2, <1>4, <1>5 DEF Place
<1>8. QED
  BY <1>2, <1>3, <1>6, <1>7 DEF ns

(* A part of an image sees the memory it was bound to: each plane of it at its *)
(* place, in its range or without.                                          *)
Sits(im, p, m, at, V) ==
  /\ "host" \in im.usage => p.host = <<m, at>>
  /\ IF HasVa(im, p)
     THEN p.va \in Vas /\ p.addr = <<"va", p.va>>
          /\ V[p.va] = [o \in 0 .. PlaneSize(im, p) - 1 |-> <<m, at + o>>]
     ELSE p.addr = <<"mem", m, at>>

Seated(im, n, V) ==
  LET ns    == Targets(im, n)
      asked == im.asked[n]
  IN /\ ~im.sparse /\ n \in 1 .. im.count /\ (im.disjoint \/ n = 1) /\ n \in DOMAIN im.asked
     /\ asked \in Mems \X Nat /\ asked[2] % Requirements(im, n).align = 0
     /\ \A k \in 1 .. Len(ns) : Sits(im, im.planes[ns[k]], asked[1], Place(im, ns, k, asked[2]), V)

(* A part stays bound while its planes and their ranges stay as they are.     *)
LEMMA SeatedKept ==
  ASSUME NEW i \in Infos, NEW im \in ImageType, NEW new \in ImageType, Shaped(im, i), Shaped(new, i),
         NEW n, NEW V, NEW W, Seated(im, n, V),
         n \in DOMAIN new.asked, new.asked[n] = im.asked[n],
         \A k \in 1 .. Len(Targets(im, n)) :
           LET x == Targets(im, n)[k]
           IN /\ new.planes[x] = im.planes[x]
              /\ im.planes[x].va \in Vas => W[im.planes[x].va] = V[im.planes[x].va]
  PROVE  Seated(new, n, W)
<1> DEFINE ns    == Targets(im, n)
           asked == im.asked[n]
<1>1. n \in 1 .. im.count /\ (im.disjoint \/ n = 1)
  BY DEF Seated
<1>2. /\ new.sparse = im.sparse /\ new.disjoint = im.disjoint /\ new.count = im.count
      /\ new.usage = im.usage
  BY DEF Shaped
<1>3. /\ Targets(new, n) = ns /\ Requirements(new, n) = Requirements(im, n)
      /\ \A k \in 1 .. Len(ns) : \A from : Place(new, ns, k, from) = Place(im, ns, k, from)
  BY <1>1, SameShape
<1>4. \A p, m, at : Sits(im, p, m, at, V) /\ (p.va \in Vas => W[p.va] = V[p.va]) => Sits(new, p, m, at, W)
  BY <1>2 DEF Sits, HasVa, PlaneSize, PlaneAlign
<1>5. ASSUME NEW k \in 1 .. Len(ns)
      PROVE  Sits(new, new.planes[ns[k]], asked[1], Place(new, ns, k, asked[2]), W)
  <2>1. Sits(im, im.planes[ns[k]], asked[1], Place(im, ns, k, asked[2]), V)
    BY DEF Seated
  <2>2. new.planes[ns[k]] = im.planes[ns[k]]
        /\ (im.planes[ns[k]].va \in Vas => W[im.planes[ns[k]].va] = V[im.planes[ns[k]].va])
    OBVIOUS
  <2>3. Place(new, ns, k, asked[2]) = Place(im, ns, k, asked[2])
    BY <1>3
  <2> HIDE DEF ns, asked
  <2>4. QED
    BY <1>4, <2>1, <2>2, <2>3
<1>6. QED
  BY <1>2, <1>3, <1>5 DEF Seated

(* The same image, where its ranges are mapped as they were.                  *)
LEMMA SeatedFrame ==
  ASSUME NEW i \in Infos, NEW im \in ImageType, Shaped(im, i), NEW n, NEW V, NEW W, Seated(im, n, V),
         \A v \in Ranges(im) : W[v] = V[v]
  PROVE  Seated(im, n, W)
<1>1. n \in 1 .. im.count /\ (im.disjoint \/ n = 1) /\ n \in DOMAIN im.asked
  BY DEF Seated
<1>2. \A k \in 1 .. Len(Targets(im, n)) : Targets(im, n)[k] \in 1 .. Len(im.planes)
  BY <1>1, TargetsFacts
<1>3. \A x \in 1 .. Len(im.planes) : im.planes[x].va \in Vas => im.planes[x].va \in Ranges(im)
  BY ShapeFacts DEF Ranges, Held
<1>4. \A k \in 1 .. Len(Targets(im, n)) :
        LET x == Targets(im, n)[k]
        IN /\ im.planes[x] = im.planes[x]
           /\ im.planes[x].va \in Vas => W[im.planes[x].va] = V[im.planes[x].va]
  BY <1>2, <1>3
<1>5. QED
  BY <1>1, <1>4, SeatedKept

(* A plane with a range of its own is addressed there, except in an image     *)
(* bound to a swapchain's.                                                  *)
Addressed(im) ==
  \A n \in 1 .. Len(im.planes) :
    im.planes[n].va \in Vas => im.planes[n].addr = <<"va", im.planes[n].va>>

AddrInv == \A i \in Owners \ DOMAIN Alias : Addressed(Owned(i))

(* What is reported, or will be unless the call fails, is so.                 *)
Fine(part) ==
  IF part[1] \in DOMAIN Alias
  THEN /\ part[2] = 1 /\ <<Alias[part[1]], 1>> \in told
       /\ image[part[1]].planes[1].addr = SwapchainAddress(part[1])
  ELSE Seated(image[part[1]], part[2], vas)

Reported == told \cup (IF batch.result = "ok" THEN batch.parts ELSE {})
BindInv  == \A part \in Reported : Fine(part)

(* Ranges are held by one image, and none of them is free.                   *)
LEMMA RangesApart ==
  ASSUME TypeInv, RangesInv
  PROVE  /\ \A i, j \in Owners : i # j => Ranges(Owned(i)) \cap Ranges(Owned(j)) = {}
         /\ \A i \in Owners : Ranges(Owned(i)) \cap FreeVas = {}
<1>1. DOMAIN Ledger = Owners /\ \A i \in Owners : Ledger[i] = Ranges(Owned(i))
  BY DEF Ledger
<1>2. Balanced(Ledger, FreeVas)
  BY DEF RangesInv
<1>3. \A i \in Owners : Ranges(Owned(i)) \subseteq Vas
  BY DEF Ranges
<1>4. QED
  BY <1>1, <1>2, <1>3 DEF Balanced

(* No step gives a plane with a range another address.                       *)
LEMMA AddrStep ==
  ASSUME TypeInv, ToldInv, RangesInv, AddrInv, [Next]_vars
  PROVE  AddrInv'
<1>1. CASE UNCHANGED <<infos, image, making>>
  BY <1>1 DEF AddrInv, Addressed, Owners, Owned, Live
<1>2. CASE GetPhysicalDeviceImageFormatProperties2 \/ BindBegin \/ BindEnd \/ UNCHANGED vars
           \/ QueueOpaqueBind \/ QueueMipTailBind \/ QueueImageBind
  <2>1. UNCHANGED <<infos, image, making>>
    BY <1>2 DEF GetPhysicalDeviceImageFormatProperties2, BindBegin, BindEnd, vars,
                QueueOpaqueBind, QueueMipTailBind, QueueImageBind, OpaqueBind
  <2>2. QED
    BY <1>1, <2>1
<1>3. CASE CreateBegin
  <2>1. PICK i \in infos \ Live : making = NoImage /\ making' = [info |-> i, im |-> ImageInit(i), next |-> 1]
    BY <1>3 DEF CreateBegin
  <2>2. UNCHANGED <<infos, image>> /\ Live' = Live
    BY <1>3 DEF CreateBegin, Live
  <2>3. i \in Infos
    BY DEF TypeInv, Infos
  <2>4. Addressed(ImageInit(i))
    <3>1. /\ ImageInit(i) \in ImageType /\ \A n \in DOMAIN ImageInit(i).planes : ImageInit(i).planes[n].va = "none"
      BY <2>3, InitType
    <3>2. Shaped(ImageInit(i), i)
      BY DEF Shaped
    <3>3. DOMAIN ImageInit(i).planes = 1 .. Len(ImageInit(i).planes)
      BY <2>3, <3>1, <3>2, ShapeFacts
    <3>4. QED
      BY <3>1, <3>3, ImageAssumption DEF Addressed
  <2>5. making'.im = ImageInit(i) /\ making'.info = i
    BY <2>1
  <2>6. \A j \in Owners' : Owned(j)' = IF j \in Live THEN image[j] ELSE ImageInit(i)
    BY <2>2, <2>5 DEF Owners, Owned
  <2>7. \A j \in Live \ DOMAIN Alias : Addressed(image[j])
    BY DEF AddrInv, Owners, Owned
  <2>8. \A j \in (Owners \ DOMAIN Alias)' : Addressed(Owned(j)')
    BY <2>4, <2>6, <2>7
  <2>9. QED
    BY <2>8 DEF AddrInv, Addressed
<1>4. CASE AllocVa
  <2>1. PICK i, im, k : i = making.info /\ im = making.im /\ k = making.next
    OBVIOUS
  <2>2. UNCHANGED <<infos, image>> /\ Live' = Live /\ making # NoImage /\ Owners = Live \cup {i}
    BY <1>4, <2>1, AllocVaEffects DEF Live, AllocVa, Owners
  <2>3. /\ im \in ImageType /\ i \in Infos /\ Shaped(im, i) /\ i \notin Live
        /\ k \in 1 .. Len(im.planes) /\ im.planes[k] \in PlaneType
    BY <1>4, <2>1, AllocVaEffects DEF Makings
  <2>4. \A j \in Live \ DOMAIN Alias : Addressed(image[j])
    BY DEF AddrInv, Owners, Owned
  <2>5. i \notin DOMAIN Alias => Addressed(im)
    BY <2>1, <2>2, <2>3 DEF AddrInv, Owned
  <2>6. making' = NoImage \/ (making' # NoImage /\ making'.info = i
                              /\ (i \notin DOMAIN Alias => Addressed(making'.im)))
    <3>1. CASE making' = NoImage
      BY <3>1
    <3>2. CASE making' \in Makings /\ making'.im = im /\ making'.info = i
      BY <2>5, <3>2, NoImageType DEF Makings
    <3>3. ASSUME NEW v \in FreeVas, making' \in Makings, making'.info = i,
                 making'.im.planes = [im.planes EXCEPT ![k] = [im.planes[k] EXCEPT !.va = v, !.addr = <<"va", v>>]],
                 Shaped(making'.im, i)
          PROVE  making' # NoImage /\ (i \notin DOMAIN Alias => Addressed(making'.im))
      <4>1. DOMAIN im.planes = 1 .. Len(im.planes) /\ Len(making'.im.planes) = Len(im.planes)
        <5>1. Len(making'.im.planes) = Len(im.planes)
          BY <2>3, <3>3 DEF Shaped
        <5>2. QED
          BY <2>3, <5>1, ShapeFacts
      <4>2. /\ making'.im.planes[k].va = v /\ making'.im.planes[k].addr = <<"va", v>>
            /\ \A n \in 1 .. Len(im.planes) : n # k => making'.im.planes[n] = im.planes[n]
        BY <2>3, <3>3, <4>1 DEF PlaneType
      <4>3. i \notin DOMAIN Alias => Addressed(making'.im)
        BY <2>5, <4>1, <4>2 DEF Addressed
      <4>4. QED
        BY <3>3, <4>3, NoImageType DEF Makings
    <3>4. QED
      BY <1>4, <2>1, <3>1, <3>2, <3>3, AllocVaEffects
  <2>7. \A j \in Owners' : j \in Live \/ (making' # NoImage /\ j = making'.info)
    BY <2>2 DEF Owners
  <2>8. ASSUME NEW j \in Owners', j \notin DOMAIN Alias PROVE Addressed(Owned(j)')
    <3>1. CASE j \in Live
      BY <2>2, <2>4, <2>8, <3>1 DEF Owned
    <3>2. CASE j \notin Live
      BY <2>2, <2>6, <2>7, <2>8, <3>2 DEF Owned
    <3>3. QED
      BY <3>1, <3>2
  <2>9. QED
    BY <2>8 DEF AddrInv, Addressed
(* An image changes, and what is said of its planes stays true.              *)
<1>5. ASSUME NEW i \in infos, NEW new \in ImageType, Shaped(new, i), image' = [image EXCEPT ![i] = new],
             i \notin DOMAIN Alias => Addressed(new), infos' = infos,
             making' = NoImage \/ making' = making
      PROVE  AddrInv'
  <2>1. Live' = Live \cup {i} /\ image'[i] = new /\ \A j \in infos : j # i => image'[j] = image[j]
    BY <1>5, ImagePut
  <2>2. \A j \in Owners' : j = i \/ j \in Owners
    BY <1>5, <2>1 DEF Owners
  <2>3. ASSUME NEW j \in Owners', j \notin DOMAIN Alias PROVE Addressed(Owned(j)')
    <3>1. CASE j = i
      BY <1>5, <2>1, <2>3, <3>1 DEF Owned
    <3>2. CASE j # i
      <4>1. j \in Owners /\ Addressed(Owned(j))
        BY <2>2, <2>3, <3>2 DEF AddrInv
      <4>2. j \in Live <=> j \in Live'
        BY <2>1, <3>2
      <4>3. j \in Live => j \in infos
        BY DEF Live
      <4>4. j \notin Live => making' = making
        BY <1>5, <2>3, <4>2 DEF Owners
      <4>5. Owned(j)' = Owned(j)
        BY <2>1, <3>2, <4>2, <4>3, <4>4 DEF Owned
      <4>6. QED
        BY <4>1, <4>5
    <3>3. QED
      BY <3>1, <3>2
  <2>4. QED
    BY <2>3 DEF AddrInv, Addressed
<1>6. CASE AllocShadow
  <2>1. PICK i, im : i = making.info /\ im = making.im
    OBVIOUS
  <2>2. /\ i \in infos \ Live /\ Shaped(im, i) /\ im \in ImageType /\ making' = NoImage /\ infos' = infos
        /\ making # NoImage
    BY <1>6, <2>1, AllocShadowEffects DEF Makings, AllocShadow
  <2>3. i \notin DOMAIN Alias => Addressed(im)
    <3>1. i \in Owners /\ Owned(i) = im
      BY <2>1, <2>2 DEF Owners, Owned
    <3>2. QED
      BY <3>1 DEF AddrInv
  <2>4. ASSUME NEW new \in ImageType, Shaped(new, i), new.planes = im.planes, image' = [image EXCEPT ![i] = new]
        PROVE  AddrInv'
    <3>1. i \notin DOMAIN Alias => Addressed(new)
      BY <2>3, <2>4 DEF Addressed
    <3>2. QED
      BY <1>5, <2>2, <2>4, <3>1
  <2>5. CASE image' = image
    <3>1. Live' = Live /\ Owners' = Live
      BY <2>2, <2>5 DEF Live, Owners
    <3>2. \A j \in Live \ DOMAIN Alias : Addressed(image[j])
      BY DEF AddrInv, Owners, Owned
    <3>3. \A j \in (Owners \ DOMAIN Alias)' : Addressed(Owned(j)')
      BY <2>5, <3>1, <3>2 DEF Owned
    <3>4. QED
      BY <3>3 DEF AddrInv, Addressed
  <2>6. CASE image' = [image EXCEPT ![i] = im]
    BY <2>2, <2>4, <2>6
  <2>7. QED
    BY <1>6, <2>1, <2>4, <2>5, <2>6, AllocShadowEffects
<1>7. CASE DestroyImage
  <2>1. PICK i \in Live :
          making = NoImage /\ image' = [image EXCEPT ![i] = NoImage] /\ UNCHANGED <<infos, making>>
    BY <1>7 DEF DestroyImage
  <2>2. Live' = Live \ {i} /\ \A j \in infos : j # i => image'[j] = image[j]
    BY <2>1, ImageGone
  <2>3. \A j \in Live \ DOMAIN Alias : Addressed(image[j])
    BY DEF AddrInv, Owners, Owned
  <2>4. \A j \in (Owners \ DOMAIN Alias)' : Addressed(Owned(j)')
    <3>1. TAKE j \in (Owners \ DOMAIN Alias)'
    <3>2. j \in Live /\ j # i /\ j \in infos /\ Owned(j)' = image[j] /\ j \notin DOMAIN Alias
      BY <2>1, <2>2 DEF Owners, Owned, Live
    <3>3. QED
      BY <2>3, <3>2
  <2>5. QED
    BY <2>4 DEF AddrInv, Addressed
<1>8. CASE BindImageMemory
  <2>1. PICK i \in Live, m \in Mems, n \in 1 .. 3, offset \in Nat, bound \in 0 .. 4, new \in ImageType :
          Bound(i, m, n, offset, bound, new)
    BY <1>8, BindEffects
  <2> DEFINE im == image[i]
             ns == Targets(im, n)
  <2>2. /\ Shaped(new, i) /\ image' = [image EXCEPT ![i] = new] /\ i \notin DOMAIN Alias
        /\ \A x \in 1 .. Len(im.planes) :
             /\ new.planes[x].va = im.planes[x].va
             /\ (\A k \in 1 .. bound : ns[k] # x) => new.planes[x] = im.planes[x]
        /\ \A k \in 1 .. bound :
             new.planes[ns[k]] = BoundPlane(im, im.planes[ns[k]], m, Place(im, ns, k, offset))
        /\ UNCHANGED <<infos, making>>
    BY <2>1 DEF Bound
  <2>3. i \in infos /\ i \in Infos /\ im \in ImageType /\ Shaped(im, i)
    BY LiveFacts
  <2>4. Addressed(im) /\ Len(new.planes) = Len(im.planes)
    BY <2>2, <2>3 DEF AddrInv, Owners, Owned, Shaped
  <2>5. Addressed(new)
    <3>1. ASSUME NEW x \in 1 .. Len(im.planes), new.planes[x].va \in Vas
          PROVE  new.planes[x].addr = <<"va", new.planes[x].va>>
      <4>1. im.planes[x].va \in Vas /\ im.planes[x].addr = <<"va", im.planes[x].va>>
            /\ new.planes[x].va = im.planes[x].va
        BY <2>2, <2>4, <3>1 DEF Addressed
      <4>2. im.planes[x] \in PlaneType /\ im.planes[x].va # "none"
        BY <2>3, <4>1, ShapeFacts, ImageAssumption
      <4>3. \A mm, at : BoundPlane(im, im.planes[x], mm, at).addr = im.planes[x].addr
        BY <4>2 DEF BoundPlane, PlaneType
      <4>4. new.planes[x].addr = im.planes[x].addr
        BY <2>2, <4>3
      <4>5. QED
        BY <4>1, <4>4
    <3>2. QED
      BY <2>4, <3>1 DEF Addressed
  <2>6. QED
    BY <1>5, <2>2, <2>3, <2>5
<1>9. CASE BindSwapchainImage
  <2>1. PICK i \in Live, new \in ImageType :
           /\ i \in DOMAIN Alias /\ Shaped(new, i)
           /\ image' = [image EXCEPT ![i] = new] /\ UNCHANGED <<infos, making>>
    BY <1>9, SwapchainEffects
  <2>2. i \in infos
    BY DEF Live
  <2>3. QED
    BY <1>5, <2>1, <2>2
<1>10. QED
  BY <1>2, <1>3, <1>4, <1>6, <1>7, <1>8, <1>9 DEF Next

(* What is reported is of an image that is there, and so is the swapchain's.   *)
LEMMA ReportedFacts ==
  ASSUME ToldInv, BindInv, NEW part \in Reported
  PROVE  /\ part = <<part[1], part[2]>> /\ part[1] \in Live /\ part[2] \in 1 .. 3 /\ Fine(part)
         /\ part[1] \in DOMAIN Alias => <<Alias[part[1]], 1>> \in told /\ Alias[part[1]] \in Live
<1>1. part \in Live \X (1 .. 3)
  BY DEF Reported, ToldInv
<1>2. Fine(part)
  BY DEF BindInv
<1>3. part[1] \in DOMAIN Alias => <<Alias[part[1]], 1>> \in told
  BY <1>2 DEF Fine
<1>4. \A i : <<i, 1>> \in told => i \in Live
  BY DEF ToldInv
<1>5. QED
  BY <1>1, <1>2, <1>3, <1>4

(* The images stay, those that are not sparse with what is mapped for them.    *)
Steady ==
  /\ \A i \in Live \cap Live' :
       /\ image'[i] = image[i]
       /\ ~image[i].sparse => \A v \in Ranges(image[i]) : vas'[v] = vas[v]
  /\ \A i \in Live' \cap DOMAIN Alias : Alias[i] \in Live => Alias[i] \in Live'
  /\ \A part \in told : part[1] \in Live' => part \in told'

(* Where they do, and nothing else is reported, the bindings stay.           *)
LEMMA BindingsKept ==
  ASSUME TypeInv, ToldInv, ToldInv', BindInv, Reported' \subseteq Reported, Steady
  PROVE  BindInv'
<1>1. ASSUME NEW part \in Reported' PROVE Fine(part)'
  <2>1. part \in Reported
    BY <1>1
  <2>2. PICK i, n : i = part[1] /\ n = part[2]
    OBVIOUS
  <2>3. /\ part = <<i, n>> /\ i \in Live /\ Fine(part)
        /\ i \in DOMAIN Alias => <<Alias[i], 1>> \in told /\ Alias[i] \in Live
    BY <2>1, <2>2, ReportedFacts
  <2>4. i \in Live'
    BY <1>1, <2>2 DEF ToldInv, Reported
  <2>5. image'[i] = image[i]
    BY <2>3, <2>4 DEF Steady
  <2>6. CASE i \in DOMAIN Alias
    <3>1. Alias[i] \in Live' /\ image'[Alias[i]] = image[Alias[i]]
      BY <2>3, <2>4, <2>6 DEF Steady
    <3>2. <<Alias[i], 1>> \in told'
      BY <2>3, <2>6, <3>1 DEF Steady
    <3>3. n = 1 /\ image[i].planes[1].addr = SwapchainAddress(i)
      BY <2>2, <2>3, <2>6 DEF Fine
    <3>4. image'[i].planes[1].addr = SwapchainAddress(i)'
      BY <2>5, <3>1, <3>3 DEF SwapchainAddress
    <3>5. QED
      BY <2>2, <2>6, <3>2, <3>3, <3>4 DEF Fine
  <2>7. CASE i \notin DOMAIN Alias
    <3>1. Seated(image[i], n, vas)
      BY <2>2, <2>3, <2>7 DEF Fine
    <3>2. ~image[i].sparse
      BY <3>1 DEF Seated
    <3>3. \A v \in Ranges(image[i]) : vas'[v] = vas[v]
      BY <2>3, <2>4, <3>2 DEF Steady
    <3>4. i \in Infos /\ image[i] \in ImageType /\ Shaped(image[i], i)
      BY <2>3, LiveFacts
    <3>5. Seated(image[i], n, vas')
      BY <3>1, <3>3, <3>4, SeatedFrame
    <3>6. Seated(image'[i], n, vas')
      BY <2>5, <3>5
    <3>7. QED
      BY <2>2, <2>7, <3>6 DEF Fine
  <2>8. QED
    BY <2>6, <2>7
<1>2. QED
  BY <1>1 DEF BindInv

(* The steps that leave the images, and all but the ranges of sparse ones.     *)
LEMMA BindQuiet ==
  ASSUME TypeInv, ToldInv, ToldInv', RangesInv, BindInv,
         GetPhysicalDeviceImageFormatProperties2 \/ CreateBegin \/ BindBegin \/ BindEnd \/ UNCHANGED vars
         \/ QueueOpaqueBind \/ QueueMipTailBind \/ QueueImageBind
  PROVE  BindInv'
<1>1. image' = image /\ infos' = infos /\ Live' = Live
  BY DEF GetPhysicalDeviceImageFormatProperties2, CreateBegin, BindBegin, BindEnd, vars,
         QueueOpaqueBind, QueueMipTailBind, QueueImageBind, OpaqueBind, Live
<1>2. Reported' \subseteq Reported /\ told \subseteq told'
  <2>1. CASE BindEnd \/ BindBegin
    BY <2>1 DEF BindEnd, BindBegin, Reported, NoBatch
  <2>2. CASE UNCHANGED <<told, batch>>
    BY <2>2 DEF Reported
  <2>3. QED
    BY <2>1, <2>2 DEF GetPhysicalDeviceImageFormatProperties2, CreateBegin, vars,
         QueueOpaqueBind, QueueMipTailBind, QueueImageBind, OpaqueBind
<1>3. ASSUME NEW i \in Live, ~image[i].sparse, NEW v \in Ranges(image[i]) PROVE vas'[v] = vas[v]
  <2>1. CASE vas' = vas
    BY <2>1
(* A sparse bind changes ranges of the planes of another image.             *)
  <2>2. ASSUME NEW j \in Live, image[j].sparse, NEW x \in 1 .. Len(image[j].planes)
        PROVE  image[j].planes[x].va # v
    <3>1. j # i
      BY <1>3, <2>2
    <3>2. Ranges(image[j]) \cap Ranges(image[i]) = {}
      BY <3>1, RangesApart DEF Owners, Owned
    <3>3. j \in Infos /\ image[j] \in ImageType /\ Shaped(image[j], j)
      BY LiveFacts
    <3>4. image[j].planes[x].va \in Held(image[j])
      BY <3>3, ShapeFacts DEF Held
    <3>5. v \in Vas /\ v \notin Ranges(image[j])
      BY <1>3, <3>2 DEF Ranges
    <3>6. QED
      BY <3>4, <3>5 DEF Ranges
  <2>3. ASSUME NEW j \in infos, NEW bind, NEW kind, NEW m, Bindable(j), OpaqueBind(j, bind, kind, m)
        PROVE  vas'[v] = vas[v]
    <3>1. j \in Live /\ image[j].sparse
      BY <2>3 DEF Bindable
    <3>2. PICK bound \in 0 .. Len(image[j].planes) :
            vas' = [w \in Vas |->
              IF \E n \in 1 .. bound : image[j].planes[n].va = w
              THEN Mapped(vas[w], OpaqueRows(image[j],
                          CHOOSE n \in 1 .. bound : image[j].planes[n].va = w, bind), m)
              ELSE vas[w]]
      BY <2>3 DEF OpaqueBind
    <3>3. \A n \in 1 .. bound : n \in 1 .. Len(image[j].planes)
      <4>1. PICK L : L = Len(image[j].planes)
        OBVIOUS
      <4>2. L \in 1 .. 4 /\ bound \in 0 .. L
        BY <3>1, <4>1, LiveFacts, ShapeFacts
      <4>3. \A n \in 1 .. bound : n \in 1 .. L
        BY <4>2
      <4>4. QED
        BY <4>1, <4>3
    <3>4. ~\E n \in 1 .. bound : image[j].planes[n].va = v
      BY <2>2, <3>1, <3>3
    <3>5. v \in Vas
      BY <1>3 DEF Ranges
    <3>6. QED
      BY <3>2, <3>4, <3>5
  <2>4. CASE QueueOpaqueBind
    BY <2>3, <2>4 DEF QueueOpaqueBind
  <2>5. CASE QueueMipTailBind
    BY <2>3, <2>5 DEF QueueMipTailBind
  <2>6. CASE QueueImageBind
    <3>1. PICK j \in infos, m \in Mems \cup {NoMem} :
            /\ Bindable(j)
            /\ \E box \in Boxes(image[j].planes[1].nil) :
                 \/ vas' = [vas EXCEPT ![image[j].planes[1].va] =
                                          Mapped(@, TileRows(image[j].planes[1].nil, box), m)]
                 \/ vas' = vas
      BY <2>6 DEF QueueImageBind
    <3>2. j \in Live /\ image[j].sparse
      BY <3>1 DEF Bindable
    <3>3. 1 \in 1 .. Len(image[j].planes)
      <4>1. PICK L : L = Len(image[j].planes)
        OBVIOUS
      <4>2. L \in 1 .. 4
        BY <3>2, <4>1, LiveFacts, ShapeFacts
      <4>3. 1 \in 1 .. L
        BY <4>2
      <4>4. QED
        BY <4>1, <4>3
    <3>4. image[j].planes[1].va # v
      BY <2>2, <3>2, <3>3
    <3>5. v \in Vas /\ vas = [w \in Vas |-> vas[w]]
      BY <1>3 DEF Ranges, TypeInv
    <3>6. QED
      BY <3>1, <3>4, <3>5
  <2>7. QED
    BY <2>1, <2>4, <2>5, <2>6 DEF GetPhysicalDeviceImageFormatProperties2, CreateBegin, BindBegin, BindEnd, vars
<1>4. Steady
  BY <1>1, <1>2, <1>3 DEF Steady
<1>5. QED
  BY <1>2, <1>4, BindingsKept

(* A range that is given was free, and those given back were of no other       *)
(* image.                                                                   *)
LEMMA BindRanges ==
  ASSUME TypeInv, ToldInv, ToldInv', RangesInv, BindInv, AllocVa \/ AllocShadow \/ DestroyImage
  PROVE  BindInv'
<1> DEFINE Same(i) == \A v \in Ranges(image[i]) : vas'[v] = vas[v]
<1>1. ASSUME NEW v \in FreeVas, NEW f, vas' = [vas EXCEPT ![v] = f], NEW i \in Live PROVE Same(i)
  <2>1. Ranges(image[i]) \cap FreeVas = {}
    BY RangesApart DEF Owners, Owned
  <2>2. vas = [w \in Vas |-> vas[w]]
    BY DEF TypeInv
  <2>3. QED
    BY <1>1, <2>1, <2>2 DEF Ranges
<1>2. ASSUME NEW j \in Owners, vas' = Finish(Owned(j)), NEW i \in Live, i # j PROVE Same(i)
  <2>1. Ranges(image[i]) \cap Ranges(Owned(j)) = {}
    BY <1>2, RangesApart DEF Owners, Owned
  <2>2. QED
    BY <1>2, <2>1 DEF Ranges, Finish
<1> HIDE DEF Same
<1>3. CASE AllocVa \/ AllocShadow
  <2>1. PICK i : i = making.info
    OBVIOUS
  <2>2. /\ i \in Owners /\ i \notin Live /\ Owned(i) = making.im /\ UNCHANGED <<infos, told, batch>>
    BY <1>3, <2>1, OwnedFacts DEF AllocVa, AllocShadow, CreateFails
  <2>3. \A j \in Live : j \in Live' /\ image'[j] = image[j]
    <3>1. CASE image' = image
      BY <2>2, <3>1 DEF Live
    <3>2. ASSUME NEW new, image' = [image EXCEPT ![i] = new] PROVE \A j \in Live : j \in Live' /\ image'[j] = image[j]
      BY <2>2, <3>2 DEF Live, TypeInv
    <3>3. CASE AllocVa
      BY <3>1, <3>3, AllocVaEffects
    <3>4. CASE AllocShadow
      BY <2>1, <3>1, <3>2, <3>4, AllocShadowEffects
    <3>5. QED
      BY <1>3, <3>3, <3>4
  <2>4. ASSUME NEW j \in Live PROVE Same(j)
    <3>1. CASE vas' = vas
      BY <3>1 DEF Same
    <3>2. CASE vas' = Finish(making.im)
      BY <1>2, <2>2, <3>2
    <3>3. CASE AllocVa
      BY <1>1, <3>1, <3>2, <3>3, AllocVaEffects
    <3>4. CASE AllocShadow
      BY <1>1, <3>1, <3>2, <3>4, AllocShadowEffects
    <3>5. QED
      BY <1>3, <3>3, <3>4
  <2>5. Steady
    BY <2>2, <2>3, <2>4 DEF Steady, Same
  <2>6. Reported' \subseteq Reported
    BY <2>2 DEF Reported
  <2>7. QED
    BY <2>5, <2>6, BindingsKept
<1>4. CASE DestroyImage
  <2>1. PICK i \in Live :
          /\ ~batch.open /\ \A j \in Live \cap DOMAIN Alias : Alias[j] # i
          /\ vas' = Finish(image[i]) /\ image' = [image EXCEPT ![i] = NoImage]
          /\ told' = {part \in told : part[1] # i}
          /\ UNCHANGED <<infos, batch>>
    BY <1>4 DEF DestroyImage
  <2>2. Live' = Live \ {i} /\ \A j \in infos : j # i => image'[j] = image[j]
    BY <2>1, ImageGone
  <2>3. \A j \in Live \cap Live' : image'[j] = image[j] /\ Same(j)
    <3>1. ASSUME NEW j \in Live \cap Live' PROVE image'[j] = image[j] /\ Same(j)
      <4>1. j # i /\ j \in Live /\ j \in infos
        BY <2>2, <3>1 DEF Live
      <4>2. i \in Owners /\ Owned(i) = image[i]
        BY DEF Owners, Owned
      <4>3. QED
        BY <1>2, <2>1, <2>2, <4>1, <4>2
    <3>2. QED
      BY <3>1
  <2>4. \A j \in Live' \cap DOMAIN Alias : Alias[j] \in Live => Alias[j] \in Live'
    BY <2>1, <2>2
  <2>5. \A part \in told : part[1] \in Live' => part \in told'
    BY <2>1, <2>2
  <2>6. Steady
    BY <2>3, <2>4, <2>5 DEF Steady, Same
  <2>7. Reported' \subseteq Reported
    BY <2>1 DEF Reported
  <2>8. QED
    BY <2>6, <2>7, BindingsKept
<1>5. QED
  BY <1>3, <1>4

(* The image of a swapchain's is bound as that one is.                       *)
LEMMA BindSwapchain ==
  ASSUME TypeInv, ToldInv, ToldInv', BindInv, BindSwapchainImage
  PROVE  BindInv'
<1>1. PICK i \in Live, new \in ImageType :
        /\ i \in DOMAIN Alias /\ <<Alias[i], 1>> \in told
        /\ new.planes[1].addr = SwapchainAddress(i)
        /\ image' = [image EXCEPT ![i] = new]
        /\ batch' = [batch EXCEPT !.parts = @ \cup {<<i, 1>>}, !.result = FirstError("ok")]
        /\ UNCHANGED <<infos, vas, told>>
  BY SwapchainEffects
<1>2. /\ i \in infos /\ image'[i] = new /\ \A j \in infos : j # i => image'[j] = image[j]
  BY <1>1 DEF TypeInv, Live
<1>3. \A j \in DOMAIN Alias : Alias[j] # i
  BY <1>1, ImageAssumption
<1>4. Reported' \subseteq Reported \cup {<<i, 1>>}
  <2>1. batch'.result = batch.result /\ batch'.parts = batch.parts \cup {<<i, 1>>}
    BY <1>1 DEF FirstError, TypeInv
  <2>2. QED
    BY <1>1, <2>1 DEF Reported
<1>5. ASSUME NEW part \in Reported' PROVE Fine(part)'
  <2>1. CASE part[1] = i
    <3>1. part[2] = 1
      <4>1. CASE part = <<i, 1>>
        BY <4>1
      <4>2. CASE part \in Reported
        BY <1>1, <2>1, <4>2, ReportedFacts DEF Fine
      <4>3. QED
        BY <1>4, <1>5, <4>1, <4>2
    <3>2. Alias[i] \in infos
      BY <1>1 DEF ToldInv, Live
    <3>3. SwapchainAddress(i)' = SwapchainAddress(i)
      BY <1>1, <1>2, <1>3, <3>2 DEF SwapchainAddress
    <3>4. image'[i].planes[1].addr = SwapchainAddress(i)'
      BY <1>1, <1>2, <3>3
    <3>5. QED
      BY <1>1, <2>1, <3>1, <3>4 DEF Fine
  <2>2. CASE part[1] # i
    <3>1. part \in Reported
      BY <1>4, <1>5, <2>2
    <3>2. PICK j, n : j = part[1] /\ n = part[2]
      OBVIOUS
    <3>3. /\ j \in Live /\ Fine(part)
          /\ j \in DOMAIN Alias => <<Alias[j], 1>> \in told /\ Alias[j] \in Live
      BY <3>1, <3>2, ReportedFacts
    <3>4. image'[j] = image[j]
      BY <1>2, <2>2, <3>2, <3>3 DEF Live
    <3>5. j \in DOMAIN Alias => image'[Alias[j]] = image[Alias[j]]
      BY <1>2, <1>3, <3>3 DEF Live
    <3>6. CASE j \in DOMAIN Alias
      <4>1. SwapchainAddress(j)' = SwapchainAddress(j)
        BY <3>5, <3>6 DEF SwapchainAddress
      <4>2. n = 1 /\ image[j].planes[1].addr = SwapchainAddress(j)
        BY <3>2, <3>3, <3>6 DEF Fine
      <4>3. QED
        BY <1>1, <3>2, <3>3, <3>4, <3>6, <4>1, <4>2 DEF Fine
    <3>7. CASE j \notin DOMAIN Alias
      <4>1. Seated(image[j], n, vas)
        BY <3>2, <3>3, <3>7 DEF Fine
      <4>2. Seated(image'[j], n, vas')
        BY <1>1, <3>4, <4>1
      <4>3. QED
        BY <3>2, <3>7, <4>2 DEF Fine
    <3>8. QED
      BY <3>6, <3>7
  <2>3. QED
    BY <2>1, <2>2
<1>6. QED
  BY <1>5 DEF BindInv

(* A range is of one plane.                                                 *)
LEMMA PlanesApart ==
  ASSUME TypeInv, RangesInv, NEW i \in Live, NEW x \in 1 .. Len(image[i].planes),
         NEW y \in 1 .. Len(image[i].planes),
         image[i].planes[x].va = image[i].planes[y].va, image[i].planes[x].va \in Vas
  PROVE  x = y
BY DEF RangesInv, Whole, Placed

(* A plane that is bound sits where it is bound.                             *)
LEMMA SitsBound ==
  ASSUME NEW im, NEW new, NEW p \in PlaneType, NEW m \in Mems, NEW at \in Nat, NEW V,
         new.sparse = im.sparse, new.usage = im.usage,
         HasVa(im, p) => /\ p.va \in Vas /\ p.addr = <<"va", p.va>>
                         /\ V[p.va] = [o \in 0 .. PlaneSize(im, p) - 1 |-> <<m, at + o>>],
         ~HasVa(im, p) => p.va = "none"
  PROVE  Sits(new, BoundPlane(im, p, m, at), m, at, V)
<1> DEFINE q == BoundPlane(im, p, m, at)
<1>1. /\ q.nil = p.nil /\ q.va = p.va
      /\ q.addr = (IF p.va = "none" THEN <<"mem", m, at>> ELSE p.addr)
      /\ q.host = (IF "host" \in im.usage THEN <<m, at>> ELSE p.host)
  BY DEF BoundPlane, PlaneType
<1> HIDE DEF q
<1>2. (HasVa(new, q) <=> HasVa(im, p)) /\ PlaneSize(new, q) = PlaneSize(im, p)
  BY <1>1 DEF HasVa, PlaneSize, PlaneAlign
<1>3. \/ ~HasVa(im, p) /\ q.addr = <<"mem", m, at>>
      \/ /\ HasVa(im, p) /\ q.va \in Vas /\ q.addr = <<"va", q.va>>
         /\ V[q.va] = [o \in 0 .. PlaneSize(im, p) - 1 |-> <<m, at + o>>]
  BY <1>1, ImageAssumption
<1>4. "host" \in new.usage => q.host = <<m, at>>
  BY <1>1
<1>5. Sits(new, q, m, at, V)
  <2> DEFINE whole(n) == [o \in 0 .. n - 1 |-> <<m, at + o>>]
  <2>1. V[q.va] = whole(PlaneSize(im, p)) => V[q.va] = whole(PlaneSize(new, q))
    BY <1>2
  <2>2. Sits(new, q, m, at, V) <=>
          /\ "host" \in new.usage => q.host = <<m, at>>
          /\ IF HasVa(new, q) THEN q.va \in Vas /\ q.addr = <<"va", q.va>> /\ V[q.va] = whole(PlaneSize(new, q))
             ELSE q.addr = <<"mem", m, at>>
    BY DEF Sits
  <2>3. CASE HasVa(im, p)
    BY <1>2, <1>3, <1>4, <2>1, <2>2, <2>3
  <2>4. CASE ~HasVa(im, p)
    BY <1>2, <1>3, <1>4, <2>2, <2>4
  <2>5. QED
    BY <2>3, <2>4
<1>6. QED
  BY <1>5 DEF q

(* The binding that succeeds puts each plane of its image, or the plane it      *)
(* names, in its place.                                                     *)
LEMMA SeatedBound ==
  ASSUME TypeInv, RangesInv, AddrInv,
         NEW i \in Live, NEW m \in Mems, NEW n \in 1 .. 3, NEW offset \in Nat, NEW bound \in 0 .. 4,
         NEW new \in ImageType, Bound(i, m, n, offset, bound, new), bound = Len(Targets(image[i], n))
  PROVE  Seated(new, n, vas')
<1> DEFINE im == image[i]
           ns == Targets(im, n)
<1>1. i \in Infos /\ im \in ImageType /\ Shaped(im, i) /\ Shaped(new, i)
  BY LiveFacts DEF Bound
<1>2. n \in 1 .. im.count /\ (im.disjoint \/ n = 1) /\ ~im.sparse /\ i \notin DOMAIN Alias
      /\ offset % Requirements(im, n).align = 0
  BY DEF Bound
<1>3. /\ new.sparse = im.sparse /\ new.usage = im.usage /\ new.disjoint = im.disjoint
      /\ new.count = im.count /\ Len(new.planes) = Len(im.planes)
  BY <1>1 DEF Shaped
<1>4. /\ Targets(new, n) = ns /\ Requirements(new, n) = Requirements(im, n)
      /\ \A k \in 1 .. Len(ns) : \A from : Place(new, ns, k, from) = Place(im, ns, k, from)
  <2> HIDE DEF im, ns
  <2>1. QED
    BY <1>1, <1>2, SameShape DEF ns
<1>5. /\ Len(ns) \in 1 .. 4 /\ DOMAIN ns = 1 .. Len(ns)
      /\ \A k \in 1 .. Len(ns) : ns[k] \in 1 .. Len(im.planes)
      /\ \A k, l \in 1 .. Len(ns) : ns[k] = ns[l] => k = l
  <2> HIDE DEF im
  <2>1. QED
    BY <1>1, <1>2, TargetsFacts
<1>6. new.asked[n] = <<m, offset>> /\ n \in DOMAIN new.asked
  BY DEF Bound
<1>7. /\ \A k \in 1 .. Len(ns) : new.planes[ns[k]] = BoundPlane(im, im.planes[ns[k]], m, Place(im, ns, k, offset))
      /\ \A v \in Vas :
           \/ vas'[v] = vas[v] /\ \A k \in 1 .. Len(ns) : im.planes[ns[k]].va # v
           \/ \E k \in 1 .. Len(ns) :
                /\ im.planes[ns[k]].va = v
                /\ vas'[v] = [o \in DOMAIN vas[v] |-> <<m, Place(im, ns, k, offset) + o>>]
  BY DEF Bound
<1>8. Addressed(im)
  BY <1>2 DEF AddrInv, Owners, Owned
<1>9. ASSUME NEW k \in 1 .. Len(ns)
      PROVE  Sits(new, new.planes[ns[k]], m, Place(im, ns, k, offset), vas')
  <2>1. PICK p, at : p = im.planes[ns[k]] /\ at = Place(im, ns, k, offset)
    OBVIOUS
  <2>2. ns[k] \in 1 .. Len(im.planes)
    BY <1>5
  <2>3. p \in PlaneType
    BY <1>1, <2>1, <2>2, ShapeFacts
  <2>4. at \in Nat
    <3> HIDE DEF im, ns
    <3>1. Len(ns) \in 1 .. 4
      BY <1>5, Zenon
    <3>2. Len(ns) \in 0 .. 4
      BY <3>1
    <3>3. QED
      BY <1>1, <1>5, <2>1, <3>2, PlaceType
  <2>5. ASSUME HasVa(im, p)
        PROVE  /\ p.va \in Vas /\ p.addr = <<"va", p.va>>
               /\ vas'[p.va] = [o \in 0 .. PlaneSize(im, p) - 1 |-> <<m, at + o>>]
    <3>1. p.va \in Vas /\ DOMAIN vas[p.va] = 0 .. PlaneSize(im, p) - 1
      BY <2>1, <2>2, <2>5, PlaneInUse
    <3>2. p.addr = <<"va", p.va>>
      BY <1>8, <2>1, <2>2, <3>1 DEF Addressed
    <3>3. PICK l \in 1 .. Len(ns) :
            /\ im.planes[ns[l]].va = p.va
            /\ vas'[p.va] = [o \in DOMAIN vas[p.va] |-> <<m, Place(im, ns, l, offset) + o>>]
      BY <1>7, <2>1, <3>1
    <3>4. ns[l] \in 1 .. Len(im.planes)
      BY <1>5
    <3>5. ns[l] = ns[k]
      BY <2>1, <2>2, <3>1, <3>3, <3>4, PlanesApart
    <3>6. l = k
      BY <1>5, <3>5
    <3>7. QED
      BY <2>1, <3>1, <3>2, <3>3, <3>6
  <2>6. ~HasVa(im, p) => p.va = "none"
    <3>1. Whole(im, vas)
      BY DEF RangesInv
    <3>2. QED
      BY <2>1, <2>2, <3>1 DEF Whole, Placed
  <2>7. Sits(new, BoundPlane(im, p, m, at), m, at, vas')
    <3> HIDE DEF im, ns
    <3>1. QED
      BY <1>3, <2>3, <2>4, <2>5, <2>6, SitsBound
  <2>8. QED
    BY <1>7, <2>1, <2>7
<1>10. Seated(new, n, vas')
  <2> HIDE DEF im, ns
  <2>1. <<m, offset>> \in Mems \X Nat
    OBVIOUS
  <2>2. \A k \in 1 .. Len(ns) : Sits(new, new.planes[ns[k]], m, Place(new, ns, k, offset), vas')
    BY <1>4, <1>9
  <2>3. QED
    BY <1>2, <1>3, <1>4, <1>6, <2>1, <2>2 DEF Seated
<1>11. QED
  BY <1>10

(* A binding leaves those of other images, and of the other planes of its own,  *)
(* where they are.                                                          *)
LEMMA BindMemory ==
  ASSUME TypeInv, ToldInv, RangesInv, AddrInv, BindInv, BindImageMemory
  PROVE  BindInv'
<1>1. PICK i \in Live, m \in Mems, n \in 1 .. 3, offset \in Nat, bound \in 0 .. 4, new \in ImageType :
        Bound(i, m, n, offset, bound, new)
  BY BindEffects
<1> DEFINE im == image[i]
           ns == Targets(im, n)
<1>2. /\ i \in infos /\ i \in Infos /\ im \in ImageType /\ Shaped(im, i) /\ Shaped(new, i)
  BY <1>1, LiveFacts DEF Bound
<1>3. /\ n \in 1 .. im.count /\ (im.disjoint \/ n = 1) /\ n \notin DOMAIN im.asked
      /\ i \notin DOMAIN Alias /\ bound \in 0 .. Len(ns)
      /\ UNCHANGED <<infos, told>> /\ image' = [image EXCEPT ![i] = new]
  BY <1>1 DEF Bound
<1>4. /\ DOMAIN new.asked = DOMAIN im.asked \cup {n}
      /\ \A x \in DOMAIN im.asked : new.asked[x] = im.asked[x]
  BY <1>1, <1>3 DEF Bound
<1>5. /\ \A x \in 1 .. Len(im.planes) :
           (\A k \in 1 .. bound : ns[k] # x) => new.planes[x] = im.planes[x]
      /\ \A v \in Vas : vas'[v] = vas[v] \/ \E k \in 1 .. bound : im.planes[ns[k]].va = v
  BY <1>1 DEF Bound
<1>6. /\ Len(ns) \in 1 .. 4 /\ \A k \in 1 .. Len(ns) : ns[k] \in 1 .. Len(im.planes)
      /\ im.disjoint => Len(ns) = 1 /\ ns[1] = n
  <2> HIDE DEF im
  <2>1. QED
    BY <1>2, <1>3, TargetsFacts
<1>7. \A k \in 1 .. bound : k \in 1 .. Len(ns) /\ ns[k] \in 1 .. Len(im.planes)
  <2>1. PICK L : L = Len(ns)
    OBVIOUS
  <2>2. L \in 1 .. 4 /\ bound \in 0 .. L
    BY <1>3, <1>6, <2>1
  <2>3. \A k \in 1 .. bound : k \in 1 .. L
    BY <2>2
  <2>4. QED
    BY <1>6, <2>1, <2>3
<1>8. image'[i] = new /\ \A j \in infos : j # i => image'[j] = image[j]
  BY <1>2, <1>3 DEF TypeInv
(* What is bound of a disjoint image is another plane.                       *)
<1>9. ASSUME NEW x \in DOMAIN im.asked, NEW V, Seated(im, x, V)
      PROVE  /\ x # n /\ im.disjoint /\ x \in 1 .. Len(im.planes) /\ new.planes[x] = im.planes[x]
             /\ Len(Targets(im, x)) = 1 /\ Targets(im, x)[1] = x
  <2>1. x # n /\ x \in 1 .. im.count /\ (im.disjoint \/ x = 1)
    BY <1>3, <1>9 DEF Seated
  <2>2. im.disjoint
    BY <1>3, <2>1
  <2>3. Len(Targets(im, x)) = 1 /\ Targets(im, x)[1] = x /\ Targets(im, x)[1] \in 1 .. Len(im.planes)
    <3> HIDE DEF im
    <3>1. /\ Len(Targets(im, x)) \in 1 .. 4
          /\ \A k \in 1 .. Len(Targets(im, x)) : Targets(im, x)[k] \in 1 .. Len(im.planes)
          /\ Len(Targets(im, x)) = 1 /\ Targets(im, x)[1] = x
      BY <1>2, <2>1, <2>2, TargetsFacts
    <3>2. 1 \in 1 .. 1
      OBVIOUS
    <3>3. QED
      BY <3>1, <3>2
  <2>4. \A k \in 1 .. bound : ns[k] = n
    <3>1. \A k \in 1 .. 1 : k = 1
      OBVIOUS
    <3>2. QED
      BY <1>6, <1>7, <2>2, <3>1
  <2>5. QED
    BY <1>5, <2>1, <2>2, <2>3, <2>4
<1>10. /\ Reported' \subseteq Reported \cup {<<i, n>>}
       /\ <<i, n>> \in Reported' => <<i, n>> \in Reported \/ bound = Len(ns)
  <2>1. /\ batch'.parts = batch.parts \cup {<<i, n>>}
        /\ batch'.result = FirstError(IF bound = Len(ns) THEN "ok" ELSE "error")
    BY <1>1 DEF Bound, TypeInv
  <2>2. batch'.result = "ok" => batch.result = "ok" /\ bound = Len(ns)
    BY <2>1 DEF FirstError
  <2>3. QED
    BY <1>3, <2>1, <2>2 DEF Reported
<1>11. ASSUME NEW part \in Reported, part[1] # i PROVE Fine(part)'
  <2>1. PICK j, x : j = part[1] /\ x = part[2]
    OBVIOUS
  <2>2. /\ j \in Live /\ Fine(part) /\ j # i
        /\ j \in DOMAIN Alias => <<Alias[j], 1>> \in told /\ Alias[j] \in Live
    BY <1>11, <2>1, ReportedFacts
  <2>3. image'[j] = image[j]
    BY <1>8, <2>2 DEF Live
  <2>4. CASE j \in DOMAIN Alias
    <3>1. image'[Alias[j]].planes[1] = image[Alias[j]].planes[1]
      <4>1. CASE Alias[j] # i
        BY <1>8, <2>2, <2>4, <4>1 DEF Live
      <4>2. CASE Alias[j] = i
        <5>1. <<i, 1>> \in Reported /\ <<i, 1>>[1] = i /\ <<i, 1>>[2] = 1
          BY <2>2, <2>4, <4>2 DEF Reported
        <5>2. Fine(<<i, 1>>)
          BY <5>1, ReportedFacts
        <5>3. Seated(im, 1, vas)
          BY <1>3, <5>1, <5>2 DEF Fine
        <5>4. 1 \in DOMAIN im.asked
          BY <5>3 DEF Seated
        <5>5. new.planes[1] = im.planes[1]
          BY <1>9, <5>3, <5>4
        <5>6. QED
          BY <1>8, <4>2, <5>5
      <4>3. QED
        BY <4>1, <4>2
    <3>2. SwapchainAddress(j)' = SwapchainAddress(j)
      BY <3>1 DEF SwapchainAddress
    <3>3. x = 1 /\ image[j].planes[1].addr = SwapchainAddress(j)
      BY <2>1, <2>2, <2>4 DEF Fine
    <3>4. QED
      BY <1>3, <2>1, <2>2, <2>3, <2>4, <3>2, <3>3 DEF Fine
  <2>5. CASE j \notin DOMAIN Alias
    <3>1. Seated(image[j], x, vas)
      BY <2>1, <2>2, <2>5 DEF Fine
    <3>2. j \in Infos /\ image[j] \in ImageType /\ Shaped(image[j], j)
      BY <2>2, LiveFacts
    <3>3. \A v \in Ranges(image[j]) : vas'[v] = vas[v]
      <4>1. Ranges(image[j]) \cap Ranges(im) = {}
        BY <2>2, RangesApart DEF Owners, Owned
      <4>2. \A k \in 1 .. bound : im.planes[ns[k]].va \in Held(im)
        <5>1. DOMAIN im.planes = 1 .. Len(im.planes)
          <6> HIDE DEF im
          <6>1. QED
            BY <1>2, ShapeFacts
        <5>2. QED
          BY <1>7, <5>1 DEF Held
      <4>3. QED
        BY <1>5, <4>1, <4>2 DEF Ranges
    <3>4. Seated(image[j], x, vas')
      BY <3>1, <3>2, <3>3, SeatedFrame
    <3>5. Seated(image'[j], x, vas')
      BY <2>3, <3>4
    <3>6. QED
      BY <2>1, <2>5, <3>5 DEF Fine
  <2>6. QED
    BY <2>4, <2>5
<1>12. ASSUME NEW part \in Reported, part[1] = i PROVE Fine(part)'
  <2>1. PICK x : x = part[2]
    OBVIOUS
  <2>2. Seated(im, x, vas)
    BY <1>3, <1>12, <2>1, ReportedFacts DEF Fine
  <2>3. x \in DOMAIN im.asked
    BY <2>2 DEF Seated
  <2>4. /\ x # n /\ im.disjoint /\ x \in 1 .. Len(im.planes) /\ new.planes[x] = im.planes[x]
        /\ Len(Targets(im, x)) = 1 /\ Targets(im, x)[1] = x
    BY <1>9, <2>2, <2>3
  <2>5. im.planes[x].va \in Vas => vas'[im.planes[x].va] = vas[im.planes[x].va]
    <3>1. ASSUME im.planes[x].va \in Vas, NEW k \in 1 .. bound, im.planes[ns[k]].va = im.planes[x].va
          PROVE  FALSE
      <4>1. ns[k] = x
        BY <1>7, <2>4, <3>1, PlanesApart
      <4>2. k = 1
        BY <1>6, <1>7, <2>4
      <4>3. QED
        BY <1>6, <2>4, <4>1, <4>2
    <3>2. QED
      BY <1>5, <3>1
  <2>6. n \in DOMAIN new.asked /\ x \in DOMAIN new.asked /\ new.asked[x] = im.asked[x]
    BY <1>4, <2>3
  <2>7. \A k \in 1 .. Len(Targets(im, x)) :
          LET y == Targets(im, x)[k]
          IN /\ new.planes[y] = im.planes[y]
             /\ im.planes[y].va \in Vas => vas'[im.planes[y].va] = vas[im.planes[y].va]
    <3>1. \A k \in 1 .. 1 : k = 1
      OBVIOUS
    <3>2. QED
      BY <2>4, <2>5, <3>1
  <2>8. Seated(new, x, vas')
    <3> HIDE DEF im
    <3>1. QED
      BY <1>2, <2>2, <2>6, <2>7, SeatedKept
  <2>9. QED
    BY <1>3, <1>8, <1>12, <2>1, <2>8 DEF Fine
<1>13. bound = Len(ns) => Fine(<<i, n>>)'
  <2>1. bound = Len(ns) => Seated(new, n, vas')
    BY <1>1, SeatedBound
  <2>2. <<i, n>>[1] = i /\ <<i, n>>[2] = n
    OBVIOUS
  <2>3. QED
    BY <1>3, <1>8, <2>1, <2>2 DEF Fine
<1>14. ASSUME NEW part \in Reported' PROVE Fine(part)'
  <2>1. CASE part \in Reported
    BY <1>11, <1>12, <2>1
  <2>2. CASE part \notin Reported
    BY <1>10, <1>13, <1>14, <2>2
  <2>3. QED
    BY <2>1, <2>2
<1>15. QED
  BY <1>14 DEF BindInv

(* The invariant of the bindings.                                           *)
BindingInv == ImageInv /\ AddrInv /\ BindInv

(* It holds of every behaviour.                                             *)
LEMMA BindingInvariant == Spec => []BindingInv
<1>1. Init => BindingInv
  <2>1. Init => /\ ImageInv /\ Live = {} /\ making = NoImage /\ told = {} /\ batch.parts = {}
    BY InitInv DEF Init, Live, NoBatch
  <2>2. Init => Owners = {} /\ Reported = {}
    BY <2>1 DEF Owners, Reported
  <2>3. QED
    BY <2>1, <2>2 DEF BindingInv, AddrInv, BindInv
<1>2. BindingInv /\ [Next]_vars => BindingInv'
  <2> SUFFICES ASSUME BindingInv, [Next]_vars PROVE BindingInv'
    OBVIOUS
  <2>1. TypeInv /\ ToldInv /\ RangesInv /\ AddrInv /\ BindInv
    BY DEF BindingInv, ImageInv
  <2>2. ImageInv' /\ TypeInv' /\ ToldInv'
    BY <2>1, NextInv DEF ImageInv
  <2>3. AddrInv'
    BY <2>1, AddrStep
  <2>4. BindInv'
    <3>1. CASE \/ GetPhysicalDeviceImageFormatProperties2 \/ CreateBegin \/ BindBegin \/ BindEnd
               \/ UNCHANGED vars \/ QueueOpaqueBind \/ QueueMipTailBind \/ QueueImageBind
      BY <2>1, <2>2, <3>1, BindQuiet
    <3>2. CASE AllocVa \/ AllocShadow \/ DestroyImage
      BY <2>1, <2>2, <3>2, BindRanges
    <3>3. CASE BindImageMemory
      BY <2>1, <3>3, BindMemory
    <3>4. CASE BindSwapchainImage
      BY <2>1, <2>2, <3>4, BindSwapchain
    <3>5. QED
      BY <3>1, <3>2, <3>3, <3>4 DEF Next
  <2>5. QED
    BY <2>2, <2>3, <2>4 DEF BindingInv
<1>3. QED
  BY <1>1, <1>2, PTL DEF Spec

(* Of up to four numbers one is the largest, ...                             *)
LEMMA Largest ==
  ASSUME NEW L \in 1 .. 4, NEW f, \A k \in 1 .. L : f[k] \in Nat
  PROVE  \E k \in 1 .. L : \A l \in 1 .. L : f[k] >= f[l]
<1>1. L \in {1, 2, 3, 4}
  OBVIOUS
<1>2. CASE L = 1
  <2>1. \A l \in 1 .. 1 : l = 1
    OBVIOUS
  <2>2. 1 \in 1 .. 1 /\ f[1] >= f[1]
    BY <1>2
  <2>3. QED
    BY <1>2, <2>1, <2>2
<1>3. CASE L = 2
  <2>1. f[1] \in Nat /\ f[2] \in Nat /\ \A l \in 1 .. 2 : l = 1 \/ l = 2
    BY <1>3
  <2>2. 1 \in 1 .. 2 /\ 2 \in 1 .. 2
    OBVIOUS
  <2>3. QED
    BY <1>3, <2>1, <2>2
<1>4. CASE L = 3
  <2>1. f[1] \in Nat /\ f[2] \in Nat /\ f[3] \in Nat /\ \A l \in 1 .. 3 : l = 1 \/ l = 2 \/ l = 3
    BY <1>4
  <2>2. 1 \in 1 .. 3 /\ 2 \in 1 .. 3 /\ 3 \in 1 .. 3
    OBVIOUS
  <2>3. QED
    BY <1>4, <2>1, <2>2
<1>5. CASE L = 4
  <2>1. f[1] \in Nat /\ f[2] \in Nat /\ f[3] \in Nat /\ f[4] \in Nat
        /\ \A l \in 1 .. 4 : l = 1 \/ l = 2 \/ l = 3 \/ l = 4
    BY <1>5
  <2>2. 1 \in 1 .. 4 /\ 2 \in 1 .. 4 /\ 3 \in 1 .. 4 /\ 4 \in 1 .. 4
    OBVIOUS
  <2>3. QED
    BY <1>5, <2>1, <2>2
<1>6. QED
  BY <1>1, <1>2, <1>3, <1>4, <1>5

(* ... and what the largest alignment of an image divides all of them divide.  *)
LEMMA AlignedForAll ==
  ASSUME NEW i \in Infos, NEW im \in ImageType, Shaped(im, i),
         NEW n \in 1 .. im.count, im.disjoint \/ n = 1,
         NEW offset \in Nat, offset % Requirements(im, n).align = 0
  PROVE  LET parts == Parts(im, Targets(im, n))
         IN \A k \in 1 .. Len(parts) : offset % parts[k].align = 0
<1> DEFINE ns    == Targets(im, n)
           parts == Parts(im, ns)
           S     == {parts[k].align : k \in DOMAIN parts}
<1>1. /\ Len(ns) \in 1 .. 4 /\ DOMAIN ns = 1 .. Len(ns)
      /\ \A k \in 1 .. Len(ns) : ns[k] \in 1 .. Len(im.planes)
  BY TargetsFacts
<1>2. /\ DOMAIN parts = 1 .. Len(ns) /\ Len(parts) = Len(ns)
      /\ \A k \in 1 .. Len(ns) : parts[k].align = PlaneAlign(im, im.planes[ns[k]])
  <2> HIDE DEF ns
  <2>1. Len(ns) \in 0 .. 4
    BY <1>1
  <2>2. Len(parts) = Len(ns) /\ \A k \in 1 .. Len(ns) : parts[k].align = PlaneAlign(im, im.planes[ns[k]])
    BY <1>1, <2>1, PartsFacts
  <2>3. DOMAIN parts = 1 .. Len(ns)
    BY <1>1 DEF Parts
  <2>4. QED
    BY <2>2, <2>3
<1>3. Requirements(im, n).align = Max(S)
  BY DEF Requirements
<1>4. \A k \in 1 .. Len(ns) : parts[k].align \in Nat \ {0} /\ parts[k].align \in Alignments
  <2>1. ASSUME NEW p \in PlaneType PROVE PlaneAlign(im, p) \in Nat \ {0} /\ PlaneAlign(im, p) \in Alignments
    <3>1. p.nil \in Layouts
      BY DEF PlaneType
    <3>2. p.nil.align \in Alignments /\ BindAlign \in Alignments
      BY <3>1 DEF Alignments, Layouts, Infos
    <3>3. QED
      BY <3>2, PlaneFacts DEF PlaneAlign, Most
  <2>2. \A k \in 1 .. Len(ns) : im.planes[ns[k]] \in PlaneType
    BY <1>1, ShapeFacts
  <2> HIDE DEF ns, parts
  <2>3. QED
    BY <1>2, <2>1, <2>2
<1> HIDE DEF ns, parts
<1>5. PICK L : L = Len(ns)
  OBVIOUS
<1>6. \E k \in 1 .. L : \A l \in 1 .. L : parts[k].align >= parts[l].align
  <2> DEFINE f == [k \in 1 .. L |-> parts[k].align]
  <2>1. L \in 1 .. 4 /\ \A k \in 1 .. L : f[k] \in Nat
    BY <1>1, <1>4, <1>5
  <2>2. \A k \in 1 .. L : f[k] = parts[k].align
    OBVIOUS
  <2> HIDE DEF f
  <2>3. \E k \in 1 .. L : \A l \in 1 .. L : f[k] >= f[l]
    BY <2>1, Largest
  <2>4. QED
    BY <2>2, <2>3
<1>7. \E x \in S : \A y \in S : x >= y
  BY <1>2, <1>5, <1>6
<1>8. Max(S) \in S /\ \A y \in S : Max(S) >= y
  <2> HIDE DEF S
  <2>1. QED
    BY <1>7 DEF Max
<1>9. ASSUME NEW k \in 1 .. L PROVE offset % parts[k].align = 0
  <2>1. PICK a, b : a = parts[k].align /\ b = Max(S)
    OBVIOUS
  <2>2. a \in S /\ b \in S /\ a <= b
    BY <1>2, <1>4, <1>5, <1>8, <2>1
  <2>3. a \in Nat \ {0} /\ b \in Nat \ {0} /\ a \in Alignments /\ b \in Alignments
    BY <1>2, <1>4, <1>5, <2>2
  <2>4. b % a = 0
    BY <2>2, <2>3, ImageAssumption
  <2>5. offset % b = 0
    BY <1>3, <2>1
  <2>6. QED
    BY <2>1, <2>3, <2>4, <2>5, Divisible
<1>10. QED
  BY <1>2, <1>5, <1>9 DEF parts, ns

(* The planes of a binding lie in the room that the requirements name, one      *)
(* behind the other, each aligned.                                          *)
LEMMA PlacesFacts ==
  ASSUME NEW i \in Infos, NEW im \in ImageType, Shaped(im, i),
         NEW n \in 1 .. im.count, im.disjoint \/ n = 1,
         NEW offset \in Nat, offset % Requirements(im, n).align = 0
  PROVE  LET ns      == Targets(im, n)
             parts   == Parts(im, ns)
             at(k)   == Place(im, ns, k, offset)
             size(k) == PlaneSize(im, im.planes[ns[k]])
         IN /\ Requirements(im, n).size \in Nat
            /\ \A k \in 1 .. Len(ns) :
                 /\ at(k) \in Nat /\ size(k) \in Nat \ {0}
                 /\ at(k) % PlaneAlign(im, im.planes[ns[k]]) = 0
                 /\ at(k) = offset + Align(Starts(parts, 0)[k], PlaneAlign(im, im.planes[ns[k]]))
                 /\ offset <= at(k) /\ at(k) + size(k) <= offset + Requirements(im, n).size
            /\ \A j, k \in 1 .. Len(ns) : k < j => at(k) + size(k) <= at(j)
<1> DEFINE ns      == Targets(im, n)
           parts   == Parts(im, ns)
           at(k)   == Place(im, ns, k, offset)
           size(k) == PlaneSize(im, im.planes[ns[k]])
           a(k)    == PlaneAlign(im, im.planes[ns[k]])
           s       == Starts(parts, offset)
           z       == Starts(parts, 0)
<1>1. /\ Len(ns) \in 1 .. 4 /\ DOMAIN ns = 1 .. Len(ns)
      /\ \A k \in 1 .. Len(ns) : ns[k] \in 1 .. Len(im.planes)
  BY TargetsFacts
<1>2. /\ Chunks(parts) /\ Len(parts) = Len(ns)
      /\ \A k \in 1 .. Len(ns) : parts[k].size = size(k) /\ parts[k].align = a(k)
  <2> HIDE DEF ns
  <2>1. Len(ns) \in 0 .. 4
    BY <1>1
  <2>2. QED
    BY <1>1, <2>1, PartsFacts
<1>3. Requirements(im, n).size = z[Len(parts) + 1]
  BY DEF Requirements
<1>4. \A k \in 1 .. Len(parts) : offset % parts[k].align = 0
  BY AlignedForAll
<1>5. \A k \in 1 .. Len(ns) : size(k) \in Nat \ {0} /\ a(k) \in Nat \ {0}
  <2>1. \A k \in 1 .. Len(ns) : im.planes[ns[k]] \in PlaneType
    BY <1>1, ShapeFacts
  <2>2. QED
    BY <2>1, PlaneFacts
<1>6. \A k \in 1 .. Len(ns) : at(k) = Align(s[k], a(k))
  BY DEF Place
<1> HIDE DEF ns
<1>7. PICK L : L = Len(ns)
  OBVIOUS
<1>8. L \in 1 .. 4
  BY <1>1, <1>7
<1> HIDE DEF parts
<1>9. /\ s[1] = offset /\ \A k \in 1 .. L + 1 : s[k] \in Nat /\ z[k] \in Nat
      /\ \A k \in 1 .. L : s[k + 1] = Align(s[k], a(k)) + size(k)
  BY <1>2, <1>7, StartsFacts, SMTT(30)
<1>10. \A j, k \in 1 .. L + 1 : j <= k => s[j] <= s[k]
  BY <1>2, <1>7, StartsRise
<1>11. \A k \in 1 .. L + 1 : s[k] = offset + z[k]
  BY <1>2, <1>4, <1>7, StartsShift
<1> HIDE DEF s, z, at, size, a
<1>12. ASSUME NEW k \in 1 .. L
       PROVE  /\ at(k) \in Nat /\ at(k) % a(k) = 0 /\ at(k) = offset + Align(z[k], a(k))
              /\ s[k] <= at(k) /\ at(k) + size(k) = s[k + 1] /\ offset <= s[k]
              /\ k + 1 \in 1 .. L + 1 /\ k \in 1 .. L + 1 /\ L + 1 \in 1 .. L + 1 /\ k + 1 <= L + 1
  <2>1. /\ k + 1 \in 1 .. L + 1 /\ k \in 1 .. L + 1 /\ 1 \in 1 .. L + 1 /\ 1 <= k
        /\ L + 1 \in 1 .. L + 1 /\ k + 1 <= L + 1
    BY <1>8
  <2>2. s[k] \in Nat /\ z[k] \in Nat /\ s[k] = offset + z[k] /\ s[1] <= s[k]
    BY <1>9, <1>10, <1>11, <2>1
  <2>3. a(k) \in Nat \ {0} /\ at(k) = Align(s[k], a(k)) /\ offset % a(k) = 0
    BY <1>2, <1>4, <1>5, <1>6, <1>7
  <2>4. at(k) \in Nat /\ at(k) >= s[k] /\ at(k) % a(k) = 0
    BY <2>2, <2>3, AlignFacts, AlignMultiple
  <2>5. Align(offset + z[k], a(k)) = offset + Align(z[k], a(k))
    <3>1. PICK y, b : y = z[k] /\ b = a(k)
      OBVIOUS
    <3>2. y \in Nat /\ b \in Nat \ {0} /\ offset % b = 0
      BY <2>2, <2>3, <3>1
    <3>3. Align(offset + y, b) = offset + Align(y, b)
      BY <3>2, AlignShift
    <3>4. QED
      BY <3>1, <3>3
  <2>6. QED
    BY <1>9, <2>1, <2>2, <2>3, <2>4, <2>5
<1>13. Requirements(im, n).size \in Nat /\ s[L + 1] = offset + Requirements(im, n).size
  <2>1. L + 1 \in 1 .. L + 1
    BY <1>8
  <2>2. QED
    BY <1>2, <1>3, <1>7, <1>9, <1>11, <2>1
<1>14. ASSUME NEW k \in 1 .. L
       PROVE  offset <= at(k) /\ at(k) + size(k) <= offset + Requirements(im, n).size
  <2>1. s[k + 1] <= s[L + 1] /\ s[k] \in Nat
    BY <1>9, <1>10, <1>12
  <2>2. QED
    BY <1>12, <1>13, <2>1
<1>15. ASSUME NEW j \in 1 .. L, NEW k \in 1 .. L, k < j
       PROVE  at(k) + size(k) <= at(j)
  <2>1. k + 1 <= j /\ k + 1 \in 1 .. L + 1 /\ j \in 1 .. L + 1
    BY <1>8, <1>15
  <2>2. s[k + 1] <= s[j] /\ s[j] \in Nat /\ s[k + 1] \in Nat
    BY <1>9, <1>10, <2>1
  <2>3. QED
    BY <1>12, <2>2
<1>16. QED
  BY <1>5, <1>7, <1>12, <1>13, <1>14, <1>15 DEF at, size, a, z, parts, ns

(* What the GPU finds in a plane that sits in its place.                      *)
LEMMA SeenFacts ==
  ASSUME NEW i \in Infos, NEW im \in ImageType, Shaped(im, i), NEW n, Seated(im, n, vas)
  PROVE  LET ns    == Targets(im, n)
             asked == im.asked[n]
         IN /\ n \in 1 .. im.count /\ (im.disjoint \/ n = 1)
            /\ asked[2] \in Nat /\ asked[2] % Requirements(im, n).align = 0
            /\ \A k \in 1 .. Len(ns) :
                 /\ "host" \in im.usage =>
                      im.planes[ns[k]].host = <<asked[1], Place(im, ns, k, asked[2])>>
                 /\ \A o \in 0 .. PlaneSize(im, im.planes[ns[k]]) - 1 :
                      Seen(im.planes[ns[k]], o) = <<asked[1], Place(im, ns, k, asked[2]) + o>>
<1> DEFINE ns    == Targets(im, n)
           asked == im.asked[n]
<1>1. /\ n \in 1 .. im.count /\ (im.disjoint \/ n = 1) /\ asked \in Mems \X Nat
      /\ asked[2] % Requirements(im, n).align = 0
      /\ \A k \in 1 .. Len(ns) : Sits(im, im.planes[ns[k]], asked[1], Place(im, ns, k, asked[2]), vas)
  BY DEF Seated
<1>2. ASSUME NEW p, NEW m, NEW at, Sits(im, p, m, at, vas), NEW o \in 0 .. PlaneSize(im, p) - 1
      PROVE  Seen(p, o) = <<m, at + o>>
  <2>1. CASE HasVa(im, p)
    <3>1. p.addr = <<"va", p.va>> /\ vas[p.va] = [x \in 0 .. PlaneSize(im, p) - 1 |-> <<m, at + x>>]
      BY <1>2, <2>1 DEF Sits
    <3>2. Seen(p, o) = vas[p.va][o]
      <4>1. p.addr[1] = "va" /\ p.addr[2] = p.va
        BY <3>1
      <4>2. QED
        BY <4>1 DEF Seen
    <3>3. QED
      BY <1>2, <3>1, <3>2
  <2>2. CASE ~HasVa(im, p)
    <3>1. p.addr = <<"mem", m, at>>
      BY <1>2, <2>2 DEF Sits
    <3>2. QED
      BY <3>1 DEF Seen
  <2>3. QED
    BY <2>1, <2>2
<1>3. asked[2] \in Nat
  BY <1>1
<1>4. \A k \in 1 .. Len(ns) :
        "host" \in im.usage => im.planes[ns[k]].host = <<asked[1], Place(im, ns, k, asked[2])>>
  BY <1>1 DEF Sits
<1>5. ASSUME NEW k \in 1 .. Len(ns), NEW o \in 0 .. PlaneSize(im, im.planes[ns[k]]) - 1
      PROVE  Seen(im.planes[ns[k]], o) = <<asked[1], Place(im, ns, k, asked[2]) + o>>
  <2>1. PICK p, m, at : p = im.planes[ns[k]] /\ m = asked[1] /\ at = Place(im, ns, k, asked[2])
    OBVIOUS
  <2>2. Sits(im, p, m, at, vas) /\ o \in 0 .. PlaneSize(im, p) - 1
    BY <1>1, <2>1
  <2>3. Seen(p, o) = <<m, at + o>>
    BY <1>2, <2>2
  <2>4. QED
    BY <2>1, <2>3
<1>6. QED
  BY <1>1, <1>3, <1>4, <1>5

(* An image whose planes are bound sees memory of its own, aligned, within the  *)
(* room of its binding.                                                     *)
LEMMA FitOne ==
  ASSUME NEW i \in Infos, NEW im \in ImageType, Shaped(im, i), NEW n, Seated(im, n, vas)
  PROVE  LET asked   == im.asked[n]
             room    == asked[2] .. asked[2] + Requirements(im, n).size - 1
             seen(k) == {Seen(im.planes[k], o) : o \in 0 .. PlaneSize(im, im.planes[k]) - 1}
             ns      == Targets(im, n)
         IN \A j \in DOMAIN ns :
              /\ \A page \in seen(ns[j]) : page # Unbound /\ page[1] = asked[1] /\ page[2] \in room
              /\ Seen(im.planes[ns[j]], 0)[2] % PlaneAlign(im, im.planes[ns[j]]) = 0
              /\ \A k \in 1 .. j - 1 : seen(ns[j]) \cap seen(ns[k]) = {}
<1> DEFINE ns      == Targets(im, n)
           m       == im.asked[n][1]
           offset  == im.asked[n][2]
           full    == Requirements(im, n).size
           at(k)   == Place(im, ns, k, offset)
           size(k) == PlaneSize(im, im.planes[ns[k]])
           a(k)    == PlaneAlign(im, im.planes[ns[k]])
           page(k, o) == Seen(im.planes[ns[k]], o)
<1>1. /\ n \in 1 .. im.count /\ (im.disjoint \/ n = 1)
      /\ offset \in Nat /\ offset % Requirements(im, n).align = 0
      /\ \A k \in 1 .. Len(ns) : \A o \in 0 .. size(k) - 1 : page(k, o) = <<m, at(k) + o>>
  BY SeenFacts
<1>2. Len(ns) \in 1 .. 4 /\ DOMAIN ns = 1 .. Len(ns)
  BY <1>1, TargetsFacts
<1>3. /\ full \in Nat
      /\ \A k \in 1 .. Len(ns) :
           /\ at(k) \in Nat /\ size(k) \in Nat \ {0} /\ at(k) % a(k) = 0
           /\ offset <= at(k) /\ at(k) + size(k) <= offset + full
      /\ \A j, k \in 1 .. Len(ns) : k < j => at(k) + size(k) <= at(j)
  BY <1>1, PlacesFacts
<1> HIDE DEF ns, m, offset, full, at, size, a, page
<1>4. PICK L : L = Len(ns)
  OBVIOUS
<1>5. ASSUME NEW k \in 1 .. L, NEW o \in 0 .. size(k) - 1
      PROVE  /\ page(k, o) = <<m, at(k) + o>> /\ page(k, o) # Unbound /\ page(k, o)[1] = m
             /\ page(k, o)[2] \in offset .. offset + full - 1 /\ page(k, o)[2] = at(k) + o
  <2>1. page(k, o) = <<m, at(k) + o>>
    BY <1>1, <1>4
  <2>2. page(k, o)[1] = m /\ page(k, o)[2] = at(k) + o /\ page(k, o) # Unbound
    BY <2>1 DEF Unbound
  <2>3. at(k) + o \in offset .. offset + full - 1
    BY <1>1, <1>3, <1>4
  <2>4. QED
    BY <2>1, <2>2, <2>3
<1>6. ASSUME NEW k \in 1 .. L PROVE page(k, 0)[2] % a(k) = 0
  <2>1. 0 \in 0 .. size(k) - 1 /\ at(k) \in Nat /\ at(k) % a(k) = 0
    BY <1>3, <1>4
  <2>2. page(k, 0)[2] = at(k)
    BY <1>5, <2>1
  <2>3. QED
    BY <2>1, <2>2
<1>7. ASSUME NEW j \in 1 .. L, NEW k \in 1 .. L, k < j,
             NEW o \in 0 .. size(j) - 1, NEW x \in 0 .. size(k) - 1
      PROVE  page(j, o) # page(k, x)
  <2>1. page(j, o)[2] = at(j) + o /\ page(k, x)[2] = at(k) + x
    BY <1>5, <1>7
  <2>2. at(k) + size(k) <= at(j) /\ at(k) \in Nat /\ at(j) \in Nat /\ size(k) \in Nat /\ size(j) \in Nat
    BY <1>3, <1>4, <1>7
  <2>3. at(j) + o # at(k) + x
    BY <1>7, <2>2
  <2>4. QED
    BY <2>1, <2>3
<1>8. L \in 1 .. 4 /\ DOMAIN ns = 1 .. L
  BY <1>2, <1>4
<1>9. ASSUME NEW j \in 1 .. L
      PROVE  LET room    == offset .. offset + full - 1
                 seen(k) == {page(k, o) : o \in 0 .. size(k) - 1}
             IN /\ \A p \in seen(j) : p # Unbound /\ p[1] = m /\ p[2] \in room
                /\ page(j, 0)[2] % a(j) = 0
                /\ \A k \in 1 .. j - 1 : seen(j) \cap seen(k) = {}
  <2>1. \A k \in 1 .. j - 1 : k \in 1 .. L /\ k < j
    BY <1>8
  <2>2. QED
    BY <1>5, <1>6, <1>7, <2>1
<1>10. \A j \in DOMAIN ns :
         /\ \A p \in {page(j, o) : o \in 0 .. size(j) - 1} :
              p # Unbound /\ p[1] = m /\ p[2] \in offset .. offset + full - 1
         /\ page(j, 0)[2] % a(j) = 0
         /\ \A k \in 1 .. j - 1 :
              {page(j, o) : o \in 0 .. size(j) - 1} \cap {page(k, o) : o \in 0 .. size(k) - 1} = {}
  <2>1. ASSUME NEW j \in DOMAIN ns
        PROVE  /\ \A p \in {page(j, o) : o \in 0 .. size(j) - 1} :
                    p # Unbound /\ p[1] = m /\ p[2] \in offset .. offset + full - 1
               /\ page(j, 0)[2] % a(j) = 0
               /\ \A k \in 1 .. j - 1 :
                    {page(j, o) : o \in 0 .. size(j) - 1} \cap {page(k, o) : o \in 0 .. size(k) - 1} = {}
    <3>1. j \in 1 .. L
      BY <1>8, <2>1
    <3>2. QED
      BY <1>9, <3>1
  <2>2. QED
    BY <2>1
<1>11. QED
  BY <1>10 DEF ns, m, offset, full, at, size, a, page

(* What was reported as bound fits, and shares what it should: the parts of      *)
(* BindingsSound that need nothing of the formats.                            *)
LEMMA FitStep ==
  ASSUME TypeInv, ToldInv, BindInv
  PROVE  BindingsFit /\ SwapchainImageShared
<1>1. \A part \in told : part \in Reported
  BY DEF Reported
<1>2. ASSUME NEW part \in told, part[1] \notin DOMAIN Alias
      PROVE  LET im == image[part[1]]
             IN /\ part[1] \in Infos /\ im \in ImageType /\ Shaped(im, part[1]) /\ Seated(im, part[2], vas)
  BY <1>1, <1>2, ReportedFacts, LiveFacts DEF Fine
<1>3. BindingsFit
  <2>1. ASSUME NEW part \in told, part[1] \notin DOMAIN Alias
        PROVE  LET im    == image[part[1]]
                   asked == im.asked[part[2]]
                   room  == asked[2] .. asked[2] + Requirements(im, part[2]).size - 1
                   seen(k) == {Seen(im.planes[k], o) : o \in 0 .. PlaneSize(im, im.planes[k]) - 1}
                   ns    == Targets(im, part[2])
               IN \A j \in DOMAIN ns :
                    /\ \A page \in seen(ns[j]) : page # Unbound /\ page[1] = asked[1] /\ page[2] \in room
                    /\ Seen(im.planes[ns[j]], 0)[2] % PlaneAlign(im, im.planes[ns[j]]) = 0
                    /\ \A k \in 1 .. j - 1 : seen(ns[j]) \cap seen(ns[k]) = {}
    <3>1. PICK i, im, n : i = part[1] /\ im = image[part[1]] /\ n = part[2]
      OBVIOUS
    <3>2. i \in Infos /\ im \in ImageType /\ Shaped(im, i) /\ Seated(im, n, vas)
      BY <1>2, <2>1, <3>1
    <3>3. LET asked   == im.asked[n]
              room    == asked[2] .. asked[2] + Requirements(im, n).size - 1
              seen(k) == {Seen(im.planes[k], o) : o \in 0 .. PlaneSize(im, im.planes[k]) - 1}
              ns      == Targets(im, n)
          IN \A j \in DOMAIN ns :
               /\ \A page \in seen(ns[j]) : page # Unbound /\ page[1] = asked[1] /\ page[2] \in room
               /\ Seen(im.planes[ns[j]], 0)[2] % PlaneAlign(im, im.planes[ns[j]]) = 0
               /\ \A k \in 1 .. j - 1 : seen(ns[j]) \cap seen(ns[k]) = {}
      BY <3>2, FitOne
    <3>4. QED
      BY <3>1, <3>3
  <2>2. QED
    BY <2>1 DEF BindingsFit
<1>4. SwapchainImageShared
  <2>1. ASSUME NEW i \in DOMAIN Alias, <<i, 1>> \in told
        PROVE  Seen(image[i].planes[1], 0) = Seen(image[Alias[i]].planes[1], 0)
    <3>1. <<i, 1>> \in Reported /\ <<i, 1>>[1] = i
      BY <1>1, <2>1
    <3>2. Fine(<<i, 1>>)
      BY <3>1, ReportedFacts
    <3>3. image[i].planes[1].addr = image[Alias[i]].planes[1].addr
      BY <2>1, <3>1, <3>2 DEF Fine, SwapchainAddress
    <3>4. QED
      BY <3>3 DEF Seen
  <2>2. QED
    BY <2>1 DEF SwapchainImageShared
<1>5. QED
  BY <1>3, <1>4

(* Where planes that are bound together lie, behind one another.  The hypothesis *)
(* of the layouts: nvk_get_image_subresource_layout adds up the sizes of the    *)
(* planes before one and does not align the sum to the plane, as the binding    *)
(* does, so that the two agree where no plane of an image that is bound whole   *)
(* is aligned coarser than the one before it.                                *)
PlanesByAlignment ==
  \A i \in Infos :
    LET im == ImageInit(i)
    IN ~im.disjoint =>
         \A n \in 2 .. im.count : PlaneAlign(im, im.planes[n]) <= PlaneAlign(im, im.planes[n - 1])

(* Each plane of an image that is bound is where the layout says.             *)
LEMMA LayoutOne ==
  ASSUME PlanesByAlignment, NEW i \in Infos, NEW im \in ImageType, Shaped(im, i), NEW n, Seated(im, n, vas),
         NEW x \in 1 .. im.count, im.disjoint => x = n
  PROVE  LET there == <<im.asked[n][1], im.asked[n][2] + LayoutOffset(im, x)>>
         IN Seen(im.planes[x], 0) = there /\ ("host" \in im.usage => im.planes[x].host = there)
<1> DEFINE ns      == Targets(im, n)
           m       == im.asked[n][1]
           offset  == im.asked[n][2]
           parts   == Parts(im, ns)
           at(k)   == Place(im, ns, k, offset)
           a(k)    == PlaneAlign(im, im.planes[ns[k]])
           z       == Starts(parts, 0)
           there   == <<m, offset + LayoutOffset(im, x)>>
<1>1. /\ n \in 1 .. im.count /\ (im.disjoint \/ n = 1)
      /\ offset \in Nat /\ offset % Requirements(im, n).align = 0
      /\ \A k \in 1 .. Len(ns) :
           /\ "host" \in im.usage => im.planes[ns[k]].host = <<m, at(k)>>
           /\ \A o \in 0 .. PlaneSize(im, im.planes[ns[k]]) - 1 : Seen(im.planes[ns[k]], o) = <<m, at(k) + o>>
  BY SeenFacts
<1>2. /\ Len(ns) \in 1 .. 4 /\ DOMAIN ns = 1 .. Len(ns)
      /\ \A k \in 1 .. Len(ns) : ns[k] \in 1 .. Len(im.planes)
      /\ im.disjoint => Len(ns) = 1 /\ ns[1] = n
      /\ ~im.disjoint => Len(ns) = Len(im.planes) /\ \A k \in 1 .. Len(ns) : ns[k] = k
  BY <1>1, TargetsFacts
<1>3. \A k \in 1 .. Len(ns) :
        /\ at(k) \in Nat /\ PlaneSize(im, im.planes[ns[k]]) \in Nat \ {0}
        /\ at(k) = offset + Align(z[k], a(k))
  BY <1>1, PlacesFacts
<1>4. /\ im.count \in 1 .. 3 /\ Len(im.planes) \in 1 .. 4
      /\ Len(im.planes) = im.count \/ Len(im.planes) = im.count + 1
      /\ \A k \in 1 .. Len(im.planes) : im.planes[k] \in PlaneType
  BY ShapeFacts
<1>5. \A k \in 1 .. Len(im.planes) :
        PlaneAlign(im, im.planes[k]) \in Nat \ {0} /\ PlaneSize(im, im.planes[k]) \in Nat \ {0}
  BY <1>4, PlaneFacts
<1>6. Chunks(parts) /\ Len(parts) = Len(ns)
      /\ \A k \in 1 .. Len(ns) :
           parts[k].size = PlaneSize(im, im.planes[ns[k]]) /\ parts[k].align = PlaneAlign(im, im.planes[ns[k]])
  <2> HIDE DEF ns
  <2>1. Len(ns) \in 0 .. 4
    BY <1>2
  <2>2. QED
    BY <1>2, <2>1, PartsFacts
(* The plane is target k, and its start needs no alignment.                   *)
<1>7. \E k \in 1 .. Len(ns) : ns[k] = x /\ Align(z[k], a(k)) = LayoutOffset(im, x)
  <2>1. CASE im.disjoint
    <3>1. x = n /\ ns[1] = x /\ LayoutOffset(im, x) = 0 /\ 1 \in 1 .. Len(ns)
      <4>1. 1 \in 1 .. 1
        OBVIOUS
      <4>2. QED
        BY <1>2, <2>1, <4>1 DEF LayoutOffset
    <3>2. z[1] = 0
      <4> HIDE DEF parts
      <4>1. QED
        BY <1>6, StartsFacts
    <3>3. a(1) \in Nat \ {0}
      BY <1>2, <1>5, <3>1
    <3>4. 0 % a(1) = 0
      <4> HIDE DEF a
      <4>1. QED
        BY <3>3
    <3>5. Align(0, a(1)) = 0
      <4> HIDE DEF a
      <4>1. QED
        BY <3>3, <3>4, AlignMultiple
    <3>6. QED
      BY <3>1, <3>2, <3>5
  <2>2. CASE ~im.disjoint
    <3> DEFINE C     == im.count
               short == Parts(im, UpTo(C))
               y     == Starts(short, 0)
    <3>1. Len(ns) = Len(im.planes) /\ \A k \in 1 .. Len(ns) : ns[k] = k
      BY <1>2, <2>2
    <3>2. Len(UpTo(C)) = C /\ DOMAIN UpTo(C) = 1 .. C /\ \A k \in 1 .. C : UpTo(C)[k] = k
      <4> HIDE DEF C
      <4>1. C \in 1 .. 3
        BY <1>4 DEF C
      <4>2. UpTo(C) \in [1 .. C -> Nat] /\ \A k \in 1 .. C : UpTo(C)[k] = k
        BY DEF UpTo
      <4>3. Len(UpTo(C)) = C /\ DOMAIN UpTo(C) = 1 .. C
        BY <4>1, <4>2
      <4>4. QED
        BY <4>2, <4>3
    <3>3. C <= Len(im.planes) /\ C \in 0 .. 4 /\ \A k \in 1 .. C : k \in 1 .. Len(im.planes)
      <4>1. PICK L : L = Len(im.planes)
        OBVIOUS
      <4>2. L \in 1 .. 4 /\ (L = C \/ L = C + 1) /\ C \in 1 .. 3
        BY <1>4, <4>1
      <4> HIDE DEF C
      <4>3. C <= L /\ C \in 0 .. 4 /\ \A k \in 1 .. C : k \in 1 .. L
        BY <4>2
      <4>4. QED
        BY <4>1, <4>3
    <3> HIDE DEF C
    <3>4. Chunks(short) /\ Len(short) = C
          /\ \A k \in 1 .. C :
               short[k].size = PlaneSize(im, im.planes[k]) /\ short[k].align = PlaneAlign(im, im.planes[k])
      <4> DEFINE us == UpTo(C)
      <4>1. Len(us) \in 0 .. 4 /\ DOMAIN us = 1 .. Len(us) /\ \A k \in 1 .. Len(us) : us[k] \in 1 .. Len(im.planes)
        BY <3>2, <3>3
      <4> HIDE DEF us
      <4>2. Chunks(Parts(im, us)) /\ Len(Parts(im, us)) = Len(us)
            /\ \A k \in 1 .. Len(us) :
                 /\ Parts(im, us)[k].size = PlaneSize(im, im.planes[us[k]])
                 /\ Parts(im, us)[k].align = PlaneAlign(im, im.planes[us[k]])
        BY <4>1, PartsFacts
      <4>3. QED
        BY <3>2, <4>2 DEF us
    <3>5. \A k \in 1 .. C : k \in 1 .. Len(ns) /\ parts[k].size = short[k].size /\ parts[k].align = short[k].align
      BY <1>6, <3>1, <3>3, <3>4
    <3> HIDE DEF short
    <3>6. \A k \in 1 .. C + 1 : y[k] = z[k]
      <4> HIDE DEF parts
      <4>1. Chunks(parts) /\ Len(short) <= Len(parts)
        BY <1>6, <3>1, <3>3, <3>4
      <4>2. QED
        BY <3>4, <3>5, <4>1, StartsPrefix
    <3>7. \A k \in 1 .. Len(short) : short[k].size % short[k].align = 0
      <4>1. ASSUME NEW k \in 1 .. C PROVE short[k].size % short[k].align = 0
        <5>1. PICK p, al : p = im.planes[k] /\ al = PlaneAlign(im, p)
          OBVIOUS
        <5>2. p \in PlaneType /\ al \in Nat \ {0}
          BY <1>4, <1>5, <3>3, <5>1
        <5>3. p.nil.size \in Nat \ {0}
          BY <5>2, LayoutFacts DEF PlaneType
        <5>4. PlaneSize(im, p) = Align(p.nil.size, al)
          BY <5>1 DEF PlaneSize
        <5>5. Align(p.nil.size, al) % al = 0
          BY <5>2, <5>3, AlignMultiple
        <5>6. QED
          BY <3>4, <5>1, <5>4, <5>5
      <4>2. QED
        BY <3>4, <4>1
    <3>8. \A k \in 2 .. Len(short) : short[k - 1].align % short[k].align = 0
      <4>1. ASSUME NEW k \in 2 .. C PROVE short[k - 1].align % short[k].align = 0
        <5>1. k \in 1 .. C /\ k - 1 \in 1 .. C /\ k \in 1 .. Len(im.planes) /\ k - 1 \in 1 .. Len(im.planes)
          BY <3>3
        <5>2. PICK al, be : al = PlaneAlign(im, im.planes[k]) /\ be = PlaneAlign(im, im.planes[k - 1])
          OBVIOUS
        <5>3. al \in Nat \ {0} /\ be \in Nat \ {0} /\ al \in Alignments /\ be \in Alignments
          <6>1. ASSUME NEW p \in PlaneType PROVE PlaneAlign(im, p) \in Alignments
            <7>1. p.nil \in Layouts
              BY DEF PlaneType
            <7>2. p.nil.align \in Alignments /\ BindAlign \in Alignments
              BY <7>1 DEF Alignments, Layouts, Infos
            <7>3. QED
              BY <7>2 DEF PlaneAlign, Most
          <6>2. QED
            BY <1>4, <1>5, <5>1, <5>2, <6>1
        <5>4. al <= be
          <6> DEFINE new == ImageInit(i)
          <6>1. new.disjoint = im.disjoint /\ new.count = im.count /\ new.sparse = im.sparse
                /\ new.planes[k].nil = im.planes[k].nil /\ new.planes[k - 1].nil = im.planes[k - 1].nil
            BY <5>1 DEF Shaped
          <6>2. k \in 2 .. new.count
            BY <6>1 DEF C
          <6>3. PlaneAlign(new, new.planes[k]) <= PlaneAlign(new, new.planes[k - 1])
            <7>1. ~new.disjoint
              BY <2>2, <6>1
            <7>2. QED
              BY <6>2, <7>1 DEF PlanesByAlignment
          <6>4. PlaneAlign(new, new.planes[k]) = al /\ PlaneAlign(new, new.planes[k - 1]) = be
            BY <5>2, <6>1 DEF PlaneAlign
          <6>5. QED
            BY <6>3, <6>4
        <5>5. be % al = 0
          BY <5>3, <5>4, ImageAssumption
        <5>6. QED
          BY <3>4, <5>1, <5>2, <5>5
      <4>2. QED
        BY <3>4, <4>1
    <3>9. \A k \in 1 .. Len(short) : y[k] % short[k].align = 0
      BY <3>4, <3>7, <3>8, StartsAligned
    <3>10. x \in 1 .. C /\ x \in 1 .. Len(ns) /\ ns[x] = x /\ x \in 1 .. C + 1
      <4>1. x \in 1 .. C
        BY DEF C
      <4>2. x \in 1 .. C + 1
        BY <3>3, <4>1
      <4>3. QED
        BY <3>1, <3>5, <4>1, <4>2
    <3>11. LayoutOffset(im, x) = y[x]
      BY <2>2 DEF LayoutOffset, short, C
    <3>12. y[x] \in Nat
      <4>1. Chunks(short) /\ x \in 1 .. Len(short) + 1
        BY <3>4, <3>10
      <4>2. QED
        BY <4>1, StartsFacts
    <3>13. a(x) \in Nat \ {0} /\ y[x] % a(x) = 0
      BY <1>6, <3>4, <3>5, <3>9, <3>10, <1>5, <1>2
    <3>14. Align(y[x], a(x)) = y[x]
      <4>1. PICK u, b : u = y[x] /\ b = a(x)
        OBVIOUS
      <4>2. u \in Nat /\ b \in Nat \ {0} /\ u % b = 0
        BY <3>12, <3>13, <4>1
      <4>3. Align(u, b) = u
        BY <4>2, AlignMultiple
      <4>4. QED
        BY <4>1, <4>3
    <3>15. y[x] = z[x]
      BY <3>6, <3>10
    <3>16. QED
      BY <3>10, <3>11, <3>14, <3>15
  <2>3. QED
    BY <2>1, <2>2
<1>8. PICK k \in 1 .. Len(ns) : ns[k] = x /\ Align(z[k], a(k)) = LayoutOffset(im, x)
  BY <1>7
<1>9. at(k) = offset + LayoutOffset(im, x) /\ at(k) \in Nat
  BY <1>3, <1>8
<1>10. 0 \in 0 .. PlaneSize(im, im.planes[ns[k]]) - 1
  BY <1>3
<1>11. Seen(im.planes[x], 0) = <<m, at(k) + 0>> /\ ("host" \in im.usage => im.planes[x].host = <<m, at(k)>>)
  BY <1>1, <1>8, <1>10
<1>12. at(k) + 0 = at(k)
  BY <1>9
<1>13. QED
  BY <1>9, <1>11, <1>12

(* A successful bind puts an image where it should be (BindingsFit,            *)
(* SwapchainImageShared), whatever the formats, ...                          *)
THEOREM BindingsFitCorrect == Spec => [](BindingsFit /\ SwapchainImageShared)
<1>1. BindingInv => BindingsFit /\ SwapchainImageShared
  BY FitStep DEF BindingInv, ImageInv
<1>2. QED
  BY <1>1, BindingInvariant, PTL

(* ... and where the planes come by their alignment the host finds it there:    *)
(* BindingsSound.                                                           *)
THEOREM BindingsCorrect ==
  ASSUME PlanesByAlignment
  PROVE  Spec => []BindingsSound
<1>1. BindingInv => BindingsSound
  <2> SUFFICES ASSUME TypeInv, ToldInv, BindInv PROVE BindingsSound
    BY DEF BindingInv, ImageInv
  <2>1. BindingsFit /\ SwapchainImageShared
    BY FitStep
  <2>2. ASSUME NEW part \in told, part[1] \notin DOMAIN Alias,
               NEW x \in (IF image[part[1]].disjoint THEN {part[2]} ELSE 1 .. image[part[1]].count)
        PROVE  LET im    == image[part[1]]
                   there == <<im.asked[part[2]][1], im.asked[part[2]][2] + LayoutOffset(im, x)>>
               IN Seen(im.planes[x], 0) = there /\ ("host" \in im.usage => im.planes[x].host = there)
    <3>1. PICK i, im, n : i = part[1] /\ im = image[part[1]] /\ n = part[2]
      OBVIOUS
    <3>2. part \in Reported
      BY DEF Reported
    <3>3. i \in Infos /\ im \in ImageType /\ Shaped(im, i) /\ Seated(im, n, vas)
      BY <2>2, <3>1, <3>2, ReportedFacts, LiveFacts DEF Fine
    <3>4. x \in 1 .. im.count /\ (im.disjoint => x = n)
      BY <2>2, <3>1, <3>3 DEF Seated
    <3>5. LET there == <<im.asked[n][1], im.asked[n][2] + LayoutOffset(im, x)>>
          IN Seen(im.planes[x], 0) = there /\ ("host" \in im.usage => im.planes[x].host = there)
      BY <3>3, <3>4, LayoutOne
    <3>6. QED
      BY <3>1, <3>5
  <2>3. LayoutMatchesBinding
    BY <2>2 DEF LayoutMatchesBinding
  <2>4. QED
    BY <2>1, <2>3 DEF BindingsSound
<1>2. QED
  BY <1>1, BindingInvariant, PTL
==============================================================================
