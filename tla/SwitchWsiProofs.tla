---------------------------- MODULE SwitchWsiProofs ----------------------------
(***************************************************************************)
(* Proofs about SwitchWsi, for every number of images and swapchains.      *)
(***************************************************************************)
EXTENDS SwitchWsi, TLAPS

-----------------------------------------------------------------------------
(* Types. *)

(* Images are numbered from 0 and there is at least one. *)
LEMMA IndexFacts ==
  /\ MaxImages \in Nat /\ MaxImages >= 2 /\ 0 \in Images /\ 2 \in Counts
  /\ \A i \in Images : i \in Nat /\ i < MaxImages
  /\ \A n \in Counts : n \in Nat /\ n >= 2 /\ n <= MaxImages
  /\ \A n \in Counts, i \in Images : (i + 1) % n \in Images
  /\ \A n \in Counts : 0 .. n - 1 \subseteq Images
  /\ \A min \in 2 .. MaxImages + 1 : ImageCount(min) \in Counts
<1>1. MaxImages \in Nat /\ MaxImages >= 2
  BY WsiAssumption
<1>2. \A n \in Counts, i \in Images : (i + 1) % n \in Images
  BY <1>1 DEF Counts, Images
<1>3. QED
  BY <1>1, <1>2 DEF Counts, Images, ImageCount

(* The records the operations start from have their types. *)
LEMMA RecordTypes ==
  /\ NewImage \in Image /\ DeadChain \in Chain /\ NoSlot \in Slot
  /\ \A ch \in Chains : [NoSlot EXCEPT !.owner = ch] \in Slot
  /\ \A n \in Counts, z \in BOOLEAN :
       [alive |-> TRUE, zero_copy |-> z, count |-> n, next |-> 0] \in Chain
  /\ Released \in [Images -> Slot]
  /\ \A ch \in Chains, n \in Counts : Registered(ch, n) \in [Images -> Slot]
<1>1. /\ NewImage \in Image /\ DeadChain \in Chain /\ NoSlot \in Slot
      /\ \A ch \in Chains : [NoSlot EXCEPT !.owner = ch] \in Slot
  BY IndexFacts DEF NewImage, Image, DeadChain, Chain, NoSlot, Slot
<1>2. \A n \in Counts, z \in BOOLEAN :
        [alive |-> TRUE, zero_copy |-> z, count |-> n, next |-> 0] \in Chain
  BY IndexFacts DEF Chain
<1>3. QED
  BY <1>1, <1>2 DEF Released, Registered

(* What an update of one image does to the table.                           *)
LEMMA SetImage ==
  ASSUME TypeOK, NEW ch \in Chains, NEW i \in Images, NEW img \in Image,
         images' = [images EXCEPT ![ch][i] = img]
  PROVE  /\ images' \in [Chains -> [Images -> Image]]
         /\ images'[ch][i] = img
         /\ \A d \in Chains, j \in Images : d # ch \/ j # i => images'[d][j] = images[d][j]
<1>1. [images[ch] EXCEPT ![i] = img] \in [Images -> Image]
  BY DEF TypeOK
<1>2. QED
  BY <1>1 DEF TypeOK

(* The changes the operations make to an image leave one. *)
LEMMA ImageRecords ==
  \A img \in Image :
    /\ \A lost \in BOOLEAN :
         [img EXCEPT !.busy = TRUE, !.acquired = TRUE, !.lost = lost] \in Image
    /\ [img EXCEPT !.busy = FALSE, !.acquired = FALSE] \in Image
    /\ [img EXCEPT !.work = IF img.work = "present" THEN img.work ELSE "draw"] \in Image
    /\ [img EXCEPT !.fence = "unset"] \in Image
    /\ Submitted(img) \in Image /\ [Submitted(img) EXCEPT !.lost = TRUE] \in Image
    /\ [img EXCEPT !.busy = FALSE] \in Image
    /\ [img EXCEPT !.work = "none",
                    !.fence = IF img.work = "present" THEN "set" ELSE img.fence] \in Image
BY DEF Image, Submitted

(* What each action does to the image it is about; the others stay.         *)
LEMMA ImageEffects ==
  ASSUME TypeOK, NEW ch \in Chains, NEW i \in Images,
         \/ AcquireSlot(ch, i) \/ AcquireImage(ch, i) \/ Draw(ch, i) \/ ReleaseImage(ch, i)
         \/ PresentFails(ch, i) \/ PresentSubmit(ch, i) \/ PresentLost(ch, i) \/ HandOver(ch, i)
         \/ GpuDone(ch, i)
  PROVE  LET img == images[ch][i]
             now == images'[ch][i]
         IN /\ images' \in [Chains -> [Images -> Image]]
            /\ \A d \in Chains, j \in Images : d # ch \/ j # i => images'[d][j] = images[d][j]
            /\ AcquireSlot(ch, i) \/ AcquireImage(ch, i) =>
                 now.busy /\ now.acquired /\ now.fence = img.fence /\ now.work = img.work
            /\ Draw(ch, i) =>
                 /\ now.busy = img.busy /\ now.acquired = img.acquired /\ now.lost = img.lost
                 /\ now.fence = img.fence
            /\ ReleaseImage(ch, i) =>
                 /\ ~now.busy /\ ~now.acquired /\ now.lost = img.lost
                 /\ now.fence = img.fence /\ now.work = img.work
            /\ PresentFails(ch, i) =>
                 /\ now.busy = img.busy /\ now.acquired = img.acquired /\ now.lost = img.lost
                 /\ now.fence = "unset" /\ now.work = img.work
            /\ PresentSubmit(ch, i) =>
                 now.busy = img.busy /\ ~now.acquired /\ now.lost = img.lost /\ now.fence = "unset"
            /\ PresentLost(ch, i) =>
                 now.busy = img.busy /\ ~now.acquired /\ now.lost /\ now.fence = "unset"
            /\ HandOver(ch, i) =>
                 /\ ~now.busy /\ now.acquired = img.acquired /\ now.lost = img.lost
                 /\ now.fence = img.fence /\ now.work = img.work
            /\ GpuDone(ch, i) =>
                 /\ now.busy = img.busy /\ now.acquired = img.acquired /\ now.lost = img.lost
                 /\ now.work = "none"
<1> DEFINE img  == images[ch][i]
           now  == images'[ch][i]
           Rest == /\ images' \in [Chains -> [Images -> Image]]
                   /\ \A d \in Chains, j \in Images :
                        d # ch \/ j # i => images'[d][j] = images[d][j]
<1>1. img \in Image
  BY DEF TypeOK
<1>2. ASSUME AcquireSlot(ch, i) \/ AcquireImage(ch, i)
      PROVE  Rest /\ now.busy /\ now.acquired /\ now.fence = img.fence /\ now.work = img.work
  <2>0. PICK lost \in BOOLEAN :
          images' = [images EXCEPT ![ch][i].busy = TRUE, ![ch][i].acquired = TRUE,
                                   ![ch][i].lost = lost]
    BY <1>2 DEF AcquireSlot, AcquireImage, Acquired
  <2> DEFINE new == [img EXCEPT !.busy = TRUE, !.acquired = TRUE, !.lost = lost]
  <2>1. new \in Image
    BY <1>1, ImageRecords
  <2>2. images' = [images EXCEPT ![ch][i] = new]
    BY <2>0, ZenonT(60)
  <2>3. Rest /\ now = new
    <3> HIDE DEF new
    <3>1. QED
      BY <2>1, <2>2, SetImage, ZenonT(60)
  <2>4. QED
    BY <1>1, <2>3 DEF Image
<1>3. ASSUME Draw(ch, i)
      PROVE  /\ Rest /\ now.busy = img.busy /\ now.acquired = img.acquired /\ now.lost = img.lost
             /\ now.fence = img.fence
  <2> DEFINE new == [img EXCEPT !.work = IF img.work = "present" THEN img.work ELSE "draw"]
  <2>1. new \in Image
    BY <1>1, ImageRecords
  <2>2. images' = [images EXCEPT ![ch][i] = new]
    BY <1>3 DEF Draw
  <2>3. Rest /\ now = new
    <3> HIDE DEF new
    <3>1. QED
      BY <2>1, <2>2, SetImage, ZenonT(60)
  <2>4. QED
    BY <1>1, <2>3 DEF Image
<1>4. ASSUME ReleaseImage(ch, i)
      PROVE  /\ Rest /\ ~now.busy /\ ~now.acquired /\ now.lost = img.lost
             /\ now.fence = img.fence /\ now.work = img.work
  <2> DEFINE new == [img EXCEPT !.busy = FALSE, !.acquired = FALSE]
  <2>1. new \in Image
    BY <1>1, ImageRecords
  <2>2. images' = [images EXCEPT ![ch][i] = new]
    BY <1>4 DEF ReleaseImage
  <2>3. Rest /\ now = new
    <3> HIDE DEF new
    <3>1. QED
      BY <2>1, <2>2, SetImage, ZenonT(60)
  <2>4. QED
    BY <1>1, <2>3 DEF Image
<1>5. ASSUME PresentFails(ch, i)
      PROVE  /\ Rest /\ now.busy = img.busy /\ now.acquired = img.acquired /\ now.lost = img.lost
             /\ now.fence = "unset" /\ now.work = img.work
  <2> DEFINE new == [img EXCEPT !.fence = "unset"]
  <2>1. new \in Image
    BY <1>1, ImageRecords
  <2>2. images' = [images EXCEPT ![ch][i] = new]
    BY <1>5 DEF PresentFails, SubmitFailed
  <2>3. Rest /\ now = new
    <3> HIDE DEF new
    <3>1. QED
      BY <2>1, <2>2, SetImage, ZenonT(60)
  <2>4. QED
    BY <1>1, <2>3 DEF Image
<1>6. ASSUME PresentSubmit(ch, i)
      PROVE  Rest /\ now.busy = img.busy /\ ~now.acquired /\ now.lost = img.lost /\ now.fence = "unset"
  <2> DEFINE new == Submitted(img)
  <2>1. new \in Image
    BY <1>1, ImageRecords
  <2>2. images' = [images EXCEPT ![ch][i] = new]
    BY <1>6 DEF PresentSubmit
  <2>3. Rest /\ now = new
    <3> HIDE DEF new
    <3>1. QED
      BY <2>1, <2>2, SetImage, ZenonT(60)
  <2>4. QED
    BY <1>1, <2>3 DEF Image, Submitted
<1>l. ASSUME PresentLost(ch, i)
      PROVE  Rest /\ now.busy = img.busy /\ ~now.acquired /\ now.lost /\ now.fence = "unset"
  <2> DEFINE new == [Submitted(img) EXCEPT !.lost = TRUE]
  <2>1. new \in Image
    BY <1>1, ImageRecords
  <2>2. images' = [images EXCEPT ![ch][i] = new]
    BY <1>l DEF PresentLost
  <2>3. Rest /\ now = new
    <3> HIDE DEF new
    <3>1. QED
      BY <2>1, <2>2, SetImage, ZenonT(60)
  <2>4. QED
    BY <1>1, <2>3 DEF Image, Submitted
<1>7. ASSUME HandOver(ch, i)
      PROVE  /\ Rest /\ ~now.busy /\ now.acquired = img.acquired /\ now.lost = img.lost
             /\ now.fence = img.fence /\ now.work = img.work
  <2> DEFINE new == [img EXCEPT !.busy = FALSE]
  <2>1. new \in Image
    BY <1>1, ImageRecords
  <2>2. images' = [images EXCEPT ![ch][i] = new]
    BY <1>7 DEF HandOver
  <2>3. Rest /\ now = new
    <3> HIDE DEF new
    <3>1. QED
      BY <2>1, <2>2, SetImage, ZenonT(60)
  <2>4. QED
    BY <1>1, <2>3 DEF Image
<1>8. ASSUME GpuDone(ch, i)
      PROVE  /\ Rest /\ now.busy = img.busy /\ now.acquired = img.acquired /\ now.lost = img.lost
             /\ now.work = "none"
  <2> DEFINE new == [img EXCEPT !.work = "none",
                           !.fence = IF img.work = "present" THEN "set" ELSE img.fence]
  <2>1. new \in Image
    BY <1>1, ImageRecords
  <2>2. images' = [images EXCEPT ![ch][i] = new]
    BY <1>8 DEF GpuDone
  <2>3. Rest /\ now = new
    <3> HIDE DEF new
    <3>1. QED
      BY <2>1, <2>2, SetImage, ZenonT(60)
  <2>4. QED
    BY <1>1, <2>3 DEF Image
<1>9. QED
  BY <1>2, <1>3, <1>4, <1>5, <1>6, <1>l, <1>7, <1>8

(* What the display does to a slot. *)
LEMMA DisplayEffects ==
  ASSUME TypeOK, NEW s \in Images, Latch(s) \/ ScanoutEnds(s)
  PROVE  /\ slots' \in [Images -> Slot]
         /\ UNCHANGED <<chains, images, current, present>>
         /\ \A t \in Images :
              /\ slots'[t].owner = slots[t].owner
              /\ slots'[t].state = "dequeued" <=> slots[t].state = "dequeued"
              /\ slots'[t].reading =>
                   \/ slots'[t].state = "shown"
                   \/ slots[t].reading /\ (slots'[t].state = slots[t].state \/ slots'[t].state = "free")
              /\ slots'[t].state \in {"queued", "shown"} => slots[t].state \in {"queued", "shown"}
              /\ slots'[t].reading => slots[t].reading \/ slots[t].state = "queued"
<1>1. \A t \in Images : /\ [slots[t] EXCEPT !.state = "shown", !.reading = TRUE] \in Slot
                        /\ [slots[t] EXCEPT !.state = "free"] \in Slot
                        /\ [slots[t] EXCEPT !.reading = FALSE] \in Slot
                        /\ slots[t] \in Slot
  BY DEF Slot, TypeOK
<1>2. CASE Latch(s)
  <2>1. \A t \in Images :
          \/ slots'[t] = [slots[t] EXCEPT !.state = "shown", !.reading = TRUE] /\ slots[t].state = "queued"
          \/ slots'[t] = [slots[t] EXCEPT !.state = "free"] /\ slots[t].state = "shown"
          \/ slots'[t] = slots[t]
    BY <1>2 DEF Latch
  <2>2. slots' \in [Images -> Slot]
    BY <1>1, <1>2 DEF Latch
  <2>3. QED
    BY <1>1, <1>2, <2>1, <2>2 DEF Latch, Slot
<1>3. CASE ScanoutEnds(s)
  <2>1. slots' \in [Images -> Slot]
    BY <1>1, <1>3 DEF ScanoutEnds, TypeOK
  <2>2. \A t \in Images : slots'[t] = slots[t] \/ slots'[t] = [slots[t] EXCEPT !.reading = FALSE]
    BY <1>1, <1>3 DEF ScanoutEnds, TypeOK
  <2>3. QED
    BY <1>1, <1>3, <2>1, <2>2 DEF ScanoutEnds, Slot
<1>4. QED
  BY <1>2, <1>3

(* Any update of one image or one slot that keeps the type of the record    *)
(* keeps the type of the table.                                             *)
LEMMA TypeStep == TypeOK /\ [Next]_vars => TypeOK'
<1> SUFFICES ASSUME TypeOK, [Next]_vars PROVE TypeOK'
  OBVIOUS
<1> USE DEF TypeOK
<1>0. ASSUME NEW ch \in Chains
      PROVE  [images EXCEPT ![ch] = [i \in Images |-> NewImage]] \in [Chains -> [Images -> Image]]
  BY RecordTypes
<1>1. ASSUME NEW ch \in Chains, NEW min \in 2 .. MaxImages + 1,
             CreateZeroCopy(ch, min) \/ CreateFallback(ch, min)
      PROVE  TypeOK'
  <2> DEFINE n == ImageCount(min)
  <2>1. n \in Counts
    BY IndexFacts
  <2>2. PICK z \in BOOLEAN : Made(ch, n, z) /\ slots' = Registered(ch, n)
    BY <1>1 DEF CreateZeroCopy, CreateFallback
  <2> HIDE DEF n
  <2>3. chains' \in [Chains -> Chain]
    BY <2>1, <2>2, RecordTypes DEF Made
  <2>4. QED
    BY <1>0, <2>1, <2>2, <2>3, RecordTypes DEF Made
<1>2. ASSUME NEW ch \in Chains, CreateFails(ch) PROVE TypeOK'
  BY <1>2, RecordTypes DEF CreateFails
<1>3. ASSUME NEW ch \in Chains, Destroy(ch) PROVE TypeOK'
  <2>1. chains' \in [Chains -> Chain]
    BY <1>3, RecordTypes DEF Destroy
  <2>2. QED
    BY <1>0, <1>3, <2>1, RecordTypes DEF Destroy
<1>4. ASSUME NEW ch \in Chains, NEW i \in Images, AcquireSlot(ch, i) PROVE TypeOK'
  <2>1. slots' \in [Images -> Slot]
    BY <1>4 DEF AcquireSlot, Slot
  <2>2. QED
    BY <1>4, <2>1, ImageEffects DEF AcquireSlot
<1>5. ASSUME NEW ch \in Chains, NEW i \in Images, AcquireImage(ch, i) PROVE TypeOK'
  <2>1. (i + 1) % chains[ch].count \in Images
    BY IndexFacts DEF Chain
  <2>2. chains' \in [Chains -> Chain]
    BY <1>5, <2>1 DEF AcquireImage, Chain
  <2>3. QED
    BY <1>5, <2>2, ImageEffects DEF AcquireImage
<1>6. ASSUME NEW ch \in Chains, NEW i \in Images,
             \/ Draw(ch, i) \/ ReleaseImage(ch, i) \/ PresentFails(ch, i) \/ PresentLost(ch, i)
             \/ GpuDone(ch, i)
      PROVE  TypeOK'
  BY <1>6, ImageEffects DEF Draw, ReleaseImage, PresentFails, PresentLost, GpuDone
<1>7. ASSUME NEW ch \in Chains, NEW i \in Images, PresentSubmit(ch, i) PROVE TypeOK'
  BY <1>7, ImageEffects DEF PresentSubmit
<1>8. ASSUME NEW ch \in Chains, NEW i \in Images, PresentSlot(ch, i) PROVE TypeOK'
  <2>1. slots' \in [Images -> Slot]
    BY <1>8 DEF PresentSlot, Queued, Slot
  <2>2. QED
    BY <1>8, <2>1, IndexFacts, ImageEffects DEF PresentSlot, HandOver, NoPresent
<1>9. ASSUME NEW ch \in Chains, NEW i \in Images, NEW s \in Images, PresentCopy(ch, i, s)
      PROVE  TypeOK'
  <2>1. slots' \in [Images -> Slot]
    BY <1>9 DEF PresentCopy, Copied, Slot
  <2>2. QED
    BY <1>9, <2>1, IndexFacts, ImageEffects DEF PresentCopy, HandOver, NoPresent
<1>10. ASSUME NEW s \in Images, Latch(s) \/ ScanoutEnds(s) PROVE TypeOK'
  BY <1>10, DisplayEffects
<1>11. CASE UNCHANGED vars
  BY <1>11 DEF vars
<1>12. QED
  BY <1>1, <1>2, <1>3, <1>4, <1>5, <1>6, <1>7, <1>8, <1>9, <1>10, <1>11
     DEF Next, Lifecycle, Frame, Gpu, Display

(* Every reachable state is well typed: in particular the image count and   *)
(* the round robin cursor of a swapchain stay within the slots of the       *)
(* nwindow, whatever minImageCount was asked for.                           *)
THEOREM TypeCorrect == Spec => []TypeOK
<1>1. Init => TypeOK
  BY RecordTypes, IndexFacts DEF Init, TypeOK, Released, NoPresent
<1>2. QED
  BY <1>1, TypeStep, PTL DEF Spec

-----------------------------------------------------------------------------
(***************************************************************************)
(* The nwindow, for a client that destroys a swapchain before it makes     *)
(* another: there is one swapchain, it is the current one, and whatever is *)
(* registered is its own.                                                  *)
(***************************************************************************)
WindowInv ==
  /\ \A ch \in Chains : chains[ch].alive <=> ch = current
  /\ \A s \in Images : slots[s].owner # NoChain => slots[s].owner = current

(* Every step keeps WindowInv, ... *)
LEMMA WindowStep ==
  ASSUME "retire" \notin Liberties
  PROVE  TypeOK /\ WindowInv /\ [Next]_vars => WindowInv'
<1> SUFFICES ASSUME TypeOK, WindowInv, [Next]_vars PROVE WindowInv'
  OBVIOUS
<1> USE WsiAssumption DEF TypeOK, WindowInv
<1>1. ASSUME NEW ch \in Chains, NEW min \in 2 .. MaxImages + 1,
             CreateZeroCopy(ch, min) \/ CreateFallback(ch, min)
      PROVE  WindowInv'
  <2> DEFINE n == ImageCount(min)
  <2>1. n \in Counts
    BY IndexFacts
  <2>2. PICK z \in BOOLEAN : MayCreate(ch) /\ Made(ch, n, z) /\ slots' = Registered(ch, n)
    BY <1>1 DEF CreateZeroCopy, CreateFallback
  <2> HIDE DEF n
  <2>3. current = NoChain /\ current' = ch /\ chains'[ch].alive
        /\ \A d \in Chains : d # ch => chains'[d] = chains[d]
    BY <2>2 DEF MayCreate, Made
  <2>4. \A i \in Images : slots'[i].owner \in {ch, NoChain}
    BY <2>2 DEF Registered, NoSlot
  <2>5. QED
    BY <2>3, <2>4
<1>2. ASSUME NEW ch \in Chains, CreateFails(ch) PROVE WindowInv'
  BY <1>2 DEF CreateFails, MayCreate, Released, NoSlot
<1>3. ASSUME NEW ch \in Chains, Destroy(ch) PROVE WindowInv'
  BY <1>3 DEF Destroy, DeadChain, Released, NoSlot
<1>4. ASSUME UNCHANGED current,
             \A d \in Chains : chains'[d].alive = chains[d].alive,
             \A s \in Images : slots'[s].owner = slots[s].owner
      PROVE  WindowInv'
  BY <1>4
<1>5. ASSUME NEW ch \in Chains, Frame(ch) PROVE WindowInv'
  <2>1. UNCHANGED current
    BY <1>5 DEF Frame, AcquireSlot, AcquireImage, Draw, ReleaseImage, PresentFails, PresentSubmit,
                PresentLost, PresentSlot, PresentCopy, HandOver
  <2>2. \A d \in Chains : chains'[d].alive = chains[d].alive
    BY <1>5 DEF Frame, AcquireSlot, AcquireImage, Draw, ReleaseImage, PresentFails, PresentSubmit,
                PresentLost, PresentSlot, PresentCopy, HandOver, Chain
  <2>3. \A s \in Images : slots'[s].owner = slots[s].owner
    <3>1. CASE \E i \in Images : AcquireSlot(ch, i)
      BY <3>1 DEF AcquireSlot, Slot
    <3>2. CASE \E i \in Images : \/ AcquireImage(ch, i) \/ Draw(ch, i) \/ ReleaseImage(ch, i)
                                 \/ PresentFails(ch, i) \/ PresentSubmit(ch, i) \/ PresentLost(ch, i)
      BY <3>2 DEF AcquireImage, Draw, ReleaseImage, PresentFails, PresentSubmit, PresentLost
    <3>3. CASE \E i \in Images : PresentSlot(ch, i)
      BY <3>3 DEF PresentSlot, Queued, Slot
    <3>4. CASE \E i, s \in Images : PresentCopy(ch, i, s)
      BY <3>4 DEF PresentCopy, Copied, Slot
    <3>5. QED
      BY <1>5, <3>1, <3>2, <3>3, <3>4 DEF Frame
  <2>4. QED
    BY <1>4, <2>1, <2>2, <2>3
<1>6. CASE Gpu
  BY <1>4, <1>6 DEF Gpu, GpuDone
<1>7. CASE Display
  BY <1>4, <1>7, DisplayEffects DEF Display
<1>8. CASE UNCHANGED vars
  BY <1>4, <1>8 DEF vars
<1>9. QED
  BY <1>1, <1>2, <1>3, <1>5, <1>6, <1>7, <1>8 DEF Next, Lifecycle

(* ... and so it always holds. *)
LEMMA WindowCorrect ==
  ASSUME "retire" \notin Liberties
  PROVE  Spec => [](TypeOK /\ WindowInv)
<1>1. Init => WindowInv
  BY WsiAssumption DEF Init, WindowInv, DeadChain, NoSlot
<1>2. QED
  BY <1>1, WindowStep, TypeStep, TypeCorrect, PTL DEF Spec

-----------------------------------------------------------------------------
(* Who has an image: the client from its acquire to its present, and the    *)
(* present call until it is handed over; or nobody, when a call lost it.    *)
Presenting(ch, i) == present.chain = ch /\ present.image = i
Kept(ch, i)       == images[ch][i].acquired \/ images[ch][i].lost
Holds(ch, i)      == Kept(ch, i) \/ Presenting(ch, i)

(* An image has one holder, is busy just while it is held, and its slot was *)
(* taken from the nwindow.                                                  *)
HoldInv ==
  \A ch \in Chains, i \in Images :
    /\ Holds(ch, i) => chains[ch].alive
    /\ images[ch][i].busy <=> Holds(ch, i)
    /\ ~(Kept(ch, i) /\ Presenting(ch, i))
    /\ chains[ch].zero_copy /\ slots[i].owner = ch /\ Holds(ch, i)
         => slots[i].state = "dequeued"

(* What each action does to who keeps the image it is about.                *)
LEMMA KeptEffects ==
  ASSUME TypeOK, NEW ch \in Chains, NEW i \in Images,
         \/ AcquireSlot(ch, i) \/ AcquireImage(ch, i) \/ Draw(ch, i) \/ ReleaseImage(ch, i)
         \/ PresentFails(ch, i) \/ PresentSubmit(ch, i) \/ PresentLost(ch, i) \/ HandOver(ch, i)
         \/ GpuDone(ch, i)
  PROVE  /\ \A d \in Chains, j \in Images : d # ch \/ j # i =>
              /\ Kept(d, j)' <=> Kept(d, j)
              /\ images'[d][j] = images[d][j]
         /\ AcquireSlot(ch, i) \/ AcquireImage(ch, i) => Kept(ch, i)' /\ images'[ch][i].busy
         /\ Draw(ch, i) \/ PresentFails(ch, i) \/ GpuDone(ch, i) =>
              (Kept(ch, i)' <=> Kept(ch, i)) /\ images'[ch][i].busy = images[ch][i].busy
         /\ HandOver(ch, i) => (Kept(ch, i)' <=> Kept(ch, i)) /\ ~images'[ch][i].busy
         /\ ReleaseImage(ch, i) => Kept(ch, i) /\ ~Kept(ch, i)' /\ ~images'[ch][i].busy
         /\ PresentSubmit(ch, i) =>
              Kept(ch, i) /\ ~Kept(ch, i)' /\ images'[ch][i].busy = images[ch][i].busy
         /\ PresentLost(ch, i) =>
              Kept(ch, i) /\ Kept(ch, i)' /\ images'[ch][i].busy = images[ch][i].busy
<1>1. \A d \in Chains, j \in Images : d # ch \/ j # i => images'[d][j] = images[d][j]
  BY ImageEffects
<1>2. AcquireSlot(ch, i) \/ AcquireImage(ch, i) => Kept(ch, i)' /\ images'[ch][i].busy
  BY ImageEffects DEF Kept
<1>3. Draw(ch, i) \/ PresentFails(ch, i) \/ GpuDone(ch, i) =>
        (Kept(ch, i)' <=> Kept(ch, i)) /\ images'[ch][i].busy = images[ch][i].busy
  BY ImageEffects DEF Kept
<1>4. HandOver(ch, i) => (Kept(ch, i)' <=> Kept(ch, i)) /\ ~images'[ch][i].busy
  BY ImageEffects DEF Kept
<1>5. ReleaseImage(ch, i) => Kept(ch, i) /\ ~Kept(ch, i)' /\ ~images'[ch][i].busy
  BY ImageEffects DEF Kept, ReleaseImage, Held
<1>6. PresentSubmit(ch, i) =>
        Kept(ch, i) /\ ~Kept(ch, i)' /\ images'[ch][i].busy = images[ch][i].busy
  BY ImageEffects DEF Kept, PresentSubmit, MayPresent, Held
<1>7. PresentLost(ch, i) =>
        Kept(ch, i) /\ Kept(ch, i)' /\ images'[ch][i].busy = images[ch][i].busy
  BY ImageEffects DEF Kept, PresentLost, MayPresent, Held
<1>8. QED
  BY <1>1, <1>2, <1>3, <1>4, <1>5, <1>6, <1>7 DEF Kept

(* Which images are presented, around the two steps of a present. *)
LEMMA PresentEffects ==
  ASSUME TypeOK, NEW ch \in Chains, NEW i \in Images
  PROVE  /\ present = NoPresent => \A d \in Chains, j \in Images : ~Presenting(d, j)
         /\ present' = NoPresent => \A d \in Chains, j \in Images : ~Presenting(d, j)'
         /\ PresentSubmit(ch, i) =>
              \A d \in Chains, j \in Images : Presenting(d, j)' <=> d = ch /\ j = i
         /\ HandOver(ch, i) =>
              \A d \in Chains, j \in Images : Presenting(d, j) <=> d = ch /\ j = i
BY WsiAssumption DEF Presenting, NoPresent, PresentSubmit, HandOver

(* The present under way names a swapchain and an image. *)
LEMMA PresentingRecord ==
  ASSUME TypeOK, NEW ch \in Chains, NEW i \in Images
  PROVE  present = [chain |-> ch, image |-> i] <=> Presenting(ch, i)
BY DEF TypeOK, Presenting

(* What a hand-over does to the slots: at most one becomes queued, which    *)
(* was that of the image or a free one that nobody reads.                   *)
LEMMA HandOverSlots ==
  ASSUME TypeOK, NEW ch \in Chains, NEW i \in Images, NEW s \in Images,
         PresentSlot(ch, i) \/ PresentCopy(ch, i, s)
  PROVE  /\ HandOver(ch, i)
         /\ chains[ch].zero_copy => slots'[i].state # "dequeued"
         /\ \A t \in Images :
              /\ slots'[t].owner = slots[t].owner
              /\ slots'[t].reading = slots[t].reading
              /\ slots'[t].state # slots[t].state =>
                   /\ slots'[t].state = "queued"
                   /\ \/ slots[t].state = "dequeued" /\ t = i
                      \/ slots[t].state = "free" /\ ~slots[t].reading
<1>1. \A t \in Images : LET new == [slots[t] EXCEPT !.state = "queued"]
                        IN  new.state = "queued" /\ new.owner = slots[t].owner
                            /\ new.reading = slots[t].reading
  BY DEF TypeOK, Slot
<1>2. CASE PresentSlot(ch, i)
  <2>1. HandOver(ch, i) /\ slots' = Queued(i)
    BY <1>2 DEF PresentSlot
  <2>2. \A t \in Images :
          slots'[t] = IF t = i /\ slots[i].state = "dequeued"
                        THEN [slots[t] EXCEPT !.state = "queued"] ELSE slots[t]
    BY <2>1 DEF Queued, TypeOK
  <2>3. \A t \in Images :
          \/ /\ slots'[t].owner = slots[t].owner /\ slots'[t].reading = slots[t].reading
             /\ slots'[t].state = "queued" /\ slots[t].state = "dequeued" /\ t = i
          \/ slots'[t] = slots[t] /\ (t = i => slots[t].state # "dequeued")
    BY <1>1, <2>2, ZenonT(60)
  <2>4. slots'[i].state # "dequeued"
    BY <2>3
  <2>5. ASSUME NEW t \in Images
        PROVE  /\ slots'[t].owner = slots[t].owner
               /\ slots'[t].reading = slots[t].reading
               /\ slots'[t].state # slots[t].state =>
                    slots'[t].state = "queued" /\ slots[t].state = "dequeued" /\ t = i
    BY <2>3
  <2>6. QED
    BY <2>1, <2>4, <2>5
<1>3. CASE PresentCopy(ch, i, s)
  <2>1. /\ HandOver(ch, i) /\ ~chains[ch].zero_copy
        /\ slots[s].state = "free" /\ ~slots[s].reading
        /\ slots' = Copied(s)
    BY <1>3 DEF PresentCopy
  <2>2. \A t \in Images :
          slots'[t] = IF t = s THEN [slots[t] EXCEPT !.state = "queued"] ELSE slots[t]
    BY <2>1 DEF Copied, TypeOK
  <2>3. QED
    BY <1>1, <2>1, <2>2
<1>4. QED
  BY <1>2, <1>3

(* Every step keeps HoldInv, ... *)
LEMMA HoldStep ==
  ASSUME "retire" \notin Liberties
  PROVE  TypeOK /\ WindowInv /\ HoldInv /\ [Next]_vars => HoldInv'
<1> SUFFICES ASSUME TypeOK, WindowInv, HoldInv, [Next]_vars PROVE HoldInv'
  OBVIOUS
<1> USE DEF HoldInv, Holds, Presenting
<1>1. ASSUME NEW ch \in Chains, NEW min \in 2 .. MaxImages + 1,
             CreateZeroCopy(ch, min) \/ CreateFallback(ch, min)
      PROVE  HoldInv'
  <2> DEFINE n == ImageCount(min)
  <2>1. PICK z \in BOOLEAN : MayCreate(ch) /\ Made(ch, n, z)
    BY <1>1 DEF CreateZeroCopy, CreateFallback
  <2> HIDE DEF n
  <2>2. \A d \in Chains : ~chains[d].alive
    BY <2>1, WsiAssumption DEF MayCreate, WindowInv
  <2>3. /\ present' = present /\ \A i \in Images : ~Kept(ch, i)' /\ ~images'[ch][i].busy
        /\ \A d \in Chains : d # ch => images'[d] = images[d]
    BY <2>1 DEF Made, NewImage, Kept, TypeOK
  <2>4. \A d \in Chains, i \in Images : ~Kept(d, i)' /\ ~Presenting(d, i)' /\ ~images'[d][i].busy
    BY <2>2, <2>3 DEF Kept
  <2>5. QED
    BY <2>4
<1>2. ASSUME NEW ch \in Chains, CreateFails(ch) PROVE HoldInv'
  BY <1>2, WsiAssumption DEF CreateFails, MayCreate, WindowInv, Kept
<1>3. ASSUME NEW ch \in Chains, Destroy(ch) PROVE HoldInv'
  <2>1. \A i \in Images : ~Kept(ch, i)' /\ ~Presenting(ch, i)' /\ ~images'[ch][i].busy
    BY <1>3, WsiAssumption DEF Destroy, NewImage, Kept, TypeOK
  <2>2. \A d \in Chains : d # ch => images'[d] = images[d] /\ chains'[d] = chains[d]
    BY <1>3 DEF Destroy, TypeOK
  <2>3. \A i \in Images : slots'[i].owner = NoChain
    BY <1>3 DEF Destroy, Released, NoSlot
  <2>4. QED
    BY <1>3, <2>1, <2>2, <2>3, WsiAssumption DEF Destroy, Kept
<1>4. ASSUME NEW ch \in Chains, NEW i \in Images, AcquireSlot(ch, i) PROVE HoldInv'
  <2>1. /\ chains[ch].alive /\ present.chain # ch /\ UNCHANGED <<chains, present>>
        /\ slots'[i].state = "dequeued"
        /\ \A j \in Images : /\ slots'[j].owner = slots[j].owner
                             /\ j # i => slots'[j] = slots[j]
    BY <1>4 DEF AcquireSlot, Serial, Slot, TypeOK
  <2>2. QED
    BY <1>4, <2>1, KeptEffects
<1>5. ASSUME NEW ch \in Chains, NEW i \in Images, AcquireImage(ch, i) PROVE HoldInv'
  <2>1. /\ chains[ch].alive /\ present.chain # ch /\ UNCHANGED <<slots, present>>
        /\ ~chains[ch].zero_copy
        /\ \A d \in Chains : /\ chains'[d].alive = chains[d].alive
                             /\ chains'[d].zero_copy = chains[d].zero_copy
    BY <1>5 DEF AcquireImage, Serial, Chain, TypeOK
  <2>2. QED
    BY <1>5, <2>1, KeptEffects
<1>6. ASSUME NEW ch \in Chains, NEW i \in Images,
             Draw(ch, i) \/ PresentFails(ch, i) \/ GpuDone(ch, i)
      PROVE  HoldInv'
  <2>1. \A d \in Chains, j \in Images : /\ Kept(d, j)' <=> Kept(d, j)
                                       /\ images'[d][j].busy = images[d][j].busy
    BY <1>6, KeptEffects
  <2>2. UNCHANGED <<chains, slots, present>>
    BY <1>6 DEF Draw, PresentFails, GpuDone
  <2>3. QED
    BY <2>1, <2>2
<1>7. ASSUME NEW ch \in Chains, NEW i \in Images, ReleaseImage(ch, i) PROVE HoldInv'
  <2>1. present.chain # ch /\ UNCHANGED <<chains, slots, present>>
    BY <1>7 DEF ReleaseImage, Serial
  <2>2. QED
    BY <1>7, <2>1, KeptEffects
<1>l. ASSUME NEW ch \in Chains, NEW i \in Images, PresentLost(ch, i) PROVE HoldInv'
  <2>1. UNCHANGED <<chains, slots, present>>
    BY <1>l DEF PresentLost
  <2>2. \A d \in Chains, j \in Images : /\ Kept(d, j)' <=> Kept(d, j)
                                       /\ images'[d][j].busy = images[d][j].busy
    BY <1>l, KeptEffects
  <2>3. QED
    BY <2>1, <2>2
<1>8. ASSUME NEW ch \in Chains, NEW i \in Images, PresentSubmit(ch, i) PROVE HoldInv'
  <2>1. /\ \A d \in Chains, j \in Images : d # ch \/ j # i =>
             (Kept(d, j)' <=> Kept(d, j)) /\ images'[d][j] = images[d][j]
        /\ images'[ch][i].busy = images[ch][i].busy /\ Kept(ch, i) /\ ~Kept(ch, i)'
    BY <1>8, KeptEffects
  <2>2. UNCHANGED <<chains, slots>> /\ present = NoPresent
    BY <1>8 DEF PresentSubmit, MayPresent
  <2>3. /\ \A d \in Chains, j \in Images : ~Presenting(d, j)
        /\ \A d \in Chains, j \in Images : Presenting(d, j)' <=> d = ch /\ j = i
    BY <1>8, <2>2, PresentEffects
  <2> SUFFICES ASSUME NEW d \in Chains, NEW j \in Images
               PROVE  /\ Holds(d, j)' => chains'[d].alive
                      /\ images'[d][j].busy <=> Holds(d, j)'
                      /\ ~(Kept(d, j)' /\ Presenting(d, j)')
                      /\ chains'[d].zero_copy /\ slots'[j].owner = d /\ Holds(d, j)'
                           => slots'[j].state = "dequeued"
    OBVIOUS
  <2>4. CASE d = ch /\ j = i
    BY <2>1, <2>2, <2>3, <2>4
  <2>5. CASE d # ch \/ j # i
    <3>1. Holds(d, j)' <=> Holds(d, j)
      BY <2>1, <2>3, <2>5
    <3>2. ~Presenting(d, j)'
      BY <2>3, <2>5
    <3>3. images'[d][j] = images[d][j]
      BY <2>1, <2>5
    <3>4. QED
      BY <2>2, <3>1, <3>2, <3>3
  <2>6. QED
    BY <2>4, <2>5
<1>9. ASSUME NEW ch \in Chains, NEW i \in Images, HandOver(ch, i),
             \A t \in Images : slots'[t].owner = slots[t].owner,
             \A t \in Images \ {i} :
               slots[t].state = "dequeued" => slots'[t].state = "dequeued"
      PROVE  HoldInv'
  <2>1. /\ \A d \in Chains, j \in Images :
             /\ d # ch \/ j # i => images'[d][j] = images[d][j]
             /\ Kept(d, j)' <=> Kept(d, j)
        /\ ~images'[ch][i].busy
    BY <1>9, KeptEffects
  <2>2. UNCHANGED chains /\ present' = NoPresent
    BY <1>9 DEF HandOver
  <2>3. \A d \in Chains, j \in Images : ~Presenting(d, j)' /\ (Presenting(d, j) <=> d = ch /\ j = i)
    BY <1>9, <2>2, PresentEffects
  <2>4. QED
    BY <1>9, <2>1, <2>2, <2>3 DEF WindowInv
<1>10. ASSUME NEW ch \in Chains, NEW i \in Images, NEW s \in Images,
              PresentSlot(ch, i) \/ PresentCopy(ch, i, s)
       PROVE  HoldInv'
  <2>1. /\ HandOver(ch, i)
        /\ \A t \in Images : slots'[t].owner = slots[t].owner
        /\ \A t \in Images \ {i} :
             slots[t].state = "dequeued" => slots'[t].state = "dequeued"
    BY <1>10, HandOverSlots
  <2>2. QED
    BY <1>9, <2>1
<1>11. ASSUME NEW s \in Images, Latch(s) \/ ScanoutEnds(s) PROVE HoldInv'
  BY <1>11, DisplayEffects DEF Kept
<1>12. CASE UNCHANGED vars
  BY <1>12 DEF vars, Kept
<1>13. QED
  BY <1>1, <1>2, <1>3, <1>4, <1>5, <1>6, <1>7, <1>l, <1>8, <1>9, <1>10, <1>11, <1>12
     DEF Next, Lifecycle, Frame, Gpu, Display

(* ... and so it always holds. *)
LEMMA HoldCorrect ==
  ASSUME "retire" \notin Liberties
  PROVE  Spec => [](TypeOK /\ WindowInv /\ HoldInv)
<1>1. Init => HoldInv
  <2> SUFFICES ASSUME Init, NEW ch \in Chains, NEW i \in Images
               PROVE  ~Holds(ch, i) /\ ~images[ch][i].busy
    BY DEF HoldInv, Holds
  <2>1. QED
    BY WsiAssumption DEF Init, Holds, Kept, Presenting, NewImage, NoPresent
<1>2. QED
  BY <1>1, HoldStep, WindowCorrect, PTL DEF Spec

-----------------------------------------------------------------------------
(***************************************************************************)
(* The slots, for a client that presents whatever it acquires: a slot is   *)
(* out of the nwindow only for an image that has a holder.                 *)
(***************************************************************************)
TakenInv ==
  \A ch \in Chains, i \in Images :
    chains[ch].zero_copy /\ slots[i].owner = ch /\ slots[i].state = "dequeued" => Holds(ch, i)

(* Every step keeps a holder behind each taken slot. *)
LEMMA TakenStep ==
  ASSUME {"retire", "release"} \cap Liberties = {}
  PROVE  TypeOK /\ WindowInv /\ HoldInv /\ TakenInv /\ [Next]_vars => TakenInv'
<1> SUFFICES ASSUME TypeOK, WindowInv, HoldInv, TakenInv, [Next]_vars PROVE TakenInv'
  OBVIOUS
<1> USE DEF TakenInv, Holds, Presenting
<1>1. ASSUME NEW ch \in Chains, NEW min \in 2 .. MaxImages + 1,
             CreateZeroCopy(ch, min) \/ CreateFallback(ch, min)
      PROVE  TakenInv'
  <2> DEFINE n == ImageCount(min)
  <2>0. slots' = Registered(ch, n)
    BY <1>1 DEF CreateZeroCopy, CreateFallback
  <2> HIDE DEF n
  <2>1. \A i \in Images : slots'[i].state = "free"
    BY <2>0 DEF Registered, NoSlot
  <2>2. QED
    BY <2>1
<1>2. ASSUME NEW ch \in Chains, CreateFails(ch) \/ Destroy(ch) PROVE TakenInv'
  <2>1. \/ UNCHANGED <<chains, images, slots, present>>
        \/ \A i \in Images : slots'[i].state # "dequeued"
    BY <1>2 DEF CreateFails, Destroy, Released, NoSlot
  <2>2. QED
    BY <2>1 DEF Kept
<1>3. ASSUME NEW ch \in Chains, NEW i \in Images, AcquireSlot(ch, i) PROVE TakenInv'
  <2>1. slots[i].owner = ch /\ UNCHANGED <<chains, present>>
    BY <1>3 DEF AcquireSlot, WindowInv
  <2>2. Kept(ch, i)' /\ \A d \in Chains, j \in Images : Kept(d, j) => Kept(d, j)'
    BY <1>3, KeptEffects
  <2>3. /\ \A t \in Images : slots'[t].owner = slots[t].owner
        /\ \A t \in Images \ {i} : slots'[t].state = slots[t].state
    BY <1>3 DEF AcquireSlot, TypeOK, Slot
  <2>4. QED
    BY <2>1, <2>2, <2>3
<1>4. ASSUME NEW ch \in Chains, NEW i \in Images, AcquireImage(ch, i) PROVE TakenInv'
  <2>1. \A d \in Chains, j \in Images : Kept(d, j) => Kept(d, j)'
    BY <1>4, KeptEffects
  <2>2. UNCHANGED <<slots, present>> /\ \A d \in Chains : chains'[d].zero_copy = chains[d].zero_copy
    BY <1>4 DEF AcquireImage, TypeOK, Chain
  <2>3. QED
    BY <2>1, <2>2
<1>5. ASSUME NEW ch \in Chains, NEW i \in Images,
             Draw(ch, i) \/ PresentFails(ch, i) \/ PresentLost(ch, i) \/ GpuDone(ch, i)
      PROVE  TakenInv'
  <2>1. \A d \in Chains, j \in Images : Kept(d, j)' <=> Kept(d, j)
    BY <1>5, KeptEffects
  <2>2. UNCHANGED <<chains, slots, present>>
    BY <1>5 DEF Draw, PresentFails, PresentLost, GpuDone
  <2>3. QED
    BY <2>1, <2>2
<1>6. ASSUME NEW ch \in Chains, NEW i \in Images, ReleaseImage(ch, i) PROVE TakenInv'
  <2>1. ~chains[ch].zero_copy /\ UNCHANGED <<chains, slots, present>>
    BY <1>6 DEF ReleaseImage
  <2>2. \A d \in Chains, j \in Images : d # ch => (Kept(d, j)' <=> Kept(d, j))
    BY <1>6, KeptEffects
  <2>3. QED
    BY <2>1, <2>2
<1>7. ASSUME NEW ch \in Chains, NEW i \in Images, PresentSubmit(ch, i) PROVE TakenInv'
  <2>1. \A d \in Chains, j \in Images : d # ch \/ j # i => (Kept(d, j)' <=> Kept(d, j))
    BY <1>7, KeptEffects
  <2>2. UNCHANGED <<chains, slots>> /\ present = NoPresent
    BY <1>7 DEF PresentSubmit, MayPresent
  <2>3. \A d \in Chains, j \in Images : ~Presenting(d, j) /\ (Presenting(d, j)' <=> d = ch /\ j = i)
    BY <1>7, <2>2, PresentEffects
  <2>4. QED
    BY <2>1, <2>2, <2>3
<1>8. ASSUME NEW ch \in Chains, NEW i \in Images, HandOver(ch, i),
             \A t \in Images : slots'[t].owner = slots[t].owner,
             \A t \in Images : slots'[t].state = "dequeued" => slots[t].state = "dequeued",
             chains[ch].zero_copy => slots'[i].state # "dequeued"
      PROVE  TakenInv'
  <2>1. \A d \in Chains, j \in Images : Kept(d, j)' <=> Kept(d, j)
    BY <1>8, KeptEffects
  <2>2. UNCHANGED chains
    BY <1>8 DEF HandOver
  <2>3. \A d \in Chains, j \in Images : Presenting(d, j) <=> d = ch /\ j = i
    BY <1>8, PresentEffects
  <2>4. QED
    BY <1>8, <2>1, <2>2, <2>3
<1>9. ASSUME NEW ch \in Chains, NEW i \in Images, NEW s \in Images,
             PresentSlot(ch, i) \/ PresentCopy(ch, i, s)
      PROVE  TakenInv'
  <2>1. /\ HandOver(ch, i)
        /\ \A t \in Images : slots'[t].owner = slots[t].owner
        /\ \A t \in Images : slots'[t].state = "dequeued" => slots[t].state = "dequeued"
        /\ chains[ch].zero_copy => slots'[i].state # "dequeued"
    BY <1>9, HandOverSlots
  <2>2. QED
    BY <1>8, <2>1
<1>10. ASSUME NEW s \in Images, Latch(s) \/ ScanoutEnds(s) PROVE TakenInv'
  BY <1>10, DisplayEffects DEF Kept
<1>11. CASE UNCHANGED vars
  BY <1>11 DEF vars, Kept
<1>12. QED
  BY <1>1, <1>2, <1>3, <1>4, <1>5, <1>6, <1>7, <1>9, <1>10, <1>11
     DEF Next, Lifecycle, Frame, Gpu, Display

(* An image is busy, and the slot of a zero-copy one out of the nwindow,    *)
(* exactly while the client or a present has the image or a failed call has *)
(* lost it, wherever acquires and presents fail and waits give up.          *)
THEOREM SlotsCorrect ==
  ASSUME {"retire", "release"} \cap Liberties = {}
  PROVE  Spec => []SlotsAccounted
<1>1. Init => TakenInv
  BY DEF Init, TakenInv, NoSlot
<1>2. TypeOK /\ HoldInv /\ TakenInv => SlotsAccounted
  BY PresentingRecord DEF HoldInv, TakenInv, SlotsAccounted, Holds, Kept
<1>3. Spec => [](TypeOK /\ WindowInv /\ HoldInv)
  <2>1. "retire" \notin Liberties
    OBVIOUS
  <2>2. QED
    BY <2>1, HoldCorrect
<1>4. QED
  BY <1>1, <1>2, <1>3, TakenStep, PTL DEF Spec

-----------------------------------------------------------------------------
(***************************************************************************)
(* The work of the GPU and the scanout of the display, when every wait      *)
(* lasts until what it waits for.                                          *)
(***************************************************************************)
WorkInv ==
  /\ \A ch \in Chains, i \in Images :
       /\ images[ch][i].work # "none" => Holds(ch, i)
       /\ Presenting(ch, i) /\ images[ch][i].work # "none" => images[ch][i].fence = "unset"
  /\ \A s \in Images : slots[s].reading => slots[s].state \in {"free", "shown"}

(* Every step keeps the work on images held, ... *)
LEMMA WorkStep ==
  ASSUME ~CapsExpire, "retire" \notin Liberties
  PROVE  TypeOK /\ WindowInv /\ HoldInv /\ WorkInv /\ [Next]_vars => WorkInv'
<1> SUFFICES ASSUME TypeOK, WindowInv, HoldInv, WorkInv, [Next]_vars PROVE WorkInv'
  OBVIOUS
<1> USE DEF WorkInv, Holds, Presenting
<1>1. ASSUME NEW ch \in Chains, NEW min \in 2 .. MaxImages + 1,
             CreateZeroCopy(ch, min) \/ CreateFallback(ch, min)
      PROVE  WorkInv'
  <2> DEFINE n == ImageCount(min)
  <2>1. PICK z \in BOOLEAN : Made(ch, n, z) /\ slots' = Registered(ch, n)
    BY <1>1 DEF CreateZeroCopy, CreateFallback
  <2> HIDE DEF n
  <2>2. /\ present' = present /\ \A i \in Images : images'[ch][i].work = "none"
        /\ \A d \in Chains : d # ch => images'[d] = images[d]
    BY <2>1 DEF Made, NewImage, TypeOK
  <2>3. \A s \in Images : ~slots'[s].reading
    BY <2>1 DEF Registered, NoSlot
  <2>4. QED
    BY <2>2, <2>3 DEF Kept
<1>2. ASSUME NEW ch \in Chains, CreateFails(ch) \/ Destroy(ch) PROVE WorkInv'
  <2>1. /\ present' = present
        /\ \A d \in Chains, i \in Images :
             images'[d][i] = images[d][i] \/ images'[d][i].work = "none"
    <3>1. CASE CreateFails(ch)
      BY <3>1 DEF CreateFails
    <3>2. CASE Destroy(ch)
      BY <3>2 DEF Destroy, NewImage, TypeOK
    <3>3. QED
      BY <1>2, <3>1, <3>2
  <2>2. slots' = slots \/ \A s \in Images : ~slots'[s].reading
    BY <1>2 DEF CreateFails, Destroy, Released, NoSlot
  <2>3. QED
    BY <2>1, <2>2 DEF Kept
<1>3. ASSUME NEW ch \in Chains, NEW i \in Images, AcquireSlot(ch, i) \/ AcquireImage(ch, i)
      PROVE  WorkInv'
  <2>1. /\ \A d \in Chains, j \in Images :
             /\ Kept(d, j) => Kept(d, j)'
             /\ images'[d][j].work = images[d][j].work
             /\ images'[d][j].fence = images[d][j].fence
        /\ present' = present
    BY <1>3, ImageEffects, KeptEffects DEF AcquireSlot, AcquireImage
  <2>2. \A s \in Images : slots'[s].reading => slots'[s].state \in {"free", "shown"}
    <3>1. CASE AcquireSlot(ch, i)
      <4>1. ~slots[i].reading /\ slots' = [slots EXCEPT ![i].state = "dequeued"]
        BY <3>1 DEF AcquireSlot, Waited
      <4>2. ~slots'[i].reading /\ \A s \in Images \ {i} : slots'[s] = slots[s]
        BY <4>1 DEF TypeOK, Slot
      <4>3. QED
        BY <4>2
    <3>2. CASE AcquireImage(ch, i)
      BY <3>2 DEF AcquireImage
    <3>3. QED
      BY <1>3, <3>1, <3>2
  <2>3. QED
    BY <2>1, <2>2
<1>4. ASSUME NEW ch \in Chains, NEW i \in Images, Draw(ch, i) PROVE WorkInv'
  <2>1. UNCHANGED <<present, slots>> /\ Kept(ch, i)
    BY <1>4 DEF Draw, Held, Kept
  <2>2. /\ Kept(ch, i)' <=> Kept(ch, i)
        /\ \A d \in Chains, j \in Images : d # ch \/ j # i =>
             images'[d][j] = images[d][j] /\ (Kept(d, j)' <=> Kept(d, j))
    BY <1>4, KeptEffects
  <2>3. ~Presenting(ch, i) /\ Holds(ch, i)'
    BY <2>1, <2>2 DEF HoldInv
  <2>4. ~Presenting(ch, i)'
    BY <2>1, <2>3
  <2>5. ASSUME NEW d \in Chains, NEW j \in Images
        PROVE  /\ images'[d][j].work # "none" => Holds(d, j)'
               /\ Presenting(d, j)' /\ images'[d][j].work # "none" => images'[d][j].fence = "unset"
    <3>1. CASE d = ch /\ j = i
      BY <2>3, <2>4, <3>1
    <3>2. CASE d # ch \/ j # i
      BY <2>1, <2>2, <3>2
    <3>3. QED
      BY <3>1, <3>2
  <2>6. QED
    BY <2>1, <2>5
<1>5. ASSUME NEW ch \in Chains, NEW i \in Images, ReleaseImage(ch, i) PROVE WorkInv'
  <2>1. UNCHANGED <<present, slots>> /\ images[ch][i].work = "none"
    BY <1>5 DEF ReleaseImage
  <2>2. /\ images'[ch][i].work = images[ch][i].work
        /\ \A d \in Chains, j \in Images : d # ch \/ j # i =>
             images'[d][j] = images[d][j] /\ (Kept(d, j)' <=> Kept(d, j))
    BY <1>5, ImageEffects, KeptEffects
  <2>3. QED
    BY <2>1, <2>2
<1>6. ASSUME NEW ch \in Chains, NEW i \in Images, PresentFails(ch, i) PROVE WorkInv'
  <2>1. UNCHANGED <<present, slots>>
    BY <1>6 DEF PresentFails
  <2>2. /\ images'[ch][i].fence = "unset"
        /\ images'[ch][i].work = images[ch][i].work
        /\ \A d \in Chains, j \in Images :
             /\ d # ch \/ j # i => images'[d][j] = images[d][j]
             /\ Kept(d, j)' <=> Kept(d, j)
    BY <1>6, ImageEffects, KeptEffects
  <2>3. QED
    BY <2>1, <2>2
<1>l. ASSUME NEW ch \in Chains, NEW i \in Images, PresentLost(ch, i) PROVE WorkInv'
  <2>1. UNCHANGED <<present, slots>> /\ present = NoPresent
    BY <1>l DEF PresentLost, MayPresent
  <2>2. /\ Kept(ch, i)'
        /\ \A d \in Chains, j \in Images : d # ch \/ j # i =>
             images'[d][j] = images[d][j] /\ (Kept(d, j)' <=> Kept(d, j))
    BY <1>l, KeptEffects
  <2>3. \A d \in Chains, j \in Images : ~Presenting(d, j) /\ ~Presenting(d, j)'
    BY <2>1, PresentEffects
  <2>4. QED
    BY <2>1, <2>2, <2>3
<1>7. ASSUME NEW ch \in Chains, NEW i \in Images, PresentSubmit(ch, i) PROVE WorkInv'
  <2>1. /\ slots' = slots /\ present = NoPresent /\ images'[ch][i].fence = "unset"
        /\ \A d \in Chains, j \in Images : d # ch \/ j # i =>
             images'[d][j] = images[d][j] /\ (Kept(d, j)' <=> Kept(d, j))
    <3>1. slots' = slots /\ present = NoPresent
      BY <1>7 DEF PresentSubmit, MayPresent
    <3>2. images'[ch][i].fence = "unset"
      BY <1>7, ImageEffects
    <3>3. \A d \in Chains, j \in Images : d # ch \/ j # i =>
            images'[d][j] = images[d][j] /\ (Kept(d, j)' <=> Kept(d, j))
      BY <1>7, KeptEffects
    <3>4. QED
      BY <3>1, <3>2, <3>3
  <2>2. \A d \in Chains, j \in Images : ~Presenting(d, j) /\ (Presenting(d, j)' <=> d = ch /\ j = i)
    BY <1>7, <2>1, PresentEffects
  <2>3. QED
    BY <2>1, <2>2
<1>8. ASSUME NEW ch \in Chains, NEW i \in Images, HandOver(ch, i),
             \A s \in Images : slots'[s].reading => slots'[s].state \in {"free", "shown"}
      PROVE  WorkInv'
  <2>1. /\ present' = NoPresent /\ images[ch][i].fence = "set"
        /\ images'[ch][i].work = images[ch][i].work
        /\ \A d \in Chains, j \in Images : d # ch \/ j # i =>
             images'[d][j] = images[d][j] /\ (Kept(d, j)' <=> Kept(d, j))
    <3>1. HandOver(ch, i)
      BY <1>8
    <3>2. present' = NoPresent /\ images[ch][i].fence = "set"
      BY <3>1 DEF HandOver, Waited, FenceSet
    <3>3. images'[ch][i].work = images[ch][i].work
      BY <3>1, ImageEffects
    <3>4. \A d \in Chains, j \in Images : d # ch \/ j # i =>
            images'[d][j] = images[d][j] /\ (Kept(d, j)' <=> Kept(d, j))
      BY <3>1, KeptEffects
    <3>5. QED
      BY <3>2, <3>3, <3>4
  <2>2. \A d \in Chains, j \in Images : ~Presenting(d, j)' /\ (Presenting(d, j) <=> d = ch /\ j = i)
    BY <1>8, <2>1, PresentEffects
  <2>3. QED
    BY <1>8, <2>1, <2>2
<1>9. ASSUME NEW ch \in Chains, NEW i \in Images, NEW s \in Images,
             PresentSlot(ch, i) \/ PresentCopy(ch, i, s)
      PROVE  WorkInv'
  <2>1. HandOver(ch, i) /\ \A t \in Images : slots'[t].reading => slots'[t].state \in {"free", "shown"}
    BY <1>9, HandOverSlots
  <2>2. QED
    BY <1>8, <2>1
<1>10. ASSUME NEW ch \in Chains, NEW i \in Images, GpuDone(ch, i) PROVE WorkInv'
  <2>1. UNCHANGED <<present, slots>>
    BY <1>10 DEF GpuDone
  <2>2. /\ images'[ch][i].work = "none"
        /\ \A d \in Chains, j \in Images :
             /\ d # ch \/ j # i => images'[d][j] = images[d][j]
             /\ Kept(d, j)' <=> Kept(d, j)
    BY <1>10, ImageEffects, KeptEffects
  <2>3. QED
    BY <2>1, <2>2
<1>11. ASSUME NEW s \in Images, Latch(s) \/ ScanoutEnds(s) PROVE WorkInv'
  BY <1>11, DisplayEffects DEF Kept
<1>12. CASE UNCHANGED vars
  BY <1>12 DEF vars, Kept
<1>13. QED
  BY <1>1, <1>2, <1>3, <1>4, <1>5, <1>6, <1>l, <1>7, <1>9, <1>10, <1>11, <1>12
     DEF Next, Lifecycle, Frame, Gpu, Display

FrameInv == TypeOK /\ WindowInv /\ HoldInv /\ WorkInv

(* ... and so it always is. *)
LEMMA FrameCorrect ==
  ASSUME ~CapsExpire, "retire" \notin Liberties
  PROVE  Spec => []FrameInv
<1>1. Init => WorkInv
  BY DEF Init, WorkInv, NewImage, NoSlot
<1>2. QED
  BY <1>1, WorkStep, HoldCorrect, PTL DEF Spec, FrameInv

(* Nothing is drawn into what is on the screen: while the compositor has    *)
(* the buffer of a zero-copy image, the client does not hold the image and  *)
(* the GPU has no work on it.                                               *)
THEOREM TearingCorrect ==
  ASSUME ~CapsExpire, "retire" \notin Liberties
  PROVE  Spec => []NoTearing
<1>1. FrameInv => NoTearing
  <2> SUFFICES ASSUME FrameInv, NEW ch \in Chains, NEW i \in Images,
                      chains[ch].zero_copy, slots[i].owner = ch, OnScreen(i)
               PROVE  images[ch][i].work = "none" /\ ~images[ch][i].acquired
    BY DEF NoTearing, HeldOffScreen
  <2>1. slots[i].state # "dequeued"
    BY DEF FrameInv, WorkInv, OnScreen
  <2>2. ~Holds(ch, i)
    BY <2>1 DEF FrameInv, HoldInv
  <2>3. QED
    BY <2>2 DEF FrameInv, WorkInv, Holds, Kept
<1>2. QED
  BY <1>1, FrameCorrect, PTL

(* An acquire never gives out an image that the GPU, a present or the       *)
(* client still has, for zero-copy and fallback swapchains alike.           *)
THEOREM ExclusiveCorrect ==
  ASSUME ~CapsExpire, "retire" \notin Liberties
  PROVE  Spec => AcquireExclusive
<1>1. FrameInv /\ [Next]_vars =>
        [\A ch \in Chains, i \in Images :
           AcquireSlot(ch, i) \/ AcquireImage(ch, i) =>
             /\ images[ch][i].work = "none" /\ ~images[ch][i].acquired
             /\ present # [chain |-> ch, image |-> i]]_vars
  <2> SUFFICES ASSUME FrameInv, NEW ch \in Chains, NEW i \in Images,
                      AcquireSlot(ch, i) \/ AcquireImage(ch, i)
               PROVE  /\ images[ch][i].work = "none" /\ ~images[ch][i].acquired
                      /\ present # [chain |-> ch, image |-> i]
    OBVIOUS
  <2>1. ~Holds(ch, i)
    <3>1. CASE AcquireSlot(ch, i)
      BY <3>1 DEF AcquireSlot, FrameInv, WindowInv, HoldInv
    <3>2. CASE AcquireImage(ch, i)
      BY <3>2 DEF AcquireImage, Unbusy, FrameInv, HoldInv
    <3>3. QED
      BY <3>1, <3>2
  <2>2. QED
    BY <2>1, PresentingRecord DEF FrameInv, WorkInv, Holds, Kept
<1>2. QED
  BY <1>1, FrameCorrect, PTL DEF Spec, AcquireExclusive
==============================================================================
