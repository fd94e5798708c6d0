------------------------------- MODULE SwitchWsi -------------------------------
(***************************************************************************)
(* Swapchains on the Switch: src/winsys/wsi/wsi_common_switch.c under the  *)
(* acquire and present path of Mesa's wsi_common.c.                        *)
(*                                                                         *)
(* A swapchain registers its images as the slots of the one nwindow (slot  *)
(* = image index), so that the VI compositor scans out what the client     *)
(* drew; failing that it copies each presented image into a libnx          *)
(* framebuffer, whose buffers are the slots then.  The client, the GPU and *)
(* the compositor run concurrently.  Calls on one swapchain are serial, as *)
(* Vulkan requires; a present is two steps, its submission and the         *)
(* hand-over, with the wait for the image's fence between them.            *)
(*                                                                         *)
(* libnx and the compositor are modelled as the code uses them.  A call    *)
(* that fails and changes nothing (no slot free, no fence created, a       *)
(* throttle wait that gives up) is no step; one that fails halfway is.     *)
(* "configured" equals "zero_copy" once a swapchain is made, and is left   *)
(* out.                                                                    *)
(***************************************************************************)
EXTENDS Integers, FiniteSets

CONSTANTS
  MaxImages,   \* WSI_SWITCH_MAX_IMAGES
  Chains,      \* identities of swapchains
  NoChain,     \* no swapchain
  CapsExpire,  \* TRUE if GPU or display may be slower than the cap of a wait
  Liberties    \* what the client may do besides the simplest use:
               \*   "retire"   make a swapchain while an older one exists
               \*   "release"  give an acquired zero-copy image back

ASSUME WsiAssumption ==
  /\ MaxImages \in Nat \ {0, 1}
  /\ NoChain \notin Chains
  /\ CapsExpire \in BOOLEAN
  /\ Liberties \subseteq {"retire", "release"}

Images == 0 .. MaxImages - 1
Counts == 2 .. MaxImages

(* fence: fences[i], "none" before the first present.  work: what the GPU   *)
(* still has to do on the image; the work of a present includes all that    *)
(* was drawn before it.  lost: an acquire that took the image, or a present *)
(* that took it from the client, has failed, so nobody will hand it on;     *)
(* the program keeps no such flag.                                          *)
Image    == [busy : BOOLEAN, acquired : BOOLEAN, lost : BOOLEAN, fence : {"none", "set", "unset"},
             work : {"none", "draw", "present"}]
NewImage == [busy |-> FALSE, acquired |-> FALSE, lost |-> FALSE, fence |-> "none", work |-> "none"]

Chain    == [alive : BOOLEAN, zero_copy : BOOLEAN, count : Counts, next : Images]
DeadChain == [alive |-> FALSE, zero_copy |-> FALSE, count |-> 2, next |-> 0]

(* reading: the display still reads the buffer; its release fence is unset. *)
Slot   == [owner : Chains \cup {NoChain}, state : {"free", "dequeued", "queued", "shown"},
           reading : BOOLEAN]
NoSlot == [owner |-> NoChain, state |-> "free", reading |-> FALSE]

NoPresent == [chain |-> NoChain, image |-> 0]

VARIABLES
  chains,   \* the swapchains
  images,   \* their images
  slots,    \* the nwindow's buffer slots
  current,  \* the swapchain that is not retired, or NoChain
  present   \* the image whose present is submitted and not handed over

vars == <<chains, images, slots, current, present>>

TypeOK ==
  /\ chains \in [Chains -> Chain]
  /\ images \in [Chains -> [Images -> Image]]
  /\ slots \in [Images -> Slot]
  /\ current \in Chains \cup {NoChain}
  /\ present \in [chain : Chains \cup {NoChain}, image : Images]

Init ==
  /\ chains = [ch \in Chains |-> DeadChain]
  /\ images = [ch \in Chains |-> [i \in Images |-> NewImage]]
  /\ slots = [s \in Images |-> NoSlot]
  /\ current = NoChain
  /\ present = NoPresent

-----------------------------------------------------------------------------
Of(ch) == 0 .. chains[ch].count - 1

(* nwindowReleaseBuffers: whoever registered them. *)
Released == [s \in Images |-> NoSlot]

(* Slots 0 to n-1 of a window that has none are given the buffers of ch. *)
Registered(ch, n) ==
  [s \in Images |-> IF s < n THEN [NoSlot EXCEPT !.owner = ch] ELSE NoSlot]

NotWaited(signaled) == TRUE

(* WaitForFences, or the wait for a slot's release fence, result ignored. *)
Waited(signaled) == CapsExpire \/ signaled

-----------------------------------------------------------------------------
(* Creation and destruction. *)

Unclamped(min) == min

(* The images made of pCreateInfo->minImageCount. *)
ImageCount(min) == IF min > MaxImages THEN MaxImages ELSE min

MayCreate(ch) ==
  /\ ~chains[ch].alive
  /\ current = NoChain \/ "retire" \in Liberties

Made(ch, n, zero_copy) ==
  /\ chains' = [chains EXCEPT ![ch] = [alive |-> TRUE, zero_copy |-> zero_copy,
                                       count |-> n, next |-> 0]]
  /\ images' = [images EXCEPT ![ch] = [i \in Images |-> NewImage]]
  /\ current' = ch
  /\ UNCHANGED present

(* Every image is wrapped and registered.  A slot can be registered once,   *)
(* until the window is released.                                            *)
CreateZeroCopy(ch, min) ==
  /\ MayCreate(ch)
  /\ slots = Released
  /\ slots' = Registered(ch, ImageCount(min))
  /\ Made(ch, ImageCount(min), TRUE)

(* One is not: the window is reset and framebufferCreate registers buffers. *)
CreateFallback(ch, min) ==
  /\ MayCreate(ch)
  /\ slots' = Registered(ch, ImageCount(min))
  /\ Made(ch, ImageCount(min), FALSE)

(* An image, the framebuffer, or an allocation of wsi_CreateSwapchainKHR    *)
(* fails; in the last two cases the window has been reset.  The older       *)
(* swapchain is retired all the same.                                       *)
CreateFails(ch) ==
  /\ MayCreate(ch)
  /\ slots' \in {slots, Released}
  /\ current' = NoChain
  /\ UNCHANGED <<chains, images, present>>

(* The client waits for its work on the images first. *)
Destroy(ch) ==
  /\ chains[ch].alive /\ present.chain # ch
  /\ \A i \in Of(ch) : images[ch][i].work = "none"
  /\ slots' = Released
  /\ chains' = [chains EXCEPT ![ch] = DeadChain]
  /\ images' = [images EXCEPT ![ch] = [i \in Images |-> NewImage]]
  /\ current' = IF current = ch THEN NoChain ELSE current
  /\ UNCHANGED present

-----------------------------------------------------------------------------
(* Acquire. *)

Serial(ch) == chains[ch].alive /\ present.chain # ch

(* The image is taken.  If the semaphore or the fence of the acquire cannot *)
(* be signalled, the call fails with it taken and the client has no image.  *)
Acquired(ch, i) ==
  \E lost \in BOOLEAN :
    images' = [images EXCEPT ![ch][i].busy = TRUE, ![ch][i].acquired = TRUE, ![ch][i].lost = lost]

(* nwindowDequeueBuffer gives a free slot and its release fence.  A slot of *)
(* no image of ch is cancelled, which is no step.                           *)
AcquireSlot(ch, i) ==
  /\ Serial(ch) /\ ch = current /\ chains[ch].zero_copy
  /\ i \in Of(ch)
  /\ slots[i].owner # NoChain /\ slots[i].state = "free"
  /\ Waited(~slots[i].reading)
  /\ slots' = [slots EXCEPT ![i].state = "dequeued"]
  /\ Acquired(ch, i)
  /\ UNCHANGED <<chains, current, present>>

AnyBusy(ch, i) == TRUE

(* Round robin over the images that are not busy. *)
Unbusy(ch, i) ==
  /\ ~images[ch][i].busy
  /\ \A j \in Of(ch) :
       (j - chains[ch].next) % chains[ch].count < (i - chains[ch].next) % chains[ch].count
         => images[ch][j].busy

AcquireImage(ch, i) ==
  /\ Serial(ch) /\ ch = current /\ ~chains[ch].zero_copy
  /\ i \in Of(ch)
  /\ Unbusy(ch, i)
  /\ chains' = [chains EXCEPT ![ch].next = (i + 1) % chains[ch].count]
  /\ Acquired(ch, i)
  /\ UNCHANGED <<slots, current, present>>

(* The client holds the image. *)
Held(ch, i) == images[ch][i].acquired /\ ~images[ch][i].lost

(* The client submits work on an image it holds. *)
Draw(ch, i) ==
  /\ chains[ch].alive /\ Held(ch, i)
  /\ images' = [images EXCEPT ![ch][i].work = IF @ = "present" THEN @ ELSE "draw"]
  /\ UNCHANGED <<chains, slots, current, present>>

(* vkReleaseSwapchainImagesEXT, once the work on the image is done: the     *)
(* flags are cleared; no slot is cancelled.                                 *)
ReleaseImage(ch, i) ==
  /\ Serial(ch)
  /\ Held(ch, i) /\ images[ch][i].work = "none"
  /\ chains[ch].zero_copy => "release" \in Liberties
  /\ images' = [images EXCEPT ![ch][i].busy = FALSE, ![ch][i].acquired = FALSE]
  /\ UNCHANGED <<chains, slots, current, present>>

-----------------------------------------------------------------------------
(* Present. *)

(* The throttle: the image's fence of its last present is set. *)
Throttled(ch, i) == images[ch][i].fence = "unset"

MayPresent(ch, i) ==
  /\ Serial(ch) /\ present = NoPresent
  /\ Held(ch, i)
  /\ ~Throttled(ch, i)

SubmitDropsImage(img) == [img EXCEPT !.fence = "unset", !.acquired = FALSE]

(* The fence was reset before the submission that fails. *)
SubmitFailed(img) == [img EXCEPT !.fence = "unset"]

PresentFails(ch, i) ==
  /\ MayPresent(ch, i)
  /\ images' = [images EXCEPT ![ch][i] = SubmitFailed(@)]
  /\ UNCHANGED <<chains, slots, current, present>>

Submitted(img) == [img EXCEPT !.fence = "unset", !.acquired = FALSE, !.work = "present"]

PresentSubmit(ch, i) ==
  /\ MayPresent(ch, i)
  /\ images' = [images EXCEPT ![ch][i] = Submitted(@)]
  /\ present' = [chain |-> ch, image |-> i]
  /\ UNCHANGED <<chains, slots, current>>

(* The dma-buf or the present id cannot be signalled after the submission:  *)
(* the call fails without a hand-over, and leaves the image busy and its    *)
(* slot dequeued.                                                           *)
PresentLost(ch, i) ==
  /\ MayPresent(ch, i)
  /\ images' = [images EXCEPT ![ch][i] = [Submitted(@) EXCEPT !.lost = TRUE]]
  /\ UNCHANGED <<chains, slots, current, present>>

(* nwindowQueueBuffer, which fails unless the slot is dequeued; ignored.    *)
Queued(s) ==
  IF slots[s].state = "dequeued" THEN [slots EXCEPT ![s].state = "queued"] ELSE slots

FenceSet(img) == img.fence = "set"

(* The end of wsi_switch_swapchain_queue_present. *)
HandOver(ch, i) ==
  /\ present = [chain |-> ch, image |-> i]
  /\ Waited(FenceSet(images[ch][i]))
  /\ present' = NoPresent
  /\ images' = [images EXCEPT ![ch][i].busy = FALSE]
  /\ UNCHANGED <<chains, current>>

PresentSlot(ch, i) ==
  /\ HandOver(ch, i)
  /\ chains[ch].zero_copy
  /\ slots' = Queued(i)

FrameLeftOpen(s) == [slots EXCEPT ![s].state = "dequeued"]

(* framebufferEnd. *)
Copied(s) == [slots EXCEPT ![s].state = "queued"]

(* framebufferBegin takes a free buffer, waiting for its release fence; the *)
(* image is copied.  If another swapchain took the buffers away, the code   *)
(* would write to the null pointer it is given; here the present is stuck.  *)
PresentCopy(ch, i, s) ==
  /\ HandOver(ch, i)
  /\ ~chains[ch].zero_copy
  /\ slots[s].owner # NoChain /\ slots[s].state = "free" /\ ~slots[s].reading
  /\ slots' = Copied(s)

-----------------------------------------------------------------------------
(* The GPU and the display. *)

(* What the GPU has to do on the image is done; a present sets its fence.   *)
GpuDone(ch, i) ==
  /\ images[ch][i].work # "none"
  /\ images' = [images EXCEPT ![ch][i].work = "none",
                              ![ch][i].fence = IF images[ch][i].work = "present" THEN "set" ELSE @]
  /\ UNCHANGED <<chains, slots, current, present>>

(* A queued buffer goes on screen; the one it replaces is free, and read    *)
(* until its scanout ends.                                                  *)
Latch(s) ==
  /\ slots[s].state = "queued"
  /\ slots' = [t \in Images |->
                CASE t = s -> [slots[s] EXCEPT !.state = "shown", !.reading = TRUE]
                  [] t # s /\ slots[t].state = "shown" -> [slots[t] EXCEPT !.state = "free"]
                  [] OTHER -> slots[t]]
  /\ UNCHANGED <<chains, images, current, present>>

ScanoutEnds(s) ==
  /\ slots[s].reading /\ slots[s].state # "shown"
  /\ slots' = [slots EXCEPT ![s].reading = FALSE]
  /\ UNCHANGED <<chains, images, current, present>>

-----------------------------------------------------------------------------
Lifecycle(ch) ==
  \/ \E min \in 2 .. MaxImages + 1 : CreateZeroCopy(ch, min) \/ CreateFallback(ch, min)
  \/ CreateFails(ch)
  \/ Destroy(ch)

Frame(ch) ==
  \E i \in Images :
    \/ AcquireSlot(ch, i)
    \/ AcquireImage(ch, i)
    \/ Draw(ch, i)
    \/ ReleaseImage(ch, i)
    \/ PresentFails(ch, i)
    \/ PresentSubmit(ch, i)
    \/ PresentLost(ch, i)
    \/ PresentSlot(ch, i)
    \/ \E s \in Images : PresentCopy(ch, i, s)

Display == \E s \in Images : Latch(s) \/ ScanoutEnds(s)
Gpu     == \E ch \in Chains, i \in Images : GpuDone(ch, i)

Next == (\E ch \in Chains : Lifecycle(ch) \/ Frame(ch)) \/ Gpu \/ Display

Spec == Init /\ [][Next]_vars

(* The GPU is not hung, the display refreshes, and a call under way goes on. *)
HandsOver(ch) ==
  \E i \in Images : PresentSlot(ch, i) \/ \E s \in Images : PresentCopy(ch, i, s)

Fairness ==
  /\ \A ch \in Chains : WF_vars(HandsOver(ch))
  /\ \A ch \in Chains, i \in Images : WF_vars(GpuDone(ch, i))
  /\ \A s \in Images : WF_vars(Latch(s)) /\ WF_vars(ScanoutEnds(s))

FairSpec == Spec /\ Fairness

-----------------------------------------------------------------------------
(* Properties. *)

OnScreen(s) == slots[s].reading \/ slots[s].state \in {"queued", "shown"}

(* The client never holds an image whose buffer the compositor still has.  *)
HeldOffScreen ==
  \A ch \in Chains, i \in Images :
    chains[ch].zero_copy /\ slots[i].owner = ch /\ OnScreen(i) => ~images[ch][i].acquired

(* No tearing: nobody holds an image, and the GPU does not write it, from   *)
(* when the compositor gets it to when it is off the screen.                *)
NoTearing ==
  /\ HeldOffScreen
  /\ \A ch \in Chains, i \in Images :
       chains[ch].zero_copy /\ slots[i].owner = ch /\ OnScreen(i) => images[ch][i].work = "none"

(* An image, and the slot of a zero-copy one, is out of circulation exactly *)
(* while the client holds it, its present is under way, or a call that      *)
(* failed with it in hand has lost it: nothing else leaks an image, and no  *)
(* failure, of whatever step, gives back one that is still in use.          *)
SlotsAccounted ==
  \A ch \in Chains, i \in Images :
    LET InUse == \/ images[ch][i].acquired \/ images[ch][i].lost
                 \/ present = [chain |-> ch, image |-> i]
    IN  /\ images[ch][i].busy <=> InUse
        /\ chains[ch].zero_copy /\ slots[i].owner = ch =>
             (slots[i].state = "dequeued" <=> InUse)

(* An acquired image is the client's alone: the GPU has no work left on it, *)
(* its present has been handed over, and another acquire has not given it   *)
(* out.                                                                     *)
AcquireExclusive ==
  [][\A ch \in Chains, i \in Images :
       AcquireSlot(ch, i) \/ AcquireImage(ch, i) =>
         /\ images[ch][i].work = "none" /\ ~images[ch][i].acquired
         /\ present # [chain |-> ch, image |-> i]]_vars

(* For each image of the swapchain in use, a buffer is registered with the  *)
(* nwindow, as the slot of the image's index.                               *)
CurrentRegistered ==
  \A ch \in Chains : ch = current => \A i \in Of(ch) : slots[i].owner = ch

(* A present returns: the buffers of a fallback framebuffer come back, so   *)
(* that presenter and display never wait for each other.                    *)
PresentReturns == \A ch \in Chains : present.chain = ch ~> present.chain # ch
==============================================================================
