------------------------------- MODULE SerialGpu -------------------------------
(***************************************************************************)
(* The GPU as the memory management above the shim takes it: work on any   *)
(* channel is handed over only while the GPU is idle on every channel, and *)
(* a fault ends all that the faulted channel was given.  DrmShimSync is    *)
(* shown to implement this as long as no wait inside EXEC gives up.        *)
(***************************************************************************)
EXTENDS Integers

CONSTANT Chans  \* GPFIFO channels

VARIABLE running  \* for each channel, the batches accepted and not finished

Idle == \A c \in Chans : running[c] = 0

Init == running = [c \in Chans |-> 0]

Start(c) ==
  /\ Idle
  /\ running'[c] > 0
  /\ running' = [running EXCEPT ![c] = running'[c]]

Finish(c) ==
  /\ running[c] > 0
  /\ running' = [running EXCEPT ![c] = @ - 1]

Abort(c) == running' = [running EXCEPT ![c] = 0]

Next ==
  \E c \in Chans :
    \/ Start(c)
    \/ Finish(c)
    \/ Abort(c)

Spec == Init /\ [][Next]_running
==============================================================================
