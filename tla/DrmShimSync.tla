------------------------------ MODULE DrmShimSync ------------------------------
(***************************************************************************)
(* The synchronisation half of src/winsys/drm_shim.c: submission (EXEC),   *)
(* the syncobj table, and the fences that tie them to the GPU.             *)
(*                                                                         *)
(* EXEC holds g_dev.lock while it waits for its dependencies, kicks off    *)
(* and drains; drmSyncobjWait and drmSyncobjQuery hold it only to copy a   *)
(* fence, which they then wait for or poll without it.  Every fence wait   *)
(* has a cap, whose expiry EXEC ignores.                                   *)
(*                                                                         *)
(* The GPU, the kernel and libnx's GPFIFO ring are seen through the calls  *)
(* the shim makes.  A fence is a value of its channel's syncpoint.  What a *)
(* request names is chosen where the code first reads it.  The "signaled"  *)
(* flag of a syncobj is left out: it is written and never read.            *)
(***************************************************************************)
EXTENDS Integers, FiniteSets

CONSTANTS
  NSyncobjs,    \* SHIM_MAX_SYNCOBJS: the slots of syncobjs[]
  Chans,        \* open channels
  Threads,      \* client threads
  NoThread,     \* value of lock when it is free
  NoChan,       \* the channel of an operation done by the CPU
  MaxSubmits,   \* bound on the submissions, failed ones included
  MaxPoint,     \* bound on timeline points; point 0 is a binary operation
  CapsExpire    \* TRUE if the GPU may be slower than the cap of a fence wait

ASSUME SyncAssumption ==
  /\ NSyncobjs \in Nat \ {0}
  /\ MaxSubmits \in Nat
  /\ MaxPoint \in Nat
  /\ NoThread \notin Threads
  /\ NoChan \notin Chans
  /\ CapsExpire \in BOOLEAN

Handles == 1 .. NSyncobjs
Points  == 0 .. MaxPoint
Counts  == 0 .. MaxSubmits

Fence   == [chan : Chans, value : Counts]
NoFence == [chan |-> NoChan, value |-> 0]   \* has_fence = FALSE

Syncobj == [used : BOOLEAN, value : Points, fence : Fence \cup {NoFence}]
ZeroObj == [used |-> FALSE, value |-> 0, fence |-> NoFence]

(* A signal operation: the batches of chan up to val have to finish for     *)
(* point to be reached; none, for one done by the CPU.                      *)
SignalOp == [chan : Chans \cup {NoChan}, val : Counts, point : Points]

Request == [left : SUBSET Handles, deps : SUBSET Handles, all : BOOLEAN, point : Points,
            fence : Fence \cup {NoFence}, value : Points, work : SUBSET SignalOp]
NoRequest == [left |-> {}, deps |-> {}, all |-> FALSE, point |-> 0,
              fence |-> NoFence, value |-> 0, work |-> {}]

Labels == {"idle", "called", "deps", "drain", "wait", "fence", "poll"}

VARIABLES
  syncobjs,  \* g_dev.syncobjs
  lock,      \* g_dev.lock: its holder across steps, or NoThread
  pc,        \* where each thread is in the call it makes
  req,       \* what that call keeps on its stack
  ring,      \* per channel, of libnx: increments promised by IncrFence and
             \* fence command lists appended, since the last good kickoff
  expected,  \* the syncpoint value of the channel's last fence
  accepted,  \* the value its syncpoint has when all accepted work is done
  done,      \* the value its syncpoint has now
  dead,      \* channels the kernel has reset after a fault
  budget,    \* submissions left under MaxSubmits
  hist       \* history: the signal operations on each syncobj so far

gpuVars  == <<accepted, done, dead>>
ringVars == <<ring, expected, budget>>
vars     == <<syncobjs, lock, pc, req, ringVars, gpuVars, hist>>

TypeOK ==
  /\ syncobjs \in [Handles -> Syncobj]
  /\ lock \in Threads \cup {NoThread}
  /\ pc \in [Threads -> Labels]
  /\ req \in [Threads -> Request]
  /\ ring \in [Chans -> [incr : Counts, cmds : Counts]]
  /\ expected \in [Chans -> Counts]
  /\ accepted \in [Chans -> Counts]
  /\ done \in [Chans -> Counts]
  /\ dead \subseteq Chans
  /\ budget \in Counts
  /\ hist \in [Handles -> SUBSET SignalOp]

Init ==
  /\ syncobjs = [h \in Handles |-> ZeroObj]
  /\ lock = NoThread
  /\ pc = [t \in Threads |-> "idle"]
  /\ req = [t \in Threads |-> NoRequest]
  /\ ring = [c \in Chans |-> [incr |-> 0, cmds |-> 0]]
  /\ expected = [c \in Chans |-> 0]
  /\ accepted = [c \in Chans |-> 0] /\ done = [c \in Chans |-> 0]
  /\ dead = {}
  /\ budget = MaxSubmits
  /\ hist = [h \in Handles |-> {}]

-----------------------------------------------------------------------------
(* Fences. *)

Reached(f)   == f.chan \in Chans => done[f.chan] >= f.value
Complete(op) == op.chan \in Chans => done[op.chan] >= op.val
Pending(h)   == {op \in hist[h] : ~Complete(op)}

ReleasedAtOnce(f) == TRUE

(* A fence of increments that no accepted work makes: a wait for it runs    *)
(* into its cap, however fast the GPU is.                                   *)
Unaccepted(f) == f.chan \in Chans /\ f.value > accepted[f.chan]

(* nvFenceWait with a cap, its result ignored. *)
Released(f) == CapsExpire \/ Reached(f) \/ Unaccepted(f)

FenceBehind(c, v) == [chan |-> c, value |-> IF v > 0 THEN v - 1 ELSE 0]

(* A fence of channel c for the value v of its syncpoint. *)
FenceAt(c, v) == [chan |-> c, value |-> v]

(* nvGpuChannelGetFence: what the last accepted kickoff expects, and the    *)
(* increments promised since, which after a failed kickoff are still in the *)
(* ring.                                                                    *)
ChannelFence(c) == FenceAt(c, expected[c] + ring[c].incr)

(* The client uses a syncobj either as a binary one or as a timeline, and   *)
(* orders the operations that signal it, as Vulkan requires: a new one is   *)
(* of the channel whose work is pending on the syncobj, if any is, and its  *)
(* timeline point is above all earlier ones.                                *)
MaySignal(h, c, p) ==
  \A op \in hist[h] :
    /\ Complete(op) \/ op.chan = c
    /\ (p = 0 /\ op.point = 0) \/ (0 < op.point /\ op.point < p)

Signalled(S, f, p) ==
  [h \in Handles |-> IF h \in S THEN [syncobjs[h] EXCEPT !.fence = f, !.value = p] ELSE syncobjs[h]]

Attached(S, f) ==
  [h \in Handles |-> IF h \in S THEN [syncobjs[h] EXCEPT !.fence = f] ELSE syncobjs[h]]

(* A binary operation done by the CPU is nothing anyone waits for. *)
Recorded(S, op) ==
  [h \in Handles |-> IF h \in S /\ (op.chan \in Chans \/ op.point > 0)
                     THEN hist[h] \cup {op} ELSE hist[h]]

Used == {h \in Handles : syncobjs[h].used}

(* syncobj_lookup: an entry not in use is as good as a zeroed one. *)
Lookup(h) == IF syncobjs[h].used THEN syncobjs[h] ELSE ZeroObj

-----------------------------------------------------------------------------
(* Calls. *)

Goto(t, label) == pc' = [pc EXCEPT ![t] = label]

Return(t) ==
  /\ Goto(t, "idle")
  /\ req' = [req EXCEPT ![t] = NoRequest]

(* An entry point is called; until it gets the lock it has done nothing.    *)
Call(t) ==
  /\ pc[t] = "idle"
  /\ Goto(t, "called")
  /\ UNCHANGED <<syncobjs, lock, req, ringVars, gpuVars, hist>>

(* A handler that runs from lock to unlock in one step. *)
Handler(t) ==
  /\ pc[t] = "called"
  /\ lock = NoThread
  /\ Return(t)
  /\ UNCHANGED <<lock, ringVars, gpuVars>>

(* drmSyncobjSignal, a failed lookup, a full table, a wait for no handles,  *)
(* a VM_BIND of which one operation failed.                                 *)
NoChange(t) == Handler(t) /\ UNCHANGED <<syncobjs, hist>>

(* drmSyncobjCreate does not write the fence of the slot it takes. *)
Create(t, h) ==
  /\ Handler(t)
  /\ h \notin Used /\ \A g \in Handles : g < h => g \in Used
  /\ syncobjs' = [syncobjs EXCEPT ![h].used = TRUE, ![h].value = 0]
  /\ UNCHANGED hist

DestroyKeepsFence(s) == [s EXCEPT !.used = FALSE]

(* memset of the entry. *)
Destroyed(s) == ZeroObj

Destroy(t, h) ==
  /\ Handler(t)
  /\ h \in Used
  /\ syncobjs' = [syncobjs EXCEPT ![h] = Destroyed(@)]
  /\ hist' = [hist EXCEPT ![h] = {}]

Reset(t, S) ==
  /\ Handler(t)
  /\ S \subseteq Used
  /\ syncobjs' = Signalled(S, NoFence, 0)
  /\ hist' = [h \in Handles |-> IF h \in S THEN {} ELSE hist[h]]

(* Writes the value and leaves a fence where it is. *)
TimelineSignal(t, h, p) ==
  /\ Handler(t)
  /\ h \in Used /\ p > 0 /\ MaySignal(h, NoChan, p)
  /\ syncobjs' = [syncobjs EXCEPT ![h].value = p]
  /\ hist' = Recorded({h}, [chan |-> NoChan, val |-> 0, point |-> p])

(* The end of nouveau_vm_bind, all operations done.  The syncobjs it was    *)
(* asked to wait for are not looked at.                                     *)
VmBind(t, S, p) ==
  /\ Handler(t)
  /\ S \subseteq Used /\ \A h \in S : MaySignal(h, NoChan, p)
  /\ syncobjs' = Signalled(S, NoFence, p)
  /\ hist' = Recorded(S, [chan |-> NoChan, val |-> 0, point |-> p])

-----------------------------------------------------------------------------
(* EXEC. *)

Unlock == lock' = NoThread

ExecBegin(t, D) ==
  /\ pc[t] = "called"
  /\ lock = NoThread
  /\ lock' = t
  /\ Goto(t, "deps")
  /\ req' = [req EXCEPT ![t].left = D, ![t].deps = D]
  /\ UNCHANGED <<syncobjs, ringVars, gpuVars, hist>>

ExecWait(t, h) ==
  /\ pc[t] = "deps"
  /\ h \in req[t].left
  /\ Released(Lookup(h).fence)
  /\ req' = [req EXCEPT ![t].left = @ \ {h}]
  /\ UNCHANGED <<syncobjs, lock, pc, ringVars, gpuVars, hist>>

DepsDone(t) == pc[t] = "deps" /\ req[t].left = {}

(* Nothing to push: the syncobjs get the channel's fence, and the point.    *)
(* The work this stands for is what the channel has accepted; after a       *)
(* failed kickoff the fence is above it.                                    *)
ExecEmpty(t, c, S, p) ==
  /\ DepsDone(t)
  /\ S \subseteq Used /\ \A h \in S : MaySignal(h, c, p)
  /\ syncobjs' = Signalled(S, ChannelFence(c), p)
  /\ hist' = Recorded(S, [chan |-> c, val |-> accepted[c], point |-> p])
  /\ Unlock
  /\ Return(t)
  /\ UNCHANGED <<ringVars, gpuVars>>

PreparedTwice(c) == [incr |-> ring[c].incr + 2, cmds |-> ring[c].cmds + 1]

(* The pushbufs, IncrFence, and the fence command list that makes the GPU   *)
(* do the increment.                                                        *)
Prepared(c) == [incr |-> ring[c].incr + 1, cmds |-> ring[c].cmds + 1]

Submit == budget > 0 /\ budget' = budget - 1

(* kickoff_retry gives up: the ring keeps what was appended, which the next *)
(* kickoff of this channel submits along with its own.                      *)
ExecFails(t, c) ==
  /\ DepsDone(t)
  /\ Submit
  /\ ring' = [ring EXCEPT ![c] = Prepared(c)]
  /\ Unlock
  /\ Return(t)
  /\ UNCHANGED <<syncobjs, expected, gpuVars, hist>>

(* The kernel accepts the ring.  The timeline value is not written. *)
ExecKickoff(t, c, S, p) ==
  /\ DepsDone(t)
  /\ Submit /\ c \notin dead
  /\ S \subseteq Used /\ \A h \in S : MaySignal(h, c, p)
  /\ ring' = [ring EXCEPT ![c] = [incr |-> 0, cmds |-> 0]]
  /\ expected' = [expected EXCEPT ![c] = @ + Prepared(c).incr]
  /\ accepted' = [accepted EXCEPT ![c] = @ + Prepared(c).cmds]
  /\ LET f == FenceAt(c, expected'[c])
     IN  /\ syncobjs' = Attached(S, f)
         /\ req' = [req EXCEPT ![t] = [NoRequest EXCEPT !.fence = f]]
  /\ hist' = Recorded(S, [chan |-> c, val |-> accepted'[c], point |-> p])
  /\ Goto(t, "drain")
  /\ UNCHANGED <<lock, done, dead>>

DrainedAtOnce(f) == TRUE
DrainedWithoutCap(f) == Reached(f)

(* The wait before EXEC returns. *)
Drained(f) == Released(f)

ExecDrain(t) ==
  /\ pc[t] = "drain"
  /\ Drained(req[t].fence)
  /\ Unlock
  /\ Return(t)
  /\ UNCHANGED <<syncobjs, ringVars, gpuVars, hist>>

-----------------------------------------------------------------------------
(* drmSyncobjQuery, for one handle. *)

QuerySnapshot(t, h) ==
  /\ pc[t] = "called"
  /\ lock = NoThread
  /\ Goto(t, "poll")
  /\ req' = [req EXCEPT ![t].fence = Lookup(h).fence, ![t].value = Lookup(h).value,
                        ![t].work = Pending(h)]
  /\ UNCHANGED <<syncobjs, lock, ringVars, gpuVars, hist>>

AnsweredUnpolled(r) == r.value

(* The point reported. *)
Answered(r) == IF Reached(r.fence) THEN r.value ELSE 0

QueryPoll(t) ==
  /\ pc[t] = "poll"
  /\ Return(t)
  /\ UNCHANGED <<syncobjs, lock, ringVars, gpuVars, hist>>

-----------------------------------------------------------------------------
(* drmSyncobjWait, and drmSyncobjTimelineWait, which ignores its points.    *)

WaitBegin(t, H, all, p) ==
  /\ pc[t] = "called"
  /\ H # {}
  /\ Goto(t, "wait")
  /\ req' = [req EXCEPT ![t].left = H, ![t].all = all, ![t].point = p]
  /\ UNCHANGED <<syncobjs, lock, ringVars, gpuVars, hist>>

(* One handle of "left" is ready: go on to the rest, or return 0. *)
Ready(t, rest) ==
  IF req[t].all /\ rest # {}
  THEN /\ Goto(t, "wait")
       /\ req' = [req EXCEPT ![t].left = rest, ![t].fence = NoFence, ![t].work = {}]
  ELSE Return(t)

(* Under the lock: no fence, so "already done". *)
WaitFree(t, h) ==
  /\ pc[t] = "wait" /\ lock = NoThread
  /\ h \in req[t].left
  /\ Lookup(h).fence = NoFence
  /\ Ready(t, req[t].left \ {h})
  /\ UNCHANGED <<syncobjs, lock, ringVars, gpuVars, hist>>

(* Under the lock: the fence is copied. *)
WaitSnapshot(t, h) ==
  /\ pc[t] = "wait" /\ lock = NoThread
  /\ h \in req[t].left
  /\ Lookup(h).fence # NoFence
  /\ Goto(t, "fence")
  /\ req' = [req EXCEPT ![t].left = @ \ {h}, ![t].fence = Lookup(h).fence, ![t].work = Pending(h)]
  /\ UNCHANGED <<syncobjs, lock, ringVars, gpuVars, hist>>

WaitReached(t) ==
  /\ pc[t] = "fence"
  /\ Reached(req[t].fence)
  /\ Ready(t, req[t].left)
  /\ UNCHANGED <<syncobjs, lock, ringVars, gpuVars, hist>>

(* The client's timeout or the cap of 3 s: -ETIME, or the next handle. *)
WaitExpired(t) ==
  /\ pc[t] = "fence"
  /\ ~Reached(req[t].fence)
  /\ IF req[t].all \/ req[t].left = {}
     THEN Return(t)
     ELSE /\ Goto(t, "wait")
          /\ req' = [req EXCEPT ![t].fence = NoFence, ![t].work = {}]
  /\ UNCHANGED <<syncobjs, lock, ringVars, gpuVars, hist>>

-----------------------------------------------------------------------------
(* The GPU. *)

(* The next fence command list has run, and the work before it. *)
GpuStep(c) ==
  /\ done[c] < accepted[c]
  /\ done' = [done EXCEPT ![c] = @ + 1]
  /\ UNCHANGED <<syncobjs, lock, pc, req, ringVars, accepted, dead, hist>>

(* A fault: the kernel resets the channel and forces its syncpoint up.      *)
GpuFault(c) ==
  /\ done[c] < accepted[c]
  /\ done' = [done EXCEPT ![c] = accepted[c]]
  /\ dead' = dead \cup {c}
  /\ UNCHANGED <<syncobjs, lock, pc, req, ringVars, accepted, hist>>

-----------------------------------------------------------------------------
TableCall(t) ==
  \/ NoChange(t)
  \/ \E h \in Handles :
       \/ Create(t, h)
       \/ Destroy(t, h)
       \/ \E p \in Points : TimelineSignal(t, h, p)
  \/ \E S \in SUBSET Handles :
       \/ Reset(t, S)
       \/ \E p \in Points : VmBind(t, S, p)

ExecCall(t) ==
  \/ \E D \in SUBSET Handles : ExecBegin(t, D)
  \/ \E h \in Handles : ExecWait(t, h)
  \/ \E c \in Chans :
       \/ ExecFails(t, c)
       \/ \E S \in SUBSET Handles, p \in Points : ExecEmpty(t, c, S, p) \/ ExecKickoff(t, c, S, p)
  \/ ExecDrain(t)

ReadCall(t) ==
  \/ \E h \in Handles : QuerySnapshot(t, h)
  \/ QueryPoll(t)
  \/ \E H \in SUBSET Handles, all \in BOOLEAN, p \in Points : WaitBegin(t, H, all, p)
  \/ \E h \in Handles : WaitFree(t, h) \/ WaitSnapshot(t, h)
  \/ WaitReached(t)
  \/ WaitExpired(t)

InCall(t) == TableCall(t) \/ ExecCall(t) \/ ReadCall(t)
Gpu       == \E c \in Chans : GpuStep(c) \/ GpuFault(c)
Next      == Gpu \/ \E t \in Threads : Call(t) \/ InCall(t)

Spec == Init /\ [][Next]_vars

(* A thread inside a call keeps running, and one that queues for the lock   *)
(* gets it: Horizon hands a mutex over to its waiters.  Nothing is asked of *)
(* the GPU, which may hang.                                                 *)
Fairness == \A t \in Threads : SF_vars(InCall(t))
FairSpec == Spec /\ Fairness

-----------------------------------------------------------------------------
(* Properties. *)

(* While no cap expires, the drain under the lock makes the GPU serial: a   *)
(* kickoff, on whatever channel, finds every channel idle.                  *)
Gpus == INSTANCE SerialGpu WITH running <- [c \in Chans |-> accepted[c] - done[c]]
ImplementsSerialGpu == Gpus!Spec

(* EXEC hands its work to the GPU only after all the work signalled on each *)
(* of the syncobjs it was asked to wait for.  A fence that another call     *)
(* replaced or took away from a syncobj while its work was pending would    *)
(* break this.                                                              *)
DepsComplete ==
  [][\A t \in Threads :
       pc[t] = "deps" /\ pc'[t] = "drain" =>
         \A h \in req[t].deps : \A op \in hist[h] : Complete(op)]_vars

(* VM_BIND ignores the syncobjs it is asked to wait for.  That is sound     *)
(* because no signalled work of any kind is pending when it gets the lock.  *)
BindsAfterDeps ==
  [][\A t \in Threads, S \in SUBSET Handles, p \in Points :
       VmBind(t, S, p) => \A h \in Handles : \A op \in hist[h] : Complete(op)]_vars

(* When a wait takes a syncobj for ready, all the work signalled on it when *)
(* it was looked up is complete, though EXEC, VM_BIND and reset replace and *)
(* drop fences meanwhile.                                                   *)
WaitSound ==
  [][\A t \in Threads :
       /\ WaitReached(t) => \A op \in req[t].work : Complete(op)
       /\ \A h \in Handles : WaitFree(t, h) => \A op \in hist[h] : Complete(op)]_vars

(* A query never reports a timeline point while work that signals that      *)
(* point or an earlier one is pending: NVK's upload queue would reuse a     *)
(* buffer the GPU still reads.                                              *)
QuerySound ==
  [][\A t \in Threads :
       QueryPoll(t) =>
         \A op \in req[t].work : 0 < op.point /\ op.point <= Answered(req[t]) => Complete(op)]_vars

(* The fence of a syncobj never comes before work that was signalled on     *)
(* that very syncobj, and command lists make all the increments it counts,  *)
(* those of a failed kickoff when the channel's next one submits the ring:  *)
(* no fence comes from an earlier owner of the slot, and none is out of     *)
(* reach for ever.                                                          *)
FenceOfOwnWork ==
  \A h \in Handles : LET f == Lookup(h).fence
                     IN f # NoFence =>
                          /\ \E op \in hist[h] : op.chan = f.chan /\ op.val <= f.value
                          /\ f.value <= accepted[f.chan] + ring[f.chan].cmds

(* An EXEC with nothing to push gives its syncobjs the fence of the last    *)
(* work submitted: the GPU gets there by itself.                            *)
FencesAccepted == \A h \in Handles : ~Unaccepted(Lookup(h).fence)

(* Every call returns, whatever the GPU does: the lock is never kept for    *)
(* ever by a thread that waits for a hung channel.                          *)
CallsReturn == \A t \in Threads : pc[t] # "idle" ~> pc[t] = "idle"

(* Once the work of an EXEC that signals a timeline point is done, the      *)
(* syncobj's value has that point.                                          *)
PointsRecorded ==
  \A h \in Used : \A op \in hist[h] : Complete(op) => syncobjs[h].value >= op.point

(* A wait for a timeline point finds the syncobj ready only once an         *)
(* operation that signals that point or a later one is complete.            *)
TimelineWaitReaches ==
  [][\A t \in Threads, h \in Handles :
       WaitFree(t, h) /\ h \in Used =>
         req[t].point = 0 \/ \E op \in hist[h] : Complete(op) /\ op.point >= req[t].point]_vars
==============================================================================
