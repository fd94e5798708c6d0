-------------------------- MODULE DrmShimSyncProofs --------------------------
(***************************************************************************)
(* Proofs about DrmShimSync, for every number of syncobjs, channels,       *)
(* threads, submissions and timeline points.                               *)
(***************************************************************************)
EXTENDS DrmShimSync, TLAPS

-----------------------------------------------------------------------------
(* Types. *)

(* The syncobj table and the history keep their types in every update the   *)
(* calls make.                                                              *)
LEMMA TableTypes ==
  ASSUME syncobjs \in [Handles -> Syncobj], hist \in [Handles -> SUBSET SignalOp]
  PROVE  /\ ZeroObj \in Syncobj
         /\ \A h \in Handles : Lookup(h) \in Syncobj /\ Pending(h) \in SUBSET SignalOp
         /\ \A S \in SUBSET Handles, f \in Fence \cup {NoFence}, p \in Points :
              /\ Signalled(S, f, p) \in [Handles -> Syncobj]
              /\ Attached(S, f) \in [Handles -> Syncobj]
         /\ \A S \in SUBSET Handles, op \in SignalOp :
              Recorded(S, op) \in [Handles -> SUBSET SignalOp]
<1>1. ZeroObj \in Syncobj
  BY SyncAssumption DEF ZeroObj, Syncobj, Points
<1>2. \A h \in Handles : Lookup(h) \in Syncobj /\ Pending(h) \in SUBSET SignalOp
  BY <1>1 DEF Lookup, Pending
<1>3. ASSUME NEW S \in SUBSET Handles, NEW f \in Fence \cup {NoFence}, NEW p \in Points
      PROVE  /\ Signalled(S, f, p) \in [Handles -> Syncobj]
             /\ Attached(S, f) \in [Handles -> Syncobj]
  <2>1. \A h \in Handles : /\ [syncobjs[h] EXCEPT !.fence = f, !.value = p] \in Syncobj
                           /\ [syncobjs[h] EXCEPT !.fence = f] \in Syncobj
    BY DEF Syncobj
  <2>2. QED
    BY <2>1 DEF Signalled, Attached
<1>4. \A S \in SUBSET Handles, op \in SignalOp :
        Recorded(S, op) \in [Handles -> SUBSET SignalOp]
  BY DEF Recorded
<1>5. QED
  BY <1>1, <1>2, <1>3, <1>4

(* What the calls make of a request is one. *)
LEMMA RequestTypes ==
  /\ NoRequest \in Request
  /\ \A f \in Fence : [NoRequest EXCEPT !.fence = f] \in Request
  /\ \A r \in Request, H \in SUBSET Handles, all \in BOOLEAN, p \in Points :
       /\ [r EXCEPT !.left = H] \in Request
       /\ [r EXCEPT !.left = H, !.deps = H] \in Request
       /\ [r EXCEPT !.left = H, !.all = all, !.point = p] \in Request
       /\ [r EXCEPT !.left = H, !.fence = NoFence, !.work = {}] \in Request
       /\ [r EXCEPT !.fence = NoFence, !.work = {}] \in Request
  /\ \A r \in Request, H \in SUBSET Handles, f \in Fence \cup {NoFence}, v \in Points,
        W \in SUBSET SignalOp :
       /\ [r EXCEPT !.left = H, !.fence = f, !.work = W] \in Request
       /\ [r EXCEPT !.fence = f, !.value = v, !.work = W] \in Request
<1>1. NoRequest \in Request
  BY SyncAssumption DEF NoRequest, Request, Points
<1>2. \A f \in Fence : [NoRequest EXCEPT !.fence = f] \in Request
  BY <1>1 DEF Request
<1>3. ASSUME NEW r \in Request, NEW H \in SUBSET Handles, NEW all \in BOOLEAN, NEW p \in Points
      PROVE  /\ [r EXCEPT !.left = H] \in Request
             /\ [r EXCEPT !.left = H, !.deps = H] \in Request
             /\ [r EXCEPT !.left = H, !.fence = NoFence, !.work = {}] \in Request
             /\ [r EXCEPT !.fence = NoFence, !.work = {}] \in Request
  BY DEF Request
<1>4. ASSUME NEW r \in Request, NEW H \in SUBSET Handles, NEW all \in BOOLEAN, NEW p \in Points
      PROVE  [r EXCEPT !.left = H, !.all = all, !.point = p] \in Request
  BY DEF Request
<1>5. ASSUME NEW r \in Request, NEW H \in SUBSET Handles, NEW f \in Fence \cup {NoFence},
             NEW v \in Points, NEW W \in SUBSET SignalOp
      PROVE  /\ [r EXCEPT !.left = H, !.fence = f, !.work = W] \in Request
             /\ [r EXCEPT !.fence = f, !.value = v, !.work = W] \in Request
  BY DEF Request
<1>6. QED
  BY <1>1, <1>2, <1>3, <1>4, <1>5

(* libnx counts one increment per fence command list, whatever failed; what *)
(* was and may still be submitted keeps within MaxSubmits.                  *)
LedgerInv ==
  \A c \in Chans :
    /\ expected[c] = accepted[c]
    /\ ring[c].incr = ring[c].cmds
    /\ accepted[c] + ring[c].cmds + budget <= MaxSubmits
    /\ done[c] <= accepted[c]

(* The counters of the channels are numbers within the bounds. *)
LEMMA CountFacts ==
  ASSUME TypeOK
  PROVE  /\ MaxSubmits \in Nat /\ budget \in Nat /\ budget <= MaxSubmits
         /\ \A n : n \in Counts <=> n \in Nat /\ n <= MaxSubmits
         /\ \A c \in Chans : /\ expected[c] \in Nat /\ accepted[c] \in Nat /\ done[c] \in Nat
                             /\ ring[c].incr \in Nat /\ ring[c].cmds \in Nat
                             /\ accepted[c] \in Counts /\ expected[c] \in Counts
         /\ 0 \in Counts /\ 0 \in Points
BY SyncAssumption DEF TypeOK, Counts, Points

(* The ledger after each way a channel's counters change. *)
LEMMA LedgerStep == TypeOK /\ LedgerInv /\ [Next]_vars =>
  /\ LedgerInv'
  /\ ring' \in [Chans -> [incr : Counts, cmds : Counts]]
  /\ expected' \in [Chans -> Counts] /\ accepted' \in [Chans -> Counts]
  /\ done' \in [Chans -> Counts] /\ dead' \subseteq Chans /\ budget' \in Counts
<1> SUFFICES ASSUME TypeOK, LedgerInv, [Next]_vars
             PROVE  /\ LedgerInv'
                    /\ ring' \in [Chans -> [incr : Counts, cmds : Counts]]
                    /\ expected' \in [Chans -> Counts] /\ accepted' \in [Chans -> Counts]
                    /\ done' \in [Chans -> Counts] /\ dead' \subseteq Chans /\ budget' \in Counts
  OBVIOUS
<1> DEFINE Goal == /\ LedgerInv'
                   /\ ring' \in [Chans -> [incr : Counts, cmds : Counts]]
                   /\ expected' \in [Chans -> Counts] /\ accepted' \in [Chans -> Counts]
                   /\ done' \in [Chans -> Counts] /\ dead' \subseteq Chans /\ budget' \in Counts
<1>a. ASSUME UNCHANGED <<ringVars, gpuVars>> PROVE Goal
  BY <1>a DEF ringVars, gpuVars, LedgerInv, TypeOK
<1>1. ASSUME NEW c \in Chans, GpuStep(c) \/ GpuFault(c) PROVE Goal
  <2>1. done' \in [Chans -> Counts] /\ \A d \in Chans : done'[d] <= accepted[d]
    <3>1. CASE GpuStep(c)
      <4>1. done[c] < accepted[c] /\ done' = [done EXCEPT ![c] = done[c] + 1]
        BY <3>1 DEF GpuStep
      <4>2. done[c] + 1 \in Counts /\ done[c] + 1 <= accepted[c]
        BY <4>1, CountFacts
      <4>3. QED
        BY <4>1, <4>2 DEF LedgerInv, TypeOK
    <3>2. CASE GpuFault(c)
      BY <3>2, CountFacts DEF GpuFault, LedgerInv, TypeOK
    <3>3. QED
      BY <1>1, <3>1, <3>2
  <2>2. QED
    BY <1>1, <2>1 DEF GpuStep, GpuFault, LedgerInv, TypeOK, ringVars
<1>2. ASSUME NEW t \in Threads, NEW c \in Chans, ExecFails(t, c) PROVE Goal
  <2>1. /\ budget' = budget - 1 /\ budget > 0
        /\ \A d \in Chans \ {c} : ring'[d] = ring[d]
        /\ ring'[c] = [incr |-> ring[c].incr + 1, cmds |-> ring[c].cmds + 1]
        /\ ring' = [ring EXCEPT ![c] = [incr |-> ring[c].incr + 1, cmds |-> ring[c].cmds + 1]]
        /\ UNCHANGED <<expected, gpuVars>>
    BY <1>2 DEF ExecFails, Submit, Prepared, TypeOK
  <2>2. LedgerInv'
    BY <2>1, CountFacts DEF LedgerInv, gpuVars
  <2>3. ring[c].incr + 1 \in Counts /\ ring[c].cmds + 1 \in Counts /\ budget - 1 \in Counts
    BY <2>1, CountFacts DEF LedgerInv
  <2>4. QED
    BY <2>1, <2>2, <2>3 DEF TypeOK, gpuVars
<1>3. ASSUME NEW t \in Threads, NEW c \in Chans, NEW S \in SUBSET Handles, NEW p \in Points,
             ExecKickoff(t, c, S, p)
      PROVE  Goal
  <2>1. /\ budget' = budget - 1 /\ budget > 0
        /\ ring' = [ring EXCEPT ![c] = [incr |-> 0, cmds |-> 0]]
        /\ expected' = [expected EXCEPT ![c] = expected[c] + (ring[c].incr + 1)]
        /\ accepted' = [accepted EXCEPT ![c] = accepted[c] + (ring[c].cmds + 1)]
        /\ UNCHANGED <<done, dead>>
    BY <1>3 DEF ExecKickoff, Submit, Prepared
  <2>2. /\ expected[c] + (ring[c].incr + 1) \in Counts
        /\ accepted[c] + (ring[c].cmds + 1) \in Counts
        /\ budget - 1 \in Counts
    BY <2>1, CountFacts DEF LedgerInv
  <2>3. /\ ring' \in [Chans -> [incr : Counts, cmds : Counts]]
        /\ expected' \in [Chans -> Counts] /\ accepted' \in [Chans -> Counts]
        /\ budget' \in Counts /\ done' \in [Chans -> Counts] /\ dead' \subseteq Chans
    BY <2>1, <2>2, CountFacts DEF TypeOK
  <2>4. ASSUME NEW d \in Chans
        PROVE  /\ expected'[d] = accepted'[d]
               /\ ring'[d].incr = ring'[d].cmds
               /\ accepted'[d] + ring'[d].cmds + budget' <= MaxSubmits
               /\ done'[d] <= accepted'[d]
    <3>1. CASE d = c
      BY <3>1, <2>1, CountFacts DEF LedgerInv, TypeOK
    <3>2. CASE d # c
      BY <3>2, <2>1, CountFacts DEF LedgerInv, TypeOK
    <3>3. QED
      BY <3>1, <3>2
  <2>5. QED
    BY <2>3, <2>4 DEF LedgerInv
<1>4. ASSUME NEW t \in Threads, Call(t) \/ TableCall(t) \/ ReadCall(t) PROVE Goal
  <2>1. UNCHANGED <<ringVars, gpuVars>>
    BY <1>4 DEF Call, TableCall, ReadCall, NoChange, Create, Destroy, TimelineSignal, Reset, VmBind,
                Handler, QuerySnapshot, QueryPoll, WaitBegin, WaitFree, WaitSnapshot, WaitReached,
                WaitExpired
  <2>2. QED
    BY <2>1, <1>a
<1>5. ASSUME NEW t \in Threads, ExecCall(t) PROVE Goal
  <2>1. CASE \E c \in Chans : ExecFails(t, c)
    BY <2>1, <1>2
  <2>2. CASE \E c \in Chans, S \in SUBSET Handles, p \in Points : ExecKickoff(t, c, S, p)
    BY <2>2, <1>3
  <2>3. CASE \/ \E D \in SUBSET Handles : ExecBegin(t, D)
             \/ \E h \in Handles : ExecWait(t, h)
             \/ \E c \in Chans, S \in SUBSET Handles, p \in Points : ExecEmpty(t, c, S, p)
             \/ ExecDrain(t)
    <3>1. UNCHANGED <<ringVars, gpuVars>>
      BY <2>3 DEF ExecBegin, ExecWait, ExecEmpty, ExecDrain
    <3>2. QED
      BY <3>1, <1>a
  <2>4. QED
    BY <1>5, <2>1, <2>2, <2>3 DEF ExecCall
<1>6. CASE UNCHANGED vars
  BY <1>6, <1>a DEF vars
<1>7. QED
  BY <1>1, <1>4, <1>5, <1>6 DEF Next, Gpu, InCall

(* Every step keeps the types. *)
LEMMA TypeStep == TypeOK /\ LedgerInv /\ [Next]_vars => TypeOK'
<1> SUFFICES ASSUME TypeOK, LedgerInv, [Next]_vars PROVE TypeOK'
  OBVIOUS
<1> DEFINE Goal == /\ syncobjs' \in [Handles -> Syncobj]
                   /\ lock' \in Threads \cup {NoThread}
                   /\ pc' \in [Threads -> Labels]
                   /\ req' \in [Threads -> Request]
                   /\ hist' \in [Handles -> SUBSET SignalOp]
<1> USE DEF Labels
<1>t. /\ syncobjs \in [Handles -> Syncobj] /\ lock \in Threads \cup {NoThread}
      /\ pc \in [Threads -> Labels] /\ req \in [Threads -> Request]
      /\ hist \in [Handles -> SUBSET SignalOp]
  BY DEF TypeOK
<1>f. \A c \in Chans, v \in Counts : FenceAt(c, v) \in Fence
  BY DEF FenceAt, Fence
<1>a. ASSUME UNCHANGED <<syncobjs, lock, pc, req, hist>> PROVE Goal
  BY <1>a, <1>t
<1>r. ASSUME NEW t \in Threads, Return(t)
      PROVE  pc' \in [Threads -> Labels] /\ req' \in [Threads -> Request]
  BY <1>r, <1>t, RequestTypes DEF Return, Goto
<1>1. ASSUME Gpu PROVE Goal
  BY <1>1, <1>a DEF Gpu, GpuStep, GpuFault
<1>2. ASSUME NEW t \in Threads, Call(t) PROVE Goal
  BY <1>2, <1>t DEF Call, Goto
<1>3. ASSUME NEW t \in Threads, TableCall(t) PROVE Goal
  <2>1. lock' = lock /\ pc' \in [Threads -> Labels] /\ req' \in [Threads -> Request]
    <3>1. Return(t) /\ lock' = lock
      BY <1>3 DEF TableCall, NoChange, Create, Destroy, TimelineSignal, Reset, VmBind, Handler
    <3>2. QED
      BY <3>1, <1>r
  <2>2. ASSUME NEW h \in Handles, Create(t, h) \/ Destroy(t, h)
        PROVE  /\ syncobjs' \in [Handles -> Syncobj]
               /\ hist' \in [Handles -> SUBSET SignalOp]
    <3>1. [syncobjs[h] EXCEPT !.used = TRUE, !.value = 0] \in Syncobj
      BY <1>t, CountFacts DEF Syncobj
    <3>2. CASE Create(t, h)
      <4>1. syncobjs' = [syncobjs EXCEPT ![h] = [syncobjs[h] EXCEPT !.used = TRUE, !.value = 0]]
        BY <3>2, <1>t DEF Create, Syncobj
      <4>2. QED
        BY <3>1, <3>2, <4>1, <1>t DEF Create
    <3>3. CASE Destroy(t, h)
      BY <3>3, <1>t, TableTypes DEF Destroy, Destroyed
    <3>4. QED
      BY <2>2, <3>2, <3>3
  <2>3. ASSUME NEW h \in Handles, NEW p \in Points, TimelineSignal(t, h, p)
        PROVE  /\ syncobjs' \in [Handles -> Syncobj]
               /\ hist' \in [Handles -> SUBSET SignalOp]
    <3>1. [syncobjs[h] EXCEPT !.value = p] \in Syncobj
      BY <1>t DEF Syncobj
    <3>2. syncobjs' = [syncobjs EXCEPT ![h] = [syncobjs[h] EXCEPT !.value = p]]
      BY <2>3, <1>t DEF TimelineSignal
    <3>3. [chan |-> NoChan, val |-> 0, point |-> p] \in SignalOp
      BY CountFacts DEF SignalOp
    <3>4. hist' = Recorded({h}, [chan |-> NoChan, val |-> 0, point |-> p])
      BY <2>3 DEF TimelineSignal
    <3>5. hist' \in [Handles -> SUBSET SignalOp]
      BY <1>t, <3>3, <3>4, TableTypes
    <3>6. QED
      BY <1>t, <3>1, <3>2, <3>5
  <2>4. ASSUME NEW S \in SUBSET Handles, Reset(t, S)
        PROVE  /\ syncobjs' \in [Handles -> Syncobj]
               /\ hist' \in [Handles -> SUBSET SignalOp]
    BY <2>4, <1>t, TableTypes, CountFacts DEF Reset
  <2>5. ASSUME NEW S \in SUBSET Handles, NEW p \in Points, VmBind(t, S, p)
        PROVE  /\ syncobjs' \in [Handles -> Syncobj]
               /\ hist' \in [Handles -> SUBSET SignalOp]
    <3>1. [chan |-> NoChan, val |-> 0, point |-> p] \in SignalOp
      BY CountFacts DEF SignalOp
    <3>2. QED
      BY <2>5, <3>1, <1>t, TableTypes DEF VmBind
  <2>6. CASE NoChange(t)
    BY <2>6, <2>1, <1>t DEF NoChange
  <2>7. QED
    BY <1>3, <1>t, <2>1, <2>2, <2>3, <2>4, <2>5, <2>6 DEF TableCall
<1>4. ASSUME NEW t \in Threads, ExecCall(t) PROVE Goal
  <2>1. ASSUME NEW D \in SUBSET Handles, ExecBegin(t, D) PROVE Goal
    <3>1. req' = [req EXCEPT ![t] = [req[t] EXCEPT !.left = D, !.deps = D]]
      BY <2>1, <1>t DEF ExecBegin, Request
    <3>2. [req[t] EXCEPT !.left = D, !.deps = D] \in Request
      BY <1>t, RequestTypes, CountFacts
    <3>3. QED
      BY <2>1, <3>1, <3>2, <1>t DEF ExecBegin, Goto
  <2>2. ASSUME NEW h \in Handles, ExecWait(t, h) PROVE Goal
    <3>1. req[t].left \ {h} \in SUBSET Handles
      BY <1>t DEF Request
    <3>2. [req[t] EXCEPT !.left = req[t].left \ {h}] \in Request
      BY <3>1, <1>t, RequestTypes, CountFacts
    <3>3. req' = [req EXCEPT ![t] = [req[t] EXCEPT !.left = req[t].left \ {h}]]
      BY <2>2, <1>t DEF ExecWait
    <3>4. QED
      BY <2>2, <3>2, <3>3, <1>t DEF ExecWait
  <2>3. ASSUME NEW c \in Chans, NEW S \in SUBSET Handles, NEW p \in Points, ExecEmpty(t, c, S, p)
        PROVE  Goal
    <3>0. expected[c] + ring[c].incr \in Counts
      BY CountFacts DEF LedgerInv
    <3>1. ChannelFence(c) \in Fence \cup {NoFence}
      BY <1>f, <3>0 DEF ChannelFence
    <3>2. [chan |-> c, val |-> accepted[c], point |-> p] \in SignalOp
      BY CountFacts DEF SignalOp
    <3>3. QED
      BY <2>3, <3>1, <3>2, <1>t, <1>r, TableTypes DEF ExecEmpty, Unlock
  <2>4. ASSUME NEW c \in Chans, ExecFails(t, c) PROVE Goal
    BY <2>4, <1>t, <1>r DEF ExecFails, Unlock
  <2>5. ASSUME NEW c \in Chans, NEW S \in SUBSET Handles, NEW p \in Points, ExecKickoff(t, c, S, p)
        PROVE  Goal
    <3>1. expected'[c] \in Counts /\ accepted'[c] \in Counts
      BY LedgerStep
    <3>2. FenceAt(c, expected'[c]) \in Fence
      BY <1>f, <3>1
    <3>3. [chan |-> c, val |-> accepted'[c], point |-> p] \in SignalOp
      BY <3>1 DEF SignalOp
    <3>4. syncobjs' = Attached(S, FenceAt(c, expected'[c]))
          /\ hist' = Recorded(S, [chan |-> c, val |-> accepted'[c], point |-> p])
      BY <2>5 DEF ExecKickoff
    <3>5. syncobjs' \in [Handles -> Syncobj] /\ hist' \in [Handles -> SUBSET SignalOp]
      BY <3>2, <3>3, <3>4, <1>t, TableTypes, CountFacts
    <3>6. req' = [req EXCEPT ![t] = [NoRequest EXCEPT !.fence = FenceAt(c, expected'[c])]]
      BY <2>5 DEF ExecKickoff
    <3>7. req' \in [Threads -> Request]
      BY <3>2, <3>6, <1>t, RequestTypes
    <3>8. QED
      BY <2>5, <3>5, <3>7, <1>t DEF ExecKickoff, Goto
  <2>6. CASE ExecDrain(t)
    BY <2>6, <1>t, <1>r DEF ExecDrain, Unlock
  <2>7. QED
    BY <1>4, <2>1, <2>2, <2>3, <2>4, <2>5, <2>6 DEF ExecCall
<1>5. ASSUME NEW t \in Threads, ReadCall(t) PROVE Goal
  <2>l. \A h \in Handles : /\ Lookup(h).fence \in Fence \cup {NoFence} /\ Lookup(h).value \in Points
                           /\ Pending(h) \in SUBSET SignalOp
    BY <1>t, TableTypes DEF Syncobj
  <2>m. \A h : req[t].left \ {h} \in SUBSET Handles
    BY <1>t DEF Request
  <2>1. ASSUME NEW h \in Handles, QuerySnapshot(t, h) PROVE Goal
    <3>1. [req[t] EXCEPT !.fence = Lookup(h).fence, !.value = Lookup(h).value,
                         !.work = Pending(h)] \in Request
      BY <2>l, <1>t, RequestTypes
    <3>2. req' = [req EXCEPT ![t] = [req[t] EXCEPT !.fence = Lookup(h).fence,
                                     !.value = Lookup(h).value, !.work = Pending(h)]]
      BY <2>1, <1>t DEF QuerySnapshot, Request
    <3>3. QED
      BY <2>1, <3>1, <3>2, <1>t DEF QuerySnapshot, Goto
  <2>2. CASE QueryPoll(t)
    BY <2>2, <1>t, <1>r DEF QueryPoll
  <2>3. ASSUME NEW H \in SUBSET Handles, NEW all \in BOOLEAN, NEW p \in Points,
               WaitBegin(t, H, all, p)
        PROVE  Goal
    <3>1. [req[t] EXCEPT !.left = H, !.all = all, !.point = p] \in Request
      BY <1>t, RequestTypes
    <3>2. req' = [req EXCEPT ![t] = [req[t] EXCEPT !.left = H, !.all = all, !.point = p]]
      BY <2>3, <1>t DEF WaitBegin, Request
    <3>3. QED
      BY <2>3, <3>1, <3>2, <1>t DEF WaitBegin, Goto
  <2>4. ASSUME NEW H \in SUBSET Handles, Ready(t, H)
        PROVE  pc' \in [Threads -> Labels] /\ req' \in [Threads -> Request]
    <3>1. CASE Return(t)
      BY <3>1, <1>r
    <3>2. CASE ~Return(t)
      <4>1. /\ Goto(t, "wait")
            /\ req' = [req EXCEPT ![t].left = H, ![t].fence = NoFence, ![t].work = {}]
        BY <2>4, <3>2 DEF Ready
      <4>2. req' = [req EXCEPT ![t] = [req[t] EXCEPT !.left = H, !.fence = NoFence, !.work = {}]]
        BY <4>1, <1>t DEF Request
      <4>3. [req[t] EXCEPT !.left = H, !.fence = NoFence, !.work = {}] \in Request
        BY <1>t, RequestTypes, CountFacts
      <4>4. QED
        BY <4>1, <4>2, <4>3, <1>t DEF Goto
    <3>3. QED
      BY <3>1, <3>2
  <2>5. ASSUME NEW h \in Handles, WaitFree(t, h) PROVE Goal
    BY <2>5, <2>4, <2>m, <1>t DEF WaitFree
  <2>6. ASSUME NEW h \in Handles, WaitSnapshot(t, h) PROVE Goal
    <3>1. [req[t] EXCEPT !.left = req[t].left \ {h}, !.fence = Lookup(h).fence,
                         !.work = Pending(h)] \in Request
      BY <2>l, <2>m, <1>t, RequestTypes, CountFacts
    <3>2. req' = [req EXCEPT ![t] = [req[t] EXCEPT !.left = req[t].left \ {h},
                                     !.fence = Lookup(h).fence, !.work = Pending(h)]]
      BY <2>6, <1>t DEF WaitSnapshot, Request
    <3>3. QED
      BY <2>6, <3>1, <3>2, <1>t DEF WaitSnapshot, Goto
  <2>7. CASE WaitReached(t)
    <3>1. req[t].left \in SUBSET Handles
      BY <1>t DEF Request
    <3>2. QED
      BY <2>7, <2>4, <3>1, <1>t DEF WaitReached
  <2>8. CASE WaitExpired(t)
    <3>1. CASE Return(t)
      BY <2>8, <3>1, <1>t, <1>r DEF WaitExpired
    <3>2. CASE ~Return(t)
      <4>1. req' = [req EXCEPT ![t] = [req[t] EXCEPT !.fence = NoFence, !.work = {}]]
        BY <2>8, <3>2, <1>t DEF WaitExpired, Request
      <4>2. [req[t] EXCEPT !.fence = NoFence, !.work = {}] \in Request
        BY <1>t, RequestTypes, CountFacts
      <4>3. QED
        BY <2>8, <3>2, <4>1, <4>2, <1>t DEF WaitExpired, Goto
    <3>3. QED
      BY <3>1, <3>2
  <2>9. QED
    BY <1>5, <2>1, <2>2, <2>3, <2>5, <2>6, <2>7, <2>8 DEF ReadCall
<1>6. ASSUME UNCHANGED vars PROVE Goal
  BY <1>6, <1>a DEF vars
<1>7. Goal
  BY <1>1, <1>2, <1>3, <1>4, <1>5, <1>6 DEF Next, InCall
<1>8. QED
  BY <1>7, LedgerStep DEF TypeOK

(* Every reachable state is well typed; and libnx's count of increments is  *)
(* that of the fence command lists, through any failed kickoff.             *)
THEOREM TypeCorrect == Spec => [](TypeOK /\ LedgerInv)
<1>1. Init => TypeOK /\ LedgerInv
  <2> SUFFICES ASSUME Init PROVE TypeOK /\ LedgerInv
    OBVIOUS
  <2>1. MaxSubmits \in Counts /\ 0 \in Counts /\ MaxSubmits \in Nat
    BY SyncAssumption DEF Counts
  <2>2. ZeroObj \in Syncobj
    BY SyncAssumption DEF ZeroObj, Syncobj, Points
  <2>3. LedgerInv
    BY <2>1 DEF Init, LedgerInv
  <2>4. QED
    BY <2>1, <2>2, <2>3, RequestTypes DEF Init, TypeOK, Labels
<1>2. TypeOK /\ LedgerInv /\ [Next]_vars => (TypeOK /\ LedgerInv)'
  BY TypeStep, LedgerStep
<1>3. QED
  BY <1>1, <1>2, PTL DEF Spec

-----------------------------------------------------------------------------
(* Fences cover the work signalled on their syncobj. *)

(* Syncpoints only grow, and so does the work accepted, with and without    *)
(* what a failed kickoff left in the ring.                                  *)
LEMMA Progress == TypeOK /\ LedgerInv /\ [Next]_vars =>
  \A c \in Chans : /\ accepted[c] <= accepted'[c] /\ done[c] <= done'[c]
                    /\ accepted[c] + ring[c].cmds <= accepted'[c] + ring'[c].cmds
<1> SUFFICES ASSUME TypeOK, LedgerInv, [Next]_vars, NEW c \in Chans
             PROVE  /\ accepted[c] <= accepted'[c] /\ done[c] <= done'[c]
                    /\ accepted[c] + ring[c].cmds <= accepted'[c] + ring'[c].cmds
  OBVIOUS
<1> DEFINE Goal == /\ accepted[c] <= accepted'[c] /\ done[c] <= done'[c]
                   /\ accepted[c] + ring[c].cmds <= accepted'[c] + ring'[c].cmds
<1>a. ASSUME UNCHANGED <<ring, gpuVars>> PROVE Goal
  BY <1>a, CountFacts DEF gpuVars
<1>1. CASE Gpu
  <2>1. ring' = ring /\ accepted' = accepted
    BY <1>1 DEF Gpu, GpuStep, GpuFault, ringVars
  <2>2. done[c] <= done'[c]
    BY <1>1, CountFacts DEF Gpu, GpuStep, GpuFault, LedgerInv, TypeOK
  <2>3. QED
    BY <2>1, <2>2, CountFacts
<1>2. ASSUME NEW t \in Threads, NEW d \in Chans, NEW S \in SUBSET Handles, NEW p \in Points,
             ExecKickoff(t, d, S, p)
      PROVE  Goal
  <2>1. /\ accepted' = [accepted EXCEPT ![d] = accepted[d] + (ring[d].cmds + 1)] /\ done' = done
        /\ ring' = [ring EXCEPT ![d] = [incr |-> 0, cmds |-> 0]]
    BY <1>2 DEF ExecKickoff, Prepared
  <2>2. CASE c = d
    <3>1. accepted'[c] = accepted[c] + (ring[c].cmds + 1) /\ ring'[c].cmds = 0 /\ done'[c] = done[c]
      BY <2>1, <2>2 DEF TypeOK
    <3>2. QED
      BY <3>1, CountFacts
  <2>3. CASE c # d
    <3>1. accepted'[c] = accepted[c] /\ ring'[c] = ring[c] /\ done'[c] = done[c]
      BY <2>1, <2>3 DEF TypeOK
    <3>2. QED
      BY <3>1, CountFacts
  <2>4. QED
    BY <2>2, <2>3
<1>f. ASSUME NEW t \in Threads, NEW d \in Chans, ExecFails(t, d) PROVE Goal
  <2>1. /\ UNCHANGED gpuVars
        /\ ring'[c] = ring[c] \/ ring'[c].cmds = ring[c].cmds + 1
    BY <1>f DEF ExecFails, Prepared, TypeOK
  <2>2. QED
    BY <2>1, CountFacts DEF gpuVars
<1>3. ASSUME NEW t \in Threads, Call(t) \/ InCall(t),
             ~ \E d \in Chans : ExecFails(t, d),
             ~ \E d \in Chans, S \in SUBSET Handles, p \in Points : ExecKickoff(t, d, S, p)
      PROVE  UNCHANGED <<ring, gpuVars>>
  <2>1. CASE Call(t) \/ TableCall(t) \/ ReadCall(t)
    BY <2>1 DEF Call, TableCall, ReadCall, NoChange, Create, Destroy, TimelineSignal, Reset, VmBind,
                Handler, QuerySnapshot, QueryPoll, WaitBegin, WaitFree, WaitSnapshot, WaitReached,
                WaitExpired, ringVars
  <2>2. CASE ExecCall(t)
    BY <2>2, <1>3 DEF ExecCall, ExecBegin, ExecWait, ExecEmpty, ExecDrain, ringVars
  <2>3. QED
    BY <1>3, <2>1, <2>2 DEF InCall
<1>4. CASE UNCHANGED vars
  <2>1. UNCHANGED <<ring, gpuVars>>
    BY <1>4 DEF vars, ringVars
  <2>2. QED
    BY <2>1, <1>a
<1>5. ASSUME NEW t \in Threads, Call(t) \/ InCall(t) PROVE Goal
  BY <1>5, <1>2, <1>f, <1>3, <1>a
<1>6. QED
  BY <1>1, <1>4, <1>5 DEF Next

(* A submission that completed stays complete. *)
LEMMA CompleteStays == TypeOK /\ LedgerInv /\ [Next]_vars =>
  \A op \in SignalOp :
    /\ Complete(op) => Complete(op)'
    /\ op.chan \in Chans /\ op.val <= accepted[op.chan] => op.val <= accepted'[op.chan]
<1> SUFFICES ASSUME TypeOK, LedgerInv, [Next]_vars, NEW op \in SignalOp
             PROVE  /\ Complete(op) => Complete(op)'
                    /\ op.chan \in Chans /\ op.val <= accepted[op.chan] => op.val <= accepted'[op.chan]
  OBVIOUS
<1>1. op.val \in Nat
  BY CountFacts DEF SignalOp
<1>2. \A c \in Chans : /\ done[c] \in Nat /\ accepted[c] \in Nat
                       /\ done'[c] \in Nat /\ accepted'[c] \in Nat
  BY CountFacts, LedgerStep
<1>3. QED
  BY <1>1, <1>2, Progress DEF Complete

(* The fence of a syncobj is no earlier than some operation on it and       *)
(* within what the ring's command lists make; whatever is pending on the    *)
(* syncobj is of the fence's channel, no later than the fence. An entry not *)
(* in use has neither fence nor work.                                       *)
Behind(op, f) == Complete(op) \/ (f.chan = op.chan /\ op.val <= f.value)
ObjInv(s, ops) ==
  /\ ~s.used => s.fence = NoFence /\ ops = {}
  /\ s.fence # NoFence => /\ \E op \in ops : op.chan = s.fence.chan /\ op.val <= s.fence.value
                          /\ s.fence.value <= accepted[s.fence.chan] + ring[s.fence.chan].cmds
  /\ \A op \in ops : /\ op.chan \in Chans => op.val <= accepted[op.chan]
                     /\ Behind(op, s.fence)
TableInv == \A h \in Handles : ObjInv(syncobjs[h], hist[h])

(* An entry keeps ObjInv while it keeps its fence; operations done by the   *)
(* CPU may be added, and it may come into use.                              *)
LEMMA ObjKept ==
  ASSUME TypeOK, LedgerInv, [Next]_vars, NEW h \in Handles, ObjInv(syncobjs[h], hist[h]),
         syncobjs'[h].fence = syncobjs[h].fence, hist[h] \subseteq hist'[h],
         ~syncobjs'[h].used => ~syncobjs[h].used /\ hist'[h] = hist[h],
         \A op \in hist'[h] \ hist[h] : op.chan = NoChan
  PROVE  ObjInv(syncobjs[h], hist[h])'
<1>1. hist[h] \subseteq SignalOp
  BY DEF TypeOK
<1>2. ASSUME NEW op \in hist'[h]
      PROVE  /\ op.chan \in Chans => op.val <= accepted'[op.chan]
             /\ Complete(op)' \/ (syncobjs'[h].fence.chan = op.chan /\ op.val <= syncobjs'[h].fence.value)
  <2>1. CASE op \in hist[h]
    BY <1>1, <2>1, CompleteStays DEF ObjInv, Behind
  <2>2. CASE op \notin hist[h]
    BY <2>2, SyncAssumption DEF Complete
  <2>3. QED
    BY <2>1, <2>2
<1>3. ASSUME syncobjs[h].fence # NoFence
      PROVE  syncobjs[h].fence.value
               <= accepted'[syncobjs[h].fence.chan] + ring'[syncobjs[h].fence.chan].cmds
  <2>1. syncobjs[h].fence \in Fence
    BY <1>3 DEF TypeOK, Syncobj
  <2>2. PICK c \in Chans, v \in Counts : syncobjs[h].fence = [chan |-> c, value |-> v]
    BY <2>1 DEF Fence
  <2>3. v <= accepted[c] + ring[c].cmds
    BY <1>3, <2>2 DEF ObjInv
  <2>4. /\ accepted'[c] \in Nat /\ ring'[c].cmds \in Nat
        /\ accepted[c] \in Nat /\ ring[c].cmds \in Nat /\ v \in Nat
    BY CountFacts, LedgerStep
  <2>5. v <= accepted'[c] + ring'[c].cmds
    BY <2>3, <2>4, Progress
  <2>6. QED
    BY <2>2, <2>5
<1>4. QED
  BY <1>2, <1>3 DEF ObjInv, Behind

(* A signal operation of the GPU moves the fence to the end of the work of  *)
(* one channel, or past it after a failed kickoff.                          *)
LEMMA ObjMoved ==
  ASSUME TypeOK, LedgerInv, [Next]_vars, NEW h \in Handles, ObjInv(syncobjs[h], hist[h]),
         NEW c \in Chans, NEW p \in Points, MaySignal(h, c, p), syncobjs'[h].used,
         NEW v \in Nat, accepted'[c] <= v, v <= accepted'[c] + ring'[c].cmds,
         syncobjs'[h].fence = [chan |-> c, value |-> v],
         hist'[h] = hist[h] \cup {[chan |-> c, val |-> accepted'[c], point |-> p]}
  PROVE  ObjInv(syncobjs[h], hist[h])'
<1>1. hist[h] \subseteq SignalOp
  BY DEF TypeOK
<1>2. accepted'[c] \in Nat
  BY LedgerStep, CountFacts
<1>3. ASSUME NEW op \in hist'[h]
      PROVE  /\ op.chan \in Chans => op.val <= accepted'[op.chan]
             /\ Complete(op)' \/ (c = op.chan /\ op.val <= v)
  <2>1. CASE op \in hist[h]
    <3>1. Complete(op) \/ op.chan = c
      BY <2>1 DEF MaySignal
    <3>2. op.chan \in Chans => op.val <= accepted'[op.chan]
      BY <1>1, <2>1, CompleteStays DEF ObjInv
    <3>3. Complete(op) => Complete(op)'
      BY <1>1, <2>1, CompleteStays
    <3>4. op.val \in Nat
      BY <1>1, <2>1, CountFacts DEF SignalOp
    <3>5. QED
      BY <3>1, <3>2, <3>3, <3>4, <1>2
  <2>2. CASE op = [chan |-> c, val |-> accepted'[c], point |-> p]
    BY <2>2, <1>2
  <2>3. QED
    BY <2>1, <2>2
<1>4. \E op \in hist'[h] : op.chan = c /\ op.val <= v
  <2> DEFINE new == [chan |-> c, val |-> accepted'[c], point |-> p]
  <2>1. new \in hist'[h] /\ new.chan = c /\ new.val <= v
    OBVIOUS
  <2>2. QED
    BY <2>1
<1>5. QED
  BY <1>3, <1>4 DEF ObjInv, Behind

(* Every step keeps each syncobj what its history says. *)
LEMMA TableStep == TypeOK /\ LedgerInv /\ TableInv /\ [Next]_vars => TableInv'
<1> SUFFICES ASSUME TypeOK, LedgerInv, TableInv, [Next]_vars PROVE TableInv'
  OBVIOUS
<1> DEFINE O(h) == ObjInv(syncobjs[h], hist[h])
<1> HIDE DEF O
<1>g. TableInv' <=> \A h \in Handles : O(h)'
  BY DEF TableInv, O
<1>t. TypeOK' /\ LedgerInv'
  BY TypeStep, LedgerStep
<1>k. ASSUME NEW h \in Handles, syncobjs'[h] = syncobjs[h], hist'[h] = hist[h] PROVE O(h)'
  BY <1>k, ObjKept DEF TableInv, O
<1>u. ASSUME UNCHANGED <<syncobjs, hist>> PROVE TableInv'
  BY <1>u, <1>k, <1>g
<1>z. ASSUME NEW h \in Handles, syncobjs'[h].fence = NoFence,
             ~syncobjs'[h].used => hist'[h] = {},
             \A op \in hist'[h] : op.chan = NoChan \/ (op \in hist[h] /\ Complete(op))
      PROVE  O(h)'
  <2>1. ASSUME NEW op \in hist'[h]
        PROVE  /\ op.chan \in Chans => op.val <= accepted'[op.chan]
               /\ Complete(op)'
    <3>1. CASE op.chan = NoChan
      BY <3>1, SyncAssumption DEF Complete
    <3>2. CASE op \in hist[h] /\ Complete(op)
      <4>1. op \in SignalOp
        BY <3>2 DEF TypeOK
      <4>2. QED
        BY <3>2, <4>1, CompleteStays DEF TableInv, ObjInv
    <3>3. QED
      BY <1>z, <3>1, <3>2
  <2>2. QED
    BY <1>z, <2>1 DEF ObjInv, Behind, O
<1>1. ASSUME NEW t \in Threads, NEW h \in Handles, Create(t, h) PROVE TableInv'
  <2>1. /\ hist' = hist
        /\ syncobjs'[h].fence = syncobjs[h].fence /\ syncobjs'[h].used
        /\ \A g \in Handles \ {h} : syncobjs'[g] = syncobjs[g]
    BY <1>1 DEF Create, TypeOK, Syncobj
  <2>2. O(h)'
    BY <2>1, ObjKept DEF TableInv, O
  <2>3. QED
    BY <2>1, <2>2, <1>k, <1>g
<1>2. ASSUME NEW t \in Threads, NEW h \in Handles, Destroy(t, h) PROVE TableInv'
  <2>1. /\ syncobjs'[h] = ZeroObj /\ hist'[h] = {}
        /\ \A g \in Handles \ {h} : syncobjs'[g] = syncobjs[g] /\ hist'[g] = hist[g]
    BY <1>2 DEF Destroy, Destroyed, TypeOK
  <2>2. O(h)'
    BY <2>1, <1>z DEF ZeroObj
  <2>3. QED
    BY <2>1, <2>2, <1>k, <1>g
<1>3. ASSUME NEW t \in Threads, NEW S \in SUBSET Handles, Reset(t, S) PROVE TableInv'
  <2>1. /\ \A h \in S : syncobjs'[h].fence = NoFence /\ hist'[h] = {}
        /\ \A h \in Handles \ S : syncobjs'[h] = syncobjs[h] /\ hist'[h] = hist[h]
    BY <1>3 DEF Reset, Signalled, TypeOK, Syncobj
  <2>2. QED
    BY <2>1, <1>z, <1>k, <1>g
<1>4. ASSUME NEW t \in Threads, NEW h \in Handles, NEW p \in Points, TimelineSignal(t, h, p)
      PROVE  TableInv'
  <2>1. /\ syncobjs'[h].fence = syncobjs[h].fence
        /\ syncobjs'[h].used = syncobjs[h].used /\ syncobjs[h].used
        /\ hist'[h] = hist[h] \cup {[chan |-> NoChan, val |-> 0, point |-> p]}
        /\ \A g \in Handles \ {h} : syncobjs'[g] = syncobjs[g] /\ hist'[g] = hist[g]
    BY <1>4 DEF TimelineSignal, Recorded, Used, TypeOK, Syncobj, Points
  <2>2. hist[h] \subseteq hist'[h] /\ \A op \in hist'[h] \ hist[h] : op.chan = NoChan
    BY <2>1
  <2>3. ObjInv(syncobjs[h], hist[h])
    BY DEF TableInv
  <2>4. ObjInv(syncobjs[h], hist[h])'
    BY <2>1, <2>2, <2>3, ObjKept
  <2>5. QED
    BY <2>1, <2>4, <1>k, <1>g DEF O
<1>5. ASSUME NEW t \in Threads, NEW S \in SUBSET Handles, NEW p \in Points, VmBind(t, S, p)
      PROVE  TableInv'
  <2>1. /\ \A h \in S : /\ syncobjs'[h].fence = NoFence /\ syncobjs'[h].used
                        /\ hist'[h] \subseteq hist[h] \cup {[chan |-> NoChan, val |-> 0, point |-> p]}
                        /\ MaySignal(h, NoChan, p)
        /\ \A h \in Handles \ S : syncobjs'[h] = syncobjs[h] /\ hist'[h] = hist[h]
    BY <1>5 DEF VmBind, Signalled, Recorded, Used, TypeOK, Syncobj
  <2>2. ASSUME NEW h \in S PROVE O(h)'
    <3>1. \A op \in hist[h] : Complete(op) \/ op.chan = NoChan
      BY <2>1 DEF MaySignal
    <3>2. \A op \in hist'[h] : op.chan = NoChan \/ (op \in hist[h] /\ Complete(op))
      BY <2>1, <3>1
    <3>3. QED
      BY <2>1, <3>2, <1>z
  <2>3. QED
    BY <2>1, <2>2, <1>k, <1>g
<1>6. ASSUME NEW t \in Threads, NEW c \in Chans, NEW S \in SUBSET Handles, NEW p \in Points,
             ExecEmpty(t, c, S, p) \/ ExecKickoff(t, c, S, p)
      PROVE  TableInv'
  <2>n. accepted'[c] \in Nat /\ ring'[c].cmds \in Nat /\ expected'[c] = accepted'[c]
        /\ ring'[c].incr = ring'[c].cmds
    BY <1>t, CountFacts, LedgerStep DEF LedgerInv
  <2> DEFINE v == expected'[c] + ring'[c].incr
  <2>1. /\ \A h \in S : /\ syncobjs'[h].fence = FenceAt(c, v) /\ syncobjs'[h].used
                        /\ hist'[h] = hist[h] \cup {[chan |-> c, val |-> accepted'[c], point |-> p]}
                        /\ MaySignal(h, c, p)
        /\ \A h \in Handles \ S : syncobjs'[h] = syncobjs[h] /\ hist'[h] = hist[h]
    <3>1. CASE ExecEmpty(t, c, S, p)
      BY <3>1 DEF ExecEmpty, ChannelFence, Signalled, Recorded, Used, TypeOK, Syncobj, ringVars,
                  gpuVars
    <3>2. CASE ExecKickoff(t, c, S, p)
      <4>1. ring'[c].incr = 0
        BY <3>2 DEF ExecKickoff, TypeOK
      <4>2. v = expected'[c]
        BY <4>1, <2>n
      <4>3. QED
        BY <3>2, <4>2 DEF ExecKickoff, Attached, Recorded, Used, TypeOK, Syncobj
    <3>3. QED
      BY <1>6, <3>1, <3>2
  <2>2. /\ FenceAt(c, v) = [chan |-> c, value |-> v] /\ v \in Nat
        /\ accepted'[c] <= v /\ v <= accepted'[c] + ring'[c].cmds
    BY <2>n DEF FenceAt
  <2> HIDE DEF v
  <2>3. ASSUME NEW h \in S PROVE O(h)'
    BY <2>1, <2>2, ObjMoved DEF TableInv, O
  <2>4. QED
    BY <2>1, <2>3, <1>k, <1>g
<1>7. ASSUME NEW t \in Threads, Call(t) \/ InCall(t) PROVE TableInv'
  <2>1. CASE TableCall(t)
    <3>1. CASE NoChange(t)
      BY <3>1, <1>u DEF NoChange
    <3>2. QED
      BY <2>1, <3>1, <1>1, <1>2, <1>3, <1>4, <1>5 DEF TableCall
  <2>2. CASE ExecCall(t)
    <3>1. CASE \E c \in Chans, S \in SUBSET Handles, p \in Points :
                 ExecEmpty(t, c, S, p) \/ ExecKickoff(t, c, S, p)
      BY <3>1, <1>6
    <3>2. CASE \/ \E D \in SUBSET Handles : ExecBegin(t, D)
               \/ \E h \in Handles : ExecWait(t, h)
               \/ \E c \in Chans : ExecFails(t, c)
               \/ ExecDrain(t)
      <4>1. UNCHANGED <<syncobjs, hist>>
        BY <3>2 DEF ExecBegin, ExecWait, ExecFails, ExecDrain
      <4>2. QED
        BY <4>1, <1>u
    <3>3. QED
      BY <2>2, <3>1, <3>2 DEF ExecCall
  <2>3. CASE Call(t) \/ ReadCall(t)
    <3>1. UNCHANGED <<syncobjs, hist>>
      BY <2>3 DEF Call, ReadCall, QuerySnapshot, QueryPoll, WaitBegin, WaitFree, WaitSnapshot,
                  WaitReached, WaitExpired
    <3>2. QED
      BY <3>1, <1>u
  <2>4. QED
    BY <1>7, <2>1, <2>2, <2>3 DEF InCall
<1>8. CASE Gpu
  BY <1>8, <1>u DEF Gpu, GpuStep, GpuFault
<1>9. QED
  BY <1>7, <1>8, <1>u DEF Next, vars

SyncInv == TypeOK /\ LedgerInv /\ TableInv

(* The types, the ledger of submissions and the syncobjs' histories always agree. *)
THEOREM SyncCorrect == Spec => []SyncInv
<1>1. Init => TableInv
  BY DEF Init, TableInv, ObjInv, ZeroObj
<1>2. QED
  BY <1>1, TypeCorrect, TableStep, PTL DEF Spec, SyncInv

(* The fence of a syncobj is no earlier than work that was signalled on     *)
(* that very syncobj and is made in full by the command lists of its        *)
(* channel, across reuse of the slot, failed kickoffs, and empty EXECs that *)
(* take the fence of what a failed kickoff left in the ring.                *)
THEOREM FenceCorrect == Spec => []FenceOfOwnWork
<1>1. SyncInv => FenceOfOwnWork
  <2> SUFFICES ASSUME SyncInv, NEW h \in Handles, Lookup(h).fence # NoFence
               PROVE  LET f == Lookup(h).fence
                      IN  /\ \E op \in hist[h] : op.chan = f.chan /\ op.val <= f.value
                          /\ f.value <= accepted[f.chan] + ring[f.chan].cmds
    BY DEF FenceOfOwnWork
  <2>1. Lookup(h) = syncobjs[h]
    BY DEF Lookup, ZeroObj
  <2>2. QED
    BY <2>1 DEF SyncInv, TableInv, ObjInv
<1>2. QED
  BY <1>1, SyncCorrect, PTL

-----------------------------------------------------------------------------
(* Waits and queries. *)

(* A thread changes nothing of another's call. *)
LEMMA OwnCall ==
  ASSUME TypeOK, NEW t \in Threads, Call(t) \/ InCall(t), NEW u \in Threads, u # t
  PROVE  pc'[u] = pc[u] /\ req'[u] = req[u]
<1>r. ASSUME Return(t) PROVE pc'[u] = pc[u] /\ req'[u] = req[u]
  BY <1>r DEF Return, Goto, TypeOK
<1>1. CASE Call(t)
  BY <1>1 DEF Call, Goto, TypeOK
<1>2. CASE TableCall(t)
  BY <1>2, <1>r DEF TableCall, NoChange, Create, Destroy, TimelineSignal, Reset, VmBind, Handler
<1>3. CASE ExecCall(t)
  <2>1. CASE \/ \E D \in SUBSET Handles : ExecBegin(t, D)
             \/ \E h \in Handles : ExecWait(t, h)
             \/ \E c \in Chans, S \in SUBSET Handles, p \in Points : ExecKickoff(t, c, S, p)
    BY <2>1 DEF ExecBegin, ExecWait, ExecKickoff, Goto, TypeOK
  <2>2. CASE \/ \E c \in Chans : ExecFails(t, c)
             \/ \E c \in Chans, S \in SUBSET Handles, p \in Points : ExecEmpty(t, c, S, p)
             \/ ExecDrain(t)
    BY <2>2, <1>r DEF ExecFails, ExecEmpty, ExecDrain
  <2>3. QED
    BY <1>3, <2>1, <2>2 DEF ExecCall
<1>4. CASE ReadCall(t)
  <2>1. CASE \/ \E h \in Handles : QuerySnapshot(t, h) \/ WaitSnapshot(t, h)
             \/ \E H \in SUBSET Handles, all \in BOOLEAN, p \in Points : WaitBegin(t, H, all, p)
    BY <2>1 DEF QuerySnapshot, WaitSnapshot, WaitBegin, Goto, TypeOK
  <2>2. CASE \/ QueryPoll(t)
             \/ \E h \in Handles : WaitFree(t, h)
             \/ WaitReached(t)
             \/ WaitExpired(t)
    <3>1. \/ Return(t)
          \/ /\ Goto(t, "wait")
             /\ \E r : req' = [req EXCEPT ![t] = r]
      BY <2>2, Zenon DEF QueryPoll, WaitFree, WaitReached, WaitExpired, Ready
    <3>2. QED
      BY <3>1, <1>r DEF Goto, TypeOK
  <2>3. QED
    BY <1>4, <2>1, <2>2 DEF ReadCall
<1>5. QED
  BY <1>1, <1>2, <1>3, <1>4 DEF InCall

(* What a thread copied of a syncobj covers what was pending on it then. *)
SnapInv ==
  \A t \in Threads :
    pc[t] \in {"fence", "poll"} => \A op \in req[t].work : Behind(op, req[t].fence)

(* A lookup under the lock sees all the work pending on the syncobj. *)
LEMMA LookupCovers ==
  ASSUME SyncInv, NEW h \in Handles
  PROVE  /\ \A op \in hist[h] : Behind(op, Lookup(h).fence)
         /\ \A op \in Pending(h) : Behind(op, Lookup(h).fence)
<1>1. CASE syncobjs[h].used
  BY <1>1 DEF SyncInv, TableInv, ObjInv, Lookup, Pending
<1>2. CASE ~syncobjs[h].used
  BY <1>2 DEF SyncInv, TableInv, ObjInv, Pending
<1>3. QED
  BY <1>1, <1>2

(* Every step keeps the work of a wait complete or behind its fence. *)
LEMMA SnapStep == SyncInv /\ SnapInv /\ [Next]_vars => SnapInv'
<1> SUFFICES ASSUME SyncInv, SnapInv, [Next]_vars, NEW u \in Threads, pc'[u] \in {"fence", "poll"},
                    NEW op \in req'[u].work
             PROVE  Complete(op)' \/ (req'[u].fence.chan = op.chan /\ op.val <= req'[u].fence.value)
  BY DEF SnapInv, Behind
<1>t. TypeOK /\ LedgerInv /\ TypeOK'
  BY TypeStep DEF SyncInv
<1>o. op \in SignalOp
  BY <1>t DEF TypeOK, Request
<1>k. ASSUME pc'[u] = pc[u], req'[u] = req[u]
      PROVE  Complete(op)' \/ (req'[u].fence.chan = op.chan /\ op.val <= req'[u].fence.value)
  BY <1>k, <1>t, <1>o, CompleteStays DEF SnapInv, Behind
<1>1. CASE Gpu \/ UNCHANGED vars
  BY <1>1, <1>k DEF Gpu, GpuStep, GpuFault, vars
<1>2. ASSUME NEW t \in Threads, Call(t) \/ InCall(t)
      PROVE  Complete(op)' \/ (req'[u].fence.chan = op.chan /\ op.val <= req'[u].fence.value)
  <2>1. CASE u # t
    BY <1>2, <2>1, <1>t, <1>k, OwnCall
  <2>2. CASE u = t
    <3>1. \E h \in Handles : QuerySnapshot(t, h) \/ WaitSnapshot(t, h)
      <4>1. Return(t) => pc'[t] = "idle"
        BY <1>t DEF Return, Goto, TypeOK
      <4>2. \A l : Goto(t, l) => pc'[t] = l
        BY <1>t DEF Goto, TypeOK
      <4>3. CASE Call(t)
        BY <4>3, <4>2, <2>2 DEF Call
      <4>4. CASE TableCall(t)
        BY <4>4, <4>1, <2>2 DEF TableCall, NoChange, Create, Destroy, TimelineSignal, Reset, VmBind,
                                Handler
      <4>5. CASE ExecCall(t)
        BY <4>5, <4>1, <4>2, <2>2 DEF ExecCall, ExecBegin, ExecWait, ExecEmpty, ExecFails,
                                      ExecKickoff, ExecDrain
      <4>6. CASE ReadCall(t)
        <5>1. CASE \/ QueryPoll(t)
                   \/ \E H \in SUBSET Handles, all \in BOOLEAN, p \in Points : WaitBegin(t, H, all, p)
                   \/ \E h \in Handles : WaitFree(t, h)
                   \/ WaitReached(t)
                   \/ WaitExpired(t)
          <6>1. Return(t) \/ Goto(t, "wait")
            BY <5>1, Zenon DEF QueryPoll, WaitBegin, WaitFree, WaitReached, WaitExpired, Ready
          <6>2. QED
            BY <6>1, <4>1, <4>2, <2>2
        <5>2. QED
          BY <4>6, <5>1 DEF ReadCall
      <4>7. QED
        BY <1>2, <4>3, <4>4, <4>5, <4>6 DEF InCall
    <3>2. PICK h \in Handles : QuerySnapshot(t, h) \/ WaitSnapshot(t, h)
      BY <3>1
    <3>3. req'[t].work = Pending(h) /\ req'[t].fence = Lookup(h).fence /\ done' = done
      BY <3>2, <1>t DEF QuerySnapshot, WaitSnapshot, TypeOK, Request, gpuVars
    <3>4. Behind(op, Lookup(h).fence)
      BY <3>3, <2>2, LookupCovers
    <3>5. QED
      BY <3>3, <3>4, <2>2 DEF Behind, Complete
  <2>3. QED
    BY <2>1, <2>2
<1>3. QED
  BY <1>1, <1>2 DEF Next

(* The work a wait waits for is complete or behind its fence. *)
THEOREM SnapCorrect == Spec => []SnapInv
<1>1. Init => SnapInv
  BY DEF Init, SnapInv
<1>2. QED
  BY <1>1, SnapStep, SyncCorrect, PTL DEF Spec

(* A reached fence means that the work it covers is complete. *)
LEMMA ReachedCovers ==
  ASSUME TypeOK, NEW f \in Fence \cup {NoFence}, Reached(f), NEW op \in SignalOp, Behind(op, f)
  PROVE  Complete(op)
<1>1. CASE op.chan \in Chans /\ f.chan = op.chan /\ op.val <= f.value
  <2>1. f \in Fence
    BY <1>1, SyncAssumption DEF NoFence
  <2>2. op.val \in Nat /\ f.value \in Nat /\ done[op.chan] \in Nat
    BY <1>1, <2>1, CountFacts DEF SignalOp, Fence
  <2>3. QED
    BY <1>1, <2>2 DEF Reached, Complete
<1>2. QED
  BY <1>1 DEF Behind, Complete

(* When a wait takes a syncobj for ready, the work signalled on it when it  *)
(* was looked up is complete, whatever caps expired and whatever other      *)
(* calls did to the syncobj meanwhile.                                      *)
THEOREM WaitCorrect == Spec => WaitSound
<1>1. SyncInv /\ SnapInv /\ [Next]_vars =>
        [\A t \in Threads :
           /\ WaitReached(t) => \A op \in req[t].work : Complete(op)
           /\ \A h \in Handles : WaitFree(t, h) => \A op \in hist[h] : Complete(op)]_vars
  <2> SUFFICES ASSUME SyncInv, SnapInv, NEW t \in Threads
               PROVE  /\ WaitReached(t) => \A op \in req[t].work : Complete(op)
                      /\ \A h \in Handles : WaitFree(t, h) => \A op \in hist[h] : Complete(op)
    OBVIOUS
  <2>1. ASSUME WaitReached(t), NEW op \in req[t].work PROVE Complete(op)
    <3>1. req[t].fence \in Fence \cup {NoFence} /\ op \in SignalOp /\ TypeOK
      BY DEF SyncInv, TypeOK, Request
    <3>2. Reached(req[t].fence) /\ Behind(op, req[t].fence)
      BY <2>1 DEF WaitReached, SnapInv
    <3>3. QED
      BY <3>1, <3>2, ReachedCovers
  <2>2. ASSUME NEW h \in Handles, WaitFree(t, h), NEW op \in hist[h] PROVE Complete(op)
    <3>1. Behind(op, NoFence)
      BY <2>2, LookupCovers DEF WaitFree
    <3>2. QED
      BY <3>1, SyncAssumption DEF Behind, NoFence, Complete
  <2>3. QED
    BY <2>1, <2>2
<1>2. QED
  BY <1>1, SyncCorrect, SnapCorrect, PTL DEF Spec, WaitSound

(* A query never reports a point before the work that signals it, or an     *)
(* earlier one, is done.                                                    *)
THEOREM QueryCorrect == Spec => QuerySound
<1>1. SyncInv /\ SnapInv /\ [Next]_vars =>
        [\A t \in Threads :
           QueryPoll(t) =>
             \A op \in req[t].work :
               0 < op.point /\ op.point <= Answered(req[t]) => Complete(op)]_vars
  <2> SUFFICES ASSUME SyncInv, SnapInv, NEW t \in Threads, QueryPoll(t), NEW op \in req[t].work,
                      0 < op.point, op.point <= Answered(req[t])
               PROVE  Complete(op)
    OBVIOUS
  <2>1. req[t].fence \in Fence \cup {NoFence} /\ op \in SignalOp /\ TypeOK
    BY DEF SyncInv, TypeOK, Request
  <2>2. op.point \in Nat
    BY <2>1, SyncAssumption DEF SignalOp, Points
  <2>3. Reached(req[t].fence)
    BY <2>2 DEF Answered
  <2>4. Behind(op, req[t].fence)
    BY DEF QueryPoll, SnapInv
  <2>5. QED
    BY <2>1, <2>3, <2>4, ReachedCovers
<1>2. QED
  BY <1>1, SyncCorrect, SnapCorrect, PTL DEF Spec, QuerySound

-----------------------------------------------------------------------------
(* The serial GPU, while no wait inside EXEC gives up.                      *)

(* Only the holder of the lock is inside EXEC. *)
HolderInv == \A t \in Threads : pc[t] \in {"deps", "drain"} => lock = t

(* Pending work is the newest of its channel, and EXEC drains it. *)
SerialInv ==
  \A c \in Chans : done[c] < accepted[c] =>
    \E t \in Threads : pc[t] = "drain" /\ req[t].fence = FenceAt(c, accepted[c])

(* Every step keeps EXEC under the lock. *)
LEMMA HolderStep == TypeOK /\ HolderInv /\ [Next]_vars => HolderInv'
<1> SUFFICES ASSUME TypeOK, HolderInv, [Next]_vars, NEW u \in Threads, pc'[u] \in {"deps", "drain"}
             PROVE  lock' = u
  BY DEF HolderInv
<1>1. CASE Gpu \/ UNCHANGED vars
  BY <1>1 DEF Gpu, GpuStep, GpuFault, vars, HolderInv
<1>2. ASSUME NEW t \in Threads, Call(t) \/ InCall(t) PROVE lock' = u
  <2>1. \A l : Goto(t, l) => pc'[t] = l
    BY DEF Goto, TypeOK
  <2>2. Return(t) => pc'[t] = "idle"
    BY <2>1 DEF Return
  <2>3. u # t => pc'[u] = pc[u]
    BY <1>2, OwnCall
  <2>4. CASE Call(t)
    BY <2>4, <2>1, <2>3 DEF Call, HolderInv
  <2>5. CASE TableCall(t)
    <3>1. Return(t) /\ lock' = lock
      BY <2>5 DEF TableCall, NoChange, Create, Destroy, TimelineSignal, Reset, VmBind, Handler
    <3>2. QED
      BY <3>1, <2>2, <2>3 DEF HolderInv
  <2>6. CASE ExecCall(t)
    <3>1. CASE \E D \in SUBSET Handles : ExecBegin(t, D)
      BY <3>1, <2>3, SyncAssumption DEF ExecBegin, HolderInv
    <3>2. CASE \E h \in Handles : ExecWait(t, h)
      BY <3>2, <2>3 DEF ExecWait, HolderInv
    <3>3. CASE \E c \in Chans, S \in SUBSET Handles, p \in Points : ExecKickoff(t, c, S, p)
      BY <3>3, <2>3 DEF ExecKickoff, DepsDone, HolderInv
    <3>4. CASE \/ \E c \in Chans : ExecFails(t, c)
               \/ \E c \in Chans, S \in SUBSET Handles, p \in Points : ExecEmpty(t, c, S, p)
               \/ ExecDrain(t)
      <4>1. Return(t) /\ pc[t] \in {"deps", "drain"}
        BY <3>4 DEF ExecFails, ExecEmpty, ExecDrain, DepsDone
      <4>2. QED
        BY <4>1, <2>2, <2>3 DEF HolderInv
    <3>5. QED
      BY <2>6, <3>1, <3>2, <3>3, <3>4 DEF ExecCall
  <2>7. CASE ReadCall(t)
    <3>1. lock' = lock /\ pc'[t] \notin {"deps", "drain"}
      <4>1. CASE \/ \E h \in Handles : QuerySnapshot(t, h) \/ WaitSnapshot(t, h)
                 \/ \E H \in SUBSET Handles, all \in BOOLEAN, p \in Points : WaitBegin(t, H, all, p)
        BY <4>1, <2>1 DEF QuerySnapshot, WaitSnapshot, WaitBegin
      <4>2. CASE QueryPoll(t) \/ (\E h \in Handles : WaitFree(t, h)) \/ WaitReached(t) \/ WaitExpired(t)
        <5>1. lock' = lock /\ (Return(t) \/ Goto(t, "wait"))
          BY <4>2, Zenon DEF QueryPoll, WaitFree, WaitReached, WaitExpired, Ready
        <5>2. QED
          BY <5>1, <2>1, <2>2
      <4>3. QED
        BY <2>7, <4>1, <4>2 DEF ReadCall
    <3>2. QED
      BY <3>1, <2>3 DEF HolderInv
  <2>8. QED
    BY <1>2, <2>4, <2>5, <2>6, <2>7 DEF InCall
<1>3. QED
  BY <1>1, <1>2 DEF Next

(* A thread that has got past its dependencies finds the GPU idle. *)
LEMMA IdleUnderLock ==
  ASSUME TypeOK, LedgerInv, HolderInv, SerialInv,
         lock = NoThread \/ \E t \in Threads : pc[t] = "deps"
  PROVE  \A c \in Chans : done[c] = accepted[c]
<1>1. \A u \in Threads : pc[u] # "drain"
  BY SyncAssumption DEF HolderInv
<1>2. QED
  BY <1>1, CountFacts DEF SerialInv, LedgerInv

(* Nothing but the end of its drain takes a thread out of the drain. *)
LEMMA DrainKept ==
  ASSUME TypeOK, NEW t \in Threads, Call(t) \/ InCall(t), NEW u \in Threads, pc[u] = "drain"
  PROVE  (u = t /\ ExecDrain(t)) \/ (pc'[u] = pc[u] /\ req'[u] = req[u])
<1>1. CASE u # t
  BY <1>1, OwnCall
<1>2. CASE u = t
  BY <1>2 DEF Call, InCall, TableCall, ExecCall, ReadCall, NoChange, Create, Destroy, TimelineSignal,
              Reset, VmBind, Handler, ExecBegin, ExecWait, ExecEmpty, ExecFails, ExecKickoff,
              DepsDone, QuerySnapshot, QueryPoll, WaitBegin, WaitFree, WaitSnapshot, WaitReached,
              WaitExpired
<1>3. QED
  BY <1>1, <1>2

(* Every step keeps pending work behind a drain. *)
LEMMA SerialStep ==
  ASSUME ~CapsExpire
  PROVE  SyncInv /\ HolderInv /\ SerialInv /\ [Next]_vars => SerialInv'
<1> SUFFICES ASSUME SyncInv, HolderInv, SerialInv, [Next]_vars,
                    NEW d \in Chans, done'[d] < accepted'[d]
             PROVE  \E u \in Threads : /\ pc'[u] = "drain"
                                       /\ req'[u].fence = FenceAt(d, accepted'[d])
  BY DEF SerialInv
<1> DEFINE Drainer == \E u \in Threads : /\ pc'[u] = "drain"
                                         /\ req'[u].fence = FenceAt(d, accepted'[d])
<1>t. TypeOK /\ LedgerInv /\ TypeOK' /\ LedgerInv'
  BY TypeStep, LedgerStep DEF SyncInv
<1>1. ASSUME NEW c \in Chans, GpuStep(c) \/ GpuFault(c) PROVE Drainer
  <2>1. done[d] < accepted[d] /\ UNCHANGED <<pc, req, accepted>>
    BY <1>1, <1>t, CountFacts DEF GpuStep, GpuFault, TypeOK
  <2>2. QED
    BY <2>1 DEF SerialInv
<1>2. ASSUME NEW t \in Threads, Call(t) \/ InCall(t), UNCHANGED <<done, accepted>> PROVE Drainer
  <2>1. PICK u \in Threads : pc[u] = "drain" /\ req[u].fence = FenceAt(d, accepted[d])
    BY <1>2 DEF SerialInv
  <2>2. CASE u = t /\ ExecDrain(t)
    <3>0. ~Unaccepted(FenceAt(d, accepted[d]))
      BY <1>t, CountFacts DEF Unaccepted, FenceAt
    <3>1. Reached(FenceAt(d, accepted[d]))
      BY <2>1, <2>2, <3>0 DEF ExecDrain, Drained, Released
    <3>2. done[d] >= accepted[d]
      BY <3>1 DEF Reached, FenceAt
    <3>3. QED
      BY <3>2, <1>2, <1>t, CountFacts
  <2>3. CASE pc'[u] = pc[u] /\ req'[u] = req[u]
    BY <2>1, <2>3, <1>2
  <2>4. QED
    BY <1>2, <1>t, <2>1, <2>2, <2>3, DrainKept
<1>3. ASSUME NEW t \in Threads, NEW c \in Chans, NEW S \in SUBSET Handles, NEW p \in Points,
             ExecKickoff(t, c, S, p)
      PROVE  Drainer
  <2>1. \A b \in Chans : done[b] = accepted[b]
    BY <1>3, <1>t, IdleUnderLock DEF ExecKickoff, DepsDone
  <2>2. done' = done /\ \A b \in Chans : b # c => accepted'[b] = accepted[b]
    BY <1>3, <1>t DEF ExecKickoff, TypeOK
  <2>3. d = c
    BY <2>1, <2>2, <1>t, CountFacts
  <2>4. pc'[t] = "drain" /\ req'[t].fence = FenceAt(c, expected'[c])
    BY <1>3, <1>t DEF ExecKickoff, Goto, TypeOK, NoRequest
  <2>5. expected'[c] = accepted'[c]
    BY <1>t DEF LedgerInv
  <2>6. QED
    BY <2>3, <2>4, <2>5
<1>4. ASSUME NEW t \in Threads, Call(t) \/ InCall(t) PROVE Drainer
  <2>1. CASE \E c \in Chans, S \in SUBSET Handles, p \in Points : ExecKickoff(t, c, S, p)
    BY <2>1, <1>3
  <2>2. CASE ~\E c \in Chans, S \in SUBSET Handles, p \in Points : ExecKickoff(t, c, S, p)
    <3>1. UNCHANGED <<done, accepted>>
      BY <1>4, <2>2
         DEF Call, InCall, TableCall, ExecCall, ReadCall, NoChange, Create, Destroy, TimelineSignal,
             Reset, VmBind, Handler, ExecBegin, ExecWait, ExecEmpty, ExecFails, ExecDrain,
             QuerySnapshot, QueryPoll, WaitBegin, WaitFree, WaitSnapshot, WaitReached, WaitExpired,
             gpuVars
    <3>2. QED
      BY <1>4, <3>1, <1>2
  <2>3. QED
    BY <2>1, <2>2
<1>5. CASE UNCHANGED vars
  BY <1>5 DEF vars, gpuVars, SerialInv
<1>6. QED
  BY <1>1, <1>4, <1>5 DEF Next, Gpu

DrainInv == SyncInv /\ HolderInv /\ SerialInv

(* While no wait inside EXEC gives up, work is pending only where EXEC drains it. *)
THEOREM SerialCorrect ==
  ASSUME ~CapsExpire
  PROVE  Spec => []DrainInv
<1>1. Init => HolderInv /\ SerialInv
  BY SyncAssumption DEF Init, HolderInv, SerialInv
<1>2. SyncInv => TypeOK
  BY DEF SyncInv
<1>3. QED
  BY <1>1, <1>2, SyncCorrect, HolderStep, SerialStep, PTL DEF Spec, DrainInv

(* Nothing signalled so far is pending while EXEC is past its dependencies  *)
(* or the lock is free.                                                     *)
LEMMA NothingPending ==
  ASSUME DrainInv, lock = NoThread \/ \E t \in Threads : pc[t] = "deps"
  PROVE  \A h \in Handles : \A op \in hist[h] : Complete(op)
<1> SUFFICES ASSUME NEW h \in Handles, NEW op \in hist[h], op.chan \in Chans
             PROVE  done[op.chan] >= op.val
  BY DEF Complete
<1>1. TypeOK /\ LedgerInv /\ op.val <= accepted[op.chan] /\ op.val \in Nat
  BY CountFacts DEF DrainInv, SyncInv, TableInv, ObjInv, TypeOK, SignalOp
<1>2. done[op.chan] = accepted[op.chan]
  BY <1>1, IdleUnderLock DEF DrainInv
<1>3. QED
  BY <1>1, <1>2, CountFacts

(* EXEC kicks off only after the work signalled on the syncobjs it waits    *)
(* for, while no cap expires.                                               *)
THEOREM DepsCorrect ==
  ASSUME ~CapsExpire
  PROVE  Spec => DepsComplete
<1>1. DrainInv /\ [Next]_vars =>
        [\A t \in Threads :
           pc[t] = "deps" /\ pc'[t] = "drain" =>
             \A h \in req[t].deps : \A op \in hist[h] : Complete(op)]_vars
  <2> SUFFICES ASSUME DrainInv, NEW t \in Threads, pc[t] = "deps", NEW h \in req[t].deps
               PROVE  \A op \in hist[h] : Complete(op)
    OBVIOUS
  <2>1. h \in Handles
    BY DEF DrainInv, SyncInv, TypeOK, Request
  <2>2. QED
    BY <2>1, NothingPending
<1>2. QED
  BY <1>1, SerialCorrect, PTL DEF Spec, DepsComplete

(* VM_BIND may ignore what it is asked to wait for: nothing is pending when *)
(* it has the lock, while no cap expires.                                   *)
THEOREM BindsCorrect ==
  ASSUME ~CapsExpire
  PROVE  Spec => BindsAfterDeps
<1>1. DrainInv /\ [Next]_vars =>
        [\A t \in Threads, S \in SUBSET Handles, p \in Points :
           VmBind(t, S, p) => \A h \in Handles : \A op \in hist[h] : Complete(op)]_vars
  BY NothingPending DEF VmBind, Handler
<1>2. QED
  BY <1>1, SerialCorrect, PTL DEF Spec, BindsAfterDeps

(* While no cap expires, the shim makes the GPU serial. *)
THEOREM SerialRefinement ==
  ASSUME ~CapsExpire
  PROVE  Spec => ImplementsSerialGpu
<1> DEFINE Run == [c \in Chans |-> accepted[c] - done[c]]
<1>1. Init => Gpus!Init
  BY DEF Init, Gpus!Init
<1>2. DrainInv /\ [Next]_vars => [Gpus!Next]_Run
  <2> SUFFICES ASSUME DrainInv, [Next]_vars PROVE Gpus!Next \/ Run' = Run
    OBVIOUS
  <2>t. TypeOK /\ LedgerInv /\ LedgerInv' /\ TypeOK'
    BY TypeStep, LedgerStep DEF DrainInv, SyncInv
  <2>1. ASSUME NEW c \in Chans, GpuStep(c) PROVE Gpus!Finish(c)
    <3>1. /\ done[c] < accepted[c] /\ accepted' = accepted
          /\ done'[c] = done[c] + 1 /\ \A b \in Chans : b # c => done'[b] = done[b]
      BY <2>1, <2>t DEF GpuStep, TypeOK
    <3>2. Run[c] > 0
      BY <3>1, <2>t, CountFacts
    <3>3. accepted'[c] - done'[c] = Run[c] - 1
      BY <3>1, <2>t, CountFacts
    <3>4. Run' = [Run EXCEPT ![c] = Run[c] - 1]
      BY <3>1, <3>3
    <3>5. QED
      BY <3>2, <3>4 DEF Gpus!Finish
  <2>2. ASSUME NEW c \in Chans, GpuFault(c) PROVE Gpus!Abort(c)
    <3>1. /\ accepted' = accepted
          /\ done'[c] = accepted[c] /\ \A b \in Chans : b # c => done'[b] = done[b]
      BY <2>2, <2>t DEF GpuFault, TypeOK
    <3>2. accepted'[c] - done'[c] = 0
      BY <3>1, <2>t, CountFacts
    <3>3. Run' = [Run EXCEPT ![c] = 0]
      BY <3>1, <3>2
    <3>4. QED
      BY <3>3 DEF Gpus!Abort
  <2>3. ASSUME NEW t \in Threads, NEW c \in Chans, NEW S \in SUBSET Handles, NEW p \in Points,
               ExecKickoff(t, c, S, p)
        PROVE  Gpus!Start(c)
    <3>1. \A b \in Chans : done[b] = accepted[b]
      BY <2>3, <2>t, IdleUnderLock DEF ExecKickoff, DepsDone, DrainInv
    <3>2. /\ done' = done /\ accepted'[c] = accepted[c] + (ring[c].cmds + 1)
          /\ \A b \in Chans : b # c => accepted'[b] = accepted[b]
      BY <2>3, <2>t DEF ExecKickoff, Prepared, TypeOK
    <3>3. \A b \in Chans : Run[b] = 0
      BY <3>1, <2>t, CountFacts
    <3>4. accepted'[c] - done'[c] > 0
      BY <3>1, <3>2, <2>t, CountFacts
    <3>5. Run' = [Run EXCEPT ![c] = Run'[c]]
      BY <3>2
    <3>6. QED
      BY <3>3, <3>4, <3>5 DEF Gpus!Start, Gpus!Idle
  <2>4. ASSUME UNCHANGED <<done, accepted>> PROVE Run' = Run
    BY <2>4
  <2>5. ASSUME NEW t \in Threads, Call(t) \/ InCall(t),
               ~\E c \in Chans, S \in SUBSET Handles, p \in Points : ExecKickoff(t, c, S, p)
        PROVE  UNCHANGED <<done, accepted>>
    BY <2>5
       DEF Call, InCall, TableCall, ExecCall, ReadCall, NoChange, Create, Destroy, TimelineSignal,
           Reset, VmBind, Handler, ExecBegin, ExecWait, ExecEmpty, ExecFails, ExecDrain,
           QuerySnapshot, QueryPoll, WaitBegin, WaitFree, WaitSnapshot, WaitReached, WaitExpired,
           gpuVars
  <2>6. CASE UNCHANGED vars
    BY <2>4, <2>6 DEF vars, gpuVars
  <2>7. QED
    BY <2>1, <2>2, <2>3, <2>4, <2>5, <2>6 DEF Next, Gpu, Gpus!Next
<1>3. QED
  BY <1>1, <1>2, SerialCorrect, PTL DEF Spec, ImplementsSerialGpu, Gpus!Spec
==============================================================================
