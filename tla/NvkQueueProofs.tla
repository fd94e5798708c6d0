---------------------------- MODULE NvkQueueProofs ----------------------------
(***************************************************************************)
(* Proofs about NvkQueue, for any tables, memories and bounds, and for      *)
(* drivers that drain the GPU and that do not.                             *)
(***************************************************************************)
EXTENDS NvkQueue, FiniteSetTheorems, FunctionTheorems, SequenceTheorems, TLAPS

-----------------------------------------------------------------------------
(* Types. *)

Contexts   == {"exec", "bind", "upload"}
Kinds      == {"exec", "bind"}
Optional   == Mems \cup {NoMem}
TableState == [mem : Optional, count : 0 .. MaxCount]
QueueState == [Names -> TableState]

Jobs == [kind : {"init", "tables"} \cup Contexts, s : 0 .. MaxSubmits, point : 0 .. MaxUploads,
         after : 0 .. MaxSubmits, work : 0 .. 2, signal : BOOLEAN, need : QueueState,
         asked : 0 .. MaxUploads, into : Optional]

(* A call that is no submission, and one that is. *)
InitCall   == [pc : InitLabels \cup {"idle", "sync", "finish"}, push : Optional]
SubmitCall == [pc : Names \cup SubmitLabels \cup {"sync"}, push : Optional, s : Submits,
               kind : Kinds, left : 0 .. 2, dirty : BOOLEAN, after : 0 .. MaxSubmits,
               need : QueueState, asked : 0 .. MaxUploads, point : 0 .. MaxUploads]

TypeInv ==
  /\ drains \in BOOLEAN
  /\ table \in QueueState
  /\ refs \in [Mems -> Int]
  /\ queue \in [phase : {"none", "init", "up"}, cb0 : Optional, lost : BOOLEAN,
                state : QueueState, submits : 0 .. MaxSubmits]
  /\ call \in InitCall \cup SubmitCall
  /\ req \in [Kinds -> [point : 0 .. MaxUploads, after : 0 .. MaxSubmits, work : 0 .. 2]]
  /\ upload \in [asked : 0 .. MaxUploads, submitted : 0 .. MaxUploads,
                 done : 0 .. MaxUploads, fill : Optional]
  /\ gpu \in [Contexts -> Seq(Jobs)]
  /\ engine \in QueueState
  /\ done \in [signalled : SUBSET Submits, accepted : SUBSET Submits,
               ran : [Submits -> Nat], want : [Submits -> 0 .. 2]]

(* The variables one by one. *)
LEMMA Types ==
  ASSUME TypeInv
  PROVE  /\ refs \in [Mems -> Int]
         /\ queue \in [phase : {"none", "init", "up"}, cb0 : Optional, lost : BOOLEAN,
                       state : QueueState, submits : 0 .. MaxSubmits]
         /\ call \in InitCall \cup SubmitCall
         /\ req \in [Kinds -> [point : 0 .. MaxUploads, after : 0 .. MaxSubmits, work : 0 .. 2]]
         /\ upload \in [asked : 0 .. MaxUploads, submitted : 0 .. MaxUploads,
                        done : 0 .. MaxUploads, fill : Optional]
         /\ gpu \in [Contexts -> Seq(Jobs)]
         /\ done \in [signalled : SUBSET Submits, accepted : SUBSET Submits,
                      ran : [Submits -> Nat], want : [Submits -> 0 .. 2]]
BY DEF TypeInv

(* The bounds are numbers, and the intervals they bound are not empty. *)
LEMMA Numbers ==
  /\ MaxCount \in Nat /\ MaxSubmits \in Nat /\ MaxUploads \in Nat
  /\ 0 \in 0 .. MaxUploads /\ 1 \in 0 .. MaxUploads /\ 0 \in 0 .. MaxSubmits /\ 0 \in 0 .. MaxCount
BY QueueAssumption

(* What the assumption on the constants says of the tables and the labels. *)
LEMMA Bounds ==
  /\ MaxCount \in Nat /\ MaxSubmits \in Nat /\ MaxUploads \in Nat /\ MaxUploads > 0
  /\ NoMem \notin Mems /\ NoMem \in Optional
  /\ Len(Tables) \in Nat /\ Len(Tables) > 0 /\ DOMAIN Tables = 1 .. Len(Tables)
  /\ \A i \in 1 .. Len(Tables) : Tables[i] \in Names
  /\ Names \cap (InitLabels \cup SubmitLabels \cup {"idle", "sync", "finish"}) = {}
<1>1. Len(Tables) \in Nat /\ Len(Tables) > 0 /\ DOMAIN Tables = 1 .. Len(Tables)
  BY QueueAssumption
<1>2. QED
  BY <1>1, QueueAssumption DEF Names, Optional

(* A step between tables goes on with the next, and is after it. *)
LEMMA NextTableFacts ==
  ASSUME NEW t \in Names
  PROVE  \E i \in 1 .. Len(Tables) :
           /\ Tables[i] = t
           /\ \A j \in 1 .. Len(Tables) : Tables[j] = t => j = i
           /\ IF i < Len(Tables) THEN NextTable(t) = Tables[i + 1] ELSE NextTable(t) = "install"
<1> DEFINE k == CHOOSE i \in DOMAIN Tables : Tables[i] = t
<1>1. k \in DOMAIN Tables /\ Tables[k] = t
  BY DEF Names
<1>2. k \in 1 .. Len(Tables) /\ \A j \in 1 .. Len(Tables) : Tables[j] = t => j = k
  BY <1>1, Bounds, QueueAssumption
<1>3. NextTable(t) = IF k < Len(Tables) THEN Tables[k + 1] ELSE "install"
  BY DEF NextTable
<1> HIDE DEF k
<1>4. QED
  BY <1>1, <1>2, <1>3

(* The tables are finitely many, no more than Tables is long. *)
LEMMA NamesFinite == IsFiniteSet(Names) /\ Cardinality(Names) <= Len(Tables)
<1>1. IsFiniteSet(1 .. Len(Tables)) /\ Cardinality(1 .. Len(Tables)) = Len(Tables)
  BY Bounds, FS_Interval
<1> DEFINE f == [i \in 1 .. Len(Tables) |-> Tables[i]]
<1>2. f \in Surjection(1 .. Len(Tables), Names)
  BY Bounds DEF Names, Surjection
<1>3. QED
  BY <1>1, <1>2, FS_Surjection

(* What the queue gives to the GPU are jobs. *)
LEMMA JobTypes ==
  /\ \A k \in {"init", "tables"} \cup Contexts : Job(k) \in Jobs
  /\ \A s \in QueueState : [Job("tables") EXCEPT !.need = s] \in Jobs
  /\ \A p \in 0 .. MaxUploads, m \in Optional :
       [Job("upload") EXCEPT !.point = p, !.into = m] \in Jobs
  /\ NoTables \in QueueState /\ NoReq \in [Kinds -> [point : 0 .. MaxUploads, after : 0 .. MaxSubmits, work : 0 .. 2]]
<1>1. NoTables \in QueueState
  BY Bounds DEF NoTables, QueueState, TableState
<1>2. \A k \in {"init", "tables"} \cup Contexts : Job(k) \in Jobs
  BY <1>1, Bounds DEF Job, Jobs
<1>3. \A s \in QueueState : [Job("tables") EXCEPT !.need = s] \in Jobs
  <2>1. \A j \in Jobs, s \in QueueState : [j EXCEPT !.need = s] \in Jobs
    BY DEF Jobs
  <2>2. QED
    BY <1>2, <2>1
<1>4. \A p \in 0 .. MaxUploads, m \in Optional :
        [Job("upload") EXCEPT !.point = p, !.into = m] \in Jobs
  <2>1. \A j \in Jobs, p \in 0 .. MaxUploads, m \in Optional :
          [j EXCEPT !.point = p, !.into = m] \in Jobs
    BY DEF Jobs
  <2>2. QED
    BY <1>2, <2>1 DEF Contexts
<1>5. NoReq \in [Kinds -> [point : 0 .. MaxUploads, after : 0 .. MaxSubmits, work : 0 .. 2]]
  BY Bounds DEF NoReq, Kinds
<1>6. QED
  BY <1>1, <1>2, <1>3, <1>4, <1>5

(* What a job given to a context, and one that ran, leave in the queues.    *)
LEMMA Pushed ==
  ASSUME gpu \in [Contexts -> Seq(Jobs)], NEW c \in Contexts, NEW job \in Jobs, Push(c, job)
  PROVE  /\ gpu' \in [Contexts -> Seq(Jobs)]
         /\ Len(gpu[c]) \in Nat /\ Len(gpu'[c]) = Len(gpu[c]) + 1
         /\ gpu'[c] # <<>>
         /\ gpu'[c][Len(gpu[c]) + 1] = job
         /\ \A i \in 1 .. Len(gpu[c]) : gpu'[c][i] = gpu[c][i]
         /\ \A d \in Contexts : d # c => gpu'[d] = gpu[d]
<1>1. gpu'[c] = Append(gpu[c], job) /\ \A d \in Contexts : d # c => gpu'[d] = gpu[d]
  BY DEF Push
<1>2. gpu[c] \in Seq(Jobs)
  OBVIOUS
<1>3. /\ Append(gpu[c], job) \in Seq(Jobs) /\ Len(gpu[c]) \in Nat
      /\ Len(Append(gpu[c], job)) = Len(gpu[c]) + 1
      /\ Append(gpu[c], job)[Len(gpu[c]) + 1] = job
      /\ \A i \in 1 .. Len(gpu[c]) : Append(gpu[c], job)[i] = gpu[c][i]
  BY <1>2
<1>4. gpu' \in [Contexts -> Seq(Jobs)]
  BY <1>3 DEF Push
<1>5. gpu'[c] # <<>>
  BY <1>1, <1>3
<1>6. QED
  BY <1>1, <1>3, <1>4, <1>5

(* ... and without its oldest. *)
LEMMA Popped ==
  ASSUME gpu \in [Contexts -> Seq(Jobs)], NEW c \in Contexts, gpu[c] # <<>>,
         gpu' = [gpu EXCEPT ![c] = Tail(@)]
  PROVE  /\ gpu' \in [Contexts -> Seq(Jobs)]
         /\ Len(gpu[c]) \in Nat /\ Len(gpu[c]) > 0 /\ Len(gpu'[c]) = Len(gpu[c]) - 1
         /\ Head(gpu[c]) = gpu[c][1] /\ gpu[c][1] \in Jobs
         /\ \A i \in 1 .. Len(gpu'[c]) : gpu'[c][i] = gpu[c][i + 1]
         /\ gpu'[c] = <<>> <=> Len(gpu[c]) = 1
         /\ \A d \in Contexts : d # c => gpu'[d] = gpu[d]
<1>1. gpu'[c] = Tail(gpu[c]) /\ \A d \in Contexts : d # c => gpu'[d] = gpu[d]
  OBVIOUS
<1>2. gpu[c] \in Seq(Jobs)
  OBVIOUS
<1>3. /\ Tail(gpu[c]) \in Seq(Jobs) /\ Len(gpu[c]) \in Nat /\ Len(gpu[c]) > 0
      /\ Len(Tail(gpu[c])) = Len(gpu[c]) - 1
      /\ Head(gpu[c]) = gpu[c][1] /\ gpu[c][1] \in Jobs
      /\ \A i \in 1 .. Len(gpu[c]) - 1 : Tail(gpu[c])[i] = gpu[c][i + 1]
  BY <1>2
<1>4. gpu' \in [Contexts -> Seq(Jobs)]
  BY <1>3
<1>5. gpu'[c] = <<>> <=> Len(gpu[c]) = 1
  <2>1. gpu'[c] \in Seq(Jobs) /\ Len(gpu'[c]) = Len(gpu[c]) - 1
    BY <1>1, <1>3
  <2>2. gpu'[c] = <<>> => Len(gpu'[c]) = 0
    BY EmptySeq
  <2>3. gpu'[c] # <<>> => Len(gpu'[c]) # 0
    BY <2>1, EmptySeq
  <2>4. QED
    BY <1>3, <2>1, <2>2, <2>3
<1>6. QED
  BY <1>1, <1>3, <1>4, <1>5

(* The call that is none is no submission. *)
LEMMA IdleType == Idle \in InitCall
BY Bounds DEF Idle, InitCall

-----------------------------------------------------------------------------
(***************************************************************************)
(* The phases of a queue.  It is made and finished with nothing under way, *)
(* so that what follows is about a queue that is up.                       *)
(***************************************************************************)
NoneInv ==
  /\ queue = NoQueue /\ table = NoTables /\ call = Idle /\ req = NoReq /\ upload = NoUpload
  /\ engine = NoTables /\ done = NoDone
  /\ \A c \in Contexts : gpu[c] = <<>>

InitInv ==
  /\ call \in InitCall /\ call.pc \in InitLabels \cup {"sync"}
  /\ queue.state = NoTables /\ ~queue.lost /\ queue.submits = 0
  /\ queue.cb0 = NoMem <=> call.pc \in {"create_exec_ctx", "alloc_cb0", "fail_exec_ctx", "fail_init"}
  /\ table = NoTables /\ req = NoReq /\ engine = NoTables /\ done = NoDone
  /\ upload.submitted = 0 /\ upload.done = 0 /\ upload.fill \in {NoMem, queue.cb0}
  /\ call.pc \in {"create_exec_ctx", "alloc_cb0", "fill_cb0"} => upload = NoUpload
  /\ gpu["bind"] = <<>> /\ gpu["upload"] = <<>>
  /\ call.pc # "sync" => gpu["exec"] = <<>>
  /\ \A i \in 1 .. Len(gpu["exec"]) : gpu["exec"][i] = Job("init")

PhaseInv ==
  /\ queue.phase = "none" => NoneInv
  /\ queue.phase = "init" => InitInv
  /\ queue.phase = "up" => \/ call \in SubmitCall
                           \/ call \in InitCall /\ call.pc \in {"idle", "finish"}
  /\ call.pc = "finish" => gpu["exec"] = <<>> /\ gpu["bind"] = <<>>
  /\ call.push # NoMem <=> call.pc = "sync"
  /\ queue.lost => call.pc \in {"idle", "finish"}

Submitting == queue.phase = "up" /\ call \in SubmitCall

(* What a submission knows of itself: the requests are its own.             *)
CallInv ==
  /\ queue.phase = "up" /\ call.pc = "idle" /\ ~queue.lost => req = NoReq
  /\ Submitting =>
       /\ call.s = queue.submits /\ call.asked <= upload.asked
       /\ call.left + req[call.kind].work <= 2
       /\ call.pc = "work" => call.left > 0
       /\ \A c \in Kinds : c # call.kind => req[c] = NoReq[c]
       /\ call.pc \in Names \cup {"install", "sync", "flush", "wait"} => req = NoReq

(* The upload queue: its jobs fill the root table of the queue, in order,   *)
(* and the last one reaches what was submitted.                             *)
UploadInv ==
  LET jobs == gpu["upload"] IN
  /\ upload.done <= upload.submitted /\ upload.submitted <= upload.asked
  /\ upload.fill \in {NoMem, queue.cb0}
  /\ jobs = <<>> => upload.done = upload.submitted
  /\ jobs # <<>> => jobs[Len(jobs)].point = upload.submitted
  /\ \A i \in 1 .. Len(jobs) :
       /\ jobs[i].kind = "upload" /\ jobs[i].s = 0
       /\ upload.done < jobs[i].point
       /\ \A j \in 1 .. i - 1 : jobs[j].point < jobs[i].point
       /\ jobs[i].into \in {NoMem, queue.cb0}

(* Where a call is says in which phase the queue is. *)
LEMMA PhaseFacts ==
  ASSUME TypeInv, PhaseInv
  PROVE  /\ call.pc \in InitLabels => queue.phase = "init" /\ InitInv /\ call \in InitCall
         /\ call.pc \in Names \cup SubmitLabels =>
              queue.phase = "up" /\ Submitting /\ call \in SubmitCall /\ ~queue.lost
         /\ call.pc = "finish" => queue.phase = "up" /\ call \in InitCall
         /\ call.pc = "sync" => queue.phase = "init" \/ (Submitting /\ ~queue.lost)
         /\ queue.phase \in {"none", "init", "up"}
<1>1. queue.phase \in {"none", "init", "up"} /\ call.pc \in InitLabels \cup {"idle", "sync", "finish"} \cup Names \cup SubmitLabels
  BY DEF TypeInv, InitCall, SubmitCall
<1>2. CASE queue.phase = "none"
  BY <1>2, Bounds DEF PhaseInv, NoneInv, Idle, InitLabels, SubmitLabels
<1>3. CASE queue.phase = "init"
  BY <1>3, Bounds DEF PhaseInv, InitInv, InitLabels, SubmitLabels
<1>4. CASE queue.phase = "up"
  BY <1>4, Bounds DEF PhaseInv, InitCall, SubmitCall, InitLabels, SubmitLabels, Submitting
<1>5. QED
  BY <1>1, <1>2, <1>3, <1>4

-----------------------------------------------------------------------------
(* References: how many are of a kind, and what a step leaves of them.      *)
Count(f, m) == Cardinality({t \in Names : f[t].mem = m})

(* The tables that hold a memory are counted by a number. *)
LEMMA CountFacts ==
  /\ \A f, m : Count(f, m) \in Nat /\ Count(f, m) <= Len(Tables)
  /\ \A f, m : IsFiniteSet({t \in Names : f[t].mem = m})
<1>1. ASSUME NEW f, NEW m
      PROVE  Count(f, m) \in Nat /\ Count(f, m) <= Len(Tables)
             /\ IsFiniteSet({t \in Names : f[t].mem = m})
  <2>1. {t \in Names : f[t].mem = m} \in SUBSET Names
    OBVIOUS
  <2>2. IsFiniteSet({t \in Names : f[t].mem = m}) /\ Count(f, m) <= Cardinality(Names)
    BY <2>1, NamesFinite, FS_Subset DEF Count
  <2>3. Count(f, m) \in Nat /\ Cardinality(Names) \in Nat
    BY <2>2, NamesFinite, FS_CardinalityType DEF Count
  <2>4. QED
    BY <2>2, <2>3, NamesFinite, Bounds
<1>2. QED
  BY <1>1

(* Taking and dropping references keeps integers. *)
LEMMA RefTypes ==
  ASSUME TypeInv
  PROVE  /\ \A r \in [Mems -> Int], m \in Optional : /\ Ref(r, m) \in [Mems -> Int]
                                                   /\ Unref(r, m) \in [Mems -> Int]
         /\ \A r \in [Mems -> Int] : StateFinish(r) \in [Mems -> Int]
         /\ \A t \in Names : table[t].mem \in Optional /\ queue.state[t].mem \in Optional
         /\ call.push \in Optional /\ queue.cb0 \in Optional
<1>1. \A r \in [Mems -> Int], m \in Optional : /\ Ref(r, m) \in [Mems -> Int]
                                             /\ Unref(r, m) \in [Mems -> Int]
  BY DEF Ref, Unref, Optional
<1>2. \A r \in [Mems -> Int] : StateFinish(r) \in [Mems -> Int]
  <2>1. \A r : StateFinish(r) = [m \in Mems |-> r[m] - Count(queue.state, m) - Count(table, m)]
    BY DEF StateFinish, Count
  <2>2. \A r \in [Mems -> Int], m \in Mems : r[m] - Count(queue.state, m) - Count(table, m) \in Int
    BY CountFacts
  <2>3. QED
    BY <2>1, <2>2
<1>3. \A t \in Names : table[t].mem \in Optional /\ queue.state[t].mem \in Optional
  BY DEF TypeInv, QueueState, TableState
<1>4. call.push \in Optional /\ queue.cb0 \in Optional
  BY DEF TypeInv, InitCall, SubmitCall
<1>5. QED
  BY <1>1, <1>2, <1>3, <1>4

(* The words of a queue and the wait for them. *)
LEMMA SubmitSimpleEffects ==
  ASSUME TypeInv, NEW job \in Jobs, NEW fail, SubmitSimple(job, fail)
  PROVE  \/ \E m \in Mems :
              /\ refs[m] = 0 /\ refs' = Ref(refs, m)
              /\ call' = [call EXCEPT !.push = m, !.pc = "sync"]
              /\ Push("exec", job)
         \/ call' = [call EXCEPT !.pc = fail] /\ UNCHANGED <<refs, gpu>>
BY Bounds DEF SubmitSimple, Goto, Free

(* A flush gives the upload queue what was asked for. *)
LEMMA FlushEffects ==
  ASSUME TypeInv, Flush
  PROVE  \/ upload.asked = upload.submitted /\ UNCHANGED <<upload, gpu>>
         \/ /\ upload.asked # upload.submitted
            /\ upload' = [upload EXCEPT !.submitted = upload.asked, !.fill = NoMem]
            /\ LET job == [Job("upload") EXCEPT !.point = upload.asked, !.into = upload.fill]
               IN  job \in Jobs /\ Push("upload", job)
BY JobTypes DEF Flush, TypeInv

(* A request of a submission becomes a job. *)
LEMMA RequestType ==
  ASSUME TypeInv, call \in SubmitCall, NEW signal \in BOOLEAN,
         NEW r \in [point : 0 .. MaxUploads, after : 0 .. MaxSubmits, work : 0 .. 2]
  PROVE  LET job == Request(r, signal)
         IN /\ job \in Jobs /\ job.kind = call.kind /\ job.s = call.s /\ job.work = r.work
            /\ job.point = r.point /\ job.after = r.after /\ job.signal = signal
            /\ job.need = call.need /\ job.asked = call.asked /\ job.into = NoMem
<1>1. /\ call.kind \in Kinds /\ call.s \in 0 .. MaxSubmits /\ call.need \in QueueState
      /\ call.asked \in 0 .. MaxUploads
  BY Bounds DEF SubmitCall, Submits
<1>2. Job(call.kind) \in Jobs /\ Job(call.kind).kind = call.kind /\ Job(call.kind).into = NoMem
  BY <1>1, JobTypes DEF Kinds, Contexts, Job
<1>3. \A j \in Jobs :
        LET job == [j EXCEPT !.s = call.s, !.point = r.point, !.after = r.after, !.work = r.work,
                             !.signal = signal, !.need = call.need, !.asked = call.asked]
        IN /\ job \in Jobs /\ job.kind = j.kind /\ job.s = call.s /\ job.work = r.work
           /\ job.point = r.point /\ job.after = r.after /\ job.signal = signal
           /\ job.need = call.need /\ job.asked = call.asked /\ job.into = j.into
  BY <1>1 DEF Jobs
<1>4. QED
  BY <1>2, <1>3 DEF Request

(* Every step keeps the types. *)
LEMMA TypeStep == TypeInv /\ PhaseInv /\ CallInv /\ [Next]_vars => TypeInv'
<1> SUFFICES ASSUME TypeInv, PhaseInv, CallInv, [Next]_vars PROVE TypeInv'
  OBVIOUS
<1>1. CASE InitBegin
  <2>1. call \in InitCall
    BY <1>1, Bounds DEF InitBegin, At, TypeInv, InitCall, SubmitCall, SubmitLabels
  <2>2. call' \in InitCall
    BY <1>1, <2>1 DEF InitBegin, Goto, InitLabels, InitCall
  <2>3. queue' \in [phase : {"none", "init", "up"}, cb0 : Optional, lost : BOOLEAN,
                    state : QueueState, submits : 0 .. MaxSubmits]
    <3>1. NoTables \in QueueState /\ NoMem \in Optional
      BY JobTypes, Bounds
    <3>2. QED
      BY <1>1, <3>1, Numbers DEF InitBegin, NoQueue
  <2>4. QED
    BY <1>1, <2>2, <2>3 DEF InitBegin, TypeInv
<1>2. CASE CreateExecCtx \/ CreateBindCtx
  <2>1. call.pc \in InitLabels
    BY <1>2 DEF CreateExecCtx, CreateBindCtx, At, InitLabels
  <2>2. call \in InitCall
    BY <2>1, PhaseFacts
  <2>3. call' \in InitCall
    BY <1>2, <2>2 DEF CreateExecCtx, CreateBindCtx, Goto, InitLabels, InitCall
  <2>4. QED
    BY <1>2, <2>3 DEF CreateExecCtx, CreateBindCtx, TypeInv
<1>3. CASE AllocCb0
  <2>1. call.pc \in InitLabels
    BY <1>3 DEF AllocCb0, At, InitLabels
  <2>2. call \in InitCall
    BY <2>1, PhaseFacts
  <2>6. call' \in InitCall
    BY <1>3, <2>2 DEF AllocCb0, Goto, InitLabels, InitCall
  <2>3. refs' \in [Mems -> Int]
    BY <1>3 DEF AllocCb0, Free, Ref, TypeInv
  <2>4. queue' \in [phase : {"none", "init", "up"}, cb0 : Optional, lost : BOOLEAN,
                    state : QueueState, submits : 0 .. MaxSubmits]
    BY <1>3 DEF AllocCb0, Free, Optional, TypeInv
  <2>5. QED
    BY <1>3, <2>6, <2>3, <2>4 DEF AllocCb0, TypeInv
<1>4. CASE FillCb0
  <2>1. call.pc = "fill_cb0" /\ call.pc \in InitLabels
    BY <1>4 DEF FillCb0, At, InitLabels
  <2>2. call \in InitCall
    BY <2>1, PhaseFacts
  <2>6. call' \in InitCall
    BY <1>4, <2>2 DEF FillCb0, Goto, InitLabels, InitCall
  <2>3. upload = NoUpload
    BY <2>1, PhaseFacts DEF InitInv
  <2>4. upload' \in [asked : 0 .. MaxUploads, submitted : 0 .. MaxUploads,
                     done : 0 .. MaxUploads, fill : Optional]
    <3>1. queue.cb0 \in Optional
      BY RefTypes
    <3>2. upload' = upload \/ upload' = [NoUpload EXCEPT !.asked = 1, !.fill = queue.cb0]
      BY <1>4, <2>3 DEF FillCb0, NoUpload
    <3>3. [NoUpload EXCEPT !.asked = 1, !.fill = queue.cb0] \in
            [asked : 0 .. MaxUploads, submitted : 0 .. MaxUploads,
             done : 0 .. MaxUploads, fill : Optional]
      BY <3>1, Numbers DEF NoUpload
    <3>4. QED
      BY <3>2, <3>3 DEF TypeInv
  <2>5. QED
    BY <1>4, <2>6, <2>4 DEF FillCb0, TypeInv
<1>5. CASE ContextState
  <2>1. call.pc \in InitLabels
    BY <1>5 DEF ContextState, At, InitLabels
  <2>2. Job("init") \in Jobs /\ SubmitSimple(Job("init"), "fail_bind_ctx")
    BY <1>5, JobTypes DEF ContextState
  <2>7. call \in InitCall
    BY <2>1, PhaseFacts
  <2>8. \/ \E m \in Mems : /\ refs' = Ref(refs, m)
                           /\ call' = [call EXCEPT !.push = m, !.pc = "sync"]
        \/ call' = [call EXCEPT !.pc = "fail_bind_ctx"] /\ UNCHANGED refs
    BY <2>2, SubmitSimpleEffects
  <2>3. call' \in InitCall
    BY <2>7, <2>8 DEF InitLabels, Optional, InitCall
  <2>4. refs' \in [Mems -> Int]
    <3>1. \A m \in Mems : Ref(refs, m) \in [Mems -> Int]
      BY RefTypes, Types DEF Optional
    <3>2. QED
      BY <2>8, <3>1, Types
  <2>5. gpu' \in [Contexts -> Seq(Jobs)]
    BY <2>2, SubmitSimpleEffects, Pushed DEF TypeInv, Contexts
  <2>6. QED
    BY <1>5, <2>3, <2>4, <2>5 DEF ContextState, TypeInv
<1>6. CASE ContextSync
  <2>1. call \in InitCall
    BY <1>6, PhaseFacts DEF ContextSync, PhaseInv, InitInv
  <2>2. call' \in InitCall
    BY <1>6, <2>1, Bounds DEF ContextSync, Synced, InitLabels, InitCall
  <2>3. refs' \in [Mems -> Int]
    BY <1>6, RefTypes DEF ContextSync, Synced, TypeInv
  <2>4. queue' \in [phase : {"none", "init", "up"}, cb0 : Optional, lost : BOOLEAN,
                    state : QueueState, submits : 0 .. MaxSubmits]
    BY <1>6 DEF ContextSync, TypeInv
  <2>5. QED
    BY <1>6, <2>2, <2>3, <2>4 DEF ContextSync, TypeInv
<1>7. ASSUME InitFails \/ Finish PROVE TypeInv'
  <2>1. refs' \in [Mems -> Int]
    <3>1. \E r \in [Mems -> Int] : refs' = StateFinish(r)
      <4>1. refs \in [Mems -> Int] /\ Unref(refs, queue.cb0) \in [Mems -> Int]
        BY RefTypes DEF TypeInv
      <4>2. refs' = StateFinish(refs) \/ refs' = StateFinish(Unref(refs, queue.cb0))
        BY <1>7 DEF InitFails, Finish, Undone
      <4>3. QED
        BY <4>1, <4>2
    <3>2. QED
      BY <3>1, RefTypes
  <2>2. queue' = NoQueue /\ call' = Idle /\ upload' = NoUpload /\ table' = NoTables
        /\ UNCHANGED <<drains, gpu>>
        /\ req' \in {req, NoReq} /\ engine' \in {engine, NoTables} /\ done' \in {done, NoDone}
    BY <1>7 DEF InitFails, Finish
  <2>3. /\ NoQueue \in [phase : {"none", "init", "up"}, cb0 : Optional, lost : BOOLEAN,
                         state : QueueState, submits : 0 .. MaxSubmits]
        /\ NoUpload \in [asked : 0 .. MaxUploads, submitted : 0 .. MaxUploads,
                          done : 0 .. MaxUploads, fill : Optional]
        /\ NoDone \in [signalled : SUBSET Submits, accepted : SUBSET Submits,
                        ran : [Submits -> Nat], want : [Submits -> 0 .. 2]]
    <3>1. NoTables \in QueueState /\ NoMem \in Optional
      BY JobTypes, Bounds
    <3>2. QED
      BY <3>1, Numbers DEF NoQueue, NoUpload, NoDone
  <2>4. QED
    BY <2>1, <2>2, <2>3, JobTypes, IdleType DEF TypeInv
<1>8. ASSUME FinishBegin \/ FlushUploads PROVE TypeInv'
  <2>1. /\ upload' \in [asked : 0 .. MaxUploads, submitted : 0 .. MaxUploads,
                        done : 0 .. MaxUploads, fill : Optional]
        /\ gpu' \in [Contexts -> Seq(Jobs)]
    <3>1. CASE Flush
      <4>1. gpu' \in [Contexts -> Seq(Jobs)]
        BY <3>1, FlushEffects, Pushed DEF TypeInv, Contexts
      <4>2. QED
        BY <3>1, <4>1, FlushEffects, Bounds DEF TypeInv
    <3>2. CASE UNCHANGED <<upload, gpu>>
      BY <3>2 DEF TypeInv
    <3>3. QED
      BY <1>8, <3>1, <3>2 DEF FinishBegin, FlushUploads
  <2>2. call' \in InitCall \cup SubmitCall
    <3>1. CASE FinishBegin
      <4>1. call \in InitCall
        BY <3>1, Bounds DEF FinishBegin, At, TypeInv, InitCall, SubmitCall, SubmitLabels
      <4>2. QED
        BY <3>1, <4>1 DEF FinishBegin, Goto, InitCall
    <3>2. CASE FlushUploads
      <4>1. call \in SubmitCall
        BY <3>2, PhaseFacts DEF FlushUploads, At, SubmitLabels
      <4>2. QED
        <5>1. upload'.submitted \in 0 .. MaxUploads
          BY <2>1
        <5>2. QED
          BY <3>2, <4>1, <5>1, ZenonT(60) DEF FlushUploads, Goto, SubmitLabels, SubmitCall
    <3>3. QED
      BY <1>8, <3>1, <3>2
  <2>3. QED
    BY <1>8, <2>1, <2>2 DEF FinishBegin, FlushUploads, TypeInv
<1>9. CASE Submit
  <2>1. PICK kind \in Kinds, n \in 0 .. 2, after \in 0 .. queue.submits :
          /\ call' = IF queue.lost THEN Idle ELSE Submission(kind, n, after)
          /\ done' = [done EXCEPT !.want[queue.submits + 1] = n]
    BY <1>9 DEF Submit, Kinds
  <2>2. queue.submits < MaxSubmits /\ queue' = [queue EXCEPT !.submits = @ + 1]
        /\ UNCHANGED <<drains, table, refs, req, upload, gpu, engine>>
    BY <1>9 DEF Submit
  <2>3. queue.submits \in 0 .. MaxSubmits /\ queue.submits + 1 \in Submits
    BY <2>2, Bounds DEF TypeInv, Submits
  <2>4. Submission(kind, n, after) \in SubmitCall
    BY <2>3, Bounds DEF Submission, SubmitCall, SubmitLabels, TypeInv
  <2>5. done' \in [signalled : SUBSET Submits, accepted : SUBSET Submits,
                   ran : [Submits -> Nat], want : [Submits -> 0 .. 2]]
    BY <2>1, <2>3 DEF TypeInv
  <2>6. queue' \in [phase : {"none", "init", "up"}, cb0 : Optional, lost : BOOLEAN,
                    state : QueueState, submits : 0 .. MaxSubmits]
    <3>1. queue.submits + 1 \in 0 .. MaxSubmits
      BY <2>3, Numbers DEF Submits
    <3>2. QED
      BY <2>2, <3>1, Types
  <2>7. QED
    BY <2>1, <2>2, <2>4, <2>5, <2>6, IdleType DEF TypeInv
<1>10. CASE UpdateTable
  <2>1. PICK t \in Names :
          /\ call.pc = t
          /\ queue' = [queue EXCEPT !.state[t] = IF Changed(t) THEN table[t] ELSE @]
          /\ refs' = Updated(t)
          /\ call' = [call EXCEPT !.dirty = @ \/ Changed(t), !.pc = NextTable(t)]
          /\ UNCHANGED <<drains, table, req, upload, gpu, engine, done>>
    BY <1>10 DEF UpdateTable, At
  <2>2. NextTable(t) \in Names \cup SubmitLabels
    BY Bounds, NextTableFacts DEF SubmitLabels
  <2>3. call \in SubmitCall
    BY <2>1, PhaseFacts
  <2>4. call' \in SubmitCall
    <3>1. call.dirty \/ Changed(t) \in BOOLEAN
      BY <2>3 DEF SubmitCall, Changed
    <3>2. QED
      BY <2>1, <2>2, <2>3, <3>1 DEF SubmitCall
  <2>5. refs' \in [Mems -> Int]
    BY <2>1, RefTypes DEF Updated, TypeInv
  <2>6. queue' \in [phase : {"none", "init", "up"}, cb0 : Optional, lost : BOOLEAN,
                    state : QueueState, submits : 0 .. MaxSubmits]
    BY <2>1 DEF TypeInv, QueueState
  <2>7. QED
    BY <2>1, <2>4, <2>5, <2>6 DEF TypeInv
<1>11. CASE Install
  <2>1. call \in SubmitCall
    BY <1>11, PhaseFacts DEF Install, At, SubmitLabels
  <2>2. CASE call.dirty
    <3> DEFINE job == [Job("tables") EXCEPT !.need = queue.state]
    <3>1. job \in Jobs
      BY JobTypes DEF TypeInv
    <3>2. SubmitSimple(job, "fail")
      BY <1>11, <2>2 DEF Install
    <3> HIDE DEF job
    <3>3. refs' \in [Mems -> Int] /\ call' \in SubmitCall
      <4>1. \/ \E m \in Mems : /\ refs' = Ref(refs, m)
                               /\ call' = [call EXCEPT !.push = m, !.pc = "sync"]
            \/ call' = [call EXCEPT !.pc = "fail"] /\ UNCHANGED refs
        BY <3>1, <3>2, SubmitSimpleEffects
      <4>2. QED
        <5>1. refs' \in [Mems -> Int]
          <6>1. \A m \in Mems : Ref(refs, m) \in [Mems -> Int]
            BY RefTypes, Types DEF Optional
          <6>2. QED
            BY <4>1, <6>1, Types
        <5>2. call' \in SubmitCall
          BY <2>1, <4>1, ZenonT(60) DEF Optional, SubmitLabels, SubmitCall
        <5>3. QED
          BY <5>1, <5>2
    <3>4. gpu' \in [Contexts -> Seq(Jobs)]
      BY <3>1, <3>2, SubmitSimpleEffects, Pushed DEF TypeInv, Contexts
    <3>5. QED
      BY <1>11, <3>3, <3>4 DEF Install, TypeInv
  <2>3. CASE ~call.dirty
    <3>1. call' \in SubmitCall
      BY <1>11, <2>1, <2>3 DEF Install, Goto, SubmitLabels, SubmitCall
    <3>2. QED
      BY <1>11, <2>3, <3>1 DEF Install, TypeInv
  <2>4. QED
    BY <2>2, <2>3
<1>12. CASE InstallSync
  <2>1. call \in SubmitCall
    BY <1>12, PhaseFacts DEF InstallSync, Synced, At, Submitting
  <2>2. call' \in SubmitCall
    BY <1>12, <2>1, Bounds DEF InstallSync, Synced, SubmitLabels, SubmitCall
  <2>3. refs' \in [Mems -> Int]
    BY <1>12, RefTypes DEF InstallSync, Synced, TypeInv
  <2>4. QED
    BY <1>12, <2>2, <2>3 DEF InstallSync, TypeInv
<1>13. CASE Wait
  <2>1. call \in SubmitCall
    BY <1>13, PhaseFacts DEF Wait, At, SubmitLabels
  <2>2. call' \in SubmitCall
    BY <1>13, <2>1 DEF Wait, AfterWait, Goto, SubmitLabels, SubmitCall
  <2>3. req' \in [Kinds -> [point : 0 .. MaxUploads, after : 0 .. MaxSubmits, work : 0 .. 2]]
    <3>1. call.kind \in Kinds /\ call.point \in 0 .. MaxUploads /\ call.after \in 0 .. MaxSubmits
      BY <2>1 DEF SubmitCall
    <3>2. \/ req' = [req EXCEPT ![call.kind] = [@ EXCEPT !.point = call.point, !.after = call.after]]
          \/ req' = req
      BY <1>13 DEF Wait, UploadPoint
    <3>3. QED
      BY <3>1, <3>2, Types
  <2>4. QED
    BY <1>13, <2>2, <2>3 DEF Wait, TypeInv
<1>14. CASE Work
  <2>1. call.pc = "work" /\ call \in SubmitCall /\ Submitting
    BY <1>14, PhaseFacts DEF Work, At, SubmitLabels
  <2>2. call.left > 0 /\ call.left + req[call.kind].work <= 2
    BY <2>1 DEF CallInv
  <2>3. call.kind \in Kinds /\ call.left \in 0 .. 2 /\ call.left - 1 \in 0 .. 2
    BY <2>1, <2>2 DEF SubmitCall
  <2> DEFINE r == [req[call.kind] EXCEPT !.work = @ + 1]
  <2>4. r \in [point : 0 .. MaxUploads, after : 0 .. MaxSubmits, work : 0 .. 2]
    <3>1. req[call.kind] \in [point : 0 .. MaxUploads, after : 0 .. MaxSubmits, work : 0 .. 2]
      BY <2>3, Types
    <3>2. req[call.kind].work + 1 \in 0 .. 2
      BY <2>2, <2>3, <3>1
    <3>3. QED
      BY <3>1, <3>2
  <2>5. /\ UNCHANGED <<drains, table, refs, queue, upload, engine, done>>
        /\ \/ /\ call' = [call EXCEPT !.left = @ - 1, !.pc = IF call.left > 1 THEN "work" ELSE "signal"]
              /\ \/ req' = [req EXCEPT ![call.kind] = r] /\ UNCHANGED gpu
                 \/ /\ Push(call.kind, Request(r, FALSE))
                    /\ req' = [req EXCEPT ![call.kind] = NoReq[call.kind]]
           \/ Goto("fail") /\ UNCHANGED <<req, gpu>>
    BY <1>14 DEF Work, WorkFails
  <2> HIDE DEF r
  <2>6. call' \in SubmitCall
    BY <2>1, <2>3, <2>5 DEF Goto, SubmitLabels, SubmitCall
  <2>7. req' \in [Kinds -> [point : 0 .. MaxUploads, after : 0 .. MaxSubmits, work : 0 .. 2]]
    BY <2>3, <2>4, <2>5, JobTypes, ZenonT(60) DEF TypeInv
  <2>8. gpu' \in [Contexts -> Seq(Jobs)]
    <3>1. Request(r, FALSE) \in Jobs
      BY <2>1, <2>4, RequestType
    <3>2. CASE UNCHANGED gpu
      BY <3>2 DEF TypeInv
    <3>3. CASE Push(call.kind, Request(r, FALSE))
      <4> DEFINE job == Request(r, FALSE)
      <4> HIDE DEF job
      <4>1. job \in Jobs /\ Push(call.kind, job) /\ call.kind \in Contexts
        BY <2>3, <3>1, <3>3 DEF job, Kinds, Contexts
      <4>2. QED
        BY <4>1, Pushed DEF TypeInv
    <3>4. QED
      BY <2>5, <3>2, <3>3
  <2>9. QED
    BY <2>5, <2>6, <2>7, <2>8 DEF TypeInv
<1>15. CASE Signal
  <2>1. call \in SubmitCall /\ call.kind \in Kinds /\ call.s \in Submits
    BY <1>15, PhaseFacts DEF Signal, At, SubmitLabels, SubmitCall
  <2> DEFINE job == Request(req[call.kind], TRUE)
  <2>2. job \in Jobs
    BY <2>1, RequestType DEF TypeInv
  <2>3. \/ /\ Push(call.kind, job)
           /\ req' = [req EXCEPT ![call.kind] = NoReq[call.kind]]
           /\ done' = [done EXCEPT !.accepted = @ \cup {call.s}]
           /\ call' = Idle
        \/ Goto("fail") /\ UNCHANGED <<gpu, req, done>>
    BY <1>15 DEF Signal
  <2> HIDE DEF job
  <2>4. call' \in InitCall \cup SubmitCall
    <3>1. [call EXCEPT !.pc = "fail"] \in SubmitCall
      BY <2>1 DEF SubmitCall, SubmitLabels
    <3>2. QED
      BY <2>3, <3>1, IdleType DEF Goto
  <2>5. req' \in [Kinds -> [point : 0 .. MaxUploads, after : 0 .. MaxSubmits, work : 0 .. 2]]
    BY <2>1, <2>3, JobTypes DEF TypeInv
  <2>6. done' \in [signalled : SUBSET Submits, accepted : SUBSET Submits,
                   ran : [Submits -> Nat], want : [Submits -> 0 .. 2]]
    <3>1. CASE done' = done
      BY <3>1, Types
    <3>2. CASE done' = [done EXCEPT !.accepted = done.accepted \cup {call.s}]
      BY <2>1, <3>2, Types
    <3>3. QED
      BY <2>3, <3>1, <3>2
  <2>7. gpu' \in [Contexts -> Seq(Jobs)]
    BY <2>1, <2>2, <2>3, Pushed DEF TypeInv, Kinds, Contexts
  <2>8. QED
    BY <1>15, <2>4, <2>5, <2>6, <2>7 DEF Signal, TypeInv
<1>16. CASE SubmitFails
  BY <1>16, IdleType DEF SubmitFails, TypeInv
<1>17. CASE Grow
  <2>1. PICK t \in Names, m \in Optional :
          /\ table[t].count < MaxCount
          /\ table' = [table EXCEPT ![t] = [mem |-> m, count |-> @.count + 1]]
          /\ refs' = IF m = table[t].mem THEN refs ELSE Unref(Ref(refs, m), table[t].mem)
          /\ UNCHANGED <<drains, queue, call, req, upload, gpu, engine, done>>
    BY <1>17, RefTypes DEF Grow, Free, Optional
  <2>3. refs' \in [Mems -> Int]
    BY <2>1, RefTypes DEF TypeInv
  <2>4. table' \in QueueState
    BY <2>1, Bounds DEF TypeInv, QueueState, TableState
  <2>5. QED
    BY <2>1, <2>3, <2>4 DEF TypeInv
<1>18. CASE AskUpload
  <2>1. upload' \in [asked : 0 .. MaxUploads, submitted : 0 .. MaxUploads,
                     done : 0 .. MaxUploads, fill : Optional]
    <3>1. upload.asked + 1 \in 0 .. MaxUploads /\ upload' = [upload EXCEPT !.asked = upload.asked + 1]
      BY <1>18, Numbers, Types DEF AskUpload
    <3>2. QED
      BY <3>1, Types
  <2>2. QED
    BY <1>18, <2>1 DEF AskUpload, TypeInv
<1>19. ASSUME NEW c \in Contexts, GpuStep(c) PROVE TypeInv'
  <2> DEFINE job == Head(gpu[c])
  <2>1. gpu[c] # <<>> /\ gpu' = [gpu EXCEPT ![c] = Tail(@)]
    BY <1>19 DEF GpuStep, Running
  <2>2. gpu' \in [Contexts -> Seq(Jobs)] /\ job \in Jobs
    BY <2>1, Popped DEF TypeInv
  <2>3. /\ upload' = IF job.kind = "upload" THEN [upload EXCEPT !.done = job.point] ELSE upload
        /\ engine' = IF job.kind = "tables" THEN job.need ELSE engine
        /\ done' = IF job.s = 0 THEN done
                   ELSE [done EXCEPT !.ran[job.s] = @ + job.work,
                                     !.signalled = IF job.signal THEN @ \cup {job.s} ELSE @]
        /\ UNCHANGED <<drains, table, refs, queue, call, req>>
    BY <1>19 DEF GpuStep
  <2> HIDE DEF job
  <2>4. job.point \in 0 .. MaxUploads /\ job.need \in QueueState /\ job.work \in Nat
        /\ (job.s # 0 => job.s \in Submits)
    BY <2>2, Bounds DEF Jobs, Submits
  <2>5. upload' \in [asked : 0 .. MaxUploads, submitted : 0 .. MaxUploads,
                     done : 0 .. MaxUploads, fill : Optional]
    BY <2>3, <2>4 DEF TypeInv
  <2>6. done' \in [signalled : SUBSET Submits, accepted : SUBSET Submits,
                   ran : [Submits -> Nat], want : [Submits -> 0 .. 2]]
    <3>1. CASE job.s = 0
      BY <2>3, <3>1, Types
    <3>2. CASE job.s # 0
      <4>1. job.s \in Submits /\ done.ran[job.s] + job.work \in Nat
        BY <2>4, <3>2, Types
      <4>2. done' = [done EXCEPT !.ran = [done.ran EXCEPT ![job.s] = done.ran[job.s] + job.work],
                                 !.signalled = IF job.signal THEN done.signalled \cup {job.s}
                                               ELSE done.signalled]
        BY <2>3, <3>2
      <4>3. QED
        BY <4>1, <4>2, Types
    <3>3. QED
      BY <3>1, <3>2
  <2>7. QED
    BY <2>2, <2>3, <2>4, <2>5, <2>6 DEF TypeInv
<1>20. CASE UNCHANGED vars
  BY <1>20 DEF vars, TypeInv
<1>21. DOMAIN gpu = Contexts
  BY DEF TypeInv
<1>22. QED
  BY <1>1, <1>2, <1>3, <1>4, <1>5, <1>6, <1>7, <1>8, <1>9, <1>10, <1>11, <1>12, <1>13, <1>14,
     <1>15, <1>16, <1>17, <1>18, <1>19, <1>20, <1>21 DEF Next, QueueCall, SubmitStep

(* Every step keeps what the phases say. *)
LEMMA PhaseStep == TypeInv /\ PhaseInv /\ CallInv /\ UploadInv /\ [Next]_vars => PhaseInv'
<1> SUFFICES ASSUME TypeInv, PhaseInv, CallInv, UploadInv, [Next]_vars PROVE PhaseInv'
  OBVIOUS
<1>1. CASE InitBegin
  <2>1. NoneInv /\ call = Idle
    BY <1>1 DEF InitBegin, PhaseInv, NoneInv
  <2>2. /\ queue' = [NoQueue EXCEPT !.phase = "init"] /\ call' = [Idle EXCEPT !.pc = "create_exec_ctx"]
        /\ UNCHANGED <<table, req, upload, gpu, engine, done>>
    BY <1>1, <2>1 DEF InitBegin, Goto
  <2>3. call' \in InitCall /\ call'.pc = "create_exec_ctx" /\ call'.push = NoMem
    BY <2>2, Bounds DEF Idle, InitCall, InitLabels
  <2>4. /\ queue'.phase = "init" /\ queue'.state = NoTables /\ ~queue'.lost
        /\ queue'.submits = 0 /\ queue'.cb0 = NoMem
    BY <2>2 DEF NoQueue
  <2>5. InitInv'
    BY <2>1, <2>2, <2>3, <2>4 DEF NoneInv, InitInv, NoUpload, InitLabels, Contexts
  <2>6. QED
    BY <2>3, <2>4, <2>5 DEF PhaseInv
<1>2. ASSUME InitInv, call' \in InitCall, queue.phase = "init", queue'.phase = "init",
             call'.pc \in InitLabels \cup {"sync"}, call'.pc \notin {"create_exec_ctx", "alloc_cb0"},
             call'.pc = "fill_cb0" => upload' = NoUpload,
             queue'.state = queue.state, queue'.lost = queue.lost, queue'.submits = queue.submits,
             queue'.cb0 = NoMem <=> call'.pc \in {"fail_exec_ctx", "fail_init"},
             (upload' = upload /\ queue'.cb0 = queue.cb0) \/ upload'.fill \in {NoMem, queue'.cb0},
             upload'.submitted = upload.submitted, upload'.done = upload.done,
             UNCHANGED <<table, req, engine, done>>,
             gpu'["bind"] = <<>>, gpu'["upload"] = <<>>,
             call'.pc # "sync" => gpu'["exec"] = <<>>,
             \A i \in 1 .. Len(gpu'["exec"]) : gpu'["exec"][i] = Job("init"),
             call'.push # NoMem <=> call'.pc = "sync"
      PROVE  PhaseInv'
  <2>1. InitInv'
    BY <1>2 DEF InitInv
  <2>2. call'.pc # "finish"
    BY <1>2 DEF InitLabels
  <2>3. QED
    BY <1>2, <2>1, <2>2 DEF PhaseInv, InitInv
<1>3. CASE CreateExecCtx
  <2>1. call.pc = "create_exec_ctx" /\ UNCHANGED <<table, refs, queue, req, upload, gpu, engine, done>>
        /\ (Goto("alloc_cb0") \/ Goto("fail_init"))
    BY <1>3 DEF CreateExecCtx, At
  <2>2. InitInv /\ queue.phase = "init" /\ call \in InitCall
    BY <2>1, PhaseFacts DEF InitLabels
  <2>3. call' \in InitCall /\ call'.pc \in {"alloc_cb0", "fail_init"} /\ call'.push = call.push
    BY <2>1, <2>2 DEF Goto, InitCall, InitLabels
  <2>4. InitInv'
    BY <2>1, <2>2, <2>3 DEF InitInv, InitLabels
  <2>5. QED
    BY <2>1, <2>2, <2>3, <2>4 DEF PhaseInv, InitInv
<1>4. CASE AllocCb0
  <2>1. call.pc = "alloc_cb0" /\ UNCHANGED <<table, req, upload, gpu, engine, done>>
    BY <1>4 DEF AllocCb0, At
  <2>2. InitInv /\ queue.phase = "init" /\ call \in InitCall /\ call.push = NoMem /\ upload = NoUpload
    BY <2>1, PhaseFacts DEF InitLabels, PhaseInv, InitInv
  <2>3. \/ \E m \in Mems : queue' = [queue EXCEPT !.cb0 = m] /\ Goto("fill_cb0")
        \/ Goto("fail_exec_ctx") /\ UNCHANGED queue
    BY <1>4 DEF AllocCb0, Free
  <2>4. /\ call' \in InitCall /\ call'.pc \in {"fill_cb0", "fail_exec_ctx"} /\ call'.push = NoMem
        /\ queue'.phase = "init" /\ queue'.state = queue.state /\ queue'.lost = queue.lost
        /\ queue'.submits = queue.submits
        /\ queue'.cb0 = NoMem <=> call'.pc = "fail_exec_ctx"
    <3>1. CASE \E m \in Mems : queue' = [queue EXCEPT !.cb0 = m] /\ Goto("fill_cb0")
      <4>1. PICK m \in Mems : queue' = [queue EXCEPT !.cb0 = m] /\ Goto("fill_cb0")
        BY <3>1
      <4>2. call' \in InitCall /\ call'.pc = "fill_cb0" /\ call'.push = NoMem
        BY <2>2, <4>1 DEF Goto, InitCall, InitLabels
      <4>3. QED
        BY <2>2, <4>1, <4>2, Types, Bounds
    <3>2. CASE Goto("fail_exec_ctx") /\ UNCHANGED queue
      <4>1. call' \in InitCall /\ call'.pc = "fail_exec_ctx" /\ call'.push = NoMem
        BY <2>2, <3>2 DEF Goto, InitCall, InitLabels
      <4>2. QED
        BY <2>1, <2>2, <3>2, <4>1 DEF InitInv
    <3>3. QED
      BY <2>3, <3>1, <3>2
  <2>5. QED
    BY <1>2, <2>1, <2>2, <2>4 DEF InitInv, NoUpload, InitLabels
<1>5. CASE FillCb0
  <2>1. call.pc = "fill_cb0" /\ UNCHANGED <<table, refs, queue, req, gpu, engine, done>>
    BY <1>5 DEF FillCb0, At
  <2>2. InitInv /\ queue.phase = "init" /\ call \in InitCall /\ call.push = NoMem
    BY <2>1, PhaseFacts DEF InitLabels, PhaseInv, InitInv
  <2>3. \/ upload' = [upload EXCEPT !.asked = @ + 1, !.fill = queue.cb0] /\ Goto("create_bind_ctx")
        \/ upload' = upload /\ Goto("fail_draw_cb0")
    BY <1>5 DEF FillCb0
  <2>4. /\ upload'.submitted = upload.submitted /\ upload'.done = upload.done
        /\ upload'.fill \in {NoMem, queue.cb0}
    BY <2>2, <2>3, Types DEF InitInv
  <2>5. call' \in InitCall /\ call'.pc \in {"create_bind_ctx", "fail_draw_cb0"} /\ call'.push = NoMem
    BY <2>2, <2>3 DEF Goto, InitCall, InitLabels
  <2>6. QED
    BY <1>2, <2>1, <2>2, <2>4, <2>5 DEF InitInv, InitLabels
<1>6. CASE CreateBindCtx
  <2>1. /\ call.pc = "create_bind_ctx" /\ UNCHANGED <<table, refs, queue, req, upload, gpu, engine, done>>
        /\ Goto("context_state") \/ Goto("fail_draw_cb0")
    BY <1>6 DEF CreateBindCtx, At
  <2>2. InitInv /\ queue.phase = "init" /\ call \in InitCall /\ call.push = NoMem
    BY <2>1, PhaseFacts DEF InitLabels, PhaseInv, InitInv
  <2>3. call' \in InitCall /\ call'.pc \in {"context_state", "fail_draw_cb0"} /\ call'.push = NoMem
    BY <2>1, <2>2 DEF Goto, InitCall, InitLabels
  <2>4. QED
    BY <1>2, <2>1, <2>2, <2>3 DEF InitInv, InitLabels
<1>7. CASE ContextState
  <2>1. call.pc = "context_state" /\ UNCHANGED <<table, queue, req, upload, engine, done>>
    BY <1>7 DEF ContextState, At
  <2>2. InitInv /\ queue.phase = "init" /\ call \in InitCall /\ call.push = NoMem
        /\ gpu["exec"] = <<>> /\ queue.cb0 # NoMem
    BY <2>1, PhaseFacts DEF InitLabels, PhaseInv, InitInv
  <2>3. Job("init") \in Jobs /\ SubmitSimple(Job("init"), "fail_bind_ctx")
    BY <1>7, JobTypes DEF ContextState
  <2>4. CASE \E m \in Mems : call' = [call EXCEPT !.push = m, !.pc = "sync"] /\ Push("exec", Job("init"))
    <3>1. call' \in InitCall /\ call'.pc = "sync" /\ call'.push # NoMem
      BY <2>2, <2>4, Bounds DEF InitCall, Optional
    <3>2. /\ Len(gpu["exec"]) = 0
          /\ Len(gpu'["exec"]) = 1 /\ gpu'["exec"][1] = Job("init")
          /\ gpu'["bind"] = gpu["bind"] /\ gpu'["upload"] = gpu["upload"]
      <4>1. Len(gpu["exec"]) = 0
        BY <2>2, EmptySeq
      <4> DEFINE job == Job("init")
      <4>2. job \in Jobs /\ Push("exec", job) /\ "exec" \in Contexts
        BY <2>3, <2>4 DEF Contexts
      <4> HIDE DEF job
      <4>3. /\ Len(gpu'["exec"]) = Len(gpu["exec"]) + 1
            /\ gpu'["exec"][Len(gpu["exec"]) + 1] = job
            /\ \A d \in Contexts : d # "exec" => gpu'[d] = gpu[d]
        BY <4>2, Pushed, Types
      <4>4. QED
        BY <4>1, <4>3 DEF Contexts, job
    <3>3. \A i \in 1 .. Len(gpu'["exec"]) : gpu'["exec"][i] = Job("init")
      BY <3>2
    <3>4. QED
      BY <1>2, <2>1, <2>2, <3>1, <3>2, <3>3 DEF InitInv, InitLabels
  <2>5. CASE call' = [call EXCEPT !.pc = "fail_bind_ctx"] /\ UNCHANGED gpu
    <3>1. call' \in InitCall /\ call'.pc = "fail_bind_ctx" /\ call'.push = NoMem
      BY <2>2, <2>5 DEF InitCall, InitLabels
    <3>2. QED
      BY <1>2, <2>1, <2>2, <2>5, <3>1 DEF InitInv, InitLabels
  <2>6. QED
    BY <2>3, <2>4, <2>5, SubmitSimpleEffects
<1>8. CASE ContextSync
  <2>1. call.pc = "sync" /\ queue.phase = "init" /\ gpu["exec"] = <<>>
        /\ UNCHANGED <<table, req, upload, gpu, engine, done>>
    BY <1>8 DEF ContextSync, Synced, At
  <2>2. InitInv /\ call \in InitCall
    BY <2>1 DEF PhaseInv, InitInv
  <2>3. PICK pc \in {"idle", "fail_bind_ctx"} :
          /\ call' = [call EXCEPT !.push = NoMem, !.pc = pc]
          /\ queue' = [queue EXCEPT !.phase = IF call'.pc = "idle" THEN "up" ELSE @]
    BY <1>8 DEF ContextSync, Synced
  <2>4. call' \in InitCall /\ call'.pc = pc /\ call'.push = NoMem
    BY <2>2, <2>3, Bounds DEF InitCall, InitLabels
  <2>5. /\ queue'.phase = IF pc = "idle" THEN "up" ELSE "init"
        /\ queue'.state = queue.state /\ queue'.lost = queue.lost
        /\ queue'.submits = queue.submits /\ queue'.cb0 = queue.cb0
    BY <2>1, <2>3, <2>4, Types
  <2>6. CASE pc = "idle"
    BY <2>1, <2>2, <2>4, <2>5, <2>6 DEF PhaseInv, InitInv
  <2>7. CASE pc = "fail_bind_ctx"
    BY <1>2, <2>1, <2>2, <2>4, <2>5, <2>7 DEF InitInv, InitLabels
  <2>8. QED
    BY <2>6, <2>7
<1>9. CASE InitFails
  <2>1. call.pc \in InitLabels \ {"create_exec_ctx", "alloc_cb0"} /\ queue' = NoQueue /\ call' = Idle
        /\ upload' = NoUpload /\ table' = NoTables /\ UNCHANGED <<req, gpu, engine, done>>
    BY <1>9 DEF InitFails, At, InitLabels
  <2>2. InitInv
    BY <2>1, PhaseFacts
  <2>3. call.pc # "sync"
    BY <2>1 DEF InitLabels
  <2>4. NoneInv'
    BY <2>1, <2>2, <2>3 DEF NoneInv, InitInv, Contexts
  <2>5. QED
    BY <2>1, <2>4 DEF PhaseInv, NoQueue, Idle
<1>10. CASE Finish
  <2>1. call.pc = "finish" /\ upload.done = upload.submitted /\ queue' = NoQueue /\ call' = Idle
        /\ upload' = NoUpload /\ table' = NoTables /\ req' = NoReq /\ engine' = NoTables
        /\ done' = NoDone /\ gpu' = gpu
    BY <1>10 DEF Finish, At, UploadsSynced
  <2>2. gpu["exec"] = <<>> /\ gpu["bind"] = <<>>
    BY <2>1 DEF PhaseInv
  <2>3. gpu["upload"] = <<>>
    <3> DEFINE jobs == gpu["upload"]
    <3>1. jobs \in Seq(Jobs) /\ upload.done \in Int /\ upload.submitted \in Int
      BY Types, Numbers DEF Contexts
    <3>2. SUFFICES ASSUME jobs # <<>> PROVE FALSE
      OBVIOUS
    <3>3. Len(jobs) \in 1 .. Len(jobs)
      BY <3>1, <3>2, EmptySeq
    <3>4. jobs[Len(jobs)].point = upload.submitted /\ upload.done < jobs[Len(jobs)].point
      BY <3>2, <3>3 DEF UploadInv
    <3>5. QED
      BY <2>1, <3>1, <3>4
  <2>4. NoneInv'
    BY <2>1, <2>2, <2>3 DEF NoneInv, Contexts
  <2>5. QED
    BY <2>1, <2>4 DEF PhaseInv, NoQueue, Idle
<1>11. ASSUME queue'.phase = "up",
              \/ call' \in SubmitCall
              \/ call' \in InitCall /\ call'.pc \in {"idle", "finish"},
              call'.pc = "finish" => gpu'["exec"] = <<>> /\ gpu'["bind"] = <<>>,
              call'.push # NoMem <=> call'.pc = "sync",
              queue'.lost => call'.pc \in {"idle", "finish"}
       PROVE  PhaseInv'
  BY <1>11 DEF PhaseInv
<1>12. CASE FinishBegin
  <2>1. call.pc = "idle" /\ queue.phase = "up" /\ gpu["exec"] = <<>> /\ gpu["bind"] = <<>>
        /\ queue' = queue /\ Flush /\ call' = [call EXCEPT !.pc = "finish"]
    BY <1>12 DEF FinishBegin, At, Goto
  <2>2. call \in InitCall /\ call.push = NoMem
    BY <2>1, Bounds DEF PhaseInv, TypeInv, InitCall, SubmitCall, SubmitLabels
  <2>3. call' \in InitCall /\ call'.pc = "finish" /\ call'.push = NoMem
    BY <2>1, <2>2 DEF InitCall
  <2>4. gpu'["exec"] = gpu["exec"] /\ gpu'["bind"] = gpu["bind"]
    <3>1. CASE UNCHANGED gpu
      BY <3>1
    <3>2. CASE \E job \in Jobs : Push("upload", job)
      BY <3>2, Pushed, Types DEF Contexts
    <3>3. QED
      BY <2>1, <3>1, <3>2, FlushEffects
  <2>5. QED
    BY <1>11, <2>1, <2>3, <2>4
<1>13. CASE Submit
  <2>1. PICK kind \in Kinds, n \in 0 .. 2, after \in 0 .. queue.submits :
          call' = IF queue.lost THEN Idle ELSE Submission(kind, n, after)
    BY <1>13 DEF Submit, Kinds
  <2>2. queue.phase = "up" /\ queue' = [queue EXCEPT !.submits = @ + 1]
    BY <1>13 DEF Submit
  <2>3. queue'.phase = "up" /\ queue'.lost = queue.lost
    BY <2>2, Types
  <2>4. CASE queue.lost
    BY <1>11, <2>1, <2>3, <2>4, IdleType DEF Idle
  <2>5. CASE ~queue.lost
    <3>1. call' = Submission(kind, n, after)
      BY <2>1, <2>5
    <3>2. call'.push = NoMem /\ call'.pc \in Names \cup {"wait"}
      BY <3>1, Bounds DEF Submission
    <3>3. call' \in SubmitCall
      <4>1. TypeInv'
        BY TypeStep
      <4>2. call'.pc \notin InitLabels \cup {"idle", "sync", "finish"}
        BY <3>2, Bounds DEF InitLabels
      <4>3. QED
        BY <4>1, <4>2 DEF TypeInv, InitCall
    <3>4. QED
      BY <1>11, <2>3, <2>5, <3>2, <3>3, Bounds
  <2>6. QED
    BY <2>4, <2>5
(* A step within a submission. *)
<1>14. ASSUME call.pc \in Names \cup SubmitLabels \cup {"sync"}, Submitting,
              queue'.phase = queue.phase, queue'.lost = queue.lost, DOMAIN call' = DOMAIN call,
              call'.pc \in Names \cup SubmitLabels \cup {"sync"},
              call'.push # NoMem <=> call'.pc = "sync"
       PROVE  PhaseInv'
  <2>1. TypeInv' /\ queue'.phase = "up" /\ ~queue.lost
    BY <1>14, TypeStep, PhaseFacts, Bounds DEF Submitting, PhaseInv, SubmitLabels
  <2>2. call' \in SubmitCall
    <3>1. "s" \in DOMAIN call'
      BY <1>14 DEF Submitting, SubmitCall
    <3>2. call' \notin InitCall
      BY <3>1 DEF InitCall
    <3>3. QED
      BY <2>1, <3>2 DEF TypeInv
  <2>3. call'.pc # "finish"
    BY <1>14, Bounds DEF SubmitLabels
  <2>4. QED
    BY <1>11, <1>14, <2>1, <2>2, <2>3
<1>15. CASE UpdateTable
  <2>1. PICK t \in Names :
          /\ call.pc = t /\ queue' = [queue EXCEPT !.state[t] = IF Changed(t) THEN table[t] ELSE @]
          /\ call' = [call EXCEPT !.dirty = @ \/ Changed(t), !.pc = NextTable(t)]
    BY <1>15 DEF UpdateTable, At
  <2>2. Submitting /\ call.push = NoMem
    BY <2>1, PhaseFacts, Bounds DEF PhaseInv
  <2>3. /\ call'.pc = NextTable(t) /\ call'.push = call.push /\ DOMAIN call' = DOMAIN call
        /\ queue'.phase = queue.phase /\ queue'.lost = queue.lost
    BY <2>1, <2>2, Types DEF Submitting, SubmitCall
  <2>4. NextTable(t) \in Names \cup SubmitLabels /\ NextTable(t) # "sync"
    BY Bounds, NextTableFacts DEF SubmitLabels
  <2>5. QED
    BY <1>14, <2>1, <2>2, <2>3, <2>4
<1>16. CASE Install
  <2>1. call.pc = "install" /\ queue' = queue
        /\ \/ SubmitSimple([Job("tables") EXCEPT !.need = queue.state], "fail")
           \/ call' = [call EXCEPT !.pc = "flush"]
    BY <1>16 DEF Install, At, Goto
  <2>2. Submitting /\ call.push = NoMem
    BY <2>1, PhaseFacts DEF PhaseInv, SubmitLabels
  <2>3. \/ \E m \in Mems : call' = [call EXCEPT !.push = m, !.pc = "sync"]
        \/ call' = [call EXCEPT !.pc = "flush"]
        \/ call' = [call EXCEPT !.pc = "fail"]
    <3>1. [Job("tables") EXCEPT !.need = queue.state] \in Jobs
      BY JobTypes, Types
    <3>2. QED
      BY <2>1, <3>1, SubmitSimpleEffects
  <2>4. /\ DOMAIN call' = DOMAIN call /\ call'.pc \in SubmitLabels \cup {"sync"}
        /\ call'.push # NoMem <=> call'.pc = "sync"
    BY <2>2, <2>3, Bounds, ZenonT(60) DEF Submitting, SubmitCall, SubmitLabels
  <2>5. QED
    BY <1>14, <2>1, <2>2, <2>4 DEF SubmitLabels
<1>17. CASE InstallSync
  <2>1. call.pc = "sync" /\ queue.phase = "up" /\ queue' = queue
        /\ \E pc \in {"flush", "fail"} : call' = [call EXCEPT !.push = NoMem, !.pc = pc]
    BY <1>17 DEF InstallSync, Synced, At
  <2>2. Submitting
    BY <2>1, PhaseFacts
  <2>3. DOMAIN call' = DOMAIN call /\ call'.pc \in {"flush", "fail"} /\ call'.push = NoMem
    BY <2>1, <2>2 DEF Submitting, SubmitCall
  <2>4. QED
    BY <1>14, <2>1, <2>2, <2>3 DEF SubmitLabels
<1>18. ASSUME FlushUploads \/ Wait \/ Work PROVE PhaseInv'
  <2>1. call.pc \in {"flush", "wait", "work"} /\ queue' = queue
    BY <1>18 DEF FlushUploads, Wait, Work, At
  <2>2. Submitting /\ call.push = NoMem
    BY <2>1, PhaseFacts DEF PhaseInv, SubmitLabels
  <2>3. DOMAIN call' = DOMAIN call /\ call'.pc \in {"wait", "work", "signal", "fail"} /\ call'.push = NoMem
    BY <1>18, <2>2 DEF Submitting, SubmitCall, FlushUploads, Wait, Work, WorkFails, AfterWait, Goto
  <2>4. QED
    BY <1>14, <2>1, <2>2, <2>3 DEF SubmitLabels
<1>19. CASE Signal
  <2>1. call.pc = "signal" /\ queue' = queue /\ (call' = Idle \/ call' = [call EXCEPT !.pc = "fail"])
    BY <1>19 DEF Signal, At, Goto
  <2>2. Submitting /\ call.push = NoMem /\ ~queue.lost
    BY <2>1, PhaseFacts DEF PhaseInv, SubmitLabels
  <2>3. CASE call' = Idle
    BY <1>11, <2>1, <2>2, <2>3, IdleType DEF Idle, Submitting
  <2>4. CASE call' = [call EXCEPT !.pc = "fail"]
    <3>1. DOMAIN call' = DOMAIN call /\ call'.pc = "fail" /\ call'.push = NoMem
      BY <2>2, <2>4 DEF Submitting, SubmitCall
    <3>2. QED
      BY <1>14, <2>1, <2>2, <3>1 DEF SubmitLabels
  <2>5. QED
    BY <2>1, <2>3, <2>4
<1>20. CASE SubmitFails
  <2>1. call.pc = "fail" /\ queue' = [queue EXCEPT !.lost = TRUE] /\ call' = Idle
    BY <1>20 DEF SubmitFails, At
  <2>2. queue'.phase = "up"
    BY <2>1, PhaseFacts, Types DEF SubmitLabels
  <2>3. QED
    BY <1>11, <2>1, <2>2, IdleType DEF Idle
<1>21. ASSUME Grow \/ AskUpload PROVE PhaseInv'
  BY <1>21 DEF Grow, AskUpload, PhaseInv
<1>22. ASSUME NEW c \in Contexts, GpuStep(c) PROVE PhaseInv'
  <2>1. /\ gpu[c] # <<>> /\ gpu' = [gpu EXCEPT ![c] = Tail(@)]
        /\ UNCHANGED <<table, queue, call, req>>
    BY <1>22 DEF GpuStep, Running
  <2>2. queue.phase # "none"
    BY <2>1 DEF PhaseInv, NoneInv
  <2>3. CASE queue.phase = "up"
    <3>1. call.pc = "finish" => gpu'["exec"] = gpu["exec"] /\ gpu'["bind"] = gpu["bind"]
      BY <2>1, Types DEF PhaseInv, Contexts
    <3>2. QED
      BY <1>11, <2>1, <2>3, <3>1 DEF PhaseInv
  <2>4. CASE queue.phase = "init"
    <3>1. InitInv
      BY <2>4 DEF PhaseInv
    <3>2. c = "exec"
      BY <2>1, <3>1 DEF InitInv, Contexts
    <3>3. /\ Len(gpu["exec"]) \in Nat /\ Len(gpu["exec"]) > 0
          /\ Len(gpu'["exec"]) = Len(gpu["exec"]) - 1 /\ Head(gpu["exec"]) = gpu["exec"][1]
          /\ \A i \in 1 .. Len(gpu'["exec"]) : gpu'["exec"][i] = gpu["exec"][i + 1]
          /\ gpu'["bind"] = gpu["bind"] /\ gpu'["upload"] = gpu["upload"]
      BY <2>1, <3>2, Popped, Types DEF Contexts
    <3>4. Head(gpu["exec"]) = Job("init")
      BY <3>1, <3>3 DEF InitInv
    <3>5. UNCHANGED <<upload, engine, done>>
      BY <1>22, <3>2, <3>4 DEF GpuStep, Job
    <3>6. \A i \in 1 .. Len(gpu'["exec"]) : gpu'["exec"][i] = Job("init")
      BY <3>1, <3>3 DEF InitInv
    <3>7. call.pc = "sync"
      BY <2>1, <3>1, <3>2 DEF InitInv
    <3>8. InitInv'
      BY <2>1, <3>1, <3>3, <3>5, <3>6, <3>7 DEF InitInv
    <3>9. QED
      BY <2>1, <2>4, <3>7, <3>8 DEF PhaseInv
  <2>5. QED
    BY <2>2, <2>3, <2>4, PhaseFacts
<1>23. CASE UNCHANGED vars
  BY <1>23 DEF vars, PhaseInv, NoneInv, InitInv
<1>24. DOMAIN gpu = Contexts
  BY DEF TypeInv
<1>25. QED
  BY <1>1, <1>3, <1>4, <1>5, <1>6, <1>7, <1>8, <1>9, <1>10, <1>12, <1>13, <1>15, <1>16, <1>17,
     <1>18, <1>19, <1>20, <1>21, <1>22, <1>23, <1>24 DEF Next, QueueCall, SubmitStep

-----------------------------------------------------------------------------
(***************************************************************************)
(* References.  RefsExact is inductive as it stands, given the phases: what *)
(* is left is to count holders.                                            *)
(***************************************************************************)
One(x, m) == IF x = m THEN 1 ELSE 0

(* The holders of a memory, summed by where they are. *)
LEMMA HoldersCounted ==
  \A m : Holders(m) = Count(table, m) + Count(queue.state, m) + One(queue.cb0, m) + One(call.push, m)
BY DEF Holders, Count, One

(* A reference taken or dropped, seen at one memory. *)
LEMMA RefAt ==
  ASSUME NEW r \in [Mems -> Int], NEW x \in Optional, NEW m \in Mems
  PROVE  /\ Ref(r, x)[m] = r[m] + One(x, m) /\ Unref(r, x)[m] = r[m] - One(x, m)
         /\ Ref(r, x) \in [Mems -> Int] /\ Unref(r, x) \in [Mems -> Int]
BY Bounds DEF Ref, Unref, One, Optional

(* Tables that were never made hold nothing. *)
LEMMA CountNone == \A m \in Mems : Count(NoTables, m) = 0
<1>1. \A m \in Mems : {t \in Names : NoTables[t].mem = m} = {}
  BY Bounds DEF NoTables
<1>2. QED
  BY <1>1, FS_EmptySet DEF Count

(* A table that gets another memory moves one reference. *)
LEMMA CountChanged ==
  ASSUME NEW f \in QueueState, NEW t \in Names, NEW v \in TableState, NEW m \in Mems
  PROVE  Count([f EXCEPT ![t] = v], m) = Count(f, m) - One(f[t].mem, m) + One(v.mem, m)
<1> DEFINE g == [f EXCEPT ![t] = v]
           A == {u \in Names \ {t} : f[u].mem = m}
<1>1. /\ {u \in Names : f[u].mem = m} = IF f[t].mem = m THEN A \cup {t} ELSE A
      /\ {u \in Names : g[u].mem = m} = IF v.mem = m THEN A \cup {t} ELSE A
  BY DEF QueueState
<1>2. IsFiniteSet(A)
  <2>1. A \in SUBSET Names
    OBVIOUS
  <2>2. QED
    BY <2>1, NamesFinite, FS_Subset
<1>3. t \notin A
  OBVIOUS
<1>4. Cardinality(A \cup {t}) = Cardinality(A) + 1 /\ Cardinality(A) \in Nat
  <2> HIDE DEF A
  <2>1. QED
    BY <1>2, <1>3, FS_AddElement, FS_CardinalityType
<1> HIDE DEF A, g
<1>5. /\ Count(f, m) = Cardinality(A) + One(f[t].mem, m)
      /\ Count(g, m) = Cardinality(A) + One(v.mem, m)
  <2>1. /\ Count(f, m) = Cardinality(IF f[t].mem = m THEN A \cup {t} ELSE A)
        /\ Count(g, m) = Cardinality(IF v.mem = m THEN A \cup {t} ELSE A)
    BY <1>1 DEF Count
  <2>2. QED
    BY <2>1, <1>4 DEF One
<1>6. One(f[t].mem, m) \in {0, 1} /\ One(v.mem, m) \in {0, 1}
  BY DEF One
<1>7. Count(g, m) = Count(f, m) - One(f[t].mem, m) + One(v.mem, m)
  BY <1>4, <1>5, <1>6
<1>8. QED
  BY <1>7 DEF g

(* What finishing the tables drops, seen at one memory. *)
LEMMA StateFinishAt ==
  ASSUME NEW r \in [Mems -> Int], NEW m \in Mems
  PROVE  StateFinish(r)[m] = r[m] - Count(queue.state, m) - Count(table, m)
BY DEF StateFinish, Count

(* Every step keeps the references counted, its failures included. *)
LEMMA RefsStep == TypeInv /\ PhaseInv /\ RefsExact /\ [Next]_vars => RefsExact'
<1> SUFFICES ASSUME TypeInv, PhaseInv, RefsExact, [Next]_vars, NEW m \in Mems
             PROVE  refs'[m] = Holders(m)'
  BY DEF RefsExact
<1> DEFINE T == Count(table, m)
           S == Count(queue.state, m)
<1>1. /\ refs[m] = T + S + One(queue.cb0, m) + One(call.push, m)
      /\ T \in Nat /\ S \in Nat
  BY HoldersCounted, CountFacts DEF RefsExact
<1>2. Holders(m)' = Count(table', m) + Count(queue'.state, m) + One(queue'.cb0, m) + One(call'.push, m)
  BY DEF Holders, Count, One
<1>3. One(NoMem, m) = 0 /\ \A x : One(x, m) \in {0, 1}
  BY Bounds DEF One
<1> HIDE DEF T, S
<1>0. refs \in [Mems -> Int]
  BY Types
<1>4. ASSUME refs' = refs, Count(table', m) = T, Count(queue'.state, m) = S,
             queue'.cb0 = queue.cb0, call'.push = call.push
      PROVE  refs'[m] = Holders(m)'
  BY <1>1, <1>2, <1>4
<1>5. CASE InitBegin
  <2>1. NoneInv
    BY <1>5 DEF InitBegin, PhaseInv
  <2>2. QED
    BY <1>4, <1>5, <2>1 DEF InitBegin, NoneInv, Goto, NoQueue, Idle, T, S
<1>6. ASSUME CreateExecCtx \/ FillCb0 \/ CreateBindCtx PROVE refs'[m] = Holders(m)'
  <2>1. call.pc \in InitLabels
    BY <1>6 DEF CreateExecCtx, FillCb0, CreateBindCtx, At, InitLabels
  <2>2. call \in InitCall
    BY <2>1, PhaseFacts
  <2>3. refs' = refs /\ table' = table /\ queue' = queue
    BY <1>6 DEF CreateExecCtx, FillCb0, CreateBindCtx
  <2>4. call'.push = call.push
    BY <1>6, <2>2 DEF CreateExecCtx, FillCb0, CreateBindCtx, Goto, InitCall
  <2>5. QED
    BY <1>4, <2>3, <2>4 DEF T, S
<1>7. CASE AllocCb0
  <2>1. call.pc = "alloc_cb0" /\ table' = table
    BY <1>7 DEF AllocCb0, At
  <2>2. call \in InitCall /\ queue.cb0 = NoMem
    BY <2>1, PhaseFacts DEF InitLabels, InitInv
  <2>3. CASE \E x \in Mems : refs' = Ref(refs, x) /\ queue' = [queue EXCEPT !.cb0 = x] /\ Goto("fill_cb0")
    <3>1. PICK x \in Mems : refs' = Ref(refs, x) /\ queue' = [queue EXCEPT !.cb0 = x] /\ Goto("fill_cb0")
      BY <2>3
    <3>2. call'.push = call.push /\ queue'.state = queue.state /\ queue'.cb0 = x
      BY <2>2, <3>1, Types DEF Goto, InitCall
    <3>3. refs'[m] = refs[m] + One(x, m)
      <4>1. x \in Optional
        BY DEF Optional
      <4>2. QED
        BY <1>0, <3>1, <4>1, RefAt
    <3>4. QED
      BY <1>1, <1>2, <1>3, <2>1, <2>2, <3>2, <3>3 DEF T, S
  <2>4. CASE Goto("fail_exec_ctx") /\ UNCHANGED <<queue, refs>>
    <3>1. call'.push = call.push
      BY <2>2, <2>4 DEF Goto, InitCall
    <3>2. QED
      BY <1>4, <2>1, <2>4, <3>1 DEF T, S
  <2>5. QED
    BY <1>7, <2>3, <2>4 DEF AllocCb0, Free
(* The words of a queue are taken and given back. *)
<1>8. ASSUME NEW job \in Jobs, NEW fail, SubmitSimple(job, fail), UNCHANGED <<table, queue>>,
             call.pc # "sync"
      PROVE  refs'[m] = Holders(m)'
  <2>1. call.push = NoMem
    BY <1>8 DEF PhaseInv
  <2>2. CASE \E x \in Mems : refs' = Ref(refs, x) /\ call' = [call EXCEPT !.push = x, !.pc = "sync"]
    <3>1. PICK x \in Mems : refs' = Ref(refs, x) /\ call' = [call EXCEPT !.push = x, !.pc = "sync"]
      BY <2>2
    <3>2. call'.push = x
      BY <3>1, Types DEF InitCall, SubmitCall
    <3>3. refs'[m] = refs[m] + One(x, m)
      <4>1. x \in Optional
        BY DEF Optional
      <4>2. QED
        BY <1>0, <3>1, <4>1, RefAt
    <3>4. QED
      BY <1>1, <1>2, <1>3, <1>8, <2>1, <3>2, <3>3 DEF T, S
  <2>3. CASE call' = [call EXCEPT !.pc = fail] /\ refs' = refs
    <3>1. call'.push = call.push
      BY <2>3, Types DEF InitCall, SubmitCall
    <3>2. QED
      BY <1>4, <1>8, <2>3, <3>1 DEF T, S
  <2>4. QED
    BY <1>8, <2>2, <2>3, SubmitSimpleEffects
<1>9. ASSUME ContextSync \/ InstallSync PROVE refs'[m] = Holders(m)'
  <2>1. /\ refs' = Unref(refs, call.push) /\ table' = table
        /\ \E pc : call' = [call EXCEPT !.push = NoMem, !.pc = pc]
        /\ queue' = queue \/ \E phase : queue' = [queue EXCEPT !.phase = phase]
    BY <1>9 DEF ContextSync, InstallSync, Synced
  <2>2. call'.push = NoMem /\ queue'.cb0 = queue.cb0 /\ queue'.state = queue.state
    BY <2>1, Types DEF InitCall, SubmitCall
  <2>3. refs'[m] = refs[m] - One(call.push, m)
    <3>1. call.push \in Optional
      BY RefTypes
    <3>2. QED
      BY <1>0, <2>1, <3>1, RefAt
  <2>4. QED
    BY <1>1, <1>2, <1>3, <2>1, <2>2, <2>3 DEF T, S
(* The end of a queue gives back all that it and the tables have. *)
<1>10. ASSUME NEW r \in [Mems -> Int], r[m] = refs[m] - One(queue.cb0, m), refs' = StateFinish(r),
              queue' = NoQueue, call' = Idle, table' = NoTables, call.push = NoMem
       PROVE  refs'[m] = Holders(m)'
  <2>1. refs'[m] = r[m] - S - T
    BY <1>10, StateFinishAt DEF S, T
  <2>2. Holders(m)' = 0
    BY <1>2, <1>3, <1>10, CountNone DEF NoQueue, Idle
  <2>3. QED
    BY <1>1, <1>3, <1>10, <2>1, <2>2
<1>11. CASE InitFails
  <2>1. PICK label \in {"fail_bind_ctx", "fail_draw_cb0", "fail_exec_ctx", "fail_init"} :
          call.pc = label /\ refs' = Undone(label)
    BY <1>11 DEF InitFails, At
  <2>2. queue' = NoQueue /\ call' = Idle /\ table' = NoTables
    BY <1>11 DEF InitFails
  <2>3. InitInv /\ call.push = NoMem
    BY <2>1, PhaseFacts DEF InitLabels, PhaseInv
  <2>4. CASE label \in {"fail_bind_ctx", "fail_draw_cb0"}
    <3>1. refs' = StateFinish(Unref(refs, queue.cb0))
      BY <2>1, <2>4 DEF Undone
    <3>2. Unref(refs, queue.cb0) \in [Mems -> Int] /\ Unref(refs, queue.cb0)[m] = refs[m] - One(queue.cb0, m)
      <4>1. queue.cb0 \in Optional
        BY RefTypes
      <4>2. QED
        BY <1>0, <4>1, RefAt
    <3>3. QED
      BY <1>10, <2>2, <2>3, <3>1, <3>2
  <2>5. CASE label \in {"fail_exec_ctx", "fail_init"}
    <3>1. refs' = StateFinish(refs) /\ queue.cb0 = NoMem
      BY <2>1, <2>3, <2>5 DEF Undone, InitInv
    <3>2. refs \in [Mems -> Int] /\ refs[m] = refs[m] - One(queue.cb0, m)
      BY <1>1, <1>3, <3>1, Types
    <3>3. QED
      BY <1>10, <2>2, <2>3, <3>1, <3>2
  <2>6. QED
    BY <2>4, <2>5
<1>12. CASE Finish
  <2>1. /\ refs' = StateFinish(Unref(refs, queue.cb0)) /\ call.pc = "finish"
        /\ queue' = NoQueue /\ call' = Idle /\ table' = NoTables
    BY <1>12 DEF Finish, At
  <2>2. call.push = NoMem
    BY <2>1 DEF PhaseInv
  <2>3. Unref(refs, queue.cb0) \in [Mems -> Int] /\ Unref(refs, queue.cb0)[m] = refs[m] - One(queue.cb0, m)
    <3>1. queue.cb0 \in Optional
      BY RefTypes
    <3>2. QED
      BY <1>0, <3>1, RefAt
  <2>4. QED
    BY <1>10, <2>1, <2>2, <2>3
<1>13. ASSUME FinishBegin \/ FlushUploads \/ Wait \/ Work \/ Signal \/ SubmitFails
       PROVE  refs'[m] = Holders(m)'
  <2>1. /\ refs' = refs /\ table' = table /\ queue'.cb0 = queue.cb0 /\ queue'.state = queue.state
    BY <1>13, Types DEF FinishBegin, FlushUploads, Wait, Work, Signal, SubmitFails
  <2>2. call'.push = call.push
    <3>1. CASE FinishBegin \/ FlushUploads \/ Wait \/ Work
      BY <3>1, Types DEF FinishBegin, FlushUploads, Wait, Work, WorkFails, Goto, InitCall, SubmitCall
    <3>2. CASE Signal \/ SubmitFails
      <4>1. call.pc # "sync"
        BY <3>2 DEF Signal, SubmitFails, At
      <4>2. call.push = NoMem
        BY <4>1 DEF PhaseInv
      <4>3. QED
        <5>1. call' = Idle \/ call' = [call EXCEPT !.pc = "fail"]
          BY <3>2 DEF Signal, SubmitFails, Goto
        <5>2. \A c \in InitCall \cup SubmitCall : [c EXCEPT !.pc = "fail"].push = c.push
          BY DEF InitCall, SubmitCall
        <5>3. call \in InitCall \cup SubmitCall /\ Idle.push = NoMem
          BY Types DEF Idle
        <5>4. QED
          BY <4>2, <5>1, <5>2, <5>3
    <3>3. QED
      BY <1>13, <3>1, <3>2
  <2>3. QED
    BY <1>4, <2>1, <2>2 DEF T, S
<1>14. CASE Submit
  <2>1. /\ call.pc = "idle" /\ refs' = refs /\ table' = table
        /\ queue' = [queue EXCEPT !.submits = @ + 1]
        /\ call'.push = NoMem
    BY <1>14 DEF Submit, At, Idle, Submission
  <2>2. call.push = NoMem /\ queue'.cb0 = queue.cb0 /\ queue'.state = queue.state
    BY <2>1, Types DEF PhaseInv
  <2>3. QED
    BY <1>4, <2>1, <2>2 DEF T, S
<1>15. CASE UpdateTable
  <2>1. PICK t \in Names :
          /\ call.pc = t /\ queue' = [queue EXCEPT !.state[t] = IF Changed(t) THEN table[t] ELSE @]
          /\ refs' = Updated(t) /\ table' = table
          /\ call' = [call EXCEPT !.dirty = @ \/ Changed(t), !.pc = NextTable(t)]
    BY <1>15 DEF UpdateTable, At
  <2>2. /\ queue'.cb0 = queue.cb0 /\ call'.push = call.push
        /\ queue'.state = [queue.state EXCEPT ![t] = IF Changed(t) THEN table[t] ELSE @]
    BY <2>1, Types DEF InitCall, SubmitCall
  <2> DEFINE new == table[t].mem
             old == queue.state[t].mem
             r   == Ref(refs, new)
  <2>3. /\ queue.state \in QueueState /\ table[t] \in TableState /\ new \in Optional /\ old \in Optional
    BY RefTypes, Types DEF TypeInv, QueueState
  <2>4. r \in [Mems -> Int] /\ r[m] = refs[m] + One(new, m)
    BY <1>0, <2>3, RefAt
  <2>5. CASE Changed(t)
    <3>1. refs'[m] = r[m] - One(old, m)
      <4>1. refs' = Unref(r, old)
        BY <2>1, <2>5 DEF Updated
      <4> HIDE DEF r, old
      <4>2. QED
        BY <2>3, <2>4, <4>1, RefAt
    <3>2. Count(queue'.state, m) = S - One(old, m) + One(new, m)
      <4>1. queue'.state = [queue.state EXCEPT ![t] = table[t]]
        BY <2>2, <2>5
      <4>2. QED
        BY <2>3, <4>1, CountChanged DEF S
    <3> HIDE DEF new, old, r
    <3>3. QED
      BY <1>1, <1>2, <1>3, <2>1, <2>2, <2>4, <3>1, <3>2 DEF T
  <2>6. CASE ~Changed(t)
    <3>1. refs'[m] = r[m] - One(new, m)
      <4>1. refs' = Unref(r, new)
        BY <2>1, <2>6 DEF Updated
      <4> HIDE DEF r, new
      <4>2. QED
        BY <2>3, <2>4, <4>1, RefAt
    <3>2. queue'.state = queue.state
      <4>1. \A f \in QueueState : [f EXCEPT ![t] = f[t]] = f
        BY DEF QueueState
      <4>2. queue'.state = [queue.state EXCEPT ![t] = queue.state[t]]
        BY <2>2, <2>6
      <4>3. QED
        BY <2>3, <4>1, <4>2
    <3> HIDE DEF new, old, r
    <3>3. QED
      BY <1>1, <1>2, <1>3, <2>1, <2>2, <2>4, <3>1, <3>2 DEF T, S
  <2>7. QED
    BY <2>5, <2>6
<1>16. CASE Install
  <2>1. call.pc = "install" /\ UNCHANGED <<table, queue>>
    BY <1>16 DEF Install, At
  <2>2. CASE call.dirty
    <3>1. [Job("tables") EXCEPT !.need = queue.state] \in Jobs
      BY JobTypes, Types
    <3>2. SubmitSimple([Job("tables") EXCEPT !.need = queue.state], "fail")
      BY <1>16, <2>2 DEF Install
    <3>3. QED
      BY <1>8, <2>1, <3>1, <3>2
  <2>3. CASE ~call.dirty
    <3>1. refs' = refs /\ call'.push = call.push
      BY <1>16, <2>3, Types DEF Install, Goto, InitCall, SubmitCall
    <3>2. QED
      BY <1>4, <2>1, <3>1 DEF T, S
  <2>4. QED
    BY <2>2, <2>3
<1>17. CASE ContextState
  <2>1. call.pc = "context_state" /\ UNCHANGED <<table, queue>> /\ SubmitSimple(Job("init"), "fail_bind_ctx")
    BY <1>17 DEF ContextState, At
  <2>2. QED
    BY <1>8, <2>1, JobTypes
<1>18. CASE Grow
  <2>1. PICK t \in Names, x \in Optional :
          /\ table' = [table EXCEPT ![t] = [mem |-> x, count |-> @.count + 1]]
          /\ table[t].count < MaxCount
          /\ refs' = IF x = table[t].mem THEN refs ELSE Unref(Ref(refs, x), table[t].mem)
          /\ UNCHANGED <<queue, call>>
    BY <1>18, RefTypes DEF Grow, Free, Optional
  <2> DEFINE old == table[t].mem
             v   == [mem |-> x, count |-> table[t].count + 1]
             r   == Ref(refs, x)
  <2>2. table \in QueueState /\ v \in TableState /\ old \in Optional /\ v.mem = x
    <3>1. table \in QueueState /\ old \in Optional /\ table[t].count \in 0 .. MaxCount
      BY RefTypes DEF TypeInv, QueueState, TableState
    <3>2. table[t].count + 1 \in 0 .. MaxCount
      BY <2>1, <3>1, Numbers
    <3>3. QED
      BY <3>1, <3>2 DEF TableState
  <2>3. Count(table', m) = T - One(old, m) + One(x, m)
    <3>1. table' = [table EXCEPT ![t] = v]
      BY <2>1
    <3> HIDE DEF v
    <3>2. QED
      BY <2>2, <3>1, CountChanged DEF T
  <2>4. r \in [Mems -> Int] /\ r[m] = refs[m] + One(x, m)
    BY <1>0, <2>1, RefAt
  <2>5. refs'[m] = refs[m] + One(x, m) - One(old, m)
    <3>1. CASE x = old
      BY <1>1, <1>3, <2>1, <3>1, Types
    <3>2. CASE x # old
      <4>1. refs' = Unref(r, old) /\ old \in Optional
        BY <2>1, <2>2, <3>2
      <4> HIDE DEF r, old
      <4>2. refs'[m] = r[m] - One(old, m)
        BY <2>4, <4>1, RefAt
      <4>3. One(old, m) \in {0, 1} /\ One(x, m) \in {0, 1} /\ refs[m] \in Int
        BY <1>0, <1>3
      <4>4. QED
        BY <2>4, <4>2, <4>3
    <3>3. QED
      BY <3>1, <3>2
  <2> HIDE DEF old
  <2>6. QED
    BY <1>1, <1>2, <1>3, <2>1, <2>3, <2>5 DEF S
<1>19. ASSUME AskUpload \/ (\E c \in DOMAIN gpu : GpuStep(c)) \/ UNCHANGED vars
       PROVE  refs'[m] = Holders(m)'
  <2>1. UNCHANGED <<table, refs, queue, call>>
    BY <1>19 DEF AskUpload, GpuStep, vars
  <2>2. QED
    BY <1>4, <2>1 DEF T, S
<1>20. QED
  BY <1>5, <1>6, <1>7, <1>9, <1>11, <1>12, <1>13, <1>14, <1>15, <1>16, <1>17, <1>18, <1>19
     DEF Next, QueueCall, SubmitStep

-----------------------------------------------------------------------------
(***************************************************************************)
(* The steps of a queue that is up, in terms of what they leave alone.  A  *)
(* submission keeps what it is about.                                      *)
(***************************************************************************)
Same(c, d) ==
  c.s = d.s /\ c.kind = d.kind /\ c.after = d.after /\ c.need = d.need /\ c.asked = d.asked

(* A call that is idle is no submission. *)
LEMMA IdleCall ==
  /\ Idle \in InitCall /\ Idle \notin SubmitCall
  /\ \A c \in InitCall : c.pc \in {"idle", "finish"} => c \notin SubmitCall
  /\ \A c \in SubmitCall : c.pc \notin {"idle", "finish"}
<1>1. \A c \in SubmitCall : c.pc \notin {"idle", "finish"}
  BY Bounds DEF SubmitCall, SubmitLabels
<1>2. Idle \in InitCall /\ Idle.pc = "idle"
  BY Bounds DEF Idle, InitCall
<1>3. QED
  BY <1>1, <1>2

(* nvk_queue_submit_exec begins: the call is Idle when the device is lost. *)
LEMMA SubmitEffects ==
  ASSUME TypeInv, Submit
  PROVE  /\ call.pc = "idle" /\ queue.phase = "up" /\ queue.submits < MaxSubmits
         /\ UNCHANGED <<drains, table, refs, req, upload, gpu, engine>>
         /\ queue'.submits = queue.submits + 1 /\ queue'.phase = "up"
         /\ queue'.state = queue.state /\ queue'.cb0 = queue.cb0 /\ queue'.lost = queue.lost
         /\ done'.signalled = done.signalled /\ done'.accepted = done.accepted
         /\ done'.ran = done.ran
         /\ \A s \in Submits : s # queue.submits + 1 => done'.want[s] = done.want[s]
         /\ \/ queue.lost /\ call' = Idle
            \/ /\ ~queue.lost /\ call' \in SubmitCall /\ call'.s = queue.submits + 1
               /\ call'.need = table /\ call'.asked = upload.asked
               /\ call'.point = 0 /\ ~call'.dirty
               /\ done'.want[queue.submits + 1] = call'.left
               /\ \/ call'.pc = "wait" /\ (call'.kind = "bind" \/ call'.left = 0)
                  \/ call'.pc = Tables[1] /\ call'.kind = "exec"
<1>1. PICK kind \in Kinds, n \in 0 .. 2, after \in 0 .. queue.submits :
        /\ kind = "bind" => n > 0
        /\ call' = IF queue.lost THEN Idle ELSE Submission(kind, n, after)
        /\ done' = [done EXCEPT !.want[queue.submits + 1] = n]
  BY DEF Submit, Kinds
<1>2. /\ call.pc = "idle" /\ queue.phase = "up" /\ queue.submits < MaxSubmits
      /\ queue' = [queue EXCEPT !.submits = @ + 1]
      /\ UNCHANGED <<drains, table, refs, req, upload, gpu, engine>>
  BY DEF Submit, At
<1>3. queue.submits \in 0 .. MaxSubmits /\ queue.submits + 1 \in Submits
  BY <1>2, Bounds DEF TypeInv, Submits
<1>4. Submission(kind, n, after) \in SubmitCall
  BY <1>3, Bounds DEF Submission, SubmitCall, SubmitLabels, TypeInv
<1>5. /\ queue'.submits = queue.submits + 1 /\ queue'.phase = "up"
      /\ queue'.state = queue.state /\ queue'.cb0 = queue.cb0 /\ queue'.lost = queue.lost
  BY <1>2, Types
<1>6. /\ done'.signalled = done.signalled /\ done'.accepted = done.accepted
      /\ done'.ran = done.ran /\ done'.want[queue.submits + 1] = n
      /\ \A s \in Submits : s # queue.submits + 1 => done'.want[s] = done.want[s]
  BY <1>1, <1>3, Types
<1>7. CASE queue.lost
  BY <1>1, <1>2, <1>5, <1>6, <1>7
<1>8. CASE ~queue.lost
  <2>1. call' = Submission(kind, n, after)
    BY <1>1, <1>8
  <2>2. /\ call'.s = queue.submits + 1 /\ call'.need = table /\ call'.asked = upload.asked
        /\ call'.point = 0 /\ ~call'.dirty /\ call'.left = n /\ call'.kind = kind
        /\ call'.pc = IF kind = "exec" /\ n > 0 THEN Tables[1] ELSE "wait"
    BY <2>1 DEF Submission
  <2>3. \/ call'.pc = "wait" /\ (call'.kind = "bind" \/ call'.left = 0)
        \/ call'.pc = Tables[1] /\ call'.kind = "exec"
    BY <2>2 DEF Kinds
  <2>4. QED
    BY <1>2, <1>4, <1>5, <1>6, <1>8, <2>1, <2>2, <2>3
<1>9. QED
  BY <1>7, <1>8

(* One table is updated, or the submission fails. *)
LEMMA UpdateTableEffects ==
  ASSUME TypeInv, PhaseInv, UpdateTable
  PROVE  \E t \in Names :
           /\ Submitting /\ call.pc = t /\ call' \in SubmitCall /\ Same(call', call)
           /\ call'.pc = NextTable(t) /\ call'.left = call.left /\ call'.point = call.point
           /\ call'.dirty = (call.dirty \/ Changed(t))
           /\ queue'.state = [queue.state EXCEPT ![t] = IF Changed(t) THEN table[t] ELSE @]
           /\ queue'.phase = queue.phase /\ queue'.cb0 = queue.cb0 /\ queue'.lost = queue.lost
           /\ queue'.submits = queue.submits
           /\ UNCHANGED <<drains, table, req, upload, gpu, engine, done>>
<1>1. PICK t \in Names :
        /\ call.pc = t
        /\ queue' = [queue EXCEPT !.state[t] = IF Changed(t) THEN table[t] ELSE @]
        /\ call' = [call EXCEPT !.dirty = @ \/ Changed(t), !.pc = NextTable(t)]
        /\ UNCHANGED <<drains, table, req, upload, gpu, engine, done>>
  BY DEF UpdateTable, At
<1>2. NextTable(t) \in Names \cup SubmitLabels \cup {"sync"}
  BY Bounds, NextTableFacts DEF SubmitLabels
<1>3. Submitting /\ call \in SubmitCall
  BY <1>1, PhaseFacts
<1>4. (call.dirty \/ Changed(t)) \in BOOLEAN
  OBVIOUS
<1>5. call' = [call EXCEPT !.dirty = (call.dirty \/ Changed(t)), !.pc = NextTable(t)]
  BY <1>1
<1>6. /\ call' \in SubmitCall /\ Same(call', call) /\ call'.pc = NextTable(t)
      /\ call'.left = call.left /\ call'.point = call.point
      /\ call'.dirty = (call.dirty \/ Changed(t))
  BY <1>2, <1>3, <1>4, <1>5 DEF SubmitCall, Same
<1>7. /\ queue'.state = [queue.state EXCEPT ![t] = IF Changed(t) THEN table[t] ELSE @]
      /\ queue'.phase = queue.phase /\ queue'.cb0 = queue.cb0 /\ queue'.lost = queue.lost
      /\ queue'.submits = queue.submits
  BY <1>1, Types
<1>8. QED
  BY <1>1, <1>3, <1>6, <1>7

(* The tables are installed by a job, or are clean, or the step fails. *)
LEMMA InstallEffects ==
  ASSUME TypeInv, PhaseInv, Install
  PROVE  /\ Submitting /\ call.pc = "install" /\ call' \in SubmitCall /\ Same(call', call)
         /\ call'.left = call.left /\ call'.point = call.point /\ call'.dirty = call.dirty
         /\ UNCHANGED <<drains, table, queue, req, upload, engine, done>>
         /\ \/ /\ call'.pc = "sync"
               /\ LET job == [Job("tables") EXCEPT !.need = queue.state]
                  IN job \in Jobs /\ Push("exec", job)
            \/ call'.pc = "fail" /\ gpu' = gpu
            \/ ~call.dirty /\ call'.pc = "flush" /\ gpu' = gpu
<1>1. call.pc = "install" /\ UNCHANGED <<drains, table, queue, req, upload, engine, done>>
  BY DEF Install, At
<1>2. Submitting /\ call \in SubmitCall
  BY <1>1, PhaseFacts DEF SubmitLabels
<1> DEFINE job == [Job("tables") EXCEPT !.need = queue.state]
<1>3. job \in Jobs
  BY JobTypes, Types
<1>4. CASE call.dirty
  <2>1. SubmitSimple(job, "fail")
    BY <1>4 DEF Install
  <2>2. \/ \E m \in Mems : call' = [call EXCEPT !.push = m, !.pc = "sync"] /\ Push("exec", job)
        \/ call' = [call EXCEPT !.pc = "fail"] /\ gpu' = gpu
    <3> HIDE DEF job
    <3>1. QED
      BY <1>3, <2>1, SubmitSimpleEffects
  <2> HIDE DEF job
  <2>3. CASE \E m \in Mems : call' = [call EXCEPT !.push = m, !.pc = "sync"] /\ Push("exec", job)
    <3>1. PICK m \in Optional : call' = [call EXCEPT !.push = m, !.pc = "sync"] /\ Push("exec", job)
      BY <2>3 DEF Optional
    <3>2. /\ call' \in SubmitCall /\ Same(call', call) /\ call'.pc = "sync"
          /\ call'.left = call.left /\ call'.point = call.point /\ call'.dirty = call.dirty
      BY <1>2, <3>1 DEF SubmitCall, Same
    <3>3. QED
      BY <1>1, <1>2, <1>3, <3>1, <3>2 DEF job
  <2>4. CASE call' = [call EXCEPT !.pc = "fail"] /\ gpu' = gpu
    <3>1. /\ call' \in SubmitCall /\ Same(call', call) /\ call'.pc = "fail"
          /\ call'.left = call.left /\ call'.point = call.point /\ call'.dirty = call.dirty
      BY <1>2, <2>4 DEF SubmitLabels, SubmitCall, Same
    <3>2. QED
      BY <1>1, <1>2, <2>4, <3>1
  <2>5. QED
    BY <2>2, <2>3, <2>4
<1>5. CASE ~call.dirty
  <2>1. call' = [call EXCEPT !.pc = "flush"] /\ gpu' = gpu
    BY <1>5 DEF Install, Goto
  <2>2. /\ call' \in SubmitCall /\ Same(call', call) /\ call'.pc = "flush"
        /\ call'.left = call.left /\ call'.point = call.point /\ call'.dirty = call.dirty
    BY <1>2, <2>1 DEF SubmitLabels, SubmitCall, Same
  <2>3. QED
    BY <1>1, <1>2, <1>5, <2>1, <2>2
<1>6. QED
  BY <1>4, <1>5

(* The wait for the tables job. *)
LEMMA InstallSyncEffects ==
  ASSUME TypeInv, PhaseInv, InstallSync
  PROVE  /\ Submitting /\ call.pc = "sync" /\ call' \in SubmitCall /\ Same(call', call)
         /\ call'.left = call.left /\ call'.point = call.point /\ call'.dirty = call.dirty
         /\ UNCHANGED <<drains, table, queue, req, upload, gpu, engine, done>>
         /\ gpu["exec"] = <<>> /\ call'.pc \in {"flush", "fail"}
<1>1. /\ call.pc = "sync" /\ queue.phase = "up" /\ gpu["exec"] = <<>>
      /\ UNCHANGED <<drains, table, queue, req, upload, gpu, engine, done>>
  BY DEF InstallSync, Synced, At
<1>2. Submitting /\ call \in SubmitCall
  BY <1>1, PhaseFacts DEF Submitting
<1>3. PICK pc \in {"flush", "fail"} : call' = [call EXCEPT !.push = NoMem, !.pc = pc]
  BY DEF InstallSync, Synced
<1>4. /\ call' \in SubmitCall /\ Same(call', call) /\ call'.pc = pc
      /\ call'.left = call.left /\ call'.point = call.point /\ call'.dirty = call.dirty
  BY <1>2, <1>3, Bounds DEF SubmitLabels, SubmitCall, Same
<1>5. QED
  BY <1>1, <1>2, <1>4

(* The uploads are flushed and the call keeps the point they reach. *)
LEMMA FlushUploadsEffects ==
  ASSUME TypeInv, PhaseInv, FlushUploads
  PROVE  /\ Submitting /\ call.pc = "flush" /\ call' \in SubmitCall /\ Same(call', call)
         /\ call'.left = call.left /\ call'.dirty = call.dirty
         /\ UNCHANGED <<drains, table, refs, queue, req, engine, done>>
         /\ \/ Flush /\ call'.pc = "wait" /\ call'.point = upload'.submitted
            \/ UNCHANGED <<upload, gpu>> /\ call'.pc = "fail" /\ call'.point = call.point
<1>1. call.pc = "flush" /\ UNCHANGED <<drains, table, refs, queue, req, engine, done>>
  BY DEF FlushUploads, At
<1>2. Submitting /\ call \in SubmitCall
  BY <1>1, PhaseFacts DEF SubmitLabels
<1>3. CASE Flush /\ call' = [call EXCEPT !.point = upload'.submitted, !.pc = "wait"]
  <2>1. upload'.submitted \in 0 .. MaxUploads
    BY <1>3, FlushEffects, Types
  <2>2. /\ call' \in SubmitCall /\ Same(call', call) /\ call'.pc = "wait"
        /\ call'.left = call.left /\ call'.dirty = call.dirty /\ call'.point = upload'.submitted
    BY <1>2, <1>3, <2>1 DEF SubmitLabels, SubmitCall, Same
  <2>3. QED
    BY <1>1, <1>2, <1>3, <2>2
<1>4. CASE call' = [call EXCEPT !.pc = "fail"] /\ UNCHANGED <<upload, gpu>>
  <2>1. /\ call' \in SubmitCall /\ Same(call', call) /\ call'.pc = "fail"
        /\ call'.left = call.left /\ call'.dirty = call.dirty /\ call'.point = call.point
    BY <1>2, <1>4 DEF SubmitLabels, SubmitCall, Same
  <2>2. QED
    BY <1>1, <1>2, <1>4, <2>1
<1>5. QED
  BY <1>3, <1>4 DEF FlushUploads, Goto

(* The wait of the submission for its uploads, in its request. *)
LEMMA WaitEffects ==
  ASSUME TypeInv, PhaseInv, Wait
  PROVE  /\ Submitting /\ call.pc = "wait" /\ call' \in SubmitCall /\ Same(call', call)
         /\ call'.left = call.left /\ call'.dirty = call.dirty /\ call'.point = call.point
         /\ UNCHANGED <<drains, table, refs, queue, upload, gpu, engine, done>>
         /\ \/ /\ call'.pc = (IF call.left > 0 THEN "work" ELSE "signal")
               /\ req'[call.kind].work = req[call.kind].work
               /\ req'[call.kind].point = call.point
               /\ \A c \in Kinds : c # call.kind => req'[c] = req[c]
            \/ call'.pc = "fail" /\ req' = req
<1>1. call.pc = "wait" /\ UNCHANGED <<drains, table, refs, queue, upload, gpu, engine, done>>
  BY DEF Wait, At
<1>2. Submitting /\ call \in SubmitCall
  BY <1>1, PhaseFacts DEF SubmitLabels
<1>3. call.kind \in Kinds
  BY <1>2 DEF SubmitCall
<1>4. AfterWait \in {"work", "signal"}
  BY DEF AfterWait
<1>5. PICK pc \in {AfterWait, "fail"} :
        /\ call' = [call EXCEPT !.pc = pc]
        /\ IF pc = "fail" THEN req' = req
           ELSE req' = [req EXCEPT ![call.kind].point = call.point, ![call.kind].after = call.after]
  BY <1>4 DEF Wait, Goto, UploadPoint
<1>6. /\ call' \in SubmitCall /\ Same(call', call) /\ call'.pc = pc
      /\ call'.left = call.left /\ call'.dirty = call.dirty /\ call'.point = call.point
  BY <1>2, <1>4, <1>5 DEF SubmitLabels, SubmitCall, Same
<1>7. pc # "fail" =>
        /\ req'[call.kind].work = req[call.kind].work
        /\ req'[call.kind].point = call.point
        /\ \A c \in Kinds : c # call.kind => req'[c] = req[c]
  <2>1. ASSUME NEW q \in [Kinds -> [point : 0 .. MaxUploads, after : 0 .. MaxSubmits, work : 0 .. 2]],
               NEW k \in Kinds, NEW p, NEW a
        PROVE  LET new == [q EXCEPT ![k].point = p, ![k].after = a]
               IN new[k].work = q[k].work /\ new[k].point = p /\ \A c \in Kinds : c # k => new[c] = q[c]
    OBVIOUS
  <2>2. req \in [Kinds -> [point : 0 .. MaxUploads, after : 0 .. MaxSubmits, work : 0 .. 2]]
    BY Types
  <2>3. QED
    BY <1>3, <1>5, <2>1, <2>2
<1>8. QED
  BY <1>1, <1>2, <1>4, <1>5, <1>6, <1>7 DEF AfterWait

(* A unit of work goes in the request, which is sent when it is full. *)
LEMMA WorkEffects ==
  ASSUME TypeInv, PhaseInv, CallInv, Work
  PROVE  LET r   == [req[call.kind] EXCEPT !.work = @ + 1]
             job == Request(r, FALSE)
         IN
         /\ Submitting /\ call.pc = "work" /\ call' \in SubmitCall /\ Same(call', call)
         /\ call'.dirty = call.dirty /\ call'.point = call.point /\ call.left > 0
         /\ UNCHANGED <<drains, table, refs, queue, upload, engine, done>>
         /\ \A c \in Kinds : c # call.kind => req'[c] = req[c]
         /\ \/ /\ call'.left = call.left - 1
               /\ call'.pc = (IF call.left > 1 THEN "work" ELSE "signal")
               /\ \/ /\ gpu' = gpu /\ req'[call.kind].work = req[call.kind].work + 1
                     /\ req'[call.kind].point = req[call.kind].point
                  \/ /\ job \in Jobs /\ Push(call.kind, job)
                     /\ job.kind = call.kind /\ job.s = call.s /\ ~job.signal
                     /\ job.work = req[call.kind].work + 1 /\ job.point = req[call.kind].point
                     /\ job.need = call.need /\ job.asked = call.asked
                     /\ req'[call.kind] = NoReq[call.kind]
            \/ /\ call'.pc = "fail" /\ call'.left = call.left
               /\ req' = req /\ gpu' = gpu
<1> DEFINE r   == [req[call.kind] EXCEPT !.work = @ + 1]
           job == Request(r, FALSE)
<1>1. call.pc = "work" /\ UNCHANGED <<drains, table, refs, queue, upload, engine, done>>
  BY DEF Work, At
<1>2. Submitting /\ call \in SubmitCall
  BY <1>1, PhaseFacts DEF SubmitLabels
<1>3. call.kind \in Kinds /\ call.left \in 0 .. 2
  BY <1>2 DEF SubmitCall
<1>4. call.left > 0 /\ call.left + req[call.kind].work <= 2
  BY <1>1, <1>2 DEF CallInv
<1>5. req[call.kind] \in [point : 0 .. MaxUploads, after : 0 .. MaxSubmits, work : 0 .. 2]
  BY <1>3, Types
<1>6. /\ r \in [point : 0 .. MaxUploads, after : 0 .. MaxSubmits, work : 0 .. 2]
      /\ r.work = req[call.kind].work + 1 /\ r.point = req[call.kind].point
  <2>1. req[call.kind].work + 1 \in 0 .. 2
    BY <1>3, <1>4, <1>5
  <2>2. QED
    BY <1>5, <2>1
<1>7. CASE /\ call' = [call EXCEPT !.left = @ - 1, !.pc = IF call.left > 1 THEN "work" ELSE "signal"]
           /\ \/ req' = [req EXCEPT ![call.kind] = r] /\ UNCHANGED gpu
              \/ Push(call.kind, job) /\ req' = [req EXCEPT ![call.kind] = NoReq[call.kind]]
  <2>1. call.left - 1 \in 0 .. 2
    BY <1>3, <1>4
  <2>2. PICK pc \in {"work", "signal"} :
          /\ pc = (IF call.left > 1 THEN "work" ELSE "signal")
          /\ call' = [call EXCEPT !.left = call.left - 1, !.pc = pc]
    BY <1>7
  <2>3. /\ call' \in SubmitCall /\ Same(call', call) /\ call'.pc = pc
        /\ call'.left = call.left - 1 /\ call'.dirty = call.dirty /\ call'.point = call.point
    BY <1>2, <2>1, <2>2 DEF SubmitLabels, SubmitCall, Same
  <2>4. \A c \in Kinds : c # call.kind => req'[c] = req[c]
    BY <1>7, Types
  <2>5. CASE req' = [req EXCEPT ![call.kind] = r] /\ UNCHANGED gpu
    <3>1. req'[call.kind].work = req[call.kind].work + 1 /\ req'[call.kind].point = req[call.kind].point
      BY <1>3, <1>6, <2>5, Types
    <3>2. QED
      BY <1>1, <1>2, <1>4, <2>2, <2>3, <2>4, <2>5, <3>1
  <2>6. CASE Push(call.kind, job) /\ req' = [req EXCEPT ![call.kind] = NoReq[call.kind]]
    <3>1. req'[call.kind] = NoReq[call.kind]
      BY <1>3, <2>6, Types
    <3>2. /\ job \in Jobs /\ job.kind = call.kind /\ job.s = call.s /\ ~job.signal
          /\ job.work = r.work /\ job.point = r.point /\ job.need = call.need /\ job.asked = call.asked
      <4> HIDE DEF r
      <4>1. QED
        BY <1>2, <1>6, RequestType
    <3>3. QED
      BY <1>1, <1>2, <1>4, <1>6, <2>2, <2>3, <2>4, <2>6, <3>1, <3>2
  <2>7. QED
    BY <1>7, <2>5, <2>6
<1>8. CASE call' = [call EXCEPT !.pc = "fail"] /\ UNCHANGED <<req, gpu>>
  <2>1. /\ call' \in SubmitCall /\ Same(call', call) /\ call'.pc = "fail"
        /\ call'.left = call.left /\ call'.dirty = call.dirty /\ call'.point = call.point
    BY <1>2, <1>8 DEF SubmitLabels, SubmitCall, Same
  <2>2. QED
    BY <1>1, <1>2, <1>4, <1>8, <2>1
<1>9. QED
  BY <1>7, <1>8 DEF Work, WorkFails, Goto

(* The last request goes with the signals, or the submission fails. *)
LEMMA SignalEffects ==
  ASSUME TypeInv, PhaseInv, Signal
  PROVE  LET job == Request(req[call.kind], TRUE)
         IN
         /\ Submitting /\ call.pc = "signal"
         /\ UNCHANGED <<drains, table, refs, queue, upload, engine>>
         /\ \/ /\ call' = Idle
               /\ job \in Jobs /\ Push(call.kind, job)
               /\ job.kind = call.kind /\ job.s = call.s /\ job.signal
               /\ job.work = req[call.kind].work /\ job.point = req[call.kind].point
               /\ job.need = call.need /\ job.asked = call.asked
               /\ req'[call.kind] = NoReq[call.kind]
               /\ \A c \in Kinds : c # call.kind => req'[c] = req[c]
               /\ done'.accepted = done.accepted \cup {call.s}
               /\ done'.signalled = done.signalled /\ done'.ran = done.ran /\ done'.want = done.want
            \/ /\ call'.pc = "fail" /\ call' \in SubmitCall /\ Same(call', call)
               /\ call'.left = call.left /\ call'.dirty = call.dirty /\ call'.point = call.point
               /\ UNCHANGED <<gpu, req, done>>
<1> DEFINE job == Request(req[call.kind], TRUE)
<1>1. call.pc = "signal" /\ UNCHANGED <<drains, table, refs, queue, upload, engine>>
  BY DEF Signal, At
<1>2. Submitting /\ call \in SubmitCall
  BY <1>1, PhaseFacts DEF SubmitLabels
<1>3. call.kind \in Kinds
  BY <1>2 DEF SubmitCall
<1>4. req[call.kind] \in [point : 0 .. MaxUploads, after : 0 .. MaxSubmits, work : 0 .. 2]
  BY <1>3, Types
<1>5. CASE /\ Push(call.kind, job)
           /\ req' = [req EXCEPT ![call.kind] = NoReq[call.kind]]
           /\ done' = [done EXCEPT !.accepted = @ \cup {call.s}]
           /\ call' = Idle
  <2>1. req'[call.kind] = NoReq[call.kind] /\ \A c \in Kinds : c # call.kind => req'[c] = req[c]
    BY <1>3, <1>5, Types
  <2>2. /\ done'.accepted = done.accepted \cup {call.s}
        /\ done'.signalled = done.signalled /\ done'.ran = done.ran /\ done'.want = done.want
    BY <1>5, Types
  <2>3. /\ job \in Jobs /\ job.kind = call.kind /\ job.s = call.s /\ job.signal
        /\ job.work = req[call.kind].work /\ job.point = req[call.kind].point
        /\ job.need = call.need /\ job.asked = call.asked
    BY <1>2, <1>4, RequestType
  <2>4. QED
    BY <1>1, <1>2, <1>5, <2>1, <2>2, <2>3
<1>6. CASE call' = [call EXCEPT !.pc = "fail"] /\ UNCHANGED <<gpu, req, done>>
  <2>1. /\ call' \in SubmitCall /\ Same(call', call) /\ call'.pc = "fail"
        /\ call'.left = call.left /\ call'.dirty = call.dirty /\ call'.point = call.point
    BY <1>2, <1>6 DEF SubmitLabels, SubmitCall, Same
  <2>2. QED
    BY <1>1, <1>2, <1>6, <2>1
<1>7. QED
  BY <1>5, <1>6 DEF Signal, Goto

-----------------------------------------------------------------------------
(* A queue that is up is new, or it was up already.  The invariants below   *)
(* say nothing of a queue in another phase that PhaseInv does not.          *)
NewQueue ==
  /\ call' \in InitCall /\ call'.pc = "idle" /\ ~queue'.lost /\ queue'.submits = 0
  /\ queue'.state = NoTables /\ queue'.cb0 = queue.cb0
  /\ table' = NoTables /\ req' = NoReq /\ engine' = NoTables /\ done' = NoDone
  /\ \A c \in Contexts : gpu'[c] = <<>>
  /\ upload' = upload /\ upload.submitted = 0 /\ upload.done = 0
  /\ upload.fill \in {NoMem, queue.cb0}

(* The steps that end with a queue that is up. *)
LEMMA UpSteps ==
  ASSUME TypeInv, PhaseInv, TypeInv', PhaseInv', [Next]_vars, queue'.phase = "up"
  PROVE  \/ NewQueue
         \/ /\ queue.phase = "up"
            /\ \/ FinishBegin \/ Submit \/ UpdateTable \/ Install \/ InstallSync \/ FlushUploads
               \/ Wait \/ Work \/ Signal \/ SubmitFails \/ Grow \/ AskUpload
               \/ \E c \in Contexts : GpuStep(c)
               \/ UNCHANGED vars
<1>1. CASE InitBegin \/ InitFails \/ Finish
  BY <1>1 DEF InitBegin, InitFails, Finish, NoQueue
<1>2. CASE CreateExecCtx \/ AllocCb0 \/ FillCb0 \/ CreateBindCtx \/ ContextState
  <2>1. call.pc \in InitLabels
    BY <1>2 DEF CreateExecCtx, AllocCb0, FillCb0, CreateBindCtx, ContextState, At, InitLabels
  <2>2. queue.phase = "init"
    BY <2>1, PhaseFacts
  <2>3. queue'.phase = queue.phase
    BY <1>2, Types DEF CreateExecCtx, AllocCb0, FillCb0, CreateBindCtx, ContextState
  <2>4. QED
    BY <2>2, <2>3
<1>3. CASE ContextSync
  <2>1. /\ queue.phase = "init" /\ call.pc = "sync" /\ gpu["exec"] = <<>>
        /\ queue' = [queue EXCEPT !.phase = IF call'.pc = "idle" THEN "up" ELSE @]
        /\ \E pc \in {"idle", "fail_bind_ctx"} : call' = [call EXCEPT !.push = NoMem, !.pc = pc]
        /\ UNCHANGED <<table, req, upload, gpu, engine, done>>
    BY <1>3 DEF ContextSync, Synced, At
  <2>2. InitInv
    BY <2>1 DEF PhaseInv
  <2>3. call'.pc = "idle"
    BY <2>1, Types
  <2>4. call' \in InitCall
    BY <2>3, Bounds DEF TypeInv, SubmitCall, SubmitLabels
  <2>5. /\ queue'.lost = queue.lost /\ queue'.submits = queue.submits
        /\ queue'.state = queue.state /\ queue'.cb0 = queue.cb0
    BY <2>1, Types
  <2>6. \A c \in Contexts : gpu'[c] = <<>>
    BY <2>1, <2>2 DEF InitInv, Contexts
  <2>7. QED
    BY <2>1, <2>2, <2>3, <2>4, <2>5, <2>6 DEF NewQueue, InitInv
<1>4. CASE UpdateTable \/ Install \/ InstallSync \/ FlushUploads \/ Wait \/ Work \/ Signal \/ SubmitFails
  <2>1. call.pc \in Names \cup SubmitLabels \/ InstallSync
    BY <1>4 DEF UpdateTable, Install, FlushUploads, Wait, Work, Signal, SubmitFails, At, SubmitLabels
  <2>2. queue.phase = "up"
    BY <2>1, PhaseFacts DEF InstallSync
  <2>3. QED
    BY <1>4, <2>2
<1>5. CASE FinishBegin \/ Submit \/ Grow \/ AskUpload
  BY <1>5 DEF FinishBegin, Submit, Grow, AskUpload
<1>6. CASE (\E c \in Contexts : GpuStep(c)) \/ UNCHANGED vars
  <2>1. queue' = queue
    BY <1>6 DEF GpuStep, vars
  <2>2. QED
    BY <1>6, <2>1
<1>7. DOMAIN gpu = Contexts
  BY DEF TypeInv
<1>8. QED
  BY <1>1, <1>2, <1>3, <1>4, <1>5, <1>6, <1>7 DEF Next, QueueCall, SubmitStep

(* Every step keeps what a submission knows of itself. *)
LEMMA CallStep ==
  ASSUME TypeInv, PhaseInv, CallInv, TypeInv', PhaseInv', [Next]_vars
  PROVE  CallInv'
<1> SUFFICES ASSUME queue'.phase = "up" PROVE CallInv'
  BY DEF CallInv, Submitting
(* Where no submission is under way. *)
<1>1. ASSUME call' \notin SubmitCall, call'.pc = "idle" /\ ~queue'.lost => req' = NoReq PROVE CallInv'
  BY <1>1 DEF CallInv, Submitting
(* A step within a submission. *)
<1>2. ASSUME Submitting, Same(call', call), queue'.submits = queue.submits, call'.pc # "idle",
             call.asked <= upload'.asked,
             call'.left + req'[call.kind].work <= 2,
             call'.pc = "work" => call'.left > 0,
             \A c \in Kinds : c # call.kind => req'[c] = req[c],
             call'.pc \in Names \cup {"install", "sync", "flush", "wait"} => req' = NoReq
      PROVE  CallInv'
  BY <1>2 DEF CallInv, Submitting, Same
<1>3. upload.asked \in Nat /\ upload'.asked \in Nat
  BY Bounds DEF TypeInv
<1>4. CASE NewQueue
  BY <1>1, <1>4, IdleCall DEF NewQueue
<1>5. CASE FinishBegin
  <2>1. call' = [call EXCEPT !.pc = "finish"]
    BY <1>5 DEF FinishBegin, Goto
  <2>2. call'.pc = "finish"
    BY <2>1, Types DEF InitCall, SubmitCall
  <2>3. QED
    BY <1>1, <2>2, IdleCall
<1>6. CASE Submit
  <2>1. CASE queue.lost
    BY <1>1, <1>6, <2>1, SubmitEffects, IdleCall
  <2>2. CASE ~queue.lost
    <3>1. /\ call'.s = queue'.submits /\ call'.asked = upload'.asked /\ call'.pc \in Names \cup {"wait"}
          /\ call' \in SubmitCall /\ req' = req /\ call.pc = "idle" /\ queue.phase = "up"
      BY <1>6, <2>2, SubmitEffects, Bounds
    <3>2. req' = NoReq /\ call'.kind \in Kinds /\ call'.left \in 0 .. 2
      BY <2>2, <3>1 DEF CallInv, SubmitCall
    <3>3. call'.left + req'[call'.kind].work <= 2
      BY <3>2 DEF NoReq, Kinds
    <3>4. call'.pc # "work" /\ call'.pc # "idle"
      BY <3>1, Bounds DEF SubmitLabels
    <3>5. QED
      BY <1>3, <3>1, <3>2, <3>3, <3>4 DEF CallInv, Submitting
  <2>3. QED
    BY <2>1, <2>2
<1>7. CASE UpdateTable
  <2>1. PICK t \in Names :
          /\ Submitting /\ call.pc = t /\ call' \in SubmitCall /\ Same(call', call)
          /\ call'.pc = NextTable(t) /\ call'.left = call.left
          /\ queue'.submits = queue.submits /\ UNCHANGED <<req, upload>>
    BY <1>7, UpdateTableEffects
  <2>2. call'.pc \in Names \cup {"install"}
    BY <2>1, Bounds, NextTableFacts
  <2>3. call'.pc # "work" /\ call'.pc # "idle"
    BY <2>2, Bounds DEF SubmitLabels
  <2>4. QED
    BY <1>2, <2>1, <2>3 DEF CallInv
<1>8. ASSUME Install \/ InstallSync PROVE CallInv'
  <2>1. /\ Submitting /\ call.pc \in {"install", "sync"} /\ Same(call', call)
        /\ call'.left = call.left /\ UNCHANGED <<queue, req, upload>>
        /\ call'.pc \in {"sync", "flush", "fail"}
    BY <1>8, InstallEffects, InstallSyncEffects
  <2>2. QED
    BY <1>2, <2>1 DEF CallInv
<1>9. CASE FlushUploads
  <2>1. /\ Submitting /\ call.pc = "flush" /\ Same(call', call)
        /\ call'.left = call.left /\ UNCHANGED <<queue, req>>
        /\ call'.pc \in {"wait", "fail"}
    BY <1>9, FlushUploadsEffects
  <2>2. upload'.asked = upload.asked
    BY <1>9, FlushUploadsEffects, FlushEffects, Types
  <2>3. QED
    BY <1>2, <2>1, <2>2 DEF CallInv
<1>10. CASE Wait
  <2>1. /\ Submitting /\ call.pc = "wait" /\ Same(call', call)
        /\ call'.left = call.left /\ UNCHANGED <<queue, upload>>
        /\ req'[call.kind].work = req[call.kind].work
        /\ \A c \in Kinds : c # call.kind => req'[c] = req[c]
        /\ call'.pc \in {"work", "signal", "fail"}
        /\ call'.pc = "work" => call'.left > 0
    BY <1>10, WaitEffects
  <2>2. call'.pc \notin Names
    BY <2>1, Bounds DEF SubmitLabels
  <2>3. QED
    BY <1>2, <2>1, <2>2 DEF CallInv
<1>11. CASE Work
  <2>1. /\ Submitting /\ call.pc = "work" /\ Same(call', call) /\ UNCHANGED <<queue, upload>>
        /\ call.left > 0
        /\ \A c \in Kinds : c # call.kind => req'[c] = req[c]
        /\ call'.pc \in {"work", "signal", "fail"}
        /\ \/ /\ call'.left = call.left - 1
              /\ call'.pc = (IF call.left > 1 THEN "work" ELSE "signal")
              /\ \/ req'[call.kind].work = req[call.kind].work + 1
                 \/ req'[call.kind] = NoReq[call.kind]
           \/ call'.pc = "fail" /\ call'.left = call.left /\ req' = req
    BY <1>11, WorkEffects
  <2>2. call.kind \in Kinds /\ call.left \in 0 .. 2 /\ req[call.kind].work \in 0 .. 2
    BY <2>1 DEF TypeInv, Submitting, SubmitCall
  <2>3. NoReq[call.kind].work = 0
    BY <2>2 DEF NoReq, Kinds
  <2>4. call'.pc \notin Names
    BY <2>1, Bounds DEF SubmitLabels
  <2>5. call.left + req[call.kind].work <= 2 /\ call.asked <= upload.asked
    BY <2>1 DEF CallInv
  <2>6. call'.left + req'[call.kind].work <= 2 /\ (call'.pc = "work" => call'.left > 0)
    BY <2>1, <2>2, <2>3, <2>5
  <2>7. QED
    BY <1>2, <2>1, <2>4, <2>5, <2>6
<1>12. CASE Signal
  <2>1. CASE call' = Idle
    <3>1. /\ Submitting /\ req'[call.kind] = NoReq[call.kind]
          /\ \A c \in Kinds : c # call.kind => req'[c] = req[c]
      BY <1>12, <2>1, SignalEffects, IdleCall
    <3>2. \A c \in Kinds : req'[c] = NoReq[c]
      BY <3>1 DEF CallInv
    <3>3. req' = NoReq
      <4>1. req' \in [Kinds -> [point : 0 .. MaxUploads, after : 0 .. MaxSubmits, work : 0 .. 2]]
        BY DEF TypeInv
      <4>2. QED
        BY <3>2, <4>1 DEF NoReq, Kinds
    <3>4. QED
      BY <1>1, <2>1, <3>3, IdleCall
  <2>2. CASE call' # Idle
    <3>1. /\ Submitting /\ call.pc = "signal" /\ Same(call', call) /\ UNCHANGED <<queue, upload, req>>
          /\ call'.left = call.left /\ call'.pc = "fail"
      BY <1>12, <2>2, SignalEffects
    <3>2. call'.pc \notin Names
      BY <3>1, Bounds DEF SubmitLabels
    <3>3. QED
      BY <1>2, <3>1, <3>2 DEF CallInv
  <2>3. QED
    BY <2>1, <2>2
<1>13. CASE SubmitFails
  <2>1. call' = Idle /\ queue' = [queue EXCEPT !.lost = TRUE]
    BY <1>13 DEF SubmitFails
  <2>2. queue'.lost
    BY <2>1, Types
  <2>3. QED
    BY <1>1, <2>1, <2>2, IdleCall
<1>14. ASSUME queue.phase = "up", UNCHANGED <<queue, call, req>>, upload'.asked \in {upload.asked, upload.asked + 1}
       PROVE  CallInv'
  <2>1. CASE Submitting
    <3>1. call.asked \in Nat
      BY <2>1, Bounds DEF Submitting, SubmitCall
    <3>2. QED
      BY <1>3, <1>14, <2>1, <3>1 DEF CallInv, Submitting
  <2>2. CASE ~Submitting
    BY <1>14, <2>2 DEF CallInv, Submitting
  <2>3. QED
    BY <2>1, <2>2
<1>15. ASSUME queue.phase = "up", Grow \/ AskUpload \/ (\E c \in Contexts : GpuStep(c)) \/ UNCHANGED vars
       PROVE  CallInv'
  <2>1. UNCHANGED <<queue, call, req>>
    BY <1>15 DEF Grow, AskUpload, GpuStep, vars
  <2>2. upload' = upload \/ upload' = [upload EXCEPT !.asked = @ + 1]
        \/ \E p : upload' = [upload EXCEPT !.done = p]
    BY <1>15 DEF Grow, AskUpload, GpuStep, vars
  <2>3. upload'.asked \in {upload.asked, upload.asked + 1}
    BY <2>2, Types
  <2>4. QED
    BY <1>14, <1>15, <2>1, <2>3
<1>16. QED
  BY <1>4, <1>5, <1>6, <1>7, <1>8, <1>9, <1>10, <1>11, <1>12, <1>13, <1>15, UpSteps

-----------------------------------------------------------------------------
(***************************************************************************)
(* The upload queue                                                        *)
(***************************************************************************)
(* A context runs jobs of its own; the state of the device is set in one.   *)
Own(c) == IF c = "exec" THEN {"init", "tables", "exec"} ELSE {c}

KindInv == \A c \in Kinds : \A i \in 1 .. Len(gpu[c]) : gpu[c][i].kind \in Own(c)

(* What the steps of a queue other than a flush and the end of a job do to  *)
(* the contexts: at most one job is given to one that does not upload.      *)
LEMMA UpPushes ==
  ASSUME TypeInv, PhaseInv, CallInv,
         \/ Submit \/ UpdateTable \/ Install \/ InstallSync \/ Wait \/ Work \/ Signal
         \/ SubmitFails \/ Grow \/ AskUpload \/ UNCHANGED vars
  PROVE  /\ queue'.cb0 = queue.cb0
         /\ upload'.done = upload.done /\ upload'.submitted = upload.submitted
         /\ upload'.fill = upload.fill /\ upload'.asked \in {upload.asked, upload.asked + 1}
         /\ \/ gpu' = gpu
            \/ \E c \in Kinds : \E job \in Jobs : job.kind \in Own(c) /\ Push(c, job)
<1>1. /\ upload' = upload \/ upload' = [upload EXCEPT !.asked = @ + 1]
      /\ queue'.cb0 = queue.cb0
  BY Types DEF Submit, UpdateTable, Install, InstallSync, Wait, Work, Signal, SubmitFails, Grow,
               AskUpload, vars
<1>2. /\ upload'.done = upload.done /\ upload'.submitted = upload.submitted
      /\ upload'.fill = upload.fill /\ upload'.asked \in {upload.asked, upload.asked + 1}
  BY <1>1, Types
<1>3. CASE Install
  <2>1. [Job("tables") EXCEPT !.need = queue.state].kind \in Own("exec") /\ "exec" \in Kinds
    BY DEF Job, Kinds, Own
  <2>2. QED
    BY <1>1, <1>2, <1>3, <2>1, InstallEffects
<1>4. CASE Work
  <2>1. call.kind \in Kinds /\ call.kind \in Own(call.kind)
    BY <1>4, WorkEffects DEF Submitting, SubmitCall, Own
  <2>2. QED
    BY <1>1, <1>2, <1>4, <2>1, WorkEffects
<1>5. CASE Signal
  <2>1. call.kind \in Kinds /\ call.kind \in Own(call.kind)
    BY <1>5, SignalEffects DEF Submitting, SubmitCall, Own
  <2>2. QED
    BY <1>1, <1>2, <1>5, <2>1, SignalEffects
<1>6. CASE \/ Submit \/ UpdateTable \/ InstallSync \/ Wait
           \/ SubmitFails \/ Grow \/ AskUpload \/ UNCHANGED vars
  <2>1. gpu' = gpu
    BY <1>6 DEF Submit, UpdateTable, InstallSync, Wait, SubmitFails, Grow, AskUpload, vars
  <2>2. QED
    BY <1>1, <1>2, <2>1
<1>7. QED
  BY <1>3, <1>4, <1>5, <1>6

(* The head of a context, as its step leaves the queue. *)
LEMMA GpuStepEffects ==
  ASSUME TypeInv, NEW ch \in Contexts, GpuStep(ch)
  PROVE  LET job == gpu[ch][1] IN
         /\ job \in Jobs /\ gpu[ch] # <<>> /\ gpu' = [gpu EXCEPT ![ch] = Tail(@)]
         /\ job.kind # "upload" => job.point <= upload.done /\ upload' = upload
         /\ job.kind = "upload" => upload' = [upload EXCEPT !.done = job.point]
         /\ engine' = IF job.kind = "tables" THEN job.need ELSE engine
         /\ job.s = 0 => done' = done
         /\ job.s # 0 => done' = [done EXCEPT !.ran[job.s] = @ + job.work,
                                              !.signalled = IF job.signal THEN @ \cup {job.s} ELSE @]
         /\ UNCHANGED <<drains, table, refs, queue, call, req>>
<1>1. gpu[ch] # <<>> /\ gpu' = [gpu EXCEPT ![ch] = Tail(@)]
  BY DEF GpuStep, Running
<1>2. Head(gpu[ch]) = gpu[ch][1] /\ gpu[ch][1] \in Jobs
  BY <1>1, Popped, Types
<1>3. QED
  BY <1>1, <1>2 DEF GpuStep, Running

(* Every step keeps the kinds. *)
LEMMA KindStep ==
  ASSUME TypeInv, PhaseInv, CallInv, KindInv, TypeInv', PhaseInv', [Next]_vars
  PROVE  KindInv'
<1>1. CASE queue'.phase # "up"
  <2>1. queue'.phase \in {"none", "init", "up"}
    BY DEF TypeInv
  <2>2. gpu'["bind"] = <<>> /\ \A i \in 1 .. Len(gpu'["exec"]) : gpu'["exec"][i].kind = "init"
    <3>1. CASE NoneInv'
      BY <3>1 DEF NoneInv, Contexts
    <3>2. CASE InitInv'
      BY <3>2 DEF InitInv, Job
    <3>3. QED
      BY <1>1, <2>1, <3>1, <3>2 DEF PhaseInv
  <2>3. QED
    BY <2>2 DEF KindInv, Kinds, Own
<1>2. CASE NewQueue
  BY <1>2 DEF NewQueue, KindInv, Kinds, Contexts
<1>3. gpu \in [Contexts -> Seq(Jobs)]
  BY Types
<1>4. ASSUME NEW c \in Contexts, NEW job \in Jobs, Push(c, job), c \in Kinds => job.kind \in Own(c)
      PROVE  KindInv'
  <2>1. ASSUME NEW d \in Kinds, NEW i \in 1 .. Len(gpu'[d]) PROVE gpu'[d][i].kind \in Own(d)
    <3>1. d \in Contexts
      BY DEF Kinds, Contexts
    <3>2. CASE d # c
      BY <1>3, <1>4, <2>1, <3>1, <3>2, Pushed DEF KindInv
    <3>3. CASE d = c
      <4>1. Len(gpu[c]) \in Nat /\ Len(gpu'[c]) = Len(gpu[c]) + 1 /\ gpu'[c][Len(gpu[c]) + 1] = job
        BY <1>3, <1>4, Pushed
      <4>2. CASE i = Len(gpu[c]) + 1
        BY <1>4, <2>1, <3>3, <4>1, <4>2
      <4>3. CASE i # Len(gpu[c]) + 1
        <5>1. i \in 1 .. Len(gpu[c])
          BY <2>1, <3>3, <4>1, <4>3
        <5>2. gpu'[c][i] = gpu[c][i]
          BY <1>3, <1>4, <5>1, Pushed
        <5>3. QED
          BY <2>1, <3>3, <5>1, <5>2 DEF KindInv
      <4>4. QED
        BY <4>2, <4>3
    <3>4. QED
      BY <3>2, <3>3
  <2>2. QED
    BY <2>1 DEF KindInv
<1>5. CASE FinishBegin \/ FlushUploads
  <2>1. CASE gpu' = gpu
    BY <2>1 DEF KindInv
  <2>2. CASE gpu' # gpu
    <3>1. PICK job \in Jobs : Push("upload", job)
      BY <1>5, <2>2, FlushEffects DEF FinishBegin, FlushUploads
    <3>2. QED
      BY <1>4, <3>1 DEF Contexts, Kinds
  <2>3. QED
    BY <2>1, <2>2
<1>6. CASE \/ Submit \/ UpdateTable \/ Install \/ InstallSync \/ Wait \/ Work \/ Signal
           \/ SubmitFails \/ Grow \/ AskUpload \/ UNCHANGED vars
  <2>1. CASE gpu' = gpu
    BY <2>1 DEF KindInv
  <2>2. CASE gpu' # gpu
    <3>1. PICK c \in Kinds : \E job \in Jobs : job.kind \in Own(c) /\ Push(c, job)
      BY <1>6, <2>2, UpPushes
    <3>2. PICK job \in Jobs : job.kind \in Own(c) /\ Push(c, job)
      BY <3>1
    <3>3. c \in Contexts
      BY DEF Kinds, Contexts
    <3>4. QED
      BY <1>4, <3>2, <3>3
  <2>3. QED
    BY <2>1, <2>2
<1>7. ASSUME NEW ch \in Contexts, GpuStep(ch) PROVE KindInv'
  <2>1. ASSUME NEW d \in Kinds, NEW i \in 1 .. Len(gpu'[d]) PROVE gpu'[d][i].kind \in Own(d)
    <3>1. d \in Contexts /\ gpu[ch] # <<>> /\ gpu' = [gpu EXCEPT ![ch] = Tail(@)]
      BY <1>7, GpuStepEffects DEF Kinds, Contexts
    <3>2. CASE d # ch
      BY <1>3, <1>7, <2>1, <3>1, <3>2, Popped DEF KindInv
    <3>3. CASE d = ch
      <4>1. Len(gpu[d]) \in Nat /\ Len(gpu'[d]) = Len(gpu[d]) - 1 /\ gpu'[d][i] = gpu[d][i + 1]
        BY <1>3, <2>1, <3>1, <3>3, Popped
      <4>2. i + 1 \in 1 .. Len(gpu[d])
        BY <2>1, <4>1
      <4>3. QED
        BY <4>1, <4>2 DEF KindInv
    <3>4. QED
      BY <3>2, <3>3
  <2>2. QED
    BY <2>1 DEF KindInv
<1>8. QED
  BY <1>1, <1>2, <1>5, <1>6, <1>7, UpSteps

(* Every step keeps the uploads in order. *)
LEMMA UploadStep ==
  ASSUME TypeInv, PhaseInv, CallInv, KindInv, UploadInv, TypeInv', PhaseInv', [Next]_vars
  PROVE  UploadInv'
<1> DEFINE jobs == gpu["upload"]
<1>1. /\ upload.asked \in Nat /\ upload.submitted \in Nat /\ upload.done \in Nat
      /\ upload'.asked \in Nat /\ upload'.submitted \in Nat /\ upload'.done \in Nat
  BY Bounds DEF TypeInv
<1>2. gpu \in [Contexts -> Seq(Jobs)] /\ "upload" \in Contexts /\ jobs \in Seq(Jobs)
  BY Types DEF Contexts
<1>3. \A i \in 1 .. Len(jobs) : jobs[i] \in Jobs /\ jobs[i].point \in Nat
  <2>1. \A job \in Jobs : job.point \in Nat
    BY Bounds DEF Jobs
  <2>2. \A i \in 1 .. Len(jobs) : jobs[i] \in Jobs
    BY <1>2
  <2>3. QED
    BY <2>1, <2>2
<1>4. ASSUME gpu'["upload"] = <<>>, upload'.submitted = upload'.done,
             upload'.done <= upload'.asked, upload'.fill \in {NoMem, queue'.cb0}
      PROVE  UploadInv'
  BY <1>1, <1>4 DEF UploadInv
<1>5. CASE queue'.phase # "up"
  <2>1. NoneInv' \/ InitInv'
    BY <1>5 DEF PhaseInv, TypeInv
  <2>2. gpu'["upload"] = <<>> /\ upload'.submitted = 0 /\ upload'.done = 0
        /\ upload'.fill \in {NoMem, queue'.cb0}
    BY <2>1 DEF NoneInv, InitInv, NoUpload, Contexts
  <2>3. QED
    BY <1>1, <1>4, <2>2
<1>6. CASE NewQueue
  BY <1>1, <1>4, <1>6 DEF NewQueue, Contexts
(* The jobs are as they were. *)
<1>7. ASSUME gpu'["upload"] = jobs, queue'.cb0 = queue.cb0, upload'.done = upload.done,
             upload'.submitted = upload.submitted, upload'.fill = upload.fill,
             upload.asked <= upload'.asked
      PROVE  UploadInv'
  BY <1>1, <1>7 DEF UploadInv
<1>8. CASE FinishBegin \/ FlushUploads
  <2>1. Flush \/ UNCHANGED <<upload, gpu>>
    BY <1>8 DEF FinishBegin, FlushUploads
  <2>2. queue' = queue
    BY <1>8 DEF FinishBegin, FlushUploads
  <2>3. CASE UNCHANGED <<upload, gpu>>
    BY <1>1, <1>7, <2>2, <2>3
  <2>4. CASE ~UNCHANGED <<upload, gpu>>
    <3> DEFINE job == [Job("upload") EXCEPT !.point = upload.asked, !.into = upload.fill]
    <3>1. /\ upload.asked # upload.submitted /\ job \in Jobs /\ Push("upload", job)
          /\ upload' = [upload EXCEPT !.submitted = upload.asked, !.fill = NoMem]
      BY <2>1, <2>4, FlushEffects
    <3>2. /\ upload'.submitted = upload.asked /\ upload'.asked = upload.asked
          /\ upload'.done = upload.done /\ upload'.fill = NoMem
      BY <3>1, Types
    <3>3. job.kind = "upload" /\ job.s = 0 /\ job.point = upload.asked /\ job.into = upload.fill
      BY DEF Job
    <3> HIDE DEF job
    <3>4. /\ Len(jobs) \in Nat /\ Len(gpu'["upload"]) = Len(jobs) + 1 /\ gpu'["upload"] # <<>>
          /\ gpu'["upload"][Len(jobs) + 1] = job
          /\ \A i \in 1 .. Len(jobs) : gpu'["upload"][i] = jobs[i]
      BY <1>2, <3>1, Pushed
    <3> HIDE DEF jobs
    <3>5. /\ upload.done <= upload.submitted /\ upload.submitted < upload.asked
          /\ upload.fill \in {NoMem, queue.cb0}
          /\ \A i \in 1 .. Len(jobs) :
               /\ jobs[i].kind = "upload" /\ jobs[i].s = 0
               /\ upload.done < jobs[i].point
               /\ \A j \in 1 .. i - 1 : jobs[j].point < jobs[i].point
               /\ jobs[i].into \in {NoMem, queue.cb0}
      BY <1>1, <3>1 DEF UploadInv, jobs
    <3>6. \A i \in 1 .. Len(jobs) : jobs[i].point <= upload.submitted
      <4>1. jobs # <<>> => jobs[Len(jobs)].point = upload.submitted
        BY DEF UploadInv, jobs
      <4>2. ASSUME NEW i \in 1 .. Len(jobs) PROVE jobs[i].point <= upload.submitted
        <5>1. jobs # <<>>
          BY <3>4, <4>2, EmptySeq
        <5>2. CASE i = Len(jobs)
          BY <1>1, <4>1, <5>1, <5>2
        <5>3. CASE i # Len(jobs)
          <6>1. Len(jobs) \in 1 .. Len(jobs) /\ i \in 1 .. Len(jobs) - 1
            BY <3>4, <4>2, <5>3
          <6>2. jobs[i].point < jobs[Len(jobs)].point
            BY <3>5, <6>1
          <6>3. QED
            BY <1>1, <1>3, <4>1, <5>1, <6>1, <6>2
        <5>4. QED
          BY <5>2, <5>3
      <4>3. QED
        BY <4>2
    <3>7. ASSUME NEW i \in 1 .. Len(gpu'["upload"])
          PROVE  LET new == gpu'["upload"] IN
                 /\ new[i].kind = "upload" /\ new[i].s = 0
                 /\ upload'.done < new[i].point
                 /\ \A j \in 1 .. i - 1 : new[j].point < new[i].point
                 /\ new[i].into \in {NoMem, queue'.cb0}
      <4>1. CASE i \in 1 .. Len(jobs)
        <5>1. \A j \in 1 .. i - 1 : j \in 1 .. Len(jobs)
          BY <3>4, <4>1
        <5>2. QED
          BY <2>2, <3>2, <3>4, <3>5, <4>1, <5>1
      <4>2. CASE i = Len(jobs) + 1
        <5>1. gpu'["upload"][i] = job
          BY <3>4, <4>2
        <5>2. \A j \in 1 .. i - 1 : gpu'["upload"][j].point < upload.asked
          <6>1. \A j \in 1 .. i - 1 : j \in 1 .. Len(jobs)
            BY <3>4, <4>2
          <6>2. QED
            BY <1>1, <1>3, <3>4, <3>5, <3>6, <6>1, SMTT(30)
        <5>3. QED
          BY <1>1, <2>2, <3>2, <3>3, <3>5, <5>1, <5>2
      <4>3. QED
        BY <3>4, <3>7, <4>1, <4>2
    <3>8. gpu'["upload"][Len(gpu'["upload"])].point = upload'.submitted
      BY <3>2, <3>3, <3>4
    <3>9. upload'.done <= upload'.submitted /\ upload'.submitted <= upload'.asked
      BY <1>1, <3>2, <3>5
    <3>10. QED
      BY <3>2, <3>4, <3>7, <3>8, <3>9 DEF UploadInv
  <2>5. QED
    BY <2>3, <2>4
<1>9. CASE \/ Submit \/ UpdateTable \/ Install \/ InstallSync \/ Wait \/ Work \/ Signal
           \/ SubmitFails \/ Grow \/ AskUpload \/ UNCHANGED vars
  <2>1. /\ queue'.cb0 = queue.cb0
        /\ upload'.done = upload.done /\ upload'.submitted = upload.submitted
        /\ upload'.fill = upload.fill /\ upload'.asked \in {upload.asked, upload.asked + 1}
    BY <1>9, UpPushes
  <2>2. gpu'["upload"] = jobs
    <3>1. CASE gpu' # gpu
      <4>1. PICK c \in Kinds : \E job \in Jobs : Push(c, job)
        BY <1>9, <3>1, UpPushes
      <4>2. c \in Contexts /\ c # "upload"
        BY DEF Kinds, Contexts
      <4>3. QED
        BY <1>2, <4>1, <4>2, Pushed
    <3>2. QED
      BY <3>1
  <2>3. QED
    BY <1>1, <1>7, <2>1, <2>2
<1>10. ASSUME NEW ch \in Kinds, GpuStep(ch) PROVE UploadInv'
  <2>1. ch \in Contexts /\ ch # "upload"
    BY DEF Kinds, Contexts
  <2>2. /\ gpu[ch] # <<>> /\ gpu' = [gpu EXCEPT ![ch] = Tail(@)] /\ queue' = queue
        /\ gpu[ch][1].kind # "upload" => upload' = upload
    BY <1>10, <2>1, GpuStepEffects
  <2>3. Len(gpu[ch]) \in Nat /\ Len(gpu[ch]) > 0 /\ gpu'["upload"] = jobs
    BY <1>2, <2>1, <2>2, Popped
  <2>4. gpu[ch][1].kind # "upload"
    BY <2>3 DEF KindInv, Kinds, Own
  <2>5. QED
    BY <1>1, <1>7, <2>2, <2>3, <2>4
<1>11. CASE GpuStep("upload")
  <2>1. /\ jobs # <<>> /\ gpu' = [gpu EXCEPT !["upload"] = Tail(@)] /\ queue' = queue
        /\ jobs[1].kind = "upload" => upload' = [upload EXCEPT !.done = jobs[1].point]
    BY <1>2, <1>11, GpuStepEffects
  <2>2. /\ Len(jobs) \in Nat /\ Len(jobs) > 0 /\ Len(gpu'["upload"]) = Len(jobs) - 1
        /\ \A i \in 1 .. Len(gpu'["upload"]) : gpu'["upload"][i] = jobs[i + 1]
        /\ gpu'["upload"] = <<>> <=> Len(jobs) = 1
    BY <1>2, <2>1, Popped
  <2> HIDE DEF jobs
  <2>3. /\ upload.submitted <= upload.asked /\ upload.fill \in {NoMem, queue.cb0}
        /\ jobs[Len(jobs)].point = upload.submitted
        /\ \A i \in 1 .. Len(jobs) :
             /\ jobs[i].kind = "upload" /\ jobs[i].s = 0
             /\ \A j \in 1 .. i - 1 : jobs[j].point < jobs[i].point
             /\ jobs[i].into \in {NoMem, queue.cb0}
    BY <2>1 DEF UploadInv, jobs
  <2>4. 1 \in 1 .. Len(jobs) /\ jobs[1].kind = "upload"
    BY <2>2, <2>3
  <2>5. /\ upload'.done = jobs[1].point /\ upload'.submitted = upload.submitted
        /\ upload'.asked = upload.asked /\ upload'.fill = upload.fill
    BY <2>1, <2>4, Types
  <2>6. upload'.done <= upload'.submitted
    <3>1. CASE Len(jobs) = 1
      BY <1>1, <2>3, <2>5, <3>1
    <3>2. CASE Len(jobs) # 1
      <4>1. Len(jobs) \in 1 .. Len(jobs) /\ 1 \in 1 .. Len(jobs) - 1
        BY <2>2, <3>2
      <4>2. jobs[1].point < jobs[Len(jobs)].point
        BY <2>3, <4>1
      <4>3. QED
        BY <1>1, <1>3, <2>3, <2>4, <2>5, <4>2
    <3>3. QED
      BY <3>1, <3>2
  <2>7. gpu'["upload"] = <<>> => upload'.done = upload'.submitted
    BY <2>2, <2>3, <2>5
  <2>8. gpu'["upload"] # <<>> => gpu'["upload"][Len(gpu'["upload"])].point = upload'.submitted
    <3>1. SUFFICES ASSUME gpu'["upload"] # <<>>
                   PROVE  gpu'["upload"][Len(gpu'["upload"])].point = upload'.submitted
      OBVIOUS
    <3>2. Len(jobs) - 1 \in 1 .. Len(gpu'["upload"])
      BY <2>2, <3>1
    <3>3. QED
      BY <2>2, <2>3, <2>5, <3>2
  <2>9. ASSUME NEW i \in 1 .. Len(gpu'["upload"])
        PROVE  LET new == gpu'["upload"] IN
               /\ new[i].kind = "upload" /\ new[i].s = 0
               /\ upload'.done < new[i].point
               /\ \A j \in 1 .. i - 1 : new[j].point < new[i].point
               /\ new[i].into \in {NoMem, queue'.cb0}
    <3>1. i + 1 \in 1 .. Len(jobs) /\ 1 \in 1 .. (i + 1) - 1 /\ gpu'["upload"][i] = jobs[i + 1]
      BY <2>2, <2>9
    <3>2. ASSUME NEW j \in 1 .. i - 1 PROVE gpu'["upload"][j].point < gpu'["upload"][i].point
      <4>1. j + 1 \in 1 .. (i + 1) - 1 /\ gpu'["upload"][j] = jobs[j + 1]
        BY <2>2, <2>9, <3>2
      <4>2. QED
        BY <2>3, <3>1, <4>1
    <3>3. QED
      BY <2>1, <2>3, <2>5, <3>1, <3>2
  <2>10. QED
    BY <1>1, <2>1, <2>3, <2>5, <2>6, <2>7, <2>8, <2>9 DEF UploadInv
<1>12. Contexts = Kinds \cup {"upload"}
  BY DEF Kinds, Contexts
<1>13. QED
  BY <1>5, <1>6, <1>8, <1>9, <1>10, <1>11, <1>12, UpSteps

-----------------------------------------------------------------------------
(***************************************************************************)
(* The invariant of the queue, of which the rest are consequences or which  *)
(* they need.                                                              *)
(***************************************************************************)
QueueInv == TypeInv /\ PhaseInv /\ CallInv /\ KindInv /\ UploadInv

(* QueueInv holds of no queue, ... *)
LEMMA QueueInit == Init => QueueInv /\ NoneInv
<1> SUFFICES ASSUME Init PROVE QueueInv /\ NoneInv
  OBVIOUS
<1>1. NoneInv
  BY DEF Init, NoneInv, Contexts
<1>2. TypeInv
  <2>1. NoTables \in QueueState /\ NoMem \in Optional /\ drains \in BOOLEAN
    BY JobTypes, Bounds, QueueAssumption DEF Init
  <2>2. NoReq \in [Kinds -> [point : 0 .. MaxUploads, after : 0 .. MaxSubmits, work : 0 .. 2]]
    BY JobTypes
  <2>3. gpu \in [Contexts -> Seq(Jobs)]
    BY DEF Init, Contexts
  <2>4. /\ NoQueue \in [phase : {"none", "init", "up"}, cb0 : Optional, lost : BOOLEAN,
                         state : QueueState, submits : 0 .. MaxSubmits]
        /\ NoUpload \in [asked : 0 .. MaxUploads, submitted : 0 .. MaxUploads,
                          done : 0 .. MaxUploads, fill : Optional]
        /\ NoDone \in [signalled : SUBSET Submits, accepted : SUBSET Submits,
                        ran : [Submits -> Nat], want : [Submits -> 0 .. 2]]
    BY <2>1, Numbers DEF NoQueue, NoUpload, NoDone
  <2>5. refs \in [Mems -> Int]
    BY DEF Init
  <2>6. QED
    BY <2>1, <2>2, <2>3, <2>4, <2>5, IdleType DEF Init, TypeInv
<1>3. queue.phase = "none" /\ call = Idle /\ ~queue.lost /\ req = NoReq
  BY DEF Init, NoQueue
<1>4. PhaseInv
  BY <1>1, <1>3 DEF PhaseInv, NoneInv, Idle, Contexts
<1>5. CallInv
  BY <1>3 DEF CallInv, Submitting
<1>6. KindInv
  BY <1>1 DEF NoneInv, KindInv, Kinds, Contexts
<1>7. UploadInv
  BY <1>1 DEF NoneInv, UploadInv, Contexts, NoUpload
<1>8. QED
  BY <1>1, <1>2, <1>4, <1>5, <1>6, <1>7 DEF QueueInv

(* ... every step keeps it, ... *)
LEMMA QueueStep == QueueInv /\ [Next]_vars => QueueInv'
<1> SUFFICES ASSUME QueueInv, [Next]_vars PROVE QueueInv'
  OBVIOUS
<1>1. TypeInv /\ PhaseInv /\ CallInv /\ KindInv /\ UploadInv
  BY DEF QueueInv
<1>2. TypeInv'
  BY <1>1, TypeStep
<1>3. PhaseInv'
  BY <1>1, PhaseStep
<1>4. CallInv'
  BY <1>1, <1>2, <1>3, CallStep
<1>5. KindInv'
  BY <1>1, <1>2, <1>3, KindStep
<1>6. UploadInv'
  BY <1>1, <1>2, <1>3, UploadStep
<1>7. QED
  BY <1>2, <1>3, <1>4, <1>5, <1>6 DEF QueueInv

(* ... and so it always holds. *)
LEMMA QueueAlways == Spec => []QueueInv
<1>1. QED
  BY QueueInit, QueueStep, PTL DEF Spec

(* Without a queue no memory is referenced. *)
LEMMA RefsInit == Init => RefsExact
<1> SUFFICES ASSUME Init, NEW m \in Mems PROVE refs[m] = Holders(m)
  BY DEF RefsExact
<1>1. Holders(m) = Count(NoTables, m) + Count(NoTables, m) + One(NoMem, m) + One(NoMem, m)
  BY HoldersCounted DEF Init, NoQueue, Idle
<1>2. One(NoMem, m) = 0
  BY Bounds DEF One
<1>3. QED
  BY <1>1, <1>2, CountNone DEF Init

(* The references of every memory are counted, whichever step of a creation, *)
(* a submission or a growth fails: none is leaked, none given back twice.   *)
THEOREM RefsCorrect == Spec => []RefsExact
<1>1. QueueInv /\ RefsExact /\ [Next]_vars => RefsExact'
  BY RefsStep DEF QueueInv
<1>2. QED
  BY <1>1, RefsInit, QueueAlways, PTL DEF Spec

(* Every reachable state is well typed; a memory has at most a reference of  *)
(* each table, twice, one of the root table and one of the words of a call.  *)
THEOREM TypeCorrect == Spec => []TypeOK
<1>1. QueueInv /\ RefsExact => TypeOK
  <2> SUFFICES ASSUME QueueInv, RefsExact PROVE TypeOK
    OBVIOUS
  <2>1. TypeInv /\ UploadInv
    BY DEF QueueInv
  <2>2. refs \in [Mems -> 0 .. 2 * Len(Tables) + 2]
    <3>1. ASSUME NEW m \in Mems PROVE refs[m] \in 0 .. 2 * Len(Tables) + 2
      <4>1. refs[m] = Count(table, m) + Count(queue.state, m) + One(queue.cb0, m) + One(call.push, m)
        BY HoldersCounted DEF RefsExact
      <4>2. /\ Count(table, m) \in Nat /\ Count(table, m) <= Len(Tables)
            /\ Count(queue.state, m) \in Nat /\ Count(queue.state, m) <= Len(Tables)
        BY CountFacts
      <4>3. One(queue.cb0, m) \in {0, 1} /\ One(call.push, m) \in {0, 1}
        BY DEF One
      <4>4. QED
        BY <4>1, <4>2, <4>3, Bounds
    <3>2. refs \in [Mems -> Int]
      BY <2>1, Types
    <3>3. QED
      BY <3>1, <3>2
  <2>3. \A c \in DOMAIN gpu : \A i \in DOMAIN gpu[c] : gpu[c][i].s \in 0 .. MaxSubmits
    <3>1. gpu \in [Contexts -> Seq(Jobs)]
      BY <2>1, Types
    <3>2. \A c \in DOMAIN gpu : \A i \in DOMAIN gpu[c] : gpu[c][i] \in Jobs
      BY <3>1
    <3>3. QED
      BY <3>2 DEF Jobs
  <2>4. upload.done <= upload.submitted /\ upload.submitted <= upload.asked
    BY <2>1 DEF UploadInv
  <2>5. /\ drains \in BOOLEAN
        /\ table \in [Names -> [mem : Mems \cup {NoMem}, count : 0 .. MaxCount]]
        /\ queue \in [phase : {"none", "init", "up"}, cb0 : Mems \cup {NoMem}, lost : BOOLEAN,
                      state : [Names -> [mem : Mems \cup {NoMem}, count : 0 .. MaxCount]],
                      submits : 0 .. MaxSubmits]
        /\ req \in [{"exec", "bind"} -> [point : 0 .. MaxUploads, after : 0 .. MaxSubmits, work : 0 .. 2]]
    BY <2>1 DEF TypeInv, QueueState, TableState, Optional, Kinds
  <2>6. QED
    BY <2>2, <2>3, <2>4, <2>5 DEF TypeOK
<1>2. QED
  BY <1>1, QueueAlways, RefsCorrect, PTL

-----------------------------------------------------------------------------
(***************************************************************************)
(* The tables of the engine.  What a submission needs is what it saw when   *)
(* it began; what the queue knows is at least that once it was updated,    *)
(* and the engine has what the queue knows except from an update on until  *)
(* the words of its installation ran.                                      *)
(***************************************************************************)
Fits(s, need) == \A t \in Names : need[t].count <= s[t].count

(* A submission that draws. *)
Uses == call.kind = "exec" /\ (call.left > 0 \/ req["exec"].work > 0)

(* What a submission needs is in the tables, and in what the queue knows as  *)
(* far as its update went.                                                 *)
NeedInv ==
  Submitting =>
    /\ Fits(table, call.need)
    /\ \A i, j \in 1 .. Len(Tables) :
         call.pc = Tables[i] /\ j < i => call.need[Tables[j]].count <= queue.state[Tables[j]].count
    /\ call.pc \in {"install", "sync", "flush", "wait", "work", "signal"} /\ Uses =>
         Fits(queue.state, call.need)

(* Where the engine has what the queue knows. *)
Installed ==
  \/ call.pc \in {"flush", "wait", "work", "signal"}
  \/ call.pc \in Names \cup {"install"} /\ ~call.dirty
  \/ call.pc = "idle" /\ ~queue.lost

EngineCall ==
  queue.phase = "up" =>
    /\ call.pc = "sync" => IF gpu["exec"] = <<>> THEN engine = queue.state
                           ELSE gpu["exec"][Len(gpu["exec"])].kind = "tables"
    /\ Installed => engine = queue.state

(* An installation is the last job, and waited for; the engine has what a    *)
(* job that draws needs already when the job is given.                      *)
EngineJobs ==
  \A i \in 1 .. Len(gpu["exec"]) :
    /\ gpu["exec"][i].kind = "tables" =>
         /\ queue.phase = "up" /\ call.pc = "sync" /\ i = Len(gpu["exec"])
         /\ gpu["exec"][i].need = queue.state
    /\ gpu["exec"][i].kind = "exec" /\ gpu["exec"][i].work > 0 =>
         /\ Fits(engine, gpu["exec"][i].need)
         /\ drains => \A t \in Names : engine[t].mem = queue.state[t].mem

(* Every step keeps what a submission knows of its tables. *)
LEMMA NeedStep ==
  ASSUME QueueInv, QueueInv', NeedInv, [Next]_vars
  PROVE  NeedInv'
<1> USE DEF QueueInv
<1> SUFFICES ASSUME queue'.phase = "up" PROVE NeedInv'
  BY DEF NeedInv, Submitting
<1>0. TypeInv /\ PhaseInv /\ CallInv /\ TypeInv' /\ PhaseInv'
  OBVIOUS
<1>1. ASSUME call' \notin SubmitCall PROVE NeedInv'
  BY <1>1 DEF NeedInv, Submitting
(* A step of a submission after its update. *)
<1>2. ASSUME Submitting, Same(call', call), UNCHANGED <<table, queue>>,
             call'.pc \in {"sync", "flush", "wait", "work", "signal"} =>
               call.pc \in {"install", "sync", "flush", "wait", "work", "signal"} /\ (Uses' => Uses),
             call'.pc \in {"sync", "flush", "wait", "work", "signal", "fail"}
      PROVE  NeedInv'
  <2>1. \A i \in 1 .. Len(Tables) : call'.pc # Tables[i]
    BY <1>2, Bounds DEF SubmitLabels
  <2>2. call'.pc # "install"
    BY <1>2
  <2>3. Fits(table', call'.need)
    BY <1>2 DEF NeedInv, Same, Fits
  <2>4. call'.pc \in {"sync", "flush", "wait", "work", "signal"} /\ Uses' => Fits(queue'.state, call'.need)
    BY <1>2 DEF NeedInv, Same, Fits
  <2>5. QED
    BY <2>1, <2>2, <2>3, <2>4 DEF NeedInv
<1>3. table \in QueueState /\ queue.state \in QueueState
  BY <1>0, Types DEF TypeInv
<1>4. CASE NewQueue \/ FinishBegin \/ SubmitFails
  <2>1. CASE NewQueue \/ SubmitFails
    BY <1>1, <2>1, IdleCall DEF NewQueue, SubmitFails
  <2>2. CASE FinishBegin
    <3>1. call' = [call EXCEPT !.pc = "finish"]
      BY <2>2 DEF FinishBegin, Goto
    <3>2. call'.pc = "finish"
      BY <1>0, <3>1, Types DEF InitCall, SubmitCall
    <3>3. QED
      BY <1>1, <3>2, IdleCall
  <2>3. QED
    BY <1>4, <2>1, <2>2
<1>5. CASE Submit
  <2>1. CASE call' = Idle
    BY <1>1, <2>1, IdleCall
  <2>2. CASE call' # Idle
    <3>1. /\ call.pc = "idle" /\ queue.phase = "up" /\ ~queue.lost
          /\ UNCHANGED <<table, req>> /\ call' \in SubmitCall /\ call'.need = table
          /\ \/ call'.pc = "wait" /\ (call'.kind = "bind" \/ call'.left = 0)
             \/ call'.pc = Tables[1] /\ call'.kind = "exec"
      BY <1>0, <1>5, <2>2, SubmitEffects
    <3>2. req'["exec"].work = 0
      BY <1>0, <3>1 DEF CallInv, NoReq
    <3>3. Fits(table', call'.need)
      <4>1. \A t \in Names : table[t].count \in Nat
        BY <1>3, Bounds DEF QueueState, TableState
      <4>2. QED
        BY <3>1, <4>1 DEF Fits
    <3>4. CASE call'.pc = "wait"
      <4>1. ~Uses'
        <5>1. call'.pc # Tables[1]
          BY <3>4, Bounds DEF SubmitLabels
        <5>2. call'.kind = "bind" \/ call'.left = 0
          BY <3>1, <5>1
        <5>3. QED
          BY <3>2, <5>2 DEF Uses
      <4>2. \A i \in 1 .. Len(Tables) : call'.pc # Tables[i]
        BY <3>4, Bounds DEF SubmitLabels
      <4>3. QED
        BY <3>3, <4>1, <4>2 DEF NeedInv
    <3>5. CASE call'.pc = Tables[1]
      <4>1. call'.pc \notin {"install", "sync", "flush", "wait", "work", "signal"}
        BY <3>5, Bounds DEF SubmitLabels
      <4>2. \A i \in 1 .. Len(Tables) : call'.pc = Tables[i] => i = 1
        <5>1. 1 \in DOMAIN Tables /\ DOMAIN Tables = 1 .. Len(Tables)
          BY Bounds
        <5>2. \A i \in DOMAIN Tables : Tables[1] = Tables[i] => 1 = i
          BY <5>1, QueueAssumption
        <5>3. QED
          BY <3>5, <5>1, <5>2
      <4>3. QED
        BY <3>3, <4>1, <4>2 DEF NeedInv
    <3>6. QED
      BY <3>1, <3>4, <3>5
  <2>3. QED
    BY <2>1, <2>2
<1>6. CASE UpdateTable
  <2>1. PICK t \in Names :
          /\ Submitting /\ call.pc = t /\ Same(call', call) /\ call'.pc = NextTable(t)
          /\ queue'.state = [queue.state EXCEPT ![t] = IF Changed(t) THEN table[t] ELSE @]
          /\ UNCHANGED table
    BY <1>0, <1>6, UpdateTableEffects
  <2>2. PICK i \in 1 .. Len(Tables) :
          /\ Tables[i] = t
          /\ \A j \in 1 .. Len(Tables) : Tables[j] = t => j = i
          /\ IF i < Len(Tables) THEN NextTable(t) = Tables[i + 1] ELSE NextTable(t) = "install"
    BY NextTableFacts
  <2>3. call.need \in QueueState /\ \A u \in Names : call.need[u].count <= table[u].count
    BY <2>1 DEF NeedInv, Submitting, SubmitCall, Fits
  <2>4. ASSUME NEW j \in 1 .. Len(Tables), j <= i
        PROVE  call.need[Tables[j]].count <= queue'.state[Tables[j]].count
    <3>1. Tables[j] \in Names
      BY Bounds
    <3>2. CASE j = i
      <4>1. Tables[j] = t
        BY <2>2, <3>2
      <4>2. queue'.state[t].count = table[t].count
        BY <1>3, <2>1 DEF Changed, QueueState
      <4>3. QED
        BY <2>3, <4>1, <4>2
    <3>3. CASE j # i
      <4>1. Tables[j] # t /\ j < i
        BY <2>2, <2>4, <3>3, Bounds
      <4>2. queue'.state[Tables[j]] = queue.state[Tables[j]]
        BY <1>3, <2>1, <3>1, <4>1 DEF QueueState
      <4>3. call.need[Tables[j]].count <= queue.state[Tables[j]].count
        BY <2>1, <2>2, <4>1 DEF NeedInv
      <4>4. QED
        BY <4>2, <4>3
    <3>4. QED
      BY <3>2, <3>3
  <2>5. Fits(table', call'.need)
    BY <2>1 DEF NeedInv, Same, Fits
  <2>6. CASE i < Len(Tables)
    <3>1. call'.pc = Tables[i + 1] /\ i + 1 \in 1 .. Len(Tables)
      BY <2>1, <2>2, <2>6, Bounds
    <3>2. call'.pc \notin {"install", "sync", "flush", "wait", "work", "signal"}
      BY <3>1, Bounds DEF SubmitLabels
    <3>3. \A k \in 1 .. Len(Tables) : call'.pc = Tables[k] => k = i + 1
      BY <3>1, Bounds, QueueAssumption
    <3>4. ASSUME NEW k \in 1 .. Len(Tables), NEW j \in 1 .. Len(Tables), call'.pc = Tables[k], j < k
          PROVE  call'.need[Tables[j]].count <= queue'.state[Tables[j]].count
      <4>1. j <= i
        BY <3>3, <3>4
      <4>2. QED
        BY <2>1, <2>4, <4>1 DEF Same
    <3>5. QED
      BY <2>5, <3>2, <3>4 DEF NeedInv
  <2>7. CASE ~(i < Len(Tables))
    <3>1. call'.pc = "install"
      BY <2>1, <2>2, <2>7
    <3>2. \A k \in 1 .. Len(Tables) : call'.pc # Tables[k]
      BY <3>1, Bounds DEF SubmitLabels
    <3>3. Fits(queue'.state, call'.need)
      <4>1. ASSUME NEW u \in Names PROVE call.need[u].count <= queue'.state[u].count
        <5>1. PICK j \in 1 .. Len(Tables) : Tables[j] = u
          BY Bounds DEF Names
        <5>2. j <= i
          BY <2>7, Bounds
        <5>3. QED
          BY <2>4, <5>1, <5>2
      <4>2. QED
        BY <2>1, <4>1 DEF Fits, Same
    <3>4. QED
      BY <2>5, <3>2, <3>3 DEF NeedInv
  <2>8. QED
    BY <2>6, <2>7
<1>7. ASSUME Install \/ InstallSync \/ FlushUploads PROVE NeedInv'
  <2>1. /\ Submitting /\ call.pc \in {"install", "sync", "flush"} /\ Same(call', call)
        /\ call'.left = call.left /\ UNCHANGED <<table, queue, req>>
        /\ call'.pc \in {"sync", "flush", "wait", "fail"}
    BY <1>0, <1>7, InstallEffects, InstallSyncEffects, FlushUploadsEffects
  <2>2. Uses' => Uses
    BY <2>1 DEF Uses, Same
  <2>3. QED
    BY <1>2, <2>1, <2>2
<1>8. CASE Wait
  <2>1. /\ Submitting /\ call.pc = "wait" /\ Same(call', call)
        /\ call'.left = call.left /\ UNCHANGED <<table, queue>>
        /\ req'[call.kind].work = req[call.kind].work
        /\ call'.pc \in {"work", "signal", "fail"}
    BY <1>0, <1>8, WaitEffects
  <2>2. Uses' => Uses
    BY <2>1 DEF Uses, Same
  <2>3. QED
    BY <1>2, <2>1, <2>2
<1>9. CASE Work
  <2>1. /\ Submitting /\ call.pc = "work" /\ Same(call', call) /\ call.left > 0
        /\ UNCHANGED <<table, queue>> /\ call'.pc \in {"work", "signal", "fail"}
    BY <1>0, <1>9, WorkEffects
  <2>2. Uses' => Uses
    BY <2>1 DEF Uses, Same
  <2>3. QED
    BY <1>2, <2>1, <2>2
<1>10. CASE Signal
  <2>1. CASE call' = Idle
    BY <1>1, <2>1, IdleCall
  <2>2. CASE call' # Idle
    <3>1. Submitting /\ Same(call', call) /\ call'.pc = "fail" /\ UNCHANGED <<table, queue>>
      BY <1>0, <1>10, <2>2, SignalEffects
    <3>2. QED
      BY <1>2, <3>1
  <2>3. QED
    BY <2>1, <2>2
<1>11. CASE Grow
  <2>1. PICK t \in Names, m \in Optional :
          /\ table' = [table EXCEPT ![t] = [mem |-> m, count |-> @.count + 1]]
          /\ UNCHANGED <<queue, call, req>>
    BY <1>0, <1>11, RefTypes DEF Grow, Free, Optional
  <2>2. ASSUME NEW u \in Names, NEW need \in QueueState, need[u].count <= table[u].count
        PROVE  need[u].count <= table'[u].count
    <3>1. need[u].count \in Nat /\ table[u].count \in Nat
      BY <1>3, Bounds DEF QueueState, TableState
    <3>2. table'[u].count = table[u].count \/ table'[u].count = table[u].count + 1
      BY <1>3, <2>1 DEF QueueState
    <3>3. QED
      BY <2>2, <3>1, <3>2
  <2>3. Submitting => Fits(table', call.need)
    BY <2>2 DEF NeedInv, Submitting, SubmitCall, Fits
  <2>4. QED
    BY <2>1, <2>3 DEF NeedInv, Submitting, Uses
<1>12. CASE AskUpload \/ (\E c \in Contexts : GpuStep(c)) \/ UNCHANGED vars
  <2>1. UNCHANGED <<table, queue, call, req>>
    BY <1>12 DEF AskUpload, GpuStep, vars
  <2>2. QED
    BY <2>1 DEF NeedInv, Submitting, Uses
<1>13. QED
  BY <1>0, <1>4, <1>5, <1>6, <1>7, <1>8, <1>9, <1>10, <1>11, <1>12, UpSteps

(* A job given to the context of draws, after those it has. *)
LEMMA EnginePush ==
  ASSUME TypeInv, EngineJobs, NEW job \in Jobs, Push("exec", job), call.pc # "sync",
         UNCHANGED <<drains, engine, queue>>,
         job.kind = "tables" => queue.phase = "up" /\ call'.pc = "sync" /\ job.need = queue.state,
         job.kind = "exec" /\ job.work > 0 => engine = queue.state /\ Fits(engine, job.need)
  PROVE  EngineJobs'
<1> DEFINE n == Len(gpu["exec"])
<1>1. gpu \in [Contexts -> Seq(Jobs)] /\ "exec" \in Contexts
  BY Types DEF Contexts
<1>2. /\ n \in Nat /\ Len(gpu'["exec"]) = n + 1 /\ gpu'["exec"][n + 1] = job
      /\ \A i \in 1 .. n : gpu'["exec"][i] = gpu["exec"][i]
  BY <1>1, Pushed
<1> HIDE DEF n
<1>3. ASSUME NEW i \in 1 .. n + 1
      PROVE  /\ gpu'["exec"][i].kind = "tables" =>
                  /\ queue'.phase = "up" /\ call'.pc = "sync" /\ i = n + 1
                  /\ gpu'["exec"][i].need = queue'.state
             /\ gpu'["exec"][i].kind = "exec" /\ gpu'["exec"][i].work > 0 =>
                  /\ Fits(engine', gpu'["exec"][i].need)
                  /\ drains' => \A t \in Names : engine'[t].mem = queue'.state[t].mem
  <2>1. CASE i \in 1 .. n
    BY <1>2, <2>1 DEF EngineJobs, Fits, n
  <2>2. CASE i = n + 1
    <3>1. job.kind = "exec" /\ job.work > 0 =>
            /\ Fits(engine', job.need) /\ \A t \in Names : engine'[t].mem = queue'.state[t].mem
      BY DEF Fits
    <3>2. QED
      BY <1>2, <2>2, <3>1
  <2>3. QED
    BY <1>2, <1>3, <2>1, <2>2
<1>4. QED
  BY <1>2, <1>3 DEF EngineJobs

(* Every step keeps what the engine and the jobs know of the tables. *)
LEMMA EngineStep ==
  ASSUME QueueInv, QueueInv', NeedInv, EngineCall, EngineJobs, [Next]_vars
  PROVE  EngineCall' /\ EngineJobs'
<1>0. TypeInv /\ PhaseInv /\ CallInv /\ KindInv /\ UploadInv /\ TypeInv' /\ PhaseInv'
  BY DEF QueueInv
<1> DEFINE jobs == gpu["exec"]
<1>1. gpu \in [Contexts -> Seq(Jobs)] /\ "exec" \in Contexts /\ jobs \in Seq(Jobs) /\ Len(jobs) \in Nat
  BY <1>0, Types DEF Contexts
<1> SUFFICES ASSUME queue'.phase = "up" PROVE EngineCall' /\ EngineJobs'
  <2>1. ASSUME queue'.phase # "up" PROVE EngineCall' /\ EngineJobs'
    <3>1. \A i \in 1 .. Len(gpu'["exec"]) : gpu'["exec"][i].kind = "init"
      <4>1. NoneInv' \/ InitInv'
        BY <1>0, <2>1 DEF PhaseInv, TypeInv
      <4>2. CASE NoneInv'
        BY <4>2 DEF NoneInv, Contexts
      <4>3. CASE InitInv'
        BY <4>3 DEF InitInv, Job
      <4>4. QED
        BY <4>1, <4>2, <4>3
    <3>2. QED
      BY <2>1, <3>1 DEF EngineCall, EngineJobs
  <2>2. QED
    BY <2>1
(* The jobs of a step that leaves them alone. *)
<1>2. ASSUME gpu'["exec"] = jobs, engine' = engine, drains' = drains,
             \/ call.pc # "sync"
             \/ call' = call /\ queue'.phase = queue.phase /\ queue'.state = queue.state
             \/ jobs = <<>>,
             queue'.state = queue.state \/ (drains => jobs = <<>>)
      PROVE  EngineJobs'
  <2>1. ASSUME NEW i \in 1 .. Len(jobs)
        PROVE  /\ jobs[i].kind = "tables" =>
                    /\ queue'.phase = "up" /\ call'.pc = "sync" /\ i = Len(jobs)
                    /\ jobs[i].need = queue'.state
               /\ jobs[i].kind = "exec" /\ jobs[i].work > 0 =>
                    /\ Fits(engine', jobs[i].need)
                    /\ drains' => \A t \in Names : engine'[t].mem = queue'.state[t].mem
    <3>1. jobs # <<>>
      BY <1>1, <2>1, EmptySeq
    <3>2. /\ jobs[i].kind = "tables" =>
               queue.phase = "up" /\ call.pc = "sync" /\ i = Len(jobs) /\ jobs[i].need = queue.state
          /\ jobs[i].kind = "exec" /\ jobs[i].work > 0 =>
               /\ Fits(engine, jobs[i].need)
               /\ drains => \A t \in Names : engine[t].mem = queue.state[t].mem
      BY <2>1 DEF EngineJobs
    <3>3. jobs[i].kind = "exec" /\ jobs[i].work > 0 =>
            /\ Fits(engine', jobs[i].need)
            /\ drains' => \A t \in Names : engine'[t].mem = queue'.state[t].mem
      BY <1>2, <3>1, <3>2 DEF Fits
    <3>4. jobs[i].kind = "tables" =>
            /\ queue'.phase = "up" /\ call'.pc = "sync" /\ i = Len(jobs)
            /\ jobs[i].need = queue'.state
      BY <1>2, <3>1, <3>2
    <3>5. QED
      BY <3>3, <3>4
  <2>2. QED
    BY <1>2, <2>1 DEF EngineJobs
(* The step of a call to a place where the engine has the tables, or any.   *)
<1>3. ASSUME call'.pc # "sync", Installed' => engine' = queue'.state PROVE EngineCall'
  BY <1>3 DEF EngineCall
<1>4. CASE NewQueue
  BY <1>3, <1>4, <1>1 DEF NewQueue, EngineJobs, Contexts
<1>5. CASE queue.phase = "up" /\ FinishBegin
  <2>1. /\ call' = [call EXCEPT !.pc = "finish"] /\ jobs = <<>> /\ UNCHANGED <<drains, engine, queue>>
        /\ Flush
    BY <1>5 DEF FinishBegin, Goto
  <2>2. call'.pc = "finish"
    BY <1>0, <2>1, Types DEF InitCall, SubmitCall
  <2>3. gpu'["exec"] = jobs
    <3>1. CASE gpu' = gpu
      BY <3>1
    <3>2. CASE gpu' # gpu
      <4>1. PICK job \in Jobs : Push("upload", job)
        BY <1>0, <2>1, <3>2, FlushEffects
      <4>2. QED
        BY <1>1, <4>1, Pushed DEF Contexts
    <3>3. QED
      BY <3>1, <3>2
  <2>4. ~Installed'
    BY <2>2, Bounds DEF Installed
  <2>5. QED
    BY <1>2, <1>3, <2>1, <2>2, <2>3, <2>4
<1>6. CASE queue.phase = "up" /\ Submit
  <2>1. /\ call.pc = "idle" /\ UNCHANGED <<drains, gpu, engine>> /\ queue'.state = queue.state
        /\ queue'.lost = queue.lost
        /\ \/ queue.lost /\ call' = Idle
           \/ ~queue.lost /\ call'.pc \in {"wait", Tables[1]}
    BY <1>0, <1>6, SubmitEffects
  <2>2. EngineJobs'
    BY <1>2, <2>1
  <2>3. call'.pc # "sync"
    BY <2>1, Bounds DEF Idle, SubmitLabels
  <2>4. Installed' => engine' = queue'.state
    <3>1. CASE queue.lost
      <4>1. call'.pc = "idle" /\ queue'.lost
        BY <2>1, <3>1 DEF Idle
      <4>2. ~Installed'
        BY <4>1, Bounds DEF Installed
      <4>3. QED
        BY <4>2
    <3>2. CASE ~queue.lost
      <4>1. Installed
        BY <2>1, <3>2 DEF Installed
      <4>2. QED
        BY <1>6, <2>1, <4>1 DEF EngineCall
    <3>3. QED
      BY <3>1, <3>2
  <2>5. QED
    BY <1>3, <2>2, <2>3, <2>4
<1>7. CASE queue.phase = "up" /\ UpdateTable
  <2>1. PICK t \in Names :
          /\ call.pc = t /\ call'.pc = NextTable(t) /\ call'.dirty = (call.dirty \/ Changed(t))
          /\ queue'.state = [queue.state EXCEPT ![t] = IF Changed(t) THEN table[t] ELSE @]
          /\ UNCHANGED <<drains, gpu, engine>>
    BY <1>0, <1>7, UpdateTableEffects
  <2>2. call.pc # "sync" /\ call'.pc \in Names \cup {"install"}
    BY <2>1, Bounds, NextTableFacts
  <2>3. drains => jobs = <<>>
    BY <1>1, <1>7 DEF UpdateTable, At, GpuIdle
  <2>4. EngineJobs'
    BY <1>2, <2>1, <2>2, <2>3
  <2>5. Installed' => engine' = queue'.state
    <3>1. SUFFICES ASSUME Installed' PROVE engine' = queue'.state
      OBVIOUS
    <3>2. ~call'.dirty
      BY <2>2, <3>1, Bounds DEF Installed, SubmitLabels
    <3>3. ~call.dirty /\ ~Changed(t)
      BY <2>1, <3>2
    <3>4. engine = queue.state
      BY <1>7, <2>1, <3>3 DEF EngineCall, Installed
    <3>5. \A f \in QueueState : [f EXCEPT ![t] = f[t]] = f
      BY DEF QueueState
    <3>6. queue'.state = [queue.state EXCEPT ![t] = queue.state[t]] /\ queue.state \in QueueState
      BY <1>0, <2>1, <3>3, Types
    <3>7. QED
      BY <2>1, <3>4, <3>5, <3>6
  <2>6. QED
    BY <1>3, <2>2, <2>4, <2>5, Bounds
<1>8. CASE queue.phase = "up" /\ Install
  <2> DEFINE job == [Job("tables") EXCEPT !.need = queue.state]
  <2>1. /\ call.pc = "install" /\ UNCHANGED <<drains, queue, engine>> /\ queue.phase = "up"
        /\ \/ call'.pc = "sync" /\ job \in Jobs /\ Push("exec", job)
           \/ call'.pc = "fail" /\ gpu' = gpu
           \/ ~call.dirty /\ call'.pc = "flush" /\ gpu' = gpu
    BY <1>0, <1>8, InstallEffects
  <2>2. job.kind = "tables" /\ job.need = queue.state
    BY DEF Job
  <2> HIDE DEF job
  <2>3. CASE call'.pc = "sync"
    <3>1. job \in Jobs /\ Push("exec", job)
      BY <2>1, <2>3
    <3>2. EngineJobs'
      BY <1>0, <2>1, <2>2, <2>3, <3>1, EnginePush
    <3>3. gpu'["exec"] # <<>> /\ gpu'["exec"][Len(gpu'["exec"])] = job
      BY <1>1, <3>1, Pushed
    <3>4. ~Installed'
      BY <2>3, Bounds DEF Installed
    <3>5. QED
      BY <2>2, <3>2, <3>3, <3>4 DEF EngineCall
  <2>4. CASE call'.pc = "fail"
    <3>1. ~Installed'
      BY <2>4, Bounds DEF Installed, SubmitLabels
    <3>2. QED
      BY <1>2, <1>3, <2>1, <2>4, <3>1
  <2>5. CASE ~call.dirty /\ call'.pc = "flush" /\ gpu' = gpu
    <3>1. engine = queue.state
      BY <2>1, <2>5 DEF EngineCall, Installed
    <3>2. QED
      BY <1>2, <1>3, <2>1, <2>5, <3>1
  <2>6. QED
    BY <2>1, <2>3, <2>4, <2>5
<1>9. CASE queue.phase = "up" /\ InstallSync
  <2>1. /\ call.pc = "sync" /\ jobs = <<>> /\ UNCHANGED <<drains, gpu, queue, engine>>
        /\ call'.pc \in {"flush", "fail"}
    BY <1>0, <1>9, InstallSyncEffects
  <2>2. engine = queue.state
    BY <1>9, <2>1 DEF EngineCall
  <2>3. QED
    BY <1>2, <1>3, <2>1, <2>2
<1>10. ASSUME queue.phase = "up", FlushUploads \/ Wait PROVE EngineCall' /\ EngineJobs'
  <2>1. /\ call.pc \in {"flush", "wait"} /\ call'.pc \in {"wait", "work", "signal", "fail"}
        /\ UNCHANGED <<drains, queue, engine>>
    BY <1>0, <1>10, FlushUploadsEffects, WaitEffects
  <2>2. gpu'["exec"] = jobs
    <3>1. CASE gpu' = gpu
      BY <3>1
    <3>2. CASE gpu' # gpu
      <4>1. PICK job \in Jobs : Push("upload", job)
        BY <1>0, <1>10, <3>2, FlushUploadsEffects, WaitEffects, FlushEffects
      <4>2. QED
        BY <1>1, <4>1, Pushed DEF Contexts
    <3>3. QED
      BY <3>1, <3>2
  <2>3. engine = queue.state
    BY <1>10, <2>1 DEF EngineCall, Installed
  <2>4. QED
    BY <1>2, <1>3, <2>1, <2>2, <2>3
<1>11. ASSUME queue.phase = "up", Work \/ Signal PROVE EngineCall' /\ EngineJobs'
  <2>1. /\ Submitting /\ call.pc \in {"work", "signal"} /\ call'.pc \in {"idle", "work", "signal", "fail"}
        /\ UNCHANGED <<drains, queue, engine>>
        /\ \/ gpu' = gpu
           \/ \E job \in Jobs :
                /\ Push(call.kind, job) /\ job.kind = call.kind /\ job.need = call.need
                /\ job.work > 0 => call.left > 0 \/ req[call.kind].work > 0
    <3>1. CASE Work
      <4>1. call.left > 0 /\ call'.pc \in {"work", "signal", "fail"}
        BY <1>0, <3>1, WorkEffects
      <4>2. QED
        BY <1>0, <3>1, <4>1, WorkEffects
    <3>2. CASE Signal
      <4>1. call'.pc \in {"idle", "fail"}
        <5>1. Idle.pc = "idle"
          BY DEF Idle
        <5>2. QED
          BY <1>0, <3>2, <5>1, SignalEffects
      <4>2. QED
        BY <1>0, <3>2, <4>1, SignalEffects
    <3>3. QED
      BY <1>11, <3>1, <3>2
  <2>2. engine = queue.state
    BY <1>11, <2>1 DEF EngineCall, Installed
  <2>3. EngineCall'
    BY <1>3, <2>1, <2>2
  <2>4. CASE gpu' = gpu
    BY <1>2, <2>1, <2>3, <2>4
  <2>5. CASE gpu' # gpu
    <3>1. PICK job \in Jobs :
            /\ Push(call.kind, job) /\ job.kind = call.kind /\ job.need = call.need
            /\ job.work > 0 => call.left > 0 \/ req[call.kind].work > 0
      BY <2>1, <2>5
    <3>2. call.kind \in Kinds
      BY <2>1 DEF Submitting, SubmitCall
    <3>3. CASE call.kind = "bind"
      <4>1. gpu'["exec"] = jobs
        BY <1>1, <3>1, <3>3, Pushed DEF Contexts
      <4>2. QED
        BY <1>2, <2>1, <2>3, <4>1
    <3>4. CASE call.kind = "exec"
      <4>1. job.work > 0 => Fits(engine, job.need)
        BY <2>1, <2>2, <3>1, <3>4 DEF NeedInv, Uses
      <4>2. job.kind # "tables" /\ call.pc # "sync"
        BY <2>1, <3>1, <3>4
      <4>3. EngineJobs'
        BY <1>0, <2>1, <2>2, <3>1, <3>4, <4>1, <4>2, EnginePush
      <4>4. QED
        BY <2>3, <4>3
    <3>5. QED
      BY <3>2, <3>3, <3>4 DEF Kinds
  <2>6. QED
    BY <2>4, <2>5
<1>12. CASE queue.phase = "up" /\ SubmitFails
  <2>1. /\ call.pc = "fail" /\ call' = Idle /\ queue' = [queue EXCEPT !.lost = TRUE]
        /\ UNCHANGED <<drains, gpu, engine>>
    BY <1>12 DEF SubmitFails, At
  <2>2. queue'.lost /\ queue'.state = queue.state /\ call'.pc = "idle"
    BY <1>0, <2>1, Types DEF Idle
  <2>3. ~Installed'
    BY <2>2, Bounds DEF Installed
  <2>4. QED
    BY <1>2, <1>3, <2>1, <2>2, <2>3
<1>13. CASE queue.phase = "up" /\ (Grow \/ AskUpload \/ UNCHANGED vars)
  <2>1. UNCHANGED <<drains, gpu, engine, queue, call>>
    BY <1>13 DEF Grow, AskUpload, vars
  <2>2. EngineJobs'
    BY <1>2, <2>1
  <2>3. EngineCall'
    BY <2>1 DEF EngineCall, Installed
  <2>4. QED
    BY <2>2, <2>3
<1>14. ASSUME queue.phase = "up", NEW ch \in Contexts, ch # "exec", GpuStep(ch)
       PROVE  EngineCall' /\ EngineJobs'
  <2>1. /\ gpu[ch] # <<>> /\ gpu' = [gpu EXCEPT ![ch] = Tail(@)] /\ UNCHANGED <<drains, queue, call>>
        /\ engine' = IF gpu[ch][1].kind = "tables" THEN gpu[ch][1].need ELSE engine
    BY <1>0, <1>14, GpuStepEffects
  <2>2. Len(gpu[ch]) \in Nat /\ Len(gpu[ch]) > 0 /\ gpu'["exec"] = jobs
    BY <1>1, <1>14, <2>1, Popped
  <2>3. gpu[ch][1].kind # "tables"
    <3>1. 1 \in 1 .. Len(gpu[ch])
      BY <2>2
    <3>2. CASE ch = "upload"
      BY <1>0, <3>1, <3>2 DEF UploadInv
    <3>3. CASE ch = "bind"
      BY <1>0, <3>1, <3>3 DEF KindInv, Kinds, Own
    <3>4. QED
      BY <1>14, <3>2, <3>3 DEF Contexts
  <2>4. EngineJobs'
    BY <1>2, <2>1, <2>2, <2>3
  <2>5. EngineCall'
    BY <2>1, <2>2, <2>3 DEF EngineCall, Installed
  <2>6. QED
    BY <2>4, <2>5
<1>15. ASSUME queue.phase = "up", GpuStep("exec") PROVE EngineCall' /\ EngineJobs'
  <2>1. /\ jobs # <<>> /\ gpu' = [gpu EXCEPT !["exec"] = Tail(@)] /\ UNCHANGED <<drains, queue, call>>
        /\ engine' = IF jobs[1].kind = "tables" THEN jobs[1].need ELSE engine
    BY <1>0, <1>1, <1>15, GpuStepEffects
  <2>2. /\ Len(jobs) > 0 /\ Len(gpu'["exec"]) = Len(jobs) - 1
        /\ \A i \in 1 .. Len(gpu'["exec"]) : gpu'["exec"][i] = jobs[i + 1]
        /\ gpu'["exec"] = <<>> <=> Len(jobs) = 1
    BY <1>1, <2>1, Popped
  <2>3. /\ 1 \in 1 .. Len(jobs)
        /\ jobs[1].kind = "tables" => call.pc = "sync" /\ 1 = Len(jobs) /\ jobs[1].need = queue.state
    BY <1>1, <2>2 DEF EngineJobs
  <2>4. CASE jobs[1].kind = "tables"
    <3>1. engine' = queue.state /\ gpu'["exec"] = <<>> /\ Len(gpu'["exec"]) = 0
      BY <2>1, <2>2, <2>3, <2>4
    <3>2. QED
      BY <2>1, <3>1 DEF EngineCall, EngineJobs
  <2>5. CASE jobs[1].kind # "tables"
    <3>1. engine' = engine
      BY <2>1, <2>5
    <3>2. EngineJobs'
      <4>1. ASSUME NEW i \in 1 .. Len(gpu'["exec"])
            PROVE  /\ gpu'["exec"][i].kind = "tables" =>
                        /\ queue'.phase = "up" /\ call'.pc = "sync" /\ i = Len(gpu'["exec"])
                        /\ gpu'["exec"][i].need = queue'.state
                   /\ gpu'["exec"][i].kind = "exec" /\ gpu'["exec"][i].work > 0 =>
                        /\ Fits(engine', gpu'["exec"][i].need)
                        /\ drains' => \A t \in Names : engine'[t].mem = queue'.state[t].mem
        <5>1. i + 1 \in 1 .. Len(jobs) /\ gpu'["exec"][i] = jobs[i + 1]
          BY <1>1, <2>2, <4>1
        <5>2. i + 1 = Len(jobs) => i = Len(gpu'["exec"])
          BY <1>1, <2>2, <5>1
        <5>3. QED
          BY <2>1, <3>1, <5>1, <5>2 DEF EngineJobs
      <4>2. QED
        BY <4>1 DEF EngineJobs
    <3>3. call.pc = "sync" => /\ gpu'["exec"] # <<>>
                              /\ gpu'["exec"][Len(gpu'["exec"])].kind = "tables"
      <4>1. SUFFICES ASSUME call.pc = "sync"
                     PROVE  gpu'["exec"] # <<>> /\ gpu'["exec"][Len(gpu'["exec"])].kind = "tables"
        OBVIOUS
      <4>2. jobs[Len(jobs)].kind = "tables"
        BY <1>15, <2>1, <4>1 DEF EngineCall
      <4>3. Len(jobs) # 1
        BY <2>5, <4>2
      <4>4. Len(gpu'["exec"]) \in 1 .. Len(gpu'["exec"]) /\ Len(gpu'["exec"]) + 1 = Len(jobs)
        BY <1>1, <2>2, <4>3
      <4>5. QED
        BY <2>2, <4>2, <4>3, <4>4
    <3>4. QED
      BY <2>1, <3>1, <3>2, <3>3 DEF EngineCall, Installed
  <2>6. QED
    BY <2>4, <2>5
<1>16. QED
  BY <1>0, <1>4, <1>5, <1>6, <1>7, <1>8, <1>9, <1>10, <1>11, <1>12, <1>13, <1>14, <1>15, UpSteps

(* A command buffer runs with tables at least as large as when it was        *)
(* submitted, though they grow beside it and the queue may already know     *)
(* larger ones; and where EXEC drains, what it runs with is not freed.      *)
THEOREM TablesCorrect == Spec => []TablesUsable
<1>1. Init => NeedInv /\ EngineCall /\ EngineJobs
  <2> SUFFICES ASSUME Init PROVE NeedInv /\ EngineCall /\ EngineJobs
    OBVIOUS
  <2>1. queue.phase = "none" /\ gpu["exec"] = <<>>
    BY DEF Init, NoQueue
  <2>2. QED
    BY <2>1 DEF NeedInv, EngineCall, EngineJobs, Submitting
<1>2. QueueInv /\ QueueInv' /\ NeedInv /\ EngineCall /\ EngineJobs /\ [Next]_vars
        => NeedInv' /\ EngineCall' /\ EngineJobs'
  BY NeedStep, EngineStep
<1>3. QueueInv /\ RefsExact /\ EngineJobs => TablesUsable
  <2> SUFFICES ASSUME QueueInv, RefsExact, EngineJobs, Drawing("exec")
               PROVE  /\ \A t \in Names : engine[t].count >= Head(gpu["exec"]).need[t].count
                      /\ drains => \A t \in Names : engine[t].mem # NoMem => refs[engine[t].mem] > 0
    BY DEF TablesUsable, DescriptorsReachable, TablesResident
  <2>1. TypeInv /\ engine \in QueueState /\ gpu["exec"] \in Seq(Jobs)
    BY DEF QueueInv, TypeInv, Contexts
  <2>2. gpu["exec"] # <<>> /\ Head(gpu["exec"]).kind = "exec" /\ Head(gpu["exec"]).work > 0
    BY DEF Drawing, Running
  <2>3. /\ 1 \in 1 .. Len(gpu["exec"]) /\ Head(gpu["exec"]) = gpu["exec"][1]
        /\ gpu["exec"][1] \in Jobs
    BY <2>1, <2>2
  <2>4. /\ Fits(engine, gpu["exec"][1].need)
        /\ drains => \A t \in Names : engine[t].mem = queue.state[t].mem
    BY <2>2, <2>3 DEF EngineJobs
  <2>5. ASSUME NEW t \in Names PROVE engine[t].count >= Head(gpu["exec"]).need[t].count
    <3>1. engine[t].count \in Int /\ gpu["exec"][1].need[t].count \in Int
      <4>1. \A s \in QueueState : s[t].count \in Int
        BY Bounds DEF QueueState, TableState
      <4>2. QED
        BY <2>1, <2>3, <4>1 DEF Jobs
    <3>2. QED
      BY <2>3, <2>4, <3>1 DEF Fits
  <2>6. ASSUME drains, NEW t \in Names, engine[t].mem # NoMem PROVE refs[engine[t].mem] > 0
    <3> DEFINE m == engine[t].mem
               A == {u \in Names : queue.state[u].mem = m}
    <3>1. m \in Mems
      BY <2>1, <2>6 DEF QueueState, TableState, Optional
    <3>2. t \in A /\ IsFiniteSet(A)
      <4>1. queue.state[t].mem = m
        BY <2>4, <2>6
      <4>2. QED
        BY <4>1, CountFacts
    <3>3. Cardinality(A) > 0
      <4>1. Cardinality(A) \in Nat /\ Cardinality(A) # 0
        <5> HIDE DEF A
        <5>1. QED
          BY <3>2, FS_EmptySet, FS_CardinalityType
      <4>2. QED
        BY <4>1
    <3>4. Count(queue.state, m) > 0 /\ Count(table, m) \in Nat /\ Count(queue.state, m) \in Nat
      BY <3>3, CountFacts DEF Count
    <3> HIDE DEF m, A
    <3>5. refs[m] = Count(table, m) + Count(queue.state, m) + One(queue.cb0, m) + One(call.push, m)
      BY <3>1, HoldersCounted DEF RefsExact
    <3>6. One(queue.cb0, m) \in {0, 1} /\ One(call.push, m) \in {0, 1}
      BY DEF One
    <3>7. refs[m] > 0
      BY <3>4, <3>5, <3>6
    <3>8. QED
      BY <3>7 DEF m
  <2>7. QED
    BY <2>5, <2>6
<1>4. QED
  BY <1>1, <1>2, <1>3, QueueAlways, RefsCorrect, PTL DEF Spec

-----------------------------------------------------------------------------
(***************************************************************************)
(* Uploads before their use.  A job that draws, or one before it in its     *)
(* context, waits for the uploads asked for when its submission began,      *)
(* unless they are done.                                                   *)
(***************************************************************************)
CoveredBy(jobs, ended, a, n) == a <= ended \/ \E j \in 1 .. n : a <= jobs[j].point

Covered(a, n) == CoveredBy(gpu["exec"], upload.done, a, n)

OrderInv ==
  /\ \A i \in 1 .. Len(gpu["exec"]) :
       gpu["exec"][i].kind = "exec" /\ gpu["exec"][i].work > 0 => Covered(gpu["exec"][i].asked, i)
  /\ Submitting /\ Uses /\ call.pc \in {"wait", "work", "signal"} =>
       /\ call.asked <= call.point
       /\ call.pc # "wait" =>
            Covered(call.asked, Len(gpu["exec"])) \/ call.asked <= req["exec"].point

(* Every step keeps the work after its uploads. *)
LEMMA OrderStep ==
  ASSUME QueueInv, QueueInv', OrderInv, [Next]_vars
  PROVE  OrderInv'
<1>0. TypeInv /\ PhaseInv /\ CallInv /\ KindInv /\ UploadInv /\ TypeInv' /\ PhaseInv'
  BY DEF QueueInv
<1> DEFINE jobs == gpu["exec"]
           new  == gpu'["exec"]
<1>1. /\ gpu \in [Contexts -> Seq(Jobs)] /\ "exec" \in Contexts /\ jobs \in Seq(Jobs)
      /\ Len(jobs) \in Nat
      /\ gpu' \in [Contexts -> Seq(Jobs)] /\ new \in Seq(Jobs) /\ Len(new) \in Nat
  BY <1>0, Types DEF Contexts, TypeInv
<1>2. /\ \A i \in 1 .. Len(jobs) : jobs[i].asked \in Nat /\ jobs[i].point \in Nat
      /\ \A i \in 1 .. Len(new) : new[i].asked \in Nat /\ new[i].point \in Nat
  <2>1. \A job \in Jobs : job.asked \in Nat /\ job.point \in Nat
    BY Bounds DEF Jobs
  <2>2. (\A i \in 1 .. Len(jobs) : jobs[i] \in Jobs) /\ (\A i \in 1 .. Len(new) : new[i] \in Jobs)
    BY <1>1
  <2>3. QED
    BY <2>1, <2>2
<1>3. /\ upload.done \in Nat /\ upload'.done \in Nat /\ upload.asked \in Nat /\ upload.submitted \in Nat
      /\ upload.submitted <= upload.asked
  BY <1>0, Bounds DEF TypeInv, UploadInv
<1>4. call \in SubmitCall => call.asked \in Nat /\ call.point \in Nat /\ call.kind \in Kinds
  BY Bounds DEF SubmitCall
<1>5. \A c \in Kinds : req[c].point \in Nat
  BY <1>0, Bounds DEF TypeInv
<1>6. CASE queue'.phase # "up"
  <2>1. NoneInv' \/ InitInv'
    BY <1>0, <1>6 DEF PhaseInv, TypeInv
  <2>2. \A i \in 1 .. Len(new) : new[i].kind = "init"
    <3>1. CASE NoneInv'
      BY <3>1 DEF NoneInv, Contexts
    <3>2. CASE InitInv'
      BY <3>2 DEF InitInv, Job
    <3>3. QED
      BY <2>1, <3>1, <3>2
  <2>3. QED
    BY <1>6, <2>2 DEF OrderInv, Covered, Submitting
<1>7. CASE NewQueue
  <2>1. new = <<>> /\ call' \notin SubmitCall
    BY <1>7, IdleCall DEF NewQueue, Contexts
  <2>2. QED
    BY <2>1 DEF OrderInv, Covered, Submitting
<1> HIDE DEF jobs, new
(* The jobs that stay are covered by those that stay. *)
<1>8. ASSUME Len(jobs) <= Len(new), \A i \in 1 .. Len(jobs) : new[i] = jobs[i],
             upload.done <= upload'.done, NEW a \in Nat, NEW n \in 0 .. Len(jobs), CoveredBy(jobs, upload.done, a, n)
      PROVE  CoveredBy(new, upload'.done, a, n)
  <2>1. \A j \in 1 .. n : j \in 1 .. Len(jobs)
    BY <1>1, <1>8
  <2>2. QED
    BY <1>3, <1>8, <2>1 DEF CoveredBy
<1>9. ASSUME new = jobs, upload.done <= upload'.done
      PROVE  /\ \A i \in 1 .. Len(new) :
                  new[i].kind = "exec" /\ new[i].work > 0 => CoveredBy(new, upload'.done, new[i].asked, i)
             /\ \A a \in Nat : CoveredBy(jobs, upload.done, a, Len(jobs)) => CoveredBy(new, upload'.done, a, Len(new))
  <2>1. ASSUME NEW i \in 1 .. Len(new), new[i].kind = "exec", new[i].work > 0
        PROVE  CoveredBy(new, upload'.done, new[i].asked, i)
    <3>1. CoveredBy(jobs, upload.done, jobs[i].asked, i) /\ i \in 0 .. Len(jobs) /\ jobs[i].asked \in Nat
      BY <1>1, <1>2, <1>9, <2>1 DEF OrderInv, Covered, jobs
    <3>2. \A a \in Nat, n \in 0 .. Len(jobs) : CoveredBy(jobs, upload.done, a, n) => CoveredBy(new, upload'.done, a, n)
      BY <1>1, <1>8, <1>9
    <3>3. QED
      BY <1>9, <3>1, <3>2 DEF CoveredBy
  <2>2. ASSUME NEW a \in Nat, CoveredBy(jobs, upload.done, a, Len(jobs)) PROVE CoveredBy(new, upload'.done, a, Len(new))
    <3>1. a <= upload'.done \/ \E j \in 1 .. Len(jobs) : a <= jobs[j].point
      BY <1>3, <1>9, <2>2 DEF CoveredBy
    <3>2. QED
      BY <1>9, <3>1 DEF CoveredBy
  <2>3. QED
    BY <2>1, <2>2
(* A step that gives the context nothing, and the call no new claim. *)
<1>10. ASSUME new = jobs, upload.done <= upload'.done,
              Submitting' /\ Uses' /\ call'.pc \in {"wait", "work", "signal"} =>
                /\ call'.asked <= call'.point
                /\ call'.pc # "wait" => \/ CoveredBy(jobs, upload.done, call'.asked, Len(jobs)) /\ call'.asked \in Nat
                                        \/ call'.asked <= req'["exec"].point
       PROVE  OrderInv'
  BY <1>9, <1>10 DEF OrderInv, Covered, new
<1>11. CASE queue.phase = "up" /\ (FinishBegin \/ FlushUploads)
  <2>1. Flush \/ UNCHANGED <<upload, gpu>>
    BY <1>11 DEF FinishBegin, FlushUploads
  <2>2. new = jobs /\ upload'.done = upload.done /\ upload'.asked = upload.asked
        /\ (Flush => upload'.submitted = upload.asked)
    <3>1. CASE UNCHANGED <<upload, gpu>>
      <4>1. Flush => upload.asked = upload.submitted
        BY <1>0, <3>1, FlushEffects, Types
      <4>2. QED
        BY <3>1, <4>1 DEF new, jobs
    <3>2. CASE ~UNCHANGED <<upload, gpu>>
      <4>1. PICK job \in Jobs : /\ Push("upload", job)
                                /\ upload' = [upload EXCEPT !.submitted = upload.asked, !.fill = NoMem]
        BY <1>0, <2>1, <3>2, FlushEffects
      <4>2. gpu'["exec"] = gpu["exec"]
        BY <1>1, <4>1, Pushed DEF Contexts
      <4>3. QED
        BY <1>0, <4>1, <4>2, Types DEF new, jobs
    <3>3. QED
      BY <3>1, <3>2
  <2>3. CASE FinishBegin
    <3>1. call' = [call EXCEPT !.pc = "finish"]
      BY <2>3 DEF FinishBegin, Goto
    <3>2. call'.pc = "finish"
      BY <1>0, <3>1, Types DEF InitCall, SubmitCall
    <3>3. QED
      BY <1>3, <1>10, <2>2, <3>2
  <2>4. CASE FlushUploads
    <3>1. /\ Submitting /\ Same(call', call)
          /\ \/ Flush /\ call'.pc = "wait" /\ call'.point = upload'.submitted
             \/ call'.pc = "fail"
      BY <1>0, <2>4, FlushUploadsEffects
    <3>2. call.asked <= upload.asked
      BY <1>0, <3>1 DEF CallInv
    <3>3. QED
      BY <1>3, <1>10, <2>2, <3>1, <3>2 DEF Same
  <2>5. QED
    BY <1>11, <2>3, <2>4
<1>12. CASE queue.phase = "up" /\ Submit
  <2>1. /\ call.pc = "idle" /\ UNCHANGED <<req, upload, gpu>>
        /\ \/ call' = Idle
           \/ /\ ~queue.lost
              /\ \/ call'.pc = "wait" /\ (call'.kind = "bind" \/ call'.left = 0)
                 \/ call'.pc = Tables[1]
    BY <1>0, <1>12, SubmitEffects
  <2>2. ~queue.lost => req["exec"].work = 0
    BY <1>0, <1>12, <2>1 DEF CallInv, NoReq
  <2>3. ~(Submitting' /\ Uses' /\ call'.pc \in {"wait", "work", "signal"})
    <3>1. CASE call' = Idle
      BY <3>1, IdleCall DEF Submitting
    <3>2. CASE call'.pc = Tables[1]
      BY <3>2, Bounds DEF SubmitLabels
    <3>3. CASE ~queue.lost /\ (call'.kind = "bind" \/ call'.left = 0)
      <4>1. req'["exec"].work = 0
        BY <2>1, <2>2, <3>3
      <4>2. QED
        BY <3>3, <4>1 DEF Uses
    <3>4. QED
      BY <2>1, <3>1, <3>2, <3>3
  <2>4. QED
    BY <1>3, <1>10, <2>1, <2>3 DEF new, jobs
<1>13. CASE queue.phase = "up" /\ UpdateTable
  <2>1. PICK t \in Names : call'.pc = NextTable(t) /\ UNCHANGED <<upload, gpu>>
    BY <1>0, <1>13, UpdateTableEffects
  <2>2. call'.pc \notin {"wait", "work", "signal"}
    BY <2>1, Bounds, NextTableFacts DEF SubmitLabels
  <2>3. QED
    BY <1>3, <1>10, <2>1, <2>2 DEF new, jobs
<1>14. CASE queue.phase = "up" /\ InstallSync
  <2>1. call'.pc \in {"flush", "fail"} /\ UNCHANGED <<upload, gpu>>
    BY <1>0, <1>14, InstallSyncEffects
  <2>2. QED
    BY <1>3, <1>10, <2>1 DEF new, jobs
<1>15. CASE queue.phase = "up" /\ Wait
  <2>1. /\ Submitting /\ call.pc = "wait" /\ Same(call', call) /\ call'.left = call.left
        /\ call'.point = call.point /\ UNCHANGED <<upload, gpu>>
        /\ \/ /\ call'.pc \in {"work", "signal"}
              /\ req'[call.kind].work = req[call.kind].work
              /\ req'[call.kind].point = call.point
           \/ call'.pc = "fail"
    BY <1>0, <1>15, WaitEffects
  <2>2. Uses' /\ call'.pc # "fail" => Uses /\ req'["exec"].point = call.point
    BY <2>1 DEF Uses, Same
  <2>3. Submitting' /\ Uses' /\ call'.pc \in {"wait", "work", "signal"} =>
          call'.asked <= call'.point /\ call'.asked <= req'["exec"].point
    BY <2>1, <2>2 DEF OrderInv, Covered, Same
  <2>4. QED
    BY <1>3, <1>10, <2>1, <2>3 DEF new, jobs
(* A job that is given to the context of draws. *)
<1>16. ASSUME NEW job \in Jobs, Push("exec", job), upload' = upload,
              job.kind = "exec" /\ job.work > 0 =>
                /\ job.asked \in Nat
                /\ CoveredBy(jobs, upload.done, job.asked, Len(jobs)) \/ job.asked <= job.point
       PROVE  /\ \A i \in 1 .. Len(new) :
                   new[i].kind = "exec" /\ new[i].work > 0 => CoveredBy(new, upload'.done, new[i].asked, i)
              /\ job.kind = "exec" /\ job.work > 0 => CoveredBy(new, upload'.done, job.asked, Len(new))
  <2>1. /\ Len(new) = Len(jobs) + 1 /\ new[Len(jobs) + 1] = job
        /\ \A i \in 1 .. Len(jobs) : new[i] = jobs[i]
    BY <1>1, <1>16, Pushed DEF new, jobs
  <2>2. \A a \in Nat, n \in 0 .. Len(jobs) : CoveredBy(jobs, upload.done, a, n) => CoveredBy(new, upload'.done, a, n)
    <3>1. Len(jobs) <= Len(new) /\ upload.done <= upload'.done
      BY <1>1, <1>3, <1>16, <2>1
    <3>2. QED
      BY <1>8, <2>1, <3>1
  <2>3. job.kind = "exec" /\ job.work > 0 => CoveredBy(new, upload'.done, job.asked, Len(new))
    <3>1. SUFFICES ASSUME job.kind = "exec", job.work > 0 PROVE CoveredBy(new, upload'.done, job.asked, Len(new))
      OBVIOUS
    <3>2. job.asked <= upload.done \/ \E j \in 1 .. Len(new) : job.asked <= new[j].point
      <4>1. CASE job.asked <= job.point
        <5>1. Len(jobs) + 1 \in 1 .. Len(new)
          BY <1>1, <2>1
        <5>2. QED
          BY <2>1, <4>1, <5>1
      <4>2. CASE CoveredBy(jobs, upload.done, job.asked, Len(jobs))
        <5>1. job.asked <= upload.done \/ \E j \in 1 .. Len(jobs) : job.asked <= jobs[j].point
          BY <4>2 DEF CoveredBy
        <5>2. \A j \in 1 .. Len(jobs) : j \in 1 .. Len(new)
          BY <1>1, <2>1
        <5>3. QED
          BY <2>1, <5>1, <5>2
      <4>3. QED
        BY <1>16, <3>1, <4>1, <4>2
    <3>3. QED
      BY <1>16, <3>2 DEF CoveredBy
  <2>4. ASSUME NEW i \in 1 .. Len(new), new[i].kind = "exec", new[i].work > 0
        PROVE  CoveredBy(new, upload'.done, new[i].asked, i)
    <3>1. CASE i \in 1 .. Len(jobs)
      <4>1. CoveredBy(jobs, upload.done, jobs[i].asked, i) /\ i \in 0 .. Len(jobs) /\ jobs[i].asked \in Nat
        BY <1>1, <1>2, <2>1, <2>4, <3>1 DEF OrderInv, Covered, jobs
      <4>3. jobs[i].asked <= upload.done \/ \E j \in 1 .. i : jobs[i].asked <= jobs[j].point
        BY <4>1 DEF CoveredBy
      <4>4. \A j \in 1 .. i : new[j] = jobs[j]
        BY <1>1, <2>1, <3>1
      <4>5. new[i].asked <= upload'.done \/ \E j \in 1 .. i : new[i].asked <= new[j].point
        BY <1>16, <2>1, <3>1, <4>3, <4>4
      <4>6. QED
        BY <4>5 DEF CoveredBy
    <3>2. CASE i = Len(jobs) + 1
      BY <2>1, <2>3, <2>4, <3>2
    <3>3. QED
      BY <1>1, <2>1, <2>4, <3>1, <3>2
  <2>5. QED
    BY <2>3, <2>4
<1>17. CASE queue.phase = "up" /\ Install
  <2>1. /\ call'.pc \in {"sync", "fail", "flush"} /\ upload' = upload
        /\ \/ LET job == [Job("tables") EXCEPT !.need = queue.state]
              IN job \in Jobs /\ Push("exec", job)
           \/ gpu' = gpu
    BY <1>0, <1>17, InstallEffects
  <2>2. CASE gpu' = gpu
    BY <1>3, <1>10, <2>1, <2>2 DEF new, jobs
  <2>3. CASE gpu' # gpu
    <3> DEFINE job == [Job("tables") EXCEPT !.need = queue.state]
    <3>1. job \in Jobs /\ Push("exec", job) /\ job.kind # "exec"
      BY <2>1, <2>3 DEF Job
    <3> HIDE DEF job
    <3>2. \A i \in 1 .. Len(new) :
            new[i].kind = "exec" /\ new[i].work > 0 => CoveredBy(new, upload'.done, new[i].asked, i)
      BY <1>16, <2>1, <3>1
    <3>3. QED
      BY <2>1, <3>2 DEF OrderInv, Covered, new
  <2>4. QED
    BY <2>2, <2>3
<1>18. ASSUME queue.phase = "up", Work \/ Signal PROVE OrderInv'
  <2>1. /\ Submitting /\ call.pc \in {"work", "signal"} /\ upload' = upload
        /\ call.pc = "work" => call.left > 0
        /\ \/ gpu' = gpu /\ call'.pc = "fail"
           \/ /\ gpu' = gpu /\ call.pc = "work" /\ Same(call', call) /\ call'.point = call.point
              /\ req'[call.kind].point = req[call.kind].point
           \/ \E job \in Jobs :
                /\ Push(call.kind, job) /\ job.kind = call.kind /\ job.asked = call.asked
                /\ job.point = req[call.kind].point
                /\ job.work > 0 => call.left > 0 \/ req[call.kind].work > 0
                /\ \/ call' = Idle
                   \/ /\ call.pc = "work" /\ Same(call', call) /\ call'.point = call.point
                      /\ job.work > 0
    <3>1. CASE Work
      <4>1. call.kind \in Kinds /\ req[call.kind].work \in Nat
        <5>1. Submitting
          BY <1>0, <3>1, WorkEffects
        <5>2. call.kind \in Kinds
          BY <1>4, <5>1 DEF Submitting
        <5>3. QED
          <6>1. req[call.kind] \in [point : 0 .. MaxUploads, after : 0 .. MaxSubmits, work : 0 .. 2]
            BY <1>0, <5>2, Types
          <6>2. QED
            BY <5>2, <6>1
      <4>2. \A w \in Nat : w + 1 > 0
        OBVIOUS
      <4>3. QED
        BY <1>0, <3>1, <4>1, <4>2, WorkEffects
    <3>2. CASE Signal
      BY <1>0, <3>2, SignalEffects
    <3>3. QED
      BY <1>18, <3>1, <3>2
  <2>2. call.kind = "exec" /\ (call.left > 0 \/ req["exec"].work > 0) =>
          /\ call.asked <= call.point
          /\ CoveredBy(jobs, upload.done, call.asked, Len(jobs)) \/ call.asked <= req["exec"].point
    BY <2>1 DEF OrderInv, Covered, Uses, jobs
  <2>3. call.asked \in Nat /\ call.kind \in Kinds
    BY <1>4, <2>1 DEF Submitting
  <2>4. CASE gpu' = gpu /\ call'.pc = "fail"
    BY <1>3, <1>10, <2>1, <2>4 DEF new, jobs
  <2>5. CASE /\ gpu' = gpu /\ call.pc = "work" /\ Same(call', call) /\ call'.point = call.point
             /\ req'[call.kind].point = req[call.kind].point
    <3>1. Uses' => /\ call'.asked <= call'.point
                   /\ \/ CoveredBy(jobs, upload.done, call'.asked, Len(jobs)) /\ call'.asked \in Nat
                      \/ call'.asked <= req'["exec"].point
      <4>1. SUFFICES ASSUME call'.kind = "exec"
                     PROVE  /\ call'.asked <= call'.point
                            /\ \/ CoveredBy(jobs, upload.done, call'.asked, Len(jobs)) /\ call'.asked \in Nat
                               \/ call'.asked <= req'["exec"].point
        BY DEF Uses
      <4>2. call.kind = "exec" /\ call.left > 0 /\ call'.asked = call.asked
        BY <2>1, <2>5, <4>1 DEF Same
      <4>3. QED
        BY <2>2, <2>3, <2>5, <4>2
    <3>2. QED
      BY <1>3, <1>10, <2>1, <2>5, <3>1 DEF new, jobs
  <2>6. ASSUME NEW job \in Jobs, Push(call.kind, job), job.kind = call.kind, job.asked = call.asked,
               job.point = req[call.kind].point,
               job.work > 0 => call.left > 0 \/ req[call.kind].work > 0,
               \/ call' = Idle
               \/ /\ call.pc = "work" /\ Same(call', call) /\ call'.point = call.point
                  /\ job.work > 0
        PROVE  OrderInv'
    <3>1. CASE call.kind = "bind"
      <4>1. gpu'["exec"] = gpu["exec"]
        BY <1>1, <2>6, <3>1, Pushed DEF Contexts
      <4>2. ~(Submitting' /\ Uses')
        BY <2>6, <3>1, IdleCall DEF Submitting, Uses, Same
      <4>3. QED
        BY <1>3, <1>10, <2>1, <4>1, <4>2 DEF new, jobs
    <3>2. CASE call.kind = "exec"
      <4>1. /\ job.kind = "exec" /\ Push("exec", job)
            /\ job.work > 0 => CoveredBy(jobs, upload.done, job.asked, Len(jobs)) \/ job.asked <= job.point
        BY <2>2, <2>6, <3>2
      <4>2. /\ \A i \in 1 .. Len(new) :
                   new[i].kind = "exec" /\ new[i].work > 0 => CoveredBy(new, upload'.done, new[i].asked, i)
            /\ job.work > 0 => CoveredBy(new, upload'.done, job.asked, Len(new))
        BY <1>16, <2>1, <2>3, <2>6, <4>1
      <4>3. CASE call' = Idle
        <5>1. ~Submitting'
          BY <4>3, IdleCall DEF Submitting
        <5>2. QED
          BY <4>2, <5>1 DEF OrderInv, Covered, new
      <4>4. CASE /\ call.pc = "work" /\ Same(call', call) /\ call'.point = call.point
                 /\ job.work > 0
        <5>1. call'.asked = job.asked /\ call'.asked <= call'.point
          BY <2>1, <2>2, <2>6, <3>2, <4>4 DEF Same
        <5>2. CoveredBy(new, upload'.done, call.asked, Len(new))
          BY <2>6, <4>2, <4>4
        <5>3. call'.asked = call.asked
          BY <2>6, <5>1
        <5>4. QED
          BY <4>2, <5>1, <5>2, <5>3 DEF OrderInv, Covered, new
      <4>5. QED
        BY <2>6, <4>3, <4>4
    <3>3. QED
      BY <2>3, <3>1, <3>2 DEF Kinds
  <2>7. QED
    BY <2>1, <2>4, <2>5, <2>6
<1>19. CASE queue.phase = "up" /\ SubmitFails
  <2>1. call' = Idle /\ UNCHANGED <<upload, gpu>>
    BY <1>19 DEF SubmitFails
  <2>2. QED
    BY <1>3, <1>10, <2>1, IdleCall DEF new, jobs, Submitting
<1>20. ASSUME UNCHANGED <<call, req>>, queue' = queue, new = jobs, upload.done <= upload'.done
       PROVE  OrderInv'
  <2>1. Submitting' /\ Uses' => Submitting /\ Uses /\ call.asked \in Nat
    BY <1>4, <1>20 DEF Submitting, Uses
  <2>2. QED
    BY <1>10, <1>20, <2>1 DEF OrderInv, Covered, jobs
<1>21. CASE queue.phase = "up" /\ (Grow \/ AskUpload \/ UNCHANGED vars)
  <2>1. UNCHANGED <<gpu, call, req, queue>> /\ (upload' = upload \/ upload' = [upload EXCEPT !.asked = @ + 1])
    BY <1>21 DEF Grow, AskUpload, vars
  <2>2. upload'.done = upload.done
    BY <1>0, <2>1, Types
  <2>3. QED
    BY <1>3, <1>20, <2>1, <2>2 DEF new, jobs
<1>22. ASSUME NEW ch \in Contexts, ch # "exec", GpuStep(ch) PROVE OrderInv'
  <2>1. /\ gpu[ch] # <<>> /\ gpu' = [gpu EXCEPT ![ch] = Tail(@)] /\ UNCHANGED <<call, req, queue>>
        /\ gpu[ch][1].kind # "upload" => upload' = upload
        /\ gpu[ch][1].kind = "upload" => upload' = [upload EXCEPT !.done = gpu[ch][1].point]
    BY <1>0, <1>22, GpuStepEffects
  <2>2. Len(gpu[ch]) \in Nat /\ Len(gpu[ch]) > 0 /\ gpu'["exec"] = gpu["exec"]
    BY <1>1, <1>22, <2>1, Popped
  <2>3. upload.done <= upload'.done
    <3>1. CASE gpu[ch][1].kind # "upload"
      BY <1>3, <2>1, <3>1
    <3>2. CASE gpu[ch][1].kind = "upload"
      <4>1. 1 \in 1 .. Len(gpu[ch])
        BY <2>2
      <4>2. ch = "upload"
        BY <1>0, <1>22, <3>2, <4>1 DEF KindInv, Kinds, Own, Contexts
      <4>3. upload.done < gpu["upload"][1].point
        BY <1>0, <4>1, <4>2 DEF UploadInv
      <4>4. upload'.done = gpu["upload"][1].point
        BY <1>0, <2>1, <3>2, <4>2, Types
      <4>5. QED
        BY <1>3, <4>3, <4>4
    <3>3. QED
      BY <3>1, <3>2
  <2>4. QED
    BY <1>20, <2>1, <2>2, <2>3 DEF new, jobs
<1>23. CASE GpuStep("exec")
  <2>1. /\ jobs # <<>> /\ gpu' = [gpu EXCEPT !["exec"] = Tail(@)] /\ UNCHANGED <<call, req, queue>>
        /\ jobs[1].kind # "upload" => jobs[1].point <= upload.done /\ upload' = upload
    BY <1>0, <1>1, <1>23, GpuStepEffects DEF jobs
  <2>2. /\ Len(jobs) > 0 /\ Len(new) = Len(jobs) - 1
        /\ \A i \in 1 .. Len(new) : new[i] = jobs[i + 1]
    BY <1>1, <2>1, Popped DEF jobs, new
  <2>3. jobs[1].point <= upload.done /\ upload' = upload
    <3>1. 1 \in 1 .. Len(jobs)
      BY <1>1, <2>2
    <3>2. QED
      BY <1>0, <2>1, <3>1 DEF KindInv, Kinds, Own, jobs
  <2>4. ASSUME NEW a \in Nat, NEW n \in 0 .. Len(new), CoveredBy(jobs, upload.done, a, n + 1)
        PROVE  a <= upload.done \/ \E j \in 1 .. n : a <= new[j].point
    <3>1. CASE a <= upload.done
      BY <3>1
    <3>2. CASE \E j \in 1 .. n + 1 : a <= jobs[j].point
      <4>1. PICK j \in 1 .. n + 1 : a <= jobs[j].point
        BY <3>2
      <4>2. CASE j = 1
        <5>1. jobs[1].point \in Nat
          BY <1>1, <1>2, <2>2
        <5>2. QED
          BY <1>3, <2>3, <4>1, <4>2, <5>1
      <4>3. CASE j # 1
        <5>1. j - 1 \in 1 .. n /\ j - 1 \in 1 .. Len(new) /\ (j - 1) + 1 = j
          BY <1>1, <4>3
        <5>2. new[j - 1] = jobs[j]
          BY <2>2, <5>1
        <5>3. QED
          BY <4>1, <5>1, <5>2
      <4>4. QED
        BY <4>2, <4>3
    <3>3. QED
      BY <2>4, <3>1, <3>2 DEF CoveredBy
  <2>5. ASSUME NEW i \in 1 .. Len(new), new[i].kind = "exec", new[i].work > 0
        PROVE  CoveredBy(new, upload'.done, new[i].asked, i)
    <3>1. /\ i + 1 \in 1 .. Len(jobs) /\ new[i] = jobs[i + 1] /\ i \in 0 .. Len(new)
          /\ new[i].asked \in Nat
      BY <1>1, <1>2, <2>2, <2>5
    <3>2. CoveredBy(jobs, upload.done, jobs[i + 1].asked, i + 1)
      BY <2>5, <3>1 DEF OrderInv, Covered, jobs
    <3>3. new[i].asked <= upload.done \/ \E j \in 1 .. i : new[i].asked <= new[j].point
      BY <2>4, <3>1, <3>2
    <3>4. QED
      BY <2>3, <3>3 DEF CoveredBy
  <2>6. ASSUME NEW a \in Nat, CoveredBy(jobs, upload.done, a, Len(jobs)) PROVE CoveredBy(new, upload'.done, a, Len(new))
    <3>1. Len(new) \in 0 .. Len(new) /\ Len(new) + 1 = Len(jobs)
      BY <1>1, <2>2
    <3>2. a <= upload.done \/ \E j \in 1 .. Len(new) : a <= new[j].point
      BY <2>4, <2>6, <3>1
    <3>3. QED
      BY <2>3, <3>2 DEF CoveredBy
  <2>7. Submitting' /\ Uses' /\ call'.pc \in {"wait", "work", "signal"} =>
          /\ call'.asked <= call'.point
          /\ call'.pc # "wait" =>
               CoveredBy(new, upload'.done, call.asked, Len(new)) \/ call'.asked <= req'["exec"].point
    <3>1. SUFFICES ASSUME Submitting', Uses', call'.pc \in {"wait", "work", "signal"}
                   PROVE  /\ call'.asked <= call'.point
                          /\ call'.pc # "wait" => \/ CoveredBy(new, upload'.done, call.asked, Len(new))
                                                  \/ call'.asked <= req'["exec"].point
      OBVIOUS
    <3>2. Submitting /\ Uses /\ call.asked \in Nat
      BY <1>4, <2>1, <3>1 DEF Submitting, Uses
    <3>3. /\ call.asked <= call.point
          /\ call.pc # "wait" => CoveredBy(jobs, upload.done, call.asked, Len(jobs)) \/ call.asked <= req["exec"].point
      BY <2>1, <3>1, <3>2 DEF OrderInv, Covered, jobs
    <3>4. CoveredBy(jobs, upload.done, call.asked, Len(jobs)) => CoveredBy(new, upload'.done, call.asked, Len(new))
      <4>1. SUFFICES ASSUME CoveredBy(jobs, upload.done, call.asked, Len(jobs)) PROVE CoveredBy(new, upload'.done, call.asked, Len(new))
        OBVIOUS
      <4>2. call.asked <= upload.done \/ \E j \in 1 .. Len(new) : call.asked <= new[j].point
        <5>1. Len(new) \in 0 .. Len(new) /\ Len(new) + 1 = Len(jobs)
          BY <1>1, <2>2
        <5>2. QED
          BY <2>4, <3>2, <4>1, <5>1
      <4>3. QED
        BY <2>1, <2>3, <4>2 DEF CoveredBy
    <3>5. QED
      BY <2>1, <3>3, <3>4
  <2>8. QED
    BY <2>1, <2>5, <2>7 DEF OrderInv, Covered, new
<1>24. QED
  BY <1>0, <1>6, <1>7, <1>11, <1>12, <1>13, <1>14, <1>15, <1>17, <1>18, <1>19, <1>21, <1>22, <1>23,
     UpSteps

(* A command buffer runs after every upload asked for before its submission, *)
(* though its context and that of the uploads only meet in time points, a   *)
(* submission may be split into several jobs, and only the first waits; and *)
(* the root table an upload fills is there until the upload is done.        *)
THEOREM UploadsCorrect == Spec => []UploadsOrdered
<1>1. Init => OrderInv
  <2> SUFFICES ASSUME Init PROVE OrderInv
    OBVIOUS
  <2>1. queue.phase = "none" /\ gpu["exec"] = <<>>
    BY DEF Init, NoQueue
  <2>2. QED
    BY <2>1 DEF OrderInv, Submitting
<1>2. QueueInv /\ QueueInv' /\ OrderInv /\ [Next]_vars => OrderInv'
  BY OrderStep
<1>3. QueueInv /\ RefsExact /\ OrderInv => UploadsOrdered
  <2> SUFFICES ASSUME QueueInv, RefsExact, OrderInv PROVE UploadsBeforeUse /\ FillTargetsLive
    BY DEF UploadsOrdered
  <2>1. TypeInv /\ UploadInv /\ gpu["exec"] \in Seq(Jobs) /\ gpu["upload"] \in Seq(Jobs)
    BY DEF QueueInv, TypeInv, Contexts
  <2>2. UploadsBeforeUse
    <3>1. SUFFICES ASSUME Drawing("exec") PROVE Head(gpu["exec"]).asked <= upload.done
      BY DEF UploadsBeforeUse
    <3>2. /\ gpu["exec"] # <<>> /\ Head(gpu["exec"]).kind = "exec" /\ Head(gpu["exec"]).work > 0
          /\ Head(gpu["exec"]).point <= upload.done
      BY <3>1 DEF Drawing, Running
    <3>3. /\ 1 \in 1 .. Len(gpu["exec"]) /\ Head(gpu["exec"]) = gpu["exec"][1]
          /\ gpu["exec"][1] \in Jobs
      BY <2>1, <3>2
    <3>4. Covered(gpu["exec"][1].asked, 1)
      BY <3>2, <3>3 DEF OrderInv
    <3>5. gpu["exec"][1].asked <= upload.done \/ gpu["exec"][1].asked <= gpu["exec"][1].point
      BY <3>4 DEF Covered, CoveredBy
    <3>6. /\ gpu["exec"][1].asked \in Int /\ gpu["exec"][1].point \in Int /\ upload.done \in Int
      <4>1. \A job \in Jobs : job.asked \in Int /\ job.point \in Int
        BY Bounds DEF Jobs
      <4>2. upload.done \in 0 .. MaxUploads
        BY <2>1 DEF TypeInv
      <4>3. QED
        BY <3>3, <4>1, <4>2, Bounds
    <3>7. QED
      BY <3>2, <3>3, <3>5, <3>6
  <2>3. FillTargetsLive
    <3>1. SUFFICES ASSUME NEW m \in {upload.fill} \cup {gpu["upload"][i].into : i \in DOMAIN gpu["upload"]},
                          m # NoMem
                   PROVE  refs[m] > 0
      BY DEF FillTargetsLive
    <3>2. m \in {NoMem, queue.cb0}
      <4>1. DOMAIN gpu["upload"] = 1 .. Len(gpu["upload"])
        BY <2>1
      <4>2. QED
        BY <2>1, <4>1 DEF UploadInv
    <3>3. m = queue.cb0 /\ m \in Mems
      BY <2>1, <3>1, <3>2, RefTypes DEF Optional
    <3>4. refs[m] = Count(table, m) + Count(queue.state, m) + One(queue.cb0, m) + One(call.push, m)
      BY <3>3, HoldersCounted DEF RefsExact
    <3>5. /\ Count(table, m) \in Nat /\ Count(queue.state, m) \in Nat
          /\ One(queue.cb0, m) = 1 /\ One(call.push, m) \in {0, 1}
      BY <3>3, CountFacts DEF One
    <3>6. QED
      BY <3>4, <3>5
  <2>4. QED
    BY <2>2, <2>3
<1>4. QED
  BY <1>1, <1>2, <1>3, QueueAlways, RefsCorrect, PTL DEF Spec

-----------------------------------------------------------------------------
(***************************************************************************)
(* Signals after work.  What ran of a submission, what is in its context    *)
(* and what its call has left add up to what was asked for.  A sum over a   *)
(* queue is the last of a function that adds its jobs one at a time.        *)
(***************************************************************************)
Part(job, s) == IF job.s = s THEN job.work ELSE 0

Tallied(q, s, ran, W) ==
  /\ W \in [0 .. Len(q) -> Nat] /\ W[0] = ran
  /\ \A i \in 1 .. Len(q) : W[i] = W[i - 1] + Part(q[i], s)

Absent(q, s) == \A i \in 1 .. Len(q) : q[i].s # s

(* The job that signals is the last of its submission, and makes it whole. *)
Closed(q, s, W, want, accepted) ==
  \A i \in 1 .. Len(q) :
    q[i].s = s /\ q[i].signal =>
      W[i] = want /\ s \in accepted /\ \A j \in i + 1 .. Len(q) : q[j].s # s

(* A submission is in one context.  W tallies its jobs there. *)
AccountIn(c, W, s) ==
  /\ Tallied(gpu[c], s, done.ran[s], W)
  /\ Closed(gpu[c], s, W, done.want[s], done.accepted)
  /\ \A d \in Kinds : d # c => Absent(gpu[d], s)
  /\ Submitting /\ call.s = s =>
       /\ c = call.kind
       /\ call.pc # "fail" => W[Len(gpu[c])] + req[c].work + call.left = done.want[s]

Account(s) == \E c \in Kinds : \E W : AccountIn(c, W, s)

SignalInv ==
  /\ \A s \in Submits : s > queue.submits =>
       done.ran[s] = 0 /\ s \notin done.accepted /\ \A c \in Kinds : Absent(gpu[c], s)
  /\ \A s \in Submits : s <= queue.submits => Account(s)
  /\ \A s \in done.signalled :
       /\ s \in done.accepted /\ done.ran[s] = done.want[s]
       /\ \A c \in Kinds : Absent(gpu[c], s)
  /\ Submitting => call.s \notin done.accepted /\ (call.pc = "signal" => call.left = 0)

(* What a job adds to a submission is a number. *)
LEMMA PartType == \A job \in Jobs, s \in Submits : Part(job, s) \in Nat
BY DEF Part, Jobs

(* The sums over a queue, extended by a job given to it, ... *)
LEMMA TallyAppend ==
  ASSUME NEW q \in Seq(Jobs), NEW p \in Seq(Jobs), NEW s \in Submits, NEW ran, NEW W,
         Tallied(q, s, ran, W), Len(p) = Len(q) + 1, \A i \in 1 .. Len(q) : p[i] = q[i]
  PROVE  \E V : /\ Tallied(p, s, ran, V)
                /\ V[Len(p)] = W[Len(q)] + Part(p[Len(p)], s)
                /\ \A i \in 0 .. Len(q) : V[i] = W[i]
<1> DEFINE n == Len(q)
           last == W[n] + Part(p[n + 1], s)
           V == [i \in 0 .. n + 1 |-> IF i <= n THEN W[i] ELSE last]
<1>1. n \in Nat /\ W \in [0 .. n -> Nat] /\ n + 1 \in 1 .. Len(p) /\ p[n + 1] \in Jobs
  BY DEF Tallied
<1>2. last \in Nat
  <2>1. W[n] \in Nat /\ Part(p[n + 1], s) \in Nat
    BY <1>1, PartType
  <2> HIDE DEF n
  <2>2. QED
    BY <2>1
<1> HIDE DEF n, last
<1>3. V \in [0 .. n + 1 -> Nat]
  BY <1>1, <1>2
<1>4. (\A i \in 0 .. n : V[i] = W[i]) /\ V[n + 1] = last
  BY <1>1
<1> HIDE DEF V
<1>5. Len(p) = n + 1
  BY DEF n
<1>6. W[0] = ran /\ \A i \in 1 .. n : W[i] = W[i - 1] + Part(q[i], s)
  BY DEF Tallied, n
<1>7. ASSUME NEW i \in 1 .. n + 1 PROVE V[i] = V[i - 1] + Part(p[i], s)
  <2>1. i - 1 \in 0 .. n /\ V[i - 1] = W[i - 1]
    BY <1>1, <1>4, <1>7
  <2>2. CASE i <= n
    <3>1. i \in 1 .. n /\ i \in 0 .. n /\ p[i] = q[i]
      BY <1>1, <1>7, <2>2 DEF n
    <3>2. QED
      BY <1>4, <1>6, <2>1, <3>1
  <2>3. CASE i = n + 1
    BY <1>1, <1>4, <2>1, <2>3 DEF last
  <2>4. QED
    BY <1>1, <1>7, <2>2, <2>3
<1>8. V[0] = ran
  BY <1>1, <1>4, <1>6
<1>9. Tallied(p, s, ran, V)
  BY <1>3, <1>5, <1>7, <1>8 DEF Tallied
<1>10. V[Len(p)] = W[Len(q)] + Part(p[Len(p)], s) /\ \A i \in 0 .. Len(q) : V[i] = W[i]
  BY <1>4, <1>5 DEF last, n
<1>11. QED
  BY <1>9, <1>10

(* ... and shifted by the one that ran. *)
LEMMA TallyTail ==
  ASSUME NEW q \in Seq(Jobs), NEW p \in Seq(Jobs), NEW s \in Submits, NEW ran, NEW W,
         Tallied(q, s, ran, W), Len(q) > 0, Len(p) = Len(q) - 1,
         \A i \in 1 .. Len(p) : p[i] = q[i + 1]
  PROVE  \E V : /\ Tallied(p, s, ran + Part(q[1], s), V)
                /\ \A i \in 0 .. Len(p) : V[i] = W[i + 1]
<1> DEFINE n == Len(p)
           V == [i \in 0 .. n |-> W[i + 1]]
<1>1. n \in Nat /\ Len(q) = n + 1 /\ W \in [0 .. n + 1 -> Nat] /\ W[0] = ran
      /\ \A i \in 1 .. n + 1 : W[i] = W[i - 1] + Part(q[i], s)
  BY DEF Tallied
<1> HIDE DEF n
<1>2. V \in [0 .. n -> Nat]
  BY <1>1
<1>3. \A i \in 0 .. n : V[i] = W[i + 1]
  OBVIOUS
<1> HIDE DEF V
<1>4. V[0] = ran + Part(q[1], s)
  <2>1. 0 \in 0 .. n /\ 1 \in 1 .. n + 1
    BY <1>1
  <2>2. W[1] = W[0] + Part(q[1], s)
    BY <1>1, <2>1
  <2>3. QED
    BY <1>1, <1>3, <2>1, <2>2
<1>5. ASSUME NEW i \in 1 .. n PROVE V[i] = V[i - 1] + Part(p[i], s)
  <2>1. /\ i \in 0 .. n /\ i - 1 \in 0 .. n /\ i + 1 \in 1 .. n + 1
        /\ (i - 1) + 1 = i /\ (i + 1) - 1 = i
    BY <1>1, <1>5
  <2>2. W[i + 1] = W[i] + Part(q[i + 1], s) /\ V[i] = W[i + 1] /\ V[i - 1] = W[i] /\ p[i] = q[i + 1]
    BY <1>1, <1>3, <1>5, <2>1 DEF n
  <2>3. QED
    BY <2>2
<1>6. Tallied(p, s, ran + Part(q[1], s), V)
  BY <1>2, <1>4, <1>5 DEF Tallied, n
<1>7. QED
  BY <1>3, <1>6 DEF n

(* A step that leaves the contexts and what was asked of a submission. *)
LEMMA AccountKept ==
  ASSUME TypeInv, NEW s \in Submits, Account(s), \A c \in Kinds : gpu'[c] = gpu[c],
         done'.ran[s] = done.ran[s], done'.want[s] = done.want[s],
         s \in done.accepted => s \in done'.accepted,
         Submitting' /\ call'.s = s =>
           /\ Submitting /\ call.s = s /\ call'.kind = call.kind
           /\ call'.pc # "fail" =>
                /\ call.pc # "fail"
                /\ \A w \in Nat : w + req'[call.kind].work + call'.left
                                    = w + req[call.kind].work + call.left
  PROVE  Account(s)'
<1>1. PICK c \in Kinds : \E W : AccountIn(c, W, s)
  BY DEF Account
<1>2. PICK W : AccountIn(c, W, s)
  BY <1>1
<1>3. gpu'[c] = gpu[c]
  OBVIOUS
<1>4. Tallied(gpu'[c], s, done'.ran[s], W)
  BY <1>2, <1>3 DEF AccountIn
<1>5. Closed(gpu'[c], s, W, done'.want[s], done'.accepted)
  BY <1>2, <1>3 DEF AccountIn, Closed
<1>6. \A d \in Kinds : d # c => Absent(gpu'[d], s)
  BY <1>2 DEF AccountIn
<1>7. Submitting' /\ call'.s = s =>
        /\ c = call'.kind
        /\ call'.pc # "fail" => W[Len(gpu'[c])] + req'[c].work + call'.left = done'.want[s]
  <2>1. SUFFICES ASSUME Submitting', call'.s = s
                 PROVE  /\ c = call'.kind
                        /\ call'.pc # "fail" =>
                             W[Len(gpu'[c])] + req'[c].work + call'.left = done'.want[s]
    OBVIOUS
  <2>2. /\ Submitting /\ call.s = s /\ call'.kind = call.kind /\ c = call.kind
        /\ call.pc # "fail" => W[Len(gpu[c])] + req[c].work + call.left = done.want[s]
    BY <1>2, <2>1 DEF AccountIn
  <2>3. W[Len(gpu[c])] \in Nat
    <3>1. gpu[c] \in Seq(Jobs)
      BY Types DEF Kinds, Contexts
    <3>2. Len(gpu[c]) \in 0 .. Len(gpu[c])
      BY <3>1
    <3>3. QED
      BY <1>2, <3>2 DEF AccountIn, Tallied
  <2>4. QED
    BY <1>3, <2>1, <2>2, <2>3
<1>8. QED
  BY <1>4, <1>5, <1>6, <1>7 DEF Account, AccountIn

(* A job of the submission under way, or of none, given to a context. *)
LEMMA AccountPush ==
  ASSUME TypeInv, NEW s \in Submits, Account(s),
         NEW k \in Kinds, NEW job \in Jobs, Push(k, job),
         done'.ran[s] = done.ran[s], done'.want[s] = done.want[s],
         s \in done.accepted => s \in done'.accepted,
         job.s = s => /\ Submitting /\ call.s = s /\ k = call.kind /\ s \notin done.accepted
                      /\ call.pc # "fail",
         job.s = s /\ job.signal => /\ s \in done'.accepted
                                    /\ job.work = req[k].work /\ call.left = 0,
         Submitting' /\ call'.s = s =>
           /\ Submitting /\ call.s = s /\ call'.kind = call.kind
           /\ call'.pc # "fail" =>
                /\ call.pc # "fail"
                /\ \A w \in Nat : w + Part(job, s) + req'[call.kind].work + call'.left
                                    = w + req[call.kind].work + call.left
  PROVE  Account(s)'
<1>1. PICK c \in Kinds : \E W : AccountIn(c, W, s)
  BY DEF Account
<1>2. PICK W : AccountIn(c, W, s)
  BY <1>1
<1> DEFINE q == gpu[c]
           p == gpu'[c]
           n == Len(q)
<1>3. /\ c \in Contexts /\ k \in Contexts /\ gpu \in [Contexts -> Seq(Jobs)] /\ q \in Seq(Jobs)
      /\ n \in Nat /\ gpu' \in [Contexts -> Seq(Jobs)] /\ p \in Seq(Jobs)
  <2>1. c \in Contexts /\ k \in Contexts /\ gpu \in [Contexts -> Seq(Jobs)]
    BY Types DEF Kinds, Contexts
  <2>2. gpu' \in [Contexts -> Seq(Jobs)]
    BY <2>1, Pushed
  <2>3. QED
    BY <2>1, <2>2
<1>4. /\ Tallied(q, s, done.ran[s], W) /\ W \in [0 .. n -> Nat] /\ W[n] \in Nat
      /\ Closed(q, s, W, done.want[s], done.accepted)
      /\ \A d \in Kinds : d # c => Absent(gpu[d], s)
      /\ Submitting /\ call.s = s =>
           /\ c = call.kind
           /\ call.pc # "fail" => W[n] + req[c].work + call.left = done.want[s]
  <2>1. n \in 0 .. n
    BY <1>3
  <2>2. QED
    BY <1>2, <2>1 DEF AccountIn, Tallied
<1>5. CASE k # c
  <2>1. p = q /\ job.s # s
    BY <1>3, <1>4, <1>5, Pushed
  <2>2. ASSUME NEW d \in Kinds, d # c PROVE Absent(gpu'[d], s)
    <3>1. CASE d # k
      BY <1>3, <1>4, <2>2, <3>1, Pushed DEF Kinds, Contexts
    <3>2. CASE d = k
      <4>1. /\ Len(gpu'[k]) = Len(gpu[k]) + 1 /\ gpu'[k][Len(gpu[k]) + 1] = job /\ Len(gpu[k]) \in Nat
            /\ \A i \in 1 .. Len(gpu[k]) : gpu'[k][i] = gpu[k][i]
        BY <1>3, Pushed
      <4>2. \A i \in 1 .. Len(gpu'[k]) : i \in 1 .. Len(gpu[k]) \/ i = Len(gpu[k]) + 1
        BY <4>1
      <4>3. \A i \in 1 .. Len(gpu[k]) : gpu[k][i].s # s
        BY <1>4, <1>5 DEF Absent
      <4>4. QED
        BY <2>1, <3>2, <4>1, <4>2, <4>3 DEF Absent
    <3>3. QED
      BY <3>1, <3>2
  <2>3. Part(job, s) = 0
    BY <2>1 DEF Part
  <2>4. Submitting' /\ call'.s = s =>
          /\ c = call'.kind
          /\ call'.pc # "fail" => W[n] + req'[c].work + call'.left = done'.want[s]
    <3>1. SUFFICES ASSUME Submitting', call'.s = s
                   PROVE  /\ c = call'.kind
                          /\ call'.pc # "fail" => W[n] + req'[c].work + call'.left = done'.want[s]
      OBVIOUS
    <3>2. c = call.kind /\ c = call'.kind
      BY <1>4, <3>1
    <3>3. call'.pc # "fail" => W[n] + 0 + req'[c].work + call'.left = W[n] + req[c].work + call.left
      BY <1>4, <2>3, <3>1, <3>2
    <3>4. W[n] + 0 = W[n]
      BY <1>4
    <3>5. QED
      BY <1>4, <3>1, <3>2, <3>3, <3>4
  <2>5. Closed(p, s, W, done'.want[s], done'.accepted)
    BY <1>4, <2>1 DEF Closed
  <2>6. QED
    BY <1>4, <2>1, <2>2, <2>4, <2>5 DEF Account, AccountIn
<1>6. CASE k = c
  <2>1. /\ Len(p) = n + 1 /\ p[n + 1] = job /\ \A i \in 1 .. n : p[i] = q[i]
        /\ \A d \in Kinds : d # c => gpu'[d] = gpu[d]
    BY <1>3, <1>6, Pushed DEF Kinds, Contexts
  <2> HIDE DEF p, q
  <2>2. PICK V : /\ Tallied(p, s, done.ran[s], V)
                 /\ V[Len(p)] = W[n] + Part(p[Len(p)], s)
                 /\ \A i \in 0 .. n : V[i] = W[i]
    <3>1. /\ q \in Seq(Jobs) /\ p \in Seq(Jobs) /\ Tallied(q, s, done.ran[s], W)
          /\ Len(p) = Len(q) + 1 /\ \A i \in 1 .. Len(q) : p[i] = q[i]
      BY <1>3, <1>4, <2>1
    <3> HIDE DEF n
    <3>2. QED
      BY <3>1, TallyAppend DEF n
  <2>3. V[n + 1] = W[n] + Part(job, s)
    BY <2>1, <2>2
  <2>4. Closed(p, s, V, done'.want[s], done'.accepted)
    <3>1. ASSUME NEW i \in 1 .. Len(p), p[i].s = s, p[i].signal
          PROVE  V[i] = done'.want[s] /\ s \in done'.accepted /\ \A j \in i + 1 .. Len(p) : p[j].s # s
      <4>1. CASE i \in 1 .. n
        <5>1. /\ W[i] = done.want[s] /\ s \in done.accepted
              /\ \A j \in i + 1 .. n : q[j].s # s
          BY <1>4, <2>1, <3>1, <4>1 DEF Closed
        <5>2. job.s # s
          BY <5>1
        <5>3. \A j \in i + 1 .. Len(p) : (j \in i + 1 .. n /\ j \in 1 .. n) \/ j = n + 1
          <6>1. n \in Nat /\ Len(p) = n + 1 /\ i \in 1 .. n
            BY <1>3, <2>1, <4>1
          <6> HIDE DEF n
          <6>2. QED
            BY <6>1
        <5>4. i \in 0 .. n
          BY <1>3, <4>1
        <5>5. QED
          BY <2>1, <2>2, <5>1, <5>2, <5>3, <5>4
      <4>2. CASE i = n + 1
        <5>1. job.s = s /\ job.signal
          BY <2>1, <3>1, <4>2
        <5>2. Part(job, s) = req[k].work /\ call.left = 0
          BY <5>1 DEF Part
        <5>3. W[n] + req[c].work + call.left = done.want[s]
          BY <1>4, <5>1
        <5>4. req[c].work \in Nat
          <6>1. req[c] \in [point : 0 .. MaxUploads, after : 0 .. MaxSubmits, work : 0 .. 2]
            BY Types
          <6>2. QED
            BY <6>1
        <5>5. V[i] = done'.want[s]
          BY <1>4, <1>6, <2>3, <4>2, <5>2, <5>3, <5>4
        <5>6. \A j \in i + 1 .. Len(p) : FALSE
          BY <1>3, <2>1, <4>2
        <5>7. QED
          BY <5>1, <5>5, <5>6
      <4>3. QED
        BY <1>3, <2>1, <3>1, <4>1, <4>2
    <3>2. QED
      BY <3>1 DEF Closed
  <2>5. Submitting' /\ call'.s = s =>
          /\ c = call'.kind
          /\ call'.pc # "fail" => V[Len(p)] + req'[c].work + call'.left = done'.want[s]
    <3>1. SUFFICES ASSUME Submitting', call'.s = s
                   PROVE  /\ c = call'.kind
                          /\ call'.pc # "fail" => V[Len(p)] + req'[c].work + call'.left = done'.want[s]
      OBVIOUS
    <3>2. c = call.kind /\ c = call'.kind
      BY <1>4, <3>1
    <3>3. call'.pc # "fail" =>
            W[n] + Part(job, s) + req'[c].work + call'.left = W[n] + req[c].work + call.left
      BY <1>4, <3>1, <3>2
    <3>4. QED
      BY <1>4, <2>1, <2>3, <3>1, <3>2, <3>3
  <2>6. Tallied(p, s, done'.ran[s], V)
    BY <2>2
  <2>7. QED
    BY <1>4, <2>1, <2>4, <2>5, <2>6 DEF Account, AccountIn, p, q
<1>7. QED
  BY <1>5, <1>6

(* A job that ran. *)
LEMMA AccountPop ==
  ASSUME TypeInv, NEW s \in Submits, Account(s), NEW k \in Kinds, GpuStep(k)
  PROVE  Account(s)'
<1>1. PICK c \in Kinds : \E W : AccountIn(c, W, s)
  BY DEF Account
<1>2. PICK W : AccountIn(c, W, s)
  BY <1>1
<1> DEFINE q == gpu[c]
           p == gpu'[c]
           job == gpu[k][1]
<1>3. /\ c \in Contexts /\ k \in Contexts /\ gpu \in [Contexts -> Seq(Jobs)] /\ q \in Seq(Jobs)
      /\ Len(q) \in Nat
  BY Types DEF Kinds, Contexts
<1>4. /\ job \in Jobs /\ gpu[k] # <<>> /\ gpu' = [gpu EXCEPT ![k] = Tail(@)]
      /\ job.s = 0 => done' = done
      /\ job.s # 0 => done' = [done EXCEPT !.ran[job.s] = @ + job.work,
                                           !.signalled = IF job.signal THEN @ \cup {job.s} ELSE @]
      /\ UNCHANGED <<queue, call, req>>
  BY <1>3, GpuStepEffects
<1>5. /\ gpu' \in [Contexts -> Seq(Jobs)] /\ p \in Seq(Jobs)
      /\ \A d \in Contexts : d # k => gpu'[d] = gpu[d]
      /\ Len(gpu[k]) \in Nat /\ Len(gpu[k]) > 0 /\ Len(gpu'[k]) = Len(gpu[k]) - 1
      /\ \A i \in 1 .. Len(gpu'[k]) : gpu'[k][i] = gpu[k][i + 1]
  <2>1. gpu' \in [Contexts -> Seq(Jobs)]
    BY <1>3, <1>4, Popped
  <2>2. QED
    BY <1>3, <1>4, <2>1, Popped
<1>6. /\ done'.want = done.want /\ done'.accepted = done.accepted
      /\ done'.ran[s] = done.ran[s] + Part(job, s)
  <2>1. done.ran[s] \in Nat
    BY Types
  <2>2. CASE job.s = 0
    BY <1>4, <2>1, <2>2 DEF Part, Submits
  <2>3. CASE job.s # 0
    <3>1. job.s \in Submits
      BY <1>4, <2>3, Bounds DEF Jobs, Submits
    <3>2. done'.want = done.want /\ done'.accepted = done.accepted
          /\ done'.ran = [done.ran EXCEPT ![job.s] = @ + job.work]
      BY <1>4, <2>3, Types
    <3>3. done.ran \in [Submits -> Nat]
      BY Types
    <3>4. CASE job.s = s
      BY <3>1, <3>2, <3>3, <3>4 DEF Part
    <3>5. CASE job.s # s
      BY <2>1, <3>1, <3>2, <3>3, <3>5 DEF Part
    <3>6. QED
      BY <3>4, <3>5
  <2>4. QED
    BY <2>2, <2>3
<1>7. /\ Tallied(q, s, done.ran[s], W)
      /\ Closed(q, s, W, done.want[s], done.accepted)
      /\ \A d \in Kinds : d # c => Absent(gpu[d], s)
      /\ Submitting /\ call.s = s =>
           /\ c = call.kind
           /\ call.pc # "fail" => W[Len(q)] + req[c].work + call.left = done.want[s]
  BY <1>2 DEF AccountIn
<1>8. \A d \in Kinds : d # c => Absent(gpu'[d], s)
  <2>1. ASSUME NEW d \in Kinds, d # c PROVE Absent(gpu'[d], s)
    <3>1. CASE d # k
      BY <1>5, <1>7, <2>1, <3>1 DEF Kinds, Contexts
    <3>2. CASE d = k
      <4>1. \A i \in 1 .. Len(gpu'[d]) : i + 1 \in 1 .. Len(gpu[d]) /\ gpu'[d][i] = gpu[d][i + 1]
        BY <1>5, <3>2
      <4>2. QED
        BY <1>7, <2>1, <4>1 DEF Absent
    <3>3. QED
      BY <3>1, <3>2
  <2>2. QED
    BY <2>1
<1>9. CASE k # c
  <2>1. p = q
    BY <1>3, <1>5, <1>9
  <2>2. job.s # s
    <3>1. Absent(gpu[k], s) /\ 1 \in 1 .. Len(gpu[k])
      BY <1>5, <1>7, <1>9
    <3>2. QED
      BY <3>1 DEF Absent
  <2>3. done'.ran[s] = done.ran[s]
    <3>1. done.ran[s] \in Nat
      BY Types
    <3>2. QED
      BY <1>6, <2>2, <3>1 DEF Part
  <2>4. QED
    <3>1. Tallied(gpu'[c], s, done'.ran[s], W) /\ Closed(gpu'[c], s, W, done'.want[s], done'.accepted)
      BY <1>6, <1>7, <2>1, <2>3
    <3>2. Submitting' /\ call'.s = s =>
            /\ c = call'.kind
            /\ call'.pc # "fail" => W[Len(gpu'[c])] + req'[c].work + call'.left = done'.want[s]
      BY <1>4, <1>6, <1>7, <2>1 DEF Submitting
    <3>3. QED
      BY <1>8, <3>1, <3>2 DEF Account, AccountIn
<1>10. CASE k = c
  <2>1. /\ Len(q) > 0 /\ Len(p) = Len(q) - 1 /\ Len(p) \in Nat
        /\ \A i \in 1 .. Len(p) : p[i] = q[i + 1]
    BY <1>5, <1>10
  <2> HIDE DEF p, q
  <2>2. PICK V : /\ Tallied(p, s, done.ran[s] + Part(q[1], s), V)
                 /\ \A i \in 0 .. Len(p) : V[i] = W[i + 1]
    <3>1. /\ q \in Seq(Jobs) /\ p \in Seq(Jobs) /\ Tallied(q, s, done.ran[s], W)
          /\ Len(q) > 0 /\ Len(p) = Len(q) - 1 /\ \A i \in 1 .. Len(p) : p[i] = q[i + 1]
      BY <1>3, <1>5, <1>7, <2>1
    <3>2. QED
      BY <3>1, TallyTail
  <2>3. Tallied(p, s, done'.ran[s], V)
    BY <1>6, <1>10, <2>2 DEF q
  <2>4. Closed(p, s, V, done'.want[s], done'.accepted)
    <3>1. ASSUME NEW i \in 1 .. Len(p), p[i].s = s, p[i].signal
          PROVE  V[i] = done'.want[s] /\ s \in done'.accepted /\ \A j \in i + 1 .. Len(p) : p[j].s # s
      <4>1. i + 1 \in 1 .. Len(q) /\ i \in 0 .. Len(p) /\ p[i] = q[i + 1]
        BY <1>3, <2>1, <3>1
      <4>2. /\ W[i + 1] = done.want[s] /\ s \in done.accepted
            /\ \A j \in (i + 1) + 1 .. Len(q) : q[j].s # s
        BY <1>7, <3>1, <4>1 DEF Closed
      <4>3. \A j \in i + 1 .. Len(p) : j \in 1 .. Len(p) /\ j + 1 \in (i + 1) + 1 .. Len(q)
        BY <1>3, <2>1, <4>1
      <4>4. QED
        BY <1>6, <2>1, <2>2, <4>1, <4>2, <4>3
    <3>2. QED
      BY <3>1 DEF Closed
  <2>5. V[Len(p)] = W[Len(q)]
    <3>1. Len(p) \in 0 .. Len(p) /\ Len(p) + 1 = Len(q)
      BY <1>3, <2>1
    <3>2. QED
      BY <2>2, <3>1
  <2>6. QED
    BY <1>4, <1>6, <1>7, <1>8, <2>3, <2>4, <2>5 DEF Account, AccountIn, Submitting, p, q
<1>11. QED
  BY <1>9, <1>10

(* A submission stays absent from a context that gets a job of another, ... *)
LEMMA AbsentPush ==
  ASSUME TypeInv, NEW s, NEW c \in Kinds, NEW k \in Kinds, NEW job \in Jobs, Push(k, job), job.s # s,
         Absent(gpu[c], s)
  PROVE  Absent(gpu'[c], s)
<1>1. c \in Contexts /\ k \in Contexts /\ gpu \in [Contexts -> Seq(Jobs)]
  BY Types DEF Kinds, Contexts
<1>2. CASE c # k
  BY <1>1, <1>2, Pushed
<1>3. CASE c = k
  <2>1. /\ Len(gpu'[k]) = Len(gpu[k]) + 1 /\ gpu'[k][Len(gpu[k]) + 1] = job /\ Len(gpu[k]) \in Nat
        /\ \A i \in 1 .. Len(gpu[k]) : gpu'[k][i] = gpu[k][i]
    BY <1>1, Pushed
  <2>2. \A i \in 1 .. Len(gpu'[k]) : i \in 1 .. Len(gpu[k]) \/ i = Len(gpu[k]) + 1
    BY <2>1
  <2>3. QED
    BY <1>3, <2>1, <2>2 DEF Absent
<1>4. QED
  BY <1>2, <1>3

(* ... and from one that runs a job. *)
LEMMA AbsentPop ==
  ASSUME TypeInv, NEW s, NEW c \in Kinds, NEW k \in Kinds, GpuStep(k), Absent(gpu[c], s)
  PROVE  Absent(gpu'[c], s)
<1>1. c \in Contexts /\ k \in Contexts /\ gpu \in [Contexts -> Seq(Jobs)]
  BY Types DEF Kinds, Contexts
<1>2. gpu[k] # <<>> /\ gpu' = [gpu EXCEPT ![k] = Tail(@)]
  BY <1>1, GpuStepEffects
<1>3. CASE c # k
  BY <1>1, <1>2, <1>3, Popped
<1>4. CASE c = k
  <2>1. /\ Len(gpu[k]) \in Nat /\ Len(gpu'[k]) = Len(gpu[k]) - 1
        /\ \A i \in 1 .. Len(gpu'[k]) : gpu'[k][i] = gpu[k][i + 1]
    BY <1>1, <1>2, Popped
  <2>2. \A i \in 1 .. Len(gpu'[k]) : i + 1 \in 1 .. Len(gpu[k])
    BY <2>1
  <2>3. QED
    BY <1>4, <2>1, <2>2 DEF Absent
<1>5. QED
  BY <1>3, <1>4

(* The sums of a submission without jobs are zero. *)
LEMMA TallyFresh ==
  ASSUME NEW q \in Seq(Jobs), NEW s, Absent(q, s)
  PROVE  \E W : Tallied(q, s, 0, W) /\ W[Len(q)] = 0
<1> DEFINE W == [i \in 0 .. Len(q) |-> 0]
<1>1. Len(q) \in Nat /\ W \in [0 .. Len(q) -> Nat] /\ W[0] = 0 /\ W[Len(q)] = 0
  OBVIOUS
<1>2. ASSUME NEW i \in 1 .. Len(q) PROVE W[i] = W[i - 1] + Part(q[i], s)
  <2>1. i \in 0 .. Len(q) /\ i - 1 \in 0 .. Len(q)
    BY <1>1, <1>2
  <2>2. W[i] = 0 /\ W[i - 1] = 0
    BY <2>1
  <2>3. Part(q[i], s) = 0
    BY <1>2 DEF Part, Absent
  <2>4. QED
    BY <2>2, <2>3
<1>3. QED
  BY <1>1, <1>2 DEF Tallied

(* Every step keeps the account of every submission. *)
LEMMA SignalStep ==
  ASSUME QueueInv, QueueInv', SignalInv, [Next]_vars
  PROVE  SignalInv'
<1>0. TypeInv /\ PhaseInv /\ CallInv /\ UploadInv /\ TypeInv' /\ PhaseInv'
  BY DEF QueueInv
<1>1. queue.submits \in Nat /\ queue'.submits \in Nat /\ Submits \subseteq Nat /\ 0 \notin Submits
  BY <1>0, Numbers DEF TypeInv, Submits
(* A queue that nothing was submitted to. *)
<1>2. ASSUME done' = NoDone, queue'.submits = 0, ~Submitting',
             \A c \in Kinds, s \in Submits : Absent(gpu'[c], s)
      PROVE  SignalInv'
  <2>1. \A s \in Submits : ~(s <= 0)
    BY Numbers DEF Submits
  <2>2. QED
    BY <1>2, <2>1 DEF SignalInv, NoDone
<1>3. CASE queue'.phase # "up"
  <2>1. NoneInv' \/ InitInv'
    BY <1>0, <1>3 DEF PhaseInv, TypeInv
  <2>2. done' = NoDone /\ queue'.submits = 0
    BY <2>1 DEF NoneInv, InitInv, NoQueue
  <2>3. \A c \in Kinds, s \in Submits : Absent(gpu'[c], s)
    <3>1. CASE NoneInv'
      BY <3>1 DEF NoneInv, Contexts, Kinds, Absent
    <3>2. CASE InitInv'
      <4>1. gpu'["bind"] = <<>> /\ \A i \in 1 .. Len(gpu'["exec"]) : gpu'["exec"][i].s = 0
        BY <3>2 DEF InitInv, Job
      <4>2. QED
        BY <1>1, <4>1 DEF Kinds, Absent
    <3>3. QED
      BY <2>1, <3>1, <3>2
  <2>4. QED
    BY <1>2, <1>3, <2>2, <2>3 DEF Submitting
<1>4. CASE NewQueue
  <2>1. \A c \in Kinds, s \in Submits : Absent(gpu'[c], s)
    BY <1>4 DEF NewQueue, Kinds, Contexts, Absent
  <2>2. QED
    BY <1>2, <1>4, <2>1, IdleCall DEF NewQueue, Submitting
(* What holds of every submission, of those signalled, and of the call.      *)
<1>5. /\ \A s \in Submits : s > queue.submits =>
           done.ran[s] = 0 /\ s \notin done.accepted /\ \A c \in Kinds : Absent(gpu[c], s)
      /\ \A s \in Submits : s <= queue.submits => Account(s)
      /\ \A s \in done.signalled :
           /\ s \in Submits /\ s \in done.accepted /\ done.ran[s] = done.want[s]
           /\ \A c \in Kinds : Absent(gpu[c], s)
      /\ Submitting => /\ call.s = queue.submits /\ call.s \in Submits /\ call.kind \in Kinds
                       /\ call.s \notin done.accepted
                       /\ call.pc = "signal" => call.left = 0
  <2>1. done.signalled \subseteq Submits
    BY <1>0, Types
  <2>2. Submitting => call.s = queue.submits /\ call.s \in Submits /\ call.kind \in Kinds
    BY <1>0 DEF CallInv, Submitting, SubmitCall
  <2>3. QED
    BY <2>1, <2>2 DEF SignalInv
<1>6. ASSUME \A c \in Kinds : gpu'[c] = gpu[c], done' = done, queue'.submits = queue.submits,
             Submitting' =>
               /\ Submitting /\ call'.s = call.s /\ call'.kind = call.kind
               /\ call'.pc = "signal" => call'.left = 0
               /\ call'.pc # "fail" =>
                    /\ call.pc # "fail"
                    /\ \A w \in Nat : w + req'[call.kind].work + call'.left
                                        = w + req[call.kind].work + call.left
      PROVE  SignalInv'
  <2>1. ASSUME NEW s \in Submits, s <= queue.submits PROVE Account(s)'
    <3>1. Account(s)
      BY <1>5, <2>1
    <3>2. QED
      BY <1>0, <1>6, <3>1, AccountKept
  <2>2. QED
    BY <1>5, <1>6, <2>1 DEF SignalInv
<1>7. ASSUME NEW k \in Kinds, NEW job \in Jobs, Push(k, job),
             job.s # 0 => /\ Submitting /\ job.s = call.s /\ k = call.kind /\ call.pc # "fail"
                          /\ job.signal => /\ call.s \in done'.accepted
                                           /\ job.work = req[k].work /\ call.left = 0,
             done'.ran = done.ran, done'.want = done.want, done'.signalled = done.signalled,
             \/ done'.accepted = done.accepted
             \/ Submitting /\ done'.accepted = done.accepted \cup {call.s} /\ ~Submitting',
             queue'.submits = queue.submits,
             Submitting' =>
               /\ Submitting /\ call'.s = call.s /\ call'.kind = call.kind
               /\ call'.pc = "signal" => call'.left = 0
               /\ call'.pc # "fail" =>
                    /\ call.pc # "fail"
                    /\ \A w \in Nat : w + Part(job, call.s) + req'[call.kind].work + call'.left
                                        = w + req[call.kind].work + call.left
      PROVE  SignalInv'
  <2>1. ASSUME NEW s \in Submits, s <= queue.submits PROVE Account(s)'
    <3>1. Account(s)
      BY <1>5, <2>1
    <3>2. job.s = s => Submitting /\ call.s = s /\ k = call.kind /\ s \notin done.accepted /\ call.pc # "fail"
      BY <1>1, <1>5, <1>7
    <3>3. job.s = s /\ job.signal => s \in done'.accepted /\ job.work = req[k].work /\ call.left = 0
      BY <1>1, <1>7
    <3>4. s \in done.accepted => s \in done'.accepted
      BY <1>7
    <3>5. Submitting' /\ call'.s = s =>
            /\ Submitting /\ call.s = s /\ call'.kind = call.kind
            /\ call'.pc # "fail" =>
                 /\ call.pc # "fail"
                 /\ \A w \in Nat : w + Part(job, s) + req'[call.kind].work + call'.left
                                     = w + req[call.kind].work + call.left
      BY <1>7
    <3>6. done'.ran[s] = done.ran[s] /\ done'.want[s] = done.want[s]
      BY <1>7
    <3>7. QED
      BY <1>0, <1>7, <3>1, <3>2, <3>3, <3>4, <3>5, <3>6, AccountPush
  <2>2. ASSUME NEW s \in Submits, s > queue.submits \/ s \in done.signalled, NEW c \in Kinds
        PROVE  Absent(gpu'[c], s)
    <3>1. Absent(gpu[c], s)
      BY <1>5, <2>2
    <3>2. job.s # s
      <4>1. ~(Submitting /\ call.s = s)
        BY <1>1, <1>5, <2>2
      <4>2. QED
        BY <1>1, <1>7, <4>1
    <3>3. QED
      BY <1>0, <1>7, <3>1, <3>2, AbsentPush
  <2>3. ASSUME NEW s \in Submits, s > queue.submits PROVE s \notin done'.accepted
    BY <1>1, <1>5, <1>7, <2>3
  <2>4. ASSUME NEW s \in done.signalled PROVE s \in done'.accepted
    BY <1>5, <1>7, <2>4
  <2>5. Submitting' => call'.s \notin done'.accepted /\ (call'.pc = "signal" => call'.left = 0)
    BY <1>5, <1>7
  <2>6. QED
    BY <1>5, <1>7, <2>1, <2>2, <2>3, <2>4, <2>5 DEF SignalInv
<1>8. CASE queue.phase = "up" /\ FinishBegin
  <2>1. /\ call' = [call EXCEPT !.pc = "finish"] /\ Flush /\ UNCHANGED <<queue, done>>
    BY <1>8 DEF FinishBegin, Goto
  <2>2. call'.pc = "finish"
    BY <1>0, <2>1, Types DEF InitCall, SubmitCall
  <2>3. ~Submitting'
    BY <2>2, IdleCall DEF Submitting
  <2>4. \A c \in Kinds : gpu'[c] = gpu[c]
    <3>1. gpu' = gpu \/ \E job \in Jobs : Push("upload", job)
      BY <1>0, <2>1, FlushEffects
    <3>2. QED
      BY <1>0, <3>1, Types, Pushed DEF Kinds, Contexts
  <2>5. QED
    BY <1>6, <2>1, <2>3, <2>4
<1>9. CASE queue.phase = "up" /\ Submit
  <2>1. /\ UNCHANGED <<req, upload, gpu>> /\ queue.submits < MaxSubmits
        /\ queue'.submits = queue.submits + 1
        /\ done'.signalled = done.signalled /\ done'.accepted = done.accepted
        /\ done'.ran = done.ran
        /\ \A s \in Submits : s # queue.submits + 1 => done'.want[s] = done.want[s]
        /\ \/ call' = Idle
           \/ /\ call' \in SubmitCall /\ call'.s = queue.submits + 1
              /\ done'.want[queue.submits + 1] = call'.left
              /\ call'.pc = "wait" \/ call'.pc = Tables[1]
    BY <1>0, <1>9, SubmitEffects
  <2>2. PICK new \in Submits : new = queue.submits + 1 /\ new > queue.submits
    BY <1>1, <2>1, Numbers DEF Submits
  <2>3. Submitting' => call' \in SubmitCall /\ call'.s = new /\ done'.want[new] = call'.left
                       /\ call'.pc # "signal" /\ call'.kind \in Kinds
    BY <2>1, <2>2, IdleCall, Bounds DEF Submitting, SubmitLabels, SubmitCall
  <2>4. ASSUME NEW s \in Submits, s <= queue.submits PROVE Account(s)'
    <3>1. Account(s) /\ s # new
      BY <1>1, <1>5, <2>2, <2>4
    <3>2. ~(Submitting' /\ call'.s = s)
      BY <2>3, <3>1
    <3>3. done'.want[s] = done.want[s]
      BY <2>1, <2>2, <3>1
    <3>4. QED
      BY <1>0, <2>1, <3>1, <3>2, <3>3, AccountKept
  <2>5. Account(new)'
    <3>1. PICK c \in Kinds : Submitting' => c = call'.kind
      BY <2>3 DEF Kinds
    <3>2. /\ \A d \in Kinds : Absent(gpu[d], new)
          /\ new \notin done.accepted /\ done'.ran[new] = 0
      BY <1>5, <2>1, <2>2
    <3>3. gpu[c] \in Seq(Jobs)
      BY <1>0, Types DEF Kinds, Contexts
    <3>4. PICK W : Tallied(gpu[c], new, 0, W) /\ W[Len(gpu[c])] = 0
      BY <3>2, <3>3, TallyFresh
    <3>5. Tallied(gpu'[c], new, done'.ran[new], W)
      BY <2>1, <3>2, <3>4
    <3>6. Closed(gpu'[c], new, W, done'.want[new], done'.accepted)
      BY <2>1, <3>2 DEF Closed, Absent
    <3>7. \A d \in Kinds : Absent(gpu'[d], new)
      BY <2>1, <3>2
    <3>8. Submitting' /\ call'.s = new =>
            c = call'.kind /\ W[Len(gpu'[c])] + req'[c].work + call'.left = done'.want[new]
      <4>1. SUFFICES ASSUME Submitting'
                     PROVE  c = call'.kind /\ W[Len(gpu'[c])] + req'[c].work + call'.left = done'.want[new]
        OBVIOUS
      <4>2. ~queue.lost
        BY <1>0, <1>9, <4>1, SubmitEffects, IdleCall DEF Submitting
      <4>3. req'[c].work = 0
        <5>1. call.pc = "idle"
          BY <1>0, <1>9, SubmitEffects
        <5>2. QED
          BY <1>0, <1>9, <2>1, <4>2, <5>1 DEF CallInv, NoReq, Kinds
      <4>4. call'.left \in Nat
        BY <2>3, <4>1 DEF SubmitCall
      <4>5. QED
        BY <2>1, <2>3, <3>1, <3>4, <4>1, <4>3, <4>4
    <3>9. QED
      BY <3>5, <3>6, <3>7, <3>8, <2>2 DEF Account, AccountIn
  <2>6. \A s \in Submits : s <= queue'.submits => Account(s)'
    <3>1. \A s \in Submits : s <= queue'.submits => s <= queue.submits \/ s = new
      BY <1>1, <2>1, <2>2
    <3>2. QED
      BY <2>4, <2>5, <3>1
  <2>7. \A s \in Submits : s > queue'.submits =>
          done'.ran[s] = 0 /\ s \notin done'.accepted /\ \A c \in Kinds : Absent(gpu'[c], s)
    <3>1. \A s \in Submits : s > queue'.submits => s > queue.submits
      BY <1>1, <2>1
    <3>2. QED
      BY <1>5, <2>1, <3>1
  <2>8. \A s \in done'.signalled :
          /\ s \in done'.accepted /\ done'.ran[s] = done'.want[s]
          /\ \A c \in Kinds : Absent(gpu'[c], s)
    <3>1. \A s \in done.signalled : s # new
      BY <1>5, <2>2
    <3>2. \A s \in done.signalled : done'.want[s] = done.want[s]
      BY <1>5, <2>1, <2>2, <3>1
    <3>3. QED
      BY <1>5, <2>1, <3>2
  <2>9. Submitting' => call'.s \notin done'.accepted /\ call'.pc # "signal"
    BY <1>5, <2>1, <2>2, <2>3
  <2>10. QED
    BY <2>6, <2>7, <2>8, <2>9 DEF SignalInv
<1>10. CASE queue.phase = "up" /\ UpdateTable
  <2>1. PICK t \in Names :
          /\ Submitting /\ call.pc = t /\ Same(call', call) /\ call'.pc = NextTable(t)
          /\ call'.left = call.left /\ queue'.submits = queue.submits /\ UNCHANGED <<req, gpu, done>>
    BY <1>0, <1>10, UpdateTableEffects
  <2>2. call'.pc # "signal" /\ call.pc # "fail"
    BY <2>1, Bounds, NextTableFacts DEF SubmitLabels
  <2>3. QED
    BY <1>6, <2>1, <2>2 DEF Same
<1>11. CASE queue.phase = "up" /\ Install
  <2>1. /\ Submitting /\ call.pc = "install" /\ Same(call', call) /\ call'.left = call.left
        /\ UNCHANGED <<queue, req, done>> /\ call'.pc \in {"sync", "fail", "flush"}
        /\ \/ LET job == [Job("tables") EXCEPT !.need = queue.state]
              IN job \in Jobs /\ Push("exec", job)
           \/ gpu' = gpu
    BY <1>0, <1>11, InstallEffects
  <2>2. CASE gpu' = gpu
    BY <1>6, <2>1, <2>2 DEF Same
  <2>3. CASE gpu' # gpu
    <3> DEFINE job == [Job("tables") EXCEPT !.need = queue.state]
    <3>1. job \in Jobs /\ Push("exec", job) /\ job.s = 0
      BY <2>1, <2>3 DEF Job
    <3> HIDE DEF job
    <3>2. Part(job, call.s) = 0
      BY <1>1, <1>5, <2>1, <3>1 DEF Part
    <3>3. \A w \in Nat : w + 0 = w
      OBVIOUS
    <3>4. "exec" \in Kinds
      BY DEF Kinds
    <3>5. \A w \in Nat : w + Part(job, call.s) + req'[call.kind].work + call'.left
                           = w + req[call.kind].work + call.left
      BY <2>1, <3>2, <3>3
    <3>6. QED
      BY <1>7, <2>1, <3>1, <3>4, <3>5 DEF Same
  <2>4. QED
    BY <2>2, <2>3
<1>12. CASE queue.phase = "up" /\ InstallSync
  <2>1. /\ Submitting /\ call.pc = "sync" /\ Same(call', call) /\ call'.left = call.left
        /\ UNCHANGED <<queue, req, gpu, done>> /\ call'.pc \in {"fail", "flush"}
    BY <1>0, <1>12, InstallSyncEffects
  <2>2. QED
    BY <1>6, <2>1 DEF Same
<1>13. CASE queue.phase = "up" /\ FlushUploads
  <2>1. /\ Submitting /\ call.pc = "flush" /\ Same(call', call) /\ call'.left = call.left
        /\ UNCHANGED <<queue, req, done>> /\ call'.pc \in {"fail", "wait"}
        /\ Flush \/ UNCHANGED <<upload, gpu>>
    BY <1>0, <1>13, FlushUploadsEffects
  <2>2. \A c \in Kinds : gpu'[c] = gpu[c]
    <3>1. gpu' = gpu \/ \E job \in Jobs : Push("upload", job)
      BY <1>0, <2>1, FlushEffects
    <3>2. QED
      BY <1>0, <3>1, Types, Pushed DEF Kinds, Contexts
  <2>3. QED
    BY <1>6, <2>1, <2>2 DEF Same
<1>14. CASE queue.phase = "up" /\ Wait
  <2>1. /\ Submitting /\ call.pc = "wait" /\ Same(call', call) /\ call'.left = call.left
        /\ UNCHANGED <<queue, gpu, done>>
        /\ call'.pc = "fail" \/ req'[call.kind].work = req[call.kind].work
        /\ call'.pc = "signal" => ~(call.left > 0)
    BY <1>0, <1>14, WaitEffects
  <2>2. call.left \in 0 .. 2
    BY <2>1 DEF Submitting, SubmitCall
  <2>3. call'.pc = "signal" => call'.left = 0
    BY <2>1, <2>2
  <2>4. QED
    BY <1>6, <2>1, <2>3 DEF Same
<1>15. CASE queue.phase = "up" /\ Work
  <2>1. /\ Submitting /\ call.pc = "work" /\ Same(call', call) /\ UNCHANGED <<queue, done>>
        /\ call.left > 0 /\ call.kind \in Kinds /\ call.left \in 0 .. 2 /\ call.s # 0
    <3>1. /\ Submitting /\ call.pc = "work" /\ Same(call', call) /\ UNCHANGED <<queue, done>>
          /\ call.left > 0
      BY <1>0, <1>15, WorkEffects
    <3>2. QED
      BY <1>1, <1>5, <3>1 DEF Submitting, SubmitCall
  <2>2. req[call.kind].work \in Nat
    <3>1. req[call.kind] \in [point : 0 .. MaxUploads, after : 0 .. MaxSubmits, work : 0 .. 2]
      BY <1>0, <2>1, Types
    <3>2. QED
      BY <3>1
  <2>3. CASE /\ call'.left = call.left - 1
             /\ call'.pc = (IF call.left > 1 THEN "work" ELSE "signal")
             /\ gpu' = gpu /\ req'[call.kind].work = req[call.kind].work + 1
    <3>1. call'.pc = "signal" => call'.left = 0
      BY <2>1, <2>3
    <3>2. \A w \in Nat : w + req'[call.kind].work + call'.left = w + req[call.kind].work + call.left
      BY <2>1, <2>2, <2>3
    <3>3. QED
      BY <1>6, <2>1, <2>3, <3>1, <3>2 DEF Same
  <2>4. CASE \E job \in Jobs :
               /\ Push(call.kind, job) /\ job.s = call.s /\ ~job.signal
               /\ job.work = req[call.kind].work + 1
               /\ req'[call.kind] = NoReq[call.kind]
               /\ call'.left = call.left - 1
               /\ call'.pc = (IF call.left > 1 THEN "work" ELSE "signal")
    <3>1. PICK job \in Jobs :
               /\ Push(call.kind, job) /\ job.s = call.s /\ ~job.signal
               /\ job.work = req[call.kind].work + 1
               /\ req'[call.kind] = NoReq[call.kind]
               /\ call'.left = call.left - 1
               /\ call'.pc = (IF call.left > 1 THEN "work" ELSE "signal")
      BY <2>4
    <3>2. call'.pc = "signal" => call'.left = 0
      BY <2>1, <3>1
    <3>3. req'[call.kind].work = 0 /\ Part(job, call.s) = req[call.kind].work + 1
      BY <2>1, <3>1 DEF NoReq, Kinds, Part
    <3>4. \A w \in Nat : w + Part(job, call.s) + req'[call.kind].work + call'.left
                           = w + req[call.kind].work + call.left
      BY <2>1, <2>2, <3>1, <3>3
    <3>5. QED
      BY <1>7, <2>1, <3>1, <3>2, <3>4 DEF Same
  <2>5. CASE call'.pc = "fail" /\ call'.left = call.left /\ req' = req /\ gpu' = gpu
    BY <1>6, <2>1, <2>5 DEF Same
  <2>6. QED
    BY <1>0, <1>15, <2>3, <2>4, <2>5, WorkEffects
<1>16. CASE queue.phase = "up" /\ Signal
  <2>1. Submitting /\ call.pc = "signal" /\ queue' = queue
    BY <1>0, <1>16, SignalEffects
  <2>2. call.kind \in Kinds /\ call.left = 0
    BY <1>5, <2>1
  <2>3. CASE call' = Idle
    <3>1. PICK job \in Jobs :
            /\ Push(call.kind, job) /\ job.s = call.s
            /\ job.work = req[call.kind].work
            /\ done'.accepted = done.accepted \cup {call.s}
            /\ done'.signalled = done.signalled /\ done'.ran = done.ran /\ done'.want = done.want
      <4>1. call'.pc # "fail"
        BY <2>3 DEF Idle
      <4>2. QED
        BY <1>0, <1>16, <4>1, SignalEffects
    <3>2. ~Submitting'
      BY <2>3, IdleCall DEF Submitting
    <3>3. QED
      BY <1>7, <2>1, <2>2, <3>1, <3>2
  <2>4. CASE call' # Idle
    <3>1. /\ call'.pc = "fail" /\ Same(call', call) /\ UNCHANGED <<gpu, req, done>>
      BY <1>0, <1>16, <2>4, SignalEffects
    <3>2. QED
      BY <1>6, <2>1, <3>1 DEF Same
  <2>5. QED
    BY <2>3, <2>4
<1>17. CASE queue.phase = "up" /\ SubmitFails
  <2>1. call' = Idle /\ queue' = [queue EXCEPT !.lost = TRUE] /\ UNCHANGED <<gpu, done>>
    BY <1>17 DEF SubmitFails
  <2>2. ~Submitting' /\ queue'.submits = queue.submits
    BY <1>0, <2>1, Types, IdleCall DEF Submitting
  <2>3. QED
    BY <1>6, <2>1, <2>2
<1>18. ASSUME UNCHANGED <<queue, call, req, done>>, \A c \in Kinds : gpu'[c] = gpu[c] PROVE SignalInv'
  <2>1. Submitting' => Submitting
    BY <1>18 DEF Submitting
  <2>2. Submitting' => (call'.pc = "signal" => call'.left = 0)
    BY <1>5, <1>18, <2>1
  <2>3. CASE Submitting /\ call.pc = "fail"
    BY <1>6, <1>18, <2>2, <2>3
  <2>4. CASE ~(Submitting /\ call.pc = "fail")
    BY <1>6, <1>18, <2>1, <2>2, <2>4
  <2>5. QED
    BY <2>3, <2>4
<1>19. CASE Grow \/ AskUpload \/ UNCHANGED vars
  <2>1. UNCHANGED <<queue, call, req, done, gpu>>
    BY <1>19 DEF Grow, AskUpload, vars
  <2>2. QED
    BY <1>18, <2>1
<1>20. CASE GpuStep("upload")
  <2>1. /\ gpu["upload"] # <<>> /\ gpu' = [gpu EXCEPT !["upload"] = Tail(@)]
        /\ UNCHANGED <<queue, call, req>>
        /\ gpu["upload"][1].s = 0 => done' = done
        /\ gpu \in [Contexts -> Seq(Jobs)] /\ "upload" \in Contexts
    BY <1>0, <1>20, GpuStepEffects, Types DEF Contexts
  <2>2. 1 \in 1 .. Len(gpu["upload"]) /\ \A c \in Kinds : gpu'[c] = gpu[c]
    BY <2>1, Popped DEF Kinds, Contexts
  <2>3. gpu["upload"][1].s = 0
    BY <1>0, <2>2 DEF UploadInv
  <2>4. QED
    BY <1>18, <2>1, <2>2, <2>3
<1>21. ASSUME NEW k \in Kinds, GpuStep(k) PROVE SignalInv'
  <2> DEFINE job == gpu[k][1]
  <2>1. /\ job \in Jobs /\ gpu[k] # <<>> /\ gpu' = [gpu EXCEPT ![k] = Tail(@)]
        /\ UNCHANGED <<queue, call, req>>
        /\ job.s = 0 => done' = done
        /\ job.s # 0 => done' = [done EXCEPT !.ran[job.s] = @ + job.work,
                                             !.signalled = IF job.signal THEN @ \cup {job.s} ELSE @]
        /\ k \in Contexts /\ gpu \in [Contexts -> Seq(Jobs)]
    <3>1. k \in Contexts
      BY DEF Kinds, Contexts
    <3>2. QED
      BY <1>0, <1>21, <3>1, GpuStepEffects, Types
  <2>2. 1 \in 1 .. Len(gpu[k])
    BY <2>1, Popped
  <2>3. job.s # 0 => job.s \in Submits
    BY <2>1, Numbers DEF Jobs, Submits
  <2>4. /\ done'.accepted = done.accepted /\ done'.want = done.want
        /\ done'.signalled \subseteq done.signalled \cup (IF job.s # 0 /\ job.signal THEN {job.s} ELSE {})
        /\ \A s \in Submits : s # job.s => done'.ran[s] = done.ran[s]
        /\ job.s \in Submits => done'.ran[job.s] = done.ran[job.s] + job.work
    <3>1. done.ran \in [Submits -> Nat]
      BY <1>0, Types
    <3>2. CASE job.s = 0
      BY <1>1, <2>1, <3>2
    <3>3. CASE job.s # 0
      <4>1. /\ done'.accepted = done.accepted /\ done'.want = done.want
            /\ done'.signalled = (IF job.signal THEN done.signalled \cup {job.s} ELSE done.signalled)
            /\ done'.ran = [done.ran EXCEPT ![job.s] = @ + job.work]
        BY <1>0, <2>1, <3>3, Types
      <4>2. QED
        BY <2>3, <3>1, <3>3, <4>1
    <3>4. QED
      BY <3>2, <3>3
  <2>5. ASSUME NEW s \in Submits, s <= queue.submits PROVE Account(s)'
    <3>1. Account(s)
      BY <1>5, <2>5
    <3>2. QED
      BY <1>0, <1>21, <3>1, AccountPop
  <2>6. ASSUME NEW s \in Submits, \A c \in Kinds : Absent(gpu[c], s)
        PROVE  job.s # s /\ done'.ran[s] = done.ran[s] /\ \A c \in Kinds : Absent(gpu'[c], s)
    <3>1. job.s # s
      BY <2>2, <2>6 DEF Absent
    <3>2. \A c \in Kinds : Absent(gpu'[c], s)
      BY <1>0, <1>21, <2>6, AbsentPop
    <3>3. QED
      BY <2>4, <3>1, <3>2
  <2>7. ASSUME NEW s \in done'.signalled
        PROVE  /\ s \in done'.accepted /\ done'.ran[s] = done'.want[s]
               /\ \A c \in Kinds : Absent(gpu'[c], s)
    <3>1. CASE s \in done.signalled
      <4>1. /\ s \in Submits /\ s \in done.accepted /\ done.ran[s] = done.want[s]
            /\ \A c \in Kinds : Absent(gpu[c], s)
        BY <1>5, <3>1
      <4>2. QED
        BY <2>4, <2>6, <4>1
    <3>2. CASE s \notin done.signalled
      <4>1. s = job.s /\ job.signal /\ s \in Submits
        BY <2>3, <2>4, <2>7, <3>2
      <4>2. s <= queue.submits
        <5>1. ~Absent(gpu[k], s)
          BY <2>2, <4>1 DEF Absent
        <5>2. QED
          BY <1>1, <1>5, <4>1, <5>1
      <4>3. PICK c \in Kinds : \E W : AccountIn(c, W, s)
        BY <1>5, <4>1, <4>2 DEF Account
      <4>4. PICK W : AccountIn(c, W, s)
        BY <4>3
      <4>5. /\ Tallied(gpu[c], s, done.ran[s], W)
            /\ Closed(gpu[c], s, W, done.want[s], done.accepted)
            /\ \A d \in Kinds : d # c => Absent(gpu[d], s)
        BY <4>4 DEF AccountIn
      <4>6. c = k
        BY <2>2, <4>1, <4>5 DEF Absent
      <4>7. W[1] = done.want[s] /\ s \in done.accepted /\ \A j \in 1 + 1 .. Len(gpu[k]) : gpu[k][j].s # s
        BY <2>2, <4>1, <4>5, <4>6 DEF Closed
      <4>8. W[1] = done.ran[s] + job.work
        <5>1. W[0] = done.ran[s] /\ W[1] = W[1 - 1] + Part(job, s)
          BY <2>2, <4>5, <4>6 DEF Tallied
        <5>2. Part(job, s) = job.work
          BY <4>1 DEF Part
        <5>3. 1 - 1 = 0
          OBVIOUS
        <5>4. QED
          BY <5>1, <5>2, <5>3
      <4>9. Absent(gpu'[k], s)
        <5>1. /\ Len(gpu[k]) \in Nat /\ Len(gpu'[k]) = Len(gpu[k]) - 1
              /\ \A i \in 1 .. Len(gpu'[k]) : gpu'[k][i] = gpu[k][i + 1]
          BY <2>1, Popped
        <5>2. \A i \in 1 .. Len(gpu'[k]) : i + 1 \in 1 + 1 .. Len(gpu[k])
          BY <5>1
        <5>3. QED
          BY <4>7, <5>1, <5>2 DEF Absent
      <4>10. \A d \in Kinds : Absent(gpu'[d], s)
        <5>1. \A d \in Kinds : d # k => Absent(gpu[d], s)
          BY <4>5, <4>6
        <5>2. ASSUME NEW d \in Kinds, d # k PROVE Absent(gpu'[d], s)
          BY <1>0, <1>21, <5>1, <5>2, AbsentPop
        <5>3. QED
          BY <4>9, <5>2
      <4>11. QED
        BY <2>4, <4>1, <4>7, <4>8, <4>10
    <3>3. QED
      BY <3>1, <3>2
  <2>8. ASSUME NEW s \in Submits, s > queue.submits
        PROVE  done'.ran[s] = 0 /\ s \notin done'.accepted /\ \A c \in Kinds : Absent(gpu'[c], s)
    <3>1. done.ran[s] = 0 /\ s \notin done.accepted /\ \A c \in Kinds : Absent(gpu[c], s)
      BY <1>5, <2>8
    <3>2. QED
      BY <2>4, <2>6, <3>1
  <2>9. Submitting' => call'.s \notin done'.accepted /\ (call'.pc = "signal" => call'.left = 0)
    BY <1>5, <2>1, <2>4 DEF Submitting
  <2> HIDE DEF job
  <2>10. QED
    BY <2>1, <2>5, <2>7, <2>8, <2>9 DEF SignalInv
<1>22. Contexts = Kinds \cup {"upload"}
  BY DEF Kinds, Contexts
<1>23. QED
  BY <1>0, <1>3, <1>4, <1>8, <1>9, <1>10, <1>11, <1>12, <1>13, <1>14, <1>15, <1>16, <1>17, <1>19,
     <1>20, <1>21, <1>22, UpSteps

(* The signals of a submission are sent once all of its work ran, however it *)
(* was split into jobs, and never when a step of it failed.                 *)
THEOREM SignalsCorrect == Spec => []SignalsAfterWork
<1>1. Init => SignalInv
  <2> SUFFICES ASSUME Init PROVE SignalInv
    OBVIOUS
  <2>1. queue.phase = "none" /\ queue.submits = 0 /\ done = NoDone
    BY DEF Init, NoQueue
  <2>2. \A c \in Kinds : gpu[c] = <<>>
    BY DEF Init, Kinds
  <2>3. \A s \in Submits : ~(s <= 0)
    BY Numbers DEF Submits
  <2>4. \A c \in Kinds, s \in Submits : Absent(gpu[c], s)
    BY <2>2 DEF Absent
  <2>5. QED
    BY <2>1, <2>3, <2>4 DEF SignalInv, NoDone, Submitting
<1>2. QueueInv /\ QueueInv' /\ SignalInv /\ [Next]_vars => SignalInv'
  BY SignalStep
<1>3. SignalInv => SignalsAfterWork
  BY DEF SignalInv, SignalsAfterWork
<1>4. QED
  BY <1>1, <1>2, <1>3, QueueAlways, PTL DEF Spec
=====================================================================================
