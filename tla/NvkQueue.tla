------------------------------- MODULE NvkQueue -------------------------------
(***************************************************************************)
(* A queue of NVK (nvk_queue.c): its creation and destruction, the state   *)
(* it keeps in step with the device, and its submissions.                  *)
(*                                                                         *)
(* The descriptor tables and the shader local memory of the device grow     *)
(* while other threads record.  A submission looks at each of them, takes a *)
(* reference on its memory and programs the engine when it differs from    *)
(* what the queue has.  Shader code and the root table go through an upload *)
(* queue with a context and a timeline of its own, which each submission    *)
(* flushes and waits for.                                                  *)
(*                                                                         *)
(* One client thread calls the queue; others grow the tables and ask for    *)
(* uploads between any two of its steps.                                   *)
(***************************************************************************)
EXTENDS Integers, Sequences, FiniteSets

CONSTANTS
  Tables,      \* the tables a submission looks at, in the order of the code
  Mems,        \* memory objects
  NoMem,       \* NULL
  MaxCount,    \* bound on the growth of a table
  MaxSubmits,  \* bound on the submissions of a queue
  MaxUploads,  \* bound on the uploads asked for
  Drains       \* whether EXEC returns only when the GPU is idle, as on the Switch

(* Where a call is, between the tables: in nvk_queue_init, and after it.    *)
InitLabels   == {"create_exec_ctx", "alloc_cb0", "fill_cb0", "create_bind_ctx", "context_state",
                 "fail_bind_ctx", "fail_draw_cb0", "fail_exec_ctx", "fail_init"}
SubmitLabels == {"install", "flush", "wait", "work", "signal", "fail"}

(* The tables are distinct, and a step of their own each.  The root table   *)
(* of a queue is an upload.                                                 *)
ASSUME QueueAssumption ==
  /\ Tables \in Seq(STRING) /\ Tables # <<>>
  /\ \A i, j \in DOMAIN Tables : Tables[i] = Tables[j] => i = j
  /\ \A i \in DOMAIN Tables :
       Tables[i] \notin InitLabels \cup SubmitLabels \cup {"idle", "sync", "finish"}
  /\ NoMem \notin Mems /\ Drains \subseteq BOOLEAN
  /\ {MaxCount, MaxSubmits, MaxUploads} \subseteq Nat /\ MaxUploads > 0

VARIABLES
  drains,   \* what the GPU driver below does
  table,    \* per table: its memory and alloc_count
  refs,     \* references to each memory; 0 when it is free
  queue,    \* struct nvk_queue
  call,     \* the call in progress
  req,      \* what the contexts have accumulated and not submitted
  upload,   \* dev->upload: uploads asked for, submitted and done, and the fill of a root table
  gpu,      \* per context the jobs it was given, the first one running
  engine,   \* the tables the engine was programmed with
  done      \* history of the submissions

vars == <<drains, table, refs, queue, call, req, upload, gpu, engine, done>>

Names    == {Tables[i] : i \in DOMAIN Tables}
Submits  == 1 .. MaxSubmits
NoTables == [t \in Names |-> [mem |-> NoMem, count |-> 0]]
NoQueue  == [phase |-> "none", state |-> NoTables, cb0 |-> NoMem, lost |-> FALSE, submits |-> 0]
Idle     == [pc |-> "idle", push |-> NoMem]
NoReq    == [c \in {"exec", "bind"} |-> [point |-> 0, after |-> 0, work |-> 0]]
NoUpload == [asked |-> 0, submitted |-> 0, done |-> 0, fill |-> NoMem]
NoDone   == [signalled |-> {}, accepted |-> {}, ran |-> [s \in Submits |-> 0],
             want |-> [s \in Submits |-> 0]]

(***************************************************************************)
(* Memory, and nvk_queue_state_update a table at a time                     *)
(***************************************************************************)
Ref(r, m)   == IF m = NoMem THEN r ELSE [r EXCEPT ![m] = @ + 1]
Unref(r, m) == IF m = NoMem THEN r ELSE [r EXCEPT ![m] = @ - 1]
Free        == {m \in Mems : refs[m] = 0}

(* Mutant: a table that grew in its memory is taken for the same. *)
ChangedMem(t) == queue.state[t].mem # table[t].mem

Changed(t) == queue.state[t].mem # table[t].mem \/ queue.state[t].count # table[t].count

(* Mutant: the reference to an unchanged table is kept. *)
UpdatedKeeping(t) ==
  LET taken == Ref(refs, table[t].mem)
  IN IF Changed(t) THEN Unref(taken, queue.state[t].mem) ELSE taken

(* Mutant: the new reference is given back with the old one. *)
UpdatedTwice(t) == IF Changed(t) THEN Unref(refs, queue.state[t].mem) ELSE refs

(* nvk_*_get_mem_ref takes a reference; the queue gives back that to the    *)
(* memory it had, or the new one when nothing changed.                      *)
Updated(t) ==
  LET taken == Ref(refs, table[t].mem)
  IN IF Changed(t) THEN Unref(taken, queue.state[t].mem) ELSE Unref(taken, table[t].mem)

(* nvk_queue_state_finish, and the end of the device: its tables go too.    *)
StateFinish(r) ==
  [m \in Mems |-> r[m] - Cardinality({t \in Names : queue.state[t].mem = m})
                       - Cardinality({t \in Names : table[t].mem = m})]

(***************************************************************************)
(* The contexts of nvkmd and the GPU, as the code uses them.  A context     *)
(* accumulates a request and submits it with the signals, or before if it   *)
(* is full; its jobs run in order.                                          *)
(***************************************************************************)
Job(kind) == [kind |-> kind, s |-> 0, point |-> 0, after |-> 0, work |-> 0, signal |-> FALSE,
              need |-> NoTables, asked |-> 0, into |-> NoMem]
Push(ctx, job) == gpu' = [gpu EXCEPT ![ctx] = Append(@, job)]

GpuIdle == \A c \in DOMAIN gpu : gpu[c] = <<>>

(* A step of the client.  Where EXEC drains, the client goes on when the    *)
(* GPU is idle.                                                             *)
At(pc)   == call.pc = pc /\ (drains => GpuIdle)
Goto(pc) == call' = [call EXCEPT !.pc = pc]

(* nvk_upload_queue_flush: a time point counts the uploads it is after.     *)
Flush ==
  IF upload.asked = upload.submitted THEN UNCHANGED <<upload, gpu>>
  ELSE /\ upload' = [upload EXCEPT !.submitted = upload.asked, !.fill = NoMem]
       /\ Push("upload", [Job("upload") EXCEPT !.point = upload.asked, !.into = upload.fill])

Init ==
  /\ drains \in Drains
  /\ table = NoTables /\ refs = [m \in Mems |-> 0]
  /\ queue = NoQueue /\ call = Idle /\ req = NoReq
  /\ upload = NoUpload
  /\ gpu = [c \in {"exec", "bind", "upload"} |-> <<>>] /\ engine = NoTables
  /\ done = NoDone

(***************************************************************************)
(* nvk_queue_init.  Its labels are those of the code.                       *)
(***************************************************************************)
InitBegin ==
  /\ At("idle") /\ queue.phase = "none"
  /\ queue' = [NoQueue EXCEPT !.phase = "init"] /\ Goto("create_exec_ctx")
  /\ UNCHANGED <<drains, table, refs, req, upload, gpu, engine, done>>

CreateExecCtx ==
  /\ At("create_exec_ctx")
  /\ Goto("alloc_cb0") \/ Goto("fail_init")
  /\ UNCHANGED <<drains, table, refs, queue, req, upload, gpu, engine, done>>

AllocCb0 ==
  /\ At("alloc_cb0")
  /\ \/ \E m \in Free : /\ refs' = Ref(refs, m)
                        /\ queue' = [queue EXCEPT !.cb0 = m] /\ Goto("fill_cb0")
     \/ Goto("fail_exec_ctx") /\ UNCHANGED <<queue, refs>>
  /\ UNCHANGED <<drains, table, req, upload, gpu, engine, done>>

FillCb0 ==
  /\ At("fill_cb0")
  /\ \/ /\ upload' = [upload EXCEPT !.asked = @ + 1, !.fill = queue.cb0]
        /\ Goto("create_bind_ctx")
     \/ Goto("fail_draw_cb0") /\ UNCHANGED upload
  /\ UNCHANGED <<drains, table, refs, queue, req, gpu, engine, done>>

CreateBindCtx ==
  /\ At("create_bind_ctx")
  /\ Goto("context_state") \/ Goto("fail_draw_cb0")
  /\ UNCHANGED <<drains, table, refs, queue, req, upload, gpu, engine, done>>

(***************************************************************************)
(* nvk_queue_submit_simple: memory for the words, their execution, the wait *)
(* for it, and the memory given back.  next follows it, fail a failure.     *)
(***************************************************************************)
SubmitSimple(job, fail) ==
  \/ \E m \in Free :
       /\ refs' = Ref(refs, m) /\ call' = [call EXCEPT !.push = m, !.pc = "sync"]
       /\ Push("exec", job)
  \/ Goto(fail) /\ UNCHANGED <<refs, gpu>>

Synced(next, fail) ==
  /\ At("sync") /\ gpu["exec"] = <<>>
  /\ refs' = Unref(refs, call.push)
  /\ \E pc \in {next, fail} : call' = [call EXCEPT !.push = NoMem, !.pc = pc]

ContextState ==
  /\ At("context_state")
  /\ SubmitSimple(Job("init"), "fail_bind_ctx")
  /\ UNCHANGED <<drains, table, queue, req, upload, engine, done>>

ContextSync ==
  /\ queue.phase = "init" /\ Synced("idle", "fail_bind_ctx")
  /\ queue' = [queue EXCEPT !.phase = IF call'.pc = "idle" THEN "up" ELSE @]
  /\ UNCHANGED <<drains, table, req, upload, gpu, engine, done>>

Undone(label) ==
  StateFinish(IF label \in {"fail_bind_ctx", "fail_draw_cb0"} THEN Unref(refs, queue.cb0) ELSE refs)

(* A device fails with its only queue; tables and upload queue go with it.  *)
InitFails ==
  /\ \E label \in {"fail_bind_ctx", "fail_draw_cb0", "fail_exec_ctx", "fail_init"} :
       At(label) /\ refs' = Undone(label)
  /\ queue' = NoQueue /\ call' = Idle
  /\ upload' = NoUpload /\ table' = NoTables
  /\ UNCHANGED <<drains, req, gpu, engine, done>>

(***************************************************************************)
(* nvk_queue_finish, once the client has waited for the queue, and with it  *)
(* the end of the device                                                    *)
(***************************************************************************)
FinishBegin ==
  /\ At("idle") /\ queue.phase = "up" /\ gpu["exec"] = <<>> /\ gpu["bind"] = <<>>
  /\ Flush /\ Goto("finish")
  /\ UNCHANGED <<drains, table, refs, queue, req, engine, done>>

UploadsSynced == upload.done = upload.submitted

Finish ==
  /\ At("finish") /\ UploadsSynced
  /\ refs' = StateFinish(Unref(refs, queue.cb0))
  /\ queue' = NoQueue /\ call' = Idle
  /\ req' = NoReq /\ engine' = NoTables /\ done' = NoDone
  /\ upload' = NoUpload /\ table' = NoTables
  /\ UNCHANGED <<drains, gpu>>

(***************************************************************************)
(* nvk_queue_submit: n command buffers, or n binds; it may wait for an      *)
(* earlier submission.                                                      *)
(***************************************************************************)
Submission(kind, n, after) ==
  [pc |-> IF kind = "exec" /\ n > 0 THEN Tables[1] ELSE "wait", push |-> NoMem,
   s |-> queue.submits + 1, kind |-> kind, left |-> n, dirty |-> FALSE, after |-> after,
   need |-> table, asked |-> upload.asked, point |-> 0]

Submit ==
  /\ At("idle") /\ queue.phase = "up" /\ queue.submits < MaxSubmits
  /\ \E kind \in {"exec", "bind"}, n \in 0 .. 2, after \in 0 .. queue.submits :
       /\ kind = "bind" => n > 0
       /\ after # 0 => after \in done.accepted
       /\ call' = IF queue.lost THEN Idle ELSE Submission(kind, n, after)
       /\ done' = [done EXCEPT !.want[queue.submits + 1] = n]
  /\ queue' = [queue EXCEPT !.submits = @ + 1]
  /\ UNCHANGED <<drains, table, refs, req, upload, gpu, engine>>

NextTable(t) ==
  LET i == CHOOSE i \in DOMAIN Tables : Tables[i] = t
  IN IF i < Len(Tables) THEN Tables[i + 1] ELSE "install"

UpdateTable ==
  \E t \in Names :
    /\ At(t)
    /\ queue' = [queue EXCEPT !.state[t] = IF Changed(t) THEN table[t] ELSE @]
    /\ refs'  = Updated(t)
    /\ call'  = [call EXCEPT !.dirty = @ \/ Changed(t), !.pc = NextTable(t)]
    /\ UNCHANGED <<drains, table, req, upload, gpu, engine, done>>

Install ==
  /\ At("install")
  /\ IF call.dirty THEN SubmitSimple([Job("tables") EXCEPT !.need = queue.state], "fail")
                   ELSE Goto("flush") /\ UNCHANGED <<refs, gpu>>
  /\ UNCHANGED <<drains, table, queue, req, upload, engine, done>>

InstallSync ==
  /\ queue.phase = "up" /\ Synced("flush", "fail")
  /\ UNCHANGED <<drains, table, queue, req, upload, gpu, engine, done>>

FlushUploads ==
  /\ At("flush")
  /\ \/ Flush /\ call' = [call EXCEPT !.point = upload'.submitted, !.pc = "wait"]
     \/ Goto("fail") /\ UNCHANGED <<upload, gpu>>
  /\ UNCHANGED <<drains, table, refs, queue, req, engine, done>>

(* Mutant: the first time point is not waited for. *)
PointsAfterFirst == IF call.point > 1 THEN call.point ELSE 0

UploadPoint == call.point

AfterWait == IF call.left > 0 THEN "work" ELSE "signal"

Wait ==
  /\ At("wait")
  /\ \/ /\ req' = [req EXCEPT ![call.kind].point = UploadPoint, ![call.kind].after = call.after]
        /\ Goto(AfterWait)
     \/ Goto("fail") /\ UNCHANGED req
  /\ UNCHANGED <<drains, table, refs, queue, upload, gpu, engine, done>>

(* The request of a context as a job, with the signals or without.          *)
Request(r, signal) ==
  [Job(call.kind) EXCEPT !.s = call.s, !.point = r.point, !.after = r.after, !.work = r.work,
                         !.signal = signal, !.need = call.need, !.asked = call.asked]

(* Mutant: a command buffer that fails is skipped. *)
WorkSkipped == call' = [call EXCEPT !.left = @ - 1, !.pc = IF call.left > 1 THEN "work" ELSE "signal"]

WorkFails == Goto("fail")

Work ==
  LET r == [req[call.kind] EXCEPT !.work = @ + 1]
  IN /\ At("work")
     /\ \/ /\ call' = [call EXCEPT !.left = @ - 1, !.pc = IF call.left > 1 THEN "work" ELSE "signal"]
           /\ \/ req' = [req EXCEPT ![call.kind] = r] /\ UNCHANGED gpu
              \/ /\ Push(call.kind, Request(r, FALSE))
                 /\ req' = [req EXCEPT ![call.kind] = NoReq[call.kind]]
        \/ WorkFails /\ UNCHANGED <<req, gpu>>
     /\ UNCHANGED <<drains, table, refs, queue, upload, engine, done>>

Signal ==
  /\ At("signal")
  /\ \/ /\ Push(call.kind, Request(req[call.kind], TRUE))
        /\ req' = [req EXCEPT ![call.kind] = NoReq[call.kind]]
        /\ done' = [done EXCEPT !.accepted = @ \cup {call.s}]
        /\ call' = Idle
     \/ Goto("fail") /\ UNCHANGED <<gpu, req, done>>
  /\ UNCHANGED <<drains, table, refs, queue, upload, engine>>

(* vk_queue_set_lost *)
SubmitFails ==
  /\ At("fail")
  /\ queue' = [queue EXCEPT !.lost = TRUE] /\ call' = Idle
  /\ UNCHANGED <<drains, table, refs, req, upload, gpu, engine, done>>

(***************************************************************************)
(* Other threads and the GPU                                               *)
(***************************************************************************)
(* A table grows in its memory or moves to another.                         *)
Grow ==
  \E t \in Names : \E m \in Free \cup ({table[t].mem} \ {NoMem}) :
    /\ queue.phase = "up" /\ table[t].count < MaxCount
    /\ table' = [table EXCEPT ![t] = [mem |-> m, count |-> @.count + 1]]
    /\ refs' = IF m = table[t].mem THEN refs ELSE Unref(Ref(refs, m), table[t].mem)
    /\ UNCHANGED <<drains, queue, call, req, upload, gpu, engine, done>>

AskUpload ==
  /\ queue.phase = "up" /\ upload.asked < MaxUploads
  /\ upload' = [upload EXCEPT !.asked = @ + 1]
  /\ UNCHANGED <<drains, table, refs, queue, call, req, gpu, engine, done>>

Running(ctx) ==
  /\ gpu[ctx] # <<>>
  /\ Head(gpu[ctx]).kind # "upload" => Head(gpu[ctx]).point <= upload.done
  /\ Head(gpu[ctx]).after \in {0} \cup done.signalled

GpuStep(ctx) ==
  LET job == Head(gpu[ctx])
  IN /\ Running(ctx)
     /\ gpu' = [gpu EXCEPT ![ctx] = Tail(@)]
     /\ upload' = IF job.kind = "upload" THEN [upload EXCEPT !.done = job.point] ELSE upload
     /\ engine' = IF job.kind = "tables" THEN job.need ELSE engine
     /\ done' = IF job.s = 0 THEN done
                ELSE [done EXCEPT !.ran[job.s] = @ + job.work,
                                  !.signalled = IF job.signal THEN @ \cup {job.s} ELSE @]
     /\ UNCHANGED <<drains, table, refs, queue, call, req>>

QueueCall ==
  \/ InitBegin \/ CreateExecCtx \/ AllocCb0 \/ FillCb0 \/ CreateBindCtx \/ ContextState
  \/ ContextSync \/ InitFails \/ FinishBegin \/ Finish \/ Submit
SubmitStep ==
  \/ UpdateTable \/ Install \/ InstallSync \/ FlushUploads \/ Wait \/ Work \/ Signal \/ SubmitFails

Next == QueueCall \/ SubmitStep \/ Grow \/ AskUpload \/ \E ctx \in DOMAIN gpu : GpuStep(ctx)

Spec == Init /\ [][Next]_vars

(***************************************************************************)
(* Properties                                                              *)
(***************************************************************************)
(* References are counted, and a request grows only within a submission.    *)
TypeOK ==
  /\ drains \in BOOLEAN
  /\ table \in [Names -> [mem : Mems \cup {NoMem}, count : 0 .. MaxCount]]
  /\ refs \in [Mems -> 0 .. 2 * Len(Tables) + 2]
  /\ queue \in [phase : {"none", "init", "up"}, cb0 : Mems \cup {NoMem}, lost : BOOLEAN,
                state : [Names -> [mem : Mems \cup {NoMem}, count : 0 .. MaxCount]],
                submits : 0 .. MaxSubmits]
  /\ req \in [{"exec", "bind"} -> [point : 0 .. MaxUploads, after : 0 .. MaxSubmits, work : 0 .. 2]]
  /\ \A c \in DOMAIN gpu : \A i \in DOMAIN gpu[c] : gpu[c][i].s \in 0 .. MaxSubmits
  /\ upload.done <= upload.submitted /\ upload.submitted <= upload.asked

(* Every reference has one holder: a table, the queue's copy of it, the root *)
(* table or the words of a call.  Nothing is leaked or given back twice,    *)
(* whichever step of creation or submission fails.                          *)
Holders(m) ==
  Cardinality({t \in Names : table[t].mem = m}) + Cardinality({t \in Names : queue.state[t].mem = m})
  + (IF queue.cb0 = m THEN 1 ELSE 0) + (IF call.push = m THEN 1 ELSE 0)
RefsExact == \A m \in Mems : refs[m] = Holders(m)

Drawing(ctx) == Running(ctx) /\ Head(gpu[ctx]).kind = "exec" /\ Head(gpu[ctx]).work > 0

(* A command buffer runs with tables at least as large as when it was       *)
(* submitted, though they grow beside it and the queue may already know     *)
(* larger ones.                                                             *)
DescriptorsReachable ==
  Drawing("exec") =>
    \A t \in Names : engine[t].count >= Head(gpu["exec"]).need[t].count

(* The tables a running command buffer uses are not freed, though the queue  *)
(* gives back the old ones before it programs the new: that is safe where   *)
(* EXEC drains.                                                             *)
TablesResident ==
  drains /\ Drawing("exec") => \A t \in Names : engine[t].mem # NoMem => refs[engine[t].mem] > 0

(* What a running command buffer reads its descriptors from is there, whole. *)
TablesUsable == DescriptorsReachable /\ TablesResident

(* A command buffer runs after every upload asked for before its submission. *)
UploadsBeforeUse == Drawing("exec") => Head(gpu["exec"]).asked <= upload.done

(* What the upload queue fills, now or later, is not freed.                  *)
FillTargetsLive ==
  \A m \in {upload.fill} \cup {gpu["upload"][i].into : i \in DOMAIN gpu["upload"]} :
    m # NoMem => refs[m] > 0

(* Uploads are in order with both their users: they come before what reads   *)
(* them and before their target goes.                                       *)
UploadsOrdered == UploadsBeforeUse /\ FillTargetsLive

(* A submission's signals are sent when all of its work ran, however it was  *)
(* split, and never when a step of it failed.                               *)
SignalsAfterWork ==
  \A s \in done.signalled : done.ran[s] = done.want[s] /\ s \in done.accepted
==============================================================================
