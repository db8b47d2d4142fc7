------------------------------ MODULE JobQueue ------------------------------
(***************************************************************************)
(* The background-job service, backend/app/services/jobs.py.               *)
(*                                                                         *)
(* Request threads (Clients) enqueue, cancel and retry jobs; RQ worker     *)
(* processes (Workers) take them off Redis and run them.  The row in the   *)
(* table "jobs" and the entry in Redis are written by separate calls, and  *)
(* every call to _update_job is a transaction of its own, so a thread is   *)
(* modelled as a program counter that moves from one committed write to    *)
(* the next: every other thread may act, and the thread itself may die,    *)
(* between two of them.                                                    *)
(***************************************************************************)
EXTENDS Integers, Sequences

CONSTANTS
  Jobs,      \* primary keys of the table "jobs"
  Clients,   \* request threads of the API
  Workers,   \* RQ worker processes
  Modes,     \* what get_queue() may answer: "redis" (a queue) or "sync" (None)
  NoJob      \* a thread that handles no job

ASSUME ConstantsAssumption ==
  /\ Clients \cap Workers = {}
  /\ NoJob \notin Jobs
  /\ Modes \subseteq {"redis", "sync"}

VARIABLES
  status,    \* Job.status of each row, "absent" before the row exists
  attempts,  \* Job.attempts
  rqid,      \* whether Job.rq_job_id is set
  hist,      \* the job_attempts rows of each job, oldest first
  rq,        \* the jobs whose entry waits on a Redis queue
  at,        \* where each thread stands between two committed calls
  held,      \* the job the thread works on
  num,       \* local "attempt" of _worker_entry / _run_sync
  calls,     \* auxiliary: how each call of the job's function ended
  faulty,    \* auxiliary: jobs one of whose threads died or could not resolve fn
  enqErr,    \* auxiliary: jobs whose RQ enqueue raised
  removed    \* auxiliary: jobs a cancel took off the Redis queue

rows   == <<status, attempts, rqid, hist>>
local  == <<at, held, num>>
aux    == <<calls, faulty, enqErr, removed>>
vars   == <<rows, rq, local, aux>>

Threads  == Clients \cup Workers
Outcome  == {"completed", "failed"}
Terminal == Outcome \cup {"cancelled"}
Status   == {"absent", "queued", "running"} \cup Terminal
Attempt  == [number : Nat, status : Outcome]

(* The points at which a thread can be interrupted.  "ready" to "finished"  *)
(* are shared by the RQ worker and by the sync mode, which runs the job on  *)
(* the request thread.                                                      *)
PreCall == {"ready", "begun", "counted"}
PostCall == {"called", "finished"}
ClientAt == {"created", "pushed", "pushFailed", "cancelRq", "cancelWrite",
             "retrying"}
Location == {"idle"} \cup PreCall \cup PostCall \cup ClientAt

Init ==
  /\ status = [j \in Jobs |-> "absent"]
  /\ attempts = [j \in Jobs |-> 0]
  /\ rqid = [j \in Jobs |-> FALSE]
  /\ hist = [j \in Jobs |-> <<>>]
  /\ rq = {}
  /\ at = [t \in Threads |-> "idle"]
  /\ held = [t \in Threads |-> NoJob]
  /\ num = [t \in Threads |-> 0]
  /\ calls = [j \in Jobs |-> <<>>]
  /\ faulty = {} /\ enqErr = {} /\ removed = {}

Goto(t, l) == at' = [at EXCEPT ![t] = l] /\ UNCHANGED <<held, num>>

Take(t, l, j) == /\ at' = [at EXCEPT ![t] = l]
                 /\ held' = [held EXCEPT ![t] = j]
                 /\ num' = [num EXCEPT ![t] = 0]

Release(t) == Take(t, "idle", NoJob)

(* _update_job(job_id, status=s): the status column of one committed row.   *)
SetStatus(j, s) == /\ status' = [status EXCEPT ![j] = s]
                   /\ UNCHANGED <<attempts, rqid, hist>>

-----------------------------------------------------------------------------
(* enqueue, on a request thread                                            *)

(* _create_job_row: the row is inserted as "queued" when get_queue() gave a  *)
(* queue, and as "running" when it gave None.                               *)
Create(c, j) ==
  /\ at[c] \in {"idle", "retrying"}
  /\ status[j] = "absent"
  /\ \E m \in Modes :
       IF m = "redis" THEN /\ SetStatus(j, "queued")
                           /\ Take(c, "created", j)
                      ELSE /\ SetStatus(j, "running")
                           /\ Take(c, "ready", j)
  /\ UNCHANGED <<rq, aux>>

(* queue_obj.enqueue(_worker_entry, ...) *)
Push(c) ==
  /\ at[c] = "created"
  /\ rq' = rq \cup {held[c]}
  /\ Goto(c, "pushed")
  /\ UNCHANGED <<rows, aux>>

(* Mutant: the exception is swallowed and the row is left as it is. *)
PushFailsSilently(c) ==
  /\ at[c] = "created"
  /\ Release(c)
  /\ enqErr' = enqErr \cup {held[c]}
  /\ UNCHANGED <<rows, rq, calls, faulty, removed>>

(* Redis raises: nothing was queued. *)
PushFails(c) ==
  /\ at[c] = "created"
  /\ Goto(c, "pushFailed")
  /\ enqErr' = enqErr \cup {held[c]}
  /\ UNCHANGED <<rows, rq, calls, faulty, removed>>

(* Mutant: the push is repeated together with the update. *)
StoreRqIdAndPush(c) ==
  /\ at[c] = "pushed"
  /\ rqid' = [rqid EXCEPT ![held[c]] = TRUE]
  /\ rq' = rq \cup {held[c]}
  /\ Release(c)
  /\ UNCHANGED <<status, attempts, hist, aux>>

(* _update_job(row.id, rq_job_id=...), then the handle is returned. *)
StoreRqId(c) ==
  /\ at[c] = "pushed"
  /\ rqid' = [rqid EXCEPT ![held[c]] = TRUE]
  /\ Release(c)
  /\ UNCHANGED <<status, attempts, hist, rq, aux>>

(* The same call raises, and lands in the handler of a failed enqueue. *)
StoreRqIdFails(c) ==
  /\ at[c] = "pushed"
  /\ Goto(c, "pushFailed")
  /\ enqErr' = enqErr \cup {held[c]}
  /\ UNCHANGED <<rows, rq, calls, faulty, removed>>

(* except Exception: _update_job(row.id, status="failed", ...) *)
MarkEnqueueFailed(c) ==
  /\ at[c] = "pushFailed"
  /\ SetStatus(held[c], "failed")
  /\ Release(c)
  /\ UNCHANGED <<rq, aux>>

-----------------------------------------------------------------------------
(* cancel_job and retry_job, on a request thread                           *)

(* Mutant: any existing row may be cancelled. *)
CancelReadAny(c, j) ==
  /\ at[c] = "idle"
  /\ status[j] # "absent"
  /\ Take(c, IF rqid[j] THEN "cancelRq" ELSE "cancelWrite", j)
  /\ UNCHANGED <<rows, rq, aux>>

(* db.get and the status test; rq_job_id is read from the same row. *)
CancelRead(c, j) ==
  /\ at[c] = "idle"
  /\ status[j] \in {"queued", "running"}
  /\ Take(c, IF rqid[j] THEN "cancelRq" ELSE "cancelWrite", j)
  /\ UNCHANGED <<rows, rq, aux>>

(* RqJob.fetch(...).cancel() takes a waiting entry off its queue and does   *)
(* nothing to a started one; an exception is logged and swallowed.          *)
CancelRq(c) ==
  /\ at[c] = "cancelRq"
  /\ Goto(c, "cancelWrite")
  /\ \/ /\ rq' = rq \ {held[c]}
        /\ removed' = removed \cup (rq \cap {held[c]})
     \/ UNCHANGED <<rq, removed>>
  /\ UNCHANGED <<rows, calls, faulty, enqErr>>

(* Mutant: the status is written in the other spelling. *)
CancelWriteMisspelt(c) ==
  /\ at[c] = "cancelWrite"
  /\ SetStatus(held[c], "canceled")
  /\ Release(c)
  /\ UNCHANGED <<rq, aux>>

(* row.status = "cancelled"; commit.  The status is not read again. *)
CancelWrite(c) ==
  /\ at[c] = "cancelWrite"
  /\ SetStatus(held[c], "cancelled")
  /\ Release(c)
  /\ UNCHANGED <<rq, aux>>

(* retry_job reads the old row; Create then inserts the new one. *)
RetryRead(c, j) ==
  /\ at[c] = "idle"
  /\ status[j] \in Terminal
  /\ Take(c, "retrying", j)
  /\ UNCHANGED <<rows, rq, aux>>

-----------------------------------------------------------------------------
(* Running a job: _worker_entry on a worker, _run_sync on a request thread *)

(* Mutant: the entry stays on the queue while the worker has it. *)
DequeueNoPop(w, j) ==
  /\ at[w] = "idle"
  /\ j \in rq
  /\ Take(w, "ready", j)
  /\ UNCHANGED <<rows, rq, aux>>

(* The RQ worker pops an entry; _worker_entry starts. *)
Dequeue(w, j) ==
  /\ at[w] = "idle"
  /\ j \in rq
  /\ rq' = rq \ {j}
  /\ Take(w, "ready", j)
  /\ UNCHANGED <<rows, aux>>

(* _resolve_dotted raises before the row is touched. *)
ResolveFails(w) ==
  /\ at[w] = "ready"
  /\ faulty' = faulty \cup {held[w]}
  /\ Release(w)
  /\ UNCHANGED <<rows, rq, calls, enqErr, removed>>

(* Mutant: the attempt number is the old counter. *)
BeginNoIncrement(w) ==
  /\ at[w] = "ready"
  /\ SetStatus(held[w], "running")
  /\ at' = [at EXCEPT ![w] = "begun"]
  /\ num' = [num EXCEPT ![w] = attempts[held[w]]]
  /\ UNCHANGED <<held, rq, aux>>

(* _update_job(status="running"), whatever the status was. *)
Begin(w) ==
  /\ at[w] = "ready"
  /\ SetStatus(held[w], "running")
  /\ at' = [at EXCEPT ![w] = "begun"]
  /\ num' = [num EXCEPT ![w] = attempts[held[w]] + 1]
  /\ UNCHANGED <<held, rq, aux>>

(* _update_job(attempts=attempt) *)
Count(w) ==
  /\ at[w] = "begun"
  /\ attempts' = [attempts EXCEPT ![held[w]] = num[w]]
  /\ Goto(w, "counted")
  /\ UNCHANGED <<status, rqid, hist, rq, aux>>

(* _run_sync: _update_job(started_at=..., attempts=1) *)
BeginSync(c) ==
  /\ at[c] = "ready"
  /\ attempts' = [attempts EXCEPT ![held[c]] = 1]
  /\ at' = [at EXCEPT ![c] = "counted"]
  /\ num' = [num EXCEPT ![c] = 1]
  /\ UNCHANGED <<status, rqid, hist, held, rq, aux>>

(* The target function returns, or raises and is caught. *)
Call(t) ==
  /\ at[t] = "counted"
  /\ \E o \in Outcome : calls' = [calls EXCEPT ![held[t]] = Append(@, o)]
  /\ Goto(t, "called")
  /\ UNCHANGED <<rows, rq, faulty, enqErr, removed>>

LastCall(j) == calls[j][Len(calls[j])]

(* Mutant: a finished call is always reported as completed. *)
FinishCompleted(t) ==
  /\ at[t] = "called"
  /\ SetStatus(held[t], "completed")
  /\ Goto(t, "finished")
  /\ UNCHANGED <<rq, aux>>

(* _update_job(status=status, completed_at=..., ...) *)
Finish(t) ==
  /\ at[t] = "called"
  /\ SetStatus(held[t], LastCall(held[t]))
  /\ Goto(t, "finished")
  /\ UNCHANGED <<rq, aux>>

(* _record_attempt(attempt_number=attempt, status=status) *)
Record(t) ==
  /\ at[t] = "finished"
  /\ hist' = [hist EXCEPT ![held[t]] =
                Append(@, [number |-> num[t], status |-> LastCall(held[t])])]
  /\ Release(t)
  /\ UNCHANGED <<status, attempts, rqid, rq, aux>>

-----------------------------------------------------------------------------
(* Mutant: a popped entry is put back when its worker dies. *)
CrashRequeue(t) ==
  /\ at[t] # "idle"
  /\ faulty' = IF at[t] = "retrying" THEN faulty ELSE faulty \cup {held[t]}
  /\ rq' = IF t \in Workers THEN rq \cup {held[t]} ELSE rq
  /\ Release(t)
  /\ UNCHANGED <<rows, calls, enqErr, removed>>

(* The process of a thread dies, or one of its database calls raises with   *)
(* no handler.  Its local state is gone; an RQ entry it had popped is not   *)
(* put back.                                                                *)
Crash(t) ==
  /\ at[t] # "idle"
  /\ faulty' = IF at[t] = "retrying" THEN faulty ELSE faulty \cup {held[t]}
  /\ Release(t)
  /\ UNCHANGED <<rows, rq, calls, enqErr, removed>>

Run(t) == Call(t) \/ Finish(t) \/ Record(t)

ClientStep(c) ==
  \/ Push(c) \/ PushFails(c) \/ StoreRqId(c) \/ StoreRqIdFails(c)
  \/ MarkEnqueueFailed(c)
  \/ CancelRq(c) \/ CancelWrite(c)
  \/ BeginSync(c) \/ Run(c)

WorkerStep(w) ==
  ResolveFails(w) \/ Begin(w) \/ Count(w) \/ Run(w)

Next ==
  \/ \E c \in Clients, j \in Jobs : \/ Create(c, j)
                                    \/ CancelRead(c, j) \/ RetryRead(c, j)
  \/ \E c \in Clients : ClientStep(c)
  \/ \E w \in Workers, j \in Jobs : Dequeue(w, j)
  \/ \E w \in Workers : WorkerStep(w)
  \/ \E t \in Threads : Crash(t)

Spec == Init /\ [][Next]_vars

(* A thread that is inside a handler keeps running it, and a worker polls    *)
(* the queues for ever; nobody has to enqueue, cancel, retry or crash.       *)
Fairness ==
  /\ \A c \in Clients : WF_vars(ClientStep(c))
  /\ \A w \in Workers : WF_vars(WorkerStep(w))
  /\ \A w \in Workers : WF_vars(\E j \in Jobs : Dequeue(w, j))

FairSpec == Spec /\ Fairness

-----------------------------------------------------------------------------
(* Type invariant. *)
TypeOK ==
  /\ status \in [Jobs -> Status]
  /\ attempts \in [Jobs -> Nat]
  /\ rqid \in [Jobs -> BOOLEAN]
  /\ hist \in [Jobs -> Seq(Attempt)]
  /\ rq \subseteq Jobs
  /\ at \in [Threads -> Location]
  /\ held \in [Threads -> Jobs \cup {NoJob}]
  /\ num \in [Threads -> Nat]
  /\ calls \in [Jobs -> Seq(Outcome)]
  /\ faulty \subseteq Jobs /\ enqErr \subseteq Jobs /\ removed \subseteq Jobs

Holds(t, j, where) == held[t] = j /\ at[t] \in where

(* Some thread is going to write the row of j, or to run it. *)
Busy(j) == \E t \in Threads :
             Holds(t, j, PreCall \cup PostCall \cup (ClientAt \ {"retrying"}))

Settled(j) == status[j] \in Terminal /\ j \notin rq /\ ~Busy(j)

(* A job's function is called at most once, whatever is cancelled, retried, *)
(* half enqueued or crashed in between: the row and the Redis entry of a    *)
(* job are created once and _worker_entry never puts an entry back.         *)
AtMostOneCall == \A j \in Jobs : Len(calls[j]) <= 1

(* The status tells the truth about the function: "completed" only if it    *)
(* returned, "failed" only if it raised or the enqueue itself had failed.   *)
Truthful(j) ==
  /\ status[j] = "completed" => calls[j] = <<"completed">>
  /\ status[j] = "failed" => calls[j] = <<"failed">> \/ j \in enqErr

OutcomeTruthful == \A j \in Jobs : Truthful(j)

(* The attempt trail never runs ahead of the truth: attempts is raised      *)
(* before the function is called, its job_attempts row is written after,    *)
(* numbered in order, and with the outcome of that very call.               *)
AttemptTrail ==
  \A j \in Jobs :
    /\ Len(hist[j]) <= Len(calls[j])
    /\ Len(calls[j]) <= attempts[j]
    /\ \A i \in 1 .. Len(hist[j]) :
         hist[j][i] = [number |-> i, status |-> calls[j][i]]

(* A row that says queued or running is backed by something that will move  *)
(* it on (an RQ entry, or a thread that holds the job), or it belongs to a  *)
(* job that lost a thread: there is no other way to be stuck.               *)
NoOrphan ==
  \A j \in Jobs :
    status[j] \in {"queued", "running"} =>
      \/ j \in rq
      \/ j \in faulty
      \/ \E t \in Threads :
           Holds(t, j, PreCall \cup {"created", "pushFailed", "called",
                                     "cancelWrite"})

(* A job that a cancel really took off the Redis queue is never run. *)
RemovedNeverRuns ==
  \A j \in removed :
    calls[j] = <<>> /\ j \notin rq /\ ~\E t \in Threads : Holds(t, j, PreCall)

(* One token per job: the thread that is creating it, its Redis entry, or   *)
(* the thread that runs it.  While the token exists and the function has    *)
(* not been called, nothing has been recorded; when it is gone it is gone   *)
(* for good.                                                                *)
TokenAt == {"created"} \cup PreCall \cup PostCall

OneToken(j) ==
  /\ \A t, u \in Threads : Holds(t, j, TokenAt) /\ Holds(u, j, TokenAt) => t = u
  /\ j \in rq \cup removed => \A t \in Threads : ~Holds(t, j, TokenAt)
  /\ j \in rq => j \notin removed

Untouched(j) == calls[j] = <<>> /\ hist[j] = <<>>

TokenMeaning(j) ==
  /\ status[j] = "absent" =>
       /\ j \notin rq \cup removed /\ Untouched(j) /\ attempts[j] = 0
       /\ \A t \in Threads : held[t] # j
  /\ j \in rq => Untouched(j) /\ attempts[j] = 0
  /\ j \in removed => calls[j] = <<>>
  /\ \A t \in Threads :
       /\ Holds(t, j, {"created"} \cup PreCall) => Untouched(j)
       /\ Holds(t, j, {"created", "ready", "begun"}) => attempts[j] = 0
       /\ Holds(t, j, {"begun", "counted"} \cup PostCall) => num[t] = 1
       /\ Holds(t, j, {"counted"} \cup PostCall) => attempts[j] = 1
       /\ Holds(t, j, PostCall) => Len(calls[j]) = 1 /\ hist[j] = <<>>
       /\ Holds(t, j, {"pushFailed"}) => j \in enqErr

Trail(j) ==
  /\ Len(calls[j]) <= 1 /\ Len(calls[j]) <= attempts[j]
  /\ \/ hist[j] = <<>>
     \/ /\ Len(calls[j]) = 1
        /\ hist[j] = <<[number |-> 1, status |-> calls[j][1]]>>

(* A thread inside a handler knows its job, and has called the function     *)
(* before it reports how the call ended.                                    *)
HeldJob ==
  \A t \in Threads : /\ at[t] # "idle" => held[t] \in Jobs
                     /\ at[t] \in PostCall => calls[held[t]] # <<>>

(* The inductive invariant behind AtMostOneCall, OutcomeTruthful,           *)
(* AttemptTrail and RemovedNeverRuns.                                       *)
TokenInv ==
  /\ HeldJob
  /\ \A j \in Jobs : OneToken(j) /\ TokenMeaning(j) /\ Trail(j) /\ Truthful(j)

(* A job that has come to rest, with a terminal status and nothing left     *)
(* that could write its row or run it, stays at rest: no later cancel,      *)
(* retry or worker takes it up or rewrites it.                              *)
SettledIsFinal ==
  [][\A j \in Jobs : Settled(j) =>
       /\ Settled(j)'
       /\ status'[j] = status[j] /\ attempts'[j] = attempts[j]
       /\ rqid'[j] = rqid[j] /\ hist'[j] = hist[j] /\ calls'[j] = calls[j]]_vars

(* Every job that was created comes to rest in a terminal status, unless a  *)
(* thread that handled it died.                                             *)
EveryJobSettles ==
  \A j \in Jobs : status[j] # "absent" ~> Settled(j) \/ j \in faulty

(* The outside view of the callable: JobContract's exec, computed from the  *)
(* row, the queue and the threads.                                          *)
Running(j) == \E t \in Threads : Holds(t, j, PreCall)
Waiting(j) == j \in rq \/ \E t \in Threads : Holds(t, j, {"created"})

Exec(j) ==
  IF calls[j] # <<>> THEN LastCall(j)
  ELSE IF Running(j) THEN "executing"
  ELSE IF Waiting(j) THEN "waiting"
  ELSE IF status[j] = "absent" THEN "none"
  ELSE "dropped"

ExecView == [j \in Jobs |-> Exec(j)]

Contract == INSTANCE JobContract WITH exec <- ExecView

(* jobs.py implements JobContract. *)
ImplementsContract == Contract!Spec
=============================================================================
