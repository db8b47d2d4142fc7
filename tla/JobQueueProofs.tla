--------------------------- MODULE JobQueueProofs ---------------------------
(***************************************************************************)
(* What jobs.py guarantees for any number of jobs, request threads and     *)
(* workers.                                                                *)
(***************************************************************************)
EXTENDS JobQueue, SequenceTheorems, TLAPS

(* The last of a non-empty list of outcomes is an outcome. *)
LEMMA LastOutcome ==
  ASSUME NEW s \in Seq(Outcome), s # <<>>
  PROVE  s[Len(s)] \in Outcome
  BY DEF Outcome

(* Recording one more outcome leaves a record of outcomes that is not empty *)
LEMMA AppendIsNotEmpty ==
  ASSUME NEW s \in Seq(Outcome), NEW o \in Outcome
  PROVE  Append(s, o) \in Seq(Outcome) /\ Append(s, o) # <<>>
  BY AppendProperties

(* Every step keeps the columns, the queue and the thread state typed; the  *)
(* link between a thread and its job is what types Finish and Record.       *)
LEMMA TypeStep == TypeOK /\ HeldJob /\ [Next]_vars => TypeOK'
<1> SUFFICES ASSUME TypeOK, HeldJob, [Next]_vars PROVE TypeOK'
  OBVIOUS
<1> USE ConstantsAssumption
<1>s. {"queued", "running", "failed", "cancelled"} \cup Outcome \subseteq Status
  BY DEF Status, Terminal, Outcome
<1>l. {"idle"} \cup PreCall \cup PostCall \cup ClientAt \subseteq Location
  BY DEF Location
<1> USE <1>s, <1>l DEF Threads, PreCall, PostCall, ClientAt, TypeOK, HeldJob
<1> USE DEF rows, local, aux, Goto, Take, Release, SetStatus
<1>1. ASSUME NEW c \in Clients, NEW j \in Jobs, Create(c, j) PROVE TypeOK'
  <2>1. PICK st \in {"queued", "running"} : SetStatus(j, st)
    BY <1>1 DEF Create
  <2>2. PICK l \in {"created", "ready"} : Take(c, l, j)
    BY <1>1 DEF Create
  <2>3. UNCHANGED <<rq, calls, faulty, enqErr, removed>>
    BY <1>1 DEF Create
  <2>4. st \in Status /\ l \in Location
    OBVIOUS
  <2> QED
    BY <2>1, <2>2, <2>3, <2>4
<1>2. ASSUME NEW c \in Clients, NEW j \in Jobs, CancelRead(c, j) PROVE TypeOK'
  BY <1>2 DEF CancelRead
<1>3. ASSUME NEW c \in Clients, NEW j \in Jobs, RetryRead(c, j) PROVE TypeOK'
  BY <1>3 DEF RetryRead
<1>4. ASSUME NEW c \in Clients, Push(c) PROVE TypeOK'
  BY <1>4 DEF Push
<1>5. ASSUME NEW c \in Clients, PushFails(c) PROVE TypeOK'
  BY <1>5 DEF PushFails
<1>6. ASSUME NEW c \in Clients, StoreRqId(c) PROVE TypeOK'
  BY <1>6 DEF StoreRqId
<1>7. ASSUME NEW c \in Clients, StoreRqIdFails(c) PROVE TypeOK'
  BY <1>7 DEF StoreRqIdFails
<1>8. ASSUME NEW c \in Clients, MarkEnqueueFailed(c) PROVE TypeOK'
  BY <1>8 DEF MarkEnqueueFailed
<1>9. ASSUME NEW c \in Clients, CancelRq(c) PROVE TypeOK'
  BY <1>9 DEF CancelRq
<1>10. ASSUME NEW c \in Clients, CancelWrite(c) PROVE TypeOK'
  BY <1>10 DEF CancelWrite
<1>11. ASSUME NEW c \in Clients, BeginSync(c) PROVE TypeOK'
  BY <1>11 DEF BeginSync
<1>12. ASSUME NEW w \in Workers, NEW j \in Jobs, Dequeue(w, j) PROVE TypeOK'
  BY <1>12 DEF Dequeue
<1>13. ASSUME NEW w \in Workers, ResolveFails(w) PROVE TypeOK'
  BY <1>13 DEF ResolveFails
<1>14. ASSUME NEW w \in Workers, Begin(w) PROVE TypeOK'
  BY <1>14 DEF Begin
<1>15. ASSUME NEW w \in Workers, Count(w) PROVE TypeOK'
  BY <1>15 DEF Count
<1>16. ASSUME NEW t \in Threads, Call(t) PROVE TypeOK'
  <2>1. PICK o \in Outcome :
          calls' = [calls EXCEPT ![held[t]] = Append(@, o)]
    BY <1>16 DEF Call
  <2>2. held[t] \in Jobs /\ Append(calls[held[t]], o) \in Seq(Outcome)
    BY <1>16, AppendProperties DEF Call
  <2> QED
    BY <1>16, <2>1, <2>2 DEF Call
<1>17. ASSUME NEW t \in Threads, Finish(t) PROVE TypeOK'
  <2>1. held[t] \in Jobs /\ LastCall(held[t]) \in Outcome
    BY <1>17, LastOutcome DEF Finish, LastCall
  <2> QED
    BY <1>17, <2>1 DEF Finish
<1>18. ASSUME NEW t \in Threads, Record(t) PROVE TypeOK'
  <2> DEFINE r == [number |-> num[t], status |-> LastCall(held[t])]
  <2>1. held[t] \in Jobs /\ r \in Attempt
    BY <1>18, LastOutcome DEF Record, LastCall, Attempt
  <2>2. Append(hist[held[t]], r) \in Seq(Attempt)
    BY <2>1, AppendProperties
  <2>3. hist' = [hist EXCEPT ![held[t]] = Append(@, r)]
    BY <1>18 DEF Record
  <2> HIDE DEF r
  <2> QED
    BY <1>18, <2>1, <2>2, <2>3 DEF Record
<1>19. ASSUME NEW t \in Threads, Crash(t) PROVE TypeOK'
  BY <1>19 DEF Crash
<1>20. CASE UNCHANGED vars
  BY <1>20 DEF vars
<1> QED
  BY <1>1, <1>2, <1>3, <1>4, <1>5, <1>6, <1>7, <1>8, <1>9, <1>10, <1>11, <1>12, <1>13, <1>14, <1>15, <1>16, <1>17, <1>18, <1>19, <1>20
  DEF Next, ClientStep, WorkerStep, Run

(* No step loses the job of a thread or forgets the call it made. *)
LEMMA HeldStep == TypeOK /\ HeldJob /\ [Next]_vars => HeldJob'
<1> SUFFICES ASSUME TypeOK, HeldJob, [Next]_vars PROVE HeldJob'
  OBVIOUS
<1> USE ConstantsAssumption
<1> USE DEF Threads, PreCall, PostCall, ClientAt, TypeOK, HeldJob
<1> USE DEF rows, local, aux, Goto, Take, Release, SetStatus
<1>1. ASSUME NEW c \in Clients, NEW j \in Jobs, Create(c, j) PROVE HeldJob'
  <2>1. \E l \in {"created", "ready"} : Take(c, l, j)
    BY <1>1 DEF Create
  <2> QED
    BY <1>1, <2>1 DEF Create
<1>2. ASSUME NEW c \in Clients, NEW j \in Jobs, CancelRead(c, j) PROVE HeldJob'
  BY <1>2 DEF CancelRead
<1>3. ASSUME NEW c \in Clients, NEW j \in Jobs, RetryRead(c, j) PROVE HeldJob'
  BY <1>3 DEF RetryRead
<1>4. ASSUME NEW c \in Clients, Push(c) PROVE HeldJob'
  BY <1>4 DEF Push
<1>5. ASSUME NEW c \in Clients, PushFails(c) PROVE HeldJob'
  BY <1>5 DEF PushFails
<1>6. ASSUME NEW c \in Clients, StoreRqId(c) PROVE HeldJob'
  BY <1>6 DEF StoreRqId
<1>7. ASSUME NEW c \in Clients, StoreRqIdFails(c) PROVE HeldJob'
  BY <1>7 DEF StoreRqIdFails
<1>8. ASSUME NEW c \in Clients, MarkEnqueueFailed(c) PROVE HeldJob'
  BY <1>8 DEF MarkEnqueueFailed
<1>9. ASSUME NEW c \in Clients, CancelRq(c) PROVE HeldJob'
  BY <1>9 DEF CancelRq
<1>10. ASSUME NEW c \in Clients, CancelWrite(c) PROVE HeldJob'
  BY <1>10 DEF CancelWrite
<1>11. ASSUME NEW c \in Clients, BeginSync(c) PROVE HeldJob'
  BY <1>11 DEF BeginSync
<1>12. ASSUME NEW w \in Workers, NEW j \in Jobs, Dequeue(w, j) PROVE HeldJob'
  BY <1>12 DEF Dequeue
<1>13. ASSUME NEW w \in Workers, ResolveFails(w) PROVE HeldJob'
  BY <1>13 DEF ResolveFails
<1>14. ASSUME NEW w \in Workers, Begin(w) PROVE HeldJob'
  BY <1>14 DEF Begin
<1>15. ASSUME NEW w \in Workers, Count(w) PROVE HeldJob'
  BY <1>15 DEF Count
<1>16. ASSUME NEW t \in Threads, Call(t) PROVE HeldJob'
  <2>1. PICK o \in Outcome :
          calls' = [calls EXCEPT ![held[t]] = Append(@, o)]
    BY <1>16 DEF Call
  <2>2. held[t] \in Jobs /\ Append(calls[held[t]], o) # <<>>
    BY <1>16, AppendIsNotEmpty DEF Call
  <2> QED
    BY <1>16, <2>1, <2>2 DEF Call
<1>17. ASSUME NEW t \in Threads, Finish(t) PROVE HeldJob'
  BY <1>17 DEF Finish
<1>18. ASSUME NEW t \in Threads, Record(t) PROVE HeldJob'
  BY <1>18 DEF Record
<1>19. ASSUME NEW t \in Threads, Crash(t) PROVE HeldJob'
  BY <1>19 DEF Crash
<1>20. CASE UNCHANGED vars
  BY <1>20 DEF vars
<1> QED
  BY <1>1, <1>2, <1>3, <1>4, <1>5, <1>6, <1>7, <1>8, <1>9, <1>10, <1>11, <1>12, <1>13, <1>14, <1>15, <1>16, <1>17, <1>18, <1>19, <1>20
  DEF Next, ClientStep, WorkerStep, Run

(* Type correctness of the rows, the queue and the threads' local state.    *)
THEOREM TypeCorrect == Spec => [](TypeOK /\ HeldJob)
<1>1. Init => TypeOK /\ HeldJob
  BY DEF Init, TypeOK, HeldJob, PostCall, Status, Location
<1>2. TypeOK /\ HeldJob /\ [Next]_vars => (TypeOK /\ HeldJob)'
  BY TypeStep, HeldStep
<1> QED
  BY <1>1, <1>2, PTL DEF Spec

(* A list with one outcome is that outcome. *)
LEMMA SingleOutcome ==
  ASSUME NEW s \in Seq(Outcome), Len(s) = 1
  PROVE  s = <<s[Len(s)]>>
  OBVIOUS

(* No step gives a job a second token, or a new one to a job whose entry a   *)
(* cancel removed. *)
LEMMA OneTokenStep ==
  ASSUME TypeOK, TypeOK', TokenInv, [Next]_vars, NEW k \in Jobs
  PROVE  OneToken(k)'
<1> USE ConstantsAssumption
<1> USE DEF Threads, TypeOK, TokenInv, HeldJob, Holds, TokenAt, PreCall, PostCall
<1> USE DEF OneToken, TokenMeaning, Trail, Truthful, Untouched
<1> USE DEF rows, local, aux, Goto, Take, Release, SetStatus
<1>1. ASSUME NEW c \in Clients, NEW j \in Jobs, Create(c, j) PROVE OneToken(k)'
  <2>1. PICK st \in {"queued", "running"} : SetStatus(j, st)
    BY <1>1 DEF Create
  <2>2. PICK l \in {"created", "ready"} : Take(c, l, j)
    BY <1>1 DEF Create
  <2>3. status[j] = "absent" /\ at[c] \in {"idle", "retrying"}
    BY <1>1 DEF Create
  <2>4. UNCHANGED <<rq, calls, faulty, enqErr, removed>>
    BY <1>1 DEF Create
  <2>5. CASE k = j
    BY <2>1, <2>2, <2>3, <2>4, <2>5
  <2>6. CASE k # j
    BY <2>1, <2>2, <2>3, <2>4, <2>6
  <2> QED
    BY <2>5, <2>6
<1>2. ASSUME NEW c \in Clients, NEW j \in Jobs, CancelRead(c, j) PROVE OneToken(k)'
  BY <1>2 DEF CancelRead
<1>3. ASSUME NEW c \in Clients, NEW j \in Jobs, RetryRead(c, j) PROVE OneToken(k)'
  BY <1>3 DEF RetryRead
<1>4. ASSUME NEW c \in Clients, Push(c) PROVE OneToken(k)'
  BY <1>4 DEF Push
<1>5. ASSUME NEW c \in Clients, PushFails(c) PROVE OneToken(k)'
  BY <1>5 DEF PushFails
<1>6. ASSUME NEW c \in Clients, StoreRqId(c) PROVE OneToken(k)'
  BY <1>6 DEF StoreRqId
<1>7. ASSUME NEW c \in Clients, StoreRqIdFails(c) PROVE OneToken(k)'
  BY <1>7 DEF StoreRqIdFails
<1>8. ASSUME NEW c \in Clients, MarkEnqueueFailed(c) PROVE OneToken(k)'
  BY <1>8 DEF MarkEnqueueFailed
<1>9. ASSUME NEW c \in Clients, CancelRq(c) PROVE OneToken(k)'
  BY <1>9 DEF CancelRq
<1>10. ASSUME NEW c \in Clients, CancelWrite(c) PROVE OneToken(k)'
  BY <1>10 DEF CancelWrite
<1>11. ASSUME NEW c \in Clients, BeginSync(c) PROVE OneToken(k)'
  BY <1>11 DEF BeginSync
<1>12. ASSUME NEW w \in Workers, NEW j \in Jobs, Dequeue(w, j) PROVE OneToken(k)'
  BY <1>12 DEF Dequeue
<1>13. ASSUME NEW w \in Workers, ResolveFails(w) PROVE OneToken(k)'
  BY <1>13 DEF ResolveFails
<1>14. ASSUME NEW w \in Workers, Begin(w) PROVE OneToken(k)'
  BY <1>14 DEF Begin
<1>15. ASSUME NEW w \in Workers, Count(w) PROVE OneToken(k)'
  BY <1>15 DEF Count
<1>16. ASSUME NEW t \in Threads, Call(t) PROVE OneToken(k)'
  BY <1>16 DEF Call
<1>17. ASSUME NEW t \in Threads, Finish(t) PROVE OneToken(k)'
  BY <1>17 DEF Finish
<1>18. ASSUME NEW t \in Threads, Record(t) PROVE OneToken(k)'
  BY <1>18 DEF Record
<1>19. ASSUME NEW t \in Threads, Crash(t) PROVE OneToken(k)'
  BY <1>19 DEF Crash
<1>20. CASE UNCHANGED vars
  BY <1>20 DEF vars
<1> QED
  BY <1>1, <1>2, <1>3, <1>4, <1>5, <1>6, <1>7, <1>8, <1>9, <1>10, <1>11, <1>12, <1>13, <1>14, <1>15, <1>16, <1>17, <1>18, <1>19, <1>20
  DEF Next, ClientStep, WorkerStep, Run

(* What a token says about the counters, the calls and the attempt rows.    *)
LEMMA TokenMeaningStep ==
  ASSUME TypeOK, TypeOK', TokenInv, [Next]_vars, NEW k \in Jobs
  PROVE  TokenMeaning(k)'
<1> USE ConstantsAssumption
<1> USE DEF Threads, TypeOK, TokenInv, HeldJob, Holds, TokenAt, PreCall, PostCall
<1> USE DEF OneToken, TokenMeaning, Trail, Truthful, Untouched
<1> USE DEF rows, local, aux, Goto, Take, Release, SetStatus
<1>1. ASSUME NEW c \in Clients, NEW j \in Jobs, Create(c, j) PROVE TokenMeaning(k)'
  <2>1. PICK st \in {"queued", "running"} : SetStatus(j, st)
    BY <1>1 DEF Create
  <2>2. PICK l \in {"created", "ready"} : Take(c, l, j)
    BY <1>1 DEF Create
  <2>3. status[j] = "absent" /\ at[c] \in {"idle", "retrying"}
    BY <1>1 DEF Create
  <2>4. UNCHANGED <<rq, calls, faulty, enqErr, removed>>
    BY <1>1 DEF Create
  <2>5. CASE k = j
    BY <2>1, <2>2, <2>3, <2>4, <2>5
  <2>6. CASE k # j
    BY <2>1, <2>2, <2>3, <2>4, <2>6
  <2> QED
    BY <2>5, <2>6
<1>2. ASSUME NEW c \in Clients, NEW j \in Jobs, CancelRead(c, j) PROVE TokenMeaning(k)'
  BY <1>2 DEF CancelRead
<1>3. ASSUME NEW c \in Clients, NEW j \in Jobs, RetryRead(c, j) PROVE TokenMeaning(k)'
  <2>1. status[j] # "absent"
    BY <1>3 DEF RetryRead, Terminal, Outcome
  <2> QED
    BY <1>3, <2>1 DEF RetryRead
<1>4. ASSUME NEW c \in Clients, Push(c) PROVE TokenMeaning(k)'
  BY <1>4 DEF Push
<1>5. ASSUME NEW c \in Clients, PushFails(c) PROVE TokenMeaning(k)'
  BY <1>5 DEF PushFails
<1>6. ASSUME NEW c \in Clients, StoreRqId(c) PROVE TokenMeaning(k)'
  BY <1>6 DEF StoreRqId
<1>7. ASSUME NEW c \in Clients, StoreRqIdFails(c) PROVE TokenMeaning(k)'
  BY <1>7 DEF StoreRqIdFails
<1>8. ASSUME NEW c \in Clients, MarkEnqueueFailed(c) PROVE TokenMeaning(k)'
  BY <1>8 DEF MarkEnqueueFailed
<1>9. ASSUME NEW c \in Clients, CancelRq(c) PROVE TokenMeaning(k)'
  BY <1>9 DEF CancelRq
<1>10. ASSUME NEW c \in Clients, CancelWrite(c) PROVE TokenMeaning(k)'
  BY <1>10 DEF CancelWrite
<1>11. ASSUME NEW c \in Clients, BeginSync(c) PROVE TokenMeaning(k)'
  <2>1. CASE k = held[c]
    BY <1>11, <2>1 DEF BeginSync
  <2>2. CASE k # held[c]
    BY <1>11, <2>2 DEF BeginSync
  <2> QED
    BY <2>1, <2>2
<1>12. ASSUME NEW w \in Workers, NEW j \in Jobs, Dequeue(w, j) PROVE TokenMeaning(k)'
  BY <1>12 DEF Dequeue
<1>13. ASSUME NEW w \in Workers, ResolveFails(w) PROVE TokenMeaning(k)'
  BY <1>13 DEF ResolveFails
<1>14. ASSUME NEW w \in Workers, Begin(w) PROVE TokenMeaning(k)'
  BY <1>14 DEF Begin
<1>15. ASSUME NEW w \in Workers, Count(w) PROVE TokenMeaning(k)'
  BY <1>15 DEF Count
<1>16. ASSUME NEW t \in Threads, Call(t) PROVE TokenMeaning(k)'
  BY <1>16 DEF Call
<1>17. ASSUME NEW t \in Threads, Finish(t) PROVE TokenMeaning(k)'
  <2>1. held[t] \in Jobs /\ LastCall(held[t]) \in Outcome
    BY <1>17, LastOutcome DEF Finish, LastCall
  <2>2. LastCall(held[t]) # "absent"
    BY <2>1 DEF Outcome
  <2> QED
    BY <1>17, <2>1, <2>2 DEF Finish
<1>18. ASSUME NEW t \in Threads, Record(t) PROVE TokenMeaning(k)'
  BY <1>18 DEF Record
<1>19. ASSUME NEW t \in Threads, Crash(t) PROVE TokenMeaning(k)'
  BY <1>19 DEF Crash
<1>20. CASE UNCHANGED vars
  BY <1>20 DEF vars
<1> QED
  BY <1>1, <1>2, <1>3, <1>4, <1>5, <1>6, <1>7, <1>8, <1>9, <1>10, <1>11, <1>12, <1>13, <1>14, <1>15, <1>16, <1>17, <1>18, <1>19, <1>20
  DEF Next, ClientStep, WorkerStep, Run

(* The attempt row is written after its call, once, with its outcome.       *)
LEMMA TrailStep ==
  ASSUME TypeOK, TypeOK', TokenInv, [Next]_vars, NEW k \in Jobs
  PROVE  Trail(k)'
<1> USE ConstantsAssumption
<1> USE DEF Threads, TypeOK, TokenInv, HeldJob, Holds, TokenAt, PreCall, PostCall
<1> USE DEF OneToken, TokenMeaning, Trail, Truthful, Untouched
<1> USE DEF rows, local, aux, Goto, Take, Release, SetStatus
<1>1. ASSUME NEW c \in Clients, NEW j \in Jobs, Create(c, j) PROVE Trail(k)'
  BY <1>1 DEF Create
<1>2. ASSUME NEW c \in Clients, NEW j \in Jobs, CancelRead(c, j) PROVE Trail(k)'
  BY <1>2 DEF CancelRead
<1>3. ASSUME NEW c \in Clients, NEW j \in Jobs, RetryRead(c, j) PROVE Trail(k)'
  BY <1>3 DEF RetryRead
<1>4. ASSUME NEW c \in Clients, Push(c) PROVE Trail(k)'
  BY <1>4 DEF Push
<1>5. ASSUME NEW c \in Clients, PushFails(c) PROVE Trail(k)'
  BY <1>5 DEF PushFails
<1>6. ASSUME NEW c \in Clients, StoreRqId(c) PROVE Trail(k)'
  BY <1>6 DEF StoreRqId
<1>7. ASSUME NEW c \in Clients, StoreRqIdFails(c) PROVE Trail(k)'
  BY <1>7 DEF StoreRqIdFails
<1>8. ASSUME NEW c \in Clients, MarkEnqueueFailed(c) PROVE Trail(k)'
  BY <1>8 DEF MarkEnqueueFailed
<1>9. ASSUME NEW c \in Clients, CancelRq(c) PROVE Trail(k)'
  BY <1>9 DEF CancelRq
<1>10. ASSUME NEW c \in Clients, CancelWrite(c) PROVE Trail(k)'
  BY <1>10 DEF CancelWrite
<1>11. ASSUME NEW c \in Clients, BeginSync(c) PROVE Trail(k)'
  BY <1>11 DEF BeginSync
<1>12. ASSUME NEW w \in Workers, NEW j \in Jobs, Dequeue(w, j) PROVE Trail(k)'
  BY <1>12 DEF Dequeue
<1>13. ASSUME NEW w \in Workers, ResolveFails(w) PROVE Trail(k)'
  BY <1>13 DEF ResolveFails
<1>14. ASSUME NEW w \in Workers, Begin(w) PROVE Trail(k)'
  BY <1>14 DEF Begin
<1>15. ASSUME NEW w \in Workers, Count(w) PROVE Trail(k)'
  BY <1>15 DEF Count
<1>16. ASSUME NEW t \in Threads, Call(t) PROVE Trail(k)'
  BY <1>16 DEF Call
<1>17. ASSUME NEW t \in Threads, Finish(t) PROVE Trail(k)'
  BY <1>17 DEF Finish
<1>18. ASSUME NEW t \in Threads, Record(t) PROVE Trail(k)'
  <2>1. /\ held[t] \in Jobs /\ num[t] = 1
        /\ Len(calls[held[t]]) = 1 /\ hist[held[t]] = <<>>
    BY <1>18 DEF Record
  <2>2. hist' = [hist EXCEPT ![held[t]] =
                   <<[number |-> 1, status |-> calls[held[t]][1]]>>]
    BY <1>18, <2>1 DEF Record, LastCall
  <2> QED
    BY <1>18, <2>1, <2>2 DEF Record
<1>19. ASSUME NEW t \in Threads, Crash(t) PROVE Trail(k)'
  BY <1>19 DEF Crash
<1>20. CASE UNCHANGED vars
  BY <1>20 DEF vars
<1> QED
  BY <1>1, <1>2, <1>3, <1>4, <1>5, <1>6, <1>7, <1>8, <1>9, <1>10, <1>11, <1>12, <1>13, <1>14, <1>15, <1>16, <1>17, <1>18, <1>19, <1>20
  DEF Next, ClientStep, WorkerStep, Run

(* The only outcomes written to a row are those of its calls and enqueues.  *)
LEMMA TruthfulStep ==
  ASSUME TypeOK, TypeOK', TokenInv, [Next]_vars, NEW k \in Jobs
  PROVE  Truthful(k)'
<1> USE ConstantsAssumption
<1> USE DEF Threads, TypeOK, TokenInv, HeldJob, Holds, TokenAt, PreCall, PostCall
<1> USE DEF OneToken, TokenMeaning, Trail, Truthful, Untouched
<1> USE DEF rows, local, aux, Goto, Take, Release, SetStatus
<1>1. ASSUME NEW c \in Clients, NEW j \in Jobs, Create(c, j) PROVE Truthful(k)'
  BY <1>1 DEF Create
<1>2. ASSUME NEW c \in Clients, NEW j \in Jobs, CancelRead(c, j) PROVE Truthful(k)'
  BY <1>2 DEF CancelRead
<1>3. ASSUME NEW c \in Clients, NEW j \in Jobs, RetryRead(c, j) PROVE Truthful(k)'
  BY <1>3 DEF RetryRead
<1>4. ASSUME NEW c \in Clients, Push(c) PROVE Truthful(k)'
  BY <1>4 DEF Push
<1>5. ASSUME NEW c \in Clients, PushFails(c) PROVE Truthful(k)'
  BY <1>5 DEF PushFails
<1>6. ASSUME NEW c \in Clients, StoreRqId(c) PROVE Truthful(k)'
  BY <1>6 DEF StoreRqId
<1>7. ASSUME NEW c \in Clients, StoreRqIdFails(c) PROVE Truthful(k)'
  BY <1>7 DEF StoreRqIdFails
<1>8. ASSUME NEW c \in Clients, MarkEnqueueFailed(c) PROVE Truthful(k)'
  BY <1>8 DEF MarkEnqueueFailed
<1>9. ASSUME NEW c \in Clients, CancelRq(c) PROVE Truthful(k)'
  BY <1>9 DEF CancelRq
<1>10. ASSUME NEW c \in Clients, CancelWrite(c) PROVE Truthful(k)'
  BY <1>10 DEF CancelWrite
<1>11. ASSUME NEW c \in Clients, BeginSync(c) PROVE Truthful(k)'
  BY <1>11 DEF BeginSync
<1>12. ASSUME NEW w \in Workers, NEW j \in Jobs, Dequeue(w, j) PROVE Truthful(k)'
  BY <1>12 DEF Dequeue
<1>13. ASSUME NEW w \in Workers, ResolveFails(w) PROVE Truthful(k)'
  BY <1>13 DEF ResolveFails
<1>14. ASSUME NEW w \in Workers, Begin(w) PROVE Truthful(k)'
  BY <1>14 DEF Begin
<1>15. ASSUME NEW w \in Workers, Count(w) PROVE Truthful(k)'
  BY <1>15 DEF Count
<1>16. ASSUME NEW t \in Threads, Call(t) PROVE Truthful(k)'
  BY <1>16 DEF Call
<1>17. ASSUME NEW t \in Threads, Finish(t) PROVE Truthful(k)'
  <2>1. held[t] \in Jobs /\ Len(calls[held[t]]) = 1
    BY <1>17 DEF Finish
  <2>2. calls[held[t]] = <<LastCall(held[t])>>
    BY <2>1, SingleOutcome DEF LastCall
  <2> QED
    BY <1>17, <2>1, <2>2 DEF Finish
<1>18. ASSUME NEW t \in Threads, Record(t) PROVE Truthful(k)'
  BY <1>18 DEF Record
<1>19. ASSUME NEW t \in Threads, Crash(t) PROVE Truthful(k)'
  BY <1>19 DEF Crash
<1>20. CASE UNCHANGED vars
  BY <1>20 DEF vars
<1> QED
  BY <1>1, <1>2, <1>3, <1>4, <1>5, <1>6, <1>7, <1>8, <1>9, <1>10, <1>11, <1>12, <1>13, <1>14, <1>15, <1>16, <1>17, <1>18, <1>19, <1>20
  DEF Next, ClientStep, WorkerStep, Run

(* One token per job, for ever. *)
THEOREM TokenInvariant == Spec => [](TypeOK /\ TokenInv)
<1>1. Init => TypeOK /\ TokenInv
  <2> SUFFICES ASSUME Init PROVE TypeOK /\ TokenInv
    OBVIOUS
  <2>1. TypeOK /\ HeldJob
    BY DEF Init, TypeOK, HeldJob, PostCall, Status, Location
  <2>2. \A j \in Jobs : OneToken(j) /\ TokenMeaning(j)
    BY ConstantsAssumption DEF Init, OneToken, TokenMeaning, Holds, TokenAt,
       PreCall, PostCall, Untouched
  <2>3. \A j \in Jobs : Trail(j) /\ Truthful(j)
    <3> SUFFICES ASSUME NEW j \in Jobs PROVE Trail(j) /\ Truthful(j)
      OBVIOUS
    <3>1. hist[j] = <<>> /\ calls[j] = <<>> /\ attempts[j] = 0
      BY DEF Init
    <3>2. status[j] = "absent"
      BY DEF Init
    <3>3. Trail(j)
      BY <3>1 DEF Trail
    <3> QED
      BY <3>2, <3>3 DEF Truthful
  <2> QED
    BY <2>1, <2>2, <2>3 DEF TokenInv
<1>2. TypeOK /\ TokenInv /\ [Next]_vars => (TypeOK /\ TokenInv)'
  <2> SUFFICES ASSUME TypeOK, TokenInv, [Next]_vars PROVE (TypeOK /\ TokenInv)'
    OBVIOUS
  <2>1. TypeOK' /\ HeldJob'
    BY TypeStep, HeldStep DEF TokenInv
  <2>2. \A k \in Jobs : (OneToken(k) /\ TokenMeaning(k) /\ Trail(k) /\ Truthful(k))'
    BY <2>1, OneTokenStep, TokenMeaningStep, TrailStep, TruthfulStep
  <2> QED
    BY <2>1, <2>2 DEF TokenInv
<1> QED
  BY <1>1, <1>2, PTL DEF Spec

(* No interleaving of enqueue, cancel, retry, worker and crash calls the    *)
(* function of a job twice.                                                 *)
THEOREM CalledOnce == Spec => []AtMostOneCall
<1>1. TokenInv => AtMostOneCall
  BY DEF TokenInv, Trail, AtMostOneCall
<1> QED
  BY <1>1, TokenInvariant, PTL

(* A row never reports an outcome that did not happen. *)
THEOREM StatusIsTruthful == Spec => []OutcomeTruthful
<1>1. TokenInv => OutcomeTruthful
  BY DEF TokenInv, OutcomeTruthful
<1> QED
  BY <1>1, TokenInvariant, PTL

(* attempts, calls and job_attempts rows agree in number and in content. *)
THEOREM TrailIsExact == Spec => []AttemptTrail
<1>1. TypeOK /\ TokenInv => AttemptTrail
  <2> SUFFICES ASSUME TypeOK, TokenInv, NEW j \in Jobs
      PROVE /\ Len(hist[j]) <= Len(calls[j])
            /\ Len(calls[j]) <= attempts[j]
            /\ \A i \in 1 .. Len(hist[j]) :
                 hist[j][i] = [number |-> i, status |-> calls[j][i]]
    BY DEF AttemptTrail
  <2>1. Trail(j)
    BY DEF TokenInv
  <2>2. CASE hist[j] = <<>>
    BY <2>1, <2>2 DEF TypeOK, Trail
  <2>3. CASE hist[j] # <<>>
    <3>1. /\ hist[j] = <<[number |-> 1, status |-> calls[j][1]]>>
          /\ Len(calls[j]) = 1 /\ Len(calls[j]) <= attempts[j]
      BY <2>1, <2>3 DEF Trail
    <3>2. Len(hist[j]) = 1 /\ hist[j][1] = [number |-> 1, status |-> calls[j][1]]
      BY <3>1
    <3> QED
      BY <3>1, <3>2
  <2> QED
    BY <2>2, <2>3
<1> QED
  BY <1>1, TokenInvariant, PTL

(* Taking the entry off Redis is a cancellation that always works. *)
THEOREM RemovedIsCancelled == Spec => []RemovedNeverRuns
<1>1. TypeOK /\ TokenInv => RemovedNeverRuns
  BY DEF TypeOK, TokenInv, OneToken, TokenMeaning, RemovedNeverRuns, Holds, TokenAt
<1> QED
  BY <1>1, TokenInvariant, PTL

(* A row is stuck in queued or running only if a thread of its job died. *)
THEOREM OnlyCrashesOrphan == Spec => []NoOrphan
<1>1. Init => NoOrphan
  BY DEF Init, NoOrphan
<1>2. TypeOK /\ HeldJob /\ NoOrphan /\ [Next]_vars => NoOrphan'
  <2> SUFFICES ASSUME TypeOK, HeldJob, NoOrphan, [Next]_vars, NEW k \in Jobs,
                      status'[k] \in {"queued", "running"}
      PROVE \/ k \in rq' \/ k \in faulty'
            \/ \E t \in Threads :
                 Holds(t, k, PreCall \cup {"created", "pushFailed", "called",
                                           "cancelWrite"})'
    BY DEF NoOrphan
  <2> DEFINE Backed == \/ k \in rq \/ k \in faulty
                       \/ \E t \in Threads :
                            Holds(t, k, PreCall \cup {"created", "pushFailed",
                                                      "called", "cancelWrite"})
  <2> SUFFICES Backed'
    OBVIOUS
  <2>a. status[k] \in {"queued", "running"} => Backed
    BY DEF NoOrphan
  <2> USE ConstantsAssumption DEF Threads, TypeOK, HeldJob, Holds, PreCall, PostCall
  <2> USE DEF rows, local, aux, Goto, Take, Release, SetStatus
  <2>1. ASSUME NEW c \in Clients, NEW j \in Jobs, Create(c, j) PROVE Backed'
    <3>1. PICK st \in {"queued", "running"} : SetStatus(j, st)
      BY <2>1 DEF Create
    <3>2. PICK l \in {"created", "ready"} : Take(c, l, j)
      BY <2>1 DEF Create
    <3>3. status[j] = "absent" /\ at[c] \in {"idle", "retrying"}
      BY <2>1 DEF Create
    <3>4. UNCHANGED <<rq, calls, faulty, enqErr, removed>>
      BY <2>1 DEF Create
    <3>5. CASE k = j
      BY <3>1, <3>2, <3>5
    <3>6. CASE k # j
      BY <2>a, <3>1, <3>2, <3>3, <3>4, <3>6
    <3> QED
      BY <3>5, <3>6
  <2>2. ASSUME NEW c \in Clients, NEW j \in Jobs, CancelRead(c, j) PROVE Backed'
    BY <2>a, <2>2 DEF CancelRead
  <2>3. ASSUME NEW c \in Clients, NEW j \in Jobs, RetryRead(c, j) PROVE Backed'
    BY <2>a, <2>3 DEF RetryRead
  <2>4. ASSUME NEW c \in Clients, Push(c) PROVE Backed'
    BY <2>a, <2>4 DEF Push
  <2>5. ASSUME NEW c \in Clients, PushFails(c) PROVE Backed'
    BY <2>a, <2>5 DEF PushFails
  <2>6. ASSUME NEW c \in Clients, StoreRqId(c) PROVE Backed'
    BY <2>a, <2>6 DEF StoreRqId
  <2>7. ASSUME NEW c \in Clients, StoreRqIdFails(c) PROVE Backed'
    BY <2>a, <2>7 DEF StoreRqIdFails
  <2>8. ASSUME NEW c \in Clients, MarkEnqueueFailed(c) PROVE Backed'
    BY <2>a, <2>8 DEF MarkEnqueueFailed
  <2>9. ASSUME NEW c \in Clients, CancelRq(c) PROVE Backed'
    BY <2>a, <2>9 DEF CancelRq
  <2>10. ASSUME NEW c \in Clients, CancelWrite(c) PROVE Backed'
    BY <2>a, <2>10 DEF CancelWrite
  <2>11. ASSUME NEW c \in Clients, BeginSync(c) PROVE Backed'
    BY <2>a, <2>11 DEF BeginSync
  <2>12. ASSUME NEW w \in Workers, NEW j \in Jobs, Dequeue(w, j) PROVE Backed'
    BY <2>a, <2>12 DEF Dequeue
  <2>13. ASSUME NEW w \in Workers, ResolveFails(w) PROVE Backed'
    BY <2>a, <2>13 DEF ResolveFails
  <2>14. ASSUME NEW w \in Workers, Begin(w) PROVE Backed'
    BY <2>a, <2>14 DEF Begin
  <2>15. ASSUME NEW w \in Workers, Count(w) PROVE Backed'
    BY <2>a, <2>15 DEF Count
  <2>16. ASSUME NEW t \in Threads, Call(t) PROVE Backed'
    BY <2>a, <2>16 DEF Call
  <2>17. ASSUME NEW t \in Threads, Finish(t) PROVE Backed'
    <3>1. held[t] \in Jobs /\ LastCall(held[t]) \in Outcome
      BY <2>17, LastOutcome DEF Finish, LastCall
    <3>2. LastCall(held[t]) \notin {"queued", "running"}
      BY <3>1 DEF Outcome
    <3> QED
      BY <2>a, <2>17, <3>1, <3>2 DEF Finish
  <2>18. ASSUME NEW t \in Threads, Record(t) PROVE Backed'
    BY <2>a, <2>18 DEF Record
  <2>19. ASSUME NEW t \in Threads, Crash(t) PROVE Backed'
    BY <2>a, <2>19 DEF Crash
  <2>20. CASE UNCHANGED vars
    BY <2>a, <2>20 DEF vars
  <2> QED
    BY <2>1, <2>2, <2>3, <2>4, <2>5, <2>6, <2>7, <2>8, <2>9, <2>10, <2>11, <2>12, <2>13, <2>14, <2>15, <2>16, <2>17, <2>18, <2>19, <2>20
    DEF Next, ClientStep, WorkerStep, Run
<1> QED
  BY <1>1, <1>2, TypeCorrect, PTL DEF Spec

(* The four facts that JobContract's view of a job is computed from. *)
Same(k) == /\ calls'[k] = calls[k]
           /\ Running(k)' <=> Running(k)
           /\ Waiting(k)' <=> Waiting(k)
           /\ status'[k] = "absent" <=> status[k] = "absent"

LEMMA SameView ==
  ASSUME NEW k \in Jobs, Same(k)
  PROVE  Exec(k)' = Exec(k)
  BY DEF Same, Exec, LastCall

(* The steps that another job, or JobContract, does not see. *)
LEMMA Unseen ==
  ASSUME TypeOK, TypeOK', TokenInv, NEW k \in Jobs
  PROVE
    /\ \A c \in Clients, j \in Jobs : Create(c, j) /\ k # j => Same(k)
    /\ \A c \in Clients, j \in Jobs : CancelRead(c, j) => Same(k)
    /\ \A c \in Clients, j \in Jobs : RetryRead(c, j) => Same(k)
    /\ \A c \in Clients : Push(c) => Same(k)
    /\ \A c \in Clients : PushFails(c) /\ k # held[c] => Same(k)
    /\ \A c \in Clients : StoreRqId(c) => Same(k)
    /\ \A c \in Clients : StoreRqIdFails(c) => Same(k)
    /\ \A c \in Clients : MarkEnqueueFailed(c) => Same(k)
    /\ \A c \in Clients : CancelRq(c) /\ k # held[c] => Same(k)
    /\ \A c \in Clients : CancelWrite(c) => Same(k)
    /\ \A c \in Clients : BeginSync(c) => Same(k)
    /\ \A w \in Workers, j \in Jobs : Dequeue(w, j) /\ k # j => Same(k)
    /\ \A w \in Workers : ResolveFails(w) /\ k # held[w] => Same(k)
    /\ \A w \in Workers : Begin(w) => Same(k)
    /\ \A w \in Workers : Count(w) => Same(k)
    /\ \A t \in Threads : Call(t) /\ k # held[t] => Same(k)
    /\ \A t \in Threads : Finish(t) => Same(k)
    /\ \A t \in Threads : Record(t) => Same(k)
    /\ \A t \in Threads : Crash(t) /\ k # held[t] => Same(k)
<1> USE ConstantsAssumption
<1> USE DEF Threads, TypeOK, TokenInv, HeldJob, Holds, TokenAt, PreCall, PostCall
<1> USE DEF OneToken, TokenMeaning, Untouched, Running, Waiting
<1> USE DEF rows, local, aux, Goto, Take, Release, SetStatus
<1> USE DEF Same
<1>1. ASSUME NEW c \in Clients, NEW j \in Jobs, Create(c, j), k # j PROVE Same(k)
  <2>1. PICK st \in {"queued", "running"} : SetStatus(j, st)
    BY <1>1 DEF Create
  <2>2. PICK l \in {"created", "ready"} : Take(c, l, j)
    BY <1>1 DEF Create
  <2>3. /\ at[c] \in {"idle", "retrying"}
        /\ UNCHANGED <<rq, calls>>
    BY <1>1 DEF Create
  <2> QED
    BY <1>1, <2>1, <2>2, <2>3
<1>2. ASSUME NEW c \in Clients, NEW j \in Jobs, CancelRead(c, j) PROVE Same(k)
  BY <1>2 DEF CancelRead
<1>3. ASSUME NEW c \in Clients, NEW j \in Jobs, RetryRead(c, j) PROVE Same(k)
  BY <1>3 DEF RetryRead
<1>4. ASSUME NEW c \in Clients, Push(c) PROVE Same(k)
  BY <1>4 DEF Push
<1>5. ASSUME NEW c \in Clients, PushFails(c), k # held[c] PROVE Same(k)
  BY <1>5 DEF PushFails
<1>6. ASSUME NEW c \in Clients, StoreRqId(c) PROVE Same(k)
  BY <1>6 DEF StoreRqId
<1>7. ASSUME NEW c \in Clients, StoreRqIdFails(c) PROVE Same(k)
  BY <1>7 DEF StoreRqIdFails
<1>8. ASSUME NEW c \in Clients, MarkEnqueueFailed(c) PROVE Same(k)
  BY <1>8 DEF MarkEnqueueFailed
<1>9. ASSUME NEW c \in Clients, CancelRq(c), k # held[c] PROVE Same(k)
  BY <1>9 DEF CancelRq
<1>10. ASSUME NEW c \in Clients, CancelWrite(c) PROVE Same(k)
  BY <1>10 DEF CancelWrite
<1>11. ASSUME NEW c \in Clients, BeginSync(c) PROVE Same(k)
  BY <1>11 DEF BeginSync
<1>12. ASSUME NEW w \in Workers, NEW j \in Jobs, Dequeue(w, j), k # j PROVE Same(k)
  BY <1>12 DEF Dequeue
<1>13. ASSUME NEW w \in Workers, ResolveFails(w), k # held[w] PROVE Same(k)
  BY <1>13 DEF ResolveFails
<1>14. ASSUME NEW w \in Workers, Begin(w) PROVE Same(k)
  BY <1>14 DEF Begin
<1>15. ASSUME NEW w \in Workers, Count(w) PROVE Same(k)
  BY <1>15 DEF Count
<1>16. ASSUME NEW t \in Threads, Call(t), k # held[t] PROVE Same(k)
  BY <1>16 DEF Call
<1>17. ASSUME NEW t \in Threads, Finish(t) PROVE Same(k)
  <2>1. held[t] \in Jobs /\ LastCall(held[t]) \in Outcome
    BY <1>17, LastOutcome DEF Finish, LastCall
  <2>2. LastCall(held[t]) # "absent"
    BY <2>1 DEF Outcome
  <2> QED
    BY <1>17, <2>1, <2>2 DEF Finish
<1>18. ASSUME NEW t \in Threads, Record(t) PROVE Same(k)
  BY <1>18 DEF Record
<1>19. ASSUME NEW t \in Threads, Crash(t), k # held[t] PROVE Same(k)
  BY <1>19 DEF Crash
<1> QED
  BY <1>1, <1>2, <1>3, <1>4, <1>5, <1>6, <1>7, <1>8, <1>9, <1>10, <1>11, <1>12, <1>13, <1>14, <1>15, <1>16, <1>17, <1>18, <1>19

(* JobContract's view of a job, case by case, before and after a step. *)
LEMMA ExecValue ==
  ASSUME NEW j
  PROVE
    /\ calls[j] # <<>> => Exec(j) = LastCall(j)
    /\ calls[j] = <<>> /\ Running(j) => Exec(j) = "executing"
    /\ calls[j] = <<>> /\ ~Running(j) /\ Waiting(j) => Exec(j) = "waiting"
    /\ calls[j] = <<>> /\ ~Running(j) /\ ~Waiting(j) =>
         Exec(j) = IF status[j] = "absent" THEN "none" ELSE "dropped"
    /\ calls'[j] # <<>> => Exec(j)' = LastCall(j)'
    /\ calls'[j] = <<>> /\ Running(j)' => Exec(j)' = "executing"
    /\ calls'[j] = <<>> /\ ~Running(j)' /\ Waiting(j)' => Exec(j)' = "waiting"
    /\ calls'[j] = <<>> /\ ~Running(j)' /\ ~Waiting(j)' =>
         Exec(j)' = IF status'[j] = "absent" THEN "none" ELSE "dropped"
  BY DEF Exec

(* A step of job j that JobContract sees. *)
Seen(j, from, to) == j \in Jobs /\ Exec(j) = from /\ Exec(j)' = to

(* A new row is accepted: waiting for a worker, or executing inline. *)
LEMMA CreateView ==
  ASSUME TypeOK, TypeOK', TokenInv, NEW c \in Clients, NEW j \in Jobs, Create(c, j)
  PROVE  \E to \in {"waiting", "executing"} : Seen(j, "none", to)
<1> USE ConstantsAssumption
<1> USE DEF Threads, TypeOK, TokenInv, HeldJob, Holds, TokenAt, PreCall, PostCall
<1> USE DEF OneToken, TokenMeaning, Untouched, Running, Waiting
<1> USE DEF rows, local, aux, Goto, Take, Release, SetStatus
<1>1. Exec(j) = "none"
  <2>1. calls[j] = <<>> /\ ~Running(j) /\ ~Waiting(j) /\ status[j] = "absent"
    BY DEF Create
  <2> HIDE DEF TypeOK, TokenInv, Running, Waiting
  <2> QED
    BY <2>1, ExecValue
<1>2. /\ status[j] = "absent" /\ at[c] \in {"idle", "retrying"}
      /\ UNCHANGED <<rq, calls>>
  BY DEF Create
<1>3. PICK l \in {"created", "ready"} : Take(c, l, j)
  BY DEF Create
<1>4. CASE l = "created"
  <2>1. ~Running(j)' /\ Waiting(j)' /\ calls'[j] = <<>>
    BY <1>2, <1>3, <1>4
  <2> HIDE DEF TypeOK, TokenInv, Running, Waiting
  <2> QED
    BY <1>1, <2>1, ExecValue DEF Seen
<1>5. CASE l = "ready"
  <2>1. Running(j)' /\ calls'[j] = <<>>
    BY <1>2, <1>3, <1>5
  <2> HIDE DEF TypeOK, TokenInv, Running, Waiting
  <2> QED
    BY <1>1, <2>1, ExecValue DEF Seen
<1> QED
  BY <1>3, <1>4, <1>5

(* A failed enqueue drops the job. *)
LEMMA PushFailsView ==
  ASSUME TypeOK, TypeOK', TokenInv, NEW c \in Clients, NEW j \in Jobs, j = held[c], PushFails(c)
  PROVE  Seen(j, "waiting", "dropped")
<1> USE ConstantsAssumption
<1> USE DEF Threads, TypeOK, TokenInv, HeldJob, Holds, TokenAt, PreCall, PostCall
<1> USE DEF OneToken, TokenMeaning, Untouched, Running, Waiting
<1> USE DEF rows, local, aux, Goto, Take, Release, SetStatus
<1>1. /\ j \in Jobs /\ calls[j] = <<>> /\ status[j] # "absent"
      /\ ~Running(j) /\ Waiting(j)
  BY DEF PushFails
<1>2. /\ calls'[j] = <<>> /\ status'[j] # "absent"
      /\ ~Running(j)' /\ ~Waiting(j)'
  BY <1>1 DEF PushFails
<1> HIDE DEF TypeOK, TokenInv, Running, Waiting
<1> QED
  BY <1>1, <1>2, ExecValue DEF Seen

(* A cancel that removes the Redis entry drops the job; another is not seen. *)
LEMMA CancelRqView ==
  ASSUME TypeOK, TypeOK', TokenInv, NEW c \in Clients, NEW j \in Jobs, j = held[c], CancelRq(c)
  PROVE  Seen(j, "waiting", "dropped") \/ Same(j)
<1> USE ConstantsAssumption
<1> USE DEF Threads, TypeOK, TokenInv, HeldJob, Holds, TokenAt, PreCall, PostCall
<1> USE DEF OneToken, TokenMeaning, Untouched, Running, Waiting
<1> USE DEF rows, local, aux, Goto, Take, Release, SetStatus
<1>1. j \in Jobs
  BY DEF CancelRq
<1>2. CASE j \notin rq \/ rq' = rq
  BY <1>1, <1>2 DEF CancelRq, Same
<1>3. CASE j \in rq /\ rq' = rq \ {j}
  <2>1. /\ calls[j] = <<>> /\ status[j] # "absent"
        /\ ~Running(j) /\ Waiting(j)
    BY <1>1, <1>3 DEF CancelRq
  <2>2. /\ calls'[j] = <<>> /\ status'[j] # "absent"
        /\ ~Running(j)' /\ ~Waiting(j)'
    BY <1>1, <1>3, <2>1 DEF CancelRq
  <2> HIDE DEF TypeOK, TokenInv, Running, Waiting
  <2> QED
    BY <1>1, <2>1, <2>2, ExecValue DEF Seen
<1> QED
  BY <1>2, <1>3 DEF CancelRq

(* A popped entry starts executing. *)
LEMMA DequeueView ==
  ASSUME TypeOK, TypeOK', TokenInv, NEW w \in Workers, NEW j \in Jobs, Dequeue(w, j)
  PROVE  Seen(j, "waiting", "executing")
<1> USE ConstantsAssumption
<1> USE DEF Threads, TypeOK, TokenInv, HeldJob, Holds, TokenAt, PreCall, PostCall
<1> USE DEF OneToken, TokenMeaning, Untouched, Running, Waiting
<1> USE DEF rows, local, aux, Goto, Take, Release, SetStatus
<1>1. calls[j] = <<>> /\ ~Running(j) /\ Waiting(j)
  BY DEF Dequeue
<1>2. calls'[j] = <<>> /\ Running(j)'
  BY <1>1 DEF Dequeue
<1> HIDE DEF TypeOK, TokenInv, Running, Waiting
<1> QED
  BY <1>1, <1>2, ExecValue DEF Seen

(* An entry whose function is gone is dropped. *)
LEMMA ResolveFailsView ==
  ASSUME TypeOK, TypeOK', TokenInv, NEW w \in Workers, NEW j \in Jobs, j = held[w], ResolveFails(w)
  PROVE  Seen(j, "executing", "dropped")
<1> USE ConstantsAssumption
<1> USE DEF Threads, TypeOK, TokenInv, HeldJob, Holds, TokenAt, PreCall, PostCall
<1> USE DEF OneToken, TokenMeaning, Untouched, Running, Waiting
<1> USE DEF rows, local, aux, Goto, Take, Release, SetStatus
<1>1. /\ j \in Jobs /\ calls[j] = <<>> /\ status[j] # "absent"
      /\ Running(j) /\ ~Waiting(j)
  BY DEF ResolveFails
<1>2. /\ calls'[j] = <<>> /\ status'[j] # "absent"
      /\ ~Running(j)' /\ ~Waiting(j)'
  BY <1>1 DEF ResolveFails
<1> HIDE DEF TypeOK, TokenInv, Running, Waiting
<1> QED
  BY <1>1, <1>2, ExecValue DEF Seen

(* The call ends in its outcome. *)
LEMMA CallView ==
  ASSUME TypeOK, TypeOK', TokenInv, NEW t \in Threads, NEW j \in Jobs, j = held[t], Call(t)
  PROVE  \E to \in Outcome : Seen(j, "executing", to)
<1> USE ConstantsAssumption
<1> USE DEF Threads, TypeOK, TokenInv, HeldJob, Holds, TokenAt, PreCall, PostCall
<1> USE DEF OneToken, TokenMeaning, Untouched, Running, Waiting
<1> USE DEF rows, local, aux, Goto, Take, Release, SetStatus
<1>1. j \in Jobs /\ calls[j] = <<>> /\ Running(j)
  BY DEF Call
<1>2. PICK o \in Outcome : calls' = [calls EXCEPT ![j] = Append(@, o)]
  BY DEF Call
<1>3. calls'[j] = <<o>>
  BY <1>1, <1>2
<1>4. calls'[j] # <<>> /\ LastCall(j)' = o
  <2> SUFFICES ASSUME NEW c, c = <<o>>
      PROVE c # <<>> /\ c[Len(c)] = o
    BY <1>3 DEF LastCall
  <2> QED
    OBVIOUS
<1> HIDE DEF TypeOK, TokenInv, Running, Waiting
<1> QED
  BY <1>1, <1>4, ExecValue DEF Seen

(* A crash before the call drops the job; a later one is not seen. *)
LEMMA CrashView ==
  ASSUME TypeOK, TypeOK', TokenInv, NEW t \in Threads, NEW j \in Jobs, j = held[t], Crash(t)
  PROVE  \/ \E from \in {"waiting", "executing"} : Seen(j, from, "dropped")
         \/ Same(j)
<1> USE ConstantsAssumption
<1> USE DEF Threads, TypeOK, TokenInv, HeldJob, Holds, TokenAt, PreCall, PostCall
<1> USE DEF OneToken, TokenMeaning, Untouched, Running, Waiting
<1> USE DEF rows, local, aux, Goto, Take, Release, SetStatus
<1>1. j \in Jobs /\ status[j] # "absent"
  BY DEF Crash
<1>2. CASE at[t] \in PreCall
  <2>1. /\ calls[j] = <<>> /\ Running(j) /\ ~Waiting(j)
    BY <1>1, <1>2 DEF Crash
  <2>2. /\ calls'[j] = <<>> /\ status'[j] # "absent"
        /\ ~Running(j)' /\ ~Waiting(j)'
    BY <1>1, <1>2, <2>1 DEF Crash
  <2> HIDE DEF TypeOK, TokenInv, Running, Waiting
  <2> QED
    BY <1>1, <2>1, <2>2, ExecValue DEF Seen
<1>3. CASE at[t] = "created"
  <2>1. /\ calls[j] = <<>> /\ ~Running(j) /\ Waiting(j)
    BY <1>1, <1>3 DEF Crash
  <2>2. /\ calls'[j] = <<>> /\ status'[j] # "absent"
        /\ ~Running(j)' /\ ~Waiting(j)'
    BY <1>1, <1>3, <2>1 DEF Crash
  <2> HIDE DEF TypeOK, TokenInv, Running, Waiting
  <2> QED
    BY <1>1, <2>1, <2>2, ExecValue DEF Seen
<1>4. CASE at[t] \notin PreCall \cup {"created"}
  <2>1. Running(j)' <=> Running(j)
    BY <1>1, <1>4 DEF Crash
  <2>2. Waiting(j)' <=> Waiting(j)
    BY <1>1, <1>4 DEF Crash
  <2>3. calls' = calls /\ status' = status
    BY DEF Crash
  <2> QED
    BY <2>1, <2>2, <2>3 DEF Same
<1> QED
  BY <1>2, <1>3, <1>4

(* A seen step of j that no other job sees is a move of JobContract. *)
LEMMA SeenIsMove ==
  ASSUME NEW j \in Jobs, NEW from, NEW to, Seen(j, from, to),
         \A k \in Jobs : k # j => Same(k)
  PROVE  Contract!Move(j, from, to)
<1>1. \A k \in Jobs : k # j => Exec(k)' = Exec(k)
  BY SameView
<1>2. Exec(j) = from /\ Exec(j)' = to
  BY DEF Seen
<1> QED
  BY <1>1, <1>2 DEF Contract!Move, ExecView

(* When no job sees a step, JobContract stutters. *)
LEMMA AllSame ==
  ASSUME \A k \in Jobs : Same(k)
  PROVE  UNCHANGED ExecView
<1>1. \A k \in Jobs : Exec(k)' = Exec(k)
  BY SameView
<1> QED
  BY <1>1 DEF ExecView

(* Every step of jobs.py is a step of JobContract or a stutter. *)
LEMMA ContractStep ==
  ASSUME TypeOK, TypeOK', TokenInv, [Next]_vars
  PROVE  [Contract!Next]_ExecView
<1> DEFINE Goal == [Contract!Next]_ExecView
<1> SUFFICES Goal
  OBVIOUS
<1>1. ASSUME NEW c \in Clients, NEW j \in Jobs, Create(c, j) PROVE Goal
  <2>1. j \in Jobs
    OBVIOUS
  <2>2. \A k \in Jobs : k # j => Same(k)
    BY <1>1, <2>1, Unseen
  <2>3. PICK to \in {"waiting", "executing"} : Seen(j, "none", to)
    BY <1>1, CreateView
  <2>4. Contract!Accept(j)
    BY <2>2, <2>3, SeenIsMove DEF Contract!Accept
  <2> QED
    BY <2>4 DEF Contract!Next
<1>2. ASSUME NEW c \in Clients, NEW j \in Jobs, CancelRead(c, j) PROVE Goal
  <2>1. \A k \in Jobs : Same(k)
    BY <1>2, Unseen
  <2> QED
    BY <2>1, AllSame
<1>3. ASSUME NEW c \in Clients, NEW j \in Jobs, RetryRead(c, j) PROVE Goal
  <2>1. \A k \in Jobs : Same(k)
    BY <1>3, Unseen
  <2> QED
    BY <2>1, AllSame
<1>4. ASSUME NEW c \in Clients, Push(c) PROVE Goal
  <2>1. \A k \in Jobs : Same(k)
    BY <1>4, Unseen
  <2> QED
    BY <2>1, AllSame
<1>5. ASSUME NEW c \in Clients, PushFails(c) PROVE Goal
  <2>1. PICK j \in Jobs : j = held[c]
    BY <1>5 DEF PushFails, TokenInv, HeldJob, Threads
  <2>2. \A k \in Jobs : k # j => Same(k)
    BY <1>5, <2>1, Unseen
  <2>3. Contract!Move(j, "waiting", "dropped")
    BY <1>5, <2>1, <2>2, PushFailsView, SeenIsMove
  <2>4. Contract!Drop(j)
    BY <2>3 DEF Contract!Drop
  <2> QED
    BY <2>4 DEF Contract!Next
<1>6. ASSUME NEW c \in Clients, StoreRqId(c) PROVE Goal
  <2>1. \A k \in Jobs : Same(k)
    BY <1>6, Unseen
  <2> QED
    BY <2>1, AllSame
<1>7. ASSUME NEW c \in Clients, StoreRqIdFails(c) PROVE Goal
  <2>1. \A k \in Jobs : Same(k)
    BY <1>7, Unseen
  <2> QED
    BY <2>1, AllSame
<1>8. ASSUME NEW c \in Clients, MarkEnqueueFailed(c) PROVE Goal
  <2>1. \A k \in Jobs : Same(k)
    BY <1>8, Unseen
  <2> QED
    BY <2>1, AllSame
<1>9. ASSUME NEW c \in Clients, CancelRq(c) PROVE Goal
  <2>1. PICK j \in Jobs : j = held[c]
    BY <1>9 DEF CancelRq, TokenInv, HeldJob, Threads
  <2>2. \A k \in Jobs : k # j => Same(k)
    BY <1>9, <2>1, Unseen
  <2>3. CASE Same(j)
    BY <2>2, <2>3, AllSame
  <2>4. CASE \E from \in {"waiting", "executing"} : Seen(j, from, "dropped")
    <3>1. Contract!Drop(j)
      BY <2>2, <2>4, SeenIsMove DEF Contract!Drop
    <3> QED
      BY <3>1 DEF Contract!Next
  <2> QED
    BY <1>9, <2>1, <2>3, <2>4, CancelRqView
<1>10. ASSUME NEW c \in Clients, CancelWrite(c) PROVE Goal
  <2>1. \A k \in Jobs : Same(k)
    BY <1>10, Unseen
  <2> QED
    BY <2>1, AllSame
<1>11. ASSUME NEW c \in Clients, BeginSync(c) PROVE Goal
  <2>1. \A k \in Jobs : Same(k)
    BY <1>11, Unseen
  <2> QED
    BY <2>1, AllSame
<1>12. ASSUME NEW w \in Workers, NEW j \in Jobs, Dequeue(w, j) PROVE Goal
  <2>1. j \in Jobs
    OBVIOUS
  <2>2. \A k \in Jobs : k # j => Same(k)
    BY <1>12, <2>1, Unseen
  <2>3. Contract!Start(j)
    BY <1>12, <2>2, DequeueView, SeenIsMove DEF Contract!Start
  <2> QED
    BY <2>3 DEF Contract!Next
<1>13. ASSUME NEW w \in Workers, ResolveFails(w) PROVE Goal
  <2>1. PICK j \in Jobs : j = held[w]
    BY <1>13 DEF ResolveFails, TokenInv, HeldJob, Threads
  <2>2. \A k \in Jobs : k # j => Same(k)
    BY <1>13, <2>1, Unseen
  <2>3. Contract!Move(j, "executing", "dropped")
    BY <1>13, <2>1, <2>2, ResolveFailsView, SeenIsMove
  <2>4. Contract!Drop(j)
    BY <2>3 DEF Contract!Drop
  <2> QED
    BY <2>4 DEF Contract!Next
<1>14. ASSUME NEW w \in Workers, Begin(w) PROVE Goal
  <2>1. \A k \in Jobs : Same(k)
    BY <1>14, Unseen
  <2> QED
    BY <2>1, AllSame
<1>15. ASSUME NEW w \in Workers, Count(w) PROVE Goal
  <2>1. \A k \in Jobs : Same(k)
    BY <1>15, Unseen
  <2> QED
    BY <2>1, AllSame
<1>16. ASSUME NEW t \in Threads, Call(t) PROVE Goal
  <2>1. PICK j \in Jobs : j = held[t]
    BY <1>16 DEF Call, TokenInv, HeldJob, Threads
  <2>2. \A k \in Jobs : k # j => Same(k)
    BY <1>16, <2>1, Unseen
  <2>3. PICK to \in Outcome : Seen(j, "executing", to)
    BY <1>16, <2>1, CallView
  <2>4. Contract!Return(j)
    BY <2>2, <2>3, SeenIsMove DEF Contract!Return, Contract!Outcome, Outcome
  <2> QED
    BY <2>4 DEF Contract!Next
<1>17. ASSUME NEW t \in Threads, Finish(t) PROVE Goal
  <2>1. \A k \in Jobs : Same(k)
    BY <1>17, Unseen
  <2> QED
    BY <2>1, AllSame
<1>18. ASSUME NEW t \in Threads, Record(t) PROVE Goal
  <2>1. \A k \in Jobs : Same(k)
    BY <1>18, Unseen
  <2> QED
    BY <2>1, AllSame
<1>19. ASSUME NEW t \in Threads, Crash(t) PROVE Goal
  <2>1. PICK j \in Jobs : j = held[t]
    BY <1>19 DEF Crash, TokenInv, HeldJob, Threads
  <2>2. \A k \in Jobs : k # j => Same(k)
    BY <1>19, <2>1, Unseen
  <2>3. CASE Same(j)
    BY <2>2, <2>3, AllSame
  <2>4. CASE \E from \in {"waiting", "executing"} : Seen(j, from, "dropped")
    <3>1. Contract!Drop(j)
      BY <2>2, <2>4, SeenIsMove DEF Contract!Drop
    <3> QED
      BY <3>1 DEF Contract!Next
  <2> QED
    BY <1>19, <2>1, <2>3, <2>4, CrashView
<1>20. CASE UNCHANGED vars
  <2>1. \A k \in Jobs : Same(k)
    BY <1>20 DEF vars, rows, local, aux, Same, Running, Waiting, Holds
  <2> QED
    BY <2>1, AllSame
<1> QED
  BY <1>1, <1>2, <1>3, <1>4, <1>5, <1>6, <1>7, <1>8, <1>9, <1>10, <1>11, <1>12, <1>13, <1>14, <1>15, <1>16, <1>17, <1>18, <1>19, <1>20
  DEF Next, ClientStep, WorkerStep, Run, Threads

(* jobs.py implements the at-most-once execution contract. *)
THEOREM Refinement == Spec => ImplementsContract
<1>1. Init => Contract!Init
  <2> SUFFICES ASSUME Init, NEW j \in Jobs PROVE Exec(j) = "none"
    BY DEF Contract!Init, ExecView
  <2> QED
    BY DEF Init, Exec, Running, Waiting, Holds, PreCall
<1>2. TypeOK /\ TypeOK' /\ TokenInv /\ [Next]_vars => [Contract!Next]_ExecView
  BY ContractStep
<1> QED
  BY <1>1, <1>2, TokenInvariant, PTL DEF Spec, Contract!Spec, ImplementsContract

(* What a step leaves as it was of a job at rest, and that it stays so. *)
Rested(k) ==
  /\ Settled(k)'
  /\ status'[k] = status[k] /\ attempts'[k] = attempts[k]
  /\ rqid'[k] = rqid[k] /\ hist'[k] = hist[k] /\ calls'[k] = calls[k]

(* No step takes up a job at rest: every action that could is guarded by a  *)
(* status that is not terminal, by the Redis entry or by a thread that      *)
(* holds the job.                                                           *)
LEMMA RestStep ==
  ASSUME TypeOK, HeldJob, [Next]_vars, NEW k \in Jobs, Settled(k)
  PROVE  Rested(k)
<1> USE ConstantsAssumption DEF Threads, TypeOK, HeldJob
<1> DEFINE Away(t) == held[t] = k => at[t] \in {"idle", "retrying"}
<1>a. /\ status[k] \in Terminal /\ k \notin rq
      /\ \A u \in Threads : Away(u)
  BY DEF Settled, Busy, Holds, Location
<1>b. ASSUME status'[k] \in Terminal, k \notin rq', \A u \in Threads : Away(u)'
      PROVE  Settled(k)'
  BY <1>b DEF Settled, Busy, Holds, PreCall, PostCall, ClientAt
<1>c. status[k] \notin {"absent", "queued", "running"}
  BY <1>a DEF Terminal, Outcome
<1> USE DEF rows, local, aux, Goto, Take, Release, SetStatus, PreCall, PostCall
<1> USE DEF Rested
<1>1. ASSUME NEW c \in Clients, NEW j \in Jobs, Create(c, j) PROVE Rested(k)
  <2>1. PICK st \in {"queued", "running"}, l \in {"created", "ready"} :
          SetStatus(j, st) /\ Take(c, l, j)
    BY <1>1 DEF Create
  <2>2. j # k /\ UNCHANGED <<rq, calls>>
    BY <1>1, <1>c DEF Create
  <2>3. \A u \in Threads : Away(u)'
    BY <1>a, <2>1, <2>2
  <2> QED
    BY <1>a, <1>b, <2>1, <2>2, <2>3
<1>2. ASSUME NEW c \in Clients, NEW j \in Jobs, CancelRead(c, j) PROVE Rested(k)
  <2>1. \A u \in Threads : Away(u)'
    BY <1>a, <1>c, <1>2 DEF CancelRead
  <2>2. k \notin rq'
    BY <1>a, <1>2 DEF CancelRead
  <2> QED
    BY <1>a, <1>b, <1>c, <1>2, <2>1, <2>2 DEF CancelRead
<1>3. ASSUME NEW c \in Clients, NEW j \in Jobs, RetryRead(c, j) PROVE Rested(k)
  <2>1. \A u \in Threads : Away(u)'
    BY <1>a, <1>c, <1>3 DEF RetryRead
  <2>2. k \notin rq'
    BY <1>a, <1>3 DEF RetryRead
  <2> QED
    BY <1>a, <1>b, <1>c, <1>3, <2>1, <2>2 DEF RetryRead
<1>4. ASSUME NEW c \in Clients, Push(c) PROVE Rested(k)
  <2>1. \A u \in Threads : Away(u)'
    BY <1>a, <1>c, <1>4 DEF Push
  <2>2. k \notin rq'
    BY <1>a, <1>4 DEF Push
  <2> QED
    BY <1>a, <1>b, <1>c, <1>4, <2>1, <2>2 DEF Push
<1>5. ASSUME NEW c \in Clients, PushFails(c) PROVE Rested(k)
  <2>1. \A u \in Threads : Away(u)'
    BY <1>a, <1>c, <1>5 DEF PushFails
  <2>2. k \notin rq'
    BY <1>a, <1>5 DEF PushFails
  <2> QED
    BY <1>a, <1>b, <1>c, <1>5, <2>1, <2>2 DEF PushFails
<1>6. ASSUME NEW c \in Clients, StoreRqId(c) PROVE Rested(k)
  <2>1. \A u \in Threads : Away(u)'
    BY <1>a, <1>c, <1>6 DEF StoreRqId
  <2>2. k \notin rq'
    BY <1>a, <1>6 DEF StoreRqId
  <2> QED
    BY <1>a, <1>b, <1>c, <1>6, <2>1, <2>2 DEF StoreRqId
<1>7. ASSUME NEW c \in Clients, StoreRqIdFails(c) PROVE Rested(k)
  <2>1. \A u \in Threads : Away(u)'
    BY <1>a, <1>c, <1>7 DEF StoreRqIdFails
  <2>2. k \notin rq'
    BY <1>a, <1>7 DEF StoreRqIdFails
  <2> QED
    BY <1>a, <1>b, <1>c, <1>7, <2>1, <2>2 DEF StoreRqIdFails
<1>8. ASSUME NEW c \in Clients, MarkEnqueueFailed(c) PROVE Rested(k)
  <2>1. \A u \in Threads : Away(u)'
    BY <1>a, <1>c, <1>8 DEF MarkEnqueueFailed
  <2>2. k \notin rq'
    BY <1>a, <1>8 DEF MarkEnqueueFailed
  <2> QED
    BY <1>a, <1>b, <1>c, <1>8, <2>1, <2>2 DEF MarkEnqueueFailed
<1>9. ASSUME NEW c \in Clients, CancelRq(c) PROVE Rested(k)
  <2>1. \A u \in Threads : Away(u)'
    BY <1>a, <1>c, <1>9 DEF CancelRq
  <2>2. k \notin rq'
    BY <1>a, <1>9 DEF CancelRq
  <2> QED
    BY <1>a, <1>b, <1>c, <1>9, <2>1, <2>2 DEF CancelRq
<1>10. ASSUME NEW c \in Clients, CancelWrite(c) PROVE Rested(k)
  <2>1. \A u \in Threads : Away(u)'
    BY <1>a, <1>c, <1>10 DEF CancelWrite
  <2>2. k \notin rq'
    BY <1>a, <1>10 DEF CancelWrite
  <2> QED
    BY <1>a, <1>b, <1>c, <1>10, <2>1, <2>2 DEF CancelWrite
<1>11. ASSUME NEW c \in Clients, BeginSync(c) PROVE Rested(k)
  <2>1. \A u \in Threads : Away(u)'
    BY <1>a, <1>c, <1>11 DEF BeginSync
  <2>2. k \notin rq'
    BY <1>a, <1>11 DEF BeginSync
  <2> QED
    BY <1>a, <1>b, <1>c, <1>11, <2>1, <2>2 DEF BeginSync
<1>12. ASSUME NEW w \in Workers, NEW j \in Jobs, Dequeue(w, j) PROVE Rested(k)
  <2>1. \A u \in Threads : Away(u)'
    BY <1>a, <1>c, <1>12 DEF Dequeue
  <2>2. k \notin rq'
    BY <1>a, <1>12 DEF Dequeue
  <2> QED
    BY <1>a, <1>b, <1>c, <1>12, <2>1, <2>2 DEF Dequeue
<1>13. ASSUME NEW w \in Workers, ResolveFails(w) PROVE Rested(k)
  <2>1. \A u \in Threads : Away(u)'
    BY <1>a, <1>c, <1>13 DEF ResolveFails
  <2>2. k \notin rq'
    BY <1>a, <1>13 DEF ResolveFails
  <2> QED
    BY <1>a, <1>b, <1>c, <1>13, <2>1, <2>2 DEF ResolveFails
<1>14. ASSUME NEW w \in Workers, Begin(w) PROVE Rested(k)
  <2>1. \A u \in Threads : Away(u)'
    BY <1>a, <1>c, <1>14 DEF Begin
  <2>2. k \notin rq'
    BY <1>a, <1>14 DEF Begin
  <2> QED
    BY <1>a, <1>b, <1>c, <1>14, <2>1, <2>2 DEF Begin
<1>15. ASSUME NEW w \in Workers, Count(w) PROVE Rested(k)
  <2>1. \A u \in Threads : Away(u)'
    BY <1>a, <1>c, <1>15 DEF Count
  <2>2. k \notin rq'
    BY <1>a, <1>15 DEF Count
  <2> QED
    BY <1>a, <1>b, <1>c, <1>15, <2>1, <2>2 DEF Count
<1>16. ASSUME NEW t \in Threads, Call(t) PROVE Rested(k)
  <2>1. \A u \in Threads : Away(u)'
    BY <1>a, <1>c, <1>16 DEF Call
  <2>2. k \notin rq'
    BY <1>a, <1>16 DEF Call
  <2> QED
    BY <1>a, <1>b, <1>c, <1>16, <2>1, <2>2 DEF Call
<1>17. ASSUME NEW t \in Threads, Finish(t) PROVE Rested(k)
  <2>1. \A u \in Threads : Away(u)'
    BY <1>a, <1>c, <1>17 DEF Finish
  <2>2. k \notin rq'
    BY <1>a, <1>17 DEF Finish
  <2> QED
    BY <1>a, <1>b, <1>c, <1>17, <2>1, <2>2 DEF Finish
<1>18. ASSUME NEW t \in Threads, Record(t) PROVE Rested(k)
  <2>1. \A u \in Threads : Away(u)'
    BY <1>a, <1>c, <1>18 DEF Record
  <2>2. k \notin rq'
    BY <1>a, <1>18 DEF Record
  <2> QED
    BY <1>a, <1>b, <1>c, <1>18, <2>1, <2>2 DEF Record
<1>19. ASSUME NEW t \in Threads, Crash(t) PROVE Rested(k)
  <2>1. \A u \in Threads : Away(u)'
    BY <1>a, <1>c, <1>19 DEF Crash
  <2>2. k \notin rq'
    BY <1>a, <1>19 DEF Crash
  <2> QED
    BY <1>a, <1>b, <1>c, <1>19, <2>1, <2>2 DEF Crash
<1>20. CASE UNCHANGED vars
  <2>1. \A u \in Threads : Away(u)'
    BY <1>a, <1>20 DEF vars
  <2> QED
    BY <1>a, <1>b, <1>20, <2>1 DEF vars
<1> QED
  BY <1>1, <1>2, <1>3, <1>4, <1>5, <1>6, <1>7, <1>8, <1>9, <1>10, <1>11, <1>12, <1>13, <1>14, <1>15, <1>16, <1>17, <1>18, <1>19, <1>20
  DEF Next, ClientStep, WorkerStep, Run

(* A job that has come to rest is never touched again. *)
THEOREM RestIsFinal == Spec => SettledIsFinal
<1>1. TypeOK /\ HeldJob /\ [Next]_vars =>
        [\A j \in Jobs : Settled(j) => Rested(j)]_vars
  BY RestStep
<1> QED
  BY <1>1, TypeCorrect, PTL DEF Spec, SettledIsFinal, Rested
=============================================================================
