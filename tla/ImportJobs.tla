----------------------------- MODULE ImportJobs -----------------------------
(***************************************************************************)
(* One import job, the table it fills and its trail for the rollback:      *)
(* api/v1/endpoints/importers.py, services/importers/base.py,              *)
(* csv_generic.py and salesforce_rest.py, and run_importer_commit of       *)
(* services/jobs_tasks.py.                                                 *)
(*                                                                         *)
(* A record is <<row, run>>: the row of the file it came from and the run  *)
(* that inserted it, 0 for one that a colleague had entered before.  Left  *)
(* out: mapping, coercion, per-row errors, counts.                         *)
(***************************************************************************)
EXTENDS Integers, FiniteSets

CONSTANTS
  Rows,      \* rows of the file
  Sessions,  \* requests and worker runs
  MaxRuns    \* bound: runs of the import

ImportAssumption == MaxRuns \in Nat \ {0}

VARIABLES
  status,  \* import_jobs.status
  ids,     \* import_jobs.imported_record_ids
  live,    \* the records of the target table
  own,     \* those that a colleague had entered, constant
  policy,  \* options: dedup_strategy with on_conflict, constant
  async,   \* is_async_enabled(), constant
  queue,   \* commits on the queue of background jobs
  runs,    \* runs so far
  ses,     \* what a session has loaded and written
  raced,   \* auxiliary: two sessions or commits have held the job at once
  again,   \* auxiliary: a preview has reopened a completed job
  broke    \* auxiliary: the source has failed in the middle of a run

job  == <<status, ids, live>>
site == <<own, policy, async>>
aux  == <<raced, again, broke>>
vars == <<job, site, queue, runs, ses, aux>>

Records  == Rows \X (0..MaxRuns)
Statuses == {"uploaded", "importing", "completed", "failed", "rolled_back"}
Policies == {"skip", "update", "create_duplicate"}
Rest == [at |-> "rest", st |-> "uploaded", ids |-> {}, new |-> {}, put |-> {}, todo |-> {}, run |-> 0]

Init ==
  /\ status = "uploaded" /\ ids = {}
  /\ own \in SUBSET (Rows \X {0}) /\ live = own
  /\ policy \in Policies /\ async \in BOOLEAN
  /\ queue = 0 /\ runs = 0 /\ ses = [c \in Sessions |-> Rest]
  /\ raced = FALSE /\ again = FALSE /\ broke = FALSE

Busy == queue > 0 \/ \E c \in Sessions : ses[c] # Rest

(* The request of a synchronous commit has flushed "importing" and keeps    *)
(* the row of the job locked until its own commit.                          *)
Unlocked == \A c \in Sessions : async \/ ses[c].at # "importing"

CommittableUnlessRolledBack == status # "rolled_back"
Committable == status \notin {"completed", "rolled_back"}

Close(c) == ses' = [ses EXCEPT ![c] = Rest]

-----------------------------------------------------------------------------
(* commit_job                                                              *)

(* With Redis the commit is put on the queue. *)
Accept ==
  /\ async /\ Committable /\ queue + runs < MaxRuns
  /\ queue' = queue + 1 /\ raced' = (raced \/ Busy)
  /\ UNCHANGED <<job, site, runs, ses, again, broke>>

Load(c) ==
  /\ runs < MaxRuns /\ runs' = runs + 1
  /\ ses' = [ses EXCEPT ![c] = [Rest EXCEPT !.at = "loaded", !.ids = ids,
                                            !.todo = Rows, !.run = runs + 1]]

(* Without, the request imports by itself ... *)
CommitInline(c) ==
  /\ ses[c] = Rest /\ ~async /\ Committable
  /\ Load(c) /\ raced' = (raced \/ Busy)
  /\ UNCHANGED <<job, site, queue, again, broke>>

(* ... and with it a worker does, whatever the status is by then. *)
WorkerRun(c) ==
  /\ ses[c] = Rest /\ queue > 0 /\ queue' = queue - 1
  /\ Load(c) /\ raced' = (raced \/ queue > 1 \/ \E s \in Sessions : ses[s] # Rest)
  /\ UNCHANGED <<job, site, again, broke>>

(* "importing" is flushed, and by a worker also committed. *)
Begin(c) ==
  /\ ses[c].at = "loaded" /\ Unlocked
  /\ ses' = [ses EXCEPT ![c].at = "importing"]
  /\ status' = IF async THEN "importing" ELSE status
  /\ UNCHANGED <<ids, live, site, queue, runs, aux>>

Importing(c, k) == ses[c].at = "importing" /\ k \in ses[c].todo

Insert(c, k) ==
  LET s == ses[c]
  IN [s EXCEPT !.todo = @ \ {k}, !.put = @ \cup {<<k, s.run>>}, !.new = @ \cup {<<k, s.run>>}]

(* import_rows: a row of the file is skipped or put on the record that      *)
(* _find_existing returns, whose id is recorded too, or inserted.           *)
ImportRow(c, k) ==
  /\ Importing(c, k)
  /\ LET found == {r \in live : r[1] = k}
     IN ses' = [ses EXCEPT ![c] =
          IF policy = "create_duplicate" \/ found = {} THEN Insert(c, k)
          ELSE [ses[c] EXCEPT !.todo = @ \ {k},
                              !.new = @ \cup IF policy = "skip" THEN {}
                                             ELSE {CHOOSE r \in found : TRUE}]]
  /\ UNCHANGED <<job, site, queue, runs, aux>>

(* A row that misses a required field is counted as failed. *)
SkipRow(c, k) ==
  /\ Importing(c, k)
  /\ ses' = [ses EXCEPT ![c].todo = @ \ {k}]
  /\ UNCHANGED <<job, site, queue, runs, aux>>

(* Records, trail and status are one commit. *)
Complete(c) ==
  /\ ses[c].at = "importing" /\ ses[c].todo = {}
  /\ live' = live \cup ses[c].put
  /\ ids' = ses[c].ids \cup ses[c].new
  /\ status' = "completed" /\ Close(c)
  /\ UNCHANGED <<site, queue, runs, aux>>

(* A task that raised may be run again. *)
Retry ==
  \/ queue' = queue
  \/ async /\ queue + runs < MaxRuns /\ queue' = queue + 1

(* The source raises between two rows (a refused token, a broken file):     *)
(* the status and the rows so far are committed, the trail is not.          *)
Break(c) ==
  /\ ses[c].at = "importing"
  /\ live' = live \cup ses[c].put
  /\ status' = "failed" /\ broke' = TRUE /\ Close(c) /\ Retry
  /\ UNCHANGED <<ids, site, runs, raced, again>>

(* The file is missing. *)
Missing(c) ==
  /\ ses[c].at = "importing" /\ ses[c].todo = Rows
  /\ status' = "failed" /\ Close(c)
  /\ UNCHANGED <<ids, live, site, queue, runs, aux>>

(* A crash; or a flush fails, and the session refuses everything after it.  *)
Lose(c) ==
  /\ ses[c].at \in {"loaded", "importing"}
  /\ Close(c) /\ Retry
  /\ UNCHANGED <<job, site, runs, aux>>

-----------------------------------------------------------------------------
(* rollback_job, validate_job, preview_job                                 *)

Hold(c, what) ==
  /\ ses[c] = Rest
  /\ ses' = [ses EXCEPT ![c] = [Rest EXCEPT !.at = what, !.st = status, !.ids = ids]]
  /\ raced' = (raced \/ Busy)
  /\ UNCHANGED <<job, site, queue, runs, again, broke>>

(* Without a trail rollback returns at once. *)
LoadRollback(c) == status # "rolled_back" /\ ids # {} /\ Hold(c, "rolling back")

Rollback(c) ==
  /\ ses[c].at = "rolling back" /\ Unlocked
  /\ live' = live \ ses[c].ids
  /\ ids' = {} /\ status' = "rolled_back" /\ Close(c)
  /\ UNCHANGED <<site, queue, runs, aux>>

LoadValidate(c) == Hold(c, "validating")

(* Puts back the status it has loaded. *)
Validate(c) ==
  /\ ses[c].at = "validating" /\ Unlocked
  /\ status' = ses[c].st /\ Close(c)
  /\ UNCHANGED <<ids, live, site, queue, runs, aux>>

(* Puts "uploaded", whatever the status was. *)
Preview ==
  /\ Unlocked
  /\ status' = "uploaded" /\ again' = (again \/ status = "completed")
  /\ UNCHANGED <<ids, live, site, queue, runs, ses, raced, broke>>

Next ==
  \/ Accept \/ Preview
  \/ \E c \in Sessions :
       \/ CommitInline(c) \/ WorkerRun(c) \/ Begin(c) \/ Complete(c)
       \/ Break(c) \/ Missing(c) \/ Lose(c)
       \/ LoadRollback(c) \/ Rollback(c) \/ LoadValidate(c) \/ Validate(c)
       \/ \E k \in Rows : ImportRow(c, k) \/ SkipRow(c, k)

Spec == Init /\ [][Next]_vars

-----------------------------------------------------------------------------
(* The job, the table and every session have their type. *)
TypeOK ==
  /\ status \in Statuses /\ ids \subseteq Records /\ live \subseteq Records
  /\ own \subseteq Rows \X {0} /\ policy \in Policies /\ async \in BOOLEAN
  /\ queue \in 0..MaxRuns /\ runs \in 0..MaxRuns
  /\ ses \in [Sessions -> [at : {"rest", "loaded", "importing", "rolling back", "validating"},
                           st : Statuses, ids : SUBSET Records, new : SUBSET Records,
                           put : SUBSET Records, todo : SUBSET Rows, run : 0..MaxRuns]]
  /\ raced \in BOOLEAN /\ again \in BOOLEAN /\ broke \in BOOLEAN

(* A row of the file is in the table at most once, and where the job's      *)
(* rollback finds it, unless two sessions or two accepted commits held the  *)
(* job at once, a preview reopened it, or a source broke off under a run.   *)
RowsOnce ==
  raced \/ again \/ broke \/
    \A k \in Rows :
      LET made == {r \in live : r[1] = k /\ r[2] # 0}
      IN Cardinality(made) <= 1 /\ made \subseteq ids

(* services/importers/base.py:15: rollback deletes "exactly the rows it     *)
(* created (no collateral damage)".  It also deletes what a colleague had   *)
(* entered before, when the import updated it.                              *)
NoCollateral == own \subseteq live
=============================================================================
