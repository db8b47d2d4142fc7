---------------------------- MODULE KnowledgeIngest ----------------------------
(***************************************************************************)
(* The documents of a knowledge base, the replicas that ingest them and    *)
(* the lock that elects one of the replicas: services/knowledge.py,        *)
(* ingest_worker.py and housekeeping.py, with the upload, delete and       *)
(* reindex endpoints of api/v1/endpoints/knowledge.py.                     *)
(*                                                                         *)
(* A session keeps what it has loaded until a rollback, and writes only    *)
(* the columns that differ from it.  Left out: the blob, the text and the  *)
(* vectors, deletion of a whole knowledge base.                            *)
(***************************************************************************)
EXTENDS Integers, FiniteSets

CONSTANTS
  Docs,       \* documents
  Replicas,   \* server processes with a scheduler
  Clients,    \* requests that reindex
  Chunks,     \* sets of chunks of a document; bound: as many as coexist
  MaxFaults,  \* bound: crashes, lost locks and errors that cannot be marked
  None

ASSUME KnowledgeAssumption ==
  MaxFaults \in Nat /\ None \notin Docs \cup Replicas

VARIABLES
  status,  \* the knowledge_documents rows
  chunks,  \* their knowledge_chunks, by the run that stored them
  lock,    \* the replica whose session holds the advisory lock
  sched,   \* _scheduler of a replica is running
  work,    \* the ingest tick of a replica
  req,     \* a reindex request
  faults,  \* auxiliary: the faults so far
  raced,   \* auxiliary: documents that two sessions have held at once
  left     \* auxiliary: documents left in the middle by a crash or such an error

rows == <<status, chunks>>
lead == <<lock, sched>>
aux  == <<faults, raced, left>>
vars == <<rows, lead, work, req, aux>>

Statuses == {"none", "queued", "parsing", "embedding", "ready", "failed", "gone"}
Rest  == [at |-> "rest", todo |-> {}, doc |-> None, fresh |-> FALSE]
Quiet == [at |-> "rest", held |-> [d \in Docs |-> "none"], doc |-> None, sel |-> {}]

Init ==
  /\ status = [d \in Docs |-> "none"]
  /\ chunks = [d \in Docs |-> {}]
  /\ lock = None
  /\ sched = [r \in Replicas |-> FALSE]
  /\ work = [r \in Replicas |-> Rest]
  /\ req = [c \in Clients |-> Quiet]
  /\ faults = 0 /\ raced = {} /\ left = {}

Exists(d) == status[d] \notin {"none", "gone"}

(* What a tick or a request has loaded and may still write. *)
Ticking(r)    == work[r].todo \cup ({work[r].doc} \ {None})
Reindexing(c) == {d \in Docs : req[c].held[d] # "none"}
Taken == {d \in Docs : \/ \E r \in Replicas : d \in Ticking(r)
                       \/ \E c \in Clients : d \in Reindexing(c)}

-----------------------------------------------------------------------------
(* housekeeping.py: one replica schedules                                  *)

Fault == faults < MaxFaults /\ faults' = faults + 1

(* start_scheduler with pg_try_advisory_lock: the lock is free. *)
Start(r) ==
  /\ ~sched[r] /\ work[r] = Rest /\ lock = None
  /\ lock' = r /\ sched' = [sched EXCEPT ![r] = TRUE]
  /\ UNCHANGED <<rows, work, req, aux>>

(* The query fails: "running unconditionally". *)
StartUnlocked(r) ==
  /\ ~sched[r] /\ work[r] = Rest /\ Fault
  /\ sched' = [sched EXCEPT ![r] = TRUE]
  /\ UNCHANGED <<rows, lock, work, req, raced, left>>

(* The connection of the lock's session is dropped; nobody notices. *)
LoseLock ==
  /\ lock # None /\ Fault
  /\ lock' = None
  /\ UNCHANGED <<rows, sched, work, req, raced, left>>

Release(r) ==
  /\ sched' = [sched EXCEPT ![r] = FALSE]
  /\ lock' = IF lock = r THEN None ELSE lock

(* stop_scheduler: shutdown(wait=False) leaves a tick that is running. *)
Stop(r) ==
  /\ sched[r] /\ Release(r)
  /\ UNCHANGED <<rows, work, req, aux>>

Crash(r) ==
  /\ sched[r] \/ work[r] # Rest
  /\ Fault /\ Release(r)
  /\ work' = [work EXCEPT ![r] = Rest]
  /\ left' = left \cup {d \in Docs : d = work[r].doc /\ Exists(d)}
  /\ UNCHANGED <<rows, req, raced>>

-----------------------------------------------------------------------------
(* ingest_worker.tick -> process_pending -> process_document               *)

(* The queued documents are loaded once. *)
Tick(r) ==
  /\ sched[r] /\ work[r] = Rest
  /\ LET S == {d \in Docs : status[d] = "queued"}
     IN /\ S # {}
        /\ work' = [work EXCEPT ![r].todo = S]
        /\ raced' = raced \cup (S \cap Taken)
  /\ UNCHANGED <<rows, lead, req, faults, left>>

SetStatus(d, s) == status' = [status EXCEPT ![d] = s]

(* On to the next of the documents that were loaded; after a rollback they  *)
(* are read again.                                                          *)
Leave(r, todo, fresh) ==
  work' = [work EXCEPT ![r] = IF todo = {} THEN Rest
                              ELSE [Rest EXCEPT !.todo = todo, !.fresh = fresh]]

Commit(r, d, s, todo) ==
  /\ Exists(d)
  /\ SetStatus(d, s)
  /\ work' = [work EXCEPT ![r].at = s, ![r].doc = d, ![r].todo = todo]

(* The next document; as loaded it was queued. *)
Parse(r, d) ==
  /\ work[r].at = "rest" /\ d \in work[r].todo
  /\ work[r].fresh => status[d] \in {"queued", "failed"}
  /\ Commit(r, d, "parsing", work[r].todo \ {d})
  /\ UNCHANGED <<chunks, lead, req, aux>>

(* It is read again and no longer queued, or it is gone: found by the       *)
(* update, which is rolled back, or by a fresh read, which ends the tick.   *)
Skip(r, d) ==
  /\ work[r].at = "rest" /\ d \in work[r].todo
  /\ \/ /\ work[r].fresh /\ Exists(d) /\ status[d] \notin {"queued", "failed"}
        /\ Leave(r, work[r].todo \ {d}, TRUE)
     \/ ~Exists(d) /\ Leave(r, IF work[r].fresh THEN {} ELSE work[r].todo \ {d}, TRUE)
  /\ UNCHANGED <<rows, lead, req, aux>>

Embed(r) ==
  /\ work[r].at = "parsing"
  /\ Commit(r, work[r].doc, "embedding", work[r].todo)
  /\ UNCHANGED <<chunks, lead, req, aux>>

(* Sets of chunks that the document does not have and nobody has seen.      *)
New(d) == Chunks \ (chunks[d] \cup UNION {req[c].sel : c \in Clients})

(* The chunks and "ready" are one commit. *)
Store(r) ==
  /\ work[r].at = "embedding" /\ Exists(work[r].doc)
  /\ LET d == work[r].doc
     IN /\ \E n \in New(d) : chunks' = [chunks EXCEPT ![d] = @ \cup {n}]
        /\ SetStatus(d, "ready")
  /\ Leave(r, work[r].todo, work[r].fresh)
  /\ UNCHANGED <<lead, req, faults, raced, left>>

(* The document that a tick is at: in work, or about to be. *)
IsAt(r, d) == d = work[r].doc \/ (work[r].at = "rest" /\ d \in work[r].todo)

(* Any error, of the first commit too or that the row is gone: rolled back  *)
(* and marked.                                                              *)
Fail(r, d) ==
  /\ IsAt(r, d)
  /\ work[r].at = "rest" /\ work[r].fresh => status[d] \in {"queued", "failed"}
  /\ IF Exists(d) THEN SetStatus(d, "failed") ELSE UNCHANGED status
  /\ Leave(r, work[r].todo \ {d}, TRUE)
  /\ UNCHANGED <<chunks, lead, req, aux>>

(* The mark fails too, which is swallowed: the row stays as it is.  The     *)
(* next read, like any read outside the try, may then end the tick.         *)
FailUnmarked(r, d) ==
  /\ IsAt(r, d) /\ Fault
  /\ left' = left \cup {e \in {d} : d = work[r].doc /\ Exists(d)}
  /\ \E todo \in {{}, work[r].todo \ {d}} : Leave(r, todo, TRUE)
  /\ UNCHANGED <<rows, lead, req, raced>>

-----------------------------------------------------------------------------
(* The endpoints                                                           *)

Upload(d) ==
  /\ status[d] = "none"
  /\ SetStatus(d, "queued")
  /\ UNCHANGED <<chunks, lead, work, req, aux>>

Delete(d) ==
  /\ Exists(d)
  /\ SetStatus(d, "gone")
  /\ chunks' = [chunks EXCEPT ![d] = {}]
  /\ raced' = raced \ {d} /\ left' = left \ {d}
  /\ UNCHANGED <<lead, work, req, faults>>

Loaded(d, S) == IF d \notin S THEN "none" ELSE IF status[d] = "queued" THEN "queued" ELSE "other"

(* reindex_document loads one document, reindex_kb all of them. *)
Reindex(c, S) ==
  /\ req[c] = Quiet /\ S # {} /\ \A d \in S : Exists(d)
  /\ req' = [req EXCEPT ![c].held = [d \in Docs |-> Loaded(d, S)]]
  /\ raced' = raced \cup (S \cap Taken)
  /\ UNCHANGED <<rows, lead, work, faults, left>>

(* requeue_document: its DELETE finds the chunks there are now ... *)
DropChunks(c, d) ==
  /\ req[c].at = "rest" /\ d \in Reindexing(c)
  /\ req' = [req EXCEPT ![c].at = "dropped", ![c].doc = d, ![c].sel = chunks[d]]
  /\ UNCHANGED <<rows, lead, work, aux>>

Again(c, d) == req' = [req EXCEPT ![c] = [Quiet EXCEPT !.held = [req[c].held EXCEPT ![d] = "none"]]]

(* A mutant: the chunks that were found stay.                               *)
RequeueKeepsChunks(c) ==
  /\ req[c].at = "dropped"
  /\ LET d == req[c].doc
     IN /\ Exists(d) /\ SetStatus(d, "queued") /\ Again(c, d)
        /\ left' = left \ {d}
  /\ UNCHANGED <<chunks, lead, work, faults, raced>>

(* ... and the commit queues the document, unless it was loaded as queued. *)
Requeue(c) ==
  /\ req[c].at = "dropped"
  /\ LET d == req[c].doc
     IN /\ IF req[c].held[d] = "queued" THEN UNCHANGED status
           ELSE Exists(d) /\ SetStatus(d, "queued")
        /\ chunks' = [chunks EXCEPT ![d] = @ \ req[c].sel]
        /\ left' = left \ {d} /\ Again(c, d)
  /\ UNCHANGED <<lead, work, faults, raced>>

(* An error, also that the document is gone, ends the request. *)
Abandon(c) ==
  /\ req[c] # Quiet
  /\ req' = [req EXCEPT ![c] = Quiet]
  /\ UNCHANGED <<rows, lead, work, aux>>

TickStep(r) == \/ \E d \in Docs : Parse(r, d) \/ Skip(r, d) \/ Fail(r, d) \/ FailUnmarked(r, d)
               \/ Embed(r) \/ Store(r)

Next ==
  \/ \E r \in Replicas : \/ Start(r) \/ StartUnlocked(r) \/ Stop(r) \/ Crash(r)
                         \/ Tick(r) \/ TickStep(r)
  \/ LoseLock
  \/ \E d \in Docs : Upload(d) \/ Delete(d) \/ \E c \in Clients : DropChunks(c, d)
  \/ \E c \in Clients : Requeue(c) \/ Abandon(c) \/ \E S \in SUBSET Docs : Reindex(c, S)

Spec == Init /\ [][Next]_vars

-----------------------------------------------------------------------------
(* Every row, tick and request has its type. *)
TypeOK ==
  /\ status \in [Docs -> Statuses]
  /\ chunks \in [Docs -> SUBSET Chunks]
  /\ lock \in Replicas \cup {None}
  /\ sched \in [Replicas -> BOOLEAN]
  /\ work \in [Replicas -> [at : {"rest", "parsing", "embedding"}, todo : SUBSET Docs,
                            doc : Docs \cup {None}, fresh : BOOLEAN]]
  /\ req \in [Clients -> [at : {"rest", "dropped"}, held : [Docs -> {"none", "queued", "other"}],
                          doc : Docs \cup {None}, sel : SUBSET Chunks]]
  /\ faults \in 0..MaxFaults /\ raced \subseteq Docs /\ left \subseteq Docs

(* What a document shows is true as long as no two sessions have held it at *)
(* once: a ready one has its chunks, once; another has none and is found by *)
(* no search; and one that shows as being ingested is, unless a crash or an *)
(* error that could not be marked left it in the middle.                    *)
StatusTruthful ==
  \A d \in Docs \ raced :
    /\ status[d] = "ready" => Cardinality(chunks[d]) = 1
    /\ status[d] # "ready" => chunks[d] = {}
    /\ status[d] \in {"parsing", "embedding"} =>
         \/ d \in left
         \/ \E r \in Replicas : work[r].doc = d /\ work[r].at = status[d]
=============================================================================
