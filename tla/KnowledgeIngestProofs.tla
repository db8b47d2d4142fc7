------------------------- MODULE KnowledgeIngestProofs -------------------------
(***************************************************************************)
(* Theorems about KnowledgeIngest, for any documents, replicas, requests   *)
(* and sets of chunks, and any number of faults.                           *)
(*                                                                         *)
(* StatusTruthful is not inductive: it does not say that what a tick or a  *)
(* request has loaded of a document is still so when it writes.  That      *)
(* holds (Faithful) because nobody else holds the document (Alone).        *)
(***************************************************************************)
EXTENDS KnowledgeIngest, FiniteSetTheorems, TLAPS

Works    == [at : {"rest", "parsing", "embedding"}, todo : SUBSET Docs,
             doc : Docs \cup {None}, fresh : BOOLEAN]
Requests == [at : {"rest", "dropped"}, held : [Docs -> {"none", "queued", "other"}],
             doc : Docs \cup {None}, sel : SUBSET Chunks]

Ticks(r, d)    == d \in work[r].todo \/ work[r].doc = d
Requeues(c, d) == req[c].held[d] # "none"

(* A tick that is at a document is parsing or embedding; a request that has *)
(* dropped the chunks of a document still holds it.                         *)
Shape ==
  /\ \A r \in Replicas : work[r].at = "rest" <=> work[r].doc = None
  /\ \A c \in Clients : req[c].at = "dropped" => req[c].doc \in Docs /\ Requeues(c, req[c].doc)

(* A document that is not there has no chunks, and before it is uploaded    *)
(* nobody holds it.                                                         *)
Absent ==
  \A d \in Docs :
    /\ ~Exists(d) => chunks[d] = {}
    /\ status[d] = "none" => (\A r \in Replicas : ~Ticks(r, d)) /\ \A c \in Clients : ~Requeues(c, d)

Clear(d) == d \notin raced /\ Exists(d)

(* A document that has not been raced for has one holder at most. *)
Alone ==
  \A d \in Docs : Clear(d) =>
    /\ \A r, s \in Replicas : Ticks(r, d) /\ Ticks(s, d) => r = s
    /\ \A c, e \in Clients : Requeues(c, d) /\ Requeues(e, d) => c = e
    /\ \A r \in Replicas, c \in Clients : ~(Ticks(r, d) /\ Requeues(c, d))

(* What its holder knows of it is so. *)
Faithful ==
  \A d \in Docs : Clear(d) =>
    /\ \A r \in Replicas : d \in work[r].todo => status[d] = "queued"
    /\ \A r \in Replicas : work[r].doc = d => work[r].at = status[d]
    /\ \A c \in Clients : req[c].held[d] = "queued" => status[d] = "queued"
    /\ \A c \in Clients : req[c].at = "dropped" /\ req[c].doc = d => req[c].sel = chunks[d]

IInv == TypeOK /\ Shape /\ Absent /\ Alone /\ Faithful /\ StatusTruthful

-----------------------------------------------------------------------------
LEMMA TakenIs ==
  ASSUME KnowledgeAssumption, NEW d \in Docs
  PROVE  d \in Taken <=> (\E r \in Replicas : Ticks(r, d)) \/ \E c \in Clients : Requeues(c, d)
<1>1. \A r : d \in Ticking(r) <=> Ticks(r, d)
  BY DEF Ticking, Ticks, KnowledgeAssumption
<1>2. \A c : d \in Reindexing(c) <=> Requeues(c, d)
  BY DEF Reindexing, Requeues
<1> QED BY <1>1, <1>2 DEF Taken

LEMMA Types ==
  /\ TypeOK <=> /\ status \in [Docs -> Statuses]
                /\ chunks \in [Docs -> SUBSET Chunks]
                /\ lock \in Replicas \cup {None}
                /\ sched \in [Replicas -> BOOLEAN]
                /\ work \in [Replicas -> Works]
                /\ req \in [Clients -> Requests]
                /\ faults \in 0..MaxFaults /\ raced \subseteq Docs /\ left \subseteq Docs
  /\ Rest \in Works /\ Quiet \in Requests
  BY DEF TypeOK, Works, Requests, Rest, Quiet

LEMMA InitInv == ASSUME KnowledgeAssumption PROVE Init => IInv
<1> SUFFICES ASSUME Init PROVE IInv
  OBVIOUS
<1>1. TypeOK
  BY Types DEF Init, KnowledgeAssumption, Statuses
<1>2. Shape /\ Absent
  BY DEF Init, Shape, Absent, Rest, Quiet, Exists, Ticks, Requeues, KnowledgeAssumption
<1>3. Alone /\ Faithful /\ StatusTruthful
  BY DEF Init, Alone, Faithful, StatusTruthful, Clear, Exists
<1> QED BY <1>1, <1>2, <1>3 DEF IInv

(* What Cardinality has to do with it. *)
LEMMA OneChunk == \A n : Cardinality({} \cup {n}) = 1
  BY FS_Singleton

(* Steps of the schedulers and of the lock move no document. *)
LEMMA LeadMoves ==
  ASSUME IInv, UNCHANGED <<rows, work, req, raced>>, left \subseteq left', TypeOK' PROVE IInv'
<1>1. Shape' /\ Absent'
  BY DEF rows, IInv, Shape, Absent, Ticks, Requeues, Exists
<1>2. Alone' /\ Faithful'
  BY DEF rows, IInv, Alone, Faithful, Ticks, Requeues, Exists, Clear
<1>3. StatusTruthful'
  BY DEF rows, IInv, StatusTruthful
<1> QED BY <1>1, <1>2, <1>3 DEF IInv

(* A tick or a request lets go of documents: nothing else changes, but a    *)
(* tick that was at a document counts it as left in the middle.             *)
LEMMA LetsGo ==
  ASSUME KnowledgeAssumption, IInv, UNCHANGED <<rows, raced>>, left \subseteq left', TypeOK',
         \A r \in Replicas : \/ /\ work'[r].todo \subseteq work[r].todo
                                /\ work'[r].doc = work[r].doc /\ work'[r].at = work[r].at
                             \/ /\ work'[r].todo \subseteq work[r].todo
                                /\ work'[r].doc = None /\ work'[r].at = "rest"
                                /\ work[r].doc # None /\ Exists(work[r].doc) => work[r].doc \in left',
         \A c \in Clients : req'[c] \in {req[c], Quiet}
  PROVE  IInv'
<1>1. Shape'
  BY DEF IInv, Shape, Requeues, Quiet
<1>2. \A d \in Docs, r \in Replicas : Ticks(r, d)' => Ticks(r, d)
  BY DEF Ticks, KnowledgeAssumption
<1>3. \A d \in Docs, c \in Clients : Requeues(c, d)' => Requeues(c, d)
  BY DEF Requeues, Quiet
<1>4. Absent' /\ Alone'
  BY <1>2, <1>3 DEF rows, IInv, Absent, Alone, Clear, Exists
<1>5. Faithful'
  BY DEF rows, IInv, Faithful, Clear, Exists, Quiet, KnowledgeAssumption
<1>6. StatusTruthful'
  <2> SUFFICES ASSUME NEW d \in Docs, d \notin raced, status[d] \in {"parsing", "embedding"}, d \notin left'
               PROVE  \E r \in Replicas : work'[r].doc = d /\ work'[r].at = status[d]
    BY DEF rows, IInv, StatusTruthful
  <2>1. PICK r \in Replicas : work[r].doc = d /\ work[r].at = status[d]
    BY DEF IInv, StatusTruthful
  <2>2. Exists(d) /\ d # None
    BY DEF Exists, KnowledgeAssumption
  <2> QED BY <2>1, <2>2
<1> QED BY <1>1, <1>4, <1>5, <1>6 DEF IInv

(* A document and what is held of it stay as they are, or are let go of.    *)
Keeps(e) ==
  /\ status'[e] = status[e] /\ chunks'[e] = chunks[e]
  /\ (e \in raced' <=> e \in raced) /\ (e \in left => e \in left')
  /\ \A r \in Replicas :
       /\ e \in work'[r].todo => e \in work[r].todo
       /\ work'[r].doc = e => work[r].doc = e /\ work'[r].at = work[r].at
       /\ work[r].doc = e => work'[r].doc = e
  /\ \A c \in Clients :
       /\ req'[c].held[e] = req[c].held[e]
       /\ req'[c].at = "dropped" /\ req'[c].doc = e =>
            req[c].at = "dropped" /\ req[c].doc = e /\ req'[c].sel = req[c].sel

(* The holders of the other documents, and of a document that is not there  *)
(* any more, are as they were: what is left is the document written.        *)
LEMMA WritesOne ==
  ASSUME KnowledgeAssumption, IInv, TypeOK', Shape', NEW d \in Docs,
         \A e \in Docs : e # d => Keeps(e),
         status'[d] # "none",
         Exists(d)' => Exists(d),
         Clear(d)' => Clear(d),
         ~Exists(d)' => chunks'[d] = {},
         \A r \in Replicas : Ticks(r, d)' => Ticks(r, d),
         \A c \in Clients : Requeues(c, d)' => Requeues(c, d),
         Clear(d)' => /\ \A r \in Replicas : d \in work'[r].todo => status'[d] = "queued"
                      /\ \A r \in Replicas : work'[r].doc = d => work'[r].at = status'[d]
                      /\ \A c \in Clients : req'[c].held[d] = "queued" => status'[d] = "queued"
                      /\ \A c \in Clients : req'[c].at = "dropped" /\ req'[c].doc = d => req'[c].sel = chunks'[d],
         d \notin raced' =>
           /\ status'[d] = "ready" => Cardinality(chunks'[d]) = 1
           /\ status'[d] # "ready" => chunks'[d] = {}
           /\ status'[d] \in {"parsing", "embedding"} =>
                \/ d \in left'
                \/ \E r \in Replicas : work'[r].doc = d /\ work'[r].at = status'[d]
  PROVE  IInv'
<1>1. ASSUME NEW e \in Docs PROVE
        /\ \A r \in Replicas : Ticks(r, e)' => Ticks(r, e)
        /\ \A c \in Clients : Requeues(c, e)' => Requeues(c, e)
        /\ Exists(e)' => Exists(e)
        /\ Clear(e)' => Clear(e)
        /\ e # d => status'[e] = status[e] /\ chunks'[e] = chunks[e]
  <2>1. CASE e = d
    BY <2>1
  <2>2. CASE e # d
    BY <2>2 DEF Keeps, Ticks, Requeues, Exists, Clear
  <2> QED BY <2>1, <2>2
<1>2. Absent'
  <2>1. ASSUME NEW e \in Docs, e # d PROVE
          /\ ~Exists(e)' => chunks'[e] = {}
          /\ status'[e] = "none" => (\A r \in Replicas : ~Ticks(r, e)') /\ \A c \in Clients : ~Requeues(c, e)'
    BY <1>1, <2>1 DEF IInv, Absent, Exists
  <2> QED BY <2>1 DEF Absent
<1>3. Alone'
  <2>1. \A e \in Docs : Clear(e)' => Clear(e)
    BY <1>1
  <2> QED BY <1>1, <2>1 DEF IInv, Alone
<1>4. Faithful'
  <2> SUFFICES ASSUME NEW e \in Docs, Clear(e)', e # d PROVE
        /\ \A r \in Replicas : e \in work'[r].todo => status'[e] = "queued"
        /\ \A r \in Replicas : work'[r].doc = e => work'[r].at = status'[e]
        /\ \A c \in Clients : req'[c].held[e] = "queued" => status'[e] = "queued"
        /\ \A c \in Clients : req'[c].at = "dropped" /\ req'[c].doc = e => req'[c].sel = chunks'[e]
    BY DEF Faithful
  <2>1. Clear(e)
    BY <1>1
  <2>2. /\ \A r \in Replicas : e \in work[r].todo => status[e] = "queued"
        /\ \A r \in Replicas : work[r].doc = e => work[r].at = status[e]
        /\ \A c \in Clients : req[c].held[e] = "queued" => status[e] = "queued"
        /\ \A c \in Clients : req[c].at = "dropped" /\ req[c].doc = e => req[c].sel = chunks[e]
    BY <2>1 DEF IInv, Faithful
  <2>3. Keeps(e)
    OBVIOUS
  <2> QED BY <2>2, <2>3 DEF Keeps
<1>5. StatusTruthful'
  <2> SUFFICES ASSUME NEW e \in Docs, e \notin raced', e # d PROVE
        /\ status'[e] = "ready" => Cardinality(chunks'[e]) = 1
        /\ status'[e] # "ready" => chunks'[e] = {}
        /\ status'[e] \in {"parsing", "embedding"} =>
             \/ e \in left'
             \/ \E r \in Replicas : work'[r].doc = e /\ work'[r].at = status'[e]
    BY DEF StatusTruthful
  <2>0. Keeps(e) /\ e \notin raced
    BY DEF Keeps
  <2>1. /\ status[e] = "ready" => Cardinality(chunks[e]) = 1
        /\ status[e] # "ready" => chunks[e] = {}
        /\ status[e] \in {"parsing", "embedding"} =>
             \/ e \in left
             \/ \E r \in Replicas : work[r].doc = e /\ work[r].at = status[e]
    BY <2>0 DEF IInv, StatusTruthful
  <2> QED BY <2>0, <2>1 DEF Keeps
<1> QED BY <1>2, <1>3, <1>4, <1>5 DEF IInv

LEMMA NextInv == ASSUME KnowledgeAssumption PROVE IInv /\ [Next]_vars => IInv'
<1> SUFFICES ASSUME IInv, [Next]_vars PROVE IInv'
  OBVIOUS
<1>0. /\ work \in [Replicas -> Works] /\ req \in [Clients -> Requests]
      /\ status \in [Docs -> Statuses] /\ chunks \in [Docs -> SUBSET Chunks]
      /\ Rest \in Works /\ Quiet \in Requests /\ None \notin Docs
  BY Types DEF IInv, KnowledgeAssumption
<1>1. ASSUME NEW r \in Replicas, Start(r) \/ StartUnlocked(r) \/ Stop(r) PROVE IInv'
  <2>1. UNCHANGED <<rows, work, req, raced, left>>
    BY <1>1 DEF Start, StartUnlocked, Stop, aux
  <2>2. TypeOK'
    <3>0. /\ faults \in 0..MaxFaults /\ MaxFaults \in Nat /\ lock \in Replicas \cup {None}
          /\ sched \in [Replicas -> BOOLEAN]
      BY DEF IInv, TypeOK, KnowledgeAssumption
    <3>1. CASE Start(r)
      BY <2>1, <3>0, <3>1 DEF IInv, TypeOK, Start, rows, aux
    <3>2. CASE StartUnlocked(r)
      BY <2>1, <3>0, <3>2 DEF IInv, TypeOK, StartUnlocked, Fault, rows
    <3>3. CASE Stop(r)
      BY <2>1, <3>0, <3>3 DEF IInv, TypeOK, Stop, Release, rows, aux
    <3> QED BY <1>1, <3>1, <3>2, <3>3
  <2> QED BY <2>1, <2>2, LeadMoves
<1>2. ASSUME NEW r \in Replicas, Crash(r) PROVE IInv'
  <2>1. TypeOK'
    <3>1. work' \in [Replicas -> Works]
      BY <1>0, <1>2 DEF Crash
    <3>2. faults' \in 0..MaxFaults /\ lock' \in Replicas \cup {None} /\ sched' \in [Replicas -> BOOLEAN]
      BY <1>2 DEF Crash, Fault, Release, IInv, TypeOK, KnowledgeAssumption
    <3> QED BY <1>2, <3>1, <3>2 DEF Crash, IInv, rows, TypeOK, Works
  <2>2. \A s \in Replicas : s # r => work'[s] = work[s]
    BY <1>0, <1>2 DEF Crash
  <2>3. work'[r] = Rest /\ (work[r].doc # None /\ Exists(work[r].doc) => work[r].doc \in left')
    BY <1>0, <1>2 DEF Crash, Works
  <2> QED BY <1>2, <2>1, <2>2, <2>3, LetsGo DEF Crash, Rest
<1>3. ASSUME NEW r \in Replicas, Tick(r) PROVE IInv'
  <2> DEFINE S == {d \in Docs : status[d] = "queued"}
  <2>1. /\ work[r] = Rest /\ work' = [work EXCEPT ![r].todo = S] /\ raced' = raced \cup (S \cap Taken)
        /\ UNCHANGED <<rows, lead, req, faults, left>>
    BY <1>3 DEF Tick
  <2>2. work'[r] = [Rest EXCEPT !.todo = S] /\ \A s \in Replicas : s # r => work'[s] = work[s]
    BY <1>0, <2>1
  <2>3. TypeOK'
    <3>1. [Rest EXCEPT !.todo = S] \in Works
      BY DEF Rest, Works
    <3>2. work' \in [Replicas -> Works]
      BY <1>0, <2>1, <3>1
    <3> QED BY <2>1, <3>2 DEF IInv, rows, lead, TypeOK, Works
  <2>4. \A d \in Docs : Ticks(r, d)' => d \in S
    BY <2>2 DEF Ticks, Rest, KnowledgeAssumption
  <2>5. \A d \in Docs, s \in Replicas : s # r => (Ticks(s, d)' <=> Ticks(s, d))
    BY <2>2 DEF Ticks
  <2>6. \A d \in Docs, c \in Clients : Requeues(c, d)' <=> Requeues(c, d)
    BY <2>1 DEF Requeues
  <2>7. ASSUME NEW d \in Docs, Clear(d)', d \in S
        PROVE (\A s \in Replicas : ~Ticks(s, d)) /\ \A c \in Clients : ~Requeues(c, d)
    BY <2>1, <2>7, TakenIs DEF Clear
  <2>8. \A d \in Docs : Clear(d)' => Clear(d)
    BY <2>1 DEF Clear, Exists, rows
  <2>9. Shape'
    BY <2>1, <2>2 DEF IInv, Shape, Rest, Requeues
  <2>10. Absent'
    BY <2>1, <2>4, <2>5, <2>6 DEF IInv, Absent, Exists, rows
  <2>11. Alone'
    BY <2>4, <2>5, <2>6, <2>7, <2>8 DEF IInv, Alone
  <2>12. Faithful'
    <3>1. ASSUME NEW d \in Docs, NEW s \in Replicas, Clear(d)' PROVE
            /\ d \in work'[s].todo => status'[d] = "queued"
            /\ work'[s].doc = d => work'[s].at = status'[d]
      BY <2>1, <2>2, <2>8, <3>1 DEF IInv, Faithful, Rest, rows, KnowledgeAssumption
    <3>2. ASSUME NEW d \in Docs, NEW c \in Clients, Clear(d)' PROVE
            /\ req'[c].held[d] = "queued" => status'[d] = "queued"
            /\ req'[c].at = "dropped" /\ req'[c].doc = d => req'[c].sel = chunks'[d]
      BY <2>1, <2>8, <3>2 DEF IInv, Faithful, rows
    <3> QED BY <3>1, <3>2 DEF Faithful
  <2>13. StatusTruthful'
    <3> SUFFICES ASSUME NEW d \in Docs, d \notin raced PROVE
          /\ status[d] = "ready" => Cardinality(chunks[d]) = 1
          /\ status[d] # "ready" => chunks[d] = {}
          /\ status[d] \in {"parsing", "embedding"} =>
               \/ d \in left
               \/ \E s \in Replicas : work'[s].doc = d /\ work'[s].at = status[d]
      BY <2>1 DEF StatusTruthful, rows
    <3>1. \A s \in Replicas : work'[s].doc = work[s].doc /\ work'[s].at = work[s].at
      BY <2>1, <2>2 DEF Rest
    <3> QED BY <3>1 DEF IInv, StatusTruthful
  <2> QED BY <2>3, <2>9, <2>10, <2>11, <2>12, <2>13 DEF IInv
(* A commit of a tick: the document it is at, its new status, and whether   *)
(* it goes on with it.                                                      *)
<1>4. ASSUME NEW r \in Replicas, NEW d \in Docs, NEW q \in Works, NEW st \in Statuses \ {"none", "gone"},
             work' = [work EXCEPT ![r] = q], status' = [status EXCEPT ![d] = st],
             \A e \in Docs \ {d} : chunks'[e] = chunks[e], chunks' \in [Docs -> SUBSET Chunks],
             UNCHANGED <<lead, req, aux>>, Exists(d), Ticks(r, d),
             q.todo \subseteq work[r].todo, q.doc \in {d, None}, q.at = "rest" <=> q.doc = None,
             work[r].doc \in {d, None},
             q.doc = d => q.at = st /\ st # "queued" /\ chunks' = chunks,
             st = "ready" /\ chunks[d] = {} => Cardinality(chunks'[d]) = 1,
             st # "ready" => chunks' = chunks /\ (st \in {"parsing", "embedding"} => q.doc = d),
             Clear(d) => status[d] # "ready" /\ d \notin q.todo
      PROVE IInv'
  <2>1. work'[r] = q /\ \A s \in Replicas : s # r => work'[s] = work[s]
    BY <1>0, <1>4
  <2>2. status'[d] = st /\ \A e \in Docs : e # d => status'[e] = status[e]
    BY <1>0, <1>4
  <2>3. TypeOK'
    <3>1. work' \in [Replicas -> Works] /\ status' \in [Docs -> Statuses]
      BY <1>0, <1>4
    <3> QED BY <1>4, <3>1 DEF IInv, lead, aux, TypeOK, Works
  <2>4. Shape'
    BY <1>4, <2>1 DEF IInv, Shape, Requeues
  <2>5. req' = req /\ raced' = raced /\ left' = left
    BY <1>4 DEF aux
  <2>6. Clear(d) => /\ \A s \in Replicas : s # r => ~Ticks(s, d)
                    /\ \A c \in Clients : ~Requeues(c, d)
    BY <1>4 DEF IInv, Alone
  <2>7. Clear(d)' => Clear(d)
    BY <1>4, <2>5 DEF Clear
  <2>8. Clear(d)' => /\ \A s \in Replicas : d \in work'[s].todo => status'[d] = "queued"
                     /\ \A s \in Replicas : work'[s].doc = d => work'[s].at = status'[d]
    BY <1>4, <2>1, <2>2, <2>6, <2>7 DEF Ticks
  <2>9. Clear(d)' => \A c \in Clients : req'[c].held[d] = "none"
    BY <2>5, <2>6, <2>7 DEF Requeues
  <2>10. \A c \in Clients : req'[c].at = "dropped" => req'[c].held[req'[c].doc] # "none"
    BY <2>4 DEF Shape, Requeues
  <2>11. d \notin raced =>
           /\ status'[d] = "ready" => Cardinality(chunks'[d]) = 1
           /\ status'[d] # "ready" => chunks'[d] = {}
           /\ status'[d] \in {"parsing", "embedding"} => work'[r].doc = d /\ work'[r].at = status'[d]
    BY <1>4, <2>1, <2>2 DEF IInv, StatusTruthful, Clear
  <2>12. \A e \in Docs : e # d => Keeps(e)
    BY <1>0, <1>4, <2>1, <2>2, <2>5 DEF Keeps
  <2>13. \A s \in Replicas : Ticks(s, d)' => Ticks(s, d)
    BY <1>4, <2>1 DEF Ticks
  <2>14. \A c \in Clients : Requeues(c, d)' => Requeues(c, d)
    BY <2>5 DEF Requeues
  <2>15. status'[d] # "none" /\ Exists(d)'
    BY <1>4, <2>2 DEF Exists
  <2> QED BY <1>4, <2>2, <2>3, <2>4, <2>5, <2>7, <2>8, <2>9, <2>10, <2>11, <2>12, <2>13, <2>14, <2>15, WritesOne
<1>5. ASSUME NEW r \in Replicas, NEW d \in Docs, Parse(r, d) PROVE IInv'
  <2> DEFINE q == [work[r] EXCEPT !.at = "parsing", !.doc = d, !.todo = @ \ {d}]
  <2>1. work' = [work EXCEPT ![r] = q] /\ status' = [status EXCEPT ![d] = "parsing"] /\ chunks' = chunks
    BY <1>0, <1>5 DEF Parse, Commit, SetStatus
  <2>2. q \in Works /\ work[r].doc = None
    BY <1>0, <1>5 DEF Parse, Works, IInv, Shape
  <2>3. Clear(d) => status[d] # "ready"
    BY <1>5 DEF Parse, IInv, Faithful
  <2>4. UNCHANGED <<lead, req, aux>> /\ Exists(d) /\ Ticks(r, d)
    BY <1>5 DEF Parse, Commit, Ticks
  <2> QED BY <1>0, <1>4, <2>1, <2>2, <2>3, <2>4 DEF Statuses, Works
<1>6. ASSUME NEW r \in Replicas, Embed(r) PROVE IInv'
  <2> DEFINE d == work[r].doc
             q == [work[r] EXCEPT !.at = "embedding", !.doc = work[r].doc, !.todo = work[r].todo]
  <2>0. d \in Docs
    BY <1>0, <1>6 DEF Embed, IInv, Shape, Works
  <2>1. work' = [work EXCEPT ![r] = q] /\ status' = [status EXCEPT ![d] = "embedding"] /\ chunks' = chunks
    BY <1>0, <1>6 DEF Embed, Commit, SetStatus, Works
  <2>2. q \in Works
    BY <1>0 DEF Works
  <2>3. Clear(d) => status[d] # "ready" /\ d \notin q.todo
    BY <1>0, <1>6, <2>0 DEF Embed, IInv, Faithful, Works
  <2>4. UNCHANGED <<lead, req, aux>> /\ Exists(d) /\ Ticks(r, d)
    BY <1>6 DEF Embed, Commit, Ticks
  <2> QED BY <1>0, <1>4, <2>0, <2>1, <2>2, <2>3, <2>4 DEF Statuses, Works
(* A tick that lets go of its document. *)
<1>7. ASSUME NEW r \in Replicas, NEW T \in SUBSET work[r].todo, NEW f \in BOOLEAN, Leave(r, T, f)
      PROVE \E q \in Works : work' = [work EXCEPT ![r] = q] /\ q.at = "rest" /\ q.doc = None /\ q.todo = T
  <2>1. [Rest EXCEPT !.todo = T, !.fresh = f] \in Works
    BY <1>0 DEF Rest, Works
  <2> QED BY <1>0, <1>7, <2>1 DEF Leave, Rest
<1>8. ASSUME NEW r \in Replicas, Store(r) PROVE IInv'
  <2> DEFINE d == work[r].doc
  <2>0. d \in Docs
    BY <1>0, <1>8 DEF Store, IInv, Shape, Works
  <2>1. PICK n \in New(d) : chunks' = [chunks EXCEPT ![d] = @ \cup {n}]
    BY <1>8 DEF Store
  <2>2. PICK q \in Works : work' = [work EXCEPT ![r] = q] /\ q.at = "rest" /\ q.doc = None /\ q.todo = work[r].todo
    BY <1>0, <1>7, <1>8 DEF Store, Works
  <2>3. /\ chunks' \in [Docs -> SUBSET Chunks]
        /\ \A e \in Docs \ {d} : chunks'[e] = chunks[e]
        /\ chunks[d] = {} => Cardinality(chunks'[d]) = 1
    BY <1>0, <2>0, <2>1, OneChunk DEF New
  <2>4. status' = [status EXCEPT ![d] = "ready"] /\ UNCHANGED <<lead, req, aux>> /\ Exists(d) /\ Ticks(r, d)
    BY <1>8 DEF Store, SetStatus, Ticks, aux
  <2>5. Clear(d) => status[d] # "ready" /\ d \notin q.todo
    BY <1>0, <1>8, <2>0, <2>2 DEF Store, IInv, Faithful, Works
  <2> QED BY <1>0, <1>4, <2>0, <2>2, <2>3, <2>4, <2>5 DEF Statuses
<1>9. ASSUME NEW r \in Replicas, NEW d \in Docs, Fail(r, d) PROVE IInv'
  <2>2. PICK q \in Works : /\ work' = [work EXCEPT ![r] = q] /\ q.at = "rest" /\ q.doc = None
                           /\ q.todo = work[r].todo \ {d}
    <3>1. Leave(r, work[r].todo \ {d}, TRUE) /\ work[r].todo \ {d} \in SUBSET work[r].todo
      BY <1>9 DEF Fail
    <3> QED BY <1>7, <3>1
  <2>3. /\ chunks' = chunks /\ UNCHANGED <<lead, req, aux>> /\ Ticks(r, d)
        /\ work[r].doc \in {d, None}
    BY <1>9 DEF Fail, IsAt, Ticks, IInv, Shape
  <2>4. CASE Exists(d)
    <3>1. status' = [status EXCEPT ![d] = "failed"]
      BY <1>9, <2>4 DEF Fail, SetStatus
    <3>2. Clear(d) => status[d] # "ready" /\ d \notin q.todo
      BY <1>0, <1>9, <2>2 DEF Fail, IsAt, IInv, Faithful, Shape, Works
    <3> QED BY <1>0, <1>4, <2>2, <2>3, <2>4, <3>1, <3>2 DEF Statuses
  <2>5. CASE ~Exists(d)
    <3>1. UNCHANGED <<rows, lead, req, aux>>
      BY <1>9, <2>3, <2>5 DEF Fail, rows
    <3>2. TypeOK'
      BY <1>0, <2>2, <3>1 DEF rows, lead, aux, IInv, TypeOK, Works
    <3>3. /\ \A t \in Replicas : t # r => work'[t] = work[t]
          /\ work'[r] = q
      BY <1>0, <2>2
    <3> QED BY <1>0, <2>2, <2>3, <2>5, <3>1, <3>2, <3>3, LetsGo DEF aux, IInv, Shape
  <2> QED BY <2>4, <2>5
<1>18. ASSUME NEW r \in Replicas, NEW d \in Docs, FailUnmarked(r, d) PROVE IInv'
  <2>1. PICK q \in Works : /\ work' = [work EXCEPT ![r] = q] /\ q.at = "rest" /\ q.doc = None
                           /\ q.todo \subseteq work[r].todo
    <3>1. PICK T \in SUBSET work[r].todo, f \in BOOLEAN : Leave(r, T, f)
      <4>1. work[r].todo \ {d} \in SUBSET work[r].todo /\ {} \in SUBSET work[r].todo
        OBVIOUS
      <4>2. CASE Leave(r, work[r].todo \ {d}, TRUE)
        BY <4>1, <4>2
      <4>3. CASE Leave(r, {}, TRUE)
        BY <4>1, <4>3
      <4> QED BY <1>18, <4>2, <4>3 DEF FailUnmarked
    <3> QED BY <1>7, <3>1
  <2>2. /\ UNCHANGED <<rows, lead, req, raced>> /\ faults' \in 0..MaxFaults
        /\ left' = left \cup {e \in {d} : d = work[r].doc /\ Exists(d)}
        /\ work[r].doc \in {d, None} /\ (work[r].doc = None => work[r].at = "rest")
    BY <1>18 DEF FailUnmarked, IsAt, Fault, IInv, Shape, TypeOK, KnowledgeAssumption
  <2>3. TypeOK'
    <3>1. work' \in [Replicas -> Works] /\ left' \subseteq Docs
      BY <1>0, <2>1, <2>2 DEF IInv, TypeOK
    <3> QED BY <2>2, <3>1 DEF rows, lead, IInv, TypeOK, Works
  <2>4. work'[r] = q /\ \A t \in Replicas : t # r => work'[t] = work[t]
    BY <1>0, <2>1
  <2>5. work[r].doc # None /\ Exists(work[r].doc) => work[r].doc \in left'
    BY <2>2
  <2>6. left \subseteq left'
    BY <2>2
  <2>7. \A t \in Replicas : \/ /\ work'[t].todo \subseteq work[t].todo
                               /\ work'[t].doc = work[t].doc /\ work'[t].at = work[t].at
                            \/ /\ work'[t].todo \subseteq work[t].todo
                               /\ work'[t].doc = None /\ work'[t].at = "rest"
                               /\ work[t].doc # None /\ Exists(work[t].doc) => work[t].doc \in left'
    BY <2>1, <2>4, <2>5
  <2>8. \A c \in Clients : req'[c] = req[c]
    BY <2>2
  <2> QED BY <2>2, <2>3, <2>6, <2>7, <2>8, LetsGo
<1>10. ASSUME NEW r \in Replicas, NEW d \in Docs, Skip(r, d) PROVE IInv'
  <2>1. PICK q \in Works : /\ work' = [work EXCEPT ![r] = q] /\ q.at = "rest" /\ q.doc = None
                           /\ q.todo \subseteq work[r].todo
    <3>1. PICK T \in SUBSET work[r].todo, f \in BOOLEAN : Leave(r, T, f)
      <4>1. work[r].todo \ {d} \in SUBSET work[r].todo /\ {} \in SUBSET work[r].todo
        OBVIOUS
      <4>2. CASE Leave(r, work[r].todo \ {d}, TRUE)
        BY <4>1, <4>2
      <4>3. CASE Leave(r, {}, TRUE)
        BY <4>1, <4>3
      <4> QED BY <1>10, <4>2, <4>3 DEF Skip
    <3> QED BY <1>7, <3>1
  <2>2. UNCHANGED <<rows, lead, req, aux>> /\ work[r].doc = None
    BY <1>10 DEF Skip, IInv, Shape
  <2>3. TypeOK'
    BY <1>0, <2>1, <2>2 DEF rows, lead, aux, IInv, TypeOK, Works
  <2> QED BY <1>0, <2>1, <2>2, <2>3, LetsGo DEF aux
<1>11. ASSUME NEW d \in Docs, Upload(d) PROVE IInv'
  <2>1. /\ status[d] = "none" /\ status' = [status EXCEPT ![d] = "queued"]
        /\ UNCHANGED <<chunks, lead, work, req, aux>>
    BY <1>11 DEF Upload, SetStatus
  <2>2. chunks[d] = {} /\ (\A r \in Replicas : ~Ticks(r, d)) /\ \A c \in Clients : ~Requeues(c, d)
    BY <2>1 DEF IInv, Absent, Exists
  <2>3. /\ status'[d] = "queued" /\ \A e \in Docs : e # d => status'[e] = status[e]
        /\ \A e \in Docs : e # d => (Clear(e)' <=> Clear(e))
    BY <1>0, <2>1 DEF Clear, Exists, aux
  <2>4. TypeOK' /\ Shape'
    BY <1>0, <2>1 DEF lead, aux, IInv, TypeOK, Statuses, Shape, Requeues
  <2>5. Absent'
    BY <2>1, <2>2, <2>3 DEF IInv, Absent, Exists, Ticks, Requeues
  <2>6. Alone'
    BY <2>1, <2>2, <2>3 DEF IInv, Alone, Ticks, Requeues
  <2>7. Faithful'
    <3> SUFFICES ASSUME NEW e \in Docs, Clear(e)' PROVE
          /\ \A r \in Replicas : e \in work[r].todo => status'[e] = "queued"
          /\ \A r \in Replicas : work[r].doc = e => work[r].at = status'[e]
          /\ \A c \in Clients : req[c].held[e] = "queued" => status'[e] = "queued"
          /\ \A c \in Clients : req[c].at = "dropped" /\ req[c].doc = e => req[c].sel = chunks[e]
      BY <2>1 DEF Faithful
    <3>1. CASE e = d
      BY <2>2, <2>3, <3>1 DEF Ticks, Requeues, IInv, Shape
    <3>2. CASE e # d
      BY <2>3, <3>2 DEF IInv, Faithful
    <3> QED BY <3>1, <3>2
  <2>8. StatusTruthful'
    <3> SUFFICES ASSUME NEW e \in Docs, e \notin raced PROVE
          /\ status'[e] = "ready" => Cardinality(chunks[e]) = 1
          /\ status'[e] # "ready" => chunks[e] = {}
          /\ status'[e] \in {"parsing", "embedding"} =>
               \/ e \in left
               \/ \E r \in Replicas : work[r].doc = e /\ work[r].at = status'[e]
      BY <2>1 DEF StatusTruthful, aux
    <3>1. CASE e = d
      BY <2>2, <2>3, <3>1
    <3>2. CASE e # d
      BY <2>3, <3>2 DEF IInv, StatusTruthful
    <3> QED BY <3>1, <3>2
  <2> QED BY <2>4, <2>5, <2>6, <2>7, <2>8 DEF IInv
<1>12. ASSUME NEW d \in Docs, Delete(d) PROVE IInv'
  <2>1. /\ Exists(d) /\ status' = [status EXCEPT ![d] = "gone"] /\ chunks' = [chunks EXCEPT ![d] = {}]
        /\ raced' = raced \ {d} /\ left' = left \ {d} /\ UNCHANGED <<lead, work, req, faults>>
    BY <1>12 DEF Delete, SetStatus
  <2>2. status'[d] = "gone" /\ chunks'[d] = {} /\ ~Exists(d)' /\ ~Clear(d)'
    BY <1>0, <2>1 DEF Exists, Clear
  <2>3. TypeOK' /\ Shape'
    BY <1>0, <2>1 DEF lead, IInv, TypeOK, Statuses, Shape, Requeues
  <2>4. \A e \in Docs : e # d => Keeps(e)
    BY <1>0, <2>1 DEF Keeps
  <2>5. (\A r \in Replicas : Ticks(r, d)' => Ticks(r, d)) /\ \A c \in Clients : Requeues(c, d)' => Requeues(c, d)
    BY <2>1 DEF Ticks, Requeues
  <2> QED BY <2>2, <2>3, <2>4, <2>5, WritesOne
<1>13. ASSUME NEW c \in Clients, NEW S \in SUBSET Docs, Reindex(c, S) PROVE IInv'
  <2> DEFINE h == [d \in Docs |-> Loaded(d, S)]
  <2>1. /\ req[c] = Quiet /\ (\A d \in S : Exists(d)) /\ req' = [req EXCEPT ![c].held = h]
        /\ raced' = raced \cup (S \cap Taken) /\ UNCHANGED <<rows, lead, work, faults, left>>
    BY <1>13 DEF Reindex
  <2>2. req'[c] = [Quiet EXCEPT !.held = h] /\ \A e \in Clients : e # c => req'[e] = req[e]
    BY <1>0, <2>1
  <2>3. \A d \in Docs : /\ req'[c].held[d] # "none" => d \in S
                        /\ req'[c].held[d] = "queued" => status[d] = "queued"
    BY <2>2 DEF Loaded, Quiet
  <2>4. TypeOK'
    <3>1. h \in [Docs -> {"none", "queued", "other"}]
      BY DEF Loaded
    <3>2. [Quiet EXCEPT !.held = h] \in Requests
      BY <3>1 DEF Quiet, Requests
    <3>3. req' \in [Clients -> Requests]
      BY <1>0, <2>1, <3>2
    <3> QED BY <2>1, <3>3 DEF IInv, rows, lead, TypeOK, Requests
  <2>5. \A d \in Docs : Clear(d)' => Clear(d)
    BY <2>1 DEF Clear, Exists, rows
  <2>6. \A d \in Docs, r \in Replicas : Ticks(r, d)' <=> Ticks(r, d)
    BY <2>1 DEF Ticks
  <2>7. \A d \in Docs, e \in Clients : e # c => (Requeues(e, d)' <=> Requeues(e, d))
    BY <2>2 DEF Requeues
  <2>8. \A d \in Docs : Requeues(c, d)' => d \in S
    BY <2>3 DEF Requeues
  <2>9. ASSUME NEW d \in Docs, Clear(d)', d \in S
        PROVE (\A r \in Replicas : ~Ticks(r, d)) /\ \A e \in Clients : ~Requeues(e, d)
    BY <2>1, <2>9, TakenIs DEF Clear
  <2>10. Shape'
    BY <2>1, <2>2 DEF IInv, Shape, Requeues, Quiet
  <2>11. Absent'
    BY <2>1, <2>6, <2>7, <2>8 DEF IInv, Absent, Exists, rows
  <2>12. Alone'
    BY <2>5, <2>6, <2>7, <2>8, <2>9 DEF IInv, Alone
  <2>13. Faithful'
    <3>1. ASSUME NEW d \in Docs, NEW r \in Replicas, Clear(d)' PROVE
            /\ d \in work'[r].todo => status'[d] = "queued"
            /\ work'[r].doc = d => work'[r].at = status'[d]
      BY <2>1, <2>5, <3>1 DEF IInv, Faithful, rows
    <3>2. ASSUME NEW d \in Docs, NEW e \in Clients, Clear(d)' PROVE
            /\ req'[e].held[d] = "queued" => status'[d] = "queued"
            /\ req'[e].at = "dropped" /\ req'[e].doc = d => req'[e].sel = chunks'[d]
      <4>1. CASE e = c
        BY <2>1, <2>2, <2>3, <4>1 DEF rows, Quiet
      <4>2. CASE e # c
        BY <2>1, <2>2, <2>5, <3>2, <4>2 DEF IInv, Faithful, rows
      <4> QED BY <4>1, <4>2
    <3> QED BY <3>1, <3>2 DEF Faithful
  <2>14. StatusTruthful'
    BY <2>1 DEF IInv, StatusTruthful, rows
  <2> QED BY <2>4, <2>10, <2>11, <2>12, <2>13, <2>14 DEF IInv
<1>14. ASSUME NEW c \in Clients, NEW d \in Docs, DropChunks(c, d) PROVE IInv'
  <2> DEFINE q == [req[c] EXCEPT !.at = "dropped", !.doc = d, !.sel = chunks[d]]
  <2>1. /\ req[c].at = "rest" /\ Requeues(c, d) /\ req' = [req EXCEPT ![c] = q]
        /\ UNCHANGED <<rows, lead, work, aux>>
    BY <1>0, <1>14 DEF DropChunks, Reindexing, Requeues
  <2>2. q \in Requests /\ q.held = req[c].held /\ q.sel = chunks[d]
    BY <1>0 DEF Requests
  <2>3. req'[c] = q /\ \A e \in Clients : e # c => req'[e] = req[e]
    BY <1>0, <2>1
  <2>4. TypeOK'
    <3>1. req' \in [Clients -> Requests]
      BY <1>0, <2>1, <2>2
    <3> QED BY <2>1, <3>1 DEF IInv, rows, lead, aux, TypeOK, Requests
  <2>5. Shape'
    BY <1>0, <2>1, <2>2, <2>3 DEF IInv, Shape, Requeues, Requests
  <2>6. \A e \in Docs : e # d => Keeps(e)
    BY <1>0, <2>1, <2>2, <2>3 DEF Keeps, rows, aux, Requests
  <2>7. \A e \in Clients : req'[e].held = req[e].held
    BY <2>2, <2>3
  <2>8. (\A r \in Replicas : Ticks(r, d)' => Ticks(r, d)) /\ \A e \in Clients : Requeues(e, d)' => Requeues(e, d)
    BY <2>1, <2>7 DEF Ticks, Requeues
  <2>9. Clear(d)' => Clear(d)
    BY <2>1 DEF Clear, Exists, rows, aux
  <2>10. status'[d] = status[d] /\ status[d] # "none" /\ chunks'[d] = chunks[d]
    BY <2>1 DEF IInv, Absent, rows
  <2>11. (Exists(d)' => Exists(d)) /\ (~Exists(d)' => chunks'[d] = {})
    BY <2>10 DEF IInv, Absent, Exists
  <2>12. Clear(d)' => /\ \A r \in Replicas : d \in work'[r].todo => status'[d] = "queued"
                      /\ \A r \in Replicas : work'[r].doc = d => work'[r].at = status'[d]
                      /\ \A e \in Clients : req'[e].held[d] = "queued" => status'[d] = "queued"
    BY <2>1, <2>7, <2>9, <2>10 DEF IInv, Faithful
  <2>13. Clear(d)' => \A e \in Clients : req'[e].at = "dropped" /\ req'[e].doc = d => req'[e].sel = chunks'[d]
    <3> SUFFICES ASSUME Clear(d)', NEW e \in Clients, req'[e].at = "dropped", req'[e].doc = d
                 PROVE req'[e].sel = chunks'[d]
      OBVIOUS
    <3>1. CASE e = c
      BY <2>2, <2>3, <2>10, <3>1
    <3>2. CASE e # c
      BY <2>3, <2>9, <2>10, <3>2 DEF IInv, Faithful
    <3> QED BY <3>1, <3>2
  <2>14. d \notin raced' =>
           /\ status'[d] = "ready" => Cardinality(chunks'[d]) = 1
           /\ status'[d] # "ready" => chunks'[d] = {}
           /\ status'[d] \in {"parsing", "embedding"} =>
                \/ d \in left'
                \/ \E r \in Replicas : work'[r].doc = d /\ work'[r].at = status'[d]
    BY <2>1, <2>10 DEF IInv, StatusTruthful, aux
  <2> QED BY <2>4, <2>5, <2>6, <2>8, <2>9, <2>10, <2>11, <2>12, <2>13, <2>14, WritesOne
(* A request that is done with a document. *)
<1>15. ASSUME NEW c \in Clients, Requeue(c) PROVE IInv'
  <2>a. PICK d \in Docs : d = req[c].doc /\ req[c].at = "dropped" /\ Requeues(c, d) /\ status[d] # "none"
    BY <1>15 DEF Requeue, IInv, Shape, Absent
  <2> DEFINE q == [Quiet EXCEPT !.held = [req[c].held EXCEPT ![d] = "none"]]
  <2>b. UNCHANGED <<lead, work, faults, raced>> /\ left' = left \ {d}
    BY <1>15, <2>a DEF Requeue
  <2>c. Exists(d) \/ req[c].held[d] = "queued"
    BY <1>15, <2>a DEF Requeue
  <2>1. /\ chunks' = [chunks EXCEPT ![d] = @ \ req[c].sel] /\ req' = [req EXCEPT ![c] = q]
        /\ status' = IF req[c].held[d] = "queued" THEN status ELSE [status EXCEPT ![d] = "queued"]
    BY <1>15, <2>a DEF Requeue, Again, SetStatus
  <2>2. q \in Requests /\ q.at = "rest" /\ q.held = [req[c].held EXCEPT ![d] = "none"]
    BY <1>0 DEF Requests, Quiet
  <2>3. req'[c] = q /\ \A e \in Clients : e # c => req'[e] = req[e]
    BY <1>0, <2>1
  <2>4. /\ \A e \in Docs : e # d => status'[e] = status[e] /\ chunks'[e] = chunks[e]
        /\ chunks'[d] = chunks[d] \ req[c].sel
        /\ status'[d] = status[d] \/ (status'[d] = "queued" /\ Exists(d))
    BY <1>0, <2>a, <2>c, <2>1
  <2>5. TypeOK'
    <3>1. req' \in [Clients -> Requests] /\ status' \in [Docs -> Statuses] /\ chunks' \in [Docs -> SUBSET Chunks]
      BY <1>0, <2>a, <2>1, <2>2 DEF Statuses
    <3> QED BY <2>b, <3>1 DEF IInv, lead, aux, TypeOK, Requests
  <2>6. Shape'
    BY <2>b, <2>2, <2>3 DEF IInv, Shape, Requeues
  <2>7. \A e \in Docs : e # d => Keeps(e)
    BY <1>0, <2>a, <2>b, <2>2, <2>3, <2>4 DEF Keeps, aux, Requests
  <2>8. \A e \in Clients : Requeues(e, d)' => e # c /\ Requeues(e, d)
    BY <1>0, <2>a, <2>2, <2>3 DEF Requeues, Requests
  <2>9. /\ \A r \in Replicas : Ticks(r, d)' => Ticks(r, d)
        /\ \A e \in Clients : Requeues(e, d)' => Requeues(e, d)
    BY <2>b, <2>8 DEF Ticks
  <2>10. (Clear(d)' => Clear(d)) /\ (Exists(d)' => Exists(d)) /\ status'[d] # "none"
    BY <2>a, <2>b, <2>4 DEF Clear, Exists, aux
  <2>11. ~Exists(d)' => chunks'[d] = {}
    BY <2>4 DEF IInv, Absent, Exists
  <2>12. Clear(d) => (\A r \in Replicas : ~Ticks(r, d)) /\ \A e \in Clients : e # c => ~Requeues(e, d)
    BY <2>a DEF IInv, Alone
  <2>13. Clear(d)' => /\ \A r \in Replicas : ~Ticks(r, d)'
                      /\ \A e \in Clients : req'[e].held[d] = "none"
    BY <2>8, <2>9, <2>10, <2>12 DEF Requeues
  <2>14. Clear(d)' => /\ \A r \in Replicas : d \notin work'[r].todo /\ work'[r].doc # d
                      /\ \A e \in Clients : req'[e].held[d] # "queued"
                      /\ \A e \in Clients : req'[e].at = "dropped" => req'[e].doc # d
    BY <2>6, <2>13 DEF Ticks, Shape, Requeues
  <2>15. d \notin raced => status'[d] \notin {"ready", "parsing", "embedding"} /\ chunks'[d] = {}
    <3>1. CASE Exists(d) /\ d \notin raced
      <4>1. req[c].sel = chunks[d] /\ (req[c].held[d] = "queued" => status[d] = "queued")
        BY <2>a, <3>1 DEF Clear, IInv, Faithful
      <4>2. status'[d] = "queued"
        BY <1>0, <2>a, <2>1, <4>1
      <4> QED BY <2>4, <4>1, <4>2
    <3>2. CASE ~Exists(d)
      BY <2>a, <2>4, <3>2 DEF IInv, Absent, Exists
    <3> QED BY <3>1, <3>2
  <2>16. raced' = raced
    BY <2>b DEF aux
  <2> QED BY <2>a, <2>5, <2>6, <2>7, <2>9, <2>10, <2>11, <2>14, <2>15, <2>16, WritesOne
(* A request that an error ends. *)
<1>19. ASSUME NEW c \in Clients, Abandon(c) PROVE IInv'
  <2>1. req' = [req EXCEPT ![c] = Quiet] /\ UNCHANGED <<rows, lead, work, aux>>
    BY <1>19 DEF Abandon
  <2>2. TypeOK'
    BY <1>0, <2>1 DEF IInv, rows, lead, aux, TypeOK, Requests
  <2>3. \A e \in Clients : req'[e] \in {req[e], Quiet}
    BY <1>0, <2>1
  <2> QED BY <2>1, <2>2, <2>3, LetsGo DEF aux
<1>16. CASE UNCHANGED vars
  <2>1. UNCHANGED <<rows, work, req, raced, left>>
    BY <1>16 DEF vars, aux
  <2>2. TypeOK'
    BY <1>16 DEF vars, rows, lead, aux, IInv, TypeOK
  <2> QED BY <2>1, <2>2, LeadMoves
<1>17. CASE LoseLock
  <2>1. UNCHANGED <<rows, work, req, raced, left>>
    BY <1>17 DEF LoseLock
  <2>2. TypeOK'
    <3>1. faults \in 0..MaxFaults /\ MaxFaults \in Nat
      BY DEF IInv, TypeOK, KnowledgeAssumption
    <3> QED BY <1>17, <3>1 DEF LoseLock, Fault, rows, IInv, TypeOK
  <2> QED BY <2>1, <2>2, LeadMoves
<1> QED
  BY <1>1, <1>2, <1>3, <1>5, <1>6, <1>8, <1>9, <1>10, <1>11, <1>12, <1>13, <1>14, <1>15, <1>16, <1>17, <1>18, <1>19
  DEF Next, TickStep

-----------------------------------------------------------------------------
(* The inductive invariant: who holds a document alone knows it.            *)
THEOREM Invariant == ASSUME KnowledgeAssumption PROVE Spec => []IInv
<1>1. Init => IInv
  BY InitInv
<1>2. IInv /\ [Next]_vars => IInv'
  BY NextInv
<1> QED BY <1>1, <1>2, PTL DEF Spec

(* Rows, ticks and requests keep their types. *)
THEOREM TypeCorrect == ASSUME KnowledgeAssumption PROVE Spec => []TypeOK
<1>1. IInv => TypeOK
  BY DEF IInv
<1> QED BY <1>1, Invariant, PTL

(* A document that was never raced for shows what is so: ready with one set *)
(* of chunks, else with none, and in work only if it is, or was left in the *)
(* middle by a crash or by an error whose mark failed too - for any number  *)
(* of documents, replicas, requests, crashes and errors.                    *)
THEOREM StatusIsTruthful == ASSUME KnowledgeAssumption PROVE Spec => []StatusTruthful
<1>1. IInv => StatusTruthful
  BY DEF IInv
<1> QED BY <1>1, Invariant, PTL
=============================================================================
