-------------------------------- MODULE YjsRooms --------------------------------
(***************************************************************************)
(* One collaborative document: backend/app/services/yjs_room.py under the  *)
(* socket handler ws_yjs of api/v1/endpoints/ws.py.                        *)
(*                                                                         *)
(* The handlers of a server process are coroutines of one event loop and   *)
(* the room functions are plain calls, so a process does one of them at a  *)
(* time; two processes share the table yjs_documents and nothing else, and *)
(* their statements interleave.  document_id has no unique constraint: a   *)
(* row that was not found is inserted.  active_user_count, the dirty flag  *)
(* (every caller of _persist sets it or forces) and the relay between the  *)
(* sockets of one process are left out.                                    *)
(***************************************************************************)
EXTENDS Integers, Sequences

CONSTANTS
  Procs,    \* server processes
  Clients,  \* editors, with one socket each
  Updates,  \* CRDT updates, each sent once
  Nowhere

RoomsAssumption == Nowhere \notin Procs

VARIABLES
  log,      \* update_log of the yjs_documents rows, in order of insertion
  room,     \* whether a process has a _RoomState
  snap,     \* its snapshot
  count,    \* its user_count
  pc,       \* what the event loop of a process is doing
  blob,     \* the bytes a running _persist took
  found,    \* the row it selected, 0 for none
  final,    \* it was called by the last leave_room
  socket,   \* the process a client is connected to
  accepted, \* auxiliary: updates appended to some room
  shared,   \* auxiliary: two processes have had a room at once
  faulty    \* auxiliary: a fault has lost what only one room held

proc == <<room, snap, count, pc, blob, found, final>>
vars == <<log, proc, socket, accepted, shared, faulty>>

Init ==
  /\ log = <<>>
  /\ room = [p \in Procs |-> FALSE]
  /\ snap = [p \in Procs |-> {}]
  /\ count = [p \in Procs |-> 0]
  /\ pc = [p \in Procs |-> "loop"]
  /\ blob = [p \in Procs |-> {}]
  /\ found = [p \in Procs |-> 0]
  /\ final = [p \in Procs |-> FALSE]
  /\ socket = [c \in Clients |-> Nowhere]
  /\ accepted = {}
  /\ shared = FALSE /\ faulty = FALSE

(* db.scalar(select(...)): any of the rows, none when there is none. *)
Found == IF log = <<>> THEN {0} ELSE DOMAIN log

Stored == UNION {log[r] : r \in DOMAIN log}

Room(p, s, n) ==
  /\ room' = [room EXCEPT ![p] = TRUE]
  /\ snap' = [snap EXCEPT ![p] = s]
  /\ count' = [count EXCEPT ![p] = n]
  /\ shared' = (shared \/ \E q \in Procs \ {p} : room[q])

(* Mutant: a room starts empty. *)
LoadNothing(p) == {snap[p]}

(* _get_or_load: the room in memory, or one hydrated from the row. *)
Load(p) ==
  IF room[p] THEN {snap[p]}
  ELSE {IF r = 0 THEN {} ELSE log[r] : r \in Found}

Members(p) == IF room[p] THEN count[p] ELSE 0

Job(p, l, b, f) ==
  /\ pc' = [pc EXCEPT ![p] = l]
  /\ blob' = [blob EXCEPT ![p] = b]
  /\ final' = [final EXCEPT ![p] = f]
  /\ found' = [found EXCEPT ![p] = 0]

(* ws_yjs -> join_room *)
Join(p, c) ==
  /\ pc[p] = "loop" /\ socket[c] = Nowhere
  /\ socket' = [socket EXCEPT ![c] = p]
  /\ \E s \in Load(p) : Room(p, s, Members(p) + 1)
  /\ Job(p, "counting", {}, FALSE)
  /\ UNCHANGED <<log, accepted, faulty>>

(* The query of _get_or_load raises after the room was published, in a join *)
(* or in the ingest of a socket without a room: the handler logs it, drops  *)
(* the update and serves the socket.                                        *)
LoadFails(p, c) ==
  /\ pc[p] = "loop" /\ socket[c] \in {Nowhere, p} /\ ~room[p]
  /\ socket' = [socket EXCEPT ![c] = p]
  /\ Room(p, {}, 0)
  /\ faulty' = TRUE
  /\ UNCHANGED <<log, pc, blob, found, final, accepted>>

(* _update_active_count(+1): inserts a row without a log if it finds none. *)
Count(p) ==
  /\ pc[p] = "counting"
  /\ pc' = [pc EXCEPT ![p] = IF log = <<>> THEN "inserting" ELSE "loop"]
  /\ UNCHANGED <<log, room, snap, count, blob, found, final, socket, accepted, shared, faulty>>

(* Its failures are swallowed. *)
Insert(p) ==
  /\ pc[p] = "inserting"
  /\ log' \in {log, Append(log, {})}
  /\ pc' = [pc EXCEPT ![p] = "loop"]
  /\ UNCHANGED <<room, snap, count, blob, found, final, socket, accepted, shared, faulty>>

(* Mutant: the update alone is persisted. *)
IngestAlone(p, c, u) ==
  /\ pc[p] = "loop" /\ socket[c] = p /\ u \notin accepted
  /\ accepted' = accepted \cup {u}
  /\ \E s \in Load(p) :
       /\ Room(p, s \cup {u}, Members(p))
       /\ \/ Job(p, "persisting", {u}, FALSE)
          \/ UNCHANGED <<pc, blob, found, final>>
  /\ UNCHANGED <<log, socket, faulty>>

(* ingest_update: the snapshot grows, and is persisted if the last time was *)
(* more than PERSIST_DEBOUNCE_SECONDS ago.                                  *)
Ingest(p, c, u) ==
  /\ pc[p] = "loop" /\ socket[c] = p /\ u \notin accepted
  /\ accepted' = accepted \cup {u}
  /\ \E s \in Load(p) :
       /\ Room(p, s \cup {u}, Members(p))
       /\ \/ Job(p, "persisting", s \cup {u}, FALSE)
          \/ UNCHANGED <<pc, blob, found, final>>
  /\ UNCHANGED <<log, socket, faulty>>

(* Mutant: the room is dropped before it is written. *)
LeaveDrops(p, c) ==
  LET last == count[p] <= 1
  IN /\ pc[p] = "loop" /\ socket[c] = p
     /\ socket' = [socket EXCEPT ![c] = Nowhere]
     /\ count' = [count EXCEPT ![p] = IF last THEN 0 ELSE @ - 1]
     /\ room' = [room EXCEPT ![p] = @ /\ ~last]
     /\ IF room[p] /\ last THEN Job(p, "persisting", snap[p], TRUE)
        ELSE UNCHANGED <<pc, blob, found, final>>
     /\ UNCHANGED <<log, snap, accepted, shared, faulty>>

(* leave_room: the last to leave persists the room and then drops it. *)
Leave(p, c) ==
  LET last == count[p] <= 1
  IN /\ pc[p] = "loop" /\ socket[c] = p
     /\ socket' = [socket EXCEPT ![c] = Nowhere]
     /\ count' = [count EXCEPT ![p] = IF last THEN 0 ELSE @ - 1]
     /\ IF room[p] /\ last THEN Job(p, "persisting", snap[p], TRUE)
        ELSE UNCHANGED <<pc, blob, found, final>>
     /\ UNCHANGED <<log, room, snap, accepted, shared, faulty>>

(* _persist: the row is looked for ... *)
Select(p) ==
  /\ pc[p] = "persisting"
  /\ \E r \in Found : found' = [found EXCEPT ![p] = r]
  /\ pc' = [pc EXCEPT ![p] = "writing"]
  /\ UNCHANGED <<log, room, snap, count, blob, final, socket, accepted, shared, faulty>>

(* Back to the loop; after the last leave the room is gone. *)
Done(p) ==
  /\ Job(p, "loop", {}, FALSE)
  /\ room' = [room EXCEPT ![p] = @ /\ ~final[p]]
  /\ snap' = [snap EXCEPT ![p] = IF final[p] THEN {} ELSE @]
  /\ UNCHANGED <<count, socket, accepted, shared>>

(* ... and written, or inserted. *)
Write(p) ==
  /\ pc[p] = "writing"
  /\ log' = IF found[p] = 0 THEN Append(log, blob[p])
            ELSE [log EXCEPT ![found[p]] = blob[p]]
  /\ Done(p)
  /\ UNCHANGED faulty

(* The database raises: it is logged, and the next persist writes it all;   *)
(* after the last leave there is none.                                      *)
WriteFails(p) ==
  /\ pc[p] \in {"persisting", "writing"}
  /\ Done(p)
  /\ faulty' = (faulty \/ (final[p] /\ ~(snap[p] \subseteq Stored)))
  /\ UNCHANGED log

(* The process dies with its rooms and sockets. *)
Crash(p) ==
  /\ Job(p, "loop", {}, FALSE)
  /\ room' = [room EXCEPT ![p] = FALSE]
  /\ snap' = [snap EXCEPT ![p] = {}]
  /\ count' = [count EXCEPT ![p] = 0]
  /\ socket' = [c \in Clients |-> IF socket[c] = p THEN Nowhere ELSE socket[c]]
  /\ faulty' = (faulty \/ ~(snap[p] \subseteq Stored))
  /\ UNCHANGED <<log, accepted, shared>>

Next ==
  \E p \in Procs :
    \/ \E c \in Clients : \/ Join(p, c) \/ LoadFails(p, c) \/ Leave(p, c)
                          \/ \E u \in Updates : Ingest(p, c, u)
    \/ Count(p) \/ Insert(p) \/ Select(p) \/ Write(p) \/ WriteFails(p) \/ Crash(p)

Spec == Init /\ [][Next]_vars

-----------------------------------------------------------------------------
(* Every field of the rooms and rows has its type. *)
TypeOK ==
  /\ log \in Seq(SUBSET Updates)
  /\ room \in [Procs -> BOOLEAN]
  /\ snap \in [Procs -> SUBSET Updates]
  /\ count \in [Procs -> Nat]
  /\ pc \in [Procs -> {"loop", "counting", "inserting", "persisting", "writing"}]
  /\ blob \in [Procs -> SUBSET Updates]
  /\ found \in [Procs -> Nat]
  /\ final \in [Procs -> BOOLEAN]
  /\ socket \in [Clients -> Procs \cup {Nowhere}]
  /\ accepted \subseteq Updates
  /\ shared \in BOOLEAN /\ faulty \in BOOLEAN

Content == Stored \cup UNION {snap[p] : p \in Procs}

(* Whoever opens the document gets every accepted update, from the room if  *)
(* there is one and else from the row, until a second process has opened a  *)
(* room of it or a fault has hit what was only in memory.                   *)
Complete ==
  ~shared /\ ~faulty =>
    /\ \A p \in Procs : room[p] => snap[p] = accepted
    /\ (\A p \in Procs : ~room[p]) => \A r \in DOMAIN log : log[r] = accepted

(* A write takes from a row only updates the writer's room does not hold:   *)
(* what a process has accepted or loaded it never unwrites.                 *)
OnlyStrangersLose ==
  [][\A r \in DOMAIN log, p \in Procs :
       pc[p] = "writing" /\ log'[r] # log[r] /\ pc'[p] = "loop" =>
         (log[r] \ log'[r]) \cap snap[p] = {}]_vars

Log == INSTANCE SharedLog WITH content <- Content, exposed <- shared \/ faulty

(* The rooms and the rows together are an append-only document. *)
ImplementsLog == Log!Spec
=============================================================================
