--------------------------- MODULE PlatformProofs ---------------------------
(***************************************************************************)
(* Theorems about the components of MCPlatform.  The document's are those  *)
(* of YjsRooms, for a step of the composition is a step of the rooms or    *)
(* leaves them alone.  The others are proved here, each from an inductive  *)
(* invariant of its component that says what a request in progress has     *)
(* read, and when that still holds.                                        *)
(***************************************************************************)
EXTENDS MCPlatform, FiniteSetTheorems, SequenceTheorems, WellFoundedInduction, TLAPS

RP == INSTANCE YjsRoomsProofs

-----------------------------------------------------------------------------
(* The document of the composition behaves as YjsRooms.                     *)
LEMMA RoomsSpec == Spec => RP!Spec
<1>1. Init => RP!Init
  BY DEF Init, R!Init, RP!Init
<1>2. R!Next => RP!Next
  BY DEF R!Next, RP!Next, R!Join, RP!Join, R!LoadFails, RP!LoadFails, R!Leave, RP!Leave,
    R!Ingest, RP!Ingest, R!Count, RP!Count, R!Insert, RP!Insert, R!Select, RP!Select,
    R!Write, RP!Write, R!WriteFails, RP!WriteFails, R!Crash, RP!Crash, R!Done, RP!Done,
    R!Job, RP!Job, R!Room, RP!Room, R!Load, RP!Load, R!Found, RP!Found,
    R!Members, RP!Members, R!Stored, RP!Stored
<1>3. [Next]_vars => [RP!Next]_(RP!vars)
  BY <1>2 DEF Next, vars, rvars, RP!vars, RP!proc
<1> QED BY <1>1, <1>3, PTL DEF Spec, RP!Spec

(* Whoever opens the document gets every accepted update, until a second    *)
(* process has opened a room of it or a fault has hit one.                  *)
THEOREM DocumentInPlatform == Spec => []Complete
<1>1. RP!Spec => []RP!Complete
  BY RP!DocumentIsComplete
<1>2. RP!Complete => Complete
  BY DEF RP!Complete, Complete, R!Complete
<1> QED BY <1>1, <1>2, RoomsSpec, PTL

(* A write never takes from a row what the room of its writer holds.        *)
THEOREM WritesInPlatform == Spec => OnlyStrangersLose
<1>1. RP!Spec => RP!OnlyStrangersLose
  BY RP!WritesSpareTheirOwn
<1>2. RP!OnlyStrangersLose => OnlyStrangersLose
  BY DEF RP!OnlyStrangersLose, OnlyStrangersLose, R!OnlyStrangersLose, RP!vars, R!vars, RP!proc, R!proc
<1> QED BY <1>1, <1>2, RoomsSpec, PTL

(* Rooms and rows are an append-only document, also beside the others.      *)
THEOREM LogInPlatform == Spec => ImplementsLog
<1>1. RP!Spec => RP!ImplementsLog
  BY RP!Refinement
<1>2. RP!ImplementsLog => ImplementsLog
  BY DEF RP!ImplementsLog, ImplementsLog, R!ImplementsLog, RP!Log!Spec, R!Log!Spec,
    RP!Log!Init, R!Log!Init, RP!Log!Next, R!Log!Next, RP!Log!Accept, R!Log!Accept,
    RP!Log!Expose, R!Log!Expose, RP!Content, R!Content, RP!Stored, R!Stored
<1> QED BY <1>1, <1>2, RoomsSpec, PTL

-----------------------------------------------------------------------------
(* The feature cache.  CacheIsCurrent is not inductive: it says nothing of  *)
(* the entry in the memory of a process while the keys of the processes     *)
(* differ, and the keys may become equal again.  EntriesValid says what is  *)
(* true of such an entry all the time, and Truthful what a request has      *)
(* read.                                                                    *)
Says(s, t, p) == entry[s][t] = <<C!Resolve(p, t), C!Resolve(p, t)>>

Fresh(s, t) == entry[s][t] # Nowhere /\ <<s, t>> \notin old

SameKeys(p) == \A q \in Procs : key[q] = key[p]

(* An entry in the memory of a process is what the process resolves, one    *)
(* in Redis what every process does, if they have the same key.             *)
EntriesValid ==
  /\ \A p \in Procs, t \in Tenants : Fresh(p, t) => Says(p, t, p)
  /\ \A p \in Procs, t \in Tenants : Fresh(Shared, t) /\ SameKeys(p) => Says(Shared, t, p)

(* What a request without an excuse has read still holds.                   *)
Truthful ==
  \A r \in Clients :
    LET q == request[r] IN
      /\ q.at # "rest" => q.proc \in Procs /\ q.tenant \in Tenants
      /\ q.at \in {"plan", "features"} /\ ~q.excused => q.plan = C!Resolve(q.proc, q.tenant)
      /\ q.at = "features" /\ ~q.excused => q.for = C!Resolve(q.proc, q.tenant)

CacheInv == C!TypeOK /\ EntriesValid /\ Truthful

(* The type of a request, as in C!TypeOK.                                   *)
Caller == [at : {"rest", "missed", "plan", "features", "verifying"},
            proc : Procs \cup {Nowhere}, tenant : Tenants \cup {Nowhere},
            plan : C!AnyPlan, for : C!AnyPlan, excused : BOOLEAN]

LEMMA CacheInit == ASSUME C!CacheAssumption PROVE C!Init => CacheInv
  BY DEF C!CacheAssumption, C!Init, CacheInv, C!TypeOK, EntriesValid, Truthful, Fresh, C!Rest, C!Stores, C!AnyPlan

(* What a call reaches are stores: Redis or the process itself. *)
LEMMA ReachedStores ==
  ASSUME NEW p \in Procs, NEW D \in C!Reached(p) PROVE D \subseteq {p, Shared} /\ D \subseteq C!Stores
  BY DEF C!Reached, C!Stores

LEMMA ResolveType ==
  ASSUME C!TypeOK, NEW p \in Procs, NEW t \in Tenants
  PROVE  C!Resolve(p, t) \in C!AnyPlan /\ C!Answers(p, t) \subseteq C!AnyPlan
  BY DEF C!TypeOK, C!Resolve, C!Answers

LEMMA OvertakeType ==
  ASSUME NEW q0 \in [Clients -> Caller], NEW P, NEW T
  PROVE /\ C!Overtake(P, T, q0) \in [Clients -> Caller]
        /\ \A r \in Clients :
             LET q == C!Overtake(P, T, q0)[r] IN
               /\ q.at = q0[r].at /\ q.proc = q0[r].proc /\ q.tenant = q0[r].tenant
               /\ q.plan = q0[r].plan /\ q.for = q0[r].for
               /\ ~q.excused => ~q0[r].excused
               /\ ~q.excused /\ q.at \in {"plan", "features"} => q.proc \notin P \/ q.tenant \notin T
  BY DEF C!Overtake, Caller

LEMMA CacheNext == ASSUME C!CacheAssumption PROVE CacheInv /\ [C!Next]_cvars => CacheInv'
<1> SUFFICES ASSUME CacheInv, [C!Next]_cvars PROVE CacheInv'
  OBVIOUS
<1> USE DEF CacheInv
<1>1. ASSUME NEW r \in Clients, NEW p \in Procs, NEW t \in Tenants, C!Miss(r, p, t) PROVE CacheInv'
  <2>1. C!TypeOK'
    BY <1>1 DEF C!Miss, C!TypeOK, C!Rest, C!AnyPlan
  <2>2. EntriesValid'
    BY <1>1 DEF C!Miss, EntriesValid, Fresh, Says, SameKeys, C!Resolve
  <2>3. Truthful'
    BY <1>1 DEF C!Miss, Truthful, C!TypeOK, C!Resolve, C!Rest
  <2> QED BY <2>1, <2>2, <2>3
<1>2. ASSUME NEW r \in Clients, C!ReadPlan(r) PROVE CacheInv'
  <2> DEFINE p == request[r].proc
             t == request[r].tenant
  <2>0. p \in Procs /\ t \in Tenants /\ C!Answers(p, t) \subseteq C!AnyPlan
    BY <1>2, ResolveType DEF C!ReadPlan, Truthful
  <2>a. PICK a \in C!Answers(p, t) :
          request' = [request EXCEPT ![r].at = "plan", ![r].plan = a,
                                     ![r].excused = @ \/ a # C!Resolve(p, t)]
    BY <1>2 DEF C!ReadPlan
  <2> DEFINE q == [request[r] EXCEPT !.at = "plan", !.plan = a, !.excused = @ \/ a # C!Resolve(p, t)]
  <2>b. /\ UNCHANGED <<plan, key, backend, entry, old, changes>>
        /\ request[r] \in Caller /\ request \in [Clients -> Caller]
    BY <1>2 DEF C!ReadPlan, C!TypeOK, Caller
  <2>c. /\ q \in Caller /\ q.at = "plan" /\ q.plan = a /\ q.proc = p /\ q.tenant = t
        /\ ~q.excused => ~request[r].excused /\ a = C!Resolve(p, t)
    <3>1. (request[r].excused \/ a # C!Resolve(p, t)) \in BOOLEAN
      OBVIOUS
    <3> QED BY <2>0, <2>b, <3>1 DEF Caller
  <2>d. request' = [request EXCEPT ![r] = q]
    BY <2>a, <2>b DEF Caller
  <2>e. TRUE
    BY <2>b DEF Caller
  <2> HIDE DEF q
  <2>1. C!TypeOK'
    <3>1. request' \in [Clients -> Caller]
      BY <2>b, <2>c, <2>d
    <3> QED BY <2>b, <3>1 DEF C!TypeOK, Caller
  <2>2. EntriesValid'
    BY <2>b DEF EntriesValid, Fresh, Says, SameKeys, C!Resolve
  <2>3. Truthful'
    <3>1. request'[r] = q /\ \A s \in Clients \ {r} : request'[s] = request[s]
      BY <2>b, <2>d
    <3>2. \A x \in Procs, u \in Tenants : C!Resolve(x, u)' = C!Resolve(x, u)
      BY <2>b DEF C!Resolve
    <3>3. request[r].at = "missed"
      BY <1>2 DEF C!ReadPlan
    <3> QED BY <2>0, <2>c, <2>e, <3>1, <3>2, <3>3 DEF Truthful
  <2> QED BY <2>1, <2>2, <2>3
<1>3. ASSUME NEW r \in Clients, C!ReadFeatures(r) PROVE CacheInv'
  <2> DEFINE p == request[r].proc
             t == request[r].tenant
  <2>0. p \in Procs /\ t \in Tenants /\ C!Answers(p, t) \subseteq C!AnyPlan
    BY <1>3, ResolveType DEF C!ReadFeatures, Truthful
  <2>a. PICK a \in C!Answers(p, t) :
          request' = [request EXCEPT ![r].at = "features", ![r].for = a,
                                     ![r].excused = @ \/ a # C!Resolve(p, t)]
    BY <1>3 DEF C!ReadFeatures
  <2> DEFINE q == [request[r] EXCEPT !.at = "features", !.for = a, !.excused = @ \/ a # C!Resolve(p, t)]
  <2>b. /\ UNCHANGED <<plan, key, backend, entry, old, changes>>
        /\ request[r] \in Caller /\ request \in [Clients -> Caller]
    BY <1>3 DEF C!ReadFeatures, C!TypeOK, Caller
  <2>c. /\ q \in Caller /\ q.at = "features" /\ q.for = a /\ q.proc = p /\ q.tenant = t
        /\ ~q.excused => ~request[r].excused /\ a = C!Resolve(p, t)
    <3>1. (request[r].excused \/ a # C!Resolve(p, t)) \in BOOLEAN
      OBVIOUS
    <3> QED BY <2>0, <2>b, <3>1 DEF Caller
  <2>d. request' = [request EXCEPT ![r] = q]
    BY <2>a, <2>b DEF Caller
  <2>e. q.plan = request[r].plan
    BY <2>b DEF Caller
  <2> HIDE DEF q
  <2>1. C!TypeOK'
    <3>1. request' \in [Clients -> Caller]
      BY <2>b, <2>c, <2>d
    <3> QED BY <2>b, <3>1 DEF C!TypeOK, Caller
  <2>2. EntriesValid'
    BY <2>b DEF EntriesValid, Fresh, Says, SameKeys, C!Resolve
  <2>3. Truthful'
    <3>1. request'[r] = q /\ \A s \in Clients \ {r} : request'[s] = request[s]
      BY <2>b, <2>d
    <3>2. \A x \in Procs, u \in Tenants : C!Resolve(x, u)' = C!Resolve(x, u)
      BY <2>b DEF C!Resolve
    <3>3. request[r].at = "plan"
      BY <1>3 DEF C!ReadFeatures
    <3> QED BY <2>0, <2>c, <2>e, <3>1, <3>2, <3>3 DEF Truthful
  <2> QED BY <2>1, <2>2, <2>3
<1>4. ASSUME NEW r \in Clients, C!Store(r) PROVE CacheInv'
  <2> DEFINE p == request[r].proc
             t == request[r].tenant
             v == <<request[r].plan, request[r].for>>
  <2>0. p \in Procs /\ t \in Tenants /\ v \in C!AnyPlan \X C!AnyPlan
    BY <1>4 DEF C!Store, Truthful, C!TypeOK
  <2>1. PICK D \in C!Reached(p) :
          /\ entry' = [s \in C!Stores |-> IF s \in D THEN [entry[s] EXCEPT ![t] = v] ELSE entry[s]]
          /\ old' = IF request[r].excused THEN old \cup {<<s, t>> : s \in D} ELSE old \ {<<s, t>> : s \in D}
    BY <1>4 DEF C!Store
  <2>2. D \subseteq {p, Shared} /\ D \subseteq C!Stores
    BY <2>0, ReachedStores
  <2>3. /\ request' = [request EXCEPT ![r] = C!Rest]
        /\ plan' = plan /\ key' = key /\ backend' = backend /\ changes' = changes
    BY <1>4 DEF C!Store
  <2>4. C!TypeOK'
    <3>1. entry' \in [C!Stores -> [Tenants -> (C!AnyPlan \X C!AnyPlan) \cup {Nowhere}]]
      BY <2>0, <2>1 DEF C!TypeOK
    <3>2. old' \subseteq C!Stores \X Tenants
      BY <2>0, <2>1, <2>2 DEF C!TypeOK
    <3>3. request' \in [Clients -> Caller]
      BY <2>3 DEF C!TypeOK, C!Rest, C!AnyPlan, Caller
    <3> QED BY <2>3, <3>1, <3>2, <3>3 DEF C!TypeOK, Caller
  <2>5. ~request[r].excused => v = <<C!Resolve(p, t), C!Resolve(p, t)>>
    BY <1>4 DEF C!Store, Truthful
  <2>6. ASSUME NEW q \in Procs, NEW u \in Tenants, Fresh(q, u)' PROVE Says(q, u, q)'
    <3>1. C!Resolve(q, u)' = C!Resolve(q, u)
      BY <2>3 DEF C!Resolve
    <3>2. CASE q \in D /\ u = t
      <4>1. q = p
        BY <2>2, <3>2 DEF C!CacheAssumption
      <4>2. entry'[q][u] = v
        BY <2>0, <2>1, <2>2, <3>2 DEF C!TypeOK
      <4>3. ~request[r].excused
        BY <2>1, <2>6, <3>2 DEF Fresh
      <4> QED BY <2>5, <3>1, <3>2, <4>1, <4>2, <4>3 DEF Says
    <3>3. CASE ~(q \in D /\ u = t)
      <4>1. entry'[q][u] = entry[q][u]
        BY <2>0, <2>1, <3>3 DEF C!TypeOK, C!Stores
      <4>2. <<q, u>> \notin old
        BY <2>1, <2>6, <3>3 DEF Fresh
      <4> QED BY <2>6, <3>1, <4>1, <4>2 DEF Fresh, Says, EntriesValid
    <3> QED BY <3>2, <3>3
  <2>7. ASSUME NEW q \in Procs, NEW u \in Tenants, Fresh(Shared, u)', SameKeys(q)' PROVE Says(Shared, u, q)'
    <3>1. C!Resolve(q, u)' = C!Resolve(q, u) /\ SameKeys(q)
      BY <2>3, <2>7 DEF C!Resolve, SameKeys
    <3>2. CASE Shared \in D /\ u = t
      <4>1. C!Resolve(p, t) = C!Resolve(q, t)
        BY <2>0, <3>1 DEF C!Resolve, SameKeys
      <4>2. entry'[Shared][u] = v
        BY <2>0, <2>1, <2>2, <3>2 DEF C!TypeOK
      <4>3. ~request[r].excused
        BY <2>1, <2>7, <3>2 DEF Fresh
      <4> QED BY <2>5, <3>1, <3>2, <4>1, <4>2, <4>3 DEF Says
    <3>3. CASE ~(Shared \in D /\ u = t)
      <4>1. entry'[Shared][u] = entry[Shared][u]
        BY <2>0, <2>1, <3>3 DEF C!TypeOK, C!Stores
      <4>2. <<Shared, u>> \notin old
        BY <2>1, <2>7, <3>3 DEF Fresh
      <4> QED BY <2>7, <3>1, <4>1, <4>2 DEF Fresh, Says, EntriesValid
    <3> QED BY <3>2, <3>3
  <2>8. Truthful'
    BY <2>3 DEF Truthful, C!TypeOK, C!Resolve, C!Rest
  <2> QED BY <2>4, <2>6, <2>7, <2>8 DEF EntriesValid
<1>5. ASSUME NEW r \in Clients, C!Invalid(r) PROVE CacheInv'
  <2>1. C!TypeOK'
    BY <1>5 DEF C!Invalid, C!TypeOK, C!Rest, C!AnyPlan
  <2>2. EntriesValid'
    BY <1>5 DEF C!Invalid, EntriesValid, Fresh, Says, SameKeys, C!Resolve
  <2>3. Truthful'
    BY <1>5 DEF C!Invalid, Truthful, C!TypeOK, C!Resolve, C!Rest
  <2> QED BY <2>1, <2>2, <2>3
<1>6. ASSUME NEW r \in Clients, C!Valid(r) PROVE CacheInv'
  <2> DEFINE p == request[r].proc
             t == request[r].tenant
  <2>0. p \in Procs /\ t \in Tenants
    BY <1>6 DEF C!Valid, Truthful
  <2>1. PICK D \in C!Reached(p) :
          /\ entry' = [s \in C!Stores |-> IF s \in D THEN [entry[s] EXCEPT ![t] = Nowhere] ELSE entry[s]]
          /\ old' = old \ {<<s, t>> : s \in D}
    BY <1>6 DEF C!Valid, C!Dropped
  <2>3. /\ request' = [request EXCEPT ![r] = C!Rest]
        /\ plan' = plan /\ key' = key /\ backend' = backend /\ changes' = changes
    BY <1>6 DEF C!Valid
  <2>4. C!TypeOK'
    <3>1. entry' \in [C!Stores -> [Tenants -> (C!AnyPlan \X C!AnyPlan) \cup {Nowhere}]]
      BY <2>0, <2>1 DEF C!TypeOK
    <3>2. request' \in [Clients -> Caller]
      BY <2>3 DEF C!TypeOK, C!Rest, C!AnyPlan, Caller
    <3> QED BY <2>1, <2>3, <3>1, <3>2 DEF C!TypeOK, Caller
  <2>5. ASSUME NEW s \in C!Stores, NEW u \in Tenants, Fresh(s, u)'
        PROVE Fresh(s, u) /\ entry'[s][u] = entry[s][u]
    BY <2>0, <2>1, <2>5 DEF Fresh, C!TypeOK
  <2>6. EntriesValid'
    BY <2>3, <2>5 DEF EntriesValid, Says, SameKeys, C!Resolve, C!Stores
  <2>7. Truthful'
    BY <2>3 DEF Truthful, C!TypeOK, C!Resolve, C!Rest
  <2> QED BY <2>4, <2>6, <2>7
<1>7. ASSUME NEW s \in C!Stores, NEW t \in Tenants, C!Expire(s, t) PROVE CacheInv'
  <2>1. C!TypeOK'
    BY <1>7 DEF C!Expire, C!TypeOK
  <2>2. ASSUME NEW x \in C!Stores, NEW u \in Tenants, Fresh(x, u)'
        PROVE Fresh(x, u) /\ entry'[x][u] = entry[x][u]
    BY <1>7, <2>2 DEF Fresh, C!Expire, C!TypeOK
  <2>3. EntriesValid'
    BY <1>7, <2>2 DEF C!Expire, EntriesValid, Says, SameKeys, C!Resolve, C!Stores
  <2>4. Truthful'
    BY <1>7 DEF C!Expire, Truthful, C!Resolve
  <2> QED BY <2>1, <2>3, <2>4
<1>8. ASSUME NEW t \in Tenants, NEW pl \in C!AnyPlan, C!SetPlan(t, pl) PROVE CacheInv'
  <2>0. request \in [Clients -> Caller]
    BY DEF C!TypeOK, Caller
  <2>1. C!TypeOK'
    BY <1>8, <2>0, OvertakeType DEF C!SetPlan, C!TypeOK, C!CacheAssumption, Caller
  <2>2. ASSUME NEW s \in C!Stores, NEW u \in Tenants, Fresh(s, u)'
        PROVE u # t /\ Fresh(s, u) /\ entry'[s][u] = entry[s][u]
    BY <1>8, <2>2 DEF C!SetPlan, Fresh
  <2>3. ASSUME NEW p \in Procs, NEW u \in Tenants, u # t PROVE C!Resolve(p, u)' = C!Resolve(p, u)
    BY <1>8, <2>3 DEF C!SetPlan, C!Resolve, C!TypeOK
  <2>4. EntriesValid'
    BY <1>8, <2>2, <2>3 DEF C!SetPlan, EntriesValid, Says, SameKeys, C!Stores
  <2>5. Truthful'
    BY <1>8, <2>0, <2>3, OvertakeType DEF C!SetPlan, Truthful
  <2> QED BY <2>1, <2>4, <2>5
(* A change of a key, by requests that q leaves without what they had read. *)
<1>9. ASSUME NEW p \in Procs, NEW pl \in C!AnyPlan, NEW q0 \in [Clients -> Caller], C!NewKey(p, pl, q0),
             \A r \in Clients : \/ q0[r] = request[r]
                               \/ /\ q0[r].at = "verifying" /\ q0[r].proc \in Procs
                                  /\ q0[r].tenant \in Tenants
      PROVE CacheInv'
  <2>1. C!TypeOK'
    <3>1. request' \in [Clients -> Caller]
      BY <1>9, OvertakeType DEF C!NewKey
    <3>2. key' \in [Procs -> C!AnyPlan] /\ old' \subseteq C!Stores \X Tenants /\ changes' \in 0..MaxChanges
      BY <1>9 DEF C!NewKey, C!TypeOK, C!CacheAssumption, C!AnyPlan, C!Stores
    <3> QED BY <1>9, <3>1, <3>2 DEF C!NewKey, C!TypeOK, Caller
  <2>2. ASSUME NEW s \in C!Stores, NEW u \in Tenants, Fresh(s, u)'
        PROVE s \notin {p, Shared} /\ Fresh(s, u) /\ entry'[s][u] = entry[s][u]
    BY <1>9, <2>2 DEF C!NewKey, Fresh
  <2>3. ASSUME NEW x \in Procs, NEW u \in Tenants, x # p PROVE C!Resolve(x, u)' = C!Resolve(x, u)
    BY <1>9, <2>3 DEF C!NewKey, C!Resolve, C!TypeOK
  <2>4. EntriesValid'
    BY <1>9, <2>2, <2>3 DEF C!NewKey, EntriesValid, Says, C!Stores
  <2>5. Truthful'
    BY <1>9, <2>3, OvertakeType DEF C!NewKey, Truthful
  <2> QED BY <2>1, <2>4, <2>5
<1>11. ASSUME NEW p \in Procs, C!RunOut(p) PROVE CacheInv'
  <2>1. request \in [Clients -> Caller] /\ Evaluation \in C!AnyPlan
    BY DEF C!TypeOK, Caller, C!AnyPlan
  <2> QED BY <1>9, <1>11, <2>1 DEF C!RunOut
<1>12. ASSUME NEW r \in Clients, NEW p \in Procs, NEW t \in Tenants, NEW pl \in C!AnyPlan, C!SetKey(r, p, t, pl)
       PROVE CacheInv'
  <2> DEFINE v == [C!Rest EXCEPT !.at = "verifying", !.proc = p, !.tenant = t]
             q == [request EXCEPT ![r] = v]
  <2>1. v \in Caller /\ v.at = "verifying" /\ v.proc = p /\ v.tenant = t
    BY DEF C!Rest, Caller, C!AnyPlan
  <2>2. request \in [Clients -> Caller] /\ q \in [Clients -> Caller]
    BY <2>1 DEF C!TypeOK, Caller
  <2>3. q[r] = v /\ \A s \in Clients \ {r} : q[s] = request[s]
    BY <2>2
  <2>4. C!NewKey(p, pl, q) \/ (request' = q /\ UNCHANGED <<plan, key, backend, entry, old, changes>>)
    BY <1>12 DEF C!SetKey
  <2> HIDE DEF q, v
  <2>5. CASE C!NewKey(p, pl, q)
    BY <1>9, <2>1, <2>2, <2>3, <2>5
  <2>6. CASE request' = q /\ UNCHANGED <<plan, key, backend, entry, old, changes>>
    <3>1. C!TypeOK'
      BY <2>2, <2>6 DEF C!TypeOK, Caller
    <3>2. EntriesValid'
      BY <2>6 DEF EntriesValid, Fresh, Says, SameKeys, C!Resolve
    <3>3. Truthful'
      BY <2>1, <2>3, <2>6 DEF Truthful, C!Resolve
    <3> QED BY <3>1, <3>2, <3>3
  <2> QED BY <2>4, <2>5, <2>6
<1>10. CASE UNCHANGED cvars
  BY <1>10 DEF cvars, C!TypeOK, EntriesValid, Truthful, Fresh, Says, SameKeys, C!Resolve
<1> QED
  BY <1>1, <1>2, <1>3, <1>4, <1>5, <1>6, <1>7, <1>8, <1>10, <1>11, <1>12 DEF C!Next

(* After an activation that reached it, an entry of the cache is what every *)
(* process with the same key resolves, whatever failed or overlapped, for   *)
(* any number of tenants and processes; except entries from before a later  *)
(* change of a plan or of what a key stands for, also because it ran out,   *)
(* answers computed across such a change, and answers for which the lookup  *)
(* of the tenant failed.                                                    *)
THEOREM CacheInPlatform == Spec => []CacheIsCurrent
<1>1. Init => CacheInv
  BY CacheInit, PlatformAssumption DEF Init
<1>2. CacheInv /\ [Next]_vars => CacheInv'
  <2>1. [Next]_vars => [C!Next]_cvars
    BY DEF Next, vars, cvars
  <2> QED BY <2>1, CacheNext, PlatformAssumption
<1>3. CacheInv => CacheIsCurrent
  BY DEF CacheInv, EntriesValid, CacheIsCurrent, C!CacheIsCurrent, Fresh, Says, SameKeys
<1> QED BY <1>1, <1>2, <1>3, PTL DEF Spec

-----------------------------------------------------------------------------
(* The import job.  As long as no two sessions or commits have held the job *)
(* at once, no preview has reopened it and no source broke off, one session *)
(* at most is at work, and the records of a run are those of the one        *)
(* completed run.                                                           *)
Loads == [at : {"rest", "loaded", "importing", "rolling back", "validating"}, st : I!Statuses,
          ids : SUBSET (Rows \X Nat), new : SUBSET (Rows \X Nat), put : SUBSET (Rows \X Nat),
          todo : SUBSET Rows, run : Nat]

ImportType ==
  /\ live \subseteq Rows \X Nat /\ ids \subseteq Rows \X Nat /\ status \in I!Statuses
  /\ queue \in Nat /\ runs \in Nat /\ ses \in [Clients -> Loads]

Made == {r \in live : r[2] # 0}

MadeOnce ==
  /\ Made \subseteq ids /\ (Made # {} => status = "completed" /\ queue = 0)
  /\ \A r, s \in Made : r[1] = s[1] => r = s

OneAtWork(c) ==
  /\ queue = 0 /\ \A s \in Clients \ {c} : ses[s] = I!Rest
  /\ ses[c].at \in {"loaded", "importing"} =>
       Made = {} /\ ses[c].put \subseteq ses[c].new /\ \A r \in ses[c].put : r[2] = ses[c].run
  /\ ses[c].at = "rolling back" => ses[c].ids = ids
  /\ ses[c].at = "validating" /\ Made # {} => ses[c].st = "completed"

ImportInv ==
  /\ ImportType
  /\ ~(raced \/ again \/ broke) =>
       MadeOnce /\ \A c \in Clients : ses[c] # I!Rest => OneAtWork(c)

(* No session at work: what a step of one of them may leave behind.          *)
LEMMA ImportIdle ==
  ASSUME ImportType, NEW c \in Clients, OneAtWork(c), ses' = [ses EXCEPT ![c] = I!Rest]
  PROVE  \A s \in Clients : ses'[s] = I!Rest
BY DEF ImportType, OneAtWork

(* Only the session s is at work after a step that opens it.                *)
LEMMA OpenStep ==
  ASSUME ImportInv, NEW c \in Clients, NEW r \in Loads, ses[c] = I!Rest,
         ses' = [ses EXCEPT ![c] = r], UNCHANGED <<status, ids, live, again, broke>>,
         queue' \in Nat, runs' \in Nat, raced => raced',
         ~raced' => queue' = 0 /\ \A s \in Clients \ {c} : ses[s] = I!Rest,
         r.put = {},
         r.at \in {"loaded", "importing"} /\ ~raced' /\ ~again /\ ~broke => Made = {},
         r.at = "rolling back" => r.ids = ids,
         r.at = "validating" => r.st = status
  PROVE  ImportInv'
<1>1. ImportType'
  BY DEF ImportInv, ImportType
<1>2. ASSUME ~(raced \/ again \/ broke)'
      PROVE  MadeOnce' /\ \A s \in Clients : ses'[s] # I!Rest => OneAtWork(s)'
  <2>1. MadeOnce /\ queue' = 0 /\ \A s \in Clients \ {c} : ses[s] = I!Rest
    BY <1>2 DEF ImportInv
  <2>2. MadeOnce'
    BY <2>1 DEF MadeOnce, Made
  <2>3. ses'[c] = r /\ \A s \in Clients \ {c} : ses'[s] = I!Rest
    BY <2>1 DEF ImportInv, ImportType
  <2>4. OneAtWork(c)'
    BY <1>2, <2>1, <2>3 DEF OneAtWork, MadeOnce, Made, I!Rest
  <2> QED BY <2>2, <2>3, <2>4
<1> QED BY <1>1, <1>2 DEF ImportInv

(* A step of a session that has the job.                                    *)
LEMMA WorkStep ==
  ASSUME ImportInv, NEW c \in Clients, NEW r \in Loads, ses[c] # I!Rest, r.at # "rest",
         ses' = [ses EXCEPT ![c] = r], UNCHANGED <<ids, live, queue, runs, raced, again, broke>>,
         status' \in I!Statuses, status' = status \/ ses[c].at \in {"loaded", "importing"},
         r.at \in {"loaded", "importing"} => ses[c].at \in {"loaded", "importing"},
         ses[c].put \subseteq ses[c].new => r.put \subseteq r.new,
         (\A x \in ses[c].put : x[2] = ses[c].run) => \A x \in r.put : x[2] = r.run,
         r.at \in {"rolling back", "validating"} => r = ses[c]
  PROVE  ImportInv'
<1>1. ImportType'
  BY DEF ImportInv, ImportType
<1>2. ASSUME ~(raced \/ again \/ broke)'
      PROVE  MadeOnce' /\ \A s \in Clients : ses'[s] # I!Rest => OneAtWork(s)'
  <2>1. MadeOnce /\ OneAtWork(c)
    BY <1>2 DEF ImportInv
  <2>2. MadeOnce'
    BY <2>1 DEF MadeOnce, Made, OneAtWork
  <2>3. ses'[c] = r /\ \A s \in Clients \ {c} : ses'[s] = I!Rest
    BY <2>1 DEF ImportInv, ImportType, OneAtWork
  <2>4. OneAtWork(c)'
    BY <1>2, <2>1, <2>3 DEF OneAtWork, Made
  <2> QED BY <2>2, <2>3, <2>4
<1> QED BY <1>1, <1>2 DEF ImportInv

(* The step that ends a session.                                            *)
LEMMA CloseStep ==
  ASSUME ImportInv, NEW c \in Clients, ses[c] # I!Rest, ses' = [ses EXCEPT ![c] = I!Rest],
         ids' \subseteq Rows \X Nat, live' \subseteq Rows \X Nat, status' \in I!Statuses,
         queue' \in Nat, runs' \in Nat, raced' = raced, again' = again, broke => broke',
         I!Rest \in Loads,
         ~(raced \/ again \/ broke)' /\ MadeOnce /\ OneAtWork(c) => MadeOnce'
  PROVE  ImportInv'
<1>1. ImportType'
  BY DEF ImportInv, ImportType
<1>2. ASSUME ~(raced \/ again \/ broke)'
      PROVE  MadeOnce' /\ \A s \in Clients : ses'[s] # I!Rest => OneAtWork(s)'
  <2>1. MadeOnce /\ OneAtWork(c) /\ ImportType
    BY <1>2 DEF ImportInv
  <2> QED BY <1>2, <2>1, ImportIdle
<1> QED BY <1>1, <1>2 DEF ImportInv

LEMMA RequestStep ==
  ASSUME ImportInv, I!Accept \/ I!Preview
  PROVE  ImportInv'
<1>1. CASE I!Accept
  <2>1. /\ UNCHANGED <<status, ids, live, runs, ses, again, broke>> /\ queue' = queue + 1
        /\ raced' = (raced \/ I!Busy) /\ status # "completed"
    BY <1>1 DEF I!Accept, I!Committable, I!job, I!site
  <2>2. ImportType'
    BY <2>1 DEF ImportInv, ImportType
  <2>3. ASSUME ~(raced \/ again \/ broke)'
        PROVE  MadeOnce' /\ \A s \in Clients : ses'[s] = I!Rest
    <3>1. MadeOnce /\ \A s \in Clients : ses[s] = I!Rest
      BY <2>1, <2>3 DEF ImportInv, I!Busy
    <3> QED BY <2>1, <3>1 DEF MadeOnce, Made
  <2> QED BY <2>2, <2>3 DEF ImportInv
<1>2. CASE I!Preview
  <2>1. /\ UNCHANGED <<ids, live, runs, ses, queue, raced, broke>> /\ status' = "uploaded"
        /\ again' = (again \/ status = "completed")
    BY <1>2 DEF I!Preview, I!job, I!site
  <2>2. ImportType'
    BY <2>1 DEF ImportInv, ImportType, I!Statuses
  <2>3. ASSUME ~(raced \/ again \/ broke)'
        PROVE  MadeOnce' /\ \A s \in Clients : ses'[s] # I!Rest => OneAtWork(s)'
    <3>1. MadeOnce /\ Made = {} /\ \A s \in Clients : ses[s] # I!Rest => OneAtWork(s)
      BY <2>1, <2>3 DEF ImportInv, MadeOnce
    <3> QED BY <2>1, <3>1 DEF MadeOnce, Made, OneAtWork
  <2> QED BY <2>2, <2>3 DEF ImportInv
<1> QED BY <1>1, <1>2

LEMMA LoadStep ==
  ASSUME ImportInv, NEW c \in Clients,
         I!CommitInline(c) \/ I!WorkerRun(c) \/ I!LoadRollback(c) \/ I!LoadValidate(c)
  PROVE  ImportInv'
<1> DEFINE r0 == [I!Rest EXCEPT !.at = "loaded", !.ids = ids, !.todo = Rows, !.run = runs + 1]
           h0(what) == [I!Rest EXCEPT !.at = what, !.st = status, !.ids = ids]
<1>1. ImportType /\ queue \in Nat /\ runs \in Nat
  BY DEF ImportInv, ImportType
<1>2. /\ r0 \in Loads /\ r0.put = {} /\ r0.at = "loaded"
      /\ \A what \in {"rolling back", "validating"} :
           h0(what) \in Loads /\ h0(what).put = {} /\ h0(what).at = what /\ h0(what).ids = ids /\ h0(what).st = status
  <2>1. I!Rest.put = {} /\ I!Rest \in Loads
    BY DEF I!Rest, Loads, I!Statuses
  <2>2. ids \in SUBSET (Rows \X Nat) /\ status \in I!Statuses /\ Rows \in SUBSET Rows /\ runs + 1 \in Nat
    BY <1>1 DEF ImportType
  <2>3. r0 \in Loads /\ r0.put = {} /\ r0.at = "loaded"
    BY <2>1, <2>2 DEF Loads
  <2>4. ASSUME NEW what \in {"rolling back", "validating"}
        PROVE  h0(what) \in Loads /\ h0(what).put = {} /\ h0(what).at = what /\ h0(what).ids = ids /\ h0(what).st = status
    BY <2>1, <2>2 DEF Loads
  <2> QED BY <2>3, <2>4
<1>a. ~I!Busy => queue = 0 /\ \A s \in Clients \ {c} : ses[s] = I!Rest
  BY <1>1 DEF I!Busy
<1>3. CASE I!CommitInline(c)
  <2>1. /\ ses[c] = I!Rest /\ ses' = [ses EXCEPT ![c] = r0] /\ runs' = runs + 1
        /\ UNCHANGED <<status, ids, live, queue, again, broke>>
        /\ raced' = (raced \/ I!Busy) /\ status # "completed"
    BY <1>3 DEF I!CommitInline, I!Load, I!Committable, I!job, I!site
  <2>2. ~raced' => queue' = 0 /\ \A s \in Clients \ {c} : ses[s] = I!Rest
    BY <1>a, <2>1
  <2>3. ~raced' /\ ~again /\ ~broke => Made = {}
    BY <2>1 DEF ImportInv, MadeOnce
  <2>4. (raced => raced') /\ queue' \in Nat
    BY <1>1, <2>1
  <2>5. runs' \in Nat
    BY <1>1, <2>1
  <2> HIDE DEF r0
  <2> QED BY <1>1, <1>2, <2>1, <2>2, <2>3, <2>4, <2>5, OpenStep
<1>4. CASE I!WorkerRun(c)
  <2>1. /\ ses[c] = I!Rest /\ ses' = [ses EXCEPT ![c] = r0] /\ runs' = runs + 1
        /\ UNCHANGED <<status, ids, live, again, broke>> /\ queue > 0 /\ queue' = queue - 1
        /\ raced' = (raced \/ queue > 1 \/ \E s \in Clients : ses[s] # I!Rest)
    BY <1>4 DEF I!WorkerRun, I!Load, I!job, I!site
  <2>2. queue' \in Nat /\ (~raced' => queue' = 0 /\ \A s \in Clients \ {c} : ses[s] = I!Rest)
    <3>1. ~raced' => ~(queue > 1) /\ ~raced /\ \A s \in Clients \ {c} : ses[s] = I!Rest
      BY <2>1
    <3>2. queue - 1 \in Nat /\ (~(queue > 1) => queue - 1 = 0)
      BY <1>1, <2>1
    <3> QED BY <2>1, <3>1, <3>2
  <2>3. ~raced' /\ ~again /\ ~broke => Made = {}
    <3>1. queue # 0
      BY <1>1, <2>1
    <3> QED BY <2>1, <3>1 DEF ImportInv, MadeOnce
  <2>4. raced => raced'
    BY <2>1
  <2>5. runs' \in Nat
    BY <1>1, <2>1
  <2> HIDE DEF r0
  <2> QED BY <1>1, <1>2, <2>1, <2>2, <2>3, <2>4, <2>5, OpenStep
<1>5. ASSUME NEW what \in {"rolling back", "validating"}, I!Hold(c, what)
      PROVE  ImportInv'
  <2>1. /\ ses[c] = I!Rest /\ ses' = [ses EXCEPT ![c] = h0(what)]
        /\ UNCHANGED <<status, ids, live, queue, runs, again, broke>>
        /\ raced' = (raced \/ I!Busy)
    BY <1>5 DEF I!Hold, I!job, I!site
  <2>2. ~raced' => queue' = 0 /\ \A s \in Clients \ {c} : ses[s] = I!Rest
    BY <1>a, <2>1
  <2>3. h0(what) \in Loads /\ h0(what).put = {} /\ h0(what).at = what /\ h0(what).ids = ids /\ h0(what).st = status
    BY <1>2
  <2> HIDE DEF h0
  <2> QED BY <1>1, <2>1, <2>2, <2>3, OpenStep
<1> QED BY <1>3, <1>4, <1>5 DEF I!LoadRollback, I!LoadValidate

LEMMA ImportingStep ==
  ASSUME ImportInv, NEW c \in Clients,
         I!Begin(c) \/ \E k \in Rows : I!ImportRow(c, k) \/ I!SkipRow(c, k)
  PROVE  ImportInv'
<1>1. ImportType /\ ses[c] \in Loads
  BY DEF ImportInv, ImportType
<1>2. CASE I!Begin(c)
  <2> DEFINE r == [ses[c] EXCEPT !.at = "importing"]
  <2>1. /\ ses[c].at = "loaded" /\ ses' = [ses EXCEPT ![c] = r]
        /\ status' \in {status, "importing"}
        /\ UNCHANGED <<ids, live, queue, runs, raced, again, broke>>
    BY <1>2 DEF I!Begin, I!site, I!aux
  <2>2. r \in Loads /\ r.at = "importing" /\ r.put = ses[c].put /\ r.new = ses[c].new /\ r.run = ses[c].run
    BY <1>1 DEF Loads
  <2>3. ses[c] # I!Rest /\ status' \in I!Statuses
    BY <1>1, <2>1 DEF I!Rest, I!Statuses, ImportType
  <2> HIDE DEF r
  <2> QED BY <2>1, <2>2, <2>3, WorkStep
<1>3. ASSUME NEW k \in Rows, I!ImportRow(c, k) \/ I!SkipRow(c, k) PROVE ImportInv'
  <2>1. /\ ses[c].at = "importing" /\ UNCHANGED <<status, ids, live, queue, runs, raced, again, broke>>
    BY <1>3 DEF I!ImportRow, I!SkipRow, I!Importing, I!job, I!site, I!aux
  <2>2. ses[c] # I!Rest /\ status \in I!Statuses
    BY <1>1, <2>1 DEF I!Rest, ImportType
  <2>3. \E r \in Loads : /\ ses' = [ses EXCEPT ![c] = r] /\ r.at = "importing" /\ r.run = ses[c].run
                         /\ (ses[c].put \subseteq ses[c].new => r.put \subseteq r.new)
                         /\ ((\A x \in ses[c].put : x[2] = ses[c].run) => \A x \in r.put : x[2] = r.run)
    <3>1. CASE ses' = [ses EXCEPT ![c].todo = @ \ {k}]
      <4> DEFINE r == [ses[c] EXCEPT !.todo = @ \ {k}]
      <4>1. r \in Loads /\ r.at = "importing" /\ r.put = ses[c].put /\ r.new = ses[c].new /\ r.run = ses[c].run
        BY <1>1, <2>1 DEF Loads
      <4>2. ses' = [ses EXCEPT ![c] = r]
        BY <3>1
      <4> HIDE DEF r
      <4> QED BY <4>1, <4>2
    <3>2. CASE ses' = [ses EXCEPT ![c] = I!Insert(c, k)]
      <4> DEFINE r == I!Insert(c, k)
      <4>1. /\ r \in Loads /\ r.at = "importing" /\ r.run = ses[c].run
            /\ r.put = ses[c].put \cup {<<k, ses[c].run>>} /\ r.new = ses[c].new \cup {<<k, ses[c].run>>}
        <5> DEFINE x == <<k, ses[c].run>>
        <5>1. x \in Rows \X Nat
          BY <1>1 DEF Loads
        <5>2. r = [ses[c] EXCEPT !.todo = ses[c].todo \ {k}, !.put = ses[c].put \cup {x}, !.new = ses[c].new \cup {x}]
          BY DEF I!Insert
        <5> HIDE DEF x, r
        <5>3. /\ r \in Loads /\ r.at = "importing" /\ r.run = ses[c].run
              /\ r.put = ses[c].put \cup {x} /\ r.new = ses[c].new \cup {x}
          BY <1>1, <2>1, <5>1, <5>2 DEF Loads
        <5> QED BY <5>3 DEF x
      <4>2. ses' = [ses EXCEPT ![c] = r]
        BY <3>2
      <4>3. <<k, ses[c].run>>[2] = ses[c].run
        OBVIOUS
      <4> HIDE DEF r
      <4> QED BY <4>1, <4>2, <4>3
    <3>3. ASSUME NEW more \in SUBSET (Rows \X Nat),
                 ses' = [ses EXCEPT ![c] = [ses[c] EXCEPT !.todo = ses[c].todo \ {k},
                                                          !.new = ses[c].new \cup more]]
          PROVE  \E r \in Loads : /\ ses' = [ses EXCEPT ![c] = r] /\ r.at = "importing" /\ r.run = ses[c].run
                         /\ (ses[c].put \subseteq ses[c].new => r.put \subseteq r.new)
                         /\ ((\A x \in ses[c].put : x[2] = ses[c].run) => \A x \in r.put : x[2] = r.run)
      <4> DEFINE r == [ses[c] EXCEPT !.todo = ses[c].todo \ {k}, !.new = ses[c].new \cup more]
      <4>1. /\ r \in Loads /\ r.at = "importing" /\ r.run = ses[c].run
            /\ r.put = ses[c].put /\ r.new = ses[c].new \cup more
        BY <1>1, <2>1 DEF Loads
      <4>2. ses' = [ses EXCEPT ![c] = r]
        BY <3>3
      <4> HIDE DEF r
      <4> QED BY <4>1, <4>2
    <3> DEFINE hits == {x \in live : x[1] = k}
               gain == IF policy = "skip" THEN {} ELSE {CHOOSE x \in hits : TRUE}
    <3>4. CASE I!ImportRow(c, k) /\ ~(policy = "create_duplicate" \/ hits = {})
      <4>1. gain \in SUBSET (Rows \X Nat)
        BY <1>1, <3>4 DEF ImportType
      <4>2. ses' = [ses EXCEPT ![c] = [ses[c] EXCEPT !.todo = ses[c].todo \ {k},
                                                     !.new = ses[c].new \cup gain]]
        BY <3>4 DEF I!ImportRow
      <4> HIDE DEF gain
      <4> QED BY <3>3, <4>1, <4>2
    <3>5. CASE I!ImportRow(c, k) /\ (policy = "create_duplicate" \/ hits = {})
      BY <3>2, <3>5 DEF I!ImportRow
    <3>6. CASE I!SkipRow(c, k)
      BY <3>1, <3>6 DEF I!SkipRow
    <3> QED BY <1>3, <3>4, <3>5, <3>6
  <2> QED BY <2>1, <2>2, <2>3, WorkStep
<1> QED BY <1>2, <1>3

LEMMA EndStep ==
  ASSUME ImportInv, NEW c \in Clients,
         \/ I!Complete(c) \/ I!Break(c) \/ I!Missing(c) \/ I!Lose(c)
         \/ I!Rollback(c) \/ I!Validate(c)
  PROVE  ImportInv'
<1>1. ImportType /\ ses[c] \in Loads /\ queue \in Nat /\ runs \in Nat
  BY DEF ImportInv, ImportType
<1>2. I!Rest \in Loads /\ I!Rest.at = "rest"
  BY DEF I!Rest, Loads, I!Statuses
<1>3. ses' = [ses EXCEPT ![c] = I!Rest] /\ ses[c].at # "rest" /\ runs' = runs /\ raced' = raced /\ again' = again
  BY DEF I!Complete, I!Break, I!Missing, I!Lose, I!Rollback, I!Validate, I!Close, I!site, I!aux
<1>4. ses[c] # I!Rest
  BY <1>2, <1>3
<1>5. CASE I!Complete(c)
  <2>1. /\ live' = live \cup ses[c].put /\ ids' = ses[c].ids \cup ses[c].new /\ status' = "completed"
        /\ UNCHANGED <<queue, broke>> /\ ses[c].at = "importing"
    BY <1>5 DEF I!Complete, I!site, I!aux
  <2>2. ids' \subseteq Rows \X Nat /\ live' \subseteq Rows \X Nat /\ status' \in I!Statuses
    BY <1>1, <2>1 DEF ImportType, Loads, I!Statuses
  <2>3. ASSUME OneAtWork(c) PROVE MadeOnce'
    <3>1. Made' \subseteq ses[c].put /\ Made' \subseteq ids' /\ queue' = 0
      BY <2>1, <2>3 DEF Made, OneAtWork
    <3>2. \A r \in ses[c].put : r[2] = ses[c].run /\ r \in Rows \X Nat
      BY <1>1, <2>1, <2>3 DEF OneAtWork, Loads
    <3>3. \A r, s \in Made' : r[1] = s[1] => r = s
      BY <3>1, <3>2
    <3> QED BY <2>1, <3>1, <3>3 DEF MadeOnce
  <2> QED BY <1>1, <1>2, <1>3, <1>4, <2>1, <2>2, <2>3, CloseStep
<1>6. CASE I!Break(c)
  <2>1. live' = live \cup ses[c].put /\ ids' = ids /\ status' = "failed" /\ broke' = TRUE /\ queue' \in {queue, queue + 1}
    BY <1>6 DEF I!Break, I!Retry, I!site
  <2>2. live' \subseteq Rows \X Nat /\ status' \in I!Statuses /\ ids' \subseteq Rows \X Nat
    BY <1>1, <2>1 DEF ImportType, Loads, I!Statuses
  <2>3. queue' \in Nat
    BY <1>1, <2>1
  <2> QED BY <1>1, <1>2, <1>3, <1>4, <2>1, <2>2, <2>3, CloseStep
<1>7. CASE I!Missing(c) \/ I!Lose(c)
  <2>1. /\ UNCHANGED <<live, ids, broke>> /\ status' \in {status, "failed"} /\ queue' \in {queue, queue + 1}
        /\ ses[c].at \in {"loaded", "importing"}
    BY <1>7 DEF I!Missing, I!Lose, I!Retry, I!site, I!aux, I!job
  <2>2. status' \in I!Statuses /\ queue' \in Nat /\ ids' \subseteq Rows \X Nat /\ live' \subseteq Rows \X Nat
    BY <1>1, <2>1 DEF ImportType, I!Statuses
  <2>3. ASSUME OneAtWork(c) PROVE MadeOnce'
    BY <2>1, <2>3 DEF MadeOnce, Made, OneAtWork
  <2> QED BY <1>1, <1>2, <1>3, <1>4, <2>1, <2>2, <2>3, CloseStep
<1>8. CASE I!Rollback(c)
  <2>1. /\ live' = live \ ses[c].ids /\ ids' = {} /\ status' = "rolled_back" /\ UNCHANGED <<queue, broke>>
        /\ ses[c].at = "rolling back"
    BY <1>8 DEF I!Rollback, I!site, I!aux
  <2>2. status' \in I!Statuses /\ ids' \subseteq Rows \X Nat /\ live' \subseteq Rows \X Nat
    BY <1>1, <2>1 DEF ImportType, I!Statuses
  <2>3. ASSUME OneAtWork(c), MadeOnce PROVE MadeOnce'
    BY <2>1, <2>3 DEF MadeOnce, Made, OneAtWork
  <2> QED BY <1>1, <1>2, <1>3, <1>4, <2>1, <2>2, <2>3, CloseStep
<1>9. CASE I!Validate(c)
  <2>1. /\ status' = ses[c].st /\ UNCHANGED <<ids, live, queue, broke>> /\ ses[c].at = "validating"
    BY <1>9 DEF I!Validate, I!site, I!aux
  <2>2. status' \in I!Statuses /\ ids' \subseteq Rows \X Nat /\ live' \subseteq Rows \X Nat
    BY <1>1, <2>1 DEF ImportType, Loads
  <2>3. ASSUME OneAtWork(c), MadeOnce PROVE MadeOnce'
    BY <2>1, <2>3 DEF MadeOnce, Made, OneAtWork
  <2> QED BY <1>1, <1>2, <1>3, <1>4, <2>1, <2>2, <2>3, CloseStep
<1> QED BY <1>5, <1>6, <1>7, <1>8, <1>9

LEMMA ImportStutter ==
  ASSUME ImportInv, UNCHANGED ivars
  PROVE  ImportInv'
BY DEF ImportInv, ImportType, ivars, MadeOnce, Made, OneAtWork

(* A row of the file is in the table at most once, and where the job's      *)
(* rollback finds it, unless two sessions or two accepted commits held the  *)
(* job at once, a preview reopened it, or a source broke off under a run.   *)
THEOREM RowsOnceInPlatform == Spec => []RowsOnce
<1>1. Init => ImportInv
  <2> SUFFICES ASSUME Init PROVE ImportInv
    OBVIOUS
  <2>1. I!Init
    BY DEF Init
  <2>2. I!Rest \in Loads
    BY DEF I!Rest, Loads, I!Statuses
  <2>3. ImportType
    BY <2>1, <2>2 DEF I!Init, ImportType, I!Statuses
  <2>4. Made = {}
    BY <2>1 DEF I!Init, Made
  <2> QED BY <2>1, <2>3, <2>4 DEF I!Init, ImportInv, MadeOnce
<1>2. ImportInv /\ [Next]_vars => ImportInv'
  <2> SUFFICES ASSUME ImportInv, I!Next \/ UNCHANGED ivars PROVE ImportInv'
    BY DEF Next, vars
  <2> QED BY ImportStutter, RequestStep, LoadStep, ImportingStep, EndStep DEF I!Next
<1>3. ImportInv => RowsOnce
  <2> SUFFICES ASSUME ImportInv, ~(raced \/ again \/ broke), NEW k \in Rows
               PROVE  LET T == {r \in live : r[1] = k /\ r[2] # 0}
                      IN I!Cardinality(T) <= 1 /\ T \subseteq ids
    BY DEF RowsOnce, I!RowsOnce
  <2> DEFINE T == {r \in live : r[1] = k /\ r[2] # 0}
  <2>1. MadeOnce
    BY DEF ImportInv
  <2>2. T \subseteq Made /\ T \subseteq ids /\ \A r, s \in T : r = s
    BY <2>1 DEF MadeOnce, Made
  <2>3. Cardinality(T) = I!Cardinality(T)
    BY DEF I!Cardinality, Cardinality
  <2> HIDE DEF T
  <2>4. ASSUME T = {} PROVE Cardinality(T) <= 1
    BY <2>4, FS_EmptySet
  <2>5. ASSUME T # {} PROVE Cardinality(T) <= 1
    <3>1. PICK x \in T : T = {x}
      BY <2>2, <2>5
    <3> QED BY <3>1, FS_Singleton
  <2> QED BY <2>2, <2>3, <2>4, <2>5 DEF T
<1> QED BY <1>1, <1>2, <1>3, PTL DEF Spec

-----------------------------------------------------------------------------
(* The stock.  What a request has read of a line or of the return is still  *)
(* so when it writes, unless two requests have held it at once.  Nothing is *)
(* used of the stock itself but whether it is low.                          *)
Marks == {"", "sent", "received", "gone", "requested"}

Read(r) ==
  r \in [at : {"rest", "moved", "looked", "po", "line", "ret"}, n : Int, qty : {r.qty},
         seen : SUBSET ({"out_of_stock", "low_stock"} \X Int), alone : BOOLEAN, old : Marks,
         rec : [PoLines -> Int], line : PoLines \cup {V!Return}]

ReqType == req = [c \in Clients |-> req[c]] /\ \A c \in Clients : Read(req[c])

StockType ==
  /\ moves \in Int /\ due \in BOOLEAN /\ alerts \subseteq {"out_of_stock", "low_stock"} \X Int
  /\ po \in Marks /\ ret \in Marks /\ ReqType
  /\ quantity \in [PoLines -> Int] /\ received \in [PoLines -> Int]
  /\ given \in [PoLines \cup {V!Return} -> Int] /\ into \in [PoLines \cup {V!Return} -> Int]
  /\ given[V!Return] >= 0 /\ into[V!Return] >= 0

(* What bounds the receipts of a line: nothing about it is negative.        *)
Sound(l) == given[l] >= 0 /\ quantity[l] >= 0

Rising == \A l \in PoLines : Sound(l) => into[l] >= 0

ReadsHold ==
  \A c \in Clients :
    /\ req[c].at = "line" => req[c].line \in PoLines
    /\ \A l \in V!Held(req[c]) \cap PoLines :
         /\ Sound(l) => req[c].rec[l] <= given[l] + into[l]
         /\ l \notin odd => req[c].rec[l] = received[l]
    /\ req[c].at = "ret" /\ ret # "gone" /\ V!Return \notin odd => req[c].old = ret
    /\ \A s \in Clients \ {c} : V!Held(req[c]) \cap V!Held(req[s]) \subseteq odd

(* A review that no other, no hand and no receipt below zero has disturbed  *)
(* has the open alerts before it, and has found the stock low if it is.     *)
ReviewsHold ==
  \A c \in Clients :
    V!Reviewing(c) /\ req[c].alone =>
      /\ \A s \in Clients \ {c} : ~V!Reviewing(s)
      /\ req[c].at = "looked" => /\ V!IsLow(onhand) => V!IsLow(req[c].qty)
                                 /\ req[c].seen = alerts

DocsInv  == StockMatchesReceipts /\ Rising /\ ReadsHold
AlertInv == LowIsAlerted /\ ReviewsHold
StockInv == StockType /\ DocsInv /\ AlertInv

Open(r) == r.at \in {"po", "line", "ret"}

(* All that the documents know of a request. *)
SameDocs(r, q) == q.at = r.at /\ q.old = r.old /\ q.rec = r.rec /\ q.line = r.line

LEMMA HeldCases ==
  ASSUME NEW r, Read(r)
  PROVE  /\ ~Open(r) => V!Held(r) = {}
         /\ r.at = "po" => V!Held(r) = PoLines
         /\ r.at = "line" => V!Held(r) = {r.line}
         /\ r.at = "ret" => V!Held(r) = {V!Return}
<1>1. r.at \in {"rest", "moved", "looked", "po", "line", "ret"}
  BY DEF Read
<1> QED BY <1>1 DEF Open, V!Held

LEMMA RestRead == Read(V!Rest) /\ V!Rest.at = "rest" /\ V!Held(V!Rest) = {}
<1>1. [l \in PoLines |-> 0] \in [PoLines -> Int]
  OBVIOUS
<1>2. {} \in SUBSET ({"out_of_stock", "low_stock"} \X Int) /\ V!Return \in PoLines \cup {V!Return}
  OBVIOUS
<1>3. "" \in Marks /\ 0 \in Int /\ TRUE \in BOOLEAN
  BY DEF Marks
<1>4. Read(V!Rest) /\ V!Rest.at = "rest"
  BY <1>1, <1>2, <1>3 DEF V!Rest, Read
<1> QED BY <1>4, HeldCases DEF Open

(* One request changes what it has read.                                    *)
LEMMA OneRequest ==
  ASSUME ReqType, NEW c \in Clients, NEW r, Read(r), req' = [req EXCEPT ![c] = r]
  PROVE  ReqType' /\ req'[c] = r /\ \A s \in Clients \ {c} : req'[s] = req[s]
<1>1. req'[c] = r /\ \A s \in Clients \ {c} : req'[s] = req[s]
  BY DEF ReqType
<1>2. req' = [s \in Clients |-> req'[s]]
  BY DEF ReqType
<1>3. \A s \in Clients : Read(req[s])'
  BY <1>1 DEF ReqType, Read
<1> QED BY <1>1, <1>2, <1>3 DEF ReqType

(* Steps of a review do not touch the documents, nor does one that is given *)
(* up.                                                                      *)
LEMMA DocsKept ==
  ASSUME StockType, StockType', DocsInv, UNCHANGED <<po, quantity, received, ret, given, into, odd>>,
         \A s \in Clients : ~Open(req'[s]) \/ SameDocs(req[s], req'[s])
  PROVE  DocsInv'
<1>1. \A s \in Clients : Read(req[s]) /\ Read(req'[s])
  BY DEF StockType, ReqType, Read
<1>2. ASSUME NEW s \in Clients
      PROVE  /\ \/ V!Held(req'[s]) = {}
                \/ V!Held(req'[s]) = V!Held(req[s]) /\ req'[s].rec = req[s].rec
             /\ V!Held(req'[s]) \subseteq V!Held(req[s])
  <2>1. CASE ~Open(req'[s])
    <3>1. V!Held(req'[s]) = {}
      BY <1>1, <2>1, HeldCases
    <3> QED BY <3>1
  <2>2. CASE SameDocs(req[s], req'[s])
    BY <2>2 DEF V!Held, SameDocs
  <2> QED BY <2>1, <2>2
<1>3. StockMatchesReceipts' /\ Rising'
  BY DEF DocsInv, StockMatchesReceipts, V!StockMatchesReceipts, Rising, Sound
<1>4. ReadsHold'
  <2> SUFFICES ASSUME NEW c \in Clients
               PROVE  /\ req'[c].at = "line" => req'[c].line \in PoLines
                      /\ \A l \in V!Held(req'[c]) \cap PoLines :
                           /\ Sound(l) => req'[c].rec[l] <= given[l] + into[l]
                           /\ l \notin odd => req'[c].rec[l] = received[l]
                      /\ req'[c].at = "ret" /\ ret # "gone" /\ V!Return \notin odd => req'[c].old = ret
                      /\ \A s \in Clients \ {c} : V!Held(req'[c]) \cap V!Held(req'[s]) \subseteq odd
    BY DEF ReadsHold, V!Held, Sound
  <2>1. /\ req'[c].at = "line" => req'[c].line \in PoLines
        /\ req'[c].at = "ret" /\ ret # "gone" /\ V!Return \notin odd => req'[c].old = ret
    BY DEF DocsInv, ReadsHold, Open, SameDocs
  <2>2. \A l \in V!Held(req'[c]) \cap PoLines :
           /\ Sound(l) => req'[c].rec[l] <= given[l] + into[l]
           /\ l \notin odd => req'[c].rec[l] = received[l]
    BY <1>2 DEF DocsInv, ReadsHold
  <2>3. \A s \in Clients \ {c} : V!Held(req'[c]) \cap V!Held(req'[s]) \subseteq odd
    <3> SUFFICES ASSUME NEW s \in Clients \ {c} PROVE V!Held(req'[c]) \cap V!Held(req'[s]) \subseteq odd
      OBVIOUS
    <3>1. V!Held(req[c]) \cap V!Held(req[s]) \subseteq odd
      BY DEF DocsInv, ReadsHold
    <3>2. V!Held(req'[c]) \subseteq V!Held(req[c]) /\ V!Held(req'[s]) \subseteq V!Held(req[s])
      BY <1>2
    <3> QED BY <3>1, <3>2
  <2> QED BY <2>1, <2>2, <2>3
<1> QED BY <1>3, <1>4 DEF DocsInv

(* A stock that does not become low unseen.                                 *)
LEMMA AlertsKept ==
  ASSUME AlertInv, UNCHANGED alerts,
         ~due' => ~due /\ (V!IsLow(onhand') => V!IsLow(onhand)),
         \A s \in Clients : V!Reviewing(s)' => V!Reviewing(s),
         \A s \in Clients : V!Reviewing(s)' /\ req'[s].alone =>
           /\ req'[s].at = req[s].at /\ req'[s].qty = req[s].qty
           /\ req'[s].seen = req[s].seen /\ req[s].alone
           /\ V!IsLow(onhand') => V!IsLow(onhand)
  PROVE  AlertInv'
<1>1. LowIsAlerted'
  BY DEF AlertInv, LowIsAlerted, V!LowIsAlerted, V!IsLow
<1>2. ReviewsHold'
  <2> SUFFICES ASSUME NEW c \in Clients, V!Reviewing(c)', req'[c].alone
               PROVE  /\ \A s \in Clients \ {c} : ~V!Reviewing(s)'
                      /\ req'[c].at = "looked" => /\ V!IsLow(onhand') => V!IsLow(req'[c].qty)
                                                  /\ req'[c].seen = alerts'
    BY DEF ReviewsHold, V!IsLow
  <2>1. /\ V!Reviewing(c) /\ req'[c].at = req[c].at /\ req'[c].qty = req[c].qty
        /\ req'[c].seen = req[c].seen /\ req[c].alone /\ (V!IsLow(onhand') => V!IsLow(onhand))
    OBVIOUS
  <2>2. /\ \A s \in Clients \ {c} : ~V!Reviewing(s)
        /\ req[c].at = "looked" => (V!IsLow(onhand) => V!IsLow(req[c].qty)) /\ req[c].seen = alerts
    BY <2>1 DEF AlertInv, ReviewsHold
  <2> QED BY <2>1, <2>2
<1> QED BY <1>1, <1>2 DEF AlertInv

(* A request that is given up, or starts on a document.                     *)
LEMMA AlertsUntouched ==
  ASSUME AlertInv, UNCHANGED <<onhand, alerts, due>>, NEW c \in Clients,
         req'[c].at \notin {"moved", "looked"}, \A s \in Clients \ {c} : req'[s] = req[s]
  PROVE  AlertInv'
<1>1. \A s \in Clients : V!Reviewing(s)' => req'[s] = req[s] /\ V!Reviewing(s)
  BY DEF V!Reviewing
<1> QED BY <1>1, AlertsKept

(* A review starts: it is alone if no other is under way, and ends that of  *)
(* the others to be alone.                                                  *)
LEMMA StartFacts ==
  ASSUME StockType, NEW c \in Clients, NEW r, Read(r), r.at = "moved", V!StartReview(c, r)
  PROVE  /\ ReqType'
         /\ req'[c].at = "moved" /\ (req'[c].alone => \A s \in Clients : ~V!Reviewing(s))
         /\ \A s \in Clients \ {c} : SameDocs(req[s], req'[s]) /\ (req'[s].alone => ~V!Reviewing(s))
<1> DEFINE alone == \A s \in Clients : ~V!Reviewing(s)
           rc == [r EXCEPT !.alone = alone]
           rs(s) == [req[s] EXCEPT !.alone = req[s].alone /\ ~V!Reviewing(s)]
<1>1. req' = [s \in Clients |-> IF s = c THEN rc ELSE rs(s)]
  BY DEF V!StartReview
<1>2. Read(rc) /\ rc.at = "moved" /\ rc.alone = alone
  <2>1. alone \in BOOLEAN
    OBVIOUS
  <2> HIDE DEF alone
  <2> QED BY <2>1 DEF Read
<1>3. ASSUME NEW s \in Clients
      PROVE  Read(rs(s)) /\ SameDocs(req[s], rs(s)) /\ (rs(s).alone => ~V!Reviewing(s))
  <2> DEFINE b == req[s].alone /\ ~V!Reviewing(s)
  <2>1. b \in BOOLEAN /\ (b => ~V!Reviewing(s)) /\ Read(req[s])
    BY DEF StockType, ReqType
  <2>2. rs(s) = [req[s] EXCEPT !.alone = b]
    OBVIOUS
  <2> HIDE DEF b, rs
  <2> QED BY <2>1, <2>2 DEF Read, SameDocs
<1> HIDE DEF rc, rs
<1>4. req'[c] = rc /\ \A s \in Clients \ {c} : req'[s] = rs(s)
  BY <1>1
<1>5. ReqType'
  <2>1. \A s \in Clients : Read(req[s])'
    BY <1>2, <1>3, <1>4 DEF Read
  <2>2. req' = [s \in Clients |-> req'[s]]
    BY <1>1
  <2> QED BY <2>1, <2>2 DEF ReqType
<1>6. req'[c].at = "moved" /\ (req'[c].alone => \A s \in Clients : ~V!Reviewing(s))
  BY <1>2, <1>4
<1> QED BY <1>3, <1>4, <1>5, <1>6

LEMMA StartStep ==
  ASSUME StockInv, NEW c \in Clients,
         V!Recompute(c) \/ \E q \in Gains \cup {-n : n \in Losses} : V!Move(c, q)
  PROVE  StockInv'
<1> DEFINE r == [V!Rest EXCEPT !.at = "moved", !.n = moves + 1]
<1>1. StockType /\ DocsInv /\ AlertInv /\ moves + 1 \in Int
  BY DEF StockInv, StockType
<1>2. /\ req[c] = V!Rest /\ V!StartReview(c, r) /\ moves' = moves + 1
      /\ UNCHANGED <<alerts, po, quantity, received, ret, given, into, odd>>
      /\ due' = TRUE \/ UNCHANGED <<onhand, due>>
  BY DEF V!Recompute, V!Move, V!Add, V!Count, V!docs
<1>3. Read(r) /\ r.at = "moved"
  BY <1>1, RestRead DEF Read
<1> HIDE DEF r
<1>4. /\ ReqType'
      /\ req'[c].at = "moved" /\ (req'[c].alone => \A s \in Clients : ~V!Reviewing(s))
      /\ \A s \in Clients \ {c} : SameDocs(req[s], req'[s]) /\ (req'[s].alone => ~V!Reviewing(s))
  BY <1>1, <1>2, <1>3, StartFacts
<1>5. StockType'
  BY <1>1, <1>2, <1>4 DEF StockType
<1>6. DocsInv'
  <2>1. ~Open(req'[c])
    BY <1>4 DEF Open
  <2> QED BY <1>1, <1>2, <1>4, <1>5, <2>1, DocsKept
<1>7. LowIsAlerted'
  BY <1>1, <1>2 DEF AlertInv, LowIsAlerted, V!LowIsAlerted, V!IsLow
<1>8. ReviewsHold'
  <2> SUFFICES ASSUME NEW s \in Clients, V!Reviewing(s)', req'[s].alone
               PROVE  (\A t \in Clients \ {s} : ~V!Reviewing(t)') /\ req'[s].at # "looked"
    BY DEF ReviewsHold
  <2>1. s = c
    BY <1>4 DEF V!Reviewing, SameDocs
  <2>2. \A t \in Clients \ {c} : ~V!Reviewing(t)'
    BY <1>4, <2>1 DEF V!Reviewing, SameDocs
  <2> QED BY <1>4, <2>1, <2>2
<1> QED BY <1>5, <1>6, <1>7, <1>8 DEF StockInv, AlertInv

LEMMA LookStep ==
  ASSUME StockInv, NEW c \in Clients, V!Look(c)
  PROVE  StockInv'
<1> DEFINE r == [req[c] EXCEPT !.at = "looked", !.qty = onhand, !.seen = alerts]
<1>1. /\ req[c].at = "moved" /\ req' = [req EXCEPT ![c] = r]
      /\ UNCHANGED <<onhand, alerts, moves, due, po, quantity, received, ret, given, into, odd>>
  BY DEF V!Look, V!stock, V!docs
<1>2. StockType /\ ReqType /\ DocsInv /\ AlertInv /\ Read(req[c])
  BY DEF StockInv, StockType, ReqType
<1>3. Read(r) /\ r.at = "looked" /\ r.qty = onhand /\ r.seen = alerts /\ r.alone = req[c].alone
  BY <1>2 DEF StockType, Read
<1> HIDE DEF r
<1>4. ReqType' /\ req'[c] = r /\ \A s \in Clients \ {c} : req'[s] = req[s]
  BY <1>1, <1>2, <1>3, OneRequest
<1>5. StockType'
  BY <1>1, <1>2, <1>4 DEF StockType
<1>6. DocsInv'
  BY <1>1, <1>2, <1>3, <1>4, <1>5, DocsKept DEF Open, SameDocs
<1>7. \A s \in Clients : V!Reviewing(s)' <=> V!Reviewing(s)
  BY <1>1, <1>3, <1>4 DEF V!Reviewing
<1>8. LowIsAlerted'
  BY <1>1, <1>2 DEF AlertInv, LowIsAlerted, V!LowIsAlerted, V!IsLow
<1>9. ReviewsHold'
  <2> SUFFICES ASSUME NEW s \in Clients, V!Reviewing(s)', req'[s].alone
               PROVE  /\ \A t \in Clients \ {s} : ~V!Reviewing(t)'
                      /\ req'[s].at = "looked" => /\ V!IsLow(onhand) => V!IsLow(req'[s].qty)
                                                  /\ req'[s].seen = alerts
    BY <1>1 DEF ReviewsHold, V!IsLow
  <2>1. V!Reviewing(s) /\ req[s].alone
    BY <1>3, <1>4, <1>7
  <2>2. \A t \in Clients \ {s} : ~V!Reviewing(t)'
    BY <1>2, <1>7, <2>1 DEF AlertInv, ReviewsHold
  <2>3. CASE s = c
    BY <1>3, <1>4, <2>2, <2>3
  <2>4. CASE s # c
    BY <1>2, <1>4, <2>1, <2>2, <2>4 DEF AlertInv, ReviewsHold
  <2> QED BY <2>3, <2>4
<1> QED BY <1>5, <1>6, <1>8, <1>9 DEF StockInv, AlertInv

LEMMA ActStep ==
  ASSUME StockInv, NEW c \in Clients, V!Act(c)
  PROVE  StockInv'
<1>1. /\ req[c].at = "looked" /\ req' = [req EXCEPT ![c] = V!Rest] /\ alerts' = V!Reviewed(req[c])
      /\ due' = ~req[c].alone
      /\ UNCHANGED <<onhand, moves, po, quantity, received, ret, given, into, odd>>
  BY DEF V!Act, V!Close, V!docs
<1>2. StockType /\ ReqType /\ DocsInv /\ AlertInv /\ Read(req[c])
  BY DEF StockInv, StockType, ReqType
<1>3. ReqType' /\ req'[c] = V!Rest /\ \A s \in Clients \ {c} : req'[s] = req[s]
  BY <1>1, <1>2, RestRead, OneRequest
<1>4. StockType'
  <2>1. alerts' \subseteq {"out_of_stock", "low_stock"} \X Int
    <3>1. V!AlertType(req[c].qty) \in {"out_of_stock", "low_stock"} /\ req[c].n \in Int
      BY <1>2 DEF V!AlertType, Read
    <3> HIDE DEF V!AlertType
    <3> QED BY <1>1, <1>2, <3>1 DEF V!Reviewed, StockType
  <2>2. due' \in BOOLEAN
    BY <1>1
  <2> QED BY <1>1, <1>2, <1>3, <2>1, <2>2 DEF StockType
<1>5. DocsInv'
  BY <1>1, <1>2, <1>3, <1>4, RestRead, DocsKept DEF Open, SameDocs
<1>6. ~V!Reviewing(c)' /\ V!Reviewing(c) /\ \A s \in Clients \ {c} : V!Reviewing(s)' <=> V!Reviewing(s)
  BY <1>1, <1>3, RestRead DEF V!Reviewing
<1>7. LowIsAlerted'
  <2> SUFFICES ASSUME req[c].alone, V!IsLow(onhand) PROVE alerts' # {}
    BY <1>1 DEF LowIsAlerted, V!LowIsAlerted, V!IsLow
  <2>1. V!IsLow(req[c].qty) /\ req[c].seen = alerts
    BY <1>1, <1>2, <1>6 DEF AlertInv, ReviewsHold
  <2>2. CASE \E a \in req[c].seen : a[1] = V!AlertType(req[c].qty)
    BY <1>1, <2>1, <2>2 DEF V!Reviewed
  <2>3. CASE ~ \E a \in req[c].seen : a[1] = V!AlertType(req[c].qty)
    BY <1>1, <2>1, <2>3 DEF V!Reviewed
  <2> QED BY <2>2, <2>3
<1>8. ReviewsHold'
  <2> SUFFICES ASSUME NEW s \in Clients \ {c}, V!Reviewing(s)', req'[s].alone PROVE FALSE
    BY <1>6 DEF ReviewsHold
  <2> QED BY <1>2, <1>3, <1>6 DEF AlertInv, ReviewsHold
<1> QED BY <1>4, <1>5, <1>7, <1>8 DEF StockInv, AlertInv

(* Every review that is under way loses that it is alone.                   *)
LEMMA InterferedFacts ==
  ASSUME StockType
  PROVE  /\ DOMAIN V!Interfered = Clients
         /\ \A s \in Clients : /\ Read(V!Interfered[s]) /\ SameDocs(req[s], V!Interfered[s])
                               /\ V!Interfered[s].alone => ~V!Reviewing(s)
<1> DEFINE rs(s) == [req[s] EXCEPT !.alone = req[s].alone /\ ~V!Reviewing(s)]
<1>1. V!Interfered = [s \in Clients |-> rs(s)]
  BY DEF V!Interfered
<1>2. ASSUME NEW s \in Clients
      PROVE  Read(rs(s)) /\ SameDocs(req[s], rs(s)) /\ (rs(s).alone => ~V!Reviewing(s))
  <2> DEFINE b == req[s].alone /\ ~V!Reviewing(s)
  <2>1. b \in BOOLEAN /\ (b => ~V!Reviewing(s)) /\ Read(req[s])
    BY DEF StockType, ReqType
  <2>2. rs(s) = [req[s] EXCEPT !.alone = b]
    OBVIOUS
  <2> HIDE DEF b, rs
  <2> QED BY <2>1, <2>2 DEF Read, SameDocs
<1> HIDE DEF rs
<1> QED BY <1>1, <1>2

LEMMA ResolveStep ==
  ASSUME StockInv, NEW a \in alerts, V!Resolve(a)
  PROVE  StockInv'
<1>1. /\ alerts' = alerts \ {a} /\ due' = TRUE /\ req' = V!Interfered
      /\ UNCHANGED <<onhand, moves, po, quantity, received, ret, given, into, odd>>
  BY DEF V!Resolve, V!docs
<1>2. StockType /\ DocsInv
  BY DEF StockInv
<1>3. \A s \in Clients : /\ Read(req'[s]) /\ SameDocs(req[s], req'[s])
                         /\ req'[s].alone => ~V!Reviewing(s)
  BY <1>1, <1>2, InterferedFacts
<1>4. ReqType'
  <2>1. \A s \in Clients : Read(req[s])'
    BY <1>3 DEF Read
  <2>2. req' = [s \in Clients |-> req'[s]]
    BY <1>1 DEF V!Interfered
  <2> QED BY <2>1, <2>2 DEF ReqType
<1>5. StockType'
  BY <1>1, <1>2, <1>4 DEF StockType
<1>6. DocsInv'
  BY <1>1, <1>2, <1>3, <1>5, DocsKept
<1>7. LowIsAlerted'
  BY <1>1 DEF LowIsAlerted, V!LowIsAlerted
<1>8. ReviewsHold'
  BY <1>3 DEF ReviewsHold, V!Reviewing, SameDocs
<1> QED BY <1>5, <1>6, <1>7, <1>8 DEF StockInv, AlertInv

(* A commit on a document: its request ends, the others keep what they have *)
(* read, and the stock does not become low unseen.                          *)
LEMMA StockFacts ==
  ASSUME StockType, AlertInv, NEW c \in Clients, Open(req[c]), NEW sums, V!Stock(c, sums), UNCHANGED alerts
  PROVE  /\ moves' \in Int /\ due' \in BOOLEAN /\ ReqType' /\ AlertInv'
         /\ req'[c] = V!Rest /\ \A s \in Clients \ {c} : SameDocs(req[s], req'[s])
<1> DEFINE lowers == V!IsLow(onhand') /\ ~V!IsLow(onhand)
           base == IF lowers THEN V!Interfered ELSE req
<1>1. due' = (due \/ lowers) /\ req' = [base EXCEPT ![c] = V!Rest]
  BY DEF V!Stock
<1>2. moves' \in Int
  BY DEF V!Stock, V!Add, V!Count, StockType
<1>3. due' \in BOOLEAN /\ (~due' => ~due /\ ~lowers)
  <2> HIDE DEF lowers
  <2> QED BY <1>1 DEF StockType
<1>4. DOMAIN base = Clients /\ \A s \in Clients : /\ Read(base[s]) /\ SameDocs(req[s], base[s])
                                                 /\ (lowers /\ base[s].alone => ~V!Reviewing(s))
                                                 /\ (~lowers => base[s] = req[s])
  <2>1. CASE lowers
    <3> HIDE DEF lowers
    <3> QED BY <2>1, InterferedFacts
  <2>2. CASE ~lowers
    <3> HIDE DEF lowers
    <3> QED BY <2>2 DEF StockType, ReqType, SameDocs
  <2> QED BY <2>1, <2>2
<1> HIDE DEF base, lowers
<1>5. req'[c] = V!Rest /\ \A s \in Clients \ {c} : req'[s] = base[s]
  BY <1>1, <1>4
<1>6. ReqType'
  <2>1. \A s \in Clients : Read(req[s])'
    BY <1>4, <1>5, RestRead DEF Read
  <2>2. req' = [s \in Clients |-> req'[s]]
    BY <1>1, <1>4
  <2> QED BY <2>1, <2>2 DEF ReqType
<1>7. AlertInv'
  <2>1. \A s \in Clients : V!Reviewing(s)' => s # c /\ V!Reviewing(s)
    BY <1>4, <1>5, RestRead DEF V!Reviewing, SameDocs
  <2>2. \A s \in Clients : V!Reviewing(s)' /\ req'[s].alone => ~lowers /\ req'[s] = req[s]
    BY <1>4, <1>5, <2>1
  <2>3. ~lowers => (V!IsLow(onhand') => V!IsLow(onhand))
    BY DEF lowers
  <2> QED BY <1>3, <2>1, <2>2, <2>3, AlertsKept
<1> QED BY <1>2, <1>3, <1>4, <1>5, <1>6, <1>7

(* A request writes what it holds, and lets go of it.                       *)
LEMMA WriteDocs ==
  ASSUME StockType, DocsInv, StockType', NEW c \in Clients,
         req'[c] = V!Rest, \A s \in Clients \ {c} : SameDocs(req[s], req'[s]),
         UNCHANGED <<quantity, given>>, odd \subseteq odd',
         \A l \in PoLines : Sound(l) => into[l] <= into'[l],
         \A l \in PoLines : l \in V!Held(req[c]) \/ received'[l] = received[l],
         V!Return \in V!Held(req[c]) \/ ret' = ret, StockMatchesReceipts'
  PROVE  DocsInv'
<1>1. \A s \in Clients : Read(req[s]) /\ (s # c => V!Held(req'[s]) = V!Held(req[s]))
  BY DEF StockType, ReqType, SameDocs, V!Held
<1>2. V!Held(req'[c]) = {} /\ req'[c].at = "rest"
  BY RestRead
<1>3. \A l \in PoLines : /\ into[l] \in Int /\ into'[l] \in Int /\ given[l] \in Int
                         /\ Sound(l)' <=> Sound(l)
  BY DEF StockType, Sound
<1>4. Rising'
  BY <1>3 DEF DocsInv, Rising
<1>5. ReadsHold'
  <2>1. ASSUME NEW s \in Clients \ {c}
        PROVE  /\ req'[s].at = "line" => req'[s].line \in PoLines
               /\ \A l \in V!Held(req'[s]) \cap PoLines :
                    /\ Sound(l) => req'[s].rec[l] <= given[l] + into'[l]
                    /\ l \notin odd' => req'[s].rec[l] = received'[l]
               /\ req'[s].at = "ret" /\ ret' # "gone" /\ V!Return \notin odd' => req'[s].old = ret'
               /\ \A t \in Clients \ {s} : V!Held(req'[s]) \cap V!Held(req'[t]) \subseteq odd'
    <3>1. /\ req[s].at = "line" => req[s].line \in PoLines
          /\ \A l \in V!Held(req[s]) \cap PoLines :
               /\ Sound(l) => req[s].rec[l] <= given[l] + into[l]
               /\ l \notin odd => req[s].rec[l] = received[l]
          /\ req[s].at = "ret" /\ ret # "gone" /\ V!Return \notin odd => req[s].old = ret
          /\ \A t \in Clients \ {s} : V!Held(req[s]) \cap V!Held(req[t]) \subseteq odd
      BY DEF DocsInv, ReadsHold
    <3>2. /\ SameDocs(req[s], req'[s]) /\ V!Held(req'[s]) = V!Held(req[s])
          /\ V!Held(req[c]) \cap V!Held(req[s]) \subseteq odd
      BY <1>1, <3>1
    <3>3. ASSUME NEW l \in V!Held(req[s]) \cap PoLines
          PROVE  /\ Sound(l) => req[s].rec[l] <= given[l] + into'[l]
                 /\ l \notin odd' => req[s].rec[l] = received'[l]
      <4>1. Sound(l) => req[s].rec[l] <= given[l] + into'[l]
        <5>1. req[s].rec[l] \in Int
          BY <1>1 DEF Read
        <5> QED BY <1>3, <3>1, <5>1
      <4>2. l \notin odd' => received'[l] = received[l] /\ req[s].rec[l] = received[l]
        BY <3>1, <3>2
      <4> QED BY <4>1, <4>2
    <3>4. req[s].at = "ret" /\ ret' # "gone" /\ V!Return \notin odd' => req[s].old = ret'
      <4>1. req[s].at = "ret" => V!Return \in V!Held(req[s])
        BY <1>1, HeldCases
      <4> QED BY <3>1, <3>2, <4>1
    <3>5. \A t \in Clients \ {s} : V!Held(req'[s]) \cap V!Held(req'[t]) \subseteq odd'
      BY <1>1, <1>2, <3>1
    <3> QED BY <3>1, <3>2, <3>3, <3>4, <3>5 DEF SameDocs
  <2>2. \A s \in Clients : V!Held(req[s])' = V!Held(req'[s])
    BY DEF V!Held
  <2> QED BY <1>2, <1>3, <2>1, <2>2 DEF ReadsHold
<1> QED BY <1>4, <1>5 DEF DocsInv

LEMMA LoadDocStep ==
  ASSUME StockInv, NEW c \in Clients,
         V!LoadPo(c) \/ V!LoadReturn(c) \/ \E l \in PoLines : V!LoadLine(c, l)
  PROVE  StockInv'
<1>1. PICK what \in {"po", "line", "ret"}, old0 \in Marks, line \in PoLines \cup {V!Return} :
        /\ V!Load(c, what, old0, line)
        /\ what = "line" => line \in PoLines
        /\ what = "ret" => old0 = ret
  <2>1. po \in Marks /\ ret \in Marks
    BY DEF StockInv, StockType
  <2> QED BY <2>1 DEF V!LoadPo, V!LoadReturn, V!LoadLine
<1> DEFINE r == [V!Rest EXCEPT !.at = what, !.old = old0, !.line = line]
           mine == V!Held(r)
           rec == [l \in PoLines |-> IF l \in mine THEN received[l] ELSE 0]
           rc == [r EXCEPT !.rec = rec]
<1>2. /\ req[c] = V!Rest /\ req' = [req EXCEPT ![c] = rc]
      /\ odd' = odd \cup (mine \cap UNION {V!Held(req[s]) : s \in Clients})
      /\ UNCHANGED <<onhand, alerts, moves, due, po, quantity, received, ret, given, into>>
  BY <1>1 DEF V!Load, V!stock
<1>3. StockType /\ ReqType /\ ReadsHold /\ Rising /\ AlertInv /\ StockMatchesReceipts
  BY DEF StockInv, StockType, DocsInv
<1>4. Read(r) /\ r.at = what /\ r.old = old0 /\ r.line = line
  BY RestRead DEF Read
<1>5. Read(rc) /\ rc.at = what /\ rc.old = old0 /\ rc.line = line /\ rc.rec = rec
  <2>1. rec \in [PoLines -> Int]
    BY <1>3 DEF StockType
  <2> HIDE DEF rec, r
  <2> QED BY <1>4, <2>1 DEF Read
<1>6. V!Held(rc) = mine
  <2> HIDE DEF r, rc
  <2> QED BY <1>4, <1>5 DEF V!Held, mine
<1>7. \A l \in mine \cap PoLines : rec[l] = received[l]
  OBVIOUS
<1> HIDE DEF mine, rec, rc, r
<1>8. ReqType' /\ req'[c] = rc /\ \A s \in Clients \ {c} : req'[s] = req[s]
  BY <1>2, <1>3, <1>5, OneRequest
<1>9. StockType'
  BY <1>2, <1>3, <1>8 DEF StockType
<1>10. StockMatchesReceipts' /\ Rising'
  BY <1>2, <1>3 DEF StockMatchesReceipts, V!StockMatchesReceipts, Rising, Sound
<1>11. AlertInv'
  BY <1>1, <1>2, <1>3, <1>5, <1>8, AlertsUntouched
<1>12. ReadsHold'
  <2>1. \A s \in Clients : V!Held(req[s])' = V!Held(req'[s])
    BY DEF V!Held
  <2>2. \A s \in Clients \ {c} : mine \cap V!Held(req[s]) \subseteq odd'
    BY <1>2
  <2>3. \A l \in mine \cap PoLines : (Sound(l) => rec[l] <= given[l] + into[l]) /\ rec[l] = received[l]
    BY <1>3, <1>7 DEF StockMatchesReceipts, V!StockMatchesReceipts, Sound
  <2>4. ASSUME NEW s \in Clients \ {c}
        PROVE  /\ req[s].at = "line" => req[s].line \in PoLines
               /\ \A l \in V!Held(req[s]) \cap PoLines :
                    /\ Sound(l) => req[s].rec[l] <= given[l] + into[l]
                    /\ l \notin odd' => req[s].rec[l] = received[l]
               /\ req[s].at = "ret" /\ ret # "gone" /\ V!Return \notin odd' => req[s].old = ret
               /\ \A t \in Clients \ {s} : V!Held(req'[s]) \cap V!Held(req'[t]) \subseteq odd'
    <3>1. /\ req[s].at = "line" => req[s].line \in PoLines
          /\ \A l \in V!Held(req[s]) \cap PoLines :
               /\ Sound(l) => req[s].rec[l] <= given[l] + into[l]
               /\ l \notin odd => req[s].rec[l] = received[l]
          /\ req[s].at = "ret" /\ ret # "gone" /\ V!Return \notin odd => req[s].old = ret
          /\ \A t \in Clients \ {s} : V!Held(req[s]) \cap V!Held(req[t]) \subseteq odd
      BY <1>3 DEF ReadsHold
    <3>2. odd \subseteq odd'
      BY <1>2
    <3>3. \A t \in Clients \ {s} : V!Held(req'[s]) \cap V!Held(req'[t]) \subseteq odd'
      BY <1>6, <1>8, <2>2, <3>1, <3>2
    <3> QED BY <3>1, <3>2, <3>3
  <2>5. /\ rc.at = "line" => rc.line \in PoLines
        /\ \A l \in V!Held(rc) \cap PoLines : (Sound(l) => rc.rec[l] <= given[l] + into[l]) /\ rc.rec[l] = received[l]
        /\ rc.at = "ret" => rc.old = ret
        /\ \A t \in Clients \ {c} : V!Held(rc) \cap V!Held(req'[t]) \subseteq odd'
    BY <1>1, <1>5, <1>6, <1>8, <2>2, <2>3
  <2>6. \A l \in PoLines : Sound(l)' <=> Sound(l)
    BY <1>2 DEF Sound
  <2> QED BY <1>2, <1>8, <2>1, <2>4, <2>5, <2>6 DEF ReadsHold
<1> QED BY <1>9, <1>10, <1>11, <1>12 DEF StockInv, DocsInv

LEMMA SetPoStep ==
  ASSUME V!InventoryAssumption, StockInv, NEW c \in Clients, NEW new \in V!PoStatuses \ {"gone"}, V!SetPo(c, new)
  PROVE  StockInv'
<1> DEFINE fill == IF new = "received" /\ req[c].old # "received"
                   THEN {l \in Stocked : quantity[l] # 0} ELSE {}
<1>1. PICK sums : V!Stock(c, sums)
  BY DEF V!SetPo
<1>2. /\ req[c].at = "po" /\ po' \in {po, new} /\ UNCHANGED <<alerts, quantity, ret, given>>
      /\ into' = [l \in DOMAIN into |-> IF l \in fill THEN into[l] + quantity[l] ELSE into[l]]
      /\ received' = [l \in PoLines |-> IF l \in fill /\ req[c].rec[l] # quantity[l]
                                        THEN quantity[l] ELSE received[l]]
      /\ odd' = odd \cup {l \in fill : given[l] + into[l] # 0}
  BY DEF V!SetPo
<1>3. StockType /\ DocsInv /\ AlertInv /\ Read(req[c])
  BY DEF StockInv, StockType, ReqType
<1>4. fill \subseteq PoLines /\ V!Return \notin PoLines /\ \A l \in fill : quantity[l] # 0
  BY DEF V!InventoryAssumption
<1> HIDE DEF fill
<1>5. Open(req[c]) /\ V!Held(req[c]) = PoLines
  BY <1>2, <1>3, HeldCases DEF Open
<1>6. /\ moves' \in Int /\ due' \in BOOLEAN /\ ReqType' /\ AlertInv'
      /\ req'[c] = V!Rest /\ \A s \in Clients \ {c} : SameDocs(req[s], req'[s])
  BY <1>1, <1>2, <1>3, <1>5, StockFacts
<1>7. ASSUME NEW l \in PoLines
      PROVE  /\ into'[l] \in Int /\ received'[l] \in Int
             /\ Sound(l) => into[l] <= into'[l] /\ received'[l] <= given[l] + into'[l]
             /\ l \notin odd' => received'[l] = given[l] + into'[l]
  <2>1. /\ into[l] \in Int /\ received[l] \in Int /\ given[l] \in Int /\ quantity[l] \in Int
        /\ req[c].rec[l] \in Int
    BY <1>3 DEF StockType, Read
  <2>2. /\ Sound(l) => given[l] >= 0 /\ quantity[l] >= 0 /\ into[l] >= 0 /\ received[l] <= given[l] + into[l]
        /\ l \notin odd => received[l] = given[l] + into[l] /\ req[c].rec[l] = received[l]
    BY <1>3, <1>5 DEF DocsInv, StockMatchesReceipts, V!StockMatchesReceipts, ReadsHold, Rising, Sound
  <2>3. CASE l \notin fill
    <3>1. into'[l] = into[l] /\ received'[l] = received[l]
      BY <1>2, <1>3, <2>3 DEF StockType
    <3> QED BY <1>2, <2>1, <2>2, <3>1
  <2>4. CASE l \in fill
    <3>1. into'[l] = into[l] + quantity[l] /\ received'[l] \in {quantity[l], received[l]}
      BY <1>2, <1>3, <2>4 DEF StockType
    <3>2. Sound(l) => into[l] <= into'[l] /\ received'[l] <= given[l] + into'[l]
      BY <2>1, <2>2, <3>1
    <3>3. ASSUME l \notin odd' PROVE received'[l] = given[l] + into'[l]
      <4>1. l \notin odd /\ given[l] + into[l] = 0
        BY <1>2, <2>4, <3>3
      <4>2. req[c].rec[l] = 0 /\ quantity[l] # 0
        BY <1>4, <2>2, <2>4, <4>1
      <4>3. received'[l] = quantity[l]
        BY <1>2, <2>4, <4>2
      <4> QED BY <2>1, <3>1, <4>1, <4>3
    <3> QED BY <2>1, <3>1, <3>2, <3>3
  <2> QED BY <2>3, <2>4
<1>8. into'[V!Return] = into[V!Return] /\ ret' = ret /\ given' = given /\ quantity' = quantity
  BY <1>2, <1>3, <1>4 DEF StockType
<1>9. StockType'
  <2>1. po' \in Marks
    BY <1>2, <1>3 DEF StockType, V!PoStatuses, Marks
  <2>2. received' \in [PoLines -> Int]
    BY <1>2, <1>7
  <2>3. into' \in [PoLines \cup {V!Return} -> Int]
    <3>1. \A l \in PoLines \cup {V!Return} : into'[l] \in Int
      BY <1>3, <1>7, <1>8 DEF StockType
    <3>2. into' = [l \in PoLines \cup {V!Return} |-> into'[l]]
      BY <1>2, <1>3 DEF StockType
    <3> QED BY <3>1, <3>2
  <2> QED BY <1>2, <1>3, <1>6, <1>8, <2>1, <2>2, <2>3 DEF StockType
<1>10. StockMatchesReceipts'
  <2>1. V!Return \notin odd' => V!Return \notin odd
    BY <1>2
  <2> QED BY <1>3, <1>7, <1>8, <2>1 DEF DocsInv, StockMatchesReceipts, V!StockMatchesReceipts, Sound
<1>11. DocsInv'
  <2>1. odd \subseteq odd' /\ \A l \in PoLines : Sound(l) => into[l] <= into'[l]
    BY <1>2, <1>7
  <2> QED BY <1>3, <1>5, <1>6, <1>8, <1>9, <1>10, <2>1, WriteDocs
<1> QED BY <1>6, <1>9, <1>11 DEF StockInv

LEMMA ReceiveStep ==
  ASSUME V!InventoryAssumption, StockInv, NEW c \in Clients,
         NEW q \in Gains \cup {-n : n \in Losses}, V!ReceiveLine(c, q)
  PROVE  StockInv'
<1> DEFINE l0 == req[c].line
<1>1. PICK sums : V!Stock(c, sums)
  BY DEF V!ReceiveLine
<1>2. /\ req[c].at = "line" /\ UNCHANGED <<alerts, po, quantity, ret, given, odd>>
      /\ \/ /\ q > 0 /\ into' = [into EXCEPT ![l0] = into[l0] + q]
            /\ received' = [received EXCEPT ![l0] = req[c].rec[l0] + q]
         \/ UNCHANGED <<into, received>>
  BY DEF V!ReceiveLine
<1>3. StockType /\ DocsInv /\ AlertInv /\ Read(req[c])
  BY DEF StockInv, StockType, ReqType
<1>4. l0 \in PoLines /\ V!Return \notin PoLines /\ q \in Int
  BY <1>2, <1>3 DEF V!InventoryAssumption, DocsInv, ReadsHold
<1>5. V!Held(req[c]) = {l0} /\ Open(req[c])
  BY <1>2, <1>3, HeldCases DEF Open
<1>6. /\ moves' \in Int /\ due' \in BOOLEAN /\ ReqType' /\ AlertInv'
      /\ req'[c] = V!Rest /\ \A s \in Clients \ {c} : SameDocs(req[s], req'[s])
  BY <1>1, <1>2, <1>3, <1>5, StockFacts
<1>7. /\ into[l0] \in Int /\ received[l0] \in Int /\ given[l0] \in Int /\ req[c].rec[l0] \in Int
      /\ Sound(l0) => received[l0] <= given[l0] + into[l0] /\ req[c].rec[l0] <= given[l0] + into[l0]
      /\ l0 \notin odd => received[l0] = given[l0] + into[l0] /\ req[c].rec[l0] = received[l0]
  <2>1. into[l0] \in Int /\ received[l0] \in Int /\ given[l0] \in Int /\ req[c].rec[l0] \in Int
    BY <1>3, <1>4 DEF StockType, Read
  <2> QED BY <1>3, <1>4, <1>5, <2>1 DEF DocsInv, StockMatchesReceipts, V!StockMatchesReceipts, ReadsHold, Sound
<1> HIDE DEF l0
<1>8. /\ into' \in [PoLines \cup {V!Return} -> Int] /\ received' \in [PoLines -> Int]
      /\ \A l \in PoLines \ {l0} : into'[l] = into[l] /\ received'[l] = received[l]
      /\ into'[V!Return] = into[V!Return] /\ into[l0] <= into'[l0]
      /\ Sound(l0) => received'[l0] <= given[l0] + into'[l0]
      /\ l0 \notin odd => received'[l0] = given[l0] + into'[l0]
  <2>1. CASE UNCHANGED <<into, received>>
    BY <1>3, <1>7, <2>1 DEF StockType
  <2>2. CASE /\ q > 0 /\ into' = [into EXCEPT ![l0] = into[l0] + q]
             /\ received' = [received EXCEPT ![l0] = req[c].rec[l0] + q]
    <3>1. into[l0] + q \in Int /\ req[c].rec[l0] + q \in Int
      BY <1>4, <1>7
    <3>2. into'[l0] = into[l0] + q /\ received'[l0] = req[c].rec[l0] + q
      BY <1>3, <1>4, <2>2 DEF StockType
    <3>3. /\ into[l0] <= into'[l0] /\ (Sound(l0) => received'[l0] <= given[l0] + into'[l0])
          /\ l0 \notin odd => received'[l0] = given[l0] + into'[l0]
      BY <1>4, <1>7, <2>2, <3>2
    <3>4. /\ into' \in [PoLines \cup {V!Return} -> Int] /\ received' \in [PoLines -> Int]
          /\ \A l \in PoLines \ {l0} : into'[l] = into[l] /\ received'[l] = received[l]
          /\ into'[V!Return] = into[V!Return]
      BY <1>3, <1>4, <2>2, <3>1 DEF StockType
    <3> QED BY <3>3, <3>4
  <2> QED BY <1>2, <2>1, <2>2
<1>9. StockType'
  BY <1>2, <1>3, <1>6, <1>8 DEF StockType
<1>10. ASSUME NEW l \in PoLines
       PROVE  /\ Sound(l) => into[l] <= into'[l] /\ received'[l] <= given[l] + into'[l]
              /\ l \notin odd => received'[l] = given[l] + into'[l]
  <2>1. /\ into[l] \in Int /\ (Sound(l) => received[l] <= given[l] + into[l])
        /\ l \notin odd => received[l] = given[l] + into[l]
    BY <1>3 DEF StockType, DocsInv, StockMatchesReceipts, V!StockMatchesReceipts, Sound
  <2>2. CASE l = l0
    BY <1>8, <2>2
  <2>3. CASE l # l0
    BY <1>8, <2>1, <2>3
  <2> QED BY <2>2, <2>3
<1>11. StockMatchesReceipts'
  BY <1>2, <1>3, <1>8, <1>10 DEF DocsInv, StockMatchesReceipts, V!StockMatchesReceipts, Sound
<1>12. DocsInv'
  BY <1>2, <1>3, <1>5, <1>6, <1>8, <1>9, <1>10, <1>11, WriteDocs
<1> QED BY <1>6, <1>9, <1>12 DEF StockInv

LEMMA SetReturnStep ==
  ASSUME V!InventoryAssumption, StockInv, NEW c \in Clients, NEW new \in V!RetStatuses,
         NEW q, V!SetReturn(c, new, q)
  PROVE  StockInv'
<1>1. PICK sums : V!Stock(c, sums)
  BY DEF V!SetReturn
<1>2. /\ req[c].at = "ret" /\ ret # "gone" /\ UNCHANGED <<alerts, po, quantity, received, given>>
      /\ ret' = (IF new = req[c].old THEN ret ELSE new)
      /\ IF V!Restocks(req[c].old, new)
         THEN /\ into' = [into EXCEPT ![V!Return] = into[V!Return] + 1]
              /\ odd' = odd \cup {l \in {V!Return} : given[l] + into[l] # 0 /\ req[c].old # "received"}
         ELSE UNCHANGED <<into, odd>>
  BY DEF V!SetReturn
<1>3. StockType /\ DocsInv /\ AlertInv /\ Read(req[c]) /\ V!Return \notin PoLines
  BY DEF StockInv, StockType, ReqType, V!InventoryAssumption
<1>4. Open(req[c]) /\ V!Held(req[c]) = {V!Return}
  BY <1>2, <1>3, HeldCases DEF Open
<1>5. /\ moves' \in Int /\ due' \in BOOLEAN /\ ReqType' /\ AlertInv'
      /\ req'[c] = V!Rest /\ \A s \in Clients \ {c} : SameDocs(req[s], req'[s])
  BY <1>1, <1>2, <1>3, <1>4, StockFacts
<1>6. /\ into[V!Return] \in Int /\ into[V!Return] >= 0 /\ given[V!Return] \in Int /\ given[V!Return] >= 0
      /\ V!Return \notin odd => /\ given[V!Return] + into[V!Return] <= 1 /\ req[c].old = ret
                                /\ ret = "received" => given[V!Return] + into[V!Return] = 1
  BY <1>2, <1>3 DEF StockType, DocsInv, StockMatchesReceipts, V!StockMatchesReceipts, ReadsHold
<1>7. /\ odd \subseteq odd' /\ odd' \subseteq odd \cup {V!Return}
      /\ into' \in [PoLines \cup {V!Return} -> Int] /\ into'[V!Return] >= 0
      /\ \A l \in PoLines : into'[l] = into[l]
      /\ V!Return \notin odd' => /\ given[V!Return] + into'[V!Return] <= 1
                                 /\ ret' = "received" => given[V!Return] + into'[V!Return] = 1
  <2>1. CASE V!Restocks(req[c].old, new)
    <3>1. /\ into' = [into EXCEPT ![V!Return] = into[V!Return] + 1] /\ req[c].old # "received"
          /\ odd' = odd \cup {l \in {V!Return} : given[l] + into[l] # 0 /\ req[c].old # "received"}
      BY <1>2, <2>1 DEF V!Restocks
    <3>2. /\ into'[V!Return] = into[V!Return] + 1 /\ \A l \in PoLines : into'[l] = into[l]
          /\ into' \in [PoLines \cup {V!Return} -> Int]
      BY <1>3, <1>6, <3>1 DEF StockType
    <3>3. V!Return \notin odd' => given[V!Return] + into[V!Return] = 0
      BY <3>1
    <3>4. V!Return \notin odd' => given[V!Return] + into'[V!Return] = 1
      BY <1>6, <3>2, <3>3
    <3>5. odd \subseteq odd' /\ odd' \subseteq odd \cup {V!Return} /\ into'[V!Return] >= 0
      BY <1>6, <3>1, <3>2
    <3>6. V!Return \notin odd' => given[V!Return] + into'[V!Return] <= 1
      BY <3>4
    <3> QED BY <3>2, <3>4, <3>5, <3>6
  <2>2. CASE ~V!Restocks(req[c].old, new)
    <3>1. into' = into /\ odd' = odd
      BY <1>2, <2>2
    <3>2. V!Return \notin odd /\ ret' = "received" => ret = "received"
      BY <1>2, <1>6, <2>2 DEF V!Restocks
    <3> QED BY <1>3, <1>6, <3>1, <3>2 DEF StockType
  <2> QED BY <2>1, <2>2
<1>8. StockType'
  <2>1. ret' \in Marks
    BY <1>2, <1>3 DEF StockType, V!RetStatuses, Marks
  <2> QED BY <1>2, <1>3, <1>5, <1>7, <2>1 DEF StockType
<1>9. StockMatchesReceipts' /\ \A l \in PoLines : Sound(l) => into[l] <= into'[l]
  <2>1. \A l \in PoLines : into[l] \in Int /\ (l \notin odd' => l \notin odd)
    BY <1>3, <1>7 DEF StockType
  <2> QED BY <1>2, <1>3, <1>7, <2>1 DEF DocsInv, StockMatchesReceipts, V!StockMatchesReceipts
<1>10. DocsInv'
  BY <1>2, <1>3, <1>4, <1>5, <1>7, <1>8, <1>9, WriteDocs
<1> QED BY <1>5, <1>8, <1>10 DEF StockInv

LEMMA AbortStep ==
  ASSUME StockInv, NEW c \in Clients, V!Abort(c)
  PROVE  StockInv'
<1>1. /\ req' = [req EXCEPT ![c] = V!Rest]
      /\ UNCHANGED <<onhand, alerts, moves, due, po, quantity, received, ret, given, into, odd>>
  BY DEF V!Abort, V!Close, V!stock, V!docs
<1>2. StockType /\ ReqType /\ DocsInv /\ AlertInv
  BY DEF StockInv, StockType
<1>3. ReqType' /\ req'[c] = V!Rest /\ \A s \in Clients \ {c} : req'[s] = req[s]
  BY <1>1, <1>2, RestRead, OneRequest
<1>4. StockType'
  BY <1>1, <1>2, <1>3 DEF StockType
<1>5. DocsInv'
  BY <1>1, <1>2, <1>3, <1>4, RestRead, DocsKept DEF Open, SameDocs
<1>6. AlertInv'
  BY <1>1, <1>2, <1>3, RestRead, AlertsUntouched
<1> QED BY <1>4, <1>5, <1>6 DEF StockInv

(* A deletion, or nothing: what the requests have read is as before.        *)
LEMMA DropStep ==
  ASSUME StockInv, V!DeletePo \/ V!DeleteReturn \/ UNCHANGED vvars
  PROVE  StockInv'
<1>1. /\ UNCHANGED <<onhand, alerts, moves, due, quantity, received, given, into, odd, req>>
      /\ po' \in {po, "gone"} /\ ret' \in {ret, "gone"}
  BY DEF V!DeletePo, V!DeleteReturn, V!stock, vvars
<1>2. StockType'
  BY <1>1 DEF StockInv, StockType, ReqType, Read, Marks
<1>3. StockMatchesReceipts' /\ Rising'
  BY <1>1 DEF StockInv, DocsInv, StockMatchesReceipts, V!StockMatchesReceipts, Rising, Sound
<1>4. AlertInv'
  BY <1>1 DEF StockInv, AlertInv, LowIsAlerted, V!LowIsAlerted, ReviewsHold, V!Reviewing, V!IsLow
<1>5. ReadsHold'
  <2>1. \A c \in Clients : V!Held(req[c])' = V!Held(req[c])
    BY <1>1 DEF V!Held
  <2>2. \A l \in PoLines : Sound(l)' <=> Sound(l)
    BY <1>1 DEF Sound
  <2>3. ReadsHold
    BY DEF StockInv, DocsInv
  <2> QED BY <1>1, <2>1, <2>2, <2>3 DEF ReadsHold
<1> QED BY <1>2, <1>3, <1>4, <1>5 DEF StockInv, DocsInv

LEMMA StockInvariant == Spec => []StockInv
<1>1. V!InventoryAssumption
  BY PlatformAssumption
<1>2. Init => StockInv
  <2> SUFFICES ASSUME Init PROVE StockInv
    OBVIOUS
  <2>1. V!Init
    BY DEF Init
  <2>2. \A c \in Clients : req[c] = V!Rest /\ Read(req[c]) /\ ~Open(req[c]) /\ V!Held(req[c]) = {}
    BY <2>1, RestRead DEF V!Init, Open
  <2>3. /\ quantity \in [PoLines -> Int] /\ received \in [PoLines -> Int] /\ V!Return \notin PoLines
        /\ \A l \in PoLines : given[l] = received[l] /\ into[l] = 0
        /\ given[V!Return] = (IF ret = "received" THEN 1 ELSE 0) /\ into[V!Return] = 0
        /\ given \in [PoLines \cup {V!Return} -> Int] /\ into \in [PoLines \cup {V!Return} -> Int]
    <3>1. /\ quantity \in [PoLines -> Int] /\ received \in [PoLines -> Int] /\ V!Return \notin PoLines
      BY <1>1, <2>1 DEF V!Init, V!InventoryAssumption
    <3>2. /\ given = [l \in PoLines \cup {V!Return} |-> IF l \in PoLines THEN received[l]
                                                       ELSE IF ret = "received" THEN 1 ELSE 0]
          /\ into = [l \in PoLines \cup {V!Return} |-> 0]
      BY <2>1 DEF V!Init
    <3> QED BY <3>1, <3>2
  <2>4. StockType
    <3>1. ReqType
      BY <2>1, <2>2 DEF V!Init, ReqType
    <3>2. /\ po \in {"sent", "received"} /\ ret \in {"requested", "received"}
          /\ moves = 0 /\ due = TRUE /\ alerts = {}
      BY <2>1 DEF V!Init
    <3>3. po \in Marks /\ ret \in Marks
      BY <3>2 DEF Marks
    <3> QED BY <2>3, <3>1, <3>2, <3>3 DEF StockType
  <2>5. StockMatchesReceipts /\ Rising
    BY <2>3 DEF StockMatchesReceipts, V!StockMatchesReceipts, Rising
  <2>6. ReadsHold
    BY <2>2 DEF ReadsHold, Open
  <2>7. AlertInv
    BY <2>1, <2>2, RestRead DEF V!Init, AlertInv, LowIsAlerted, V!LowIsAlerted, ReviewsHold, V!Reviewing
  <2> QED BY <2>4, <2>5, <2>6, <2>7 DEF StockInv, DocsInv
<1>3. StockInv /\ [Next]_vars => StockInv'
  <2> SUFFICES ASSUME StockInv, V!Next \/ UNCHANGED vvars PROVE StockInv'
    BY DEF Next, vars
  <2>1. CASE UNCHANGED vvars
    BY <2>1, DropStep
  <2>2. CASE V!Next
    BY <1>1, <2>2, StartStep, LookStep, ActStep, ResolveStep, LoadDocStep, SetPoStep, ReceiveStep,
      SetReturnStep, AbortStep, DropStep DEF V!Next
  <2> QED BY <2>1, <2>2
<1> QED BY <1>2, <1>3, PTL DEF Spec

(* A line of a purchase order has received what it was created with and has *)
(* put on stock since, and a return is restocked once or was created as     *)
(* received, unless two requests held it at once or it was received before; *)
(* and even then a line of which nothing is negative has received no more.  *)
THEOREM StockMatchesInPlatform == Spec => []StockMatchesReceipts
<1>1. StockInv => StockMatchesReceipts
  BY DEF StockInv, DocsInv
<1> QED BY <1>1, StockInvariant, PTL

(* Low stock has an open alert, once a request alone has reviewed it after  *)
(* the last movement, until a receipt below zero makes the stock low.       *)
THEOREM LowIsAlertedInPlatform == Spec => []LowIsAlerted
<1>1. StockInv => LowIsAlerted
  BY DEF StockInv, AlertInv
<1> QED BY <1>1, StockInvariant, PTL

-----------------------------------------------------------------------------
(* The invoices.                                                            *)
Requests == [at : {"rest", "looked", "numbered", "loaded"}, deal : Deals \cup {NoDeal}, n : Nat,
             id : Nat, lines : SUBSET (Nat \X Nat), total : Nat]

InvoiceType ==
  /\ made \in Nat /\ made <= MaxInvoices /\ invoices \subseteq 1 .. made
  /\ number \in [N!Ids -> Nat] /\ mark \in [N!Ids -> Deals \cup {NoDeal}]
  /\ lines \in [N!Ids -> SUBSET (Nat \X Nat)] /\ total \in [N!Ids -> Nat]
  /\ origin \in [N!Ids -> Deals \cup {NoDeal}] /\ editor \in [Clients -> Requests]
  /\ edits \in Nat

(* A deal without a cause to be invoiced twice has one invoice, which bears *)
(* its marker.                                                              *)
Single(d) ==
  /\ \A i \in invoices : origin[i] = d => mark[i] = d
  /\ \A i, j \in invoices : origin[i] = d /\ origin[j] = d => i = j

Invoiced(d) == \E i \in invoices : origin[i] = d

(* A request that converts it and has not counted finds it without one; one *)
(* that has counted has the next number, or one that is taken.              *)
Numbered(c, d) ==
  /\ editor[c].at = "looked" => ~Invoiced(d)
  /\ editor[c].at = "numbered" =>
       \/ ~Invoiced(d) /\ editor[c].n = N!NextNumber
       \/ editor[c].n > 0 /\ \E i \in invoices : number[i] = editor[c].n

DealsInv ==
  \A d \in Deals \ twice :
    Single(d) /\ \A c \in Clients : editor[c].deal = d => Numbered(c, d)

(* An invoice that two edits have not held at once has one line, which      *)
(* whoever is to rewrite it has loaded.                                     *)
OneLine(i) ==
  /\ \E e, a \in Nat : lines[i] = {<<e, a>>} /\ total[i] = a
  /\ \A c \in Clients : editor[c].at = "loaded" /\ editor[c].id = i =>
       editor[c].lines = lines[i] /\ editor[c].total = total[i]
  /\ \A c, s \in Clients : editor[c].id = i /\ editor[s].id = i => c = s

LinesInv ==
  /\ \A c \in Clients : editor[c].at = "loaded" <=> editor[c].id # 0
  /\ \A c \in Clients : editor[c].id <= made
  /\ \A i \in invoices \ overlapped : OneLine(i)
  /\ overlapped \subseteq invoices

InvoiceInv == InvoiceType /\ DealsInv /\ LinesInv

(* The sum of a bag of one line.  MapThenSumSet is a recursive function; a  *)
(* function that solves its equation exists, and it gives this value.       *)
LEMMA SumOfOne ==
  ASSUME NEW x, x[2] \in Nat
  PROVE  N!MapThenSumSet(LAMBDA l : l[2], {x}) = x[2]
<1> DEFINE pick(s) == CHOOSE y \in s : TRUE
           F(g) == [s \in SUBSET {x} |-> IF s = {} THEN 0 ELSE pick(s)[2] + g[s \ {pick(s)}]]
           sum == CHOOSE g : g = F(g)
           h == [s \in SUBSET {x} |-> IF s = {} THEN 0 ELSE x[2]]
<1>1. N!MapThenSumSet(LAMBDA l : l[2], {x}) = sum[{x}]
  BY DEF N!MapThenSumSet, N!MapThenFoldSet
<1>2. pick({x}) = x
  OBVIOUS
<1>3. \A s \in SUBSET {x} : s = {} \/ s = {x}
  OBVIOUS
<1>4. {x} \ {x} = {} /\ {} \in SUBSET {x} /\ {x} \in SUBSET {x} /\ {x} # {}
  OBVIOUS
<1> HIDE DEF pick
<1>5. h = F(h)
  <2>1. h[{}] = 0 /\ x[2] + 0 = x[2]
    BY <1>4
  <2>2. ASSUME NEW s \in SUBSET {x} PROVE h[s] = IF s = {} THEN 0 ELSE pick(s)[2] + h[s \ {pick(s)}]
    <3>1. CASE s = {}
      BY <1>4, <3>1
    <3>2. CASE s = {x}
      <4>1. h[s] = x[2] /\ pick(s) = x /\ s \ {pick(s)} = {} /\ s # {}
        BY <1>2, <1>4, <3>2
      <4> HIDE DEF h
      <4> QED BY <2>1, <4>1
    <3> QED BY <1>3, <3>1, <3>2
  <2> QED BY <2>2
<1>6. sum = F(sum)
  <2> HIDE DEF F, h
  <2>1. \E g : g = F(g)
    BY <1>5
  <2> QED BY <2>1
<1> HIDE DEF sum
<1>7. sum[{x}] = x[2] + sum[{}] /\ sum[{}] = 0
  <2>1. sum[{}] = 0
    BY <1>4, <1>6
  <2>2. sum[{x}] = pick({x})[2] + sum[{x} \ {pick({x})}]
    BY <1>4, <1>6
  <2> QED BY <1>2, <1>4, <2>1, <2>2
<1> QED BY <1>1, <1>7
LEMMA NextFacts ==
  ASSUME InvoiceType
  PROVE  N!NextNumber \in Nat /\ N!NextNumber > 0
<1> DEFINE T == {i \in invoices : number[i] > 0}
           m == N!Cardinality(T)
<1>1. m \in Nat
  <2>1. IsFiniteSet(1 .. made) /\ T \subseteq 1 .. made
    <3>1. made \in Int /\ invoices \subseteq 1 .. made
      BY DEF InvoiceType
    <3>2. IsFiniteSet(1 .. made)
      BY <3>1, FS_Interval
    <3> QED BY <3>1, <3>2
  <2>2. Cardinality(T) \in Nat
    BY <2>1, FS_Subset, FS_CardinalityType
  <2>3. N!Cardinality(T) = Cardinality(T)
    BY DEF N!Cardinality, Cardinality
  <2> QED BY <2>2, <2>3
<1>2. N!NextNumber = m + 1
  BY DEF N!NextNumber
<1> HIDE DEF m
<1> QED BY <1>1, <1>2

(* What a request that converts a deal finds before it writes.              *)
Current(r) ==
  \A d \in Deals \ twice : r.deal = d =>
    /\ r.at \in {"looked", "numbered"} => ~Invoiced(d)
    /\ r.at = "numbered" => r.n = N!NextNumber

(* What a request reads changes nothing for the others.                     *)
LEMMA ReadStep ==
  ASSUME InvoiceInv, NEW c \in Clients, NEW r \in Requests, editor' = [editor EXCEPT ![c] = r],
         UNCHANGED <<made, invoices, number, mark, lines, total, origin, twice, edits>>,
         Current(r)
  PROVE  InvoiceType' /\ DealsInv'
<1>1. InvoiceType /\ editor'[c] = r /\ \A s \in Clients \ {c} : editor'[s] = editor[s]
  BY DEF InvoiceInv, InvoiceType
<1>2. InvoiceType'
  BY <1>1 DEF InvoiceType, Requests, N!Ids
<1>3. N!NextNumber' = N!NextNumber
  BY DEF N!NextNumber
<1>4. ASSUME NEW d \in Deals \ twice
      PROVE  Single(d)' /\ \A s \in Clients : editor'[s].deal = d => Numbered(s, d)'
  <2>1. Single(d) /\ \A s \in Clients : editor[s].deal = d => Numbered(s, d)
    BY DEF InvoiceInv, DealsInv
  <2>2. Single(d)' /\ (Invoiced(d)' <=> Invoiced(d))
    BY <2>1 DEF Single, Invoiced
  <2>3. \A s \in Clients \ {c} : editor'[s].deal = d => Numbered(s, d)'
    BY <1>1, <1>3, <2>1, <2>2 DEF Numbered
  <2>4. editor'[c].deal = d => Numbered(c, d)'
    BY <1>1, <1>3, <2>2 DEF Numbered, Current
  <2> QED BY <2>2, <2>3, <2>4
<1> QED BY <1>2, <1>4 DEF DealsInv

LEMMA NoId ==
  ASSUME InvoiceInv, NEW c \in Clients, NEW r \in Requests, editor' = [editor EXCEPT ![c] = r],
         UNCHANGED <<made, invoices, lines, total, overlapped>>, r.id = 0, r.at # "loaded"
  PROVE  LinesInv'
<1>1. InvoiceType /\ LinesInv /\ editor'[c] = r /\ \A s \in Clients \ {c} : editor'[s] = editor[s]
  BY DEF InvoiceInv, InvoiceType
<1>2. 0 <= made /\ \A i \in invoices : i # 0
  BY <1>1 DEF InvoiceType
<1>3. ASSUME NEW i \in invoices \ overlapped PROVE OneLine(i)'
  <2>1. OneLine(i) /\ i # 0
    BY <1>1, <1>2 DEF LinesInv
  <2>2. \A s, t \in Clients : editor'[s].id = i /\ editor'[t].id = i => s = t
    BY <1>1, <2>1 DEF OneLine
  <2>3. \A s \in Clients : editor'[s].at = "loaded" /\ editor'[s].id = i =>
          editor'[s].lines = lines[i] /\ editor'[s].total = total[i]
    BY <1>1, <2>1 DEF OneLine
  <2> QED BY <2>1, <2>2, <2>3 DEF OneLine
<1> QED BY <1>1, <1>2, <1>3 DEF LinesInv

LEMMA RestRequest == N!Rest \in Requests /\ N!Rest.at = "rest" /\ N!Rest.deal = NoDeal /\ N!Rest.id = 0
<1>1. {} \in SUBSET (Nat \X Nat) /\ NoDeal \in Deals \cup {NoDeal} /\ 0 \in Nat
  OBVIOUS
<1> QED BY <1>1 DEF N!Rest, Requests

LEMMA AskStep ==
  ASSUME N!InvoicesAssumption, InvoiceInv, NEW c \in Clients,
         \/ \E d \in Deals : N!Look(c, d)
         \/ N!Number(c) \/ \E n \in Named : N!Name(c, n)
         \/ N!Refused(c)
  PROVE  InvoiceInv'
<1>1. InvoiceType /\ DealsInv /\ LinesInv /\ editor[c] \in Requests /\ NoDeal \notin Deals
  BY DEF InvoiceInv, InvoiceType, N!InvoicesAssumption
<1>2. UNCHANGED <<made, invoices, number, mark, lines, total, origin, twice, edits, overlapped>>
  BY DEF N!Look, N!Number, N!Name, N!Refused, N!invoices, N!aux
<1>3. \E r \in Requests : /\ editor' = [editor EXCEPT ![c] = r] /\ r.id = 0 /\ r.at # "loaded"
                          /\ Current(r)
  <2>1. ASSUME NEW d0 \in Deals, N!Look(c, d0)
        PROVE  \E r \in Requests : /\ editor' = [editor EXCEPT ![c] = r] /\ r.id = 0 /\ r.at # "loaded"
                          /\ Current(r)
    <3> DEFINE r == [N!Rest EXCEPT !.at = "looked", !.deal = d0]
    <3>1. r \in Requests /\ r.id = 0 /\ r.at = "looked" /\ r.deal = d0
      BY RestRequest DEF Requests
    <3>2. editor' = [editor EXCEPT ![c] = r] /\ \A i \in invoices : mark[i] # d0
      BY <2>1 DEF N!Look, N!NotInvoiced
    <3>3. d0 \notin twice => ~Invoiced(d0)
      BY <1>1, <3>2 DEF DealsInv, Single, Invoiced
    <3> HIDE DEF r
    <3> QED BY <3>1, <3>2, <3>3 DEF Current
  <2>2. CASE N!Number(c)
    <3> DEFINE r == [editor[c] EXCEPT !.at = "numbered", !.n = N!NextNumber]
    <3>1. /\ r \in Requests /\ r.id = editor[c].id /\ r.at = "numbered" /\ r.deal = editor[c].deal
          /\ r.n = N!NextNumber
      <4>1. N!NextNumber \in Nat
        BY <1>1, NextFacts
      <4> QED BY <1>1, <4>1 DEF Requests
    <3>2. editor' = [editor EXCEPT ![c] = r] /\ (editor[c] = N!Rest \/ editor[c].at = "looked")
      BY <2>2 DEF N!Number
    <3>3. editor[c].id = 0
      BY <1>1, <3>2, RestRequest DEF LinesInv
    <3>4. \A d \in Deals \ twice : editor[c].deal = d => ~Invoiced(d)
      BY <1>1, <3>2, RestRequest DEF DealsInv, Numbered
    <3> HIDE DEF r
    <3> QED BY <3>1, <3>2, <3>3, <3>4 DEF Current
  <2>3. ASSUME NEW n0 \in Named, N!Name(c, n0)
        PROVE  \E r \in Requests : /\ editor' = [editor EXCEPT ![c] = r] /\ r.id = 0 /\ r.at # "loaded"
                          /\ r.deal = NoDeal
    <3> DEFINE r == [N!Rest EXCEPT !.at = "numbered", !.n = n0]
    <3>1. r \in Requests /\ r.id = 0 /\ r.at = "numbered" /\ r.deal = NoDeal
      <4>1. n0 \in Nat
        BY DEF N!InvoicesAssumption
      <4> QED BY <4>1, RestRequest DEF Requests
    <3>2. editor' = [editor EXCEPT ![c] = r]
      BY <2>3 DEF N!Name
    <3> HIDE DEF r
    <3> QED BY <3>1, <3>2
  <2>4. CASE N!Refused(c)
    BY <1>1, <2>4, RestRequest DEF N!Refused, N!Close, Current
  <2> QED BY <1>1, <2>1, <2>2, <2>3, <2>4 DEF Current
<1>4. PICK r \in Requests : /\ editor' = [editor EXCEPT ![c] = r] /\ r.id = 0 /\ r.at # "loaded"
                          /\ Current(r)
  BY <1>3
<1>5. InvoiceType' /\ DealsInv'
  BY <1>2, <1>4, ReadStep
<1>6. LinesInv'
  BY <1>2, <1>4, NoId
<1> QED BY <1>5, <1>6 DEF InvoiceInv

LEMMA LoadInvoiceStep ==
  ASSUME InvoiceInv, NEW c \in Clients, NEW i \in N!Ids, N!Load(c, i)
  PROVE  InvoiceInv'
<1> DEFINE r == [N!Rest EXCEPT !.at = "loaded", !.id = i, !.deal = mark[i],
                               !.n = number[i], !.lines = lines[i], !.total = total[i]]
<1>1. /\ editor[c] = N!Rest /\ i \in invoices /\ editor' = [editor EXCEPT ![c] = r]
      /\ overlapped' = overlapped \cup {j \in {i} : \E s \in Clients : editor[s].id = i}
      /\ UNCHANGED <<made, invoices, number, mark, lines, total, edits, origin, twice>>
  BY DEF N!Load, N!invoices
<1>2. InvoiceType /\ LinesInv
  BY DEF InvoiceInv
<1>3. i \in 1 .. made /\ made \in Nat
  BY <1>1, <1>2 DEF InvoiceType
<1>4. r \in Requests /\ r.at = "loaded" /\ r.id = i /\ r.lines = lines[i] /\ r.total = total[i]
  <2>1. /\ mark[i] \in Deals \cup {NoDeal} /\ number[i] \in Nat /\ lines[i] \in SUBSET (Nat \X Nat)
        /\ total[i] \in Nat /\ i \in Nat
    BY <1>2, <1>3 DEF InvoiceType
  <2> QED BY <2>1, RestRequest DEF Requests
<1> HIDE DEF r
<1>5. InvoiceType' /\ DealsInv'
  <2>1. Current(r)
    BY <1>4 DEF Current
  <2> QED BY <1>1, <1>4, <2>1, ReadStep
<1>6. editor'[c] = r /\ \A s \in Clients \ {c} : editor'[s] = editor[s]
  BY <1>1, <1>2 DEF InvoiceType
<1>7. ASSUME NEW j \in invoices \ overlapped' PROVE OneLine(j)'
  <2>1. OneLine(j)
    BY <1>1, <1>2, <1>7 DEF LinesInv
  <2>2. j = i => \A s \in Clients : editor[s].id # i
    BY <1>1, <1>7
  <2>3. \A s, t \in Clients : editor'[s].id = j /\ editor'[t].id = j => s = t
    BY <1>4, <1>6, <2>1, <2>2 DEF OneLine
  <2>4. \A s \in Clients : editor'[s].at = "loaded" /\ editor'[s].id = j =>
          editor'[s].lines = lines[j] /\ editor'[s].total = total[j]
    BY <1>4, <1>6, <2>1, <2>2 DEF OneLine
  <2> QED BY <1>1, <2>1, <2>3, <2>4 DEF OneLine
<1>8. LinesInv'
  <2>1. \A s \in Clients : (editor'[s].at = "loaded" <=> editor'[s].id # 0) /\ editor'[s].id <= made
    <3>1. r.id # 0 /\ r.id <= made
      BY <1>3, <1>4
    <3> QED BY <1>2, <1>4, <1>6, <3>1 DEF LinesInv
  <2>2. overlapped' \subseteq invoices
    BY <1>1, <1>2 DEF LinesInv
  <2> QED BY <1>1, <1>7, <2>1, <2>2 DEF LinesInv
<1> QED BY <1>5, <1>8 DEF InvoiceInv
LEMMA InsertStep ==
  ASSUME N!InvoicesAssumption, InvoiceInv, NEW c \in Clients, NEW a \in Amounts, N!Insert(c, a)
  PROVE  InvoiceInv'
<1> DEFINE r0 == editor[c]
           i0 == made + 1
<1>1. /\ r0.at = "numbered" /\ (r0.n = 0 \/ \A j \in invoices : number[j] # r0.n) /\ made < MaxInvoices
      /\ made' = i0 /\ invoices' = invoices \cup {i0}
      /\ number' = [number EXCEPT ![i0] = r0.n] /\ mark' = [mark EXCEPT ![i0] = r0.deal]
      /\ lines' = [lines EXCEPT ![i0] = {<<0, a>>}] /\ total' = [total EXCEPT ![i0] = a]
      /\ origin' = [origin EXCEPT ![i0] = r0.deal]
      /\ twice' = twice \cup (N!Disturbed(c) \ {r0.deal}) \cup N!Overtaken(c)
      /\ editor' = [editor EXCEPT ![c] = N!Rest] /\ UNCHANGED <<edits, overlapped>>
  BY DEF N!Insert, N!Free, N!Close
<1>2. InvoiceType /\ DealsInv /\ LinesInv /\ r0 \in Requests /\ NoDeal \notin Deals
  BY DEF InvoiceInv, InvoiceType, N!InvoicesAssumption
<1>3. /\ made \in Nat /\ i0 \in N!Ids /\ i0 \in Nat /\ MaxInvoices \in Nat /\ a \in Nat /\ i0 <= MaxInvoices
      /\ invoices \subseteq 1 .. made
  BY <1>1, <1>2 DEF InvoiceType, N!InvoicesAssumption, N!Ids
<1>4. \A j \in invoices : j # i0 /\ j \in N!Ids /\ j \in 1 .. i0
  <2>1. \A j \in 1 .. made : j # i0 /\ j \in 1 .. i0 /\ j \in N!Ids
    BY <1>1, <1>3 DEF N!Ids
  <2> QED BY <1>3, <2>1
<1>5. /\ editor'[c] = N!Rest /\ \A s \in Clients \ {c} : editor'[s] = editor[s]
      /\ number'[i0] = r0.n /\ mark'[i0] = r0.deal /\ origin'[i0] = r0.deal
      /\ lines'[i0] = {<<0, a>>} /\ total'[i0] = a
      /\ \A j \in invoices : /\ number'[j] = number[j] /\ mark'[j] = mark[j] /\ origin'[j] = origin[j]
                             /\ lines'[j] = lines[j] /\ total'[j] = total[j]
  <2> HIDE DEF i0
  <2> QED BY <1>1, <1>2, <1>3, <1>4 DEF InvoiceType
<1> HIDE DEF i0, r0
<1>6. InvoiceType'
  <2>1. r0.n \in Nat /\ r0.deal \in Deals \cup {NoDeal} /\ {<<0, a>>} \in SUBSET (Nat \X Nat)
    BY <1>2, <1>3 DEF Requests
  <2>2. invoices' \subseteq 1 .. i0
    <3>1. i0 \in 1 .. i0
      BY <1>3 DEF i0
    <3> QED BY <1>1, <1>4, <3>1
  <2>3. editor' \in [Clients -> Requests]
    BY <1>1, <1>2, RestRequest DEF InvoiceType
  <2>4. N!Ids' = N!Ids
    BY DEF N!Ids
  <2> QED BY <1>1, <1>2, <1>3, <2>1, <2>2, <2>3, <2>4 DEF InvoiceType, Requests
<1>7. ASSUME NEW d \in Deals \ twice'
      PROVE  Single(d)' /\ \A s \in Clients : editor'[s].deal = d => Numbered(s, d)'
  <2>1. Single(d) /\ (\A s \in Clients : editor[s].deal = d => Numbered(s, d)) /\ d # NoDeal
    BY <1>1, <1>2, <1>7 DEF DealsInv
  <2>2. editor'[c].deal # d
    BY <1>5, <2>1, RestRequest
  <2>3. CASE r0.deal = d
    <3>1. ~Invoiced(d) /\ r0.n = N!NextNumber /\ r0.n \in Nat /\ r0.n > 0
      <4>1. Numbered(c, d)
        BY <2>1, <2>3 DEF r0
      <4>2. N!NextNumber \in Nat /\ N!NextNumber > 0 /\ r0.n \in Nat
        BY <1>2, NextFacts DEF Requests
      <4>3. ~(r0.n > 0 /\ \E j \in invoices : number[j] = r0.n)
        BY <1>1, <4>2
      <4> QED BY <1>1, <4>1, <4>2, <4>3 DEF Numbered, r0
    <3>2. Single(d)'
      BY <1>1, <1>5, <2>3, <3>1 DEF Single, Invoiced
    <3>3. ASSUME NEW s \in Clients \ {c}, editor'[s].deal = d PROVE Numbered(s, d)'
      <4>1. editor'[s] = editor[s] /\ editor[s].deal = d /\ Numbered(s, d)
        BY <1>5, <2>1, <3>3
      <4>2. editor[s].at # "looked"
        <5>1. N!Converting(c) = {d}
          BY <1>1, <2>1, <2>3 DEF N!Converting, r0
        <5>2. editor[s].at = "looked" => d \in N!Overtaken(c)
          BY <4>1, <5>1 DEF N!Overtaken
        <5> QED BY <1>1, <1>7, <5>2
      <4>3. editor[s].at = "numbered" => editor[s].n > 0 /\ \E j \in invoices' : number'[j] = editor[s].n
        <5>1. CASE editor[s].n = N!NextNumber
          BY <1>1, <1>5, <3>1, <5>1
        <5>2. CASE editor[s].n > 0 /\ \E j \in invoices : number[j] = editor[s].n
          BY <1>1, <1>5, <5>2
        <5> QED BY <4>1, <5>1, <5>2 DEF Numbered
      <4> QED BY <4>1, <4>2, <4>3 DEF Numbered
    <3> QED BY <2>2, <3>2, <3>3
  <2>4. CASE r0.deal # d
    <3>1. Single(d)'
      BY <1>1, <1>5, <2>1, <2>4 DEF Single
    <3>2. ASSUME NEW s \in Clients \ {c}, editor'[s].deal = d PROVE editor[s].at \notin {"looked", "numbered"}
      <4>1. editor[s].deal = d
        BY <1>5, <3>2
      <4>2. editor[s].at \in {"looked", "numbered"} => d \in N!Converting(s)
        BY <2>1, <4>1 DEF N!Converting
      <4>3. d \in N!Converting(s) => d \in N!Disturbed(c)
        BY DEF N!Disturbed
      <4> QED BY <1>1, <1>7, <2>4, <4>2, <4>3
    <3>3. \A s \in Clients \ {c} : editor'[s].deal = d => Numbered(s, d)'
      BY <1>5, <3>2 DEF Numbered
    <3> QED BY <2>2, <3>1, <3>3
  <2> QED BY <2>3, <2>4
<1>8. ASSUME NEW j \in invoices' \ overlapped' PROVE OneLine(j)'
  <2>1. CASE j = i0
    <3>1. \A s \in Clients : editor'[s].id # i0
      <4>1. \A s \in Clients : editor[s].id \in Nat /\ editor[s].id <= made
        BY <1>2 DEF InvoiceType, LinesInv, Requests
      <4>2. \A n \in Nat : n <= made => n # i0
        BY <1>3 DEF i0
      <4>3. N!Rest.id # i0
        BY <1>3, RestRequest DEF i0
      <4> QED BY <1>5, <4>1, <4>2, <4>3
    <3>2. 0 \in Nat /\ lines'[j] = {<<0, a>>} /\ total'[j] = a
      BY <1>5, <2>1
    <3> QED BY <1>3, <2>1, <3>1, <3>2 DEF OneLine
  <2>2. CASE j # i0
    <3>1. j \in invoices \ overlapped /\ OneLine(j) /\ j # 0
      BY <1>1, <1>2, <1>3, <1>8, <2>2 DEF LinesInv
    <3>2. \A s, t \in Clients : editor'[s].id = j /\ editor'[t].id = j => s = t
      BY <1>5, <3>1, RestRequest DEF OneLine
    <3>3. \A s \in Clients : editor'[s].at = "loaded" /\ editor'[s].id = j =>
            editor'[s].lines = lines[j] /\ editor'[s].total = total[j]
      BY <1>5, <3>1, RestRequest DEF OneLine
    <3> QED BY <1>5, <3>1, <3>2, <3>3 DEF OneLine
  <2> QED BY <2>1, <2>2
<1>9. LinesInv'
  <2>1. \A s \in Clients : editor[s].id \in Nat /\ editor[s].id <= made
    BY <1>2 DEF InvoiceType, LinesInv, Requests
  <2>2. \A n \in Nat : n <= made => n <= i0
    BY <1>3 DEF i0
  <2>3. \A s \in Clients : (editor'[s].at = "loaded" <=> editor'[s].id # 0) /\ editor'[s].id <= made'
    BY <1>1, <1>2, <1>3, <1>5, <2>1, <2>2, RestRequest DEF LinesInv
  <2> QED BY <1>1, <1>2, <1>8, <2>3 DEF LinesInv
<1> QED BY <1>6, <1>7, <1>9 DEF InvoiceInv, DealsInv

LEMMA UpdateStep ==
  ASSUME N!InvoicesAssumption, InvoiceInv, NEW c \in Clients, NEW a \in Amounts, NEW keep \in BOOLEAN,
         NEW n \in Named \cup {editor[c].n}, N!Update(c, a, keep, n)
  PROVE  InvoiceInv'
<1> DEFINE r0 == editor[c]
           i0 == r0.id
           m0 == IF keep THEN origin[i0] ELSE NoDeal
<1>1. /\ r0.at = "loaded" /\ i0 \in invoices /\ edits' = edits + 1
      /\ lines' = [lines EXCEPT ![i0] = (lines[i0] \ r0.lines) \cup {<<edits + 1, a>>}]
      /\ total' = IF a = r0.total THEN total ELSE [total EXCEPT ![i0] = a]
      /\ mark' = IF m0 = r0.deal THEN mark ELSE [mark EXCEPT ![i0] = m0]
      /\ number' = IF n = r0.n THEN number ELSE [number EXCEPT ![i0] = n]
      /\ twice' = twice \cup ({origin[i0]} \ {NoDeal, mark'[i0]})
                        \cup (IF number' = number THEN {} ELSE N!Disturbed(c))
      /\ editor' = [editor EXCEPT ![c] = N!Rest] /\ UNCHANGED <<made, invoices, origin, overlapped>>
  BY DEF N!Update, N!Rewritten, N!Close
<1>2. InvoiceType /\ DealsInv /\ LinesInv /\ r0 \in Requests /\ NoDeal \notin Deals
  BY DEF InvoiceInv, InvoiceType, N!InvoicesAssumption
<1>3. i0 \in N!Ids /\ i0 # 0 /\ edits + 1 \in Nat /\ a \in Nat /\ n \in Nat /\ m0 \in Deals \cup {NoDeal}
  <2>1. i0 \in 1 .. made /\ made \in Nat /\ made <= MaxInvoices /\ MaxInvoices \in Nat
    BY <1>1, <1>2 DEF InvoiceType, N!InvoicesAssumption
  <2>2. i0 \in N!Ids /\ i0 # 0
    BY <2>1 DEF N!Ids
  <2>3. origin[i0] \in Deals \cup {NoDeal} /\ edits \in Nat /\ r0.n \in Nat
    BY <1>2, <2>2 DEF InvoiceType, Requests
  <2> QED BY <2>2, <2>3 DEF N!InvoicesAssumption
<1>4. /\ editor'[c] = N!Rest /\ \A s \in Clients \ {c} : editor'[s] = editor[s]
      /\ \A j \in invoices \ {i0} : lines'[j] = lines[j] /\ total'[j] = total[j] /\ mark'[j] = mark[j]
      /\ lines'[i0] = (lines[i0] \ r0.lines) \cup {<<edits + 1, a>>}
      /\ total'[i0] = IF a = r0.total THEN total[i0] ELSE a
  <2> HIDE DEF i0, r0, m0
  <2> QED BY <1>1, <1>2, <1>3 DEF InvoiceType
<1> HIDE DEF m0, i0, r0
<1>5. InvoiceType'
  <2>1. <<edits + 1, a>> \in Nat \X Nat
    BY <1>3
  <2>2. lines' \in [N!Ids -> SUBSET (Nat \X Nat)]
    BY <1>1, <1>2, <1>3, <2>1 DEF InvoiceType
  <2>3. number' \in [N!Ids -> Nat] /\ mark' \in [N!Ids -> Deals \cup {NoDeal}] /\ total' \in [N!Ids -> Nat]
    BY <1>1, <1>2, <1>3 DEF InvoiceType
  <2>4. editor' \in [Clients -> Requests]
    BY <1>1, <1>2, RestRequest DEF InvoiceType
  <2>5. N!Ids' = N!Ids
    BY DEF N!Ids
  <2> QED BY <1>1, <1>2, <1>3, <2>2, <2>3, <2>4, <2>5 DEF InvoiceType, Requests
<1>6. ASSUME NEW d \in Deals \ twice'
      PROVE  Single(d)' /\ \A s \in Clients : editor'[s].deal = d => Numbered(s, d)'
  <2>1. Single(d) /\ (\A s \in Clients : editor[s].deal = d => Numbered(s, d)) /\ d # NoDeal
    BY <1>1, <1>2, <1>6 DEF DealsInv
  <2>2. origin[i0] = d => mark'[i0] = d
    BY <1>1, <1>6, <2>1
  <2>3. Single(d)'
    BY <1>1, <1>4, <2>1, <2>2 DEF Single
  <2>4. ASSUME NEW s \in Clients \ {c}, editor'[s].deal = d PROVE Numbered(s, d)'
    <3>1. editor'[s] = editor[s] /\ editor[s].deal = d /\ Numbered(s, d)
      BY <1>4, <2>1, <2>4
    <3>2. CASE number' = number
      <4>1. N!NextNumber' = N!NextNumber /\ (Invoiced(d)' <=> Invoiced(d))
        BY <1>1, <3>2 DEF N!NextNumber, Invoiced
      <4> QED BY <1>1, <3>1, <3>2, <4>1 DEF Numbered
    <3>3. CASE number' # number
      <4>1. editor[s].at \in {"looked", "numbered"} => d \in N!Converting(s)
        BY <2>1, <3>1 DEF N!Converting
      <4>2. d \in N!Converting(s) => d \in N!Disturbed(c)
        BY DEF N!Disturbed
      <4>3. editor'[s].at \notin {"looked", "numbered"}
        BY <1>1, <1>6, <3>1, <3>3, <4>1, <4>2
      <4> QED BY <4>3 DEF Numbered
    <3> QED BY <3>2, <3>3
  <2>5. editor'[c].deal # d
    BY <1>4, <2>1, RestRequest
  <2> QED BY <2>3, <2>4, <2>5
<1>7. ASSUME NEW j \in invoices \ overlapped PROVE OneLine(j)'
  <2>1. OneLine(j) /\ j # 0
    <3>1. j \in 1 .. made /\ made \in Nat
      BY <1>2 DEF InvoiceType
    <3> QED BY <1>2, <1>7, <3>1 DEF LinesInv
  <2>2. \A s, t \in Clients : editor'[s].id = j /\ editor'[t].id = j => s = t
    BY <1>4, <2>1, RestRequest DEF OneLine
  <2>3. CASE j = i0
    <3>1. r0.lines = lines[j] /\ r0.total = total[j]
      BY <1>1, <2>1, <2>3 DEF OneLine, r0, i0
    <3>2. lines'[j] = {<<edits + 1, a>>} /\ total'[j] = a
      BY <1>4, <2>3, <3>1
    <3>3. \A s \in Clients : editor'[s].id # j
      BY <1>4, <2>1, <2>3, RestRequest DEF OneLine, i0, r0
    <3> QED BY <1>3, <3>2, <3>3 DEF OneLine
  <2>4. CASE j # i0
    <3>1. lines'[j] = lines[j] /\ total'[j] = total[j]
      BY <1>4, <2>4
    <3>2. \A s \in Clients : editor'[s].at = "loaded" /\ editor'[s].id = j =>
            editor'[s].lines = lines'[j] /\ editor'[s].total = total'[j]
      BY <1>4, <2>1, <3>1, RestRequest DEF OneLine
    <3> QED BY <2>1, <2>2, <3>1, <3>2 DEF OneLine
  <2> QED BY <2>3, <2>4
<1>8. LinesInv'
  <2>1. made \in Nat
    BY <1>2 DEF InvoiceType
  <2>2. \A s \in Clients : (editor'[s].at = "loaded" <=> editor'[s].id # 0) /\ editor'[s].id <= made
    BY <1>2, <1>4, <2>1, RestRequest DEF LinesInv
  <2> QED BY <1>1, <1>2, <1>7, <2>2 DEF LinesInv
<1> QED BY <1>5, <1>6, <1>8 DEF InvoiceInv, DealsInv

LEMMA DeleteStep ==
  ASSUME N!InvoicesAssumption, InvoiceInv, NEW i0 \in N!Ids, N!Delete(i0)
  PROVE  InvoiceInv'
<1>1. /\ i0 \in invoices /\ invoices' = invoices \ {i0}
      /\ number' = [number EXCEPT ![i0] = 0] /\ mark' = [mark EXCEPT ![i0] = NoDeal]
      /\ lines' = [lines EXCEPT ![i0] = {}] /\ total' = [total EXCEPT ![i0] = 0]
      /\ origin' = [origin EXCEPT ![i0] = NoDeal] /\ overlapped' = overlapped \ {i0}
      /\ twice' = twice \cup UNION {N!Converting(s) : s \in Clients}
      /\ UNCHANGED <<made, editor, edits>>
  BY DEF N!Delete
<1>2. InvoiceType /\ DealsInv /\ LinesInv /\ NoDeal \notin Deals
  BY DEF InvoiceInv, N!InvoicesAssumption
<1>3. \A j \in invoices' : /\ mark'[j] = mark[j] /\ origin'[j] = origin[j] /\ j \in invoices
                           /\ lines'[j] = lines[j] /\ total'[j] = total[j]
  BY <1>1, <1>2 DEF InvoiceType
<1>4. InvoiceType'
  <2>1. N!Ids' = N!Ids /\ {} \in SUBSET (Nat \X Nat) /\ 0 \in Nat /\ NoDeal \in Deals \cup {NoDeal}
    BY DEF N!Ids
  <2> QED BY <1>1, <1>2, <2>1 DEF InvoiceType, Requests
<1>5. ASSUME NEW d \in Deals \ twice'
      PROVE  Single(d)' /\ \A s \in Clients : editor'[s].deal = d => Numbered(s, d)'
  <2>1. Single(d) /\ d # NoDeal
    BY <1>1, <1>2, <1>5 DEF DealsInv
  <2>2. Single(d)'
    BY <1>3, <2>1 DEF Single
  <2>3. ASSUME NEW s \in Clients, editor'[s].deal = d PROVE editor'[s].at \notin {"looked", "numbered"}
    <3>1. editor[s].at \in {"looked", "numbered"} => d \in N!Converting(s)
      BY <1>1, <2>1, <2>3 DEF N!Converting
    <3> QED BY <1>1, <1>5, <3>1
  <2> QED BY <2>2, <2>3 DEF Numbered
<1>6. LinesInv'
  <2>1. ASSUME NEW j \in invoices' \ overlapped' PROVE OneLine(j)'
    <3>1. OneLine(j)
      BY <1>1, <1>2, <1>3, <2>1 DEF LinesInv
    <3> QED BY <1>1, <1>3, <2>1, <3>1 DEF OneLine
  <2> QED BY <1>1, <1>2, <2>1 DEF LinesInv
<1> QED BY <1>4, <1>5, <1>6 DEF InvoiceInv, DealsInv

LEMMA InvoiceInvariant == Spec => []InvoiceInv
<1>1. N!InvoicesAssumption
  BY PlatformAssumption
<1>2. Init => InvoiceInv
  <2> SUFFICES ASSUME Init PROVE InvoiceInv
    OBVIOUS
  <2>1. /\ made = 0 /\ invoices = {} /\ number = [i \in N!Ids |-> 0] /\ mark = [i \in N!Ids |-> NoDeal]
        /\ lines = [i \in N!Ids |-> {}] /\ total = [i \in N!Ids |-> 0] /\ editor = [c \in Clients |-> N!Rest]
        /\ edits = 0 /\ origin = [i \in N!Ids |-> NoDeal] /\ overlapped = {}
    BY DEF Init, N!Init
  <2>2. InvoiceType
    <3>1. 0 <= MaxInvoices
      BY <1>1 DEF N!InvoicesAssumption
    <3>2. {} \in SUBSET (Nat \X Nat)
      OBVIOUS
    <3> QED BY <2>1, <3>1, <3>2, RestRequest DEF InvoiceType
  <2>3. \A c \in Clients : editor[c].at = "rest" /\ editor[c].id = 0
    BY <2>1, RestRequest
  <2>4. DealsInv /\ LinesInv
    BY <2>1, <2>3 DEF DealsInv, Single, Numbered, LinesInv
  <2> QED BY <2>2, <2>4 DEF InvoiceInv
<1>3. InvoiceInv /\ [Next]_vars => InvoiceInv'
  <2> SUFFICES ASSUME InvoiceInv, N!Next \/ UNCHANGED nvars PROVE InvoiceInv'
    BY DEF Next, vars
  <2>1. CASE UNCHANGED nvars
    <3>1. InvoiceType'
      BY <2>1 DEF nvars, InvoiceInv, InvoiceType, Requests, N!Ids
    <3>2. LinesInv'
      BY <2>1 DEF nvars, InvoiceInv, LinesInv, OneLine
    <3>3. N!NextNumber' = N!NextNumber
      BY <2>1 DEF nvars, N!NextNumber
    <3>4. DealsInv'
      BY <2>1, <3>3 DEF nvars, InvoiceInv, DealsInv, Single, Numbered, Invoiced
    <3> QED BY <3>1, <3>2, <3>4 DEF InvoiceInv
  <2>2. CASE N!Next
    BY <1>1, <2>2, AskStep, InsertStep, LoadInvoiceStep, UpdateStep, DeleteStep DEF N!Next
  <2> QED BY <2>1, <2>2
<1> QED BY <1>2, <1>3, PTL DEF Spec

(* A deal has one invoice when its conversions come one after the other or  *)
(* both count before either commits, for any deals, requests and numbers;   *)
(* unless one counts after the commit of another that it overlaps, another  *)
(* request changes the numbers in use meanwhile, or an edit drops the marker. *)
THEOREM InvoicedOnceInPlatform == Spec => []InvoicedOnce
<1>1. InvoiceInv => InvoicedOnce
  <2> SUFFICES ASSUME InvoiceInv, NEW d \in Deals \ twice
               PROVE  N!Cardinality({i \in invoices : origin[i] = d}) <= 1
    BY DEF InvoicedOnce, N!InvoicedOnce
  <2> DEFINE T == {i \in invoices : origin[i] = d}
  <2>1. \A i, j \in T : i = j
    BY DEF InvoiceInv, DealsInv, Single
  <2>2. Cardinality(T) = N!Cardinality(T)
    BY DEF N!Cardinality, Cardinality
  <2> HIDE DEF T
  <2>3. ASSUME T = {} PROVE Cardinality(T) <= 1
    BY <2>3, FS_EmptySet
  <2>4. ASSUME T # {} PROVE Cardinality(T) <= 1
    <3>1. PICK x \in T : T = {x}
      BY <2>1, <2>4
    <3> QED BY <3>1, FS_Singleton
  <2> QED BY <2>2, <2>3, <2>4 DEF T
<1> QED BY <1>1, InvoiceInvariant, PTL

(* The total of an invoice is that of its lines, unless two edits held it   *)
(* at once.                                                                 *)
THEOREM TotalsMatchInPlatform == Spec => []TotalsMatch
<1>1. InvoiceInv => TotalsMatch
  <2> SUFFICES ASSUME InvoiceInv, NEW i \in invoices \ overlapped
               PROVE  total[i] = N!MapThenSumSet(LAMBDA l : l[2], lines[i])
    BY DEF TotalsMatch, N!TotalsMatch
  <2>1. PICK e \in Nat, a \in Nat : lines[i] = {<<e, a>>} /\ total[i] = a
    BY DEF InvoiceInv, LinesInv, OneLine
  <2>2. <<e, a>>[2] = a /\ a \in Nat
    OBVIOUS
  <2>3. N!MapThenSumSet(LAMBDA l : l[2], {<<e, a>>}) = a
    BY <2>2, SumOfOne
  <2> QED BY <2>1, <2>3
<1> QED BY <1>1, InvoiceInvariant, PTL

-----------------------------------------------------------------------------
(* A nonempty set of naturals has a least number, and a bounded one has a   *)
(* greatest.                                                                *)
LEMMA LeastNat ==
  ASSUME NEW T \in SUBSET Nat, T # {}
  PROVE  \E x \in T : \A y \in T : x <= y
<1> DEFINE below == {ss \in Nat \X Nat : ss[1] < ss[2]}
<1>1. IsWellFoundedOn(OpToRel(<, Nat), Nat)
  BY NatLessThanWellFounded
<1>2. OpToRel(<, Nat) = below
  BY DEF OpToRel
<1>3. IsWellFoundedOn(below, Nat)
  BY <1>1, <1>2
<1>4. \E x \in T : \A y \in T : ~(<<y, x>> \in below)
  BY <1>3, WFMin
<1>5. ASSUME NEW x \in Nat, NEW y \in Nat, ~(<<y, x>> \in below) PROVE x <= y
  <2>1. <<y, x>> \in Nat \X Nat /\ <<y, x>>[1] = y /\ <<y, x>>[2] = x
    OBVIOUS
  <2>2. ~(y < x)
    BY <1>5, <2>1
  <2> QED BY <2>2
<1> HIDE DEF below
<1> QED BY <1>4, <1>5

LEMMA GreatestNat ==
  ASSUME NEW n \in Nat, NEW T \in SUBSET (0 .. n), T # {}
  PROVE  S!Max(T) \in T /\ \A y \in T : y <= S!Max(T)
<1> DEFINE U == {n - x : x \in T}
<1>1. U \in SUBSET Nat /\ U # {}
  <2>1. \A x \in T : n - x \in Nat
    <3>1. \A x \in T : x \in 0 .. n
      OBVIOUS
    <3> QED BY <3>1
  <2> QED BY <2>1
<1>2. PICK u \in U : \A y \in U : u <= y
  BY <1>1, LeastNat
<1>3. PICK m \in T : u = n - m
  BY <1>2
<1>4. ASSUME NEW y \in T PROVE m >= y
  <2>1. n - m <= n - y
    BY <1>2, <1>3
  <2> QED BY <2>1
<1>5. S!Max(T) \in T /\ \A y \in T : S!Max(T) >= y
  BY <1>3, <1>4 DEF S!Max
<1> QED BY <1>5

-----------------------------------------------------------------------------
(* The audit stream.  The rows are sorted by time; an event whose row comes *)
(* after that of a larger id is marked as behind.                           *)
Passes == [at : {"rest", "next", "sending", "accepted", "rejected"}, todo : SUBSET Dests,
           copy : [Dests -> Nat], cur : Dests \cup {NoDest}, batch : SUBSET Nat]

StreamType ==
  /\ order \in Seq(AuditIds) /\ seen \subseteq S!Elements(order)
  /\ fails \in [Dests -> Nat] /\ cursor \in [Procs -> [Dests -> Nat]]
  /\ pass \in [Procs -> Passes] /\ pushed \in [Dests -> SUBSET AuditIds]

Sorted ==
  \A i, j \in DOMAIN order : i < j =>
    order[i] # order[j] /\ (order[j] < order[i] => order[j] \in behind)

(* A batch holds all that its last event will let the cursor pass, except   *)
(* the events that are behind; once it is accepted the receiver has it.     *)
Sends(p) ==
  LET d == pass[p].cur
      b == pass[p].batch
  IN /\ d \in Dests /\ b # {} /\ b \subseteq DOMAIN order
     /\ \A i \in b : order[i] \in seen
     /\ \A i \in DOMAIN order \ b :
          order[i] \in seen \ behind /\ order[i] <= S!LastSent(p) => order[i] <= cursor[p][d]
     /\ pass[p].at = "accepted" => \A i \in b : order[i] \in pushed[d]

CursorSeen == \A p \in Procs, d \in Dests : cursor[p][d] \in seen \cup {0}

StreamInv ==
  /\ StreamType /\ Sorted /\ CursorSeen /\ NothingSkipped
  /\ \A p \in Procs : pass[p].at \in {"sending", "accepted", "rejected"} => Sends(p)

(* The Batch oldest of a set of positions are one end of it.                *)
LEMMA OldestFirst ==
  ASSUME S!StreamAssumption, NEW n \in Nat, NEW T \in SUBSET (1 .. n), T # {}
  PROVE  LET b == S!Oldest(T)
         IN b # {} /\ b \subseteq T /\ \A i \in b, j \in T : j < i => j \in b
<1> DEFINE Before(x) == {y \in T : y < x}
<1>a. \A A : S!Cardinality(A) = Cardinality(A)
  BY DEF S!Cardinality, Cardinality
<1>b. IsFiniteSet(T)
  <2>1. IsFiniteSet(1 .. n) /\ T \subseteq 1 .. n
    BY FS_Interval
  <2> QED BY <2>1, FS_Subset
<1>0. \A i \in T : i \in Nat
  OBVIOUS
<1>1. S!Oldest(T) = {i \in T : Cardinality(Before(i)) < Batch}
  <2>1. S!Oldest(T) = {i \in T : S!Cardinality(Before(i)) < Batch}
    BY DEF S!Oldest
  <2> QED BY <1>a, <2>1
<1>2. ASSUME NEW i \in T, NEW j \in T, j < i PROVE Cardinality(Before(j)) <= Cardinality(Before(i))
  <2>1. Before(j) \subseteq Before(i)
    <3> SUFFICES ASSUME NEW y \in T, y < j PROVE y < i
      OBVIOUS
    <3>1. y \in Nat /\ j \in Nat /\ i \in Nat
      BY <1>0
    <3> QED BY <1>2, <3>1
  <2>2. IsFiniteSet(Before(i))
    BY <1>b, FS_Subset
  <2> HIDE DEF Before
  <2> QED BY <2>1, <2>2, FS_Subset
<1>3. ASSUME NEW i \in T PROVE Cardinality(Before(i)) \in Nat
  <2>1. IsFiniteSet(Before(i))
    BY <1>b, FS_Subset
  <2> QED BY <2>1, FS_CardinalityType
<1>4. PICK m \in T : \A y \in T : m <= y
  <2>1. T \in SUBSET Nat
    BY <1>0
  <2> QED BY <2>1, LeastNat
<1>5. Before(m) = {} /\ Cardinality(Before(m)) = 0
  <2>1. ASSUME NEW y \in T PROVE ~(y < m)
    <3>1. y \in Nat /\ m \in Nat /\ m <= y
      BY <1>0, <1>4
    <3> QED BY <3>1
  <2> QED BY <2>1, <1>a, FS_EmptySet
<1>6. m \in S!Oldest(T)
  BY <1>1, <1>5 DEF S!StreamAssumption
<1> HIDE DEF Before
<1>7. ASSUME NEW i \in S!Oldest(T), NEW j \in T, j < i PROVE j \in S!Oldest(T)
  <2> DEFINE ci == Cardinality(Before(i))
             cj == Cardinality(Before(j))
  <2>1. i \in T /\ ci < Batch
    BY <1>1, <1>7
  <2>2. ci \in Nat /\ cj \in Nat /\ cj <= ci /\ Batch \in Nat
    BY <1>2, <1>3, <1>7, <2>1 DEF S!StreamAssumption
  <2> HIDE DEF ci, cj
  <2>3. cj < Batch
    BY <2>1, <2>2
  <2> QED BY <1>1, <2>3 DEF cj
<1> QED BY <1>1, <1>6, <1>7
(* What the types say of the rows by their positions, and of a batch.       *)
LEMMA RowFacts ==
  ASSUME S!StreamAssumption, StreamType
  PROVE  /\ DOMAIN order = 1 .. Len(order) /\ Len(order) \in Nat
         /\ \A i \in DOMAIN order : i \in Nat /\ order[i] \in AuditIds
         /\ \A e \in AuditIds : e \in Nat /\ e > 0
         /\ \A e \in seen : \E i \in DOMAIN order : e = order[i]
         /\ seen \subseteq AuditIds
<1>1. DOMAIN order = 1 .. Len(order) /\ Len(order) \in Nat /\ \A i \in 1 .. Len(order) : order[i] \in AuditIds
  BY LenProperties, ElementOfSeq DEF StreamType
<1>2. \A e \in seen : \E i \in DOMAIN order : e = order[i]
  BY DEF StreamType, S!Elements
<1>3. \A e \in AuditIds : e \in Nat /\ e > 0
  BY DEF S!StreamAssumption
<1>4. \A i \in DOMAIN order : i \in Nat
  BY <1>1
<1> QED BY <1>1, <1>2, <1>3, <1>4

LEMMA LastOfBatch ==
  ASSUME S!StreamAssumption, StreamType, NEW p \in Procs, Sends(p)
  PROVE  \E m \in pass[p].batch : /\ S!LastSent(p) = order[m] /\ \A i \in pass[p].batch : i <= m
                                  /\ order[m] \in seen /\ order[m] \in Nat /\ S!Max(pass[p].batch) = m
<1> DEFINE b == pass[p].batch
<1>1. b # {} /\ b \subseteq DOMAIN order /\ \A i \in b : order[i] \in seen
  BY DEF Sends
<1>2. b \in SUBSET (0 .. Len(order)) /\ Len(order) \in Nat
  BY <1>1, RowFacts
<1> HIDE DEF b
<1>3. S!Max(b) \in b /\ \A y \in b : y <= S!Max(b)
  BY <1>1, <1>2, GreatestNat
<1>4. order[S!Max(b)] \in seen /\ order[S!Max(b)] \in Nat
  BY <1>1, <1>3, RowFacts
<1> QED BY <1>3, <1>4 DEF b, S!LastSent

(* A batch under way stays good while rows are added, as long as no event   *)
(* comes to be seen that its last one will let the cursor pass.             *)
LEMMA SendsKept ==
  ASSUME S!StreamAssumption, StreamType, NEW p \in Procs, Sends(p),
         pass'[p].cur = pass[p].cur, pass'[p].batch = pass[p].batch, cursor'[p] = cursor[p],
         \A i \in DOMAIN order : i \in DOMAIN order' /\ order'[i] = order[i],
         seen \subseteq seen', behind \subseteq behind',
         \A i \in DOMAIN order' : order'[i] \in seen' \ behind' =>
            i \in DOMAIN order /\ (order[i] \in seen \/ S!LastSent(p) < order[i]),
         \A d \in Dests : pushed[d] \subseteq pushed'[d],
         pass'[p].at = "accepted" =>
            \/ pass[p].at = "accepted"
            \/ \A i \in pass[p].batch : order[i] \in pushed'[pass[p].cur]
  PROVE  Sends(p)'
<1> DEFINE d == pass[p].cur
           b == pass[p].batch
<1>1. /\ d \in Dests /\ b # {} /\ b \subseteq DOMAIN order
      /\ \A i \in b : order[i] \in seen
      /\ \A i \in DOMAIN order \ b :
           order[i] \in seen \ behind /\ order[i] <= S!LastSent(p) => order[i] <= cursor[p][d]
      /\ pass[p].at = "accepted" => \A i \in b : order[i] \in pushed[d]
  BY DEF Sends
<1>2. PICK m \in b : S!LastSent(p) = order[m] /\ order[m] \in Nat /\ S!Max(b) = m
  BY LastOfBatch
<1>3. S!LastSent(p)' = order[m]
  <2>1. S!LastSent(p)' = order'[S!Max(b)]
    BY DEF S!LastSent, S!Max
  <2> QED BY <1>1, <1>2, <2>1
<1>4. ASSUME NEW i \in DOMAIN order' \ b, order'[i] \in seen' \ behind', order'[i] <= order[m]
      PROVE  order'[i] <= cursor'[p][d]
  <2>1. i \in DOMAIN order \ b /\ order'[i] = order[i]
    BY <1>4
  <2>2. order[i] \in Nat
    BY <2>1, RowFacts
  <2>3. ~(order[m] < order[i])
    BY <1>2, <1>4, <2>1, <2>2
  <2>4. order[i] \in seen \ behind
    BY <1>2, <1>4, <2>1, <2>3
  <2> QED BY <1>1, <1>2, <1>4, <2>1, <2>4
<1>5. pass'[p].at = "accepted" => \A i \in b : order'[i] \in pushed'[d]
  BY <1>1
<1>6. \A i \in b : order'[i] \in seen'
  BY <1>1
<1> QED BY <1>1, <1>3, <1>4, <1>5, <1>6 DEF Sends

Busy == {"sending", "accepted", "rejected"}

LEMMA OneSender ==
  ASSUME S!StreamAssumption, StreamInv, NEW p \in Procs, NEW r,
         pass' = [pass EXCEPT ![p] = r], UNCHANGED <<order, seen, behind>>,
         \A q \in Procs \ {p} : cursor'[q] = cursor[q],
         \A d \in Dests : pushed[d] \subseteq pushed'[d],
         r.at \in Busy => Sends(p)'
  PROVE  \A q \in Procs : pass'[q].at \in Busy => Sends(q)'
<1> SUFFICES ASSUME NEW q \in Procs \ {p}, pass'[q].at \in Busy PROVE Sends(q)'
  BY DEF StreamInv, StreamType
<1>1. pass'[q] = pass[q] /\ Sends(q) /\ StreamType
  BY DEF StreamInv, StreamType, Busy
<1>2. \A i \in DOMAIN order : order[i] \in seen \ behind => order[i] \in seen
  OBVIOUS
<1> QED BY <1>1, SendsKept

LEMMA LeaveRest ==
  ASSUME StreamType, NEW p \in Procs, NEW todo \in SUBSET Dests,
         S!Leave(p, todo) \/ pass' = [pass EXCEPT ![p] = S!Rest]
  PROVE  \E r \in Passes : r.at \notin Busy /\ pass' = [pass EXCEPT ![p] = r]
<1>1. S!Rest \in Passes /\ S!Rest.at \notin Busy
  BY DEF S!Rest, Passes, Busy
<1> DEFINE next == [pass[p] EXCEPT !.at = "next", !.todo = todo, !.cur = NoDest, !.batch = {}]
<1>2. next \in Passes /\ next.at \notin Busy
  <2>1. pass[p] \in Passes
    BY DEF StreamType
  <2>2. {} \in SUBSET Nat /\ NoDest \in Dests \cup {NoDest}
    OBVIOUS
  <2> QED BY <2>1, <2>2 DEF Passes, Busy
<1>3. pass' = [pass EXCEPT ![p] = S!Rest] \/ pass' = [pass EXCEPT ![p] = next]
  BY DEF S!Leave
<1> HIDE DEF next
<1> QED BY <1>1, <1>2, <1>3
LEMMA RecordStep ==
  ASSUME S!StreamAssumption, StreamInv, NEW e \in AuditIds, S!Record(e)
  PROVE  StreamInv'
<1> DEFINE n == Len(order)
<1>1. /\ order' = Append(order, e) /\ order \in Seq(AuditIds) /\ e \notin S!Elements(order)
      /\ behind' = behind \cup {x \in {e} : \E f \in S!Elements(order) : f > e}
      /\ UNCHANGED <<seen, fails, cursor, pass, pushed>>
  BY DEF S!Record, StreamInv, StreamType
<1>2. /\ order' \in Seq(AuditIds) /\ DOMAIN order = 1 .. n /\ n \in Nat /\ DOMAIN order' = 1 .. n + 1
      /\ (\A i \in 1 .. n : order'[i] = order[i]) /\ order'[n + 1] = e
  BY <1>1, AppendProperties, LenProperties
<1>3. \A i \in 1 .. n : order[i] # e /\ order[i] \in AuditIds /\ order[i] \notin {e}
  BY <1>1, <1>2, RowFacts DEF S!Elements, StreamInv
<1>4. e \notin seen /\ \A i \in 1 .. n : i \in 1 .. n + 1
  BY <1>1, <1>2 DEF StreamInv, StreamType
<1>5. StreamType'
  <2>1. seen' \subseteq S!Elements(order')
    BY <1>1, <1>2, <1>4 DEF StreamInv, StreamType, S!Elements
  <2>2. S!Elements(order)' = S!Elements(order')
    BY DEF S!Elements
  <2> QED BY <1>1, <1>2, <2>1, <2>2 DEF StreamInv, StreamType, Passes
<1>6. Sorted'
  <2> SUFFICES ASSUME NEW i \in 1 .. n + 1, NEW j \in 1 .. n + 1, i < j
               PROVE  order'[i] # order'[j] /\ (order'[j] < order'[i] => order'[j] \in behind')
    BY <1>2 DEF Sorted
  <2>1. CASE j = n + 1
    <3>1. i \in 1 .. n /\ order'[i] = order[i] /\ order'[j] = e
      BY <1>2, <2>1
    <3>2. order'[j] < order'[i] => \E f \in S!Elements(order) : f > e
      BY <1>2, <3>1 DEF S!Elements
    <3> QED BY <1>1, <1>3, <3>1, <3>2
  <2>2. CASE j # n + 1
    <3>1. i \in 1 .. n /\ j \in 1 .. n
      BY <1>2, <2>2
    <3> QED BY <1>1, <1>2, <3>1 DEF StreamInv, Sorted
  <2> QED BY <2>1, <2>2
<1>7. NothingSkipped' /\ CursorSeen'
  BY <1>1 DEF StreamInv, NothingSkipped, S!NothingSkipped, CursorSeen
<1>8. ASSUME NEW p \in Procs, pass'[p].at \in Busy PROVE Sends(p)'
  <2>1. Sends(p) /\ StreamType
    BY <1>1, <1>8 DEF StreamInv, Busy
  <2>2. \A i \in DOMAIN order' : order'[i] \in seen' \ behind' => i \in DOMAIN order /\ order[i] \in seen
    BY <1>1, <1>2, <1>4
  <2> QED BY <1>1, <1>2, <1>4, <2>1, <2>2, SendsKept
<1> QED BY <1>5, <1>6, <1>7, <1>8 DEF StreamInv, Busy

LEMMA CommitStep ==
  ASSUME S!StreamAssumption, StreamInv, NEW e \in AuditIds, S!Commit(e)
  PROVE  StreamInv'
<1>1. /\ e \in S!Elements(order) /\ e \notin seen /\ seen' = seen \cup {e}
      /\ behind' = behind \cup {x \in {e} : \E f \in seen : f > e}
      /\ UNCHANGED <<order, fails, cursor, pass, pushed>>
  BY DEF S!Commit
<1>2. StreamType'
  BY <1>1 DEF StreamInv, StreamType, Passes, S!Elements
<1>3. Sorted'
  BY <1>1 DEF StreamInv, Sorted
<1>4. \A f \in seen : f > e => e \in behind'
  BY <1>1
<1>5. ASSUME NEW p \in Procs, NEW d \in Dests, NEW f \in seen' \ behind', f <= cursor'[p][d]
      PROVE  f \in pushed'[d]
  <2>1. CASE f = e
    <3>1. cursor[p][d] \in seen \cup {0} /\ cursor'[p][d] = cursor[p][d]
      BY <1>1 DEF StreamInv, CursorSeen
    <3>2. e \in Nat /\ e > 0 /\ cursor[p][d] \in Nat
      BY <3>1, RowFacts DEF StreamInv
    <3>3. cursor[p][d] > e
      BY <1>1, <1>5, <2>1, <3>1, <3>2
    <3> QED BY <1>4, <1>5, <2>1, <3>1, <3>2, <3>3
  <2>2. CASE f # e
    BY <1>1, <1>5, <2>2 DEF StreamInv, NothingSkipped, S!NothingSkipped
  <2> QED BY <2>1, <2>2
<1>6. NothingSkipped' /\ CursorSeen'
  BY <1>1, <1>5 DEF NothingSkipped, S!NothingSkipped, StreamInv, CursorSeen
<1>7. ASSUME NEW p \in Procs, pass'[p].at \in Busy PROVE Sends(p)'
  <2>1. Sends(p) /\ StreamType
    BY <1>1, <1>7 DEF StreamInv, Busy
  <2>2. PICK m \in pass[p].batch : S!LastSent(p) = order[m] /\ order[m] \in seen /\ order[m] \in Nat
    BY <2>1, LastOfBatch
  <2>3. e \in Nat /\ e # order[m] /\ (order[m] > e => e \in behind')
    BY <1>1, <1>4, <2>1, <2>2, RowFacts
  <2>4. ASSUME NEW i \in DOMAIN order', order'[i] \in seen' \ behind'
        PROVE  i \in DOMAIN order /\ (order[i] \in seen \/ S!LastSent(p) < order[i])
    <3>1. order'[i] = order[i] /\ (order[i] \in seen \/ order[i] = e)
      BY <1>1, <2>4
    <3> QED BY <1>1, <2>2, <2>3, <2>4, <3>1
  <2> QED BY <1>1, <2>1, <2>4, SendsKept
<1> QED BY <1>2, <1>3, <1>6, <1>7 DEF StreamInv, Busy
(* What a step must keep that adds no rows.                                 *)
LEMMA SameRows ==
  ASSUME StreamInv, UNCHANGED <<order, seen, behind>>, pass' \in [Procs -> Passes],
         fails' \in [Dests -> Nat], pushed' \in [Dests -> SUBSET AuditIds],
         \A d \in Dests : pushed[d] \subseteq pushed'[d],
         cursor' \in [Procs -> [Dests -> Nat]],
         \A p \in Procs, d \in Dests :
           \/ cursor'[p][d] \in {cursor[p][d], 0}
           \/ /\ cursor'[p][d] \in seen
              /\ \A e \in seen \ behind : e <= cursor'[p][d] => e <= cursor[p][d] \/ e \in pushed[d],
         S!StreamAssumption,
         \A p \in Procs : pass'[p].at \in Busy => Sends(p)'
  PROVE  StreamInv'
<1>1. StreamType'
  BY DEF StreamInv, StreamType, Passes, S!Elements
<1>2. Sorted'
  BY DEF StreamInv, Sorted
<1>3. CursorSeen'
  BY DEF StreamInv, CursorSeen
<1>4. ASSUME NEW p \in Procs, NEW d \in Dests, NEW e \in seen \ behind, e <= cursor'[p][d] PROVE e \in pushed'[d]
  <2>1. e \in Nat /\ e > 0
    BY RowFacts DEF StreamInv
  <2>2. e <= cursor[p][d] \/ e \in pushed[d]
    BY <1>4, <2>1
  <2> QED BY <2>2 DEF StreamInv, NothingSkipped, S!NothingSkipped
<1>5. NothingSkipped'
  BY <1>4 DEF NothingSkipped, S!NothingSkipped
<1> QED BY <1>1, <1>2, <1>3, <1>5 DEF StreamInv, Busy

LEMMA SelectStep ==
  ASSUME S!StreamAssumption, StreamInv, NEW p \in Procs, NEW d \in Dests, S!Select(p, d)
  PROVE  StreamInv'
<1>1. /\ pass[p].at = "next" /\ d \in pass[p].todo /\ UNCHANGED <<order, seen, dest, fails, cursor, pushed, behind>>
      /\ IF S!Pending(p, d) = {} THEN S!Leave(p, pass[p].todo \ {d})
         ELSE pass' = [pass EXCEPT ![p].at = "sending", ![p].cur = d, ![p].todo = @ \ {d},
                                   ![p].batch = S!Pending(p, d)]
  BY DEF S!Select, S!rows
<1>0. StreamType /\ pass[p] \in Passes
  BY DEF StreamInv, StreamType
<1>2. \E r \in Passes : pass' = [pass EXCEPT ![p] = r] /\ (r.at \in Busy => Sends(p)')
  <2>1. CASE S!Pending(p, d) = {}
    <3>1. pass[p].todo \ {d} \in SUBSET Dests
      BY <1>0 DEF Passes
    <3> QED BY <1>0, <1>1, <2>1, <3>1, LeaveRest
  <2>2. CASE S!Pending(p, d) # {}
    <3> DEFINE T == S!After(cursor[p][d])
               b == S!Pending(p, d)
               r == [pass[p] EXCEPT !.at = "sending", !.cur = d, !.todo = @ \ {d}, !.batch = b]
    <3>1. T = {i \in DOMAIN order : order[i] \in seen /\ order[i] > cursor[p][d]} /\ b = S!Oldest(T)
      BY DEF S!After, S!Pending
    <3>2. T \in SUBSET (1 .. Len(order)) /\ Len(order) \in Nat
      BY <1>0, <3>1, RowFacts
    <3>3. T # {}
      <4>1. S!Oldest({}) = {}
        BY DEF S!Oldest
      <4> QED BY <2>2, <3>1, <4>1
    <3> HIDE DEF T, b
    <3>4. b # {} /\ b \subseteq T /\ \A i \in b, j \in T : j < i => j \in b
      BY <3>1, <3>2, <3>3, OldestFirst
    <3>5. pass' = [pass EXCEPT ![p] = r] /\ r.at = "sending" /\ r.cur = d /\ r.batch = b
      BY <1>0, <1>1, <2>2 DEF b, Passes
    <3>6. r \in Passes
      <4>1. b \in SUBSET Nat
        BY <1>0, <3>1, <3>4, RowFacts
      <4> QED BY <1>0, <4>1 DEF Passes
    <3> HIDE DEF r
    <3>7. pass'[p].at = "sending" /\ pass'[p].cur = d /\ pass'[p].batch = b
      BY <1>0, <3>5 DEF StreamType
    <3>8. PICK m \in b : \A i \in b : i <= m /\ S!Max(b) = m
      <4>1. b \in SUBSET (0 .. Len(order))
        BY <3>2, <3>4
      <4> QED BY <3>2, <3>4, <4>1, GreatestNat
    <3>9. S!LastSent(p)' = order[m]
      <4>1. S!LastSent(p)' = order'[S!Max(pass'[p].batch)]
        BY DEF S!LastSent, S!Max
      <4> QED BY <1>1, <3>7, <3>8, <4>1
    <3>10. ASSUME NEW i \in DOMAIN order \ b, order[i] \in seen \ behind, order[i] <= order[m]
           PROVE  order[i] <= cursor[p][d]
      <4>1. SUFFICES ASSUME ~(order[i] <= cursor[p][d]) PROVE FALSE
        OBVIOUS
      <4>2. i \in Nat /\ m \in Nat /\ order[i] \in Nat /\ order[m] \in Nat /\ cursor[p][d] \in Nat /\ m \in DOMAIN order
        BY <1>0, <3>1, <3>4, RowFacts DEF StreamType
      <4>3. i \in T
        BY <3>1, <3>10, <4>1, <4>2
      <4>4. m < i
        BY <3>4, <3>10, <4>2, <4>3
      <4>5. order[m] # order[i] /\ ~(order[i] < order[m])
        BY <3>10, <4>2, <4>4 DEF StreamInv, Sorted
      <4> QED BY <3>10, <4>2, <4>5
    <3>11. Sends(p)'
      <4>1. \A i \in b : order[i] \in seen /\ i \in DOMAIN order
        BY <3>1, <3>4
      <4>2. \A i \in DOMAIN order \ b : order[i] \in seen \ behind /\ order[i] <= order[m] => order[i] <= cursor[p][d]
        BY <3>10
      <4> QED BY <1>1, <3>4, <3>7, <3>9, <4>1, <4>2 DEF Sends
    <3> QED BY <3>5, <3>6, <3>11
  <2> QED BY <2>1, <2>2
<1>3. PICK r \in Passes : pass' = [pass EXCEPT ![p] = r] /\ (r.at \in Busy => Sends(p)')
  BY <1>2
<1>4. pass' \in [Procs -> Passes]
  BY <1>0, <1>3 DEF StreamType
<1>5. \A q \in Procs : pass'[q].at \in Busy => Sends(q)'
  BY <1>1, <1>3, OneSender
<1> QED BY <1>0, <1>1, <1>4, <1>5, SameRows DEF StreamType
LEMMA BeginStep ==
  ASSUME S!StreamAssumption, StreamInv, NEW p \in Procs, S!Begin(p)
  PROVE  StreamInv'
<1> DEFINE T == {d \in Dests : dest[d] = "on"}
           r == [S!Rest EXCEPT !.at = "next", !.todo = T,
                   !.copy = [d \in Dests |-> IF d \in T THEN fails[d] ELSE 0]]
<1>1. pass' = [pass EXCEPT ![p] = r] /\ UNCHANGED <<order, seen, fails, cursor, pushed, behind>>
  BY DEF S!Begin, S!rows
<1>2. StreamType
  BY DEF StreamInv
<1>3. r \in Passes /\ r.at \notin Busy
  <2>1. [d \in Dests |-> IF d \in T THEN fails[d] ELSE 0] \in [Dests -> Nat]
    BY <1>2 DEF StreamType
  <2> QED BY <2>1 DEF S!Rest, Passes, Busy
<1> HIDE DEF r
<1>4. pass' \in [Procs -> Passes]
  BY <1>1, <1>2, <1>3 DEF StreamType
<1>5. \A q \in Procs : pass'[q].at \in Busy => Sends(q)'
  BY <1>1, <1>3, OneSender
<1> QED BY <1>1, <1>2, <1>4, <1>5, SameRows DEF StreamType

(* What a receiver gets of a batch it did not have before.                  *)
LEMMA Received ==
  ASSUME S!StreamAssumption, StreamInv, NEW p \in Procs, pass[p].at \in Busy
  PROVE  /\ S!Receive(p) \in [Dests -> SUBSET AuditIds]
         /\ \A d \in Dests : pushed[d] \subseteq S!Receive(p)[d]
         /\ \A i \in pass[p].batch : order[i] \in S!Receive(p)[pass[p].cur]
<1> DEFINE got == {order[i] : i \in pass[p].batch}
           d0 == pass[p].cur
<1>1. S!Receive(p) = [pushed EXCEPT ![d0] = @ \cup got]
  BY DEF S!Receive
<1>2. StreamType /\ Sends(p)
  BY DEF StreamInv, Busy
<1>3. d0 \in Dests /\ pass[p].batch \subseteq DOMAIN order
  BY <1>2 DEF Sends
<1>4. got \subseteq AuditIds
  BY <1>2, <1>3, RowFacts
<1>5. \A i \in pass[p].batch : order[i] \in got
  OBVIOUS
<1>6. pushed \in [Dests -> SUBSET AuditIds]
  BY <1>2 DEF StreamType
<1> HIDE DEF got, d0
<1>7. S!Receive(p)[d0] = pushed[d0] \cup got
  BY <1>1, <1>3, <1>6
<1>8. \A d \in Dests \ {d0} : S!Receive(p)[d] = pushed[d]
  BY <1>1, <1>3, <1>6
<1>9. S!Receive(p) \in [Dests -> SUBSET AuditIds]
  BY <1>1, <1>3, <1>4, <1>6
<1> QED BY <1>5, <1>7, <1>8, <1>9 DEF d0

LEMMA AnswerStep ==
  ASSUME S!StreamAssumption, StreamInv, NEW p \in Procs,
         S!Accept(p) \/ S!Reject(p) \/ S!Unreachable(p)
  PROVE  StreamInv'
<1>1. /\ pass[p].at = "sending" /\ UNCHANGED <<order, seen, fails, cursor, behind>>
      /\ pushed' \in {pushed, S!Receive(p)}
  BY DEF S!Accept, S!Reject, S!Unreachable, S!rows
<1>2. StreamType /\ pass[p] \in Passes /\ pass[p].at \in Busy /\ Sends(p)
  BY <1>1 DEF StreamInv, StreamType, Busy
<1>3. pushed' \in [Dests -> SUBSET AuditIds] /\ \A d \in Dests : pushed[d] \subseteq pushed'[d]
  BY <1>1, <1>2, Received DEF StreamType
<1>4. \E r \in Passes : pass' = [pass EXCEPT ![p] = r] /\ (r.at \in Busy => Sends(p)')
  <2>1. CASE S!Unreachable(p)
    <3>1. S!Leave(p, pass[p].todo) /\ pass[p].todo \in SUBSET Dests
      BY <1>2, <2>1 DEF S!Unreachable, Passes
    <3> QED BY <1>2, <3>1, LeaveRest
  <2>2. CASE S!Accept(p)
    <3> DEFINE r == [pass[p] EXCEPT !.at = "accepted"]
    <3>1. pass' = [pass EXCEPT ![p] = r] /\ pushed' = S!Receive(p)
      BY <2>2 DEF S!Accept
    <3>2. r \in Passes /\ r.cur = pass[p].cur /\ r.batch = pass[p].batch
      BY <1>2 DEF Passes
    <3> HIDE DEF r
    <3>3. pass'[p].cur = pass[p].cur /\ pass'[p].batch = pass[p].batch
      BY <1>2, <3>1, <3>2 DEF StreamType
    <3>4. \A i \in pass[p].batch : order[i] \in pushed'[pass[p].cur]
      BY <1>2, <3>1, Received
    <3>5. \A i \in DOMAIN order : order[i] \in seen \ behind => order[i] \in seen
      OBVIOUS
    <3>6. Sends(p)'
      BY <1>1, <1>2, <1>3, <3>3, <3>4, <3>5, SendsKept
    <3> QED BY <3>1, <3>2, <3>6
  <2>3. CASE S!Reject(p)
    <3> DEFINE r == [pass[p] EXCEPT !.at = "rejected"]
    <3>1. pass' = [pass EXCEPT ![p] = r]
      BY <2>3 DEF S!Reject
    <3>2. r \in Passes /\ r.cur = pass[p].cur /\ r.batch = pass[p].batch /\ r.at = "rejected"
      BY <1>2 DEF Passes
    <3> HIDE DEF r
    <3>3. pass'[p].cur = pass[p].cur /\ pass'[p].batch = pass[p].batch /\ pass'[p].at = "rejected"
      BY <1>2, <3>1, <3>2 DEF StreamType
    <3>5. \A i \in DOMAIN order : order[i] \in seen \ behind => order[i] \in seen
      OBVIOUS
    <3>6. Sends(p)'
      BY <1>1, <1>2, <1>3, <3>3, <3>5, SendsKept
    <3> QED BY <3>1, <3>2, <3>6
  <2> QED BY <2>1, <2>2, <2>3
<1>5. PICK r \in Passes : pass' = [pass EXCEPT ![p] = r] /\ (r.at \in Busy => Sends(p)')
  BY <1>4
<1>6. pass' \in [Procs -> Passes]
  BY <1>2, <1>5 DEF StreamType
<1>7. \A q \in Procs : pass'[q].at \in Busy => Sends(q)'
  BY <1>1, <1>3, <1>5, OneSender
<1> QED BY <1>1, <1>2, <1>3, <1>6, <1>7, SameRows DEF StreamType
(* After an accepted batch the cursor passes nothing that was not received. *)
LEMMA WriteStep ==
  ASSUME S!StreamAssumption, StreamInv, NEW p \in Procs, S!Succeed(p) \/ S!Fail(p)
  PROVE  StreamInv'
<1> DEFINE d0 == pass[p].cur
           n0 == IF S!Succeed(p) THEN (IF pass[p].copy[d0] = 0 THEN fails[d0] ELSE 0) ELSE pass[p].copy[d0] + 1
<1>1. /\ pass[p].at \in Busy /\ UNCHANGED <<order, seen, behind, pushed>>
      /\ \E state : S!Write(p, d0, n0, state)
      /\ \/ cursor' = cursor
         \/ pass[p].at = "accepted" /\ cursor' = [cursor EXCEPT ![p][d0] = S!LastSent(p)]
  <2>1. CASE S!Succeed(p)
    <3>1. S!Write(p, d0, n0, dest[d0]) /\ pass[p].at = "accepted" /\ cursor' = [cursor EXCEPT ![p][d0] = S!LastSent(p)]
      BY <2>1 DEF S!Succeed
    <3> QED BY <3>1 DEF S!Write, Busy
  <2>2. CASE S!Fail(p) /\ ~S!Succeed(p)
    <3>1. \E state : S!Write(p, d0, n0, state)
      BY <2>2 DEF S!Fail
    <3>2. pass[p].at = "rejected" /\ cursor' = cursor
      BY <2>2 DEF S!Fail
    <3> QED BY <3>1, <3>2 DEF S!Write, Busy
  <2> QED BY <2>1, <2>2
<1>2. StreamType /\ pass[p] \in Passes /\ Sends(p)
  BY <1>1 DEF StreamInv, StreamType, Busy
<1>3. d0 \in Dests
  BY <1>2 DEF Sends
<1>4. n0 \in Nat
  <2>1. pass[p].copy[d0] \in Nat /\ fails[d0] \in Nat
    BY <1>2, <1>3 DEF StreamType, Passes
  <2> QED BY <2>1
<1> HIDE DEF n0
<1>5. fails' \in [Dests -> Nat]
  BY <1>1, <1>2, <1>4 DEF S!Write, StreamType
<1>6. \E r \in Passes : r.at \notin Busy /\ pass' = [pass EXCEPT ![p] = r]
  <2>1. S!Leave(p, pass[p].todo) \/ pass' = [pass EXCEPT ![p] = S!Rest]
    BY <1>1 DEF S!Write
  <2>2. pass[p].todo \in SUBSET Dests
    BY <1>2 DEF Passes
  <2> QED BY <1>2, <2>1, <2>2, LeaveRest
<1>7. PICK r \in Passes : r.at \notin Busy /\ pass' = [pass EXCEPT ![p] = r]
  BY <1>6
<1>8. pass' \in [Procs -> Passes]
  BY <1>2, <1>7 DEF StreamType
<1>9. PICK m \in pass[p].batch : S!LastSent(p) = order[m] /\ order[m] \in seen /\ order[m] \in Nat
  BY <1>2, LastOfBatch
<1>10. cursor' \in [Procs -> [Dests -> Nat]] /\ \A q \in Procs \ {p} : cursor'[q] = cursor[q]
  <2>1. cursor \in [Procs -> [Dests -> Nat]] /\ S!LastSent(p) \in Nat
    BY <1>2, <1>9 DEF StreamType
  <2>2. CASE cursor' = cursor
    BY <2>1, <2>2
  <2>3. CASE cursor' = [cursor EXCEPT ![p][d0] = S!LastSent(p)]
    <3> HIDE DEF d0
    <3> QED BY <1>3, <2>1, <2>3
  <2> QED BY <1>1, <2>2, <2>3
<1>11. ASSUME NEW q \in Procs, NEW d \in Dests, cursor'[q][d] # cursor[q][d]
       PROVE  /\ cursor'[q][d] \in seen
              /\ \A e \in seen \ behind : e <= cursor'[q][d] => e <= cursor[q][d] \/ e \in pushed[d]
  <2>1. q = p /\ d = d0 /\ cursor'[q][d] = order[m] /\ pass[p].at = "accepted"
    BY <1>1, <1>2, <1>3, <1>9, <1>11 DEF StreamType
  <2>2. ASSUME NEW e \in seen \ behind, e <= order[m] PROVE e <= cursor[p][d0] \/ e \in pushed[d0]
    <3>1. PICK i \in DOMAIN order : e = order[i]
      BY <1>2, RowFacts
    <3>2. CASE i \in pass[p].batch
      BY <1>2, <2>1, <3>1, <3>2 DEF Sends
    <3>3. CASE i \notin pass[p].batch
      BY <1>2, <1>9, <2>2, <3>1, <3>3 DEF Sends
    <3> QED BY <3>2, <3>3
  <2> QED BY <1>9, <2>1, <2>2
<1>12. \A q \in Procs : pass'[q].at \in Busy => Sends(q)'
  BY <1>1, <1>7, <1>10, OneSender
<1>13. pushed' \in [Dests -> SUBSET AuditIds] /\ \A d \in Dests : pushed[d] \subseteq pushed'[d]
  BY <1>1, <1>2 DEF StreamType
<1> QED BY <1>1, <1>5, <1>8, <1>10, <1>11, <1>12, <1>13, SameRows

LEMMA CrashStep ==
  ASSUME S!StreamAssumption, StreamInv, NEW p \in Procs, S!Crash(p)
  PROVE  StreamInv'
<1>1. /\ pass' = [pass EXCEPT ![p] = S!Rest] /\ UNCHANGED <<order, seen, fails, behind, pushed>>
      /\ cursor' = [cursor EXCEPT ![p] = [d \in Dests |-> 0]]
  BY DEF S!Crash, S!rows
<1>2. StreamType
  BY DEF StreamInv
<1>3. PICK r \in Passes : r.at \notin Busy /\ pass' = [pass EXCEPT ![p] = r]
  <2>1. {} \in SUBSET Dests
    OBVIOUS
  <2> QED BY <1>1, <1>2, <2>1, LeaveRest
<1>4. pass' \in [Procs -> Passes]
  BY <1>2, <1>3 DEF StreamType
<1>5. /\ cursor' \in [Procs -> [Dests -> Nat]] /\ \A q \in Procs \ {p} : cursor'[q] = cursor[q]
      /\ \A q \in Procs, d \in Dests : cursor'[q][d] \in {cursor[q][d], 0}
  BY <1>1, <1>2 DEF StreamType
<1>6. \A q \in Procs : pass'[q].at \in Busy => Sends(q)'
  BY <1>1, <1>3, <1>5, OneSender
<1> QED BY <1>1, <1>2, <1>4, <1>5, <1>6, SameRows DEF StreamType

(* The variables of StreamInv are untouched by a change of a destination.   *)
LEMMA StreamStutter ==
  ASSUME StreamInv, UNCHANGED <<order, seen, fails, cursor, pass, pushed, behind>>
  PROVE  StreamInv'
<1>1. StreamType' /\ Sorted' /\ CursorSeen' /\ NothingSkipped'
  BY DEF StreamInv, StreamType, Passes, S!Elements, Sorted, CursorSeen, NothingSkipped, S!NothingSkipped
<1>2. \A p \in Procs : Sends(p)' <=> Sends(p)
  BY DEF Sends, S!LastSent, S!Max
<1> QED BY <1>1, <1>2 DEF StreamInv, Busy

LEMMA StreamStep ==
  ASSUME S!StreamAssumption, StreamInv, [Next]_vars
  PROVE  StreamInv'
<1>1. S!Next \/ UNCHANGED svars
  BY DEF Next, vars
<1>2. CASE UNCHANGED svars
  BY <1>2, StreamStutter DEF svars
<1>3. CASE S!Next
  <2>1. ASSUME NEW e \in AuditIds, S!Record(e) \/ S!Commit(e) PROVE StreamInv'
    BY <2>1, RecordStep, CommitStep
  <2>2. ASSUME NEW p \in Procs,
               S!Flush(p) \/ S!Accept(p) \/ S!Reject(p) \/ S!Unreachable(p) \/ S!Crash(p)
        PROVE  StreamInv'
    BY <2>2, BeginStep, SelectStep, WriteStep, AnswerStep, CrashStep DEF S!Flush
  <2>3. ASSUME NEW d \in Dests, NEW state, S!Patch(d, state) PROVE StreamInv'
    BY <2>3, StreamStutter DEF S!Patch
  <2> QED BY <1>3, <2>1, <2>2, <2>3 DEF S!Next
<1> QED BY <1>1, <1>2, <1>3

(* What the cursor of a process has passed was received, whatever failed,   *)
(* crashed or was sent by another process; unless it was committed or       *)
(* created after an event with a larger id.                                 *)
THEOREM NothingSkippedInPlatform == Spec => []NothingSkipped
<1>1. S!StreamAssumption
  BY PlatformAssumption
<1>2. Init => StreamInv
  <2> SUFFICES ASSUME Init PROVE StreamInv
    OBVIOUS
  <2>1. S!Init
    BY DEF Init
  <2>2. S!Rest \in Passes /\ S!Rest.at = "rest"
    BY DEF S!Rest, Passes
  <2>3. StreamType
    <3>1. order = <<>> /\ seen = {}
      BY <2>1 DEF S!Init
    <3> QED BY <2>1, <2>2, <3>1 DEF S!Init, StreamType
  <2>4. Sorted /\ CursorSeen /\ NothingSkipped
    BY <2>1 DEF S!Init, Sorted, CursorSeen, NothingSkipped, S!NothingSkipped
  <2> QED BY <2>1, <2>2, <2>3, <2>4 DEF S!Init, StreamInv
<1>3. StreamInv /\ [Next]_vars => StreamInv'
  BY <1>1, StreamStep
<1>4. StreamInv => NothingSkipped
  BY DEF StreamInv
<1> QED BY <1>2, <1>3, <1>4, PTL DEF Spec
=============================================================================
