---------------------------- MODULE FeatureCache ----------------------------
(***************************************************************************)
(* The cached answer of GET /license/features: core/cache.py around        *)
(* license_features of api/v1/endpoints/license.py, with resolve_plan of   *)
(* core/plans.py and the activation of a license key.                      *)
(*                                                                         *)
(* A tenant's plan is a column; the license key is in the memory of each   *)
(* server process, and runs out on a day.  A process uses Redis if it      *)
(* answered the first time it was asked, and falls back to its own memory  *)
(* in every call that fails.  A hit changes nothing and is not an action.  *)
(* Left out: that the cache of the module catalog is handled alike.        *)
(***************************************************************************)
EXTENDS Integers

CONSTANTS
  Tenants,
  Procs,       \* server processes
  Requests,    \* request threads
  Plans,       \* paid plans
  Evaluation,  \* Plan.EVALUATION
  Shared,      \* Redis
  Nothing,     \* no entry
  MaxChanges   \* bound: changes of a plan or of what a key stands for

CacheAssumption ==
  Evaluation \notin Plans /\ Shared \notin Procs /\ Nothing \notin Procs /\ MaxChanges \in Nat

Stores == Procs \cup {Shared}

VARIABLES
  plan,     \* Tenant.plan
  key,      \* the plan that settings.license_key of a process stands for today
  backend,  \* _backend of a process, "redis" or "memory"
  entry,    \* the entry of a tenant in a store: the plan and whose features
  req,      \* a request
  old,      \* auxiliary: entries that have an excuse to be out of date
  changes   \* auxiliary: changes so far

vars == <<plan, key, backend, entry, req, old, changes>>

AnyPlan == Plans \cup {Evaluation}
Rest == [at |-> "rest", proc |-> Nothing, tenant |-> Nothing, plan |-> Evaluation, for |-> Evaluation,
         excused |-> FALSE]

Init ==
  /\ plan \in [Tenants -> AnyPlan]
  /\ key \in {[p \in Procs |-> pl] : pl \in AnyPlan}
  /\ backend \in [Procs -> {"redis", "memory"}]
  /\ entry = [s \in Stores |-> [t \in Tenants |-> Nothing]]
  /\ req = [r \in Requests |-> Rest]
  /\ old = {} /\ changes = 0

(* What a call of the backend reaches: Redis, or, when Redis fails, before  *)
(* or after it has done its part, the memory of the process.                *)
Reached(p) == IF backend[p] = "memory" THEN {{p}} ELSE {{Shared}, {p}, {Shared, p}}

(* resolve_plan: the plan of the tenant unless it is the evaluation, then   *)
(* that of the license.                                                     *)
Resolve(p, t) == IF plan[t] # Evaluation THEN plan[t] ELSE key[p]

(* A lookup of the tenant that fails is swallowed: the license decides.     *)
Answers(p, t) == {Resolve(p, t), key[p]}

(* Requests that have read what is about to change, in the processes P and  *)
(* for the tenants T, have an excuse.                                       *)
Overtake(P, T, q) ==
  [r \in Requests |->
     IF q[r].at \in {"plan", "features"} /\ q[r].proc \in P /\ q[r].tenant \in T
     THEN [q[r] EXCEPT !.excused = TRUE] ELSE q[r]]

-----------------------------------------------------------------------------
(* license_features: a miss, resolve_plan, enabled_features, which resolves *)
(* once more, and the entry.                                                *)

Miss(r, p, t) ==
  /\ req[r] = Rest
  /\ \E S \in Reached(p) : \E s \in S : entry[s][t] = Nothing
  /\ req' = [req EXCEPT ![r] = [Rest EXCEPT !.at = "missed", !.proc = p, !.tenant = t]]
  /\ UNCHANGED <<plan, key, backend, entry, old, changes>>

ReadPlan(r) ==
  /\ req[r].at = "missed"
  /\ \E a \in Answers(req[r].proc, req[r].tenant) :
       req' = [req EXCEPT ![r].at = "plan", ![r].plan = a,
                          ![r].excused = @ \/ a # Resolve(req[r].proc, req[r].tenant)]
  /\ UNCHANGED <<plan, key, backend, entry, old, changes>>

ReadFeatures(r) ==
  /\ req[r].at = "plan"
  /\ \E a \in Answers(req[r].proc, req[r].tenant) :
       req' = [req EXCEPT ![r].at = "features", ![r].for = a,
                          ![r].excused = @ \/ a # Resolve(req[r].proc, req[r].tenant)]
  /\ UNCHANGED <<plan, key, backend, entry, old, changes>>

Store(r) ==
  /\ req[r].at = "features"
  /\ \E S \in Reached(req[r].proc) :
       LET t == req[r].tenant
           E == {<<s, t>> : s \in S}
       IN /\ entry' = [s \in Stores |-> IF s \in S THEN [entry[s] EXCEPT ![t] = <<req[r].plan, req[r].for>>]
                                                   ELSE entry[s]]
          /\ old' = IF req[r].excused THEN old \cup E ELSE old \ E
  /\ req' = [req EXCEPT ![r] = Rest]
  /\ UNCHANGED <<plan, key, backend, changes>>

(* The time to live, the eviction, or FLUSHDB. *)
Expire(s, t) ==
  /\ entry[s][t] # Nothing
  /\ entry' = [entry EXCEPT ![s][t] = Nothing]
  /\ old' = old \ {<<s, t>>}
  /\ UNCHANGED <<plan, key, backend, req, changes>>

-----------------------------------------------------------------------------
(* What changes the answer                                                 *)

(* A billing event or an administrator changes Tenant.plan; neither touches *)
(* the cache.                                                               *)
SetPlan(t, pl) ==
  /\ pl # plan[t] /\ changes < MaxChanges /\ changes' = changes + 1
  /\ plan' = [plan EXCEPT ![t] = pl]
  /\ old' = old \cup (Stores \X {t})
  /\ req' = Overtake(Procs, {t}, req)
  /\ UNCHANGED <<key, backend, entry>>

(* What the key of a process stands for changes, while the requests are q. *)
NewKey(p, pl, q) ==
  /\ pl # key[p] /\ changes < MaxChanges /\ changes' = changes + 1
  /\ key' = [key EXCEPT ![p] = pl]
  /\ old' = old \cup ({p, Shared} \X Tenants)
  /\ req' = Overtake({p}, Tenants, q)
  /\ UNCHANGED <<plan, backend, entry>>

(* verify_license: from a day on the license has expired. *)
RunOut(p) == NewKey(p, Evaluation, req)

(* activate: the key is set for every tenant of the process, valid or not.  *)
(* A key that verify_license does not know stands for the evaluation, and   *)
(* another key may stand for the same plan.                                 *)
SetKey(r, p, t, pl) ==
  LET q == [req EXCEPT ![r] = [Rest EXCEPT !.at = "verifying", !.proc = p, !.tenant = t]]
  IN /\ req[r] = Rest
     /\ \/ NewKey(p, pl, q)
        \/ pl = key[p] /\ req' = q /\ UNCHANGED <<plan, key, backend, entry, old, changes>>

(* ... which ends in a 400 when the license server says no, *)
Invalid(r) ==
  /\ req[r].at = "verifying"
  /\ req' = [req EXCEPT ![r] = Rest]
  /\ UNCHANGED <<plan, key, backend, entry, old, changes>>

(* Mutant: the entries of the process only. *)
DroppedLocally(S, p, t) == [entry EXCEPT ![p][t] = Nothing]

(* invalidate_for_tenant, in the stores that the call reaches. *)
Dropped(S, p, t) == [s \in Stores |-> IF s \in S THEN [entry[s] EXCEPT ![t] = Nothing] ELSE entry[s]]

(* ... or else in the invalidation of the entries of the caller's tenant.   *)
Valid(r) ==
  /\ req[r].at = "verifying"
  /\ \E S \in Reached(req[r].proc) :
       /\ entry' = Dropped(S, req[r].proc, req[r].tenant)
       /\ old' = old \ {<<s, req[r].tenant>> : s \in S}
  /\ req' = [req EXCEPT ![r] = Rest]
  /\ UNCHANGED <<plan, key, backend, changes>>

Next ==
  \/ \E r \in Requests, p \in Procs, t \in Tenants :
       Miss(r, p, t) \/ \E pl \in AnyPlan : SetKey(r, p, t, pl)
  \/ \E r \in Requests : ReadPlan(r) \/ ReadFeatures(r) \/ Store(r) \/ Invalid(r) \/ Valid(r)
  \/ \E s \in Stores, t \in Tenants : Expire(s, t)
  \/ \E t \in Tenants, pl \in AnyPlan : SetPlan(t, pl)
  \/ \E p \in Procs : RunOut(p)

Spec == Init /\ [][Next]_vars

-----------------------------------------------------------------------------
(* Every entry and request has its type. *)
TypeOK ==
  /\ plan \in [Tenants -> AnyPlan] /\ key \in [Procs -> AnyPlan]
  /\ backend \in [Procs -> {"redis", "memory"}]
  /\ entry \in [Stores -> [Tenants -> (AnyPlan \X AnyPlan) \cup {Nothing}]]
  /\ req \in [Requests -> [at : {"rest", "missed", "plan", "features", "verifying"},
                           proc : Procs \cup {Nothing}, tenant : Tenants \cup {Nothing},
                           plan : AnyPlan, for : AnyPlan, excused : BOOLEAN]]
  /\ old \subseteq Stores \X Tenants /\ changes \in 0..MaxChanges

(* After an activation the cache says what the new key gives, in every      *)
(* process that has the key too.  Out of date, until they expire, are only  *)
(* entries from before a change of the plan or of the key, which runs out   *)
(* too, that no valid activation of the same tenant has wiped since, in a   *)
(* call that reached them; answers that were computed across the change;    *)
(* and answers for which the lookup of the tenant failed.                   *)
CacheIsCurrent ==
  \A s \in Stores, t \in Tenants, p \in Procs :
    /\ s \in {p, Shared} /\ entry[s][t] # Nothing /\ <<s, t>> \notin old
    /\ \A q \in Procs : key[q] = key[p]
    => entry[s][t] = <<Resolve(p, t), Resolve(p, t)>>
=============================================================================
