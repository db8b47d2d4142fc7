--------------------------- MODULE AuthSessionsProofs ---------------------------
(***************************************************************************)
(* Theorems about AuthSessions, for any devices, request threads and links *)
(* and any number of tokens.                                               *)
(*                                                                         *)
(* None of the four invariants is inductive.  What a request brings to its *)
(* commit was read before (ShapeOf), a sweep may commit long after other   *)
(* requests have issued tokens (its clause on seen), and that nobody comes *)
(* late rests on what ends the life of a token or link (Past).             *)
(***************************************************************************)
EXTENDS AuthSessions, FiniteSetTheorems, TLAPS

(* What a request holds still agrees with the rows it was read from.        *)
ShapeOf(q) ==
  /\ \A i \in q.held : i <= issued
  /\ q.seen <= issued
  /\ q.at = "rotating" => \E i \in Tokens : q.held = {i} /\ bound[i] \in {q.print, None} /\ q.print \in Devices
  /\ q.at = "issuing" => q.held = {}
  /\ q.link # None => q.at = "issuing"
  /\ q.at = "sweeping" => \A i \in Live : i <= q.seen => i \in q.held

Shaped == \A t \in Threads : ShapeOf(req[t])

(* Tokens are numbered by issue; what has a successor or was consumed is    *)
(* over.                                                                    *)
Past ==
  /\ \A i \in Tokens : tok[i] = "none" <=> i > issued
  /\ swept <= issued
  /\ \A j \in Tokens : parent[j] # 0 => j <= issued /\ parent[j] <= issued /\ parent[j] \notin Live
  /\ \A j \in Tokens : from[j] # None => j <= issued /\ link[from[j]] = "spent"

IInv ==
  /\ TypeOK /\ Shaped /\ Past
  /\ SweepComplete /\ RotationKeepsDevice /\ NoLateSuccessor /\ NoLateConsumer

-----------------------------------------------------------------------------
(* A set S of results and a set R of requests that may add to it: together  *)
(* they stay below the threads when a request becomes a result ...          *)
LEMMA OneMoves ==
  ASSUME NEW S, NEW R, NEW R2, NEW n, NEW t \in R, IsFiniteSet(S), IsFiniteSet(Threads),
         R \subseteq Threads, R2 \subseteq R \ {t}, n \notin S,
         S # {} => Cardinality(S) + Cardinality(R) <= Cardinality(Threads)
  PROVE  Cardinality(S \cup {n}) + Cardinality(R2) <= Cardinality(Threads)
<1>1. /\ IsFiniteSet(R) /\ Cardinality(R) \in Nat /\ Cardinality(R) <= Cardinality(Threads)
      /\ Cardinality(S) \in Nat /\ Cardinality(Threads) \in Nat
  BY FS_Subset, FS_CardinalityType
<1>2. IsFiniteSet(R \ {t}) /\ Cardinality(R \ {t}) = Cardinality(R) - 1
  BY <1>1, FS_RemoveElement
<1>3. Cardinality(R2) <= Cardinality(R \ {t}) /\ Cardinality(R2) \in Nat
  BY <1>2, FS_Subset, FS_CardinalityType
<1>4. Cardinality(S \cup {n}) = Cardinality(S) + 1
  BY FS_AddElement
<1>5. S = {} => Cardinality(S) = 0
  BY FS_EmptySet
<1> QED BY <1>1, <1>2, <1>3, <1>4, <1>5

(* ... and when requests give up. *)
LEMMA FewerRequests ==
  ASSUME NEW S, NEW R, NEW R2, IsFiniteSet(S), IsFiniteSet(Threads), R \subseteq Threads, R2 \subseteq R,
         Cardinality(S) + Cardinality(R) <= Cardinality(Threads)
  PROVE  Cardinality(S) + Cardinality(R2) <= Cardinality(Threads)
<1>1. IsFiniteSet(R)
  BY FS_Subset
<1>2. Cardinality(R2) <= Cardinality(R) /\ Cardinality(R2) \in Nat /\ Cardinality(R) \in Nat
  BY <1>1, FS_Subset, FS_CardinalityType
<1>3. Cardinality(S) \in Nat /\ Cardinality(Threads) \in Nat
  BY FS_CardinalityType
<1> QED BY <1>2, <1>3

(* The results are tokens, so there are finitely many. *)
LEMMA FiniteResults ==
  \A i, l : IsFiniteSet(Successors(i)) /\ IsFiniteSet(Sessions(l))
<1>1. IsFiniteSet(Tokens)
  BY SessionsAssumption, FS_Interval DEF Tokens
<1> QED BY <1>1, FS_Subset DEF Successors, Sessions

(* The requests that may add a result are fewer, the results the same.      *)
LEMMA NobodyLate ==
  ASSUME IInv, UNCHANGED <<parent, from>>,
         \A i \in Tokens : Successors(i) # {} => Rotating(i)' \subseteq Rotating(i),
         \A l \in Links : Sessions(l) # {} => Consuming(l)' \subseteq Consuming(l)
  PROVE  NoLateSuccessor' /\ NoLateConsumer'
<1>1. \A i : Successors(i)' = Successors(i) /\ Sessions(i)' = Sessions(i)
  BY DEF Successors, Sessions
<1>2. ASSUME NEW i \in Tokens, Successors(i) # {}
      PROVE Cardinality(Successors(i)) + Cardinality(Rotating(i)') <= Cardinality(Threads)
  <2>1. IsFiniteSet(Successors(i)) /\ IsFiniteSet(Threads)
    BY FiniteResults, SessionsAssumption
  <2>2. Rotating(i) \subseteq Threads /\ Rotating(i)' \subseteq Rotating(i)
    BY <1>2 DEF Rotating
  <2>3. Cardinality(Successors(i)) + Cardinality(Rotating(i)) <= Cardinality(Threads)
    BY <1>2 DEF IInv, NoLateSuccessor
  <2> QED BY <2>1, <2>2, <2>3, FewerRequests
<1>3. ASSUME NEW l \in Links, Sessions(l) # {}
      PROVE Cardinality(Sessions(l)) + Cardinality(Consuming(l)') <= Cardinality(Threads)
  <2>1. IsFiniteSet(Sessions(l)) /\ IsFiniteSet(Threads)
    BY FiniteResults, SessionsAssumption
  <2>2. Consuming(l) \subseteq Threads /\ Consuming(l)' \subseteq Consuming(l)
    BY <1>3 DEF Consuming
  <2>3. Cardinality(Sessions(l)) + Cardinality(Consuming(l)) <= Cardinality(Threads)
    BY <1>3 DEF IInv, NoLateConsumer
  <2> QED BY <2>1, <2>2, <2>3, FewerRequests
<1>4. NoLateSuccessor'
  BY <1>1, <1>2 DEF NoLateSuccessor
<1>5. NoLateConsumer'
  BY <1>1, <1>3 DEF NoLateConsumer
<1> QED BY <1>4, <1>5

-----------------------------------------------------------------------------
LEMMA InitInv == Init => IInv
<1> SUFFICES ASSUME Init PROVE IInv
  OBVIOUS
<1>1. issued \in 0..MaxTokens /\ \A i \in Tokens : i \in Live <=> i <= issued
  BY SessionsAssumption DEF Init, Live
<1>2. TypeOK
  BY <1>1, SessionsAssumption DEF Init, TypeOK, Idle, Request, Stages, Prints, Tokens
<1>3. Shaped
  BY <1>1, SessionsAssumption DEF Init, Shaped, ShapeOf, Idle
<1>4. Past
  BY <1>1, SessionsAssumption DEF Init, Past, Tokens
<1>5. SweepComplete /\ RotationKeepsDevice
  BY <1>1 DEF Init, SweepComplete, RotationKeepsDevice, Live, Tokens
<1>6. (\A i \in Tokens : Successors(i) = {}) /\ \A l \in Links : Sessions(l) = {}
  BY SessionsAssumption DEF Init, Successors, Sessions, Tokens
<1>7. NoLateSuccessor /\ NoLateConsumer
  BY <1>6 DEF NoLateSuccessor, NoLateConsumer
<1> QED BY <1>2, <1>3, <1>4, <1>5, <1>7 DEF IInv

(* A request that reads, or gives up, and changes no row: it holds what     *)
(* agrees with the rows, and gets hold of no token or link that is over.    *)
LEMMA Reads ==
  ASSUME IInv, UNCHANGED <<rows, hist>>, NEW t \in Threads, NEW q \in Request,
         req' = [req EXCEPT ![t] = q], ShapeOf(q),
         q.at = "rotating" => q.held \subseteq Live,
         q.link # None => link[q.link] = "unused"
  PROVE  IInv'
<1> USE DEF rows, hist
<1>1. TypeOK'
  BY DEF IInv, TypeOK
<1>2. Live' = Live
  BY DEF Live
<1>3. Shaped'
  BY <1>2 DEF IInv, TypeOK, Shaped, ShapeOf
<1>4. Past' /\ SweepComplete' /\ RotationKeepsDevice'
  BY <1>2 DEF IInv, Past, SweepComplete, RotationKeepsDevice
<1>5. ASSUME NEW i \in Tokens, Successors(i) # {} PROVE Rotating(i)' \subseteq Rotating(i)
  <2>1. i \notin Live
    BY <1>5, SessionsAssumption DEF Successors, IInv, Past, Tokens
  <2>2. t \notin Rotating(i)'
    BY <2>1 DEF Rotating, IInv, TypeOK
  <2> QED BY <2>2 DEF Rotating, IInv, TypeOK
<1>6. ASSUME NEW l \in Links, Sessions(l) # {} PROVE Consuming(l)' \subseteq Consuming(l)
  <2>1. link[l] = "spent"
    BY <1>6, SessionsAssumption DEF Sessions, IInv, Past
  <2>2. t \notin Consuming(l)'
    BY <2>1, SessionsAssumption DEF Consuming, IInv, TypeOK
  <2> QED BY <2>2 DEF Consuming, IInv, TypeOK
<1> QED BY <1>1, <1>3, <1>4, <1>5, <1>6, NobodyLate DEF IInv

(* A commit that changes rows and no token's history: nothing comes to life *)
(* and nobody reads.                                                        *)
LEMMA Ends ==
  ASSUME IInv, TypeOK', UNCHANGED <<bound, issued, parent, from>>,
         Live' \subseteq Live, swept' <= issued, SweepComplete',
         \A i \in Tokens : tok'[i] = "none" <=> tok[i] = "none",
         \A l \in Links : link[l] = "spent" => link'[l] = "spent",
         \A t \in Threads : req'[t] \in {req[t], Idle}
  PROVE  IInv'
<1>1. Shaped'
  BY SessionsAssumption DEF IInv, TypeOK, Shaped, ShapeOf, Idle
<1>2. Past'
  <2>1. \A i \in Tokens : tok'[i] = "none" <=> i > issued'
    BY DEF IInv, Past
  <2>2. \A j \in Tokens : parent'[j] # 0 => j <= issued' /\ parent'[j] <= issued' /\ parent'[j] \notin Live'
    BY DEF IInv, Past
  <2>3. \A j \in Tokens : from'[j] # None => j <= issued' /\ link'[from'[j]] = "spent"
    BY DEF IInv, Past, TypeOK
  <2> QED BY <2>1, <2>2, <2>3 DEF Past
<1>3. RotationKeepsDevice'
  BY DEF IInv, RotationKeepsDevice
<1>4. \A i \in Tokens : Rotating(i)' \subseteq Rotating(i)
  BY DEF Rotating, Idle
<1>5. \A l \in Links : Consuming(l)' \subseteq Consuming(l)
  BY SessionsAssumption DEF Consuming, Idle
<1> QED BY <1>1, <1>2, <1>3, <1>4, <1>5, NobodyLate DEF IInv

(* Mapping the rows of a set to "revoked" leaves the others alone.          *)
LEMMA RevokeEnds ==
  ASSUME TypeOK, NEW S, Revoke(S), \A i \in S : i \in Tokens => tok[i] # "none"
  PROVE  /\ tok' \in [Tokens -> {"none", "live", "stale", "revoked", "deleted"}]
         /\ Live' = Live \ S
         /\ \A i \in Tokens : tok'[i] = "none" <=> tok[i] = "none"
  BY DEF TypeOK, Revoke, Live

(* The commit of a sign-in or a rotation. *)
LEMMA IssueInv ==
  ASSUME IInv, NEW t \in Threads, req[t].at \in {"issuing", "rotating"}, Issue(t),
         link' = [l \in Links |-> IF l = req[t].link THEN "spent" ELSE link[l]],
         UNCHANGED <<active, swept>>
  PROVE  IInv'
<1> DEFINE n == issued + 1
<1>0. /\ n \in Tokens /\ issued \in 0..MaxTokens /\ tok[n] = "none"
      /\ req[t] \in Request /\ 0 \notin Tokens
  BY SessionsAssumption DEF Issue, IInv, TypeOK, Past, Tokens
<1>1. \/ req[t].held = {}
      \/ \E i \in Tokens : req[t].held = {i} /\ bound[i] \in {req[t].print, None} /\ req[t].print \in Devices
                          /\ i <= issued /\ req[t].link = None /\ req[t].at = "rotating"
  BY DEF IInv, Shaped, ShapeOf
<1>2. parent' = [parent EXCEPT ![n] = IF req[t].held = {} THEN 0 ELSE CHOOSE i \in req[t].held : TRUE]
  BY DEF Issue
<1>3. \/ parent' = [parent EXCEPT ![n] = 0] /\ req[t].held = {}
      \/ \E i \in Tokens : /\ parent' = [parent EXCEPT ![n] = i]
                          /\ req[t].held = {i} /\ bound[i] \in {req[t].print, None} /\ req[t].print \in Devices
                          /\ i <= issued /\ req[t].link = None /\ req[t].at = "rotating"
  BY <1>1, <1>2
<1>4. /\ issued' = n /\ req' = [req EXCEPT ![t] = Idle]
      /\ tok' = [i \in Tokens |-> IF i = n THEN "live" ELSE IF i \in req[t].held THEN "revoked" ELSE tok[i]]
      /\ bound' = [bound EXCEPT ![n] = req[t].print]
      /\ from' = [from EXCEPT ![n] = req[t].link]
      /\ link' = [l \in Links |-> IF l = req[t].link THEN "spent" ELSE link[l]]
      /\ swept' = swept /\ active' = active
  BY DEF Issue, End, Binding
<1>5. Live' = (Live \ req[t].held) \cup {n}
  <2>1. \A i \in req[t].held : i # n
    BY <1>0, <1>1
  <2> QED BY <1>0, <1>4, <2>1 DEF Live
<1>6. TypeOK'
  <2>1. Idle \in Request
    BY SessionsAssumption DEF Idle, Request, Stages, Prints
  <2>2. parent' \in [Tokens -> 0..MaxTokens]
    <3>1. parent \in [Tokens -> 0..MaxTokens] /\ MaxTokens \in Nat
      BY SessionsAssumption DEF IInv, TypeOK
    <3>2. PICK i \in {0} \cup Tokens : parent' = [parent EXCEPT ![n] = i]
      BY <1>3
    <3>3. i \in 0..MaxTokens
      BY <3>1, <3>2 DEF Tokens
    <3> QED BY <3>1, <3>2, <3>3
  <2>3. tok' \in [Tokens -> {"none", "live", "stale", "revoked", "deleted"}]
    BY <1>4 DEF IInv, TypeOK
  <2>4. bound' \in [Tokens -> Prints \cup {None}] /\ from' \in [Tokens -> Links \cup {None}]
    BY <1>0, <1>4 DEF IInv, TypeOK, Request
  <2>5. link' \in [Links -> {"none", "unused", "spent"}] /\ req' \in [Threads -> Request]
    BY <1>4, <2>1 DEF IInv, TypeOK
  <2>6. issued' \in 0..MaxTokens /\ swept' \in 0..MaxTokens /\ active' \in BOOLEAN
    BY <1>0, <1>4 DEF IInv, TypeOK, Tokens
  <2> QED BY <2>2, <2>3, <2>4, <2>5, <2>6 DEF TypeOK
<1>7. Shaped'
  <2> SUFFICES ASSUME NEW u \in Threads PROVE ShapeOf(req[u])'
    BY DEF Shaped
  <2>1. CASE u = t
    BY <1>0, <1>4, <2>1, SessionsAssumption DEF IInv, TypeOK, ShapeOf, Idle
  <2>2. CASE u # t
    <3>1. req'[u] = req[u] /\ ShapeOf(req[u]) /\ req[u] \in Request
      BY <1>4, <2>2 DEF IInv, TypeOK, Shaped
    <3>2. \A i \in Tokens : i <= issued => bound'[i] = bound[i]
      BY <1>0, <1>4 DEF IInv, TypeOK
    <3>3. \A i \in req[u].held : i <= issued /\ i \in Tokens /\ i <= n
      BY <1>0, <3>1 DEF ShapeOf, Request, Tokens
    <3>4. req[u].seen <= issued /\ req[u].seen < n
      BY <1>0, <3>1 DEF ShapeOf, Request
    <3>5. req[u].at = "sweeping" => \A i \in Live' : i <= req[u].seen => i \in req[u].held
      BY <1>0, <1>5, <3>1, <3>4 DEF ShapeOf, Request
    <3>6. req[u].at = "rotating" => \E i \in Tokens : req[u].held = {i} /\ bound'[i] \in {req[u].print, None} /\ req[u].print \in Devices
      BY <3>1, <3>2, <3>3 DEF ShapeOf
    <3>7. req[u].seen <= n
      BY <1>0, <3>1, <3>4 DEF Request
    <3> QED BY <1>4, <3>1, <3>3, <3>5, <3>6, <3>7 DEF ShapeOf
  <2> QED BY <2>1, <2>2
<1>8. \A j \in Tokens : parent[j] # 0 => j # n /\ parent[j] # n
  BY <1>0 DEF IInv, Past, TypeOK, Tokens
<1>9. Past'
  <2>1. \A i \in Tokens : tok'[i] = "none" <=> i > issued'
    <3>1. \A i \in req[t].held : i \in Tokens /\ i <= issued
      BY <1>0, <1>1
    <3>2. \A i \in Tokens : tok[i] = "none" <=> i > issued
      BY DEF IInv, Past
    <3> QED BY <1>0, <1>4, <3>1, <3>2 DEF Tokens
  <2>2. swept' <= issued'
    BY <1>0, <1>4 DEF IInv, Past, TypeOK
  <2>3. ASSUME NEW j \in Tokens, parent'[j] # 0
        PROVE j <= issued' /\ parent'[j] <= issued' /\ parent'[j] \notin Live'
    <3>1. CASE j = n
      <4>1. PICK i \in Tokens : parent' = [parent EXCEPT ![n] = i] /\ req[t].held = {i} /\ i <= issued
        BY <1>0, <1>3, <2>3, <3>1 DEF IInv, TypeOK
      <4>2. parent'[j] = i
        BY <1>0, <3>1, <4>1 DEF IInv, TypeOK
      <4>3. i # n /\ i <= n /\ n <= issued'
        BY <1>0, <1>4, <4>1 DEF Tokens
      <4> QED BY <1>4, <1>5, <3>1, <4>1, <4>2, <4>3
    <3>2. CASE j # n
      <4>1. parent'[j] = parent[j]
        BY <1>0, <1>3, <3>2 DEF IInv, TypeOK
      <4>2. j <= issued /\ parent[j] <= issued /\ parent[j] \notin Live /\ parent[j] \in 0..MaxTokens
        BY <2>3, <4>1 DEF IInv, Past, TypeOK
      <4> QED BY <1>0, <1>4, <1>5, <1>8, <2>3, <4>1, <4>2 DEF Tokens
    <3> QED BY <3>1, <3>2
  <2>4. ASSUME NEW j \in Tokens, from'[j] # None
        PROVE j <= issued' /\ link'[from'[j]] = "spent"
    <3>1. CASE j = n
      BY <1>0, <1>4, <2>4, <3>1 DEF IInv, TypeOK, Request, Tokens
    <3>2. CASE j # n
      <4>1. from'[j] = from[j]
        BY <1>0, <1>4, <3>2 DEF IInv, TypeOK
      <4>2. j <= issued /\ link[from[j]] = "spent" /\ from[j] \in Links
        BY <2>4, <4>1 DEF IInv, Past, TypeOK
      <4> QED BY <1>0, <1>4, <4>1, <4>2 DEF Tokens
    <3> QED BY <3>1, <3>2
  <2> QED BY <2>1, <2>2, <2>3, <2>4 DEF Past
<1>10. SweepComplete'
  BY <1>0, <1>4, <1>5 DEF IInv, Past, SweepComplete, TypeOK
<1>11. RotationKeepsDevice'
  <2> SUFFICES ASSUME NEW j \in Tokens, parent'[j] # 0
               PROVE bound'[j] \in Devices /\ bound'[parent'[j]] \in {bound'[j], None}
    BY DEF RotationKeepsDevice
  <2>1. CASE j = n
    BY <1>0, <1>3, <1>4, <2>1, SessionsAssumption DEF IInv, TypeOK
  <2>2. CASE j # n
    <3>1. parent'[j] = parent[j]
      BY <1>0, <1>3, <2>2 DEF IInv, TypeOK
    <3> QED BY <1>0, <1>4, <1>8, <2>2, <3>1 DEF IInv, TypeOK, RotationKeepsDevice
  <2> QED BY <2>1, <2>2
<1>12. NoLateSuccessor'
  <2> SUFFICES ASSUME NEW i \in Tokens, Successors(i)' # {}
               PROVE Cardinality(Successors(i)') + Cardinality(Rotating(i)') <= Cardinality(Threads)
    BY DEF NoLateSuccessor
  <2>1. Rotating(i)' = Rotating(i) \ {t}
    BY <1>4 DEF Rotating, Idle, IInv, TypeOK
  <2>2. IsFiniteSet(Successors(i)) /\ IsFiniteSet(Threads) /\ Rotating(i) \subseteq Threads
    BY FiniteResults, SessionsAssumption DEF Rotating
  <2>3. Successors(i) # {} => Cardinality(Successors(i)) + Cardinality(Rotating(i)) <= Cardinality(Threads)
    BY DEF IInv, NoLateSuccessor
  <2>4. CASE parent'[n] = i
    <3>1. t \in Rotating(i)
      BY <1>0, <1>3, <2>4 DEF Rotating, IInv, TypeOK
    <3>2. Successors(i)' = Successors(i) \cup {n} /\ n \notin Successors(i)
      BY <1>0, <1>3, <1>8, <2>4 DEF Successors, IInv, TypeOK
    <3> QED BY <2>1, <2>2, <2>3, <3>1, <3>2, OneMoves
  <2>5. CASE parent'[n] # i
    <3>1. Successors(i)' = Successors(i)
      BY <1>0, <1>3, <1>8, <2>5 DEF Successors, IInv, TypeOK
    <3>2. Rotating(i)' \subseteq Rotating(i)
      BY <2>1
    <3> QED BY <2>2, <2>3, <3>1, <3>2, FewerRequests
  <2> QED BY <2>4, <2>5
<1>13. NoLateConsumer'
  <2> SUFFICES ASSUME NEW l \in Links, Sessions(l)' # {}
               PROVE Cardinality(Sessions(l)') + Cardinality(Consuming(l)') <= Cardinality(Threads)
    BY DEF NoLateConsumer
  <2>1. Consuming(l)' = Consuming(l) \ {t}
    BY <1>4, SessionsAssumption DEF Consuming, Idle, IInv, TypeOK
  <2>2. IsFiniteSet(Sessions(l)) /\ IsFiniteSet(Threads) /\ Consuming(l) \subseteq Threads
    BY FiniteResults, SessionsAssumption DEF Consuming
  <2>3. Sessions(l) # {} => Cardinality(Sessions(l)) + Cardinality(Consuming(l)) <= Cardinality(Threads)
    BY DEF IInv, NoLateConsumer
  <2>4. from[n] = None /\ l # None
    BY <1>0, SessionsAssumption DEF IInv, Past, TypeOK
  <2>5. CASE req[t].link = l
    <3>1. t \in Consuming(l)
      BY <2>5 DEF Consuming
    <3>2. Sessions(l)' = Sessions(l) \cup {n} /\ n \notin Sessions(l)
      BY <1>0, <1>4, <2>4, <2>5 DEF Sessions, IInv, TypeOK
    <3> QED BY <2>1, <2>2, <2>3, <3>1, <3>2, OneMoves
  <2>6. CASE req[t].link # l
    <3>1. Sessions(l)' = Sessions(l)
      BY <1>0, <1>4, <2>4, <2>6 DEF Sessions, IInv, TypeOK
    <3>2. Consuming(l)' \subseteq Consuming(l)
      BY <2>1
    <3> QED BY <2>2, <2>3, <3>1, <3>2, FewerRequests
  <2> QED BY <2>5, <2>6
<1> QED BY <1>6, <1>7, <1>9, <1>10, <1>11, <1>12, <1>13 DEF IInv

LEMMA NextInv == IInv /\ [Next]_vars => IInv'
<1> SUFFICES ASSUME IInv, [Next]_vars PROVE IInv'
  OBVIOUS
<1>0. /\ Idle \in Request
      /\ \A i \in Live : i <= issued /\ i \in Tokens
      /\ issued \in 0..MaxTokens /\ MaxTokens \in Nat
      /\ \A l \in Links : l # None
  BY SessionsAssumption DEF Idle, Request, Stages, Prints, Live, IInv, TypeOK, Past, Tokens
(* A request that begins, by what it holds. *)
<1>1. ASSUME NEW t \in Threads, NEW a \in {"issuing", "revoking"}, NEW H \in SUBSET Live,
             NEW l \in Links \cup {None}, NEW p \in Prints, Begin(t, a, H, l, p),
             a = "issuing" => H = {}, a = "revoking" => l = None, l # None => link[l] = "unused"
      PROVE IInv'
  <2> DEFINE q == [Idle EXCEPT !.at = a, !.held = H, !.link = l, !.print = p]
  <2>1. q \in Request
    BY <1>0 DEF Idle, Request, Stages
  <2>2. ShapeOf(q)
    BY <1>0, <1>1 DEF ShapeOf, Idle
  <2> QED BY <1>1, <2>1, <2>2, Reads DEF Begin, Idle
<1>2. ASSUME NEW t \in Threads, NEW d \in Devices, NEW i \in Tokens, Refresh(t, d, i) PROVE IInv'
  <2>1. i \in Live /\ d \in Prints
    BY <1>2 DEF Refresh, Prints
  <2>2. PICK a \in {"revoking", "alarmed", "rotating"} :
          Begin(t, a, {i}, None, d) /\ (a = "rotating" => bound[i] \in {d, None})
    BY <1>2 DEF Refresh, Present, Mismatch
  <2> DEFINE q == [Idle EXCEPT !.at = a, !.held = {i}, !.link = None, !.print = d]
  <2>3. q \in Request
    BY <1>0, <2>1 DEF Idle, Request, Stages
  <2>4. ShapeOf(q)
    BY <1>0, <2>1, <2>2 DEF ShapeOf, Idle
  <2> QED BY <2>1, <2>2, <2>3, <2>4, Reads DEF Begin, Idle
(* The selection of a sweep. *)
<1>3. ASSUME NEW t \in Threads, NEW H, H \subseteq Tokens, Live \subseteq H, \A i \in H : i <= issued,
             Select(t, H)
      PROVE IInv'
  <2> DEFINE q == [Idle EXCEPT !.at = "sweeping", !.held = H, !.seen = issued]
  <2>1. q \in Request
    BY <1>0, <1>3 DEF Idle, Request, Stages
  <2>2. ShapeOf(q)
    BY <1>0, <1>3 DEF ShapeOf, Idle
  <2> QED BY <1>3, <2>1, <2>2, Reads DEF Select, Idle
<1>4. ASSUME NEW t \in Threads, Siblings(t) PROVE IInv'
  <2>1. \A i \in req[t].held : i <= issued /\ i \in Tokens
    BY DEF IInv, Shaped, ShapeOf, TypeOK, Request
  <2> QED BY <1>0, <1>3, <1>4, <2>1 DEF Siblings
<1>5. ASSUME NEW t \in Threads, RevokeAll(t) PROVE IInv'
  BY <1>0, <1>3, <1>5 DEF RevokeAll
<1>6. ASSUME NEW t \in Threads, RolledBack(t) PROVE IInv'
  <2>1. ShapeOf(Idle)
    BY <1>0 DEF ShapeOf, Idle
  <2> QED BY <1>0, <1>6, <2>1, Reads DEF RolledBack, End, Idle
<1>7. ASSUME NEW t \in Threads, SignedIn(t) PROVE IInv'
  BY <1>7, IssueInv DEF SignedIn
<1>8. ASSUME NEW t \in Threads, Rotate(t) PROVE IInv'
  <2>1. req[t].link = None
    BY <1>8 DEF Rotate, IInv, Shaped, ShapeOf
  <2>2. link = [l \in Links |-> IF l = req[t].link THEN "spent" ELSE link[l]]
    BY <1>0, <2>1 DEF IInv, TypeOK
  <2> QED BY <1>8, <2>2, IssueInv DEF Rotate
(* The commit of a request that revokes what it holds. *)
<1>9. ASSUME NEW t \in Threads, Revoke(req[t].held), End(t), UNCHANGED <<bound, active, link, issued, parent, from>>,
             swept' \in 0..MaxTokens, swept' <= issued, \A i \in Live : i <= swept' => i <= swept \/ i \in req[t].held
      PROVE IInv'
  <2>1. \A i \in req[t].held : i \in Tokens => tok[i] # "none"
    BY <1>0 DEF IInv, Shaped, ShapeOf, Past, TypeOK, Tokens
  <2>2. /\ tok' \in [Tokens -> {"none", "live", "stale", "revoked", "deleted"}]
        /\ Live' = Live \ req[t].held
        /\ \A i \in Tokens : tok'[i] = "none" <=> tok[i] = "none"
    BY <1>9, <2>1, RevokeEnds DEF IInv
  <2>3. TypeOK'
    BY <1>0, <1>9, <2>2 DEF IInv, TypeOK, End
  <2>4. SweepComplete'
    BY <1>0, <1>9, <2>2 DEF IInv, TypeOK, SweepComplete, Tokens
  <2>5. \A u \in Threads : req'[u] \in {req[u], Idle}
    BY <1>9 DEF End, IInv, TypeOK
  <2> QED BY <1>9, <2>2, <2>3, <2>4, <2>5, Ends
<1>10. ASSUME NEW t \in Threads, Revoked(t) PROVE IInv'
  <2>1. swept' = swept /\ swept \in 0..MaxTokens /\ swept <= issued
    BY <1>10 DEF Revoked, hist, IInv, TypeOK, Past
  <2> QED BY <1>9, <1>10, <2>1 DEF Revoked, hist
<1>11. ASSUME NEW t \in Threads, Swept(t) PROVE IInv'
  <2>1. req[t].seen \in 0..MaxTokens /\ req[t].seen <= issued /\ swept \in 0..MaxTokens /\ swept <= issued
    BY DEF IInv, TypeOK, Request, Shaped, ShapeOf, Past
  <2>2. \A i \in Live : i <= req[t].seen => i \in req[t].held
    BY <1>11 DEF Swept, IInv, Shaped, ShapeOf
  <2> QED BY <1>9, <1>11, <2>1, <2>2 DEF Swept
<1>12. CASE Erase
  <2> DEFINE S == {i \in Tokens : tok[i] \notin {"none", "deleted"}}
  <2>1. /\ tok' \in [Tokens -> {"none", "live", "stale", "revoked", "deleted"}]
        /\ Live' = Live \ S
        /\ \A i \in Tokens : tok'[i] = "none" <=> tok[i] = "none"
    BY <1>12, RevokeEnds DEF Erase, IInv
  <2>2. Live' = {}
    BY <2>1 DEF Live
  <2>3. TypeOK' /\ SweepComplete'
    BY <1>0, <1>12, <2>1, <2>2 DEF Erase, IInv, TypeOK, SweepComplete
  <2>4. swept' <= issued
    BY <1>0, <1>12 DEF Erase
  <2> QED BY <1>12, <2>1, <2>2, <2>3, <2>4, Ends DEF Erase
<1>13. CASE SetActive
  <2>1. TypeOK' /\ SweepComplete' /\ Live' = Live /\ swept' <= issued
    BY <1>13 DEF SetActive, hist, IInv, TypeOK, Past, SweepComplete, Live
  <2> QED BY <1>13, <2>1, Ends DEF SetActive, hist
<1>14. CASE Cleanup
  <2>1. PICK old \in SUBSET {i \in Tokens : tok[i] = "revoked"} :
          tok' = [i \in Tokens |-> IF tok[i] = "stale" \/ i \in old THEN "deleted" ELSE tok[i]]
    BY <1>14 DEF Cleanup
  <2>2. Live' \subseteq Live /\ \A i \in Tokens : tok'[i] = "none" <=> tok[i] = "none"
    BY <2>1 DEF Live
  <2>3. TypeOK' /\ SweepComplete' /\ swept' <= issued
    BY <1>14, <2>1, <2>2 DEF Cleanup, hist, IInv, TypeOK, Past, SweepComplete
  <2> QED BY <1>14, <2>2, <2>3, Ends DEF Cleanup, hist
<1>15. ASSUME NEW i \in Tokens, ExpireToken(i) PROVE IInv'
  <2>1. Live' = Live /\ \A j \in Tokens : tok'[j] = "none" <=> tok[j] = "none"
    BY <1>15 DEF ExpireToken, Live, IInv, TypeOK
  <2>2. TypeOK' /\ SweepComplete' /\ swept' <= issued
    BY <1>15, <2>1 DEF ExpireToken, hist, IInv, TypeOK, Past, SweepComplete
  <2> QED BY <1>15, <2>1, <2>2, Ends DEF ExpireToken, hist
<1>16. ASSUME NEW l \in Links, MailLink(l) \/ ExpireLink(l) PROVE IInv'
  <2>1. /\ TypeOK' /\ SweepComplete' /\ Live' = Live /\ swept' <= issued
        /\ UNCHANGED <<tok, bound, req, issued, parent, from>>
        /\ \A k \in Links : link[k] = "spent" => link'[k] = "spent"
    BY <1>16 DEF MailLink, ExpireLink, hist, IInv, TypeOK, Past, SweepComplete, Live
  <2> QED BY <2>1, Ends
<1>17. CASE UNCHANGED vars
  <2>1. TypeOK' /\ SweepComplete' /\ Live' = Live /\ swept' <= issued
    BY <1>17 DEF vars, rows, hist, IInv, TypeOK, Past, SweepComplete, Live
  <2> QED BY <1>17, <2>1, Ends DEF vars, rows, hist
<1>18. ASSUME NEW t \in Threads, Handler(t) PROVE IInv'
  <2>1. ASSUME NEW d \in Devices, Login(t, d) PROVE IInv'
    BY <1>1, <2>1 DEF Login, Prints
  <2>2. CASE Passkey(t) \/ SingleSignOn(t)
    BY <1>1, <2>2 DEF Passkey, SingleSignOn, Prints
  <2>3. ASSUME NEW l \in Links, ConsumeLink(t, l) PROVE IInv'
    BY <1>1, <2>3 DEF ConsumeLink, Prints
  <2>4. ASSUME NEW i \in Tokens, RevokeOne(t, i) PROVE IInv'
    BY <1>1, <2>4 DEF RevokeOne, Prints
  <2> QED BY <1>2, <1>4, <1>5, <1>6, <1>7, <1>8, <1>10, <1>11, <1>18, <2>1, <2>2, <2>3, <2>4 DEF Handler
<1> QED BY <1>12, <1>13, <1>14, <1>15, <1>16, <1>17, <1>18 DEF Next

-----------------------------------------------------------------------------
(* The inductive invariant: the four properties, and what requests hold.    *)
THEOREM Invariant == Spec => []IInv
<1>1. Init => IInv
  BY InitInv
<1>2. IInv /\ [Next]_vars => IInv'
  BY NextInv
<1> QED BY <1>1, <1>2, PTL DEF Spec

(* The rows and the requests keep their types. *)
THEOREM TypeCorrect == Spec => []TypeOK
<1>1. IInv => TypeOK
  BY DEF IInv
<1> QED BY <1>1, Invariant, PTL

(* Once a token has a successor no further request gets hold of it: it has  *)
(* at most one per request thread, for any number of threads.               *)
THEOREM SuccessorsAreBounded == Spec => []NoLateSuccessor
<1>1. IInv => NoLateSuccessor
  BY DEF IInv
<1> QED BY <1>1, Invariant, PTL

(* The same of the sessions that come from one magic link. *)
THEOREM ConsumersAreBounded == Spec => []NoLateConsumer
<1>1. IInv => NoLateConsumer
  BY DEF IInv
<1> QED BY <1>1, Invariant, PTL

(* After a logout everywhere, an alarm or an erasure every session issued   *)
(* before it selected is dead, whatever requests run beside.                *)
THEOREM SweepsAreComplete == Spec => []SweepComplete
<1>1. IInv => SweepComplete
  BY DEF IInv
<1> QED BY <1>1, Invariant, PTL

(* A session stays on its device through any number of rotations, from the  *)
(* one that binds it on if it is a legacy session.                          *)
THEOREM DeviceIsKept == Spec => []RotationKeepsDevice
<1>1. IInv => RotationKeepsDevice
  BY DEF IInv
<1> QED BY <1>1, Invariant, PTL
=============================================================================
