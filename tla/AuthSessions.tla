------------------------------ MODULE AuthSessions ------------------------------
(***************************************************************************)
(* The sessions of one user: refresh_tokens and magic_link_tokens under    *)
(* api/v1/endpoints/auth.py, magic_link.py, sso.py, webauthn.py, scim.py,  *)
(* services/gdpr.py and services/housekeeping.py.                          *)
(*                                                                         *)
(* A request selects rows without a lock and commits later: two steps of   *)
(* its thread, with the steps of the other requests between them.  An      *)
(* update names its row by primary key, and SQLAlchemy raises when the row *)
(* is gone, which rolls the whole request back.                            *)
(***************************************************************************)
EXTENDS Integers, FiniteSets

CONSTANTS
  Devices,    \* fingerprints of the browsers the user has
  Unknown,    \* fingerprint("unknown", "no-ip"), of a token issued without a request
  Threads,    \* request threads of the API
  Links,      \* magic links that may be mailed
  Legacy,     \* bound: refresh tokens from before the column device_fingerprint
  MaxTokens,  \* bound: how many refresh tokens there are
  None

ASSUME SessionsAssumption ==
  /\ MaxTokens \in Nat /\ Legacy \in 0..MaxTokens /\ IsFiniteSet(Threads)
  /\ Unknown \notin Devices /\ None \notin Links \cup Devices \cup {Unknown}

VARIABLES
  tok,      \* the refresh_tokens rows, by order of issue
  bound,    \* device_fingerprint, None for null
  active,   \* users.is_active
  link,     \* the magic_link_tokens rows
  req,      \* what the request of a thread holds between its reads and its commit
  issued,   \* auxiliary: how many tokens were issued, the legacy ones first
  parent,   \* auxiliary: the token a token succeeded, 0 for a sign-in
  from,     \* auxiliary: the magic link a token came from
  swept     \* auxiliary: the last token that a committed sweep could select

rows == <<tok, bound, active, link>>
hist == <<issued, parent, from, swept>>
vars == <<rows, req, hist>>

Tokens == 1..MaxTokens
Prints == Devices \cup {Unknown}
Stages == {"idle", "issuing", "rotating", "alarmed", "revoking", "sweeping"}
Request == [at : Stages, held : SUBSET Tokens, link : Links \cup {None},
            print : Prints, seen : 0..MaxTokens]

Idle == [at |-> "idle", held |-> {}, link |-> None, print |-> Unknown, seen |-> 0]

Init ==
  /\ issued \in 0..Legacy
  /\ tok = [i \in Tokens |-> IF i <= issued THEN "live" ELSE "none"]
  /\ bound = [i \in Tokens |-> IF i <= issued THEN None ELSE Unknown]
  /\ active = TRUE
  /\ link = [l \in Links |-> "none"]
  /\ req = [t \in Threads |-> Idle]
  /\ parent = [i \in Tokens |-> 0]
  /\ from = [i \in Tokens |-> None]
  /\ swept = 0

(* revoked_at is null; a stale token is past expires_at. *)
Live == {i \in Tokens : tok[i] \in {"live", "stale"}}

(* The reads of a request that found what it looked for. *)
Begin(t, stage, held, l, p) ==
  /\ req[t].at = "idle"
  /\ req' = [req EXCEPT ![t] = [Idle EXCEPT !.at = stage, !.held = held,
                                            !.link = l, !.print = p]]
  /\ UNCHANGED <<rows, hist>>

End(t) == req' = [req EXCEPT ![t] = Idle]

(* A row that another request deleted after this one read it. *)
Gone(t) == \E i \in req[t].held : tok[i] = "deleted"

(* Mutant: a successor is issued without the request. *)
BlindBinding(t) == IF req[t].at = "rotating" THEN Unknown ELSE req[t].print

(* The print a new token is bound to. *)
Binding(t) == req[t].print

(* _issue_tokens adds a row, bound to the device of the request when it was *)
(* given one, and the commit writes it with what was revoked.               *)
Issue(t) ==
  /\ issued < MaxTokens
  /\ issued' = issued + 1
  /\ tok' = [i \in Tokens |-> IF i = issued + 1 THEN "live"
                              ELSE IF i \in req[t].held THEN "revoked" ELSE tok[i]]
  /\ bound' = [bound EXCEPT ![issued + 1] = Binding(t)]
  /\ from' = [from EXCEPT ![issued + 1] = req[t].link]
  /\ parent' = [parent EXCEPT ![issued + 1] =
                  IF req[t].held = {} THEN 0 ELSE CHOOSE i \in req[t].held : TRUE]
  /\ End(t)

Revoke(S) == tok' = [i \in Tokens |-> IF i \in S THEN "revoked" ELSE tok[i]]

-----------------------------------------------------------------------------
(* Signing in                                                              *)

(* login: the password and the second factor were accepted. *)
Login(t, d) == active /\ Begin(t, "issuing", {}, None, d)

(* A passkey: _issue_tokens is not given the request. *)
Passkey(t) == active /\ Begin(t, "issuing", {}, None, Unknown)

(* OIDC and SAML: nor is it here, and an existing user is not tested.  *)
SingleSignOn(t) == Begin(t, "issuing", {}, None, Unknown)

(* issue_magic_link: the row of a link that is then mailed. *)
MailLink(l) ==
  /\ active /\ link[l] = "none"
  /\ link' = [link EXCEPT ![l] = "unused"]
  /\ UNCHANGED <<tok, bound, active, req, hist>>

(* Mutant: used_at is not looked at. *)
ConsumeAgain(t, l) ==
  active /\ link[l] # "none" /\ Begin(t, "issuing", {}, l, Unknown)

(* consume_magic_link: the link exists, is unused and not expired. *)
ConsumeLink(t, l) ==
  active /\ link[l] = "unused" /\ Begin(t, "issuing", {}, l, Unknown)

SignedIn(t) ==
  /\ req[t].at = "issuing"
  /\ Issue(t)
  /\ link' = [l \in Links |-> IF l = req[t].link THEN "spent" ELSE link[l]]
  /\ UNCHANGED <<active, swept>>

-----------------------------------------------------------------------------
(* refresh_tokens                                                          *)

(* A legacy token may be presented from anywhere. *)
Mismatch(i, d) == bound[i] \notin {None, d}

Present(t, d, i) ==
  /\ active
  /\ Begin(t, IF tok[i] = "stale" THEN "revoking"
              ELSE IF Mismatch(i, d) THEN "alarmed" ELSE "rotating", {i}, None, d)

(* Mutant: revoked_at is not looked at. *)
RefreshAnyway(t, d, i) == tok[i] \notin {"none", "deleted"} /\ Present(t, d, i)

(* The row is found unrevoked; past expires_at, from another device, or good. *)
Refresh(t, d, i) == i \in Live /\ Present(t, d, i)

(* The token is revoked and its successor issued, in one commit. *)
Rotate(t) ==
  /\ req[t].at = "rotating" /\ ~Gone(t)
  /\ Issue(t)
  /\ UNCHANGED <<active, link, swept>>

Select(t, S) ==
  /\ req' = [req EXCEPT ![t] = [Idle EXCEPT !.at = "sweeping", !.held = S, !.seen = issued]]
  /\ UNCHANGED <<rows, hist>>

(* Mutant: the siblings are those on the same device. *)
SiblingsOfDevice(t) ==
  /\ req[t].at = "alarmed"
  /\ Select(t, req[t].held \cup {i \in Live : bound[i] = req[t].print})

(* Presented from another device: every unrevoked sibling is selected too. *)
Siblings(t) == req[t].at = "alarmed" /\ Select(t, req[t].held \cup Live)

-----------------------------------------------------------------------------
(* Revoking                                                                *)

(* revoke_session, and logout with a token in its body. *)
RevokeOne(t, i) == active /\ i \in Live /\ Begin(t, "revoking", {i}, None, Unknown)

(* logout without a token, and change_password. *)
RevokeAll(t) == active /\ req[t].at = "idle" /\ Select(t, Live)

Revoked(t) ==
  /\ req[t].at = "revoking" /\ ~Gone(t)
  /\ Revoke(req[t].held) /\ End(t)
  /\ UNCHANGED <<bound, active, link, hist>>

Swept(t) ==
  /\ req[t].at = "sweeping" /\ ~Gone(t)
  /\ Revoke(req[t].held) /\ End(t)
  /\ swept' = IF req[t].seen > swept THEN req[t].seen ELSE swept
  /\ UNCHANGED <<bound, active, link, issued, parent, from>>

(* The update matches no row, or the process dies before the commit. *)
RolledBack(t) ==
  /\ req[t].at # "idle"
  /\ End(t)
  /\ UNCHANGED <<rows, hist>>

(* erase_user: one UPDATE of all rows, and the account is closed. *)
Erase ==
  /\ Revoke({i \in Tokens : tok[i] \notin {"none", "deleted"}})
  /\ active' = FALSE
  /\ swept' = issued
  /\ UNCHANGED <<bound, link, req, issued, parent, from>>

(* disable_user and SCIM: the account alone, no token is touched. *)
SetActive ==
  /\ active' = ~active
  /\ UNCHANGED <<tok, bound, link, req, hist>>

(* A token reaches expires_at, a link its fifteen minutes. *)
ExpireToken(i) ==
  /\ tok[i] = "live"
  /\ tok' = [tok EXCEPT ![i] = "stale"]
  /\ UNCHANGED <<bound, active, link, req, hist>>

ExpireLink(l) ==
  /\ link[l] = "unused"
  /\ link' = [link EXCEPT ![l] = "spent"]
  /\ UNCHANGED <<tok, bound, active, req, hist>>

(* cleanup_refresh_tokens: the expired rows, and some of the revoked ones:  *)
(* those that are expired as well or were revoked ninety days ago.          *)
Cleanup ==
  \E old \in SUBSET {i \in Tokens : tok[i] = "revoked"} :
    /\ tok' = [i \in Tokens |-> IF tok[i] = "stale" \/ i \in old THEN "deleted" ELSE tok[i]]
    /\ UNCHANGED <<bound, active, link, req, hist>>

Handler(t) ==
  \/ \E d \in Devices : Login(t, d) \/ \E i \in Tokens : Refresh(t, d, i)
  \/ Passkey(t) \/ SingleSignOn(t) \/ \E l \in Links : ConsumeLink(t, l)
  \/ RevokeAll(t) \/ \E i \in Tokens : RevokeOne(t, i)
  \/ SignedIn(t) \/ Rotate(t) \/ Siblings(t) \/ Revoked(t) \/ Swept(t) \/ RolledBack(t)

Next ==
  \/ \E t \in Threads : Handler(t)
  \/ \E l \in Links : MailLink(l) \/ ExpireLink(l)
  \/ \E i \in Tokens : ExpireToken(i)
  \/ Erase \/ SetActive \/ Cleanup

Spec == Init /\ [][Next]_vars

-----------------------------------------------------------------------------
(* Every column and every request has its type. *)
TypeOK ==
  /\ tok \in [Tokens -> {"none", "live", "stale", "revoked", "deleted"}]
  /\ bound \in [Tokens -> Prints \cup {None}]
  /\ active \in BOOLEAN
  /\ link \in [Links -> {"none", "unused", "spent"}]
  /\ req \in [Threads -> Request]
  /\ issued \in 0..MaxTokens /\ swept \in 0..MaxTokens
  /\ parent \in [Tokens -> 0..MaxTokens]
  /\ from \in [Tokens -> Links \cup {None}]

Successors(i) == {j \in Tokens : parent[j] = i}
Rotating(i)   == {t \in Threads : req[t].at = "rotating" /\ i \in req[t].held}
Sessions(l)   == {j \in Tokens : from[j] = l}
Consuming(l)  == {t \in Threads : req[t].link = l}

(* Rotation takes no lock, so a token may get one successor from every      *)
(* request that held it unrevoked at the same time, and no more: once it    *)
(* has a successor no further request gets hold of it, whatever             *)
(* revocations, alarms and clean-ups run beside.                            *)
NoLateSuccessor ==
  \A i \in Tokens :
    Successors(i) # {} =>
      Cardinality(Successors(i)) + Cardinality(Rotating(i)) <= Cardinality(Threads)

(* The same of a magic link, which is tested and stamped without a lock.    *)
NoLateConsumer ==
  \A l \in Links :
    Sessions(l) # {} =>
      Cardinality(Sessions(l)) + Cardinality(Consuming(l)) <= Cardinality(Threads)

(* After a logout everywhere, a password change, a device alarm or an       *)
(* erasure, every session that was issued before the request selected what  *)
(* to revoke is dead; one issued while it was running may live on.          *)
SweepComplete == \A i \in Live : i > swept

(* A session never moves to another device: a successor is bound to the     *)
(* device that presented its token, which is the one the token was bound to *)
(* unless that is a legacy token.  So a session issued without a request    *)
(* (magic link, passkey, single sign-on) never has a successor, and a       *)
(* legacy one goes on as a bound one.                                       *)
RotationKeepsDevice ==
  \A j \in Tokens :
    parent[j] # 0 => bound[j] \in Devices /\ bound[parent[j]] \in {bound[j], None}
=============================================================================
