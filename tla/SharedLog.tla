------------------------------- MODULE SharedLog -------------------------------
(***************************************************************************)
(* What a collaborative document promises its editors: the updates it has  *)
(* accepted only grow, until a fault or a second server exposes it.        *)
(***************************************************************************)
CONSTANT Updates

VARIABLES
  content,  \* the accepted updates that somebody can still get
  exposed   \* a loss is no longer excluded

Init == content = {} /\ exposed = FALSE

Accept(u) == content' = content \cup {u} /\ UNCHANGED exposed

Expose == exposed' = TRUE /\ content' \subseteq Updates

Next == Expose \/ \E u \in Updates : Accept(u)

Spec == Init /\ [][Next]_<<content, exposed>>
=============================================================================
