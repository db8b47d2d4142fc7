----------------------------- MODULE Inventory ------------------------------
(***************************************************************************)
(* The stock of one product, its alerts, and the documents that fill it: a *)
(* purchase order with its lines and a return.  From                       *)
(* api/v1/endpoints/inventory.py.                                          *)
(*                                                                         *)
(* A handler reads, decides and commits; between its reads and its commit  *)
(* the others run.  Left out: suppliers, warehouses, shipments, prices,    *)
(* alerts made by hand, and a change of the product's threshold or of the  *)
(* product that the return names.                                          *)
(***************************************************************************)
EXTENDS Integers, FiniteSetsExt

CONSTANTS
  Lines,      \* lines of the purchase order
  Stocked,    \* those that name the product
  Clients,    \* requests
  Amounts,    \* quantities that a movement or a receipt names
  Quantities, \* quantity of a line and of the return
  Given,      \* received_quantity that a line is created with
  Threshold,  \* low_stock_threshold of the product
  MaxMoves    \* bound: movements of the stock and recomputations

Return == "return"

InventoryAssumption ==
  /\ IsFiniteSet(Lines) /\ Stocked \subseteq Lines /\ Return \notin Lines
  /\ Amounts \subseteq Int /\ Quantities \subseteq Int /\ Given \subseteq Int
  /\ Threshold \in Int /\ MaxMoves \in Nat

VARIABLES
  onhand,    \* the sum of the stock movements
  alerts,    \* open stock alerts <<type, number>>
  po,        \* the status of the purchase order
  quantity,  \* quantity of a line
  received,  \* received_quantity of a line
  ret,       \* the status of the return
  req,       \* what a request has read
  moves,     \* movements and recomputations so far
  due,       \* auxiliary: the last change has not been reviewed by one request alone
  given,     \* auxiliary: what a line, and whether the return, was created as received
  into,      \* auxiliary: what a line, and how often the return, has put on stock
  odd        \* auxiliary: marked as received once more, or read by two at once

stock == <<onhand, alerts, moves, due>>
docs  == <<po, quantity, received, ret, given, into, odd>>
vars  == <<stock, docs, req>>

Rest == [at |-> "rest", n |-> 0, qty |-> 0, seen |-> {}, alone |-> TRUE,
         old |-> "", rec |-> [l \in Lines |-> 0], line |-> Return]

(* Documents are created with the quantities and the status of a request. *)
Init ==
  /\ onhand = 0 /\ alerts = {} /\ moves = 0 /\ due = TRUE
  /\ po \in {"sent", "received"} /\ ret \in {"requested", "received"}
  /\ quantity \in [Lines -> Quantities] /\ received \in [Lines -> Given]
  /\ req = [c \in Clients |-> Rest]
  /\ given = [l \in Lines \cup {Return} |-> IF l \in Lines THEN received[l]
                                           ELSE IF ret = "received" THEN 1 ELSE 0]
  /\ into = [l \in Lines \cup {Return} |-> 0] /\ odd = {}

Count == moves < MaxMoves /\ moves' = moves + 1
Add(q) == onhand' = onhand + q /\ Count
Close(c) == req' = [req EXCEPT ![c] = Rest]

-----------------------------------------------------------------------------
(* record_movement, recompute_alerts, resolve_alert                        *)

Reviewing(c) == req[c].at \in {"moved", "looked"}

(* A review that another one overlaps is no longer alone. *)
StartReview(c, r) ==
  LET alone == \A s \in Clients : ~Reviewing(s)
  IN req' = [s \in Clients |-> IF s = c THEN [r EXCEPT !.alone = alone]
                               ELSE [req[s] EXCEPT !.alone = @ /\ ~Reviewing(s)]]

(* The movement is committed first.  Of the movements only those of this    *)
(* endpoint can lower the stock.                                            *)
Move(c, q) ==
  /\ req[c] = Rest /\ Add(q)
  /\ StartReview(c, [Rest EXCEPT !.at = "moved", !.n = moves + 1])
  /\ due' = TRUE
  /\ UNCHANGED <<alerts, docs>>

Recompute(c) ==
  /\ req[c] = Rest /\ Count
  /\ StartReview(c, [Rest EXCEPT !.at = "moved", !.n = moves + 1])
  /\ UNCHANGED <<onhand, alerts, due, docs>>

(* _on_hand and the open alerts. *)
Look(c) ==
  /\ req[c].at = "moved"
  /\ req' = [req EXCEPT ![c].at = "looked", ![c].qty = onhand, ![c].seen = alerts]
  /\ UNCHANGED <<stock, docs>>

IsLow(q) == q <= Threshold
AlertType(q) == IF q <= 0 THEN "out_of_stock" ELSE "low_stock"

ReviewedBelow(r) ==
  IF r.qty >= Threshold THEN alerts \ r.seen ELSE alerts \cup {<<AlertType(r.qty), r.n>>}

(* Low stock opens an alert of its type unless one is open; else all that   *)
(* were read are resolved.                                                  *)
Reviewed(r) ==
  IF ~IsLow(r.qty) THEN alerts \ r.seen
  ELSE IF \E a \in r.seen : a[1] = AlertType(r.qty) THEN alerts
  ELSE alerts \cup {<<AlertType(r.qty), r.n>>}

Act(c) ==
  /\ req[c].at = "looked"
  /\ alerts' = Reviewed(req[c])
  /\ due' = ~req[c].alone
  /\ Close(c)
  /\ UNCHANGED <<onhand, moves, docs>>

(* Every review that is under way has been interfered with. *)
Interfered == [c \in Clients |-> [req[c] EXCEPT !.alone = @ /\ ~Reviewing(c)]]

(* By hand, whatever the stock is. *)
Resolve(a) ==
  /\ a \in alerts
  /\ alerts' = alerts \ {a} /\ due' = TRUE
  /\ req' = Interfered
  /\ UNCHANGED <<onhand, moves, docs>>

-----------------------------------------------------------------------------
(* po_status, receive_line, delete_po, update_return, delete_return        *)

(* The lines, or the return, that a request has read and may write.         *)
Held(r) == CASE r.at = "po" -> Lines [] r.at = "line" -> {r.line}
             [] r.at = "ret" -> {Return} [] OTHER -> {}

Load(c, what, old, line) ==
  LET r == [Rest EXCEPT !.at = what, !.old = old, !.line = line]
      mine == Held(r)
  IN /\ req[c] = Rest
     /\ req' = [req EXCEPT ![c] = [r EXCEPT !.rec =
                  [l \in Lines |-> IF l \in mine THEN received[l] ELSE 0]]]
     /\ odd' = odd \cup (mine \cap UNION {Held(req[s]) : s \in Clients})
     /\ UNCHANGED <<stock, po, quantity, received, ret, given, into>>

LoadPo(c)      == po # "gone" /\ Load(c, "po", po, Return)
LoadLine(c, l) == po # "gone" /\ Load(c, "line", po, l)
LoadReturn(c)  == ret # "gone" /\ Load(c, "ret", ret, Return)

(* A commit of c that puts sums on stock, and ends the request.  Nobody     *)
(* reviews the alerts, though a sum below zero may make the stock low.      *)
Stock(c, sums) ==
  LET lowers == IsLow(onhand') /\ ~IsLow(onhand)
  IN /\ IF sums = {} THEN UNCHANGED <<onhand, moves>> ELSE \E q \in sums : Add(q)
     /\ due' = (due \/ lowers)
     /\ req' = [IF lowers THEN Interfered ELSE req EXCEPT ![c] = Rest]

(* The step to "received" receives every line in full.  A value that is as  *)
(* it was read is not written.                                              *)
SetPo(c, new) ==
  /\ req[c].at = "po" /\ po # "gone"
  /\ LET fill == IF new = "received" /\ req[c].old # "received"
                 THEN {l \in Stocked : quantity[l] # 0} ELSE {}
     IN /\ Stock(c, IF fill = {} THEN {} ELSE {MapThenSumSet(LAMBDA l : quantity[l], fill)})
        /\ into' = [l \in DOMAIN into |-> IF l \in fill THEN into[l] + quantity[l] ELSE into[l]]
        /\ received' = [l \in Lines |-> IF l \in fill /\ req[c].rec[l] # quantity[l]
                                        THEN quantity[l] ELSE received[l]]
        /\ odd' = odd \cup {l \in fill : given[l] + into[l] # 0}
  /\ po' = IF new = req[c].old THEN po ELSE new
  /\ UNCHANGED <<alerts, quantity, ret, given>>

(* Adds to the quantity it has read; a line without a product or a quantity *)
(* that is not positive changes nothing.                                    *)
ReceiveLine(c, q) ==
  /\ req[c].at = "line" /\ po # "gone"
  /\ LET l == req[c].line
     IN IF q > 0 /\ l \in Stocked
        THEN /\ Stock(c, {q}) /\ into' = [into EXCEPT ![l] = @ + q]
             /\ received' = [received EXCEPT ![l] = req[c].rec[l] + q]
        ELSE Stock(c, {}) /\ UNCHANGED <<into, received>>
  /\ UNCHANGED <<alerts, po, quantity, ret, given, odd>>

DeletePo ==
  /\ po # "gone" /\ po' = "gone"
  /\ UNCHANGED <<stock, quantity, received, ret, given, into, odd, req>>

RestocksAgain(old, new) == new = "received"
Restocks(old, new) == old # "received" /\ new = "received"

(* The step to "received" puts the return back on stock, in the quantity    *)
(* that the request names.                                                  *)
SetReturn(c, new, q) ==
  /\ req[c].at = "ret" /\ ret # "gone"
  /\ IF Restocks(req[c].old, new)
     THEN /\ Stock(c, {q}) /\ into' = [into EXCEPT ![Return] = @ + 1]
          /\ odd' = odd \cup {l \in {Return} : given[l] + into[l] # 0 /\ req[c].old # "received"}
     ELSE Stock(c, {}) /\ UNCHANGED <<into, odd>>
  /\ ret' = IF new = req[c].old THEN ret ELSE new
  /\ UNCHANGED <<alerts, po, quantity, received, given>>

DeleteReturn ==
  /\ ret # "gone" /\ ret' = "gone"
  /\ UNCHANGED <<stock, po, quantity, received, given, into, odd, req>>

(* An error, as the update of a row that is gone raises one: rolled back. *)
Abort(c) ==
  /\ req[c] # Rest
  /\ Close(c)
  /\ UNCHANGED <<stock, docs>>

PoStatuses  == {"sent", "received", "gone"}
RetStatuses == {"requested", "received", "gone"}

Next ==
  \/ \E c \in Clients :
       \/ \E q \in Amounts : Move(c, q) \/ ReceiveLine(c, q)
       \/ Recompute(c) \/ Look(c) \/ Act(c)
       \/ LoadPo(c) \/ LoadReturn(c) \/ Abort(c)
       \/ \E l \in Lines : LoadLine(c, l)
       \/ \E s \in PoStatuses \ {"gone"} : SetPo(c, s)
       \/ \E s \in RetStatuses \ {"gone"}, q \in Quantities : SetReturn(c, s, q)
  \/ \E a \in alerts : Resolve(a)
  \/ DeletePo \/ DeleteReturn

Spec == Init /\ [][Next]_vars

-----------------------------------------------------------------------------
(* Every row and request has its type. *)
TypeOK ==
  /\ onhand \in Int
  /\ alerts \subseteq {"out_of_stock", "low_stock"} \X (1..MaxMoves)
  /\ po \in PoStatuses /\ ret \in RetStatuses
  /\ quantity \in [Lines -> Quantities] /\ received \in [Lines -> Int]
  /\ given \in [Lines \cup {Return} -> Int] /\ into \in [Lines \cup {Return} -> Int]
  /\ odd \subseteq Lines \cup {Return} /\ moves \in 0..MaxMoves /\ due \in BOOLEAN
  /\ \A c \in Clients : req[c].at \in {"rest", "moved", "looked", "po", "line", "ret"}

(* Low stock has an open alert once one request has reviewed the alerts     *)
(* after the last movement, unless another review or a hand interfered, or  *)
(* a receipt of a negative quantity has made the stock low since.           *)
LowIsAlerted == ~due /\ IsLow(onhand) => alerts # {}

(* A line has received what it was created with and has put on stock since, *)
(* and a return that is received was restocked once or created so, unless   *)
(* it is marked as received once more or two requests held it at once; and  *)
(* even then a line, if not negative, has received no more than that.       *)
StockMatchesReceipts ==
  /\ \A l \in Lines \ odd : received[l] = given[l] + into[l]
  /\ \A l \in Lines : given[l] >= 0 /\ quantity[l] >= 0 => received[l] <= given[l] + into[l]
  /\ Return \notin odd => /\ given[Return] + into[Return] <= 1
                          /\ (ret = "received" => given[Return] + into[Return] = 1)
=============================================================================
