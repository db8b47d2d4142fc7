------------------------------ MODULE Invoices ------------------------------
(***************************************************************************)
(* The invoices of one tenant and the deals they are made from:            *)
(* api/v1/endpoints/finance.py with services/finance.py, and the bridge    *)
(* from the CRM, services/crm_finance_bridge.py under                      *)
(* convert_deal_to_invoice of api/v1/endpoints/crm.py.                     *)
(*                                                                         *)
(* A request reads, decides and commits.  A column that is set to what it  *)
(* was loaded with is not written, and a DELETE of a line that is gone     *)
(* raises nothing.  Left out: the status and its events, customers, dates, *)
(* discounts, and every line of an invoice but one.                        *)
(***************************************************************************)
EXTENDS Integers, FiniteSetsExt

CONSTANTS
  Deals,        \* deals of the CRM
  Clients,      \* requests
  Amounts,      \* what the line of an invoice may come to
  Named,        \* numbers that a request may give, 0 for a text outside the series
  MaxInvoices,  \* bound: invoices created
  MaxEdits,     \* bound: invoices edited
  NoDeal

InvoicesAssumption ==
  /\ MaxInvoices \in Nat \ {0} /\ MaxEdits \in Nat
  /\ Amounts \subseteq Nat /\ Named \subseteq Nat /\ NoDeal \notin Deals

Ids == 1..MaxInvoices
Numbers == Named \cup 0..MaxInvoices + 1

VARIABLES
  made,    \* invoices created so far
  live,    \* those that still exist
  number,  \* invoice_number
  mark,    \* the deal that the marker in notes names
  lines,   \* invoice_lines, by the edit that wrote them and their amount
  total,   \* total
  req,     \* what a request has read
  edits,   \* auxiliary: edits so far
  origin,  \* auxiliary: the deal an invoice was made from
  twice,   \* auxiliary: deals with a cause to be invoiced twice
  odd      \* auxiliary: invoices that two edits have held at once

invoices == <<made, live, number, mark, lines, total>>
aux      == <<edits, origin, twice, odd>>
vars     == <<invoices, req, aux>>

Lines == (0..MaxEdits) \X Amounts
Rest  == [at |-> "rest", deal |-> NoDeal, n |-> 0, id |-> 0, lines |-> {}, total |-> 0]

Init ==
  /\ made = 0 /\ live = {}
  /\ number = [i \in Ids |-> 0] /\ mark = [i \in Ids |-> NoDeal]
  /\ lines = [i \in Ids |-> {}] /\ total = [i \in Ids |-> 0]
  /\ req = [c \in Clients |-> Rest]
  /\ edits = 0 /\ origin = [i \in Ids |-> NoDeal] /\ twice = {} /\ odd = {}

Close(c) == req' = [req EXCEPT ![c] = Rest]

(* next_invoice_number: one more than there are. *)
NextNumber == Cardinality({i \in live : number[i] > 0}) + 1

Free(n) == n = 0 \/ \A i \in live : number[i] # n

Converting(c) == IF req[c].at \in {"looked", "numbered"} THEN {req[c].deal} \ {NoDeal} ELSE {}

(* Deals that other requests are converting when the numbers in use change. *)
Disturbed(c) == UNION {Converting(s) : s \in Clients \ {c}}

(* The deal that c converts, if another request has looked before c's       *)
(* commit and is to count after it.                                         *)
Overtaken(c) ==
  {d \in Converting(c) : \E s \in Clients \ {c} : req[s].at = "looked" /\ req[s].deal = d}

-----------------------------------------------------------------------------
(* create_invoice and convert_deal_to_invoice                              *)

(* Mutant: the marker is not looked for. *)
NeverInvoiced(d) == TRUE

(* find_existing_invoice_for_deal finds nothing; else there is no more to do. *)
NotInvoiced(d) == \A i \in live : mark[i] # d

Look(c, d) ==
  /\ req[c] = Rest /\ NotInvoiced(d)
  /\ req' = [req EXCEPT ![c] = [Rest EXCEPT !.at = "looked", !.deal = d]]
  /\ UNCHANGED <<invoices, aux>>

(* The number; a conversion counts after it has looked. *)
Number(c) ==
  /\ req[c] = Rest \/ req[c].at = "looked"
  /\ req' = [req EXCEPT ![c].at = "numbered", ![c].n = NextNumber]
  /\ UNCHANGED <<invoices, aux>>

(* ... or the number that the request names. *)
Name(c, n) ==
  /\ req[c] = Rest
  /\ req' = [req EXCEPT ![c] = [Rest EXCEPT !.at = "numbered", !.n = n]]
  /\ UNCHANGED <<invoices, aux>>

(* The row with its line, unless its number is taken. *)
Insert(c, a) ==
  LET r == req[c]
      i == made + 1
  IN /\ r.at = "numbered" /\ Free(r.n) /\ made < MaxInvoices
     /\ made' = i /\ live' = live \cup {i}
     /\ number' = [number EXCEPT ![i] = r.n]
     /\ mark' = [mark EXCEPT ![i] = r.deal]
     /\ lines' = [lines EXCEPT ![i] = {<<0, a>>}]
     /\ total' = [total EXCEPT ![i] = a]
     /\ origin' = [origin EXCEPT ![i] = r.deal]
     /\ twice' = twice \cup (Disturbed(c) \ {r.deal}) \cup Overtaken(c)
     /\ Close(c)
     /\ UNCHANGED <<edits, odd>>

(* uq_invoices_tenant_number, or any other error. *)
Refused(c) ==
  /\ req[c] # Rest
  /\ Close(c)
  /\ UNCHANGED <<invoices, aux>>

-----------------------------------------------------------------------------
(* update_invoice, delete_invoice                                          *)

Load(c, i) ==
  /\ req[c] = Rest /\ i \in live
  /\ req' = [req EXCEPT ![c] = [Rest EXCEPT !.at = "loaded", !.id = i, !.deal = mark[i],
                               !.n = number[i], !.lines = lines[i], !.total = total[i]]]
  /\ odd' = odd \cup {j \in {i} : \E s \in Clients : req[s].id = i}
  /\ UNCHANGED <<invoices, edits, origin, twice>>

(* Mutant: the lines are not cleared. *)
AddLine(i, loaded, line) == lines[i] \cup {line}

(* The loaded lines go and the new one comes. *)
Rewritten(i, loaded, line) == (lines[i] \ loaded) \cup {line}

(* lines.clear(), the lines of the request, recompute_invoice.  The notes   *)
(* are the request's too, with a marker in them or not; the number only if  *)
(* it names one.                                                            *)
Update(c, a, keep, n) ==
  LET r == req[c]
      i == r.id
      m == IF keep THEN origin[i] ELSE NoDeal
  IN /\ r.at = "loaded" /\ i \in live /\ edits < MaxEdits
     /\ n \in {r.n, number[i]} \/ Free(n)
     /\ edits' = edits + 1
     /\ lines' = [lines EXCEPT ![i] = Rewritten(i, r.lines, <<edits + 1, a>>)]
     /\ total' = IF a = r.total THEN total ELSE [total EXCEPT ![i] = a]
     /\ mark' = IF m = r.deal THEN mark ELSE [mark EXCEPT ![i] = m]
     /\ number' = IF n = r.n THEN number ELSE [number EXCEPT ![i] = n]
     /\ twice' = twice \cup ({origin[i]} \ {NoDeal, mark'[i]})
                       \cup (IF number' = number THEN {} ELSE Disturbed(c))
     /\ Close(c)
     /\ UNCHANGED <<made, live, origin, odd>>

Delete(i) ==
  /\ i \in live /\ live' = live \ {i}
  /\ number' = [number EXCEPT ![i] = 0] /\ mark' = [mark EXCEPT ![i] = NoDeal]
  /\ lines' = [lines EXCEPT ![i] = {}] /\ total' = [total EXCEPT ![i] = 0]
  /\ origin' = [origin EXCEPT ![i] = NoDeal] /\ odd' = odd \ {i}
  /\ twice' = twice \cup UNION {Converting(s) : s \in Clients}
  /\ UNCHANGED <<made, req, edits>>

Next ==
  \/ \E c \in Clients :
       \/ \E d \in Deals : Look(c, d)
       \/ Number(c) \/ \E n \in Named : Name(c, n)
       \/ \E a \in Amounts : Insert(c, a)
       \/ Refused(c)
       \/ \E i \in Ids : Load(c, i)
       \/ \E a \in Amounts, keep \in BOOLEAN, n \in Named \cup {req[c].n} : Update(c, a, keep, n)
  \/ \E i \in Ids : Delete(i)

Spec == Init /\ [][Next]_vars

-----------------------------------------------------------------------------
(* Every row and request has its type. *)
TypeOK ==
  /\ made \in 0..MaxInvoices /\ live \subseteq 1..made
  /\ number \in [Ids -> Numbers]
  /\ mark \in [Ids -> Deals \cup {NoDeal}] /\ origin \in [Ids -> Deals \cup {NoDeal}]
  /\ lines \in [Ids -> SUBSET Lines] /\ total \in [Ids -> Nat]
  /\ req \in [Clients -> [at : {"rest", "looked", "numbered", "loaded"},
                          deal : Deals \cup {NoDeal}, n : Numbers, id : 0..MaxInvoices,
                          lines : SUBSET Lines, total : Nat]]
  /\ edits \in 0..MaxEdits /\ twice \subseteq Deals /\ odd \subseteq Ids

(* A deal has one invoice, when its conversions come one after the other or *)
(* both count before either commits: they count to the same number, and only *)
(* one can have it.  That is not so once one of two conversions has looked  *)
(* before the other's commit and counts after it, which two requests alone  *)
(* can do, once another request changes the numbers in use while a          *)
(* conversion is under way, or once an edit drops the marker (twice).       *)
InvoicedOnce ==
  \A d \in Deals \ twice : Cardinality({i \in live : origin[i] = d}) <= 1

(* The total of an invoice is that of its lines, unless two edits held it   *)
(* at once.                                                                 *)
TotalsMatch ==
  \A i \in live \ odd : total[i] = MapThenSumSet(LAMBDA l : l[2], lines[i])
=============================================================================
