------------------------------ MODULE Billing ------------------------------
(***************************************************************************)
(* What closing periods promises (services/period_close.py,                *)
(* services/invoice_sync.py), with no task, message, retry or crash in     *)
(* sight:                                                                  *)
(*                                                                         *)
(*   - a period is billed at most once, and its bill, its charge in the    *)
(*     ledger and its event appear together, with one amount;              *)
(*   - the payment provider registers a bill at most once, after it was    *)
(*     issued and with its amount;                                         *)
(*   - a bill is linked to what the provider registered for it, for good.  *)
(*                                                                         *)
(* PeriodClose implements this specification.                              *)
(***************************************************************************)
CONSTANT Periods

VARIABLES bill,        \* period -> the amounts it was billed: none or one
          charges,     \* period -> the amounts charged in the ledger
          events,      \* period -> the amounts announced
          registered,  \* period -> the provider's invoices: id and amount
          link         \* period -> the ids its bill is linked to: none or one

bvars == <<bill, charges, events, registered, link>>

Init ==
  /\ bill       = [p \in Periods |-> {}]
  /\ charges    = [p \in Periods |-> <<>>]
  /\ events     = [p \in Periods |-> <<>>]
  /\ registered = [p \in Periods |-> {}]
  /\ link       = [p \in Periods |-> {}]

(* The period is billed, for any amount. *)
Bill(p) ==
  /\ bill[p] = {}
  /\ \E amount \in bill'[p] :
       /\ bill'    = [bill EXCEPT ![p] = {amount}]
       /\ charges' = [charges EXCEPT ![p] = <<amount>>]
       /\ events'  = [events EXCEPT ![p] = <<amount>>]
  /\ UNCHANGED <<registered, link>>

(* The provider registers the bill under an id of its own. *)
Register(p) ==
  /\ registered[p] = {}
  /\ \E invoice \in registered'[p] :
       /\ invoice.amount \in bill[p]
       /\ registered' = [registered EXCEPT ![p] = {invoice}]
  /\ UNCHANGED <<bill, charges, events, link>>

(* The bill is linked to the provider's invoice. *)
Link(p) ==
  /\ link[p] = {}
  /\ \E invoice \in registered[p] : link' = [link EXCEPT ![p] = {invoice.id}]
  /\ UNCHANGED <<bill, charges, events, registered>>

Next == \E p \in Periods : Bill(p) \/ Register(p) \/ Link(p)

Spec == Init /\ [][Next]_bvars
=============================================================================
