---------------------------- MODULE Receivables ----------------------------
(***************************************************************************)
(* What the money path promises of an invoice, seen from the one who pays: *)
(* it is opened for a total, may be repriced while it is open, takes       *)
(* payments until nothing is owed, and is then closed for good; it is      *)
(* dropped only as long as nothing was paid.  A charge asks for what is    *)
(* owed on one invoice, and pays that invoice and no other.                *)
(* InvoiceLedger implements it while its handlers do not overlap.          *)
(***************************************************************************)
EXTENDS Integers

CONSTANTS Invoices, Intents, Totals, Amounts

VARIABLES bill, charge

NoBill == [state |-> "none", total |-> 0, paid |-> 0, owed |-> 0]

(* of holds the invoice the charge was asked for, once it was. *)
NoCharge == [of |-> {}, amount |-> 0, made |-> FALSE]

Init ==
  /\ bill   = [i \in Invoices |-> NoBill]
  /\ charge = [p \in Intents |-> NoCharge]

Rest(total, paid) == IF paid < total THEN total - paid ELSE 0

IsOpen(i) == bill[i].state = "open"

Becomes(i, b) == bill' = [bill EXCEPT ![i] = b] /\ UNCHANGED charge

Open(i, t) ==
  /\ bill[i].state = "none"
  /\ Becomes(i, [state |-> "open", total |-> t, paid |-> 0, owed |-> t])

Reprice(i, t) ==
  /\ IsOpen(i)
  /\ Becomes(i, [state |-> "open", total |-> t, paid |-> bill[i].paid,
                 owed |-> Rest(t, bill[i].paid)])

Drop(i) ==
  IsOpen(i) /\ bill[i].paid = 0 /\ Becomes(i, [NoBill EXCEPT !.state = "gone"])

Pay(i, a) ==
  LET paid == bill[i].paid + a
      owed == Rest(bill[i].total, paid)
  IN  /\ IsOpen(i) /\ a > 0
      /\ Becomes(i, [state |-> IF owed = 0 THEN "closed" ELSE "open",
                     total |-> bill[i].total, paid |-> paid, owed |-> owed])

Ask(i, p) ==
  /\ IsOpen(i) /\ bill[i].owed > 0 /\ charge[p].of = {}
  /\ charge' = [charge EXCEPT ![p] = [of |-> {i}, amount |-> bill[i].owed, made |-> FALSE]]
  /\ UNCHANGED bill

Make(p) ==
  /\ charge[p].of # {} /\ ~charge[p].made
  /\ charge' = [charge EXCEPT ![p] = [of |-> charge[p].of, amount |-> charge[p].amount,
                                      made |-> TRUE]]
  /\ UNCHANGED bill

PayByCharge(i, p) == charge[p].made /\ charge[p].of = {i} /\ Pay(i, charge[p].amount)

Next ==
  \/ \E i \in Invoices, t \in Totals : Open(i, t) \/ Reprice(i, t)
  \/ \E i \in Invoices : Drop(i) \/ \E a \in Amounts : Pay(i, a)
  \/ \E i \in Invoices, p \in Intents : Ask(i, p) \/ PayByCharge(i, p)
  \/ \E p \in Intents : Make(p)

Spec == Init /\ [][Next]_<<bill, charge>>
=============================================================================
