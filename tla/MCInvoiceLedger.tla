-------------------------- MODULE MCInvoiceLedger --------------------------
(* InvoiceLedger for TLC.  A behaviour explores one of two scenarios,      *)
(* chosen at the start: they are bounds, no step differs.                  *)
EXTENDS InvoiceLedger

AllOps == {"create", "update", "remove", "send", "recordPayment", "createPaymentIntent",
           "customerPays", "stripeCancels", "webhook", "followUp"}

VARIABLE scenario

MCInit == Init /\ scenario \in {"serial", "overlapping"}

(* One of the handlers and of the intents the overlapping scenario uses. *)
FirstHandler == CHOOSE h \in Handlers : TRUE
FirstIntent  == CHOOSE p \in Intents : TRUE

(* Handlers one after the other. *)
Serial == \A h \in Handlers \ {FirstHandler} : req'[h].pc = "idle"

(* Overlapping handlers that pay, edit and remove: small payments, one     *)
(* intent, no reminders.                                                   *)
Overlapping ==
  /\ \A i \in Invoices : ledger'[i] <= 2
  /\ \A h \in Handlers : req'[h].pc \notin {"send", "scan"}
  /\ \A h \in Handlers : req'[h].pc = "recordPayment" => req'[h].amt = 1
  /\ \A i \in Invoices : ~invoice'[i].sent
  /\ \A p \in Intents : intents'[p].status # "unused" => p = FirstIntent
  /\ \A p \in Intents : intents'[p].status # "canceled"

MCNext ==
  /\ UNCHANGED scenario /\ Next
  /\ IF scenario = "serial" THEN Serial ELSE Overlapping

MCSpec == MCInit /\ [][MCNext]_<<vars, scenario>> /\ Fairness

-----------------------------------------------------------------------------
(* The balance of an invoice is exactly what its Payment rows add up to    *)
(* (recordPayment, onPaymentIntentSucceeded), even if handlers die, when   *)
(* handlers do not overlap.                                                *)
SerialLedgerExact == scenario = "serial" => LedgerExact

(* amountDue is what remains of the total after edits, payments and        *)
(* webhook credits in any order, when handlers do not overlap.             *)
SerialDueExact == scenario = "serial" => DueExact

(* Only a delivery that died after its commit lets the same charge be      *)
(* credited again (handleEvent), when handlers do not overlap.             *)
SerialCreditsBounded == scenario = "serial" => CreditsBoundedByAborts

(* Without deaths the job's revenue is the sum of its invoices whenever no *)
(* handler is in flight (syncJobFinancials), when handlers do not overlap. *)
SerialRevenueInSync == scenario = "serial" => RevenueInSync

(* A paid invoice stays paid and keeps its total whatever is asked of it   *)
(* (LOCKED_STATUSES), when handlers do not overlap.                        *)
SerialPaidIsFinal == [][scenario = "serial" => PaidStays]_vars

(* A charge the customer made is credited, or its invoice no longer waits  *)
(* for it, although deliveries die, when handlers do not overlap.          *)
SerialChargeSettled == scenario = "serial" => ChargeSettled

(* When handlers do not overlap, every step of the tables is a step of the *)
(* receivables: each payment is worth its rows and closes the invoice when *)
(* nothing is owed, a closed one never changes, a charge pays the invoice  *)
(* it was asked for, what it was asked for (InvoicesService, handleEvent). *)
SerialImplementsReceivables ==
  R!Init /\ [][scenario = "serial" => R!Next]_<<bills, charges>>
=============================================================================
