--------------------------- MODULE InvoiceLedger ---------------------------
(***************************************************************************)
(* The money path of the API: the handlers of InvoicesService and of the   *)
(* Stripe webhook, the follow-up scan, the Invoice, Payment and            *)
(* WebhookEvent tables they share, and the Stripe side of a PaymentIntent. *)
(*                                                                         *)
(* Every Prisma call is an await of its own, so a handler is a short       *)
(* program: it reads a row, decides, and writes later from what it read.   *)
(* req[h] is the handler in flight in slot h: its pc names the write it    *)
(* is about to make, snap the row it read.  With one slot the handlers run *)
(* one after the other; with two or more they interleave at their awaits.  *)
(*                                                                         *)
(* Amounts are integers (cents).  All the invoices belong to one job, whose*)
(* totalRevenue is kept as the function of its addends.                    *)
(***************************************************************************)
EXTENDS Integers, FiniteSets

CONSTANTS
  Invoices,     (* ids an Invoice row may get                              *)
  Intents,      (* ids Stripe may give a PaymentIntent                     *)
  NoIntent,     (* stripePaymentIntentId is null                           *)
  Handlers,     (* slots for handlers in flight                            *)
  Ops,          (* the operations clients and timers use in this instance  *)
  Totals,       (* totals the line items of an invoice can add up to       *)
  Amounts,      (* amounts of a manual payment                             *)
  MaxLedger,    (* bound: manual payments stop at this sum                 *)
  MaxAborts     (* bound: handlers that die between two awaits             *)

ASSUME LedgerAssumption ==
  /\ Invoices # {} /\ Handlers # {}
  /\ NoIntent \notin Intents
  /\ Totals \subseteq Int
  /\ Amounts \subseteq Nat \ {0}
  /\ MaxLedger \in Nat
  /\ MaxAborts \in Nat

VARIABLES
  invoice,   (* Invoice rows                                               *)
  ledger,    (* per invoice: sum of its Payment rows                       *)
  credited,  (* per intent: Payment rows the webhook inserted for it       *)
  intents,   (* Stripe's PaymentIntents                                    *)
  recorded,  (* WebhookEvent rows, by the intent whose success they report *)
  revenue,   (* addends of Job.totalRevenue, by invoice                    *)
  req,       (* handlers in flight                                         *)
  aborts     (* handlers that died so far                                  *)

vars == <<invoice, ledger, credited, intents, recorded, revenue, req, aborts>>

InvoiceStatus == {"DRAFT", "SENT", "VIEWED", "PARTIAL", "PAID", "OVERDUE", "VOID"}
NoRowStatus   == {"ABSENT", "DELETED"}
Locked        == {"PAID", "VOID"}
FollowUp      == {"SENT", "VIEWED", "PARTIAL", "OVERDUE"}

Row == [status: InvoiceStatus \cup NoRowStatus, total: Int, paid: Nat, due: Int,
        intent: Intents \cup {NoIntent}, sent: BOOLEAN, followUp: 0..3]

IntentStatus == {"unused", "created", "open", "succeeded", "canceled"}

Pcs == {"idle", "recordPayment", "lookup", "credit", "record", "createIntent",
        "linkIntent", "update", "remove", "send", "scan", "sync", "syncWrite"}

Flight == [pc: Pcs, inv: Invoices, amt: Int, overdue: BOOLEAN,
           pi: Intents \cup {NoIntent}, snap: Row, rev: [Invoices -> Int]]

NoRow == [status |-> "ABSENT", total |-> 0, paid |-> 0, due |-> 0,
          intent |-> NoIntent, sent |-> FALSE, followUp |-> 0]

NoRevenue == [i \in Invoices |-> 0]

AnyInvoice == CHOOSE i \in Invoices : TRUE

Idle == [pc |-> "idle", inv |-> AnyInvoice, amt |-> 0,
         overdue |-> FALSE, pi |-> NoIntent, snap |-> NoRow, rev |-> NoRevenue]

Present(i) == invoice[i].status \notin NoRowStatus

(* A handler refuses a row it finds locked (update, send, recordPayment,   *)
(* createPaymentIntent) or does not find.                                  *)
Unlocked(i) == Present(i) /\ invoice[i].status \notin Locked

(* max(0, total - paid) *)
Due(total, paid) == IF paid < total THEN total - paid ELSE 0

StatusAfterPayment(total, paid) == IF Due(total, paid) <= 0 THEN "PAID" ELSE "PARTIAL"

(* Mutant: the balance is replaced by the payment instead of raised by it. *)
WithPayment_Replaces(row, snap, amt) ==
  [row EXCEPT !.paid = amt, !.due = Due(snap.total, amt),
              !.status = StatusAfterPayment(snap.total, amt)]

(* A row with a payment applied to the values the handler read. *)
WithPayment(row, snap, amt) ==
  LET newPaid == snap.paid + amt
  IN  [row EXCEPT !.paid = newPaid, !.due = Due(snap.total, newPaid),
                  !.status = StatusAfterPayment(snap.total, newPaid)]

(* Mutant: the new amountDue forgets what was paid already. *)
Edited_IgnoresPaid(row, snap, t) == [row EXCEPT !.total = t, !.due = t]

(* A row with new line items, its balance taken from the values read. *)
Edited(row, snap, t) == [row EXCEPT !.total = t, !.due = Due(t, snap.paid)]

-----------------------------------------------------------------------------
(* Handler slots. *)

tables == <<invoice, ledger, credited, intents, recorded, revenue, aborts>>

Starts(h, op) == op \in Ops /\ req[h].pc = "idle"

(* A handler at pc that has read invoice i. *)
Holding(pc, i) == [Idle EXCEPT !.pc = pc, !.inv = i, !.snap = invoice[i]]

(* A handler about to sync the job. *)
Syncing == [Idle EXCEPT !.pc = "sync"]

Becomes(h, r) == req' = [req EXCEPT ![h] = r]

(* A step that writes no table. *)
Moves(h, r) == Becomes(h, r) /\ UNCHANGED tables

(* The handler at pc writes the row it read, if that still exists. *)
WritesRow(h, pc, row) ==
  /\ req[h].pc = pc /\ Present(req[h].inv)
  /\ invoice' = [invoice EXCEPT ![req[h].inv] = row]

Init ==
  /\ invoice  = [i \in Invoices |-> NoRow]
  /\ ledger   = [i \in Invoices |-> 0]
  /\ credited = [p \in Intents |-> 0]
  /\ intents  = [p \in Intents |-> [status |-> "unused", amount |-> 0, inv |-> AnyInvoice]]
  /\ recorded = {}
  /\ revenue  = NoRevenue
  /\ req      = [h \in Handlers |-> Idle]
  /\ aborts   = 0

-----------------------------------------------------------------------------
(* create: the insert is one statement; the job is synced afterwards. *)
Create(h, i, t) ==
  /\ Starts(h, "create")
  /\ invoice[i].status = "ABSENT"
  /\ invoice' = [invoice EXCEPT ![i] = [NoRow EXCEPT !.status = "DRAFT", !.total = t, !.due = t]]
  /\ Becomes(h, Syncing)
  /\ UNCHANGED <<ledger, credited, intents, recorded, revenue, aborts>>

(* update: lock check on the row read, then the write from that row. *)
UpdateRead(h, i, t) ==
  /\ Starts(h, "update") /\ Unlocked(i)
  /\ Moves(h, [Holding("update", i) EXCEPT !.amt = t])

UpdateWrite(h) ==
  /\ WritesRow(h, "update", Edited(invoice[req[h].inv], req[h].snap, req[h].amt))
  /\ Becomes(h, Syncing)
  /\ UNCHANGED <<ledger, credited, intents, recorded, revenue, aborts>>

(* remove: refused when the row read has money on it; the Payment rows go  *)
(* with the invoice (onDelete: Cascade).                                   *)
RemoveRead(h, i) ==
  /\ Starts(h, "remove") /\ Present(i) /\ invoice[i].paid <= 0
  /\ Moves(h, Holding("remove", i))

(* Mutant: the job is not synced after a delete. *)
RemoveWrite_NoSync(h) ==
  /\ WritesRow(h, "remove", [NoRow EXCEPT !.status = "DELETED"])
  /\ ledger' = [ledger EXCEPT ![req[h].inv] = 0]
  /\ Becomes(h, Idle)
  /\ UNCHANGED <<credited, intents, recorded, revenue, aborts>>

RemoveWrite(h) ==
  /\ WritesRow(h, "remove", [NoRow EXCEPT !.status = "DELETED"])
  /\ ledger' = [ledger EXCEPT ![req[h].inv] = 0]
  /\ Becomes(h, Syncing)
  /\ UNCHANGED <<credited, intents, recorded, revenue, aborts>>

(* syncJobFinancials, the tail of create, update and remove. *)
SyncRead(h) ==
  /\ req[h].pc = "sync"
  /\ Moves(h, [Idle EXCEPT !.pc  = "syncWrite",
                           !.rev = [i \in Invoices |->
                              IF Present(i) /\ invoice[i].status # "VOID"
                                THEN invoice[i].total ELSE 0]])

SyncWrite(h) ==
  /\ req[h].pc = "syncWrite"
  /\ revenue' = req[h].rev
  /\ Becomes(h, Idle)
  /\ UNCHANGED <<invoice, ledger, credited, intents, recorded, aborts>>

(* send: a draft becomes SENT, any other status is written back as read. *)
SendRead(h, i) ==
  /\ Starts(h, "send") /\ Unlocked(i)
  /\ Moves(h, Holding("send", i))

StatusSent(snap) == IF snap.status = "DRAFT" THEN "SENT" ELSE snap.status

SendWrite(h) ==
  /\ WritesRow(h, "send", [invoice[req[h].inv] EXCEPT !.status = StatusSent(req[h].snap),
                                                      !.sent   = TRUE])
  /\ Becomes(h, Idle)
  /\ UNCHANGED <<ledger, credited, intents, recorded, revenue, aborts>>

-----------------------------------------------------------------------------
(* recordPayment: a manual payment, inserted with the new balance in one   *)
(* transaction; the balance comes from the row read before it.             *)
RecordPaymentRead(h, i, a) ==
  /\ Starts(h, "recordPayment") /\ Unlocked(i)
  /\ ledger[i] + a <= MaxLedger
  /\ Moves(h, [Holding("recordPayment", i) EXCEPT !.amt = a])

(* Mutant: no transaction, the insert of the payment may be lost. *)
PaymentInserted_MayFail(i, amt) ==
  \E written \in {0, amt} : ledger' = [ledger EXCEPT ![i] = @ + written]

PaymentInserted(i, amt) == ledger' = [ledger EXCEPT ![i] = @ + amt]

RecordPaymentCommit(h) ==
  LET r == req[h] IN
  /\ WritesRow(h, "recordPayment", WithPayment(invoice[r.inv], r.snap, r.amt))
  /\ PaymentInserted(r.inv, r.amt)
  /\ Becomes(h, Idle)
  /\ UNCHANGED <<credited, intents, recorded, revenue, aborts>>

-----------------------------------------------------------------------------
(* createPaymentIntent: reuse the linked intent while Stripe still has it  *)
(* open, otherwise create one for the balance read and link it.            *)
CreateIntentRead(h, i) ==
  /\ Starts(h, "createPaymentIntent") /\ Unlocked(i)
  /\ Moves(h, Holding("createIntent", i))

LinkedIntentUsable(row) ==
  /\ row.intent # NoIntent
  /\ intents[row.intent].status \notin {"succeeded", "canceled"}

CreateIntentReuse(h) ==
  /\ req[h].pc = "createIntent" /\ LinkedIntentUsable(req[h].snap)
  /\ Moves(h, Idle)

(* Stripe refuses an amount that is not positive: the handler fails.  It   *)
(* fails too when the instance has no intent left (a bound).               *)
CreateIntentRefused(h) ==
  /\ req[h].pc = "createIntent" /\ ~LinkedIntentUsable(req[h].snap)
  /\ req[h].snap.due <= 0 \/ \A p \in Intents : intents[p].status # "unused"
  /\ Moves(h, Idle)

NewAtStripe(p) == intents[p].status = "unused"

CreateIntentAtStripe(h, p) ==
  LET r == req[h] IN
  /\ r.pc = "createIntent" /\ ~LinkedIntentUsable(r.snap)
  /\ r.snap.due > 0 /\ NewAtStripe(p)
  /\ intents' = [intents EXCEPT ![p] = [status |-> "created", amount |-> r.snap.due, inv |-> r.inv]]
  /\ Becomes(h, [r EXCEPT !.pc = "linkIntent", !.pi = p])
  /\ UNCHANGED <<invoice, ledger, credited, recorded, revenue, aborts>>

(* The link is written and the client secret goes out with the response. *)
LinkIntent(h) ==
  LET p == req[h].pi IN
  /\ WritesRow(h, "linkIntent", [invoice[req[h].inv] EXCEPT !.intent = p])
  /\ intents' = [intents EXCEPT ![p].status = IF @ = "created" THEN "open" ELSE @]
  /\ Becomes(h, Idle)
  /\ UNCHANGED <<ledger, credited, recorded, revenue, aborts>>

(* Stripe: the customer pays with the client secret, or the intent is      *)
(* canceled from the Stripe dashboard.                                     *)
IntentBecomes(p, st) ==
  /\ intents' = [intents EXCEPT ![p].status = st]
  /\ UNCHANGED <<invoice, ledger, credited, recorded, revenue, req, aborts>>

CustomerPays(p) ==
  /\ "customerPays" \in Ops /\ intents[p].status = "open"
  /\ IntentBecomes(p, "succeeded")

StripeCancels(p) ==
  /\ "stripeCancels" \in Ops /\ intents[p].status \in {"created", "open"}
  /\ IntentBecomes(p, "canceled")

-----------------------------------------------------------------------------
(* handleEvent for payment_intent.succeeded.  Stripe delivers the event at *)
(* least once, again after any failure, and possibly while an earlier      *)
(* delivery is still being handled.                                        *)

(* Mutant: an event already recorded is handled again. *)
Deliverable_NoDedupe(p) == intents[p].status = "succeeded"

(* Mutant: the event of a payment still in progress is taken for its success. *)
Deliverable_OnProcessing(p) == intents[p].status \in {"open", "succeeded"} /\ p \notin recorded

Deliverable(p) == intents[p].status = "succeeded" /\ p \notin recorded

(* Mutant: the event is recorded before it is handled. *)
WebhookDeliver_RecordsFirst(h, p) ==
  /\ Starts(h, "webhook") /\ Deliverable(p)
  /\ recorded' = recorded \cup {p}
  /\ Becomes(h, [Idle EXCEPT !.pc = "lookup", !.pi = p])
  /\ UNCHANGED <<invoice, ledger, credited, intents, revenue, aborts>>

WebhookDeliver(h, p) ==
  /\ Starts(h, "webhook") /\ Deliverable(p)
  /\ Moves(h, [Idle EXCEPT !.pc = "lookup", !.pi = p])

(* Mutant: an invoice that is paid already is credited again. *)
PayableBy_AlreadyPaid(p) == {i \in Invoices : Present(i) /\ invoice[i].intent = p}

PayableBy(p) == {i \in Invoices : Present(i) /\ invoice[i].intent = p /\ invoice[i].status # "PAID"}

WebhookLookup(h) ==
  LET p == req[h].pi IN
  /\ req[h].pc = "lookup"
  /\ \/ \E i \in PayableBy(p) : Moves(h, [Holding("credit", i) EXCEPT !.pi = p])
     \/ PayableBy(p) = {} /\ Moves(h, [req[h] EXCEPT !.pc = "record"])

WebhookCredit(h) ==
  LET r == req[h]
      received == intents[r.pi].amount IN
  /\ WritesRow(h, "credit", WithPayment(invoice[r.inv], r.snap, received))
  /\ PaymentInserted(r.inv, received)
  /\ credited' = [credited EXCEPT ![r.pi] = @ + 1]
  /\ Becomes(h, [Idle EXCEPT !.pc = "record", !.pi = r.pi])
  /\ UNCHANGED <<intents, recorded, revenue, aborts>>

(* A second record of the same event fails on the unique key: no effect. *)
WebhookRecord(h) ==
  /\ req[h].pc = "record"
  /\ recorded' = recorded \cup {req[h].pi}
  /\ Becomes(h, Idle)
  /\ UNCHANGED <<invoice, ledger, credited, intents, revenue, aborts>>

-----------------------------------------------------------------------------
(* The follow-up scan reads its batch, then writes invoice by invoice; a   *)
(* slot stands for one invoice of the batch.  days is the whole number of  *)
(* days since sentAt, pastDue whether dueDate has passed.                  *)

(* Mutant: no check that the reminder was not sent yet. *)
NextReminder_Unguarded(row, days) == IF days >= 3 THEN row.followUp + 1 ELSE 0

NextReminder(row, days) ==
  IF row.followUp = 0 /\ days >= 3 THEN 1
  ELSE IF row.followUp = 1 /\ days >= 7 THEN 2
  ELSE IF row.followUp = 2 /\ days >= 14 THEN 3 ELSE 0

(* Mutant: the scan takes every invoice that was sent, the paid ones too. *)
Scanned_AnyStatus(i) == Present(i) /\ invoice[i].sent

Scanned(i) == invoice[i].status \in FollowUp /\ invoice[i].sent

ScanRead(h, i, days, pastDue) ==
  LET reminder == NextReminder(invoice[i], days)
      overdue  == pastDue /\ invoice[i].status # "OVERDUE" IN
  /\ Starts(h, "followUp") /\ Scanned(i)
  /\ reminder > 0 \/ overdue
  /\ Moves(h, [Holding("scan", i) EXCEPT !.amt = reminder, !.overdue = overdue])

ScanWrite(h) ==
  LET r == req[h] IN
  /\ WritesRow(h, "scan", [invoice[r.inv] EXCEPT
                             !.status   = IF r.overdue THEN "OVERDUE" ELSE @,
                             !.followUp = IF r.amt > 0 THEN r.amt ELSE @])
  /\ Becomes(h, Idle)
  /\ UNCHANGED <<ledger, credited, intents, recorded, revenue, aborts>>

-----------------------------------------------------------------------------
(* A write to a row deleted meanwhile throws and ends the handler; its     *)
(* transaction, if any, is rolled back.                                    *)
RowGone(h) ==
  /\ req[h].pc \in {"update", "remove", "send", "recordPayment", "linkIntent", "credit", "scan"}
  /\ ~Present(req[h].inv)
  /\ Moves(h, Idle)

(* A handler dies between two awaits: the process stops, or the database  *)
(* or Stripe does not answer.                                              *)
Abort(h) ==
  /\ aborts < MaxAborts
  /\ req[h].pc # "idle"
  /\ aborts' = aborts + 1
  /\ Becomes(h, Idle)
  /\ UNCHANGED <<invoice, ledger, credited, intents, recorded, revenue>>

WebhookStep(h) == WebhookLookup(h) \/ WebhookCredit(h) \/ WebhookRecord(h)

(* The next await of a handler that has started. *)
Resume(h) ==
  \/ UpdateWrite(h) \/ RemoveWrite(h) \/ SyncRead(h) \/ SyncWrite(h) \/ SendWrite(h)
  \/ RecordPaymentCommit(h)
  \/ CreateIntentReuse(h) \/ CreateIntentRefused(h) \/ LinkIntent(h)
  \/ \E p \in Intents : CreateIntentAtStripe(h, p)
  \/ WebhookStep(h) \/ ScanWrite(h) \/ RowGone(h)

Request(h, i) ==
  \/ \E t \in Totals : Create(h, i, t) \/ UpdateRead(h, i, t)
  \/ RemoveRead(h, i) \/ SendRead(h, i) \/ CreateIntentRead(h, i)
  \/ \E a \in Amounts : RecordPaymentRead(h, i, a)
  \/ \E days \in {0, 3, 7, 14}, pastDue \in BOOLEAN : ScanRead(h, i, days, pastDue)

Stripe ==
  \/ \E p \in Intents : CustomerPays(p) \/ StripeCancels(p)
  \/ \E h \in Handlers, p \in Intents : WebhookDeliver(h, p)

Next ==
  \/ \E h \in Handlers : Resume(h) \/ Abort(h)
  \/ \E h \in Handlers, i \in Invoices : Request(h, i)
  \/ Stripe

Spec == Init /\ [][Next]_vars

(* Node runs every handler it has started to its end; Stripe retries an    *)
(* event until it is answered, so a delivery that keeps being possible     *)
(* happens.  Clients and customers are under no obligation.                *)
Fairness ==
  /\ \A h \in Handlers : WF_vars(Resume(h))
  /\ \A p \in Intents : SF_vars(\E h \in Handlers : WebhookDeliver(h, p))

FairSpec == Spec /\ Fairness

-----------------------------------------------------------------------------
(* The variables hold rows, amounts and handlers of the shapes above. *)
TypeOK ==
  /\ invoice  \in [Invoices -> Row]
  /\ ledger   \in [Invoices -> Nat]
  /\ credited \in [Intents -> Nat]
  /\ intents  \in [Intents -> [status: IntentStatus, amount: Nat, inv: Invoices]]
  /\ recorded \subseteq Intents
  /\ revenue  \in [Invoices -> Int]
  /\ req      \in [Handlers -> Flight]
  /\ aborts   \in 0..MaxAborts

(* However handlers interleave or die, an invoice never shows more money   *)
(* paid than its Payment rows add up to: the row and the balance are       *)
(* written in one transaction (recordPayment, onPaymentIntentSucceeded).   *)
PaidWithinLedger == \A i \in Invoices : Present(i) => invoice[i].paid <= ledger[i]

(* A STRIPE payment row exists only for an intent a customer has paid,     *)
(* whatever handlers are in flight (the promise of recordPayment's S6).    *)
CreditNeedsCharge == \A p \in Intents : credited[p] > 0 => intents[p].status = "succeeded"

(* What a handler carries to its write: an amount that was checked, a row  *)
(* that existed, a balance the Payment rows of that row still cover.       *)
ArgumentsOK ==
  \A h \in Handlers :
    /\ req[h].pc = "recordPayment" => req[h].amt \in Nat
    /\ req[h].pc = "scan" => req[h].amt \in 0..3
    /\ req[h].pc = "send" => req[h].snap.status \in InvoiceStatus

SnapshotsWithinLedger ==
  \A h \in Handlers :
    req[h].pc \in {"recordPayment", "credit"} =>
      /\ invoice[req[h].inv].status # "ABSENT"
      /\ Present(req[h].inv) => req[h].snap.paid <= ledger[req[h].inv]

(* A delivery in flight reports an intent the customer has paid. *)
DeliveriesPaid ==
  \A h \in Handlers :
    /\ req[h].pc \in {"lookup", "credit", "record"} =>
         req[h].pi \in Intents /\ intents[req[h].pi].status = "succeeded"
    /\ req[h].pc = "linkIntent" => req[h].pi \in Intents

(* The inductive invariant of the interleaved handlers: the two promises   *)
(* above and what the handlers in flight must satisfy to keep them.        *)
ConcurrentInv ==
  TypeOK /\ ArgumentsOK /\ PaidWithinLedger /\ SnapshotsWithinLedger
    /\ CreditNeedsCharge /\ DeliveriesPaid

(* When handlers do not overlap, the balance of an invoice is exactly what *)
(* its Payment rows add up to, even if handlers die.                       *)
LedgerExact == \A i \in Invoices : Present(i) => invoice[i].paid = ledger[i]

(* When handlers do not overlap, amountDue is what remains of the total    *)
(* after edits, payments and webhook credits in any order.                 *)
DueExact ==
  \A i \in Invoices : Present(i) => invoice[i].due = Due(invoice[i].total, invoice[i].paid)

(* When handlers do not overlap, a paid invoice stays paid and keeps its   *)
(* total: no edit, send, scan, payment or late webhook moves it.           *)
PaidStays ==
  \A i \in Invoices : invoice[i].status = "PAID" =>
    invoice'[i].status = "PAID" /\ invoice'[i].total = invoice[i].total

PaidIsFinal == [][PaidStays]_vars

(* When handlers do not overlap, only a delivery that died after its       *)
(* commit lets the same charge be credited again: once per death.          *)
CreditsBoundedByAborts == \A p \in Intents : credited[p] <= 1 + aborts

(* When handlers do not overlap and none dies, Job.totalRevenue is the sum *)
(* of the totals of the job's invoices whenever no handler is in flight.   *)
RevenueInSync ==
  (aborts = 0 /\ \A h \in Handlers : req[h].pc = "idle") =>
    revenue = [i \in Invoices |-> IF Present(i) THEN invoice[i].total ELSE 0]

(* A charge the customer made is credited, or its invoice no longer waits  *)
(* for it: a delivery that dies is retried until one gets through.         *)
ChargeSettled ==
  \A p \in Intents :
    intents[p].status = "succeeded" ~> credited[p] > 0 \/ PayableBy(p) = {}

(* An invoice as who pays it sees it, led being the sum of its Payment rows, *)
(* and an intent as the charge it asks for.                                *)
BillState(status) ==
  CASE status = "ABSENT"  -> "none"
    [] status = "DELETED" -> "gone"
    [] status = "PAID"    -> "closed"
    [] OTHER              -> "open"

Bill(row, led) ==
  [state |-> BillState(row.status), total |-> row.total, paid |-> led, owed |-> row.due]

Charge(x) ==
  [of |-> IF x.status = "unused" THEN {} ELSE {x.inv}, amount |-> x.amount,
   made |-> x.status = "succeeded"]

bills   == [i \in Invoices |-> Bill(invoice[i], ledger[i])]
charges == [p \in Intents |-> Charge(intents[p])]

R == INSTANCE Receivables WITH bill <- bills, charge <- charges

(* When handlers do not overlap, the tables are a book of receivables.     *)
ImplementsReceivables == R!Spec

(* Claim of handleEvent's comment: a charge is not credited twice because  *)
(* Stripe delivers its event again.                                        *)
CreditedOnce == \A p \in Intents : credited[p] <= 1

(* Claim of the pay page ("This invoice has been paid"): a charge whose    *)
(* event was handled is credited to its invoice, unless that was already   *)
(* paid or is gone.                                                        *)
ChargeNeverDropped ==
  \A p \in recorded :
    credited[p] > 0 \/ invoice[intents[p].inv].status \in {"PAID", "DELETED"}
=============================================================================
