------------------------ MODULE InvoiceLedgerProofs ------------------------
(***************************************************************************)
(* What holds of the books for every number of invoices, intents and       *)
(* handlers, in every interleaving of the handlers and wherever they die.  *)
(* Then, from "Handlers one after the other" on, what holds only while     *)
(* they do not overlap: the serial scenario of MCInvoiceLedger; last, that *)
(* the serial books implement Receivables, and what a charge is for in any *)
(* interleaving, which the refinement needs.                               *)
(***************************************************************************)
EXTENDS MCInvoiceLedger, TLAPS

LEMMA AnyInvoiceType == AnyInvoice \in Invoices
  BY LedgerAssumption DEF AnyInvoice

LEMMA NoRowType == NoRow \in Row
  BY DEF NoRow, Row, NoRowStatus

LEMMA IdleType == Idle \in Flight /\ Idle.pc = "idle"
  BY AnyInvoiceType, NoRowType DEF Idle, Flight, Pcs, NoRevenue

LEMMA HoldingType ==
  ASSUME TypeOK, NEW i \in Invoices, NEW pc \in Pcs
  PROVE  /\ Holding(pc, i) \in Flight
         /\ Holding(pc, i).pc = pc
         /\ Holding(pc, i).inv = i
         /\ Holding(pc, i).snap = invoice[i]
  BY IdleType DEF Holding, Flight, TypeOK, Idle

LEMMA WithPaymentType ==
  ASSUME NEW row \in Row, NEW snap \in Row, NEW amt \in Nat
  PROVE  /\ WithPayment(row, snap, amt) \in Row
         /\ WithPayment(row, snap, amt).paid = snap.paid + amt
         /\ WithPayment(row, snap, amt).status \in {"PAID", "PARTIAL"}
<1> DEFINE newPaid == snap.paid + amt
           due     == Due(snap.total, newPaid)
           status  == StatusAfterPayment(snap.total, newPaid)
<1>1. newPaid \in Nat /\ snap.total \in Int
  BY DEF Row
<1>2. due \in Int
  BY <1>1 DEF Due
<1>3. status \in {"PAID", "PARTIAL"}
  BY DEF StatusAfterPayment
<1>4. WithPayment(row, snap, amt) = [row EXCEPT !.paid = newPaid, !.due = due, !.status = status]
  BY DEF WithPayment
<1> HIDE DEF newPaid, due, status
<1>5. /\ WithPayment(row, snap, amt) \in Row
      /\ WithPayment(row, snap, amt).paid = newPaid
      /\ WithPayment(row, snap, amt).status = status
  BY <1>1, <1>2, <1>3, <1>4 DEF Row, InvoiceStatus
<1> QED
  BY <1>3, <1>5 DEF newPaid

-----------------------------------------------------------------------------
(* What a step of one handler must satisfy to keep the invariant. *)

(* The state the handler is left in, r, carries what its pc promises. *)
Carries(r) ==
  /\ r.pc = "recordPayment" => r.amt \in Nat
  /\ r.pc = "scan" => r.amt \in 0..3
  /\ r.pc = "send" => r.snap.status \in InvoiceStatus
  /\ r.pc \in {"recordPayment", "credit"} =>
       /\ invoice'[r.inv].status # "ABSENT"
       /\ invoice'[r.inv].status \notin NoRowStatus => r.snap.paid <= ledger'[r.inv]
  /\ r.pc \in {"lookup", "credit", "record"} =>
       r.pi \in Intents /\ intents'[r.pi].status = "succeeded"
  /\ r.pc = "linkIntent" => r.pi \in Intents

RowsStep ==
  /\ invoice' \in [Invoices -> Row]
  /\ ledger' \in [Invoices -> Nat]
  /\ \A i \in Invoices : Present(i)' => invoice'[i].paid <= ledger'[i]
  /\ \A i \in Invoices : invoice[i].status # "ABSENT" =>
       /\ invoice'[i].status # "ABSENT"
       /\ Present(i)' => Present(i) /\ ledger[i] <= ledger'[i]

StripeStep ==
  /\ intents' \in [Intents -> [status: IntentStatus, amount: Nat, inv: Invoices]]
  /\ credited' \in [Intents -> Nat]
  /\ recorded' \subseteq Intents
  /\ \A p \in Intents : intents[p].status = "succeeded" => intents'[p].status = "succeeded"
  /\ \A p \in Intents : credited'[p] > 0 => credited[p] > 0 \/ intents[p].status = "succeeded"

LEMMA RowsUnchanged ==
  ASSUME ConcurrentInv, UNCHANGED <<invoice, ledger>>
  PROVE  RowsStep
  BY DEF ConcurrentInv, TypeOK, RowsStep, PaidWithinLedger, Present

LEMMA StripeUnchanged ==
  ASSUME ConcurrentInv, UNCHANGED <<intents, credited, recorded>>
  PROVE  StripeStep
  BY DEF ConcurrentInv, TypeOK, StripeStep

LEMMA OthersKeep ==
  ASSUME ConcurrentInv, RowsStep, StripeStep, NEW k \in Handlers
  PROVE  Carries(req[k])
<1> DEFINE r == req[k]
<1>1. r \in Flight /\ r.inv \in Invoices /\ r.snap.paid \in Nat
  BY DEF ConcurrentInv, TypeOK, Flight, Row
<1>2. ledger[r.inv] \in Nat /\ ledger'[r.inv] \in Nat
  BY <1>1 DEF ConcurrentInv, TypeOK, RowsStep
<1>3. /\ r.pc = "recordPayment" => r.amt \in Nat
      /\ r.pc = "scan" => r.amt \in 0..3
      /\ r.pc = "send" => r.snap.status \in InvoiceStatus
  BY DEF ConcurrentInv, ArgumentsOK
<1>4. ASSUME r.pc \in {"recordPayment", "credit"}
      PROVE  /\ invoice'[r.inv].status # "ABSENT"
             /\ invoice'[r.inv].status \notin NoRowStatus => r.snap.paid <= ledger'[r.inv]
  <2>1. /\ invoice[r.inv].status # "ABSENT"
        /\ Present(r.inv) => r.snap.paid <= ledger[r.inv]
    BY <1>4 DEF ConcurrentInv, SnapshotsWithinLedger
  <2>2. /\ invoice'[r.inv].status # "ABSENT"
        /\ invoice'[r.inv].status \notin NoRowStatus =>
             Present(r.inv) /\ ledger[r.inv] <= ledger'[r.inv]
    BY <1>1, <2>1 DEF RowsStep, Present
  <2> QED
    BY <1>1, <1>2, <2>1, <2>2
<1>5. /\ r.pc \in {"lookup", "credit", "record"} =>
           r.pi \in Intents /\ intents'[r.pi].status = "succeeded"
      /\ r.pc = "linkIntent" => r.pi \in Intents
  BY DEF ConcurrentInv, DeliveriesPaid, StripeStep
<1> QED
  BY <1>3, <1>4, <1>5 DEF Carries

LEMMA HandlerStep ==
  ASSUME ConcurrentInv, RowsStep, StripeStep,
         revenue' \in [Invoices -> Int], aborts' \in 0..MaxAborts,
         req' \in [Handlers -> Flight],
         \A k \in Handlers : Carries(req'[k])
  PROVE  ConcurrentInv'
<1>1. TypeOK'
  BY DEF TypeOK, RowsStep, StripeStep
<1>2. ArgumentsOK' /\ SnapshotsWithinLedger' /\ DeliveriesPaid'
  BY DEF Carries, ArgumentsOK, SnapshotsWithinLedger, DeliveriesPaid, Present
<1>3. PaidWithinLedger'
  BY DEF RowsStep, PaidWithinLedger
<1>4. CreditNeedsCharge'
  BY DEF StripeStep, ConcurrentInv, CreditNeedsCharge
<1> QED
  BY <1>1, <1>2, <1>3, <1>4 DEF ConcurrentInv

LEMMA SlotStep ==
  ASSUME ConcurrentInv, RowsStep, StripeStep,
         revenue' \in [Invoices -> Int], aborts' \in 0..MaxAborts,
         NEW h \in Handlers, NEW r \in Flight, Becomes(h, r), Carries(r)
  PROVE  ConcurrentInv'
<1>1. req' \in [Handlers -> Flight] /\ \A k \in Handlers : req'[k] = IF k = h THEN r ELSE req[k]
  BY DEF ConcurrentInv, TypeOK, Becomes
<1>2. \A k \in Handlers : Carries(req'[k])
  BY <1>1, OthersKeep
<1> QED
  BY <1>1, <1>2, HandlerStep

LEMMA IdleCarries == Carries(Idle)
  BY IdleType DEF Carries

(* A step that only moves the handler on. *)
LEMMA ReadStep ==
  ASSUME ConcurrentInv, NEW h \in Handlers, NEW r \in Flight, Moves(h, r), Carries(r)
  PROVE  ConcurrentInv'
<1>1. revenue' \in [Invoices -> Int] /\ aborts' \in 0..MaxAborts
  BY DEF ConcurrentInv, TypeOK, Moves, tables
<1>2. RowsStep /\ StripeStep /\ Becomes(h, r)
  BY RowsUnchanged, StripeUnchanged DEF Moves, tables
<1> QED
  BY <1>1, <1>2, SlotStep

(* A write of row i that leaves its balance and its Payment rows alone. *)
LEMMA RowWriteStep ==
  ASSUME ConcurrentInv, NEW i \in Invoices, NEW row \in Row,
         Present(i), row.status \in InvoiceStatus, row.paid = invoice[i].paid,
         invoice' = [invoice EXCEPT ![i] = row], UNCHANGED ledger
  PROVE  RowsStep
<1>1. invoice' \in [Invoices -> Row]
  BY DEF ConcurrentInv, TypeOK
<1>2. \A j \in Invoices : invoice'[j] = IF j = i THEN row ELSE invoice[j]
  BY DEF ConcurrentInv, TypeOK
<1>3. ledger \in [Invoices -> Nat]
  BY DEF ConcurrentInv, TypeOK
<1>4. "ABSENT" \notin InvoiceStatus
  BY DEF InvoiceStatus
<1> QED
  BY <1>1, <1>2, <1>3, <1>4 DEF RowsStep, ConcurrentInv, PaidWithinLedger, Present

(* A payment of amt on row i, from a row snap that was read before. *)
LEMMA PaymentStep ==
  ASSUME ConcurrentInv, NEW i \in Invoices, NEW snap \in Row, NEW amt \in Nat,
         Present(i), snap.paid <= ledger[i],
         ledger'  = [ledger EXCEPT ![i] = @ + amt],
         invoice' = [invoice EXCEPT ![i] = WithPayment(@, snap, amt)]
  PROVE  RowsStep
<1> DEFINE row == WithPayment(invoice[i], snap, amt)
<1>1. invoice[i] \in Row /\ ledger[i] \in Nat /\ snap.paid \in Nat
  BY DEF ConcurrentInv, TypeOK, Row
<1>2. row \in Row /\ row.paid = snap.paid + amt /\ row.status \in {"PAID", "PARTIAL"}
  BY <1>1, WithPaymentType
<1> HIDE DEF row
<1>3. /\ invoice' \in [Invoices -> Row]
      /\ \A j \in Invoices : invoice'[j] = IF j = i THEN row ELSE invoice[j]
  BY <1>2 DEF ConcurrentInv, TypeOK, row
<1>4. /\ ledger' \in [Invoices -> Nat]
      /\ \A j \in Invoices : ledger'[j] = IF j = i THEN ledger[j] + amt ELSE ledger[j]
  BY <1>1 DEF ConcurrentInv, TypeOK
<1>5. \A j \in Invoices : Present(j)' => invoice'[j].paid <= ledger'[j]
  BY <1>1, <1>2, <1>3, <1>4 DEF ConcurrentInv, PaidWithinLedger, Present
<1>6. \A j \in Invoices : ledger[j] \in Nat /\ ledger[j] <= ledger'[j]
  BY <1>1, <1>4 DEF ConcurrentInv, TypeOK
<1>7. \A j \in Invoices : invoice[j].status # "ABSENT" =>
        invoice'[j].status # "ABSENT" /\ (Present(j)' => Present(j))
  BY <1>2, <1>3 DEF Present
<1> QED
  BY <1>3, <1>4, <1>5, <1>6, <1>7 DEF RowsStep

(* The facts about a handler in flight the steps below start from. *)
LEMMA InFlight ==
  ASSUME ConcurrentInv, NEW h \in Handlers
  PROVE  /\ req[h] \in Flight
         /\ req[h].inv \in Invoices
         /\ req[h].snap \in Row
         /\ invoice[req[h].inv] \in Row
         /\ revenue \in [Invoices -> Int]
         /\ aborts \in 0..MaxAborts
  BY DEF ConcurrentInv, TypeOK, Flight

-----------------------------------------------------------------------------
(* One lemma per action. *)

LEMMA CreateInv ==
  ASSUME ConcurrentInv, NEW h \in Handlers, NEW i \in Invoices, NEW t \in Totals, Create(h, i, t)
  PROVE  ConcurrentInv'
<1> DEFINE row == [NoRow EXCEPT !.status = "DRAFT", !.total = t, !.due = t]
           r   == Syncing
<1>1. row \in Row /\ row.paid = 0
  BY NoRowType, LedgerAssumption DEF Row, NoRow, InvoiceStatus
<1>2. r \in Flight /\ r.pc = "sync"
  BY IdleType DEF Flight, Pcs, Syncing
<1> HIDE DEF row, r
<1>3. /\ invoice' \in [Invoices -> Row]
      /\ \A j \in Invoices : invoice'[j] = IF j = i THEN row ELSE invoice[j]
      /\ invoice[i].status = "ABSENT"
  BY <1>1 DEF Create, ConcurrentInv, TypeOK, row
<1>4. ledger' = ledger /\ ledger \in [Invoices -> Nat]
  BY DEF Create, ConcurrentInv, TypeOK
<1>5. RowsStep
  BY <1>1, <1>3, <1>4 DEF RowsStep, ConcurrentInv, PaidWithinLedger, Present
<1>6. StripeStep /\ revenue' = revenue /\ aborts' = aborts
  BY StripeUnchanged DEF Create
<1>7. Becomes(h, r) /\ Carries(r)
  BY <1>2 DEF Create, Carries, r
<1> QED
  BY <1>2, <1>5, <1>6, <1>7, InFlight, SlotStep

LEMMA UpdateReadInv ==
  ASSUME ConcurrentInv, NEW h \in Handlers, NEW i \in Invoices, NEW t \in Totals,
         UpdateRead(h, i, t)
  PROVE  ConcurrentInv'
<1> DEFINE r == [Holding("update", i) EXCEPT !.amt = t]
<1>1. r \in Flight /\ r.pc = "update"
  BY HoldingType, LedgerAssumption DEF Flight, Pcs, ConcurrentInv
<1>2. Moves(h, r) /\ Carries(r)
  BY <1>1 DEF UpdateRead, Moves, tables, Carries
<1> QED
  BY <1>1, <1>2, ReadStep DEF UpdateRead

LEMMA UpdateWriteInv ==
  ASSUME ConcurrentInv, NEW h \in Handlers, UpdateWrite(h)
  PROVE  ConcurrentInv'
<1> DEFINE i   == req[h].inv
           d   == Due(req[h].amt, req[h].snap.paid)
           row == [invoice[i] EXCEPT !.total = req[h].amt, !.due = d]
           r   == Syncing
<1>1. /\ i \in Invoices /\ invoice[i] \in Row /\ req[h].amt \in Int
      /\ d \in Int
  BY InFlight DEF Flight, Row, Due
<1>2. Present(i) /\ invoice[i].status \in InvoiceStatus
  BY <1>1 DEF UpdateWrite, WritesRow, Present, Row
<1> HIDE DEF d
<1>3. row \in Row /\ row.status = invoice[i].status /\ row.paid = invoice[i].paid
  BY <1>1 DEF Row
<1>4. invoice' = [invoice EXCEPT ![i] = row]
  BY <1>1 DEF UpdateWrite, WritesRow, ConcurrentInv, TypeOK, Edited, d
<1>5. r \in Flight /\ r.pc = "sync"
  BY IdleType DEF Flight, Pcs, Syncing
<1>6. RowsStep
  BY <1>1, <1>2, <1>3, <1>4, RowWriteStep DEF UpdateWrite, WritesRow
<1>7. StripeStep /\ revenue' = revenue /\ aborts' = aborts
  BY StripeUnchanged DEF UpdateWrite, WritesRow
<1>8. Becomes(h, r) /\ Carries(r)
  BY <1>5 DEF UpdateWrite, WritesRow, Carries
<1> QED
  BY <1>5, <1>6, <1>7, <1>8, InFlight, SlotStep

LEMMA RemoveReadInv ==
  ASSUME ConcurrentInv, NEW h \in Handlers, NEW i \in Invoices, RemoveRead(h, i)
  PROVE  ConcurrentInv'
<1> DEFINE r == Holding("remove", i)
<1>1. r \in Flight /\ r.pc = "remove"
  BY HoldingType DEF Pcs, ConcurrentInv
<1>2. Moves(h, r) /\ Carries(r)
  BY <1>1 DEF RemoveRead, Moves, tables, Carries
<1> QED
  BY <1>1, <1>2, ReadStep DEF RemoveRead

LEMMA RemoveWriteInv ==
  ASSUME ConcurrentInv, NEW h \in Handlers, RemoveWrite(h)
  PROVE  ConcurrentInv'
<1> DEFINE i   == req[h].inv
           row == [NoRow EXCEPT !.status = "DELETED"]
           r   == Syncing
<1>1. row \in Row /\ row.status = "DELETED"
  BY NoRowType DEF Row, NoRow, NoRowStatus
<1>2. r \in Flight /\ r.pc = "sync"
  BY IdleType DEF Flight, Pcs, Syncing
<1> HIDE DEF row, r
<1>3. /\ invoice' \in [Invoices -> Row]
      /\ \A j \in Invoices : invoice'[j] = IF j = i THEN row ELSE invoice[j]
  BY <1>1, InFlight DEF RemoveWrite, WritesRow, ConcurrentInv, TypeOK, row
<1>4. /\ ledger' \in [Invoices -> Nat]
      /\ \A j \in Invoices : ledger'[j] = IF j = i THEN 0 ELSE ledger[j]
      /\ ledger \in [Invoices -> Nat]
  BY InFlight DEF RemoveWrite, WritesRow, ConcurrentInv, TypeOK
<1>5. RowsStep
  BY <1>1, <1>3, <1>4 DEF RowsStep, ConcurrentInv, PaidWithinLedger, Present, NoRowStatus
<1>6. StripeStep /\ revenue' = revenue /\ aborts' = aborts
  BY StripeUnchanged DEF RemoveWrite, WritesRow
<1>7. Becomes(h, r) /\ Carries(r)
  BY <1>2 DEF RemoveWrite, WritesRow, Carries, r
<1> QED
  BY <1>2, <1>5, <1>6, <1>7, InFlight, SlotStep

LEMMA SyncReadInv ==
  ASSUME ConcurrentInv, NEW h \in Handlers, SyncRead(h)
  PROVE  ConcurrentInv'
<1> DEFINE rev == [i \in Invoices |-> IF Present(i) /\ invoice[i].status # "VOID"
                                        THEN invoice[i].total ELSE 0]
           r   == [Idle EXCEPT !.pc = "syncWrite", !.rev = rev]
<1>1. rev \in [Invoices -> Int]
  BY DEF ConcurrentInv, TypeOK, Row
<1> HIDE DEF rev
<1>2. r \in Flight /\ r.pc = "syncWrite"
  BY <1>1, IdleType DEF Flight, Pcs
<1>3. Moves(h, r) /\ Carries(r)
  BY <1>2 DEF SyncRead, Moves, tables, Carries, rev
<1> QED
  BY <1>2, <1>3, ReadStep DEF SyncRead

LEMMA SyncWriteInv ==
  ASSUME ConcurrentInv, NEW h \in Handlers, SyncWrite(h)
  PROVE  ConcurrentInv'
<1>1. revenue' \in [Invoices -> Int] /\ aborts' \in 0..MaxAborts
  BY InFlight DEF SyncWrite, Flight
<1>2. RowsStep /\ StripeStep
  BY RowsUnchanged, StripeUnchanged DEF SyncWrite
<1>3. Becomes(h, Idle)
  BY DEF SyncWrite
<1> QED
  BY <1>1, <1>2, <1>3, IdleType, IdleCarries, SlotStep

LEMMA SendReadInv ==
  ASSUME ConcurrentInv, NEW h \in Handlers, NEW i \in Invoices, SendRead(h, i)
  PROVE  ConcurrentInv'
<1> DEFINE r == Holding("send", i)
<1>1. r \in Flight /\ r.pc = "send" /\ r.snap = invoice[i]
  BY HoldingType DEF Pcs, ConcurrentInv
<1>2. invoice[i].status \in InvoiceStatus
  BY DEF SendRead, Unlocked, Present, ConcurrentInv, TypeOK, Row
<1> HIDE DEF r
<1>3. Moves(h, r) /\ Carries(r)
  BY <1>1, <1>2 DEF SendRead, Moves, tables, Carries, r
<1> QED
  BY <1>1, <1>3, ReadStep DEF SendRead

LEMMA SendWriteInv ==
  ASSUME ConcurrentInv, NEW h \in Handlers, SendWrite(h)
  PROVE  ConcurrentInv'
<1> DEFINE i   == req[h].inv
           st  == StatusSent(req[h].snap)
           row == [invoice[i] EXCEPT !.status = st, !.sent = TRUE]
<1>1. i \in Invoices /\ invoice[i] \in Row
  BY InFlight
<1>2. st \in InvoiceStatus
  BY DEF SendWrite, WritesRow, ConcurrentInv, ArgumentsOK, InvoiceStatus, StatusSent
<1> HIDE DEF st
<1>3. row \in Row /\ row.status = st /\ row.paid = invoice[i].paid
  BY <1>1, <1>2 DEF Row
<1>4. invoice' = [invoice EXCEPT ![i] = row] /\ Present(i)
  BY <1>1 DEF SendWrite, WritesRow, ConcurrentInv, TypeOK, st
<1>5. RowsStep
  BY <1>1, <1>2, <1>3, <1>4, RowWriteStep DEF SendWrite, WritesRow
<1>6. StripeStep /\ revenue' = revenue /\ aborts' = aborts
  BY StripeUnchanged DEF SendWrite, WritesRow
<1>7. Becomes(h, Idle)
  BY DEF SendWrite, WritesRow
<1> QED
  BY <1>5, <1>6, <1>7, InFlight, IdleType, IdleCarries, SlotStep

LEMMA RecordPaymentReadInv ==
  ASSUME ConcurrentInv, NEW h \in Handlers, NEW i \in Invoices, NEW a \in Amounts,
         RecordPaymentRead(h, i, a)
  PROVE  ConcurrentInv'
<1> DEFINE r == [Holding("recordPayment", i) EXCEPT !.amt = a]
<1>1. a \in Nat
  BY LedgerAssumption
<1>2. r \in Flight /\ r.pc = "recordPayment" /\ r.amt = a /\ r.inv = i /\ r.snap = invoice[i]
  BY <1>1, HoldingType DEF Flight, Pcs, ConcurrentInv
<1>3. invoice[i].status # "ABSENT" /\ invoice[i].paid <= ledger[i]
  BY DEF RecordPaymentRead, Unlocked, Present, NoRowStatus, ConcurrentInv, PaidWithinLedger
<1> HIDE DEF r
<1>4. Moves(h, r) /\ Carries(r)
  BY <1>1, <1>2, <1>3 DEF RecordPaymentRead, Moves, tables, Carries, r
<1> QED
  BY <1>2, <1>4, ReadStep DEF RecordPaymentRead

LEMMA RecordPaymentCommitInv ==
  ASSUME ConcurrentInv, NEW h \in Handlers, RecordPaymentCommit(h)
  PROVE  ConcurrentInv'
<1>1. req[h].amt \in Nat /\ req[h].snap.paid <= ledger[req[h].inv] /\ Present(req[h].inv)
  BY DEF RecordPaymentCommit, WritesRow, ConcurrentInv, ArgumentsOK, SnapshotsWithinLedger
<1>2. RowsStep
  BY <1>1, InFlight, PaymentStep DEF PaymentInserted, RecordPaymentCommit, WritesRow
<1>3. StripeStep /\ revenue' = revenue /\ aborts' = aborts
  BY StripeUnchanged DEF RecordPaymentCommit, WritesRow
<1>4. Becomes(h, Idle)
  BY DEF RecordPaymentCommit, WritesRow
<1> QED
  BY <1>2, <1>3, <1>4, InFlight, IdleType, IdleCarries, SlotStep

LEMMA CreateIntentReadInv ==
  ASSUME ConcurrentInv, NEW h \in Handlers, NEW i \in Invoices, CreateIntentRead(h, i)
  PROVE  ConcurrentInv'
<1> DEFINE r == Holding("createIntent", i)
<1>1. r \in Flight /\ r.pc = "createIntent"
  BY HoldingType DEF Pcs, ConcurrentInv
<1>2. Moves(h, r) /\ Carries(r)
  BY <1>1 DEF CreateIntentRead, Moves, tables, Carries
<1> QED
  BY <1>1, <1>2, ReadStep DEF CreateIntentRead

(* The handler ends without writing. *)
LEMMA EndsInv ==
  ASSUME ConcurrentInv, NEW h \in Handlers,
         CreateIntentReuse(h) \/ CreateIntentRefused(h) \/ RowGone(h)
  PROVE  ConcurrentInv'
  BY IdleType, IdleCarries, ReadStep DEF CreateIntentReuse, CreateIntentRefused, RowGone

LEMMA AbortInv ==
  ASSUME ConcurrentInv, NEW h \in Handlers, Abort(h)
  PROVE  ConcurrentInv'
<1>1. revenue' \in [Invoices -> Int] /\ aborts' \in 0..MaxAborts
  BY InFlight, LedgerAssumption DEF Abort
<1>2. RowsStep /\ StripeStep
  BY RowsUnchanged, StripeUnchanged DEF Abort
<1>3. Becomes(h, Idle)
  BY DEF Abort
<1> QED
  BY <1>1, <1>2, <1>3, IdleType, IdleCarries, SlotStep

(* A change of one intent that is not paid yet keeps StripeStep. *)
LEMMA IntentStep ==
  ASSUME ConcurrentInv, NEW p \in Intents, intents[p].status # "succeeded",
         NEW x \in [status: IntentStatus, amount: Nat, inv: Invoices],
         intents' = [intents EXCEPT ![p] = x], UNCHANGED <<credited, recorded>>
  PROVE  StripeStep
  BY DEF ConcurrentInv, TypeOK, StripeStep

LEMMA CreateIntentAtStripeInv ==
  ASSUME ConcurrentInv, NEW h \in Handlers, NEW p \in Intents, CreateIntentAtStripe(h, p)
  PROVE  ConcurrentInv'
<1> DEFINE x == [status |-> "created", amount |-> req[h].snap.due, inv |-> req[h].inv]
           r == [req[h] EXCEPT !.pc = "linkIntent", !.pi = p]
<1>1. x \in [status: IntentStatus, amount: Nat, inv: Invoices]
  BY InFlight DEF CreateIntentAtStripe, Row, IntentStatus
<1>2. r \in Flight /\ r.pc = "linkIntent" /\ r.pi = p
  BY InFlight DEF Flight, Pcs
<1>3. StripeStep
  BY <1>1, IntentStep DEF CreateIntentAtStripe, NewAtStripe
<1> HIDE DEF r
<1>4. Becomes(h, r) /\ Carries(r)
  BY <1>2 DEF CreateIntentAtStripe, Carries, r
<1>5. RowsStep /\ revenue' = revenue /\ aborts' = aborts
  BY RowsUnchanged DEF CreateIntentAtStripe
<1> QED
  BY <1>2, <1>3, <1>4, <1>5, InFlight, SlotStep

LEMMA LinkIntentInv ==
  ASSUME ConcurrentInv, NEW h \in Handlers, LinkIntent(h)
  PROVE  ConcurrentInv'
<1> DEFINE i   == req[h].inv
           p   == req[h].pi
           row == [invoice[i] EXCEPT !.intent = p]
           st  == IF intents[p].status = "created" THEN "open" ELSE intents[p].status
           x   == [intents[p] EXCEPT !.status = st]
<1>1. p \in Intents
  BY DEF LinkIntent, WritesRow, ConcurrentInv, DeliveriesPaid
<1>2. /\ i \in Invoices /\ invoice[i] \in Row
      /\ row \in Row /\ row.status = invoice[i].status /\ row.paid = invoice[i].paid
  BY <1>1, InFlight DEF Row
<1>3. Present(i) /\ invoice[i].status \in InvoiceStatus
  BY <1>2 DEF LinkIntent, WritesRow, Present, Row
<1>4. invoice' = [invoice EXCEPT ![i] = row]
  BY <1>2 DEF LinkIntent, WritesRow, ConcurrentInv, TypeOK
<1>5. RowsStep
  BY <1>2, <1>3, <1>4, RowWriteStep DEF LinkIntent, WritesRow
<1>6. /\ intents' \in [Intents -> [status: IntentStatus, amount: Nat, inv: Invoices]]
      /\ \A q \in Intents : intents[q].status = "succeeded" => intents'[q].status = "succeeded"
  BY <1>1 DEF LinkIntent, WritesRow, ConcurrentInv, TypeOK, IntentStatus
<1>7. StripeStep
  BY <1>6 DEF LinkIntent, WritesRow, ConcurrentInv, TypeOK, StripeStep
<1>8. Becomes(h, Idle) /\ revenue' = revenue /\ aborts' = aborts
  BY DEF LinkIntent, WritesRow
<1> QED
  BY <1>5, <1>7, <1>8, InFlight, IdleType, IdleCarries, SlotStep

LEMMA CustomerInv ==
  ASSUME ConcurrentInv, NEW p \in Intents, CustomerPays(p) \/ StripeCancels(p)
  PROVE  ConcurrentInv'
<1> DEFINE st == IF CustomerPays(p) THEN "succeeded" ELSE "canceled"
           x  == [intents[p] EXCEPT !.status = st]
<1>1. /\ intents[p].status # "succeeded" /\ intents' = [intents EXCEPT ![p].status = st]
      /\ st \in IntentStatus
      /\ UNCHANGED <<invoice, ledger, credited, recorded, revenue, req, aborts>>
  BY DEF CustomerPays, StripeCancels, IntentBecomes, IntentStatus
<1> HIDE DEF st
<1>2. /\ x \in [status: IntentStatus, amount: Nat, inv: Invoices]
      /\ intents' = [intents EXCEPT ![p] = x]
  BY <1>1 DEF ConcurrentInv, TypeOK
<1>3. RowsStep /\ StripeStep
  BY <1>1, <1>2, RowsUnchanged, IntentStep
<1>4. /\ \A k \in Handlers : Carries(req'[k])
      /\ req' \in [Handlers -> Flight] /\ revenue' \in [Invoices -> Int] /\ aborts' \in 0..MaxAborts
  BY <1>1, <1>3, OthersKeep DEF ConcurrentInv, TypeOK
<1> QED
  BY <1>3, <1>4, HandlerStep

LEMMA WebhookDeliverInv ==
  ASSUME ConcurrentInv, NEW h \in Handlers, NEW p \in Intents, WebhookDeliver(h, p)
  PROVE  ConcurrentInv'
<1> DEFINE r == [Idle EXCEPT !.pc = "lookup", !.pi = p]
<1>1. r \in Flight /\ r.pc = "lookup" /\ r.pi = p
  BY IdleType DEF Flight, Pcs
<1> HIDE DEF r
<1>2. Moves(h, r) /\ Carries(r)
  BY <1>1 DEF WebhookDeliver, Deliverable, Moves, tables, Carries, r
<1> QED
  BY <1>1, <1>2, ReadStep DEF WebhookDeliver

LEMMA WebhookLookupInv ==
  ASSUME ConcurrentInv, NEW h \in Handlers, WebhookLookup(h)
  PROVE  ConcurrentInv'
<1> DEFINE p == req[h].pi
<1>1. p \in Intents /\ intents[p].status = "succeeded" /\ intents' = intents
  BY DEF WebhookLookup, Moves, tables, ConcurrentInv, DeliveriesPaid
<1>2. CASE \E i \in PayableBy(p) : Moves(h, [Holding("credit", i) EXCEPT !.pi = p])
  <2>1. PICK i \in PayableBy(p) : Moves(h, [Holding("credit", i) EXCEPT !.pi = p])
    BY <1>2
  <2> DEFINE r == [Holding("credit", i) EXCEPT !.pi = p]
  <2>2. i \in Invoices /\ invoice[i].status # "ABSENT" /\ invoice[i].paid <= ledger[i]
    BY DEF PayableBy, Present, NoRowStatus, ConcurrentInv, PaidWithinLedger
  <2>3. r \in Flight /\ r.pc = "credit" /\ r.pi = p /\ r.inv = i /\ r.snap = invoice[i]
    BY <1>1, <2>2, HoldingType DEF Flight, Pcs, ConcurrentInv
  <2> HIDE DEF r
  <2>4. Carries(r)
    BY <1>1, <2>2, <2>3 DEF WebhookLookup, Moves, tables, Carries
  <2>5. Moves(h, r)
    BY <2>1 DEF r
  <2> QED
    BY <2>3, <2>4, <2>5, ReadStep DEF WebhookLookup
<1>3. CASE Moves(h, [req[h] EXCEPT !.pc = "record"])
  <2> DEFINE r == [req[h] EXCEPT !.pc = "record"]
  <2>1. r \in Flight /\ r.pc = "record" /\ r.pi = p
    BY InFlight DEF Flight, Pcs
  <2> HIDE DEF r
  <2>2. Carries(r)
    BY <1>1, <2>1 DEF Carries
  <2>3. Moves(h, r)
    BY <1>3 DEF r
  <2> QED
    BY <2>1, <2>2, <2>3, ReadStep DEF WebhookLookup
<1> QED
  BY <1>2, <1>3 DEF WebhookLookup

LEMMA WebhookCreditInv ==
  ASSUME ConcurrentInv, NEW h \in Handlers, WebhookCredit(h)
  PROVE  ConcurrentInv'
<1> DEFINE p == req[h].pi
           r == [Idle EXCEPT !.pc = "record", !.pi = p]
<1>1. /\ p \in Intents /\ intents[p].status = "succeeded" /\ intents[p].amount \in Nat
      /\ Present(req[h].inv) /\ req[h].snap.paid <= ledger[req[h].inv]
  BY DEF WebhookCredit, WritesRow, ConcurrentInv, DeliveriesPaid, SnapshotsWithinLedger, TypeOK
<1>2. RowsStep
  BY <1>1, InFlight, PaymentStep DEF PaymentInserted, WebhookCredit, WritesRow
<1>3. /\ credited' \in [Intents -> Nat]
      /\ \A q \in Intents : credited'[q] > 0 => credited[q] > 0 \/ q = p
  BY <1>1 DEF WebhookCredit, WritesRow, ConcurrentInv, TypeOK
<1>4. StripeStep
  BY <1>1, <1>3 DEF WebhookCredit, WritesRow, StripeStep, ConcurrentInv, TypeOK
<1>5. r \in Flight /\ r.pc = "record" /\ r.pi = p
  BY <1>1, IdleType DEF Flight, Pcs
<1> HIDE DEF r
<1>6. Becomes(h, r) /\ Carries(r) /\ revenue' = revenue /\ aborts' = aborts
  BY <1>1, <1>5 DEF WebhookCredit, WritesRow, Carries, r
<1> QED
  BY <1>2, <1>4, <1>5, <1>6, InFlight, SlotStep

LEMMA WebhookRecordInv ==
  ASSUME ConcurrentInv, NEW h \in Handlers, WebhookRecord(h)
  PROVE  ConcurrentInv'
<1>1. req[h].pi \in Intents
  BY DEF WebhookRecord, ConcurrentInv, DeliveriesPaid
<1>2. RowsStep /\ StripeStep
  BY <1>1, RowsUnchanged DEF WebhookRecord, StripeStep, ConcurrentInv, TypeOK
<1>3. Becomes(h, Idle) /\ revenue' = revenue /\ aborts' = aborts
  BY DEF WebhookRecord
<1> QED
  BY <1>2, <1>3, InFlight, IdleType, IdleCarries, SlotStep

LEMMA ScanReadInv ==
  ASSUME ConcurrentInv, NEW h \in Handlers, NEW i \in Invoices, NEW days \in {0, 3, 7, 14},
         NEW pastDue \in BOOLEAN, ScanRead(h, i, days, pastDue)
  PROVE  ConcurrentInv'
<1> DEFINE n == NextReminder(invoice[i], days)
           o == pastDue /\ invoice[i].status # "OVERDUE"
           r == [Holding("scan", i) EXCEPT !.amt = n, !.overdue = o]
<1>1. n \in 0..3 /\ o \in BOOLEAN
  BY DEF NextReminder
<1> HIDE DEF n, o
<1>2. r \in Flight /\ r.pc = "scan" /\ r.amt = n
  <2> DEFINE f == Holding("scan", i)
  <2>1. f \in Flight /\ f.pc = "scan"
    BY HoldingType DEF Pcs, ConcurrentInv
  <2>2. n \in Int
    BY <1>1
  <2> HIDE DEF f
  <2>3. \A x \in Int, y \in BOOLEAN :
          LET g == [f EXCEPT !.amt = x, !.overdue = y]
          IN  g \in Flight /\ g.pc = "scan" /\ g.amt = x
    BY <2>1 DEF Flight
  <2> QED
    BY <1>1, <2>2, <2>3 DEF f
<1>3. Moves(h, r)
  BY DEF ScanRead, n, o
<1> HIDE DEF r
<1>4. Carries(r)
  BY <1>1, <1>2 DEF Carries
<1> QED
  BY <1>2, <1>3, <1>4, ReadStep

LEMMA ScanWriteInv ==
  ASSUME ConcurrentInv, NEW h \in Handlers, ScanWrite(h)
  PROVE  ConcurrentInv'
<1> DEFINE i   == req[h].inv
           st  == IF req[h].overdue THEN "OVERDUE" ELSE invoice[i].status
           n   == IF req[h].amt > 0 THEN req[h].amt ELSE invoice[i].followUp
           row == [invoice[i] EXCEPT !.status = st, !.followUp = n]
<1>1. i \in Invoices /\ invoice[i] \in Row /\ Present(i)
  BY InFlight DEF ScanWrite, WritesRow
<1>2. st \in InvoiceStatus
  BY <1>1 DEF Present, Row, InvoiceStatus
<1>3. n \in 0..3
  BY <1>1 DEF ScanWrite, WritesRow, ConcurrentInv, ArgumentsOK, Row
<1> HIDE DEF st, n
<1>4. row \in Row /\ row.status = st /\ row.paid = invoice[i].paid
  BY <1>1, <1>2, <1>3 DEF Row
<1>5. invoice' = [invoice EXCEPT ![i] = row]
  BY <1>1 DEF ScanWrite, WritesRow, ConcurrentInv, TypeOK, st, n
<1>6. RowsStep
  BY <1>1, <1>2, <1>4, <1>5, RowWriteStep DEF ScanWrite, WritesRow
<1>7. StripeStep /\ revenue' = revenue /\ aborts' = aborts
  BY StripeUnchanged DEF ScanWrite, WritesRow
<1>8. Becomes(h, Idle)
  BY DEF ScanWrite, WritesRow
<1> QED
  BY <1>6, <1>7, <1>8, InFlight, IdleType, IdleCarries, SlotStep

-----------------------------------------------------------------------------
LEMMA InitInv == Init => ConcurrentInv
<1> SUFFICES ASSUME Init PROVE ConcurrentInv
  OBVIOUS
<1>1. TypeOK
  BY IdleType, NoRowType, AnyInvoiceType, LedgerAssumption DEF Init, TypeOK, NoRevenue, IntentStatus
<1>2. \A h \in Handlers : req[h].pc = "idle"
  BY IdleType DEF Init
<1>3. \A i \in Invoices : ~Present(i)
  BY DEF Init, Present, NoRow, NoRowStatus
<1>4. CreditNeedsCharge
  BY DEF Init, CreditNeedsCharge
<1> QED
  BY <1>1, <1>2, <1>3, <1>4 DEF ConcurrentInv, ArgumentsOK, PaidWithinLedger,
       SnapshotsWithinLedger, DeliveriesPaid

LEMMA NextInv ==
  ASSUME ConcurrentInv, [Next]_vars
  PROVE  ConcurrentInv'
<1>1. ASSUME NEW h \in Handlers, Resume(h) PROVE ConcurrentInv'
  BY <1>1, UpdateWriteInv, RemoveWriteInv, SyncReadInv, SyncWriteInv, SendWriteInv,
     RecordPaymentCommitInv, EndsInv, LinkIntentInv, CreateIntentAtStripeInv,
     WebhookLookupInv, WebhookCreditInv, WebhookRecordInv, ScanWriteInv
  DEF Resume, WebhookStep
<1>2. ASSUME NEW h \in Handlers, NEW i \in Invoices, Request(h, i) PROVE ConcurrentInv'
  BY <1>2, CreateInv, UpdateReadInv, RemoveReadInv, SendReadInv, CreateIntentReadInv,
     RecordPaymentReadInv, ScanReadInv
  DEF Request
<1>3. CASE Stripe
  BY <1>3, CustomerInv, WebhookDeliverInv DEF Stripe
<1>4. CASE UNCHANGED vars
  <2>1. RowsStep /\ StripeStep
    BY <1>4, RowsUnchanged, StripeUnchanged DEF vars
  <2>2. /\ \A k \in Handlers : Carries(req'[k])
        /\ req' \in [Handlers -> Flight] /\ revenue' \in [Invoices -> Int] /\ aborts' \in 0..MaxAborts
    BY <1>4, <2>1, OthersKeep DEF vars, ConcurrentInv, TypeOK
  <2> QED
    BY <2>1, <2>2, HandlerStep
<1> QED
  BY <1>1, <1>2, <1>3, <1>4, AbortInv DEF Next

(* The inductive invariant holds in every reachable state: every handler   *)
(* in flight carries arguments and a snapshot its write can rely on.       *)
THEOREM ConcurrentInvariant == Spec => []ConcurrentInv
  BY InitInv, NextInv, PTL DEF Spec

(* The rows, payments, intents and handlers keep their types, for any      *)
(* number of them.                                                         *)
THEOREM TypeCorrect == Spec => []TypeOK
<1>1. ConcurrentInv => TypeOK
  BY DEF ConcurrentInv
<1> QED
  BY <1>1, ConcurrentInvariant, PTL

(* No interleaving of recordPayment, the webhook, edits, removals, sends   *)
(* and scans, and no handler dying, makes an invoice show more paid than   *)
(* its Payment rows add up to.                                             *)
THEOREM BooksNeverOverstate == Spec => []PaidWithinLedger
<1>1. ConcurrentInv => PaidWithinLedger
  BY DEF ConcurrentInv
<1> QED
  BY <1>1, ConcurrentInvariant, PTL

(* No interleaving creates a STRIPE payment for an intent nobody paid. *)
THEOREM NoCreditWithoutCharge == Spec => []CreditNeedsCharge
<1>1. ConcurrentInv => CreditNeedsCharge
  BY DEF ConcurrentInv
<1> QED
  BY <1>1, ConcurrentInvariant, PTL
-----------------------------------------------------------------------------
(* Handlers one after the other. *)

(* What Job.totalRevenue should be. *)
Books == [i \in Invoices |-> IF Present(i) THEN invoice[i].total ELSE 0]

(* An invoice with led as the sum of its Payment rows.  Without the bound  *)
(* on Totals amountDue may differ: create does not clip it, update does.   *)
RowSound(row, led) ==
  IF row.status \in NoRowStatus THEN led = 0
  ELSE /\ row.paid = led
       /\ Totals \subseteq Nat => row.due = Due(row.total, row.paid)
       /\ row.status # "VOID"
       /\ row.status = "PAID" => row.paid > 0

IntentSound(x) == x.status # "unused" => x.amount > 0

TablesSound ==
  /\ \A i \in Invoices : RowSound(invoice[i], ledger[i])
  /\ \A p \in Intents : IntentSound(intents[p])

Holders == {"update", "remove", "send", "recordPayment", "createIntent", "linkIntent",
            "credit", "scan"}

Syncs == {"sync", "syncWrite"}

(* The row a handler has read is still as it read it, and as its guard     *)
(* wanted it.                                                              *)
Fresh(r) ==
  /\ r.pc \in Holders =>
       r.snap = invoice[r.inv] /\ r.snap.status \notin NoRowStatus
  /\ r.pc \in Holders \ {"remove"} => r.snap.status # "PAID"
  /\ r.pc = "remove" => r.snap.paid <= 0
  /\ r.pc = "recordPayment" => r.amt > 0
  /\ r.pc \in {"lookup", "credit"} => r.pi \notin recorded
  /\ r.pc = "syncWrite" => r.rev = Books

(* A charge is credited once for each delivery that died, and once more if *)
(* its event is recorded or about to be.                                   *)
Accounted(r) ==
  \A p \in Intents :
    credited[p] <= aborts + IF p \in recorded \/ (r.pc = "record" /\ r.pi = p) THEN 1 ELSE 0

(* With no death so far and no sync to come, the revenue is up to date. *)
Synced(r) == aborts = 0 /\ r.pc \notin Syncs => revenue = Books

OthersIdle(h) == \A g \in Handlers \ {h} : req[g].pc = "idle"

(* The inductive invariant of handlers that do not overlap, slot h being   *)
(* the one in use: what the handler has read still stands.                 *)
SerialInv(h) ==
  TablesSound /\ OthersIdle(h) /\ Fresh(req[h]) /\ Accounted(req[h]) /\ Synced(req[h])

(* Fresh, Accounted and Synced of what the handler becomes. *)
FreshNext(r) ==
  /\ r.pc \in Holders =>
       r.snap = invoice'[r.inv] /\ r.snap.status \notin NoRowStatus
  /\ r.pc \in Holders \ {"remove"} => r.snap.status # "PAID"
  /\ r.pc = "remove" => r.snap.paid <= 0
  /\ r.pc = "recordPayment" => r.amt > 0
  /\ r.pc \in {"lookup", "credit"} => r.pi \notin recorded'
  /\ r.pc = "syncWrite" => r.rev = Books'

AccountedNext(r) ==
  \A p \in Intents :
    credited'[p] <= aborts' + IF p \in recorded' \/ (r.pc = "record" /\ r.pi = p) THEN 1 ELSE 0

SyncedNext(r) == aborts' = 0 /\ r.pc \notin Syncs => revenue' = Books'

LEMMA SerialStep ==
  ASSUME ConcurrentInv, NEW h \in Handlers, SerialInv(h), NEW r \in Flight, Becomes(h, r),
         TablesSound', FreshNext(r), AccountedNext(r), SyncedNext(r)
  PROVE  SerialInv(h)'
<1>1. req' = [req EXCEPT ![h] = r] /\ req'[h] = r
  BY DEF Becomes, ConcurrentInv, TypeOK
<1>2. OthersIdle(h)'
  BY <1>1 DEF SerialInv, OthersIdle
<1>3. Fresh(req[h])'
  BY <1>1 DEF Fresh, FreshNext
<1>4. Accounted(req[h])'
  BY <1>1 DEF Accounted, AccountedNext
<1>5. Synced(req[h])'
  BY <1>1 DEF Synced, SyncedNext
<1> QED
  BY <1>2, <1>3, <1>4, <1>5 DEF SerialInv

(* A step that writes no table. *)
LEMMA SerialMove ==
  ASSUME ConcurrentInv, NEW h \in Handlers, SerialInv(h), NEW r \in Flight, Moves(h, r), Fresh(r),
         req[h].pc # "record", req[h].pc \in Syncs => r.pc \in Syncs
  PROVE  SerialInv(h)'
<1>1. Becomes(h, r) /\ UNCHANGED tables /\ Books' = Books
  BY DEF Moves, tables, Books, Present
<1>2. TablesSound'
  BY <1>1 DEF SerialInv, TablesSound, RowSound, tables
<1>3. FreshNext(r)
  BY <1>1 DEF Fresh, FreshNext, tables
<1>4. \A p \in Intents : credited[p] \in Nat /\ aborts \in Nat
  BY LedgerAssumption DEF ConcurrentInv, TypeOK
<1>5. AccountedNext(r)
  BY <1>1, <1>4 DEF SerialInv, Accounted, AccountedNext, tables
<1>6. SyncedNext(r)
  BY <1>1 DEF SerialInv, Synced, SyncedNext, tables
<1> QED
  BY <1>1, <1>2, <1>3, <1>5, <1>6, SerialStep

(* A write of row i, with which the handler ends, or has the job to sync,  *)
(* or the event to record.                                                 *)
LEMMA SerialWrite ==
  ASSUME ConcurrentInv, NEW h \in Handlers, SerialInv(h), NEW r \in Flight, Becomes(h, r),
         NEW i \in Invoices, NEW row \in Row, invoice' = [invoice EXCEPT ![i] = row],
         r.pc \in {"idle", "sync", "record"},
         \A j \in Invoices : j # i => ledger'[j] = ledger[j],
         RowSound(row, ledger'[i]), \A p \in Intents : IntentSound(intents'[p]),
         AccountedNext(r),
         \/ r.pc = "sync"
         \/ /\ req[h].pc \notin Syncs /\ UNCHANGED <<revenue, aborts>>
            /\ Present(i) /\ row.status \notin NoRowStatus /\ row.total = invoice[i].total
  PROVE  SerialInv(h)'
<1>1. \A j \in Invoices : invoice'[j] = IF j = i THEN row ELSE invoice[j]
  BY DEF ConcurrentInv, TypeOK
<1>2. TablesSound'
  <2>1. \A j \in Invoices : RowSound(invoice'[j], ledger'[j])
    <3> TAKE j \in Invoices
    <3>1. CASE j = i
      BY <3>1, <1>1
    <3>2. CASE j # i
      <4>1. RowSound(invoice[j], ledger[j]) /\ invoice'[j] = invoice[j] /\ ledger'[j] = ledger[j]
        BY <3>2, <1>1 DEF SerialInv, TablesSound
      <4> QED
        BY <4>1
    <3> QED
      BY <3>1, <3>2
  <2> QED
    BY <2>1 DEF TablesSound, RowSound, IntentSound
<1>3. FreshNext(r)
  BY DEF FreshNext, Holders
<1>4. SyncedNext(r)
  <2>1. CASE r.pc = "sync"
    BY <2>1 DEF SyncedNext, Syncs
  <2>2. CASE /\ req[h].pc \notin Syncs /\ UNCHANGED <<revenue, aborts>>
             /\ Present(i) /\ row.status \notin NoRowStatus /\ row.total = invoice[i].total
    <3>1. \A j \in Invoices : /\ Present(j)' <=> Present(j)
                              /\ Present(j) => invoice'[j].total = invoice[j].total
      BY <2>2, <1>1 DEF Present
    <3>2. Books' = Books
      BY <3>1 DEF Books
    <3> QED
      BY <2>2, <3>2 DEF SyncedNext, SerialInv, Synced
  <2> QED
    BY <2>1, <2>2
<1> QED
  BY <1>2, <1>3, <1>4, SerialStep

(* The row of a handler about to write it: as read, and not paid. *)
LEMMA HeldRow ==
  ASSUME ConcurrentInv, NEW h \in Handlers, SerialInv(h), req[h].pc \in Holders
  PROVE  /\ req[h].inv \in Invoices /\ req[h].snap \in Row
         /\ req[h].snap = invoice[req[h].inv] /\ Present(req[h].inv)
         /\ req[h].snap.status # "PAID"
         /\ RowSound(req[h].snap, ledger[req[h].inv])
<1>1. req[h].inv \in Invoices /\ req[h].snap \in Row
  BY InFlight
<1>2. req[h].snap = invoice[req[h].inv] /\ Present(req[h].inv)
  BY DEF SerialInv, Fresh, Present
<1>3. RowSound(req[h].snap, ledger[req[h].inv])
  BY <1>1, <1>2 DEF SerialInv, TablesSound
<1>4. req[h].snap.status # "PAID"
  <2>1. CASE req[h].pc = "remove"
    <3>1. req[h].snap.paid <= 0 /\ req[h].snap.paid \in Nat
      BY <2>1, <1>1 DEF SerialInv, Fresh, Row
    <3> QED
      BY <3>1, <1>2, <1>3 DEF RowSound, Present
  <2>2. CASE req[h].pc # "remove"
    BY <2>2 DEF SerialInv, Fresh, Holders
  <2> QED
    BY <2>1, <2>2
<1> QED
  BY <1>1, <1>2, <1>3, <1>4

LEMMA AccountsKept ==
  ASSUME ConcurrentInv, NEW h \in Handlers, SerialInv(h), NEW r, req[h].pc # "record",
         UNCHANGED <<credited, recorded, aborts>>
  PROVE  AccountedNext(r)
<1>1. \A p \in Intents : credited[p] \in Nat /\ aborts \in Nat
  BY LedgerAssumption DEF ConcurrentInv, TypeOK
<1> QED
  BY <1>1 DEF SerialInv, Accounted, AccountedNext

-----------------------------------------------------------------------------
(* One lemma per action; each says too that no paid row is written. *)

(* No row that is paid is touched. *)
PaidAlone == \A i \in Invoices : invoice[i].status = "PAID" => invoice'[i] = invoice[i]

LEMMA PaidKept ==
  ASSUME ConcurrentInv, NEW i \in Invoices, NEW row, invoice[i].status # "PAID",
         invoice' = [invoice EXCEPT ![i] = row]
  PROVE  PaidAlone
  BY DEF ConcurrentInv, TypeOK, PaidAlone

LEMMA CreateSerial ==
  ASSUME ConcurrentInv, NEW h \in Handlers, SerialInv(h), NEW i \in Invoices, NEW t \in Totals,
         Create(h, i, t)
  PROVE  SerialInv(h)' /\ PaidAlone
<1> DEFINE row == [NoRow EXCEPT !.status = "DRAFT", !.total = t, !.due = t]
<1>1. /\ row \in Row /\ row.status = "DRAFT" /\ row.paid = 0 /\ row.total = t /\ row.due = t
      /\ t \in Int
  BY NoRowType, LedgerAssumption DEF Row, NoRow, InvoiceStatus
<1>2. Syncing \in Flight /\ Syncing.pc = "sync"
  BY IdleType DEF Flight, Pcs, Syncing
<1>3. /\ invoice' = [invoice EXCEPT ![i] = row] /\ invoice[i].status = "ABSENT"
      /\ Becomes(h, Syncing) /\ req[h].pc = "idle"
      /\ UNCHANGED <<ledger, credited, intents, recorded, revenue, aborts>>
  BY DEF Create, Starts
<1> HIDE DEF row
<1>4. ledger[i] = 0
  BY <1>3 DEF SerialInv, TablesSound, RowSound, NoRowStatus
<1>5. RowSound(row, ledger'[i])
  BY <1>1, <1>3, <1>4 DEF RowSound, Due
<1>6. AccountedNext(Syncing)
  BY <1>3, AccountsKept
<1>7. \A p \in Intents : IntentSound(intents'[p])
  BY <1>3 DEF SerialInv, TablesSound
<1> QED
  BY <1>1, <1>2, <1>3, <1>5, <1>6, <1>7, SerialWrite, PaidKept

(* The handlers that read a row and hold it. *)
LEMMA ReadSerial ==
  ASSUME ConcurrentInv, NEW h \in Handlers, SerialInv(h), NEW i \in Invoices,
         \/ \E t \in Totals : UpdateRead(h, i, t)
         \/ RemoveRead(h, i) \/ SendRead(h, i) \/ CreateIntentRead(h, i)
         \/ \E a \in Amounts : RecordPaymentRead(h, i, a)
         \/ \E days \in {0, 3, 7, 14}, pastDue \in BOOLEAN : ScanRead(h, i, days, pastDue)
  PROVE  SerialInv(h)' /\ PaidAlone
<1>1. req[h].pc = "idle" /\ UNCHANGED tables /\ Present(i)
  BY DEF UpdateRead, RemoveRead, SendRead, CreateIntentRead, RecordPaymentRead, ScanRead, Starts,
         Moves, Unlocked, Scanned, Present, FollowUp, NoRowStatus
<1>2. PaidAlone
  BY <1>1 DEF PaidAlone, tables
<1>3. ASSUME NEW r \in Flight, Moves(h, r), r.inv = i, r.snap = invoice[i],
             r.pc \in Holders \ {"credit"},
             r.pc = "remove" => invoice[i].paid <= 0,
             r.pc # "remove" => invoice[i].status # "PAID",
             r.pc = "recordPayment" => r.amt > 0
      PROVE  SerialInv(h)' /\ PaidAlone
  <2>1. Fresh(r)
    BY <1>1, <1>3 DEF Fresh, Holders, Present
  <2> QED
    BY <1>1, <1>2, <1>3, <2>1, SerialMove DEF Syncs
<1>4. ASSUME NEW pc \in Holders \ {"credit"}
      PROVE  /\ Holding(pc, i) \in Flight /\ Holding(pc, i).pc = pc /\ Holding(pc, i).inv = i
             /\ Holding(pc, i).snap = invoice[i]
             /\ \A a \in Int : LET r == [Holding(pc, i) EXCEPT !.amt = a]
                               IN  /\ r \in Flight /\ r.pc = pc /\ r.inv = i
                                   /\ r.snap = invoice[i] /\ r.amt = a
  <2>1. /\ Holding(pc, i) \in Flight /\ Holding(pc, i).pc = pc /\ Holding(pc, i).inv = i
        /\ Holding(pc, i).snap = invoice[i]
    BY HoldingType DEF Holders, Pcs, ConcurrentInv
  <2> QED
    BY <2>1 DEF Flight
<1>5. CASE \E t \in Totals : UpdateRead(h, i, t)
  <2> PICK t \in Totals : UpdateRead(h, i, t)
    BY <1>5
  <2> DEFINE r == [Holding("update", i) EXCEPT !.amt = t]
  <2>1. r \in Flight /\ r.pc = "update" /\ r.inv = i /\ r.snap = invoice[i]
    BY <1>4, LedgerAssumption DEF Holders
  <2>2. Moves(h, r) /\ invoice[i].status # "PAID"
    BY DEF UpdateRead, Unlocked, Locked
  <2> HIDE DEF r
  <2> QED
    BY <1>3, <2>1, <2>2 DEF Holders
<1>6. CASE RemoveRead(h, i) \/ SendRead(h, i) \/ CreateIntentRead(h, i)
  <2>1. PICK pc \in {"remove", "send", "createIntent"} :
          /\ Moves(h, Holding(pc, i))
          /\ pc = "remove" => invoice[i].paid <= 0
          /\ pc # "remove" => invoice[i].status # "PAID"
    BY <1>6 DEF RemoveRead, SendRead, CreateIntentRead, Unlocked, Locked
  <2>2. /\ Holding(pc, i) \in Flight /\ Holding(pc, i).pc = pc /\ Holding(pc, i).inv = i
        /\ Holding(pc, i).snap = invoice[i]
    BY <1>4 DEF Holders
  <2> QED
    BY <1>3, <2>1, <2>2 DEF Holders
<1>7. CASE \E a \in Amounts : RecordPaymentRead(h, i, a)
  <2> PICK a \in Amounts : RecordPaymentRead(h, i, a)
    BY <1>7
  <2> DEFINE r == [Holding("recordPayment", i) EXCEPT !.amt = a]
  <2>1. /\ r \in Flight /\ r.pc = "recordPayment" /\ r.inv = i /\ r.snap = invoice[i]
        /\ r.amt > 0
    BY <1>4, LedgerAssumption DEF Holders
  <2>2. Moves(h, r) /\ invoice[i].status # "PAID"
    BY DEF RecordPaymentRead, Unlocked, Locked
  <2> HIDE DEF r
  <2> QED
    BY <1>3, <2>1, <2>2 DEF Holders
<1>8. CASE \E days \in {0, 3, 7, 14}, pastDue \in BOOLEAN : ScanRead(h, i, days, pastDue)
  <2> PICK days \in {0, 3, 7, 14}, pastDue \in BOOLEAN : ScanRead(h, i, days, pastDue)
    BY <1>8
  <2> DEFINE n == NextReminder(invoice[i], days)
             o == pastDue /\ invoice[i].status # "OVERDUE"
             f == Holding("scan", i)
             r == [f EXCEPT !.amt = n, !.overdue = o]
  <2>1. n \in Int /\ o \in BOOLEAN
    BY DEF NextReminder
  <2>2. f \in Flight /\ f.pc = "scan" /\ f.inv = i /\ f.snap = invoice[i]
    BY <1>4 DEF Holders
  <2>3. Moves(h, r) /\ invoice[i].status # "PAID"
    BY DEF ScanRead, Scanned, FollowUp
  <2> HIDE DEF n, o, f
  <2>4. r \in Flight /\ r.pc = "scan" /\ r.inv = i /\ r.snap = invoice[i]
    BY <2>1, <2>2 DEF Flight
  <2> HIDE DEF r
  <2> QED
    BY <1>3, <2>3, <2>4 DEF Holders
<1> QED
  BY <1>5, <1>6, <1>7, <1>8

LEMMA UpdateWriteSerial ==
  ASSUME ConcurrentInv, NEW h \in Handlers, SerialInv(h), UpdateWrite(h)
  PROVE  SerialInv(h)' /\ PaidAlone
<1> DEFINE i   == req[h].inv
           d   == Due(req[h].amt, req[h].snap.paid)
           row == [invoice[i] EXCEPT !.total = req[h].amt, !.due = d]
<1>1. req[h].pc = "update" /\ Becomes(h, Syncing)
      /\ UNCHANGED <<ledger, credited, intents, recorded, revenue, aborts>>
  BY DEF UpdateWrite, WritesRow
<1>2. /\ i \in Invoices /\ invoice[i] \in Row /\ invoice[i] = req[h].snap /\ Present(i)
      /\ invoice[i].status # "PAID" /\ RowSound(invoice[i], ledger[i])
  BY <1>1, HeldRow DEF Holders
<1>3. req[h].amt \in Int /\ d \in Int
  BY <1>2, InFlight DEF Flight, Row, Due
<1>4. d = Due(req[h].amt, invoice[i].paid)
  BY <1>2
<1> HIDE DEF d
<1>5. /\ row \in Row /\ row.status = invoice[i].status /\ row.paid = invoice[i].paid
      /\ row.total = req[h].amt /\ row.due = d
  BY <1>2, <1>3 DEF Row
<1>6. invoice' = [invoice EXCEPT ![i] = row]
  BY <1>2 DEF UpdateWrite, WritesRow, ConcurrentInv, TypeOK, Edited, d
<1> HIDE DEF row
<1>7. RowSound(row, ledger'[i])
  BY <1>1, <1>2, <1>4, <1>5 DEF RowSound, Present
<1>8. Syncing \in Flight /\ Syncing.pc = "sync"
  BY IdleType DEF Flight, Pcs, Syncing
<1>9. AccountedNext(Syncing) /\ \A p \in Intents : IntentSound(intents'[p])
  BY <1>1, AccountsKept DEF SerialInv, TablesSound
<1> QED
  BY <1>1, <1>2, <1>5, <1>6, <1>7, <1>8, <1>9, SerialWrite, PaidKept

LEMMA RemoveWriteSerial ==
  ASSUME ConcurrentInv, NEW h \in Handlers, SerialInv(h), RemoveWrite(h)
  PROVE  SerialInv(h)' /\ PaidAlone
<1> DEFINE i   == req[h].inv
           row == [NoRow EXCEPT !.status = "DELETED"]
<1>1. req[h].pc = "remove" /\ Becomes(h, Syncing)
      /\ invoice' = [invoice EXCEPT ![i] = row] /\ ledger' = [ledger EXCEPT ![i] = 0]
      /\ UNCHANGED <<credited, intents, recorded, revenue, aborts>>
  BY DEF RemoveWrite, WritesRow
<1>2. i \in Invoices /\ invoice[i].status # "PAID"
  BY <1>1, HeldRow DEF Holders
<1>3. row \in Row /\ row.status = "DELETED"
  BY NoRowType DEF Row, NoRow, NoRowStatus
<1> HIDE DEF row
<1>4. ledger'[i] = 0 /\ \A j \in Invoices : j # i => ledger'[j] = ledger[j]
  BY <1>1, <1>2 DEF ConcurrentInv, TypeOK
<1>5. RowSound(row, ledger'[i])
  BY <1>3, <1>4 DEF RowSound, NoRowStatus
<1>6. Syncing \in Flight /\ Syncing.pc = "sync"
  BY IdleType DEF Flight, Pcs, Syncing
<1>7. AccountedNext(Syncing) /\ \A p \in Intents : IntentSound(intents'[p])
  BY <1>1, AccountsKept DEF SerialInv, TablesSound
<1> QED
  BY <1>1, <1>2, <1>3, <1>4, <1>5, <1>6, <1>7, SerialWrite, PaidKept

(* A write of the held row that leaves its balance and ends the handler. *)
LEMMA PlainWriteSerial ==
  ASSUME ConcurrentInv, NEW h \in Handlers, SerialInv(h), req[h].pc \in Holders,
         NEW row \in Row, invoice' = [invoice EXCEPT ![req[h].inv] = row], Becomes(h, Idle),
         row.status \in InvoiceStatus \ {"PAID", "VOID"},
         row.total = invoice[req[h].inv].total, row.paid = invoice[req[h].inv].paid,
         row.due = invoice[req[h].inv].due,
         UNCHANGED <<ledger, credited, recorded, revenue, aborts>>,
         \A p \in Intents : IntentSound(intents'[p])
  PROVE  SerialInv(h)' /\ PaidAlone
<1> DEFINE i == req[h].inv
<1>1. /\ i \in Invoices /\ Present(i) /\ invoice[i].status # "PAID"
      /\ RowSound(invoice[i], ledger[i])
  BY HeldRow
<1>2. row.status \notin NoRowStatus
  BY DEF InvoiceStatus, NoRowStatus
<1>3. RowSound(row, ledger'[i])
  BY <1>1, <1>2 DEF RowSound, Present
<1>4. Idle \in Flight /\ Idle.pc = "idle"
  BY IdleType
<1>5. AccountedNext(Idle) /\ req[h].pc \notin Syncs
  BY AccountsKept DEF Holders, Syncs
<1> QED
  BY <1>1, <1>2, <1>3, <1>4, <1>5, SerialWrite, PaidKept

LEMMA SendWriteSerial ==
  ASSUME ConcurrentInv, NEW h \in Handlers, SerialInv(h), SendWrite(h)
  PROVE  SerialInv(h)' /\ PaidAlone
<1> DEFINE i   == req[h].inv
           st  == StatusSent(req[h].snap)
           row == [invoice[i] EXCEPT !.status = st, !.sent = TRUE]
<1>1. req[h].pc = "send" /\ Becomes(h, Idle)
      /\ UNCHANGED <<ledger, credited, intents, recorded, revenue, aborts>>
  BY DEF SendWrite, WritesRow
<1>2. /\ i \in Invoices /\ invoice[i] \in Row /\ invoice[i] = req[h].snap /\ Present(i)
      /\ invoice[i].status \notin {"PAID", "VOID"}
  BY <1>1, HeldRow DEF Holders, RowSound, Present
<1>3. st \in InvoiceStatus \ {"PAID", "VOID"}
  BY <1>2 DEF StatusSent, Row, InvoiceStatus, Present
<1> HIDE DEF st
<1>4. /\ row \in Row /\ row.status = st /\ row.paid = invoice[i].paid
      /\ row.total = invoice[i].total /\ row.due = invoice[i].due
  BY <1>2, <1>3 DEF Row
<1>5. invoice' = [invoice EXCEPT ![i] = row]
  BY <1>2 DEF SendWrite, WritesRow, ConcurrentInv, TypeOK, st
<1> HIDE DEF row
<1>6. \A p \in Intents : IntentSound(intents'[p])
  BY <1>1 DEF SerialInv, TablesSound
<1> QED
  BY <1>1, <1>3, <1>4, <1>5, <1>6, PlainWriteSerial DEF Holders

LEMMA ScanWriteSerial ==
  ASSUME ConcurrentInv, NEW h \in Handlers, SerialInv(h), ScanWrite(h)
  PROVE  SerialInv(h)' /\ PaidAlone
<1> DEFINE i   == req[h].inv
           st  == IF req[h].overdue THEN "OVERDUE" ELSE invoice[i].status
           n   == IF req[h].amt > 0 THEN req[h].amt ELSE invoice[i].followUp
           row == [invoice[i] EXCEPT !.status = st, !.followUp = n]
<1>1. req[h].pc = "scan" /\ Becomes(h, Idle)
      /\ UNCHANGED <<ledger, credited, intents, recorded, revenue, aborts>>
  BY DEF ScanWrite, WritesRow
<1>2. /\ i \in Invoices /\ invoice[i] \in Row /\ Present(i)
      /\ invoice[i].status \notin {"PAID", "VOID"}
  BY <1>1, HeldRow DEF Holders, RowSound, Present
<1>3. st \in InvoiceStatus \ {"PAID", "VOID"}
  BY <1>2 DEF Row, InvoiceStatus, Present
<1>4. n \in 0..3
  BY <1>1, <1>2 DEF ConcurrentInv, ArgumentsOK, Row
<1> HIDE DEF st, n
<1>5. /\ row \in Row /\ row.status = st /\ row.paid = invoice[i].paid
      /\ row.total = invoice[i].total /\ row.due = invoice[i].due
  BY <1>2, <1>3, <1>4 DEF Row
<1>6. invoice' = [invoice EXCEPT ![i] = row]
  BY <1>2 DEF ScanWrite, WritesRow, ConcurrentInv, TypeOK, st, n
<1> HIDE DEF row
<1>7. \A p \in Intents : IntentSound(intents'[p])
  BY <1>1 DEF SerialInv, TablesSound
<1> QED
  BY <1>1, <1>3, <1>5, <1>6, <1>7, PlainWriteSerial DEF Holders

LEMMA LinkIntentSerial ==
  ASSUME ConcurrentInv, NEW h \in Handlers, SerialInv(h), LinkIntent(h)
  PROVE  SerialInv(h)' /\ PaidAlone
<1> DEFINE i   == req[h].inv
           p   == req[h].pi
           row == [invoice[i] EXCEPT !.intent = p]
<1>1. req[h].pc = "linkIntent" /\ Becomes(h, Idle) /\ p \in Intents
      /\ UNCHANGED <<ledger, credited, recorded, revenue, aborts>>
  BY DEF LinkIntent, WritesRow, ConcurrentInv, DeliveriesPaid
<1>2. /\ i \in Invoices /\ invoice[i] \in Row /\ Present(i)
      /\ invoice[i].status \notin {"PAID", "VOID"}
  BY <1>1, HeldRow DEF Holders, RowSound, Present
<1>3. /\ row \in Row /\ row.status = invoice[i].status /\ row.paid = invoice[i].paid
      /\ row.total = invoice[i].total /\ row.due = invoice[i].due
      /\ row.status \in InvoiceStatus \ {"PAID", "VOID"}
  BY <1>1, <1>2 DEF Row, Present
<1>4. invoice' = [invoice EXCEPT ![i] = row]
  BY <1>2 DEF LinkIntent, WritesRow, ConcurrentInv, TypeOK
<1> HIDE DEF row
<1>5. \A q \in Intents : IntentSound(intents'[q])
  BY <1>1 DEF LinkIntent, SerialInv, TablesSound, IntentSound, ConcurrentInv, TypeOK
<1> QED
  BY <1>1, <1>3, <1>4, <1>5, PlainWriteSerial DEF Holders

(* A payment of a positive amount on the held row. *)
LEMMA PaymentSerial ==
  ASSUME ConcurrentInv, NEW h \in Handlers, SerialInv(h), req[h].pc \in Holders,
         NEW amt \in Nat, amt > 0, NEW r \in Flight, Becomes(h, r), r.pc \in {"idle", "record"},
         invoice' = [invoice EXCEPT ![req[h].inv] = WithPayment(invoice[req[h].inv], req[h].snap, amt)],
         PaymentInserted(req[h].inv, amt), UNCHANGED <<intents, revenue, aborts>>,
         AccountedNext(r)
  PROVE  SerialInv(h)' /\ PaidAlone
<1> DEFINE i       == req[h].inv
           snap    == req[h].snap
           newPaid == snap.paid + amt
           due     == Due(snap.total, newPaid)
           status  == StatusAfterPayment(snap.total, newPaid)
           row     == [invoice[i] EXCEPT !.paid = newPaid, !.due = due, !.status = status]
<1>1. /\ i \in Invoices /\ snap \in Row /\ snap = invoice[i] /\ Present(i)
      /\ snap.status # "PAID" /\ RowSound(snap, ledger[i])
  BY HeldRow
<1>2. newPaid \in Nat /\ snap.total \in Int /\ snap.paid \in Nat /\ newPaid > 0
  BY <1>1 DEF Row
<1>3. due \in Int /\ status \in {"PAID", "PARTIAL"}
  BY <1>2 DEF Due, StatusAfterPayment
<1>4. invoice' = [invoice EXCEPT ![i] = row]
  BY DEF WithPayment
<1>5. newPaid = ledger[i] + amt
  BY <1>1 DEF RowSound, Present
<1>6. due = Due(invoice[i].total, newPaid)
  BY <1>1
<1> HIDE DEF newPaid, due, status
<1>7. /\ row \in Row /\ row.status = status /\ row.paid = newPaid /\ row.due = due
      /\ row.total = invoice[i].total
  BY <1>1, <1>2, <1>3 DEF Row, InvoiceStatus
<1> HIDE DEF row
<1>8. ledger'[i] = ledger[i] + amt /\ \A j \in Invoices : j # i => ledger'[j] = ledger[j]
  BY <1>1 DEF PaymentInserted, ConcurrentInv, TypeOK
<1>9. RowSound(row, ledger'[i])
  BY <1>2, <1>3, <1>5, <1>6, <1>7, <1>8 DEF RowSound, NoRowStatus
<1>10. row.status \notin NoRowStatus /\ req[h].pc \notin Syncs
  BY <1>3, <1>7 DEF NoRowStatus, Holders, Syncs
<1>11. \A p \in Intents : IntentSound(intents'[p])
  BY DEF SerialInv, TablesSound
<1>12. invoice[i].status # "PAID" /\ r.pc \in {"idle", "sync", "record"}
  BY <1>1
<1>13. PaidAlone
  BY <1>1, <1>4, <1>12, PaidKept
<1>14. SerialInv(h)'
  BY <1>1, <1>4, <1>7, <1>8, <1>9, <1>10, <1>11, <1>12, SerialWrite
<1> QED
  BY <1>13, <1>14

LEMMA RecordPaymentCommitSerial ==
  ASSUME ConcurrentInv, NEW h \in Handlers, SerialInv(h), RecordPaymentCommit(h)
  PROVE  SerialInv(h)' /\ PaidAlone
<1>1. /\ req[h].pc = "recordPayment" /\ Becomes(h, Idle)
      /\ UNCHANGED <<credited, intents, recorded, revenue, aborts>>
  BY DEF RecordPaymentCommit, WritesRow
<1>2. req[h].amt \in Nat /\ req[h].amt > 0
  BY <1>1 DEF SerialInv, Fresh, ConcurrentInv, ArgumentsOK
<1>3. AccountedNext(Idle)
  BY <1>1, AccountsKept
<1> QED
  BY <1>1, <1>2, <1>3, IdleType, PaymentSerial DEF RecordPaymentCommit, WritesRow, Holders

LEMMA WebhookCreditSerial ==
  ASSUME ConcurrentInv, NEW h \in Handlers, SerialInv(h), WebhookCredit(h)
  PROVE  SerialInv(h)' /\ PaidAlone
<1> DEFINE p == req[h].pi
           r == [Idle EXCEPT !.pc = "record", !.pi = p]
<1>1. /\ req[h].pc = "credit" /\ Becomes(h, r) /\ credited' = [credited EXCEPT ![p] = @ + 1]
      /\ UNCHANGED <<intents, recorded, revenue, aborts>>
  BY DEF WebhookCredit, WritesRow
<1>2. p \in Intents /\ p \notin recorded /\ intents[p].status = "succeeded"
  BY <1>1 DEF SerialInv, Fresh, ConcurrentInv, DeliveriesPaid
<1>3. intents[p].amount \in Nat /\ intents[p].amount > 0
  BY <1>2 DEF SerialInv, TablesSound, IntentSound, ConcurrentInv, TypeOK
<1>4. r \in Flight /\ r.pc = "record" /\ r.pi = p
  BY <1>2, IdleType DEF Flight, Pcs
<1> HIDE DEF r
<1>5. AccountedNext(r)
  <2>1. \A q \in Intents : credited[q] \in Nat /\ aborts \in Nat
    BY LedgerAssumption DEF ConcurrentInv, TypeOK
  <2>2. \A q \in Intents : credited'[q] = IF q = p THEN credited[q] + 1 ELSE credited[q]
    BY <1>1, <1>2 DEF ConcurrentInv, TypeOK
  <2>3. \A q \in Intents : credited[q] <= aborts + IF q \in recorded THEN 1 ELSE 0
    BY <1>1 DEF SerialInv, Accounted
  <2> QED
    BY <1>1, <1>2, <1>4, <2>1, <2>2, <2>3 DEF AccountedNext
<1> QED
  BY <1>1, <1>3, <1>4, <1>5, PaymentSerial DEF WebhookCredit, WritesRow, Holders

LEMMA WebhookDeliverSerial ==
  ASSUME ConcurrentInv, NEW h \in Handlers, SerialInv(h), NEW p \in Intents, WebhookDeliver(h, p)
  PROVE  SerialInv(h)' /\ PaidAlone
<1> DEFINE r == [Idle EXCEPT !.pc = "lookup", !.pi = p]
<1>1. r \in Flight /\ r.pc = "lookup" /\ r.pi = p
  BY IdleType DEF Flight, Pcs
<1>2. Moves(h, r) /\ p \notin recorded /\ req[h].pc = "idle"
  BY DEF WebhookDeliver, Deliverable, Starts
<1> HIDE DEF r
<1>3. Fresh(r)
  BY <1>1, <1>2 DEF Fresh, Holders
<1>4. PaidAlone
  BY <1>2 DEF PaidAlone, Moves, tables
<1> QED
  BY <1>1, <1>2, <1>3, <1>4, SerialMove DEF Syncs

LEMMA WebhookLookupSerial ==
  ASSUME ConcurrentInv, NEW h \in Handlers, SerialInv(h), WebhookLookup(h)
  PROVE  SerialInv(h)' /\ PaidAlone
<1> DEFINE p == req[h].pi
<1>1. req[h].pc = "lookup" /\ p \in Intents /\ p \notin recorded /\ req[h] \in Flight
  BY InFlight DEF WebhookLookup, SerialInv, Fresh, ConcurrentInv, DeliveriesPaid
<1>2. PaidAlone
  BY DEF WebhookLookup, Moves, tables, PaidAlone
<1>3. CASE \E i \in PayableBy(p) : Moves(h, [Holding("credit", i) EXCEPT !.pi = p])
  <2>1. PICK i \in PayableBy(p) : Moves(h, [Holding("credit", i) EXCEPT !.pi = p])
    BY <1>3
  <2> DEFINE r == [Holding("credit", i) EXCEPT !.pi = p]
  <2>2. i \in Invoices /\ Present(i) /\ invoice[i].status # "PAID"
    BY DEF PayableBy
  <2>3. /\ Holding("credit", i) \in Flight /\ Holding("credit", i).pc = "credit"
        /\ Holding("credit", i).inv = i /\ Holding("credit", i).snap = invoice[i]
    BY <2>2, HoldingType DEF Pcs, ConcurrentInv
  <2>4. r \in Flight /\ r.pc = "credit" /\ r.pi = p /\ r.inv = i /\ r.snap = invoice[i]
    BY <1>1, <2>3 DEF Flight
  <2>5. Moves(h, r)
    BY <2>1
  <2> HIDE DEF r
  <2>6. Fresh(r)
    BY <1>1, <2>2, <2>4 DEF Fresh, Holders, Present
  <2> QED
    BY <1>1, <1>2, <2>4, <2>5, <2>6, SerialMove DEF Syncs
<1>4. CASE Moves(h, [req[h] EXCEPT !.pc = "record"])
  <2> DEFINE r == [req[h] EXCEPT !.pc = "record"]
  <2>1. r \in Flight /\ r.pc = "record" /\ Moves(h, r)
    BY <1>1, <1>4 DEF Flight, Pcs
  <2> HIDE DEF r
  <2>2. Fresh(r)
    BY <2>1 DEF Fresh, Holders
  <2> QED
    BY <1>1, <1>2, <2>1, <2>2, SerialMove DEF Syncs
<1> QED
  BY <1>3, <1>4 DEF WebhookLookup

LEMMA WebhookRecordSerial ==
  ASSUME ConcurrentInv, NEW h \in Handlers, SerialInv(h), WebhookRecord(h)
  PROVE  SerialInv(h)' /\ PaidAlone
<1>1. /\ req[h].pc = "record" /\ Becomes(h, Idle) /\ recorded' = recorded \cup {req[h].pi}
      /\ UNCHANGED <<invoice, ledger, credited, intents, revenue, aborts>> /\ Books' = Books
  BY DEF WebhookRecord, Books, Present
<1>2. TablesSound' /\ PaidAlone
  BY <1>1 DEF SerialInv, TablesSound, RowSound, PaidAlone
<1>3. FreshNext(Idle) /\ SyncedNext(Idle)
  BY <1>1, IdleType DEF FreshNext, Holders, SerialInv, Synced, SyncedNext, Syncs
<1>4. AccountedNext(Idle)
  <2>1. \A q \in Intents : credited[q] \in Nat /\ aborts \in Nat
    BY LedgerAssumption DEF ConcurrentInv, TypeOK
  <2> QED
    BY <1>1, <2>1, IdleType DEF SerialInv, Accounted, AccountedNext
<1> QED
  BY <1>1, <1>2, <1>3, <1>4, IdleType, SerialStep

LEMMA SyncReadSerial ==
  ASSUME ConcurrentInv, NEW h \in Handlers, SerialInv(h), SyncRead(h)
  PROVE  SerialInv(h)' /\ PaidAlone
<1> DEFINE rev == [i \in Invoices |-> IF Present(i) /\ invoice[i].status # "VOID"
                                        THEN invoice[i].total ELSE 0]
           r   == [Idle EXCEPT !.pc = "syncWrite", !.rev = rev]
<1>1. rev \in [Invoices -> Int]
  BY DEF ConcurrentInv, TypeOK, Row
<1>2. rev = Books
  <2>1. \A i \in Invoices : Present(i) => invoice[i].status # "VOID"
    BY DEF SerialInv, TablesSound, RowSound, Present
  <2> QED
    BY <2>1 DEF Books
<1>3. req[h].pc = "sync" /\ Moves(h, r)
  BY DEF SyncRead
<1> HIDE DEF rev
<1>4. r \in Flight /\ r.pc = "syncWrite" /\ r.rev = Books
  BY <1>1, <1>2, IdleType DEF Flight, Pcs
<1> HIDE DEF r
<1>5. Fresh(r)
  BY <1>4 DEF Fresh, Holders
<1>6. PaidAlone
  BY <1>3 DEF PaidAlone, Moves, tables
<1> QED
  BY <1>3, <1>4, <1>5, <1>6, SerialMove DEF Syncs

LEMMA SyncWriteSerial ==
  ASSUME ConcurrentInv, NEW h \in Handlers, SerialInv(h), SyncWrite(h)
  PROVE  SerialInv(h)' /\ PaidAlone
<1>1. /\ req[h].pc = "syncWrite" /\ Becomes(h, Idle) /\ revenue' = Books
      /\ UNCHANGED <<invoice, ledger, credited, intents, recorded, aborts>> /\ Books' = Books
  BY DEF SyncWrite, SerialInv, Fresh, Books, Present
<1>2. TablesSound' /\ PaidAlone
  BY <1>1 DEF SerialInv, TablesSound, RowSound, PaidAlone
<1>3. FreshNext(Idle) /\ SyncedNext(Idle)
  BY <1>1, IdleType DEF FreshNext, Holders, SyncedNext
<1>4. AccountedNext(Idle)
  BY <1>1, AccountsKept
<1> QED
  BY <1>1, <1>2, <1>3, <1>4, IdleType, SerialStep

(* The handler ends without writing; the held row being there, RowGone     *)
(* does not happen.                                                        *)
LEMMA EndsSerial ==
  ASSUME ConcurrentInv, NEW h \in Handlers, SerialInv(h),
         CreateIntentReuse(h) \/ CreateIntentRefused(h) \/ RowGone(h)
  PROVE  SerialInv(h)' /\ PaidAlone
<1>1. Moves(h, Idle) /\ req[h].pc \in Holders
  BY DEF CreateIntentReuse, CreateIntentRefused, RowGone, Holders
<1>2. Fresh(Idle)
  BY IdleType DEF Fresh, Holders
<1>3. PaidAlone
  BY <1>1 DEF PaidAlone, Moves, tables
<1> QED
  BY <1>1, <1>2, <1>3, IdleType, SerialMove DEF Holders, Syncs

(* A handler that dies leaves at most a credit that is not recorded, or a  *)
(* job that is not synced.                                                 *)
LEMMA AbortSerial ==
  ASSUME ConcurrentInv, NEW h \in Handlers, SerialInv(h), Abort(h)
  PROVE  SerialInv(h)' /\ PaidAlone
<1>1. /\ Becomes(h, Idle) /\ aborts' = aborts + 1 /\ aborts \in Nat
      /\ UNCHANGED <<invoice, ledger, credited, intents, recorded, revenue>> /\ Books' = Books
  BY LedgerAssumption DEF Abort, Books, Present, ConcurrentInv, TypeOK
<1>2. TablesSound' /\ PaidAlone
  BY <1>1 DEF SerialInv, TablesSound, RowSound, PaidAlone
<1>3. FreshNext(Idle) /\ SyncedNext(Idle)
  BY <1>1, IdleType DEF FreshNext, Holders, SyncedNext
<1>4. AccountedNext(Idle)
  <2>1. \A q \in Intents : credited[q] \in Nat
    BY DEF ConcurrentInv, TypeOK
  <2> QED
    BY <1>1, <2>1 DEF SerialInv, Accounted, AccountedNext
<1> QED
  BY <1>1, <1>2, <1>3, <1>4, IdleType, SerialStep

LEMMA CreateIntentAtStripeSerial ==
  ASSUME ConcurrentInv, NEW h \in Handlers, SerialInv(h), NEW p \in Intents,
         CreateIntentAtStripe(h, p)
  PROVE  SerialInv(h)' /\ PaidAlone
<1> DEFINE r == [req[h] EXCEPT !.pc = "linkIntent", !.pi = p]
           x == [status |-> "created", amount |-> req[h].snap.due, inv |-> req[h].inv]
<1>1. /\ req[h].pc = "createIntent" /\ req[h].snap.due > 0 /\ Becomes(h, r)
      /\ intents' = [intents EXCEPT ![p] = x]
      /\ UNCHANGED <<invoice, ledger, credited, recorded, revenue, aborts>> /\ Books' = Books
  BY DEF CreateIntentAtStripe, Books, Present
<1>2. /\ r \in Flight /\ r.pc = "linkIntent" /\ r.inv = req[h].inv /\ r.snap = req[h].snap
  BY InFlight DEF Flight, Pcs
<1>3. IntentSound(x)
  BY <1>1 DEF IntentSound
<1> HIDE DEF r, x
<1>4. \A q \in Intents : IntentSound(intents'[q])
  <2>1. \A q \in Intents : intents'[q] = IF q = p THEN x ELSE intents[q]
    BY <1>1 DEF ConcurrentInv, TypeOK
  <2> QED
    BY <1>3, <2>1 DEF SerialInv, TablesSound
<1>5. TablesSound' /\ PaidAlone
  BY <1>1, <1>4 DEF SerialInv, TablesSound, RowSound, IntentSound, PaidAlone
<1>6. FreshNext(r)
  BY <1>1, <1>2 DEF SerialInv, Fresh, FreshNext, Holders
<1>7. SyncedNext(r) /\ AccountedNext(r)
  BY <1>1, <1>2, AccountsKept DEF SerialInv, Synced, SyncedNext, Syncs
<1> QED
  BY <1>1, <1>2, <1>5, <1>6, <1>7, SerialStep

(* Stripe's side moves on: no handler does. *)
LEMMA CustomerSerial ==
  ASSUME ConcurrentInv, NEW h \in Handlers, SerialInv(h), NEW p \in Intents,
         CustomerPays(p) \/ StripeCancels(p)
  PROVE  SerialInv(h)' /\ PaidAlone
<1>1. PICK st \in {"succeeded", "canceled"} :
        /\ intents' = [intents EXCEPT ![p].status = st] /\ intents[p].status # "unused"
        /\ UNCHANGED <<invoice, ledger, credited, recorded, revenue, req, aborts>>
  BY DEF CustomerPays, StripeCancels, IntentBecomes
<1>2. \A q \in Intents : IntentSound(intents'[q])
  BY <1>1 DEF SerialInv, TablesSound, IntentSound, ConcurrentInv, TypeOK
<1>3. TablesSound' /\ PaidAlone /\ Books' = Books
  BY <1>1, <1>2 DEF SerialInv, TablesSound, RowSound, IntentSound, PaidAlone, Books, Present
<1>4. OthersIdle(h)' /\ Fresh(req[h])' /\ Accounted(req[h])' /\ Synced(req[h])'
  BY <1>1, <1>3 DEF SerialInv, OthersIdle, Fresh, Accounted, Synced
<1> QED
  BY <1>3, <1>4 DEF SerialInv

-----------------------------------------------------------------------------
(* Of the slots, only the first is ever in use in the serial scenario. *)
LEMMA SerialSlot ==
  ASSUME ConcurrentInv, NEW h \in Handlers, OthersIdle(FirstHandler), Serial,
         \/ Resume(h) \/ Abort(h)
         \/ \E i \in Invoices : Request(h, i)
         \/ \E p \in Intents : WebhookDeliver(h, p)
  PROVE  h = FirstHandler
<1> SUFFICES ASSUME h # FirstHandler
             PROVE  FALSE
  OBVIOUS
<1>1. req[h].pc = "idle" /\ req'[h].pc = "idle"
  BY DEF OthersIdle, Serial
<1>2. ~Resume(h) /\ ~Abort(h)
  BY <1>1 DEF Resume, Abort, UpdateWrite, RemoveWrite, SyncRead, SyncWrite, SendWrite,
     RecordPaymentCommit, CreateIntentReuse, CreateIntentRefused, LinkIntent,
     CreateIntentAtStripe, WebhookStep, WebhookLookup, WebhookCredit, WebhookRecord, ScanWrite,
     RowGone, WritesRow
<1>3. ASSUME NEW r \in Flight, Becomes(h, r), r.pc # "idle"
      PROVE  FALSE
  BY <1>1, <1>3 DEF Becomes, ConcurrentInv, TypeOK
<1>4. ASSUME NEW i \in Invoices, Request(h, i)
      PROVE  FALSE
  <2>1. ASSUME NEW pc \in Pcs
        PROVE  /\ Holding(pc, i) \in Flight /\ Holding(pc, i).pc = pc
               /\ \A a \in Int, o \in BOOLEAN :
                    /\ [Holding(pc, i) EXCEPT !.amt = a] \in Flight
                    /\ [Holding(pc, i) EXCEPT !.amt = a].pc = pc
                    /\ [Holding(pc, i) EXCEPT !.amt = a, !.overdue = o] \in Flight
                    /\ [Holding(pc, i) EXCEPT !.amt = a, !.overdue = o].pc = pc
    <3>1. Holding(pc, i) \in Flight /\ Holding(pc, i).pc = pc
      BY HoldingType DEF ConcurrentInv
    <3> QED
      BY <3>1 DEF Flight
  <2>2. {"update", "remove", "send", "createIntent", "recordPayment", "scan"} \subseteq Pcs
    BY DEF Pcs
  <2>3. Syncing \in Flight /\ Syncing.pc = "sync"
    BY IdleType DEF Flight, Pcs, Syncing
  <2>4. ASSUME NEW t \in Totals, Create(h, i, t) \/ UpdateRead(h, i, t)
        PROVE  FALSE
    BY <1>3, <2>1, <2>2, <2>3, <2>4, LedgerAssumption DEF Create, UpdateRead, Moves
  <2>5. ASSUME RemoveRead(h, i) \/ SendRead(h, i) \/ CreateIntentRead(h, i)
        PROVE  FALSE
    BY <1>3, <2>1, <2>2, <2>5 DEF RemoveRead, SendRead, CreateIntentRead, Moves
  <2>6. ASSUME NEW a \in Amounts, RecordPaymentRead(h, i, a)
        PROVE  FALSE
    <3>1. a \in Int /\ "recordPayment" \in Pcs
      BY <2>2, LedgerAssumption
    <3>2. Becomes(h, [Holding("recordPayment", i) EXCEPT !.amt = a])
      BY <2>6 DEF RecordPaymentRead, Moves
    <3> QED
      BY <1>3, <2>1, <3>1, <3>2
  <2>7. ASSUME NEW days \in {0, 3, 7, 14}, NEW pastDue \in BOOLEAN, ScanRead(h, i, days, pastDue)
        PROVE  FALSE
    <3> DEFINE n == NextReminder(invoice[i], days)
               o == pastDue /\ invoice[i].status # "OVERDUE"
    <3>1. n \in Int /\ o \in BOOLEAN
      BY DEF NextReminder
    <3>2. Becomes(h, [Holding("scan", i) EXCEPT !.amt = n, !.overdue = o])
      BY <2>7 DEF ScanRead, Moves
    <3> HIDE DEF n, o
    <3> QED
      BY <1>3, <2>1, <2>2, <3>1, <3>2
  <2> QED
    BY <1>4, <2>4, <2>5, <2>6, <2>7 DEF Request
<1>5. ASSUME NEW p \in Intents, WebhookDeliver(h, p)
      PROVE  FALSE
  <2> DEFINE r == [Idle EXCEPT !.pc = "lookup", !.pi = p]
  <2>1. r \in Flight /\ r.pc = "lookup"
    BY IdleType DEF Flight, Pcs
  <2> QED
    BY <1>3, <1>5, <2>1 DEF WebhookDeliver, Moves
<1> QED
  BY <1>2, <1>4, <1>5

LEMMA SerialNext ==
  ASSUME ConcurrentInv, SerialInv(FirstHandler), Next, Serial
  PROVE  SerialInv(FirstHandler)' /\ PaidAlone
<1> DEFINE f == FirstHandler
<1>1. f \in Handlers
  BY LedgerAssumption DEF FirstHandler
<1>2. OthersIdle(f)
  BY DEF SerialInv
<1> HIDE DEF f
<1>3. ASSUME NEW h \in Handlers, Resume(h) \/ Abort(h)
      PROVE  SerialInv(f)' /\ PaidAlone
  <2>1. h = f
    BY <1>2, <1>3, SerialSlot DEF f
  <2>2. SerialInv(f)
    BY DEF f
  <2> QED
    BY <1>1, <1>3, <2>1, <2>2, UpdateWriteSerial, RemoveWriteSerial, SyncReadSerial,
       SyncWriteSerial, SendWriteSerial, RecordPaymentCommitSerial, EndsSerial,
       LinkIntentSerial, CreateIntentAtStripeSerial, WebhookLookupSerial,
       WebhookCreditSerial, WebhookRecordSerial, ScanWriteSerial, AbortSerial
    DEF Resume, WebhookStep
<1>4. ASSUME NEW h \in Handlers, NEW i \in Invoices, Request(h, i)
      PROVE  SerialInv(f)' /\ PaidAlone
  <2>1. h = f
    BY <1>2, <1>4, SerialSlot DEF f
  <2>2. SerialInv(f)
    BY DEF f
  <2> QED
    BY <1>1, <1>4, <2>1, <2>2, CreateSerial, ReadSerial DEF Request
<1>5. ASSUME NEW h \in Handlers, NEW p \in Intents, WebhookDeliver(h, p)
      PROVE  SerialInv(f)' /\ PaidAlone
  <2>1. h = f
    BY <1>2, <1>5, SerialSlot DEF f
  <2>2. SerialInv(f)
    BY DEF f
  <2> QED
    BY <1>1, <1>5, <2>1, <2>2, WebhookDeliverSerial
<1>6. ASSUME NEW p \in Intents, CustomerPays(p) \/ StripeCancels(p)
      PROVE  SerialInv(f)' /\ PaidAlone
  BY <1>1, <1>6, CustomerSerial DEF f
<1>7. SerialInv(f)' /\ PaidAlone
  BY <1>3, <1>4, <1>5, <1>6 DEF Next, Stripe
<1> QED
  BY <1>7 DEF f

LEMMA SerialInit == Init => SerialInv(FirstHandler)
<1> SUFFICES ASSUME Init PROVE SerialInv(FirstHandler)
  OBVIOUS
<1>1. FirstHandler \in Handlers
  BY LedgerAssumption DEF FirstHandler
<1>2. \A h \in Handlers : req[h] = Idle
  BY DEF Init
<1>3. TablesSound
  BY DEF Init, TablesSound, RowSound, NoRow, NoRowStatus, IntentSound
<1>4. OthersIdle(FirstHandler) /\ Fresh(Idle)
  BY <1>2, IdleType DEF OthersIdle, Fresh, Holders
<1>5. Accounted(Idle)
  BY DEF Init, Accounted
<1>6. Books = NoRevenue
  BY DEF Init, Books, Present, NoRow, NoRowStatus, NoRevenue
<1>7. Synced(Idle)
  BY <1>6 DEF Init, Synced
<1> QED
  BY <1>1, <1>2, <1>3, <1>4, <1>5, <1>7 DEF SerialInv

(* Both scenarios of the model that TLC checks, for all constants. *)
MCInv == ConcurrentInv /\ (scenario = "serial" => SerialInv(FirstHandler))

LEMMA MCInvariant == MCSpec => []MCInv
<1>1. MCInit => MCInv
  BY InitInv, SerialInit DEF MCInit, MCInv
<1>2. ASSUME MCInv, [MCNext]_<<vars, scenario>> PROVE MCInv'
  <2>1. CASE MCNext
    <3>1. scenario' = scenario /\ Next /\ (scenario = "serial" => Serial)
      BY <2>1 DEF MCNext
    <3> QED
      BY <1>2, <3>1, NextInv, SerialNext DEF MCInv
  <2>2. CASE UNCHANGED <<vars, scenario>>
    <3>1. [Next]_vars /\ scenario' = scenario
      BY <2>2
    <3>2. ConcurrentInv'
      BY <1>2, <3>1, NextInv DEF MCInv
    <3>3. SerialInv(FirstHandler) => SerialInv(FirstHandler)'
      BY <2>2 DEF SerialInv, TablesSound, RowSound, IntentSound, OthersIdle, Fresh, Accounted,
         Synced, Books, Present, vars
    <3> QED
      BY <1>2, <3>1, <3>2, <3>3 DEF MCInv
  <2> QED
    BY <1>2, <2>1, <2>2
<1> QED
  BY <1>1, <1>2, PTL DEF MCSpec

(* With handlers one after the other the balance of an invoice is exactly  *)
(* what its Payment rows add up to, wherever handlers die (recordPayment,  *)
(* onPaymentIntentSucceeded): what was read is still so when it is written.*)
THEOREM LedgerStaysExact == MCSpec => []SerialLedgerExact
<1>1. MCInv => SerialLedgerExact
  BY DEF MCInv, SerialLedgerExact, LedgerExact, SerialInv, TablesSound, RowSound, Present
<1> QED
  BY <1>1, MCInvariant, PTL

(* amountDue is what remains of the total after edits, payments and        *)
(* credits in any order, as long as discounts leave no total negative:     *)
(* update and the payments clip the rest at zero, create does not.         *)
THEOREM DueStaysExact == ASSUME Totals \subseteq Nat PROVE MCSpec => []SerialDueExact
<1>1. MCInv => SerialDueExact
  BY DEF MCInv, SerialDueExact, DueExact, SerialInv, TablesSound, RowSound, Present
<1> QED
  BY <1>1, MCInvariant, PTL

(* A charge is credited once, and once more for each delivery that died    *)
(* between its commit and its record (handleEvent).                        *)
THEOREM CreditsCounted == MCSpec => []SerialCreditsBounded
<1>1. MCInv => SerialCreditsBounded
  <2> SUFFICES ASSUME MCInv, scenario = "serial", NEW p \in Intents
               PROVE  credited[p] <= 1 + aborts
    BY DEF SerialCreditsBounded, CreditsBoundedByAborts
  <2>1. credited[p] \in Nat /\ aborts \in Nat
    BY LedgerAssumption DEF MCInv, ConcurrentInv, TypeOK
  <2>2. Accounted(req[FirstHandler])
    BY DEF MCInv, SerialInv
  <2> QED
    BY <2>1, <2>2 DEF Accounted
<1> QED
  BY <1>1, MCInvariant, PTL

(* While no handler has died, the job's revenue is the sum of its invoices *)
(* whenever no handler is in flight (syncJobFinancials).                   *)
THEOREM RevenueFollows == MCSpec => []SerialRevenueInSync
<1>1. MCInv => SerialRevenueInSync
  <2> SUFFICES ASSUME MCInv, scenario = "serial", aborts = 0, \A h \in Handlers : req[h].pc = "idle"
               PROVE  revenue = Books
    BY DEF SerialRevenueInSync, RevenueInSync, Books
  <2>1. FirstHandler \in Handlers
    BY LedgerAssumption DEF FirstHandler
  <2> QED
    BY <2>1 DEF MCInv, SerialInv, Synced, Syncs
<1> QED
  BY <1>1, MCInvariant, PTL

(* A paid invoice stays paid and keeps its total: no edit, send, scan,     *)
(* payment, removal or late webhook writes it (LOCKED_STATUSES).           *)
THEOREM PaidStaysPaid == MCSpec => SerialPaidIsFinal
<1>1. MCInv /\ [MCNext]_<<vars, scenario>> => [scenario = "serial" => PaidStays]_vars
  <2> SUFFICES ASSUME MCInv, [MCNext]_<<vars, scenario>>, scenario = "serial", ~UNCHANGED vars
               PROVE  PaidStays
    OBVIOUS
  <2>1. Next /\ Serial
    BY DEF MCNext
  <2>2. PaidAlone
    BY <2>1, SerialNext DEF MCInv
  <2> QED
    BY <2>2 DEF PaidAlone, PaidStays
<1> QED
  BY <1>1, MCInvariant, PTL DEF MCSpec, SerialPaidIsFinal
-----------------------------------------------------------------------------
(* What a charge is for, whatever overlaps. *)

(* Intent p was made to collect invoice i. *)
AskedFor(p, i) == intents[p].status # "unused" /\ intents[p].inv = i

AskedNext(p, i) == intents'[p].status # "unused" /\ intents'[p].inv = i

(* A handler carries what it was asked to write, and to the invoice it is  *)
(* for.                                                                    *)
MeantBy(r) ==
  /\ r.pc = "update" => r.amt \in Totals
  /\ r.pc = "recordPayment" => r.amt \in Amounts
  /\ r.pc \in {"linkIntent", "credit"} => AskedFor(r.pi, r.inv)

MeantNext(r) ==
  /\ r.pc = "update" => r.amt \in Totals
  /\ r.pc = "recordPayment" => r.amt \in Amounts
  /\ r.pc \in {"linkIntent", "credit"} => AskedNext(r.pi, r.inv)

Linked(i) == invoice[i].intent # NoIntent => AskedFor(invoice[i].intent, i)

Meant == (\A i \in Invoices : Linked(i)) /\ \A h \in Handlers : MeantBy(req[h])

(* A step of handler h: intents in use stay what they are, the links stay  *)
(* or go to an intent for their invoice.                                   *)
LEMMA MeantStep ==
  ASSUME ConcurrentInv, Meant, NEW h \in Handlers, NEW r \in Flight, Becomes(h, r), MeantNext(r),
         \A p \in Intents, i \in Invoices : AskedFor(p, i) => AskedNext(p, i),
         \A i \in Invoices : \/ invoice'[i].intent \in {invoice[i].intent, NoIntent}
                             \/ AskedNext(invoice'[i].intent, i)
  PROVE  Meant'
<1>1. ASSUME NEW i \in Invoices PROVE Linked(i)'
  <2>1. invoice[i].intent \in Intents \cup {NoIntent} /\ Linked(i)
    BY DEF ConcurrentInv, TypeOK, Row, Meant
  <2> QED
    BY <2>1 DEF Linked, AskedFor, AskedNext
<1>2. ASSUME NEW k \in Handlers PROVE MeantBy(req[k])'
  <2>1. CASE k = h
    <3>1. req'[k] = r
      BY <2>1 DEF Becomes, ConcurrentInv, TypeOK
    <3> QED
      BY <3>1 DEF MeantNext, MeantBy, AskedFor, AskedNext
  <2>2. CASE k # h
    <3>1. req'[k] = req[k] /\ MeantBy(req[k]) /\ req[k].inv \in Invoices
      BY <2>2, InFlight DEF Becomes, ConcurrentInv, TypeOK, Meant
    <3>2. req[k].pc \in {"linkIntent", "credit"} => req[k].pi \in Intents
      BY DEF ConcurrentInv, DeliveriesPaid
    <3> QED
      BY <3>1, <3>2 DEF MeantBy, AskedFor, AskedNext
  <2> QED
    BY <2>1, <2>2
<1> QED
  BY <1>1, <1>2 DEF Meant

LEMMA MeantMove ==
  ASSUME ConcurrentInv, Meant, NEW h \in Handlers, NEW r \in Flight, Moves(h, r), MeantBy(r)
  PROVE  Meant'
<1>1. Becomes(h, r) /\ UNCHANGED <<invoice, intents>>
  BY DEF Moves, tables
<1>2. MeantNext(r) /\ \A p \in Intents, i \in Invoices : AskedFor(p, i) => AskedNext(p, i)
  BY <1>1 DEF MeantBy, MeantNext, AskedFor, AskedNext
<1>3. \A i \in Invoices : invoice'[i].intent \in {invoice[i].intent, NoIntent}
  BY <1>1
<1> QED
  BY <1>1, <1>2, <1>3, MeantStep

(* A write of row i by the handler, which keeps its link or has none. *)
LEMMA MeantWrite ==
  ASSUME ConcurrentInv, Meant, NEW h \in Handlers, NEW r \in Flight, Becomes(h, r),
         r.pc \in {"idle", "sync", "record"}, NEW i \in Invoices, NEW row,
         invoice' = [invoice EXCEPT ![i] = row], UNCHANGED intents,
         row.intent \in {invoice[i].intent, NoIntent}
  PROVE  Meant'
<1>1. MeantNext(r) /\ \A p \in Intents, j \in Invoices : AskedFor(p, j) => AskedNext(p, j)
  BY DEF MeantNext, AskedFor, AskedNext
<1>2. \A j \in Invoices : invoice'[j].intent \in {invoice[j].intent, NoIntent}
  <2>1. \A j \in Invoices : invoice'[j] = IF j = i THEN row ELSE invoice[j]
    BY DEF ConcurrentInv, TypeOK
  <2> QED
    BY <2>1
<1> QED
  BY <1>1, <1>2, MeantStep

LEMMA RequestMeant ==
  ASSUME ConcurrentInv, Meant, NEW h \in Handlers, NEW i \in Invoices, Request(h, i)
  PROVE  Meant'
<1>1. ASSUME NEW pc \in Pcs
      PROVE  /\ Holding(pc, i) \in Flight /\ Holding(pc, i).pc = pc
             /\ \A a \in Int, o \in BOOLEAN :
                  /\ [Holding(pc, i) EXCEPT !.amt = a] \in Flight
                  /\ [Holding(pc, i) EXCEPT !.amt = a].pc = pc
                  /\ [Holding(pc, i) EXCEPT !.amt = a].amt = a
                  /\ [Holding(pc, i) EXCEPT !.amt = a, !.overdue = o] \in Flight
                  /\ [Holding(pc, i) EXCEPT !.amt = a, !.overdue = o].pc = pc
  <2>1. Holding(pc, i) \in Flight /\ Holding(pc, i).pc = pc
    BY HoldingType DEF ConcurrentInv
  <2> QED
    BY <2>1 DEF Flight
<1>2. {"update", "remove", "send", "createIntent", "recordPayment", "scan"} \subseteq Pcs
  BY DEF Pcs
<1>3. ASSUME NEW t \in Totals, Create(h, i, t) PROVE Meant'
  <2> DEFINE row == [NoRow EXCEPT !.status = "DRAFT", !.total = t, !.due = t]
  <2>1. Syncing \in Flight /\ Syncing.pc = "sync"
    BY IdleType DEF Flight, Pcs, Syncing
  <2>2. row.intent = NoIntent
    BY DEF NoRow
  <2>3. Becomes(h, Syncing) /\ invoice' = [invoice EXCEPT ![i] = row] /\ UNCHANGED intents
    BY <1>3 DEF Create
  <2> HIDE DEF row
  <2> QED
    BY <2>1, <2>2, <2>3, MeantWrite
<1>4. ASSUME NEW t \in Totals, UpdateRead(h, i, t) PROVE Meant'
  <2> DEFINE r == [Holding("update", i) EXCEPT !.amt = t]
  <2>0. t \in Int /\ "update" \in Pcs
    BY <1>2, LedgerAssumption
  <2>1. r \in Flight /\ r.pc = "update" /\ r.amt = t
    BY <1>1, <2>0
  <2>2. Moves(h, r)
    BY <1>4 DEF UpdateRead
  <2> HIDE DEF r
  <2>3. MeantBy(r)
    BY <2>1 DEF MeantBy
  <2> QED
    BY <2>1, <2>2, <2>3, MeantMove
<1>5. ASSUME NEW a \in Amounts, RecordPaymentRead(h, i, a) PROVE Meant'
  <2> DEFINE r == [Holding("recordPayment", i) EXCEPT !.amt = a]
  <2>0. a \in Int /\ "recordPayment" \in Pcs
    BY <1>2, LedgerAssumption
  <2>1. r \in Flight /\ r.pc = "recordPayment" /\ r.amt = a
    BY <1>1, <2>0
  <2>2. Moves(h, r)
    BY <1>5 DEF RecordPaymentRead
  <2> HIDE DEF r
  <2>3. MeantBy(r)
    BY <2>1 DEF MeantBy
  <2> QED
    BY <2>1, <2>2, <2>3, MeantMove
<1>6. ASSUME RemoveRead(h, i) \/ SendRead(h, i) \/ CreateIntentRead(h, i) PROVE Meant'
  <2>1. PICK pc \in {"remove", "send", "createIntent"} : Moves(h, Holding(pc, i))
    BY <1>6 DEF RemoveRead, SendRead, CreateIntentRead
  <2>2. MeantBy(Holding(pc, i))
    BY <1>1, <1>2 DEF MeantBy
  <2> QED
    BY <1>1, <1>2, <2>1, <2>2, MeantMove
<1>7. ASSUME NEW days \in {0, 3, 7, 14}, NEW pastDue \in BOOLEAN, ScanRead(h, i, days, pastDue) PROVE Meant'
  <2> DEFINE n == NextReminder(invoice[i], days)
             o == pastDue /\ invoice[i].status # "OVERDUE"
  <2>1. n \in Int /\ o \in BOOLEAN
    BY DEF NextReminder
  <2>2. Moves(h, [Holding("scan", i) EXCEPT !.amt = n, !.overdue = o])
    BY <1>7 DEF ScanRead
  <2> HIDE DEF n, o
  <2>3. MeantBy([Holding("scan", i) EXCEPT !.amt = n, !.overdue = o])
    BY <1>1, <1>2, <2>1 DEF MeantBy
  <2> QED
    BY <1>1, <1>2, <2>1, <2>2, <2>3, MeantMove
<1> QED
  BY <1>3, <1>4, <1>5, <1>6, <1>7 DEF Request

LEMMA LinkMeant ==
  ASSUME ConcurrentInv, Meant, NEW h \in Handlers, LinkIntent(h)
  PROVE  Meant'
<1> DEFINE i   == req[h].inv
           p   == req[h].pi
           row == [invoice[i] EXCEPT !.intent = p]
<1>1. /\ req[h].pc = "linkIntent" /\ Becomes(h, Idle) /\ p \in Intents /\ i \in Invoices
      /\ invoice[i] \in Row /\ AskedFor(p, i)
  BY InFlight DEF LinkIntent, WritesRow, ConcurrentInv, DeliveriesPaid, Meant, MeantBy
<1>2. \A q \in Intents, j \in Invoices : AskedFor(q, j) => AskedNext(q, j)
  BY DEF LinkIntent, ConcurrentInv, TypeOK, AskedFor, AskedNext
<1>3. \A j \in Invoices : invoice'[j] = IF j = i THEN row ELSE invoice[j]
  BY <1>1 DEF LinkIntent, WritesRow, ConcurrentInv, TypeOK
<1>4. row.intent = p
  BY <1>1 DEF Row
<1> HIDE DEF row
<1>5. MeantNext(Idle)
  BY IdleType DEF MeantNext
<1> QED
  BY <1>1, <1>2, <1>3, <1>4, <1>5, IdleType, MeantStep

LEMMA AskMeant ==
  ASSUME ConcurrentInv, Meant, NEW h \in Handlers, NEW p \in Intents, CreateIntentAtStripe(h, p)
  PROVE  Meant'
<1> DEFINE r == [req[h] EXCEPT !.pc = "linkIntent", !.pi = p]
           x == [status |-> "created", amount |-> req[h].snap.due, inv |-> req[h].inv]
<1>1. /\ intents[p].status = "unused" /\ Becomes(h, r)
      /\ intents' = [intents EXCEPT ![p] = x] /\ UNCHANGED invoice
  BY DEF CreateIntentAtStripe, NewAtStripe
<1>2. r \in Flight /\ r.pc = "linkIntent" /\ r.inv = req[h].inv /\ r.pi = p
  BY InFlight DEF Flight, Pcs
<1>3. \A q \in Intents : intents'[q] = IF q = p THEN x ELSE intents[q]
  BY <1>1 DEF ConcurrentInv, TypeOK
<1>4. AskedNext(p, req[h].inv)
  BY <1>3 DEF AskedNext
<1> HIDE DEF r, x
<1>5. \A q \in Intents, j \in Invoices : AskedFor(q, j) => AskedNext(q, j)
  BY <1>1, <1>3 DEF AskedFor, AskedNext
<1>6. MeantNext(r)
  BY <1>2, <1>4 DEF MeantNext
<1> QED
  BY <1>1, <1>2, <1>5, <1>6, MeantStep

(* The delivery takes an invoice that is linked to its intent. *)
LEMMA LookupMeant ==
  ASSUME ConcurrentInv, Meant, NEW h \in Handlers, WebhookLookup(h)
  PROVE  Meant'
<1> DEFINE p == req[h].pi
<1>1. req[h].pc = "lookup" /\ p \in Intents /\ req[h] \in Flight
  BY InFlight DEF WebhookLookup, ConcurrentInv, DeliveriesPaid
<1>2. ASSUME NEW i \in PayableBy(p), Moves(h, [Holding("credit", i) EXCEPT !.pi = p]) PROVE Meant'
  <2> DEFINE r == [Holding("credit", i) EXCEPT !.pi = p]
  <2>1. i \in Invoices /\ AskedFor(p, i)
    BY <1>1, LedgerAssumption DEF PayableBy, Meant, Linked
  <2>2. Holding("credit", i) \in Flight /\ Holding("credit", i).pc = "credit" /\ Holding("credit", i).inv = i
    BY <2>1, HoldingType DEF Pcs, ConcurrentInv
  <2>3. r \in Flight /\ r.pc = "credit" /\ r.pi = p /\ r.inv = i
    BY <1>1, <2>2 DEF Flight
  <2>4. Moves(h, r)
    BY <1>2
  <2> HIDE DEF r
  <2>5. MeantBy(r)
    BY <2>1, <2>3 DEF MeantBy
  <2> QED
    BY <2>3, <2>4, <2>5, MeantMove
<1>3. CASE Moves(h, [req[h] EXCEPT !.pc = "record"])
  <2> DEFINE r == [req[h] EXCEPT !.pc = "record"]
  <2>1. r \in Flight /\ r.pc = "record" /\ Moves(h, r)
    BY <1>1, <1>3 DEF Flight, Pcs
  <2> HIDE DEF r
  <2>2. MeantBy(r)
    BY <2>1 DEF MeantBy
  <2> QED
    BY <2>1, <2>2, MeantMove
<1> QED
  BY <1>2, <1>3 DEF WebhookLookup

(* The handlers that write a row and leave its link, or delete the row.    *)
LEMMA RowMeant ==
  ASSUME ConcurrentInv, Meant, NEW h \in Handlers,
         \/ UpdateWrite(h) \/ RemoveWrite(h) \/ SendWrite(h) \/ ScanWrite(h)
         \/ RecordPaymentCommit(h) \/ WebhookCredit(h)
  PROVE  Meant'
<1> DEFINE i == req[h].inv
<1>1. i \in Invoices /\ invoice[i] \in Row
  BY InFlight
<1>2. Syncing \in Flight /\ Syncing.pc = "sync" /\ Idle \in Flight /\ Idle.pc = "idle"
  BY IdleType DEF Flight, Pcs, Syncing
<1>3. CASE UpdateWrite(h)
  <2>1. Edited(invoice[i], req[h].snap, req[h].amt).intent = invoice[i].intent
    BY <1>1 DEF Edited, Row
  <2> QED
    BY <1>1, <1>2, <1>3, <2>1, MeantWrite DEF UpdateWrite, WritesRow
<1>4. CASE RemoveWrite(h)
  <2>1. [NoRow EXCEPT !.status = "DELETED"].intent = NoIntent
    BY DEF NoRow
  <2> QED
    BY <1>1, <1>2, <1>4, <2>1, MeantWrite DEF RemoveWrite, WritesRow
<1>5. CASE SendWrite(h)
  <2>1. [invoice[i] EXCEPT !.status = StatusSent(req[h].snap), !.sent = TRUE].intent = invoice[i].intent
    BY <1>1 DEF Row
  <2> QED
    BY <1>1, <1>2, <1>5, <2>1, MeantWrite DEF SendWrite, WritesRow
<1>6. CASE ScanWrite(h)
  <2> DEFINE row == [invoice[i] EXCEPT !.status   = IF req[h].overdue THEN "OVERDUE" ELSE @,
                                       !.followUp = IF req[h].amt > 0 THEN req[h].amt ELSE @]
  <2>1. row.intent = invoice[i].intent
    BY <1>1 DEF Row
  <2>2. invoice' = [invoice EXCEPT ![i] = row] /\ Becomes(h, Idle) /\ UNCHANGED intents
    BY <1>6 DEF ScanWrite, WritesRow
  <2> HIDE DEF row
  <2> QED
    BY <1>1, <1>2, <2>1, <2>2, MeantWrite
<1>7. \A amt : WithPayment(invoice[i], req[h].snap, amt).intent = invoice[i].intent
  BY <1>1 DEF WithPayment, Row
<1>8. CASE RecordPaymentCommit(h)
  BY <1>1, <1>2, <1>7, <1>8, MeantWrite DEF RecordPaymentCommit, WritesRow
<1>9. CASE WebhookCredit(h)
  <2> DEFINE r == [Idle EXCEPT !.pc = "record", !.pi = req[h].pi]
  <2>1. req[h].pi \in Intents
    BY <1>9 DEF WebhookCredit, WritesRow, ConcurrentInv, DeliveriesPaid
  <2>2. r \in Flight /\ r.pc = "record"
    BY <1>2, <2>1 DEF Flight, Pcs
  <2>3. /\ invoice' = [invoice EXCEPT ![i] = WithPayment(invoice[i], req[h].snap, intents[req[h].pi].amount)]
        /\ Becomes(h, r) /\ UNCHANGED intents
    BY <1>9 DEF WebhookCredit, WritesRow
  <2> HIDE DEF r
  <2> QED
    BY <1>1, <1>7, <2>2, <2>3, MeantWrite
<1> QED
  BY <1>3, <1>4, <1>5, <1>6, <1>8, <1>9

(* The handlers that write no row and no intent. *)
LEMMA RestMeant ==
  ASSUME ConcurrentInv, Meant, NEW h \in Handlers,
         \/ SyncRead(h) \/ SyncWrite(h) \/ CreateIntentReuse(h) \/ CreateIntentRefused(h) \/ RowGone(h)
         \/ WebhookRecord(h) \/ Abort(h) \/ \E p \in Intents : WebhookDeliver(h, p)
  PROVE  Meant'
<1>1. UNCHANGED <<invoice, intents>>
  BY DEF SyncRead, SyncWrite, CreateIntentReuse, CreateIntentRefused, RowGone, WebhookRecord, Abort,
         WebhookDeliver, Moves, tables
<1>2. PICK r \in Flight : Becomes(h, r) /\ r.pc \in {"idle", "syncWrite", "lookup"}
  <2>1. CASE SyncRead(h)
    <3> DEFINE rev == [i \in Invoices |-> IF Present(i) /\ invoice[i].status # "VOID"
                                            THEN invoice[i].total ELSE 0]
    <3>1. rev \in [Invoices -> Int]
      BY DEF ConcurrentInv, TypeOK, Row
    <3>2. Becomes(h, [Idle EXCEPT !.pc = "syncWrite", !.rev = rev])
      BY <2>1 DEF SyncRead, Moves
    <3> HIDE DEF rev
    <3>3. [Idle EXCEPT !.pc = "syncWrite", !.rev = rev] \in Flight
          /\ [Idle EXCEPT !.pc = "syncWrite", !.rev = rev].pc = "syncWrite"
      BY <3>1, IdleType DEF Flight, Pcs
    <3> QED
      BY <3>2, <3>3
  <2>2. CASE \E p \in Intents : WebhookDeliver(h, p)
    <3>1. PICK p \in Intents : Becomes(h, [Idle EXCEPT !.pc = "lookup", !.pi = p])
      BY <2>2 DEF WebhookDeliver, Moves
    <3>2. [Idle EXCEPT !.pc = "lookup", !.pi = p] \in Flight
          /\ [Idle EXCEPT !.pc = "lookup", !.pi = p].pc = "lookup"
      BY IdleType DEF Flight, Pcs
    <3> QED
      BY <3>1, <3>2
  <2>3. CASE \/ SyncWrite(h) \/ CreateIntentReuse(h) \/ CreateIntentRefused(h) \/ RowGone(h)
             \/ WebhookRecord(h) \/ Abort(h)
    BY <2>3, IdleType DEF SyncWrite, CreateIntentReuse, CreateIntentRefused, RowGone, WebhookRecord, Abort, Moves
  <2> QED
    BY <2>1, <2>2, <2>3
<1>3. MeantNext(r)
  BY <1>2 DEF MeantNext
<1>4. \A p \in Intents, i \in Invoices : AskedFor(p, i) => AskedNext(p, i)
  BY <1>1 DEF AskedFor, AskedNext
<1> QED
  BY <1>1, <1>2, <1>3, <1>4, MeantStep

LEMMA MeantNextStep ==
  ASSUME ConcurrentInv, Meant, [Next]_vars
  PROVE  Meant'
<1>1. ASSUME NEW h \in Handlers, Resume(h) \/ Abort(h) PROVE Meant'
  BY <1>1, LinkMeant, AskMeant, LookupMeant, RowMeant, RestMeant DEF Resume, WebhookStep
<1>2. ASSUME NEW h \in Handlers, NEW p \in Intents, WebhookDeliver(h, p) PROVE Meant'
  BY <1>2, RestMeant
<1>3. ASSUME NEW p \in Intents, CustomerPays(p) \/ StripeCancels(p) PROVE Meant'
  <2>1. PICK st \in {"succeeded", "canceled"} :
          intents' = [intents EXCEPT ![p].status = st] /\ UNCHANGED <<invoice, req>>
    BY <1>3 DEF CustomerPays, StripeCancels, IntentBecomes
  <2>2. \A q \in Intents : /\ intents[q].status # "unused" => intents'[q].status # "unused"
                           /\ intents'[q].inv = intents[q].inv
    BY <2>1 DEF ConcurrentInv, TypeOK
  <2>3. \A i \in Invoices : invoice[i].intent \in Intents \cup {NoIntent}
    BY DEF ConcurrentInv, TypeOK, Row
  <2>4. \A h \in Handlers : req[h].pc \in {"linkIntent", "credit"} => req[h].pi \in Intents
    BY DEF ConcurrentInv, DeliveriesPaid
  <2> QED
    BY <2>1, <2>2, <2>3, <2>4 DEF Meant, MeantBy, Linked, AskedFor
<1>4. CASE UNCHANGED vars
  BY <1>4 DEF vars, Meant, MeantBy, Linked, AskedFor
<1> QED
  BY <1>1, <1>2, <1>3, <1>4, RequestMeant DEF Next, Stripe

LEMMA MeantInit == Init => Meant
<1> SUFFICES ASSUME Init PROVE Meant
  OBVIOUS
<1>1. \A h \in Handlers : req[h].pc = "idle"
  BY IdleType DEF Init
<1>2. \A i \in Invoices : invoice[i].intent = NoIntent
  BY DEF Init, NoRow
<1> QED
  BY <1>1, <1>2 DEF Meant, MeantBy, Linked

-----------------------------------------------------------------------------
(* The receivables: one handler at a time, every step is one of theirs, or *)
(* none.                                                                   *)
Receives == R!Next \/ UNCHANGED <<bills, charges>>

LEMMA BillWritten ==
  ASSUME ConcurrentInv, NEW i \in Invoices, NEW row, invoice' = [invoice EXCEPT ![i] = row],
         \A j \in Invoices : j # i => ledger'[j] = ledger[j]
  PROVE  bills' = [bills EXCEPT ![i] = Bill(row, ledger'[i])]
<1>1. \A j \in Invoices : invoice'[j] = IF j = i THEN row ELSE invoice[j]
  BY DEF ConcurrentInv, TypeOK
<1>2. \A j \in Invoices :
        Bill(invoice'[j], ledger'[j]) = IF j = i THEN Bill(row, ledger'[i]) ELSE Bill(invoice[j], ledger[j])
  BY <1>1
<1>3. bills' = [j \in Invoices |-> Bill(invoice'[j], ledger'[j])]
  BY DEF bills
<1> QED
  BY <1>2, <1>3 DEF bills

LEMMA ChargesKept == UNCHANGED intents => UNCHANGED charges
  BY DEF charges

(* A row that is there and not paid is an open bill. *)
LEMMA OpenBill ==
  ASSUME ConcurrentInv, NEW h \in Handlers, SerialInv(h), req[h].pc \in Holders
  PROVE  LET i == req[h].inv
         IN  /\ i \in Invoices /\ R!IsOpen(i) /\ bills[i] = Bill(invoice[i], ledger[i])
             /\ bills[i].total = invoice[i].total /\ bills[i].paid = invoice[i].paid
             /\ bills[i].owed = invoice[i].due /\ invoice[i].paid = ledger[i]
             /\ invoice[i] = req[h].snap /\ invoice[i] \in Row
<1> DEFINE i == req[h].inv
<1>1. /\ i \in Invoices /\ req[h].snap \in Row /\ req[h].snap = invoice[i] /\ Present(i)
      /\ req[h].snap.status # "PAID" /\ RowSound(req[h].snap, ledger[i])
  BY HeldRow
<1>2. bills[i] = Bill(invoice[i], ledger[i])
  BY <1>1 DEF bills
<1>3. invoice[i].status \notin {"ABSENT", "DELETED", "PAID"} /\ invoice[i].paid = ledger[i]
  BY <1>1 DEF Present, NoRowStatus, RowSound
<1>4. /\ bills[i].state = "open" /\ bills[i].total = invoice[i].total
      /\ bills[i].paid = ledger[i] /\ bills[i].owed = invoice[i].due
  BY <1>2, <1>3 DEF Bill, BillState
<1> QED
  BY <1>1, <1>2, <1>3, <1>4 DEF R!IsOpen

LEMMA CreateReceives ==
  ASSUME ConcurrentInv, NEW h \in Handlers, SerialInv(h), NEW i \in Invoices, NEW t \in Totals, Create(h, i, t)
  PROVE  R!Open(i, t)
<1> DEFINE row == [NoRow EXCEPT !.status = "DRAFT", !.total = t, !.due = t]
<1>1. invoice' = [invoice EXCEPT ![i] = row] /\ invoice[i].status = "ABSENT" /\ UNCHANGED <<ledger, intents>>
  BY DEF Create
<1>2. row.status = "DRAFT" /\ row.total = t /\ row.due = t
  BY DEF NoRow
<1>3. ledger[i] = 0
  BY <1>1 DEF SerialInv, TablesSound, RowSound, NoRowStatus
<1> HIDE DEF row
<1>4. bills' = [bills EXCEPT ![i] = Bill(row, 0)]
  BY <1>1, <1>3, BillWritten
<1>5. Bill(row, 0) = [state |-> "open", total |-> t, paid |-> 0, owed |-> t]
  BY <1>2 DEF Bill, BillState
<1>6. bills[i].state = "none"
  BY <1>1 DEF bills, Bill, BillState
<1> QED
  BY <1>1, <1>4, <1>5, <1>6, ChargesKept DEF R!Open, R!Becomes

LEMMA AmountPositive ==
  ASSUME NEW a \in Amounts
  PROVE  a \in Nat /\ a > 0
  BY LedgerAssumption

LEMMA UpdateReceives ==
  ASSUME ConcurrentInv, Meant, NEW h \in Handlers, SerialInv(h), UpdateWrite(h)
  PROVE  \E t \in Totals : R!Reprice(req[h].inv, t)
<1> DEFINE i   == req[h].inv
           t   == req[h].amt
           d   == Due(t, req[h].snap.paid)
           row == [invoice[i] EXCEPT !.total = t, !.due = d]
<1>1. req[h].pc = "update" /\ UNCHANGED <<ledger, intents>>
  BY DEF UpdateWrite, WritesRow
<1>2. t \in Totals
  BY <1>1 DEF Meant, MeantBy
<1>3. /\ i \in Invoices /\ R!IsOpen(i) /\ bills[i] = Bill(invoice[i], ledger[i])
      /\ bills[i].paid = invoice[i].paid /\ invoice[i] = req[h].snap /\ invoice[i] \in Row
  BY <1>1, OpenBill DEF Holders
<1>4. d = R!Rest(t, bills[i].paid)
  BY <1>3 DEF R!Rest, Due
<1>5. invoice' = [invoice EXCEPT ![i] = row]
  BY <1>3 DEF UpdateWrite, WritesRow, Edited
<1> HIDE DEF d
<1>6. row.status = invoice[i].status /\ row.total = t /\ row.due = d
  BY <1>3 DEF Row
<1> HIDE DEF row
<1>7. bills' = [bills EXCEPT ![i] = Bill(row, ledger[i])]
  BY <1>1, <1>3, <1>5, BillWritten
<1>8. Bill(row, ledger[i]) = [state |-> "open", total |-> t, paid |-> bills[i].paid, owed |-> d]
  <2>1. BillState(row.status) = BillState(invoice[i].status) /\ bills[i].paid = ledger[i]
        /\ BillState(invoice[i].status) = "open"
    BY <1>3, <1>6 DEF Bill, R!IsOpen
  <2> QED
    BY <1>6, <2>1 DEF Bill
<1>9. R!Reprice(i, t)
  BY <1>1, <1>3, <1>4, <1>7, <1>8, ChargesKept DEF R!Reprice, R!Becomes
<1> QED
  BY <1>2, <1>9

LEMMA RemoveReceives ==
  ASSUME ConcurrentInv, NEW h \in Handlers, SerialInv(h), RemoveWrite(h)
  PROVE  R!Drop(req[h].inv)
<1> DEFINE i   == req[h].inv
           row == [NoRow EXCEPT !.status = "DELETED"]
<1>1. /\ req[h].pc = "remove" /\ invoice' = [invoice EXCEPT ![i] = row]
      /\ ledger' = [ledger EXCEPT ![i] = 0] /\ UNCHANGED intents
  BY DEF RemoveWrite, WritesRow
<1>2. /\ i \in Invoices /\ R!IsOpen(i) /\ bills[i].paid = invoice[i].paid
      /\ invoice[i] = req[h].snap /\ invoice[i] \in Row
  BY <1>1, OpenBill DEF Holders
<1>3. bills[i].paid = 0
  <2>1. req[h].snap.paid <= 0 /\ req[h].snap.paid \in Nat
    BY <1>1, <1>2 DEF SerialInv, Fresh, Row
  <2> QED
    BY <1>2, <2>1
<1>4. Bill(row, 0) = [R!NoBill EXCEPT !.state = "gone"]
  BY DEF Bill, BillState, NoRow, R!NoBill
<1> HIDE DEF row
<1>5. ledger'[i] = 0 /\ \A j \in Invoices : j # i => ledger'[j] = ledger[j]
  BY <1>1, <1>2 DEF ConcurrentInv, TypeOK
<1>6. bills' = [bills EXCEPT ![i] = Bill(row, ledger'[i])]
  BY <1>1, <1>2, <1>5, BillWritten
<1> QED
  BY <1>1, <1>2, <1>3, <1>4, <1>5, <1>6, ChargesKept DEF R!Drop, R!Becomes

(* A payment on the held row is a payment of the bill. *)
LEMMA PaymentReceives ==
  ASSUME ConcurrentInv, NEW h \in Handlers, SerialInv(h), req[h].pc \in Holders,
         NEW amt \in Nat, amt > 0, PaymentInserted(req[h].inv, amt), UNCHANGED intents,
         invoice' = [invoice EXCEPT ![req[h].inv] = WithPayment(invoice[req[h].inv], req[h].snap, amt)]
  PROVE  R!Pay(req[h].inv, amt)
<1> DEFINE i       == req[h].inv
           newPaid == req[h].snap.paid + amt
           due     == Due(req[h].snap.total, newPaid)
           status  == StatusAfterPayment(req[h].snap.total, newPaid)
           row     == [invoice[i] EXCEPT !.paid = newPaid, !.due = due, !.status = status]
<1>1. /\ i \in Invoices /\ R!IsOpen(i) /\ bills[i].total = invoice[i].total
      /\ bills[i].paid = invoice[i].paid /\ invoice[i].paid = ledger[i]
      /\ invoice[i] = req[h].snap /\ invoice[i] \in Row
  BY OpenBill
<1>2. newPaid \in Nat /\ newPaid = bills[i].paid + amt /\ req[h].snap.total \in Int
  BY <1>1 DEF Row
<1>3. due = R!Rest(bills[i].total, newPaid)
  BY <1>1 DEF R!Rest, Due
<1>4. due \in Nat /\ status = IF due = 0 THEN "PAID" ELSE "PARTIAL"
  BY <1>2 DEF StatusAfterPayment, Due
<1>5. invoice' = [invoice EXCEPT ![i] = row]
  BY DEF WithPayment
<1> HIDE DEF newPaid, due, status
<1>6. row.status = status /\ row.due = due /\ row.total = bills[i].total
  BY <1>1 DEF Row
<1> HIDE DEF row
<1>7. ledger'[i] = newPaid /\ \A j \in Invoices : j # i => ledger'[j] = ledger[j]
  BY <1>1, <1>2 DEF PaymentInserted, ConcurrentInv, TypeOK
<1>8. bills' = [bills EXCEPT ![i] = Bill(row, newPaid)]
  BY <1>1, <1>5, <1>7, BillWritten
<1>9. Bill(row, newPaid) = [state |-> IF due = 0 THEN "closed" ELSE "open",
                            total |-> bills[i].total, paid |-> newPaid, owed |-> due]
  BY <1>4, <1>6 DEF Bill, BillState
<1> QED
  BY <1>1, <1>2, <1>3, <1>8, <1>9, ChargesKept DEF R!Pay, R!Becomes

LEMMA PaidReceives ==
  ASSUME ConcurrentInv, Meant, NEW h \in Handlers, SerialInv(h), RecordPaymentCommit(h) \/ WebhookCredit(h)
  PROVE  Receives
<1> DEFINE i == req[h].inv
<1>1. CASE RecordPaymentCommit(h)
  <2>1. req[h].pc = "recordPayment" /\ UNCHANGED intents
    BY <1>1 DEF RecordPaymentCommit, WritesRow
  <2>a. req[h].amt \in Amounts
    BY <2>1 DEF Meant, MeantBy
  <2>2. req[h].amt \in Amounts /\ req[h].amt \in Nat /\ req[h].amt > 0
    BY <2>a, AmountPositive
  <2>3. R!Pay(i, req[h].amt)
    BY <1>1, <2>1, <2>2, PaymentReceives DEF RecordPaymentCommit, WritesRow, Holders
  <2>4. i \in Invoices
    BY InFlight
  <2> QED
    BY <2>2, <2>3, <2>4 DEF Receives, R!Next
<1>2. CASE WebhookCredit(h)
  <2> DEFINE p == req[h].pi
  <2>1. req[h].pc = "credit" /\ UNCHANGED intents
    BY <1>2 DEF WebhookCredit, WritesRow
  <2>2. p \in Intents /\ intents[p].status = "succeeded" /\ AskedFor(p, i)
    BY <2>1 DEF ConcurrentInv, DeliveriesPaid, Meant, MeantBy
  <2>3. intents[p].amount \in Nat /\ intents[p].amount > 0
    BY <2>2 DEF SerialInv, TablesSound, IntentSound, ConcurrentInv, TypeOK
  <2>4. charges[p].made /\ charges[p].of = {i} /\ charges[p].amount = intents[p].amount
    BY <2>2 DEF charges, Charge, AskedFor
  <2>5. R!Pay(i, intents[p].amount)
    BY <1>2, <2>1, <2>3, PaymentReceives DEF WebhookCredit, WritesRow, Holders
  <2>6. R!PayByCharge(i, p) /\ i \in Invoices
    BY <2>4, <2>5, InFlight DEF R!PayByCharge
  <2> QED
    BY <2>2, <2>6 DEF Receives, R!Next
<1> QED
  BY <1>1, <1>2

(* A write that leaves the balance and the state of the bill is no step of *)
(* the receivables.                                                        *)
LEMMA WriteReceivesNone ==
  ASSUME ConcurrentInv, NEW h \in Handlers, SerialInv(h),
         SendWrite(h) \/ ScanWrite(h) \/ LinkIntent(h)
  PROVE  UNCHANGED bills
<1> DEFINE i == req[h].inv
<1>1. req[h].pc \in Holders
  BY DEF SendWrite, ScanWrite, LinkIntent, WritesRow, Holders
<1>2. /\ i \in Invoices /\ invoice[i] = req[h].snap /\ invoice[i] \in Row
      /\ invoice[i].status \in InvoiceStatus \ {"PAID"}
  BY <1>1, HeldRow DEF Present, Row
<1>3. UNCHANGED ledger
  BY DEF SendWrite, ScanWrite, LinkIntent
<1>4. ASSUME NEW row, invoice' = [invoice EXCEPT ![i] = row], row.total = invoice[i].total, row.due = invoice[i].due,
             row.status \in InvoiceStatus \ {"PAID"}
      PROVE  UNCHANGED bills
  <2>1. BillState(row.status) = "open" /\ BillState(invoice[i].status) = "open"
    BY <1>2, <1>4 DEF BillState, InvoiceStatus
  <2>2. Bill(row, ledger[i]) = Bill(invoice[i], ledger[i])
    BY <1>4, <2>1 DEF Bill
  <2>3. bills' = [bills EXCEPT ![i] = Bill(row, ledger[i])]
    BY <1>2, <1>3, <1>4, BillWritten
  <2>4. bills[i] = Bill(invoice[i], ledger[i]) /\ bills = [j \in Invoices |-> bills[j]]
    BY <1>2 DEF bills
  <2> QED
    BY <2>2, <2>3, <2>4
<1>5. CASE SendWrite(h)
  <2> DEFINE st  == StatusSent(req[h].snap)
             row == [invoice[i] EXCEPT !.status = st, !.sent = TRUE]
  <2>1. st \in InvoiceStatus \ {"PAID"}
    BY <1>2 DEF StatusSent, InvoiceStatus
  <2>2. invoice' = [invoice EXCEPT ![i] = row]
    BY <1>5 DEF SendWrite, WritesRow
  <2> HIDE DEF st
  <2>3. row.total = invoice[i].total /\ row.due = invoice[i].due /\ row.status = st
    BY <1>2 DEF Row
  <2> HIDE DEF row
  <2> QED
    BY <1>4, <2>1, <2>2, <2>3
<1>6. CASE ScanWrite(h)
  <2> DEFINE st  == IF req[h].overdue THEN "OVERDUE" ELSE invoice[i].status
             n   == IF req[h].amt > 0 THEN req[h].amt ELSE invoice[i].followUp
             row == [invoice[i] EXCEPT !.status = st, !.followUp = n]
  <2>1. st \in InvoiceStatus \ {"PAID"}
    BY <1>2 DEF InvoiceStatus
  <2>2. invoice' = [invoice EXCEPT ![i] = row]
    BY <1>2, <1>6 DEF ScanWrite, WritesRow, Row
  <2> HIDE DEF st, n
  <2>3. row.total = invoice[i].total /\ row.due = invoice[i].due /\ row.status = st
    BY <1>2 DEF Row
  <2> HIDE DEF row
  <2> QED
    BY <1>4, <2>1, <2>2, <2>3
<1>7. CASE LinkIntent(h)
  <2> DEFINE row == [invoice[i] EXCEPT !.intent = req[h].pi]
  <2>1. invoice' = [invoice EXCEPT ![i] = row]
    BY <1>7 DEF LinkIntent, WritesRow
  <2>2. row.total = invoice[i].total /\ row.due = invoice[i].due /\ row.status = invoice[i].status
    BY <1>2 DEF Row
  <2> HIDE DEF row
  <2> QED
    BY <1>2, <1>4, <2>1, <2>2
<1> QED
  BY <1>5, <1>6, <1>7

LEMMA LinkReceives ==
  ASSUME ConcurrentInv, Meant, NEW h \in Handlers, LinkIntent(h)
  PROVE  UNCHANGED charges
<1> DEFINE p == req[h].pi
<1>1. /\ p \in Intents
      /\ intents' = [intents EXCEPT ![p].status = IF @ = "created" THEN "open" ELSE @]
  BY DEF LinkIntent, WritesRow, ConcurrentInv, DeliveriesPaid
<1>2. ASSUME NEW q \in Intents PROVE Charge(intents'[q]) = Charge(intents[q])
  <2>1. /\ intents[q] \in [status: IntentStatus, amount: Nat, inv: Invoices]
        /\ intents' = [intents EXCEPT ![p] = [intents[p] EXCEPT !.status = IF intents[p].status = "created" THEN "open"
                                                                           ELSE intents[p].status]]
    BY <1>1 DEF ConcurrentInv, TypeOK
  <2>2. /\ intents'[q].inv = intents[q].inv /\ intents'[q].amount = intents[q].amount
        /\ intents'[q].status = intents[q].status \/ (intents[q].status = "created" /\ intents'[q].status = "open")
    BY <1>1, <2>1 DEF ConcurrentInv, TypeOK
  <2> QED
    BY <2>2 DEF Charge
<1>3. charges' = [q \in Intents |-> Charge(intents'[q])]
  BY DEF charges
<1> QED
  BY <1>2, <1>3 DEF charges

(* The intent asks for what is due on the held row. *)
LEMMA AskReceives ==
  ASSUME ConcurrentInv, NEW h \in Handlers, SerialInv(h), NEW p \in Intents, CreateIntentAtStripe(h, p)
  PROVE  R!Ask(req[h].inv, p)
<1> DEFINE i == req[h].inv
           x == [status |-> "created", amount |-> req[h].snap.due, inv |-> i]
<1>1. /\ req[h].pc = "createIntent" /\ req[h].snap.due > 0 /\ intents[p].status = "unused"
      /\ intents' = [intents EXCEPT ![p] = x] /\ UNCHANGED <<invoice, ledger>>
  BY DEF CreateIntentAtStripe, NewAtStripe
<1>2. R!IsOpen(i) /\ bills[i].owed = req[h].snap.due
  BY <1>1, OpenBill DEF Holders
<1>3. charges[p].of = {}
  BY <1>1 DEF charges, Charge
<1>4. charges' = [charges EXCEPT ![p] = [of |-> {i}, amount |-> bills[i].owed, made |-> FALSE]]
  <2>1. Charge(x) = [of |-> {i}, amount |-> bills[i].owed, made |-> FALSE]
    BY <1>2 DEF Charge
  <2> HIDE DEF x
  <2>2. \A q \in Intents : Charge(intents'[q]) = IF q = p THEN Charge(x) ELSE Charge(intents[q])
    BY <1>1 DEF ConcurrentInv, TypeOK
  <2>3. charges' = [q \in Intents |-> Charge(intents'[q])]
    BY DEF charges
  <2> QED
    BY <2>1, <2>2, <2>3 DEF charges
<1>5. UNCHANGED bills
  BY <1>1 DEF bills
<1> QED
  BY <1>1, <1>2, <1>3, <1>4, <1>5 DEF R!Ask

LEMMA CustomerReceives ==
  ASSUME ConcurrentInv, NEW p \in Intents, CustomerPays(p) \/ StripeCancels(p)
  PROVE  Receives
<1>1. PICK st \in {"succeeded", "canceled"} :
        /\ intents' = [intents EXCEPT ![p].status = st] /\ UNCHANGED <<invoice, ledger>>
        /\ intents[p].status \in {"created", "open"}
        /\ st = "succeeded" => CustomerPays(p)
  BY DEF CustomerPays, StripeCancels, IntentBecomes
<1>2. UNCHANGED bills
  BY <1>1 DEF bills
<1>3. \A q \in Intents : /\ intents[q] \in [status: IntentStatus, amount: Nat, inv: Invoices]
                         /\ intents'[q].inv = intents[q].inv /\ intents'[q].amount = intents[q].amount
                         /\ intents'[q].status = IF q = p THEN st ELSE intents[q].status
  BY <1>1 DEF ConcurrentInv, TypeOK
<1>4. charges' = [q \in Intents |-> Charge(intents'[q])]
  BY DEF charges
<1>5. CASE st = "canceled"
  <2>1. \A q \in Intents : Charge(intents'[q]) = Charge(intents[q])
    BY <1>1, <1>3, <1>5 DEF Charge
  <2> QED
    BY <1>2, <1>4, <2>1 DEF Receives, charges
<1>6. CASE st = "succeeded"
  <2>1. charges[p] = [of |-> {intents[p].inv}, amount |-> intents[p].amount, made |-> FALSE]
    BY <1>1 DEF charges, Charge
  <2>2. Charge(intents'[p]) = [of |-> charges[p].of, amount |-> charges[p].amount, made |-> TRUE]
    <3>1. /\ intents'[p].status = "succeeded" /\ intents'[p].inv = intents[p].inv
          /\ intents'[p].amount = intents[p].amount
      BY <1>3, <1>6
    <3>2. Charge(intents'[p]) = [of |-> {intents[p].inv}, amount |-> intents[p].amount,
                                 made |-> TRUE]
      BY <3>1 DEF Charge
    <3> QED
      BY <2>1, <3>2
  <2>3. \A q \in Intents : q # p => Charge(intents'[q]) = Charge(intents[q])
    BY <1>3 DEF Charge
  <2>4. charges' = [charges EXCEPT ![p] = [of |-> charges[p].of, amount |-> charges[p].amount,
                                           made |-> TRUE]]
    BY <1>4, <2>2, <2>3 DEF charges
  <2>5. R!Make(p)
    BY <1>2, <2>1, <2>4 DEF R!Make
  <2> QED
    BY <2>5 DEF Receives, R!Next
<1> QED
  BY <1>5, <1>6

LEMMA TablesReceiveNone == UNCHANGED <<invoice, ledger, intents>> => UNCHANGED <<bills, charges>>
  BY DEF bills, charges

LEMMA ResumeReceives ==
  ASSUME ConcurrentInv, Meant, NEW h \in Handlers, SerialInv(h), Resume(h) \/ Abort(h)
  PROVE  Receives
<1>1. req[h].inv \in Invoices
  BY InFlight
<1>2. CASE UpdateWrite(h)
  BY <1>1, <1>2, UpdateReceives DEF Receives, R!Next
<1>3. CASE RemoveWrite(h)
  BY <1>1, <1>3, RemoveReceives DEF Receives, R!Next
<1>4. CASE RecordPaymentCommit(h) \/ WebhookCredit(h)
  BY <1>4, PaidReceives
<1>5. CASE SendWrite(h) \/ ScanWrite(h)
  <2>1. UNCHANGED intents
    BY <1>5 DEF SendWrite, ScanWrite
  <2> QED
    BY <1>5, <2>1, WriteReceivesNone, ChargesKept DEF Receives
<1>6. CASE LinkIntent(h)
  BY <1>6, WriteReceivesNone, LinkReceives DEF Receives
<1>7. ASSUME NEW p \in Intents, CreateIntentAtStripe(h, p) PROVE Receives
  BY <1>1, <1>7, AskReceives DEF Receives, R!Next
<1>8. CASE \/ SyncRead(h) \/ SyncWrite(h) \/ CreateIntentReuse(h) \/ CreateIntentRefused(h) \/ RowGone(h)
           \/ WebhookLookup(h) \/ WebhookRecord(h) \/ Abort(h)
  <2>1. UNCHANGED <<invoice, ledger, intents>>
    BY <1>8 DEF SyncRead, SyncWrite, CreateIntentReuse, CreateIntentRefused, RowGone, WebhookLookup,
       WebhookRecord, Abort, Moves, tables
  <2> QED
    BY <2>1, TablesReceiveNone DEF Receives
<1> QED
  BY <1>2, <1>3, <1>4, <1>5, <1>6, <1>7, <1>8 DEF Resume, WebhookStep

LEMMA RequestReceives ==
  ASSUME ConcurrentInv, NEW h \in Handlers, SerialInv(h), NEW i \in Invoices, Request(h, i)
  PROVE  Receives
<1>1. ASSUME NEW t \in Totals, Create(h, i, t) PROVE Receives
  BY <1>1, CreateReceives DEF Receives, R!Next
<1>2. ASSUME ~ \E t \in Totals : Create(h, i, t) PROVE Receives
  <2>1. UNCHANGED <<invoice, ledger, intents>>
    BY <1>2 DEF Request, UpdateRead, RemoveRead, SendRead, CreateIntentRead, RecordPaymentRead, ScanRead,
       Moves, tables
  <2> QED
    BY <2>1, TablesReceiveNone DEF Receives
<1> QED
  BY <1>1, <1>2

LEMMA StepReceives ==
  ASSUME ConcurrentInv, Meant, SerialInv(FirstHandler), Next, Serial
  PROVE  Receives
<1> DEFINE f == FirstHandler
<1>1. f \in Handlers /\ OthersIdle(f)
  BY LedgerAssumption DEF FirstHandler, SerialInv
<1>2. ASSUME NEW h \in Handlers, Resume(h) \/ Abort(h) PROVE Receives
  <2>1. h = f
    BY <1>1, <1>2, SerialSlot
  <2> QED
    BY <1>2, <2>1, ResumeReceives
<1>3. ASSUME NEW h \in Handlers, NEW i \in Invoices, Request(h, i) PROVE Receives
  <2>1. h = f
    BY <1>1, <1>3, SerialSlot
  <2> QED
    BY <1>3, <2>1, RequestReceives
<1>4. ASSUME NEW h \in Handlers, NEW p \in Intents, WebhookDeliver(h, p) PROVE Receives
  BY <1>4, TablesReceiveNone DEF WebhookDeliver, Moves, tables, Receives
<1> QED
  BY <1>2, <1>3, <1>4, CustomerReceives DEF Next, Stripe

LEMMA StartReceives == Init => R!Init
<1> SUFFICES ASSUME Init PROVE R!Init
  OBVIOUS
<1>1. bills = [i \in Invoices |-> R!NoBill]
  BY DEF Init, bills, Bill, BillState, NoRow, R!NoBill
<1>2. charges = [p \in Intents |-> R!NoCharge]
  BY DEF Init, charges, Charge, R!NoCharge
<1> QED
  BY <1>1, <1>2 DEF R!Init

(* A link leads to an intent that asks for this invoice, however handlers  *)
(* overlap: nobody's payment is credited to another invoice.               *)
LEMMA MCMeant == MCSpec => []Meant
<1>1. MCInit => Meant
  BY MeantInit DEF MCInit
<1>2. ASSUME MCInv, Meant, [MCNext]_<<vars, scenario>> PROVE Meant'
  BY <1>2, MeantNextStep DEF MCInv, MCNext
<1> QED
  BY <1>1, <1>2, MCInvariant, PTL DEF MCSpec

(* Handlers one after the other, wherever they die, the tables are a book  *)
(* of receivables: each step is one of theirs or none (InvoicesService and *)
(* the Stripe webhook as a whole).                                         *)
THEOREM LedgerStepsAsReceivables == MCSpec => SerialImplementsReceivables
<1>1. MCInit => R!Init
  BY StartReceives DEF MCInit
<1>2. MCInv /\ Meant /\ [MCNext]_<<vars, scenario>> => [scenario = "serial" => R!Next]_<<bills, charges>>
  <2> SUFFICES ASSUME MCInv, Meant, [MCNext]_<<vars, scenario>>, scenario = "serial" PROVE Receives
    BY DEF Receives
  <2>1. CASE MCNext
    BY <2>1, StepReceives DEF MCInv, MCNext
  <2>2. CASE UNCHANGED vars
    BY <2>2, TablesReceiveNone DEF vars, Receives
  <2> QED
    BY <2>1, <2>2
<1> QED
  BY <1>1, <1>2, MCInvariant, MCMeant, PTL DEF MCSpec, SerialImplementsReceivables

(* With one handler the ledger implements the receivables outright.        *)
THEOREM LedgerImplementsReceivables ==
  ASSUME \A g, h \in Handlers : g = h
  PROVE  Spec => ImplementsReceivables
<1> DEFINE Alone == ConcurrentInv /\ Meant /\ SerialInv(FirstHandler)
<1>1. FirstHandler \in Handlers
  BY LedgerAssumption DEF FirstHandler
<1>2. Init => Alone /\ R!Init
  BY InitInv, MeantInit, SerialInit, StartReceives
<1>3. Alone /\ [Next]_vars => Alone' /\ [R!Next]_<<bills, charges>>
  <2> SUFFICES ASSUME Alone, [Next]_vars PROVE Alone' /\ Receives
    BY DEF Receives
  <2>1. ConcurrentInv' /\ Meant'
    BY NextInv, MeantNextStep
  <2>2. CASE Next
    <3>1. Serial
      BY <1>1 DEF Serial
    <3> QED
      BY <2>1, <2>2, <3>1, SerialNext, StepReceives
  <2>3. CASE UNCHANGED vars
    <3>1. SerialInv(FirstHandler)'
      BY <2>3 DEF SerialInv, TablesSound, RowSound, IntentSound, OthersIdle, Fresh, Accounted, Synced,
         Books, Present, vars
    <3> QED
      BY <2>1, <2>3, <3>1, TablesReceiveNone DEF vars, Receives
  <2> QED
    BY <2>2, <2>3
<1> QED
  BY <1>2, <1>3, PTL DEF Spec, ImplementsReceivables, R!Spec
=============================================================================
