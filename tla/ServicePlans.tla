---------------------------- MODULE ServicePlans ----------------------------
(***************************************************************************)
(* One service plan: ServicePlansService, the job generation, billing and  *)
(* expiry scans of the queues, the subscription half of the Stripe webhook *)
(* and the plan's Stripe subscription.                                     *)
(*                                                                         *)
(* Every handler is a short program with an await between its statements;  *)
(* req[h] is the one in slot h and what it has read.  Dates are numbers of *)
(* service cycles from the start date; a billing cycle is one of Cycles    *)
(* long.                                                                   *)
(***************************************************************************)
EXTENDS Integers, FiniteSets

CONSTANTS
  MaxDate,    (* bound: the calendar of the instance                       *)
  Cycles,     (* lengths of the billing cycles                             *)
  Ends,       (* end dates a plan may get; -1 is none                      *)
  Handlers,   (* slots for handlers in flight                              *)
  Ops,        (* operations used in this instance                          *)
  MaxAborts   (* bound: handlers that die between two awaits               *)

ASSUME PlansAssumption ==
  /\ MaxDate \in Nat /\ MaxAborts \in Nat
  /\ Cycles \subseteq Nat \ {0} /\ Cycles # {}
  /\ Ends \subseteq Nat \cup {-1}
  /\ Handlers # {}

VARIABLES
  plan,     (* the ServicePlan row                                         *)
  jobs,     (* ServicePlanJob rows, by scheduledFor                        *)
  bills,    (* ServicePlanInvoice rows, by period start and length         *)
  sub,      (* the subscription at Stripe                                  *)
  events,   (* subscription events not recorded yet, by the status they set*)
  today,
  jam,      (* a plan before this one in the batches of the job scan       *)
            (* throws when it is reached                                   *)
  req,      (* handlers in flight                                          *)
  aborts

vars == <<plan, jobs, bills, sub, events, today, jam, req, aborts>>

Dates == 0..MaxDate
Status == {"ABSENT", "ACTIVE", "PAUSED", "CANCELLED", "EXPIRED", "REMOVED"}
ActiveLike == {"ACTIVE", "PAUSED"}
Automatic == {"jobs", "bills"}
Pcs == {"idle", "insertPlan", "checkJob", "insertJob", "checkBill", "insertBill",
        "setStatus", "stripeCancel", "sync", "record", "remove"}

(* own: createdBy is a user, and not "system" as from the booking page. *)
Plan == [status: Status, own: BOOLEAN, nextService: Dates, nextBilling: Nat, cycle: Cycles,
         endDate: Ends \cup {-1}, auto: SUBSET Automatic, linked: BOOLEAN]

Flight == [pc: Pcs, date: Nat, cycle: Cycles, status: Status]

AnyCycle == CHOOSE c \in Cycles : TRUE

NoPlan == [status |-> "ABSENT", own |-> TRUE, nextService |-> 0, nextBilling |-> 0, cycle |-> AnyCycle,
           endDate |-> -1, auto |-> Automatic, linked |-> FALSE]

Idle == [pc |-> "idle", date |-> 0, cycle |-> AnyCycle, status |-> "ABSENT"]

Exists == plan.status \notin {"ABSENT", "REMOVED"}

Starts(h, op) == op \in Ops /\ req[h].pc = "idle"

At(h, pc) == req[h].pc = pc

Becomes(h, r) == req' = [req EXCEPT ![h] = r]

tables == <<plan, jobs, bills>>
world == <<sub, events, today, jam, aborts>>

(* A step of a handler that only reads. *)
Moves(h, r) == Becomes(h, r) /\ UNCHANGED <<tables, world>>

Init ==
  /\ plan   = NoPlan
  /\ jobs   = [d \in Dates |-> 0]
  /\ bills  = [b \in Dates \X Cycles |-> 0]
  /\ sub    = "none"
  /\ events = {}
  /\ today  = 0
  /\ jam    = FALSE
  /\ req    = [h \in Handlers |-> Idle]
  /\ aborts = 0

-----------------------------------------------------------------------------
(* create, for a member (own) or for a customer who subscribes at the      *)
(* booking page: the subscription, best effort, then the row.              *)
CreateStripe(h) ==
  /\ Starts(h, "create") /\ plan.status = "ABSENT" /\ sub = "none"
  /\ sub' \in {"none", "incomplete"}
  /\ Becomes(h, [Idle EXCEPT !.pc = "insertPlan"])
  /\ UNCHANGED <<tables, events, today, jam, aborts>>

(* Mutant: a set-up that failed is taken for one that went well. *)
Subscribed_Always == TRUE

(* What trySetUpStripe returned. *)
Subscribed == sub # "none"

InsertPlan(h) ==
  /\ At(h, "insertPlan") /\ plan.status = "ABSENT"
  /\ \E c \in Cycles, own \in BOOLEAN : \E e \in IF own THEN Ends ELSE {-1} :
       plan' = [NoPlan EXCEPT !.status = "ACTIVE", !.own = own, !.cycle = c, !.endDate = e,
                              !.linked = Subscribed]
  /\ Becomes(h, Idle)
  /\ UNCHANGED <<jobs, bills, world>>

(* update: whatever the dto carries; the dates of the next cycles stay. *)
Update(h) ==
  /\ Starts(h, "update") /\ Exists
  /\ \E c \in Cycles, e \in Ends, a \in SUBSET Automatic :
       plan' = [plan EXCEPT !.cycle = c, !.endDate = e, !.auto = a]
  /\ UNCHANGED <<jobs, bills, world, req>>

RemoveRead(h) ==
  /\ Starts(h, "remove") /\ Exists
  /\ Moves(h, [Idle EXCEPT !.pc = "remove"])

(* The plan's job and invoice links go with it. *)
RemoveWrite(h) ==
  /\ At(h, "remove")
  /\ plan' = [plan EXCEPT !.status = "REMOVED"]
  /\ jobs' = [d \in Dates |-> 0]
  /\ bills' = [b \in Dates \X Cycles |-> 0]
  /\ Becomes(h, Idle)
  /\ UNCHANGED world

(* The write of a row that is gone meanwhile throws and changes nothing. *)
WithStatus(st) == IF Exists THEN [plan EXCEPT !.status = st] ELSE plan

(* pause, resume: the status is checked, then set. *)
SetStatusRead(h, op, from, to) ==
  /\ Starts(h, op) /\ plan.status = from
  /\ Moves(h, [Idle EXCEPT !.pc = "setStatus", !.status = to])

SetStatusWrite(h) ==
  /\ At(h, "setStatus")
  /\ plan' = WithStatus(req[h].status)
  /\ Becomes(h, Idle)
  /\ UNCHANGED <<jobs, bills, world>>

CancelRead(h) ==
  /\ Starts(h, "cancel") /\ plan.status \in ActiveLike
  /\ Moves(h, [Idle EXCEPT !.pc = IF plan.linked THEN "stripeCancel" ELSE "setStatus",
                           !.status = "CANCELLED"])

(* The call may fail: that is logged and the plan is cancelled all the same. *)
CancelAtStripe(h) ==
  /\ At(h, "stripeCancel")
  /\ \/ sub \in {"incomplete", "active"} /\ sub' = "canceled" /\ events' = events \cup {"CANCELLED"}
     \/ UNCHANGED <<sub, events>>
  /\ Becomes(h, [req[h] EXCEPT !.pc = "setStatus"])
  /\ UNCHANGED <<tables, today, jam, aborts>>

-----------------------------------------------------------------------------
(* Jobs.  A scan reads the due plans; generateJobNow reads an active one,  *)
(* due or not.  Both look for the due date's job and then insert one.      *)
(* The scan takes the due plans of all organizations one after the other,  *)
(* and ends with the first that throws.                                    *)
ScanJobsRead(h) ==
  /\ Starts(h, "jobScan") /\ ~jam
  /\ plan.status = "ACTIVE" /\ "jobs" \in plan.auto /\ plan.nextService <= today
  /\ Moves(h, [Idle EXCEPT !.pc = "checkJob", !.date = plan.nextService])

GenerateNowRead(h) ==
  /\ Starts(h, "generateNow")
  /\ plan.status = "ACTIVE" /\ plan.nextService < MaxDate      (* bound *)
  /\ Moves(h, [Idle EXCEPT !.pc = "checkJob", !.date = plan.nextService])

JobFree(d) == jobs[d] = 0

CheckJob(h) ==
  /\ At(h, "checkJob")
  /\ Moves(h, IF JobFree(req[h].date) THEN [req[h] EXCEPT !.pc = "insertJob"] ELSE Idle)

(* Mutant: the date of the next service is left where it was. *)
Serviced_NotAdvanced(d) == plan

Serviced(d) == [plan EXCEPT !.nextService = d + 1]

(* Job, link and next date in one transaction.  Job.createdBy, taken from  *)
(* the plan, must be a User (schema.prisma:719-720): the job of a plan of  *)
(* the booking page is refused, and the generation with it.                *)
InsertJob(h) ==
  /\ At(h, "insertJob") /\ req[h].date < MaxDate      (* bound *)
  /\ \/ /\ Exists /\ plan.own
        /\ jobs' = [jobs EXCEPT ![req[h].date] = @ + 1]
        /\ plan' = Serviced(req[h].date)
     \/ ~(Exists /\ plan.own) /\ UNCHANGED <<plan, jobs>>
  /\ Becomes(h, Idle)
  /\ UNCHANGED <<bills, world>>

-----------------------------------------------------------------------------
(* Bills. *)
ScanBillsRead(h) ==
  /\ Starts(h, "billScan")
  /\ plan.status = "ACTIVE" /\ "bills" \in plan.auto /\ plan.nextBilling <= today
  /\ Moves(h, [Idle EXCEPT !.pc = "checkBill", !.date = plan.nextBilling, !.cycle = plan.cycle])

CheckBill(h) ==
  /\ At(h, "checkBill")
  /\ Moves(h, IF bills[<<req[h].date, req[h].cycle>>] = 0
              THEN [req[h] EXCEPT !.pc = "insertBill"] ELSE Idle)

(* Mutant: no unique index on the period. *)
PeriodFree_NoIndex(d, c) == TRUE

(* unique(servicePlanId, billingPeriodStart, billingPeriodEnd) *)
PeriodFree(d, c) == bills[<<d, c>>] = 0

(* Mutant: the next bill is due where this one was. *)
Billed_NotAdvanced(d, c) == [plan EXCEPT !.nextBilling = d + c - 1]

Billed(d, c) == [plan EXCEPT !.nextBilling = d + c]

(* Invoice, link and next date in one transaction; a second insert of the  *)
(* period fails, five times over, and the scan with it.                    *)
InsertBill(h) ==
  /\ At(h, "insertBill")
  /\ \/ /\ Exists /\ PeriodFree(req[h].date, req[h].cycle)
        /\ bills' = [bills EXCEPT ![<<req[h].date, req[h].cycle>>] = @ + 1]
        /\ plan' = Billed(req[h].date, req[h].cycle)
     \/ ~(Exists /\ PeriodFree(req[h].date, req[h].cycle)) /\ UNCHANGED <<plan, bills>>
  /\ Becomes(h, Idle)
  /\ UNCHANGED <<jobs, world>>

(* The expiry scan: one updateMany. *)
ScanExpiry(h) ==
  /\ Starts(h, "expiryScan")
  /\ plan.status \in ActiveLike /\ plan.endDate \in 0..today
  /\ plan' = [plan EXCEPT !.status = "EXPIRED"]
  /\ UNCHANGED <<jobs, bills, world, req>>

-----------------------------------------------------------------------------
(* Stripe: the customer pays, a period renews, the subscription ends.      *)
Stripe(from, to, e) ==
  /\ "stripe" \in Ops /\ sub \in from
  /\ sub' = to /\ events' = events \cup {e}
  /\ UNCHANGED <<tables, today, jam, req, aborts>>

SubscriptionChanges ==
  \/ Stripe({"incomplete", "active"}, "active", "ACTIVE")
  \/ Stripe({"incomplete", "active"}, "canceled", "CANCELLED")

(* onSubscriptionUpdated, onSubscriptionDeleted: events come in any order, *)
(* again and again until one handling of them is recorded.                 *)
WebhookRead(h, e) ==
  /\ Starts(h, "stripe") /\ e \in events
  /\ Moves(h, [Idle EXCEPT !.pc = IF Exists /\ plan.linked /\ plan.status # e
                                  THEN "sync" ELSE "record", !.status = e])

WebhookWrite(h) ==
  /\ At(h, "sync")
  /\ plan' = WithStatus(req[h].status)
  /\ Becomes(h, IF Exists THEN [req[h] EXCEPT !.pc = "record"] ELSE Idle)
  /\ UNCHANGED <<jobs, bills, world>>

WebhookRecord(h) ==
  /\ At(h, "record")
  /\ events' = events \ {req[h].status}
  /\ Becomes(h, Idle)
  /\ UNCHANGED <<tables, sub, today, jam, aborts>>

-----------------------------------------------------------------------------
(* A job or an invoice of the plan is deleted: its link goes with it. *)
JobDeleted(d) ==
  /\ "deleteJob" \in Ops /\ jobs[d] > 0
  /\ jobs' = [jobs EXCEPT ![d] = @ - 1]
  /\ UNCHANGED <<plan, bills, world, req>>

InvoiceDeleted(b) ==
  /\ "deleteInvoice" \in Ops /\ bills[b] > 0
  /\ bills' = [bills EXCEPT ![b] = @ - 1]
  /\ UNCHANGED <<plan, jobs, world, req>>

(* A customer of any organization subscribes at its booking page, or such  *)
(* a plan is cancelled.                                                    *)
BatchChanges ==
  /\ "jam" \in Ops
  /\ jam' = ~jam
  /\ UNCHANGED <<tables, sub, events, today, req, aborts>>

DayPasses ==
  /\ today + 1 < MaxDate      (* bound *)
  /\ today' = today + 1
  /\ UNCHANGED <<tables, sub, events, jam, req, aborts>>

Abort(h) ==
  /\ req[h].pc # "idle" /\ aborts < MaxAborts
  /\ aborts' = aborts + 1
  /\ Becomes(h, Idle)
  /\ UNCHANGED <<tables, sub, events, today, jam>>

-----------------------------------------------------------------------------
(* A handler reads and, if it goes on, has something to write. *)
Begin(h) ==
  \/ CreateStripe(h) \/ RemoveRead(h) \/ CancelRead(h) \/ GenerateNowRead(h)
  \/ SetStatusRead(h, "pause", "ACTIVE", "PAUSED") \/ SetStatusRead(h, "resume", "PAUSED", "ACTIVE")
  \/ ScanJobsRead(h) \/ ScanBillsRead(h) \/ \E e \in Status : WebhookRead(h, e)

(* Its next await. *)
Resume(h) ==
  \/ InsertPlan(h) \/ RemoveWrite(h) \/ SetStatusWrite(h) \/ CancelAtStripe(h)
  \/ CheckJob(h) \/ InsertJob(h) \/ CheckBill(h) \/ InsertBill(h)
  \/ WebhookWrite(h) \/ WebhookRecord(h)

Step(h) == Begin(h) \/ Resume(h) \/ Update(h) \/ ScanExpiry(h) \/ Abort(h)

Elsewhere ==
  \/ SubscriptionChanges \/ BatchChanges \/ DayPasses
  \/ \E d \in Dates : JobDeleted(d)
  \/ \E b \in Dates \X Cycles : InvoiceDeleted(b)

Next == (\E h \in Handlers : Step(h)) \/ Elsewhere

Spec == Init /\ [][Next]_vars

(* Node runs every handler it has started to its end, unless it dies.  The *)
(* schedulers queue both scans every hour and Bull runs each of them, so a *)
(* scan that keeps finding the plan due reaches it, unless the batch is    *)
(* jammed.  Clients and Stripe are under no obligation.                    *)
Fairness ==
  /\ WF_vars(DayPasses)
  /\ \A h \in Handlers : WF_vars(Resume(h))
  /\ SF_vars(\E h \in Handlers : ScanJobsRead(h))
  /\ SF_vars(\E h \in Handlers : ScanBillsRead(h))

FairSpec == Spec /\ Fairness

-----------------------------------------------------------------------------
(* Types of the row, the links and the handlers; a plan that keeps the id  *)
(* of a subscription has one.                                              *)
TypeOK ==
  /\ plan \in Plan
  /\ jobs \in [Dates -> Nat]
  /\ bills \in [Dates \X Cycles -> Nat]
  /\ sub \in {"none", "incomplete", "active", "canceled"}
  /\ plan.linked => sub # "none"
  /\ events \subseteq {"ACTIVE", "CANCELLED"}
  /\ today \in Dates /\ jam \in BOOLEAN
  /\ req \in [Handlers -> Flight]
  /\ aborts \in 0..MaxAborts

(* service-plan-billing.processor.ts:52: "never double-bill the same       *)
(* period, even if the scan somehow runs twice", whatever overlaps.        *)
BilledOncePerPeriod == \A b \in Dates \X Cycles : bills[b] <= 1

(* service-plans.service.ts:202: "a plan can only generate one job per due *)
(* date".                                                                  *)
OneJobPerDueDate == \A d \in Dates : jobs[d] <= 1

(* The next due date has no job yet: if it had, every later generation     *)
(* would find it and skip, and the plan would never be serviced again.     *)
(* One handler at a time.                                                  *)
NextDateOpen == Exists => jobs[plan.nextService] = 0

(* The billed periods follow one another without a gap to pay twice in: no *)
(* two overlap and none reaches past the next billing date, even when the  *)
(* cycle is edited.  One handler at a time.                                *)
PeriodsTile ==
  /\ \A b \in Dates \X Cycles : bills[b] > 0 => b[1] + b[2] <= plan.nextBilling
  /\ \A a, b \in Dates \X Cycles :
       bills[a] > 0 /\ bills[b] > 0 /\ a # b => a[1] + a[2] <= b[1] \/ b[1] + b[2] <= a[1]

(* A plan that stays active is billed up to date if it is billed           *)
(* automatically, and serviced up to date if that is automatic too.  But   *)
(* for the services of two kinds: a plan subscribed at the booking page,   *)
(* for which no job is ever made, and one behind such a plan in the batch, *)
(* which the scan does not reach while the other is active and due.        *)
Billable == plan.status = "ACTIVE" /\ "bills" \in plan.auto

Serviceable == plan.status = "ACTIVE" /\ "jobs" \in plan.auto /\ plan.own /\ ~jam

PlanServed ==
  /\ (<>[]Billable) => <>[](plan.nextBilling > today)
  /\ (<>[]Serviceable) => <>[](plan.nextService > today)
=============================================================================
