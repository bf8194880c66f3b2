------------------------- MODULE ServicePlansProofs -------------------------
(***************************************************************************)
(* A plan for any number of dates, cycles and handlers: whatever overlaps, *)
(* no period is billed twice; and handlers that do not overlap make one    *)
(* job for a due date and leave no gap or overlap between the bills.       *)
(***************************************************************************)
EXTENDS MCServicePlans, TLAPS

LEMMA NoPlanType == NoPlan \in Plan /\ NoPlan.status = "ABSENT" /\ ~NoPlan.linked
                    /\ NoPlan.nextService = 0 /\ NoPlan.nextBilling = 0
  BY PlansAssumption DEF NoPlan, Plan, AnyCycle, Status, Dates, Automatic

LEMMA IdleType == Idle \in Flight /\ Idle.pc = "idle" /\ Idle.date = 0
  BY PlansAssumption DEF Idle, Flight, AnyCycle, Status, Pcs

(* What a handler may be left with. *)
LEMMA FlightSteps ==
  ASSUME NEW r \in Flight, NEW pc \in Pcs
  PROVE  [r EXCEPT !.pc = pc] \in Flight /\ [r EXCEPT !.pc = pc].pc = pc
         /\ [r EXCEPT !.pc = pc].date = r.date /\ [r EXCEPT !.pc = pc].cycle = r.cycle
         /\ [r EXCEPT !.pc = pc].status = r.status
  BY DEF Flight

(* A handler that has read what to set, or what to generate. *)
Setting(pc, st) == [Idle EXCEPT !.pc = pc, !.status = st]
Dated(pc, d) == [Idle EXCEPT !.pc = pc, !.date = d]
Period(pc, d, c) == [Idle EXCEPT !.pc = pc, !.date = d, !.cycle = c]

LEMMA SettingType ==
  ASSUME NEW pc \in Pcs, NEW st \in Status
  PROVE  Setting(pc, st) \in Flight /\ Setting(pc, st).pc = pc /\ Setting(pc, st).status = st
  BY IdleType DEF Flight, Setting

LEMMA DatedType ==
  ASSUME NEW pc \in Pcs, NEW d \in Nat
  PROVE  Dated(pc, d) \in Flight /\ Dated(pc, d).pc = pc /\ Dated(pc, d).date = d
  BY IdleType DEF Flight, Dated

LEMMA PeriodType ==
  ASSUME NEW pc \in Pcs, NEW d \in Nat, NEW c \in Cycles
  PROVE  Period(pc, d, c) \in Flight /\ Period(pc, d, c).pc = pc /\ Period(pc, d, c).date = d
  BY IdleType DEF Flight, Period

-----------------------------------------------------------------------------
(* What a handler carries from one await to the next. *)

(* A status on its way to the plan is one a plan may be left in. *)
CarriesStatus(r) ==
  r.pc \in {"setStatus", "stripeCancel", "sync"} => r.status \in ActiveLike \cup {"CANCELLED"}

(* The date of a generation is still the plan's. *)
CarriesDate(r) ==
  /\ r.pc \in {"checkJob", "insertJob"} => r.date = plan.nextService
  /\ r.pc \in {"checkBill", "insertBill"} => r.date = plan.nextBilling

PlansInv == TypeOK /\ BilledOncePerPeriod /\ \A h \in Handlers : CarriesStatus(req[h])

(* Outside the plan's tables. *)
WorldOK ==
  /\ sub' \in {"none", "incomplete", "active", "canceled"} /\ (sub = "none" \/ sub' # "none")
  /\ events' \subseteq {"ACTIVE", "CANCELLED"}
  /\ today' \in Dates /\ jam' \in BOOLEAN /\ aborts' \in 0..MaxAborts

(* The row keeps its dates, and is not made or removed. *)
RowKept ==
  /\ plan' \in Plan /\ (plan'.linked => plan.linked)
  /\ plan'.nextService = plan.nextService /\ plan'.nextBilling = plan.nextBilling
  /\ plan.status \in {"ABSENT", "REMOVED"} => plan'.status = plan.status
  /\ plan'.status \in {"ABSENT", "REMOVED"} => plan.status = plan'.status

(* Handler h is left with r. *)
Leaves(h, r) == r \in Flight /\ CarriesStatus(r) /\ req' = [req EXCEPT ![h] = r]

(* A step that neither generates nor deletes. *)
Quiet(h) ==
  /\ WorldOK /\ RowKept /\ jobs' = jobs /\ bills' = bills
  /\ \E r \in Flight : Leaves(h, r) /\ (CarriesDate(req[h]) => CarriesDate(r))

LEMMA KeptPlan == ASSUME TypeOK, plan' = plan PROVE RowKept
  BY DEF TypeOK, RowKept

LEMMA KeptWorld == ASSUME TypeOK, UNCHANGED world PROVE WorldOK
  BY DEF TypeOK, WorldOK, world

LEMMA StatusKept ==
  ASSUME TypeOK, NEW st \in ActiveLike \cup {"CANCELLED", "EXPIRED"}, plan' = WithStatus(st)
  PROVE  RowKept
  BY DEF TypeOK, RowKept, WithStatus, Exists, ActiveLike, Plan, Status

LEMMA IdleCarries == CarriesStatus(Idle) /\ CarriesDate(Idle)
  BY IdleType DEF CarriesStatus, CarriesDate

(* A handler that is done. *)
LEMMA Done ==
  ASSUME PlansInv, NEW h \in Handlers, Becomes(h, Idle), RowKept, WorldOK, jobs' = jobs, bills' = bills
  PROVE  Quiet(h)
  BY IdleType, IdleCarries DEF Quiet, Leaves, Becomes

LEMMA BeginQuiet ==
  ASSUME PlansInv, NEW h \in Handlers, Begin(h)
  PROVE  Quiet(h)
<1>1. ASSUME NEW r \in Flight, Moves(h, r), CarriesStatus(r), CarriesDate(r) PROVE Quiet(h)
  BY <1>1, KeptPlan, KeptWorld DEF Quiet, Leaves, Moves, Becomes, PlansInv, tables
<1>2. CASE CreateStripe(h)
  <2> DEFINE r == [Idle EXCEPT !.pc = "insertPlan"]
  <2>1. r \in Flight /\ r.pc = "insertPlan"
    BY IdleType DEF Flight, Pcs
  <2>2. req' = [req EXCEPT ![h] = r] /\ UNCHANGED tables
    BY <1>2 DEF CreateStripe, Becomes
  <2> HIDE DEF r
  <2>3. CarriesStatus(r) /\ CarriesDate(r)
    BY <2>1 DEF CarriesStatus, CarriesDate
  <2>4. WorldOK
    BY <1>2 DEF CreateStripe, WorldOK, PlansInv, TypeOK
  <2> QED
    BY <2>1, <2>2, <2>3, <2>4, KeptPlan DEF Quiet, Leaves, PlansInv, tables
<1>3. ASSUME NEW pc \in {"setStatus", "stripeCancel", "sync", "record"},
             NEW st \in ActiveLike \cup {"CANCELLED"}, Moves(h, Setting(pc, st))
      PROVE  Quiet(h)
  <2>1. Setting(pc, st) \in Flight /\ Setting(pc, st).pc = pc /\ Setting(pc, st).status = st
    BY SettingType DEF Pcs, Status, ActiveLike
  <2>2. CarriesStatus(Setting(pc, st)) /\ CarriesDate(Setting(pc, st))
    BY <2>1 DEF CarriesStatus, CarriesDate
  <2> QED
    BY <1>1, <1>3, <2>1, <2>2
<1>4. CASE RemoveRead(h)
  <2>1. [Idle EXCEPT !.pc = "remove"] \in Flight /\ [Idle EXCEPT !.pc = "remove"].pc = "remove"
    BY IdleType DEF Flight, Pcs
  <2> QED
    BY <1>1, <1>4, <2>1 DEF RemoveRead, CarriesStatus, CarriesDate
<1>5. CASE SetStatusRead(h, "pause", "ACTIVE", "PAUSED") \/ SetStatusRead(h, "resume", "PAUSED", "ACTIVE")
  <2>1. Moves(h, Setting("setStatus", "PAUSED")) \/ Moves(h, Setting("setStatus", "ACTIVE"))
    BY <1>5 DEF SetStatusRead, Setting
  <2> QED
    BY <1>3, <2>1 DEF ActiveLike
<1>6. CASE CancelRead(h)
  <2>1. Moves(h, Setting("stripeCancel", "CANCELLED")) \/ Moves(h, Setting("setStatus", "CANCELLED"))
    BY <1>6 DEF CancelRead, Setting
  <2> QED
    BY <1>3, <2>1
<1>7. CASE ScanJobsRead(h) \/ GenerateNowRead(h)
  <2>1. Moves(h, Dated("checkJob", plan.nextService))
    BY <1>7 DEF ScanJobsRead, GenerateNowRead, Dated
  <2>2. plan.nextService \in Nat
    BY PlansAssumption DEF PlansInv, TypeOK, Plan, Dates
  <2> DEFINE r == Dated("checkJob", plan.nextService)
  <2>3. r \in Flight /\ r.pc = "checkJob" /\ r.date = plan.nextService
    BY <2>2, DatedType DEF Pcs
  <2>4. CarriesStatus(r) /\ CarriesDate(r)
    BY <2>3 DEF CarriesStatus, CarriesDate
  <2> QED
    BY <1>1, <2>1, <2>3, <2>4
<1>8. CASE ScanBillsRead(h)
  <2>1. Moves(h, Period("checkBill", plan.nextBilling, plan.cycle))
    BY <1>8 DEF ScanBillsRead, Period
  <2>2. plan.nextBilling \in Nat /\ plan.cycle \in Cycles
    BY DEF PlansInv, TypeOK, Plan
  <2> DEFINE r == Period("checkBill", plan.nextBilling, plan.cycle)
  <2>3. r \in Flight /\ r.pc = "checkBill" /\ r.date = plan.nextBilling
    BY <2>2, PeriodType DEF Pcs
  <2>4. CarriesStatus(r) /\ CarriesDate(r)
    BY <2>3 DEF CarriesStatus, CarriesDate
  <2> QED
    BY <1>1, <2>1, <2>3, <2>4
<1>9. CASE \E e \in Status : WebhookRead(h, e)
  <2>1. PICK e \in {"ACTIVE", "CANCELLED"}, pc \in {"sync", "record"} : Moves(h, Setting(pc, e))
    BY <1>9 DEF WebhookRead, Setting, PlansInv, TypeOK
  <2> QED
    BY <1>3, <2>1 DEF ActiveLike
<1> QED
  BY <1>2, <1>4, <1>5, <1>6, <1>7, <1>8, <1>9 DEF Begin

(* Everything else a handler does without generating or deleting. *)
LEMMA RestQuiet ==
  ASSUME PlansInv, NEW h \in Handlers,
         \/ Update(h) \/ ScanExpiry(h) \/ Abort(h)
         \/ SetStatusWrite(h) \/ CancelAtStripe(h) \/ CheckJob(h) \/ CheckBill(h)
         \/ WebhookWrite(h) \/ WebhookRecord(h)
  PROVE  Quiet(h)
<1> DEFINE f == req[h]
<1>0. f \in Flight /\ CarriesStatus(f) /\ req = [req EXCEPT ![h] = f] /\ TypeOK
  BY DEF PlansInv, TypeOK
<1>1. ASSUME req' = req, RowKept, WorldOK, jobs' = jobs, bills' = bills PROVE Quiet(h)
  BY <1>0, <1>1 DEF Quiet, Leaves
<1>2. ASSUME NEW pc \in Pcs, pc \notin {"setStatus", "sync"} \/ f.pc = "stripeCancel",
             pc = "insertJob" => f.pc = "checkJob", pc = "insertBill" => f.pc = "checkBill",
             pc \notin {"stripeCancel", "checkJob", "checkBill"},
             Becomes(h, [f EXCEPT !.pc = pc]), RowKept, WorldOK, jobs' = jobs, bills' = bills
      PROVE  Quiet(h)
  <2> DEFINE r == [f EXCEPT !.pc = pc]
  <2>1. r \in Flight /\ r.pc = pc /\ r.date = f.date /\ r.status = f.status
    BY <1>0, FlightSteps
  <2>2. req' = [req EXCEPT ![h] = r]
    BY <1>2 DEF Becomes
  <2> HIDE DEF r, f
  <2>3. CarriesStatus(r) /\ (CarriesDate(f) => CarriesDate(r))
    BY <1>0, <1>2, <2>1 DEF CarriesStatus, CarriesDate
  <2> QED
    BY <1>2, <2>1, <2>2, <2>3 DEF Quiet, Leaves, f
<1>3. CASE Update(h)
  <2>1. RowKept
    BY <1>0, <1>3 DEF Update, RowKept, TypeOK, Plan, Exists
  <2> QED
    BY <1>0, <1>1, <1>3, <2>1, KeptWorld DEF Update
<1>4. CASE ScanExpiry(h)
  <2>1. RowKept
    BY <1>0, <1>4 DEF ScanExpiry, RowKept, TypeOK, Plan, ActiveLike, Status
  <2> QED
    BY <1>0, <1>1, <1>4, <2>1, KeptWorld DEF ScanExpiry
<1>5. CASE Abort(h)
  <2>1. WorldOK
    BY <1>0, <1>5, PlansAssumption DEF Abort, WorldOK, TypeOK
  <2> QED
    BY <1>0, <1>5, <2>1, KeptPlan, Done DEF Abort, tables
<1>6. CASE SetStatusWrite(h)
  <2>1. f.status \in ActiveLike \cup {"CANCELLED"} /\ plan' = WithStatus(f.status)
    BY <1>0, <1>6 DEF SetStatusWrite, At, CarriesStatus
  <2> HIDE DEF f
  <2>2. RowKept
    BY <1>0, <2>1, StatusKept
  <2> QED
    BY <1>0, <1>6, <2>2, KeptWorld, Done DEF SetStatusWrite
<1>7. CASE CancelAtStripe(h)
  <2>1. WorldOK
    BY <1>0, <1>7 DEF CancelAtStripe, WorldOK, TypeOK
  <2>2. f.pc = "stripeCancel" /\ Becomes(h, [f EXCEPT !.pc = "setStatus"]) /\ UNCHANGED tables
    BY <1>7 DEF CancelAtStripe, At
  <2>3. RowKept
    BY <1>0, <2>2, KeptPlan DEF tables
  <2> HIDE DEF f
  <2> QED
    BY <1>2, <2>1, <2>2, <2>3 DEF tables, Pcs
<1>8. CASE CheckJob(h) \/ CheckBill(h)
  <2>1. UNCHANGED <<tables, world>>
    BY <1>8 DEF CheckJob, CheckBill, Moves
  <2>2. RowKept /\ WorldOK /\ jobs' = jobs /\ bills' = bills
    BY <1>0, <2>1, KeptPlan, KeptWorld DEF tables
  <2>3. \/ Becomes(h, Idle)
        \/ f.pc = "checkJob" /\ Becomes(h, [f EXCEPT !.pc = "insertJob"])
        \/ f.pc = "checkBill" /\ Becomes(h, [f EXCEPT !.pc = "insertBill"])
    BY <1>8 DEF CheckJob, CheckBill, Moves, At
  <2> HIDE DEF f
  <2> QED
    BY <1>2, <2>2, <2>3, Done DEF Pcs
<1>9. CASE WebhookWrite(h)
  <2>1. f.pc = "sync" /\ plan' = WithStatus(f.status) /\ UNCHANGED <<jobs, bills, world>>
        /\ (Becomes(h, [f EXCEPT !.pc = "record"]) \/ Becomes(h, Idle))
    BY <1>9 DEF WebhookWrite, At
  <2>2. f.status \in ActiveLike \cup {"CANCELLED"}
    BY <1>0, <2>1 DEF CarriesStatus
  <2> HIDE DEF f
  <2>3. RowKept /\ WorldOK
    BY <1>0, <2>1, <2>2, StatusKept, KeptWorld
  <2> QED
    BY <1>2, <2>1, <2>3, Done DEF Pcs
<1>10. CASE WebhookRecord(h)
  <2>1. WorldOK
    BY <1>0, <1>10 DEF WebhookRecord, WorldOK, TypeOK
  <2> QED
    BY <1>0, <1>10, <2>1, KeptPlan, Done DEF WebhookRecord, tables
<1> QED
  BY <1>3, <1>4, <1>5, <1>6, <1>7, <1>8, <1>9, <1>10

(* The world and the records of a plan: no handler takes a step.           *)
LEMMA ElsewhereQuiet ==
  ASSUME PlansInv, SubscriptionChanges \/ BatchChanges \/ DayPasses
  PROVE  WorldOK /\ UNCHANGED <<tables, req>>
<1>1. CASE SubscriptionChanges
  BY <1>1 DEF SubscriptionChanges, Stripe, WorldOK, PlansInv, TypeOK
<1>2. CASE DayPasses
  BY <1>2, PlansAssumption DEF DayPasses, WorldOK, PlansInv, TypeOK, Dates
<1>3. CASE BatchChanges
  BY <1>3 DEF BatchChanges, WorldOK, PlansInv, TypeOK
<1> QED
  BY <1>1, <1>2, <1>3

LEMMA QuietPlans == ASSUME PlansInv, NEW h \in Handlers, Quiet(h) PROVE PlansInv'
<1>1. PICK r \in Flight : Leaves(h, r)
  BY DEF Quiet
<1>2. req' \in [Handlers -> Flight] /\ \A g \in Handlers : CarriesStatus(req'[g])
  BY <1>1 DEF Leaves, PlansInv, TypeOK
<1>3. WorldOK /\ RowKept /\ jobs' = jobs /\ bills' = bills
  BY DEF Quiet
<1>4. TypeOK'
  BY <1>2, <1>3 DEF TypeOK, PlansInv, WorldOK, RowKept
<1> QED
  BY <1>2, <1>3, <1>4 DEF PlansInv, BilledOncePerPeriod, CarriesStatus

-----------------------------------------------------------------------------
(* The steps that make and delete rows. *)

LEMMA InsertPlanEffect ==
  ASSUME PlansInv, NEW h \in Handlers, InsertPlan(h)
  PROVE  /\ plan' \in Plan /\ plan.status = "ABSENT" /\ plan'.status = "ACTIVE"
         /\ plan'.nextService = 0 /\ plan'.nextBilling = 0 /\ (plan'.linked => sub # "none")
<1>1. PICK c \in Cycles, own \in BOOLEAN, e \in Ends \cup {-1} :
        plan' = [NoPlan EXCEPT !.status = "ACTIVE", !.own = own, !.cycle = c, !.endDate = e, !.linked = Subscribed]
  BY DEF InsertPlan
<1>2. Subscribed \in BOOLEAN
  BY DEF Subscribed
<1> QED
  BY <1>1, <1>2, NoPlanType DEF InsertPlan, Plan, Status, Subscribed

LEMMA InsertJobEffect ==
  ASSUME PlansInv, NEW h \in Handlers, InsertJob(h), Exists, plan.own
  PROVE  /\ plan' \in Plan /\ plan'.status = plan.status /\ plan'.linked = plan.linked
         /\ plan'.nextService = req[h].date + 1 /\ plan'.nextBilling = plan.nextBilling
         /\ req[h].date \in Dates /\ jobs' = [jobs EXCEPT ![req[h].date] = @ + 1]
<1>1. req[h].date \in Nat /\ req[h].date < MaxDate
  BY DEF InsertJob, PlansInv, TypeOK, Flight
<1>2. req[h].date \in Dates /\ req[h].date + 1 \in Dates
  BY <1>1, PlansAssumption DEF Dates
<1> QED
  BY <1>2 DEF InsertJob, Serviced, PlansInv, TypeOK, Plan

LEMMA InsertBillEffect ==
  ASSUME PlansInv, NEW h \in Handlers, InsertBill(h), Exists, PeriodFree(req[h].date, req[h].cycle)
  PROVE  /\ plan' \in Plan /\ plan'.status = plan.status /\ plan'.linked = plan.linked
         /\ plan'.nextBilling = req[h].date + req[h].cycle /\ plan'.nextService = plan.nextService
         /\ bills' = [bills EXCEPT ![<<req[h].date, req[h].cycle>>] = @ + 1]
<1>1. req[h].date \in Nat /\ req[h].cycle \in Nat
  BY PlansAssumption DEF PlansInv, TypeOK, Flight
<1> QED
  BY <1>1 DEF InsertBill, Billed, PlansInv, TypeOK, Plan

(* A generation that is refused: the plan is gone or has no user for a job *)
(* to be created by, or the period is billed.                              *)
LEMMA NothingInserted ==
  ASSUME PlansInv, NEW h \in Handlers,
         \/ InsertJob(h) /\ ~(Exists /\ plan.own)
         \/ InsertBill(h) /\ ~(Exists /\ PeriodFree(req[h].date, req[h].cycle))
  PROVE  Quiet(h)
<1>1. plan' = plan /\ UNCHANGED world /\ jobs' = jobs /\ bills' = bills /\ Becomes(h, Idle)
  BY DEF InsertJob, InsertBill
<1> QED
  BY <1>1, KeptPlan, KeptWorld, Done DEF PlansInv

LEMMA RemoveEffect ==
  ASSUME PlansInv, NEW h \in Handlers, RemoveWrite(h)
  PROVE  /\ plan' \in Plan /\ plan'.status = "REMOVED" /\ plan'.linked = plan.linked
         /\ plan'.nextBilling = plan.nextBilling
         /\ jobs' = [d \in Dates |-> 0] /\ bills' = [b \in Dates \X Cycles |-> 0]
  BY DEF RemoveWrite, PlansInv, TypeOK, Plan, Status

LEMMA PlansInit == Init => PlansInv
<1> SUFFICES ASSUME Init PROVE PlansInv
  OBVIOUS
<1>0. jam \in BOOLEAN /\ ~plan.linked /\ plan \in Plan
  BY NoPlanType DEF Init
<1>1. TypeOK
  BY <1>0, IdleType, PlansAssumption DEF Init, TypeOK, Dates
<1>2. \A h \in Handlers : CarriesStatus(req[h])
  BY IdleCarries DEF Init
<1> QED
  BY <1>1, <1>2 DEF Init, PlansInv, BilledOncePerPeriod

LEMMA PlansNext == ASSUME PlansInv, [Next]_vars PROVE PlansInv'
<1>0. /\ plan \in Plan /\ jobs \in [Dates -> Nat] /\ bills \in [Dates \X Cycles -> Nat]
      /\ req \in [Handlers -> Flight]
  BY DEF PlansInv, TypeOK
<1>1. ASSUME NEW h \in Handlers, Becomes(h, Idle), UNCHANGED world, plan' \in Plan,
             plan'.linked => sub # "none",
             jobs' \in [Dates -> Nat], bills' \in [Dates \X Cycles -> Nat], BilledOncePerPeriod'
      PROVE  PlansInv'
  <2>1. req' \in [Handlers -> Flight] /\ \A g \in Handlers : CarriesStatus(req'[g])
    BY <1>0, <1>1, IdleType, IdleCarries DEF Becomes, PlansInv
  <2>2. TypeOK'
    BY <1>1, <2>1 DEF TypeOK, PlansInv, world
  <2> QED
    BY <1>1, <2>1, <2>2 DEF PlansInv, CarriesStatus
<1>2. ASSUME NEW h \in Handlers, InsertPlan(h) PROVE PlansInv'
  BY <1>0, <1>1, <1>2, InsertPlanEffect DEF InsertPlan, PlansInv, BilledOncePerPeriod
<1>3. ASSUME NEW h \in Handlers, RemoveWrite(h) PROVE PlansInv'
  <2>1. BilledOncePerPeriod'
    BY <1>3, RemoveEffect DEF BilledOncePerPeriod
  <2> QED
    BY <1>1, <1>3, <2>1, RemoveEffect DEF RemoveWrite, PlansInv, TypeOK
<1>4. ASSUME NEW h \in Handlers, InsertJob(h), Exists, plan.own PROVE PlansInv'
  <2>1. jobs' \in [Dates -> Nat]
    BY <1>0, <1>4, InsertJobEffect
  <2> QED
    BY <1>0, <1>1, <1>4, <2>1, InsertJobEffect DEF InsertJob, PlansInv, TypeOK, BilledOncePerPeriod
<1>5. ASSUME NEW h \in Handlers, InsertBill(h), Exists, PeriodFree(req[h].date, req[h].cycle)
      PROVE  PlansInv'
  <2> DEFINE p == <<req[h].date, req[h].cycle>>
  <2>1. bills' = [bills EXCEPT ![p] = @ + 1] /\ bills[p] = 0
    BY <1>5, InsertBillEffect DEF PeriodFree
  <2> HIDE DEF p
  <2>2. bills' \in [Dates \X Cycles -> Nat] /\ \A b \in Dates \X Cycles : bills'[b] <= 1
    <3>1. \A b \in Dates \X Cycles : bills[b] \in Nat /\ bills[b] <= 1
      BY <1>0 DEF PlansInv, BilledOncePerPeriod
    <3>2. \A b \in Dates \X Cycles : bills'[b] = IF b = p THEN 1 ELSE bills[b]
      BY <1>0, <2>1
    <3>3. bills' = [b \in Dates \X Cycles |-> bills'[b]]
      BY <1>0, <2>1
    <3> QED
      BY <3>1, <3>2, <3>3
  <2>3. BilledOncePerPeriod'
    BY <2>2 DEF BilledOncePerPeriod
  <2> QED
    BY <1>0, <1>1, <1>5, <2>2, <2>3, InsertBillEffect DEF InsertBill, PlansInv, TypeOK
<1>6. ASSUME UNCHANGED <<plan, req, world>>,
             jobs' \in [Dates -> Nat], bills' \in [Dates \X Cycles -> Nat], BilledOncePerPeriod'
      PROVE  PlansInv'
  BY <1>6 DEF PlansInv, TypeOK, CarriesStatus, world
<1>7. ASSUME NEW d \in Dates, JobDeleted(d) PROVE PlansInv'
  <2>1. jobs' \in [Dates -> Nat]
    BY <1>0, <1>7 DEF JobDeleted
  <2> QED
    BY <1>0, <1>6, <1>7, <2>1 DEF JobDeleted, PlansInv, BilledOncePerPeriod
<1>8. ASSUME NEW b \in Dates \X Cycles, InvoiceDeleted(b) PROVE PlansInv'
  <2>1. bills' \in [Dates \X Cycles -> Nat] /\ \A c \in Dates \X Cycles : bills'[c] <= 1
    BY <1>0, <1>8 DEF InvoiceDeleted, PlansInv, BilledOncePerPeriod
  <2>2. BilledOncePerPeriod'
    BY <2>1 DEF BilledOncePerPeriod
  <2> QED
    BY <1>0, <1>6, <1>8, <2>1, <2>2 DEF InvoiceDeleted
<1>9. CASE SubscriptionChanges \/ BatchChanges \/ DayPasses
  BY <1>9, ElsewhereQuiet DEF PlansInv, TypeOK, WorldOK, tables, BilledOncePerPeriod, CarriesStatus
<1>10. CASE UNCHANGED vars
  BY <1>10 DEF vars, PlansInv, TypeOK, BilledOncePerPeriod, CarriesStatus
<1>11. ASSUME NEW h \in Handlers, Step(h) PROVE PlansInv'
  BY <1>2, <1>3, <1>4, <1>5, <1>11, BeginQuiet, RestQuiet, NothingInserted, QuietPlans
     DEF Step, Resume
<1> QED
  BY <1>7, <1>8, <1>9, <1>10, <1>11 DEF Next, Elsewhere

(* However handlers overlap and wherever they die: the rows and what the   *)
(* handlers carry keep their types, and a plan that keeps a subscription's *)
(* id has one (create, trySetUpStripe).                                    *)
THEOREM TypeCorrect == Spec => []TypeOK
<1>1. PlansInv => TypeOK
  BY DEF PlansInv
<1> QED
  BY <1>1, PlansInit, PlansNext, PTL DEF Spec

(* No period is billed twice, even if the scan runs twice (billPlan): the  *)
(* unique index holds against every interleaving.                          *)
THEOREM NeverBilledTwice == Spec => []BilledOncePerPeriod
<1>1. PlansInv => BilledOncePerPeriod
  BY DEF PlansInv
<1> QED
  BY <1>1, PlansInit, PlansNext, PTL DEF Spec

-----------------------------------------------------------------------------
(* Handlers that do not overlap. *)

Periods == Dates \X Cycles

(* What a plan without rows, or gone, has left. *)
NoLinks == (\A d \in Dates : jobs[d] = 0) /\ (\A b \in Periods : bills[b] = 0)

(* No date from the next one on has a job. *)
AheadOpen == Exists => \A d \in Dates : plan.nextService <= d => jobs[d] = 0

SerialInv ==
  /\ PlansInv
  /\ plan.status = "ABSENT" => NoLinks
  /\ AheadOpen /\ OneJobPerDueDate /\ PeriodsTile
  /\ \A h \in Handlers : CarriesDate(req[h])

OneHandler == \A g, h \in Handlers : g = h

OthersIdle(h) == \A g \in Handlers \ {h} : req[g].pc = "idle"

LEMMA PeriodsNat == \A b \in Periods : b[1] \in Nat /\ b[2] \in Nat
<1> SUFFICES ASSUME NEW b \in Periods PROVE b[1] \in Nat /\ b[2] \in Nat
  OBVIOUS
<1>1. PICK d \in Dates, c \in Cycles : b = <<d, c>>
  BY DEF Periods
<1>2. d \in Nat /\ c \in Nat
  BY PlansAssumption DEF Dates
<1> QED
  BY <1>1, <1>2

(* Steps that keep the dates only ever take links away. *)
LEMMA FewerLinks ==
  ASSUME SerialInv, RowKept,
         \A d \in Dates : jobs'[d] \in Nat /\ jobs'[d] <= jobs[d],
         \A b \in Periods : bills'[b] \in Nat /\ bills'[b] <= bills[b]
  PROVE  (plan'.status = "ABSENT" => NoLinks') /\ AheadOpen' /\ OneJobPerDueDate' /\ PeriodsTile'
<1>0. jobs \in [Dates -> Nat] /\ bills \in [Periods -> Nat]
  BY DEF SerialInv, PlansInv, TypeOK, Periods
<1>1. plan'.status = "ABSENT" => NoLinks'
  BY <1>0 DEF SerialInv, RowKept, NoLinks
<1>2. AheadOpen'
  BY <1>0 DEF SerialInv, RowKept, AheadOpen, Exists
<1>3. OneJobPerDueDate'
  BY <1>0 DEF SerialInv, OneJobPerDueDate
<1>4. \A b \in Periods : bills'[b] > 0 => bills[b] > 0
  BY <1>0
<1>5. PeriodsTile'
  <2>1. plan'.nextBilling = plan.nextBilling /\ PeriodsTile
    BY DEF SerialInv, RowKept
  <2>2. \A b \in Periods : bills'[b] > 0 => b[1] + b[2] <= plan'.nextBilling
    BY <1>4, <2>1 DEF PeriodsTile, Periods
  <2>3. \A a, b \in Periods : bills'[a] > 0 /\ bills'[b] > 0 /\ a # b => a[1] + a[2] <= b[1] \/ b[1] + b[2] <= a[1]
    BY <1>4, <2>1 DEF PeriodsTile, Periods
  <2> QED
    BY <2>2, <2>3 DEF PeriodsTile, Periods
<1> QED
  BY <1>1, <1>2, <1>3, <1>5

(* The only handler in flight takes a step. *)
LEMMA StepSerial ==
  ASSUME SerialInv, PlansInv', NEW h \in Handlers, OthersIdle(h), Step(h)
  PROVE  SerialInv' /\ OthersIdle(h)'
<1>0. /\ plan \in Plan /\ jobs \in [Dates -> Nat] /\ bills \in [Periods -> Nat]
      /\ req \in [Handlers -> Flight] /\ PlansInv
  BY DEF SerialInv, PlansInv, TypeOK, Periods
<1>1. ASSUME Quiet(h) PROVE SerialInv' /\ OthersIdle(h)'
  <2>1. PICK r \in Flight : Leaves(h, r) /\ CarriesDate(r)
    BY <1>1 DEF Quiet, SerialInv
  <2>2. RowKept /\ jobs' = jobs /\ bills' = bills
    BY <1>1 DEF Quiet
  <2>3. req'[h] = r /\ \A g \in Handlers \ {h} : req'[g] = req[g]
    BY <1>0, <2>1 DEF Leaves
  <2>4. CarriesDate(req[h])'
    BY <2>1, <2>2, <2>3 DEF CarriesDate, RowKept
  <2>5. OthersIdle(h)'
    BY <2>3 DEF OthersIdle
  <2>6. \A g \in Handlers : CarriesDate(req[g])'
    BY <2>4, <2>5 DEF OthersIdle, CarriesDate
  <2> QED
    BY <1>0, <2>2, <2>5, <2>6, FewerLinks DEF SerialInv
<1>2. ASSUME Becomes(h, Idle)
      PROVE  OthersIdle(h)' /\ \A g \in Handlers : CarriesDate(req[g])'
  <2>1. req'[h].pc = "idle" /\ \A g \in Handlers \ {h} : req'[g] = req[g]
    BY <1>0, <1>2, IdleType DEF Becomes
  <2> QED
    BY <2>1 DEF OthersIdle, CarriesDate
<1>3. ASSUME InsertPlan(h) PROVE SerialInv' /\ OthersIdle(h)'
  <2>1. plan.status = "ABSENT" /\ plan'.status = "ACTIVE" /\ jobs' = jobs /\ bills' = bills /\ Becomes(h, Idle)
    BY <1>0, <1>3, InsertPlanEffect DEF InsertPlan
  <2>2. NoLinks'
    BY <2>1 DEF SerialInv, NoLinks
  <2> QED
    BY <1>2, <2>1, <2>2 DEF SerialInv, NoLinks, AheadOpen, OneJobPerDueDate, PeriodsTile, Periods
<1>4. ASSUME RemoveWrite(h) PROVE SerialInv' /\ OthersIdle(h)'
  <2>1. plan'.status = "REMOVED" /\ NoLinks' /\ Becomes(h, Idle)
    BY <1>0, <1>4, RemoveEffect DEF NoLinks, RemoveWrite, Periods
  <2> QED
    BY <1>2, <2>1 DEF SerialInv, NoLinks, AheadOpen, Exists, OneJobPerDueDate, PeriodsTile, Periods
<1>5. ASSUME InsertJob(h), Exists, plan.own PROVE SerialInv' /\ OthersIdle(h)'
  <2> DEFINE d == req[h].date
  <2>1. /\ d \in Dates /\ plan'.nextService = d + 1 /\ plan'.nextBilling = plan.nextBilling
        /\ plan'.status = plan.status /\ jobs' = [jobs EXCEPT ![d] = @ + 1] /\ bills' = bills
        /\ Becomes(h, Idle)
    BY <1>0, <1>5, InsertJobEffect DEF InsertJob
  <2>2. d = plan.nextService
    BY <1>5 DEF SerialInv, CarriesDate, InsertJob, At
  <2> HIDE DEF d
  <2>3. plan.nextService \in Nat /\ \A e \in Dates : e \in Nat
    BY <1>0, PlansAssumption DEF Plan, Dates
  <2>4. \A e \in Dates : plan.nextService <= e => jobs[e] = 0
    BY <1>5 DEF SerialInv, AheadOpen
  <2>5. jobs'[d] = 1 /\ \A e \in Dates : e # d => jobs'[e] = jobs[e]
    BY <1>0, <2>1, <2>2, <2>3, <2>4
  <2>6. AheadOpen' /\ OneJobPerDueDate'
    BY <2>1, <2>2, <2>3, <2>4, <2>5 DEF SerialInv, AheadOpen, OneJobPerDueDate
  <2>7. PeriodsTile'
    BY <2>1 DEF SerialInv, PeriodsTile
  <2>8. plan'.status # "ABSENT"
    BY <1>5, <2>1 DEF Exists
  <2> QED
    BY <1>2, <2>1, <2>6, <2>7, <2>8 DEF SerialInv
<1>6. ASSUME InsertBill(h), Exists, PeriodFree(req[h].date, req[h].cycle)
      PROVE  SerialInv' /\ OthersIdle(h)'
  <2> DEFINE p == <<req[h].date, req[h].cycle>>
  <2>1. /\ plan'.nextBilling = p[1] + p[2] /\ plan'.nextService = plan.nextService
        /\ plan'.status = plan.status /\ bills' = [bills EXCEPT ![p] = @ + 1] /\ jobs' = jobs
        /\ Becomes(h, Idle)
    BY <1>0, <1>6, InsertBillEffect DEF InsertBill
  <2>2. p[1] = plan.nextBilling /\ p[1] \in Nat /\ p[2] \in Nat /\ p = <<p[1], p[2]>>
    BY <1>0, <1>6, PlansAssumption DEF SerialInv, CarriesDate, InsertBill, At, Flight
  <2> HIDE DEF p
  <2>3. \A b \in Periods : bills'[b] > 0 => b = p \/ bills[b] > 0
    BY <1>0, <2>1
  <2>4. \A b \in Periods : bills[b] > 0 => b[1] + b[2] <= p[1]
    BY <2>2 DEF SerialInv, PeriodsTile, Periods
  <2>5. \A a, b \in Periods : bills[a] > 0 /\ bills[b] > 0 /\ a # b => a[1] + a[2] <= b[1] \/ b[1] + b[2] <= a[1]
    BY DEF SerialInv, PeriodsTile, Periods
  <2>6. \A b \in Periods : bills'[b] > 0 => b[1] + b[2] <= plan'.nextBilling
    BY <2>1, <2>2, <2>3, <2>4, PeriodsNat
  <2>7. \A a, b \in Periods : bills'[a] > 0 /\ bills'[b] > 0 /\ a # b => a[1] + a[2] <= b[1] \/ b[1] + b[2] <= a[1]
    BY <2>3, <2>4, <2>5
  <2>8. PeriodsTile'
    BY <2>6, <2>7 DEF PeriodsTile, Periods
  <2>9. plan'.status # "ABSENT" /\ AheadOpen' /\ OneJobPerDueDate'
    BY <1>6, <2>1 DEF SerialInv, Exists, AheadOpen, OneJobPerDueDate
  <2> QED
    BY <1>2, <2>1, <2>8, <2>9 DEF SerialInv
<1> QED
  BY <1>0, <1>1, <1>3, <1>4, <1>5, <1>6, BeginQuiet, RestQuiet, NothingInserted DEF Step, Resume

(* A step of nobody's. *)
LEMMA ElsewhereSerial ==
  ASSUME SerialInv, PlansInv', Elsewhere \/ UNCHANGED vars
  PROVE  SerialInv' /\ req' = req
<1>0. /\ plan \in Plan /\ jobs \in [Dates -> Nat] /\ bills \in [Periods -> Nat]
      /\ req \in [Handlers -> Flight] /\ PlansInv
  BY DEF SerialInv, PlansInv, TypeOK, Periods
<1>1. ASSUME UNCHANGED <<plan, req>>,
             \A d \in Dates : jobs'[d] \in Nat /\ jobs'[d] <= jobs[d],
             \A b \in Periods : bills'[b] \in Nat /\ bills'[b] <= bills[b]
      PROVE  SerialInv' /\ req' = req
  <2>1. RowKept
    BY <1>0, <1>1, KeptPlan DEF PlansInv
  <2> QED
    BY <1>1, <2>1, FewerLinks DEF SerialInv, CarriesDate
<1>2. ASSUME NEW d \in Dates, JobDeleted(d) PROVE SerialInv' /\ req' = req
  <2>1. jobs' = [jobs EXCEPT ![d] = @ - 1] /\ jobs[d] > 0 /\ bills' = bills /\ UNCHANGED <<plan, req>>
    BY <1>2 DEF JobDeleted
  <2>2. \A e \in Dates : jobs'[e] \in Nat /\ jobs'[e] <= jobs[e]
    BY <1>0, <2>1
  <2> QED
    BY <1>0, <1>1, <2>1, <2>2
<1>3. ASSUME NEW p \in Periods, InvoiceDeleted(p) PROVE SerialInv' /\ req' = req
  <2>1. bills' = [bills EXCEPT ![p] = @ - 1] /\ bills[p] > 0 /\ jobs' = jobs /\ UNCHANGED <<plan, req>>
    BY <1>3 DEF InvoiceDeleted
  <2>2. \A b \in Periods : bills'[b] \in Nat /\ bills'[b] <= bills[b]
    BY <1>0, <2>1
  <2> QED
    BY <1>0, <1>1, <2>1, <2>2
<1>4. CASE SubscriptionChanges \/ BatchChanges \/ DayPasses
  BY <1>0, <1>1, <1>4, ElsewhereQuiet DEF tables
<1>5. CASE UNCHANGED vars
  BY <1>0, <1>1, <1>5 DEF vars
<1> QED
  BY <1>2, <1>3, <1>4, <1>5 DEF Elsewhere, Periods

LEMMA SerialInit == Init => SerialInv
<1> SUFFICES ASSUME Init PROVE SerialInv
  OBVIOUS
<1>1. plan.status = "ABSENT" /\ NoLinks
  BY NoPlanType DEF Init, NoLinks, Periods
<1>2. \A h \in Handlers : CarriesDate(req[h])
  BY IdleType DEF Init, CarriesDate
<1> QED
  BY <1>1, <1>2, PlansInit DEF SerialInv, NoLinks, AheadOpen, Exists, OneJobPerDueDate, PeriodsTile, Periods

LEMMA SerialMeans == SerialInv => OneJobPerDueDate /\ NextDateOpen /\ PeriodsTile
<1>1. SerialInv => plan.nextService \in Dates /\ plan.nextService <= plan.nextService
  BY PlansAssumption DEF SerialInv, PlansInv, TypeOK, Plan, Dates
<1> QED
  BY <1>1 DEF SerialInv, AheadOpen, NextDateOpen

LEMMA OneSerial == ASSUME OneHandler PROVE Spec => []SerialInv
<1>1. ASSUME SerialInv, [Next]_vars PROVE SerialInv'
  <2>1. PlansInv'
    BY <1>1, PlansNext DEF SerialInv
  <2> QED
    BY <1>1, <2>1, StepSerial, ElsewhereSerial DEF Next, OneHandler, OthersIdle
<1> QED
  BY <1>1, SerialInit, PTL DEF Spec

(* Handlers that do not overlap make one job for a due date, and the next  *)
(* due date is always open: no generation finds it taken and skips it,     *)
(* whatever is edited, deleted or dies in between (generateForPlan).       *)
THEOREM SerialJobs == ASSUME OneHandler PROVE Spec => [](OneJobPerDueDate /\ NextDateOpen)
  BY SerialMeans, OneSerial, PTL

(* The bills of handlers that do not overlap cover time that is billed     *)
(* once, though the billing cycle is edited between them (billPlan).       *)
THEOREM SerialBills == ASSUME OneHandler PROVE Spec => []PeriodsTile
  BY SerialMeans, OneSerial, PTL

-----------------------------------------------------------------------------
(* The scenarios of MCServicePlans: the first handler alone, or any number *)
(* of them that bill.                                                      *)

ScenariosInv == PlansInv /\ (Serial => SerialInv /\ OthersIdle(FirstHandler))

LEMMA FirstIsOne == FirstHandler \in Handlers
  BY PlansAssumption DEF FirstHandler

LEMMA ScenariosInit == MCInit => ScenariosInv
  BY PlansInit, SerialInit, IdleType DEF MCInit, ScenariosInv, Init, OthersIdle

LEMMA ScenariosStep == ASSUME ScenariosInv, [MCNext]_<<vars, scenario>> PROVE ScenariosInv'
<1>1. [Next]_vars /\ scenario' = scenario
  BY FirstIsOne DEF MCNext, SerialNext, BookedNext, Next
<1>2. PlansInv'
  BY <1>1, PlansNext DEF ScenariosInv
<1>3. CASE Serial
  <2>1. Step(FirstHandler) \/ Elsewhere \/ UNCHANGED vars
    BY <1>3 DEF MCNext, SerialNext, BookedNext, Serial
  <2> QED
    BY <1>1, <1>2, <1>3, <2>1, FirstIsOne, StepSerial, ElsewhereSerial DEF ScenariosInv, OthersIdle
<1> QED
  BY <1>1, <1>2, <1>3 DEF ScenariosInv, Serial

LEMMA ScenariosInvariant == MCSpec => []ScenariosInv
  BY ScenariosInit, ScenariosStep, PTL DEF MCSpec

(* With handlers one after the other, and jobs deleted, days passing and   *)
(* the subscription changing between any two awaits, the next due date of  *)
(* a plan is free: the hourly scan never skips it for ever.                *)
THEOREM DueDateStaysOpen == MCSpec => []SerialNextDateOpen
<1>1. ScenariosInv => SerialNextDateOpen
  BY SerialMeans DEF ScenariosInv, SerialNextDateOpen
<1> QED
  BY <1>1, ScenariosInvariant, PTL

(* With handlers one after the other the billed periods neither overlap    *)
(* nor reach past the next billing date, whatever becomes of the cycle and *)
(* of the invoices in between.                                             *)
THEOREM PeriodsStayTiled == MCSpec => []SerialPeriodsTile
<1>1. ScenariosInv => SerialPeriodsTile
  BY SerialMeans DEF ScenariosInv, SerialPeriodsTile
<1> QED
  BY <1>1, ScenariosInvariant, PTL
=============================================================================
