------------------------------- MODULE WebApi -------------------------------
(* What the endpoints behind the web application's screens read, write and   *)
(* refuse, one definition per service of the API: the tables an answer is    *)
(* made from, the tables a request changes, and, where a request depends on  *)
(* a status, the moves of that status it accepts. Contents of rows, searches *)
(* and pages are left out; the services' own races are in the modules about  *)
(* them (WorkOrders, InvoiceLedger, ServicePlans, TimeEntries, Accounts).    *)
EXTENDS TLC

Endpoint(e, R, W, M) == [at |-> e, reads |-> R, writes |-> W, moves |-> M]

Get(e, R) == Endpoint(e, R, {}, {})

Post(e, W) == Endpoint(e, {}, W, {})

(* A request that a row's status allows or refuses, and what it becomes.     *)
Move(e, W, M) == Endpoint(e, {}, W, M)

Stay(S) == {<<s, s>> : s \in S}

To(S, t) == S \X {t}

-----------------------------------------------------------------------------
(* Jobs *)

JobStatus == {"SCHEDULED", "IN_PROGRESS", "ON_HOLD", "COMPLETED", "CANCELLED"}

Transitions ==
  ("SCHEDULED" :> {"IN_PROGRESS", "ON_HOLD", "CANCELLED"})
    @@ ("IN_PROGRESS" :> {"ON_HOLD", "COMPLETED", "CANCELLED"})
    @@ ("ON_HOLD" :> {"SCHEDULED", "IN_PROGRESS", "CANCELLED"})
    @@ ("COMPLETED" :> {}) @@ ("CANCELLED" :> {})

JobReads ==
  {Get(e, {"job", "customer"}) : e \in {"jobs.list", "jobs.today", "jobs.calendar", "jobs.unscheduled"}}
    \cup {Get("jobs.findOne", {"job", "customer", "photo", "message", "entry"}), Get("jobs.photos", {"photo"})}

JobWrites ==
  {Post("jobs.create", {"job"}),
   Post("jobs.update", {"job"}),
   Move("jobs.updateStatus", {"job"}, {p \in JobStatus \X JobStatus : p[2] \in Transitions[p[1]]}),
   Move("jobs.onMyWay", {"job", "message"}, Stay(JobStatus)),
   Move("jobs.complete", {"job"}, To(JobStatus \ {"COMPLETED", "CANCELLED"}, "COMPLETED")),
   Post("jobs.addPhoto", {"photo"}),
   Post("jobs.addSignature", {"photo"})}

ScheduleService ==
  {Get("schedule.list", {"event", "job"})}
    \cup {Post(e, {"event"}) : e \in {"schedule.create", "schedule.update", "schedule.remove"}}

-----------------------------------------------------------------------------
(* Customers and what belongs to them; removing one removes all of it.       *)
CustomersService ==
  {Get("customers.list", {"customer"}),
   Get("customers.findOne", {"customer"}),
   Get("customers.jobs", {"customer", "job"}),
   Get("customers.invoices", {"customer", "invoice"}),
   Get("customers.estimates", {"customer", "estimate"}),
   Get("customers.servicePlans", {"customer", "plan"}),
   Get("customers.equipment", {"customer", "equipment"}),
   Post("customers.create", {"customer"}),
   Post("customers.update", {"customer"}),
   Post("customers.remove", {"customer", "job", "invoice", "estimate", "plan", "equipment", "message"}),
   Post("customers.addEquipment", {"equipment"}),
   Post("customers.updateEquipment", {"equipment"}),
   Post("customers.removeEquipment", {"equipment"})}

PriceBookService ==
  {Get("priceBook.list", {"price"})}
    \cup {Post(e, {"price"}) : e \in {"priceBook.create", "priceBook.update", "priceBook.remove", "priceBook.import"}}

(* Reading a thread marks it read; sending stores the text whether or not    *)
(* the provider took it.                                                     *)
MessagesService ==
  {Get("messages.list", {"message"}),
   Get("messages.unreadCount", {"message"}),
   Post("messages.send", {"message"}),
   Post("messages.provisionNumber", {"org"}),
   Get("messages.templates", {"template"}),
   Post("messages.createTemplate", {"template"}),
   Post("messages.updateTemplate", {"template"}),
   Post("messages.removeTemplate", {"template"})}

-----------------------------------------------------------------------------
(* Invoices, estimates and plans; a CONVERTED estimate is one with a job.   *)

InvoiceStatus == {"DRAFT", "SENT", "VIEWED", "PARTIAL", "PAID", "OVERDUE", "VOID"}

OpenInvoice == InvoiceStatus \ {"PAID", "VOID"}

InvoicesService ==
  {Get("invoices.list", {"invoice", "customer"}),
   Get("invoices.findOne", {"invoice", "customer", "payment"}),
   Get("invoices.arSummary", {"invoice"}),
   Post("invoices.create", {"invoice", "job"}),
   Move("invoices.send", {"invoice"}, {<<"DRAFT", "SENT">>} \cup Stay(OpenInvoice \ {"DRAFT"})),
   Move("invoices.recordPayment", {"invoice", "payment"}, OpenInvoice \X {"PARTIAL", "PAID"})}

EstimateStatus == {"DRAFT", "SENT", "VIEWED", "APPROVED", "DECLINED", "EXPIRED", "CONVERTED"}

EstimatesService ==
  {Get("estimates.list", {"estimate", "customer"}),
   Get("estimates.findOne", {"estimate", "customer"}),
   Post("estimates.create", {"estimate"}),
   Move("estimates.send", {"estimate"}, To({"DRAFT", "SENT"}, "SENT")),
   Move("estimates.convertToJob", {"estimate", "job"}, To(EstimateStatus \ {"DECLINED", "EXPIRED", "CONVERTED"}, "CONVERTED"))}

PlanStatus == {"ACTIVE", "PAUSED", "CANCELLED", "EXPIRED"}

PlansService ==
  {Get("plans.list", {"plan", "customer"}),
   Get("plans.dashboard", {"plan"}),
   Get("plans.findOne", {"plan", "customer", "job", "invoice"}),
   Post("plans.create", {"plan"}),
   Move("plans.pause", {"plan"}, {<<"ACTIVE", "PAUSED">>}),
   Move("plans.resume", {"plan"}, {<<"PAUSED", "ACTIVE">>}),
   Move("plans.cancel", {"plan"}, To({"ACTIVE", "PAUSED"}, "CANCELLED")),
   Move("plans.generateJob", {"plan", "job"}, {<<"ACTIVE", "ACTIVE">>})}

-----------------------------------------------------------------------------
(* Booking *)

RequestStatus == {"PENDING", "CONFIRMED", "DECLINED", "CANCELLED"}

BookingRequests ==
  {Get("booking.requests", {"request"}),
   Move("booking.confirm", {"request", "job", "customer"}, {<<"PENDING", "CONFIRMED">>}),
   Move("booking.decline", {"request"}, {<<"PENDING", "DECLINED">>}),
   Move("booking.reschedule", {"request"}, {<<"PENDING", "PENDING">>})}

BookingSetup ==
  {Get("booking.services", {"offering"}), Post("booking.setBookable", {"offering"}),
   Get("booking.planTemplates", {"plan", "customer"}), Post("booking.setPublic", {"plan"}),
   Get("booking.availability", {"slot"}), Post("booking.addAvailability", {"slot"}),
   Post("booking.removeAvailability", {"slot"}),
   Get("booking.blackouts", {"blackout"}), Post("booking.addBlackout", {"blackout"}),
   Post("booking.removeBlackout", {"blackout"}),
   Get("booking.settings", {"org"}), Post("booking.updateSettings", {"org"})}

-----------------------------------------------------------------------------
(* People, time and the organization *)

EntryStatus == {"ACTIVE", "COMPLETED", "APPROVED", "REJECTED"}

(* Of one user: clocked out, clocked in, on a break. *)
ClockStatus == {"out", "in", "break"}

TimeEntriesService ==
  {Get("time.active", {"entry", "job"}),
   Get("time.list", {"entry", "user", "job"}),
   Get("time.timesheet", {"entry", "user", "org"}),
   Move("time.approve", {"entry"}, {<<"COMPLETED", "APPROVED">>}),
   Move("time.reject", {"entry"}, {<<"COMPLETED", "REJECTED">>}),
   Post("time.update", {"entry"}), Post("time.remove", {"entry"})}
    \cup {Move("time.clockIn", {"entry"}, {<<"out", "in">>}),
          Move("time.clockOut", {"entry"}, To({"in", "break"}, "out")),
          Move("time.startBreak", {"entry"}, {<<"in", "break">>}),
          Move("time.endBreak", {"entry"}, {<<"break", "in">>})}

TeamService ==
  {Get("team.list", {"user", "invitation"}),
   Post("team.invite", {"invitation"}),
   Post("team.updateRole", {"user"}),
   Post("team.remove", {"user"}),
   Get("users.list", {"user"}),
   Get("auth.me", {"user"})}

(* Columns of one row: the profile, the briefing's hour, the checklist, and  *)
(* the timezone, which both answers carry and no endpoint writes.            *)
OrganizationService ==
  {Get("organization.profile", {"org", "timezone"}), Post("organization.updateProfile", {"org"}),
   Get("organization.briefing", {"briefing", "timezone"}), Post("organization.updateBriefing", {"briefing"}),
   Post("organization.billingPortal", {})}

OnboardingService ==
  {Get("onboarding.checklist", {"checklist", "org", "customer", "price", "job", "invoice", "user"}),
   Post("onboarding.dismiss", {"checklist"})}

DashboardService ==
  {Get("dashboard.summary", {"org", "job", "customer", "request", "invoice", "payment", "entry", "plan", "message"})}

(* Kept for minutes by the report cache of the API: its answers may be older *)
(* than the request that asks for them.                                      *)
ReportsService ==
  {Get("reports.summary", {"invoice", "plan", "job", "customer", "entry", "request", "org"})}

AiService ==
  {Post("ai.transcribe", {"job"}), Post("ai.generate", {"job", "org"}), Post("ai.confirm", {"invoice", "job"})}

WebEndpoints ==
  JobReads \cup JobWrites \cup ScheduleService \cup CustomersService \cup PriceBookService \cup MessagesService
    \cup InvoicesService \cup EstimatesService \cup PlansService \cup BookingRequests \cup BookingSetup
    \cup TimeEntriesService \cup TeamService \cup OrganizationService \cup OnboardingService
    \cup DashboardService \cup ReportsService \cup AiService
=============================================================================
