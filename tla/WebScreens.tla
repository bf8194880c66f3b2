----------------------------- MODULE WebScreens -----------------------------
(* The web application's hooks and pages, as what the query cache makes of   *)
(* them: each query with its key and endpoint, each mutation with its        *)
(* endpoint and the keys it invalidates, each page with the queries it keeps *)
(* mounted and the requests it offers. One row of each kind stands for all:  *)
(* "1" is the id in a key, "list" its filter. Layout, formatting and the     *)
(* fields of forms are left out.                                             *)
EXTENDS WebApi

Query(q, e, k) == [name |-> q, at |-> e, key |-> k]

(* "waits" is onSuccess returning the promise of the refetches: the mutation *)
(* stays pending until they are over.                                        *)
Mutation(m, e, ks, w) == [name |-> m, at |-> e, drops |-> ks, waits |-> w]

Awaited(m, e, ks) == Mutation(m, e, ks, TRUE)

Unawaited(m, e, ks) == Mutation(m, e, ks, FALSE)

(* A page offers a request as a button disabled while the request is pending *)
(* ("button"), as one that is not, or only within a part of the page that    *)
(* can be closed and opened again or stands there twice ("loose"), in a form *)
(* that stays open whatever the row becomes ("form"), or before it has the   *)
(* row ("blind"). "moves" are the moves of the page's row it is meant for,   *)
(* empty when it is offered whatever the row's status.                       *)
Offer(m, h, M) == [by |-> m, how |-> h, moves |-> M]

Button(m) == Offer(m, "button", {})

Loose(m) == Offer(m, "loose", {})

ButtonFor(m, M) == Offer(m, "button", M)

LooseFor(m, M) == Offer(m, "loose", M)

FormFor(m, M) == Offer(m, "form", M)

BlindFor(m, M) == Offer(m, "blind", M)

(* "row" names the query whose status the offers with moves look at, and     *)
(* "statuses" what it may be.                                                *)
PageOf(Q, r, S, O) == [shows |-> Q \cup {"currentUser"}, row |-> r, statuses |-> S, offers |-> O]

Page(Q, O) == PageOf(Q, "no row", {"any"}, O)

-----------------------------------------------------------------------------
(* Hooks *)

JobQueries ==
  {Query("jobs", "jobs.list", <<"jobs", "list">>),
   Query("todayJobs", "jobs.today", <<"jobs", "today">>),
   Query("job", "jobs.findOne", <<"jobs", "1">>),
   Query("jobPhotos", "jobs.photos", <<"jobs", "1", "photos">>)}

JobMutations ==
  {Awaited("createJob", "jobs.create", {<<"jobs">>}),
   Awaited("updateJob", "jobs.update", {<<"jobs">>}),
   Awaited("updateJobStatus", "jobs.updateStatus", {<<"jobs">>}),
   Awaited("onMyWay", "jobs.onMyWay", {<<"jobs", "1">>}),
   Awaited("completeJob", "jobs.complete", {<<"jobs">>}),
   Awaited("uploadSignature", "jobs.addSignature", {<<"jobs", "1", "photos">>})}

ScheduleQueries ==
  {Query("calendarJobs", "jobs.calendar", <<"jobs", "calendar", "week">>),
   Query("unscheduledJobs", "jobs.unscheduled", <<"jobs", "unscheduled">>),
   Query("scheduleEvents", "schedule.list", <<"schedule-events", "week">>)}

ScheduleMutations ==
  LET calendar == {<<"schedule-events">>, <<"jobs">>} IN
  {Unawaited("rescheduleJob", "jobs.update", calendar),
   Unawaited("createScheduleEvent", "schedule.create", calendar),
   Unawaited("updateScheduleEvent", "schedule.update", calendar),
   Unawaited("deleteScheduleEvent", "schedule.remove", calendar)}

CustomerQueries ==
  {Query("customers", "customers.list", <<"customers", "list">>),
   Query("customer", "customers.findOne", <<"customers", "1">>),
   Query("customerJobs", "customers.jobs", <<"customers", "1", "jobs">>),
   Query("customerInvoices", "customers.invoices", <<"customers", "1", "invoices">>),
   Query("customerEstimates", "customers.estimates", <<"customers", "1", "estimates">>),
   Query("customerServicePlans", "customers.servicePlans", <<"customers", "1", "service-plans">>),
   Query("customerEquipment", "customers.equipment", <<"customers", "1", "equipment">>)}

CustomerMutations ==
  {Awaited("createCustomer", "customers.create", {<<"customers">>}),
   Unawaited("updateCustomer", "customers.update", {<<"customers">>}),
   Awaited("deleteCustomer", "customers.remove", {<<"customers">>}),
   Awaited("addEquipment", "customers.addEquipment", {<<"customers", "1", "equipment">>}),
   Awaited("deleteEquipment", "customers.removeEquipment", {<<"customers", "1", "equipment">>})}

InvoiceHooks ==
  [queries |->
     {Query("invoices", "invoices.list", <<"invoices", "list">>),
      Query("invoice", "invoices.findOne", <<"invoices", "1">>),
      Query("arSummary", "invoices.arSummary", <<"invoices", "ar-summary">>)},
   mutations |->
     {Awaited("createInvoice", "invoices.create", {<<"invoices">>}),
      Awaited("sendInvoice", "invoices.send", {<<"invoices", "1">>}),
      Unawaited("recordPayment", "invoices.recordPayment", {<<"invoices">>, <<"invoices", "ar-summary">>})}]

EstimateHooks ==
  [queries |->
     {Query("estimates", "estimates.list", <<"estimates", "list">>),
      Query("estimate", "estimates.findOne", <<"estimates", "1">>)},
   mutations |->
     {Awaited("createEstimate", "estimates.create", {<<"estimates">>}),
      Awaited("sendEstimate", "estimates.send", {<<"estimates", "1">>}),
      Unawaited("convertEstimateToJob", "estimates.convertToJob", {<<"estimates", "1">>, <<"jobs">>})}]

PlanHooks ==
  [queries |->
     {Query("servicePlans", "plans.list", <<"service-plans", "list">>),
      Query("servicePlanDashboard", "plans.dashboard", <<"service-plans", "dashboard">>),
      Query("servicePlan", "plans.findOne", <<"service-plans", "1">>)},
   mutations |->
     {Awaited("createServicePlan", "plans.create", {<<"service-plans">>}),
      Unawaited("pausePlan", "plans.pause", {<<"service-plans">>}),
      Unawaited("resumePlan", "plans.resume", {<<"service-plans">>}),
      Unawaited("cancelPlan", "plans.cancel", {<<"service-plans">>}),
      Unawaited("generatePlanJob", "plans.generateJob", {<<"service-plans">>})}]

BookingQueries ==
  {Query("bookingRequests", "booking.requests", <<"booking", "requests", "list">>),
   Query("bookingSettings", "booking.settings", <<"booking", "settings">>),
   Query("bookingAvailability", "booking.availability", <<"booking", "availability">>),
   Query("bookingBlackouts", "booking.blackouts", <<"booking", "blackouts">>),
   Query("bookableServices", "booking.services", <<"booking", "services">>),
   Query("planTemplates", "booking.planTemplates", <<"booking", "plan-templates">>)}

BookingMutations ==
  {Awaited("confirmRequest", "booking.confirm", {<<"booking", "requests">>}),
   Awaited("declineRequest", "booking.decline", {<<"booking", "requests">>}),
   Awaited("rescheduleRequest", "booking.reschedule", {<<"booking", "requests">>}),
   Awaited("updateBookingSettings", "booking.updateSettings", {<<"booking", "settings">>}),
   Awaited("addAvailability", "booking.addAvailability", {<<"booking", "availability">>}),
   Awaited("removeAvailability", "booking.removeAvailability", {<<"booking", "availability">>}),
   Awaited("addBlackout", "booking.addBlackout", {<<"booking", "blackouts">>}),
   Awaited("removeBlackout", "booking.removeBlackout", {<<"booking", "blackouts">>}),
   Awaited("setServiceBookable", "booking.setBookable", {<<"booking", "services">>}),
   Awaited("setPlanPublic", "booking.setPublic", {<<"booking", "plan-templates">>})}

TimeHooks ==
  [queries |->
     {Query("activeEntry", "time.active", <<"time-entries", "active">>),
      Query("timeEntries", "time.list", <<"time-entries", "list", "week">>),
      Query("timesheet", "time.timesheet", <<"time-entries", "timesheet", "week">>)},
   mutations |->
     {Unawaited(p[1], p[2], {<<"time-entries">>}) : p \in
        {<<"clockIn", "time.clockIn">>, <<"clockOut", "time.clockOut">>,
         <<"startBreak", "time.startBreak">>, <<"endBreak", "time.endBreak">>,
         <<"updateEntry", "time.update">>, <<"approveEntry", "time.approve">>,
         <<"rejectEntry", "time.reject">>, <<"deleteEntry", "time.remove">>}}]

TeamHooks ==
  [queries |-> {Query("team", "team.list", <<"team">>)},
   mutations |->
     {Awaited("inviteMember", "team.invite", {<<"team">>}),
      Awaited("updateMemberRole", "team.updateRole", {<<"team">>}),
      Awaited("removeMember", "team.remove", {<<"team">>})}]

PriceBookHooks ==
  [queries |-> {Query("priceBook", "priceBook.list", <<"price-book", "list">>)},
   mutations |->
     {Awaited("createItem", "priceBook.create", {<<"price-book">>}),
      Awaited("deleteItem", "priceBook.remove", {<<"price-book">>}),
      Awaited("importCsv", "priceBook.import", {<<"price-book">>})}]

MessageHooks ==
  [queries |->
     {Query("messages", "messages.list", <<"messages", "1">>),
      Query("messageTemplates", "messages.templates", <<"message-templates">>)},
   mutations |->
     {Unawaited("sendMessage", "messages.send", {<<"messages", "1">>}),
      Unawaited("provisionNumber", "messages.provisionNumber", {}),
      Awaited("createTemplate", "messages.createTemplate", {<<"message-templates">>}),
      Awaited("deleteTemplate", "messages.removeTemplate", {<<"message-templates">>})}]

OrganizationHooks ==
  [queries |->
     {Query("profile", "organization.profile", <<"organization", "profile">>),
      Query("briefing", "organization.briefing", <<"organization", "morning-briefing">>),
      Query("checklist", "onboarding.checklist", <<"onboarding", "checklist">>)},
   mutations |->
     {Awaited("updateProfile", "organization.updateProfile", {<<"organization", "profile">>}),
      Awaited("updateBriefing", "organization.updateBriefing", {<<"organization", "morning-briefing">>}),
      Awaited("dismissOnboarding", "onboarding.dismiss", {<<"onboarding", "checklist">>}),
      Unawaited("openPortal", "organization.billingPortal", {})}]

AiHooks ==
  {Unawaited("transcribeMemo", "ai.transcribe", {}),
   Unawaited("generateDraft", "ai.generate", {}),
   Awaited("confirmDraft", "ai.confirm", {<<"invoices">>})}

OtherQueries ==
  {Query("orgUsers", "users.list", <<"users">>),
   Query("dashboardSummary", "dashboard.summary", <<"dashboard", "summary">>),
   Query("reportsSummary", "reports.summary", <<"reports", "summary", "range">>)}

(* The only query with an age: asked again only when a minute old.           *)
CurrentUser == Query("currentUser", "auth.me", <<"auth", "me">>)

WebQueries ==
  JobQueries \cup ScheduleQueries \cup CustomerQueries \cup BookingQueries \cup OtherQueries \cup {CurrentUser}
    \cup UNION {h.queries : h \in {InvoiceHooks, EstimateHooks, PlanHooks, TimeHooks, TeamHooks,
                                   PriceBookHooks, MessageHooks, OrganizationHooks}}

(* The completion page sends photos without a hook and invalidates nothing.  *)
AddPhoto == Unawaited("addPhoto", "jobs.addPhoto", {})

WebMutations ==
  JobMutations \cup ScheduleMutations \cup CustomerMutations \cup BookingMutations \cup AiHooks \cup {AddPhoto}
    \cup UNION {h.mutations : h \in {InvoiceHooks, EstimateHooks, PlanHooks, TimeHooks, TeamHooks,
                                     PriceBookHooks, MessageHooks, OrganizationHooks}}
-----------------------------------------------------------------------------
(* Pages *)

DashboardPage == Page({"dashboardSummary", "checklist"}, {Loose("dismissOnboarding")})

JobsPage == Page({"jobs"}, {})

(* Cancelling shares the mutation of the button that starts, holds and       *)
(* resumes, and is not disabled with it; the customer is told after the      *)
(* browser's position came, so that button can be pressed again before.      *)
JobPage ==
  PageOf({"job", "customerEquipment"}, "job", JobStatus,
    {ButtonFor("updateJobStatus", {<<"SCHEDULED", "IN_PROGRESS">>, <<"IN_PROGRESS", "ON_HOLD">>, <<"ON_HOLD", "IN_PROGRESS">>}),
     LooseFor("updateJobStatus", To({"SCHEDULED", "IN_PROGRESS", "ON_HOLD"}, "CANCELLED")),
     LooseFor("onMyWay", Stay({"SCHEDULED", "IN_PROGRESS"}))})

NewJobPage == Page({"customers"}, {Button("createJob")})

EditJobPage == Page({"job"}, {Button("updateJob")})

(* The steps of a completion in a row: whatever the status of the job, which *)
(* the page does not look at. *)
CompleteJobPage ==
  PageOf({"job"}, "job", JobStatus,
    {Button(m) : m \in {"addPhoto", "transcribeMemo", "generateDraft", "confirmDraft", "uploadSignature"}}
      \cup {FormFor("completeJob", To(JobStatus, "COMPLETED"))})

(* So is the panel that creates an event.                                    *)
SchedulePage ==
  Page({"calendarJobs", "scheduleEvents", "unscheduledJobs", "orgUsers"},
    {Loose(m) : m \in {"createScheduleEvent", "rescheduleJob", "updateScheduleEvent", "deleteScheduleEvent"}})

CustomersPage == Page({"customers"}, {})

(* The equipment form is a component of its own, new each time it is opened. *)
CustomerPage ==
  Page({"customer", "customerEquipment", "customerJobs", "customerInvoices", "customerEstimates", "customerServicePlans"},
    {Loose("addEquipment"), Loose("deleteEquipment"), Loose("deleteCustomer")})

NewCustomerPage == Page({}, {Button("createCustomer")})

EditCustomerPage == Page({"customer"}, {Button("updateCustomer")})

InvoicesPage == Page({"invoices", "arSummary"}, {})

(* The payment form, once open, stays when the invoice becomes paid.         *)
InvoicePage ==
  PageOf({"invoice"}, "invoice", InvoiceStatus,
    {ButtonFor("sendInvoice", {<<"DRAFT", "SENT">>} \cup Stay(OpenInvoice \ {"DRAFT"})),
     FormFor("recordPayment", OpenInvoice \X {"PARTIAL", "PAID"})})

NewInvoicePage == Page({"customers", "jobPhotos"}, {Button("createInvoice")})

EstimatesPage == Page({"estimates"}, {})

EstimatePage ==
  PageOf({"estimate"}, "estimate", EstimateStatus,
    {ButtonFor("sendEstimate", To({"DRAFT", "SENT"}, "SENT")),
     ButtonFor("convertEstimateToJob", To({"DRAFT", "SENT", "VIEWED", "APPROVED"}, "CONVERTED"))})

NewEstimatePage == Page({"customers"}, {Button("createEstimate")})

ServicePlansPage == Page({"servicePlans", "servicePlanDashboard"}, {})

ServicePlanPage ==
  PageOf({"servicePlan"}, "servicePlan", PlanStatus,
    {ButtonFor("pausePlan", {<<"ACTIVE", "PAUSED">>}),
     ButtonFor("generatePlanJob", {<<"ACTIVE", "ACTIVE">>}),
     ButtonFor("cancelPlan", {<<"ACTIVE", "CANCELLED">>}),
     ButtonFor("resumePlan", {<<"PAUSED", "ACTIVE">>})})

NewServicePlanPage == Page({"customers"}, {Button("createServicePlan")})

BookingRequestsPage ==
  PageOf({"bookingRequests"}, "bookingRequests", RequestStatus,
    {ButtonFor("confirmRequest", {<<"PENDING", "CONFIRMED">>}),
     ButtonFor("declineRequest", {<<"PENDING", "DECLINED">>}),
     FormFor("rescheduleRequest", {<<"PENDING", "PENDING">>})})

BookingSettingsPage ==
  Page({"bookingSettings", "bookingAvailability", "bookingBlackouts", "bookableServices", "planTemplates"},
    {Button("updateBookingSettings")}
      \cup {Loose(m) : m \in {"addAvailability", "removeAvailability", "addBlackout", "removeBlackout",
                             "setServiceBookable", "setPlanPublic"}})

PriceBookPage == Page({"priceBook"}, {Button("createItem"), Button("importCsv"), Loose("deleteItem")})

(* The Enter key sends a message whether or not one is being sent.           *)
MessagesPage ==
  Page({"customers", "messages", "messageTemplates"},
    {Loose("sendMessage"), Button("provisionNumber"), Button("createTemplate"), Loose("deleteTemplate")})

(* Clocking in and out ask for the position first, as onMyWay does. Without  *)
(* an answer the card offers clocking in.                                    *)
ClockCard ==
  PageOf({"activeEntry", "todayJobs", "timeEntries", "timesheet"}, "activeEntry", ClockStatus,
    {LooseFor("clockIn", {<<"out", "in">>}), BlindFor("clockIn", {<<"out", "in">>}), LooseFor("clockOut", {<<"in", "out">>}),
     ButtonFor("startBreak", {<<"in", "break">>}), ButtonFor("endBreak", {<<"break", "in">>})})

(* The row being edited knows of its own save only.                          *)
EntriesTable ==
  PageOf({"timeEntries", "timesheet", "orgUsers", "activeEntry"}, "timeEntries", EntryStatus,
    {LooseFor("approveEntry", {<<"COMPLETED", "APPROVED">>}), LooseFor("rejectEntry", {<<"COMPLETED", "REJECTED">>}),
     Loose("updateEntry"), Loose("deleteEntry")})

ReportsPage == Page({"reportsSummary"}, {})

(* Two sections save the profile, each with a hook of its own.               *)
OrganizationSections ==
  Page({"profile", "briefing"}, {Loose("updateProfile"), Button("updateBriefing"), Button("openPortal")})

TeamSection ==
  Page({"team"}, {Button("inviteMember"), Loose("updateMemberRole"), Loose("removeMember")})

WebPages ==
  [dashboard |-> DashboardPage, jobs |-> JobsPage, job |-> JobPage, newJob |-> NewJobPage, editJob |-> EditJobPage,
   completeJob |-> CompleteJobPage, schedule |-> SchedulePage, customers |-> CustomersPage, customer |-> CustomerPage,
   newCustomer |-> NewCustomerPage, editCustomer |-> EditCustomerPage, invoices |-> InvoicesPage,
   invoice |-> InvoicePage, newInvoice |-> NewInvoicePage, estimates |-> EstimatesPage, estimate |-> EstimatePage,
   newEstimate |-> NewEstimatePage, servicePlans |-> ServicePlansPage, servicePlan |-> ServicePlanPage,
   newServicePlan |-> NewServicePlanPage, bookingRequests |-> BookingRequestsPage,
   bookingSettings |-> BookingSettingsPage, priceBook |-> PriceBookPage, messages |-> MessagesPage,
   clock |-> ClockCard, entries |-> EntriesTable, reports |-> ReportsPage, organization |-> OrganizationSections,
   team |-> TeamSection]
=============================================================================
