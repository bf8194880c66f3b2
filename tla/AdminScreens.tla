---------------------------- MODULE AdminScreens ----------------------------
(* The platform's admin application in the terms of WebScreens: what the     *)
(* admin endpoints read and write, its hooks and its pages; then all of both *)
(* applications.  Every request also appends to the audit log, which no page *)
(* shows beside a request.                                                   *)
EXTENDS WebScreens

AdminEndpoint(p) == [at |-> p[1], reads |-> p[2], writes |-> p[3], moves |-> {}]

CompanyStatus == {"active", "suspended"}

(* Suspending and archiving are columns of their own: neither is refused.    *)
CompaniesService ==
  {AdminEndpoint(p) : p \in
     {<<"admin.companies.list", {"company", "user"}, {}>>,
      <<"admin.companies.detail", {"company", "user"}, {}>>,
      <<"admin.companies.archive", {}, {"company"}>>,
      <<"admin.companies.remove", {}, {"company", "session"}>>,
      <<"admin.companies.resetTrial", {}, {"company"}>>,
      <<"admin.companies.transferOwnership", {}, {"user"}>>}}
    \cup {Move("admin.companies.suspend", {"company"}, To(CompanyStatus, "suspended")),
          Move("admin.companies.reactivate", {"company"}, To(CompanyStatus, "active"))}

AdminUsersService ==
  {AdminEndpoint(p) : p \in
     {<<"admin.users.list", {"user", "company"}, {}>>,
      <<"admin.users.loginHistory", {"session"}, {}>>,
      <<"admin.users.sessions", {"session"}, {}>>,
      <<"admin.users.forceReset", {}, {"reset"}>>,
      <<"admin.users.unlock", {}, {"user"}>>,
      <<"admin.users.disable", {}, {"user", "session"}>>,
      <<"admin.users.enable", {}, {"user"}>>,
      <<"admin.users.revokeSessions", {}, {"session"}>>,
      <<"admin.impersonate", {}, {}>>}}

BillingService ==
  {AdminEndpoint(p) : p \in
     {<<"admin.billing.subscriptions", {"company"}, {}>>,
      <<"admin.billing.planMrr", {"company"}, {}>>,
      <<"admin.billing.trials", {"company"}, {}>>,
      <<"admin.billing.failedPayments", {"failedPayment", "company"}, {}>>,
      <<"admin.billing.coupons", {"coupon"}, {}>>,
      <<"admin.billing.createCoupon", {}, {"coupon"}>>,
      <<"admin.billing.refund", {}, {"refund"}>>}}

(* Deleting a flag deletes its overrides. *)
FeatureFlagsService ==
  {AdminEndpoint(p) : p \in
     {<<"admin.flags.list", {"flag"}, {}>>,
      <<"admin.flags.overrides", {"flag", "override", "company"}, {}>>,
      <<"admin.flags.create", {}, {"flag"}>>,
      <<"admin.flags.update", {}, {"flag"}>>,
      <<"admin.flags.remove", {}, {"flag", "override"}>>,
      <<"admin.flags.setOverride", {}, {"override"}>>,
      <<"admin.flags.removeOverride", {}, {"override"}>>}}

AnnouncementsService ==
  {AdminEndpoint(p) : p \in
     {<<"admin.announcements.list", {"announcement"}, {}>>,
      <<"admin.announcements.create", {}, {"announcement"}>>,
      <<"admin.announcements.remove", {}, {"announcement"}>>}}

TicketStatus == {"OPEN", "IN_PROGRESS", "RESOLVED", "CLOSED"}

SupportService ==
  {Get("admin.tickets.list", {"ticket", "company", "user"}),
   Move("admin.tickets.update", {"ticket"}, TicketStatus \X TicketStatus)}

(* Reports and the dashboard come from a cache, as ReportsService's do.      *)
Monitoring ==
  {AdminEndpoint(p) : p \in
     {<<"admin.auditLogs.list", {"audit", "company", "user"}, {}>>,
      <<"admin.dashboard", {"company", "user", "plan", "request", "failedPayment", "ticket"}, {}>>,
      <<"admin.reports.summary", {"company", "invoice"}, {}>>,
      <<"admin.reports.atRisk", {"company", "user", "failedPayment"}, {}>>}}

(* Retrying takes the failed jobs of a queue back, one after the other.      *)
SystemHealthService ==
  {Get("admin.systemHealth", {"queue"}), Post("admin.systemHealth.retryFailed", {"queue"})}

AdminEndpoints ==
  CompaniesService \cup AdminUsersService \cup BillingService \cup FeatureFlagsService
    \cup AnnouncementsService \cup SupportService \cup Monitoring \cup SystemHealthService

-----------------------------------------------------------------------------
(* Hooks: all await the refetch of what they invalidate. *)

AdminMutations(K, M) == {Awaited(p[1], p[2], K) : p \in M}

CompanyHooks ==
  [queries |->
     {Query("adminCompanies", "admin.companies.list", <<"admin", "companies", "search">>),
      Query("adminCompanyDetail", "admin.companies.detail", <<"admin", "companies", "detail", "1">>)},
   mutations |->
     AdminMutations({<<"admin", "companies">>},
       {<<"suspendCompany", "admin.companies.suspend">>, <<"reactivateCompany", "admin.companies.reactivate">>,
        <<"archiveCompany", "admin.companies.archive">>, <<"deleteCompany", "admin.companies.remove">>,
        <<"resetTrial", "admin.companies.resetTrial">>, <<"transferOwnership", "admin.companies.transferOwnership">>})
     \cup {Unawaited("impersonate", "admin.impersonate", {})}]

(* Revoking sessions invalidates the sessions, not the login history that    *)
(* shows which of them are revoked.                                          *)
AdminUserHooks ==
  [queries |->
     {Query("adminUsersList", "admin.users.list", <<"admin", "users", "search">>),
      Query("loginHistory", "admin.users.loginHistory", <<"admin", "users", "login-history", "1">>),
      Query("userSessions", "admin.users.sessions", <<"admin", "users", "sessions", "1">>)},
   mutations |->
     AdminMutations({<<"admin", "users">>},
       {<<"forceResetPassword", "admin.users.forceReset">>, <<"unlockUser", "admin.users.unlock">>,
        <<"disableUser", "admin.users.disable">>, <<"enableUser", "admin.users.enable">>})
     \cup {Awaited("revokeUserSessions", "admin.users.revokeSessions", {<<"admin", "users", "sessions">>})}]

BillingHooks ==
  [queries |->
     {Query("subscriptions", "admin.billing.subscriptions", <<"admin", "billing", "subscriptions">>),
      Query("planMrr", "admin.billing.planMrr", <<"admin", "billing", "plan-mrr">>),
      Query("trials", "admin.billing.trials", <<"admin", "billing", "trials">>),
      Query("failedPayments", "admin.billing.failedPayments", <<"admin", "billing", "failed-payments">>),
      Query("coupons", "admin.billing.coupons", <<"admin", "billing", "coupons">>)},
   mutations |->
     {Awaited("createCoupon", "admin.billing.createCoupon", {<<"admin", "billing", "coupons">>}),
      Unawaited("createRefund", "admin.billing.refund", {})}]

FlagHooks ==
  [queries |->
     {Query("featureFlags", "admin.flags.list", <<"admin", "feature-flags">>),
      Query("flagOverrides", "admin.flags.overrides", <<"admin", "feature-flags", "overrides", "1">>)},
   mutations |->
     AdminMutations({<<"admin", "feature-flags">>},
       {<<"createFlag", "admin.flags.create">>, <<"toggleFlagDefault", "admin.flags.update">>,
        <<"deleteFlag", "admin.flags.remove">>})
     \cup AdminMutations({<<"admin", "feature-flags", "overrides", "1">>},
       {<<"setOverride", "admin.flags.setOverride">>, <<"removeOverride", "admin.flags.removeOverride">>})]

AnnouncementHooks ==
  [queries |-> {Query("announcements", "admin.announcements.list", <<"admin", "announcements">>)},
   mutations |->
     AdminMutations({<<"admin", "announcements">>},
       {<<"createAnnouncement", "admin.announcements.create">>, <<"deleteAnnouncement", "admin.announcements.remove">>})]

SupportHooks ==
  [queries |-> {Query("supportTickets", "admin.tickets.list", <<"admin", "support-tickets", "filter">>)},
   mutations |-> {Awaited("updateTicket", "admin.tickets.update", {<<"admin", "support-tickets">>})}]

SystemHealthHooks ==
  [queries |-> {Query("systemHealth", "admin.systemHealth", <<"admin", "system-health">>)},
   mutations |-> {Awaited("retryFailedJobs", "admin.systemHealth.retryFailed", {<<"admin", "system-health">>})}]

MonitoringHooks ==
  [queries |->
     {Query("auditLogs", "admin.auditLogs.list", <<"admin", "audit-logs", "filter">>),
      Query("adminDashboard", "admin.dashboard", <<"admin", "dashboard">>),
      Query("platformReports", "admin.reports.summary", <<"admin", "platform-reports", "summary">>),
      Query("atRiskOrgs", "admin.reports.atRisk", <<"admin", "platform-reports", "at-risk">>)},
   mutations |-> {}]

AdminHooks ==
  {CompanyHooks, AdminUserHooks, BillingHooks, FlagHooks, AnnouncementHooks, SupportHooks, SystemHealthHooks, MonitoringHooks}

-----------------------------------------------------------------------------
(* Pages: no button is disabled while its request is pending. *)

AdminPageOf(Q, r, S, O) == [shows |-> Q, row |-> r, statuses |-> S, offers |-> O]

AdminPage(Q, O) == AdminPageOf(Q, "no row", {"any"}, O)

CompaniesPage ==
  AdminPageOf({"adminCompanies", "adminCompanyDetail"}, "adminCompanyDetail", CompanyStatus,
    {LooseFor("suspendCompany", {<<"active", "suspended">>}), LooseFor("reactivateCompany", {<<"suspended", "active">>})}
      \cup {Loose(m) : m \in {"resetTrial", "transferOwnership", "impersonate", "archiveCompany", "deleteCompany"}})

AdminUsersPage ==
  AdminPage({"adminUsersList", "loginHistory", "userSessions"},
    {Loose(m) : m \in {"forceResetPassword", "unlockUser", "disableUser", "enableUser", "revokeUserSessions"}})

BillingPage ==
  AdminPage({"planMrr", "subscriptions", "trials", "failedPayments", "coupons"},
    {Loose("createRefund"), Loose("createCoupon")})

FeatureFlagsPage ==
  AdminPage({"featureFlags", "flagOverrides"},
    {Loose(m) : m \in {"createFlag", "toggleFlagDefault", "deleteFlag", "setOverride", "removeOverride"}})

AnnouncementsPage == AdminPage({"announcements"}, {Loose("createAnnouncement"), Loose("deleteAnnouncement")})

SupportPage ==
  AdminPageOf({"supportTickets"}, "supportTickets", TicketStatus, {LooseFor("updateTicket", TicketStatus \X TicketStatus)})

SystemHealthPage == AdminPage({"systemHealth"}, {Loose("retryFailedJobs")})

(* Pages that only show. *)
AuditLogsPage == AdminPage({"auditLogs"}, {})

AdminDashboardPage == AdminPage({"adminDashboard"}, {})

PlatformReportsPage == AdminPage({"platformReports"}, {})

CustomerSuccessPage == AdminPage({"atRiskOrgs"}, {})

AdminPages ==
  [adminCompanies |-> CompaniesPage, adminUsers |-> AdminUsersPage, billing |-> BillingPage,
   featureFlags |-> FeatureFlagsPage, announcements |-> AnnouncementsPage, support |-> SupportPage,
   systemHealth |-> SystemHealthPage, auditLogs |-> AuditLogsPage, adminDashboard |-> AdminDashboardPage,
   platformReports |-> PlatformReportsPage, customerSuccess |-> CustomerSuccessPage]

-----------------------------------------------------------------------------
AppPages == WebPages @@ AdminPages

AppEndpoints == WebEndpoints \cup AdminEndpoints

AppQueries == WebQueries \cup UNION {h.queries : h \in AdminHooks}

AppMutations == WebMutations \cup UNION {h.mutations : h \in AdminHooks}
=============================================================================
