----------------------------- MODULE WorkOrders -----------------------------
(***************************************************************************)
(* The jobs of one organization: JobsService, and the two handlers that    *)
(* turn a booking request (BookingManagementService) or an estimate        *)
(* (EstimatesService) into a job under the next free number.               *)
(*                                                                         *)
(* req[h] is the handler in slot h: pc names the call it is about to make, *)
(* the other fields what it has read.  Job numbers count from 1, as the    *)
(* code counts from 1001.  A service offering is the set of checkpoints it *)
(* requires; job[j].needs is that of the job's offering, {} without one.   *)
(***************************************************************************)
EXTENDS Integers, FiniteSets

CONSTANTS
  Jobs,         (* bound: ids a Job row may get                            *)
  Requests,     (* ids of BookingRequest rows, all of one e-mail address   *)
  Estimates,    (* ids of Estimate rows                                    *)
  None,         (* null                                                    *)
  Checkpoints,  (* required checkpoints of the offering                    *)
  Amounts,      (* costs, invoiced totals and totals of estimates          *)
  Handlers,     (* slots for handlers in flight                            *)
  Ops,          (* operations used in this instance                        *)
  MaxAttempts,  (* attempts of withRetryOnCollision, 5 in the code         *)
  MaxAborts     (* bound: handlers that die between two awaits             *)

Sources == Requests \cup Estimates

ASSUME WorkOrdersAssumption ==
  /\ Jobs # {} /\ None \notin Jobs \cup Sources \cup Checkpoints
  /\ Requests \cap Estimates = {}
  /\ Amounts \subseteq Nat /\ 0 \in Amounts
  /\ MaxAttempts \in Nat \ {0} /\ MaxAborts \in Nat

VARIABLES
  job,        (* Job rows                                                  *)
  request,    (* BookingRequest rows                                       *)
  estimate,   (* Estimate rows                                             *)
  customers,  (* Customer rows with the address of the requests            *)
  clock,      (* source of createdAt                                       *)
  req,        (* handlers in flight                                        *)
  aborts

vars == <<job, request, estimate, customers, clock, req, aborts>>

JobStatus == {"SCHEDULED", "IN_PROGRESS", "ON_HOLD", "COMPLETED", "CANCELLED"}
NoRow     == {"ABSENT", "DELETED"}
Final     == {"COMPLETED", "CANCELLED"}
Roles     == {"CUSTOMER", "TECHNICIAN"}
Marks     == Roles \cup {"onMyWay"}

Row == [status: JobStatus \cup NoRow, age: Nat, num: Nat, source: Sources \cup {None},
        needs: SUBSET Checkpoints, photos: SUBSET Checkpoints,
        started: BOOLEAN, ended: BOOLEAN, flow: BOOLEAN,
        revenue: Nat, cost: Nat, profit: Int,
        marks: SUBSET Marks, pdf: {"none", "draft", "report"}]

Request  == [status: {"ABSENT", "PENDING", "CONFIRMED", "DECLINED"}, job: Jobs \cup {None}]
Estimate == [status: {"ABSENT", "DRAFT", "SENT", "CONVERTED", "REMOVED"},
             job: Jobs \cup {None}, total: Amounts]

Pcs == {"idle", "readLast", "insert", "findCustomer", "addCustomer", "decline", "editEstimate",
        "sendEstimate", "setStatus", "checkpoints", "complete", "report", "pdf", "edit",
        "sync", "photo", "mark"}

NoJob == [status |-> "ABSENT", age |-> 0, num |-> 0, source |-> None, needs |-> {},
          photos |-> {}, started |-> FALSE, ended |-> FALSE, flow |-> FALSE, revenue |-> 0,
          cost |-> 0, profit |-> 0, marks |-> {}, pdf |-> "none"]

AnyJob == CHOOSE j \in Jobs : TRUE

Flight == [pc: Pcs, job: Jobs, src: Sources \cup {None}, num: Nat, since: Nat, tries: Nat,
           snap: Row, to: JobStatus, amt: Amounts, put: Checkpoints \cup {None} \cup Marks]

Idle == [pc |-> "idle", job |-> AnyJob, src |-> None, num |-> 0, since |-> 0, tries |-> 0,
         snap |-> NoJob, to |-> "SCHEDULED", amt |-> 0, put |-> None]

Present(j) == job[j].status \notin NoRow

Starts(h, op) == op \in Ops /\ req[h].pc = "idle"

At(h, pc) == req[h].pc = pc

Becomes(h, r) == req' = [req EXCEPT ![h] = r]

intake == <<request, estimate, customers>>

(* A step that writes no table. *)
Moves(h, r) == Becomes(h, r) /\ UNCHANGED <<job, intake, clock, aborts>>

(* A handler at pc that has read a request or an estimate, or job j. *)
Reading(pc, src) == [Idle EXCEPT !.pc = pc, !.src = src]

Holding(pc, j) == [Idle EXCEPT !.pc = pc, !.job = j, !.snap = job[j]]

(* The handler at pc writes its job, if that still exists, and goes on as  *)
(* r; otherwise the write throws.                                          *)
Writes(h, pc, row, r) ==
  /\ At(h, pc)
  /\ IF Present(req[h].job)
     THEN job' = [job EXCEPT ![req[h].job] = row] /\ Becomes(h, r)
     ELSE job' = job /\ Becomes(h, Idle)
  /\ UNCHANGED <<intake, clock, aborts>>

Init ==
  /\ job       = [j \in Jobs |-> NoJob]
  /\ request   = [r \in Requests |-> [status |-> "ABSENT", job |-> None]]
  /\ estimate  = [e \in Estimates |-> [status |-> "ABSENT", job |-> None, total |-> 0]]
  /\ customers = 0
  /\ clock     = 0
  /\ req       = [h \in Handlers |-> Idle]
  /\ aborts    = 0

-----------------------------------------------------------------------------
(* The next number, from the newest row, and the insert under the unique   *)
(* index (organizationId, jobNumber).                                      *)
Newest(j) == Present(j) /\ \A k \in Jobs : Present(k) => job[k].age <= job[j].age

NextNumber ==
  IF \E j \in Jobs : Present(j) THEN job[CHOOSE j \in Jobs : Newest(j)].num + 1 ELSE 1

Allocating(pc, src) == [Idle EXCEPT !.pc = pc, !.src = src, !.since = clock]

CreateJob(h) ==
  /\ Starts(h, "createJob")
  /\ Moves(h, Allocating("readLast", None))

ReadLast(h) ==
  /\ At(h, "readLast")
  /\ Moves(h, [req[h] EXCEPT !.pc = "insert", !.num = NextNumber])

NumberFree(n) == \A j \in Jobs : Present(j) => job[j].num # n

SourceStands(src) == src \in Estimates => estimate[src].status \notin {"ABSENT", "REMOVED"}

(* The row of a new job; only create takes an offering's checkpoints and   *)
(* costs from a form, confirm only the offering.                           *)
NewJob(h, needs, cost) ==
  [NoJob EXCEPT !.status = "SCHEDULED", !.age = clock + 1, !.num = req[h].num,
                !.source = req[h].src, !.needs = needs, !.cost = cost, !.profit = -cost]

(* The job and, in the same transaction, what it was made from. *)
InsertJob(h, j) ==
  LET src == req[h].src
  IN  /\ At(h, "insert") /\ job[j].status = "ABSENT"
      /\ NumberFree(req[h].num) /\ SourceStands(src)
      /\ \E needs \in IF src \in Estimates THEN {{}} ELSE {{}, Checkpoints},
            cost \in IF src = None THEN Amounts ELSE {0} :
           job' = [job EXCEPT ![j] = NewJob(h, needs, cost)]
      /\ clock' = clock + 1
      /\ request' = [r \in Requests |->
           IF r = src THEN [status |-> "CONFIRMED", job |-> j] ELSE request[r]]
      /\ estimate' = [e \in Estimates |->
           IF e = src THEN [estimate[e] EXCEPT !.status = "CONVERTED", !.job = j]
           ELSE estimate[e]]
      /\ Becomes(h, Idle)
      /\ UNCHANGED <<customers, aborts>>

(* Mutant: the same number is tried again. *)
Retry_SameNumber(h) == [req[h] EXCEPT !.tries = @ + 1]

(* withRetryOnCollision runs the attempt again from its read. *)
Retry(h) == [req[h] EXCEPT !.pc = "readLast", !.num = 0, !.tries = @ + 1]

InsertFails(h) ==
  /\ At(h, "insert")
  /\ \/ ~NumberFree(req[h].num)
        /\ Moves(h, IF req[h].tries + 1 < MaxAttempts THEN Retry(h) ELSE Idle)
     \/ NumberFree(req[h].num) /\ ~SourceStands(req[h].src) /\ Moves(h, Idle)

-----------------------------------------------------------------------------
(* Booking requests. *)
CreateRequest(r) ==
  /\ "createRequest" \in Ops /\ request[r].status = "ABSENT"
  /\ request' = [request EXCEPT ![r].status = "PENDING"]
  /\ UNCHANGED <<job, estimate, customers, clock, req, aborts>>

Pending(r) == request[r].status = "PENDING"

ConfirmRead(h, r) ==
  /\ Starts(h, "confirm") /\ Pending(r)
  /\ Moves(h, Allocating("findCustomer", r))

FindCustomer(h) ==
  /\ At(h, "findCustomer")
  /\ Moves(h, [req[h] EXCEPT !.pc = IF customers > 0 THEN "readLast" ELSE "addCustomer"])

AddCustomer(h) ==
  /\ At(h, "addCustomer")
  /\ customers' = customers + 1
  /\ Becomes(h, [req[h] EXCEPT !.pc = "readLast"])
  /\ UNCHANGED <<job, request, estimate, clock, aborts>>

DeclineRead(h, r) ==
  /\ Starts(h, "decline") /\ Pending(r)
  /\ Moves(h, Reading("decline", r))

DeclineWrite(h) ==
  /\ At(h, "decline")
  /\ request' = [request EXCEPT ![req[h].src].status = "DECLINED"]
  /\ Becomes(h, Idle)
  /\ UNCHANGED <<job, estimate, customers, clock, aborts>>

-----------------------------------------------------------------------------
(* Estimates.  No code declines, approves or expires one. *)
HasEstimate(e) == estimate[e].status \notin {"ABSENT", "REMOVED"}

CreateEstimate(e) ==
  /\ "createEstimate" \in Ops /\ estimate[e].status = "ABSENT"
  /\ \E j \in {k \in Jobs : Present(k)} \cup {None}, t \in Amounts :
       estimate' = [estimate EXCEPT ![e] = [status |-> "DRAFT", job |-> j, total |-> t]]
  /\ UNCHANGED <<job, request, customers, clock, req, aborts>>

(* Mutant: a converted estimate can be edited. *)
Editable_Any(e) == HasEstimate(e)

(* LOCKED_STATUSES *)
Editable(e) == HasEstimate(e) /\ estimate[e].status # "CONVERTED"

EditEstimateRead(h, e) ==
  /\ Starts(h, "editEstimate") /\ Editable(e)
  /\ Moves(h, Reading("editEstimate", e))

SendRead(h, e) ==
  /\ Starts(h, "sendEstimate") /\ estimate[e].status \in {"DRAFT", "SENT"}
  /\ Moves(h, Reading("sendEstimate", e))

(* The handler at pc writes its estimate, if that still exists. *)
WritesEstimate(h, pc, row) ==
  /\ At(h, pc)
  /\ estimate' = IF HasEstimate(req[h].src) THEN [estimate EXCEPT ![req[h].src] = row]
                 ELSE estimate
  /\ Becomes(h, Idle)
  /\ UNCHANGED <<job, request, customers, clock, aborts>>

EditEstimateWrite(h) ==
  \E t \in Amounts :
    WritesEstimate(h, "editEstimate", [estimate[req[h].src] EXCEPT !.total = t])

SendWrite(h) == WritesEstimate(h, "sendEstimate", [estimate[req[h].src] EXCEPT !.status = "SENT"])

RemoveEstimate(e) ==
  /\ "removeEstimate" \in Ops /\ HasEstimate(e)
  /\ estimate' = [estimate EXCEPT ![e].status = "REMOVED"]
  /\ UNCHANGED <<job, request, customers, clock, req, aborts>>

(* Mutant: a converted estimate is converted again. *)
Convertible_Again(e) == HasEstimate(e)

Convertible(e) == HasEstimate(e) /\ estimate[e].job = None

ConvertRead(h, e) ==
  /\ Starts(h, "convert") /\ Convertible(e)
  /\ Moves(h, Allocating("readLast", e))

-----------------------------------------------------------------------------
(* A job's life. *)

(* ALLOWED_TRANSITIONS *)
Allowed(from) ==
  CASE from = "SCHEDULED"   -> {"IN_PROGRESS", "ON_HOLD", "CANCELLED"}
    [] from = "IN_PROGRESS" -> {"ON_HOLD", "COMPLETED", "CANCELLED"}
    [] from = "ON_HOLD"     -> {"SCHEDULED", "IN_PROGRESS", "CANCELLED"}
    [] OTHER                -> {}

StatusRead(h, j, to) ==
  /\ Starts(h, "updateStatus") /\ Present(j) /\ to \in Allowed(job[j].status)
  /\ Moves(h, [Holding("setStatus", j) EXCEPT !.to = to])

StatusWrite(h) ==
  LET f == req[h]
  IN  Writes(h, "setStatus",
        [job[f.job] EXCEPT !.status = f.to,
                           !.started = @ \/ (f.to = "IN_PROGRESS" /\ ~f.snap.started),
                           !.ended = @ \/ f.to = "COMPLETED"], Idle)

CompleteRead(h, j) ==
  /\ Starts(h, "complete") /\ Present(j) /\ job[j].status \notin Final
  /\ Moves(h, Holding("checkpoints", j))

(* Mutant: the two sides are swapped. *)
Fulfilled_Swapped(j) == job[j].photos \subseteq job[j].needs

(* No required checkpoint is missing (checkpointStatus). *)
Fulfilled(j) == job[j].needs \subseteq job[j].photos

CheckpointsRead(h) ==
  /\ At(h, "checkpoints")
  /\ Moves(h, IF Present(req[h].job) /\ Fulfilled(req[h].job)
              THEN [req[h] EXCEPT !.pc = "complete"] ELSE Idle)

CompleteWrite(h) ==
  Writes(h, "complete",
    [job[req[h].job] EXCEPT !.status = "COMPLETED", !.ended = TRUE, !.flow = TRUE],
    [req[h] EXCEPT !.pc = "report"])

(* The work order, after the answer and best effort. *)
ReportWrite(h) ==
  \/ Writes(h, "report", [job[req[h].job] EXCEPT !.pdf = "report"], Idle)
  \/ At(h, "report") /\ Moves(h, Idle)

(* Asked for, it is made of the job as it is and kept. *)
PdfRead(h, j) ==
  /\ Starts(h, "pdf") /\ Present(j) /\ job[j].pdf = "none"
  /\ Moves(h, Holding("pdf", j))

PdfWrite(h) ==
  Writes(h, "pdf",
    [job[req[h].job] EXCEPT
       !.pdf = IF req[h].snap.status = "COMPLETED" THEN "report" ELSE "draft"], Idle)

PhotoRead(h, j, c) ==
  /\ Starts(h, "addPhoto") /\ Present(j)
  /\ c = None \/ job[j].needs = {} \/ c \in job[j].needs
  /\ Moves(h, [Holding("photo", j) EXCEPT !.put = c])

PhotoWrite(h) ==
  Writes(h, "photo", [job[req[h].job] EXCEPT !.photos = @ \cup ({req[h].put} \ {None})], Idle)

(* Texts and signatures: an existing job, whatever its status. *)
OnMyWayRead(h, j) ==
  /\ Starts(h, "mark") /\ Present(j)
  /\ Moves(h, [Holding("mark", j) EXCEPT !.put = "onMyWay"])

SignatureRead(h, j, role) ==
  /\ Starts(h, "mark") /\ Present(j)
  /\ Moves(h, [Holding("mark", j) EXCEPT !.put = role])

MarkWrite(h) ==
  Writes(h, "mark", [job[req[h].job] EXCEPT !.marks = @ \cup {req[h].put}], Idle)

EditRead(h, j) ==
  /\ Starts(h, "updateJob") /\ Present(j)
  /\ Moves(h, Holding("edit", j))

(* Mutant: the profit is computed from the new costs alone. *)
Costed_ForgetsRevenue(row, snap, c) == [row EXCEPT !.cost = c, !.profit = -c]

(* New costs against the revenue read before. *)
Costed(row, snap, c) == [row EXCEPT !.cost = c, !.profit = snap.revenue - c]

EditWrite(h) ==
  LET row == job[req[h].job]
  IN  \/ \E c \in Amounts : Writes(h, "edit", Costed(row, req[h].snap, c), Idle)
      \/ \E needs \in {{}, Checkpoints} : Writes(h, "edit", [row EXCEPT !.needs = needs], Idle)

(* InvoicesService.syncJobFinancials: what the job's invoices add up to,   *)
(* and its costs, then both written back.                                  *)
SyncRead(h, j, total) ==
  /\ Starts(h, "sync") /\ Present(j)
  /\ Moves(h, [Holding("sync", j) EXCEPT !.amt = total])

(* A new revenue against the costs read before. *)
Synced(row, snap, a) == [row EXCEPT !.revenue = a, !.profit = a - snap.cost]

SyncWrite(h) ==
  Writes(h, "sync", Synced(job[req[h].job], req[h].snap, req[h].amt), Idle)

(* Photos go with the job; its estimate loses the link (onDelete SetNull), *)
(* its request keeps the id.                                               *)
RemoveJob(j) ==
  /\ "removeJob" \in Ops /\ Present(j)
  /\ job' = [job EXCEPT ![j] = [NoJob EXCEPT !.status = "DELETED"]]
  /\ estimate' = [e \in Estimates |->
       IF estimate[e].job = j THEN [estimate[e] EXCEPT !.job = None] ELSE estimate[e]]
  /\ UNCHANGED <<request, customers, clock, req, aborts>>

Abort(h) ==
  /\ req[h].pc # "idle" /\ aborts < MaxAborts
  /\ aborts' = aborts + 1
  /\ Becomes(h, Idle)
  /\ UNCHANGED <<job, intake, clock>>

-----------------------------------------------------------------------------
Begin(h) ==
  \/ CreateJob(h)
  \/ \E r \in Requests : ConfirmRead(h, r) \/ DeclineRead(h, r)
  \/ \E e \in Estimates : EditEstimateRead(h, e) \/ SendRead(h, e) \/ ConvertRead(h, e)
  \/ \E j \in Jobs :
       \/ CompleteRead(h, j) \/ PdfRead(h, j) \/ EditRead(h, j) \/ OnMyWayRead(h, j)
       \/ \E role \in Roles : SignatureRead(h, j, role)
       \/ \E to \in JobStatus : StatusRead(h, j, to)
       \/ \E c \in Checkpoints \cup {None} : PhotoRead(h, j, c)
       \/ \E a \in Amounts : SyncRead(h, j, a)

Resume(h) ==
  \/ ReadLast(h) \/ InsertFails(h) \/ \E j \in Jobs : InsertJob(h, j)
  \/ FindCustomer(h) \/ AddCustomer(h) \/ DeclineWrite(h)
  \/ EditEstimateWrite(h) \/ SendWrite(h)
  \/ StatusWrite(h) \/ CheckpointsRead(h) \/ CompleteWrite(h) \/ ReportWrite(h)
  \/ PdfWrite(h) \/ PhotoWrite(h) \/ MarkWrite(h) \/ EditWrite(h) \/ SyncWrite(h)

(* Handlers of one statement. *)
AtOnce ==
  \/ \E r \in Requests : CreateRequest(r)
  \/ \E e \in Estimates : CreateEstimate(e) \/ RemoveEstimate(e)
  \/ \E j \in Jobs : RemoveJob(j)

Next == (\E h \in Handlers : Begin(h) \/ Resume(h) \/ Abort(h)) \/ AtOnce

Spec == Init /\ [][Next]_vars

-----------------------------------------------------------------------------
(* Types of the rows and of what the handlers hold; a row that is gone     *)
(* holds nothing.                                                          *)
TypeOK ==
  /\ job \in [Jobs -> Row]
  /\ request \in [Requests -> Request]
  /\ estimate \in [Estimates -> Estimate]
  /\ customers \in Nat /\ clock \in Nat /\ aborts \in 0..MaxAborts
  /\ req \in [Handlers -> Flight]
  /\ \A j \in Jobs : Present(j) => job[j].age \in 1..clock

(* Numbers grow with the rows: the number after that of the newest row is  *)
(* free.  Were it taken, every create, confirm and convertToJob of the     *)
(* organization would collide in all its attempts until someone deletes a  *)
(* job.  Holds while handlers do not overlap, and while they do if no job  *)
(* is deleted meanwhile.                                                   *)
NumbersGrow ==
  \A j, k \in Jobs : Present(j) /\ Present(k) /\ job[j].age < job[k].age => job[j].num < job[k].num

(* "this is what actually makes number allocation transaction-safe"        *)
(* (sequential-number.util.ts:21): each collision of a handler is          *)
(* another's success since it began, so five of them need five others,     *)
(* while no job is deleted.                                                *)
CollisionsAccounted == \A h \in Handlers : req[h].tries <= clock - req[h].since

(* A request or an estimate has at most one job, even after that job was   *)
(* deleted and the estimate converted again.  One handler at a time.       *)
OneJobPerSource ==
  \A j, k \in Jobs :
    Present(j) /\ Present(k) /\ job[j].source = job[k].source /\ job[j].source # None => j = k

(* "Terminal states have no way out" (jobs.service.ts:15), and the same of *)
(* requests and converted estimates.  One handler at a time.               *)
FinalStays ==
  /\ \A j \in Jobs : job[j].status \in Final => job'[j].status \in {job[j].status, "DELETED"}
  /\ \A r \in Requests : request[r].status \in {"CONFIRMED", "DECLINED"} =>
       request'[r].status = request[r].status
  /\ \A e \in Estimates : estimate[e].status = "CONVERTED" =>
       /\ estimate'[e].status \in {"CONVERTED", "REMOVED"}
       /\ estimate'[e].total = estimate[e].total

(* Two handlers write a job's profit, each from a half it has read: it is  *)
(* always the revenue less the costs.  One handler at a time.              *)
ProfitInStep == \A j \in Jobs : job[j].profit = job[j].revenue - job[j].cost

(* A job that goes through complete has a photo for every checkpoint its   *)
(* offering requires then.  One handler at a time.                         *)
CompletionChecked ==
  \A j \in Jobs : job'[j].flow /\ ~job[j].flow => job'[j].needs \subseteq job'[j].photos

(* "every REQUIRED checkpoint ... must have at least one photo attached    *)
(* before the job can move to COMPLETED" (jobs.service.ts:395).            *)
CheckedBeforeCompleted ==
  \A j \in Jobs : job'[j].status = "COMPLETED" /\ job[j].status # "COMPLETED" =>
    job'[j].needs \subseteq job'[j].photos

CompletedOnlyChecked == [][CheckedBeforeCompleted]_vars
=============================================================================
