---------------------------- MODULE MCOperations ----------------------------
(* WorkOrders and TimeEntries for TLC.  A behaviour explores one of four   *)
(* scenes, chosen at the start: a scene is a bound, no step differs.       *)
EXTENDS WorkOrders

AllOps == {"createJob", "createRequest", "confirm", "decline", "createEstimate", "editEstimate",
           "sendEstimate", "removeEstimate", "convert", "updateStatus", "complete", "pdf",
           "addPhoto", "mark", "updateJob", "sync", "removeJob"}

FirstHandler == CHOOSE h \in Handlers : TRUE
FirstJob     == CHOOSE j \in Jobs : TRUE

VARIABLES entry, now, call, deaths, scene

Entries == {1, 2}

ASSUME OperationsAssumption == None \notin Int  \* null is not a number of a column

T == INSTANCE TimeEntries WITH
       Handlers <- {FirstHandler}, DayHours <- 2, WeekDays <- 3, Daily <- 1, Weekly <- 1,
       Offset <- 0, Days <- 2

shift == <<entry, now, call, deaths>>

MCInit == Init /\ T!Init /\ scene \in {"intake", "rush", "site", "clock"}

(* One handler at a time. *)
Alone == \A h \in Handlers \ {FirstHandler} : req'[h].pc = "idle"

(* Jobs get their ids in turn. *)
InTurn == \A j, k \in Jobs : j < k /\ job'[k].status # "ABSENT" => job'[j].status # "ABSENT"

PcsWithin(S) == \A h \in Handlers : req'[h].pc \in S

(* Jobs as they were created, of no offering and without costs. *)
Bare ==
  \A j \in Jobs : job'[j].status \in NoRow \cup {"SCHEDULED"} /\ job'[j].needs = {}
                   /\ job'[j].cost = 0 /\ job'[j].marks = {}

(* Jobs come and go; handlers one after the other. *)
Intake ==
  /\ Alone /\ Bare
  /\ PcsWithin(Pcs \ {"sync", "edit", "photo", "checkpoints", "pdf", "setStatus"})

(* Creates, confirms and conversions overlap. *)
Rush ==
  /\ Bare /\ aborts' = 0
  /\ PcsWithin({"idle", "readLast", "insert", "findCustomer", "addCustomer"})
  /\ \A j \in Jobs : job'[j].status # "DELETED"
  /\ \A e \in Estimates : estimate'[e] \in
       [status: {"ABSENT", "DRAFT", "CONVERTED"}, job: Jobs \cup {None}, total: {0}]
       /\ (estimate'[e].status = "DRAFT" => estimate'[e].job = None)

(* The life of one job; handlers one after the other. *)
Site ==
  /\ Alone /\ UNCHANGED <<request, estimate>>
  /\ \A j \in Jobs \ {FirstJob} : job'[j] = NoJob

(* One user's time entries: an edit moves one end of the first, breaks and *)
(* decisions are of the second; handlers die on the first day.             *)
Edits ==
  LET c   == call'[FirstHandler]
      row == entry[c.id]
  IN  /\ "in" \in DOMAIN c.set =>
           /\ c.id = 1 /\ row.status \in {"ACTIVE", "COMPLETED"} /\ deaths = 0
           /\ c.set.break = row.break /\ (c.set.in = row.in) # (c.set.out = row.out)
      /\ DOMAIN c.set \in {{"breakAt"}, {"break", "breakAt"}, {"status"}} => c.id = 2
      /\ deaths # 0 => UNCHANGED now

OrdersNext ==
  /\ Next /\ InTurn /\ UNCHANGED shift
  /\ \/ scene = "intake" /\ Intake
     \/ scene = "rush" /\ Rush
     \/ scene = "site" /\ Site

ClockNext == scene = "clock" /\ T!Next /\ Edits /\ UNCHANGED vars

MCNext == UNCHANGED scene /\ (OrdersNext \/ ClockNext)

MCSpec == MCInit /\ [][MCNext]_<<vars, shift, scene>>

-----------------------------------------------------------------------------
(* Types of the rows of WorkOrders and TimeEntries.                        *)
RowsTyped == TypeOK /\ T!TypeOK

(* However creates, confirms and conversions overlap, a newer row has a    *)
(* greater number, and a handler collides only where another one has       *)
(* inserted a row (nextSequentialNumber, withRetryOnCollision).            *)
NumbersSound == NumbersGrow /\ CollisionsAccounted

(* No request or estimate has two jobs, when handlers do not overlap       *)
(* (confirm, convertToJob).                                                *)
SerialOneJobPerSource == scene # "rush" => OneJobPerSource

(* The profit of a job is its revenue less its costs, when update and      *)
(* syncJobFinancials do not overlap.                                       *)
SerialProfitInStep == scene # "rush" => ProfitInStep

(* Jobs, requests and converted estimates stay what they ended as, when    *)
(* handlers do not overlap.                                                *)
SerialFinalStays == [][scene # "rush" => FinalStays]_vars

(* complete finds a photo for each checkpoint required then, when handlers *)
(* do not overlap.                                                         *)
SerialCompletionChecked == [][scene # "rush" => CompletionChecked]_vars

(* A user has one entry running and no break in an entry that has ended    *)
(* (clockIn, clockOut).                                                    *)
SerialOneShift == T!OneShift

(* What a timesheet pays at the regular rate is within the thresholds, and *)
(* the hours of an entry are split (recalculateDailyOvertime, timesheet).  *)
SerialHoursPaid == T!PaidWithinThresholds /\ T!Allocated
=============================================================================
