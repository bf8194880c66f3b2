--------------------------- MODULE MCServicePlans ---------------------------
(* ServicePlans for TLC.  A behaviour explores one of three scenarios,     *)
(* chosen at the start: they are bounds, no step differs.                  *)
EXTENDS ServicePlans

ClientOps == {"create", "update", "remove", "pause", "resume", "cancel", "generateNow"}
ScanOps == {"jobScan", "billScan", "expiryScan"}
AllOps == ClientOps \cup ScanOps \cup {"stripe", "jam", "deleteJob", "deleteInvoice"}

NoneOrFirstDay == {-1, 1}

VARIABLE scenario

MCInit == Init /\ scenario \in {"serial", "booked", "overlapping"}

FirstHandler == CHOOSE h \in Handlers : TRUE

(* Handlers one after the other, for a plan of a member in batches that do *)
(* not throw. *)
SerialNext == (Step(FirstHandler) \/ Elsewhere) /\ plan'.own /\ ~jam'

(* A plan of a member or of the booking page, in any batch, while handlers *)
(* that do not die scan, generate, update and bill one after the other.    *)
BookedNext ==
  /\ Step(FirstHandler) \/ Elsewhere
  /\ sub' = "none" /\ aborts' = 0
  /\ plan'.endDate = -1 /\ plan'.status \in {"ABSENT", "ACTIVE", "REMOVED"}

(* Overlapping handlers that bill, edit and delete a plan without end date *)
(* or subscription.                                                        *)
Billing ==
  /\ UNCHANGED <<jobs, sub, events, jam>>
  /\ plan'.own /\ plan'.endDate = -1 /\ plan'.auto = Automatic /\ plan'.status \in {"ABSENT", "ACTIVE", "REMOVED"}
  /\ \A h \in Handlers :
       req'[h].pc \in {"idle", "insertPlan", "remove", "checkBill", "insertBill"}

MCNext ==
  /\ UNCHANGED scenario
  /\ \/ scenario = "serial" /\ SerialNext
     \/ scenario = "booked" /\ BookedNext
     \/ scenario = "overlapping" /\ Next /\ Billing

MCSpec == MCInit /\ [][MCNext]_<<vars, scenario>> /\ Fairness

-----------------------------------------------------------------------------
Serial == scenario # "overlapping"

(* The next due date has no job yet: if it had, every later generation     *)
(* (generateForPlan) would find it and skip, and the plan would never be   *)
(* serviced again, when handlers do not overlap.                           *)
SerialNextDateOpen == Serial => NextDateOpen

(* Billed periods (billPlan) neither overlap nor reach past the next       *)
(* billing date, though the cycle is edited, when handlers do not overlap. *)
SerialPeriodsTile == Serial => PeriodsTile

(* A plan that stays active and automatic is serviced and billed to the    *)
(* day by the hourly scans, when handlers do not overlap; no services of a *)
(* plan from the booking page, nor of one behind it in the batch.          *)
SerialPlanServed == Serial => PlanServed
=============================================================================
