----------------------------- MODULE TimeEntries -----------------------------
(***************************************************************************)
(* The time entries of one user: TimeEntriesService.                       *)
(*                                                                         *)
(* Time is counted in hours; a day has DayHours of them, a week WeekDays   *)
(* days, and the organization's clock is Offset hours behind UTC.          *)
(* call[h] is the handler in slot h: the columns it is about to set, and   *)
(* then, if it recalculates a day, the allocations it has still to write.  *)
(***************************************************************************)
EXTENDS Integers, FiniteSets, Functions

CONSTANTS
  Entries,    (* bound: ids a TimeEntry row may get, integers              *)
  None,       (* null                                                      *)
  Handlers,   (* slots for handlers in flight                              *)
  DayHours,   (* 24 in the code                                            *)
  WeekDays,   (* 7 in the code                                             *)
  Daily,      (* DAILY_OVERTIME_THRESHOLD_HOURS, 8 in the code             *)
  Weekly,     (* WEEKLY_OVERTIME_THRESHOLD_HOURS, 40 in the code           *)
  Offset,     (* hours the organization's zone is behind UTC               *)
  Days,       (* bound: days the clock runs                                *)
  MaxAborts   (* bound: handlers that die between two awaits               *)

VARIABLES
  entry,   (* TimeEntry rows                                               *)
  now,     (* UTC                                                          *)
  call,    (* handlers in flight                                           *)
  deaths

vars == <<entry, now, call, deaths>>

Hours == DayHours..(DayHours * (Days + 1) - 1)  \* day 0 is there for the offset

Row == [status: {"ABSENT", "ACTIVE", "COMPLETED", "APPROVED", "REJECTED"},
        in: {None} \cup Hours, out: {None} \cup Hours, break: Nat,
        breakAt: {None} \cup Hours, total: {None} \cup Nat, regular: Nat, over: Nat]

NoEntry == [status |-> "ABSENT", in |-> None, out |-> None, break |-> 0, breakAt |-> None,
            total |-> None, regular |-> 0, over |-> 0]

AnyEntry == CHOOSE e \in Entries : TRUE

Idle == [pc |-> "idle", id |-> AnyEntry, set |-> <<>>, day |-> -1, todo |-> {}]

Init ==
  /\ entry  = [e \in Entries |-> NoEntry]
  /\ now    = DayHours
  /\ call   = [h \in Handlers |-> Idle]
  /\ deaths = 0

Larger(a, b)  == IF a > b THEN a ELSE b
Smaller(a, b) == IF a < b THEN a ELSE b

Stands(e) == entry[e].status # "ABSENT"

Active(e) == entry[e].status = "ACTIVE"

Starts(h) == call[h].pc = "idle"

Goes(h, c) == call' = [call EXCEPT ![h] = c] /\ UNCHANGED <<entry, now, deaths>>

NoDay == -1

(* The handler has read entry e and will set these columns of it; then, if *)
(* there is a day, it recalculates that day.                               *)
Writing(e, set, day) == [Idle EXCEPT !.pc = "write", !.id = e, !.set = set, !.day = day]

-----------------------------------------------------------------------------
ClockInRead(h) ==
  /\ Starts(h) /\ \A e \in Entries : ~Active(e)
  /\ Goes(h, [Idle EXCEPT !.pc = "create"])

ClockInCreate(h, e) ==
  /\ call[h].pc = "create" /\ ~Stands(e)
  /\ entry' = [entry EXCEPT ![e] = [NoEntry EXCEPT !.status = "ACTIVE", !.in = now]]
  /\ call' = [call EXCEPT ![h] = Idle]
  /\ UNCHANGED <<now, deaths>>

(* Hours between in and out without the break. *)
Worked(in, out, break) == Larger(0, out - in - break)

(* startOfLocalDayFor: midnight UTC of the local date, where the local day *)
(* begins Offset hours later.                                              *)
LocalDate(t) == (t - Offset) \div DayHours

(* Mutant: a break in progress is not ended by the clock-out. *)
ClockOutRead_OpenBreak(h, e) ==
  /\ Starts(h) /\ Active(e)
  /\ Goes(h, Writing(e, [status |-> "COMPLETED", out |-> now,
                         total |-> Worked(entry[e].in, now, entry[e].break)],
                     LocalDate(entry[e].in)))

ClockOutRead(h, e) ==
  LET r     == entry[e]
      break == r.break + IF r.breakAt = None THEN 0 ELSE now - r.breakAt
  IN  /\ Starts(h) /\ Active(e)
      /\ Goes(h, Writing(e, [status |-> "COMPLETED", out |-> now, break |-> break,
                             breakAt |-> None, total |-> Worked(r.in, now, break)],
                         LocalDate(r.in)))

StartBreakRead(h, e) ==
  /\ Starts(h) /\ Active(e) /\ entry[e].breakAt = None
  /\ Goes(h, Writing(e, [breakAt |-> now], NoDay))

EndBreakRead(h, e) ==
  /\ Starts(h) /\ Active(e) /\ entry[e].breakAt # None
  /\ Goes(h, Writing(e, [break |-> entry[e].break + now - entry[e].breakAt,
                         breakAt |-> None], NoDay))

(* A manager gives times or a break, or leaves them as they were; the      *)
(* status stays.                                                           *)
UpdateRead(h, e, in, out, break) ==
  /\ Starts(h) /\ Stands(e)
  /\ out = None => entry[e].out = None
  /\ out # None => in < out
  /\ Goes(h, Writing(e, [in |-> in, out |-> out, break |-> break,
                         total |-> IF out = None THEN entry[e].total
                                   ELSE Worked(in, out, break)],
                     IF out = None THEN NoDay ELSE LocalDate(in)))

(* approve, reject *)
DecideRead(h, e, status) ==
  /\ Starts(h) /\ entry[e].status = "COMPLETED"
  /\ Goes(h, Writing(e, [status |-> status], NoDay))

(* Row r with the columns set to their new values. *)
Over(r, set) == [c \in DOMAIN r |-> IF c \in DOMAIN set THEN set[c] ELSE r[c]]

(* The handler sets columns of a row, if it is there, and goes on as c;    *)
(* otherwise the write throws.                                             *)
Sets(h, e, set, c) ==
  /\ entry' = IF Stands(e) THEN [entry EXCEPT ![e] = Over(@, set)] ELSE entry
  /\ call' = [call EXCEPT ![h] = IF Stands(e) THEN c ELSE Idle]
  /\ UNCHANGED <<now, deaths>>

Write(h) ==
  LET c == call[h]
  IN  /\ c.pc = "write"
      /\ Sets(h, c.id, c.set,
              IF c.day = NoDay THEN Idle ELSE [Idle EXCEPT !.pc = "recalc", !.day = c.day])

-----------------------------------------------------------------------------
(* recalculateDailyOvertime *)
DayEntries(d) ==
  {e \in Entries : Stands(e) /\ entry[e].out # None
                     /\ entry[e].in \in (d * DayHours)..((d + 1) * DayHours - 1)}

Earlier(a, b) == entry[a].in < entry[b].in \/ (entry[a].in = entry[b].in /\ a < b)

Total(S) == SumFunctionOnSet([e \in Entries |-> entry[e].total], S)

(* Mutant: past the threshold the regular hours are negative. *)
Regular_Unclamped(e, before) == Smaller(entry[e].total, Daily - before)

(* Hours of e within the daily threshold, after the hours before it. *)
Regular(e, before) == Larger(0, Smaller(entry[e].total, Daily - before))

Allocation(e, day) ==
  LET before  == {f \in day : Earlier(f, e)}
      regular == Regular(e, Total(before))
  IN  [id |-> e, place |-> Cardinality(before),
       set |-> [regular |-> regular, over |-> entry[e].total - regular]]

RecalcRead(h) ==
  LET day == DayEntries(call[h].day)
  IN  /\ call[h].pc = "recalc"
      /\ Goes(h, IF day = {} THEN Idle
                 ELSE [Idle EXCEPT !.pc = "allocate", !.todo = {Allocation(e, day) : e \in day}])

(* The entries of the day are written in their order. *)
Allocate(h) ==
  LET todo == call[h].todo
  IN  /\ call[h].pc = "allocate"
      /\ \E a \in todo :
           /\ \A b \in todo : a.place <= b.place
           /\ Sets(h, a.id, a.set,
                   IF todo = {a} THEN Idle ELSE [call[h] EXCEPT !.todo = todo \ {a}])

(* remove deletes the row; the day is not recalculated. *)
RemoveEntry(h, e) ==
  /\ Starts(h) /\ Stands(e)
  /\ entry' = [entry EXCEPT ![e] = NoEntry]
  /\ UNCHANGED <<now, call, deaths>>

Abort(h) ==
  /\ call[h].pc # "idle" /\ deaths < MaxAborts
  /\ deaths' = deaths + 1
  /\ call' = [call EXCEPT ![h] = Idle]
  /\ UNCHANGED <<entry, now>>

Tick == now + 1 \in Hours /\ now' = now + 1 /\ UNCHANGED <<entry, call, deaths>>

Handle(h) ==
  \/ ClockInRead(h) \/ Write(h) \/ RecalcRead(h) \/ Allocate(h) \/ Abort(h)
  \/ \E e \in Entries :
       \/ ClockInCreate(h, e) \/ ClockOutRead(h, e) \/ RemoveEntry(h, e)
       \/ StartBreakRead(h, e) \/ EndBreakRead(h, e)
       \/ \E status \in {"APPROVED", "REJECTED"} : DecideRead(h, e, status)
       \/ \E in \in Hours, out \in Hours \cup {None}, break \in {0, 1} :
            UpdateRead(h, e, in, out, break)

Next == (\E h \in Handlers : Handle(h)) \/ Tick

Spec == Init /\ [][Next]_vars

-----------------------------------------------------------------------------
(* The timesheet of the entries in S.  A week's overtime is not allocated  *)
(* to entries: it is set against the sum of the daily one.                 *)
RegularOf(S) == SumFunctionOnSet([e \in Entries |-> entry[e].regular], S)

WeekOf(e) == LocalDate(entry[e].in) \div WeekDays

(* Mutant: the two kinds of overtime do not make up for one another. *)
Overtime_DailyOnly(daily, weekly) == daily

Overtime(daily, weekly) == Larger(daily, weekly)

Timesheet(S) ==
  LET counted == {e \in S : Stands(e) /\ entry[e].out # None}
      weeks   == {WeekOf(e) : e \in counted}
      excess  == [w \in weeks |-> Larger(0, Total({e \in counted : WeekOf(e) = w}) - Weekly)]
  IN  [total    |-> Total(counted),
       overtime |-> Overtime(Total(counted) - RegularOf(counted), SumFunction(excess))]

Quiet == deaths = 0 /\ \A h \in Handlers : call[h].pc = "idle"

(* Types of the rows and of what the handlers will write. *)
TypeOK ==
  /\ entry \in [Entries -> Row]
  /\ now \in Hours /\ deaths \in 0..MaxAborts
  /\ \A h \in Handlers :
       /\ call[h].pc \in {"idle", "create", "write", "recalc", "allocate"}
       /\ call[h].id \in Entries /\ Over(NoEntry, call[h].set) \in Row
       /\ \A a \in call[h].todo : a.id \in Entries /\ Over(NoEntry, a.set) \in Row

(* A user has one entry running at most (clockIn), and is on break in no   *)
(* entry that has ended: the handlers find the entry to end by its status  *)
(* alone.  One handler at a time.                                          *)
OneShift ==
  /\ \A e, f \in Entries : Active(e) /\ Active(f) => e = f
  /\ \A e \in Entries : entry[e].breakAt # None => Active(e)

(* What a user is paid at the regular rate for a day or a week, after any  *)
(* edits and removals, is within its threshold (timesheet), when no        *)
(* handler is in the middle of its writes or died there.                   *)
PaidWithinThresholds ==
  Quiet =>
    \A e \in Entries : Stands(e) =>
      LET day   == {f \in Entries : Stands(f) /\ LocalDate(entry[f].in) = LocalDate(entry[e].in)}
          week  == {f \in Entries : Stands(f) /\ WeekOf(f) = WeekOf(e)}
          Paid(S) == Timesheet(S).total - Timesheet(S).overtime
      IN  Paid(day) <= Daily /\ Paid(week) <= Weekly

(* "Daily overtime (>8/day) is allocated per entry ... against a running   *)
(* total for that user's local calendar day" (time-entries.service.ts:116):*)
(* the hours of an entry that has ended are split into regular and         *)
(* overtime, when no handler is in the middle of its writes or died there. *)
Allocated ==
  Quiet => \A e \in Entries : entry[e].out # None =>
             entry[e].regular + entry[e].over = entry[e].total
=============================================================================
