------------------------------ MODULE AiDrafts ------------------------------
(***************************************************************************)
(* AiService: the transcript of a job's voice memo, the invoice draft made *)
(* from it, and the organization's monthly credits.  The language model    *)
(* answers with a draft, with nothing, or with one over the safety limit.  *)
(* The credit is read before the model is asked, and read again and        *)
(* written after it has answered: another handler, or the end of the       *)
(* month, may come between any two steps.  The plan stays the same.        *)
(***************************************************************************)
EXTENDS Integers, FiniteSets

CONSTANTS
  Calls,     (* slots for handlers in flight                               *)
  Limit,     (* AI_CREDIT_LIMITS of the organization's plan                *)
  Months,    (* bound: months that pass                                    *)
  MaxAsked,  (* bound: drafts asked for                                    *)
  MaxDeaths  (* bound: handlers that die between two awaits                *)

VARIABLES
  credits,    (* aiCreditsUsed, and the month of aiCreditsResetAt, 0: null *)
  month,      (* now                                                       *)
  transcript, (* the job has a voiceMemoTranscript                         *)
  draft,      (* the job has an aiInvoiceDraft                             *)
  run,        (* handlers in flight                                        *)
  tally       (* history: drafts asked for, made and kept, invoices of     *)
              (* confirmed drafts, handlers that died, credits by month    *)

vars == <<credits, month, transcript, draft, run, tally>>

Steps == {"idle", "transcribing", "credit", "model", "spend", "count", "keep", "clear"}

Resting == [pc |-> "idle", used |-> 0, resetAt |-> 0]

Init ==
  /\ credits = [used |-> 0, resetAt |-> 0] /\ month = 1
  /\ transcript = FALSE /\ draft = FALSE
  /\ run = [c \in Calls |-> Resting]
  /\ tally = [asked |-> 0, made |-> 0, kept |-> 0, invoices |-> 0, deaths |-> 0,
              spent |-> [m \in 0..Months |-> 0]]

At(c, pc) == run[c].pc = pc

To(c, pc) == run' = [run EXCEPT ![c] = [Resting EXCEPT !.pc = pc]]

Job == <<transcript, draft>>

(* transcribe: the memo is stored and sent to the model. *)
Record(c) ==
  /\ At(c, "idle") /\ To(c, "transcribing")
  /\ UNCHANGED <<credits, month, Job, tally>>

(* No answer leaves the transcript the handler found: there may be one.    *)
Transcribed(c) ==
  /\ At(c, "transcribing") /\ To(c, "idle")
  /\ transcript' \in {transcript, TRUE}
  /\ UNCHANGED <<credits, month, draft, tally>>

(* The transcript may come with the request, too. *)
Ask(c, given) ==
  /\ At(c, "idle") /\ (given \/ transcript) /\ tally.asked < MaxAsked
  /\ To(c, "credit")
  /\ tally' = [tally EXCEPT !.asked = @ + 1]
  /\ UNCHANGED <<credits, month, Job>>

(* A counter of an earlier month counts for nothing. *)
CurrentWindow ==
  IF credits.resetAt < month THEN [used |-> 0, resetAt |-> month] ELSE credits

(* Mutant: the limit itself is still under it. *)
UnderLimit_OneMore == CurrentWindow.used <= Limit

UnderLimit == CurrentWindow.used < Limit

CheckCredit(c) ==
  /\ At(c, "credit") /\ To(c, IF UnderLimit THEN "model" ELSE "idle")
  /\ UNCHANGED <<credits, month, Job, tally>>

(* A draft, or nothing (not configured, failed, or its total too large).   *)
ModelAnswers(c) ==
  /\ At(c, "model") /\ (To(c, "spend") \/ To(c, "idle"))
  /\ UNCHANGED <<credits, month, Job, tally>>

(* consumeCredit reads the window again, *)
ReadCredit(c) ==
  /\ At(c, "spend")
  /\ run' = [run EXCEPT ![c] = [pc |-> "count", used |-> CurrentWindow.used,
                                resetAt |-> CurrentWindow.resetAt]]
  /\ UNCHANGED <<credits, month, Job, tally>>

(* ... and writes it back, one higher. *)
Consumed(r) == [used |-> r.used + 1, resetAt |-> r.resetAt]

Consume(c) ==
  /\ At(c, "count") /\ To(c, "keep")
  /\ credits' = Consumed(run[c])
  /\ tally' = [tally EXCEPT !.made = @ + 1, !.spent[run[c].resetAt] = @ + 1]
  /\ UNCHANGED <<month, Job>>

KeepDraft(c) ==
  /\ At(c, "keep") /\ To(c, "idle")
  /\ draft' = TRUE
  /\ tally' = [tally EXCEPT !.kept = @ + 1]
  /\ UNCHANGED <<credits, month, transcript>>

(* confirmInvoiceDraft never looks at the draft: the invoice is made from  *)
(* the lines in the request, and the draft removed after it.               *)
Confirm(c) ==
  /\ At(c, "idle") /\ tally.invoices < MaxAsked
  /\ To(c, "clear")
  /\ tally' = [tally EXCEPT !.invoices = @ + 1]
  /\ UNCHANGED <<credits, month, Job>>

ClearDraft(c) ==
  /\ At(c, "clear") /\ To(c, "idle")
  /\ draft' = FALSE
  /\ UNCHANGED <<credits, month, transcript, tally>>

Die(c) ==
  /\ ~At(c, "idle") /\ tally.deaths < MaxDeaths
  /\ To(c, "idle")
  /\ tally' = [tally EXCEPT !.deaths = @ + 1]
  /\ UNCHANGED <<credits, month, Job>>

MonthTurns ==
  /\ month < Months
  /\ month' = month + 1
  /\ UNCHANGED <<credits, Job, run, tally>>

Handle(c) ==
  \/ Record(c) \/ Transcribed(c) \/ \E given \in BOOLEAN : Ask(c, given)
  \/ CheckCredit(c) \/ ModelAnswers(c) \/ ReadCredit(c) \/ Consume(c) \/ KeepDraft(c)
  \/ Confirm(c) \/ ClearDraft(c) \/ Die(c)

Next == (\E c \in Calls : Handle(c)) \/ MonthTurns

Spec == Init /\ [][Next]_vars

-----------------------------------------------------------------------------
(* The counter is never ahead of the drafts made in its month, whatever    *)
(* handlers overlap: an organization is not refused a credit it has        *)
(* (consumeCredit).                                                        *)
NeverOvercharged == credits.used <= tally.spent[credits.resetAt]

(* No more credits are spent in a month than the plan allows, one handler  *)
(* at a time.                                                              *)
SpentWithinPlan == \A m \in 0..Months : tally.spent[m] <= Limit

(* "credits are only actually spent once OpenAI returns a real draft": no  *)
(* more are spent than the plan allows, and a handler that spends one,     *)
(* with a draft made, keeps it unless it dies.  One handler at a time.     *)
CreditsCover ==
  /\ SpentWithinPlan
  /\ tally.made <= tally.kept + tally.deaths + Cardinality({c \in Calls : At(c, "keep")})
=============================================================================
