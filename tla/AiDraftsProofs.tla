--------------------------- MODULE AiDraftsProofs ---------------------------
(***************************************************************************)
(* The monthly credits, for any number of drafts and months: the counter   *)
(* is never ahead of the drafts made, however handlers overlap; and one at *)
(* a time they spend no more than the plan allows, each on a draft that is *)
(* kept.                                                                   *)
(***************************************************************************)
EXTENDS AiDrafts, FiniteSetTheorems, TLAPS

Flight == [pc: Steps, used: Nat, resetAt: 0..Months]

Tallies == [asked: Nat, made: Nat, kept: Nat, invoices: Nat, deaths: Nat, spent: [0..Months -> Nat]]

DraftsOK ==
  /\ month \in 1..Months
  /\ credits \in [used: Nat, resetAt: 0..Months]
  /\ run \in [Calls -> Flight]
  /\ tally \in Tallies

(* What a handler is about to write back is not ahead either: the drafts   *)
(* of a month only grow.                                                   *)
ReadsCovered == \A c \in Calls : At(c, "count") => run[c].used <= tally.spent[run[c].resetAt]

CountInv == DraftsOK /\ NeverOvercharged /\ ReadsCovered

LEMMA RestingType == ASSUME Months \in Nat \ {0} PROVE \A pc \in Steps : [Resting EXCEPT !.pc = pc] \in Flight
  BY DEF Resting, Flight, Steps

LEMMA WindowType ==
  ASSUME Months \in Nat \ {0}, DraftsOK
  PROVE  /\ CurrentWindow.used \in Nat /\ CurrentWindow.resetAt \in 0..Months
         /\ CurrentWindow.used = IF credits.resetAt < month THEN 0 ELSE credits.used
         /\ CurrentWindow.resetAt = IF credits.resetAt < month THEN month ELSE credits.resetAt
  BY DEF CurrentWindow, DraftsOK

(* Counting anything but a credit leaves the credits spent alone. *)
LEMMA TallySteps ==
  ASSUME NEW t \in Tallies
  PROVE  /\ LET u == [t EXCEPT !.asked = @ + 1]
            IN  /\ u \in Tallies /\ u.spent = t.spent /\ u.made = t.made
                /\ u.asked = t.asked + 1 /\ u.kept = t.kept /\ u.deaths = t.deaths
         /\ LET u == [t EXCEPT !.kept = @ + 1]
            IN  /\ u \in Tallies /\ u.spent = t.spent /\ u.made = t.made
                /\ u.asked = t.asked /\ u.kept = t.kept + 1 /\ u.deaths = t.deaths
         /\ LET u == [t EXCEPT !.invoices = @ + 1]
            IN  /\ u \in Tallies /\ u.spent = t.spent /\ u.made = t.made
                /\ u.asked = t.asked /\ u.kept = t.kept /\ u.deaths = t.deaths
         /\ LET u == [t EXCEPT !.deaths = @ + 1]
            IN  /\ u \in Tallies /\ u.spent = t.spent /\ u.made = t.made
                /\ u.asked = t.asked /\ u.kept = t.kept /\ u.deaths = t.deaths + 1
  BY DEF Tallies

LEMMA SpentSteps ==
  ASSUME NEW t \in Tallies, NEW m \in 0..Months
  PROVE  LET u == [t EXCEPT !.made = @ + 1, !.spent[m] = @ + 1]
         IN  /\ u \in Tallies /\ u.spent = [t.spent EXCEPT ![m] = @ + 1]
             /\ u.made = t.made + 1 /\ u.asked = t.asked /\ u.kept = t.kept /\ u.deaths = t.deaths
<1> DEFINE f == t.spent
           s == [f EXCEPT ![m] = f[m] + 1]
           n == t.made + 1
<1>1. f \in [0..Months -> Nat] /\ n \in Nat
  BY DEF Tallies
<1>2. [t EXCEPT !.made = @ + 1, !.spent[m] = @ + 1] = [t EXCEPT !.made = n, !.spent = s]
  OBVIOUS
<1> HIDE DEF f
<1>3. s \in [0..Months -> Nat]
  <2>1. f[m] + 1 \in Nat
    BY <1>1
  <2> QED
    BY <1>1, <2>1
<1> HIDE DEF s, n
<1>4. LET u == [t EXCEPT !.made = n, !.spent = s]
      IN  /\ u \in Tallies /\ u.spent = s /\ u.made = n
          /\ u.asked = t.asked /\ u.kept = t.kept /\ u.deaths = t.deaths
  BY <1>1, <1>3 DEF Tallies
<1> QED
  BY <1>2, <1>4 DEF s, n, f

(* A draft asked for, and not yet made or refused. *)
Pending == {"credit", "model", "spend", "count"}

(* The handlers that do not count: where they go, and what they leave.     *)
Bystander(c, pc) ==
  /\ To(c, pc) /\ pc \in Steps \ {"count", "keep"}
  /\ (pc = "model" => UnderLimit) /\ (pc = "spend" => At(c, "model"))
  /\ credits' = credits /\ month' = month
  /\ tally'.spent = tally.spent /\ tally'.made = tally.made
  /\ tally' \in Tallies
  /\ tally'.kept + tally'.deaths >= tally.kept + tally.deaths + (IF At(c, "keep") THEN 1 ELSE 0)
  /\ \/ tally'.asked = tally.asked /\ (pc \in Pending => run[c].pc \in Pending)
     \/ tally'.asked = tally.asked + 1 /\ tally.asked < MaxAsked

LEMMA BystanderSteps ==
  ASSUME Months \in Nat \ {0}, DraftsOK, NEW c \in Calls, Handle(c)
  PROVE  \/ ReadCredit(c) \/ Consume(c)
         \/ \E pc \in Steps : Bystander(c, pc)
<1>0. tally \in Tallies /\ tally.kept \in Nat /\ tally.deaths \in Nat
  BY DEF DraftsOK, Tallies
<1>1. ASSUME NEW pc \in Steps \ {"count", "keep"}, To(c, pc), UNCHANGED <<credits, month, tally>>,
             ~At(c, "keep"), pc = "model" => UnderLimit, pc = "spend" => At(c, "model"),
             pc \in Pending => run[c].pc \in Pending
      PROVE  Bystander(c, pc)
  BY <1>0, <1>1 DEF Bystander
<1>2. CASE Record(c)
  BY <1>1, <1>2 DEF Record, At, Steps, Pending
<1>3. CASE Transcribed(c)
  BY <1>1, <1>3 DEF Transcribed, At, Steps, Pending
<1>4. CASE \E given \in BOOLEAN : Ask(c, given)
  <2> DEFINE t == [tally EXCEPT !.asked = @ + 1]
  <2>1. To(c, "credit") /\ tally' = t /\ credits' = credits /\ month' = month /\ ~At(c, "keep") /\ tally.asked < MaxAsked
    BY <1>4 DEF Ask, At
  <2>2. t \in Tallies /\ t.spent = tally.spent /\ t.made = tally.made /\ t.asked = tally.asked + 1
        /\ t.kept = tally.kept /\ t.deaths = tally.deaths
    BY <1>0, TallySteps
  <2> HIDE DEF t
  <2> QED
    BY <1>0, <2>1, <2>2 DEF Bystander, Steps
<1>5. CASE CheckCredit(c)
  BY <1>1, <1>5 DEF CheckCredit, At, Steps, Pending
<1>6. CASE ModelAnswers(c)
  BY <1>1, <1>6 DEF ModelAnswers, At, Steps, Pending
<1>7. CASE KeepDraft(c)
  <2> DEFINE t == [tally EXCEPT !.kept = @ + 1]
  <2>1. To(c, "idle") /\ tally' = t /\ credits' = credits /\ month' = month
    BY <1>7 DEF KeepDraft
  <2>2. t \in Tallies /\ t.spent = tally.spent /\ t.made = tally.made /\ t.asked = tally.asked
        /\ t.kept = tally.kept + 1 /\ t.deaths = tally.deaths
    BY <1>0, TallySteps
  <2> HIDE DEF t
  <2> QED
    BY <1>0, <2>1, <2>2 DEF Bystander, Steps, Pending
<1>8. CASE Confirm(c)
  <2> DEFINE t == [tally EXCEPT !.invoices = @ + 1]
  <2>1. To(c, "clear") /\ tally' = t /\ credits' = credits /\ month' = month /\ ~At(c, "keep")
    BY <1>8 DEF Confirm, At
  <2>2. t \in Tallies /\ t.spent = tally.spent /\ t.made = tally.made /\ t.asked = tally.asked
        /\ t.kept = tally.kept /\ t.deaths = tally.deaths
    BY <1>0, TallySteps
  <2> HIDE DEF t
  <2> QED
    BY <1>0, <2>1, <2>2 DEF Bystander, Steps, Pending
<1>9. CASE ClearDraft(c)
  BY <1>1, <1>9 DEF ClearDraft, At, Steps, Pending
<1>10. CASE Die(c)
  <2> DEFINE t == [tally EXCEPT !.deaths = @ + 1]
  <2>1. To(c, "idle") /\ tally' = t /\ credits' = credits /\ month' = month
    BY <1>10 DEF Die
  <2>2. t \in Tallies /\ t.spent = tally.spent /\ t.made = tally.made /\ t.asked = tally.asked
        /\ t.kept = tally.kept /\ t.deaths = tally.deaths + 1
    BY <1>0, TallySteps
  <2> HIDE DEF t
  <2> QED
    BY <1>0, <2>1, <2>2 DEF Bystander, Steps, Pending
<1> QED
  BY <1>2, <1>3, <1>4, <1>5, <1>6, <1>7, <1>8, <1>9, <1>10 DEF Handle

LEMMA CountNext ==
  ASSUME Months \in Nat \ {0}, CountInv, [Next]_vars
  PROVE  CountInv'
<1>1. ASSUME NEW c \in Calls, NEW pc \in Steps, Bystander(c, pc) PROVE CountInv'
  <2>1. DraftsOK'
    BY <1>1, RestingType DEF Bystander, To, CountInv, DraftsOK
  <2>2. NeverOvercharged'
    BY <1>1 DEF Bystander, CountInv, NeverOvercharged
  <2>3. ASSUME NEW d \in Calls, At(d, "count")' PROVE run'[d].used <= tally'.spent[run'[d].resetAt]
    <3>1. run'[d] = run[d]
      BY <1>1, <2>3, RestingType DEF Bystander, To, At, CountInv, DraftsOK, Resting
    <3> QED
      BY <1>1, <2>3, <3>1 DEF Bystander, At, CountInv, ReadsCovered
  <2> QED
    BY <2>1, <2>2, <2>3 DEF CountInv, ReadsCovered
<1>2. ASSUME NEW c \in Calls, ReadCredit(c) PROVE CountInv'
  <2> DEFINE r == [pc |-> "count", used |-> CurrentWindow.used, resetAt |-> CurrentWindow.resetAt]
  <2>1. r \in Flight /\ r.used <= tally.spent[r.resetAt]
    <3>1. tally.spent \in [0..Months -> Nat] /\ month \in 0..Months
      BY DEF CountInv, DraftsOK, Tallies
    <3>2. \A m \in 0..Months : tally.spent[m] >= 0
      BY <3>1
    <3> QED
      BY <3>1, <3>2, WindowType DEF CountInv, DraftsOK, NeverOvercharged, Flight, Steps
  <2>2. run' = [run EXCEPT ![c] = r] /\ credits' = credits /\ month' = month /\ tally' = tally
    BY <1>2 DEF ReadCredit
  <2> HIDE DEF r
  <2>3. DraftsOK' /\ NeverOvercharged'
    BY <2>1, <2>2 DEF CountInv, DraftsOK, NeverOvercharged
  <2>4. ReadsCovered'
    BY <2>1, <2>2 DEF CountInv, DraftsOK, ReadsCovered, At
  <2> QED
    BY <2>3, <2>4 DEF CountInv
<1>3. ASSUME NEW c \in Calls, Consume(c) PROVE CountInv'
  <2> DEFINE m == run[c].resetAt
             n == run[c].used
  <2>1. m \in 0..Months /\ n \in Nat /\ tally.spent[m] \in Nat /\ n <= tally.spent[m]
    <3>1. m \in 0..Months /\ n \in Nat
      BY DEF CountInv, DraftsOK, Flight
    <3>2. tally.spent \in [0..Months -> Nat]
      BY DEF CountInv, DraftsOK, Tallies
    <3>3. n <= tally.spent[m]
      BY <1>3 DEF Consume, CountInv, ReadsCovered
    <3> QED
      BY <3>1, <3>2, <3>3
  <2>2. tally' \in Tallies /\ tally'.spent = [tally.spent EXCEPT ![m] = @ + 1]
    <3>1. tally' = [tally EXCEPT !.made = @ + 1, !.spent[m] = @ + 1] /\ tally \in Tallies
      BY <1>3 DEF Consume, CountInv, DraftsOK
    <3> HIDE DEF m
    <3> QED
      BY <2>1, <3>1, SpentSteps
  <2>3. /\ credits' = [used |-> n + 1, resetAt |-> m] /\ month' = month
        /\ run' = [run EXCEPT ![c] = [Resting EXCEPT !.pc = "keep"]]
        /\ tally' = [tally EXCEPT !.made = @ + 1, !.spent[m] = @ + 1]
    BY <1>3 DEF Consume, Consumed, To
  <2> HIDE DEF m, n
  <2>4. [Resting EXCEPT !.pc = "keep"] \in Flight /\ [Resting EXCEPT !.pc = "keep"].pc = "keep"
    BY RestingType DEF Steps, Resting
  <2>5. DraftsOK'
    <3>1. credits' \in [used: Nat, resetAt: 0..Months]
      BY <2>1, <2>3
    <3> QED
      BY <2>2, <2>3, <2>4, <3>1 DEF CountInv, DraftsOK
  <2>6. NeverOvercharged'
    <3>1. tally.spent \in [0..Months -> Nat]
      BY DEF CountInv, DraftsOK, Tallies
    <3>2. tally'.spent[m] = tally.spent[m] + 1
      BY <2>1, <2>2, <3>1
    <3>3. credits'.used = n + 1 /\ credits'.resetAt = m
      BY <2>3
    <3> QED
      BY <2>1, <3>2, <3>3 DEF NeverOvercharged
  <2>7. ASSUME NEW d \in Calls, At(d, "count")' PROVE run'[d].used <= tally'.spent[run'[d].resetAt]
    <3>1. run'[d] = run[d] /\ run[d] \in Flight
      BY <2>3, <2>4, <2>7 DEF CountInv, DraftsOK, At
    <3>2. run[d].used <= tally.spent[run[d].resetAt] /\ run[d].resetAt \in 0..Months /\ run[d].used \in Nat
      BY <2>7, <3>1 DEF At, CountInv, ReadsCovered, Flight
    <3>3. tally.spent \in [0..Months -> Nat]
      BY DEF CountInv, DraftsOK, Tallies
    <3>4. tally'.spent[run[d].resetAt] \in {tally.spent[run[d].resetAt], tally.spent[run[d].resetAt] + 1}
      BY <2>1, <2>2, <3>2, <3>3
    <3>5. tally.spent[run[d].resetAt] \in Nat
      BY <3>2, <3>3
    <3> QED
      BY <3>1, <3>2, <3>4, <3>5
  <2> QED
    BY <2>5, <2>6, <2>7 DEF CountInv, ReadsCovered
<1>4. CASE MonthTurns
  BY <1>4 DEF MonthTurns, Job, CountInv, DraftsOK, NeverOvercharged, ReadsCovered, At
<1>5. CASE UNCHANGED vars
  BY <1>5 DEF vars, CountInv, DraftsOK, NeverOvercharged, ReadsCovered, At
<1> QED
  BY <1>1, <1>2, <1>3, <1>4, <1>5, BystanderSteps DEF Next, CountInv

LEMMA CountInit == ASSUME Months \in Nat \ {0} PROVE Init => CountInv
  BY DEF Init, CountInv, DraftsOK, NeverOvercharged, ReadsCovered, At, Resting, Flight, Steps, Tallies

(* consumeCredit writes back a value it read before: with any number of    *)
(* drafts at once the counter may fall behind the drafts made in its month *)
(* but is never ahead of them.                                             *)
THEOREM CounterNeverAhead == ASSUME Months \in Nat \ {0} PROVE Spec => []NeverOvercharged
<1>1. CountInv => NeverOvercharged
  BY DEF CountInv
<1> QED
  BY <1>1, CountInit, CountNext, PTL DEF Spec

-----------------------------------------------------------------------------
(* One handler at a time. *)

Inside(c) ==
  /\ At(c, "model") \/ At(c, "spend") => CurrentWindow.used < Limit
  /\ At(c, "count") => /\ run[c].used = tally.spent[run[c].resetAt] /\ run[c].used < Limit
                       /\ run[c].resetAt \in credits.resetAt..month

(* The counter is exact, and no draft was made in a month after its own:   *)
(* so the window a handler finds open is as open as it thinks.             *)
WindowExact ==
  /\ credits.used = tally.spent[credits.resetAt]
  /\ credits.resetAt <= month
  /\ \A m \in 0..Months : credits.resetAt < m => tally.spent[m] = 0

(* A credit that is spent has a draft that is kept, or a handler that is   *)
(* about to keep it, or that died.                                         *)
KeptBy(c) == tally.made <= tally.kept + tally.deaths + (IF At(c, "keep") THEN 1 ELSE 0)

(* f is the handler that runs; the others rest. *)
Rest(f) == \A c \in Calls \ {f} : At(c, "idle")

SpendInv(f) == DraftsOK /\ SpentWithinPlan /\ WindowExact /\ KeptBy(f) /\ Rest(f) /\ Inside(f)

LEMMA SpendMeans == ASSUME NEW f \in Calls, SpendInv(f) PROVE CreditsCover
<1> DEFINE K == {c \in Calls : At(c, "keep")}
<1>1. CASE At(f, "keep")
  <2>1. K = {f}
    BY <1>1 DEF SpendInv, Rest, At
  <2> QED
    BY <1>1, <2>1, FS_Singleton DEF SpendInv, KeptBy, CreditsCover
<1>2. CASE ~At(f, "keep")
  <2>1. K = {}
    BY <1>2 DEF SpendInv, Rest, At
  <2>2. tally.kept \in Nat /\ tally.deaths \in Nat
    BY DEF SpendInv, DraftsOK, Tallies
  <2> QED
    BY <1>2, <2>1, <2>2, FS_EmptySet DEF SpendInv, KeptBy, CreditsCover
<1> QED
  BY <1>1, <1>2

LEMMA SpendNext ==
  ASSUME Months \in Nat \ {0}, Limit \in Nat, NEW f \in Calls, SpendInv(f),
         DraftsOK', Rest(f)', [Next]_vars
  PROVE  SpendInv(f)'
<1>0. /\ tally.spent \in [0..Months -> Nat] /\ credits.used \in Nat /\ credits.resetAt \in 0..Months
      /\ month \in 1..Months /\ tally.made \in Nat /\ tally.kept \in Nat /\ tally.deaths \in Nat
  BY DEF SpendInv, DraftsOK, Tallies
<1>1. ASSUME NEW c \in Calls, NEW pc \in Steps, Bystander(c, pc) PROVE SpendInv(f)'
  <2>1. SpentWithinPlan' /\ WindowExact'
    BY <1>1 DEF Bystander, SpendInv, SpentWithinPlan, WindowExact
  <2>2. \A d \in Calls : run'[d] = IF d = c THEN [Resting EXCEPT !.pc = pc] ELSE run[d]
    BY <1>1 DEF Bystander, To, SpendInv, DraftsOK
  <2>3. run'[c].pc = pc /\ pc # "count" /\ pc # "keep"
    BY <1>1, <2>2 DEF Bystander, Resting
  <2>4. Inside(f)'
    <3>1. CASE f = c
      BY <1>1, <2>3, <3>1 DEF Bystander, Inside, At, SpendInv, UnderLimit, CurrentWindow
    <3>2. CASE f # c
      BY <1>1, <2>2, <3>2 DEF Bystander, Inside, At, SpendInv, CurrentWindow
    <3> QED
      BY <3>1, <3>2
  <2>5. KeptBy(f)'
    <3>1. /\ tally'.made = tally.made /\ tally'.kept \in Nat /\ tally'.deaths \in Nat
          /\ tally'.kept + tally'.deaths >= tally.kept + tally.deaths + (IF At(c, "keep") THEN 1 ELSE 0)
      BY <1>1 DEF Bystander, Tallies
    <3>2. KeptBy(f)
      BY DEF SpendInv
    <3>3. CASE f = c
      BY <1>0, <2>3, <3>1, <3>2, <3>3 DEF KeptBy, At
    <3>4. CASE f # c
      <4> DEFINE n == IF At(f, "keep") THEN 1 ELSE 0
      <4>1. run'[f] = run[f]
        BY <2>2, <3>4
      <4>2. n' = n /\ n \in {0, 1}
        BY <4>1 DEF At
      <4>3. tally'.kept + tally'.deaths >= tally.kept + tally.deaths
        BY <1>0, <3>1
      <4>4. tally.made <= tally.kept + tally.deaths + n
        BY <3>2 DEF KeptBy
      <4> HIDE DEF n
      <4>5. tally'.made <= tally'.kept + tally'.deaths + n'
        BY <1>0, <3>1, <4>2, <4>3, <4>4
      <4> QED
        BY <4>5 DEF KeptBy, n
    <3> QED
      BY <3>3, <3>4
  <2> QED
    BY <2>1, <2>4, <2>5 DEF SpendInv
<1>2. CASE ReadCredit(f)
  <2>1. run'[f] = [pc |-> "count", used |-> CurrentWindow.used, resetAt |-> CurrentWindow.resetAt]
        /\ credits' = credits /\ month' = month /\ tally' = tally /\ At(f, "spend")
    BY <1>2 DEF ReadCredit, SpendInv, DraftsOK
  <2>2. CurrentWindow.used < Limit
    BY <2>1 DEF SpendInv, Inside
  <2>3. CurrentWindow.used = tally.spent[CurrentWindow.resetAt] /\ CurrentWindow.resetAt \in credits.resetAt..month
    BY <1>0, WindowType DEF SpendInv, WindowExact
  <2>4. Inside(f)'
    BY <2>1, <2>2, <2>3 DEF Inside, At
  <2>5. KeptBy(f)'
    BY <1>0, <2>1 DEF SpendInv, KeptBy, At
  <2> QED
    BY <2>1, <2>4, <2>5 DEF SpendInv, SpentWithinPlan, WindowExact
<1>3. CASE Consume(f)
  <2> DEFINE m == run[f].resetAt
             n == run[f].used
  <2>1. m \in 0..Months /\ n \in Nat
    BY DEF SpendInv, DraftsOK, Flight
  <2>2. n = tally.spent[m] /\ n < Limit /\ credits.resetAt <= m /\ m <= month /\ At(f, "count")
    BY <1>0, <1>3 DEF Consume, SpendInv, Inside
  <2>3. credits'.used = n + 1 /\ credits'.resetAt = m /\ month' = month
        /\ tally' = [tally EXCEPT !.made = @ + 1, !.spent[m] = @ + 1] /\ run'[f].pc = "keep"
    BY <1>3, RestingType DEF Consume, Consumed, To, SpendInv, DraftsOK, Resting
  <2> HIDE DEF m, n
  <2>4. /\ tally'.spent = [tally.spent EXCEPT ![m] = @ + 1] /\ tally'.made = tally.made + 1
        /\ tally'.kept = tally.kept /\ tally'.deaths = tally.deaths
    <3>1. tally \in Tallies
      BY DEF SpendInv, DraftsOK
    <3> QED
      BY <2>1, <2>3, <3>1, SpentSteps
  <2>5. SpentWithinPlan'
    <3>1. \A k \in 0..Months : tally'.spent[k] = IF k = m THEN n + 1 ELSE tally.spent[k]
      BY <1>0, <2>1, <2>2, <2>4
    <3>2. n + 1 <= Limit
      BY <2>1, <2>2
    <3> QED
      BY <3>1, <3>2 DEF SpendInv, SpentWithinPlan
  <2>6. WindowExact'
    BY <1>0, <2>1, <2>2, <2>3, <2>4 DEF SpendInv, WindowExact
  <2>7. Inside(f)'
    BY <2>3 DEF Inside, At
  <2>8. KeptBy(f)'
    BY <1>0, <2>2, <2>3, <2>4 DEF SpendInv, KeptBy, At
  <2> QED
    BY <2>5, <2>6, <2>7, <2>8 DEF SpendInv
<1>4. CASE MonthTurns
  <2>1. month' = month + 1 /\ credits' = credits /\ run' = run /\ tally' = tally
    BY <1>4 DEF MonthTurns
  <2>2. Inside(f)'
    <3>1. CurrentWindow'.used \in {0, CurrentWindow.used} /\ CurrentWindow.used \in Nat
      BY <1>0, <2>1 DEF CurrentWindow
    <3>2. Inside(f)
      BY DEF SpendInv
    <3> QED
      BY <1>0, <2>1, <3>1, <3>2 DEF Inside, At
  <2>3. SpentWithinPlan'
    BY <2>1 DEF SpendInv, SpentWithinPlan
  <2>4. WindowExact'
    BY <1>0, <2>1 DEF SpendInv, WindowExact
  <2> QED
    BY <2>1, <2>2, <2>3, <2>4 DEF SpendInv, KeptBy, At
<1>5. CASE UNCHANGED vars
  BY <1>5 DEF vars, SpendInv, SpentWithinPlan, WindowExact, Inside, At, CurrentWindow, KeptBy
<1>6. ASSUME NEW c \in Calls, ReadCredit(c) \/ Consume(c) PROVE c = f
  BY <1>6 DEF ReadCredit, Consume, SpendInv, Rest, At
<1> QED
  BY <1>1, <1>2, <1>3, <1>4, <1>5, <1>6, BystanderSteps DEF Next, SpendInv

LEMMA SpendInit == ASSUME Months \in Nat \ {0}, Limit \in Nat, NEW f \in Calls PROVE Init => SpendInv(f)
<1> SUFFICES ASSUME Init PROVE SpendInv(f)
  OBVIOUS
<1>1. /\ credits.used = 0 /\ credits.resetAt = 0 /\ month = 1
      /\ \A m \in 0..Months : tally.spent[m] = 0
      /\ \A c \in Calls : run[c].pc = "idle"
      /\ tally.made = 0 /\ tally.kept = 0 /\ tally.deaths = 0
  BY DEF Init, Resting
<1> QED
  BY <1>1, CountInit DEF CountInv, SpendInv, SpentWithinPlan, WindowExact, Inside, At, KeptBy, Rest

LEMMA CountTyped == CountInv => DraftsOK
  BY DEF CountInv

(* Handlers that do not overlap spend no more credits in a month than the  *)
(* plan allows, though the window is read again after the model answered   *)
(* and may be a new month's by then; and each credit spent has its draft   *)
(* kept, unless its handler dies (generateInvoiceDraft).                   *)
THEOREM PlanNotExceeded ==
  ASSUME Months \in Nat \ {0}, Limit \in Nat, NEW f \in Calls, \A c \in Calls : c = f
  PROVE  Spec => []CreditsCover
<1>1. Rest(f)'
  BY DEF Rest
<1> QED
  BY <1>1, SpendMeans, CountTyped, CountInit, CountNext, SpendInit, SpendNext, PTL DEF Spec

-----------------------------------------------------------------------------
(* No more credits are counted than drafts were asked for. *)
Waiting == {c \in Calls : run[c].pc \in Pending}

AskedInv ==
  /\ tally.asked <= MaxAsked
  /\ \A m \in 0..Months : tally.spent[m] <= tally.made
  /\ tally.made + Cardinality(Waiting) <= tally.asked

LEMMA AskedInit == ASSUME MaxAsked \in Nat PROVE Init => AskedInv
<1> SUFFICES ASSUME Init PROVE AskedInv
  OBVIOUS
<1>1. Waiting = {}
  BY DEF Init, Waiting, Pending, Resting
<1>2. tally.asked = 0 /\ tally.made = 0 /\ \A m \in 0..Months : tally.spent[m] = 0
  BY DEF Init
<1> QED
  BY <1>1, <1>2, FS_EmptySet DEF AskedInv

(* One handler takes a step: who waits. *)
LEMMA WaitingStep ==
  ASSUME IsFiniteSet(Calls), NEW c \in Calls, \A d \in Calls \ {c} : run'[d].pc = run[d].pc
  PROVE  /\ Cardinality(Waiting) \in Nat /\ Cardinality(Waiting') \in Nat
         /\ Cardinality(Waiting') <= Cardinality(Waiting) + 1
         /\ (run'[c].pc \in Pending => run[c].pc \in Pending) => Cardinality(Waiting') <= Cardinality(Waiting)
         /\ run[c].pc \in Pending /\ run'[c].pc \notin Pending =>
              Cardinality(Waiting') + 1 <= Cardinality(Waiting)
<1> DEFINE W == Waiting
           V == Waiting'
<1>1. IsFiniteSet(W) /\ IsFiniteSet(V) /\ Cardinality(W) \in Nat /\ Cardinality(V) \in Nat
  BY FS_Subset, FS_CardinalityType DEF Waiting
<1>2. V \subseteq W \cup {c} /\ ((run'[c].pc \in Pending => run[c].pc \in Pending) => V \subseteq W)
  BY DEF Waiting
<1>3. Cardinality(W \cup {c}) <= Cardinality(W) + 1 /\ IsFiniteSet(W \cup {c}) /\ Cardinality(W \cup {c}) \in Nat
  <2>1. IsFiniteSet(W \cup {c}) /\ (c \in W \/ Cardinality(W \cup {c}) = Cardinality(W) + 1)
    BY <1>1, FS_AddElement
  <2>2. Cardinality(W \cup {c}) \in Nat
    BY <2>1, FS_CardinalityType
  <2>3. c \in W => W \cup {c} = W
    OBVIOUS
  <2> DEFINE U == W \cup {c}
             n == Cardinality(W)
             k == Cardinality(U)
  <2>4. (k = n \/ k = n + 1) /\ k \in Nat /\ n \in Nat
    BY <1>1, <2>1, <2>2, <2>3
  <2> HIDE DEF n, k
  <2>5. k <= n + 1
    BY <2>4
  <2> QED
    BY <2>1, <2>2, <2>5 DEF n, k
<1>4. Cardinality(V) <= Cardinality(W \cup {c})
  BY <1>2, <1>3, FS_Subset
<1>5. V \subseteq W => Cardinality(V) <= Cardinality(W)
  BY <1>1, FS_Subset
<1>6. ASSUME run[c].pc \in Pending, run'[c].pc \notin Pending PROVE Cardinality(V) + 1 <= Cardinality(W)
  <2>1. c \in W /\ V \subseteq W \ {c}
    BY <1>6 DEF Waiting
  <2>2. Cardinality(W \ {c}) = Cardinality(W) - 1 /\ IsFiniteSet(W \ {c})
    BY <1>1, <2>1, FS_RemoveElement
  <2>3. Cardinality(V) <= Cardinality(W \ {c})
    BY <2>1, <2>2, FS_Subset
  <2> QED
    BY <1>1, <2>2, <2>3
<1> HIDE DEF W, V
<1> QED
  BY <1>1, <1>2, <1>3, <1>4, <1>5, <1>6 DEF W, V

LEMMA AskedNext ==
  ASSUME Months \in Nat \ {0}, MaxAsked \in Nat, IsFiniteSet(Calls), DraftsOK, AskedInv, [Next]_vars
  PROVE  AskedInv'
<1>0. /\ tally \in Tallies /\ tally.asked \in Nat /\ tally.made \in Nat
      /\ tally.spent \in [0..Months -> Nat] /\ run \in [Calls -> Flight]
  BY DEF DraftsOK, Tallies
<1>1. ASSUME NEW c \in Calls, NEW pc \in Steps, Bystander(c, pc) PROVE AskedInv'
  <2>1. run'[c].pc = pc /\ \A d \in Calls \ {c} : run'[d].pc = run[d].pc
    BY <1>0, <1>1 DEF Bystander, To, Resting
  <2>2. tally'.spent = tally.spent /\ tally'.made = tally.made
        /\ (\/ tally'.asked = tally.asked /\ (pc \in Pending => run[c].pc \in Pending)
            \/ tally'.asked = tally.asked + 1 /\ tally.asked < MaxAsked)
    BY <1>1 DEF Bystander
  <2>3. tally'.asked <= MaxAsked
    BY <1>0, <2>2 DEF AskedInv
  <2>4. tally'.made + Cardinality(Waiting') <= tally'.asked
    BY <1>0, <2>1, <2>2, WaitingStep DEF AskedInv
  <2> QED
    BY <2>2, <2>3, <2>4 DEF AskedInv
<1>2. ASSUME NEW c \in Calls, ReadCredit(c) PROVE AskedInv'
  <2>1. run'[c].pc = "count" /\ run[c].pc \in Pending /\ tally' = tally
        /\ \A d \in Calls \ {c} : run'[d].pc = run[d].pc
    BY <1>0, <1>2 DEF ReadCredit, At, Pending
  <2>2. Cardinality(Waiting') <= Cardinality(Waiting) /\ Cardinality(Waiting) \in Nat /\ Cardinality(Waiting') \in Nat
    BY <2>1, WaitingStep
  <2> QED
    BY <1>0, <2>1, <2>2 DEF AskedInv
<1>3. ASSUME NEW c \in Calls, Consume(c) PROVE AskedInv'
  <2> DEFINE m == run[c].resetAt
  <2>1. run'[c].pc = "keep" /\ run[c].pc \in Pending /\ "keep" \notin Pending /\ m \in 0..Months
        /\ tally' = [tally EXCEPT !.made = @ + 1, !.spent[m] = @ + 1]
        /\ \A d \in Calls \ {c} : run'[d].pc = run[d].pc
    BY <1>0, <1>3 DEF Consume, To, At, Pending, Resting, Flight
  <2> HIDE DEF m
  <2>2. tally'.spent = [tally.spent EXCEPT ![m] = @ + 1] /\ tally'.made = tally.made + 1 /\ tally'.asked = tally.asked
    BY <1>0, <2>1, SpentSteps
  <2>3. \A k \in 0..Months : tally'.spent[k] <= tally'.made
    BY <1>0, <2>1, <2>2 DEF AskedInv
  <2>4. Cardinality(Waiting') + 1 <= Cardinality(Waiting) /\ Cardinality(Waiting) \in Nat /\ Cardinality(Waiting') \in Nat
    BY <2>1, WaitingStep
  <2> QED
    BY <1>0, <2>2, <2>3, <2>4 DEF AskedInv
<1>4. CASE run' = run /\ tally' = tally
  BY <1>4 DEF AskedInv, Waiting
<1> QED
  BY <1>1, <1>2, <1>3, <1>4, BystanderSteps DEF Next, MonthTurns, vars

(* What the counter is, at most, with any number of handlers. *)
LEMMA CounterBounded ==
  ASSUME Months \in Nat \ {0}, MaxAsked \in Nat, IsFiniteSet(Calls), CountInv, AskedInv
  PROVE  credits \in [used: 0..MaxAsked, resetAt: 0..Months]
<1>1. Cardinality(Waiting) \in Nat
  BY FS_Subset, FS_CardinalityType DEF Waiting
<1>2. /\ credits \in [used: Nat, resetAt: 0..Months] /\ tally.spent \in [0..Months -> Nat]
      /\ tally.made \in Nat /\ tally.asked \in Nat /\ credits.used <= tally.spent[credits.resetAt]
  BY DEF CountInv, DraftsOK, Tallies, NeverOvercharged
<1>3. credits.used <= MaxAsked
  BY <1>1, <1>2 DEF AskedInv
<1> QED
  BY <1>2, <1>3
=============================================================================
