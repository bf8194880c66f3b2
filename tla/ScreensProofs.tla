---------------------------- MODULE ScreensProofs ---------------------------
(***************************************************************************)
(* Screens for any number of requests and moves of others, on every page   *)
(* and query of the two applications.  The tables of pages, hooks and      *)
(* endpoints enter only by the three facts Screens states of them; all the *)
(* rest is the order in which answers, invalidations and presses meet.     *)
(***************************************************************************)
EXTENDS Screens, TLAPS

(* The names of statuses and mutations. *)
Words == STRING \cup {"none", "any", "nothing"}

Request ==
  [pc: {"unsent", "sent", "handled", "settling", "done"}, by: Words, how: {"button", "loose", "form", "blind"},
   to: Words, sees: Words, again: BOOLEAN, ours: BOOLEAN, outcome: {"none", "accepted", "refused", "lost"},
   stale: BOOLEAN, cut: BOOLEAN]

Answer == [of: 0..2, sees: Words, lag: SUBSET Requests, late: BOOLEAN, crossed: BOOLEAN]

Fetch == [pc: {"idle", "asked", "served"}, of: 0..2, answer: Answer, late: BOOLEAN, crossed: BOOLEAN]

ScreenTypeOK ==
  /\ place \in [page: DOMAIN AppPages, query: Words] /\ place.query \in WatchedPage.shows
  /\ mounted \in BOOLEAN /\ form \in BOOLEAN /\ who \in 0..2
  /\ row \in Words /\ moved \in 0..MaxMoves
  /\ cache \in [answer: Answer, failed: BOOLEAN, aged: BOOLEAN]
  /\ fetch \in Fetch
  /\ sent \in [Requests -> Request]

Begun(s) == sent[s].pc # "unsent"

(* Requests are numbered in the order they are made.                         *)
Numbered ==
  /\ \A s \in Requests : ~Begun(s) => sent[s] = NotSent
  /\ \A s, t \in Requests : s < t /\ Begun(t) => Begun(s)

(* A page on the screen has a user, and a request it knows of a page; what a *)
(* request waits for is in flight.                                           *)
OnScreen ==
  /\ mounted => who # 0
  /\ \A s \in Requests : sent[s].ours => mounted
  /\ \A s \in Requests : sent[s].pc = "settling" => InFlight

(* A fetch is the present user's, or knows that it outlived a session.       *)
FetchOwned ==
  /\ InFlight => fetch.of # 0
  /\ InFlight /\ fetch.of # who => fetch.crossed
  /\ fetch.pc = "served" => fetch.answer.of = fetch.of
  /\ fetch.pc = "asked" => fetch.answer = NoAnswer

(* The requests an answer lags behind are offers of the page that change     *)
(* what the query reads.                                                     *)
LagMeant ==
  \A s \in fetch.answer.lag \cup cache.answer.lag :
    s \in Requests /\ sent[s].pc \notin {"unsent", "sent"} /\ Changes(sent[s].by, place.query)

Offered(s) == \E o \in WatchedPage.offers : o.by = sent[s].by /\ o.how = sent[s].how

AllOffered == \A s \in Requests : Begun(s) => Offered(s)

(* Whatever an answer on its way is behind by is unheard of, or invalidates  *)
(* nothing of it, unless it knows that it comes late; and so is what the     *)
(* page shows while it waits for nothing.                                    *)
Unreached(lag) == \A s \in lag : Heard(s) => ~Reaches(sent[s].by, place.query)

FetchFresh == InFlight /\ ~fetch.late => Unreached(fetch.answer.lag)

CacheFresh ==
  (mounted /\ ~InFlight /\ ~cache.failed /\ Watched # CurrentUser) =>
    /\ cache.answer.crossed \/ cache.answer.of = who
    /\ cache.answer.late \/ Unreached(cache.answer.lag)

(* What a press was made on: a status in which the API accepts it.           *)
Acceptable(m, a, b) ==
  RowWatched /\ Serving(m).moves # {} =>
    /\ a # "nothing"
    /\ \E v \in Serving(m).moves : v[1] = a /\ (Serving(m).at = "jobs.updateStatus" => v[2] = b)

MadeSound ==
  \A s \in Requests :
    sent[s].pc = "sent" /\ sent[s].how \notin {"form", "blind"} => Acceptable(sent[s].by, sent[s].sees, sent[s].to)

(* A request whose awaited refetch came is shown.                            *)
HeardShown ==
  \A s \in cache.answer.lag :
    (sent[s].pc = "done" /\ sent[s].outcome = "accepted" /\ sent[s].ours /\ ~sent[s].cut
       /\ MutationNamed[sent[s].by].waits /\ Reaches(sent[s].by, place.query)) =>
      cache.failed \/ cache.answer.late

(* A disabled button is not pressed while its last press is unfinished.      *)
PressOrder ==
  \A s, t \in Requests :
    (s < t /\ Begun(t) /\ sent[t].by = sent[s].by /\ sent[s].ours /\ ButtonsSince(s)) => ~Unfinished(s)

-----------------------------------------------------------------------------
(* Shapes *)

LEMMA SomeWords == "none" \in Words /\ "any" \in Words /\ "nothing" \in Words
  BY DEF Words

LEMMA NotSentType == NotSent \in Request /\ NotSent.pc = "unsent"
  BY SomeWords DEF NotSent, Request

LEMMA NoAnswerType == NoAnswer \in Answer /\ NoAnswer.of = 0 /\ NoAnswer.lag = {} /\ ~NoAnswer.late
  BY SomeWords DEF NoAnswer, Answer

LEMMA AskedType ==
  ASSUME who \in 0..2
  PROVE  /\ Asked \in Fetch /\ Asked.pc = "asked" /\ Asked.of = who
         /\ Asked.answer = NoAnswer /\ ~Asked.late
         /\ NothingAsked \in Fetch /\ NothingAsked.pc = "idle"
<1>1. NothingAsked \in Fetch /\ NothingAsked.pc = "idle" /\ NothingAsked.answer = NoAnswer /\ ~NothingAsked.late
  BY NoAnswerType DEF NothingAsked, Fetch
<1> QED
  BY <1>1 DEF Asked, Fetch

LEMMA RefetchType ==
  ASSUME ScreenTypeOK, FetchIfStale
  PROVE  fetch' \in Fetch
  BY AskedType DEF FetchIfStale, ScreenTypeOK

LEMMA SettledType ==
  ASSUME sent \in [Requests -> Request], NEW b \in BOOLEAN
  PROVE  Settled(b) \in [Requests -> Request]
<1>1. ASSUME NEW s \in Requests PROVE [sent[s] EXCEPT !.pc = "done", !.cut = b] \in Request
  BY DEF Request
<1> QED
  BY <1>1 DEF Settled

LEMMA PlaceFixed == ScreenNext => place' = place
  BY DEF ScreenNext, OpenPage, FocusWindow, LeavePage, SignOut, SignIn, GrowOld, ServeQuery, AnswerQuery,
     FailQuery, OpenForm, OthersMove, Unmount, PressButton, AcceptRequest, RefuseRequest, LoseRequest,
     HearSuccess, HearRefusal

-----------------------------------------------------------------------------
(* What a step does to a request *)

LEMMA OfferMeant ==
  ASSUME ScreenTypeOK, NEW o \in WatchedPage.offers
  PROVE  /\ o.by \in DOMAIN MutationNamed /\ o.by \in Words /\ o.by # "none"
         /\ o.how \in {"button", "loose", "form", "blind"} /\ o.moves \subseteq Words \X Words
  BY TablesTyped DEF ScreenTypeOK, WatchedPage, Words

LEMMA PressEffect ==
  ASSUME ScreenTypeOK, NEW s \in Requests, NEW o \in WatchedPage.offers, PressButton(s, o)
  PROVE  /\ sent' \in [Requests -> Request]
         /\ \A t \in Requests \ {s} : sent'[t] = sent[t]
         /\ sent'[s].pc = "sent" /\ sent'[s].by = o.by /\ sent'[s].how = o.how /\ sent'[s].ours
         /\ sent'[s].again = ShowsLag(o.by) /\ sent'[s].outcome = "none"
         /\ sent'[s].sees = cache.answer.sees
         /\ \E m \in Intended(o) : sent'[s].to = m[2]
<1>1. PICK m \in Intended(o) :
        sent' = [sent EXCEPT ![s] =
          [NotSent EXCEPT !.pc = "sent", !.by = o.by, !.how = o.how, !.to = m[2], !.sees = cache.answer.sees,
                          !.again = ShowsLag(o.by), !.ours = TRUE]]
  BY DEF PressButton
<1>2. m[2] \in Words
  BY OfferMeant, SomeWords DEF Intended
<1>3. cache.answer.sees \in Words
  BY DEF ScreenTypeOK, Answer
<1>4. ShowsLag(o.by) \in BOOLEAN
  BY DEF ShowsLag
<1> DEFINE r == [NotSent EXCEPT !.pc = "sent", !.by = o.by, !.how = o.how, !.to = m[2], !.sees = cache.answer.sees,
                          !.again = ShowsLag(o.by), !.ours = TRUE]
<1>5. NotSent \in Request /\ NotSent.outcome = "none"
  BY NotSentType DEF NotSent
<1>6. /\ r \in Request /\ r.pc = "sent" /\ r.by = o.by /\ r.how = o.how /\ r.ours /\ r.again = ShowsLag(o.by)
      /\ r.outcome = "none" /\ r.sees = cache.answer.sees /\ r.to = m[2]
  BY <1>2, <1>3, <1>4, <1>5, OfferMeant DEF Request
<1>7. sent' = [sent EXCEPT ![s] = r]
  BY <1>1
<1> HIDE DEF r
<1> QED
  BY <1>6, <1>7 DEF ScreenTypeOK

LEMMA HandledEffect ==
  ASSUME sent \in [Requests -> Request], NEW s \in Requests, NEW pc \in {"handled", "done"},
         NEW o \in {"accepted", "refused", "lost"}
  PROVE  /\ Handled(s, pc, o) \in Request /\ Handled(s, pc, o).pc = pc /\ Handled(s, pc, o).outcome = o
         /\ Handled(s, pc, o).by = sent[s].by /\ Handled(s, pc, o).how = sent[s].how
         /\ Handled(s, pc, o).again = sent[s].again /\ Handled(s, pc, o).ours = sent[s].ours
         /\ Handled(s, pc, o).cut = sent[s].cut /\ Handled(s, pc, o).stale = sent[s].stale
<1>1. sent[s] \in Request
  OBVIOUS
<1> QED
  BY <1>1, SomeWords DEF Handled, Request

LEMMA OneRequest ==
  ASSUME sent \in [Requests -> Request], NEW s \in Requests, NEW r \in Request, sent' = [sent EXCEPT ![s] = r]
  PROVE  /\ sent' \in [Requests -> Request] /\ sent'[s] = r
         /\ \A t \in Requests \ {s} : sent'[t] = sent[t]
  OBVIOUS

LEMMA SettledEffect ==
  ASSUME sent \in [Requests -> Request], NEW b \in BOOLEAN, NEW s \in Requests
  PROVE  /\ sent[s].pc # "settling" => Settled(b)[s] = sent[s]
         /\ sent[s].pc = "settling" => Settled(b)[s].pc = "done" /\ Settled(b)[s].cut = b
         /\ \A f \in {"by", "how", "again", "ours", "stale", "outcome", "to", "sees"} : Settled(b)[s][f] = sent[s][f]
  BY DEF Settled, Request

Restarts(m) == Drops(m) /\ mounted /\ Cached /\ InFlight

LEMMA HearEffect ==
  ASSUME ScreenTypeOK, NEW s \in Requests, HearSuccess(s)
  PROVE  /\ sent[s].pc = "handled" /\ sent[s].outcome = "accepted"
         /\ fetch' = IF Drops(sent[s].by) THEN Invalidated ELSE fetch
         /\ sent' \in [Requests -> Request]
         /\ \A t \in Requests \ {s} :
              sent'[t] = IF Restarts(sent[s].by) THEN Settled(TRUE)[t] ELSE sent[t]
         /\ sent'[s].pc = IF MutationNamed[sent[s].by].waits /\ Drops(sent[s].by) /\ mounted /\ fetch'.pc # "idle"
                          THEN "settling" ELSE "done"
         /\ \A f \in {"by", "how", "again", "ours", "cut", "stale", "outcome"} : sent'[s][f] = sent[s][f]
<1> DEFINE m == sent[s].by
           next == IF Drops(m) THEN Invalidated ELSE fetch
           rest == IF Drops(m) /\ mounted /\ Cached /\ InFlight THEN Settled(TRUE) ELSE sent
           pc == IF MutationNamed[m].waits /\ Drops(m) /\ mounted /\ next.pc # "idle" THEN "settling" ELSE "done"
<1>1. fetch' = next /\ sent[s].pc = "handled" /\ sent[s].outcome = "accepted"
  BY DEF HearSuccess
<1>2. sent' = [rest EXCEPT ![s].pc = pc]
  BY DEF HearSuccess
<1>3. rest \in [Requests -> Request] /\ rest[s] = sent[s]
  BY <1>1, SettledType, SettledEffect DEF ScreenTypeOK
<1>4. rest = IF Restarts(m) THEN Settled(TRUE) ELSE sent
  BY DEF Restarts
<1>5. pc \in {"settling", "done"}
  OBVIOUS
<1> HIDE DEF rest, pc
<1>6. sent' = [rest EXCEPT ![s] = [rest[s] EXCEPT !.pc = pc]] /\ [rest[s] EXCEPT !.pc = pc] \in Request
  BY <1>2, <1>3, <1>5 DEF Request
<1>7. sent' \in [Requests -> Request] /\ sent'[s] = [sent[s] EXCEPT !.pc = pc] /\ \A t \in Requests \ {s} : sent'[t] = rest[t]
  BY <1>3, <1>6
<1>8. sent'[s].pc = pc /\ \A f \in {"by", "how", "again", "ours", "cut", "stale", "outcome"} : sent'[s][f] = sent[s][f]
  BY <1>3, <1>7 DEF Request
<1> QED
  BY <1>1, <1>4, <1>7, <1>8 DEF pc

(* What every step leaves as it was.                                         *)
Keeps(t) ==
  /\ ~Begun(t) => sent'[t] = sent[t] \/ \E o \in WatchedPage.offers : PressButton(t, o)
  /\ Begun(t) =>
       /\ Begun(t)' /\ sent'[t].by = sent[t].by /\ sent'[t].how = sent[t].how /\ sent'[t].again = sent[t].again
       /\ sent'[t].ours => sent[t].ours
       /\ sent[t].pc = "done" => sent'[t].cut = sent[t].cut
       /\ sent'[t].pc = "sent" => sent[t].pc = "sent" /\ sent'[t].sees = sent[t].sees /\ sent'[t].to = sent[t].to
       /\ Unfinished(t)' => Unfinished(t)
       /\ Heard(t)' => Heard(t) \/ HearSuccess(t)
       /\ sent'[t].pc = "settling" => sent[t].pc = "settling" \/ HearSuccess(t)
       /\ sent'[t].outcome = "refused" =>
            (sent[t].outcome = "refused" /\ sent'[t].stale = sent[t].stale) \/ RefuseRequest(t)

LEMMA SameKeeps == ASSUME NEW t \in Requests, sent'[t] = sent[t] PROVE Keeps(t)
  BY DEF Keeps, Begun, Unfinished, Heard

LEMMA UnmountKeeps ==
  ASSUME ScreenTypeOK, Numbered, Unmount, NEW t \in Requests
  PROVE  Keeps(t) /\ sent' \in [Requests -> Request] /\ ~sent'[t].ours
                  /\ sent'[t].pc = sent[t].pc /\ sent'[t].cut = sent[t].cut
<1>1. sent'[t] = [sent[t] EXCEPT !.ours = FALSE] /\ sent[t] \in Request
  BY DEF Unmount, ScreenTypeOK
<1>2. ASSUME NEW s \in Requests PROVE [sent[s] EXCEPT !.ours = FALSE] \in Request
  <2>1. sent[s] \in Request
    BY DEF ScreenTypeOK
  <2> QED
    BY <2>1 DEF Request
<1>3. sent' \in [Requests -> Request]
  BY <1>2 DEF Unmount
<1>4. ASSUME ~Begun(t) PROVE sent'[t] = sent[t]
  <2>1. sent[t] = NotSent /\ NotSent \in Request /\ NotSent.ours = FALSE
    BY <1>4, NotSentType DEF Numbered, NotSent
  <2> QED
    BY <1>1, <2>1 DEF Request
<1>5. /\ sent'[t].pc = sent[t].pc /\ sent'[t].by = sent[t].by /\ sent'[t].how = sent[t].how
      /\ sent'[t].again = sent[t].again /\ sent'[t].ours = FALSE /\ sent'[t].cut = sent[t].cut
      /\ sent'[t].sees = sent[t].sees /\ sent'[t].to = sent[t].to /\ sent'[t].outcome = sent[t].outcome
      /\ sent'[t].stale = sent[t].stale
  BY <1>1 DEF Request
<1> QED
  BY <1>3, <1>4, <1>5 DEF Keeps, Begun, Unfinished, Heard

LEMMA SettledKeeps ==
  ASSUME ScreenTypeOK, NEW t \in Requests, NEW b \in BOOLEAN, sent'[t] = Settled(b)[t]
  PROVE  Keeps(t)
<1>1. sent[t] \in Request
  BY DEF ScreenTypeOK
<1>2. CASE sent[t].pc # "settling"
  BY <1>2, SettledEffect, SameKeeps DEF ScreenTypeOK
<1>3. CASE sent[t].pc = "settling"
  <2>1. /\ sent'[t].by = sent[t].by /\ sent'[t].how = sent[t].how /\ sent'[t].again = sent[t].again
        /\ sent'[t].ours = sent[t].ours /\ sent'[t].outcome = sent[t].outcome /\ sent'[t].stale = sent[t].stale
        /\ sent'[t].pc = "done"
    BY <1>3, SettledEffect DEF ScreenTypeOK
  <2> QED
    BY <1>3, <2>1 DEF Keeps, Begun, Unfinished, Heard
<1> QED
  BY <1>2, <1>3

LEMMA OneKeeps ==
  ASSUME ScreenTypeOK, NEW s \in Requests, sent[s].pc \in {"sent", "handled"},
         NEW r \in Request, sent' = [sent EXCEPT ![s] = r], NEW t \in Requests,
         r.pc \in {"handled", "done"}, r.by = sent[s].by, r.how = sent[s].how, r.again = sent[s].again,
         r.ours = sent[s].ours, r.outcome = sent[s].outcome \/ r.pc = "handled" \/ r.outcome = "lost",
         r.outcome = "refused" => (sent[s].outcome = "refused" /\ r.stale = sent[s].stale) \/ RefuseRequest(s),
         r.pc = "done" => r.outcome # "accepted"
  PROVE  Keeps(t) /\ sent' \in [Requests -> Request]
<1>1. sent'[s] = r /\ sent' \in [Requests -> Request] /\ \A u \in Requests \ {s} : sent'[u] = sent[u]
  BY OneRequest DEF ScreenTypeOK
<1>2. CASE t # s
  BY <1>1, <1>2, SameKeeps
<1>3. CASE t = s
  BY <1>1, <1>3 DEF Keeps, Begun, Unfinished, Heard
<1> QED
  BY <1>1, <1>2, <1>3

(* The two tables of the browser after a step.                               *)
LEMMA RequestsKept ==
  ASSUME ScreenTypeOK, Numbered, ScreenNext, NEW t \in Requests
  PROVE  Keeps(t) /\ sent' \in [Requests -> Request]
<1>0. sent \in [Requests -> Request]
  BY DEF ScreenTypeOK
<1>1. CASE UNCHANGED sent
  BY <1>0, <1>1, SameKeeps
<1>2. CASE Unmount
  BY <1>2, UnmountKeeps
<1>3. CASE sent' = Settled(FALSE)
  BY <1>0, <1>3, SettledKeeps, SettledType
<1>4. ASSUME NEW s \in Requests, NEW o \in WatchedPage.offers, PressButton(s, o)
      PROVE  Keeps(t) /\ sent' \in [Requests -> Request]
  <2>1. sent' \in [Requests -> Request] /\ \A u \in Requests \ {s} : sent'[u] = sent[u]
    BY <1>4, PressEffect
  <2>2. ~Begun(s)
    BY <1>4, NotSentType DEF PressButton, Begun
  <2>3. CASE t # s
    BY <2>1, <2>3, SameKeeps
  <2>4. CASE t = s
    BY <1>4, <2>1, <2>2, <2>4 DEF Keeps
  <2> QED
    BY <2>1, <2>3, <2>4
<1>5. ASSUME NEW s \in Requests, AcceptRequest(s) PROVE Keeps(t) /\ sent' \in [Requests -> Request]
  <2> DEFINE r == Handled(s, "handled", "accepted")
  <2>1. sent' = [sent EXCEPT ![s] = r] /\ sent[s].pc = "sent"
    BY <1>5 DEF AcceptRequest
  <2>2. r \in Request /\ r.pc = "handled" /\ r.outcome = "accepted" /\ r.by = sent[s].by /\ r.how = sent[s].how
        /\ r.again = sent[s].again /\ r.ours = sent[s].ours
    BY <1>0, HandledEffect
  <2> HIDE DEF r
  <2> QED
    BY <2>1, <2>2, OneKeeps
<1>6. ASSUME NEW s \in Requests, RefuseRequest(s) PROVE Keeps(t) /\ sent' \in [Requests -> Request]
  <2> DEFINE h == Handled(s, "handled", "refused")
             r == [h EXCEPT !.stale = sent[s].sees \notin {row, "nothing"}]
  <2>1. sent' = [sent EXCEPT ![s] = r] /\ sent[s].pc = "sent"
    BY <1>6 DEF RefuseRequest
  <2>2. h \in Request /\ h.pc = "handled" /\ h.by = sent[s].by /\ h.how = sent[s].how /\ h.again = sent[s].again /\ h.ours = sent[s].ours
    BY <1>0, HandledEffect
  <2> HIDE DEF h
  <2>3. r \in Request /\ r.pc = "handled" /\ r.by = sent[s].by /\ r.how = sent[s].how /\ r.again = sent[s].again /\ r.ours = sent[s].ours
    BY <2>2 DEF Request
  <2> HIDE DEF r
  <2> QED
    BY <1>6, <2>1, <2>3, OneKeeps
<1>7. ASSUME NEW s \in Requests, LoseRequest(s) PROVE Keeps(t) /\ sent' \in [Requests -> Request]
  <2> DEFINE r == Handled(s, "done", "lost")
  <2>1. sent' = [sent EXCEPT ![s] = r] /\ sent[s].pc \in {"sent", "handled"}
    BY <1>7 DEF LoseRequest
  <2>2. r \in Request /\ r.pc = "done" /\ r.outcome = "lost" /\ r.by = sent[s].by /\ r.how = sent[s].how
        /\ r.again = sent[s].again /\ r.ours = sent[s].ours
    BY <1>0, HandledEffect
  <2> HIDE DEF r
  <2> QED
    BY <2>1, <2>2, OneKeeps
<1>8. ASSUME NEW s \in Requests, HearRefusal(s) PROVE Keeps(t) /\ sent' \in [Requests -> Request]
  <2> DEFINE r == [sent[s] EXCEPT !.pc = "done"]
  <2>1. sent[s] \in Request /\ sent[s].pc = "handled" /\ sent[s].outcome = "refused"
    BY <1>8 DEF HearRefusal, ScreenTypeOK
  <2>2. sent' = [sent EXCEPT ![s] = r]
    BY <1>0, <1>8 DEF HearRefusal
  <2>3. r \in Request /\ r.pc = "done" /\ r.by = sent[s].by /\ r.how = sent[s].how /\ r.again = sent[s].again
        /\ r.ours = sent[s].ours /\ r.outcome = "refused" /\ r.stale = sent[s].stale
    BY <2>1 DEF Request
  <2> HIDE DEF r
  <2> QED
    BY <2>1, <2>2, <2>3, OneKeeps
<1>9. ASSUME NEW s \in Requests, HearSuccess(s) PROVE Keeps(t) /\ sent' \in [Requests -> Request]
  <2>1. sent' \in [Requests -> Request]
    BY <1>9, HearEffect
  <2>2. CASE t # s
    <3>1. sent'[t] = sent[t] \/ sent'[t] = Settled(TRUE)[t]
      BY <1>9, <2>2, HearEffect
    <3> QED
      BY <2>1, <3>1, SameKeeps, SettledKeeps
  <2>3. CASE t = s
    <3>1. sent[s].pc = "handled" /\ sent[s].outcome = "accepted" /\ sent'[s].pc \in {"settling", "done"}
          /\ sent'[s].by = sent[s].by /\ sent'[s].how = sent[s].how /\ sent'[s].again = sent[s].again
          /\ sent'[s].ours = sent[s].ours /\ sent'[s].outcome = sent[s].outcome
      BY <1>9, HearEffect
    <3> QED
      BY <1>9, <2>1, <2>3, <3>1 DEF Keeps, Begun, Unfinished, Heard
  <2> QED
    BY <2>1, <2>2, <2>3
<1> QED
  BY <1>1, <1>2, <1>3, <1>4, <1>5, <1>6, <1>7, <1>8, <1>9
     DEF ScreenNext, OpenPage, FocusWindow, LeavePage, SignOut, SignIn, GrowOld, ServeQuery, AnswerQuery,
         FailQuery, OpenForm, OthersMove

-----------------------------------------------------------------------------
(* Types, numbers and offers *)

LEMMA TypeStep ==
  ASSUME ScreenTypeOK, Numbered, AllOffered, ScreenNext
  PROVE  ScreenTypeOK'
<1>1. place' = place /\ WatchedPage' = WatchedPage
  BY PlaceFixed DEF WatchedPage
<1>2. ASSUME NEW t \in Requests PROVE sent' \in [Requests -> Request]
  BY <1>2, RequestsKept
<1>3. sent' \in [Requests -> Request]
  <2>1. CASE Requests = {}
    <3>1. sent' = sent \/ sent' = Settled(FALSE) \/ Unmount
      BY <2>1 DEF ScreenNext, OpenPage, FocusWindow, LeavePage, SignOut, SignIn, GrowOld, ServeQuery, AnswerQuery,
         FailQuery, OpenForm, OthersMove
    <3> QED
      BY <2>1, <3>1, SettledType DEF Unmount, ScreenTypeOK
  <2> QED
    BY <1>2, <2>1
<1>4. ASSUME NEW a \in Answer, NEW s \in Requests PROVE Lagging(a, s) \in Answer
  BY <1>4 DEF Lagging, Answer
<1>5. /\ mounted' \in BOOLEAN /\ form' \in BOOLEAN /\ who' \in 0..2 /\ moved' \in 0..MaxMoves
  <2>1. mounted' \in {mounted, TRUE, FALSE} /\ form' \in {form, TRUE, FALSE} /\ who' \in {who, 0, 2}
    BY DEF ScreenNext, OpenPage, FocusWindow, LeavePage, SignOut, SignIn, GrowOld, ServeQuery, AnswerQuery, FailQuery,
       OpenForm, OthersMove, Unmount, PressButton, AcceptRequest, RefuseRequest, LoseRequest, HearSuccess, HearRefusal
  <2>2. moved' = moved \/ (moved < MaxMoves /\ moved' = moved + 1)
    BY DEF ScreenNext, OpenPage, FocusWindow, LeavePage, SignOut, SignIn, GrowOld, ServeQuery, AnswerQuery, FailQuery,
       OpenForm, OthersMove, Unmount, PressButton, AcceptRequest, RefuseRequest, LoseRequest, HearSuccess, HearRefusal
  <2>3. mounted \in BOOLEAN /\ form \in BOOLEAN /\ who \in 0..2 /\ moved \in 0..MaxMoves
    BY DEF ScreenTypeOK
  <2>4. mounted' \in BOOLEAN /\ form' \in BOOLEAN
    BY <2>1, <2>3
  <2>5. who' \in 0..2
    BY <2>1, <2>3
  <2>6. moved' \in 0..MaxMoves
    BY <2>2, <2>3, ScreensAssumption
  <2> QED
    BY <2>4, <2>5, <2>6
<1>6. row' \in Words
  <2>1. ASSUME OthersMove PROVE row' \in Words
    <3>1. WatchedPage.statuses \subseteq Words
      BY TablesTyped DEF ScreenTypeOK, WatchedPage, Words
    <3> QED
      BY <2>1, <3>1 DEF OthersMove
  <2>2. ASSUME NEW s \in Requests, AcceptRequest(s) PROVE row' \in Words
    <3>1. PICK o \in WatchedPage.offers : o.by = sent[s].by
      BY <2>2 DEF AcceptRequest, AllOffered, Offered, Begun
    <3>2. Serving(sent[s].by).moves \subseteq Words \X Words
      BY <3>1, OfferMeant, TablesTyped DEF Words
    <3>3. \A m \in Accepting(s) : m[2] \in Words
      BY <3>2 DEF Accepting, ScreenTypeOK
    <3> QED
      BY <2>2, <3>3 DEF AcceptRequest
  <2>3. row' = row \/ OthersMove \/ \E s \in Requests : AcceptRequest(s)
    BY DEF ScreenNext, OpenPage, FocusWindow, LeavePage, SignOut, SignIn, GrowOld, ServeQuery, AnswerQuery,
       FailQuery, OpenForm, Unmount, PressButton, RefuseRequest, LoseRequest, HearSuccess, HearRefusal
  <2> QED
    BY <2>1, <2>2, <2>3 DEF ScreenTypeOK
<1>7. /\ cache' \in [answer: Answer, failed: BOOLEAN, aged: BOOLEAN]
      /\ fetch' \in Fetch
  <2>1. CASE OpenPage \/ FocusWindow
    BY <2>1, RefetchType DEF OpenPage, FocusWindow, ScreenTypeOK
  <2>2. CASE UNCHANGED <<cache, fetch>>
    BY <2>2 DEF ScreenTypeOK
  <2>3. CASE SignOut
    BY <2>3 DEF SignOut, Unmount, ScreenTypeOK, Fetch
  <2>4. CASE GrowOld
    BY <2>4 DEF GrowOld, ScreenTypeOK
  <2>5. CASE ServeQuery
    <3>1. [NoAnswer EXCEPT !.of = fetch.of, !.sees = row] \in Answer
      BY NoAnswerType DEF ScreenTypeOK, Answer, Fetch
    <3>2. fetch' = [[fetch EXCEPT !.pc = "served"] EXCEPT !.answer = [NoAnswer EXCEPT !.of = fetch.of, !.sees = row]]
      BY <2>5 DEF ServeQuery
    <3> QED
      BY <2>5, <3>1, <3>2 DEF ServeQuery, ScreenTypeOK, Fetch
  <2>6. CASE AnswerQuery
    <3>1. [fetch.answer EXCEPT !.late = fetch.late, !.crossed = fetch.crossed] \in Answer
      BY DEF ScreenTypeOK, Answer, Fetch
    <3> QED
      BY <2>6, <3>1, AskedType DEF AnswerQuery, ScreenTypeOK
  <2>7. CASE FailQuery
    BY <2>7, AskedType DEF FailQuery, ScreenTypeOK
  <2>8. ASSUME NEW s \in Requests, AcceptRequest(s)
        PROVE  /\ cache' \in [answer: Answer, failed: BOOLEAN, aged: BOOLEAN]
               /\ fetch' \in Fetch
    <3>1. Lagging(cache.answer, s) \in Answer /\ Lagging(fetch.answer, s) \in Answer
      BY <1>4 DEF ScreenTypeOK, Fetch
    <3>2. /\ cache' = [cache EXCEPT !.answer = Lagging(cache.answer, s)]
          /\ fetch' = [fetch EXCEPT !.answer = Lagging(fetch.answer, s)]
      BY <2>8 DEF AcceptRequest
    <3> QED
      BY <3>1, <3>2 DEF ScreenTypeOK, Fetch
  <2>9. ASSUME NEW s \in Requests, HearSuccess(s)
        PROVE  /\ cache' \in [answer: Answer, failed: BOOLEAN, aged: BOOLEAN]
               /\ fetch' \in Fetch
    <3>1. cache' = cache /\ fetch' \in {Invalidated, fetch}
      BY <2>9, HearEffect DEF HearSuccess
    <3>2. Invalidated \in Fetch
      BY AskedType DEF Invalidated, ScreenTypeOK, Fetch
    <3> QED
      BY <3>1, <3>2 DEF ScreenTypeOK
  <2> QED
    BY <2>1, <2>2, <2>3, <2>4, <2>5, <2>6, <2>7, <2>8, <2>9
       DEF ScreenNext, LeavePage, Unmount, SignIn, OpenForm, OthersMove, PressButton, RefuseRequest, LoseRequest, HearRefusal
<1> QED
  BY <1>1, <1>3, <1>5, <1>6, <1>7 DEF ScreenTypeOK

LEMMA NumberedStep ==
  ASSUME ScreenTypeOK, Numbered, ScreenNext
  PROVE  Numbered'
<1>1. ASSUME NEW s \in Requests, ~Begun(s)' PROVE sent'[s] = NotSent
  <2>1. ~Begun(s) /\ ~ \E o \in WatchedPage.offers : PressButton(s, o)
    BY <1>1, RequestsKept, PressEffect DEF Keeps, Begun
  <2> QED
    BY <2>1, RequestsKept DEF Keeps, Numbered
<1>2. ASSUME NEW s \in Requests, NEW t \in Requests, s < t, Begun(t)' PROVE Begun(s)'
  <2>1. CASE Begun(t)
    BY <1>2, <2>1, RequestsKept DEF Numbered, Keeps
  <2>2. CASE ~Begun(t)
    <3>1. PICK o \in WatchedPage.offers : PressButton(t, o)
      BY <1>2, <2>2, RequestsKept DEF Keeps, Begun
    <3>2. sent[s] # NotSent
      BY <1>2, <3>1 DEF PressButton
    <3>3. Begun(s)
      BY <3>2 DEF Numbered
    <3> QED
      BY <3>3, RequestsKept DEF Keeps
  <2> QED
    BY <2>1, <2>2
<1> QED
  BY <1>1, <1>2 DEF Numbered

LEMMA OfferedStep ==
  ASSUME ScreenTypeOK, Numbered, AllOffered, ScreenNext
  PROVE  AllOffered'
<1>1. WatchedPage' = WatchedPage
  BY PlaceFixed DEF WatchedPage
<1>2. ASSUME NEW s \in Requests, Begun(s)'
      PROVE  \E o \in WatchedPage.offers : o.by = sent'[s].by /\ o.how = sent'[s].how
  <2>1. CASE Begun(s)
    BY <2>1, RequestsKept DEF Keeps, AllOffered, Offered
  <2>2. CASE ~Begun(s)
    <3>1. PICK o \in WatchedPage.offers : PressButton(s, o)
      BY <1>2, <2>2, RequestsKept DEF Keeps, Begun
    <3> QED
      BY <3>1, PressEffect
  <2> QED
    BY <2>1, <2>2
<1> QED
  BY <1>1, <1>2 DEF AllOffered, Offered, Begun

-----------------------------------------------------------------------------
(* The page and the fetch *)

LEMMA FlightKept ==
  ASSUME ScreenTypeOK, ScreenNext, InFlight
  PROVE  InFlight' \/ AnswerQuery \/ FailQuery
<1>1. ASSUME NEW s \in Requests, HearSuccess(s) PROVE InFlight'
  BY <1>1, HearEffect, AskedType DEF Invalidated, InFlight, ScreenTypeOK, Fetch
<1>2. ASSUME NEW s \in Requests, AcceptRequest(s) PROVE InFlight'
  BY <1>2 DEF AcceptRequest, InFlight, ScreenTypeOK, Fetch
<1>3. ASSUME SignOut \/ ServeQuery PROVE InFlight'
  BY <1>3 DEF SignOut, ServeQuery, InFlight, ScreenTypeOK, Fetch
<1>4. ASSUME FetchIfStale \/ UNCHANGED fetch PROVE InFlight'
  BY <1>4 DEF FetchIfStale, InFlight
<1> QED
  BY <1>1, <1>2, <1>3, <1>4
     DEF ScreenNext, OpenPage, FocusWindow, LeavePage, SignIn, GrowOld, OpenForm, OthersMove, PressButton,
         RefuseRequest, LoseRequest, HearRefusal

LEMMA Mounting ==
  ASSUME ScreenNext
  PROVE  \/ mounted' = mounted /\ who' = who
         \/ OpenPage
         \/ Unmount /\ mounted /\ (who' = who \/ SignOut)
         \/ SignIn
  BY DEF ScreenNext, OpenPage, FocusWindow, LeavePage, SignOut, SignIn, GrowOld, ServeQuery, AnswerQuery, FailQuery,
       OpenForm, OthersMove, PressButton, AcceptRequest, RefuseRequest, LoseRequest, HearSuccess, HearRefusal

LEMMA OnScreenStep ==
  ASSUME ScreenTypeOK, Numbered, OnScreen, ScreenNext
  PROVE  OnScreen'
<1>1. mounted' => who' # 0
  BY Mounting DEF OnScreen, OpenPage, Unmount, SignIn
<1>2. ASSUME NEW t \in Requests, sent'[t].ours PROVE mounted'
  <2>1. sent[t].ours \/ mounted
    <3>1. CASE Begun(t)
      BY <1>2, <3>1, RequestsKept DEF Keeps
    <3>2. CASE ~Begun(t)
      BY <1>2, <3>2, RequestsKept DEF Keeps, PressButton
    <3> QED
      BY <3>1, <3>2
  <2>2. mounted
    BY <2>1 DEF OnScreen
  <2>3. CASE Unmount
    BY <1>2, <2>3, UnmountKeeps
  <2> QED
    BY <2>2, <2>3, Mounting DEF OpenPage, SignIn
<1>3. ASSUME NEW t \in Requests, sent'[t].pc = "settling" PROVE InFlight'
  <2>1. ~AnswerQuery /\ ~FailQuery
    <3>1. ASSUME sent' = Settled(FALSE) PROVE FALSE
      <4>1. sent \in [Requests -> Request] /\ FALSE \in BOOLEAN
        BY DEF ScreenTypeOK
      <4>2. Settled(FALSE)[t].pc # "settling"
        BY <4>1, SettledEffect
      <4> QED
        BY <1>3, <3>1, <4>2
    <3> QED
      BY <3>1 DEF AnswerQuery, FailQuery
  <2>2. sent[t].pc = "settling" \/ HearSuccess(t)
    <3>1. CASE Begun(t)
      BY <1>3, <3>1, RequestsKept DEF Keeps
    <3>2. CASE ~Begun(t)
      BY <1>3, <3>2, RequestsKept, PressEffect DEF Keeps, Begun
    <3> QED
      BY <3>1, <3>2
  <2>3. CASE HearSuccess(t)
    BY <1>3, <2>3, HearEffect DEF InFlight
  <2> QED
    BY <2>1, <2>2, <2>3, FlightKept DEF OnScreen
<1> QED
  BY <1>1, <1>2, <1>3 DEF OnScreen

LEMMA FetchOwnedStep ==
  ASSUME ScreenTypeOK, OnScreen, FetchOwned, ScreenNext
  PROVE  FetchOwned'
<1>0. fetch \in Fetch /\ who \in 0..2 /\ fetch.answer \in Answer
  BY DEF ScreenTypeOK, Fetch
<1>1. CASE (OpenPage \/ FocusWindow)
  BY <1>0, <1>1, AskedType DEF OpenPage, FocusWindow, FetchIfStale, FetchOwned, InFlight, OnScreen
<1>2. CASE SignOut
  BY <1>0, <1>2 DEF SignOut, FetchOwned, InFlight, Fetch
<1>3. CASE SignIn
  BY <1>0, <1>3 DEF SignIn, FetchOwned, InFlight
<1>4. CASE ServeQuery
  <2>1. [NoAnswer EXCEPT !.of = fetch.of, !.sees = row].of = fetch.of
    BY NoAnswerType DEF Answer
  <2>2. fetch' = [[fetch EXCEPT !.pc = "served"] EXCEPT !.answer = [NoAnswer EXCEPT !.of = fetch.of, !.sees = row]]
    BY <1>4 DEF ServeQuery
  <2>3. fetch'.pc = "served" /\ fetch'.of = fetch.of /\ fetch'.crossed = fetch.crossed /\ fetch'.answer.of = fetch.of
    BY <1>0, <2>1, <2>2 DEF Fetch
  <2> QED
    BY <1>4, <2>3 DEF ServeQuery, FetchOwned, InFlight
<1>5. CASE AnswerQuery \/ FailQuery
  BY <1>0, <1>5, AskedType DEF AnswerQuery, FailQuery, FetchOwned, InFlight
<1>6. ASSUME NEW s \in Requests, AcceptRequest(s) PROVE FetchOwned'
  <2>1. /\ Lagging(fetch.answer, s).of = fetch.answer.of
        /\ fetch.answer = NoAnswer => Lagging(fetch.answer, s) = NoAnswer
    BY <1>0, NoAnswerType DEF Lagging, Answer
  <2>2. fetch' = [fetch EXCEPT !.answer = Lagging(fetch.answer, s)] /\ who' = who
    BY <1>6 DEF AcceptRequest
  <2> QED
    BY <1>0, <2>1, <2>2 DEF FetchOwned, InFlight, Fetch
<1>7. ASSUME NEW s \in Requests, HearSuccess(s) PROVE FetchOwned'
  <2>1. who' = who /\ fetch' \in {Invalidated, fetch}
    BY <1>7, HearEffect DEF HearSuccess
  <2>2. CASE fetch' = Asked /\ mounted
    BY <1>0, <2>1, <2>2, AskedType DEF FetchOwned, InFlight, OnScreen
  <2>3. CASE fetch' = [fetch EXCEPT !.late = TRUE]
    BY <1>0, <2>1, <2>3 DEF FetchOwned, InFlight, Fetch
  <2>4. CASE fetch' = fetch
    BY <2>1, <2>4 DEF FetchOwned, InFlight
  <2> QED
    BY <2>1, <2>2, <2>3, <2>4 DEF Invalidated
<1>8. CASE UNCHANGED <<who, fetch>>
  BY <1>8 DEF FetchOwned, InFlight
<1> QED
  BY <1>1, <1>2, <1>3, <1>4, <1>5, <1>6, <1>7, <1>8
     DEF ScreenNext, LeavePage, Unmount, GrowOld, OpenForm, OthersMove, PressButton, RefuseRequest, LoseRequest, HearRefusal

-----------------------------------------------------------------------------
(* What an answer is behind by *)

LEMMA LaggingMeant ==
  ASSUME NEW a \in Answer, NEW s \in Requests
  PROVE  /\ \A x \in Lagging(a, s).lag : x \in a.lag \/ (x = s /\ Changes(sent[s].by, place.query))
         /\ Lagging(a, s).of = a.of /\ Lagging(a, s).late = a.late /\ Lagging(a, s).crossed = a.crossed
  BY DEF Lagging, Answer

(* Only a request that is accepted puts an answer behind.                    *)
Overtakes(x) == x \in Requests /\ AcceptRequest(x) /\ Changes(sent[x].by, place.query)

LEMMA FetchMoves ==
  ASSUME ScreenTypeOK, ScreenNext, NEW x \in fetch'.answer.lag
  PROVE  /\ x \in fetch.answer.lag \/ Overtakes(x)
         /\ InFlight' /\ ~fetch'.late =>
              InFlight /\ ~fetch.late /\ \A s \in Requests : HearSuccess(s) => ~Drops(sent[s].by)
<1> DEFINE Goal == /\ x \in fetch.answer.lag \/ Overtakes(x)
                   /\ InFlight' /\ ~fetch'.late =>
                        InFlight /\ ~fetch.late /\ \A s \in Requests : HearSuccess(s) => ~Drops(sent[s].by)
<1>0. fetch \in Fetch /\ fetch.answer \in Answer /\ who \in 0..2
  BY DEF ScreenTypeOK, Fetch
<1>1. fetch' # Asked /\ fetch' # NothingAsked
  BY <1>0, AskedType, NoAnswerType DEF NothingAsked
<1>2. ~ServeQuery
  <2>1. [NoAnswer EXCEPT !.of = fetch.of, !.sees = row].lag = {}
    BY NoAnswerType DEF Answer
  <2> QED
    BY <1>0, <2>1 DEF ServeQuery, Fetch
<1>3. ~AnswerQuery /\ ~FailQuery
  BY <1>1 DEF AnswerQuery, FailQuery
<1>4. ASSUME NEW s \in Requests, HearSuccess(s) PROVE Goal
  <2>1. sent[s].pc = "handled" /\ fetch' = IF Drops(sent[s].by) THEN Invalidated ELSE fetch
    BY <1>4, HearEffect
  <2>2. ASSUME Drops(sent[s].by) PROVE fetch'.answer = fetch.answer /\ (InFlight' => fetch'.late)
    BY <1>0, <1>1, <2>1, <2>2 DEF Invalidated, Fetch, InFlight
  <2>3. ASSUME NEW t \in Requests, HearSuccess(t) PROVE t = s
    <3>1. sent'[t].pc # "handled" /\ sent[t].pc = "handled"
      BY <2>3, HearEffect
    <3>2. sent \in [Requests -> Request] /\ TRUE \in BOOLEAN
      BY DEF ScreenTypeOK
    <3>3. Settled(TRUE)[t] = sent[t]
      BY <3>1, <3>2, SettledEffect
    <3>4. t # s => sent'[t] = sent[t]
      BY <1>4, <3>3, HearEffect
    <3> QED
      BY <3>1, <3>4
  <2> QED
    BY <2>1, <2>2, <2>3 DEF InFlight
<1>5. ASSUME \A s \in Requests : ~HearSuccess(s) PROVE Goal
  <2>1. ASSUME NEW s \in Requests, AcceptRequest(s) PROVE Goal
    <3>1. fetch' = [fetch EXCEPT !.answer = Lagging(fetch.answer, s)]
      BY <2>1 DEF AcceptRequest
    <3>2. fetch'.answer = Lagging(fetch.answer, s) /\ fetch'.pc = fetch.pc /\ fetch'.late = fetch.late
      BY <1>0, <3>1 DEF Fetch
    <3> QED
      BY <1>0, <1>5, <2>1, <3>2, LaggingMeant DEF Overtakes, InFlight
  <2>2. CASE SignOut
    BY <1>0, <1>5, <2>2 DEF SignOut, InFlight, Fetch
  <2>3. CASE fetch' = fetch
    BY <1>5, <2>3 DEF InFlight
  <2> QED
    BY <1>1, <1>2, <1>3, <1>5, <2>1, <2>2, <2>3
       DEF ScreenNext, OpenPage, FocusWindow, FetchIfStale, LeavePage, SignIn, GrowOld, OpenForm, OthersMove,
           PressButton, RefuseRequest, LoseRequest, HearRefusal
<1> QED
  BY <1>4, <1>5

LEMMA CacheMoves ==
  ASSUME ScreenTypeOK, ScreenNext, ~AnswerQuery
  PROVE  /\ cache'.answer.of = cache.answer.of /\ cache'.answer.late = cache.answer.late
         /\ cache'.answer.crossed = cache.answer.crossed
         /\ cache.failed => cache'.failed
         /\ \A x \in cache'.answer.lag : x \in cache.answer.lag \/ Overtakes(x)
<1>0. cache \in [answer: Answer, failed: BOOLEAN, aged: BOOLEAN] /\ cache.answer \in Answer
  BY DEF ScreenTypeOK
<1>1. ASSUME NEW s \in Requests, AcceptRequest(s)
      PROVE  /\ cache'.answer = Lagging(cache.answer, s) /\ cache'.failed = cache.failed
             /\ \A x \in cache'.answer.lag : x \in cache.answer.lag \/ Overtakes(x)
  <2>1. cache' = [cache EXCEPT !.answer = Lagging(cache.answer, s)]
    BY <1>1 DEF AcceptRequest
  <2>2. cache'.answer = Lagging(cache.answer, s) /\ cache'.failed = cache.failed
    BY <1>0, <2>1
  <2> QED
    BY <1>0, <1>1, <2>2, LaggingMeant DEF Overtakes
<1>2. CASE \E s \in Requests : AcceptRequest(s)
  BY <1>0, <1>1, <1>2, LaggingMeant
<1>3. CASE FailQuery \/ GrowOld
  BY <1>0, <1>3 DEF FailQuery, GrowOld
<1>4. CASE cache' = cache
  BY <1>4
<1> QED
  BY <1>2, <1>3, <1>4
     DEF ScreenNext, OpenPage, FocusWindow, LeavePage, SignOut, Unmount, SignIn, ServeQuery, OpenForm, OthersMove,
         PressButton, RefuseRequest, LoseRequest, HearSuccess, HearRefusal

LEMMA LagStep ==
  ASSUME ScreenTypeOK, Numbered, LagMeant, ScreenNext
  PROVE  LagMeant'
<1>1. ASSUME NEW x \in fetch'.answer.lag \cup cache'.answer.lag
      PROVE  x \in fetch.answer.lag \cup cache.answer.lag \/ Overtakes(x)
  <2>1. CASE AnswerQuery /\ x \in cache'.answer.lag
    <3>1. cache'.answer = [fetch.answer EXCEPT !.late = fetch.late, !.crossed = fetch.crossed]
      BY <2>1 DEF AnswerQuery
    <3>2. cache'.answer.lag = fetch.answer.lag
      BY <3>1 DEF ScreenTypeOK, Fetch, Answer
    <3> QED
      BY <2>1, <3>2
  <2> QED
    BY <1>1, <2>1, FetchMoves, CacheMoves
<1>2. ASSUME NEW x \in fetch'.answer.lag \cup cache'.answer.lag
      PROVE  x \in Requests /\ sent'[x].pc \notin {"unsent", "sent"} /\ Changes(sent'[x].by, place'.query)
  <2>1. CASE x \in fetch.answer.lag \cup cache.answer.lag
    <3>1. x \in Requests /\ sent[x].pc \notin {"unsent", "sent"} /\ Changes(sent[x].by, place.query)
      BY <2>1 DEF LagMeant
    <3>2. Keeps(x) /\ place' = place
      BY <3>1, RequestsKept, PlaceFixed
    <3> QED
      BY <3>1, <3>2 DEF Keeps, Begun
  <2>2. CASE Overtakes(x)
    <3> DEFINE r == Handled(x, "handled", "accepted")
    <3>1. x \in Requests /\ Changes(sent[x].by, place.query) /\ sent' = [sent EXCEPT ![x] = r] /\ place' = place
      BY <2>2, PlaceFixed DEF Overtakes, AcceptRequest
    <3>2. sent'[x] = r /\ r.pc = "handled" /\ r.by = sent[x].by
      BY <3>1, HandledEffect DEF ScreenTypeOK
    <3> HIDE DEF r
    <3> QED
      BY <3>1, <3>2
  <2> QED
    BY <1>1, <1>2, <2>1, <2>2
<1> QED
  BY <1>2 DEF LagMeant

LEMMA OvertakingUnheard ==
  ASSUME ScreenTypeOK, NEW x, Overtakes(x)
  PROVE  ~Heard(x)'
<1>1. sent' = [sent EXCEPT ![x] = Handled(x, "handled", "accepted")] /\ x \in Requests
  BY DEF Overtakes, AcceptRequest
<1>2. sent'[x].pc = "handled"
  BY <1>1, HandledEffect DEF ScreenTypeOK
<1> QED
  BY <1>2 DEF Heard

LEMMA FetchFreshStep ==
  ASSUME ScreenTypeOK, Numbered, LagMeant, FetchFresh, ScreenNext
  PROVE  FetchFresh'
<1> SUFFICES ASSUME InFlight', ~fetch'.late, NEW x \in fetch'.answer.lag, Heard(x)'
             PROVE  ~Reaches(sent'[x].by, place'.query)
  BY DEF FetchFresh, Unreached
<1>1. place' = place
  BY PlaceFixed
<1>2. ~Overtakes(x)
  BY OvertakingUnheard
<1>3. /\ x \in fetch.answer.lag /\ InFlight /\ ~fetch.late
      /\ \A s \in Requests : HearSuccess(s) => ~Drops(sent[s].by)
  BY <1>2, FetchMoves
<1>4. x \in Requests /\ Begun(x)
  BY <1>3 DEF LagMeant, Begun
<1>5. sent'[x].by = sent[x].by /\ (Heard(x) \/ HearSuccess(x))
  BY <1>4, RequestsKept DEF Keeps
<1> QED
  BY <1>1, <1>3, <1>4, <1>5 DEF FetchFresh, Unreached, Drops

LEMMA CacheFreshStep ==
  ASSUME ScreenTypeOK, Numbered, OnScreen, FetchOwned, LagMeant, FetchFresh, CacheFresh, ScreenNext
  PROVE  CacheFresh'
<1> DEFINE Owned == cache'.answer.crossed \/ cache'.answer.of = who'
           Behind == cache'.answer.late \/ \A x \in cache'.answer.lag : Heard(x)' => ~Reaches(sent'[x].by, place.query)
<1> SUFFICES ASSUME mounted', ~InFlight', ~cache'.failed, Watched # CurrentUser
             PROVE  Owned /\ Behind
  <2>1. place' = place /\ Watched' = Watched
    BY PlaceFixed DEF Watched
  <2>2. CurrentUser' = CurrentUser
    BY DEF CurrentUser, Query
  <2> QED
    BY <2>1, <2>2 DEF CacheFresh, Unreached
<1>1. CASE AnswerQuery
  <2>1. /\ cache'.answer = [fetch.answer EXCEPT !.late = fetch.late, !.crossed = fetch.crossed] /\ fetch.pc = "served" /\ who' = who
        /\ sent' = Settled(FALSE)
    BY <1>1 DEF AnswerQuery
  <2>2. /\ cache'.answer.late = fetch.late /\ cache'.answer.crossed = fetch.crossed
        /\ cache'.answer.of = fetch.answer.of /\ cache'.answer.lag = fetch.answer.lag
    BY <2>1 DEF ScreenTypeOK, Fetch, Answer
  <2>3. InFlight /\ (fetch.crossed \/ fetch.of = who) /\ fetch.answer.of = fetch.of
    BY <2>1, <2>2 DEF FetchOwned, InFlight
  <2>4. ASSUME ~fetch.late, NEW x \in fetch.answer.lag, Heard(x)' PROVE ~Reaches(sent'[x].by, place.query)
    <3>1. x \in Requests /\ sent \in [Requests -> Request] /\ FALSE \in BOOLEAN
      BY DEF LagMeant, ScreenTypeOK
    <3>2. sent'[x].by = sent[x].by /\ sent'[x].outcome = sent[x].outcome
          /\ (sent'[x] = sent[x] \/ sent[x].pc = "settling")
      BY <2>1, <3>1, SettledEffect
    <3>3. Heard(x)
      BY <2>4, <3>2 DEF Heard
    <3> QED
      BY <2>3, <2>4, <3>2, <3>3 DEF FetchFresh, Unreached
  <2> QED
    BY <2>1, <2>2, <2>3, <2>4
<1>2. CASE FailQuery
  BY <1>2 DEF FailQuery, ScreenTypeOK
<1>3. ASSUME ~AnswerQuery, ~FailQuery PROVE Owned /\ Behind
  <2>1. ~InFlight
    BY <1>3, FlightKept
  <2>2. ~OpenPage
    BY <2>1, AskedType DEF OpenPage, FetchIfStale, Stale, InFlight, ScreenTypeOK
  <2>3. mounted /\ who' = who
    BY <2>2, Mounting DEF OnScreen, SignIn, Unmount
  <2>4. /\ cache'.answer.of = cache.answer.of /\ cache'.answer.crossed = cache.answer.crossed
        /\ cache'.answer.late = cache.answer.late /\ ~cache.failed
        /\ \A x \in cache'.answer.lag : x \in cache.answer.lag \/ Overtakes(x)
    BY <1>3, CacheMoves DEF ScreenTypeOK
  <2>5. (cache.answer.crossed \/ cache.answer.of = who) /\ (cache.answer.late \/ Unreached(cache.answer.lag))
    BY <2>1, <2>3, <2>4 DEF CacheFresh
  <2>6. ASSUME ~cache.answer.late, NEW x \in cache'.answer.lag, Heard(x)' PROVE ~Reaches(sent'[x].by, place.query)
    <3>1. ~Overtakes(x)
      BY <2>6, OvertakingUnheard
    <3>2. x \in cache.answer.lag /\ x \in Requests /\ Begun(x)
      BY <2>4, <2>6, <3>1 DEF LagMeant, Begun
    <3>3. sent'[x].by = sent[x].by /\ (Heard(x) \/ HearSuccess(x))
      BY <2>6, <3>2, RequestsKept DEF Keeps
    <3>4. ASSUME HearSuccess(x) PROVE ~Drops(sent[x].by)
      <4>1. Drops(sent[x].by) => fetch' = Asked
        BY <2>1, <2>3, <3>2, <3>4, HearEffect DEF Invalidated
      <4> QED
        BY <4>1, AskedType DEF InFlight, ScreenTypeOK
    <3> QED
      BY <2>5, <2>6, <3>2, <3>3, <3>4 DEF Unreached, Drops
  <2> QED
    BY <2>3, <2>4, <2>5, <2>6
<1> QED
  BY <1>1, <1>2, <1>3

-----------------------------------------------------------------------------
(* Presses *)

LEMMA MadeSoundStep ==
  ASSUME ScreenTypeOK, Numbered, MadeSound, ScreenNext
  PROVE  MadeSound'
<1> SUFFICES ASSUME NEW s \in Requests, sent'[s].pc = "sent", sent'[s].how \notin {"form", "blind"},
                    RowWatched, Serving(sent'[s].by).moves # {}
             PROVE  /\ sent'[s].sees # "nothing"
                    /\ \E v \in Serving(sent'[s].by).moves :
                         /\ v[1] = sent'[s].sees
                         /\ Serving(sent'[s].by).at = "jobs.updateStatus" => v[2] = sent'[s].to
  BY PlaceFixed DEF MadeSound, Acceptable, RowWatched, WatchedPage, Serving
<1>1. CASE Begun(s)
  <2>1. /\ sent[s].pc = "sent" /\ sent'[s].by = sent[s].by /\ sent'[s].how = sent[s].how
        /\ sent'[s].sees = sent[s].sees /\ sent'[s].to = sent[s].to
    BY <1>1, RequestsKept DEF Keeps
  <2> QED
    BY <2>1 DEF MadeSound, Acceptable
<1>2. CASE ~Begun(s)
  <2>1. PICK o \in WatchedPage.offers : PressButton(s, o)
    BY <1>2, RequestsKept DEF Keeps, Begun
  <2>2. PICK m \in Intended(o) : sent'[s].to = m[2]
    BY <2>1, PressEffect
  <2>3. sent'[s].by = o.by /\ sent'[s].how = o.how /\ sent'[s].sees = cache.answer.sees
    BY <2>1, PressEffect
  <2>4. /\ o.moves # {}
        /\ \A v \in o.moves : \E a \in Serving(o.by).moves :
             a[1] = v[1] /\ (Serving(o.by).at = "jobs.updateStatus" => a[2] = v[2])
    BY <2>3, OffersAccepted DEF RowWatched, WatchedPage, ScreenTypeOK
  <2>5. m \in o.moves /\ m[1] = cache.answer.sees
    BY <2>3, <2>4 DEF Intended
  <2>6. \A v \in Serving(o.by).moves : v[1] # "nothing"
    BY OfferMeant, TablesTyped
  <2> QED
    BY <2>2, <2>3, <2>4, <2>5, <2>6
<1> QED
  BY <1>1, <1>2

LEMMA RefusedStep ==
  ASSUME ScreenTypeOK, Numbered, MadeSound, RefusedOnlyStale, ScreenNext
  PROVE  RefusedOnlyStale'
<1> SUFFICES ASSUME NEW s \in Requests, sent'[s].outcome = "refused", sent'[s].how \notin {"form", "blind"}
             PROVE  sent'[s].stale
  BY DEF RefusedOnlyStale
<1>1. Begun(s)
  BY RequestsKept, PressEffect, NotSentType DEF Keeps, Numbered, NotSent
<1>2. sent'[s].how = sent[s].how
  BY <1>1, RequestsKept DEF Keeps
<1>3. CASE sent[s].outcome = "refused" /\ sent'[s].stale = sent[s].stale
  BY <1>2, <1>3 DEF RefusedOnlyStale
<1>4. CASE RefuseRequest(s)
  <2> DEFINE h == Handled(s, "handled", "refused")
             r == [h EXCEPT !.stale = sent[s].sees \notin {row, "nothing"}]
  <2>1. sent' = [sent EXCEPT ![s] = r] /\ sent[s].pc = "sent" /\ Accepting(s) = {}
    BY <1>4 DEF RefuseRequest
  <2>2. h \in Request
    BY HandledEffect DEF ScreenTypeOK
  <2> HIDE DEF h
  <2>3. sent'[s].stale = (sent[s].sees \notin {row, "nothing"})
    BY <2>1, <2>2 DEF ScreenTypeOK, Request
  <2>4. sent[s].sees \notin {row, "nothing"}
    BY <1>2, <2>1 DEF Accepting, MadeSound, Acceptable
  <2> QED
    BY <2>3, <2>4
<1> QED
  BY <1>1, <1>3, <1>4, RequestsKept DEF Keeps

LEMMA SettlingEnds ==
  ASSUME ScreenTypeOK, ScreenNext, ~AnswerQuery, ~FailQuery,
         NEW s \in Requests, sent[s].pc = "settling", sent'[s].pc = "done"
  PROVE  sent'[s].cut
<1>0. sent \in [Requests -> Request] /\ TRUE \in BOOLEAN
  BY DEF ScreenTypeOK
<1>1. ~UNCHANGED sent
  OBVIOUS
<1>2. ~Unmount
  BY <1>0 DEF Unmount, Request
<1>3. ASSUME NEW t \in Requests, NEW o \in WatchedPage.offers, PressButton(t, o) PROVE FALSE
  <2>1. t # s
    BY <1>3, NotSentType DEF PressButton
  <2> QED
    BY <1>3, <2>1, PressEffect
<1>4. ASSUME NEW t \in Requests, sent[t].pc # "settling", NEW r, sent' = [sent EXCEPT ![t] = r] PROVE FALSE
  BY <1>0, <1>4
<1>5. ASSUME NEW t \in Requests, HearSuccess(t) PROVE sent'[s].cut
  <2>a. /\ sent[t].pc = "handled"
        /\ \A u \in Requests \ {t} : sent'[u] = IF Restarts(sent[t].by) THEN Settled(TRUE)[u] ELSE sent[u]
    BY <1>5, HearEffect
  <2>b. t # s
    BY <1>0, <2>a
  <2>1. sent'[s] = sent[s] \/ sent'[s] = Settled(TRUE)[s]
    BY <2>a, <2>b
  <2> QED
    BY <1>0, <2>1, SettledEffect
<1>6. ASSUME NEW t \in Requests, AcceptRequest(t) \/ RefuseRequest(t) \/ LoseRequest(t) PROVE FALSE
  BY <1>4, <1>6 DEF AcceptRequest, RefuseRequest, LoseRequest
<1>7. ASSUME NEW t \in Requests, HearRefusal(t) PROVE FALSE
  BY <1>0, <1>7 DEF HearRefusal
<1> QED
  BY <1>1, <1>2, <1>3, <1>5, <1>6, <1>7
     DEF ScreenNext, OpenPage, FocusWindow, LeavePage, SignOut, SignIn, GrowOld, ServeQuery, OpenForm, OthersMove

LEMMA HeardShownStep ==
  ASSUME ScreenTypeOK, Numbered, OnScreen, LagMeant, FetchFresh, HeardShown, ScreenNext
  PROVE  HeardShown'
<1> SUFFICES ASSUME NEW s \in cache'.answer.lag, sent'[s].pc = "done", sent'[s].outcome = "accepted", sent'[s].ours,
                    ~sent'[s].cut, MutationNamed[sent'[s].by].waits, Reaches(sent'[s].by, place'.query)
             PROVE  cache'.failed \/ cache'.answer.late
  BY DEF HeardShown
<1>1. place' = place /\ Heard(s)'
  BY PlaceFixed DEF Heard
<1>2. ~Overtakes(s)
  BY <1>1, OvertakingUnheard
<1>3. CASE FailQuery
  BY <1>3 DEF FailQuery, ScreenTypeOK
<1>4. CASE AnswerQuery
  <2>1. /\ cache'.answer = [fetch.answer EXCEPT !.late = fetch.late, !.crossed = fetch.crossed] /\ fetch.pc = "served"
        /\ sent' = Settled(FALSE)
    BY <1>4 DEF AnswerQuery
  <2>2. cache'.answer.late = fetch.late /\ cache'.answer.lag = fetch.answer.lag
    BY <2>1 DEF ScreenTypeOK, Fetch, Answer
  <2>3. s \in Requests /\ sent \in [Requests -> Request] /\ FALSE \in BOOLEAN
    BY <2>2 DEF LagMeant, ScreenTypeOK
  <2>4. /\ sent'[s].by = sent[s].by /\ sent'[s].outcome = sent[s].outcome
        /\ sent'[s] = sent[s] \/ sent[s].pc = "settling"
    BY <2>1, <2>3, SettledEffect
  <2>5. Heard(s)
    BY <2>4 DEF Heard
  <2> QED
    BY <1>1, <2>1, <2>2, <2>4, <2>5 DEF FetchFresh, Unreached, InFlight
<1>5. ASSUME ~AnswerQuery, ~FailQuery PROVE cache'.failed \/ cache'.answer.late
  <2>1. s \in cache.answer.lag /\ s \in Requests /\ Begun(s)
    BY <1>2, <1>5, CacheMoves DEF LagMeant, Begun
  <2>2. /\ sent'[s].by = sent[s].by /\ sent[s].ours /\ (Heard(s) \/ HearSuccess(s))
        /\ sent[s].pc = "done" => sent'[s].cut = sent[s].cut
    BY <1>1, <2>1, RequestsKept DEF Keeps
  <2>3. CASE HearSuccess(s)
    <3>1. sent'[s].pc = "settling" \/ fetch'.pc = "idle"
      BY <1>1, <2>1, <2>2, <2>3, HearEffect DEF OnScreen, Drops
    <3>2. fetch' = Invalidated /\ mounted
      BY <1>1, <2>1, <2>2, <2>3, HearEffect DEF OnScreen, Drops
    <3>3. fetch'.pc # "idle"
      BY <3>2, AskedType DEF Invalidated, InFlight, ScreenTypeOK, Fetch
    <3> QED
      BY <3>1, <3>3
  <2>4. CASE Heard(s) /\ sent[s].pc = "done"
    BY <1>1, <1>5, <2>1, <2>2, <2>4, CacheMoves DEF HeardShown, Heard
  <2>5. CASE Heard(s) /\ sent[s].pc = "settling"
    BY <1>5, <2>1, <2>5, SettlingEnds
  <2> QED
    BY <2>2, <2>3, <2>4, <2>5 DEF Heard
<1> QED
  BY <1>3, <1>4, <1>5

LEMMA NotPending ==
  ASSUME ScreenTypeOK, Numbered, PressOrder, NEW o \in WatchedPage.offers, ~PendingHere(o.by),
         NEW s \in Requests, sent[s].by = o.by, sent[s].ours, ButtonsSince(s)
  PROVE  ~Unfinished(s)
<1>1. CASE \E t \in Requests : t > s /\ sent[t].by = o.by
  <2>1. PICK t \in Requests : t > s /\ sent[t].by = o.by
    BY <1>1
  <2>2. NotSent.by = "none" /\ o.by # "none"
    BY OfferMeant DEF NotSent
  <2>3. Begun(t)
    BY <2>1, <2>2 DEF Numbered
  <2>4. s < t
    BY <2>1, ScreensAssumption
  <2> QED
    BY <2>1, <2>3, <2>4 DEF PressOrder
<1>2. CASE \A t \in Requests : t > s => sent[t].by # o.by
  BY <1>2 DEF PendingHere
<1> QED
  BY <1>1, <1>2

LEMMA PressOrderStep ==
  ASSUME ScreenTypeOK, Numbered, PressOrder, ScreenNext
  PROVE  PressOrder'
<1> SUFFICES ASSUME NEW s \in Requests, NEW t \in Requests, s < t, Begun(t)', sent'[t].by = sent'[s].by,
                    sent'[s].ours, ButtonsSince(s)', Unfinished(s)'
             PROVE  FALSE
  BY DEF PressOrder
<1>1. ASSUME Begun(s) PROVE sent'[s].by = sent[s].by /\ sent[s].ours /\ Unfinished(s) /\ ButtonsSince(s)
  <2>1. sent'[s].by = sent[s].by /\ sent[s].ours /\ Unfinished(s)
    BY <1>1, RequestsKept DEF Keeps
  <2>2. ASSUME NEW u \in Requests, u > s, sent[u].by = sent[s].by PROVE sent[u].how = "button"
    <3>1. CASE Begun(u)
      <4>1. sent'[u].by = sent'[s].by /\ sent'[u].how = sent[u].how
        BY <2>1, <2>2, <3>1, RequestsKept DEF Keeps
      <4> QED
        BY <2>2, <4>1 DEF ButtonsSince
    <3>2. CASE ~Begun(u)
      BY <3>2 DEF Numbered, NotSent
    <3> QED
      BY <3>1, <3>2
  <2> QED
    BY <2>1, <2>2 DEF ButtonsSince
<1>2. CASE Begun(t)
  <2>1. Begun(s) /\ sent'[t].by = sent[t].by
    BY <1>2, RequestsKept DEF Numbered, Keeps
  <2> QED
    BY <1>1, <1>2, <2>1 DEF PressOrder
<1>3. CASE ~Begun(t)
  <2>1. PICK o \in WatchedPage.offers : PressButton(t, o)
    BY <1>3, RequestsKept DEF Keeps, Begun
  <2>2. Begun(s)
    <3>1. sent[s] # NotSent
      BY <2>1 DEF PressButton
    <3> QED
      BY <3>1 DEF Numbered
  <2>3. sent'[t].by = o.by /\ sent'[t].how = o.how
    BY <2>1, PressEffect
  <2>4. o.how = "button"
    <3>1. t > s
      BY ScreensAssumption
    <3> QED
      BY <2>3, <3>1 DEF ButtonsSince
  <2>5. ~PendingHere(o.by)
    BY <2>1, <2>4 DEF PressButton
  <2> QED
    BY <1>1, <2>2, <2>3, <2>5, NotPending
<1> QED
  BY <1>2, <1>3

LEMMA PressedOnceStep ==
  ASSUME ScreenTypeOK, Numbered, LagMeant, HeardShown, PressOrder, PressedOnce, ScreenNext
  PROVE  PressedOnce'
<1> SUFFICES ASSUME NEW s \in Requests, sent'[s].how = "button", sent'[s].again, MutationNamed[sent'[s].by].waits
             PROVE  FALSE
  BY DEF PressedOnce
<1>1. CASE Begun(s)
  <2>1. sent'[s].how = sent[s].how /\ sent'[s].again = sent[s].again /\ sent'[s].by = sent[s].by
    BY <1>1, RequestsKept DEF Keeps
  <2> QED
    BY <2>1 DEF PressedOnce
<1>2. CASE ~Begun(s)
  <2>1. PICK o \in WatchedPage.offers : PressButton(s, o)
    BY <1>2, RequestsKept DEF Keeps, Numbered, NotSent
  <2>2. sent'[s].by = o.by /\ o.how = "button" /\ ShowsLag(o.by)
    BY <2>1, PressEffect
  <2>3. ~PendingHere(o.by)
    BY <2>1, <2>2 DEF PressButton
  <2>4. PICK x \in Requests : /\ x \in cache.answer.lag /\ sent[x].by = o.by /\ sent[x].ours
                              /\ Heard(x) /\ ~sent[x].cut /\ ButtonsSince(x)
    BY <2>2 DEF ShowsLag
  <2>5. sent[x].pc = "done" /\ sent[x].outcome = "accepted"
    BY <2>3, <2>4, NotPending DEF Heard, Unfinished
  <2>6. Changes(o.by, place.query)
    BY <2>4 DEF LagMeant
  <2>7. Reaches(o.by, place.query)
    BY <2>2, <2>6, KeysReach DEF ScreenTypeOK, WatchedPage
  <2> QED
    BY <2>2, <2>4, <2>5, <2>7 DEF HeardShown, ShowsLag
<1> QED
  BY <1>1, <1>2

-----------------------------------------------------------------------------
(* The invariant *)

(* What holds of every page at every moment: the order of the requests, the  *)
(* owners and the delays of answers, the soundness of what was pressed.      *)
ScreensInv ==
  /\ ScreenTypeOK /\ Numbered /\ AllOffered /\ OnScreen /\ FetchOwned
  /\ LagMeant /\ FetchFresh /\ CacheFresh
  /\ MadeSound /\ RefusedOnlyStale /\ HeardShown /\ PressOrder /\ PressedOnce

LEMMA ScreensInit == ScreenInit => ScreensInv
<1> SUFFICES ASSUME ScreenInit PROVE ScreensInv
  OBVIOUS
<1>1. ScreenTypeOK
  <2>a. PICK p \in DOMAIN AppPages :
          \E q \in AppPages[p].shows :
             place = [page |-> p, query |-> q] /\ row \in IF q = AppPages[p].row THEN AppPages[p].statuses ELSE {"any"}
    BY DEF ScreenInit
  <2>1. PICK q \in AppPages[p].shows :
          place = [page |-> p, query |-> q] /\ row \in IF q = AppPages[p].row THEN AppPages[p].statuses ELSE {"any"}
    BY <2>a
  <2>2. q \in Words /\ row \in Words
    BY <2>1, SomeWords, TablesTyped DEF Words
  <2>3. place \in [page: DOMAIN AppPages, query: Words] /\ place.query \in WatchedPage.shows
    BY <2>1, <2>2 DEF WatchedPage
  <2>b. mounted = FALSE /\ form = FALSE /\ who = 1 /\ moved = 0
    BY DEF ScreenInit
  <2>c. mounted \in BOOLEAN /\ form \in BOOLEAN
    BY <2>b
  <2>4. mounted \in BOOLEAN /\ form \in BOOLEAN /\ who \in 0..2 /\ moved \in 0..MaxMoves
    <3>1. 1 \in 0..2 /\ 0 \in 0..MaxMoves
      BY ScreensAssumption
    <3> QED
      BY <2>b, <2>c, <3>1
  <2>5. cache \in [answer: Answer, failed: BOOLEAN, aged: BOOLEAN]
    BY NoAnswerType DEF ScreenInit
  <2>6. fetch \in Fetch
    BY <2>4, AskedType DEF ScreenInit
  <2>7. sent \in [Requests -> Request]
    BY NotSentType DEF ScreenInit
  <2> QED
    BY <2>2, <2>3, <2>4, <2>5, <2>6, <2>7 DEF ScreenTypeOK
<1>2. \A s \in Requests : sent[s] = NotSent
  BY DEF ScreenInit
<1>3. /\ ~InFlight /\ fetch.pc = "idle" /\ ~mounted /\ fetch.answer.lag = {} /\ cache.answer.lag = {}
  BY AskedType, NoAnswerType DEF ScreenInit, InFlight, NothingAsked
<1>4. NotSent.pc = "unsent" /\ ~NotSent.ours /\ NotSent.outcome = "none" /\ ~NotSent.again
  BY DEF NotSent
<1>5. Numbered /\ AllOffered /\ OnScreen /\ FetchOwned
  BY <1>2, <1>3, <1>4 DEF Numbered, AllOffered, OnScreen, FetchOwned, Begun
<1>6. LagMeant /\ FetchFresh /\ CacheFresh
  BY <1>3 DEF LagMeant, FetchFresh, CacheFresh
<1>7. MadeSound /\ RefusedOnlyStale /\ HeardShown /\ PressOrder /\ PressedOnce
  BY <1>2, <1>3, <1>4 DEF MadeSound, RefusedOnlyStale, HeardShown, PressOrder, PressedOnce, Begun
<1> QED
  BY <1>1, <1>5, <1>6, <1>7 DEF ScreensInv

LEMMA ScreensNext == ScreensInv /\ [ScreenNext]_screenVars => ScreensInv'
<1>1. ASSUME ScreensInv, ScreenNext PROVE ScreensInv'
  BY <1>1, TypeStep, NumberedStep, OfferedStep, OnScreenStep, FetchOwnedStep, LagStep, FetchFreshStep, CacheFreshStep,
     MadeSoundStep, RefusedStep, HeardShownStep, PressOrderStep, PressedOnceStep DEF ScreensInv
<1>2. ASSUME ScreensInv, UNCHANGED screenVars PROVE ScreensInv'
  <2>1. ScreenTypeOK' /\ Numbered' /\ AllOffered' /\ OnScreen' /\ FetchOwned'
    BY <1>2 DEF ScreensInv, screenVars, ScreenTypeOK, Numbered, AllOffered, OnScreen, FetchOwned, WatchedPage,
       Begun, Offered, InFlight
  <2>2. LagMeant' /\ FetchFresh' /\ CacheFresh' /\ MadeSound'
    BY <1>2 DEF ScreensInv, screenVars, LagMeant, FetchFresh, CacheFresh, MadeSound, InFlight, Unreached, Heard,
       Watched, CurrentUser, Query, Acceptable, RowWatched, WatchedPage, Serving
  <2>3. RefusedOnlyStale' /\ HeardShown' /\ PressOrder' /\ PressedOnce'
    BY <1>2 DEF ScreensInv, screenVars, RefusedOnlyStale, HeardShown, PressOrder, PressedOnce, Begun, ButtonsSince, Unfinished
  <2> QED
    BY <2>1, <2>2, <2>3 DEF ScreensInv
<1> QED
  BY <1>1, <1>2

LEMMA ScreensInvariant == ScreenSpec => []ScreensInv
  BY ScreensInit, ScreensNext, PTL DEF ScreenSpec

LEMMA CurrentMeans == ScreensInv => ScreensCurrent
<1> SUFFICES ASSUME ScreensInv, mounted, ~InFlight, ~cache.failed, place.query \notin {"currentUser", "loginHistory"}
             PROVE  /\ cache.answer.crossed \/ cache.answer.of = who
                    /\ cache.answer.late \/ \A s \in cache.answer.lag : ~Heard(s)
  BY DEF ScreensCurrent
<1>1. Watched # CurrentUser
  <2>1. place.query \in DOMAIN QueryNamed
    BY TablesTyped DEF ScreensInv, ScreenTypeOK, WatchedPage
  <2>2. Watched.name = place.query
    BY <2>1 DEF Watched, QueryNamed
  <2> QED
    BY <2>2 DEF CurrentUser, Query
<1>2. /\ cache.answer.crossed \/ cache.answer.of = who
      /\ cache.answer.late \/ Unreached(cache.answer.lag)
  BY <1>1 DEF ScreensInv, CacheFresh
<1>3. ASSUME NEW s \in cache.answer.lag PROVE Reaches(sent[s].by, place.query)
  <2>1. s \in Requests /\ Begun(s) /\ Changes(sent[s].by, place.query)
    BY DEF ScreensInv, LagMeant, Begun
  <2>2. PICK o \in WatchedPage.offers : o.by = sent[s].by
    BY <2>1 DEF ScreensInv, AllOffered, Offered
  <2> QED
    BY <2>1, <2>2, KeysReach DEF ScreensInv, ScreenTypeOK, WatchedPage
<1> QED
  BY <1>2, <1>3 DEF Unreached

(* However answers, failures, invalidations and sign-outs meet, a page that  *)
(* waits for nothing shows an answer of the user signed in, unless the query *)
(* was in flight when the last user signed out, and one made after every     *)
(* request it knows to have succeeded, unless the query was invalidated in   *)
(* flight with nothing cached: on every page, of every query but the two     *)
(* ScreensCurrent names, with any number of requests.                        *)
THEOREM PagesStayCurrent == ScreenSpec => []ScreensCurrent
  BY ScreensInvariant, CurrentMeans, PTL

(* Outside of forms, and of clocking in before the page has an answer, no    *)
(* page offers what the API cannot accept in the status shown, and no button *)
(* whose hook awaits its refetch is pressed again on the answer from before, *)
(* with any number of requests and moves of the row by others.               *)
THEOREM OffersStaySound == ScreenSpec => []OffersSound
<1>1. ScreensInv => OffersSound
  BY DEF ScreensInv, OffersSound
<1> QED
  BY <1>1, ScreensInvariant, PTL
=============================================================================
