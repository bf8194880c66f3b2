------------------------------- MODULE Screens ------------------------------
(***************************************************************************)
(* A page of the web or the admin application, one of the queries it keeps *)
(* mounted, and the query cache between them (TanStack Query's defaults, as*)
(* providers.tsx creates it; the layout, the hooks and the pages say how   *)
(* it is used).  The cache belongs to the browser tab: it outlives the     *)
(* page and the session.                                                   *)
(*                                                                         *)
(* A query goes from idle to "asked" to "served" (the API read the rows,   *)
(* its answer travels) and back.  A request goes from "sent" to "handled"  *)
(* (the API changed the rows or refused) to "settling" (onSuccess awaits   *)
(* the refetches) to "done"; its answer may be lost at any moment.         *)
(***************************************************************************)
EXTENDS AdminScreens, Naturals, SequencesExt

CONSTANTS
  Requests,   (* bound: numbers of the requests sent in a behaviour        *)
  MaxMoves    (* bound: moves of the row by others                         *)

ASSUME ScreensAssumption == Requests \subseteq Nat /\ MaxMoves \in Nat

VARIABLES
  place,    (* the page and the query of it that is watched                *)
  mounted,  (* the page is on the screen                                   *)
  form,     (* its form is open                                            *)
  who,      (* whose session: the first user's, none, the second's         *)
  row,      (* status in the database of the row the page is about         *)
  moved,    (* moves of that row by others so far                          *)
  cache,    (* the last answer of the query                                *)
  fetch,    (* the query in flight                                         *)
  sent      (* per number: the request                                     *)

screenVars == <<place, mounted, form, who, row, moved, cache, fetch, sent>>

WatchedPage == AppPages[place.page]

QueryNamed == [n \in {q.name : q \in AppQueries} |-> CHOOSE q \in AppQueries : q.name = n]

MutationNamed == [n \in {m.name : m \in AppMutations} |-> CHOOSE m \in AppMutations : m.name = n]

EndpointAt == [n \in {e.at : e \in AppEndpoints} |-> CHOOSE e \in AppEndpoints : e.at = n]

Watched == QueryNamed[place.query]

ReadsOf(q) == EndpointAt[QueryNamed[q].at].reads

Serving(m) == EndpointAt[MutationNamed[m].at]

(* The watched query is the one whose status the page's offers look at. *)
RowWatched == place.query = WatchedPage.row

(* "lag": the requests whose effect came after the answer was made.  "late": *)
(* invalidated in flight and not asked again.  "crossed": in flight when its *)
(* user signed out.                                                          *)
NoAnswer == [of |-> 0, sees |-> "nothing", lag |-> {}, late |-> FALSE, crossed |-> FALSE]

Cached == cache.answer.of # 0

InFlight == fetch.pc # "idle"

NotSent == [pc |-> "unsent", by |-> "none", how |-> "button", to |-> "any", sees |-> "any",
            again |-> FALSE, ours |-> FALSE, outcome |-> "none", stale |-> FALSE, cut |-> FALSE]

NothingAsked == [pc |-> "idle", of |-> 0, answer |-> NoAnswer, late |-> FALSE, crossed |-> FALSE]

Asked == [NothingAsked EXCEPT !.pc = "asked", !.of = who]

ScreenInit ==
  /\ \E p \in DOMAIN AppPages : \E q \in AppPages[p].shows :
       /\ place = [page |-> p, query |-> q]
       /\ row \in IF q = AppPages[p].row THEN AppPages[p].statuses ELSE {"any"}
  /\ mounted = FALSE /\ form = FALSE /\ who = 1 /\ moved = 0
  /\ cache = [answer |-> NoAnswer, failed |-> FALSE, aged |-> FALSE]
  /\ fetch = NothingAsked
  /\ sent = [s \in Requests |-> NotSent]

-----------------------------------------------------------------------------
(* The page and its user *)

(* Every query is stale at once but for currentUser. *)
Stale == Watched # CurrentUser \/ ~Cached \/ cache.aged

(* Mounting and focusing join a fetch that is in flight. *)
FetchIfStale == fetch' = IF Stale /\ ~InFlight THEN Asked ELSE fetch

OpenPage ==
  /\ ~mounted /\ who # 0
  /\ mounted' = TRUE
  /\ FetchIfStale
  /\ UNCHANGED <<place, form, who, row, moved, cache, sent>>

FocusWindow ==
  /\ mounted
  /\ FetchIfStale
  /\ UNCHANGED <<place, mounted, form, who, row, moved, cache, sent>>

(* What is left of a page: the cache, the fetch and the requests in flight. *)
Unmount ==
  /\ mounted' = FALSE /\ form' = FALSE
  /\ sent' = [s \in Requests |-> [sent[s] EXCEPT !.ours = FALSE]]
  /\ UNCHANGED <<place, row, moved, cache>>

LeavePage == mounted /\ Unmount /\ UNCHANGED <<who, fetch>>

(* The store forgets the token; nothing empties the cache or stops the query *)
(* in flight, which the next user's page joins.                              *)
SignOut ==
  /\ mounted /\ who = 1
  /\ who' = 0
  /\ fetch' = IF InFlight THEN [fetch EXCEPT !.crossed = TRUE] ELSE fetch
  /\ Unmount

SignIn ==
  /\ who = 0
  /\ who' = 2
  /\ UNCHANGED <<place, mounted, form, row, moved, cache, fetch, sent>>

(* A minute passes. *)
GrowOld ==
  /\ Watched = CurrentUser /\ Cached /\ ~cache.aged
  /\ cache' = [cache EXCEPT !.aged = TRUE]
  /\ UNCHANGED <<place, mounted, form, who, row, moved, fetch, sent>>

-----------------------------------------------------------------------------
(* The query *)

(* Requests whose onSuccess awaited the fetch that is over. *)
Settled(cut) ==
  [s \in Requests |-> IF sent[s].pc = "settling" THEN [sent[s] EXCEPT !.pc = "done", !.cut = cut] ELSE sent[s]]

ServeQuery ==
  /\ fetch.pc = "asked"
  /\ fetch' = [fetch EXCEPT !.pc = "served", !.answer = [NoAnswer EXCEPT !.of = fetch.of, !.sees = row]]
  /\ UNCHANGED <<place, mounted, form, who, row, moved, cache, sent>>

AnswerQuery ==
  /\ fetch.pc = "served"
  /\ cache' = [answer |-> [fetch.answer EXCEPT !.late = fetch.late, !.crossed = fetch.crossed],
               failed |-> FALSE, aged |-> FALSE]
  /\ fetch' = NothingAsked
  /\ sent' = Settled(FALSE)
  /\ UNCHANGED <<place, mounted, form, who, row, moved>>

(* The retries are used up; the page goes on showing what it had. *)
FailQuery ==
  /\ InFlight
  /\ cache' = [cache EXCEPT !.failed = TRUE]
  /\ fetch' = NothingAsked
  /\ sent' = Settled(FALSE)
  /\ UNCHANGED <<place, mounted, form, who, row, moved>>

-----------------------------------------------------------------------------
(* The requests *)

(* Mutant: a mutation is over when it was answered. *)
Unfinished_Unawaited(s) == sent[s].pc \in {"sent", "handled"}

Unfinished(s) == sent[s].pc \in {"sent", "handled", "settling"}

(* A mutation is pending from its press to the end of its onSuccess, in the *)
(* component that pressed it; its latest press counts.                      *)
PendingHere(m) ==
  \E s \in Requests :
    /\ sent[s].by = m /\ sent[s].ours /\ Unfinished(s)
    /\ \A t \in Requests : t > s => sent[t].by # m

(* Offers with moves need the status they are meant for on the screen, a     *)
(* form only when it is opened, a blind one never.                           *)
Intended(o) ==
  IF ~RowWatched \/ o.moves = {} THEN {<<"any", "any">>}
  ELSE {m \in o.moves : m[1] = cache.answer.sees \/ (o.how = "form" /\ form) \/ o.how = "blind"}

OpenForm ==
  /\ mounted /\ RowWatched /\ ~form
  /\ \E o \in WatchedPage.offers : /\ o.how = "form"
                                   /\ \E m \in o.moves : m[1] = cache.answer.sees
  /\ form' = TRUE
  /\ UNCHANGED <<place, mounted, who, row, moved, cache, fetch, sent>>

Heard(s) == sent[s].pc \in {"settling", "done"} /\ sent[s].outcome = "accepted"

(* Since s, its mutation was pressed by disabled buttons only. *)
ButtonsSince(s) ==
  \A t \in Requests : t > s /\ sent[t].by = sent[s].by => sent[t].how = "button"

(* What is shown lags a request of the same kind that this page heard of,    *)
(* though no refetch failed, was joined or restarted and nothing else took   *)
(* the place of that request in its mutation.                                *)
ShowsLag(m) ==
  /\ ~cache.failed /\ ~cache.answer.late
  /\ \E s \in Requests : /\ s \in cache.answer.lag /\ sent[s].by = m /\ sent[s].ours
                         /\ Heard(s) /\ ~sent[s].cut /\ ButtonsSince(s)

PressButton(s, o) ==
  /\ mounted /\ sent[s] = NotSent
  /\ \A t \in Requests : t < s => sent[t] # NotSent
  /\ IF o.how = "blind" THEN RowWatched /\ ~Cached ELSE RowWatched => Cached
  /\ o.how = "button" => ~PendingHere(o.by)
  /\ o.how = "form" /\ RowWatched => form
  /\ \E m \in Intended(o) :
       sent' = [sent EXCEPT ![s] =
         [NotSent EXCEPT !.pc = "sent", !.by = o.by, !.how = o.how, !.to = m[2], !.sees = cache.answer.sees,
                         !.again = ShowsLag(o.by), !.ours = TRUE]]
  /\ UNCHANGED <<place, mounted, form, who, row, moved, cache, fetch>>

(* Only a change of a job's status names the status it asks for. *)
Accepting(s) ==
  LET e == Serving(sent[s].by) IN
  IF ~RowWatched \/ e.moves = {} THEN {<<row, row>>}
  ELSE {m \in e.moves : m[1] = row /\ (e.at = "jobs.updateStatus" => m[2] = sent[s].to)}

(* Requests that leave alone what the completion page shows of its job. *)
Unshown == {"addPhoto", "uploadSignature", "transcribeMemo", "generateDraft", "confirmDraft"}

(* What was asked for is of no account once handled. *)
Handled(s, pc, o) == [sent[s] EXCEPT !.pc = pc, !.outcome = o, !.to = "any", !.sees = "any"]

Changes(m, q) == m \notin Unshown /\ Serving(m).writes \cap ReadsOf(q) # {}

Lagging(a, s) ==
  IF a.of # 0 /\ Changes(sent[s].by, place.query) THEN [a EXCEPT !.lag = @ \cup {s}] ELSE a

AcceptRequest(s) ==
  /\ sent[s].pc = "sent"
  /\ \E m \in Accepting(s) : row' = m[2]
  /\ cache' = [cache EXCEPT !.answer = Lagging(@, s)]
  /\ fetch' = [fetch EXCEPT !.answer = Lagging(@, s)]
  /\ sent' = [sent EXCEPT ![s] = Handled(s, "handled", "accepted")]
  /\ UNCHANGED <<place, mounted, form, who, moved>>

(* Stale: a status was shown when it was asked, and is another now. *)
RefuseRequest(s) ==
  /\ sent[s].pc = "sent"
  /\ Accepting(s) = {}
  /\ sent' = [sent EXCEPT ![s] = [Handled(s, "handled", "refused") EXCEPT !.stale = sent[s].sees \notin {row, "nothing"}]]
  /\ UNCHANGED <<place, mounted, form, who, row, moved, cache, fetch>>

(* The request or its answer is lost, or the API fails for other reasons. *)
LoseRequest(s) ==
  /\ sent[s].pc \in {"sent", "handled"} /\ sent[s].outcome # "refused"
  /\ sent' = [sent EXCEPT ![s] = Handled(s, "done", "lost")]
  /\ UNCHANGED <<place, mounted, form, who, row, moved, cache, fetch>>

(* Mutant: invalidated by the whole key, not by its beginning. *)
Drops_Exact(m) == Watched.key \in MutationNamed[m].drops

Reaches(m, q) == \E k \in MutationNamed[m].drops : IsPrefix(k, QueryNamed[q].key)

Drops(m) == Reaches(m, place.query)

(* invalidateQueries: a mounted query that has an answer is asked again,     *)
(* whatever is in flight; one without an answer is joined; one that is not   *)
(* mounted is left alone.                                                    *)
Invalidated ==
  IF mounted /\ (Cached \/ ~InFlight) THEN Asked
  ELSE IF InFlight THEN [fetch EXCEPT !.late = TRUE] ELSE fetch

(* onSuccess, run after the page is left, too. *)
HearSuccess(s) ==
  /\ sent[s].pc = "handled" /\ sent[s].outcome = "accepted"
  /\ LET m == sent[s].by
         next == IF Drops(m) THEN Invalidated ELSE fetch
         rest == IF Drops(m) /\ mounted /\ Cached /\ InFlight THEN Settled(TRUE) ELSE sent
     IN  /\ fetch' = next
         /\ sent' = [rest EXCEPT ![s].pc =
              IF MutationNamed[m].waits /\ Drops(m) /\ mounted /\ next.pc # "idle" THEN "settling" ELSE "done"]
  /\ UNCHANGED <<place, mounted, form, who, row, moved, cache>>

HearRefusal(s) ==
  /\ sent[s].pc = "handled" /\ sent[s].outcome = "refused"
  /\ sent' = [sent EXCEPT ![s].pc = "done"]
  /\ UNCHANGED <<place, mounted, form, who, row, moved, cache, fetch>>

(* Someone else, or a job of the API, moves the row. *)
OthersMove ==
  /\ RowWatched /\ moved < MaxMoves
  /\ row' \in WatchedPage.statuses \ {row}
  /\ moved' = moved + 1
  /\ UNCHANGED <<place, mounted, form, who, cache, fetch, sent>>

ScreenNext ==
  \/ OpenPage \/ FocusWindow \/ LeavePage \/ SignOut \/ SignIn \/ GrowOld
  \/ ServeQuery \/ AnswerQuery \/ FailQuery \/ OpenForm \/ OthersMove
  \/ \E s \in Requests :
       \/ \E o \in WatchedPage.offers : PressButton(s, o)
       \/ AcceptRequest(s) \/ RefuseRequest(s) \/ LoseRequest(s) \/ HearSuccess(s) \/ HearRefusal(s)

ScreenSpec == ScreenInit /\ [][ScreenNext]_screenVars

-----------------------------------------------------------------------------
(* What the tables of the two applications promise, page by page: closed     *)
(* formulas, which TLC decides by evaluating them.                           *)

(* Everything a page shows is a query, everything it offers a mutation.      *)
ASSUME TablesTyped ==
  /\ \A p \in DOMAIN AppPages :
       /\ AppPages[p].shows \subseteq DOMAIN QueryNamed /\ AppPages[p].statuses \subseteq STRING
       /\ AppPages[p].offers \subseteq
            [by: DOMAIN MutationNamed, how: {"button", "loose", "form", "blind"}, moves: SUBSET (STRING \X STRING)]
  /\ DOMAIN MutationNamed \subseteq STRING \ {"none"} /\ DOMAIN QueryNamed \subseteq STRING
  /\ \A m \in DOMAIN MutationNamed : Serving(m).moves \subseteq (STRING \ {"nothing"}) \X STRING

(* A request that changes what a query of its page reads invalidates it, but *)
(* for the two queries ScreensCurrent excepts.                               *)
ASSUME KeysReach ==
  \A p \in DOMAIN AppPages : \A o \in AppPages[p].offers : \A q \in AppPages[p].shows :
    /\ Changes(o.by, q)
    /\ q \notin {"currentUser", "loginHistory"} \/ (o.how = "button" /\ MutationNamed[o.by].waits)
    => Reaches(o.by, q)

(* Outside of forms a page that looks at a status offers only what the API   *)
(* accepts in that status.                                                   *)
ASSUME OffersAccepted ==
  \A p \in DOMAIN AppPages : \A o \in AppPages[p].offers :
    (AppPages[p].row \in AppPages[p].shows /\ o.how # "form" /\ Serving(o.by).moves # {}) =>
      /\ o.moves # {}
      /\ \A m \in o.moves : \E a \in Serving(o.by).moves :
           a[1] = m[1] /\ (Serving(o.by).at = "jobs.updateStatus" => a[2] = m[2])

-----------------------------------------------------------------------------
(* A page that waits for nothing shows an answer of the user signed in, made *)
(* after every request it knows to have succeeded: the keys each hook        *)
(* invalidates reach every query of the same page that reads what the        *)
(* request writes.  Not after a fetch that failed; not of currentUser, which *)
(* is kept for a minute whoever signs in (use-current-user.ts:16); and not of*)
(* a login history, which revoking the sessions beside it leaves as it was   *)
(* (use-admin-users.ts:93).  The two halves have an exception each.  A query *)
(* in flight at the sign-out is neither cancelled nor forgotten, for signing *)
(* out only clears the store (layout.tsx:16-20): the next user's page joins  *)
(* it and then shows the last user's answer until something fetches again.   *)
(* And a query invalidated in flight with nothing cached is not asked again. *)
ScreensCurrent ==
  LET shown == cache.answer IN
  (mounted /\ Cached /\ ~InFlight /\ ~cache.failed /\ place.query \notin {"currentUser", "loginHistory"}) =>
    /\ shown.crossed \/ shown.of = who
    /\ shown.late \/ \A s \in shown.lag : ~Heard(s)

(* A request the API refuses because of a status was made on a status that   *)
(* had changed since, or in a form open since before, or on none: "Clock In" *)
(* stands there whenever the page has no active entry to show, also before   *)
(* its first answer and after a fetch that failed, and one who is clocked in *)
(* is then refused though nothing changed (time-tracking/page.tsx:97-140).   *)
(* Nowhere else does a page offer what the API cannot accept.                *)
RefusedOnlyStale ==
  \A s \in Requests : sent[s].outcome = "refused" /\ sent[s].how \notin {"form", "blind"} => sent[s].stale

(* A button whose hook awaits the refetch is not pressed again on the answer *)
(* from before its last press, unless the refetch failed, was joined or was  *)
(* restarted by another request, or an offer that shares the mutation and is *)
(* never disabled was taken in between, as cancelling a job is               *)
(* (jobs/[id]/page.tsx:75, invoices/[id]).                                   *)
PressedOnce ==
  \A s \in Requests :
    (sent[s].how = "button" /\ sent[s].again) => ~MutationNamed[sent[s].by].waits

OffersSound == RefusedOnlyStale /\ PressedOnce
=============================================================================
