------------------------- MODULE MCClientSessions --------------------------
(* ClientSessions and Screens for TLC.  A behaviour explores one scene,    *)
(* chosen at the start: the sessions of a page that stays ("session"), one *)
(* session of a page that is loaded again, reached by a challenge or not   *)
(* ("reload"), or one page and one of its queries, with two requests of    *)
(* the page ("work"), with one request and others who move the row         *)
(* ("shared"), or with one request and a second user who signs in on the   *)
(* same tab ("handover").  A scene is a bound, no step differs.            *)
EXTENDS ClientSessions, Screens

PageOps == {"login", "refresh", "logout", "disable", "enable", "revokeSessions", "removeCompany", "expire"}

VARIABLE scene

FirstPlace == ScreenInit /\ place = [page |-> "reports", query |-> "reportsSummary"]

(* Tokens are numbers here and get used in turn, and a call takes the first  *)
(* handler when it is free: both are interchangeable.                        *)
FirstHandler == CHOOSE h \in Handlers : TRUE

InTurn ==
  /\ CallFree(FirstHandler) /\ CallFree(FirstHandler)' => \A h \in Handlers : CallFree(h) => CallFree(h)'
  /\ \A j, k \in Tokens : j < k /\ token'[k].status # "none" => token'[j].status # "none"

(* bound: logins in a behaviour *)
FamiliesUsed == Cardinality({token[k].family : k \in Tokens} \ {NoToken})

ClientScenes == {"session", "reload"}

SessionScene ==
  /\ scene \in ClientScenes /\ ClientNext /\ InTurn /\ UNCHANGED screenVars
  /\ IF scene = "session"
     THEN FamiliesUsed' <= 2 /\ ~challenge' /\ \A h \in Handlers : call'[h].way # "mount"
     ELSE FamiliesUsed' <= 1 /\ \A k \in Tokens : ~token'[k].expired

(* Requests that neither write what the watched query reads nor drop its key *)
(* meet it nowhere.                                                          *)
Meets(m, q) == Reaches(m, q) \/ Serving(m).writes \cap ReadsOf(q) # {}

(* All that page p and its query q know of a mutation, and of each other:    *)
(* mutations alike in this are used in turn, and two requests at once are    *)
(* looked at on one of the places alike.                                     *)
Seen(p, q, m) ==
  LET isRow == q = AppPages[p].row IN
  [changes |-> Changes(m, q), drops |-> Reaches(m, q), waits |-> MutationNamed[m].waits,
   moves |-> IF isRow THEN <<Serving(m).moves, Serving(m).at = "jobs.updateStatus">> ELSE <<>>,
   offers |-> {<<o.how, IF isRow THEN o.moves ELSE {}>> : o \in {x \in AppPages[p].offers : x.by = m}}]

SeenAt(p, q) ==
  LET M == {m \in {o.by : o \in AppPages[p].offers} : Meets(m, q)} IN
  [kept |-> {q} \cap {"currentUser", "loginHistory"},
   statuses |-> IF q = AppPages[p].row THEN AppPages[p].statuses ELSE {"any"},
   known |-> {<<Seen(p, q, m), \E n \in M \ {m} : Seen(p, q, n) = Seen(p, q, m)>> : m \in M}]

Places == UNION {{[page |-> p, query |-> q] : q \in AppPages[p].shows} : p \in DOMAIN AppPages}

FirstAlike ==
  place = CHOOSE x \in Places : SeenAt(x.page, x.query) = SeenAt(place.page, place.query)

MutationsInTurn ==
  LET unused == {o.by : o \in WatchedPage.offers} \ {sent[s].by : s \in Requests}
      SeenHere(m) == Seen(place.page, place.query, m)
  IN  \A s \in Requests : sent[s] = NotSent /\ sent'[s] # NotSent =>
        /\ Meets(sent'[s].by, place.query)
        /\ sent'[s].by \in unused => sent'[s].by = CHOOSE m \in unused : SeenHere(m) = SeenHere(sent'[s].by)

ScreenScene ==
  /\ scene \notin ClientScenes /\ ScreenNext /\ UNCHANGED allVars
  /\ (sent' # sent => MutationsInTurn)
  /\ scene # "work" => sent'[2] = NotSent
  /\ IF scene = "shared" THEN RowWatched ELSE moved' = 0
  /\ scene # "handover" => who' = 1

MCInit ==
  /\ ClientInit /\ scene \in ClientScenes \cup {"work", "shared", "handover"}
  /\ IF scene \in ClientScenes THEN FirstPlace ELSE ScreenInit
  /\ scene = "work" => FirstAlike

MCNext == (SessionScene \/ ScreenScene) /\ UNCHANGED scene

MCSpec == MCInit /\ [][MCNext]_<<allVars, screenVars, scene>>
=============================================================================
