--------------------------- MODULE ClientSessions --------------------------
(***************************************************************************)
(* RefreshTokens with its honest client: the pages of one browser that     *)
(* share the refresh cookie, each with its own axios client                *)
(* (packages/api-client), and AuthController.  call[h] is the HTTP call    *)
(* that handler h of the API serves.                                       *)
(*                                                                         *)
(* A page refreshes when it is loaded (providers.tsx) and when requests of *)
(* it are answered 401 (the interceptor); only the second kind is shared.  *)
(* No answer is lost here and no handler dies: a page is not left while it *)
(* has a refresh in flight.                                                *)
(***************************************************************************)
EXTENDS RefreshTokens

CONSTANTS Pages

VARIABLES
  cookie,   (* the refresh cookie of the browser                           *)
  call,     (* per slot: the call it serves                                *)
  doubled   (* families of which a page has presented a token to a shared  *)
            (* refresh while its refresh on mount was in flight (history)  *)

clientVars == <<cookie, call, doubled>>

allVars == <<vars, clientVars>>

NoCall == [pc |-> "none", way |-> "shared", page |-> NoToken, tok |-> NoToken]

CallBecomes(h, c) == call' = [call EXCEPT ![h] = c]

CallFree(h) == call[h].pc = "none" /\ req[h].pc = "idle"

Refreshes == {"refresh", "served", "answer"}

(* refreshPromise: the page waits for a refresh that its requests share. *)
Sharing(p) == \E h \in Handlers : call[h].page = p /\ call[h].way = "shared" /\ call[h].pc \in Refreshes

(* The refresh on mount of page p has a token of family f. *)
Mounting(p, f) ==
  \E h \in Handlers : /\ call[h].page = p /\ call[h].way = "mount" /\ call[h].pc \in Refreshes
                      /\ token[call[h].tok].family = f

ClientInit == Init /\ cookie = NoToken /\ call = [h \in Handlers |-> NoCall] /\ doubled = {}

-----------------------------------------------------------------------------
(* A page is loaded: it posts a refresh of its own, past the interceptor. *)
MountPage(p, h) ==
  /\ CallFree(h) /\ cookie # NoToken
  /\ \A g \in Handlers : call[g].page # p
  /\ CallBecomes(h, [pc |-> "refresh", way |-> "mount", page |-> p, tok |-> cookie])
  /\ UNCHANGED <<vars, cookie, doubled>>

(* Mutant: every 401 fires a refresh of its own. *)
MayRefresh_Each(p) == TRUE

(* The interceptor: the requests of a page that meet a 401 share one call. *)
(* It does not know of the refresh on mount.                               *)
MayRefresh(p) == ~Sharing(p)

(* A request of the page is answered 401. *)
SendRefresh(p, h) ==
  /\ CallFree(h) /\ cookie # NoToken /\ MayRefresh(p)
  /\ CallBecomes(h, [pc |-> "refresh", way |-> "shared", page |-> p, tok |-> cookie])
  /\ doubled' = doubled \cup {f \in {token[cookie].family} : Mounting(p, f)}
  /\ UNCHANGED <<vars, cookie>>

(* The API looks the token up: it rotates it, kills the family or refuses. *)
ServeRefresh(h) ==
  /\ call[h].pc = "refresh"
  /\ RotateRead(h, call[h].tok)
  /\ CallBecomes(h, [call[h] EXCEPT !.pc = "served"])
  /\ UNCHANGED <<cookie, doubled>>

RefuseRefresh(h) ==
  /\ call[h].pc = "refresh"
  /\ Live(call[h].tok) /\ ~Rotatable(call[h].tok)
  /\ CallBecomes(h, NoCall)
  /\ UNCHANGED <<vars, cookie, doubled>>

RefreshIssues(h) == (\E n \in Tokens : IssueInFamily(h, n)) /\ UNCHANGED clientVars

RefreshAnswered(h) ==
  /\ RetireParent(h) /\ delivered' # delivered
  /\ CallBecomes(h, [call[h] EXCEPT !.pc = "answer", !.tok = req[h].new])
  /\ UNCHANGED <<cookie, doubled>>

(* The password, or the code for the challenge. *)
SendLogin(h) ==
  /\ CallFree(h) /\ (LoginRead(h) \/ VerifyRead(h))
  /\ CallBecomes(h, [NoCall EXCEPT !.pc = "login"])
  /\ UNCHANGED <<cookie, doubled>>

LoginAnswered(h) ==
  /\ \E n \in Tokens : /\ IssueNewFamily(h, n) /\ delivered' # delivered
                       /\ CallBecomes(h, [NoCall EXCEPT !.pc = "answer", !.tok = n])
  /\ UNCHANGED <<cookie, doubled>>

(* The answer sets no cookie. *)
ChallengeGiven(h) == GiveChallenge(h) /\ CallBecomes(h, NoCall) /\ UNCHANGED <<cookie, doubled>>

(* Mutant: only a login sets the cookie, a rotation forgets to. *)
CookieSet_LoginOnly(k) == IF token[k].parent = NoToken THEN k ELSE cookie

(* issueSession: Set-Cookie with the new token. *)
CookieSet(k) == k

ReceiveAnswer(h) ==
  /\ call[h].pc = "answer"
  /\ cookie' = CookieSet(call[h].tok)
  /\ CallBecomes(h, NoCall)
  /\ UNCHANGED <<vars, doubled>>

SendLogout(h) ==
  /\ CallFree(h) /\ cookie # NoToken
  /\ LogoutRead(h, cookie)
  /\ CallBecomes(h, [NoCall EXCEPT !.pc = "logout"])
  /\ UNCHANGED <<cookie, doubled>>

(* The family is revoked: a logout clears the cookie, a reuse answers 401. *)
FamilyRevoked(h) ==
  /\ RevokeFamily(h)
  /\ cookie' = IF call[h].pc = "logout" THEN NoToken ELSE cookie
  /\ CallBecomes(h, NoCall)
  /\ UNCHANGED doubled

Elsewhere(h) == CallFree(h) /\ Account(h) /\ UNCHANGED clientVars

TokenExpires(k) == Expire(k) /\ UNCHANGED clientVars

ChallengeEnds == ChallengeExpires /\ UNCHANGED clientVars

ClientNext ==
  \/ \E p \in Pages, h \in Handlers : MountPage(p, h) \/ SendRefresh(p, h)
  \/ \E h \in Handlers :
       \/ ServeRefresh(h) \/ RefuseRefresh(h) \/ RefreshIssues(h) \/ RefreshAnswered(h)
       \/ SendLogin(h) \/ ChallengeGiven(h) \/ LoginAnswered(h)
       \/ ReceiveAnswer(h) \/ SendLogout(h) \/ FamilyRevoked(h) \/ Elsewhere(h)
  \/ ChallengeEnds \/ \E k \in Tokens : TokenExpires(k)

ClientSpec == ClientInit /\ [][ClientNext]_allVars

-----------------------------------------------------------------------------
(* packages/api-client/src/index.ts:28-30: as the requests of a page share *)
(* one refresh, the page does not present a token it has had rotated, and  *)
(* its session is not ended as stolen.  But for the refresh on mount, a    *)
(* call of its own that neither waits for the shared one nor is waited for *)
(* (providers.tsx:37 of both applications, mobile/app/_layout.tsx:22): a   *)
(* request answered 401 meanwhile presents the same token again, and the   *)
(* session may be killed; in such a session anything may come of it later. *)
(* One page; with two, token.service.ts:79-80 ("if the presented token was *)
(* already revoked, that's stolen-token reuse") is not what happens.       *)
NoFalseReuse ==
  [][\A f \in Tokens \ doubled :
       ended'[f] = "reuse" /\ SessionOf(f) = "open" => ended[f] = "reuse"]_allVars

(* Between calls, the browser holds a token the API would accept unless    *)
(* the session was ended: it is never stranded on a rotated token, not by  *)
(* two refreshes at once either.  No answer is lost.                       *)
CookieUsable ==
  (cookie # NoToken /\ \A h \in Handlers : call[h].pc = "none") =>
     Live(cookie) \/ ended[token[cookie].family] # "no"
=============================================================================
