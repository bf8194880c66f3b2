--------------------------- MODULE RefreshTokens ---------------------------
(***************************************************************************)
(* The refresh tokens of one account: TokenService, and the handlers of    *)
(* AuthService, AdminAuthService, AdminUsersService, TeamService and       *)
(* CompaniesService that issue, rotate or revoke them.                     *)
(*                                                                         *)
(* A token is one row; a login starts a family, a rotation adds a token to *)
(* the family of the one presented.  A rotation is three statements (read, *)
(* insert, revoke), each an await of its own, so other handlers may run in *)
(* between: req[h] is the handler in slot h.  With one slot they run one   *)
(* after the other.                                                        *)
(***************************************************************************)
EXTENDS Integers, FiniteSets

CONSTANTS
  Tokens,     (* ids of the rows; a family bears the id of its first token *)
  NoToken,    (* the parent of a first token                               *)
  Handlers,   (* slots for handlers in flight                              *)
  Ops,        (* operations used in this instance                          *)
  MaxAborts   (* bound: handlers that die between two awaits               *)

ASSUME TokensAssumption == NoToken \notin Tokens /\ MaxAborts \in Nat

VARIABLES
  token,      (* RefreshToken rows                                         *)
  delivered,  (* tokens that reached a client in an answer                 *)
  suspended,  (* User.isSuspended                                          *)
  challenge,  (* a login was answered by an MFA challenge that has not     *)
              (* expired                                                   *)
  ended,      (* per family: what revoked it as a whole, last              *)
  req,        (* handlers in flight                                        *)
  aborts      (* handlers that died so far                                 *)

vars == <<token, delivered, suspended, challenge, ended, req, aborts>>

Causes == {"reuse", "logout", "account", "company"}

(* late: issued by a verifyMfa that found the account disabled (history). *)
Rows == [status: {"none", "live", "revoked"}, family: Tokens \cup {NoToken},
         parent: Tokens \cup {NoToken}, expired: BOOLEAN, late: BOOLEAN]

(* "login" and "late" are a login about to issue; "late" found the account *)
(* disabled.                                                               *)
Flight == [pc: {"idle", "login", "late", "rotate", "retire", "kill"},
           tok: Tokens \cup {NoToken}, new: Tokens \cup {NoToken}, why: Causes]

NoRow == [status |-> "none", family |-> NoToken, parent |-> NoToken, expired |-> FALSE, late |-> FALSE]

Idle == [pc |-> "idle", tok |-> NoToken, new |-> NoToken, why |-> "reuse"]

(* Mutant: the family and the token it replaces change places. *)
Fresh_Swapped(f, p, l) == [status |-> "live", family |-> p, parent |-> f, expired |-> FALSE, late |-> l]

Fresh(f, p, l) == [status |-> "live", family |-> f, parent |-> p, expired |-> FALSE, late |-> l]

(* revokedAt is null *)
Live(k) == token[k].status = "live"

FamilyOf(f) == {k \in Tokens : token[k].family = f}

Started(f) == token[f].status # "none" /\ token[f].family = f

Starts(h, op) == op \in Ops /\ req[h].pc = "idle"

Becomes(h, r) == req' = [req EXCEPT ![h] = r]

rows == <<token, delivered, suspended, challenge, ended, aborts>>

(* updateMany where revokedAt is null, over the tokens of S. *)
Revoked(S) == [k \in Tokens |-> IF k \in S /\ Live(k)
                                THEN [token[k] EXCEPT !.status = "revoked"] ELSE token[k]]

(* The families of the account end, for this cause. *)
EndedAll(why) == [f \in Tokens |-> IF Started(f) THEN why ELSE ended[f]]

Init ==
  /\ token     = [k \in Tokens |-> NoRow]
  /\ delivered = {}
  /\ suspended = FALSE
  /\ challenge = FALSE
  /\ ended     = [f \in Tokens |-> "no"]
  /\ req       = [h \in Handlers |-> Idle]
  /\ aborts    = 0

-----------------------------------------------------------------------------
(* login, register, acceptInvite: the account is read and checked, updated *)
(* and, several awaits later, the answer is a new family or, for a user    *)
(* with MFA, a challenge.                                                  *)
LoginRead(h) ==
  /\ Starts(h, "login") /\ ~suspended
  /\ Becomes(h, [Idle EXCEPT !.pc = "login"])
  /\ UNCHANGED rows

GiveChallenge(h) ==
  /\ req[h].pc = "login"
  /\ challenge' = TRUE
  /\ Becomes(h, Idle)
  /\ UNCHANGED <<token, delivered, suspended, ended, aborts>>

(* verifyMfa of both applications: the challenge and the code are checked, *)
(* isSuspended is not, and a challenge may be used more than once.         *)
VerifyRead(h) ==
  /\ Starts(h, "login") /\ challenge
  /\ Becomes(h, [Idle EXCEPT !.pc = IF suspended THEN "late" ELSE "login"])
  /\ UNCHANGED rows

(* Its five minutes pass; nothing else ends a challenge. *)
ChallengeExpires ==
  /\ challenge
  /\ challenge' = FALSE
  /\ UNCHANGED <<token, delivered, suspended, ended, req, aborts>>

IssueNewFamily(h, n) ==
  /\ req[h].pc \in {"login", "late"}
  /\ token[n].status = "none"
  /\ token' = [token EXCEPT ![n] = Fresh(n, NoToken, req[h].pc = "late")]
  /\ delivered' \in {delivered, delivered \cup {n}}    (* the answer may be lost *)
  /\ Becomes(h, Idle)
  /\ UNCHANGED <<suspended, challenge, ended, aborts>>

(* Mutant: a revoked token is taken for a live one. *)
Rotatable_AnyStatus(k) == ~token[k].expired /\ ~suspended

(* Mutant: the account is not looked at. *)
Rotatable_Disabled(k) == Live(k) /\ ~token[k].expired

(* What rotateRefreshToken asks of the row it reads, and of its user. *)
Rotatable(k) == Live(k) /\ ~token[k].expired /\ ~suspended

(* rotateRefreshToken: a token that can be rotated is, one found revoked   *)
(* ends its family, any other is refused.                                  *)
RotateRead(h, k) ==
  /\ Starts(h, "refresh") /\ k \in delivered
  /\ \/ Rotatable(k) /\ Becomes(h, [Idle EXCEPT !.pc = "rotate", !.tok = k])
     \/ token[k].status = "revoked" /\ Becomes(h, [Idle EXCEPT !.pc = "kill", !.tok = k])
  /\ UNCHANGED rows

IssueInFamily(h, n) ==
  /\ req[h].pc = "rotate"
  /\ token[n].status = "none"
  /\ token' = [token EXCEPT ![n] = Fresh(token[req[h].tok].family, req[h].tok, FALSE)]
  /\ Becomes(h, [req[h] EXCEPT !.pc = "retire", !.new = n])
  /\ UNCHANGED <<delivered, suspended, challenge, ended, aborts>>

(* Mutant: the presented token is left live. *)
Retired_Kept(k) == token

(* The presented token is revoked, whatever it has become since it was read. *)
Retired(k) == [token EXCEPT ![k].status = "revoked"]

(* The answer may be lost on the way, or be a 401 (AdminAuthService.refresh *)
(* rotates the token of a user who is not a super admin and then refuses).  *)
RetireParent(h) ==
  /\ req[h].pc = "retire"
  /\ token' = Retired(req[h].tok)
  /\ delivered' \in {delivered, delivered \cup {req[h].new}}
  /\ Becomes(h, Idle)
  /\ UNCHANGED <<suspended, challenge, ended, aborts>>

(* What revokeFamily revokes when k was presented. *)
KillSet(k) == FamilyOf(token[k].family)

RevokeFamily(h) ==
  /\ req[h].pc = "kill"
  /\ token' = Revoked(KillSet(req[h].tok))
  /\ ended' = [ended EXCEPT ![token[req[h].tok].family] = req[h].why]
  /\ Becomes(h, Idle)
  /\ UNCHANGED <<delivered, suspended, challenge, aborts>>

(* revokeByRawToken: the family of any known token, live or not. *)
LogoutRead(h, k) ==
  /\ Starts(h, "logout") /\ k \in delivered
  /\ Becomes(h, [Idle EXCEPT !.pc = "kill", !.tok = k, !.why = "logout"])
  /\ UNCHANGED rows

-----------------------------------------------------------------------------
(* Handlers whose effect is one statement or transaction.                  *)

(* resetPassword, revokeSessions: every session of the account, at once. *)
RevokeSessions(h) ==
  /\ Starts(h, "revokeSessions")
  /\ token' = Revoked(Tokens)
  /\ ended' = EndedAll("account")
  /\ UNCHANGED <<delivered, suspended, challenge, req, aborts>>

(* Mutant: disabling the account leaves its sessions. *)
DisabledTokens_Kept == token

DisabledTokens == Revoked(Tokens)

(* AdminUsersService.disable and TeamService.remove: one transaction. *)
Disable(h) ==
  /\ Starts(h, "disable")
  /\ suspended' = TRUE
  /\ token' = DisabledTokens
  /\ ended' = EndedAll("account")
  /\ UNCHANGED <<delivered, challenge, req, aborts>>

Enable(h) ==
  /\ Starts(h, "enable")
  /\ suspended' = FALSE
  /\ UNCHANGED <<token, delivered, challenge, ended, req, aborts>>

(* CompaniesService.remove: the sessions of the organization. *)
RemoveCompany(h) ==
  /\ Starts(h, "removeCompany")
  /\ token' = Revoked(Tokens)
  /\ ended' = EndedAll("company")
  /\ UNCHANGED <<delivered, suspended, challenge, req, aborts>>

(* expiresAt passes. *)
Expire(k) ==
  /\ "expire" \in Ops
  /\ token[k].status # "none"
  /\ token' = [token EXCEPT ![k].expired = TRUE]
  /\ UNCHANGED <<delivered, suspended, challenge, ended, req, aborts>>

(* The process dies under a handler; what it wrote stays. *)
Abort(h) ==
  /\ req[h].pc # "idle" /\ aborts < MaxAborts
  /\ aborts' = aborts + 1
  /\ Becomes(h, Idle)
  /\ UNCHANGED <<token, delivered, suspended, challenge, ended>>

-----------------------------------------------------------------------------
Rotation(h) ==
  \/ \E k \in Tokens : RotateRead(h, k) \/ IssueInFamily(h, k)
  \/ RetireParent(h) \/ RevokeFamily(h)

Login(h) ==
  \/ LoginRead(h) \/ GiveChallenge(h) \/ VerifyRead(h)
  \/ \E n \in Tokens : IssueNewFamily(h, n)

Account(h) == RevokeSessions(h) \/ Disable(h) \/ Enable(h) \/ RemoveCompany(h)

Step(h) ==
  \/ Login(h) \/ Rotation(h) \/ Account(h) \/ Abort(h)
  \/ \E k \in Tokens : LogoutRead(h, k)

Next ==
  \/ \E h \in Handlers : Step(h)
  \/ ChallengeExpires \/ \E k \in Tokens : Expire(k)

Spec == Init /\ [][Next]_vars

-----------------------------------------------------------------------------
HasFamily ==
  \A k \in Tokens : token[k].status # "none" =>
                       token[k].family \in Tokens /\ Started(token[k].family)

(* Types: the rows, the flags and the handlers have the values of the      *)
(* schema; a row that exists belongs to a family that was started.         *)
TypeOK ==
  /\ token \in [Tokens -> Rows]
  /\ HasFamily
  /\ delivered \subseteq Tokens
  /\ suspended \in BOOLEAN /\ challenge \in BOOLEAN
  /\ ended \in [Tokens -> Causes \cup {"no"}]
  /\ req \in [Handlers -> Flight]
  /\ aborts \in 0..MaxAborts

(* Rotate on use (token.service.ts:79): a client never holds a token while *)
(* the one it was rotated from still works, whatever the handlers in       *)
(* flight, the deaths and the lost answers.                                *)
ParentRetired ==
  \A n \in delivered : token[n].parent # NoToken => token[token[n].parent].status = "revoked"

(* One use of a token gives one successor: no two usable tokens of one     *)
(* family are ever in clients' hands.  One request at a time.              *)
OneUsablePerFamily ==
  \A j, k \in delivered :
    Live(j) /\ Live(k) /\ token[j].family = token[k].family => j = k

(* A family that was revoked as a whole (reuse, logout, reset, disabled    *)
(* account, removed company) has no live token.  One request at a time.    *)
EndedStaysEnded == \A f \in Tokens : ended[f] # "no" => \A k \in FamilyOf(f) : ~Live(k)

(* A disabled account (admin-users.service.ts:161, team.service.ts:135)    *)
(* has no session but the ones a challenge got before opens, by verifyMfa, *)
(* after it: nothing checks isSuspended there (auth.service.ts:131-175,    *)
(* admin-auth.service.ts:66-107).  One request at a time.                  *)
DisabledHasOnlyLate == suspended => \A k \in Tokens : Live(k) => token[k].late

(* With handlers interleaved, what outlives a disable is bounded by the    *)
(* logins and rotations that were in flight: each leaves one token at most *)
(* and none of them can be rotated again.  Not counted are the sessions    *)
(* that verifyMfa opens in an account it found disabled.                   *)
StragglersBounded ==
  suspended => Cardinality({k \in Tokens : Live(k) /\ ~token[k].late})
               + Cardinality({h \in Handlers : req[h].pc \in {"login", "rotate"}})
               <= Cardinality(Handlers)

(* token.service.ts:79-80: "if the presented token was already revoked,    *)
(* that's stolen-token reuse: kill the whole family and force re-login".   *)
ReuseKillsFamily == \A f \in Tokens : ended[f] = "reuse" => \A k \in FamilyOf(f) : ~Live(k)

(* A session, as its family of tokens shows it. *)
SessionOf(f) == IF ~Started(f) THEN "none"
                ELSE IF \E k \in FamilyOf(f) : Live(k) THEN "open" ELSE "ended"

S == INSTANCE Sessions WITH Ids <- Tokens, session <- [f \in Tokens |-> SessionOf(f)]

(* One request at a time, the token table is a table of sessions that open *)
(* once and, once ended, stay ended (TokenService as a whole).             *)
ImplementsSessions == S!Spec
=============================================================================
