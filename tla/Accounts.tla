------------------------------ MODULE Accounts ------------------------------
(***************************************************************************)
(* Accounts, roles and organizations: AuthService and AdminAuthService up  *)
(* to the session they open, TeamService, AdminUsersService and            *)
(* CompaniesService.  The sessions themselves are in RefreshTokens.        *)
(*                                                                         *)
(* An account is known by its e-mail address.  call[h] is the handler in   *)
(* slot h: pc names the call it is about to make.  A lock and a token end  *)
(* when time takes them; which password or code is right is left open.     *)
(***************************************************************************)
EXTENDS Integers, FiniteSets

CONSTANTS
  Users,     (* e-mail addresses                                           *)
  Orgs,      (* organizations that may register                            *)
  Mfa,       (* addresses with a second factor: nothing in the code sets it*)
  Admins,    (* addresses of super admins, set in the database only        *)
  Invites, Resets,  (* bound: tokens of either kind                        *)
  None,      (* null                                                       *)
  Handlers,  (* slots for handlers in flight                               *)
  MaxFailed, (* MAX_FAILED_LOGINS and MAX_MFA_ATTEMPTS, 5 in the code      *)
  MaxAborts  (* bound: handlers that die between two awaits                *)

ASSUME AccountsAssumption ==
  /\ None \notin Users \cup Orgs \cup Invites \cup Resets
  /\ Mfa \subseteq Users /\ Admins \subseteq Mfa  \* AdminAuthService refuses others
  /\ MaxFailed \in Nat \ {0} /\ MaxAborts \in Nat

VARIABLES
  user,    (* User rows                                                    *)
  org,     (* Organization rows                                            *)
  invite,  (* TeamInvite rows                                              *)
  reset,   (* PasswordReset rows                                           *)
  call,    (* handlers in flight                                           *)
  wrong,   (* history: wrong passwords and codes since the last success,   *)
           (* lock or unlock                                               *)
  joined,  (* history: accounts made from an invite                        *)
  deaths

vars == <<user, org, invite, reset, call, wrong, joined, deaths>>

Roles  == {"OWNER", "MANAGER", "EMPLOYEE", "TECHNICIAN"}
Flags  == {"isSuspended", "isArchived", "deletedAt"}
Tokens == {"ABSENT", "OPEN", "USED", "EXPIRED"}
Counts == {"password", "code"}

Row == [present: BOOLEAN, org: Orgs \cup {None}, role: Roles, suspended: BOOLEAN,
        failed: [Counts -> Nat], locked: [Counts -> BOOLEAN], challenge: BOOLEAN]

NoUser == [present |-> FALSE, org |-> None, role |-> "EMPLOYEE", suspended |-> FALSE,
           failed |-> [c \in Counts |-> 0], locked |-> [c \in Counts |-> FALSE],
           challenge |-> FALSE]

Pcs == {"idle", "register", "password", "code", "acceptInvite", "invite", "resetPassword",
        "countOwners", "updateRole", "removeMember", "transfer"}

Idle == [pc |-> "idle", user |-> None, org |-> None, role |-> "EMPLOYEE", token |-> None,
         failed |-> 0, suspended |-> FALSE]

Flight == [pc: Pcs, user: Users \cup {None}, org: Orgs \cup {None}, role: Roles,
           token: Invites \cup Resets \cup {None}, failed: Nat, suspended: BOOLEAN]

Init ==
  /\ user   = [u \in Users |-> [NoUser EXCEPT !.present = u \in Admins]]
  /\ org    = [o \in Orgs |-> [present |-> FALSE, flags |-> {}]]
  /\ invite = [i \in Invites |-> [status |-> "ABSENT", user |-> None, role |-> "EMPLOYEE",
                                  org |-> None]]
  /\ reset  = [t \in Resets |-> [status |-> "ABSENT", user |-> None]]
  /\ call   = [h \in Handlers |-> Idle]
  /\ wrong  = [u \in Users |-> [c \in Counts |-> 0]]
  /\ joined = [i \in Invites |-> 0]
  /\ deaths = 0

Present(u) == user[u].present

Free(h) == call[h].pc = "idle"

Goes(h, c) == call' = [call EXCEPT ![h] = c]

history == <<wrong, joined, deaths>>

(* A step that writes no table. *)
Moves(h, c) == Goes(h, c) /\ UNCHANGED <<user, org, invite, reset, history>>

(* A step that writes user rows only and ends its handler. *)
SetsUsers(h, rows) ==
  /\ user' = rows
  /\ Goes(h, Idle)
  /\ UNCHANGED <<org, invite, reset, history>>

(* JwtStrategy.validate, and the guard of impersonation that only reads. *)
Authenticated(u) ==
  /\ Present(u) /\ ~user[u].suspended /\ ~user[u].locked["password"]
  /\ user[u].org # None /\ "isSuspended" \notin org[user[u].org].flags

-----------------------------------------------------------------------------
(* Registration. *)
RegisterRead(h, u) ==
  /\ Free(h) /\ ~Present(u)
  /\ Moves(h, [Idle EXCEPT !.pc = "register", !.user = u])

(* Mutant: a second account may have the address. *)
Unused_Any(u) == TRUE

(* The unique index on the e-mail address. *)
Unused(u) == ~Present(u)

(* The organization and its owner in one transaction; it is a new one. *)
RegisterWrite(h, o) ==
  LET u == call[h].user
  IN  /\ call[h].pc = "register" /\ Unused(u) /\ ~org[o].present
      /\ user' = [user EXCEPT ![u] = [NoUser EXCEPT !.present = TRUE, !.org = o, !.role = "OWNER"]]
      /\ org' = [org EXCEPT ![o].present = TRUE]
      /\ Goes(h, Idle)
      /\ UNCHANGED <<invite, reset, history>>

-----------------------------------------------------------------------------
(* Logins: a password, and for some a code against the challenge. *)
LoginRead(h, u) ==
  /\ Free(h) /\ Present(u) /\ ~user[u].locked["password"]
  /\ Moves(h, [Idle EXCEPT !.pc = "password", !.user = u, !.failed = user[u].failed["password"],
                           !.suspended = user[u].suspended])

(* AdminAuthService.login counts in the same columns. *)
AdminLoginRead(h, u) == u \in Admins /\ LoginRead(h, u)

(* Mutant: one failure too many is allowed. *)
Missed_OneMore(row, c, failed) ==
  [row EXCEPT !.failed[c] = IF failed >= MaxFailed THEN 0 ELSE failed + 1,
              !.locked[c] = @ \/ failed >= MaxFailed]

(* One more failure than the handler has read; the last one allowed locks. *)
Missed(row, c, failed) ==
  [row EXCEPT !.failed[c] = IF failed + 1 >= MaxFailed THEN 0 ELSE failed + 1,
              !.locked[c] = @ \/ failed + 1 >= MaxFailed]

Fails(h, pc) ==
  LET c == call[h]
  IN  /\ c.pc = pc
      /\ user' = [user EXCEPT ![c.user] = Missed(@, pc, c.failed)]
      /\ wrong' = [wrong EXCEPT ![c.user][pc] = IF user'[c.user].locked[pc] THEN 0 ELSE @ + 1]
      /\ Goes(h, Idle)
      /\ UNCHANGED <<org, invite, reset, joined, deaths>>

WrongPassword(h) == Fails(h, "password")

Cleared(row, c) == [row EXCEPT !.failed[c] = 0, !.locked[c] = FALSE]

(* The counter is cleared; then a challenge, or a session. *)
RightPassword(h) ==
  LET u == call[h].user
      row == Cleared(user[u], "password")
  IN  /\ call[h].pc = "password" /\ ~call[h].suspended
      /\ user' = [user EXCEPT ![u] = [row EXCEPT !.challenge = @ \/ u \in Mfa]]
      /\ wrong' = [wrong EXCEPT ![u]["password"] = 0]
      /\ Goes(h, Idle)
      /\ UNCHANGED <<org, invite, reset, joined, deaths>>

RefusedSuspended(h) == call[h].pc = "password" /\ call[h].suspended /\ Moves(h, Idle)

CodeRead(h, u) ==
  /\ Free(h) /\ user[u].challenge /\ ~user[u].locked["code"]
  /\ Moves(h, [Idle EXCEPT !.pc = "code", !.user = u, !.failed = user[u].failed["code"]])

WrongCode(h) == Fails(h, "code")

RightCode(h) ==
  LET u == call[h].user
  IN  /\ call[h].pc = "code"
      /\ user' = [user EXCEPT ![u] = Cleared(@, "code")]
      /\ wrong' = [wrong EXCEPT ![u]["code"] = 0]
      /\ Goes(h, Idle)
      /\ UNCHANGED <<org, invite, reset, joined, deaths>>

LockEnds(u, c) ==
  /\ user[u].locked[c]
  /\ user' = [user EXCEPT ![u].locked[c] = FALSE]
  /\ UNCHANGED <<org, invite, reset, call, history>>

ChallengeEnds(u) ==
  /\ user[u].challenge
  /\ user' = [user EXCEPT ![u].challenge = FALSE]
  /\ UNCHANGED <<org, invite, reset, call, history>>

Unlock(h, u) ==
  /\ Free(h) /\ Present(u)
  /\ user' = [user EXCEPT ![u].failed = NoUser.failed, ![u].locked = NoUser.locked]
  /\ wrong' = [wrong EXCEPT ![u] = [c \in Counts |-> 0]]
  /\ UNCHANGED <<org, invite, reset, call, joined, deaths>>

-----------------------------------------------------------------------------
(* Password resets: forgotPassword, forcePasswordReset, resetPassword. *)
RequestReset(h, u, t) ==
  /\ Free(h) /\ Present(u) /\ reset[t].status = "ABSENT"
  /\ reset' = [reset EXCEPT ![t] = [status |-> "OPEN", user |-> u]]
  /\ UNCHANGED <<user, org, invite, call, history>>

ResetRead(h, t) ==
  /\ Free(h) /\ reset[t].status = "OPEN"
  /\ Moves(h, [Idle EXCEPT !.pc = "resetPassword", !.token = t])

(* The password, the token and the sessions in one transaction. *)
ResetWrite(h) ==
  /\ call[h].pc = "resetPassword"
  /\ reset' = [reset EXCEPT ![call[h].token].status = "USED"]
  /\ Goes(h, Idle)
  /\ UNCHANGED <<user, org, invite, history>>

(* Invitations: any member of an organization may send one. *)
InviteRead(h, by, u, role) ==
  /\ Free(h) /\ Authenticated(by) /\ ~Present(u)
  /\ Moves(h, [Idle EXCEPT !.pc = "invite", !.user = u, !.org = user[by].org, !.role = role])

InviteWrite(h, i) ==
  LET c == call[h]
  IN  /\ c.pc = "invite" /\ invite[i].status = "ABSENT"
      /\ invite' = [invite EXCEPT ![i] =
           [status |-> "OPEN", user |-> c.user, role |-> c.role, org |-> c.org]]
      /\ Goes(h, Idle)
      /\ UNCHANGED <<user, org, reset, history>>

AcceptRead(h, i) ==
  /\ Free(h) /\ invite[i].status = "OPEN" /\ ~Present(invite[i].user)
  /\ Moves(h, [Idle EXCEPT !.pc = "acceptInvite", !.user = invite[i].user, !.token = i])

AcceptWrite(h) ==
  LET i == call[h].token
  IN  /\ call[h].pc = "acceptInvite" /\ Unused(call[h].user)
      /\ user' = [user EXCEPT ![call[h].user] =
           [NoUser EXCEPT !.present = TRUE, !.org = invite[i].org, !.role = invite[i].role]]
      /\ invite' = [invite EXCEPT ![i].status = "USED"]
      /\ joined' = [joined EXCEPT ![i] = @ + 1]
      /\ Goes(h, Idle)
      /\ UNCHANGED <<org, reset, wrong, deaths>>

(* The insert meets the unique index. *)
InsertRefused(h) ==
  /\ call[h].pc \in {"register", "acceptInvite"} /\ ~Unused(call[h].user)
  /\ Moves(h, Idle)

TokenExpires ==
  /\ \/ \E i \in Invites : /\ invite[i].status = "OPEN"
                           /\ invite' = [invite EXCEPT ![i].status = "EXPIRED"]
                           /\ reset' = reset
     \/ \E t \in Resets : /\ reset[t].status = "OPEN"
                          /\ reset' = [reset EXCEPT ![t].status = "EXPIRED"]
                          /\ invite' = invite
  /\ UNCHANGED <<user, org, call, history>>

-----------------------------------------------------------------------------
(* Roles. *)
Owners(o) == {u \in Users : Present(u) /\ user[u].org = o /\ user[u].role = "OWNER"}

SameOrg(u, v) == Present(v) /\ user[v].org # None /\ user[v].org = user[u].org

(* updateRole: only an owner's own role needs the count. *)
RoleRead(h, by, u, role) ==
  /\ Free(h) /\ Authenticated(by) /\ user[by].role = "OWNER" /\ SameOrg(by, u)
  /\ Moves(h, [Idle EXCEPT !.user = u, !.org = user[u].org, !.role = role,
                !.pc = IF user[u].role = "OWNER" /\ role # "OWNER" THEN "countOwners"
                       ELSE "updateRole"])

(* Mutant: the owner who goes is counted among those who stay. *)
OthersOwn_AnyOwner(o) == Cardinality(Owners(o)) > 0

OthersOwn(o) == Cardinality(Owners(o)) > 1

CountOwners(h) ==
  /\ call[h].pc = "countOwners"
  /\ Moves(h, IF OthersOwn(call[h].org) THEN [call[h] EXCEPT !.pc = "updateRole"] ELSE Idle)

RoleWrite(h) ==
  /\ call[h].pc = "updateRole"
  /\ SetsUsers(h, [user EXCEPT ![call[h].user].role = call[h].role])

(* A manager may remove anyone but an owner. *)
RemoveRead(h, by, u) ==
  /\ Free(h) /\ Authenticated(by) /\ user[by].role \in {"OWNER", "MANAGER"} /\ SameOrg(by, u)
  /\ user[u].role # "OWNER"
  /\ Moves(h, [Idle EXCEPT !.pc = "removeMember", !.user = u])

RemoveWrite(h) ==
  /\ call[h].pc = "removeMember"
  /\ SetsUsers(h, [user EXCEPT ![call[h].user].suspended = TRUE])

(* Super admins. *)
TransferRead(h, u) ==
  /\ Free(h) /\ Present(u) /\ user[u].org # None
  /\ Moves(h, [Idle EXCEPT !.pc = "transfer", !.user = u, !.org = user[u].org])

(* Every other owner becomes a manager, and the user the owner. *)
TransferWrite(h) ==
  LET c == call[h]
  IN  /\ c.pc = "transfer"
      /\ SetsUsers(h, [u \in Users |->
           IF u = c.user THEN [user[u] EXCEPT !.role = "OWNER"]
           ELSE IF u \in Owners(c.org) THEN [user[u] EXCEPT !.role = "MANAGER"] ELSE user[u]])

(* disable, enable *)
SetSuspended(h, u, on) ==
  /\ Free(h) /\ Present(u)
  /\ user' = [user EXCEPT ![u].suspended = on]
  /\ UNCHANGED <<org, invite, reset, call, history>>

(* suspend, archive, remove; reactivate *)
SetFlag(h, o, f) ==
  /\ Free(h) /\ org[o].present
  /\ org' = [org EXCEPT ![o].flags = @ \cup {f}]
  /\ UNCHANGED <<user, invite, reset, call, history>>

Reactivate(h, o) ==
  /\ Free(h) /\ org[o].present
  /\ org' = [org EXCEPT ![o].flags = @ \ {"isSuspended"}]
  /\ UNCHANGED <<user, invite, reset, call, history>>

Abort(h) ==
  /\ ~Free(h) /\ deaths < MaxAborts
  /\ deaths' = deaths + 1
  /\ Goes(h, Idle)
  /\ UNCHANGED <<user, org, invite, reset, wrong, joined>>

-----------------------------------------------------------------------------
Auth(h) ==
  \/ WrongPassword(h) \/ RightPassword(h) \/ RefusedSuspended(h)
  \/ WrongCode(h) \/ RightCode(h) \/ ResetWrite(h) \/ AcceptWrite(h) \/ InsertRefused(h)
  \/ \E u \in Users :
       \/ LoginRead(h, u) \/ AdminLoginRead(h, u) \/ CodeRead(h, u) \/ RegisterRead(h, u)
       \/ \E t \in Resets : RequestReset(h, u, t)
  \/ \E o \in Orgs : RegisterWrite(h, o)
  \/ \E t \in Resets : ResetRead(h, t)
  \/ \E i \in Invites : AcceptRead(h, i)

Team(h) ==
  \/ CountOwners(h) \/ RoleWrite(h) \/ RemoveWrite(h) \/ \E i \in Invites : InviteWrite(h, i)
  \/ \E by, u \in Users :
       \/ RemoveRead(h, by, u)
       \/ \E role \in Roles : RoleRead(h, by, u, role) \/ InviteRead(h, by, u, role)

Admin(h) ==
  \/ TransferWrite(h)
  \/ \E u \in Users :
       TransferRead(h, u) \/ Unlock(h, u) \/ \E on \in BOOLEAN : SetSuspended(h, u, on)
  \/ \E o \in Orgs : Reactivate(h, o) \/ \E f \in Flags : SetFlag(h, o, f)

Time ==
  \/ TokenExpires
  \/ \E u \in Users : ChallengeEnds(u) \/ \E c \in Counts : LockEnds(u, c)

Next == (\E h \in Handlers : Auth(h) \/ Team(h) \/ Admin(h) \/ Abort(h)) \/ Time

Spec == Init /\ [][Next]_vars

-----------------------------------------------------------------------------
(* Types of the rows and of what the handlers hold. *)
TypeOK ==
  /\ user \in [Users -> Row]
  /\ org \in [Orgs -> [present: BOOLEAN, flags: SUBSET Flags]]
  /\ invite \in [Invites -> [status: Tokens, user: Users \cup {None}, role: Roles,
                             org: Orgs \cup {None}]]
  /\ reset \in [Resets -> [status: Tokens, user: Users \cup {None}]]
  /\ call \in [Handlers -> Flight]
  /\ wrong \in [Users -> [Counts -> Nat]] /\ joined \in [Invites -> Nat]
  /\ deaths \in 0..MaxAborts

(* An organization has an owner from its registration on: without one,     *)
(* nobody in it could change a role again (updateRole, remove,             *)
(* transferOwnership).  One handler at a time.                             *)
OwnerRemains == \A o \in Orgs : org[o].present => Owners(o) # {}

(* "MAX_FAILED_LOGINS": no more wrong passwords, at either login, or codes *)
(* are answered without a lock, a success or an unlock between.  One       *)
(* handler at a time.                                                      *)
FailuresCounted == \A u \in Users, c \in Counts : wrong[u][c] < MaxFailed

(* An invite makes one account at most (acceptInvite), though its status   *)
(* is read an await before it is written: the address is unique.           *)
InviteOnce == \A i \in Invites : joined[i] <= 1
=============================================================================
