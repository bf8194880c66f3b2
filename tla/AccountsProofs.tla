--------------------------- MODULE AccountsProofs ---------------------------
(***************************************************************************)
(* Accounts for any number of addresses, organizations, invites and        *)
(* handlers.  However registrations and acceptances overlap, an invite     *)
(* makes one account; with one handler at a time an organization keeps an  *)
(* owner and failed logins lock the account in time.                       *)
(*                                                                         *)
(* The last sections are about the composition with the drafts and the     *)
(* limits of the public pages, MCAdministration.                           *)
(***************************************************************************)
EXTENDS MCAdministration, FiniteSetTheorems, TLAPS

Invitation == [status: Tokens, user: Users \cup {None}, role: Roles, org: Orgs \cup {None}]

Organization == [present: BOOLEAN, flags: SUBSET Flags]

OneHandler == \A g, h \in Handlers : g = h

LEMMA NoUserType == NoUser \in Row /\ ~NoUser.present /\ NoUser.org = None /\ ~NoUser.challenge
                    /\ (\A c \in Counts : NoUser.failed[c] = 0)
  BY DEF NoUser, Row, Roles

LEMMA IdleType == Idle \in Flight /\ Idle.pc = "idle"
  BY DEF Idle, Flight, Pcs, Roles

(* Rows of a column or two. *)

LEMMA ClearedType ==
  ASSUME NEW row \in Row, NEW c \in Counts
  PROVE  LET r == Cleared(row, c)
         IN  /\ r \in Row /\ r.present = row.present /\ r.org = row.org /\ r.role = row.role
             /\ r.failed = [row.failed EXCEPT ![c] = 0]
<1> DEFINE f == [row.failed EXCEPT ![c] = 0]
           l == [row.locked EXCEPT ![c] = FALSE]
<1>1. f \in [Counts -> Nat] /\ l \in [Counts -> BOOLEAN]
  BY DEF Row
<1>2. Cleared(row, c) = [row EXCEPT !.failed = f, !.locked = l]
  BY DEF Cleared, Row
<1> HIDE DEF f, l
<1>3. /\ [row EXCEPT !.failed = f, !.locked = l] \in Row
      /\ [row EXCEPT !.failed = f, !.locked = l].present = row.present
      /\ [row EXCEPT !.failed = f, !.locked = l].org = row.org
      /\ [row EXCEPT !.failed = f, !.locked = l].role = row.role
      /\ [row EXCEPT !.failed = f, !.locked = l].failed = f
  BY <1>1 DEF Row
<1> QED
  BY <1>2, <1>3 DEF f

LEMMA MissedType ==
  ASSUME NEW row \in Row, NEW c \in Counts, NEW n \in Nat
  PROVE  LET r == Missed(row, c, n)
         IN  /\ r \in Row /\ r.present = row.present /\ r.org = row.org /\ r.role = row.role
             /\ r.failed = [row.failed EXCEPT ![c] = IF n + 1 >= MaxFailed THEN 0 ELSE n + 1]
             /\ r.locked[c] = (row.locked[c] \/ n + 1 >= MaxFailed)
<1> DEFINE f == [row.failed EXCEPT ![c] = IF n + 1 >= MaxFailed THEN 0 ELSE n + 1]
           b == row.locked[c] \/ n + 1 >= MaxFailed
           l == [row.locked EXCEPT ![c] = b]
<1>1. f \in [Counts -> Nat]
  BY DEF Row
<1>2. b \in BOOLEAN
  BY DEF Row
<1>3. row.locked \in [Counts -> BOOLEAN]
  BY DEF Row
<1>4. Missed(row, c, n) = [row EXCEPT !.failed = f, !.locked = l]
  BY DEF Missed, Row
<1> HIDE DEF b
<1>5. l \in [Counts -> BOOLEAN] /\ l[c] = b
  BY <1>2, <1>3
<1> HIDE DEF f, l
<1>6. /\ [row EXCEPT !.failed = f, !.locked = l] \in Row
      /\ [row EXCEPT !.failed = f, !.locked = l].present = row.present
      /\ [row EXCEPT !.failed = f, !.locked = l].org = row.org
      /\ [row EXCEPT !.failed = f, !.locked = l].role = row.role
      /\ [row EXCEPT !.failed = f, !.locked = l].failed = f
      /\ [row EXCEPT !.failed = f, !.locked = l].locked = l
  BY <1>1, <1>5 DEF Row
<1> QED
  BY <1>4, <1>5, <1>6 DEF f, b

-----------------------------------------------------------------------------
(* What a handler in flight holds: an address; for some calls one with an  *)
(* account; for an acceptance, that of its invite.                         *)
OnAccount == {"password", "code", "countOwners", "updateRole", "removeMember", "transfer"}
OnAddress == OnAccount \cup {"register", "acceptInvite", "invite"}

Holds(c) ==
  /\ c.pc \in OnAddress => c.user \in Users
  /\ c.pc \in OnAccount => Present(c.user)
  /\ c.pc = "acceptInvite" => /\ c.token \in Invites /\ invite[c.token].status # "ABSENT"
                              /\ c.user = invite[c.token].user
  /\ c.pc = "resetPassword" => c.token \in Resets

(* An address without an account has the empty row. *)
RowsMade == \A u \in Users : Present(u) \/ user[u] = NoUser

(* An invite that made an account belongs to an address that has one, and  *)
(* no account is ever deleted.                                             *)
InvitesSpent ==
  \A i \in Invites :
    /\ invite[i].status # "ABSENT" => invite[i].user \in Users
    /\ joined[i] > 0 => invite[i].status # "ABSENT" /\ Present(invite[i].user)

AccountsInv == TypeOK /\ RowsMade /\ InvitesSpent /\ InviteOnce /\ \A h \in Handlers : Holds(call[h])

LEMMA AccountsInit == Init => AccountsInv
<1> SUFFICES ASSUME Init PROVE AccountsInv
  OBVIOUS
<1>1. \A u \in Users : user[u] \in Row /\ (user[u].present \/ user[u] = NoUser)
  <2> TAKE u \in Users
  <2>1. user[u] = [NoUser EXCEPT !.present = u \in Admins]
    BY DEF Init
  <2>2. CASE u \in Admins
    <3>1. user[u] = [NoUser EXCEPT !.present = TRUE]
      BY <2>1, <2>2
    <3> QED
      BY <3>1, NoUserType DEF Row
  <2>3. CASE u \notin Admins
    <3>0. (u \in Admins) = FALSE
      BY <2>3
    <3>1. user[u] = [NoUser EXCEPT !.present = FALSE]
      BY <2>1, <3>0
    <3>2. user[u] = NoUser
      BY <3>1 DEF NoUser
    <3> QED
      BY <3>2, NoUserType
  <2> QED
    BY <2>2, <2>3
<1>2. user \in [Users -> Row]
  BY <1>1 DEF Init
<1>3. TypeOK
  BY <1>2, IdleType, AccountsAssumption DEF Init, TypeOK, Tokens, Roles
<1> QED
  BY <1>1, <1>3, IdleType DEF Init, AccountsInv, RowsMade, InvitesSpent, InviteOnce, Holds, Present,
     OnAddress, OnAccount

-----------------------------------------------------------------------------
(* Rows only become accounts, and invites keep their address. *)
UsersGrow ==
  /\ user' \in [Users -> Row]
  /\ \A u \in Users : (Present(u) => user'[u].present) /\ (user'[u].present \/ user'[u] = NoUser)

InvitesGrow ==
  /\ invite' \in [Invites -> Invitation]
  /\ \A i \in Invites :
       /\ invite[i].status # "ABSENT" => invite'[i].status # "ABSENT" /\ invite'[i].user = invite[i].user
       /\ invite'[i].status # "ABSENT" => invite'[i].user \in Users

RestTyped ==
  /\ org' \in [Orgs -> Organization] /\ reset' \in [Resets -> [status: Tokens, user: Users \cup {None}]]
  /\ wrong' \in [Users -> [Counts -> Nat]] /\ deaths' \in 0..MaxAborts

Grows == UsersGrow /\ InvitesGrow /\ RestTyped

LEMMA HoldsOn ==
  ASSUME Grows, NEW c, Holds(c)
  PROVE  Holds(c)'
  BY DEF Grows, UsersGrow, InvitesGrow, Holds, Present, OnAddress, OnAccount

(* A step that writes what is allowed and leaves its handler, if it is a   *)
(* handler's, with what it may hold.                                       *)
LEMMA GrowsKeeps ==
  ASSUME AccountsInv, Grows, joined' = joined,
         call' \in [Handlers -> Flight], \A h \in Handlers : call'[h] = call[h] \/ Holds(call'[h])
  PROVE  AccountsInv'
<1>1. TypeOK'
  BY DEF AccountsInv, TypeOK, Grows, UsersGrow, InvitesGrow, RestTyped, Invitation, Organization
<1>2. RowsMade' /\ InvitesSpent' /\ InviteOnce'
  BY DEF AccountsInv, Grows, UsersGrow, InvitesGrow, RowsMade, InvitesSpent, InviteOnce, Present
<1>3. ASSUME NEW h \in Handlers PROVE Holds(call[h])'
  <2>1. Holds(call'[h])
    BY DEF AccountsInv
  <2>2. ASSUME NEW c, c = call'[h] PROVE Holds(c)'
    BY <2>1, <2>2, HoldsOn
  <2> QED
    BY <2>2 DEF Holds, Present
<1> QED
  BY <1>1, <1>2, <1>3 DEF AccountsInv

LEMMA TablesGrow == ASSUME AccountsInv, UNCHANGED <<user, org, invite, reset, wrong>>, deaths' \in 0..MaxAborts PROVE Grows
  BY DEF AccountsInv, TypeOK, RowsMade, InvitesSpent, Present, Grows, UsersGrow, InvitesGrow, RestTyped,
         Invitation, Organization

-----------------------------------------------------------------------------
(* The calls that read: a handler goes on with what it holds. *)
ReadOn(h) ==
  /\ UNCHANGED <<user, org, invite, reset, wrong, joined>> /\ deaths' \in 0..MaxAborts
  /\ \E c \in Flight : Holds(c) /\ Goes(h, c)

Reading(h) ==
  \/ RefusedSuspended(h) \/ InsertRefused(h) \/ CountOwners(h) \/ Abort(h)
  \/ \E u \in Users :
       LoginRead(h, u) \/ AdminLoginRead(h, u) \/ CodeRead(h, u) \/ RegisterRead(h, u) \/ TransferRead(h, u)
  \/ \E t \in Resets : ResetRead(h, t)
  \/ \E i \in Invites : AcceptRead(h, i)
  \/ \E by, u \in Users :
       RemoveRead(h, by, u) \/ \E role \in Roles : RoleRead(h, by, u, role) \/ InviteRead(h, by, u, role)

LEMMA IdleHolds == Holds(Idle)
  BY IdleType DEF Holds, OnAddress, OnAccount

LEMMA MovesReadOn ==
  ASSUME AccountsInv, NEW h \in Handlers, NEW c \in Flight, Holds(c), Moves(h, c)
  PROVE  ReadOn(h)
  BY DEF ReadOn, Moves, history, AccountsInv, TypeOK

LEMMA ReadsOn ==
  ASSUME AccountsInv, NEW h \in Handlers, Reading(h)
  PROVE  ReadOn(h)
<1>0. user \in [Users -> Row] /\ call[h] \in Flight /\ Holds(call[h])
  BY DEF AccountsInv, TypeOK
<1>1. CASE RefusedSuspended(h) \/ InsertRefused(h)
  BY <1>1, IdleHolds, IdleType, MovesReadOn DEF RefusedSuspended, InsertRefused
<1>2. CASE Abort(h)
  <2>1. deaths' \in 0..MaxAborts
    BY <1>2, AccountsAssumption DEF Abort, AccountsInv, TypeOK
  <2> QED
    BY <1>2, <2>1, IdleHolds, IdleType DEF Abort, ReadOn
<1>3. CASE CountOwners(h)
  <2> DEFINE c == [call[h] EXCEPT !.pc = "updateRole"]
  <2>1. c \in Flight /\ c.pc = "updateRole" /\ c.user = call[h].user
    BY <1>0 DEF Flight, Pcs
  <2>2. call[h].pc = "countOwners" /\ (Moves(h, c) \/ Moves(h, Idle))
    BY <1>3 DEF CountOwners
  <2> HIDE DEF c
  <2>3. Holds(c)
    BY <1>0, <2>1, <2>2 DEF Holds, OnAddress, OnAccount
  <2> QED
    BY <2>1, <2>2, <2>3, IdleHolds, IdleType, MovesReadOn
<1>4. Idle \in Flight /\ (\A u \in Users : user[u] \in Row)
  BY <1>0, IdleType
<1>5. ASSUME NEW u \in Users PROVE u \in Users \cup {None} /\ user[u].org \in Orgs \cup {None}
                                   /\ user[u].suspended \in BOOLEAN
                                   /\ \A c \in Counts : user[u].failed[c] \in Nat
  BY <1>4 DEF Row
<1>7. ASSUME NEW u \in Users, LoginRead(h, u) \/ AdminLoginRead(h, u) PROVE ReadOn(h)
  <2> DEFINE n == user[u].failed["password"]
             b == user[u].suspended
             c == [Idle EXCEPT !.pc = "password", !.user = u, !.failed = n, !.suspended = b]
  <2>1. Moves(h, c) /\ Present(u)
    BY <1>7 DEF LoginRead, AdminLoginRead
  <2>2. n \in Nat /\ b \in BOOLEAN
    BY <1>5 DEF Counts
  <2> HIDE DEF n, b
  <2>3. c \in Flight /\ c.pc = "password" /\ c.user = u
    BY <1>4, <2>2 DEF Flight, Pcs
  <2> HIDE DEF c
  <2>4. Holds(c)
    BY <2>1, <2>3 DEF Holds, OnAddress, OnAccount
  <2> QED
    BY <2>1, <2>3, <2>4, MovesReadOn
<1>8. ASSUME NEW u \in Users, CodeRead(h, u) PROVE ReadOn(h)
  <2> DEFINE n == user[u].failed["code"]
             c == [Idle EXCEPT !.pc = "code", !.user = u, !.failed = n]
  <2>1. Moves(h, c) /\ user[u].challenge
    BY <1>8 DEF CodeRead
  <2>2. n \in Nat
    BY <1>5 DEF Counts
  <2> HIDE DEF n
  <2>3. c \in Flight /\ c.pc = "code" /\ c.user = u
    BY <1>4, <2>2 DEF Flight, Pcs
  <2> HIDE DEF c
  <2>4. Present(u)
    BY <2>1, NoUserType DEF AccountsInv, RowsMade
  <2>5. Holds(c)
    BY <2>3, <2>4 DEF Holds, OnAddress, OnAccount
  <2> QED
    BY <2>1, <2>3, <2>5, MovesReadOn
<1>9. ASSUME NEW u \in Users, RegisterRead(h, u) PROVE ReadOn(h)
  <2> DEFINE c == [Idle EXCEPT !.pc = "register", !.user = u]
  <2>1. Moves(h, c)
    BY <1>9 DEF RegisterRead
  <2>2. c \in Flight /\ c.pc = "register" /\ c.user = u
    BY <1>4 DEF Flight, Pcs
  <2> HIDE DEF c
  <2>3. Holds(c)
    BY <2>2 DEF Holds, OnAddress, OnAccount
  <2> QED
    BY <2>1, <2>2, <2>3, MovesReadOn
<1>10. ASSUME NEW u \in Users, TransferRead(h, u) PROVE ReadOn(h)
  <2> DEFINE o == user[u].org
             c == [Idle EXCEPT !.pc = "transfer", !.user = u, !.org = o]
  <2>1. Moves(h, c) /\ Present(u)
    BY <1>10 DEF TransferRead
  <2>2. o \in Orgs \cup {None}
    BY <1>5
  <2> HIDE DEF o
  <2>3. c \in Flight /\ c.pc = "transfer" /\ c.user = u
    BY <1>4, <2>2 DEF Flight, Pcs
  <2> HIDE DEF c
  <2>4. Holds(c)
    BY <2>1, <2>3 DEF Holds, OnAddress, OnAccount
  <2> QED
    BY <2>1, <2>3, <2>4, MovesReadOn
<1>11. ASSUME NEW t \in Resets, ResetRead(h, t) PROVE ReadOn(h)
  <2> DEFINE c == [Idle EXCEPT !.pc = "resetPassword", !.token = t]
  <2>1. Moves(h, c)
    BY <1>11 DEF ResetRead
  <2>2. c \in Flight /\ c.pc = "resetPassword" /\ c.token = t
    BY <1>4 DEF Flight, Pcs
  <2> HIDE DEF c
  <2>3. Holds(c)
    BY <2>2 DEF Holds, OnAddress, OnAccount
  <2> QED
    BY <2>1, <2>2, <2>3, MovesReadOn
<1>12. ASSUME NEW i \in Invites, AcceptRead(h, i) PROVE ReadOn(h)
  <2> DEFINE u == invite[i].user
             c == [Idle EXCEPT !.pc = "acceptInvite", !.user = u, !.token = i]
  <2>1. Moves(h, c) /\ invite[i].status # "ABSENT"
    BY <1>12 DEF AcceptRead
  <2>2. u \in Users /\ u = invite[i].user
    BY <2>1 DEF AccountsInv, InvitesSpent
  <2> HIDE DEF u
  <2>3. c \in Flight /\ c.pc = "acceptInvite" /\ c.token = i /\ c.user = u
    BY <1>4, <2>2 DEF Flight, Pcs
  <2> HIDE DEF c
  <2>4. Holds(c)
    BY <2>1, <2>2, <2>3 DEF Holds, OnAddress, OnAccount
  <2> QED
    BY <2>1, <2>3, <2>4, MovesReadOn
<1>13. ASSUME NEW by \in Users, NEW u \in Users, RemoveRead(h, by, u) PROVE ReadOn(h)
  <2> DEFINE c == [Idle EXCEPT !.pc = "removeMember", !.user = u]
  <2>1. Moves(h, c) /\ Present(u)
    BY <1>13 DEF RemoveRead, SameOrg
  <2>2. c \in Flight /\ c.pc = "removeMember" /\ c.user = u
    BY <1>4 DEF Flight, Pcs
  <2> HIDE DEF c
  <2>3. Holds(c)
    BY <2>1, <2>2 DEF Holds, OnAddress, OnAccount
  <2> QED
    BY <2>1, <2>2, <2>3, MovesReadOn
<1>14. ASSUME NEW by \in Users, NEW u \in Users, NEW role \in Roles, RoleRead(h, by, u, role) PROVE ReadOn(h)
  <2> DEFINE o == user[u].org
             pc == IF user[u].role = "OWNER" /\ role # "OWNER" THEN "countOwners" ELSE "updateRole"
             c == [Idle EXCEPT !.user = u, !.org = o, !.role = role, !.pc = pc]
  <2>1. Moves(h, c) /\ Present(u)
    BY <1>14 DEF RoleRead, SameOrg
  <2>2. o \in Orgs \cup {None} /\ pc \in OnAccount /\ pc \in Pcs /\ pc # "acceptInvite" /\ pc # "resetPassword"
    BY <1>5 DEF OnAccount, Pcs
  <2> HIDE DEF o, pc
  <2>3. c \in Flight /\ c.pc = pc /\ c.user = u
    BY <1>4, <2>2 DEF Flight
  <2> HIDE DEF c
  <2>4. Holds(c)
    BY <2>1, <2>2, <2>3 DEF Holds
  <2> QED
    BY <2>1, <2>3, <2>4, MovesReadOn
<1>15. ASSUME NEW by \in Users, NEW u \in Users, NEW role \in Roles, InviteRead(h, by, u, role) PROVE ReadOn(h)
  <2> DEFINE o == user[by].org
             c == [Idle EXCEPT !.pc = "invite", !.user = u, !.org = o, !.role = role]
  <2>1. Moves(h, c)
    BY <1>15 DEF InviteRead
  <2>2. o \in Orgs \cup {None}
    BY <1>5
  <2> HIDE DEF o
  <2>3. c \in Flight /\ c.pc = "invite" /\ c.user = u
    BY <1>4, <2>2 DEF Flight, Pcs
  <2> HIDE DEF c
  <2>4. Holds(c)
    BY <2>3 DEF Holds, OnAddress, OnAccount
  <2> QED
    BY <2>1, <2>3, <2>4, MovesReadOn
<1> QED
  BY <1>1, <1>2, <1>3, <1>7, <1>8, <1>9, <1>10, <1>11, <1>12, <1>13, <1>14, <1>15 DEF Reading

-----------------------------------------------------------------------------
(* The calls that write. *)
LEMMA RowGrows ==
  ASSUME AccountsInv, NEW u \in Users, NEW r \in Row, r.present, user' = [user EXCEPT ![u] = r]
  PROVE  UsersGrow
  BY DEF AccountsInv, TypeOK, RowsMade, UsersGrow, Present

LEMMA UsersSame == ASSUME AccountsInv, user' = user PROVE UsersGrow
  BY DEF AccountsInv, TypeOK, RowsMade, UsersGrow, Present

LEMMA InvitesSame == ASSUME AccountsInv, invite' = invite PROVE InvitesGrow
  BY DEF AccountsInv, TypeOK, InvitesSpent, InvitesGrow, Invitation

LEMMA RestSame == ASSUME AccountsInv, UNCHANGED <<org, reset, wrong, deaths>> PROVE RestTyped
  BY DEF AccountsInv, TypeOK, RestTyped, Organization

LEMMA CallKept ==
  ASSUME AccountsInv, call' = call \/ \E h \in Handlers : Goes(h, Idle)
  PROVE  call' \in [Handlers -> Flight] /\ \A g \in Handlers : call'[g] = call[g] \/ Holds(call'[g])
  BY IdleType, IdleHolds DEF Goes, AccountsInv, TypeOK

(* Rows of an account that stays one. *)
LEMMA SetsRow ==
  ASSUME AccountsInv, NEW u \in Users, NEW r \in Row, r.present,
         user' = [user EXCEPT ![u] = r], UNCHANGED <<org, invite, reset, joined, deaths>>,
         wrong' \in [Users -> [Counts -> Nat]], call' = call \/ \E h \in Handlers : Goes(h, Idle)
  PROVE  AccountsInv'
<1>1. RestTyped
  BY DEF AccountsInv, TypeOK, RestTyped, Organization
<1> QED
  BY <1>1, RowGrows, InvitesSame, CallKept, GrowsKeeps DEF Grows

LEMMA FailsKeeps ==
  ASSUME AccountsInv, NEW h \in Handlers, NEW pc \in Counts, Fails(h, pc)
  PROVE  AccountsInv'
<1> DEFINE u == call[h].user
           n == call[h].failed
           r == Missed(user[u], pc, n)
<1>1. u \in Users /\ Present(u) /\ n \in Nat /\ user[u] \in Row /\ user \in [Users -> Row]
  <2>1. call[h] \in Flight /\ call[h].pc = pc /\ Holds(call[h]) /\ user \in [Users -> Row]
    BY DEF Fails, AccountsInv, TypeOK
  <2>2. u \in Users /\ Present(u)
    BY <2>1 DEF Holds, OnAddress, OnAccount, Counts
  <2> QED
    BY <2>1, <2>2 DEF Flight
<1>2. r \in Row /\ r.present
  BY <1>1, MissedType DEF Present
<1>3. user' = [user EXCEPT ![u] = r] /\ UNCHANGED <<org, invite, reset, joined, deaths>> /\ Goes(h, Idle)
  BY DEF Fails
<1>4. wrong' \in [Users -> [Counts -> Nat]]
  <2> DEFINE m == IF user'[u].locked[pc] THEN 0 ELSE wrong[u][pc] + 1
  <2>1. wrong \in [Users -> [Counts -> Nat]]
    BY DEF AccountsInv, TypeOK
  <2>2. wrong' = [wrong EXCEPT ![u] = [wrong[u] EXCEPT ![pc] = m]]
    BY DEF Fails
  <2>3. m \in Nat
    BY <1>1, <2>1
  <2> HIDE DEF m
  <2>4. [wrong[u] EXCEPT ![pc] = m] \in [Counts -> Nat]
    BY <1>1, <2>1, <2>3
  <2> HIDE DEF u
  <2> QED
    BY <1>1, <2>1, <2>2, <2>4
<1> HIDE DEF u, r
<1> QED
  BY <1>1, <1>2, <1>3, <1>4, SetsRow

(* A history of failures that starts again. *)
LEMMA WrongStarts ==
  ASSUME AccountsInv, NEW u \in Users, NEW c \in Counts, wrong' = [wrong EXCEPT ![u][c] = 0]
  PROVE  wrong' \in [Users -> [Counts -> Nat]]
<1>1. wrong \in [Users -> [Counts -> Nat]] /\ wrong' = [wrong EXCEPT ![u] = [wrong[u] EXCEPT ![c] = 0]]
  BY DEF AccountsInv, TypeOK
<1>2. [wrong[u] EXCEPT ![c] = 0] \in [Counts -> Nat]
  BY <1>1
<1> QED
  BY <1>1, <1>2

LEMMA SuccessKeeps ==
  ASSUME AccountsInv, NEW h \in Handlers, RightPassword(h) \/ RightCode(h)
  PROVE  AccountsInv'
<1> DEFINE u == call[h].user
<1>1. u \in Users /\ Present(u) /\ user[u] \in Row
  <2>1. call[h].pc \in {"password", "code"} /\ Holds(call[h]) /\ user \in [Users -> Row]
    BY DEF RightPassword, RightCode, AccountsInv, TypeOK
  <2> QED
    BY <2>1 DEF Holds, OnAddress, OnAccount
<1>2. CASE RightPassword(h)
  <2> DEFINE q == Cleared(user[u], "password")
             b == q.challenge \/ u \in Mfa
             r == [q EXCEPT !.challenge = b]
  <2>1. q \in Row /\ q.present
    BY <1>1, ClearedType DEF Present, Counts
  <2>2. user' = [user EXCEPT ![u] = r] /\ UNCHANGED <<org, invite, reset, joined, deaths>> /\ Goes(h, Idle)
        /\ wrong' = [wrong EXCEPT ![u]["password"] = 0]
    BY <1>2 DEF RightPassword
  <2> HIDE DEF q, u
  <2>3. b \in BOOLEAN
    BY <2>1 DEF Row
  <2> HIDE DEF b
  <2>4. r \in Row /\ r.present
    BY <2>1, <2>3 DEF Row
  <2> HIDE DEF r
  <2> QED
    BY <1>1, <2>2, <2>4, SetsRow, WrongStarts DEF Counts
<1>3. CASE RightCode(h)
  <2> DEFINE r == Cleared(user[u], "code")
  <2>1. r \in Row /\ r.present
    BY <1>1, ClearedType DEF Present, Counts
  <2>2. user' = [user EXCEPT ![u] = r] /\ UNCHANGED <<org, invite, reset, joined, deaths>> /\ Goes(h, Idle)
        /\ wrong' = [wrong EXCEPT ![u]["code"] = 0]
    BY <1>3 DEF RightCode
  <2> HIDE DEF r, u
  <2> QED
    BY <1>1, <2>1, <2>2, SetsRow, WrongStarts DEF Counts
<1> QED
  BY <1>2, <1>3

LEMMA RowsKeep ==
  ASSUME AccountsInv, NEW u \in Users,
         \/ ChallengeEnds(u) \/ \E c \in Counts : LockEnds(u, c)
         \/ \E h \in Handlers : Unlock(h, u) \/ \E on \in BOOLEAN : SetSuspended(h, u, on)
  PROVE  AccountsInv'
<1>0. user \in [Users -> Row] /\ user[u] \in Row /\ wrong \in [Users -> [Counts -> Nat]]
      /\ NoUser.failed \in [Counts -> Nat] /\ NoUser.locked \in [Counts -> BOOLEAN]
  BY NoUserType DEF AccountsInv, TypeOK, Row
<1>1. ASSUME NEW h \in Handlers, Unlock(h, u) PROVE AccountsInv'
  <2> DEFINE f == NoUser.failed
             l == NoUser.locked
             r == [user[u] EXCEPT !.failed = f, !.locked = l]
  <2>1. /\ user' = [user EXCEPT ![u] = r] /\ UNCHANGED <<org, invite, reset, call, joined, deaths>>
        /\ wrong' = [wrong EXCEPT ![u] = [c \in Counts |-> 0]] /\ user[u].present
    BY <1>0, <1>1 DEF Unlock, Present
  <2>0. f \in [Counts -> Nat] /\ l \in [Counts -> BOOLEAN]
    BY <1>0
  <2> HIDE DEF f, l
  <2>2. r \in Row /\ r.present
    BY <1>0, <2>0, <2>1 DEF Row
  <2>3. wrong' \in [Users -> [Counts -> Nat]]
    BY <1>0, <2>1
  <2> HIDE DEF r
  <2> QED
    BY <2>1, <2>2, <2>3, SetsRow
<1>2. CASE ChallengeEnds(u)
  <2> DEFINE r == [user[u] EXCEPT !.challenge = FALSE]
  <2>1. /\ user' = [user EXCEPT ![u] = r] /\ UNCHANGED <<org, invite, reset, call, history>>
        /\ user[u].challenge
    BY <1>2 DEF ChallengeEnds
  <2>2. r \in Row /\ r.present
    BY <1>0, <2>1, NoUserType DEF Row, AccountsInv, RowsMade, Present
  <2> HIDE DEF r
  <2> QED
    BY <1>0, <2>1, <2>2, SetsRow DEF history
<1>3. ASSUME NEW c \in Counts, LockEnds(u, c) PROVE AccountsInv'
  <2> DEFINE l == [user[u].locked EXCEPT ![c] = FALSE]
             r == [user[u] EXCEPT !.locked = l]
  <2>1. /\ user' = [user EXCEPT ![u] = r] /\ UNCHANGED <<org, invite, reset, call, history>>
        /\ user[u].locked[c]
    BY <1>3 DEF LockEnds
  <2>2. user[u].present
    <3>1. user[u] # NoUser
      BY <2>1 DEF NoUser
    <3> QED
      BY <3>1 DEF AccountsInv, RowsMade, Present
  <2>3. l \in [Counts -> BOOLEAN]
    BY <1>0 DEF Row
  <2> HIDE DEF l
  <2>4. r \in Row /\ r.present
    BY <1>0, <2>2, <2>3 DEF Row
  <2> HIDE DEF r
  <2> QED
    BY <1>0, <2>1, <2>4, SetsRow DEF history
<1>4. ASSUME NEW h \in Handlers, NEW on \in BOOLEAN, SetSuspended(h, u, on) PROVE AccountsInv'
  <2> DEFINE r == [user[u] EXCEPT !.suspended = on]
  <2>1. /\ user' = [user EXCEPT ![u] = r] /\ UNCHANGED <<org, invite, reset, call, history>>
        /\ user[u].present
    BY <1>4 DEF SetSuspended, Present
  <2>2. r \in Row /\ r.present
    BY <1>0, <2>1 DEF Row
  <2> HIDE DEF r
  <2> QED
    BY <1>0, <2>1, <2>2, SetsRow DEF history
<1> QED
  BY <1>1, <1>2, <1>3, <1>4

(* Registration: the organization is made with its owner. *)
LEMMA RegisterKeeps ==
  ASSUME AccountsInv, NEW h \in Handlers, NEW o \in Orgs, RegisterWrite(h, o)
  PROVE  AccountsInv'
<1> DEFINE u == call[h].user
           r == [NoUser EXCEPT !.present = TRUE, !.org = o, !.role = "OWNER"]
<1>1. /\ user' = [user EXCEPT ![u] = r] /\ org' = [org EXCEPT ![o].present = TRUE]
      /\ UNCHANGED <<invite, reset, history>> /\ Goes(h, Idle) /\ u \in Users
  BY DEF RegisterWrite, AccountsInv, Holds, OnAddress
<1>2. r \in Row /\ r.present
  BY NoUserType DEF Row, Roles
<1> HIDE DEF u, r
<1>3. UsersGrow
  BY <1>1, <1>2, RowGrows
<1>4. org' \in [Orgs -> Organization]
  BY <1>1 DEF AccountsInv, TypeOK, Organization
<1>5. RestTyped
  BY <1>1, <1>4 DEF AccountsInv, TypeOK, RestTyped, history
<1> QED
  BY <1>1, <1>3, <1>5, InvitesSame, CallKept, GrowsKeeps DEF Grows, history

(* An invite is used by the write that makes its account, and by no other:  *)
(* the address had none, and every invite that has made one has its own.    *)
LEMMA AcceptKeeps ==
  ASSUME AccountsInv, NEW h \in Handlers, AcceptWrite(h)
  PROVE  AccountsInv'
<1> DEFINE u == call[h].user
           i == call[h].token
           inv == invite[i]
           r == [NoUser EXCEPT !.present = TRUE, !.org = inv.org, !.role = inv.role]
<1>1. /\ user' = [user EXCEPT ![u] = r] /\ invite' = [invite EXCEPT ![i].status = "USED"]
      /\ joined' = [joined EXCEPT ![i] = joined[i] + 1] /\ UNCHANGED <<org, reset, wrong, deaths>>
      /\ Goes(h, Idle) /\ ~user[u].present
  BY DEF AcceptWrite, Unused, Present
<1>2. i \in Invites /\ inv.status # "ABSENT" /\ u = inv.user /\ u \in Users
  BY DEF AcceptWrite, AccountsInv, Holds, OnAddress
<1>3. inv \in Invitation /\ invite \in [Invites -> Invitation]
  BY <1>2 DEF AccountsInv, TypeOK, Invitation
<1>4. r \in Row /\ r.present
  <2> DEFINE o == inv.org
             role == inv.role
  <2>1. o \in Orgs \cup {None} /\ role \in Roles
    BY <1>3 DEF Invitation
  <2> HIDE DEF inv, o, role
  <2>2. [NoUser EXCEPT !.present = TRUE, !.org = o, !.role = role] \in Row
        /\ [NoUser EXCEPT !.present = TRUE, !.org = o, !.role = role].present
    BY <2>1, NoUserType DEF Row
  <2> QED
    BY <2>2 DEF o, role
<1> HIDE DEF r
<1>5. UsersGrow
  BY <1>1, <1>2, <1>4, RowGrows
<1>6. /\ invite' \in [Invites -> Invitation]
      /\ \A j \in Invites : invite'[j].user = invite[j].user /\ (invite[j].status # "ABSENT" <=> invite'[j].status # "ABSENT")
  <2> DEFINE w == [inv EXCEPT !.status = "USED"]
  <2>1. invite' = [invite EXCEPT ![i] = w]
    BY <1>1
  <2>2. w \in Invitation /\ w.user = inv.user /\ w.status = "USED"
    BY <1>3 DEF Invitation, Tokens
  <2> HIDE DEF w, i
  <2> QED
    BY <1>2, <1>3, <2>1, <2>2
<1>7. InvitesGrow
  BY <1>6 DEF InvitesGrow, AccountsInv, InvitesSpent
<1>8. joined[i] = 0
  BY <1>1, <1>2 DEF AccountsInv, TypeOK, InvitesSpent, Present
<1>9. joined' \in [Invites -> Nat] /\ InviteOnce'
  BY <1>1, <1>2, <1>8 DEF AccountsInv, TypeOK, InviteOnce
<1>10. TypeOK'
  <2>1. call' \in [Handlers -> Flight]
    BY <1>1, CallKept
  <2> QED
    BY <1>1, <1>5, <1>6, <1>9, <2>1 DEF AccountsInv, TypeOK, UsersGrow, Invitation
<1>11. RowsMade'
  BY <1>5 DEF UsersGrow, RowsMade, Present
<1>12. InvitesSpent'
  <2> SUFFICES ASSUME NEW j \in Invites
               PROVE  /\ invite'[j].status # "ABSENT" => invite'[j].user \in Users
                      /\ joined'[j] > 0 => invite'[j].status # "ABSENT" /\ user'[invite'[j].user].present
    BY DEF InvitesSpent, Present
  <2>1. invite'[j].status # "ABSENT" => invite'[j].user \in Users
    BY <1>7 DEF InvitesGrow
  <2>2. CASE j = i
    <3>1. user'[u].present
      BY <1>1, <1>2, <1>4 DEF AccountsInv, TypeOK
    <3> HIDE DEF u, i
    <3> QED
      BY <1>2, <1>6, <2>1, <2>2, <3>1
  <2>3. CASE j # i
    <3>1. joined'[j] = joined[j]
      BY <1>1, <2>3 DEF AccountsInv, TypeOK
    <3> HIDE DEF u, i
    <3> QED
      BY <1>5, <1>6, <2>1, <3>1 DEF AccountsInv, InvitesSpent, UsersGrow, Present
  <2> QED
    BY <2>2, <2>3
<1>13. ASSUME NEW g \in Handlers PROVE Holds(call[g])'
  <2>1. Holds(call'[g])
    BY <1>1, CallKept DEF AccountsInv
  <2> HIDE DEF u, i
  <2> QED
    BY <1>5, <1>6, <2>1 DEF UsersGrow, Holds, Present, OnAddress, OnAccount
<1> QED
  BY <1>9, <1>10, <1>11, <1>12, <1>13 DEF AccountsInv

(* Removals and changes of role. *)
LEMMA TeamKeeps ==
  ASSUME AccountsInv, NEW h \in Handlers, RoleWrite(h) \/ RemoveWrite(h)
  PROVE  AccountsInv'
<1> DEFINE u == call[h].user
           role == call[h].role
<1>1. u \in Users /\ user[u].present /\ user[u] \in Row /\ role \in Roles
      /\ user \in [Users -> Row] /\ wrong \in [Users -> [Counts -> Nat]]
  <2>1. call[h].pc \in {"updateRole", "removeMember"} /\ Holds(call[h]) /\ user \in [Users -> Row]
        /\ call[h] \in Flight /\ wrong \in [Users -> [Counts -> Nat]]
    BY DEF RoleWrite, RemoveWrite, AccountsInv, TypeOK
  <2>2. u \in Users /\ Present(u)
    BY <2>1 DEF Holds, OnAddress, OnAccount
  <2> QED
    BY <2>1, <2>2 DEF Flight, Present
<1>2. CASE RoleWrite(h)
  <2> DEFINE r == [user[u] EXCEPT !.role = role]
  <2>1. user' = [user EXCEPT ![u] = r] /\ UNCHANGED <<org, invite, reset, history>> /\ Goes(h, Idle)
    BY <1>2 DEF RoleWrite, SetsUsers
  <2> HIDE DEF u, role
  <2>2. r \in Row /\ r.present
    BY <1>1 DEF Row
  <2> HIDE DEF r
  <2> QED
    BY <1>1, <2>1, <2>2, SetsRow DEF history
<1>3. CASE RemoveWrite(h)
  <2> DEFINE r == [user[u] EXCEPT !.suspended = TRUE]
  <2>1. user' = [user EXCEPT ![u] = r] /\ UNCHANGED <<org, invite, reset, history>> /\ Goes(h, Idle)
    BY <1>3 DEF RemoveWrite, SetsUsers
  <2> HIDE DEF u, role
  <2>2. r \in Row /\ r.present
    BY <1>1 DEF Row
  <2> HIDE DEF r
  <2> QED
    BY <1>1, <2>1, <2>2, SetsRow DEF history
<1> QED
  BY <1>2, <1>3

LEMMA TransferKeeps ==
  ASSUME AccountsInv, NEW h \in Handlers, TransferWrite(h)
  PROVE  AccountsInv'
<1> DEFINE row(u) == IF u = call[h].user THEN [user[u] EXCEPT !.role = "OWNER"]
                     ELSE IF u \in Owners(call[h].org) THEN [user[u] EXCEPT !.role = "MANAGER"]
                     ELSE user[u]
<1>1. user' = [u \in Users |-> row(u)] /\ UNCHANGED <<org, invite, reset, history>> /\ Goes(h, Idle)
  BY DEF TransferWrite, SetsUsers
<1>2. Present(call[h].user)
  BY DEF TransferWrite, AccountsInv, Holds, OnAddress, OnAccount
<1>3. ASSUME NEW u \in Users
      PROVE  row(u) \in Row /\ (Present(u) => row(u).present) /\ (row(u).present \/ row(u) = NoUser)
  <2>0. user[u] \in Row /\ (Present(u) \/ user[u] = NoUser)
    BY DEF AccountsInv, TypeOK, RowsMade
  <2>1. \A role \in Roles : [user[u] EXCEPT !.role = role] \in Row
                            /\ [user[u] EXCEPT !.role = role].present = user[u].present
    BY <2>0 DEF Row
  <2>2. CASE u = call[h].user
    BY <1>2, <2>1, <2>2 DEF Roles, Present
  <2>3. CASE u # call[h].user /\ u \in Owners(call[h].org)
    <3>1. Present(u) /\ row(u) = [user[u] EXCEPT !.role = "MANAGER"]
      BY <2>3 DEF Owners
    <3>2. "MANAGER" \in Roles
      BY DEF Roles
    <3> HIDE DEF row
    <3>3. row(u) \in Row /\ row(u).present = user[u].present
      BY <2>1, <3>1, <3>2
    <3> QED
      BY <3>1, <3>3 DEF Present
  <2>4. CASE u # call[h].user /\ u \notin Owners(call[h].org)
    <3>1. row(u) = user[u]
      BY <2>4
    <3> HIDE DEF row
    <3> QED
      BY <2>0, <3>1 DEF Present
  <2> QED
    BY <2>2, <2>3, <2>4
<1> HIDE DEF row
<1>4. UsersGrow
  BY <1>1, <1>3 DEF UsersGrow
<1> QED
  BY <1>1, <1>4, InvitesSame, RestSame, CallKept, GrowsKeeps DEF Grows, history

LEMMA TokensKeep ==
  ASSUME AccountsInv,
         \/ TokenExpires
         \/ \E h \in Handlers :
              \/ ResetWrite(h)
              \/ \E i \in Invites : InviteWrite(h, i)
              \/ \E u \in Users, t \in Resets : RequestReset(h, u, t)
              \/ \E o \in Orgs : Reactivate(h, o) \/ \E f \in Flags : SetFlag(h, o, f)
  PROVE  AccountsInv'
<1> DEFINE Reset == [status: Tokens, user: Users \cup {None}]
<1>0. reset \in [Resets -> Reset] /\ invite \in [Invites -> Invitation] /\ org \in [Orgs -> Organization]
      /\ \A h \in Handlers : call[h] \in Flight /\ Holds(call[h])
  BY DEF AccountsInv, TypeOK, Invitation, Organization
<1>1. ASSUME UNCHANGED <<user, invite, org, history>>, reset' \in [Resets -> Reset],
             call' = call \/ \E h \in Handlers : Goes(h, Idle)
      PROVE  AccountsInv'
  <2>1. RestTyped
    BY <1>1 DEF AccountsInv, TypeOK, RestTyped, Organization, history
  <2> QED
    BY <1>1, <2>1, UsersSame, InvitesSame, CallKept, GrowsKeeps DEF Grows, history
<1>2. ASSUME UNCHANGED <<user, invite, reset, call, history>>, org' \in [Orgs -> Organization]
      PROVE  AccountsInv'
  <2>1. RestTyped
    BY <1>2 DEF AccountsInv, TypeOK, RestTyped, history
  <2> QED
    BY <1>2, <2>1, UsersSame, InvitesSame, CallKept, GrowsKeeps DEF Grows, history
<1>3. ASSUME UNCHANGED <<user, reset, org, history>>, call' = call \/ \E h \in Handlers : Goes(h, Idle), NEW i \in Invites,
             NEW w \in Invitation, invite' = [invite EXCEPT ![i] = w], w.status # "ABSENT", w.user \in Users,
             invite[i].status # "ABSENT" => w.user = invite[i].user
      PROVE  AccountsInv'
  <2>1. invite' \in [Invites -> Invitation]
        /\ \A j \in Invites : invite'[j] = IF j = i THEN w ELSE invite[j]
    BY <1>0, <1>3
  <2>2. InvitesGrow
    BY <1>3, <2>1 DEF InvitesGrow, AccountsInv, InvitesSpent
  <2> QED
    BY <1>3, <2>2, UsersSame, RestSame, CallKept, GrowsKeeps DEF Grows, history
<1>4. ASSUME NEW h \in Handlers, ResetWrite(h) PROVE AccountsInv'
  <2>1. reset' \in [Resets -> Reset]
    BY <1>0, <1>4 DEF ResetWrite, Tokens
  <2> QED
    BY <1>1, <1>4, <2>1 DEF ResetWrite
<1>5. ASSUME NEW h \in Handlers, NEW u \in Users, NEW t \in Resets, RequestReset(h, u, t) PROVE AccountsInv'
  <2>1. reset' \in [Resets -> Reset]
    BY <1>0, <1>5 DEF RequestReset, Tokens
  <2> QED
    BY <1>1, <1>5, <2>1 DEF RequestReset
<1>6. ASSUME NEW h \in Handlers, NEW o \in Orgs, Reactivate(h, o) \/ \E f \in Flags : SetFlag(h, o, f) PROVE AccountsInv'
  <2>1. org' \in [Orgs -> Organization]
    BY <1>0, <1>6 DEF Reactivate, SetFlag, Organization
  <2> QED
    BY <1>2, <1>6, <2>1 DEF Reactivate, SetFlag
<1>7. ASSUME NEW h \in Handlers, NEW i \in Invites, InviteWrite(h, i) PROVE AccountsInv'
  <2> DEFINE w == [status |-> "OPEN", user |-> call[h].user, role |-> call[h].role, org |-> call[h].org]
  <2>1. /\ invite' = [invite EXCEPT ![i] = w] /\ UNCHANGED <<user, org, reset, history>> /\ Goes(h, Idle)
        /\ invite[i].status = "ABSENT" /\ call[h].user \in Users
    BY <1>0, <1>7 DEF InviteWrite, Holds, OnAddress
  <2>2. w \in Invitation /\ w.status # "ABSENT" /\ w.user \in Users
    BY <1>0, <2>1 DEF Invitation, Tokens, Flight
  <2> HIDE DEF w
  <2> QED
    BY <1>3, <2>1, <2>2
<1>8. CASE TokenExpires
  <2>1. ASSUME NEW i \in Invites, invite[i].status = "OPEN", invite' = [invite EXCEPT ![i].status = "EXPIRED"],
               reset' = reset
        PROVE  AccountsInv'
    <3> DEFINE w == [invite[i] EXCEPT !.status = "EXPIRED"]
    <3>1. w \in Invitation /\ w.status = "EXPIRED" /\ w.user = invite[i].user
      BY <1>0, <2>1 DEF Invitation, Tokens
    <3>2. w.user \in Users
      BY <2>1, <3>1 DEF AccountsInv, InvitesSpent
    <3>3. invite' = [invite EXCEPT ![i] = w] /\ UNCHANGED <<user, org, call, history>>
      BY <1>8, <2>1 DEF TokenExpires
    <3> HIDE DEF w
    <3> QED
      BY <1>3, <2>1, <3>1, <3>2, <3>3
  <2>2. ASSUME NEW t \in Resets, reset' = [reset EXCEPT ![t].status = "EXPIRED"], invite' = invite
        PROVE  AccountsInv'
    <3>1. reset' \in [Resets -> Reset]
      BY <1>0, <2>2 DEF Tokens
    <3>2. UNCHANGED <<user, org, call, history>>
      BY <1>8 DEF TokenExpires
    <3> QED
      BY <1>1, <2>2, <3>1, <3>2
  <2> QED
    BY <1>8, <2>1, <2>2 DEF TokenExpires
<1> QED
  BY <1>4, <1>5, <1>6, <1>7, <1>8

LEMMA ReadKeeps == ASSUME AccountsInv, NEW h \in Handlers, Reading(h) PROVE AccountsInv'
<1>1. ReadOn(h)
  BY ReadsOn
<1>2. UNCHANGED <<user, org, invite, reset, wrong, joined>> /\ deaths' \in 0..MaxAborts
      /\ \E c \in Flight : Holds(c) /\ Goes(h, c)
  BY <1>1 DEF ReadOn
<1>3. call' \in [Handlers -> Flight] /\ \A g \in Handlers : call'[g] = call[g] \/ Holds(call'[g])
  BY <1>2 DEF Goes, AccountsInv, TypeOK
<1> QED
  BY <1>2, <1>3, TablesGrow, GrowsKeeps

LEMMA StutterKeeps == ASSUME AccountsInv, UNCHANGED vars PROVE AccountsInv'
<1> USE DEF vars
<1>1. call' \in [Handlers -> Flight] /\ deaths' \in 0..MaxAborts
  BY DEF AccountsInv, TypeOK
<1> QED
  BY <1>1, TablesGrow, GrowsKeeps

LEMMA AccountsStep == ASSUME AccountsInv, [Next]_vars PROVE AccountsInv'
<1>1. ASSUME NEW h \in Handlers, Auth(h) PROVE AccountsInv'
  <2>1. CASE WrongPassword(h) \/ WrongCode(h)
    BY <2>1, FailsKeeps DEF WrongPassword, WrongCode, Counts
  <2>2. CASE RightPassword(h) \/ RightCode(h)
    BY <2>2, SuccessKeeps
  <2>3. CASE AcceptWrite(h)
    BY <2>3, AcceptKeeps
  <2>4. CASE \E o \in Orgs : RegisterWrite(h, o)
    BY <2>4, RegisterKeeps
  <2>5. CASE ResetWrite(h) \/ \E u \in Users, t \in Resets : RequestReset(h, u, t)
    BY <2>5, TokensKeep
  <2> QED
    BY <1>1, <2>1, <2>2, <2>3, <2>4, <2>5, ReadKeeps DEF Auth, Reading
<1>2. ASSUME NEW h \in Handlers, Team(h) PROVE AccountsInv'
  <2>1. CASE RoleWrite(h) \/ RemoveWrite(h)
    BY <2>1, TeamKeeps
  <2>2. CASE \E i \in Invites : InviteWrite(h, i)
    BY <2>2, TokensKeep
  <2> QED
    BY <1>2, <2>1, <2>2, ReadKeeps DEF Team, Reading
<1>3. ASSUME NEW h \in Handlers, Admin(h) PROVE AccountsInv'
  <2>1. CASE TransferWrite(h)
    BY <2>1, TransferKeeps
  <2>2. CASE \E o \in Orgs : Reactivate(h, o) \/ \E f \in Flags : SetFlag(h, o, f)
    BY <2>2, TokensKeep
  <2>3. CASE \E u \in Users : Unlock(h, u) \/ \E on \in BOOLEAN : SetSuspended(h, u, on)
    BY <2>3, RowsKeep
  <2> QED
    BY <1>3, <2>1, <2>2, <2>3, ReadKeeps DEF Admin, Reading
<1>4. CASE Time
  BY <1>4, TokensKeep, RowsKeep DEF Time
<1>5. ASSUME NEW h \in Handlers, Abort(h) PROVE AccountsInv'
  BY <1>5, ReadKeeps DEF Reading
<1> QED
  BY <1>1, <1>2, <1>3, <1>4, <1>5, StutterKeeps DEF Next

-----------------------------------------------------------------------------
(* Rows, tokens and what the handlers hold keep their types, however the   *)
(* handlers of AuthService, TeamService and the admin services overlap.    *)
THEOREM TypeCorrect == Spec => []TypeOK
<1>1. AccountsInv => TypeOK
  BY DEF AccountsInv
<1> QED
  BY <1>1, AccountsInit, AccountsStep, PTL DEF Spec

(* An invite makes one account at most, however many acceptInvite read its *)
(* status before the first of them writes it.                              *)
THEOREM InvitedOnce == Spec => []InviteOnce
<1>1. AccountsInv => InviteOnce
  BY DEF AccountsInv
<1> QED
  BY <1>1, AccountsInit, AccountsStep, PTL DEF Spec

-----------------------------------------------------------------------------
(* One handler at a time: what it has read is still true when it writes,   *)
(* but for the counters, which an unlock by another may have cleared.      *)
AtMostOne == \A g, h \in Handlers : g # h => call[g].pc = "idle" \/ call[h].pc = "idle"

(* Whose role changes is of the organization that was counted, and another *)
(* owner stays if an owner goes.                                           *)
CarriesRole(c) ==
  c.pc \in {"countOwners", "updateRole", "transfer"} =>
    /\ c.user \in Users /\ Present(c.user) /\ user[c.user].org = c.org
    /\ c.pc = "updateRole" =>
         \/ c.role = "OWNER" \/ user[c.user].role # "OWNER"
         \/ \E v \in Owners(c.org) : v # c.user

(* The failures that were read are not behind those there were since. *)
CarriesCount(c) ==
  c.pc \in Counts => c.user \in Users /\ wrong[c.user][c.pc] <= c.failed /\ c.failed < MaxFailed

Carries(c) == CarriesRole(c) /\ CarriesCount(c)

(* The row's counter is not behind the failures there were. *)
CountsKept == \A u \in Users, c \in Counts : wrong[u][c] <= user[u].failed[c] /\ user[u].failed[c] < MaxFailed

CountsInv == AccountsInv /\ CountsKept

SerialInv == CountsInv /\ OwnerRemains /\ \A h \in Handlers : Carries(call[h])

(* A step that touches neither roles nor counters. *)
Quiet ==
  /\ \A u \in Users : /\ user'[u].present = user[u].present /\ user'[u].org = user[u].org
                      /\ user'[u].role = user[u].role /\ user'[u].failed = user[u].failed
  /\ wrong' = wrong
  /\ \A o \in Orgs : org'[o].present => org[o].present

Writing ==
  \E h \in Handlers :
    \/ \E pc \in Counts : Fails(h, pc)
    \/ RightPassword(h) \/ RightCode(h) \/ AcceptWrite(h) \/ RoleWrite(h) \/ TransferWrite(h)
    \/ \E o \in Orgs : RegisterWrite(h, o)
    \/ \E u \in Users : Unlock(h, u)

LEMMA IdleCarries == ASSUME NEW c, c.pc = "idle" PROVE Carries(c)
  BY DEF Carries, CarriesRole, CarriesCount, Counts

LEMMA SerialInit == Init => SerialInv
<1> SUFFICES ASSUME Init PROVE SerialInv
  OBVIOUS
<1>1. AccountsInv
  BY AccountsInit
<1>2. OwnerRemains
  BY DEF Init, OwnerRemains
<1>3. \A u \in Users, c \in Counts : user[u].failed[c] = 0
  <2> TAKE u \in Users
  <2>1. user[u] = [NoUser EXCEPT !.present = u \in Admins]
    BY DEF Init
  <2>2. user[u].failed = NoUser.failed
    BY <2>1, NoUserType DEF Row
  <2> QED
    BY <2>2, NoUserType
<1>4. CountsKept
  BY <1>3, AccountsAssumption DEF CountsKept, Init
<1> QED
  BY <1>1, <1>2, <1>4, IdleCarries, IdleType DEF CountsInv, SerialInv, Init

(* One row changes, and not in what is read here. *)
LEMMA RowQuiet ==
  ASSUME AccountsInv, NEW u \in Users, NEW r, user' = [user EXCEPT ![u] = r],
         r.present = user[u].present, r.org = user[u].org, r.role = user[u].role, r.failed = user[u].failed,
         wrong' = wrong, org' = org
  PROVE  Quiet
  BY DEF AccountsInv, TypeOK, Quiet

LEMMA SameQuiet ==
  ASSUME UNCHANGED <<user, wrong>>, \A o \in Orgs : org'[o].present => org[o].present
  PROVE  Quiet
  BY DEF Quiet

LEMMA OrgQuiet ==
  ASSUME AccountsInv, NEW h \in Handlers, NEW o \in Orgs, Reactivate(h, o) \/ \E f \in Flags : SetFlag(h, o, f)
  PROVE  Quiet
<1>1. UNCHANGED <<user, wrong>> /\ \E F : org' = [org EXCEPT ![o].flags = F]
  BY DEF Reactivate, SetFlag, history
<1>2. PICK F : org' = [org EXCEPT ![o].flags = F]
  BY <1>1
<1>3. \A p \in Orgs : org'[p].present = org[p].present
  BY <1>2 DEF AccountsInv, TypeOK
<1> QED
  BY <1>1, <1>3, SameQuiet

LEMMA RowsQuiet ==
  ASSUME AccountsInv, NEW u \in Users,
         \/ ChallengeEnds(u) \/ \E c \in Counts : LockEnds(u, c)
         \/ \E h \in Handlers, on \in BOOLEAN : SetSuspended(h, u, on)
         \/ \E h \in Handlers : RemoveWrite(h) /\ u = call[h].user
  PROVE  Quiet
<1>0. user[u] \in Row
  BY DEF AccountsInv, TypeOK
<1> DEFINE Alike(r) == /\ r.present = user[u].present /\ r.org = user[u].org /\ r.role = user[u].role
                       /\ r.failed = user[u].failed
<1>1. \E r : user' = [user EXCEPT ![u] = r] /\ Alike(r)
  <2>1. CASE ChallengeEnds(u)
    <3> DEFINE r == [user[u] EXCEPT !.challenge = FALSE]
    <3>1. user' = [user EXCEPT ![u] = r]
      BY <2>1 DEF ChallengeEnds
    <3>2. Alike(r)
      BY <1>0 DEF Row
    <3> QED
      BY <3>1, <3>2
  <2>2. ASSUME NEW c \in Counts, LockEnds(u, c) PROVE \E r : user' = [user EXCEPT ![u] = r] /\ Alike(r)
    <3> DEFINE l == [user[u].locked EXCEPT ![c] = FALSE]
               r == [user[u] EXCEPT !.locked = l]
    <3>1. user' = [user EXCEPT ![u] = r]
      BY <2>2 DEF LockEnds
    <3> HIDE DEF l
    <3>2. Alike(r)
      BY <1>0 DEF Row
    <3> QED
      BY <3>1, <3>2
  <2>3. ASSUME NEW b \in BOOLEAN, user' = [user EXCEPT ![u].suspended = b]
        PROVE  \E r : user' = [user EXCEPT ![u] = r] /\ Alike(r)
    <3> DEFINE r == [user[u] EXCEPT !.suspended = b]
    <3>1. user' = [user EXCEPT ![u] = r]
      BY <2>3
    <3>2. Alike(r)
      BY <1>0 DEF Row
    <3> QED
      BY <3>1, <3>2
  <2> HIDE DEF Alike
  <2> QED
    BY <2>1, <2>2, <2>3 DEF SetSuspended, RemoveWrite, SetsUsers
<1>2. wrong' = wrong /\ org' = org
  BY DEF ChallengeEnds, LockEnds, SetSuspended, RemoveWrite, SetsUsers, history
<1> QED
  BY <1>1, <1>2, RowQuiet

LEMMA MostQuiet == ASSUME AccountsInv, [Next]_vars PROVE Quiet \/ Writing
<1>1. ASSUME NEW h \in Handlers, Reading(h) PROVE Quiet
  <2>1. UNCHANGED <<user, org, wrong>>
    BY <1>1, ReadsOn DEF ReadOn
  <2> QED
    BY <2>1, SameQuiet
<1>2. ASSUME NEW h \in Handlers,
             \/ ResetWrite(h) \/ TokenExpires \/ \E i \in Invites : InviteWrite(h, i)
             \/ \E u \in Users, t \in Resets : RequestReset(h, u, t)
      PROVE  Quiet
  <2>1. UNCHANGED <<user, org, wrong>>
    BY <1>2 DEF ResetWrite, InviteWrite, RequestReset, TokenExpires, history
  <2> QED
    BY <2>1, SameQuiet
<1>3. ASSUME NEW h \in Handlers, RemoveWrite(h) PROVE Quiet
  <2>1. call[h].user \in Users
    BY <1>3 DEF RemoveWrite, AccountsInv, Holds, OnAddress, OnAccount
  <2> QED
    BY <1>3, <2>1, RowsQuiet
<1>4. ASSUME NEW h \in Handlers, Auth(h) PROVE Quiet \/ Writing
  BY <1>1, <1>2, <1>4 DEF Auth, Reading, Writing, WrongPassword, WrongCode, Counts
<1>5. ASSUME NEW h \in Handlers, Team(h) PROVE Quiet \/ Writing
  BY <1>1, <1>2, <1>3, <1>5 DEF Team, Reading, Writing
<1>6. ASSUME NEW h \in Handlers, Admin(h) PROVE Quiet \/ Writing
  BY <1>1, <1>6, OrgQuiet, RowsQuiet DEF Admin, Reading, Writing
<1>7. CASE Time
  <2>1. CASE TokenExpires
    <3>1. UNCHANGED <<user, org, wrong>>
      BY <2>1 DEF TokenExpires, history
    <3> QED
      BY <3>1, SameQuiet
  <2> QED
    BY <1>7, <2>1, RowsQuiet DEF Time
<1>8. ASSUME NEW h \in Handlers, Abort(h) PROVE Quiet
  BY <1>1, <1>8 DEF Reading
<1>9. CASE UNCHANGED vars
  BY <1>9, SameQuiet DEF vars
<1> QED
  BY <1>4, <1>5, <1>6, <1>7, <1>8, <1>9 DEF Next

LEMMA NotOnlyOne == ASSUME NEW S, NEW x, Cardinality(S) > 1 PROVE \E v \in S : v # x
<1>1. Cardinality({}) = 0 /\ Cardinality({x}) = 1
  BY FS_EmptySet, FS_Singleton
<1>2. S # {} /\ S # {x}
  BY <1>1
<1> QED
  BY <1>2

LEMMA TwoOwn == ASSUME NEW o, NEW u, OthersOwn(o) PROVE \E v \in Owners(o) : v # u
  BY NotOnlyOne DEF OthersOwn

(* What the handlers are left with. *)
LEMMA CallSteps ==
  ASSUME SerialInv, [Next]_vars
  PROVE  call' = call \/ \E h \in Handlers, c \in Flight : Carries(c) /\ Goes(h, c)
<1> DEFINE Left == call' = call \/ \E h \in Handlers, c \in Flight : Carries(c) /\ Goes(h, c)
<1>0. Idle \in Flight /\ Carries(Idle) /\ AccountsInv /\ (\A u \in Users : user[u] \in Row)
      /\ \A h \in Handlers : call[h] \in Flight /\ Holds(call[h]) /\ Carries(call[h])
  BY IdleType, IdleCarries DEF CountsInv, SerialInv, AccountsInv, TypeOK
<1>1. ASSUME NEW u \in Users
      PROVE  /\ u \in Users \cup {None} /\ user[u].org \in Orgs \cup {None} /\ user[u].suspended \in BOOLEAN
             /\ \A c \in Counts : user[u].failed[c] \in Nat
  BY <1>0, <1>1 DEF Row
<1>2. ASSUME NEW h \in Handlers, NEW c \in Flight, c.pc \notin Counts, c.pc \notin {"countOwners", "updateRole", "transfer"},
             Goes(h, c)
      PROVE  Left
  BY <1>2 DEF Carries, CarriesRole, CarriesCount
<1> HIDE DEF Left
<1>4. ASSUME NEW h \in Handlers, NEW u \in Users, LoginRead(h, u) \/ AdminLoginRead(h, u) PROVE Left
  <2> DEFINE n == user[u].failed["password"]
             b == user[u].suspended
             c == [Idle EXCEPT !.pc = "password", !.user = u, !.failed = n, !.suspended = b]
  <2>1. Goes(h, c)
    BY <1>4 DEF LoginRead, AdminLoginRead, Moves
  <2>2. n \in Nat /\ b \in BOOLEAN
    BY <1>1 DEF Counts
  <2> HIDE DEF n, b
  <2>3. c \in Flight /\ c.pc = "password" /\ c.user = u /\ c.failed = n
    BY <1>0, <1>1, <2>2 DEF Flight, Pcs
  <2> HIDE DEF c
  <2>4. Carries(c)
    BY <2>3 DEF Carries, CarriesRole, CarriesCount, Counts, CountsInv, SerialInv, CountsKept, n
  <2> QED
    BY <2>1, <2>3, <2>4 DEF Left
<1>5. ASSUME NEW h \in Handlers, NEW u \in Users, CodeRead(h, u) PROVE Left
  <2> DEFINE n == user[u].failed["code"]
             c == [Idle EXCEPT !.pc = "code", !.user = u, !.failed = n]
  <2>1. Goes(h, c)
    BY <1>5 DEF CodeRead, Moves
  <2>2. n \in Nat
    BY <1>1 DEF Counts
  <2> HIDE DEF n
  <2>3. c \in Flight /\ c.pc = "code" /\ c.user = u /\ c.failed = n
    BY <1>0, <1>1, <2>2 DEF Flight, Pcs
  <2> HIDE DEF c
  <2>4. Carries(c)
    BY <2>3 DEF Carries, CarriesRole, CarriesCount, Counts, CountsInv, SerialInv, CountsKept, n
  <2> QED
    BY <2>1, <2>3, <2>4 DEF Left
<1>6. ASSUME NEW h \in Handlers, NEW u \in Users, TransferRead(h, u) PROVE Left
  <2> DEFINE o == user[u].org
             c == [Idle EXCEPT !.pc = "transfer", !.user = u, !.org = o]
  <2>1. Goes(h, c) /\ Present(u)
    BY <1>6 DEF TransferRead, Moves
  <2>2. o \in Orgs \cup {None}
    BY <1>1
  <2> HIDE DEF o
  <2>3. c \in Flight /\ c.pc = "transfer" /\ c.user = u /\ c.org = o
    BY <1>0, <1>1, <2>2 DEF Flight, Pcs
  <2> HIDE DEF c
  <2>4. Carries(c)
    BY <2>1, <2>3 DEF Carries, CarriesRole, CarriesCount, Counts, o
  <2> QED
    BY <2>1, <2>3, <2>4 DEF Left
<1>7. ASSUME NEW h \in Handlers, NEW by \in Users, NEW u \in Users, NEW role \in Roles, RoleRead(h, by, u, role)
      PROVE  Left
  <2> DEFINE o == user[u].org
             pc == IF user[u].role = "OWNER" /\ role # "OWNER" THEN "countOwners" ELSE "updateRole"
             c == [Idle EXCEPT !.user = u, !.org = o, !.role = role, !.pc = pc]
  <2>1. Goes(h, c) /\ Present(u)
    BY <1>7 DEF RoleRead, SameOrg, Moves
  <2>2. o \in Orgs \cup {None} /\ pc \in Pcs /\ pc \in {"countOwners", "updateRole"}
        /\ (pc = "updateRole" => role = "OWNER" \/ user[u].role # "OWNER")
    BY <1>1 DEF Pcs
  <2> HIDE DEF o, pc
  <2>3. c \in Flight /\ c.pc = pc /\ c.user = u /\ c.org = o /\ c.role = role
    BY <1>0, <1>1, <2>2 DEF Flight
  <2> HIDE DEF c
  <2>4. Carries(c)
    BY <2>1, <2>2, <2>3 DEF Carries, CarriesRole, CarriesCount, Counts, o
  <2> QED
    BY <2>1, <2>3, <2>4 DEF Left
<1>8. ASSUME NEW h \in Handlers, CountOwners(h) PROVE Left
  <2> DEFINE c == [call[h] EXCEPT !.pc = "updateRole"]
             u == call[h].user
             o == call[h].org
  <2>1. CASE OthersOwn(o)
    <3>1. call[h].pc = "countOwners" /\ Goes(h, c)
      BY <1>8, <2>1 DEF CountOwners, Moves
    <3>2. u \in Users /\ Present(u) /\ user[u].org = o
      BY <1>0, <3>1 DEF Carries, CarriesRole
    <3>3. \E v \in Owners(o) : v # u
      BY <2>1, TwoOwn
    <3>4. c \in Flight /\ c.pc = "updateRole" /\ c.user = u /\ c.org = o
      BY <1>0 DEF Flight, Pcs
    <3> HIDE DEF c, u, o
    <3>5. Carries(c)
      BY <3>2, <3>3, <3>4 DEF Carries, CarriesRole, CarriesCount, Counts
    <3> QED
      BY <3>1, <3>4, <3>5 DEF Left
  <2>2. CASE ~OthersOwn(o)
    BY <1>0, <1>8, <2>2 DEF CountOwners, Moves, Left
  <2> QED
    BY <2>1, <2>2
<1>9. ASSUME NEW h \in Handlers, Goes(h, Idle) PROVE Left
  BY <1>0, <1>9 DEF Left
<1>10. ASSUME NEW h \in Handlers, NEW u \in Users, RegisterRead(h, u) PROVE Left
  <2> DEFINE c == [Idle EXCEPT !.pc = "register", !.user = u]
  <2>1. Goes(h, c)
    BY <1>0, <1>1, <1>10 DEF RegisterRead, Moves
  <2>2. c \in Flight /\ c.pc = "register"
    BY <1>0, <1>1 DEF Flight, Pcs
  <2> HIDE DEF c
  <2> QED
    BY <1>2, <2>1, <2>2 DEF Counts
<1>11. ASSUME NEW h \in Handlers, NEW t \in Resets, ResetRead(h, t) PROVE Left
  <2> DEFINE c == [Idle EXCEPT !.pc = "resetPassword", !.token = t]
  <2>1. Goes(h, c)
    BY <1>0, <1>1, <1>11 DEF ResetRead, Moves
  <2>2. c \in Flight /\ c.pc = "resetPassword"
    BY <1>0, <1>1 DEF Flight, Pcs
  <2> HIDE DEF c
  <2> QED
    BY <1>2, <2>1, <2>2 DEF Counts
<1>12. ASSUME NEW h \in Handlers, NEW i \in Invites, AcceptRead(h, i) PROVE Left
  <2> DEFINE u == invite[i].user
             c == [Idle EXCEPT !.pc = "acceptInvite", !.user = u, !.token = i]
  <2>1. Goes(h, c) /\ u \in Users
    BY <1>0, <1>1, <1>12 DEF AcceptRead, Moves, AccountsInv, InvitesSpent
  <2> HIDE DEF u
  <2>2. c \in Flight /\ c.pc = "acceptInvite"
    BY <1>0, <1>1, <2>1 DEF Flight, Pcs
  <2> HIDE DEF c
  <2> QED
    BY <1>2, <2>1, <2>2 DEF Counts
<1>13. ASSUME NEW h \in Handlers, NEW by \in Users, NEW u \in Users, RemoveRead(h, by, u) PROVE Left
  <2> DEFINE c == [Idle EXCEPT !.pc = "removeMember", !.user = u]
  <2>1. Goes(h, c)
    BY <1>0, <1>1, <1>13 DEF RemoveRead, Moves
  <2>2. c \in Flight /\ c.pc = "removeMember"
    BY <1>0, <1>1 DEF Flight, Pcs
  <2> HIDE DEF c
  <2> QED
    BY <1>2, <2>1, <2>2 DEF Counts
<1>14. ASSUME NEW h \in Handlers, NEW by \in Users, NEW u \in Users, NEW role \in Roles, InviteRead(h, by, u, role) PROVE Left
  <2> DEFINE o == user[by].org
             c == [Idle EXCEPT !.pc = "invite", !.user = u, !.org = o, !.role = role]
  <2>1. Goes(h, c) /\ o \in Orgs \cup {None}
    BY <1>0, <1>1, <1>14 DEF InviteRead, Moves
  <2> HIDE DEF o
  <2>2. c \in Flight /\ c.pc = "invite"
    BY <1>0, <1>1, <2>1 DEF Flight, Pcs
  <2> HIDE DEF c
  <2> QED
    BY <1>2, <2>1, <2>2 DEF Counts
<1>15. ASSUME NEW h \in Handlers, Auth(h) PROVE Left
  <2>1. CASE \/ WrongPassword(h) \/ RightPassword(h) \/ RefusedSuspended(h) \/ WrongCode(h) \/ RightCode(h)
             \/ ResetWrite(h) \/ AcceptWrite(h) \/ InsertRefused(h) \/ \E o \in Orgs : RegisterWrite(h, o)
    BY <1>9, <2>1 DEF WrongPassword, RightPassword, RefusedSuspended, WrongCode, RightCode, ResetWrite,
       AcceptWrite, InsertRefused, RegisterWrite, Fails, Moves
  <2>2. CASE \E u \in Users, t \in Resets : RequestReset(h, u, t)
    BY <2>2 DEF RequestReset, Left
  <2> QED
    BY <1>4, <1>5, <1>10, <1>11, <1>12, <1>15, <2>1, <2>2 DEF Auth
<1>16. ASSUME NEW h \in Handlers, Team(h) PROVE Left
  <2>1. CASE RoleWrite(h) \/ RemoveWrite(h) \/ \E i \in Invites : InviteWrite(h, i)
    BY <1>9, <2>1 DEF RoleWrite, RemoveWrite, InviteWrite, SetsUsers
  <2> QED
    BY <1>7, <1>8, <1>13, <1>14, <1>16, <2>1 DEF Team
<1>17. ASSUME NEW h \in Handlers, Admin(h) PROVE Left
  <2>1. CASE TransferWrite(h)
    BY <1>9, <2>1 DEF TransferWrite, SetsUsers
  <2>2. CASE \/ \E u \in Users : Unlock(h, u) \/ \E on \in BOOLEAN : SetSuspended(h, u, on)
             \/ \E o \in Orgs : Reactivate(h, o) \/ \E f \in Flags : SetFlag(h, o, f)
    BY <2>2 DEF Unlock, SetSuspended, Reactivate, SetFlag, Left
  <2> QED
    BY <1>6, <1>17, <2>1, <2>2 DEF Admin
<1>18. CASE Time
  BY <1>18 DEF Time, TokenExpires, ChallengeEnds, LockEnds, Left
<1>19. ASSUME NEW h \in Handlers, Abort(h) PROVE Left
  BY <1>9, <1>19 DEF Abort
<1>20. CASE UNCHANGED vars
  BY <1>20 DEF vars, Left
<1> QED
  BY <1>15, <1>16, <1>17, <1>18, <1>19, <1>20 DEF Next, Left

(* A quiet step leaves what the handlers carry as true as it was. *)
LEMMA QuietKeeps == ASSUME SerialInv, AccountsInv', Quiet, [Next]_vars PROVE SerialInv'
<1>1. \A o \in Orgs : Owners(o)' = Owners(o)
  BY DEF Quiet, Owners, Present
<1>2. OwnerRemains'
  BY <1>1 DEF CountsInv, SerialInv, OwnerRemains, Quiet
<1>3. CountsKept'
  BY DEF CountsInv, SerialInv, CountsKept, Quiet
<1>4. ASSUME NEW c \in Flight, Carries(c) PROVE Carries(c)'
  <2>1. CarriesRole(c)'
    <3> SUFFICES ASSUME c.pc \in {"countOwners", "updateRole", "transfer"}
                 PROVE  /\ c.user \in Users /\ user'[c.user].present /\ user'[c.user].org = c.org
                        /\ c.pc = "updateRole" =>
                             \/ c.role = "OWNER" \/ user'[c.user].role # "OWNER"
                             \/ \E v \in Owners(c.org)' : v # c.user
      BY DEF CarriesRole, Present
    <3>1. Owners(c.org)' = Owners(c.org)
      BY DEF Quiet, Owners, Present
    <3> QED
      BY <1>4, <3>1 DEF Carries, CarriesRole, Quiet, Present
  <2>2. CarriesCount(c)'
    BY <1>4 DEF Carries, CarriesCount, Quiet
  <2> QED
    BY <2>1, <2>2 DEF Carries
<1>5. ASSUME NEW g \in Handlers PROVE Carries(call[g])'
  <2>1. call'[g] \in Flight /\ Carries(call'[g])
    <3>1. call'[g] \in Flight
      BY DEF AccountsInv, TypeOK
    <3>2. \A c \in Flight : Carries(c) => \A h \in Handlers : Goes(h, c) => Carries(call'[g])
      BY DEF Goes, CountsInv, SerialInv, AccountsInv, TypeOK
    <3> QED
      BY <3>1, <3>2, CallSteps DEF CountsInv, SerialInv
  <2>2. ASSUME NEW c \in Flight, c = call'[g] PROVE Carries(c)'
    BY <1>4, <2>1, <2>2
  <2> QED
    BY <2>1, <2>2 DEF Carries, CarriesRole, CarriesCount, Present, Owners
<1> QED
  BY <1>2, <1>3, <1>5 DEF CountsInv, SerialInv

(* Owners. *)
RolesStay ==
  /\ \A u \in Users : /\ user'[u].present = user[u].present /\ user'[u].org = user[u].org
                      /\ user'[u].role = user[u].role
  /\ org' = org

LEMMA RowRoles ==
  ASSUME AccountsInv, NEW u \in Users, NEW r, user' = [user EXCEPT ![u] = r],
         r.present = user[u].present, r.org = user[u].org, r.role = user[u].role, org' = org
  PROVE  RolesStay
  BY DEF AccountsInv, TypeOK, RolesStay

LEMMA RolesStayOwners == ASSUME SerialInv, RolesStay PROVE OwnerRemains'
<1>1. \A o \in Orgs : Owners(o)' = Owners(o)
  BY DEF RolesStay, Owners, Present
<1> QED
  BY <1>1 DEF CountsInv, SerialInv, OwnerRemains, RolesStay

LEMMA LoginsKeepRoles ==
  ASSUME AccountsInv, NEW h \in Handlers,
         \/ \E pc \in Counts : Fails(h, pc)
         \/ RightPassword(h) \/ RightCode(h)
         \/ \E u \in Users : Unlock(h, u)
  PROVE  RolesStay
<1>0. /\ call[h] \in Flight /\ Holds(call[h]) /\ \A u \in Users : user[u] \in Row
      /\ call[h].pc \in Counts => call[h].user \in Users
  BY DEF AccountsInv, TypeOK, Holds, OnAddress, OnAccount, Counts
<1> DEFINE u == call[h].user
<1>1. ASSUME NEW pc \in Counts, Fails(h, pc) PROVE RolesStay
  <2> DEFINE n == call[h].failed
             r == Missed(user[u], pc, n)
  <2>1. u \in Users /\ n \in Nat /\ user[u] \in Row
    BY <1>0, <1>1 DEF Fails, Flight
  <2>2. user' = [user EXCEPT ![u] = r] /\ org' = org
    BY <1>1 DEF Fails
  <2>3. r.present = user[u].present /\ r.org = user[u].org /\ r.role = user[u].role
    BY <2>1, MissedType
  <2> HIDE DEF r, u
  <2> QED
    BY <2>1, <2>2, <2>3, RowRoles
<1>2. CASE RightCode(h)
  <2> DEFINE r == Cleared(user[u], "code")
  <2>1. u \in Users /\ user[u] \in Row
    BY <1>0, <1>2 DEF RightCode, Counts
  <2>2. user' = [user EXCEPT ![u] = r] /\ org' = org
    BY <1>2 DEF RightCode
  <2>3. r.present = user[u].present /\ r.org = user[u].org /\ r.role = user[u].role
    BY <2>1, ClearedType DEF Counts
  <2> HIDE DEF r, u
  <2> QED
    BY <2>1, <2>2, <2>3, RowRoles
<1>3. CASE RightPassword(h)
  <2> DEFINE q == Cleared(user[u], "password")
             b == q.challenge \/ u \in Mfa
             r == [q EXCEPT !.challenge = b]
  <2>1. u \in Users /\ user[u] \in Row
    BY <1>0, <1>3 DEF RightPassword, Counts
  <2>2. user' = [user EXCEPT ![u] = r] /\ org' = org
    BY <1>3 DEF RightPassword
  <2>3. q \in Row /\ q.present = user[u].present /\ q.org = user[u].org /\ q.role = user[u].role
    BY <2>1, ClearedType DEF Counts
  <2> HIDE DEF q, b
  <2>4. r.present = user[u].present /\ r.org = user[u].org /\ r.role = user[u].role
    BY <2>3 DEF Row
  <2> HIDE DEF r, u
  <2> QED
    BY <2>1, <2>2, <2>4, RowRoles
<1>4. ASSUME NEW v \in Users, Unlock(h, v) PROVE RolesStay
  <2> DEFINE f == NoUser.failed
             l == NoUser.locked
             r == [user[v] EXCEPT !.failed = f, !.locked = l]
  <2>1. user' = [user EXCEPT ![v] = r] /\ org' = org /\ user[v] \in Row
    BY <1>0, <1>4 DEF Unlock
  <2> HIDE DEF f, l
  <2>2. r.present = user[v].present /\ r.org = user[v].org /\ r.role = user[v].role
    BY <2>1 DEF Row
  <2> HIDE DEF r
  <2> QED
    BY <2>1, <2>2, RowRoles
<1> QED
  BY <1>1, <1>2, <1>3, <1>4

(* A handler that writes is done, and no other carries anything; one that   *)
(* unlocks an account may find another in flight, with what it has read.    *)
LEMMA WritersIdle ==
  ASSUME AtMostOne, SerialInv, Writing
  PROVE  \A g \in Handlers : Carries(call[g])'
<1>1. ASSUME NEW h \in Handlers, call[h].pc # "idle", Goes(h, Idle)
      PROVE  \A g \in Handlers : Carries(call[g])'
  <2>1. \A g \in Handlers : call'[g].pc = "idle"
    BY <1>1, IdleType DEF Goes, AtMostOne, CountsInv, SerialInv, AccountsInv, TypeOK
  <2> QED
    BY <2>1 DEF Carries, CarriesRole, CarriesCount, Counts
<1>2. ASSUME NEW h \in Handlers, NEW u \in Users, Unlock(h, u)
      PROVE  \A g \in Handlers : Carries(call[g])'
  <2>1. RolesStay
    BY <1>2, LoginsKeepRoles DEF CountsInv, SerialInv
  <2>2. \A o : Owners(o)' = Owners(o)
    BY <2>1 DEF RolesStay, Owners, Present
  <2>3. call' = call /\ \A v \in Users, c \in Counts : wrong'[v][c] \in {0, wrong[v][c]}
    BY <1>2 DEF Unlock, CountsInv, SerialInv, AccountsInv, TypeOK
  <2>4. ASSUME NEW g \in Handlers PROVE Carries(call[g])'
    <3> DEFINE c == call[g]
    <3>1. Carries(c) /\ c.failed \in Nat
      BY DEF CountsInv, SerialInv, AccountsInv, TypeOK, Flight
    <3>2. call'[g] = c
      BY <2>3
    <3> HIDE DEF c
    <3>3. CarriesRole(call[g])'
      BY <2>1, <2>2, <3>1, <3>2 DEF Carries, CarriesRole, RolesStay, Present
    <3>4. CarriesCount(call[g])'
      BY <2>3, <3>1, <3>2 DEF Carries, CarriesCount
    <3> QED
      BY <3>3, <3>4 DEF Carries
  <2> QED
    BY <2>4
<1>3. PICK h \in Handlers :
        \/ \E pc \in Counts : Fails(h, pc)
        \/ RightPassword(h) \/ RightCode(h) \/ AcceptWrite(h) \/ RoleWrite(h) \/ TransferWrite(h)
        \/ \E o \in Orgs : RegisterWrite(h, o)
        \/ \E u \in Users : Unlock(h, u)
  BY DEF Writing
<1>4. \/ call[h].pc # "idle" /\ Goes(h, Idle)
      \/ \E u \in Users : Unlock(h, u)
  BY <1>3 DEF Fails, Counts, RightPassword, RightCode, AcceptWrite, RoleWrite, TransferWrite, RegisterWrite,
     SetsUsers
<1> QED
  BY <1>1, <1>2, <1>4

(* An account that is made, or changes its role. *)
LEMMA OwnersKeep ==
  ASSUME SerialInv, NEW h \in Handlers,
         \/ AcceptWrite(h) \/ RoleWrite(h) \/ TransferWrite(h)
         \/ \E o \in Orgs : RegisterWrite(h, o)
  PROVE  OwnerRemains'
<1> DEFINE u == call[h].user
           q == call[h].org
<1>0. /\ user \in [Users -> Row] /\ org \in [Orgs -> Organization]
      /\ Holds(call[h]) /\ Carries(call[h]) /\ call[h].role \in Roles
      /\ \A o \in Orgs : org[o].present => \E v \in Users : v \in Owners(o)
  BY DEF CountsInv, SerialInv, AccountsInv, TypeOK, Organization, OwnerRemains, Owners, Flight
<1>1. ASSUME NEW o \in Orgs, NEW v \in Users, user'[v].present, user'[v].org = o, user'[v].role = "OWNER"
      PROVE  Owners(o)' # {}
  BY <1>1 DEF Owners, Present
<1>2. ASSUME NEW r, u \in Users, user' = [user EXCEPT ![u] = r], ~Present(u),
             NEW o \in Orgs, org[o].present
      PROVE  Owners(o)' # {}
  <2>1. PICK v \in Users : v \in Owners(o)
    BY <1>0, <1>2
  <2>2. v # u /\ Present(v) /\ user[v].org = o /\ user[v].role = "OWNER"
    BY <1>2, <2>1 DEF Owners
  <2> HIDE DEF u
  <2>3. user'[v] = user[v]
    BY <1>0, <1>2, <2>2
  <2> QED
    BY <1>1, <2>2, <2>3 DEF Present
<1>3. CASE AcceptWrite(h)
  <2>1. /\ u \in Users /\ ~Present(u) /\ org' = org
        /\ \E r : user' = [user EXCEPT ![u] = r]
    BY <1>0, <1>3 DEF AcceptWrite, Unused, Holds, OnAddress
  <2> QED
    BY <1>2, <2>1 DEF OwnerRemains
<1>4. ASSUME NEW o \in Orgs, RegisterWrite(h, o) PROVE OwnerRemains'
  <2> DEFINE r == [NoUser EXCEPT !.present = TRUE, !.org = o, !.role = "OWNER"]
  <2>1. /\ u \in Users /\ ~Present(u) /\ org' = [org EXCEPT ![o].present = TRUE]
        /\ user' = [user EXCEPT ![u] = r]
    BY <1>0, <1>4 DEF RegisterWrite, Unused, Holds, OnAddress
  <2>2. r.present /\ r.org = o /\ r.role = "OWNER"
    BY NoUserType DEF Row
  <2> HIDE DEF r, u
  <2>3. Owners(o)' # {}
    BY <1>0, <1>1, <2>1, <2>2
  <2>4. \A p \in Orgs : p = o \/ org'[p].present = org[p].present
    BY <1>0, <2>1
  <2> QED
    BY <1>2, <2>1, <2>3, <2>4 DEF OwnerRemains, u
<1>5. CASE RoleWrite(h)
  <2> DEFINE role == call[h].role
             r == [user[u] EXCEPT !.role = role]
  <2>1. /\ u \in Users /\ Present(u) /\ user[u].org = q /\ user' = [user EXCEPT ![u] = r] /\ org' = org
        /\ role = "OWNER" \/ user[u].role # "OWNER" \/ \E v \in Owners(q) : v # u
    BY <1>0, <1>5 DEF RoleWrite, SetsUsers, Carries, CarriesRole
  <2> HIDE DEF role, u, q
  <2>2. r.present = user[u].present /\ r.org = user[u].org /\ r.role = role
    BY <1>0, <2>1 DEF Row
  <2> HIDE DEF r
  <2>3. user'[u] = r /\ \A v \in Users : v # u => user'[v] = user[v]
    BY <1>0, <2>1
  <2>4. ASSUME NEW o \in Orgs, org[o].present PROVE Owners(o)' # {}
    <3>1. PICK v \in Users : v \in Owners(o)
      BY <1>0, <2>4
    <3>2. Present(v) /\ user[v].org = o /\ user[v].role = "OWNER"
      BY <3>1 DEF Owners
    <3>3. CASE v # u
      BY <1>1, <2>3, <3>2, <3>3 DEF Present
    <3>4. CASE v = u /\ role = "OWNER"
      BY <1>1, <2>1, <2>2, <2>3, <3>2, <3>4 DEF Present
    <3>5. CASE v = u /\ role # "OWNER"
      <4>1. PICK w \in Owners(q) : w # u
        BY <2>1, <3>2, <3>5
      <4>2. w \in Users /\ Present(w) /\ user[w].org = o /\ user[w].role = "OWNER"
        BY <2>1, <3>2, <3>5, <4>1 DEF Owners
      <4> QED
        BY <1>1, <2>3, <4>1, <4>2 DEF Present
    <3> QED
      BY <3>3, <3>4, <3>5
  <2> QED
    BY <2>1, <2>4 DEF OwnerRemains
<1>6. CASE TransferWrite(h)
  <2> DEFINE row(v) == IF v = u THEN [user[v] EXCEPT !.role = "OWNER"]
                       ELSE IF v \in Owners(q) THEN [user[v] EXCEPT !.role = "MANAGER"]
                       ELSE user[v]
  <2>1. user' = [v \in Users |-> row(v)] /\ org' = org
    BY <1>6 DEF TransferWrite, SetsUsers
  <2>2. u \in Users /\ Present(u) /\ user[u].org = q
    BY <1>0, <1>6 DEF TransferWrite, Carries, CarriesRole
  <2>3. row(u).present = user[u].present /\ row(u).org = user[u].org /\ row(u).role = "OWNER"
    <3>1. user[u] \in Row
      BY <1>0, <2>2
    <3>2. row(u) = [user[u] EXCEPT !.role = "OWNER"]
      OBVIOUS
    <3> HIDE DEF row, u
    <3> QED
      BY <3>1, <3>2 DEF Row
  <2>4. \A v \in Users : v # u /\ v \notin Owners(q) => row(v) = user[v]
    OBVIOUS
  <2> HIDE DEF row, u, q
  <2>5. ASSUME NEW o \in Orgs, org[o].present PROVE Owners(o)' # {}
    <3>1. CASE o = q
      BY <1>1, <2>1, <2>2, <2>3, <3>1 DEF Present
    <3>2. CASE o # q
      <4>1. PICK v \in Users : v \in Owners(o)
        BY <1>0, <2>5
      <4>2. Present(v) /\ user[v].org = o /\ user[v].role = "OWNER"
        BY <4>1 DEF Owners
      <4>3. v # u /\ v \notin Owners(q)
        BY <2>2, <3>2, <4>2 DEF Owners
      <4> QED
        BY <1>1, <2>1, <2>4, <4>2, <4>3 DEF Present
    <3> QED
      BY <3>1, <3>2
  <2> QED
    BY <2>1, <2>5 DEF OwnerRemains
<1> QED
  BY <1>3, <1>4, <1>5, <1>6

(* Counters. *)
LEMMA CountsSet ==
  ASSUME CountsInv, NEW u \in Users, NEW r \in Row, user' = [user EXCEPT ![u] = r],
         \A v \in Users : v # u => wrong'[v] = wrong[v],
         \A c \in Counts : wrong'[u][c] <= r.failed[c] /\ r.failed[c] < MaxFailed
  PROVE  CountsKept'
<1>1. \A v \in Users : user'[v] = IF v = u THEN r ELSE user[v]
  BY DEF CountsInv, SerialInv, AccountsInv, TypeOK
<1> QED
  BY <1>1 DEF CountsInv, SerialInv, CountsKept

LEMMA FailsCounts ==
  ASSUME SerialInv, NEW h \in Handlers, NEW pc \in Counts, Fails(h, pc)
  PROVE  CountsKept'
<1> DEFINE u == call[h].user
           n == call[h].failed
           r == Missed(user[u], pc, n)
           m == IF r.locked[pc] THEN 0 ELSE wrong[u][pc] + 1
           k == IF n + 1 >= MaxFailed THEN 0 ELSE n + 1
<1>0. /\ user \in [Users -> Row] /\ wrong \in [Users -> [Counts -> Nat]] /\ call[h] \in Flight
      /\ Carries(call[h]) /\ call[h].pc = pc
  BY DEF CountsInv, SerialInv, AccountsInv, TypeOK, Fails
<1>1. u \in Users /\ wrong[u][pc] <= n /\ n < MaxFailed /\ n \in Nat /\ user[u] \in Row /\ wrong[u] \in [Counts -> Nat]
  BY <1>0 DEF Carries, CarriesCount, Flight
<1>2. r \in Row /\ r.failed = [user[u].failed EXCEPT ![pc] = k]
      /\ r.locked[pc] = (user[u].locked[pc] \/ n + 1 >= MaxFailed)
  <2>1. n \in Nat /\ user[u] \in Row
    BY <1>1
  <2> HIDE DEF n, u
  <2> QED
    BY <2>1, MissedType
<1>3. user' = [user EXCEPT ![u] = r]
  BY DEF Fails
<1>4. wrong' = [wrong EXCEPT ![u] = [wrong[u] EXCEPT ![pc] = m]]
  <2>1. user'[u] = r
    BY <1>0, <1>1, <1>3
  <2> HIDE DEF r
  <2>2. wrong' = [wrong EXCEPT ![u] = [wrong[u] EXCEPT ![pc] = IF user'[u].locked[pc] THEN 0 ELSE wrong[u][pc] + 1]]
    BY DEF Fails
  <2> QED
    BY <2>1, <2>2
<1>5. user[u].failed \in [Counts -> Nat] /\ user[u].locked \in [Counts -> BOOLEAN]
      /\ \A c \in Counts : wrong[u][c] <= user[u].failed[c] /\ user[u].failed[c] < MaxFailed
  BY <1>1 DEF Row, CountsInv, SerialInv, CountsKept
<1>6. r.failed[pc] = k /\ \A c \in Counts : c # pc => r.failed[c] = user[u].failed[c]
  BY <1>2, <1>5
<1>7. m <= k /\ k < MaxFailed
  <2>1. r.locked[pc] <=> user[u].locked[pc] \/ n + 1 >= MaxFailed
    BY <1>2, <1>5
  <2> DEFINE w == wrong[u][pc]
             b == r.locked[pc]
  <2>2. w \in Nat /\ w <= n /\ n < MaxFailed /\ n \in Nat /\ MaxFailed \in Nat \ {0}
    BY <1>1, <1>5, AccountsAssumption
  <2>3. n + 1 >= MaxFailed => b
    BY <2>1
  <2> HIDE DEF w, b, n
  <2> QED
    BY <2>2, <2>3 DEF w, b
<1>8. wrong'[u] = [wrong[u] EXCEPT ![pc] = m] /\ \A v \in Users : v # u => wrong'[v] = wrong[v]
  <2> HIDE DEF m, u
  <2> QED
    BY <1>0, <1>1, <1>4
<1>9. \A c \in Counts : wrong'[u][c] = IF c = pc THEN m ELSE wrong[u][c]
  <2> HIDE DEF m, u
  <2> QED
    BY <1>1, <1>8
<1> HIDE DEF u, r, m, k
<1>10. ASSUME NEW c \in Counts PROVE wrong'[u][c] <= r.failed[c] /\ r.failed[c] < MaxFailed
  <2>1. CASE c = pc
    BY <1>6, <1>7, <1>9, <2>1
  <2>2. CASE c # pc
    BY <1>5, <1>6, <1>9, <2>2
  <2> QED
    BY <2>1, <2>2
<1> QED
  BY <1>1, <1>2, <1>3, <1>8, <1>10, CountsSet DEF SerialInv

LEMMA SuccessCounts ==
  ASSUME SerialInv, NEW h \in Handlers, RightPassword(h) \/ RightCode(h)
  PROVE  CountsKept'
<1> DEFINE u == call[h].user
<1>0. /\ user \in [Users -> Row] /\ wrong \in [Users -> [Counts -> Nat]] /\ Holds(call[h])
      /\ call[h].pc \in {"password", "code"}
  BY DEF CountsInv, SerialInv, AccountsInv, TypeOK, RightPassword, RightCode
<1>1. u \in Users /\ user[u] \in Row /\ wrong[u] \in [Counts -> Nat]
      /\ user[u].failed \in [Counts -> Nat]
      /\ \A c \in Counts : wrong[u][c] <= user[u].failed[c] /\ user[u].failed[c] < MaxFailed
  <2>1. u \in Users
    BY <1>0 DEF Holds, OnAddress, OnAccount
  <2> QED
    BY <1>0, <2>1 DEF Row, CountsInv, SerialInv, CountsKept
<1>2. ASSUME NEW pc \in Counts, NEW r \in Row, user' = [user EXCEPT ![u] = r],
             r.failed = [user[u].failed EXCEPT ![pc] = 0],
             wrong' = [wrong EXCEPT ![u][pc] = 0]
      PROVE  CountsKept'
  <2> HIDE DEF u
  <2>1. wrong'[u] = [wrong[u] EXCEPT ![pc] = 0] /\ \A v \in Users : v # u => wrong'[v] = wrong[v]
    BY <1>0, <1>1, <1>2
  <2>2. \A c \in Counts : wrong'[u][c] <= r.failed[c] /\ r.failed[c] < MaxFailed
    BY <1>1, <1>2, <2>1, AccountsAssumption
  <2> QED
    BY <1>1, <1>2, <2>1, <2>2, CountsSet DEF SerialInv
<1>3. CASE RightCode(h)
  <2> DEFINE r == Cleared(user[u], "code")
  <2>1. user' = [user EXCEPT ![u] = r] /\ wrong' = [wrong EXCEPT ![u]["code"] = 0]
    BY <1>3 DEF RightCode
  <2>2. r \in Row /\ r.failed = [user[u].failed EXCEPT !["code"] = 0]
    BY <1>1, ClearedType DEF Counts
  <2> HIDE DEF r, u
  <2> QED
    BY <1>2, <2>1, <2>2 DEF Counts
<1>4. CASE RightPassword(h)
  <2> DEFINE q == Cleared(user[u], "password")
             b == q.challenge \/ u \in Mfa
             r == [q EXCEPT !.challenge = b]
  <2>1. user' = [user EXCEPT ![u] = r] /\ wrong' = [wrong EXCEPT ![u]["password"] = 0]
    BY <1>4 DEF RightPassword
  <2>2. q \in Row /\ q.failed = [user[u].failed EXCEPT !["password"] = 0]
    BY <1>1, ClearedType DEF Counts
  <2> HIDE DEF q
  <2>3. b \in BOOLEAN
    BY <2>2 DEF Row
  <2> HIDE DEF b
  <2>4. r \in Row /\ r.failed = q.failed
    BY <2>2, <2>3 DEF Row
  <2> HIDE DEF r, u
  <2> QED
    BY <1>2, <2>1, <2>2, <2>4 DEF Counts
<1> QED
  BY <1>3, <1>4

LEMMA UnlockCounts ==
  ASSUME CountsInv, NEW h \in Handlers, NEW u \in Users, Unlock(h, u)
  PROVE  CountsKept'
<1> DEFINE f == NoUser.failed
           l == NoUser.locked
           r == [user[u] EXCEPT !.failed = f, !.locked = l]
<1>1. /\ user' = [user EXCEPT ![u] = r] /\ wrong' = [wrong EXCEPT ![u] = [c \in Counts |-> 0]]
      /\ user[u] \in Row /\ wrong \in [Users -> [Counts -> Nat]]
  BY DEF Unlock, CountsInv, SerialInv, AccountsInv, TypeOK
<1>2. f \in [Counts -> Nat] /\ l \in [Counts -> BOOLEAN] /\ \A c \in Counts : f[c] = 0
  BY NoUserType DEF Row
<1> HIDE DEF f, l
<1>3. r \in Row /\ r.failed = f
  BY <1>1, <1>2 DEF Row
<1> HIDE DEF r
<1>4. (\A c \in Counts : wrong'[u][c] = 0) /\ \A v \in Users : v # u => wrong'[v] = wrong[v]
  BY <1>1
<1>5. \A c \in Counts : wrong'[u][c] <= r.failed[c] /\ r.failed[c] < MaxFailed
  BY <1>2, <1>3, <1>4, AccountsAssumption
<1> QED
  BY <1>1, <1>3, <1>4, <1>5, CountsSet

(* The counters of an account that is made, or changes its role. *)
LEMMA RolesCounts ==
  ASSUME CountsInv, NEW h \in Handlers,
         \/ AcceptWrite(h) \/ RoleWrite(h) \/ TransferWrite(h)
         \/ \E o \in Orgs : RegisterWrite(h, o)
  PROVE  CountsKept'
<1> DEFINE u == call[h].user
<1>0. /\ user \in [Users -> Row] /\ Holds(call[h])
      /\ \A v \in Users : Present(v) \/ user[v] = NoUser
  BY DEF CountsInv, SerialInv, AccountsInv, TypeOK, RowsMade
<1>1. wrong' = wrong
  BY DEF AcceptWrite, RoleWrite, TransferWrite, RegisterWrite, SetsUsers, history
<1>2. ASSUME \A v \in Users : user'[v].failed = user[v].failed PROVE CountsKept'
  BY <1>1, <1>2 DEF CountsInv, SerialInv, CountsKept
<1>3. ASSUME NEW r, u \in Users, user' = [user EXCEPT ![u] = r], r.failed = user[u].failed PROVE CountsKept'
  BY <1>0, <1>2, <1>3
<1>4. u \in Users
  BY <1>0 DEF Holds, OnAddress, OnAccount, AcceptWrite, RoleWrite, TransferWrite, RegisterWrite
<1>5. ASSUME NEW o, NEW role, ~Present(u),
             user' = [user EXCEPT ![u] = [NoUser EXCEPT !.present = TRUE, !.org = o, !.role = role]]
      PROVE  CountsKept'
  <2> DEFINE r == [NoUser EXCEPT !.present = TRUE, !.org = o, !.role = role]
  <2>1. r.failed = NoUser.failed
    BY NoUserType DEF Row
  <2>2. user[u] = NoUser
    BY <1>0, <1>4, <1>5
  <2> HIDE DEF r, u
  <2>3. r.failed = user[u].failed
    BY <2>1, <2>2
  <2> QED
    BY <1>3, <1>4, <1>5, <2>3 DEF r
<1>6. CASE AcceptWrite(h)
  BY <1>5, <1>6 DEF AcceptWrite, Unused
<1>7. ASSUME NEW o \in Orgs, RegisterWrite(h, o) PROVE CountsKept'
  BY <1>5, <1>7 DEF RegisterWrite, Unused
<1>8. CASE RoleWrite(h)
  <2> DEFINE role == call[h].role
             r == [user[u] EXCEPT !.role = role]
  <2>1. user' = [user EXCEPT ![u] = r]
    BY <1>8 DEF RoleWrite, SetsUsers
  <2> HIDE DEF role, u
  <2>2. r.failed = user[u].failed
    BY <1>0, <1>4 DEF Row
  <2> HIDE DEF r
  <2> QED
    BY <1>3, <1>4, <2>1, <2>2
<1>9. CASE TransferWrite(h)
  <2> DEFINE row(v) == IF v = u THEN [user[v] EXCEPT !.role = "OWNER"]
                       ELSE IF v \in Owners(call[h].org) THEN [user[v] EXCEPT !.role = "MANAGER"]
                       ELSE user[v]
  <2>1. user' = [v \in Users |-> row(v)]
    BY <1>9 DEF TransferWrite, SetsUsers
  <2>2. ASSUME NEW v \in Users PROVE row(v).failed = user[v].failed
    <3>1. user[v] \in Row
      BY <1>0
    <3>2. \A x : [user[v] EXCEPT !.role = x].failed = user[v].failed
      BY <3>1 DEF Row
    <3>3. row(v) = user[v] \/ \E x : row(v) = [user[v] EXCEPT !.role = x]
      OBVIOUS
    <3> HIDE DEF row
    <3> QED
      BY <3>2, <3>3
  <2> HIDE DEF row
  <2> QED
    BY <1>2, <2>1, <2>2
<1> QED
  BY <1>6, <1>7, <1>8, <1>9

LEMMA SerialStep == ASSUME AtMostOne, SerialInv, AccountsInv', [Next]_vars PROVE SerialInv'
<1>1. CASE Quiet
  BY <1>1, QuietKeeps
<1>2. CASE Writing
  <2>0. AccountsInv /\ CountsInv
    BY DEF CountsInv, SerialInv
  <2>1. OwnerRemains'
    BY <1>2, <2>0, LoginsKeepRoles, RolesStayOwners, OwnersKeep DEF Writing
  <2>2. CountsKept'
    BY <1>2, <2>0, FailsCounts, SuccessCounts, UnlockCounts, RolesCounts DEF Writing
  <2> QED
    BY <1>2, <2>1, <2>2, WritersIdle DEF CountsInv, SerialInv
<1> QED
  BY <1>1, <1>2, MostQuiet DEF CountsInv, SerialInv

LEMMA SerialMeans == SerialInv => OwnerRemains /\ FailuresCounted
<1>1. ASSUME SerialInv, NEW u \in Users, NEW c \in Counts PROVE wrong[u][c] < MaxFailed
  <2>1. wrong[u][c] \in Nat /\ user[u].failed[c] \in Nat /\ MaxFailed \in Nat
    BY <1>1, AccountsAssumption DEF CountsInv, SerialInv, AccountsInv, TypeOK, Row
  <2> QED
    BY <1>1, <2>1 DEF CountsInv, SerialInv, CountsKept
<1> QED
  BY <1>1 DEF SerialInv, FailuresCounted

-----------------------------------------------------------------------------
(* With one handler at a time, an organization has an owner from its       *)
(* registration on: updateRole counts the others before an owner's role    *)
(* goes, remove leaves owners alone, transferOwnership names the next.     *)
THEOREM OwnerStays == ASSUME OneHandler PROVE Spec => []OwnerRemains
<1>1. AtMostOne
  BY DEF OneHandler, AtMostOne
<1> QED
  BY <1>1, SerialMeans, AccountsInit, AccountsStep, SerialInit, SerialStep, PTL DEF Spec

(* With one handler at a time, the counters of both logins and of the      *)
(* codes lock an account before MAX_FAILED_LOGINS or MAX_MFA_ATTEMPTS      *)
(* wrong answers, whatever else is done to the account in between.         *)
THEOREM LockedInTime == ASSUME OneHandler PROVE Spec => []FailuresCounted
<1>1. AtMostOne
  BY DEF OneHandler, AtMostOne
<1> QED
  BY <1>1, SerialMeans, AccountsInit, AccountsStep, SerialInit, SerialStep, PTL DEF Spec
-----------------------------------------------------------------------------
(* The scenes: a single handler but for the joining one, where registrations *)
(* and acceptances overlap, and none counts failures or changes a role.    *)
Counting == Counts \cup {"updateRole", "transfer"}

ScenesInv ==
  /\ CountsInv
  /\ scene = "joining" => \A h \in Handlers : call[h].pc \notin Counting
  /\ scene # "joining" =>
       SerialInv /\ \A h \in Handlers \ {FirstHandler} : call[h].pc = "idle"

LEMMA ScenesInit == MCInit => ScenesInv
<1> SUFFICES ASSUME MCInit PROVE ScenesInv
  OBVIOUS
<1>1. SerialInv /\ call = [h \in Handlers |-> Idle]
  BY SerialInit DEF MCInit, Init
<1>2. \A h \in Handlers : call[h].pc = "idle"
  BY <1>1, IdleType
<1> QED
  BY <1>1, <1>2 DEF ScenesInv, SerialInv, Counting, Counts

(* What a step of the composition is for the accounts. *)
LEMMA ScenesSteps ==
  ASSUME [MCNext]_<<vars, others, scene>>
  PROVE  /\ [Next]_vars /\ scene' = scene
         /\ scene # "joining" => Alone \/ call' = call
         /\ scene = "joining" => Joining \/ call' = call
<1>1. CASE /\ Next /\ UNCHANGED scene
           /\ (scene = "owners" /\ Owning) \/ (scene = "logins" /\ LoggingIn) \/ (scene = "joining" /\ Joining)
  BY <1>1 DEF Owning, LoggingIn
<1>2. CASE UNCHANGED vars /\ UNCHANGED scene
  BY <1>2 DEF vars
<1>3. CASE MCNext
  <2>1. CASE scene \in {"drafts", "rush"} /\ Drafting
    BY <1>2, <1>3, <2>1 DEF MCNext, Drafting
  <2>2. CASE scene = "limits" /\ RL!Next /\ UNCHANGED <<vars, draftVars>>
    BY <1>2, <1>3, <2>2 DEF MCNext
  <2> QED
    BY <1>1, <1>3, <2>1, <2>2 DEF MCNext
<1> QED
  BY <1>2, <1>3

LEMMA JoiningCounts ==
  ASSUME CountsInv, [Next]_vars, \A h \in Handlers : call[h].pc \notin Counting
  PROVE  CountsKept'
<1>1. CASE Quiet
  BY <1>1 DEF Quiet, CountsInv, CountsKept
<1>2. CASE Writing
  <2>1. \E h \in Handlers : \/ AcceptWrite(h) \/ \E o \in Orgs : RegisterWrite(h, o)
                           \/ \E u \in Users : Unlock(h, u)
    BY <1>2 DEF Writing, Counting, Counts, Fails, RightPassword, RightCode, RoleWrite, TransferWrite
  <2> QED
    BY <2>1, RolesCounts, UnlockCounts
<1> QED
  BY <1>1, <1>2, MostQuiet DEF CountsInv

LEMMA ScenesStep == ASSUME ScenesInv, [MCNext]_<<vars, others, scene>> PROVE ScenesInv'
<1>1. [Next]_vars /\ scene' = scene /\ AccountsInv'
  BY ScenesSteps, AccountsStep DEF ScenesInv, CountsInv
<1>2. CASE scene = "joining"
  <2>1. CountsInv'
    BY <1>1, <1>2, JoiningCounts DEF ScenesInv, CountsInv
  <2>2. \A h \in Handlers : call'[h].pc \notin Counting
    BY <1>2, ScenesSteps DEF ScenesInv, Joining, Counting, Counts
  <2> QED
    BY <1>1, <1>2, <2>1, <2>2 DEF ScenesInv
<1>3. CASE scene # "joining"
  <2>1. AtMostOne
    BY <1>3 DEF ScenesInv, AtMostOne
  <2>2. SerialInv'
    BY <1>1, <1>3, <2>1, SerialStep DEF ScenesInv
  <2>3. \A h \in Handlers \ {FirstHandler} : call'[h].pc = "idle"
    BY <1>3, ScenesSteps, IdleType DEF ScenesInv, Alone
  <2> QED
    BY <1>1, <1>3, <2>2, <2>3 DEF ScenesInv, SerialInv
<1> QED
  BY <1>2, <1>3

LEMMA ScenesInvariant == MCSpec => []ScenesInv
  BY ScenesInit, ScenesStep, PTL DEF MCSpec

(* An organization keeps an owner in the composition, too, where handlers  *)
(* that write at once may come between the awaits of another: an unlock, a *)
(* suspension, a reset.                                                    *)
THEOREM OwnerStaysHere == MCSpec => []SerialOwnerRemains
<1>1. ScenesInv => SerialOwnerRemains
  BY SerialMeans DEF ScenesInv, SerialOwnerRemains
<1> QED
  BY <1>1, ScenesInvariant, PTL

(* Both logins lock in time in the composition, though an unlock may clear *)
(* a counter between the read of a login and its write.                    *)
THEOREM LockedInTimeHere == MCSpec => []SerialFailuresCounted
<1>1. ScenesInv => SerialFailuresCounted
  BY SerialMeans DEF ScenesInv, SerialFailuresCounted
<1> QED
  BY <1>1, ScenesInvariant, PTL

(* An invite makes one account in the composition, too. *)
THEOREM InvitedOnceHere == MCSpec => []InviteOnce
<1>1. ScenesInv => InviteOnce
  BY DEF ScenesInv, CountsInv, AccountsInv
<1> QED
  BY <1>1, ScenesInvariant, PTL
-----------------------------------------------------------------------------
(* The limits of the public pages, however many requests are in flight,    *)
(* from however many addresses, and wherever their processes die.  A       *)
(* counter has an expiry or exactly one request about to give it one, as   *)
(* long as no process has died.                                            *)

LimitPcs == {"none", "incr", "expire", "block", "challenge"}

LimitFlight == [pc: LimitPcs, from: RL!Keys, key: RL!Keys, count: Nat]

LimitsOK ==
  /\ hits \in [RL!Keys -> Nat] /\ passed \in [RL!Keys -> Nat]
  /\ expiry \in [RL!Keys -> BOOLEAN]
  /\ flight \in [Requests -> LimitFlight]
  /\ crashes \in Nat

(* A counter is not behind what it let through, and has an expiry only     *)
(* while it counts.                                                        *)
CountersCover ==
  \A k \in RL!Keys : /\ passed[k] <= hits[k] /\ passed[k] <= RL!LimitOf(k)
                     /\ expiry[k] => hits[k] > 0

Expiring(r, k) == flight[r].pc = "expire" /\ flight[r].key = k

(* A request on its way to set an expiry is the only one for that counter, *)
(* which has none yet; a counter without one has such a request.           *)
OneExpiring ==
  /\ \A r \in Requests, k \in RL!Keys : Expiring(r, k) => hits[k] > 0 /\ ~expiry[k]
  /\ \A r, s \in Requests, k \in RL!Keys : Expiring(r, k) /\ Expiring(s, k) => r = s
  /\ \A k \in RL!Keys : hits[k] > 0 /\ ~expiry[k] => \E r \in Requests : Expiring(r, k)

LimitsInv == LimitsOK /\ CountersCover /\ (crashes = 0 => OneExpiring)

LEMMA NoRequestType == RL!NoRequest \in LimitFlight /\ RL!NoRequest.pc = "none"
  BY DEF RL!NoRequest, LimitFlight, LimitPcs, RL!Keys

LEMMA OnwardType ==
  ASSUME NEW q \in LimitFlight
  PROVE  RL!Onward(q, q) \in LimitFlight /\ RL!Onward(q, q).pc # "expire"
  BY NoRequestType DEF RL!Onward, LimitFlight, LimitPcs, RL!Keys, RL!NoRequest

LEMMA OnwardSame == \A r, q : RL!Onward(r, q) = RL!Onward(q, q)
  BY DEF RL!Onward

(* A request that neither is nor becomes one about to set an expiry.       *)
LEMMA BystanderStep ==
  ASSUME LimitsInv, NEW r \in Requests, NEW q \in LimitFlight, RL!Becomes(r, q),
         q.pc # "expire", flight[r].pc # "expire" \/ crashes' # 0,
         hits' = hits, expiry' = expiry, passed' = passed,
         crashes' \in Nat, crashes' = 0 => crashes = 0
  PROVE  LimitsInv'
<1>1. LimitsOK'
  BY DEF LimitsInv, LimitsOK, RL!Becomes
<1>2. CountersCover'
  BY DEF LimitsInv, CountersCover, RL!LimitOf
<1>3. crashes' = 0 => OneExpiring'
  <2> SUFFICES ASSUME crashes' = 0 PROVE OneExpiring'
    OBVIOUS
  <2>1. \A s \in Requests, k \in RL!Keys : Expiring(s, k)' <=> Expiring(s, k)
    BY DEF LimitsInv, LimitsOK, RL!Becomes, Expiring
  <2> QED
    BY <2>1 DEF LimitsInv, OneExpiring
<1> QED
  BY <1>1, <1>2, <1>3 DEF LimitsInv

LEMMA IncrStep ==
  ASSUME LimitsInv, NEW r \in Requests, RL!Incr(r)
  PROVE  LimitsInv'
<1> DEFINE k == flight[r].key
           n == hits[k] + 1
           q == [flight[r] EXCEPT !.count = n]
           f == IF RL!Fresh(n) THEN [q EXCEPT !.pc = "expire"] ELSE RL!Onward(r, q)
<1>1. flight[r] \in LimitFlight /\ k \in RL!Keys /\ hits[k] \in Nat /\ n \in Nat \ {0}
  BY DEF LimitsInv, LimitsOK, LimitFlight
<1>2. q \in LimitFlight /\ q.key = k /\ q.count = n
  BY <1>1 DEF LimitFlight
<1>3. f \in LimitFlight /\ (f.pc = "expire" <=> n = 1) /\ (n = 1 => f.key = k)
  <2>1. CASE n = 1
    BY <1>2, <2>1 DEF RL!Fresh, LimitFlight, LimitPcs
  <2>2. CASE n # 1
    <3>1. f = RL!Onward(q, q)
      BY <2>2, OnwardSame DEF RL!Fresh
    <3> QED
      BY <1>2, <2>2, <3>1, OnwardType
  <2> QED
    BY <2>1, <2>2
<1>4. hits' = [hits EXCEPT ![k] = n] /\ expiry' = expiry /\ crashes' = crashes
  BY DEF RL!Incr
<1>5. passed' = IF RL!Within(k, n) THEN [passed EXCEPT ![k] = @ + 1] ELSE passed
  BY <1>2 DEF RL!Incr
<1>6. flight' = [flight EXCEPT ![r] = f] /\ flight[r].pc = "incr"
  BY <1>2 DEF RL!Incr, RL!Becomes
<1> HIDE DEF f, q
<1>7. LimitsOK'
  BY <1>1, <1>3, <1>4, <1>5, <1>6 DEF LimitsInv, LimitsOK
<1>8. CountersCover'
  <2> SUFFICES ASSUME NEW j \in RL!Keys
               PROVE  /\ passed'[j] <= hits'[j] /\ passed'[j] <= RL!LimitOf(j)
                      /\ expiry'[j] => hits'[j] > 0
    BY DEF CountersCover, RL!LimitOf
  <2>1. RL!LimitOf(j) \in Nat
    BY AdministrationAssumption DEF RL!LimitOf
  <2>2. CASE j # k
    BY <1>1, <1>4, <1>5, <2>2 DEF LimitsInv, LimitsOK, CountersCover
  <2>3. CASE j = k
    BY <1>1, <1>4, <1>5, <2>1, <2>3 DEF LimitsInv, LimitsOK, CountersCover, RL!Within
  <2> QED
    BY <2>2, <2>3
<1>9. crashes' = 0 => OneExpiring'
  <2> SUFFICES ASSUME crashes = 0 PROVE OneExpiring'
    BY <1>4
  <2>1. OneExpiring
    BY DEF LimitsInv
  <2>2. ASSUME NEW s \in Requests, NEW j \in RL!Keys
        PROVE  Expiring(s, j)' <=> IF s = r THEN n = 1 /\ j = k ELSE Expiring(s, j)
    BY <1>3, <1>6, <2>2 DEF Expiring, LimitsInv, LimitsOK
  <2>3. ~ \E j \in RL!Keys : Expiring(r, j)
    BY <1>6 DEF Expiring
  <2>4. n = 1 => ~expiry[k] /\ \A s \in Requests : ~Expiring(s, k)
    BY <1>1, <2>1 DEF OneExpiring, LimitsInv, LimitsOK, CountersCover
  <2>5. \A j \in RL!Keys : hits'[j] = IF j = k THEN n ELSE hits[j]
    BY <1>4 DEF LimitsInv, LimitsOK
  <2>6. \A s \in Requests, j \in RL!Keys : Expiring(s, j)' => hits'[j] > 0 /\ ~expiry'[j]
    BY <1>1, <1>4, <2>1, <2>2, <2>4, <2>5 DEF OneExpiring
  <2>7. \A s, t \in Requests, j \in RL!Keys : Expiring(s, j)' /\ Expiring(t, j)' => s = t
    BY <2>1, <2>2, <2>4 DEF OneExpiring
  <2>8. ASSUME NEW j \in RL!Keys, hits'[j] > 0, ~expiry'[j]
        PROVE  \E s \in Requests : Expiring(s, j)'
    <3>1. CASE j = k /\ n = 1
      BY <2>2, <3>1
    <3>2. CASE ~(j = k /\ n = 1)
      <4>1. hits[j] > 0 /\ ~expiry[j]
        BY <1>1, <1>4, <2>5, <2>8, <3>2
      <4>2. PICK s \in Requests : Expiring(s, j)
        BY <2>1, <4>1 DEF OneExpiring
      <4> QED
        BY <2>2, <2>3, <4>2
    <3> QED
      BY <3>1, <3>2
  <2> QED
    BY <2>6, <2>7, <2>8 DEF OneExpiring
<1> QED
  BY <1>7, <1>8, <1>9 DEF LimitsInv

LEMMA SetExpiryStep ==
  ASSUME LimitsInv, NEW r \in Requests, RL!SetExpiry(r)
  PROVE  LimitsInv'
<1> DEFINE k == flight[r].key
           f == RL!Onward(r, flight[r])
<1>1. flight[r] \in LimitFlight /\ k \in RL!Keys /\ flight[r].pc = "expire"
  BY DEF LimitsInv, LimitsOK, LimitFlight, RL!SetExpiry
<1>2. f \in LimitFlight /\ f.pc # "expire"
  BY <1>1, OnwardType, OnwardSame
<1>3. /\ expiry' = [expiry EXCEPT ![k] = hits[k] > 0] /\ flight' = [flight EXCEPT ![r] = f]
      /\ hits' = hits /\ passed' = passed /\ crashes' = crashes
  BY DEF RL!SetExpiry, RL!Becomes
<1> HIDE DEF f
<1>4. LimitsOK'
  BY <1>1, <1>2, <1>3 DEF LimitsInv, LimitsOK
<1>5. CountersCover'
  BY <1>1, <1>3 DEF LimitsInv, LimitsOK, CountersCover
<1>6. crashes' = 0 => OneExpiring'
  <2> SUFFICES ASSUME crashes = 0 PROVE OneExpiring'
    BY <1>3
  <2>1. OneExpiring
    BY DEF LimitsInv
  <2>2. hits[k] > 0 /\ \A j \in RL!Keys : expiry'[j] = IF j = k THEN TRUE ELSE expiry[j]
    BY <1>1, <1>3, <2>1 DEF OneExpiring, Expiring, LimitsInv, LimitsOK
  <2>3. \A s \in Requests, j \in RL!Keys : Expiring(s, j)' <=> s # r /\ Expiring(s, j)
    BY <1>2, <1>3 DEF Expiring, LimitsInv, LimitsOK
  <2>4. \A s \in Requests : Expiring(s, k) => s = r
    BY <1>1, <2>1 DEF OneExpiring, Expiring
  <2>5. \A j \in RL!Keys : Expiring(r, j) => j = k
    BY DEF Expiring
  <2>6. ASSUME NEW s \in Requests, NEW j \in RL!Keys, Expiring(s, j)'
        PROVE  hits'[j] > 0 /\ ~expiry'[j]
    <3>1. s # r /\ Expiring(s, j) /\ j # k
      BY <2>3, <2>4, <2>6
    <3> QED
      BY <1>3, <2>1, <2>2, <3>1 DEF OneExpiring
  <2>7. \A s, t \in Requests, j \in RL!Keys : Expiring(s, j)' /\ Expiring(t, j)' => s = t
    BY <2>1, <2>3 DEF OneExpiring
  <2>8. ASSUME NEW j \in RL!Keys, hits'[j] > 0, ~expiry'[j]
        PROVE  \E s \in Requests : Expiring(s, j)'
    <3>1. j # k /\ hits[j] > 0 /\ ~expiry[j]
      BY <1>3, <2>2, <2>8
    <3>2. PICK s \in Requests : Expiring(s, j)
      BY <2>1, <3>1 DEF OneExpiring
    <3> QED
      BY <2>3, <2>5, <3>1, <3>2
  <2> QED
    BY <2>6, <2>7, <2>8 DEF OneExpiring
<1> QED
  BY <1>4, <1>5, <1>6 DEF LimitsInv

LEMMA KeyExpiresStep ==
  ASSUME LimitsInv, NEW k \in RL!Keys, RL!KeyExpires(k)
  PROVE  LimitsInv'
<1>1. LimitsOK'
  BY DEF LimitsInv, LimitsOK, RL!KeyExpires
<1>2. CountersCover'
  BY AdministrationAssumption DEF LimitsInv, LimitsOK, CountersCover, RL!KeyExpires, RL!LimitOf
<1>3. crashes' = 0 => OneExpiring'
  <2> SUFFICES ASSUME crashes = 0 PROVE OneExpiring'
    BY DEF RL!KeyExpires
  <2>1. \A s \in Requests, j \in RL!Keys : Expiring(s, j)' <=> Expiring(s, j)
    BY DEF RL!KeyExpires, Expiring
  <2>2. \A j \in RL!Keys : j # k => hits'[j] = hits[j] /\ expiry'[j] = expiry[j]
    BY DEF RL!KeyExpires, LimitsInv, LimitsOK
  <2>3. expiry[k] /\ hits'[k] = 0
    BY DEF RL!KeyExpires, LimitsInv, LimitsOK
  <2> QED
    BY <2>1, <2>2, <2>3 DEF OneExpiring, LimitsInv
<1> QED
  BY <1>1, <1>2, <1>3 DEF LimitsInv

LEMMA LimitsInit == RL!Init => LimitsInv
  BY NoRequestType, AdministrationAssumption DEF RL!Init, LimitsInv, LimitsOK, CountersCover, OneExpiring, Expiring, RL!LimitOf

LEMMA LimitsNext ==
  ASSUME LimitsInv, [RL!Next]_(RL!vars)
  PROVE  LimitsInv'
<1>1. ASSUME NEW r \in Requests, RL!Serve(r) PROVE LimitsInv'
  <2>1. CASE RL!SetBlock(r) \/ RL!Challenged(r)
    BY <2>1, NoRequestType, BystanderStep DEF RL!SetBlock, RL!Challenged, RL!Redis, LimitsInv, LimitsOK
  <2> QED
    BY <1>1, <2>1, IncrStep, SetExpiryStep DEF RL!Serve
<1>2. ASSUME NEW r \in Requests, RL!Crash(r) PROVE LimitsInv'
  <2>1. crashes' \in Nat /\ crashes' # 0
    BY <1>2 DEF RL!Crash, LimitsInv, LimitsOK
  <2> QED
    BY <1>2, <2>1, NoRequestType, BystanderStep DEF RL!Crash, RL!Redis
<1>3. ASSUME NEW r \in Requests, NEW a \in Addresses, RL!Arrive(r, a) PROVE LimitsInv'
  <2>1. [pc |-> "incr", from |-> a, key |-> a, count |-> 0] \in LimitFlight
    BY DEF LimitFlight, LimitPcs, RL!Keys
  <2> QED
    BY <1>3, <2>1, BystanderStep DEF RL!Arrive, RL!Redis, LimitsInv, LimitsOK
<1>4. ASSUME NEW a \in Addresses, RL!BlockEnds(a) PROVE LimitsInv'
  BY <1>4 DEF RL!BlockEnds, LimitsInv, LimitsOK, CountersCover, OneExpiring, Expiring, RL!LimitOf
<1>5. CASE UNCHANGED RL!vars
  BY <1>5 DEF RL!vars, LimitsInv, LimitsOK, CountersCover, OneExpiring, Expiring, RL!LimitOf
<1> QED
  BY <1>1, <1>2, <1>3, <1>4, <1>5, KeyExpiresStep DEF RL!Next

LEMMA LimitsMean == LimitsInv => RL!KeysAccounted
<1>0. \A S : RL!Cardinality(S) = Cardinality(S)
  BY DEF RL!Cardinality, Cardinality
<1> SUFFICES ASSUME LimitsInv, NEW k \in RL!Keys
             PROVE  /\ passed[k] <= RL!LimitOf(k)
                    /\ (hits[k] > 0 /\ ~expiry[k] /\ crashes = 0) =>
                         Cardinality({r \in Requests : flight[r].pc = "expire" /\ flight[r].key = k}) = 1
  BY <1>0 DEF RL!KeysAccounted
<1>1. passed[k] <= RL!LimitOf(k)
  BY DEF LimitsInv, CountersCover
<1>2. ASSUME hits[k] > 0, ~expiry[k], crashes = 0
      PROVE  Cardinality({r \in Requests : flight[r].pc = "expire" /\ flight[r].key = k}) = 1
  <2>1. PICK r \in Requests : Expiring(r, k)
    BY <1>2 DEF LimitsInv, OneExpiring
  <2>2. {s \in Requests : flight[s].pc = "expire" /\ flight[s].key = k} = {r}
    BY <1>2, <2>1 DEF LimitsInv, OneExpiring, Expiring
  <2> QED
    BY <2>2, FS_Singleton
<1> QED
  BY <1>1, <1>2

(* SlugRateLimitService.assertWithinLimit and ThrottlerRedisStorage on     *)
(* their own: no more requests pass within a window than its limit, however*)
(* they overlap and whoever dies; without deaths every counter expires, as *)
(* it has an expiry or exactly one request about to set it.                *)
THEOREM LimitsKept == RL!Spec => []RL!KeysAccounted
  BY LimitsMean, LimitsInit, LimitsNext, PTL DEF RL!Spec

LEMMA LimitsStep ==
  ASSUME LimitsInv, [MCNext]_<<vars, others, scene>>
  PROVE  LimitsInv'
<1>1. [RL!Next]_(RL!vars)
  <2>1. CASE MCNext /\ scene = "limits" /\ RL!Next
    BY <2>1
  <2>2. CASE UNCHANGED limitVars
    BY <2>2 DEF limitVars, RL!vars
  <2>3. UNCHANGED others => UNCHANGED limitVars
    BY DEF others
  <2> QED
    BY <2>1, <2>2, <2>3 DEF MCNext, Drafting
<1> QED
  BY <1>1, LimitsNext

(* The same in the composition, which runs the drafts and the accounts     *)
(* beside the public pages.                                                *)
THEOREM LimitsKeptHere == MCSpec => []KeysAccounted
<1>1. MCInit => LimitsInv
  BY LimitsInit DEF MCInit
<1>2. LimitsInv => KeysAccounted
  BY LimitsMean DEF KeysAccounted
<1> QED
  BY <1>1, <1>2, LimitsStep, PTL DEF MCSpec

-----------------------------------------------------------------------------
(* The credits, the same way. *)
DP == INSTANCE AiDraftsProofs WITH Calls <- Handlers, MaxDeaths <- MaxAborts

LEMMA DraftsSame ==
  /\ AI!Resting = DP!Resting /\ AI!Init = DP!Init
  /\ AI!CurrentWindow = DP!CurrentWindow /\ AI!UnderLimit = DP!UnderLimit
  /\ \A c, pc : AI!At(c, pc) = DP!At(c, pc) /\ AI!To(c, pc) = DP!To(c, pc)
  /\ \A r : AI!Consumed(r) = DP!Consumed(r)
<1>1. AI!Resting = DP!Resting /\ AI!CurrentWindow = DP!CurrentWindow
  BY DEF AI!Resting, DP!Resting, AI!CurrentWindow, DP!CurrentWindow
<1> QED
  BY <1>1 DEF AI!Init, DP!Init, AI!UnderLimit, DP!UnderLimit, AI!At, DP!At, AI!To, DP!To, AI!Consumed, DP!Consumed

LEMMA DraftsNextSame == AI!Next \/ UNCHANGED draftVars => [DP!Next]_(DP!vars)
<1>1. ASSUME NEW c \in Handlers, AI!Handle(c) PROVE DP!Handle(c)
  <2>1. AI!Record(c) => DP!Record(c)
    BY DraftsSame DEF AI!Record, DP!Record, AI!Job, DP!Job
  <2>2. AI!Transcribed(c) => DP!Transcribed(c)
    BY DraftsSame DEF AI!Transcribed, DP!Transcribed, AI!Job, DP!Job
  <2>3. AI!CheckCredit(c) => DP!CheckCredit(c)
    BY DraftsSame DEF AI!CheckCredit, DP!CheckCredit, AI!Job, DP!Job
  <2>4. AI!ModelAnswers(c) => DP!ModelAnswers(c)
    BY DraftsSame DEF AI!ModelAnswers, DP!ModelAnswers, AI!Job, DP!Job
  <2>5. AI!ReadCredit(c) => DP!ReadCredit(c)
    BY DraftsSame DEF AI!ReadCredit, DP!ReadCredit, AI!Job, DP!Job
  <2>6. AI!Consume(c) => DP!Consume(c)
    BY DraftsSame DEF AI!Consume, DP!Consume, AI!Job, DP!Job
  <2>7. AI!KeepDraft(c) => DP!KeepDraft(c)
    BY DraftsSame DEF AI!KeepDraft, DP!KeepDraft, AI!Job, DP!Job
  <2>8. AI!Confirm(c) => DP!Confirm(c)
    BY DraftsSame DEF AI!Confirm, DP!Confirm, AI!Job, DP!Job
  <2>9. AI!ClearDraft(c) => DP!ClearDraft(c)
    BY DraftsSame DEF AI!ClearDraft, DP!ClearDraft, AI!Job, DP!Job
  <2>10. AI!Die(c) => DP!Die(c)
    BY DraftsSame DEF AI!Die, DP!Die, AI!Job, DP!Job
  <2>11. ASSUME NEW given \in BOOLEAN, AI!Ask(c, given) PROVE DP!Ask(c, given)
    BY <2>11, DraftsSame DEF AI!Ask, DP!Ask, AI!Job, DP!Job
  <2> QED
    BY <1>1, <2>1, <2>2, <2>3, <2>4, <2>5, <2>6, <2>7, <2>8, <2>9, <2>10, <2>11 DEF AI!Handle, DP!Handle
<1>2. AI!MonthTurns => DP!MonthTurns
  BY DEF AI!MonthTurns, DP!MonthTurns, AI!Job, DP!Job
<1>3. UNCHANGED draftVars => UNCHANGED DP!vars
  BY DEF draftVars, DP!vars
<1> QED
  BY <1>1, <1>2, <1>3 DEF AI!Next, DP!Next

LEMMA CreditsSame == (DP!CreditsCover => AI!CreditsCover) /\ (DP!NeverOvercharged => AI!NeverOvercharged)
<1>1. \A S : AI!Cardinality(S) = DP!Cardinality(S)
  BY DEF AI!Cardinality, DP!Cardinality
<1>2. {c \in Handlers : AI!At(c, "keep")} = {c \in Handlers : DP!At(c, "keep")}
  BY DraftsSame
<1> QED
  BY <1>1, <1>2 DEF AI!CreditsCover, DP!CreditsCover, AI!SpentWithinPlan, DP!SpentWithinPlan,
     AI!NeverOvercharged, DP!NeverOvercharged


(* In every scene the counter is not ahead and no more is counted than was *)
(* asked for; but for the rush one handler draws up drafts.                *)
CreditsInv ==
  /\ DP!CountInv /\ DP!AskedInv
  /\ scene # "rush" => DP!SpendInv(FirstHandler)

LEMMA FirstIsHandler == FirstHandler \in Handlers
  BY AdministrationAssumption DEF FirstHandler

LEMMA HandlersFinite == DP!IsFiniteSet(Handlers)
  BY AdministrationAssumption DEF IsFiniteSet, DP!IsFiniteSet

LEMMA CreditsInit == MCInit => CreditsInv
<1> SUFFICES ASSUME MCInit PROVE CreditsInv
  OBVIOUS
<1>1. DP!Init
  BY DraftsSame DEF MCInit
<1> QED
  BY <1>1, FirstIsHandler, AdministrationAssumption, DP!CountInit, DP!AskedInit, DP!SpendInit DEF CreditsInv

(* What a step of the composition is for the drafts. *)
LEMMA CreditsSteps ==
  ASSUME [MCNext]_<<vars, others, scene>>
  PROVE  /\ [DP!Next]_(DP!vars) /\ scene' = scene
         /\ scene # "rush" => UNCHANGED run \/ \A h \in Handlers \ {FirstHandler} : run'[h] = AI!Resting
<1>1. CASE MCNext /\ scene \in {"drafts", "rush"} /\ Drafting
  BY <1>1, DraftsNextSame DEF MCNext, Drafting
<1>2. CASE UNCHANGED draftVars /\ UNCHANGED scene
  BY <1>2, DraftsNextSame DEF draftVars
<1>3. UNCHANGED others => UNCHANGED draftVars
  BY DEF others
<1> QED
  BY <1>1, <1>2, <1>3 DEF MCNext

LEMMA CreditsStep == ASSUME CreditsInv, [MCNext]_<<vars, others, scene>> PROVE CreditsInv'
<1>1. [DP!Next]_(DP!vars) /\ scene' = scene /\ DP!DraftsOK
  BY CreditsSteps DEF CreditsInv, DP!CountInv
<1>2. DP!CountInv' /\ DP!AskedInv'
  BY <1>1, AdministrationAssumption, HandlersFinite, DP!CountNext, DP!AskedNext DEF CreditsInv
<1>3. ASSUME scene # "rush" PROVE DP!SpendInv(FirstHandler)'
  <2>1. DP!SpendInv(FirstHandler) /\ DP!Rest(FirstHandler)
    BY <1>3 DEF CreditsInv, DP!SpendInv
  <2>2. DP!Rest(FirstHandler)'
    BY <1>3, <2>1, CreditsSteps DEF DP!Rest, DP!At, AI!Resting
  <2>3. DP!DraftsOK'
    BY <1>2 DEF DP!CountInv
  <2> QED
    BY <1>1, <2>1, <2>2, <2>3, FirstIsHandler, AdministrationAssumption, DP!SpendNext
<1> QED
  BY <1>1, <1>2, <1>3 DEF CreditsInv

LEMMA CreditsInvariant == MCSpec => []CreditsInv
  BY CreditsInit, CreditsStep, PTL DEF MCSpec

(* One draft at a time, no more credits are spent in a month than the plan *)
(* allows and each has its draft kept, unless its handler dies; with any   *)
(* number at once the counter is never ahead of the drafts made.           *)
THEOREM CreditsCoverHere == MCSpec => []CreditsCover
<1>1. CreditsInv => CreditsCover
  BY FirstIsHandler, CreditsSame, DP!SpendMeans DEF CreditsInv, CreditsCover, DP!CountInv
<1> QED
  BY <1>1, CreditsInvariant, PTL

(* Rows keep their types in every scene: a lock clears the counter it is   *)
(* for, and no more credits are counted than drafts were asked for.        *)
THEOREM RowsStayTyped == MCSpec => []RowsTyped
<1>1. ASSUME ScenesInv, CreditsInv PROVE RowsTyped
  <2>1. TypeOK /\ \A u \in Users, c \in Counts : user[u].failed[c] < MaxFailed
    BY <1>1 DEF ScenesInv, CountsInv, AccountsInv, CountsKept
  <2>2. credits \in [used: 0..MaxAsked, resetAt: 0..Months]
    BY <1>1, HandlersFinite, AdministrationAssumption, DP!CounterBounded DEF CreditsInv
  <2> QED
    BY <2>1, <2>2 DEF RowsTyped
<1> QED
  BY <1>1, ScenesInvariant, CreditsInvariant, PTL
=============================================================================
