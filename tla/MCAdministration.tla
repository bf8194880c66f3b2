-------------------------- MODULE MCAdministration --------------------------
(* Accounts, the credits of an organization's invoice drafts, and the      *)
(* limits of its public pages, for TLC.                                    *)
EXTENDS Accounts

CONSTANTS Limit, Months, MaxAsked, Addresses, Slug, Requests, PerAddress, PerSlug, MaxHits

ASSUME AdministrationAssumption ==
  /\ Handlers # {} /\ IsFiniteSet(Handlers)
  /\ Limit \in Nat /\ Months \in Nat \ {0} /\ MaxAsked \in Nat
  /\ PerAddress \in Nat /\ PerSlug \in Nat

VARIABLES
  scene,
  credits, month, transcript, draft, run, tally,
  hits, expiry, block, flight, passed, crashes

AI == INSTANCE AiDrafts WITH Calls <- Handlers, MaxDeaths <- MaxAborts

RL == INSTANCE RateLimits WITH MaxCrashes <- MaxAborts

draftVars == <<credits, month, transcript, draft, run, tally>>
limitVars == <<hits, expiry, block, flight, passed, crashes>>
others    == <<draftVars, limitVars>>

FirstUser    == CHOOSE u \in Users \ Admins : TRUE
FirstInvite  == CHOOSE i \in Invites : TRUE
FirstHandler == CHOOSE h \in Handlers : TRUE

MCInit ==
  /\ Init /\ AI!Init /\ RL!Init
  /\ scene \in {"owners", "logins", "joining", "drafts", "rush", "limits"}

(* One handler at a time. *)
Alone == \A h \in Handlers \ {FirstHandler} : call'[h] = Idle

(* Roles change, members come and go; nobody fails a login. *)
Owning ==
  /\ Alone /\ UNCHANGED <<wrong, reset>>
  /\ call'[FirstHandler].pc \notin {"password", "code"}
  /\ \A i \in Invites :
       invite'[i].status = "ABSENT" \/ (i = FirstInvite /\ invite'[i].status # "EXPIRED")
  /\ \A o \in Orgs : org'[o].flags \subseteq {"isSuspended"}
  /\ \A u \in Users : user'[u].role # "TECHNICIAN"

(* Logins of two accounts, one of a super admin. *)
LoggingIn ==
  /\ Alone /\ UNCHANGED <<invite, joined>>
  /\ call'[FirstHandler].pc \in {"idle", "register", "password", "code", "resetPassword"}
  /\ \A u \in Users \ Admins : user'[u].present => u = FirstUser
  /\ \A o \in Orgs : org'[o].flags = {}

(* Registrations and acceptances overlap. *)
Joining ==
  /\ UNCHANGED <<wrong, reset>>
  /\ \A h \in Handlers : call'[h].pc \in {"idle", "register", "invite", "acceptInvite"}
  /\ \A i \in Invites : invite'[i].role = "EMPLOYEE"
  /\ \A o \in Orgs : org'[o].flags = {}
  /\ \A u \in Users : ~user'[u].suspended

(* Drafts, one handler at a time; then any number at once. *)
Drafting ==
  /\ AI!Next /\ UNCHANGED <<vars, limitVars>>
  /\ scene = "drafts" => \A h \in Handlers \ {FirstHandler} : run'[h] = AI!Resting

MCNext ==
  /\ \/ /\ Next /\ UNCHANGED others
        /\ \/ scene = "owners" /\ Owning
           \/ scene = "logins" /\ LoggingIn
           \/ scene = "joining" /\ Joining
     \/ scene \in {"drafts", "rush"} /\ Drafting
     \/ scene = "limits" /\ RL!Next /\ UNCHANGED <<vars, draftVars>>
  /\ UNCHANGED scene

MCSpec == MCInit /\ [][MCNext]_<<vars, others, scene>> /\ RL!Fairness

(* Rows of accounts, and of an organization's credits, keep their types:   *)
(* what is counted is never negative and a lock clears its counter.        *)
RowsTyped ==
  /\ TypeOK
  /\ \A u \in Users, c \in Counts : user[u].failed[c] < MaxFailed
  /\ credits \in [used: 0..MaxAsked, resetAt: 0..Months]

(* One handler at a time, an organization keeps an owner through changes   *)
(* of role, removals and transfers of ownership (updateRole, remove).      *)
SerialOwnerRemains == scene # "joining" => OwnerRemains

(* One login at a time, wrong passwords and codes lock the account before  *)
(* they are too many (login, verifyMfa, AdminAuthService).                 *)
SerialFailuresCounted == scene # "joining" => FailuresCounted

(* One draft at a time, the month's credits are enough for the drafts made *)
(* with them; with any number, the counter is not ahead of the drafts.     *)
CreditsCover == (scene # "rush" => AI!CreditsCover) /\ AI!NeverOvercharged

(* However requests overlap, no more pass in a window than its limit, and  *)
(* each new counter has a request about to give it an expiry.              *)
KeysAccounted == RL!KeysAccounted

(* A page or an address over its limit is open again in time, unless a     *)
(* request died between the two calls that make its counter.               *)
PageReopens == RL!PageReopens
=============================================================================
