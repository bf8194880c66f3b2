-------------------------- MODULE MCRefreshTokens --------------------------
(* RefreshTokens for TLC.  A behaviour explores one of three scenarios,    *)
(* chosen at the start: they are bounds, no step differs.  Tokens and      *)
(* handlers are interchangeable.                                           *)
EXTENDS RefreshTokens, TLC

AllOps == {"login", "refresh", "logout", "revokeSessions", "disable", "enable",
           "removeCompany", "expire"}

Symmetry == Permutations(Tokens) \cup Permutations(Handlers)

VARIABLE scenario

(* An account whose tokens do not expire and whose company stays.          *)
Lasting == \A k \in Tokens : ~token[k].expired /\ ended[k] # "company"

(* Challenges come with no death, and are used for the first tokens. *)
FewRows == aborts = 0 /\ Cardinality({k \in Tokens : token[k].status # "none"}) <= 3

MCInit == Init /\ scenario \in {"serial", "challenged", "overlapping"}

Serial == scenario # "overlapping"

(* Handlers one after the other. *)
SerialNext ==
  \/ \E h \in Handlers : Step(h) /\ \A g \in Handlers \ {h} : req[g].pc = "idle"
  \/ ChallengeExpires \/ \E k \in Tokens : Expire(k)

MCNext ==
  /\ UNCHANGED scenario
  /\ \/ Serial /\ SerialNext
     \/ ~Serial /\ Next /\ Lasting'
  /\ scenario = "serial" => ~challenge'
  /\ scenario = "challenged" => Lasting'
  /\ challenge' => FewRows'

MCSpec == MCInit /\ [][MCNext]_<<vars, scenario>>

-----------------------------------------------------------------------------
(* One use of a token gives one successor (rotateRefreshToken): no two     *)
(* usable tokens of one family are ever in clients' hands, when handlers   *)
(* do not overlap.                                                         *)
SerialOneUsable == Serial => OneUsablePerFamily

(* A family that was revoked as a whole (revokeFamily, resetPassword,      *)
(* disable, CompaniesService.remove) has no live token, and a disabled     *)
(* account (disable, TeamService.remove) no session but what verifyMfa     *)
(* opened, without looking, on a challenge got before: none of it renewed  *)
(* while the account is disabled.  When handlers do not overlap.           *)
SerialSessionsClosed ==
  Serial => EndedStaysEnded /\ DisabledHasOnlyLate

(* When handlers do not overlap, the token table is a table of sessions    *)
(* that open once and, once ended, stay ended (TokenService as a whole).   *)
SerialImplementsSessions ==
  [][Serial => S!Next]_[f \in Tokens |-> SessionOf(f)]
=============================================================================
