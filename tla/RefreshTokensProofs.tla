------------------------ MODULE RefreshTokensProofs ------------------------
(***************************************************************************)
(* Proofs about RefreshTokens, for any number of tokens and of handlers    *)
(* in flight: with handlers overlapping first, then one after the other    *)
(* (the serial scenarios of MCRefreshTokens), and last with their client,  *)
(* the pages of ClientSessions.                                            *)
(***************************************************************************)
EXTENDS MCRefreshTokens, ClientSessions, FiniteSetTheorems, TLAPS

(* What a handler in flight knows of the token it holds. *)
FlightInv ==
  \A h \in Handlers :
    /\ req[h].pc \in {"rotate", "retire", "kill"} =>
         req[h].tok \in Tokens /\ token[req[h].tok].status # "none"
    /\ req[h].pc = "retire" =>
         /\ req[h].new \in Tokens /\ token[req[h].new].status # "none"
         /\ token[req[h].new].parent = req[h].tok
         /\ token[req[h].new].family = token[req[h].tok].family

DeliveredIssued == \A k \in delivered : token[k].status # "none"

(* A row that was not inserted belongs to no family and has no parent. *)
Unissued == \A k \in Tokens : token[k].status = "none" => token[k] = NoRow

TokensInv == TypeOK /\ FlightInv /\ DeliveredIssued /\ Unissued /\ ParentRetired

-----------------------------------------------------------------------------
LEMMA IdleType == Idle \in Flight
  BY DEF Idle, Flight, Causes

LEMMA FreshType ==
  ASSUME NEW f \in Tokens \cup {NoToken}, NEW p \in Tokens \cup {NoToken}, NEW l \in BOOLEAN
  PROVE  Fresh(f, p, l) \in Rows
  BY DEF Fresh, Rows

(* updateMany of revokedAt touches nothing but the status of live rows. *)
LEMMA RevokedRows ==
  ASSUME TypeOK, NEW T
  PROVE  /\ Revoked(T) \in [Tokens -> Rows]
         /\ \A k \in Tokens :
              /\ Revoked(T)[k].family = token[k].family
              /\ Revoked(T)[k].parent = token[k].parent
              /\ Revoked(T)[k].late = token[k].late
              /\ Revoked(T)[k].status = "none" <=> token[k].status = "none"
              /\ token[k].status = "revoked" => Revoked(T)[k].status = "revoked"
              /\ token[k].status = "none" => Revoked(T)[k] = token[k]
              /\ Revoked(T)[k].status = "live" => token[k].status = "live" /\ k \notin T
<1>1. token \in [Tokens -> Rows]
  BY DEF TypeOK
<1>2. \A k \in Tokens : /\ Revoked(T)[k] \in Rows
                        /\ k \in T /\ Live(k) => Revoked(T)[k] = [token[k] EXCEPT !.status = "revoked"]
                        /\ ~(k \in T /\ Live(k)) => Revoked(T)[k] = token[k]
  BY <1>1 DEF Revoked, Rows, Live
<1>3. Revoked(T) \in [Tokens -> Rows]
  BY <1>2 DEF Revoked
<1> QED
  BY <1>1, <1>2, <1>3 DEF Rows, Live

(* A step after which every row keeps its family and parent, no row comes  *)
(* or goes, no revoked row comes back and nothing is delivered keeps the   *)
(* invariant, if the handler it moves is idle afterwards.                  *)
LEMMA RowsKept ==
  ASSUME TokensInv, TypeOK',
         \A k \in Tokens : /\ token'[k].family = token[k].family
                           /\ token'[k].parent = token[k].parent
                           /\ token'[k].status = "none" <=> token[k].status = "none"
                           /\ token[k].status = "revoked" => token'[k].status = "revoked"
                           /\ token[k].status = "none" => token'[k] = token[k],
         delivered' = delivered,
         \A h \in Handlers : req'[h] = req[h] \/ req'[h].pc \in {"idle", "login", "late"}
  PROVE  TokensInv'
<1>1. FlightInv'
  BY DEF TokensInv, FlightInv, TypeOK, Flight
<1>2. DeliveredIssued' /\ Unissued'
  BY DEF TokensInv, DeliveredIssued, Unissued, TypeOK, NoRow
<1>3. ParentRetired'
  BY DEF TokensInv, ParentRetired, TypeOK, Rows
<1> QED
  BY <1>1, <1>2, <1>3 DEF TokensInv

-----------------------------------------------------------------------------
LEMMA InitTokens == Init => TokensInv
<1> SUFFICES ASSUME Init PROVE TokensInv
  OBVIOUS
<1>1. NoRow \in Rows
  BY DEF NoRow, Rows
<1>2. TypeOK
  <2>1. token \in [Tokens -> Rows] /\ HasFamily
    BY <1>1 DEF Init, HasFamily, NoRow
  <2>2. req \in [Handlers -> Flight]
    BY IdleType DEF Init
  <2>3. aborts \in 0..MaxAborts
    BY TokensAssumption DEF Init
  <2> QED
    BY <2>1, <2>2, <2>3 DEF Init, TypeOK
<1>3. FlightInv /\ DeliveredIssued /\ Unissued /\ ParentRetired
  BY DEF Init, FlightInv, DeliveredIssued, Unissued, ParentRetired, Idle, NoRow
<1> QED
  BY <1>2, <1>3 DEF TokensInv

LEMMA LoginReadStep ==
  ASSUME TokensInv, NEW h \in Handlers, LoginRead(h) \/ VerifyRead(h)
  PROVE  TokensInv'
<1>1. PICK pc \in {"login", "late"} : req' = [req EXCEPT ![h] = [Idle EXCEPT !.pc = pc]]
  BY DEF LoginRead, VerifyRead, Becomes
<1>2. [Idle EXCEPT !.pc = pc] \in Flight
  BY DEF Idle, Flight, Causes
<1>3. UNCHANGED rows
  BY DEF LoginRead, VerifyRead
<1>4. TypeOK'
  BY <1>1, <1>2, <1>3 DEF TokensInv, TypeOK, HasFamily, rows, Started
<1>5. \A g \in Handlers : req'[g] = req[g] \/ req'[g].pc \in {"idle", "login", "late"}
  BY <1>1 DEF TokensInv, TypeOK, Idle
<1> QED
  BY <1>3, <1>4, <1>5, RowsKept DEF rows

(* A challenge is given or expires: no row changes. *)
LEMMA ChallengeStep ==
  ASSUME TokensInv, UNCHANGED <<token, delivered, suspended, ended, aborts>>, challenge' \in BOOLEAN,
         req' = req \/ \E h \in Handlers : req' = [req EXCEPT ![h] = Idle]
  PROVE  TokensInv'
<1>1. TypeOK'
  BY IdleType DEF TokensInv, TypeOK, HasFamily, Started
<1>2. \A g \in Handlers : req'[g] = req[g] \/ req'[g].pc \in {"idle", "login", "late"}
  BY DEF TokensInv, TypeOK, Idle
<1> QED
  BY <1>1, <1>2, RowsKept

LEMMA IssueNewFamilyStep ==
  ASSUME TokensInv, NEW h \in Handlers, NEW n \in Tokens, IssueNewFamily(h, n)
  PROVE  TokensInv'
<1>1. /\ token[n] = NoRow /\ n \notin delivered
      /\ token' = [token EXCEPT ![n] = Fresh(n, NoToken, req[h].pc = "late")]
      /\ delivered' \subseteq delivered \cup {n}
      /\ req' = [req EXCEPT ![h] = Idle]
  BY DEF IssueNewFamily, TokensInv, DeliveredIssued, Unissued, Becomes
<1>2. Fresh(n, NoToken, req[h].pc = "late") \in Rows
  BY FreshType
<1>3. /\ token'[n].status = "live" /\ token'[n].family = n /\ token'[n].parent = NoToken
      /\ \A k \in Tokens \ {n} : token'[k] = token[k]
  BY <1>1 DEF Fresh, TokensInv, TypeOK
<1>4. TypeOK'
  <2>1. token' \in [Tokens -> Rows]
    BY <1>1, <1>2 DEF TokensInv, TypeOK
  <2>2. HasFamily'
    BY <1>1, <1>3 DEF TokensInv, TypeOK, HasFamily, Started, NoRow
  <2> QED
    BY <1>1, <2>1, <2>2, IdleType DEF TokensInv, TypeOK, IssueNewFamily
<1>5. FlightInv'
  BY <1>1, <1>3 DEF TokensInv, FlightInv, TypeOK, Idle, NoRow
<1>6. DeliveredIssued' /\ Unissued'
  BY <1>1, <1>3 DEF TokensInv, DeliveredIssued, Unissued, TypeOK, NoRow
<1>7. ParentRetired'
  BY <1>1, <1>3 DEF TokensInv, ParentRetired, TypeOK, NoRow, Rows
<1> QED
  BY <1>4, <1>5, <1>6, <1>7 DEF TokensInv

LEMMA RotateReadStep ==
  ASSUME TokensInv, NEW h \in Handlers, NEW k \in Tokens, RotateRead(h, k)
  PROVE  TokensInv'
<1> DEFINE r(pc) == [Idle EXCEPT !.pc = pc, !.tok = k]
<1>1. PICK pc \in {"rotate", "kill"} : req' = [req EXCEPT ![h] = r(pc)]
  BY DEF RotateRead, Becomes
<1>2. r(pc) \in Flight /\ r(pc).pc = pc /\ r(pc).tok = k
  BY <1>1 DEF Idle, Flight, Causes
<1>3. UNCHANGED rows /\ token[k].status # "none"
  BY DEF RotateRead, TokensInv, DeliveredIssued
<1> HIDE DEF r
<1>4. TypeOK'
  BY <1>1, <1>2, <1>3 DEF TokensInv, TypeOK, HasFamily, rows, Started
<1>5. FlightInv'
  BY <1>1, <1>2, <1>3 DEF TokensInv, TypeOK, FlightInv, rows
<1> QED
  BY <1>3, <1>4, <1>5 DEF TokensInv, rows, DeliveredIssued, Unissued, ParentRetired

LEMMA IssueInFamilyStep ==
  ASSUME TokensInv, NEW h \in Handlers, NEW n \in Tokens, IssueInFamily(h, n)
  PROVE  TokensInv'
<1> DEFINE k == req[h].tok
           r == [req[h] EXCEPT !.pc = "retire", !.new = n]
<1>1. /\ token[n] = NoRow /\ n \notin delivered /\ delivered' = delivered
      /\ token' = [token EXCEPT ![n] = Fresh(token[k].family, k, FALSE)]
      /\ req' = [req EXCEPT ![h] = r]
      /\ k \in Tokens /\ token[k].status # "none" /\ k # n
  BY DEF IssueInFamily, TokensInv, DeliveredIssued, Unissued, Becomes, FlightInv, NoRow
<1>2. token[k].family \in Tokens /\ Started(token[k].family)
  BY <1>1 DEF TokensInv, TypeOK, HasFamily
<1>3. Fresh(token[k].family, k, FALSE) \in Rows
  BY <1>1, <1>2, FreshType
<1>4. /\ token'[n].status = "live" /\ token'[n].family = token[k].family /\ token'[n].parent = k
      /\ \A j \in Tokens \ {n} : token'[j] = token[j]
  BY <1>1 DEF Fresh, TokensInv, TypeOK
<1>5. r \in Flight /\ r.pc = "retire" /\ r.new = n /\ r.tok = k
  BY DEF TokensInv, TypeOK, Flight
<1> HIDE DEF k, r
<1>10. /\ token[n].status = "none" /\ token[n].family = NoToken /\ k \in Tokens /\ k # n
       /\ token[k].status # "none" /\ n \notin delivered /\ delivered' = delivered /\ NoToken \notin Tokens
       /\ req'[h] = r /\ \A g \in Handlers \ {h} : req'[g] = req[g]
  BY <1>1, TokensAssumption DEF NoRow, TokensInv, TypeOK
<1>6. TypeOK'
  <2>1. token' \in [Tokens -> Rows]
    BY <1>1, <1>3 DEF TokensInv, TypeOK
  <2>2. HasFamily'
    BY <1>2, <1>4, <1>10 DEF TokensInv, TypeOK, HasFamily, Started
  <2> QED
    BY <1>1, <1>5, <2>1, <2>2 DEF TokensInv, TypeOK, IssueInFamily
<1>7. FlightInv'
  BY <1>4, <1>5, <1>10 DEF TokensInv, FlightInv
<1>8. DeliveredIssued' /\ Unissued'
  BY <1>1, <1>4 DEF TokensInv, DeliveredIssued, Unissued, TypeOK, NoRow
<1>9. ParentRetired'
  BY <1>4, <1>10 DEF TokensInv, DeliveredIssued, ParentRetired, TypeOK, Rows
<1> QED
  BY <1>6, <1>7, <1>8, <1>9 DEF TokensInv

LEMMA RetireParentStep ==
  ASSUME TokensInv, NEW h \in Handlers, RetireParent(h)
  PROVE  TokensInv'
<1> DEFINE k == req[h].tok
           n == req[h].new
<1>1. /\ k \in Tokens /\ n \in Tokens /\ token[k].status # "none" /\ token[n].status # "none"
      /\ token[n].parent = k
      /\ token' = [token EXCEPT ![k].status = "revoked"]
      /\ delivered' \subseteq delivered \cup {n}
      /\ req' = [req EXCEPT ![h] = Idle]
  BY DEF RetireParent, TokensInv, FlightInv, Becomes, Retired
<1> HIDE DEF k, n
<1>2. /\ token'[k].status = "revoked" /\ token'[k].family = token[k].family
      /\ token'[k].parent = token[k].parent /\ token'[k] \in Rows
      /\ \A j \in Tokens \ {k} : token'[j] = token[j]
  BY <1>1 DEF TokensInv, TypeOK, Rows
<1>3. TypeOK'
  <2>1. token' \in [Tokens -> Rows]
    BY <1>1, <1>2 DEF TokensInv, TypeOK
  <2>2. HasFamily'
    BY <1>1, <1>2 DEF TokensInv, TypeOK, HasFamily, Started
  <2> QED
    BY <1>1, <2>1, <2>2, IdleType DEF TokensInv, TypeOK, RetireParent
<1>4. FlightInv'
  BY <1>1, <1>2 DEF TokensInv, FlightInv, TypeOK, Idle
<1>5. DeliveredIssued' /\ Unissued'
  BY <1>1, <1>2 DEF TokensInv, DeliveredIssued, Unissued, TypeOK
<1>6. ParentRetired'
  BY <1>1, <1>2 DEF TokensInv, ParentRetired, TypeOK, Rows
<1> QED
  BY <1>3, <1>4, <1>5, <1>6 DEF TokensInv

(* A statement that revokes the tokens of T and leaves its handler idle. *)
LEMMA RevokingStep ==
  ASSUME TokensInv, NEW T, token' = Revoked(T),
         delivered' = delivered, aborts' = aborts, suspended' \in BOOLEAN, challenge' = challenge,
         ended' \in [Tokens -> Causes \cup {"no"}],
         NEW h \in Handlers, req' = req \/ req' = [req EXCEPT ![h] = Idle]
  PROVE  TokensInv'
<1>1. TypeOK
  BY DEF TokensInv
<1>2. TypeOK'
  <2>1. HasFamily'
    BY <1>1, RevokedRows DEF TypeOK, HasFamily, Started
  <2> QED
    BY <1>1, <2>1, RevokedRows, IdleType DEF TypeOK
<1>3. \A g \in Handlers : req'[g] = req[g] \/ req'[g].pc \in {"idle", "login", "late"}
  BY <1>1 DEF TypeOK, Idle
<1> QED
  BY <1>1, <1>2, <1>3, RevokedRows, RowsKept

LEMMA EndedAllType ==
  ASSUME TypeOK, NEW why \in Causes
  PROVE  EndedAll(why) \in [Tokens -> Causes \cup {"no"}]
  BY DEF TypeOK, EndedAll

LEMMA RevokeFamilyStep ==
  ASSUME TokensInv, NEW h \in Handlers, RevokeFamily(h)
  PROVE  TokensInv'
<1>1. ended' \in [Tokens -> Causes \cup {"no"}]
  BY DEF RevokeFamily, TokensInv, TypeOK, FlightInv, Flight
<1> QED
  BY <1>1, RevokingStep DEF RevokeFamily, Becomes, TokensInv, TypeOK

LEMMA LogoutReadStep ==
  ASSUME TokensInv, NEW h \in Handlers, NEW k \in Tokens, LogoutRead(h, k)
  PROVE  TokensInv'
<1> DEFINE r == [Idle EXCEPT !.pc = "kill", !.tok = k, !.why = "logout"]
<1>1. req' = [req EXCEPT ![h] = r] /\ r \in Flight /\ r.pc = "kill" /\ r.tok = k
  BY DEF LogoutRead, Becomes, Idle, Flight, Causes
<1>2. UNCHANGED rows /\ token[k].status # "none"
  BY DEF LogoutRead, TokensInv, DeliveredIssued
<1> HIDE DEF r
<1>3. TypeOK'
  BY <1>1, <1>2 DEF TokensInv, TypeOK, HasFamily, rows, Started
<1>4. FlightInv'
  BY <1>1, <1>2 DEF TokensInv, TypeOK, FlightInv, rows
<1> QED
  BY <1>2, <1>3, <1>4 DEF TokensInv, rows, DeliveredIssued, Unissued, ParentRetired

LEMMA AccountStep ==
  ASSUME TokensInv, NEW h \in Handlers, Account(h)
  PROVE  TokensInv'
<1>1. CASE RevokeSessions(h)
  BY <1>1, RevokingStep, EndedAllType DEF RevokeSessions, TokensInv, TypeOK, Causes
<1>2. CASE Disable(h)
  BY <1>2, RevokingStep, EndedAllType DEF Disable, DisabledTokens, TokensInv, TypeOK, Causes
<1>3. CASE Enable(h)
  <2>1. TypeOK'
    BY <1>3 DEF Enable, TokensInv, TypeOK, HasFamily, Started
  <2> QED
    BY <1>3, <2>1, RowsKept DEF Enable
<1>4. CASE RemoveCompany(h)
  BY <1>4, RevokingStep, EndedAllType DEF RemoveCompany, TokensInv, TypeOK, Causes
<1> QED
  BY <1>1, <1>2, <1>3, <1>4 DEF Account

LEMMA ExpireStep ==
  ASSUME TokensInv, NEW k \in Tokens, Expire(k)
  PROVE  TokensInv'
<1>1. /\ token'[k] \in Rows /\ token'[k].status = token[k].status
      /\ token'[k].family = token[k].family /\ token'[k].parent = token[k].parent
      /\ token[k].status # "none"
      /\ \A j \in Tokens \ {k} : token'[j] = token[j]
      /\ token' \in [Tokens -> Rows]
  BY DEF Expire, TokensInv, TypeOK, Rows
<1>2. TypeOK'
  BY <1>1 DEF Expire, TokensInv, TypeOK, HasFamily, Started
<1> QED
  BY <1>1, <1>2, RowsKept DEF Expire

LEMMA AbortStep ==
  ASSUME TokensInv, NEW h \in Handlers, Abort(h)
  PROVE  TokensInv'
<1>1. TypeOK'
  BY IdleType, TokensAssumption DEF Abort, Becomes, TokensInv, TypeOK, HasFamily, Started
<1>2. \A g \in Handlers : req'[g] = req[g] \/ req'[g].pc \in {"idle", "login", "late"}
  BY DEF Abort, Becomes, TokensInv, TypeOK, Idle
<1> QED
  BY <1>1, <1>2, RowsKept DEF Abort

LEMMA NextTokens == TokensInv /\ [Next]_vars => TokensInv'
<1> SUFFICES ASSUME TokensInv, [Next]_vars PROVE TokensInv'
  OBVIOUS
<1>1. CASE UNCHANGED vars
  BY <1>1 DEF vars, TokensInv, TypeOK, FlightInv, DeliveredIssued, Unissued, ParentRetired, HasFamily, Started
<1>2. ASSUME NEW h \in Handlers, Login(h) PROVE TokensInv'
  <2>1. CASE GiveChallenge(h)
    BY <2>1, ChallengeStep DEF GiveChallenge, Becomes
  <2> QED
    BY <1>2, <2>1, LoginReadStep, IssueNewFamilyStep DEF Login
<1>3. ASSUME NEW h \in Handlers, Rotation(h) PROVE TokensInv'
  BY <1>3, RotateReadStep, IssueInFamilyStep, RetireParentStep, RevokeFamilyStep DEF Rotation
<1>4. ASSUME NEW h \in Handlers, Account(h) PROVE TokensInv'
  BY <1>4, AccountStep
<1>5. ASSUME NEW h \in Handlers, Abort(h) PROVE TokensInv'
  BY <1>5, AbortStep
<1>6. ASSUME NEW h \in Handlers, NEW k \in Tokens, LogoutRead(h, k) PROVE TokensInv'
  BY <1>6, LogoutReadStep
<1>7. ASSUME NEW k \in Tokens, Expire(k) PROVE TokensInv'
  BY <1>7, ExpireStep
<1>8. CASE ChallengeExpires
  BY <1>8, ChallengeStep DEF ChallengeExpires
<1> QED
  BY <1>1, <1>2, <1>3, <1>4, <1>5, <1>6, <1>7, <1>8 DEF Next, Step

LEMMA TokensInvariant == Spec => []TokensInv
  BY InitTokens, NextTokens, PTL DEF Spec

(* Type correctness of the token table and of the handlers on it. *)
THEOREM TokensTypeCorrect == Spec => []TypeOK
<1>1. TokensInv => TypeOK
  BY DEF TokensInv
<1> QED
  BY <1>1, TokensInvariant, PTL

(* Rotation: whatever the handlers in flight, the deaths and the lost      *)
(* answers, a client holds a rotated token only once the one it replaces   *)
(* is revoked.                                                             *)
THEOREM RotatedTokenRetired == Spec => []ParentRetired
<1>1. TokensInv => ParentRetired
  BY DEF TokensInv
<1> QED
  BY <1>1, TokensInvariant, PTL
-----------------------------------------------------------------------------
(* Overlapping handlers: what outlives a disable.  While the account is    *)
(* suspended no handler starts a rotation or a login that is not late,     *)
(* each that is in flight can leave one token, and after that it is idle.  *)

LiveTokens == {k \in Tokens : Live(k) /\ ~token[k].late}

Opening == {h \in Handlers : req[h].pc \in {"login", "rotate"}}

StragglersInv ==
  suspended => /\ IsFiniteSet(LiveTokens)
               /\ Cardinality(LiveTokens) + Cardinality(Opening) <= Cardinality(Handlers)

LEMMA OpeningFinite ==
  ASSUME IsFiniteSet(Handlers)
  PROVE  /\ IsFiniteSet(Opening) /\ Cardinality(Opening) \in Nat
         /\ Cardinality(Opening) <= Cardinality(Handlers)
<1>1. Opening \in SUBSET Handlers
  BY DEF Opening
<1> QED
  BY <1>1, FS_Subset, FS_CardinalityType

LEMMA OpeningFiniteNext ==
  ASSUME IsFiniteSet(Handlers)
  PROVE  /\ IsFiniteSet(Opening') /\ Cardinality(Opening') \in Nat
         /\ Cardinality(Opening') <= Cardinality(Handlers)
<1>1. Opening' \in SUBSET Handlers
  BY DEF Opening
<1> QED
  BY <1>1, FS_Subset, FS_CardinalityType

(* A step after which no more tokens are live and no more handlers open.   *)
LEMMA FewerStragglers ==
  ASSUME IsFiniteSet(Handlers), StragglersInv, suspended' => suspended,
         LiveTokens' \subseteq LiveTokens, Opening' \subseteq Opening
  PROVE  StragglersInv'
<1> SUFFICES ASSUME suspended' PROVE /\ IsFiniteSet(LiveTokens')
                                     /\ Cardinality(LiveTokens') + Cardinality(Opening') <= Cardinality(Handlers)
  BY DEF StragglersInv
<1>1. /\ IsFiniteSet(LiveTokens)
      /\ Cardinality(LiveTokens) + Cardinality(Opening) <= Cardinality(Handlers)
  BY DEF StragglersInv
<1>2. LiveTokens' \in SUBSET LiveTokens /\ Opening' \in SUBSET Opening
  OBVIOUS
<1>3. /\ IsFiniteSet(LiveTokens') /\ Cardinality(LiveTokens') <= Cardinality(LiveTokens)
      /\ Cardinality(LiveTokens) \in Nat /\ Cardinality(LiveTokens') \in Nat
  BY <1>1, <1>2, FS_Subset, FS_CardinalityType
<1>4. /\ Cardinality(Opening') <= Cardinality(Opening)
      /\ Cardinality(Opening) \in Nat /\ Cardinality(Opening') \in Nat
      /\ Cardinality(Handlers) \in Nat
  BY <1>2, OpeningFinite, OpeningFiniteNext, FS_Subset, FS_CardinalityType
<1> QED
  BY <1>1, <1>3, <1>4

(* The handler that opened leaves its token and is no longer opening. *)
LEMMA OneMoreStraggler ==
  ASSUME IsFiniteSet(Handlers), StragglersInv, suspended' => suspended,
         NEW h \in Opening, NEW n, LiveTokens' \subseteq LiveTokens \cup {n},
         Opening' \subseteq Opening \ {h}
  PROVE  StragglersInv'
<1> SUFFICES ASSUME suspended' PROVE /\ IsFiniteSet(LiveTokens')
                                     /\ Cardinality(LiveTokens') + Cardinality(Opening') <= Cardinality(Handlers)
  BY DEF StragglersInv
<1>1. /\ IsFiniteSet(LiveTokens)
      /\ Cardinality(LiveTokens) + Cardinality(Opening) <= Cardinality(Handlers)
  BY DEF StragglersInv
<1> DEFINE L == LiveTokens \cup {n}
           O == Opening \ {h}
<1>2. Cardinality(LiveTokens) \in Nat
  BY <1>1, FS_CardinalityType
<1>3. /\ IsFiniteSet(L)
      /\ Cardinality(L) = IF n \in LiveTokens THEN Cardinality(LiveTokens) ELSE Cardinality(LiveTokens) + 1
  BY <1>1, FS_AddElement
<1>4. /\ IsFiniteSet(O) /\ Cardinality(O) = Cardinality(Opening) - 1 /\ Cardinality(Opening) \in Nat
  BY OpeningFinite, FS_RemoveElement
<1>5. LiveTokens' \in SUBSET L /\ Opening' \in SUBSET O
  OBVIOUS
<1> HIDE DEF L, O
<1>6. /\ IsFiniteSet(LiveTokens') /\ Cardinality(LiveTokens') <= Cardinality(L)
      /\ Cardinality(LiveTokens') \in Nat /\ Cardinality(L) \in Nat
  BY <1>3, <1>5, FS_Subset, FS_CardinalityType
<1>7. Cardinality(Opening') <= Cardinality(O) /\ Cardinality(Opening') \in Nat
  BY <1>4, <1>5, OpeningFiniteNext, FS_Subset
<1>8. Cardinality(Handlers) \in Nat
  BY FS_CardinalityType
<1> QED
  BY <1>1, <1>2, <1>3, <1>4, <1>6, <1>7, <1>8

(* A statement that revokes the tokens of T, and the account when T is all.*)
LEMMA RevokedStragglers ==
  ASSUME IsFiniteSet(Handlers), TokensInv, StragglersInv, NEW T, token' = Revoked(T),
         suspended' => suspended \/ T = Tokens, Opening' \subseteq Opening
  PROVE  StragglersInv'
<1>1. \A k \in Tokens : /\ token'[k].status = "live" => token[k].status = "live" /\ k \notin T
                        /\ token'[k].late = token[k].late
  BY RevokedRows DEF TokensInv
<1>2. LiveTokens' \subseteq LiveTokens
  BY <1>1 DEF LiveTokens, Live
<1>3. CASE suspended' => suspended
  BY <1>2, <1>3, FewerStragglers
<1>4. CASE T = Tokens
  <2>1. LiveTokens' = {}
    BY <1>1, <1>4 DEF LiveTokens, Live
  <2>2. Cardinality(Handlers) \in Nat
    BY FS_CardinalityType
  <2>3. IsFiniteSet(LiveTokens') /\ Cardinality(LiveTokens') = 0
    BY <2>1, FS_EmptySet
  <2> QED
    BY <2>2, <2>3, OpeningFiniteNext DEF StragglersInv
<1> QED
  BY <1>3, <1>4

LEMMA StragglersStep ==
  ASSUME IsFiniteSet(Handlers), TokensInv, StragglersInv, NEW h \in Handlers, Step(h)
  PROVE  StragglersInv'
<1>1. token \in [Tokens -> Rows] /\ req \in [Handlers -> Flight]
  BY DEF TokensInv, TypeOK
<1>2. CASE LoginRead(h) \/ VerifyRead(h)
  <2>1. CASE suspended
    <3>1. LiveTokens' = LiveTokens /\ Opening' \subseteq Opening
      BY <1>1, <1>2, <2>1 DEF LoginRead, VerifyRead, rows, Becomes, Idle, Opening, LiveTokens, Live
    <3> QED
      BY <1>2, <3>1, FewerStragglers DEF LoginRead, VerifyRead, rows
  <2>2. CASE ~suspended
    BY <1>2, <2>2 DEF LoginRead, VerifyRead, rows, StragglersInv
  <2> QED
    BY <2>1, <2>2
<1>3. ASSUME NEW n \in Tokens, IssueNewFamily(h, n) PROVE StragglersInv'
  <2>1. \A k \in Tokens \ {n} : token'[k] = token[k]
    BY <1>1, <1>3 DEF IssueNewFamily
  <2>2. Opening' \subseteq Opening \ {h}
    BY <1>1, <1>3 DEF IssueNewFamily, Becomes, Idle, Opening
  <2>3. CASE req[h].pc = "login"
    <3>1. h \in Opening /\ LiveTokens' \subseteq LiveTokens \cup {n}
      BY <2>1, <2>3 DEF Opening, LiveTokens, Live
    <3> QED
      BY <1>3, <2>2, <3>1, OneMoreStraggler DEF IssueNewFamily
  <2>4. CASE req[h].pc = "late"
    <3>1. token'[n].late
      BY <1>1, <1>3, <2>4 DEF IssueNewFamily, Fresh
    <3>2. LiveTokens' \subseteq LiveTokens
      BY <2>1, <3>1 DEF LiveTokens, Live
    <3> QED
      BY <1>3, <2>2, <3>2, FewerStragglers DEF IssueNewFamily
  <2> QED
    BY <1>3, <2>3, <2>4 DEF IssueNewFamily
<1>11. CASE GiveChallenge(h)
  <2>1. Opening' \subseteq Opening /\ LiveTokens' \subseteq LiveTokens
    BY <1>1, <1>11 DEF GiveChallenge, Becomes, Idle, Opening, LiveTokens, Live
  <2> QED
    BY <1>11, <2>1, FewerStragglers DEF GiveChallenge
<1>4. ASSUME NEW k \in Tokens, RotateRead(h, k) PROVE StragglersInv'
  <2>1. CASE suspended
    <3>1. LiveTokens' = LiveTokens /\ Opening' \subseteq Opening
      BY <1>1, <1>4, <2>1 DEF RotateRead, Rotatable, rows, Becomes, Idle, Opening, LiveTokens, Live
    <3> QED
      BY <1>4, <3>1, FewerStragglers DEF RotateRead, rows
  <2>2. CASE ~suspended
    BY <1>4, <2>2 DEF RotateRead, rows, StragglersInv
  <2> QED
    BY <2>1, <2>2
<1>5. ASSUME NEW n \in Tokens, IssueInFamily(h, n) PROVE StragglersInv'
  <2>1. h \in Opening /\ Opening' \subseteq Opening \ {h}
    BY <1>1, <1>5 DEF IssueInFamily, Becomes, Flight, Opening
  <2>2. LiveTokens' \subseteq LiveTokens \cup {n}
    BY <1>1, <1>5 DEF IssueInFamily, LiveTokens, Live
  <2> QED
    BY <1>5, <2>1, <2>2, OneMoreStraggler DEF IssueInFamily
<1>6. CASE RetireParent(h)
  <2>1. Opening' \subseteq Opening
    BY <1>1, <1>6 DEF RetireParent, Becomes, Idle, Opening
  <2>2. LiveTokens' \subseteq LiveTokens
    BY <1>1, <1>6 DEF RetireParent, Retired, LiveTokens, Live, Rows
  <2> QED
    BY <1>6, <2>1, <2>2, FewerStragglers DEF RetireParent
<1>7. CASE RevokeFamily(h)
  <2>1. Opening' \subseteq Opening
    BY <1>1, <1>7 DEF RevokeFamily, Becomes, Idle, Opening
  <2> QED
    BY <1>7, <2>1, RevokedStragglers DEF RevokeFamily
<1>8. CASE Account(h)
  <2>1. Opening' \subseteq Opening
    BY <1>8 DEF Account, RevokeSessions, Disable, Enable, RemoveCompany, Opening
  <2>2. CASE Enable(h)
    BY <2>2 DEF Enable, StragglersInv
  <2> QED
    BY <1>8, <2>1, <2>2, RevokedStragglers DEF Account, RevokeSessions, Disable, DisabledTokens, RemoveCompany
<1>9. CASE Abort(h)
  <2>1. Opening' \subseteq Opening /\ LiveTokens' \subseteq LiveTokens
    BY <1>1, <1>9 DEF Abort, Becomes, Idle, Opening, LiveTokens, Live
  <2> QED
    BY <1>9, <2>1, FewerStragglers DEF Abort
<1>10. ASSUME NEW k \in Tokens, LogoutRead(h, k) PROVE StragglersInv'
  <2>1. Opening' \subseteq Opening /\ LiveTokens' \subseteq LiveTokens
    BY <1>1, <1>10 DEF LogoutRead, rows, Becomes, Idle, Opening, LiveTokens, Live
  <2> QED
    BY <1>10, <2>1, FewerStragglers DEF LogoutRead, rows
<1> QED
  BY <1>2, <1>3, <1>4, <1>5, <1>6, <1>7, <1>8, <1>9, <1>10, <1>11 DEF Step, Login, Rotation

(* With handlers interleaved, in any order and with any of them dying,     *)
(* what outlives the disable of an account is bounded by the logins and    *)
(* rotations that were in flight: never more live tokens than handlers,    *)
(* those aside that verifyMfa issued to an account it found disabled.      *)
(* Only that requests in flight are finitely many is assumed.              *)
THEOREM StragglersAreBounded ==
  ASSUME IsFiniteSet(Handlers) PROVE Spec => []StragglersBounded
<1>1. Init => StragglersInv
  BY DEF Init, StragglersInv
<1>2. TokensInv /\ StragglersInv /\ [Next]_vars => StragglersInv'
  <2> SUFFICES ASSUME TokensInv, StragglersInv, [Next]_vars PROVE StragglersInv'
    OBVIOUS
  <2>1. CASE UNCHANGED vars
    BY <2>1 DEF vars, StragglersInv, LiveTokens, Live, Opening
  <2>2. ASSUME NEW k \in Tokens, Expire(k) PROVE StragglersInv'
    <3>1. \A j \in Tokens : token'[j].status = token[j].status /\ token'[j].late = token[j].late
      BY <2>2 DEF Expire, TokensInv, TypeOK, Rows
    <3>2. LiveTokens' = LiveTokens /\ Opening' = Opening
      BY <2>2, <3>1 DEF Expire, LiveTokens, Live, Opening
    <3> QED
      BY <2>2, <3>2, FewerStragglers DEF Expire
  <2>3. CASE ChallengeExpires
    BY <2>3 DEF ChallengeExpires, StragglersInv, LiveTokens, Live, Opening
  <2> QED
    BY <2>1, <2>2, <2>3, StragglersStep DEF Next
<1>3. StragglersInv => StragglersBounded
  BY DEF StragglersInv, StragglersBounded, LiveTokens, Opening
<1> QED
  BY <1>1, <1>2, <1>3, TokensInvariant, PTL DEF Spec
-----------------------------------------------------------------------------
(* Handlers one after the other.  What a handler read before an await then *)
(* still holds after it, and each of the rest of SerialInv needs that: a   *)
(* rotation retires the very token it found live, a family that ended gets *)
(* no new token, and no session of a disabled account is renewed, nor is   *)
(* one opened but by a verifyMfa, which does not look.                     *)

OthersIdle(h) == \A g \in Handlers \ {h} : req[g].pc = "idle"

SerialFlight ==
  \A h \in Handlers :
    /\ req[h].pc \in {"login", "rotate", "retire"} => ~suspended
    /\ req[h].pc \in {"rotate", "retire"} => req[h].tok \in delivered /\ Live(req[h].tok)
    /\ req[h].pc = "retire" => Live(req[h].new) /\ req[h].new # req[h].tok

(* Only a family that was started can have ended. *)
EndedStarted == \A f \in Tokens : ended[f] # "no" => Started(f)

SessionsInv == OneUsablePerFamily /\ EndedStaysEnded /\ EndedStarted /\ DisabledHasOnlyLate

SerialInv == SerialFlight /\ SessionsInv

sessions == [f \in Tokens |-> SessionOf(f)]

SessionStep == [S!Next]_sessions

(* A step that starts no family and ends some of the open ones, or none.   *)
Ending == \A f \in Tokens : \/ sessions'[f] = sessions[f]
                            \/ sessions[f] = "open" /\ sessions'[f] = "ended"

LEMMA EndingStep == ASSUME Ending PROVE SessionStep
<1> DEFINE D == {f \in Tokens : sessions[f] = "open" /\ sessions'[f] = "ended"}
           next == [f \in Tokens |-> IF f \in D /\ sessions[f] = "open" THEN "ended" ELSE sessions[f]]
<1>1. D \in SUBSET Tokens
  OBVIOUS
<1>2. \A f \in Tokens : sessions'[f] = next[f]
  BY DEF Ending
<1>3. sessions' = next
  BY <1>2 DEF sessions
<1>4. S!End(D)
  BY <1>3 DEF S!End, sessions
<1> QED
  BY <1>1, <1>4 DEF S!Next, SessionStep

(* A step that leaves the status and the family of every row alone.        *)
LEMMA StatusKept ==
  ASSUME \A k \in Tokens : token'[k].status = token[k].status /\ token'[k].family = token[k].family
  PROVE  Ending
<1>1. \A f \in Tokens : SessionOf(f)' = SessionOf(f)
  BY DEF SessionOf, Started, FamilyOf, Live
<1>2. \A f \in Tokens : sessions'[f] = sessions[f]
  BY <1>1 DEF sessions
<1> QED
  BY <1>2 DEF Ending

(* A step of the handler that changes no row's status or family, delivers  *)
(* nothing and disables nothing.                                           *)
LEMMA ReadingStep ==
  ASSUME TokensInv, SerialInv,
         \A k \in Tokens : /\ token'[k].status = token[k].status /\ token'[k].family = token[k].family
                           /\ token'[k].late = token[k].late,
         delivered' = delivered, ended' = ended, suspended' \in {FALSE, suspended},
         SerialFlight'
  PROVE  SerialInv' /\ SessionStep
<1>1. delivered \subseteq Tokens
  BY DEF TokensInv, TypeOK
<1>2. OneUsablePerFamily'
  BY <1>1 DEF SerialInv, SessionsInv, OneUsablePerFamily, Live
<1>3. EndedStaysEnded' /\ EndedStarted'
  BY DEF SerialInv, SessionsInv, EndedStaysEnded, EndedStarted, Live, FamilyOf, Started
<1>4. DisabledHasOnlyLate'
  BY DEF SerialInv, SessionsInv, DisabledHasOnlyLate, Live
<1> QED
  BY <1>2, <1>3, <1>4, StatusKept, EndingStep DEF SerialInv, SessionsInv

(* A statement that revokes the tokens of T, when the handler is idle      *)
(* afterwards: what ends is started and has its tokens in T.               *)
LEMMA ClosingStep ==
  ASSUME TokensInv, SerialInv, NEW h \in Handlers, OthersIdle(h), NEW T, token' = Revoked(T),
         delivered' = delivered, req' = [req EXCEPT ![h] = Idle] \/ (req' = req /\ req[h].pc = "idle"),
         \A f \in Tokens : ended'[f] = ended[f] \/ (Started(f) /\ FamilyOf(f) \subseteq T),
         suspended' => suspended \/ T = Tokens
  PROVE  SerialInv' /\ SessionStep
<1>1. /\ delivered \subseteq Tokens /\ req \in [Handlers -> Flight]
      /\ \A k \in Tokens : /\ token'[k].family = token[k].family /\ token'[k].late = token[k].late
                           /\ token'[k].status = "none" <=> token[k].status = "none"
                           /\ token'[k].status = "live" => token[k].status = "live" /\ k \notin T
  BY RevokedRows DEF TokensInv, TypeOK
<1>2. SerialFlight'
  BY <1>1 DEF SerialFlight, OthersIdle, Idle
<1>3. OneUsablePerFamily'
  BY <1>1 DEF SerialInv, SessionsInv, OneUsablePerFamily, Live
<1>4. EndedStaysEnded' /\ EndedStarted'
  BY <1>1 DEF SerialInv, SessionsInv, EndedStaysEnded, EndedStarted, Live, FamilyOf, Started
<1>5. DisabledHasOnlyLate'
  BY <1>1 DEF SerialInv, SessionsInv, DisabledHasOnlyLate, Live
<1>6. Ending
  <2>1. \A f \in Tokens : \/ SessionOf(f)' = SessionOf(f)
                          \/ SessionOf(f) = "open" /\ SessionOf(f)' = "ended"
    BY <1>1 DEF SessionOf, Started, FamilyOf, Live
  <2>2. \A f \in Tokens : \/ sessions'[f] = sessions[f]
                          \/ sessions[f] = "open" /\ sessions'[f] = "ended"
    BY <2>1 DEF sessions
  <2> QED
    BY <2>2 DEF Ending
<1> QED
  BY <1>2, <1>3, <1>4, <1>5, <1>6, EndingStep DEF SerialInv, SessionsInv

LEMMA SerialIssueNew ==
  ASSUME TokensInv, SerialInv, NEW h \in Handlers, OthersIdle(h), NEW n \in Tokens, IssueNewFamily(h, n)
  PROVE  SerialInv' /\ SessionStep
<1>1. /\ token[n] = NoRow /\ token' = [token EXCEPT ![n] = Fresh(n, NoToken, req[h].pc = "late")]
      /\ n \notin delivered /\ delivered \subseteq Tokens
      /\ delivered' \subseteq delivered \cup {n} /\ ended' = ended
      /\ suspended' = suspended /\ (suspended => req[h].pc = "late")
      /\ req' = [req EXCEPT ![h] = Idle] /\ token \in [Tokens -> Rows] /\ req \in [Handlers -> Flight]
      /\ \A k \in Tokens : token[k].status = "none" => token[k].family = NoToken
      /\ NoToken \notin Tokens
  BY TokensAssumption DEF IssueNewFamily, TokensInv, Unissued, DeliveredIssued, Becomes, TypeOK, NoRow,
     SerialInv, SerialFlight
<1>2. /\ token'[n].status = "live" /\ token'[n].family = n /\ (suspended => token'[n].late)
      /\ \A k \in Tokens \ {n} : token'[k] = token[k]
  BY <1>1 DEF Fresh
<1>3. \A k \in Tokens : token[k].family # n
  BY <1>1 DEF TokensInv, TypeOK, HasFamily, Started, NoRow
<1>4. SerialFlight'
  BY <1>1 DEF SerialFlight, OthersIdle, Idle
<1>5. OneUsablePerFamily'
  BY <1>1, <1>2, <1>3 DEF SerialInv, SessionsInv, OneUsablePerFamily, Live
<1>6. EndedStarted' /\ EndedStaysEnded'
  BY <1>1, <1>2, <1>3 DEF SerialInv, SessionsInv, EndedStaysEnded, EndedStarted, Started, FamilyOf, Live, NoRow
<1>7. SessionOf(n) = "none" /\ SessionOf(n)' = "open"
  BY <1>1, <1>2 DEF SessionOf, Started, FamilyOf, Live, NoRow
<1>8. \A f \in Tokens \ {n} : SessionOf(f)' = SessionOf(f)
  BY <1>1, <1>2 DEF SessionOf, Started, FamilyOf, Live, NoRow
<1>9. sessions' = [sessions EXCEPT ![n] = "open"]
  BY <1>7, <1>8 DEF sessions
<1>10. S!Open(n)
  BY <1>7, <1>9 DEF S!Open, sessions
<1>11. DisabledHasOnlyLate'
  BY <1>1, <1>2 DEF SerialInv, SessionsInv, DisabledHasOnlyLate, Live
<1> QED
  BY <1>4, <1>5, <1>6, <1>10, <1>11 DEF S!Next, SessionStep, SerialInv, SessionsInv

LEMMA SerialIssueIn ==
  ASSUME TokensInv, SerialInv, NEW h \in Handlers, OthersIdle(h), NEW n \in Tokens, IssueInFamily(h, n)
  PROVE  SerialInv' /\ SessionStep
<1> DEFINE k == req[h].tok
<1>1. /\ token[n] = NoRow /\ token' = [token EXCEPT ![n] = Fresh(token[k].family, k, FALSE)]
      /\ req' = [req EXCEPT ![h] = [req[h] EXCEPT !.pc = "retire", !.new = n]]
      /\ token \in [Tokens -> Rows] /\ req \in [Handlers -> Flight]
      /\ k \in Tokens /\ k \in delivered /\ Live(k) /\ k # n
      /\ token[k].family \in Tokens /\ Started(token[k].family)
      /\ n \notin delivered /\ delivered \subseteq Tokens
      /\ delivered' = delivered /\ ended' = ended /\ suspended' = suspended
      /\ ~suspended /\ ended[token[k].family] = "no"
  BY DEF IssueInFamily, TokensInv, Unissued, Becomes, TypeOK, HasFamily, NoRow, FlightInv, DeliveredIssued,
         SerialInv, SerialFlight, SessionsInv, EndedStaysEnded, FamilyOf, Live
<1>2. req'[h].pc = "retire" /\ req'[h].new = n /\ req'[h].tok = k
  BY <1>1 DEF Flight
<1> HIDE DEF k
<1>3. /\ token'[n].status = "live" /\ token'[n].family = token[k].family
      /\ \A j \in Tokens \ {n} : token'[j] = token[j]
  BY <1>1 DEF Fresh
<1>4. SerialFlight'
  BY <1>1, <1>2, <1>3 DEF OthersIdle, SerialFlight, Live
<1>5. OneUsablePerFamily'
  BY <1>1, <1>3 DEF SerialInv, SessionsInv, OneUsablePerFamily, Live
<1>8. /\ token[n].status = "none" /\ token[n].family = NoToken /\ token[k].status = "live" /\ k \in Tokens
      /\ token[k].family \in Tokens /\ NoToken \notin Tokens /\ ended[token[k].family] = "no"
      /\ token[token[k].family].status # "none" /\ token[token[k].family].family = token[k].family
      /\ ended' = ended /\ suspended' = suspended /\ ~suspended
  BY <1>1, TokensAssumption DEF NoRow, Live, Started
<1>6. EndedStaysEnded' /\ EndedStarted' /\ DisabledHasOnlyLate'
  BY <1>3, <1>8 DEF SerialInv, SessionsInv, EndedStaysEnded, EndedStarted, DisabledHasOnlyLate, Started,
     FamilyOf, Live
<1>7. Ending
  <2>1. \A f \in Tokens : SessionOf(f)' = SessionOf(f)
    BY <1>3, <1>8 DEF SessionOf, Started, FamilyOf, Live
  <2>2. \A f \in Tokens : sessions'[f] = sessions[f]
    BY <2>1 DEF sessions
  <2> QED
    BY <2>2 DEF Ending
<1> QED
  BY <1>4, <1>5, <1>6, <1>7, EndingStep DEF SerialInv, SessionsInv

LEMMA SerialRetire ==
  ASSUME TokensInv, SerialInv, NEW h \in Handlers, OthersIdle(h), RetireParent(h)
  PROVE  SerialInv' /\ SessionStep
<1> DEFINE k == req[h].tok
           n == req[h].new
<1>1. /\ token' = [token EXCEPT ![k].status = "revoked"]
      /\ req' = [req EXCEPT ![h] = Idle]
      /\ token \in [Tokens -> Rows] /\ req \in [Handlers -> Flight]
      /\ k \in delivered /\ k \in Tokens /\ n \in Tokens /\ Live(n) /\ Live(k) /\ k # n
      /\ token[k].status # "none" /\ token[n].family = token[k].family
      /\ delivered \subseteq Tokens /\ delivered' \subseteq delivered \cup {n}
      /\ ended' = ended /\ suspended' = suspended
  BY DEF RetireParent, Retired, TokensInv, Becomes, TypeOK, FlightInv, SerialInv, SerialFlight
<1> HIDE DEF k, n
<1>2. SerialFlight'
  BY <1>1 DEF OthersIdle, SerialFlight, Idle
<1>3. /\ token'[k].status = "revoked" /\ token'[k].family = token[k].family
      /\ \A j \in Tokens \ {k} : token'[j] = token[j]
  BY <1>1 DEF Rows
<1>4. OneUsablePerFamily'
  <2>1. \A j \in delivered : Live(j) /\ token[j].family = token[n].family => j = k
    BY <1>1 DEF SerialInv, SessionsInv, OneUsablePerFamily
  <2> QED
    BY <1>1, <1>3, <2>1 DEF SerialInv, SessionsInv, OneUsablePerFamily, Live
<1>5. EndedStaysEnded' /\ EndedStarted' /\ DisabledHasOnlyLate'
  BY <1>1, <1>3 DEF SerialInv, SessionsInv, EndedStaysEnded, EndedStarted, DisabledHasOnlyLate, Started,
     FamilyOf, Live
<1>6. Ending
  <2>1. \A f \in Tokens : SessionOf(f)' = SessionOf(f)
    BY <1>1, <1>3 DEF SessionOf, Started, FamilyOf, Live
  <2>2. \A f \in Tokens : sessions'[f] = sessions[f]
    BY <2>1 DEF sessions
  <2> QED
    BY <2>2 DEF Ending
<1> QED
  BY <1>2, <1>4, <1>5, <1>6, EndingStep DEF SerialInv, SessionsInv

LEMMA SerialLogin ==
  ASSUME TokensInv, SerialInv, NEW h \in Handlers, OthersIdle(h), LoginRead(h) \/ VerifyRead(h)
  PROVE  SerialInv' /\ SessionStep
<1>1. SerialFlight'
  BY DEF LoginRead, VerifyRead, Becomes, rows, Idle, OthersIdle, SerialFlight, TokensInv, TypeOK
<1> QED
  BY <1>1, ReadingStep DEF LoginRead, VerifyRead, rows

LEMMA SerialChallenge ==
  ASSUME TokensInv, SerialInv, UNCHANGED <<token, delivered, suspended, ended>>,
         req' = req \/ \E h \in Handlers : req' = [req EXCEPT ![h] = Idle]
  PROVE  SerialInv' /\ SessionStep
<1>1. SerialFlight'
  BY DEF SerialInv, SerialFlight, Idle, Live, TokensInv, TypeOK
<1> QED
  BY <1>1, ReadingStep

LEMMA SerialRotateRead ==
  ASSUME TokensInv, SerialInv, NEW h \in Handlers, OthersIdle(h), NEW k \in Tokens, RotateRead(h, k)
  PROVE  SerialInv' /\ SessionStep
<1>1. SerialFlight'
  BY DEF RotateRead, Rotatable, Becomes, rows, Idle, OthersIdle, SerialFlight, Live, TokensInv, TypeOK
<1> QED
  BY <1>1, ReadingStep DEF RotateRead, rows

LEMMA SerialLogoutRead ==
  ASSUME TokensInv, SerialInv, NEW h \in Handlers, OthersIdle(h), NEW k \in Tokens, LogoutRead(h, k)
  PROVE  SerialInv' /\ SessionStep
<1>1. SerialFlight'
  BY DEF LogoutRead, Becomes, rows, Idle, OthersIdle, SerialFlight, TokensInv, TypeOK
<1> QED
  BY <1>1, ReadingStep DEF LogoutRead, rows

LEMMA SerialAbort ==
  ASSUME TokensInv, SerialInv, NEW h \in Handlers, OthersIdle(h), Abort(h)
  PROVE  SerialInv' /\ SessionStep
<1>1. SerialFlight'
  BY DEF Abort, Becomes, Idle, OthersIdle, SerialFlight, TokensInv, TypeOK
<1> QED
  BY <1>1, ReadingStep DEF Abort

LEMMA SerialRevokeFamily ==
  ASSUME TokensInv, SerialInv, NEW h \in Handlers, OthersIdle(h), RevokeFamily(h)
  PROVE  SerialInv' /\ SessionStep
<1> DEFINE f == token[req[h].tok].family
<1>1. /\ f \in Tokens /\ Started(f)
      /\ ended' = [ended EXCEPT ![f] = req[h].why] /\ ended \in [Tokens -> Causes \cup {"no"}]
      /\ token' = Revoked(FamilyOf(f))
  BY DEF RevokeFamily, KillSet, TokensInv, TypeOK, HasFamily, FlightInv
<1> HIDE DEF f
<1>2. \A g \in Tokens : ended'[g] = ended[g] \/ (Started(g) /\ FamilyOf(g) \subseteq FamilyOf(f))
  BY <1>1
<1> QED
  BY <1>1, <1>2, ClosingStep DEF RevokeFamily, Becomes

LEMMA SerialAccount ==
  ASSUME TokensInv, SerialInv, NEW h \in Handlers, OthersIdle(h), Account(h)
  PROVE  SerialInv' /\ SessionStep
<1>1. req[h].pc = "idle" /\ req' = req /\ delivered' = delivered
  BY DEF Account, RevokeSessions, Disable, Enable, RemoveCompany, Starts
<1>2. CASE Enable(h)
  <2>1. SerialFlight'
    BY <1>2 DEF Enable, SerialInv, SerialFlight, Live
  <2> QED
    BY <1>2, <2>1, ReadingStep DEF Enable
<1>3. CASE RevokeSessions(h) \/ Disable(h) \/ RemoveCompany(h)
  <2>1. PICK why \in Causes : ended' = EndedAll(why)
    BY <1>3 DEF RevokeSessions, Disable, RemoveCompany, Causes
  <2>2. \A f \in Tokens : ended'[f] = ended[f] \/ (Started(f) /\ FamilyOf(f) \subseteq Tokens)
    BY <2>1 DEF EndedAll, FamilyOf
  <2>3. token' = Revoked(Tokens)
    BY <1>3 DEF RevokeSessions, Disable, DisabledTokens, RemoveCompany
  <2> QED
    BY <1>1, <2>2, <2>3, ClosingStep
<1> QED
  BY <1>2, <1>3 DEF Account

LEMMA SerialExpire ==
  ASSUME TokensInv, SerialInv, NEW k \in Tokens, Expire(k)
  PROVE  SerialInv' /\ SessionStep
<1>1. \A j \in Tokens : /\ token'[j].status = token[j].status /\ token'[j].family = token[j].family
                        /\ token'[j].late = token[j].late
  BY DEF Expire, Rows, TokensInv, TypeOK
<1>2. SerialFlight'
  BY <1>1 DEF Expire, SerialInv, SerialFlight, Live, TokensInv, FlightInv
<1> QED
  BY <1>1, <1>2, ReadingStep DEF Expire

LEMMA SerialUnchanged ==
  ASSUME TokensInv, SerialInv, UNCHANGED vars
  PROVE  SerialInv' /\ SessionStep
<1>1. SerialFlight'
  BY DEF vars, SerialInv, SerialFlight, Live
<1> QED
  BY <1>1, ReadingStep DEF vars

LEMMA SerialStep ==
  ASSUME TokensInv, SerialInv, NEW h \in Handlers, OthersIdle(h), Step(h)
  PROVE  SerialInv' /\ SessionStep
<1>1. CASE Login(h)
  <2>1. CASE GiveChallenge(h)
    BY <2>1, SerialChallenge DEF GiveChallenge, Becomes
  <2> QED
    BY <1>1, <2>1, SerialLogin, SerialIssueNew DEF Login
<1>2. CASE Rotation(h)
  BY <1>2, SerialRotateRead, SerialIssueIn, SerialRetire, SerialRevokeFamily DEF Rotation
<1>3. ASSUME NEW k \in Tokens, LogoutRead(h, k) PROVE SerialInv' /\ SessionStep
  BY <1>3, SerialLogoutRead
<1> QED
  BY <1>1, <1>2, <1>3, SerialAccount, SerialAbort DEF Step

LEMMA InitSerial == Init => SerialInv /\ S!Init
<1> SUFFICES ASSUME Init PROVE SerialInv /\ S!Init
  OBVIOUS
<1>1. \A f \in Tokens : SessionOf(f) = "none"
  BY DEF Init, SessionOf, Started, NoRow
<1>2. S!Init
  BY <1>1 DEF S!Init
<1>3. SerialInv
  BY DEF Init, SerialInv, SerialFlight, SessionsInv, OneUsablePerFamily, EndedStaysEnded, EndedStarted,
         DisabledHasOnlyLate, Idle, NoRow, Live
<1> QED
  BY <1>2, <1>3

(* Two ways of having no overlap: an instance with one slot, where         *)
(* refinement is the property of Spec itself, and the serial scenarios of  *)
(* MCSpec with any number of slots.                                        *)
OneAtATime == \A g, h \in Handlers : g = h

(* One request at a time, the token table implements the sessions: opened  *)
(* once by a login, ended once, never open again.                          *)
THEOREM TokensImplementSessions == ASSUME OneAtATime PROVE Spec => ImplementsSessions
<1>1. TokensInv /\ SerialInv /\ [Next]_vars => SerialInv' /\ SessionStep
  <2>1. \A h \in Handlers : OthersIdle(h)
    BY DEF OneAtATime, OthersIdle
  <2> QED
    BY <2>1, SerialStep, SerialExpire, SerialChallenge, SerialUnchanged DEF Next, ChallengeExpires
<1>2. Spec => [][S!Next]_sessions
  BY <1>1, InitSerial, TokensInvariant, PTL DEF Spec, SessionStep
<1>3. S!Spec <=> S!Init /\ [][S!Next]_sessions
  BY DEF S!Spec, sessions
<1> QED
  BY InitSerial, <1>2, <1>3, PTL DEF Spec, ImplementsSessions

MCInv == TokensInv /\ (Serial => SerialInv)

LEMMA MCNextTokens ==
  ASSUME MCInv, [MCNext]_<<vars, scenario>>
  PROVE  MCInv' /\ (Serial => SessionStep)
<1>1. [Next]_vars /\ scenario' = scenario
  BY DEF MCNext, SerialNext, Next
<1>2. TokensInv'
  BY <1>1, NextTokens DEF MCInv
<1>3. ASSUME Serial PROVE SerialInv' /\ SessionStep
  <2>1. CASE UNCHANGED vars
    BY <1>3, <2>1, SerialUnchanged DEF MCInv
  <2>2. CASE SerialNext
    BY <1>3, <2>2, SerialStep, SerialExpire, SerialChallenge DEF MCInv, SerialNext, OthersIdle, ChallengeExpires
  <2> QED
    BY <1>3, <2>1, <2>2 DEF MCNext
<1> QED
  BY <1>1, <1>2, <1>3 DEF MCInv, Serial

LEMMA MCTokensInvariant == MCSpec => []MCInv
<1>1. MCInit => MCInv
  BY InitTokens, InitSerial DEF MCInit, MCInv
<1>2. MCInv /\ [MCNext]_<<vars, scenario>> => MCInv'
  BY MCNextTokens
<1> QED
  BY <1>1, <1>2, PTL DEF MCSpec

(* One use of a token gives one successor: handlers one after the other,   *)
(* no two usable tokens of one family are ever in clients' hands, in       *)
(* whatever order tokens are rotated, lost, replayed or expire.            *)
THEOREM OneTokenUsable == MCSpec => []SerialOneUsable
<1>1. MCInv => SerialOneUsable
  BY DEF MCInv, SerialInv, SessionsInv, SerialOneUsable
<1> QED
  BY <1>1, MCTokensInvariant, PTL

(* Handlers one after the other, a family that was revoked as a whole has  *)
(* no live token again, and a disabled account no session but those that   *)
(* verifyMfa opened for it on a challenge given before, not renewed.       *)
THEOREM ClosedSessionsStayClosed == MCSpec => []SerialSessionsClosed
<1>1. MCInv => SerialSessionsClosed
  BY DEF MCInv, SerialInv, SessionsInv, SerialSessionsClosed
<1> QED
  BY <1>1, MCTokensInvariant, PTL

(* Handlers one after the other, every step of the token table is a step   *)
(* of the sessions: one opens, some end, or none changes.                  *)
THEOREM TokensStepAsSessions == MCSpec => SerialImplementsSessions
<1>1. MCInv /\ [MCNext]_<<vars, scenario>> =>
        [Serial => S!Next]_[f \in Tokens |-> SessionOf(f)]
  BY MCNextTokens DEF SessionStep, sessions
<1> QED
  BY <1>1, MCTokensInvariant, PTL DEF MCSpec, SerialImplementsSessions

-----------------------------------------------------------------------------
(* The client: ClientSessions, whatever number of calls the API serves at  *)
(* once.  ClientInv is of any number of pages, SingleInv of one.           *)
Calls == [pc: {"none", "refresh", "served", "answer", "login", "logout"},
          way: {"mount", "shared"}, page: Pages \cup {NoToken}, tok: Tokens \cup {NoToken}]

(* The refreshes and the answers hold a token. *)
Holds(h) == call[h].pc \in {"refresh", "served", "answer"}

OfPage(h) == Holds(h) /\ call[h].page \in Pages

FamilyHeld(h) == token[call[h].tok].family

(* A call and the handler that serves it. *)
Coupled(h) ==
  /\ call[h].pc \in {"none", "refresh", "answer"} => req[h].pc = "idle"
  /\ call[h].pc = "served" =>
       req[h].pc \in {"rotate", "retire", "kill"} /\ req[h].tok = call[h].tok
  /\ call[h].pc = "login" => req[h].pc \in {"login", "late"}
  /\ call[h].pc = "logout" => req[h].pc = "kill" /\ req[h].why = "logout"
  /\ call[h].pc \in {"refresh", "served"} => call[h].page \in Pages
  /\ Holds(h) => call[h].tok \in Tokens /\ token[call[h].tok].status # "none"
  /\ req[h].pc = "kill" /\ req[h].why = "reuse" => token[req[h].tok].status = "revoked"
  /\ req[h].pc = "retire" => req[h].new # req[h].tok

(* The API would accept the token, or its session was ended. *)
Good(k) == Live(k) \/ ended[token[k].family] # "no"

(* The new token that call h is about to bring the browser. *)
Carried(h) == IF call[h].pc = "answer" THEN call[h].tok
              ELSE IF req[h].pc = "retire" THEN req[h].new ELSE NoToken

(* A new token is usable, and nothing holds it but the call that brings it. *)
Undelivered ==
  \A h \in Handlers : Carried(h) # NoToken =>
    /\ Good(Carried(h)) /\ cookie # Carried(h)
    /\ \A g \in Handlers : /\ call[g].pc \in {"refresh", "served"} => call[g].tok # Carried(h)
                           /\ g # h => Carried(g) # Carried(h)

(* The cookie is usable or an answer will replace it. *)
CookieGood ==
  cookie # NoToken => /\ token[cookie].status # "none"
                      /\ Good(cookie) \/ \E h \in Handlers : call[h].pc = "answer"

ClientInv ==
  /\ call \in [Handlers -> Calls] /\ cookie \in Tokens \cup {NoToken}
  /\ \A h \in Handlers : Coupled(h)
  /\ Undelivered /\ CookieGood

OnePage == NoToken \notin Pages /\ \A p, q \in Pages : p = q

(* The page has one refresh of each kind.  Of a session that it did not    *)
(* refresh twice at once, one call holds a token; while the cookie is such *)
(* a token the call is the page's, and its answer replaces the cookie.     *)
Apart ==
  /\ \A g, h \in Handlers : OfPage(g) /\ OfPage(h) /\ call[g].way = call[h].way => g = h
  /\ \A g, h \in Handlers :
       Holds(g) /\ Holds(h) /\ FamilyHeld(g) = FamilyHeld(h) /\ FamilyHeld(h) \notin doubled => g = h
  /\ cookie # NoToken /\ token[cookie].family \notin doubled =>
       \A h \in Handlers : Holds(h) /\ FamilyHeld(h) = token[cookie].family =>
            OfPage(h) /\ (call[h].pc # "answer" => call[h].tok = cookie)

(* A refresh of the family has been served. *)
Renewing(h, f) == Holds(h) /\ call[h].pc # "refresh" /\ FamilyHeld(h) = f

(* Such a session has no usable token but the one held or its successor. *)
Newest ==
  /\ \A h \in Handlers, y \in Tokens :
       Holds(h) /\ Live(y) /\ token[y].family = FamilyHeld(h) /\ FamilyHeld(h) \notin doubled =>
         y = call[h].tok \/ (req[h].pc = "retire" /\ y = req[h].new)
  /\ cookie # NoToken /\ token[cookie].family \notin doubled => \A y \in Tokens :
       Live(y) /\ token[y].family = token[cookie].family =>
         y = cookie \/ \E h \in Handlers : Renewing(h, token[cookie].family)

SingleInv == Apart /\ Newest

(* The rows keep their families and come to no new life, and no session    *)
(* ends without a cause.                                                   *)
RowsFade ==
  \A k \in Tokens : /\ token'[k].family = token[k].family
                    /\ token'[k].status = "none" <=> token[k].status = "none"
                    /\ token[k].status = "revoked" => token'[k].status = "revoked"
                    /\ Live(k)' => Live(k)
                    /\ token[k].status # "none" /\ Good(k) => Good(k)'

(* A step in which rows fade and handler h goes on with the token it holds,*)
(* or lets it go.                                                          *)
Proceeds(h) ==
  /\ RowsFade /\ call' \in [Handlers -> Calls] /\ Coupled(h)'
  /\ \A g \in Handlers \ {h} : call'[g] = call[g] /\ req'[g] = req[g]
  /\ cookie' \in {cookie, NoToken} /\ doubled' = doubled
  /\ Holds(h)' => /\ Holds(h) /\ call'[h].tok = call[h].tok
                  /\ call'[h].page = call[h].page /\ call'[h].way = call[h].way
                  /\ call'[h].pc = "refresh" => call[h].pc = "refresh"
  /\ call[h].pc = "answer" <=> call'[h].pc = "answer"
  /\ Renewing(h, FamilyHeld(h)) /\ ~Holds(h)' =>
       \A y \in Tokens : token[y].family = FamilyHeld(h) => ~Live(y)'
  /\ req[h].pc = "retire" \/ req'[h].pc = "retire" => req'[h] = req[h]

LEMMA NoCallIs == NoCall \in Calls /\ NoCall.pc = "none" /\ \A pc : [NoCall EXCEPT !.pc = pc].pc = pc
  BY DEF NoCall, Calls

(* What a call carries exists. *)
LEMMA CarriedExists ==
  ASSUME TokensInv, ClientInv, NEW h \in Handlers, Carried(h) # NoToken
  PROVE  Carried(h) \in Tokens /\ token[Carried(h)].status # "none"
  BY DEF TokensInv, FlightInv, ClientInv, Coupled, Holds, Carried

(* While calls proceed, what they carry stays. *)
LEMMA ProceedsCarried ==
  ASSUME ClientInv, NEW h \in Handlers, Proceeds(h), NEW g \in Handlers
  PROVE  Carried(g)' = Carried(g)
<1>1. CASE g = h
  <2>1. CASE call[h].pc = "answer"
    BY <1>1, <2>1 DEF Proceeds, Carried, Holds
  <2>2. CASE call[h].pc # "answer"
    BY <1>1, <2>2 DEF Proceeds, Carried
  <2> QED
    BY <2>1, <2>2
<1>2. CASE g # h
  BY <1>2 DEF Proceeds, Carried
<1> QED
  BY <1>1, <1>2

LEMMA Proceeding ==
  ASSUME TokensInv, ClientInv, NEW h \in Handlers, Proceeds(h)
  PROVE  ClientInv'
<1>1. RowsFade /\ cookie' \in {cookie, NoToken}
  BY DEF Proceeds
<1>2. \A g \in Handlers : Coupled(g)'
  <2> SUFFICES ASSUME NEW g \in Handlers, g # h PROVE Coupled(g)'
    BY DEF Proceeds
  <2>1. call'[g] = call[g] /\ req'[g] = req[g] /\ Coupled(g)
    BY DEF ClientInv, Proceeds
  <2>2. req[g].pc = "kill" => req[g].tok \in Tokens
    BY DEF TokensInv, FlightInv
  <2> QED
    BY <1>1, <2>1, <2>2 DEF Coupled, RowsFade, Holds
<1>3. Undelivered'
  <2> SUFFICES ASSUME NEW i \in Handlers, Carried(i)' # NoToken
               PROVE  /\ Good(Carried(i))' /\ cookie' # Carried(i)'
                      /\ \A g \in Handlers : /\ call'[g].pc \in {"refresh", "served"} => call'[g].tok # Carried(i)'
                                             /\ g # i => Carried(g)' # Carried(i)'
    BY DEF Undelivered
  <2>1. Carried(i)' = Carried(i) /\ Carried(i) # NoToken
    BY ProceedsCarried
  <2>2. Carried(i) \in Tokens /\ token[Carried(i)].status # "none" /\ Good(Carried(i))
    BY <2>1, CarriedExists DEF ClientInv, Undelivered
  <2>3. Good(Carried(i))'
    BY <1>1, <2>1, <2>2 DEF RowsFade, Good, Live
  <2>4. cookie' # Carried(i)'
    BY <1>1, <2>1 DEF ClientInv, Undelivered
  <2>5. ASSUME NEW g \in Handlers, call'[g].pc \in {"refresh", "served"} PROVE call'[g].tok # Carried(i)'
    <3>1. Holds(g) /\ call'[g].tok = call[g].tok /\ call[g].pc # "answer"
      BY <2>5 DEF Proceeds, Holds
    <3> QED
      BY <2>1, <3>1 DEF ClientInv, Undelivered, Holds
  <2>6. \A g \in Handlers : g # i => Carried(g)' # Carried(i)'
    BY <2>1, ProceedsCarried DEF ClientInv, Undelivered
  <2> QED
    BY <2>3, <2>4, <2>5, <2>6
<1>4. CookieGood'
  <2> SUFFICES ASSUME cookie' # NoToken
               PROVE  /\ token'[cookie'].status # "none"
                      /\ Good(cookie)' \/ \E g \in Handlers : call'[g].pc = "answer"
    BY DEF CookieGood
  <2>1. cookie' = cookie /\ cookie \in Tokens /\ token[cookie].status # "none"
    BY <1>1 DEF ClientInv, CookieGood
  <2>2. CASE Good(cookie)
    BY <1>1, <2>1, <2>2 DEF RowsFade, Good, Live
  <2>3. CASE ~Good(cookie)
    <3>1. PICK g \in Handlers : call[g].pc = "answer"
      BY <2>1, <2>3 DEF ClientInv, CookieGood
    <3>2. call'[g].pc = "answer"
      BY <3>1 DEF Proceeds
    <3> QED
      BY <1>1, <2>1, <3>2 DEF RowsFade
  <2> QED
    BY <1>1, <2>1, <2>2, <2>3 DEF RowsFade
<1> QED
  BY <1>1, <1>2, <1>3, <1>4 DEF ClientInv, Proceeds

LEMMA ProceedingAlone ==
  ASSUME TokensInv, ClientInv, SingleInv, NEW h \in Handlers, Proceeds(h)
  PROVE  SingleInv'
<1>1. RowsFade /\ cookie' \in {cookie, NoToken} /\ doubled' = doubled
  BY DEF Proceeds
<1>2. \A g \in Handlers : Holds(g)' => /\ Holds(g) /\ call'[g].tok = call[g].tok
                                       /\ call'[g].page = call[g].page /\ call'[g].way = call[g].way
  BY DEF Proceeds, Holds
<1>3. \A g \in Handlers : Holds(g)' => FamilyHeld(g)' = FamilyHeld(g)
  <2>1. \A g \in Handlers : Holds(g) => call[g].tok \in Tokens
    BY DEF ClientInv, Coupled
  <2> QED
    BY <1>1, <1>2, <2>1 DEF FamilyHeld, RowsFade
<1>4. \A g \in Handlers : OfPage(g)' => OfPage(g)
  BY <1>2 DEF OfPage
<1>5. cookie' # NoToken => cookie' = cookie /\ token'[cookie].family = token[cookie].family
  BY <1>1 DEF ClientInv, RowsFade
<1>6. Apart'
  <2>1. \A g, i \in Handlers : OfPage(g)' /\ OfPage(i)' /\ call'[g].way = call'[i].way => g = i
    BY <1>2, <1>4 DEF SingleInv, Apart, OfPage
  <2>2. \A g, i \in Handlers :
          Holds(g)' /\ Holds(i)' /\ FamilyHeld(g)' = FamilyHeld(i)' /\ FamilyHeld(i)' \notin doubled' => g = i
    BY <1>1, <1>2, <1>3 DEF SingleInv, Apart
  <2>3. ASSUME cookie' # NoToken, token'[cookie'].family \notin doubled',
               NEW g \in Handlers, Holds(g)', FamilyHeld(g)' = token'[cookie'].family
        PROVE  OfPage(g)' /\ (call'[g].pc # "answer" => call'[g].tok = cookie')
    <3>1. OfPage(g) /\ (call[g].pc # "answer" => call[g].tok = cookie)
      BY <1>1, <1>2, <1>3, <1>5, <2>3 DEF SingleInv, Apart
    <3>2. call'[g].pc # "answer" => call[g].pc # "answer"
      BY DEF Proceeds
    <3> QED
      BY <1>2, <1>5, <2>3, <3>1, <3>2 DEF OfPage
  <2> QED
    BY <2>1, <2>2, <2>3 DEF Apart
<1>7. Newest'
  <2>1. ASSUME NEW g \in Handlers, NEW y \in Tokens, Holds(g)', Live(y)', token'[y].family = FamilyHeld(g)',
               FamilyHeld(g)' \notin doubled'
        PROVE  y = call'[g].tok \/ (req'[g].pc = "retire" /\ y = req'[g].new)
    <3>1. y = call[g].tok \/ (req[g].pc = "retire" /\ y = req[g].new)
      BY <1>1, <1>2, <1>3, <2>1 DEF SingleInv, Newest, RowsFade
    <3>2. req[g].pc = "retire" => req'[g] = req[g]
      BY DEF Proceeds
    <3> QED
      BY <1>2, <2>1, <3>1, <3>2
  <2>2. ASSUME cookie' # NoToken, token'[cookie'].family \notin doubled',
               NEW y \in Tokens, Live(y)', token'[y].family = token'[cookie'].family, y # cookie'
        PROVE  \E g \in Handlers : Renewing(g, token[cookie].family)'
    <3>1. Live(y) /\ token[y].family = token[cookie].family /\ cookie' = cookie
      BY <1>1, <1>5, <2>2 DEF RowsFade
    <3>2. PICK g \in Handlers : Renewing(g, token[cookie].family)
      BY <1>1, <1>5, <2>2, <3>1 DEF SingleInv, Newest
    <3>3. Holds(g)' /\ call'[g].pc # "refresh"
      BY <2>2, <3>1, <3>2 DEF Proceeds, Renewing, Holds
    <3> QED
      BY <1>3, <1>5, <2>2, <3>2, <3>3 DEF Renewing
  <2> QED
    BY <2>1, <2>2 DEF Newest
<1> QED
  BY <1>6, <1>7 DEF SingleInv

(* Statements that revoke whole sessions, each with its cause, fade rows. *)
LEMMA RevokedFades ==
  ASSUME TokensInv, NEW T, token' = Revoked(T),
         \A f \in Tokens : ended[f] # "no" => ended'[f] # "no",
         \A k \in Tokens : k \in T /\ Live(k) => ended'[token[k].family] # "no"
  PROVE  RowsFade
<1>1. TypeOK
  BY DEF TokensInv
<1>2. \A k \in Tokens : /\ Revoked(T)[k].family = token[k].family
                        /\ Revoked(T)[k].status = "none" <=> token[k].status = "none"
                        /\ token[k].status = "revoked" => Revoked(T)[k].status = "revoked"
                        /\ Revoked(T)[k].status = "live" => Live(k)
                        /\ Live(k) /\ k \notin T => Revoked(T)[k] = token[k]
  BY <1>1, RevokedRows DEF Live, Revoked
<1>3. \A k \in Tokens : Live(k) => token[k].family \in Tokens
  BY <1>1 DEF TypeOK, HasFamily, Live
<1>4. ASSUME NEW k \in Tokens, token[k].status # "none", Good(k) PROVE Good(k)'
  <2>0. token[k].family \in Tokens
    BY <1>1, <1>4 DEF TypeOK, HasFamily
  <2>1. CASE Live(k) /\ k \in T
    BY <1>2, <2>1 DEF Good
  <2>2. CASE Live(k) /\ k \notin T
    BY <1>2, <2>2 DEF Good, Live
  <2>3. CASE ended[token[k].family] # "no"
    BY <1>2, <2>0, <2>3 DEF Good
  <2> QED
    BY <1>4, <2>1, <2>2, <2>3 DEF Good
<1> QED
  BY <1>2, <1>4 DEF RowsFade, Live

LEMMA SameRowsFade ==
  ASSUME UNCHANGED <<token, ended>>
  PROVE  RowsFade
  BY DEF RowsFade, Good, Live

LEMMA AccountFades ==
  ASSUME TokensInv, NEW h \in Handlers, Account(h)
  PROVE  RowsFade /\ req' = req
<1>1. CASE Enable(h)
  BY <1>1, SameRowsFade DEF Enable
<1>2. CASE ~Enable(h)
  <2>1. PICK why \in {"account", "company"} : ended' = EndedAll(why) /\ token' = Revoked(Tokens) /\ req' = req
    BY <1>2 DEF Account, RevokeSessions, Disable, DisabledTokens, RemoveCompany
  <2>2. \A f \in Tokens : ended[f] # "no" => ended'[f] # "no"
    BY <2>1 DEF EndedAll
  <2>3. \A k \in Tokens : Live(k) => token[k].family \in Tokens /\ Started(token[k].family)
    BY DEF TokensInv, TypeOK, HasFamily, Live
  <2>4. \A k \in Tokens : Live(k) => ended'[token[k].family] # "no"
    BY <2>1, <2>3 DEF EndedAll
  <2> QED
    BY <2>1, <2>2, <2>4, RevokedFades
<1> QED
  BY <1>1, <1>2

LEMMA ExpireFades ==
  ASSUME TokensInv, NEW k \in Tokens, Expire(k)
  PROVE  RowsFade /\ req' = req
<1>1. \A j \in Tokens : token'[j].status = token[j].status /\ token'[j].family = token[j].family
  BY DEF Expire, TokensInv, TypeOK, Rows
<1> QED
  BY <1>1 DEF Expire, RowsFade, Good, Live

(* Calls and handlers stand still while rows fade. *)
LEMMA ClientIdles ==
  ASSUME TokensInv, ClientInv, RowsFade, UNCHANGED <<req, clientVars>>
  PROVE  ClientInv' /\ (SingleInv => SingleInv')
<1>1. call \in [Handlers -> Calls] /\ UNCHANGED <<req, call, cookie, doubled>>
  BY DEF ClientInv, clientVars
<1>2. ASSUME NEW h \in Handlers PROVE Proceeds(h)
  <2>1. req[h].pc = "kill" => req[h].tok \in Tokens
    BY DEF TokensInv, FlightInv
  <2>2. Coupled(h)'
    BY <1>1, <2>1 DEF ClientInv, Coupled, RowsFade, Holds
  <2> QED
    BY <1>1, <2>2 DEF Proceeds, Holds, Renewing
<1>3. CASE Handlers = {}
  <2>1. cookie # NoToken => token'[cookie].family = token[cookie].family /\ Good(cookie)'
    BY <1>1, <1>3 DEF ClientInv, CookieGood, RowsFade, Good, Live
  <2>2. ClientInv'
    BY <1>1, <1>3, <2>1 DEF ClientInv, Undelivered, CookieGood, RowsFade, Good, Live
  <2> QED
    BY <1>1, <1>3, <2>1, <2>2 DEF ClientInv, SingleInv, Apart, Newest, RowsFade, Live
<1>4. CASE Handlers # {}
  BY <1>2, <1>4, Proceeding, ProceedingAlone
<1> QED
  BY <1>3, <1>4

LEMMA ServeStep ==
  ASSUME TokensInv, ClientInv, NEW h \in Handlers, ServeRefresh(h) \/ RefuseRefresh(h)
  PROVE  Proceeds(h)
<1> DEFINE k == call[h].tok
           c == [call[h] EXCEPT !.pc = "served"]
<1>1. call \in [Handlers -> Calls] /\ call[h] \in Calls /\ call[h].pc = "refresh" /\ Coupled(h)
  BY DEF ServeRefresh, RefuseRefresh, ClientInv
<1>2. c \in Calls /\ c.pc = "served" /\ c.tok = k /\ c.page = call[h].page /\ c.way = call[h].way
  BY <1>1 DEF Calls
<1>3. UNCHANGED <<token, ended, cookie, doubled>> /\ RowsFade
  BY SameRowsFade DEF ServeRefresh, RefuseRefresh, RotateRead, rows, vars
<1>4. req[h].pc = "idle" /\ call[h].page \in Pages /\ k \in Tokens /\ token[k].status # "none"
  BY <1>1 DEF Coupled, Holds
<1>5. CASE ServeRefresh(h)
  <2>1. call' = [call EXCEPT ![h] = c] /\ RotateRead(h, k)
    BY <1>5 DEF ServeRefresh, CallBecomes
  <2>2. \/ req' = [req EXCEPT ![h] = [Idle EXCEPT !.pc = "rotate", !.tok = k]]
        \/ /\ token[k].status = "revoked"
           /\ req' = [req EXCEPT ![h] = [Idle EXCEPT !.pc = "kill", !.tok = k]]
    BY <2>1 DEF RotateRead, Becomes
  <2>3. /\ req'[h].pc \in {"rotate", "kill"} /\ req'[h].tok = k
        /\ req'[h].pc = "kill" => token[k].status = "revoked"
        /\ \A g \in Handlers \ {h} : req'[g] = req[g]
    BY <2>2 DEF TokensInv, TypeOK, Idle
  <2> HIDE DEF c, k
  <2>4. call' \in [Handlers -> Calls] /\ call'[h] = c /\ \A g \in Handlers \ {h} : call'[g] = call[g]
    BY <1>1, <1>2, <2>1
  <2>5. Coupled(h)'
    BY <1>2, <1>3, <1>4, <2>3, <2>4 DEF Coupled, Holds
  <2> QED
    BY <1>1, <1>2, <1>3, <1>4, <2>3, <2>4, <2>5 DEF Proceeds, Holds, k
<1>6. CASE RefuseRefresh(h)
  <2>1. call' = [call EXCEPT ![h] = NoCall] /\ req' = req
    BY <1>6 DEF RefuseRefresh, CallBecomes, vars
  <2>2. call' \in [Handlers -> Calls] /\ call'[h].pc = "none" /\ \A g \in Handlers \ {h} : call'[g] = call[g]
    BY <1>1, <2>1, NoCallIs
  <2>3. Coupled(h)'
    BY <1>4, <2>1, <2>2 DEF Coupled, Holds
  <2> QED
    BY <1>1, <1>3, <1>4, <2>1, <2>2, <2>3 DEF Proceeds, Holds, Renewing
<1> QED
  BY <1>5, <1>6

LEMMA SendStep ==
  ASSUME TokensInv, ClientInv, NEW h \in Handlers, SendLogout(h) \/ SendLogin(h)
  PROVE  Proceeds(h)
<1>1. call \in [Handlers -> Calls] /\ call[h].pc = "none" /\ req[h].pc = "idle"
  BY DEF SendLogout, SendLogin, CallFree, ClientInv
<1>2. UNCHANGED <<token, ended, cookie, doubled>> /\ RowsFade
  BY SameRowsFade DEF SendLogout, SendLogin, LogoutRead, LoginRead, VerifyRead, rows
<1>3. PICK pc \in {"login", "logout"}, at \in {"login", "late"} :
        /\ call' = [call EXCEPT ![h] = [NoCall EXCEPT !.pc = pc]]
        /\ pc = "login" => req' = [req EXCEPT ![h] = [Idle EXCEPT !.pc = at]]
        /\ pc = "logout" =>
             req' = [req EXCEPT ![h] = [Idle EXCEPT !.pc = "kill", !.tok = cookie, !.why = "logout"]]
  BY DEF SendLogout, SendLogin, LogoutRead, LoginRead, VerifyRead, Becomes, CallBecomes
<1>4. [NoCall EXCEPT !.pc = pc] \in Calls /\ [NoCall EXCEPT !.pc = pc].pc = pc
  BY DEF NoCall, Calls
<1>5. call' \in [Handlers -> Calls] /\ call'[h].pc = pc /\ \A g \in Handlers \ {h} : call'[g] = call[g]
  BY <1>1, <1>3, <1>4
<1>6. /\ pc = "login" => req'[h].pc \in {"login", "late"}
      /\ pc = "logout" => req'[h].pc = "kill" /\ req'[h].why = "logout"
      /\ \A g \in Handlers \ {h} : req'[g] = req[g]
  BY <1>3 DEF TokensInv, TypeOK, Idle
<1>7. Coupled(h)'
  BY <1>5, <1>6 DEF Coupled, Holds
<1> QED
  BY <1>1, <1>2, <1>5, <1>6, <1>7 DEF Proceeds, Holds, Renewing

LEMMA ChallengeGivenStep ==
  ASSUME TokensInv, ClientInv, NEW h \in Handlers, ChallengeGiven(h)
  PROVE  Proceeds(h)
<1>1. call \in [Handlers -> Calls] /\ req[h].pc = "login" /\ Coupled(h) /\ call[h] \in Calls
  BY DEF ChallengeGiven, GiveChallenge, ClientInv
<1>2. UNCHANGED <<token, ended, cookie, doubled>> /\ RowsFade
  BY SameRowsFade DEF ChallengeGiven, GiveChallenge
<1>3. call' = [call EXCEPT ![h] = NoCall] /\ req' = [req EXCEPT ![h] = Idle]
  BY DEF ChallengeGiven, GiveChallenge, Becomes, CallBecomes
<1>4. call' \in [Handlers -> Calls] /\ call'[h].pc = "none" /\ \A g \in Handlers \ {h} : call'[g] = call[g]
  BY <1>1, <1>3, NoCallIs
<1>5. req'[h].pc = "idle" /\ \A g \in Handlers \ {h} : req'[g] = req[g]
  BY <1>3 DEF TokensInv, TypeOK, Idle
<1>6. ~Holds(h)
  BY <1>1 DEF Coupled, Holds
<1>7. Coupled(h)'
  BY <1>4, <1>5 DEF Coupled, Holds
<1> QED
  BY <1>1, <1>2, <1>4, <1>5, <1>6, <1>7 DEF Proceeds, Holds, Renewing

LEMMA FamilyRevokedStep ==
  ASSUME TokensInv, ClientInv, NEW h \in Handlers, FamilyRevoked(h)
  PROVE  Proceeds(h)
<1> DEFINE f == token[req[h].tok].family
<1>1. /\ req[h].pc = "kill" /\ req[h].tok \in Tokens /\ token[req[h].tok].status # "none"
      /\ req[h].why \in Causes /\ Coupled(h) /\ call \in [Handlers -> Calls]
  BY DEF FamilyRevoked, RevokeFamily, TokensInv, FlightInv, TypeOK, Flight, ClientInv
<1>2. f \in Tokens
  BY <1>1 DEF TokensInv, TypeOK, HasFamily
<1>3. token' = Revoked(FamilyOf(f)) /\ ended' = [ended EXCEPT ![f] = req[h].why]
  BY DEF FamilyRevoked, RevokeFamily, KillSet
<1>4. RowsFade
  <2>1. \A g \in Tokens : ended'[g] = IF g = f THEN req[h].why ELSE ended[g]
    BY <1>2, <1>3 DEF TokensInv, TypeOK
  <2>2. req[h].why # "no"
    BY <1>1 DEF Causes
  <2> HIDE DEF f
  <2>3. \A k \in Tokens : k \in FamilyOf(f) => ended'[token[k].family] # "no"
    BY <1>2, <2>1, <2>2 DEF FamilyOf
  <2> QED
    BY <1>3, <2>1, <2>2, <2>3, RevokedFades
<1>5. \A y \in Tokens : token[y].family = f => ~Live(y)'
  <2> HIDE DEF f
  <2>1. TypeOK
    BY DEF TokensInv
  <2> QED
    BY <1>3, <2>1, RevokedRows DEF FamilyOf, Live
<1>6. call' = [call EXCEPT ![h] = NoCall] /\ req' = [req EXCEPT ![h] = Idle]
  BY DEF FamilyRevoked, RevokeFamily, Becomes, CallBecomes
<1>7. call' \in [Handlers -> Calls] /\ call'[h].pc = "none" /\ \A g \in Handlers \ {h} : call'[g] = call[g]
  BY <1>1, <1>6, NoCallIs
<1>8. req'[h].pc = "idle" /\ \A g \in Handlers \ {h} : req'[g] = req[g]
  BY <1>6 DEF TokensInv, TypeOK, Idle
<1>9. Coupled(h)'
  BY <1>7, <1>8 DEF Coupled, Holds
<1>10. call[h].pc # "answer" /\ (Holds(h) /\ call[h].pc # "refresh" => FamilyHeld(h) = f)
  BY <1>1 DEF Coupled, Holds, FamilyHeld
<1>11. cookie' \in {cookie, NoToken} /\ doubled' = doubled
  BY DEF FamilyRevoked
<1> HIDE DEF f
<1> QED
  BY <1>1, <1>4, <1>5, <1>7, <1>8, <1>9, <1>10, <1>11 DEF Proceeds, Holds, Renewing

(* A refresh is sent, on mount or shared: a call in slot h with the cookie. *)
LEMMA SendRefreshStep ==
  ASSUME TokensInv, ClientInv, NEW p \in Pages, NEW h \in Handlers, MountPage(p, h) \/ SendRefresh(p, h)
  PROVE  ClientInv' /\ (OnePage /\ SingleInv => SingleInv')
<1>1. PICK way \in {"mount", "shared"} :
        call' = [call EXCEPT ![h] = [pc |-> "refresh", way |-> way, page |-> p, tok |-> cookie]]
  BY DEF MountPage, SendRefresh, CallBecomes
<1> DEFINE c == [pc |-> "refresh", way |-> way, page |-> p, tok |-> cookie]
<1>2. /\ call \in [Handlers -> Calls] /\ cookie \in Tokens /\ token[cookie].status # "none"
      /\ cookie # NoToken /\ req[h].pc = "idle" /\ call[h].pc = "none"
      /\ UNCHANGED <<token, ended, req, cookie>>
  BY DEF MountPage, SendRefresh, CallFree, ClientInv, CookieGood, vars
<1>3. c \in Calls /\ call' = [call EXCEPT ![h] = c]
  BY <1>1, <1>2 DEF Calls
<1>4. /\ call' \in [Handlers -> Calls] /\ \A g \in Handlers \ {h} : call'[g] = call[g]
      /\ call'[h].pc = "refresh" /\ call'[h].way = way /\ call'[h].page = p /\ call'[h].tok = cookie
  BY <1>2, <1>3
<1> HIDE DEF c
<1>5. \A g \in Handlers : Coupled(g)'
  BY <1>2, <1>4 DEF ClientInv, Coupled, Holds
<1>6. \A g \in Handlers : Carried(g)' = Carried(g)
  BY <1>2, <1>4 DEF Carried
<1>7. Undelivered'
  BY <1>2, <1>4, <1>6 DEF ClientInv, Undelivered, Good, Live
<1>8. CookieGood'
  BY <1>2, <1>4 DEF ClientInv, CookieGood, Good, Live
<1>9. ClientInv'
  BY <1>2, <1>4, <1>5, <1>7, <1>8 DEF ClientInv
<1>10. ASSUME OnePage, SingleInv PROVE SingleInv'
  <2> DEFINE f == token[cookie].family
  <2>1. \A g \in Handlers \ {h} : /\ Holds(g)' <=> Holds(g)
                                  /\ OfPage(g)' <=> OfPage(g)
                                  /\ FamilyHeld(g)' = FamilyHeld(g)
    BY <1>2, <1>4 DEF Holds, OfPage, FamilyHeld
  <2>2. Holds(h)' /\ OfPage(h)' /\ FamilyHeld(h)' = f /\ ~Holds(h)
    BY <1>2, <1>4 DEF Holds, OfPage, FamilyHeld
  <2>3. doubled \subseteq doubled'
    BY DEF MountPage, SendRefresh
  <2>4. \A g \in Handlers : OfPage(g) => call[g].way # way
    <3> SUFFICES ASSUME NEW g \in Handlers, OfPage(g), call[g].way = way PROVE FALSE
      OBVIOUS
    <3>1. call[g].page = p /\ call[g].pc \in {"refresh", "served", "answer"}
      BY <1>10 DEF OnePage, OfPage, Holds
    <3>2. SendRefresh(p, h) => way = "shared"
      BY <1>2, <1>4 DEF SendRefresh, CallBecomes
    <3> QED
      BY <3>1, <3>2 DEF MountPage, SendRefresh, MayRefresh, Sharing, Refreshes
  <2>5. f \notin doubled' => \A g \in Handlers : Holds(g) => FamilyHeld(g) # f
    <3> SUFFICES ASSUME f \notin doubled', NEW g \in Handlers, Holds(g), FamilyHeld(g) = f PROVE FALSE
      OBVIOUS
    <3>1. OfPage(g)
      BY <1>2, <1>10, <2>3 DEF SingleInv, Apart
    <3>2. call[g].page = p /\ call[g].pc \in {"refresh", "served", "answer"} /\ call[g] \in Calls
      BY <1>2, <1>10, <3>1 DEF OnePage, OfPage, Holds
    <3>3. SendRefresh(p, h) /\ call[g].way = "mount"
      BY <1>2, <3>2 DEF MountPage, SendRefresh, MayRefresh, Sharing, Refreshes, Calls
    <3>4. Mounting(p, f)
      BY <3>2, <3>3 DEF Mounting, Refreshes, FamilyHeld
    <3> QED
      BY <3>3, <3>4 DEF SendRefresh
  <2>6. f \notin doubled' => \A y \in Tokens : Live(y) /\ token[y].family = f => y = cookie
    BY <1>2, <1>10, <2>3, <2>5 DEF SingleInv, Newest, Renewing
  <2> HIDE DEF f
  <2>7. Apart'
    <3>1. \A g, i \in Handlers : OfPage(g)' /\ OfPage(i)' /\ call'[g].way = call'[i].way => g = i
      BY <1>4, <1>10, <2>1, <2>4 DEF SingleInv, Apart
    <3>2. \A g, i \in Handlers :
            Holds(g)' /\ Holds(i)' /\ FamilyHeld(g)' = FamilyHeld(i)' /\ FamilyHeld(i)' \notin doubled' => g = i
      BY <1>10, <2>1, <2>2, <2>3, <2>5 DEF SingleInv, Apart
    <3>3. f \notin doubled' => \A g \in Handlers : Holds(g)' /\ FamilyHeld(g)' = f => g = h
      BY <2>1, <2>5
    <3> QED
      BY <1>2, <1>4, <2>2, <3>1, <3>2, <3>3 DEF Apart, f
  <2>8. Newest'
    <3>1. ASSUME NEW g \in Handlers, NEW y \in Tokens, Holds(g)', Live(y), token[y].family = FamilyHeld(g)',
                 FamilyHeld(g)' \notin doubled'
          PROVE  y = call'[g].tok \/ (req[g].pc = "retire" /\ y = req[g].new)
      <4>1. CASE g = h
        BY <1>4, <2>2, <2>6, <3>1, <4>1
      <4>2. CASE g # h
        BY <1>4, <1>10, <2>1, <2>3, <3>1, <4>2 DEF SingleInv, Newest
      <4> QED
        BY <4>1, <4>2
    <3> QED
      BY <1>2, <2>6, <3>1 DEF Newest, Live, f
  <2> QED
    BY <2>7, <2>8 DEF SingleInv
<1> QED
  BY <1>9, <1>10

LEMMA RefreshIssuesStep ==
  ASSUME TokensInv, ClientInv, NEW h \in Handlers, RefreshIssues(h)
  PROVE  ClientInv' /\ (SingleInv => SingleInv')
<1> DEFINE k == req[h].tok
           f == token[k].family
<1>1. PICK n \in Tokens : IssueInFamily(h, n)
  BY DEF RefreshIssues
<1>2. /\ req[h].pc = "rotate" /\ token[n].status = "none" /\ UNCHANGED <<ended, call, cookie, doubled>>
      /\ k \in Tokens /\ token[k].status # "none"
  BY <1>1 DEF RefreshIssues, IssueInFamily, clientVars, TokensInv, FlightInv
<1>3. call[h].pc = "served" /\ call[h].tok = k /\ Holds(h) /\ FamilyHeld(h) = f
  BY <1>2 DEF ClientInv, Coupled, Calls, Holds, FamilyHeld
<1>4. /\ token'[n].status = "live" /\ token'[n].family = f /\ \A y \in Tokens \ {n} : token'[y] = token[y]
  BY <1>1 DEF IssueInFamily, Fresh, TokensInv, TypeOK
<1>5. /\ req'[h].pc = "retire" /\ req'[h].tok = k /\ req'[h].new = n
      /\ \A g \in Handlers \ {h} : req'[g] = req[g]
  BY <1>1 DEF IssueInFamily, Becomes, TokensInv, TypeOK, Flight
<1> HIDE DEF f, k
<1>6. \A g \in Handlers : Holds(g) => call[g].tok \in Tokens \ {n}
  BY <1>2 DEF ClientInv, Coupled
<1>7. \A g \in Handlers : /\ (Holds(g)' <=> Holds(g)) /\ (OfPage(g)' <=> OfPage(g))
                          /\ Holds(g) => FamilyHeld(g)' = FamilyHeld(g)
  BY <1>2, <1>4, <1>6 DEF Holds, OfPage, FamilyHeld
<1>8. cookie # NoToken => cookie \in Tokens \ {n} /\ token'[cookie] = token[cookie]
  BY <1>2, <1>4 DEF ClientInv, CookieGood
<1>9. \A g \in Handlers : Coupled(g)'
  <2> SUFFICES ASSUME NEW g \in Handlers PROVE Coupled(g)'
    OBVIOUS
  <2>1. CASE g = h
    BY <1>2, <1>3, <1>4, <1>5, <1>6, <1>7, <2>1 DEF ClientInv, Coupled
  <2>2. CASE g # h
    <3>1. req'[g] = req[g] /\ (req[g].pc = "kill" => req[g].tok \in Tokens /\ token[req[g].tok].status # "none")
      BY <1>5, <2>2 DEF TokensInv, FlightInv
    <3>2. req[g].pc = "kill" => token'[req[g].tok] = token[req[g].tok]
      BY <1>2, <1>4, <3>1
    <3> QED
      BY <1>2, <1>4, <1>6, <1>7, <3>1, <3>2 DEF ClientInv, Coupled
  <2> QED
    BY <2>1, <2>2
<1>10. \A y \in Tokens \ {n} : Good(y) => Good(y)'
  BY <1>2, <1>4 DEF Good, Live
<1>11. /\ Carried(h)' = n /\ Carried(h) = NoToken
       /\ \A g \in Handlers \ {h} : Carried(g)' = Carried(g)
  BY <1>2, <1>3, <1>5 DEF Carried
<1>12. \A g \in Handlers : Carried(g) # NoToken => Carried(g) \in Tokens \ {n}
  BY <1>2, CarriedExists
<1>13. Undelivered'
  <2> SUFFICES ASSUME NEW i \in Handlers, Carried(i)' # NoToken
               PROVE  /\ Good(Carried(i))' /\ cookie # Carried(i)'
                      /\ \A g \in Handlers : /\ call[g].pc \in {"refresh", "served"} => call[g].tok # Carried(i)'
                                             /\ g # i => Carried(g)' # Carried(i)'
    BY <1>2 DEF Undelivered
  <2>1. CASE i = h
    <3>1. Good(n)'
      BY <1>4 DEF Good, Live
    <3>2. cookie # n
      BY <1>8, TokensAssumption
    <3>3. \A g \in Handlers : Holds(g) => call[g].tok # n
      BY <1>6
    <3>4. Good(Carried(i))'
      BY <1>11, <2>1, <3>1 DEF Good, Live
    <3> QED
      BY <1>11, <1>12, <2>1, <3>2, <3>3, <3>4, TokensAssumption DEF Holds
  <2>2. CASE i # h
    <3>1. Carried(i)' = Carried(i) /\ Carried(i) \in Tokens \ {n} /\ Good(Carried(i))
      BY <1>11, <1>12, <2>2 DEF ClientInv, Undelivered
    <3>2. Good(Carried(i))'
      BY <1>10, <3>1 DEF Good, Live
    <3>3. \A g \in Handlers : g # i => Carried(g)' # Carried(i)'
      BY <1>11, <3>1 DEF ClientInv, Undelivered
    <3> QED
      BY <2>2, <3>1, <3>2, <3>3 DEF ClientInv, Undelivered
  <2> QED
    BY <2>1, <2>2
<1>14. CookieGood'
  <2> SUFFICES ASSUME cookie # NoToken
               PROVE  token'[cookie].status # "none" /\ (Good(cookie)' \/ \E g \in Handlers : call[g].pc = "answer")
    BY <1>2 DEF CookieGood
  <2>1. Good(cookie) => Good(cookie)'
    BY <1>2, <1>8, <1>10 DEF Good, Live
  <2> QED
    BY <1>8, <2>1 DEF ClientInv, CookieGood
<1>15. ClientInv'
  BY <1>2, <1>9, <1>13, <1>14 DEF ClientInv
<1>16. ASSUME SingleInv PROVE SingleInv'
  <2>1. Apart'
    BY <1>2, <1>7, <1>8, <1>16 DEF SingleInv, Apart, OfPage
  <2>2. ASSUME NEW g \in Handlers, NEW y \in Tokens, Holds(g)', Live(y)', token'[y].family = FamilyHeld(g)',
               FamilyHeld(g)' \notin doubled
        PROVE  y = call[g].tok \/ (req'[g].pc = "retire" /\ y = req'[g].new)
    <3>1. CASE y = n
      <4>1. FamilyHeld(g) = FamilyHeld(h) /\ Holds(g) /\ FamilyHeld(h) \notin doubled
        BY <1>3, <1>4, <1>7, <2>2, <3>1
      <4>2. g = h
        BY <1>3, <1>16, <4>1 DEF SingleInv, Apart
      <4> QED
        BY <1>5, <3>1, <4>2
    <3>2. CASE y # n
      <4>1. Live(y) /\ token[y].family = FamilyHeld(g) /\ Holds(g) /\ FamilyHeld(g) \notin doubled
        BY <1>4, <1>7, <2>2, <3>2 DEF Live
      <4>2. y = call[g].tok \/ (req[g].pc = "retire" /\ y = req[g].new)
        BY <1>16, <4>1 DEF SingleInv, Newest
      <4> QED
        BY <1>2, <1>5, <4>2
    <3> QED
      BY <3>1, <3>2
  <2>3. ASSUME cookie # NoToken, token'[cookie].family \notin doubled,
               NEW y \in Tokens, Live(y)', token'[y].family = token'[cookie].family, y # cookie
        PROVE  \E g \in Handlers : Renewing(g, token[cookie].family)'
    <3>1. CASE y = n
      <4>1. Renewing(h, token[cookie].family)'
        BY <1>2, <1>3, <1>4, <1>7, <1>8, <2>3, <3>1 DEF Renewing
      <4> QED
        BY <4>1
    <3>2. CASE y # n
      <4>1. Live(y) /\ token[y].family = token[cookie].family /\ token[cookie].family \notin doubled
        BY <1>4, <1>8, <2>3, <3>2 DEF Live
      <4>2. PICK g \in Handlers : Renewing(g, token[cookie].family)
        BY <1>16, <2>3, <4>1 DEF SingleInv, Newest
      <4>3. Renewing(g, token[cookie].family)'
        BY <1>2, <1>7, <1>8, <2>3, <4>2 DEF Renewing
      <4> QED
        BY <4>3
    <3> QED
      BY <3>1, <3>2
  <2> QED
    BY <1>2, <2>1, <2>2, <2>3 DEF SingleInv, Newest
<1> QED
  BY <1>15, <1>16

LEMMA RefreshAnsweredStep ==
  ASSUME TokensInv, ClientInv, NEW h \in Handlers, RefreshAnswered(h)
  PROVE  ClientInv' /\ (SingleInv => SingleInv')
<1> DEFINE k == req[h].tok
           n == req[h].new
           c == [call[h] EXCEPT !.pc = "answer", !.tok = n]
<1>1. /\ req[h].pc = "retire" /\ UNCHANGED <<ended, cookie, doubled>>
      /\ k \in Tokens /\ token[k].status # "none" /\ n \in Tokens /\ token[n].status # "none"
      /\ token[n].family = token[k].family /\ call \in [Handlers -> Calls]
  BY DEF RefreshAnswered, RetireParent, TokensInv, FlightInv, ClientInv
<1>2. /\ call[h].pc = "served" /\ call[h].tok = k /\ Holds(h)
      /\ FamilyHeld(h) = token[n].family /\ n # k
  BY <1>1 DEF ClientInv, Coupled, Calls, Holds, FamilyHeld
<1>3. /\ token'[k].status = "revoked" /\ token'[k].family = token[k].family
      /\ \A y \in Tokens \ {k} : token'[y] = token[y]
  BY <1>1 DEF RefreshAnswered, RetireParent, Retired, TokensInv, TypeOK, Rows
<1>4. req'[h].pc = "idle" /\ \A g \in Handlers \ {h} : req'[g] = req[g]
  BY DEF RefreshAnswered, RetireParent, Becomes, TokensInv, TypeOK, Idle
<1>5. c \in Calls /\ c.pc = "answer" /\ c.tok = n /\ c.page = call[h].page /\ c.way = call[h].way
  BY <1>1 DEF Calls
<1>6. call' = [call EXCEPT ![h] = c]
  BY DEF RefreshAnswered, CallBecomes
<1>7. Carried(h) = n
  BY <1>1, <1>2 DEF Carried
<1> HIDE DEF c, n, k
<1>8. /\ call' \in [Handlers -> Calls] /\ \A g \in Handlers \ {h} : call'[g] = call[g]
      /\ call'[h].pc = "answer" /\ call'[h].tok = n
      /\ call'[h].page = call[h].page /\ call'[h].way = call[h].way
  BY <1>1, <1>5, <1>6
<1>9. \A y \in Tokens : token'[y].family = token[y].family /\ (token'[y].status = "none" <=> token[y].status = "none")
  BY <1>1, <1>3
<1>10. \A g \in Handlers : Holds(g) => call[g].tok \in Tokens
  BY DEF ClientInv, Coupled
<1>11. \A g \in Handlers : /\ (Holds(g)' <=> Holds(g)) /\ (OfPage(g)' <=> OfPage(g))
                           /\ call'[g].way = call[g].way
                           /\ Holds(g) => FamilyHeld(g)' = FamilyHeld(g)
  <2>1. Holds(h)' /\ (OfPage(h)' <=> OfPage(h)) /\ FamilyHeld(h)' = FamilyHeld(h)
    BY <1>1, <1>2, <1>8, <1>9 DEF Holds, OfPage, FamilyHeld
  <2> QED
    BY <1>2, <1>8, <1>9, <1>10, <2>1 DEF Holds, OfPage, FamilyHeld
<1>12. \A y \in Tokens : Live(y)' => Live(y) /\ y # k
  BY <1>3 DEF Live
<1>13. \A y \in Tokens \ {k} : Good(y) => Good(y)'
  BY <1>1, <1>3 DEF Good, Live
<1>14. \A g \in Handlers : Coupled(g)'
  <2> SUFFICES ASSUME NEW g \in Handlers PROVE Coupled(g)'
    OBVIOUS
  <2>1. CASE g = h
    BY <1>1, <1>4, <1>8, <1>9, <2>1 DEF Coupled, Holds
  <2>2. CASE g # h
    <3>1. req'[g] = req[g] /\ call'[g] = call[g] /\ (req[g].pc = "kill" => req[g].tok \in Tokens)
      BY <1>4, <1>8, <2>2 DEF TokensInv, FlightInv
    <3>2. \A y \in Tokens : token[y].status = "revoked" => token'[y].status = "revoked"
      BY <1>3
    <3> QED
      BY <1>9, <1>11, <3>1, <3>2 DEF ClientInv, Coupled
  <2> QED
    BY <2>1, <2>2
<1>15. \A g \in Handlers : Carried(g)' = Carried(g)
  BY <1>4, <1>7, <1>8 DEF Carried
<1>16. \A g \in Handlers : Carried(g) # NoToken => Carried(g) \in Tokens \ {k}
  <2> SUFFICES ASSUME NEW g \in Handlers, Carried(g) # NoToken PROVE Carried(g) # k
    BY CarriedExists
  <2> QED
    BY <1>2 DEF ClientInv, Undelivered
<1>17. Undelivered'
  <2> SUFFICES ASSUME NEW i \in Handlers, Carried(i)' # NoToken
               PROVE  /\ Good(Carried(i))' /\ cookie # Carried(i)'
                      /\ \A g \in Handlers : /\ call'[g].pc \in {"refresh", "served"} => call'[g].tok # Carried(i)'
                                             /\ g # i => Carried(g)' # Carried(i)'
    BY <1>1 DEF Undelivered
  <2>1. Carried(i)' = Carried(i) /\ Carried(i) \in Tokens \ {k} /\ Good(Carried(i))
    BY <1>15, <1>16 DEF ClientInv, Undelivered
  <2>2. Good(Carried(i))'
    BY <1>13, <2>1 DEF Good, Live
  <2>3. \A g \in Handlers : g # i => Carried(g)' # Carried(i)'
    BY <1>15, <2>1 DEF ClientInv, Undelivered
  <2>4. \A g \in Handlers : call'[g].pc \in {"refresh", "served"} => call'[g] = call[g]
    BY <1>8
  <2> QED
    BY <2>1, <2>2, <2>3, <2>4 DEF ClientInv, Undelivered
<1>18. CookieGood'
  BY <1>1, <1>8, <1>9 DEF ClientInv, CookieGood
<1>19. ClientInv'
  BY <1>1, <1>8, <1>14, <1>17, <1>18 DEF ClientInv
<1>20. ASSUME SingleInv PROVE SingleInv'
  <2>0. cookie # NoToken => cookie \in Tokens
    BY DEF ClientInv
  <2>1. Apart'
    <3>1. \A g \in Handlers : call'[g].pc # "answer" => call'[g] = call[g]
      BY <1>8
    <3> QED
      BY <1>1, <1>9, <1>11, <1>20, <2>0, <3>1 DEF SingleInv, Apart
  <2>2. ASSUME NEW g \in Handlers, NEW y \in Tokens, Holds(g)', Live(y)', token'[y].family = FamilyHeld(g)',
               FamilyHeld(g)' \notin doubled
        PROVE  y = call'[g].tok \/ (req'[g].pc = "retire" /\ y = req'[g].new)
    <3>1. y = call[g].tok \/ (req[g].pc = "retire" /\ y = req[g].new)
      BY <1>9, <1>11, <1>12, <1>20, <2>2 DEF SingleInv, Newest
    <3>2. CASE g = h
      BY <1>2, <1>8, <1>12, <2>2, <3>1, <3>2 DEF n
    <3>3. CASE g # h
      BY <1>4, <1>8, <3>1, <3>3
    <3> QED
      BY <3>2, <3>3
  <2>3. ASSUME cookie # NoToken, token'[cookie].family \notin doubled,
               NEW y \in Tokens, Live(y)', token'[y].family = token'[cookie].family, y # cookie
        PROVE  \E g \in Handlers : Renewing(g, token[cookie].family)'
    <3>1. PICK g \in Handlers : Renewing(g, token[cookie].family)
      BY <1>9, <1>12, <1>20, <2>0, <2>3 DEF SingleInv, Newest
    <3>2. call'[g].pc # "refresh"
      BY <1>8, <3>1 DEF Renewing
    <3>3. Renewing(g, token[cookie].family)'
      BY <1>1, <1>9, <1>11, <2>0, <2>3, <3>1, <3>2 DEF Renewing
    <3> QED
      BY <3>3
  <2> QED
    BY <1>1, <2>1, <2>2, <2>3 DEF SingleInv, Newest
<1> QED
  BY <1>19, <1>20

LEMMA LoginAnsweredStep ==
  ASSUME TokensInv, ClientInv, NEW h \in Handlers, LoginAnswered(h)
  PROVE  ClientInv' /\ (OnePage /\ SingleInv => SingleInv')
<1>1. PICK n \in Tokens : /\ IssueNewFamily(h, n) /\ UNCHANGED <<cookie, doubled>>
                          /\ CallBecomes(h, [NoCall EXCEPT !.pc = "answer", !.tok = n])
  BY DEF LoginAnswered
<1> DEFINE c == [NoCall EXCEPT !.pc = "answer", !.tok = n]
<1>2. /\ req[h].pc \in {"login", "late"} /\ token[n].status = "none" /\ ended' = ended
      /\ call \in [Handlers -> Calls]
  BY <1>1 DEF IssueNewFamily, ClientInv
<1>3. c \in Calls /\ c.pc = "answer" /\ c.tok = n /\ c.page = NoToken /\ call' = [call EXCEPT ![h] = c]
  BY <1>1 DEF Calls, NoCall, CallBecomes
<1> HIDE DEF c
<1>4. /\ call' \in [Handlers -> Calls] /\ \A g \in Handlers \ {h} : call'[g] = call[g]
      /\ call'[h].pc = "answer" /\ call'[h].tok = n /\ call'[h].page = NoToken
  BY <1>2, <1>3
<1>5. token'[n].status = "live" /\ token'[n].family = n /\ \A y \in Tokens \ {n} : token'[y] = token[y]
  BY <1>1 DEF IssueNewFamily, Fresh, TokensInv, TypeOK
<1>6. req'[h].pc = "idle" /\ \A g \in Handlers \ {h} : req'[g] = req[g]
  BY <1>1 DEF IssueNewFamily, Becomes, TokensInv, TypeOK, Idle
<1>7. \A y \in Tokens : token[y].status # "none" => token[y].family # n
  BY <1>2 DEF TokensInv, TypeOK, HasFamily, Started
<1>8. ~Holds(h)
  BY <1>2 DEF ClientInv, Coupled, Holds
<1>9. \A g \in Handlers : Holds(g) => call[g].tok \in Tokens \ {n} /\ FamilyHeld(g) # n
  BY <1>2, <1>7 DEF ClientInv, Coupled, FamilyHeld
<1>10. \A g \in Handlers \ {h} : /\ (Holds(g)' <=> Holds(g)) /\ (OfPage(g)' <=> OfPage(g))
                                 /\ Holds(g) => FamilyHeld(g)' = FamilyHeld(g)
  BY <1>4, <1>5, <1>9 DEF Holds, OfPage, FamilyHeld
<1>11. Holds(h)' /\ FamilyHeld(h)' = n
  BY <1>4, <1>5 DEF Holds, FamilyHeld
<1>12. cookie # NoToken => cookie \in Tokens \ {n} /\ token'[cookie] = token[cookie] /\ token[cookie].family # n
  BY <1>2, <1>5, <1>7 DEF ClientInv, CookieGood
<1>13. \A g \in Handlers : Coupled(g)'
  <2> SUFFICES ASSUME NEW g \in Handlers PROVE Coupled(g)'
    OBVIOUS
  <2>1. CASE g = h
    BY <1>4, <1>5, <1>6, <2>1 DEF Coupled
  <2>2. CASE g # h
    <3>1. req'[g] = req[g] /\ (req[g].pc = "kill" => req[g].tok \in Tokens \ {n})
      BY <1>2, <1>6, <2>2 DEF TokensInv, FlightInv
    <3> QED
      BY <1>4, <1>5, <1>9, <1>10, <2>2, <3>1 DEF ClientInv, Coupled
  <2> QED
    BY <2>1, <2>2
<1>14. \A y \in Tokens \ {n} : Good(y) => Good(y)'
  BY <1>2, <1>5 DEF Good, Live
<1>15. Carried(h)' = n /\ \A g \in Handlers \ {h} : Carried(g)' = Carried(g)
  BY <1>4, <1>6 DEF Carried
<1>16. \A g \in Handlers : Carried(g) # NoToken => Carried(g) \in Tokens \ {n}
  BY <1>2, CarriedExists
<1>17. Undelivered'
  <2> SUFFICES ASSUME NEW i \in Handlers, Carried(i)' # NoToken
               PROVE  /\ Good(Carried(i))' /\ cookie # Carried(i)'
                      /\ \A g \in Handlers : /\ call'[g].pc \in {"refresh", "served"} => call'[g].tok # Carried(i)'
                                             /\ g # i => Carried(g)' # Carried(i)'
    BY <1>1 DEF Undelivered
  <2>0. \A g \in Handlers : call'[g].pc \in {"refresh", "served"} => g # h /\ call'[g] = call[g] /\ Holds(g)
    BY <1>4 DEF Holds
  <2>1. CASE i = h
    <3>1. Good(n)'
      BY <1>5 DEF Good, Live
    <3>2. cookie # n
      BY <1>12, TokensAssumption
    <3>3. Good(Carried(i))'
      BY <1>15, <2>1, <3>1 DEF Good, Live
    <3> QED
      BY <1>9, <1>15, <1>16, <2>0, <2>1, <3>2, <3>3, TokensAssumption
  <2>2. CASE i # h
    <3>1. Carried(i)' = Carried(i) /\ Carried(i) \in Tokens \ {n} /\ Good(Carried(i))
      BY <1>15, <1>16, <2>2 DEF ClientInv, Undelivered
    <3>2. Good(Carried(i))'
      BY <1>14, <3>1 DEF Good, Live
    <3>3. \A g \in Handlers : g # i => Carried(g)' # Carried(i)'
      BY <1>15, <3>1 DEF ClientInv, Undelivered
    <3> QED
      BY <2>0, <3>1, <3>2, <3>3 DEF ClientInv, Undelivered
  <2> QED
    BY <2>1, <2>2
<1>18. CookieGood'
  BY <1>1, <1>4, <1>12 DEF ClientInv, CookieGood
<1>19. ClientInv'
  BY <1>1, <1>4, <1>13, <1>17, <1>18 DEF ClientInv
<1>20. ASSUME OnePage, SingleInv PROVE SingleInv'
  <2>0. ~OfPage(h)' /\ \A y \in Tokens : Live(y) => token[y].family # n /\ y # n
    BY <1>2, <1>4, <1>7, <1>20 DEF OfPage, OnePage, Live
  <2>1. Apart'
    <3>1. \A g, i \in Handlers : OfPage(g)' /\ OfPage(i)' /\ call'[g].way = call'[i].way => g = i
      BY <1>4, <1>10, <1>20, <2>0 DEF SingleInv, Apart
    <3>2. \A g, i \in Handlers :
            Holds(g)' /\ Holds(i)' /\ FamilyHeld(g)' = FamilyHeld(i)' /\ FamilyHeld(i)' \notin doubled => g = i
      BY <1>9, <1>10, <1>11, <1>20 DEF SingleInv, Apart
    <3>3. cookie # NoToken /\ token[cookie].family \notin doubled =>
            \A g \in Handlers : Holds(g)' /\ FamilyHeld(g)' = token[cookie].family =>
                 OfPage(g)' /\ (call'[g].pc # "answer" => call'[g].tok = cookie)
      BY <1>4, <1>10, <1>11, <1>12, <1>20 DEF SingleInv, Apart
    <3> QED
      BY <1>1, <1>12, <3>1, <3>2, <3>3 DEF Apart
  <2>2. ASSUME NEW g \in Handlers, NEW y \in Tokens, Holds(g)', Live(y)', token'[y].family = FamilyHeld(g)',
               FamilyHeld(g)' \notin doubled
        PROVE  y = call'[g].tok \/ (req'[g].pc = "retire" /\ y = req'[g].new)
    <3>1. CASE y = n
      BY <1>4, <1>5, <1>9, <1>10, <2>2, <3>1
    <3>2. CASE y # n
      <4>1. Live(y) /\ token'[y] = token[y]
        BY <1>5, <2>2, <3>2 DEF Live
      <4>2. g # h
        BY <1>11, <2>0, <2>2, <4>1
      <4> QED
        BY <1>4, <1>6, <1>10, <1>20, <2>2, <4>1, <4>2 DEF SingleInv, Newest
    <3> QED
      BY <3>1, <3>2
  <2>3. ASSUME cookie # NoToken, token'[cookie].family \notin doubled,
               NEW y \in Tokens, Live(y)', token'[y].family = token'[cookie].family, y # cookie
        PROVE  \E g \in Handlers : Renewing(g, token[cookie].family)'
    <3>1. y # n
      BY <1>5, <1>12, <2>3
    <3>2. Live(y) /\ token[y].family = token[cookie].family
      BY <1>5, <1>12, <2>3, <3>1 DEF Live
    <3>3. PICK g \in Handlers : Renewing(g, token[cookie].family)
      BY <1>12, <1>20, <2>3, <3>2 DEF SingleInv, Newest
    <3>4. g # h
      BY <1>8, <3>3 DEF Renewing
    <3>5. Renewing(g, token[cookie].family)'
      BY <1>1, <1>4, <1>10, <1>12, <2>3, <3>3, <3>4 DEF Renewing
    <3> QED
      BY <3>5
  <2> QED
    BY <1>1, <2>1, <2>2, <2>3 DEF SingleInv, Newest
<1> QED
  BY <1>19, <1>20

LEMMA ReceiveAnswerStep ==
  ASSUME TokensInv, ClientInv, NEW h \in Handlers, ReceiveAnswer(h)
  PROVE  ClientInv' /\ (SingleInv => SingleInv')
<1> DEFINE x == call[h].tok
<1>1. /\ call[h].pc = "answer" /\ cookie' = x /\ UNCHANGED <<token, ended, req, doubled>>
      /\ call' = [call EXCEPT ![h] = NoCall] /\ call \in [Handlers -> Calls]
  BY DEF ReceiveAnswer, CookieSet, CallBecomes, vars, ClientInv
<1>2. /\ x \in Tokens /\ token[x].status # "none" /\ req[h].pc = "idle" /\ Holds(h)
      /\ FamilyHeld(h) = token[x].family /\ Carried(h) = x
  BY <1>1 DEF ClientInv, Coupled, Holds, FamilyHeld, Carried
<1>3. call' \in [Handlers -> Calls] /\ call'[h].pc = "none" /\ \A g \in Handlers \ {h} : call'[g] = call[g]
  BY <1>1, NoCallIs
<1>4. \A g \in Handlers : Coupled(g)'
  BY <1>1, <1>2, <1>3 DEF ClientInv, Coupled, Holds
<1>5. ~Holds(h)' /\ \A g \in Handlers \ {h} : /\ (Holds(g)' <=> Holds(g)) /\ (OfPage(g)' <=> OfPage(g))
                                              /\ FamilyHeld(g)' = FamilyHeld(g)
  BY <1>1, <1>3 DEF Holds, OfPage, FamilyHeld
<1>6. Carried(h)' = NoToken /\ \A g \in Handlers \ {h} : Carried(g)' = Carried(g)
  BY <1>1, <1>2, <1>3 DEF Carried
<1> HIDE DEF x
<1>7. x # NoToken
  BY <1>2, TokensAssumption
<1>8. Undelivered'
  <2> SUFFICES ASSUME NEW i \in Handlers, Carried(i)' # NoToken
               PROVE  /\ Good(Carried(i))' /\ x # Carried(i)'
                      /\ \A g \in Handlers : /\ call'[g].pc \in {"refresh", "served"} => call'[g].tok # Carried(i)'
                                             /\ g # i => Carried(g)' # Carried(i)'
    BY <1>1 DEF Undelivered
  <2>1. i # h /\ Carried(i)' = Carried(i) /\ Good(Carried(i)) /\ Carried(h) # Carried(i)
    BY <1>2, <1>6, <1>7 DEF ClientInv, Undelivered
  <2>2. Good(Carried(i))'
    BY <1>1, <2>1 DEF Good, Live
  <2>3. \A g \in Handlers : call'[g].pc \in {"refresh", "served"} => call'[g] = call[g]
    BY <1>3
  <2>4. \A g \in Handlers : g # i => Carried(g)' # Carried(i)'
    BY <1>6, <2>1 DEF ClientInv, Undelivered
  <2> QED
    BY <1>2, <2>1, <2>2, <2>3, <2>4 DEF ClientInv, Undelivered
<1>9. CookieGood'
  BY <1>1, <1>2, <1>7 DEF ClientInv, Undelivered, CookieGood, Good, Live
<1>10. ClientInv'
  BY <1>1, <1>2, <1>3, <1>4, <1>8, <1>9 DEF ClientInv
<1>11. ASSUME SingleInv PROVE SingleInv'
  <2>1. token[x].family \notin doubled => \A g \in Handlers \ {h} : Holds(g) => FamilyHeld(g) # token[x].family
    BY <1>2, <1>11 DEF SingleInv, Apart
  <2>2. Apart'
    BY <1>1, <1>2, <1>3, <1>5, <1>11, <2>1 DEF SingleInv, Apart, OfPage
  <2>3. token[x].family \notin doubled => \A y \in Tokens : Live(y) /\ token[y].family = token[x].family => y = x
    BY <1>2, <1>11 DEF SingleInv, Newest, x
  <2>4. Newest'
    BY <1>1, <1>3, <1>5, <1>11, <2>3 DEF SingleInv, Newest, Live
  <2> QED
    BY <2>2, <2>4 DEF SingleInv
<1> QED
  BY <1>10, <1>11

LEMMA ClientStarts ==
  ASSUME ClientInit
  PROVE  TokensInv /\ ClientInv /\ SingleInv
<1>1. TokensInv
  BY InitTokens DEF ClientInit
<1>2. /\ call \in [Handlers -> Calls] /\ cookie = NoToken
      /\ \A h \in Handlers : call[h].pc = "none" /\ req[h].pc = "idle"
  BY NoCallIs DEF ClientInit, Init, Idle
<1> QED
  BY <1>1, <1>2 DEF ClientInv, Coupled, Carried, Undelivered, CookieGood, SingleInv, Holds, OfPage, Apart, Newest

(* What the client makes the API do, the API may do: RefreshTokens' steps. *)
LEMMA ClientSteps ==
  ASSUME TokensInv, ClientInv, ClientNext
  PROVE  [Next]_vars
<1>1. ASSUME NEW p \in Pages, NEW h \in Handlers, MountPage(p, h) \/ SendRefresh(p, h) PROVE [Next]_vars
  BY <1>1 DEF MountPage, SendRefresh
<1>2. ASSUME NEW h \in Handlers, ServeRefresh(h) PROVE [Next]_vars
  <2>1. call[h].tok \in Tokens
    BY <1>2 DEF ServeRefresh, ClientInv, Coupled, Holds
  <2> QED
    BY <1>2, <2>1 DEF ServeRefresh, Next, Step, Rotation
<1>3. ASSUME NEW h \in Handlers, RefuseRefresh(h) \/ ReceiveAnswer(h) PROVE [Next]_vars
  BY <1>3 DEF RefuseRefresh, ReceiveAnswer
<1>4. ASSUME NEW h \in Handlers, RefreshIssues(h) \/ RefreshAnswered(h) \/ FamilyRevoked(h) PROVE [Next]_vars
  BY <1>4 DEF RefreshIssues, RefreshAnswered, FamilyRevoked, Next, Step, Rotation
<1>5. ASSUME NEW h \in Handlers, SendLogin(h) \/ ChallengeGiven(h) \/ LoginAnswered(h) PROVE [Next]_vars
  BY <1>5 DEF SendLogin, ChallengeGiven, LoginAnswered, Next, Step, Login
<1>6. ASSUME NEW h \in Handlers, SendLogout(h) PROVE [Next]_vars
  <2>1. cookie \in Tokens
    BY <1>6 DEF SendLogout, ClientInv
  <2> QED
    BY <1>6, <2>1 DEF SendLogout, Next, Step
<1>7. ASSUME NEW h \in Handlers, Elsewhere(h) PROVE [Next]_vars
  BY <1>7 DEF Elsewhere, Next, Step
<1>8. ASSUME ChallengeEnds \/ \E k \in Tokens : TokenExpires(k) PROVE [Next]_vars
  BY <1>8 DEF ChallengeEnds, TokenExpires, Next
<1> QED
  BY <1>1, <1>2, <1>3, <1>4, <1>5, <1>6, <1>7, <1>8 DEF ClientNext

LEMMA ClientStep ==
  ASSUME TokensInv, ClientInv, [ClientNext]_allVars
  PROVE  TokensInv' /\ ClientInv' /\ (OnePage /\ SingleInv => SingleInv')
<1> DEFINE Kept == ClientInv' /\ (OnePage /\ SingleInv => SingleInv')
<1>1. [Next]_vars
  BY ClientSteps DEF allVars
<1>2. TokensInv'
  BY <1>1, NextTokens
<1>3. ASSUME NEW h \in Handlers, Proceeds(h) PROVE Kept
  BY <1>3, Proceeding, ProceedingAlone
<1>4. ASSUME NEW p \in Pages, NEW h \in Handlers, MountPage(p, h) \/ SendRefresh(p, h) PROVE Kept
  BY <1>4, SendRefreshStep
<1>5. ASSUME NEW h \in Handlers,
             \/ ServeRefresh(h) \/ RefuseRefresh(h) \/ SendLogout(h) \/ SendLogin(h)
             \/ ChallengeGiven(h) \/ FamilyRevoked(h)
      PROVE  Kept
  BY <1>3, <1>5, ServeStep, SendStep, ChallengeGivenStep, FamilyRevokedStep
<1>6. ASSUME NEW h \in Handlers, RefreshIssues(h) \/ RefreshAnswered(h) PROVE Kept
  BY <1>6, RefreshIssuesStep, RefreshAnsweredStep
<1>7. ASSUME NEW h \in Handlers, LoginAnswered(h) \/ ReceiveAnswer(h) PROVE Kept
  BY <1>7, LoginAnsweredStep, ReceiveAnswerStep
<1>8. ASSUME NEW h \in Handlers, Elsewhere(h) PROVE Kept
  BY <1>8, AccountFades, ClientIdles DEF Elsewhere
<1>9. ASSUME NEW k \in Tokens, TokenExpires(k) PROVE Kept
  BY <1>9, ExpireFades, ClientIdles DEF TokenExpires
<1>10. ASSUME ChallengeEnds \/ UNCHANGED allVars PROVE Kept
  BY <1>10, SameRowsFade, ClientIdles DEF ChallengeEnds, ChallengeExpires, allVars, vars
<1>11. ClientNext \/ UNCHANGED allVars
  OBVIOUS
<1>12. Kept
  <2> HIDE DEF Kept
  <2> QED
    BY <1>4, <1>5, <1>6, <1>7, <1>8, <1>9, <1>10, <1>11 DEF ClientNext
<1> QED
  BY <1>2, <1>12

(* A browser with any number of pages and of calls at once, with refreshes *)
(* on mount, accesses that expire and sessions ended elsewhere: between    *)
(* calls it holds a token the API would accept, or its session was ended.  *)
THEOREM CookieStaysUsable == ClientSpec => []CookieUsable
<1>1. ClientInit => TokensInv /\ ClientInv
  BY ClientStarts
<1>2. TokensInv /\ ClientInv /\ [ClientNext]_allVars => TokensInv' /\ ClientInv'
  BY ClientStep
<1>3. ClientInv => CookieUsable
  BY DEF ClientInv, CookieGood, CookieUsable, Good
<1> QED
  BY <1>1, <1>2, <1>3, PTL DEF ClientSpec

(* A session ends as stolen only when RevokeFamily was given that cause.   *)
LEMMA ReuseIsKilled ==
  ASSUME TokensInv, [Next]_vars, NEW f \in Tokens, ended'[f] = "reuse", ended[f] # "reuse"
  PROVE  \E h \in Handlers : /\ RevokeFamily(h) /\ req[h].why = "reuse"
                             /\ token[req[h].tok].family = f
<1>1. PICK h \in Handlers : Step(h)
  BY DEF Next, Expire, ChallengeExpires, vars
<1>2. Step(h) => RevokeFamily(h)
  <2>1. ~Account(h)
    BY DEF Account, RevokeSessions, Disable, Enable, RemoveCompany, EndedAll
  <2> QED
    BY <2>1 DEF Step, Login, LoginRead, GiveChallenge, VerifyRead, IssueNewFamily, Rotation, RotateRead,
                IssueInFamily, RetireParent, LogoutRead, Abort, rows
<1>3. RevokeFamily(h) /\ ended \in [Tokens -> Causes \cup {"no"}]
  BY <1>1, <1>2 DEF TokensInv, TypeOK
<1> QED
  BY <1>3 DEF RevokeFamily

(* In a session that was not refreshed twice at once, a token that is      *)
(* presented revoked is the newest.                                        *)
LEMMA ReuseFindsNone ==
  ASSUME TokensInv, ClientInv, SingleInv, NEW h \in Handlers,
         RevokeFamily(h), req[h].why = "reuse", token[req[h].tok].family \notin doubled
  PROVE  \A k \in Tokens : token[k].family = token[req[h].tok].family => ~Live(k)
<1>1. req[h].pc = "kill" /\ token[req[h].tok].status = "revoked" /\ Coupled(h)
  BY DEF ClientInv, Coupled, RevokeFamily
<1>2. call[h].pc \in {"none", "refresh", "served", "answer", "login", "logout"}
  BY DEF ClientInv, Calls
<1>3. CASE call[h].pc = "served"
  <2>1. Holds(h) /\ FamilyHeld(h) = token[req[h].tok].family /\ call[h].tok = req[h].tok
    BY <1>1, <1>3 DEF Coupled, Holds, FamilyHeld
  <2>2. \A y \in Tokens : Live(y) /\ token[y].family = FamilyHeld(h) => y = req[h].tok
    BY <1>1, <2>1 DEF SingleInv, Newest
  <2> QED
    BY <1>1, <2>1, <2>2 DEF Live
<1>4. CASE call[h].pc # "served"
  BY <1>1, <1>2, <1>4 DEF Coupled
<1> QED
  BY <1>3, <1>4

(* packages/api-client: as the requests of a page share one refresh, it    *)
(* never presents a token it has had rotated: no session of its is ended   *)
(* as stolen while it still has a usable token, save one of which the page *)
(* presented a token while its refresh on mount was in flight.             *)
THEOREM NoSessionFalselyReused == ASSUME OnePage PROVE ClientSpec => NoFalseReuse
<1> DEFINE A == \A f \in Tokens \ doubled : ended'[f] = "reuse" /\ SessionOf(f) = "open" => ended[f] = "reuse"
           Inv == TokensInv /\ ClientInv /\ SingleInv
<1>1. ClientInit => Inv
  BY ClientStarts
<1>2. Inv /\ [ClientNext]_allVars => Inv'
  BY ClientStep
<1>3. ASSUME Inv, ClientNext PROVE A
  <2> SUFFICES ASSUME NEW f \in Tokens \ doubled, ended'[f] = "reuse", ended[f] # "reuse" PROVE SessionOf(f) # "open"
    OBVIOUS
  <2>1. PICK h \in Handlers : /\ RevokeFamily(h) /\ req[h].why = "reuse" /\ token[req[h].tok].family = f
    BY <1>3, ClientSteps, ReuseIsKilled
  <2>2. \A k \in Tokens : token[k].family = f => ~Live(k)
    BY <1>3, <2>1, ReuseFindsNone
  <2> QED
    BY <2>2 DEF SessionOf, FamilyOf
<1>4. Inv /\ [ClientNext]_allVars => [A]_allVars
  BY <1>3
<1> QED
  BY <1>1, <1>2, <1>4, PTL DEF ClientSpec, NoFalseReuse
=============================================================================
