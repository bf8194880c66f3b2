------------------------------ MODULE Sessions ------------------------------
(***************************************************************************)
(* What the refresh tokens promise, seen from a session (a token family):  *)
(* it is opened once by a login, it is ended by a logout, by the reuse of  *)
(* a token, or with all the others of the account, and it never opens      *)
(* again: whoever held it has to log in.  RefreshTokens implements it.     *)
(***************************************************************************)
CONSTANTS Ids

VARIABLE session

Init == session = [f \in Ids |-> "none"]

Open(f) ==
  /\ session[f] = "none"
  /\ session' = [session EXCEPT ![f] = "open"]

End(S) ==
  session' = [f \in Ids |-> IF f \in S /\ session[f] = "open" THEN "ended" ELSE session[f]]

Next == \/ \E f \in Ids : Open(f)
        \/ \E S \in SUBSET Ids : End(S)

Spec == Init /\ [][Next]_session
=============================================================================
