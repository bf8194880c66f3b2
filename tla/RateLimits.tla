----------------------------- MODULE RateLimits -----------------------------
(***************************************************************************)
(* The limits a public request passes before its handler: so many a minute *)
(* from one address (ThrottlerRedisStorage, with a block of the address),  *)
(* so many an hour for one booking page or invoice, whatever the address   *)
(* (SlugRateLimitService).  Either limit is a Redis counter that is raised *)
(* in one call and given its expiry in a second one, by the request that   *)
(* finds it new.                                                           *)
(***************************************************************************)
EXTENDS Integers, FiniteSets

CONSTANTS
  Addresses, Slug,        (* one counter for each address, one for the page *)
  Requests,               (* slots for requests in flight                  *)
  PerAddress, PerSlug,    (* limits of a window                            *)
  MaxHits,                (* bound: requests begun while a counter is low  *)
  MaxCrashes              (* bound: requests whose process dies            *)

Keys == Addresses \cup {Slug}

VARIABLES
  hits,    (* per key: the counter, 0 when there is none                   *)
  expiry,  (* per key: the counter has an expiry                           *)
  block,   (* addresses that are blocked                                   *)
  flight,  (* requests in flight: the key they are at, and what they read  *)
  passed,  (* history, per key: requests let through in this window        *)
  crashes

vars == <<hits, expiry, block, flight, passed, crashes>>

LimitOf(k) == IF k = Slug THEN PerSlug ELSE PerAddress

NoRequest == [pc |-> "none", from |-> Slug, key |-> Slug, count |-> 0]

Init ==
  /\ hits = [k \in Keys |-> 0] /\ expiry = [k \in Keys |-> FALSE]
  /\ block = {}
  /\ flight = [r \in Requests |-> NoRequest]
  /\ passed = [k \in Keys |-> 0] /\ crashes = 0

Becomes(r, q) == flight' = [flight EXCEPT ![r] = q]

Redis == <<hits, expiry, block>>

(* The block of the address is asked first; a blocked one is not counted.  *)
Arrive(r, a) ==
  /\ flight[r].pc = "none"
  /\ \A k \in Keys : hits[k] < MaxHits
  /\ a \notin block
  /\ Becomes(r, [pc |-> "incr", from |-> a, key |-> a, count |-> 0])
  /\ UNCHANGED <<Redis, passed, crashes>>

(* Mutant: the count is taken for the one before it was raised. *)
Fresh_Before(count) == count = 0

Fresh(count) == count = 1

(* Mutant: the limit is met before it refuses. *)
Within_OneMore(k, count) == count <= LimitOf(k) + 1

Within(k, count) == count <= LimitOf(k)

(* A request past its address goes to the page's counter; past that one,   *)
(* to the challenge; over either limit it is refused.                      *)
Onward(r, q) ==
  IF Within(q.key, q.count)
  THEN IF q.key = Slug THEN [q EXCEPT !.pc = "challenge"]
       ELSE [q EXCEPT !.pc = "incr", !.key = Slug]
  ELSE IF q.key = Slug THEN NoRequest ELSE [q EXCEPT !.pc = "block"]

Incr(r) ==
  LET k == flight[r].key
      q == [flight[r] EXCEPT !.count = hits[k] + 1]
  IN  /\ flight[r].pc = "incr"
      /\ hits' = [hits EXCEPT ![k] = @ + 1]
      /\ passed' = IF Within(k, q.count) THEN [passed EXCEPT ![k] = @ + 1] ELSE passed
      /\ Becomes(r, IF Fresh(q.count) THEN [q EXCEPT !.pc = "expire"] ELSE Onward(r, q))
      /\ UNCHANGED <<expiry, block, crashes>>

SetExpiry(r) ==
  LET k == flight[r].key
  IN  /\ flight[r].pc = "expire"
      /\ expiry' = [expiry EXCEPT ![k] = hits[k] > 0]
      /\ Becomes(r, Onward(r, flight[r]))
      /\ UNCHANGED <<hits, block, passed, crashes>>

(* The key of the block and its expiry are written in one call. *)
SetBlock(r) ==
  /\ flight[r].pc = "block"
  /\ block' = block \cup {flight[r].from}
  /\ Becomes(r, NoRequest)
  /\ UNCHANGED <<hits, expiry, passed, crashes>>

(* Turnstile refuses, or the service is called. *)
Challenged(r) ==
  /\ flight[r].pc = "challenge"
  /\ Becomes(r, NoRequest)
  /\ UNCHANGED <<Redis, passed, crashes>>

KeyExpires(k) ==
  /\ expiry[k]
  /\ hits' = [hits EXCEPT ![k] = 0] /\ expiry' = [expiry EXCEPT ![k] = FALSE]
  /\ passed' = [passed EXCEPT ![k] = 0]
  /\ UNCHANGED <<block, flight, crashes>>

BlockEnds(a) ==
  /\ a \in block /\ block' = block \ {a}
  /\ UNCHANGED <<hits, expiry, flight, passed, crashes>>

Crash(r) ==
  /\ flight[r].pc # "none" /\ crashes < MaxCrashes
  /\ crashes' = crashes + 1
  /\ Becomes(r, NoRequest)
  /\ UNCHANGED <<Redis, passed>>

Serve(r) == Incr(r) \/ SetExpiry(r) \/ SetBlock(r) \/ Challenged(r)

Next ==
  \/ \E r \in Requests : Serve(r) \/ Crash(r) \/ \E a \in Addresses : Arrive(r, a)
  \/ \E k \in Keys : KeyExpires(k)
  \/ \E a \in Addresses : BlockEnds(a)

(* Redis removes a key in time, and a request is served unless it dies.    *)
Fairness ==
  /\ \A r \in Requests : WF_vars(Serve(r))
  /\ \A k \in Keys : WF_vars(KeyExpires(k))
  /\ \A a \in Addresses : WF_vars(BlockEnds(a))

Spec == Init /\ [][Next]_vars /\ Fairness

-----------------------------------------------------------------------------
(* "caps total submissions against a single booking slug regardless of how *)
(* many distinct IPs": no more are let through in a window, however they   *)
(* overlap; and a counter without an expiry has exactly one request on its *)
(* way to set it, or that request died (increment, assertWithinLimit).     *)
KeysAccounted ==
  \A k \in Keys :
    /\ passed[k] <= LimitOf(k)
    /\ (hits[k] > 0 /\ ~expiry[k] /\ crashes = 0) =>
         Cardinality({r \in Requests : flight[r].pc = "expire" /\ flight[r].key = k}) = 1

(* A page or an address over its limit is open again in time, if no        *)
(* request died between the two calls (slug-rate-limit.service.ts:15).     *)
PageReopens == \A k \in Keys : hits[k] > LimitOf(k) ~> (hits[k] = 0 \/ crashes > 0)
=============================================================================
