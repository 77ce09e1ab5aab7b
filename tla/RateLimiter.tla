----------------------------- MODULE RateLimiter -------------------------------
(***************************************************************************)
(* The token buckets of apps/codex-plus-mobile-relay/src/rate_limiter.rs:  *)
(* created on an address's first handshake, refilled lazily from the time  *)
(* since the last one, and forgotten when they have been idle for long.    *)
(* Token counts are in units of 1/Window of a token, where the code's      *)
(* floating point has them exact up to rounding.                           *)
(***************************************************************************)
EXTENDS Integers

CONSTANTS
  Ips,           \* client addresses
  Capacity,      \* handshakes in a burst
  Window,        \* the time that refills a whole bucket
  CleanupEvery,  \* the time between two cleanups
  StaleAfter,    \* a bucket idle for this long is forgotten
  NoBucket,      \* no entry in the map
  MaxTime,       \* bound: how far the clock runs
  MaxRefused     \* bound: handshakes turned away, per address

(* The code has 10 per 60 s, and 600 s for a stale bucket. *)
ASSUME LimiterAssumption ==
  /\ Capacity \in Nat \ {0} /\ Window \in Nat \ {0}
  /\ CleanupEvery \in Nat /\ StaleAfter \in Nat /\ MaxTime \in Nat /\ MaxRefused \in Nat
  /\ StaleAfter >= Window
  /\ NoBucket \notin [tokens : Int, at : Int]

VARIABLES
  now,          \* Instant::now()
  buckets,
  lastCleanup,
  granted,      \* history: handshakes let through, per address
  refused       \* history: handshakes turned away, per address

limiter_vars == <<now, buckets, lastCleanup, granted, refused>>

Lower(a, b) == IF a <= b THEN a ELSE b

Full == Capacity * Window

(* A bucket as its next use would find it. *)
Refilled(b) == Lower(Full, b.tokens + (now - b.at) * Capacity)

(* Mutant: a bucket is forgotten the moment it is idle. *)
StaleAtOnce(b) == b # NoBucket /\ now > b.at

Stale(b) == b # NoBucket /\ now - b.at >= StaleAfter

(* cleanup_stale *)
CleanupDue == now - lastCleanup >= CleanupEvery

Cleaned ==
  IF CleanupDue
  THEN [ip \in Ips |-> IF Stale(buckets[ip]) THEN NoBucket ELSE buckets[ip]]
  ELSE buckets

TokensAtUse(b) == IF b = NoBucket THEN Full ELSE Refilled(b)

(* Mutant: the time of the last refill is kept. *)
LeftFromBefore(ip, tokens) ==
  [tokens |-> tokens, at |-> IF Cleaned[ip] = NoBucket THEN now ELSE Cleaned[ip].at]

LeftWith(ip, tokens) == [tokens |-> tokens, at |-> now]

LimiterInit ==
  /\ now = 0
  /\ buckets = [ip \in Ips |-> NoBucket]
  /\ lastCleanup = 0
  /\ granted = [ip \in Ips |-> 0]
  /\ refused = [ip \in Ips |-> 0]

(* register_peer's use of the limiter: cleanup_stale, check_and_consume. *)
Handshake(ip) ==
  LET tokens == TokensAtUse(Cleaned[ip])
      admitted == tokens >= Window
  IN /\ admitted \/ refused[ip] < MaxRefused
     /\ buckets' = [Cleaned EXCEPT ![ip] =
                      LeftWith(ip, IF admitted THEN tokens - Window ELSE tokens)]
     /\ lastCleanup' = IF CleanupDue THEN now ELSE lastCleanup
     /\ granted' = IF admitted THEN [granted EXCEPT ![ip] = @ + 1] ELSE granted
     /\ refused' = IF admitted THEN refused ELSE [refused EXCEPT ![ip] = @ + 1]
     /\ UNCHANGED now

Tick ==
  /\ now < MaxTime
  /\ now' = now + 1
  /\ UNCHANGED <<buckets, lastCleanup, granted, refused>>

LimiterNext == Tick \/ \E ip \in Ips : Handshake(ip)

LimiterSpec == LimiterInit /\ [][LimiterNext]_limiter_vars

----
(* Properties. *)

(* Every variable has its type; a bucket never holds more than a full one. *)
LimiterTypeOK ==
  /\ now \in 0..MaxTime /\ lastCleanup \in 0..now
  /\ buckets \in [Ips -> [tokens : 0..Full, at : 0..now] \cup {NoBucket}]
  /\ granted \in [Ips -> Nat] /\ refused \in [Ips -> 0..MaxRefused]

LevelOf(ip) == TokensAtUse(buckets[ip])

Ideal == INSTANCE IdealLimiter WITH level <- [ip \in Ips |-> LevelOf(ip)]

(* Forgetting idle buckets is unobservable: the limiter lets through and   *)
(* turns away exactly what the ideal one would.                            *)
ImplementsIdeal == Ideal!Spec

(* Since the relay started, an address has been let through at most        *)
(* Capacity times plus the refill of the time gone by: what it was granted *)
(* and what it may still take never exceed that budget.                    *)
BurstBound ==
  \A ip \in Ips : granted[ip] * Window + LevelOf(ip) <= Full + now * Capacity
=============================================================================
