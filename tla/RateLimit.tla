----------------------------- MODULE RateLimit -----------------------------
(***************************************************************************)
(* src/internal/ratelimit: a token bucket per key.  A limiter is a         *)
(* function from the keys it holds to their buckets.  Each operation is    *)
(* one critical section of the limiter's mutex, so it is written as a      *)
(* function from the limiter before it to the limiter after it.            *)
(*                                                                         *)
(* Time is counted in ticks and a bucket in shares of a token: one share   *)
(* comes back per tick, and Refill shares make a token.                    *)
(***************************************************************************)
EXTENDS Naturals, FiniteSets, FiniteSetsExt, Functions

CONSTANTS Burst, Refill, Capacity

ASSUME LimitAssumption == Burst \in Nat \ {0} /\ Refill \in Nat \ {0} /\ Capacity \in Nat

Full == Burst * Refill

EmptyLimiter == [k \in {} |-> 0]

\* What a bucket would hold at the given time; Allow is what writes it back.
Refilled(b, now) == Min({Full, b.shares + (now - b.last)})

\* mutant: any key may be dropped to make room
SweepAny(limiter, now) == Restrict(limiter, {})

\* A key that has refilled completely is forgotten: it is like one never seen.
SweepFull(limiter, now) ==
  Restrict(limiter, {k \in DOMAIN limiter : Refilled(limiter[k], now) < Full})

Holds(limiter, k) == k \in DOMAIN limiter

HasRoom(limiter) == Cardinality(DOMAIN limiter) < Capacity

\* A new key is swept for and then refused, never another one's bucket evicted.
Admitting(limiter, k, now) ==
  IF Holds(limiter, k) \/ HasRoom(limiter) THEN limiter ELSE SweepFull(limiter, now)

Admitted(limiter, k, now) ==
  LET l == Admitting(limiter, k, now) IN Holds(l, k) \/ HasRoom(l)

\* The shares a key can spend now.
Credit(limiter, k, now) ==
  IF Holds(limiter, k) THEN Refilled(limiter[k], now) ELSE Full

\* Whether a request may proceed, and the limiter after asking.  A refused request leaves
\* the refill written down.
Allowed(limiter, k, now) ==
  Admitted(limiter, k, now) /\ Credit(limiter, k, now) >= Refill

AfterAllow(limiter, k, now) ==
  LET l == Admitting(limiter, k, now)
      spent == IF Allowed(limiter, k, now) THEN Refill ELSE 0
  IN IF ~Admitted(limiter, k, now) THEN l
     ELSE [x \in DOMAIN l \cup {k} |->
             IF x = k THEN [shares |-> Credit(limiter, k, now) - spent,
                            last |-> IF Holds(l, k) THEN Max({now, l[k].last}) ELSE now]
             ELSE l[x]]

\* One token back, and no more than a full bucket.  A key that was swept is owed nothing.
Restored(limiter, k) ==
  IF Holds(limiter, k)
  THEN [limiter EXCEPT ![k].shares = Min({Full, @ + Refill})]
  ELSE limiter
=============================================================================
