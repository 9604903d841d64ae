----------------------------- MODULE RateLimiter -----------------------------
(***************************************************************************)
(* server/rate_limiter.py: a bucket of tokens per key that is refilled     *)
(* only when the key is asked for, from the time since it was asked for    *)
(* last.  Time is counted in ticks and tokens in parts of a token, so that *)
(* the refill of a tick is a whole number of parts.  Any sequence of calls *)
(* is allowed; Access makes the calls of the WebSocket handler.            *)
(***************************************************************************)
EXTENDS Integers, Sequences

CONSTANTS Key,     \* the keys: user names and addresses
          Rate,    \* the `rate` argument, in tokens
          Unit,    \* the parts of a token
          Refill,  \* the parts a bucket gains in a tick: rate / per
          MaxClock \* bound: the time that passes

ASSUME LimiterAssumption ==
  /\ Rate \in Nat \ {0} /\ Unit \in Nat \ {0} /\ Refill \in Nat \ {0}
  /\ MaxClock \in Nat

VARIABLES
  buckets, \* the keys of _buckets
  tokens,  \* _buckets[k][0], zero without a bucket
  last,    \* _buckets[k][1], zero without a bucket
  clock,   \* time.monotonic()
  answer,  \* history: the last call of allow, as <<key, result>>
  taken    \* history: when each key's bucket admitted requests

rlVars == <<buckets, tokens, last, clock, answer, taken>>

Full == Rate * Unit
Capped(t) == IF t < Full THEN t ELSE Full

RlInit == /\ buckets = {}
          /\ tokens = [k \in Key |-> 0] /\ last = [k \in Key |-> 0]
          /\ clock = 0 /\ answer = <<>>
          /\ taken = [k \in Key |-> <<>>]

\* Mutant of Refilled: the bucket may grow beyond its capacity.
RefilledUncapped(k) == tokens[k] + (clock - last[k]) * Refill

\* The tokens of a bucket after the refill at the start of a call.
Refilled(k) == Capped(tokens[k] + (clock - last[k]) * Refill)

Admits(k) == k \in buckets => Refilled(k) >= Unit

\* Mutant of Allow: a refused call leaves the time of the last refill as it was.
AllowRefillsTwice(k) ==
  LET now == IF k \in buckets THEN Refilled(k) ELSE Full
      left == IF Admits(k) THEN now - Unit ELSE now
  IN /\ buckets' = buckets \cup {k}
     /\ tokens' = [tokens EXCEPT ![k] = left]
     /\ last' = IF Admits(k) THEN [last EXCEPT ![k] = clock] ELSE last
     /\ answer' = <<k, Admits(k)>>
     /\ taken' = IF Admits(k) THEN [taken EXCEPT ![k] = Append(@, clock)] ELSE taken
     /\ UNCHANGED clock

\* The first request finds a full bucket.  The time is taken down either way.
Allow(k) ==
  LET now == IF k \in buckets THEN Refilled(k) ELSE Full
      left == IF Admits(k) THEN now - Unit ELSE now
  IN /\ buckets' = buckets \cup {k}
     /\ tokens' = [tokens EXCEPT ![k] = left]
     /\ last' = [last EXCEPT ![k] = clock]
     /\ answer' = <<k, Admits(k)>>
     /\ taken' = IF Admits(k) THEN [taken EXCEPT ![k] = Append(@, clock)] ELSE taken
     /\ UNCHANGED clock

\* reset of one key, or of every key when the process ends.
Drop(K) == /\ buckets' = buckets \ K
           /\ tokens' = [k \in Key |-> IF k \in K THEN 0 ELSE tokens[k]]
           /\ last' = [k \in Key |-> IF k \in K THEN 0 ELSE last[k]]
           /\ taken' = [k \in Key |-> IF k \in K THEN <<>> ELSE taken[k]]
           /\ UNCHANGED <<clock, answer>>

Tick == /\ clock < MaxClock /\ clock' = clock + 1
        /\ UNCHANGED <<buckets, tokens, last, answer, taken>>

RlNext == Tick \/ (\E k \in Key : Allow(k)) \/ (\E K \in SUBSET Key : Drop(K))
RlSpec == RlInit /\ [][RlNext]_rlVars

-----------------------------------------------------------------------------
\* The types of the fields: no bucket is over-full or was asked in the future, and
\* nothing is known of a key without a bucket.
RlTypeOK ==
  /\ buckets \in SUBSET Key
  /\ clock \in Nat
  /\ tokens \in [Key -> 0..Full] /\ last \in [Key -> 0..clock]
  /\ taken \in [Key -> Seq(0..clock)]
  /\ \A k \in Key \ buckets : taken[k] = <<>>

\* In no period up to now has a key had more requests admitted by one bucket than a
\* full bucket and the refill of that period allow, however the calls are spaced.
RateKept == \A k \in Key : \A i \in DOMAIN taken[k] :
  (Len(taken[k]) - i + 1) * Unit <= Full + (clock - taken[k][i]) * Refill

Bucket == INSTANCE TokenBucket WITH
  Limit <- Full, Cost <- Unit, Growth <- Refill,
  credit <- [k \in Key |-> IF k \in buckets THEN Refilled(k) ELSE Full]

\* The limiter answers as if every bucket were refilled all the time, and a request
\* after a reset is answered as one with a full bucket: nobody gains or loses by when
\* the others, or the key itself, ask.
RefillsContinuously == Bucket!TbSpec
==============================================================================
