----------------------------- MODULE RateLimit ------------------------------
(***************************************************************************)
(* The token buckets of the HTTP surface (apps/worker/src/rate-limit.ts):  *)
(* a request draws from its caller's bucket, then from the one its class   *)
(* shares; buckets are made on first use, the oldest caller's is evicted   *)
(* at the cap, and the clock is the wall's, which may be set back.         *)
(*                                                                         *)
(* Beside the tokens runs a meter that knows nothing of them: it rises by  *)
(* one with every token granted and drains with real time.                 *)
(***************************************************************************)
EXTENDS Naturals, Integers, Sequences, FiniteSets

CONSTANTS
    Caller,     \* per-key identities
    Shared,     \* the global bucket of the class
    Rate,       \* tokens per tick, of a caller and of Shared
    Burst,      \* capacity of every bucket
    MaxEntries,
    MaxTime, MaxSetBacks  \* bounds

ASSUME RateAssumption ==
    /\ Shared \notin Caller
    /\ Rate \in [Caller \cup {Shared} -> Nat \ {0}]
    /\ Burst \in Nat \ {0} /\ MaxEntries \in Nat \ {0}

Name == Caller \cup {Shared}

VARIABLES
    time,     \* real time
    clock,    \* Date.now()
    order,    \* names with a bucket, in order of insertion
    tokens, refillAt,   \* per name, of its bucket
    meter, drainedAt,   \* per name, the reference
    forgot,   \* history: callers that lost their bucket
    refusal,  \* the bucket that refused the last request, or the two of one half way
    setBacks

rateVars == <<time, clock, order, tokens, refillAt, meter, drainedAt, forgot, refusal, setBacks>>

None  == <<>>
Has(x) == \E i \in DOMAIN order : order[i] = x
Least(a, b)    == IF a < b THEN a ELSE b
Positive(a)    == IF a < 0 THEN 0 ELSE a

RateInit ==
    /\ time = 0 /\ clock = 0 /\ order = <<>>
    /\ tokens = [x \in Name |-> 0] /\ refillAt = [x \in Name |-> 0]
    /\ meter = [x \in Name |-> 0] /\ drainedAt = [x \in Name |-> 0]
    /\ forgot = {} /\ refusal = None /\ setBacks = 0

\* The meter of x now, before another token.
Level(x) == Positive(meter[x] - Rate[x] * (time - drainedAt[x]))

----------------------------------------------------------------------------
\* consume.  The one evicted is the earliest inserted caller, never Shared.

AnyOldest(seq) == {i \in DOMAIN seq : i = 1}
OldestCaller(seq) == {i \in DOMAIN seq : /\ seq[i] \in Caller
                                         /\ \A j \in DOMAIN seq : seq[j] \in Caller => i <= j}
Evicted(seq) ==
    IF Len(seq) < MaxEntries \/ OldestCaller(seq) = {} THEN {} ELSE OldestCaller(seq)
Without(seq, at) == [i \in 1 .. (Len(seq) - Cardinality(at)) |->
                        IF \E j \in at : j <= i THEN seq[i + 1] ELSE seq[i]]

Refilled(x) == IF clock > refillAt[x]
               THEN Least(Burst, tokens[x] + (clock - refillAt[x]) * Rate[x]) ELSE tokens[x]

Granted(x) == ~Has(x) \/ Refilled(x) >= 1

Consume(x) ==
    IF Has(x)
    THEN /\ tokens' = [tokens EXCEPT ![x] = Refilled(x) - (IF Granted(x) THEN 1 ELSE 0)]
         /\ refillAt' = [refillAt EXCEPT ![x] = IF clock > @ THEN clock ELSE @]
         /\ UNCHANGED <<order, forgot>>
    ELSE /\ order' = Append(Without(order, Evicted(order)), x)
         /\ forgot' = forgot \cup {order[i] : i \in Evicted(order)}
         /\ tokens' = [tokens EXCEPT ![x] = Burst - 1]
         /\ refillAt' = [refillAt EXCEPT ![x] = clock]

\* A caller that lost its bucket starts afresh: nothing more is claimed of it.
Metered(x) ==
    IF Granted(x) /\ x \notin forgot \cap Caller
    THEN /\ meter' = [meter EXCEPT ![x] = Level(x) + 1]
         /\ drainedAt' = [drainedAt EXCEPT ![x] = time]
    ELSE UNCHANGED <<meter, drainedAt>>

\* The middleware draws from the caller's bucket, and when that grants from Shared,
\* with nothing in between.
Draw(c) ==
    /\ Len(refusal) < 2
    /\ Consume(c) /\ Metered(c)
    /\ refusal' = IF Granted(c) THEN <<c, Shared>> ELSE <<c>>
    /\ UNCHANGED <<time, clock, setBacks>>
DrawShared ==
    /\ Len(refusal) = 2
    /\ Consume(Shared) /\ Metered(Shared)
    /\ refusal' = IF Granted(Shared) THEN None ELSE <<Shared>>
    /\ UNCHANGED <<time, clock, setBacks>>

Tick ==
    /\ Len(refusal) < 2 /\ time < MaxTime
    /\ time' = time + 1 /\ clock' = clock + 1
    /\ refusal' = None
    /\ UNCHANGED <<order, tokens, refillAt, meter, drainedAt, forgot, setBacks>>
SetBack ==
    /\ Len(refusal) < 2 /\ setBacks < MaxSetBacks
    /\ clock' = clock - 1 /\ setBacks' = setBacks + 1
    /\ refusal' = None
    /\ UNCHANGED <<time, order, tokens, refillAt, meter, drainedAt, forgot>>

RateNext == (\E c \in Caller : Draw(c)) \/ DrawShared \/ Tick \/ SetBack

RateSpec == RateInit /\ [][RateNext]_rateVars

----------------------------------------------------------------------------
\* Over any stretch of time no more than Burst plus the rate is granted: to the class
\* as a whole whatever is evicted or set back, to a caller while it keeps its bucket.
\* And a request is refused only for a bucket that is really spent, unless the clock
\* was set back.  (rate-limit.ts consume, "the `global:` buckets are deliberately never
\* evicted", "eviction can only ever be permissive".)
RateHeld ==
    /\ \A x \in Name : x = Shared \/ x \notin forgot => meter[x] <= Burst
    /\ setBacks = 0 /\ Len(refusal) = 1 /\ refusal[1] \notin forgot =>
          Level(refusal[1]) + 1 > Burst
=============================================================================
