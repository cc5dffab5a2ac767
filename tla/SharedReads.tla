---------------------------- MODULE SharedReads ----------------------------
(***************************************************************************)
(* Reads that callers share: the database probes of /health?deep=1 and     *)
(* /metrics (apps/worker/src/routes/db-probe.ts), on a pool of their own   *)
(* (packages/db/src/pool.ts createHealthPool), and the statistics of       *)
(* /tasks with their cache (routes/dashboard.ts).                          *)
(*                                                                         *)
(* A flight is one call of work(): it is given an answer, by the deadline  *)
(* at the latest, and it settles, perhaps long after.  A caller that finds *)
(* a flight shares its answer, which changes nothing here.                 *)
(***************************************************************************)
EXTENDS Naturals, FiniteSets

CONSTANTS
    Probe,      \* the routes with a probe
    Stats,      \* the loader of /tasks, of one namespace
    PoolMax,    \* clients of the probes' pool
    Flight,     \* bound: flights that are under way at once
    Ttl,        \* how long statistics are served from the cache
    MaxNow     \* bound on the clock

\* The pool has a client for each probe: "one HEALTHCHECK + one scrape".
ASSUME SharedReadsAssumption ==
    /\ Stats \notin Probe /\ Ttl \in Nat /\ MaxNow \in Nat
    /\ PoolMax \in Nat \ {0} /\ IsFiniteSet(Probe) /\ Cardinality(Probe) <= PoolMax

VARIABLES
    flight,  \* of Flight: [of, work, answer, owned, asOf]
    now,     \* the clock of the cache
    cache,   \* the statistics kept: when they were stored, when they were read
    told     \* of the statistics answered: when the last were read, and the newest

readVars == <<flight, now, cache, told>>

NoTime == MaxNow + 1
Settled == [of |-> Stats, work |-> "over", answer |-> "none", owned |-> FALSE, asOf |-> NoTime]

ReadInit ==
    /\ flight = [f \in Flight |-> Settled]
    /\ now = 0
    /\ cache = [at |-> NoTime, asOf |-> NoTime]
    /\ told = [last |-> 0, newest |-> 0]

Unsettled(r) == {f \in Flight : flight[f].of = r /\ flight[f].work # "over"}
OnLoan == {f \in Flight : flight[f].owned}

\* inflight: it is there until the work settles, not until it is answered.
Unanswered(r) == {f \in Unsettled(r) : flight[f].answer = "none"}
InFlight(r) == Unsettled(r)

BeginFlight(r, work) ==
    /\ InFlight(r) = {}
    /\ \E f \in Flight :
          /\ flight[f].work = "over"
          /\ flight' = [flight EXCEPT ![f] = [Settled EXCEPT !.of = r, !.work = work]]

\* finish: the first answer counts.
Answer(f, a) == IF flight[f].answer = "none" THEN a ELSE flight[f].answer

ProbeOnly == UNCHANGED <<now, cache, told>>

----------------------------------------------------------------------------
\* createDbProbe

AskProbe(r) == BeginFlight(r, "connecting") /\ ProbeOnly

\* A checkout that comes after the deadline is given back, without a query.
Checkout(f) ==
    /\ flight[f].work = "connecting" /\ Cardinality(OnLoan) < PoolMax
    /\ flight' = [flight EXCEPT
          ![f] = IF @.answer = "none" THEN [@ EXCEPT !.work = "querying", !.owned = TRUE]
                 ELSE Settled]
    /\ ProbeOnly

CheckoutFails(f) ==
    /\ flight[f].work = "connecting"
    /\ flight' = [flight EXCEPT ![f] = Settled]
    /\ ProbeOnly

\* The query answers or is refused: release, unless its client is gone already.
QuerySettles(f) ==
    /\ flight[f].of \in Probe /\ flight[f].work = "querying"
    /\ flight' = [flight EXCEPT ![f] = Settled]
    /\ ProbeOnly

\* onError: the client is destroyed; the query on it has still to settle.
ClientError(f) ==
    /\ flight[f].owned
    /\ flight' = [flight EXCEPT ![f].answer = Answer(f, "query_failed"), ![f].owned = FALSE]
    /\ ProbeOnly

\* The HTTP deadline: an answer, and the client of a query that hangs is destroyed.
Deadline(f) ==
    /\ flight[f].of \in Probe /\ flight[f].work # "over" /\ flight[f].answer = "none"
    /\ flight' = [flight EXCEPT ![f].answer = "timeout", ![f].owned = FALSE]
    /\ ProbeOnly

----------------------------------------------------------------------------
\* GET /tasks

Fresh == cache.at # NoTime /\ now - cache.at < Ttl
Tell(asOf) == told' = [last |-> asOf, newest |-> IF asOf > told.newest THEN asOf ELSE told.newest]

AskTasks ==
    IF Fresh THEN Tell(cache.asOf) /\ UNCHANGED <<flight, now, cache>>
    ELSE BeginFlight(Stats, "querying") /\ ProbeOnly

\* The load's queries have taken their snapshot.
LoadReads(f) ==
    /\ flight[f].of = Stats /\ flight[f].work = "querying" /\ flight[f].asOf = NoTime
    /\ flight' = [flight EXCEPT ![f].asOf = now]
    /\ ProbeOnly

\* Its callers store the answer, with the time they store it.
LoadSettles(f) ==
    /\ flight[f].of = Stats /\ flight[f].work = "querying" /\ flight[f].asOf # NoTime
    /\ flight' = [flight EXCEPT ![f] = Settled]
    /\ cache' = [at |-> now, asOf |-> flight[f].asOf]
    /\ Tell(flight[f].asOf)
    /\ UNCHANGED now

\* A failed load is not kept.
LoadFails(f) ==
    /\ flight[f].of = Stats /\ flight[f].work = "querying"
    /\ flight' = [flight EXCEPT ![f] = Settled]
    /\ ProbeOnly

TimePasses == now < MaxNow /\ now' = now + 1 /\ UNCHANGED <<flight, cache, told>>

ReadNext ==
    \/ \E r \in Probe : AskProbe(r)
    \/ \E f \in Flight :
          \/ Checkout(f) \/ CheckoutFails(f) \/ QuerySettles(f) \/ ClientError(f) \/ Deadline(f)
          \/ LoadReads(f) \/ LoadSettles(f) \/ LoadFails(f)
    \/ AskTasks \/ TimePasses

ReadSpec == ReadInit /\ [][ReadNext]_readVars

----------------------------------------------------------------------------
\* However long a checkout or a query hangs, and whatever errors come meanwhile, the
\* probes never have more work under way than their pool has clients, so that a
\* checkout never queues behind another probe; and a client is on loan only to a
\* flight whose callers still wait.  (db-probe.ts, the single flight and release.)
\* The statistics a dashboard is shown never go back to older ones.  (dashboard.ts,
\* inFlight beside statsCache.)
ProbesFitThePool ==
    /\ Cardinality(UNION {Unsettled(r) : r \in Probe}) <= PoolMax
    /\ \A f \in OnLoan : flight[f].answer = "none"
StatsNeverGoBack == told.last = told.newest
ReadsAreShared == ProbesFitThePool /\ StatsNeverGoBack
=============================================================================
