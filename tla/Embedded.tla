------------------------------ MODULE Embedded ------------------------------
(***************************************************************************)
(* createEmbeddedRuntime (apps/worker/src/embedded.ts): runtimes that live *)
(* in a host's process and borrow what is global there - the one slot, the *)
(* resolver of in-process results, the default client - and give it back   *)
(* however they end.  One action is what runs between two awaits.          *)
(***************************************************************************)
EXTENDS Naturals

CONSTANTS
    Runtime,      \* calls of createEmbeddedRuntime
    Explicit,     \* those with setDefault: false
    Host,         \* the host's own resolver, and a default client from before
    OtherClient,  \* a client the host builds later
    Vacant,       \* null: no resolver, no default client
    NoRuntime

ASSUME EmbeddedAssumption ==
    Explicit \subseteq Runtime /\ {Vacant, NoRuntime, Host, OtherClient} \cap Runtime = {}

VARIABLES
    slot,      \* embeddedSlot.active
    stage,     \* per runtime, what it awaits
    claiming,  \* runtimes whose claim loops run, or still drain
    resolver,  \* getResultResolver()
    default,   \* getDefaultInstance()
    chosen,    \* history: the resolver and the default client the host last chose
    previous   \* per runtime: [resolver, default] to put back, NoRuntime before they are known

embVars == <<slot, stage, claiming, resolver, default, chosen, previous>>

Unknown == [resolver |-> NoRuntime, default |-> NoRuntime]

\* The registry is fresh, or another copy of the SDK in this process has filled it.
EmbInit ==
    /\ slot = NoRuntime /\ stage = [r \in Runtime |-> "none"] /\ claiming = {}
    /\ resolver \in {Vacant, Host} /\ default \in {Vacant, Host}
    /\ chosen = [resolver |-> resolver, default |-> default]
    /\ previous = [r \in Runtime |-> Unknown]

Reaches(r, s) == stage' = [stage EXCEPT ![r] = s]

\* acquireSlot throws for the second.
Create(r) ==
    /\ stage[r] = "none"
    /\ IF slot = NoRuntime THEN slot' = r /\ Reaches(r, "migrate")
                           ELSE UNCHANGED slot /\ Reaches(r, "refused")
    /\ UNCHANGED <<claiming, resolver, default, chosen, previous>>

\* Up to the await of the executor storage, then up to that of the registration:
\* the resolver is in place before a claim loop starts.
EmbMigrated(r) ==
    /\ stage[r] = "migrate" /\ Reaches(r, "storage")
    /\ UNCHANGED <<slot, claiming, resolver, default, chosen, previous>>
Install(r) ==
    /\ stage[r] = "storage" /\ Reaches(r, "register")
    /\ previous' = [previous EXCEPT ![r].resolver = resolver]
    /\ resolver' = r
    /\ UNCHANGED <<slot, claiming, default, chosen>>
Starts(r) ==
    /\ stage[r] = "register" /\ Reaches(r, "up")
    /\ claiming' = claiming \cup {r}
    /\ previous' = [previous EXCEPT ![r].default = default]
    /\ default' = IF r \in Explicit THEN default ELSE r
    /\ UNCHANGED <<slot, resolver, chosen>>

\* The host builds a client: the first one is the default, a later one when it says so.
Builds(c) == default' = IF default = Vacant THEN c ELSE default
HostChooses ==
    /\ Builds(OtherClient) \/ default' = OtherClient
    /\ chosen' = IF default' = OtherClient THEN [chosen EXCEPT !.default = OtherClient] ELSE chosen
    /\ UNCHANGED <<slot, stage, claiming, resolver, previous>>

----------------------------------------------------------------------------
\* cleanup: after a failed start, where no worker runs yet, or stop().  A step that
\* fails is collected and the next one runs.

StartFails(r) ==
    /\ stage[r] \in {"migrate", "storage", "register"} /\ Reaches(r, "notify")
    /\ UNCHANGED <<slot, claiming, resolver, default, chosen, previous>>
StopCalled(r) ==
    /\ stage[r] = "up" /\ Reaches(r, "drain")
    /\ UNCHANGED <<slot, claiming, resolver, default, chosen, previous>>
Drained(r) ==
    /\ stage[r] = "drain" /\ Reaches(r, "notify")
    /\ claiming' = claiming \ {r}
    /\ UNCHANGED <<slot, resolver, default, chosen, previous>>

\* restoreRegistry: only what is still its own, and only what it installed.
PutBackAnyway(r) == IF previous[r].default = NoRuntime THEN default ELSE previous[r].default
PutBack(r) == IF default = r THEN previous[r].default ELSE default
Unlistened(r) ==
    /\ stage[r] = "notify" /\ Reaches(r, "pool")
    /\ resolver' = IF resolver = r THEN previous[r].resolver ELSE resolver
    /\ default' = PutBack(r)
    /\ UNCHANGED <<slot, claiming, chosen, previous>>
ReleaseSlot(r) ==
    /\ stage[r] = "pool" /\ Reaches(r, "stopped")
    /\ slot' = NoRuntime
    /\ UNCHANGED <<claiming, resolver, default, chosen, previous>>

EmbNext ==
    \/ \E r \in Runtime : \/ Create(r) \/ EmbMigrated(r) \/ Install(r) \/ Starts(r)
                          \/ StartFails(r) \/ StopCalled(r) \/ Drained(r) \/ Unlistened(r) \/ ReleaseSlot(r)
    \/ HostChooses

EmbSpec == EmbInit /\ [][EmbNext]_embVars

----------------------------------------------------------------------------
\* Where a handle that no client minted reads its result, when result() is called.
Target == IF resolver = Vacant THEN default ELSE resolver

\* While a runtime may execute a task, drains included, the results of handles minted
\* inside a run are read through it; once none is left the host finds its own resolver
\* and the client it last chose, even one it chose while a runtime was up.
\* (embedded.ts "Install result resolution BEFORE claim loops start", restoreRegistry;
\* instance.ts makeRunHandle.)
HostUndisturbed ==
    /\ \A r \in claiming : Target = r
    /\ slot = NoRuntime => resolver = chosen.resolver /\ default = chosen.default
=============================================================================
