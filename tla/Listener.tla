------------------------------ MODULE Listener ------------------------------
(***************************************************************************)
(* The dedicated LISTEN connection of a daemon (apps/worker/src/notify.ts, *)
(* createNotifyListener): connect, the handlers it gives a connection that *)
(* came up, the one reconnect timer, and stop().                           *)
(*                                                                         *)
(* A connection is named by its generation.  Its 'error' and 'end' events  *)
(* come in any order and any time after the fault, alone or both; end()    *)
(* on a connection may make it emit 'end' as well.  An 'error' without a   *)
(* handler is an uncaught exception, and ends the process.                 *)
(***************************************************************************)
EXTENDS Naturals, FiniteSets

CONSTANT MaxGeneration   \* bound: calls of connect()

ASSUME ListenerAssumption == MaxGeneration \in Nat \ {0}

Generation == 1 .. MaxGeneration

VARIABLES
    generation,
    client,    \* the generation of `client`, 0 for null
    life,      \* of the process: "up", "crashing", "gone"
    stopping,
    timer,     \* reconnectScheduled: the timer runs
    attempt,   \* per generation, where its connect() is
    socket,    \* per generation: "none", "open", "broken", "closed"
    handled,   \* generations that were given their handlers
    events     \* events on their way: <<generation, "error" or "end">>

lsnVars == <<generation, client, life, stopping, timer, attempt, socket, handled, events>>

LsnInit ==
    /\ generation = 1 /\ client = 1 /\ life = "up" /\ stopping = FALSE /\ timer = FALSE
    /\ attempt = [g \in Generation |-> IF g = 1 THEN "connecting" ELSE "none"]
    /\ socket = [g \in Generation |-> "none"]
    /\ handled = {} /\ events = {}

\* By the flag alone, a late event would speak for a successor.
IsCurrent(g) == ~stopping /\ g = generation /\ client = g

\* c.end(): a connection with handlers may tell them.
End(g) ==
    /\ socket' = [socket EXCEPT ![g] = "closed"]
    /\ \/ g \in handled /\ socket[g] # "closed" /\ events' = events \cup {<<g, "end">>}
       \/ UNCHANGED events

----------------------------------------------------------------------------
\* connect, from the timer on

TimerFires ==
    /\ timer /\ generation < MaxGeneration
    /\ timer' = FALSE
    /\ generation' = generation + 1
    /\ client' = generation + 1
    /\ attempt' = [attempt EXCEPT ![generation + 1] = "connecting"]
    /\ UNCHANGED <<life, stopping, socket, handled, events>>

Connects(g) ==
    /\ attempt[g] = "connecting" /\ socket[g] = "none"
    /\ attempt' = [attempt EXCEPT ![g] = "listening"]
    /\ socket' = [socket EXCEPT ![g] = "open"]
    /\ UNCHANGED <<generation, client, life, stopping, timer, handled, events>>

\* LISTEN answered: take the role, or close if superseded.  Under stopping the
\* close belongs to stop().
Listens(g) ==
    /\ attempt[g] = "listening"
    /\ attempt' = [attempt EXCEPT ![g] = "done"]
    /\ IF IsCurrent(g)
       THEN handled' = handled \cup {g} /\ UNCHANGED <<socket, events>>
       ELSE /\ UNCHANGED handled
            /\ IF stopping THEN UNCHANGED <<socket, events>> ELSE End(g)
    /\ UNCHANGED <<generation, client, life, stopping, timer>>

\* connect() or LISTEN rejected: by the database, or because stop() closed the client.
AttemptFails(g) ==
    /\ attempt[g] \in {"connecting", "listening"}
    /\ attempt' = [attempt EXCEPT ![g] = "closing"]
    /\ UNCHANGED <<generation, client, life, stopping, timer, socket, handled, events>>

\* The connection is lost while LISTEN is awaited.  The query is rejected, but the
\* client says 'error' too and has no handler yet.
LostUnhandled(g) ==
    /\ attempt[g] = "listening" /\ socket[g] = "open"
    /\ attempt' = [attempt EXCEPT ![g] = "closing"]
    /\ socket' = [socket EXCEPT ![g] = "broken"]
    /\ life' = "crashing"
    /\ UNCHANGED <<generation, client, stopping, timer, handled, events>>

\* The exit after the uncaught exception.  Until then the process goes on.
ProcessEnds ==
    /\ life = "crashing"
    /\ life' = "gone" /\ client' = 0 /\ timer' = FALSE /\ events' = {}
    /\ attempt' = [g \in Generation |-> IF attempt[g] = "none" THEN "none" ELSE "done"]
    /\ socket' = [g \in Generation |-> IF socket[g] = "none" THEN "none" ELSE "closed"]
    /\ UNCHANGED <<generation, stopping, handled>>

\* The catch: close, let go of the client, and retry if no other attempt does.
StillTheClient(g) == client' = g
NoSuccessor(g) == g = generation
AttemptClosed(g) ==
    /\ attempt[g] = "closing"
    /\ attempt' = [attempt EXCEPT ![g] = "done"]
    /\ socket' = [socket EXCEPT ![g] = "closed"]
    /\ client' = IF client = g THEN 0 ELSE client
    /\ timer' = (timer \/ (~stopping /\ NoSuccessor(g)))
    /\ UNCHANGED <<generation, life, stopping, handled, events>>

----------------------------------------------------------------------------
\* The handlers

Breaks(g) ==
    /\ g \in handled /\ socket[g] = "open"
    /\ socket' = [socket EXCEPT ![g] = "broken"]
    /\ \E kinds \in {{"error"}, {"end"}, {"error", "end"}} :
          events' = events \cup {<<g, k>> : k \in kinds}
    /\ UNCHANGED <<generation, client, life, stopping, timer, attempt, handled>>

OnError(g) ==
    /\ <<g, "error">> \in events
    /\ socket' = IF stopping THEN socket ELSE [socket EXCEPT ![g] = "closed"]
    /\ \/ events' = events \ {<<g, "error">>}
       \/ /\ ~stopping /\ socket[g] # "closed"
          /\ events' = (events \ {<<g, "error">>}) \cup {<<g, "end">>}
    /\ timer' = (timer \/ IsCurrent(g))
    /\ UNCHANGED <<generation, client, life, stopping, attempt, handled>>

OnEnd(g) ==
    /\ <<g, "end">> \in events
    /\ events' = events \ {<<g, "end">>}
    /\ socket' = [socket EXCEPT ![g] = "closed"]
    /\ timer' = (timer \/ IsCurrent(g))
    /\ UNCHANGED <<generation, client, life, stopping, attempt, handled>>

StopListener ==
    /\ ~stopping /\ life # "gone"
    /\ stopping' = TRUE /\ timer' = FALSE /\ client' = 0
    /\ IF client = 0 THEN UNCHANGED <<socket, events>> ELSE End(client)
    /\ UNCHANGED <<generation, life, attempt, handled>>

LsnNext ==
    \/ TimerFires
    \/ \E g \in Generation : \/ Connects(g) \/ Listens(g) \/ AttemptFails(g) \/ AttemptClosed(g)
                             \/ LostUnhandled(g) \/ Breaks(g) \/ OnError(g) \/ OnEnd(g)
    \/ StopListener \/ ProcessEnds

\* The process and the database go on; nothing need fail or stop, but a crash ends (Exit).
ConnectionGoesOn(g) ==
    \/ Connects(g) \/ Listens(g) \/ (AttemptFails(g) /\ socket[g] = "closed")
    \/ AttemptClosed(g) \/ OnError(g) \/ OnEnd(g)
LsnFairness ==
    /\ WF_lsnVars(TimerFires \/ \E g \in Generation : ConnectionGoesOn(g))
    /\ WF_lsnVars(ProcessEnds)

LsnSpec == LsnInit /\ [][LsnNext]_lsnVars /\ LsnFairness

----------------------------------------------------------------------------
\* No connection that listens is orphaned: one with handlers and an open socket is
\* the client, so stop() and its own handlers reach it, and no notification is
\* delivered twice.  Whatever was still on its way when stop() came is closed too.
\* (notify.ts, the comment on generation.)
NoOrphan ==
    \A g \in Generation :
        socket[g] = "open" /\ attempt[g] = "done" => g = client /\ ~stopping

\* No connection is orphaned; and while attempts are left, a listener that is not
\* stopped gets its connection back after whatever broke it, an 'end' that never comes
\* included, unless the loss took the process with it; a stopped one has nothing open.
\* (notify.ts scheduleReconnect, the catch of connect.)
ComesBack ==
    /\ []NoOrphan
    /\ <>[](IF stopping \/ life = "gone" THEN \A g \in Generation : socket[g] \notin {"open", "broken"}
            ELSE \/ client = generation /\ socket[client] = "open"
                 \/ timer /\ generation = MaxGeneration)
=============================================================================
