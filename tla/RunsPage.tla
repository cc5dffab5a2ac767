------------------------------ MODULE RunsPage ------------------------------
(***************************************************************************)
(* The dashboard's list of runs (apps/web/src/api/hooks.ts: useRuns over   *)
(* usePoll, useQueryGeneration and useQueryState; mergeRuns.ts;            *)
(* screens/RunsList.tsx): a head polled for ever, older pages on demand,   *)
(* and filters, credentials, the pause button and the tab changing under   *)
(* requests that may be answered late.                                     *)
(*                                                                         *)
(* Runs are numbered as they are created; the server lists the newest      *)
(* first, and the cursor of a page is its last run.  Filters are those     *)
(* a run does not leave as it moves on: the task, not the status.          *)
(***************************************************************************)
EXTENDS Naturals, Sequences, SequencesExt, FiniteSetsExt

CONSTANTS
    Filter,       \* what the list may be narrowed to
    All,          \* no narrowing: the screen begins with it
    RunsOf,       \* per filter: the runs it lets through
    PageLimit,
    MaxRuns, MaxGenerations, MaxKeyChanges, MaxPauses  \* bounds

ASSUME PageAssumption ==
    /\ PageLimit \in Nat \ {0} /\ MaxRuns \in Nat
    /\ RunsOf \in [Filter -> SUBSET (1 .. MaxRuns)]
    /\ All \in Filter /\ RunsOf[All] = 1 .. MaxRuns
    /\ MaxGenerations \in Nat /\ MaxKeyChanges \in Nat /\ MaxPauses \in Nat

VARIABLES
    runs,    \* runs created
    gen,     \* the generation on screen: its number, filter, credentials
    apiKeyVersion,
    live,    \* not paused
    hidden,  \* document.hidden
    eff,     \* the effect of usePoll: its generation, inFlight, timer
    wire,    \* requests that have not settled
    head,    \* base.data
    page,    \* tail, tailCursor, loadingMore
    rendered,\* what the last render closed over and showed
    pauses

pageVars == <<runs, gen, apiKeyVersion, live, hidden, eff, wire, head, page, rendered, pauses>>

Unset == MaxRuns + 1   \* undefined: paging has not started
End   == 0             \* null: no more pages
\* An answer, and the tail that answers build up, record what was asked: the filter
\* and the credentials of the requests, and the generation that sent them (history).
NoAsker == [no |-> 0]
Unasked == [rows |-> <<>>, next |-> Unset, asOf |-> 0, by |-> NoAsker]
NoPage  == [tail |-> <<>>, cursor |-> Unset, loading |-> FALSE, by |-> {}]
ClosureOf(h, p) == [head |-> h.next, tail |-> p.cursor, loading |-> p.loading]

PageInit ==
    /\ runs = 0 /\ apiKeyVersion = 0
    /\ gen = [no |-> 1, filter |-> All, key |-> 0]
    /\ live = TRUE /\ hidden = FALSE
    /\ eff = [gen |-> 0, inFlight |-> FALSE, timer |-> FALSE]
    /\ wire = {} /\ head = Unasked /\ page = NoPage
    /\ rendered = ClosureOf(Unasked, NoPage) /\ pauses = 0

----------------------------------------------------------------------------
\* The server: GET /runs, what the filter of the request lets through, newest first,
\* from below its cursor.
Listed(q) ==
    LET below == {r \in RunsOf[q.by.filter] : r <= runs /\ (q.cursor = Unset \/ r < q.cursor)}
        all   == SetToSortSeq(below, LAMBDA x, y : x > y)
        rows  == SubSeq(all, 1, IF Len(all) < PageLimit THEN Len(all) ELSE PageLimit)
    IN  [rows |-> rows, asOf |-> runs, by |-> q.by,
         next |-> IF Len(all) > PageLimit THEN Last(rows) ELSE End]

Created ==
    /\ runs < MaxRuns /\ runs' = runs + 1
    /\ UNCHANGED <<gen, apiKeyVersion, live, hidden, eff, wire, head, page, rendered, pauses>>

Answered(q) ==
    /\ q.answer = Unasked
    /\ wire' = (wire \ {q}) \cup {[q EXCEPT !.answer = Listed(q)]}
    /\ UNCHANGED <<runs, gen, apiKeyVersion, live, hidden, eff, head, page, rendered, pauses>>

----------------------------------------------------------------------------
\* isCurrent: a generation is known by its identity.
IsCurrent(g) == g.no = gen.no /\ g.key = apiKeyVersion

Request(kind, cursor) ==
    [kind |-> kind, by |-> gen, cursor |-> cursor, aborted |-> FALSE, answer |-> Unasked]

\* An abort ends a request, unless its answer has arrived and waits its turn.
AbortAll(qs) == {[q EXCEPT !.aborted = TRUE] : q \in {x \in qs : x.answer # Unasked}}

\* run(): the effect e asks for the head, unless it is asking already or retired.
Polled(e) ==
    IF e.inFlight \/ e.gen # gen.no \/ gen.key # apiKeyVersion
    THEN [eff |-> e, asked |-> {}]
    ELSE [eff |-> [e EXCEPT !.inFlight = TRUE], asked |-> {Request("head", Unset)}]

Rendering == eff.gen = IF live THEN gen.no ELSE 0   \* its effects are flushed first

\* Another filter, or the credentials that another component set: a new generation
\* drops what is held and aborts every request of the old one.  With a generation
\* that the filter does not identify, both would stay.
GenerationOfKey(f) ==
    /\ Rendering
    /\ gen.no < MaxGenerations
    /\ gen' = [gen EXCEPT !.filter = f]
    /\ UNCHANGED <<runs, apiKeyVersion, live, hidden, eff, wire, head, page, rendered, pauses>>
Generation(f) ==
    /\ Rendering
    /\ gen.no < MaxGenerations
    /\ gen' = [no |-> gen.no + 1, filter |-> f, key |-> apiKeyVersion]
    /\ wire' = AbortAll(wire)
    /\ head' = Unasked /\ page' = NoPage /\ rendered' = ClosureOf(Unasked, NoPage)
    /\ UNCHANGED <<runs, apiKeyVersion, live, hidden, eff, pauses>>

SetFilter == \E f \in Filter \ {gen.filter} : Generation(f)
KeyCommits == gen.key # apiKeyVersion /\ Generation(gen.filter)

SetApiKey ==
    /\ apiKeyVersion < MaxKeyChanges /\ apiKeyVersion' = apiKeyVersion + 1
    /\ UNCHANGED <<runs, gen, live, hidden, eff, wire, head, page, rendered, pauses>>

SetLive ==
    /\ Rendering
    /\ pauses < MaxPauses /\ pauses' = pauses + 1
    /\ live' = ~live
    /\ rendered' = ClosureOf(head, page)
    /\ UNCHANGED <<runs, gen, apiKeyVersion, hidden, eff, wire, head, page>>

Render ==
    /\ rendered # ClosureOf(head, page)
    /\ rendered' = ClosureOf(head, page)
    /\ UNCHANGED <<runs, gen, apiKeyVersion, live, hidden, eff, wire, head, page, pauses>>

\* The effects of a render: the old poll is torn down, the new one asks at once.
Effects ==
    /\ ~Rendering
    /\ LET idle == [gen |-> IF live THEN gen.no ELSE 0, inFlight |-> FALSE, timer |-> FALSE]
           p    == IF live THEN Polled(idle) ELSE [eff |-> idle, asked |-> {}]
           old  == {q \in wire : q.kind = "head" /\ q.by.no = eff.gen}
       IN  /\ eff' = p.eff
           /\ wire' = (wire \ old) \cup AbortAll(old) \cup p.asked
    /\ UNCHANGED <<runs, gen, apiKeyVersion, live, hidden, head, page, rendered, pauses>>

\* The timer; visibilitychange clears it, and asks when the tab is shown.
Fires ==
    /\ eff.timer
    /\ LET p == Polled([eff EXCEPT !.timer = FALSE])
       IN  eff' = p.eff /\ wire' = wire \cup p.asked
    /\ UNCHANGED <<runs, gen, apiKeyVersion, live, hidden, head, page, rendered, pauses>>

VisibilityChange ==
    /\ hidden' = ~hidden
    /\ IF eff.gen = 0 \/ hidden'
       THEN eff' = [eff EXCEPT !.timer = FALSE] /\ wire' = wire
       ELSE LET p == Polled([eff EXCEPT !.timer = FALSE])
            IN  eff' = p.eff /\ wire' = wire \cup p.asked
    /\ UNCHANGED <<runs, gen, apiKeyVersion, live, head, page, rendered, pauses>>

\* loadMore: the button as it was rendered, one request at a time, from the cursor
\* of that render.
Continuation == IF rendered.tail = Unset THEN rendered.head ELSE rendered.tail

LoadMore ==
    /\ live /\ Rendering /\ IsCurrent(gen) /\ ~rendered.loading
    /\ ~\E q \in wire : q.kind = "page" /\ ~q.aborted
    /\ Continuation \notin {Unset, End}
    /\ wire' = wire \cup {Request("page", Continuation)}
    /\ page' = [page EXCEPT !.loading = TRUE]
    /\ UNCHANGED <<runs, gen, apiKeyVersion, live, hidden, eff, head, rendered, pauses>>

----------------------------------------------------------------------------
\* A request settles.
Stale(q) == q.aborted \/ ~IsCurrent(q.by)
\* What useQueryState takes: nothing of another generation.
Taken(q) == ~Stale(q) /\ q.by.no = gen.no

MergeRunPages(h, t) == h \o SelectSeq(t, LAMBDA r : ~Contains(h, r))

\* finally: the poll of the armed effect schedules the next one on a visible page.
NextTick(q) == ~Stale(q) /\ ~hidden
Settle(q) ==
    /\ wire' = wire \ {q}
    /\ eff' = IF q.kind = "head" /\ ~q.aborted
              THEN [eff EXCEPT !.inFlight = FALSE, !.timer = NextTick(q)] ELSE eff

Received(q) ==
    /\ q.answer # Unasked
    /\ Settle(q)
    /\ head' = IF q.kind = "head" /\ Taken(q) THEN q.answer ELSE head
    /\ page' = IF q.kind = "page" /\ Taken(q)
               THEN [tail |-> MergeRunPages(page.tail, q.answer.rows), cursor |-> q.answer.next,
                     loading |-> FALSE, by |-> page.by \cup {q.answer.by}]
               ELSE page
    /\ UNCHANGED <<runs, gen, apiKeyVersion, live, hidden, rendered, pauses>>

\* Refused, broken, or timed out: what is held stays.
Failed(q) ==
    /\ ~q.aborted
    /\ Settle(q)
    /\ page' = IF q.kind = "page" /\ Taken(q) THEN [page EXCEPT !.loading = FALSE] ELSE page
    /\ UNCHANGED <<runs, gen, apiKeyVersion, live, hidden, head, rendered, pauses>>

PageNext ==
    \/ Created
    \/ SetFilter \/ KeyCommits \/ SetApiKey \/ SetLive \/ Render \/ Effects
    \/ Fires \/ VisibilityChange \/ LoadMore
    \/ \E q \in wire : Answered(q) \/ Received(q) \/ Failed(q)

PageSpec == PageInit /\ [][PageNext]_pageVars

----------------------------------------------------------------------------
Shown == MergeRunPages(head.rows, page.tail)
Descending(s) == \A i, j \in DOMAIN s : i < j => s[i] > s[j]

\* The list reads from the newest to the oldest run without a duplicate, however
\* the head moves on while older pages are loaded from cursors rendered some time
\* ago.  (hooks.ts useRuns: the tail's cursor is independent of the polled head.)
ListInOrder == Descending(Shown)

\* Whatever is shown, of the head and of every older page loaded below it, was asked
\* for by the generation on screen: with its filter, with its credentials, and not
\* before the filter last changed and changed back.  (hooks.ts useQueryGeneration and
\* useQueryState; the requests of 353 and 395.)
ShownAsAsked ==
    /\ head # Unasked => head.by = gen
    /\ page.by \subseteq {gen}

\* An answer is accepted, as head or as an older page, only while the credentials it
\* was asked with are the ones in force, though the screen may not have rendered the new
\* ones yet; and within a generation the head never goes back to an earlier answer.
\* (hooks.ts isCurrent, stale.)
OnlyFreshAnswers ==
    [][/\ head' # head /\ head' # Unasked =>
             head'.by.key = apiKeyVersion /\ (head # Unasked => head'.asOf >= head.asOf)
       /\ page'.cursor # page.cursor /\ page'.cursor # Unset =>
             \A g \in page'.by : g.key = apiKeyVersion]_pageVars

\* A list that is live on a visible page is waiting for an answer or for its
\* timer: no order of hiding, pausing and failing ends the polling.  (hooks.ts
\* usePoll.)
PollingGoesOn ==
    Rendering /\ live /\ ~hidden /\ gen.key = apiKeyVersion => eff.inFlight \/ eff.timer

\* Together: what is on screen is in order, is what it claims to be, is never from the
\* past, and kept fresh.
ListIsTrue == [](ListInOrder /\ ShownAsAsked /\ PollingGoesOn) /\ OnlyFreshAnswers
=============================================================================
