----------------------------- MODULE RunDetail -----------------------------
(***************************************************************************)
(* The dashboard's page of one run: GET /runs/:id, which reads the run and *)
(* a page of its log lines from one snapshot (kernel/src/runs-read.ts      *)
(* getRunDetail), and useRun (apps/web/src/api/hooks.ts), which polls the  *)
(* newest page until the run has ended and appends older pages on demand.  *)
(*                                                                         *)
(* Lines are numbered as they are appended; a page is a set of them, since *)
(* the view sorts them and the hook keeps one of each.                     *)
(***************************************************************************)
EXTENDS Integers, FiniteSets, FiniteSetsExt

CONSTANTS LogsLimit, MaxLines, MaxViews   \* MaxLines, MaxViews: bounds

ASSUME RunDetailAssumption ==
    LogsLimit \in Nat \ {0} /\ MaxLines \in Nat /\ MaxViews \in Nat

VARIABLES
    lines,    \* lines appended
    ended,
    view,     \* the generation of the page: another run, env or API key begins one
    poll,     \* of the armed effect: "asks", "timer", "stopped"
    asked,     \* requests that have not settled
    newest,   \* base.data
    older,    \* olderLogs, olderCursor, loadingOlderLogs
    drawn,    \* what the last render closed over
    endedHead \* whether paging began from the page of an ended run (history)

detailVars == <<lines, ended, view, poll, asked, newest, older, drawn, endedHead>>

Undef   == -1   \* no cursor yet
NoOlder == 0    \* null: there is no older page
Unread  == [logs |-> {}, next |-> Undef, ended |-> FALSE]
NoOlderLogs == [logs |-> {}, cursor |-> Undef, loading |-> FALSE]
Closure(d, o) == [head |-> d.next, ended |-> d.ended, cursor |-> o.cursor, loading |-> o.loading]

DetailInit ==
    /\ lines = 0 /\ ended = FALSE
    /\ view = 1 /\ poll = "timer" /\ asked = {}
    /\ newest = Unread /\ older = NoOlderLogs /\ drawn = Closure(Unread, NoOlderLogs)
    /\ endedHead = FALSE

----------------------------------------------------------------------------
\* The server.  readRunDetail asks for a row more than the page holds: its presence
\* says that there are older lines, and the cursor is the oldest line of the page.
Highest(S, n) == {x \in S : Cardinality({y \in S : y > x}) < n}
ProbeRow(S) == Min(Highest(S, LogsLimit + 1))
OldestKept(S) == Min(Highest(S, LogsLimit))
Detail(before) ==
    LET below == {x \in 1 .. lines : before = Undef \/ x < before}
    IN  [logs  |-> Highest(below, LogsLimit),
         next  |-> IF Cardinality(below) > LogsLimit THEN OldestKept(below) ELSE NoOlder,
         ended |-> ended]

ServerOnly == UNCHANGED <<view, poll, newest, older, drawn, endedHead>>

\* No line is appended to a run that has ended: appendLogs drops it.
AppendLine == ~ended /\ lines < MaxLines /\ lines' = lines + 1 /\ UNCHANGED <<ended, asked>> /\ ServerOnly
RunEnds == ~ended /\ ended' = TRUE /\ UNCHANGED <<lines, asked>> /\ ServerOnly

Answers(q) ==
    /\ q.answer = Unread
    /\ asked' = (asked \ {q}) \cup {[q EXCEPT !.answer = Detail(q.before)]}
    /\ UNCHANGED <<lines, ended>> /\ ServerOnly

----------------------------------------------------------------------------
\* useRun

PageOnly == UNCHANGED <<lines, ended>>
AskFor(kind, before) == [kind |-> kind, view |-> view, before |-> before, answer |-> Unread]

PollAsks ==
    /\ poll = "timer"
    /\ poll' = "asks" /\ asked' = asked \cup {AskFor("head", Undef)}
    /\ UNCHANGED <<view, newest, older, drawn, endedHead>> /\ PageOnly

\* isTerminalRun: the answer that says so is the last one.
PollReceives(q) ==
    /\ q.kind = "head" /\ q.view = view /\ q.answer # Unread
    /\ asked' = asked \ {q}
    /\ newest' = q.answer
    /\ poll' = IF q.answer.ended THEN "stopped" ELSE "timer"
    /\ UNCHANGED <<view, older, drawn, endedHead>> /\ PageOnly

Fails(q) ==
    /\ q.view = view
    /\ asked' = asked \ {q}
    /\ poll' = IF q.kind = "head" THEN "timer" ELSE poll
    /\ older' = IF q.kind = "head" THEN older ELSE [older EXCEPT !.loading = FALSE]
    /\ UNCHANGED <<view, newest, drawn, endedHead>> /\ PageOnly

Redraw ==
    /\ drawn' = Closure(newest, older)
    /\ UNCHANGED <<view, poll, asked, newest, older, endedHead>> /\ PageOnly

\* loadOlderLogs, one request at a time, from what the render closed over.
From == IF drawn.cursor = Undef THEN drawn.head ELSE drawn.cursor
LoadOlderLogs ==
    /\ ~drawn.loading /\ ~older.loading    \* the button, and pageRequest
    /\ From \notin {Undef, NoOlder}
    /\ asked' = asked \cup {AskFor("older", From)}
    /\ older' = [older EXCEPT !.loading = TRUE]
    /\ endedHead' = IF drawn.cursor = Undef THEN drawn.ended ELSE endedHead
    /\ UNCHANGED <<view, poll, newest, drawn>> /\ PageOnly

OlderReceived(q) ==
    /\ q.kind = "older" /\ q.view = view /\ q.answer # Unread
    /\ asked' = asked \ {q}
    /\ older' = [logs |-> older.logs \cup q.answer.logs, cursor |-> q.answer.next, loading |-> FALSE]
    /\ UNCHANGED <<view, poll, newest, drawn, endedHead>> /\ PageOnly

\* Another identity: what is held is dropped, what it requested is aborted, and an answer
\* that comes all the same is discarded.
OtherView ==
    /\ view < MaxViews /\ view' = view + 1
    /\ poll' = "timer"
    /\ newest' = Unread /\ older' = NoOlderLogs /\ drawn' = Closure(Unread, NoOlderLogs)
    /\ endedHead' = FALSE
    /\ UNCHANGED asked /\ PageOnly
Discarded(q) == q.view # view /\ asked' = asked \ {q} /\ PageOnly
                /\ UNCHANGED <<view, poll, newest, older, drawn, endedHead>>

DetailNext ==
    \/ AppendLine \/ RunEnds \/ PollAsks \/ Redraw \/ LoadOlderLogs \/ OtherView
    \/ \E q \in asked : \/ Answers(q) \/ PollReceives(q) \/ OlderReceived(q)
                       \/ Fails(q) \/ Discarded(q)

DetailSpec == DetailInit /\ [][DetailNext]_detailVars

----------------------------------------------------------------------------
\* data.logs and hasOlderLogs.
ShownLogs == newest.logs \cup older.logs
HasOlderLogs == IF older.cursor = Undef THEN newest.next \notin {Undef, NoOlder}
                ELSE older.cursor # NoOlder

\* A page that has stopped polling shows the run's last lines, and once it offers no
\* older ones it shows every line, if paging began when the run had ended: no click on
\* a stale render, failed page or change of identity leaves a hole.  (hooks.ts useRun:
\* "False once the server reported no older logs - all logs loaded".  Of a paging that
\* began earlier it is not true: lines that slide off the head are never loaded.)
EndedRunShowsItsLogs ==
    poll = "stopped" =>
        /\ newest.logs = Highest(1 .. lines, LogsLimit)
        /\ ~HasOlderLogs /\ (older.cursor = Undef \/ endedHead) => ShownLogs = 1 .. lines
=============================================================================
