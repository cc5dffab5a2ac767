------------------------------ MODULE LogFlush ------------------------------
(***************************************************************************)
(* The log lines of one execution: the executor's buffer and its serial    *)
(* flush chain (apps/worker/src/executor.ts), the append in chunks that    *)
(* stops at the end of the run (packages/kernel/src/runs-logs.ts), and the *)
(* transitions of the run that wait for a flush first.                     *)
(*                                                                         *)
(* Lines are numbered in the order in which they were logged.              *)
(***************************************************************************)
EXTENDS Naturals, FiniteSets, Sequences, SequencesExt

CONSTANTS
    MaxLines,       \* bound: lines logged
    FlushThreshold, \* LOG_FLUSH_THRESHOLD
    BufferMax,      \* LOG_BUFFER_MAX
    QueueMax,       \* LOG_FLUSH_QUEUE_MAX
    ChunkMax        \* LOG_INSERT_CHUNK

ASSUME LogAssumption ==
    /\ MaxLines \in Nat /\ FlushThreshold \in Nat /\ QueueMax \in Nat
    /\ ChunkMax \in Nat \ {0} /\ BufferMax \in Nat \ {0}

VARIABLES
    logged,     \* lines so far
    buffer,     \* logBuffer
    chain,      \* flush steps queued behind the running one: awaited or not
    step,       \* the running step
    chunks,     \* what it has still to insert
    stored,     \* the rows of logs, in the order of their inserts
    lost,       \* lines dropped and counted: overflow, a bad line, a failed append
    moment,     \* where the execution is
    owed,       \* the lines buffered as it began to end (history)
    finished    \* who ended the run

logVars == <<logged, buffer, chain, step, chunks, stored, lost, moment, owed, finished>>

LogInit ==
    /\ logged = 0 /\ buffer = <<>> /\ chain = <<>> /\ step = "none" /\ chunks = <<>>
    /\ stored = <<>> /\ lost = {} /\ moment = "running" /\ owed = {}
    /\ finished = "nobody"

\* flushLogs: nothing to do for an empty buffer; threshold and timer are refused
\* when the queue is full, an awaited flush never is.
RefusedAlike(awaited) == Len(chain) >= QueueMax
Refused(awaited) == ~awaited /\ Len(chain) >= QueueMax
ChainAfter(lines, awaited) ==
    IF lines = <<>> \/ Refused(awaited) THEN chain ELSE Append(chain, awaited)

\* log: past the cap the oldest lines go, back to half of it.
Line ==
    /\ logged < MaxLines
    /\ logged' = logged + 1
    /\ LET lines == Append(buffer, logged + 1)
           over  == IF Len(lines) > BufferMax THEN Len(lines) - BufferMax \div 2 ELSE 0
           kept  == SubSeq(lines, over + 1, Len(lines))
       IN  /\ buffer' = kept
           /\ lost' = lost \cup {lines[i] : i \in 1 .. over}
           /\ chain' = IF Len(kept) >= FlushThreshold THEN ChainAfter(kept, FALSE) ELSE chain
    /\ UNCHANGED <<step, chunks, stored, moment, owed, finished>>

\* startLogTimer, stopLogTimer.
Tick ==
    /\ moment # "over"
    /\ chain' = ChainAfter(buffer, FALSE)
    /\ chain' # chain
    /\ UNCHANGED <<logged, buffer, step, chunks, stored, lost, moment, owed, finished>>

\* The next step of the chain takes what is buffered by now.  Lines that can never
\* be written are dropped, the others packed into chunks.
Packed(lines) ==
    [i \in 1 .. (Len(lines) + ChunkMax - 1) \div ChunkMax |->
        SubSeq(lines, (i - 1) * ChunkMax + 1,
               IF i * ChunkMax < Len(lines) THEN i * ChunkMax ELSE Len(lines))]

StartStep ==
    /\ step = "none" /\ chain # <<>>
    /\ chain' = Tail(chain)
    /\ step' = IF Head(chain) THEN "awaited" ELSE "running"
    /\ buffer' = <<>>
    /\ \E bad \in SUBSET ToSet(buffer) :
          /\ Cardinality(bad) <= 1
          /\ lost' = lost \cup bad
          /\ chunks' = Packed(SelectSeq(buffer, LAMBDA l : l \notin bad))
    /\ UNCHANGED <<logged, stored, moment, owed, finished>>

\* One chunk: the run's row is locked, and the lines of an ended run are dropped.
InsertChunk ==
    /\ chunks # <<>>
    /\ stored' = IF finished = "nobody" THEN stored \o Head(chunks) ELSE stored
    /\ chunks' = Tail(chunks)
    /\ UNCHANGED <<logged, buffer, chain, step, lost, moment, owed, finished>>

\* A chunk fails, and what is left of the batch with it.
AfterFailure(lines) == buffer
ChunkFails ==
    /\ chunks # <<>>
    /\ lost' = lost \cup ToSet(FlattenSeq(chunks))
    /\ buffer' = AfterFailure(FlattenSeq(chunks))
    /\ chunks' = <<>>
    /\ UNCHANGED <<logged, chain, step, stored, moment, owed, finished>>

EndStep ==
    /\ step # "none" /\ chunks = <<>>
    /\ step' = "none"
    /\ moment' = IF step = "awaited" /\ moment = "flushing" THEN "ending" ELSE moment
    /\ UNCHANGED <<logged, buffer, chain, chunks, stored, lost, owed, finished>>

\* The execution suspends, completes or fails: it awaits flushLogs(true).
WrapUp ==
    /\ moment = "running"
    /\ chain' = ChainAfter(buffer, TRUE)
    /\ moment' = IF chain' = chain THEN "ending" ELSE "flushing"
    /\ owed' = ToSet(buffer)
    /\ UNCHANGED <<logged, buffer, step, chunks, stored, lost, finished>>

\* completeRun, a terminal failRun; or a transition that leaves the run open.
Transition ==
    /\ moment = "ending"
    /\ moment' = "over"
    /\ finished' \in IF finished = "nobody" THEN {"nobody", "self"} ELSE {finished}
    /\ UNCHANGED <<logged, buffer, chain, step, chunks, stored, lost, owed>>

\* cancelRun, or whoever held the run after this execution.
EndedByOthers ==
    /\ finished = "nobody"
    /\ finished' = "others"
    /\ UNCHANGED <<logged, buffer, chain, step, chunks, stored, lost, moment, owed>>

LogNext == \/ Line \/ Tick \/ StartStep \/ InsertChunk \/ ChunkFails \/ EndStep
           \/ WrapUp \/ Transition \/ EndedByOthers

LogSpec == LogInit /\ [][LogNext]_logVars

----------------------------------------------------------------------------
Settled(lines) == lines \subseteq ToSet(stored) \cup lost

\* The lines of a run are stored in the order in which they were logged, each at most
\* once, whatever fills the buffer and whichever appends fail; and when an execution
\* ends its run, every line that was in its buffer as it began to end has been stored,
\* or dropped and counted, although the queue of flushes may have been full.
\* (executor.ts flushChain: one appendLogs in flight; flushLogs(true): "awaiting it
\* therefore awaits every batch queued before it".)
LinesInOrder == \A i, j \in DOMAIN stored : i < j => stored[i] < stored[j]
BufferedLinesLand ==
    /\ []LinesInOrder
    /\ [][finished # "self" /\ finished' = "self" => Settled(owed)]_logVars
=============================================================================
