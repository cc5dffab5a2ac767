------------------------------ MODULE Creation ------------------------------
(***************************************************************************)
(* How runs come to be: trigger, batch trigger and retry                   *)
(* (packages/kernel/src/runs-create.ts, runs-terminal.ts retryRun), asked  *)
(* for by callers who repeat a request whose answer they did not get.      *)
(*                                                                         *)
(* A transaction inserts its rows one after the other.  An uncommitted row *)
(* with the same key makes the next transaction wait for its end; a        *)
(* committed one makes it insert nothing.  Retention deletes ended runs,   *)
(* and with a run its key and its retry operation.                         *)
(***************************************************************************)
EXTENDS Naturals, FiniteSets, Sequences, SequencesExt

CONSTANTS
    Creator,     \* who requests; one request at a time each
    Batches,    \* the batches requested: sequences of keys, Keyless for none
    Operation,  \* operation keys of retries of the one source run
    Keyless, Nothing, Gone,
    MaxRequests \* bound: requests of all callers, repetitions included

Key  == (UNION {ToSet(b) : b \in Batches}) \ {Keyless}
Kept == Key \cup Operation   \* what a run may be found by

ASSUME CreationAssumption ==
    /\ Batches \subseteq Seq(Nat \cup {Keyless}) /\ Keyless \notin Nat
    /\ Keyless \notin Operation /\ Operation \cap Key = {}
    /\ Nothing \notin Creator /\ Gone \notin Creator \cup {Nothing}
    /\ Nothing \notin Creator \X Nat \X Nat   \* no run's name
    /\ IsFiniteSet(Creator)

VARIABLES
    index,   \* per key or operation: the committed run that has it
    pending, \* and the caller whose uncommitted row has it
    source,  \* the source run of the retries: who locks it, or Gone
    call,    \* per caller: its transaction
    tries,   \* and its requests so far
    created,    \* committed runs: queued or running, ended, deleted
    answers  \* what callers were told: a key and its run (history)

creVars == <<index, pending, source, call, tries, created, answers>>

\* A run is named by the request and the item that created it.
RunOf(c, i) == <<c, tries[c], i>>

\* got: per item inserted so far, whether it is new.
Idle == [at |-> "idle", items |-> <<>>, got |-> {}, new |-> {}]

CreInit ==
    /\ index = [k \in Kept |-> Nothing]
    /\ pending = [k \in Kept |-> Nothing]
    /\ source = Nothing
    /\ call = [c \in Creator |-> Idle]
    /\ tries = [c \in Creator |-> 0]
    /\ created = [live |-> {}, ended |-> {}, gone |-> {}]
    /\ answers = {}

Become(c, fields) == call' = [call EXCEPT ![c] = fields]
Items(c) == DOMAIN call[c].items
KeyOf(c, i) == call[c].items[i]

\* A request that passes validation; one that does not changes nothing.
Requested == FoldFunction(+, 0, tries)
Ask(c, at, items) ==
    /\ call[c].at = "idle" /\ Requested < MaxRequests
    /\ tries' = [tries EXCEPT ![c] = @ + 1]
    /\ Become(c, [Idle EXCEPT !.at = at, !.items = items])
    /\ UNCHANGED <<index, pending, source, created, answers>>

\* POST /trigger and /batch-trigger: validation, then the preload of the tasks.
BeginTrigger(c) == \E b \in Batches : Ask(c, "insert", b)

\* POST /runs/:id/retry: without the Idempotency-Key header (Nothing), or with a blank
\* one (Keyless), every delivery is a retry of its own; an over-long one is refused.
OperationKey(header) == IF header \in Operation THEN header ELSE Keyless
BeginRetry(c) ==
    /\ source # Gone
    /\ \E header \in Operation \cup {Nothing, Keyless} : Ask(c, "lock", <<OperationKey(header)>>)

----------------------------------------------------------------------------
\* trigger, batchTrigger, createRunsInBatch (createRunIn is a batch of one)

\* INSERT ... ON CONFLICT DO NOTHING takes the rows in the order of the batch.
OrderOfItsOwn(c) == {i \in Items(c) \ call[c].got :
                        \A j \in Items(c) \ call[c].got : IF tries[c] % 2 = 0 THEN j <= i ELSE j >= i}
NextRow(c) == {i \in Items(c) \ call[c].got : \A j \in 1 .. (i - 1) : j \in call[c].got}

WaitsFor(c) ==
    IF call[c].at # "insert" THEN {}
    ELSE {pending[KeyOf(c, i)] : i \in {j \in NextRow(c) : KeyOf(c, j) # Keyless}} \ {c, Nothing}

UncommittedIgnored(c, k) == pending[k] # c
Absent(c, k) == index[k] = Nothing /\ pending[k] = Nothing

InsertRow(c) ==
    /\ call[c].at = "insert" /\ WaitsFor(c) = {}
    /\ \E i \in NextRow(c) :
          LET k == KeyOf(c, i)
              new == IF k = Keyless THEN TRUE ELSE Absent(c, k)
          IN  /\ Become(c, [call[c] EXCEPT !.got = @ \cup {i}, !.new = IF new THEN @ \cup {i} ELSE @])
              /\ pending' = IF new /\ k # Keyless THEN [pending EXCEPT ![k] = c] ELSE pending
    /\ UNCHANGED <<index, source, tries, created, answers>>

\* Each item's run: the new one, the committed one, or one of the same batch.
RunFor(c, i) ==
    IF i \in call[c].new THEN RunOf(c, i)
    ELSE IF pending[KeyOf(c, i)] = c
         THEN RunOf(c, CHOOSE j \in call[c].new : KeyOf(c, j) = KeyOf(c, i))
         ELSE index[KeyOf(c, i)]

\* The readback of the conflicts, by another statement: a run that retention took
\* since is not found, and the transaction fails.
ReadBack(c) ==
    /\ call[c].at = "insert" /\ call[c].got = Items(c)
    /\ \A i \in Items(c) : RunFor(c, i) # Nothing
    /\ Become(c, [call[c] EXCEPT !.at = "ready",
                                 !.items = [i \in Items(c) |-> <<KeyOf(c, i), RunFor(c, i)>>]])
    /\ UNCHANGED <<index, pending, source, tries, created, answers>>

----------------------------------------------------------------------------
\* retryRun

SourceFree(c) == source = Nothing

RetryLock(c) ==
    /\ call[c].at = "lock" /\ SourceFree(c)
    /\ source' = c
    /\ Become(c, [call[c] EXCEPT !.at = "decide"])
    /\ UNCHANGED <<index, pending, tries, created, answers>>

\* A recorded operation answers with its run.
RetryDecide(c) ==
    LET op == KeyOf(c, 1)
        recorded == IF op = Keyless THEN Nothing ELSE index[op]
    IN
    /\ call[c].at = "decide"
    /\ Become(c, IF recorded = Nothing THEN [call[c] EXCEPT !.at = "record", !.new = {1}]
                 ELSE [call[c] EXCEPT !.at = "ready", !.items = <<<<op, recorded>>>>])
    /\ UNCHANGED <<index, pending, source, tries, created, answers>>

\* The run is there; its operation is recorded after it.
RetryRecord(c) ==
    LET op == KeyOf(c, 1) IN
    /\ call[c].at = "record"
    /\ pending' = IF op = Keyless THEN pending ELSE [pending EXCEPT ![op] = c]
    /\ Become(c, [call[c] EXCEPT !.at = "ready", !.items = <<<<op, RunOf(c, 1)>>>>])
    /\ UNCHANGED <<index, source, tries, created, answers>>

----------------------------------------------------------------------------
Uncontended(c) == source' = IF source = c THEN Nothing ELSE source
NotPending(c) == pending' = [k \in Kept |-> IF pending[k] = c THEN Nothing ELSE pending[k]]

\* New runs and their queue rows; the answer arrives or is lost.
CommitCall(c) ==
    LET pairs == ToSet(call[c].items) IN
    /\ call[c].at = "ready"
    /\ index' = [k \in Kept |-> IF pending[k] = c
                                THEN (CHOOSE p \in pairs : p[1] = k)[2] ELSE index[k]]
    /\ created' = [created EXCEPT !.live = @ \cup {RunOf(c, i) : i \in call[c].new}]
    /\ NotPending(c) /\ Uncontended(c)
    /\ answers' \in {answers, answers \cup {p \in pairs : p[1] # Keyless}}
    /\ Become(c, Idle)
    /\ UNCHANGED tries

\* A statement fails, a wait is broken off, a circle of waits costs one its
\* transaction, the readback finds nothing, the source run is gone: withTx rolls
\* back and does not repeat.
RollBack(c) ==
    /\ call[c].at # "idle"
    /\ NotPending(c) /\ Uncontended(c)
    /\ Become(c, Idle)
    /\ UNCHANGED <<index, tries, created, answers>>

----------------------------------------------------------------------------
\* Runs end; retention deletes them, and the source run.
EndRun ==
    /\ \E r \in created.live : created' = [created EXCEPT !.live = @ \ {r}, !.ended = @ \cup {r}]
    /\ UNCHANGED <<index, pending, source, call, tries, answers>>

PruneRun ==
    /\ \E r \in created.ended :
          /\ created' = [created EXCEPT !.ended = @ \ {r}, !.gone = @ \cup {r}]
          /\ index' = [k \in Kept |-> IF index[k] = r THEN Nothing ELSE index[k]]
    /\ UNCHANGED <<pending, source, call, tries, answers>>

PruneSource ==
    /\ source = Nothing
    /\ source' = Gone
    /\ index' = [k \in Kept |-> IF k \in Operation THEN Nothing ELSE index[k]]
    /\ UNCHANGED <<pending, call, tries, created, answers>>

CreNext ==
    \/ \E c \in Creator :
          \/ BeginTrigger(c) \/ BeginRetry(c) \/ InsertRow(c) \/ ReadBack(c)
          \/ RetryLock(c) \/ RetryDecide(c) \/ RetryRecord(c)
          \/ CommitCall(c) \/ RollBack(c)
    \/ EndRun \/ PruneRun \/ PruneSource

CreSpec == CreInit /\ [][CreNext]_creVars

----------------------------------------------------------------------------
\* Whoever asks for a run under one idempotency key, or repeats a retry under one
\* operation key, is told the same run, until retention deletes it: the answer
\* of a request may be lost and its repetition meet the first one half done.  Two
\* retries under one operation key do not even meet at the record of the operation.
\* (runs-create.ts: the partial unique index; runs-terminal.ts: the operation, whose
\* index "is therefore defense-in-depth, NOT the main race path".)
OperationUncontested ==
    \A c \in Creator :
        call[c].at = "record" /\ KeyOf(c, 1) # Keyless =>
            index[KeyOf(c, 1)] = Nothing /\ pending[KeyOf(c, 1)] = Nothing
SameKeySameRun ==
    /\ \A a, b \in answers :
          a[1] = b[1] /\ a[2] # b[2] => {a[2], b[2]} \cap created.gone # {}
    /\ OperationUncontested

\* Requests that wait for each other in a circle are batches, and one of them has
\* its keys out of order: callers who sort their keys never deadlock.
\* (runs-create.ts createRunsInBatch inserts in the caller's order.)
InOrder(c) == \A i, j \in Items(c) :
                  i < j /\ Keyless \notin {KeyOf(c, i), KeyOf(c, j)} => KeyOf(c, i) <= KeyOf(c, j)
OnlyUnsortedBatchesDeadlock ==
    \A S \in (SUBSET Creator) \ {{}} :
        (\A c \in S : WaitsFor(c) \cap S # {}) => \E c \in S : ~InOrder(c)
=============================================================================
