-------------------------- MODULE TransactionProofs --------------------------
(***************************************************************************)
(* Theorems about the kernel's transactions, one section for each module.  *)
(* RowLocks: for any runs, any number of open transactions and any of the  *)
(* operations, why a kernel transaction may be read as one step, and who   *)
(* may wait for whom.  Creation: for any callers, batches and operation    *)
(* keys, one key names one run, and only batches out of order deadlock.    *)
(***************************************************************************)
EXTENDS RowLocks, Creation, FiniteSetTheorems, WellFoundedInduction, TLAPS

----------------------------------------------------------------------------
\* RowLocks: what is locked, and what rests on it.

Maybe == Status \cup {"keep"}
TxRec == [op : AllOps \cup {"none"}, on : Run \cup {NoRun}, at : Point,
          found : BOOLEAN, todo : SUBSET Run, seen : [Run -> Maybe], put : [Run -> Maybe]]

\* The tables of TypeOK without the two clauses that relate them.
Shapes ==
    /\ status \in [Run -> Status]
    /\ onChild \subseteq Run
    /\ qlock \in [Run -> Tx \cup {Nobody}]
    /\ rlock \in [Run -> Tx \cup {Nobody}]
    /\ tx \in [Tx -> TxRec]

\* An open transaction has an operation and a run; an operation on one run has
\* no other to visit.
Started(m) ==
    /\ m.op = "none" <=> m.at = "none"
    /\ m.op = "none" => m = NoTx
    /\ m.op # "none" => m.on \in Run
    /\ m.op \in Blocking \cup {"log"} => m.todo = {}
    /\ m.at = "claims" => m.op = "release"
    /\ m.at = "queue" => m.op \in Blocking

\* What a transaction has decided about a run is covered by that run's row, and
\* by its queue row unless there is none to hold, or it is about to be taken.
Covered(t) ==
    \A r \in Run : tx[t].put[r] # "keep" =>
        /\ rlock[r] = t
        /\ tx[t].seen[r] = status[r]
        /\ status[r] # "ended"
        /\ \/ qlock[r] = t
           \/ status[r] = "waiting"
           \/ tx[t].at = "dequeue" /\ tx[t].on = r

\* The queue rows that the decision of the next statement rests on.
Prepared(t) ==
    /\ tx[t].op \in Fenced /\ tx[t].at = "run" /\ tx[t].found => qlock[tx[t].on] = t
    /\ tx[t].op \in Scans \/ (tx[t].op = "release" /\ tx[t].at # "claims") =>
          /\ tx[t].at = "run" => qlock[tx[t].on] = t
          /\ \A r \in tx[t].todo : qlock[r] = t

\* A lock belongs to an open transaction, and a locked queue row exists.
Held ==
    \A r \in Run : /\ qlock[r] # Nobody => tx[qlock[r]].op # "none" /\ HasRow(r)
                   /\ rlock[r] # Nobody => tx[rlock[r]].op # "none"

LockInv ==
    /\ Shapes
    /\ Held
    /\ \A t \in Tx : Started(tx[t]) /\ Covered(t) /\ Prepared(t)

LEMMA InitLocks == Init => LockInv
  BY LockAssumption
  DEF Init, LockInv, Shapes, Held, Started, Covered, Prepared, NoTx, TxRec, Maybe, Status, Point,
      AllOps, Blocking, Fenced, Scans, HasRow

LEMMA LockInvType == LockInv => TypeOK
<1> SUFFICES ASSUME LockInv PROVE TypeOK
  OBVIOUS
<1>1. \A r \in Run : \A t \in {qlock[r], rlock[r]} \ {Nobody} : tx[t] # NoTx
  BY DEF LockInv, Held, NoTx
<1>2. \A r \in Run : qlock[r] # Nobody => HasRow(r)
  BY DEF LockInv, Held
<1> QED BY <1>1, <1>2 DEF LockInv, Shapes, TypeOK, TxRec, Maybe

LEMMA LockInvDecisions == LockInv => DecisionsHold
  BY DEF LockInv, Covered, DecisionsHold

----------------------------------------------------------------------------
\* What a step of one transaction does to the others: nothing, when it takes no
\* lock that is held and changes only runs whose row it holds.
LEMMA OthersKeep ==
    ASSUME LockInv, NEW t \in Tx, NEW u \in Tx, u # t, tx'[u] = tx[u],
           \A r \in Run : qlock[r] = u => qlock'[r] = u,
           \A r \in Run : rlock[r] = u => rlock'[r] = u,
           \A r \in Run : rlock[r] # t => status'[r] = status[r]
    PROVE  Started(tx'[u]) /\ Covered(u)' /\ Prepared(u)'
<1>1. tx[u] \in TxRec /\ Started(tx[u])
  BY DEF LockInv, Shapes
<1>2. Covered(u)'
  BY DEF LockInv, Covered
<1>3. Prepared(u)'
  <2>1. tx[u].op # "none" => tx[u].on \in Run
    BY <1>1 DEF Started
  <2>2. tx[u].todo \subseteq Run
    BY <1>1 DEF TxRec
  <2> QED BY <2>1, <2>2 DEF LockInv, Prepared, Fenced, Scans
<1> QED BY <1>1, <1>2, <1>3

\* One statement of transaction t: it takes at most free locks, keeps its
\* operation, and commits nothing.
LEMMA StatementKeeps ==
    ASSUME LockInv, NEW t \in Tx, NEW m \in TxRec, tx' = [tx EXCEPT ![t] = m],
           m.op # "none", UNCHANGED <<status, onChild>>,
           qlock' \in [Run -> Tx \cup {Nobody}], rlock' \in [Run -> Tx \cup {Nobody}],
           \A r \in Run : qlock'[r] = qlock[r] \/ (qlock[r] \in {Nobody, t} /\ qlock'[r] = t /\ HasRow(r)),
           \A r \in Run : rlock'[r] = rlock[r] \/ (rlock[r] \in {Nobody, t} /\ rlock'[r] = t),
           Started(m), Covered(t)', Prepared(t)'
    PROVE  LockInv'
<1> USE LockAssumption
<1>1. Shapes'
  BY DEF LockInv, Shapes
<1>2. tx'[t] = m /\ \A u \in Tx : u # t => tx'[u] = tx[u]
  BY DEF LockInv, Shapes
<1>3. Held'
  BY <1>2 DEF LockInv, Shapes, Held, HasRow
<1>4. ASSUME NEW u \in Tx, u # t PROVE Started(tx'[u]) /\ Covered(u)' /\ Prepared(u)'
  BY <1>2, <1>4, OthersKeep
<1> QED BY <1>1, <1>2, <1>3, <1>4 DEF LockInv

\* COMMIT and ROLLBACK: the transaction's locks go, and nobody else's.
LEMMA CloseKeeps ==
    ASSUME LockInv, NEW t \in Tx, Close(t), onChild' \subseteq Run, status' \in [Run -> Status],
           \A r \in Run : tx[t].put[r] = "keep" => status'[r] = status[r],
           tx[t].at # "dequeue" \/ status' = status
    PROVE  LockInv'
<1> USE LockAssumption
<1>1. NoTx \in TxRec /\ Started(NoTx) /\ NoTx.op = "none" /\ \A r \in Run : NoTx.put[r] = "keep"
  BY DEF NoTx, TxRec, Started, Maybe, Point, AllOps, Blocking, Fenced, Scans
<1>2. tx'[t] = NoTx /\ \A u \in Tx : u # t => tx'[u] = tx[u]
  BY DEF Close, LockInv, Shapes
<1>3. \A r \in Run : /\ qlock'[r] = (IF qlock[r] = t THEN Nobody ELSE qlock[r])
                     /\ rlock'[r] = (IF rlock[r] = t THEN Nobody ELSE rlock[r])
  BY DEF Close, Unlocked
<1>4. Shapes'
  BY <1>1 DEF Close, Unlocked, LockInv, Shapes
<1>5. \A r \in Run : rlock[r] # t => status'[r] = status[r]
  BY DEF LockInv, Covered
<1>6. \A r \in Run : qlock[r] \notin {Nobody, t} => status'[r] = status[r]
  <2>1. \A r \in Run : qlock[r] # Nobody => status[r] # "waiting"
    BY DEF LockInv, Held, HasRow
  <2> QED BY <2>1 DEF LockInv, Covered
<1>7. Held'
  BY <1>2, <1>3, <1>6 DEF LockInv, Shapes, Held, HasRow
<1>8. ASSUME NEW u \in Tx, u # t PROVE Started(tx'[u]) /\ Covered(u)' /\ Prepared(u)'
  BY <1>2, <1>3, <1>5, <1>8, OthersKeep
<1>9. Covered(t)' /\ Prepared(t)'
  BY <1>1, <1>2 DEF Covered, Prepared, NoTx, Fenced, Scans
<1> QED BY <1>1, <1>2, <1>4, <1>7, <1>8, <1>9 DEF LockInv

\* Onward goes to a run still to visit, or to the commit.
LEMMA OnwardIs ==
    ASSUME NEW m \in TxRec
    PROVE  /\ Onward(m) \in TxRec
           /\ Onward(m).op = m.op /\ Onward(m).found = m.found
           /\ Onward(m).put = m.put /\ Onward(m).seen = m.seen
           /\ Onward(m).todo \subseteq m.todo
           /\ \/ m.todo = {} /\ Onward(m).at = "commit" /\ Onward(m).on = m.on
              \/ m.todo # {} /\ Onward(m).at = "run" /\ Onward(m).on \in m.todo
<1>1. CASE m.todo = {}
  BY <1>1 DEF Onward, TxRec, Point
<1>2. CASE m.todo # {}
  <2> DEFINE r == CHOOSE r \in m.todo : TRUE
  <2>1. r \in m.todo /\ r \in Run
    BY <1>2 DEF TxRec
  <2>2. Onward(m) = [m EXCEPT !.on = r, !.at = "run", !.todo = @ \ {r}]
    BY <1>2 DEF Onward
  <2> HIDE DEF r
  <2>3. Onward(m) \in TxRec
    BY <2>1, <2>2 DEF TxRec, Point
  <2>4. /\ Onward(m).op = m.op /\ Onward(m).found = m.found
        /\ Onward(m).put = m.put /\ Onward(m).seen = m.seen
        /\ Onward(m).todo = m.todo \ {r} /\ Onward(m).at = "run" /\ Onward(m).on = r
    BY <2>2 DEF TxRec
  <2> QED BY <1>2, <2>1, <2>3, <2>4
<1> QED BY <1>1, <1>2

LEMMA OnwardKeeps ==
    ASSUME LockInv, NEW t \in Tx, NEW m \in TxRec, tx' = [tx EXCEPT ![t] = Onward(m)],
           m.op # "none", m.on \in Run, m.op \in Blocking \cup {"log"} => m.todo = {},
           UNCHANGED <<status, onChild>>,
           qlock' \in [Run -> Tx \cup {Nobody}], rlock' \in [Run -> Tx \cup {Nobody}],
           \A r \in Run : qlock'[r] = qlock[r] \/ (qlock[r] \in {Nobody, t} /\ qlock'[r] = t /\ HasRow(r)),
           \A r \in Run : rlock'[r] = rlock[r] \/ (rlock[r] \in {Nobody, t} /\ rlock'[r] = t),
           \A r \in Run : m.put[r] # "keep" =>
              /\ rlock'[r] = t /\ m.seen[r] = status[r] /\ status[r] # "ended"
              /\ qlock'[r] = t \/ status[r] = "waiting",
           \A r \in m.todo : qlock'[r] = t
    PROVE  LockInv'
<1> DEFINE n == Onward(m)
<1> HIDE DEF n
<1>1. /\ n \in TxRec /\ n.op = m.op /\ n.put = m.put /\ n.seen = m.seen
      /\ n.todo \subseteq m.todo
      /\ \/ m.todo = {} /\ n.at = "commit" /\ n.on = m.on
         \/ m.todo # {} /\ n.at = "run" /\ n.on \in m.todo
  BY OnwardIs DEF n
<1>2. tx' = [tx EXCEPT ![t] = n] /\ tx'[t] = n
  BY DEF n, LockInv, Shapes
<1>3. m.todo \subseteq Run
  BY DEF TxRec
<1>4. Started(n)
  BY <1>1, <1>3 DEF Started
<1>5. Covered(t)'
  BY <1>1, <1>2 DEF Covered
<1>6. Prepared(t)'
  BY <1>1, <1>2 DEF Prepared, Fenced, Scans, Blocking
<1> QED BY <1>1, <1>2, <1>4, <1>5, <1>6, StatementKeeps

----------------------------------------------------------------------------
\* The statements

\* What is known of a transaction before its next statement.
LEMMA Standing ==
    ASSUME LockInv, NEW t \in Tx, tx[t].at # "none"
    PROVE  /\ tx[t] \in TxRec /\ tx[t].op # "none" /\ tx[t].on \in Run
           /\ Started(tx[t]) /\ Covered(t) /\ Prepared(t)
  BY DEF LockInv, Shapes, Started

\* The queue rows of the runs still to visit are held.
LEMMA VisitsHeld ==
    ASSUME LockInv, NEW t \in Tx, tx[t].at \notin {"none", "claims"}
    PROVE  \A r \in tx[t].todo : r \in Run /\ qlock[r] = t
<1>1. tx[t] \in TxRec /\ Started(tx[t]) /\ Prepared(t) /\ tx[t].op # "none"
  BY Standing
<1>2. tx[t].todo \subseteq Run /\ tx[t].op \in Blocking \cup {"log"} \cup Scans \cup {"release"}
  BY <1>1 DEF TxRec, AllOps
<1>3. CASE tx[t].op \in Blocking \cup {"log"}
  BY <1>1, <1>3 DEF Started
<1>4. CASE tx[t].op \in Scans \cup {"release"}
  BY <1>1, <1>2, <1>4 DEF Prepared
<1> QED BY <1>2, <1>3, <1>4

LEMMA BeginKeeps ==
    ASSUME LockInv, NEW t \in Tx, NEW op \in AllOps, NEW r \in Run, NEW todo \in SUBSET Run,
           NEW at \in {"queue", "run", "claims"}, Open(t, op, r, at, todo),
           op \in Blocking \cup {"log"} => todo = {}, at = "claims" <=> op = "release",
           op \in Fenced => at = "queue", at = "queue" => op \in Blocking,
           tx[t] = NoTx, UNCHANGED <<status, onChild, rlock>>,
           qlock' \in [Run -> Tx \cup {Nobody}],
           \A x \in Run : qlock'[x] = qlock[x] \/ (qlock[x] = Nobody /\ qlock'[x] = t /\ HasRow(x)),
           op \in Scans => \A x \in todo \cup {r} : qlock'[x] = t
    PROVE  LockInv'
<1> DEFINE m == [NoTx EXCEPT !.op = op, !.on = r, !.at = at, !.todo = todo]
<1>1. tx' = [tx EXCEPT ![t] = m] /\ tx'[t] = m
  BY DEF Open, LockInv, Shapes
<1>2. /\ m \in TxRec /\ m.op = op /\ m.on = r /\ m.at = at /\ m.todo = todo /\ op # "none"
      /\ \A x \in Run : m.put[x] = "keep"
  BY DEF NoTx, TxRec, Maybe, Point, AllOps, Blocking, Fenced, Scans
<1> HIDE DEF m
<1>3. Started(m)
  BY <1>2 DEF Started
<1>4. Covered(t)' /\ Prepared(t)'
  BY <1>1, <1>2 DEF Covered, Prepared, Fenced, Scans
<1>5. rlock' \in [Run -> Tx \cup {Nobody}]
  BY DEF LockInv, Shapes
<1> QED BY <1>1, <1>2, <1>3, <1>4, <1>5, StatementKeeps

LEMMA ScanKeeps ==
    ASSUME LockInv, NEW t \in Tx, NEW op \in Ops, Scan(t, op)
    PROVE  LockInv'
<1>1. PICK rs \in SUBSET Candidates(op), r \in Run :
         /\ r \in rs
         /\ qlock' = [x \in Run |-> IF x \in rs THEN t ELSE qlock[x]]
         /\ Open(t, op, r, "run", rs \ {r})
  BY DEF Scan, ScanLocks, Candidates
<1>2. /\ op \in Scans /\ op \in AllOps /\ op \notin Blocking \cup {"log", "release"}
      /\ tx[t] = NoTx
      /\ UNCHANGED <<status, onChild, rlock>>
  BY LockAssumption DEF Scan, Scans, AllOps, Blocking, Fenced
<1>3. rs \ {r} \in SUBSET Run
  BY DEF Candidates
<1>4. \A x \in rs : x \in Run /\ qlock[x] = Nobody /\ HasRow(x)
  BY DEF Candidates, HasRow
<1>5. /\ qlock' \in [Run -> Tx \cup {Nobody}]
      /\ \A x \in Run : qlock'[x] = qlock[x] \/ (qlock[x] = Nobody /\ qlock'[x] = t /\ HasRow(x))
      /\ \A x \in (rs \ {r}) \cup {r} : qlock'[x] = t
  BY <1>1, <1>4 DEF LockInv, Shapes
<1>6. op \notin Fenced
  BY <1>2 DEF Blocking
<1> QED BY <1>1, <1>2, <1>3, <1>5, <1>6, BeginKeeps

LEMMA LockClaimsKeeps ==
    ASSUME LockInv, NEW t \in Tx, LockClaims(t)
    PROVE  LockInv'
<1> DEFINE me == tx[t]
<1> DEFINE mine == IF status[me.on] = "running" THEN Locked(qlock, t, me.on) ELSE qlock
<1> DEFINE held == {r \in Run : mine[r] = t}
<1> USE LockAssumption
<1>1. /\ me \in TxRec /\ me.at = "claims" /\ me.op = "release" /\ me.on \in Run
      /\ Covered(t) /\ Started(me)
  BY Standing DEF LockClaims, Started
<1>2. status[me.on] = "running" => HasRow(me.on) /\ qlock[me.on] \in {Nobody, t}
  BY <1>1 DEF LockClaims, Blocked, Blocker, Queued, HasRow
<1>3. qlock' = mine /\ UNCHANGED <<status, onChild, rlock>>
  BY DEF LockClaims
<1>4. /\ mine \in [Run -> Tx \cup {Nobody}]
      /\ \A r \in Run : mine[r] = qlock[r] \/ (qlock[r] \in {Nobody, t} /\ mine[r] = t /\ HasRow(r))
  BY <1>1, <1>2 DEF Locked, LockInv, Shapes
<1>5. /\ qlock' \in [Run -> Tx \cup {Nobody}]
      /\ rlock' \in [Run -> Tx \cup {Nobody}]
      /\ \A r \in Run : qlock'[r] = qlock[r] \/ (qlock[r] \in {Nobody, t} /\ qlock'[r] = t /\ HasRow(r))
      /\ \A r \in Run : rlock'[r] = rlock[r]
  BY <1>3, <1>4 DEF LockInv, Shapes
<1> HIDE DEF mine
<1>6. CASE me.todo # {}
  <2> DEFINE r == CHOOSE r \in me.todo : TRUE
  <2> DEFINE m == [me EXCEPT !.on = r, !.todo = @ \ {r}]
  <2>1. tx' = [tx EXCEPT ![t] = m] /\ tx'[t] = m
    BY <1>6 DEF LockClaims, LockInv, Shapes
  <2>2. /\ m \in TxRec /\ m.op = "release" /\ m.at = "claims" /\ m.on \in Run
        /\ m.put = me.put /\ m.seen = me.seen
    BY <1>1, <1>6 DEF TxRec
  <2> HIDE DEF m
  <2>3. Started(m) /\ Covered(t)' /\ Prepared(t)'
    BY <1>1, <1>3, <1>4, <2>1, <2>2 DEF Started, Covered, Prepared, Fenced, Scans, Blocking
  <2> QED BY <1>3, <1>5, <2>1, <2>2, <2>3, StatementKeeps
<1>7. CASE me.todo = {}
  <2> DEFINE m == [me EXCEPT !.todo = held]
  <2>1. tx' = [tx EXCEPT ![t] = Onward(m)]
    BY <1>7 DEF LockClaims, mine
  <2>2. /\ m \in TxRec /\ m.op = "release" /\ m.on \in Run
        /\ m.put = me.put /\ m.seen = me.seen /\ m.todo = held
    BY <1>1 DEF TxRec
  <2> HIDE DEF m
  <2>3. \A r \in Run : m.put[r] # "keep" =>
          /\ rlock'[r] = t /\ m.seen[r] = status[r] /\ status[r] # "ended"
          /\ qlock'[r] = t \/ status[r] = "waiting"
    BY <1>1, <1>3, <1>4, <2>2 DEF Covered
  <2>4. \A r \in m.todo : qlock'[r] = t
    BY <1>3, <2>2
  <2>5. m.op \notin Blocking \cup {"log"}
    BY <2>2 DEF Blocking, Fenced
  <2>6. m.op # "none" /\ (m.op \in Blocking \cup {"log"} => m.todo = {})
    BY <2>2, <2>5
  <2> HIDE DEF held
  <2> QED BY <1>3, <1>5, <2>1, <2>2, <2>3, <2>4, <2>6, OnwardKeeps
<1> QED BY <1>6, <1>7

LEMMA LockQueueKeeps ==
    ASSUME LockInv, NEW t \in Tx, LockQueue(t)
    PROVE  LockInv'
<1> DEFINE me == tx[t]
<1> DEFINE has == HasRow(me.on)
<1> DEFINE m == [me EXCEPT !.found = has, !.at = "run"]
<1>1. /\ me \in TxRec /\ me.at = "queue" /\ me.op # "none" /\ me.on \in Run
      /\ Covered(t) /\ Started(me) /\ Prepared(t)
  BY Standing DEF LockQueue
<1>2. /\ qlock' = (IF HasRow(me.on) THEN Locked(qlock, t, me.on) ELSE qlock)
      /\ UNCHANGED <<status, onChild, rlock>>
      /\ HasRow(me.on) => qlock[me.on] \in {Nobody, t}
  BY <1>1 DEF LockQueue, Blocked, Blocker, Queued
<1>3. /\ qlock' \in [Run -> Tx \cup {Nobody}]
      /\ rlock' \in [Run -> Tx \cup {Nobody}]
      /\ \A r \in Run : qlock'[r] = qlock[r] \/ (qlock[r] \in {Nobody, t} /\ qlock'[r] = t /\ HasRow(r))
      /\ \A r \in Run : rlock'[r] = rlock[r]
      /\ HasRow(me.on) => qlock'[me.on] = t
  BY <1>1, <1>2 DEF Locked, LockInv, Shapes
<1>4. tx' = [tx EXCEPT ![t] = m] /\ tx'[t] = m
  BY DEF LockQueue, LockInv, Shapes
<1>5. /\ m \in TxRec /\ m.op = me.op /\ m.at = "run" /\ m.on = me.on /\ m.found = has
      /\ m.put = me.put /\ m.seen = me.seen /\ m.todo = me.todo
  <2>1. has \in BOOLEAN
    BY DEF HasRow
  <2> HIDE DEF has
  <2> QED BY <1>1, <2>1 DEF TxRec, Point
<1> HIDE DEF m
<1>6. Started(m)
  BY <1>1, <1>5 DEF Started
<1>7. Covered(t)'
  BY <1>1, <1>2, <1>3, <1>4, <1>5 DEF Covered
<1>8. me.op \notin Scans \cup {"release"}
  BY <1>1 DEF Started, Blocking, Fenced, Scans
<1>9. Prepared(t)'
  BY <1>3, <1>4, <1>5, <1>8 DEF Prepared
<1> QED BY <1>1, <1>2, <1>3, <1>4, <1>5, <1>6, <1>7, <1>9, StatementKeeps

LEMMA SkipRunKeeps ==
    ASSUME LockInv, NEW t \in Tx, SkipRun(t)
    PROVE  LockInv'
<1> DEFINE me == tx[t]
<1> DEFINE m == [me EXCEPT !.at = "commit"]
<1>1. /\ me \in TxRec /\ me.at = "run" /\ me.op = "resume" /\ me.on \in Run
      /\ Covered(t) /\ Started(me) /\ Prepared(t)
  BY Standing DEF SkipRun
<1>2. tx' = [tx EXCEPT ![t] = m] /\ tx'[t] = m /\ UNCHANGED <<status, onChild, qlock, rlock>>
  BY DEF SkipRun, LockInv, Shapes
<1>3. /\ m \in TxRec /\ m.op = "resume" /\ m.at = "commit" /\ m.on = me.on
      /\ m.put = me.put /\ m.seen = me.seen /\ m.todo = me.todo
  BY <1>1 DEF TxRec, Point
<1> HIDE DEF m
<1>4. Started(m)
  BY <1>1, <1>3 DEF Started
<1>5. Covered(t)' /\ Prepared(t)'
  BY <1>1, <1>2, <1>3 DEF Covered, Prepared, Fenced, Scans
<1>6. qlock' \in [Run -> Tx \cup {Nobody}] /\ rlock' \in [Run -> Tx \cup {Nobody}]
  BY <1>2 DEF LockInv, Shapes
<1> QED BY <1>2, <1>3, <1>4, <1>5, <1>6, StatementKeeps

\* The queue row of a parent, if there is one.
LEMMA WakeQueueKeeps ==
    ASSUME LockInv, NEW t \in Tx, WakeQueue(t)
    PROVE  LockInv'
<1> DEFINE me == tx[t]
<1> DEFINE m == [me EXCEPT !.at = "wakeRun"]
<1>1. /\ me \in TxRec /\ me.at = "wakeQueue" /\ me.op # "none" /\ me.on \in Run
      /\ Covered(t) /\ Started(me) /\ Prepared(t)
  BY Standing DEF WakeQueue
<1>2. /\ qlock' = (IF HasRow(me.on) THEN Locked(qlock, t, me.on) ELSE qlock)
      /\ UNCHANGED <<status, onChild, rlock>>
      /\ HasRow(me.on) => qlock[me.on] \in {Nobody, t}
  BY <1>1 DEF WakeQueue, Blocked, Blocker, Queued
<1>3. /\ qlock' \in [Run -> Tx \cup {Nobody}]
      /\ rlock' \in [Run -> Tx \cup {Nobody}]
      /\ \A r \in Run : qlock'[r] = qlock[r] \/ (qlock[r] \in {Nobody, t} /\ qlock'[r] = t /\ HasRow(r))
      /\ \A r \in Run : rlock'[r] = rlock[r]
  BY <1>1, <1>2 DEF Locked, LockInv, Shapes
<1>4. tx' = [tx EXCEPT ![t] = m] /\ tx'[t] = m
  BY DEF WakeQueue, LockInv, Shapes
<1>5. /\ m \in TxRec /\ m.op = me.op /\ m.at = "wakeRun" /\ m.on = me.on
      /\ m.put = me.put /\ m.seen = me.seen /\ m.todo = me.todo
  BY <1>1 DEF TxRec, Point
<1> HIDE DEF m
<1>6. Started(m)
  BY <1>1, <1>5 DEF Started
<1>7. Covered(t)'
  BY <1>1, <1>2, <1>3, <1>4, <1>5 DEF Covered
<1>8. Prepared(t)'
  <2>1. me.todo \subseteq Run
    BY <1>1 DEF TxRec
  <2> QED BY <1>1, <1>3, <1>4, <1>5, <2>1 DEF Prepared, Fenced, Scans
<1> QED BY <1>1, <1>2, <1>3, <1>4, <1>5, <1>6, <1>7, <1>8, StatementKeeps

LEMMA DequeueKeeps ==
    ASSUME LockInv, NEW t \in Tx, Dequeue(t)
    PROVE  LockInv'
<1> DEFINE me == tx[t]
<1> DEFINE up == ParentOf[me.on]
<1> DEFINE m == [me EXCEPT !.on = up, !.at = "wakeQueue"]
<1>1. /\ me \in TxRec /\ me.at = "dequeue" /\ me.op # "none" /\ me.on \in Run
      /\ Covered(t) /\ Started(me) /\ Prepared(t)
  BY Standing DEF Dequeue
<1>2. /\ qlock' = (IF HasRow(me.on) THEN Locked(qlock, t, me.on) ELSE qlock)
      /\ UNCHANGED <<status, onChild, rlock>>
      /\ HasRow(me.on) => qlock[me.on] \in {Nobody, t}
  BY <1>1 DEF Dequeue, Blocked, Blocker, Queued
<1>3. /\ qlock' \in [Run -> Tx \cup {Nobody}]
      /\ rlock' \in [Run -> Tx \cup {Nobody}]
      /\ \A r \in Run : qlock'[r] = qlock[r] \/ (qlock[r] \in {Nobody, t} /\ qlock'[r] = t /\ HasRow(r))
      /\ \A r \in Run : rlock'[r] = rlock[r]
      /\ HasRow(me.on) => qlock'[me.on] = t
  BY <1>1, <1>2 DEF Locked, LockInv, Shapes
\* The decision that was waiting for this row is covered now.
<1>4. \A r \in Run : me.put[r] # "keep" =>
         /\ rlock'[r] = t /\ me.seen[r] = status[r] /\ status[r] # "ended"
         /\ qlock'[r] = t \/ status[r] = "waiting"
  <2>1. ~HasRow(me.on) /\ status[me.on] # "ended" => status[me.on] = "waiting"
    BY <1>1 DEF HasRow, LockInv, Shapes, Status
  <2>2. \A r \in Run : qlock[r] = t => qlock'[r] = t
    BY <1>3
  <2> QED BY <1>1, <1>3, <2>1, <2>2 DEF Covered
<1>5. \A r \in me.todo : qlock'[r] = t
  BY <1>1, <1>3, VisitsHeld
<1>6. CASE me.put[me.on] = "ended" /\ up \in onChild
  <2>1. tx' = [tx EXCEPT ![t] = m] /\ tx'[t] = m
    BY <1>6 DEF Dequeue, LockInv, Shapes
  <2>2. up \in Run
    BY <1>6 DEF LockInv, Shapes
  <2> HIDE DEF up
  <2>3. /\ m \in TxRec /\ m.op = me.op /\ m.at = "wakeQueue" /\ m.on \in Run
        /\ m.put = me.put /\ m.seen = me.seen /\ m.todo = me.todo
    BY <1>1, <2>2 DEF TxRec, Point
  <2> HIDE DEF m
  <2>4. Started(m)
    BY <1>1, <2>3 DEF Started
  <2>5. Covered(t)'
    BY <1>2, <1>4, <2>1, <2>3 DEF Covered
  <2>6. Prepared(t)'
    BY <1>5, <2>1, <2>3 DEF Prepared
  <2> QED BY <1>1, <1>2, <1>3, <2>1, <2>3, <2>4, <2>5, <2>6, StatementKeeps
<1>7. CASE ~(me.put[me.on] = "ended" /\ up \in onChild)
  <2>1. tx' = [tx EXCEPT ![t] = Onward(me)]
    BY <1>7 DEF Dequeue
  <2>2. me.op \in Blocking \cup {"log"} => me.todo = {}
    BY <1>1 DEF Started
  <2> HIDE DEF up
  <2> QED BY <1>1, <1>2, <1>3, <1>4, <1>5, <2>1, <2>2, OnwardKeeps
<1> QED BY <1>6, <1>7

LEMMA EnqueueKeeps ==
    ASSUME LockInv, NEW t \in Tx, Enqueue(t)
    PROVE  LockInv'
<1> DEFINE me == tx[t]
<1>1. /\ me \in TxRec /\ me.at = "enqueue" /\ me.op # "none" /\ me.on \in Run
      /\ Covered(t) /\ Started(me)
  BY Standing DEF Enqueue
<1>2. tx' = [tx EXCEPT ![t] = Onward(me)] /\ UNCHANGED <<status, onChild, qlock, rlock>>
  BY DEF Enqueue
<1>3. \A r \in me.todo : qlock'[r] = t
  BY <1>1, <1>2, VisitsHeld
<1>4. \A r \in Run : me.put[r] # "keep" =>
         /\ rlock'[r] = t /\ me.seen[r] = status[r] /\ status[r] # "ended"
         /\ qlock'[r] = t \/ status[r] = "waiting"
  BY <1>1, <1>2 DEF Covered
<1>5. qlock' \in [Run -> Tx \cup {Nobody}] /\ rlock' \in [Run -> Tx \cup {Nobody}]
  BY <1>2 DEF LockInv, Shapes
<1>6. me.op \in Blocking \cup {"log"} => me.todo = {}
  BY <1>1 DEF Started
<1> QED BY <1>1, <1>2, <1>3, <1>4, <1>5, <1>6, OnwardKeeps

\* A decision about the run a transaction is at, under that run's row: the wake
\* of a waiting parent, or the outcome of the operation.
Decided(me, was, st) == [me EXCEPT !.seen[me.on] = was, !.put[me.on] = st]

LEMMA DecidedIs ==
    ASSUME NEW me \in TxRec, me.on \in Run, NEW was \in Status, NEW st \in Status
    PROVE  LET m == Decided(me, was, st) IN
           /\ m \in TxRec /\ m.op = me.op /\ m.on = me.on /\ m.todo = me.todo
           /\ m.found = me.found /\ m.at = me.at
           /\ m.put[me.on] = st /\ m.seen[me.on] = was
           /\ \A r \in Run \ {me.on} : m.put[r] = me.put[r] /\ m.seen[r] = me.seen[r]
  BY DEF TxRec, Maybe, Decided

LEMMA WakeRunKeeps ==
    ASSUME LockInv, NEW t \in Tx, WakeRun(t)
    PROVE  LockInv'
<1> DEFINE me == tx[t]
<1> DEFINE m == [me EXCEPT !.seen[me.on] = "waiting", !.put[me.on] = "queued", !.at = "enqueue"]
<1>1. /\ me \in TxRec /\ me.at = "wakeRun" /\ me.op # "none" /\ me.on \in Run
      /\ Covered(t) /\ Started(me)
  BY Standing DEF WakeRun
<1>2. /\ rlock' = Locked(rlock, t, me.on) /\ rlock[me.on] \in {Nobody, t}
      /\ UNCHANGED <<status, onChild, qlock>>
  BY <1>1 DEF WakeRun, Blocked, Blocker, Queued
<1>3. /\ qlock' \in [Run -> Tx \cup {Nobody}]
      /\ rlock' \in [Run -> Tx \cup {Nobody}]
      /\ \A r \in Run : rlock'[r] = rlock[r] \/ (rlock[r] \in {Nobody, t} /\ rlock'[r] = t)
      /\ rlock'[me.on] = t
  BY <1>1, <1>2 DEF Locked, LockInv, Shapes
<1>4. \A r \in me.todo : qlock'[r] = t
  BY <1>1, <1>2, VisitsHeld
<1>5. \A r \in Run : me.put[r] # "keep" =>
         /\ rlock'[r] = t /\ me.seen[r] = status[r] /\ status[r] # "ended"
         /\ qlock'[r] = t \/ status[r] = "waiting"
  BY <1>1, <1>2, <1>3 DEF Covered
<1>6. CASE me.on \in onChild /\ status[me.on] = "waiting"
  <2>1. tx' = [tx EXCEPT ![t] = m] /\ tx'[t] = m
    BY <1>6 DEF WakeRun, LockInv, Shapes
  <2> DEFINE did == Decided(me, "waiting", "queued")
  <2>2. /\ did \in TxRec /\ did.op = me.op /\ did.on = me.on /\ did.todo = me.todo
        /\ did.seen[me.on] = "waiting"
        /\ \A r \in Run \ {me.on} : did.put[r] = me.put[r] /\ did.seen[r] = me.seen[r]
    <3>1. "waiting" \in Status /\ "queued" \in Status
      BY DEF Status
    <3> QED BY <1>1, <3>1, DecidedIs
  <2>3. m = [did EXCEPT !.at = "enqueue"]
    BY <1>1 DEF Decided, TxRec
  <2> HIDE DEF did, m
  <2>4. /\ m \in TxRec /\ m.op = me.op /\ m.on = me.on /\ m.todo = me.todo
        /\ m.at = "enqueue" /\ m.seen[me.on] = "waiting"
        /\ \A r \in Run \ {me.on} : m.put[r] = me.put[r] /\ m.seen[r] = me.seen[r]
    BY <2>2, <2>3 DEF TxRec, Point
  <2>5. Started(m)
    BY <1>1, <2>4 DEF Started
  <2>6. Covered(t)'
    BY <1>2, <1>3, <1>5, <1>6, <2>1, <2>4 DEF Covered
  <2>7. Prepared(t)'
    BY <1>4, <2>1, <2>4 DEF Prepared
  <2> QED BY <1>1, <1>2, <1>3, <2>1, <2>4, <2>5, <2>6, <2>7, StatementKeeps
<1>7. CASE ~(me.on \in onChild /\ status[me.on] = "waiting")
  <2>1. tx' = [tx EXCEPT ![t] = Onward(me)]
    BY <1>7 DEF WakeRun
  <2>2. me.op \in Blocking \cup {"log"} => me.todo = {}
    BY <1>1 DEF Started
  <2> QED BY <1>1, <1>2, <1>3, <1>4, <1>5, <2>1, <2>2, OnwardKeeps
<1> QED BY <1>6, <1>7

\* The decisions that need no queue row: the next statement takes it, or the run
\* waits and has none.
LEMMA OutcomesAre ==
    ASSUME NEW me \in TxRec, NEW st \in Outcomes(me)
    PROVE  /\ st \in Status
           /\ status[me.on] # "ended"
           /\ me.op = "resume" => status[me.on] = "waiting" /\ st = "queued"
           /\ \/ st \in {"ended", "waiting"} \/ me.op = "resume"
              \/ me.op = "retry" /\ me.found
              \/ me.op \in Scans \cup {"release"}
<1>1. CASE me.op = "cancel"
  <2>1. Outcomes(me) = IF status[me.on] = "ended" THEN {} ELSE {"ended"}
    BY <1>1 DEF Outcomes
  <2> QED BY <1>1, <2>1 DEF Status
<1>2. CASE me.op = "finish" \/ me.op = "suspend" \/ me.op = "retry"
  <2>1. st \in (IF status[me.on] = "running" /\ me.found THEN {"ended", "waiting", "queued"} ELSE {})
    BY <1>2 DEF Outcomes
  <2>2. me.op = "finish" \/ me.op = "suspend" => st \in {"ended", "waiting"}
    BY <1>2 DEF Outcomes
  <2> QED BY <1>2, <2>1, <2>2 DEF Status
<1>3. CASE me.op = "resume"
  BY <1>3 DEF Outcomes, Status
<1>4. CASE me.op \in Scans \cup {"release"}
  BY <1>4 DEF Outcomes, Status, Scans
<1>5. CASE me.op = "log" \/ me.op = "none"
  BY <1>5 DEF Outcomes
<1> QED BY <1>1, <1>2, <1>3, <1>4, <1>5 DEF TxRec, AllOps, Blocking, Fenced

LEMMA LockRunKeeps ==
    ASSUME LockInv, NEW t \in Tx, LockRun(t)
    PROVE  LockInv'
<1> DEFINE me == tx[t]
<1>1. /\ me \in TxRec /\ me.at = "run" /\ me.op # "none" /\ me.on \in Run
      /\ Covered(t) /\ Started(me) /\ Prepared(t)
  BY Standing DEF LockRun
<1>2. /\ rlock' = Locked(rlock, t, me.on) /\ rlock[me.on] \in {Nobody, t}
      /\ UNCHANGED <<status, onChild, qlock>>
  BY <1>1 DEF LockRun, Blocked, Blocker, Queued
<1>3. /\ qlock' \in [Run -> Tx \cup {Nobody}]
      /\ rlock' \in [Run -> Tx \cup {Nobody}]
      /\ \A r \in Run : rlock'[r] = rlock[r] \/ (rlock[r] \in {Nobody, t} /\ rlock'[r] = t)
      /\ rlock'[me.on] = t
  BY <1>1, <1>2 DEF Locked, LockInv, Shapes
<1>4. \A r \in me.todo : qlock'[r] = t
  BY <1>1, <1>2, VisitsHeld
<1>5. \A r \in Run : me.put[r] # "keep" =>
         /\ rlock'[r] = t /\ me.seen[r] = status[r] /\ status[r] # "ended"
         /\ qlock'[r] = t \/ status[r] = "waiting"
  BY <1>1, <1>2, <1>3 DEF Covered
<1>6. me.op \in Blocking \cup {"log"} => me.todo = {}
  BY <1>1 DEF Started
<1>7. CASE tx' = [tx EXCEPT ![t] = Onward(me)]
  BY <1>1, <1>2, <1>3, <1>4, <1>5, <1>6, <1>7, OnwardKeeps
<1>8. ASSUME NEW st \in Outcomes(me),
             tx' = [tx EXCEPT ![t] =
                 LET did == [me EXCEPT !.seen[me.on] = status[me.on], !.put[me.on] = st] IN
                 CASE st \in {"ended", "waiting"} -> [did EXCEPT !.at = "dequeue"]
                   [] me.op = "resume"            -> [did EXCEPT !.at = "enqueue"]
                   [] OTHER                       -> Onward(did)]
      PROVE  LockInv'
  <2> DEFINE did == Decided(me, status[me.on], st)
  <2>1. /\ st \in Status /\ status[me.on] \in Status \ {"ended"}
        /\ me.op = "resume" => status[me.on] = "waiting" /\ st = "queued"
        /\ \/ st \in {"ended", "waiting"} \/ me.op = "resume"
           \/ me.op = "retry" /\ me.found
           \/ me.op \in Scans \cup {"release"}
    BY <1>1, OutcomesAre DEF LockInv, Shapes
  <2>2. /\ did \in TxRec /\ did.op = me.op /\ did.on = me.on /\ did.todo = me.todo
        /\ did.seen[me.on] = status[me.on]
        /\ \A r \in Run \ {me.on} : did.put[r] = me.put[r] /\ did.seen[r] = me.seen[r]
    BY <1>1, <2>1, DecidedIs
  <2>3. tx' = [tx EXCEPT ![t] =
                 CASE st \in {"ended", "waiting"} -> [did EXCEPT !.at = "dequeue"]
                   [] me.op = "resume"            -> [did EXCEPT !.at = "enqueue"]
                   [] OTHER                       -> Onward(did)]
    BY <1>8 DEF Decided
  <2> HIDE DEF did
  \* Two of them stop for one more statement.
  <2>4. ASSUME NEW at \in {"dequeue", "enqueue"}, tx' = [tx EXCEPT ![t] = [did EXCEPT !.at = at]],
               at = "enqueue" => status[me.on] = "waiting"
        PROVE  LockInv'
    <3> DEFINE m == [did EXCEPT !.at = at]
    <3>1. tx' = [tx EXCEPT ![t] = m] /\ tx'[t] = m
      BY <2>4 DEF LockInv, Shapes
    <3>2. /\ m \in TxRec /\ m.op = me.op /\ m.on = me.on /\ m.todo = me.todo /\ m.at = at
          /\ m.seen[me.on] = status[me.on]
          /\ \A r \in Run \ {me.on} : m.put[r] = me.put[r] /\ m.seen[r] = me.seen[r]
      BY <2>2 DEF TxRec, Point
    <3> HIDE DEF m
    <3>3. Started(m)
      BY <1>1, <3>2 DEF Started
    <3>4. Covered(t)'
      <4>1. /\ rlock'[me.on] = t /\ m.seen[me.on] = status'[me.on] /\ status'[me.on] # "ended"
            /\ status'[me.on] = "waiting" \/ m.at = "dequeue"
        BY <1>2, <1>3, <2>1, <2>4, <3>2
      <4>2. \A r \in Run \ {me.on} : m.put[r] # "keep" =>
              /\ rlock'[r] = t /\ m.seen[r] = status'[r] /\ status'[r] # "ended"
              /\ qlock'[r] = t \/ status'[r] = "waiting"
        BY <1>2, <1>5, <3>2
      <4> QED BY <3>1, <3>2, <4>1, <4>2 DEF Covered
    <3>5. Prepared(t)'
      BY <1>4, <3>1, <3>2 DEF Prepared
    <3> QED BY <1>1, <1>2, <1>3, <3>1, <3>2, <3>3, <3>4, <3>5, StatementKeeps
  \* The others rest on the queue row they hold.
  <2>5. CASE st \notin {"ended", "waiting"} /\ me.op # "resume"
    <3>1. tx' = [tx EXCEPT ![t] = Onward(did)]
      BY <2>3, <2>5
    <3>2. qlock[me.on] = t
      BY <1>1, <2>1, <2>5 DEF Prepared, Fenced
    <3>3. \A r \in Run : did.put[r] # "keep" =>
             /\ rlock'[r] = t /\ did.seen[r] = status[r] /\ status[r] # "ended"
             /\ qlock'[r] = t \/ status[r] = "waiting"
      BY <1>2, <1>3, <1>5, <2>1, <2>2, <3>2
    <3>4. /\ did \in TxRec /\ did.op # "none" /\ did.on \in Run
          /\ did.op \in Blocking \cup {"log"} => did.todo = {}
          /\ \A r \in did.todo : qlock'[r] = t
          /\ \A r \in Run : qlock'[r] = qlock[r]
      BY <1>1, <1>2, <1>4, <1>6, <2>2
    <3> QED BY <1>2, <1>3, <3>1, <3>3, <3>4, OnwardKeeps
  <2>6. CASE st \in {"ended", "waiting"}
    <3>1. tx' = [tx EXCEPT ![t] = [did EXCEPT !.at = "dequeue"]]
      BY <2>1, <2>3, <2>6
    <3> QED BY <2>4, <3>1
  <2>7. CASE st \notin {"ended", "waiting"} /\ me.op = "resume"
    <3>1. tx' = [tx EXCEPT ![t] = [did EXCEPT !.at = "enqueue"]]
      BY <2>3, <2>7
    <3> QED BY <2>1, <2>4, <2>7, <3>1
  <2> QED BY <2>5, <2>6, <2>7
<1> QED BY <1>7, <1>8 DEF LockRun

----------------------------------------------------------------------------
\* The invariant

LEMMA OpenKeeps ==
    ASSUME LockInv, NEW t \in Tx, NEW r \in Run, NEW op \in Ops, NEW rs \in SUBSET Run,
           Begin(t, op, r) \/ BeginRelease(t, rs) \/ BeginLog(t, r)
    PROVE  LockInv'
<1>1. qlock' = qlock => /\ qlock' \in [Run -> Tx \cup {Nobody}]
                        /\ \A x \in Run : qlock'[x] = qlock[x]
  BY DEF LockInv, Shapes
<1>2. CASE Begin(t, op, r)
  <2>1. /\ op \in Blocking /\ op \in AllOps /\ op \notin Scans \cup {"release"}
        /\ tx[t] = NoTx /\ Open(t, op, r, "queue", {})
        /\ UNCHANGED <<status, onChild, qlock, rlock>>
    BY <1>2, LockAssumption DEF Begin, Blocking, Fenced, Scans, AllOps
  <2> QED BY <1>1, <2>1, BeginKeeps
<1>3. CASE BeginRelease(t, rs)
  <2>1. PICK x \in rs : Open(t, "release", x, "claims", rs \ {x})
    BY <1>3 DEF BeginRelease
  <2>2. /\ "release" \in AllOps /\ "release" \notin Blocking \cup {"log"} \cup Scans \cup Fenced
        /\ x \in Run /\ rs \ {x} \in SUBSET Run
    BY DEF Blocking, Fenced, Scans, AllOps
  <2>3. tx[t] = NoTx /\ UNCHANGED <<status, onChild, qlock, rlock>>
    BY <1>3 DEF BeginRelease
  <2> QED BY <1>1, <2>1, <2>2, <2>3, BeginKeeps
<1>4. CASE BeginLog(t, r)
  <2>1. "log" \in AllOps /\ "log" \notin Scans \cup Fenced
    BY DEF Fenced, Scans, AllOps
  <2>2. /\ tx[t] = NoTx /\ Open(t, "log", r, "run", {})
        /\ UNCHANGED <<status, onChild, qlock, rlock>>
    BY <1>4 DEF BeginLog
  <2> QED BY <1>1, <2>1, <2>2, BeginKeeps
<1> QED BY <1>2, <1>3, <1>4

LEMMA CommitKeeps ==
    ASSUME LockInv, NEW t \in Tx, Commit(t)
    PROVE  LockInv'
<1>1. tx[t] \in TxRec
  BY DEF LockInv, Shapes
<1>2. \A r \in Run : status'[r] = (IF tx[t].put[r] = "keep" THEN status[r] ELSE tx[t].put[r])
  BY DEF Commit
<1>3. status' \in [Run -> Status]
  BY <1>1 DEF Commit, TxRec, Maybe, LockInv, Shapes
<1>4. onChild' \subseteq Run
  BY DEF Commit, LockInv, Shapes
<1>5. Close(t) /\ tx[t].at = "commit"
  BY DEF Commit
<1> QED BY <1>2, <1>3, <1>4, <1>5, CloseKeeps

LEMMA RollbackKeeps ==
    ASSUME LockInv, NEW t \in Tx, Rollback(t)
    PROVE  LockInv'
<1>1. Close(t) /\ status' = status /\ onChild' = onChild
  BY DEF Rollback
<1>2. status' \in [Run -> Status] /\ onChild' \subseteq Run
  BY <1>1 DEF LockInv, Shapes
<1> QED BY <1>1, <1>2, CloseKeeps

LEMMA LockStep == LockInv /\ [Next]_vars => LockInv'
<1> SUFFICES ASSUME LockInv, [Next]_vars PROVE LockInv'
  OBVIOUS
<1>1. CASE UNCHANGED vars
  BY <1>1 DEF vars, LockInv, Shapes, Held, HasRow, Started, Covered, Prepared
<1>2. ASSUME NEW t \in Tx, NEW op \in Ops, NEW r \in Run, Begin(t, op, r) PROVE LockInv'
  BY <1>2, OpenKeeps
<1>3. ASSUME NEW t \in Tx, NEW op \in Ops, Scan(t, op) PROVE LockInv'
  BY <1>3, ScanKeeps
<1>4. ASSUME NEW t \in Tx, NEW rs \in SUBSET Run, BeginRelease(t, rs) PROVE LockInv'
  <2>1. "release" \in Ops /\ \E r \in Run : r \in rs
    BY <1>4 DEF BeginRelease
  <2> QED BY <1>4, <2>1, OpenKeeps
<1>5. ASSUME NEW t \in Tx, NEW r \in Run, BeginLog(t, r) PROVE LockInv'
  <2>1. "log" \in Ops
    BY <1>5 DEF BeginLog
  <2> QED BY <1>5, <2>1, OpenKeeps
<1>6. ASSUME NEW t \in Tx, Step(t) PROVE LockInv'
  BY <1>6, LockClaimsKeeps, LockQueueKeeps, LockRunKeeps, SkipRunKeeps, DequeueKeeps,
     WakeQueueKeeps, WakeRunKeeps, EnqueueKeeps, CommitKeeps DEF Step
<1>7. ASSUME NEW t \in Tx, Rollback(t) PROVE LockInv'
  BY <1>7, RollbackKeeps
<1> QED BY <1>1, <1>2, <1>3, <1>4, <1>5, <1>6, <1>7 DEF Next

LEMMA LocksInvariant == Spec => []LockInv
  BY InitLocks, LockStep, PTL DEF Spec

\* Every lock belongs to an open transaction, and whoever holds a queue row
\* holds one that is there.
THEOREM LocksOfOpenTransactions == Spec => []TypeOK
  BY LocksInvariant, LockInvType, PTL

\* A decision taken under the runs row is still right at the commit, for any
\* operations in any number of transactions: the runs row serializes them.
THEOREM RunRowSerializes == Spec => []DecisionsHold
  BY LocksInvariant, LockInvDecisions, PTL

----------------------------------------------------------------------------
\* A held queue row

\* Only a COMMIT changes a run, and it has that run's queue row, or the run waits
\* and nobody has it.
LEMMA QueueRowHolds ==
    LockInv /\ [Next]_vars =>
        \A r \in Run : qlock[r] # Nobody /\ qlock'[r] = qlock[r] => status'[r] = status[r]
<1> SUFFICES ASSUME LockInv, [Next]_vars, NEW r \in Run, qlock[r] # Nobody, qlock'[r] = qlock[r]
             PROVE  status'[r] = status[r]
  OBVIOUS
<1>1. CASE UNCHANGED vars
  BY <1>1 DEF vars
<1>2. ASSUME NEW t \in Tx, Commit(t) PROVE status'[r] = status[r]
  <2>1. CASE tx[t].put[r] = "keep"
    BY <1>2, <2>1 DEF Commit
  <2>2. CASE tx[t].put[r] # "keep"
    <3>1. qlock[r] = t \/ status[r] = "waiting"
      BY <1>2, <2>2 DEF Commit, LockInv, Covered
    <3>2. status[r] # "waiting"
      BY DEF LockInv, Held, HasRow
    <3>3. qlock'[r] # t
      BY <1>2, LockAssumption DEF Commit, Close, Unlocked
    <3> QED BY <3>1, <3>2, <3>3
  <2> QED BY <2>1, <2>2
<1>3. CASE UNCHANGED status
  BY <1>3
<1>4. \/ \E t \in Tx : Commit(t)
      \/ UNCHANGED vars
      \/ UNCHANGED status
  BY DEF Next, Step, Begin, Scan, BeginRelease, BeginLog, LockClaims, LockQueue, LockRun, SkipRun,
         Dequeue, WakeQueue, WakeRun, Enqueue, Rollback
<1> QED BY <1>1, <1>2, <1>3, <1>4

\* Whoever holds a queue row is the only one that can move that run: a commit
\* that found no row to lock changes only a run that has none.
THEOREM QueueRowIsExclusive == Spec => QueueRowFreezesRun
<1> DEFINE Freezes ==
      \A r \in Run : qlock[r] # Nobody /\ qlock'[r] = qlock[r] => status'[r] = status[r]
<1>1. LockInv /\ [Next]_vars => [Freezes]_vars
  BY QueueRowHolds
<1>2. Spec => [][Freezes]_vars
  <2> HIDE DEF Freezes
  <2> QED BY <1>1, LocksInvariant, PTL DEF Spec
<1> QED BY <1>2 DEF QueueRowFreezesRun

----------------------------------------------------------------------------
\* RowLocks: the lock order, for any runs each of which waits for a child of its own.

\* A run that waits for its child is waiting, and one worker at a time hands back.
Waits    == \A r \in onChild : status[r] = "waiting"
OneHands == \A t, u \in Tx : tx[t].op = "release" /\ tx[u].op = "release" => t = u

\* Who visits several runs, and locks their queue rows first.
OnScan(t) == tx[t].op \in Scans \cup {"release"}

\* Up to its first runs row a transaction has none.
Early(t) ==
    /\ tx[t].at = "queue" => \A r \in Run : qlock[r] # t
    /\ tx[t].at \in {"queue", "claims"} => \A r \in Run : rlock[r] # t
    /\ tx[t].at = "run" /\ ~OnScan(t) => \A r \in Run : rlock[r] # t
    /\ tx[t].at \in {"queue", "run"} /\ tx[t].op = "resume" => tx[t].on \notin onChild
    /\ tx[t].at = "run" /\ tx[t].op = "cancel" /\ tx[t].found => qlock[tx[t].on] = t

\* Before its queue row goes a run is locked, by nobody but a late cancel without
\* that row; and what is enqueued was waiting.
Settling(t) ==
    /\ tx[t].at = "dequeue" =>
          /\ rlock[tx[t].on] = t /\ tx[t].put[tx[t].on] # "keep"
          /\ qlock[tx[t].on] = t \/ (tx[t].op = "cancel" /\ ~tx[t].found)
          /\ ~OnScan(t) => \A r \in Run : rlock[r] = t => r = tx[t].on
    /\ tx[t].at = "enqueue" =>
          /\ tx[t].put[tx[t].on] # "keep" /\ tx[t].seen[tx[t].on] = "waiting"

ChildHeld(t, r) == \E c \in Run : ParentOf[c] = r /\ rlock[c] = t

\* A parent is reached from its locked child, and it has no queue row.
Waking(t) ==
    tx[t].at \in {"wakeQueue", "wakeRun"} =>
        /\ ChildHeld(t, tx[t].on)
        /\ \/ tx[t].on \in onChild /\ status[tx[t].on] = "waiting"
           \/ status[tx[t].on] = "ended"

\* Who else may move a run that waits: a cancel, a timer, or its locked child.
Moving(t) ==
    \A r \in Run : tx[t].put[r] # "keep" /\ tx[t].seen[r] = "waiting" =>
        \/ tx[t].put[r] = "ended"
        \/ tx[t].op = "resume" /\ r \notin onChild
        \/ ChildHeld(t, r)

\* A transaction that may still wait for a runs row has the queue row of each run
\* it has locked, unless there is none: of a parent, or of the child it came from.
Stacked(t) ==
    (OnScan(t) /\ tx[t].at # "claims") \/ tx[t].at \in {"wakeQueue", "wakeRun"} =>
        \A r \in Run : rlock[r] = t =>
            \/ qlock[r] = t
            \/ ~HasRow(r) /\ ChildHeld(t, r)
            \/ ~HasRow(r) /\ ~OnScan(t) /\ ParentOf[r] = tx[t].on

Ordered(t) == Early(t) /\ Settling(t) /\ Waking(t) /\ Moving(t) /\ Stacked(t)
OrderInv == Waits /\ OneHands /\ \A t \in Tx : Ordered(t)

LEMMA OthersOrdered ==
    ASSUME LockInv, OrderInv, NEW t \in Tx, NEW u \in Tx, u # t, tx'[u] = tx[u],
           \A r \in Run : (qlock'[r] = u <=> qlock[r] = u) /\ (rlock'[r] = u <=> rlock[r] = u),
           onChild' \subseteq onChild,
           \A r \in Run : status'[r] # status[r] \/ (r \in onChild /\ r \notin onChild') =>
              tx[t].put[r] # "keep" /\ status'[r] = tx[t].put[r] /\ r \notin onChild'
    PROVE  Ordered(u)'
<1>1. /\ tx[u] \in TxRec /\ (tx[u].at # "none" => tx[u].on \in Run)
      /\ Ordered(u) /\ Moving(t) /\ Covered(t) /\ Covered(u)
  BY DEF LockInv, Shapes, Started, OrderInv, Ordered
<1>2. \A r : ChildHeld(u, r)' <=> ChildHeld(u, r)
  BY DEF ChildHeld
<1>3. Early(u)'
  BY <1>1 DEF Ordered, Early, OnScan
<1>4. Settling(u)'
  BY <1>1 DEF Ordered, Settling, OnScan
<1>5. Moving(u)'
  <2>1. \A r \in Run : r \notin onChild => r \notin onChild'
    OBVIOUS
  <2> QED BY <1>1, <1>2, <2>1 DEF Ordered, Moving
<1>6. Waking(u)'
  <2> SUFFICES ASSUME tx[u].at \in {"wakeQueue", "wakeRun"}
               PROVE  /\ ChildHeld(u, tx[u].on)
                      /\ \/ tx[u].on \in onChild' /\ status'[tx[u].on] = "waiting"
                         \/ status'[tx[u].on] = "ended"
    BY <1>2 DEF Waking
  <2>1. PICK r \in Run : r = tx[u].on
    BY <1>1
  <2>2. /\ ChildHeld(u, r)
        /\ (r \in onChild /\ status[r] = "waiting") \/ status[r] = "ended"
    BY <1>1, <2>1 DEF Ordered, Waking
  <2>3. CASE tx[t].put[r] = "keep"
    BY <2>1, <2>2, <2>3
  <2>4. CASE tx[t].put[r] # "keep"
    <3>1. tx[t].seen[r] = status[r] /\ status[r] # "ended"
      BY <1>1, <2>4 DEF Covered
    <3>2. ~ChildHeld(t, r)
      <4> SUFFICES ASSUME ChildHeld(t, r) PROVE FALSE
        OBVIOUS
      <4>1. PICK c \in Run : ParentOf[c] = r /\ rlock[c] = t
        BY DEF ChildHeld
      <4>2. PICK d \in Run : ParentOf[d] = r /\ rlock[d] = u
        BY <2>2 DEF ChildHeld
      <4> QED BY <4>1, <4>2, FamilyAssumption, LockAssumption
    <3>3. tx[t].put[r] = "ended"
      BY <1>1, <2>2, <2>4, <3>1, <3>2 DEF Moving
    <3> QED BY <2>1, <2>2, <3>1, <3>3
  <2> QED BY <2>3, <2>4
<1>7. Stacked(u)'
  <2>1. ASSUME NEW r \in Run, rlock[r] = u PROVE HasRow(r)' <=> HasRow(r)
    <3>1. tx[t].put[r] = "keep"
      BY <1>1, <2>1 DEF Covered
    <3> QED BY <3>1 DEF HasRow
  <2> QED BY <1>1, <1>2, <2>1 DEF Ordered, Stacked, OnScan
<1> QED BY <1>3, <1>4, <1>5, <1>6, <1>7 DEF Ordered

\* One statement of transaction t leaves the order as it is, if t itself keeps it.
LEMMA StatementOrders ==
    ASSUME LockInv, OrderInv, NEW t \in Tx, NEW m \in TxRec, tx' = [tx EXCEPT ![t] = m],
           UNCHANGED <<status, onChild>>,
           m.op = "release" => \A u \in Tx : u # t => tx[u].op # "release",
           \A r \in Run : qlock'[r] = qlock[r] \/ (qlock[r] \in {Nobody, t} /\ qlock'[r] = t),
           \A r \in Run : rlock'[r] = rlock[r] \/ (rlock[r] \in {Nobody, t} /\ rlock'[r] = t),
           Ordered(t)'
    PROVE  OrderInv'
<1>1. tx'[t] = m /\ \A u \in Tx : u # t => tx'[u] = tx[u]
  BY DEF LockInv, Shapes
<1>2. Waits'
  BY DEF OrderInv, Waits
<1>3. OneHands'
  BY <1>1 DEF OrderInv, OneHands
<1>4. ASSUME NEW u \in Tx, u # t PROVE Ordered(u)'
  <2>1. \A r \in Run : (qlock'[r] = u <=> qlock[r] = u) /\ (rlock'[r] = u <=> rlock[r] = u)
    BY <1>4, LockAssumption
  <2> QED BY <1>1, <1>4, <2>1, OthersOrdered
<1> QED BY <1>2, <1>3, <1>4 DEF OrderInv

\* Nor does its end.
LEMMA CloseOrders ==
    ASSUME LockInv, OrderInv, NEW t \in Tx, Close(t),
           onChild' \subseteq onChild,
           \A r \in Run : status'[r] # status[r] \/ (r \in onChild /\ r \notin onChild') =>
              tx[t].put[r] # "keep" /\ status'[r] = tx[t].put[r] /\ r \notin onChild'
    PROVE  OrderInv'
<1> USE LockAssumption
<1>1. tx'[t] = NoTx /\ \A u \in Tx : u # t => tx'[u] = tx[u]
  BY DEF Close, LockInv, Shapes
<1>2. \A r \in Run : /\ qlock'[r] = (IF qlock[r] = t THEN Nobody ELSE qlock[r])
                     /\ rlock'[r] = (IF rlock[r] = t THEN Nobody ELSE rlock[r])
  BY DEF Close, Unlocked
<1>3. Waits'
  BY DEF OrderInv, Waits, LockInv, Shapes
<1>4. OneHands'
  BY <1>1 DEF OrderInv, OneHands, NoTx
<1>5. ASSUME NEW u \in Tx, u # t PROVE Ordered(u)'
  <2>1. \A r \in Run : (qlock'[r] = u <=> qlock[r] = u) /\ (rlock'[r] = u <=> rlock[r] = u)
    BY <1>2, <1>5
  <2> QED BY <1>1, <1>5, <2>1, OthersOrdered
<1>6. Ordered(t)'
  <2>1. tx'[t].op = "none" /\ tx'[t].at = "none" /\ \A r \in Run : tx'[t].put[r] = "keep"
    BY <1>1 DEF NoTx
  <2>2. Early(t)' /\ Settling(t)' /\ Waking(t)'
    BY <2>1 DEF Early, Settling, Waking, OnScan
  <2>3. Moving(t)' /\ Stacked(t)'
    BY <2>1 DEF Moving, Stacked, Scans, OnScan
  <2> QED BY <2>2, <2>3 DEF Ordered
<1> QED BY <1>3, <1>4, <1>5, <1>6 DEF OrderInv

LEMMA OrderInit == Init => OrderInv
<1> SUFFICES ASSUME Init PROVE OrderInv
  OBVIOUS
<1>1. \A t \in Tx : tx[t] = NoTx
  BY DEF Init
<1>2. \A t \in Tx : tx[t].op = "none" /\ tx[t].at = "none" /\ \A r \in Run : tx[t].put[r] = "keep"
  BY <1>1 DEF NoTx
<1>3. Waits
  BY LockAssumption DEF Init, Waits
<1>4. OneHands
  BY <1>2 DEF OneHands
<1>5. \A t \in Tx : Early(t) /\ Settling(t) /\ Waking(t)
  BY <1>2 DEF Early, Settling, Waking, OnScan
<1>6. \A t \in Tx : Moving(t) /\ Stacked(t)
  BY <1>2 DEF Moving, Stacked, Scans, OnScan
<1> QED BY <1>3, <1>4, <1>5, <1>6 DEF OrderInv, Ordered

LEMMA OnwardOrders ==
    ASSUME LockInv, OrderInv, NEW t \in Tx, NEW m \in TxRec, tx' = [tx EXCEPT ![t] = Onward(m)],
           m.op = tx[t].op, m.op # "none", m.op \in Blocking \cup {"log"} => m.todo = {},
           UNCHANGED <<status, onChild>>,
           \A r \in Run : qlock'[r] = qlock[r] \/ (qlock[r] \in {Nobody, t} /\ qlock'[r] = t),
           \A r \in Run : rlock'[r] = rlock[r] \/ (rlock[r] \in {Nobody, t} /\ rlock'[r] = t),
           \A r \in Run : m.put[r] # "keep" /\ m.seen[r] = "waiting" =>
              m.put[r] = "ended" \/ (m.op = "resume" /\ r \notin onChild) \/ ChildHeld(t, r)',
           m.op \in Scans \cup {"release"} => \A r \in Run : rlock'[r] = t =>
              qlock'[r] = t \/ (~HasRow(r) /\ ChildHeld(t, r)')
    PROVE  OrderInv'
<1> DEFINE n == Onward(m)
<1> HIDE DEF n
<1>1. /\ n \in TxRec /\ n.op = m.op /\ n.put = m.put /\ n.seen = m.seen
      /\ \/ m.todo = {} /\ n.at = "commit"
         \/ m.todo # {} /\ n.at = "run"
  BY OnwardIs DEF n
<1>2. tx' = [tx EXCEPT ![t] = n] /\ tx'[t] = n
  BY DEF n, LockInv, Shapes
<1>3. Early(t)'
  <2>1. m.op \in Blocking \cup {"log"} \/ m.op \in Scans \cup {"release"}
    BY DEF TxRec, AllOps
  <2>2. m.op \in {"cancel", "resume"} => m.op \in Blocking
    BY DEF Blocking
  <2> QED BY <1>1, <1>2, <2>1, <2>2 DEF Early, OnScan
<1>4. Settling(t)' /\ Waking(t)'
  BY <1>1, <1>2 DEF Settling, Waking, OnScan
<1>5. Moving(t)'
  BY <1>1, <1>2 DEF Moving
<1>6. Stacked(t)'
  BY <1>1, <1>2 DEF Stacked, HasRow, OnScan
<1>7. m.op = "release" => \A u \in Tx : u # t => tx[u].op # "release"
  BY DEF OrderInv, OneHands
<1> QED BY <1>1, <1>2, <1>3, <1>4, <1>5, <1>6, <1>7, StatementOrders DEF Ordered

----------------------------------------------------------------------------
\* The steps, once more

LEMMA FirstStatementOrders ==
    ASSUME LockInv, OrderInv, NEW t \in Tx, NEW op \in AllOps, NEW r \in Run,
           NEW todo \in SUBSET Run, NEW at \in {"queue", "run", "claims"}, Open(t, op, r, at, todo),
           tx[t] = NoTx, UNCHANGED <<status, onChild, rlock>>,
           \A x \in Run : qlock'[x] = qlock[x] \/ (qlock[x] = Nobody /\ qlock'[x] = t),
           at = "queue" => qlock' = qlock, op \in {"cancel", "resume"} => at = "queue",
           op = "resume" => r \notin onChild,
           op = "release" => \A u \in Tx : tx[u].op # "release"
    PROVE  OrderInv'
<1> DEFINE m == [NoTx EXCEPT !.op = op, !.on = r, !.at = at, !.todo = todo]
<1>1. tx' = [tx EXCEPT ![t] = m] /\ tx'[t] = m
  BY DEF Open, LockInv, Shapes
<1>2. /\ m \in TxRec /\ m.op = op /\ m.on = r /\ m.at = at
      /\ \A x \in Run : m.put[x] = "keep"
  BY DEF NoTx, TxRec, Maybe, Point, AllOps, Blocking, Fenced, Scans
<1> HIDE DEF m
<1>3. \A x \in Run : qlock[x] # t /\ rlock[x] # t
  BY LockAssumption DEF LockInv, Held, NoTx
<1>4. \A x \in Run : rlock'[x] = rlock[x]
  OBVIOUS
<1>5. Early(t)'
  BY <1>1, <1>2, <1>3 DEF Early, OnScan
<1>6. Settling(t)' /\ Waking(t)'
  BY <1>1, <1>2 DEF Settling, Waking, OnScan
<1>7. Moving(t)'
  BY <1>1, <1>2 DEF Moving
<1>8. Stacked(t)'
  BY <1>1, <1>2, <1>3, <1>4 DEF Stacked, OnScan
<1> QED BY <1>1, <1>2, <1>4, <1>5, <1>6, <1>7, <1>8, StatementOrders DEF Ordered

LEMMA OpenOrders ==
    ASSUME LockInv, OrderInv, NEW t \in Tx, NEW r \in Run, NEW op \in Ops, NEW rs \in SUBSET Run,
           Begin(t, op, r) \/ Scan(t, op) \/ BeginRelease(t, rs) \/ BeginLog(t, r)
    PROVE  OrderInv'
<1>1. op \in AllOps
  BY LockAssumption
<1>2. CASE Begin(t, op, r)
  <2>1. /\ tx[t] = NoTx /\ Open(t, op, r, "queue", {}) /\ UNCHANGED <<status, onChild, qlock, rlock>>
        /\ op = "resume" => r \notin onChild
        /\ op # "release"
    BY <1>2 DEF Begin, Blocking, Fenced
  <2> QED BY <1>1, <2>1, FirstStatementOrders
<1>3. CASE Scan(t, op)
  <2>1. PICK ss \in SUBSET Candidates(op), x \in Run :
           /\ x \in ss
           /\ qlock' = [y \in Run |-> IF y \in ss THEN t ELSE qlock[y]]
           /\ Open(t, op, x, "run", ss \ {x})
    BY <1>3 DEF Scan, ScanLocks, Candidates
  <2>2. /\ tx[t] = NoTx /\ UNCHANGED <<status, onChild, rlock>>
        /\ op \notin {"cancel", "resume", "release"}
    BY <1>3 DEF Scan, Scans
  <2>3. /\ ss \ {x} \in SUBSET Run
        /\ \A y \in Run : qlock'[y] = qlock[y] \/ (qlock[y] = Nobody /\ qlock'[y] = t)
    BY <2>1 DEF Candidates
  <2> QED BY <1>1, <2>1, <2>2, <2>3, FirstStatementOrders
<1>4. CASE BeginRelease(t, rs)
  <2>1. PICK x \in rs : Open(t, "release", x, "claims", rs \ {x})
    BY <1>4 DEF BeginRelease
  <2>2. /\ tx[t] = NoTx /\ UNCHANGED <<status, onChild, qlock, rlock>>
        /\ \A u \in Tx : tx[u].op # "release"
    BY <1>4 DEF BeginRelease
  <2>3. "release" \in AllOps /\ x \in Run /\ rs \ {x} \in SUBSET Run
    BY DEF AllOps
  <2> QED BY <2>1, <2>2, <2>3, FirstStatementOrders
<1>5. CASE BeginLog(t, r)
  <2>1. /\ tx[t] = NoTx /\ Open(t, "log", r, "run", {}) /\ UNCHANGED <<status, onChild, qlock, rlock>>
    BY <1>5 DEF BeginLog
  <2>2. "log" \in AllOps
    BY DEF AllOps
  <2> QED BY <2>1, <2>2, FirstStatementOrders
<1> QED BY <1>2, <1>3, <1>4, <1>5

LEMMA LockClaimsOrders ==
    ASSUME LockInv, OrderInv, NEW t \in Tx, LockClaims(t)
    PROVE  OrderInv'
<1> DEFINE me == tx[t]
<1> DEFINE mine == IF status[me.on] = "running" THEN Locked(qlock, t, me.on) ELSE qlock
<1> DEFINE held == {r \in Run : mine[r] = t}
<1>1. /\ me \in TxRec /\ me.at = "claims" /\ me.op = "release" /\ me.on \in Run
      /\ Ordered(t)
  BY Standing DEF LockClaims, Started, OrderInv
<1>2. /\ \A r \in Run : qlock'[r] = qlock[r] \/ (qlock[r] \in {Nobody, t} /\ qlock'[r] = t)
      /\ \A r \in Run : rlock'[r] = rlock[r] /\ rlock[r] # t
      /\ UNCHANGED <<status, onChild, rlock>>
  <2>1. status[me.on] = "running" => qlock[me.on] \in {Nobody, t}
    BY <1>1 DEF LockClaims, Blocked, Blocker, Queued, HasRow
  <2>2. qlock' = mine /\ UNCHANGED <<status, onChild, rlock>>
    BY DEF LockClaims
  <2>3. \A r \in Run : mine[r] = qlock[r] \/ (qlock[r] \in {Nobody, t} /\ mine[r] = t)
    BY <1>1, <2>1 DEF Locked, LockInv, Shapes
  <2> HIDE DEF mine
  <2> QED BY <1>1, <2>2, <2>3 DEF Ordered, Early, OnScan
<1>3. \A r \in Run : me.put[r] # "keep" /\ me.seen[r] = "waiting" =>
         me.put[r] = "ended" \/ (me.op = "resume" /\ r \notin onChild) \/ ChildHeld(t, r)'
  BY <1>1, <1>2 DEF Ordered, Moving, ChildHeld
<1> HIDE DEF mine
<1>4. CASE me.todo # {}
  <2> DEFINE r == CHOOSE r \in me.todo : TRUE
  <2> DEFINE m == [me EXCEPT !.on = r, !.todo = @ \ {r}]
  <2>1. tx' = [tx EXCEPT ![t] = m] /\ tx'[t] = m
    BY <1>4 DEF LockClaims, LockInv, Shapes
  <2>2. /\ m \in TxRec /\ m.op = "release" /\ m.at = "claims"
        /\ m.put = me.put /\ m.seen = me.seen
    BY <1>1, <1>4 DEF TxRec
  <2> HIDE DEF m
  <2>3. Early(t)'
    BY <1>2, <2>1, <2>2 DEF Early, OnScan
  <2>4. Settling(t)' /\ Waking(t)' /\ Stacked(t)'
    BY <2>1, <2>2 DEF Settling, Waking, Stacked, Scans, OnScan
  <2>5. Moving(t)'
    BY <1>1, <1>2, <1>3, <2>1, <2>2 DEF Moving
  <2>6. \A u \in Tx : u # t => tx[u].op # "release"
    BY <1>1 DEF OrderInv, OneHands
  <2> QED BY <1>2, <2>1, <2>2, <2>3, <2>4, <2>5, <2>6, StatementOrders DEF Ordered
<1>5. CASE me.todo = {}
  <2> DEFINE m == [me EXCEPT !.todo = held]
  <2>1. tx' = [tx EXCEPT ![t] = Onward(m)]
    BY <1>5 DEF LockClaims, mine
  <2>2. /\ m \in TxRec /\ m.op = "release" /\ m.put = me.put /\ m.seen = me.seen
    BY <1>1 DEF TxRec
  <2> HIDE DEF m, held
  <2>3. m.op \notin Blocking \cup {"log"}
    BY <2>2 DEF Blocking, Fenced
  <2>4. /\ m.op # "none" /\ m.op = me.op
        /\ m.op \in Blocking \cup {"log"} => m.todo = {}
    BY <1>1, <2>2, <2>3
  <2>5. \A r \in Run : m.put[r] # "keep" /\ m.seen[r] = "waiting" =>
          m.put[r] = "ended" \/ (m.op = "resume" /\ r \notin onChild) \/ ChildHeld(t, r)'
    BY <1>3, <2>2, <2>4
  <2> QED BY <1>2, <2>1, <2>2, <2>4, <2>5, OnwardOrders
<1> QED BY <1>4, <1>5

LEMMA LockQueueOrders ==
    ASSUME LockInv, OrderInv, NEW t \in Tx, LockQueue(t)
    PROVE  OrderInv'
<1> DEFINE me == tx[t]
<1> DEFINE has == HasRow(me.on)
<1> DEFINE m == [me EXCEPT !.found = has, !.at = "run"]
<1>1. /\ me \in TxRec /\ me.at = "queue" /\ me.on \in Run /\ me.op \in Blocking
      /\ Ordered(t)
  BY Standing DEF LockQueue, Started, OrderInv
<1>2. /\ \A r \in Run : qlock'[r] = qlock[r] \/ (qlock[r] \in {Nobody, t} /\ qlock'[r] = t)
      /\ \A r \in Run : rlock'[r] = rlock[r] /\ rlock[r] # t
      /\ has => qlock'[me.on] = t
      /\ UNCHANGED <<status, onChild, rlock>>
  <2>1. /\ qlock' = (IF HasRow(me.on) THEN Locked(qlock, t, me.on) ELSE qlock)
        /\ UNCHANGED <<status, onChild, rlock>>
        /\ HasRow(me.on) => qlock[me.on] \in {Nobody, t}
    BY <1>1 DEF LockQueue, Blocked, Blocker, Queued
  <2>2. \A r \in Run : rlock[r] # t
    BY <1>1 DEF Ordered, Early, OnScan
  <2> QED BY <1>1, <2>1, <2>2 DEF Locked, LockInv, Shapes
<1>3. tx' = [tx EXCEPT ![t] = m] /\ tx'[t] = m
  BY DEF LockQueue, LockInv, Shapes
<1>4. /\ m \in TxRec /\ m.op = me.op /\ m.at = "run" /\ m.on = me.on /\ m.found = has
      /\ m.put = me.put /\ m.seen = me.seen
  <2>1. has \in BOOLEAN
    BY DEF HasRow
  <2> HIDE DEF has
  <2> QED BY <1>1, <2>1 DEF TxRec, Point
<1> HIDE DEF m, has
<1>5. Early(t)'
  BY <1>1, <1>2, <1>3, <1>4 DEF Ordered, Early, OnScan
<1>6. Settling(t)' /\ Waking(t)'
  BY <1>3, <1>4 DEF Settling, Waking, OnScan
<1>7. Moving(t)'
  BY <1>1, <1>2, <1>3, <1>4 DEF Ordered, Moving, ChildHeld
<1>8. Stacked(t)'
  BY <1>1, <1>2, <1>3, <1>4 DEF Stacked, OnScan
<1>9. m.op # "release"
  BY <1>1, <1>4 DEF Blocking, Fenced
<1> QED BY <1>2, <1>3, <1>4, <1>5, <1>6, <1>7, <1>8, <1>9, StatementOrders DEF Ordered

LEMMA SkipRunOrders ==
    ASSUME LockInv, OrderInv, NEW t \in Tx, SkipRun(t)
    PROVE  OrderInv'
<1> DEFINE me == tx[t]
<1> DEFINE m == [me EXCEPT !.at = "commit"]
<1>1. me \in TxRec /\ me.op = "resume" /\ Ordered(t)
  BY Standing DEF SkipRun, OrderInv
<1>2. tx' = [tx EXCEPT ![t] = m] /\ tx'[t] = m /\ UNCHANGED <<status, onChild, qlock, rlock>>
  BY DEF SkipRun, LockInv, Shapes
<1>3. /\ m \in TxRec /\ m.op = "resume" /\ m.at = "commit"
      /\ m.put = me.put /\ m.seen = me.seen
  BY <1>1 DEF TxRec, Point
<1> HIDE DEF m
<1>4. Early(t)' /\ Settling(t)' /\ Waking(t)' /\ Stacked(t)'
  BY <1>2, <1>3 DEF Early, Settling, Waking, Stacked, Scans, OnScan
<1>5. Moving(t)'
  BY <1>1, <1>2, <1>3 DEF Ordered, Moving, ChildHeld
<1>6. \A r \in Run : qlock'[r] = qlock[r] /\ rlock'[r] = rlock[r]
  BY <1>2
<1> QED BY <1>2, <1>3, <1>4, <1>5, <1>6, StatementOrders DEF Ordered

LEMMA WakeQueueOrders ==
    ASSUME LockInv, OrderInv, NEW t \in Tx, WakeQueue(t)
    PROVE  OrderInv'
<1> DEFINE me == tx[t]
<1> DEFINE m == [me EXCEPT !.at = "wakeRun"]
<1>1. me \in TxRec /\ me.at = "wakeQueue" /\ me.on \in Run /\ Ordered(t)
  BY Standing DEF WakeQueue, OrderInv
<1>2. /\ \A r \in Run : qlock'[r] = qlock[r] \/ (qlock[r] \in {Nobody, t} /\ qlock'[r] = t)
      /\ \A r \in Run : rlock'[r] = rlock[r]
      /\ UNCHANGED <<status, onChild, rlock>>
  <2>1. /\ qlock' = (IF HasRow(me.on) THEN Locked(qlock, t, me.on) ELSE qlock)
        /\ UNCHANGED <<status, onChild, rlock>>
        /\ HasRow(me.on) => qlock[me.on] \in {Nobody, t}
    BY <1>1 DEF WakeQueue, Blocked, Blocker, Queued
  <2> QED BY <1>1, <2>1 DEF Locked, LockInv, Shapes
<1>3. tx' = [tx EXCEPT ![t] = m] /\ tx'[t] = m
  BY DEF WakeQueue, LockInv, Shapes
<1>4. /\ m \in TxRec /\ m.op = me.op /\ m.at = "wakeRun" /\ m.on = me.on
      /\ m.put = me.put /\ m.seen = me.seen
  BY <1>1 DEF TxRec, Point
<1> HIDE DEF m
<1>5. \A r : ChildHeld(t, r)' <=> ChildHeld(t, r)
  BY <1>2 DEF ChildHeld
<1>6. Early(t)' /\ Settling(t)'
  BY <1>3, <1>4 DEF Early, Settling, OnScan
<1>7. Waking(t)'
  BY <1>1, <1>2, <1>3, <1>4, <1>5 DEF Ordered, Waking
<1>8. Moving(t)'
  BY <1>1, <1>2, <1>3, <1>4, <1>5 DEF Ordered, Moving
<1>9. Stacked(t)'
  BY <1>1, <1>2, <1>3, <1>4, <1>5 DEF Ordered, Stacked, HasRow, OnScan
<1>10. m.op = "release" => \A u \in Tx : u # t => tx[u].op # "release"
  BY <1>4 DEF OrderInv, OneHands
<1> QED BY <1>2, <1>3, <1>4, <1>6, <1>7, <1>8, <1>9, <1>10, StatementOrders DEF Ordered

LEMMA DequeueOrders ==
    ASSUME LockInv, OrderInv, NEW t \in Tx, Dequeue(t)
    PROVE  OrderInv'
<1> DEFINE me == tx[t]
<1> DEFINE up == ParentOf[me.on]
<1> DEFINE m == [me EXCEPT !.on = up, !.at = "wakeQueue"]
<1>1. /\ me \in TxRec /\ me.at = "dequeue" /\ me.op # "none" /\ me.on \in Run
      /\ Started(me) /\ Ordered(t) /\ rlock[me.on] = t
  BY Standing DEF Dequeue, OrderInv, Ordered, Settling, OnScan
<1>2. /\ \A r \in Run : qlock'[r] = qlock[r] \/ (qlock[r] \in {Nobody, t} /\ qlock'[r] = t)
      /\ \A r \in Run : rlock'[r] = rlock[r]
      /\ HasRow(me.on) => qlock'[me.on] = t
      /\ UNCHANGED <<status, onChild, rlock>>
  <2>1. /\ qlock' = (IF HasRow(me.on) THEN Locked(qlock, t, me.on) ELSE qlock)
        /\ UNCHANGED <<status, onChild, rlock>>
        /\ HasRow(me.on) => qlock[me.on] \in {Nobody, t}
    BY <1>1 DEF Dequeue, Blocked, Blocker, Queued
  <2> QED BY <1>1, <2>1 DEF Locked, LockInv, Shapes
<1>3. \A r : ChildHeld(t, r)' <=> ChildHeld(t, r)
  BY <1>2 DEF ChildHeld
<1>4. \A r \in Run : me.put[r] # "keep" /\ me.seen[r] = "waiting" =>
         me.put[r] = "ended" \/ (me.op = "resume" /\ r \notin onChild) \/ ChildHeld(t, r)'
  BY <1>1, <1>3 DEF Ordered, Moving
\* A scan keeps the queue row of each run it has locked; an operation on one run
\* has locked that run alone.
<1>5. me.op \in Scans \cup {"release"} => \A r \in Run : rlock'[r] = t =>
         qlock'[r] = t \/ (~HasRow(r) /\ ChildHeld(t, r)')
  BY <1>1, <1>2, <1>3 DEF Ordered, Stacked, OnScan
<1>6. CASE me.put[me.on] = "ended" /\ up \in onChild
  <2>1. tx' = [tx EXCEPT ![t] = m] /\ tx'[t] = m
    BY <1>6 DEF Dequeue, LockInv, Shapes
  <2>2. up \in Run /\ status[up] = "waiting" /\ up \in onChild /\ ChildHeld(t, up)
    BY <1>1, <1>6 DEF LockInv, Shapes, OrderInv, Waits, ChildHeld
  <2> HIDE DEF up
  <2>3. /\ m \in TxRec /\ m.op = me.op /\ m.at = "wakeQueue" /\ m.on = up
        /\ m.put = me.put /\ m.seen = me.seen
    BY <1>1, <2>2 DEF TxRec, Point
  <2>4. up = ParentOf[me.on]
    BY DEF up
  <2> HIDE DEF m
  <2>5. Early(t)' /\ Settling(t)'
    BY <2>1, <2>3 DEF Early, Settling, OnScan
  <2>6. Waking(t)'
    BY <1>2, <1>3, <2>1, <2>2, <2>3 DEF Waking
  <2>7. Moving(t)'
    BY <1>2, <1>4, <2>1, <2>3 DEF Moving
  <2>8. Stacked(t)'
    <3>1. CASE me.op \in Scans \cup {"release"}
      BY <1>2, <1>5, <2>1, <2>3, <3>1 DEF Stacked, HasRow, OnScan
    <3>2. CASE me.op \notin Scans \cup {"release"}
      <4>1. \A r \in Run : rlock'[r] = t => r = me.on
        BY <1>1, <1>2, <3>2 DEF Ordered, Settling, OnScan
      <4> QED BY <1>2, <2>1, <2>3, <2>4, <3>2, <4>1 DEF Stacked, HasRow, OnScan
    <3> QED BY <3>1, <3>2
  <2>9. m.op = "release" => \A u \in Tx : u # t => tx[u].op # "release"
    BY <2>3 DEF OrderInv, OneHands
  <2> QED BY <1>2, <2>1, <2>3, <2>5, <2>6, <2>7, <2>8, <2>9, StatementOrders DEF Ordered
<1>7. CASE ~(me.put[me.on] = "ended" /\ up \in onChild)
  <2>1. tx' = [tx EXCEPT ![t] = Onward(me)]
    BY <1>7 DEF Dequeue
  <2>2. me.op \in Blocking \cup {"log"} => me.todo = {}
    BY <1>1 DEF Started
  <2> HIDE DEF up
  <2> QED BY <1>1, <1>2, <1>4, <1>5, <2>1, <2>2, OnwardOrders
<1> QED BY <1>6, <1>7

LEMMA EnqueueOrders ==
    ASSUME LockInv, OrderInv, NEW t \in Tx, Enqueue(t)
    PROVE  OrderInv'
<1> DEFINE me == tx[t]
<1>1. /\ me \in TxRec /\ me.at = "enqueue" /\ me.op # "none" /\ Started(me) /\ Ordered(t)
  BY Standing DEF Enqueue, OrderInv
<1>2. tx' = [tx EXCEPT ![t] = Onward(me)] /\ UNCHANGED <<status, onChild, qlock, rlock>>
  BY DEF Enqueue
<1>3. \A r : ChildHeld(t, r)' <=> ChildHeld(t, r)
  BY <1>2 DEF ChildHeld
<1>4. \A r \in Run : me.put[r] # "keep" /\ me.seen[r] = "waiting" =>
         me.put[r] = "ended" \/ (me.op = "resume" /\ r \notin onChild) \/ ChildHeld(t, r)'
  BY <1>1, <1>3 DEF Ordered, Moving
<1>5. me.op \in Scans \cup {"release"} => \A r \in Run : rlock'[r] = t =>
         qlock'[r] = t \/ (~HasRow(r) /\ ChildHeld(t, r)')
  BY <1>1, <1>2, <1>3 DEF Ordered, Stacked, OnScan
<1>6. me.op \in Blocking \cup {"log"} => me.todo = {}
  BY <1>1 DEF Started
<1>7. \A r \in Run : qlock'[r] = qlock[r] /\ rlock'[r] = rlock[r]
  BY <1>2
<1> QED BY <1>1, <1>2, <1>4, <1>5, <1>6, <1>7, OnwardOrders

LEMMA WakeRunOrders ==
    ASSUME LockInv, OrderInv, NEW t \in Tx, WakeRun(t)
    PROVE  OrderInv'
<1> DEFINE me == tx[t]
<1> DEFINE m == [me EXCEPT !.seen[me.on] = "waiting", !.put[me.on] = "queued", !.at = "enqueue"]
<1>1. /\ me \in TxRec /\ me.at = "wakeRun" /\ me.op # "none" /\ me.on \in Run
      /\ Started(me) /\ Ordered(t)
  BY Standing DEF WakeRun, OrderInv
<1>2. /\ \A r \in Run : rlock'[r] = rlock[r] \/ (rlock[r] \in {Nobody, t} /\ rlock'[r] = t)
      /\ \A r \in Run : r # me.on => rlock'[r] = rlock[r]
      /\ \A r \in Run : qlock'[r] = qlock[r]
      /\ UNCHANGED <<status, onChild, qlock>>
  <2>1. /\ rlock' = Locked(rlock, t, me.on) /\ rlock[me.on] \in {Nobody, t}
        /\ UNCHANGED <<status, onChild, qlock>>
    BY <1>1 DEF WakeRun, Blocked, Blocker, Queued
  <2> QED BY <1>1, <2>1 DEF Locked, LockInv, Shapes
<1>3. \A r : ChildHeld(t, r) => ChildHeld(t, r)'
  BY <1>2 DEF ChildHeld
<1>4. ~HasRow(me.on) /\ \A r : r = me.on => ChildHeld(t, r)'
  BY <1>1, <1>3 DEF Ordered, Waking, HasRow
<1>5. \A r \in Run : me.put[r] # "keep" /\ me.seen[r] = "waiting" =>
         me.put[r] = "ended" \/ (me.op = "resume" /\ r \notin onChild) \/ ChildHeld(t, r)'
  BY <1>1, <1>3 DEF Ordered, Moving
<1>6. OnScan(t) => \A r \in Run : rlock'[r] = t =>
         qlock'[r] = t \/ (~HasRow(r) /\ ChildHeld(t, r)')
  <2> SUFFICES ASSUME OnScan(t), NEW r \in Run, rlock'[r] = t
               PROVE  qlock'[r] = t \/ (~HasRow(r) /\ ChildHeld(t, r)')
    OBVIOUS
  <2>1. CASE r = me.on
    BY <1>4, <2>1
  <2>2. CASE r # me.on
    BY <1>1, <1>2, <1>3, <2>2 DEF Ordered, Stacked
  <2> QED BY <2>1, <2>2
<1>7. CASE me.on \in onChild /\ status[me.on] = "waiting"
  <2>1. tx' = [tx EXCEPT ![t] = m] /\ tx'[t] = m
    BY <1>7 DEF WakeRun, LockInv, Shapes
  <2> DEFINE did == Decided(me, "waiting", "queued")
  <2>2. /\ did \in TxRec /\ did.op = me.op /\ did.on = me.on
        /\ did.put[me.on] = "queued" /\ did.seen[me.on] = "waiting"
        /\ \A r \in Run \ {me.on} : did.put[r] = me.put[r] /\ did.seen[r] = me.seen[r]
    <3>1. "waiting" \in Status /\ "queued" \in Status
      BY DEF Status
    <3> QED BY <1>1, <3>1, DecidedIs
  <2>3. m = [did EXCEPT !.at = "enqueue"]
    BY <1>1 DEF Decided, TxRec
  <2> HIDE DEF did, m
  <2>4. /\ m \in TxRec /\ m.op = me.op /\ m.on = me.on
        /\ m.at = "enqueue" /\ m.put[me.on] = "queued" /\ m.seen[me.on] = "waiting"
        /\ \A r \in Run \ {me.on} : m.put[r] = me.put[r] /\ m.seen[r] = me.seen[r]
    BY <2>2, <2>3 DEF TxRec, Point
  <2>5. Early(t)' /\ Settling(t)' /\ Waking(t)'
    BY <2>1, <2>4 DEF Early, Settling, Waking
  <2>6. Moving(t)'
    BY <1>2, <1>4, <1>5, <2>1, <2>4 DEF Moving
  <2>7. Stacked(t)'
    BY <1>2, <1>6, <2>1, <2>4 DEF Stacked, OnScan, HasRow
  <2>8. m.op = "release" => \A u \in Tx : u # t => tx[u].op # "release"
    BY <2>4 DEF OrderInv, OneHands
  <2> QED BY <1>2, <2>1, <2>4, <2>5, <2>6, <2>7, <2>8, StatementOrders DEF Ordered
<1>8. CASE ~(me.on \in onChild /\ status[me.on] = "waiting")
  <2>1. tx' = [tx EXCEPT ![t] = Onward(me)]
    BY <1>8 DEF WakeRun
  <2>2. me.op \in Blocking \cup {"log"} => me.todo = {}
    BY <1>1 DEF Started
  <2>3. me.op \in Scans \cup {"release"} => OnScan(t)
    BY DEF OnScan
  <2> QED BY <1>1, <1>2, <1>5, <1>6, <2>1, <2>2, <2>3, OnwardOrders
<1> QED BY <1>7, <1>8

\* The outcomes of a run that waits, and who takes a run off the queue.
LEMMA OutcomesOf ==
    ASSUME NEW me \in TxRec, NEW st \in Outcomes(me)
    PROVE  /\ st # "keep"
           /\ status[me.on] = "waiting" => st = "ended" \/ me.op = "resume"
           /\ \/ me.op \in Fenced /\ me.found
              \/ me.op \in {"cancel", "resume"} \cup Scans \cup {"release"}
<1>1. me.op \in Blocking \cup Scans \cup {"release", "log", "none"}
  BY DEF TxRec, AllOps
<1>2. CASE me.op = "cancel"
  <2>1. Outcomes(me) = IF status[me.on] = "ended" THEN {} ELSE {"ended"}
    BY <1>2 DEF Outcomes
  <2> QED BY <1>2, <2>1
<1>3. CASE me.op \in Fenced
  <2>1. st \in (IF status[me.on] = "running" /\ me.found THEN {"ended", "waiting", "queued"} ELSE {})
    BY <1>3 DEF Outcomes, Fenced
  <2> QED BY <1>3, <2>1
<1>4. CASE me.op = "resume"
  BY <1>4 DEF Outcomes
<1>5. CASE me.op \in Scans \cup {"release"}
  BY <1>5 DEF Outcomes, Scans
<1>6. CASE me.op = "log" \/ me.op = "none"
  BY <1>6 DEF Outcomes
<1> QED BY <1>1, <1>2, <1>3, <1>4, <1>5, <1>6 DEF Blocking

LEMMA LockRunOrders ==
    ASSUME LockInv, OrderInv, NEW t \in Tx, LockRun(t)
    PROVE  OrderInv'
<1> DEFINE me == tx[t]
<1>1. /\ me \in TxRec /\ me.at = "run" /\ me.op # "none" /\ me.on \in Run
      /\ Started(me) /\ Prepared(t) /\ Ordered(t)
  BY Standing DEF LockRun, OrderInv
<1>2. /\ \A r \in Run : rlock'[r] = rlock[r] \/ (rlock[r] \in {Nobody, t} /\ rlock'[r] = t)
      /\ \A r \in Run : r # me.on => rlock'[r] = rlock[r]
      /\ rlock'[me.on] = t
      /\ \A r \in Run : qlock'[r] = qlock[r]
      /\ UNCHANGED <<status, onChild, qlock>>
  <2>1. /\ rlock' = Locked(rlock, t, me.on) /\ rlock[me.on] \in {Nobody, t}
        /\ UNCHANGED <<status, onChild, qlock>>
    BY <1>1 DEF LockRun, Blocked, Blocker, Queued
  <2> QED BY <1>1, <2>1 DEF Locked, LockInv, Shapes
<1>3. \A r : ChildHeld(t, r) => ChildHeld(t, r)'
  BY <1>2 DEF ChildHeld
<1>4. \A r \in Run : me.put[r] # "keep" /\ me.seen[r] = "waiting" =>
         me.put[r] = "ended" \/ (me.op = "resume" /\ r \notin onChild) \/ ChildHeld(t, r)'
  BY <1>1, <1>3 DEF Ordered, Moving
<1>5. OnScan(t) => \A r \in Run : rlock'[r] = t =>
         qlock'[r] = t \/ (~HasRow(r) /\ ChildHeld(t, r)')
  <2> SUFFICES ASSUME OnScan(t), NEW r \in Run, rlock'[r] = t
               PROVE  qlock'[r] = t \/ (~HasRow(r) /\ ChildHeld(t, r)')
    OBVIOUS
  <2>1. CASE r = me.on
    BY <1>1, <1>2, <2>1 DEF Prepared, OnScan
  <2>2. CASE r # me.on
    BY <1>1, <1>2, <1>3, <2>2 DEF Ordered, Stacked
  <2> QED BY <2>1, <2>2
<1>6. me.op \in Scans \cup {"release"} => OnScan(t)
  BY DEF OnScan
<1>7. me.op \in Blocking \cup {"log"} => me.todo = {}
  BY <1>1 DEF Started
<1>8. CASE tx' = [tx EXCEPT ![t] = Onward(me)]
  BY <1>1, <1>2, <1>4, <1>5, <1>6, <1>7, <1>8, OnwardOrders
<1>9. ASSUME NEW st \in Outcomes(me),
             tx' = [tx EXCEPT ![t] =
                 LET did == [me EXCEPT !.seen[me.on] = status[me.on], !.put[me.on] = st] IN
                 CASE st \in {"ended", "waiting"} -> [did EXCEPT !.at = "dequeue"]
                   [] me.op = "resume"            -> [did EXCEPT !.at = "enqueue"]
                   [] OTHER                       -> Onward(did)]
      PROVE  OrderInv'
  <2> DEFINE did == Decided(me, status[me.on], st)
  <2>1. /\ st \in Status /\ st # "keep" /\ status[me.on] \in Status
        /\ me.op = "resume" => status[me.on] = "waiting" /\ st = "queued"
        /\ status[me.on] = "waiting" => st = "ended" \/ me.op = "resume"
        /\ \/ me.op \in Fenced /\ me.found
           \/ me.op \in {"cancel", "resume"} \cup Scans \cup {"release"}
    BY <1>1, OutcomesAre, OutcomesOf DEF LockInv, Shapes
  <2>2. /\ did \in TxRec /\ did.op = me.op /\ did.on = me.on /\ did.todo = me.todo
        /\ did.found = me.found
        /\ did.seen[me.on] = status[me.on] /\ did.put[me.on] = st
        /\ \A r \in Run \ {me.on} : did.put[r] = me.put[r] /\ did.seen[r] = me.seen[r]
    BY <1>1, <2>1, DecidedIs
  <2>3. tx' = [tx EXCEPT ![t] =
                 CASE st \in {"ended", "waiting"} -> [did EXCEPT !.at = "dequeue"]
                   [] me.op = "resume"            -> [did EXCEPT !.at = "enqueue"]
                   [] OTHER                       -> Onward(did)]
    BY <1>9 DEF Decided
  <2> HIDE DEF did
  \* What it has decided of a run that waits.
  <2>4. \A r \in Run : did.put[r] # "keep" /\ did.seen[r] = "waiting" =>
           did.put[r] = "ended" \/ (did.op = "resume" /\ r \notin onChild) \/ ChildHeld(t, r)'
    <3> SUFFICES ASSUME NEW r \in Run, did.put[r] # "keep", did.seen[r] = "waiting"
                 PROVE  \/ did.put[r] = "ended"
                        \/ did.op = "resume" /\ r \notin onChild
                        \/ ChildHeld(t, r)'
      OBVIOUS
    <3>1. CASE r = me.on
      BY <1>1, <2>1, <2>2, <3>1 DEF Ordered, Early
    <3>2. CASE r # me.on
      BY <1>4, <2>2, <3>2
    <3> QED BY <3>1, <3>2
  <2>5. ASSUME NEW at \in {"dequeue", "enqueue"}, tx' = [tx EXCEPT ![t] = [did EXCEPT !.at = at]],
               at = "enqueue" => status[me.on] = "waiting",
               at = "dequeue" => me.op # "resume"
        PROVE  OrderInv'
    <3> DEFINE m == [did EXCEPT !.at = at]
    <3>1. tx' = [tx EXCEPT ![t] = m] /\ tx'[t] = m
      BY <2>5 DEF LockInv, Shapes
    <3>2. /\ m \in TxRec /\ m.op = me.op /\ m.on = me.on /\ m.at = at /\ m.found = me.found
          /\ m.put = did.put /\ m.seen = did.seen
      BY <2>2 DEF TxRec, Point
    <3> HIDE DEF m
    <3>3. Early(t)' /\ Waking(t)'
      BY <3>1, <3>2 DEF Early, Waking
    <3>4. Settling(t)'
      <4>1. ~OnScan(t) => \A r \in Run : rlock'[r] = t => r = me.on
        BY <1>1, <1>2 DEF Ordered, Early
      <4>2. at = "dequeue" => qlock'[me.on] = t \/ (me.op = "cancel" /\ ~me.found)
        BY <1>1, <1>2, <2>1, <2>5 DEF Prepared, Ordered, Early
      <4> QED BY <1>2, <2>1, <2>2, <2>5, <3>1, <3>2, <4>1, <4>2 DEF Settling, OnScan
    <3>5. Moving(t)'
      BY <1>2, <2>2, <2>4, <3>1, <3>2 DEF Moving
    <3>6. Stacked(t)'
      BY <1>2, <1>5, <3>1, <3>2 DEF Stacked, OnScan, HasRow
    <3>7. m.op = "release" => \A u \in Tx : u # t => tx[u].op # "release"
      BY <3>2 DEF OrderInv, OneHands
    <3> QED BY <1>2, <3>1, <3>2, <3>3, <3>4, <3>5, <3>6, <3>7, StatementOrders DEF Ordered
  <2>6. CASE st \notin {"ended", "waiting"} /\ me.op # "resume"
    <3>1. tx' = [tx EXCEPT ![t] = Onward(did)]
      BY <2>3, <2>6
    <3>2. /\ did \in TxRec /\ did.op = me.op /\ did.op # "none"
          /\ did.op \in Blocking \cup {"log"} => did.todo = {}
      BY <1>1, <1>7, <2>2
    <3>4. did.op \in Scans \cup {"release"} => \A r \in Run : rlock'[r] = t =>
             qlock'[r] = t \/ (~HasRow(r) /\ ChildHeld(t, r)')
      BY <1>5, <1>6, <2>2
    <3>3. \A r \in Run : qlock'[r] = qlock[r] \/ (qlock[r] \in {Nobody, t} /\ qlock'[r] = t)
      BY <1>2
    <3> QED BY <1>2, <2>4, <3>1, <3>2, <3>3, <3>4, OnwardOrders
  <2>7. CASE st \in {"ended", "waiting"}
    <3>1. tx' = [tx EXCEPT ![t] = [did EXCEPT !.at = "dequeue"]]
      BY <2>1, <2>3, <2>7
    <3> QED BY <2>1, <2>5, <2>7, <3>1
  <2>8. CASE st \notin {"ended", "waiting"} /\ me.op = "resume"
    <3>1. tx' = [tx EXCEPT ![t] = [did EXCEPT !.at = "enqueue"]]
      BY <2>3, <2>8
    <3> QED BY <2>1, <2>5, <2>8, <3>1
  <2> QED BY <2>6, <2>7, <2>8
<1> QED BY <1>8, <1>9 DEF LockRun

LEMMA EndOrders ==
    ASSUME LockInv, OrderInv, NEW t \in Tx, Commit(t) \/ Rollback(t)
    PROVE  OrderInv'
<1>1. CASE Commit(t)
  <2>1. /\ Close(t)
        /\ \A r \in Run : status'[r] = (IF tx[t].put[r] = "keep" THEN status[r] ELSE tx[t].put[r])
        /\ onChild' = {r \in onChild : tx[t].put[r] = "keep"}
    BY <1>1 DEF Commit
  <2> QED BY <2>1, CloseOrders
<1>2. CASE Rollback(t)
  <2>1. Close(t) /\ status' = status /\ onChild' = onChild
    BY <1>2 DEF Rollback
  <2> QED BY <2>1, CloseOrders
<1> QED BY <1>1, <1>2

LEMMA OrderStep == LockInv /\ OrderInv /\ [Next]_vars => OrderInv'
<1> SUFFICES ASSUME LockInv, OrderInv, [Next]_vars PROVE OrderInv'
  OBVIOUS
<1>1. CASE UNCHANGED vars
  BY <1>1 DEF vars, OrderInv, Waits, OneHands, Ordered, Early, Settling, Waking, Moving, Stacked,
              OnScan, ChildHeld, HasRow
<1>2. ASSUME NEW t \in Tx, NEW op \in Ops, NEW r \in Run, Begin(t, op, r) PROVE OrderInv'
  BY <1>2, OpenOrders
<1>3. ASSUME NEW t \in Tx, NEW op \in Ops, Scan(t, op) PROVE OrderInv'
  <2>1. \E r : r \in Run
    BY <1>3 DEF Scan, Candidates
  <2> QED BY <1>3, <2>1, OpenOrders
<1>4. ASSUME NEW t \in Tx, NEW rs \in SUBSET Run, BeginRelease(t, rs) PROVE OrderInv'
  <2>1. "release" \in Ops /\ \E r \in Run : r \in rs
    BY <1>4 DEF BeginRelease
  <2> QED BY <1>4, <2>1, OpenOrders
<1>5. ASSUME NEW t \in Tx, NEW r \in Run, BeginLog(t, r) PROVE OrderInv'
  <2>1. "log" \in Ops
    BY <1>5 DEF BeginLog
  <2> QED BY <1>5, <2>1, OpenOrders
<1>6. ASSUME NEW t \in Tx, Step(t) PROVE OrderInv'
  BY <1>6, LockClaimsOrders, LockQueueOrders, LockRunOrders, SkipRunOrders, DequeueOrders,
     WakeQueueOrders, WakeRunOrders, EnqueueOrders, EndOrders DEF Step
<1>7. ASSUME NEW t \in Tx, Rollback(t) PROVE OrderInv'
  BY <1>7, EndOrders
<1> QED BY <1>1, <1>2, <1>3, <1>4, <1>5, <1>6, <1>7 DEF Next

----------------------------------------------------------------------------
\* No circle

LateCancel(t) == tx[t].op = "cancel" /\ ~tx[t].found /\ tx[t].at = "dequeue"

\* Where a transaction can wait at all.
LEMMA WaitsWhere ==
    ASSUME LockInv, OrderInv, NEW t \in Tx, Blocked(t), ~LateCancel(t)
    PROVE  /\ tx[t].on \in Run /\ Blocker(t) # t
           /\ \/ tx[t].at \in {"queue", "claims"} /\ Blocker(t) = qlock[tx[t].on]
              \/ tx[t].at \in {"run", "wakeRun"} /\ Blocker(t) = rlock[tx[t].on]
<1>1. tx[t].at \in {"claims", "queue", "dequeue", "wakeQueue", "enqueue", "run", "wakeRun"}
      /\ Blocker(t) \notin {Nobody, t}
  BY DEF Blocked, Blocker, Queued
<1>2. tx[t].on \in Run /\ Ordered(t) /\ Covered(t)
  BY <1>1, Standing DEF OrderInv
<1>3. CASE tx[t].at \in {"run", "wakeRun"}
  BY <1>1, <1>2, <1>3 DEF Blocker, Queued
<1>4. CASE tx[t].at \notin {"run", "wakeRun"}
  <2>1. HasRow(tx[t].on) /\ Blocker(t) = qlock[tx[t].on]
    BY <1>1, <1>4 DEF Blocker, Queued
  <2>2. tx[t].at # "dequeue"
    BY <1>1, <1>2, <2>1 DEF Ordered, Settling, LateCancel
  <2>3. tx[t].at # "wakeQueue"
    BY <1>2, <2>1 DEF Ordered, Waking, HasRow
  <2>4. tx[t].at # "enqueue"
    BY <1>2, <2>1 DEF Ordered, Settling, Covered, HasRow
  <2> QED BY <1>1, <1>2, <1>4, <2>1, <2>2, <2>3, <2>4
<1> QED BY <1>3, <1>4

LEMMA NoCircle == LockInv /\ OrderInv => OnlyLateCancelDeadlocks
<1> SUFFICES ASSUME LockInv, OrderInv, NEW ts \in SUBSET Tx, Stuck(ts),
                    \A t \in ts : ~LateCancel(t)
             PROVE  FALSE
  BY DEF OnlyLateCancelDeadlocks, LateCancel
<1>1. \A t \in ts : /\ tx[t].on \in Run /\ Blocker(t) \in ts /\ Blocker(t) # t
                    /\ \/ tx[t].at \in {"queue", "claims"} /\ Blocker(t) = qlock[tx[t].on]
                       \/ tx[t].at \in {"run", "wakeRun"} /\ Blocker(t) = rlock[tx[t].on]
  BY WaitsWhere DEF Stuck
<1>2. \A t \in ts : Ordered(t) /\ Started(tx[t]) /\ Prepared(t) /\ tx[t] \in TxRec
  BY DEF LockInv, Shapes, OrderInv
\* Who is waited for at a runs row has one, and so waits at a parent's, unless it is
\* a scan at the row of a run whose queue row it holds; but then so does its blocker.
<1>3. ASSUME NEW t \in ts, tx[t].at \in {"run", "wakeRun"}
      PROVE  /\ Blocker(t) \in ts /\ rlock[tx[t].on] = Blocker(t) /\ Blocker(t) # t
             /\ Stacked(Blocker(t))
             /\ tx[Blocker(t)].at = "wakeRun"
                \/ (tx[Blocker(t)].at = "run" /\ OnScan(Blocker(t)))
  <2>1. PICK u \in ts : u = Blocker(t) /\ u # t /\ rlock[tx[t].on] = u
    BY <1>1, <1>3
  <2>2. tx[u].at \notin {"queue", "claims"}
    BY <1>1, <1>2, <2>1 DEF Ordered, Early
  <2>3. tx[u].at = "run" => OnScan(u)
    BY <1>1, <1>2, <2>1 DEF Ordered, Early
  <2> QED BY <1>1, <1>2, <2>1, <2>2, <2>3 DEF Ordered
<1>4. ASSUME NEW t \in ts PROVE ~(tx[t].at = "run" /\ OnScan(t))
  <2> SUFFICES ASSUME tx[t].at = "run", OnScan(t) PROVE FALSE
    OBVIOUS
  <2>1. PICK r \in Run : r = tx[t].on
    BY <1>1
  <2>2. qlock[r] = t /\ HasRow(r)
    <3>1. qlock[r] = t
      BY <1>2, <2>1 DEF Prepared, OnScan
    <3> QED BY <3>1, LockAssumption DEF LockInv, Held
  <2>3. PICK u \in ts : u # t /\ rlock[r] = u /\ Stacked(u)
                        /\ (tx[u].at = "wakeRun" \/ (tx[u].at = "run" /\ OnScan(u)))
    BY <1>3, <2>1
  <2> QED BY <2>2, <2>3 DEF Stacked
<1>5. ASSUME NEW t \in ts, tx[t].at \in {"run", "wakeRun"}
      PROVE  \E u \in ts : u # t /\ rlock[tx[t].on] = u /\ tx[u].at = "wakeRun" /\ Stacked(u)
  BY <1>3, <1>4, <1>5
\* A parent's row is held by whoever goes on from that parent to its own.
<1>6. ASSUME NEW t \in ts, tx[t].at = "wakeRun"
      PROVE  \E u \in ts : tx[u].at = "wakeRun" /\ ParentOf[tx[t].on] = tx[u].on
  <2>1. PICK u \in ts : u # t /\ rlock[tx[t].on] = u /\ tx[u].at = "wakeRun" /\ Stacked(u)
    BY <1>5, <1>6
  <2>2. PICK r \in Run : r = tx[t].on
    BY <1>1
  <2>3. ChildHeld(t, r) /\ ~HasRow(r)
    BY <1>2, <1>6, <2>2 DEF Ordered, Waking, HasRow
  <2>4. qlock[r] # u
    BY <2>1, <2>3, LockAssumption DEF LockInv, Held
  <2>5. ~ChildHeld(u, r)
    <3> SUFFICES ASSUME ChildHeld(u, r) PROVE FALSE
      OBVIOUS
    <3>1. PICK c \in Run : ParentOf[c] = r /\ rlock[c] = u
      BY DEF ChildHeld
    <3>2. PICK d \in Run : ParentOf[d] = r /\ rlock[d] = t
      BY <2>3 DEF ChildHeld
    <3> QED BY <2>1, <3>1, <3>2, FamilyAssumption, LockAssumption
  <2> QED BY <2>1, <2>2, <2>4, <2>5 DEF Stacked
\* That chain does not end, and lineage does.
<1>7. \A t \in ts : tx[t].at # "wakeRun"
  <2> DEFINE rs == {r \in Run : \E t \in ts : tx[t].at = "wakeRun" /\ tx[t].on = r}
  <2>1. \A c \in rs : ParentOf[c] \in rs
    BY <1>1, <1>6
  <2>2. rs = {}
    <3> HIDE DEF rs
    <3>1. rs \in SUBSET Run
      BY DEF rs
    <3> QED BY <2>1, <3>1, FamilyAssumption
  <2> QED BY <1>1, <2>2
\* What is left waits for queue rows, and only a hand-back has one then.
<1>8. \A t \in ts : tx[t].at \in {"queue", "claims"} /\ Blocker(t) = qlock[tx[t].on]
  BY <1>1, <1>5, <1>7
<1>9. ASSUME NEW t \in ts PROVE tx[Blocker(t)].op = "release"
  <2>1. PICK u \in ts : u = Blocker(t) /\ qlock[tx[t].on] = u /\ tx[t].on \in Run
    BY <1>1, <1>8
  <2>2. tx[u].at # "queue"
    BY <1>2, <2>1 DEF Ordered, Early
  <2> QED BY <1>2, <1>8, <2>1, <2>2 DEF Started
<1>10. PICK t \in ts : TRUE
  BY DEF Stuck
<1>11. PICK u \in ts : tx[u].op = "release"
  BY <1>1, <1>9, <1>10
<1>12. PICK v \in ts : v # u /\ tx[v].op = "release"
  BY <1>1, <1>9, <1>11
<1> QED BY <1>11, <1>12 DEF OrderInv, OneHands

LEMMA OrderInvariant == Spec => [](LockInv /\ OrderInv)
<1>1. Init => LockInv /\ OrderInv
  BY InitLocks, OrderInit
<1>2. LockInv /\ OrderInv /\ [Next]_vars => (LockInv /\ OrderInv)'
  BY LockStep, OrderStep
<1> QED BY <1>1, <1>2, PTL DEF Spec

\* Kernel transactions in any number, over any runs that wait for their children, wait
\* for each other in a circle only with a late cancel among them (runs-internal.ts,
\* lock order; runs-terminal.ts cancelRun).
THEOREM LockOrderHolds == Spec => []OnlyLateCancelDeadlocks
  BY OrderInvariant, NoCircle, PTL

----------------------------------------------------------------------------
\* Creation: for any callers, batches and operation keys one key names one run, and
\* only batches out of order deadlock.

CallShape(c) ==
    /\ DOMAIN call[c] = {"at", "items", "got", "new"}
    /\ call[c].at \in {"idle", "insert", "lock", "decide", "record", "ready"}
    /\ call[c].at = "insert" => call[c].items \in Batches
    /\ call[c].at \in {"lock", "decide", "record"} =>
          \E o \in Operation \cup {Keyless} : call[c].items = <<o>>

CreShapes ==
    /\ source \in Creator \cup {Nothing, Gone}
    /\ DOMAIN call = Creator
    /\ index = [k \in Kept |-> index[k]] /\ pending = [k \in Kept |-> pending[k]]
    /\ tries \in [Creator -> Nat]
    /\ \A k \in Kept : pending[k] \in Creator \cup {Nothing}
    /\ DOMAIN created = {"live", "ended", "gone"}
    /\ \A c \in Creator : CallShape(c)

\* The rows of a transaction that inserts: taken in order, and the new ones pending.
Inserting(c) ==
    /\ call[c].new \subseteq call[c].got /\ call[c].got \subseteq Items(c)
    /\ \A i \in call[c].got : \A j \in 1 .. (i - 1) : j \in call[c].got
    /\ \A i \in call[c].new : KeyOf(c, i) # Keyless => pending[KeyOf(c, i)] = c
    /\ \A k \in Kept : pending[k] = c => \E i \in call[c].new : KeyOf(c, i) = k
    /\ \A i, j \in call[c].new : KeyOf(c, i) = KeyOf(c, j) /\ KeyOf(c, i) # Keyless => i = j

\* What a transaction is about to answer.
Telling(c, p) ==
    p[1] # Keyless =>
        /\ p[1] \in Kept /\ p[2] # Nothing
        /\ p[1] \in Operation => source = c
        /\ IF pending[p[1]] = c
           THEN \A q \in ToSet(call[c].items) : q[1] = p[1] => q[2] = p[2]
           ELSE index[p[1]] = p[2] \/ p[2] \in created.gone

Calling(c) ==
    /\ call[c].at = "insert" => Inserting(c)
    /\ call[c].at = "ready" => \A p \in ToSet(call[c].items) : Telling(c, p)
    /\ call[c].at \in {"decide", "record"} => source = c
    /\ call[c].at \notin {"insert", "ready"} => \A k \in Kept : pending[k] # c
    /\ call[c].at = "record" /\ KeyOf(c, 1) # Keyless => index[KeyOf(c, 1)] = Nothing

\* An uncommitted row has no committed one beside it, and one of an operation is of
\* whoever holds the source.
Rows ==
    \A k \in Kept :
        /\ pending[k] # Nothing => index[k] = Nothing
        /\ pending[k] # Nothing /\ k \in Operation => source = pending[k]

\* What was told is so still, unless retention took it.
Told(a) ==
    /\ a[1] \in Kept /\ a[2] # Nothing
    /\ index[a[1]] = a[2] \/ a[2] \in created.gone \/ (a[1] \in Operation /\ source = Gone)
Agree(a, b) == a[1] = b[1] /\ a[2] # b[2] => {a[2], b[2]} \cap created.gone # {}
Answering == /\ \A a \in answers : Told(a)
             /\ \A a, b \in answers : Agree(a, b)

CreInv == CreShapes /\ (\A c \in Creator : Calling(c)) /\ Rows /\ Answering

LEMMA CreInvInit == CreInit => CreInv
<1> SUFFICES ASSUME CreInit PROVE CreInv
  OBVIOUS
<1> USE DEF CreInit
<1>1. CreShapes
  BY DEF CreShapes, CallShape, Idle
<1>2. \A c \in Creator : Calling(c)
  BY CreationAssumption DEF Calling, Idle
<1>3. Rows /\ Answering
  BY DEF Rows, Answering
<1> QED
  BY <1>1, <1>2, <1>3 DEF CreInv

----------------------------------------------------------------------------
\* Keys: what a request names is a key of a batch, an operation, or nothing.
LEMMA KeyIsKept ==
    ASSUME CreInv, NEW c \in Creator, call[c].at = "insert", NEW i \in Items(c),
           KeyOf(c, i) # Keyless
    PROVE  KeyOf(c, i) \in Key /\ KeyOf(c, i) \in Kept /\ KeyOf(c, i) \notin Operation
                /\ KeyOf(c, i) \in Nat
<1>1. call[c].items \in Batches /\ call[c].items \in Seq(Nat \cup {Keyless})
  BY CreationAssumption DEF CreInv, CreShapes, CallShape
<1>2. KeyOf(c, i) \in ToSet(call[c].items)
  BY DEF ToSet, KeyOf, Items
<1>3. KeyOf(c, i) \in Nat \cup {Keyless}
  BY <1>1 DEF KeyOf, Items
<1> QED
  BY <1>1, <1>2, <1>3, CreationAssumption DEF Key, Kept

LEMMA OperationIsKept ==
    ASSUME CreInv, NEW c \in Creator, call[c].at \in {"lock", "decide", "record"}
    PROVE  KeyOf(c, 1) # Keyless => KeyOf(c, 1) \in Operation /\ KeyOf(c, 1) \in Kept
<1>1. PICK o \in Operation \cup {Keyless} : call[c].items = <<o>>
  BY DEF CreInv, CreShapes, CallShape
<1> QED
  BY <1>1 DEF KeyOf, Kept

\* What a caller's transaction becomes, and nobody else's.
LEMMA Becomes ==
    ASSUME CreShapes, NEW c \in Creator, NEW fields, Become(c, fields)
    PROVE  /\ call'[c] = fields /\ DOMAIN call' = Creator
           /\ \A d \in Creator \ {c} : call'[d] = call[d]
  BY DEF CreShapes, Become

\* A step of one caller leaves the others' transactions as they were.
LEMMA OtherCallersKeep ==
    ASSUME CreInv, NEW c \in Creator \cup {Gone},
           \A d \in Creator \ {c} : call'[d] = call[d] /\ (source = d => source' = d),
           \A k \in Kept : \A d \in Creator \ {c} : pending'[k] = d <=> pending[k] = d,
           \A k \in Kept : index'[k] # index[k] => pending[k] = c \/ index[k] \in created'.gone
                              \/ (k \in Operation /\ source = Nothing /\ index'[k] = Nothing),
           \A k \in Kept : index'[k] # index[k] => index'[k] = Nothing \/ pending[k] = c,
           created.gone \subseteq created'.gone,
           NEW d \in Creator \ {c}
    PROVE  Calling(d)'
<1>1. call'[d] = call[d] /\ Calling(d) /\ Rows /\ CreShapes
  BY DEF CreInv
<1>2. /\ Items(d)' = Items(d) /\ \A i : KeyOf(d, i)' = KeyOf(d, i)
  BY <1>1 DEF Items, KeyOf
<1>3. ASSUME call[d].at = "insert" PROVE Inserting(d)'
  <2>1. \A i \in call[d].new : KeyOf(d, i) # Keyless => KeyOf(d, i) \in Kept
    BY <1>1, <1>3, KeyIsKept DEF Calling, Inserting
  <2> QED
    BY <1>1, <1>2, <1>3, <2>1 DEF Calling, Inserting
<1>4. ASSUME call[d].at = "ready", NEW p \in ToSet(call[d].items) PROVE Telling(d, p)'
  <2> SUFFICES ASSUME p[1] # Keyless
               PROVE  /\ p[1] \in Kept /\ p[2] # Nothing
                      /\ p[1] \in Operation => source' = d
                      /\ IF pending'[p[1]] = d
                         THEN \A q \in ToSet(call[d].items) : q[1] = p[1] => q[2] = p[2]
                         ELSE index'[p[1]] = p[2] \/ p[2] \in created'.gone
    BY <1>1 DEF Telling
  <2>1. /\ p[1] \in Kept /\ p[2] # Nothing
        /\ p[1] \in Operation => source = d
        /\ IF pending[p[1]] = d
           THEN \A q \in ToSet(call[d].items) : q[1] = p[1] => q[2] = p[2]
           ELSE index[p[1]] = p[2] \/ p[2] \in created.gone
    BY <1>1, <1>4 DEF Calling, Telling
  <2>2. CASE pending[p[1]] = d
    BY <2>1, <2>2
  <2>3. CASE pending[p[1]] # d /\ p[2] \in created.gone
    BY <2>1, <2>3
  <2>4. CASE pending[p[1]] # d /\ index[p[1]] = p[2]
    <3>1. CASE index'[p[1]] = index[p[1]]
      BY <2>1, <2>4, <3>1
    <3>2. CASE index'[p[1]] # index[p[1]]
      <4>1. pending[p[1]] = Nothing
        BY <1>1, <2>1, <2>4 DEF Rows
      <4>2. p[1] \in Operation => source # Nothing
        BY <2>1, CreationAssumption
      <4>3. pending[p[1]] # c
        BY <4>1, CreationAssumption
      <4>4. CASE index[p[1]] \in created'.gone
        BY <2>1, <2>4, <4>4
      <4> QED
        BY <2>1, <3>2, <4>2, <4>3, <4>4
    <3> QED
      BY <3>1, <3>2
  <2> QED
    BY <2>1, <2>2, <2>3, <2>4
<1>5. call[d].at \in {"decide", "record"} => source' = d
  BY <1>1 DEF Calling
<1>6. call[d].at \notin {"insert", "ready"} => \A k \in Kept : pending'[k] # d
  BY <1>1 DEF Calling
<1>7. ASSUME call[d].at = "record", KeyOf(d, 1) # Keyless PROVE index'[KeyOf(d, 1)] = Nothing
  <2>1. KeyOf(d, 1) \in Operation /\ KeyOf(d, 1) \in Kept /\ source = d /\ index[KeyOf(d, 1)] = Nothing
    BY <1>1, <1>7, OperationIsKept DEF Calling
  <2>2. pending[KeyOf(d, 1)] = Nothing
    BY <1>1, <1>7, <2>1, CreationAssumption DEF Rows, Calling, CreShapes
  <2>3. pending[KeyOf(d, 1)] # c
    BY <2>2, CreationAssumption
  <2> QED
    BY <2>1, <2>3
<1> QED
  BY <1>1, <1>2, <1>3, <1>4, <1>5, <1>6, <1>7 DEF Calling

\* A step of one caller that commits nothing.
LEMMA QuietKeeps ==
    ASSUME CreInv, NEW c \in Creator, NEW fields, Become(c, fields),
           index' = index, created' = created, answers' = answers,
           tries' \in [Creator -> Nat],
           pending' = [k \in Kept |-> pending'[k]],
           \A k \in Kept : /\ pending'[k] \in Creator \cup {Nothing}
                           /\ \A d \in Creator \ {c} : pending'[k] = d <=> pending[k] = d,
           source' \in Creator \cup {Nothing, Gone},
           \A d \in (Creator \ {c}) \cup {Gone} : source = d => source' = d,
           CallShape(c)', Calling(c)', Rows'
    PROVE  CreInv'
<1>1. CreShapes /\ Answering
  BY DEF CreInv
<1>2. /\ call'[c] = fields /\ DOMAIN call' = Creator
      /\ \A d \in Creator \ {c} : call'[d] = call[d]
  BY <1>1, Becomes
<1>3. CreShapes'
  <2>1. \A d \in Creator \ {c} : CallShape(d)'
    BY <1>1, <1>2 DEF CreShapes, CallShape
  <2> QED
    BY <1>1, <1>2, <2>1 DEF CreShapes
<1>4. \A d \in Creator \ {c} : Calling(d)'
  BY <1>2, OtherCallersKeep
<1>5. Answering'
  BY <1>1 DEF Answering, Told, Agree
<1> QED
  BY <1>3, <1>4, <1>5 DEF CreInv

LEMMA AskKeeps ==
    ASSUME CreInv, NEW c \in Creator, BeginTrigger(c) \/ BeginRetry(c) PROVE CreInv'
<1>1. /\ CreShapes /\ Calling(c) /\ Rows
  BY DEF CreInv
<1>2. PICK at, items : /\ Ask(c, at, items)
                       /\ \/ at = "insert" /\ items \in Batches
                          \/ at = "lock" /\ \E o \in Operation \cup {Keyless} : items = <<o>>
  <2>1. CASE BeginTrigger(c)
    BY <2>1 DEF BeginTrigger
  <2>2. CASE BeginRetry(c)
    BY <2>2 DEF BeginRetry, OperationKey
  <2> QED
    BY <2>1, <2>2
<1> DEFINE f == [Idle EXCEPT !.at = at, !.items = items]
<1>3. /\ call[c].at = "idle" /\ Become(c, f)
      /\ tries' = [tries EXCEPT ![c] = @ + 1]
      /\ index' = index /\ pending' = pending /\ source' = source /\ created' = created
      /\ answers' = answers
  BY <1>2 DEF Ask
<1>4. /\ call'[c] = f
      /\ f.at = at /\ f.items = items /\ f.got = {} /\ f.new = {}
      /\ DOMAIN f = {"at", "items", "got", "new"}
  <2>1. call'[c] = f
    BY <1>1, <1>3, Becomes
  <2> QED
    BY <2>1 DEF Idle
<1> HIDE DEF f
<1>5. CallShape(c)'
  BY <1>2, <1>4 DEF CallShape
<1>6. \A k \in Kept : pending'[k] # c
  BY <1>1, <1>3 DEF Calling
<1>7. Calling(c)'
  BY <1>2, <1>4, <1>6 DEF Calling, Inserting
<1>8. Rows'
  BY <1>1, <1>3 DEF Rows
<1>9. tries' \in [Creator -> Nat]
  BY <1>1, <1>3 DEF CreShapes
<1> QED
  BY <1>1, <1>3, <1>5, <1>7, <1>8, <1>9, QuietKeeps DEF CreShapes

LEMMA InsertKeeps ==
    ASSUME CreInv, NEW c \in Creator, InsertRow(c) PROVE CreInv'
<1>1. /\ CreShapes /\ Calling(c) /\ Rows /\ CallShape(c)
      /\ call[c].at = "insert" /\ WaitsFor(c) = {} /\ Inserting(c)
      /\ index' = index /\ source' = source /\ tries' = tries /\ created' = created
      /\ answers' = answers
  BY DEF CreInv, CreShapes, InsertRow, Calling
<1>2. PICK i \in NextRow(c) :
        LET k == KeyOf(c, i)
            new == IF k = Keyless THEN TRUE ELSE Absent(c, k)
        IN  /\ Become(c, [call[c] EXCEPT !.got = @ \cup {i}, !.new = IF new THEN @ \cup {i} ELSE @])
            /\ pending' = IF new /\ k # Keyless THEN [pending EXCEPT ![k] = c] ELSE pending
  BY DEF InsertRow
<1>3. i \in Items(c) /\ i \notin call[c].got /\ \A j \in 1 .. (i - 1) : j \in call[c].got
  BY DEF NextRow
<1>4. PICK k : k = KeyOf(c, i)
  OBVIOUS
<1>5. k # Keyless => k \in Kept /\ k \notin Operation
  BY <1>1, <1>3, <1>4, KeyIsKept
<1> DEFINE new == k = Keyless \/ Absent(c, k)
           f == [call[c] EXCEPT !.got = call[c].got \cup {i},
                                !.new = IF new THEN call[c].new \cup {i} ELSE call[c].new]
<1>6. /\ Become(c, f)
      /\ pending' = IF new /\ k # Keyless THEN [pending EXCEPT ![k] = c] ELSE pending
  BY <1>2, <1>4
<1>7. call'[c] = f
  BY <1>1, <1>6, Becomes
<1>8. /\ f.at = "insert" /\ f.items = call[c].items /\ f.got = call[c].got \cup {i}
      /\ f.new = (IF new THEN call[c].new \cup {i} ELSE call[c].new)
      /\ DOMAIN f = {"at", "items", "got", "new"}
  BY <1>1 DEF CallShape
<1> HIDE DEF f
<1>9. Items(c)' = Items(c) /\ \A j : KeyOf(c, j)' = KeyOf(c, j)
  BY <1>7, <1>8 DEF Items, KeyOf
<1>10. /\ pending = [x \in Kept |-> pending[x]]
       /\ \A x \in Kept : pending[x] \in Creator \cup {Nothing}
  BY <1>1 DEF CreShapes
<1>11. /\ pending' = [x \in Kept |-> pending'[x]]
       /\ \A x \in Kept : pending'[x] = (IF new /\ k # Keyless /\ x = k THEN c ELSE pending[x])
  BY <1>6, <1>10
<1>12. new /\ k # Keyless => pending[k] = Nothing /\ index[k] = Nothing
  BY DEF Absent
<1> HIDE DEF new
<1>13. CallShape(c)'
  BY <1>1, <1>7, <1>8 DEF CallShape
<1>14. Rows'
  BY <1>1, <1>5, <1>11, <1>12 DEF Rows
<1>15. Inserting(c)'
  <2>1. call'[c].new \subseteq call'[c].got /\ call'[c].got \subseteq Items(c)'
    BY <1>1, <1>3, <1>7, <1>8, <1>9 DEF Inserting
  <2>2. \A j \in call'[c].got : \A l \in 1 .. (j - 1) : l \in call'[c].got
    BY <1>1, <1>3, <1>7, <1>8 DEF Inserting
  <2>3. ASSUME NEW j \in call'[c].new, KeyOf(c, j) # Keyless PROVE pending'[KeyOf(c, j)] = c
    <3>1. CASE j \in call[c].new
      <4>1. pending[KeyOf(c, j)] = c /\ KeyOf(c, j) \in Kept
        BY <3>1, <2>3, <1>1, KeyIsKept DEF Inserting
      <4> QED
        BY <4>1, <1>11
    <3>2. CASE new /\ j = i
      BY <3>2, <2>3, <1>4, <1>5, <1>11
    <3> QED
      BY <3>1, <3>2, <2>3, <1>7, <1>8
  <2>4. ASSUME NEW x \in Kept, pending'[x] = c PROVE \E j \in call'[c].new : KeyOf(c, j) = x
    <3>1. CASE pending[x] = c
      BY <3>1, <1>1, <1>7, <1>8 DEF Inserting
    <3>2. CASE new /\ x = k
      BY <3>2, <1>4, <1>7, <1>8
    <3> QED
      BY <3>1, <3>2, <2>4, <1>11
  <2>5. ASSUME NEW j \in call'[c].new, NEW l \in call'[c].new,
               KeyOf(c, j) = KeyOf(c, l), KeyOf(c, j) # Keyless
        PROVE  j = l
    <3>1. CASE j \in call[c].new /\ l \in call[c].new
      BY <3>1, <2>5, <1>1 DEF Inserting
    <3>2. ASSUME NEW m \in call[c].new, KeyOf(c, m) = k, k # Keyless, new PROVE FALSE
      <4>1. pending[k] = c
        BY <3>2, <1>1 DEF Inserting
      <4> QED
        BY <4>1, <3>2, <1>12, CreationAssumption
    <3>3. \A m \in call'[c].new : m \in call[c].new \/ (m = i /\ new)
      BY <1>7, <1>8
    <3> QED
      BY <3>1, <3>2, <3>3, <2>5, <1>4
  <2> QED
    BY <2>1, <2>2, <2>3, <2>4, <2>5, <1>9 DEF Inserting
<1>16. Calling(c)'
  BY <1>7, <1>8, <1>15 DEF Calling
<1>17. \A x \in Kept : /\ pending'[x] \in Creator \cup {Nothing}
                      /\ \A d \in Creator \ {c} : pending'[x] = d <=> pending[x] = d
  BY <1>10, <1>11, <1>12, CreationAssumption
<1> QED
  BY <1>1, <1>6, <1>11, <1>13, <1>14, <1>16, <1>17, QuietKeeps DEF CreShapes

LEMMA ReadBackKeeps ==
    ASSUME CreInv, NEW c \in Creator, ReadBack(c) PROVE CreInv'
<1> DEFINE g == [i \in Items(c) |-> <<KeyOf(c, i), RunFor(c, i)>>]
           f == [call[c] EXCEPT !.at = "ready", !.items = g]
<1>1. /\ CreShapes /\ Calling(c) /\ Rows /\ CallShape(c) /\ Inserting(c)
      /\ call[c].at = "insert" /\ call[c].got = Items(c)
      /\ \A i \in Items(c) : RunFor(c, i) # Nothing
      /\ Become(c, f)
      /\ index' = index /\ source' = source /\ tries' = tries /\ created' = created
      /\ answers' = answers /\ pending' = pending
  BY DEF CreInv, CreShapes, ReadBack, Calling
<1>2. call'[c] = f
  BY <1>1, Becomes
<1>3. f.at = "ready" /\ f.items = g /\ DOMAIN f = {"at", "items", "got", "new"}
  BY <1>1 DEF CallShape
<1> HIDE DEF f
<1>4. CallShape(c)'
  BY <1>2, <1>3 DEF CallShape
<1>5. \A p \in ToSet(g) : \E i \in Items(c) : p = <<KeyOf(c, i), RunFor(c, i)>>
  BY DEF ToSet
<1> HIDE DEF g
<1>6. ASSUME NEW i \in Items(c), KeyOf(c, i) # Keyless
      PROVE  /\ KeyOf(c, i) \in Kept /\ KeyOf(c, i) \notin Operation
             /\ pending[KeyOf(c, i)] # c => RunFor(c, i) = index[KeyOf(c, i)]
             /\ \A j \in Items(c) : KeyOf(c, j) = KeyOf(c, i) /\ pending[KeyOf(c, i)] = c =>
                    RunFor(c, j) = RunFor(c, i)
  <2>1. KeyOf(c, i) \in Kept /\ KeyOf(c, i) \notin Operation
    BY <1>1, <1>6, KeyIsKept
  <2>2. pending[KeyOf(c, i)] # c => RunFor(c, i) = index[KeyOf(c, i)]
    BY <1>1, <1>6 DEF Inserting, RunFor
  <2>3. ASSUME NEW j \in Items(c), KeyOf(c, j) = KeyOf(c, i), pending[KeyOf(c, i)] = c
        PROVE  RunFor(c, j) = RunFor(c, i)
    <3>1. PICK m \in call[c].new : KeyOf(c, m) = KeyOf(c, i)
      BY <1>1, <2>1, <2>3 DEF Inserting
    <3>2. \A l \in call[c].new : KeyOf(c, l) = KeyOf(c, i) => l = m
      BY <1>1, <1>6, <3>1 DEF Inserting
    <3>3. (CHOOSE l \in call[c].new : KeyOf(c, l) = KeyOf(c, i)) = m
      BY <3>1, <3>2
    <3>4. \A l \in Items(c) : KeyOf(c, l) = KeyOf(c, i) => RunFor(c, l) = RunOf(c, m)
      BY <2>3, <3>2, <3>3 DEF RunFor
    <3> QED
      BY <3>4, <2>3
  <2> QED
    BY <2>1, <2>2, <2>3
<1>7. ASSUME NEW p \in ToSet(g) PROVE Telling(c, p)'
  <2>1. PICK i \in Items(c) : p = <<KeyOf(c, i), RunFor(c, i)>>
    BY <1>5, <1>7
  <2>2. p[1] = KeyOf(c, i) /\ p[2] = RunFor(c, i)
    BY <2>1
  <2>3. ASSUME p[1] # Keyless, pending[p[1]] = c, NEW q \in ToSet(g), q[1] = p[1] PROVE q[2] = p[2]
    <3>1. PICK j \in Items(c) : q = <<KeyOf(c, j), RunFor(c, j)>>
      BY <1>5, <2>3
    <3> QED
      BY <3>1, <2>2, <2>3, <1>6
  <2> QED
    BY <1>1, <1>2, <1>3, <1>6, <2>2, <2>3 DEF Telling
<1>8. Calling(c)'
  BY <1>2, <1>3, <1>7 DEF Calling
<1>9. Rows'
  BY <1>1 DEF Rows
<1> QED
  BY <1>1, <1>4, <1>8, <1>9, QuietKeeps DEF CreShapes

LEMMA RetryKeeps ==
    ASSUME CreInv, NEW c \in Creator, RetryLock(c) \/ RetryDecide(c) \/ RetryRecord(c)
    PROVE  CreInv'
<1>1. /\ CreShapes /\ Calling(c) /\ Rows /\ CallShape(c)
      /\ index' = index /\ tries' = tries /\ created' = created /\ answers' = answers
  BY DEF CreInv, CreShapes, RetryLock, RetryDecide, RetryRecord
<1>2. /\ pending = [x \in Kept |-> pending[x]]
      /\ \A x \in Kept : pending[x] \in Creator \cup {Nothing}
      /\ tries[c] \in Nat /\ source \in Creator \cup {Nothing, Gone}
  BY <1>1 DEF CreShapes
<1>3. PICK op : op = KeyOf(c, 1)
  OBVIOUS
<1>4. call[c].at \in {"lock", "decide", "record"} /\ op # Keyless =>
        op \in Operation /\ op \in Kept
  BY <1>3, OperationIsKept
<1>5. CASE RetryLock(c)
  <2> DEFINE f == [call[c] EXCEPT !.at = "decide"]
  <2>1. call[c].at = "lock" /\ source = Nothing /\ source' = c /\ Become(c, f) /\ pending' = pending
    BY <1>5 DEF RetryLock, SourceFree
  <2>2. call'[c] = f
    BY <2>1, <1>1, Becomes
  <2>3. /\ f.at = "decide" /\ f.items = call[c].items /\ DOMAIN f = {"at", "items", "got", "new"}
    BY <1>1 DEF CallShape
  <2> HIDE DEF f
  <2>4. CallShape(c)'
    BY <1>1, <2>1, <2>2, <2>3 DEF CallShape
  <2>5. Calling(c)'
    BY <1>1, <2>1, <2>2, <2>3 DEF Calling
  <2>6. Rows'
    BY <1>1, <1>2, <2>1, CreationAssumption DEF Rows
  <2> QED
    BY <1>1, <1>2, <2>1, <2>4, <2>5, <2>6, CreationAssumption, QuietKeeps DEF CreShapes
<1>6. CASE RetryDecide(c) /\ (op = Keyless \/ index[op] = Nothing)
  <2> DEFINE f == [call[c] EXCEPT !.at = "record", !.new = {1}]
  <2>1. call[c].at = "decide" /\ Become(c, f) /\ pending' = pending /\ source' = source
    BY <1>3, <1>6 DEF RetryDecide
  <2>2. call'[c] = f
    BY <2>1, <1>1, Becomes
  <2>3. /\ f.at = "record" /\ f.items = call[c].items /\ DOMAIN f = {"at", "items", "got", "new"}
    BY <1>1 DEF CallShape
  <2> HIDE DEF f
  <2>4. CallShape(c)'
    BY <1>1, <2>1, <2>2, <2>3 DEF CallShape
  <2>5. KeyOf(c, 1)' = op
    BY <1>3, <2>2, <2>3 DEF KeyOf
  <2>6. Calling(c)'
    BY <1>1, <1>6, <2>1, <2>2, <2>3, <2>5 DEF Calling
  <2>7. Rows'
    BY <1>1, <2>1 DEF Rows
  <2> QED
    BY <1>1, <1>2, <2>1, <2>4, <2>6, <2>7, QuietKeeps DEF CreShapes
<1>7. CASE RetryDecide(c) /\ op # Keyless /\ index[op] # Nothing
  <2> DEFINE f == [call[c] EXCEPT !.at = "ready", !.items = <<<<op, index[op]>>>>]
  <2>1. call[c].at = "decide" /\ Become(c, f) /\ pending' = pending /\ source' = source
    BY <1>3, <1>7 DEF RetryDecide
  <2>2. call'[c] = f
    BY <2>1, <1>1, Becomes
  <2>3. /\ f.at = "ready" /\ f.items = <<<<op, index[op]>>>>
        /\ DOMAIN f = {"at", "items", "got", "new"}
    BY <1>1 DEF CallShape
  <2> HIDE DEF f
  <2>4. CallShape(c)'
    BY <2>2, <2>3 DEF CallShape
  <2>5. \A p \in ToSet(<<<<op, index[op]>>>>) : p[1] = op /\ p[2] = index[op]
    BY DEF ToSet
  <2>6. op \in Operation /\ op \in Kept /\ source = c /\ pending[op] # c
    BY <1>1, <1>4, <1>7, <2>1 DEF Calling
  <2>7. \A p \in ToSet(<<<<op, index[op]>>>>) : Telling(c, p)'
    BY <1>1, <1>7, <2>1, <2>5, <2>6 DEF Telling
  <2>8. Calling(c)'
    BY <2>2, <2>3, <2>7 DEF Calling
  <2>9. Rows'
    BY <1>1, <2>1 DEF Rows
  <2> QED
    BY <1>1, <1>2, <2>1, <2>4, <2>8, <2>9, QuietKeeps DEF CreShapes
<1>8. CASE RetryRecord(c)
  <2> DEFINE f == [call[c] EXCEPT !.at = "ready", !.items = <<<<op, RunOf(c, 1)>>>>]
  <2>1. /\ call[c].at = "record" /\ Become(c, f) /\ source' = source
        /\ pending' = IF op = Keyless THEN pending ELSE [pending EXCEPT ![op] = c]
    BY <1>3, <1>8 DEF RetryRecord
  <2>2. call'[c] = f
    BY <2>1, <1>1, Becomes
  <2>3. /\ f.at = "ready" /\ f.items = <<<<op, RunOf(c, 1)>>>>
        /\ DOMAIN f = {"at", "items", "got", "new"}
    BY <1>1 DEF CallShape
  <2> HIDE DEF f
  <2>4. CallShape(c)'
    BY <2>2, <2>3 DEF CallShape
  <2>5. RunOf(c, 1) # Nothing
    BY <1>2, CreationAssumption DEF RunOf
  <2>6. \A p \in ToSet(<<<<op, RunOf(c, 1)>>>>) : p[1] = op /\ p[2] = RunOf(c, 1)
    BY DEF ToSet
  <2>7. /\ source = c
        /\ op # Keyless => op \in Operation /\ op \in Kept /\ index[op] = Nothing
    BY <1>1, <1>3, <1>4, <2>1 DEF Calling
  <2>8. /\ pending' = [x \in Kept |-> pending'[x]]
        /\ \A x \in Kept : pending'[x] = (IF op # Keyless /\ x = op THEN c ELSE pending[x])
    BY <1>2, <2>1
  <2>9. \A x \in Kept : pending[x] # c
    BY <1>1, <2>1 DEF Calling
  <2>10. op # Keyless => pending[op] = Nothing
    BY <1>1, <1>2, <2>7, <2>9 DEF Rows
  <2>11. \A p \in ToSet(<<<<op, RunOf(c, 1)>>>>) : Telling(c, p)'
    BY <2>1, <2>2, <2>3, <2>5, <2>6, <2>7, <2>8 DEF Telling
  <2>12. Calling(c)'
    BY <2>2, <2>3, <2>11 DEF Calling
  <2>13. Rows'
    BY <1>1, <2>1, <2>7, <2>8 DEF Rows
  <2>14. \A x \in Kept : /\ pending'[x] \in Creator \cup {Nothing}
                        /\ \A d \in Creator \ {c} : pending'[x] = d <=> pending[x] = d
    BY <1>2, <2>8, <2>10, CreationAssumption
  <2> QED
    BY <1>1, <1>2, <2>1, <2>4, <2>8, <2>12, <2>13, <2>14, QuietKeeps DEF CreShapes
<1> QED
  BY <1>5, <1>6, <1>7, <1>8

LEMMA RollBackCallKeeps ==
    ASSUME CreInv, NEW c \in Creator, RollBack(c) PROVE CreInv'
<1>1. /\ CreShapes /\ Calling(c) /\ Rows
      /\ index' = index /\ tries' = tries /\ created' = created /\ answers' = answers
      /\ Become(c, Idle)
      /\ pending' = [k \in Kept |-> IF pending[k] = c THEN Nothing ELSE pending[k]]
      /\ source' = IF source = c THEN Nothing ELSE source
  BY DEF CreInv, RollBack, NotPending, Uncontended
<1>2. call'[c] = Idle
  BY <1>1, Becomes
<1>3. CallShape(c)' /\ Calling(c)'
  BY <1>1, <1>2, CreationAssumption DEF CallShape, Calling, Idle
<1>4. \A k \in Kept : pending[k] \in Creator \cup {Nothing}
  BY <1>1 DEF CreShapes
<1>5. Rows'
  BY <1>1, <1>4 DEF Rows
<1>6. /\ pending' = [k \in Kept |-> pending'[k]]
      /\ \A k \in Kept : /\ pending'[k] \in Creator \cup {Nothing}
                         /\ \A d \in Creator \ {c} : pending'[k] = d <=> pending[k] = d
  BY <1>1, <1>4, CreationAssumption
<1> QED
  BY <1>1, <1>3, <1>5, <1>6, CreationAssumption, QuietKeeps DEF CreShapes

\* A commit: what it tells is so, and what was told stays so.
LEMMA CommitCallKeeps ==
    ASSUME CreInv, NEW c \in Creator, CommitCall(c) PROVE CreInv'
<1> DEFINE pairs == ToSet(call[c].items)
<1>1. /\ CreShapes /\ Calling(c) /\ Rows /\ Answering /\ call[c].at = "ready"
      /\ index' = [k \in Kept |-> IF pending[k] = c
                                  THEN (CHOOSE p \in pairs : p[1] = k)[2] ELSE index[k]]
      /\ created' = [created EXCEPT !.live = @ \cup {RunOf(c, i) : i \in call[c].new}]
      /\ Become(c, Idle) /\ tries' = tries
      /\ pending' = [k \in Kept |-> IF pending[k] = c THEN Nothing ELSE pending[k]]
      /\ source' = IF source = c THEN Nothing ELSE source
      /\ answers' \in {answers, answers \cup {p \in pairs : p[1] # Keyless}}
  BY DEF CreInv, CommitCall, NotPending, Uncontended
<1>2. \A p \in pairs : Telling(c, p)
  BY <1>1 DEF Calling
<1> HIDE DEF pairs
<1>3. /\ call'[c] = Idle /\ DOMAIN call' = Creator
      /\ \A d \in Creator \ {c} : call'[d] = call[d]
  BY <1>1, Becomes
<1>4. /\ \A k \in Kept : pending[k] \in Creator \cup {Nothing}
      /\ source \in Creator \cup {Nothing, Gone}
      /\ DOMAIN created = {"live", "ended", "gone"}
  BY <1>1 DEF CreShapes
<1>5. created'.gone = created.gone /\ DOMAIN created' = {"live", "ended", "gone"}
  BY <1>1, <1>4
<1>6. CreShapes'
  <2>1. \A d \in Creator : CallShape(d)'
    BY <1>1, <1>3 DEF CreShapes, CallShape, Idle
  <2> QED
    BY <1>1, <1>3, <1>4, <1>5, <2>1 DEF CreShapes
<1>7. Calling(c)'
  BY <1>1, <1>3, CreationAssumption DEF Calling, Idle
<1>8. \A d \in Creator \ {c} : Calling(d)'
  <2>1. \A k \in Kept : \A d \in Creator \ {c} : pending'[k] = d <=> pending[k] = d
    BY <1>1, <1>4, CreationAssumption
  <2>2. \A k \in Kept : index'[k] # index[k] => pending[k] = c
    BY <1>1
  <2>3. \A d \in Creator \ {c} : source = d => source' = d
    BY <1>1
  <2> QED
    BY <1>3, <1>5, <2>1, <2>2, <2>3, OtherCallersKeep
<1>9. Rows'
  BY <1>1, <1>4 DEF Rows
<1>10. ASSUME NEW p \in pairs, p[1] # Keyless
       PROVE  /\ p[1] \in Kept /\ p[2] # Nothing
              /\ index'[p[1]] = p[2] \/ p[2] \in created.gone
              /\ pending[p[1]] = c => index'[p[1]] = p[2]
              /\ p[1] \in Operation => source = c
  <2>1. Telling(c, p)
    BY <1>2, <1>10
  <2>2. CASE pending[p[1]] = c
    <3>1. PICK q : q = CHOOSE x \in pairs : x[1] = p[1]
      OBVIOUS
    <3>2. q \in pairs /\ q[1] = p[1]
      BY <3>1, <1>10
    <3>3. q[2] = p[2]
      BY <2>1, <2>2, <3>2, <1>10 DEF Telling, pairs
    <3> QED
      BY <2>1, <2>2, <3>1, <3>3, <1>1, <1>10 DEF Telling
  <2>3. CASE pending[p[1]] # c
    BY <2>1, <2>3, <1>1, <1>10 DEF Telling
  <2> QED
    BY <2>2, <2>3
<1>11. \A p \in answers' : p \in answers \/ (p \in pairs /\ p[1] # Keyless)
  BY <1>1
<1>12. ASSUME NEW a \in answers, index[a[1]] = a[2]
       PROVE  index'[a[1]] = a[2] /\ pending[a[1]] # c
  <2>1. a[1] \in Kept /\ a[2] # Nothing
    BY <1>1, <1>12 DEF Answering, Told
  <2>2. pending[a[1]] = Nothing
    BY <1>1, <1>12, <2>1 DEF Rows
  <2> QED
    BY <1>1, <1>12, <2>1, <2>2, CreationAssumption
<1>13. ASSUME NEW a \in answers' PROVE Told(a)'
  <2>1. CASE a \in answers
    <3>1. Told(a)
      BY <2>1, <1>1 DEF Answering
    <3>2. source = Gone => source' = Gone
      BY <1>1, CreationAssumption
    <3> QED
      BY <2>1, <3>1, <3>2, <1>5, <1>12 DEF Told
  <2>2. CASE a \in pairs /\ a[1] # Keyless
    BY <2>2, <1>5, <1>10 DEF Told
  <2> QED
    BY <2>1, <2>2, <1>11, <1>13
<1>14. ASSUME NEW a \in answers, NEW p \in pairs, p[1] # Keyless, a[1] = p[1], a[2] # p[2]
       PROVE  {a[2], p[2]} \cap created.gone # {}
  <2>1. Told(a)
    BY <1>1, <1>14 DEF Answering
  <2>2. a[1] \in Operation => source # Gone
    BY <1>10, <1>14, CreationAssumption
  <2>3. CASE index[a[1]] = a[2]
    BY <2>3, <1>10, <1>12, <1>14
  <2>4. CASE a[2] \in created.gone
    BY <2>4
  <2> QED
    BY <2>1, <2>2, <2>3, <2>4 DEF Told
<1>15. ASSUME NEW p \in pairs, NEW q \in pairs, p[1] # Keyless, p[1] = q[1], p[2] # q[2]
       PROVE  {p[2], q[2]} \cap created.gone # {}
  BY <1>10, <1>15
<1>16. \A a, b \in answers' : Agree(a, b)'
  <2> TAKE a, b \in answers'
  <2> SUFFICES ASSUME a[1] = b[1], a[2] # b[2] PROVE {a[2], b[2]} \cap created.gone # {}
    BY <1>5 DEF Agree
  <2>1. CASE a \in answers /\ b \in answers
    BY <2>1, <1>1 DEF Answering, Agree
  <2>2. CASE a \in answers /\ b \in pairs /\ b[1] # Keyless
    BY <2>2, <1>14
  <2>3. CASE b \in answers /\ a \in pairs /\ a[1] # Keyless
    BY <2>3, <1>14
  <2>4. CASE a \in pairs /\ a[1] # Keyless /\ b \in pairs
    BY <2>4, <1>15
  <2> QED
    BY <2>1, <2>2, <2>3, <2>4, <1>11
<1> QED
  BY <1>6, <1>7, <1>8, <1>9, <1>13, <1>16 DEF CreInv, Answering

\* Runs end and are deleted.
LEMMA RetentionKeeps ==
    ASSUME CreInv, EndRun \/ PruneRun \/ PruneSource PROVE CreInv'
<1>1. /\ CreShapes /\ Rows /\ Answering /\ \A c \in Creator : Calling(c)
      /\ call' = call /\ tries' = tries /\ answers' = answers /\ pending' = pending
  BY DEF CreInv, EndRun, PruneRun, PruneSource
<1>2. DOMAIN created = {"live", "ended", "gone"}
  BY <1>1 DEF CreShapes
<1>3. /\ DOMAIN created' = {"live", "ended", "gone"}
      /\ created.gone \subseteq created'.gone
      /\ source' = source \/ (source = Nothing /\ source' = Gone)
      /\ index' = index \/ index' = [k \in Kept |-> index'[k]]
      /\ \A k \in Kept : index'[k] # index[k] =>
            /\ index'[k] = Nothing
            /\ index[k] \in created'.gone
               \/ (k \in Operation /\ source = Nothing /\ source' = Gone)
  <2>1. CASE EndRun
    <3>1. PICK r : created' = [created EXCEPT !.live = @ \ {r}, !.ended = @ \cup {r}]
      BY <2>1 DEF EndRun
    <3> QED
      BY <2>1, <3>1, <1>2 DEF EndRun
  <2>2. CASE PruneRun
    <3>1. PICK r : /\ created' = [created EXCEPT !.ended = @ \ {r}, !.gone = @ \cup {r}]
                   /\ index' = [k \in Kept |-> IF index[k] = r THEN Nothing ELSE index[k]]
      BY <2>2 DEF PruneRun
    <3>2. created'.gone = created.gone \cup {r} /\ DOMAIN created' = {"live", "ended", "gone"}
      BY <3>1, <1>2
    <3> QED
      BY <2>2, <3>1, <3>2 DEF PruneRun
  <2>3. CASE PruneSource
    BY <2>3, <1>2 DEF PruneSource
  <2> QED
    BY <2>1, <2>2, <2>3
<1>4. CreShapes'
  <2>1. \A c \in Creator : CallShape(c)'
    BY <1>1 DEF CreShapes, CallShape
  <2>2. index' = [k \in Kept |-> index'[k]]
    BY <1>1, <1>3 DEF CreShapes
  <2> QED
    BY <1>1, <1>3, <2>1, <2>2 DEF CreShapes
<1>5. \A d \in Creator : source = d => source' = d
  BY <1>3, CreationAssumption
<1>6. \A d \in Creator : Calling(d)'
  <2>1. Gone \in Creator \cup {Gone} /\ \A d \in Creator : d \in Creator \ {Gone}
    BY CreationAssumption
  <2>2. \A k \in Kept : index'[k] # index[k] =>
            pending[k] = Gone \/ index[k] \in created'.gone
                \/ (k \in Operation /\ source = Nothing /\ index'[k] = Nothing)
    BY <1>3
  <2>3. \A k \in Kept : index'[k] # index[k] => index'[k] = Nothing \/ pending[k] = Gone
    BY <1>3
  <2> QED
    BY <1>1, <1>3, <1>5, <2>1, <2>2, <2>3, OtherCallersKeep
<1>7. Rows'
  <2>1. \A k \in Kept : pending[k] \in Creator \cup {Nothing}
    BY <1>1 DEF CreShapes
  <2> QED
    BY <1>1, <1>3, <1>5, <2>1 DEF Rows
<1>8. \A a \in answers' : Told(a)'
  <2>1. source = Gone => source' = Gone
    BY <1>3, CreationAssumption
  <2> QED
    BY <1>1, <1>3, <2>1 DEF Answering, Told
<1>9. \A a, b \in answers' : Agree(a, b)'
  BY <1>1, <1>3 DEF Answering, Agree
<1> QED
  BY <1>4, <1>6, <1>7, <1>8, <1>9 DEF CreInv, Answering

LEMMA CreInvNext == CreInv /\ [CreNext]_creVars => CreInv'
<1> SUFFICES ASSUME CreInv, [CreNext]_creVars PROVE CreInv'
  OBVIOUS
<1>1. CASE UNCHANGED creVars
  BY <1>1 DEF creVars, CreInv, CreShapes, CallShape, Calling, Inserting, Telling, Rows, Answering,
              Told, Agree, Items, KeyOf
<1> QED
  BY <1>1, AskKeeps, InsertKeeps, ReadBackKeeps, RetryKeeps, CommitCallKeeps, RollBackCallKeeps,
     RetentionKeeps DEF CreNext

\* One key names one run for everyone, until retention takes it, and two retries under
\* one operation key never meet at its record (runs-create.ts, runs-terminal.ts).
THEOREM OneRunPerKey == CreSpec => []SameKeySameRun
<1>1. CreInv => SameKeySameRun
  <2> SUFFICES ASSUME CreInv PROVE SameKeySameRun
    OBVIOUS
  <2>1. OperationUncontested
    <3> SUFFICES ASSUME NEW c \in Creator, call[c].at = "record", KeyOf(c, 1) # Keyless
                 PROVE  index[KeyOf(c, 1)] = Nothing /\ pending[KeyOf(c, 1)] = Nothing
      BY DEF OperationUncontested
    <3>1. /\ KeyOf(c, 1) \in Operation /\ KeyOf(c, 1) \in Kept
          /\ index[KeyOf(c, 1)] = Nothing /\ source = c /\ pending[KeyOf(c, 1)] # c
      BY OperationIsKept DEF CreInv, Calling
    <3> QED
      BY <3>1 DEF CreInv, Rows
  <2> QED
    BY <2>1 DEF SameKeySameRun, CreInv, Answering, Agree
<1> QED
  BY <1>1, CreInvInit, CreInvNext, PTL DEF CreSpec

\* No chain of numbers rises for ever in a finite set.
LEMMA LeastNumber ==
    ASSUME NEW S \in SUBSET Nat, S # {}
    PROVE  \E x \in S : \A y \in S : x <= y
<1>1. PICK x \in S : \A y \in S : ~(<<y, x>> \in OpToRel(<, Nat))
  BY NatLessThanWellFounded, WFMin
<1>2. ASSUME NEW y \in S PROVE x <= y
  <2>1. x \in Nat /\ y \in Nat /\ ~(y < x)
    BY <1>1 DEF OpToRel
  <2> QED
    BY <2>1
<1> QED
  BY <1>2

LEMMA NoAscent ==
    ASSUME NEW S, IsFiniteSet(S), S # {}, NEW f \in [S -> Nat],
           \A c \in S : \E d \in S : f[c] < f[d]
    PROVE  FALSE
<1> DEFINE Above(c) == {d \in S : f[c] < f[d]}
           Sizes == {Cardinality(Above(c)) : c \in S}
<1>1. \A c \in S : IsFiniteSet(Above(c)) /\ Cardinality(Above(c)) \in Nat
  <2> TAKE c \in S
  <2>1. IsFiniteSet(Above(c))
    BY FS_Subset
  <2> QED
    BY <2>1, FS_CardinalityType
<1>2. Sizes \in SUBSET Nat /\ Sizes # {}
  BY <1>1
<1>3. PICK c \in S : \A d \in S : Cardinality(Above(c)) <= Cardinality(Above(d))
  <2>1. PICK x \in Sizes : \A y \in Sizes : x <= y
    BY <1>2, LeastNumber
  <2>2. PICK c \in S : x = Cardinality(Above(c))
    BY <2>1
  <2>3. \A d \in S : Cardinality(Above(d)) \in Sizes
    OBVIOUS
  <2> HIDE DEF Above, Sizes
  <2> QED
    BY <2>1, <2>2, <2>3
<1>4. PICK d \in S : f[c] < f[d]
  OBVIOUS
<1>5. Above(d) \in SUBSET Above(c) /\ d \in Above(c) /\ d \notin Above(d)
  BY <1>4
<1>6. /\ Cardinality(Above(d)) <= Cardinality(Above(c))
      /\ Cardinality(Above(c)) = Cardinality(Above(d)) => Above(c) = Above(d)
  BY <1>1, <1>5, FS_Subset
<1>7. Cardinality(Above(c)) <= Cardinality(Above(d)) /\ Cardinality(Above(c)) \in Nat
      /\ Cardinality(Above(d)) \in Nat
  BY <1>1, <1>3
<1> HIDE DEF Above
<1>8. Cardinality(Above(c)) = Cardinality(Above(d))
  BY <1>6, <1>7
<1> QED
  BY <1>5, <1>6, <1>8

\* One that waits inserts, and the row it is at is the first it has not taken.
LEMMA WaitsAtItsNextRow ==
    ASSUME CreInv, NEW c \in Creator, NEW d \in WaitsFor(c)
    PROVE  /\ call[c].at = "insert" /\ d # c
           /\ \E i \in Items(c) :
                 /\ i \in Nat /\ i \notin call[c].got /\ KeyOf(c, i) # Keyless
                 /\ KeyOf(c, i) \in Nat /\ KeyOf(c, i) \in Kept
                 /\ pending[KeyOf(c, i)] = d
                 /\ \A j \in call[c].got : j \in Nat /\ j < i
<1>1. call[c].at = "insert" /\ d # c
  BY DEF WaitsFor
<1>2. PICK i \in NextRow(c) : KeyOf(c, i) # Keyless /\ pending[KeyOf(c, i)] = d
  BY <1>1 DEF WaitsFor
<1>3. /\ i \in Items(c) /\ i \notin call[c].got
      /\ \A j \in 1 .. (i - 1) : j \in call[c].got
  BY DEF NextRow
<1>4. Inserting(c) /\ call[c].items \in Seq(Nat \cup {Keyless})
  BY <1>1, CreationAssumption DEF CreInv, CreShapes, CallShape, Calling
<1>5. \A j \in Items(c) : j \in Nat /\ 1 <= j
  BY <1>4 DEF Items
<1>6. ASSUME NEW j \in call[c].got PROVE j \in Nat /\ j < i
  <2>1. j \in Nat /\ i \in Nat /\ 1 <= i
    BY <1>3, <1>4, <1>5 DEF Inserting
  <2>2. ~(i < j)
    <3>1. i < j => i \in 1 .. (j - 1)
      BY <2>1
    <3> QED
      BY <3>1, <1>3, <1>4 DEF Inserting
  <2>3. i # j
    BY <1>3
  <2> QED
    BY <2>1, <2>2, <2>3
<1> QED
  BY <1>1, <1>2, <1>3, <1>5, <1>6, KeyIsKept

\* Round a circle of waits the keys of sorted batches would rise for ever
\* (runs-create.ts createRunsInBatch).
THEOREM SortedNeverDeadlock == CreSpec => []OnlyUnsortedBatchesDeadlock
<1>1. ASSUME CreInv, NEW S \in (SUBSET Creator) \ {{}},
             \A c \in S : WaitsFor(c) \cap S # {}, \A c \in S : InOrder(c)
      PROVE  FALSE
  <2>1. S # {} /\ S \subseteq Creator /\ IsFiniteSet(S)
    BY CreationAssumption, FS_Subset
  <2> DEFINE At(c) == CHOOSE i \in Items(c) :
                 /\ i \in Nat /\ i \notin call[c].got /\ KeyOf(c, i) # Keyless
                 /\ KeyOf(c, i) \in Nat /\ KeyOf(c, i) \in Kept
                 /\ pending[KeyOf(c, i)] \in S \ {c}
                 /\ \A j \in call[c].got : j \in Nat /\ j < i
             f == [c \in S |-> KeyOf(c, At(c))]
  <2>2. ASSUME NEW c \in S
        PROVE  /\ call[c].at = "insert"
               /\ At(c) \in Items(c) /\ At(c) \in Nat /\ KeyOf(c, At(c)) # Keyless
               /\ KeyOf(c, At(c)) \in Nat /\ KeyOf(c, At(c)) \in Kept
               /\ pending[KeyOf(c, At(c))] \in S \ {c}
               /\ \A j \in call[c].got : j \in Nat /\ j < At(c)
    <3>1. PICK d \in S : d \in WaitsFor(c)
      BY <1>1
    <3>2. c \in Creator
      BY <2>1
    <3>3. /\ call[c].at = "insert"
          /\ \E i \in Items(c) :
                 /\ i \in Nat /\ i \notin call[c].got /\ KeyOf(c, i) # Keyless
                 /\ KeyOf(c, i) \in Nat /\ KeyOf(c, i) \in Kept
                 /\ pending[KeyOf(c, i)] \in S \ {c}
                 /\ \A j \in call[c].got : j \in Nat /\ j < i
      BY <1>1, <3>1, <3>2, WaitsAtItsNextRow
    <3> QED
      BY <3>3
  <2> HIDE DEF At
  <2>3. f \in [S -> Nat]
    BY <2>2
  <2>4. ASSUME NEW c \in S PROVE \E d \in S : f[c] < f[d]
    <3>1. PICK k : k = KeyOf(c, At(c))
      OBVIOUS
    <3>2. PICK d \in S : d = pending[k] /\ d # c
      BY <2>2, <3>1
    <3>3. call[d].at = "insert" /\ Inserting(d) /\ k \in Kept /\ k \in Nat /\ k # Keyless
      BY <1>1, <2>1, <2>2, <3>1 DEF CreInv, Calling
    <3>4. PICK i \in call[d].new : KeyOf(d, i) = k
      BY <3>2, <3>3 DEF Inserting
    <3>5. i \in call[d].got /\ i \in Items(d)
      BY <3>3, <3>4 DEF Inserting
    <3>6. i < At(d) /\ At(d) \in Items(d) /\ KeyOf(d, At(d)) # Keyless
          /\ pending[KeyOf(d, At(d))] # d /\ KeyOf(d, At(d)) \in Nat
      BY <2>2, <3>5
    <3>7. k <= KeyOf(d, At(d))
      BY <1>1, <3>3, <3>4, <3>5, <3>6 DEF InOrder
    <3>8. k # KeyOf(d, At(d))
      BY <3>2, <3>6
    <3> QED
      BY <3>1, <3>3, <3>6, <3>7, <3>8
  <2> HIDE DEF f
  <2> QED
    BY <2>1, <2>3, <2>4, NoAscent
<1>2. CreInv => OnlyUnsortedBatchesDeadlock
  BY <1>1 DEF OnlyUnsortedBatchesDeadlock
<1> QED
  BY <1>2, CreInvInit, CreInvNext, PTL DEF CreSpec

=============================================================================
