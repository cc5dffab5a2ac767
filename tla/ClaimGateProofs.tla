-------------------------- MODULE ClaimGateProofs --------------------------
(***************************************************************************)
(* Theorems about ClaimGate, for any runs, tasks, keys, limits and number  *)
(* of concurrent claims.  A claim may be read as one step, and the running *)
(* runs that carry a key stay within a limit one of them was granted.      *)
(*                                                                         *)
(* "Within a limit" is not inductive: runs claimed under different limits  *)
(* end in any order, and the one with the largest may end first.  What is  *)
(* kept is that for every n at most n of them were granted n or less.      *)
(***************************************************************************)
EXTENDS ClaimGate, FiniteSetTheorems, WellFoundedInduction, TLAPS

\* A run that is claimed, committed or not, under a limit that is n or less.
LimitedBy(r, n) ==
    \/ status[r] = "running" /\ cap[r] \in 1 .. n
    \/ \E c \in Claimer : r \in tx[c].taken /\ tx[c].caps[TaskOf[r]] \in 1 .. n

Under(k, n) == {r \in Run : key[r] = k /\ LimitedBy(r, n)}
InUse(k)    == {r \in Run : key[r] = k /\ \E n \in Nat : LimitedBy(r, n)}
Claimed     == {r \in Run : status[r] = "running" \/ \E c \in Claimer : r \in tx[c].taken}

\* Between its key lock and its commit a claim holds the keys it counted, and those
\* of the runs it took under a limit.
LockedBy(c) ==
    /\ tx[c].pc \in {"count", "flip"} =>
          tx[c].todo # {} /\ HeadCap(c) > 0 /\ keyLock[KeyOf(Head(c))] = c
    /\ \A r \in tx[c].taken : tx[c].caps[TaskOf[r]] > 0 => keyLock[KeyOf(r)] = c

\* What a claim counted is still so when it flips.
RoomOf(c) == tx[c].pc = "flip" => Cardinality(InUse(KeyOf(Head(c)))) < HeadCap(c)

Stepped ==
    /\ IsFiniteSet(Claimed)
    /\ \A k \in Key, n \in Nat : Cardinality(Under(k, n)) <= n

GateInv == TypeOK /\ ClaimIsolated /\ (\A c \in Claimer : LockedBy(c) /\ RoomOf(c)) /\ Stepped

----------------------------------------------------------------------------
\* The first candidate

LEMMA LeastExists ==
    ASSUME NEW S \in SUBSET Nat, S # {}
    PROVE  \E x \in S : \A y \in S : x <= y
<1>1. IsWellFoundedOn(OpToRel(<, Nat), Nat)
  BY NatLessThanWellFounded
<1>2. PICK x \in S : \A y \in S : ~(<<y, x>> \in OpToRel(<, Nat))
  BY <1>1, WFMin
<1>3. ASSUME NEW y \in S PROVE x <= y
  <2>1. x \in Nat /\ y \in Nat
    OBVIOUS
  <2>2. ~(y < x)
    BY <1>2, <2>1 DEF OpToRel
  <2> QED BY <2>1, <2>2
<1> QED BY <1>3

LEMMA HeadIsCandidate ==
    ASSUME TypeOK, NEW c \in Claimer, tx[c].todo # {}
    PROVE  Head(c) \in tx[c].todo /\ Head(c) \in tx[c].window /\ Head(c) \in Run
<1>1. tx[c].todo \in SUBSET Run /\ tx[c].todo \subseteq tx[c].window
  BY DEF TypeOK, Tx
<1>2. tx[c].todo \in SUBSET Nat
  BY <1>1, GateAssumption
<1>3. \E r \in tx[c].todo : \A x \in tx[c].todo : r <= x
  BY <1>2, LeastExists
<1>4. Head(c) \in tx[c].todo
  BY <1>3 DEF Head
<1> QED BY <1>1, <1>4

LEMMA HeadFrame ==
    ASSUME NEW c \in Claimer, tx'[c].todo = tx[c].todo, tx'[c].caps = tx[c].caps
    PROVE  Head(c)' = Head(c) /\ HeadCap(c)' = HeadCap(c)
<1>1. Head(c)' = Head(c)
  BY Zenon DEF Head
<1> QED BY <1>1 DEF HeadCap

LEMMA KeyOfTyped ==
    ASSUME TypeOK, NEW r \in Run
    PROVE  KeyOf(r) \in Key
  BY GateAssumption DEF TypeOK, KeyOf

----------------------------------------------------------------------------
\* One claim's transaction moves; everybody else's stays.

Moves(c, t) == t \in Tx /\ tx' = [tx EXCEPT ![c] = t]

LEMMA MovesOne ==
    ASSUME TypeOK, NEW c \in Claimer, NEW t, Moves(c, t)
    PROVE  tx'[c] = t /\ tx' \in [Claimer -> Tx] /\ \A d \in Claimer \ {c} : tx'[d] = tx[d]
  BY DEF TypeOK, Moves

LEMMA ScanMoves ==
    ASSUME TypeOK, NEW c \in Claimer, Scan(c)
    PROVE  \E w \in SUBSET {r \in Run : Claimable(r)} :
               Moves(c, [pc |-> "next", window |-> w, todo |-> w, caps |-> limit, taken |-> {}])
<1> DEFINE w == {r \in {x \in Run : Claimable(x)} :
                    Cardinality({x \in {y \in Run : Claimable(y)} : x < r}) < Window}
           t == [pc |-> "next", window |-> w, todo |-> w, caps |-> limit, taken |-> {}]
<1>1. tx' = [tx EXCEPT ![c] = t]
  BY DEF Scan
<1>2. w \in SUBSET {r \in Run : Claimable(r)} /\ w \in SUBSET Run
  OBVIOUS
<1> HIDE DEF w
<1>3. t \in Tx
  BY <1>2 DEF Tx, TypeOK
<1> QED BY <1>1, <1>2, <1>3 DEF Moves

LEMMA TakeKeyMoves ==
    ASSUME TypeOK, NEW c \in Claimer, TakeKey(c)
    PROVE  /\ Moves(c, [tx[c] EXCEPT !.pc = "count"])
           /\ tx[c].pc = "next" /\ tx[c].todo # {} /\ HeadCap(c) > 0
  BY DEF TakeKey, Looking, Moves, TypeOK, Tx

LEMMA CountMoves ==
    ASSUME TypeOK, NEW c \in Claimer, Count(c)
    PROVE  /\ tx[c].pc = "count"
           /\ \/ Moves(c, [tx[c] EXCEPT !.pc = "next", !.todo = @ \ {Head(c)}])
              \/ /\ ~(Cardinality(Busy(c, KeyOf(Head(c)))) >= HeadCap(c))
                 /\ Moves(c, [tx[c] EXCEPT !.pc = "flip"])
<1> DEFINE h == Head(c)
           t == [tx[c] EXCEPT !.pc = "next", !.todo = @ \ {h}]
           u == [tx[c] EXCEPT !.pc = "flip"]
<1>1. tx[c] \in Tx /\ tx \in [Claimer -> Tx]
  BY DEF TypeOK
<1>2. CASE Cardinality(Busy(c, KeyOf(Head(c)))) >= HeadCap(c)
  <2>1. tx[c].pc = "count" /\ tx' = [tx EXCEPT ![c].pc = "next", ![c].todo = @ \ {h}]
    BY <1>2 DEF Count
  <2> HIDE DEF h
  <2>2. t \in Tx
    BY <1>1 DEF Tx
  <2>3. tx' = [tx EXCEPT ![c] = t]
    BY <1>1, <2>1 DEF Tx
  <2> QED BY <2>1, <2>2, <2>3 DEF Moves, h
<1>3. CASE ~(Cardinality(Busy(c, KeyOf(Head(c)))) >= HeadCap(c))
  <2>1. tx[c].pc = "count" /\ tx' = [tx EXCEPT ![c].pc = "flip"]
    BY <1>3 DEF Count
  <2>2. u \in Tx
    BY <1>1 DEF Tx
  <2>3. tx' = [tx EXCEPT ![c] = u]
    BY <1>1, <2>1 DEF Tx
  <2> QED BY <1>3, <2>1, <2>2, <2>3 DEF Moves
<1> QED BY <1>2, <1>3

LEMMA FlipMoves ==
    ASSUME TypeOK, NEW c \in Claimer, tx[c].todo # {}, Flip(c)
    PROVE  Moves(c, [tx[c] EXCEPT !.pc = "next", !.todo = @ \ {Head(c)}, !.taken = @ \cup {Head(c)}])
<1> DEFINE h == Head(c)
           t == [tx[c] EXCEPT !.pc = "next", !.todo = @ \ {h}, !.taken = @ \cup {h}]
<1>1. h \in Run
  BY HeadIsCandidate
<1>2. tx[c] \in Tx /\ tx \in [Claimer -> Tx]
  BY DEF TypeOK
<1>3. tx' = [tx EXCEPT ![c].pc = "next", ![c].todo = @ \ {h}, ![c].taken = @ \cup {h}]
  BY DEF Flip
<1> HIDE DEF h
<1>4. t \in Tx
  BY <1>1, <1>2 DEF Tx
<1>5. tx' = [tx EXCEPT ![c] = t]
  BY <1>2, <1>3 DEF Tx
<1> QED BY <1>4, <1>5 DEF Moves, h

LEMMA EndMoves ==
    ASSUME NEW c \in Claimer, Commit(c) \/ Rollback(c)
    PROVE  Moves(c, NoTx) /\ keyLock' = ReleasedLocks(c)
  BY DEF Commit, Rollback, Moves, NoTx, Tx

----------------------------------------------------------------------------
\* What a step of one claim leaves of the others

LEMMA LockedFrame ==
    ASSUME TypeOK, NEW d \in Claimer, LockedBy(d), tx'[d] = tx[d],
           \A k \in Key : keyLock[k] = d => keyLock'[k] = d,
           \A r \in tx[d].window : key'[r] = key[r]
    PROVE  LockedBy(d)'
<1>1. Head(d)' = Head(d) /\ HeadCap(d)' = HeadCap(d)
  BY HeadFrame
<1>2. tx[d].taken \subseteq tx[d].window /\ tx[d].window \subseteq Run
  BY DEF TypeOK, Tx
<1>3. \A r \in tx[d].window : KeyOf(r)' = KeyOf(r) /\ KeyOf(r) \in Key
  BY <1>2, KeyOfTyped DEF KeyOf
<1>4. ASSUME tx[d].pc \in {"count", "flip"} PROVE keyLock'[KeyOf(Head(d))'] = d
  <2>1. Head(d) \in tx[d].window
    BY <1>4, HeadIsCandidate DEF LockedBy
  <2> QED BY <1>1, <1>3, <1>4, <2>1 DEF LockedBy, KeyOf
<1>5. ASSUME NEW r \in tx[d].taken, tx[d].caps[TaskOf[r]] > 0 PROVE keyLock'[KeyOf(r)'] = d
  BY <1>2, <1>3, <1>5 DEF LockedBy
<1> QED BY <1>1, <1>4, <1>5 DEF LockedBy

\* No run is newly limited: the limited runs are some of those that were.
NoneLimited ==
    \A r \in Run, n \in Nat : LimitedBy(r, n)' => LimitedBy(r, n) /\ key'[r] = key[r]

LEMMA InUseFinite ==
    ASSUME Stepped, NEW k
    PROVE  IsFiniteSet(InUse(k)) /\ Cardinality(InUse(k)) \in Nat
<1>1. InUse(k) \subseteq Claimed
  BY DEF InUse, Claimed, LimitedBy
<1> QED BY <1>1, FS_Subset, FS_CardinalityType DEF Stepped

LEMMA RoomFrame ==
    ASSUME TypeOK, Stepped, NEW d \in Claimer, LockedBy(d), RoomOf(d), tx'[d] = tx[d],
           \A r \in tx[d].window : key'[r] = key[r],
           \A k \in Key : keyLock[k] = d => InUse(k)' \subseteq InUse(k)
    PROVE  RoomOf(d)'
<1> SUFFICES ASSUME tx[d].pc = "flip" PROVE Cardinality(InUse(KeyOf(Head(d))))' < HeadCap(d)'
  BY DEF RoomOf
<1>1. Head(d)' = Head(d) /\ HeadCap(d)' = HeadCap(d) /\ HeadCap(d) \in Nat
  <2>1. Head(d) \in Run
    BY HeadIsCandidate DEF LockedBy
  <2> QED BY <2>1, HeadFrame, GateAssumption, ZenonT(40) DEF HeadCap, TypeOK, Tx
<1>2. Head(d) \in tx[d].window /\ Head(d) \in Run
  BY HeadIsCandidate DEF LockedBy
<1>3. PICK k \in Key : k = KeyOf(Head(d))
  BY <1>2, KeyOfTyped
<1>4. KeyOf(Head(d))' = k /\ keyLock[k] = d
  BY <1>1, <1>2, <1>3 DEF KeyOf, LockedBy
<1>5. Cardinality(InUse(k)) < HeadCap(d)
  BY <1>3 DEF RoomOf
<1>6. InUse(k)' \subseteq InUse(k)
  BY <1>4
<1>7. InUse(KeyOf(Head(d)))' = InUse(k)'
  BY <1>4 DEF InUse
<1>8. Cardinality(InUse(k)') <= Cardinality(InUse(k)) /\ Cardinality(InUse(k)') \in Nat
  BY <1>6, InUseFinite, FS_Subset, FS_CardinalityType
<1> QED BY <1>1, <1>5, <1>7, <1>8, InUseFinite

LEMMA SteppedFrame ==
    ASSUME Stepped, NoneLimited, Claimed' \subseteq Claimed
    PROVE  Stepped' /\ \A k : InUse(k)' \subseteq InUse(k)
<1>1. \A k : InUse(k)' \subseteq InUse(k)
  BY DEF InUse, NoneLimited
<1>2. IsFiniteSet(Claimed')
  BY FS_Subset DEF Stepped
<1>3. ASSUME NEW k \in Key, NEW n \in Nat PROVE Cardinality(Under(k, n))' <= n
  <2>1. Under(k, n)' \subseteq Under(k, n)
    BY DEF Under, NoneLimited
  <2>2. Under(k, n) \subseteq Claimed
    BY DEF Under, Claimed, LimitedBy
  <2>3. /\ IsFiniteSet(Under(k, n)) /\ Cardinality(Under(k, n)) \in Nat
        /\ Cardinality(Under(k, n)') \in Nat /\ Cardinality(Under(k, n)') <= Cardinality(Under(k, n))
    BY <2>1, <2>2, FS_Subset, FS_CardinalityType DEF Stepped
  <2> QED BY <2>3 DEF Stepped
<1> QED BY <1>1, <1>2, <1>3 DEF Stepped

----------------------------------------------------------------------------
\* Steps outside the claim transactions

LEMMA QuietKeeps ==
    ASSUME GateInv, TypeOK', UNCHANGED <<tx, keyLock>>, NoneLimited, Claimed' \subseteq Claimed,
           \A c \in Claimer : \A r \in tx[c].window : status'[r] = status[r] /\ key'[r] = key[r]
    PROVE  GateInv'
<1>1. ClaimIsolated'
  BY DEF GateInv, ClaimIsolated
<1>2. Stepped' /\ \A k : InUse(k)' \subseteq InUse(k)
  BY SteppedFrame DEF GateInv
<1>3. ASSUME NEW d \in Claimer PROVE LockedBy(d)' /\ RoomOf(d)'
  <2>1. LockedBy(d)'
    BY LockedFrame DEF GateInv
  <2>2. RoomOf(d)'
    BY <1>2, RoomFrame DEF GateInv
  <2> QED BY <2>1, <2>2
<1> QED BY <1>1, <1>2, <1>3 DEF GateInv

LEMMA RegisterKeeps ==
    ASSUME GateInv, NEW t \in Task, NEW n \in Limits, Register(t, n)
    PROVE  GateInv'
<1>1. TypeOK'
  <2>1. limit' \in [Task -> Nat]
    BY GateAssumption DEF Register, GateInv, TypeOK
  <2> QED BY <2>1 DEF Register, GateInv, TypeOK
<1>2. NoneLimited /\ Claimed' \subseteq Claimed
  BY DEF Register, NoneLimited, LimitedBy, Claimed
<1> QED BY <1>1, <1>2, QuietKeeps DEF Register

LEMMA CreateKeeps ==
    ASSUME GateInv, NEW r \in Run, Create(r)
    PROVE  GateInv'
<1>1. TypeOK'
  <2>1. KeyAtCreation(r) \in Key \cup {NoKey}
    BY GateAssumption DEF KeyAtCreation
  <2>2. /\ status' \in [Run -> {"absent", "queued", "running", "ended"}]
        /\ key' \in [Run -> Key \cup {NoKey}]
    BY <2>1 DEF Create, GateInv, TypeOK
  <2> QED BY <2>2 DEF Create, GateInv, TypeOK
<1>2. \A c \in Claimer : r \notin tx[c].window /\ r \notin tx[c].taken
  BY DEF Create, GateInv, ClaimIsolated, TypeOK
<1>3. ASSUME NEW p \in Run, NEW n \in Nat, LimitedBy(p, n)'
      PROVE  LimitedBy(p, n) /\ key'[p] = key[p]
  <2>1. p # r
    BY <1>2, <1>3 DEF Create, LimitedBy, GateInv, TypeOK
  <2> QED BY <1>3, <2>1 DEF Create, LimitedBy, GateInv, TypeOK
<1>4. NoneLimited /\ Claimed' \subseteq Claimed
  BY <1>3 DEF Create, NoneLimited, Claimed, GateInv, TypeOK
<1> QED BY <1>1, <1>2, <1>4, QuietKeeps DEF Create, GateInv, TypeOK

LEMMA EndQueuedKeeps ==
    ASSUME GateInv, NEW r \in Run, EndQueued(r)
    PROVE  GateInv'
<1>1. TypeOK'
  <2>1. status' \in [Run -> {"absent", "queued", "running", "ended"}]
    BY DEF EndQueued, GateInv, TypeOK
  <2> QED BY <2>1 DEF EndQueued, GateInv, TypeOK
<1>2. \A c \in Claimer : r \notin tx[c].window
  BY DEF EndQueued, RowTaken, RowFree
<1>3. NoneLimited /\ Claimed' \subseteq Claimed
  BY DEF EndQueued, NoneLimited, LimitedBy, Claimed, GateInv, TypeOK
<1> QED BY <1>1, <1>2, <1>3, QuietKeeps DEF EndQueued, GateInv, TypeOK

LEMMA StopRunningKeeps ==
    ASSUME GateInv, NEW r \in Run, NEW next \in {"queued", "ended"}, StopRunning(r, next)
    PROVE  GateInv'
<1>1. TypeOK'
  <2>1. /\ status' \in [Run -> {"absent", "queued", "running", "ended"}]
        /\ cap' \in [Run -> Nat]
    BY DEF StopRunning, GateInv, TypeOK
  <2> QED BY <2>1 DEF StopRunning, GateInv, TypeOK
<1>2. \A c \in Claimer : r \notin tx[c].window
  BY DEF StopRunning, GateInv, ClaimIsolated
<1>3. NoneLimited /\ Claimed' \subseteq Claimed
  BY DEF StopRunning, NoneLimited, LimitedBy, Claimed, GateInv, TypeOK
<1> QED BY <1>1, <1>2, <1>3, QuietKeeps DEF StopRunning, GateInv, TypeOK

----------------------------------------------------------------------------
\* Steps of a claim transaction

LEMMA ClaimKeeps ==
    ASSUME GateInv, NEW c \in Claimer, NEW t, Moves(c, t), key' = key,
           TypeOK', ClaimIsolated', NoneLimited, Claimed' \subseteq Claimed,
           \A d \in Claimer \ {c}, k \in Key : keyLock[k] = d => keyLock'[k] = d,
           LockedBy(c)', RoomOf(c)'
    PROVE  GateInv'
<1>1. Stepped' /\ \A k : InUse(k)' \subseteq InUse(k)
  BY SteppedFrame DEF GateInv
<1>2. ASSUME NEW d \in Claimer \ {c} PROVE LockedBy(d)' /\ RoomOf(d)'
  <2>1. tx'[d] = tx[d]
    BY MovesOne DEF GateInv
  <2>2. LockedBy(d)'
    BY <2>1, LockedFrame DEF GateInv
  <2>3. RoomOf(d)'
    BY <1>1, <2>1, RoomFrame DEF GateInv
  <2> QED BY <2>2, <2>3
<1> QED BY <1>1, <1>2 DEF GateInv

\* A transaction that goes on with the rows it has.
LEMMA GoesOn ==
    ASSUME GateInv, NEW c \in Claimer, NEW t, Moves(c, t), t.window = tx[c].window,
           t.taken \cup t.todo \subseteq t.window, t.pc # "idle",
           UNCHANGED <<limit, status, key, cap>>,
           keyLock' \in [Key -> Claimer \cup {Nobody}],
           \A d \in Claimer \ {c}, k \in Key : keyLock'[k] = d <=> keyLock[k] = d
    PROVE  TypeOK' /\ ClaimIsolated'
<1>1. tx'[c] = t /\ tx' \in [Claimer -> Tx] /\ \A d \in Claimer \ {c} : tx'[d] = tx[d]
  BY MovesOne DEF GateInv
<1>2. TypeOK'
  BY <1>1 DEF GateInv, TypeOK
<1>3. \A d \in Claimer : tx'[d].window = tx[d].window
  BY <1>1
<1>4. ClaimIsolated'
  BY <1>3 DEF GateInv, ClaimIsolated
<1> QED BY <1>2, <1>4

LEMMA NothingTaken ==
    ASSUME GateInv, NEW c \in Claimer, NEW t, Moves(c, t), t.caps = tx[c].caps,
           t.taken \subseteq tx[c].taken, UNCHANGED <<status, key, cap>>
    PROVE  NoneLimited /\ Claimed' \subseteq Claimed
<1>1. tx'[c] = t /\ \A d \in Claimer \ {c} : tx'[d] = tx[d]
  BY MovesOne DEF GateInv
<1> QED BY <1>1 DEF NoneLimited, LimitedBy, Claimed

LEMMA TakeKeyKeeps ==
    ASSUME GateInv, NEW c \in Claimer, TakeKey(c)
    PROVE  GateInv'
<1> DEFINE t == [tx[c] EXCEPT !.pc = "count"]
           h == Head(c)
<1>1. /\ Moves(c, t) /\ tx[c].todo # {} /\ HeadCap(c) > 0
      /\ UNCHANGED <<limit, status, key, cap>>
      /\ keyLock[KeyOf(h)] \in {Nobody, c}
      /\ keyLock' = [keyLock EXCEPT ![KeyOf(h)] = c]
  BY TakeKeyMoves DEF GateInv, TakeKey, Grantable
<1>2. h \in Run /\ KeyOf(h) \in Key
  BY <1>1, HeadIsCandidate, KeyOfTyped DEF GateInv
<1>3. /\ t.window = tx[c].window /\ t.taken = tx[c].taken /\ t.todo = tx[c].todo
      /\ t.caps = tx[c].caps /\ t.pc = "count" /\ t.taken \cup t.todo \subseteq t.window
  BY DEF GateInv, TypeOK, Tx
<1>4. tx'[c] = t
  BY <1>1, MovesOne DEF GateInv
<1>5. Head(c)' = h /\ HeadCap(c)' = HeadCap(c) /\ KeyOf(Head(c))' = KeyOf(h)
  BY <1>1, <1>3, <1>4, HeadFrame DEF KeyOf
<1> HIDE DEF t, h
<1>6. /\ keyLock' \in [Key -> Claimer \cup {Nobody}]
      /\ \A d \in Claimer \ {c}, k \in Key : keyLock'[k] = d <=> keyLock[k] = d
      /\ \A k \in Key : keyLock[k] = c => keyLock'[k] = c
      /\ keyLock'[KeyOf(h)] = c
  BY <1>1, <1>2, GateAssumption DEF GateInv, TypeOK
<1>7. TypeOK' /\ ClaimIsolated'
  BY <1>1, <1>3, <1>6, GoesOn
<1>8. NoneLimited /\ Claimed' \subseteq Claimed
  BY <1>1, <1>3, NothingTaken
<1>9. LockedBy(c)' /\ RoomOf(c)'
  <2>1. \A r \in tx[c].taken : KeyOf(r) \in Key /\ KeyOf(r)' = KeyOf(r)
    BY <1>1, KeyOfTyped DEF GateInv, TypeOK, Tx, KeyOf
  <2>2. ASSUME NEW r \in t.taken, t.caps[TaskOf[r]] > 0 PROVE keyLock'[KeyOf(r)'] = c
    BY <1>3, <1>6, <2>1, <2>2 DEF GateInv, LockedBy
  <2>3. keyLock'[KeyOf(Head(c))'] = c
    BY <1>5, <1>6
  <2> QED BY <1>1, <1>3, <1>4, <1>5, <2>2, <2>3 DEF LockedBy, RoomOf
<1> QED BY <1>1, <1>6, <1>7, <1>8, <1>9, ClaimKeeps

\* A claim holds the lock of the key, so the runs in use under it are among those it
\* counts: committed ones, and its own.
LEMMA CountsAllInUse ==
    ASSUME GateInv, NEW c \in Claimer, NEW k \in Key, keyLock[k] = c
    PROVE  /\ InUse(k) \subseteq Busy(c, k)
           /\ Cardinality(InUse(k)) \in Nat /\ Cardinality(Busy(c, k)) \in Nat
           /\ Cardinality(InUse(k)) <= Cardinality(Busy(c, k))
<1>1. ASSUME NEW r \in InUse(k) PROVE r \in Busy(c, k)
  <2>1. r \in Run /\ key[r] = k /\ KeyOf(r) = k
    BY GateAssumption DEF InUse, KeyOf
  <2>2. CASE status[r] = "running"
    BY <2>1, <2>2 DEF Busy
  <2>3. ASSUME NEW d \in Claimer, r \in tx[d].taken, tx[d].caps[TaskOf[r]] > 0
        PROVE  r \in Busy(c, k)
    <3>1. keyLock[k] = d
      BY <2>1, <2>3 DEF GateInv, LockedBy
    <3> QED BY <2>1, <2>3, <3>1 DEF Busy
  <2> QED BY <1>1, <2>2, <2>3 DEF InUse, LimitedBy
<1>2. Busy(c, k) \subseteq Claimed
  BY DEF Busy, Claimed
<1>3. IsFiniteSet(Busy(c, k))
  BY <1>2, FS_Subset DEF GateInv, Stepped
<1> QED BY <1>1, <1>3, FS_Subset, FS_CardinalityType

LEMMA CountKeeps ==
    ASSUME GateInv, NEW c \in Claimer, Count(c)
    PROVE  GateInv'
<1> DEFINE h == Head(c)
           t == [tx[c] EXCEPT !.pc = "next", !.todo = @ \ {h}]
           u == [tx[c] EXCEPT !.pc = "flip"]
<1>1. /\ tx[c].pc = "count" /\ UNCHANGED <<limit, status, key, cap, keyLock>>
      /\ tx[c].todo # {} /\ HeadCap(c) > 0 /\ keyLock[KeyOf(h)] = c
  BY DEF Count, GateInv, LockedBy
<1>2. /\ tx[c] \in Tx /\ tx[c].taken \cup tx[c].todo \subseteq tx[c].window
      /\ keyLock \in [Key -> Claimer \cup {Nobody}]
  BY DEF GateInv, TypeOK
<1>3. ASSUME NEW r \in tx[c].taken, tx[c].caps[TaskOf[r]] > 0 PROVE keyLock'[KeyOf(r)'] = c
  BY <1>1, <1>3 DEF GateInv, LockedBy, KeyOf
<1>4. CASE Moves(c, t)
  <2>1. /\ t.window = tx[c].window /\ t.taken = tx[c].taken /\ t.caps = tx[c].caps
        /\ t.pc = "next" /\ t.taken \cup t.todo \subseteq t.window
    BY <1>2 DEF Tx
  <2>2. tx'[c] = t
    BY <1>4, MovesOne DEF GateInv
  <2> HIDE DEF t
  <2>3. TypeOK' /\ ClaimIsolated'
    BY <1>1, <1>2, <1>4, <2>1, GoesOn
  <2>4. NoneLimited /\ Claimed' \subseteq Claimed
    BY <1>1, <1>4, <2>1, NothingTaken
  <2>5. LockedBy(c)' /\ RoomOf(c)'
    BY <1>3, <2>1, <2>2 DEF LockedBy, RoomOf
  <2> QED BY <1>1, <1>4, <2>3, <2>4, <2>5, ClaimKeeps
<1>5. CASE Moves(c, u) /\ ~(Cardinality(Busy(c, KeyOf(Head(c)))) >= HeadCap(c))
  <2>1. /\ u.window = tx[c].window /\ u.taken = tx[c].taken /\ u.caps = tx[c].caps
        /\ u.todo = tx[c].todo /\ u.pc = "flip" /\ u.taken \cup u.todo \subseteq u.window
    BY <1>2 DEF Tx
  <2>2. tx'[c] = u
    BY <1>5, MovesOne DEF GateInv
  <2> HIDE DEF u
  <2>3. TypeOK' /\ ClaimIsolated'
    BY <1>1, <1>2, <1>5, <2>1, GoesOn
  <2>4. NoneLimited /\ Claimed' \subseteq Claimed
    BY <1>1, <1>5, <2>1, NothingTaken
  <2>5. Head(c)' = h /\ HeadCap(c)' = HeadCap(c) /\ KeyOf(Head(c))' = KeyOf(h)
    BY <1>1, <2>1, <2>2, HeadFrame DEF KeyOf
  <2>6. LockedBy(c)'
    BY <1>1, <1>3, <2>1, <2>2, <2>5 DEF LockedBy
  <2>7. RoomOf(c)'
    <3>1. h \in Run /\ KeyOf(h) \in Key
      BY <1>1, HeadIsCandidate, KeyOfTyped DEF GateInv
    <3>2. HeadCap(c) \in Nat
      BY <1>2, <3>1, GateAssumption DEF HeadCap, Tx
    <3>3. PICK k \in Key : k = KeyOf(h)
      BY <3>1
    <3>4. Cardinality(InUse(k)) < HeadCap(c) /\ Cardinality(InUse(k)) \in Nat
      BY <1>1, <1>5, <3>2, <3>3, CountsAllInUse
    <3>5. InUse(k)' \subseteq InUse(k)
      BY <2>4, SteppedFrame DEF GateInv
    <3>6. Cardinality(InUse(k)') <= Cardinality(InUse(k)) /\ Cardinality(InUse(k)') \in Nat
      BY <3>5, InUseFinite, FS_Subset, FS_CardinalityType DEF GateInv
    <3>7. InUse(KeyOf(Head(c)))' = InUse(k)'
      BY <2>5, <3>3 DEF InUse
    <3> QED BY <2>5, <3>2, <3>4, <3>6, <3>7 DEF RoomOf
  <2> QED BY <1>1, <1>5, <2>3, <2>4, <2>6, <2>7, ClaimKeeps
<1> QED BY <1>4, <1>5, CountMoves DEF GateInv

\* COMMIT and ROLLBACK: nobody else's lock is touched.
LEMMA EndKeeps ==
    ASSUME GateInv, NEW c \in Claimer, Commit(c) \/ Rollback(c)
    PROVE  GateInv'
<1>1. Moves(c, NoTx) /\ keyLock' = ReleasedLocks(c) /\ key' = key /\ limit' = limit
  BY EndMoves DEF Commit, Rollback
<1>2. tx'[c] = NoTx /\ tx' \in [Claimer -> Tx] /\ \A d \in Claimer \ {c} : tx'[d] = tx[d]
  BY <1>1, MovesOne DEF GateInv
<1>3. /\ keyLock' \in [Key -> Claimer \cup {Nobody}]
      /\ \A k \in Key : keyLock'[k] # c
      /\ \A d \in Claimer \ {c}, k \in Key : keyLock'[k] = d <=> keyLock[k] = d
  BY <1>1, GateAssumption DEF ReleasedLocks, GateInv, TypeOK
<1>4. /\ NoTx.pc = "idle" /\ NoTx.window = {} /\ NoTx.taken = {} /\ NoTx.todo = {}
      /\ \A t \in Task : NoTx.caps[t] = 0
  BY DEF NoTx
<1>5. /\ status' \in [Run -> {"absent", "queued", "running", "ended"}]
      /\ cap' \in [Run -> Nat]
      /\ \A r \in Run : status'[r] # status[r] => r \in tx[c].window
      /\ \A r \in Run, n \in Nat :
            status'[r] = "running" /\ cap'[r] \in 1 .. n =>
                \/ status[r] = "running" /\ cap[r] \in 1 .. n
                \/ r \in tx[c].taken /\ tx[c].caps[TaskOf[r]] \in 1 .. n
      /\ \A r \in Run : status'[r] = "running" => status[r] = "running" \/ r \in tx[c].taken
  <2>1. CASE Commit(c)
    BY <2>1, GateAssumption DEF Commit, GateInv, TypeOK, Tx
  <2>2. CASE Rollback(c)
    BY <2>2 DEF Rollback, GateInv, TypeOK
  <2> QED BY <2>1, <2>2
<1>6. TypeOK'
  <2>1. \A d \in Claimer : tx'[d].taken \cup tx'[d].todo \subseteq tx'[d].window
    BY <1>2, <1>4 DEF GateInv, TypeOK
  <2>2. \A k \in Key, d \in Claimer : keyLock'[k] = d => tx'[d].pc # "idle"
    BY <1>2, <1>3 DEF GateInv, TypeOK
  <2> QED BY <1>1, <1>2, <1>3, <1>5, <2>1, <2>2 DEF GateInv, TypeOK
<1>7. ClaimIsolated'
  <2>1. ASSUME NEW d \in Claimer, NEW r \in tx'[d].window PROVE d # c /\ r \in tx[d].window
    BY <1>2, <1>4, <2>1
  <2>2. ASSUME NEW d \in Claimer, NEW r \in tx'[d].window PROVE status'[r] = "queued"
    <3>1. r \in Run /\ r \notin tx[c].window /\ status[r] = "queued"
      BY <2>1, <2>2 DEF GateInv, ClaimIsolated, TypeOK, Tx
    <3> QED BY <1>5, <3>1
  <2> QED BY <2>1, <2>2 DEF GateInv, ClaimIsolated
<1>8. NoneLimited /\ Claimed' \subseteq Claimed
  <2>1. ASSUME NEW r \in Run, NEW n \in Nat, LimitedBy(r, n)' PROVE LimitedBy(r, n)
    BY <1>2, <1>4, <1>5, <2>1 DEF LimitedBy
  <2> QED BY <1>1, <1>2, <1>4, <1>5, <2>1 DEF NoneLimited, Claimed
<1>9. LockedBy(c)' /\ RoomOf(c)'
  BY <1>2, <1>4 DEF LockedBy, RoomOf
<1> QED BY <1>1, <1>3, <1>6, <1>7, <1>8, <1>9, ClaimKeeps

LEMMA ScanKeeps ==
    ASSUME GateInv, NEW c \in Claimer, Scan(c)
    PROVE  GateInv'
<1>1. PICK w \in SUBSET {r \in Run : Claimable(r)} :
          Moves(c, [pc |-> "next", window |-> w, todo |-> w, caps |-> limit, taken |-> {}])
  BY ScanMoves DEF GateInv
<1> DEFINE t == [pc |-> "next", window |-> w, todo |-> w, caps |-> limit, taken |-> {}]
<1>2. t.pc = "next" /\ t.window = w /\ t.todo = w /\ t.taken = {}
  OBVIOUS
<1>3. tx'[c] = t /\ tx' \in [Claimer -> Tx] /\ \A d \in Claimer \ {c} : tx'[d] = tx[d]
  BY <1>1, MovesOne DEF GateInv
<1> HIDE DEF t
<1>4. UNCHANGED <<limit, status, key, cap, keyLock>> /\ tx[c].pc = "idle"
  BY DEF Scan
<1>5. TypeOK'
  BY <1>2, <1>3, <1>4 DEF GateInv, TypeOK
<1>6. ClaimIsolated'
  <2>1. \A r \in w : status[r] = "queued" /\ \A d \in Claimer : r \notin tx[d].window
    BY DEF Claimable, RowFree
  <2> QED BY <1>2, <1>3, <1>4, <2>1 DEF GateInv, ClaimIsolated
<1>7. NoneLimited /\ Claimed' \subseteq Claimed
  <2>1. ASSUME NEW r \in Run, NEW n \in Nat, LimitedBy(r, n)' PROVE LimitedBy(r, n)
    BY <1>2, <1>3, <1>4, <2>1 DEF LimitedBy
  <2> QED BY <1>2, <1>3, <1>4, <2>1 DEF NoneLimited, Claimed
<1>8. LockedBy(c)' /\ RoomOf(c)'
  BY <1>2, <1>3 DEF LockedBy, RoomOf
<1> QED BY <1>1, <1>4, <1>5, <1>6, <1>7, <1>8, ClaimKeeps DEF t

\* The flip is where a run is newly limited: it fits, because of what was counted.
LEMMA FlipKeeps ==
    ASSUME GateInv, NEW c \in Claimer, Flip(c)
    PROVE  GateInv'
<1> DEFINE t == [tx[c] EXCEPT !.pc = "next", !.todo = @ \ {Head(c)}, !.taken = @ \cup {Head(c)}]
<1>1. /\ tx[c].todo # {} /\ UNCHANGED <<limit, status, key, cap, keyLock>>
      /\ HeadCap(c) = 0 \/ tx[c].pc = "flip"
  BY DEF Flip, Looking, GateInv, LockedBy
<1>2. Moves(c, t)
  BY <1>1, FlipMoves DEF GateInv
<1>3. PICK h \in Run : h = Head(c)
  BY <1>1, HeadIsCandidate DEF GateInv
<1>4. h \in tx[c].window /\ h \in tx[c].todo /\ KeyOf(h) \in Key
  BY <1>1, <1>3, HeadIsCandidate, KeyOfTyped DEF GateInv
<1>5. PICK n \in Nat : n = HeadCap(c)
  BY <1>3, GateAssumption DEF GateInv, TypeOK, Tx, HeadCap
<1>6. n > 0 => /\ tx[c].pc = "flip" /\ keyLock[KeyOf(h)] = c
               /\ Cardinality(InUse(KeyOf(h))) < n
  BY <1>1, <1>3, <1>5 DEF GateInv, LockedBy, RoomOf
<1>7. /\ t.window = tx[c].window /\ t.caps = tx[c].caps /\ t.pc = "next"
      /\ t.taken = tx[c].taken \cup {h} /\ t.todo \subseteq tx[c].todo
      /\ t.taken \cup t.todo \subseteq t.window
      /\ tx[c].caps[TaskOf[h]] = n
  <2>1. tx[c] \in Tx /\ tx[c].taken \cup tx[c].todo \subseteq tx[c].window
    BY DEF GateInv, TypeOK
  <2> QED BY <1>3, <1>4, <1>5, <2>1 DEF Tx, HeadCap
<1>8. tx'[c] = t /\ \A d \in Claimer \ {c} : tx'[d] = tx[d]
  BY <1>2, MovesOne DEF GateInv
<1> HIDE DEF t
<1>9. TypeOK' /\ ClaimIsolated'
  <2>1. keyLock \in [Key -> Claimer \cup {Nobody}]
    BY DEF GateInv, TypeOK
  <2> QED BY <1>1, <1>2, <1>7, <2>1, GoesOn
\* Only the head is newly limited, and by its cap.
<1>10. ASSUME NEW r \in Run, NEW m \in Nat, LimitedBy(r, m)'
       PROVE  LimitedBy(r, m) \/ (r = h /\ n \in 1 .. m)
  BY <1>1, <1>7, <1>8, <1>10 DEF LimitedBy
<1>11. Claimed' \subseteq Claimed \cup {h}
  BY <1>1, <1>7, <1>8 DEF Claimed
<1>12. IsFiniteSet(Claimed) /\ IsFiniteSet(Claimed')
  BY <1>11, FS_AddElement, FS_Subset DEF GateInv, Stepped
<1>13. \A k \in Key : key[h] = k => KeyOf(h) = k
  BY GateAssumption DEF KeyOf
<1>14. ASSUME NEW k \in Key, keyLock[k] # c PROVE InUse(k)' \subseteq InUse(k)
  <2>1. ASSUME NEW r \in InUse(k)' PROVE r \in InUse(k)
    <3>1. PICK m \in Nat : r \in Run /\ key[r] = k /\ LimitedBy(r, m)'
      BY <1>1, <2>1 DEF InUse
    <3>2. ~(r = h /\ n \in 1 .. m)
      BY <1>6, <1>13, <1>14, <3>1
    <3> QED BY <1>10, <3>1, <3>2 DEF InUse
  <2> QED BY <2>1
<1>15. ASSUME NEW k \in Key, NEW m \in Nat PROVE Cardinality(Under(k, m))' <= m
  <2>1. \A r \in Under(k, m)' : r \in Run /\ key[r] = k /\ LimitedBy(r, m)'
    BY <1>1 DEF Under
  <2>2. Under(k, m) \subseteq Claimed /\ Under(k, m)' \subseteq Claimed'
    BY DEF Under, Claimed, LimitedBy
  <2>3. /\ IsFiniteSet(Under(k, m)) /\ Cardinality(Under(k, m)) \in Nat
        /\ IsFiniteSet(Under(k, m)') /\ Cardinality(Under(k, m)') \in Nat
    BY <1>12, <2>2, FS_Subset, FS_CardinalityType
  <2>4. CASE Under(k, m)' \subseteq Under(k, m)
    BY <2>3, <2>4, FS_Subset DEF GateInv, Stepped
  <2>5. CASE ~(Under(k, m)' \subseteq Under(k, m))
    <3>1. key[h] = k /\ n \in 1 .. m
      BY <1>10, <2>1, <2>5 DEF Under
    <3>2. Cardinality(InUse(k)) < n
      BY <1>6, <1>13, <3>1
    <3>3. Under(k, m)' \subseteq InUse(k) \cup {h}
      BY <1>10, <2>1 DEF InUse
    <3>4. /\ IsFiniteSet(InUse(k)) /\ Cardinality(InUse(k)) \in Nat
      BY InUseFinite DEF GateInv
    <3>5. /\ IsFiniteSet(InUse(k) \cup {h})
          /\ Cardinality(InUse(k) \cup {h}) <= Cardinality(InUse(k)) + 1
          /\ Cardinality(InUse(k) \cup {h}) \in Nat
      <4>1. /\ IsFiniteSet(InUse(k) \cup {h})
            /\ Cardinality(InUse(k) \cup {h}) =
                   IF h \in InUse(k) THEN Cardinality(InUse(k)) ELSE Cardinality(InUse(k)) + 1
        BY <3>4, FS_AddElement
      <4> QED BY <3>4, <4>1
    <3>6. Cardinality(Under(k, m)') <= Cardinality(InUse(k) \cup {h})
      BY <3>3, <3>5, FS_Subset
    <3> QED BY <2>3, <3>1, <3>2, <3>4, <3>5, <3>6
  <2> QED BY <2>4, <2>5
<1>16. Stepped'
  BY <1>12, <1>15 DEF Stepped
<1>17. ASSUME NEW d \in Claimer \ {c} PROVE LockedBy(d)' /\ RoomOf(d)'
  <2>1. LockedBy(d)'
    BY <1>1, <1>8, LockedFrame DEF GateInv
  <2>2. \A k \in Key : keyLock[k] = d => InUse(k)' \subseteq InUse(k)
    BY <1>14
  <2>3. RoomOf(d)'
    BY <1>1, <1>8, <2>2, RoomFrame DEF GateInv
  <2> QED BY <2>1, <2>3
<1>18. LockedBy(c)' /\ RoomOf(c)'
  <2>1. ASSUME NEW r \in t.taken, t.caps[TaskOf[r]] > 0 PROVE keyLock'[KeyOf(r)'] = c
    <3>1. KeyOf(r)' = KeyOf(r)
      BY <1>1 DEF KeyOf
    <3> QED BY <1>1, <1>6, <1>7, <2>1, <3>1 DEF GateInv, LockedBy
  <2> QED BY <1>7, <1>8, <2>1 DEF LockedBy, RoomOf
<1> QED BY <1>9, <1>16, <1>17, <1>18 DEF GateInv

----------------------------------------------------------------------------
LEMMA GateInvInit == Init => GateInv
<1> SUFFICES ASSUME Init PROVE GateInv
  OBVIOUS
<1>1. TypeOK
  BY GateAssumption DEF Init, TypeOK, NoTx, Tx
<1>2. ClaimIsolated /\ \A c \in Claimer : LockedBy(c) /\ RoomOf(c)
  BY DEF Init, NoTx, ClaimIsolated, LockedBy, RoomOf
<1>3. Claimed = {} /\ \A k \in Key, n \in Nat : Under(k, n) = {}
  BY DEF Init, NoTx, Claimed, Under, LimitedBy
<1>4. Stepped
  BY <1>3, FS_EmptySet DEF Stepped
<1> QED BY <1>1, <1>2, <1>4 DEF GateInv

LEMMA GateInvStep == GateInv /\ [Next]_vars => GateInv'
<1> SUFFICES ASSUME GateInv, [Next]_vars PROVE GateInv'
  OBVIOUS
<1>1. CASE UNCHANGED vars
  <2>1. TypeOK' /\ NoneLimited /\ Claimed' \subseteq Claimed
    BY <1>1 DEF vars, GateInv, TypeOK, NoneLimited, LimitedBy, Claimed
  <2> QED BY <1>1, <2>1, QuietKeeps DEF vars
<1>2. ASSUME NEW c \in Claimer, Scan(c) \/ ClaimStep(c) \/ Rollback(c) PROVE GateInv'
  BY <1>2, ScanKeeps, TakeKeyKeeps, CountKeeps, FlipKeeps, EndKeeps DEF ClaimStep, DeadlockVictim
<1>3. ASSUME NEW t \in Task, NEW n \in Limits, Register(t, n) PROVE GateInv'
  BY <1>3, RegisterKeeps
<1>4. ASSUME NEW r \in Run, Create(r) \/ EndQueued(r) PROVE GateInv'
  BY <1>4, CreateKeeps, EndQueuedKeeps
<1>5. ASSUME NEW r \in Run, NEW next \in {"queued", "ended"}, StopRunning(r, next) PROVE GateInv'
  BY <1>5, StopRunningKeeps
<1> QED BY <1>1, <1>2, <1>3, <1>4, <1>5 DEF Next

LEMMA GateInvAlways == Spec => []GateInv
  BY GateInvInit, GateInvStep, PTL DEF Spec

\* A claim may be read as one step: from its scan to its commit or rollback nothing else
\* moves a run whose queue row it holds.  (queue.ts claimRuns, FOR UPDATE SKIP LOCKED)
THEOREM ClaimsAreIsolated == Spec => []ClaimIsolated
<1>1. GateInv => ClaimIsolated
  BY DEF GateInv
<1> QED BY <1>1, GateInvAlways, PTL

\* Of the runs that carry a key and were claimed under a limit, one was granted a limit
\* that covers them all, whatever the tasks and their limits become.
KeyedLimitHeld ==
    \A k \in Key :
        LET limited == {r \in Run : status[r] = "running" /\ key[r] = k /\ cap[r] > 0} IN
        limited # {} => \E r \in limited : Cardinality(limited) <= cap[r]

LEMMA SomeLimitCovers == GateInv => KeyedLimitHeld
<1> SUFFICES ASSUME GateInv, NEW k \in Key,
                    NEW limited, limited = {r \in Run : status[r] = "running" /\ key[r] = k /\ cap[r] > 0},
                    limited # {}
             PROVE  \E r \in limited : Cardinality(limited) <= cap[r]
  BY DEF KeyedLimitHeld
<1>1. limited \subseteq Claimed
  BY DEF Claimed
<1>2. IsFiniteSet(limited) /\ Cardinality(limited) \in Nat
  BY <1>1, FS_Subset, FS_CardinalityType DEF GateInv, Stepped
<1>3. Cardinality(limited) # 0
  BY <1>2, FS_EmptySet
<1> SUFFICES ASSUME \A r \in limited : ~(Cardinality(limited) <= cap[r]) PROVE FALSE
  OBVIOUS
<1> DEFINE n == Cardinality(limited) - 1
<1>4. n \in Nat /\ n + 1 = Cardinality(limited)
  BY <1>2, <1>3
<1> HIDE DEF n
<1>5. \A r \in limited : cap[r] \in 1 .. n
  BY <1>4 DEF GateInv, TypeOK
<1>6. limited \subseteq Under(k, n)
  BY <1>5 DEF Under, LimitedBy
<1>7. Under(k, n) \subseteq Claimed
  BY DEF Under, Claimed, LimitedBy
<1>8. /\ IsFiniteSet(Under(k, n)) /\ Cardinality(Under(k, n)) \in Nat
      /\ Cardinality(limited) <= Cardinality(Under(k, n))
  <2>1. IsFiniteSet(Under(k, n))
    BY <1>7, FS_Subset DEF GateInv, Stepped
  <2> QED BY <1>6, <2>1, FS_Subset, FS_CardinalityType
<1> QED BY <1>4, <1>8 DEF GateInv, Stepped

THEOREM KeyedLimitIsHeld == Spec => []KeyedLimitHeld
  BY SomeLimitCovers, GateInvAlways, PTL

\* LimitHeld counts a run without a recorded key under its task's default key, as the
\* next claim means to.  A run has a key if its trigger names one or its task has a limit
\* when it is created: so where every trigger names a key, or limits are declared before
\* the first run and never withdrawn, the limit holds.  Without this it does not.
EveryRunKeyed ==
    \A r \in Run : AskedKey[r] # NoKey \/ (InitialLimit[TaskOf[r]] > 0 /\ 0 \notin Limits)

KeyedInv ==
    \A r \in Run :
        /\ status[r] # "absent" => key[r] \in Key
        /\ AskedKey[r] = NoKey => limit[TaskOf[r]] > 0

LEMMA KeyedInvAlways ==
    ASSUME EveryRunKeyed
    PROVE  Spec => []KeyedInv
<1> USE GateAssumption
<1>1. Init => KeyedInv
  BY DEF Init, KeyedInv, EveryRunKeyed
<1>2. GateInv /\ KeyedInv /\ [Next]_vars => KeyedInv'
  <2> SUFFICES ASSUME GateInv, KeyedInv, [Next]_vars PROVE KeyedInv'
    OBVIOUS
  <2>1. CASE UNCHANGED vars
    BY <2>1 DEF vars, KeyedInv
  <2>2. ASSUME NEW c \in Claimer, Scan(c) \/ TakeKey(c) \/ Count(c) \/ Flip(c) \/ Rollback(c)
        PROVE  KeyedInv'
    BY <2>2 DEF Scan, TakeKey, Count, Flip, Rollback, KeyedInv
  <2>3. ASSUME NEW c \in Claimer, Commit(c) PROVE KeyedInv'
    <3>1. \A r \in tx[c].taken : status[r] = "queued"
      BY DEF GateInv, TypeOK, ClaimIsolated
    <3> QED BY <2>3, <3>1 DEF Commit, KeyedInv
  <2>4. ASSUME NEW t \in Task, NEW n \in Limits, Register(t, n) PROVE KeyedInv'
    <3>1. ASSUME NEW r \in Run, AskedKey[r] = NoKey PROVE limit'[TaskOf[r]] > 0
      <4>1. limit[TaskOf[r]] > 0 /\ n \in Nat /\ n # 0
        BY <3>1 DEF KeyedInv, EveryRunKeyed
      <4> QED BY <2>4, <4>1 DEF Register, GateInv, TypeOK
    <3> QED BY <2>4, <3>1 DEF Register, KeyedInv
  <2>5. ASSUME NEW r \in Run, Create(r) PROVE KeyedInv'
    <3>1. KeyAtCreation(r) \in Key
      BY DEF KeyAtCreation, KeyedInv
    <3> QED BY <2>5, <3>1 DEF Create, KeyedInv, GateInv, TypeOK
  <2>6. ASSUME NEW r \in Run, EndQueued(r) PROVE KeyedInv'
    BY <2>6 DEF EndQueued, KeyedInv, GateInv, TypeOK
  <2>7. ASSUME NEW r \in Run, NEW next \in {"queued", "ended"}, StopRunning(r, next) PROVE KeyedInv'
    BY <2>7 DEF StopRunning, KeyedInv, GateInv, TypeOK
  <2> QED
    BY <2>1, <2>2, <2>3, <2>4, <2>5, <2>6, <2>7 DEF Next, ClaimStep, DeadlockVictim
<1> QED BY <1>1, <1>2, GateInvAlways, PTL DEF Spec

\* The concurrency limit holds, for any number of claims side by side, whatever fails,
\* whenever limits change.  (queue.ts tryClaimOne, runs-create.ts createRunIn)
THEOREM LimitIsHeld ==
    ASSUME EveryRunKeyed
    PROVE  Spec => []LimitHeld
<1>1. GateInv /\ KeyedInv => LimitHeld
  <2> SUFFICES ASSUME GateInv, KeyedInv, NEW k \in Key
               PROVE  LET limited == {r \in Run : status[r] = "running" /\ KeyOf(r) = k /\ cap[r] > 0}
                      IN  limited # {} => \E r \in limited : Cardinality(limited) <= cap[r]
    BY DEF LimitHeld
  <2>1. \A r \in Run : status[r] = "running" => KeyOf(r) = key[r]
    BY GateAssumption DEF KeyedInv, KeyOf
  <2>2. {r \in Run : status[r] = "running" /\ KeyOf(r) = k /\ cap[r] > 0}
            = {r \in Run : status[r] = "running" /\ key[r] = k /\ cap[r] > 0}
    BY <2>1
  <2> QED BY <2>2, SomeLimitCovers DEF KeyedLimitHeld
<1> QED BY <1>1, GateInvAlways, KeyedInvAlways, PTL
=============================================================================
