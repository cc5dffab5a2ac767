---------------------------- MODULE ReplayProofs ----------------------------
(***************************************************************************)
(* Theorems about Replay, for any number of executions and of concurrent   *)
(* branches, any call sites and any ledger: what a claim has done is done  *)
(* once, and neither a signal nor an abort is followed by what it forbids. *)
(***************************************************************************)
EXTENDS Replay, TLAPS

Row    == {NoRow} \cup {RowOf(c) : c \in Calls} \cup {LegacyRow(c) : c \in Legacy}
At     == {"off", "user", "left", "body", "call", "thrown", "validate", "run", "over"} \cup Answers
Err    == {"none", "suspend", "done", "plain", "abort"}
MainOp == {"none", "complete", "fail", "failAbort", "refuse"}
CodeOp == {"none", "report", "wait", "reportFailed", "fail", "failAbort"}
Result == {"none", "completed", "suspended", "abandoned", "failed", "thrown"}
Part(ops) == [at : At, op : ops, pos : Nat, call : Calls \cup {None}, err : Err]
Mind      == [seq : Nat, view : [Pos -> Row], abandoned : BOOLEAN, signal : {"none", "suspend", "done"},
              canceled : BOOLEAN, told : BOOLEAN, result : Result]
Ends      == {<<>>, <<"completed">>, <<"suspended">>, <<"failed">>}

Shapes ==
    /\ status \in {"queued", "running", "waiting", "completed", "failed", "canceled"}
    /\ holder \in Exec \cup {None}
    /\ ledger \in [Pos -> Row]
    /\ status = "waiting" => parked.pos \in Pos /\ parked.call \in Calls
    /\ main \in [Exec -> Part(MainOp)]
    /\ branch \in [Exec -> [Branch -> Part(CodeOp)]]
    /\ mind \in [Exec -> Mind]
    /\ ends \in [Exec -> Ends]

\* A position somebody works at is that branch's own.
Placed ==
    \A e \in Exec, b \in Branch : Working(branch[e][b]) =>
        /\ branch[e][b].call \in Calls
        /\ branch[e][b].pos \in Pos /\ branch[e][b].pos < mind[e].seq
        /\ \A c \in Branch \ {b} : Working(branch[e][c]) => branch[e][c].pos # branch[e][b].pos

\* The snapshot of whoever holds the claim is the ledger, but for the positions it has
\* taken; and where it works the ledger has nothing.
Current(e) ==
    /\ \A q \in Pos : q >= mind[e].seq => ledger[q] = mind[e].view[q]
    /\ \A b \in Branch : Working(branch[e][b]) => ledger[branch[e][b].pos] = NoRow
SnapshotHolds == \A e \in Exec : Accepted(e) => Current(e)

\* Whoever is believed to have ended the run has done so, and once.
Unended == \A e \in Exec : main[e] = Idle \/ Accepted(e) => ends[e] = <<>>
Unclaimed == \A e \in Exec : main[e] = Idle => holder # e
EndIsTrue(e) ==
    /\ main[e].op = "complete" /\ main[e].at = "ok" => ends[e] = <<"completed">>
    /\ mind[e].signal = "suspend" => ends[e] = <<"suspended">>
    /\ \A b \in Branch :
          branch[e][b].err = "suspend" \/ (branch[e][b].op = "wait" /\ branch[e][b].at = "ok")
              => ends[e] = <<"suspended">>
    /\ mind[e].result \in {"completed", "suspended"} => ends[e] = <<mind[e].result>>

ReplayInv == Shapes /\ Placed /\ SnapshotHolds /\ Unended /\ Unclaimed /\ \A e \in Exec : EndIsTrue(e)

LEMMA RowsAreRows ==
    /\ NoRow \in Row
    /\ \A c \in Calls : RowOf(c) \in Row
    /\ \A c \in Legacy : LegacyRow(c) \in Row
  BY DEF Row

LEMMA Parts ==
    /\ Idle \in Part(MainOp) /\ Idle \in Part(CodeOp)
    /\ UserCode \in Part(CodeOp) /\ Left \in Part(CodeOp)
    /\ ~Working(Idle) /\ ~Working(UserCode) /\ ~Working(Left)
    /\ Idle.at = "off" /\ Idle.op = "none" /\ Idle.err = "none"
    /\ UserCode.at = "user" /\ UserCode.op = "none" /\ UserCode.err = "none"
    /\ Left.at = "left" /\ Left.op = "none" /\ Left.err = "none"
  BY DEF Idle, UserCode, Left, NoErr, Part, Working, At, Err, MainOp, CodeOp

LEMMA UnbornIsMind ==
    Unborn \in Mind /\ Unborn.seq = 0 /\ Unborn.signal = "none" /\ Unborn.result = "none"
<1>1. [q \in Pos |-> NoRow] \in [Pos -> Row]
  BY RowsAreRows
<1> QED BY <1>1 DEF Unborn, Mind, Result

LEMMA ReplayInvInit == ReplayInit => ReplayInv
<1> SUFFICES ASSUME ReplayInit PROVE ReplayInv
  OBVIOUS
<1> USE ReplayAssumption
<1>1. ledger \in [Pos -> Row]
  BY RowsAreRows DEF ReplayInit
<1>2. Shapes
  BY <1>1, Parts, UnbornIsMind DEF ReplayInit, Shapes, Ends
<1>3. Placed /\ SnapshotHolds /\ Unended /\ Unclaimed
  BY Parts DEF ReplayInit, Placed, SnapshotHolds, Accepted, Unended, Unclaimed
<1>4. \A e \in Exec : EndIsTrue(e)
  BY Parts, UnbornIsMind DEF ReplayInit, EndIsTrue
<1> QED BY <1>2, <1>3, <1>4 DEF ReplayInv

LEMMA ReplayInvHolds == ReplayInv => NothingDoneTwice
<1> SUFFICES ASSUME ReplayInv PROVE NothingDoneTwice
  OBVIOUS
<1>1. RecordedNeverReruns
  BY DEF ReplayInv, SnapshotHolds, Current, RecordedNeverReruns
<1>2. \A e \in Exec : Len(ends[e]) <= 1
  <2>1. ASSUME NEW s \in Ends PROVE Len(s) <= 1
    <3>1. CASE s = <<>>
      BY <3>1
    <3>2. CASE \E how \in {"completed", "suspended", "failed"} : s = <<how>>
      BY <3>2
    <3> QED BY <3>1, <3>2 DEF Ends
  <2> QED BY <2>1 DEF ReplayInv, Shapes
<1>3. \A e \in Exec : mind[e].result \in {"completed", "suspended"} => ends[e] = <<mind[e].result>>
  BY DEF ReplayInv, EndIsTrue
<1> QED BY <1>1, <1>2, <1>3 DEF NothingDoneTwice, OneEndPerClaim

----------------------------------------------------------------------------
\* Steps inside one process

\* Nobody gets a position that it did not have.
LEMMA PlacesKept ==
    ASSUME Shapes, Placed, mind' \in [Exec -> Mind],
           \A x \in Exec : mind'[x].seq >= mind[x].seq,
           \A x \in Exec, b \in Branch : Working(branch'[x][b]) =>
               /\ Working(branch[x][b])
               /\ branch'[x][b].pos = branch[x][b].pos /\ branch'[x][b].call = branch[x][b].call
    PROVE  Placed'
<1>1. /\ \A x \in Exec : mind[x].seq \in Nat /\ mind'[x].seq \in Nat
      /\ \A x \in Exec, b \in Branch : branch[x][b].pos \in Nat
  BY DEF Shapes, Mind, Part
<1> SUFFICES ASSUME NEW x \in Exec, NEW b \in Branch, Working(branch'[x][b])
             PROVE  /\ branch'[x][b].call \in Calls
                    /\ branch'[x][b].pos \in Pos /\ branch'[x][b].pos < mind'[x].seq
                    /\ \A c \in Branch \ {b} : Working(branch'[x][c]) =>
                           branch'[x][c].pos # branch'[x][b].pos
  BY DEF Placed
<1>2. /\ branch[x][b].call \in Calls /\ branch[x][b].pos \in Pos
      /\ branch[x][b].pos < mind[x].seq
      /\ \A c \in Branch \ {b} : Working(branch[x][c]) => branch[x][c].pos # branch[x][b].pos
  BY DEF Placed
<1> QED BY <1>1, <1>2

\* The kernel stands still (but for its count of attempts).
LEMMA LocalKeeps ==
    ASSUME ReplayInv, NEW e \in Exec, UNCHANGED <<status, holder, ledger, parked, ends>>,
           main' \in [Exec -> Part(MainOp)], branch' \in [Exec -> [Branch -> Part(CodeOp)]],
           mind' \in [Exec -> Mind],
           \A x \in Exec \ {e} : /\ main'[x] = main[x] /\ branch'[x] = branch[x]
                                /\ mind'[x] = mind[x],
           mind'[e].seq >= mind[e].seq, mind'[e].view = mind[e].view,
           \A b \in Branch : Working(branch'[e][b]) =>
               /\ Working(branch[e][b])
               /\ branch'[e][b].pos = branch[e][b].pos /\ branch'[e][b].call = branch[e][b].call,
           main'[e] = Idle => main[e] = Idle,
           EndIsTrue(e)'
    PROVE  ReplayInv'
<1>1. Shapes'
  BY DEF ReplayInv, Shapes
<1>2. \A x \in Exec : mind[x].seq \in Nat /\ mind'[x].seq \in Nat
  BY DEF ReplayInv, Shapes, Mind
<1>3. \A x \in Exec : mind'[x].seq >= mind[x].seq /\ mind'[x].view = mind[x].view
  BY <1>2
<1>4. \A x \in Exec, b \in Branch : Working(branch'[x][b]) =>
          /\ Working(branch[x][b])
          /\ branch'[x][b].pos = branch[x][b].pos /\ branch'[x][b].call = branch[x][b].call
  OBVIOUS
<1>5. Placed'
  BY <1>3, <1>4, PlacesKept DEF ReplayInv
<1>6. ASSUME NEW x \in Exec, Accepted(x)' PROVE Current(x)'
  <2>1. Current(x)
    BY <1>6 DEF ReplayInv, SnapshotHolds, Accepted
  <2>2. ASSUME NEW q \in Pos, q >= mind'[x].seq PROVE ledger'[q] = mind'[x].view[q]
    <3>1. q \in Nat
      BY DEF Pos
    <3>2. q >= mind[x].seq
      BY <1>2, <1>3, <2>2, <3>1
    <3> QED BY <1>3, <2>1, <3>2 DEF Current
  <2>3. \A b \in Branch : Working(branch'[x][b]) => ledger'[branch'[x][b].pos] = NoRow
    BY <1>4, <2>1 DEF Current
  <2> QED BY <2>2, <2>3 DEF Current
<1>7. Unended' /\ Unclaimed'
  BY DEF ReplayInv, Unended, Unclaimed, Accepted
<1>8. \A x \in Exec \ {e} : EndIsTrue(x)'
  BY DEF ReplayInv, EndIsTrue
<1> QED BY <1>1, <1>5, <1>6, <1>7, <1>8 DEF ReplayInv, SnapshotHolds

\* One branch moves on, and its executor may learn of it.
LEMMA BranchMoves ==
    ASSUME ReplayInv, NEW e \in Exec, NEW b \in Branch, NEW x \in Part(CodeOp),
           UNCHANGED <<status, holder, ledger, parked, ends, main>>,
           branch' = [branch EXCEPT ![e][b] = x], mind' \in [Exec -> Mind],
           \A y \in Exec \ {e} : mind'[y] = mind[y],
           mind'[e].seq >= mind[e].seq, mind'[e].view = mind[e].view,
           mind'[e].result = mind[e].result,
           mind'[e].signal = "suspend" => ends[e] = <<"suspended">>,
           Working(x) => /\ Working(branch[e][b])
                         /\ x.pos = branch[e][b].pos /\ x.call = branch[e][b].call,
           x.err = "suspend" \/ (x.op = "wait" /\ x.at = "ok") => ends[e] = <<"suspended">>
    PROVE  ReplayInv'
<1>1. branch' \in [Exec -> [Branch -> Part(CodeOp)]]
  BY DEF ReplayInv, Shapes
<1>2. /\ \A y \in Exec \ {e} : branch'[y] = branch[y]
      /\ branch'[e][b] = x
      /\ \A c \in Branch \ {b} : branch'[e][c] = branch[e][c]
  BY DEF ReplayInv, Shapes
<1>3. EndIsTrue(e)'
  <2>1. EndIsTrue(e)
    BY DEF ReplayInv
  <2>2. \A c \in Branch :
           branch'[e][c].err = "suspend" \/ (branch'[e][c].op = "wait" /\ branch'[e][c].at = "ok")
               => ends'[e] = <<"suspended">>
    BY <1>2, <2>1 DEF EndIsTrue
  <2> QED BY <2>1, <2>2 DEF EndIsTrue
<1>4. \A c \in Branch : Working(branch'[e][c]) =>
          /\ Working(branch[e][c])
          /\ branch'[e][c].pos = branch[e][c].pos /\ branch'[e][c].call = branch[e][c].call
  BY <1>2
<1>5. main' \in [Exec -> Part(MainOp)]
  BY DEF ReplayInv, Shapes
<1> QED BY <1>1, <1>2, <1>3, <1>4, <1>5, LocalKeeps

\* run() or its wrap-up moves on, and may leave branches behind.
LEMMA MainMoves ==
    ASSUME ReplayInv, NEW e \in Exec, NEW x \in Part(MainOp), main[e] # Idle, x # Idle,
           UNCHANGED <<status, holder, ledger, parked, ends>>,
           main' = [main EXCEPT ![e] = x], x.op = "complete" => x.at # "ok",
           branch' = branch \/ \E b \in Branch : branch' = [branch EXCEPT ![e][b] = Left],
           mind' \in [Exec -> Mind], \A y \in Exec \ {e} : mind'[y] = mind[y],
           mind'[e].seq = mind[e].seq, mind'[e].view = mind[e].view,
           mind'[e].signal = mind[e].signal,
           mind'[e].result \in {"completed", "suspended"} => ends[e] = <<mind'[e].result>>
    PROVE  ReplayInv'
<1>1. branch' \in [Exec -> [Branch -> Part(CodeOp)]] /\ main' \in [Exec -> Part(MainOp)]
  <2>1. Left \in Part(CodeOp)
    BY Parts
  <2>2. ASSUME NEW b \in Branch, branch' = [branch EXCEPT ![e][b] = Left]
        PROVE  branch' \in [Exec -> [Branch -> Part(CodeOp)]]
    BY <2>1, <2>2 DEF ReplayInv, Shapes
  <2> QED BY <2>2 DEF ReplayInv, Shapes
<1>2. /\ \A y \in Exec \ {e} : main'[y] = main[y] /\ branch'[y] = branch[y]
      /\ main'[e] = x
      /\ \A c \in Branch : branch'[e][c] \in {branch[e][c], Left}
  BY DEF ReplayInv, Shapes
<1>3. EndIsTrue(e)'
  <2>1. EndIsTrue(e)
    BY DEF ReplayInv
  <2>2. \A c \in Branch :
           branch'[e][c].err = "suspend" \/ (branch'[e][c].op = "wait" /\ branch'[e][c].at = "ok")
               => ends'[e] = <<"suspended">>
    BY <1>2, <2>1, Parts DEF EndIsTrue
  <2> QED BY <1>2, <2>1, <2>2 DEF EndIsTrue
<1>4. \A c \in Branch : Working(branch'[e][c]) =>
          /\ Working(branch[e][c])
          /\ branch'[e][c].pos = branch[e][c].pos /\ branch'[e][c].call = branch[e][c].call
  BY <1>2, Parts
<1>5. mind'[e].seq >= mind[e].seq
  BY DEF ReplayInv, Shapes, Mind
<1> QED BY <1>1, <1>2, <1>3, <1>4, <1>5, LocalKeeps

\* What a throw, an await and a signal leave behind.
LEMMA Thrown ==
    ASSUME NEW err \in Err
    PROVE  LET x == [Idle EXCEPT !.at = "thrown", !.err = err]
           IN  x \in Part(CodeOp) /\ ~Working(x) /\ x.err = err /\ x.op = "none"
  BY DEF Idle, NoErr, Part, Working, At, Err, CodeOp

LEMMA EndedIsMind ==
    ASSUME ReplayInv, NEW e \in Exec
    PROVE  /\ mind[e] \in Mind /\ Ended(e) \in Mind
           /\ Ended(e).seq = mind[e].seq /\ Ended(e).view = mind[e].view
           /\ Ended(e).result = mind[e].result /\ Ended(e).signal = "done"
  BY DEF ReplayInv, Shapes, Mind, Ended

\* A branch throws an error of which no end is believed, or the end that came.
LEMMA ThrowKeeps ==
    ASSUME ReplayInv, NEW e \in Exec, NEW b \in Branch, NEW err \in Err, Throw(e, b, err),
           UNCHANGED <<status, holder, ledger, parked, ends, main>>,
           mind' \in [Exec -> Mind], \A y \in Exec \ {e} : mind'[y] = mind[y],
           mind'[e].seq >= mind[e].seq, mind'[e].view = mind[e].view,
           mind'[e].result = mind[e].result,
           mind'[e].signal = "suspend" => ends[e] = <<"suspended">>,
           err = "suspend" => ends[e] = <<"suspended">>
    PROVE  ReplayInv'
<1> DEFINE x == [Idle EXCEPT !.at = "thrown", !.err = err]
<1>1. x \in Part(CodeOp) /\ ~Working(x) /\ x.err = err /\ x.op = "none"
  BY Thrown
<1>2. branch' = [branch EXCEPT ![e][b] = x]
  BY DEF Throw
<1> HIDE DEF x
<1> QED BY <1>1, <1>2, BranchMoves

LEMMA ToldKeeps ==
    ASSUME ReplayInv, NEW e \in Exec, NEW canceled \in BOOLEAN, Told(e, canceled)
    PROVE  ReplayInv'
<1> DEFINE m == [mind[e] EXCEPT !.canceled = @ \/ canceled, !.told = TRUE]
<1>1. /\ mind' \in [Exec -> Mind] /\ mind'[e].seq = mind[e].seq /\ mind'[e].view = mind[e].view
      /\ mind'[e].signal = mind[e].signal /\ mind'[e].result = mind[e].result
      /\ \A y \in Exec \ {e} : mind'[y] = mind[y]
  <2>1. mind \in [Exec -> Mind] /\ mind[e] \in Mind
    BY DEF ReplayInv, Shapes
  <2>2. mind' = [mind EXCEPT ![e] = m]
    BY <2>1 DEF Told, Mind
  <2>3. mind[e].canceled \/ canceled \in BOOLEAN
    BY Zenon
  <2>4. /\ m \in Mind /\ m.seq = mind[e].seq /\ m.view = mind[e].view
        /\ m.signal = mind[e].signal /\ m.result = mind[e].result
    BY <2>1, <2>3 DEF Mind
  <2> HIDE DEF m
  <2> QED BY <2>1, <2>2, <2>4
<1>2. main' \in [Exec -> Part(MainOp)] /\ branch' \in [Exec -> [Branch -> Part(CodeOp)]]
  BY DEF Told, ReplayInv, Shapes
<1>3. mind'[e].seq >= mind[e].seq
  BY <1>1 DEF ReplayInv, Shapes, Mind
<1>4. EndIsTrue(e)'
  BY <1>1 DEF Told, kernelVars, ReplayInv, EndIsTrue
<1> QED BY <1>1, <1>2, <1>3, <1>4, LocalKeeps DEF Told, kernelVars

\* The position the primitive takes is nobody's; the ledger has nothing there when the
\* snapshot has nothing and the claim stands.
LEMMA MissKeeps ==
    ASSUME ReplayInv, NEW e \in Exec, NEW b \in Branch, NEW c \in Calls,
           NEW at \in {"body", "call"}, Await(e, b, at, OpOf(c), mind[e].seq, c),
           branch[e][b].at = "user", mind[e].seq < MaxPos, mind[e].view[mind[e].seq] = NoRow,
           mind' = [mind EXCEPT ![e] = [mind[e] EXCEPT !.seq = @ + 1]], UNCHANGED <<kernelVars, main>>
    PROVE  ReplayInv'
<1> DEFINE q == mind[e].seq
           x == [Idle EXCEPT !.at = at, !.op = OpOf(c), !.pos = q, !.call = c]
<1>1. mind[e] \in Mind /\ q \in Nat /\ q \in Pos
  BY ReplayAssumption DEF ReplayInv, Shapes, Mind, Pos
<1>2. /\ x \in Part(CodeOp) /\ Working(x) /\ x.pos = q /\ x.call = c /\ x.err = "none"
      /\ x.at # "ok"
  BY <1>1 DEF Idle, NoErr, Part, Working, At, Err, CodeOp, OpOf
<1>3. branch' = [branch EXCEPT ![e][b] = x]
  BY DEF Await
<1> HIDE DEF x
<1>4. /\ branch' \in [Exec -> [Branch -> Part(CodeOp)]]
      /\ \A y \in Exec \ {e} : branch'[y] = branch[y]
      /\ branch'[e][b] = x
      /\ \A d \in Branch \ {b} : branch'[e][d] = branch[e][d]
  BY <1>2, <1>3 DEF ReplayInv, Shapes
<1>5. /\ mind' \in [Exec -> Mind] /\ \A y \in Exec \ {e} : mind'[y] = mind[y]
      /\ mind'[e].seq = q + 1 /\ mind'[e].view = mind[e].view
      /\ mind'[e].signal = mind[e].signal /\ mind'[e].result = mind[e].result
  <2> DEFINE m == [mind[e] EXCEPT !.seq = @ + 1]
  <2>1. /\ m \in Mind /\ m.seq = q + 1 /\ m.view = mind[e].view
        /\ m.signal = mind[e].signal /\ m.result = mind[e].result
    BY <1>1 DEF Mind
  <2>2. mind \in [Exec -> Mind] /\ mind' = [mind EXCEPT ![e] = m]
    BY DEF ReplayInv, Shapes
  <2> HIDE DEF m
  <2> QED BY <2>1, <2>2
<1>6. \A d \in Branch \ {b} : Working(branch[e][d]) =>
          branch[e][d].pos \in Nat /\ branch[e][d].pos < q
  BY DEF ReplayInv, Placed, Pos
<1>7. Placed'
  <2>1. ASSUME NEW y \in Exec \ {e}, NEW d \in Branch, Working(branch'[y][d])
        PROVE  /\ branch'[y][d].call \in Calls
               /\ branch'[y][d].pos \in Pos /\ branch'[y][d].pos < mind'[y].seq
               /\ \A f \in Branch \ {d} : Working(branch'[y][f]) =>
                      branch'[y][f].pos # branch'[y][d].pos
    <3>1. branch'[y] = branch[y] /\ mind'[y] = mind[y]
      BY <1>4, <1>5
    <3> QED BY <2>1, <3>1 DEF ReplayInv, Placed
  <2>2. ASSUME NEW d \in Branch \ {b}, Working(branch'[e][d])
        PROVE  /\ branch'[e][d].call \in Calls
               /\ branch'[e][d].pos \in Pos /\ branch'[e][d].pos < mind'[e].seq
               /\ \A f \in Branch \ {d} : Working(branch'[e][f]) =>
                      branch'[e][f].pos # branch'[e][d].pos
    <3>1. Working(branch[e][d]) /\ branch'[e][d] = branch[e][d]
      BY <1>4, <2>2
    <3>2. /\ branch[e][d].call \in Calls /\ branch[e][d].pos \in Pos
          /\ \A f \in Branch \ {d} : Working(branch[e][f]) => branch[e][f].pos # branch[e][d].pos
      BY <3>1 DEF ReplayInv, Placed
    <3>3. branch[e][d].pos < q /\ branch[e][d].pos \in Nat
      BY <1>6, <3>1
    <3>4. ASSUME NEW f \in Branch \ {d}, Working(branch'[e][f])
          PROVE  branch'[e][f].pos # branch'[e][d].pos
      <4>1. CASE f = b
        BY <1>1, <1>2, <1>4, <3>1, <3>3, <4>1
      <4>2. CASE f # b
        BY <1>4, <3>1, <3>2, <3>4, <4>2
      <4> QED BY <4>1, <4>2
    <3> QED BY <1>1, <1>5, <3>1, <3>2, <3>3, <3>4
  <2>3. /\ branch'[e][b].call \in Calls
        /\ branch'[e][b].pos \in Pos /\ branch'[e][b].pos < mind'[e].seq
        /\ \A f \in Branch \ {b} : Working(branch'[e][f]) => branch'[e][f].pos # branch'[e][b].pos
    BY <1>1, <1>2, <1>4, <1>5, <1>6
  <2> QED BY <2>1, <2>2, <2>3 DEF Placed
<1>8. ASSUME NEW y \in Exec, Accepted(y)' PROVE Current(y)'
  <2>1. Current(y) /\ ledger' = ledger
    BY <1>8 DEF ReplayInv, SnapshotHolds, Accepted, kernelVars
  <2>2. CASE y # e
    BY <1>4, <1>5, <2>1, <2>2 DEF Current
  <2>3. CASE y = e
    <3>1. ledger[q] = NoRow
      BY <1>1, <2>1, <2>3 DEF Current
    <3>2. \A p \in Pos : p >= mind'[e].seq => ledger'[p] = mind'[e].view[p]
      BY <1>1, <1>5, <2>1, <2>3 DEF Current, Pos
    <3>3. \A d \in Branch : Working(branch'[e][d]) => ledger'[branch'[e][d].pos] = NoRow
      BY <1>2, <1>4, <2>1, <2>3, <3>1 DEF Current
    <3> QED BY <2>3, <3>2, <3>3 DEF Current
  <2> QED BY <2>2, <2>3
<1>9. Shapes' /\ Unended' /\ Unclaimed'
  BY <1>4, <1>5 DEF ReplayInv, Shapes, Unended, Unclaimed, Accepted, kernelVars
<1>10. \A y \in Exec : EndIsTrue(y)'
  <2>1. ASSUME NEW y \in Exec \ {e} PROVE EndIsTrue(y)'
    BY <1>4, <1>5 DEF ReplayInv, EndIsTrue, kernelVars
  <2>2. EndIsTrue(e)'
    <3>1. EndIsTrue(e) /\ main' = main /\ ends' = ends
      BY DEF ReplayInv, kernelVars
    <3>2. \A d \in Branch :
             branch'[e][d].err = "suspend" \/ (branch'[e][d].op = "wait" /\ branch'[e][d].at = "ok")
                 => ends'[e] = <<"suspended">>
      BY <1>2, <1>4, <3>1 DEF EndIsTrue
    <3> QED BY <1>5, <3>1, <3>2 DEF EndIsTrue
  <2> QED BY <2>1, <2>2
<1> QED BY <1>7, <1>8, <1>9, <1>10 DEF ReplayInv, SnapshotHolds

\* The signal is noted as it is thrown.
LEMMA LostKeeps ==
    ASSUME ReplayInv, NEW e \in Exec, NEW b \in Branch, Throw(e, b, "done"),
           mind' = [mind EXCEPT ![e] = Ended(e)],
           UNCHANGED <<status, holder, ledger, parked, ends, main>>
    PROVE  ReplayInv'
<1>1. mind \in [Exec -> Mind] /\ mind[e].seq >= mind[e].seq
  BY DEF ReplayInv, Shapes, Mind
<1>2. Ended(e) \in Mind /\ mind' \in [Exec -> Mind] /\ mind'[e] = Ended(e)
  BY <1>1, EndedIsMind
<1>3. /\ mind'[e].seq >= mind[e].seq /\ mind'[e].view = mind[e].view
      /\ mind'[e].result = mind[e].result /\ mind'[e].signal = "done"
  BY <1>1, <1>2, EndedIsMind
<1> QED BY <1>2, <1>3, ThrowKeeps DEF Err

LEMMA NextIsMind ==
    ASSUME ReplayInv, NEW e \in Exec, NEW m \in {mind[e], Ended(e)}
    PROVE  LET next == [m EXCEPT !.seq = @ + 1] IN
           /\ next \in Mind /\ next.seq >= mind[e].seq /\ next.view = mind[e].view
           /\ next.result = mind[e].result /\ next.signal = m.signal
<1>1. /\ m \in Mind /\ m.seq = mind[e].seq /\ m.view = mind[e].view
      /\ m.result = mind[e].result
  BY EndedIsMind
<1> QED BY <1>1 DEF Mind

LEMMA PrimitiveKeeps ==
    ASSUME ReplayInv, NEW e \in Exec, NEW b \in Branch, NEW c \in Calls, Primitive(e, b, c)
    PROVE  ReplayInv'
<1> DEFINE me == mind[e]
           next == [me EXCEPT !.seq = @ + 1]
           last == [Ended(e) EXCEPT !.seq = @ + 1]
<1>1. /\ mind \in [Exec -> Mind] /\ branch \in [Exec -> [Branch -> Part(CodeOp)]]
      /\ me \in Mind /\ me.seq >= me.seq /\ EndIsTrue(e)
      /\ UNCHANGED <<status, holder, ledger, parked, ends, main>>
  BY DEF ReplayInv, Shapes, Mind, Primitive, kernelVars
<1>2. /\ next \in Mind /\ next.seq >= me.seq /\ next.view = me.view
      /\ next.result = me.result /\ next.signal = me.signal
  BY NextIsMind
<1>3. /\ last \in Mind /\ last.seq >= me.seq /\ last.view = me.view
      /\ last.result = me.result /\ last.signal = "done"
  BY NextIsMind, EndedIsMind
<1>4. me.signal = "suspend" => ends[e] = <<"suspended">>
  BY <1>1 DEF EndIsTrue
<1> HIDE DEF next, last
<1>5. CASE Throw(e, b, "abort") /\ UNCHANGED mind
  BY <1>1, <1>4, <1>5, ThrowKeeps DEF Err
<1>6. CASE Throw(e, b, "done") /\ mind' = [mind EXCEPT ![e] = Ended(e)]
  BY <1>1, <1>6, LostKeeps
<1>7. CASE Throw(e, b, "abort") /\ mind' = [mind EXCEPT ![e] = next]
  <2>1. mind' \in [Exec -> Mind] /\ mind'[e] = next
    BY <1>1, <1>2, <1>7
  <2> QED BY <1>1, <1>2, <1>4, <1>7, <2>1, ThrowKeeps DEF Err
<1>8. CASE mind' = [mind EXCEPT ![e] = next] /\ UNCHANGED branch
  <2>1. mind' \in [Exec -> Mind] /\ mind'[e] = next
    BY <1>1, <1>2, <1>8
  <2>2. EndIsTrue(e)'
    BY <1>1, <1>2, <1>8, <2>1 DEF EndIsTrue
  <2>3. main' \in [Exec -> Part(MainOp)] /\ branch' \in [Exec -> [Branch -> Part(CodeOp)]]
    BY <1>1, <1>8 DEF ReplayInv, Shapes
  <2> QED BY <1>1, <1>2, <1>8, <2>1, <2>2, <2>3, LocalKeeps
<1>9. CASE Throw(e, b, "done") /\ mind' = [mind EXCEPT ![e] = last]
  <2>1. mind' \in [Exec -> Mind] /\ mind'[e] = last
    BY <1>1, <1>3, <1>9
  <2> QED BY <1>1, <1>3, <1>9, <2>1, ThrowKeeps DEF Err
<1>10. CASE /\ me.seq < MaxPos /\ "miss" \in Verdicts(me.view[me.seq], c)
            /\ Await(e, b, IF c.kind = "step" THEN "body" ELSE "call", OpOf(c), me.seq, c)
            /\ mind' = [mind EXCEPT ![e] = next]
  <2>1. me.view[me.seq] = NoRow
    BY <1>10 DEF Verdicts
  <2>2. branch[e][b].at = "user" /\ UNCHANGED <<kernelVars, main>>
    BY DEF Primitive
  <2>3. (IF c.kind = "step" THEN "body" ELSE "call") \in {"body", "call"}
    OBVIOUS
  <2> QED BY <1>10, <2>1, <2>2, <2>3, MissKeeps DEF next
<1> QED BY <1>5, <1>6, <1>7, <1>8, <1>9, <1>10 DEF Primitive, next, last

LEMMA BodyKeeps ==
    ASSUME ReplayInv, NEW e \in Exec, NEW b \in Branch, Body(e, b)
    PROVE  ReplayInv'
<1> DEFINE me == branch[e][b]
<1>1. /\ mind \in [Exec -> Mind] /\ branch \in [Exec -> [Branch -> Part(CodeOp)]]
      /\ me \in Part(CodeOp) /\ me.at = "body" /\ mind[e].seq >= mind[e].seq /\ EndIsTrue(e)
      /\ UNCHANGED <<status, holder, ledger, parked, ends, main>>
  BY DEF ReplayInv, Shapes, Mind, Body, kernelVars
<1>2. mind[e].signal = "suspend" => ends[e] = <<"suspended">>
  BY <1>1 DEF EndIsTrue
<1>3. CASE Await(e, b, "call", "report", me.pos, me.call) /\ UNCHANGED mind
  <2> DEFINE x == [Idle EXCEPT !.at = "call", !.op = "report", !.pos = me.pos, !.call = me.call]
  <2>1. /\ x \in Part(CodeOp) /\ x.err = "none" /\ x.op = "report"
        /\ x.pos = me.pos /\ x.call = me.call
    BY <1>1 DEF Idle, NoErr, Part, At, Err, CodeOp
  <2>2. branch' = [branch EXCEPT ![e][b] = x] /\ Working(me)
    BY <1>1, <1>3 DEF Await, Working
  <2> HIDE DEF x
  <2> QED BY <1>1, <1>2, <1>3, <2>1, <2>2, BranchMoves
<1>4. CASE Throw(e, b, "done") /\ mind' = [mind EXCEPT ![e] = Ended(e)]
  BY <1>1, <1>4, LostKeeps
<1>5. ASSUME NEW err \in {"plain", "abort"}, UNCHANGED mind,
             branch' = [branch EXCEPT ![e][b] = [me EXCEPT !.at = "call", !.op = "reportFailed",
                                                           !.err = err]]
      PROVE  ReplayInv'
  <2> DEFINE x == [me EXCEPT !.at = "call", !.op = "reportFailed", !.err = err]
  <2>1. x \in Part(CodeOp) /\ ~Working(x) /\ x.err # "suspend" /\ x.op # "wait"
    BY <1>1 DEF Part, At, Err, CodeOp, Working
  <2> HIDE DEF x
  <2> QED BY <1>1, <1>2, <1>5, <2>1, BranchMoves DEF x
<1> QED BY <1>3, <1>4, <1>5 DEF Body

LEMMA AnsweredKeeps ==
    ASSUME ReplayInv, NEW e \in Exec, NEW b \in Branch, Answered(e, b)
    PROVE  ReplayInv'
<1> DEFINE me == branch[e][b]
<1>1. /\ mind \in [Exec -> Mind] /\ branch \in [Exec -> [Branch -> Part(CodeOp)]]
      /\ mind[e] \in Mind /\ me \in Part(CodeOp) /\ EndIsTrue(e)
      /\ mind[e].seq >= mind[e].seq
      /\ UNCHANGED <<status, holder, ledger, parked, ends, main>>
  BY DEF ReplayInv, Shapes, Mind, Answered, kernelVars
<1>2. /\ mind[e].signal = "suspend" => ends[e] = <<"suspended">>
      /\ me.op = "wait" /\ me.at = "ok" => ends[e] = <<"suspended">>
      /\ me.err = "suspend" => ends[e] = <<"suspended">>
  BY <1>1 DEF EndIsTrue
<1>3. CASE Continue(e, b) /\ UNCHANGED mind
  BY <1>1, <1>2, <1>3, Parts, BranchMoves DEF Continue
<1>4. CASE Throw(e, b, "done") /\ mind' = [mind EXCEPT ![e] = Ended(e)]
  BY <1>1, <1>4, LostKeeps
<1>5. ASSUME NEW err \in {"plain", "abort"}, Throw(e, b, err), UNCHANGED mind PROVE ReplayInv'
  BY <1>1, <1>2, <1>5, ThrowKeeps DEF Err
<1>6. CASE /\ me.op = "wait" /\ me.at = "ok" /\ Throw(e, b, "suspend")
           /\ mind' = [mind EXCEPT ![e].signal = "suspend"]
  <2>1. /\ mind' \in [Exec -> Mind] /\ \A y \in Exec \ {e} : mind'[y] = mind[y]
        /\ mind'[e].seq = mind[e].seq /\ mind'[e].view = mind[e].view
        /\ mind'[e].result = mind[e].result
    BY <1>1, <1>6 DEF Mind
  <2> QED BY <1>1, <1>2, <1>6, <2>1, ThrowKeeps DEF Err
<1>7. ASSUME NEW op \in {"failAbort", "fail"}, UNCHANGED mind,
             branch' = [branch EXCEPT ![e][b].at = "call", ![e][b].op = op]
      PROVE  ReplayInv'
  <2> DEFINE x == [me EXCEPT !.at = "call", !.op = op]
  <2>1. x \in Part(CodeOp) /\ ~Working(x) /\ x.err = me.err /\ x.op # "wait"
    BY <1>1 DEF Part, At, CodeOp, Working
  <2>2. branch' = [branch EXCEPT ![e][b] = x]
    BY <1>1, <1>7
  <2> HIDE DEF x
  <2> QED BY <1>1, <1>2, <1>7, <2>1, <2>2, BranchMoves, ZenonT(40)
<1>8. CASE /\ Throw(e, b, "done")
           /\ mind' = [mind EXCEPT ![e].signal = "done", ![e].abandoned = @ \/ me.at = "refused"]
  <2> DEFINE m == [mind[e] EXCEPT !.signal = "done", !.abandoned = @ \/ me.at = "refused"]
  <2>1. (mind[e].abandoned \/ me.at = "refused") \in BOOLEAN
    BY Zenon
  <2>2. /\ m \in Mind /\ m.seq = mind[e].seq /\ m.view = mind[e].view
        /\ m.result = mind[e].result /\ m.signal = "done"
    BY <1>1, <2>1 DEF Mind
  <2>3. mind' = [mind EXCEPT ![e] = m]
    BY <1>1, <1>8 DEF Mind
  <2> HIDE DEF m
  <2>4. mind' \in [Exec -> Mind] /\ mind'[e] = m /\ \A y \in Exec \ {e} : mind'[y] = mind[y]
    BY <1>1, <2>2, <2>3
  <2> QED BY <1>1, <1>8, <2>2, <2>4, ThrowKeeps DEF Err
<1> DEFINE lost == Throw(e, b, "done") /\ mind' = [mind EXCEPT ![e] = Ended(e)]
<1>9. CASE me.op = "report"
  <2>1. \/ Continue(e, b) /\ UNCHANGED mind
        \/ lost
        \/ Throw(e, b, "abort") /\ UNCHANGED mind
        \/ Throw(e, b, "plain") /\ UNCHANGED mind
    BY <1>9 DEF Answered
  <2> QED BY <1>3, <1>4, <1>5, <2>1
<1>10. CASE me.op = "wait"
  <2>1. \/ Continue(e, b) /\ UNCHANGED mind
        \/ /\ me.at = "ok" /\ Throw(e, b, "suspend")
           /\ mind' = [mind EXCEPT ![e].signal = "suspend"]
        \/ lost
        \/ Throw(e, b, "abort") /\ UNCHANGED mind
        \/ Throw(e, b, "plain") /\ UNCHANGED mind
    BY <1>10 DEF Answered
  <2> QED BY <1>3, <1>4, <1>5, <1>6, <1>10, <2>1
<1>11. CASE me.op = "reportFailed"
  <2>1. lost \/ \E op \in {"failAbort", "fail"} :
            branch' = [branch EXCEPT ![e][b].at = "call", ![e][b].op = op] /\ UNCHANGED mind
    BY <1>11 DEF Answered
  <2> QED BY <1>4, <1>7, <2>1
<1>12. CASE me.op \in {"fail", "failAbort"}
  <2>1. /\ Throw(e, b, "done")
        /\ mind' = [mind EXCEPT ![e].signal = "done", ![e].abandoned = @ \/ me.at = "refused"]
    BY <1>12 DEF Answered
  <2> QED BY <1>8, <2>1
<1> QED BY <1>9, <1>10, <1>11, <1>12 DEF Answered

LEMMA OwnCodeKeeps ==
    ASSUME ReplayInv, NEW e \in Exec, NEW b \in Branch,
           OwnError(e, b) \/ Catch(e, b) \/ Leave(e, b)
    PROVE  ReplayInv'
<1>1. /\ mind \in [Exec -> Mind] /\ mind[e].seq >= mind[e].seq /\ EndIsTrue(e)
      /\ UNCHANGED <<status, holder, ledger, parked, ends, main, mind>>
  BY DEF ReplayInv, Shapes, Mind, OwnError, Catch, Leave, kernelVars
<1>2. mind[e].signal = "suspend" => ends[e] = <<"suspended">>
  BY <1>1 DEF EndIsTrue
<1>3. CASE OwnError(e, b)
  BY <1>1, <1>2, <1>3, ThrowKeeps DEF OwnError, Err
<1>4. CASE Catch(e, b)
  BY <1>1, <1>2, <1>4, Parts, BranchMoves DEF Catch, Continue
<1>5. CASE Leave(e, b)
  BY <1>1, <1>2, <1>5, Parts, BranchMoves DEF Leave
<1> QED BY <1>3, <1>4, <1>5

LEMMA OverKeeps ==
    ASSUME ReplayInv, NEW e \in Exec, NEW result \in Result, Over(e, result), main[e] # Idle,
           UNCHANGED <<status, holder, ledger, parked, ends>>,
           branch' = branch \/ \E b \in Branch : branch' = [branch EXCEPT ![e][b] = Left],
           result \in {"completed", "suspended"} => ends[e] = <<result>>
    PROVE  ReplayInv'
<1> DEFINE x == [Idle EXCEPT !.at = "over"]
           gone == main[e].op # "complete" /\ main[e].at = "refused"
           m == [mind[e] EXCEPT !.result = result, !.abandoned = @ \/ gone]
<1>1. x \in Part(MainOp) /\ x # Idle /\ x.op # "complete" /\ main' = [main EXCEPT ![e] = x]
  BY DEF Over, Idle, NoErr, Part, At, Err, MainOp
<1>2. mind \in [Exec -> Mind] /\ mind[e] \in Mind
  BY DEF ReplayInv, Shapes
<1>3. (mind[e].abandoned \/ gone) \in BOOLEAN
  BY Zenon
<1> HIDE DEF gone
<1>4. /\ m \in Mind /\ m.seq = mind[e].seq /\ m.view = mind[e].view
      /\ m.signal = mind[e].signal /\ m.result = result
  BY <1>2, <1>3 DEF Mind
<1>5. mind' = [mind EXCEPT ![e] = m]
  BY <1>2 DEF Over, Mind, gone
<1> HIDE DEF x, m
<1>6. mind' \in [Exec -> Mind] /\ mind'[e] = m /\ \A y \in Exec \ {e} : mind'[y] = mind[y]
  BY <1>2, <1>4, <1>5
<1> QED BY <1>1, <1>4, <1>6, MainMoves

LEMMA ReportKeeps ==
    ASSUME ReplayInv, NEW e \in Exec, NEW op \in MainOp, Report(e, op), main[e] # Idle,
           UNCHANGED <<status, holder, ledger, parked, ends>>,
           branch' = branch \/ \E b \in Branch : branch' = [branch EXCEPT ![e][b] = Left]
    PROVE  ReplayInv'
<1> DEFINE x == [Idle EXCEPT !.at = "call", !.op = op]
<1>1. x \in Part(MainOp) /\ x # Idle /\ x.at # "ok" /\ main' = [main EXCEPT ![e] = x]
  BY DEF Report, Idle, NoErr, Part, At, Err
<1>2. mind' = mind /\ mind \in [Exec -> Mind] /\ EndIsTrue(e)
  BY DEF Report, ReplayInv, Shapes
<1> HIDE DEF x
<1> QED BY <1>1, <1>2, MainMoves DEF EndIsTrue

LEMMA MainCodeKeeps ==
    ASSUME ReplayInv, NEW e \in Exec,
           \/ MainAnswered(e)
           \/ \E b \in Branch : Return(e, b) \/ HandleThrown(e, b)
    PROVE  ReplayInv'
<1>1. UNCHANGED <<status, holder, ledger, parked, ends>> /\ EndIsTrue(e)
  BY DEF ReplayInv, MainAnswered, Return, HandleThrown, kernelVars
<1>2. branch' = branch \/ \E b \in Branch : branch' = [branch EXCEPT ![e][b] = Left]
  BY DEF MainAnswered, Return, HandleThrown
<1>3. main[e] # Idle
  BY Parts DEF MainAnswered, Return, HandleThrown
<1>4. /\ mind[e].signal = "suspend" => ends[e] = <<"suspended">>
      /\ main[e].op = "complete" /\ main[e].at = "ok" => ends[e] = <<"completed">>
      /\ \A b \in Branch : branch[e][b].err = "suspend" => ends[e] = <<"suspended">>
  BY <1>1 DEF EndIsTrue
<1>5. ASSUME NEW result \in Result, Over(e, result),
             result \in {"completed", "suspended"} => ends[e] = <<result>>
      PROVE  ReplayInv'
  BY <1>1, <1>2, <1>3, <1>5, OverKeeps
<1>6. ASSUME NEW op \in MainOp, Report(e, op) PROVE ReplayInv'
  BY <1>1, <1>2, <1>3, <1>6, ReportKeeps
<1>7. OrFailed(e) \in {"abandoned", "failed"}
  BY DEF OrFailed
<1>8. ASSUME NEW result \in {"abandoned", "failed", "thrown"}, Over(e, result) PROVE ReplayInv'
  BY <1>5, <1>8 DEF Result
<1>9. CASE MainAnswered(e)
  <2>1. \/ /\ main[e].op = "complete" /\ main[e].at = "ok" /\ Over(e, "completed")
        \/ \E result \in {"abandoned", "failed", "thrown"} : Over(e, result)
        \/ Report(e, "refuse")
    BY <1>7, <1>9 DEF MainAnswered
  <2> QED BY <1>4, <1>5, <1>6, <1>8, <2>1 DEF Result, MainOp
<1>10. ASSUME NEW b \in Branch, Return(e, b) PROVE ReplayInv'
  <2>1. \/ mind[e].signal = "suspend" /\ Over(e, "suspended")
        \/ \E result \in {"abandoned", "failed", "thrown"} : Over(e, result)
        \/ Report(e, "complete")
    BY <1>7, <1>10 DEF Return, ReturnOf
  <2> QED BY <1>4, <1>5, <1>6, <1>8, <2>1 DEF Result, MainOp
<1>11. ASSUME NEW b \in Branch, HandleThrown(e, b) PROVE ReplayInv'
  <2>1. \/ branch[e][b].err = "suspend" /\ Over(e, "suspended")
        \/ \E result \in {"abandoned", "failed", "thrown"} : Over(e, result)
        \/ \E op \in {"fail", "failAbort"} : Report(e, op)
    BY <1>7, <1>11 DEF HandleThrown, VerdictOnError
  <2> QED BY <1>4, <1>5, <1>6, <1>8, <2>1 DEF Result, MainOp
<1> QED BY <1>9, <1>10, <1>11

----------------------------------------------------------------------------
\* Steps of the kernel

\* What a transaction does to the kernel: nothing, a row, or the end of the run.
Wrote(me) == me.op \in {"report", "wait"} /\ Put(me.pos, me.call)
Stays     == UNCHANGED <<status, holder, parked, ends>>
EndedAs(e, me, how) ==
    /\ status' \in {"queued", "waiting", "completed", "failed"} /\ holder' = None
    /\ status' = "waiting" => me.op = "wait" /\ parked' = [pos |-> me.pos, call |-> me.call]
    /\ ends' = [ends EXCEPT ![e] = Append(@, how)]
    /\ UNCHANGED ledger

LEMMA EffectDoes ==
    ASSUME NEW e, NEW me, NEW ans, Effect(e, me, ans)
    PROVE  /\ \/ Stays /\ (Wrote(me) \/ UNCHANGED ledger)
              \/ \E how \in {"completed", "suspended", "failed"} : EndedAs(e, me, how)
           /\ me.op = "wait" /\ ans = "ok" => EndedAs(e, me, "suspended")
           /\ me.op = "complete" /\ ans = "ok" => EndedAs(e, me, "completed")
<1>1. CASE me.op = "report"
  BY <1>1 DEF Effect, Stays, Wrote
<1>2. CASE me.op = "reportFailed"
  BY <1>2 DEF Effect, Stays
<1>3. CASE me.op = "wait"
  <2>1. CASE ans = "resumed" /\ me.call.kind = "wait" /\ Put(me.pos, me.call) /\ Stays
    BY <1>3, <2>1 DEF Wrote
  <2>2. CASE /\ ans = "ok" /\ End(e, "waiting", "suspended")
             /\ parked' = [pos |-> me.pos, call |-> me.call] /\ UNCHANGED ledger
    BY <1>3, <2>2 DEF End, EndedAs
  <2>3. CASE ans = "unfixable" /\ Stays /\ UNCHANGED ledger
    BY <1>3, <2>3
  <2> QED BY <1>3, <2>1, <2>2, <2>3 DEF Effect, Stays
<1>4. CASE me.op = "complete"
  BY <1>4 DEF Effect, Stays, End, EndedAs
<1>5. CASE me.op \in {"fail", "failAbort", "refuse"}
  BY <1>5 DEF Effect, Fail, End, EndedAs
<1> QED BY <1>1, <1>2, <1>3, <1>4, <1>5 DEF Effect

LEMMA TransactionDoes ==
    ASSUME NEW e, NEW me, NEW ans \in Answers, Transaction(e, me, ans)
    PROVE  /\ ans = "ok" => Accepted(e)
           /\ \/ Stays /\ UNCHANGED ledger
              \/ Accepted(e) /\ Stays /\ Wrote(me)
              \/ Accepted(e) /\ \E how \in {"completed", "suspended", "failed"} : EndedAs(e, me, how)
           /\ me.op = "wait" /\ ans = "ok" => EndedAs(e, me, "suspended")
           /\ me.op = "complete" /\ ans = "ok" => EndedAs(e, me, "completed")
<1>1. CASE ~Accepted(e)
  BY <1>1 DEF Transaction, Stays, kernelVars
<1>2. CASE Accepted(e) /\ ans # "error" /\ Effect(e, me, ans)
  BY <1>2, EffectDoes
<1>3. CASE Accepted(e) /\ ans = "error" /\ UNCHANGED kernelVars
  BY <1>3 DEF Stays, kernelVars
<1>4. ASSUME NEW done \in {"ok", "resumed"}, Accepted(e), ans = "error", Effect(e, me, done)
      PROVE  \/ Stays /\ UNCHANGED ledger
             \/ Stays /\ Wrote(me)
             \/ \E how \in {"completed", "suspended", "failed"} : EndedAs(e, me, how)
  BY <1>4, EffectDoes
<1> QED BY <1>1, <1>2, <1>3, <1>4 DEF Transaction

\* A row is written where a branch of the holder works, and that branch leaves the place.
LEMMA RecordKeeps ==
    ASSUME ReplayInv, NEW e \in Exec, NEW b \in Branch, Accepted(e), Stays,
           Working(branch[e][b]), Put(branch[e][b].pos, branch[e][b].call),
           UNCHANGED <<main, mind>>, branch' \in [Exec -> [Branch -> Part(CodeOp)]],
           \A y \in Exec \ {e} : branch'[y] = branch[y],
           \A d \in Branch \ {b} : branch'[e][d] = branch[e][d],
           ~Working(branch'[e][b]), EndIsTrue(e)'
    PROVE  ReplayInv'
<1> DEFINE p == branch[e][b].pos
           c == branch[e][b].call
<1>1. p \in Pos /\ c \in Calls /\ p < mind[e].seq
  BY DEF ReplayInv, Placed
<1>2. /\ ledger' \in [Pos -> Row]
      /\ \A q \in Pos \ {p} : ledger'[q] = ledger[q]
  <2>1. RowOf(c) \in Row
    BY <1>1, RowsAreRows
  <2>2. ledger' = ledger \/ ledger' = [ledger EXCEPT ![p] = RowOf(c)]
    BY DEF Put
  <2> HIDE DEF p, c
  <2> QED BY <1>1, <2>1, <2>2 DEF ReplayInv, Shapes
<1>3. Shapes'
  BY <1>2 DEF ReplayInv, Shapes, Stays
<1>4. \A y \in Exec, d \in Branch : Working(branch'[y][d]) =>
          Working(branch[y][d]) /\ branch'[y][d] = branch[y][d] /\ (y = e => d # b)
  OBVIOUS
<1>5. \A y \in Exec : mind[y].seq \in Nat
  BY DEF ReplayInv, Shapes, Mind
<1>6. Placed'
  BY <1>4, <1>5, PlacesKept DEF ReplayInv, Shapes
<1>7. ASSUME NEW y \in Exec, Accepted(y)' PROVE Current(y)'
  <2>1. y = e /\ Current(e)
    BY <1>7 DEF ReplayInv, SnapshotHolds, Accepted, Stays
  <2>2. ASSUME NEW q \in Pos, q >= mind'[e].seq PROVE ledger'[q] = mind'[e].view[q]
    <3>1. q # p
      BY <1>1, <1>5, <2>2 DEF Pos
    <3> QED BY <1>2, <2>1, <2>2, <3>1 DEF Current
  <2>3. ASSUME NEW d \in Branch, Working(branch'[e][d]) PROVE ledger'[branch'[e][d].pos] = NoRow
    <3>1. d # b /\ Working(branch[e][d]) /\ branch'[e][d] = branch[e][d]
      BY <1>4, <2>3
    <3>2. branch[e][d].pos \in Pos /\ branch[e][d].pos # p
      BY <3>1 DEF ReplayInv, Placed
    <3> QED BY <1>2, <2>1, <3>1, <3>2 DEF Current
  <2> QED BY <2>1, <2>2, <2>3 DEF Current
<1>8. Unended' /\ Unclaimed'
  BY DEF ReplayInv, Unended, Unclaimed, Accepted, Stays
<1>9. \A y \in Exec \ {e} : EndIsTrue(y)'
  BY DEF ReplayInv, EndIsTrue, Stays
<1> QED BY <1>3, <1>6, <1>7, <1>8, <1>9 DEF ReplayInv, SnapshotHolds

\* The claim ends: nobody holds the run.
LEMMA EndKeeps ==
    ASSUME ReplayInv, NEW e \in Exec, NEW me, NEW how \in {"completed", "suspended", "failed"},
           Accepted(e), EndedAs(e, me, how),
           me.op = "wait" => me.pos \in Pos /\ me.call \in Calls,
           main' \in [Exec -> Part(MainOp)], branch' \in [Exec -> [Branch -> Part(CodeOp)]],
           UNCHANGED mind,
           \A y \in Exec \ {e} : main'[y] = main[y] /\ branch'[y] = branch[y],
           \A b \in Branch : Working(branch'[e][b]) =>
               /\ Working(branch[e][b])
               /\ branch'[e][b].pos = branch[e][b].pos /\ branch'[e][b].call = branch[e][b].call,
           main'[e] # Idle, EndIsTrue(e)'
    PROVE  ReplayInv'
<1>1. ends[e] = <<>>
  BY DEF ReplayInv, Unended
<1>2. ends' = [ends EXCEPT ![e] = <<how>>] /\ <<how>> \in Ends
  <2>1. Append(<<>>, how) = <<how>>
    OBVIOUS
  <2>2. ends' = [ends EXCEPT ![e] = Append(ends[e], how)]
    BY DEF EndedAs
  <2>3. <<how>> \in Ends
    BY DEF Ends
  <2> QED BY <1>1, <2>1, <2>2, <2>3
<1>3. Shapes'
  <2>1. ends' \in [Exec -> Ends]
    BY <1>2 DEF ReplayInv, Shapes
  <2>2. status' = "waiting" => parked'.pos \in Pos /\ parked'.call \in Calls
    BY DEF EndedAs
  <2> QED BY <2>1, <2>2 DEF ReplayInv, Shapes, EndedAs
<1>4. \A y \in Exec : mind[y].seq \in Nat
  BY DEF ReplayInv, Shapes, Mind
<1>5. \A y \in Exec, b \in Branch : Working(branch'[y][b]) =>
          /\ Working(branch[y][b])
          /\ branch'[y][b].pos = branch[y][b].pos /\ branch'[y][b].call = branch[y][b].call
  OBVIOUS
<1>6. Placed'
  BY <1>4, <1>5, PlacesKept DEF ReplayInv, Shapes
<1>7. \A y \in Exec : ~Accepted(y)'
  BY ReplayAssumption DEF EndedAs, Accepted
<1>8. \A y \in Exec \ {e} : ends'[y] = ends[y]
  BY <1>2 DEF ReplayInv, Shapes
<1>9. Unended' /\ Unclaimed'
  BY <1>7, <1>8, ReplayAssumption DEF ReplayInv, Unended, Unclaimed, EndedAs
<1>10. \A y \in Exec \ {e} : EndIsTrue(y)'
  BY <1>8 DEF ReplayInv, EndIsTrue
<1> QED BY <1>3, <1>6, <1>7, <1>9, <1>10 DEF ReplayInv, SnapshotHolds

\* Nobody who could still end the run believes in an end.
LEMMA BelievesNoEnd ==
    ASSUME ReplayInv, NEW e \in Exec, Accepted(e)
    PROVE  /\ ~(main[e].op = "complete" /\ main[e].at = "ok") /\ mind[e].signal # "suspend"
           /\ \A b \in Branch : /\ branch[e][b].err # "suspend"
                                /\ ~(branch[e][b].op = "wait" /\ branch[e][b].at = "ok")
           /\ mind[e].result \notin {"completed", "suspended"}
<1>1. ends[e] = <<>> /\ EndIsTrue(e)
  BY DEF ReplayInv, Unended
<1>2. \A how : <<how>> # <<>>
  OBVIOUS
<1> QED BY <1>1, <1>2 DEF EndIsTrue

LEMMA CommitKeeps ==
    ASSUME ReplayInv, NEW e \in Exec, NEW b \in Branch, Commit(e, b)
    PROVE  ReplayInv'
<1> DEFINE me == branch[e][b]
<1>1. PICK ans \in Answers : /\ Transaction(e, me, ans)
                             /\ branch' = [branch EXCEPT ![e][b].at = ans]
  BY DEF Commit
<1>2. me \in Part(CodeOp) /\ me.at = "call" /\ UNCHANGED <<main, mind>> /\ EndIsTrue(e)
  BY <1>1 DEF Commit, Transaction, ReplayInv, Shapes
<1> DEFINE x == [me EXCEPT !.at = ans]
<1>3. /\ x \in Part(CodeOp) /\ ~Working(x) /\ x.err = me.err /\ x.op = me.op /\ x.at = ans
  BY <1>2 DEF Part, At, Working, Answers
<1>4. /\ branch' \in [Exec -> [Branch -> Part(CodeOp)]]
      /\ \A y \in Exec \ {e} : branch'[y] = branch[y]
      /\ branch'[e][b] = x
      /\ \A d \in Branch \ {b} : branch'[e][d] = branch[e][d]
  <2>1. branch' = [branch EXCEPT ![e][b] = x]
    BY <1>1, <1>2 DEF ReplayInv, Shapes
  <2> HIDE DEF x
  <2> QED BY <1>3, <2>1 DEF ReplayInv, Shapes
<1> HIDE DEF x
<1>5. /\ main \in [Exec -> Part(MainOp)] /\ mind \in [Exec -> Mind] /\ ends \in [Exec -> Ends]
      /\ mind[e].seq >= mind[e].seq
  BY DEF ReplayInv, Shapes, Mind
<1>6. \A d \in Branch : Working(branch'[e][d]) =>
          Working(branch[e][d]) /\ branch'[e][d] = branch[e][d]
  BY <1>3, <1>4
<1>7. me.op \in {"report", "wait"} => Working(me) /\ me.pos \in Pos /\ me.call \in Calls
  BY <1>2 DEF ReplayInv, Placed, Working
<1>8. ASSUME ~(me.op = "wait" /\ ans = "ok"), ends'[e] = ends[e] PROVE EndIsTrue(e)'
  BY <1>2, <1>3, <1>4, <1>8 DEF EndIsTrue
<1>9. CASE Stays /\ UNCHANGED ledger
  <2>1. ~(me.op = "wait" /\ ans = "ok")
    <3> SUFFICES ASSUME me.op = "wait", ans = "ok" PROVE FALSE
      OBVIOUS
    <3>1. Accepted(e) /\ EndedAs(e, me, "suspended")
      BY <1>1, TransactionDoes
    <3> QED BY <1>9, <3>1, ReplayAssumption DEF EndedAs, Accepted, Stays
  <2>2. EndIsTrue(e)'
    BY <1>8, <1>9, <2>1 DEF Stays
  <2> QED BY <1>2, <1>4, <1>5, <1>6, <1>9, <2>2, LocalKeeps DEF Stays
<1>10. CASE Accepted(e) /\ Stays /\ Wrote(me)
  <2>1. ~(me.op = "wait" /\ ans = "ok")
    <3> SUFFICES ASSUME me.op = "wait", ans = "ok" PROVE FALSE
      OBVIOUS
    <3>1. EndedAs(e, me, "suspended")
      BY <1>1, TransactionDoes
    <3> QED BY <1>10, <3>1, ReplayAssumption DEF EndedAs, Accepted, Stays
  <2>2. EndIsTrue(e)'
    BY <1>8, <1>10, <2>1 DEF Stays
  <2>3. Working(me) /\ Put(me.pos, me.call)
    BY <1>7, <1>10 DEF Wrote
  <2>4. ~Working(branch'[e][b])
    BY <1>3, <1>4
  <2> QED BY <1>2, <1>4, <1>10, <2>2, <2>3, <2>4, RecordKeeps
<1>11. ASSUME NEW how \in {"completed", "suspended", "failed"}, Accepted(e), EndedAs(e, me, how)
       PROVE  ReplayInv'
  <2>1. ends[e] = <<>> /\ main[e] # Idle
    BY <1>11 DEF ReplayInv, Unended, Unclaimed, Accepted
  <2>2. me.op = "wait" /\ ans = "ok" => ends'[e] = <<"suspended">>
    <3>1. me.op = "wait" /\ ans = "ok" => EndedAs(e, me, "suspended")
      BY <1>1, TransactionDoes
    <3>2. Append(<<>>, "suspended") = <<"suspended">>
      OBVIOUS
    <3> QED BY <1>5, <2>1, <3>1, <3>2 DEF EndedAs
  <2>3. EndIsTrue(e)'
    <3>1. /\ ~(main[e].op = "complete" /\ main[e].at = "ok") /\ mind[e].signal # "suspend"
          /\ \A d \in Branch : /\ branch[e][d].err # "suspend"
                               /\ ~(branch[e][d].op = "wait" /\ branch[e][d].at = "ok")
          /\ mind[e].result \notin {"completed", "suspended"}
      BY <1>11, BelievesNoEnd
    <3>2. \A d \in Branch :
             branch'[e][d].err = "suspend" \/ (branch'[e][d].op = "wait" /\ branch'[e][d].at = "ok")
                 => ends'[e] = <<"suspended">>
      BY <1>3, <1>4, <2>2, <3>1
    <3> QED BY <1>2, <3>1, <3>2 DEF EndIsTrue
  <2>4. me.op = "wait" => me.pos \in Pos /\ me.call \in Calls
    BY <1>7
  <2> HIDE DEF me
  <2> QED BY <1>2, <1>4, <1>5, <1>6, <1>11, <2>1, <2>3, <2>4, EndKeeps
<1> QED BY <1>1, <1>9, <1>10, <1>11, TransactionDoes

LEMMA MainCommitKeeps ==
    ASSUME ReplayInv, NEW e \in Exec, MainCommit(e)
    PROVE  ReplayInv'
<1> DEFINE me == main[e]
<1>1. PICK ans \in Answers : Transaction(e, me, ans) /\ main' = [main EXCEPT ![e].at = ans]
  BY DEF MainCommit
<1>2. /\ me \in Part(MainOp) /\ me.at = "call" /\ UNCHANGED <<branch, mind>> /\ EndIsTrue(e)
      /\ me.op \notin {"report", "wait"}
  BY <1>1 DEF MainCommit, Transaction, ReplayInv, Shapes, Part, MainOp
<1> DEFINE x == [me EXCEPT !.at = ans]
<1>3. x \in Part(MainOp) /\ x.op = me.op /\ x.at = ans /\ x # Idle
  BY <1>2, Parts DEF Part, At, Answers
<1>4. /\ main' \in [Exec -> Part(MainOp)]
      /\ \A y \in Exec \ {e} : main'[y] = main[y]
      /\ main'[e] = x
  <2>1. main' = [main EXCEPT ![e] = x]
    BY <1>1, <1>2 DEF ReplayInv, Shapes
  <2> HIDE DEF x
  <2> QED BY <1>3, <2>1 DEF ReplayInv, Shapes
<1> HIDE DEF x
<1>5. /\ branch \in [Exec -> [Branch -> Part(CodeOp)]] /\ mind \in [Exec -> Mind]
      /\ ends \in [Exec -> Ends] /\ mind[e].seq >= mind[e].seq
  BY DEF ReplayInv, Shapes, Mind
<1>6. CASE Stays /\ UNCHANGED ledger
  <2>1. ~(me.op = "complete" /\ ans = "ok")
    <3> SUFFICES ASSUME me.op = "complete", ans = "ok" PROVE FALSE
      OBVIOUS
    <3>1. Accepted(e) /\ EndedAs(e, me, "completed")
      BY <1>1, TransactionDoes
    <3> QED BY <1>6, <3>1, ReplayAssumption DEF EndedAs, Accepted, Stays
  <2>2. EndIsTrue(e)'
    BY <1>2, <1>3, <1>4, <1>6, <2>1 DEF EndIsTrue, Stays
  <2> QED BY <1>2, <1>3, <1>4, <1>5, <1>6, <2>2, LocalKeeps DEF Stays
<1>7. ASSUME NEW how \in {"completed", "suspended", "failed"}, Accepted(e), EndedAs(e, me, how)
      PROVE  ReplayInv'
  <2>1. ends[e] = <<>>
    BY <1>7 DEF ReplayInv, Unended
  <2>2. me.op = "complete" /\ ans = "ok" => ends'[e] = <<"completed">>
    <3>1. me.op = "complete" /\ ans = "ok" => EndedAs(e, me, "completed")
      BY <1>1, TransactionDoes
    <3>2. Append(<<>>, "completed") = <<"completed">>
      OBVIOUS
    <3> QED BY <1>5, <2>1, <3>1, <3>2 DEF EndedAs
  <2>3. EndIsTrue(e)'
    <3>1. /\ mind[e].signal # "suspend"
          /\ \A d \in Branch : /\ branch[e][d].err # "suspend"
                               /\ ~(branch[e][d].op = "wait" /\ branch[e][d].at = "ok")
          /\ mind[e].result \notin {"completed", "suspended"}
      BY <1>7, BelievesNoEnd
    <3> QED BY <1>2, <1>3, <1>4, <2>2, <3>1 DEF EndIsTrue
  <2>4. main'[e] # Idle
    BY <1>3, <1>4
  <2> HIDE DEF me
  <2> QED BY <1>2, <1>4, <1>5, <1>7, <2>3, <2>4, EndKeeps DEF me
<1>8. ~Wrote(me)
  BY <1>2 DEF Wrote
<1> HIDE DEF me
<1> QED BY <1>1, <1>6, <1>7, <1>8, TransactionDoes

LEMMA StartKeeps ==
    ASSUME ReplayInv, NEW e \in Exec, Start(e)
    PROVE  ReplayInv'
<1>1. /\ status' = "running" /\ holder' = e /\ main[e] = Idle /\ mind[e] = Unborn
      /\ mind' = [mind EXCEPT ![e].view = ledger]
      /\ UNCHANGED <<ledger, parked, branch, ends>>
  BY DEF Start
<1>2. /\ mind' \in [Exec -> Mind] /\ \A y \in Exec \ {e} : mind'[y] = mind[y]
      /\ mind'[e].seq = 0 /\ mind'[e].view = ledger
      /\ mind'[e].signal = "none" /\ mind'[e].result = "none"
  <2> DEFINE m == [mind[e] EXCEPT !.view = ledger]
  <2>1. /\ m \in Mind /\ m.seq = 0 /\ m.view = ledger /\ m.signal = "none" /\ m.result = "none"
    BY <1>1, UnbornIsMind DEF ReplayInv, Shapes, Mind
  <2>2. mind \in [Exec -> Mind] /\ mind' = [mind EXCEPT ![e] = m]
    BY <1>1 DEF ReplayInv, Shapes
  <2> HIDE DEF m
  <2> QED BY <2>1, <2>2
<1>3. /\ main' \in [Exec -> Part(MainOp)] /\ \A y \in Exec \ {e} : main'[y] = main[y]
      /\ main'[e] # Idle /\ main'[e].op # "complete"
  <2>1. ASSUME NEW x \in Part(MainOp), x # Idle, x.op # "complete", main' = [main EXCEPT ![e] = x]
        PROVE  /\ main' \in [Exec -> Part(MainOp)] /\ \A y \in Exec \ {e} : main'[y] = main[y]
               /\ main'[e] # Idle /\ main'[e].op # "complete"
    BY <2>1 DEF ReplayInv, Shapes
  <2>2. LET x == [Idle EXCEPT !.at = "validate"]
        IN  x \in Part(MainOp) /\ x # Idle /\ x.op # "complete"
    BY DEF Idle, NoErr, Part, At, Err, MainOp
  <2>3. LET x == [Idle EXCEPT !.at = "call", !.op = "refuse"]
        IN  x \in Part(MainOp) /\ x # Idle /\ x.op # "complete"
    BY DEF Idle, NoErr, Part, At, Err, MainOp
  <2> QED BY <2>1, <2>2, <2>3 DEF Start
<1>4. \A b \in Branch : ~Working(branch[e][b])
  <2>1. mind[e].seq = 0
    BY <1>1, UnbornIsMind
  <2> QED BY <2>1 DEF ReplayInv, Placed, Pos
<1>5. Shapes'
  BY <1>1, <1>2, <1>3 DEF ReplayInv, Shapes
<1>6. Placed'
  <2>1. \A y \in Exec : mind'[y].seq >= mind[y].seq
    BY <1>1, <1>2, UnbornIsMind DEF ReplayInv, Shapes, Mind
  <2> QED BY <1>1, <1>2, <2>1, PlacesKept DEF ReplayInv
<1>7. \A y \in Exec : Accepted(y)' => y = e
  BY <1>1 DEF Accepted
<1>8. Current(e)'
  BY <1>1, <1>2, <1>4 DEF Current
<1>9. ends[e] = <<>>
  BY <1>1 DEF ReplayInv, Unended
<1>10. Unended' /\ Unclaimed'
  BY <1>1, <1>3, <1>7, <1>9 DEF ReplayInv, Unended, Unclaimed
<1>11. \A y \in Exec \ {e} : EndIsTrue(y)'
  BY <1>1, <1>2, <1>3 DEF ReplayInv, EndIsTrue
<1>12. EndIsTrue(e)'
  <2>1. <<"suspended">> # <<>>
    OBVIOUS
  <2>2. \A b \in Branch : ~(\/ branch[e][b].err = "suspend"
                              \/ (branch[e][b].op = "wait" /\ branch[e][b].at = "ok"))
    BY <1>9, <2>1 DEF ReplayInv, EndIsTrue
  <2> QED BY <1>1, <1>2, <1>3, <2>2 DEF EndIsTrue
<1> QED BY <1>5, <1>6, <1>7, <1>8, <1>10, <1>11, <1>12 DEF ReplayInv, SnapshotHolds

LEMMA ValidatedKeeps ==
    ASSUME ReplayInv, NEW e \in Exec, Validated(e)
    PROVE  ReplayInv'
<1>1. /\ UNCHANGED <<status, holder, ledger, parked, ends, mind>> /\ main[e].at = "validate"
  BY DEF Validated, kernelVars, Report
<1>2. /\ main' \in [Exec -> Part(MainOp)] /\ \A y \in Exec \ {e} : main'[y] = main[y]
      /\ main'[e] # Idle /\ main'[e].op # "complete"
  <2>1. ASSUME NEW x \in Part(MainOp), x # Idle, x.op # "complete", main' = [main EXCEPT ![e] = x]
        PROVE  /\ main' \in [Exec -> Part(MainOp)] /\ \A y \in Exec \ {e} : main'[y] = main[y]
               /\ main'[e] # Idle /\ main'[e].op # "complete"
    BY <2>1 DEF ReplayInv, Shapes
  <2>2. LET x == [Idle EXCEPT !.at = "run"]
        IN  x \in Part(MainOp) /\ x # Idle /\ x.op # "complete"
    BY DEF Idle, NoErr, Part, At, Err, MainOp
  <2>3. LET x == [Idle EXCEPT !.at = "call", !.op = "refuse"]
        IN  x \in Part(MainOp) /\ x # Idle /\ x.op # "complete"
    BY DEF Idle, NoErr, Part, At, Err, MainOp
  <2> QED BY <2>1, <2>2, <2>3 DEF Validated, Report
<1>3. /\ branch' \in [Exec -> [Branch -> Part(CodeOp)]]
      /\ \A y \in Exec \ {e} : branch'[y] = branch[y]
      /\ \A b \in Branch : branch'[e][b] \in {branch[e][b], UserCode, Idle}
  <2>1. branch \in [Exec -> [Branch -> Part(CodeOp)]]
    BY DEF ReplayInv, Shapes
  <2>2. CASE branch' = branch
    BY <2>1, <2>2
  <2>3. ASSUME NEW S, branch' = [branch EXCEPT ![e] = [b \in Branch |-> IF b \in S THEN UserCode ELSE Idle]]
        PROVE  /\ branch' \in [Exec -> [Branch -> Part(CodeOp)]]
               /\ \A y \in Exec \ {e} : branch'[y] = branch[y]
               /\ \A b \in Branch : branch'[e][b] \in {branch[e][b], UserCode, Idle}
    BY <2>1, <2>3, Parts
  <2> QED BY <2>2, <2>3 DEF Validated
<1>4. \A b \in Branch : Working(branch'[e][b]) =>
          /\ Working(branch[e][b])
          /\ branch'[e][b].pos = branch[e][b].pos /\ branch'[e][b].call = branch[e][b].call
  BY <1>3, Parts
<1>5. EndIsTrue(e)'
  <2>1. \A b \in Branch :
           branch'[e][b].err = "suspend" \/ (branch'[e][b].op = "wait" /\ branch'[e][b].at = "ok")
               => ends'[e] = <<"suspended">>
    BY <1>1, <1>3, Parts DEF ReplayInv, EndIsTrue
  <2> QED BY <1>1, <1>2, <2>1 DEF ReplayInv, EndIsTrue
<1>6. mind' \in [Exec -> Mind] /\ mind'[e].seq >= mind[e].seq
  BY <1>1 DEF ReplayInv, Shapes, Mind
<1> QED BY <1>1, <1>2, <1>3, <1>4, <1>5, <1>6, LocalKeeps

LEMMA OthersKeep ==
    ASSUME ReplayInv, Cancel \/ Reap \/ Resume
    PROVE  ReplayInv'
<1>1. UNCHANGED <<main, branch, mind, ends>> /\ status' \in {"canceled", "queued"}
  BY DEF Cancel, Reap, Resume
<1>2. ledger' \in [Pos -> Row]
  <2>1. CASE Cancel \/ Reap
    BY <2>1 DEF ReplayInv, Shapes, Cancel, Reap
  <2>2. CASE Resume
    <3>1. RowOf(parked.call) \in Row /\ parked.pos \in Pos
      BY <2>2, RowsAreRows DEF ReplayInv, Shapes, Resume
    <3> QED BY <2>2, <3>1 DEF ReplayInv, Shapes, Resume
  <2> QED BY <2>1, <2>2
<1>3. holder' \in {holder, None}
  BY DEF Cancel, Reap, Resume
<1>4. Shapes'
  BY <1>1, <1>2, <1>3 DEF ReplayInv, Shapes
<1>5. Placed'
  BY <1>1 DEF ReplayInv, Placed
<1>6. \A y \in Exec : ~Accepted(y)'
  BY <1>1 DEF Accepted
<1>7. Unended' /\ Unclaimed'
  BY <1>1, <1>3, <1>6, ReplayAssumption DEF ReplayInv, Unended, Unclaimed
<1>8. \A y \in Exec : EndIsTrue(y)'
  BY <1>1 DEF ReplayInv, EndIsTrue
<1> QED BY <1>4, <1>5, <1>6, <1>7, <1>8 DEF ReplayInv, SnapshotHolds

LEMMA ReplayInvStep == ReplayInv /\ [ReplayNext]_replayVars => ReplayInv'
<1> SUFFICES ASSUME ReplayInv, [ReplayNext]_replayVars PROVE ReplayInv'
  OBVIOUS
<1>1. CASE UNCHANGED replayVars
  BY <1>1 DEF replayVars, ReplayInv, Shapes, Placed, SnapshotHolds, Current, Accepted, Unended,
              Unclaimed, EndIsTrue
<1>2. ASSUME NEW e \in Exec, Start(e) \/ Validated(e) PROVE ReplayInv'
  BY <1>2, StartKeeps, ValidatedKeeps
<1>3. ASSUME NEW e \in Exec, NEW canceled \in BOOLEAN, Told(e, canceled) PROVE ReplayInv'
  BY <1>3, ToldKeeps
<1>4. ASSUME NEW e \in Exec, NEW b \in Branch, Code(e, b) PROVE ReplayInv'
  BY <1>4, PrimitiveKeeps, BodyKeeps, OwnCodeKeeps, MainCodeKeeps DEF Code
<1>5. ASSUME NEW e \in Exec, Kernel(e) PROVE ReplayInv'
  BY <1>5, CommitKeeps, AnsweredKeeps, MainCommitKeeps, MainCodeKeeps DEF Kernel
<1>6. CASE Cancel \/ Reap \/ Resume
  BY <1>6, OthersKeep
<1> QED BY <1>1, <1>2, <1>3, <1>4, <1>5, <1>6 DEF ReplayNext

\* What a claim has done is done once: no body of a step runs, or reports, where its
\* row is recorded, a claim ends its run at most once, and execute() answers with the
\* end that the kernel accepted.  (executor.ts doStep, cached, endedWithoutUs)
THEOREM DoesNothingTwice == ReplaySpec => []NothingDoneTwice
<1>1. ReplaySpec => []ReplayInv
  BY ReplayInvInit, ReplayInvStep, PTL DEF ReplaySpec
<1> QED BY <1>1, ReplayInvHolds, PTL

----------------------------------------------------------------------------
\* What no step does

LEMMA ShapesAlways == ReplaySpec => []Shapes
  BY ReplayInvInit, ReplayInvStep, PTL DEF ReplaySpec, ReplayInv

\* What one branch, and run() itself, may do once the executor knows better.
Silenced(e)     == mind[e].signal # "none" \/ mind[e].abandoned
BranchMay(e, b) ==
    /\ Silenced(e) => \/ branch'[e][b].at \notin {"body", "call"}
                      \/ branch[e][b].at \in {"body", "call"}
                      \/ branch'[e][b].op \in {"fail", "failAbort"}
    /\ mind[e].told => (Blames(branch'[e][b]) => Blames(branch[e][b]))
MainMay(e) ==
    mind[e].told =>
        (Blames(main'[e]) => Blames(main[e]) \/ (main'[e].op = "refuse" /\ DataRefused(e)))

LEMMA BranchSteps ==
    ASSUME Shapes, NEW e \in Exec, NEW b \in Branch, NEW x,
           branch' = [branch EXCEPT ![e][b] = x],
           Silenced(e) => \/ x.at \notin {"body", "call"}
                          \/ branch[e][b].at \in {"body", "call"}
                          \/ x.op \in {"fail", "failAbort"},
           mind[e].told => (Blames(x) => Blames(branch[e][b]))
    PROVE  \A y \in Exec, d \in Branch : BranchMay(y, d)
<1>1. /\ branch'[e][b] = x
      /\ \A d \in Branch \ {b} : branch'[e][d] = branch[e][d]
      /\ \A y \in Exec \ {e} : branch'[y] = branch[y]
  BY DEF Shapes
<1> QED BY <1>1 DEF BranchMay

LEMMA ThrowIsQuiet ==
    ASSUME Shapes, NEW e \in Exec, NEW b \in Branch, NEW err, Throw(e, b, err)
    PROVE  \A y \in Exec, d \in Branch : BranchMay(y, d)
<1> DEFINE x == [Idle EXCEPT !.at = "thrown", !.err = err]
<1>1. x.at = "thrown" /\ x.op = "none"
  BY DEF Idle, NoErr
<1>2. branch' = [branch EXCEPT ![e][b] = x]
  BY DEF Throw
<1> HIDE DEF x
<1> QED BY <1>1, <1>2, BranchSteps DEF Blames

LEMMA CodeMay ==
    ASSUME Shapes, NEW e \in Exec, NEW b \in Branch, Code(e, b) \/ Commit(e, b) \/ Answered(e, b)
    PROVE  \A y \in Exec, d \in Branch : BranchMay(y, d)
<1>1. CASE branch' = branch
  BY <1>1 DEF BranchMay
<1>2. CASE \E x \in {UserCode, Left} : branch' = [branch EXCEPT ![e][b] = x]
  BY <1>2, Parts, BranchSteps DEF Blames
<1>3. CASE \E err : Throw(e, b, err)
  BY <1>3, ThrowIsQuiet
<1>4. ASSUME NEW c \in Calls, Primitive(e, b, c) PROVE \A y \in Exec, d \in Branch : BranchMay(y, d)
  <2> DEFINE at == IF c.kind = "step" THEN "body" ELSE "call"
             x  == [Idle EXCEPT !.at = at, !.op = OpOf(c), !.pos = mind[e].seq, !.call = c]
  <2>1. CASE Await(e, b, at, OpOf(c), mind[e].seq, c) /\ ~Swallowed(e) /\ ~mind[e].abandoned
    <3>1. branch' = [branch EXCEPT ![e][b] = x] /\ ~Silenced(e)
      BY <2>1 DEF Await, Swallowed, Silenced
    <3>2. ~Blames(x)
      BY DEF Idle, NoErr, OpOf, Blames
    <3> HIDE DEF x
    <3> QED BY <3>1, <3>2, BranchSteps
  <2>2. \/ \E err : Throw(e, b, err)
        \/ branch' = branch
        \/ Await(e, b, at, OpOf(c), mind[e].seq, c) /\ ~Swallowed(e) /\ ~mind[e].abandoned
    BY <1>4 DEF Primitive
  <2> QED BY <1>1, <1>3, <2>1, <2>2
<1>5. CASE Body(e, b)
  <2> DEFINE me == branch[e][b]
  <2>1. CASE Await(e, b, "call", "report", me.pos, me.call)
    <3> DEFINE x == [Idle EXCEPT !.at = "call", !.op = "report", !.pos = me.pos, !.call = me.call]
    <3>1. ~Blames(x) /\ branch' = [branch EXCEPT ![e][b] = x] /\ me.at = "body"
      BY <1>5, <2>1 DEF Await, Body, Idle, NoErr, Blames
    <3> HIDE DEF x
    <3> QED BY <3>1, BranchSteps
  <2>2. ASSUME NEW err \in {"plain", "abort"}, ~mind[e].told,
               branch' = [branch EXCEPT ![e][b] = [me EXCEPT !.at = "call", !.op = "reportFailed",
                                                             !.err = err]]
        PROVE  \A y \in Exec, d \in Branch : BranchMay(y, d)
    <3>1. me.at = "body"
      BY <1>5 DEF Body
    <3> QED BY <2>2, <3>1, BranchSteps
  <2> QED BY <1>3, <1>5, <2>1, <2>2 DEF Body
<1>6. CASE Commit(e, b)
  <2>1. PICK ans : branch' = [branch EXCEPT ![e][b].at = ans]
    BY <1>6 DEF Commit
  <2> DEFINE x == [branch[e][b] EXCEPT !.at = ans]
  <2>2. branch[e][b] \in Part(CodeOp) /\ branch[e][b].at = "call"
    BY <1>6 DEF Commit, Transaction, Shapes
  <2>3. branch' = [branch EXCEPT ![e][b] = x] /\ x.op = branch[e][b].op
    BY <2>1, <2>2 DEF Shapes, Part
  <2> HIDE DEF x
  <2> QED BY <2>2, <2>3, BranchSteps DEF Blames
<1>7. CASE Answered(e, b)
  <2>1. ASSUME NEW op \in {"failAbort", "fail"}, branch[e][b].op = "reportFailed",
               branch' = [branch EXCEPT ![e][b].at = "call", ![e][b].op = op]
        PROVE  \A y \in Exec, d \in Branch : BranchMay(y, d)
    <3> DEFINE x == [branch[e][b] EXCEPT !.at = "call", !.op = op]
    <3>1. branch \in [Exec -> [Branch -> Part(CodeOp)]] /\ branch[e][b] \in Part(CodeOp)
      BY DEF Shapes
    <3>2. branch' = [branch EXCEPT ![e][b] = x] /\ x.op = op
      BY <2>1, <3>1 DEF Part
    <3>3. Blames(branch[e][b])
      BY <2>1 DEF Blames
    <3> HIDE DEF x
    <3> QED BY <3>2, <3>3, BranchSteps
  <2>2. \/ Continue(e, b)
        \/ \E err : Throw(e, b, err)
        \/ /\ branch[e][b].op = "reportFailed"
           /\ \E op \in {"failAbort", "fail"} :
                 branch' = [branch EXCEPT ![e][b].at = "call", ![e][b].op = op]
    BY <1>7 DEF Answered
  <2> QED BY <1>2, <1>3, <2>1, <2>2 DEF Continue
<1>8. CASE OwnError(e, b) \/ Catch(e, b) \/ Leave(e, b) \/ Return(e, b) \/ HandleThrown(e, b)
  BY <1>2, <1>3, <1>8 DEF OwnError, Catch, Continue, Leave, Return, HandleThrown
<1> QED BY <1>4, <1>5, <1>6, <1>7, <1>8 DEF Code

LEMMA MainPartMay ==
    ASSUME Shapes, NEW e \in Exec,
           MainCommit(e) \/ MainAnswered(e) \/ \E b \in Branch : Return(e, b) \/ HandleThrown(e, b)
    PROVE  \A y \in Exec : MainMay(y)
<1>1. \A y \in Exec \ {e} : main'[y] = main[y]
  BY DEF Shapes, MainCommit, MainAnswered, Return, ReturnOf, HandleThrown, VerdictOnError, Over, Report
<1>2. MainMay(e)
  <2>1. CASE MainCommit(e)
    <3>1. PICK ans : main' = [main EXCEPT ![e].at = ans]
      BY <2>1 DEF MainCommit
    <3>2. main[e] \in Part(MainOp) /\ main'[e].op = main[e].op
      BY <3>1 DEF Shapes, Part
    <3> QED BY <3>2 DEF MainMay, Blames
  <2>2. ASSUME NEW result, Over(e, result) PROVE MainMay(e)
    <3>1. main'[e].op = "none"
      BY <2>2 DEF Over, Shapes, Idle
    <3> QED BY <3>1 DEF MainMay, Blames
  <2>3. ASSUME NEW op, Report(e, op),
               mind[e].told => op = "complete" \/ (op = "refuse" /\ DataRefused(e))
        PROVE  MainMay(e)
    <3>1. main'[e].op = op
      BY <2>3 DEF Report, Shapes, Idle
    <3> QED BY <2>3, <3>1 DEF MainMay, Blames
  <2>4. CASE MainAnswered(e)
    <3>1. (\E result : Over(e, result)) \/ (Report(e, "refuse") /\ DataRefused(e))
      BY <2>4 DEF MainAnswered, DataRefused
    <3> QED BY <2>2, <2>3, <3>1
  <2>5. ASSUME NEW b \in Branch, Return(e, b) PROVE MainMay(e)
    <3>1. (\E result : Over(e, result)) \/ Report(e, "complete")
      BY <2>5 DEF Return, ReturnOf
    <3> QED BY <2>2, <2>3, <3>1
  <2>6. ASSUME NEW b \in Branch, HandleThrown(e, b) PROVE MainMay(e)
    <3>1. (\E result : Over(e, result)) \/ (~mind[e].told /\ \E op : Report(e, op))
      BY <2>6 DEF HandleThrown, VerdictOnError
    <3> QED BY <2>2, <2>3, <3>1
  <2> QED BY <2>1, <2>4, <2>5, <2>6
<1> QED BY <1>1, <1>2 DEF MainMay

LEMMA StepsMay ==
    ASSUME Shapes, [ReplayNext]_replayVars
    PROVE  \A e \in Exec : MainMay(e) /\ \A b \in Branch : BranchMay(e, b)
<1>1. CASE UNCHANGED <<main, branch>>
  BY <1>1 DEF MainMay, BranchMay
<1>2. CASE UNCHANGED replayVars \/ Cancel \/ Reap \/ Resume
  BY <1>1, <1>2 DEF replayVars, Cancel, Reap, Resume
<1>3. ASSUME NEW e \in Exec, NEW canceled \in BOOLEAN, Told(e, canceled)
      PROVE  UNCHANGED <<main, branch>>
  BY <1>3 DEF Told
<1>4. ASSUME NEW e \in Exec, Start(e)
      PROVE  \A y \in Exec : MainMay(y) /\ \A b \in Branch : BranchMay(y, b)
  <2>1. ~mind[e].told /\ UNCHANGED branch
    BY <1>4 DEF Start, Unborn
  <2>2. \A y \in Exec \ {e} : main'[y] = main[y]
    BY <1>4 DEF Start, Shapes
  <2> QED BY <2>1, <2>2 DEF MainMay, BranchMay
<1>5. ASSUME NEW e \in Exec, Validated(e)
      PROVE  \A y \in Exec : MainMay(y) /\ \A b \in Branch : BranchMay(y, b)
  <2>1. /\ DataRefused(e)
        /\ main'[e].op \in {"none", "refuse"}
        /\ \A y \in Exec \ {e} : main'[y] = main[y]
    <3>1. DataRefused(e)
      BY <1>5 DEF Validated, DataRefused
    <3>2. ASSUME NEW r \in {[Idle EXCEPT !.at = "run"], [Idle EXCEPT !.at = "call", !.op = "refuse"]},
                 main' = [main EXCEPT ![e] = r]
          PROVE  main'[e] = r /\ \A y \in Exec \ {e} : main'[y] = main[y]
      BY <3>2 DEF Shapes
    <3>3. /\ [Idle EXCEPT !.at = "run"].op = "none"
          /\ [Idle EXCEPT !.at = "call", !.op = "refuse"].op = "refuse"
      BY DEF Idle
    <3>4. CASE main' = [main EXCEPT ![e] = [Idle EXCEPT !.at = "run"]]
      BY <3>1, <3>2, <3>3, <3>4
    <3>5. CASE main' = [main EXCEPT ![e] = [Idle EXCEPT !.at = "call", !.op = "refuse"]]
      BY <3>1, <3>2, <3>3, <3>5
    <3> QED BY <1>5, <3>4, <3>5 DEF Validated, Report
  <2>2. ASSUME NEW S,
               branch' = [branch EXCEPT ![e] = [b \in Branch |-> IF b \in S THEN UserCode ELSE Idle]]
        PROVE  /\ \A y \in Exec \ {e} : branch'[y] = branch[y]
               /\ \A b \in Branch : branch'[e][b] \in {UserCode, Idle}
    BY <2>2 DEF Shapes
  <2>3. \/ UNCHANGED branch
        \/ /\ \A y \in Exec \ {e} : branch'[y] = branch[y]
           /\ \A b \in Branch : branch'[e][b] \in {UserCode, Idle}
    BY <1>5, <2>2 DEF Validated
  <2>4. \A y \in Exec : MainMay(y)
    BY <2>1 DEF MainMay, Blames
  <2>5. \A y \in Exec, b \in Branch : BranchMay(y, b)
    BY <2>3, Parts DEF BranchMay, Blames
  <2> QED BY <2>4, <2>5
<1>6. ASSUME NEW e \in Exec, NEW b \in Branch, Code(e, b) \/ Commit(e, b) \/ Answered(e, b)
      PROVE  \A y \in Exec : MainMay(y) /\ \A d \in Branch : BranchMay(y, d)
  <2>1. UNCHANGED main \/ Return(e, b) \/ HandleThrown(e, b)
    BY <1>6 DEF Code, Primitive, Body, OwnError, Catch, Leave, Commit, Answered
  <2>2. \A y \in Exec : MainMay(y)
    BY <2>1, MainPartMay DEF MainMay
  <2> QED BY <1>6, <2>2, CodeMay
<1>7. ASSUME NEW e \in Exec, MainCommit(e) \/ MainAnswered(e)
      PROVE  \A y \in Exec : MainMay(y) /\ \A d \in Branch : BranchMay(y, d)
  <2>1. UNCHANGED branch
    BY <1>7 DEF MainCommit, MainAnswered
  <2> QED BY <1>7, <2>1, MainPartMay DEF BranchMay
<1> QED BY <1>1, <1>2, <1>3, <1>4, <1>5, <1>6, <1>7 DEF ReplayNext, Kernel

\* Once the executor knows of its run's suspension, end or loss, no body of a step
\* starts and no durable call is made.  (executor.ts assertSignalNotSwallowed)
THEOREM SilentAfterSignal == ReplaySpec => NothingAfterSignal
<1>1. Shapes /\ [ReplayNext]_replayVars =>
          [\A e \in Exec, b \in Branch :
              mind[e].signal # "none" \/ mind[e].abandoned =>
                  \/ branch'[e][b].at \notin {"body", "call"}
                  \/ branch[e][b].at \in {"body", "call"}
                  \/ branch'[e][b].op \in {"fail", "failAbort"}]_replayVars
  BY StepsMay DEF BranchMay, Silenced
<1> QED BY <1>1, ShapesAlways, PTL DEF ReplaySpec, NothingAfterSignal

\* An execution told to stop blames neither a step nor the run for what its code throws:
\* but for a report it had begun, it begins no failure other than the refusal of a
\* payload or of an output.  (executor.ts abandonIfAborted, handleThrown, execute)
THEOREM StoppedBlamesNobody == ReplaySpec => AbortIsNotAFailure
<1>1. Shapes /\ [ReplayNext]_replayVars =>
          [\A e \in Exec : mind[e].told =>
              /\ Blames(main'[e]) => Blames(main[e]) \/ (main'[e].op = "refuse" /\ DataRefused(e))
              /\ \A b \in Branch : Blames(branch'[e][b]) => Blames(branch[e][b])]_replayVars
  BY StepsMay DEF BranchMay, MainMay
<1> QED BY <1>1, ShapesAlways, PTL DEF ReplaySpec, AbortIsNotAFailure

=============================================================================
