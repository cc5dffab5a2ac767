---------------------------- MODULE DaemonProofs ----------------------------
(***************************************************************************)
(* Theorems about the parts of a daemon process, one section for each:     *)
(* Migration, Exit, ResultDelivery, Listener.                              *)
(***************************************************************************)
EXTENDS Migration, Exit, ResultDelivery, Listener, FiniteSetTheorems, TLAPS

----------------------------------------------------------------------------
\* Migration: for any folders and any number of boots and failures.

\* A look at the journal is as good as the lock: while its reader has not applied, the
\* journal stays a prefix of the migrations and ends where it was read.
MigShapes ==
    /\ applied \in [Migrations -> {0, 1}]
    /\ booting \in [Booter -> {"off", "locking", "reading", "applying", "unlocking", "up", "failed"}]
    /\ journal \in [Booter -> Nat]
Serialised ==
    \A d \in Booter : booting[d] \in {"reading", "applying"} => holder = d
JournalIsCurrent ==
    \A d \in Booter : booting[d] = "applying" =>
        \A m \in Migrations : applied[m] > 0 <=> m <= journal[d]
OwnApplied ==
    \A d \in Booter : booting[d] = "up" \/ (booting[d] = "unlocking" /\ d \notin threw) =>
        \A m \in 1 .. FolderOf[d] : applied[m] = 1
MigInv == MigShapes /\ Serialised /\ JournalIsCurrent /\ OwnApplied

LEMMA FoldersHold ==
    /\ \A d \in Booter : \A m \in 1 .. FolderOf[d] : m \in Migrations
    /\ Migrations \subseteq Nat \ {0}
<1>1. \A d \in Booter : FolderOf[d] \in Nat
  BY MigrationAssumption
<1> QED BY <1>1 DEF Migrations

LEMMA MigInvInit == MigInit => MigInv
  BY MigrationAssumption
  DEF MigInit, MigInv, MigShapes, Serialised, JournalIsCurrent, OwnApplied

\* Nothing is applied, and no reader of the journal appears: what is left to see is who
\* holds the lock and who is done.
LEMMA MigFrame ==
    ASSUME MigInv, UNCHANGED <<applied, journal>>, NEW d \in Booter,
           NEW where \in {"locking", "unlocking", "up", "failed"}, MovesTo(d, where),
           threw' \subseteq threw \cup {d}, threw \ {d} \subseteq threw',
           holder' = holder \/ holder = d,
           where = "unlocking" => d \in threw',
           where = "up" => booting[d] = "unlocking" /\ d \notin threw
    PROVE  MigInv'
<1>1. MigShapes' /\ booting'[d] = where /\ \A e \in Booter : e # d => booting'[e] = booting[e]
  BY DEF MigInv, MigShapes, MovesTo
<1>2. Serialised' /\ JournalIsCurrent'
  BY <1>1 DEF MigInv, Serialised, JournalIsCurrent
<1>3. OwnApplied'
  BY <1>1 DEF MigInv, OwnApplied
<1> QED BY <1>1, <1>2, <1>3 DEF MigInv

\* The one step that applies: what it adds is behind the end of the journal, so
\* nothing is applied again, and what it adds with the rest is its whole folder.
LEMMA AppliesKeeps ==
    ASSUME MigInv, NEW d \in Booter, Applies(d)
    PROVE  MigInv'
<1>1. /\ booting[d] = "applying" /\ holder = d
      /\ \A m \in Migrations : applied[m] > 0 <=> m <= journal[d]
  BY DEF MigInv, Serialised, JournalIsCurrent, Applies
<1>2. /\ booting'[d] = "unlocking"
      /\ \A e \in Booter : e # d => booting'[e] = booting[e] /\ booting'[e] # "applying"
  BY <1>1 DEF MigInv, MigShapes, Serialised, Applies, MovesTo
<1>3. journal[d] \in Nat /\ FolderOf[d] \in Nat
  BY MigrationAssumption DEF MigInv, MigShapes
<1>4. ASSUME NEW m \in Migrations
      PROVE  /\ applied'[m] \in {0, 1}
             /\ applied[m] = 1 \/ m <= FolderOf[d] => applied'[m] = 1
  BY <1>1, <1>3, <1>4, FoldersHold DEF MigInv, MigShapes, Applies
<1>5. MigShapes'
  BY <1>4 DEF MigInv, MigShapes, Applies, MovesTo
<1>6. Serialised' /\ JournalIsCurrent'
  BY <1>2 DEF MigInv, Serialised, JournalIsCurrent, Applies
<1>7. ASSUME NEW e \in Booter, NEW m \in 1 .. FolderOf[e],
             booting'[e] = "up" \/ (booting'[e] = "unlocking" /\ e \notin threw')
      PROVE  applied'[m] = 1
  <2>1. m \in Migrations
    BY FoldersHold
  <2>2. CASE e = d
    BY <1>3, <1>4, <2>1, <2>2
  <2>3. CASE e # d
    BY <1>2, <1>4, <1>7, <2>1, <2>3 DEF MigInv, OwnApplied, Applies
  <2> QED BY <2>2, <2>3
<1>8. OwnApplied'
  BY <1>7 DEF OwnApplied
<1> QED BY <1>5, <1>6, <1>8 DEF MigInv

LEMMA MigInvNext == MigInv /\ [MigNext]_migVars => MigInv'
<1> SUFFICES ASSUME MigInv, [MigNext]_migVars PROVE MigInv'
  OBVIOUS
<1>1. ASSUME NEW d \in Booter, Boots(d) PROVE MigInv'
  BY <1>1, MigFrame DEF Boots
<1>2. ASSUME NEW d \in Booter, TakesLock(d) PROVE MigInv'
  <2>1. \A e \in Booter : e # d => booting'[e] = booting[e]
    BY <1>2 DEF TakesLock, MovesTo, MigInv, MigShapes
  <2>2. \A e \in Booter : booting[e] \notin {"reading", "applying"}
    BY <1>2, MigrationAssumption DEF TakesLock, LockIsFree, MigInv, Serialised
  <2> QED BY <1>2, <2>1, <2>2
          DEF TakesLock, MovesTo, MigInv, MigShapes, Serialised, JournalIsCurrent, OwnApplied
<1>3. ASSUME NEW d \in Booter, LockTimesOut(d) PROVE MigInv'
  BY <1>3, MigFrame DEF LockTimesOut
<1>4. ASSUME NEW d \in Booter, ReadsJournal(d) PROVE MigInv'
  <2>1. PICK n \in Migrations \cup {0} :
            /\ \A m \in Migrations : applied[m] > 0 <=> m <= n
            /\ journal' = [journal EXCEPT ![d] = n]
    BY <1>4 DEF ReadsJournal
  <2>2. n \in Nat
    BY FoldersHold
  <2>3. MigShapes' /\ journal'[d] = n
        /\ \A e \in Booter : e # d => booting'[e] = booting[e] /\ journal'[e] = journal[e]
    BY <1>4, <2>1, <2>2 DEF ReadsJournal, MovesTo, MigInv, MigShapes
  <2> QED BY <1>4, <2>1, <2>3
          DEF ReadsJournal, MovesTo, MigInv, MigShapes, Serialised, JournalIsCurrent, OwnApplied
<1>5. ASSUME NEW d \in Booter, Applies(d) PROVE MigInv'
  BY <1>5, AppliesKeeps
<1>6. ASSUME NEW d \in Booter, MigratorThrows(d) PROVE MigInv'
  BY <1>6, MigFrame DEF MigratorThrows
<1>7. ASSUME NEW d \in Booter, Unlocks(d) PROVE MigInv'
  BY <1>7, MigFrame DEF Unlocks, Ended, LetGo
<1>8. ASSUME NEW d \in Booter, UnlockSwallowed(d) PROVE MigInv'
  BY <1>8, MigFrame DEF UnlockSwallowed, Ended
<1>9. ASSUME NEW d \in Booter, SessionDies(d) PROVE MigInv'
  <2>1. CASE booting[d] \in {"up", "failed"} /\ holder = d /\ UNCHANGED <<threw, booting>>
    BY <1>9, <2>1
    DEF SessionDies, LetGo, MigInv, MigShapes, Serialised, JournalIsCurrent, OwnApplied
  <2>2. CASE ~(booting[d] \in {"up", "failed"} /\ holder = d /\ UNCHANGED <<threw, booting>>)
    BY <1>9, <2>2, MigFrame DEF SessionDies, LetGo
  <2> QED BY <2>1, <2>2
<1>10. CASE UNCHANGED migVars
  BY <1>10 DEF migVars, MigInv, MigShapes, Serialised, JournalIsCurrent, OwnApplied
<1> QED BY <1>1, <1>2, <1>3, <1>4, <1>5, <1>6, <1>7, <1>8, <1>9, <1>10 DEF MigNext

\* However many daemons of whichever builds boot at once, and whatever fails on the
\* way, each migration is applied at most once, and who comes up has all of its own.
THEOREM MigratesOnce == MigSpec => []MigratedOnce
<1>1. MigInv => MigratedOnce
  BY DEF MigInv, MigShapes, OwnApplied, MigratedOnce
<1> QED BY <1>1, MigInvInit, MigInvNext, PTL DEF MigSpec

----------------------------------------------------------------------------
\* Exit: whatever meets whatever, pieces are ended once and code 0 says what it means.

ExitShapes ==
    /\ daemon \subseteq Piece
    /\ work \in {"free", "held", "waiting", "refused", "billed"}
    /\ handoff \in {"none", "done"} \cup {Order[i] : i \in 1 .. 4}
    /\ closed \in [Piece -> {0, 1}]
    /\ code \in {0, 1, Running}
    /\ exiting \in BOOLEAN /\ fatal \in BOOLEAN /\ prompt \in BOOLEAN /\ marked \in BOOLEAN
    /\ unreleased \in BOOLEAN /\ faulted \in BOOLEAN

\* The hand-off ends the pieces in their order: none of those to come is ended yet.
InTurn ==
    /\ handoff = "none" => \A p \in Piece : closed[p] = 0
    /\ \A i \in 1 .. 4 : handoff = Order[i] => \A j \in (i + 1) .. 4 : closed[Order[j]] = 0

\* Who exits hands off; and a fault is remembered.
Remembered == (exiting <=> handoff # "none") /\ (faulted => fatal)

\* A daemon that is up has all its pieces; until it exits only the worker claims, and
\* only beside the waiters.
Assembled ==
    /\ boot \in {"migrate", "storage", "register", "refused", "registered"} =>
          {"pool", "probePool"} \subseteq daemon
    /\ boot \in {"storage", "register", "refused", "registered"} =>
          {"waiters", "notify"} \subseteq daemon
    /\ boot = "up" => daemon = Piece
    /\ handoff = "none" =>
          /\ "worker" \in going => boot = "up"
          /\ boot \in {"storage", "register", "refused", "registered", "up"} => "waiters" \in going
          /\ work \in {"free", "held", "waiting"}
          /\ boot # "up" => work = "free"

\* A hand-off that found the daemon up, with no fault so far.
Undisturbed == handoff # "none" /\ ~prompt /\ ~fatal

TakenApart ==
    Undisturbed =>
        /\ boot = "up" /\ marked /\ "worker" \notin going /\ "waiters" \notin going
        /\ work \in {"free", "held", "refused"}
        /\ closed["server"] = 1 /\ closed["waiters"] = 1
        /\ \A i \in 1 .. 4 : handoff = Order[i] => \A j \in 1 .. i : closed[Order[j]] = 1
        /\ handoff = "done" => \A p \in Piece : closed[p] = 1
        /\ handoff # "worker" /\ ~unreleased => workersRow = "offline" /\ work = "free"

CodeIsTrue == code = 0 => handoff = "done" /\ ~fatal

ExitInv == ExitShapes /\ InTurn /\ Remembered /\ Assembled /\ TakenApart /\ CodeIsTrue

\* The pieces in their order.
LEMMA OrderIs ==
    /\ Order[1] = "worker" /\ Order[2] = "notify" /\ Order[3] = "pool" /\ Order[4] = "probePool"
    /\ \A i \in 1 .. 4 : Order[i] \in Piece /\ Order[i] \notin {"none", "done", "server", "waiters"}
    /\ \A i, j \in 1 .. 4 : Order[i] = Order[j] => i = j
    /\ \A p \in Piece : p \in {"server", "waiters"} \/ \E i \in 1 .. 4 : p = Order[i]
  BY DEF Order, Piece

LEMMA ExitInvHolds == ExitInv => CleanExit
  BY DEF ExitInv, ExitShapes, Remembered, TakenApart, Undisturbed, CodeIsTrue, CleanExit

LEMMA ExitInvInit == ExitInit => ExitInv
<1> SUFFICES ASSUME ExitInit PROVE ExitInv
  OBVIOUS
<1>1. ExitShapes
  BY DEF ExitInit, ExitShapes, Running
<1>2. InTurn
  BY OrderIs DEF ExitInit, InTurn
<1>3. Remembered /\ Assembled /\ TakenApart /\ CodeIsTrue
  BY DEF ExitInit, Remembered, Assembled, TakenApart, Undisturbed, CodeIsTrue, Running
<1> QED BY <1>1, <1>2, <1>3 DEF ExitInv

\* The next piece that there is, or the end.
LEMMA AwaitedIs ==
    ASSUME NEW from \in 1 .. 5
    PROVE  /\ Awaited(from) = "done" \/ \E i \in from .. 4 : Awaited(from) = Order[i] /\ Order[i] \in daemon
           /\ daemon = Piece => Awaited(from) = IF from = 5 THEN "done" ELSE Order[from]
<1> DEFINE left == {i \in from .. 4 : Order[i] \in daemon}
           first == CHOOSE i \in left : \A j \in left : i <= j
<1>1. CASE left = {}
  <2>1. Awaited(from) = "done"
    BY <1>1 DEF Awaited
  <2>2. daemon = Piece => from = 5
    BY <1>1, OrderIs
  <2> QED BY <2>1, <2>2
<1>2. CASE left # {}
  <2>1. left \subseteq 1 .. 4
    OBVIOUS
  <2>2. \E i \in left : \A j \in left : i <= j
    <3>1. CASE 1 \in left
      BY <2>1, <3>1
    <3>2. CASE 1 \notin left /\ 2 \in left
      BY <2>1, <3>2
    <3>3. CASE 1 \notin left /\ 2 \notin left /\ 3 \in left
      BY <2>1, <3>3
    <3>4. CASE 1 \notin left /\ 2 \notin left /\ 3 \notin left
      BY <1>2, <2>1, <3>4
    <3> QED BY <3>1, <3>2, <3>3, <3>4
  <2>3. first \in left /\ \A j \in left : first <= j
    BY <2>2
  <2>4. Awaited(from) = Order[first]
    BY <1>2 DEF Awaited
  <2>5. daemon = Piece => from \in left
    BY <1>2, OrderIs
  <2> HIDE DEF first
  <2> QED BY <2>1, <2>3, <2>4, <2>5
<1> QED BY <1>1, <1>2

\* The pieces that a step of the hand-off ends, each for the first time.
LEMMA CalledIs ==
    ASSUME ExitShapes, NEW pieces, \A p \in Piece \cap pieces : closed[p] = 0,
           closed' = Called(pieces)
    PROVE  /\ closed' \in [Piece -> {0, 1}]
           /\ \A p \in Piece : closed'[p] = IF p \in pieces \cap daemon THEN 1 ELSE closed[p]
  BY DEF ExitShapes, Called

LEMMA BeginsInTurn ==
    ASSUME ExitInv, HandoffBegins, handoff = "none"
    PROVE  /\ closed' \in [Piece -> {0, 1}]
           /\ handoff' \in {"done"} \cup {Order[i] : i \in 1 .. 4}
           /\ \A i \in 1 .. 4 : handoff' = Order[i] => \A j \in (i + 1) .. 4 : closed'[Order[j]] = 0
           /\ work' \in {"free", "held", "refused"} /\ marked' \in BOOLEAN
           /\ daemon = Piece =>
                 /\ handoff' = "worker" /\ marked'
                 /\ closed'["worker"] = 1 /\ closed'["server"] = 1 /\ closed'["waiters"] = 1
                 /\ "worker" \notin going' /\ "waiters" \notin going'
<1>1. \A p \in Piece : closed[p] = 0
  BY DEF ExitInv, InTurn
<1>2. PICK a : a = Awaited(1)
  OBVIOUS
<1>3. a = "done" \/ \E i \in 1 .. 4 : a = Order[i]
  BY <1>2, AwaitedIs
<1>4. daemon = Piece => a = "worker"
  BY <1>2, AwaitedIs, OrderIs
<1>5. /\ handoff' = a
      /\ closed' \in [Piece -> {0, 1}]
      /\ \A p \in Piece : closed'[p] = IF p \in {"server", "waiters", a} \cap daemon THEN 1 ELSE 0
  BY <1>1, <1>2, CalledIs DEF HandoffBegins, ExitInv
<1>6. \A i, j \in 1 .. 4 : a = Order[i] /\ i # j => closed'[Order[j]] = 0
  BY <1>5, OrderIs
<1>7. handoff' \in {"done"} \cup {Order[i] : i \in 1 .. 4}
  BY <1>3, <1>5
<1>8. \A i \in 1 .. 4 : handoff' = Order[i] => \A j \in (i + 1) .. 4 : closed'[Order[j]] = 0
  BY <1>5, <1>6
<1>9. work' \in {"free", "held", "refused"}
  BY DEF HandoffBegins, ExitInv, Assembled
<1>10. marked' \in BOOLEAN
  BY Zenon DEF HandoffBegins
<1>11. ASSUME daemon = Piece
       PROVE  /\ handoff' = "worker" /\ marked'
              /\ closed'["worker"] = 1 /\ closed'["server"] = 1 /\ closed'["waiters"] = 1
              /\ "worker" \notin going' /\ "waiters" \notin going'
  BY <1>4, <1>5, <1>11 DEF HandoffBegins, Piece
<1> QED BY <1>5, <1>7, <1>8, <1>9, <1>10, <1>11

LEMMA MainKeeps ==
    ASSUME ExitInv,
           TasksLoaded \/ Migrated \/ StorageLoaded \/ RegistrationCommits \/ WorkerStarts
    PROVE  ExitInv'
<1>1. ExitSide /\ UNCHANGED <<work, marked>> /\ boot # "up"
  BY DEF TasksLoaded, Migrated, StorageLoaded, RegistrationCommits, WorkerStarts
<1>2. ~Undisturbed /\ ~Undisturbed'
  BY <1>1 DEF ExitInv, TakenApart, Undisturbed, ExitSide
<1>3. ExitShapes' /\ InTurn' /\ Remembered' /\ CodeIsTrue'
  <2>1. daemon' \subseteq Piece
    BY DEF TasksLoaded, Migrated, StorageLoaded, RegistrationCommits, WorkerStarts, ExitInv, ExitShapes,
           Piece
  <2>2. ExitShapes'
    BY <1>1, <2>1 DEF ExitSide, ExitInv, ExitShapes
  <2>3. InTurn'
    BY <1>1 DEF ExitSide, ExitInv, InTurn
  <2>4. Remembered' /\ CodeIsTrue'
    BY <1>1 DEF ExitSide, ExitInv, Remembered, CodeIsTrue
  <2> QED BY <2>2, <2>3, <2>4
<1>4. Assembled'
  <2>1. CASE TasksLoaded
    BY <1>1, <2>1 DEF TasksLoaded, ExitInv, Assembled, ExitSide
  <2>2. CASE Migrated
    BY <1>1, <2>2 DEF Migrated, ExitInv, Assembled, ExitSide
  <2>3. CASE StorageLoaded \/ RegistrationCommits
    BY <1>1, <2>3 DEF StorageLoaded, RegistrationCommits, ExitInv, Assembled, ExitSide
  <2>4. CASE WorkerStarts
    BY <1>1, <1>3, <2>4, ZenonT(40) DEF WorkerStarts, ExitInv, ExitShapes, Assembled, ExitSide, Piece
  <2> QED BY <2>1, <2>2, <2>3, <2>4
<1> QED BY <1>2, <1>3, <1>4 DEF ExitInv, TakenApart

LEMMA RunKeeps ==
    ASSUME ExitInv, Claims \/ AwaitsResult \/ ResultComes \/ RefusalThrown
    PROVE  ExitInv'
<1>1. RunSide /\ work' \in {"free", "held", "waiting", "refused", "billed"}
  BY DEF Claims, AwaitsResult, ResultComes, RefusalThrown
<1>2. ExitShapes'
  BY <1>1 DEF RunSide, ExitInv, ExitShapes
<1>3. InTurn' /\ Remembered' /\ CodeIsTrue'
  BY <1>1 DEF RunSide, ExitInv, InTurn, Remembered, CodeIsTrue
<1>4. Assembled'
  <2>1. CASE handoff = "none"
    BY <1>1, <2>1
    DEF RunSide, ExitInv, Assembled, Claims, AwaitsResult, ResultComes, RefusalThrown
  <2>2. CASE handoff # "none"
    BY <1>1, <2>2 DEF RunSide, ExitInv, Assembled
  <2> QED BY <2>1, <2>2
<1>5. TakenApart'
  <2>1. CASE ~Undisturbed
    BY <1>1, <2>1 DEF RunSide, Undisturbed, TakenApart
  <2>2. CASE Undisturbed
    <3>1. /\ marked /\ "worker" \notin going /\ "waiters" \notin going
          /\ work \in {"free", "held", "refused"}
          /\ handoff # "worker" /\ ~unreleased => work = "free"
      BY <2>2 DEF ExitInv, TakenApart
    <3>2. work' \in {"free", "held", "refused"} /\ (work = "free" => work' = "free")
      BY <3>1 DEF Claims, AwaitsResult, ResultComes, RefusalThrown
    <3> QED BY <1>1, <2>2, <3>1, <3>2 DEF ExitInv, RunSide, Undisturbed, TakenApart
  <2> QED BY <2>1, <2>2
<1> QED BY <1>2, <1>3, <1>4, <1>5 DEF ExitInv

\* The hand-off goes on: from the piece it awaited to the next.
LEMMA MovesKeeps ==
    ASSUME ExitInv, NEW i \in 1 .. 4, Moves(i), unreleased' \in BOOLEAN,
           unreleased => unreleased', work' \in {work, "free"},
           Undisturbed /\ ~unreleased' => workersRow' = "offline" /\ work' = "free"
    PROVE  ExitInv'
<1>1. PICK a : a = Awaited(i + 1)
  OBVIOUS
<1>2. a = "done" \/ \E j \in (i + 1) .. 4 : a = Order[j]
  BY <1>1, AwaitedIs
<1>3. daemon = Piece => a = IF i = 4 THEN "done" ELSE Order[i + 1]
  BY <1>1, AwaitedIs
<1>4. /\ handoff = Order[i] /\ handoff' = a /\ closed' = Called({a})
      /\ UNCHANGED <<boot, daemon, going, marked, exiting, fatal, code, faulted, prompt>>
      /\ code = Running
  BY <1>1 DEF Moves, HandoffSide, Alive
<1>5. \A p \in Piece \cap {a} : closed[p] = 0
  BY <1>2, <1>4, OrderIs DEF ExitInv, InTurn
<1>6. /\ closed' \in [Piece -> {0, 1}]
      /\ \A p \in Piece : closed'[p] = IF p \in {a} \cap daemon THEN 1 ELSE closed[p]
  BY <1>4, <1>5, CalledIs DEF ExitInv
<1>7. handoff # "none" /\ handoff # "done" /\ handoff' # "none"
  BY <1>2, <1>4, OrderIs
<1>8. ExitShapes'
  <2>1. handoff' \in {"none", "done"} \cup {Order[j] : j \in 1 .. 4}
    BY <1>2, <1>4
  <2>2. work' \in {"free", "held", "waiting", "refused", "billed"}
    BY DEF ExitInv, ExitShapes
  <2> QED BY <1>4, <1>6, <2>1, <2>2 DEF ExitInv, ExitShapes
<1>9. InTurn'
  <2>1. ASSUME NEW j \in 1 .. 4, a = Order[j], NEW k \in (j + 1) .. 4 PROVE closed'[Order[k]] = 0
    <3>1. j \in (i + 1) .. 4
      BY <1>2, <2>1, OrderIs
    <3>2. closed[Order[k]] = 0
      BY <1>4, <3>1 DEF ExitInv, InTurn
    <3>3. Order[k] # a
      BY <2>1, OrderIs
    <3> QED BY <1>6, <3>2, <3>3, OrderIs
  <2> QED BY <1>4, <1>7, <2>1 DEF InTurn
<1>10. Remembered' /\ CodeIsTrue' /\ Assembled'
  BY <1>4, <1>7 DEF ExitInv, Remembered, CodeIsTrue, Assembled, Running
<1>11. TakenApart'
  <2> SUFFICES ASSUME Undisturbed' PROVE TakenApart'
    BY DEF TakenApart
  <2>1. Undisturbed
    BY <1>4, <1>7 DEF Undisturbed
  <2>2. /\ boot = "up" /\ marked /\ "worker" \notin going /\ "waiters" \notin going
        /\ work \in {"free", "held", "refused"}
        /\ closed["server"] = 1 /\ closed["waiters"] = 1
        /\ \A j \in 1 .. i : closed[Order[j]] = 1
    BY <1>4, <2>1 DEF ExitInv, TakenApart
  <2>3. daemon = Piece
    BY <2>2 DEF ExitInv, Assembled
  <2>4. \A p \in Piece : closed[p] = 1 => closed'[p] = 1
    BY <1>6
  <2>5. ASSUME NEW j \in 1 .. 4, a = Order[j] PROVE \A k \in 1 .. j : closed'[Order[k]] = 1
    <3>1. j = i + 1
      BY <1>3, <2>3, <2>5, OrderIs
    <3> QED BY <1>6, <2>2, <2>3, <2>4, <2>5, <3>1, OrderIs
  <2>6. a = "done" => i = 4
    BY <1>3, <2>3, OrderIs
  <2>7. a = "done" => \A p \in Piece : closed'[p] = 1
    BY <2>2, <2>4, <2>6, OrderIs
  <2>8. closed'["server"] = 1 /\ closed'["waiters"] = 1
    BY <2>2, <2>4 DEF Piece
  <2>9. ~unreleased' => workersRow' = "offline" /\ work' = "free"
    BY <2>1
  <2> QED BY <1>4, <2>2, <2>5, <2>7, <2>8, <2>9 DEF TakenApart
<1> QED BY <1>8, <1>9, <1>10, <1>11 DEF ExitInv

LEMMA HandoffKeeps ==
    ASSUME ExitInv,
           WorkerStopped \/ WorkerNotReleased \/ NotifyStopped \/ PoolEnded \/ ProbePoolEnded
    PROVE  ExitInv'
<1>1. CASE WorkerStopped
  <2>1. Undisturbed => work # "billed"
    BY DEF ExitInv, TakenApart
  <2> QED BY <1>1, <2>1, MovesKeeps DEF WorkerStopped, ExitInv, ExitShapes
<1>2. CASE WorkerNotReleased
  BY <1>2, MovesKeeps DEF WorkerNotReleased
<1>3. ASSUME NEW i \in 2 .. 4, Moves(i), UNCHANGED <<workersRow, work, unreleased>> PROVE ExitInv'
  <2>1. handoff = Order[i] /\ handoff # "worker"
    BY <1>3, OrderIs DEF Moves
  <2>2. Undisturbed /\ ~unreleased => workersRow = "offline" /\ work = "free"
    BY <2>1 DEF ExitInv, TakenApart
  <2> QED BY <1>3, <2>2, MovesKeeps DEF ExitInv, ExitShapes
<1> QED BY <1>1, <1>2, <1>3 DEF NotifyStopped, PoolEnded, ProbePoolEnded

\* The exit that begins the hand-off: a signal, a crash, a boot that fails.
LEMMA BeginKeeps ==
    ASSUME ExitInv, handoff = "none", HandoffBegins, exiting' = TRUE,
           UNCHANGED <<daemon, workersRow, unreleased, code>>, boot' \in {boot, "failed"},
           fatal' \in BOOLEAN, prompt' \in BOOLEAN, faulted' \in BOOLEAN, faulted' => fatal',
           ~prompt' /\ ~fatal' => boot = "up" /\ boot' = "up"
    PROVE  ExitInv'
<1>1. /\ closed' \in [Piece -> {0, 1}]
      /\ handoff' \in {"done"} \cup {Order[i] : i \in 1 .. 4}
      /\ \A i \in 1 .. 4 : handoff' = Order[i] => \A j \in (i + 1) .. 4 : closed'[Order[j]] = 0
      /\ work' \in {"free", "held", "refused"} /\ marked' \in BOOLEAN
  BY BeginsInTurn
<1>2. handoff' # "none"
  BY <1>1, OrderIs
<1>3. ExitShapes'
  <2>1. handoff' \in {"none", "done"} \cup {Order[i] : i \in 1 .. 4}
    BY <1>1
  <2>2. exiting' \in BOOLEAN /\ unreleased' \in BOOLEAN
    BY DEF ExitInv, ExitShapes
  <2> QED BY <1>1, <2>1, <2>2 DEF ExitInv, ExitShapes
<1>4. InTurn'
  BY <1>1, <1>2 DEF InTurn
<1>5. Remembered'
  BY <1>2 DEF Remembered
<1>6. Assembled'
  BY <1>2 DEF ExitInv, Assembled
<1>7. CodeIsTrue'
  BY DEF ExitInv, CodeIsTrue
<1>8. TakenApart'
  <2> SUFFICES ASSUME Undisturbed' PROVE TakenApart'
    BY DEF TakenApart
  <2>1. boot = "up" /\ boot' = "up" /\ daemon = Piece
    BY DEF Undisturbed, ExitInv, Assembled
  <2>2. /\ handoff' = "worker" /\ marked'
        /\ closed'["worker"] = 1 /\ closed'["server"] = 1 /\ closed'["waiters"] = 1
        /\ "worker" \notin going' /\ "waiters" \notin going'
    BY <2>1, BeginsInTurn
  <2>3. \A i \in 1 .. 4 : handoff' = Order[i] => i = 1
    BY <2>2, OrderIs
  <2>4. \A i \in 1 .. 4 : handoff' = Order[i] => \A j \in 1 .. i : closed'[Order[j]] = 1
    BY <2>2, <2>3, OrderIs
  <2> QED BY <1>1, <2>1, <2>2, <2>4 DEF TakenApart
<1> QED BY <1>3, <1>4, <1>5, <1>6, <1>7, <1>8 DEF ExitInv

\* A fault or a second signal while the hand-off is under way.
LEMMA FaultKeeps ==
    ASSUME ExitInv, handoff # "none", handoff # "done", HandoffStays, exiting' = TRUE, code' # 0,
           code' \in {0, 1, Running},
           UNCHANGED <<daemon, workersRow, unreleased, prompt>>,
           \/ fatal' = TRUE /\ boot' \in {boot, "failed"} /\ faulted' \in BOOLEAN
           \/ UNCHANGED <<boot, fatal, faulted>>
    PROVE  ExitInv'
<1>1. fatal' \in BOOLEAN /\ faulted' \in BOOLEAN /\ exiting' \in BOOLEAN
  BY DEF ExitInv, ExitShapes
<1>2. ExitShapes'
  BY <1>1 DEF ExitInv, ExitShapes, HandoffStays
<1>3. InTurn' /\ CodeIsTrue' /\ Assembled'
  BY DEF ExitInv, InTurn, CodeIsTrue, Assembled, HandoffStays
<1>4. Remembered'
  BY DEF ExitInv, Remembered, HandoffStays
<1>5. TakenApart'
  BY DEF ExitInv, TakenApart, Undisturbed, HandoffStays
<1> QED BY <1>2, <1>3, <1>4, <1>5 DEF ExitInv

LEMMA ExitKeeps ==
    ASSUME ExitInv, Signal \/ Crash \/ BootFails
    PROVE  ExitInv'
<1>1. Alive /\ handoff # "done" /\ (exiting <=> handoff # "none") /\ code = Running
  BY DEF Signal, Crash, BootFails, Alive, ExitInv, Remembered
<1>2. fatal \in BOOLEAN /\ faulted \in BOOLEAN /\ prompt \in BOOLEAN /\ (faulted => fatal)
  BY DEF ExitInv, ExitShapes, Remembered
<1>3. CASE Signal /\ exiting
  BY <1>1, <1>3, FaultKeeps DEF Signal, ExitGoesOn, ExitBegins, Running
<1>4. CASE Signal /\ ~exiting
  <2>1. /\ ExitBegins("signal") /\ UNCHANGED <<code, boot, daemon, workersRow, fatal, faulted, unreleased>>
        /\ handoff = "none"
    BY <1>1, <1>4 DEF Signal
  <2>2. HandoffBegins /\ exiting' = TRUE /\ prompt' = (boot # "up")
    BY <2>1 DEF ExitBegins, HandoffOnce
  <2> QED BY <1>2, <2>1, <2>2, BeginKeeps
<1>5. CASE Crash /\ exiting
  <2>1. /\ HandoffStays /\ UNCHANGED <<exiting, prompt, boot, daemon, workersRow, code, unreleased>>
        /\ fatal' = TRUE /\ faulted' = TRUE
    BY <1>5 DEF Crash, ExitGoesOn, RememberFault
  <2> QED BY <1>1, <1>5, <2>1, FaultKeeps DEF ExitInv, ExitShapes, Running
<1>6. CASE Crash /\ ~exiting
  <2>1. /\ ExitBegins("crash") /\ UNCHANGED <<code, boot, daemon, workersRow, unreleased>>
        /\ handoff = "none" /\ fatal' = TRUE /\ faulted' = TRUE
    BY <1>1, <1>6 DEF Crash, RememberFault
  <2>2. HandoffBegins /\ exiting' = TRUE /\ prompt' = (boot # "up")
    BY <2>1 DEF ExitBegins, HandoffOnce
  <2> QED BY <2>1, <2>2, BeginKeeps
<1>7. CASE BootFails /\ handoff = "none"
  BY <1>2, <1>7, BeginKeeps DEF BootFails, HandoffOnce
<1>8. CASE BootFails /\ handoff # "none"
  BY <1>1, <1>8, FaultKeeps DEF BootFails, HandoffOnce, Running
<1> QED BY <1>3, <1>4, <1>5, <1>6, <1>7, <1>8

LEMMA LeaveKeeps ==
    ASSUME ExitInv, NEW who \in {"signal", "crash", "boot"}, Leave(who) \/ BackstopFires(who)
    PROVE  ExitInv'
<1>1. /\ UNCHANGED <<boot, daemon, going, workersRow, work, marked, handoff, closed, exiting, fatal,
                     faulted, prompt, unreleased>>
      /\ code' \in {0, 1} /\ (code' = 0 => handoff = "done" /\ ~fatal)
  BY DEF Leave, BackstopFires, LeaveCode
<1> QED BY <1>1 DEF ExitInv, ExitShapes, InTurn, Remembered, Assembled, TakenApart, Undisturbed, CodeIsTrue

LEMMA ExitInvNext == ExitInv /\ [ExitNext]_exitVars => ExitInv'
<1> SUFFICES ASSUME ExitInv, [ExitNext]_exitVars PROVE ExitInv'
  OBVIOUS
<1>1. CASE UNCHANGED exitVars
  BY <1>1 DEF exitVars, ExitInv, ExitShapes, InTurn, Remembered, Assembled, TakenApart, Undisturbed,
              CodeIsTrue
<1> QED BY <1>1, MainKeeps, RunKeeps, HandoffKeeps, ExitKeeps, LeaveKeeps DEF ExitNext

\* Crashes, signals and a failing boot may meet in any order: no piece of the daemon is
\* ended twice, and exit code 0 is the truth about what is left behind.
\* (shutdown.ts handoffOnce, runHandoff; main.ts)
THEOREM ExitsClean == ExitSpec => []CleanExit
  BY ExitInvInit, ExitInvNext, ExitInvHolds, PTL DEF ExitSpec

----------------------------------------------------------------------------
\* ResultDelivery: for any callers and daemons, an outcome is true.

Row    == {"queued", "running", "completed", "gone"}
Answer == Row \cup {"none", "error", "not_found", NotRead}
Where  == {"idle", "request", "backoff", "completed", "not_found", "timeout", "error", "aborted"}

DelShapes ==
    /\ run \in Row
    /\ up \in [Daemon -> BOOLEAN]
    /\ asking \in [Client -> [at : Where, daemon : Daemon \cup {Nowhere}, expired : BOOLEAN]]
    /\ entry \in [Client -> [at : {"none", "reading", "pending", "first"}, row : Row \cup {NotRead}]]
    /\ answer \in [Client -> Answer]
    /\ look \in [Daemon -> Row \cup {NotRead}]
    /\ sweep \in [Daemon -> [who : SUBSET Client, row : Row \cup {NotRead}]]

\* What was read of the run is still true, when it was an end: a run that has completed
\* stays so until it is deleted, and then it does not come back.
RowIsTrue(row)  == (row = "completed" => ended) /\ (row = "gone" => run = "gone")
AnswerIsTrue(a) == (a = "completed" => ended) /\ (a = "not_found" => run = "gone")

EverywhereTrue ==
    /\ RowIsTrue(run)
    /\ \A c \in Client : RowIsTrue(entry[c].row) /\ AnswerIsTrue(answer[c])
    /\ \A d \in Daemon : RowIsTrue(look[d]) /\ RowIsTrue(sweep[d].row)

\* Who waits in the kernel waits at no daemon.
PollsAlone == \A c \in Polling : asking[c].daemon = Nowhere

DelInv == DelShapes /\ EverywhereTrue /\ PollsAlone /\ OutcomeIsTrue

LEMMA DelInvInit == DelInit => DelInv
<1> SUFFICES ASSUME DelInit PROVE DelInv
  OBVIOUS
<1>1. DelShapes
  BY DEF DelInit, DelShapes, Row, Answer, Where, NoEntry, NoSweep, NotRead
<1>2. EverywhereTrue
  BY DEF DelInit, EverywhereTrue, RowIsTrue, AnswerIsTrue, NoEntry, NoSweep, NotRead
<1>3. PollsAlone /\ OutcomeIsTrue
  BY DeliveryAssumption DEF DelInit, PollsAlone, OutcomeIsTrue, Terminal, Active, At, NoEntry
<1> QED BY <1>1, <1>2, <1>3 DEF DelInv

\* In the registry: every row and answer kept is true, and no waiter appears.
LEMMA RegistryKeeps ==
    ASSUME DelInv, DelShapes', UNCHANGED <<run, ended, asking>>,
           \A c \in Client : /\ RowIsTrue(entry'[c].row) /\ AnswerIsTrue(answer'[c])
                             /\ entry'[c].at # "none" => entry[c].at # "none",
           \A d \in Daemon : /\ RowIsTrue(look'[d]) /\ RowIsTrue(sweep'[d].row)
                             /\ ~up'[d] => ~up[d] \/ \A c \in Active(d) : entry'[c].at = "none"
    PROVE  DelInv'
<1>1. EverywhereTrue'
  BY DEF DelInv, EverywhereTrue, RowIsTrue, AnswerIsTrue
<1>2. PollsAlone'
  BY DEF DelInv, PollsAlone
<1>3. ASSUME NEW d \in Daemon, ~up'[d] PROVE Active(d)' = {}
  BY <1>3 DEF DelInv, OutcomeIsTrue, Active, At
<1>4. OutcomeIsTrue'
  BY <1>3 DEF DelInv, OutcomeIsTrue
<1> QED BY <1>1, <1>2, <1>4 DEF DelInv

\* A row that was read settles the waiters it is applied to, or is kept by them.
LEMMA SettleKeeps ==
    ASSUME DelInv, NEW S, NEW row \in Row \cup {NotRead}, RowIsTrue(row), SettleAll(S, row)
    PROVE  /\ entry' \in [Client -> [at : {"none", "reading", "pending", "first"},
                                     row : Row \cup {NotRead}]]
           /\ answer' \in [Client -> Answer]
           /\ \A c \in Client : /\ RowIsTrue(entry'[c].row) /\ AnswerIsTrue(answer'[c])
                                /\ entry'[c].at # "none" => entry[c].at # "none"
<1>1. ASSUME NEW c \in Client
      PROVE  /\ entry'[c] \in [at : {"none", "reading", "pending", "first"}, row : Row \cup {NotRead}]
             /\ RowIsTrue(entry'[c].row) /\ (entry'[c].at # "none" => entry[c].at # "none")
  <2>1. /\ entry[c] \in [at : {"none", "reading", "pending", "first"}, row : Row \cup {NotRead}]
        /\ RowIsTrue(entry[c].row)
    BY DEF DelInv, DelShapes, EverywhereTrue
  <2>2. entry'[c] \in {entry[c], NoEntry, [entry[c] EXCEPT !.row = row]}
    BY DEF SettleAll
  <2>3. NoEntry \in [at : {"none", "reading", "pending", "first"}, row : Row \cup {NotRead}]
        /\ NoEntry.at = "none" /\ RowIsTrue(NoEntry.row)
    BY DEF NoEntry, RowIsTrue, NotRead
  <2> QED BY <2>1, <2>2, <2>3
<1>2. ASSUME NEW c \in Client PROVE answer'[c] \in Answer /\ AnswerIsTrue(answer'[c])
  <2>1. answer[c] \in Answer /\ AnswerIsTrue(answer[c])
    BY DEF DelInv, DelShapes, EverywhereTrue
  <2>2. Told(row) \in Answer /\ AnswerIsTrue(Told(row))
    BY DEF Told, Answer, Row, NotRead, AnswerIsTrue, RowIsTrue
  <2>3. answer'[c] \in {answer[c], Told(row)}
    BY DEF SettleAll
  <2> HIDE DEF Answer, AnswerIsTrue, Told
  <2> QED BY <2>1, <2>2, <2>3
<1>3. entry' = [c \in Client |-> entry'[c]] /\ answer' = [c \in Client |-> answer'[c]]
  BY DEF SettleAll
<1> QED BY <1>1, <1>2, <1>3

LEMMA RejectKeeps ==
    ASSUME DelInv, NEW S, NEW err \in Answer, AnswerIsTrue(err), Reject(S, err)
    PROVE  /\ entry' \in [Client -> [at : {"none", "reading", "pending", "first"},
                                     row : Row \cup {NotRead}]]
           /\ answer' \in [Client -> Answer]
           /\ \A c \in Client : /\ RowIsTrue(entry'[c].row) /\ AnswerIsTrue(answer'[c])
                                /\ entry'[c].at # "none" => entry[c].at # "none"
           /\ \A c \in S \cap Client : entry'[c].at = "none"
<1>1. NoEntry \in [at : {"none", "reading", "pending", "first"}, row : Row \cup {NotRead}]
      /\ NoEntry.at = "none" /\ RowIsTrue(NoEntry.row)
  BY DEF NoEntry, RowIsTrue, NotRead
<1>2. /\ entry' = [c \in Client |-> IF c \in S THEN NoEntry ELSE entry[c]]
      /\ answer' = [c \in Client |-> IF c \in S THEN err ELSE answer[c]]
  BY DEF Reject
<1>3. /\ entry \in [Client -> [at : {"none", "reading", "pending", "first"}, row : Row \cup {NotRead}]]
      /\ answer \in [Client -> Answer]
      /\ \A c \in Client : RowIsTrue(entry[c].row) /\ AnswerIsTrue(answer[c])
  BY DEF DelInv, DelShapes, EverywhereTrue
<1> QED BY <1>1, <1>2, <1>3

LEMMA RegistryStepKeeps ==
    ASSUME DelInv, NEW d \in Daemon,
           LookRead(d) \/ LookApply(d) \/ LookFails(d) \/ SweepRead(d) \/ SweepApply(d) \/ SweepFails(d)
    PROVE  DelInv'
<1> USE DEF DelInv, RegistryOnly
<1>0. RowIsTrue(run) /\ RowIsTrue(NotRead) /\ run \in Row
  BY DEF EverywhereTrue, RowIsTrue, NotRead, DelShapes
<1>1. CASE LookRead(d)
  <2>1. look' \in [Daemon -> Row \cup {NotRead}] /\ \A x \in Daemon : RowIsTrue(look'[x])
    BY <1>0, <1>1 DEF LookRead, DelShapes, EverywhereTrue
  <2>2. DelShapes'
    BY <1>1, <2>1 DEF LookRead, DelShapes
  <2> QED BY <1>1, <2>1, <2>2, RegistryKeeps DEF LookRead, EverywhereTrue
<1>2. CASE LookApply(d) \/ LookFails(d)
  <2>1. look' \in [Daemon -> Row \cup {NotRead}] /\ \A x \in Daemon : RowIsTrue(look'[x])
    BY <1>0, <1>2 DEF LookApply, LookFails, DelShapes, EverywhereTrue
  <2>2. /\ entry' \in [Client -> [at : {"none", "reading", "pending", "first"}, row : Row \cup {NotRead}]]
        /\ answer' \in [Client -> Answer]
        /\ \A c \in Client : /\ RowIsTrue(entry'[c].row) /\ AnswerIsTrue(answer'[c])
                             /\ entry'[c].at # "none" => entry[c].at # "none"
    <3>1. look[d] \in Row \cup {NotRead} /\ RowIsTrue(look[d])
      BY DEF DelShapes, EverywhereTrue
    <3>2. CASE LookApply(d)
      BY <3>1, <3>2, SettleKeeps DEF LookApply
    <3>3. CASE LookFails(d)
      BY <3>3 DEF LookFails, DelShapes, EverywhereTrue
    <3> QED BY <1>2, <3>2, <3>3
  <2>3. DelShapes' /\ UNCHANGED <<up, sweep>> /\ RegistryOnly
    BY <1>2, <2>1, <2>2 DEF LookApply, LookFails, DelShapes
  <2> QED BY <2>1, <2>2, <2>3, RegistryKeeps DEF EverywhereTrue
<1>3. CASE SweepRead(d)
  <2>1. /\ sweep' \in [Daemon -> [who : SUBSET Client, row : Row \cup {NotRead}]]
        /\ \A x \in Daemon : RowIsTrue(sweep'[x].row)
    BY <1>0, <1>3 DEF SweepRead, DelShapes, EverywhereTrue, Waiting, At
  <2>2. DelShapes'
    BY <1>3, <2>1 DEF SweepRead, DelShapes
  <2> QED BY <1>3, <2>1, <2>2, RegistryKeeps DEF SweepRead, EverywhereTrue
<1>4. CASE SweepApply(d) \/ SweepFails(d)
  <2>1. /\ sweep' \in [Daemon -> [who : SUBSET Client, row : Row \cup {NotRead}]]
        /\ \A x \in Daemon : RowIsTrue(sweep'[x].row)
    <3>1. sweep' = [sweep EXCEPT ![d] = NoSweep]
      BY <1>4 DEF SweepApply, SweepFails, Finally
    <3>2. NoSweep \in [who : SUBSET Client, row : Row \cup {NotRead}] /\ RowIsTrue(NoSweep.row)
      BY <1>0 DEF NoSweep
    <3> QED BY <3>1, <3>2 DEF DelShapes, EverywhereTrue
  <2>2. /\ entry' \in [Client -> [at : {"none", "reading", "pending", "first"}, row : Row \cup {NotRead}]]
        /\ answer' \in [Client -> Answer]
        /\ \A c \in Client : /\ RowIsTrue(entry'[c].row) /\ AnswerIsTrue(answer'[c])
                             /\ entry'[c].at # "none" => entry[c].at # "none"
    <3>1. sweep[d].row \in Row \cup {NotRead} /\ RowIsTrue(sweep[d].row)
      BY DEF DelShapes, EverywhereTrue
    <3>2. CASE SweepApply(d)
      BY <3>1, <3>2, SettleKeeps DEF SweepApply
    <3>3. CASE SweepFails(d)
      BY <3>3 DEF SweepFails, DelShapes, EverywhereTrue
    <3> QED BY <1>4, <3>2, <3>3
  <2>3. DelShapes' /\ UNCHANGED <<up, look>> /\ RegistryOnly
    BY <1>4, <2>1, <2>2 DEF SweepApply, SweepFails, DelShapes
  <2> QED BY <2>1, <2>2, <2>3, RegistryKeeps DEF EverywhereTrue
<1> QED BY <1>1, <1>2, <1>3, <1>4

LEMMA WaiterStepKeeps ==
    ASSUME DelInv, NEW c \in Client,
           InitialRead(c) \/ InitialApply(c) \/ InitialFails(c) \/ SliceEnds(c)
    PROVE  DelInv'
<1> USE DEF DelInv
<1>0. /\ RowIsTrue(run) /\ run \in Row
      /\ entry[c] \in [at : {"none", "reading", "pending", "first"}, row : Row \cup {NotRead}]
      /\ RowIsTrue(entry[c].row)
  BY DEF EverywhereTrue, DelShapes
<1>1. UNCHANGED <<up, look, sweep>> /\ RegistryOnly
  BY DEF InitialRead, InitialApply, InitialFails, SliceEnds, RegistryOnly
<1>2. /\ entry' \in [Client -> [at : {"none", "reading", "pending", "first"}, row : Row \cup {NotRead}]]
      /\ answer' \in [Client -> Answer]
      /\ \A x \in Client : /\ RowIsTrue(entry'[x].row) /\ AnswerIsTrue(answer'[x])
                           /\ entry'[x].at # "none" => entry[x].at # "none"
  <2>1. CASE InitialRead(c)
    <3>1. answer' = answer /\ entry' = [entry EXCEPT ![c].row = run]
      BY <2>1 DEF InitialRead
    <3> QED BY <1>0, <3>1 DEF DelShapes, EverywhereTrue
  <2>2. CASE SettleAll({c}, entry[c].row)
    BY <2>2, <1>0, SettleKeeps
  <2>3. ASSUME NEW err \in Answer, AnswerIsTrue(err), Reject({c}, err)
        PROVE  <1>2!1 /\ <1>2!2 /\ <1>2!3
    BY <2>3, RejectKeeps
  <2>4. entry[c].row \in Answer /\ AnswerIsTrue(entry[c].row)
    BY <1>0 DEF Answer, Row, AnswerIsTrue, RowIsTrue, NotRead
  <2>5. "error" \in Answer /\ AnswerIsTrue("error")
    BY DEF Answer, AnswerIsTrue
  <2>6. CASE entry[c].at = "reading" /\ entry' = [entry EXCEPT ![c].at = "pending"] /\ answer' = answer
    BY <1>0, <2>6 DEF DelShapes, EverywhereTrue
  <2> QED BY <2>1, <2>2, <2>3, <2>4, <2>5, <2>6 DEF InitialApply, InitialFails, SliceEnds
<1>3. DelShapes'
  BY <1>1, <1>2 DEF DelShapes, RegistryOnly
<1> QED BY <1>1, <1>2, <1>3, RegistryKeeps DEF EverywhereTrue, RegistryOnly

LEMMA DaemonStepKeeps ==
    ASSUME DelInv, NEW d \in Daemon, Stop(d) \/ Restart(d) \/ Listening(d)
    PROVE  DelInv'
<1> USE DEF DelInv
<1>1. CASE Stop(d)
  <2>1. "error" \in Answer /\ AnswerIsTrue("error") /\ Reject(Active(d), "error")
    BY <1>1 DEF Answer, AnswerIsTrue, Stop, EveryActive
  <2>2. /\ entry' \in [Client -> [at : {"none", "reading", "pending", "first"}, row : Row \cup {NotRead}]]
        /\ answer' \in [Client -> Answer]
        /\ \A c \in Client : /\ RowIsTrue(entry'[c].row) /\ AnswerIsTrue(answer'[c])
                             /\ entry'[c].at # "none" => entry[c].at # "none"
        /\ \A c \in Active(d) \cap Client : entry'[c].at = "none"
    BY <2>1, RejectKeeps
  <2>3. /\ up' = [up EXCEPT ![d] = FALSE]
        /\ UNCHANGED <<run, ended, look, sweep, asking>>
    BY <1>1 DEF Stop
  <2>4. DelShapes'
    BY <2>2, <2>3 DEF DelShapes
  <2>5. \A c \in Active(d) : c \in Client
    BY DEF Active, At
  <2>6. \A x \in Daemon : ~up'[x] => ~up[x] \/ \A c \in Active(x) : entry'[c].at = "none"
    BY <2>2, <2>3, <2>5 DEF DelShapes
  <2> QED BY <2>2, <2>3, <2>4, <2>6, RegistryKeeps DEF EverywhereTrue
<1>2. CASE Restart(d)
  <2>1. RowIsTrue(NotRead)
    BY DEF RowIsTrue, NotRead
  <2>2. /\ up' = [up EXCEPT ![d] = TRUE]
        /\ look' = [look EXCEPT ![d] = NotRead] /\ sweep' = [sweep EXCEPT ![d] = NoSweep]
        /\ UNCHANGED <<run, ended, asking, entry, answer>>
    BY <1>2 DEF Restart
  <2>3. DelShapes'
    BY <2>2 DEF DelShapes, NoSweep
  <2>4. \A x \in Daemon : RowIsTrue(look'[x]) /\ RowIsTrue(sweep'[x].row) /\ (~up'[x] => ~up[x])
    BY <2>1, <2>2 DEF DelShapes, EverywhereTrue, NoSweep
  <2> QED BY <2>2, <2>3, <2>4, RegistryKeeps DEF EverywhereTrue
<1>3. CASE Listening(d)
  <2>1. UNCHANGED <<run, ended, up, look, sweep, asking, entry, answer>>
    BY <1>3 DEF Listening
  <2> QED BY <2>1, RegistryKeeps DEF EverywhereTrue, DelShapes
<1> QED BY <1>1, <1>2, <1>3

\* In a call: what the caller holds is true, and no stopped daemon gains a waiter.
LEMMA CallKeeps ==
    ASSUME DelInv, DelShapes', UNCHANGED <<run, ended, up, look>>,
           \A c \in Client :
              /\ RowIsTrue(entry'[c].row) /\ AnswerIsTrue(answer'[c])
              /\ asking'[c].at = "completed" => ended
              /\ asking'[c].at = "not_found" => run = "gone"
              /\ asking'[c].at = "timeout" => asking'[c].expired
              /\ c \in Polling => asking'[c].daemon = Nowhere
              /\ \/ asking'[c].daemon = Nowhere
                 \/ asking'[c].at # "request"
                 \/ /\ asking'[c].daemon \in Daemon
                    /\ up[asking'[c].daemon]
                 \/ entry'[c].at = "none"
                 \/ asking[c].daemon = asking'[c].daemon /\ asking[c].at = "request"
                    /\ entry[c].at # "none",
           \A d \in Daemon : RowIsTrue(sweep'[d].row)
    PROVE  DelInv'
<1>1. EverywhereTrue'
  BY DEF DelInv, EverywhereTrue, RowIsTrue, AnswerIsTrue
<1>2. PollsAlone'
  BY DeliveryAssumption DEF PollsAlone
<1>3. ASSUME NEW d \in Daemon, ~up'[d], NEW c \in Active(d)' PROVE FALSE
  <2>1. c \in Client /\ asking'[c].daemon = d /\ asking'[c].at = "request" /\ entry'[c].at # "none"
    BY DEF Active, At
  <2>2. d # Nowhere /\ ~up[d]
    BY <1>3, DeliveryAssumption
  <2>3. c \in Active(d)
    BY <2>1, <2>2 DEF Active, At
  <2> QED BY <2>2, <2>3 DEF DelInv, OutcomeIsTrue
<1>4. OutcomeIsTrue'
  BY <1>3 DEF OutcomeIsTrue, Terminal
<1> QED BY <1>1, <1>2, <1>4 DEF DelInv

Call   == [at : Where, daemon : Daemon \cup {Nowhere}, expired : BOOLEAN]
Waiter == [at : {"none", "reading", "pending", "first"}, row : Row \cup {NotRead}]

\* One caller's step: it is enough to look at that caller.
LEMMA OneCallKeeps ==
    ASSUME DelInv, NEW c \in Client, NEW ask \in Call, NEW ent \in Waiter, NEW ans \in Answer,
           asking' = [asking EXCEPT ![c] = ask],
           entry' = [entry EXCEPT ![c] = ent],
           answer' = [answer EXCEPT ![c] = ans],
           UNCHANGED <<run, ended, up, look>>,
           sweep' \in [Daemon -> [who : SUBSET Client, row : Row \cup {NotRead}]],
           \A d \in Daemon : RowIsTrue(sweep'[d].row),
           RowIsTrue(ent.row), AnswerIsTrue(ans),
           ask.at = "completed" => ended,
           ask.at = "not_found" => run = "gone",
           ask.at = "timeout" => ask.expired,
           c \in Polling => ask.daemon = Nowhere,
           \/ ask.daemon = Nowhere \/ ask.at # "request" \/ ent.at = "none"
           \/ ask.daemon \in Daemon /\ up[ask.daemon]
           \/ ask.daemon = asking[c].daemon /\ asking[c].at = "request" /\ entry[c].at # "none"
    PROVE  DelInv'
<1>1. /\ asking \in [Client -> Call] /\ entry \in [Client -> Waiter] /\ answer \in [Client -> Answer]
  BY DEF DelInv, DelShapes, Call, Waiter
<1>2. DelShapes'
  <2>1. /\ asking' \in [Client -> Call] /\ entry' \in [Client -> Waiter]
        /\ answer' \in [Client -> Answer]
    BY <1>1
  <2> QED BY <2>1 DEF DelInv, DelShapes, Call, Waiter
<1>3. /\ asking'[c] = ask /\ entry'[c] = ent /\ answer'[c] = ans
      /\ \A x \in Client \ {c} : asking'[x] = asking[x] /\ entry'[x] = entry[x] /\ answer'[x] = answer[x]
  BY <1>1
<1>4. ASSUME NEW x \in Client \ {c}
      PROVE  /\ RowIsTrue(entry[x].row) /\ AnswerIsTrue(answer[x])
             /\ asking[x].at = "completed" => ended
             /\ asking[x].at = "not_found" => run = "gone"
             /\ asking[x].at = "timeout" => asking[x].expired
             /\ x \in Polling => asking[x].daemon = Nowhere
  BY DEF DelInv, EverywhereTrue, OutcomeIsTrue, PollsAlone, Terminal
<1>5. \A x \in Client :
         /\ RowIsTrue(entry'[x].row) /\ AnswerIsTrue(answer'[x])
         /\ asking'[x].at = "completed" => ended
         /\ asking'[x].at = "not_found" => run = "gone"
         /\ asking'[x].at = "timeout" => asking'[x].expired
         /\ x \in Polling => asking'[x].daemon = Nowhere
         /\ \/ asking'[x].daemon = Nowhere
            \/ asking'[x].at # "request"
            \/ /\ asking'[x].daemon \in Daemon
               /\ up[asking'[x].daemon]
            \/ entry'[x].at = "none"
            \/ asking[x].daemon = asking'[x].daemon /\ asking[x].at = "request"
               /\ entry[x].at # "none"
  BY <1>3, <1>4
<1> QED BY <1>2, <1>5, CallKeeps

LEMMA SdkStepKeeps ==
    ASSUME DelInv, NEW c \in Client,
           (\E d \in Daemon : Hop(c, d)) \/ Expire(c) \/ Hear(c) \/ Cut(c) \/ Abort(c)
    PROVE  DelInv'
<1> USE DEF DelInv, ClientOnly
<1>0. /\ asking \in [Client -> Call] /\ entry \in [Client -> Waiter] /\ answer \in [Client -> Answer]
      /\ sweep \in [Daemon -> [who : SUBSET Client, row : Row \cup {NotRead}]]
      /\ \A d \in Daemon : RowIsTrue(sweep[d].row)
      /\ RowIsTrue(entry[c].row) /\ AnswerIsTrue(answer[c])
      /\ asking[c].at = "completed" => ended
      /\ asking[c].at = "not_found" => run = "gone"
      /\ asking[c].at = "timeout" => asking[c].expired
      /\ c \in Polling => asking[c].daemon = Nowhere
  BY DEF DelShapes, EverywhereTrue, OutcomeIsTrue, PollsAlone, Terminal, Call, Waiter
<1>a. /\ NoEntry \in Waiter /\ NoEntry.at = "none" /\ RowIsTrue(NoEntry.row)
      /\ "error" \in Answer /\ AnswerIsTrue("error") /\ "none" \in Answer /\ AnswerIsTrue("none")
      /\ [at |-> "reading", row |-> NotRead] \in Waiter /\ RowIsTrue(NotRead)
  BY DEF NoEntry, Waiter, NotRead, RowIsTrue, Answer, AnswerIsTrue
<1>b. UNCHANGED <<run, ended, up, look>>
  BY DEF Hop, Expire, Hear, Cut, Abort
<1>1. ASSUME NEW d \in Daemon, Hop(c, d), up[d] PROVE DelInv'
  <2> DEFINE ask == [asking[c] EXCEPT !.at = "request", !.daemon = d]
             ent == [at |-> "reading", row |-> NotRead]
  <2>1. c \notin Polling /\ asking' = [asking EXCEPT ![c].at = "request", ![c].daemon = d]
        /\ entry' = [entry EXCEPT ![c] = ent] /\ answer' = [answer EXCEPT ![c] = answer[c]]
        /\ sweep' = [x \in Daemon |-> IF sweep[x] = NoSweep THEN NoSweep
                                       ELSE [sweep[x] EXCEPT !.who = @ \ {c}]]
    BY <1>0, <1>1 DEF Hop
  <2>2. ask \in Call /\ ask.at = "request" /\ ask.daemon = d
    BY <1>0 DEF Call, Where
  <2>3. asking' = [asking EXCEPT ![c] = ask]
    BY <1>0, <2>1
  <2>4. /\ sweep' \in [Daemon -> [who : SUBSET Client, row : Row \cup {NotRead}]]
        /\ \A x \in Daemon : RowIsTrue(sweep'[x].row)
    <3>1. NoSweep \in [who : SUBSET Client, row : Row \cup {NotRead}] /\ RowIsTrue(NoSweep.row)
      BY <1>a DEF NoSweep
    <3>2. ASSUME NEW x \in Daemon
          PROVE  /\ [sweep[x] EXCEPT !.who = @ \ {c}] \in [who : SUBSET Client, row : Row \cup {NotRead}]
                 /\ RowIsTrue([sweep[x] EXCEPT !.who = @ \ {c}].row)
      BY <1>0
    <3>3. \A x \in Daemon : sweep'[x] \in {NoSweep, [sweep[x] EXCEPT !.who = @ \ {c}]}
      BY <2>1
    <3>4. sweep' = [x \in Daemon |-> sweep'[x]]
      BY <2>1
    <3> QED BY <3>1, <3>2, <3>3, <3>4
  <2>5. answer[c] \in Answer /\ ent \in Waiter /\ RowIsTrue(ent.row)
    BY <1>0, <1>a
  <2> HIDE DEF ask, ent
  <2> QED BY <1>0, <1>1, <1>b, <2>1, <2>2, <2>3, <2>4, <2>5, OneCallKeeps
<1>2. ASSUME NEW d \in Daemon, Hop(c, d), ~up[d] PROVE DelInv'
  <2> DEFINE ask == [asking[c] EXCEPT !.at = "request", !.daemon = Nowhere]
  <2>1. asking' = [asking EXCEPT ![c].at = "request", ![c].daemon = Nowhere]
        /\ entry' = [entry EXCEPT ![c] = entry[c]] /\ answer' = [answer EXCEPT ![c] = "error"]
        /\ sweep' = sweep
    BY <1>0, <1>2 DEF Hop
  <2>2. ask \in Call /\ ask.at = "request" /\ ask.daemon = Nowhere
    BY <1>0 DEF Call, Where
  <2>3. asking' = [asking EXCEPT ![c] = ask]
    BY <1>0, <2>1
  <2> HIDE DEF ask
  <2> QED BY <1>0, <1>a, <1>b, <2>1, <2>2, <2>3, OneCallKeeps, ZenonT(40)
<1>3. CASE Expire(c)
  <2> DEFINE ask == [asking[c] EXCEPT !.expired = TRUE]
             ent == entry[c]
             ans == answer[c]
  <2>1. asking' = [asking EXCEPT ![c].expired = TRUE]
        /\ entry' = [entry EXCEPT ![c] = ent] /\ answer' = [answer EXCEPT ![c] = ans]
        /\ sweep' = sweep
    BY <1>0, <1>3 DEF Expire
  <2>2. ask \in Call /\ ask.at = asking[c].at /\ ask.daemon = asking[c].daemon /\ ask.expired
    BY <1>0 DEF Call
  <2>3. asking' = [asking EXCEPT ![c] = ask]
    BY <1>0, <2>1
  <2>4. /\ ent \in Waiter /\ ans \in Answer /\ RowIsTrue(ent.row) /\ AnswerIsTrue(ans)
        /\ ask.at = "completed" => ended
        /\ ask.at = "not_found" => run = "gone"
        /\ ask.at = "timeout" => ask.expired
        /\ c \in Polling => ask.daemon = Nowhere
    BY <1>0, <2>2
  <2>5. \/ ask.daemon = Nowhere \/ ask.at # "request" \/ ent.at = "none"
        \/ ask.daemon = asking[c].daemon /\ asking[c].at = "request" /\ entry[c].at # "none"
    BY <2>2
  <2> HIDE DEF ask, ent, ans
  <2> QED BY <1>0, <1>b, <2>1, <2>2, <2>3, <2>4, <2>5, OneCallKeeps
<1>4. CASE Hear(c)
  <2> DEFINE o == Outcome(c, answer[c])
             ask == [asking[c] EXCEPT !.at = o, !.daemon = Nowhere]
             ent == entry[c]
  <2>1. asking' = [asking EXCEPT ![c].at = o, ![c].daemon = Nowhere]
        /\ entry' = [entry EXCEPT ![c] = ent] /\ answer' = [answer EXCEPT ![c] = "none"]
        /\ sweep' = sweep
    BY <1>0, <1>4 DEF Hear
  <2>2. /\ o \in Where /\ (o = "completed" => ended) /\ (o = "not_found" => run = "gone")
        /\ (o = "timeout" => asking[c].expired)
    BY <1>0 DEF Outcome, Terminal, Where, AnswerIsTrue
  <2> HIDE DEF o
  <2>3. ask \in Call /\ ask.at = o /\ ask.daemon = Nowhere /\ ask.expired = asking[c].expired
    BY <1>0, <2>2 DEF Call
  <2>4. asking' = [asking EXCEPT ![c] = ask]
    BY <1>0, <2>1
  <2>5. /\ ent \in Waiter /\ RowIsTrue(ent.row)
        /\ ask.at = "completed" => ended
        /\ ask.at = "not_found" => run = "gone"
        /\ ask.at = "timeout" => ask.expired
    BY <1>0, <2>2, <2>3
  <2> HIDE DEF ask, ent
  <2> QED BY <1>0, <1>a, <1>b, <2>1, <2>3, <2>4, <2>5, OneCallKeeps
<1>5. CASE Cut(c)
  <2>1. asking' = [asking EXCEPT ![c] = asking[c]]
        /\ entry' = [entry EXCEPT ![c] = NoEntry] /\ answer' = [answer EXCEPT ![c] = "error"]
        /\ sweep' = sweep /\ asking[c] \in Call
    BY <1>0, <1>5 DEF Cut, Reject
  <2> QED BY <1>0, <1>a, <1>b, <2>1, OneCallKeeps
<1>6. CASE Abort(c)
  <2> DEFINE ask == [asking[c] EXCEPT !.at = "aborted", !.daemon = Nowhere]
  <2>1. asking' = [asking EXCEPT ![c].at = "aborted", ![c].daemon = Nowhere]
        /\ entry' = [entry EXCEPT ![c] = NoEntry] /\ answer' = [answer EXCEPT ![c] = "none"]
        /\ sweep' = sweep
    BY <1>0, <1>6 DEF Abort, Reject
  <2>2. ask \in Call /\ ask.at = "aborted" /\ ask.daemon = Nowhere
    BY <1>0 DEF Call, Where
  <2>3. asking' = [asking EXCEPT ![c] = ask]
    BY <1>0, <2>1
  <2> HIDE DEF ask
  <2> QED BY <1>0, <1>a, <1>b, <2>1, <2>2, <2>3, OneCallKeeps
<1> QED BY <1>1, <1>2, <1>3, <1>4, <1>5, <1>6

LEMMA PollStepKeeps ==
    ASSUME DelInv, NEW c \in Client,
           PollBegins(c) \/ PollGoesOn(c) \/ PollFails(c) \/ PollDeadline(c)
    PROVE  DelInv'
<1> USE DEF DelInv, PollOnly
<1>0. /\ c \in Polling /\ run \in Row /\ RowIsTrue(run)
      /\ asking \in [Client -> Call] /\ entry \in [Client -> Waiter] /\ answer \in [Client -> Answer]
      /\ asking[c] \in Call /\ entry[c] \in Waiter /\ answer[c] \in Answer
      /\ sweep \in [Daemon -> [who : SUBSET Client, row : Row \cup {NotRead}]]
      /\ \A d \in Daemon : RowIsTrue(sweep[d].row)
      /\ RowIsTrue(entry[c].row) /\ AnswerIsTrue(answer[c])
      /\ asking[c].at = "completed" => ended
      /\ asking[c].at = "not_found" => run = "gone"
      /\ asking[c].at = "timeout" => asking[c].expired
      /\ asking[c].daemon = Nowhere
  BY DEF DelShapes, EverywhereTrue, OutcomeIsTrue, PollsAlone, Terminal, Call, Waiter,
         PollBegins, PollGoesOn, PollReads, PollApplies, PollTimer, PollFails, PollDeadline
<1>1. UNCHANGED <<run, ended, up, look, sweep>> /\ answer' = [answer EXCEPT ![c] = answer[c]]
  BY <1>0 DEF PollBegins, PollGoesOn, PollReads, PollApplies, PollTimer, PollFails, PollDeadline
<1>2. ASSUME NEW o \in Where, o = "completed" => ended, o = "not_found" => run = "gone",
             o = "timeout" => asking[c].expired,
             NEW ent \in Waiter, RowIsTrue(ent.row), entry' = [entry EXCEPT ![c] = ent],
             asking' = [asking EXCEPT ![c].at = o]
      PROVE  DelInv'
  <2> DEFINE ask == [asking[c] EXCEPT !.at = o]
             ans == answer[c]
  <2>1. ask \in Call /\ ask.at = o /\ ask.daemon = Nowhere /\ ask.expired = asking[c].expired
    BY <1>0, <1>2 DEF Call
  <2>2. asking' = [asking EXCEPT ![c] = ask]
    BY <1>0, <1>2
  <2>3. answer' = [answer EXCEPT ![c] = ans] /\ ans \in Answer /\ AnswerIsTrue(ans)
    BY <1>0, <1>1
  <2>4. /\ ask.at = "completed" => ended
        /\ ask.at = "not_found" => run = "gone"
        /\ ask.at = "timeout" => ask.expired
        /\ UNCHANGED <<run, ended, up, look>>
        /\ sweep' \in [Daemon -> [who : SUBSET Client, row : Row \cup {NotRead}]]
        /\ \A d \in Daemon : RowIsTrue(sweep'[d].row)
    BY <1>0, <1>1, <1>2, <2>1
  <2> HIDE DEF ask, ans, DelInv
  <2> QED BY <1>2, <2>1, <2>2, <2>3, <2>4, OneCallKeeps
<1>3. NoEntry \in Waiter /\ RowIsTrue(NoEntry.row) /\ RowIsTrue(NotRead)
  BY DEF NoEntry, Waiter, NotRead, RowIsTrue
<1>4. ASSUME NEW o \in Where, o = "completed" => ended, o = "not_found" => run = "gone",
             o = "timeout" => asking[c].expired, Finish(c, o)
      PROVE  DelInv'
  BY <1>2, <1>3, <1>4 DEF Finish
<1>5. ASSUME NEW ent \in Waiter, RowIsTrue(ent.row), entry' = [entry EXCEPT ![c] = ent], asking' = asking
      PROVE  DelInv'
  <2>1. asking' = [asking EXCEPT ![c].at = asking[c].at] /\ asking[c].at \in Where
    BY <1>0, <1>5 DEF Call
  <2> QED BY <1>0, <1>2, <1>5, <2>1
<1>6. CASE PollBegins(c)
  <2>1. [at |-> "first", row |-> NotRead] \in Waiter /\ RowIsTrue([at |-> "first", row |-> NotRead].row)
    BY <1>3 DEF Waiter
  <2> QED BY <1>2, <1>6, <2>1 DEF PollBegins, Where
<1>7. CASE PollReads(c)
  <2>1. [entry[c] EXCEPT !.row = run] \in Waiter /\ RowIsTrue([entry[c] EXCEPT !.row = run].row)
    BY <1>0 DEF Waiter
  <2>2. entry' = [entry EXCEPT ![c] = [entry[c] EXCEPT !.row = run]] /\ asking' = asking
    BY <1>0, <1>7 DEF PollReads
  <2> QED BY <1>5, <2>1, <2>2
<1>8. CASE PollApplies(c)
  <2>1. CASE entry[c].row \in {"completed", "gone"}
    <3>1. Finish(c, Told(entry[c].row))
      BY <1>8, <2>1 DEF PollApplies, Terminal
    <3> QED BY <1>0, <1>4, <2>1, <3>1 DEF Told, Where, RowIsTrue
  <2>2. CASE Finish(c, "timeout") /\ asking[c].expired
    BY <1>4, <2>2 DEF Where
  <2>3. CASE entry' = [entry EXCEPT ![c] = [at |-> "pending", row |-> NotRead]] /\ UNCHANGED asking
    <3>1. [at |-> "pending", row |-> NotRead] \in Waiter /\ RowIsTrue([at |-> "pending", row |-> NotRead].row)
      BY <1>3 DEF Waiter
    <3> QED BY <1>5, <2>3, <3>1
  <2> QED BY <1>8, <2>1, <2>2, <2>3 DEF PollApplies, Terminal
<1>9. CASE PollFails(c)
  BY <1>4, <1>9 DEF PollFails, Where
<1>10. CASE PollTimer(c)
  <2>1. CASE asking[c].expired
    BY <1>4, <1>10, <2>1 DEF PollTimer, Where
  <2>2. CASE ~asking[c].expired
    <3>1. [entry[c] EXCEPT !.at = "reading"] \in Waiter /\ RowIsTrue([entry[c] EXCEPT !.at = "reading"].row)
      BY <1>0 DEF Waiter
    <3>2. entry' = [entry EXCEPT ![c] = [entry[c] EXCEPT !.at = "reading"]] /\ asking' = asking
      BY <1>0, <1>10, <2>2 DEF PollTimer
    <3> QED BY <1>5, <3>1, <3>2
  <2> QED BY <2>1, <2>2
<1>11. CASE PollDeadline(c)
  BY <1>4, <1>11 DEF PollDeadline, Where
<1> QED BY <1>6, <1>7, <1>8, <1>9, <1>10, <1>11 DEF PollGoesOn

LEMMA RunStepKeeps == ASSUME DelInv, RunMoves PROVE DelInv'
<1> USE DEF DelInv
<1>1. /\ UNCHANGED <<up, look, sweep, asking, entry, answer>>
      /\ run' \in Row /\ (ended => ended') /\ (run = "gone" => run' = "gone")
      /\ (run' = "completed" => ended') /\ (ended' # ended => ended')
  BY DEF RunMoves, Row, EverywhereTrue, RowIsTrue
<1>2. DelShapes'
  BY <1>1 DEF DelShapes
<1>3. EverywhereTrue'
  BY <1>1 DEF EverywhereTrue, RowIsTrue, AnswerIsTrue
<1>4. PollsAlone' /\ OutcomeIsTrue'
  BY <1>1 DEF PollsAlone, OutcomeIsTrue, Terminal, Active, At
<1> QED BY <1>2, <1>3, <1>4

LEMMA DelInvNext == DelInv /\ [DelNext]_delVars => DelInv'
<1> SUFFICES ASSUME DelInv, [DelNext]_delVars PROVE DelInv'
  OBVIOUS
<1>1. CASE UNCHANGED delVars
  BY <1>1 DEF delVars, DelInv, DelShapes, EverywhereTrue, PollsAlone, OutcomeIsTrue, RowIsTrue,
              AnswerIsTrue, Active, At
<1>2. CASE DelNext
  BY <1>2, RunStepKeeps, DaemonStepKeeps, RegistryStepKeeps, WaiterStepKeeps, SdkStepKeeps,
     PollStepKeeps DEF DelNext
<1> QED BY <1>1, <1>2

\* Whatever is lost and whoever stops, a caller hears of an end only if there was one, and
\* a stopped daemon holds no waiter.  (waiters.ts, instance.ts waitForResult,
\* runs-read.ts waitForResult)
THEOREM OutcomesAreTrue == DelSpec => []OutcomeIsTrue
<1>1. DelInv => OutcomeIsTrue
  BY DEF DelInv
<1> QED BY <1>1, DelInvInit, DelInvNext, PTL DEF DelSpec

----------------------------------------------------------------------------
\* Listener: for any number of attempts no connection is orphaned.

LsnShapes ==
    /\ generation \in Generation /\ client \in {0, generation}
    /\ stopping \in BOOLEAN /\ timer \in BOOLEAN
    /\ attempt \in [Generation -> {"none", "connecting", "listening", "closing", "done"}]
    /\ socket \in [Generation -> {"none", "open", "broken", "closed"}]
    /\ \A g \in handled : g \in Generation /\ attempt[g] = "done"
    /\ \A g \in Generation, k \in {"error", "end"} : <<g, k>> \in events => g \in handled

\* One attempt at a time, the newest; it is the client, or stop() has closed it.
Trying ==
    \A g \in Generation :
        /\ g > generation => attempt[g] = "none"
        /\ attempt[g] \in {"connecting", "listening", "closing"} => g = generation
        /\ attempt[g] \in {"connecting", "listening"} =>
              IF stopping THEN socket[g] = "closed" ELSE client = g

\* The timer runs when the newest attempt and its connection are over.
Retrying == timer => ~stopping /\ attempt[generation] = "done" /\ socket[generation] # "open"

LsnInv == LsnShapes /\ Trying /\ Retrying /\ (stopping => client = 0) /\ NoOrphan

LEMMA LsnInvInit == LsnInit => LsnInv
<1> SUFFICES ASSUME LsnInit PROVE LsnInv
  OBVIOUS
<1>1. 1 \in Generation /\ \A g \in Generation : g > 1 => g # 1
  BY ListenerAssumption DEF Generation
<1>2. LsnShapes
  BY <1>1 DEF LsnInit, LsnShapes
<1>3. Trying /\ Retrying /\ NoOrphan /\ ~stopping
  BY <1>1 DEF LsnInit, Trying, Retrying, NoOrphan
<1> QED BY <1>2, <1>3 DEF LsnInv

LEMMA LsnInvNext == LsnInv /\ [LsnNext]_lsnVars => LsnInv'
<1> SUFFICES ASSUME LsnInv, [LsnNext]_lsnVars PROVE LsnInv'
  OBVIOUS
<1> USE ListenerAssumption DEF LsnInv
<1>1. CASE TimerFires
  <2>1. generation + 1 \in Generation /\ generation + 1 # 0 /\ generation \in Generation
    BY <1>1 DEF TimerFires, LsnShapes, Generation
  <2> DEFINE g == generation + 1
  <2>a. /\ generation' = g /\ client' = g /\ timer' = FALSE
        /\ attempt' = [attempt EXCEPT ![g] = "connecting"] /\ attempt[g] = "none"
        /\ UNCHANGED <<stopping, socket, handled, events>> /\ ~stopping
        /\ attempt[generation] = "done" /\ socket[generation] # "open"
        /\ \A h \in Generation : (h > g => h > generation /\ h # g) /\ (h = generation => h # g)
        /\ generation \in Generation /\ 0 \notin Generation
    BY <1>1, <2>1 DEF TimerFires, Trying, Retrying, Generation
  <2> HIDE DEF g
  <2>2. LsnShapes'
    BY <2>1, <2>a DEF LsnShapes, g
  <2>3. Trying' /\ Retrying'
    BY <2>1, <2>a DEF LsnShapes, Trying, Retrying
  <2>4. NoOrphan'
    BY <2>1, <2>a DEF LsnShapes, NoOrphan
  <2> QED BY <2>a, <2>2, <2>3, <2>4
<1>2. ASSUME NEW g \in Generation, Connects(g) PROVE LsnInv'
  <2>1. LsnShapes'
    BY <1>2 DEF Connects, LsnShapes
  <2>2. Trying' /\ Retrying' /\ NoOrphan'
    BY <1>2 DEF Connects, LsnShapes, Trying, Retrying, NoOrphan
  <2> QED BY <1>2, <2>1, <2>2 DEF Connects
<1>3. ASSUME NEW g \in Generation, Listens(g) PROVE LsnInv'
  <2>1. stopping \/ IsCurrent(g)
    BY <1>3 DEF Listens, Trying, IsCurrent
  <2>2. /\ attempt' = [attempt EXCEPT ![g] = "done"] /\ handled' \in {handled, handled \cup {g}}
        /\ UNCHANGED <<generation, client, stopping, timer, socket, events>>
        /\ attempt[g] = "listening" /\ g = generation
    BY <1>3, <2>1 DEF Listens, IsCurrent, Trying
  <2>3. LsnShapes'
    BY <2>2 DEF LsnShapes
  <2>4. Trying' /\ Retrying'
    BY <2>2 DEF LsnShapes, Trying, Retrying
  <2>5. NoOrphan'
    BY <1>3, <2>1, <2>2 DEF Listens, LsnShapes, Trying, NoOrphan, IsCurrent
  <2> QED BY <2>2, <2>3, <2>4, <2>5
<1>4. ASSUME NEW g \in Generation, AttemptFails(g) PROVE LsnInv'
  <2>1. LsnShapes'
    BY <1>4 DEF AttemptFails, LsnShapes
  <2>2. Trying' /\ Retrying' /\ NoOrphan'
    BY <1>4 DEF AttemptFails, LsnShapes, Trying, Retrying, NoOrphan
  <2> QED BY <1>4, <2>1, <2>2 DEF AttemptFails
<1>4a. ASSUME NEW g \in Generation, LostUnhandled(g) PROVE LsnInv'
  <2>1. LsnShapes'
    BY <1>4a DEF LostUnhandled, LsnShapes
  <2>2. Trying' /\ Retrying' /\ NoOrphan'
    BY <1>4a DEF LostUnhandled, LsnShapes, Trying, Retrying, NoOrphan
  <2> QED BY <1>4a, <2>1, <2>2 DEF LostUnhandled
<1>5. ASSUME NEW g \in Generation, AttemptClosed(g) PROVE LsnInv'
  <2>1. g = generation /\ attempt[g] = "closing"
    BY <1>5 DEF AttemptClosed, Trying
  <2>2. LsnShapes'
    BY <1>5, <2>1 DEF AttemptClosed, LsnShapes
  <2>3. Trying' /\ Retrying' /\ NoOrphan'
    BY <1>5, <2>1 DEF AttemptClosed, LsnShapes, Trying, Retrying, NoOrphan, NoSuccessor
  <2> QED BY <1>5, <2>2, <2>3 DEF AttemptClosed
<1>6. ASSUME NEW g \in Generation, Breaks(g) \/ OnError(g) \/ OnEnd(g) PROVE LsnInv'
  <2>1. g \in handled
    BY <1>6 DEF Breaks, OnError, OnEnd, LsnShapes
  <2>2. /\ socket' \in [Generation -> {"none", "open", "broken", "closed"}]
        /\ socket'[g] # "open" \/ socket' = socket
        /\ \A h \in Generation \ {g} : socket'[h] = socket[h]
        /\ UNCHANGED <<generation, client, stopping, attempt, handled>>
    BY <1>6 DEF Breaks, OnError, OnEnd, LsnShapes
  <2>3. \A h \in Generation, k \in {"error", "end"} : <<h, k>> \in events' => h \in handled
    <3>1. ASSUME NEW e \in events' PROVE e \in events \/ \E k : e = <<g, k>>
      BY <1>6 DEF Breaks, OnError, OnEnd
    <3> QED BY <2>1, <3>1 DEF LsnShapes
  <2>4. timer' = timer \/ (timer' = TRUE /\ IsCurrent(g) /\ socket'[g] = "closed")
    BY <1>6 DEF Breaks, OnError, OnEnd, IsCurrent, LsnShapes
  <2>5. LsnShapes'
    BY <2>2, <2>3, <2>4 DEF LsnShapes
  <2>6. attempt[g] = "done"
    BY <2>1 DEF LsnShapes
  <2>7. Trying' /\ NoOrphan'
    BY <2>2, <2>6 DEF LsnShapes, Trying, NoOrphan
  <2>8. Retrying'
    BY <2>2, <2>4, <2>6 DEF LsnShapes, Retrying, IsCurrent
  <2> QED BY <2>2, <2>5, <2>7, <2>8
<1>7. CASE StopListener
  <2>1. /\ socket' \in [Generation -> {"none", "open", "broken", "closed"}]
        /\ client # 0 => socket'[client] = "closed"
        /\ \A h \in Generation : h # client => socket'[h] = socket[h]
        /\ \A h \in Generation, k \in {"error", "end"} : <<h, k>> \in events' => h \in handled
    BY <1>7 DEF StopListener, End, LsnShapes, Generation
  <2>2. /\ stopping' = TRUE /\ timer' = FALSE /\ client' = 0 /\ ~stopping
        /\ UNCHANGED <<generation, attempt, handled>>
    BY <1>7 DEF StopListener
  <2>3. LsnShapes'
    BY <2>1, <2>2 DEF LsnShapes
  <2>4. \A h \in Generation : h # 0
    BY DEF Generation
  <2>5. Trying' /\ Retrying' /\ NoOrphan'
    BY <2>1, <2>2, <2>4 DEF LsnShapes, Trying, Retrying, NoOrphan
  <2> QED BY <2>2, <2>3, <2>5
<1>8. CASE ProcessEnds
  <2>1. /\ client' = 0 /\ timer' = FALSE /\ events' = {} /\ UNCHANGED <<generation, stopping, handled>>
        /\ attempt' = [g \in Generation |-> IF attempt[g] = "none" THEN "none" ELSE "done"]
        /\ socket' = [g \in Generation |-> IF socket[g] = "none" THEN "none" ELSE "closed"]
    BY <1>8 DEF ProcessEnds
  <2>2. LsnShapes'
    BY <2>1 DEF LsnShapes
  <2>3. Trying' /\ Retrying' /\ NoOrphan'
    BY <2>1 DEF LsnShapes, Trying, Retrying, NoOrphan
  <2> QED BY <2>1, <2>2, <2>3
<1>9. CASE UNCHANGED lsnVars
  BY <1>9 DEF lsnVars, LsnShapes, Trying, Retrying, NoOrphan
<1> QED BY <1>1, <1>2, <1>3, <1>4, <1>4a, <1>5, <1>6, <1>7, <1>8, <1>9 DEF LsnNext

\* Whatever breaks, the process included, and whenever stop() comes: a connection that listens is the client,
\* so that stop() and its own handlers reach it (notify.ts connect, stop).
THEOREM NoneIsOrphaned == LsnSpec => []NoOrphan
<1>1. LsnInv => NoOrphan
  BY DEF LsnInv
<1> QED BY <1>1, LsnInvInit, LsnInvNext, PTL DEF LsnSpec
=============================================================================
