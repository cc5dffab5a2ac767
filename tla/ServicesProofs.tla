--------------------------- MODULE ServicesProofs ---------------------------
(***************************************************************************)
(* Theorems about the parts of a deployment that stand for themselves, one *)
(* section for each: Registry, Embedded, ClaimConnection, SharedReads,     *)
(* RateLimit, RunDetail.                                                   *)
(***************************************************************************)
EXTENDS Registry, Embedded, ClaimConnection, SharedReads, RateLimit, RunDetail,
        FiniteSetTheorems, TLAPS

----------------------------------------------------------------------------
\* Registry: for any workers, builds, daemons and patterns the schedule is its
\* owner's, and each time it falls due it fires once.

Pattern == {PatternOf[VersionOf[w]] : w \in Worker} \cup {NoPattern}
Version == {VersionOf[w] : w \in Worker}

RegShapes ==
    /\ sched \in [pattern : Pattern, enabled : BOOLEAN, next : {"never", "ahead", "due"}]
    /\ reg \in [Worker -> [at : {"off", "upsert", "judged", "synced"},
                           served : SUBSET Version, owner : BOOLEAN]]
    /\ scan \in [Daemon -> {"idle", "locked", "fire", "skip"}]
    /\ dueTimes \in Nat /\ fires \in Nat

\* A registration that rewrites the schedule owns the task and holds the row.
Owning == \A w \in Worker : reg[w].at = "synced" => schedLock = w /\ reg[w].owner

\* A tick under way holds the row, and what it found due is due until it commits.
Ticking == \A d \in Daemon : scan[d] # "idle" => schedLock = d /\ sched.next = "due"

\* Without a pattern there is no schedule, and nobody patches one that is not there.
Present ==
    /\ sched.pattern = NoPattern => sched = NoSchedule
    /\ patch # NoPatch => sched # NoSchedule

\* Every fire was due, and one that is due now has not fired yet.
Counted == fires + (IF sched.next = "due" THEN 1 ELSE 0) <= dueTimes

RegInv == RegShapes /\ Owning /\ Ticking /\ Present /\ Counted /\ OwnersSchedule

LEMMA RegInvInit == RegInit => RegInv
  BY DEF RegInit, RegInv, RegShapes, Owning, Ticking, Present, Counted, OwnersSchedule, NoSchedule,
         Off, Pattern

----------------------------------------------------------------------------
\* Records with a flag, of any type: the flag may be replaced.
LEMMA FlagOfSchedule ==
    ASSUME NEW Flag, NEW P, NEW N, NEW s \in [pattern : P, enabled : Flag, next : N],
           NEW flag \in Flag, NEW next \in N
    PROVE  [s EXCEPT !.enabled = flag, !.next = next] \in [pattern : P, enabled : Flag, next : N]
  OBVIOUS
LEMMA FlagOfRegistration ==
    ASSUME NEW Flag, NEW At, NEW V, NEW at \in At, NEW flag \in Flag, NEW w \in Worker,
           NEW f \in [Worker -> [at : At, served : V, owner : Flag]]
    PROVE  [f EXCEPT ![w].at = at, ![w].owner = flag]
               \in [Worker -> [at : At, served : V, owner : Flag]]
  OBVIOUS

\* What one step of a registration or of a tick does to its own record.
LEMMA RegisterKeeps ==
    ASSUME RegInv, NEW w \in Worker,
           Upsert(w) \/ UpsertApplies(w) \/ SyncSchedule(w) \/ RegisterFails(w)
    PROVE  RegInv'
<1> USE RegistryAssumption DEF RegInv
<1>1. Served \subseteq Version /\ VersionOf[w] \in Version
  BY DEF Served, Version
<1>2. UNCHANGED <<version, sched, scan, patch, dueTimes, fires>>
  BY DEF Upsert, UpsertApplies, SyncSchedule, RegisterFails
<1>3. CASE Upsert(w)
  <2>1. RegShapes'
    BY <1>1, <1>2, <1>3 DEF RegShapes, Upsert, Off
  <2>2. schedLock' = schedLock /\ \A x \in Worker : reg'[x].at = "synced" => reg'[x] = reg[x]
    BY <1>3 DEF Upsert, RegShapes, Off
  <2> QED BY <1>2, <2>1, <2>2 DEF Owning, Ticking, Present, Counted, OwnersSchedule
<1>4. CASE UpsertApplies(w)
  <2>1. PICK owner \in BOOLEAN : reg' = [reg EXCEPT ![w].at = "judged", ![w].owner = owner]
    BY <1>4, Zenon DEF UpsertApplies, MayOwn
  <2>2. RegShapes'
    BY <1>2, <2>1, FlagOfRegistration, ZenonT(30) DEF RegShapes
  <2>3. schedLock' = schedLock /\ \A x \in Worker : reg'[x].at = "synced" => reg'[x] = reg[x]
    BY <1>4 DEF UpsertApplies, RegShapes
  <2> QED BY <1>2, <2>2, <2>3 DEF Owning, Ticking, Present, Counted, OwnersSchedule
<1>5. CASE SyncSchedule(w)
  <2>1. RegShapes'
    BY <1>2, <1>5 DEF RegShapes, SyncSchedule
  <2>2. schedLock = NoDaemon /\ schedLock' = w /\ reg[w].owner
    BY <1>5 DEF SyncSchedule, MustSync
  <2>3. \A x \in Worker : reg'[x].at = "synced" => x = w /\ reg'[x].owner
    BY <1>5, <2>2 DEF SyncSchedule, RegShapes, Owning
  <2> QED BY <1>2, <2>1, <2>2, <2>3 DEF Owning, Ticking, Present, Counted, OwnersSchedule
<1>6. CASE RegisterFails(w)
  <2>1. RegShapes'
    BY <1>2, <1>6 DEF RegShapes, RegisterFails, Off
  <2>2. \A x \in Worker : reg'[x].at = "synced" => x # w /\ reg'[x] = reg[x]
    BY <1>6 DEF RegisterFails, RegShapes, Off
  <2>3. schedLock # w => schedLock' = schedLock
    BY <1>6 DEF RegisterFails, Release
  <2> QED BY <1>2, <2>1, <2>2, <2>3 DEF Owning, Ticking, Present, Counted, OwnersSchedule
<1> QED BY <1>3, <1>4, <1>5, <1>6

\* The commit of a registration: only an owner that holds the row rewrites the schedule.
LEMMA CommitRewrites ==
    ASSUME RegInv, NEW w \in Worker, RegisterCommit(w)
    PROVE  \/ /\ reg[w].at = "synced" /\ schedLock = w
              /\ version' = VersionOf[w]
              /\ sched' = SyncedSchedule(PatternOf[VersionOf[w]])
           \/ reg[w].at = "judged" /\ UNCHANGED <<version, sched>>
  BY DEF RegInv, Owning, RegisterCommit, MustSync

LEMMA SyncedShape ==
    ASSUME RegInv, NEW w \in Worker, sched' = SyncedSchedule(PatternOf[VersionOf[w]])
    PROVE  /\ sched' \in [pattern : Pattern, enabled : BOOLEAN, next : {"never", "ahead", "due"}]
           /\ sched'.pattern = PatternOf[VersionOf[w]]
           /\ sched'.pattern = NoPattern => sched' = NoSchedule
           /\ sched'.next = "due" => sched.next = "due"
           /\ sched.next = "due" /\ sched'.next # "due" => sched'.pattern # sched.pattern
<1>1. PatternOf[VersionOf[w]] \in Pattern
  BY DEF Pattern
<1> DEFINE pattern == PatternOf[VersionOf[w]]
<1>2. sched \in [pattern : Pattern, enabled : BOOLEAN, next : {"never", "ahead", "due"}]
  BY DEF RegInv, RegShapes
<1>3. sched = NoSchedule => sched.pattern = NoPattern /\ sched.next = "never"
  BY DEF NoSchedule
<1>4. CASE pattern = NoPattern
  <2>1. sched' = NoSchedule
    BY <1>4 DEF SyncedSchedule
  <2>2. sched.next = "due" => sched.pattern # NoPattern
    BY <1>3 DEF RegInv, Present
  <2>3. NoSchedule \in [pattern : Pattern, enabled : BOOLEAN, next : {"never", "ahead", "due"}]
    BY <1>1, <1>4 DEF NoSchedule
  <2>4. NoSchedule.pattern = NoPattern /\ NoSchedule.next = "never"
    BY DEF NoSchedule
  <2> QED BY <1>4, <2>1, <2>2, <2>3, <2>4
<1>5. CASE pattern # NoPattern /\ sched = NoSchedule
  <2>1. sched' = [pattern |-> pattern, enabled |-> TRUE, next |-> "ahead"]
    BY <1>5 DEF SyncedSchedule
  <2> QED BY <1>1, <1>3, <1>5, <2>1
<1>6. CASE pattern # NoPattern /\ sched # NoSchedule /\ sched.pattern = pattern
  <2>1. sched' = sched
    BY <1>6 DEF SyncedSchedule
  <2> QED BY <1>2, <1>6, <2>1
<1>7. CASE pattern # NoPattern /\ sched # NoSchedule /\ sched.pattern # pattern
  <2>1. sched' = [sched EXCEPT !.pattern = pattern, !.next = "ahead"]
    BY <1>7 DEF SyncedSchedule
  <2> QED BY <1>1, <1>2, <1>7, <2>1
<1> QED BY <1>4, <1>5, <1>6, <1>7

LEMMA CommitKeeps ==
    ASSUME RegInv, NEW w \in Worker, RegisterCommit(w)
    PROVE  RegInv'
<1> USE RegistryAssumption DEF RegInv
<1>1. /\ reg' = [reg EXCEPT ![w] = Off] /\ UNCHANGED <<scan, dueTimes, fires>>
      /\ patch' = IF sched' = NoSchedule THEN NoPatch ELSE patch
      /\ schedLock # w => schedLock' = schedLock
  BY DEF RegisterCommit, Release
<1>2. \A x \in Worker : reg'[x].at = "synced" => x # w /\ reg'[x] = reg[x]
  BY <1>1 DEF RegShapes, Off
<1>3. Owning'
  BY <1>1, <1>2 DEF Owning
<1>4. CASE reg[w].at = "judged" /\ UNCHANGED <<version, sched>>
  <2>1. RegShapes'
    BY <1>1, <1>4 DEF RegShapes, Off
  <2> QED BY <1>1, <1>3, <1>4, <2>1 DEF Ticking, Present, Counted, OwnersSchedule
<1>5. CASE /\ reg[w].at = "synced" /\ schedLock = w /\ version' = VersionOf[w]
           /\ sched' = SyncedSchedule(PatternOf[VersionOf[w]])
  <2>1. RegShapes'
    BY <1>1, <1>5, SyncedShape DEF RegShapes, Off
  <2>2. Ticking'
    BY <1>1, <1>5 DEF Ticking
  <2>3. Counted'
    BY <1>1, <1>5, SyncedShape DEF Counted, RegShapes
  <2> QED BY <1>1, <1>3, <1>5, <2>1, <2>2, <2>3, SyncedShape DEF Present, OwnersSchedule
<1> QED BY <1>4, <1>5, CommitRewrites

----------------------------------------------------------------------------
LEMMA CronKeeps ==
    ASSUME RegInv, NEW d \in Daemon, CronLock(d) \/ CronServed(d) \/ CronCommit(d) \/ CronFails(d)
    PROVE  RegInv'
<1> USE RegistryAssumption DEF RegInv
<1>1. UNCHANGED <<version, reg, patch, dueTimes>>
  BY DEF CronLock, CronServed, CronCommit, CronFails
<1>2. CASE CronLock(d)
  <2>1. schedLock = NoDaemon /\ schedLock' = d /\ sched.next = "due" /\ UNCHANGED <<sched, fires>>
    BY <1>2 DEF CronLock, DueAndFree
  <2>2. RegShapes'
    BY <1>1, <1>2, <2>1 DEF CronLock, RegShapes
  <2>3. Ticking'
    BY <1>2, <2>1 DEF CronLock, RegShapes, Ticking
  <2> QED BY <1>1, <2>1, <2>2, <2>3 DEF Owning, Present, Counted, OwnersSchedule
<1>3. CASE CronServed(d)
  <2>1. UNCHANGED <<schedLock, sched, fires>> /\ scan[d] # "idle"
    BY <1>3 DEF CronServed
  <2>2. RegShapes'
    BY <1>1, <1>3, <2>1 DEF CronServed, RegShapes
  <2>3. Ticking'
    BY <1>3, <2>1 DEF CronServed, RegShapes, Ticking
  <2> QED BY <1>1, <2>1, <2>2, <2>3 DEF Owning, Present, Counted, OwnersSchedule
<1>4. CASE CronCommit(d)
  <2>1. schedLock = d /\ sched.next = "due" /\ sched # NoSchedule
    BY <1>4 DEF CronCommit, Ticking, NoSchedule
  <2>2. PICK next \in {"ahead", "never"} : sched' = [sched EXCEPT !.next = next]
    BY <1>4 DEF CronCommit
  <2>3. fires' \in {fires, fires + 1} /\ scan' = [scan EXCEPT ![d] = "idle"]
    BY <1>4 DEF CronCommit
  <2>4. RegShapes'
    BY <1>1, <2>2, <2>3 DEF RegShapes
  <2>5. Ticking' /\ Owning'
    BY <1>1, <2>1, <2>3 DEF Ticking, Owning, RegShapes
  <2>6. Counted'
    BY <1>1, <2>1, <2>2, <2>3 DEF Counted, RegShapes
  <2>7. sched'.pattern = sched.pattern /\ sched.pattern # NoPattern
    BY <2>1, <2>2 DEF RegShapes, Present
  <2> QED BY <1>1, <2>4, <2>5, <2>6, <2>7 DEF Present, OwnersSchedule, NoSchedule
<1>5. CASE CronFails(d)
  <2>1. schedLock = d /\ UNCHANGED <<sched, fires>> /\ scan' = [scan EXCEPT ![d] = "idle"]
    BY <1>5 DEF CronFails, Ticking
  <2>2. RegShapes'
    BY <1>1, <2>1 DEF RegShapes
  <2>3. Ticking' /\ Owning'
    BY <1>1, <2>1 DEF Ticking, Owning, RegShapes
  <2> QED BY <1>1, <2>1, <2>2, <2>3 DEF Present, Counted, OwnersSchedule
<1> QED BY <1>2, <1>3, <1>4, <1>5

\* The clock, and the operator's patch, which waits for the row.
LEMMA OperatorKeeps ==
    ASSUME RegInv, FallsDue \/ PatchRead \/ PatchWrite
    PROVE  RegInv'
<1> USE RegistryAssumption DEF RegInv
<1>1. UNCHANGED <<version, reg, scan, schedLock, fires>>
  BY DEF FallsDue, PatchRead, PatchWrite
<1>2. CASE FallsDue
  <2>1. /\ sched.next = "ahead" /\ sched # NoSchedule /\ sched' = [sched EXCEPT !.next = "due"]
        /\ dueTimes' = dueTimes + 1 /\ patch' = patch
    BY <1>2 DEF FallsDue, NoSchedule
  <2>2. sched'.pattern = sched.pattern /\ sched.pattern # NoPattern
    BY <2>1 DEF RegShapes, Present
  <2>3. RegShapes' /\ Counted'
    BY <1>1, <2>1 DEF RegShapes, Counted
  <2>4. Ticking' /\ Owning'
    BY <1>1, <2>1 DEF Ticking, Owning
  <2> QED BY <1>1, <2>2, <2>3, <2>4 DEF Present, OwnersSchedule, NoSchedule
<1>3. CASE PatchRead
  <2>1. UNCHANGED <<sched, dueTimes>> /\ sched # NoSchedule
    BY <1>3 DEF PatchRead
  <2> QED BY <1>1, <2>1 DEF RegShapes, Owning, Ticking, Present, Counted, OwnersSchedule
<1>4. CASE PatchWrite
  <2>1. PICK enabled \in BOOLEAN, next \in {"ahead", "never"} :
          sched' = [sched EXCEPT !.enabled = enabled, !.next = next]
    BY <1>4 DEF PatchWrite
  <2>2. patch # NoPatch /\ patch' = NoPatch /\ schedLock = NoDaemon /\ dueTimes' = dueTimes
    BY <1>4 DEF PatchWrite
  <2>3. sched'.pattern = sched.pattern /\ sched.pattern # NoPattern
    BY <2>1, <2>2 DEF RegShapes, Present
  <2>4. RegShapes'
    BY <1>1, <2>1, <2>2, FlagOfSchedule, Zenon DEF RegShapes
  <2>5. sched'.next # "due"
    BY <2>1, Zenon DEF RegShapes
  <2>6. Counted'
    BY <1>1, <2>2, <2>5 DEF Counted, RegShapes
  <2>7. Ticking' /\ Owning'
    BY <1>1, <2>2 DEF Ticking, Owning
  <2> QED BY <1>1, <2>2, <2>3, <2>4, <2>6, <2>7 DEF Present, OwnersSchedule
<1> QED BY <1>2, <1>3, <1>4

LEMMA RegInvNext == RegInv /\ [RegNext]_regVars => RegInv'
<1> SUFFICES ASSUME RegInv, [RegNext]_regVars PROVE RegInv'
  OBVIOUS
<1>1. ASSUME NEW w \in Worker,
             Upsert(w) \/ UpsertApplies(w) \/ SyncSchedule(w) \/ RegisterFails(w)
      PROVE RegInv'
  BY <1>1, RegisterKeeps
<1>2. ASSUME NEW w \in Worker, RegisterCommit(w) PROVE RegInv'
  BY <1>2, CommitKeeps
<1>3. ASSUME UNCHANGED <<version, sched, reg, scan, patch, schedLock, dueTimes, fires>>
      PROVE RegInv'
  BY <1>3 DEF RegInv, RegShapes, Owning, Ticking, Present, Counted, OwnersSchedule
<1>4. ASSUME NEW w \in Worker,
             Silent(w) \/ MarkOffline(w) \/ Beat(w) \/ Deregister(w) \/ PruneWorker(w)
      PROVE RegInv'
  BY <1>3, <1>4 DEF Silent, MarkOffline, Beat, Deregister, PruneWorker, Becomes
<1>5. ASSUME NEW d \in Daemon, CronLock(d) \/ CronServed(d) \/ CronCommit(d) \/ CronFails(d)
      PROVE RegInv'
  BY <1>5, CronKeeps
<1>6. ASSUME FallsDue \/ PatchRead \/ PatchWrite PROVE RegInv'
  BY <1>6, OperatorKeeps
<1> QED BY <1>1, <1>2, <1>3, <1>4, <1>5, <1>6 DEF RegNext, regVars

\* The schedule is that of the version that owns the task (workers.ts, "only the owner
\* syncs"), however registrations of any number of builds overlap.
THEOREM ScheduleIsOwners == RegSpec => []OwnersSchedule
<1>1. RegInv => OwnersSchedule
  BY DEF RegInv
<1> QED BY <1>1, RegInvInit, RegInvNext, PTL DEF RegSpec

----------------------------------------------------------------------------
LEMMA DueStep ==
    ASSUME RegInv, RegNext, sched.next = "due", sched'.next # "due"
    PROVE  \/ \E d \in Daemon : schedLock = d
           \/ sched'.pattern # sched.pattern
           \/ patch # NoPatch /\ patch' = NoPatch
<1>1. ASSUME NEW w \in Worker, RegisterCommit(w) PROVE sched'.pattern # sched.pattern
  BY <1>1, CommitRewrites, SyncedShape
<1>2. ASSUME NEW d \in Daemon, CronCommit(d) PROVE schedLock = d
  BY <1>2 DEF RegInv, Ticking, CronCommit
<1>3. ASSUME PatchWrite PROVE patch # NoPatch /\ patch' = NoPatch
  BY <1>3 DEF PatchWrite
<1>4. ~FallsDue
  BY DEF FallsDue
<1>5. sched' # sched
  OBVIOUS
<1> QED
  BY <1>1, <1>2, <1>3, <1>4, <1>5
  DEF RegNext, Upsert, UpsertApplies, SyncSchedule, RegisterFails, Silent, MarkOffline, Beat,
      Deregister, PruneWorker, Becomes, CronLock, CronServed, CronFails, PatchRead

\* However many daemons look at a due schedule, and whoever registers or patches it
\* meanwhile, it fires at most once each time it falls due, and a deployment of the same
\* pattern takes no due fire away (orchestrator.ts scanCron, workers.ts syncSchedules).
THEOREM FiresOnce == RegSpec => OneFirePerDueTime
<1>1. RegInv => fires <= dueTimes
  BY DEF RegInv, Counted, RegShapes
<1> DEFINE Kept ==
      sched.next = "due" /\ sched'.next # "due" =>
          \/ \E d \in Daemon : schedLock = d
          \/ sched'.pattern # sched.pattern
          \/ patch # NoPatch /\ patch' = NoPatch
<1>2. RegInv /\ [RegNext]_regVars => [Kept]_regVars
  BY DueStep DEF regVars
<1>3. DueIsKept <=> [][Kept]_regVars
  BY DEF DueIsKept
<1> HIDE DEF Kept
<1> QED BY <1>1, <1>2, <1>3, RegInvInit, RegInvNext, PTL DEF RegSpec, OneFirePerDueTime

----------------------------------------------------------------------------
\* Embedded: for any number of runtimes, with setDefault or without, that start,
\* fail to start and stop in any order.

Someone == Runtime \cup {Host, OtherClient, Vacant, NoRuntime}
Starting == {"migrate", "storage", "register"}
Holding  == Starting \cup {"up", "drain", "notify", "pool"}

EmbShapes ==
    /\ slot \in Runtime \cup {NoRuntime}
    /\ stage \in [Runtime -> Holding \cup {"none", "refused", "stopped"}]
    /\ previous \in [Runtime -> [resolver : Someone, default : Someone]]
    /\ chosen \in [resolver : Someone \ Runtime, default : Someone \ Runtime]
    /\ resolver \in Someone /\ default \in Someone

\* At most one runtime is between create and its end, and only while it is up or drains
\* does it claim.
SlotHeld ==
    /\ \A r \in Runtime : stage[r] \in Holding <=> slot = r
    /\ \A r \in claiming : r \in Runtime /\ stage[r] \in {"up", "drain"}

\* What the holder of the slot has replaced, it can put back.
ResolverKept(r) ==
    /\ stage[r] \in {"migrate", "storage", "pool"} => resolver = chosen.resolver
    /\ stage[r] \in {"register", "up", "drain"} => resolver = r
    /\ resolver = r => previous[r].resolver = chosen.resolver
    /\ resolver # r => resolver = chosen.resolver
DefaultKept(r) ==
    /\ stage[r] \in Starting \cup {"pool"} => default = chosen.default
    /\ default = r => previous[r].default = chosen.default
    /\ default # r => default = chosen.default

EmbInv ==
    /\ EmbShapes /\ SlotHeld
    /\ \A r \in Runtime : slot = r => ResolverKept(r) /\ DefaultKept(r)
    /\ slot = NoRuntime => resolver = chosen.resolver /\ default = chosen.default

LEMMA EmbInvInit == EmbInit => EmbInv
  BY EmbeddedAssumption
  DEF EmbInit, EmbInv, EmbShapes, SlotHeld, Someone, Starting, Holding, Unknown

LEMMA EmbInvHost == EmbInv => HostUndisturbed
<1> SUFFICES ASSUME EmbInv PROVE HostUndisturbed
  OBVIOUS
<1>1. ASSUME NEW r \in claiming PROVE Target = r
  <2>1. r \in Runtime /\ slot = r /\ stage[r] \in {"up", "drain"}
    BY DEF EmbInv, SlotHeld, Holding
  <2>2. resolver = r
    BY <2>1 DEF EmbInv, ResolverKept
  <2> QED BY <2>1, <2>2, EmbeddedAssumption DEF Target
<1> QED BY <1>1 DEF HostUndisturbed, EmbInv

----------------------------------------------------------------------------
\* A step of the runtime that holds the slot and keeps it.
LEMMA HolderKeeps ==
    ASSUME EmbInv, NEW r \in Runtime, slot = r, UNCHANGED <<slot, chosen>>,
           NEW s \in Holding, stage' = [stage EXCEPT ![r] = s],
           claiming' \subseteq claiming \cup {r}, r \in claiming' => s \in {"up", "drain"},
           resolver' \in Someone, default' \in Someone,
           previous' \in [Runtime -> [resolver : Someone, default : Someone]],
           ResolverKept(r)', DefaultKept(r)'
    PROVE  EmbInv'
<1>1. slot # NoRuntime
  BY EmbeddedAssumption
<1>2. EmbShapes'
  BY DEF EmbInv, EmbShapes
<1>3. \A x \in Runtime : x # r => stage'[x] = stage[x] /\ stage[x] \notin Holding /\ x \notin claiming
  BY DEF EmbInv, EmbShapes, SlotHeld, Holding
<1>4. stage'[r] = s
  BY DEF EmbInv, EmbShapes
<1>5. SlotHeld'
  BY <1>3, <1>4 DEF EmbInv, SlotHeld
<1> QED BY <1>1, <1>2, <1>5 DEF EmbInv

LEMMA CreateKeeps ==
    ASSUME EmbInv, NEW r \in Runtime, Create(r)
    PROVE  EmbInv'
<1> USE EmbeddedAssumption
<1>1. UNCHANGED <<claiming, resolver, default, chosen, previous>> /\ stage[r] = "none"
  BY DEF Create
<1>2. CASE slot = NoRuntime
  <2>1. slot' = r /\ stage' = [stage EXCEPT ![r] = "migrate"]
    BY <1>2 DEF Create, Reaches
  <2>2. EmbShapes'
    BY <1>1, <2>1 DEF EmbInv, EmbShapes, Holding, Starting
  <2>3. stage'[r] = "migrate" /\ \A x \in Runtime : x # r => stage'[x] = stage[x]
    BY <2>1 DEF EmbInv, EmbShapes
  <2>4. SlotHeld'
    BY <1>1, <1>2, <2>1, <2>3 DEF EmbInv, SlotHeld, Holding, Starting
  <2>5. resolver = chosen.resolver /\ default = chosen.default /\ r # resolver /\ r # default
    BY <1>2 DEF EmbInv, EmbShapes
  <2>6. (ResolverKept(r) /\ DefaultKept(r))'
    BY <1>1, <2>3, <2>5 DEF ResolverKept, DefaultKept
  <2> QED BY <2>1, <2>2, <2>4, <2>6 DEF EmbInv
<1>3. CASE slot # NoRuntime
  <2>1. slot' = slot /\ stage' = [stage EXCEPT ![r] = "refused"]
    BY <1>3 DEF Create, Reaches
  <2>2. EmbShapes'
    BY <1>1, <2>1 DEF EmbInv, EmbShapes
  <2>3. /\ stage'[r] = "refused" /\ r # slot /\ r \notin claiming
        /\ \A x \in Runtime : x # r => stage'[x] = stage[x]
    BY <1>1, <2>1 DEF EmbInv, EmbShapes, SlotHeld, Holding, Starting
  <2>4. SlotHeld'
    BY <1>1, <2>1, <2>3 DEF EmbInv, SlotHeld, Holding, Starting
  <2> QED BY <1>1, <1>3, <2>1, <2>2, <2>3, <2>4 DEF EmbInv, ResolverKept, DefaultKept
<1> QED BY <1>2, <1>3

\* restoreRegistry and the end of the cleanup.
LEMMA UnlistenedKeeps ==
    ASSUME EmbInv, NEW r \in Runtime, Unlistened(r)
    PROVE  EmbInv'
<1>1. slot = r /\ r \notin claiming /\ ResolverKept(r) /\ DefaultKept(r)
  BY DEF EmbInv, SlotHeld, Holding, Unlistened
<1>2. resolver' = chosen.resolver /\ default' = chosen.default
  BY <1>1 DEF Unlistened, PutBack, ResolverKept, DefaultKept
<1>3. chosen.resolver \in Someone \ Runtime /\ chosen.default \in Someone \ Runtime
  BY DEF EmbInv, EmbShapes
<1>4. /\ stage' = [stage EXCEPT ![r] = "pool"] /\ claiming' = claiming
      /\ previous' = previous /\ slot' = slot /\ chosen' = chosen
  BY DEF Unlistened, Reaches
<1>5. stage'[r] = "pool" /\ r \notin {resolver', default'}
  BY <1>2, <1>3, <1>4 DEF EmbInv, EmbShapes
<1>6. ResolverKept(r)' /\ DefaultKept(r)'
  BY <1>2, <1>4, <1>5 DEF ResolverKept, DefaultKept
<1>7. previous \in [Runtime -> [resolver : Someone, default : Someone]] /\ "pool" \in Holding
  BY DEF EmbInv, EmbShapes, Holding
<1> QED BY <1>1, <1>2, <1>3, <1>4, <1>6, <1>7, HolderKeeps

LEMMA ReleaseKeeps ==
    ASSUME EmbInv, NEW r \in Runtime, ReleaseSlot(r)
    PROVE  EmbInv'
<1> USE EmbeddedAssumption
<1>1. slot = r /\ r \notin claiming /\ ResolverKept(r) /\ DefaultKept(r) /\ stage[r] = "pool"
  BY DEF EmbInv, SlotHeld, Holding, ReleaseSlot
<1>2. resolver = chosen.resolver /\ default = chosen.default
  BY <1>1 DEF ResolverKept, DefaultKept
<1>3. /\ stage' = [stage EXCEPT ![r] = "stopped"] /\ slot' = NoRuntime
      /\ UNCHANGED <<claiming, resolver, default, chosen, previous>>
  BY DEF ReleaseSlot, Reaches
<1>4. EmbShapes'
  BY <1>3 DEF EmbInv, EmbShapes
<1>5. stage'[r] = "stopped" /\ \A x \in Runtime : x # r => stage'[x] = stage[x]
  BY <1>3 DEF EmbInv, EmbShapes
<1>6. SlotHeld'
  BY <1>1, <1>3, <1>5 DEF EmbInv, SlotHeld, Holding, Starting
<1> QED BY <1>2, <1>3, <1>4, <1>6 DEF EmbInv

\* The steps of a start and of a stop before the cleanup.
LEMMA RuntimeKeeps ==
    ASSUME EmbInv, NEW r \in Runtime,
           EmbMigrated(r) \/ Install(r) \/ Starts(r) \/ StartFails(r) \/ StopCalled(r) \/ Drained(r)
    PROVE  EmbInv'
<1> USE EmbeddedAssumption
<1>1. slot = r /\ ResolverKept(r) /\ DefaultKept(r)
  BY DEF EmbInv, SlotHeld, Holding, Starting, EmbMigrated, Install, Starts, StartFails, StopCalled,
         Drained
<1>2. EmbShapes /\ stage[r] \in Holding /\ (r \in claiming => stage[r] \in {"up", "drain"})
  BY <1>1 DEF EmbInv, SlotHeld
<1>3. UNCHANGED <<slot, chosen>>
  BY DEF EmbMigrated, Install, Starts, StartFails, StopCalled, Drained
<1>4. chosen.resolver \notin Runtime /\ chosen.default \notin Runtime
  BY <1>2 DEF EmbShapes
<1>5. CASE EmbMigrated(r) \/ StartFails(r) \/ StopCalled(r) \/ Drained(r)
  <2>1. PICK s \in {"storage", "notify", "drain"} :
           /\ stage' = [stage EXCEPT ![r] = s]
           /\ s = "storage" => stage[r] = "migrate"
           /\ s = "drain" => stage[r] = "up"
           /\ r \in claiming' => s = "drain"
    BY <1>2, <1>5 DEF EmbMigrated, StartFails, StopCalled, Drained, Reaches
  <2>2. UNCHANGED <<resolver, default, previous>> /\ claiming' \subseteq claiming \cup {r}
    BY <1>5 DEF EmbMigrated, StartFails, StopCalled, Drained
  <2>3. stage'[r] = s
    BY <1>2, <2>1 DEF EmbShapes
  <2>4. ResolverKept(r)' /\ DefaultKept(r)'
    BY <1>1, <1>3, <2>1, <2>2, <2>3 DEF ResolverKept, DefaultKept, Starting
  <2> QED BY <1>1, <1>2, <1>3, <2>1, <2>2, <2>4, HolderKeeps DEF EmbShapes, Holding, Starting
<1>6. CASE Install(r)
  <2>1. /\ stage[r] = "storage" /\ stage' = [stage EXCEPT ![r] = "register"]
        /\ previous' = [previous EXCEPT ![r].resolver = resolver]
        /\ resolver' = r /\ UNCHANGED <<claiming, default>>
    BY <1>6 DEF Install, Reaches
  <2>2. /\ previous' \in [Runtime -> [resolver : Someone, default : Someone]]
        /\ previous'[r].resolver = resolver /\ previous'[r].default = previous[r].default
        /\ stage'[r] = "register"
    BY <1>2, <2>1 DEF EmbShapes
  <2>3. ResolverKept(r)' /\ DefaultKept(r)'
    BY <1>1, <1>3, <2>1, <2>2 DEF ResolverKept, DefaultKept, Starting
  <2>4. r \notin claiming' /\ r \in Someone
    BY <1>2, <2>1 DEF Someone
  <2> QED BY <1>1, <1>2, <1>3, <2>1, <2>2, <2>3, <2>4, HolderKeeps DEF EmbShapes, Holding, Starting
<1>7. CASE Starts(r)
  <2>1. /\ stage[r] = "register" /\ stage' = [stage EXCEPT ![r] = "up"]
        /\ previous' = [previous EXCEPT ![r].default = default]
        /\ default' \in {default, r} /\ claiming' = claiming \cup {r} /\ UNCHANGED resolver
    BY <1>7 DEF Starts, Reaches
  <2>2. /\ previous' \in [Runtime -> [resolver : Someone, default : Someone]]
        /\ previous'[r].resolver = previous[r].resolver /\ previous'[r].default = default
        /\ stage'[r] = "up"
    BY <1>2, <2>1 DEF EmbShapes
  <2>3. ResolverKept(r)' /\ DefaultKept(r)'
    BY <1>1, <1>3, <1>4, <2>1, <2>2 DEF ResolverKept, DefaultKept, Starting
  <2>4. r \in Someone
    BY DEF Someone
  <2> QED
    BY <1>1, <1>2, <1>3, <2>1, <2>2, <2>3, <2>4, HolderKeeps, ZenonT(40) DEF EmbShapes, Holding, Starting
<1> QED BY <1>5, <1>6, <1>7

\* The host builds a client while a runtime is up, or in between.
LEMMA HostKeeps ==
    ASSUME EmbInv, HostChooses
    PROVE  EmbInv'
<1> USE EmbeddedAssumption
<1>1. UNCHANGED <<slot, stage, claiming, resolver, previous>>
  BY DEF HostChooses
<1>2. \/ default' = default /\ default # OtherClient /\ chosen' = chosen
      \/ default' = OtherClient /\ chosen' = [chosen EXCEPT !.default = OtherClient]
  BY DEF HostChooses, Builds
<1>3. CASE default' = default /\ chosen' = chosen
  BY <1>1, <1>3 DEF EmbInv, EmbShapes, SlotHeld, ResolverKept, DefaultKept
<1>4. CASE default' = OtherClient /\ chosen' = [chosen EXCEPT !.default = OtherClient]
  <2>1. EmbShapes' /\ chosen'.resolver = chosen.resolver /\ chosen'.default = OtherClient
    BY <1>1, <1>4 DEF EmbInv, EmbShapes, Someone
  <2>2. ASSUME NEW r \in Runtime, slot = r PROVE (ResolverKept(r) /\ DefaultKept(r))'
    BY <1>1, <1>4, <2>1, <2>2 DEF EmbInv, ResolverKept, DefaultKept
  <2> QED BY <1>1, <1>4, <2>1, <2>2 DEF EmbInv, SlotHeld
<1> QED BY <1>2, <1>3, <1>4

LEMMA EmbInvNext == EmbInv /\ [EmbNext]_embVars => EmbInv'
<1> SUFFICES ASSUME EmbInv, [EmbNext]_embVars PROVE EmbInv'
  OBVIOUS
<1>1. CASE UNCHANGED embVars
  BY <1>1 DEF embVars, EmbInv, EmbShapes, SlotHeld, ResolverKept, DefaultKept
<1> QED
  BY <1>1, CreateKeeps, RuntimeKeeps, UnlistenedKeeps, ReleaseKeeps, HostKeeps DEF EmbNext

\* While a runtime may execute a task the results of handles minted in a run are read
\* through it, and once none is left the host finds the resolver and the default client
\* it last chose (embedded.ts, restoreRegistry).
THEOREM HostFindsItsOwn == EmbSpec => []HostUndisturbed
  BY EmbInvInit, EmbInvNext, EmbInvHost, PTL DEF EmbSpec

----------------------------------------------------------------------------
\* ClaimConnection: for any connections and callers, when a claim takes one run.

Word == {"begin", "work", "commit", "read"}
Stage == {"connect", "work", "commit", "finish", "ledger"}

ConShapes ==
    /\ user \in [Conn -> Querier \cup {Unused}]
    /\ open \in [Conn -> BOOLEAN]
    /\ sent \in [Conn -> Seq([by : Querier, what : Word])]
    /\ session \in [Querier -> [on : Conn \cup {Unused}, next : Stage, reads : Nat]]

InTx(c) == session[c].next \in {"work", "commit", "finish"}
Reading(c, n) == session[c].next = "ledger" /\ session[c].on = n /\ c \in waiting

\* Of a connection: a ledger read is alone or at the head, outside any transaction; the
\* other statement is its user's, who waits for it.
Orderly(n) ==
    /\ Len(sent[n]) <= 2
    /\ \A i \in 1 .. Len(sent[n]) :
          IF sent[n][i].what = "read"
          THEN i = 1 /\ ~open[n] /\ Reading(sent[n][i].by, n)
          ELSE /\ i = Len(sent[n]) /\ sent[n][i].by = user[n] /\ user[n] \in waiting
               /\ session[user[n]].next = After(sent[n][i].what)
    /\ user[n] = Unused => ~open[n]
    /\ user[n] # Unused =>
          /\ session[user[n]].on = n /\ InTx(user[n])
          /\ IF user[n] \in waiting
             THEN Len(sent[n]) > 0 /\ sent[n][Len(sent[n])].what # "read"
             ELSE sent[n] = <<>>
          /\ open[n] <=> \/ session[user[n]].next = "work" /\ user[n] \notin waiting
                         \/ session[user[n]].next = "commit"
                         \/ session[user[n]].next = "finish" /\ user[n] \in waiting

ConInv ==
    /\ ConShapes
    /\ \A n \in Conn : Orderly(n)
    /\ \A c \in Querier : /\ InTx(c) => session[c].on \in Conn /\ user[session[c].on] = c
                          /\ session[c].next = "ledger" => session[c].reads = 1
                          /\ session[c].next = "connect" => c \notin waiting

LEMMA ConInvInit == ConInit => ConInv
<1> SUFFICES ASSUME ConInit PROVE ConInv
  OBVIOUS
<1>1. ConShapes
  BY DEF ConInit, ConShapes, Out, Stage, Word
<1>2. ASSUME NEW n \in Conn PROVE Orderly(n)
  BY DEF ConInit, Orderly
<1>3. \A c \in Querier : ~InTx(c) /\ session[c].next = "connect" /\ c \notin waiting
  BY DEF ConInit, InTx, Out
<1> QED BY <1>1, <1>2, <1>3 DEF ConInv

LEMMA SentIs == \A S : \A q \in Seq(S) :
    q # <<>> => /\ Len(q) \in Nat \ {0} /\ Head(q) = q[1] /\ q[1] \in S
                /\ Tail(q) \in Seq(S) /\ Len(Tail(q)) = Len(q) - 1
                /\ \A i \in 1 .. Len(q) - 1 : Tail(q)[i] = q[i + 1]
  OBVIOUS

LEMMA ElementIs == \A S : \A q \in Seq(S) : \A i \in 1 .. Len(q) : q[i] \in S
  OBVIOUS

LEMMA ServeKeeps ==
    ASSUME ConInv, NEW n \in Conn, Serve(n) PROVE ConInv'
<1> DEFINE Msg == [by : Querier, what : Word]
<1>a. sent \in [Conn -> Seq(Msg)] /\ sent[n] \in Seq(Msg) /\ sent[n] # <<>>
  BY DEF ConInv, ConShapes, Serve
<1> HIDE DEF Msg
<1> PICK h : h = sent[n][1]
  OBVIOUS
<1>1. /\ Head(sent[n]) = h /\ h \in Msg /\ Len(sent[n]) \in Nat \ {0}
      /\ Tail(sent[n]) \in Seq(Msg) /\ Len(Tail(sent[n])) = Len(sent[n]) - 1
      /\ \A i \in 1 .. Len(sent[n]) - 1 : Tail(sent[n])[i] = sent[n][i + 1]
  BY <1>a, SentIs
<1>b. h.by \in Querier /\ h.what \in Word /\ h.by # Unused
  BY <1>1, ConnectionAssumption DEF Msg, Querier
<1>c. UNCHANGED <<user, session>> /\ waiting' = waiting \ {h.by}
  BY <1>1 DEF Serve
<1>2. /\ sent' = [sent EXCEPT ![n] = Tail(sent[n])]
      /\ open' = [open EXCEPT ![n] = IF h.what = "begin" THEN TRUE
                                     ELSE IF h.what = "commit" THEN FALSE ELSE open[n]]
  BY <1>1 DEF Serve
<1>d. /\ sent' \in [Conn -> Seq(Msg)] /\ sent'[n] = Tail(sent[n])
      /\ \A m \in Conn \ {n} : sent'[m] = sent[m]
  BY <1>a, <1>1, <1>2
<1>e. open \in [Conn -> BOOLEAN] /\ open[n] \in BOOLEAN
  BY DEF ConInv, ConShapes
<1>f. /\ open' \in [Conn -> BOOLEAN]
      /\ open'[n] = IF h.what = "begin" THEN TRUE ELSE IF h.what = "commit" THEN FALSE ELSE open[n]
      /\ \A m \in Conn \ {n} : open'[m] = open[m]
  BY <1>2, <1>e
<1>3. ConShapes'
  BY <1>c, <1>d, <1>f DEF ConInv, ConShapes, Msg
<1>4. /\ Orderly(n) /\ user[n] \in Querier \cup {Unused} /\ user \in [Conn -> Querier \cup {Unused}]
      /\ Len(sent[n]) \in 1 .. 2 /\ 1 \in 1 .. Len(sent[n])
  <2>1. Orderly(n) /\ user[n] \in Querier \cup {Unused} /\ user \in [Conn -> Querier \cup {Unused}]
    BY DEF ConInv, ConShapes
  <2>2. Len(sent[n]) <= 2
    BY <2>1 DEF Orderly
  <2>3. Len(sent[n]) \in Nat \ {0}
    BY <1>1
  <2>4. Len(sent[n]) \in 1 .. 2 /\ 1 \in 1 .. Len(sent[n])
    <3>1. \A k \in Nat \ {0} : k <= 2 => k \in 1 .. 2 /\ 1 \in 1 .. k
      OBVIOUS
    <3> QED BY <2>2, <2>3, <3>1
  <2> QED BY <2>1, <2>4
<1>5. Orderly(n)'
  <2>1. CASE h.what = "read"
    <3>1. session[h.by].next = "ledger" /\ h.by \in waiting /\ ~open[n]
      BY <1>4, <2>1 DEF Orderly, Reading
    <3>2. user[n] # h.by
      BY <3>1, <1>4, <1>b DEF Orderly, InTx
    <3>3. user'[n] = user[n] /\ (user'[n] \in waiting' <=> user[n] \in waiting) /\ open'[n] = open[n]
      BY <1>c, <1>f, <3>2, <2>1
    <3>4. CASE Len(sent[n]) = 1
      <4>1. user[n] = Unused \/ user[n] \notin waiting
        BY <3>4, <2>1, <1>4 DEF Orderly
      <4>2. user[n] = Unused
        BY <4>1, <1>a, <1>4 DEF Orderly
      <4>3. sent'[n] = <<>> /\ Len(sent'[n]) = 0
        BY <1>1, <1>d, <3>4
      <4> QED BY <4>2, <4>3, <3>1, <3>3 DEF Orderly
    <3>5. CASE Len(sent[n]) = 2
      <4>1. Len(sent'[n]) = 1 /\ sent'[n][1] = sent[n][2]
        BY <1>1, <1>d, <3>5
      <4>2. sent[n][2].what # "read" /\ sent[n][2].by = user[n] /\ user[n] \in waiting
            /\ session[user[n]].next = After(sent[n][2].what)
        BY <1>4, <3>5 DEF Orderly
      <4> QED BY <4>1, <4>2, <1>4, <1>c, <3>3 DEF Orderly, InTx
    <3> QED BY <1>4, <3>4, <3>5
  <2>2. CASE h.what # "read"
    <3>1. /\ Len(sent[n]) = 1 /\ h.by = user[n] /\ user[n] # Unused /\ user[n] \in waiting
          /\ session[user[n]].next = After(h.what)
      <4>1. /\ 1 = Len(sent[n]) /\ sent[n][1].by = user[n] /\ user[n] \in waiting
            /\ session[user[n]].next = After(sent[n][1].what)
        BY <1>4, <2>2 DEF Orderly
      <4> QED BY <4>1, <1>b
    <3>2. sent'[n] = <<>> /\ Len(sent'[n]) = 0
      BY <1>1, <1>d, <3>1
    <3>3. h.what \in {"begin", "work", "commit"}
      BY <1>b, <2>2 DEF Word
    <3>4. user'[n] = user[n] /\ user[n] \notin waiting' /\ session' = session
      BY <1>c, <3>1
    <3>6. open'[n] <=> session[user[n]].next = "work" \/ session[user[n]].next = "commit"
      BY <1>4, <1>f, <3>1, <3>3 DEF After, Orderly
    <3>5. session[user[n]].on = n /\ InTx(user[n])
      BY <3>1, <1>4 DEF Orderly
    <3> QED BY <3>1, <3>2, <3>4, <3>5, <3>6 DEF Orderly, InTx
  <2> QED BY <2>1, <2>2
<1>6. ASSUME NEW m \in Conn \ {n} PROVE Orderly(m)'
  <2>0. Orderly(m) /\ user[m] \in Querier \cup {Unused}
    BY DEF ConInv, ConShapes
  <2>1. user[m] # h.by
    <3>1. CASE h.what = "read"
      <4>1. session[h.by].next = "ledger"
        BY <1>4, <3>1 DEF Orderly, Reading
      <4> QED BY <4>1, <2>0, <1>b DEF Orderly, InTx
    <3>2. CASE h.what # "read"
      <4>1. h.by = user[n]
        BY <1>4, <3>2 DEF Orderly
      <4> QED BY <4>1, <2>0, <1>4, <1>b DEF Orderly
    <3> QED BY <3>1, <3>2
  <2>2. \A i \in 1 .. Len(sent[m]) : sent[m][i].what = "read" => sent[m][i].by # h.by
    <3>1. CASE h.what = "read"
      <4>1. session[h.by].on = n
        BY <1>4, <3>1 DEF Orderly, Reading
      <4> QED BY <4>1, <2>0 DEF Orderly, Reading
    <3>2. CASE h.what # "read"
      <4>1. InTx(h.by)
        BY <1>4, <1>b, <3>2 DEF Orderly
      <4> QED BY <4>1, <2>0 DEF Orderly, Reading, InTx
    <3> QED BY <3>1, <3>2
  <2>3. UNCHANGED <<user[m], sent[m], open[m], session>>
    BY <1>c, <1>d, <1>f
  <2>4. user[m] \in waiting' <=> user[m] \in waiting
    BY <1>c, <2>1
  <2>5. \A i \in 1 .. Len(sent[m]) : sent[m][i].what = "read" => (Reading(sent[m][i].by, m) => Reading(sent[m][i].by, m)')
    BY <1>c, <2>2, <2>3 DEF Reading
  <2> QED BY <2>0, <2>3, <2>4, <2>5 DEF Orderly, InTx
<1> QED BY <1>c, <1>3, <1>5, <1>6 DEF ConInv, InTx

\* The other steps are of one caller, and of one connection at most.
Msg == [by : Querier, what : Word]

LEMMA CallerKeeps ==
    ASSUME ConInv, NEW c \in Querier, NEW n \in Conn,
           UNCHANGED open, user' \in [Conn -> Querier \cup {Unused}],
           sent' \in [Conn -> Seq(Msg)],
           session' \in [Querier -> [on : Conn \cup {Unused}, next : Stage, reads : Nat]],
           \A m \in Conn \ {n} : user'[m] = user[m] /\ sent'[m] = sent[m] /\ user[m] # c,
           \A d \in Querier \ {c} : session'[d] = session[d] /\ (d \in waiting' <=> d \in waiting),
           c \notin waiting, \A d \in Querier \ {c} : InTx(d) /\ user[n] = d => user'[n] = d,
           Orderly(n)',
           InTx(c)' => session'[c].on \in Conn /\ user'[session'[c].on] = c,
           session'[c].next = "ledger" => session'[c].reads = 1,
           session'[c].next = "connect" => c \notin waiting'
    PROVE  ConInv'
<1>1. ConShapes'
  BY DEF ConInv, ConShapes, Msg
<1>2. ASSUME NEW m \in Conn \ {n} PROVE Orderly(m)'
  <2>1. Orderly(m) /\ user[m] \in Querier \cup {Unused} /\ sent[m] \in Seq(Msg)
    BY DEF ConInv, ConShapes, Msg
  <2>2. UNCHANGED <<user[m], sent[m], open>> /\ user[m] # c
    OBVIOUS
  <2>3. c # Unused
    BY ConnectionAssumption DEF Querier
  <2>4. user[m] # Unused => session'[user[m]] = session[user[m]] /\ (user[m] \in waiting' <=> user[m] \in waiting)
    BY <2>1, <2>2
  <2>5. ASSUME NEW i \in 1 .. Len(sent[m]), sent[m][i].what = "read" PROVE Reading(sent[m][i].by, m)'
    <3>1. Reading(sent[m][i].by, m)
      BY <2>1, <2>5 DEF Orderly
    <3>2. sent[m][i] \in Msg
      BY <2>1, ElementIs
    <3>3. sent[m][i].by \in Querier \ {c} /\ sent'[m] = sent[m]
      BY <3>1, <3>2, <2>2 DEF Msg, Reading
    <3> QED BY <3>1, <3>3 DEF Reading
  <2>6. ASSUME NEW i \in 1 .. Len(sent[m]), sent[m][i].what # "read" PROVE user[m] # Unused
    <3>1. sent[m][i].by = user[m]
      BY <2>1, <2>6 DEF Orderly
    <3>2. sent[m][i] \in Msg
      BY <2>1, ElementIs
    <3> QED BY <3>1, <3>2, ConnectionAssumption DEF Querier, Msg
  <2> QED BY <2>1, <2>2, <2>4, <2>5, <2>6 DEF Orderly, InTx
<1>3. ASSUME NEW d \in Querier \ {c}
      PROVE  /\ InTx(d)' => session'[d].on \in Conn /\ user'[session'[d].on] = d
             /\ session'[d].next = "ledger" => session'[d].reads = 1
             /\ session'[d].next = "connect" => d \notin waiting'
  BY DEF ConInv, InTx
<1> QED BY <1>1, <1>2, <1>3 DEF ConInv

LEMMA Appended == \A S : \A q \in Seq(S) : \A x \in S :
    /\ Append(q, x) \in Seq(S) /\ Len(Append(q, x)) = Len(q) + 1
    /\ Append(q, x)[Len(q) + 1] = x /\ \A i \in 1 .. Len(q) : Append(q, x)[i] = q[i]
  OBVIOUS

LEMMA SendIs ==
    ASSUME ConInv, NEW c \in Querier, NEW n \in Conn, NEW what \in Word, Send(c, n, what)
    PROVE  /\ sent' \in [Conn -> Seq(Msg)] /\ Len(sent[n]) \in Nat
           /\ sent'[n] \in Seq(Msg) /\ Len(sent'[n]) = Len(sent[n]) + 1
           /\ sent'[n][Len(sent[n]) + 1] = [by |-> c, what |-> what]
           /\ \A i \in 1 .. Len(sent[n]) : sent'[n][i] = sent[n][i]
           /\ \A m \in Conn \ {n} : sent'[m] = sent[m]
<1>1. sent \in [Conn -> Seq(Msg)] /\ sent[n] \in Seq(Msg)
  BY DEF ConInv, ConShapes, Msg
<1>2. [by |-> c, what |-> what] \in Msg
  BY DEF Msg
<1>3. sent' = [sent EXCEPT ![n] = Append(sent[n], [by |-> c, what |-> what])]
  BY DEF Send
<1>4. Append(sent[n], [by |-> c, what |-> what]) \in Seq(Msg)
  BY <1>1, <1>2, Appended
<1>5. sent'[n] = Append(sent[n], [by |-> c, what |-> what])
  BY <1>1, <1>3
<1>6. sent' \in [Conn -> Seq(Msg)] /\ \A m \in Conn \ {n} : sent'[m] = sent[m]
  BY <1>1, <1>3, <1>4
<1>7. Len(sent[n]) \in Nat
  BY <1>1
<1> QED BY <1>1, <1>2, <1>5, <1>6, <1>7, Appended

LEMMA ConnectKeeps ==
    ASSUME ConInv, NEW c \in Querier, NEW n \in Conn, Connect(c, n)
    PROVE  ConInv'
<1> DEFINE len == Len(sent[n])
<1>1. /\ session[c].next = "connect" /\ user[n] = Unused /\ c \notin waiting /\ ~open[n] /\ c # Unused
      /\ Orderly(n) /\ sent[n] \in Seq(Msg)
  <2>1. session[c].next = "connect" /\ user[n] = Unused
    BY DEF Connect
  <2>2. Orderly(n) /\ sent[n] \in Seq(Msg) /\ c \notin waiting
    BY <2>1 DEF ConInv, ConShapes, Msg
  <2> QED BY <2>1, <2>2, ConnectionAssumption DEF Orderly, Querier
<1>2. /\ user' = [user EXCEPT ![n] = c] /\ Send(c, n, "begin") /\ "begin" \in Word
      /\ session' = [session EXCEPT ![c] = [on |-> n, next |-> "work", reads |-> 0]]
      /\ waiting' = waiting \cup {c} /\ UNCHANGED open
  BY DEF Connect, After, Word
<1>3. /\ user \in [Conn -> Querier \cup {Unused}]
      /\ session \in [Querier -> [on : Conn \cup {Unused}, next : Stage, reads : Nat]]
  BY DEF ConInv, ConShapes
<1>4. /\ user' \in [Conn -> Querier \cup {Unused}] /\ user'[n] = c
      /\ session' \in [Querier -> [on : Conn \cup {Unused}, next : Stage, reads : Nat]]
      /\ session'[c] = [on |-> n, next |-> "work", reads |-> 0]
      /\ \A m \in Conn \ {n} : user'[m] = user[m]
      /\ \A d \in Querier \ {c} : session'[d] = session[d] /\ (d \in waiting' <=> d \in waiting)
  BY <1>2, <1>3 DEF Stage
<1>5. /\ sent' \in [Conn -> Seq(Msg)] /\ len \in Nat
      /\ Len(sent'[n]) = len + 1 /\ sent'[n][len + 1] = [by |-> c, what |-> "begin"]
      /\ \A i \in 1 .. len : sent'[n][i] = sent[n][i]
      /\ \A m \in Conn \ {n} : sent'[m] = sent[m]
  BY <1>2, SendIs
<1>6. len <= 1 /\ \A i \in 1 .. len : i = 1 /\ sent[n][i].what = "read" /\ Reading(sent[n][i].by, n)
  <2>1. ASSUME NEW i \in 1 .. len PROVE sent[n][i].what = "read"
    <3>1. sent[n][i] \in Msg
      BY <1>1, ElementIs
    <3> QED BY <1>1, <3>1, ConnectionAssumption DEF Orderly, Msg, Querier
  <2>2. ASSUME NEW i \in 1 .. len PROVE i = 1 /\ Reading(sent[n][i].by, n)
    BY <1>1, <2>1 DEF Orderly
  <2>3. len <= 1
    BY <2>2, <1>5
  <2> QED BY <2>1, <2>2, <2>3
<1>7. ASSUME NEW i \in 1 .. len PROVE Reading(sent[n][i].by, n)'
  <2>1. sent'[n][i] = sent[n][i] /\ Reading(sent[n][i].by, n) /\ sent[n][i].by # c
    BY <1>1, <1>5, <1>6 DEF Reading
  <2>2. sent[n][i] \in Msg
    BY <1>1, ElementIs
  <2>3. sent[n][i].by \in Querier \ {c}
    BY <2>1, <2>2 DEF Msg
  <2> QED BY <2>1, <2>3, <1>4 DEF Reading
<1> HIDE DEF len
<1>8. Orderly(n)'
  <2>1. ASSUME NEW i \in 1 .. Len(sent'[n])
        PROVE  IF sent'[n][i].what = "read"
               THEN i = 1 /\ ~open'[n] /\ Reading(sent[n][i].by, n)'
               ELSE /\ i = Len(sent'[n]) /\ sent'[n][i].by = user'[n] /\ user'[n] \in waiting'
                    /\ session'[user'[n]].next = After(sent'[n][i].what)
    <3>1. i \in 1 .. len \/ i = len + 1
      BY <1>5
    <3>2. CASE i \in 1 .. len
      BY <1>1, <1>2, <1>5, <1>6, <1>7, <3>2
    <3>3. CASE i = len + 1
      BY <1>2, <1>4, <1>5, <3>3 DEF After
    <3> QED BY <3>1, <3>2, <3>3
  <2>2. Len(sent'[n]) <= 2 /\ Len(sent'[n]) > 0 /\ sent'[n][Len(sent'[n])].what # "read"
    BY <1>5, <1>6
  <2>3. user'[n] # Unused /\ session'[user'[n]].on = n /\ session'[user'[n]].next = "work"
        /\ user'[n] \in waiting' /\ ~open'[n]
    BY <1>1, <1>2, <1>4
  <2>4. /\ user'[n] \in waiting' => Len(sent'[n]) > 0 /\ sent'[n][Len(sent'[n])].what # "read"
        /\ user'[n] \notin waiting' => sent'[n] = <<>>
    BY <2>2, <2>3
  <2>5. open'[n] <=> \/ session'[user'[n]].next = "work" /\ user'[n] \notin waiting'
                     \/ session'[user'[n]].next = "commit"
                     \/ session'[user'[n]].next = "finish" /\ user'[n] \in waiting'
    BY <2>3
  <2> QED BY <2>1, <2>2, <2>3, <2>4, <2>5 DEF Orderly, InTx
<1>9. ASSUME NEW m \in Conn \ {n} PROVE user[m] # c
  BY <1>1 DEF ConInv, Orderly, InTx
<1>10. InTx(c)' => session'[c].on \in Conn /\ user'[session'[c].on] = c
  BY <1>4
<1>11. \A d \in Querier \ {c} : user[n] # d
  BY <1>1, ConnectionAssumption DEF Querier
<1>12. session'[c].next = "work"
  BY <1>4
<1> QED BY <1>1, <1>2, <1>4, <1>5, <1>8, <1>9, <1>10, <1>11, <1>12, CallerKeeps

\* Between its statements a user has its connection to itself.
LEMMA UserIs ==
    ASSUME ConInv, NEW c \in Querier, InTx(c), c \notin waiting
    PROVE  /\ session[c].on \in Conn /\ user[session[c].on] = c /\ sent[session[c].on] = <<>>
           /\ (open[session[c].on] <=> session[c].next # "finish")
           /\ \A m \in Conn \ {session[c].on} : user[m] # c
<1>1. session[c].on \in Conn /\ user[session[c].on] = c /\ c # Unused
  BY ConnectionAssumption DEF ConInv, Querier
<1>2. Orderly(session[c].on)
  BY <1>1 DEF ConInv
<1>3. \A m \in Conn \ {session[c].on} : user[m] # c
  BY <1>1 DEF ConInv, Orderly
<1> QED BY <1>1, <1>2, <1>3 DEF Orderly, InTx

LEMMA StatementKeeps ==
    ASSUME ConInv, NEW c \in Querier, Statement(c) PROVE ConInv'
<1> PICK n : n = session[c].on
  OBVIOUS
<1> PICK what : what = session[c].next
  OBVIOUS
<1>1. /\ InTx(c) /\ c \notin waiting /\ c # Unused /\ what \in {"work", "commit"} /\ what \in Word
      /\ n \in Conn /\ user[n] = c /\ sent[n] = <<>> /\ open[n]
      /\ \A m \in Conn \ {n} : user[m] # c
  <2>1. what \in {"work", "commit"} /\ c \notin waiting /\ InTx(c)
    BY DEF Statement, InTx
  <2> QED BY <2>1, UserIs, ConnectionAssumption DEF Querier, Word
<1>2. /\ Send(c, n, what) /\ UNCHANGED <<user, open>> /\ waiting' = waiting \cup {c}
      /\ session' = [session EXCEPT ![c].next = After(what)]
  BY DEF Statement
<1>a. After(what) \in {"commit", "finish"} /\ After(what) \in Stage
  BY <1>1 DEF After, Stage
<1>3. /\ user \in [Conn -> Querier \cup {Unused}]
      /\ session \in [Querier -> [on : Conn \cup {Unused}, next : Stage, reads : Nat]]
  BY DEF ConInv, ConShapes
<1>4. /\ session' \in [Querier -> [on : Conn \cup {Unused}, next : Stage, reads : Nat]]
      /\ session'[c].on = n /\ session'[c].next = After(what)
      /\ \A d \in Querier \ {c} : session'[d] = session[d] /\ (d \in waiting' <=> d \in waiting)
  BY <1>a, <1>2, <1>3
<1>5. /\ sent' \in [Conn -> Seq(Msg)] /\ Len(sent'[n]) = 1
      /\ sent'[n][1] = [by |-> c, what |-> what]
      /\ \A m \in Conn \ {n} : sent'[m] = sent[m]
  <2>1. Len(sent[n]) = 0
    BY <1>1
  <2>a. Send(c, n, what) /\ what \in Word /\ n \in Conn
    BY <1>1, <1>2
  <2>2. /\ sent' \in [Conn -> Seq(Msg)] /\ Len(sent'[n]) = Len(sent[n]) + 1
        /\ sent'[n][Len(sent[n]) + 1] = [by |-> c, what |-> what]
        /\ \A m \in Conn \ {n} : sent'[m] = sent[m]
    BY <2>a, SendIs
  <2>3. Len(sent[n]) + 1 = 1
    BY <2>1
  <2> QED BY <2>2, <2>3
<1>6. Orderly(n)'
  <2>1. /\ user'[n] = c /\ c \in waiting' /\ open'[n]
    BY <1>1, <1>2
  <2>2. ASSUME NEW i \in 1 .. Len(sent'[n])
        PROVE  sent'[n][i].what # "read" /\ i = Len(sent'[n]) /\ sent'[n][i].by = c
               /\ session'[c].next = After(sent'[n][i].what)
    BY <1>1, <1>4, <1>5
  <2>3. Len(sent'[n]) <= 2 /\ Len(sent'[n]) > 0 /\ sent'[n][Len(sent'[n])].what # "read"
    BY <1>1, <1>5
  <2>4. session'[c].on = n /\ session'[c].next \in {"commit", "finish"}
    BY <1>a, <1>4
  <2> QED BY <1>1, <2>1, <2>2, <2>3, <2>4 DEF Orderly, InTx
<1>7. \A m \in Conn \ {n} : user'[m] = user[m] /\ sent'[m] = sent[m] /\ user[m] # c
  BY <1>1, <1>2, <1>5
<1>8. session'[c].on \in Conn /\ user'[session'[c].on] = c /\ session'[c].next \notin {"ledger", "connect"}
  BY <1>a, <1>1, <1>2, <1>4
<1> QED BY <1>1, <1>2, <1>3, <1>4, <1>5, <1>6, <1>7, <1>8, CallerKeeps

LEMMA GiveBackKeeps ==
    ASSUME ConInv, NEW c \in Querier, GiveBack(c) PROVE ConInv'
<1> PICK n : n = session[c].on
  OBVIOUS
<1>1. /\ InTx(c) /\ c \notin waiting /\ c # Unused /\ n \in Conn /\ user[n] = c /\ sent[n] = <<>>
      /\ ~open[n] /\ \A m \in Conn \ {n} : user[m] # c
  <2>1. session[c].next = "finish" /\ c \notin waiting /\ InTx(c)
    BY DEF GiveBack, InTx
  <2> QED BY <2>1, UserIs, ConnectionAssumption DEF Querier
<1>2. /\ user' = [user EXCEPT ![n] = Unused] /\ session' = [session EXCEPT ![c] = Out]
      /\ UNCHANGED <<sent, open, waiting>>
  BY DEF GiveBack
<1>3. /\ user \in [Conn -> Querier \cup {Unused}] /\ sent' \in [Conn -> Seq(Msg)]
      /\ session \in [Querier -> [on : Conn \cup {Unused}, next : Stage, reads : Nat]]
  BY <1>2 DEF ConInv, ConShapes, Msg
<1>4. /\ session' \in [Querier -> [on : Conn \cup {Unused}, next : Stage, reads : Nat]]
      /\ session'[c].next = "connect" /\ \A d \in Querier \ {c} : session'[d] = session[d]
      /\ user' \in [Conn -> Querier \cup {Unused}] /\ user'[n] = Unused
      /\ \A m \in Conn \ {n} : user'[m] = user[m]
  BY <1>1, <1>2, <1>3 DEF Out, Stage
<1>5. Orderly(n)'
  BY <1>1, <1>2, <1>4 DEF Orderly
<1> QED BY <1>1, <1>2, <1>3, <1>4, <1>5, CallerKeeps DEF InTx

LEMMA ReturnLedgerKeeps ==
    ASSUME ConInv, NEW c \in Querier, ReturnLedger(c) PROVE ConInv'
<1> PICK n : n = session[c].on
  OBVIOUS
<1>1. /\ InTx(c) /\ c \notin waiting /\ c # Unused /\ n \in Conn /\ user[n] = c /\ sent[n] = <<>>
      /\ ~open[n] /\ \A m \in Conn \ {n} : user[m] # c
  <2>1. session[c].next = "finish" /\ c \notin waiting /\ InTx(c)
    BY DEF ReturnLedger, InTx
  <2> QED BY <2>1, UserIs, ConnectionAssumption DEF Querier
<1>2. /\ user' = [user EXCEPT ![n] = Unused] /\ Send(c, n, "read") /\ "read" \in Word
      /\ session' = [session EXCEPT ![c].next = "ledger", ![c].reads = 1]
      /\ waiting' = waiting \cup {c} /\ UNCHANGED open
  BY DEF ReturnLedger, Word
<1>3. /\ user \in [Conn -> Querier \cup {Unused}]
      /\ session \in [Querier -> [on : Conn \cup {Unused}, next : Stage, reads : Nat]]
  BY DEF ConInv, ConShapes
<1>4. /\ session' \in [Querier -> [on : Conn \cup {Unused}, next : Stage, reads : Nat]]
      /\ session'[c].next = "ledger" /\ session'[c].reads = 1 /\ session'[c].on = n
      /\ \A d \in Querier \ {c} : session'[d] = session[d] /\ (d \in waiting' <=> d \in waiting)
      /\ user' \in [Conn -> Querier \cup {Unused}] /\ user'[n] = Unused
      /\ \A m \in Conn \ {n} : user'[m] = user[m]
  BY <1>1, <1>2, <1>3 DEF Stage
<1>5. /\ sent' \in [Conn -> Seq(Msg)] /\ Len(sent'[n]) = 1
      /\ sent'[n][1] = [by |-> c, what |-> "read"]
      /\ \A m \in Conn \ {n} : sent'[m] = sent[m]
  <2>1. Len(sent[n]) = 0
    BY <1>1
  <2>2. /\ sent' \in [Conn -> Seq(Msg)] /\ Len(sent'[n]) = Len(sent[n]) + 1
        /\ sent'[n][Len(sent[n]) + 1] = [by |-> c, what |-> "read"]
        /\ \A m \in Conn \ {n} : sent'[m] = sent[m]
    BY <1>1, <1>2, SendIs
  <2>3. Len(sent[n]) + 1 = 1
    BY <2>1
  <2> QED BY <2>2, <2>3
<1>6. Orderly(n)'
  <2>1. ASSUME NEW i \in 1 .. Len(sent'[n])
        PROVE  sent'[n][i].what = "read" /\ i = 1 /\ ~open'[n] /\ Reading(sent[n][i].by, n)'
    BY <1>1, <1>2, <1>4, <1>5 DEF Reading
  <2> QED BY <1>1, <1>2, <1>4, <1>5, <2>1 DEF Orderly
<1> QED BY <1>1, <1>2, <1>3, <1>4, <1>5, <1>6, CallerKeeps DEF InTx

LEMMA NextReadKeeps ==
    ASSUME ConInv, Claimed = 1, NEW c \in Querier, NextRead(c) PROVE ConInv'
<1>1. /\ c \notin waiting /\ session[c].next = "ledger" /\ session[c].reads = 1
      /\ session' = [session EXCEPT ![c] = Out] /\ UNCHANGED <<user, sent, open, waiting>>
  BY DEF ConInv, NextRead
<1>2. session \in [Querier -> [on : Conn \cup {Unused}, next : Stage, reads : Nat]]
  BY DEF ConInv, ConShapes
<1>3. /\ session' \in [Querier -> [on : Conn \cup {Unused}, next : Stage, reads : Nat]]
      /\ session'[c].next = "connect" /\ \A d \in Querier \ {c} : session'[d] = session[d]
  BY <1>1, <1>2 DEF Out, Stage
<1>4. ConShapes'
  BY <1>1, <1>3 DEF ConInv, ConShapes
<1>5. ASSUME NEW m \in Conn PROVE Orderly(m)'
  <2>1. Orderly(m) /\ user[m] \in Querier \cup {Unused} /\ sent[m] \in Seq(Msg)
    BY DEF ConInv, ConShapes, Msg
  <2>2. user[m] # c
    BY <1>1, <2>1, ConnectionAssumption DEF Orderly, InTx, Querier
  <2>3. ASSUME NEW i \in 1 .. Len(sent[m]), Reading(sent[m][i].by, m) PROVE Reading(sent[m][i].by, m)'
    <3>1. sent[m][i] \in Msg
      BY <2>1, ElementIs
    <3> QED BY <1>1, <1>3, <2>3, <3>1 DEF Reading, Msg
  <2>4. user[m] # Unused => session'[user[m]] = session[user[m]]
    BY <1>3, <2>1, <2>2
  <2>5. ASSUME NEW i \in 1 .. Len(sent[m]), sent[m][i].what # "read" PROVE user[m] # Unused
    <3>1. sent[m][i].by = user[m]
      BY <2>1, <2>5 DEF Orderly
    <3>2. sent[m][i] \in Msg
      BY <2>1, ElementIs
    <3> QED BY <3>1, <3>2, ConnectionAssumption DEF Querier, Msg
  <2> QED BY <1>1, <2>1, <2>3, <2>4, <2>5 DEF Orderly, InTx
<1>6. ASSUME NEW d \in Querier
      PROVE  /\ InTx(d)' => session'[d].on \in Conn /\ user'[session'[d].on] = d
             /\ session'[d].next = "ledger" => session'[d].reads = 1
             /\ session'[d].next = "connect" => d \notin waiting'
  BY <1>1, <1>3 DEF ConInv, InTx
<1> QED BY <1>4, <1>5, <1>6 DEF ConInv

\* claimRuns gives its connection back under its first ledger read; that read is over
\* before whoever has the connection next has begun.  (queue.ts claimRuns, readLedger:
\* of a claim that takes one run.  A second read has no such place in the queue.)
THEOREM LedgerIsOutside == ASSUME Claimed = 1 PROVE ConSpec => []LedgerReadOutsideTx
<1>1. ConInv /\ [ConNext]_conVars => ConInv'
  <2> SUFFICES ASSUME ConInv, [ConNext]_conVars PROVE ConInv'
    OBVIOUS
  <2>1. CASE ConNext
    BY <2>1, ServeKeeps, StatementKeeps, GiveBackKeeps, ReturnLedgerKeeps, NextReadKeeps,
       ConnectKeeps DEF ConNext
  <2>2. CASE UNCHANGED conVars
    <3>1. UNCHANGED <<user, sent, open, session, waiting>>
      BY <2>2 DEF conVars
    <3>2. ConShapes'
      BY <3>1 DEF ConInv, ConShapes
    <3>3. ASSUME NEW n \in Conn PROVE Orderly(n)'
      <4>1. Orderly(n)
        BY DEF ConInv
      <4> QED BY <3>1, <4>1 DEF Orderly, InTx, Reading
    <3> QED BY <3>1, <3>2, <3>3 DEF ConInv, InTx
  <2> QED BY <2>1, <2>2
<1>2. ConInv => LedgerReadOutsideTx
  <2> SUFFICES ASSUME ConInv, NEW n \in Conn, sent[n] # <<>>, Head(sent[n]).what = "read"
               PROVE  ~open[n]
    BY DEF LedgerReadOutsideTx
  <2>1. sent[n] \in Seq(Msg) /\ Orderly(n)
    BY DEF ConInv, ConShapes, Msg
  <2>2. Len(sent[n]) \in Nat \ {0} /\ Head(sent[n]) = sent[n][1]
    BY <2>1, SentIs
  <2>3. 1 \in 1 .. Len(sent[n])
    <3>1. \A k \in Nat \ {0} : 1 \in 1 .. k
      OBVIOUS
    <3> QED BY <2>2, <3>1
  <2> QED BY <2>1, <2>2, <2>3 DEF Orderly
<1> QED BY <1>1, <1>2, ConInvInit, PTL DEF ConSpec

----------------------------------------------------------------------------
\* SharedReads: for any probes and flights, and any length of life.

FlightRec == [of : Probe \cup {Stats}, work : {"connecting", "querying", "over"},
              answer : {"none", "query_failed", "timeout"}, owned : BOOLEAN, asOf : Nat]

ReadShapes ==
    /\ flight \in [Flight -> FlightRec] /\ now \in 0 .. MaxNow
    /\ cache \in [at : Nat, asOf : Nat] /\ told \in [last : Nat, newest : Nat]

\* One flight of a kind at a time, and no client on loan for an answer that was given.
SingleFlight ==
    \A f, g \in Flight : flight[f].work # "over" /\ flight[g].work # "over" /\ flight[f].of = flight[g].of
                        => f = g
LoanedWhileWaiting == \A f \in Flight : flight[f].owned => flight[f].answer = "none"

\* What is kept is the newest that was told; what a load read is not older.
NothingOlder ==
    /\ told.last = told.newest /\ told.newest <= now
    /\ cache.at # NoTime => cache.asOf = told.newest
    /\ \A f \in Flight : flight[f].of = Stats /\ flight[f].work # "over" /\ flight[f].asOf # NoTime
                         => told.newest <= flight[f].asOf /\ flight[f].asOf <= now

ReadInv == ReadShapes /\ SingleFlight /\ LoanedWhileWaiting /\ NothingOlder

LEMMA SettledIs == /\ Settled \in FlightRec /\ NoTime \in Nat /\ NoTime > MaxNow /\ Settled.work = "over"
                   /\ ~Settled.owned /\ Settled.asOf = NoTime /\ Settled.answer = "none"
  BY SharedReadsAssumption DEF Settled, FlightRec, NoTime

LEMMA ReadInvInit == ReadInit => ReadInv
<1> SUFFICES ASSUME ReadInit PROVE ReadInv
  OBVIOUS
<1>1. ReadShapes
  BY SettledIs, SharedReadsAssumption DEF ReadInit, ReadShapes
<1>2. SingleFlight /\ LoanedWhileWaiting
  BY SettledIs DEF ReadInit, SingleFlight, LoanedWhileWaiting
<1>3. NothingOlder
  BY SettledIs, SharedReadsAssumption DEF ReadInit, NothingOlder
<1> QED BY <1>1, <1>2, <1>3 DEF ReadInv

\* A step of one flight f, which becomes r.
LEMMA FlightKeeps ==
    ASSUME ReadInv, NEW f \in Flight, NEW r \in FlightRec, flight' = [flight EXCEPT ![f] = r],
           UNCHANGED <<now, cache, told>>,
           r.work # "over" => \/ flight[f].work # "over" /\ flight[f].of = r.of
                              \/ InFlight(r.of) = {},
           r.owned => r.answer = "none",
           r.of = Stats /\ r.work # "over" /\ r.asOf # NoTime => told.newest <= r.asOf /\ r.asOf <= now
    PROVE  ReadInv'
<1>1. /\ flight \in [Flight -> FlightRec] /\ flight' \in [Flight -> FlightRec] /\ flight'[f] = r
      /\ \A g \in Flight \ {f} : flight'[g] = flight[g]
  BY DEF ReadInv, ReadShapes
<1>2. ReadShapes'
  BY <1>1 DEF ReadInv, ReadShapes
<1>3. SingleFlight'
  BY <1>1 DEF ReadInv, SingleFlight, InFlight, Unsettled
<1>4. LoanedWhileWaiting'
  BY <1>1 DEF ReadInv, LoanedWhileWaiting
<1>5. NothingOlder'
  BY <1>1 DEF ReadInv, NothingOlder
<1> QED BY <1>2, <1>3, <1>4, <1>5 DEF ReadInv

LEMMA AskKeeps ==
    ASSUME ReadInv, (\E r \in Probe : AskProbe(r)) \/ AskTasks \/ TimePasses
    PROVE  ReadInv'
<1>1. ASSUME NEW r \in Probe \cup {Stats}, NEW work \in {"connecting", "querying"},
             BeginFlight(r, work), ProbeOnly
      PROVE  ReadInv'
  <2>1. PICK g \in Flight : flight' = [flight EXCEPT ![g] = [Settled EXCEPT !.of = r, !.work = work]]
    BY <1>1 DEF BeginFlight
  <2> DEFINE n == [Settled EXCEPT !.of = r, !.work = work]
  <2>2. n \in FlightRec /\ n.of = r /\ ~n.owned /\ n.asOf = NoTime
    BY SettledIs DEF FlightRec
  <2> HIDE DEF n
  <2> QED BY <1>1, <2>1, <2>2, FlightKeeps DEF BeginFlight, ProbeOnly, n
<1>2. ASSUME NEW r \in Probe, AskProbe(r) PROVE ReadInv'
  BY <1>1, <1>2 DEF AskProbe
<1>3. CASE AskTasks
  <2>1. CASE Fresh
    <3>1. told' = told /\ UNCHANGED <<flight, now, cache>>
      BY <1>3, <2>1 DEF AskTasks, Fresh, Tell, ReadInv, ReadShapes, NothingOlder
    <3> QED BY <3>1 DEF ReadInv, ReadShapes, SingleFlight, LoanedWhileWaiting, NothingOlder
  <2>2. CASE ~Fresh
    BY <1>1, <1>3, <2>2 DEF AskTasks
  <2> QED BY <2>1, <2>2
<1>4. CASE TimePasses
  <2>1. /\ now \in 0 .. MaxNow /\ now < MaxNow /\ now' = now + 1 /\ UNCHANGED <<flight, cache, told>>
        /\ MaxNow \in Nat
    BY <1>4, SharedReadsAssumption DEF TimePasses, ReadInv, ReadShapes
  <2>2. NothingOlder'
    BY <2>1, SettledIs DEF ReadInv, ReadShapes, FlightRec, NothingOlder
  <2> QED BY <2>1, <2>2 DEF ReadInv, ReadShapes, SingleFlight, LoanedWhileWaiting
<1> QED BY <1>2, <1>3, <1>4

LEMMA FlightStepKeeps ==
    ASSUME ReadInv, NEW f \in Flight,
           \/ Checkout(f) \/ CheckoutFails(f) \/ QuerySettles(f) \/ ClientError(f) \/ Deadline(f)
           \/ LoadReads(f) \/ LoadFails(f)
    PROVE  ReadInv'
<1>0. /\ flight \in [Flight -> FlightRec] /\ flight[f] \in FlightRec
      /\ flight[f].owned => flight[f].answer = "none"
      /\ flight[f].of = Stats /\ flight[f].work # "over" /\ flight[f].asOf # NoTime
                         => told.newest <= flight[f].asOf /\ flight[f].asOf <= now
      /\ now \in 0 .. MaxNow /\ told.newest <= now
  BY DEF ReadInv, ReadShapes, LoanedWhileWaiting, NothingOlder
<1>5. ASSUME flight' = [flight EXCEPT ![f] = Settled], ProbeOnly PROVE ReadInv'
  BY <1>5, SettledIs, FlightKeeps DEF ProbeOnly
<1>6. CASE Checkout(f)
  <2> DEFINE r == [flight[f] EXCEPT !.work = "querying", !.owned = TRUE]
  <2>1. CASE flight[f].answer = "none"
    <3>1. flight' = [flight EXCEPT ![f] = r] /\ ProbeOnly /\ flight[f].work = "connecting"
      BY <1>6, <2>1 DEF Checkout
    <3>2. /\ r \in FlightRec /\ r.of = flight[f].of /\ r.answer = "none" /\ r.asOf = flight[f].asOf
      BY <1>0, <2>1 DEF FlightRec
    <3> HIDE DEF r
    <3> QED BY <1>0, <3>1, <3>2, FlightKeeps DEF ProbeOnly
  <2>2. CASE flight[f].answer # "none"
    BY <1>5, <1>6, <2>2 DEF Checkout
  <2> QED BY <2>1, <2>2
<1>7. CASE CheckoutFails(f) \/ QuerySettles(f) \/ LoadFails(f)
  BY <1>5, <1>7 DEF CheckoutFails, QuerySettles, LoadFails
<1>8. CASE ClientError(f)
  <2> DEFINE r == [flight[f] EXCEPT !.answer = Answer(f, "query_failed"), !.owned = FALSE]
  <2>1. flight' = [flight EXCEPT ![f] = r] /\ ProbeOnly
    BY <1>0, <1>8 DEF ClientError
  <2>2. Answer(f, "query_failed") \in {"none", "query_failed", "timeout"}
    BY <1>0 DEF Answer, FlightRec
  <2>3. r \in FlightRec /\ ~r.owned /\ r.of = flight[f].of /\ r.work = flight[f].work /\ r.asOf = flight[f].asOf
    BY <1>0, <2>2 DEF FlightRec
  <2> HIDE DEF r
  <2> QED BY <1>0, <2>1, <2>3, FlightKeeps DEF ProbeOnly
<1>9. CASE Deadline(f)
  <2> DEFINE r == [flight[f] EXCEPT !.answer = "timeout", !.owned = FALSE]
  <2>1. flight' = [flight EXCEPT ![f] = r] /\ ProbeOnly
    BY <1>0, <1>9 DEF Deadline
  <2>2. r \in FlightRec /\ ~r.owned /\ r.of = flight[f].of /\ r.work = flight[f].work /\ r.asOf = flight[f].asOf
    BY <1>0 DEF FlightRec
  <2> HIDE DEF r
  <2> QED BY <1>0, <2>1, <2>2, FlightKeeps DEF ProbeOnly
<1>10. CASE LoadReads(f)
  <2> DEFINE r == [flight[f] EXCEPT !.asOf = now]
  <2>1. flight' = [flight EXCEPT ![f] = r] /\ ProbeOnly /\ flight[f].work = "querying"
    BY <1>0, <1>10 DEF LoadReads
  <2>2. /\ r \in FlightRec /\ r.owned = flight[f].owned /\ r.answer = flight[f].answer
        /\ r.of = flight[f].of /\ r.work = flight[f].work /\ r.asOf = now
    BY <1>0, SharedReadsAssumption DEF FlightRec
  <2>3. told.newest <= r.asOf /\ r.asOf <= now
    BY <1>0, <2>2, SharedReadsAssumption
  <2> HIDE DEF r
  <2> QED BY <2>3, <1>0, <2>1, <2>2, FlightKeeps DEF ProbeOnly
<1> QED BY <1>6, <1>7, <1>8, <1>9, <1>10

LEMMA LoadSettlesKeeps == ASSUME ReadInv, NEW f \in Flight, LoadSettles(f) PROVE ReadInv'
<1>1. /\ flight \in [Flight -> FlightRec] /\ flight[f].asOf \in Nat /\ told.newest \in Nat /\ now \in Nat
      /\ flight[f].of = Stats /\ flight[f].work # "over" /\ flight[f].asOf # NoTime
      /\ told.newest <= flight[f].asOf /\ flight[f].asOf <= now
  BY SharedReadsAssumption DEF LoadSettles, ReadInv, ReadShapes, NothingOlder, FlightRec
<1>2. /\ flight' = [flight EXCEPT ![f] = Settled] /\ cache' = [at |-> now, asOf |-> flight[f].asOf]
      /\ told' = [last |-> flight[f].asOf, newest |-> flight[f].asOf] /\ now' = now
  BY <1>1 DEF LoadSettles, Tell
<1>3. /\ flight' \in [Flight -> FlightRec] /\ flight'[f] = Settled
      /\ \A g \in Flight \ {f} : flight'[g] = flight[g]
  BY <1>1, <1>2, SettledIs
<1>4. ReadShapes'
  BY <1>1, <1>2, <1>3 DEF ReadInv, ReadShapes
<1>5. SingleFlight' /\ LoanedWhileWaiting'
  BY <1>3, SettledIs DEF ReadInv, SingleFlight, LoanedWhileWaiting
<1>6. ASSUME NEW g \in Flight PROVE ~(flight'[g].of = Stats /\ flight'[g].work # "over")
  BY <1>1, <1>3, SettledIs DEF ReadInv, SingleFlight
<1>7. NothingOlder'
  BY <1>1, <1>2, <1>6 DEF NothingOlder
<1> QED BY <1>4, <1>5, <1>7 DEF ReadInv

LEMMA ReadInvHolds == ReadInv => ReadsAreShared
<1> SUFFICES ASSUME ReadInv PROVE ReadsAreShared
  OBVIOUS
<1> DEFINE S == UNION {Unsettled(r) : r \in Probe}
           kind == [g \in S |-> flight[g].of]
<1>1. \A g \in S : g \in Flight /\ flight[g].of \in Probe /\ flight[g].work # "over"
  BY DEF Unsettled
<1>2. kind \in Injection(S, Probe)
  <2>1. kind \in [S -> Probe]
    BY <1>1
  <2>2. \A g, h \in S : kind[g] = kind[h] => g = h
    BY <1>1 DEF ReadInv, SingleFlight
  <2> HIDE DEF S, kind
  <2> QED BY <2>1, <2>2 DEF Injection, IsInjective
<1>3. IsFiniteSet(S) /\ Cardinality(S) <= Cardinality(Probe)
  <2> HIDE DEF S, kind
  <2> QED BY <1>2, SharedReadsAssumption, FS_Injection
<1>4. Cardinality(S) \in Nat /\ Cardinality(Probe) \in Nat
  <2> HIDE DEF S
  <2> QED BY <1>3, SharedReadsAssumption, FS_CardinalityType
<1>5. Cardinality(S) <= PoolMax
  <2> HIDE DEF S
  <2> QED BY <1>3, <1>4, SharedReadsAssumption
<1>6. \A f \in OnLoan : flight[f].answer = "none"
  BY DEF OnLoan, ReadInv, LoanedWhileWaiting
<1> QED BY <1>5, <1>6 DEF ReadsAreShared, ProbesFitThePool, StatsNeverGoBack, ReadInv, NothingOlder

\* However many ask and however long a query hangs: the probes fit their pool, and no
\* statistics are followed by older ones.  (db-probe.ts, dashboard.ts)
THEOREM SharedReadsHold == ReadSpec => []ReadsAreShared
<1>1. ReadInv /\ [ReadNext]_readVars => ReadInv'
  <2> SUFFICES ASSUME ReadInv, [ReadNext]_readVars PROVE ReadInv'
    OBVIOUS
  <2>1. CASE UNCHANGED readVars
    BY <2>1 DEF readVars, ReadInv, ReadShapes, SingleFlight, LoanedWhileWaiting, NothingOlder
  <2>2. CASE ReadNext
    BY <2>2, AskKeeps, FlightStepKeeps, LoadSettlesKeeps DEF ReadNext
  <2> QED BY <2>1, <2>2
<1> QED BY <1>1, ReadInvInit, ReadInvHolds, PTL DEF ReadSpec

----------------------------------------------------------------------------
\* RateLimit: for any callers, rates and capacity no more is granted than the
\* meter allows, and nobody is refused who has a token.

RateShapes ==
    /\ time \in Nat /\ clock \in Int /\ setBacks \in Nat
    /\ order \in Seq(Name) /\ refusal \in Seq(Name)
    /\ tokens \in [Name -> Nat] /\ refillAt \in [Name -> Int]
    /\ meter \in [Name -> Nat] /\ drainedAt \in [Name -> Nat]
    /\ forgot \subseteq Caller
    /\ \A x \in Name : tokens[x] <= Burst /\ drainedAt[x] <= time

\* The meter rises as the bucket empties, and drains no slower than it fills.
Unspent(x) == /\ meter[x] + tokens[x] <= Burst
              /\ clock - refillAt[x] <= time - drainedAt[x]
\* While the clock keeps real time the two are one.
InStep(x) == /\ meter[x] + tokens[x] = Burst
             /\ refillAt[x] = drainedAt[x]

Metering == \A x \in Name \ forgot :
    /\ Has(x) => Unspent(x)
    /\ ~Has(x) => meter[x] = 0
    /\ setBacks = 0 /\ Has(x) => InStep(x)

KeepsTime == setBacks = 0 => clock = time

\* The bucket that refused the last request is spent.
Refused == setBacks = 0 /\ Len(refusal) = 1 /\ refusal[1] \notin forgot =>
    /\ Has(refusal[1])
    /\ tokens[refusal[1]] = 0 /\ refillAt[refusal[1]] >= clock

RateInv == RateShapes /\ Metering /\ KeepsTime /\ Refused

LEMMA RateInvInit == RateInit => RateInv
<1> SUFFICES ASSUME RateInit PROVE RateInv
  OBVIOUS
<1> USE DEF RateInit
<1>1. RateShapes
  BY RateAssumption DEF RateShapes, None
<1>2. \A x : ~Has(x)
  BY DEF Has
<1>3. Metering /\ KeepsTime /\ Refused
  BY <1>2 DEF Metering, KeepsTime, Refused, None, Name
<1> QED
  BY <1>1, <1>3 DEF RateInv

----------------------------------------------------------------------------
\* A product does not fall when a factor rises.
LEMMA Monotone ==
    ASSUME NEW r \in Nat, NEW a \in Int, NEW b \in Int, a <= b
    PROVE  r * a <= r * b /\ r * a \in Int /\ r * b \in Int
<1>1. r * (b - a) \in Nat
  OBVIOUS
<1>2. r * (b - a) = r * b - r * a
  OBVIOUS
<1> QED
  BY <1>1, <1>2

\* At most one caller goes, and never the class's bucket.
LEMMA AtMostOne ==
    ASSUME NEW s \in Seq(Name)
    PROVE  Evicted(s) = {} \/ \E k \in DOMAIN s : Evicted(s) = {k} /\ s[k] \in Caller
<1>1. \A i, j \in OldestCaller(s) : i = j
  BY DEF OldestCaller
<1>2. \A k \in OldestCaller(s) : k \in DOMAIN s /\ s[k] \in Caller
  BY DEF OldestCaller
<1> QED
  BY <1>1, <1>2 DEF Evicted

\* What is left of a sequence is the sequence without what was taken out.
LEMMA WithoutNone ==
    ASSUME NEW s \in Seq(Name)
    PROVE  Without(s, {}) = s
  BY FS_EmptySet DEF Without
LEMMA WithoutOne ==
    ASSUME NEW s \in Seq(Name), NEW k \in DOMAIN s
    PROVE  /\ Without(s, {k}) \in Seq(Name)
           /\ \A i \in DOMAIN s \ {k} : \E j \in DOMAIN Without(s, {k}) : Without(s, {k})[j] = s[i]
           /\ \A j \in DOMAIN Without(s, {k}) : \E i \in DOMAIN s : Without(s, {k})[j] = s[i]
<1> DEFINE t == Without(s, {k})
<1>1. Cardinality({k}) = 1
  BY FS_Singleton
<1>2. Len(s) \in Nat /\ DOMAIN s = 1 .. Len(s) /\ k \in 1 .. Len(s) /\ \A i \in DOMAIN s : s[i] \in Name
  OBVIOUS
<1>3. t = [i \in 1 .. (Len(s) - 1) |-> IF k <= i THEN s[i + 1] ELSE s[i]]
  BY <1>1 DEF Without
<1> HIDE DEF t
<1>4. Len(s) - 1 \in Nat /\ \A i \in 1 .. (Len(s) - 1) : t[i] \in Name
  BY <1>2, <1>3
<1>5. t \in Seq(Name)
  BY <1>3, <1>4
<1>6. DOMAIN t = 1 .. (Len(s) - 1)
  BY <1>3
<1>7. ASSUME NEW i \in DOMAIN s \ {k} PROVE \E j \in DOMAIN t : t[j] = s[i]
  <2>0. i \in 1 .. Len(s) /\ i \in Int /\ k \in Int /\ i # k
    BY <1>2, <1>7
  <2>1. CASE i < k
    <3>1. i \in DOMAIN t
      BY <2>1, <1>2, <1>6
    <3> QED
      BY <3>1, <2>1, <1>2, <1>3, <1>6
  <2>2. CASE i > k
    <3>1. i - 1 \in DOMAIN t /\ k <= i - 1 /\ (i - 1) + 1 = i
      BY <2>2, <1>2, <1>6
    <3> QED
      BY <3>1, <1>3, <1>6
  <2> QED
    BY <2>0, <2>1, <2>2
<1>8. ASSUME NEW j \in DOMAIN t PROVE \E i \in DOMAIN s : t[j] = s[i]
  <2>1. j \in DOMAIN s /\ j + 1 \in DOMAIN s
    BY <1>2, <1>6
  <2> QED
    BY <2>1, <1>3, <1>6
<1> QED
  BY <1>5, <1>7, <1>8 DEF t

\* Which names have a bucket after a new one is made.
LEMMA AfterInsert ==
    ASSUME RateShapes, NEW x \in Name, ~Has(x), Consume(x)
    PROVE  /\ order' \in Seq(Name)
           /\ forgot' \subseteq Caller /\ forgot \subseteq forgot'
           /\ x \notin forgot' \ forgot
           /\ Has(x)'
           /\ \A y \in Name : Has(y)' => Has(y) \/ y = x
           /\ \A y \in Name : Has(y) => Has(y)' \/ y \in forgot'
<1> DEFINE t == Without(order, Evicted(order))
<1>1. /\ order' = Append(t, x)
      /\ forgot' = forgot \cup {order[i] : i \in Evicted(order)}
  BY DEF Consume
<1>2. order \in Seq(Name) /\ forgot \subseteq Caller
  BY DEF RateShapes
<1>3. /\ t \in Seq(Name)
      /\ \A i \in DOMAIN order \ Evicted(order) : \E j \in DOMAIN t : t[j] = order[i]
      /\ \A j \in DOMAIN t : \E i \in DOMAIN order : t[j] = order[i]
      /\ \A i \in Evicted(order) : i \in DOMAIN order /\ order[i] \in Caller
  <2>1. CASE Evicted(order) = {}
    <3>1. t = order
      BY <2>1, <1>2, WithoutNone
    <3> QED
      BY <2>1, <3>1, <1>2
  <2>2. ASSUME NEW k \in DOMAIN order, Evicted(order) = {k}, order[k] \in Caller
        PROVE  /\ t \in Seq(Name)
               /\ \A i \in DOMAIN order \ {k} : \E j \in DOMAIN t : t[j] = order[i]
               /\ \A j \in DOMAIN t : \E i \in DOMAIN order : t[j] = order[i]
    <3>1. t = Without(order, {k})
      BY <2>2
    <3> HIDE DEF t
    <3> QED
      BY <3>1, <1>2, WithoutOne
  <2> HIDE DEF t
  <2> QED
    BY <2>1, <2>2, <1>2, AtMostOne
<1> HIDE DEF t
<1>4. /\ order' \in Seq(Name)
      /\ DOMAIN order' = 1 .. (Len(t) + 1) /\ DOMAIN t = 1 .. Len(t) /\ Len(t) \in Nat
      /\ order'[Len(t) + 1] = x
      /\ \A j \in DOMAIN t : order'[j] = t[j]
  BY <1>1, <1>3
<1>5. Has(x)'
  BY <1>4 DEF Has
<1>6. ASSUME NEW y \in Name, Has(y)' PROVE Has(y) \/ y = x
  <2>1. PICK i \in DOMAIN order' : order'[i] = y
    BY <1>6 DEF Has
  <2>2. i \in DOMAIN t \/ i = Len(t) + 1
    BY <1>4
  <2> QED
    BY <2>1, <2>2, <1>3, <1>4 DEF Has
<1>7. ASSUME NEW y \in Name, Has(y) PROVE Has(y)' \/ y \in forgot'
  <2>1. PICK i \in DOMAIN order : order[i] = y
    BY <1>7 DEF Has
  <2>2. CASE i \in Evicted(order)
    BY <2>1, <2>2, <1>1
  <2>3. CASE i \notin Evicted(order)
    <3>1. PICK j \in DOMAIN t : t[j] = y
      BY <2>1, <2>3, <1>3
    <3>2. j \in DOMAIN order'
      BY <1>4
    <3> QED
      BY <3>1, <3>2, <1>4 DEF Has
  <2> QED
    BY <2>2, <2>3
<1>8. x \notin forgot' \ forgot
  BY <1>1, <1>3 DEF Has
<1> QED
  BY <1>1, <1>2, <1>3, <1>4, <1>5, <1>6, <1>7, <1>8

\* A bucket that is there refuses only when it is empty and no time has passed.
LEMMA RefusedIsSpent ==
    ASSUME RateShapes, NEW x \in Name, ~Granted(x)
    PROVE  Has(x) /\ tokens[x] = 0 /\ clock <= refillAt[x] /\ Refilled(x) = 0
<1>1. /\ clock \in Int /\ tokens[x] \in Nat /\ refillAt[x] \in Int /\ tokens[x] <= Burst
      /\ Rate[x] \in Nat \ {0} /\ Burst \in Nat \ {0}
  BY RateAssumption DEF RateShapes, Name
<1>2. Has(x) /\ ~(Refilled(x) >= 1)
  BY DEF Granted
<1>3. CASE clock > refillAt[x]
  <2> DEFINE e == clock - refillAt[x]
             r == Rate[x]
  <2>1. e \in Int /\ 1 <= e /\ r \in Nat \ {0}
    BY <1>1, <1>3
  <2> HIDE DEF e, r
  <2>2. r * 1 <= r * e /\ e * r = r * e /\ r * 1 = r /\ r * e \in Int
    BY <2>1, Monotone
  <2>3. tokens[x] + e * r >= 1
    BY <1>1, <2>1, <2>2
  <2>4. Refilled(x) = Least(Burst, tokens[x] + e * r)
    BY <1>3 DEF Refilled, e, r
  <2> QED
    BY <2>3, <2>4, <1>1, <1>2, <2>2 DEF Least
<1>4. CASE clock <= refillAt[x]
  BY <1>1, <1>2, <1>4 DEF Refilled
<1> QED
  BY <1>1, <1>2, <1>3, <1>4

\* What a bucket refills to, beside what its meter drains to.
LEMMA RefillAndDrain ==
    ASSUME RateShapes, NEW x \in Name
    PROVE  /\ Refilled(x) \in Nat /\ Refilled(x) <= Burst /\ Level(x) \in Nat
           /\ Unspent(x) => Level(x) + Refilled(x) <= Burst
           /\ Unspent(x) /\ InStep(x) /\ clock = time => Level(x) + Refilled(x) = Burst
<1>1. /\ clock \in Int /\ time \in Nat /\ tokens[x] \in Nat /\ refillAt[x] \in Int
      /\ meter[x] \in Nat /\ drainedAt[x] \in Nat
      /\ Rate[x] \in Nat \ {0} /\ Burst \in Nat \ {0}
      /\ drainedAt[x] <= time /\ tokens[x] <= Burst
  BY RateAssumption DEF RateShapes, Name
<1> DEFINE r == Rate[x]
           e == clock - refillAt[x]
           d == time - drainedAt[x]
<1>2. e \in Int /\ d \in Nat /\ r \in Nat \ {0} /\ 0 <= d
  BY <1>1
<1>3. clock > refillAt[x] <=> 0 < e
  BY <1>1
<1>4. /\ Refilled(x) = IF clock > refillAt[x] THEN Least(Burst, tokens[x] + e * r) ELSE tokens[x]
      /\ Level(x) = Positive(meter[x] - r * d)
  BY DEF Refilled, Level
<1>5. /\ Unspent(x) <=> meter[x] + tokens[x] <= Burst /\ e <= d
      /\ InStep(x) <=> meter[x] + tokens[x] = Burst /\ refillAt[x] = drainedAt[x]
  BY DEF Unspent, InStep
<1>6. clock = time /\ refillAt[x] = drainedAt[x] => e = d
  OBVIOUS
<1> HIDE DEF e, d, r
<1>7. e * r = r * e /\ r * 0 = 0 /\ r * e \in Int /\ r * d \in Nat
  BY <1>2
<1>8. /\ 0 <= e => 0 <= r * e
      /\ e <= d => r * e <= r * d
      /\ e <= 0 => r * e <= 0
      /\ e = d => r * e = r * d
  BY <1>2, <1>7, Monotone
<1> DEFINE re == r * e
           rd == r * d
<1>9. /\ Refilled(x) = IF 0 < e THEN Least(Burst, tokens[x] + re) ELSE tokens[x]
      /\ Level(x) = Positive(meter[x] - rd)
  BY <1>3, <1>4, <1>7
<1>10. /\ re \in Int /\ rd \in Nat /\ (0 <= e => 0 <= re) /\ (e <= d => re <= rd)
       /\ (e = d => re = rd) /\ (e <= 0 => re <= 0)
  BY <1>7, <1>8
<1> HIDE DEF re, rd
<1>11. Refilled(x) \in Nat /\ Refilled(x) <= Burst /\ Level(x) \in Nat
  BY <1>1, <1>2, <1>9, <1>10 DEF Least, Positive
<1>12. Unspent(x) => Level(x) + Refilled(x) <= Burst
  BY <1>1, <1>2, <1>5, <1>9, <1>10 DEF Least, Positive
<1>13. Unspent(x) /\ InStep(x) /\ clock = time => Level(x) + Refilled(x) = Burst
  BY <1>1, <1>2, <1>5, <1>6, <1>9, <1>10 DEF Least, Positive
<1> QED
  BY <1>11, <1>12, <1>13

\* Drawing from a bucket, and metering what it grants, keeps bucket and meter abreast.
LEMMA DrawKeeps ==
    ASSUME RateInv, NEW x \in Name, Consume(x), Metered(x),
           UNCHANGED <<time, clock, setBacks>>, refusal' \in Seq(Name)
    PROVE  /\ RateShapes' /\ Metering' /\ KeepsTime'
           /\ ~Granted(x) /\ x \notin forgot' /\ setBacks = 0 =>
                 Has(x)' /\ tokens'[x] = 0 /\ refillAt'[x] >= clock
<1> USE DEF RateInv
<1>1. /\ clock \in Int /\ time \in Nat /\ setBacks \in Nat
      /\ order \in Seq(Name) /\ forgot \subseteq Caller
      /\ tokens \in [Name -> Nat] /\ refillAt \in [Name -> Int]
      /\ meter \in [Name -> Nat] /\ drainedAt \in [Name -> Nat]
      /\ Burst \in Nat \ {0}
      /\ \A y \in Name : tokens[y] <= Burst /\ drainedAt[y] <= time
  BY RateAssumption DEF RateShapes
<1>2. /\ Refilled(x) \in Nat /\ Refilled(x) <= Burst /\ Level(x) \in Nat
      /\ Unspent(x) => Level(x) + Refilled(x) <= Burst
      /\ Unspent(x) /\ InStep(x) /\ clock = time => Level(x) + Refilled(x) = Burst
  BY RefillAndDrain
<1>3. /\ time' = time /\ clock' = clock /\ setBacks' = setBacks
  OBVIOUS
<1>4. x \in forgot \cap Caller <=> x \in forgot
  BY <1>1
<1>5. CASE Has(x) /\ Granted(x)
  <2>1. /\ tokens' = [tokens EXCEPT ![x] = Refilled(x) - 1]
        /\ refillAt' = [refillAt EXCEPT ![x] = IF clock > @ THEN clock ELSE @]
        /\ order' = order /\ forgot' = forgot
    BY <1>5 DEF Consume
  <2>2. Refilled(x) >= 1
    BY <1>5 DEF Granted
  <2>3. \A y : Has(y)' <=> Has(y)
    BY <2>1 DEF Has
  <2>4. /\ tokens' \in [Name -> Nat] /\ refillAt' \in [Name -> Int]
        /\ tokens'[x] = Refilled(x) - 1 /\ refillAt'[x] >= clock
        /\ clock >= refillAt[x] => refillAt'[x] = clock
        /\ \A y \in Name \ {x} : tokens'[y] = tokens[y] /\ refillAt'[y] = refillAt[y]
    BY <2>1, <2>2, <1>1, <1>2
  <2>5. CASE x \in forgot
    <3>1. meter' = meter /\ drainedAt' = drainedAt
      BY <2>5, <1>4 DEF Metered
    <3>2. RateShapes'
      <4>1. ASSUME NEW y \in Name PROVE tokens'[y] <= Burst
        <5>1. Refilled(x) - 1 <= Burst
          BY <1>1, <1>2
        <5>2. tokens'[y] = Refilled(x) - 1 \/ tokens'[y] = tokens[y]
          BY <2>4
        <5> QED
          BY <5>1, <5>2, <1>1
      <4> QED
        BY <1>1, <1>3, <2>1, <2>4, <3>1, <4>1 DEF RateShapes
    <3>3. Metering'
      BY <2>1, <2>3, <2>4, <2>5, <3>1, <1>3 DEF Metering, Unspent, InStep
    <3> QED
      BY <3>2, <3>3, <1>3, <1>5 DEF KeepsTime
  <2>6. CASE x \notin forgot
    <3>1. /\ meter' = [meter EXCEPT ![x] = Level(x) + 1]
          /\ drainedAt' = [drainedAt EXCEPT ![x] = time]
      BY <2>6, <1>5 DEF Metered
    <3>2. /\ meter' \in [Name -> Nat] /\ drainedAt' \in [Name -> Nat]
          /\ meter'[x] = Level(x) + 1 /\ drainedAt'[x] = time
          /\ \A y \in Name \ {x} : meter'[y] = meter[y] /\ drainedAt'[y] = drainedAt[y]
      BY <3>1, <1>1, <1>2
    <3>3. RateShapes'
      <4>1. \A y \in Name : tokens'[y] <= Burst /\ drainedAt'[y] <= time
        <5> TAKE y \in Name
        <5>1. CASE y = x
          BY <5>1, <1>1, <1>2, <2>4, <3>2
        <5>2. CASE y # x
          BY <5>2, <1>1, <2>4, <3>2
        <5> QED
          BY <5>1, <5>2
      <4> QED
        BY <1>1, <1>3, <2>1, <2>4, <3>2, <4>1 DEF RateShapes
    <3>4. Unspent(x) /\ (setBacks = 0 => InStep(x))
      BY <2>6, <1>5 DEF Metering
    <3>5. Unspent(x)'
      <4>1. meter'[x] + tokens'[x] = Level(x) + Refilled(x)
        BY <1>2, <2>4, <3>2
      <4>2. refillAt'[x] \in Int
        BY <2>4
      <4>3. clock' - refillAt'[x] <= time' - drainedAt'[x]
        BY <4>2, <1>1, <1>3, <2>4, <3>2
      <4> QED
        BY <4>1, <4>3, <3>4, <1>2 DEF Unspent
    <3>6. setBacks = 0 => InStep(x)'
      <4>1. SUFFICES ASSUME setBacks = 0 PROVE InStep(x)'
        OBVIOUS
      <4>2. clock = time
        BY <4>1 DEF KeepsTime
      <4>3. clock >= refillAt[x]
        BY <4>1, <4>2, <3>4, <1>1 DEF InStep
      <4> QED
        BY <4>1, <4>2, <4>3, <3>4, <3>2, <2>4, <1>1, <1>2, <1>3 DEF InStep
    <3>7. \A y \in Name \ {x} : (Unspent(y)' <=> Unspent(y)) /\ (InStep(y)' <=> InStep(y))
      BY <1>3, <2>4, <3>2 DEF Unspent, InStep
    <3>8. Metering'
      BY <1>3, <1>5, <2>1, <2>3, <3>2, <3>5, <3>6, <3>7 DEF Metering
    <3> QED
      BY <3>3, <3>8, <1>3, <1>5 DEF KeepsTime
  <2> QED
    BY <2>5, <2>6
<1>6. CASE ~Granted(x)
  <2>1. Has(x) /\ tokens[x] = 0 /\ clock <= refillAt[x] /\ Refilled(x) = 0
    BY <1>6, RefusedIsSpent
  <2>2. /\ tokens' = tokens /\ refillAt' = refillAt
        /\ order' = order /\ forgot' = forgot
    <3>1. /\ tokens' = [tokens EXCEPT ![x] = Refilled(x) - 0]
          /\ refillAt' = [refillAt EXCEPT ![x] = IF clock > @ THEN clock ELSE @]
          /\ order' = order /\ forgot' = forgot
      BY <1>6, <2>1 DEF Consume
    <3>2. Refilled(x) - 0 = tokens[x] /\ ~(clock > refillAt[x])
      BY <2>1, <1>1
    <3> QED
      BY <3>1, <3>2, <1>1
  <2>3. meter' = meter /\ drainedAt' = drainedAt
    BY <1>6 DEF Metered
  <2>4. \A y : Has(y)' <=> Has(y)
    BY <2>2 DEF Has
  <2>5. RateShapes'
    BY <1>1, <1>3, <2>2, <2>3 DEF RateShapes
  <2>6. Metering' /\ KeepsTime'
    BY <1>3, <2>2, <2>3, <2>4 DEF Metering, KeepsTime, Unspent, InStep
  <2> QED
    BY <1>1, <2>1, <2>2, <2>4, <2>5, <2>6
<1>7. CASE ~Has(x)
  <2>1. Granted(x)
    BY <1>7 DEF Granted
  <2>2. /\ tokens' = [tokens EXCEPT ![x] = Burst - 1]
        /\ refillAt' = [refillAt EXCEPT ![x] = clock]
    BY <1>7 DEF Consume
  <2>3. /\ order' \in Seq(Name)
        /\ forgot' \subseteq Caller /\ forgot \subseteq forgot'
        /\ x \notin forgot' \ forgot
        /\ Has(x)'
        /\ \A y \in Name : Has(y)' => Has(y) \/ y = x
        /\ \A y \in Name : Has(y) => Has(y)' \/ y \in forgot'
    BY <1>7, AfterInsert
  <2>4. /\ tokens' \in [Name -> Nat] /\ refillAt' \in [Name -> Int]
        /\ tokens'[x] = Burst - 1 /\ refillAt'[x] = clock
        /\ \A y \in Name \ {x} : tokens'[y] = tokens[y] /\ refillAt'[y] = refillAt[y]
    BY <2>2, <1>1
  <2>5. /\ meter' \in [Name -> Nat] /\ drainedAt' \in [Name -> Nat]
        /\ x \in forgot => meter' = meter /\ drainedAt' = drainedAt
        /\ x \notin forgot => meter'[x] = Level(x) + 1 /\ drainedAt'[x] = time
        /\ \A y \in Name \ {x} : meter'[y] = meter[y] /\ drainedAt'[y] = drainedAt[y]
    <3>1. CASE x \in forgot
      BY <3>1, <1>1, <1>4 DEF Metered
    <3>2. CASE x \notin forgot
      <4>1. /\ meter' = [meter EXCEPT ![x] = Level(x) + 1]
            /\ drainedAt' = [drainedAt EXCEPT ![x] = time]
        BY <3>2, <2>1 DEF Metered
      <4> QED
        BY <4>1, <3>2, <1>1, <1>2
    <3> QED
      BY <3>1, <3>2
  <2>6. RateShapes'
    <3>1. \A y \in Name : tokens'[y] <= Burst /\ drainedAt'[y] <= time
      <4> TAKE y \in Name
      <4>1. CASE y = x
        BY <4>1, <1>1, <2>4, <2>5
      <4>2. CASE y # x
        BY <4>2, <1>1, <2>4, <2>5
      <4> QED
        BY <4>1, <4>2
    <3> QED
      BY <1>1, <1>3, <2>3, <2>4, <2>5, <3>1 DEF RateShapes
  <2>7. x \notin forgot => meter'[x] = 1
    <3>1. SUFFICES ASSUME x \notin forgot PROVE meter'[x] = 1
      OBVIOUS
    <3>2. meter[x] = 0
      BY <3>1, <1>7 DEF Metering
    <3>3. Rate[x] * (time - drainedAt[x]) \in Nat
      <4>1. Rate[x] \in Nat /\ time - drainedAt[x] \in Nat
        BY <1>1, RateAssumption DEF Name
      <4>2. \A m, n \in Nat : m * n \in Nat
        OBVIOUS
      <4> QED
        BY <4>1, <4>2
    <3>4. Level(x) = 0
      BY <3>2, <3>3 DEF Level, Positive
    <3> QED
      BY <3>1, <3>4, <2>5
  <2>8. x \notin forgot => Unspent(x)' /\ (setBacks = 0 => InStep(x)')
    <3> SUFFICES ASSUME x \notin forgot PROVE Unspent(x)' /\ (setBacks = 0 => InStep(x)')
      OBVIOUS
    <3>1. /\ meter'[x] = 1 /\ tokens'[x] = Burst - 1 /\ refillAt'[x] = clock
          /\ drainedAt'[x] = time
      BY <2>4, <2>5, <2>7
    <3>2. setBacks = 0 => clock = time
      BY DEF KeepsTime
    <3>3. /\ meter'[x] + tokens'[x] = Burst /\ clock' = clock /\ time' = time
          /\ clock' - refillAt'[x] = 0 /\ time' - drainedAt'[x] = 0
      <4>1. clock' = clock /\ time' = time
        OBVIOUS
      <4>2. Burst \in Nat /\ clock \in Int /\ time \in Nat
        BY <1>1
      <4>3. 1 + (Burst - 1) = Burst /\ clock - clock = 0 /\ time - time = 0
        BY <4>2
      <4> QED
        BY <3>1, <4>1, <4>3
    <3>4. Unspent(x)'
      BY <3>3, <1>1 DEF Unspent
    <3>5. setBacks = 0 => InStep(x)'
      BY <3>1, <3>2, <3>3 DEF InStep
    <3> QED
      BY <3>4, <3>5
  <2>9. \A y \in Name \ {x} : (Unspent(y)' <=> Unspent(y)) /\ (InStep(y)' <=> InStep(y))
    BY <1>3, <2>4, <2>5 DEF Unspent, InStep
  <2>10. Metering'
    <3>1. ASSUME NEW y \in Name, y \notin forgot'
          PROVE  /\ Has(y)' => Unspent(y)'
                 /\ ~Has(y)' => meter'[y] = 0
                 /\ setBacks = 0 /\ Has(y)' => InStep(y)'
      <4>1. y \notin forgot
        BY <3>1, <2>3
      <4>2. CASE y = x
        BY <4>1, <4>2, <2>3, <2>8
      <4>3. CASE y # x
        BY <3>1, <4>1, <4>3, <2>3, <2>5, <2>9 DEF Metering
      <4> QED
        BY <4>2, <4>3
    <3> QED
      BY <3>1, <1>3 DEF Metering
  <2> QED
    BY <2>1, <2>6, <2>10, <1>3 DEF KeepsTime
<1> QED
  BY <1>5, <1>6, <1>7

LEMMA RateInvNext == RateInv /\ [RateNext]_rateVars => RateInv'
<1> SUFFICES ASSUME RateInv, [RateNext]_rateVars PROVE RateInv'
  OBVIOUS
<1>1. /\ RateShapes /\ Metering /\ KeepsTime /\ Refused
      /\ clock \in Int /\ time \in Nat /\ setBacks \in Nat /\ refusal \in Seq(Name)
  BY DEF RateInv, RateShapes
<1>2. ASSUME NEW x \in Name, NEW s \in Seq(Name), Consume(x), Metered(x),
             UNCHANGED <<time, clock, setBacks>>,
             refusal' = IF Granted(x) THEN s ELSE <<x>>, Len(s) # 1
      PROVE  RateInv'
  <2>1. refusal' \in Seq(Name)
    BY <1>2
  <2>2. /\ RateShapes' /\ Metering' /\ KeepsTime'
        /\ ~Granted(x) /\ x \notin forgot' /\ setBacks = 0 =>
              Has(x)' /\ tokens'[x] = 0 /\ refillAt'[x] >= clock
    BY <1>2, <2>1, DrawKeeps
  <2>3. Len(refusal') = 1 => ~Granted(x) /\ refusal'[1] = x
    BY <1>2
  <2>4. Refused'
    BY <1>2, <2>2, <2>3 DEF Refused
  <2> QED
    BY <2>2, <2>4 DEF RateInv
<1>3. ASSUME NEW c \in Caller, Draw(c) PROVE RateInv'
  <2>1. c \in Name /\ <<c, Shared>> \in Seq(Name) /\ Len(<<c, Shared>>) # 1
    BY DEF Name
  <2> QED
    BY <1>2, <1>3, <2>1 DEF Draw
<1>4. CASE DrawShared
  <2>1. Shared \in Name /\ None \in Seq(Name) /\ Len(None) # 1
    BY DEF Name, None
  <2> QED
    BY <1>2, <1>4, <2>1 DEF DrawShared
<1>5. CASE Tick \/ SetBack
  <2>1. /\ order' = order /\ tokens' = tokens /\ refillAt' = refillAt /\ meter' = meter
        /\ drainedAt' = drainedAt /\ forgot' = forgot /\ refusal' = <<>>
        /\ \/ time' = time + 1 /\ clock' = clock + 1 /\ setBacks' = setBacks
           \/ time' = time /\ clock' = clock - 1 /\ setBacks' = setBacks + 1
    BY <1>5 DEF Tick, SetBack, None
  <2>2. \A y : Has(y)' <=> Has(y)
    BY <2>1 DEF Has
  <2>3. RateShapes'
    BY <1>1, <2>1 DEF RateShapes
  <2>4. KeepsTime' /\ Refused'
    BY <1>1, <2>1 DEF KeepsTime, Refused
  <2>5. \A y \in Name : /\ refillAt[y] \in Int /\ drainedAt[y] \in Nat
                        /\ meter[y] \in Nat /\ tokens[y] \in Nat
    BY <1>1 DEF RateShapes
  <2>6. ASSUME NEW y \in Name, Unspent(y) PROVE Unspent(y)'
    <3>1. /\ clock \in Int /\ time \in Nat /\ refillAt[y] \in Int /\ drainedAt[y] \in Nat
          /\ clock - refillAt[y] <= time - drainedAt[y] /\ meter[y] + tokens[y] <= Burst
      BY <1>1, <2>5, <2>6 DEF Unspent, RateShapes
    <3>2. clock' - refillAt[y] <= time' - drainedAt[y]
      <4>1. /\ (clock + 1) - refillAt[y] <= (time + 1) - drainedAt[y]
            /\ (clock - 1) - refillAt[y] <= time - drainedAt[y]
        BY <3>1
      <4>2. (time' = time + 1 /\ clock' = clock + 1) \/ (time' = time /\ clock' = clock - 1)
        BY <2>1
      <4> QED
        BY <4>1, <4>2
    <3> QED
      BY <3>1, <3>2, <2>1 DEF Unspent
  <2>7. \A y \in Name : InStep(y) => InStep(y)'
    BY <2>1 DEF InStep
  <2>8. setBacks' = 0 => setBacks = 0
    BY <1>1, <2>1
  <2>9. Metering'
    BY <1>1, <2>1, <2>2, <2>6, <2>7, <2>8 DEF Metering
  <2> QED
    BY <2>3, <2>4, <2>9 DEF RateInv
<1>6. CASE UNCHANGED rateVars
  BY <1>1, <1>6 DEF rateVars, RateInv, RateShapes, Metering, KeepsTime, Refused, Has, Unspent, InStep
<1> QED
  BY <1>3, <1>4, <1>5, <1>6 DEF RateNext

\* Over any stretch of time a caller is granted no more than its burst and its rate
\* while it keeps its bucket, and the class never; and only a spent bucket refuses
\* unless the clock was set back (rate-limit.ts consume).
THEOREM RateIsHeld == RateSpec => []RateHeld
<1>1. RateInv => RateHeld
  <2> SUFFICES ASSUME RateInv PROVE RateHeld
    OBVIOUS
  <2>1. RateShapes /\ Metering /\ KeepsTime /\ Refused
    BY DEF RateInv
  <2>2. /\ time \in Nat /\ clock \in Int /\ refusal \in Seq(Name) /\ Burst \in Nat \ {0}
        /\ Shared \notin forgot
        /\ \A x \in Name : /\ meter[x] \in Nat /\ tokens[x] \in Nat
                            /\ drainedAt[x] \in Nat /\ refillAt[x] \in Int
                            /\ drainedAt[x] <= time
    <3>1. time \in Nat /\ clock \in Int /\ refusal \in Seq(Name) /\ Burst \in Nat \ {0}
      BY <2>1, RateAssumption DEF RateShapes
    <3>2. Shared \notin forgot
      BY <2>1, RateAssumption DEF RateShapes
    <3>3. \A x \in Name : /\ meter[x] \in Nat /\ tokens[x] \in Nat
                           /\ drainedAt[x] \in Nat /\ refillAt[x] \in Int
                           /\ drainedAt[x] <= time
      BY <2>1 DEF RateShapes
    <3> QED
      BY <3>1, <3>2, <3>3
  <2>3. ASSUME NEW x \in Name, x = Shared \/ x \notin forgot PROVE meter[x] <= Burst
    <3>1. x \in Name \ forgot
      BY <2>2, <2>3
    <3>2. meter[x] = 0 \/ meter[x] + tokens[x] <= Burst
      BY <3>1, <2>1 DEF Metering, Unspent
    <3> QED
      BY <3>2, <2>2
  <2>4. ASSUME setBacks = 0, Len(refusal) = 1, refusal[1] \notin forgot
        PROVE  Level(refusal[1]) + 1 > Burst
    <3>1. PICK x : x = refusal[1]
      OBVIOUS
    <3>2. x \in Name \ forgot
      <4>1. 1 \in DOMAIN refusal
        BY <2>2, <2>4
      <4>2. refusal[1] \in Name
        BY <4>1, <2>2
      <4> QED
        BY <4>2, <3>1, <2>4
    <3>3. Has(x) /\ tokens[x] = 0 /\ refillAt[x] >= clock
      BY <3>1, <2>1, <2>4 DEF Refused
    <3>4. InStep(x) /\ clock = time
      BY <3>2, <3>3, <2>1, <2>4 DEF Metering, KeepsTime
    <3>5. meter[x] = Burst /\ time - drainedAt[x] = 0
      BY <3>2, <3>3, <3>4, <2>2 DEF InStep
    <3>6. Rate[x] * 0 = 0
      BY <3>2, RateAssumption DEF Name
    <3>7. Level(x) = Burst
      BY <3>5, <3>6, <2>2 DEF Level, Positive
    <3> QED
      BY <3>1, <3>7, <2>2
  <2> QED
    BY <2>3, <2>4 DEF RateHeld
<1> QED
  BY <1>1, RateInvInit, RateInvNext, PTL DEF RateSpec

----------------------------------------------------------------------------
\* RunDetail: for any page size an ended run's page shows its last lines, and, paged to
\* the end from there, all of them.

Page == [logs : SUBSET Nat, next : Int, ended : BOOLEAN]
Within(p) == p.logs \subseteq 1 .. lines /\ p.next \in -1 .. lines

\* The head page of the run as it is now.
HeadNext == IF lines > LogsLimit THEN lines - LogsLimit + 1 ELSE NoOlder
LastPage     == {x \in 1 .. lines : HeadNext <= x}

\* A head page that says the run has ended is its last.
Latest(p) == p.ended => ended /\ p.logs = LastPage /\ p.next = HeadNext

DetailShapes ==
    /\ lines \in Nat /\ ended \in BOOLEAN /\ view \in Nat /\ endedHead \in BOOLEAN
    /\ poll \in {"asks", "timer", "stopped"}
    /\ asked \subseteq [kind : {"head", "older"}, view : 0 .. view, before : Int, answer : Page]
    /\ newest \in Page /\ Within(newest)
    /\ older \in [logs : SUBSET (1 .. lines), cursor : -1 .. lines, loading : BOOLEAN]
    /\ drawn \in [head : -1 .. lines, ended : BOOLEAN, cursor : -1 .. lines, loading : BOOLEAN]

\* The requests: what they asked for, and what their answers hold.
Sound(q) ==
    /\ q.kind = "head" => q.before = Undef
    /\ q.kind = "older" => q.before \in 1 .. lines
    /\ Within(q.answer)
    /\ q.kind = "head" => Latest(q.answer)
    /\ q.kind = "older" /\ q.answer # Unread =>
          \A x \in 1 .. lines : q.answer.next <= x /\ x < q.before => x \in q.answer.logs
    /\ q.answer # Unread => q.answer.next # Undef
Ours(q, kind) == q.kind = kind /\ q.view = view
Requests ==
    /\ \A q \in asked : Sound(q)
    /\ \A q, r \in asked : Ours(q, q.kind) /\ Ours(r, q.kind) => q = r
    /\ \A q \in asked : Ours(q, "head") => poll = "asks"
    /\ \A q \in asked : Ours(q, "older") => older.loading

\* What the page and its last render hold of the run.
HeadShown ==
    /\ Latest(newest)
    /\ poll = "stopped" => newest.ended
    /\ drawn.ended => ended /\ drawn.head = HeadNext
    /\ newest.ended => newest.next # Undef

\* Paging back from the last head page: nothing between it and the cursor is missing.
Covers(c) == \A x \in 1 .. lines : c <= x /\ x < HeadNext => x \in older.logs
Paging ==
    /\ endedHead => /\ ended
                    /\ older.cursor # Undef => Covers(older.cursor)
                    /\ drawn.cursor # Undef => Covers(drawn.cursor)
                    /\ \A q \in asked : Ours(q, "older") => Covers(q.before)
    /\ drawn.cursor = Undef /\ drawn.ended /\ ~drawn.loading =>
          (older.cursor = Undef /\ ~older.loading) \/ endedHead

DetailInv == DetailShapes /\ Requests /\ HeadShown /\ Paging

LEMMA DetailInvInit == DetailInit => DetailInv
<1> SUFFICES ASSUME DetailInit PROVE DetailInv
  OBVIOUS
<1> USE DEF DetailInit
<1>1. Unread \in Page /\ Within(Unread)
  <2>1. {} \in SUBSET Nat /\ Undef \in Int /\ FALSE \in BOOLEAN /\ Undef \in -1 .. 0
    BY DEF Undef
  <2>2. Unread \in Page
    BY <2>1 DEF Page, Unread
  <2> QED
    BY <2>1, <2>2 DEF Within, Unread
<1>2. DetailShapes
  <2>1. older \in [logs : SUBSET (1 .. lines), cursor : -1 .. lines, loading : BOOLEAN]
    BY DEF NoOlderLogs, Undef
  <2>2. drawn \in [head : -1 .. lines, ended : BOOLEAN, cursor : -1 .. lines, loading : BOOLEAN]
    BY DEF NoOlderLogs, Undef, Closure, Unread
  <2> QED
    BY <1>1, <2>1, <2>2 DEF DetailShapes
<1>3. Requests /\ HeadShown /\ Paging
  BY DEF Requests, HeadShown, Paging, Latest, NoOlderLogs, Closure, Unread
<1> QED
  BY <1>2, <1>3 DEF DetailInv

----------------------------------------------------------------------------
\* The highest of the first k lines, and the oldest of them.
LEMMA HighestOf ==
    ASSUME NEW k \in Nat, NEW n \in Nat
    PROVE  Highest(1 .. k, n) = {x \in 1 .. k : k - x < n}
<1>1. ASSUME NEW x \in 1 .. k PROVE Cardinality({y \in 1 .. k : y > x}) = k - x
  <2>1. {y \in 1 .. k : y > x} = (x + 1) .. k
    OBVIOUS
  <2>2. Cardinality((x + 1) .. k) = IF x + 1 > k THEN 0 ELSE k - (x + 1) + 1
    BY FS_Interval
  <2>3. x \in Int /\ k \in Int /\ x <= k
    OBVIOUS
  <2>4. (IF x + 1 > k THEN 0 ELSE k - (x + 1) + 1) = k - x
    BY <2>3
  <2> QED
    BY <2>1, <2>2, <2>4
<1> QED
  BY <1>1 DEF Highest

LEMMA OldestKeptIs ==
    ASSUME NEW k \in Nat, k > LogsLimit
    PROVE  OldestKept(1 .. k) = k - LogsLimit + 1
<1> DEFINE S == {x \in 1 .. k : k - x < LogsLimit}
           m == k - LogsLimit + 1
<1>1. LogsLimit \in Nat \ {0}
  BY RunDetailAssumption
<1>2. m \in S /\ \A y \in S : m <= y
  BY <1>1
<1>3. OldestKept(1 .. k) = Min(S)
  BY <1>1, HighestOf DEF OldestKept
<1>4. Min(S) \in S /\ \A y \in S : Min(S) <= y
  BY <1>2 DEF Min
<1> QED
  BY <1>2, <1>3, <1>4

\* An answer: the page, its cursor, and that the page begins there.
LEMMA DetailIs ==
    ASSUME lines \in Nat, ended \in BOOLEAN, NEW before \in {Undef} \cup (1 .. lines)
    PROVE  LET k == IF before = Undef THEN lines ELSE before - 1
               d == Detail(before)
           IN  /\ d \in Page /\ Within(d) /\ d # Unread /\ d.next # Undef
               /\ d.ended = ended
               /\ d.next = (IF k > LogsLimit THEN k - LogsLimit + 1 ELSE NoOlder)
               /\ d.logs = {x \in 1 .. k : d.next <= x}
               /\ d.logs = Highest(1 .. k, LogsLimit)
<1> DEFINE below == {x \in 1 .. lines : before = Undef \/ x < before}
           k == IF before = Undef THEN lines ELSE before - 1
           d == Detail(before)
<1>1. LogsLimit \in Nat \ {0}
  BY RunDetailAssumption
<1>2. k \in Nat /\ k <= lines /\ below = 1 .. k
  BY DEF Undef
<1> HIDE DEF below, k
<1>3. Cardinality(1 .. k) = k
  BY <1>2, FS_Interval
<1>4. d = [logs |-> Highest(1 .. k, LogsLimit),
           next |-> IF k > LogsLimit THEN OldestKept(1 .. k) ELSE NoOlder, ended |-> ended]
  BY <1>2, <1>3 DEF Detail, below
<1>5. k > LogsLimit => OldestKept(1 .. k) = k - LogsLimit + 1
  BY <1>2, OldestKeptIs
<1>6. Highest(1 .. k, LogsLimit) = {x \in 1 .. k : k - x < LogsLimit}
  BY <1>1, <1>2, HighestOf
<1> HIDE DEF d
<1>7. /\ d.logs = Highest(1 .. k, LogsLimit) /\ d.ended = ended
      /\ d.next = (IF k > LogsLimit THEN k - LogsLimit + 1 ELSE NoOlder)
  BY <1>4, <1>5
<1>8. d.next \in 0 .. lines
  BY <1>1, <1>2, <1>7 DEF NoOlder
<1>9. d.logs = {x \in 1 .. k : d.next <= x}
  BY <1>1, <1>2, <1>6, <1>7 DEF NoOlder
<1>10. d.logs \subseteq 1 .. lines
  BY <1>2, <1>9
<1>11. d \in Page
  <2>1. d.logs \in SUBSET Nat /\ d.next \in Int
    BY <1>8, <1>10
  <2>2. d = [logs |-> d.logs, next |-> d.next, ended |-> ended]
    BY <1>4, <1>7
  <2> QED
    BY <2>1, <2>2 DEF Page
<1>12. Within(d) /\ d.next # Undef /\ d # Unread
  BY <1>8, <1>10 DEF Within, Undef, Unread
<1> QED
  BY <1>7, <1>9, <1>11, <1>12 DEF d, k

\* The server's steps.
LEMMA ServerKeeps ==
    ASSUME DetailInv, AppendLine \/ RunEnds PROVE DetailInv'
<1>1. /\ ~ended /\ lines \in Nat /\ lines' \in Nat /\ lines <= lines' /\ ended' \in BOOLEAN
      /\ asked' = asked /\ view' = view /\ poll' = poll /\ newest' = newest
      /\ older' = older /\ drawn' = drawn /\ endedHead' = endedHead
  <2>1. lines \in Nat /\ ended \in BOOLEAN
    BY DEF DetailInv, DetailShapes
  <2>2. CASE AppendLine
    BY <2>1, <2>2 DEF AppendLine, ServerOnly
  <2>3. CASE RunEnds
    BY <2>1, <2>3 DEF RunEnds, ServerOnly
  <2> QED
    BY <2>2, <2>3
<1>2. /\ DetailShapes /\ Requests /\ HeadShown /\ Paging
  BY DEF DetailInv
<1>3. ~endedHead /\ ~drawn.ended /\ ~newest.ended /\ poll # "stopped"
  BY <1>1, <1>2 DEF HeadShown, Paging, Latest
<1>4. 1 .. lines \subseteq 1 .. lines' /\ -1 .. lines \subseteq -1 .. lines'
  BY <1>1
<1>5. \A p : Within(p) => Within(p)'
  BY <1>1, <1>4 DEF Within
<1>6. DetailShapes'
  <2>1. older' \in [logs : SUBSET (1 .. lines'), cursor : -1 .. lines', loading : BOOLEAN]
    BY <1>1, <1>2, <1>4 DEF DetailShapes
  <2>2. drawn' \in [head : -1 .. lines', ended : BOOLEAN, cursor : -1 .. lines', loading : BOOLEAN]
    BY <1>1, <1>2, <1>4 DEF DetailShapes
  <2>3. Within(newest)'
    BY <1>1, <1>2, <1>4 DEF DetailShapes, Within
  <2> QED
    BY <1>1, <1>2, <2>1, <2>2, <2>3 DEF DetailShapes
<1>7. ASSUME NEW q \in asked PROVE Sound(q)'
  <2>1. Sound(q)
    BY <1>2 DEF Requests
  <2>2. q.kind = "head" => ~q.answer.ended
    BY <2>1, <1>1 DEF Sound, Latest
  <2>3. Within(q.answer)'
    BY <2>1, <1>4 DEF Sound, Within
  <2>4. q.kind = "older" /\ q.answer # Unread =>
          \A x \in 1 .. lines' : q.answer.next <= x /\ x < q.before => x \in q.answer.logs
    BY <2>1, <1>1 DEF Sound
  <2>5. q.kind = "older" => q.before \in 1 .. lines'
    BY <2>1, <1>4 DEF Sound
  <2> QED
    BY <2>1, <2>2, <2>3, <2>4, <2>5 DEF Sound, Latest
<1>8. Requests'
  BY <1>1, <1>2, <1>7 DEF Requests, Ours
<1>9. HeadShown' /\ Paging'
  BY <1>1, <1>2, <1>3 DEF HeadShown, Paging, Latest
<1> QED
  BY <1>6, <1>8, <1>9 DEF DetailInv

\* What the steps of the page leave alone, and what is known before them.
Before ==
    /\ DetailShapes /\ Requests /\ HeadShown /\ Paging
    /\ lines' = lines /\ ended' = ended
LEMMA SameRun ==
    ASSUME Before
    PROVE  /\ lines \in Nat /\ ended \in BOOLEAN /\ view \in Nat /\ endedHead \in BOOLEAN
           /\ \A q \in asked : /\ q.kind \in {"head", "older"} /\ q.view \in 0 .. view
                               /\ q.before \in Int /\ q.answer \in Page /\ Sound(q)
           /\ older.logs \subseteq 1 .. lines /\ older.cursor \in -1 .. lines
           /\ older.loading \in BOOLEAN
           /\ \A q : Sound(q)' <=> Sound(q)
           /\ \A p : (Latest(p)' <=> Latest(p)) /\ (Within(p)' <=> Within(p))
           /\ HeadNext' = HeadNext
<1>1. lines' = lines /\ ended' = ended /\ HeadNext' = HeadNext
  BY DEF Before, HeadNext
<1>2. \A p : (Latest(p)' <=> Latest(p)) /\ (Within(p)' <=> Within(p))
  BY <1>1 DEF Latest, Within, LastPage
<1>3. \A q : Sound(q)' <=> Sound(q)
  BY <1>1 DEF Sound, Latest, Within, LastPage
<1>4. /\ lines \in Nat /\ ended \in BOOLEAN /\ view \in Nat /\ endedHead \in BOOLEAN
      /\ older.logs \subseteq 1 .. lines /\ older.cursor \in -1 .. lines
      /\ older.loading \in BOOLEAN
  BY DEF Before, DetailShapes
<1>5. ASSUME NEW q \in asked
      PROVE  /\ q.kind \in {"head", "older"} /\ q.view \in 0 .. view
             /\ q.before \in Int /\ q.answer \in Page /\ Sound(q)
  BY DEF Before, DetailShapes, Requests
<1> QED
  BY <1>1, <1>2, <1>3, <1>4, <1>5

\* A request that settles.
LEMMA RequestGone ==
    ASSUME Before, NEW q \in asked, asked' = asked \ {q}, view' = view,
           poll' = poll \/ (Ours(q, "head") /\ poll' \in {"timer", "stopped"}),
           older'.loading = older.loading \/ Ours(q, "older")
    PROVE  Requests'
<1>1. /\ \A r \in asked' : r \in asked /\ r # q
      /\ \A r, kind : Ours(r, kind)' <=> Ours(r, kind)
  BY DEF Ours
<1>2. \A r \in asked' : Sound(r)'
  BY <1>1, SameRun
<1>3. \A r \in asked' : Ours(r, "head") => poll' = "asks"
  BY <1>1 DEF Before, Requests, Ours
<1>4. \A r \in asked' : Ours(r, "older") => older'.loading
  BY <1>1 DEF Before, Requests, Ours
<1> QED
  BY <1>1, <1>2, <1>3, <1>4 DEF Before, Requests

LEMMA Answered ==
    ASSUME DetailInv, NEW q \in asked, Answers(q) PROVE DetailInv'
<1> DEFINE a == Detail(q.before)
           t == [q EXCEPT !.answer = a]
<1>1. /\ q.answer = Unread /\ asked' = (asked \ {q}) \cup {t}
      /\ lines' = lines /\ ended' = ended /\ view' = view /\ poll' = poll /\ newest' = newest
      /\ older' = older /\ drawn' = drawn /\ endedHead' = endedHead
  BY DEF Answers, ServerOnly
<1>2. Before
  BY <1>1 DEF DetailInv, Before
<1>3. /\ lines \in Nat /\ ended \in BOOLEAN
      /\ q.kind \in {"head", "older"} /\ q.view \in 0 .. view /\ q.before \in Int /\ Sound(q)
      /\ q \in [kind : {"head", "older"}, view : 0 .. view, before : Int, answer : Page]
  BY <1>2, SameRun DEF Before, DetailShapes
<1>4. q.before \in {Undef} \cup (1 .. lines)
  BY <1>3 DEF Sound
<1> DEFINE k == IF q.before = Undef THEN lines ELSE q.before - 1
<1>5. /\ a \in Page /\ Within(a) /\ a # Unread /\ a.next # Undef
      /\ a.ended = ended
      /\ a.next = (IF k > LogsLimit THEN k - LogsLimit + 1 ELSE NoOlder)
      /\ a.logs = {x \in 1 .. k : a.next <= x}
  BY <1>3, <1>4, DetailIs
<1> HIDE DEF a
<1>6. /\ t \in [kind : {"head", "older"}, view : 0 .. view, before : Int, answer : Page]
      /\ t.kind = q.kind /\ t.view = q.view /\ t.before = q.before /\ t.answer = a
  BY <1>3, <1>5
<1> HIDE DEF t
<1>7. q.kind = "head" => Latest(a)
  BY <1>3, <1>5 DEF Sound, Latest, HeadNext, LastPage
<1>8. q.kind = "older" => \A x \in 1 .. lines : a.next <= x /\ x < q.before => x \in a.logs
  <2> SUFFICES ASSUME q.kind = "older", NEW x \in 1 .. lines, a.next <= x, x < q.before
               PROVE  x \in a.logs
    OBVIOUS
  <2>1. q.before \in 1 .. lines /\ k = q.before - 1
    BY <1>3 DEF Sound, Undef
  <2>2. x \in 1 .. k
    BY <2>1, <1>3
  <2> QED
    BY <2>2, <1>5
<1>9. Sound(t)
  BY <1>3, <1>5, <1>6, <1>7, <1>8 DEF Sound
<1>10. DetailShapes'
  BY <1>1, <1>2, <1>6, SameRun DEF Before, DetailShapes, Within
<1>11. Requests'
  <2>1. \A r \in asked' : Sound(r)'
    BY <1>1, <1>2, <1>9, SameRun
  <2>2. \A r \in asked' : r = t \/ (r \in asked /\ r # q)
    BY <1>1
  <2>3. \A r, kind : Ours(r, kind)' <=> Ours(r, kind)
    BY <1>1 DEF Ours
  <2>4. \A kind : Ours(t, kind) <=> Ours(q, kind)
    BY <1>6 DEF Ours
  <2>5. /\ \A p, r \in asked : Ours(p, p.kind) /\ Ours(r, p.kind) => p = r
        /\ \A r \in asked : Ours(r, "head") => poll = "asks"
        /\ \A r \in asked : Ours(r, "older") => older.loading
    BY <1>2 DEF Before, Requests
  <2>6. \A p, r \in asked' : Ours(p, p.kind) /\ Ours(r, p.kind) => p = r
    <3> TAKE p, r \in asked'
    <3>1. CASE p = t /\ r # t
      BY <3>1, <2>2, <2>4, <2>5, <1>6
    <3>2. CASE p # t /\ r = t
      BY <3>2, <2>2, <2>4, <2>5
    <3>3. CASE p # t /\ r # t
      BY <3>3, <2>2, <2>5
    <3> QED
      BY <3>1, <3>2, <3>3
  <2> QED
    BY <1>1, <2>1, <2>2, <2>3, <2>4, <2>5, <2>6 DEF Requests
<1>12. HeadShown'
  BY <1>1, <1>2, SameRun DEF Before, HeadShown, Latest
<1>13. Paging'
  <2>1. \A c : Covers(c)' <=> Covers(c)
    BY <1>1, <1>2, SameRun DEF Covers
  <2>2. \A r \in asked' : Ours(r, "older")' => \E p \in asked : Ours(p, "older") /\ p.before = r.before
    BY <1>1, <1>6 DEF Ours
  <2> QED
    BY <1>1, <1>2, <2>1, <2>2 DEF Before, Paging
<1> QED
  BY <1>10, <1>11, <1>12, <1>13 DEF DetailInv

\* The answers of the page's own requests.
LEMMA HeadReceived ==
    ASSUME DetailInv, NEW q \in asked, PollReceives(q) PROVE DetailInv'
<1>1. /\ q.kind = "head" /\ q.view = view /\ q.answer # Unread
      /\ asked' = asked \ {q} /\ newest' = q.answer
      /\ poll' = (IF q.answer.ended THEN "stopped" ELSE "timer")
      /\ lines' = lines /\ ended' = ended /\ view' = view
      /\ older' = older /\ drawn' = drawn /\ endedHead' = endedHead
  BY DEF PollReceives, PageOnly
<1>2. Before
  BY <1>1 DEF DetailInv, Before
<1>3. q.answer \in Page /\ Sound(q)
  BY <1>2, SameRun
<1>4. Latest(q.answer) /\ Within(q.answer) /\ q.answer.next # Undef
  BY <1>1, <1>3 DEF Sound
<1>5. DetailShapes'
  <2>1. Within(newest)'
    BY <1>1, <1>4 DEF Within
  <2> QED
    BY <1>1, <1>2, <1>3, <2>1 DEF Before, DetailShapes
<1>6. Requests'
  BY <1>1, <1>2, RequestGone DEF Ours
<1>7. HeadShown'
  <2>1. Latest(newest)'
    BY <1>1, <1>2, <1>4, SameRun
  <2>2. poll' = "stopped" => newest'.ended
    BY <1>1
  <2>3. drawn'.ended => ended' /\ drawn'.head = HeadNext'
    BY <1>1, <1>2, SameRun DEF Before, HeadShown
  <2> QED
    BY <1>1, <1>4, <2>1, <2>2, <2>3 DEF HeadShown
<1>8. \A c : Covers(c)' <=> Covers(c)
  BY <1>1, <1>2, SameRun DEF Covers
<1>9. Paging'
  BY <1>1, <1>2, <1>8 DEF Before, Paging, Ours
<1> QED
  BY <1>5, <1>6, <1>7, <1>9 DEF DetailInv

LEMMA OlderPageReceived ==
    ASSUME DetailInv, NEW q \in asked, OlderReceived(q) PROVE DetailInv'
<1>1. /\ q.kind = "older" /\ q.view = view /\ q.answer # Unread
      /\ asked' = asked \ {q} /\ newest' = newest /\ poll' = poll
      /\ older' = [logs |-> older.logs \cup q.answer.logs, cursor |-> q.answer.next,
                   loading |-> FALSE]
      /\ lines' = lines /\ ended' = ended /\ view' = view
      /\ drawn' = drawn /\ endedHead' = endedHead
  BY DEF OlderReceived, PageOnly
<1>2. Before
  BY <1>1 DEF DetailInv, Before
<1>3. /\ q.answer \in Page /\ Sound(q) /\ lines \in Nat
      /\ older.logs \subseteq 1 .. lines /\ older.loading \in BOOLEAN
  BY <1>2, SameRun
<1>4. /\ Within(q.answer)
      /\ \A x \in 1 .. lines : q.answer.next <= x /\ x < q.before => x \in q.answer.logs
      /\ q.before \in 1 .. lines
  BY <1>1, <1>3 DEF Sound
<1>5. /\ older'.logs = older.logs \cup q.answer.logs /\ older'.cursor = q.answer.next
      /\ older'.loading = FALSE
  BY <1>1
<1>6. DetailShapes'
  <2>1. older' \in [logs : SUBSET (1 .. lines), cursor : -1 .. lines, loading : BOOLEAN]
    BY <1>1, <1>3, <1>4 DEF Within
  <2>2. Within(newest)'
    BY <1>1, <1>2 DEF Before, DetailShapes, Within
  <2> QED
    BY <1>1, <1>2, <2>1, <2>2 DEF Before, DetailShapes
<1>7. Requests'
  BY <1>1, <1>2, <1>5, RequestGone DEF Ours
<1>8. HeadShown'
  BY <1>1, <1>2, SameRun DEF Before, HeadShown
<1>9. Ours(q, "older") /\ older.loading
  BY <1>1, <1>2 DEF Before, Requests, Ours
<1>10. \A c : Covers(c) => Covers(c)'
  BY <1>1, <1>2, <1>5, SameRun DEF Covers
<1>11. Covers(q.before) => Covers(q.answer.next)'
  <2> SUFFICES ASSUME Covers(q.before), NEW x \in 1 .. lines, q.answer.next <= x, x < HeadNext
               PROVE  x \in older'.logs
    BY <1>1, <1>2, SameRun DEF Covers
  <2>1. CASE x < q.before
    BY <2>1, <1>4, <1>5
  <2>2. CASE q.before <= x
    BY <2>2, <1>5 DEF Covers
  <2> QED
    BY <2>1, <2>2, <1>4
<1>12. Paging'
  <2>1. endedHead => Covers(q.answer.next)'
    BY <1>2, <1>9, <1>11 DEF Before, Paging
  <2>2. ~Ours(q, "older")' \/ \A r \in asked' : ~Ours(r, "older")'
    BY <1>1, <1>2 DEF Before, Requests, Ours
  <2>3. \A r \in asked' : ~Ours(r, "older")'
    BY <1>1, <2>2 DEF Ours
  <2>4. drawn.cursor = Undef /\ drawn.ended /\ ~drawn.loading => endedHead
    BY <1>2, <1>9 DEF Before, Paging
  <2>5. endedHead => ended /\ (drawn.cursor # Undef => Covers(drawn.cursor))
    BY <1>2 DEF Before, Paging
  <2> QED
    BY <1>1, <1>5, <1>10, <2>1, <2>3, <2>4, <2>5 DEF Paging
<1> QED
  BY <1>6, <1>7, <1>8, <1>12 DEF DetailInv

\* A request that fails, or whose answer comes to another view.
LEMMA DroppedKeeps ==
    ASSUME DetailInv, NEW q \in asked, Fails(q) \/ Discarded(q) PROVE DetailInv'
<1>1. /\ asked' = asked \ {q} /\ newest' = newest /\ view' = view
      /\ lines' = lines /\ ended' = ended /\ drawn' = drawn /\ endedHead' = endedHead
  BY DEF Fails, Discarded, PageOnly
<1>2. Before
  BY <1>1 DEF DetailInv, Before
<1>3. /\ older.logs \subseteq 1 .. lines /\ older.cursor \in -1 .. lines
      /\ older.loading \in BOOLEAN /\ q.kind \in {"head", "older"}
      /\ older \in [logs : SUBSET (1 .. lines), cursor : -1 .. lines, loading : BOOLEAN]
      /\ poll \in {"asks", "timer", "stopped"}
  BY <1>2, SameRun DEF Before, DetailShapes
<1>4. /\ older' \in [logs : SUBSET (1 .. lines), cursor : -1 .. lines, loading : BOOLEAN]
      /\ older'.logs = older.logs /\ older'.cursor = older.cursor
      /\ older'.loading => older.loading
      /\ older'.loading = older.loading \/ Ours(q, "older")
  <2>1. CASE older' = older
    BY <2>1, <1>3
  <2>2. CASE older' = [older EXCEPT !.loading = FALSE] /\ Ours(q, "older")
    BY <2>2, <1>3
  <2>3. older' = older \/ (older' = [older EXCEPT !.loading = FALSE] /\ Ours(q, "older"))
    BY <1>3 DEF Fails, Discarded, Ours
  <2> QED
    BY <2>1, <2>2, <2>3
<1>5. poll' = poll \/ (Ours(q, "head") /\ poll' = "timer")
  BY <1>3 DEF Fails, Discarded, Ours
<1>6. DetailShapes'
  <2>1. Within(newest)'
    BY <1>1, <1>2 DEF Before, DetailShapes, Within
  <2>2. poll' \in {"asks", "timer", "stopped"}
    BY <1>3, <1>5
  <2> QED
    BY <1>1, <1>2, <1>4, <2>1, <2>2 DEF Before, DetailShapes
<1>7. Requests'
  BY <1>1, <1>2, <1>4, <1>5, RequestGone
<1>8. HeadShown'
  BY <1>1, <1>2, <1>5, SameRun DEF Before, HeadShown
<1>9. \A c : Covers(c)' <=> Covers(c)
  BY <1>1, <1>2, <1>4, SameRun DEF Covers
<1>10. Paging'
  <2>1. \A r \in asked' : Ours(r, "older")' => r \in asked /\ Ours(r, "older")
    BY <1>1 DEF Ours
  <2> QED
    BY <1>1, <1>2, <1>4, <1>9, <2>1 DEF Before, Paging
<1> QED
  BY <1>6, <1>7, <1>8, <1>10 DEF DetailInv

\* A request that is made.
LEMMA Asked ==
    ASSUME Before, view' = view, NEW kind \in {"head", "older"},
           NEW before \in IF kind = "head" THEN {Undef} ELSE 1 .. lines,
           asked' = asked \cup {AskFor(kind, before)},
           \A q \in asked : ~Ours(q, kind),
           kind = "head" => poll' = "asks" /\ older'.loading = older.loading,
           kind = "older" => poll' = poll /\ older'.loading
    PROVE  Requests' /\ asked' \subseteq [kind : {"head", "older"}, view : 0 .. view,
                                          before : Int, answer : Page]
<1> DEFINE t == AskFor(kind, before)
<1>1. /\ t.kind = kind /\ t.view = view /\ t.before = before /\ t.answer = Unread
      /\ t = [kind |-> kind, view |-> view, before |-> before, answer |-> Unread]
  BY DEF AskFor
<1>2. lines \in Nat /\ view \in Nat
  BY SameRun
<1>3. Unread \in Page /\ Within(Unread) /\ ~Unread.ended
  <2>1. {} \in SUBSET Nat /\ Undef \in Int /\ FALSE \in BOOLEAN /\ Undef \in -1 .. lines
    BY <1>2 DEF Undef
  <2>2. Unread \in Page
    BY <2>1 DEF Page, Unread
  <2> QED
    BY <2>1, <2>2 DEF Within, Unread
<1>4. before \in Int /\ (kind = "head" => before = Undef) /\ (kind = "older" => before \in 1 .. lines)
  BY DEF Undef
<1>5. t \in [kind : {"head", "older"}, view : 0 .. view, before : Int, answer : Page]
  BY <1>1, <1>2, <1>3, <1>4
<1> HIDE DEF t
<1>6. Sound(t)
  BY <1>1, <1>3, <1>4 DEF Sound, Latest
<1>7. asked' = asked \cup {t}
  BY DEF t
<1>8. \A q \in asked' : Sound(q)'
  BY <1>6, <1>7, SameRun
<1>9. \A q, k : Ours(q, k)' <=> Ours(q, k)
  BY DEF Ours
<1>10. /\ \A q, r \in asked : Ours(q, q.kind) /\ Ours(r, q.kind) => q = r
       /\ \A q \in asked : Ours(q, "head") => poll = "asks"
       /\ \A q \in asked : Ours(q, "older") => older.loading
  BY DEF Before, Requests
<1>11. \A k : Ours(t, k) => k = kind
  BY <1>1 DEF Ours
<1>12. \A q, r \in asked' : Ours(q, q.kind) /\ Ours(r, q.kind) => q = r
  <2> TAKE q, r \in asked'
  <2>1. CASE q = t
    BY <2>1, <1>1, <1>7
  <2>2. CASE q # t /\ r = t
    BY <2>2, <1>7, <1>11
  <2>3. CASE q # t /\ r # t
    BY <2>3, <1>7, <1>10
  <2> QED
    BY <2>1, <2>2, <2>3
<1>13. \A q \in asked' : Ours(q, "head") => poll' = "asks"
  BY <1>7, <1>10, <1>11
<1>14. \A q \in asked' : Ours(q, "older") => older'.loading
  BY <1>7, <1>10, <1>11
<1>15. asked \subseteq [kind : {"head", "older"}, view : 0 .. view, before : Int, answer : Page]
  BY DEF Before, DetailShapes
<1> QED
  BY <1>5, <1>7, <1>8, <1>9, <1>12, <1>13, <1>14, <1>15 DEF Requests

LEMMA PollKeeps ==
    ASSUME DetailInv, PollAsks PROVE DetailInv'
<1>1. /\ poll = "timer" /\ poll' = "asks" /\ asked' = asked \cup {AskFor("head", Undef)}
      /\ newest' = newest /\ view' = view /\ older' = older
      /\ lines' = lines /\ ended' = ended /\ drawn' = drawn /\ endedHead' = endedHead
  BY DEF PollAsks, PageOnly
<1>2. Before
  BY <1>1 DEF DetailInv, Before
<1>3. \A q \in asked : ~Ours(q, "head")
  BY <1>1, <1>2 DEF Before, Requests
<1>4. Requests' /\ asked' \subseteq [kind : {"head", "older"}, view : 0 .. view,
                                    before : Int, answer : Page]
  BY <1>1, <1>2, <1>3, Asked
<1>5. DetailShapes'
  <2>1. Within(newest)'
    BY <1>1, <1>2 DEF Before, DetailShapes, Within
  <2> QED
    BY <1>1, <1>2, <1>4, <2>1 DEF Before, DetailShapes
<1>6. HeadShown'
  BY <1>1, <1>2, SameRun DEF Before, HeadShown
<1>7. Paging'
  <2>1. \A c : Covers(c)' <=> Covers(c)
    BY <1>1, <1>2, SameRun DEF Covers
  <2>2. \A r \in asked' : Ours(r, "older")' => r \in asked /\ Ours(r, "older")
    BY <1>1 DEF Ours, AskFor
  <2> QED
    BY <1>1, <1>2, <2>1, <2>2 DEF Before, Paging
<1> QED
  BY <1>4, <1>5, <1>6, <1>7 DEF DetailInv

LEMMA RedrawKeeps ==
    ASSUME DetailInv, Redraw PROVE DetailInv'
<1>1. /\ drawn' = Closure(newest, older)
      /\ poll' = poll /\ asked' = asked
      /\ newest' = newest /\ view' = view /\ older' = older
      /\ lines' = lines /\ ended' = ended /\ endedHead' = endedHead
  BY DEF Redraw, PageOnly
<1>2. Before
  BY <1>1 DEF DetailInv, Before
<1>3. /\ newest.next \in -1 .. lines /\ newest.ended \in BOOLEAN
      /\ older.cursor \in -1 .. lines /\ older.loading \in BOOLEAN
  BY <1>2, SameRun DEF Before, DetailShapes, Within, Page
<1>4. /\ drawn'.head = newest.next /\ drawn'.ended = newest.ended
      /\ drawn'.cursor = older.cursor /\ drawn'.loading = older.loading
      /\ drawn' \in [head : -1 .. lines, ended : BOOLEAN, cursor : -1 .. lines, loading : BOOLEAN]
  BY <1>1, <1>3 DEF Closure
<1>5. DetailShapes'
  <2>1. Within(newest)'
    BY <1>1, <1>2 DEF Before, DetailShapes, Within
  <2> QED
    BY <1>1, <1>2, <1>4, <2>1 DEF Before, DetailShapes
<1>6. Requests'
  BY <1>1, <1>2, SameRun DEF Before, Requests, Ours
<1>7. HeadShown'
  BY <1>1, <1>2, <1>4, SameRun DEF Before, HeadShown, Latest
<1>8. Paging'
  <2>1. \A c : Covers(c)' <=> Covers(c)
    BY <1>1, <1>2, SameRun DEF Covers
  <2>2. \A r : Ours(r, "older")' <=> Ours(r, "older")
    BY <1>1 DEF Ours
  <2>3. drawn'.cursor = Undef /\ ~drawn'.loading => older.cursor = Undef /\ ~older.loading
    BY <1>4
  <2>4. drawn'.cursor # Undef /\ endedHead => Covers(drawn'.cursor)
    BY <1>2, <1>4 DEF Before, Paging
  <2> QED
    BY <1>1, <1>2, <2>1, <2>2, <2>3, <2>4 DEF Before, Paging
<1> QED
  BY <1>5, <1>6, <1>7, <1>8 DEF DetailInv

LEMMA LoadKeeps ==
    ASSUME DetailInv, LoadOlderLogs PROVE DetailInv'
<1>1. /\ ~drawn.loading /\ ~older.loading
      /\ From \notin {Undef, NoOlder}
      /\ asked' = asked \cup {AskFor("older", From)}
      /\ older' = [older EXCEPT !.loading = TRUE]
      /\ endedHead' = (IF drawn.cursor = Undef THEN drawn.ended ELSE endedHead)
      /\ poll' = poll /\ newest' = newest /\ view' = view /\ drawn' = drawn
      /\ lines' = lines /\ ended' = ended
  BY DEF LoadOlderLogs, PageOnly
<1>2. Before
  BY <1>1 DEF DetailInv, Before
<1>3. /\ drawn.head \in -1 .. lines /\ drawn.cursor \in -1 .. lines /\ drawn.ended \in BOOLEAN
      /\ lines \in Nat /\ endedHead \in BOOLEAN
  BY <1>2, SameRun DEF Before, DetailShapes
<1>4. From \in 1 .. lines
  BY <1>1, <1>3 DEF From, Undef, NoOlder
<1>5. /\ older' \in [logs : SUBSET (1 .. lines), cursor : -1 .. lines, loading : BOOLEAN]
      /\ older'.logs = older.logs /\ older'.cursor = older.cursor /\ older'.loading
  BY <1>1, <1>2 DEF Before, DetailShapes
<1>6. \A q \in asked : ~Ours(q, "older")
  BY <1>1, <1>2 DEF Before, Requests
<1>7. Requests' /\ asked' \subseteq [kind : {"head", "older"}, view : 0 .. view,
                                    before : Int, answer : Page]
  BY <1>1, <1>2, <1>4, <1>5, <1>6, Asked
<1>8. endedHead' \in BOOLEAN
  BY <1>1, <1>3
<1>9. DetailShapes'
  <2>1. Within(newest)'
    BY <1>1, <1>2 DEF Before, DetailShapes, Within
  <2> QED
    BY <1>1, <1>2, <1>5, <1>7, <1>8, <2>1 DEF Before, DetailShapes
<1>10. HeadShown'
  BY <1>1, <1>2, SameRun DEF Before, HeadShown
<1>11. \A c : Covers(c)' <=> Covers(c)
  BY <1>1, <1>2, <1>5, SameRun DEF Covers
<1>12. endedHead' => ended
  BY <1>1, <1>2 DEF Before, Paging, HeadShown
<1>13. endedHead' => Covers(From)
  <2>1. CASE drawn.cursor = Undef
    <3>1. endedHead' => From = HeadNext
      BY <2>1, <1>1, <1>2 DEF Before, HeadShown, From
    <3> QED
      BY <3>1, <1>3, RunDetailAssumption DEF Covers, HeadNext, NoOlder
  <2>2. CASE drawn.cursor # Undef
    BY <2>2, <1>1, <1>2 DEF Before, Paging, From
  <2> QED
    BY <2>1, <2>2
<1>14. endedHead' /\ drawn.cursor # Undef => Covers(drawn.cursor)
  BY <1>1, <1>2 DEF Before, Paging
<1>15. endedHead' /\ older.cursor # Undef => Covers(older.cursor)
  BY <1>1, <1>2 DEF Before, Paging
<1>16. \A r \in asked' : Ours(r, "older")' => r.before = From
  BY <1>1, <1>6 DEF Ours, AskFor
<1>17. drawn.cursor = Undef /\ drawn.ended => endedHead'
  BY <1>1
<1> QED
  <2>1. Paging'
    BY <1>1, <1>5, <1>11, <1>12, <1>13, <1>14, <1>15, <1>16, <1>17 DEF Paging
  <2> QED
    BY <1>7, <1>9, <1>10, <2>1 DEF DetailInv

LEMMA OtherViewKeeps ==
    ASSUME DetailInv, OtherView PROVE DetailInv'
<1>1. /\ view' = view + 1 /\ poll' = "timer" /\ asked' = asked
      /\ newest' = Unread /\ older' = NoOlderLogs /\ drawn' = Closure(Unread, NoOlderLogs)
      /\ endedHead' = FALSE /\ lines' = lines /\ ended' = ended
  BY DEF OtherView, PageOnly
<1>2. Before
  BY <1>1 DEF DetailInv, Before
<1>3. lines \in Nat /\ view \in Nat
  BY <1>2, SameRun
<1>4. Unread \in Page /\ Within(Unread)
  <2>1. {} \in SUBSET Nat /\ Undef \in Int /\ FALSE \in BOOLEAN /\ Undef \in -1 .. lines
    BY <1>3 DEF Undef
  <2>2. Unread \in Page
    BY <2>1 DEF Page, Unread
  <2> QED
    BY <2>1, <2>2 DEF Within, Unread
<1>5. older' \in [logs : SUBSET (1 .. lines), cursor : -1 .. lines, loading : BOOLEAN]
  BY <1>1, <1>3 DEF NoOlderLogs, Undef
<1>6. drawn' \in [head : -1 .. lines, ended : BOOLEAN, cursor : -1 .. lines, loading : BOOLEAN]
  BY <1>1, <1>3 DEF NoOlderLogs, Undef, Closure, Unread
<1>7. asked' \subseteq [kind : {"head", "older"}, view : 0 .. view', before : Int, answer : Page]
  <2>1. 0 .. view \subseteq 0 .. view'
    BY <1>1, <1>3
  <2> QED
    BY <1>1, <1>2, <2>1 DEF Before, DetailShapes
<1>8. DetailShapes'
  <2>1. Within(newest)'
    BY <1>1, <1>4 DEF Within
  <2> QED
    <3>1. /\ lines' \in Nat /\ ended' \in BOOLEAN /\ view' \in Nat /\ endedHead' \in BOOLEAN
          /\ poll' \in {"asks", "timer", "stopped"} /\ newest' \in Page /\ lines' = lines
      <4>1. ended \in BOOLEAN
        BY <1>2, SameRun
      <4>2. ended' \in BOOLEAN /\ endedHead' \in BOOLEAN
        BY <1>1, <4>1, Zenon
      <4>3. lines' \in Nat /\ view' \in Nat /\ newest' \in Page /\ lines' = lines
        BY <1>1, <1>3, <1>4
      <4> QED
        BY <4>2, <4>3, <1>1
    <3> QED
      BY <3>1, <1>5, <1>6, <1>7, <2>1 DEF DetailShapes
<1>9. \A q \in asked : \A kind : ~Ours(q, kind)'
  <2> TAKE q \in asked
  <2> TAKE kind
  <2>1. q.view \in 0 .. view
    BY <1>2, SameRun
  <2>2. q.view # view + 1
    BY <2>1, <1>3
  <2> QED
    BY <2>2, <1>1 DEF Ours
<1>10. Requests'
  BY <1>1, <1>2, <1>9, SameRun DEF Requests
<1>11. HeadShown' /\ Paging'
  BY <1>1, <1>9 DEF HeadShown, Paging, Latest, NoOlderLogs, Closure, Unread
<1> QED
  BY <1>8, <1>10, <1>11 DEF DetailInv

LEMMA DetailInvNext == DetailInv /\ [DetailNext]_detailVars => DetailInv'
<1> SUFFICES ASSUME DetailInv, [DetailNext]_detailVars PROVE DetailInv'
  OBVIOUS
<1>1. CASE UNCHANGED detailVars
  <2>1. /\ lines' = lines /\ ended' = ended /\ view' = view /\ poll' = poll /\ asked' = asked
        /\ newest' = newest /\ older' = older /\ drawn' = drawn /\ endedHead' = endedHead
    BY <1>1 DEF detailVars
  <2>2. Before
    BY <2>1 DEF DetailInv, Before
  <2>3. \A q, kind : Ours(q, kind)' <=> Ours(q, kind)
    BY <2>1 DEF Ours
  <2>4. \A c : Covers(c)' <=> Covers(c)
    BY <2>1, <2>2, SameRun DEF Covers
  <2>5. DetailShapes'
    BY <2>1, <2>2 DEF Before, DetailShapes, Within
  <2>6. Requests' /\ HeadShown'
    BY <2>1, <2>2, <2>3, SameRun DEF Before, Requests, HeadShown
  <2>7. Paging'
    BY <2>1, <2>2, <2>3, <2>4 DEF Before, Paging
  <2> QED
    BY <2>5, <2>6, <2>7 DEF DetailInv
<1> QED
  BY <1>1, ServerKeeps, PollKeeps, RedrawKeeps, LoadKeeps, OtherViewKeeps, Answered, HeadReceived,
     OlderPageReceived, DroppedKeeps DEF DetailNext

\* The page of an ended run shows the run's last lines, and, paged to the end from
\* there, every line, whatever clicks, failures and changes of identity came between
\* (hooks.ts useRun, loadOlderLogs; runs-read.ts getRunDetail).
THEOREM EndedRunsAreShown == DetailSpec => []EndedRunShowsItsLogs
<1>1. DetailInv => EndedRunShowsItsLogs
  <2> SUFFICES ASSUME DetailInv, poll = "stopped"
               PROVE  /\ newest.logs = Highest(1 .. lines, LogsLimit)
                      /\ ~HasOlderLogs /\ (older.cursor = Undef \/ endedHead) =>
                            ShownLogs = 1 .. lines
    BY DEF EndedRunShowsItsLogs
  <2>1. /\ DetailShapes /\ HeadShown /\ Paging /\ lines \in Nat /\ ended \in BOOLEAN
        /\ older.logs \subseteq 1 .. lines
    BY DEF DetailInv, DetailShapes
  <2>2. newest.logs = LastPage /\ newest.next = HeadNext /\ newest.next # Undef
    BY <2>1 DEF HeadShown, Latest
  <2>3. LastPage = Highest(1 .. lines, LogsLimit)
    <3>1. LogsLimit \in Nat \ {0}
      BY RunDetailAssumption
    <3>2. Highest(1 .. lines, LogsLimit) = {x \in 1 .. lines : lines - x < LogsLimit}
      BY <2>1, <3>1, HighestOf
    <3> QED
      BY <2>1, <3>1, <3>2 DEF LastPage, HeadNext, NoOlder
  <2>4. ASSUME ~HasOlderLogs, older.cursor = Undef \/ endedHead PROVE ShownLogs = 1 .. lines
    <3>1. CASE older.cursor = Undef
      <4>1. HeadNext = NoOlder
        BY <2>2, <2>4, <3>1 DEF HasOlderLogs
      <4> QED
        BY <4>1, <2>1, <2>2 DEF ShownLogs, LastPage, NoOlder
    <3>2. CASE older.cursor # Undef
      <4>1. older.cursor = NoOlder /\ Covers(NoOlder)
        BY <2>1, <2>4, <3>2 DEF HasOlderLogs, Paging
      <4>2. ASSUME NEW x \in 1 .. lines PROVE x \in LastPage \cup older.logs
        <5>1. HeadNext \in Int
          BY <2>1, RunDetailAssumption DEF HeadNext, NoOlder
        <5>2. HeadNext <= x \/ x < HeadNext
          BY <5>1
        <5> QED
          BY <4>1, <5>2 DEF Covers, LastPage, NoOlder
      <4> QED
        BY <4>2, <2>1, <2>2 DEF ShownLogs, LastPage
    <3> QED
      BY <3>1, <3>2
  <2> QED
    BY <2>2, <2>3, <2>4
<1> QED
  BY <1>1, DetailInvInit, DetailInvNext, PTL DEF DetailSpec

=============================================================================
