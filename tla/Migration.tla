----------------------------- MODULE Migration -----------------------------
(***************************************************************************)
(* Daemons of an old and a new build that boot against one database        *)
(* (packages/db/src/migrate.ts, apps/worker/src/main.ts): the advisory     *)
(* lock of a session, the migrator's look at the journal, the transaction  *)
(* that applies what is missing, the unlock whose failure is swallowed,    *)
(* and the pooled connection that has all of it.                           *)
(***************************************************************************)
EXTENDS Naturals

CONSTANTS
    Booter,    \* processes that boot
    FolderOf,  \* the migrations in the folder of each
    MaxBoots,  \* bound
    NoHolder

ASSUME MigrationAssumption ==
    /\ FolderOf \in [Booter -> Nat \ {0}] /\ MaxBoots \in Nat /\ NoHolder \notin Booter

VARIABLES
    applied,    \* how often each migration was applied (history)
    booting,    \* per process: where migrate() is
    journal,    \* per process: the last migration it read in the journal
    threw,      \* processes whose migrator threw
    holder,     \* whose session has the advisory lock
    boots

migVars == <<applied, booting, journal, threw, holder, boots>>

Migrations == UNION {1 .. FolderOf[d] : d \in Booter}

MigInit ==
    /\ applied = [m \in Migrations |-> 0]
    /\ booting = [d \in Booter |-> "off"] /\ journal = [d \in Booter |-> 0]
    /\ threw = {} /\ holder = NoHolder /\ boots = 0

MovesTo(d, where) == booting' = [booting EXCEPT ![d] = where]
LetGo(d) == holder' = IF holder = d THEN NoHolder ELSE holder

\* pool.connect; a process that failed is started again, with new sessions.
Boots(d) ==
    /\ booting[d] \in {"off", "failed"} /\ holder # d
    /\ boots < MaxBoots /\ boots' = boots + 1
    /\ MovesTo(d, "locking") /\ threw' = threw \ {d}
    /\ UNCHANGED <<applied, journal, holder>>

\* pg_advisory_lock waits; the pool's statement_timeout ends the wait.
Unserialised == TRUE
LockIsFree == holder = NoHolder
TakesLock(d) ==
    /\ booting[d] = "locking" /\ LockIsFree
    /\ holder' = d /\ MovesTo(d, "reading")
    /\ UNCHANGED <<applied, journal, threw, boots>>
LockTimesOut(d) ==
    /\ booting[d] = "locking"
    /\ MovesTo(d, "failed")
    /\ UNCHANGED <<applied, journal, threw, holder, boots>>

\* drizzle's migrator: the newest row of the journal, then one transaction with every
\* migration after it; the answer to its commit may be lost.
ReadsJournal(d) ==
    /\ booting[d] = "reading"
    /\ \E n \in Migrations \cup {0} :
          /\ \A m \in Migrations : applied[m] > 0 <=> m <= n
          /\ journal' = [journal EXCEPT ![d] = n]
    /\ MovesTo(d, "applying")
    /\ UNCHANGED <<applied, threw, holder, boots>>
Applies(d) ==
    /\ booting[d] = "applying"
    /\ applied' = [m \in Migrations |-> IF m > journal[d] /\ m <= FolderOf[d]
                                        THEN applied[m] + 1 ELSE applied[m]]
    /\ threw' \in {threw, threw \cup {d}}
    /\ MovesTo(d, "unlocking")
    /\ UNCHANGED <<journal, holder, boots>>
MigratorThrows(d) ==
    /\ booting[d] \in {"reading", "applying"}
    /\ threw' = threw \cup {d} /\ MovesTo(d, "unlocking")
    /\ UNCHANGED <<applied, journal, holder, boots>>

\* The finally blocks: the unlock, and the client back to the pool.
Ended(d) == MovesTo(d, IF d \in threw THEN "failed" ELSE "up")
Unlocks(d) ==
    /\ booting[d] = "unlocking"
    /\ LetGo(d) /\ Ended(d)
    /\ UNCHANGED <<applied, journal, threw, boots>>
\* With a live session, the lock goes to the pool with the client.
UnlockSwallowed(d) ==
    /\ booting[d] = "unlocking"
    /\ Ended(d)
    /\ UNCHANGED <<applied, journal, threw, holder, boots>>

\* The session ends: under way, when what it had not committed is undone; or later, as
\* the pool destroys an idle client or the process ends.
SessionDies(d) ==
    /\ \/ booting[d] \in {"reading", "applying"} /\ threw' = threw \cup {d} /\ MovesTo(d, "unlocking")
       \/ booting[d] \in {"up", "failed"} /\ holder = d /\ UNCHANGED <<threw, booting>>
       \/ booting[d] = "locking" /\ MovesTo(d, "failed") /\ UNCHANGED threw
    /\ LetGo(d)
    /\ UNCHANGED <<applied, journal, boots>>

MigNext ==
    \E d \in Booter :
        \/ Boots(d) \/ TakesLock(d) \/ LockTimesOut(d) \/ ReadsJournal(d) \/ Applies(d)
        \/ MigratorThrows(d) \/ Unlocks(d) \/ UnlockSwallowed(d) \/ SessionDies(d)

MigSpec == MigInit /\ [][MigNext]_migVars

----------------------------------------------------------------------------
\* However many daemons boot at once, of whichever build, whatever fails and whoever's
\* unlock is swallowed: no migration is applied twice, and a daemon that came up finds
\* all of its own.  (migrate.ts: "Serialize on an advisory lock".)
MigratedOnce ==
    /\ \A m \in Migrations : applied[m] <= 1
    /\ \A d \in Booter : booting[d] = "up" => \A m \in 1 .. FolderOf[d] : applied[m] = 1
=============================================================================
