---------------------------- MODULE MCServices -----------------------------
(***************************************************************************)
(* The parts of the system that are checked for safety alone, one instance *)
(* of each in one run.  They share no state: the initial state chooses the *)
(* part that moves, the others keep their initial values, so that the      *)
(* states are those of the nine specifications side by side.              *)
(***************************************************************************)
EXTENDS Registry, Creation, RowLocks, Embedded, RateLimit, RunsPage, ClaimConnection,
        SharedReads, RunDetail, TLC

CONSTANTS oldBuild, newBuild, bareBuild, hourly, daily,  \* workers, and cron patterns
          parent, child,  \* a run and its child
          caller1, caller2,
          task            \* what a list of runs is narrowed to

VARIABLE part

serviceVars == <<regVars, creVars, vars, embVars, rateVars, pageVars, conVars, readVars,
                 detailVars, part>>

\* Two processes of an old and a new build, and one of a build without cron.
MCVersionOf == oldBuild :> "v1" @@ newBuild :> "v2" @@ bareBuild :> "v3"
MCPatternOf == [v1 |-> hourly, v2 |-> daily, v3 |-> NoPattern]

\* Batches whose keys are in either order, and one that names a key twice.
MCBatches == {<<1, 2>>, <<2, 1, 2>>}

\* A run that waits for its child.
OneFamily == child :> parent @@ parent :> NoRun

\* Two callers whose buckets fill more slowly than the one they share.
SlowCallers == caller1 :> 1 @@ caller2 :> 1 @@ Shared :> 2

\* The first run and the last are of the task that one filter asks for.
MCRunsOf == All :> 1 .. MaxRuns @@ task :> {1, MaxRuns}

\* Bounds: nothing is explored beyond three changes of the list's filter, key or pause,
\* nor beyond the end of a third created run.
FewChanges == gen.no + apiKeyVersion + pauses <= 4
FewEnded   == Cardinality(created.ended \cup created.gone) <= 2

Parts == {"registry", "creation", "locks", "embedded", "rate", "page", "connection",
          "reads", "detail"}

ServicesInit ==
    /\ part \in Parts
    /\ RegInit /\ CreInit /\ Init /\ EmbInit /\ RateInit /\ PageInit /\ ConInit
    /\ ReadInit /\ DetailInit
    /\ part # "embedded" => resolver = Host /\ default = Host

ServicesNext ==
    /\ UNCHANGED part
    /\ \/ /\ part = "registry" /\ RegNext
          /\ UNCHANGED <<creVars, vars, embVars, rateVars, pageVars, conVars, readVars, detailVars>>
       \/ /\ part = "creation" /\ CreNext
          /\ UNCHANGED <<regVars, vars, embVars, rateVars, pageVars, conVars, readVars, detailVars>>
       \/ /\ part = "locks" /\ Next
          /\ UNCHANGED <<regVars, creVars, embVars, rateVars, pageVars, conVars, readVars, detailVars>>
       \/ /\ part = "embedded" /\ EmbNext
          /\ UNCHANGED <<regVars, creVars, vars, rateVars, pageVars, conVars, readVars, detailVars>>
       \/ /\ part = "rate" /\ RateNext
          /\ UNCHANGED <<regVars, creVars, vars, embVars, pageVars, conVars, readVars, detailVars>>
       \/ /\ part = "page" /\ PageNext
          /\ UNCHANGED <<regVars, creVars, vars, embVars, rateVars, conVars, readVars, detailVars>>
       \/ /\ part = "connection" /\ ConNext
          /\ UNCHANGED <<regVars, creVars, vars, embVars, rateVars, pageVars, readVars, detailVars>>
       \/ /\ part = "reads" /\ ReadNext
          /\ UNCHANGED <<regVars, creVars, vars, embVars, rateVars, pageVars, conVars, detailVars>>
       \/ /\ part = "detail" /\ DetailNext
          /\ UNCHANGED <<regVars, creVars, vars, embVars, rateVars, pageVars, conVars, readVars>>

ServicesSpec == ServicesInit /\ [][ServicesNext]_serviceVars
=============================================================================
