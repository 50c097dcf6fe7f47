----------------------------- MODULE PairRunner -----------------------------
(***************************************************************************)
(* The data paths (pairs) of one backup run: the planner that keeps        *)
(* overlapping paths apart, the executor loop of run_job, the worker of    *)
(* each pair with its anomaly guard, the initial resync, and the three     *)
(* stores that outlive a run: the history of a pair, its baseline and the  *)
(* quarantines.  A quick sync is a run of one unnamed pair.                *)
(*                                                                         *)
(* Runs come one after the other, by the scope lock of JobLifecycle.  A    *)
(* child whose end could not be confirmed lives on unattended: the next    *)
(* definition of the same batch or tick begins beside it, for only the     *)
(* recovery after a kill looks for living children.  The size of a source  *)
(* is a level from 0 to Full.  The checks of endpoints and the             *)
(* construction of the command either pass or fail.                        *)
(***************************************************************************)
EXTENDS Naturals, Sequences, FiniteSets

CONSTANTS
    RunPairs,     \* data paths
    QuickPairs,   \* those that are started as a quick sync
    Destructive,  \* those whose command may delete: bisync or mode sync
    Where,        \* the two endpoints of a pair
    Selections,   \* sequences of pairs a run may be asked for
    MaxParallel,  \* max_parallel
    Full,         \* level of a source that has not shrunk
    DropLimit,    \* fall of the level that is an anomaly
    MaxRuns, MaxShrinks, MaxDeaths  \* bounds

ASSUME RunAssumptions ==
    /\ QuickPairs \subseteq RunPairs /\ Destructive \subseteq RunPairs
    /\ MaxParallel \in Nat \ {0} /\ {Full, DropLimit} \subseteq Nat \ {0}
    /\ {MaxRuns, MaxShrinks, MaxDeaths} \subseteq Nat
    /\ \A sel \in Selections :
          /\ sel \in Seq(RunPairs) /\ sel # <<>>
          /\ \A i, j \in DOMAIN sel : sel[i] = sel[j] => i = j

Levels == 0 .. Full
Unmeasured == Full + 1   \* no baseline, or a measurement that failed

Stages == {"none", "precheck", "guard", "judge", "spawn", "drive", "resync",
           "redrive", "record", "over"}
Outcomes == {"none", "ok", "error", "skipped", "quarantined", "cancelled"}

VARIABLES
    runPhase,    \* idle, running, or dead: the process was killed
    loopAt,      \* the executor loop: top, fill, wait, verdict
    picked,      \* the pairs of the run, in order
    waiting,     \* pending: not yet submitted
    inFlight,    \* running: submitted, result not yet collected
    pairStage,   \* where the worker of a pair is
    pairResult,
    pairKids,    \* pairs with a living child their worker waits for
    stuck,       \* pairs with a living child nobody waits for any more
    runCancel,   \* is_cancelled()
    measured,    \* the level a worker measured
    baseline,    \* anomaly_guard:v1, baselines
    quarantines, \* anomaly_guard:v1, quarantines
    pairHistory, \* pair_baseline_state: new, ambiguous, succeeded
    source,      \* environment: the level of the source
    foundAt,     \* history: the level at which the quarantine was recorded
    releasedAt,  \* history: the level that was released by an acknowledgement
    resyncs,     \* history: automatic initial resyncs
    runs, shrinks, deaths

loopVars == <<runPhase, loopAt, picked, waiting, inFlight>>
pairVars == <<pairStage, pairResult, pairKids, stuck, measured>>
guardVars == <<baseline, quarantines, foundAt, releasedAt>>
runBounds == <<runs, shrinks, deaths>>
runVars == <<loopVars, pairVars, runCancel, guardVars, pairHistory, source,
             resyncs, runBounds>>

RunInit ==
    /\ runPhase = "idle" /\ loopAt = "top" /\ picked = <<>> /\ waiting = <<>>
    /\ inFlight = {}
    /\ pairStage = [p \in RunPairs |-> "none"]
    /\ pairResult = [p \in RunPairs |-> "none"]
    /\ pairKids = {} /\ stuck = {} /\ runCancel = FALSE
    /\ measured = [p \in RunPairs |-> Unmeasured]
    /\ baseline \in [RunPairs -> {Full, Unmeasured}]
    /\ \A p \in RunPairs : p \notin Destructive \ QuickPairs => baseline[p] = Unmeasured
    /\ quarantines = {}
    /\ pairHistory = [p \in RunPairs |->
          IF baseline[p] = Full THEN "succeeded" ELSE "new"]
    /\ source = [p \in RunPairs |-> Full]
    /\ foundAt = [p \in RunPairs |-> Unmeasured]
    /\ releasedAt = [p \in RunPairs |-> Unmeasured]
    /\ resyncs = [p \in RunPairs |-> 0]
    /\ runs = 0 /\ shrinks = 0 /\ deaths = 0

-----------------------------------------------------------------------------
(* The planner.                                                            *)

Under(a, b) == Len(b) <= Len(a) /\ \A i \in 1 .. Len(b) : a[i] = b[i]

(* One of the paths is the other or lies below it; a remote and a local     *)
(* path never overlap.                                                      *)
PathsOverlap(a, b) ==
    a.remote = b.remote /\ (Under(a.path, b.path) \/ Under(b.path, a.path))

PairsConflict(p, q) ==
    \E a \in {Where[p].local, Where[p].remote},
       b \in {Where[q].local, Where[q].remote} : PathsOverlap(a, b)

Runnable(i) == \A q \in inFlight : ~PairsConflict(waiting[i], q)

(* Mutant: the head of the list is taken, whatever is running. *)
NextRunnableHead == IF waiting = <<>> THEN {} ELSE {1}

(* _next_runnable_pair_index: the first that conflicts with nothing running. *)
NextRunnable == {i \in DOMAIN waiting :
                    Runnable(i) /\ \A j \in 1 .. (i - 1) : ~Runnable(j)}

-----------------------------------------------------------------------------
(* The executor loop of run_job.                                           *)

Mapped(f, s, v) == [p \in RunPairs |-> IF p \in s THEN v ELSE f[p]]
Elements(s) == {s[i] : i \in DOMAIN s}

(* run_job under the scope lock, of a new holder or the next definition of  *)
(* the same one, which has not looked for living children again.            *)
StartRun ==
    /\ runPhase = "idle" /\ runs < MaxRuns
    /\ \E sel \in Selections : picked' = sel /\ waiting' = sel
    /\ runPhase' = "running" /\ runs' = runs + 1
    /\ UNCHANGED <<loopAt, inFlight, pairVars, runCancel, guardVars, pairHistory,
                   source, resyncs, shrinks, deaths>>

(* The head of the loop: a cancelled run starts nothing that still waits.   *)
LoopTop ==
    /\ runPhase = "running" /\ loopAt = "top"
    /\ IF runCancel
       THEN /\ pairResult' = Mapped(pairResult, Elements(waiting), "cancelled")
            /\ waiting' = <<>>
       ELSE UNCHANGED <<pairResult, waiting>>
    /\ loopAt' = "fill"
    /\ UNCHANGED <<runPhase, picked, inFlight, pairStage, pairKids, stuck, measured,
                   runCancel, guardVars, pairHistory, source, resyncs, runBounds>>

(* pending.pop(i).                                                          *)
Popped(i) == [k \in 1 .. (Len(waiting) - 1) |-> waiting[IF k < i THEN k ELSE k + 1]]

(* ThreadPoolExecutor.submit for the first pair that may run.               *)
Submit ==
    /\ runPhase = "running" /\ loopAt = "fill"
    /\ Cardinality(inFlight) < MaxParallel
    /\ \E i \in NextRunnable :
          LET p == waiting[i] IN
          /\ waiting' = Popped(i)
          /\ inFlight' = inFlight \cup {p}
          /\ pairStage' = [pairStage EXCEPT ![p] = "precheck"]
    /\ UNCHANGED <<runPhase, loopAt, picked, pairResult, pairKids, stuck, measured,
                   runCancel, guardVars, pairHistory, source, resyncs, runBounds>>

(* No worker free or nothing that may run: wait; nothing left: the verdict. *)
Filled ==
    /\ runPhase = "running" /\ loopAt = "fill"
    /\ Cardinality(inFlight) >= MaxParallel \/ NextRunnable = {}
    /\ loopAt' = IF inFlight # {} THEN "wait"
                 ELSE IF waiting = <<>> THEN "verdict" ELSE "top"
    /\ UNCHANGED <<runPhase, picked, waiting, inFlight, pairVars, runCancel,
                   guardVars, pairHistory, source, resyncs, runBounds>>

(* Mutant: a future whose result was taken stays among the running ones. *)
CollectKeeps ==
    /\ runPhase = "running" /\ loopAt = "wait"
    /\ \E p \in inFlight : pairStage[p] = "over"
    /\ loopAt' = "top"
    /\ UNCHANGED <<runPhase, picked, waiting, inFlight, pairVars, runCancel, guardVars,
                   pairHistory, source, resyncs, runBounds>>

(* wait(FIRST_COMPLETED): every future that is done is collected.           *)
Collect ==
    /\ runPhase = "running" /\ loopAt = "wait"
    /\ LET done == {p \in inFlight : pairStage[p] = "over"} IN
          /\ done # {}
          /\ inFlight' = inFlight \ done
    /\ loopAt' = IF waiting = <<>> /\ inFlight' = {} THEN "verdict" ELSE "top"
    /\ UNCHANGED <<runPhase, picked, waiting, pairVars, runCancel, guardVars,
                   pairHistory, source, resyncs, runBounds>>

Attempted(ok) == [p \in RunPairs |->
    CASE p \notin Elements(picked) \ QuickPairs -> pairHistory[p]
      [] p \in ok                               -> "succeeded"
      [] pairHistory[p] = "new"                 -> "ambiguous"
      [] OTHER                                  -> pairHistory[p]]

(* What the process held of a run; begin_run starts from here.              *)
Forget ==
    /\ loopAt' = "top" /\ waiting' = <<>> /\ inFlight' = {} /\ runCancel' = FALSE
    /\ pairStage' = [p \in RunPairs |-> "none"]
    /\ pairResult' = [p \in RunPairs |-> "none"]
    /\ measured' = [p \in RunPairs |-> Unmeasured]

(* The summary is stored: _store_pair_results of job_finish.                *)
Verdict ==
    /\ runPhase = "running" /\ loopAt = "verdict"
    /\ pairHistory' = Attempted({p \in RunPairs : pairResult[p] = "ok"})
    /\ runPhase' = "idle" /\ picked' = <<>> /\ Forget
    /\ UNCHANGED <<pairKids, stuck, guardVars, source, resyncs, runBounds>>

-----------------------------------------------------------------------------
(* The worker of a pair, _sync_pair.                                       *)

At(p, s) == runPhase = "running" /\ p \in inFlight /\ pairStage[p] = s
Enter(p, s) == pairStage' = [pairStage EXCEPT ![p] = s] /\ UNCHANGED pairResult
Return(p, r) == pairStage' = [pairStage EXCEPT ![p] = "over"]
                /\ pairResult' = [pairResult EXCEPT ![p] = r]
Keeps == UNCHANGED <<loopVars, runCancel, pairHistory, source, runBounds>>
KeepsGuard == UNCHANGED <<guardVars, measured>>
KeepsKids == UNCHANGED <<pairKids, stuck, resyncs>>

(* _precheck_pair: an endpoint is unreachable, a count below its minimum, a  *)
(* mount or sentinel missing, or the space too little.                       *)
PrecheckFails(p) == Return(p, "skipped")

(* The identity of a local endpoint could not be taken.                      *)
EndpointsNotFixed(p) == Return(p, "skipped")

(* _build_pair_command refuses, or a measurement before it raises.           *)
CommandRefused(p) == Return(p, "error")

Prechecked(p) == Enter(p, IF p \in Destructive THEN "guard" ELSE "spawn")

Precheck(p) ==
    /\ At(p, "precheck")
    /\ PrecheckFails(p) \/ EndpointsNotFixed(p) \/ CommandRefused(p) \/ Prechecked(p)
    /\ Keeps /\ KeepsGuard /\ KeepsKids

Quarantined(p) == \E q \in quarantines : PairsConflict(p, q)

(* Mutant: only the record of the pair itself counts. *)
ActiveQuarantineOwn(p) == p \in Destructive /\ p \in quarantines

(* active_quarantine: of the pair itself or of any overlapping one.         *)
ActiveQuarantine(p) == p \in Destructive /\ (p \in quarantines \/ Quarantined(p))

Guard(p) ==
    /\ At(p, "guard")
    /\ IF ActiveQuarantine(p) THEN Return(p, "quarantined")
       ELSE Enter(p, IF p \in QuickPairs THEN "spawn" ELSE "judge")
    /\ Keeps /\ KeepsGuard /\ KeepsKids

Anomalous(p, level) ==
    /\ level \in Levels /\ baseline[p] \in Levels
    /\ baseline[p] >= level + DropLimit

(* measure_path, where a failed measurement is not a size of zero, and the  *)
(* update of the stored state in preflight_anomaly_guard, one transaction   *)
(* that reads baseline and quarantine again.                                *)
Judge(p) ==
    /\ At(p, "judge")
    /\ \E level \in {source[p], Unmeasured} :
          IF p \in quarantines
          THEN Return(p, "quarantined") /\ KeepsGuard
          ELSE IF Anomalous(p, level)
               THEN /\ Return(p, "quarantined")
                    /\ quarantines' = quarantines \cup {p}
                    /\ foundAt' = [foundAt EXCEPT ![p] = level]
                    /\ UNCHANGED <<baseline, releasedAt, measured>>
               ELSE /\ Enter(p, "spawn")
                    /\ measured' = [measured EXCEPT ![p] = level]
                    /\ UNCHANGED guardVars
    /\ Keeps /\ KeepsKids

(* is_cancelled before the command is started.                              *)
CancelledBefore(p) ==
    /\ At(p, "spawn") /\ runCancel
    /\ Return(p, "cancelled")
    /\ Keeps /\ KeepsGuard /\ KeepsKids

(* The check run_quick makes of the quarantines last of all.                *)
QuickStillFree(p) == p \in QuickPairs => ~ActiveQuarantine(p)

(* pre_spawn_check and Popen: the identity of the endpoints is confirmed.   *)
SpawnChild(p) ==
    /\ (At(p, "spawn") /\ ~runCancel) \/ At(p, "resync")
    /\ QuickStillFree(p)
    /\ pairKids' = pairKids \cup {p}
    /\ Enter(p, IF At(p, "resync") THEN "redrive" ELSE "drive")
    /\ resyncs' = IF At(p, "resync") THEN [resyncs EXCEPT ![p] = @ + 1] ELSE resyncs
    /\ Keeps /\ KeepsGuard /\ UNCHANGED stuck

SpawnRefused(p) ==
    /\ (At(p, "spawn") /\ ~runCancel) \/ At(p, "resync")
    /\ Return(p, "error")
    /\ Keeps /\ KeepsGuard /\ KeepsKids

(* What is known of a pair: nothing but its current attempt, a success, or  *)
(* attempts that ended without one.                                         *)
PairBaselineState(p) == pairHistory[p]

(* _first_run_resync_allowed: nothing but the current attempt is known.     *)
(* (auto_resync, which allows it always, is off.)                           *)
FirstResyncAllowed(p) == p \in Destructive \ QuickPairs /\ PairBaselineState(p) = "new"

(* Mutant: the run after a resync may ask for another one. *)
ResyncFollowsAgain(p) == FirstResyncAllowed(p) /\ ~runCancel

(* Only the first run of the command may ask for a resync.                  *)
ResyncFollows(p) == At(p, "drive") /\ FirstResyncAllowed(p) /\ ~runCancel

(* The child ends by itself with code 0, with another one, or asking for a  *)
(* resync; a second time asking is an error.                                *)
ChildExits(p) ==
    /\ At(p, "drive") \/ At(p, "redrive")
    /\ p \in pairKids
    /\ pairKids' = pairKids \ {p}
    /\ \/ IF runCancel THEN Return(p, "cancelled") ELSE Enter(p, "record")
       \/ Return(p, IF runCancel THEN "cancelled" ELSE "error")
       \/ ResyncFollows(p) /\ Enter(p, "resync")
    /\ Keeps /\ KeepsGuard /\ UNCHANGED <<stuck, resyncs>>

(* Cancel (130) or watchdog: _terminate_proc, confirmed or not.             *)
ChildStopped(p) ==
    /\ At(p, "drive") \/ At(p, "redrive")
    /\ p \in pairKids /\ pairKids' = pairKids \ {p}
    /\ \/ UNCHANGED stuck /\ Return(p, IF runCancel THEN "cancelled" ELSE "error")
       \/ stuck' = stuck \cup {p} /\ Return(p, "error")
    /\ Keeps /\ KeepsGuard /\ UNCHANGED resyncs

(* A successful pair moves its baseline to what it measured beforehand;     *)
(* pair["ok"] was decided before.                                           *)
RecordBaseline(p) ==
    /\ At(p, "record")
    /\ Return(p, "ok")
    /\ IF measured[p] \in Levels
       THEN /\ baseline' = [baseline EXCEPT ![p] = measured[p]]
            /\ releasedAt' = [releasedAt EXCEPT ![p] = Unmeasured]
       ELSE UNCHANGED <<baseline, releasedAt>>
    /\ Keeps /\ UNCHANGED <<measured, quarantines, foundAt>> /\ KeepsKids

WorkerStep(p) ==
    \/ Precheck(p) \/ Guard(p) \/ CancelledBefore(p) \/ SpawnChild(p) \/ SpawnRefused(p)
    \/ ChildExits(p) \/ ChildStopped(p) \/ RecordBaseline(p)

(* A quick sync measures nothing and is given no resync.                    *)
RunQuick(p) == p \in QuickPairs /\ WorkerStep(p)
SyncPair(p) == p \notin QuickPairs /\ (WorkerStep(p) \/ Judge(p))
PairStep(p) == RunQuick(p) \/ SyncPair(p)

-----------------------------------------------------------------------------
(* Around the run.                                                         *)

RequestRunCancel ==
    /\ runPhase = "running" /\ ~runCancel /\ runCancel' = TRUE
    /\ UNCHANGED <<loopVars, pairVars, guardVars, pairHistory, source, resyncs,
                   runBounds>>

(* acknowledge_quarantine: the record of the pair and of overlapping ones.  *)
Acknowledge(p) ==
    LET gone == {q \in quarantines : p = q \/ PairsConflict(p, q)} IN
    /\ gone # {}
    /\ quarantines' = quarantines \ gone
    /\ releasedAt' = [q \in RunPairs |->
                         IF q \in gone THEN foundAt[q] ELSE releasedAt[q]]
    /\ UNCHANGED <<loopVars, pairVars, runCancel, baseline, foundAt, pairHistory,
                   source, resyncs, runBounds>>

StuckChildEnds(p) ==
    /\ p \in stuck
    /\ stuck' = stuck \ {p}
    /\ UNCHANGED <<loopVars, pairStage, pairResult, pairKids, measured, runCancel, guardVars,
                   pairHistory, source, resyncs, runBounds>>

SourceShrinks(p) ==
    /\ shrinks < MaxShrinks /\ shrinks' = shrinks + 1
    /\ p \in Destructive \ QuickPairs /\ source[p] > 0
    /\ \E l \in 0 .. (source[p] - 1) : source' = [source EXCEPT ![p] = l]
    /\ UNCHANGED <<loopVars, pairVars, runCancel, guardVars, pairHistory, resyncs,
                   runs, deaths>>

(* The process of the run is killed; its children live on.                  *)
RunDies ==
    /\ runPhase = "running" /\ deaths < MaxDeaths /\ deaths' = deaths + 1
    /\ runPhase' = "dead" /\ stuck' = stuck \cup pairKids /\ pairKids' = {} /\ Forget
    /\ UNCHANGED <<picked, guardVars, pairHistory, source,
                   resyncs, runs, shrinks>>

(* The next holder of the scope finds no living child and closes the row:   *)
(* the attempts of a killed run end as stale                                *)
(* (_terminalize_running_attempts).                                         *)
RunRecovered ==
    /\ runPhase = "dead" /\ stuck = {}
    /\ pairHistory' = Attempted({})
    /\ runPhase' = "idle" /\ picked' = <<>>
    /\ UNCHANGED <<loopAt, waiting, inFlight, pairVars, runCancel, guardVars, source,
                   resyncs, runBounds>>

LoopStep == LoopTop \/ Submit \/ Filled \/ Collect \/ Verdict

RunNext ==
    \/ StartRun \/ LoopStep \/ RequestRunCancel \/ RunDies \/ RunRecovered
    \/ \E p \in RunPairs : PairStep(p) \/ Acknowledge(p) \/ StuckChildEnds(p)
                           \/ SourceShrinks(p)

(* Some thread of a live process goes on, and a child ends: by itself or by *)
(* its watchdog.                                                            *)
RunFairness == WF_runVars(LoopStep \/ \E p \in RunPairs : PairStep(p))

RunSpec == RunInit /\ [][RunNext]_runVars /\ RunFairness

-----------------------------------------------------------------------------
RunTypeOK ==
    /\ runPhase \in {"idle", "running", "dead"}
    /\ loopAt \in {"top", "fill", "wait", "verdict"}
    /\ picked \in Selections \cup {<<>>} /\ waiting \in Seq(RunPairs)
    /\ inFlight \subseteq RunPairs /\ Cardinality(inFlight) <= MaxParallel
    /\ pairStage \in [RunPairs -> Stages] /\ pairResult \in [RunPairs -> Outcomes]
    /\ stuck \subseteq RunPairs /\ pairKids \subseteq RunPairs
    /\ runCancel \in BOOLEAN /\ quarantines \subseteq RunPairs
    /\ {measured, baseline, foundAt, releasedAt, source}
          \subseteq [RunPairs -> Levels \cup {Unmeasured}]
    /\ pairHistory \in [RunPairs -> {"new", "ambiguous", "succeeded"}]
    /\ resyncs \in [RunPairs -> Nat] /\ IsFiniteSet(inFlight)

(* Children of overlapping pairs that somebody attends never write at the   *)
(* same time: the planner gives a worker only what conflicts with nothing   *)
(* in flight.  It says nothing of a child whose end could not be confirmed  *)
(* after SIGKILL, beside which the next run may begin.                      *)
OverlapSerialised ==
    \A p, q \in pairKids : p # q => ~PairsConflict(p, q)

(* A child that may delete never starts on a path a recorded quarantine     *)
(* covers.  The guard reads the records of overlapping pairs long before    *)
(* the start; what closes the gap is that overlapping pairs are never in    *)
(* flight together and that runs come one after the other.                  *)
QuarantineHolds ==
    [][\A p \in (pairKids' \ pairKids) \cap Destructive : ~Quarantined(p)]_runVars

(* A pair is given its initial resync at most once, across runs and kills:  *)
(* the attempt is recorded before the child starts and closed by whoever    *)
(* recovers the run.                                                        *)
FirstResyncOnce == \A p \in RunPairs : resyncs[p] <= 1

(* A run that begins ends: neither conflicting pairs nor a cancel nor a     *)
(* child that survives SIGKILL leaves the loop waiting for ever.            *)
RunEnds == (runPhase = "running") ~> (runPhase # "running")

(* What an acknowledgement has released does not stop the next run again    *)
(* unless the source has shrunk further.                                    *)
ReleaseHolds ==
    \A p \in quarantines : releasedAt[p] \in Levels => foundAt[p] < releasedAt[p]
=============================================================================
