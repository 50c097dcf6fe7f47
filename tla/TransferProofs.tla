--------------------------- MODULE TransferProofs ---------------------------
(***************************************************************************)
(* Machine-checked proofs about the two components that move files: the    *)
(* runs of data paths (PairRunner) and the uploads of a phone              *)
(* (VaultUpload).  They share no state.                                    *)
(*                                                                         *)
(* PairRunner, for any set of data paths, any overlaps between them, any   *)
(* number of workers, runs and kills.  The inductive invariant is          *)
(* RunInvariant.  What is in flight conflicts with nothing else in flight  *)
(* and a pair is taken once (LoopOK); a child somebody waits for belongs   *)
(* to a pair in flight (ChildrenOK); a pair in flight that passed the      *)
(* guard lies under no quarantine (GuardOK); what was given its resync is  *)
(* known to the history, or to the run that gave it (ResyncOK).            *)
(*                                                                         *)
(* VaultUpload, for any number of uploads, any contents they share, any    *)
(* size of a file and any number of crashes, damaged chunks and damaged    *)
(* copies.  The inductive invariant is VaultInvariant.  Beside the types   *)
(* it says where the parts of one upload exclude each other: a creation    *)
(* that has looked for the blob has no receipt yet, a receipt that does    *)
(* not exist was never spoken of, and a completion at work has its receipt *)
(* to itself.                                                              *)
(***************************************************************************)
EXTENDS PairRunner, VaultUpload, FiniteSetTheorems, SequenceTheorems, TLAPS

LoopOK ==
    /\ \A i, j \in DOMAIN waiting : waiting[i] = waiting[j] => i = j
    /\ \A i \in DOMAIN waiting : waiting[i] \notin inFlight /\ waiting[i] \in Elements(picked)
    /\ inFlight \subseteq Elements(picked)
    /\ runPhase # "running" => inFlight = {} /\ waiting = <<>> /\ loopAt = "top"
    /\ loopAt = "verdict" => inFlight = {} /\ waiting = <<>>
    /\ \A p, q \in inFlight : p # q => ~PairsConflict(p, q)

ChildrenOK ==
    \A p \in pairKids : p \in inFlight /\ pairStage[p] \in {"drive", "redrive"}

Judged == {"judge", "spawn", "drive", "resync", "redrive", "record"}

GuardOK ==
    \A p \in inFlight : p \in Destructive \ QuickPairs /\ pairStage[p] \in Judged =>
                           ~Quarantined(p)

ResyncOK ==
    /\ \A p \in RunPairs : resyncs[p] <= 1
    /\ \A p \in RunPairs : resyncs[p] # 0 /\ pairHistory[p] = "new" =>
          /\ p \in Elements(picked) \ QuickPairs
          /\ runPhase # "idle"
          /\ runPhase = "running" =>
                /\ \A i \in DOMAIN waiting : waiting[i] # p
                /\ pairStage[p] \in {"redrive", "record", "over"}
    /\ \A p \in inFlight : pairStage[p] = "resync" =>
          /\ p \notin QuickPairs
          /\ resyncs[p] = 0 /\ pairHistory[p] = "new"

RunInvariant == RunTypeOK /\ LoopOK /\ ChildrenOK /\ GuardOK /\ ResyncOK

-----------------------------------------------------------------------------
Measurements == [RunPairs -> Levels \cup {Unmeasured}]

LEMMA RunFacts ==
    ASSUME RunTypeOK
    PROVE  /\ pairStage \in [RunPairs -> Stages] /\ pairResult \in [RunPairs -> Outcomes]
           /\ measured \in Measurements /\ baseline \in Measurements /\ foundAt \in Measurements
           /\ releasedAt \in Measurements /\ source \in Measurements
           /\ Len(waiting) \in Nat /\ DOMAIN waiting = 1 .. Len(waiting)
           /\ waiting \in [1 .. Len(waiting) -> RunPairs]
           /\ inFlight \subseteq RunPairs /\ IsFiniteSet(inFlight)
           /\ Cardinality(inFlight) \in Nat
           /\ pairHistory \in [RunPairs -> {"new", "ambiguous", "succeeded"}]
           /\ resyncs \in [RunPairs -> Nat]
           /\ Full \in Nat /\ DropLimit \in Nat /\ MaxParallel \in Nat
BY RunAssumptions, FS_CardinalityType, LenProperties DEF RunTypeOK, Measurements

LEMMA ReturnType ==
    ASSUME RunTypeOK, NEW p \in RunPairs, NEW r \in Outcomes, Return(p, r)
    PROVE  pairStage' \in [RunPairs -> Stages] /\ pairResult' \in [RunPairs -> Outcomes]
BY DEF RunTypeOK, Return, Stages

LEMMA EnterType ==
    ASSUME RunTypeOK, NEW p \in RunPairs, NEW t \in Stages, Enter(p, t)
    PROVE  pairStage' \in [RunPairs -> Stages] /\ pairResult' \in [RunPairs -> Outcomes]
BY DEF RunTypeOK, Enter

(* What is left when the i-th is taken.                                     *)
LEMMA PoppedIs ==
    ASSUME RunTypeOK, NEW i \in DOMAIN waiting
    PROVE  /\ Popped(i) \in Seq(RunPairs)
           /\ DOMAIN Popped(i) = 1 .. (Len(waiting) - 1)
           /\ \A k \in DOMAIN Popped(i) : \E j \in DOMAIN waiting :
                 j # i /\ Popped(i)[k] = waiting[j] /\ (k < i => j = k) /\ (k >= i => j = k + 1)
<1>1. /\ Len(waiting) \in Nat /\ DOMAIN waiting = 1 .. Len(waiting)
      /\ waiting \in [1 .. Len(waiting) -> RunPairs]
  BY RunFacts
<1>2. Len(waiting) - 1 \in Nat
  BY <1>1
<1>3. /\ Popped(i) \in [1 .. (Len(waiting) - 1) -> RunPairs]
      /\ DOMAIN Popped(i) = 1 .. (Len(waiting) - 1)
      /\ \A k \in 1 .. (Len(waiting) - 1) :
            Popped(i)[k] = waiting[IF k < i THEN k ELSE k + 1]
  BY <1>1, <1>2 DEF Popped
<1>4. Popped(i) \in Seq(RunPairs)
  BY <1>2, <1>3, SeqDef
<1>5. ASSUME NEW k \in DOMAIN Popped(i)
      PROVE  \E j \in DOMAIN waiting :
                j # i /\ Popped(i)[k] = waiting[j] /\ (k < i => j = k) /\ (k >= i => j = k + 1)
  <2>1. CASE k < i
    BY <1>1, <1>3, <1>5, <2>1
  <2>2. CASE ~(k < i)
    <3>1. /\ k + 1 \in DOMAIN waiting /\ k + 1 # i /\ k >= i
          /\ Popped(i)[k] = waiting[k + 1]
      BY <1>1, <1>3, <1>5, <2>2
    <3> QED BY <2>2, <3>1
  <2> QED BY <2>1, <2>2
<1> QED BY <1>3, <1>4, <1>5

LEMMA NoElements == Elements(<<>>) = {} /\ DOMAIN <<>> = {} /\ \A S : <<>> \in Seq(S)
BY DEF Elements

LEMMA SelectionFacts ==
    ASSUME NEW sel \in Selections
    PROVE  /\ sel \in Seq(RunPairs) /\ sel # <<>>
           /\ \A i, j \in DOMAIN sel : sel[i] = sel[j] => i = j
BY RunAssumptions

(* Every variable keeps its type.                                           *)
LEMMA RunTypeStep ==
    ASSUME RunTypeOK, [RunNext]_runVars
    PROVE  RunTypeOK'
<1> USE DEF loopVars, pairVars, guardVars, runBounds, Keeps, KeepsGuard, KeepsKids
<1>0. /\ runPhase \in {"idle", "running", "dead"}
      /\ loopAt \in {"top", "fill", "wait", "verdict"}
      /\ picked \in Selections \cup {<<>>} /\ waiting \in Seq(RunPairs)
      /\ inFlight \subseteq RunPairs /\ Cardinality(inFlight) <= MaxParallel
      /\ IsFiniteSet(inFlight)
      /\ pairStage \in [RunPairs -> Stages] /\ pairResult \in [RunPairs -> Outcomes]
      /\ stuck \subseteq RunPairs /\ pairKids \subseteq RunPairs
      /\ runCancel \in BOOLEAN /\ quarantines \subseteq RunPairs
      /\ measured \in Measurements /\ baseline \in Measurements /\ foundAt \in Measurements
      /\ releasedAt \in Measurements /\ source \in Measurements
      /\ pairHistory \in [RunPairs -> {"new", "ambiguous", "succeeded"}]
      /\ resyncs \in [RunPairs -> Nat]
  BY DEF RunTypeOK, Measurements
<1>m. Unmeasured \in Levels \cup {Unmeasured}
  OBVIOUS
<1>h. ASSUME NEW ok
      PROVE  Attempted(ok) \in [RunPairs -> {"new", "ambiguous", "succeeded"}]
  BY <1>0 DEF Attempted
<1>f. ASSUME Forget
      PROVE  /\ loopAt' = "top" /\ waiting' \in Seq(RunPairs)
             /\ inFlight' \subseteq RunPairs /\ Cardinality(inFlight') <= MaxParallel
             /\ IsFiniteSet(inFlight')
             /\ pairStage' \in [RunPairs -> Stages] /\ pairResult' \in [RunPairs -> Outcomes]
             /\ runCancel' \in BOOLEAN /\ measured' \in Measurements
  <2>1. inFlight' = {} /\ waiting' = <<>> /\ loopAt' = "top" /\ runCancel' = FALSE
    BY <1>f DEF Forget
  <2>2. IsFiniteSet({}) /\ Cardinality({}) = 0 /\ MaxParallel \in Nat
    BY FS_EmptySet, RunAssumptions
  <2>3. /\ pairStage' \in [RunPairs -> Stages] /\ pairResult' \in [RunPairs -> Outcomes]
        /\ measured' \in Measurements
    BY <1>f DEF Forget, Stages, Outcomes, Measurements
  <2>4. Cardinality(inFlight') <= MaxParallel
    <3>1. Cardinality(inFlight') = 0
      BY <2>1, <2>2
    <3> QED BY <2>2, <3>1
  <2>5. waiting' \in Seq(RunPairs)
    BY <2>1, NoElements
  <2> QED BY <2>1, <2>2, <2>3, <2>4, <2>5
<1>1. CASE StartRun
  <2>1. PICK sel \in Selections : picked' = sel /\ waiting' = sel
    BY <1>1 DEF StartRun
  <2> QED BY <1>0, <1>1, <2>1, SelectionFacts DEF StartRun, RunTypeOK, Measurements
<1>2. CASE LoopTop
  <2>1. pairResult' \in [RunPairs -> Outcomes] /\ waiting' \in Seq(RunPairs)
    <3>1. Mapped(pairResult, Elements(waiting), "cancelled") \in [RunPairs -> Outcomes]
      BY <1>0 DEF Mapped, Outcomes
    <3> QED BY <1>0, <1>2, <3>1, NoElements DEF LoopTop
  <2> QED BY <1>0, <1>2, <2>1 DEF LoopTop, RunTypeOK, Measurements
<1>3. CASE Submit
  <2>1. PICK i \in DOMAIN waiting :
           /\ waiting' = Popped(i) /\ inFlight' = inFlight \cup {waiting[i]}
           /\ pairStage' = [pairStage EXCEPT ![waiting[i]] = "precheck"]
    BY <1>3 DEF Submit, NextRunnable
  <2>2. waiting[i] \in RunPairs /\ waiting' \in Seq(RunPairs)
    BY <2>1, RunFacts, PoppedIs
  <2>3. IsFiniteSet(inFlight') /\ Cardinality(inFlight') <= MaxParallel
    <3>1. Cardinality(inFlight) < MaxParallel /\ Cardinality(inFlight) \in Nat
          /\ MaxParallel \in Nat
      BY <1>3, RunFacts DEF Submit
    <3>2. /\ IsFiniteSet(inFlight \cup {waiting[i]})
          /\ \/ Cardinality(inFlight \cup {waiting[i]}) = Cardinality(inFlight)
             \/ Cardinality(inFlight \cup {waiting[i]}) = Cardinality(inFlight) + 1
      BY <1>0, FS_AddElement, Zenon
    <3> QED BY <2>1, <3>1, <3>2
  <2>4. pairStage' \in [RunPairs -> Stages] /\ inFlight' \subseteq RunPairs
    BY <1>0, <2>1, <2>2 DEF Stages
  <2> QED BY <1>0, <1>3, <2>2, <2>3, <2>4 DEF Submit, RunTypeOK, Measurements
<1>4. CASE Filled
  BY <1>0, <1>4 DEF Filled, RunTypeOK, Measurements
<1>5. CASE Collect
  <2>1. inFlight' \subseteq inFlight
    BY <1>5 DEF Collect
  <2>2. IsFiniteSet(inFlight') /\ Cardinality(inFlight') <= MaxParallel
    <3>1. /\ IsFiniteSet(inFlight') /\ Cardinality(inFlight') <= Cardinality(inFlight)
      BY <1>0, <2>1, FS_Subset
    <3>2. Cardinality(inFlight') \in Nat /\ Cardinality(inFlight) \in Nat /\ MaxParallel \in Nat
      BY <3>1, FS_CardinalityType, RunFacts
    <3> QED BY <1>0, <3>1, <3>2
  <2>3. loopAt' \in {"top", "verdict"}
    BY <1>5 DEF Collect
  <2> QED BY <1>0, <1>5, <2>1, <2>2, <2>3 DEF Collect, RunTypeOK, Measurements
<1>6. CASE Verdict
  BY <1>0, <1>6, <1>f, <1>h DEF Verdict, RunTypeOK, Measurements
<1>7. CASE RequestRunCancel
  BY <1>0, <1>7 DEF RequestRunCancel, RunTypeOK, Measurements
<1>8. CASE RunDies
  BY <1>0, <1>8, <1>f DEF RunDies, RunTypeOK, Measurements
<1>9. CASE RunRecovered
  BY <1>0, <1>9, <1>h DEF RunRecovered, RunTypeOK, Measurements
<1>10. ASSUME NEW p \in RunPairs, Precheck(p) PROVE RunTypeOK'
  <2>1. \/ \E r \in Outcomes : Return(p, r)
        \/ \E t \in Stages : Enter(p, t)
    BY <1>10 DEF Precheck, PrecheckFails, EndpointsNotFixed, CommandRefused, Prechecked,
                 Outcomes, Stages
  <2>2. pairStage' \in [RunPairs -> Stages] /\ pairResult' \in [RunPairs -> Outcomes]
    BY <2>1, ReturnType, EnterType
  <2> QED BY <1>0, <1>10, <2>2 DEF Precheck, RunTypeOK, Measurements
<1>11. ASSUME NEW p \in RunPairs, Guard(p) PROVE RunTypeOK'
  <2>1. \/ \E r \in Outcomes : Return(p, r)
        \/ \E t \in Stages : Enter(p, t)
    BY <1>11 DEF Guard, Outcomes, Stages
  <2>2. pairStage' \in [RunPairs -> Stages] /\ pairResult' \in [RunPairs -> Outcomes]
    BY <2>1, ReturnType, EnterType
  <2> QED BY <1>0, <1>11, <2>2 DEF Guard, RunTypeOK, Measurements
<1>12. ASSUME NEW p \in RunPairs, Judge(p) PROVE RunTypeOK'
  <2>1. PICK level \in {source[p], Unmeasured} :
          IF p \in quarantines
          THEN Return(p, "quarantined") /\ KeepsGuard
          ELSE IF Anomalous(p, level)
               THEN /\ Return(p, "quarantined")
                    /\ quarantines' = quarantines \cup {p}
                    /\ foundAt' = [foundAt EXCEPT ![p] = level]
                    /\ UNCHANGED <<baseline, releasedAt, measured>>
               ELSE /\ Enter(p, "spawn")
                    /\ measured' = [measured EXCEPT ![p] = level]
                    /\ UNCHANGED guardVars
    BY <1>12 DEF Judge
  <2>2. level \in Levels \cup {Unmeasured}
    BY <1>0, <1>m DEF Measurements
  <2>3. Return(p, "quarantined") \/ Enter(p, "spawn")
    BY <2>1
  <2>4. pairStage' \in [RunPairs -> Stages] /\ pairResult' \in [RunPairs -> Outcomes]
    BY <2>3, ReturnType, EnterType DEF Stages, Outcomes
  <2>5. /\ measured' \in Measurements /\ foundAt' \in Measurements /\ quarantines' \subseteq RunPairs
        /\ UNCHANGED <<baseline, releasedAt>>
    BY <1>0, <2>1, <2>2 DEF Measurements
  <2> QED BY <1>0, <1>12, <2>4, <2>5 DEF Judge, RunTypeOK, Measurements
<1>13. ASSUME NEW p \in RunPairs, CancelledBefore(p) \/ SpawnRefused(p) PROVE RunTypeOK'
  <2>1. \E r \in Outcomes : Return(p, r)
    BY <1>13 DEF CancelledBefore, SpawnRefused, Outcomes
  <2>2. pairStage' \in [RunPairs -> Stages] /\ pairResult' \in [RunPairs -> Outcomes]
    BY <2>1, ReturnType
  <2> QED BY <1>0, <1>13, <2>2 DEF CancelledBefore, SpawnRefused, RunTypeOK, Measurements
<1>14. ASSUME NEW p \in RunPairs, SpawnChild(p) PROVE RunTypeOK'
  <2>1. \E t \in Stages : Enter(p, t)
    BY <1>14 DEF SpawnChild, Stages
  <2>2. pairStage' \in [RunPairs -> Stages] /\ pairResult' \in [RunPairs -> Outcomes]
    BY <2>1, EnterType
  <2>3. resyncs' = resyncs \/ resyncs' = [resyncs EXCEPT ![p] = @ + 1]
    BY <1>14 DEF SpawnChild
  <2>4. resyncs' \in [RunPairs -> Nat]
    BY <1>0, <2>3
  <2> QED BY <1>0, <1>14, <2>2, <2>4 DEF SpawnChild, RunTypeOK, Measurements
<1>15. ASSUME NEW p \in RunPairs, ChildExits(p) PROVE RunTypeOK'
  <2>1. \/ \E r \in Outcomes : Return(p, r)
        \/ \E t \in Stages : Enter(p, t)
    BY <1>15 DEF ChildExits, ResyncFollows, Outcomes, Stages
  <2>2. pairStage' \in [RunPairs -> Stages] /\ pairResult' \in [RunPairs -> Outcomes]
    BY <2>1, ReturnType, EnterType
  <2>3. pairKids' = pairKids \ {p}
    BY <1>15 DEF ChildExits
  <2> QED BY <1>0, <1>15, <2>2, <2>3 DEF ChildExits, RunTypeOK, Measurements
<1>16. ASSUME NEW p \in RunPairs, ChildStopped(p) PROVE RunTypeOK'
  <2>1. \E r \in Outcomes : Return(p, r)
    BY <1>16 DEF ChildStopped, Outcomes
  <2>2. pairStage' \in [RunPairs -> Stages] /\ pairResult' \in [RunPairs -> Outcomes]
    BY <2>1, ReturnType
  <2>3. stuck' \subseteq RunPairs /\ pairKids' \subseteq RunPairs
    BY <1>0, <1>16 DEF ChildStopped
  <2> QED BY <1>0, <1>16, <2>2, <2>3 DEF ChildStopped, RunTypeOK, Measurements
<1>17. ASSUME NEW p \in RunPairs, RecordBaseline(p) PROVE RunTypeOK'
  <2>1. pairStage' \in [RunPairs -> Stages] /\ pairResult' \in [RunPairs -> Outcomes]
    BY <1>17, ReturnType DEF RecordBaseline, Outcomes
  <2>2. baseline' \in Measurements /\ releasedAt' \in Measurements
    BY <1>0, <1>m, <1>17 DEF RecordBaseline, Measurements
  <2> QED BY <1>0, <1>17, <2>1, <2>2 DEF RecordBaseline, RunTypeOK, Measurements
<1>18. ASSUME NEW p \in RunPairs, Acknowledge(p) PROVE RunTypeOK'
  <2>1. releasedAt' \in Measurements /\ quarantines' \subseteq RunPairs
    BY <1>0, <1>18 DEF Acknowledge, Measurements
  <2> QED BY <1>0, <1>18, <2>1 DEF Acknowledge, RunTypeOK, Measurements
<1>19. ASSUME NEW p \in RunPairs, StuckChildEnds(p) PROVE RunTypeOK'
  BY <1>0, <1>19 DEF StuckChildEnds, RunTypeOK, Measurements
<1>20. ASSUME NEW p \in RunPairs, SourceShrinks(p) PROVE RunTypeOK'
  <2>1. PICK l \in 0 .. (source[p] - 1) : source' = [source EXCEPT ![p] = l]
    BY <1>20 DEF SourceShrinks
  <2>2. l \in Levels
    <3>1. Full \in Nat /\ source[p] \in 0 .. Full \cup {Full + 1}
      BY <1>0, RunAssumptions DEF Measurements, Levels, Unmeasured
    <3> QED BY <3>1 DEF Levels
  <2>3. source' \in Measurements
    BY <1>0, <2>1, <2>2 DEF Measurements
  <2> QED BY <1>0, <1>20, <2>3 DEF SourceShrinks, RunTypeOK, Measurements
<1>21. CASE UNCHANGED runVars
  BY <1>0, <1>21 DEF runVars, RunTypeOK, Measurements
<1>22. ASSUME NEW p \in RunPairs, PairStep(p) PROVE RunTypeOK'
  BY <1>10, <1>11, <1>12, <1>13, <1>14, <1>15, <1>16, <1>17, <1>22
     DEF PairStep, RunQuick, SyncPair, WorkerStep
<1> QED BY <1>1, <1>2, <1>3, <1>4, <1>5, <1>6, <1>7, <1>8, <1>9, <1>18, <1>19, <1>20, <1>21,
           <1>22 DEF RunNext, LoopStep

-----------------------------------------------------------------------------
(* What the step of a worker does, by what becomes of the child of its pair *)
(* as the pair goes on to stage t: nothing, a start, an end, or an end that *)
(* could not be confirmed.                                                  *)
Quietly(p, t) ==
    /\ UNCHANGED <<pairKids, stuck, resyncs>>
    /\ pairStage[p] \notin {"drive", "redrive", "over"}
    /\ t \in {"guard", "judge", "spawn", "over"}
    /\ pairStage[p] = "record" => t = "over"

Starting(p, t) ==
    /\ pairKids' = pairKids \cup {p} /\ UNCHANGED stuck
    /\ \/ pairStage[p] = "spawn" /\ t = "drive" /\ UNCHANGED resyncs
       \/ /\ pairStage[p] = "resync" /\ t = "redrive"
          /\ resyncs' = [resyncs EXCEPT ![p] = @ + 1]

Ending(p, t) ==
    /\ pairStage[p] \in {"drive", "redrive"}
    /\ pairKids' = pairKids \ {p} /\ UNCHANGED <<stuck, resyncs>>
    /\ \/ t \in {"record", "over"}
       \/ pairStage[p] = "drive" /\ t = "resync" /\ FirstResyncAllowed(p)

Sticking(p, t) ==
    /\ pairStage[p] \in {"drive", "redrive"} /\ p \in pairKids /\ t = "over"
    /\ stuck' = stuck \cup {p} /\ pairKids' = pairKids \ {p} /\ UNCHANGED resyncs

(* What it does to the records of the guard, and what the guard found.      *)
Guarding(p, t) ==
    /\ \/ UNCHANGED quarantines
       \/ quarantines' = quarantines \cup {p} /\ t = "over"
    /\ t \in Judged /\ p \in Destructive \ QuickPairs =>
          pairStage[p] \in Judged \/ ~Quarantined(p)

OfStep(p, t) ==
    /\ pairStage' = [pairStage EXCEPT ![p] = t]
    /\ Quietly(p, t) \/ Starting(p, t) \/ Ending(p, t) \/ Sticking(p, t)
    /\ Guarding(p, t)

LEMMA WorkerSteps ==
    ASSUME RunTypeOK, NEW p \in RunPairs, PairStep(p)
    PROVE  /\ p \in inFlight /\ runPhase = "running"
           /\ UNCHANGED <<loopVars, pairHistory>>
           /\ \E t \in Stages : OfStep(p, t)
<1> USE DEF Keeps, KeepsGuard, KeepsKids, guardVars, At, Return, Enter
<1>1. CASE Precheck(p)
  <2>1. PICK t \in {"guard", "spawn", "over"} :
           /\ pairStage' = [pairStage EXCEPT ![p] = t]
           /\ t = "spawn" => p \notin Destructive
    BY <1>1 DEF Precheck, PrecheckFails, EndpointsNotFixed, CommandRefused, Prechecked
  <2>2. OfStep(p, t)
    BY <1>1, <2>1 DEF Precheck, OfStep, Quietly, Guarding, Judged
  <2> QED BY <1>1, <2>1, <2>2 DEF Precheck, Stages
<1>2. CASE Guard(p)
  <2>1. PICK t \in {"judge", "spawn", "over"} :
           /\ pairStage' = [pairStage EXCEPT ![p] = t]
           /\ t # "over" => ~ActiveQuarantine(p)
    BY <1>2 DEF Guard
  <2>2. OfStep(p, t)
    BY <1>2, <2>1 DEF Guard, OfStep, Quietly, Guarding, Judged, ActiveQuarantine
  <2> QED BY <1>2, <2>1, <2>2 DEF Guard, Stages
<1>3. CASE Judge(p)
  <2>1. PICK t \in {"spawn", "over"} :
           /\ pairStage' = [pairStage EXCEPT ![p] = t]
           /\ \/ UNCHANGED quarantines
              \/ quarantines' = quarantines \cup {p} /\ t = "over"
    BY <1>3 DEF Judge
  <2>2. OfStep(p, t)
    BY <1>3, <2>1 DEF Judge, OfStep, Quietly, Guarding, Judged
  <2> QED BY <1>3, <2>1, <2>2 DEF Judge, Stages
<1>4. CASE CancelledBefore(p) \/ SpawnRefused(p)
  <2>1. OfStep(p, "over")
    BY <1>4 DEF CancelledBefore, SpawnRefused, OfStep, Quietly, Guarding, Judged
  <2> QED BY <1>4, <2>1 DEF CancelledBefore, SpawnRefused, Stages
<1>5. CASE SpawnChild(p)
  <2>1. CASE pairStage[p] = "spawn"
    <3>1. OfStep(p, "drive")
      BY <1>5, <2>1 DEF SpawnChild, OfStep, Starting, Guarding, Judged
    <3> QED BY <1>5, <3>1 DEF SpawnChild, Stages
  <2>2. CASE pairStage[p] = "resync"
    <3>1. OfStep(p, "redrive")
      BY <1>5, <2>2 DEF SpawnChild, OfStep, Starting, Guarding, Judged
    <3> QED BY <1>5, <3>1 DEF SpawnChild, Stages
  <2> QED BY <1>5, <2>1, <2>2 DEF SpawnChild
<1>6. CASE ChildExits(p)
  <2>1. PICK t \in {"record", "over", "resync"} :
           /\ pairStage' = [pairStage EXCEPT ![p] = t]
           /\ t = "resync" => pairStage[p] = "drive" /\ FirstResyncAllowed(p)
    BY <1>6 DEF ChildExits, ResyncFollows
  <2>2. OfStep(p, t)
    BY <1>6, <2>1 DEF ChildExits, ResyncFollows, OfStep, Ending, Guarding, Judged
  <2> QED BY <1>6, <2>1, <2>2 DEF ChildExits, Stages
<1>7. CASE ChildStopped(p)
  <2>1. OfStep(p, "over")
    BY <1>7 DEF ChildStopped, OfStep, Ending, Sticking, Guarding, Judged
  <2> QED BY <1>7, <2>1 DEF ChildStopped, Stages
<1>8. CASE RecordBaseline(p)
  <2>1. OfStep(p, "over")
    BY <1>8 DEF RecordBaseline, OfStep, Quietly, Guarding, Judged
  <2> QED BY <1>8, <2>1 DEF RecordBaseline, Stages
<1> QED BY <1>1, <1>2, <1>3, <1>4, <1>5, <1>6, <1>7, <1>8
        DEF PairStep, RunQuick, SyncPair, WorkerStep

LEMMA ConflictIsMutual ==
    ASSUME NEW p, NEW q, PairsConflict(p, q)
    PROVE  PairsConflict(q, p)
<1>1. \A a, b : PathsOverlap(a, b) => PathsOverlap(b, a)
  BY DEF PathsOverlap
<1> QED BY <1>1 DEF PairsConflict

-----------------------------------------------------------------------------
(* The loop hands out what conflicts with nothing in flight, each pair once.*)
LEMMA LoopInvariantStep ==
    ASSUME RunTypeOK, LoopOK, [RunNext]_runVars
    PROVE  LoopOK'
<1> USE DEF pairVars, guardVars, runBounds
<1>a. ASSUME UNCHANGED loopVars PROVE LoopOK'
  BY <1>a DEF LoopOK, loopVars, Elements
<1>b. ASSUME Forget, runPhase' # "running" PROVE LoopOK'
  <2>1. inFlight' = {} /\ waiting' = <<>> /\ loopAt' = "top" /\ DOMAIN waiting' = {}
    BY <1>b, NoElements DEF Forget
  <2> QED BY <1>b, <2>1 DEF LoopOK
<1>1. CASE StartRun
  <2>1. PICK sel \in Selections : picked' = sel /\ waiting' = sel
    BY <1>1 DEF StartRun
  <2>2. inFlight' = {} /\ loopAt' = "top" /\ runPhase' = "running"
    BY <1>1 DEF StartRun, LoopOK
  <2> QED BY <2>1, <2>2, SelectionFacts DEF LoopOK, Elements
<1>2. CASE LoopTop
  <2>1. /\ waiting' = waiting \/ waiting' = <<>>
        /\ UNCHANGED <<runPhase, picked, inFlight>> /\ loopAt' = "fill"
        /\ runPhase = "running"
    BY <1>2 DEF LoopTop
  <2> QED BY <2>1, NoElements DEF LoopOK, Elements
<1>3. CASE Submit
  <2>1. PICK i \in DOMAIN waiting :
           /\ waiting' = Popped(i) /\ inFlight' = inFlight \cup {waiting[i]}
           /\ \A q \in inFlight : ~PairsConflict(waiting[i], q)
           /\ UNCHANGED <<runPhase, loopAt, picked>>
           /\ runPhase = "running" /\ loopAt = "fill"
    BY <1>3 DEF Submit, NextRunnable, Runnable
  <2>2. Len(waiting) \in Nat /\ DOMAIN waiting = 1 .. Len(waiting)
    BY RunFacts
  <2>3. /\ DOMAIN waiting' = 1 .. (Len(waiting) - 1)
        /\ \A k \in DOMAIN waiting' : \E j \in DOMAIN waiting :
              j # i /\ waiting'[k] = waiting[j] /\ (k < i => j = k) /\ (k >= i => j = k + 1)
    BY <2>1, PoppedIs
  <2>4. \A k, l \in DOMAIN waiting' : waiting'[k] = waiting'[l] => k = l
    <3> SUFFICES ASSUME NEW k \in DOMAIN waiting', NEW l \in DOMAIN waiting',
                        waiting'[k] = waiting'[l]
                 PROVE  k = l
      OBVIOUS
    <3>1. PICK j \in DOMAIN waiting :
             waiting'[k] = waiting[j] /\ (k < i => j = k) /\ (k >= i => j = k + 1)
      BY <2>3
    <3>2. PICK m \in DOMAIN waiting :
             waiting'[l] = waiting[m] /\ (l < i => m = l) /\ (l >= i => m = l + 1)
      BY <2>3
    <3>3. j = m
      BY <3>1, <3>2 DEF LoopOK
    <3> QED BY <2>2, <2>3, <3>1, <3>2, <3>3
  <2>5. \A k \in DOMAIN waiting' : waiting'[k] \notin inFlight' /\ waiting'[k] \in Elements(picked)
    BY <2>1, <2>3 DEF LoopOK
  <2>6. inFlight' \subseteq Elements(picked)
    BY <2>1 DEF LoopOK
  <2>7. \A p, q \in inFlight' : p # q => ~PairsConflict(p, q)
    BY <2>1, ConflictIsMutual DEF LoopOK
  <2> QED BY <2>1, <2>4, <2>5, <2>6, <2>7 DEF LoopOK, Elements
<1>4. CASE Filled
  <2>1. /\ UNCHANGED <<runPhase, picked, waiting, inFlight>> /\ runPhase = "running"
        /\ loopAt' = "verdict" => inFlight = {} /\ waiting = <<>>
    BY <1>4 DEF Filled
  <2> QED BY <2>1 DEF LoopOK, Elements
<1>5. CASE Collect
  <2>1. /\ UNCHANGED <<runPhase, picked, waiting>> /\ runPhase = "running"
        /\ inFlight' \subseteq inFlight
        /\ loopAt' = "verdict" => inFlight' = {} /\ waiting = <<>>
    BY <1>5 DEF Collect
  <2> QED BY <2>1 DEF LoopOK, Elements
<1>6. CASE Verdict
  BY <1>b, <1>6 DEF Verdict
<1>7. CASE RunDies
  BY <1>b, <1>7 DEF RunDies
<1>8. CASE RunRecovered
  <2>1. inFlight' = {} /\ waiting' = <<>> /\ loopAt' = "top" /\ runPhase' = "idle"
    BY <1>8 DEF RunRecovered, LoopOK
  <2> QED BY <2>1, NoElements DEF LoopOK
<1>9. ASSUME NEW p \in RunPairs,
             PairStep(p) \/ Acknowledge(p) \/ StuckChildEnds(p) \/ SourceShrinks(p)
      PROVE  LoopOK'
  <2>1. UNCHANGED loopVars
    BY <1>9, WorkerSteps DEF Acknowledge, StuckChildEnds, SourceShrinks
  <2> QED BY <1>a, <2>1
<1>10. CASE RequestRunCancel \/ UNCHANGED runVars
  BY <1>a, <1>10 DEF RequestRunCancel, runVars
<1> QED BY <1>1, <1>2, <1>3, <1>4, <1>5, <1>6, <1>7, <1>8, <1>9, <1>10 DEF RunNext, LoopStep

-----------------------------------------------------------------------------
(* A child somebody waits for is that of a pair in flight.                  *)
LEMMA ChildrenStep ==
    ASSUME RunTypeOK, LoopOK, ChildrenOK, [RunNext]_runVars
    PROVE  ChildrenOK'
<1> USE DEF loopVars, pairVars, guardVars, runBounds
<1>0. pairStage \in [RunPairs -> Stages] /\ inFlight \subseteq RunPairs
  BY RunFacts
<1>1. CASE StartRun
  <2>1. pairKids' = {}
    BY <1>1 DEF StartRun, LoopOK, ChildrenOK
  <2> QED BY <2>1 DEF ChildrenOK
<1>2. CASE LoopTop
  BY <1>2 DEF LoopTop, ChildrenOK
<1>3. CASE Submit
  <2>1. PICK i \in DOMAIN waiting :
           /\ inFlight' = inFlight \cup {waiting[i]}
           /\ pairStage' = [pairStage EXCEPT ![waiting[i]] = "precheck"]
           /\ UNCHANGED pairKids
    BY <1>3 DEF Submit, NextRunnable
  <2>2. waiting[i] \notin pairKids
    BY <2>1 DEF ChildrenOK, LoopOK
  <2> QED BY <1>0, <2>1, <2>2 DEF ChildrenOK
<1>4. CASE Filled \/ RequestRunCancel
  BY <1>4 DEF Filled, RequestRunCancel, ChildrenOK
<1>5. CASE Collect
  <2>1. /\ UNCHANGED <<pairStage, pairKids>>
        /\ \A p \in inFlight : pairStage[p] # "over" => p \in inFlight'
    BY <1>5 DEF Collect
  <2> QED BY <2>1 DEF ChildrenOK
<1>6. CASE Verdict
  <2>1. inFlight = {} /\ UNCHANGED pairKids
    BY <1>6 DEF Verdict, LoopOK
  <2> QED BY <2>1 DEF ChildrenOK
<1>7. CASE RunDies
  BY <1>7 DEF RunDies, ChildrenOK
<1>8. CASE RunRecovered \/ UNCHANGED runVars
  BY <1>8 DEF RunRecovered, runVars, ChildrenOK
<1>9. ASSUME NEW p \in RunPairs, PairStep(p) PROVE ChildrenOK'
  <2>1. p \in inFlight /\ UNCHANGED inFlight
    BY <1>9, WorkerSteps
  <2>2. PICK t \in Stages : OfStep(p, t)
    BY <1>9, WorkerSteps
  <2>3. pairStage' = [pairStage EXCEPT ![p] = t]
    BY <2>2 DEF OfStep
  <2>4. CASE Quietly(p, t)
    <3>1. p \notin pairKids
      BY <2>4 DEF Quietly, ChildrenOK
    <3> QED BY <1>0, <2>1, <2>3, <2>4, <3>1 DEF Quietly, ChildrenOK
  <2>5. CASE Starting(p, t)
    <3>1. t \in {"drive", "redrive"}
      BY <2>5 DEF Starting
    <3> QED BY <1>0, <2>1, <2>3, <2>5, <3>1 DEF Starting, ChildrenOK
  <2>6. CASE Ending(p, t)
    BY <1>0, <2>1, <2>3, <2>6 DEF Ending, ChildrenOK
  <2>7. CASE Sticking(p, t)
    BY <1>0, <2>1, <2>3, <2>7 DEF Sticking, ChildrenOK
  <2> QED BY <2>2, <2>4, <2>5, <2>6, <2>7 DEF OfStep
<1>10. ASSUME NEW p \in RunPairs, Acknowledge(p) \/ StuckChildEnds(p) \/ SourceShrinks(p)
       PROVE  ChildrenOK'
  BY <1>10 DEF Acknowledge, StuckChildEnds, SourceShrinks, ChildrenOK
<1> QED BY <1>1, <1>2, <1>3, <1>4, <1>5, <1>6, <1>7, <1>8, <1>9, <1>10 DEF RunNext, LoopStep

(* A pair that passed the guard stays free of quarantines: only a pair in   *)
(* flight records one, and nothing in flight overlaps it.                   *)
LEMMA GuardStep ==
    ASSUME RunTypeOK, LoopOK, GuardOK, [RunNext]_runVars
    PROVE  GuardOK'
<1> USE DEF loopVars, pairVars, guardVars, runBounds
<1>0. pairStage \in [RunPairs -> Stages] /\ inFlight \subseteq RunPairs
  BY RunFacts
<1>a. ASSUME inFlight' = {} PROVE GuardOK'
  BY <1>a DEF GuardOK
<1>b. ASSUME inFlight' \subseteq inFlight, UNCHANGED pairStage, quarantines' \subseteq quarantines
      PROVE  GuardOK'
  BY <1>b DEF GuardOK, Quarantined
<1>1. CASE StartRun \/ LoopTop \/ Filled \/ Collect \/ RequestRunCancel \/ RunRecovered
           \/ UNCHANGED runVars
  <2>1. inFlight' \subseteq inFlight /\ UNCHANGED <<pairStage, quarantines>>
    BY <1>1 DEF StartRun, LoopTop, Filled, Collect, RequestRunCancel, RunRecovered, runVars
  <2> QED BY <1>b, <2>1
<1>2. CASE Verdict \/ RunDies
  BY <1>a, <1>2 DEF Verdict, RunDies, Forget
<1>3. CASE Submit
  <2>1. PICK i \in DOMAIN waiting :
           /\ inFlight' = inFlight \cup {waiting[i]} /\ UNCHANGED quarantines
           /\ pairStage' = [pairStage EXCEPT ![waiting[i]] = "precheck"]
    BY <1>3 DEF Submit, NextRunnable
  <2>2. waiting[i] \in RunPairs
    BY <2>1, RunFacts
  <2> QED BY <1>0, <2>1, <2>2 DEF GuardOK, Judged, Quarantined
<1>4. ASSUME NEW p \in RunPairs, PairStep(p) PROVE GuardOK'
  <2>1. p \in inFlight /\ UNCHANGED inFlight
    BY <1>4, WorkerSteps
  <2>2. PICK t \in Stages : OfStep(p, t)
    BY <1>4, WorkerSteps
  <2>3. pairStage' = [pairStage EXCEPT ![p] = t] /\ Guarding(p, t)
    BY <2>2 DEF OfStep
  <2>4. ASSUME NEW q \in inFlight', q \in Destructive \ QuickPairs, pairStage'[q] \in Judged
        PROVE  ~Quarantined(q)'
    <3>1. CASE q = p
      <4>1. pairStage'[p] = t
        BY <1>0, <2>1, <2>3
      <4>2. ~Quarantined(p) /\ UNCHANGED quarantines
        BY <2>1, <2>3, <2>4, <3>1, <4>1 DEF Guarding, GuardOK, Judged
      <4> QED BY <3>1, <4>2 DEF Quarantined
    <3>2. CASE q # p
      <4>1. ~Quarantined(q) /\ ~PairsConflict(q, p)
        BY <1>0, <2>1, <2>3, <2>4, <3>2 DEF GuardOK, LoopOK
      <4>2. quarantines' \subseteq quarantines \cup {p}
        BY <2>3 DEF Guarding
      <4> QED BY <4>1, <4>2 DEF Quarantined
    <3> QED BY <3>1, <3>2
  <2> QED BY <2>4 DEF GuardOK
<1>5. ASSUME NEW p \in RunPairs, Acknowledge(p) \/ StuckChildEnds(p) \/ SourceShrinks(p)
      PROVE  GuardOK'
  <2>1. inFlight' = inFlight /\ UNCHANGED pairStage /\ quarantines' \subseteq quarantines
    BY <1>5 DEF Acknowledge, StuckChildEnds, SourceShrinks
  <2> QED BY <1>b, <2>1
<1> QED BY <1>1, <1>2, <1>3, <1>4, <1>5 DEF RunNext, LoopStep

(* Whoever closes a run, its end or the recovery after a kill, turns what   *)
(* is new in it into an attempt.                                            *)
LEMMA ResyncStep ==
    ASSUME RunTypeOK, LoopOK, ResyncOK, [RunNext]_runVars
    PROVE  ResyncOK'
<1> USE DEF loopVars, pairVars, guardVars, runBounds
<1>0. /\ pairStage \in [RunPairs -> Stages] /\ inFlight \subseteq RunPairs
      /\ resyncs \in [RunPairs -> Nat]
      /\ pairHistory \in [RunPairs -> {"new", "ambiguous", "succeeded"}]
  BY RunFacts
<1>a. ASSUME NEW ok, pairHistory' = Attempted(ok), UNCHANGED resyncs, inFlight' = {}
      PROVE  ResyncOK'
  <2>1. ASSUME NEW p \in RunPairs, pairHistory'[p] = "new"
        PROVE  p \notin Elements(picked) \ QuickPairs /\ pairHistory[p] = "new"
    BY <1>0, <1>a, <2>1 DEF Attempted
  <2> QED BY <1>a, <2>1 DEF ResyncOK
<1>b. ASSUME UNCHANGED <<runPhase, picked, pairStage, resyncs, pairHistory>>,
             inFlight' \subseteq inFlight,
             \A i \in DOMAIN waiting' : \E j \in DOMAIN waiting : waiting'[i] = waiting[j]
      PROVE  ResyncOK'
  BY <1>b DEF ResyncOK, Elements
<1>1. CASE StartRun
  <2>1. /\ runPhase = "idle" /\ inFlight' = {} /\ UNCHANGED <<resyncs, pairHistory>>
    BY <1>1 DEF StartRun, LoopOK
  <2> QED BY <2>1 DEF ResyncOK
<1>2. CASE LoopTop \/ Filled \/ Collect \/ RequestRunCancel \/ UNCHANGED runVars
  <2>1. /\ UNCHANGED <<runPhase, picked, pairStage, resyncs, pairHistory>>
        /\ inFlight' \subseteq inFlight
        /\ waiting' = waiting \/ waiting' = <<>>
    BY <1>2 DEF LoopTop, Filled, Collect, RequestRunCancel, runVars
  <2> QED BY <1>b, <2>1, NoElements
<1>3. CASE Submit
  <2>1. PICK i \in DOMAIN waiting :
           /\ waiting' = Popped(i) /\ inFlight' = inFlight \cup {waiting[i]}
           /\ pairStage' = [pairStage EXCEPT ![waiting[i]] = "precheck"]
           /\ UNCHANGED <<runPhase, picked, resyncs, pairHistory>> /\ runPhase = "running"
    BY <1>3 DEF Submit, NextRunnable
  <2>2. \A k \in DOMAIN waiting' : \E j \in DOMAIN waiting : waiting'[k] = waiting[j]
    BY <2>1, PoppedIs
  <2>3. waiting[i] \in RunPairs
    BY <2>1, RunFacts
  <2> QED BY <1>0, <2>1, <2>2, <2>3 DEF ResyncOK, Elements
<1>4. CASE Verdict
  BY <1>a, <1>4 DEF Verdict, Forget
<1>5. CASE RunRecovered
  <2>1. inFlight' = {}
    BY <1>5 DEF RunRecovered, LoopOK
  <2> QED BY <1>a, <1>5, <2>1 DEF RunRecovered
<1>6. CASE RunDies
  <2>1. /\ inFlight' = {} /\ runPhase' = "dead" /\ UNCHANGED <<picked, resyncs, pairHistory>>
    BY <1>6 DEF RunDies, Forget
  <2> QED BY <2>1 DEF ResyncOK, Elements
<1>7. ASSUME NEW p \in RunPairs, PairStep(p) PROVE ResyncOK'
  <2>1. /\ p \in inFlight /\ runPhase = "running"
        /\ UNCHANGED <<runPhase, picked, waiting, inFlight, pairHistory>>
    BY <1>7, WorkerSteps
  <2>2. PICK t \in Stages : OfStep(p, t)
    BY <1>7, WorkerSteps
  <2>3. /\ pairStage' = [pairStage EXCEPT ![p] = t] /\ pairStage'[p] = t
        /\ \A q \in RunPairs \ {p} : pairStage'[q] = pairStage[q]
    BY <1>0, <2>2 DEF OfStep
  <2>4. p \in Elements(picked) /\ \A i \in DOMAIN waiting : waiting[i] # p
    BY <2>1 DEF LoopOK
  <2>5. CASE Quietly(p, t)
    BY <1>0, <2>1, <2>3, <2>5 DEF Quietly, ResyncOK, Elements
  <2>6. CASE Starting(p, t) /\ pairStage[p] = "spawn"
    <3>1. t = "drive" /\ UNCHANGED resyncs
      BY <2>6 DEF Starting
    <3> QED BY <1>0, <2>1, <2>3, <2>6, <3>1 DEF ResyncOK, Elements
  <2>7. CASE Starting(p, t) /\ pairStage[p] # "spawn"
    <3>1. /\ pairStage[p] = "resync" /\ t = "redrive"
          /\ resyncs' = [resyncs EXCEPT ![p] = @ + 1]
      BY <2>7 DEF Starting
    <3>2. resyncs'[p] = 1 /\ p \notin QuickPairs
          /\ \A q \in RunPairs \ {p} : resyncs'[q] = resyncs[q]
      BY <1>0, <2>1, <3>1 DEF ResyncOK
    <3> QED BY <1>0, <2>1, <2>3, <2>4, <3>1, <3>2 DEF ResyncOK, Elements
  <2>8. CASE Ending(p, t)
    <3>1. UNCHANGED resyncs /\ t \in {"record", "over", "resync"}
      BY <2>8 DEF Ending
    <3>2. t = "resync" =>
             p \notin QuickPairs /\ resyncs[p] = 0 /\ pairHistory[p] = "new"
      BY <1>0, <2>1, <2>8 DEF Ending, FirstResyncAllowed, PairBaselineState, ResyncOK
    <3> QED BY <1>0, <2>1, <2>3, <2>8, <3>1, <3>2 DEF ResyncOK, Elements
  <2>9. CASE Sticking(p, t)
    BY <1>0, <2>1, <2>3, <2>9 DEF Sticking, ResyncOK, Elements
  <2> QED BY <2>2, <2>5, <2>6, <2>7, <2>8, <2>9 DEF OfStep
<1>8. ASSUME NEW p \in RunPairs, Acknowledge(p) \/ StuckChildEnds(p) \/ SourceShrinks(p)
      PROVE  ResyncOK'
  <2>1. UNCHANGED <<runPhase, picked, pairStage, resyncs, pairHistory, inFlight, waiting>>
    BY <1>8 DEF Acknowledge, StuckChildEnds, SourceShrinks
  <2> QED BY <1>b, <2>1
<1> QED BY <1>1, <1>2, <1>3, <1>4, <1>5, <1>6, <1>7, <1>8 DEF RunNext, LoopStep

-----------------------------------------------------------------------------
LEMMA RunInitOK == RunInit => RunInvariant
<1> SUFFICES ASSUME RunInit PROVE RunInvariant
  OBVIOUS
<1>1. /\ inFlight = {} /\ waiting = <<>> /\ picked = <<>> /\ runPhase = "idle"
      /\ loopAt = "top" /\ pairKids = {} /\ stuck = {} /\ quarantines = {}
      /\ runCancel = FALSE
  BY DEF RunInit
<1>2. IsFiniteSet({}) /\ Cardinality({}) = 0 /\ MaxParallel \in Nat /\ Full \in Nat
  BY FS_EmptySet, RunAssumptions
<1>3. /\ pairStage \in [RunPairs -> Stages] /\ pairResult \in [RunPairs -> Outcomes]
      /\ resyncs \in [RunPairs -> Nat] /\ \A p \in RunPairs : resyncs[p] = 0
      /\ pairHistory \in [RunPairs -> {"new", "ambiguous", "succeeded"}]
  BY DEF RunInit, Stages, Outcomes
<1>4. /\ Full \in Levels \cup {Unmeasured} /\ Unmeasured \in Levels \cup {Unmeasured}
  BY <1>2 DEF Levels
<1>5. /\ measured \in Measurements /\ baseline \in Measurements /\ foundAt \in Measurements
      /\ releasedAt \in Measurements /\ source \in Measurements
  BY <1>4 DEF RunInit, Measurements
<1>6. Cardinality(inFlight) <= MaxParallel /\ IsFiniteSet(inFlight)
  <2>1. Cardinality(inFlight) = 0
    BY <1>1, <1>2
  <2> QED BY <1>1, <1>2, <2>1
<1>7. RunTypeOK
  BY <1>1, <1>3, <1>5, <1>6, NoElements DEF RunTypeOK, Measurements
<1>8. LoopOK
  BY <1>1, NoElements DEF LoopOK
<1>9. ChildrenOK /\ GuardOK /\ ResyncOK
  BY <1>1, <1>3 DEF ChildrenOK, GuardOK, ResyncOK
<1> QED BY <1>7, <1>8, <1>9 DEF RunInvariant

LEMMA RunStep == RunInvariant /\ [RunNext]_runVars => RunInvariant'
BY RunTypeStep, LoopInvariantStep, ChildrenStep, GuardStep, ResyncStep DEF RunInvariant

LEMMA RunInvariantHolds == RunSpec => []RunInvariant
BY RunInitOK, RunStep, PTL DEF RunSpec

LEMMA NothingStartsQuarantined ==
    ASSUME RunInvariant, [RunNext]_runVars
    PROVE  \A p \in (pairKids' \ pairKids) \cap Destructive : ~Quarantined(p)
<1> USE DEF loopVars, pairVars, guardVars, runBounds
<1> SUFFICES ASSUME NEW p \in (pairKids' \ pairKids) \cap Destructive
             PROVE  ~Quarantined(p)
  OBVIOUS
<1>1. PICK q \in RunPairs : PairStep(q)
  BY DEF RunNext, LoopStep, StartRun, LoopTop, Submit, Filled, Collect, Verdict,
         RequestRunCancel, RunDies, RunRecovered, Acknowledge, StuckChildEnds,
         SourceShrinks, runVars
<1>2. PICK t \in Stages : OfStep(q, t)
  BY <1>1, WorkerSteps DEF RunInvariant
<1>3. Starting(q, t) /\ p = q
  BY <1>2 DEF OfStep, Quietly, Starting, Ending, Sticking
<1>4. q \in inFlight /\ pairStage[q] \in Judged
  BY <1>1, <1>3, WorkerSteps DEF RunInvariant, Starting, Judged
<1>5. CASE q \notin QuickPairs
  BY <1>3, <1>4, <1>5 DEF RunInvariant, GuardOK
<1>6. CASE q \in QuickPairs
  <2>1. SpawnChild(q)
    <3>1. pairKids' # pairKids
      OBVIOUS
    <3>2. ASSUME ChildExits(q) \/ ChildStopped(q) PROVE FALSE
      BY <3>2 DEF ChildExits, ChildStopped
    <3> QED BY <1>1, <3>1, <3>2 DEF PairStep, RunQuick, SyncPair, WorkerStep, Precheck, Guard,
              Judge, CancelledBefore, SpawnRefused, RecordBaseline, KeepsKids
  <2> QED BY <1>3, <1>6, <2>1 DEF SpawnChild, QuickStillFree, ActiveQuarantine
<1> QED BY <1>5, <1>6

-----------------------------------------------------------------------------
(* What the variables of a run and of its guard are; no more pairs are in   *)
(* flight than max_parallel allows.                                         *)
THEOREM RunTypesHold == RunSpec => []RunTypeOK
BY RunInvariantHolds, PTL DEF RunInvariant

(* Whatever the paths and however many workers, children of overlapping     *)
(* pairs that somebody attends are never at work together.                  *)
THEOREM OverlapsAreSerialised == RunSpec => []OverlapSerialised
<1>1. RunInvariant => OverlapSerialised
  BY DEF RunInvariant, LoopOK, ChildrenOK, OverlapSerialised
<1> QED BY <1>1, RunInvariantHolds, PTL

(* A child that may delete never starts under a quarantine, though the      *)
(* guard looked long before: nothing in flight beside it could record one.  *)
THEOREM QuarantinesHold == RunSpec => QuarantineHolds
<1>1. RunInvariant /\ [RunNext]_runVars =>
         [\A p \in (pairKids' \ pairKids) \cap Destructive : ~Quarantined(p)]_runVars
  BY NothingStartsQuarantined
<1> QED BY <1>1, RunInvariantHolds, PTL DEF RunSpec, QuarantineHolds

(* Across runs and kills a pair is given its initial resync once: every run *)
(* is closed before the next, and closing it ends the "new" of its pairs.   *)
THEOREM FirstResyncIsOnce == RunSpec => []FirstResyncOnce
<1>1. RunInvariant => FirstResyncOnce
  BY DEF RunInvariant, ResyncOK, FirstResyncOnce
<1> QED BY <1>1, RunInvariantHolds, PTL

-----------------------------------------------------------------------------
(* VaultUpload.                                                             *)

(* What a file may hold: no more chunks than the file has.                  *)
LEMMA ChunksAre ==
    ASSUME NEW s
    PROVE  s \in Chunks <=> s \in Seq({"right", "wrong"}) /\ Len(s) <= Size
<1>1. ASSUME s \in Chunks PROVE s \in Seq({"right", "wrong"}) /\ Len(s) <= Size
  BY <1>1, VaultAssumptions DEF Chunks, BoundedSeq, SeqOf
<1>2. ASSUME s \in Seq({"right", "wrong"}), Len(s) <= Size PROVE s \in Chunks
  <2>1. Len(s) \in 0 .. Size /\ s \in [1 .. Len(s) -> {"right", "wrong"}]
    BY <1>2, VaultAssumptions
  <2> QED BY <2>1 DEF Chunks, BoundedSeq, SeqOf
<1> QED BY <1>1, <1>2

(* A prefix, chunk by chunk.                                                *)
LEMMA PrefixIs ==
    ASSUME NEW S, NEW s \in Seq(S), NEW t \in Seq(S)
    PROVE  IsPrefix(s, t) <=> Len(s) <= Len(t) /\ \A i \in 1 .. Len(s) : s[i] = t[i]
<1>1. CASE Len(s) <= Len(t)
  <2>1. SubSeq(s, 1, Len(s)) = s
    BY DEF SubSeq
  <2>2. /\ SubSeq(t, 1, Len(s)) \in Seq(S) /\ Len(SubSeq(t, 1, Len(s))) = Len(s)
        /\ \A i \in 1 .. Len(s) : SubSeq(t, 1, Len(s))[i] = t[i]
    BY <1>1
  <2> QED BY <1>1, <2>1, <2>2, SeqEqual DEF IsPrefix
<1>2. CASE ~(Len(s) <= Len(t))
  BY <1>2 DEF IsPrefix
<1> QED BY <1>1, <1>2

(* The entries a receipt may be.                                            *)
Entries == [status : Statuses, received : 0 .. Size, road : 0 .. MaxRoadEdits]

(* What the reconciliation leaves: of an upload that takes chunks those the  *)
(* receipt and the file agree on, and of every other upload all there is.    *)
LEMMA ReconciledIs ==
    ASSUME VaultTypeOK, NEW u \in Uploads
    PROVE  LET kept == Reconciled(u).file  entry == Reconciled(u).entry
           IN  /\ kept \in Chunks /\ entry \in Entries
               /\ StatusOf(u) # "receiving" => kept = part[u] /\ entry = receipt[u]
               /\ StatusOf(u) = "receiving" =>
                     /\ entry.status \in {"receiving", "uploaded"}
                     /\ entry.status = "receiving" => Len(kept) < Size
                     /\ entry.received = Len(kept)
                     /\ Len(kept) = IF Len(part[u]) > receipt[u].received
                                    THEN receipt[u].received ELSE Len(part[u])
                     /\ \A i \in 1 .. Len(kept) : kept[i] = part[u][i]
<1> DEFINE kept == IF Len(part[u]) > receipt[u].received
                   THEN SubSeq(part[u], 1, receipt[u].received) ELSE part[u]
<1>1. /\ receipt[u] \in Entries /\ receipt[u].received \in 0 .. Size
      /\ part[u] \in Seq({"right", "wrong"}) /\ Len(part[u]) <= Size
  BY ChunksAre DEF VaultTypeOK, Entries
<1>2. CASE StatusOf(u) = "receiving"
  <2>1. /\ kept \in Seq({"right", "wrong"}) /\ Len(kept) <= Size
        /\ Len(kept) = IF Len(part[u]) > receipt[u].received
                       THEN receipt[u].received ELSE Len(part[u])
        /\ \A i \in 1 .. Len(kept) : kept[i] = part[u][i]
    <3>1. CASE Len(part[u]) > receipt[u].received
      <4>1. /\ SubSeq(part[u], 1, receipt[u].received) \in Seq({"right", "wrong"})
            /\ Len(SubSeq(part[u], 1, receipt[u].received)) = receipt[u].received
            /\ \A i \in 1 .. receipt[u].received :
                  SubSeq(part[u], 1, receipt[u].received)[i] = part[u][i]
        BY <1>1, <3>1
      <4>2. kept = SubSeq(part[u], 1, receipt[u].received)
        BY <3>1
      <4>3. receipt[u].received <= Size
        BY <1>1, VaultAssumptions
      <4> HIDE DEF kept
      <4> QED BY <3>1, <4>1, <4>2, <4>3
    <3>2. CASE ~(Len(part[u]) > receipt[u].received)
      BY <1>1, <3>2
    <3> QED BY <3>1, <3>2
  <2>2. /\ Reconciled(u).file = kept
        /\ Reconciled(u).entry =
              [receipt[u] EXCEPT !.received = Len(kept),
                   !.status = IF Len(kept) = Size THEN "uploaded" ELSE "receiving"]
    BY <1>2 DEF Reconciled
  <2> HIDE DEF kept
  <2>3. /\ Reconciled(u).entry \in Entries /\ Reconciled(u).entry.received = Len(kept)
        /\ Reconciled(u).entry.status = IF Len(kept) = Size THEN "uploaded" ELSE "receiving"
    <3>1. Len(kept) \in 0 .. Size
      BY <2>1, VaultAssumptions
    <3> QED BY <1>1, <2>2, <3>1 DEF Entries, Statuses
  <2>4. Reconciled(u).file \in Chunks
    BY <2>1, <2>2, ChunksAre
  <2>5. Len(kept) # Size => Len(kept) < Size
    BY <2>1, VaultAssumptions
  <2> QED BY <1>2, <2>1, <2>2, <2>3, <2>4, <2>5
<1>3. CASE StatusOf(u) # "receiving"
  BY <1>1, <1>3, ChunksAre DEF Reconciled
<1> QED BY <1>2, <1>3

(* An upload that takes a chunk is waiting for it, and the file grows by it. *)
LEMMA AppendableIs ==
    ASSUME VaultTypeOK, NEW u \in Uploads, Appendable(u), NEW chunk \in {"right", "wrong"}
    PROVE  /\ StatusOf(u) = "receiving" /\ Grown(u, chunk) \in Chunks
           /\ Len(Grown(u, chunk)) = Len(Reconciled(u).file) + 1
           /\ Len(Grown(u, chunk)) \in 1 .. Size
           /\ \A i \in 1 .. Len(Reconciled(u).file) :
                 Grown(u, chunk)[i] = Reconciled(u).file[i]
<1>1. StatusOf(u) = "receiving" /\ Reconciled(u).file \in Chunks
      /\ Len(Reconciled(u).file) < Size
  <2>1. Reconciled(u).entry.status = "receiving"
    BY DEF Appendable
  <2>2. StatusOf(u) = "receiving"
    BY <2>1, ReconciledIs DEF StatusOf
  <2> QED BY <2>1, <2>2, ReconciledIs
<1>2. Reconciled(u).file \in Seq({"right", "wrong"})
  BY <1>1, ChunksAre
<1>3. /\ Grown(u, chunk) \in Seq({"right", "wrong"})
      /\ Len(Grown(u, chunk)) = Len(Reconciled(u).file) + 1
      /\ \A i \in 1 .. Len(Reconciled(u).file) :
            Grown(u, chunk)[i] = Reconciled(u).file[i]
  BY <1>2 DEF Grown
<1>4. Len(Reconciled(u).file) \in Nat
  BY <1>2
<1> QED BY <1>1, <1>3, <1>4, ChunksAre, VaultAssumptions

-----------------------------------------------------------------------------
(* A creation that has looked for the blob has no receipt yet; of an upload  *)
(* without a receipt the phone was told nothing; a completion at work has    *)
(* its receipt to itself, and no download holds it; a download has a receipt. *)
UploadOK ==
    \A u \in Uploads :
        /\ seen[u] # "no" => StatusOf(u) = "none" /\ u \notin Rescued
        /\ StatusOf(u) = "none" => told[u] = << >>
        /\ worker[u] \notin {"idle", "audit"} => StatusOf(u) = "transferring"
        /\ worker[u] = "audit" => StatusOf(u) = "ready"
        /\ worker[u] # "idle" => rescue[u] # "holds"
        /\ rescue[u] # "idle" => StatusOf(u) # "none"

(* What is carried through every step.                                      *)
VaultInvariant == VaultTypeOK /\ UploadOK /\ AcknowledgedKept /\ ReadyIsRestorable

(* A receipt that takes another entry, status or length.                    *)
LEMMA ReceiptType ==
    ASSUME VaultTypeOK, NEW u \in Uploads
    PROVE  /\ receipt \in [Uploads -> Entries]
           /\ \A e \in Entries : [receipt EXCEPT ![u] = e] \in [Uploads -> Entries]
<1>1. receipt \in [Uploads -> Entries]
  BY DEF VaultTypeOK, Entries
<1> QED BY <1>1

LEMMA StatusType ==
    ASSUME VaultTypeOK, NEW u \in Uploads, NEW s \in Statuses, StatusBecomes(u, s)
    PROVE  receipt' \in [Uploads -> Entries]
<1>1. receipt \in [Uploads -> Entries]
  BY DEF VaultTypeOK, Entries
<1>2. [receipt[u] EXCEPT !.status = s] \in Entries
  BY <1>1 DEF Entries
<1>3. receipt' = [receipt EXCEPT ![u] = [receipt[u] EXCEPT !.status = s]]
  BY DEF StatusBecomes
<1> QED BY <1>1, <1>2, <1>3

LEMMA StatusFrame ==
    ASSUME VaultTypeOK, NEW u \in Uploads, NEW s, StatusBecomes(u, s)
    PROVE  /\ receipt'[u].status = s /\ receipt'[u].received = receipt[u].received
           /\ \A v \in Uploads \ {u} : receipt'[v] = receipt[v]
<1>1. receipt \in [Uploads -> Entries]
  BY DEF VaultTypeOK, Entries
<1> QED BY <1>1 DEF StatusBecomes, Entries

LEMMA EmptyIsChunks == << >> \in Chunks
<1>1. << >> \in Seq({"right", "wrong"}) /\ Len(<< >>) = 0
  BY EmptySeq
<1>2. Len(<< >>) <= Size
  BY <1>1, VaultAssumptions
<1> QED BY <1>1, <1>2, ChunksAre, Zenon

(* Every variable keeps its type.                                           *)
LEMMA VaultTypeStep ==
    ASSUME VaultTypeOK, [VaultNext]_vaultVars
    PROVE  VaultTypeOK'
<1> DEFINE Files == receipt \in [Uploads -> Entries] /\ part \in [Uploads -> Chunks]
           Rest == /\ told \in [Uploads -> Chunks]
                   /\ blobs \subseteq {ContentOf[u] : u \in Uploads}
                   /\ targetCopy \in [Uploads -> {"none", "whole", "damaged"}]
                   /\ seen \in [Uploads -> {"no", "blob", "absent"}]
                   /\ due \subseteq Uploads
                   /\ worker \in [Uploads -> {"idle", "begun", "prepared", "copied", "audit"}]
                   /\ rescue \in [Uploads -> {"idle", "read", "holds"}]
                   /\ road \in 0 .. MaxRoadEdits /\ cut \subseteq Uploads
<1>0. Files /\ Rest
  BY DEF VaultTypeOK, Entries
<1> USE <1>0 DEF vaultFiles, vaultThreads, vaultBounds, WorkerAt
<1> SUFFICES Files' /\ Rest'
  BY DEF VaultTypeOK, Entries
<1>1. ASSUME NEW u \in Uploads, CreateLook(u) \/ CreateSave(u) \/ ImportReceipt(u)
      PROVE  Files' /\ Rest'
  <2>1. CASE CreateLook(u)
    BY <2>1 DEF CreateLook, Entries
  <2>2. CASE CreateSave(u)
    <3>1. receipt' \in [Uploads -> Entries]
      <4> DEFINE n == IF seen[u] = "blob" THEN Size ELSE 0
                 t == IF seen[u] = "blob" THEN "uploaded" ELSE "receiving"
      <4>1. n \in 0 .. Size /\ t \in Statuses
        BY VaultAssumptions DEF Statuses
      <4> DEFINE e == [receipt[u] EXCEPT !.received = n, !.status = t]
      <4>2. receipt' = [receipt EXCEPT ![u] = e]
        BY <2>2 DEF CreateSave
      <4> HIDE DEF n, t
      <4>3. e \in Entries
        BY <4>1 DEF Entries
      <4> HIDE DEF e
      <4> QED BY <4>2, <4>3
    <3> QED BY <2>2, <3>1 DEF CreateSave
  <2>3. CASE ImportReceipt(u)
    <3>1. [status |-> "remote", received |-> 0, road |-> road] \in Entries
      BY VaultAssumptions DEF Entries, Statuses
    <3> QED BY <2>3, <3>1, ReceiptType DEF ImportReceipt
  <2> QED BY <1>1, <2>1, <2>2, <2>3
<1>2. ASSUME NEW u \in Uploads, UploadStatus(u) PROVE Files' /\ Rest'
  BY <1>2, ReconciledIs DEF UploadStatus, Refresh, Learns
<1>3. ASSUME NEW u \in Uploads, NEW chunk \in {"right", "wrong"},
             NEW answered \in BOOLEAN, AppendChunk(u, chunk, answered)
      PROVE  Files' /\ Rest'
  <2>1. Grown(u, chunk) \in Chunks /\ Len(Grown(u, chunk)) \in 0 .. Size
    BY <1>3, AppendableIs DEF AppendChunk
  <2>2. receipt' \in [Uploads -> Entries]
    <3> DEFINE n == Len(Grown(u, chunk))
               t == IF n = Size THEN "uploaded" ELSE "receiving"
               e == [receipt[u] EXCEPT !.received = n, !.status = t]
    <3>1. receipt' = [receipt EXCEPT ![u] = e]
      BY <1>3 DEF AppendChunk
    <3>2. n \in 0 .. Size /\ t \in Statuses
      BY <2>1 DEF Statuses
    <3> HIDE DEF n, t
    <3>3. e \in Entries
      BY <3>2 DEF Entries
    <3> HIDE DEF e
    <3> QED BY <3>1, <3>3
  <2> QED BY <1>3, <2>1, <2>2 DEF AppendChunk, Learns
<1>4. ASSUME NEW u \in Uploads, FinishUpload(u) PROVE Files' /\ Rest'
  <2>1. Reconciled(u).file \in Chunks /\ Reconciled(u).entry \in Entries
    BY ReconciledIs
  <2>2. [Reconciled(u).entry EXCEPT !.status = "queued"] \in Entries
    BY <2>1 DEF Entries, Statuses
  <2> QED BY <1>4, <2>1, <2>2 DEF FinishUpload
<1>5. ASSUME NEW u \in Uploads,
             BeginTransfer(u) \/ Verify(u) \/ \E works \in BOOLEAN : AuditReady(u, works)
      PROVE  Files' /\ Rest'
  <2>1. receipt' \in [Uploads -> Entries]
    BY <1>5, StatusType DEF BeginTransfer, Verify, AuditReady, TransferEnds, Statuses
  <2> QED BY <1>5, <2>1 DEF BeginTransfer, Verify, AuditReady, TransferEnds
<1>6. ASSUME NEW u \in Uploads, PrepareBlob(u) PROVE Files' /\ Rest'
  <2>1. receipt' \in [Uploads -> Entries]
    BY <1>6, StatusType DEF PrepareBlob, TransferEnds, Statuses
  <2> QED BY <1>6, <2>1, EmptyIsChunks DEF PrepareBlob, TransferEnds
<1>7. ASSUME NEW u \in Uploads, NEW lands \in {"whole", "damaged", "none"},
             PublishCopy(u, lands)
      PROVE  Files' /\ Rest'
  <2>1. receipt' \in [Uploads -> Entries]
    BY <1>7, StatusType DEF PublishCopy, TransferEnds, Statuses
  <2> QED BY <1>7, <2>1 DEF PublishCopy, TransferEnds
<1>8. ASSUME NEW u \in Uploads, DownloadReads(u) \/ DownloadLocks(u)
      PROVE  Files' /\ Rest'
  BY <1>8 DEF DownloadReads, DownloadLocks
<1>9. ASSUME NEW u \in Uploads, NEW works \in BOOLEAN, Rescue(u, works)
      PROVE  Files' /\ Rest'
  <2>1. receipt' \in [Uploads -> Entries]
    BY <1>9, StatusType DEF Rescue, Statuses
  <2> QED BY <1>9, <2>1 DEF Rescue
<1>10. ASSUME NEW u \in Uploads, RemoveLocalCopy(u) PROVE Files' /\ Rest'
  <2>1. receipt' \in [Uploads -> Entries]
    BY <1>10, StatusType DEF RemoveLocalCopy, Statuses
  <2> QED BY <1>10, <2>1, EmptyIsChunks DEF RemoveLocalCopy, RemoveFiles
<1>11. CASE EditRoad
  BY <1>11, VaultAssumptions DEF EditRoad
<1>12. CASE VaultCrash
  BY <1>12 DEF VaultCrash, VaultDies
<1>13. ASSUME NEW u \in Uploads, AppendCut(u) PROVE Files' /\ Rest'
  <2>1. Grown(u, "right") \in Chunks /\ Reconciled(u).entry \in Entries
    BY <1>13, AppendableIs, ReconciledIs DEF AppendCut
  <2> QED BY <1>13, <2>1 DEF AppendCut, VaultDies
<1>14. ASSUME NEW u \in Uploads, NEW andBlob \in BOOLEAN, RemoveCut(u, andBlob)
      PROVE  Files' /\ Rest'
  BY <1>14, EmptyIsChunks DEF RemoveCut, RemoveFiles, VaultDies
<1>15. CASE UNCHANGED vaultVars
  BY <1>15 DEF vaultVars
<1> QED BY <1>1, <1>2, <1>3, <1>4, <1>5, <1>6, <1>7, <1>8, <1>9, <1>10, <1>11,
    <1>12, <1>13, <1>14, <1>15 DEF VaultNext, UploadStep

(* A creation, a completion and a download of one upload stay apart.        *)
LEMMA UploadStepOK ==
    ASSUME VaultTypeOK, UploadOK, [VaultNext]_vaultVars
    PROVE  UploadOK'
<1> USE DEF UploadOK, StatusOf, vaultFiles, vaultThreads, vaultBounds,
        WorkerAt, TransferEnds, Known
<1>0. /\ receipt \in [Uploads -> Entries] /\ told \in [Uploads -> Chunks]
      /\ seen \in [Uploads -> {"no", "blob", "absent"}]
      /\ worker \in [Uploads -> {"idle", "begun", "prepared", "copied", "audit"}]
      /\ rescue \in [Uploads -> {"idle", "read", "holds"}]
  BY DEF VaultTypeOK, Entries
<1> USE <1>0
<1>1. ASSUME NEW u \in Uploads, CreateLook(u) PROVE UploadOK'
  BY <1>1 DEF CreateLook, Entries
<1>2. ASSUME NEW u \in Uploads, CreateSave(u) PROVE UploadOK'
  BY <1>2 DEF CreateSave, Entries
<1>3. ASSUME NEW u \in Uploads, ImportReceipt(u) PROVE UploadOK'
  BY <1>3 DEF ImportReceipt
<1>4. ASSUME NEW u \in Uploads, UploadStatus(u) PROVE UploadOK'
  BY <1>4, ReconciledIs DEF UploadStatus, Refresh, Learns, Entries
<1>5. ASSUME NEW u \in Uploads, NEW chunk \in {"right", "wrong"},
             NEW answered \in BOOLEAN, AppendChunk(u, chunk, answered)
      PROVE  UploadOK'
  <2>1. StatusOf(u) = "receiving"
    BY <1>5, AppendableIs DEF AppendChunk
  <2>2. /\ receipt'[u].status \in {"receiving", "uploaded"}
        /\ \A v \in Uploads \ {u} : receipt'[v] = receipt[v] /\ told'[v] = told[v]
        /\ UNCHANGED <<seen, worker, rescue>>
    BY <1>5 DEF AppendChunk, Learns, Entries
  <2> QED BY <2>1, <2>2
<1>6. ASSUME NEW u \in Uploads, FinishUpload(u) PROVE UploadOK'
  <2>1. /\ StatusOf(u) \notin {"none", "gone", "ready"}
        /\ receipt'[u].status \in {"queued", "transferring"}
        /\ StatusOf(u) = "transferring" => receipt'[u].status = "transferring"
    <3>1. /\ Reconciled(u).entry \in Entries /\ StatusOf(u) \notin {"none", "gone"}
          /\ StatusOf(u) \in {"transferring", "ready"} => Reconciled(u).entry = receipt[u]
      BY <1>6, ReconciledIs DEF FinishUpload
    <3>2. Reconciled(u).entry.status \in {"uploaded", "queued", "transferring"}
      BY <1>6 DEF FinishUpload, Queueable
    <3> QED BY <1>6, <3>1, <3>2 DEF FinishUpload, Entries
  <2>2. /\ \A v \in Uploads \ {u} : receipt'[v] = receipt[v]
        /\ UNCHANGED <<seen, worker, rescue, told>>
    BY <1>6 DEF FinishUpload
  <2> QED BY <2>1, <2>2
<1>7. ASSUME NEW u \in Uploads, BeginTransfer(u) PROVE UploadOK'
  BY <1>7, StatusFrame DEF BeginTransfer, Transferring
<1>8. ASSUME NEW u \in Uploads,
             PrepareBlob(u) \/ Verify(u) \/ \E works \in BOOLEAN : AuditReady(u, works)
      PROVE  UploadOK'
  BY <1>8, StatusFrame DEF PrepareBlob, Verify, AuditReady
<1>9. ASSUME NEW u \in Uploads, NEW lands \in {"whole", "damaged", "none"},
             PublishCopy(u, lands)
      PROVE  UploadOK'
  BY <1>9, StatusFrame DEF PublishCopy
<1>10. ASSUME NEW u \in Uploads, DownloadReads(u) \/ DownloadLocks(u) PROVE UploadOK'
  BY <1>10 DEF DownloadReads, DownloadLocks, Transferring
<1>11. ASSUME NEW u \in Uploads, NEW works \in BOOLEAN, Rescue(u, works)
       PROVE  UploadOK'
  BY <1>11, StatusFrame DEF Rescue
<1>12. ASSUME NEW u \in Uploads, RemoveLocalCopy(u) PROVE UploadOK'
  <2>1. /\ worker[u] = "idle" /\ StatusOf(u) # "none" /\ StatusBecomes(u, "gone")
        /\ UNCHANGED <<seen, worker, rescue, told>>
    BY <1>12 DEF RemoveLocalCopy, Deletable, Transferring
  <2> QED BY <2>1, StatusFrame
<1>13. CASE EditRoad
  BY <1>13 DEF EditRoad
<1>14. CASE VaultCrash
  BY <1>14 DEF VaultCrash, VaultDies
<1>15. ASSUME NEW u \in Uploads, AppendCut(u) PROVE UploadOK'
  <2>1. StatusOf(u) = "receiving" /\ Reconciled(u).entry.status \in {"receiving", "uploaded"}
    BY <1>15, AppendableIs, ReconciledIs DEF AppendCut
  <2> QED BY <1>15, <2>1 DEF AppendCut, VaultDies, Entries
<1>16. ASSUME NEW u \in Uploads, NEW andBlob \in BOOLEAN, RemoveCut(u, andBlob)
       PROVE  UploadOK'
  BY <1>16 DEF RemoveCut, RemoveFiles, VaultDies, Deletable
<1>17. CASE UNCHANGED vaultVars
  BY <1>17 DEF vaultVars
<1> QED BY <1>1, <1>2, <1>3, <1>4, <1>5, <1>6, <1>7, <1>8, <1>9, <1>10, <1>11,
    <1>12, <1>13, <1>14, <1>15, <1>16, <1>17 DEF VaultNext, UploadStep

-----------------------------------------------------------------------------
(* AcknowledgedKept, chunk by chunk.                                        *)
KeptAt(u) == /\ Len(told[u]) <= Len(part[u]) /\ Len(told[u]) <= receipt[u].received
             /\ \A i \in 1 .. Len(told[u]) : told[u][i] = part[u][i]

Kept == \A u \in Uploads : StatusOf(u) = "receiving" /\ u \notin cut => KeptAt(u)

LEMMA AcknowledgedIs == VaultTypeOK => (AcknowledgedKept <=> Kept)
<1> SUFFICES ASSUME VaultTypeOK PROVE AcknowledgedKept <=> Kept
  OBVIOUS
<1>1. ASSUME NEW u \in Uploads
      PROVE  /\ told[u] \in Seq({"right", "wrong"}) /\ part[u] \in Seq({"right", "wrong"})
  BY ChunksAre DEF VaultTypeOK
<1>2. ASSUME NEW u \in Uploads
      PROVE  IsPrefix(told[u], part[u]) <=>
                /\ Len(told[u]) <= Len(part[u])
                /\ \A i \in 1 .. Len(told[u]) : told[u][i] = part[u][i]
  BY <1>1, PrefixIs
<1> QED BY <1>2 DEF AcknowledgedKept, Kept, KeptAt

(* An upload nothing happened to keeps what it has.                         *)
LEMMA KeptFrame ==
    ASSUME NEW u \in Uploads, KeptAt(u),
           part'[u] = part[u], told'[u] = told[u], receipt'[u].received = receipt[u].received
    PROVE  KeptAt(u)'
BY DEF KeptAt

(* A chunk that arrives, answered or not, and a reconciliation on its way.   *)
LEMMA KeptByReconciled ==
    ASSUME VaultTypeOK, NEW u \in Uploads, StatusOf(u) = "receiving", KeptAt(u)
    PROVE  /\ Len(told[u]) <= Len(Reconciled(u).file)
           /\ \A i \in 1 .. Len(told[u]) : told[u][i] = Reconciled(u).file[i]
<1> DEFINE kept == Reconciled(u).file
<1>1. /\ Len(kept) = IF Len(part[u]) > receipt[u].received
                     THEN receipt[u].received ELSE Len(part[u])
      /\ \A i \in 1 .. Len(kept) : kept[i] = part[u][i]
  BY ReconciledIs
<1>2. Len(told[u]) <= Len(kept)
  BY <1>1 DEF KeptAt
<1>3. Len(told[u]) \in Nat /\ Len(kept) \in Nat
  BY ChunksAre, ReconciledIs DEF VaultTypeOK
<1> HIDE DEF kept
<1>4. \A i \in 1 .. Len(told[u]) : told[u][i] = kept[i]
  BY <1>1, <1>2, <1>3 DEF KeptAt
<1> QED BY <1>2, <1>4 DEF kept

(* What was acknowledged stays: the reconciliation cuts off only what the    *)
(* phone was not told of, and nothing else shortens the part file of an      *)
(* upload that takes chunks, but a removal.                                 *)
LEMMA KeptStep ==
    ASSUME VaultTypeOK, UploadOK, Kept, [VaultNext]_vaultVars
    PROVE  Kept'
<1> USE DEF UploadOK, Kept, StatusOf, vaultFiles, vaultThreads, vaultBounds, WorkerAt,
        TransferEnds
<1>0. /\ receipt \in [Uploads -> Entries] /\ told \in [Uploads -> Chunks]
      /\ part \in [Uploads -> Chunks]
  BY DEF VaultTypeOK, Entries
<1> USE <1>0
<1>1. ASSUME NEW u \in Uploads,
             receipt'[u].status # "receiving" \/ u \in cut' \/ KeptAt(u)',
             \A v \in Uploads \ {u} : /\ part'[v] = part[v] /\ told'[v] = told[v]
                                      /\ receipt'[v] = receipt[v] /\ (v \in cut <=> v \in cut')
      PROVE  Kept'
  BY <1>1, KeptFrame
<1>2. ASSUME NEW u \in Uploads, NEW s \in Statuses \ {"receiving"}, StatusBecomes(u, s),
             \A v \in Uploads \ {u} : part'[v] = part[v], UNCHANGED <<told, cut>>
      PROVE  Kept'
  BY <1>1, <1>2, StatusFrame
<1>3. ASSUME UNCHANGED <<receipt, part, told, cut>> PROVE Kept'
  BY <1>3 DEF KeptAt
<1>4. ASSUME NEW u \in Uploads, CreateLook(u) PROVE Kept'
  BY <1>1, <1>4 DEF CreateLook, Entries
<1>5. ASSUME NEW u \in Uploads, CreateSave(u) PROVE Kept'
  <2>1. KeptAt(u)'
    <3>1. told'[u] = << >> /\ part'[u] = part[u] /\ receipt'[u].received \in {0, Size}
      BY <1>5 DEF CreateSave, Entries
    <3>2. Len(part[u]) \in Nat /\ Len(told'[u]) = 0
      BY <3>1, ChunksAre, EmptySeq
    <3> QED BY <3>1, <3>2, VaultAssumptions DEF KeptAt
  <2> QED BY <1>1, <1>5, <2>1 DEF CreateSave
<1>6. ASSUME NEW u \in Uploads, ImportReceipt(u) PROVE Kept'
  BY <1>1, <1>6 DEF ImportReceipt
<1>7. ASSUME NEW u \in Uploads, UploadStatus(u) PROVE Kept'
  <2>1. /\ part' = [part EXCEPT ![u] = Reconciled(u).file]
        /\ receipt' = [receipt EXCEPT ![u] = Reconciled(u).entry]
    BY <1>7 DEF UploadStatus, Refresh
  <2>2. CASE Reconciled(u).entry.status = "receiving"
    <3>1. told'[u] = part'[u] /\ receipt'[u].received = Len(told'[u])
      BY <1>7, <2>1, <2>2, ReconciledIs DEF UploadStatus, Learns
    <3>2. Len(told'[u]) \in Nat
      BY <2>1, <3>1, ReconciledIs, ChunksAre
    <3> QED BY <1>1, <1>7, <2>1, <3>1, <3>2 DEF KeptAt, UploadStatus, Learns
  <2>3. CASE Reconciled(u).entry.status # "receiving"
    BY <1>1, <1>7, <2>1, <2>3 DEF UploadStatus, Learns
  <2> QED BY <2>2, <2>3
<1>8. ASSUME NEW u \in Uploads, NEW chunk \in {"right", "wrong"},
             NEW answered \in BOOLEAN, AppendChunk(u, chunk, answered)
      PROVE  Kept'
  <2> DEFINE grown == Grown(u, chunk)
  <2>1. /\ StatusOf(u) = "receiving" /\ grown \in Chunks
        /\ Len(grown) = Len(Reconciled(u).file) + 1
        /\ \A i \in 1 .. Len(Reconciled(u).file) : grown[i] = Reconciled(u).file[i]
    BY <1>8, AppendableIs DEF AppendChunk
  <2>2. /\ part'[u] = grown /\ receipt'[u].received = Len(grown)
        /\ told'[u] = IF answered THEN grown ELSE told[u]
        /\ ~answered => cut' = cut
    BY <1>8 DEF AppendChunk, Learns, Entries
  <2>3. u \notin cut => /\ Len(told[u]) <= Len(Reconciled(u).file)
                       /\ \A i \in 1 .. Len(told[u]) : told[u][i] = Reconciled(u).file[i]
    BY <2>1, KeptByReconciled
  <2>4. Len(told[u]) \in Nat /\ Len(Reconciled(u).file) \in Nat /\ Len(grown) \in Nat
    BY <2>1, ChunksAre, ReconciledIs
  <2> HIDE DEF grown
  <2>5. u \in cut' \/ KeptAt(u)'
    BY <2>1, <2>2, <2>3, <2>4 DEF KeptAt
  <2> QED BY <1>1, <1>8, <2>5 DEF AppendChunk, Learns
<1>9. ASSUME NEW u \in Uploads, FinishUpload(u) PROVE Kept'
  <2>1. receipt'[u].status # "receiving"
    <3>1. Reconciled(u).entry \in Entries
      BY ReconciledIs
    <3>2. Reconciled(u).entry.status \in {"uploaded", "queued", "transferring"}
      BY <1>9 DEF FinishUpload, Queueable
    <3> QED BY <1>9, <3>1, <3>2 DEF FinishUpload, Entries
  <2> QED BY <1>1, <1>9, <2>1 DEF FinishUpload
<1>10. ASSUME NEW u \in Uploads, BeginTransfer(u) PROVE Kept'
  BY <1>2, <1>3, <1>10 DEF BeginTransfer, Statuses
<1>11. ASSUME NEW u \in Uploads, PrepareBlob(u) PROVE Kept'
  BY <1>1, <1>2, <1>11 DEF PrepareBlob, Statuses
<1>12. ASSUME NEW u \in Uploads, Verify(u) \/ \E works \in BOOLEAN : AuditReady(u, works)
       PROVE  Kept'
  BY <1>2, <1>12 DEF Verify, AuditReady, Statuses
<1>13. ASSUME NEW u \in Uploads, NEW lands \in {"whole", "damaged", "none"},
              PublishCopy(u, lands)
       PROVE  Kept'
  BY <1>2, <1>3, <1>13 DEF PublishCopy, Statuses
<1>14. ASSUME NEW u \in Uploads, DownloadReads(u) \/ DownloadLocks(u) PROVE Kept'
  BY <1>3, <1>14 DEF DownloadReads, DownloadLocks
<1>15. ASSUME NEW u \in Uploads, NEW works \in BOOLEAN, Rescue(u, works) PROVE Kept'
  BY <1>2, <1>3, <1>15 DEF Rescue, Statuses
<1>16. ASSUME NEW u \in Uploads, RemoveLocalCopy(u) PROVE Kept'
  BY <1>2, <1>16 DEF RemoveLocalCopy, RemoveFiles, Statuses
<1>17. CASE EditRoad \/ VaultCrash
  BY <1>3, <1>17 DEF EditRoad, VaultCrash, VaultDies
<1>18. ASSUME NEW u \in Uploads, AppendCut(u) PROVE Kept'
  <2> DEFINE grown == Grown(u, "right")
  <2>1. /\ StatusOf(u) = "receiving" /\ grown \in Chunks
        /\ Len(grown) = Len(Reconciled(u).file) + 1
        /\ \A i \in 1 .. Len(Reconciled(u).file) : grown[i] = Reconciled(u).file[i]
    BY <1>18, AppendableIs DEF AppendCut
  <2>2. /\ part'[u] = grown /\ receipt'[u].received = Len(Reconciled(u).file)
        /\ told'[u] = told[u] /\ cut' = cut
    BY <1>18, <2>1, ReconciledIs DEF AppendCut
  <2>3. u \notin cut => /\ Len(told[u]) <= Len(Reconciled(u).file)
                       /\ \A i \in 1 .. Len(told[u]) : told[u][i] = Reconciled(u).file[i]
    BY <2>1, KeptByReconciled
  <2>4. Len(told[u]) \in Nat /\ Len(Reconciled(u).file) \in Nat /\ Len(grown) \in Nat
    BY <2>1, ChunksAre, ReconciledIs
  <2> HIDE DEF grown
  <2>5. u \in cut' \/ KeptAt(u)'
    BY <2>1, <2>2, <2>3, <2>4 DEF KeptAt
  <2> QED BY <1>1, <1>18, <2>5 DEF AppendCut
<1>19. ASSUME NEW u \in Uploads, NEW andBlob \in BOOLEAN, RemoveCut(u, andBlob)
       PROVE  Kept'
  BY <1>1, <1>19 DEF RemoveCut, RemoveFiles
<1>20. CASE UNCHANGED vaultVars
  BY <1>3, <1>20 DEF vaultVars
<1> QED BY <1>4, <1>5, <1>6, <1>7, <1>8, <1>9, <1>10, <1>11, <1>12, <1>13, <1>14,
    <1>15, <1>16, <1>17, <1>18, <1>19, <1>20 DEF VaultNext, UploadStep

(* A verified receipt has a whole copy: only the read back and a restore     *)
(* make a receipt ready, and no copy is replaced by a damaged one.           *)
LEMMA ReadyStep ==
    ASSUME VaultTypeOK, UploadOK, ReadyIsRestorable, [VaultNext]_vaultVars
    PROVE  ReadyIsRestorable'
<1> USE DEF ReadyIsRestorable, StatusOf, vaultFiles, vaultThreads, vaultBounds,
        TransferEnds
<1>0. /\ receipt \in [Uploads -> Entries]
      /\ targetCopy \in [Uploads -> {"none", "whole", "damaged"}]
  BY DEF VaultTypeOK, Entries
<1> USE <1>0
<1>1. ASSUME NEW u \in Uploads, UNCHANGED targetCopy,
             receipt'[u].status = "ready" => StatusOf(u) = "ready" \/ targetCopy[u] = "whole",
             \A v \in Uploads \ {u} : receipt'[v] = receipt[v]
      PROVE  ReadyIsRestorable'
  BY <1>1
<1>2. ASSUME NEW u \in Uploads, CreateLook(u) \/ CreateSave(u)
      PROVE  ReadyIsRestorable'
  BY <1>1, <1>2 DEF CreateLook, CreateSave, Entries
<1>3. ASSUME NEW u \in Uploads, ImportReceipt(u) PROVE ReadyIsRestorable'
  BY <1>3 DEF ImportReceipt
<1>4. ASSUME NEW u \in Uploads, UploadStatus(u) PROVE ReadyIsRestorable'
  <2>1. receipt' = [receipt EXCEPT ![u] = Reconciled(u).entry] /\ UNCHANGED targetCopy
    BY <1>4 DEF UploadStatus, Refresh
  <2>2. Reconciled(u).entry.status = "ready" => StatusOf(u) = "ready"
    BY ReconciledIs
  <2> QED BY <1>1, <2>1, <2>2
<1>5. ASSUME NEW u \in Uploads, NEW chunk \in {"right", "wrong"},
             NEW answered \in BOOLEAN, AppendChunk(u, chunk, answered)
      PROVE  ReadyIsRestorable'
  BY <1>1, <1>5 DEF AppendChunk, Entries
<1>6. ASSUME NEW u \in Uploads, FinishUpload(u) PROVE ReadyIsRestorable'
  <2>1. receipt'[u].status # "ready"
    <3>1. Reconciled(u).entry \in Entries
      BY ReconciledIs
    <3>2. Reconciled(u).entry.status \in {"uploaded", "queued", "transferring"}
      BY <1>6 DEF FinishUpload, Queueable
    <3> QED BY <1>6, <3>1, <3>2 DEF FinishUpload, Entries
  <2> QED BY <1>1, <1>6, <2>1 DEF FinishUpload
<1>7. ASSUME NEW u \in Uploads, BeginTransfer(u) \/ PrepareBlob(u)
      PROVE  ReadyIsRestorable'
  BY <1>7, StatusFrame DEF BeginTransfer, PrepareBlob
<1>8. ASSUME NEW u \in Uploads, Verify(u) PROVE ReadyIsRestorable'
  BY <1>8, StatusFrame DEF Verify, CopyVerified
<1>17. ASSUME NEW u \in Uploads, NEW works \in BOOLEAN, AuditReady(u, works)
       PROVE  ReadyIsRestorable'
  <2>1. StatusOf(u) = "ready"
    BY <1>17 DEF AuditReady, UploadOK
  <2> QED BY <1>17, <2>1, StatusFrame DEF AuditReady
<1>9. ASSUME NEW u \in Uploads, NEW lands \in {"whole", "damaged", "none"},
             PublishCopy(u, lands)
      PROVE  ReadyIsRestorable'
  BY <1>9, StatusFrame DEF PublishCopy
<1>10. ASSUME NEW u \in Uploads, DownloadReads(u) \/ DownloadLocks(u)
       PROVE  ReadyIsRestorable'
  BY <1>10 DEF DownloadReads, DownloadLocks
<1>11. ASSUME NEW u \in Uploads, NEW works \in BOOLEAN, Rescue(u, works)
       PROVE  ReadyIsRestorable'
  BY <1>11, StatusFrame DEF Rescue
<1>12. ASSUME NEW u \in Uploads, RemoveLocalCopy(u) PROVE ReadyIsRestorable'
  BY <1>12, StatusFrame DEF RemoveLocalCopy
<1>13. CASE EditRoad \/ VaultCrash
  BY <1>13 DEF EditRoad, VaultCrash
<1>14. ASSUME NEW u \in Uploads, AppendCut(u) PROVE ReadyIsRestorable'
  <2>1. Reconciled(u).entry.status = "ready" => StatusOf(u) = "ready"
    BY ReconciledIs
  <2> QED BY <1>1, <1>14, <2>1 DEF AppendCut
<1>15. ASSUME NEW u \in Uploads, NEW andBlob \in BOOLEAN, RemoveCut(u, andBlob)
       PROVE  ReadyIsRestorable'
  BY <1>15 DEF RemoveCut
<1>16. CASE UNCHANGED vaultVars
  BY <1>16 DEF vaultVars
<1> QED BY <1>2, <1>3, <1>4, <1>5, <1>6, <1>7, <1>8, <1>9, <1>10, <1>11, <1>12,
    <1>13, <1>14, <1>15, <1>16, <1>17 DEF VaultNext, UploadStep

-----------------------------------------------------------------------------
(* The vault begins without a receipt.                                      *)
LEMMA VaultInitOK ==
    ASSUME VaultInit
    PROVE  VaultInvariant
<1>1. VaultTypeOK
  <2>1. << >> \in Chunks
    BY EmptyIsChunks
  <2> QED BY <2>1, VaultAssumptions DEF VaultInit, VaultTypeOK, Statuses
<1>2. UploadOK /\ ReadyIsRestorable
  BY DEF VaultInit, UploadOK, ReadyIsRestorable, StatusOf
<1>3. AcknowledgedKept
  BY DEF VaultInit, AcknowledgedKept, StatusOf
<1> QED BY <1>1, <1>2, <1>3 DEF VaultInvariant

LEMMA VaultStep ==
    ASSUME VaultInvariant, [VaultNext]_vaultVars
    PROVE  VaultInvariant'
<1> USE DEF VaultInvariant
<1>1. VaultTypeOK' /\ UploadOK' /\ ReadyIsRestorable'
  BY VaultTypeStep, UploadStepOK, ReadyStep
<1>2. Kept'
  BY AcknowledgedIs, KeptStep
<1>3. (VaultTypeOK => (AcknowledgedKept <=> Kept))'
  BY AcknowledgedIs, PTL
<1> QED BY <1>1, <1>2, <1>3

(* Type correctness of the vault.                                           *)
THEOREM VaultTypesHold == VaultSpec => []VaultTypeOK
<1>1. VaultInvariant => VaultTypeOK
  BY DEF VaultInvariant
<1> QED BY <1>1, VaultInitOK, VaultStep, PTL DEF VaultSpec

(* What the phone was told has arrived stays in the part file for as long as *)
(* the upload takes chunks, through crashes between the bytes and the        *)
(* receipt, lost answers and repeated requests (append_chunk); a removal     *)
(* that was asked for and cut short is excluded until the next answer.       *)
THEOREM AcknowledgedIsKept == VaultSpec => []AcknowledgedKept
<1>1. VaultInvariant => AcknowledgedKept
  BY DEF VaultInvariant
<1> QED BY <1>1, VaultInitOK, VaultStep, PTL DEF VaultSpec

(* A receipt that says the file is safe has a whole copy in the target,      *)
(* however often rclone reported success for a damaged one.                  *)
THEOREM ReadyStaysRestorable == VaultSpec => []ReadyIsRestorable
<1>1. VaultInvariant => ReadyIsRestorable
  BY DEF VaultInvariant
<1> QED BY <1>1, VaultInitOK, VaultStep, PTL DEF VaultSpec

(* No step takes the data of a complete upload that nobody asked to remove:  *)
(* a part gives way only to its blob, and a blob goes with its last receipt. *)
LEMMA SharedDataStep ==
    ASSUME VaultTypeOK, VaultNext, NEW u \in Uploads, Complete(u), HasData(u)
    PROVE  HasData(u)' \/ u \in cut' \/ StatusOf(u)' = "gone"
<1> DEFINE Goal == HasData(u)' \/ u \in cut' \/ StatusOf(u)' = "gone"
<1> USE DEF HasData, StatusOf, vaultFiles, vaultThreads, vaultBounds
<1>0. receipt \in [Uploads -> Entries] /\ part \in [Uploads -> Chunks] /\ cut \subseteq Uploads
  BY DEF VaultTypeOK, Entries
<1> USE <1>0
<1>1. ASSUME blobs \subseteq blobs', part'[u] = part[u] PROVE Goal
  BY <1>1
<1>2. StatusOf(u) \notin {"none", "gone", "receiving"}
  BY DEF Complete
<1>3. ASSUME NEW v \in Uploads, UNCHANGED blobs, NEW s, part' = [part EXCEPT ![v] = s],
             v = u => s = part[u]
      PROVE  Goal
  BY <1>1, <1>3
<1>4. ASSUME NEW v \in Uploads, UploadStatus(v) \/ FinishUpload(v) PROVE Goal
  BY <1>2, <1>3, <1>4, ReconciledIs DEF UploadStatus, Refresh, FinishUpload
<1>5. ASSUME NEW v \in Uploads, NEW chunk \in {"right", "wrong"},
             NEW answered \in BOOLEAN, AppendChunk(v, chunk, answered)
      PROVE  Goal
  BY <1>2, <1>3, <1>5, AppendableIs DEF AppendChunk
<1>6. ASSUME NEW v \in Uploads, PrepareBlob(v) PROVE Goal
  BY <1>6 DEF PrepareBlob
<1>7. ASSUME NEW v \in Uploads, NEW andBlob \in BOOLEAN, Known(v),
             RemoveFiles(v, andBlob), v = u => u \in cut' \/ StatusOf(u)' = "gone"
      PROVE  Goal
  <2>1. CASE v # u
    <3>1. Known(u) /\ part'[u] = part[u]
      BY <1>2, <1>7, <2>1 DEF Known, RemoveFiles
    <3>2. CASE ContentOf[u] # ContentOf[v]
      BY <1>7, <3>1, <3>2 DEF RemoveFiles
    <3>3. CASE ContentOf[u] = ContentOf[v]
      <4>1. u \in Others(v)
        BY <2>1, <3>1, <3>3 DEF Others
      <4>2. UNCHANGED blobs
        BY <1>7, <4>1 DEF RemoveFiles, LastOfItsContent
      <4> QED BY <1>1, <3>1, <4>2
    <3> QED BY <3>2, <3>3
  <2> QED BY <1>7, <2>1
<1>8. ASSUME NEW v \in Uploads, RemoveLocalCopy(v) PROVE Goal
  <2>1. v = u => StatusOf(u)' = "gone"
    BY <1>8, StatusFrame DEF RemoveLocalCopy
  <2> QED BY <1>7, <1>8, <2>1 DEF RemoveLocalCopy, Deletable
<1>9. ASSUME NEW v \in Uploads, AppendCut(v) PROVE Goal
  BY <1>2, <1>3, <1>9, AppendableIs DEF AppendCut
<1>10. ASSUME NEW v \in Uploads, NEW andBlob \in BOOLEAN, RemoveCut(v, andBlob) PROVE Goal
  BY <1>7, <1>10 DEF RemoveCut, Deletable
<1>11. ASSUME NEW v \in Uploads,
              \/ CreateLook(v) \/ CreateSave(v) \/ ImportReceipt(v) \/ BeginTransfer(v)
              \/ Verify(v) \/ DownloadReads(v) \/ DownloadLocks(v)
              \/ \E works \in BOOLEAN : Rescue(v, works) \/ AuditReady(v, works)
              \/ \E lands \in {"whole", "damaged", "none"} : PublishCopy(v, lands)
       PROVE  Goal
  BY <1>1, <1>11 DEF CreateLook, CreateSave, ImportReceipt, BeginTransfer, Verify,
     AuditReady, DownloadReads, DownloadLocks, Rescue, PublishCopy
<1>12. CASE EditRoad \/ VaultCrash
  BY <1>1, <1>12 DEF EditRoad, VaultCrash
<1> QED BY <1>4, <1>5, <1>6, <1>8, <1>9, <1>10, <1>11, <1>12 DEF VaultNext, UploadStep

(* Removing one upload never takes the data of another complete one, however *)
(* many share the content (remove_local_copy).                               *)
THEOREM SharedDataIsKept == VaultSpec => SharedDataKept
<1> DEFINE Remains == \A u \in Uploads : Complete(u) /\ HasData(u) =>
                         HasData(u)' \/ u \in cut' \/ StatusOf(u)' = "gone"
<1>1. VaultInvariant => VaultTypeOK
  BY DEF VaultInvariant
<1>2. VaultTypeOK /\ [VaultNext]_vaultVars => [Remains]_vaultVars
  BY SharedDataStep
<1> QED BY <1>1, <1>2, VaultInitOK, VaultStep, PTL DEF VaultSpec, SharedDataKept
=============================================================================
