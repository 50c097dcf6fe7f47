------------------------ MODULE DefinitionBatchProofs ------------------------
(***************************************************************************)
(* Machine-checked proofs about DefinitionBatch, for any number of batches *)
(* and definitions, of kills of the web process and of failing operations. *)
(*                                                                         *)
(* The inductive invariant is BatchInvariant.  Whoever works on a batch    *)
(* holds the scope, and no child lives but one its own thread has left     *)
(* behind (ScopeOK); the rows of a batch agree with each other and with what was driven          *)
(* (RecordsOK); the batch at hand is one that may be worked on             *)
(* (AtHandOK); what the thread read when it began is still true from where *)
(* it is, and only the rows it has passed can still show a run, so a job   *)
(* it finds running was never driven (ThreadOK).                           *)
(*                                                                         *)
(* For the refinement of BatchLedger two facts come on top: items are begun *)
(* in their order (FrontOK), and the batches the start-up looks at are the  *)
(* ones that are not over (QueueOK).                                        *)
(***************************************************************************)
EXTENDS DefinitionBatch, FiniteSetTheorems, SequenceTheorems, TLAPS

Working == {"spawn", "load", "item", "start", "link", "claim", "drive", "close", "read",
            "pending", "finish"}
Holding == Working \cup {"settle", "reserve", "create"}
Starting == {"boot", "bootlock", "resume", "acquire"}

ScopeOK ==
    /\ lock = "web" <=> pc \in Holding
    /\ pc \in Starting => boot
    /\ pc \in Holding \cup {"idle"} /\ pc \notin {"settle", "spawn"} => ~boot
    /\ pc \in Holding \ {"settle"} => orphan \in {Nobody, batch}

RecordsOK ==
    /\ \A b \in Batches :
          /\ state[b] = "absent" => \A i \in Items : item[b][i] = "none"
          /\ state[b] \notin {"absent", "refused"} => \A i \in Items : item[b][i] # "none"
          /\ state[b] \in {"done", "cancelled"} => ~Unfinished(item[b])
          /\ state[b] = "cancelled" => flag[b]
          /\ late[b] <= 1
          /\ late[b] # 0 => flag[b]
    /\ \A b \in Batches, i \in Items :
          /\ drives[b][i] <= 1
          /\ drives[b][i] # 0 => item[b][i] \notin {"none", "queued"}
          /\ job[b][i] = "ok" \/ intent[b][i] # "none" => drives[b][i] = 1
          /\ item[b][i] = "done" => job[b][i] = "ok"

AtHandOK ==
    /\ pc = "resume" => \A k \in DOMAIN queue : state[queue[k]] \notin {"absent", "refused"}
    /\ pc = "acquire" \/ (pc = "settle" /\ boot) =>
          /\ queue # <<>>
          /\ state[batch] \notin {"absent", "refused"}
          /\ \A k \in DOMAIN queue : state[queue[k]] \notin {"absent", "refused"}
    /\ (pc = "settle" /\ ~boot) \/ pc \in {"reserve", "create"} => state[batch] = "absent"
    /\ pc \in Working => state[batch] \notin {"absent", "refused"}

(* Which rows may still show a run.                                        *)
Runs(b, i) == job[b][i] = "running"
OnlyFirst == \A b \in Batches, i \in Items :
                Runs(b, i) => b = batch /\ i = 1 /\ drives[b][i] = 0
OnlyPassed == \A b \in Batches, i \in Items :
                 Runs(b, i) => b = batch /\ (i < pos \/ (i = 1 /\ pos = 1 /\ drives[b][i] = 0))
OnlySoFar == \A b \in Batches, i \in Items : Runs(b, i) => b = batch /\ i <= pos
OnlyThis == \A b \in Batches, i \in Items : Runs(b, i) => b = batch /\ i = pos

ThreadOK ==
    /\ pc = "reserve" => ~JobRunning
    /\ pc \in {"create", "spawn", "load"} => OnlyFirst
    /\ pc = "item" => OnlyPassed
    /\ pc \in {"start", "claim", "read", "pending", "finish"} => OnlySoFar
    /\ pc \in {"link", "drive", "close"} => OnlyThis
    /\ pc \in Working \ {"spawn", "load", "item"} => pos \in Items
    /\ pc \in Working \ {"spawn", "load"} =>
          \A i \in Items : i < pos => item[batch][i] \in Ended
    /\ pc \in {"item", "start", "link"} =>
          \A i \in Items : i >= pos => seen[i] = item[batch][i]
    /\ pc \in Working \ {"spawn", "load"} =>
          \A i \in Items : i > pos => seen[i] = item[batch][i]
    /\ pc \in {"start", "link"} => item[batch][pos] = "queued"
    /\ pc \in {"start", "link", "claim"} => late[batch] = 0
    /\ pc = "claim" => /\ item[batch][pos] = "running"
                       /\ Runs(batch, pos) => drives[batch][pos] = 0 /\ OnlyThis
    /\ pc \in {"drive", "close"} => drives[batch][pos] = 1
    /\ pc = "close" => outcome \in Results
    /\ pc = "finish" => /\ outcome \in Ended
                        /\ outcome = "done" => job[batch][pos] = "ok"

BatchInvariant == TypeOK /\ ScopeOK /\ RecordsOK /\ AtHandOK /\ ThreadOK

-----------------------------------------------------------------------------
ItemStates == Ended \cup {"none", "queued", "running"}
JobStates  == Results \cup {"none", "running", "stale"}
Intents    == Results \cup {"none"}

ItemTable   == [Batches -> [Items -> ItemStates]]
JobTable    == [Batches -> [Items -> JobStates]]
IntentTable == [Batches -> [Items -> Intents]]

LEMMA BatchNumbers ==
    /\ NumBatches \in Nat /\ Last \in Nat /\ MaxCrashes \in Nat /\ MaxFaults \in Nat
    /\ 1 \in Batches /\ 1 \in Items /\ Batches \subseteq Nat /\ Items \subseteq Nat
    /\ \A i \in Items : i + 1 \in 1 .. (Last + 1)
    /\ \A i \in 1 .. (Last + 1) : i \in Nat /\ (i \notin Items => i = Last + 1)
BY BatchAssumptions DEF Batches, Items

LEMMA BatchFacts ==
    ASSUME TypeOK
    PROVE  /\ item \in ItemTable /\ job \in JobTable /\ intent \in IntentTable
           /\ \A b \in Batches : /\ item[b] \in [Items -> ItemStates]
                                 /\ job[b] \in [Items -> JobStates]
                                 /\ intent[b] \in [Items -> Intents]
                                 /\ drives[b] \in [Items -> Nat]
           /\ \A b \in Batches, i \in Items :
                 /\ item[b][i] \in ItemStates /\ job[b][i] \in JobStates
                 /\ intent[b][i] \in Intents /\ drives[b][i] \in Nat
           /\ batch \in Batches /\ pos \in 1 .. (Last + 1) /\ pos \in Nat
           /\ seen \in [Items -> ItemStates]
           /\ state \in [Batches -> {"absent", "refused", "running", "done", "cancelled"}]
           /\ flag \in [Batches -> BOOLEAN] /\ late \in [Batches -> Nat]
           /\ drives \in [Batches -> [Items -> Nat]]
<1>1. /\ item \in [Batches -> [Items -> ItemStates]]
      /\ job \in [Batches -> [Items -> JobStates]]
      /\ intent \in [Batches -> [Items -> Intents]]
      /\ drives \in [Batches -> [Items -> Nat]]
  BY DEF TypeOK, ItemStates, JobStates, Intents
<1>2. \A b \in Batches : /\ item[b] \in [Items -> ItemStates]
                         /\ job[b] \in [Items -> JobStates]
                         /\ intent[b] \in [Items -> Intents]
                         /\ drives[b] \in [Items -> Nat]
  BY <1>1
<1>3. \A b \in Batches, i \in Items :
         /\ item[b][i] \in ItemStates /\ job[b][i] \in JobStates
         /\ intent[b][i] \in Intents /\ drives[b][i] \in Nat
  BY <1>2
<1>4. /\ batch \in Batches /\ pos \in 1 .. (Last + 1) /\ pos \in Nat
      /\ seen \in [Items -> ItemStates]
      /\ state \in [Batches -> {"absent", "refused", "running", "done", "cancelled"}]
      /\ flag \in [Batches -> BOOLEAN] /\ late \in [Batches -> Nat]
  BY BatchNumbers DEF TypeOK, ItemStates
<1> QED BY <1>1, <1>2, <1>3, <1>4 DEF ItemTable, JobTable, IntentTable

(* One cell of a table of rows.                                            *)
LEMMA Cell ==
    ASSUME NEW S, NEW f \in [Batches -> [Items -> S]], NEW b \in Batches, NEW i \in Items,
           NEW v \in S
    PROVE  /\ [f EXCEPT ![b][i] = v] \in [Batches -> [Items -> S]]
           /\ [f EXCEPT ![b][i] = v][b][i] = v
           /\ \A c \in Batches, k \in Items :
                 c # b \/ k # i => [f EXCEPT ![b][i] = v][c][k] = f[c][k]
<1>1. f[b] \in [Items -> S]
  OBVIOUS
<1>2. [f[b] EXCEPT ![i] = v] \in [Items -> S]
  BY <1>1
<1> QED BY <1>1, <1>2

LEMMA FinishedTable ==
    ASSUME TypeOK, NEW b \in Batches, NEW i \in Items, NEW s \in Results
    PROVE  /\ Finished(job, b, i, s) \in JobTable
           /\ Finished(job, b, i, s)[b][i] = IF Runs(b, i) THEN s ELSE job[b][i]
           /\ \A c \in Batches, k \in Items :
                 c # b \/ k # i => Finished(job, b, i, s)[c][k] = job[c][k]
<1> DEFINE v == IF job[b][i] = "running" THEN s ELSE job[b][i]
<1>1. /\ job \in [Batches -> [Items -> JobStates]] /\ v \in JobStates
  BY BatchFacts DEF JobTable, JobStates
<1>2. Finished(job, b, i, s) = [job EXCEPT ![b][i] = v]
  BY DEF Finished
<1> HIDE DEF v
<1>3. /\ [job EXCEPT ![b][i] = v] \in [Batches -> [Items -> JobStates]]
      /\ [job EXCEPT ![b][i] = v][b][i] = v
      /\ \A c \in Batches, k \in Items :
            c # b \/ k # i => [job EXCEPT ![b][i] = v][c][k] = job[c][k]
  BY <1>1, Cell
<1> QED BY <1>2, <1>3 DEF v, Runs, JobTable

(* What becomes of the jobs when none is started: none runs that did not,   *)
(* and ok is what was ok before or what an announced or driven run ended    *)
(* with.                                                                    *)
JobsMove ==
    /\ job' \in JobTable /\ intent' \in IntentTable
    /\ \A b \in Batches, i \in Items :
          /\ Runs(b, i)' => Runs(b, i)
          /\ job'[b][i] = "ok" \/ intent'[b][i] # "none" =>
                job[b][i] = "ok" \/ intent[b][i] # "none" \/ drives[b][i] = 1
          /\ job[b][i] = "ok" => job'[b][i] = "ok"

LEMMA JobsKept == ASSUME TypeOK, UNCHANGED <<job, intent>> PROVE JobsMove
BY BatchFacts DEF JobsMove, Runs

LEMMA ReplayMoves ==
    ASSUME TypeOK, job' = Replayed, intent' = StillOpen
    PROVE  JobsMove
<1>1. ASSUME NEW b \in Batches, NEW i \in Items
      PROVE  /\ job'[b][i] = IF Applicable(b, i) THEN intent[b][i] ELSE job[b][i]
             /\ intent'[b][i] = IF Applicable(b, i) THEN "none" ELSE intent[b][i]
             /\ job[b][i] \in JobStates /\ intent[b][i] \in Intents
  BY BatchFacts DEF Replayed, StillOpen
<1>2. \A b \in Batches, i \in Items :
         /\ (IF Applicable(b, i) THEN intent[b][i] ELSE job[b][i]) \in JobStates
         /\ (IF Applicable(b, i) THEN "none" ELSE intent[b][i]) \in Intents
  BY <1>1 DEF Applicable, JobStates, Intents
<1>3. job' \in JobTable /\ intent' \in IntentTable
  BY <1>2 DEF Replayed, StillOpen, JobTable, IntentTable
<1> QED BY <1>1, <1>3 DEF JobsMove, Runs, Applicable, Intents, Results

LEMMA ReconcileMoves ==
    ASSUME TypeOK, Reconcile
    PROVE  JobsMove /\ ~JobRunning'
<1>1. ASSUME NEW b \in Batches, NEW i \in Items
      PROVE  /\ Replayed[b][i] = IF Applicable(b, i) THEN intent[b][i] ELSE job[b][i]
             /\ job'[b][i] = IF Replayed[b][i] = "running" THEN "stale" ELSE Replayed[b][i]
             /\ intent'[b][i] = IF Applicable(b, i) THEN "none" ELSE intent[b][i]
             /\ job[b][i] \in JobStates /\ intent[b][i] \in Intents
  BY BatchFacts DEF Reconcile, Replayed, StillOpen
<1>2. \A b \in Batches, i \in Items :
         /\ (IF Replayed[b][i] = "running" THEN "stale" ELSE Replayed[b][i]) \in JobStates
         /\ (IF Applicable(b, i) THEN "none" ELSE intent[b][i]) \in Intents
  BY <1>1 DEF Applicable, JobStates, Intents
<1>3. job' \in JobTable /\ intent' \in IntentTable
  BY <1>2 DEF Reconcile, StillOpen, JobTable, IntentTable
<1>4. \A b \in Batches, i \in Items : job'[b][i] # "running"
  BY <1>1
<1> QED BY <1>1, <1>3, <1>4 DEF JobsMove, Runs, Applicable, Intents, Results, JobRunning

(* One job is closed, or its outcome announced.                            *)
LEMMA FinishMoves ==
    ASSUME TypeOK, NEW b \in Batches, NEW i \in Items, NEW s \in Results,
           s = "ok" => drives[b][i] = 1,
           job' = Finished(job, b, i, s), UNCHANGED intent
    PROVE  JobsMove
BY FinishedTable, BatchFacts DEF JobsMove, Runs, Results

(* One item is closed, and the batch with its last one.                    *)
LEMMA ItemFinished ==
    ASSUME TypeOK, NEW b \in Batches, NEW i \in Items, NEW s \in Ended, ItemFinish(b, i, s)
    PROVE  /\ item' \in ItemTable
           /\ item'[b][i] = IF item[b][i] \in {"queued", "running"} THEN s ELSE item[b][i]
           /\ \A c \in Batches, k \in Items : c # b \/ k # i => item'[c][k] = item[c][k]
           /\ state' \in [Batches -> {"absent", "refused", "running", "done", "cancelled"}]
           /\ \A c \in Batches : c # b => state'[c] = state[c]
           /\ \/ state'[b] = state[b]
              \/ /\ state[b] = "running" /\ ~Unfinished(item'[b])
                 /\ state'[b] = IF flag[b] THEN "cancelled" ELSE "done"
<1> DEFINE v == IF item[b][i] \in {"queued", "running"} THEN s ELSE item[b][i]
<1>1. /\ item \in [Batches -> [Items -> ItemStates]] /\ v \in ItemStates
      /\ state \in [Batches -> {"absent", "refused", "running", "done", "cancelled"}]
  BY BatchFacts DEF ItemTable, ItemStates
<1>2. item' = [item EXCEPT ![b][i] = v]
  BY DEF ItemFinish
<1>3. \/ state' = state
      \/ /\ state[b] = "running" /\ ~Unfinished(item'[b])
         /\ state' = [state EXCEPT ![b] = IF flag[b] THEN "cancelled" ELSE "done"]
  BY DEF ItemFinish
<1> HIDE DEF v
<1>4. /\ item' \in [Batches -> [Items -> ItemStates]] /\ item'[b][i] = v
      /\ \A c \in Batches, k \in Items : c # b \/ k # i => item'[c][k] = item[c][k]
  BY <1>1, <1>2, Cell
<1>5. /\ state' \in [Batches -> {"absent", "refused", "running", "done", "cancelled"}]
      /\ \A c \in Batches : c # b => state'[c] = state[c]
      /\ \/ state'[b] = state[b]
         \/ /\ state[b] = "running" /\ ~Unfinished(item'[b])
            /\ state'[b] = IF flag[b] THEN "cancelled" ELSE "done"
  BY <1>1, <1>3
<1> QED BY <1>4, <1>5 DEF v, ItemTable

LEMMA RecoveredItems ==
    ASSUME TypeOK, NEW b \in Batches
    PROVE  /\ Recovered(b) \in [Items -> ItemStates]
           /\ \A i \in Items :
                 \/ Recovered(b)[i] = item[b][i]
                 \/ /\ item[b][i] = "running" /\ job[b][i] # "running"
                    /\ Recovered(b)[i] = IF job[b][i] = "ok" THEN "done" ELSE "failed"
BY BatchFacts DEF Recovered, ItemStates, Ended

LEMMA CreatedItems ==
    ASSUME TypeOK, Created
    PROVE  /\ state' \in [Batches -> {"absent", "refused", "running", "done", "cancelled"}]
           /\ state'[batch] = "running" /\ \A b \in Batches : b # batch => state'[b] = state[b]
           /\ item' \in ItemTable
           /\ \A b \in Batches : b # batch => item'[b] = item[b]
           /\ \A i \in Items : item'[batch][i] = IF i = 1 THEN "running" ELSE "queued"
BY BatchFacts DEF Created, ItemTable, ItemStates

-----------------------------------------------------------------------------
(* Every variable keeps its type.                                           *)
LEMMA TablesType ==
    ASSUME BatchInvariant, [Next]_vars
    PROVE  /\ item' \in ItemTable /\ job' \in JobTable /\ intent' \in IntentTable
           /\ state' \in [Batches -> {"absent", "refused", "running", "done", "cancelled"}]
           /\ flag' \in [Batches -> BOOLEAN] /\ late' \in [Batches -> Nat]
           /\ drives' \in [Batches -> [Items -> Nat]]
<1> DEFINE Typed ==
       /\ item' \in ItemTable /\ job' \in JobTable /\ intent' \in IntentTable
       /\ state' \in [Batches -> {"absent", "refused", "running", "done", "cancelled"}]
       /\ flag' \in [Batches -> BOOLEAN] /\ late' \in [Batches -> Nat]
       /\ drives' \in [Batches -> [Items -> Nat]]
<1>0. /\ TypeOK /\ batch \in Batches /\ 1 \in Items
      /\ item \in ItemTable /\ job \in JobTable /\ intent \in IntentTable
      /\ state \in [Batches -> {"absent", "refused", "running", "done", "cancelled"}]
      /\ flag \in [Batches -> BOOLEAN] /\ late \in [Batches -> Nat]
      /\ drives \in [Batches -> [Items -> Nat]]
  BY BatchFacts, BatchNumbers DEF BatchInvariant
<1>a. ASSUME NEW b \in Batches, NEW i \in Items, NEW s \in JobStates
      PROVE  [job EXCEPT ![b][i] = s] \in JobTable
  BY <1>0, Cell DEF JobTable
<1>b. ASSUME NEW b \in Batches, NEW i \in Items, NEW s \in Intents
      PROVE  [intent EXCEPT ![b][i] = s] \in IntentTable
  BY <1>0, Cell DEF IntentTable
<1>c. ASSUME NEW b \in Batches, NEW i \in Items, NEW s \in ItemStates
      PROVE  [item EXCEPT ![b][i] = s] \in ItemTable
  BY <1>0, Cell DEF ItemTable
<1>d. ASSUME NEW b \in Batches, NEW i \in Items, NEW s \in Results
      PROVE  Finished(job, b, i, s) \in JobTable
  BY <1>0, FinishedTable
<1>p. pc \in Working \ {"spawn", "load", "item"} => pos \in Items
  BY DEF BatchInvariant, ThreadOK
<1>1. CASE UNCHANGED tables /\ UNCHANGED <<drives, late>>
  BY <1>0, <1>1 DEF tables
<1>2. CASE \/ Request \/ ResumeEnds \/ Acquire \/ SettleRefused \/ Spawn \/ Load \/ NextItem
           \/ ThreadEnds \/ Drive \/ ReadJob \/ Pause \/ NoOutcome \/ BootReplayFails
           \/ SettleFails \/ StartupFails \/ CancelSignal \/ OtherTakes \/ OtherReleases
           \/ ChildExits \/ Crash \/ UNCHANGED vars
  <2>1. UNCHANGED tables /\ UNCHANGED <<drives, late>>
    BY <1>2 DEF Request, ResumeEnds, Acquire, SettleRefused, Spawn, Load, NextItem, ThreadEnds,
                Drive, ReadJob, Pause, NoOutcome, BootReplayFails, SettleFails, StartupFails,
                CancelSignal, OtherTakes, OtherReleases, ChildExits, Crash, vars, history
  <2> QED BY <1>1, <2>1
<1>3. CASE BootReplay \/ BootReconcile \/ Settle \/ OtherReconciles
  <2>1. UNCHANGED <<state, flag, item, drives, late>>
    BY <1>3 DEF BootReplay, BootReconcile, Settle, OtherReconciles, history
  <2>2. JobsMove
    BY <1>0, <1>3, ReplayMoves, ReconcileMoves, JobsKept
       DEF BootReplay, BootReconcile, Settle, OtherReconciles
  <2> QED BY <1>0, <2>1, <2>2 DEF JobsMove
<1>4. CASE Reserve \/ ReserveFails
  <2>1. UNCHANGED <<flag, item, drives, late, intent>>
    BY <1>4 DEF Reserve, ReserveFails, history
  <2>2. UNCHANGED state \/ state' = [state EXCEPT ![batch] = "refused"]
    BY <1>4 DEF Reserve, ReserveFails
  <2>3. UNCHANGED job \/ \E s \in {"none", "running"} : job' = [job EXCEPT ![batch][1] = s]
    BY <1>4 DEF Reserve, ReserveFails
  <2>4. "none" \in JobStates /\ "running" \in JobStates
    BY DEF JobStates
  <2>5. job' \in JobTable
    BY <1>0, <1>a, <2>3, <2>4
  <2>6. state' \in [Batches -> {"absent", "refused", "running", "done", "cancelled"}]
    BY <1>0, <2>2
  <2> QED BY <1>0, <2>1, <2>5, <2>6
<1>5. CASE Create \/ CreateFails \/ SpawnFails
  <2>1. UNCHANGED <<flag, drives, late, intent>>
    BY <1>5 DEF Create, CreateFails, SpawnFails, history
  <2>2. UNCHANGED job \/ job' = Finished(job, batch, 1, "error")
    BY <1>5 DEF Create, CreateFails, SpawnFails, Abort
  <2>3. \/ Created \/ UNCHANGED <<state, item>>
        \/ state' = [state EXCEPT ![batch] = "refused"] /\ UNCHANGED item
    BY <1>5 DEF Create, CreateFails, SpawnFails
  <2>4. job' \in JobTable
    BY <1>0, <1>d, <2>2 DEF Results
  <2> QED BY <1>0, <2>1, <2>3, <2>4, CreatedItems
<1>6. CASE Resume
  <2>1. UNCHANGED <<flag, drives, late, intent, job>>
    BY <1>6 DEF Resume, history
  <2>2. Head(queue) \in Batches
    BY <1>0, <1>6, HeadTailProperties DEF Resume, TypeOK
  <2>3. /\ item' = [item EXCEPT ![Head(queue)] = Recovered(Head(queue))]
        /\ UNCHANGED state \/ state' = [state EXCEPT ![Head(queue)] = "done"]
    BY <1>6 DEF Resume
  <2>4. item' \in ItemTable
    BY <1>0, <2>2, <2>3, RecoveredItems DEF ItemTable
  <2> QED BY <1>0, <2>1, <2>2, <2>3, <2>4
<1>7. CASE Start \/ StartFails
  <2>1. UNCHANGED <<state, flag, drives, late, intent, item>>
    BY <1>7 DEF Start, StartFails
  <2>2. pos \in Items
    BY <1>7, <1>p DEF Start, StartFails, Working
  <2>3. UNCHANGED job \/ job' = [job EXCEPT ![batch][pos] = "running"]
    BY <1>7 DEF Start, StartFails
  <2>4. "running" \in JobStates
    BY DEF JobStates
  <2>5. job' \in JobTable
    BY <1>0, <1>a, <2>2, <2>3, <2>4
  <2> QED BY <1>0, <2>1, <2>5
<1>8. CASE Link \/ LinkFails
  <2>1. UNCHANGED <<state, flag, drives, late, intent>>
    BY <1>8 DEF Link, LinkFails, history
  <2>2. pos \in Items
    BY <1>8, <1>p DEF Link, LinkFails, Working
  <2>3. UNCHANGED job \/ job' = Finished(job, batch, pos, "error")
    BY <1>8 DEF Link, LinkFails
  <2>4. UNCHANGED item
        \/ \E s \in {item[batch][pos], "running"} : item' = [item EXCEPT ![batch][pos] = s]
    BY <1>8 DEF Link, LinkFails
  <2>5. item[batch][pos] \in ItemStates /\ "running" \in ItemStates
    BY <1>0, <2>2, BatchFacts DEF ItemStates
  <2>6. item' \in ItemTable
    BY <1>0, <1>c, <2>2, <2>4, <2>5
  <2> QED BY <1>0, <1>d, <2>1, <2>2, <2>3, <2>6 DEF Results
<1>9. CASE Claim
  <2>1. UNCHANGED tables
    BY <1>9 DEF Claim
  <2>2. pos \in Items
    BY <1>9, <1>p DEF Claim, Working
  <2>3. /\ UNCHANGED drives \/ drives' = [drives EXCEPT ![batch][pos] = drives[batch][pos] + 1]
        /\ UNCHANGED late \/ late' = [late EXCEPT ![batch] = late[batch] + 1]
    BY <1>9 DEF Claim
  <2>4. drives[batch][pos] + 1 \in Nat /\ late[batch] + 1 \in Nat
    BY <1>0, <2>2, BatchFacts
  <2>5. drives' \in [Batches -> [Items -> Nat]]
    <3>1. /\ drives \in [Batches -> [Items -> Nat]] /\ batch \in Batches
      BY <1>0, BatchFacts
    <3>2. [drives EXCEPT ![batch][pos] = drives[batch][pos] + 1] \in [Batches -> [Items -> Nat]]
      BY <2>2, <2>4, <3>1, Cell
    <3> QED BY <2>3, <3>1, <3>2
  <2> QED BY <1>0, <2>1, <2>3, <2>4, <2>5 DEF tables
<1>10. CASE ClaimFails \/ Close \/ CloseFails
  <2>1. UNCHANGED <<state, flag, drives, late, item>>
    BY <1>10 DEF ClaimFails, Close, CloseFails, history
  <2>2. pos \in Items
    BY <1>10, <1>p DEF ClaimFails, Close, CloseFails, Working
  <2>3. PICK s \in Results :
           /\ UNCHANGED job \/ job' = Finished(job, batch, pos, s)
           /\ UNCHANGED intent \/ intent' = [intent EXCEPT ![batch][pos] = s]
    <3>1. CASE ClaimFails
      BY <3>1 DEF ClaimFails, Results
    <3>2. CASE Close \/ CloseFails
      <4>1. outcome \in Results
        BY <3>2 DEF Close, CloseFails, BatchInvariant, ThreadOK
      <4> QED BY <3>2, <4>1 DEF Close, CloseFails
    <3> QED BY <1>10, <3>1, <3>2
  <2>4. s \in Intents
    BY DEF Intents
  <2> QED BY <1>0, <1>b, <1>d, <2>1, <2>2, <2>3, <2>4
<1>11. CASE FinishItem \/ ThreadRaises
  <2>1. UNCHANGED <<flag, drives, late, intent, job>>
    BY <1>11 DEF FinishItem, ThreadRaises, history
  <2>2. UNCHANGED <<item, state>> \/ (pc = "finish" /\ ItemFinish(batch, pos, outcome))
    BY <1>11 DEF FinishItem, ThreadRaises
  <2>3. pc = "finish" => pos \in Items /\ outcome \in Ended
    BY DEF BatchInvariant, ThreadOK, Working
  <2> QED BY <1>0, <2>1, <2>2, <2>3, ItemFinished
<1>12. CASE CancelRecord
  BY <1>0, <1>12 DEF CancelRecord, history
<1>13. CASE \E b \in Batches, i \in Items : ReplayedElsewhere(b, i)
  <2>1. PICK b \in Batches, i \in Items : ReplayedElsewhere(b, i)
    BY <1>13
  <2>2. UNCHANGED <<state, flag, item, drives, late>>
    BY <2>1 DEF ReplayedElsewhere, history
  <2>3. /\ job' = [job EXCEPT ![b][i] = intent[b][i]]
        /\ intent' = [intent EXCEPT ![b][i] = "none"]
    BY <2>1 DEF ReplayedElsewhere
  <2>4. intent[b][i] \in JobStates /\ "none" \in Intents
    BY <1>0, BatchFacts DEF Intents, JobStates
  <2> QED BY <1>0, <1>a, <1>b, <2>2, <2>3, <2>4
<1> HIDE DEF Typed
<1> QED
  BY <1>2, <1>3, <1>4, <1>5, <1>6, <1>7, <1>8, <1>9, <1>10, <1>11, <1>12, <1>13
     DEF Next, Startup, Setup, Thread, Faults, Others, Typed

LEMMA PendingQueue ==
    ASSUME TypeOK, NEW s \in [1 .. Cardinality(Pending) -> Pending]
    PROVE  s \in Seq(Batches) /\ \A k \in DOMAIN s : state[s[k]] = "running"
<1>1. IsFiniteSet(Batches) /\ Pending \subseteq Batches
  BY FS_Interval, BatchNumbers DEF Batches, Pending
<1>2. Cardinality(Pending) \in Nat
  BY <1>1, FS_Subset, FS_CardinalityType
<1>3. s \in [1 .. Cardinality(Pending) -> Batches]
  BY <1>1
<1> QED BY <1>2, <1>3, SeqDef DEF Pending

LEMMA TailIs ==
    ASSUME NEW q \in Seq(Batches), q # <<>>
    PROVE  /\ Tail(q) \in Seq(Batches) /\ Head(q) \in Batches /\ Head(q) = q[1]
           /\ 1 \in DOMAIN q
           /\ \A k \in DOMAIN Tail(q) : k + 1 \in DOMAIN q /\ Tail(q)[k] = q[k + 1]
<1>1. Len(q) \in Nat /\ Len(q) > 0 /\ DOMAIN q = 1 .. Len(q)
  BY EmptySeq, LenProperties
<1>2. Tail(q) \in Seq(Batches) /\ Len(Tail(q)) = Len(q) - 1
      /\ \A k \in 1 .. Len(Tail(q)) : Tail(q)[k] = q[k + 1]
  BY HeadTailProperties
<1>3. DOMAIN Tail(q) = 1 .. (Len(q) - 1)
  BY <1>2, LenProperties
<1> QED BY <1>1, <1>2, <1>3, HeadTailProperties, ElementOfSeq

LEMMA ControlType ==
    ASSUME BatchInvariant, [Next]_vars
    PROVE  /\ pos' \in 1 .. (Last + 1) /\ batch' \in Batches
           /\ seen' \in [Items -> ItemStates]
           /\ outcome' \in Results \cup Ended \cup {"none"}
           /\ queue' \in Seq(Batches) /\ parked' \subseteq Batches
<1> DEFINE Typed == /\ pos' \in 1 .. (Last + 1) /\ batch' \in Batches
                    /\ seen' \in [Items -> ItemStates]
                    /\ outcome' \in Results \cup Ended \cup {"none"}
                    /\ queue' \in Seq(Batches) /\ parked' \subseteq Batches
<1>0. /\ TypeOK /\ pos \in 1 .. (Last + 1) /\ batch \in Batches
      /\ seen \in [Items -> ItemStates] /\ outcome \in Results \cup Ended \cup {"none"}
      /\ queue \in Seq(Batches) /\ parked \subseteq Batches
      /\ \A b \in Batches : item[b] \in [Items -> ItemStates]
      /\ 1 \in 1 .. (Last + 1) /\ 1 \in Batches /\ <<>> \in Seq(Batches)
      /\ \A i \in Items : i + 1 \in 1 .. (Last + 1)
  <2>1. /\ TypeOK /\ outcome \in Results \cup Ended \cup {"none"}
        /\ queue \in Seq(Batches) /\ parked \subseteq Batches
    BY DEF BatchInvariant, TypeOK
  <2>2. 1 \in 1 .. (Last + 1) /\ <<>> \in Seq(Batches)
    BY BatchNumbers
  <2> QED BY <2>1, <2>2, BatchFacts, BatchNumbers
<1>p. pc \in Working \ {"spawn", "load", "item"} => pos \in Items
  BY DEF BatchInvariant, ThreadOK
<1>1. CASE \/ Reserve \/ ReserveFails \/ Create \/ CreateFails \/ Spawn \/ SpawnFails
           \/ BootReplay \/ BootReplayFails \/ ResumeEnds \/ SettleFails \/ StartupFails
           \/ ThreadEnds \/ Claim \/ ClaimFails \/ Close \/ CloseFails \/ Pause
           \/ ThreadRaises \/ CancelRecord \/ CancelSignal \/ Others \/ UNCHANGED vars
  <2>1. UNCHANGED <<pos, batch, seen, outcome, queue, parked>>
    BY <1>1
       DEF Reserve, ReserveFails, Create, CreateFails, Spawn, SpawnFails, BootReplay,
           BootReplayFails, ResumeEnds, SettleFails, StartupFails, ThreadEnds, Claim,
           ClaimFails, Close, CloseFails, Pause, ThreadRaises, CancelRecord, CancelSignal,
           Others, ReplayedElsewhere, OtherTakes, OtherReconciles, OtherReleases, ChildExits,
           vars, control, history
  <2> QED BY <1>0, <2>1
<1>2. CASE Request
  BY <1>0, <1>2 DEF Request, history
<1>3. CASE BootReconcile
  <2>1. PICK s \in [1 .. Cardinality(Pending) -> Pending] : queue' = s
    BY <1>3 DEF BootReconcile
  <2>2. UNCHANGED <<pos, batch, seen, outcome, parked>>
    BY <1>3 DEF BootReconcile, history
  <2> QED BY <1>0, <2>1, <2>2, PendingQueue
<1>4. CASE Resume
  <2>1. /\ queue # <<>> /\ batch' = Head(queue) /\ queue' \in {queue, Tail(queue)}
        /\ UNCHANGED <<pos, seen, outcome, parked>>
    BY <1>4 DEF Resume, history
  <2> QED BY <1>0, <2>1, TailIs
<1>5. CASE Acquire \/ SettleRefused
  <2>1. UNCHANGED <<pos, batch, seen, outcome>>
    BY <1>5 DEF Acquire, SettleRefused
  <2>2. \/ UNCHANGED <<queue, parked>>
        \/ /\ queue' = Tail(queue) /\ parked' = parked \cup {batch}
           /\ pc = "acquire" \/ (pc = "settle" /\ boot)
    BY <1>5 DEF Acquire, SettleRefused, PassOver
  <2>3. pc = "acquire" \/ (pc = "settle" /\ boot) => queue # <<>>
    BY DEF BatchInvariant, AtHandOK
  <2> QED BY <1>0, <2>1, <2>2, <2>3, TailIs
<1>6. CASE Settle
  <2>1. UNCHANGED <<pos, batch, seen, outcome>> /\ queue' = <<>>
    BY <1>6 DEF Settle
  <2>2. CASE ~boot
    BY <1>0, <1>6, <2>1, <2>2 DEF Settle
  <2>3. CASE boot
    <3>1. queue # <<>>
      BY <1>6, <2>3 DEF Settle, BatchInvariant, AtHandOK
    <3>2. Tail(queue) \in Seq(Batches) /\ Len(Tail(queue)) = Len(queue) - 1
      BY <1>0, <3>1, HeadTailProperties
    <3>3. \A k \in 1 .. (Len(queue) - 1) : Tail(queue)[k] \in Batches
      BY <3>2, ElementOfSeq
    <3>4. parked' = parked \cup {Tail(queue)[k] : k \in 1 .. Len(queue) - 1}
      BY <1>6, <2>3 DEF Settle
    <3> QED BY <1>0, <2>1, <3>3, <3>4
  <2> QED BY <2>2, <2>3
<1>7. CASE Load
  BY <1>0, <1>7 DEF Load, history
<1>8. CASE NextItem
  <2>1. /\ UNCHANGED <<batch, seen, queue, parked>> /\ pos \in Items
        /\ pos' \in {pos, pos + 1} /\ outcome' \in {outcome, "cancelled"}
    BY <1>8 DEF NextItem, history
  <2> QED BY <1>0, <2>1 DEF Ended
<1>9. CASE Start \/ StartFails \/ LinkFails \/ Drive \/ ReadJob \/ NoOutcome
  <2>1. /\ UNCHANGED <<pos, batch, seen, queue, parked>>
        /\ outcome' \in Results \cup Ended \cup {"none"}
    BY <1>0, <1>9
       DEF Start, StartFails, LinkFails, Drive, ReadJob, NoOutcome, GiveUp, history, Results,
           Ended
  <2> QED BY <1>0, <2>1
<1>10. CASE Link \/ FinishItem
  <2>1. UNCHANGED <<batch, seen, outcome, queue, parked>> /\ pos' \in {pos, pos + 1}
    BY <1>10 DEF Link, FinishItem, history
  <2>2. pos \in Items
    BY <1>10, <1>p DEF Link, FinishItem, Working
  <2> QED BY <1>0, <2>1, <2>2
<1>11. CASE Crash
  <2>1. /\ batch' = 1 /\ pos' = 1 /\ seen' = [i \in Items |-> "none"]
        /\ outcome' = "none" /\ queue' = <<>> /\ UNCHANGED parked
    BY <1>11 DEF Crash, history
  <2> QED BY <1>0, <2>1 DEF ItemStates
<1> HIDE DEF Typed
<1> QED
  BY <1>1, <1>2, <1>3, <1>4, <1>5, <1>6, <1>7, <1>8, <1>9, <1>10, <1>11
     DEF Next, Startup, Setup, Thread, Faults, Typed

(* Where a step takes the web process, and what it does to the locks.       *)
Stays    == UNCHANGED <<lock, pc, boot, batch, orphan>>
WorksOn  == /\ pc \in Holding /\ pc' \in Working \cup {"reserve", "create"}
            /\ UNCHANGED <<lock, batch>> /\ orphan' \in {orphan, batch}
            /\ pc = "settle" => orphan = Nobody /\ UNCHANGED boot /\ (boot <=> pc' = "spawn")
            /\ pc # "settle" => boot' = boot \/ boot' = FALSE
            /\ pc = "spawn" => boot' = FALSE
            /\ pc' = "spawn" => pc \in {"settle", "create"}
GivesUp  == pc \in Holding /\ Leave /\ UNCHANGED orphan
StartsUp == pc \in Starting /\ pc' \in Starting /\ UNCHANGED <<lock, boot, orphan>>
Enters   == /\ pc = "idle" \/ pc = "acquire"
            /\ lock = "free" /\ lock' = "web" /\ pc' = "settle" /\ UNCHANGED <<boot, orphan>>
TurnedAway == /\ pc = "settle" /\ lock' = "free" /\ UNCHANGED <<boot, orphan>>
              /\ pc' = IF boot THEN "resume" ELSE "idle"
Restarts == /\ pc \in {"bootlock", "resume", "settle"} /\ boot /\ pc' = "boot"
            /\ lock' = (IF pc = "settle" THEN "free" ELSE lock) /\ UNCHANGED <<boot, orphan>>
IsUp     == pc = "resume" /\ pc' = "idle" /\ boot' = FALSE /\ UNCHANGED <<lock, orphan>>
Elsewhere == /\ \/ lock = "free" /\ lock' = "other"
                \/ lock = "other" /\ lock' = "free"
             /\ UNCHANGED <<pc, boot, batch>> /\ orphan' \in {orphan, Stranger}

LEMMA Places1 ==
    /\ Holding \cup Starting \cup {"idle"} = Places
    /\ Starting \cap Holding = {} /\ "idle" \notin Holding \cup Starting
BY DEF Holding, Starting, Working, Places

LEMMA ControlSteps ==
    ASSUME [Next]_vars
    PROVE  \/ Stays \/ WorksOn \/ GivesUp \/ StartsUp \/ Enters \/ TurnedAway \/ Restarts \/ IsUp
           \/ Elsewhere \/ ChildExits \/ Crash
<1> USE DEF Holding, Starting, Working, Goto
<1>1. CASE CancelRecord \/ CancelSignal \/ UNCHANGED vars
  BY <1>1 DEF CancelRecord, CancelSignal, vars, control, Stays
<1>2. CASE Others
  BY <1>2
     DEF Others, ReplayedElsewhere, OtherTakes, OtherReconciles, OtherReleases, control,
         Stays, Elsewhere
<1>3. CASE Startup
  <2>1. CASE BootReplay \/ BootReconcile \/ Resume
    BY <2>1 DEF BootReplay, BootReconcile, Resume, StartsUp
  <2>2. CASE ResumeEnds
    BY <2>2 DEF ResumeEnds, IsUp
  <2>3. CASE Acquire
    BY <2>3 DEF Acquire, PassOver, Enters, StartsUp
  <2> QED BY <1>3, <2>1, <2>2, <2>3 DEF Startup
<1>4. CASE Request
  BY <1>4 DEF Request, Enters
<1>5. CASE Setup
  <2>1. CASE Settle
    BY <2>1 DEF Settle, WorksOn
  <2>2. CASE SettleRefused
    BY <2>2 DEF SettleRefused, PassOver, TurnedAway
  <2>3. CASE Reserve
    BY <2>3 DEF Reserve, WorksOn, GivesUp
  <2>4. CASE Create \/ Spawn
    BY <2>4 DEF Create, Spawn, WorksOn
  <2> QED BY <1>5, <2>1, <2>2, <2>3, <2>4 DEF Setup
<1>6. CASE Thread
  <2>1. CASE Load \/ NextItem \/ Start \/ Link \/ Claim
    BY <2>1 DEF Load, NextItem, Start, Link, Claim, GiveUp, WorksOn
  <2>2. CASE Drive \/ Close \/ ReadJob \/ NoOutcome \/ FinishItem
    BY <2>2 DEF Drive, Close, ReadJob, NoOutcome, FinishItem, WorksOn
  <2>3. CASE ThreadEnds \/ Pause
    BY <2>3 DEF ThreadEnds, Pause, GivesUp
  <2> QED BY <1>6, <2>1, <2>2, <2>3 DEF Thread
<1>7. CASE Faults
  <2>1. CASE StartFails \/ LinkFails \/ ClaimFails \/ CloseFails
    BY <2>1 DEF StartFails, LinkFails, ClaimFails, CloseFails, GiveUp, WorksOn
  <2>2. CASE ThreadRaises \/ SpawnFails \/ CreateFails \/ ReserveFails \/ SettleFails
    BY <2>2 DEF ThreadRaises, SpawnFails, CreateFails, ReserveFails, SettleFails, Abort, GivesUp
  <2>3. CASE BootReplayFails
    BY <2>3 DEF BootReplayFails, StartsUp
  <2>4. CASE StartupFails
    BY <2>4 DEF StartupFails, Restarts
  <2> QED BY <1>7, <2>1, <2>2, <2>3, <2>4 DEF Faults
<1> QED BY <1>1, <1>2, <1>3, <1>4, <1>5, <1>6, <1>7 DEF Next

LEMMA ScopeStep ==
    ASSUME TypeOK, ScopeOK, [Next]_vars
    PROVE  /\ ScopeOK'
           /\ lock' \in {"free", "web", "other"} /\ pc' \in Places
           /\ boot' \in BOOLEAN /\ orphan' \in LeftBy
<1>0. /\ lock \in {"free", "web", "other"} /\ pc \in Places /\ boot \in BOOLEAN
      /\ orphan \in LeftBy /\ batch \in Batches /\ {Nobody, Stranger} \cup Batches = LeftBy
  BY DEF TypeOK, LeftBy
<1> USE DEF ScopeOK, Holding, Starting, Working, Places
<1>1. CASE Stays \/ Elsewhere \/ StartsUp \/ Enters
  BY <1>0, <1>1 DEF Stays, Elsewhere, StartsUp, Enters
<1>2. CASE WorksOn
  <2>1. /\ lock' = "web" /\ pc' \in Holding /\ pc' # "settle"
        /\ batch' = batch /\ orphan' \in {Nobody, batch}
    BY <1>2 DEF WorksOn
  <2>2. CASE pc = "settle"
    <3>1. boot' = boot /\ (boot <=> pc' = "spawn")
      BY <1>2, <2>2 DEF WorksOn
    <3> QED BY <1>0, <2>1, <3>1
  <2>3. CASE pc = "spawn"
    <3>1. boot' = FALSE
      BY <1>2, <2>3 DEF WorksOn
    <3> QED BY <1>0, <2>1, <3>1
  <2>4. CASE pc \notin {"settle", "spawn"}
    <3>1. boot = FALSE /\ (boot' = boot \/ boot' = FALSE)
      BY <1>0, <1>2, <2>4 DEF WorksOn
    <3>2. boot' = FALSE
      BY <3>1
    <3> QED BY <1>0, <2>1, <3>2
  <2> QED BY <2>2, <2>3, <2>4
<1>3. CASE GivesUp \/ IsUp
  BY <1>0, <1>3 DEF GivesUp, Leave, IsUp
<1>4. CASE TurnedAway \/ Restarts
  BY <1>0, <1>4 DEF TurnedAway, Restarts
<1>5. CASE ChildExits
  BY <1>0, <1>5 DEF ChildExits, control
<1>6. CASE Crash
  BY <1>0, <1>6 DEF Crash
<1> QED BY <1>1, <1>2, <1>3, <1>4, <1>5, <1>6, ControlSteps

LEMMA SignalsType ==
    ASSUME TypeOK, [Next]_vars
    PROVE  /\ keep' \in BOOLEAN /\ event' \in BOOLEAN /\ marker' \in BOOLEAN
           /\ canceller' \in {"idle", "signal"}
           /\ crashes' \in 0 .. MaxCrashes /\ faults' \in 0 .. MaxFaults
<1> DEFINE Typed == /\ keep' \in BOOLEAN /\ event' \in BOOLEAN /\ marker' \in BOOLEAN
                    /\ canceller' \in {"idle", "signal"}
                    /\ crashes' \in 0 .. MaxCrashes /\ faults' \in 0 .. MaxFaults
<1>0. /\ TypeOK /\ keep \in BOOLEAN /\ event \in BOOLEAN /\ marker \in BOOLEAN
      /\ canceller \in {"idle", "signal"} /\ MaxCrashes \in Nat /\ MaxFaults \in Nat
      /\ crashes \in 0 .. MaxCrashes /\ faults \in 0 .. MaxFaults
      /\ \A b \in Batches : flag[b] \in BOOLEAN
  BY BatchNumbers DEF TypeOK
<1>f. ASSUME Fault PROVE UNCHANGED crashes /\ faults' \in 0 .. MaxFaults
  BY <1>0, <1>f DEF Fault
<1>1. CASE \/ ResumeEnds \/ Acquire \/ SettleRefused \/ Reserve \/ Create \/ Spawn \/ Thread
           \/ BootReplay \/ UNCHANGED vars
  <2>1. UNCHANGED <<keep, signals, bounds>>
    BY <1>1 DEF ResumeEnds, Acquire, SettleRefused, Reserve, Create, Spawn, Thread, BootReplay,
                Load, NextItem, ThreadEnds, Start, Link, Claim, Drive, Close, ReadJob, Pause,
                NoOutcome, FinishItem, vars, control
  <2> QED BY <1>0, <2>1 DEF signals, bounds
<1>2. CASE Request
  BY <1>0, <1>2 DEF Request, signals, bounds
<1>3. CASE Resume
  <2>1. Head(queue) \in Batches
    BY <1>3, HeadTailProperties DEF Resume, TypeOK
  <2>2. keep' = flag[Head(queue)] /\ UNCHANGED <<signals, bounds>>
    BY <1>3 DEF Resume
  <2> QED BY <1>0, <2>1, <2>2 DEF signals, bounds
<1>4. CASE BootReconcile \/ Settle
  <2>1. /\ UNCHANGED <<keep, canceller, bounds>>
        /\ marker' \in {marker, FALSE} /\ event' \in BOOLEAN
    BY <1>0, <1>4 DEF BootReconcile, Settle
  <2> QED BY <1>0, <2>1 DEF bounds
<1>5. CASE Faults
  <2>1. Fault /\ UNCHANGED <<keep, marker, canceller>> /\ (event' = event \/ event' = FALSE)
    BY <1>5 DEF Faults, BootReplayFails, SettleFails, StartupFails, ReserveFails, CreateFails,
                SpawnFails, StartFails, LinkFails, ClaimFails, CloseFails, ThreadRaises, signals
  <2> QED BY <1>0, <1>f, <2>1
<1>6. CASE CancelRecord \/ CancelSignal
  <2>1. /\ UNCHANGED <<keep, bounds>> /\ canceller' \in {"idle", "signal"}
        /\ event' = event \/ event' = TRUE
        /\ marker' = marker \/ marker' = TRUE
    BY <1>6 DEF CancelRecord, CancelSignal, control
  <2> QED BY <1>0, <2>1 DEF bounds
<1>7. CASE Others
  <2>1. /\ UNCHANGED <<keep, canceller, bounds>>
        /\ event' = event \/ event' = FALSE
        /\ marker' = marker \/ marker' = FALSE
    BY <1>7 DEF Others, ReplayedElsewhere, OtherTakes, OtherReconciles, OtherReleases,
                ChildExits, control, signals
  <2> QED BY <1>0, <2>1 DEF bounds
<1>8. CASE Crash
  <2>1. /\ keep' = FALSE /\ event' = FALSE /\ canceller' = "idle"
        /\ UNCHANGED <<marker, faults>>
    BY <1>8 DEF Crash
  <2>2. crashes' \in 0 .. MaxCrashes
    BY <1>0, <1>8 DEF Crash
  <2> QED BY <1>0, <2>1, <2>2
<1> HIDE DEF Typed
<1> QED
  BY <1>1, <1>2, <1>3, <1>4, <1>5, <1>6, <1>7, <1>8 DEF Next, Startup, Setup, Typed

LEMMA BatchTypeStep ==
    ASSUME BatchInvariant, [Next]_vars
    PROVE  TypeOK'
<1>0. TypeOK /\ ScopeOK
  BY DEF BatchInvariant
<1>1. /\ lock' \in {"free", "web", "other"} /\ pc' \in Places
      /\ boot' \in BOOLEAN /\ orphan' \in LeftBy
  BY <1>0, ScopeStep
<1> QED
  BY <1>0, <1>1, TablesType, ControlType, SignalsType
     DEF TypeOK, ItemTable, JobTable, IntentTable, ItemStates, JobStates, Intents

-----------------------------------------------------------------------------
(* The rows of a batch stay in agreement.                                   *)
LEMMA PosIsItem ==
    ASSUME ThreadOK
    PROVE  /\ pc \in {"start", "link", "claim", "drive", "close", "read", "pending", "finish"}
                 => pos \in Items
           /\ pc = "close" => outcome \in Results /\ drives[batch][pos] = 1
           /\ pc = "finish" => outcome \in Ended
BY DEF ThreadOK, Working

(* Only a reservation or the start of an item sets a job running.          *)
LEMMA JobsMoveStep ==
    ASSUME BatchInvariant, [Next]_vars
    PROVE  JobsMove \/ Reserve \/ ReserveFails \/ Start \/ StartFails
<1>0. /\ TypeOK /\ ThreadOK /\ batch \in Batches /\ 1 \in Items
      /\ job \in JobTable /\ intent \in IntentTable
  BY BatchFacts, BatchNumbers DEF BatchInvariant
<1>c. ASSUME NEW b \in Batches, NEW i \in Items, NEW s \in Results \ {"ok"},
             job' = Finished(job, b, i, s), UNCHANGED intent
      PROVE  JobsMove
  BY <1>0, <1>c, FinishMoves DEF Results
<1>1. CASE UNCHANGED tables
  BY <1>0, <1>1, JobsKept DEF tables
<1>2. CASE \/ Request \/ ResumeEnds \/ Acquire \/ SettleRefused \/ Create \/ Spawn \/ Load
           \/ NextItem \/ ThreadEnds \/ Claim \/ Drive \/ ReadJob \/ Pause \/ NoOutcome
           \/ BootReplayFails \/ SettleFails \/ StartupFails \/ CancelRecord \/ CancelSignal
           \/ OtherTakes \/ OtherReleases \/ ChildExits \/ Crash \/ UNCHANGED vars
           \/ Resume \/ LinkFails \/ FinishItem \/ ThreadRaises
  <2>1. UNCHANGED <<job, intent>>
    BY <1>2 DEF Request, ResumeEnds, Acquire, SettleRefused, Create, Spawn, Load, NextItem,
                ThreadEnds, Claim, Drive, ReadJob, Pause, NoOutcome, BootReplayFails,
                SettleFails, StartupFails, CancelRecord, CancelSignal, OtherTakes,
                OtherReleases, ChildExits, Crash, vars, tables, Resume, LinkFails, FinishItem,
                ThreadRaises
  <2> QED BY <1>0, <2>1, JobsKept
<1>3. CASE BootReplay \/ BootReconcile \/ Settle \/ OtherReconciles
  BY <1>0, <1>3, ReplayMoves, ReconcileMoves, JobsKept
     DEF BootReplay, BootReconcile, Settle, OtherReconciles
<1>4. CASE CreateFails \/ SpawnFails
  <2>1. UNCHANGED intent /\ (UNCHANGED job \/ job' = Finished(job, batch, 1, "error"))
    BY <1>4 DEF CreateFails, SpawnFails, Abort
  <2> QED BY <1>0, <1>c, <2>1, JobsKept DEF Results
<1>5. CASE Link \/ ClaimFails
  <2>1. pos \in Items
    BY <1>0, <1>5, PosIsItem DEF Link, ClaimFails
  <2>2. UNCHANGED intent /\ (UNCHANGED job \/ job' = Finished(job, batch, pos, "error"))
    BY <1>5 DEF Link, ClaimFails
  <2> QED BY <1>0, <1>c, <2>1, <2>2, JobsKept DEF Results
<1>6. CASE Close
  <2>1. pos \in Items /\ outcome \in Results /\ drives[batch][pos] = 1
    BY <1>0, <1>6, PosIsItem DEF Close
  <2>2. UNCHANGED intent /\ job' = Finished(job, batch, pos, outcome)
    BY <1>6 DEF Close
  <2> QED BY <1>0, <2>1, <2>2, FinishMoves
<1>7. CASE CloseFails
  <2>1. pos \in Items /\ outcome \in Results /\ drives[batch][pos] = 1
    BY <1>0, <1>7, PosIsItem DEF CloseFails
  <2>2. CASE UNCHANGED <<job, intent>>
    BY <1>0, <2>2, JobsKept
  <2>3. CASE intent' = [intent EXCEPT ![batch][pos] = outcome]
    <3>1. job' = Finished(job, batch, pos, outcome) \/ job' = job
      BY <1>7 DEF CloseFails
    <3>2. outcome \in Intents
      BY <2>1 DEF Intents
    <3>3. /\ intent' \in IntentTable
          /\ \A b \in Batches, i \in Items :
                b # batch \/ i # pos => intent'[b][i] = intent[b][i]
      BY <1>0, <2>1, <2>3, <3>2, Cell DEF IntentTable
    <3>4. /\ job' \in JobTable
          /\ job'[batch][pos] \in {job[batch][pos], outcome}
          /\ job[batch][pos] # "running" => job'[batch][pos] = job[batch][pos]
          /\ \A b \in Batches, i \in Items :
                b # batch \/ i # pos => job'[b][i] = job[b][i]
      BY <1>0, <2>1, <3>1, FinishedTable DEF Runs
    <3>5. ASSUME NEW b \in Batches, NEW i \in Items
          PROVE  /\ Runs(b, i)' => Runs(b, i)
                 /\ job'[b][i] = "ok" \/ intent'[b][i] # "none" =>
                       job[b][i] = "ok" \/ intent[b][i] # "none" \/ drives[b][i] = 1
                 /\ job[b][i] = "ok" => job'[b][i] = "ok"
      BY <2>1, <3>3, <3>4 DEF Runs, Results
    <3> QED BY <3>3, <3>4, <3>5 DEF JobsMove
  <2> QED BY <1>7, <2>2, <2>3 DEF CloseFails
<1>8. CASE \E b \in Batches, i \in Items : ReplayedElsewhere(b, i)
  <2>1. PICK b \in Batches, i \in Items : ReplayedElsewhere(b, i)
    BY <1>8
  <2>2. /\ intent[b][i] # "none" /\ job[b][i] \in {"running", intent[b][i]}
        /\ intent[b][i] \in JobStates /\ "none" \in Intents /\ intent[b][i] # "running"
    BY <1>0, <2>1, BatchFacts DEF ReplayedElsewhere, Applicable, Intents, JobStates, Results
  <2>3. /\ job' = [job EXCEPT ![b][i] = intent[b][i]]
        /\ intent' = [intent EXCEPT ![b][i] = "none"]
    BY <2>1 DEF ReplayedElsewhere
  <2>4. /\ job' \in JobTable /\ job'[b][i] = intent[b][i]
        /\ \A c \in Batches, k \in Items : c # b \/ k # i => job'[c][k] = job[c][k]
    BY <1>0, <2>2, <2>3, Cell DEF JobTable
  <2>5. /\ intent' \in IntentTable /\ intent'[b][i] = "none"
        /\ \A c \in Batches, k \in Items : c # b \/ k # i => intent'[c][k] = intent[c][k]
    BY <1>0, <2>2, <2>3, Cell DEF IntentTable
  <2> QED BY <2>2, <2>4, <2>5 DEF JobsMove, Runs
<1> QED
  BY <1>2, <1>3, <1>4, <1>5, <1>6, <1>7, <1>8
     DEF Next, Startup, Setup, Thread, Faults, Others

LEMMA RecordsKept ==
    ASSUME RecordsOK, UNCHANGED <<drives, late>>,
           \A b \in Batches : flag[b] => flag'[b],
           \A b \in Batches :
              \/ state'[b] = state[b] /\ item'[b] = item[b]
              \/ state'[b] = "refused"
              \/ /\ state'[b] \notin {"absent", "refused"}
                 /\ \A i \in Items : item'[b][i] # "none"
                 /\ state'[b] \in {"done", "cancelled"} => ~Unfinished(item'[b])
                 /\ state'[b] = "cancelled" => flag'[b],
           \A b \in Batches, i \in Items :
              \/ item'[b][i] = item[b][i]
                 /\ (job[b][i] = "ok" => job'[b][i] = "ok" \/ item[b][i] # "done")
              \/ /\ drives[b][i] # 0 => item'[b][i] \notin {"none", "queued"}
                 /\ item'[b][i] = "done" => job'[b][i] = "ok",
           \A b \in Batches, i \in Items :
              job'[b][i] = "ok" \/ intent'[b][i] # "none" =>
                 job[b][i] = "ok" \/ intent[b][i] # "none" \/ drives[b][i] = 1
    PROVE  RecordsOK'
<1>1. ASSUME NEW b \in Batches
      PROVE  /\ state'[b] = "absent" => \A i \in Items : item'[b][i] = "none"
             /\ state'[b] \notin {"absent", "refused"} => \A i \in Items : item'[b][i] # "none"
             /\ state'[b] \in {"done", "cancelled"} => ~Unfinished(item'[b])
             /\ state'[b] = "cancelled" => flag'[b]
  BY DEF RecordsOK
<1>2. ASSUME NEW b \in Batches
      PROVE  late'[b] <= 1 /\ (late'[b] # 0 => flag'[b])
  BY DEF RecordsOK
<1>3. ASSUME NEW b \in Batches, NEW i \in Items
      PROVE  /\ drives'[b][i] <= 1
             /\ drives'[b][i] # 0 => item'[b][i] \notin {"none", "queued"}
             /\ job'[b][i] = "ok" \/ intent'[b][i] # "none" => drives'[b][i] = 1
             /\ item'[b][i] = "done" => job'[b][i] = "ok"
  BY DEF RecordsOK
<1> QED BY <1>1, <1>2, <1>3 DEF RecordsOK, Unfinished

LEMMA RecordsUnderJobs ==
    ASSUME RecordsOK, JobsMove, UNCHANGED <<state, flag, item, drives, late>>
    PROVE  RecordsOK'
<1>1. \A b \in Batches, i \in Items :
         /\ job[b][i] = "ok" => job'[b][i] = "ok"
         /\ job'[b][i] = "ok" \/ intent'[b][i] # "none" =>
               job[b][i] = "ok" \/ intent[b][i] # "none" \/ drives[b][i] = 1
  BY DEF JobsMove
<1> QED BY <1>1, RecordsKept

(* A job is set running for an item that is not closed.                    *)
LEMMA RecordsAtStart ==
    ASSUME TypeOK, RecordsOK, NEW i \in Items, NEW s \in {"none", "running"},
           item[batch][i] # "done",
           job' = [job EXCEPT ![batch][i] = s],
           UNCHANGED <<item, intent, flag, drives, late>>,
           state' = state \/ state' = [state EXCEPT ![batch] = "refused"]
    PROVE  RecordsOK'
<1>1. /\ job \in [Batches -> [Items -> JobStates]] /\ batch \in Batches /\ s \in JobStates
      /\ state \in [Batches -> {"absent", "refused", "running", "done", "cancelled"}]
  BY BatchFacts DEF JobTable, JobStates
<1>2. /\ job'[batch][i] = s
      /\ \A c \in Batches, k \in Items : c # batch \/ k # i => job'[c][k] = job[c][k]
  BY <1>1, Cell
<1>3. ASSUME NEW b \in Batches, NEW k \in Items
      PROVE  /\ job[b][k] = "ok" => job'[b][k] = "ok" \/ item[b][k] # "done"
             /\ job'[b][k] = "ok" \/ intent'[b][k] # "none" =>
                   job[b][k] = "ok" \/ intent[b][k] # "none" \/ drives[b][k] = 1
  BY <1>2
<1>4. \A b \in Batches : state'[b] = state[b] \/ state'[b] = "refused"
  BY <1>1
<1> QED BY <1>3, <1>4, RecordsKept

LEMMA RecordsAtCreate ==
    ASSUME TypeOK, RecordsOK, JobsMove, Created, state[batch] = "absent",
           UNCHANGED <<flag, drives, late>>
    PROVE  RecordsOK'
<1>1. \A i \in Items : drives[batch][i] = 0
  BY BatchFacts DEF RecordsOK
<1>2. ASSUME NEW b \in Batches, NEW i \in Items
      PROVE  \/ item'[b][i] = item[b][i] /\ b # batch
             \/ drives[b][i] = 0 /\ item'[b][i] # "done"
  BY <1>1, CreatedItems
<1>3. ASSUME NEW b \in Batches
      PROVE  \/ state'[b] = state[b] /\ item'[b] = item[b]
             \/ state'[b] = "running" /\ \A i \in Items : item'[b][i] # "none"
  BY CreatedItems
<1> QED BY <1>2, <1>3, RecordsKept DEF JobsMove

LEMMA RecordsAtResume ==
    ASSUME TypeOK, RecordsOK, AtHandOK, Resume
    PROVE  RecordsOK'
<1> DEFINE b == Head(queue)
<1>1. /\ b \in Batches /\ state[b] \notin {"absent", "refused"}
      /\ item \in ItemTable
      /\ state \in [Batches -> {"absent", "refused", "running", "done", "cancelled"}]
  <2>1. queue \in Seq(Batches) /\ queue # <<>> /\ pc = "resume"
    BY DEF TypeOK, Resume
  <2> QED BY <2>1, TailIs, BatchFacts DEF AtHandOK
<1>2. /\ item' = [item EXCEPT ![b] = Recovered(b)]
      /\ UNCHANGED <<job, intent, flag, drives, late>>
      /\ \/ Unfinished(Recovered(b)) /\ UNCHANGED state
         \/ ~Unfinished(Recovered(b)) /\ state' = [state EXCEPT ![b] = "done"]
  BY DEF Resume, history
<1>3. /\ item'[b] = Recovered(b)
      /\ \A c \in Batches : c # b => item'[c] = item[c]
  BY <1>1, <1>2 DEF ItemTable
<1>4. /\ \A i \in Items : item[b][i] = "done" => job[b][i] = "ok"
      /\ state[b] \in {"done", "cancelled"} => ~Unfinished(item[b])
      /\ state[b] = "cancelled" => flag[b]
      /\ \A i \in Items : item[b][i] # "none"
  BY <1>1 DEF RecordsOK
<1> HIDE DEF b
<1>5. ASSUME NEW c \in Batches
      PROVE  \/ state'[c] = state[c] /\ item'[c] = item[c]
             \/ /\ state'[c] \notin {"absent", "refused"}
                /\ \A i \in Items : item'[c][i] # "none"
                /\ state'[c] \in {"done", "cancelled"} => ~Unfinished(item'[c])
                /\ state'[c] = "cancelled" => flag'[c]
  <2>1. CASE c # b
    BY <1>1, <1>2, <1>3, <2>1
  <2>2. CASE c = b
    <3>1. \A i \in Items : Recovered(b)[i] # "none"
      BY <1>1, <1>4, RecoveredItems
    <3>2. CASE UNCHANGED state /\ Unfinished(Recovered(b))
      <4>1. state[b] \notin {"done", "cancelled"}
        <5>1. ~Unfinished(item[b]) => ~Unfinished(Recovered(b))
          BY <1>1, RecoveredItems DEF Unfinished
        <5> QED BY <1>4, <3>2, <5>1
      <4> QED BY <1>1, <1>3, <2>2, <3>1, <3>2, <4>1
    <3>3. CASE ~Unfinished(Recovered(b)) /\ state' = [state EXCEPT ![b] = "done"]
      BY <1>1, <1>3, <2>2, <3>1, <3>3
    <3> QED BY <1>2, <3>2, <3>3
  <2> QED BY <2>1, <2>2
<1>6. ASSUME NEW c \in Batches, NEW i \in Items
      PROVE  \/ item'[c][i] = item[c][i]
             \/ /\ item'[c][i] \notin {"none", "queued"}
                /\ item'[c][i] = "done" => job'[c][i] = "ok"
  BY <1>1, <1>2, <1>3, RecoveredItems
<1>7. \A c \in Batches, i \in Items :
         /\ job'[c][i] = job[c][i] /\ intent'[c][i] = intent[c][i]
         /\ flag[c] => flag'[c]
  BY <1>2
<1>8. \A c \in Batches : flag[c] => flag'[c]
  BY <1>2
<1> QED BY <1>2, <1>5, <1>6, <1>7, <1>8, RecordsKept

LEMMA RecordsAtItemFinish ==
    ASSUME TypeOK, RecordsOK, pos \in Items, outcome \in Ended,
           state[batch] \notin {"absent", "refused"},
           outcome = "done" => job[batch][pos] = "ok",
           ItemFinish(batch, pos, outcome),
           UNCHANGED <<job, intent, flag, drives, late>>
    PROVE  RecordsOK'
<1>0. /\ batch \in Batches
      /\ \A i \in Items : item[batch][i] # "none"
      /\ state[batch] \in {"done", "cancelled"} => ~Unfinished(item[batch])
      /\ state[batch] = "cancelled" => flag[batch]
  BY BatchFacts DEF RecordsOK
<1>1. /\ item' \in ItemTable /\ item \in ItemTable
      /\ item'[batch][pos] = IF item[batch][pos] \in {"queued", "running"}
                             THEN outcome ELSE item[batch][pos]
      /\ \A c \in Batches, k \in Items : c # batch \/ k # pos => item'[c][k] = item[c][k]
      /\ \A c \in Batches : c # batch => state'[c] = state[c]
      /\ \/ state'[batch] = state[batch]
         \/ /\ state[batch] = "running" /\ ~Unfinished(item'[batch])
            /\ state'[batch] = IF flag[batch] THEN "cancelled" ELSE "done"
  BY <1>0, ItemFinished, BatchFacts
<1>2. \A c \in Batches : c # batch => item'[c] = item[c]
  BY <1>1 DEF ItemTable
<1>3. /\ \A i \in Items : item'[batch][i] # "none"
      /\ ~Unfinished(item[batch]) => ~Unfinished(item'[batch])
  BY <1>0, <1>1 DEF Unfinished, Ended
<1>4. ASSUME NEW c \in Batches
      PROVE  \/ state'[c] = state[c] /\ item'[c] = item[c]
             \/ /\ state'[c] \notin {"absent", "refused"}
                /\ \A i \in Items : item'[c][i] # "none"
                /\ state'[c] \in {"done", "cancelled"} => ~Unfinished(item'[c])
                /\ state'[c] = "cancelled" => flag'[c]
  BY <1>0, <1>1, <1>2, <1>3
<1>5. ASSUME NEW c \in Batches, NEW i \in Items
      PROVE  \/ item'[c][i] = item[c][i]
             \/ /\ item'[c][i] \notin {"none", "queued"}
                /\ item'[c][i] = "done" => job'[c][i] = "ok"
  BY <1>1 DEF Ended
<1>6. \A c \in Batches : flag[c] => flag'[c]
  OBVIOUS
<1>7. \A c \in Batches, i \in Items :
         job'[c][i] = job[c][i] /\ intent'[c][i] = intent[c][i]
  OBVIOUS
<1> QED BY <1>4, <1>5, <1>6, <1>7, RecordsKept

(* A drive begins: the item was never driven, and the cancel of its batch,  *)
(* if there is one, was recorded after the thread had looked.              *)
LEMMA RecordsAtClaim ==
    ASSUME TypeOK, RecordsOK, ThreadOK, Claim
    PROVE  RecordsOK'
<1>0. /\ pos \in Items /\ batch \in Batches
      /\ item[batch][pos] = "running" /\ late[batch] = 0
      /\ Runs(batch, pos) => drives[batch][pos] = 0
      /\ drives \in [Batches -> [Items -> Nat]] /\ late \in [Batches -> Nat]
      /\ UNCHANGED <<state, flag, item, job, intent>>
  BY BatchFacts DEF ThreadOK, Claim, Working, tables
<1>1. CASE Runs(batch, pos)
  <2>1. /\ drives' = [drives EXCEPT ![batch][pos] = drives[batch][pos] + 1]
        /\ late' = IF flag[batch] THEN [late EXCEPT ![batch] = late[batch] + 1] ELSE late
    BY <1>1 DEF Claim, Runs
  <2>2. drives[batch][pos] + 1 = 1 /\ late[batch] + 1 = 1
    BY <1>0, <1>1
  <2>3. drives' = [drives EXCEPT ![batch][pos] = 1]
    BY <2>1, <2>2
  <2>4. /\ drives'[batch][pos] = 1
        /\ \A c \in Batches, k \in Items :
              c # batch \/ k # pos => drives'[c][k] = drives[c][k]
    BY <1>0, <2>3, Cell
  <2>5. /\ \A c \in Batches : c # batch => late'[c] = late[c]
        /\ late'[batch] = (IF flag[batch] THEN 1 ELSE 0)
    BY <1>0, <2>1, <2>2
  <2>6. ASSUME NEW b \in Batches
        PROVE  late'[b] <= 1 /\ (late'[b] # 0 => flag'[b])
    BY <1>0, <2>5 DEF RecordsOK
  <2>7. ASSUME NEW b \in Batches, NEW i \in Items
        PROVE  /\ drives'[b][i] <= 1
               /\ drives'[b][i] # 0 => item'[b][i] \notin {"none", "queued"}
               /\ job'[b][i] = "ok" \/ intent'[b][i] # "none" => drives'[b][i] = 1
               /\ item'[b][i] = "done" => job'[b][i] = "ok"
    BY <1>0, <2>4 DEF RecordsOK
  <2>8. ASSUME NEW b \in Batches
        PROVE  /\ state'[b] = "absent" => \A i \in Items : item'[b][i] = "none"
               /\ state'[b] \notin {"absent", "refused"} => \A i \in Items : item'[b][i] # "none"
               /\ state'[b] \in {"done", "cancelled"} => ~Unfinished(item'[b])
               /\ state'[b] = "cancelled" => flag'[b]
    BY <1>0 DEF RecordsOK
  <2> QED BY <2>6, <2>7, <2>8 DEF RecordsOK, Unfinished
<1>2. CASE ~Runs(batch, pos)
  <2>1. UNCHANGED <<drives, late>>
    BY <1>2 DEF Claim, Runs
  <2> QED BY <1>0, <2>1 DEF RecordsOK, Unfinished
<1> QED BY <1>1, <1>2

LEMMA RecordsAtLink ==
    ASSUME TypeOK, RecordsOK, ThreadOK, AtHandOK, JobsMove, Link \/ LinkFails
    PROVE  RecordsOK'
<1>0. /\ pc = "link" /\ pos \in Items /\ batch \in Batches
      /\ item[batch][pos] = "queued" /\ item \in [Batches -> [Items -> ItemStates]]
      /\ state[batch] \notin {"absent", "refused"}
      /\ UNCHANGED <<state, flag, drives, late>>
  BY BatchFacts DEF ThreadOK, AtHandOK, Link, LinkFails, Working, history, ItemTable
<1>1. \/ UNCHANGED item
      \/ \E s \in {"queued", "running"} : item' = [item EXCEPT ![batch][pos] = s]
  BY <1>0 DEF Link, LinkFails
<1>2. CASE UNCHANGED item
  BY <1>0, <1>2, RecordsUnderJobs
<1>3. CASE \E s \in {"queued", "running"} : item' = [item EXCEPT ![batch][pos] = s]
  <2>1. PICK s \in {"queued", "running"} : item' = [item EXCEPT ![batch][pos] = s]
    BY <1>3
  <2>2. s \in ItemStates
    BY DEF ItemStates
  <2>3. /\ item' \in [Batches -> [Items -> ItemStates]] /\ item'[batch][pos] = s
        /\ \A c \in Batches, k \in Items :
              c # batch \/ k # pos => item'[c][k] = item[c][k]
    BY <1>0, <2>1, <2>2, Cell
  <2>4. \A c \in Batches : c # batch => item'[c] = item[c]
    BY <1>0, <2>1
  <2>5. /\ \A i \in Items : item[batch][i] # "none"
        /\ state[batch] \notin {"done", "cancelled"}
    BY <1>0 DEF RecordsOK, Unfinished
  <2>6. ASSUME NEW b \in Batches
        PROVE  \/ state'[b] = state[b] /\ item'[b] = item[b]
               \/ /\ state'[b] \notin {"absent", "refused"}
                  /\ \A i \in Items : item'[b][i] # "none"
                  /\ state'[b] \notin {"done", "cancelled"}
    BY <1>0, <2>3, <2>4, <2>5
  <2>7. /\ s = "queued" \/ drives[batch][pos] = 0 \/ s = "running"
        /\ s = "queued" => s = item[batch][pos]
    BY <1>0
  <2>8. ASSUME NEW b \in Batches, NEW i \in Items
        PROVE  \/ item'[b][i] = item[b][i]
                  /\ (job[b][i] = "ok" => job'[b][i] = "ok" \/ item[b][i] # "done")
               \/ /\ drives[b][i] # 0 => item'[b][i] \notin {"none", "queued"}
                  /\ item'[b][i] = "done" => job'[b][i] = "ok"
    BY <2>3, <2>7 DEF JobsMove
  <2>9. /\ \A b \in Batches : flag[b] => flag'[b]
        /\ \A b \in Batches, i \in Items :
              job'[b][i] = "ok" \/ intent'[b][i] # "none" =>
                 job[b][i] = "ok" \/ intent[b][i] # "none" \/ drives[b][i] = 1
    BY <1>0 DEF JobsMove
  <2> QED BY <1>0, <2>6, <2>8, <2>9, RecordsKept
<1> QED BY <1>1, <1>2, <1>3

LEMMA RecordsStep ==
    ASSUME BatchInvariant, [Next]_vars
    PROVE  RecordsOK'
<1>0. /\ TypeOK /\ RecordsOK /\ ThreadOK /\ AtHandOK /\ batch \in Batches /\ 1 \in Items
  BY BatchFacts, BatchNumbers DEF BatchInvariant
<1>1. CASE Reserve
  <2>1. item[batch][1] # "done"
    BY <1>0, <1>1 DEF Reserve, AtHandOK, RecordsOK
  <2>2. \/ UNCHANGED <<state, flag, item, drives, late, job, intent>>
        \/ /\ job' = [job EXCEPT ![batch][1] = "running"]
           /\ UNCHANGED <<state, flag, item, drives, late, intent>>
    BY <1>1 DEF Reserve, history
  <2> QED BY <1>0, <2>1, <2>2, RecordsAtStart, JobsKept, RecordsUnderJobs
<1>2. CASE ReserveFails
  <2>1. item[batch][1] # "done"
    BY <1>0, <1>2 DEF ReserveFails, AtHandOK, RecordsOK
  <2>2. PICK s \in {"none", "running"} : job' = [job EXCEPT ![batch][1] = s]
    BY <1>2 DEF ReserveFails
  <2>3. /\ UNCHANGED <<flag, item, drives, late, intent>>
        /\ state' = [state EXCEPT ![batch] = "refused"]
    BY <1>2 DEF ReserveFails
  <2> QED BY <1>0, <2>1, <2>2, <2>3, RecordsAtStart
<1>3. CASE Start \/ StartFails
  <2>1. pos \in Items /\ item[batch][pos] # "done"
    BY <1>0, <1>3 DEF Start, StartFails, ThreadOK, Working
  <2>2. /\ UNCHANGED <<state, flag, item, drives, late, intent>>
        /\ UNCHANGED job \/ job' = [job EXCEPT ![batch][pos] = "running"]
    BY <1>3 DEF Start, StartFails
  <2> QED BY <1>0, <2>1, <2>2, RecordsAtStart, JobsKept, RecordsUnderJobs
<1>m. CASE JobsMove
  <2>1. CASE \/ Request \/ ResumeEnds \/ Acquire \/ SettleRefused \/ Spawn \/ Load
             \/ NextItem \/ ThreadEnds \/ Drive \/ ReadJob \/ Pause \/ NoOutcome
             \/ BootReplayFails \/ SettleFails \/ StartupFails \/ CancelSignal
             \/ OtherTakes \/ OtherReleases \/ ChildExits \/ Crash \/ UNCHANGED vars
    <3>1. UNCHANGED <<state, flag, item, drives, late>>
      BY <2>1 DEF Request, ResumeEnds, Acquire, SettleRefused, Spawn, Load, NextItem,
                  ThreadEnds, Drive, ReadJob, Pause, NoOutcome, BootReplayFails, SettleFails,
                  StartupFails, CancelSignal, OtherTakes, OtherReleases, ChildExits, Crash,
                  vars, tables, history
    <3> QED BY <1>0, <1>m, <3>1, RecordsUnderJobs
  <2>2. CASE \/ BootReplay \/ BootReconcile \/ Settle \/ OtherReconciles \/ SpawnFails
             \/ ClaimFails \/ Close \/ CloseFails
             \/ \E b \in Batches, i \in Items : ReplayedElsewhere(b, i)
    <3>1. UNCHANGED <<state, flag, item, drives, late>>
      BY <2>2 DEF BootReplay, BootReconcile, Settle, OtherReconciles, SpawnFails, ClaimFails,
                  Close, CloseFails, ReplayedElsewhere, history
    <3> QED BY <1>0, <1>m, <3>1, RecordsUnderJobs
  <2>3. CASE Create \/ CreateFails
    <3>1. /\ state[batch] = "absent" /\ UNCHANGED <<flag, drives, late>>
          /\ Created \/ (state' = [state EXCEPT ![batch] = "refused"] /\ UNCHANGED item)
      BY <1>0, <2>3 DEF Create, CreateFails, AtHandOK, history
    <3>2. CASE Created
      BY <1>0, <1>m, <3>1, <3>2, RecordsAtCreate
    <3>3. CASE state' = [state EXCEPT ![batch] = "refused"] /\ UNCHANGED item
      <4>1. \A b \in Batches : \/ state'[b] = state[b] /\ item'[b] = item[b]
                               \/ state'[b] = "refused"
        BY <1>0, <3>3, BatchFacts
      <4> QED BY <1>0, <1>m, <3>1, <3>3, <4>1, RecordsKept DEF JobsMove
    <3> QED BY <3>1, <3>2, <3>3
  <2>4. CASE Resume
    BY <1>0, <2>4, RecordsAtResume
  <2>5. CASE Link \/ LinkFails
    BY <1>0, <1>m, <2>5, RecordsAtLink
  <2>6. CASE Claim
    BY <1>0, <2>6, RecordsAtClaim
  <2>7. CASE FinishItem \/ ThreadRaises
    <3>1. CASE pc = "finish" /\ ItemFinish(batch, pos, outcome)
      <4>1. /\ pos \in Items /\ outcome \in Ended /\ state[batch] \notin {"absent", "refused"}
            /\ outcome = "done" => job[batch][pos] = "ok"
            /\ UNCHANGED <<job, intent, flag, drives, late>>
        BY <1>0, <2>7, <3>1 DEF FinishItem, ThreadRaises, ThreadOK, AtHandOK, Working, history
      <4> QED BY <1>0, <3>1, <4>1, RecordsAtItemFinish
    <3>2. CASE UNCHANGED <<item, state>>
      <4>1. UNCHANGED <<flag, drives, late>>
        BY <2>7 DEF FinishItem, ThreadRaises, history
      <4> QED BY <1>0, <1>m, <3>2, <4>1, RecordsUnderJobs
    <3> QED BY <2>7, <3>1, <3>2 DEF FinishItem, ThreadRaises
  <2>8. CASE CancelRecord
    <3>1. /\ \A b \in Batches : flag[b] => flag'[b]
          /\ UNCHANGED <<state, item, drives, late>>
      BY <2>8 DEF CancelRecord, history
    <3>2. \A b \in Batches, i \in Items :
             /\ job[b][i] = "ok" => job'[b][i] = "ok"
             /\ job'[b][i] = "ok" \/ intent'[b][i] # "none" =>
                   job[b][i] = "ok" \/ intent[b][i] # "none" \/ drives[b][i] = 1
      BY <1>m DEF JobsMove
    <3> QED BY <1>0, <3>1, <3>2, RecordsKept
  <2> QED
    BY <1>1, <1>2, <1>3, <2>1, <2>2, <2>3, <2>4, <2>5, <2>6, <2>7, <2>8
       DEF Next, Startup, Setup, Thread, Faults, Others
<1> QED BY <1>1, <1>2, <1>3, <1>m, JobsMoveStep

-----------------------------------------------------------------------------
(* The batch at hand may be worked on.                                      *)
Stored(b) == state[b] \notin {"absent", "refused"}

LEMMA StoredStays ==
    ASSUME BatchInvariant, [Next]_vars, NEW b \in Batches, Stored(b)
    PROVE  Stored(b)'
<1>0. /\ TypeOK /\ AtHandOK /\ ThreadOK /\ batch \in Batches
      /\ state \in [Batches -> {"absent", "refused", "running", "done", "cancelled"}]
  BY BatchFacts DEF BatchInvariant
<1>1. CASE ReserveFails \/ Create \/ CreateFails
  <2>1. state[batch] = "absent" /\ b # batch
    BY <1>0, <1>1 DEF ReserveFails, Create, CreateFails, AtHandOK, Stored
  <2>2. \/ UNCHANGED state
        \/ \E s \in {"refused", "running"} : state' = [state EXCEPT ![batch] = s]
    BY <1>1 DEF ReserveFails, Create, CreateFails, Created
  <2> QED BY <1>0, <2>1, <2>2 DEF Stored
<1>2. CASE Resume
  <2>1. UNCHANGED state \/ state' = [state EXCEPT ![Head(queue)] = "done"]
    BY <1>2 DEF Resume
  <2> QED BY <1>0, <2>1 DEF Stored
<1>3. CASE FinishItem \/ ThreadRaises
  <2>1. UNCHANGED state \/ (pc = "finish" /\ ItemFinish(batch, pos, outcome))
    BY <1>3 DEF FinishItem, ThreadRaises
  <2>2. UNCHANGED state \/ \E s \in Ended : state' = [state EXCEPT ![batch] = s]
    BY <2>1 DEF ItemFinish, Ended
  <2> QED BY <1>0, <2>2 DEF Stored, Ended
<1>4. ~(ReserveFails \/ Create \/ CreateFails \/ Resume \/ FinishItem \/ ThreadRaises)
         => UNCHANGED state
  <2>1. CASE Request \/ Startup \/ Setup
    BY <2>1 DEF Request, Startup, Setup, BootReplay, BootReconcile, ResumeEnds, Acquire, Settle,
                SettleRefused, Reserve, Spawn, tables
  <2>2. CASE Thread
    BY <2>2 DEF Thread, Load, NextItem, ThreadEnds, Start, Link, Claim, Drive, Close, ReadJob,
                Pause, NoOutcome, tables
  <2>3. CASE Faults
    BY <2>3 DEF Faults, BootReplayFails, SettleFails, StartupFails, SpawnFails, StartFails,
                LinkFails, ClaimFails, CloseFails, tables
  <2>4. CASE CancelRecord \/ CancelSignal \/ Others \/ Crash \/ UNCHANGED vars
    BY <2>4 DEF CancelRecord, CancelSignal, Others, ReplayedElsewhere, OtherTakes,
                OtherReconciles, OtherReleases, ChildExits, Crash, tables, vars
  <2> QED BY <2>1, <2>2, <2>3, <2>4 DEF Next
<1> QED BY <1>1, <1>2, <1>3, <1>4 DEF Stored

(* Steps of others leave the batch at hand and what is known of it.        *)
Bystander ==
    \/ CancelRecord \/ CancelSignal \/ UNCHANGED vars \/ OtherTakes \/ OtherReconciles
    \/ OtherReleases \/ ChildExits \/ \E b \in Batches, i \in Items : ReplayedElsewhere(b, i)

LEMMA BystandersStandBy ==
    ASSUME Bystander
    PROVE  UNCHANGED <<pc, boot, batch, pos, seen, outcome, queue, keep, state, item, history>>
BY DEF Bystander, CancelRecord, CancelSignal, vars, OtherTakes, OtherReconciles, OtherReleases,
       ChildExits, ReplayedElsewhere, control, tables

LEMMA AtHandStep ==
    ASSUME BatchInvariant, [Next]_vars
    PROVE  AtHandOK'
<1>0. /\ TypeOK /\ ScopeOK /\ AtHandOK /\ batch \in Batches /\ queue \in Seq(Batches)
      /\ state \in [Batches -> {"absent", "refused", "running", "done", "cancelled"}]
  BY BatchFacts DEF BatchInvariant, TypeOK
<1>s. \A b \in Batches : Stored(b) => state'[b] \notin {"absent", "refused"}
  BY StoredStays DEF Stored
<1>q. \A k \in DOMAIN queue : queue[k] \in Batches
  BY <1>0, ElementOfSeq, LenProperties
<1>1. CASE Bystander
  BY <1>0, <1>1, BystandersStandBy DEF AtHandOK
<1>2. CASE pc' \in {"boot", "bootlock", "idle"}
  BY <1>2 DEF AtHandOK, Working
<1>3. CASE Request
  <2>1. pc' = "settle" /\ boot' = boot /\ ~boot /\ UNCHANGED state /\ state[batch'] = "absent"
    BY <1>0, <1>3 DEF Request, ScopeOK, Holding, tables, Goto
  <2> QED BY <2>1 DEF AtHandOK, Working
<1>4. CASE BootReconcile
  <2>1. PICK s \in [1 .. Cardinality(Pending) -> Pending] : queue' = s
    BY <1>4 DEF BootReconcile
  <2>2. pc' = "resume" /\ UNCHANGED state
    BY <1>4 DEF BootReconcile, Goto
  <2> QED BY <1>0, <2>1, <2>2, PendingQueue DEF AtHandOK, Working
<1>5. CASE Resume
  <2>1. /\ pc = "resume" /\ queue # <<>> /\ batch' = Head(queue)
        /\ \/ pc' = "acquire" /\ UNCHANGED queue
           \/ pc' = "resume" /\ queue' = Tail(queue)
    BY <1>5 DEF Resume, Goto
  <2>2. \A k \in DOMAIN queue : Stored(queue[k])
    BY <1>0, <2>1 DEF AtHandOK, Stored
  <2>3. \A k \in DOMAIN queue : state'[queue[k]] \notin {"absent", "refused"}
    BY <1>q, <1>s, <2>2
  <2>4. CASE pc' = "acquire" /\ UNCHANGED queue
    <3>1. state'[batch'] \notin {"absent", "refused"}
      BY <1>0, <2>1, <2>3, TailIs
    <3> QED BY <2>1, <2>3, <2>4, <3>1 DEF AtHandOK, Working
  <2>5. CASE pc' = "resume" /\ queue' = Tail(queue)
    <3>1. \A k \in DOMAIN queue' : state'[queue'[k]] \notin {"absent", "refused"}
      BY <1>0, <2>1, <2>3, <2>5, TailIs
    <3> QED BY <2>5, <3>1 DEF AtHandOK, Working
  <2> QED BY <2>1, <2>4, <2>5
<1>6. CASE Acquire \/ SettleRefused
  <2>1. /\ UNCHANGED <<state, batch, boot>>
        /\ \/ pc = "acquire" /\ pc' = "settle" /\ UNCHANGED queue
           \/ /\ pc = "acquire" \/ (pc = "settle" /\ boot)
              /\ pc' = "resume" /\ queue' = Tail(queue)
           \/ pc' = "idle"
    BY <1>6 DEF Acquire, SettleRefused, PassOver, Goto, tables
  <2>2. CASE pc = "acquire" /\ pc' = "settle" /\ UNCHANGED queue
    <3>1. boot
      BY <1>0, <2>2 DEF ScopeOK, Starting
    <3> QED BY <1>0, <2>1, <2>2, <3>1 DEF AtHandOK, Working
  <2>3. CASE /\ pc = "acquire" \/ (pc = "settle" /\ boot)
             /\ pc' = "resume" /\ queue' = Tail(queue)
    <3>1. queue # <<>> /\ \A k \in DOMAIN queue : Stored(queue[k])
      BY <1>0, <2>3 DEF AtHandOK, Stored
    <3>2. \A k \in DOMAIN queue' : state'[queue'[k]] \notin {"absent", "refused"}
      BY <1>0, <2>1, <2>3, <3>1, TailIs DEF Stored
    <3> QED BY <2>3, <3>2 DEF AtHandOK, Working
  <2> QED BY <1>2, <2>1, <2>2, <2>3
<1>7. CASE Settle
  <2>1. /\ pc = "settle" /\ UNCHANGED <<state, batch, boot>>
        /\ pc' = (IF boot THEN "spawn" ELSE "reserve")
    BY <1>7 DEF Settle, Goto
  <2> QED BY <1>0, <2>1 DEF AtHandOK, Working
<1>8. CASE Reserve
  <2>1. pc = "reserve" /\ UNCHANGED <<state, batch>> /\ pc' \in {"idle", "create"}
    BY <1>8 DEF Reserve, Leave, Goto
  <2> QED BY <1>0, <2>1 DEF AtHandOK, Working
<1>9. CASE Create
  <2>1. UNCHANGED batch /\ pc' = "spawn" /\ state'[batch] = "running"
    BY <1>0, <1>9, CreatedItems DEF Create, Goto
  <2> QED BY <2>1 DEF AtHandOK, Working
<1>10. CASE Spawn \/ Thread \/ StartFails \/ LinkFails \/ ClaimFails \/ CloseFails
  <2>1. UNCHANGED batch /\ pc \in Working /\ pc' \in Working \cup {"idle"}
    <3>1. CASE Spawn \/ StartFails \/ LinkFails \/ ClaimFails \/ CloseFails
      BY <3>1 DEF Spawn, StartFails, LinkFails, ClaimFails, CloseFails, GiveUp, Goto, Working
    <3>2. CASE Load \/ NextItem \/ ThreadEnds \/ Start \/ Link \/ Claim
      BY <3>2 DEF Load, NextItem, ThreadEnds, Start, Link, Claim, GiveUp, Goto, Leave, Working
    <3>3. CASE Drive \/ Close \/ ReadJob \/ Pause \/ NoOutcome \/ FinishItem
      BY <3>3 DEF Drive, Close, ReadJob, Pause, NoOutcome, FinishItem, Goto, Leave, Working
    <3> QED BY <1>10, <3>1, <3>2, <3>3 DEF Thread
  <2>2. Stored(batch)
    BY <1>0, <2>1 DEF AtHandOK, Stored
  <2>3. state'[batch'] \notin {"absent", "refused"}
    BY <1>0, <1>s, <2>1, <2>2
  <2> QED BY <2>1, <2>3 DEF AtHandOK, Working
<1>11. CASE \/ ResumeEnds \/ BootReplay \/ BootReplayFails \/ SettleFails \/ StartupFails
            \/ ReserveFails \/ CreateFails \/ SpawnFails \/ ThreadRaises \/ Crash
  <2>1. pc' \in {"boot", "bootlock", "idle"}
    BY <1>11 DEF ResumeEnds, BootReplay, BootReplayFails, SettleFails, StartupFails, ReserveFails,
                 CreateFails, SpawnFails, ThreadRaises, Crash, Abort, Leave, Goto
  <2> QED BY <1>2, <2>1
<1> QED
  BY <1>1, <1>3, <1>4, <1>5, <1>6, <1>7, <1>8, <1>9, <1>10, <1>11
     DEF Next, Startup, Setup, Faults, Others, Bystander

-----------------------------------------------------------------------------
(* What the thread knows stays true.                                        *)
LEMMA ThreadAtRest ==
    ASSUME pc' \in {"boot", "bootlock", "resume", "acquire", "settle", "idle"}
    PROVE  ThreadOK'
BY DEF ThreadOK, Working

LEMMA ThreadUnderOthers ==
    ASSUME ThreadOK, JobsMove,
           UNCHANGED <<pc, batch, pos, seen, outcome, item, drives, late>>,
           batch \in Batches, pc = "finish" => pos \in Items
    PROVE  ThreadOK'
<1>1. \A b \in Batches, i \in Items :
         /\ Runs(b, i)' => Runs(b, i)
         /\ job[b][i] = "ok" => job'[b][i] = "ok"
  BY DEF JobsMove
<1>3. /\ JobRunning' => JobRunning
      /\ OnlyFirst => OnlyFirst'
      /\ OnlyPassed => OnlyPassed'
      /\ OnlySoFar => OnlySoFar'
      /\ OnlyThis => OnlyThis'
  BY <1>1 DEF JobRunning, Runs, OnlyFirst, OnlyPassed, OnlySoFar, OnlyThis
<1>4. pc = "claim" => (Runs(batch, pos)' => Runs(batch, pos))
  BY <1>1 DEF ThreadOK, Working
<1>5. pc = "finish" /\ outcome = "done" => job'[batch][pos] = "ok"
  BY <1>1 DEF ThreadOK
<1> QED BY <1>3, <1>4, <1>5 DEF ThreadOK

(* The request and the start-up: at most the first job of the batch runs.  *)
LEMMA ThreadAtSetup ==
    ASSUME BatchInvariant, Settle \/ Reserve \/ Create \/ Spawn
    PROVE  ThreadOK'
<1>0. /\ TypeOK /\ ThreadOK /\ RecordsOK /\ AtHandOK /\ batch \in Batches /\ 1 \in Items
      /\ job \in [Batches -> [Items -> JobStates]]
  BY BatchFacts, BatchNumbers DEF BatchInvariant, JobTable
<1>1. CASE Settle
  <2>1. ~JobRunning' /\ pc' \in {"spawn", "reserve"}
    BY <1>0, <1>1, ReconcileMoves DEF Settle, Goto
  <2> QED BY <2>1 DEF ThreadOK, Working, OnlyFirst, JobRunning, Runs
<1>2. CASE Reserve
  <2>1. CASE JobRunning
    BY <1>2, <2>1, ThreadAtRest DEF Reserve, Leave
  <2>2. CASE ~JobRunning
    <3>1. /\ job' = [job EXCEPT ![batch][1] = "running"]
          /\ pc' = "create" /\ UNCHANGED <<batch, drives>> /\ state[batch] = "absent"
      BY <1>0, <1>2, <2>2 DEF Reserve, Goto, history, AtHandOK
    <3>2. drives[batch][1] = 0
      BY <1>0, <3>1, BatchFacts DEF RecordsOK
    <3>3. "running" \in JobStates
      BY DEF JobStates
    <3>4. \A c \in Batches, k \in Items : c # batch \/ k # 1 => job'[c][k] = job[c][k]
      BY <1>0, <3>1, <3>3, Cell
    <3>5. OnlyFirst'
      BY <2>2, <3>1, <3>2, <3>4 DEF OnlyFirst, JobRunning, Runs
    <3> QED BY <3>1, <3>5 DEF ThreadOK, Working
  <2> QED BY <2>1, <2>2
<1>3. CASE Create \/ Spawn
  <2>1. /\ UNCHANGED <<batch, job, drives>> /\ pc \in {"create", "spawn"}
        /\ pc' \in {"spawn", "load"}
    BY <1>3 DEF Create, Spawn, Goto, history, tables
  <2>2. OnlyFirst
    BY <1>0, <2>1 DEF ThreadOK
  <2>3. OnlyFirst'
    BY <2>1, <2>2 DEF OnlyFirst, Runs
  <2> QED BY <2>1, <2>3 DEF ThreadOK, Working
<1> QED BY <1>1, <1>2, <1>3

LEMMA ThreadAtItem ==
    ASSUME BatchInvariant, Load \/ NextItem
    PROVE  ThreadOK'
<1>0. /\ TypeOK /\ ThreadOK /\ RecordsOK /\ AtHandOK /\ batch \in Batches /\ 1 \in Items
      /\ Items \subseteq Nat /\ Items = 1 .. Last /\ pos \in Nat
      /\ item[batch] \in [Items -> ItemStates] /\ seen \in [Items -> ItemStates]
  BY BatchFacts, BatchNumbers DEF BatchInvariant, Items
<1>1. CASE Load
  <2>1. /\ seen' = item[batch] /\ pos' = 1 /\ pc = "load" /\ pc' = "item"
        /\ UNCHANGED <<batch, job, item, drives>>
    BY <1>1 DEF Load, Goto, history, tables
  <2>2. OnlyPassed'
    BY <1>0, <2>1 DEF ThreadOK, OnlyFirst, OnlyPassed, Runs
  <2> QED BY <1>0, <2>1, <2>2 DEF ThreadOK, Working
<1>2. CASE NextItem
  <2>1. /\ UNCHANGED <<batch, job, item, drives, late, seen>> /\ pc = "item" /\ pos \in Items
        /\ OnlyPassed
        /\ \A i \in Items : i < pos => item[batch][i] \in Ended
        /\ \A i \in Items : i >= pos => seen[i] = item[batch][i]
    BY <1>0, <1>2 DEF NextItem, history, tables, ThreadOK, Working
  <2>2. CASE seen[pos] \in Ended
    <3>1. pos' = pos + 1 /\ pc' = "item"
      BY <1>2, <2>1, <2>2 DEF NextItem
    <3>2. OnlyPassed'
      BY <1>0, <2>1, <3>1 DEF OnlyPassed, Runs
    <3>3. \A i \in Items : i < pos' => item'[batch'][i] \in Ended
      BY <1>0, <2>1, <2>2, <3>1
    <3>4. \A i \in Items : i >= pos' => seen'[i] = item'[batch'][i]
      BY <1>0, <2>1, <3>1
    <3>5. \A i \in Items : i > pos' => seen'[i] = item'[batch'][i]
      BY <1>0, <2>1, <3>1
    <3> QED BY <3>1, <3>2, <3>3, <3>4, <3>5 DEF ThreadOK, Working
  <2>3. CASE seen[pos] \notin Ended /\ (flag[batch] \/ Cancelled)
    <3>1. pos' = pos /\ pc' = "finish" /\ outcome' = "cancelled"
      BY <1>2, <2>3 DEF NextItem, Goto
    <3>2. OnlySoFar'
      BY <1>0, <2>1, <3>1 DEF OnlyPassed, OnlySoFar, Runs
    <3>3. \A i \in Items : i > pos => seen[i] = item[batch][i]
      BY <1>0, <2>1
    <3> QED BY <2>1, <3>1, <3>2, <3>3 DEF ThreadOK, Working, Ended
  <2>4. CASE seen[pos] \notin Ended /\ ~(flag[batch] \/ Cancelled)
    <3>1. /\ pos' = pos /\ UNCHANGED outcome
          /\ pc' = IF seen[pos] = "running" THEN "claim" ELSE "start"
      BY <1>2, <2>4 DEF NextItem, Goto
    <3>2. late[batch] = 0 /\ item[batch][pos] # "none" /\ seen[pos] = item[batch][pos]
          /\ item[batch][pos] \in ItemStates
      <4>1. late[batch] = 0
        BY <1>0, <2>4, BatchFacts DEF RecordsOK
      <4>2. item[batch][pos] # "none" /\ seen[pos] = item[batch][pos]
        BY <1>0, <2>1 DEF RecordsOK, AtHandOK, Working
      <4> QED BY <1>0, <2>1, <4>1, <4>2
    <3>3. \A i \in Items : i > pos => seen[i] = item[batch][i]
      BY <1>0, <2>1
    <3>4. CASE seen[pos] = "running"
      <4>1. Runs(batch, pos) => drives[batch][pos] = 0 /\ OnlyThis
        BY <1>0, <2>1 DEF OnlyPassed, OnlyThis
      <4>2. OnlySoFar
        BY <1>0, <2>1 DEF OnlyPassed, OnlySoFar
      <4>3. OnlySoFar' /\ (Runs(batch, pos)' => drives'[batch][pos] = 0 /\ OnlyThis')
        BY <2>1, <3>1, <4>1, <4>2 DEF OnlySoFar, OnlyThis, Runs
      <4> QED BY <2>1, <3>1, <3>2, <3>3, <3>4, <4>3 DEF ThreadOK, Working
    <3>5. CASE seen[pos] # "running"
      <4>1. item[batch][pos] = "queued"
        BY <2>4, <3>2, <3>5 DEF ItemStates
      <4>2. OnlySoFar'
        BY <1>0, <2>1, <3>1 DEF OnlyPassed, OnlySoFar, Runs
      <4> QED BY <2>1, <3>1, <3>2, <3>3, <3>5, <4>1, <4>2 DEF ThreadOK, Working
    <3> QED BY <3>4, <3>5
  <2> QED BY <2>2, <2>3, <2>4
<1> QED BY <1>1, <1>2

(* The thread starts the job of an item and links it.                      *)
LEMMA ThreadAtStart ==
    ASSUME BatchInvariant, Start \/ StartFails \/ Link \/ LinkFails
    PROVE  ThreadOK'
<1>0. /\ TypeOK /\ ThreadOK /\ RecordsOK /\ AtHandOK /\ batch \in Batches
      /\ Items \subseteq Nat /\ pos \in Nat
      /\ job \in [Batches -> [Items -> JobStates]]
      /\ item \in [Batches -> [Items -> ItemStates]]
      /\ "running" \in JobStates /\ "running" \in ItemStates /\ "queued" \in ItemStates
  BY BatchFacts, BatchNumbers
     DEF BatchInvariant, JobTable, ItemTable, JobStates, ItemStates
<1>1. /\ pc \in {"start", "link"} /\ pos \in Items
      /\ UNCHANGED <<batch, drives, late, seen>>
      /\ \A i \in Items : i < pos => item[batch][i] \in Ended
      /\ \A i \in Items : i > pos => seen[i] = item[batch][i]
      /\ \A i \in Items : i >= pos => seen[i] = item[batch][i]
      /\ item[batch][pos] = "queued" /\ late[batch] = 0 /\ drives[batch][pos] = 0
  BY <1>0, BatchFacts
     DEF Start, StartFails, Link, LinkFails, ThreadOK, Working, RecordsOK, history
<1>2. CASE Start \/ StartFails
  <2>1. UNCHANGED <<item, pos>> /\ pc = "start"
    BY <1>2 DEF Start, StartFails
  <2>2. CASE UNCHANGED job
    <3>1. pc' = "finish" /\ outcome' = "failed" /\ OnlySoFar
      <4>1. Start => JobRunning
        <5> SUFFICES ASSUME Start, ~JobRunning PROVE FALSE
          OBVIOUS
        <5>1. job' = [job EXCEPT ![batch][pos] = "running"]
          BY DEF Start
        <5>2. job'[batch][pos] = "running"
          BY <1>0, <1>1, <5>1, Cell
        <5> QED BY <1>0, <1>1, <2>2, <5>2 DEF JobRunning
      <4> QED BY <1>0, <1>2, <2>1, <4>1 DEF Start, StartFails, GiveUp, Goto, ThreadOK
    <3>2. OnlySoFar'
      BY <1>1, <2>1, <2>2, <3>1 DEF OnlySoFar, Runs
    <3> QED BY <1>1, <2>1, <3>1, <3>2 DEF ThreadOK, Working, Ended
  <2>3. CASE ~JobRunning /\ job' = [job EXCEPT ![batch][pos] = "running"]
    <3>1. \A c \in Batches, k \in Items : c # batch \/ k # pos => job'[c][k] = job[c][k]
      BY <1>0, <1>1, <2>3, Cell
    <3>2. OnlyThis' /\ OnlySoFar'
      BY <1>0, <1>1, <2>1, <2>3, <3>1 DEF OnlyThis, OnlySoFar, JobRunning, Runs
    <3>3. pc' = "link" \/ (pc' = "finish" /\ outcome' = "failed")
      BY <1>2 DEF Start, StartFails, GiveUp, Goto
    <3> QED BY <1>1, <2>1, <3>2, <3>3 DEF ThreadOK, Working, Ended
  <2> QED BY <1>2, <2>2, <2>3 DEF Start, StartFails
<1>3. CASE Link \/ LinkFails
  <2>1. /\ pc = "link" /\ UNCHANGED <<pos, job>>
        /\ \/ pc' = "claim" /\ item' = [item EXCEPT ![batch][pos] = "running"]
           \/ /\ pc' = "finish" /\ outcome' = "failed"
              /\ \E s \in {"queued", "running"} : item' = [item EXCEPT ![batch][pos] = s]
    BY <1>1, <1>3 DEF Link, LinkFails, GiveUp, Goto
  <2>2. PICK s \in {"queued", "running"} :
           /\ item' = [item EXCEPT ![batch][pos] = s]
           /\ pc' = "claim" => s = "running"
    BY <2>1
  <2>3. /\ item'[batch][pos] = s
        /\ \A c \in Batches, k \in Items : c # batch \/ k # pos => item'[c][k] = item[c][k]
    BY <1>0, <1>1, <2>2, Cell
  <2>4. OnlyThis
    BY <1>0, <2>1 DEF ThreadOK
  <2>5. OnlyThis' /\ OnlySoFar'
    <3>1. UNCHANGED <<batch, pos, job>>
      BY <1>1, <2>1
    <3>2. OnlySoFar
      BY <1>0, <2>4 DEF OnlyThis, OnlySoFar
    <3> QED BY <2>4, <3>1, <3>2 DEF OnlyThis, OnlySoFar, Runs
  <2>6. /\ \A i \in Items : i < pos => item'[batch][i] \in Ended
        /\ \A i \in Items : i > pos => seen[i] = item'[batch][i]
    <3>1. \A i \in Items : i < pos \/ i > pos => i # pos
      BY <1>0
    <3>2. \A i \in Items : i # pos => item'[batch][i] = item[batch][i]
      BY <1>0, <2>3
    <3> QED BY <1>1, <3>1, <3>2
  <2>7. /\ UNCHANGED <<batch, seen, pos, drives, late>> /\ late[batch] = 0
        /\ pc' \in {"claim", "finish"} /\ (pc' = "finish" => outcome' = "failed")
    BY <1>0, <1>1, <2>1 DEF ThreadOK
  <2>8. CASE pc' = "claim"
    <3>1. item'[batch'][pos'] = "running" /\ late'[batch'] = 0 /\ pos' \in Items
      BY <1>1, <2>2, <2>3, <2>7, <2>8
    <3>2. drives'[batch'][pos'] = 0
      BY <1>1, <2>7
    <3>3. /\ \A i \in Items : i < pos' => item'[batch'][i] \in Ended
          /\ \A i \in Items : i > pos' => seen'[i] = item'[batch'][i]
      BY <2>6, <2>7
    <3> HIDE DEF OnlyThis, OnlySoFar
    <3> QED BY <2>5, <2>8, <3>1, <3>2, <3>3 DEF ThreadOK, Working
  <2>9. CASE pc' = "finish"
    BY <1>1, <2>5, <2>6, <2>7, <2>9 DEF ThreadOK, Working, Ended
  <2> QED BY <2>7, <2>8, <2>9
<1> QED BY <1>2, <1>3

(* The thread drives the item, reads its job back and closes the item.     *)
LEMMA ThreadAtDrive ==
    ASSUME BatchInvariant, JobsMove,
           \/ Claim \/ ClaimFails \/ Drive \/ Close \/ CloseFails \/ ReadJob \/ NoOutcome
    PROVE  ThreadOK'
<1>0. /\ TypeOK /\ ThreadOK /\ batch \in Batches
      /\ Items \subseteq Nat /\ pos \in Nat
      /\ drives \in [Batches -> [Items -> Nat]]
  BY BatchFacts, BatchNumbers DEF BatchInvariant
<1>1. /\ pc \in {"claim", "drive", "close", "read", "pending"} /\ pos \in Items
      /\ UNCHANGED <<batch, item, seen, pos>>
      /\ \A i \in Items : i < pos => item[batch][i] \in Ended
      /\ \A i \in Items : i > pos => seen[i] = item[batch][i]
  BY <1>0
     DEF Claim, ClaimFails, Drive, Close, CloseFails, ReadJob, NoOutcome, ThreadOK, Working,
         tables
<1>2. \A b \in Batches, i \in Items : Runs(b, i)' => Runs(b, i)
  BY DEF JobsMove
<1>3. OnlySoFar'
  <2>1. OnlySoFar
    BY <1>0, <1>1 DEF ThreadOK, OnlySoFar, OnlyThis
  <2> QED BY <1>1, <1>2, <2>1 DEF OnlySoFar, Runs
<1>4. CASE pc' \in {"read", "pending"}
  BY <1>1, <1>3, <1>4 DEF ThreadOK, Working
<1>5. CASE Claim /\ Runs(batch, pos)
  <2>1. /\ drives' = [drives EXCEPT ![batch][pos] = drives[batch][pos] + 1]
        /\ pc = "claim" /\ pc' = "drive" /\ UNCHANGED job
    BY <1>5 DEF Claim, Runs, Goto, tables
  <2>2. drives[batch][pos] + 1 = 1 /\ OnlyThis
    BY <1>0, <1>5, <2>1 DEF ThreadOK
  <2>3. drives'[batch][pos] = 1
    BY <1>0, <1>1, <2>1, <2>2, Cell
  <2>4. OnlyThis'
    BY <1>1, <2>1, <2>2 DEF OnlyThis, Runs
  <2> QED BY <1>1, <2>1, <2>3, <2>4 DEF ThreadOK, Working
<1>6. CASE Drive
  <2>1. /\ pc = "drive" /\ pc' = "close" /\ outcome' \in Results /\ UNCHANGED <<drives, job>>
    BY <1>6 DEF Drive, Goto, Results, history, tables
  <2>2. OnlyThis' /\ drives[batch][pos] = 1
    BY <1>0, <1>1, <2>1 DEF OnlyThis, Runs, ThreadOK
  <2> QED BY <1>1, <2>1, <2>2 DEF ThreadOK, Working
<1>7. CASE (ReadJob \/ NoOutcome) /\ pc' = "finish"
  <2>1. outcome' \in Ended /\ UNCHANGED job /\ (outcome' = "done" => job[batch][pos] = "ok")
    <3>1. CASE NoOutcome
      BY <3>1 DEF NoOutcome, Ended, tables
    <3>2. CASE ReadJob
      <4>1. /\ UNCHANGED job
            /\ outcome' = CASE job[batch][pos] = "ok" -> "done"
                            [] job[batch][pos] = "cancelled" -> "cancelled"
                            [] OTHER -> "failed"
        BY <1>7, <3>2 DEF ReadJob, Goto, tables
      <4> QED BY <4>1 DEF Ended
    <3> QED BY <1>7, <3>1, <3>2
  <2> QED BY <1>1, <1>3, <1>7, <2>1 DEF ThreadOK, Working
<1>8. \/ pc' \in {"read", "pending"} \/ (Claim /\ Runs(batch, pos)) \/ Drive
      \/ (ReadJob \/ NoOutcome) /\ pc' = "finish"
  BY DEF Claim, ClaimFails, Close, CloseFails, ReadJob, NoOutcome, Goto, Runs
<1> QED BY <1>4, <1>5, <1>6, <1>7, <1>8

LEMMA ThreadAtFinish ==
    ASSUME BatchInvariant, FinishItem
    PROVE  ThreadOK'
<1>0. /\ TypeOK /\ ThreadOK /\ RecordsOK /\ AtHandOK /\ batch \in Batches
      /\ Items \subseteq Nat /\ pos \in Nat
      /\ pc = "finish" /\ pos \in Items /\ outcome \in Ended /\ Stored(batch)
      /\ item[batch][pos] \in ItemStates
  BY BatchFacts, BatchNumbers
     DEF BatchInvariant, FinishItem, ThreadOK, AtHandOK, Stored, Working
<1>1. /\ UNCHANGED <<batch, job, drives, late, seen>> /\ pos' = pos + 1 /\ pc' = "item"
      /\ ItemFinish(batch, pos, outcome)
  BY DEF FinishItem, Goto, history
<1>2. /\ item'[batch][pos] = IF item[batch][pos] \in {"queued", "running"}
                             THEN outcome ELSE item[batch][pos]
      /\ \A c \in Batches, k \in Items : c # batch \/ k # pos => item'[c][k] = item[c][k]
  BY <1>0, <1>1, ItemFinished
<1>3. item[batch][pos] # "none"
  BY <1>0 DEF RecordsOK, Stored
<1>4. item'[batch][pos] \in Ended
  BY <1>0, <1>2, <1>3 DEF ItemStates, Ended
<1>a. /\ \A i \in Items : i < pos => item[batch][i] \in Ended
      /\ \A i \in Items : i > pos => seen[i] = item[batch][i]
      /\ OnlySoFar
  BY <1>0 DEF ThreadOK, Working
<1>b. \A i \in Items : i \in Nat /\ (i < pos + 1 <=> i < pos \/ i = pos) /\ (i > pos => i # pos)
                       /\ (i >= pos + 1 => i > pos) /\ (i <= pos => i < pos + 1)
  <2>1. ASSUME NEW i \in Nat, NEW p \in Nat
        PROVE  /\ (i < p + 1 <=> i < p \/ i = p) /\ (i > p => i # p)
               /\ (i >= p + 1 => i > p) /\ (i <= p => i < p + 1)
    OBVIOUS
  <2>2. pos \in Nat /\ \A i \in Items : i \in Nat
    BY <1>0
  <2> QED BY <2>1, <2>2
<1>5. \A i \in Items : i < pos' => item'[batch'][i] \in Ended
  BY <1>0, <1>1, <1>2, <1>4, <1>a, <1>b
<1>6. \A i \in Items : i >= pos' => seen'[i] = item'[batch'][i]
  BY <1>0, <1>1, <1>2, <1>a, <1>b
<1>7. \A i \in Items : i > pos' => seen'[i] = item'[batch'][i]
  <2>1. \A i \in Items : i > pos' => i >= pos'
    BY <1>0, <1>1
  <2> QED BY <1>6, <2>1
<1>8. OnlyPassed'
  BY <1>1, <1>a, <1>b DEF OnlySoFar, OnlyPassed, Runs
<1> QED BY <1>1, <1>5, <1>6, <1>7, <1>8 DEF ThreadOK, Working

LEMMA ThreadStep ==
    ASSUME BatchInvariant, [Next]_vars
    PROVE  ThreadOK'
<1>0. /\ TypeOK /\ ThreadOK /\ batch \in Batches /\ (pc = "finish" => pos \in Items)
  BY BatchFacts DEF BatchInvariant, ThreadOK, Working
<1>1. CASE Settle \/ Reserve \/ Create \/ Spawn
  BY <1>1, ThreadAtSetup
<1>2. CASE Load \/ NextItem
  BY <1>2, ThreadAtItem
<1>3. CASE Start \/ StartFails \/ Link \/ LinkFails
  BY <1>3, ThreadAtStart
<1>4. CASE Claim \/ ClaimFails \/ Drive \/ Close \/ CloseFails \/ ReadJob \/ NoOutcome
  <2>1. ~(Reserve \/ ReserveFails \/ Start \/ StartFails)
    BY <1>4 DEF Claim, ClaimFails, Drive, Close, CloseFails, ReadJob, NoOutcome, Reserve,
                ReserveFails, Start, StartFails
  <2> QED BY <1>4, <2>1, JobsMoveStep, ThreadAtDrive
<1>5. CASE FinishItem
  BY <1>5, ThreadAtFinish
<1>6. CASE \/ BootReplay \/ BootReplayFails \/ BootReconcile \/ Resume \/ ResumeEnds \/ Acquire
           \/ Request \/ SettleRefused \/ SettleFails \/ StartupFails \/ ReserveFails
           \/ CreateFails \/ SpawnFails \/ ThreadRaises \/ ThreadEnds \/ Pause \/ Crash
  <2>1. pc' \in {"boot", "bootlock", "resume", "acquire", "settle", "idle"}
    BY <1>6 DEF BootReplay, BootReplayFails, BootReconcile, Resume, ResumeEnds, Acquire, Request,
                SettleRefused, SettleFails, StartupFails, ReserveFails, CreateFails, SpawnFails,
                ThreadRaises, ThreadEnds, Pause, Crash, Abort, Leave, Goto, PassOver
  <2> QED BY <2>1, ThreadAtRest
<1>7. CASE Bystander
  <2>1. UNCHANGED <<pc, batch, pos, seen, outcome, item, drives, late, state>>
    BY <1>7, BystandersStandBy DEF history
  <2>2. CASE JobsMove
    BY <1>0, <2>1, <2>2, ThreadUnderOthers
  <2>3. CASE Reserve \/ ReserveFails \/ Start \/ StartFails
    BY <2>1, <2>3 DEF Reserve, ReserveFails, Start, StartFails, Leave, GiveUp, Goto
  <2> QED BY <2>2, <2>3, JobsMoveStep
<1> QED
  BY <1>1, <1>2, <1>3, <1>4, <1>5, <1>6, <1>7
     DEF Next, Startup, Setup, Thread, Faults, Others, Bystander

-----------------------------------------------------------------------------
(* The invariant holds, and with it what the runs check.                    *)
LEMMA BatchInitOK == Init => BatchInvariant
<1> SUFFICES ASSUME Init PROVE BatchInvariant
  OBVIOUS
<1> USE DEF Init
<1>0. /\ 1 \in Batches /\ 1 \in 1 .. (Last + 1) /\ <<>> \in Seq(Batches)
      /\ 0 \in 0 .. MaxCrashes /\ 0 \in 0 .. MaxFaults /\ Nobody \in LeftBy
  BY BatchNumbers DEF LeftBy
<1>1. TypeOK
  <2>1. /\ [i \in Items |-> "none"] \in [Items -> Ended \cup {"none", "queued", "running"}]
        /\ [i \in Items |-> "none"] \in [Items -> Results \cup {"none", "running", "stale"}]
        /\ [i \in Items |-> "none"] \in [Items -> Results \cup {"none"}]
        /\ [i \in Items |-> 0] \in [Items -> Nat]
    OBVIOUS
  <2>2. /\ item \in [Batches -> [Items -> Ended \cup {"none", "queued", "running"}]]
        /\ job \in [Batches -> [Items -> Results \cup {"none", "running", "stale"}]]
        /\ intent \in [Batches -> [Items -> Results \cup {"none"}]]
        /\ drives \in [Batches -> [Items -> Nat]]
    BY <2>1
  <2>3. /\ state \in [Batches -> {"absent", "refused", "running", "done", "cancelled"}]
        /\ flag \in [Batches -> BOOLEAN] /\ late \in [Batches -> Nat]
    OBVIOUS
  <2> QED BY <1>0, <2>1, <2>2, <2>3 DEF TypeOK, Places
<1>2. ScopeOK
  BY DEF ScopeOK, Holding, Starting, Working
<1>3. RecordsOK
  BY DEF RecordsOK
<1>4. AtHandOK
  BY DEF AtHandOK, Working
<1>5. ThreadOK
  BY DEF ThreadOK, Working
<1> QED BY <1>1, <1>2, <1>3, <1>4, <1>5 DEF BatchInvariant

LEMMA BatchStep == BatchInvariant /\ [Next]_vars => BatchInvariant'
<1> SUFFICES ASSUME BatchInvariant, [Next]_vars PROVE BatchInvariant'
  OBVIOUS
<1>1. ScopeOK'
  BY ScopeStep DEF BatchInvariant
<1> QED BY <1>1, BatchTypeStep, RecordsStep, AtHandStep, ThreadStep DEF BatchInvariant

(* Every variable of the batch keeps its type: the tables of db.py and the  *)
(* registers of the thread (job_batches, job_batch_items, jobs,             *)
(* job_terminal_intents).                                                   *)
THEOREM BatchTypesHold == Spec => []TypeOK
<1>1. BatchInvariant => TypeOK
  BY DEF BatchInvariant
<1> QED BY <1>1, BatchInitOK, BatchStep, PTL DEF Spec

(* A definition is driven at most once, whatever is killed, fails or is     *)
(* resumed (job_batch_recover, job_batch_item_start, _run_backup_thread).   *)
THEOREM ItemsAreDrivenOnce == Spec => []ItemOnce
<1>1. BatchInvariant => ItemOnce
  BY DEF BatchInvariant, RecordsOK, ItemOnce
<1> QED BY <1>1, BatchInitOK, BatchStep, PTL DEF Spec

(* After the cancel of a batch is recorded at most one more definition      *)
(* begins (job_batch_request_cancel, _run_definition_batch_thread).         *)
THEOREM CancelsStopTheBatch == Spec => []CancelStops
<1>1. BatchInvariant => CancelStops
  BY DEF BatchInvariant, RecordsOK, CancelStops
<1> QED BY <1>1, BatchInitOK, BatchStep, PTL DEF Spec

(* A batch never reports more than happened (job_batch_item_finish,         *)
(* job_batch_recover).                                                      *)
THEOREM ItemsAreTruthful == Spec => []ItemsTellTheTruth
<1>1. BatchInvariant => ItemsTellTheTruth
  BY DEF BatchInvariant, RecordsOK, ItemsTellTheTruth
<1> QED BY <1>1, BatchInitOK, BatchStep, PTL DEF Spec

(* Definitions run one after the other, under the scope of the web process, *)
(* beside no living child but one of an earlier definition of the batch     *)
(* (_run_definition_batch_thread, _acquire_definition_batch_scope).         *)
THEOREM DrivesAreAlone == Spec => []DrivesAlone
<1>1. BatchInvariant => DrivesAlone
  <2> SUFFICES ASSUME BatchInvariant, pc = "drive"
               PROVE  /\ lock = "web" /\ orphan \in {Nobody, batch}
                      /\ \A b \in Batches, i \in Items :
                            job[b][i] = "running" => b = batch /\ i = pos
                      /\ \A i \in 1 .. (pos - 1) : item[batch][i] \in Ended
    BY DEF DrivesAlone
  <2>1. lock = "web" /\ orphan \in {Nobody, batch}
    BY DEF BatchInvariant, ScopeOK, Holding, Working
  <2>2. \A b \in Batches, i \in Items : job[b][i] = "running" => b = batch /\ i = pos
    BY DEF BatchInvariant, ThreadOK, OnlyThis, Runs
  <2>3. pos \in Items /\ \A i \in Items : i < pos => item[batch][i] \in Ended
    BY DEF BatchInvariant, ThreadOK, Working
  <2>4. \A i \in 1 .. (pos - 1) : i \in Items /\ i < pos
    BY <2>3, BatchNumbers DEF Items
  <2> QED BY <2>1, <2>2, <2>3, <2>4
<1> QED BY <1>1, BatchInitOK, BatchStep, PTL DEF Spec

-----------------------------------------------------------------------------
(* The ledger.  Items are begun in their order, so one of a batch at most   *)
(* is under way; a batch that is not over has an item that is not closed;  *)
FrontOK ==
    /\ \A b \in Batches, i, k \in Items :
          k < i /\ item[b][i] \notin {"none", "queued"} => item[b][k] \in Ended
    /\ \A b \in Batches : state[b] = "running" => Unfinished(item[b])

(* what the start-up has still to look at is not over, and is there once.   *)
QueueOK ==
    pc \in {"resume", "acquire"} \/ (pc = "settle" /\ boot) =>
        /\ \A k \in DOMAIN queue : state[queue[k]] = "running"
        /\ OldestFirst(queue)

LEMMA ToldMoves ==
    ASSUME TypeOK, NEW b \in Batches, NEW s \in {"running", "done", "cancelled"},
           state' = [state EXCEPT ![b] = s]
    PROVE  Told' = [Told EXCEPT ![b] = s]
BY BatchFacts DEF Told

(* Steps the ledger does not see, and those that only close jobs.           *)
LEMMA LedgerStands ==
    ASSUME UNCHANGED <<Told, flag, item, drives, late, EndedOk>>
    PROVE  UNCHANGED Ledger!vars
BY DEF Ledger!vars

LEMMA LedgerSucceeds ==
    ASSUME TypeOK, RecordsOK, JobsMove, UNCHANGED <<state, flag, item, drives, late>>
    PROVE  Ledger!Succeed
<1>1. EndedOk' \in [Batches -> [Items -> BOOLEAN]]
  BY DEF EndedOk
<1>2. ASSUME NEW b \in Batches, NEW i \in Items
      PROVE  /\ EndedOk[b][i] => EndedOk'[b][i]
             /\ EndedOk'[b][i] => EndedOk[b][i] \/ drives[b][i] = 1
  BY DEF JobsMove, RecordsOK, EndedOk
<1>3. UNCHANGED <<Told, flag, item, drives, late>>
  BY DEF Told
<1> QED BY <1>1, <1>2, <1>3 DEF Ledger!Succeed

(* A job starts that has not ended ok before.                              *)
LEMMA StartIsNoSuccess ==
    ASSUME TypeOK, RecordsOK, NEW b \in Batches, NEW i \in Items, NEW s \in {"none", "running"},
           item[b][i] \in {"none", "queued"}, job' = [job EXCEPT ![b][i] = s]
    PROVE  UNCHANGED EndedOk
<1>1. job[b][i] # "ok"
  BY DEF RecordsOK
<1>2. /\ job \in [Batches -> [Items -> JobStates]] /\ s \in JobStates
  BY BatchFacts DEF JobTable, JobStates
<1>3. /\ job'[b][i] = s
      /\ \A c \in Batches, k \in Items : c # b \/ k # i => job'[c][k] = job[c][k]
  BY <1>2, Cell
<1>4. \A c \in Batches, k \in Items : job'[c][k] = "ok" <=> job[c][k] = "ok"
  BY <1>1, <1>3
<1> QED BY <1>4 DEF EndedOk

LEMMA ErrorIsNoSuccess ==
    ASSUME TypeOK, NEW b \in Batches, NEW i \in Items,
           job' \in {Finished(job, b, i, "error"), job}
    PROVE  UNCHANGED EndedOk
<1>1. \A c \in Batches, k \in Items : job'[c][k] = "ok" <=> job[c][k] = "ok"
  <2>1. CASE job' = Finished(job, b, i, "error")
    BY <2>1, FinishedTable DEF Results, Runs
  <2> QED BY <2>1
<1> QED BY <1>1 DEF EndedOk

(* A batch is stored.                                                       *)
LEMMA LedgerStores ==
    ASSUME TypeOK, batch \in Batches, state[batch] = "absent", Created,
           UNCHANGED <<flag, drives, late, EndedOk>>
    PROVE  Ledger!Store(batch)
<1>1. Told' = [Told EXCEPT ![batch] = "running"]
  BY ToldMoves DEF Created
<1> QED BY <1>1 DEF Ledger!Store, Created, Told

(* An item is closed, or is so already.                                     *)
LEMMA LedgerCloses ==
    ASSUME TypeOK, FrontOK, NEW b \in Batches, NEW i \in Items, NEW s \in Ended,
           Stored(b), item[b][i] \notin {"none"}, s = "done" => job[b][i] = "ok",
           \A k \in Items : k < i => item[b][k] \in Ended,
           state[b] \in {"done", "cancelled"} => ~Unfinished(item[b]),
           ItemFinish(b, i, s), UNCHANGED <<flag, drives, late, job>>
    PROVE  Ledger!Close(b, i) \/ UNCHANGED Ledger!vars
<1>1. /\ item \in [Batches -> [Items -> ItemStates]]
      /\ state \in [Batches -> {"absent", "refused", "running", "done", "cancelled"}]
      /\ item[b][i] \in ItemStates
  BY BatchFacts DEF ItemTable
<1>2. UNCHANGED EndedOk
  BY DEF EndedOk
<1>3. CASE item[b][i] \in {"queued", "running"}
  <2>1. item' = [item EXCEPT ![b][i] = s]
    BY <1>3 DEF ItemFinish
  <2>2. state[b] = "running" /\ Told[b] = "running"
    BY <1>1, <1>3 DEF Unfinished, Stored, Told
  <2>3. CASE Unfinished(item'[b])
    <3>1. UNCHANGED Told
      BY <2>3 DEF ItemFinish, Told
    <3> QED BY <1>2, <1>3, <2>1, <2>2, <2>3, <3>1
            DEF Ledger!Close, Ledger!Turn, Ledger!Open, Unfinished, EndedOk
  <2>4. CASE ~Unfinished(item'[b])
    <3>1. state' = [state EXCEPT ![b] = IF flag[b] THEN "cancelled" ELSE "done"]
      BY <2>2, <2>4 DEF ItemFinish
    <3>2. Told' = [Told EXCEPT ![b] = IF flag[b] THEN "cancelled" ELSE "done"]
      BY <3>1, ToldMoves
    <3> QED BY <1>2, <1>3, <2>1, <2>2, <2>4, <3>2
            DEF Ledger!Close, Ledger!Turn, Ledger!Open, Unfinished, EndedOk
  <2> QED BY <2>3, <2>4
<1>4. CASE item[b][i] \notin {"queued", "running"}
  <2>1. UNCHANGED item
    <3>1. [item EXCEPT ![b][i] = item[b][i]] = item
      BY <1>1
    <3> QED BY <1>4, <3>1 DEF ItemFinish
  <2>2. UNCHANGED state
    BY <1>1, <2>1 DEF ItemFinish, FrontOK
  <2> QED BY <1>2, <2>1, <2>2, LedgerStands DEF Told
<1> QED BY <1>3, <1>4

(* The start-up closes the item that was under way, if its job is over.     *)
LEMMA LedgerResumes ==
    ASSUME TypeOK, FrontOK, QueueOK, Resume
    PROVE  [Ledger!Next]_(Ledger!vars)
<1> DEFINE b == Head(queue)
<1>1. /\ item \in [Batches -> [Items -> ItemStates]] /\ queue \in Seq(Batches)
      /\ state \in [Batches -> {"absent", "refused", "running", "done", "cancelled"}]
      /\ Items \subseteq Nat
  BY BatchFacts, BatchNumbers DEF ItemTable, TypeOK
<1>2. /\ b \in Batches /\ state[b] = "running" /\ Unfinished(item[b])
      /\ Told[b] = "running"
  BY <1>1, TailIs DEF Resume, QueueOK, FrontOK, Told
<1>3. /\ item' = [item EXCEPT ![b] = Recovered(b)]
      /\ IF Unfinished(Recovered(b)) THEN UNCHANGED state
         ELSE state' = [state EXCEPT ![b] = "done"]
      /\ UNCHANGED <<flag, drives, late, EndedOk>>
  BY DEF Resume, history, EndedOk
<1> HIDE DEF b
<1>4. CASE \A i \in Items : Recovered(b)[i] = item[b][i]
  <2>1. Recovered(b) = item[b]
    BY <1>1, <1>2, <1>4 DEF Recovered
  <2>2. UNCHANGED <<item, state>>
    BY <1>1, <1>2, <1>3, <2>1
  <2> QED BY <1>3, <2>2, LedgerStands DEF Told
<1>5. CASE \E i \in Items : Recovered(b)[i] # item[b][i]
  <2>1. PICK i \in Items : Recovered(b)[i] # item[b][i]
    BY <1>5
  <2>2. PICK s \in {"done", "failed"} :
           Recovered(b)[i] = s /\ (s = "done" => job[b][i] = "ok") /\ item[b][i] = "running"
    BY <1>2, <2>1, RecoveredItems
  <2>3. \A k \in Items : k # i => Recovered(b)[k] = item[b][k]
    <3>1. \A k \in Items : k # i => item[b][k] # "running"
      BY <1>1, <1>2, <2>2 DEF FrontOK, Ended
    <3> QED BY <1>2, <3>1, RecoveredItems
  <2>4. item' = [item EXCEPT ![b][i] = s]
    <3>1. Recovered(b) = [item[b] EXCEPT ![i] = s]
      BY <1>1, <1>2, <2>2, <2>3 DEF Recovered
    <3> QED BY <1>3, <3>1
  <2>5. item'[b] = Recovered(b)
    BY <1>1, <1>2, <1>3
  <2>6. Ledger!Turn(b, i)
    BY <1>2, <2>2 DEF Ledger!Turn, FrontOK
  <2>7. /\ Unfinished(Recovered(b)) => UNCHANGED Told
        /\ ~Unfinished(Recovered(b)) => Told' = [Told EXCEPT ![b] = "done"]
    BY <1>2, <1>3, ToldMoves DEF Told
  <2>8. Ledger!Close(b, i)
    BY <1>2, <1>3, <2>2, <2>4, <2>5, <2>6, <2>7
       DEF Ledger!Close, Ledger!Open, Unfinished, EndedOk, Ended
  <2> QED BY <1>2, <2>8 DEF Ledger!Next
<1> QED BY <1>4, <1>5

(* The steps that may change what the ledger shows beside the jobs.         *)
LEMMA LedgerSees ==
    ASSUME [Next]_vars
    PROVE  \/ UNCHANGED <<state, flag, item, drives, late>>
           \/ Reserve \/ ReserveFails \/ Start \/ StartFails
           \/ Create \/ CreateFails \/ Resume \/ Link \/ LinkFails \/ Claim
           \/ FinishItem \/ ThreadRaises \/ CancelRecord
<1>1. CASE \/ Request \/ ResumeEnds \/ Acquire \/ SettleRefused \/ Spawn \/ Load
           \/ NextItem \/ ThreadEnds \/ Drive \/ ReadJob \/ Pause \/ NoOutcome
           \/ BootReplayFails \/ SettleFails \/ StartupFails \/ CancelSignal
           \/ OtherTakes \/ OtherReleases \/ ChildExits \/ Crash \/ UNCHANGED vars
  BY <1>1 DEF Request, ResumeEnds, Acquire, SettleRefused, Spawn, Load, NextItem,
              ThreadEnds, Drive, ReadJob, Pause, NoOutcome, BootReplayFails, SettleFails,
              StartupFails, CancelSignal, OtherTakes, OtherReleases, ChildExits, Crash,
              vars, tables, history
<1>2. CASE \/ BootReplay \/ BootReconcile \/ Settle \/ OtherReconciles \/ SpawnFails
           \/ ClaimFails \/ Close \/ CloseFails
           \/ \E b \in Batches, i \in Items : ReplayedElsewhere(b, i)
  BY <1>2 DEF BootReplay, BootReconcile, Settle, OtherReconciles, SpawnFails, ClaimFails,
              Close, CloseFails, ReplayedElsewhere, history
<1> QED BY <1>1, <1>2 DEF Next, Startup, Setup, Thread, Faults, Others

(* Every step of the batch is one of the ledger, or none.                   *)
LEMMA LedgerStep ==
    ASSUME BatchInvariant, FrontOK, QueueOK, [Next]_vars
    PROVE  [Ledger!Next]_(Ledger!vars)
<1>0. /\ TypeOK /\ RecordsOK /\ ThreadOK /\ AtHandOK /\ batch \in Batches /\ 1 \in Items
  BY BatchFacts, BatchNumbers DEF BatchInvariant
<1>1. CASE Reserve \/ ReserveFails
  <2>1. state[batch] = "absent" /\ item[batch][1] = "none"
    BY <1>0, <1>1 DEF Reserve, ReserveFails, AtHandOK, RecordsOK
  <2>2. /\ UNCHANGED <<flag, item, drives, late>>
        /\ UNCHANGED state \/ state' = [state EXCEPT ![batch] = "refused"]
        /\ UNCHANGED job \/ \E s \in {"none", "running"} : job' = [job EXCEPT ![batch][1] = s]
    BY <1>1 DEF Reserve, ReserveFails, history
  <2>3. UNCHANGED EndedOk
    BY <1>0, <2>1, <2>2, StartIsNoSuccess DEF EndedOk
  <2>4. UNCHANGED Told
    BY <1>0, <2>1, <2>2, BatchFacts DEF Told
  <2> QED BY <2>2, <2>3, <2>4, LedgerStands
<1>2. CASE Start \/ StartFails
  <2>1. pos \in Items /\ item[batch][pos] = "queued"
    BY <1>0, <1>2 DEF Start, StartFails, ThreadOK, Working
  <2>2. /\ UNCHANGED <<state, flag, item, drives, late>>
        /\ UNCHANGED job \/ job' = [job EXCEPT ![batch][pos] = "running"]
    BY <1>2 DEF Start, StartFails
  <2>3. UNCHANGED EndedOk
    BY <1>0, <2>1, <2>2, StartIsNoSuccess DEF EndedOk
  <2> QED BY <2>2, <2>3, LedgerStands DEF Told
<1>m. CASE JobsMove
  <2>1. CASE UNCHANGED <<state, flag, item, drives, late>>
    BY <1>0, <1>m, <2>1, LedgerSucceeds DEF Ledger!Next
  <2>2. CASE Create \/ CreateFails
    <3>1. /\ state[batch] = "absent" /\ UNCHANGED <<flag, drives, late>>
          /\ Created \/ (state' = [state EXCEPT ![batch] = "refused"] /\ UNCHANGED item)
          /\ job' \in {Finished(job, batch, 1, "error"), job}
      BY <1>0, <2>2 DEF Create, CreateFails, AtHandOK, Abort, history
    <3>2. UNCHANGED EndedOk
      BY <1>0, <3>1, ErrorIsNoSuccess
    <3>3. CASE Created
      BY <1>0, <3>1, <3>2, <3>3, LedgerStores DEF Ledger!Next
    <3>4. CASE state' = [state EXCEPT ![batch] = "refused"] /\ UNCHANGED item
      <4>1. UNCHANGED Told
        BY <1>0, <3>1, <3>4, BatchFacts DEF Told
      <4> QED BY <3>1, <3>2, <3>4, <4>1, LedgerStands
    <3> QED BY <3>1, <3>3, <3>4
  <2>3. CASE Resume
    BY <1>0, <2>3, LedgerResumes
  <2>4. CASE Link \/ LinkFails
    <3>1. /\ pos \in Items /\ item[batch][pos] = "queued" /\ Stored(batch)
          /\ \A k \in Items : k < pos => item[batch][k] \in Ended
      BY <1>0, <2>4 DEF Link, LinkFails, ThreadOK, AtHandOK, Working, Stored
    <3>2. Told[batch] = "running" /\ Ledger!Turn(batch, pos)
      BY <1>0, <3>1, BatchFacts DEF RecordsOK, Unfinished, Stored, Told, Ledger!Turn
    <3>3. /\ UNCHANGED <<state, flag, drives, late, job>>
          /\ \/ item' = [item EXCEPT ![batch][pos] = "running"]
             \/ item' = [item EXCEPT ![batch][pos] = item[batch][pos]]
      BY <2>4, <3>1 DEF Link, LinkFails, history
    <3>4. UNCHANGED <<Told, EndedOk>>
      BY <3>3 DEF Told, EndedOk
    <3>5. CASE item' = [item EXCEPT ![batch][pos] = "running"]
      <4>1. Ledger!Begin(batch, pos)
        BY <3>1, <3>2, <3>3, <3>4, <3>5 DEF Ledger!Begin
      <4> QED BY <1>0, <3>1, <4>1 DEF Ledger!Next
    <3>6. CASE item' = [item EXCEPT ![batch][pos] = item[batch][pos]]
      <4>1. UNCHANGED item
        BY <1>0, <3>1, <3>6, BatchFacts DEF ItemTable
      <4> QED BY <3>3, <3>4, <4>1, LedgerStands
    <3> QED BY <3>3, <3>5, <3>6
  <2>5. CASE Claim
    <3>1. /\ pos \in Items /\ item[batch][pos] = "running" /\ late[batch] = 0
          /\ Runs(batch, pos) => drives[batch][pos] = 0
      BY <1>0, <2>5 DEF Claim, ThreadOK, Working
    <3>2. /\ UNCHANGED <<state, flag, item, job>>
          /\ \/ UNCHANGED <<drives, late>>
             \/ /\ Runs(batch, pos)
                /\ drives' = [drives EXCEPT ![batch][pos] = drives[batch][pos] + 1]
                /\ late' = IF flag[batch] THEN [late EXCEPT ![batch] = late[batch] + 1]
                           ELSE late
      BY <2>5 DEF Claim, Runs, tables
    <3>3. UNCHANGED <<Told, EndedOk>>
      BY <3>2 DEF Told, EndedOk
    <3>4. CASE UNCHANGED <<drives, late>>
      BY <3>2, <3>3, <3>4, LedgerStands
    <3>5. CASE ~UNCHANGED <<drives, late>>
      <4>1. Ledger!Drive(batch, pos)
        BY <3>1, <3>2, <3>3, <3>5 DEF Ledger!Drive
      <4> QED BY <1>0, <3>1, <4>1 DEF Ledger!Next
    <3> QED BY <3>4, <3>5
  <2>6. CASE FinishItem \/ ThreadRaises
    <3>1. CASE pc = "finish" /\ ItemFinish(batch, pos, outcome)
      <4>1. /\ pos \in Items /\ outcome \in Ended /\ Stored(batch)
            /\ outcome = "done" => job[batch][pos] = "ok"
            /\ \A k \in Items : k < pos => item[batch][k] \in Ended
            /\ item[batch][pos] # "none"
            /\ state[batch] \in {"done", "cancelled"} => ~Unfinished(item[batch])
        BY <1>0, <3>1 DEF ThreadOK, AtHandOK, RecordsOK, Working, Stored
      <4>2. UNCHANGED <<job, flag, drives, late>>
        BY <2>6 DEF FinishItem, ThreadRaises, history
      <4> QED BY <1>0, <3>1, <4>1, <4>2, LedgerCloses DEF Ledger!Next
    <3>2. CASE UNCHANGED <<item, state>>
      <4>1. UNCHANGED <<flag, drives, late>>
        BY <2>6 DEF FinishItem, ThreadRaises, history
      <4> QED BY <1>0, <1>m, <3>2, <4>1, LedgerSucceeds DEF Ledger!Next
    <3> QED BY <2>6, <3>1, <3>2 DEF FinishItem, ThreadRaises
  <2>7. CASE CancelRecord
    <3>1. /\ flag' = [b \in Batches |-> flag[b] \/ state[b] = "running"]
          /\ UNCHANGED <<state, item, drives, late, job>>
      BY <2>7 DEF CancelRecord, history
    <3>2. UNCHANGED <<Told, EndedOk>>
          /\ flag' = [b \in Batches |-> flag[b] \/ Told[b] = "running"]
      BY <3>1 DEF Told, EndedOk
    <3> QED BY <3>1, <3>2 DEF Ledger!RequestCancel, Ledger!Next
  <2>8. \/ UNCHANGED <<state, flag, item, drives, late>>
        \/ Reserve \/ ReserveFails \/ Start \/ StartFails
        \/ Create \/ CreateFails \/ Resume \/ Link \/ LinkFails \/ Claim
        \/ FinishItem \/ ThreadRaises \/ CancelRecord
    BY LedgerSees
  <2> QED BY <1>1, <1>2, <2>1, <2>2, <2>3, <2>4, <2>5, <2>6, <2>7, <2>8
<1> QED BY <1>1, <1>2, <1>m, JobsMoveStep

(* Every step of the ledger keeps the items in order.                       *)
LEMMA FrontStep ==
    ASSUME TypeOK, FrontOK, [Ledger!Next]_(Ledger!vars)
    PROVE  FrontOK'
<1>0. /\ item \in [Batches -> [Items -> ItemStates]] /\ 1 \in Items /\ Items \subseteq Nat
      /\ \A i \in Items : 1 <= i
  BY BatchFacts, BatchNumbers DEF ItemTable, Items
<1>t. \A b \in Batches : /\ Told[b] = "running" <=> state[b] = "running"
                         /\ Told'[b] = "running" <=> state'[b] = "running"
  BY DEF Told
<1>1. CASE UNCHANGED item /\ UNCHANGED Told
  BY <1>t, <1>1 DEF FrontOK, Unfinished
<1>2. ASSUME NEW b \in Batches, Ledger!Store(b) PROVE FrontOK'
  <2>1. /\ \A c \in Batches : c # b => item'[c] = item[c] /\ Told'[c] = Told[c]
        /\ \A i \in Items : item'[b][i] = IF i = 1 THEN "running" ELSE "queued"
    BY <1>0, <1>2 DEF Ledger!Store, Told
  <2> QED BY <1>0, <1>t, <2>1 DEF FrontOK, Unfinished
<1>3. ASSUME NEW b \in Batches, NEW i \in Items, NEW s \in Ended \cup {"running"},
             item' = [item EXCEPT ![b][i] = s], item[b][i] \in {"queued", "running"},
             Ledger!Turn(b, i), \A c \in Batches : c # b => Told'[c] = Told[c],
             Told'[b] = "running" => Unfinished(item'[b])
      PROVE  FrontOK'
  <2>1. /\ item'[b][i] = s
        /\ \A c \in Batches, k \in Items : c # b \/ k # i => item'[c][k] = item[c][k]
    <3>1. s \in ItemStates
      BY DEF ItemStates
    <3> QED BY <1>0, <1>3, <3>1, Cell
  <2>2. ASSUME NEW c \in Batches, NEW j \in Items, NEW k \in Items, k < j,
               item'[c][j] \notin {"none", "queued"}
        PROVE  item'[c][k] \in Ended
    <3>1. CASE c # b
      BY <2>1, <2>2, <3>1 DEF FrontOK
    <3>2. CASE c = b /\ j = i
      BY <1>0, <1>3, <2>1, <2>2, <3>2 DEF Ledger!Turn
    <3>3. CASE c = b /\ j # i
      BY <1>0, <1>3, <2>1, <2>2, <3>3 DEF FrontOK, Ended
    <3> QED BY <3>1, <3>2, <3>3
  <2>3. ASSUME NEW c \in Batches, state'[c] = "running" PROVE Unfinished(item'[c])
    <3>1. CASE c = b
      BY <1>3, <1>t, <2>3, <3>1
    <3>2. CASE c # b
      BY <1>3, <1>t, <2>1, <2>3, <3>2 DEF FrontOK, Unfinished
    <3> QED BY <3>1, <3>2
  <2> QED BY <2>2, <2>3 DEF FrontOK
<1>4. ASSUME NEW b \in Batches, NEW i \in Items, Ledger!Begin(b, i) PROVE FrontOK'
  <2>1. /\ item' = [item EXCEPT ![b][i] = "running"] /\ item[b][i] = "queued"
        /\ Ledger!Turn(b, i) /\ UNCHANGED Told
    BY <1>4 DEF Ledger!Begin
  <2>2. Unfinished(item'[b])
    BY <1>0, <2>1 DEF Unfinished
  <2> QED BY <1>3, <2>1, <2>2
<1>5. ASSUME NEW b \in Batches, NEW i \in Items, Ledger!Close(b, i) PROVE FrontOK'
  <2>1. PICK s \in Ended : item' = [item EXCEPT ![b][i] = s]
    BY <1>5 DEF Ledger!Close
  <2>2. /\ item[b][i] \in {"queued", "running"} /\ Ledger!Turn(b, i)
        /\ \A c \in Batches : c # b => Told'[c] = Told[c]
        /\ Unfinished(item'[b]) \/ Told'[b] \in {"done", "cancelled"}
    BY <1>5 DEF Ledger!Close, Ledger!Open, Told, Unfinished
  <2> QED BY <1>3, <2>1, <2>2
<1>6. CASE Ledger!RequestCancel \/ Ledger!Succeed \/ UNCHANGED Ledger!vars
           \/ \E b \in Batches, i \in Items : Ledger!Drive(b, i)
  BY <1>1, <1>6 DEF Ledger!RequestCancel, Ledger!Succeed, Ledger!Drive, Ledger!vars
<1> QED BY <1>2, <1>4, <1>5, <1>6 DEF Ledger!Next

(* The start-up looks at every batch that is not over, the oldest first.    *)
LEMMA QueueStep ==
    ASSUME BatchInvariant, QueueOK, [Next]_vars
    PROVE  QueueOK'
<1>0. /\ TypeOK /\ ScopeOK /\ AtHandOK /\ queue \in Seq(Batches)
      /\ state \in [Batches -> {"absent", "refused", "running", "done", "cancelled"}]
  BY BatchFacts DEF BatchInvariant, TypeOK
<1>1. CASE Bystander
  BY <1>1, BystandersStandBy DEF QueueOK, OldestFirst
<1>2. CASE pc' \notin {"resume", "acquire", "settle"}
  BY <1>2 DEF QueueOK
<1>3. CASE Request
  BY <1>0, <1>3 DEF Request, ScopeOK, Goto, QueueOK
<1>4. CASE BootReconcile
  <2>1. PICK s \in [1 .. Cardinality(Pending) -> Pending] : OldestFirst(s) /\ queue' = s
    BY <1>4 DEF BootReconcile
  <2>2. UNCHANGED state
    BY <1>4 DEF BootReconcile
  <2> QED BY <1>0, <2>1, <2>2, PendingQueue DEF QueueOK, OldestFirst
<1>q. CASE Resume \/ Acquire \/ SettleRefused
  <2>1. /\ queue # <<>> \/ ~boot
        /\ pc \in {"resume", "acquire"} \/ (pc = "settle" /\ boot)
           => (\A k \in DOMAIN queue : state[queue[k]] = "running") /\ OldestFirst(queue)
    BY <1>0, <1>q DEF Resume, Acquire, SettleRefused, AtHandOK, ScopeOK, Starting, QueueOK
  <2>2. CASE queue # <<>> /\ (pc \in {"resume", "acquire"} \/ (pc = "settle" /\ boot))
    <3>1. /\ \/ UNCHANGED state
             \/ queue' = Tail(queue) /\ \A b \in Batches : b # Head(queue) => state'[b] = state[b]
          /\ queue' \in {queue, Tail(queue)}
      BY <1>0, <1>q, <2>2 DEF Resume, Acquire, SettleRefused, PassOver, tables
    <3>2. \A k \in DOMAIN queue : queue[k] \in Batches /\ queue[k] \in Nat /\ k \in Nat
      <4>1. DOMAIN queue = 1 .. Len(queue) /\ Len(queue) \in Nat
        BY <1>0, LenProperties
      <4>2. \A k \in DOMAIN queue : queue[k] \in Batches
        BY <1>0, <4>1, ElementOfSeq
      <4>3. \A k \in DOMAIN queue : k \in Nat
        BY <4>1
      <4> QED BY <4>2, <4>3, BatchNumbers
    <3>3. CASE UNCHANGED <<state, queue>>
      BY <2>1, <2>2, <3>3 DEF QueueOK, OldestFirst
    <3>4. CASE queue' = Tail(queue)
      <4>1. \A k \in DOMAIN queue' : /\ k + 1 \in DOMAIN queue /\ queue'[k] = queue[k + 1]
                                     /\ k \in Nat
        BY <1>0, <2>2, <3>4, TailIs, LenProperties
      <4>2. Head(queue) = queue[1] /\ 1 \in DOMAIN queue
        BY <1>0, <2>2, TailIs
      <4>3. \A k \in DOMAIN queue' : 1 < k + 1
        <5>1. \A k \in DOMAIN queue' : k >= 1
          <6>1. DOMAIN Tail(queue) = 1 .. Len(Tail(queue))
            BY <1>0, <2>2, TailIs, LenProperties
          <6> QED BY <3>4, <6>1
        <5> QED BY <4>1, <5>1
      <4>4. \A k \in DOMAIN queue' : state'[queue'[k]] = "running"
        BY <2>1, <2>2, <3>1, <3>2, <4>1, <4>2, <4>3 DEF OldestFirst
      <4>5. \A j, k \in DOMAIN queue' : j < k => queue'[j] < queue'[k]
        BY <2>1, <2>2, <3>2, <4>1 DEF OldestFirst
      <4> QED BY <4>4, <4>5 DEF QueueOK, OldestFirst
    <3> QED BY <3>1, <3>3, <3>4
  <2>3. CASE pc = "settle" /\ ~boot
    BY <1>q, <2>3 DEF SettleRefused, Resume, Acquire, QueueOK, Goto
  <2> QED BY <1>0, <1>q, <2>1, <2>2, <2>3 DEF Resume, Acquire, SettleRefused, ScopeOK, Starting
<1>5. CASE Settle \/ ResumeEnds \/ BootReplay
  BY <1>2, <1>5 DEF Settle, ResumeEnds, BootReplay, Goto
<1>6. CASE Reserve \/ Create \/ Spawn
  BY <1>2, <1>6 DEF Reserve, Create, Spawn, Goto, Leave
<1>7. CASE Thread
  <2>1. CASE Load \/ NextItem \/ ThreadEnds \/ Start \/ Link \/ Claim
    BY <1>2, <2>1 DEF Load, NextItem, ThreadEnds, Start, Link, Claim, GiveUp, Goto, Leave
  <2>2. CASE Drive \/ Close \/ ReadJob \/ Pause \/ NoOutcome \/ FinishItem
    BY <1>2, <2>2 DEF Drive, Close, ReadJob, Pause, NoOutcome, FinishItem, Goto, Leave
  <2> QED BY <1>7, <2>1, <2>2 DEF Thread
<1>8. CASE Faults \/ Crash
  BY <1>2, <1>8 DEF Faults, BootReplayFails, SettleFails, StartupFails, ReserveFails, CreateFails,
          SpawnFails, StartFails, LinkFails, ClaimFails, CloseFails, ThreadRaises, Crash, Abort,
          GiveUp, Goto, Leave
<1> QED
  BY <1>1, <1>3, <1>4, <1>q, <1>5, <1>6, <1>7, <1>8
     DEF Next, Startup, Setup, Others, Bystander

(* The batch implements the ledger: through kills, resumptions and failing   *)
(* operations, and beside other holders of the scope, its tables move only   *)
(* as BatchLedger says (job_batch_create, job_batch_item_start,              *)
(* job_batch_item_finish, job_batch_recover, job_batch_request_cancel).      *)
THEOREM BatchImplementsLedger == Spec => BatchLedgerSpec
<1> DEFINE Ordered == BatchInvariant /\ FrontOK /\ QueueOK
<1>1. Init => Ordered
  <2>1. Init => FrontOK /\ QueueOK
    BY DEF Init, FrontOK, QueueOK
  <2> QED BY <2>1, BatchInitOK
<1>2. Init => Ledger!Init
  <2> SUFFICES ASSUME Init PROVE Ledger!Init
    OBVIOUS
  <2>1. Told = [b \in Batches |-> "absent"]
    BY DEF Init, Told
  <2>2. EndedOk = [b \in Batches |-> [i \in Items |-> FALSE]]
    BY DEF Init, EndedOk
  <2> QED BY <2>1, <2>2 DEF Init, Ledger!Init
<1>3. Ordered /\ [Next]_vars => [Ledger!Next]_(Ledger!vars)
  BY LedgerStep
<1>4. Ordered /\ [Next]_vars => Ordered'
  <2> SUFFICES ASSUME Ordered, [Next]_vars PROVE Ordered'
    OBVIOUS
  <2>1. FrontOK'
    BY <1>3, FrontStep DEF BatchInvariant
  <2>2. BatchInvariant'
    BY BatchStep
  <2> QED BY <2>1, <2>2, QueueStep
<1> HIDE DEF Ordered
<1> QED BY <1>1, <1>2, <1>3, <1>4, PTL DEF Spec, BatchLedgerSpec, Ledger!Spec
=============================================================================
