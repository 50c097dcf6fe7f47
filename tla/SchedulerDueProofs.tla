------------------------- MODULE SchedulerDueProofs -------------------------
(***************************************************************************)
(* Machine-checked proofs about SchedulerDue, for any schedules, any        *)
(* settings and any number of minutes, kills, runs by hand and pauses.     *)
(*                                                                         *)
(* The rhythm of the alarm rests on AlarmInvariant: the noted alarms lie   *)
(* behind the clock, were due when they were noted, and are a repeat period *)
(* apart, the lost ones too.  That a slot is started once rests on         *)
(* StartInvariant and on three facts about the calendar, which are         *)
(* hypotheses of the theorem.                                              *)
(***************************************************************************)
EXTENDS SchedulerDue, WellFoundedInduction, TLAPS

(***************************************************************************)
(* The earliest and the latest of a set of times.                          *)
(***************************************************************************)

LEMMA SmallestOfSet ==
    ASSUME NEW T, T \subseteq Nat, T # {}
    PROVE  \E x \in T : \A y \in T : x <= y
<1>1. PICK x \in T : \A y \in T : <<y, x>> \notin OpToRel(<, Nat)
  BY NatLessThanWellFounded, WFMin, Zenon
<1>2. \A y \in T : <<y, x>> \in OpToRel(<, Nat) <=> y < x
  BY Zenon DEF OpToRel
<1>3. \A y \in T : ~(y < x)
  BY <1>1, <1>2
<1>4. ASSUME NEW y \in T
      PROVE  x <= y
  <2>1. x \in Nat /\ y \in Nat
    OBVIOUS
  <2>2. ~(y < x)
    BY <1>3
  <2> QED BY <2>1, <2>2
<1> QED BY <1>4

LEMMA EarliestOf ==
    ASSUME NEW s, s \subseteq Nat, s # {}
    PROVE  Earliest(s) \in s /\ \A u \in s : Earliest(s) <= u
<1>1. \E t \in s : \A u \in s : t <= u
  BY SmallestOfSet
<1> QED BY <1>1 DEF Earliest

LEMMA LatestOf ==
    ASSUME NEW s, s \subseteq Nat, s # {}, NEW top \in Nat, \A u \in s : u <= top
    PROVE  Latest(s) \in s /\ \A u \in s : Latest(s) >= u
<1> DEFINE T == {top - u : u \in s}
<1>1. T \subseteq Nat /\ T # {}
  OBVIOUS
<1>2. PICK x \in T : \A y \in T : x <= y
  BY <1>1, SmallestOfSet
<1>3. PICK t \in s : x = top - t
  OBVIOUS
<1>4. \A u \in s : t >= u
  <2> SUFFICES ASSUME NEW u \in s PROVE t >= u
    OBVIOUS
  <2>1. x <= top - u
    BY <1>2
  <2> QED BY <1>3, <2>1
<1>5. \E v \in s : \A u \in s : v >= u
  BY <1>4
<1> QED BY <1>5 DEF Latest

(***************************************************************************)
(* Types.                                                                  *)
(***************************************************************************)

AttemptStatuses == {"none", "running", "ok", "error", "stale"}
Times == Never .. MaxClock
AttemptRecord == [status : AttemptStatuses, at : Times, slot : Int]

LEMMA Settings ==
    /\ "job" \in Items /\ Items \subseteq Kinds
    /\ Retry \in Nat /\ Grace \in Nat /\ MaxAge \in Nat /\ Repeat \in Nat
    /\ MaxClock \in Nat /\ Never = -1 /\ Never \in Times
    /\ FirstTick \in BOOLEAN /\ Nothing \notin Items
    /\ \A i \in Items : /\ 0 \in Occurs[i] /\ Occurs[i] \subseteq Nat
                        /\ \A o \in Occurs[i] : o <= MaxClock /\ SlotOf[o] \in Nat
BY DueAssumptions DEF Kinds, Nothing, Never, Times

(* The value of each variable.                                             *)
DueTypes ==
    /\ clock \in 0 .. MaxClock
    /\ attempt \in [Items -> AttemptRecord]
    /\ success \in [Items -> Times]
    /\ starts = [i \in Items |-> starts[i]]
    /\ \A i \in Items : starts[i] \in [Occurs[i] -> Nat]
    /\ tickAt \in {"idle", "send", "pause", "drop", "due"} \cup Kinds
    /\ tickDue \subseteq Items /\ working \in Items \cup {Nothing}
    /\ manual \in Items \cup {Nothing} /\ dropping \in BOOLEAN /\ alarmsLost \in Nat
    /\ pause \in Times /\ overdueSent \in Times /\ alarmedAt \in Times

LEMMA TypesAreKnown ==
    ASSUME DueTypes
    PROVE  DueTypeOK
<1>1. ASSUME NEW i \in Items
      PROVE  /\ attempt[i].status \in AttemptStatuses
             /\ {attempt[i].at, success[i]} \subseteq Times
             /\ starts[i] \in [Occurs[i] -> Nat]
  <2>1. attempt[i] \in AttemptRecord /\ success[i] \in Times
    BY DEF DueTypes
  <2> QED BY <2>1 DEF DueTypes, AttemptRecord
<1> QED BY <1>1 DEF DueTypes, DueTypeOK, AttemptStatuses, Times

LEMMA InitTypes ==
    ASSUME DueInit
    PROVE  DueTypes
<1>1. NoAttempt \in AttemptRecord
  BY Settings DEF NoAttempt, AttemptRecord, AttemptStatuses, Times, Never
<1>2. success \in [Items -> Times]
  BY Settings DEF DueInit, Times, Never
<1>3. 0 \in 0 .. MaxClock /\ Never \in Times
  BY Settings
<1> QED BY <1>1, <1>2, <1>3 DEF DueInit, DueTypes

(* An attempt that is given a status, or a slot, now.                      *)
LEMMA AttemptMarked ==
    ASSUME DueTypes, NEW i \in Items, NEW s \in AttemptStatuses
    PROVE  [attempt EXCEPT ![i].status = s, ![i].at = clock] \in [Items -> AttemptRecord]
<1>1. attempt[i] \in AttemptRecord /\ clock \in Times
  BY Settings DEF DueTypes, Times, Never
<1>2. [attempt[i] EXCEPT !.status = s, !.at = clock] \in AttemptRecord
  BY <1>1 DEF AttemptRecord
<1>3. [attempt EXCEPT ![i].status = s, ![i].at = clock]
        = [attempt EXCEPT ![i] = [attempt[i] EXCEPT !.status = s, !.at = clock]]
  <2>1. attempt \in [Items -> AttemptRecord]
    BY DEF DueTypes
  <2> QED BY <2>1, <1>1 DEF AttemptRecord
<1>4. attempt \in [Items -> AttemptRecord]
  BY DEF DueTypes
<1> QED BY <1>2, <1>3, <1>4

LEMMA RecoveredTyped ==
    ASSUME DueTypes, NEW free
    PROVE  Recovered(free) \in [Items -> AttemptRecord]
<1>1. ASSUME NEW i \in Items
      PROVE  /\ attempt[i] \in AttemptRecord
             /\ [attempt[i] EXCEPT !.status = "stale", !.at = clock] \in AttemptRecord
  <2>1. attempt[i] \in AttemptRecord /\ clock \in Times /\ "stale" \in AttemptStatuses
    BY Settings DEF DueTypes, Times, Never, AttemptStatuses
  <2> QED BY <2>1 DEF AttemptRecord
<1> QED BY <1>1 DEF Recovered

(***************************************************************************)
(* What the evaluation finds.                                              *)
(***************************************************************************)

LEMMA KeyOfOccurrence ==
    ASSUME NEW i \in Items, NEW o \in Occurs[i]
    PROVE  SlotKey(o) = SlotOf[o] /\ SlotKey(o) \in Nat /\ o \in Nat /\ o <= MaxClock
BY Settings DEF SlotKey

(* The next occurrence, or the one beyond the horizon.                     *)
LEMMA NextOccurrence ==
    ASSUME NEW i \in Items, NEW t \in Int
    PROVE  LET n == NextAfter(i, t)
           IN  /\ n \in Nat
               /\ n <= MaxClock => n \in Occurs[i] /\ n > t
               /\ \A o \in Occurs[i] : o > t => n <= o
<1> DEFINE S == {o \in Occurs[i] : o > t} \cup {MaxClock + 1}
<1>1. S \subseteq Nat /\ S # {}
  BY Settings
<1>2. Earliest(S) \in S /\ \A u \in S : Earliest(S) <= u
  BY <1>1, EarliestOf
<1>3. NextAfter(i, t) = Earliest(S)
  BY DEF NextAfter
<1>4. Earliest(S) \in Nat
  BY <1>1, <1>2
<1>5. Earliest(S) <= MaxClock => Earliest(S) \in Occurs[i] /\ Earliest(S) > t
  BY <1>2, Settings
<1>6. \A o \in Occurs[i] : o > t => Earliest(S) <= o
  BY <1>2
<1> HIDE DEF S
<1> QED BY <1>3, <1>4, <1>5, <1>6

(* There is always an occurrence behind the clock.                         *)
LEMMA LastOccurrence ==
    ASSUME NEW i \in Items, NEW t \in Nat
    PROVE  LET p == PreviousBefore(i, t + 1)
           IN  /\ p \in Occurs[i] /\ p <= t
               /\ \A o \in Occurs[i] : o <= t => o <= p
<1> DEFINE S == {o \in Occurs[i] : o < t + 1}
<1>1. S \subseteq Nat /\ 0 \in S /\ \A u \in S : u <= t
  BY Settings
<1>2. Latest(S) \in S /\ \A u \in S : Latest(S) >= u
  BY <1>1, LatestOf
<1>3. \A o \in Occurs[i] : o <= t => o \in S
  BY Settings
<1>4. \A o \in Occurs[i] : o <= t => o <= Latest(S)
  <2> SUFFICES ASSUME NEW o \in Occurs[i], o <= t
               PROVE  o <= Latest(S)
    OBVIOUS
  <2>1. o \in S
    BY <1>3
  <2>2. o \in Nat /\ Latest(S) \in Nat /\ Latest(S) >= o
    BY <1>1, <1>2, <2>1
  <2> QED BY <2>2
<1> QED BY <1>1, <1>2, <1>4 DEF PreviousBefore

(* What is due has come.                                                   *)
LEMMA DueHasCome ==
    ASSUME DueTypes, NEW i \in Items, DueSlot(i, clock)
    PROVE  LET o == Occurrence(i, clock)
           IN  o \in Occurs[i] /\ o <= clock /\ success[i] < o
<1>1. clock \in Nat /\ clock <= MaxClock /\ success[i] \in Int /\ MaxClock \in Nat
      /\ (success[i] = Never \/ success[i] \in Nat)
  <2>1. success[i] \in Times /\ clock \in 0 .. MaxClock
    BY DEF DueTypes
  <2> QED BY <2>1, Settings DEF Times, Never
<1>2. CASE success[i] = Never
  <2>1. Occurrence(i, clock) \in Occurs[i] /\ Occurrence(i, clock) <= clock
    BY <1>1, <1>2, LastOccurrence DEF Occurrence
  <2>2. Occurrence(i, clock) \in Nat
    BY <2>1, Settings
  <2> QED BY <2>1, <2>2, <1>2, Settings
<1>3. CASE success[i] # Never
  <2>1. Occurrence(i, clock) = NextAfter(i, success[i])
    BY <1>3 DEF Occurrence
  <2>2. clock >= NextAfter(i, success[i])
    BY <1>3, <2>1 DEF DueSlot
  <2>3. NextAfter(i, success[i]) \in Nat /\
        (NextAfter(i, success[i]) <= MaxClock =>
            NextAfter(i, success[i]) \in Occurs[i] /\ NextAfter(i, success[i]) > success[i])
    BY <1>1, NextOccurrence
  <2> QED BY <1>1, <2>1, <2>2, <2>3
<1> QED BY <1>2, <1>3

(* The last repetition of a slot.                                          *)
LEMMA SameSlotFacts ==
    ASSUME NEW i \in Items, NEW o \in Occurs[i]
    PROVE  /\ SameSlot(i, o) \in Occurs[i] /\ SameSlot(i, o) >= o
           /\ SlotKey(SameSlot(i, o)) = SlotKey(o)
           /\ \A q \in Repeats(i, o) : q <= SameSlot(i, o)
<1> DEFINE S == Repeats(i, o)
<1>0. S \subseteq Occurs[i] /\ S \subseteq Nat /\ (\A q \in S : q >= o) /\ o \in Nat
  BY Settings DEF Repeats
<1>1. \A q \in S : q <= MaxClock /\ SlotKey(q) = SlotKey(o)
  BY Settings DEF Repeats
<1>2. o \in S
  <2>1. \A r \in Occurs[i] : o <= r /\ r <= o => r = o
    BY <1>0, Settings
  <2> QED BY <2>1, <1>0 DEF Repeats
<1>3. Latest(S) \in S /\ \A u \in S : Latest(S) >= u
  BY <1>0, <1>1, <1>2, Settings, LatestOf
<1>4. \A q \in S : q <= Latest(S)
  BY <1>0, <1>3
<1> QED BY <1>0, <1>1, <1>3, <1>4 DEF SameSlot

(* A start is a retry of a failure, or one by cron.                        *)
LEMMA StartIsRetryOrCron ==
    ASSUME NEW i \in Items, NEW s \in Evaluate(i, clock)
    PROVE  /\ ~HeldBack(i, clock)
           /\ \/ RetryDue(i, clock) /\ s = [slot |-> RetrySlot, occurrence |-> Never]
              \/ /\ ~Failing(i) /\ DueSlot(i, clock)
                 /\ s = [slot |-> SlotKey(StartedFor(i, clock)),
                         occurrence |-> StartedFor(i, clock)]
<1>1. RetryDue(i, clock) => Failing(i)
  BY DEF RetryDue
<1>2. CASE Failing(i) /\ ~RetryDue(i, clock)
  <2>1. Evaluate(i, clock) = {}
    BY <1>2, Zenon DEF Evaluate
  <2> QED BY <2>1
<1>3. CASE HeldBack(i, clock)
  <2>1. Evaluate(i, clock) = {}
    BY <1>3, Zenon DEF Evaluate
  <2> QED BY <2>1
<1>4. CASE RetryDue(i, clock) /\ ~HeldBack(i, clock)
  <2>1. Evaluate(i, clock) = RetryStart
    BY <1>4, <1>1, Zenon DEF Evaluate
  <2> QED BY <2>1, <1>4 DEF RetryStart
<1>5. CASE ~Failing(i) /\ ~HeldBack(i, clock)
  <2>1. Evaluate(i, clock) = IF DueSlot(i, clock) THEN CronStart(StartedFor(i, clock)) ELSE {}
    BY <1>5, <1>1, Zenon DEF Evaluate
  <2> QED BY <2>1, <1>5 DEF CronStart
<1> QED BY <1>1, <1>2, <1>3, <1>4, <1>5

(* A start by cron is for an occurrence, in the model or beyond its horizon. *)
LEMMA StartedForSome ==
    ASSUME DueTypes, NEW i \in Items, DueSlot(i, clock)
    PROVE  \E o \in Nat : o = StartedFor(i, clock) /\ (o <= MaxClock => o \in Occurs[i])
<1>1. Occurrence(i, clock) \in Occurs[i] /\ Occurrence(i, clock) <= clock
  BY DueHasCome
<1>2. SameSlot(i, Occurrence(i, clock)) \in Nat
  BY <1>1, SameSlotFacts, Settings
<1>3. NextDistinct(i, Occurrence(i, clock)) \in Nat
      /\ (NextDistinct(i, Occurrence(i, clock)) <= MaxClock =>
            NextDistinct(i, Occurrence(i, clock)) \in Occurs[i])
  BY <1>2, NextOccurrence DEF NextDistinct
<1> QED BY <1>1, <1>3, Settings DEF StartedFor

(***************************************************************************)
(* Every step keeps the types.                                             *)
(***************************************************************************)

(* A start by cron is counted at an occurrence of the item.                *)
LEMMA StartsCounted ==
    ASSUME DueTypes, NEW i \in Items, NEW o \in Occurs[i]
    PROVE  LET s == [starts EXCEPT ![i][o] = @ + 1]
           IN  /\ s = [k \in Items |-> s[k]]
               /\ \A k \in Items : s[k] \in [Occurs[k] -> Nat]
               /\ s[i][o] = starts[i][o] + 1
               /\ \A k \in Items : \A q \in Occurs[k] :
                     ~(k = i /\ q = o) => s[k][q] = starts[k][q]
<1>1. /\ starts = [k \in Items |-> starts[k]]
      /\ \A k \in Items : starts[k] \in [Occurs[k] -> Nat]
  BY DEF DueTypes
<1> DEFINE s == [starts EXCEPT ![i][o] = @ + 1]
<1>2. s = [k \in Items |-> IF k = i THEN [starts[i] EXCEPT ![o] = @ + 1] ELSE starts[k]]
  BY <1>1
<1>3. [starts[i] EXCEPT ![o] = @ + 1] \in [Occurs[i] -> Nat]
  BY <1>1
<1>4. s = [k \in Items |-> s[k]] /\ \A k \in Items : s[k] \in [Occurs[k] -> Nat]
  BY <1>1, <1>2, <1>3
<1>5. s[i][o] = starts[i][o] + 1
      /\ \A k \in Items : \A q \in Occurs[k] : ~(k = i /\ q = o) => s[k][q] = starts[k][q]
  BY <1>1, <1>2
<1> QED BY <1>4, <1>5

LEMMA TickTypes ==
    ASSUME DueTypes, TickStep
    PROVE  DueTypes'
<1>1. CASE BeginTick
  <2>1. attempt' \in [Items -> AttemptRecord]
    BY <1>1, RecoveredTyped DEF BeginTick
  <2>2. overdueSent' \in Times /\ tickAt' \in {"send", "pause"}
    BY <1>1, Settings DEF BeginTick, Go, DueTypes, Times, Never
  <2> QED BY <1>1, <2>1, <2>2 DEF BeginTick, Go, DueTypes, pauseVars, dueBounds, Kinds
<1>2. CASE SendAlarm
  BY <1>2 DEF SendAlarm, Go, DueTypes, schedVars, pauseVars, dueBounds
<1>3. CASE ReadPause
  BY <1>3 DEF ReadPause, Go, DueTypes, schedVars, pauseVars, alarmVars, dueBounds
<1>4. CASE TickDropsPause
  BY <1>4, Settings DEF TickDropsPause, Go, DueTypes, schedVars, alarmVars, dueBounds
<1>5. CASE FirstLook
  <2>1. tickDue' \subseteq Items /\ tickAt' \in {"idle"} \cup Kinds
    BY <1>5 DEF FirstLook, DueJobs, DueTargets, DueDrill, Kinds
  <2> QED BY <1>5, <2>1 DEF FirstLook, DueTypes, schedVars, pauseVars, alarmVars, dueBounds
<1>6. ASSUME NEW i, NEW after \in {"pbs", "drill", "idle"}, PassBy(i, after)
      PROVE  DueTypes'
  BY <1>6 DEF PassBy, Go, DueTypes, schedVars, pauseVars, alarmVars, dueBounds, Kinds
<1>7. ASSUME NEW i, NEW after \in {"pbs", "drill", "idle"}, NoLongerDue(i, after)
      PROVE  DueTypes'
  BY <1>7 DEF NoLongerDue, DueTypes, schedVars, pauseVars, alarmVars, dueBounds, Kinds
<1>8. ASSUME NEW i \in Kinds, StartDue(i)
      PROVE  DueTypes'
  <2>1. i \in Items
    BY <1>8 DEF StartDue, Wanted, DueTypes
  <2>2. PICK s \in Evaluate(i, clock) :
           /\ attempt' = [attempt EXCEPT ![i] =
                [status |-> "running", at |-> clock, slot |-> s.slot]]
           /\ starts' = IF s.occurrence \in Occurs[i]
                        THEN [starts EXCEPT ![i][s.occurrence] = @ + 1] ELSE starts
    BY <1>8 DEF StartDue, SecondLook
  <2>3. s.slot \in Int
    <3>1. CASE s = [slot |-> RetrySlot, occurrence |-> Never]
      BY <3>1 DEF RetrySlot
    <3>2. CASE /\ DueSlot(i, clock)
               /\ s = [slot |-> SlotKey(StartedFor(i, clock)),
                       occurrence |-> StartedFor(i, clock)]
      <4>1. \E o \in Nat : o = StartedFor(i, clock) /\ (o <= MaxClock => o \in Occurs[i])
        BY <2>1, <3>2, StartedForSome
      <4>2. SlotKey(StartedFor(i, clock)) \in Int
        BY <2>1, <4>1, Settings DEF SlotKey
      <4> QED BY <3>2, <4>2
    <3> QED BY <2>1, <2>2, <3>1, <3>2, StartIsRetryOrCron
  <2>4. [status |-> "running", at |-> clock, slot |-> s.slot] \in AttemptRecord
    BY <2>3, Settings DEF AttemptRecord, AttemptStatuses, DueTypes, Times, Never
  <2>5. attempt' \in [Items -> AttemptRecord]
    BY <2>1, <2>2, <2>4 DEF DueTypes
  <2>6. /\ starts' = [k \in Items |-> starts'[k]]
        /\ \A k \in Items : starts'[k] \in [Occurs[k] -> Nat]
    <3>1. CASE s.occurrence \in Occurs[i]
      BY <2>1, <2>2, <3>1, StartsCounted
    <3>2. CASE s.occurrence \notin Occurs[i]
      BY <2>2, <3>2 DEF DueTypes
    <3> QED BY <3>1, <3>2
  <2> QED BY <1>8, <2>1, <2>5, <2>6 DEF StartDue, DueTypes, pauseVars, alarmVars, dueBounds
<1>9. ASSUME NEW i \in Kinds, NEW after \in {"pbs", "drill", "idle"}, NEW status \in AttemptStatuses,
             NEW moves \in BOOLEAN, FinishDue(i, after, status, moves)
      PROVE  DueTypes'
  <2>1. i \in Items
    BY <1>9 DEF FinishDue, DueTypes, Nothing, Kinds
  <2>2. attempt' \in [Items -> AttemptRecord]
    BY <1>9, <2>1, AttemptMarked DEF FinishDue
  <2>3. success' \in [Items -> Times]
    BY <1>9, <2>1, Settings DEF FinishDue, DueTypes, Times, Never
  <2> QED BY <1>9, <2>2, <2>3 DEF FinishDue, DueTypes, pauseVars, alarmVars, dueBounds, Kinds
<1>10. CASE FinishJob \/ FinishTargets \/ FinishDrill
  <2>1. \A ok \in BOOLEAN : (IF ok THEN "ok" ELSE "error") \in AttemptStatuses
    BY DEF AttemptStatuses
  <2>2. {"ok", "error"} \subseteq AttemptStatuses
    BY DEF AttemptStatuses
  <2>3. {"job", "pbs", "drill"} = Kinds
    BY DEF Kinds
  <2> HIDE DEF AttemptStatuses
  <2> QED BY <1>10, <2>3, <2>1, <2>2, <1>9 DEF FinishJob, FinishTargets, FinishDrill
<1> QED BY <1>1, <1>2, <1>3, <1>4, <1>5, <1>6, <1>7, <1>8, <1>10
        DEF TickStep, PassJob, PassTargets, PassDrill, JobNoLongerDue, TargetsNoLongerDue,
            DrillNoLongerDue, StartJob, StartTargets, StartDrill, Kinds

LEMMA TypesStep ==
    ASSUME DueTypes, DueNext
    PROVE  DueTypes'
<1>1. CASE KillTick
  BY <1>1 DEF KillTick, DueTypes, schedVars, pauseVars
<1>2. ASSUME NEW i \in Items, ManualStart(i)
      PROVE  DueTypes'
  <2>1. attempt' \in [Items -> AttemptRecord]
    <3>1. NoAttempt \in AttemptRecord
      BY Settings DEF NoAttempt, AttemptRecord, AttemptStatuses, Times, Never
    <3>2. attempt \in [Items -> AttemptRecord]
      BY DEF DueTypes
    <3>3. CASE i = "pbs"
      BY <1>2, <3>1, <3>2, <3>3 DEF ManualStart
    <3>4. CASE i # "pbs"
      BY <1>2, <3>4, RecoveredTyped DEF ManualStart
    <3> QED BY <3>3, <3>4
  <2>2. /\ starts' = [k \in Items |-> starts'[k]]
        /\ \A k \in Items : starts'[k] \in [Occurs[k] -> Nat]
    <3>1. /\ starts = [k \in Items |-> starts[k]]
          /\ \A k \in Items : starts[k] \in [Occurs[k] -> Nat]
      BY DEF DueTypes
    <3>2. CASE i = "pbs"
      <4>1. starts' = [starts EXCEPT ![i] = [o \in Occurs[i] |-> 0]]
        BY <1>2, <3>2 DEF ManualStart
      <4>2. [o \in Occurs[i] |-> 0] \in [Occurs[i] -> Nat]
        OBVIOUS
      <4>3. starts' = [k \in Items |-> IF k = i THEN [o \in Occurs[i] |-> 0] ELSE starts[k]]
        BY <3>1, <4>1
      <4> QED BY <3>1, <4>2, <4>3
    <3>3. CASE i # "pbs"
      BY <1>2, <3>1, <3>3 DEF ManualStart
    <3> QED BY <3>2, <3>3
  <2>3. manual' = i /\ UNCHANGED <<clock, success, tickVars, pauseVars, alarmVars>>
    BY <1>2 DEF ManualStart
  <2> QED BY <2>1, <2>2, <2>3 DEF DueTypes, tickVars, pauseVars, alarmVars
<1>3. CASE ManualEnd
  <2>1. clock \in Times /\ success \in [Items -> Times]
    BY Settings DEF DueTypes, Times, Never
  <2>2. success' \in [Items -> Times]
    BY <1>3, <2>1 DEF ManualEnd
  <2> QED BY <1>3, <2>2 DEF ManualEnd, DueTypes, tickVars, pauseVars, alarmVars, dueBounds
<1>4. CASE PauseScheduler
  <2>1. pause' \in Times
    BY <1>4, Settings DEF PauseScheduler, DueTypes, Times, Never
  <2> QED BY <1>4, <2>1 DEF PauseScheduler, DueTypes, schedVars, tickVars, alarmVars
<1>5. CASE ResumeScheduler
  BY <1>5, Settings DEF ResumeScheduler, DueTypes, schedVars, tickVars, alarmVars, dueBounds
<1>6. CASE RequestReadsExpired
  BY <1>6 DEF RequestReadsExpired, DueTypes, schedVars, tickVars, alarmVars, dueBounds
<1>7. CASE RequestDropsPause
  BY <1>7, Settings DEF RequestDropsPause, DueTypes, schedVars, tickVars, alarmVars, dueBounds
<1>8. CASE Minute
  <2>1. clock' \in 0 .. MaxClock
    BY <1>8, Settings DEF Minute, DueTypes
  <2> QED BY <1>8, <2>1 DEF Minute, DueTypes, schedVars, tickVars, pauseVars, alarmVars, dueBounds
<1> QED BY <1>1, <1>2, <1>3, <1>4, <1>5, <1>6, <1>7, <1>8, TickTypes DEF DueNext

LEMMA TypesStutter ==
    ASSUME DueTypes, UNCHANGED dueVars
    PROVE  DueTypes'
BY DEF dueVars, DueTypes, schedVars, tickVars, pauseVars, alarmVars

LEMMA TypesAlways == DueSpec => []DueTypes
<1>1. DueInit => DueTypes
  BY InitTypes
<1>2. DueTypes /\ [DueNext]_dueVars => DueTypes'
  BY TypesStep, TypesStutter
<1> QED BY <1>1, <1>2, PTL DEF DueSpec

(* Every variable of the scheduler keeps its type: times lie between Never *)
(* and the horizon, an attempt has one of five states, and a start is      *)
(* counted at an occurrence of its item (scheduler.py, scheduler_cli.py).  *)
THEOREM SchedulerTypesHold == DueSpec => []DueTypeOK
<1>1. DueTypes => DueTypeOK
  BY TypesAreKnown
<1> QED BY <1>1, TypesAlways, PTL

(***************************************************************************)
(* The alarm.                                                              *)
(***************************************************************************)

(* An alarm noted at t: the last success was too old then, unless there    *)
(* has been one since.                                                     *)
WasOverdue(t) == success["job"] < t => success["job"] = Never \/ t - success["job"] > MaxAge

(* How many alarms were noted since the last one that was sent.            *)
Noted == IF tickAt = "send" THEN alarmsLost + 1 ELSE alarmsLost

AlarmInvariant ==
    /\ DueTypes
    /\ success["job"] <= clock /\ overdueSent <= clock /\ alarmedAt <= clock
    /\ overdueSent # Never => WasOverdue(overdueSent)
    /\ alarmedAt # Never => WasOverdue(alarmedAt)
    /\ tickAt = "send" => overdueSent # Never
    /\ alarmedAt # Never /\ success["job"] < alarmedAt =>
          /\ overdueSent # Never
          /\ overdueSent - alarmedAt >= Repeat * Noted
    /\ tickAt # "send" /\ alarmsLost = 0 /\ overdueSent # Never => alarmedAt = overdueSent

LEMMA InitAlarm ==
    ASSUME DueInit
    PROVE  AlarmInvariant
<1>1. success["job"] \in {0, Never} /\ clock = 0 /\ tickAt = "idle"
      /\ overdueSent = Never /\ alarmedAt = Never /\ alarmsLost = 0
  BY Settings DEF DueInit
<1> QED BY <1>1, InitTypes, Settings DEF AlarmInvariant

(* Steps that touch neither the alarm nor the last success.                *)
LEMMA AlarmUntouched ==
    ASSUME AlarmInvariant, DueTypes', UNCHANGED <<clock, success, alarmVars>>,
           tickAt' = "send" <=> tickAt = "send"
    PROVE  AlarmInvariant'
<1>1. Noted' = Noted
  BY DEF Noted, alarmVars
<1> QED BY <1>1 DEF AlarmInvariant, WasOverdue, alarmVars

(* A success of now leaves every noted alarm behind.                       *)
LEMMA AlarmAfterSuccess ==
    ASSUME AlarmInvariant, DueTypes', UNCHANGED <<clock, alarmVars>>,
           success'["job"] \in {success["job"], clock}, tickAt' = "send" <=> tickAt = "send"
    PROVE  AlarmInvariant'
<1>1. /\ clock \in Nat /\ success["job"] \in Int /\ overdueSent \in Int /\ alarmedAt \in Int
      /\ MaxAge \in Nat /\ Never = -1
  BY Settings DEF AlarmInvariant, DueTypes, Times, Never
<1>2. UNCHANGED <<clock, overdueSent, alarmedAt, alarmsLost, Noted>>
  BY DEF alarmVars, Noted
<1>3. CASE success'["job"] = success["job"]
  BY <1>2, <1>3 DEF AlarmInvariant, WasOverdue
<1>4. CASE success'["job"] = clock
  <2>1. ~(success'["job"] < overdueSent') /\ ~(success'["job"] < alarmedAt')
    BY <1>1, <1>2, <1>4 DEF AlarmInvariant
  <2> QED BY <1>1, <1>2, <1>4, <2>1 DEF AlarmInvariant, WasOverdue
<1> QED BY <1>3, <1>4

(* One more repeat period.                                                 *)
LEMMA OneMorePeriod ==
    ASSUME NEW n \in Nat
    PROVE  /\ Repeat * n \in Nat /\ Repeat * (n + 1) \in Nat
           /\ Repeat * (n + 1) = Repeat * n + Repeat
           /\ Repeat * 0 = 0
BY Settings

LEMMA AlarmStep ==
    ASSUME AlarmInvariant, [DueNext]_dueVars
    PROVE  AlarmInvariant'
<1>0. DueTypes /\ DueTypes'
  BY TypesStep, TypesStutter DEF AlarmInvariant
<1>1. /\ clock \in Nat /\ success["job"] \in Int /\ overdueSent \in Int /\ alarmedAt \in Int
      /\ MaxAge \in Nat /\ Repeat \in Nat /\ Never = -1 /\ alarmsLost \in Nat
  BY <1>0, Settings DEF DueTypes, Times, Never
<1>2. CASE BeginTick
  <2>1. UNCHANGED <<clock, success, alarmedAt, alarmsLost>> /\ tickAt = "idle"
    BY <1>2 DEF BeginTick
  <2>2. CASE AlarmDue /\ overdueSent' = clock /\ tickAt' = "send"
    <3>1. IsOverdue /\ (overdueSent = Never \/ clock - overdueSent >= Repeat)
      BY <2>2 DEF AlarmDue
    <3>2. alarmedAt # Never /\ success["job"] < alarmedAt =>
             clock - alarmedAt >= Repeat * (alarmsLost + 1)
      <4> SUFFICES ASSUME alarmedAt # Never, success["job"] < alarmedAt
                   PROVE  clock - alarmedAt >= Repeat * (alarmsLost + 1)
        OBVIOUS
      <4>1. overdueSent - alarmedAt >= Repeat * alarmsLost /\ overdueSent # Never
        BY <2>1 DEF AlarmInvariant, Noted
      <4>2. clock - overdueSent >= Repeat
        BY <3>1, <4>1
      <4> QED BY <1>1, <4>1, <4>2, OneMorePeriod
    <3>3. clock # Never /\ WasOverdue(clock)
      BY <1>1, <3>1 DEF IsOverdue, WasOverdue
    <3>4. Noted' = alarmsLost + 1
      BY <2>1, <2>2 DEF Noted
    <3> QED BY <1>0, <1>1, <2>1, <2>2, <3>2, <3>3, <3>4 DEF AlarmInvariant, WasOverdue
  <2>3. CASE overdueSent' = overdueSent /\ tickAt' = "pause"
    <3>1. Noted' = Noted
      BY <2>1, <2>3 DEF Noted
    <3> QED BY <1>0, <2>1, <2>3, <3>1 DEF AlarmInvariant, WasOverdue
  <2>4. CASE ~IsOverdue /\ overdueSent' = Never /\ tickAt' = "pause"
    <3>1. ~(alarmedAt # Never /\ success["job"] < alarmedAt)
      BY <1>1, <2>4 DEF IsOverdue, AlarmInvariant, WasOverdue
    <3> QED BY <1>0, <1>1, <2>1, <2>4, <3>1 DEF AlarmInvariant, WasOverdue
  <2> QED BY <1>2, <2>2, <2>3, <2>4 DEF BeginTick, Go, AlarmDue
<1>3. CASE SendAlarm
  <2>1. /\ tickAt = "send" /\ tickAt' = "pause" /\ UNCHANGED <<clock, success, overdueSent>>
    BY <1>3 DEF SendAlarm, Go, schedVars
  <2>2. CASE alarmedAt' = overdueSent /\ alarmsLost' = 0
    <3>1. Repeat * Noted' = 0
      BY <2>1, <2>2, OneMorePeriod DEF Noted
    <3> QED BY <1>0, <1>1, <2>1, <2>2, <3>1 DEF AlarmInvariant, WasOverdue
  <2>3. CASE alarmedAt' = alarmedAt /\ alarmsLost' = alarmsLost + 1
    <3>1. Noted' = Noted /\ alarmsLost' # 0
      BY <1>1, <2>1, <2>3 DEF Noted
    <3> QED BY <1>0, <2>1, <2>3, <3>1 DEF AlarmInvariant, WasOverdue
  <2> QED BY <1>3, <2>2, <2>3 DEF SendAlarm
<1>4. CASE KillTick
  <2>1. /\ alarmsLost' = Noted /\ tickAt' = "idle"
        /\ UNCHANGED <<clock, success, overdueSent, alarmedAt>>
    BY <1>4 DEF KillTick, schedVars, Noted
  <2>2. Noted' = Noted /\ (alarmsLost' = 0 => tickAt # "send" /\ alarmsLost = 0)
    BY <1>1, <2>1 DEF Noted
  <2> QED BY <1>0, <2>1, <2>2 DEF AlarmInvariant, WasOverdue
<1>5. CASE Minute
  <2>1. /\ clock' = clock + 1
        /\ UNCHANGED <<success, overdueSent, alarmedAt, alarmsLost, tickAt, Noted>>
    BY <1>5 DEF Minute, schedVars, tickVars, alarmVars, Noted
  <2> QED BY <1>0, <1>1, <2>1 DEF AlarmInvariant, WasOverdue
<1>6. ASSUME NEW i \in Kinds, NEW after \in {"pbs", "drill", "idle"}, NEW status,
             NEW moves, FinishDue(i, after, status, moves)
      PROVE  AlarmInvariant'
  <2>1. tickAt # "send" /\ tickAt' # "send"
    BY <1>6 DEF FinishDue, Kinds
  <2>2. success'["job"] \in {success["job"], clock}
    BY <1>0, <1>6, Settings DEF FinishDue, DueTypes
  <2> QED BY <1>0, <1>6, <2>1, <2>2, AlarmAfterSuccess DEF FinishDue
<1>7. CASE FinishJob \/ FinishTargets \/ FinishDrill
  <2>1. {"job", "pbs", "drill"} = Kinds
    BY DEF Kinds
  <2> QED BY <1>6, <1>7, <2>1 DEF FinishJob, FinishTargets, FinishDrill
<1>8. CASE ManualEnd
  <2>1. success'["job"] \in {success["job"], clock}
    BY <1>0, <1>8, Settings DEF ManualEnd, DueTypes
  <2> QED BY <1>0, <1>8, <2>1, AlarmAfterSuccess DEF ManualEnd, tickVars
<1>9. CASE \/ ReadPause \/ TickDropsPause \/ FirstLook
           \/ PassJob \/ JobNoLongerDue \/ StartJob \/ PassTargets \/ TargetsNoLongerDue
           \/ StartTargets \/ PassDrill \/ DrillNoLongerDue \/ StartDrill
  <2>1. UNCHANGED <<clock, success, alarmVars>>
    BY <1>9 DEF ReadPause, TickDropsPause, FirstLook, PassJob, PassTargets, PassDrill, PassBy,
         JobNoLongerDue, TargetsNoLongerDue, DrillNoLongerDue, NoLongerDue,
         StartJob, StartTargets, StartDrill, StartDue, schedVars
  <2>2. tickAt # "send" /\ tickAt' # "send"
    BY <1>9 DEF ReadPause, TickDropsPause, FirstLook, PassJob, PassTargets, PassDrill, PassBy,
         JobNoLongerDue, TargetsNoLongerDue, DrillNoLongerDue, NoLongerDue,
         StartJob, StartTargets, StartDrill, StartDue, Turn, Go
  <2> QED BY <1>0, <2>1, <2>2, AlarmUntouched
<1>10. CASE \/ \E i \in Items \ {"drill"} : ManualStart(i)
            \/ PauseScheduler \/ ResumeScheduler \/ RequestReadsExpired
            \/ RequestDropsPause \/ UNCHANGED dueVars
  <2>1. UNCHANGED <<clock, success, alarmVars, tickAt>>
    BY <1>10 DEF ManualStart, PauseScheduler, ResumeScheduler, RequestReadsExpired,
         RequestDropsPause, dueVars, schedVars, tickVars
  <2> QED BY <1>0, <2>1, AlarmUntouched
<1> QED BY <1>2, <1>3, <1>4, <1>5, <1>7, <1>8, <1>9, <1>10 DEF DueNext, TickStep

LEMMA AlarmAlways == DueSpec => []AlarmInvariant
<1>1. DueInit => AlarmInvariant
  BY InitAlarm
<1>2. AlarmInvariant /\ [DueNext]_dueVars => AlarmInvariant'
  BY AlarmStep
<1> QED BY <1>1, <1>2, PTL DEF DueSpec

(* In one outage every alarm that is noted and lost, to a killed tick or to *)
(* a failure of the outbox that notify swallows, costs a repeat period, and *)
(* so does the next one that is sent; and what is noted was sent unless     *)
(* such a loss explains it (check_overdue, overdue_alerts, notify).         *)
THEOREM AlarmsKeepTheirRhythm == DueSpec => []AlarmRhythm
<1>1. AlarmInvariant => AlarmRhythm
  BY DEF AlarmInvariant, AlarmRhythm, Noted
<1> QED BY <1>1, AlarmAlways, PTL

(***************************************************************************)
(* One start for each slot.                                                *)
(***************************************************************************)

Started(i) == {q \in Occurs[i] : starts[i][q] > 0}
SlotBehind(i, q, t) == \A r \in Occurs[i] : SlotKey(r) = SlotKey(q) => r <= t

(* One of the tick and the web process at a time works in a scope.         *)
TurnsAlone ==
    /\ working # Nothing => tickAt = working /\ attempt[working].status = "running"
    /\ manual # Nothing => \A i \in Items : Scope(i) = Scope(manual) =>
          attempt[i].status # "running" /\ working # i

(* A good attempt moved the cursor, one that runs has not yet.             *)
TimesOK(i) ==
    /\ attempt[i].at <= clock /\ success[i] <= clock
    /\ attempt[i].status = "ok" => success[i] >= attempt[i].at
    /\ attempt[i].status = "running" => attempt[i].at > success[i]
    /\ attempt[i].status = "none" => attempt[i].slot = Never

(* A slot that was started is the one of the last attempt, or all its      *)
(* occurrences lie behind that attempt.                                    *)
SlotsOK(i) ==
    /\ \A q \in Started(i) :
          /\ attempt[i].status # "none" /\ q <= attempt[i].at
          /\ attempt[i].slot = SlotKey(q) \/ SlotBehind(i, q, attempt[i].at)
          /\ attempt[i].slot = SlotKey(q) /\ Failing(i) => success[i] < q
    /\ attempt[i].slot \in Nat =>
          \E q \in Occurs[i] : SlotKey(q) = attempt[i].slot /\ q <= attempt[i].at

(* The failing slot q was next after the last success, or next after a     *)
(* repeated slot whose first occurrence that success covers.               *)
NextInLine(i, q) ==
    \/ q = NextAfter(i, success[i])
    \/ \E a, b \in Occurs[i] :
          /\ a < b /\ b < q /\ SlotKey(a) = SlotKey(b) /\ SlotKey(b) # SlotKey(q)
          /\ \A r \in Occurs[i] : b < r /\ r < q => SlotKey(r) = SlotKey(b)

LineOK(i) == \A q \in Started(i) :
    Failing(i) /\ attempt[i].slot = SlotKey(q) /\ success[i] # Never => NextInLine(i, q)

ItemOK(i) == TimesOK(i) /\ SlotsOK(i) /\ LineOK(i)
StartInvariant == DueTypes /\ TurnsAlone /\ \A i \in Items : ItemOK(i)

Calendar == SlotsAdjacent /\ RepeatsApart /\ RepeatsWithinGrace

LEMMA ItemFacts ==
    ASSUME DueTypes, NEW i \in Items
    PROVE  /\ attempt[i] \in AttemptRecord /\ attempt[i].at \in Int /\ attempt[i].slot \in Int
           /\ attempt[i].status \in AttemptStatuses
           /\ success[i] \in Int /\ (success[i] = Never \/ success[i] \in Nat)
           /\ clock \in Nat /\ clock <= MaxClock
           /\ \A q \in Occurs[i] : starts[i][q] \in Nat
<1>1. attempt[i] \in AttemptRecord /\ success[i] \in Times /\ clock \in 0 .. MaxClock
      /\ starts[i] \in [Occurs[i] -> Nat]
  BY DEF DueTypes
<1> QED BY <1>1, Settings DEF AttemptRecord, Times, Never

(* With adjacent occurrences the last repetition is the last of the slot.  *)
LEMMA LastOfSlot ==
    ASSUME SlotsAdjacent, NEW i \in Items, NEW o \in Occurs[i], NEW r \in Occurs[i],
           SlotKey(r) = SlotKey(o)
    PROVE  r <= SameSlot(i, o)
<1>1. SameSlot(i, o) \in Nat /\ SameSlot(i, o) >= o /\ o \in Nat /\ r \in Nat
  BY SameSlotFacts, Settings
<1>2. CASE r <= o
  BY <1>1, <1>2
<1>3. CASE r >= o
  <2>1. \A t \in Occurs[i] : o <= t /\ t <= r => SlotKey(t) = SlotKey(o)
    BY DEF SlotsAdjacent
  <2>2. r \in Repeats(i, o)
    BY <1>3, <2>1 DEF Repeats
  <2> QED BY <2>2, SameSlotFacts
<1> QED BY <1>1, <1>2, <1>3

(* What lies between a slot and the next one repeats the slot.             *)
LEMMA NextSlot ==
    ASSUME SlotsAdjacent, NEW i \in Items, NEW o \in Occurs[i],
           NextDistinct(i, o) <= MaxClock
    PROVE  LET n == NextDistinct(i, o)
           IN  /\ n \in Occurs[i] /\ o < n /\ SlotKey(n) # SlotKey(o)
               /\ \A r \in Occurs[i] : SlotKey(r) = SlotKey(o) => r < n
               /\ \A r \in Occurs[i] : o < r /\ r < n => SlotKey(r) = SlotKey(o)
<1> DEFINE n == NextDistinct(i, o)
<1> DEFINE l == SameSlot(i, o)
<1>1. l \in Occurs[i] /\ l \in Nat /\ l >= o /\ o \in Nat /\ SlotKey(l) = SlotKey(o)
  BY SameSlotFacts, Settings
<1>2. n \in Nat /\ n \in Occurs[i] /\ n > l /\ \A r \in Occurs[i] : r > l => n <= r
  BY <1>1, NextOccurrence DEF NextDistinct
<1>3. \A r \in Occurs[i] : SlotKey(r) = SlotKey(o) => r <= l /\ r \in Nat
  BY LastOfSlot, Settings
<1>4. SlotKey(n) # SlotKey(o)
  BY <1>1, <1>2, <1>3
<1>5. \A r \in Occurs[i] : o < r /\ r < n => SlotKey(r) = SlotKey(o)
  <2> SUFFICES ASSUME NEW r \in Occurs[i], o < r, r < n
               PROVE  SlotKey(r) = SlotKey(o)
    OBVIOUS
  <2>1. r \in Nat /\ r <= l
    BY <1>1, <1>2, Settings
  <2> QED BY <1>1, <2>1 DEF SlotsAdjacent
<1> HIDE DEF n, l
<1> QED BY <1>1, <1>2, <1>3, <1>4, <1>5 DEF n

(* While a repetition of an attempted slot is to come, nothing is started. *)
LEMMA HeldWhileRepeats ==
    ASSUME DueTypes, SlotsAdjacent, NEW i \in Items, Duplicate(i, clock),
           NEW r \in Occurs[i], SlotKey(r) = SlotKey(Occurrence(i, clock)), r > clock
    PROVE  HeldBack(i, clock)
<1> DEFINE o == Occurrence(i, clock)
<1>1. o \in Occurs[i] /\ o <= clock /\ o \in Nat /\ clock \in Nat /\ clock <= MaxClock /\ r \in Nat
  BY DueHasCome, ItemFacts, Settings DEF Duplicate
<1>2. r <= SameSlot(i, o) /\ SameSlot(i, o) \in Nat
  BY <1>1, LastOfSlot, SameSlotFacts, Settings
<1>3. NextDistinct(i, o) \in Nat
  BY <1>2, NextOccurrence DEF NextDistinct
<1>4. clock < NextDistinct(i, o)
  <2>1. CASE NextDistinct(i, o) <= MaxClock
    <3>1. r < NextDistinct(i, o)
      BY <1>1, <2>1, NextSlot
    <3> QED BY <1>1, <1>3, <3>1
  <2>2. CASE ~(NextDistinct(i, o) <= MaxClock)
    BY <1>1, <1>3, <2>2, Settings
  <2> QED BY <2>1, <2>2
<1>5. SameSlot(i, o) # o /\ ~(clock >= SameSlot(i, o) + 1)
  BY <1>1, <1>2
<1> QED BY <1>4, <1>5 DEF HeldBack

(* A retry leaves no repetition of the failed slot to come.                *)
LEMMA RetryLeavesSlotBehind ==
    ASSUME DueTypes, Calendar, NEW i \in Items, ItemOK(i),
           RetryDue(i, clock), ~HeldBack(i, clock),
           NEW q \in Started(i), attempt[i].slot = SlotKey(q)
    PROVE  SlotBehind(i, q, clock)
<1> DEFINE o == Occurrence(i, clock)
<1>1. q \in Occurs[i] /\ q \in Nat /\ clock \in Nat /\ clock <= MaxClock /\ success[i] \in Int
      /\ attempt[i].at \in Int /\ (success[i] = Never \/ success[i] \in Nat)
  BY ItemFacts, Settings DEF Started
<1>2. Failing(i) /\ success[i] < q /\ q <= clock
  BY <1>1 DEF RetryDue, ItemOK, SlotsOK, TimesOK
<1> SUFFICES ASSUME NEW r \in Occurs[i], SlotKey(r) = SlotKey(q), r > clock
             PROVE  FALSE
  <2>1. \A r \in Occurs[i] : r \in Nat
    BY Settings
  <2> QED BY <1>1, <2>1 DEF SlotBehind
<1>3. r \in Nat /\ r <= MaxClock
  BY Settings
<1>4. ASSUME DueSlot(i, clock), SlotKey(o) = SlotKey(q)
      PROVE  FALSE
  <2>1. Duplicate(i, clock)
    BY <1>4 DEF Duplicate
  <2> QED BY <1>4, <2>1, HeldWhileRepeats DEF Calendar
<1>5. CASE success[i] = Never
  <2>1. o \in Occurs[i] /\ o \in Nat /\ o <= clock /\ q <= o
        /\ \A t \in Occurs[i] : t <= clock => t <= o
    BY <1>1, <1>2, <1>5, LastOccurrence, Settings DEF Occurrence
  <2>2. SlotKey(o) = SlotKey(q)
    BY <1>1, <1>3, <2>1 DEF Calendar, SlotsAdjacent
  <2> DEFINE n == NextAfter(i, o)
  <2>3. n \in Nat /\ n <= r /\ n \in Occurs[i] /\ n > o
        /\ \A t \in Occurs[i] : t > o => n <= t
    BY <1>1, <1>3, <2>1, Settings, NextOccurrence
  <2>4. SlotKey(n) = SlotKey(o)
    BY <1>1, <1>3, <2>1, <2>2, <2>3 DEF Calendar, SlotsAdjacent
  <2>5. n > clock
    BY <1>1, <2>1, <2>3
  <2>6. \A t \in Occurs[i] : t <= o \/ n <= t
    <3>1. \A t \in Occurs[i] : t \in Nat
      BY Settings
    <3> QED BY <2>1, <2>3, <3>1
  <2> HIDE DEF o, n
  <2>7. OnFirstTick(i) \/ n - o <= Grace + 1
    BY <2>1, <2>3, <2>4, <2>6 DEF Calendar, RepeatsWithinGrace
  <2>8. OnFirstTick(i) \/ clock - o <= Grace
    BY <1>1, <2>1, <2>3, <2>5, <2>7, Settings
  <2>9. DueSlot(i, clock)
    BY <1>5, <2>8 DEF DueSlot, o
  <2> QED BY <1>4, <2>2, <2>9
<1>6. CASE success[i] # Never
  <2>1. o = NextAfter(i, success[i])
    BY <1>6 DEF Occurrence
  <2>2. o \in Nat /\ o <= q /\ o \in Occurs[i]
    BY <1>1, <1>2, <2>1, Settings, NextOccurrence
  <2>3. DueSlot(i, clock)
    BY <1>1, <1>2, <1>6, <2>2 DEF DueSlot
  <2>4. CASE SlotKey(o) # SlotKey(q)
    <3>1. NextInLine(i, q) /\ q # NextAfter(i, success[i])
      BY <1>2, <1>6, <2>1, <2>4 DEF ItemOK, LineOK
    <3>2. PICK a \in Occurs[i], b \in Occurs[i] :
             /\ a < b /\ b < q /\ SlotKey(a) = SlotKey(b) /\ SlotKey(b) # SlotKey(q)
             /\ \A t \in Occurs[i] : b < t /\ t < q => SlotKey(t) = SlotKey(b)
      BY <3>1 DEF NextInLine
    <3>3. q < r
      BY <1>1, <1>2, <1>3
    <3>4. \E t \in Occurs[i] : b < t /\ t < q /\ SlotKey(t) \notin {SlotKey(b), SlotKey(q)}
      BY <1>1, <3>2, <3>3 DEF Calendar, RepeatsApart
    <3> QED BY <3>2, <3>4
  <2> QED BY <1>4, <2>3, <2>4
<1> QED BY <1>5, <1>6

(* Without a failure the last attempt is covered by a success.             *)
LEMMA AttemptCovered ==
    ASSUME DueTypes, NEW i \in Items, TimesOK(i), ~Failing(i), attempt[i].status # "none"
    PROVE  success[i] >= attempt[i].at
<1>1. attempt[i].status = "ok" \/ ~(attempt[i].at > success[i])
  BY DEF Failing
<1> QED BY <1>1, ItemFacts DEF TimesOK

(* The occurrence a start by cron is for.                                  *)
LEMMA CronOccurrence ==
    ASSUME DueTypes, SlotsAdjacent, NEW i \in Items,
           ~Failing(i), ~HeldBack(i, clock), DueSlot(i, clock)
    PROVE  LET o == Occurrence(i, clock)
               p == StartedFor(i, clock)
           IN  /\ o \in Occurs[i] /\ p \in Occurs[i] /\ o <= p /\ p <= clock /\ success[i] < o
               /\ attempt[i].slot # SlotKey(p)
               /\ Duplicate(i, clock) => o < p /\ p = NextDistinct(i, o)
               /\ ~Duplicate(i, clock) => p = o
<1> DEFINE o == Occurrence(i, clock)
<1>1. o \in Occurs[i] /\ o <= clock /\ success[i] < o /\ o \in Nat /\ clock \in Nat
      /\ clock <= MaxClock
  BY DueHasCome, ItemFacts, Settings
<1>2. CASE Duplicate(i, clock)
  <2>1. StartedFor(i, clock) = NextDistinct(i, o) /\ attempt[i].slot = SlotKey(o)
    BY <1>2 DEF StartedFor, Duplicate
  <2>2. ~(clock < NextDistinct(i, o))
    BY <1>2 DEF HeldBack, RetryDue
  <2>3. NextDistinct(i, o) \in Nat
    BY <1>1, SameSlotFacts, NextOccurrence, Settings DEF NextDistinct
  <2>4. NextDistinct(i, o) <= clock /\ NextDistinct(i, o) <= MaxClock
    BY <1>1, <2>2, <2>3, Settings
  <2> QED BY <1>1, <1>2, <2>1, <2>3, <2>4, NextSlot
<1>3. CASE ~Duplicate(i, clock)
  <2>1. StartedFor(i, clock) = o /\ attempt[i].slot # SlotKey(o)
    BY <1>3 DEF StartedFor, Duplicate
  <2> QED BY <1>1, <1>3, <2>1
<1> QED BY <1>2, <1>3

(* No occurrence of its slot was started.                                  *)
LEMMA CronIsFresh ==
    ASSUME DueTypes, SlotsAdjacent, NEW i \in Items, ItemOK(i),
           ~Failing(i), ~HeldBack(i, clock), DueSlot(i, clock), NEW q \in Started(i)
    PROVE  SlotKey(q) # SlotKey(StartedFor(i, clock))
<1> DEFINE p == StartedFor(i, clock)
<1>1. p \in Occurs[i] /\ p \in Nat /\ success[i] < p /\ attempt[i].slot # SlotKey(p)
  <2>1. Occurrence(i, clock) \in Nat /\ success[i] \in Int
        /\ \A t \in Occurs[i] : t \in Nat
    BY CronOccurrence, ItemFacts, Settings
  <2> QED BY <2>1, CronOccurrence
<1> SUFFICES ASSUME SlotKey(q) = SlotKey(p)
             PROVE  FALSE
  OBVIOUS
<1>2. attempt[i].status # "none" /\ SlotBehind(i, q, attempt[i].at)
  BY <1>1 DEF ItemOK, SlotsOK
<1>3. p <= attempt[i].at
  BY <1>1, <1>2 DEF SlotBehind
<1>4. success[i] >= attempt[i].at
  BY <1>2, AttemptCovered DEF ItemOK
<1> QED BY <1>1, <1>3, <1>4, ItemFacts

(* A start by cron leaves no repetition of an earlier one to come.         *)
LEMMA CronLeavesSlotsBehind ==
    ASSUME DueTypes, SlotsAdjacent, NEW i \in Items, ItemOK(i),
           ~Failing(i), ~HeldBack(i, clock), DueSlot(i, clock), NEW q \in Started(i)
    PROVE  SlotBehind(i, q, clock)
<1> DEFINE o == Occurrence(i, clock)
<1>1. /\ q \in Occurs[i] /\ q \in Nat /\ clock \in Nat /\ success[i] \in Int
      /\ attempt[i].at \in Int /\ attempt[i].at <= clock /\ Never = -1
  BY ItemFacts, Settings DEF Started, ItemOK, TimesOK
<1> SUFFICES ASSUME NEW r \in Occurs[i], SlotKey(r) = SlotKey(q), ~(r <= clock)
             PROVE  FALSE
  BY DEF SlotBehind
<1>2. r \in Nat /\ r > clock
  BY <1>1, Settings
<1>3. CASE attempt[i].slot # SlotKey(q)
  <2>1. r <= attempt[i].at
    BY <1>3 DEF ItemOK, SlotsOK, SlotBehind
  <2> QED BY <1>1, <1>2, <2>1
<1>4. CASE attempt[i].slot = SlotKey(q)
  <2>1. success[i] >= attempt[i].at /\ q <= attempt[i].at
    BY AttemptCovered DEF ItemOK, SlotsOK
  <2>2. o \in Occurs[i] /\ o \in Nat /\ o <= clock /\ success[i] < o
    BY DueHasCome, Settings
  <2>3. SlotKey(o) = SlotKey(q)
    BY <1>1, <1>2, <2>1, <2>2 DEF SlotsAdjacent
  <2>4. Duplicate(i, clock)
    BY <1>4, <2>3 DEF Duplicate
  <2> HIDE DEF o
  <2> QED BY <1>2, <2>3, <2>4, HeldWhileRepeats DEF o
<1> QED BY <1>3, <1>4

(* A start by cron is next in line.                                        *)
LEMMA CronInLine ==
    ASSUME DueTypes, SlotsAdjacent, NEW i \in Items, ItemOK(i), success[i] # Never,
           ~Failing(i), ~HeldBack(i, clock), DueSlot(i, clock)
    PROVE  NextInLine(i, StartedFor(i, clock))
<1> DEFINE o == Occurrence(i, clock)
<1> DEFINE p == StartedFor(i, clock)
<1>1. o = NextAfter(i, success[i])
  BY DEF Occurrence
<1>2. CASE ~Duplicate(i, clock)
  BY <1>1, <1>2 DEF StartedFor, NextInLine
<1>3. CASE Duplicate(i, clock)
  <2>1. o \in Occurs[i] /\ o < p /\ p = NextDistinct(i, o) /\ p <= clock /\ success[i] < o
    BY <1>3, CronOccurrence
  <2>2. attempt[i].slot = SlotKey(o) /\ SlotKey(o) \in Nat /\ clock <= MaxClock
        /\ clock \in Nat /\ p \in Nat /\ o \in Nat /\ success[i] \in Int /\ attempt[i].at \in Int
    BY <1>3, <2>1, KeyOfOccurrence, ItemFacts, CronOccurrence, Settings DEF Duplicate
  <2>3. PICK a \in Occurs[i] : SlotKey(a) = SlotKey(o) /\ a <= attempt[i].at
    BY <2>2 DEF ItemOK, SlotsOK
  <2>4. attempt[i].status # "none"
    BY <2>2, Settings DEF ItemOK, TimesOK
  <2>5. a < o
    <3>1. success[i] >= attempt[i].at /\ a \in Nat
      BY <2>4, AttemptCovered, Settings DEF ItemOK
    <3> QED BY <2>1, <2>2, <2>3, <3>1
  <2>6. SlotKey(p) # SlotKey(o) /\ \A r \in Occurs[i] : o < r /\ r < p => SlotKey(r) = SlotKey(o)
    <3>1. NextDistinct(i, o) <= MaxClock
      BY <2>1, <2>2, Settings
    <3> QED BY <2>1, <3>1, NextSlot
  <2> HIDE DEF o, p
  <2> QED BY <2>1, <2>3, <2>5, <2>6 DEF NextInLine, p
<1> QED BY <1>2, <1>3

(***************************************************************************)
(* What a step does to an item.                                            *)
(***************************************************************************)

LEMMA ItemUntouched ==
    ASSUME DueTypes, NEW i \in Items, ItemOK(i), clock' \in {clock, clock + 1},
           attempt'[i] = attempt[i], success'[i] = success[i], starts'[i] = starts[i]
    PROVE  ItemOK(i)'
<1>1. TimesOK(i)'
  BY ItemFacts DEF ItemOK, TimesOK
<1>2. SlotsOK(i)' /\ LineOK(i)'
  BY DEF ItemOK, SlotsOK, LineOK, Started, Failing, NextInLine
<1> QED BY <1>1, <1>2 DEF ItemOK

(* A running attempt ends, or is found dead.                               *)
LEMMA ItemEnds ==
    ASSUME DueTypes, NEW i \in Items, ItemOK(i), clock' = clock, starts'[i] = starts[i],
           attempt[i].status = "running", attempt'[i].slot = attempt[i].slot,
           attempt'[i].at = clock, attempt'[i].status \in {"ok", "error", "stale"},
           success'[i] = success[i] \/ success'[i] = clock,
           attempt'[i].status = "ok" => success'[i] = clock
    PROVE  ItemOK(i)'
<1>1. /\ clock \in Nat /\ success[i] \in Int /\ attempt[i].at \in Int
      /\ attempt[i].at <= clock /\ success[i] <= clock /\ Failing(i)
  BY ItemFacts DEF ItemOK, TimesOK, Failing
<1>2. TimesOK(i)'
  BY <1>1 DEF TimesOK
<1>3. Failing(i)' => success'[i] = success[i]
  BY <1>1 DEF Failing
<1>4. SlotsOK(i)'
  <2>1. \A q \in Occurs[i] : q \in Nat
    BY Settings
  <2>2. \A q \in Started(i) : SlotBehind(i, q, attempt[i].at) => SlotBehind(i, q, clock)
    BY <1>1, <2>1 DEF SlotBehind
  <2> QED BY <1>1, <1>3, <2>1, <2>2 DEF ItemOK, SlotsOK, Started, SlotBehind
<1>5. LineOK(i)'
  BY <1>1, <1>3 DEF ItemOK, LineOK, Started, NextInLine
<1> QED BY <1>2, <1>4, <1>5 DEF ItemOK

(* A success of a run by hand covers the last attempt.                     *)
LEMMA ItemCovered ==
    ASSUME DueTypes, NEW i \in Items, ItemOK(i), clock' = clock, starts'[i] = starts[i],
           attempt'[i] = attempt[i], attempt[i].status # "running", success'[i] = clock
    PROVE  ItemOK(i)'
<1>1. clock \in Nat /\ attempt[i].at \in Int /\ attempt[i].at <= clock
  BY ItemFacts DEF ItemOK, TimesOK
<1>2. TimesOK(i)' /\ ~Failing(i)'
  BY <1>1 DEF ItemOK, TimesOK, Failing
<1> QED BY <1>2 DEF ItemOK, SlotsOK, LineOK, Started

(* A run by hand of the targets is their last attempt.                     *)
LEMMA ItemForgotten ==
    ASSUME DueTypes, NEW i \in Items, ItemOK(i), clock' = clock, success'[i] = success[i],
           attempt'[i] = NoAttempt, \A q \in Occurs[i] : starts'[i][q] = 0
    PROVE  ItemOK(i)'
<1>1. Started(i)' = {}
  BY DEF Started
<1>2. TimesOK(i)'
  BY ItemFacts, Settings DEF ItemOK, TimesOK, NoAttempt
<1>3. SlotsOK(i)' /\ LineOK(i)'
  BY <1>1, Settings DEF SlotsOK, LineOK, NoAttempt
<1> QED BY <1>2, <1>3 DEF ItemOK

(* A failure is tried again.                                               *)
LEMMA ItemRetried ==
    ASSUME DueTypes, Calendar, NEW i \in Items, ItemOK(i), clock' = clock,
           starts'[i] = starts[i], success'[i] = success[i],
           RetryDue(i, clock), ~HeldBack(i, clock),
           attempt'[i] = [status |-> "running", at |-> clock, slot |-> RetrySlot]
    PROVE  ItemOK(i)'
<1>1. /\ clock \in Nat /\ success[i] \in Int /\ attempt[i].at \in Int
      /\ attempt[i].at <= clock /\ success[i] <= clock /\ Failing(i)
  BY ItemFacts DEF ItemOK, TimesOK, RetryDue
<1>2. attempt[i].at > success[i]
  BY <1>1 DEF Failing
<1>3. TimesOK(i)'
  BY <1>1, <1>2 DEF TimesOK
<1>4. \A q \in Occurs[i] : q \in Nat /\ SlotKey(q) # RetrySlot
  BY KeyOfOccurrence DEF RetrySlot
<1>5. \A q \in Started(i) : q <= clock /\ SlotBehind(i, q, clock)
  <2> SUFFICES ASSUME NEW q \in Started(i)
               PROVE  q <= clock /\ SlotBehind(i, q, clock)
    OBVIOUS
  <2>1. q \in Nat /\ q <= attempt[i].at
    BY <1>4 DEF ItemOK, SlotsOK, Started
  <2>2. CASE attempt[i].slot = SlotKey(q)
    BY <1>1, <2>1, <2>2, RetryLeavesSlotBehind
  <2>3. CASE attempt[i].slot # SlotKey(q)
    <3>1. SlotBehind(i, q, attempt[i].at)
      BY <2>3 DEF ItemOK, SlotsOK
    <3> QED BY <1>1, <1>4, <2>1, <3>1 DEF SlotBehind
  <2> QED BY <2>2, <2>3
<1>6. SlotsOK(i)'
  <2>1. RetrySlot \notin Nat
    BY DEF RetrySlot
  <2> QED BY <1>4, <1>5, <2>1 DEF SlotsOK, Started, SlotBehind
<1>7. LineOK(i)'
  BY <1>4 DEF LineOK, Started
<1> QED BY <1>3, <1>6, <1>7 DEF ItemOK

(* A slot is started by cron.                                              *)
LEMMA ItemStarted ==
    ASSUME DueTypes, DueTypes', Calendar, NEW i \in Items, ItemOK(i), clock' = clock,
           success'[i] = success[i],
           ~Failing(i), ~HeldBack(i, clock), DueSlot(i, clock),
           attempt'[i] = [status |-> "running", at |-> clock,
                          slot |-> SlotKey(StartedFor(i, clock))],
           \A q \in Occurs[i] : q # StartedFor(i, clock) => starts'[i][q] = starts[i][q]
    PROVE  ItemOK(i)'
<1>0. SlotsAdjacent
  BY DEF Calendar
<1>p. PICK p \in Occurs[i] : p = StartedFor(i, clock)
  BY <1>0, CronOccurrence
<1>1. /\ p \in Occurs[i] /\ p \in Nat /\ p <= clock /\ success[i] < p
      /\ clock \in Nat /\ success[i] \in Int /\ success[i] <= clock
  <2>1. /\ Occurrence(i, clock) \in Nat /\ success[i] \in Int /\ clock \in Nat
        /\ \A t \in Occurs[i] : t \in Nat
    BY <1>0, CronOccurrence, ItemFacts, Settings
  <2> QED BY <1>0, <1>p, <2>1, CronOccurrence DEF ItemOK, TimesOK
<1>2. TimesOK(i)'
  BY <1>1 DEF TimesOK
<1>3. Started(i)' \subseteq Started(i) \cup {p}
  BY <1>p DEF Started
<1>4. \A q \in Started(i) : /\ SlotKey(q) # SlotKey(p) /\ SlotBehind(i, q, clock)
                            /\ q \in Occurs[i] /\ q <= clock
  <2>1. \A q \in Started(i) : SlotKey(q) # SlotKey(p) /\ SlotBehind(i, q, clock)
    BY <1>0, <1>p, CronIsFresh, CronLeavesSlotsBehind
  <2> QED BY <2>1 DEF Started, SlotBehind
<1>5. success[i] # Never => NextInLine(i, p)
  BY <1>0, <1>p, CronInLine
<1>6. attempt'[i] = [status |-> "running", at |-> clock, slot |-> SlotKey(p)]
  BY <1>p
<1>7. SlotsOK(i)'
  BY <1>1, <1>3, <1>4, <1>6 DEF SlotsOK, SlotBehind
<1>8. LineOK(i)'
  <2>1. NextInLine(i, p)' <=> NextInLine(i, p)
    BY DEF NextInLine
  <2> QED BY <1>3, <1>4, <1>5, <1>6, <2>1 DEF LineOK
<1> QED BY <1>2, <1>7, <1>8 DEF ItemOK

(***************************************************************************)
(* Every step.                                                             *)
(***************************************************************************)

LEMMA InitStarts ==
    ASSUME DueInit
    PROVE  StartInvariant
<1>1. DueTypes
  BY InitTypes
<1>2. working = Nothing /\ manual = Nothing /\ clock = 0
  BY DEF DueInit
<1>3. ASSUME NEW i \in Items
      PROVE  ItemOK(i)
  <2>1. attempt[i] = NoAttempt /\ success[i] \in {0, Never}
    BY DEF DueInit
  <2>2. Started(i) = {}
    BY DEF DueInit, Started
  <2>3. TimesOK(i)
    BY <1>2, <2>1, Settings DEF TimesOK, NoAttempt
  <2> QED BY <2>1, <2>2, <2>3, Settings DEF ItemOK, SlotsOK, LineOK, NoAttempt
<1> QED BY <1>1, <1>2, <1>3 DEF StartInvariant, TurnsAlone

(* Steps that touch no attempt, no success and no turn.                    *)
LEMMA StartsUntouched ==
    ASSUME StartInvariant, DueTypes', UNCHANGED <<attempt, success, starts, working, manual>>,
           clock' \in {clock, clock + 1}, working = Nothing \/ tickAt' = tickAt
    PROVE  StartInvariant'
<1>1. \A i \in Items : ItemOK(i)'
  BY ItemUntouched DEF StartInvariant
<1>2. TurnsAlone'
  BY DEF StartInvariant, TurnsAlone
<1> QED BY <1>1, <1>2 DEF StartInvariant

(* reconcile_locked_scope.                                                 *)
LEMMA ItemsRecovered ==
    ASSUME StartInvariant, NEW free, attempt' = Recovered(free),
           UNCHANGED <<clock, success, starts>>
    PROVE  \A i \in Items : /\ ItemOK(i)'
                            /\ attempt'[i].status = "running" =>
                                 i \notin free /\ attempt[i].status = "running"
<1> SUFFICES ASSUME NEW i \in Items
             PROVE  /\ ItemOK(i)'
                    /\ attempt'[i].status = "running" =>
                         i \notin free /\ attempt[i].status = "running"
  OBVIOUS
<1>1. DueTypes /\ ItemOK(i) /\ attempt[i] \in AttemptRecord
  BY ItemFacts DEF StartInvariant
<1>2. CASE attempt[i].status = "running" /\ i \in free
  <2>1. attempt'[i] = [attempt[i] EXCEPT !.status = "stale", !.at = clock]
    BY <1>2 DEF Recovered
  <2>2. /\ attempt'[i].slot = attempt[i].slot /\ attempt'[i].at = clock
        /\ attempt'[i].status = "stale"
    BY <1>1, <2>1 DEF AttemptRecord
  <2> QED BY <1>1, <1>2, <2>2, ItemEnds
<1>3. CASE ~(attempt[i].status = "running" /\ i \in free)
  <2>1. attempt'[i] = attempt[i]
    BY <1>3 DEF Recovered
  <2> QED BY <1>1, <1>3, <2>1, ItemUntouched
<1> QED BY <1>2, <1>3

LEMMA FinishKeepsStarts ==
    ASSUME StartInvariant, DueTypes', NEW i \in Kinds, NEW after, NEW moves \in BOOLEAN,
           NEW status \in {"ok", "error"}, status = "ok" => moves,
           FinishDue(i, after, status, moves)
    PROVE  StartInvariant'
<1>1. DueTypes /\ i \in Items /\ attempt \in [Items -> AttemptRecord]
      /\ success \in [Items -> Times] /\ ItemOK(i) /\ working = i /\ Nothing \notin Items
  BY Settings DEF FinishDue, StartInvariant, DueTypes, Nothing, Kinds
<1>2. /\ attempt' = [attempt EXCEPT ![i].status = status, ![i].at = clock]
      /\ success' = IF moves THEN [success EXCEPT ![i] = clock] ELSE success
      /\ UNCHANGED <<clock, starts, manual>> /\ working' = Nothing
  BY DEF FinishDue
<1>3. attempt[i].status = "running"
  BY <1>1 DEF StartInvariant, TurnsAlone
<1>4. /\ attempt'[i].slot = attempt[i].slot /\ attempt'[i].at = clock
      /\ attempt'[i].status = status
  BY <1>1, <1>2 DEF AttemptRecord
<1>5. (success'[i] = success[i] \/ success'[i] = clock) /\ (moves => success'[i] = clock)
  BY <1>1, <1>2
<1>6. ItemOK(i)'
  BY <1>1, <1>2, <1>3, <1>4, <1>5, ItemEnds
<1>7. \A k \in Items \ {i} : attempt'[k] = attempt[k] /\ success'[k] = success[k]
  BY <1>1, <1>2
<1>8. \A k \in Items \ {i} : ItemOK(k)'
  BY <1>1, <1>2, <1>7, ItemUntouched DEF StartInvariant
<1>9. TurnsAlone'
  BY <1>1, <1>2, <1>4, <1>7 DEF StartInvariant, TurnsAlone
<1> QED BY <1>6, <1>8, <1>9 DEF StartInvariant

LEMMA StartKeepsStarts ==
    ASSUME StartInvariant, DueTypes', Calendar, NEW i \in Kinds, StartDue(i)
    PROVE  StartInvariant'
<1>1. DueTypes /\ i \in Items /\ ItemOK(i) /\ attempt \in [Items -> AttemptRecord]
      /\ Free(i) /\ tickAt = i
  BY DEF StartDue, Wanted, Turn, StartInvariant, DueTypes
<1>2. PICK s \in Evaluate(i, clock) :
        /\ attempt' = [attempt EXCEPT ![i] =
             [status |-> "running", at |-> clock, slot |-> s.slot]]
        /\ starts' = IF s.occurrence \in Occurs[i]
                     THEN [starts EXCEPT ![i][s.occurrence] = @ + 1] ELSE starts
  BY DEF StartDue, SecondLook
<1>3. UNCHANGED <<clock, success, tickAt, manual>> /\ working' = i
  BY DEF StartDue
<1>4. attempt'[i] = [status |-> "running", at |-> clock, slot |-> s.slot]
      /\ \A k \in Items \ {i} : attempt'[k] = attempt[k]
  BY <1>1, <1>2
<1>5. \A k \in Items : \A q \in Occurs[k] :
         ~(k = i /\ q = s.occurrence) => starts'[k][q] = starts[k][q]
  BY <1>1, <1>2, StartsCounted
<1>6. \A k \in Items \ {i} : starts'[k] = starts[k]
  <2> SUFFICES ASSUME NEW k \in Items \ {i}
               PROVE  starts'[k] = starts[k]
    OBVIOUS
  <2>1. starts[k] \in [Occurs[k] -> Nat] /\ starts'[k] \in [Occurs[k] -> Nat]
    BY <1>1 DEF DueTypes
  <2> QED BY <1>5, <2>1
<1>7. \A k \in Items \ {i} : ItemOK(k)'
  BY <1>1, <1>3, <1>4, <1>6, ItemUntouched DEF StartInvariant
<1>8. ItemOK(i)'
  <2>1. ~HeldBack(i, clock)
    BY <1>1, <1>2, StartIsRetryOrCron
  <2>2. CASE RetryDue(i, clock) /\ s = [slot |-> RetrySlot, occurrence |-> Never]
    <3>1. starts' = starts /\ s.slot = RetrySlot
      BY <1>1, <1>2, <2>2, Settings DEF RetrySlot
    <3> QED BY <1>1, <1>3, <1>4, <2>1, <2>2, <3>1, ItemRetried
  <2>3. CASE /\ ~Failing(i) /\ DueSlot(i, clock)
             /\ s = [slot |-> SlotKey(StartedFor(i, clock)),
                     occurrence |-> StartedFor(i, clock)]
    <3>1. s.slot = SlotKey(StartedFor(i, clock)) /\ s.occurrence = StartedFor(i, clock)
      BY <2>3
    <3>2. \A q \in Occurs[i] : q # StartedFor(i, clock) => starts'[i][q] = starts[i][q]
      BY <1>1, <1>5, <3>1
    <3>3. attempt'[i] = [status |-> "running", at |-> clock,
                         slot |-> SlotKey(StartedFor(i, clock))]
      BY <1>4, <3>1
    <3> QED BY <1>1, <1>3, <2>1, <2>3, <3>2, <3>3, ItemStarted
  <2> QED BY <1>1, <1>2, <2>2, <2>3, StartIsRetryOrCron
<1>9. TurnsAlone'
  <2>1. attempt'[i].status = "running"
    BY <1>4
  <2> QED BY <1>1, <1>3, <1>4, <2>1 DEF StartInvariant, TurnsAlone, Free
<1> QED BY <1>7, <1>8, <1>9 DEF StartInvariant

LEMMA StartsStep ==
    ASSUME StartInvariant, Calendar, [DueNext]_dueVars
    PROVE  StartInvariant'
<1>0. DueTypes /\ DueTypes'
  BY TypesStep, TypesStutter DEF StartInvariant
<1>1. CASE BeginTick
  <2>1. attempt' = Recovered({i \in Items : Free(i)})
        /\ UNCHANGED <<clock, success, starts, working, manual>> /\ tickAt = "idle"
    BY <1>1 DEF BeginTick, Go
  <2>2. working = Nothing
    <3>1. working \in Items => tickAt \in {"job", "pbs", "drill"}
      BY Settings DEF StartInvariant, TurnsAlone, Kinds
    <3> QED BY <1>0, <2>1, <3>1 DEF DueTypes
  <2>3. \A i \in Items : ItemOK(i)' /\ (attempt'[i].status = "running" =>
                                          attempt[i].status = "running")
    BY <2>1, ItemsRecovered
  <2> QED BY <1>0, <2>1, <2>2, <2>3 DEF StartInvariant, TurnsAlone
<1>2. ASSUME NEW i \in Items \ {"drill"}, ManualStart(i)
      PROVE  StartInvariant'
  <2>1. /\ UNCHANGED <<clock, success, tickAt, working>> /\ manual' = i
        /\ working = Nothing \/ Scope(working) # Scope(i)
    BY <1>2 DEF ManualStart, tickVars
  <2>2. CASE i = "pbs"
    <3>1. /\ attempt' = [attempt EXCEPT ![i] = NoAttempt]
          /\ starts' = [starts EXCEPT ![i] = [o \in Occurs[i] |-> 0]]
      BY <1>2, <2>2 DEF ManualStart
    <3>2. attempt'[i] = NoAttempt /\ starts'[i] = [o \in Occurs[i] |-> 0]
          /\ \A k \in Items \ {i} : attempt'[k] = attempt[k] /\ starts'[k] = starts[k]
      <4>1. attempt \in [Items -> AttemptRecord] /\ starts = [k \in Items |-> starts[k]]
        BY <1>0 DEF DueTypes
      <4> QED BY <3>1, <4>1
    <3>3. ItemOK(i)'
      BY <1>0, <2>1, <3>2, ItemForgotten DEF StartInvariant
    <3>4. \A k \in Items \ {i} : ItemOK(k)'
      BY <1>0, <2>1, <3>2, ItemUntouched DEF StartInvariant
    <3>5. \A k \in Items : Scope(k) = Scope(i) => k = i
      BY <2>2, Settings DEF Scope, Kinds
    <3>6. TurnsAlone'
      <4>1. working # Nothing => working \in Items /\ working # i
        BY <1>0, <2>1 DEF DueTypes
      <4>2. working # Nothing => tickAt = working /\ attempt'[working].status = "running"
        BY <3>2, <4>1 DEF StartInvariant, TurnsAlone
      <4>3. \A k \in Items : Scope(k) = Scope(i) =>
               attempt'[k].status # "running" /\ working # k
        BY <2>1, <3>2, <3>5, <4>1, Settings DEF NoAttempt
      <4> HIDE DEF Scope
      <4> QED BY <2>1, <4>2, <4>3 DEF TurnsAlone
    <3> QED BY <1>0, <3>3, <3>4, <3>6 DEF StartInvariant
  <2>3. CASE i # "pbs"
    <3>1. attempt' = Recovered({k \in Items : Scope(k) = Scope(i)}) /\ UNCHANGED starts
      BY <1>2, <2>3 DEF ManualStart
    <3>2. \A k \in Items : ItemOK(k)' /\ (attempt'[k].status = "running" =>
            Scope(k) # Scope(i) /\ attempt[k].status = "running")
      <4> DEFINE scope == {k \in Items : Scope(k) = Scope(i)}
      <4>1. \A k \in Items : ItemOK(k)' /\ (attempt'[k].status = "running" =>
              k \notin scope /\ attempt[k].status = "running")
        BY <2>1, <3>1, ItemsRecovered
      <4> QED BY <4>1
    <3>3. \A k \in Items : ~(Scope(k) = Scope(i)) => attempt'[k] = attempt[k]
      BY <3>1 DEF Recovered
    <3>4. TurnsAlone'
      <4>1. working # Nothing => working \in Items /\ Scope(working) # Scope(i)
        BY <1>0, <2>1 DEF DueTypes
      <4>2. working # Nothing => tickAt = working /\ attempt'[working].status = "running"
        BY <3>3, <4>1 DEF StartInvariant, TurnsAlone
      <4>3. \A k \in Items : Scope(k) = Scope(i) =>
               attempt'[k].status # "running" /\ working # k
        BY <2>1, <3>2, <4>1, Settings
      <4> HIDE DEF Scope
      <4> QED BY <2>1, <4>2, <4>3 DEF TurnsAlone
    <3> QED BY <1>0, <3>2, <3>4 DEF StartInvariant
  <2> QED BY <2>2, <2>3
<1>3. CASE ManualEnd
  <2>1. /\ UNCHANGED <<clock, attempt, starts, working, tickAt>> /\ manual \in Items
        /\ manual' = Nothing
    BY <1>0, <1>3 DEF ManualEnd, tickVars, DueTypes
  <2>2. success' = success \/ success' = [success EXCEPT ![manual] = clock]
    BY <1>3 DEF ManualEnd
  <2>3. attempt[manual].status # "running"
    BY <1>0, <2>1, Settings DEF StartInvariant, TurnsAlone
  <2>4. ASSUME NEW i \in Items
        PROVE  ItemOK(i)'
    <3>1. success \in [Items -> Times]
      BY <1>0 DEF DueTypes
    <3>2. CASE success'[i] = success[i]
      BY <1>0, <2>1, <3>2, ItemUntouched DEF StartInvariant
    <3>3. CASE success'[i] # success[i]
      <4>1. i = manual /\ success'[i] = clock
        BY <2>2, <3>1, <3>3
      <4> QED BY <1>0, <2>1, <2>3, <4>1, ItemCovered DEF StartInvariant
    <3> QED BY <3>2, <3>3
  <2>5. TurnsAlone'
    BY <2>1 DEF StartInvariant, TurnsAlone
  <2> QED BY <1>0, <2>4, <2>5 DEF StartInvariant
<1>4. CASE StartJob \/ StartTargets \/ StartDrill
  <2>1. {"job", "pbs", "drill"} = Kinds
    BY DEF Kinds
  <2> QED BY <1>0, <1>4, <2>1, StartKeepsStarts DEF StartJob, StartTargets, StartDrill
<1>5. CASE FinishJob \/ FinishTargets \/ FinishDrill
  <2>1. {"job", "pbs", "drill"} = Kinds
    BY DEF Kinds
  <2>2. CASE FinishJob \/ FinishTargets
    <3>1. PICK i \in Kinds, ok \in BOOLEAN :
             FinishDue(i, IF i = "job" THEN "pbs" ELSE "drill", IF ok THEN "ok" ELSE "error", ok)
      BY <2>1, <2>2 DEF FinishJob, FinishTargets
    <3>2. (IF ok THEN "ok" ELSE "error") \in {"ok", "error"}
          /\ ((IF ok THEN "ok" ELSE "error") = "ok" => ok)
      OBVIOUS
    <3> QED BY <1>0, <3>1, <3>2, FinishKeepsStarts
  <2>3. CASE FinishDrill
    <3>1. CASE FinishDue("drill", "idle", "ok", TRUE)
      BY <1>0, <2>1, <3>1, FinishKeepsStarts
    <3>2. ASSUME NEW partial \in BOOLEAN, FinishDue("drill", "idle", "error", partial)
          PROVE  StartInvariant'
      BY <1>0, <2>1, <3>2, FinishKeepsStarts
    <3> QED BY <2>3, <3>1, <3>2 DEF FinishDrill
  <2> QED BY <1>5, <2>2, <2>3
<1>6. CASE KillTick
  <2>1. UNCHANGED <<clock, attempt, success, starts, manual>> /\ working' = Nothing
    BY <1>6 DEF KillTick, schedVars
  <2>2. \A i \in Items : ItemOK(i)'
    BY <1>0, <2>1, ItemUntouched DEF StartInvariant
  <2>3. TurnsAlone'
    BY <2>1, Settings DEF StartInvariant, TurnsAlone
  <2> QED BY <1>0, <2>2, <2>3 DEF StartInvariant
<1>7. CASE SendAlarm \/ ReadPause \/ TickDropsPause \/ FirstLook
  <2>1. UNCHANGED <<attempt, success, starts, working, manual, clock>>
    BY <1>7 DEF SendAlarm, ReadPause, TickDropsPause, FirstLook, Go, schedVars
  <2>2. tickAt \notin Kinds
    BY <1>7 DEF SendAlarm, ReadPause, TickDropsPause, FirstLook, Kinds
  <2>3. working = Nothing
    BY <1>0, <2>2, Settings DEF StartInvariant, TurnsAlone, DueTypes
  <2> QED BY <1>0, <2>1, <2>3, StartsUntouched
<1>8. CASE PassJob \/ PassTargets \/ PassDrill \/ JobNoLongerDue \/ TargetsNoLongerDue
           \/ DrillNoLongerDue
  <2>1. UNCHANGED <<attempt, success, starts, working, manual, clock>> /\ working = Nothing
    BY <1>8 DEF PassJob, PassTargets, PassDrill, PassBy, JobNoLongerDue, TargetsNoLongerDue,
         DrillNoLongerDue, NoLongerDue, Turn, Go, schedVars
  <2> QED BY <1>0, <2>1, StartsUntouched
<1>9. CASE PauseScheduler \/ ResumeScheduler \/ RequestReadsExpired \/ RequestDropsPause
           \/ Minute \/ UNCHANGED dueVars
  <2>1. UNCHANGED <<attempt, success, starts, working, manual, tickAt>>
    BY <1>9 DEF PauseScheduler, ResumeScheduler, RequestReadsExpired, RequestDropsPause,
         Minute, dueVars, schedVars, tickVars
  <2>2. clock' \in {clock, clock + 1}
    BY <1>9 DEF PauseScheduler, ResumeScheduler, RequestReadsExpired, RequestDropsPause,
         Minute, dueVars
  <2> QED BY <1>0, <2>1, <2>2, StartsUntouched
<1> QED BY <1>1, <1>2, <1>3, <1>4, <1>5, <1>6, <1>7, <1>8, <1>9 DEF DueNext, TickStep

(* What a step that counts a start must find.                              *)
LEMMA StartIsFirst ==
    ASSUME StartInvariant, Calendar, DueNext, NEW i \in Items, NEW o \in Occurs[i],
           starts'[i][o] > starts[i][o]
    PROVE  success[i] < o /\ \A q \in Occurs[i] : SlotKey(q) = SlotKey(o) => starts[i][q] = 0
<1>0. /\ DueTypes /\ SlotsAdjacent /\ ItemOK(i) /\ starts[i] \in [Occurs[i] -> Nat]
      /\ starts = [k \in Items |-> starts[k]]
  BY DEF StartInvariant, Calendar, DueTypes
<1>1. ASSUME NEW k \in Kinds, StartDue(k)
      PROVE  success[i] < o /\ \A q \in Occurs[i] : SlotKey(q) = SlotKey(o) => starts[i][q] = 0
  <2>1. k \in Items
    BY <1>0, <1>1 DEF StartDue, Wanted, DueTypes
  <2>2. PICK s \in Evaluate(k, clock) :
          starts' = IF s.occurrence \in Occurs[k]
                    THEN [starts EXCEPT ![k][s.occurrence] = @ + 1] ELSE starts
    BY <1>1 DEF StartDue, SecondLook
  <2>3. s.occurrence \in Occurs[k] /\ starts' = [starts EXCEPT ![k][s.occurrence] = @ + 1]
    BY <1>0, <2>2
  <2>4. k = i /\ o = s.occurrence
    <3>1. ~(i = k /\ o = s.occurrence) => starts'[i][o] = starts[i][o]
      BY <1>0, <2>1, <2>3, StartsCounted
    <3> QED BY <1>0, <3>1
  <2>5. ~(RetryDue(i, clock) /\ s = [slot |-> RetrySlot, occurrence |-> Never])
    BY <2>3, <2>4, Settings
  <2>6. /\ ~Failing(i) /\ ~HeldBack(i, clock) /\ DueSlot(i, clock)
        /\ o = StartedFor(i, clock)
    <3>1. /\ ~HeldBack(i, clock) /\ ~Failing(i) /\ DueSlot(i, clock)
          /\ s = [slot |-> SlotKey(StartedFor(i, clock)),
                  occurrence |-> StartedFor(i, clock)]
      BY <2>2, <2>4, <2>5, StartIsRetryOrCron
    <3> QED BY <2>4, <3>1
  <2>7. success[i] < o
    <3>1. /\ Occurrence(i, clock) \in Nat /\ success[i] \in Int /\ o \in Nat
          /\ success[i] < Occurrence(i, clock) /\ Occurrence(i, clock) <= o
      BY <1>0, <2>6, CronOccurrence, ItemFacts, Settings
    <3> QED BY <3>1
  <2>8. \A q \in Occurs[i] : SlotKey(q) = SlotKey(o) => ~(starts[i][q] > 0)
    BY <1>0, <2>6, CronIsFresh DEF Started
  <2>9. \A q \in Occurs[i] : starts[i][q] \in Nat
    BY <1>0
  <2> QED BY <2>7, <2>8, <2>9
<1>2. ASSUME NEW k \in Items, ManualStart(k)
      PROVE  FALSE
  <2>1. CASE k = "pbs"
    <3>1. starts' = [starts EXCEPT ![k] = [q \in Occurs[k] |-> 0]]
      BY <1>2, <2>1 DEF ManualStart
    <3>2. starts'[i][o] \in {0, starts[i][o]} /\ starts[i][o] \in Nat
      BY <1>0, <3>1
    <3> QED BY <3>2
  <2>2. CASE k # "pbs"
    <3>1. starts' = starts
      BY <1>2, <2>2 DEF ManualStart
    <3> QED BY <1>0, <3>1
  <2> QED BY <2>1, <2>2
<1>3. ASSUME starts' = starts
      PROVE  FALSE
  BY <1>0, <1>3
<1>4. CASE StartJob \/ StartTargets \/ StartDrill
  BY <1>1, <1>4 DEF StartJob, StartTargets, StartDrill, Kinds
<1>5. CASE TickStep /\ ~(StartJob \/ StartTargets \/ StartDrill)
  <2>1. starts' = starts
    BY <1>5 DEF TickStep, BeginTick, SendAlarm, ReadPause, TickDropsPause, FirstLook,
       PassJob, PassTargets, PassDrill, PassBy, JobNoLongerDue, TargetsNoLongerDue,
       DrillNoLongerDue, NoLongerDue, FinishJob, FinishTargets, FinishDrill, FinishDue
  <2> QED BY <1>3, <2>1
<1>6. CASE KillTick \/ ManualEnd \/ PauseScheduler \/ ResumeScheduler
           \/ RequestReadsExpired \/ RequestDropsPause \/ Minute
  <2>1. starts' = starts
    BY <1>6 DEF KillTick, ManualEnd, PauseScheduler, ResumeScheduler, RequestReadsExpired,
       RequestDropsPause, Minute
  <2> QED BY <1>3, <2>1
<1> QED BY <1>2, <1>4, <1>5, <1>6 DEF DueNext

(* Where the occurrences of a slot follow each other, where a slot that    *)
(* comes twice is not next to another one, and where the grace reaches to  *)
(* the repetition, no slot is started by cron twice, whatever fails, is    *)
(* killed, retried or run by hand in between (_evaluate_due,               *)
(* scheduler_cli.main).                                                    *)
THEOREM SlotsStartOnce ==
    ASSUME SlotsAdjacent, RepeatsApart, RepeatsWithinGrace
    PROVE  DueSpec => StartedOnce
<1> DEFINE First == \A i \in Items : \A o \in Occurs[i] : starts'[i][o] > starts[i][o] =>
                       /\ success[i] < o
                       /\ \A q \in Occurs[i] : SlotKey(q) = SlotKey(o) => starts[i][q] = 0
<1>0. Calendar
  BY DEF Calendar
<1>1. DueInit => StartInvariant
  BY InitStarts
<1>2. StartInvariant /\ [DueNext]_dueVars => StartInvariant'
  BY <1>0, StartsStep
<1>3. StartInvariant /\ DueNext => First
  BY <1>0, StartIsFirst
<1>4. StartInvariant /\ [DueNext]_dueVars => [First]_dueVars
  BY <1>3
<1>5. DueSpec => [][First]_dueVars
  BY <1>1, <1>2, <1>4, PTL DEF DueSpec
<1> QED BY <1>5 DEF StartedOnce
=============================================================================
