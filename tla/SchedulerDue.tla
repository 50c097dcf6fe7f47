---------------------------- MODULE SchedulerDue ----------------------------
(***************************************************************************)
(* One tick of the scheduler after the other (scheduler_cli.main, started  *)
(* by the timer), beside the web process: the overdue alarm, the pause,    *)
(* the evaluation of what is due, and under the lock of each scope the     *)
(* second evaluation and the start.  The items are the job definitions     *)
(* ("job"), the targets of the Proxmox Backup Server ("pbs") and the       *)
(* restore drill ("drill"), which shares the scope of the backup.          *)
(*                                                                         *)
(* Time is counted in minutes.  An item's cron expression is the set of    *)
(* the times it names; SlotOf gives each its local wall time, so that two  *)
(* occurrences have one slot where the clock is set back.  What happens to *)
(* the row and the child of a run is left to JobLifecycle.                 *)
(***************************************************************************)
EXTENDS Integers, FiniteSets

CONSTANTS
    Items,        \* a subset of Kinds
    Occurs,       \* the times of each item's schedule
    SlotOf,       \* the local wall time of an occurrence
    Retry,        \* retry_minutes
    Grace,        \* scheduler_grace_minutes
    FirstTick,    \* run_on_first_tick
    MaxAge,       \* max_success_age_hours
    Repeat,       \* repeat_hours
    MaxClock, MaxKills, MaxManual, MaxPauses  \* bounds

Kinds == {"job", "pbs", "drill"}

ASSUME DueAssumptions ==
    /\ Items \subseteq Kinds /\ "job" \in Items
    /\ {Retry, Grace, MaxAge, Repeat} \subseteq Nat \ {0} /\ FirstTick \in BOOLEAN
    /\ {MaxClock, MaxKills, MaxManual, MaxPauses} \subseteq Nat
    /\ \A i \in Items : Occurs[i] \subseteq 0 .. MaxClock /\ 0 \in Occurs[i]
                        /\ \A o \in Occurs[i] : o \in DOMAIN SlotOf /\ SlotOf[o] \in Nat

Never == -1
RetrySlot == -2   \* a slot named after the failed job
NoAttempt == [status |-> "none", at |-> Never, slot |-> Never]
Nothing == "none"

VARIABLES
    clock,
    attempt,      \* last attempt of the scheduler, job_definition_schedule_state
    success,      \* last success of anyone
    tickAt,       \* where the tick is
    tickDue,      \* what the first evaluation found
    working,      \* what the tick is running
    manual,       \* what the web process runs by hand, holding the scope: job, pbs
    pause,        \* scheduler_pause: the end of the pause, or Never
    dropping,     \* a request has read an expired pause and will delete it
    overdueSent,  \* overdue_alerts: when the last alarm was noted
    alarmedAt,    \* history: the noted time of the last one sent
    alarmsLost,   \* history: alarms noted and never sent, since that one
    starts,       \* history: starts by cron per item and occurrence (for the
                  \* targets: since the last run by hand)
    kills, manuals, pauses

schedVars == <<attempt, success>>
tickVars == <<tickAt, tickDue, working>>
pauseVars == <<pause, dropping>>
alarmVars == <<overdueSent, alarmedAt, alarmsLost>>
dueBounds == <<kills, manuals, pauses>>
dueVars == <<clock, schedVars, tickVars, manual, pauseVars, alarmVars, starts, dueBounds>>

DueInit ==
    /\ clock = 0
    /\ attempt = [i \in Items |-> NoAttempt]
    /\ \E s \in {0, Never} : success = [i \in Items |-> IF i = "pbs" THEN 0 ELSE s]
    /\ tickAt = "idle" /\ tickDue = {} /\ working = Nothing /\ manual = Nothing
    /\ pause = Never /\ dropping = FALSE
    /\ overdueSent = Never /\ alarmedAt = Never /\ alarmsLost = 0
    /\ starts = [i \in Items |-> [o \in Occurs[i] |-> 0]]
    /\ kills = 0 /\ manuals = 0 /\ pauses = 0

-----------------------------------------------------------------------------
(* The evaluation of one item, _evaluate_due.                              *)

Earliest(s) == CHOOSE t \in s : \A u \in s : t <= u
Latest(s) == CHOOSE t \in s : \A u \in s : t >= u

(* Beyond the horizon lies the next occurrence that is not modelled.       *)
NextAfter(i, t) == Earliest({o \in Occurs[i] : o > t} \cup {MaxClock + 1})
PreviousBefore(i, t) == Latest({o \in Occurs[i] : o < t})
SlotKey(o) == IF o > MaxClock THEN o ELSE SlotOf[o]

(* Failed, stale, or still running; later than the last success.           *)
Failing(i) == attempt[i].status \notin {"none", "ok"} /\ attempt[i].at > success[i]
RetryDue(i, now) == Failing(i) /\ now - attempt[i].at >= Retry

Occurrence(i, now) == IF success[i] = Never THEN PreviousBefore(i, now + 1)
                      ELSE NextAfter(i, success[i])

OnFirstTick(i) == FirstTick /\ i = "job"

(* Mutant: the grace of the first start also ends what is to be caught up. *)
DueSlotGrace(i, now) ==
    /\ now >= Occurrence(i, now)
    /\ OnFirstTick(i) \/ now - Occurrence(i, now) <= Grace

DueSlot(i, now) ==
    IF success[i] = Never
    THEN OnFirstTick(i) \/ now - Occurrence(i, now) <= Grace
    ELSE now >= Occurrence(i, now)

(* The occurrences from o on, until one has another slot; the last of them, *)
(* and that other one.                                                     *)
Repeats(i, o) == {q \in Occurs[i] : q >= o /\ \A r \in Occurs[i] :
                                        o <= r /\ r <= q => SlotKey(r) = SlotKey(o)}
SameSlot(i, o) == Latest(Repeats(i, o))
NextDistinct(i, o) == NextAfter(i, SameSlot(i, o))

(* The slot that is due was already attempted.                             *)
Duplicate(i, now) ==
    DueSlot(i, now) /\ attempt[i].slot = SlotKey(Occurrence(i, now))

(* Then the next slot is awaited; a retry waits only for the last          *)
(* repetition of the slot to be over.                                      *)
HeldBack(i, now) ==
    LET o == Occurrence(i, now)
        last == SameSlot(i, o)
    IN /\ Duplicate(i, now) /\ now < NextDistinct(i, o)
       /\ ~(RetryDue(i, now) /\ (last = o \/ now >= last + 1))

CronStart(o) == {[slot |-> SlotKey(o), occurrence |-> o]}
RetryStart == {[slot |-> RetrySlot, occurrence |-> Never]}

(* Mutant: an attempt of the same slot does not count. *)
EvaluateForgetful(i, now) ==
    LET o == Occurrence(i, now) IN
    CASE RetryDue(i, now) -> RetryStart
      [] Failing(i) /\ ~RetryDue(i, now) -> {}
      [] OTHER -> IF DueSlot(i, now) THEN CronStart(o) ELSE {}

(* The occurrence a start by cron is for.                                  *)
StartedFor(i, now) ==
    IF Duplicate(i, now) THEN NextDistinct(i, Occurrence(i, now)) ELSE Occurrence(i, now)

(* What is to be started now, if anything.                                 *)
Evaluate(i, now) ==
    CASE Failing(i) /\ ~RetryDue(i, now)               -> {}
      [] HeldBack(i, now)                              -> {}
      [] RetryDue(i, now) /\ ~HeldBack(i, now)         -> RetryStart
      [] ~Failing(i) /\ ~HeldBack(i, now)              ->
            IF DueSlot(i, now) THEN CronStart(StartedFor(i, now)) ELSE {}

-----------------------------------------------------------------------------
(* The tick, in the order of main.                                         *)

Scope(i) == IF i = "pbs" THEN "pbs" ELSE "backup"
Free(i) == manual = Nothing \/ Scope(manual) # Scope(i)
Go(s) == tickAt' = s /\ UNCHANGED <<tickDue, working>>

(* reconcile_locked_scope: a row whose process is gone ends as stale.      *)
Recovered(free) == [i \in Items |->
    IF attempt[i].status = "running" /\ i \in free
    THEN [attempt[i] EXCEPT !.status = "stale", !.at = clock] ELSE attempt[i]]

IsOverdue == success["job"] = Never \/ clock - success["job"] > MaxAge

(* Mutant: the time of the last alarm is not looked at. *)
AlarmDueAlways == IsOverdue

AlarmDue == IsOverdue /\ (overdueSent = Never \/ clock - overdueSent >= Repeat)

(* Free scopes are reconciled; then check_overdue notes the alarm in the   *)
(* stored state, and forgets it when the item has recovered.  If it raises  *)
(* the tick goes on without it.                                            *)
BeginTick ==
    /\ tickAt = "idle"
    /\ attempt' = Recovered({i \in Items : Free(i)})
    /\ \/ /\ overdueSent' = IF AlarmDue THEN clock
                             ELSE IF IsOverdue THEN overdueSent ELSE Never
          /\ Go(IF AlarmDue THEN "send" ELSE "pause")
       \/ UNCHANGED overdueSent /\ Go("pause")
    /\ UNCHANGED <<clock, success, manual, pauseVars, alarmedAt, alarmsLost,
                   starts, dueBounds>>

(* notify("pair_overdue").  A failure of the outbox or of the configuration *)
(* is swallowed, and without push settings nothing is queued either: the    *)
(* alarm stays noted and is never sent.                                    *)
SendAlarm ==
    /\ tickAt = "send"
    /\ \/ alarmedAt' = overdueSent /\ alarmsLost' = 0
       \/ UNCHANGED alarmedAt /\ alarmsLost' = alarmsLost + 1
    /\ Go("pause")
    /\ UNCHANGED <<clock, schedVars, manual, pauseVars, overdueSent, starts, dueBounds>>

Expired == pause # Never /\ pause <= clock

(* scheduler_state reads the pause; one that has expired is deleted next.  *)
ReadPause ==
    /\ tickAt = "pause"
    /\ Go(IF pause = Never THEN "due" ELSE IF Expired THEN "drop" ELSE "idle")
    /\ UNCHANGED <<clock, schedVars, manual, pauseVars, alarmVars, starts, dueBounds>>

TickDropsPause ==
    /\ tickAt = "drop"
    /\ pause' = Never /\ Go("due")
    /\ UNCHANGED <<clock, schedVars, manual, dropping, alarmVars, starts, dueBounds>>

(* find_due_jobs, find_due_pbs_targets and restore_test_due.               *)
DueJobs == {i \in Items \cap {"job"} : Evaluate(i, clock) # {}}
DueTargets == {i \in Items \cap {"pbs"} : Evaluate(i, clock) # {}}
DueDrill == {i \in Items \cap {"drill"} : Evaluate(i, clock) # {}}

(* The first evaluation, without a lock.                                   *)
FirstLook ==
    /\ tickAt = "due"
    /\ tickDue' = DueJobs \cup DueTargets \cup DueDrill
    /\ tickAt' = IF tickDue' = {} THEN "idle" ELSE "job"
    /\ UNCHANGED <<clock, schedVars, working, manual, pauseVars, alarmVars, starts,
                   dueBounds>>

(* Due before the lock, and the lock of its scope is had.  The drill waits *)
(* for a tick without a due backup.                                        *)
Wanted(i) ==
    /\ i \in tickDue /\ Free(i)
    /\ i = "drill" => "job" \notin tickDue
Turn(i) == tickAt = i /\ working = Nothing

PassBy(i, after) ==
    /\ Turn(i) /\ ~Wanted(i)
    /\ Go(after)
    /\ UNCHANGED <<clock, schedVars, manual, pauseVars, alarmVars, starts, dueBounds>>

PassJob == PassBy("job", "pbs")
PassTargets == PassBy("pbs", "drill")
PassDrill == PassBy("drill", "idle")

(* Under the lock the history is read again.                               *)
SecondLook(i) == Evaluate(i, clock)

NoLongerDue(i, after) ==
    /\ Turn(i) /\ Wanted(i) /\ SecondLook(i) = {}
    /\ tickDue' = tickDue \ {i} /\ tickAt' = after
    /\ UNCHANGED <<clock, schedVars, working, manual, pauseVars, alarmVars, starts,
                   dueBounds>>

(* A job that is no longer due leaves the rest to do, a target or a drill  *)
(* that is not ends the tick.                                              *)
JobNoLongerDue == NoLongerDue("job", "pbs")
TargetsNoLongerDue == NoLongerDue("pbs", "idle")
DrillNoLongerDue == NoLongerDue("drill", "idle")

(* job_start under the lock of the scope.                                  *)
StartDue(i) ==
    /\ Turn(i) /\ Wanted(i)
    /\ \E s \in SecondLook(i) :
          /\ attempt' = [attempt EXCEPT ![i] =
                [status |-> "running", at |-> clock, slot |-> s.slot]]
          /\ starts' = IF s.occurrence \in Occurs[i]
                       THEN [starts EXCEPT ![i][s.occurrence] = @ + 1] ELSE starts
    /\ working' = i
    /\ UNCHANGED <<clock, success, tickAt, tickDue, manual, pauseVars, alarmVars, dueBounds>>

StartJob == StartDue("job")
StartTargets == StartDue("pbs")
StartDrill == StartDue("drill")

(* The run has ended; a cursor that moves is the last success.             *)
FinishDue(i, after, status, moves) ==
    /\ tickAt = i /\ working = i
    /\ attempt' = [attempt EXCEPT ![i].status = status, ![i].at = clock]
    /\ success' = IF moves THEN [success EXCEPT ![i] = clock] ELSE success
    /\ working' = Nothing /\ tickAt' = after /\ UNCHANGED tickDue
    /\ UNCHANGED <<clock, manual, pauseVars, alarmVars, starts, dueBounds>>

FinishJob == \E ok \in BOOLEAN : FinishDue("job", "pbs", IF ok THEN "ok" ELSE "error", ok)
FinishTargets ==
    \E ok \in BOOLEAN : FinishDue("pbs", "drill", IF ok THEN "ok" ELSE "error", ok)

(* A drill that has verified only a part of what was asked is an error, and *)
(* moves the cursor of its schedule like a success does.                   *)
FinishDrill ==
    \/ FinishDue("drill", "idle", "ok", TRUE)
    \/ \E partial \in BOOLEAN : FinishDue("drill", "idle", "error", partial)

KillTick ==
    /\ tickAt # "idle" /\ kills < MaxKills /\ kills' = kills + 1
    /\ tickAt' = "idle" /\ tickDue' = {} /\ working' = Nothing
    /\ alarmsLost' = IF tickAt = "send" THEN alarmsLost + 1 ELSE alarmsLost
    /\ UNCHANGED <<clock, schedVars, manual, pauseVars, overdueSent, alarmedAt, starts,
                   manuals, pauses>>

TickStep ==
    \/ BeginTick \/ SendAlarm \/ ReadPause \/ TickDropsPause \/ FirstLook
    \/ PassJob \/ JobNoLongerDue \/ StartJob \/ FinishJob
    \/ PassTargets \/ TargetsNoLongerDue \/ StartTargets \/ FinishTargets
    \/ PassDrill \/ DrillNoLongerDue \/ StartDrill \/ FinishDrill

-----------------------------------------------------------------------------
(* The web process.                                                        *)

(* A run by hand takes the lock and reconciles the scope.  For the targets *)
(* the last attempt is that of anyone (pair_last_history): the one of the  *)
(* scheduler, its slot and its back-off are no longer seen.                *)
ManualStart(i) ==
    /\ manual = Nothing /\ manuals < MaxManual /\ manuals' = manuals + 1
    /\ working = Nothing \/ Scope(working) # Scope(i)
    /\ manual' = i
    /\ IF i = "pbs"
       THEN /\ attempt' = [attempt EXCEPT ![i] = NoAttempt]
            /\ starts' = [starts EXCEPT ![i] = [o \in Occurs[i] |-> 0]]
       ELSE attempt' = Recovered({k \in Items : Scope(k) = Scope(i)}) /\ UNCHANGED starts
    /\ UNCHANGED <<clock, success, tickVars, pauseVars, alarmVars, kills, pauses>>

(* For a job only a success is recorded in the state of the schedule.      *)
ManualEnd ==
    /\ manual # Nothing /\ manual' = Nothing
    /\ \/ success' = [success EXCEPT ![manual] = clock] \/ UNCHANGED success
    /\ UNCHANGED <<clock, attempt, tickVars, pauseVars, alarmVars, starts, dueBounds>>

PauseScheduler ==
    /\ pauses < MaxPauses /\ pauses' = pauses + 1
    /\ \E until \in (clock + 1) .. MaxClock : pause' = until
    /\ UNCHANGED <<clock, schedVars, tickVars, manual, dropping, alarmVars, starts, kills,
                   manuals>>

ResumeScheduler ==
    /\ pause # Never /\ pause' = Never
    /\ UNCHANGED <<clock, schedVars, tickVars, manual, dropping, alarmVars, starts, dueBounds>>

(* GET /scheduler/state reads an expired pause, and deletes what is stored. *)
RequestReadsExpired ==
    /\ ~dropping /\ Expired /\ dropping' = TRUE
    /\ UNCHANGED <<clock, schedVars, tickVars, manual, pause, alarmVars, starts, dueBounds>>

RequestDropsPause ==
    /\ dropping /\ dropping' = FALSE /\ pause' = Never
    /\ UNCHANGED <<clock, schedVars, tickVars, manual, alarmVars, starts, dueBounds>>

Minute ==
    /\ clock < MaxClock /\ clock' = clock + 1
    /\ UNCHANGED <<schedVars, tickVars, manual, pauseVars, alarmVars, starts, dueBounds>>

DueNext ==
    \/ \E i \in Items \ {"drill"} : ManualStart(i)
    \/ TickStep \/ KillTick \/ ManualEnd \/ PauseScheduler
    \/ ResumeScheduler \/ RequestReadsExpired \/ RequestDropsPause \/ Minute

(* The timer starts a tick every minute, runs end, time passes.            *)
DueFairness == WF_dueVars(TickStep) /\ WF_dueVars(ManualEnd) /\ WF_dueVars(Minute)

DueSpec == DueInit /\ [][DueNext]_dueVars /\ DueFairness

-----------------------------------------------------------------------------
DueTypeOK ==
    /\ clock \in 0 .. MaxClock
    /\ \A i \in Items :
          /\ attempt[i].status \in {"none", "running", "ok", "error", "stale"}
          /\ {attempt[i].at, success[i]} \subseteq Never .. MaxClock
          /\ starts[i] \in [Occurs[i] -> Nat]
    /\ tickAt \in {"idle", "send", "pause", "drop", "due"} \cup Kinds
    /\ tickDue \subseteq Items /\ working \in Items \cup {Nothing}
    /\ manual \in Items \cup {Nothing} /\ dropping \in BOOLEAN /\ alarmsLost \in Nat
    /\ {pause, overdueSent, alarmedAt} \subseteq Never .. MaxClock

(* What the calendar must grant so that no slot is started twice.  The      *)
(* occurrences of a slot follow each other: no other slot lies between the *)
(* two times an hour is passed.                                            *)
SlotsAdjacent ==
    \A i \in Items : \A o, q, r \in Occurs[i] :
        o <= r /\ r <= q /\ SlotKey(o) = SlotKey(q) => SlotKey(r) = SlotKey(o)

(* Between two slots that come twice lies one of another time.             *)
RepeatsApart ==
    \A i \in Items : \A a, b, c, d \in Occurs[i] :
        /\ a < b /\ b < c /\ c < d /\ SlotKey(a) = SlotKey(b) /\ SlotKey(c) = SlotKey(d)
        /\ SlotKey(b) # SlotKey(c)
        => \E r \in Occurs[i] : b < r /\ r < c /\ SlotKey(r) \notin {SlotKey(b), SlotKey(c)}

(* The grace of the first start reaches to the repetition.                 *)
RepeatsWithinGrace ==
    \A i \in Items : \A o, q \in Occurs[i] :
        /\ o < q /\ SlotKey(o) = SlotKey(q) /\ \A r \in Occurs[i] : r <= o \/ q <= r
        => OnFirstTick(i) \/ q - o <= Grace + 1

(* A slot is started by cron at most once, also where the clock is set     *)
(* back and a failure, a retry, a kill or a run of a job by hand lies      *)
(* between its two occurrences, and never when a success covers it already, *)
(* whatever happened between the two evaluations (_evaluate_due, main).    *)
(* It needs the three conditions above.                                    *)
StartedOnce ==
    [][\A i \in Items : \A o \in Occurs[i] : starts'[i][o] > starts[i][o] =>
          /\ success[i] < o
          /\ \A q \in Occurs[i] : SlotKey(q) = SlotKey(o) => starts[i][q] = 0]_dueVars

(* The channel is not flooded: in one outage every alarm that is noted and *)
(* not sent, because the tick was killed or the outbox failed, costs a      *)
(* repeat period, and so does the one that is sent next (notify_overdue).   *)
(* And what is noted was sent, unless one of these losses explains it.      *)
AlarmRhythm ==
    /\ tickAt = "send" /\ alarmedAt # Never /\ success["job"] < alarmedAt =>
          overdueSent - alarmedAt >= Repeat * (alarmsLost + 1)
    /\ tickAt # "send" /\ alarmsLost = 0 /\ overdueSent # Never =>
          alarmedAt = overdueSent

(* Every slot that comes is run or covered, at the latest by a retry: a    *)
(* pause, a kill, a manual run or a held lock only delays it.  What has    *)
(* never succeeded waits for a tick within the grace of a later slot.      *)
SlotAnswered ==
    \A i \in Items : \A o \in Occurs[i] \ {0} :
        (clock >= o /\ (OnFirstTick(i) \/ success[i] # Never)) ~>
            \E q \in Occurs[i] : SlotKey(q) = SlotKey(o)
                             /\ (success[i] >= q \/ attempt[i].at >= q)
=============================================================================
