--------------------------- MODULE MCSchedulerDue ---------------------------
(* Small instances of SchedulerDue for TLC: a job every two minutes, where   *)
(* the fourth minute has the wall time of the second one (the clock is set   *)
(* back), and other items once.                                              *)
EXTENDS SchedulerDue, TLC

MCOccurs == [i \in Items |-> (CASE i = "job" -> {0, 2, 4, 6}
                               [] i = "pbs" -> {0, 2}
                               [] i = "drill" -> {0}) \cap (0 .. MaxClock)]
MCSlotOf == [t \in 0 .. 7 |-> IF t = 4 THEN 2 ELSE t]

ASSUME MCCalendar == SlotsAdjacent /\ RepeatsApart /\ RepeatsWithinGrace
=============================================================================
