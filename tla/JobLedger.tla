----------------------------- MODULE JobLedger -----------------------------
(***************************************************************************)
(* What the job table promises to everyone who reads it: a run is admitted *)
(* only while no other run of the scope is open, the outcome of the        *)
(* external program is announced at most once, and the run is closed       *)
(* exactly once -- with the announced outcome when there is one.           *)
(*                                                                         *)
(* This is the abstract specification of the tables jobs and               *)
(* job_terminal_intents; JobLifecycle implements it with three processes,  *)
(* a file lock, retries, crashes and a recovery that replays announced     *)
(* outcomes.                                                               *)
(***************************************************************************)
CONSTANTS
    Jobs,        \* job ids
    Results,     \* outcomes an external run can report
    NoResult     \* no outcome has been announced

VARIABLES
    status,      \* the column jobs.status, "none" before the row exists
    announced    \* the outcome staged in job_terminal_intents

vars == <<status, announced>>

Init ==
    /\ status = [j \in Jobs |-> "none"]
    /\ announced = [j \in Jobs |-> NoResult]

(* A run is admitted while no other run of the scope is open. *)
Admit(j) ==
    /\ status[j] = "none"
    /\ \A i \in Jobs : status[i] # "running"
    /\ status' = [status EXCEPT ![j] = "running"]
    /\ UNCHANGED announced

(* The external program has ended: its outcome is on disk from here on. *)
Announce(j) ==
    /\ status[j] = "running"
    /\ announced[j] = NoResult
    /\ \E r \in Results : announced' = [announced EXCEPT ![j] = r]
    /\ UNCHANGED status

(* The run is closed with the outcome that was announced. *)
CloseAnnounced(j) ==
    /\ status[j] = "running"
    /\ announced[j] # NoResult
    /\ status' = [status EXCEPT ![j] = announced[j]]
    /\ UNCHANGED announced

(* A run that announced nothing failed in its setup or lost its worker. *)
CloseUnannounced(j) ==
    /\ status[j] = "running"
    /\ announced[j] = NoResult
    /\ \E s \in {"error", "stale"} : status' = [status EXCEPT ![j] = s]
    /\ UNCHANGED announced

Next ==
    \E j \in Jobs :
        Admit(j) \/ Announce(j) \/ CloseAnnounced(j) \/ CloseUnannounced(j)

Spec == Init /\ [][Next]_vars
=============================================================================
