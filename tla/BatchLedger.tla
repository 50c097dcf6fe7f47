---------------------------- MODULE BatchLedger ----------------------------
(***************************************************************************)
(* What the tables of the definition batches promise to everyone who reads *)
(* them: the items of a stored batch are begun and closed in their order,  *)
(* each is driven at most once and closed once, done only if its job ended *)
(* ok; a cancel is never withdrawn and lets one definition begin at most;  *)
(* the batch ends with its last item and is never opened again.            *)
(*                                                                         *)
(* This is the abstract specification of the tables job_batches and        *)
(* job_batch_items; DefinitionBatch implements it with a thread that dies  *)
(* and is resumed, a scope others take meanwhile, jobs that are reconciled *)
(* and operations that fail before or after their commit.                  *)
(***************************************************************************)
EXTENDS Naturals

CONSTANTS
    Batches,  \* batches that may be requested
    Items,    \* the positions of the definitions of a batch, from 1
    Ended     \* states of an item that is closed

VARIABLES
    state,    \* job_batches.state
    flag,     \* job_batches.cancel_requested
    item,     \* job_batch_items.state
    drives,   \* times the definition of an item was driven
    late,     \* drives begun after the cancel was recorded
    good      \* the job of an item has ended ok

vars == <<state, flag, item, drives, late, good>>

Init ==
    /\ state = [b \in Batches |-> "absent"]
    /\ flag = [b \in Batches |-> FALSE]
    /\ item = [b \in Batches |-> [i \in Items |-> "none"]]
    /\ drives = [b \in Batches |-> [i \in Items |-> 0]]
    /\ late = [b \in Batches |-> 0]
    /\ good = [b \in Batches |-> [i \in Items |-> FALSE]]

Open == {"queued", "running"}

(* Its turn: every item before it is closed. *)
Turn(b, i) == \A k \in Items : k < i => item[b][k] \in Ended

(* A batch is stored, its first item with the job reserved for it. *)
Store(b) ==
    /\ state[b] = "absent"
    /\ state' = [state EXCEPT ![b] = "running"]
    /\ item' = [item EXCEPT ![b] =
                   [i \in Items |-> IF i = 1 THEN "running" ELSE "queued"]]
    /\ UNCHANGED <<flag, drives, late, good>>

(* A cancel is recorded for every batch that is not over. *)
RequestCancel ==
    /\ flag' = [b \in Batches |-> flag[b] \/ state[b] = "running"]
    /\ UNCHANGED <<state, item, drives, late, good>>

(* An item gets its job. *)
Begin(b, i) ==
    /\ state[b] = "running" /\ item[b][i] = "queued" /\ Turn(b, i)
    /\ item' = [item EXCEPT ![b][i] = "running"]
    /\ UNCHANGED <<state, flag, drives, late, good>>

(* Its definition is driven, once, and one of them after a cancel at most. *)
Drive(b, i) ==
    /\ item[b][i] = "running" /\ drives[b][i] = 0
    /\ flag[b] => late[b] = 0
    /\ drives' = [drives EXCEPT ![b][i] = 1]
    /\ late' = IF flag[b] THEN [late EXCEPT ![b] = 1] ELSE late
    /\ UNCHANGED <<state, flag, item, good>>

(* Jobs that were driven turn out to have ended ok, one by one or several   *)
(* when stored outcomes are replayed.                                      *)
Succeed ==
    /\ good' \in [Batches -> [Items -> BOOLEAN]]
    /\ \A b \in Batches, i \in Items :
          /\ good[b][i] => good'[b][i]
          /\ good'[b][i] => good[b][i] \/ drives[b][i] = 1
    /\ UNCHANGED <<state, flag, item, drives, late>>

(* An item is closed, and its batch with the last one; only a batch whose   *)
(* cancel was recorded ends as cancelled.                                  *)
Close(b, i) ==
    /\ state[b] = "running" /\ item[b][i] \in Open /\ Turn(b, i)
    /\ \E s \in Ended : /\ s = "done" => good[b][i]
                        /\ item' = [item EXCEPT ![b][i] = s]
    /\ IF \E k \in Items : item'[b][k] \in Open
       THEN UNCHANGED state
       ELSE \/ state' = [state EXCEPT ![b] = "done"]
            \/ flag[b] /\ state' = [state EXCEPT ![b] = "cancelled"]
    /\ UNCHANGED <<flag, drives, late, good>>

Next ==
    \/ RequestCancel \/ Succeed
    \/ \E b \in Batches : Store(b)
    \/ \E b \in Batches, i \in Items : Begin(b, i) \/ Drive(b, i) \/ Close(b, i)

Spec == Init /\ [][Next]_vars
=============================================================================
