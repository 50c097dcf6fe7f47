---------------------------- MODULE OutboxLedger ----------------------------
(***************************************************************************)
(* What the push outbox promises about the messages stored in it: a row is *)
(* stored once, is sent or given up, may be deleted, and never comes back; *)
(* it is called sent only if APNs has taken it; what was stored for a      *)
(* device when it was signed off is never taken again; and a row is taken  *)
(* once, and once more at most for each trouble that excuses it.           *)
(*                                                                         *)
(* This is the abstract specification of the table push_outbox; PushOutbox *)
(* implements it with dispatchers that share the rows under leases which   *)
(* run out, wait for each other at the fence, retry, are killed and lose   *)
(* answers.                                                                *)
(***************************************************************************)
EXTENDS Naturals

CONSTANT Rows

VARIABLES
    life,      \* push_outbox.status; pending and sending are both open
    taken,     \* times APNs took the message
    silenced,  \* rows that were stored when their device was signed off
    excuses    \* dispatchers killed, leases run out at work, answers lost

vars == <<life, taken, silenced, excuses>>

Init ==
    /\ life = [r \in Rows |-> "unused"]
    /\ taken = [r \in Rows |-> 0]
    /\ silenced = {}
    /\ excuses = 0

Stored == {r \in Rows : life[r] \notin {"unused", "gone"}}

(* A message is stored, one row for each of its devices.                   *)
Store(rows) ==
    /\ \A r \in rows : life[r] = "unused"
    /\ life' = [r \in Rows |-> IF r \in rows THEN "open" ELSE life[r]]
    /\ UNCHANGED <<taken, silenced, excuses>>

(* What may become of a row in a transaction.                              *)
Becomes(r, state) ==
    \/ state = life[r]
    \/ state = "sent" /\ life[r] = "open" /\ taken[r] >= 1
    \/ state = "failed" /\ life[r] = "open"
    \/ state = "gone" /\ r \in Stored

Close ==
    /\ \E states \in [Rows -> {"unused", "open", "sent", "failed", "gone"}] :
          /\ \A r \in Rows : Becomes(r, states[r])
          /\ life' = states
    /\ UNCHANGED <<taken, silenced, excuses>>

(* Devices are signed off: their rows are deleted for good.                *)
Revoke(rows) ==
    /\ rows \subseteq Stored
    /\ life' = [r \in Rows |-> IF r \in rows THEN "gone" ELSE life[r]]
    /\ silenced' = silenced \cup rows
    /\ UNCHANGED <<taken, excuses>>

(* APNs takes a row; the trouble that excuses it may come with it.         *)
Take(r) ==
    /\ life[r] # "unused" /\ r \notin silenced
    /\ excuses' \in {excuses, excuses + 1}
    /\ taken[r] < 1 + excuses'
    /\ taken' = [taken EXCEPT ![r] = taken[r] + 1]
    /\ UNCHANGED <<life, silenced>>

Trouble == excuses' = excuses + 1 /\ UNCHANGED <<life, taken, silenced>>

Next ==
    \/ Close \/ Trouble
    \/ \E rows \in SUBSET Rows : Store(rows) \/ Revoke(rows)
    \/ \E r \in Rows : Take(r)

Spec == Init /\ [][Next]_vars
=============================================================================
