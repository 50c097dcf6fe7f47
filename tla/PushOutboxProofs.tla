-------------------------- MODULE PushOutboxProofs --------------------------
(***************************************************************************)
(* Machine-checked proofs about PushOutbox, for any number of dispatchers, *)
(* devices, messages and rows, and any lengths of the leases.              *)
(*                                                                         *)
(* The inductive invariant is OutboxInvariant.  A revoked device has no    *)
(* registration, its rows are gone, and behind the fence nobody has one of *)
(* them at hand (SilenceOK).  For each row, the times APNs took it, the    *)
(* chance that it is sent again and the chance that a dispatcher which no  *)
(* longer holds it sends it after all are paid for: once for the message   *)
(* itself and once for each crash, stall and lost reply (BudgetOK).        *)
(*                                                                         *)
(* The refinement of OutboxLedger needs TruthOK beside it: an answer "ok"  *)
(* that is not stored yet is the answer of APNs for the row at hand.       *)
(***************************************************************************)
EXTENDS PushOutbox, FiniteSetTheorems, SequenceTheorems, TLAPS

(* What the rows of the table have in common.                              *)
RowOK(x) ==
    /\ x \in OutboxRow
    /\ x.status = "unused" => x = Unused
    /\ x.status \in {"pending", "sending", "sent", "failed"} =>
          /\ x.msg \in Messages /\ x.token \in Tokens
          /\ x.status # "sending" => x.owner = Nobody /\ x.lease = 0

SilenceOK ==
    /\ \A t \in revoked : device[t] = 0
    /\ \A r \in barred : row[r].status = "gone"
    /\ \A d \in Dispatchers : pc[d] \in {"check", "post"} =>
          Next1(d) \notin barred /\ row[Next1(d)].status # "unused"
    /\ \A d \in Dispatchers : pc[d] = "post" => row[Next1(d)].token \notin revoked

(* Its owner may rely on the claim: nobody else is given the row.           *)
Held(d, r) == Owns(d, r) /\ row[r].lease > now

(* APNs took it, its owner knows, and nobody may claim it before the owner  *)
(* has stored the answer.                                                   *)
SettledBy(d, r) == pc[d] = "finish" /\ Next1(d) = r /\ reply[d] = "ok" /\ Held(d, r)
Settled(r) == \E d \in Dispatchers : SettledBy(d, r)

(* It may be sent, as far as the table goes.                                *)
Closed(r) == row[r].status \in {"sent", "failed", "gone"}
Open(r) == ~Closed(r) /\ ~Settled(r)

(* A dispatcher behind the fence sends it on a claim that has run out.      *)
GhostOf(d, r) == pc[d] \in {"check", "post"} /\ Next1(d) = r /\ ~Held(d, r)
Ghost(r) == \E d \in Dispatchers : GhostOf(d, r)

Spent(r) ==
    delivered[r] + (IF Open(r) THEN 1 ELSE 0) + (IF Ghost(r) THEN 1 ELSE 0)

Paid == 1 + crashes + stalls + losses

BudgetOK == \A r \in Rows : Spent(r) <= Paid

OutboxInvariant == TypeOK /\ SilenceOK /\ BudgetOK

-----------------------------------------------------------------------------
(* What each way to write a row makes of it.                               *)

LEMMA Numbers ==
    /\ MaxRows \in Nat /\ Lease \in Nat /\ Retention \in Nat /\ DeviceLease \in Nat
    /\ Lease > 0 /\ Retention > 0 /\ DeviceLease > 0 /\ Horizon \in Nat /\ Horizon > 0
    /\ MaxCrashes \in Nat /\ MaxStalls \in Nat /\ MaxLosses \in Nat
    /\ Nobody \notin Dispatchers
BY OutboxAssumptions

LEMMA RowFacts ==
    ASSUME TypeOK, NEW r \in Rows
    PROVE  /\ row \in [Rows -> OutboxRow] /\ RowOK(row[r])
           /\ now \in Nat /\ now > 0
BY Numbers DEF TypeOK, RowOK

LEMMA UnusedRow == RowOK(Unused) /\ Unused.status = "unused"
BY DEF RowOK, Unused, OutboxRow, Statuses

LEMMA GoneRow ==
    ASSUME TypeOK, NEW r \in Rows
    PROVE  /\ RowOK(Gone(r)) /\ Gone(r).status = "gone" /\ Gone(r).token = row[r].token
           /\ Gone(r).owner = Nobody
<1>1. row[r].token \in Tokens \cup {0}
  BY RowFacts DEF RowOK, OutboxRow
<1>2. Gone(r) \in OutboxRow
  BY <1>1 DEF Gone, OutboxRow, Statuses
<1> QED BY <1>2 DEF RowOK, Gone

LEMMA ReleasedRow ==
    ASSUME TypeOK, NEW r \in Rows, row[r].status \in {"pending", "sending"},
           NEW st \in {"pending", "sent", "failed"}
    PROVE  /\ RowOK(Released(r, st)) /\ Released(r, st).status = st
           /\ Released(r, st).token = row[r].token /\ Released(r, st).owner = Nobody
           /\ Released(r, st).lease = 0 /\ Released(r, st).msg = row[r].msg
<1>1. row[r] \in OutboxRow /\ row[r].msg \in Messages /\ row[r].token \in Tokens
  BY RowFacts DEF RowOK
<1>2. /\ Released(r, st) \in OutboxRow /\ Released(r, st).status = st
      /\ Released(r, st).token = row[r].token /\ Released(r, st).owner = Nobody
      /\ Released(r, st).lease = 0 /\ Released(r, st).msg = row[r].msg
  BY <1>1 DEF Released, OutboxRow, Statuses
<1> QED BY <1>1, <1>2 DEF RowOK

LEMMA ClaimedRow ==
    ASSUME TypeOK, NEW r \in Rows, NEW d \in Dispatchers,
           row[r].status \in {"pending", "sending"}
    PROVE  /\ RowOK(Claimed(d, r)) /\ Claimed(d, r).status = "sending"
           /\ Claimed(d, r).token = row[r].token /\ Claimed(d, r).owner = d
<1>1. row[r] \in OutboxRow /\ row[r].msg \in Messages /\ row[r].token \in Tokens
  BY RowFacts DEF RowOK
<1>n. now + Lease \in Nat /\ row[r].tries + 1 \in Nat
  BY <1>1, RowFacts, Numbers DEF OutboxRow
<1>2. /\ Claimed(d, r) \in OutboxRow /\ Claimed(d, r).status = "sending"
      /\ Claimed(d, r).token = row[r].token /\ Claimed(d, r).owner = d
      /\ Claimed(d, r).msg = row[r].msg
  BY <1>1, <1>n DEF Claimed, OutboxRow, Statuses
<1> QED BY <1>1, <1>2 DEF RowOK

LEMMA RenewedRow ==
    ASSUME TypeOK, NEW r \in Rows, row[r].status = "sending"
    PROVE  /\ RowOK(Renewed(r)) /\ Renewed(r).status = "sending"
           /\ Renewed(r).token = row[r].token /\ Renewed(r).owner = row[r].owner
           /\ Renewed(r).lease > now
<1>1. row[r] \in OutboxRow /\ row[r].msg \in Messages /\ row[r].token \in Tokens
  BY RowFacts DEF RowOK
<1>2. /\ Renewed(r) \in OutboxRow /\ Renewed(r).status = "sending"
      /\ Renewed(r).token = row[r].token /\ Renewed(r).owner = row[r].owner
      /\ Renewed(r).msg = row[r].msg /\ Renewed(r).lease = now + Lease
  BY <1>1, RowFacts, Numbers DEF Renewed, OutboxRow, Statuses
<1> QED BY <1>1, <1>2, RowFacts, Numbers DEF RowOK

LEMMA QueuedRow ==
    ASSUME TypeOK, NEW m \in Messages, NEW t \in Tokens
    PROVE  RowOK(Queued(m, t)) /\ Queued(m, t).status = "pending"
<1>1. now \in Nat /\ now + Retention \in Nat
  BY Numbers DEF TypeOK
<1>2. Queued(m, t) \in OutboxRow
  BY <1>1 DEF Queued, OutboxRow, Statuses
<1> QED BY <1>2 DEF RowOK, Queued

(* The row the dispatcher was killed with.                                 *)
Disowned(r) == [row[r] EXCEPT !.owner = Nobody]

LEMMA DisownedRow ==
    ASSUME TypeOK, NEW r \in Rows, row[r].status = "sending"
    PROVE  /\ RowOK(Disowned(r)) /\ Disowned(r).status = "sending"
           /\ Disowned(r).token = row[r].token
<1>1. row[r] \in OutboxRow /\ row[r].msg \in Messages /\ row[r].token \in Tokens
  BY RowFacts DEF RowOK
<1>2. /\ Disowned(r) \in OutboxRow /\ Disowned(r).status = "sending"
      /\ Disowned(r).token = row[r].token /\ Disowned(r).msg = row[r].msg
  BY <1>1 DEF Disowned, OutboxRow, Statuses
<1> QED BY <1>1, <1>2 DEF RowOK

(* The row that is to be tried again.                                      *)
Again(r) == [Released(r, "pending") EXCEPT !.due = now + 1]

LEMMA AgainRow ==
    ASSUME TypeOK, NEW r \in Rows, row[r].status = "sending"
    PROVE  /\ RowOK(Again(r)) /\ Again(r).status = "pending"
           /\ Again(r).token = row[r].token
<1>1. row[r].msg \in Messages /\ row[r].token \in Tokens
  BY RowFacts DEF RowOK
<1>2. /\ Released(r, "pending") \in OutboxRow /\ Released(r, "pending").status = "pending"
      /\ Released(r, "pending").token = row[r].token
      /\ Released(r, "pending").owner = Nobody /\ Released(r, "pending").lease = 0
      /\ Released(r, "pending").msg = row[r].msg
  BY ReleasedRow DEF RowOK
<1>3. now + 1 \in Nat
  BY RowFacts
<1>4. /\ Again(r) \in OutboxRow /\ Again(r).status = "pending"
      /\ Again(r).token = row[r].token /\ Again(r).owner = Nobody /\ Again(r).lease = 0
      /\ Again(r).msg = row[r].msg
  BY <1>2, <1>3 DEF Again, OutboxRow
<1> QED BY <1>1, <1>4 DEF RowOK

-----------------------------------------------------------------------------
(* What a step does to a row: ids and tokens stay, and gone is gone.        *)
RowStep(r) ==
    /\ RowOK(row'[r])
    /\ row[r].status # "unused" => row'[r].token = row[r].token /\ row'[r].status # "unused"
    /\ row[r].status = "gone" => row'[r].status = "gone"

Table == row' \in [Rows -> OutboxRow] /\ \A r \in Rows : RowStep(r)

LEMMA NextRow ==
    ASSUME TypeOK, NEW d \in Dispatchers, mine[d] # <<>>
    PROVE  Next1(d) \in Rows /\ Tail(mine[d]) \in Seq(Rows) /\ ToSet(mine[d]) \subseteq Rows
<1>1. mine[d] \in Seq(Rows)
  BY DEF TypeOK
<1>2. Len(mine[d]) \in Nat /\ DOMAIN mine[d] = 1 .. Len(mine[d])
      /\ \A i \in DOMAIN mine[d] : mine[d][i] \in Rows
  BY <1>1, ElementOfSeq, LenProperties
<1> QED BY <1>1, <1>2, HeadTailProperties DEF Next1, ToSet

LEMMA RowsKept == ASSUME TypeOK, UNCHANGED row PROVE Table
<1>1. ASSUME NEW r \in Rows PROVE RowStep(r)
  BY RowFacts DEF RowStep
<1> QED BY <1>1 DEF Table, TypeOK

(* One kind of change, made to rows that hold a message.                   *)
LEMMA RowsChanged ==
    ASSUME TypeOK, NEW hit \in SUBSET Rows, row' \in [Rows -> OutboxRow],
           \A r \in Rows \ hit : row'[r] = row[r],
           \A r \in hit : /\ row[r].status \notin {"unused", "gone"}
                          /\ RowOK(row'[r]) /\ row'[r].status # "unused"
                          /\ row'[r].token = row[r].token
    PROVE  Table
<1>1. ASSUME NEW r \in Rows PROVE RowStep(r)
  BY RowFacts DEF RowStep
<1> QED BY <1>1 DEF Table

LEMMA RowsGone ==
    ASSUME TypeOK, NEW hit \in SUBSET Stored, Rewrite(hit, Gone)
    PROVE  /\ Table
           /\ \A r \in Rows : row'[r] = IF r \in hit THEN Gone(r) ELSE row[r]
<1>1. /\ \A r \in Rows : row'[r] = IF r \in hit THEN Gone(r) ELSE row[r]
      /\ row' = [r \in Rows |-> IF r \in hit THEN Gone(r) ELSE row[r]]
      /\ hit \subseteq Rows
  BY DEF Rewrite, Stored
<1>2. \A r \in Rows : RowOK(Gone(r)) /\ RowOK(row[r])
  BY GoneRow, RowFacts
<1>3. row' \in [Rows -> OutboxRow]
  BY <1>1, <1>2 DEF RowOK
<1>4. \A r \in hit : /\ row[r].status \notin {"unused", "gone"}
                     /\ RowOK(row'[r]) /\ row'[r].status # "unused"
                     /\ row'[r].token = row[r].token
  BY <1>1, <1>2, GoneRow DEF Stored
<1> QED BY <1>1, <1>3, <1>4, RowsChanged

LEMMA RowsRenewed ==
    ASSUME TypeOK, NEW d \in Dispatchers, NEW hit \in SUBSET Rows,
           \A r \in hit : Owns(d, r), Rewrite(hit, Renewed)
    PROVE  /\ Table
           /\ \A r \in Rows : row'[r] = IF r \in hit THEN Renewed(r) ELSE row[r]
<1>1. /\ \A r \in Rows : row'[r] = IF r \in hit THEN Renewed(r) ELSE row[r]
      /\ row' = [r \in Rows |-> IF r \in hit THEN Renewed(r) ELSE row[r]]
      /\ \A r \in hit : row[r].status = "sending"
  BY DEF Rewrite, Owns
<1>2. /\ \A r \in hit : RowOK(Renewed(r)) /\ Renewed(r).status = "sending"
                        /\ Renewed(r).token = row[r].token
      /\ \A r \in Rows : RowOK(row[r])
  BY <1>1, RenewedRow, RowFacts
<1>3. row' \in [Rows -> OutboxRow]
  BY <1>1, <1>2 DEF RowOK
<1> QED BY <1>1, <1>2, <1>3, RowsChanged

LEMMA FinishedRow ==
    ASSUME TypeOK, NEW d \in Dispatchers, NEW q \in Rows, NEW result, Finish(d, q, result)
    PROVE  /\ Table
           /\ \A r \in Rows : r # q => row'[r] = row[r]
           /\ ~Owns(d, q) => UNCHANGED row
           /\ Owns(d, q) => /\ row'[q].status \in {"sent", "pending", "failed"}
                            /\ result = "sent" => row'[q].status = "sent"
<1>1. CASE ~Owns(d, q)
  <2>1. UNCHANGED row
    BY <1>1 DEF Finish
  <2> QED BY <1>1, <2>1, RowsKept
<1>2. CASE Owns(d, q)
  <2>0. row[q].status = "sending"
    BY <1>2 DEF Owns
  <2>1. PICK x \in {Released(q, "sent"), Again(q), Released(q, "failed")} :
           /\ row' = [row EXCEPT ![q] = x]
           /\ result = "sent" => x = Released(q, "sent")
    BY <1>2 DEF Finish, Again
  <2>2. /\ RowOK(x) /\ x.status \in {"sent", "pending", "failed"} /\ x.token = row[q].token
        /\ result = "sent" => x.status = "sent"
    BY <2>0, <2>1, ReleasedRow, AgainRow
  <2>3. /\ row \in [Rows -> OutboxRow] /\ x \in OutboxRow
    BY <2>2, RowFacts DEF RowOK
  <2>4. /\ row' \in [Rows -> OutboxRow] /\ row'[q] = x
        /\ \A r \in Rows : r # q => row'[r] = row[r]
    BY <2>1, <2>3
  <2>5. Table
    BY <2>0, <2>2, <2>4, RowsChanged, q \in Rows, {q} \in SUBSET Rows
  <2> QED BY <1>2, <2>2, <2>4, <2>5
<1> QED BY <1>1, <1>2

-----------------------------------------------------------------------------
(* What is closed stays closed, and a row somebody else holds is left to    *)
(* him or closed.                                                           *)
Leaves(d) ==
    /\ Table
    /\ \A r \in Rows : Closed(r) => Closed(r)'
    /\ \A r \in Rows, e \in Dispatchers \ {d} : Held(e, r) => row'[r] = row[r] \/ Closed(r)'

LEMMA KeptLeaves == ASSUME TypeOK, NEW d, UNCHANGED row PROVE Leaves(d)
BY RowsKept DEF Leaves, Closed

LEMMA GoneLeaves ==
    ASSUME TypeOK, NEW d, NEW hit \in SUBSET Stored, Rewrite(hit, Gone)
    PROVE  Leaves(d)
<1>1. /\ Table
      /\ \A r \in Rows : row'[r] = IF r \in hit THEN Gone(r) ELSE row[r]
  BY RowsGone
<1>2. \A r \in hit : Closed(r)'
  BY <1>1, GoneRow DEF Closed, Stored
<1>3. \A r \in Rows \ hit : row'[r] = row[r]
  BY <1>1
<1> QED BY <1>1, <1>2, <1>3 DEF Leaves, Closed

LEMMA PruneLeaves == ASSUME TypeOK, NEW d, PruneExpired PROVE Leaves(d)
<1>1. PICK hit \in SUBSET Stored : Rewrite(hit, Gone)
  BY DEF PruneExpired
<1> QED BY <1>1, GoneLeaves

LEMMA RevokeLeaves == ASSUME TypeOK, NEW d, NEW tokens, Revoke(tokens) PROVE Leaves(d)
<1>1. PICK hit \in SUBSET Stored : Rewrite(hit, Gone)
  BY DEF Revoke
<1> QED BY <1>1, GoneLeaves

LEMMA RemoveLeaves ==
    ASSUME TypeOK, NEW d \in Dispatchers, NEW c, RemoveDevice(d) PROVE Leaves(c)
<1>1. PICK hit \in SUBSET Stored : Rewrite(hit, Gone)
  BY DEF RemoveDevice
<1> QED BY <1>1, GoneLeaves

LEMMA EnqueueLeaves ==
    ASSUME TypeOK, NEW d, NEW m \in Messages, Enqueue(m) PROVE Leaves(d)
<1>1. PICK id \in [Lacking(m) -> Fresh] :
         row' = [r \in Rows |-> IF \E t \in Lacking(m) : id[t] = r
                                THEN Queued(m, CHOOSE t \in Lacking(m) : id[t] = r)
                                ELSE row[r]]
  BY DEF Enqueue
<1>2. ASSUME NEW r \in Rows
      PROVE  /\ \/ row'[r] = row[r]
                \/ row[r].status = "unused" /\ row'[r].status = "pending"
             /\ RowOK(row'[r]) /\ RowOK(row[r])
  <2>1. CASE \E t \in Lacking(m) : id[t] = r
    <3>1. r \in Fresh /\ (CHOOSE t \in Lacking(m) : id[t] = r) \in Tokens
      BY <2>1 DEF Lacking
    <3>2. row'[r] = Queued(m, CHOOSE t \in Lacking(m) : id[t] = r)
      BY <1>1, <2>1
    <3> QED BY <3>1, <3>2, QueuedRow, RowFacts DEF Fresh
  <2>2. CASE ~ \E t \in Lacking(m) : id[t] = r
    <3>1. row'[r] = row[r]
      BY <1>1, <2>2
    <3> QED BY <3>1, RowFacts
  <2> QED BY <2>1, <2>2
<1>3. row' \in [Rows -> OutboxRow]
  <2>1. row' = [r \in Rows |-> row'[r]]
    BY <1>1
  <2> QED BY <1>2, <2>1 DEF RowOK
<1>4. Table
  BY <1>2, <1>3 DEF Table, RowStep
<1> QED BY <1>2, <1>4 DEF Leaves, Closed, Held, Owns

(* The rows of a claim, by what they were.                                 *)
LEMMA ClaimLeaves ==
    ASSUME TypeOK, NEW d \in Dispatchers, Claim(d)
    PROVE  Leaves(d)
<1>1. /\ row' = [r \in Rows |-> AfterClaim(d, r)]
      /\ \A r \in Rows : row'[r] = AfterClaim(d, r)
  BY DEF Claim
<1>2. ASSUME NEW r \in Rows
      PROVE  /\ RowStep(r)
             /\ Closed(r) => Closed(r)'
             /\ \A e \in Dispatchers : Held(e, r) => row'[r] = row[r] \/ Closed(r)'
  <2>a. \/ row'[r] = row[r]
        \/ row[r].status \in {"pending", "sending"} /\ row'[r] = Released(r, "failed")
        \/ /\ row[r].status = "pending" \/ Lapsed(r)
           /\ row'[r] \in {Claimed(d, r), Released(r, "pending")}
    BY <1>1 DEF AfterClaim, Expired, Homeless, Waiting, Due, Lapsed
  <2>0. RowOK(row[r]) /\ row[r] \in OutboxRow /\ now \in Nat
    BY RowFacts DEF RowOK
  <2>1. CASE row'[r] = row[r]
    BY <2>0, <2>1 DEF RowStep, Closed
  <2>2. CASE row[r].status \in {"pending", "sending"} /\ row'[r] = Released(r, "failed")
    BY <2>2, ReleasedRow DEF RowStep, Closed
  <2>3. CASE /\ row[r].status = "pending" \/ Lapsed(r)
             /\ row'[r] \in {Claimed(d, r), Released(r, "pending")}
    <3>1. row[r].status \in {"pending", "sending"}
      BY <2>3 DEF Lapsed
    <3>2. RowStep(r)
      BY <2>3, <3>1, ReleasedRow, ClaimedRow DEF RowStep
    <3>3. \A e \in Dispatchers : ~Held(e, r)
      BY <2>0, <2>3 DEF Held, Owns, Lapsed, OutboxRow
    <3> QED BY <3>1, <3>2, <3>3 DEF Closed
  <2> QED BY <2>a, <2>1, <2>2, <2>3
<1>3. row' \in [Rows -> OutboxRow]
  <2>1. \A r \in Rows : RowOK(AfterClaim(d, r))
    BY <1>1, <1>2 DEF RowStep
  <2> QED BY <1>1, <2>1 DEF RowOK
<1> QED BY <1>2, <1>3 DEF Leaves, Table

LEMMA RenewLeaves ==
    ASSUME TypeOK, NEW d \in Dispatchers, NEW hit \in SUBSET Rows,
           \A r \in hit : Owns(d, r), Rewrite(hit, Renewed)
    PROVE  Leaves(d)
<1>1. /\ Table
      /\ \A r \in Rows : row'[r] = IF r \in hit THEN Renewed(r) ELSE row[r]
  BY RowsRenewed
<1>2. ASSUME NEW r \in Rows
      PROVE  /\ Closed(r) => Closed(r)'
             /\ \A e \in Dispatchers \ {d} : Held(e, r) => row'[r] = row[r]
  BY <1>1 DEF Closed, Held, Owns
<1> QED BY <1>1, <1>2 DEF Leaves

LEMMA FinishLeaves ==
    ASSUME TypeOK, NEW d \in Dispatchers, NEW q \in Rows, NEW result, Finish(d, q, result)
    PROVE  Leaves(d)
<1>1. /\ Table
      /\ \A r \in Rows : row'[r] = row[r] \/ (r = q /\ Owns(d, r))
  BY FinishedRow
<1>2. ASSUME NEW r \in Rows
      PROVE  /\ Closed(r) => Closed(r)'
             /\ \A e \in Dispatchers \ {d} : Held(e, r) => row'[r] = row[r]
  BY <1>1 DEF Closed, Held, Owns
<1> QED BY <1>1, <1>2 DEF Leaves

LEMMA CrashLeaves ==
    ASSUME TypeOK, NEW d \in Dispatchers, Crash(d)
    PROVE  /\ Leaves(d)
           /\ \A r \in Rows : row'[r] = IF Owns(d, r) THEN Disowned(r) ELSE row[r]
<1>1. row' = [r \in Rows |-> IF Owns(d, r) THEN Disowned(r) ELSE row[r]]
  BY DEF Crash, Rewrite, Disowned
<1>2. ASSUME NEW r \in Rows
      PROVE  /\ RowOK(row'[r]) /\ RowStep(r)
             /\ Closed(r) => Closed(r)'
             /\ \A e \in Dispatchers \ {d} : Held(e, r) => row'[r] = row[r]
  <2>1. CASE Owns(d, r)
    <3>1. row'[r] = Disowned(r) /\ row[r].status = "sending"
      BY <1>1, <2>1 DEF Owns
    <3> QED BY <2>1, <3>1, DisownedRow DEF RowStep, Closed, Held, Owns
  <2>2. CASE ~Owns(d, r)
    BY <1>1, <2>2, RowFacts DEF RowStep, Closed
  <2> QED BY <2>1, <2>2
<1>3. row' \in [Rows -> OutboxRow]
  BY <1>1, <1>2 DEF RowOK
<1> QED BY <1>1, <1>2, <1>3 DEF Leaves, Table

-----------------------------------------------------------------------------
(* The step of a dispatcher: it moves nobody but itself, and whoever is     *)
(* behind the fence holds it.                                               *)
Behind == {"fenced", "check", "post"}

Moved(d) ==
    /\ pc' \in [Dispatchers -> Places] /\ mine' \in [Dispatchers -> Seq(Rows)]
    /\ reply' \in [Dispatchers -> Answers \cup {"none"}]
    /\ \A e \in Dispatchers \ {d} : /\ pc'[e] = pc[e] /\ mine'[e] = mine[e]
                                    /\ reply'[e] = reply[e]

Guarded ==
    /\ fence' \in Dispatchers \cup {Nobody}
    /\ \A d \in Dispatchers : /\ fence' = d <=> pc'[d] \in Behind
                              /\ pc'[d] \notin {"idle", "claim", "next"} => mine'[d] # <<>>

LEMMA MoveIsMoved ==
    ASSUME TypeOK, NEW d \in Dispatchers, NEW place \in Places, NEW rows \in Seq(Rows),
           NEW answer \in Answers \cup {"none"},
           pc' = [pc EXCEPT ![d] = place],
           mine' = [mine EXCEPT ![d] = rows] \/ (UNCHANGED mine /\ rows = mine[d]),
           reply' = [reply EXCEPT ![d] = answer] \/ UNCHANGED reply,
           place \notin {"idle", "claim", "next"} => rows # <<>>,
           \/ place \in Behind /\ fence' = d /\ fence \in {Nobody, d}
           \/ place \notin Behind /\ fence' = IF fence = d THEN Nobody ELSE fence
    PROVE  Moved(d) /\ Guarded
<1>1. /\ pc \in [Dispatchers -> Places] /\ mine \in [Dispatchers -> Seq(Rows)]
      /\ reply \in [Dispatchers -> Answers \cup {"none"}]
      /\ fence \in Dispatchers \cup {Nobody}
      /\ \A e \in Dispatchers : /\ fence = e <=> pc[e] \in Behind
                                /\ pc[e] \notin {"idle", "claim", "next"} => mine[e] # <<>>
      /\ Nobody \notin Dispatchers
  BY Numbers DEF TypeOK, Behind
<1>2. /\ pc' \in [Dispatchers -> Places] /\ pc'[d] = place
      /\ \A e \in Dispatchers \ {d} : pc'[e] = pc[e]
  BY <1>1
<1>3. /\ mine' \in [Dispatchers -> Seq(Rows)] /\ mine'[d] = rows
      /\ \A e \in Dispatchers \ {d} : mine'[e] = mine[e]
  BY <1>1
<1>4. /\ reply' \in [Dispatchers -> Answers \cup {"none"}]
      /\ \A e \in Dispatchers \ {d} : reply'[e] = reply[e]
  BY <1>1
<1>5. /\ fence' \in Dispatchers \cup {Nobody}
      /\ fence' = d <=> place \in Behind
      /\ \A e \in Dispatchers \ {d} : fence' = e <=> fence = e
  BY <1>1
<1> QED BY <1>1, <1>2, <1>3, <1>4, <1>5 DEF Moved, Guarded

LEMMA AtHand ==
    ASSUME TypeOK, NEW d \in Dispatchers
    PROVE  /\ mine[d] \in Seq(Rows) /\ reply[d] \in Answers \cup {"none"} /\ pc[d] \in Places
           /\ pc[d] \notin {"idle", "claim", "next"} =>
                 /\ mine[d] # <<>> /\ Next1(d) \in Rows /\ Tail(mine[d]) \in Seq(Rows)
           /\ fence = d <=> pc[d] \in Behind
           /\ mine[d] # <<>> => Tail(mine[d]) \in Seq(Rows)
BY NextRow DEF TypeOK, Behind

LEMMA ActorMoves ==
    ASSUME TypeOK, NEW d \in Dispatchers,
           StartDispatch(d) \/ Work(d) \/ Heartbeat(d) \/ Crash(d)
    PROVE  Moved(d) /\ Guarded
<1> USE DEF Goto, Continue, dispatch, Places
<1>n. Nobody # d /\ Nobody \notin Dispatchers
  BY Numbers
<1>c. ASSUME mine[d] # <<>>, Continue(d), UNCHANGED reply,
             fence' = IF fence = d THEN Nobody ELSE fence
      PROVE  Moved(d) /\ Guarded
  <2>1. /\ Tail(mine[d]) \in Seq(Rows) /\ reply[d] \in Answers \cup {"none"}
        /\ "next" \in Places /\ "next" \notin Behind
    BY <1>c, AtHand DEF Behind
  <2> QED BY <1>c, <2>1, MoveIsMoved
<1>1. CASE StartDispatch(d)
  BY <1>1, <1>n, AtHand, MoveIsMoved DEF StartDispatch, Behind
<1>2. CASE Claim(d)
  <2>1. PICK s \in [1 .. Cardinality(Due) -> Due] : mine' = [mine EXCEPT ![d] = s]
    BY <1>2 DEF Claim, TakesInOrder
  <2>2. IsFiniteSet(Due) /\ Due \subseteq Rows
    <3>1. Due \subseteq Rows
      BY DEF Due
    <3>2. IsFiniteSet(Rows)
      BY FS_Interval, Numbers DEF Rows
    <3> QED BY <3>1, <3>2, FS_Subset
  <2>3. Cardinality(Due) \in Nat
    BY <2>2, FS_CardinalityType
  <2>4. s \in Seq(Rows)
    BY <2>2, <2>3, SeqDef
  <2>5. PICK place \in {"idle", "next"} : pc' = [pc EXCEPT ![d] = place]
    BY <1>2 DEF Claim
  <2>6. fence' = fence /\ fence # d /\ UNCHANGED reply
    BY <1>2, AtHand DEF Claim, Behind
  <2> QED BY <2>1, <2>4, <2>5, <2>6, AtHand, MoveIsMoved DEF Behind
<1>3. CASE DispatchEnds(d)
  BY <1>3, <1>n, AtHand, MoveIsMoved DEF DispatchEnds, Behind
<1>4. CASE RenewRemaining(d)
  <2>1. CASE Owns(d, Next1(d))
    BY <1>4, <2>1, AtHand, MoveIsMoved DEF RenewRemaining, Behind
  <2>2. CASE ~Owns(d, Next1(d))
    <3>1. pc[d] = "next" /\ mine[d] # <<>> /\ Continue(d) /\ UNCHANGED <<reply, fence>>
      BY <1>4, <2>2 DEF RenewRemaining
    <3>2. fence # d
      BY <3>1, AtHand DEF Behind
    <3> QED BY <1>c, <3>1, <3>2
  <2> QED BY <2>1, <2>2
<1>5. CASE PrepareFails(d)
  <2>1. pc[d] = "prepare" /\ Continue(d) /\ UNCHANGED <<reply, fence>>
    BY <1>5 DEF PrepareFails
  <2>2. fence # d /\ mine[d] # <<>>
    BY <2>1, AtHand DEF Behind
  <2> QED BY <1>c, <2>1, <2>2
<1>6. CASE EnterFence(d)
  BY <1>6, AtHand, MoveIsMoved DEF EnterFence, Behind
<1>7. CASE RenewFenced(d)
  <2>1. CASE Owns(d, Next1(d))
    <3>1. /\ pc' = [pc EXCEPT ![d] = "check"] /\ UNCHANGED <<mine, fence, reply>>
          /\ pc[d] = "fenced"
      BY <1>7, <2>1 DEF RenewFenced
    <3>2. /\ fence' = d /\ fence \in {Nobody, d} /\ mine[d] # <<>>
          /\ mine[d] \in Seq(Rows) /\ reply[d] \in Answers \cup {"none"}
      BY <3>1, AtHand DEF Behind
    <3>3. "check" \in Places /\ "check" \in Behind
      BY DEF Behind
    <3> HIDE DEF Places
    <3>4. ASSUME NEW place \in Places, place \in Behind, pc' = [pc EXCEPT ![d] = place]
          PROVE  Moved(d) /\ Guarded
      <4>1. /\ UNCHANGED mine /\ UNCHANGED reply
            /\ place \notin {"idle", "claim", "next"} => mine[d] # <<>>
        BY <3>1, <3>2
      <4> QED BY <3>2, <3>4, <4>1, MoveIsMoved, Zenon
    <3> QED BY <3>1, <3>3, <3>4
  <2>2. CASE ~Owns(d, Next1(d))
    <3>1. pc[d] = "fenced" /\ Continue(d) /\ UNCHANGED reply /\ fence' = Nobody
      BY <1>7, <2>2 DEF RenewFenced
    <3>2. fence = d /\ mine[d] # <<>>
      BY <3>1, AtHand DEF Behind
    <3> QED BY <1>c, <3>1, <3>2
  <2> QED BY <2>1, <2>2
<1>8. CASE CheckDevice(d)
  <2>1. CASE Live(row[Next1(d)].token)
    <3>1. /\ pc' = [pc EXCEPT ![d] = "post"] /\ UNCHANGED <<mine, fence, reply>>
          /\ pc[d] = "check"
      BY <1>8, <2>1 DEF CheckDevice
    <3>2. /\ fence' = d /\ fence \in {Nobody, d} /\ mine[d] # <<>>
          /\ mine[d] \in Seq(Rows) /\ reply[d] \in Answers \cup {"none"}
      BY <3>1, AtHand DEF Behind
    <3>3. "post" \in Places /\ "post" \in Behind
      BY DEF Behind
    <3> HIDE DEF Places
    <3>4. ASSUME NEW place \in Places, place \in Behind, pc' = [pc EXCEPT ![d] = place]
          PROVE  Moved(d) /\ Guarded
      <4>1. /\ UNCHANGED mine /\ UNCHANGED reply
            /\ place \notin {"idle", "claim", "next"} => mine[d] # <<>>
        BY <3>1, <3>2
      <4> QED BY <3>2, <3>4, <4>1, MoveIsMoved, Zenon
    <3> QED BY <3>1, <3>3, <3>4
  <2>2. CASE ~Live(row[Next1(d)].token)
    <3>1. pc[d] = "check" /\ Continue(d) /\ UNCHANGED reply /\ fence' = Nobody
      BY <1>8, <2>2 DEF CheckDevice
    <3>2. fence = d /\ mine[d] # <<>>
      BY <3>1, AtHand DEF Behind
    <3> QED BY <1>c, <3>1, <3>2
  <2> QED BY <2>1, <2>2
<1>9. CASE Post(d) \/ HeartbeatLost(d)
  <2>1. PICK answer \in Answers : Answer(d, answer)
    BY <1>9 DEF Post, HeartbeatLost, Answers
  <2>2. UNCHANGED mine /\ pc[d] = "post"
    BY <1>9 DEF Post, HeartbeatLost
  <2>3. fence' = Nobody /\ fence = d /\ reply' = [reply EXCEPT ![d] = answer]
        /\ pc' = [pc EXCEPT ![d] = "finish"]
    BY <2>1, <2>2, AtHand DEF Answer, Behind
  <2> QED BY <2>2, <2>3, AtHand, MoveIsMoved DEF Behind
<1>10. CASE FinishRow(d)
  <2>1. /\ pc[d] = "finish" /\ fence' = fence /\ fence # d
        /\ reply' = [reply EXCEPT ![d] = "none"]
    BY <1>10, AtHand DEF FinishRow, Behind
  <2>2. CASE reply[d] = "invalid" /\ Owns(d, Next1(d))
    <3>1. pc' = [pc EXCEPT ![d] = "remove"] /\ UNCHANGED mine
      BY <1>10, <2>2 DEF FinishRow
    <3> QED BY <2>1, <3>1, AtHand, MoveIsMoved DEF Behind
  <2>3. CASE ~(reply[d] = "invalid" /\ Owns(d, Next1(d)))
    <3>1. pc' = [pc EXCEPT ![d] = "next"] /\ mine' = [mine EXCEPT ![d] = Tail(mine[d])]
      BY <1>10, <2>3 DEF FinishRow
    <3> QED BY <2>1, <3>1, AtHand, MoveIsMoved DEF Behind
  <2> QED BY <2>2, <2>3
<1>11. CASE RemoveDevice(d)
  BY <1>11, AtHand, MoveIsMoved DEF RemoveDevice, Behind
<1>12. CASE Heartbeat(d)
  BY <1>12, AtHand DEF Heartbeat, Moved, Guarded, TypeOK, Behind
<1>13. CASE Crash(d)
  <2>1. <<>> \in Seq(Rows)
    OBVIOUS
  <2> QED BY <1>13, <2>1, AtHand, MoveIsMoved DEF Crash, Behind
<1> QED BY <1>1, <1>2, <1>3, <1>4, <1>5, <1>6, <1>7, <1>8, <1>9, <1>10, <1>11, <1>12, <1>13
        DEF Work

LEMMA ActorLeaves ==
    ASSUME TypeOK, NEW d \in Dispatchers,
           StartDispatch(d) \/ Work(d) \/ Heartbeat(d) \/ Crash(d)
    PROVE  Leaves(d)
<1>1. CASE StartDispatch(d)
  BY <1>1, PruneLeaves DEF StartDispatch
<1>2. CASE Claim(d)
  BY <1>2, ClaimLeaves
<1>3. CASE DispatchEnds(d) \/ EnterFence(d) \/ Post(d) \/ HeartbeatLost(d)
  BY <1>3, KeptLeaves DEF DispatchEnds, EnterFence, Post, HeartbeatLost
<1>4. CASE RenewRemaining(d)
  <2>1. PICK hit \in SUBSET Rows : Rewrite(hit, Renewed) /\ \A r \in hit : Owns(d, r)
    BY <1>4, NextRow DEF RenewRemaining
  <2> QED BY <2>1, RenewLeaves
<1>5. CASE PrepareFails(d) \/ FinishRow(d)
  <2>1. PICK result : Finish(d, Next1(d), result)
    BY <1>5 DEF PrepareFails, FinishRow
  <2>2. Next1(d) \in Rows
    BY <1>5, AtHand DEF PrepareFails, FinishRow
  <2> QED BY <2>1, <2>2, FinishLeaves
<1>6. CASE RenewFenced(d) \/ Heartbeat(d)
  <2>1. Next1(d) \in Rows
    BY <1>6, AtHand DEF RenewFenced, Heartbeat
  <2>2. \/ UNCHANGED row
        \/ Owns(d, Next1(d)) /\ Rewrite({Next1(d)}, Renewed)
    BY <1>6 DEF RenewFenced, Heartbeat
  <2>3. CASE Owns(d, Next1(d)) /\ Rewrite({Next1(d)}, Renewed)
    <3>1. {Next1(d)} \in SUBSET Rows /\ \A r \in {Next1(d)} : Owns(d, r)
      BY <2>1, <2>3
    <3> QED BY <2>3, <3>1, RenewLeaves
  <2> QED BY <2>2, <2>3, KeptLeaves
<1>7. CASE CheckDevice(d)
  <2>1. Next1(d) \in Rows
    BY <1>7, AtHand DEF CheckDevice
  <2>2. UNCHANGED row \/ Finish(d, Next1(d), "fail")
    BY <1>7 DEF CheckDevice
  <2> QED BY <2>1, <2>2, KeptLeaves, FinishLeaves
<1>8. CASE RemoveDevice(d)
  BY <1>8, RemoveLeaves
<1>9. CASE Crash(d)
  BY <1>9, CrashLeaves
<1> QED BY <1>1, <1>2, <1>3, <1>4, <1>5, <1>6, <1>7, <1>8, <1>9 DEF Work

LEMMA RequestLeaves == ASSUME TypeOK, NEW d, Requests PROVE Leaves(d)
<1>1. CASE \E t \in Tokens : Register(t)
  BY <1>1, KeptLeaves DEF Register
<1>2. CASE (\E t \in Tokens : Unregister(t)) \/ RevokeAll
  BY <1>2, RevokeLeaves DEF Unregister, RevokeAll
<1>3. CASE Maintain
  BY <1>3, PruneLeaves DEF Maintain
<1>4. CASE \E m \in Messages : Enqueue(m)
  BY <1>4, EnqueueLeaves
<1> QED BY <1>1, <1>2, <1>3, <1>4 DEF Requests

LEMMA DevicesType ==
    ASSUME TypeOK, [Next]_vars
    PROVE  device' \in [Tokens -> Nat] /\ now' \in 1 .. Horizon
<1>0. device \in [Tokens -> Nat] /\ now \in 1 .. Horizon
  BY DEF TypeOK
<1>1. ASSUME NEW t \in Tokens, Register(t) PROVE device' \in [Tokens -> Nat] /\ now' = now
  <2>1. now + DeviceLease \in Nat
    BY <1>0, Numbers
  <2> QED BY <1>0, <1>1, <2>1 DEF Register
<1>2. ASSUME NEW tokens, Revoke(tokens) PROVE device' \in [Tokens -> Nat] /\ now' = now
  BY <1>0, <1>2 DEF Revoke
<1>3. ASSUME PruneExpired PROVE device' \in [Tokens -> Nat]
  BY <1>0, <1>3 DEF PruneExpired
<1>4. ASSUME NEW d \in Dispatchers, RemoveDevice(d)
      PROVE  device' \in [Tokens -> Nat] /\ now' = now
  BY <1>0, <1>4 DEF RemoveDevice
<1>5. ASSUME Tick PROVE now' \in 1 .. Horizon /\ UNCHANGED device
  BY <1>0, <1>5, Numbers DEF Tick
<1> QED
  BY <1>0, <1>1, <1>2, <1>3, <1>4, <1>5
     DEF Next, Requests, Unregister, RevokeAll, Maintain, Enqueue, StartDispatch, Work, Claim,
         DispatchEnds, RenewRemaining, PrepareFails, EnterFence, RenewFenced, CheckDevice,
         Heartbeat, Post, HeartbeatLost, FinishRow, Crash, vars

LEMMA HistoryType ==
    ASSUME TypeOK, [Next]_vars
    PROVE  /\ delivered' \in [Rows -> Nat] /\ revoked' \subseteq Tokens /\ barred' \subseteq Rows
           /\ crashes' \in 0 .. MaxCrashes /\ stalls' \in 0 .. MaxStalls
           /\ losses' \in 0 .. MaxLosses
<1> USE DEF history, bounds
<1>0. /\ delivered \in [Rows -> Nat] /\ revoked \subseteq Tokens /\ barred \subseteq Rows
      /\ crashes \in 0 .. MaxCrashes /\ stalls \in 0 .. MaxStalls /\ losses \in 0 .. MaxLosses
  BY DEF TypeOK
<1>1. ASSUME NEW d \in Dispatchers, pc[d] = "post", Accepted(d)
      PROVE  delivered' \in [Rows -> Nat]
  <2>1. Next1(d) \in Rows
    BY <1>1, AtHand
  <2> QED BY <1>0, <1>1, <2>1 DEF Accepted
<1>2. ASSUME NEW d \in Dispatchers, Post(d) \/ HeartbeatLost(d)
      PROVE  /\ delivered' \in [Rows -> Nat] /\ UNCHANGED <<revoked, barred, crashes, stalls>>
             /\ losses' \in 0 .. MaxLosses
  BY <1>0, <1>1, <1>2, Numbers DEF Post, HeartbeatLost
<1>3. ASSUME NEW d \in Dispatchers, Crash(d)
      PROVE  /\ delivered' \in [Rows -> Nat] /\ UNCHANGED <<revoked, barred, losses, stalls>>
             /\ crashes' \in 0 .. MaxCrashes
  BY <1>0, <1>1, <1>3, Numbers DEF Crash
<1>4. ASSUME Tick
      PROVE  /\ UNCHANGED <<delivered, revoked, barred, losses, crashes>>
             /\ stalls' \in 0 .. MaxStalls
  BY <1>0, <1>4, Numbers DEF Tick
<1>5. ASSUME NEW tokens \in SUBSET Tokens, Revoke(tokens)
      PROVE  /\ UNCHANGED <<delivered, losses, crashes, stalls>>
             /\ revoked' \subseteq Tokens /\ barred' \subseteq Rows
  BY <1>0, <1>5 DEF Revoke, Stored
<1>6. ASSUME \/ \E t \in Tokens : Register(t)
             \/ Maintain \/ \E m \in Messages : Enqueue(m)
      PROVE  /\ UNCHANGED <<delivered, barred, losses, crashes, stalls>>
             /\ revoked' \subseteq Tokens
  BY <1>0, <1>6 DEF Register, Maintain, Enqueue
<1>7. CASE Requests
  <2>1. CASE (\E t \in Tokens : Unregister(t)) \/ RevokeAll
    <3>1. PICK tokens \in SUBSET Tokens : Revoke(tokens)
      BY <2>1 DEF Unregister, RevokeAll
    <3> QED BY <1>0, <1>5, <3>1
  <2>2. CASE ~((\E t \in Tokens : Unregister(t)) \/ RevokeAll)
    BY <1>0, <1>6, <1>7, <2>2 DEF Requests
  <2> QED BY <2>1, <2>2
<1>8. ASSUME NEW d \in Dispatchers, StartDispatch(d) \/ Work(d) \/ Heartbeat(d),
             ~Post(d), ~HeartbeatLost(d)
      PROVE  UNCHANGED <<history, bounds>>
  BY <1>8 DEF StartDispatch, Work, Claim, DispatchEnds, RenewRemaining, PrepareFails,
              EnterFence, RenewFenced, CheckDevice, FinishRow, RemoveDevice, Heartbeat
<1>9. CASE UNCHANGED vars
  BY <1>0, <1>9 DEF vars
<1> QED BY <1>0, <1>2, <1>3, <1>4, <1>7, <1>8, <1>9 DEF Next, Work

LEMMA OutboxTypeStep == ASSUME TypeOK, [Next]_vars PROVE TypeOK'
<1>1. Table
  <2>1. CASE Tick \/ UNCHANGED vars
    BY <2>1, RowsKept DEF Tick, vars
  <2> QED BY <2>1, ActorLeaves, RequestLeaves DEF Next, Leaves
<1>2. ASSUME Requests \/ Tick \/ UNCHANGED vars PROVE UNCHANGED <<fence, dispatch>>
  BY <1>2 DEF Requests, Register, Unregister, RevokeAll, Revoke, Maintain, Enqueue, Tick, vars
<1>3. /\ pc' \in [Dispatchers -> Places] /\ mine' \in [Dispatchers -> Seq(Rows)]
      /\ reply' \in [Dispatchers -> Answers \cup {"none"}] /\ Guarded
  <2>1. CASE Requests \/ Tick \/ UNCHANGED vars
    BY <1>2, <2>1 DEF TypeOK, dispatch, Guarded, Behind
  <2> QED BY <2>1, ActorMoves DEF Next, Moved
<1>4. /\ row' \in [Rows -> OutboxRow]
      /\ \A r \in Rows : RowOK(row'[r])
  BY <1>1 DEF Table, RowStep
<1> QED BY <1>3, <1>4, DevicesType, HistoryType DEF TypeOK, RowOK, Guarded, Behind

-----------------------------------------------------------------------------
(* A revocation takes the registrations and the rows of its devices, and no *)
(* other step gives anything back to a revoked device.                      *)
LEMMA DevicesKept ==
    ASSUME TypeOK, NEW d \in Dispatchers,
           StartDispatch(d) \/ Work(d) \/ Heartbeat(d) \/ Crash(d)
    PROVE  /\ UNCHANGED <<now, revoked, barred>>
           /\ \A t \in Tokens : device[t] = 0 => device'[t] = 0
<1>0. device \in [Tokens -> Nat]
  BY DEF TypeOK
<1>1. CASE StartDispatch(d)
  BY <1>0, <1>1 DEF StartDispatch, PruneExpired, Registered, history, bounds
<1>2. CASE RemoveDevice(d)
  BY <1>0, <1>2 DEF RemoveDevice, history, bounds
<1>3. CASE ~StartDispatch(d) /\ ~RemoveDevice(d)
  BY <1>3 DEF Work, Claim, DispatchEnds, RenewRemaining, PrepareFails, EnterFence, RenewFenced,
              CheckDevice, Post, HeartbeatLost, FinishRow, Heartbeat, Crash, history, bounds
<1> QED BY <1>1, <1>2, <1>3

LEMMA SilentBystander ==
    ASSUME TypeOK, SilenceOK, Table, NEW e \in Dispatchers, pc[e] \in {"check", "post"},
           pc'[e] = pc[e], mine'[e] = mine[e], UNCHANGED <<revoked, barred>>
    PROVE  /\ (Next1(e) \notin barred /\ row[Next1(e)].status # "unused")'
           /\ pc[e] = "post" => (row[Next1(e)].token \notin revoked)'
<1>1. Next1(e) \in Rows /\ Next1(e)' = Next1(e)
  BY AtHand DEF Next1
<1>2. RowStep(Next1(e))
  BY <1>1 DEF Table
<1> QED BY <1>1, <1>2 DEF SilenceOK, RowStep

LEMMA SilenceActor ==
    ASSUME TypeOK, SilenceOK, NEW d \in Dispatchers,
           StartDispatch(d) \/ Work(d) \/ Heartbeat(d) \/ Crash(d)
    PROVE  SilenceOK'
<1>1. Table
  BY ActorLeaves DEF Leaves
<1>2. /\ UNCHANGED <<now, revoked, barred>> /\ revoked \subseteq Tokens /\ barred \subseteq Rows
      /\ \A t \in Tokens : device[t] = 0 => device'[t] = 0
  BY DevicesKept DEF TypeOK
<1>3. (\A t \in revoked : device[t] = 0)' /\ (\A r \in barred : row[r].status = "gone")'
  BY <1>1, <1>2 DEF SilenceOK, Table, RowStep
<1>4. ASSUME NEW e \in Dispatchers, pc'[e] \in {"check", "post"}
      PROVE  /\ (Next1(e) \notin barred /\ row[Next1(e)].status # "unused")'
             /\ pc'[e] = "post" => (row[Next1(e)].token \notin revoked)'
  <2>1. CASE e # d
    <3>1. pc'[e] = pc[e] /\ mine'[e] = mine[e]
      BY <2>1, ActorMoves DEF Moved
    <3> QED BY <1>1, <1>2, <1>4, <3>1, SilentBystander
  <2>2. CASE e = d /\ Heartbeat(d)
    <3>1. pc'[e] = pc[e] /\ mine'[e] = mine[e]
      BY <2>2 DEF Heartbeat, dispatch
    <3> QED BY <1>1, <1>2, <1>4, <3>1, SilentBystander
  <2>3. CASE e = d /\ ~Heartbeat(d)
    <3>0. pc[d] \in Places /\ pc \in [Dispatchers -> Places]
      BY DEF TypeOK
    <3>1. RenewFenced(d) \/ CheckDevice(d)
      BY <1>4, <2>3, <3>0
         DEF StartDispatch, Work, Claim, DispatchEnds, RenewRemaining, PrepareFails,
             EnterFence, Post, HeartbeatLost, FinishRow, RemoveDevice, Crash, Goto, Continue,
             Answer
    <3>2. CASE RenewFenced(d)
      <4>1. Owns(d, Next1(d)) /\ pc'[d] = "check" /\ UNCHANGED mine
        BY <1>4, <2>3, <3>0, <3>2 DEF RenewFenced, Goto, Continue
      <4>2. Next1(d) \in Rows /\ Next1(d)' = Next1(d)
        BY <3>2, <4>1, AtHand DEF RenewFenced, Next1
      <4>3. Next1(d) \notin barred /\ row[Next1(d)].status # "unused"
        BY <4>1 DEF Owns, SilenceOK
      <4> QED BY <1>1, <1>2, <2>3, <4>1, <4>2, <4>3 DEF Table, RowStep
    <3>3. CASE CheckDevice(d)
      <4>1. /\ Live(row[Next1(d)].token) /\ pc'[d] = "post" /\ pc[d] = "check"
            /\ UNCHANGED <<mine, row>>
        BY <1>4, <2>3, <3>0, <3>3 DEF CheckDevice, Goto, Continue
      <4>2. Next1(d) \in Rows /\ Next1(d)' = Next1(d)
        BY <4>1, AtHand DEF Next1
      <4>3. Next1(d) \notin barred /\ row[Next1(d)].status # "unused"
        BY <4>1 DEF SilenceOK
      <4>4. row[Next1(d)].token \notin revoked
        BY <1>2, <4>1, RowFacts, <4>2 DEF SilenceOK, Live
      <4> QED BY <1>2, <2>3, <4>1, <4>2, <4>3, <4>4
    <3> QED BY <3>1, <3>2, <3>3
  <2> QED BY <2>1, <2>2, <2>3
<1> QED BY <1>3, <1>4 DEF SilenceOK

LEMMA SilenceRequest == ASSUME TypeOK, SilenceOK, Requests PROVE SilenceOK'
<1>0. /\ Table /\ UNCHANGED <<pc, mine>> /\ device \in [Tokens -> Nat]
      /\ revoked \subseteq Tokens /\ barred \subseteq Rows
  BY RequestLeaves
     DEF Leaves, Requests, Register, Unregister, RevokeAll, Revoke, Maintain, Enqueue, dispatch,
         TypeOK
<1>1. ASSUME NEW t \in Tokens, Register(t) PROVE SilenceOK'
  <2>1. /\ revoked' = revoked \ {t} /\ UNCHANGED <<barred, row>>
        /\ \A u \in Tokens \ {t} : device'[u] = device[u]
    BY <1>0, <1>1 DEF Register
  <2>2. \A d \in Dispatchers : Next1(d)' = Next1(d)
    BY <1>0 DEF Next1
  <2> QED BY <1>0, <2>1, <2>2 DEF SilenceOK
<1>2. ASSUME NEW tokens \in SUBSET Tokens, Revoke(tokens) PROVE SilenceOK'
  <2>1. PICK hit \in SUBSET Stored :
           /\ Rewrite(hit, Gone) /\ barred' = barred \cup hit /\ revoked' = revoked \cup tokens
           /\ device' = [t \in Tokens |-> IF t \in tokens THEN 0 ELSE device[t]]
           /\ fence = Nobody
    BY <1>2 DEF Revoke
  <2>2. \A d \in Dispatchers : pc'[d] \notin {"check", "post"}
    BY <1>0, <2>1, AtHand, Numbers DEF Behind
  <2>3. \A r \in hit : row'[r].status = "gone"
    BY <2>1, RowsGone, GoneRow DEF Stored
  <2>4. \A r \in barred : row'[r].status = "gone"
    BY <1>0 DEF SilenceOK, Table, RowStep
  <2>5. \A t \in revoked' : device'[t] = 0
    BY <1>0, <2>1 DEF SilenceOK
  <2> QED BY <2>1, <2>2, <2>3, <2>4, <2>5 DEF SilenceOK
<1>3. CASE Maintain \/ \E m \in Messages : Enqueue(m)
  <2>1. /\ UNCHANGED <<revoked, barred>>
        /\ \A t \in Tokens : device[t] = 0 => device'[t] = 0
    BY <1>0, <1>3 DEF Maintain, PruneExpired, Enqueue, history, Registered
  <2>2. (\A t \in revoked : device[t] = 0)' /\ (\A r \in barred : row[r].status = "gone")'
    BY <1>0, <2>1 DEF SilenceOK, Table, RowStep
  <2>3. \A e \in Dispatchers : pc[e] \in {"check", "post"} =>
           /\ (Next1(e) \notin barred /\ row[Next1(e)].status # "unused")'
           /\ pc[e] = "post" => (row[Next1(e)].token \notin revoked)'
    BY <1>0, <2>1, SilentBystander
  <2> QED BY <1>0, <2>2, <2>3 DEF SilenceOK
<1>4. CASE (\E t \in Tokens : Unregister(t)) \/ RevokeAll
  <2>1. PICK tokens \in SUBSET Tokens : Revoke(tokens)
    BY <1>4 DEF Unregister, RevokeAll
  <2> QED BY <1>2, <2>1
<1> QED BY <1>1, <1>3, <1>4 DEF Requests

LEMMA SilenceStep == ASSUME TypeOK, SilenceOK, [Next]_vars PROVE SilenceOK'
<1>1. CASE Tick \/ UNCHANGED vars
  <2>1. UNCHANGED <<device, row, pc, mine, revoked, barred>>
    BY <1>1 DEF Tick, vars, dispatch, history
  <2> QED BY <2>1 DEF SilenceOK, Next1
<1> QED BY <1>1, SilenceActor, SilenceRequest DEF Next

-----------------------------------------------------------------------------
(* The account of a row.                                                   *)
Accounts ==
    \A r \in Rows :
        /\ delivered[r] \in Nat /\ Paid \in Nat
        /\ Open(r) /\ Ghost(r) => Spent(r) = delivered[r] + 2
        /\ Open(r) /\ ~Ghost(r) => Spent(r) = delivered[r] + 1
        /\ ~Open(r) /\ Ghost(r) => Spent(r) = delivered[r] + 1
        /\ ~Open(r) /\ ~Ghost(r) => Spent(r) = delivered[r]

LEMMA Weights == TypeOK => Accounts
<1> SUFFICES ASSUME TypeOK, NEW r \in Rows
             PROVE  /\ delivered[r] \in Nat /\ Paid \in Nat
                    /\ Open(r) /\ Ghost(r) => Spent(r) = delivered[r] + 2
                    /\ Open(r) /\ ~Ghost(r) => Spent(r) = delivered[r] + 1
                    /\ ~Open(r) /\ Ghost(r) => Spent(r) = delivered[r] + 1
                    /\ ~Open(r) /\ ~Ghost(r) => Spent(r) = delivered[r]
  BY DEF Accounts
<1>1. delivered[r] \in Nat /\ crashes \in Nat /\ stalls \in Nat /\ losses \in Nat
  BY Numbers DEF TypeOK
<1>2. Paid \in Nat
  BY <1>1 DEF Paid
<1> HIDE DEF Open, Ghost
<1> QED BY <1>1, <1>2 DEF Spent

(* The same, before and after a step.                                      *)
LEMMA WeightsStep == ASSUME TypeOK, TypeOK' PROVE Accounts /\ Accounts'
<1>1. (TypeOK => Accounts)'
  BY Weights, PTL
<1> QED BY <1>1, Weights

(* A row has one holder, and one dispatcher is behind the fence.           *)
LEMMA OneHolder ==
    ASSUME TypeOK, NEW d \in Dispatchers, NEW e \in Dispatchers, NEW r \in Rows
    PROVE  /\ Owns(d, r) /\ Owns(e, r) => d = e
           /\ pc[d] \in {"check", "post"} /\ pc[e] \in {"check", "post"} => d = e
           /\ Owns(d, r) => ~Closed(r)
BY AtHand DEF Owns, Behind, Closed

(* A step that delivers nothing, by one that leaves the others alone, does  *)
(* not unsettle its own row and does not go behind the fence on a lost one. *)
LEMMA QuietStep ==
    ASSUME TypeOK, TypeOK', BudgetOK, NEW d, Leaves(d), UNCHANGED <<now, delivered, bounds>>,
           \A e \in Dispatchers \ {d} : /\ pc'[e] = pc[e] /\ mine'[e] = mine[e]
                                        /\ reply'[e] = reply[e],
           \A r \in Rows : d \in Dispatchers /\ SettledBy(d, r) => Closed(r)',
           \A r \in Rows : d \in Dispatchers /\ GhostOf(d, r)' => GhostOf(d, r)
    PROVE  BudgetOK'
<1> SUFFICES ASSUME NEW r \in Rows PROVE (Spent(r) <= Paid)'
  BY DEF BudgetOK
<1>1. \A e \in Dispatchers \ {d} : Next1(e)' = Next1(e)
  BY DEF Next1
<1>2. Open(r)' => Open(r)
  <2>1. SUFFICES ASSUME ~Closed(r)', Settled(r) PROVE Settled(r)'
    BY DEF Open, Leaves
  <2>2. PICK e \in Dispatchers : SettledBy(e, r)
    BY <2>1 DEF Settled
  <2>3. e # d
    BY <2>1, <2>2
  <2>4. row'[r] = row[r]
    BY <2>1, <2>2, <2>3 DEF SettledBy, Leaves
  <2>5. SettledBy(e, r)'
    BY <1>1, <2>2, <2>3, <2>4 DEF SettledBy, Held, Owns
  <2> QED BY <2>5 DEF Settled
<1>3. Ghost(r)' => Ghost(r) \/ (Open(r) /\ ~Open(r)')
  <2>1. SUFFICES ASSUME Ghost(r)', ~Ghost(r) PROVE Open(r) /\ ~Open(r)'
    OBVIOUS
  <2>2. PICK e \in Dispatchers : GhostOf(e, r)'
    BY <2>1 DEF Ghost
  <2>3. e # d
    BY <2>1, <2>2 DEF Ghost
  <2>4. Held(e, r) /\ pc[e] \in {"check", "post"}
    BY <1>1, <2>1, <2>2, <2>3 DEF Ghost, GhostOf
  <2>5. row'[r] # row[r]
    BY <2>2, <2>4 DEF GhostOf, Held, Owns
  <2>6. Closed(r)'
    BY <2>3, <2>4, <2>5 DEF Leaves
  <2>7. ~Closed(r) /\ ~Settled(r)
    BY <2>4, OneHolder DEF Settled, SettledBy, Held
  <2> QED BY <2>6, <2>7 DEF Open
<1>4. /\ delivered'[r] = delivered[r] /\ Paid' = Paid /\ Spent(r) <= Paid
  BY DEF bounds, Paid, BudgetOK
<1>5. Accounts /\ Accounts'
  BY WeightsStep
<1> QED BY <1>2, <1>3, <1>4, <1>5 DEF Accounts

LEMMA QuietActor ==
    ASSUME TypeOK, TypeOK', BudgetOK, NEW d \in Dispatchers,
           StartDispatch(d) \/ Work(d) \/ Heartbeat(d), ~Post(d), ~HeartbeatLost(d)
    PROVE  BudgetOK'
<1>0. pc[d] \in Places /\ pc \in [Dispatchers -> Places]
  BY DEF TypeOK
<1>1. UNCHANGED <<now, delivered, bounds>>
  BY DEF StartDispatch, Work, Claim, DispatchEnds, RenewRemaining, PrepareFails, EnterFence,
         RenewFenced, CheckDevice, FinishRow, RemoveDevice, Heartbeat, history
<1>2. ASSUME NEW r \in Rows, SettledBy(d, r) PROVE Closed(r)'
  <2>1. pc[d] = "finish" /\ Next1(d) = r /\ reply[d] = "ok" /\ Owns(d, r)
    BY <1>2 DEF SettledBy, Held
  <2>2. FinishRow(d)
    BY <2>1 DEF StartDispatch, Work, Claim, DispatchEnds, RenewRemaining, PrepareFails,
                EnterFence, RenewFenced, CheckDevice, RemoveDevice, Heartbeat
  <2>3. Finish(d, r, "sent")
    BY <2>1, <2>2 DEF FinishRow
  <2>4. row'[r].status = "sent"
    BY <2>1, <2>3, FinishedRow
  <2> QED BY <2>4 DEF Closed
<1>3. ASSUME NEW r \in Rows, GhostOf(d, r)' PROVE GhostOf(d, r)
  <2>1. pc'[d] \in {"check", "post"} /\ Next1(d)' = r /\ ~Held(d, r)'
    BY <1>3 DEF GhostOf
  <2>2. RenewFenced(d) \/ CheckDevice(d) \/ Heartbeat(d)
    BY <1>0, <2>1
       DEF StartDispatch, Work, Claim, DispatchEnds, RenewRemaining, PrepareFails,
           EnterFence, FinishRow, RemoveDevice, Goto, Continue
  <2>3. CASE CheckDevice(d)
    <3>1. UNCHANGED <<row, mine, now>> /\ pc[d] = "check"
      BY <1>0, <1>1, <2>1, <2>3 DEF CheckDevice, Goto, Continue
    <3> QED BY <2>1, <3>1 DEF GhostOf, Held, Owns, Next1
  <2>4. CASE RenewFenced(d) \/ Heartbeat(d)
    <3>1. Owns(d, Next1(d)) /\ Rewrite({Next1(d)}, Renewed) /\ UNCHANGED mine
      BY <1>0, <2>1, <2>4 DEF RenewFenced, Heartbeat, Goto, Continue, dispatch
    <3>2. Next1(d) = r
      BY <2>1, <3>1 DEF Next1
    <3>3. row'[r] = Renewed(r) /\ row[r].status = "sending" /\ row[r].owner = d
      BY <3>1, <3>2 DEF Rewrite, Owns
    <3>4. Held(d, r)'
      BY <1>1, <3>3, RenewedRow DEF Held, Owns
    <3> QED BY <2>1, <3>4
  <2> QED BY <2>2, <2>3, <2>4
<1> QED BY <1>1, <1>2, <1>3, ActorLeaves, ActorMoves, QuietStep DEF Moved

(* APNs takes the row: it was open or its sender a ghost, and afterwards it *)
(* is settled, its sender is no ghost any more, or a loss is counted.       *)
LEMMA PostBudget ==
    ASSUME TypeOK, TypeOK', BudgetOK, NEW d \in Dispatchers, Post(d) \/ HeartbeatLost(d)
    PROVE  BudgetOK'
<1> DEFINE q == Next1(d)
<1>0. /\ pc[d] = "post" /\ q \in Rows /\ UNCHANGED <<now, row, mine, crashes, stalls>>
      /\ pc \in [Dispatchers -> Places] /\ reply \in [Dispatchers -> Answers \cup {"none"}]
  <2>1. /\ pc[d] = "post" /\ UNCHANGED <<now, row, mine, crashes, stalls>>
    BY DEF Post, HeartbeatLost, bounds
  <2> QED BY <2>1, AtHand DEF TypeOK
<1>1. PICK answer \in Answers :
         /\ pc' = [pc EXCEPT ![d] = "finish"] /\ reply' = [reply EXCEPT ![d] = answer]
         /\ \/ UNCHANGED <<delivered, losses>>
            \/ /\ Accepted(d)
               /\ \/ answer = "ok" /\ UNCHANGED losses
                  \/ losses' = losses + 1
                  \/ ~Owns(d, q) /\ UNCHANGED losses
  BY DEF Post, HeartbeatLost, Answer, Answers, Goto, bounds
<1>2. /\ pc'[d] = "finish" /\ reply'[d] = answer
      /\ \A e \in Dispatchers : Next1(e)' = Next1(e)
      /\ \A e \in Dispatchers \ {d} : pc'[e] = pc[e] /\ reply'[e] = reply[e]
  BY <1>0, <1>1 DEF Next1
<1>3. \A e \in Dispatchers, r \in Rows : Held(e, r)' <=> Held(e, r)
  BY <1>0 DEF Held, Owns
<1>4. \A r \in Rows : ~Ghost(r)'
  BY <1>0, <1>2, OneHolder DEF Ghost, GhostOf
<1>5. \A r \in Rows : Open(r)' => Open(r)
  BY <1>0, <1>2, <1>3 DEF Open, Closed, Settled, SettledBy
<1>6. Accounts /\ Accounts'
  BY WeightsStep
<1>7. losses \in Nat /\ crashes \in Nat /\ stalls \in Nat /\ delivered \in [Rows -> Nat]
  BY Numbers DEF TypeOK
<1> SUFFICES ASSUME NEW r \in Rows PROVE (Spent(r) <= Paid)'
  BY DEF BudgetOK
<1>8. Spent(r) <= Paid
  BY DEF BudgetOK
<1>9. CASE delivered'[r] = delivered[r] /\ Paid' >= Paid
  BY <1>4, <1>5, <1>6, <1>8, <1>9 DEF Accounts
<1>10. CASE /\ r = q /\ Accepted(d)
            /\ \/ answer = "ok" /\ UNCHANGED losses
               \/ losses' = losses + 1
               \/ ~Owns(d, q) /\ UNCHANGED losses
  <2>1. delivered'[r] = delivered[r] + 1
    BY <1>0, <1>7, <1>10 DEF Accepted
  <2>2. CASE losses' = losses + 1
    <3>1. Paid' = Paid + 1
      BY <1>0, <1>7, <2>2 DEF Paid
    <3> QED BY <1>4, <1>5, <1>6, <1>8, <2>1, <3>1 DEF Accounts
  <2>3. CASE UNCHANGED losses /\ ~Held(d, q)
    <3>1. Paid' = Paid /\ Ghost(r)
      BY <1>0, <1>10, <2>3 DEF Paid, Ghost, GhostOf
    <3> QED BY <1>4, <1>5, <1>6, <1>8, <2>1, <3>1 DEF Accounts
  <2>4. CASE UNCHANGED losses /\ Held(d, q) /\ answer = "ok"
    <3>1. Paid' = Paid
      BY <1>0, <2>4 DEF Paid
    <3>2. Open(r)
      BY <1>0, <1>10, <2>4, OneHolder DEF Open, Settled, SettledBy, Held
    <3>3. ~Open(r)'
      BY <1>2, <1>3, <1>10, <2>4 DEF Open, Settled, SettledBy
    <3> QED BY <1>4, <1>6, <1>8, <2>1, <3>1, <3>2, <3>3 DEF Accounts
  <2> QED BY <1>10, <2>2, <2>3, <2>4 DEF Held
<1>11. \/ UNCHANGED <<delivered, losses>>
       \/ Accepted(d) /\ losses' \in {losses, losses + 1}
  BY <1>1
<1>12. Paid' >= Paid
  BY <1>0, <1>7, <1>11 DEF Paid
<1>13. Accepted(d) /\ r # q => delivered'[r] = delivered[r]
  BY <1>7 DEF Accepted
<1> QED BY <1>1, <1>9, <1>10, <1>12, <1>13

(* Who is killed may leave a row open that APNs has taken: one crash more.  *)
LEMMA CrashBudget ==
    ASSUME TypeOK, TypeOK', BudgetOK, NEW d \in Dispatchers, Crash(d)
    PROVE  BudgetOK'
<1> DEFINE q == Next1(d)
<1>0. /\ UNCHANGED <<now, stalls, losses>> /\ crashes' = crashes + 1
      /\ UNCHANGED delivered \/ (pc[d] = "post" /\ Accepted(d))
      /\ pc' = [pc EXCEPT ![d] = "idle"] /\ pc \in [Dispatchers -> Places]
      /\ delivered \in [Rows -> Nat]
      /\ crashes \in Nat /\ losses \in Nat /\ stalls \in Nat
      /\ pc[d] = "post" => q \in Rows
  <2>1. /\ UNCHANGED <<now, stalls, losses>> /\ crashes' = crashes + 1
        /\ UNCHANGED delivered \/ (pc[d] = "post" /\ Accepted(d))
        /\ pc' = [pc EXCEPT ![d] = "idle"]
    BY DEF Crash, Goto
  <2>2. /\ pc \in [Dispatchers -> Places] /\ delivered \in [Rows -> Nat]
        /\ crashes \in Nat /\ losses \in Nat /\ stalls \in Nat
    BY Numbers DEF TypeOK
  <2> QED BY <2>1, <2>2, AtHand
<1>1. /\ pc'[d] = "idle" /\ Paid' = Paid + 1
      /\ \A e \in Dispatchers \ {d} : /\ pc'[e] = pc[e] /\ reply'[e] = reply[e]
                                      /\ Next1(e)' = Next1(e)
  BY <1>0, ActorMoves DEF Moved, Paid, Next1
<1>2. \A r \in Rows : row'[r] = IF Owns(d, r) THEN Disowned(r) ELSE row[r]
  BY CrashLeaves
<1>3. \A e \in Dispatchers \ {d}, r \in Rows : Held(e, r) => Held(e, r)'
  BY <1>0, <1>2 DEF Held, Owns
<1>4. \A r \in Rows : Ghost(r)' => Ghost(r)
  BY <1>1, <1>3 DEF Ghost, GhostOf
<1>5. Accounts /\ Accounts'
  BY WeightsStep
<1> SUFFICES ASSUME NEW r \in Rows PROVE (Spent(r) <= Paid)'
  BY DEF BudgetOK
<1>6. Spent(r) <= Paid
  BY DEF BudgetOK
<1>7. CASE delivered'[r] = delivered[r]
  BY <1>1, <1>4, <1>5, <1>6, <1>7 DEF Accounts
<1>8. CASE r = q /\ pc[d] = "post" /\ Accepted(d)
  <2>1. delivered'[r] = delivered[r] + 1
    BY <1>0, <1>8 DEF Accepted
  <2>2. ~Ghost(r)'
    BY <1>1, <1>8, OneHolder DEF Ghost, GhostOf
  <2>3. Open(r)' => Open(r)
    <3>1. CASE Owns(d, r)
      BY <1>8, <3>1, OneHolder DEF Open, Settled, SettledBy, Held
    <3>2. CASE ~Owns(d, r)
      <4>1. row'[r] = row[r]
        BY <1>2, <3>2
      <4> QED BY <1>1, <1>3, <1>8, <4>1 DEF Open, Closed, Settled, SettledBy
    <3> QED BY <3>1, <3>2
  <2> QED BY <1>1, <1>4, <1>5, <1>6, <2>1, <2>2, <2>3 DEF Accounts
<1>9. Accepted(d) /\ r # q => delivered'[r] = delivered[r]
  BY <1>0 DEF Accepted
<1> QED BY <1>0, <1>7, <1>8, <1>9

(* A claim runs out on the one who works under it: one stall more.  The row *)
(* has one holder, so only one of the two can be lost to it.                *)
LEMMA TickBudget == ASSUME TypeOK, TypeOK', BudgetOK, Tick PROVE BudgetOK'
<1>0. /\ now' = now + 1 /\ UNCHANGED <<row, pc, mine, reply, delivered, crashes, losses>>
      /\ stalls' = stalls + (IF Overrun THEN 1 ELSE 0)
      /\ crashes \in Nat /\ losses \in Nat /\ stalls \in Nat /\ now \in Nat
  BY Numbers DEF Tick, TypeOK, dispatch, history
<1>1. \A d \in Dispatchers : Next1(d)' = Next1(d)
  BY <1>0 DEF Next1
<1>2. Accounts /\ Accounts'
  BY WeightsStep
<1> SUFFICES ASSUME NEW r \in Rows PROVE (Spent(r) <= Paid)'
  BY DEF BudgetOK
<1>3. Spent(r) <= Paid
  BY DEF BudgetOK
<1>4. ASSUME NEW d \in Dispatchers, Held(d, r), ~Held(d, r)'
      PROVE  Owns(d, r) /\ row[r].lease = now + 1
  <2>1. row[r].lease \in Nat
    BY RowFacts DEF RowOK, OutboxRow
  <2> QED BY <1>0, <1>4, <2>1 DEF Held, Owns
<1>5. ASSUME NEW d \in Dispatchers, SettledBy(d, r), ~SettledBy(d, r)'
      PROVE  Overrun /\ Owns(d, r)
  <2>1. Held(d, r) /\ ~Held(d, r)' /\ pc[d] = "finish" /\ Next1(d) = r
    BY <1>0, <1>1, <1>5 DEF SettledBy
  <2> QED BY <1>4, <2>1 DEF Overrun, AtWork
<1>6. ASSUME NEW d \in Dispatchers, GhostOf(d, r)', ~GhostOf(d, r)
      PROVE  Overrun /\ Owns(d, r) /\ pc[d] \in {"check", "post"}
  <2>1. Held(d, r) /\ ~Held(d, r)' /\ pc[d] \in {"check", "post"} /\ Next1(d) = r
    BY <1>0, <1>1, <1>6 DEF GhostOf
  <2> QED BY <1>4, <2>1 DEF Overrun, AtWork
<1>7. Closed(r)' <=> Closed(r)
  BY <1>0 DEF Closed
<1>8. Open(r)' /\ ~Open(r) => Overrun /\ Settled(r)
  BY <1>5, <1>7 DEF Open, Settled
<1>9. Ghost(r)' /\ ~Ghost(r) => Overrun /\ ~Settled(r)
  <2>1. SUFFICES ASSUME Ghost(r)', ~Ghost(r) PROVE Overrun /\ ~Settled(r)
    OBVIOUS
  <2>2. PICK d \in Dispatchers : Overrun /\ Owns(d, r) /\ pc[d] \in {"check", "post"}
    BY <1>6, <2>1 DEF Ghost
  <2> QED BY <2>2, OneHolder DEF Settled, SettledBy, Held
<1>10. CASE Overrun
  <2>1. Paid' = Paid + 1
    BY <1>0, <1>10 DEF Paid
  <2> QED BY <1>0, <1>2, <1>3, <1>8, <1>9, <2>1 DEF Accounts
<1>11. CASE ~Overrun
  <2>1. Paid' = Paid
    BY <1>0, <1>11 DEF Paid
  <2> QED BY <1>0, <1>2, <1>3, <1>8, <1>9, <1>11, <2>1 DEF Accounts
<1> QED BY <1>10, <1>11

LEMMA BudgetStep == ASSUME TypeOK, TypeOK', BudgetOK, [Next]_vars PROVE BudgetOK'
<1>1. CASE Requests
  <2>1. UNCHANGED <<now, delivered, bounds, dispatch>>
    BY <1>1 DEF Requests, Register, Unregister, RevokeAll, Revoke, Maintain, Enqueue, history
  <2>2. Nobody \notin Dispatchers /\ Leaves(Nobody)
    BY <1>1, RequestLeaves, Numbers
  <2> QED BY <2>1, <2>2, QuietStep DEF dispatch
<1>2. CASE UNCHANGED vars
  <2>1. UNCHANGED <<now, row, delivered, bounds, dispatch>>
    BY <1>2 DEF vars, history
  <2>2. Nobody \notin Dispatchers /\ Leaves(Nobody)
    BY <2>1, KeptLeaves, Numbers
  <2> QED BY <2>1, <2>2, QuietStep DEF dispatch
<1>3. ASSUME NEW d \in Dispatchers, StartDispatch(d) \/ Work(d) \/ Heartbeat(d) PROVE BudgetOK'
  BY <1>3, QuietActor, PostBudget
<1> QED BY <1>1, <1>2, <1>3, CrashBudget, TickBudget DEF Next

-----------------------------------------------------------------------------
LEMMA OutboxInit == Init => OutboxInvariant
<1> SUFFICES ASSUME Init PROVE OutboxInvariant
  OBVIOUS
<1>1. /\ now = 1 /\ fence = Nobody /\ crashes = 0 /\ stalls = 0 /\ losses = 0
      /\ revoked = {} /\ barred = {}
      /\ pc = [d \in Dispatchers |-> "idle"] /\ row = [r \in Rows |-> Unused]
      /\ mine = [d \in Dispatchers |-> <<>>] /\ reply = [d \in Dispatchers |-> "none"]
      /\ delivered = [r \in Rows |-> 0] /\ device = [t \in Tokens |-> 0]
  BY DEF Init
<1>2. /\ \A d \in Dispatchers : pc[d] = "idle"
      /\ \A r \in Rows : row[r] = Unused /\ delivered[r] = 0
  BY <1>1
<1>3. <<>> \in Seq(Rows)
  OBVIOUS
<1>4. RowOK(Unused) /\ Unused \in OutboxRow /\ Unused.status = "unused"
  BY UnusedRow DEF RowOK
<1>5. TypeOK
  <2>1. /\ now \in 1 .. Horizon /\ crashes \in 0 .. MaxCrashes /\ stalls \in 0 .. MaxStalls
        /\ losses \in 0 .. MaxLosses
    BY <1>1, Numbers
  <2>2. /\ device \in [Tokens -> Nat] /\ row \in [Rows -> OutboxRow]
        /\ pc \in [Dispatchers -> Places] /\ mine \in [Dispatchers -> Seq(Rows)]
        /\ reply \in [Dispatchers -> Answers \cup {"none"}] /\ delivered \in [Rows -> Nat]
    BY <1>1, <1>3, <1>4 DEF Places
  <2> QED BY <1>1, <1>2, <1>4, <2>1, <2>2, Numbers DEF TypeOK
<1>6. SilenceOK
  BY <1>1, <1>2 DEF SilenceOK
<1>7. BudgetOK
  <2>1. SUFFICES ASSUME NEW r \in Rows PROVE Spent(r) <= Paid
    BY DEF BudgetOK
  <2>2. ~Ghost(r)
    BY <1>2 DEF Ghost, GhostOf
  <2>3. Accounts
    BY <1>5, Weights
  <2>4. delivered[r] = 0 /\ Paid = 1
    BY <1>1, <1>2 DEF Paid
  <2> QED BY <2>2, <2>3, <2>4 DEF Accounts
<1> QED BY <1>5, <1>6, <1>7 DEF OutboxInvariant

LEMMA OutboxStep == OutboxInvariant /\ [Next]_vars => OutboxInvariant'
BY OutboxTypeStep, SilenceStep, BudgetStep DEF OutboxInvariant

LEMMA OutboxInvariantHolds == Spec => []OutboxInvariant
BY OutboxInit, OutboxStep, PTL DEF Spec

(* The tables of the outbox and the registers of the dispatchers keep their *)
(* types, and the fence is held by whoever is behind it                     *)
(* (dispatch_pending_pushes, delivery_guard).                               *)
THEOREM OutboxTypesHold == Spec => []TypeOK
BY OutboxInvariantHolds, PTL DEF OutboxInvariant

(* Nothing is on its way to a device that was signed off, and what was      *)
(* queued for it before is never sent (revoke_all_push_devices).            *)
THEOREM RevokedDevicesStaySilent == Spec => []RevokedStaysSilent
<1>1. OutboxInvariant => RevokedStaysSilent
  BY DEF OutboxInvariant, SilenceOK, RevokedStaysSilent
<1> QED BY <1>1, OutboxInvariantHolds, PTL

LEMMA Affordable == OutboxInvariant => DeliveredOnce
<1>1. SUFFICES ASSUME OutboxInvariant, NEW r \in Rows
               PROVE  delivered[r] <= 1 + crashes + stalls + losses
  BY DEF DeliveredOnce
<1>2. Spent(r) <= Paid /\ Accounts
  BY <1>1, Weights DEF OutboxInvariant, BudgetOK
<1>3. delivered[r] <= Paid
  BY <1>2 DEF Accounts
<1> QED BY <1>3 DEF Paid

(* A message reaches its device once, and once more at most for every       *)
(* crash, stall or lost reply (push_outbox_claim_due, push_outbox_finish).   *)
THEOREM MessagesAreDeliveredOnce == Spec => []DeliveredOnce
BY Affordable, OutboxInvariantHolds, PTL

-----------------------------------------------------------------------------
(* The refinement.  What a step makes of the life of a row: APNs has taken   *)
(* what is called sent, and who is about to say so has its word (TruthOK).   *)
TruthOK ==
    \A d \in Dispatchers :
        pc[d] = "finish" /\ reply[d] = "ok" => delivered[Next1(d)] >= 1

LifeStates == {"unused", "open", "sent", "failed", "gone"}

LivesAre ==
    \A r \in Rows : /\ Life[r] \in LifeStates
                    /\ Life[r] = "open" <=> row[r].status \in {"pending", "sending"}
                    /\ \A s \in {"unused", "sent", "failed", "gone"} :
                          Life[r] = s <=> row[r].status = s

LEMMA Lives == TypeOK => LivesAre
<1> SUFFICES ASSUME TypeOK, NEW r \in Rows
             PROVE  /\ Life[r] \in LifeStates
                    /\ Life[r] = "open" <=> row[r].status \in {"pending", "sending"}
                    /\ \A s \in {"unused", "sent", "failed", "gone"} :
                          Life[r] = s <=> row[r].status = s
  BY DEF LivesAre
<1>1. row[r].status \in Statuses
  BY RowFacts DEF RowOK, OutboxRow
<1> QED BY <1>1 DEF Life, LifeStates, Statuses

(* The same, before and after a step.                                      *)
LEMMA LivesNext == ASSUME TypeOK, TypeOK' PROVE LivesAre /\ LivesAre'
<1>1. (TypeOK => LivesAre)'
  BY Lives, PTL
<1> QED BY <1>1, Lives

(* In the words of the table.                                              *)
Ages(r) ==
    \/ row'[r].status = row[r].status
    \/ row[r].status \in {"pending", "sending"} /\ row'[r].status \in {"pending", "sending"}
    \/ /\ row[r].status \in {"pending", "sending"}
       /\ \/ row'[r].status = "failed"
          \/ row'[r].status = "sent" /\ delivered[r] >= 1
    \/ r \in Stored /\ row'[r].status = "gone"

LEMMA AgesClose ==
    ASSUME TypeOK, TypeOK', \A r \in Rows : Ages(r), UNCHANGED <<delivered, barred, bounds>>
    PROVE  Ledger!Close
<1>1. Life' \in [Rows -> LifeStates]
  <2>1. Life' = [r \in Rows |-> Life'[r]]
    BY DEF Life
  <2> QED BY <2>1, LivesNext DEF LivesAre
<1>2. ASSUME NEW r \in Rows PROVE Ledger!Becomes(r, Life'[r])
  <2>1. /\ Life[r] \in LifeStates
        /\ Life[r] = "open" <=> row[r].status \in {"pending", "sending"}
        /\ \A s \in {"unused", "sent", "failed", "gone"} :
              Life[r] = s <=> row[r].status = s
    BY Lives DEF LivesAre
  <2>2. /\ Life'[r] \in LifeStates
        /\ Life'[r] = "open" <=> row'[r].status \in {"pending", "sending"}
        /\ \A s \in {"unused", "sent", "failed", "gone"} :
              Life'[r] = s <=> row'[r].status = s
    BY LivesNext DEF LivesAre
  <2>3. r \in Stored => r \in Ledger!Stored
    BY <2>1 DEF Stored, Ledger!Stored
  <2>4. CASE row'[r].status = row[r].status
    <3>1. Life'[r] = Life[r]
      BY <2>1, <2>2, <2>4 DEF LifeStates
    <3> QED BY <3>1 DEF Ledger!Becomes
  <2>5. CASE row[r].status \in {"pending", "sending"} /\ row'[r].status \in {"pending", "sending"}
    BY <2>1, <2>2, <2>5 DEF Ledger!Becomes
  <2>6. CASE row[r].status \in {"pending", "sending"} /\ row'[r].status = "failed"
    BY <2>1, <2>2, <2>6 DEF Ledger!Becomes
  <2>7. CASE row[r].status \in {"pending", "sending"} /\ row'[r].status = "sent"
             /\ delivered[r] >= 1
    BY <2>1, <2>2, <2>7 DEF Ledger!Becomes
  <2>8. CASE r \in Stored /\ row'[r].status = "gone"
    BY <2>2, <2>3, <2>8 DEF Ledger!Becomes
  <2> QED BY <2>4, <2>5, <2>6, <2>7, <2>8 DEF Ages
<1>3. UNCHANGED <<delivered, barred, Excuses>>
  BY DEF bounds, Excuses
<1> QED BY <1>1, <1>2, <1>3 DEF Ledger!Close, LifeStates

LEMMA GoneAges ==
    ASSUME TypeOK, NEW hit \in SUBSET Stored, Rewrite(hit, Gone)
    PROVE  \A r \in Rows : Ages(r)
<1>1. \A r \in Rows : row'[r] = IF r \in hit THEN Gone(r) ELSE row[r]
  BY RowsGone
<1> QED BY <1>1, GoneRow DEF Ages

LEMMA RenewedAges ==
    ASSUME TypeOK, NEW d \in Dispatchers, NEW hit \in SUBSET Rows,
           \A r \in hit : Owns(d, r), Rewrite(hit, Renewed)
    PROVE  \A r \in Rows : Ages(r)
<1>1. \A r \in Rows : row'[r] = IF r \in hit THEN Renewed(r) ELSE row[r]
  BY RowsRenewed
<1> QED BY <1>1, RenewedRow DEF Ages, Owns

(* Only the answer "ok" makes a row sent.                                  *)
LEMMA FinishAges ==
    ASSUME TypeOK, NEW d \in Dispatchers, NEW q \in Rows, NEW result, Finish(d, q, result),
           result = "sent" => delivered[q] >= 1
    PROVE  \A r \in Rows : Ages(r)
<1>1. CASE ~Owns(d, q)
  <2>1. UNCHANGED row
    BY <1>1 DEF Finish
  <2> QED BY <2>1 DEF Ages
<1>2. CASE Owns(d, q)
  <2>0. row[q].status = "sending"
    BY <1>2 DEF Owns
  <2>1. PICK x \in {Released(q, "sent"), Again(q), Released(q, "failed")} :
           /\ row' = [row EXCEPT ![q] = x]
           /\ result # "sent" => x # Released(q, "sent") \/ x \in {Again(q), Released(q, "failed")}
    BY <1>2 DEF Finish, Again
  <2>2. /\ Released(q, "sent").status = "sent" /\ Released(q, "failed").status = "failed"
        /\ Again(q).status = "pending"
    BY <2>0, ReleasedRow, AgainRow
  <2>3. row \in [Rows -> OutboxRow]
    BY RowFacts
  <2>4. row'[q] = x /\ \A r \in Rows : r # q => row'[r] = row[r]
    BY <2>1, <2>3
  <2>5. /\ row[q].status \in {"pending", "sending"}
        /\ \/ x.status = "pending" \/ x.status = "failed"
           \/ x.status = "sent" /\ result = "sent"
    BY <2>0, <2>1, <2>2
  <2>6. Ages(q)
    BY <2>4, <2>5 DEF Ages
  <2>7. \A r \in Rows : r # q => Ages(r)
    BY <2>4 DEF Ages
  <2> QED BY <2>6, <2>7
<1> QED BY <1>1, <1>2

LEMMA ClaimAges ==
    ASSUME TypeOK, NEW d \in Dispatchers, Claim(d)
    PROVE  \A r \in Rows : Ages(r)
<1> SUFFICES ASSUME NEW r \in Rows PROVE Ages(r)
  OBVIOUS
<1>1. \/ row'[r] = row[r]
      \/ row[r].status \in {"pending", "sending"} /\ row'[r] = Released(r, "failed")
      \/ /\ row[r].status = "pending" \/ Lapsed(r)
         /\ row'[r] \in {Claimed(d, r), Released(r, "pending")}
  BY DEF Claim, AfterClaim, Expired, Homeless, Waiting, Due, Lapsed
<1>2. row[r].status = "pending" \/ Lapsed(r) => row[r].status \in {"pending", "sending"}
  BY DEF Lapsed
<1> QED BY <1>1, <1>2, ReleasedRow, ClaimedRow DEF Ages

(* A dispatcher ages the rows, or APNs takes one, or it is killed.          *)
LEMMA ActorAges ==
    ASSUME TypeOK, TruthOK, NEW d \in Dispatchers,
           StartDispatch(d) \/ Work(d) \/ Heartbeat(d) \/ Crash(d)
    PROVE  \A r \in Rows : Ages(r)
<1>1. CASE UNCHANGED row
  BY <1>1 DEF Ages
<1>2. CASE StartDispatch(d) \/ RemoveDevice(d)
  <2>1. PICK hit \in SUBSET Stored : Rewrite(hit, Gone)
    BY <1>2 DEF StartDispatch, PruneExpired, RemoveDevice
  <2> QED BY <2>1, GoneAges
<1>3. CASE Claim(d)
  BY <1>3, ClaimAges
<1>4. CASE RenewRemaining(d)
  <2>1. PICK hit \in SUBSET Rows : Rewrite(hit, Renewed) /\ \A r \in hit : Owns(d, r)
    BY <1>4, NextRow DEF RenewRemaining
  <2> QED BY <2>1, RenewedAges
<1>5. CASE (RenewFenced(d) \/ Heartbeat(d)) /\ ~UNCHANGED row
  <2>1. /\ Next1(d) \in Rows
        /\ Owns(d, Next1(d)) /\ Rewrite({Next1(d)}, Renewed)
    BY <1>5, AtHand DEF RenewFenced, Heartbeat
  <2>2. {Next1(d)} \in SUBSET Rows /\ \A r \in {Next1(d)} : Owns(d, r)
    BY <2>1
  <2> QED BY <2>1, <2>2, RenewedAges
<1>6. CASE PrepareFails(d) \/ (CheckDevice(d) /\ ~UNCHANGED row)
  <2>1. PICK result \in {"fail", "retry"} : Finish(d, Next1(d), result)
    BY <1>6 DEF PrepareFails, CheckDevice
  <2>2. Next1(d) \in Rows
    BY <1>6, AtHand DEF PrepareFails, CheckDevice
  <2> QED BY <2>1, <2>2, FinishAges
<1>7. CASE FinishRow(d)
  <2>1. pc[d] = "finish" /\ Next1(d) \in Rows
    BY <1>7, AtHand DEF FinishRow
  <2>2. PICK result : /\ Finish(d, Next1(d), result)
                      /\ result = "sent" => reply[d] = "ok"
    BY <1>7 DEF FinishRow
  <2>3. result = "sent" => delivered[Next1(d)] >= 1
    BY <2>1, <2>2 DEF TruthOK
  <2> QED BY <2>1, <2>2, <2>3, FinishAges
<1>8. CASE Crash(d)
  <2>1. \A r \in Rows : row'[r] = IF Owns(d, r) THEN Disowned(r) ELSE row[r]
    BY <1>8, CrashLeaves
  <2> QED BY <2>1, DisownedRow DEF Ages, Owns
<1>9. CASE DispatchEnds(d) \/ EnterFence(d) \/ Post(d) \/ HeartbeatLost(d)
  BY <1>1, <1>9 DEF DispatchEnds, EnterFence, Post, HeartbeatLost
<1> QED BY <1>1, <1>2, <1>3, <1>4, <1>5, <1>6, <1>7, <1>8, <1>9 DEF Work

(* Only the POST itself lets APNs take a row, and only a POST that was not  *)
(* sent for a device signed off.                                           *)
LEMMA LedgerTakes ==
    ASSUME OutboxInvariant, OutboxInvariant', NEW d \in Dispatchers, pc[d] = "post", Accepted(d),
           \A r \in Rows : row'[r].status = row[r].status, UNCHANGED barred,
           Excuses' \in {Excuses, Excuses + 1}
    PROVE  \E r \in Rows : Ledger!Take(r)
<1> DEFINE q == Next1(d)
<1>0. /\ TypeOK /\ SilenceOK /\ q \in Rows /\ delivered \in [Rows -> Nat]
  BY AtHand DEF OutboxInvariant, TypeOK
<1>1. delivered' = [delivered EXCEPT ![q] = delivered[q] + 1]
      /\ delivered'[q] = delivered[q] + 1
  BY <1>0 DEF Accepted
<1>2. delivered'[q] <= 1 + Excuses'
  <2>1. DeliveredOnce'
    BY Affordable, PTL
  <2>2. delivered'[q] <= 1 + crashes' + stalls' + losses'
    BY <1>0, <2>1 DEF DeliveredOnce
  <2>3. crashes' \in Nat /\ stalls' \in Nat /\ losses' \in Nat /\ delivered'[q] \in Nat
    BY <1>0, Numbers DEF OutboxInvariant, TypeOK
  <2> QED BY <2>2, <2>3 DEF Excuses
<1>3. Excuses \in Nat /\ Excuses' \in Nat /\ delivered[q] \in Nat
  BY <1>0, Numbers DEF TypeOK, Excuses
<1>4. delivered[q] < 1 + Excuses'
  BY <1>1, <1>2, <1>3
<1>5. Life[q] # "unused" /\ q \notin barred
  BY <1>0, Lives DEF SilenceOK, LivesAre
<1>6. UNCHANGED Life
  BY DEF Life
<1> QED BY <1>0, <1>1, <1>4, <1>5, <1>6 DEF Ledger!Take

LEMMA LedgerRevokes ==
    ASSUME TypeOK, TypeOK', NEW tokens \in SUBSET Tokens, Revoke(tokens)
    PROVE  \E rows \in SUBSET Rows : Ledger!Revoke(rows)
<1>1. PICK hit \in SUBSET Stored :
         /\ Rewrite(hit, Gone) /\ barred' = barred \cup hit /\ UNCHANGED <<delivered, bounds>>
  BY DEF Revoke
<1>2. hit \in SUBSET Rows /\ \A r \in Rows : row'[r] = IF r \in hit THEN Gone(r) ELSE row[r]
  BY <1>1, RowsGone DEF Stored
<1>3. ASSUME NEW r \in Rows PROVE Life'[r] = IF r \in hit THEN "gone" ELSE Life[r]
  <2>1. CASE r \in hit
    <3>1. row'[r].status = "gone"
      BY <1>2, <2>1, GoneRow
    <3> QED BY <2>1, <3>1, LivesNext DEF LivesAre
  <2>2. CASE r \notin hit
    BY <1>2, <2>2 DEF Life
  <2> QED BY <2>1, <2>2
<1>4. Life' = [r \in Rows |-> IF r \in hit THEN "gone" ELSE Life[r]]
  <2>1. Life' = [r \in Rows |-> Life'[r]]
    BY DEF Life
  <2> QED BY <1>3, <2>1
<1>5. hit \subseteq Ledger!Stored
  BY <1>1, Lives DEF Stored, Ledger!Stored, LivesAre
<1>6. UNCHANGED <<delivered, Excuses>>
  BY <1>1 DEF bounds, Excuses
<1> QED BY <1>1, <1>2, <1>4, <1>5, <1>6 DEF Ledger!Revoke

LEMMA LedgerStores ==
    ASSUME TypeOK, TypeOK', NEW m \in Messages, Enqueue(m)
    PROVE  \E rows \in SUBSET Rows : Ledger!Store(rows)
<1>1. PICK id \in [Lacking(m) -> Fresh] :
         row' = [r \in Rows |-> IF \E t \in Lacking(m) : id[t] = r
                                THEN Queued(m, CHOOSE t \in Lacking(m) : id[t] = r)
                                ELSE row[r]]
  BY DEF Enqueue
<1> DEFINE rows == {r \in Rows : \E t \in Lacking(m) : id[t] = r}
<1>2. ASSUME NEW r \in Rows
      PROVE  /\ r \in rows => Life[r] = "unused"
             /\ Life'[r] = IF r \in rows THEN "open" ELSE Life[r]
  <2>1. CASE r \in rows
    <3>1. r \in Fresh /\ (CHOOSE t \in Lacking(m) : id[t] = r) \in Tokens
      BY <2>1 DEF Lacking
    <3>2. row'[r] = Queued(m, CHOOSE t \in Lacking(m) : id[t] = r)
      BY <1>1, <2>1
    <3>3. row[r].status = "unused" /\ row'[r].status = "pending"
      BY <3>1, <3>2, QueuedRow DEF Fresh
    <3> QED BY <2>1, <3>3, LivesNext DEF LivesAre
  <2>2. CASE r \notin rows
    <3>1. row'[r] = row[r]
      BY <1>1, <2>2
    <3> QED BY <2>2, <3>1 DEF Life
  <2> QED BY <2>1, <2>2
<1>3. Life' = [r \in Rows |-> IF r \in rows THEN "open" ELSE Life[r]]
  <2>1. Life' = [r \in Rows |-> Life'[r]]
    BY DEF Life
  <2> QED BY <1>2, <2>1
<1>4. UNCHANGED <<delivered, barred, Excuses>>
  BY DEF Enqueue, history, bounds, Excuses
<1> QED BY <1>2, <1>3, <1>4 DEF Ledger!Store

LEMMA LedgerStep ==
    ASSUME OutboxInvariant, OutboxInvariant', TruthOK, [Next]_vars
    PROVE  [Ledger!Next]_(Ledger!vars)
<1>0. TypeOK /\ TypeOK' /\ crashes \in Nat /\ stalls \in Nat /\ losses \in Nat
  BY Numbers DEF OutboxInvariant, TypeOK
<1>1. CASE UNCHANGED vars
  BY <1>1 DEF vars, history, bounds, Ledger!vars, Life, Excuses
<1>2. CASE Tick
  <2>1. /\ UNCHANGED <<Life, delivered, barred>>
        /\ Excuses' = Excuses \/ Excuses' = Excuses + 1
    BY <1>0, <1>2 DEF Tick, history, Life, Excuses
  <2> QED BY <2>1 DEF Ledger!Trouble, Ledger!Next, Ledger!vars
<1>3. CASE Requests
  <2>1. CASE \E t \in Tokens : Register(t)
    BY <2>1 DEF Register, bounds, Ledger!vars, Life, Excuses
  <2>2. CASE (\E t \in Tokens : Unregister(t)) \/ RevokeAll
    <3>1. PICK tokens \in SUBSET Tokens : Revoke(tokens)
      BY <2>2 DEF Unregister, RevokeAll
    <3> QED BY <1>0, <3>1, LedgerRevokes DEF Ledger!Next
  <2>3. CASE Maintain
    <3>1. PICK hit \in SUBSET Stored : Rewrite(hit, Gone)
      BY <2>3 DEF Maintain, PruneExpired
    <3>2. UNCHANGED <<delivered, barred, bounds>>
      BY <2>3 DEF Maintain, history
    <3> QED BY <1>0, <3>1, <3>2, GoneAges, AgesClose DEF Ledger!Next
  <2>4. CASE \E m \in Messages : Enqueue(m)
    BY <1>0, <2>4, LedgerStores DEF Ledger!Next
  <2> QED BY <1>3, <2>1, <2>2, <2>3, <2>4 DEF Requests
<1>4. ASSUME NEW d \in Dispatchers, StartDispatch(d) \/ Work(d) \/ Heartbeat(d),
             ~Post(d), ~HeartbeatLost(d)
      PROVE  Ledger!Next
  <2>1. UNCHANGED <<delivered, barred, bounds>>
    BY <1>4 DEF StartDispatch, Work, Claim, DispatchEnds, RenewRemaining, PrepareFails,
                EnterFence, RenewFenced, CheckDevice, FinishRow, RemoveDevice, Heartbeat, history
  <2> QED BY <1>0, <1>4, <2>1, ActorAges, AgesClose DEF Ledger!Next
<1>5. ASSUME NEW d \in Dispatchers, Post(d) \/ HeartbeatLost(d)
      PROVE  [Ledger!Next]_(Ledger!vars)
  <2>1. /\ pc[d] = "post" /\ UNCHANGED <<row, barred, crashes, stalls>>
        /\ losses' \in {losses, losses + 1}
        /\ Accepted(d) \/ UNCHANGED <<delivered, losses>>
    BY <1>5 DEF Post, HeartbeatLost, bounds
  <2>u. UNCHANGED Life
    BY <2>1 DEF Life
  <2>n. Excuses' = Excuses \/ Excuses' = Excuses + 1
    <3>1. /\ crashes' = crashes /\ stalls' = stalls
          /\ losses' = losses \/ losses' = losses + 1
      BY <2>1
    <3>2. Excuses = crashes + stalls + losses /\ Excuses' = crashes' + stalls' + losses'
      BY DEF Excuses
    <3> HIDE DEF Excuses
    <3> QED BY <1>0, <3>1, <3>2
  <2>2. UNCHANGED Life /\ Excuses' \in {Excuses, Excuses + 1}
    BY <2>u, <2>n
  <2>3. CASE Accepted(d)
    BY <2>1, <2>2, <2>3, LedgerTakes DEF Ledger!Next
  <2>4. CASE UNCHANGED <<delivered, losses>>
    BY <2>1, <2>2, <2>4 DEF Ledger!vars, Excuses
  <2> QED BY <2>1, <2>3, <2>4
<1>6. ASSUME NEW d \in Dispatchers, Crash(d) PROVE Ledger!Next
  <2>1. /\ UNCHANGED <<barred, stalls, losses>> /\ crashes' = crashes + 1
        /\ UNCHANGED delivered \/ (pc[d] = "post" /\ Accepted(d))
    BY <1>6 DEF Crash
  <2>2. Excuses' = Excuses + 1
    BY <1>0, <2>1 DEF Excuses
  <2>3. \A r \in Rows : row'[r].status = row[r].status
    <3>1. \A r \in Rows : row'[r] = IF Owns(d, r) THEN Disowned(r) ELSE row[r]
      BY <1>0, <1>6, CrashLeaves
    <3> QED BY <1>0, <3>1, DisownedRow DEF Owns
  <2>4. UNCHANGED Life
    BY <2>3 DEF Life
  <2>5. CASE UNCHANGED delivered
    BY <2>1, <2>2, <2>4, <2>5 DEF Ledger!Trouble, Ledger!Next
  <2>6. CASE pc[d] = "post" /\ Accepted(d)
    BY <2>1, <2>2, <2>3, <2>6, LedgerTakes DEF Ledger!Next
  <2> QED BY <2>1, <2>5, <2>6
<1> QED BY <1>1, <1>2, <1>3, <1>4, <1>5, <1>6 DEF Next, Work

(* Who has the answer "ok" in its hands got it for the row in its hands.    *)
LEMMA TruthStep == ASSUME TypeOK, TypeOK', TruthOK, [Next]_vars PROVE TruthOK'
<1>0. /\ delivered \in [Rows -> Nat] /\ delivered' \in [Rows -> Nat]
      /\ pc \in [Dispatchers -> Places] /\ reply \in [Dispatchers -> Answers \cup {"none"}]
  BY DEF TypeOK
<1>1. ASSUME NEW d \in Dispatchers, pc[d] = "post", Accepted(d)
      PROVE  /\ Next1(d) \in Rows /\ delivered'[Next1(d)] >= 1
             /\ \A r \in Rows : delivered'[r] >= delivered[r]
  <2>1. Next1(d) \in Rows
    BY <1>1, AtHand
  <2>2. delivered' = [delivered EXCEPT ![Next1(d)] = delivered[Next1(d)] + 1]
    BY <1>1 DEF Accepted
  <2>3. delivered[Next1(d)] + 1 >= 1
    BY <1>0, <2>1
  <2> QED BY <1>0, <2>1, <2>2, <2>3
<1>2. \A r \in Rows : delivered'[r] >= delivered[r]
  <2>1. \/ UNCHANGED delivered
        \/ \E d \in Dispatchers : pc[d] = "post" /\ Accepted(d)
    BY DEF Next, StartDispatch, Work, Claim, DispatchEnds, RenewRemaining, PrepareFails,
           EnterFence, RenewFenced, CheckDevice, Post, HeartbeatLost, FinishRow, RemoveDevice,
           Heartbeat, Crash, Requests, Register, Unregister, RevokeAll, Revoke, Maintain,
           Enqueue, Tick, vars, history
  <2> QED BY <1>0, <1>1, <2>1
<1>3. ASSUME NEW e \in Dispatchers, UNCHANGED <<pc[e], reply[e], mine[e]>>,
             pc'[e] = "finish", reply'[e] = "ok"
      PROVE  delivered'[Next1(e)'] >= 1
  <2>1. Next1(e) \in Rows /\ Next1(e)' = Next1(e) /\ delivered[Next1(e)] >= 1
    BY <1>3, AtHand DEF TruthOK, Next1
  <2>2. delivered'[Next1(e)] >= delivered[Next1(e)]
    BY <1>2, <2>1
  <2> QED BY <1>0, <2>1, <2>2
<1>4. CASE Requests \/ Tick \/ UNCHANGED vars
  <2>1. UNCHANGED dispatch
    BY <1>4 DEF Requests, Register, Unregister, RevokeAll, Revoke, Maintain, Enqueue, Tick, vars
  <2> QED BY <1>3, <2>1 DEF dispatch, TruthOK
<1>5. ASSUME NEW d \in Dispatchers,
             StartDispatch(d) \/ Work(d) \/ Heartbeat(d) \/ Crash(d),
             NEW e \in Dispatchers, pc'[e] = "finish", reply'[e] = "ok"
      PROVE  delivered'[Next1(e)'] >= 1
  <2>1. CASE e # d
    BY <1>3, <1>5, <2>1, ActorMoves DEF Moved
  <2>2. CASE e = d
    <3>1. Post(d) \/ HeartbeatLost(d)
      BY <1>0, <1>5, <2>2
         DEF StartDispatch, Work, Claim, DispatchEnds, RenewRemaining, PrepareFails,
             EnterFence, RenewFenced, CheckDevice, FinishRow, RemoveDevice, Heartbeat, Crash,
             Goto, Continue, dispatch
    <3>2. Accepted(d) /\ pc[d] = "post" /\ UNCHANGED mine
      BY <1>0, <1>5, <2>2, <3>1 DEF Post, HeartbeatLost, Answer
    <3> QED BY <1>1, <2>2, <3>2 DEF Next1
  <2> QED BY <2>1, <2>2
<1> QED BY <1>4, <1>5 DEF Next, TruthOK

(* The outbox implements the ledger: whatever leases run out, whoever is    *)
(* killed and whichever answers are lost, the table and the deliveries move *)
(* only as OutboxLedger says (push_outbox_claim_due, push_outbox_finish,     *)
(* revoke_all_push_devices, dispatch_pending_pushes).                       *)
THEOREM OutboxImplementsLedger == Spec => OutboxLedgerSpec
<1> DEFINE Truthful == OutboxInvariant /\ TruthOK
<1>1. Init => Truthful
  <2>1. Init => TruthOK
    BY DEF Init, TruthOK
  <2> QED BY <2>1, OutboxInit
<1>2. Init => Ledger!Init
  <2> SUFFICES ASSUME Init PROVE Ledger!Init
    OBVIOUS
  <2>1. Life = [r \in Rows |-> "unused"]
    BY DEF Init, Life, Unused
  <2> QED BY <2>1 DEF Init, Ledger!Init, Excuses
<1>3. Truthful /\ [Next]_vars => Truthful'
  <2> SUFFICES ASSUME Truthful, [Next]_vars PROVE Truthful'
    OBVIOUS
  <2>1. OutboxInvariant'
    BY OutboxStep
  <2> QED BY <2>1, TruthStep DEF OutboxInvariant
<1>4. Truthful /\ Truthful' /\ [Next]_vars => [Ledger!Next]_(Ledger!vars)
  BY LedgerStep
<1> HIDE DEF Truthful
<1> QED BY <1>1, <1>2, <1>3, <1>4, PTL DEF Spec, OutboxLedgerSpec, Ledger!Spec
=============================================================================
