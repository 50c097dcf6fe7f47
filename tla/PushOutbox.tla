----------------------------- MODULE PushOutbox -----------------------------
(***************************************************************************)
(* The outbox of push messages.  Any process stores a message for every    *)
(* registered device; dispatchers (the loop of the web process, background *)
(* threads, the scheduler tick) claim due rows under a lease of their own  *)
(* and post them to APNs one at a time behind a cross-process fence, which *)
(* the revocation of devices takes as well.                                *)
(*                                                                         *)
(* Every database call is one transaction and one step.  Time advances in  *)
(* ticks; a dispatcher is timely if no lease it works under runs out while *)
(* it holds the fence or has a reply in its hands, and each tick that      *)
(* breaks this is counted as a stall.                                      *)
(***************************************************************************)
EXTENDS Integers, Sequences, FiniteSets, SequencesExt

CONSTANTS
    Dispatchers,  \* threads and processes that run dispatch_pending_pushes
    Loop,         \* the loop of the web process, started every 30 seconds
    Nobody,       \* no owner of a claim, and the fence is free
    Tokens,       \* device tokens
    Messages,     \* dedupe keys
    MaxRows,      \* bound: rows ever inserted into push_outbox
    Lease,        \* ticks of a claim
    Retention,    \* ticks until a message expires
    DeviceLease,  \* ticks until a registration expires
    MaxAttempts,  \* attempts after which a retry is refused
    Horizon,      \* bound: the clock stops here
    MaxCrashes,   \* bound: dispatchers killed or ended by an exception
    MaxStalls,    \* bound: ticks in which a lease at work runs out
    MaxLosses     \* bound: messages APNs takes while the reply is lost

ASSUME OutboxAssumptions ==
    /\ Loop \in Dispatchers /\ Nobody \notin Dispatchers
    /\ {MaxRows, Lease, Retention, DeviceLease, MaxAttempts} \subseteq Nat \ {0}
    /\ Horizon \in Nat \ {0} /\ {MaxCrashes, MaxStalls, MaxLosses} \subseteq Nat

Rows == 1 .. MaxRows          \* ids, given out in order and never again

VARIABLES
    now,       \* the clock of the server
    device,    \* push_devices.expires_at, 0 for a token without a row
    row,       \* push_outbox
    fence,     \* holder of the delivery lock
    pc,        \* where a dispatcher is
    mine,      \* rows it has claimed and not worked off, the next one first
    reply,     \* what APNs answered
    delivered, \* history: times APNs has accepted a row
    revoked,   \* history: tokens revoked and not registered since
    barred,    \* history: rows that were stored when their token was revoked
    crashes, stalls, losses

dispatch == <<pc, mine, reply>>
history  == <<delivered, revoked, barred>>
bounds   == <<crashes, stalls, losses>>
vars == <<now, device, row, fence, dispatch, history, bounds>>

Statuses == {"unused", "pending", "sending", "sent", "failed", "gone"}

OutboxRow == [status : Statuses, msg : Messages \cup {0}, token : Tokens \cup {0},
              tries : Nat, due : Nat, expires : Nat, lease : Nat,
              owner : Dispatchers \cup {Nobody}]

Places == {"idle", "claim", "next", "prepare", "fenced", "check", "post", "finish", "remove"}

Answers == {"ok", "invalid", "reject", "busy"}

Unused == [status |-> "unused", msg |-> 0, token |-> 0, tries |-> 0, due |-> 0,
           expires |-> 0, lease |-> 0, owner |-> Nobody]

Init ==
    /\ now = 1
    /\ device = [t \in Tokens |-> 0]
    /\ row = [r \in Rows |-> Unused]
    /\ fence = Nobody
    /\ pc = [d \in Dispatchers |-> "idle"]
    /\ mine = [d \in Dispatchers |-> <<>>]
    /\ reply = [d \in Dispatchers |-> "none"]
    /\ delivered = [r \in Rows |-> 0]
    /\ revoked = {} /\ barred = {}
    /\ crashes = 0 /\ stalls = 0 /\ losses = 0

-----------------------------------------------------------------------------
(* Helpers.                                                                *)

Goto(d, place) == pc' = [pc EXCEPT ![d] = place]

Fresh == {r \in Rows : row[r].status = "unused"}

Stored == {r \in Rows : row[r].status \notin {"unused", "gone"}}

Registered(t) == device[t] # 0             \* a row, expired or not
Live(t) == device[t] > now                 \* push_device_exists

(* The UPDATE or DELETE of one transaction: change(r) for each row it hits. *)
Rewrite(hit, change(_)) ==
    row' = [r \in Rows |-> IF r \in hit THEN change(r) ELSE row[r]]

(* Ids are never reused; the dispatcher still knows the token of its row. *)
Gone(r) == [status |-> "gone", msg |-> 0, token |-> row[r].token, tries |-> 0,
            due |-> 0, expires |-> 0, lease |-> 0, owner |-> Nobody]

Released(r, status) == [row[r] EXCEPT !.status = status, !.lease = 0, !.owner = Nobody]

(* Its lease has run out, and anybody may claim it again. *)
Lapsed(r) == row[r].status = "sending" /\ row[r].lease <= now

Owns(d, r) == row[r].status = "sending" /\ row[r].owner = d

(* push_outbox_renew_claims: the owner counts, the age of the lease does not. *)
Renewed(r) == [row[r] EXCEPT !.lease = now + Lease]

(* push_outbox_finish: only the owner writes, a retry needs a device, an    *)
(* attempt and time left.                                                   *)
Retryable(r) ==
    Registered(row[r].token) /\ row[r].tries < MaxAttempts /\ row[r].expires > now

Finish(d, r, result) ==
    LET closed == CASE result = "sent" -> Released(r, "sent")
                    [] result = "retry" /\ Retryable(r) ->
                           [Released(r, "pending") EXCEPT !.due = now + 1]
                    [] OTHER -> Released(r, "failed")
    IN row' = IF Owns(d, r) THEN [row EXCEPT ![r] = closed] ELSE row

Next1(d) == Head(mine[d])

(* The dispatcher turns to its next row. *)
Continue(d) ==
    /\ mine' = [mine EXCEPT ![d] = Tail(@)]
    /\ Goto(d, "next")

-----------------------------------------------------------------------------
(* Devices and messages.                                                   *)

Register(t) ==
    /\ device' = [device EXCEPT ![t] = now + DeviceLease]
    /\ revoked' = revoked \ {t}
    /\ UNCHANGED <<now, row, fence, dispatch, delivered, barred, bounds>>

(* Mutant: a revocation does not wait for a delivery under way. *)
RevokeUnfenced(tokens) ==
    LET hit == {r \in Stored : row[r].token \in tokens} IN
    /\ device' = [t \in Tokens |-> IF t \in tokens THEN 0 ELSE device[t]]
    /\ Rewrite(hit, Gone)
    /\ revoked' = revoked \cup tokens
    /\ barred' = barred \cup hit
    /\ UNCHANGED <<now, fence, dispatch, delivered, bounds>>

(* Behind the fence the devices and all their rows are deleted. *)
Revoke(tokens) ==
    LET hit == {r \in Stored : row[r].token \in tokens} IN
    /\ fence = Nobody
    /\ device' = [t \in Tokens |-> IF t \in tokens THEN 0 ELSE device[t]]
    /\ Rewrite(hit, Gone)
    /\ revoked' = revoked \cup tokens
    /\ barred' = barred \cup hit
    /\ UNCHANGED <<now, fence, dispatch, delivered, bounds>>

Unregister(t) == Registered(t) /\ Revoke({t})

RevokeAll == (\E t \in Tokens : Registered(t)) /\ Revoke(Tokens)

(* A fresh row of the outbox.                                              *)
Queued(m, t) ==
    [status |-> "pending", msg |-> m, token |-> t, tries |-> 0, due |-> now,
     expires |-> now + Retention, lease |-> 0, owner |-> Nobody]

(* push_outbox_enqueue: one row for each live device that has none yet. *)
Lacking(m) ==
    {t \in Tokens : Live(t) /\ \A r \in Stored : row[r].msg # m \/ row[r].token # t}

Enqueue(m) ==
    /\ Lacking(m) # {}
    /\ now + Retention <= Horizon
    /\ \E id \in [Lacking(m) -> Fresh] :
          /\ \A t, u \in Lacking(m) : id[t] = id[u] => t = u
          /\ \A t \in Lacking(m), r \in Fresh :
                r < id[t] => \E u \in Lacking(m) : id[u] = r
          /\ row' = [r \in Rows |->
                        IF \E t \in Lacking(m) : id[t] = r
                        THEN Queued(m, CHOOSE t \in Lacking(m) : id[t] = r)
                        ELSE row[r]]
    /\ UNCHANGED <<now, device, fence, dispatch, history, bounds>>

(* push_device_prune_expired: rows somebody may be sending are left alone. *)
PruneExpired ==
    LET old == {t \in Tokens : Registered(t) /\ ~Live(t)} IN
    /\ Rewrite({r \in Stored : row[r].token \in old
                   /\ (row[r].status # "sending" \/ Lapsed(r))}, Gone)
    /\ device' = [t \in Tokens |-> IF t \in old THEN 0 ELSE device[t]]

Maintain ==
    /\ \E t \in Tokens : Registered(t) /\ ~Live(t)
    /\ PruneExpired
    /\ UNCHANGED <<now, fence, dispatch, history, bounds>>

-----------------------------------------------------------------------------
(* A dispatcher.                                                           *)

StartDispatch(d) ==
    /\ pc[d] = "idle"
    /\ PruneExpired
    /\ Goto(d, "claim")
    /\ UNCHANGED <<now, fence, mine, reply, history, bounds>>

Claimed(d, r) ==
    [row[r] EXCEPT !.status = "sending", !.owner = d, !.tries = @ + 1,
                   !.lease = now + Lease]

(* The rows it has claimed are worked off in the order of the query. *)
Before(r, s) == row[r].due < row[s].due \/ (row[r].due = row[s].due /\ r < s)

TakesInOrder(d, due) ==
    \E s \in [1 .. Cardinality(due) -> due] :
        /\ \A i, j \in 1 .. Cardinality(due) : i < j => Before(s[i], s[j])
        /\ mine' = [mine EXCEPT ![d] = s]

(* Mutant: a claim whose lease has lapsed is nobody's to take. *)
ClaimPendingOnly(d) ==
    /\ pc[d] = "claim"
    /\ LET due == {r \in Rows : row[r].status = "pending" /\ row[r].expires > now
                       /\ Registered(row[r].token) /\ row[r].due <= now}
       IN /\ row' = [r \in Rows |->
                 IF r \in due THEN Claimed(d, r)
                 ELSE IF row[r].status = "pending"
                         /\ (row[r].expires <= now \/ ~Registered(row[r].token))
                      THEN Released(r, "failed")
                 ELSE row[r]]
          /\ TakesInOrder(d, due)
          /\ Goto(d, IF due = {} THEN "idle" ELSE "next")
    /\ UNCHANGED <<now, device, fence, reply, history, bounds>>

(* push_outbox_claim_due, one transaction: lapsed claims become pending,    *)
(* expired rows and rows without a device fail, the due ones are claimed.   *)
Waiting(r) == row[r].status = "pending" \/ Lapsed(r)
Expired(r) == row[r].status \in {"pending", "sending"} /\ row[r].expires <= now
Homeless(r) == Waiting(r) /\ ~Registered(row[r].token)
Due == {r \in Rows : Waiting(r) /\ ~Expired(r) /\ ~Homeless(r) /\ row[r].due <= now}

AfterClaim(d, r) ==
    IF Expired(r) \/ Homeless(r) THEN Released(r, "failed")
    ELSE IF r \in Due THEN Claimed(d, r)
    ELSE IF Lapsed(r) THEN Released(r, "pending")
    ELSE row[r]

Claim(d) ==
    /\ pc[d] = "claim"
    /\ row' = [r \in Rows |-> AfterClaim(d, r)]
    /\ TakesInOrder(d, Due)
    /\ Goto(d, IF Due = {} THEN "idle" ELSE "next")
    /\ UNCHANGED <<now, device, fence, reply, history, bounds>>

DispatchEnds(d) ==
    /\ pc[d] = "next" /\ mine[d] = <<>>
    /\ Goto(d, "idle")
    /\ UNCHANGED <<now, device, row, fence, mine, reply, history, bounds>>

(* The claims of all remaining rows are renewed; a row that is no longer    *)
(* owned is left to its new owner.                                          *)
RenewRemaining(d) ==
    /\ pc[d] = "next" /\ mine[d] # <<>>
    /\ Rewrite({r \in ToSet(mine[d]) : Owns(d, r)}, Renewed)
    /\ IF Owns(d, Next1(d)) THEN Goto(d, "prepare") /\ UNCHANGED mine
       ELSE Continue(d)
    /\ UNCHANGED <<now, device, fence, reply, history, bounds>>

(* The event is no longer configured, or no provider token can be made. *)
PrepareFails(d) ==
    /\ pc[d] = "prepare"
    /\ \E result \in {"fail", "retry"} : Finish(d, Next1(d), result)
    /\ Continue(d)
    /\ UNCHANGED <<now, device, fence, reply, history, bounds>>

(* The fence is waited for; leases may run out meanwhile. *)
EnterFence(d) ==
    /\ pc[d] = "prepare" /\ fence = Nobody
    /\ fence' = d
    /\ Goto(d, "fenced")
    /\ UNCHANGED <<now, device, row, mine, reply, history, bounds>>

(* Mutant: after the wait for the fence the claim is not looked at again. *)
RenewFencedBlindly(d) ==
    /\ pc[d] = "fenced"
    /\ Goto(d, "check")
    /\ UNCHANGED <<now, device, row, fence, mine, reply, history, bounds>>

(* Mutant: the fence is kept when the claim turns out to be lost. *)
RenewFencedKeeps(d) ==
    /\ pc[d] = "fenced"
    /\ IF Owns(d, Next1(d))
       THEN Rewrite({Next1(d)}, Renewed) /\ Goto(d, "check") /\ UNCHANGED mine
       ELSE Continue(d) /\ UNCHANGED row
    /\ UNCHANGED <<now, device, fence, reply, history, bounds>>

RenewFenced(d) ==
    /\ pc[d] = "fenced"
    /\ IF Owns(d, Next1(d))
       THEN /\ Rewrite({Next1(d)}, Renewed)
            /\ Goto(d, "check")
            /\ UNCHANGED <<mine, fence>>
       ELSE Continue(d) /\ fence' = Nobody /\ UNCHANGED row
    /\ UNCHANGED <<now, device, reply, history, bounds>>

CheckDevice(d) ==
    /\ pc[d] = "check"
    /\ IF Live(row[Next1(d)].token)
       THEN Goto(d, "post") /\ UNCHANGED <<row, mine, fence>>
       ELSE Finish(d, Next1(d), "fail") /\ Continue(d) /\ fence' = Nobody
    /\ UNCHANGED <<now, device, reply, history, bounds>>

(* _post_with_claim_heartbeat while the POST is under way. *)
Heartbeat(d) ==
    /\ pc[d] = "post" /\ Owns(d, Next1(d))
    /\ Rewrite({Next1(d)}, Renewed)
    /\ UNCHANGED <<now, device, fence, dispatch, history, bounds>>

Accepted(d) == delivered' = [delivered EXCEPT ![Next1(d)] = @ + 1]

(* The POST ends and the fence is left with its answer. *)
Answer(d, answer) ==
    /\ reply' = [reply EXCEPT ![d] = answer]
    /\ fence' = Nobody
    /\ Goto(d, "finish")

Post(d) ==
    /\ pc[d] = "post"
    /\ \/ Answer(d, "ok") /\ Accepted(d) /\ UNCHANGED losses
       \/ \E answer \in {"invalid", "reject", "busy"} :
             Answer(d, answer) /\ UNCHANGED <<delivered, losses>>
       \/ /\ Answer(d, "busy") /\ Accepted(d)
          /\ losses < MaxLosses /\ losses' = losses + 1
    /\ UNCHANGED <<now, device, row, mine, revoked, barred, crashes, stalls>>

(* The heartbeat finds the claim lost and closes the connection. *)
HeartbeatLost(d) ==
    /\ pc[d] = "post" /\ ~Owns(d, Next1(d))
    /\ Answer(d, "busy")
    /\ Accepted(d) \/ UNCHANGED delivered
    /\ UNCHANGED <<now, device, row, mine, revoked, barred, bounds>>

(* The answer is stored; a token APNs rejects is removed afterwards. *)
FinishRow(d) ==
    /\ pc[d] = "finish"
    /\ Finish(d, Next1(d), CASE reply[d] = "ok" -> "sent"
                             [] reply[d] = "busy" -> "retry"
                             [] OTHER -> "fail")
    /\ IF reply[d] = "invalid" /\ Owns(d, Next1(d))
       THEN Goto(d, "remove") /\ UNCHANGED mine
       ELSE Continue(d)
    /\ reply' = [reply EXCEPT ![d] = "none"]
    /\ UNCHANGED <<now, device, fence, history, bounds>>

(* push_device_delete with claim_owner: rows others are sending stay. *)
RemoveDevice(d) ==
    /\ pc[d] = "remove"
    /\ LET t == row[Next1(d)].token IN
          /\ Rewrite({r \in Stored : row[r].token = t
                         /\ (row[r].status # "sending" \/ row[r].owner = d)}, Gone)
          /\ device' = [device EXCEPT ![t] = 0]
    /\ Continue(d)
    /\ UNCHANGED <<now, fence, reply, history, bounds>>

(* A process is killed, or an exception leaves the call.  Its owner id is   *)
(* never used again; APNs may have taken the message.                       *)
Crash(d) ==
    /\ pc[d] # "idle"
    /\ crashes < MaxCrashes /\ crashes' = crashes + 1
    /\ Rewrite({r \in Rows : Owns(d, r)},
               LAMBDA r : [row[r] EXCEPT !.owner = Nobody])
    /\ fence' = IF fence = d THEN Nobody ELSE fence
    /\ Goto(d, "idle")
    /\ mine' = [mine EXCEPT ![d] = <<>>]
    /\ reply' = [reply EXCEPT ![d] = "none"]
    /\ UNCHANGED delivered \/ (pc[d] = "post" /\ Accepted(d))
    /\ UNCHANGED <<now, device, revoked, barred, stalls, losses>>

-----------------------------------------------------------------------------
(* Time.                                                                   *)

(* It relies on its claim: behind the fence after the renewal, or with an   *)
(* answer that is not stored yet.                                           *)
AtWork(d) == pc[d] \in {"check", "post", "finish"} /\ Owns(d, Next1(d))

Overrun == \E d \in Dispatchers : AtWork(d) /\ row[Next1(d)].lease = now + 1

Tick ==
    /\ now < Horizon /\ now' = now + 1
    /\ stalls' = stalls + (IF Overrun THEN 1 ELSE 0) /\ stalls' <= MaxStalls
    /\ UNCHANGED <<device, row, fence, dispatch, history, crashes, losses>>

-----------------------------------------------------------------------------
(* The specification.                                                      *)

Work(d) == \/ Claim(d) \/ DispatchEnds(d) \/ RenewRemaining(d) \/ PrepareFails(d)
           \/ EnterFence(d) \/ RenewFenced(d) \/ CheckDevice(d) \/ Post(d)
           \/ HeartbeatLost(d) \/ FinishRow(d) \/ RemoveDevice(d)

Requests == \/ \E t \in Tokens : Register(t) \/ Unregister(t)
            \/ RevokeAll \/ Maintain
            \/ \E m \in Messages : Enqueue(m)

Next == \/ \E d \in Dispatchers :
              StartDispatch(d) \/ Work(d) \/ Heartbeat(d) \/ Crash(d)
        \/ Requests \/ Tick

Spec == Init /\ [][Next]_vars

(* The loop of the web process calls the dispatcher again and again, a POST *)
(* ends by its timeout, flock wakes a waiter, and time passes.              *)
FairSpec ==
    /\ Spec
    /\ WF_vars(Tick) /\ WF_vars(StartDispatch(Loop))
    /\ \A d \in Dispatchers :
          /\ WF_vars(Work(d)) /\ SF_vars(EnterFence(d)) /\ WF_vars(Heartbeat(d))

-----------------------------------------------------------------------------
(* Properties.                                                             *)

(* Types of the two tables and of a dispatcher's registers; a dispatcher    *)
(* past its claim has a row at hand, and the fence has a holder behind it   *)
(* (push_outbox, push_devices, dispatch_pending_pushes, delivery_guard).    *)
TypeOK ==
    /\ now \in 1 .. Horizon
    /\ device \in [Tokens -> Nat]
    /\ row \in [Rows -> OutboxRow]
    /\ \A r \in Rows : row[r].status = "unused" => row[r] = Unused
    /\ \A r \in Rows : row[r].status \in {"pending", "sending", "sent", "failed"} =>
          /\ row[r].msg \in Messages /\ row[r].token \in Tokens
          /\ row[r].status # "sending" => row[r].owner = Nobody /\ row[r].lease = 0
    /\ fence \in Dispatchers \cup {Nobody}
    /\ pc \in [Dispatchers -> Places]
    /\ mine \in [Dispatchers -> Seq(Rows)]
    /\ reply \in [Dispatchers -> Answers \cup {"none"}]
    /\ \A d \in Dispatchers :
          /\ fence = d <=> pc[d] \in {"fenced", "check", "post"}
          /\ pc[d] \notin {"idle", "claim", "next"} => mine[d] # <<>>
    /\ delivered \in [Rows -> Nat]
    /\ revoked \subseteq Tokens /\ barred \subseteq Rows
    /\ crashes \in 0 .. MaxCrashes /\ stalls \in 0 .. MaxStalls
    /\ losses \in 0 .. MaxLosses

(* Once a device is signed off or all sessions are revoked nothing is on    *)
(* its way to it, and what was queued before is never sent, not even after  *)
(* the same token has been registered again (revoke_all_push_devices: "Fence *)
(* APNs I/O and revoke all registrations for a session-version change").    *)
RevokedStaysSilent ==
    \A d \in Dispatchers :
        pc[d] = "post" => /\ Next1(d) \notin barred
                          /\ row[Next1(d)].token \notin revoked

(* A message reaches a device once, unless a dispatcher dies, stalls beyond *)
(* its lease or loses a reply: claims, waits for the fence and retries of   *)
(* concurrent dispatchers never send it twice.                              *)
DeliveredOnce ==
    \A r \in Rows : delivered[r] <= 1 + crashes + stalls + losses

(* The refinement: the table and what APNs took are an OutboxLedger, for    *)
(* which a row is open until it is sent, given up or deleted, and each      *)
(* kill, stall and lost reply is an excuse to send one again.               *)
Life == [r \in Rows |-> IF row[r].status \in {"pending", "sending"} THEN "open"
                        ELSE row[r].status]
Excuses == crashes + stalls + losses
Ledger == INSTANCE OutboxLedger
              WITH life <- Life, taken <- delivered, silenced <- barred, excuses <- Excuses
OutboxLedgerSpec == Ledger!Spec

(* Every stored message is sent, given up or deleted with its device.       *)
OutboxDrains ==
    \A r \in Rows : row[r].status \in {"pending", "sending"}
        ~> row[r].status \notin {"pending", "sending"}
=============================================================================
