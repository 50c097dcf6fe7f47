---------------------------- MODULE AccountGrants ----------------------------
(***************************************************************************)
(* The grants of the single account: sessions, keys (WebAuthn credentials) *)
(* and registered push devices, and the requests that give them out or     *)
(* take them back while the account changes under them.  A request proves  *)
(* something in one account generation, goes on without any lock, and      *)
(* decides under account_generation_guard, a section that holds the        *)
(* configuration lock and compares the generation.  Such a section holds   *)
(* at most one transaction next to what it grants and is one step here;    *)
(* a deletion of a key holds the lock exclusively.                         *)
(*                                                                         *)
(* A ceremony is one chain of one-time records: ticket, challenge, and     *)
(* exchange.  The cryptographic checks pass; a wrong password, signature,  *)
(* origin or binding changes no state of this module.                      *)
(***************************************************************************)
EXTENDS Integers

CONSTANTS
    Flows,     \* requests in progress
    MaxCounter,\* largest signature counter of an assertion
    MaxChanges, MaxCeremonies, MaxKeyGens  \* bounds

Unlocked == "unlocked"

ASSUME GrantAssumptions ==
    /\ {MaxChanges, MaxCeremonies} \subseteq Nat
    /\ {MaxCounter, MaxKeyGens} \subseteq Nat \ {0}
    /\ Unlocked \notin Flows

Ceremonies == 1 .. MaxCeremonies
NoCeremony == 0
NoKey == 0
ByKey == -1
Callers == {"browser", "app"}

VARIABLES
    account,    \* generation, session_version and password of the account
    storeLock,  \* who holds the configuration lock over several steps
    key,        \* the registered credential: generation (0: none), counter
    keyGens,    \* generations given out so far
    sessions,   \* signed cookies out there: session version, what was proven
    devices,    \* registered push devices: the session version they came with
    tickets, challenges, exchanges, \* one-time records in the database
    flow,       \* a request: where it is and what it remembers
    began,      \* history: the generation a ceremony was approved or begun in
    provenBy,   \* history: the key generation a ceremony was verified with
    yields,     \* history: sessions and keys a ceremony led to
    accepted,   \* history: how often a counter was accepted from this key
    changes

grantRecords == <<tickets, challenges, exchanges>>
grantKeys == <<key, keyGens, accepted>>
grantHistory == <<began, provenBy, yields>>
accountVars == <<account, storeLock>>
grantVars == <<accountVars, grantKeys, sessions, devices, grantRecords, flow,
               grantHistory, changes>>

(* A request that remembers a generation and a password or a version, and   *)
(* one that holds a ceremony of a generation.                               *)
Remembering(place, g, n) ==
    [at |-> place, gen |-> g, ceremony |-> NoCeremony, caller |-> "browser",
     keyGen |-> NoKey, counter |-> n, next |-> 0]
Holding(place, g, c, caller) ==
    [at |-> place, gen |-> g, ceremony |-> c, caller |-> caller,
     keyGen |-> NoKey, counter |-> 0, next |-> 0]
Idle == Remembering("idle", 0, 0)

GrantInit ==
    /\ account = [gen |-> 0, version |-> 0, password |-> 0] /\ storeLock = Unlocked
    /\ \/ key = [gen |-> NoKey, counter |-> 0] /\ keyGens = 0
       \/ key = [gen |-> 1, counter |-> 0] /\ keyGens = 1
    /\ sessions = {} /\ devices = {}
    /\ tickets = {} /\ challenges = {} /\ exchanges = {}
    /\ flow = [f \in Flows |-> Idle]
    /\ began = [c \in Ceremonies |-> 0] /\ provenBy = [c \in Ceremonies |-> NoKey]
    /\ yields = [c \in Ceremonies |-> 0]
    /\ accepted = [n \in 1 .. MaxCounter |-> 0]
    /\ changes = 0

-----------------------------------------------------------------------------
InFlow(f, s) == flow[f].at = s
Becomes(f, r) == flow' = [flow EXCEPT ![f] = r]
Ends(f) == Becomes(f, Idle)

(* account_generation_guard raises ValueError when the account has changed. *)
Guarded == storeLock = Unlocked
StillIn(g) == account.gen = g

LoggedIn == \E s \in sessions : s.version = account.version

(* Ids are random; here one that was not used.                              *)
Unused == {c \in Ceremonies :
              /\ \A r \in tickets \cup challenges \cup exchanges : r.id # c
              /\ \A f \in Flows : flow[f].ceremony # c
              /\ began[c] = 0 /\ yields[c] = 0}
FreshId == CHOOSE c \in Unused : TRUE

Challenge(c, purpose, caller, g) ==
    [id |-> c, purpose |-> purpose, caller |-> caller, gen |-> g]

-----------------------------------------------------------------------------
(* The password: login, and the confirmation that other requests need.      *)

(* verify_password_with_generation: the generation before and after the     *)
(* comparison is the same one.                                              *)
ProvePassword(f) ==
    /\ InFlow(f, "idle")
    /\ \E purpose \in {"login"} \cup
             (IF LoggedIn THEN {"approve", "ticket", "delete", "change"} ELSE {}) :
          Becomes(f, Remembering(purpose, account.gen, account.password))
    /\ UNCHANGED <<accountVars, grantKeys, sessions, devices, grantRecords, grantHistory,
                   changes>>

(* Mutant: the session is made without looking at the generation again. *)
PasswordSessionUnguarded(f) ==
    /\ InFlow(f, "login") /\ Guarded
    /\ sessions' = sessions \cup {[version |-> account.version, by |-> flow[f].counter]}
    /\ Ends(f)
    /\ UNCHANGED <<accountVars, grantKeys, devices, grantRecords, grantHistory, changes>>

(* _set_authenticated_session after a password login.                       *)
PasswordSession(f) ==
    /\ InFlow(f, "login") /\ Guarded
    /\ sessions' = IF StillIn(flow[f].gen)
          THEN sessions \cup {[version |-> account.version, by |-> flow[f].counter]}
          ELSE sessions
    /\ Ends(f)
    /\ UNCHANGED <<accountVars, grantKeys, devices, grantRecords, grantHistory, changes>>

-----------------------------------------------------------------------------
(* Registration of a key.                                                  *)

(* registration_options for a browser: the password was confirmed.          *)
BeginRegistration(f) ==
    /\ InFlow(f, "approve") /\ Guarded /\ Unused # {}
    /\ IF StillIn(flow[f].gen)
       THEN /\ challenges' = challenges \cup
                  {Challenge(FreshId, "register", "browser", flow[f].gen)}
            /\ began' = [began EXCEPT ![FreshId] = flow[f].gen + 1]
       ELSE UNCHANGED <<challenges, began>>
    /\ Ends(f)
    /\ UNCHANGED <<accountVars, grantKeys, sessions, devices, tickets, exchanges,
                   provenBy, yields, changes>>

(* The app asks for a ticket; the session is checked again.                 *)
CreateTicket(f) ==
    /\ InFlow(f, "ticket") /\ Guarded /\ Unused # {}
    /\ IF StillIn(flow[f].gen) /\ LoggedIn
       THEN /\ tickets' = tickets \cup {[id |-> FreshId, gen |-> flow[f].gen]}
            /\ began' = [began EXCEPT ![FreshId] = flow[f].gen + 1]
       ELSE UNCHANGED <<tickets, began>>
    /\ Ends(f)
    /\ UNCHANGED <<accountVars, grantKeys, sessions, devices, challenges, exchanges,
                   provenBy, yields, changes>>

(* native_webauthn_registration_consume: the ticket of an earlier account   *)
(* stays where it is.                                                       *)
ConsumeTicket(f) ==
    /\ InFlow(f, "idle") /\ Guarded
    /\ \E t \in tickets :
          /\ StillIn(t.gen)
          /\ tickets' = tickets \ {t}
          /\ Becomes(f, Holding("options", t.gen, t.id, "app"))
    /\ UNCHANGED <<accountVars, grantKeys, sessions, devices, challenges, exchanges,
                   grantHistory, changes>>

(* registration_options with the generation of the ticket.                  *)
TicketOptions(f) ==
    /\ InFlow(f, "options") /\ Guarded
    /\ challenges' = IF StillIn(flow[f].gen)
          THEN challenges \cup {Challenge(flow[f].ceremony, "register", "app", flow[f].gen)}
          ELSE challenges
    /\ Ends(f)
    /\ UNCHANGED <<accountVars, grantKeys, sessions, devices, tickets, exchanges,
                   grantHistory, changes>>

(* webauthn_challenge_consume deletes the row whatever it then answers.     *)
WithoutChallenge(c) == challenges \ {c}

(* The browser or the app answers a challenge; a request that was caught    *)
(* may be sent a second time.                                               *)
FinishCeremony(f) ==
    /\ InFlow(f, "idle") /\ Guarded
    /\ \E c \in challenges :
          /\ challenges' = WithoutChallenge(c)
          /\ IF StillIn(c.gen)
             THEN Becomes(f, Holding(IF c.purpose = "register" THEN "add" ELSE "lookup",
                                     c.gen, c.id, c.caller))
             ELSE UNCHANGED flow
    /\ UNCHANGED <<accountVars, grantKeys, sessions, devices, tickets, exchanges,
                   grantHistory, changes>>

(* One credential id: a second row of it is refused.                        *)
Addable(f) == StillIn(flow[f].gen) /\ key.gen = NoKey

AddKey(f) ==
    /\ InFlow(f, "add") /\ Guarded /\ keyGens < MaxKeyGens
    /\ IF Addable(f)
       THEN /\ \E n \in 0 .. 1 : key' = [gen |-> keyGens + 1, counter |-> n]
            /\ keyGens' = keyGens + 1
            /\ accepted' = [n \in 1 .. MaxCounter |-> IF n = key'.counter THEN 1 ELSE 0]
            /\ yields' = [yields EXCEPT ![flow[f].ceremony] = @ + 1]
       ELSE UNCHANGED <<grantKeys, yields>>
    /\ Ends(f)
    /\ UNCHANGED <<accountVars, sessions, devices, grantRecords, began, provenBy, changes>>

DeleteKey(f) ==
    /\ InFlow(f, "delete") /\ Guarded
    /\ key' = IF StillIn(flow[f].gen) THEN [gen |-> NoKey, counter |-> 0] ELSE key
    /\ Ends(f)
    /\ UNCHANGED <<accountVars, keyGens, accepted, sessions, devices, grantRecords,
                   grantHistory, changes>>

-----------------------------------------------------------------------------
(* Login with a key.                                                       *)

BeginAuthentication ==
    /\ key.gen # NoKey /\ Guarded /\ Unused # {}
    /\ \E caller \in Callers :
          challenges' = challenges \cup
              {Challenge(FreshId, "authenticate", caller, account.gen)}
    /\ began' = [began EXCEPT ![FreshId] = account.gen + 1]
    /\ UNCHANGED <<accountVars, grantKeys, sessions, devices, tickets, exchanges, flow,
                   provenBy, yields, changes>>

(* The stored key is read and the assertion verified against it; a counter  *)
(* that does not rise is refused unless the key does not count.             *)
Verified(r, n) == [r EXCEPT !.at = "used", !.keyGen = key.gen, !.counter = key.counter,
                            !.next = n]
VerifyAssertion(f) ==
    /\ InFlow(f, "lookup")
    /\ \/ key.gen = NoKey /\ Ends(f)
       \/ /\ key.gen # NoKey
          /\ \E n \in 0 .. MaxCounter :
                IF key.counter > 0 /\ n <= key.counter THEN Ends(f)
                ELSE Becomes(f, Verified(flow[f], n))
    /\ UNCHANGED <<accountVars, grantKeys, sessions, devices, grantRecords, grantHistory,
                   changes>>

(* Mutant: the counter is stored whatever it was when it was read. *)
UsableLax(f) == StillIn(flow[f].gen) /\ key.gen = flow[f].keyGen

(* webauthn_credential_used: generation and counter are those that were     *)
(* read.                                                                    *)
Usable(f) ==
    /\ StillIn(flow[f].gen)
    /\ key.gen = flow[f].keyGen /\ key.counter = flow[f].counter

Counted(r) == [r EXCEPT !.at = "grant", !.counter = 0, !.next = 0]
UseKey(f) ==
    /\ InFlow(f, "used") /\ Guarded
    /\ IF Usable(f)
       THEN /\ key' = [key EXCEPT !.counter = flow[f].next]
            /\ accepted' = [n \in 1 .. MaxCounter |->
                   IF n = flow[f].next THEN accepted[n] + 1 ELSE accepted[n]]
            /\ provenBy' = [provenBy EXCEPT ![flow[f].ceremony] = key.gen]
            /\ Becomes(f, Counted(flow[f]))
       ELSE Ends(f) /\ UNCHANGED <<key, accepted, provenBy>>
    /\ UNCHANGED <<accountVars, keyGens, sessions, devices, grantRecords, began, yields,
                   changes>>

(* Mutant: the key is not looked at again. *)
KeyStillGoodUnchecked(f) == StillIn(flow[f].gen)

KeyStillGood(f) == StillIn(flow[f].gen) /\ key.gen = flow[f].keyGen

(* The browser gets its session.                                            *)
KeySession(f) ==
    /\ InFlow(f, "grant") /\ flow[f].caller = "browser" /\ Guarded
    /\ IF KeyStillGood(f)
       THEN /\ sessions' = sessions \cup {[version |-> account.version, by |-> ByKey]}
            /\ yields' = [yields EXCEPT ![flow[f].ceremony] = @ + 1]
       ELSE UNCHANGED <<sessions, yields>>
    /\ Ends(f)
    /\ UNCHANGED <<accountVars, grantKeys, devices, grantRecords, began, provenBy, changes>>

(* The app gets a one-time code for it.                                     *)
CreateExchange(f) ==
    /\ InFlow(f, "grant") /\ flow[f].caller = "app" /\ Guarded
    /\ exchanges' = IF KeyStillGood(f)
          THEN exchanges \cup {[id |-> flow[f].ceremony, gen |-> flow[f].gen,
                                keyGen |-> flow[f].keyGen]}
          ELSE exchanges
    /\ Ends(f)
    /\ UNCHANGED <<accountVars, grantKeys, sessions, devices, tickets, challenges,
                   grantHistory, changes>>

(* native_auth_exchange_consume and the session, in one guarded section.    *)
(* A code whose key is gone is deleted; one of an earlier account stays.    *)
ConsumeExchange ==
    /\ Guarded
    /\ \E x \in exchanges :
          LET good == key.gen = x.keyGen IN
          /\ good => StillIn(x.gen)
          /\ exchanges' = exchanges \ {x}
          /\ IF good
             THEN /\ sessions' = sessions \cup {[version |-> account.version, by |-> ByKey]}
                  /\ yields' = [yields EXCEPT ![x.id] = @ + 1]
             ELSE UNCHANGED <<sessions, yields>>
    /\ UNCHANGED <<accountVars, grantKeys, devices, tickets, challenges, flow, began,
                   provenBy, changes>>

(* A one-time record runs out.                                              *)
RecordExpires ==
    /\ \/ \E t \in tickets : tickets' = tickets \ {t} /\ UNCHANGED <<challenges, exchanges>>
       \/ \E c \in challenges : challenges' = challenges \ {c}
                                /\ UNCHANGED <<tickets, exchanges>>
       \/ \E x \in exchanges : exchanges' = exchanges \ {x}
                               /\ UNCHANGED <<tickets, challenges>>
    /\ UNCHANGED <<accountVars, grantKeys, sessions, devices, flow, grantHistory, changes>>

-----------------------------------------------------------------------------
(* The account changes.                                                    *)

(* change_password takes the configuration lock, compares the generation,   *)
(* checks nothing else, and revokes the push devices under it,              *)
ChangePassword(f) ==
    /\ InFlow(f, "change") /\ Guarded /\ changes < MaxChanges
    /\ IF StillIn(flow[f].gen)
       THEN /\ devices' = {} /\ storeLock' = f /\ Becomes(f, Remembering("store", 0, 0))
            /\ changes' = changes + 1
       ELSE Ends(f) /\ UNCHANGED <<devices, storeLock, changes>>
    /\ UNCHANGED <<account, grantKeys, sessions, grantRecords, grantHistory>>

(* and then writes the file; a failed write leaves the account as it was.   *)
StorePassword(f) ==
    /\ InFlow(f, "store") /\ storeLock = f
    /\ account' \in {account, [gen |-> account.gen + 1, version |-> account.version + 1,
                               password |-> account.password + 1]}
    /\ storeLock' = Unlocked /\ Ends(f)
    /\ UNCHANGED <<grantKeys, sessions, devices, grantRecords, grantHistory, changes>>

(* logout: bump_session_version revokes the push devices first,             *)
BeginLogout(f) ==
    /\ InFlow(f, "idle") /\ LoggedIn /\ changes < MaxChanges /\ changes' = changes + 1
    /\ devices' = {} /\ Becomes(f, Remembering("bump", 0, 0))
    /\ UNCHANGED <<accountVars, grantKeys, sessions, grantRecords, grantHistory>>

(* and then counts the version on, or answers that it could not.            *)
BumpVersion(f) ==
    /\ InFlow(f, "bump") /\ Guarded
    /\ account' \in {account, [gen |-> account.gen + 1, version |-> account.version + 1,
                               password |-> account.password]}
    /\ Ends(f)
    /\ UNCHANGED <<storeLock, grantKeys, sessions, devices, grantRecords, grantHistory,
                   changes>>

(* A saved configuration with another relying party or origin.              *)
EditIdentity ==
    /\ Guarded /\ LoggedIn /\ changes < MaxChanges /\ changes' = changes + 1
    /\ account' = [account EXCEPT !.gen = @ + 1]
    /\ UNCHANGED <<storeLock, grantKeys, sessions, devices, grantRecords, flow, grantHistory>>

(* register_push_device: require_auth,                                      *)
BeginDevice(f) ==
    /\ InFlow(f, "idle") /\ LoggedIn
    /\ Becomes(f, Remembering("device", 0, account.version))
    /\ UNCHANGED <<accountVars, grantKeys, sessions, devices, grantRecords, grantHistory,
                   changes>>

(* then push_device_upsert.                                                 *)
StoreDevice(f) ==
    /\ InFlow(f, "device")
    /\ devices' = devices \cup {flow[f].counter} /\ Ends(f)
    /\ UNCHANGED <<accountVars, grantKeys, sessions, grantRecords, grantHistory, changes>>

FlowStep(f) ==
    \/ ProvePassword(f) \/ PasswordSession(f) \/ BeginRegistration(f) \/ CreateTicket(f)
    \/ ConsumeTicket(f) \/ TicketOptions(f) \/ FinishCeremony(f) \/ AddKey(f)
    \/ DeleteKey(f) \/ VerifyAssertion(f) \/ UseKey(f) \/ KeySession(f)
    \/ CreateExchange(f) \/ ChangePassword(f) \/ StorePassword(f) \/ BeginLogout(f)
    \/ BumpVersion(f) \/ BeginDevice(f) \/ StoreDevice(f)

GrantNext ==
    \/ \E f \in Flows : FlowStep(f)
    \/ BeginAuthentication \/ ConsumeExchange \/ RecordExpires \/ EditIdentity

GrantSpec == GrantInit /\ [][GrantNext]_grantVars

-----------------------------------------------------------------------------
Tickets == [id : Ceremonies, gen : Nat]
Challenges == [id : Ceremonies, purpose : {"register", "authenticate"},
               caller : Callers, gen : Nat]
Exchanges == [id : Ceremonies, gen : Nat, keyGen : Nat]
Sessions == [version : Nat, by : Nat \cup {ByKey}]
FlowStates == [at : {"idle", "login", "approve", "ticket", "delete", "change", "options",
                     "add", "lookup", "used", "grant", "store", "bump", "device"},
               gen : Nat, ceremony : Ceremonies \cup {NoCeremony}, caller : Callers,
               keyGen : Nat, counter : Nat, next : 0 .. MaxCounter]

GrantTypeOK ==
    /\ account \in [gen : Nat, version : Nat, password : Nat]
    /\ storeLock \in Flows \cup {Unlocked}
    /\ key \in [gen : 0 .. MaxKeyGens, counter : 0 .. MaxCounter]
    /\ keyGens \in 0 .. MaxKeyGens
    /\ sessions \subseteq Sessions
    /\ devices \subseteq Nat
    /\ tickets \subseteq Tickets /\ challenges \subseteq Challenges
    /\ exchanges \subseteq Exchanges
    /\ flow \in [Flows -> FlowStates]
    /\ began \in [Ceremonies -> Nat] /\ provenBy \in [Ceremonies -> Nat]
    /\ yields \in [Ceremonies -> Nat]
    /\ accepted \in [1 .. MaxCounter -> Nat]
    /\ changes \in 0 .. MaxChanges

(* After a change of the password no session that still counts rests on an  *)
(* earlier one, also when the login had verified it before the change.      *)
NoOldPassword ==
    \A s \in sessions : s.version = account.version => s.by \in {account.password, ByKey}

(* Whatever a ceremony ends in, a session or a key, the account is still    *)
(* the one it was approved or begun in, and a key that proved it has        *)
(* neither been deleted nor registered anew since.                          *)
YieldsAreLive ==
    [][\A c \in Ceremonies : yields'[c] # yields[c] =>
          /\ began[c] = account.gen + 1
          /\ provenBy[c] \in {NoKey, key.gen}]_grantVars

(* One ceremony, one grant, and one counter, one login: neither a challenge *)
(* nor a ticket nor the code for the app leads to a second grant, however   *)
(* its answers are repeated, and of two devices that hold copies of a       *)
(* counting key only one gets in with the same counter, also at the same    *)
(* time.                                                                    *)
UsedOnce ==
    /\ \A c \in Ceremonies : yields[c] <= 1
    /\ \A n \in 1 .. MaxCounter : accepted[n] <= 1

(* bump_session_version returns, or a password is changed, and no device of *)
(* an earlier session is left that messages could be sent to.               *)
NoOldDevice ==
    (\A f \in Flows : flow[f].at \notin {"bump", "store"}) =>
        \A v \in devices : v = account.version
=============================================================================
