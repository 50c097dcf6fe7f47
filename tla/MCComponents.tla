---------------------------- MODULE MCComponents ----------------------------
(***************************************************************************)
(* Small instances of the components beside JobLifecycle for TLC.  They    *)
(* share no variable, so one run looks at several of them: the initial     *)
(* state says which component moves, and the others stay where they began. *)
(***************************************************************************)
EXTENDS MCPairRunner, MCSchedulerDue, ConfigStore, AccountGrants, RecoveryStore,
        MCVaultUpload

CONSTANTS
    Parts,             \* the components of a run
    web, cli, clerk    \* processes of the server, and a client on the command line

VARIABLE moving
vars == <<moving, runVars, dueVars, storeVars, grantVars, recVars, vaultVars>>

Init ==
    /\ moving \in Parts
    /\ RunInit /\ DueInit /\ StoreInit /\ GrantInit /\ RecInit /\ VaultInit
    /\ moving # "run" => \A p \in RunPairs : baseline[p] = Unmeasured
    /\ moving # "due" => success["job"] = 0
    /\ moving # "grant" => keyGens = 0

Moves(p) == moving = p /\ UNCHANGED moving
Run == Moves("run") /\ RunNext
Due == Moves("due") /\ DueNext
Store == Moves("store") /\ StoreNext
Grant == Moves("grant") /\ GrantNext
Recovery == Moves("recovery") /\ RecNext
Vault == Moves("vault") /\ VaultNext

Next ==
    \/ Run /\ UNCHANGED <<dueVars, storeVars, grantVars, recVars, vaultVars>>
    \/ Due /\ UNCHANGED <<runVars, storeVars, grantVars, recVars, vaultVars>>
    \/ Store /\ UNCHANGED <<runVars, dueVars, grantVars, recVars, vaultVars>>
    \/ Grant /\ UNCHANGED <<runVars, dueVars, storeVars, recVars, vaultVars>>
    \/ Recovery /\ UNCHANGED <<runVars, dueVars, storeVars, grantVars, vaultVars>>
    \/ Vault /\ UNCHANGED <<runVars, dueVars, storeVars, grantVars, recVars>>

Spec == Init /\ [][Next]_vars

(* Every variable keeps its type: the variables of the components that do   *)
(* not move are those of an initial state.                                  *)
TypesOK ==
    /\ moving = "run" => RunTypeOK
    /\ moving = "due" => DueTypeOK
    /\ moving = "store" => StoreTypeOK
    /\ moving = "grant" => GrantTypeOK
    /\ moving = "recovery" => RecTypeOK
    /\ moving = "vault" => VaultTypeOK

-----------------------------------------------------------------------------
MCProcessOf == [c \in Clients |-> IF c = clerk THEN cli ELSE web]

(* A kill of the server or a failing operation in a behaviour, not both; a  *)
(* source that shrinks, or a killed run and children nobody attends; a      *)
(* pause, a run by hand or an alarm that is lost.                           *)
OneTrouble ==
    /\ crashes + storeFaults <= 1
    /\ shrinks > 0 => deaths = 0 /\ stuck = {}
    /\ pauses + manuals + alarmsLost <= 1

(* Devices register in behaviours without a ceremony.                      *)
DevicesAlone ==
    (devices # {} \/ \E f \in Flows : flow[f].at = "device") =>
        \A c \in Ceremonies : began[c] = 0

Small == OneTrouble /\ DevicesAlone
Interchangeable == Permutations(Flows) \cup Permutations(StoredFiles)
=============================================================================
