----------------------------- MODULE MCProgress -----------------------------
(***************************************************************************)
(* Progress of runs, of the scheduler and of the uploads to the vault, for *)
(* TLC.  They share no variable: the initial state says which of them      *)
(* moves, and the fairness of each is asked of the one that does.          *)
(***************************************************************************)
EXTENDS MCPairRunner, MCSchedulerDue, MCVaultUpload

VARIABLE moving
vars == <<moving, runVars, dueVars, vaultVars>>

Init ==
    /\ moving \in {"run", "due", "vault"}
    /\ RunInit /\ DueInit /\ VaultInit
    /\ moving # "run" => \A p \in RunPairs : baseline[p] = Unmeasured
    /\ moving # "due" => success["job"] = 0

(* Of the troubles from outside two in a behaviour, or a pause; a crash of  *)
(* the server or a changed data path.                                       *)
FewTroubles == kills' + manuals' + alarmsLost' + 2 * pauses' <= 2
CrashOrEdit == vaultCrashes' + road' <= 1

Run == moving = "run" /\ RunNext
Due == moving = "due" /\ DueNext /\ FewTroubles
Vault == moving = "vault" /\ VaultNext /\ CrashOrEdit

Next ==
    \/ Run /\ UNCHANGED <<moving, dueVars, vaultVars>>
    \/ Due /\ UNCHANGED <<moving, runVars, vaultVars>>
    \/ Vault /\ UNCHANGED <<moving, runVars, dueVars>>

Fairness ==
    /\ WF_runVars(moving = "run" /\ (LoopStep \/ \E p \in RunPairs : PairStep(p)))
    /\ WF_dueVars(moving = "due" /\ TickStep)
    /\ WF_dueVars(moving = "due" /\ ManualEnd)
    /\ WF_dueVars(moving = "due" /\ Minute)
    /\ \A u \in Uploads :
          /\ WF_vaultVars(moving = "vault" /\ BeginTransfer(u))
          /\ WF_vaultVars(moving = "vault" /\ TransferWork(u))
          /\ WF_vaultVars(moving = "vault" /\ PhoneRepeats(u))

FairSpec == Init /\ [][Next]_vars /\ Fairness
=============================================================================
