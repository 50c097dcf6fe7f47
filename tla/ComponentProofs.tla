--------------------------- MODULE ComponentProofs ---------------------------
(***************************************************************************)
(* The components together: what is proved of each of them alone holds     *)
(* also where they stand beside each other, as in the runs of              *)
(* MCComponents.  A step of the system is a step of one component, and the *)
(* others do not notice it; so every behaviour of the system is one of     *)
(* each component, and the inductive invariant of each is one of it.       *)
(***************************************************************************)
EXTENDS MCComponents, TransferProofs, SchedulerDueProofs, ConfigAccountProofs,
        RecoveryStoreProofs

(* Each component sees the system begin in one of its initial states, and   *)
(* each step as one of its own or none.                                    *)
LEMMA BeginsInEach ==
    Init => RunInit /\ DueInit /\ StoreInit /\ GrantInit /\ RecInit /\ VaultInit
BY DEF Init

LEMMA StepOfEach ==
    [Next]_vars =>
        /\ [RunNext]_runVars /\ [DueNext]_dueVars /\ [StoreNext]_storeVars
        /\ [GrantNext]_grantVars /\ [RecNext]_recVars /\ [VaultNext]_vaultVars
<1> SUFFICES ASSUME [Next]_vars
             PROVE  /\ [RunNext]_runVars /\ [DueNext]_dueVars /\ [StoreNext]_storeVars
                    /\ [GrantNext]_grantVars /\ [RecNext]_recVars /\ [VaultNext]_vaultVars
  OBVIOUS
<1>1. CASE UNCHANGED vars
  BY <1>1 DEF vars
<1>2. CASE Next
  BY <1>2, Zenon DEF Next, Run, Due, Store, Grant, Recovery, Vault, Moves
<1> QED BY <1>1, <1>2

LEMMA EachIsKept ==
    Spec => [](/\ RunInvariant /\ DueTypes /\ StoreInvariant
               /\ GrantInvariant /\ RecoveryInvariant /\ VaultInvariant)
<1>1. DueTypes /\ [DueNext]_dueVars => DueTypes'
  BY TypesStep, TypesStutter
<1>2. DueInit => DueTypes
  BY InitTypes
<1> QED BY <1>1, <1>2, BeginsInEach, StepOfEach, RunInitOK, RunStep, StoreInitOK, StoreStep,
           GrantInitOK, GrantStep, RecInitially, RecStep, VaultInitOK, VaultStep, PTL DEF Spec

(* Every variable of a component keeps its type, whichever of them moves.   *)
THEOREM ComponentTypesHold == Spec => []TypesOK
<1> DEFINE AllKept == /\ RunInvariant /\ DueTypes /\ StoreInvariant
                   /\ GrantInvariant /\ RecoveryInvariant /\ VaultInvariant
<1>1. AllKept => TypesOK
  <2> SUFFICES ASSUME AllKept PROVE TypesOK
    OBVIOUS
  <2>1. RunTypeOK /\ StoreTypeOK /\ GrantTypeOK /\ RecTypeOK /\ VaultTypeOK
    BY DEF RunInvariant, StoreInvariant, GrantInvariant, RecoveryInvariant, VaultInvariant
  <2>2. DueTypeOK
    BY TypesAreKnown
  <2> QED BY <2>1, <2>2 DEF TypesOK
<1> QED BY <1>1, EachIsKept, PTL

(* Every behaviour of the system is one of the components that are only     *)
(* asked for safety.                                                        *)
LEMMA BehavesAsEach == Spec => StoreSpec /\ GrantSpec /\ RecSpec
BY BeginsInEach, StepOfEach, PTL DEF Spec, StoreSpec, GrantSpec, RecSpec

(* What is promised of the components holds where they stand together: runs *)
(* keep overlapping paths apart and respect quarantines (run_job), the file *)
(* and its copies are one register (config_store), no grant outlives what   *)
(* it rests on (auth, webauthn_service), points and restores are whole,     *)
(* within the budget and safe from removal (selective_restore), and the     *)
(* chunks a phone was told of are kept (device_vault).                      *)
THEOREM ComponentsKeepTheirPromises ==
    Spec => /\ [](OverlapSerialised /\ FirstResyncOnce) /\ QuarantineHolds
            /\ OneRegister /\ VersionGrows
            /\ []NoOldPassword /\ []UsedOnce /\ YieldsAreLive
            /\ []PointIsOneMoment /\ []ReadyIsWhole /\ []DiskWithinBudget
            /\ ChildKeepsItsPlace /\ []AcknowledgedKept
<1>1. Spec => [](OverlapSerialised /\ FirstResyncOnce)
  <2>1. RunInvariant => OverlapSerialised /\ FirstResyncOnce
    BY DEF RunInvariant, LoopOK, ChildrenOK, ResyncOK, OverlapSerialised, FirstResyncOnce
  <2> QED BY <2>1, EachIsKept, PTL
<1>2. Spec => QuarantineHolds
  <2>1. RunInvariant /\ [RunNext]_runVars =>
           [\A p \in (pairKids' \ pairKids) \cap Destructive : ~Quarantined(p)]_runVars
    BY NothingStartsQuarantined
  <2> QED BY <2>1, EachIsKept, StepOfEach, PTL DEF Spec, QuarantineHolds
<1>3. Spec => OneRegister /\ VersionGrows
  BY BehavesAsEach, StoreIsOneRegister, VersionsGrow
<1>4. Spec => []NoOldPassword /\ []UsedOnce /\ YieldsAreLive
  BY BehavesAsEach, OldPasswordsAreOut, RecordsAreUsedOnce, GrantsRestOnTheLiving
<1>5. Spec => /\ []PointIsOneMoment /\ []ReadyIsWhole /\ []DiskWithinBudget
              /\ ChildKeepsItsPlace
  BY BehavesAsEach, PointsAreOneMoment, ReadyRestoresAreWhole, StagedDataFitsTheBudget,
     ChildrenKeepTheirPlace
<1>6. Spec => []AcknowledgedKept
  <2>1. VaultInvariant => AcknowledgedKept
    BY DEF VaultInvariant, AcknowledgedKept
  <2> QED BY <2>1, EachIsKept, PTL
<1> QED BY <1>1, <1>2, <1>3, <1>4, <1>5, <1>6
=============================================================================
