------------------------ MODULE ConfigAccountProofs ------------------------
(***************************************************************************)
(* Machine-checked proofs about the two stores behind the settings pages:  *)
(* ConfigStore first, AccountGrants after it.                              *)
(***************************************************************************)
EXTENDS ConfigStore, AccountGrants, TLAPS

(***************************************************************************)
(* ConfigStore, for any number of clients and processes and any number of  *)
(* writes and edits.                                                       *)
(*                                                                         *)
(* The inductive invariant is StoreInvariant.  A copy with the modification *)
(* time of the file has its content (CopiesOK); who writes holds the file  *)
(* lock, and the file is still the one the page showed (WriterOK); what a   *)
(* request read last is no older than what its page shows, and nothing     *)
(* anybody read is newer than the file (VersionsOK).                       *)
(***************************************************************************)

(* A copy of the file, as it was when it was read.                          *)
CopyOK(f) == /\ f.mtime <= file.mtime /\ f.content.version <= file.content.version
             /\ f.mtime = file.mtime => f.content = file.content

CopiesOK == /\ file.content.version < file.mtime
            /\ \A p \in Processes : CopyOK(copyOf[p])
            /\ \A c \in Clients : CopyOK(opened[c])

WriterOK == \A c \in Clients :
    /\ at[c] \in {"write", "written"} => fileLock = c
    /\ at[c] = "write" /\ doing[c] # "rotate" => shown[c] = file.content

VersionsOK == \A c \in Clients :
    /\ shown[c].version <= file.content.version
    /\ base[c].version <= file.content.version
    /\ at[c] = "putOpen" => shown[c].version <= opened[c].content.version
    /\ at[c] \in {"lock", "wait", "write"} /\ doing[c] # "rotate" =>
          shown[c].version <= base[c].version

StoreInvariant == StoreTypeOK /\ CopiesOK /\ WriterOK /\ VersionsOK

LEMMA FileFacts ==
    ASSUME StoreTypeOK
    PROVE  /\ file \in StoredFile /\ file.content \in Contents
           /\ file.mtime \in Nat \ {0} /\ file.content.version \in Nat
           /\ \A c \in Clients : /\ ProcessOf[c] \in Processes
                                 /\ shown[c] \in Contents /\ shown[c].version \in Nat
                                 /\ base[c] \in Contents /\ base[c].version \in Nat
                                 /\ opened[c] \in StoredFile /\ opened[c].mtime \in Nat
                                 /\ opened[c].content \in Contents
                                 /\ opened[c].content.version \in Nat
           /\ \A p \in Processes : /\ copyOf[p] \in StoredFile /\ copyOf[p].mtime \in Nat
                                   /\ copyOf[p].content \in Contents
                                   /\ copyOf[p].content.version \in Nat
BY StoreAssumptions DEF StoreTypeOK, StoredFile, Contents

(* What a client writes carries the session version on, by one at most:     *)
(* an edit and a restore replace the page they were made from, so what they *)
(* read of the server is as new as the file.                                *)
LEMMA WriteGrows ==
    ASSUME StoreInvariant, NEW c \in Clients, WriteFile(c)
    PROVE  /\ file' \in StoredFile /\ file'.mtime = file.mtime + 1
           /\ file.content.version <= file'.content.version
           /\ file'.content.version <= file.content.version + 1
           /\ file.mtime <= MaxWrites
<1> DEFINE new == NewContent(c)
<1>1. /\ file.content.version \in Nat /\ file.mtime \in Nat \ {0} /\ base[c].version \in Nat
      /\ file.content \in Contents
  BY FileFacts DEF StoreInvariant
<1>2. /\ file.content.version < file.mtime /\ file.mtime <= MaxWrites /\ MaxWrites \in Nat
      /\ base[c].version <= file.content.version
  BY StoreAssumptions DEF StoreInvariant, CopiesOK, VersionsOK, WriteFile
<1>3. CASE doing[c] = "rotate"
  <2>1. new = [file.content EXCEPT !.version = @ + 1]
    BY <1>3 DEF NewContent
  <2>2. new \in Contents /\ new.version = file.content.version + 1
    BY <1>1, <1>2, <2>1 DEF Contents
  <2> QED BY <1>1, <1>2, <2>2 DEF WriteFile, StoredFile
<1>4. CASE doing[c] # "rotate"
  <2>1. doing[c] \in {"edit", "restore"} /\ draft[c] \in {0, 1}
    BY <1>4 DEF StoreInvariant, StoreTypeOK
  <2>2. base[c].version = file.content.version
    BY <1>1, <1>2, <1>4 DEF StoreInvariant, WriterOK, VersionsOK, WriteFile
  <2>3. \/ new = [edit |-> draft[c], version |-> file.content.version]
        \/ new = [edit |-> draft[c], version |-> file.content.version + 1]
    BY <2>1, <2>2 DEF NewContent
  <2>4. /\ new \in Contents /\ file.content.version <= new.version
        /\ new.version <= file.content.version + 1
    BY <1>1, <1>2, <2>1, <2>3 DEF Contents
  <2> QED BY <1>1, <1>2, <2>4 DEF WriteFile, StoredFile
<1> QED BY <1>3, <1>4

-----------------------------------------------------------------------------
(* Every variable keeps its type.                                           *)
LEMMA StoreTypeStep ==
    ASSUME StoreInvariant, [StoreNext]_storeVars
    PROVE  StoreTypeOK'
<1> USE StoreAssumptions, FileFacts DEF StoreTypeOK, storeFiles, storeLocks, storeClient,
        Mine, Holds, Step, Unlock, Release, Copy, Answer
<1>0. StoreTypeOK
  BY DEF StoreInvariant
<1>1. ASSUME NEW c \in Clients, BeginGet(c) \/ BeginRotate(c) \/ LeavePage(c)
      PROVE  StoreTypeOK'
  BY <1>0, <1>1 DEF BeginGet, BeginRotate, LeavePage
<1>2. ASSUME NEW c \in Clients, BeginSave(c) PROVE StoreTypeOK'
  <2>1. snapshotFile.edit \in {0, 1}
    BY <1>0 DEF Contents
  <2>2. UNCHANGED <<file, snapshotFile, copyOf, opened, rlock, fileLock, shown, base>>
    BY <1>2 DEF BeginSave
  <2>3. at' = [at EXCEPT ![c] = "put"]
    BY <1>2 DEF BeginSave
  <2>4. \/ doing' = [doing EXCEPT ![c] = "edit"]
        \/ doing' = [doing EXCEPT ![c] = "restore"]
    BY <1>2 DEF BeginSave
  <2>5. \E e \in {0, 1} : draft' = [draft EXCEPT ![c] = e]
    BY <1>2, <2>1 DEF BeginSave
  <2>6. at' \in [Clients -> {"idle", "get", "getOpen", "page", "put", "putOpen", "lock",
                             "wait", "write", "written"}]
    BY <1>0, <2>3
  <2>7. doing' \in [Clients -> {"edit", "restore", "rotate"}]
    BY <1>0, <2>4
  <2>8. draft' \in [Clients -> {0, 1}]
    BY <1>0, <2>5
  <2> HIDE StoreAssumptions, FileFacts
  <2> QED BY <1>0, <2>2, <2>6, <2>7, <2>8
<1>3. ASSUME NEW c \in Clients, ReadCopy(c) PROVE StoreTypeOK'
  <2>1. copyOf[ProcessOf[c]].content \in Contents
    BY <1>0
  <2>2. UNCHANGED <<file, snapshotFile, copyOf, opened, rlock, fileLock, doing, draft>>
    BY <1>3 DEF ReadCopy
  <2>3. \/ /\ shown' = [shown EXCEPT ![c] = copyOf[ProcessOf[c]].content]
           /\ at' = [at EXCEPT ![c] = "page"] /\ UNCHANGED base
        \/ /\ base' = [base EXCEPT ![c] = copyOf[ProcessOf[c]].content]
           /\ at' = [at EXCEPT ![c] = "lock"] /\ UNCHANGED shown
    BY <1>3 DEF ReadCopy
  <2> HIDE StoreAssumptions, FileFacts
  <2>4. shown' \in [Clients -> Contents] /\ base' \in [Clients -> Contents]
    BY <1>0, <2>1, <2>3
  <2>5. at' \in [Clients -> {"idle", "get", "getOpen", "page", "put", "putOpen", "lock",
                             "wait", "write", "written"}]
    BY <1>0, <2>3
  <2> QED BY <1>0, <2>2, <2>4, <2>5
<1>4. ASSUME NEW c \in Clients, OpenFile(c) PROVE StoreTypeOK'
  BY <1>0, <1>4 DEF OpenFile
<1>5. ASSUME NEW c \in Clients, LoadFile(c) PROVE StoreTypeOK'
  <2>1. /\ copyOf' \in [Processes -> StoredFile] /\ rlock' \in [Processes -> Clients \cup {NoOne}]
        /\ UNCHANGED <<file, snapshotFile, opened, fileLock, doing, draft>>
    BY <1>0, <1>5 DEF LoadFile
  <2>2. /\ shown' \in [Clients -> Contents] /\ base' \in [Clients -> Contents]
    <3>1. opened[c].content \in Contents
      BY <1>0
    <3>2. UNCHANGED base \/ base' = [base EXCEPT ![c] = opened[c].content]
      BY <1>5 DEF LoadFile
    <3>3. UNCHANGED shown \/ shown' = [shown EXCEPT ![c] = opened[c].content]
      BY <1>5 DEF LoadFile
    <3> QED BY <1>0, <3>1, <3>2, <3>3
  <2>3. at' \in [Clients -> {"idle", "get", "getOpen", "page", "put", "putOpen", "lock",
                             "wait", "write", "written"}]
    <3>1. at' = [at EXCEPT ![c] = "page"] \/ at' = [at EXCEPT ![c] = "lock"]
      BY <1>5 DEF LoadFile
    <3>2. at \in [Clients -> {"idle", "get", "getOpen", "page", "put", "putOpen", "lock",
                              "wait", "write", "written"}]
      BY <1>0
    <3> HIDE StoreAssumptions, FileFacts DEF StoreTypeOK
    <3> QED BY <3>1, <3>2
  <2> HIDE StoreAssumptions, FileFacts
  <2> QED BY <1>0, <2>1, <2>2, <2>3
<1>6. ASSUME NEW c \in Clients, TakeRLock(c) \/ LockTimeout(c) PROVE StoreTypeOK'
  <2>1. CASE TakeRLock(c)
    BY <1>0, <2>1 DEF TakeRLock
  <2>2. CASE LockTimeout(c)
    BY <1>0, <2>2 DEF LockTimeout
  <2> HIDE DEF StoreTypeOK
  <2> QED BY <1>6, <2>1, <2>2
<1>7. ASSUME NEW c \in Clients, TakeFileLock(c) PROVE StoreTypeOK'
  BY <1>0, <1>7 DEF TakeFileLock
<1>8. ASSUME NEW c \in Clients, WriteFile(c) PROVE StoreTypeOK'
  BY <1>0, <1>8, WriteGrows DEF WriteFile
<1>9. ASSUME NEW c \in Clients, WriteFails(c) \/ Remember(c) PROVE StoreTypeOK'
  <2>1. /\ Copy(c, file) /\ Step(c, "idle") /\ Release(c)
        /\ UNCHANGED <<file, snapshotFile, opened, doing, shown, draft, base>>
    BY <1>9 DEF WriteFails, Remember
  <2> QED BY <1>0, <2>1
<1>10. ASSUME NEW c \in Clients, SaveSnapshot(c) PROVE StoreTypeOK'
  BY <1>0, <1>10 DEF SaveSnapshot
<1>11. CASE OutsiderLocks
  BY <1>0, <1>11 DEF OutsiderLocks
<1>12. ASSUME NEW p \in Processes, ProcessEnds(p) PROVE StoreTypeOK'
  BY <1>0, <1>12 DEF ProcessEnds
<1>13. CASE UNCHANGED storeVars
  BY <1>0, <1>13 DEF storeVars
<1> QED BY <1>1, <1>2, <1>3, <1>4, <1>5, <1>6, <1>7, <1>8, <1>9, <1>10, <1>11,
    <1>12, <1>13 DEF StoreNext, Serve

(* Copies are taken of the file as it is, or of one that was opened; a write *)
(* gives the file a time no copy has.                                       *)
LEMMA CopiesStep ==
    ASSUME StoreInvariant, [StoreNext]_storeVars
    PROVE  CopiesOK'
<1> USE FileFacts DEF storeFiles, storeLocks, storeClient, CopiesOK
<1>0. StoreTypeOK /\ CopiesOK
  BY DEF StoreInvariant
<1>1. CopyOK(file)
  BY <1>0 DEF CopyOK
<1>2. ASSUME UNCHANGED file, opened' = opened,
             \/ UNCHANGED copyOf
             \/ \E p \in Processes : \/ copyOf' = [copyOf EXCEPT ![p] = file]
                                     \/ \E c \in Clients : copyOf' = [copyOf EXCEPT ![p] = opened[c]]
      PROVE  CopiesOK'
  <2>1. \A f : CopyOK(f)' <=> CopyOK(f)
    BY <1>2 DEF CopyOK
  <2>2. copyOf \in [Processes -> StoredFile]
    BY <1>0 DEF StoreTypeOK
  <2>3. \A p \in Processes : CopyOK(copyOf'[p])
    BY <1>0, <1>1, <1>2, <2>2
  <2>4. \A c \in Clients : CopyOK(opened'[c])
    BY <1>0, <1>2
  <2> QED BY <1>0, <1>2, <2>1, <2>3, <2>4
<1>3. ASSUME NEW c \in Clients, OpenFile(c) PROVE CopiesOK'
  BY <1>0, <1>1, <1>3 DEF OpenFile, CopyOK, StoreTypeOK
<1>4. ASSUME NEW c \in Clients, WriteFile(c) PROVE CopiesOK'
  <2>1. /\ file'.mtime = file.mtime + 1 /\ file.content.version <= file'.content.version
        /\ file'.content.version <= file.content.version + 1
        /\ file'.content.version \in Nat
        /\ UNCHANGED <<copyOf, opened>>
    BY <1>4, WriteGrows DEF WriteFile, StoredFile, Contents
  <2>2. ASSUME NEW f \in StoredFile, CopyOK(f) PROVE CopyOK(f)'
    <3>1. f.mtime \in Nat /\ f.content.version \in Nat
      BY StoreAssumptions DEF StoredFile, Contents
    <3> QED BY <1>0, <2>1, <2>2, <3>1 DEF CopyOK
  <2>3. file'.content.version < file'.mtime
    BY <1>0, <2>1
  <2>4. \A p \in Processes : CopyOK(copyOf[p])'
    BY <1>0, <2>1, <2>2 DEF CopyOK
  <2>5. \A c_1 \in Clients : CopyOK(opened[c_1])'
    BY <1>0, <2>1, <2>2 DEF CopyOK
  <2> QED BY <2>3, <2>4, <2>5
<1>5. ASSUME NEW c \in Clients,
             \/ BeginGet(c) \/ BeginSave(c) \/ BeginRotate(c) \/ ReadCopy(c) \/ TakeRLock(c)
             \/ LockTimeout(c) \/ SaveSnapshot(c) \/ LeavePage(c)
      PROVE  CopiesOK'
  BY <1>2, <1>5 DEF BeginGet, BeginSave, BeginRotate, ReadCopy, TakeRLock, LockTimeout,
     SaveSnapshot, LeavePage
<1>6. ASSUME NEW c \in Clients,
             LoadFile(c) \/ TakeFileLock(c) \/ WriteFails(c) \/ Remember(c)
      PROVE  CopiesOK'
  BY <1>0, <1>2, <1>6 DEF LoadFile, TakeFileLock, WriteFails, Remember, Copy
<1>7. CASE OutsiderLocks \/ \E p \in Processes : ProcessEnds(p)
  BY <1>2, <1>7 DEF OutsiderLocks, ProcessEnds
<1>8. CASE UNCHANGED storeVars
  BY <1>2, <1>8 DEF storeVars
<1> QED BY <1>3, <1>4, <1>5, <1>6, <1>7, <1>8 DEF StoreNext, Serve

(* Nobody writes without the file lock, and only the holder moves the file.  *)
LEMMA WriterStep ==
    ASSUME StoreInvariant, [StoreNext]_storeVars
    PROVE  WriterOK'
<1> USE StoreAssumptions DEF WriterOK, storeFiles, storeLocks, storeClient, Step, Answer,
        Release
<1>0. StoreTypeOK /\ WriterOK
  BY DEF StoreInvariant
<1> USE <1>0 DEF StoreTypeOK
<1>1. ASSUME NEW c \in Clients, BeginGet(c) \/ BeginRotate(c) \/ LeavePage(c) PROVE WriterOK'
  BY <1>1 DEF BeginGet, BeginRotate, LeavePage
<1>2. ASSUME NEW c \in Clients, BeginSave(c) PROVE WriterOK'
  BY <1>2 DEF BeginSave
<1>3. ASSUME NEW c \in Clients, ReadCopy(c) \/ LoadFile(c) PROVE WriterOK'
  BY <1>3 DEF ReadCopy, LoadFile
<1>4. ASSUME NEW c \in Clients, OpenFile(c) PROVE WriterOK'
  BY <1>4 DEF OpenFile
<1>5. ASSUME NEW c \in Clients, TakeRLock(c) \/ LockTimeout(c) PROVE WriterOK'
  BY <1>5 DEF TakeRLock, LockTimeout
<1>6. ASSUME NEW c \in Clients, TakeFileLock(c) PROVE WriterOK'
  BY <1>6 DEF TakeFileLock, Conflict
<1>7. ASSUME NEW c \in Clients, WriteFile(c) PROVE WriterOK'
  BY <1>7 DEF WriteFile
<1>8. ASSUME NEW c \in Clients, WriteFails(c) \/ Remember(c) PROVE WriterOK'
  BY <1>8 DEF WriteFails, Remember
<1>9. ASSUME NEW c \in Clients, SaveSnapshot(c) PROVE WriterOK'
  BY <1>9 DEF SaveSnapshot
<1>10. CASE OutsiderLocks
  BY <1>10 DEF OutsiderLocks
<1>11. ASSUME NEW p \in Processes, ProcessEnds(p) PROVE WriterOK'
  BY <1>11 DEF ProcessEnds
<1>12. CASE UNCHANGED storeVars
  BY <1>12 DEF storeVars
<1> QED BY <1>1, <1>2, <1>3, <1>4, <1>5, <1>6, <1>7, <1>8, <1>9, <1>10, <1>11,
    <1>12 DEF StoreNext, Serve

(* What was read stays older than the file, and what a request read last is  *)
(* as new as what its page shows.                                           *)
LEMMA VersionsStep ==
    ASSUME StoreInvariant, [StoreNext]_storeVars
    PROVE  VersionsOK'
<1> USE FileFacts DEF VersionsOK, storeFiles, storeLocks, storeClient, Step
<1>0. StoreTypeOK /\ VersionsOK /\ CopiesOK
  BY DEF StoreInvariant
<1>1. /\ \A c \in Clients : opened[c].content.version <= file.content.version
      /\ \A c \in Clients : Mine(c).mtime = file.mtime => Mine(c).content = file.content
  BY <1>0 DEF CopiesOK, CopyOK, Mine
<1> USE <1>0, <1>1
<1>2. ASSUME NEW c \in Clients, BeginGet(c) \/ BeginRotate(c) \/ LeavePage(c) PROVE VersionsOK'
  BY <1>2 DEF BeginGet, BeginRotate, LeavePage, StoreTypeOK
<1>3. ASSUME NEW c \in Clients, BeginSave(c) PROVE VersionsOK'
  BY <1>3 DEF BeginSave, StoreTypeOK
<1>4. ASSUME NEW c \in Clients, ReadCopy(c) PROVE VersionsOK'
  BY <1>4 DEF ReadCopy, Answer, StoreTypeOK
<1>5. ASSUME NEW c \in Clients, OpenFile(c) PROVE VersionsOK'
  BY <1>5 DEF OpenFile, StoreTypeOK
<1>6. ASSUME NEW c \in Clients, LoadFile(c) PROVE VersionsOK'
  BY <1>6 DEF LoadFile, Answer, StoreTypeOK
<1>7. ASSUME NEW c \in Clients, TakeRLock(c) \/ LockTimeout(c) PROVE VersionsOK'
  BY <1>7 DEF TakeRLock, LockTimeout, StoreTypeOK
<1>8. ASSUME NEW c \in Clients, TakeFileLock(c) PROVE VersionsOK'
  BY <1>8 DEF TakeFileLock, StoreTypeOK
<1>9. ASSUME NEW c \in Clients, WriteFile(c) PROVE VersionsOK'
  <2>1. /\ file.content.version <= file'.content.version /\ file'.content.version \in Nat
        /\ at' = [at EXCEPT ![c] = "written"] /\ UNCHANGED <<opened, doing, shown, base>>
    <3>1. file' \in StoredFile /\ file.content.version <= file'.content.version
      BY <1>9, WriteGrows
    <3> QED BY <1>9, <3>1 DEF WriteFile, StoredFile, Contents
  <2> QED BY <2>1 DEF StoreTypeOK
<1>10. ASSUME NEW c \in Clients, WriteFails(c) \/ Remember(c) PROVE VersionsOK'
  BY <1>10 DEF WriteFails, Remember, StoreTypeOK
<1>11. ASSUME NEW c \in Clients, SaveSnapshot(c) PROVE VersionsOK'
  BY <1>11 DEF SaveSnapshot, StoreTypeOK
<1>12. CASE OutsiderLocks \/ UNCHANGED storeVars
  BY <1>12 DEF OutsiderLocks, storeVars
<1>13. ASSUME NEW p \in Processes, ProcessEnds(p) PROVE VersionsOK'
  BY <1>13 DEF ProcessEnds, StoreTypeOK
<1> QED BY <1>2, <1>3, <1>4, <1>5, <1>6, <1>7, <1>8, <1>9, <1>10, <1>11, <1>12, <1>13
        DEF StoreNext, Serve

LEMMA StoreInitOK ==
    ASSUME StoreInit
    PROVE  StoreInvariant
<1>1. /\ Start \in Contents /\ Start.version = 0
      /\ [content |-> Start, mtime |-> 1] \in StoredFile
  BY StoreAssumptions DEF Start, Contents, StoredFile
<1>2. StoreTypeOK
  BY <1>1, StoreAssumptions DEF StoreInit, StoreTypeOK
<1>3. CopiesOK /\ WriterOK /\ VersionsOK
  BY <1>1 DEF StoreInit, CopiesOK, CopyOK, WriterOK, VersionsOK
<1> QED BY <1>2, <1>3 DEF StoreInvariant

LEMMA StoreStep ==
    ASSUME StoreInvariant, [StoreNext]_storeVars
    PROVE  StoreInvariant'
BY StoreTypeStep, CopiesStep, WriterStep, VersionsStep DEF StoreInvariant

-----------------------------------------------------------------------------
(* Type correctness of the configuration store.                             *)
THEOREM StoreTypesHold == StoreSpec => []StoreTypeOK
<1>1. StoreInvariant => StoreTypeOK
  BY DEF StoreInvariant
<1> QED BY <1>1, StoreInitOK, StoreStep, PTL DEF StoreSpec

(* Sessions that were ended stay ended: whatever page an edit or a restore   *)
(* was made from, the file it writes carries the session version on.         *)
THEOREM VersionsGrow == StoreSpec => VersionGrows
<1> DEFINE Grows == file'.content.version >= file.content.version
<1>1. ASSUME StoreInvariant, [StoreNext]_storeVars PROVE [Grows]_storeVars
  <2>1. file.content.version \in Nat
    BY <1>1, FileFacts DEF StoreInvariant
  <2>2. ASSUME NEW c \in Clients, WriteFile(c) PROVE Grows
    BY <1>1, <2>1, <2>2, WriteGrows DEF StoredFile, Contents
  <2>3. ASSUME ~(\E c \in Clients : WriteFile(c)), StoreNext PROVE UNCHANGED file
    BY <2>3 DEF StoreNext, Serve, BeginGet, BeginSave, BeginRotate, ReadCopy, OpenFile,
       LoadFile, TakeRLock, TakeFileLock, LockTimeout, WriteFails, Remember, SaveSnapshot,
       LeavePage, OutsiderLocks, ProcessEnds, storeFiles
  <2> QED BY <1>1, <2>1, <2>2, <2>3
<1> QED BY <1>1, StoreInitOK, StoreStep, PTL DEF StoreSpec, VersionGrows

(* To requests and commands the file with its copies is one register: a read *)
(* answers what is in the file although it looks at the copy of its process, *)
(* and a write replaces the revision its page was made from and no other.    *)
THEOREM StoreIsOneRegister == StoreSpec => OneRegister
<1> DEFINE Atomic == \A c \in Clients :
        /\ at[c] = "get" /\ at'[c] = "page" => shown'[c] = file.content
        /\ at[c] = "write" /\ at'[c] = "written" /\ doing[c] # "rotate" =>
              file.content = shown[c]
<1>1. ASSUME StoreInvariant, [StoreNext]_storeVars PROVE [Atomic]_storeVars
  <2>1. \A c \in Clients : at[c] = "write" /\ doing[c] # "rotate" => file.content = shown[c]
    BY <1>1 DEF StoreInvariant, WriterOK
  <2>2. \A c \in Clients : Mine(c).mtime = file.mtime => Mine(c).content = file.content
    BY <1>1, FileFacts DEF StoreInvariant, CopiesOK, CopyOK, Mine
  <2>3. at \in [Clients -> {"idle", "get", "getOpen", "page", "put", "putOpen", "lock",
                            "wait", "write", "written"}]
        /\ shown \in [Clients -> Contents]
    BY <1>1 DEF StoreInvariant, StoreTypeOK
  <2>4. ASSUME NEW c \in Clients, ReadCopy(c) PROVE Atomic
    BY <2>1, <2>2, <2>3, <2>4 DEF ReadCopy, Answer, Step
  <2>5. ASSUME NEW c \in Clients, LoadFile(c) PROVE Atomic
    BY <2>1, <2>3, <2>5 DEF LoadFile, Answer, Step
  <2>6. ASSUME StoreNext, ~(\E c \in Clients : ReadCopy(c) \/ LoadFile(c))
        PROVE  \A c \in Clients : at[c] = "get" => at'[c] # "page"
    BY <2>3, <2>6 DEF StoreNext, Serve, BeginGet, BeginSave, BeginRotate, OpenFile,
       TakeRLock, TakeFileLock, LockTimeout, WriteFile, WriteFails, Remember, SaveSnapshot,
       LeavePage, OutsiderLocks, ProcessEnds, storeClient, Step
  <2> QED BY <1>1, <2>1, <2>4, <2>5, <2>6
<1> QED BY <1>1, StoreInitOK, StoreStep, PTL DEF StoreSpec, OneRegister

-----------------------------------------------------------------------------
(***************************************************************************)
(* AccountGrants, for any number of requests, ceremonies, changes of the   *)
(* account and registrations of a key.                                     *)
(*                                                                         *)
(* The inductive invariant is GrantInvariant.  A request knows the password *)
(* of the generation it proved it in (PasswordOK); one record or request at *)
(* a time holds a ceremony (HeldOnce), which has led to nothing yet and    *)
(* says truly where it began and what proved it (HoldersOK); no counter    *)
(* beyond that of the key was accepted from it (CountersOK).               *)
(***************************************************************************)

PasswordOK ==
    /\ \A s \in sessions : /\ s.version <= account.version
                           /\ s.version = account.version => s.by \in {account.password, ByKey}
    /\ \A f \in Flows :
          /\ flow[f].gen <= account.gen
          /\ flow[f].at = "login" /\ flow[f].gen = account.gen =>
                flow[f].counter = account.password

(* What holds a ceremony.                                                   *)
HeldOnce ==
    /\ \A s, t \in tickets : s.id = t.id => s = t
    /\ \A c, d \in challenges : c.id = d.id => c = d
    /\ \A x, y \in exchanges : x.id = y.id => x = y
    /\ \A f, g \in Flows : flow[f].ceremony = flow[g].ceremony /\ f # g =>
                              flow[f].ceremony = NoCeremony
    /\ \A t \in tickets, c \in challenges : t.id # c.id
    /\ \A t \in tickets, x \in exchanges : t.id # x.id
    /\ \A c \in challenges, x \in exchanges : c.id # x.id
    /\ \A f \in Flows : /\ \A t \in tickets : t.id # flow[f].ceremony
                        /\ \A c \in challenges : c.id # flow[f].ceremony
                        /\ \A x \in exchanges : x.id # flow[f].ceremony

(* A ceremony that began in generation g, was proven by key generation k    *)
(* and has led to nothing.                                                  *)
Open(c, g, k) == began[c] = g + 1 /\ provenBy[c] = k /\ yields[c] = 0

HoldersOK ==
    /\ \A t \in tickets : Open(t.id, t.gen, NoKey)
    /\ \A c \in challenges : Open(c.id, c.gen, NoKey)
    /\ \A x \in exchanges : Open(x.id, x.gen, x.keyGen)
    /\ \A f \in Flows :
          /\ flow[f].at \in {"options", "add", "lookup", "used"} =>
                /\ flow[f].ceremony # NoCeremony
                /\ Open(flow[f].ceremony, flow[f].gen, NoKey)
          /\ flow[f].at = "grant" =>
                /\ flow[f].ceremony # NoCeremony
                /\ Open(flow[f].ceremony, flow[f].gen, flow[f].keyGen)
    /\ \A c \in Ceremonies : began[c] = 0 => provenBy[c] = NoKey /\ yields[c] = 0
    /\ \A c \in Ceremonies : yields[c] <= 1

CountersOK ==
    /\ \A n \in 1 .. MaxCounter : accepted[n] <= 1
    /\ \A n \in 1 .. MaxCounter :
          key.gen # NoKey /\ accepted[n] > 0 => n <= key.counter
    /\ \A f \in Flows : flow[f].at = "used" =>
          /\ flow[f].keyGen # NoKey
          /\ flow[f].counter = 0 \/ flow[f].counter < flow[f].next

GrantInvariant == GrantTypeOK /\ PasswordOK /\ HeldOnce /\ HoldersOK /\ CountersOK

-----------------------------------------------------------------------------
(* What the records of a request are.                                       *)
LEMMA RememberingType ==
    ASSUME NEW g \in Nat, NEW n \in Nat,
           NEW place \in {"idle", "login", "approve", "ticket", "delete", "change", "store",
                          "bump", "device"}
    PROVE  /\ Remembering(place, g, n) \in FlowStates
           /\ Remembering(place, g, n).at = place /\ Remembering(place, g, n).gen = g
           /\ Remembering(place, g, n).ceremony = NoCeremony
           /\ Remembering(place, g, n).counter = n
BY GrantAssumptions DEF Remembering, FlowStates, Callers, NoCeremony, NoKey

LEMMA IdleType ==
    /\ Idle \in FlowStates /\ Idle.at = "idle" /\ Idle.gen = 0
    /\ Idle.ceremony = NoCeremony
BY RememberingType DEF Idle

LEMMA HoldingType ==
    ASSUME NEW g \in Nat, NEW c \in Ceremonies, NEW caller \in Callers,
           NEW place \in {"options", "add", "lookup"}
    PROVE  /\ Holding(place, g, c, caller) \in FlowStates
           /\ Holding(place, g, c, caller).at = place
           /\ Holding(place, g, c, caller).gen = g
           /\ Holding(place, g, c, caller).ceremony = c
BY GrantAssumptions DEF Holding, FlowStates, NoKey

LEMMA VerifiedType ==
    ASSUME NEW r \in FlowStates, NEW n \in 0 .. MaxCounter,
           key.gen \in Nat, key.counter \in Nat
    PROVE  /\ Verified(r, n) \in FlowStates
           /\ Verified(r, n).at = "used" /\ Verified(r, n).gen = r.gen
           /\ Verified(r, n).ceremony = r.ceremony /\ Verified(r, n).keyGen = key.gen
           /\ Verified(r, n).counter = key.counter /\ Verified(r, n).next = n
BY DEF Verified, FlowStates

LEMMA CountedType ==
    ASSUME NEW r \in FlowStates
    PROVE  /\ Counted(r) \in FlowStates
           /\ Counted(r).at = "grant" /\ Counted(r).gen = r.gen
           /\ Counted(r).ceremony = r.ceremony /\ Counted(r).keyGen = r.keyGen
<1>1. 0 \in 0 .. MaxCounter /\ 0 \in Nat
  BY GrantAssumptions
<1> QED BY <1>1 DEF Counted, FlowStates

LEMMA FlowType ==
    ASSUME flow \in [Flows -> FlowStates], NEW f \in Flows, NEW r \in FlowStates,
           Becomes(f, r)
    PROVE  /\ flow' \in [Flows -> FlowStates]
           /\ flow'[f] = r /\ \A g \in Flows \ {f} : flow'[g] = flow[g]
BY DEF Becomes

(* What the fields of the state are.                                        *)
LEMMA GrantFacts ==
    ASSUME GrantTypeOK
    PROVE  /\ account.gen \in Nat /\ account.version \in Nat /\ account.password \in Nat
           /\ key.gen \in 0 .. MaxKeyGens /\ key.counter \in 0 .. MaxCounter
           /\ \A f \in Flows : /\ flow[f] \in FlowStates /\ flow[f].gen \in Nat
                               /\ flow[f].ceremony \in Ceremonies \cup {NoCeremony}
                               /\ flow[f].caller \in Callers
                               /\ flow[f].keyGen \in Nat /\ flow[f].counter \in Nat
                               /\ flow[f].next \in 0 .. MaxCounter
           /\ \A t \in tickets : t.id \in Ceremonies /\ t.gen \in Nat
           /\ \A c \in challenges : /\ c.id \in Ceremonies /\ c.gen \in Nat
                                    /\ c.caller \in Callers
           /\ \A x \in exchanges : x.id \in Ceremonies /\ x.gen \in Nat /\ x.keyGen \in Nat
           /\ NoCeremony \notin Ceremonies /\ Ceremonies \subseteq Nat
<1>1. \A f \in Flows : flow[f] \in FlowStates
  BY DEF GrantTypeOK
<1>2. /\ account.gen \in Nat /\ account.version \in Nat /\ account.password \in Nat
      /\ key.gen \in 0 .. MaxKeyGens /\ key.counter \in 0 .. MaxCounter
  BY DEF GrantTypeOK
<1>3. \A t \in tickets : t.id \in Ceremonies /\ t.gen \in Nat
  BY DEF GrantTypeOK, Tickets
<1>4. \A c \in challenges : c.id \in Ceremonies /\ c.gen \in Nat /\ c.caller \in Callers
  BY DEF GrantTypeOK, Challenges
<1>5. \A x \in exchanges : x.id \in Ceremonies /\ x.gen \in Nat /\ x.keyGen \in Nat
  BY DEF GrantTypeOK, Exchanges
<1>6. NoCeremony \notin Ceremonies /\ Ceremonies \subseteq Nat
  BY GrantAssumptions DEF Ceremonies, NoCeremony
<1>7. \A r \in FlowStates : /\ r.gen \in Nat /\ r.ceremony \in Ceremonies \cup {NoCeremony}
                            /\ r.caller \in Callers /\ r.keyGen \in Nat
                            /\ r.counter \in Nat /\ r.next \in 0 .. MaxCounter
  BY DEF FlowStates
<1> QED BY <1>1, <1>2, <1>3, <1>4, <1>5, <1>6, <1>7

LEMMA FreshIsUnused ==
    ASSUME Unused # {}
    PROVE  FreshId \in Unused
BY DEF FreshId

(* Every variable keeps its type.                                           *)
LEMMA GrantTypeStep ==
    ASSUME GrantInvariant, [GrantNext]_grantVars
    PROVE  GrantTypeOK'
<1> USE DEF accountVars, grantKeys, grantRecords, grantHistory, InFlow, Guarded
<1>z. GrantTypeOK
  BY DEF GrantInvariant
<1>0. /\ account.gen \in Nat /\ account.version \in Nat /\ account.password \in Nat
      /\ \A f \in Flows : /\ flow[f] \in FlowStates /\ flow[f].gen \in Nat
                          /\ flow[f].ceremony \in Ceremonies \cup {NoCeremony}
                          /\ flow[f].caller \in Callers
                          /\ flow[f].keyGen \in Nat /\ flow[f].counter \in Nat
                          /\ flow[f].next \in 0 .. MaxCounter
      /\ key.gen \in Nat /\ key.counter \in Nat
      /\ Idle \in FlowStates
  BY <1>z, GrantFacts, IdleType
<1>0a. /\ account \in [gen : Nat, version : Nat, password : Nat]
       /\ storeLock \in Flows \cup {Unlocked}
       /\ key \in [gen : 0 .. MaxKeyGens, counter : 0 .. MaxCounter]
       /\ keyGens \in 0 .. MaxKeyGens /\ sessions \subseteq Sessions
       /\ devices \subseteq Nat
       /\ tickets \subseteq Tickets /\ challenges \subseteq Challenges
       /\ exchanges \subseteq Exchanges /\ flow \in [Flows -> FlowStates]
       /\ began \in [Ceremonies -> Nat] /\ provenBy \in [Ceremonies -> Nat]
       /\ yields \in [Ceremonies -> Nat] /\ accepted \in [1 .. MaxCounter -> Nat]
       /\ changes \in 0 .. MaxChanges
  BY <1>z DEF GrantTypeOK
<1>a. ASSUME NEW f \in Flows, Ends(f)
      PROVE  flow' \in [Flows -> FlowStates]
  BY <1>0, <1>0a, <1>a, FlowType DEF Ends
<1>b. /\ [version |-> account.version, by |-> ByKey] \in Sessions
      /\ \A f \in Flows : [version |-> account.version, by |-> flow[f].counter] \in Sessions
  BY <1>0 DEF Sessions
<1>c. ASSUME NEW g \in Nat, NEW c \in Ceremonies, NEW caller \in Callers,
             NEW purpose \in {"register", "authenticate"}
      PROVE  Challenge(c, purpose, caller, g) \in Challenges
  BY DEF Challenge, Challenges
<1>d. Unused # {} => FreshId \in Ceremonies
  BY FreshIsUnused DEF Unused
<1>1. ASSUME NEW f \in Flows, ProvePassword(f) PROVE GrantTypeOK'
  <2>1. PICK purpose \in {"login", "approve", "ticket", "delete", "change"} :
           Becomes(f, Remembering(purpose, account.gen, account.password))
    BY <1>1 DEF ProvePassword
  <2>2. Remembering(purpose, account.gen, account.password) \in FlowStates
    BY <1>0, RememberingType
  <2>3. flow' \in [Flows -> FlowStates]
    BY <1>0a, <2>1, <2>2, FlowType
  <2> QED BY <1>0a, <1>1, <2>3 DEF ProvePassword, GrantTypeOK
<1>2. ASSUME NEW f \in Flows, PasswordSession(f) PROVE GrantTypeOK'
  <2>1. flow' \in [Flows -> FlowStates]
    BY <1>a, <1>2 DEF PasswordSession
  <2> QED BY <1>0a, <1>b, <1>2, <2>1 DEF PasswordSession, GrantTypeOK
<1>3. ASSUME NEW f \in Flows, BeginRegistration(f) PROVE GrantTypeOK'
  <2>1. flow' \in [Flows -> FlowStates]
    BY <1>a, <1>3 DEF BeginRegistration
  <2>2. challenges' \subseteq Challenges /\ began' \in [Ceremonies -> Nat]
    <3>1. Challenge(FreshId, "register", "browser", flow[f].gen) \in Challenges
      BY <1>0, <1>c, <1>d, <1>3 DEF BeginRegistration, Callers
    <3>2. flow[f].gen + 1 \in Nat
      BY <1>0
    <3> QED BY <1>0a, <1>3, <3>1, <3>2 DEF BeginRegistration
  <2> QED BY <1>0a, <1>3, <2>1, <2>2 DEF BeginRegistration, GrantTypeOK
<1>4. ASSUME NEW f \in Flows, CreateTicket(f) PROVE GrantTypeOK'
  <2>1. flow' \in [Flows -> FlowStates]
    BY <1>a, <1>4 DEF CreateTicket
  <2>2. tickets' \subseteq Tickets /\ began' \in [Ceremonies -> Nat]
    <3>1. [id |-> FreshId, gen |-> flow[f].gen] \in Tickets
      BY <1>0, <1>d, <1>4 DEF CreateTicket, Tickets
    <3>2. flow[f].gen + 1 \in Nat
      BY <1>0
    <3> QED BY <1>0a, <1>4, <3>1, <3>2 DEF CreateTicket
  <2> QED BY <1>0a, <1>4, <2>1, <2>2 DEF CreateTicket, GrantTypeOK
<1>5. ASSUME NEW f \in Flows, ConsumeTicket(f) PROVE GrantTypeOK'
  <2>1. PICK t \in tickets :
           /\ tickets' = tickets \ {t}
           /\ Becomes(f, Holding("options", t.gen, t.id, "app"))
    BY <1>5 DEF ConsumeTicket
  <2>2. Holding("options", t.gen, t.id, "app") \in FlowStates
    BY <1>z, GrantFacts, HoldingType DEF Callers
  <2>3. flow' \in [Flows -> FlowStates]
    BY <1>0a, <2>1, <2>2, FlowType
  <2> QED BY <1>0a, <1>5, <2>1, <2>3 DEF ConsumeTicket, GrantTypeOK
<1>6. ASSUME NEW f \in Flows, TicketOptions(f) PROVE GrantTypeOK'
  <2>1. flow' \in [Flows -> FlowStates]
    BY <1>a, <1>6 DEF TicketOptions
  <2>2. flow[f].ceremony \in Ceremonies
    BY <1>0, <1>6 DEF TicketOptions, GrantInvariant, HoldersOK
  <2>3. challenges' \subseteq Challenges
    BY <1>0, <1>0a, <1>c, <1>6, <2>2 DEF TicketOptions, Callers
  <2> QED BY <1>0a, <1>6, <2>1, <2>3 DEF TicketOptions, GrantTypeOK
<1>7. ASSUME NEW f \in Flows, FinishCeremony(f) PROVE GrantTypeOK'
  <2>1. PICK c \in challenges :
           /\ challenges' = challenges \ {c}
           /\ \/ flow' = flow
              \/ \E place \in {"add", "lookup"} :
                    Becomes(f, Holding(place, c.gen, c.id, c.caller))
    BY <1>7 DEF FinishCeremony, WithoutChallenge
  <2>2. \A place \in {"add", "lookup"} : Holding(place, c.gen, c.id, c.caller) \in FlowStates
    BY <1>z, GrantFacts, HoldingType
  <2>3. flow' \in [Flows -> FlowStates]
    BY <1>0a, <2>1, <2>2, FlowType
  <2> QED BY <1>0a, <1>7, <2>1, <2>3 DEF FinishCeremony, GrantTypeOK
<1>8. ASSUME NEW f \in Flows, AddKey(f) PROVE GrantTypeOK'
  <2>1. flow' \in [Flows -> FlowStates]
    BY <1>a, <1>8 DEF AddKey
  <2>2. CASE Addable(f)
    <3>1. PICK n \in 0 .. 1 : key' = [gen |-> keyGens + 1, counter |-> n]
      BY <1>8, <2>2 DEF AddKey
    <3>2. key' \in [gen : 0 .. MaxKeyGens, counter : 0 .. MaxCounter]
      <4>1. keyGens < MaxKeyGens /\ keyGens \in 0 .. MaxKeyGens
        BY <1>0a, <1>8 DEF AddKey
      <4>2. keyGens + 1 \in 0 .. MaxKeyGens /\ n \in 0 .. MaxCounter
        BY <4>1, GrantAssumptions
      <4> QED BY <3>1, <4>2
    <3>3. /\ keyGens' = keyGens + 1 /\ keyGens < MaxKeyGens
          /\ accepted' = [m \in 1 .. MaxCounter |-> IF m = key'.counter THEN 1 ELSE 0]
          /\ yields' = [yields EXCEPT ![flow[f].ceremony] = @ + 1]
      BY <1>8, <2>2 DEF AddKey
    <3>4. accepted' \in [1 .. MaxCounter -> Nat] /\ keyGens' \in 0 .. MaxKeyGens
      <4>1. accepted' \in [1 .. MaxCounter -> Nat]
        BY <3>3
      <4> QED BY <1>0a, <3>3, <4>1, GrantAssumptions
    <3>5. yields' \in [Ceremonies -> Nat]
      <4>1. flow[f].ceremony \in Ceremonies
        BY <1>0, <1>8 DEF AddKey, GrantInvariant, HoldersOK
      <4> QED BY <1>0a, <3>3, <4>1
    <3> QED BY <1>0a, <1>8, <2>1, <3>2, <3>4, <3>5 DEF AddKey, GrantTypeOK
  <2>3. CASE ~Addable(f)
    BY <1>0a, <1>8, <2>1, <2>3 DEF AddKey, GrantTypeOK
  <2> QED BY <2>2, <2>3
<1>9. ASSUME NEW f \in Flows, DeleteKey(f) PROVE GrantTypeOK'
  <2>1. flow' \in [Flows -> FlowStates]
    BY <1>a, <1>9 DEF DeleteKey
  <2>2. [gen |-> NoKey, counter |-> 0] \in [gen : 0 .. MaxKeyGens, counter : 0 .. MaxCounter]
    BY GrantAssumptions DEF NoKey
  <2> QED BY <1>0a, <1>9, <2>1, <2>2 DEF DeleteKey, GrantTypeOK
<1>10. ASSUME NEW f \in Flows, VerifyAssertion(f) PROVE GrantTypeOK'
  <2>1. \/ Ends(f)
        \/ \E n \in 0 .. MaxCounter : Becomes(f, Verified(flow[f], n))
    BY <1>10 DEF VerifyAssertion
  <2>2. \A n \in 0 .. MaxCounter : Verified(flow[f], n) \in FlowStates
    BY <1>0, VerifiedType
  <2>3. flow' \in [Flows -> FlowStates]
    BY <1>0a, <1>a, <2>1, <2>2, FlowType
  <2> QED BY <1>0a, <1>10, <2>3 DEF VerifyAssertion, GrantTypeOK
<1>11. ASSUME NEW f \in Flows, UseKey(f) PROVE GrantTypeOK'
  <2>1. CASE Usable(f)
    <3>1. /\ key' = [key EXCEPT !.counter = flow[f].next]
          /\ accepted' = [n \in 1 .. MaxCounter |->
                 IF n = flow[f].next THEN accepted[n] + 1 ELSE accepted[n]]
          /\ provenBy' = [provenBy EXCEPT ![flow[f].ceremony] = key.gen]
          /\ Becomes(f, Counted(flow[f]))
      BY <1>11, <2>1 DEF UseKey
    <3>2. key' \in [gen : 0 .. MaxKeyGens, counter : 0 .. MaxCounter]
      BY <1>0, <1>0a, <3>1
    <3>3. accepted' \in [1 .. MaxCounter -> Nat] /\ provenBy' \in [Ceremonies -> Nat]
      <4>1. accepted' \in [1 .. MaxCounter -> Nat]
        BY <1>0a, <3>1
      <4> QED BY <1>0, <1>0a, <3>1, <4>1
    <3>4. Counted(flow[f]) \in FlowStates
      BY <1>0, CountedType
    <3>5. flow' \in [Flows -> FlowStates]
      BY <1>0a, <3>1, <3>4, FlowType
    <3> QED BY <1>0a, <1>11, <3>2, <3>3, <3>5 DEF UseKey, GrantTypeOK
  <2>2. CASE ~Usable(f)
    <3>1. flow' \in [Flows -> FlowStates]
      BY <1>a, <1>11, <2>2 DEF UseKey
    <3> QED BY <1>0a, <1>11, <2>2, <3>1 DEF UseKey, GrantTypeOK
  <2> QED BY <2>1, <2>2
<1>12. ASSUME NEW f \in Flows, KeySession(f) PROVE GrantTypeOK'
  <2>1. flow' \in [Flows -> FlowStates]
    BY <1>a, <1>12 DEF KeySession
  <2>2. yields' \in [Ceremonies -> Nat]
    <3>1. flow[f].ceremony \in Ceremonies
      BY <1>0, <1>12 DEF KeySession, GrantInvariant, HoldersOK
    <3>2. \/ yields' = [yields EXCEPT ![flow[f].ceremony] = @ + 1]
          \/ yields' = yields
      BY <1>12 DEF KeySession
    <3>3. yields[flow[f].ceremony] + 1 \in Nat
      BY <1>0a, <3>1
    <3> QED BY <1>0a, <3>2, <3>3
  <2> QED BY <1>0a, <1>b, <1>12, <2>1, <2>2 DEF KeySession, GrantTypeOK
<1>13. ASSUME NEW f \in Flows, CreateExchange(f) PROVE GrantTypeOK'
  <2>1. flow' \in [Flows -> FlowStates]
    BY <1>a, <1>13 DEF CreateExchange
  <2>2. [id |-> flow[f].ceremony, gen |-> flow[f].gen, keyGen |-> flow[f].keyGen]
           \in Exchanges
    BY <1>0, <1>13 DEF CreateExchange, GrantInvariant, HoldersOK, Exchanges
  <2> QED BY <1>0a, <1>13, <2>1, <2>2 DEF CreateExchange, GrantTypeOK
<1>14. ASSUME NEW f \in Flows, ChangePassword(f) PROVE GrantTypeOK'
  <2>1. Remembering("store", 0, 0) \in FlowStates
    BY RememberingType
  <2>2. flow' \in [Flows -> FlowStates]
    BY <1>0a, <1>a, <1>14, <2>1, FlowType DEF ChangePassword
  <2>3. changes' \in 0 .. MaxChanges /\ storeLock' \in Flows \cup {Unlocked}
    BY <1>0a, <1>14, GrantAssumptions DEF ChangePassword
  <2>4. devices' \subseteq Nat
    BY <1>0a, <1>14 DEF ChangePassword
  <2> QED BY <1>0a, <1>14, <2>2, <2>3, <2>4 DEF ChangePassword, GrantTypeOK
<1>15. ASSUME NEW f \in Flows, StorePassword(f) PROVE GrantTypeOK'
  <2>1. flow' \in [Flows -> FlowStates]
    BY <1>a, <1>15 DEF StorePassword
  <2>2. account' \in [gen : Nat, version : Nat, password : Nat]
    BY <1>0, <1>0a, <1>15 DEF StorePassword
  <2> QED BY <1>0a, <1>15, <2>1, <2>2 DEF StorePassword, GrantTypeOK
<1>16. ASSUME NEW f \in Flows, BeginLogout(f) PROVE GrantTypeOK'
  <2>1. Remembering("bump", 0, 0) \in FlowStates
    BY RememberingType
  <2>2. flow' \in [Flows -> FlowStates]
    BY <1>0a, <1>16, <2>1, FlowType DEF BeginLogout
  <2>3. changes' \in 0 .. MaxChanges
    <3>1. changes \in 0 .. MaxChanges /\ changes < MaxChanges /\ changes' = changes + 1
      BY <1>0a, <1>16 DEF BeginLogout
    <3> QED BY <3>1, GrantAssumptions
  <2> QED BY <1>0a, <1>16, <2>2, <2>3 DEF BeginLogout, GrantTypeOK
<1>17. ASSUME NEW f \in Flows, BumpVersion(f) PROVE GrantTypeOK'
  <2>1. flow' \in [Flows -> FlowStates]
    BY <1>a, <1>17 DEF BumpVersion
  <2>2. account' \in [gen : Nat, version : Nat, password : Nat]
    BY <1>0, <1>0a, <1>17 DEF BumpVersion
  <2> QED BY <1>0a, <1>17, <2>1, <2>2 DEF BumpVersion, GrantTypeOK
<1>18. ASSUME NEW f \in Flows, BeginDevice(f) PROVE GrantTypeOK'
  <2>1. Remembering("device", 0, account.version) \in FlowStates
    BY <1>0, RememberingType
  <2>2. flow' \in [Flows -> FlowStates]
    BY <1>0a, <1>18, <2>1, FlowType DEF BeginDevice
  <2> QED BY <1>0a, <1>18, <2>2 DEF BeginDevice, GrantTypeOK
<1>19. ASSUME NEW f \in Flows, StoreDevice(f) PROVE GrantTypeOK'
  <2>1. flow' \in [Flows -> FlowStates]
    BY <1>a, <1>19 DEF StoreDevice
  <2> QED BY <1>0, <1>0a, <1>19, <2>1 DEF StoreDevice, GrantTypeOK
<1>20. CASE BeginAuthentication
  <2>1. challenges' \subseteq Challenges
    BY <1>0, <1>0a, <1>c, <1>d, <1>20 DEF BeginAuthentication
  <2>2. account.gen + 1 \in Nat
    BY <1>0
  <2> QED BY <1>0a, <1>20, <2>1, <2>2 DEF BeginAuthentication, GrantTypeOK
<1>21. CASE ConsumeExchange
  <2>1. yields' \in [Ceremonies -> Nat]
    <3>1. \A x \in exchanges : x.id \in Ceremonies
      BY <1>z, GrantFacts
    <3>2. PICK x \in exchanges :
             \/ yields' = [yields EXCEPT ![x.id] = @ + 1]
             \/ yields' = yields
      BY <1>21 DEF ConsumeExchange
    <3>3. yields[x.id] + 1 \in Nat
      BY <1>0a, <3>1
    <3> QED BY <1>0a, <3>2, <3>3
  <2> QED BY <1>0a, <1>b, <1>21, <2>1 DEF ConsumeExchange, GrantTypeOK
<1>22. CASE RecordExpires
  BY <1>0a, <1>22 DEF RecordExpires, GrantTypeOK
<1>23. CASE EditIdentity
  <2>1. account' \in [gen : Nat, version : Nat, password : Nat]
    <3>1. account \in [gen : Nat, version : Nat, password : Nat]
      BY <1>0a
    <3>2. [account EXCEPT !.gen = @ + 1] \in [gen : Nat, version : Nat, password : Nat]
      BY <3>1
    <3>3. account' = [account EXCEPT !.gen = @ + 1]
      BY <1>23 DEF EditIdentity
    <3> QED BY <3>2, <3>3
  <2>2. changes' \in 0 .. MaxChanges
    <3>1. changes \in 0 .. MaxChanges /\ changes < MaxChanges /\ changes' = changes + 1
      BY <1>0a, <1>23 DEF EditIdentity
    <3> QED BY <3>1, GrantAssumptions
  <2>3. UNCHANGED <<storeLock, grantKeys, sessions, devices, grantRecords, flow,
                    grantHistory>>
    BY <1>23 DEF EditIdentity
  <2> QED BY <1>0a, <2>1, <2>2, <2>3 DEF GrantTypeOK
<1>24. CASE UNCHANGED grantVars
  BY <1>0a, <1>24 DEF grantVars, GrantTypeOK
<1> QED BY <1>1, <1>2, <1>3, <1>4, <1>5, <1>6, <1>7, <1>8, <1>9, <1>10, <1>11, <1>12,
           <1>13, <1>14, <1>15, <1>16, <1>17, <1>18, <1>19, <1>20, <1>21, <1>22, <1>23,
           <1>24 DEF GrantNext, FlowStep

-----------------------------------------------------------------------------
(* Passwords.  A request is somewhere else, or where it was; the account is *)
(* the same, or has moved on.                                               *)
LEMMA PasswordFrame ==
    ASSUME GrantTypeOK, PasswordOK, UNCHANGED account,
           \A s \in sessions' : s \in sessions
                                \/ (s.version = account.version
                                    /\ s.by \in {account.password, ByKey}),
           \A g \in Flows : \/ flow'[g] = flow[g]
                            \/ flow'[g].at # "login" /\ flow'[g].gen <= account.gen
    PROVE  PasswordOK'
<1>1. account.version \in Nat /\ account.gen \in Nat
  BY GrantFacts
<1> QED BY <1>1 DEF PasswordOK

LEMMA PasswordMoves ==
    ASSUME GrantTypeOK, PasswordOK, UNCHANGED sessions,
           \A g \in Flows : flow'[g] = flow[g] \/ flow'[g] = Idle,
           account'.gen = account.gen + 1,
           \/ account'.version = account.version + 1
           \/ /\ account'.version = account.version
              /\ account'.password = account.password
    PROVE  PasswordOK'
<1>1. account.version \in Nat /\ account.gen \in Nat /\ \A f \in Flows : flow[f].gen \in Nat
  BY GrantFacts
<1>2. \A s \in sessions : s.version \in Nat
  BY DEF GrantTypeOK, Sessions
<1>3. ASSUME NEW s \in sessions
      PROVE  /\ s.version <= account'.version
             /\ s.version = account'.version => s.by \in {account'.password, ByKey}
  BY <1>1, <1>2 DEF PasswordOK
<1>4. ASSUME NEW f \in Flows
      PROVE  flow'[f].gen <= account'.gen /\ (flow'[f].at = "login" => flow'[f].gen # account'.gen)
  BY <1>1, IdleType DEF PasswordOK
<1> QED BY <1>3, <1>4 DEF PasswordOK

LEMMA PasswordStep ==
    ASSUME GrantInvariant, [GrantNext]_grantVars
    PROVE  PasswordOK'
<1> USE DEF accountVars, grantKeys, grantRecords, grantHistory, InFlow
<1>0. /\ GrantTypeOK /\ PasswordOK /\ flow \in [Flows -> FlowStates]
      /\ account.gen \in Nat /\ account.version \in Nat /\ account.password \in Nat
      /\ \A f \in Flows : flow[f] \in FlowStates /\ flow[f].gen <= account.gen
  BY GrantFacts DEF GrantInvariant, GrantTypeOK, PasswordOK
<1>a. ASSUME NEW f \in Flows, Ends(f)
      PROVE  \A g \in Flows : flow'[g] = flow[g] \/ flow'[g] = Idle
  BY <1>0, <1>a, IdleType, FlowType DEF Ends
<1>b. ASSUME UNCHANGED account, UNCHANGED sessions, NEW f \in Flows, NEW r \in FlowStates,
             Becomes(f, r), r.at # "login", r.gen <= account.gen
      PROVE  PasswordOK'
  BY <1>0, <1>b, FlowType, PasswordFrame
<1>c. ASSUME UNCHANGED account, UNCHANGED sessions, NEW f \in Flows, Ends(f)
      PROVE  PasswordOK'
  BY <1>0, <1>b, <1>c, IdleType DEF Ends
<1>d. /\ [version |-> account.version, by |-> ByKey].version = account.version
      /\ [version |-> account.version, by |-> ByKey].by = ByKey
  OBVIOUS
<1>1. ASSUME NEW f \in Flows, ProvePassword(f) PROVE PasswordOK'
  <2>1. PICK purpose \in {"login", "approve", "ticket", "delete", "change"} :
           Becomes(f, Remembering(purpose, account.gen, account.password))
    BY <1>1 DEF ProvePassword
  <2>2. /\ flow'[f].gen = account.gen /\ flow'[f].counter = account.password
        /\ \A g \in Flows \ {f} : flow'[g] = flow[g]
    BY <1>0, <2>1, FlowType, RememberingType
  <2> QED BY <1>0, <1>1, <2>2 DEF ProvePassword, PasswordOK
<1>2. ASSUME NEW f \in Flows, PasswordSession(f) PROVE PasswordOK'
  <2>1. \A g \in Flows : flow'[g] = flow[g] \/ flow'[g] = Idle
    BY <1>a, <1>2 DEF PasswordSession
  <2>2. \A s \in sessions' : s \in sessions \/ (s.version = account.version
                                                /\ s.by \in {account.password, ByKey})
    BY <1>0, <1>2 DEF PasswordSession, StillIn, PasswordOK
  <2> QED BY <1>0, <1>2, <2>1, <2>2, IdleType, PasswordFrame DEF PasswordSession
<1>3. ASSUME NEW f \in Flows,
             \/ BeginRegistration(f) \/ CreateTicket(f) \/ TicketOptions(f) \/ AddKey(f)
             \/ DeleteKey(f) \/ CreateExchange(f) \/ StoreDevice(f)
      PROVE  PasswordOK'
  <2>1. Ends(f) /\ UNCHANGED <<account, sessions>>
    BY <1>3 DEF BeginRegistration, CreateTicket, TicketOptions, AddKey, DeleteKey,
                CreateExchange, StoreDevice
  <2> QED BY <1>c, <2>1
<1>4. ASSUME NEW f \in Flows, ConsumeTicket(f) PROVE PasswordOK'
  <2>1. PICK t \in tickets : /\ account.gen = t.gen
                             /\ Becomes(f, Holding("options", t.gen, t.id, "app"))
    BY <1>4 DEF ConsumeTicket, StillIn
  <2>2. /\ Holding("options", t.gen, t.id, "app") \in FlowStates
        /\ Holding("options", t.gen, t.id, "app").at = "options"
        /\ Holding("options", t.gen, t.id, "app").gen <= account.gen
    <3>1. t.gen \in Nat /\ t.id \in Ceremonies
      BY <1>0, GrantFacts
    <3> QED BY <2>1, <3>1, HoldingType DEF Callers
  <2>3. UNCHANGED <<account, sessions>>
    BY <1>4 DEF ConsumeTicket
  <2> QED BY <1>b, <2>1, <2>2, <2>3
<1>5. ASSUME NEW f \in Flows, FinishCeremony(f) PROVE PasswordOK'
  <2>1. PICK c \in challenges :
           \/ flow' = flow
           \/ /\ account.gen = c.gen
              /\ \E place \in {"add", "lookup"} :
                    Becomes(f, Holding(place, c.gen, c.id, c.caller))
    BY <1>5 DEF FinishCeremony, WithoutChallenge, StillIn
  <2>2. \A place \in {"add", "lookup"} :
           /\ Holding(place, c.gen, c.id, c.caller) \in FlowStates
           /\ Holding(place, c.gen, c.id, c.caller).at # "login"
           /\ Holding(place, c.gen, c.id, c.caller).gen = c.gen
    BY <1>0, GrantFacts, HoldingType
  <2>3. UNCHANGED <<account, sessions>>
    BY <1>5 DEF FinishCeremony
  <2>4. \A g \in Flows : \/ flow'[g] = flow[g]
                         \/ flow'[g].at # "login" /\ flow'[g].gen <= account.gen
    BY <1>0, <2>1, <2>2, FlowType
  <2> QED BY <1>0, <2>3, <2>4, PasswordFrame
<1>6. ASSUME NEW f \in Flows, VerifyAssertion(f) PROVE PasswordOK'
  <2>1. \/ Ends(f)
        \/ \E n \in 0 .. MaxCounter : Becomes(f, Verified(flow[f], n))
    BY <1>6 DEF VerifyAssertion
  <2>2. \A n \in 0 .. MaxCounter : /\ Verified(flow[f], n) \in FlowStates
                                   /\ Verified(flow[f], n).at # "login"
                                   /\ Verified(flow[f], n).gen <= account.gen
    BY <1>0, GrantFacts, VerifiedType
  <2>3. UNCHANGED <<account, sessions>>
    BY <1>6 DEF VerifyAssertion
  <2> QED BY <1>b, <1>c, <2>1, <2>2, <2>3
<1>7. ASSUME NEW f \in Flows, UseKey(f) PROVE PasswordOK'
  <2>1. Ends(f) \/ Becomes(f, Counted(flow[f]))
    BY <1>7 DEF UseKey
  <2>2. /\ Counted(flow[f]) \in FlowStates /\ Counted(flow[f]).at # "login"
        /\ Counted(flow[f]).gen <= account.gen
    BY <1>0, CountedType
  <2>3. UNCHANGED <<account, sessions>>
    BY <1>7 DEF UseKey
  <2> QED BY <1>b, <1>c, <2>1, <2>2, <2>3
<1>8. ASSUME NEW f \in Flows, KeySession(f) PROVE PasswordOK'
  <2>1. \A g \in Flows : flow'[g] = flow[g] \/ flow'[g] = Idle
    BY <1>a, <1>8 DEF KeySession
  <2> QED BY <1>0, <1>d, <1>8, <2>1, IdleType, PasswordFrame DEF KeySession
<1>9. ASSUME NEW f \in Flows,
             ChangePassword(f) \/ BeginLogout(f) \/ BeginDevice(f)
      PROVE  PasswordOK'
  <2>1. \/ Ends(f)
        \/ \E place \in {"store", "bump", "device"}, n \in Nat :
              Becomes(f, Remembering(place, 0, n))
    BY <1>0, <1>9 DEF ChangePassword, BeginLogout, BeginDevice
  <2>2. \A place \in {"store", "bump", "device"}, n \in Nat :
           /\ Remembering(place, 0, n) \in FlowStates
           /\ Remembering(place, 0, n).at # "login"
           /\ Remembering(place, 0, n).gen <= account.gen
    BY <1>0, RememberingType
  <2>3. UNCHANGED <<account, sessions>>
    BY <1>9 DEF ChangePassword, BeginLogout, BeginDevice
  <2> QED BY <1>b, <1>c, <2>1, <2>2, <2>3
<1>10. ASSUME NEW f \in Flows, StorePassword(f) \/ BumpVersion(f) PROVE PasswordOK'
  <2>1. /\ \/ account' = account
           \/ /\ account'.gen = account.gen + 1
              /\ account'.version = account.version + 1
        /\ Ends(f) /\ UNCHANGED sessions
    BY <1>10 DEF StorePassword, BumpVersion
  <2> QED BY <1>0, <1>a, <1>c, <2>1, PasswordMoves
<1>11. CASE ConsumeExchange
  <2>1. \A s \in sessions' : s \in sessions \/ (s.version = account.version
                                                /\ s.by \in {account.password, ByKey})
    BY <1>d, <1>11 DEF ConsumeExchange
  <2> QED BY <1>0, <1>11, <2>1, PasswordFrame DEF ConsumeExchange
<1>12. CASE BeginAuthentication \/ RecordExpires \/ UNCHANGED grantVars
  <2>1. UNCHANGED <<account, sessions, flow>>
    BY <1>12 DEF BeginAuthentication, RecordExpires, grantVars
  <2> QED BY <1>0, <2>1, PasswordFrame
<1>13. CASE EditIdentity
  <2>1. /\ account'.gen = account.gen + 1 /\ account'.version = account.version
        /\ account'.password = account.password /\ UNCHANGED <<sessions, flow>>
    BY <1>13 DEF EditIdentity, GrantInvariant, GrantTypeOK
  <2> QED BY <1>0, <2>1, PasswordMoves
<1> QED BY <1>1, <1>2, <1>3, <1>4, <1>5, <1>6, <1>7, <1>8, <1>9, <1>10, <1>11, <1>12, <1>13
        DEF GrantNext, FlowStep

-----------------------------------------------------------------------------
(* Ceremonies.                                                             *)
Carrying == {"options", "add", "lookup", "used", "grant"}

Held(c) == \/ \E t \in tickets : t.id = c
           \/ \E d \in challenges : d.id = c
           \/ \E x \in exchanges : x.id = c
           \/ \E f \in Flows : flow[f].ceremony = c

(* Where nothing new is held, nothing is held twice.                        *)
LEMMA HeldFrame ==
    ASSUME GrantTypeOK, HeldOnce,
           tickets' \subseteq tickets, challenges' \subseteq challenges,
           exchanges' \subseteq exchanges,
           \A g \in Flows : \/ flow'[g].ceremony = flow[g].ceremony
                            \/ flow'[g].ceremony = NoCeremony
    PROVE  HeldOnce'
<1>1. NoCeremony \notin Ceremonies
  BY GrantFacts
<1>2. /\ \A t \in tickets : t.id \in Ceremonies
      /\ \A c \in challenges : c.id \in Ceremonies
      /\ \A x \in exchanges : x.id \in Ceremonies
  BY GrantFacts
<1> QED BY <1>1, <1>2 DEF HeldOnce

(* A holder stays as it was, and a ceremony that led to something is no     *)
(* longer held.                                                             *)
LEMMA HoldersFrame ==
    ASSUME GrantTypeOK, HoldersOK,
           tickets' \subseteq tickets, challenges' \subseteq challenges,
           exchanges' \subseteq exchanges, UNCHANGED <<began, provenBy>>,
           \A g \in Flows : \/ flow'[g] = flow[g] \/ flow'[g].at \notin Carrying
                            \/ /\ flow[g].at \in {"lookup"} /\ flow'[g].at = "used"
                               /\ flow'[g].ceremony = flow[g].ceremony
                               /\ flow'[g].gen = flow[g].gen,
           \A c \in Ceremonies : \/ yields'[c] = yields[c]
                                 \/ yields'[c] = 1 /\ began[c] # 0 /\ ~Held(c)'
    PROVE  HoldersOK'
<1>1. /\ \A t \in tickets : t.id \in Ceremonies
      /\ \A c \in challenges : c.id \in Ceremonies
      /\ \A x \in exchanges : x.id \in Ceremonies
      /\ \A f \in Flows : flow[f].ceremony \in Ceremonies \cup {NoCeremony}
  BY GrantFacts
<1>2. \A c \in Ceremonies : yields[c] \in Nat /\ yields[c] <= 1
  BY DEF GrantTypeOK, HoldersOK
<1>3. /\ \A t \in tickets' : Open(t.id, t.gen, NoKey)'
      /\ \A c \in challenges' : Open(c.id, c.gen, NoKey)'
      /\ \A x \in exchanges' : Open(x.id, x.gen, x.keyGen)'
  BY <1>1 DEF HoldersOK, Open, Held
<1>4. ASSUME NEW f \in Flows
      PROVE  /\ flow'[f].at \in {"options", "add", "lookup", "used"} =>
                   /\ flow'[f].ceremony # NoCeremony
                   /\ Open(flow[f].ceremony, flow[f].gen, NoKey)'
             /\ flow'[f].at = "grant" =>
                   /\ flow'[f].ceremony # NoCeremony
                   /\ Open(flow[f].ceremony, flow[f].gen, flow[f].keyGen)'
  BY <1>1 DEF HoldersOK, Open, Held, Carrying
<1>5. \A c \in Ceremonies : began'[c] = 0 => provenBy'[c] = NoKey /\ yields'[c] = 0
  BY DEF HoldersOK
<1>6. \A c \in Ceremonies : yields'[c] <= 1
  BY <1>2
<1> QED BY <1>3, <1>4, <1>5, <1>6 DEF HoldersOK

(* A new ceremony is nobody's.                                              *)
LEMMA FreshIsFree ==
    ASSUME GrantTypeOK, HoldersOK, Unused # {}
    PROVE  /\ FreshId \in Ceremonies /\ ~Held(FreshId)
           /\ began[FreshId] = 0 /\ yields[FreshId] = 0 /\ provenBy[FreshId] = NoKey
<1>1. FreshId \in Unused
  BY FreshIsUnused
<1>2. /\ FreshId \in Ceremonies /\ began[FreshId] = 0 /\ yields[FreshId] = 0
      /\ ~Held(FreshId)
  BY <1>1 DEF Unused, Held
<1> QED BY <1>2 DEF HoldersOK

LEMMA CeremonyStep ==
    ASSUME GrantInvariant, [GrantNext]_grantVars
    PROVE  HeldOnce' /\ HoldersOK'
<1> USE DEF accountVars, grantKeys, grantRecords, grantHistory, InFlow
<1>0. /\ GrantTypeOK /\ HeldOnce /\ HoldersOK /\ flow \in [Flows -> FlowStates]
      /\ \A f \in Flows : /\ flow[f] \in FlowStates /\ flow[f].gen \in Nat
                          /\ flow[f].ceremony \in Ceremonies \cup {NoCeremony}
      /\ NoCeremony \notin Ceremonies
      /\ began \in [Ceremonies -> Nat] /\ yields \in [Ceremonies -> Nat]
      /\ provenBy \in [Ceremonies -> Nat]
      /\ account.gen \in Nat /\ key.gen \in Nat
  <2>1. GrantTypeOK /\ HeldOnce /\ HoldersOK
    BY DEF GrantInvariant
  <2>2. /\ flow \in [Flows -> FlowStates]
        /\ began \in [Ceremonies -> Nat] /\ yields \in [Ceremonies -> Nat]
        /\ provenBy \in [Ceremonies -> Nat]
        /\ key \in [gen : 0 .. MaxKeyGens, counter : 0 .. MaxCounter]
    BY <2>1 DEF GrantTypeOK
  <2>3. key.gen \in Nat
    BY <2>2, GrantAssumptions
  <2>4. NoCeremony \notin Ceremonies
    BY GrantAssumptions DEF NoCeremony, Ceremonies
  <2> QED BY <2>1, <2>2, <2>3, <2>4, GrantFacts
<1>t. /\ \A t \in tickets : t.id \in Ceremonies /\ t.gen \in Nat
      /\ \A c \in challenges : c.id \in Ceremonies /\ c.gen \in Nat /\ c.caller \in Callers
      /\ \A x \in exchanges : x.id \in Ceremonies /\ x.gen \in Nat /\ x.keyGen \in Nat
  BY <1>0, GrantFacts
<1>a. ASSUME NEW f \in Flows, Ends(f)
      PROVE  /\ flow'[f] = Idle /\ \A g \in Flows \ {f} : flow'[g] = flow[g]
             /\ flow'[f].ceremony = NoCeremony /\ flow'[f].at \notin Carrying
             /\ flow' \in [Flows -> FlowStates]
  BY <1>0, <1>a, IdleType, FlowType DEF Ends, Carrying
<1>b. ASSUME UNCHANGED grantHistory, tickets' \subseteq tickets,
             challenges' \subseteq challenges, exchanges' \subseteq exchanges,
             \A g \in Flows : \/ flow'[g] = flow[g]
                              \/ /\ flow'[g].ceremony = NoCeremony
                                 /\ flow'[g].at \notin Carrying
      PROVE  HeldOnce' /\ HoldersOK'
  <2>1. HeldOnce'
    BY <1>0, <1>b, HeldFrame
  <2>2. HoldersOK'
    BY <1>0, <1>b, HoldersFrame
  <2> QED BY <2>1, <2>2
<1>c. ASSUME UNCHANGED <<grantHistory, grantRecords>>, NEW f \in Flows, Ends(f)
      PROVE  HeldOnce' /\ HoldersOK'
  BY <1>a, <1>b, <1>c
<1>1. ASSUME NEW f \in Flows,
             \/ ProvePassword(f) \/ ChangePassword(f) \/ BeginLogout(f) \/ BeginDevice(f)
      PROVE  HeldOnce' /\ HoldersOK'
  <2>1. \/ Ends(f)
        \/ \E place \in {"login", "approve", "ticket", "delete", "change", "store", "bump",
                         "device"}, g \in Nat, n \in Nat :
              Becomes(f, Remembering(place, g, n))
    <3>1. account.password \in Nat /\ account.version \in Nat
      BY <1>0, GrantFacts
    <3> QED BY <1>0, <1>1, <3>1 DEF ProvePassword, ChangePassword, BeginLogout, BeginDevice
  <2>2. \A place \in {"login", "approve", "ticket", "delete", "change", "store", "bump",
                      "device"}, g \in Nat, n \in Nat :
           /\ Remembering(place, g, n) \in FlowStates
           /\ Remembering(place, g, n).ceremony = NoCeremony
           /\ Remembering(place, g, n).at \notin Carrying
    BY RememberingType DEF Carrying
  <2>3. \A g \in Flows : \/ flow'[g] = flow[g]
                         \/ flow'[g].ceremony = NoCeremony /\ flow'[g].at \notin Carrying
    <3>1. CASE Ends(f)
      BY <1>a, <3>1
    <3>2. ASSUME NEW r \in FlowStates, r.ceremony = NoCeremony, r.at \notin Carrying,
                 Becomes(f, r)
          PROVE  \A g \in Flows : \/ flow'[g] = flow[g]
                                   \/ /\ flow'[g].ceremony = NoCeremony
                                      /\ flow'[g].at \notin Carrying
      <4>1. flow \in [Flows -> FlowStates]
        BY <1>0
      <4>2. flow'[f] = r /\ \A g \in Flows \ {f} : flow'[g] = flow[g]
        BY <3>2, <4>1, FlowType
      <4> QED BY <3>2, <4>2
    <3> QED BY <2>1, <2>2, <3>1, <3>2
  <2>4. UNCHANGED <<grantHistory, grantRecords>>
    BY <1>1 DEF ProvePassword, ChangePassword, BeginLogout, BeginDevice
  <2> QED BY <1>b, <2>3, <2>4
<1>2. ASSUME NEW f \in Flows,
             \/ PasswordSession(f) \/ DeleteKey(f) \/ StorePassword(f) \/ BumpVersion(f)
             \/ StoreDevice(f)
      PROVE  HeldOnce' /\ HoldersOK'
  BY <1>c, <1>2 DEF PasswordSession, DeleteKey, StorePassword, BumpVersion, StoreDevice
<1>3. ASSUME NEW f \in Flows, BeginRegistration(f) PROVE HeldOnce' /\ HoldersOK'
  <2>1. CASE ~StillIn(flow[f].gen)
    BY <1>c, <1>3, <2>1 DEF BeginRegistration
  <2>2. CASE StillIn(flow[f].gen)
    <3> DEFINE d == Challenge(FreshId, "register", "browser", flow[f].gen)
    <3>1. d.id = FreshId /\ d.gen = flow[f].gen
      BY DEF Challenge
    <3>2. /\ FreshId \in Ceremonies /\ ~Held(FreshId) /\ began[FreshId] = 0
          /\ yields[FreshId] = 0 /\ provenBy[FreshId] = NoKey
      BY <1>0, <1>3, FreshIsFree DEF BeginRegistration
    <3>3. /\ challenges' = challenges \cup {d} /\ UNCHANGED <<tickets, exchanges>>
          /\ began' = [began EXCEPT ![FreshId] = flow[f].gen + 1]
          /\ UNCHANGED <<provenBy, yields>> /\ Ends(f)
      BY <1>3, <2>2 DEF BeginRegistration
    <3> HIDE DEF d
    <3>4. /\ \A g \in Flows \ {f} : flow'[g] = flow[g]
          /\ flow'[f].ceremony = NoCeremony /\ flow'[f].at \notin Carrying
      BY <1>a, <3>3
    <3>5. HeldOnce'
      BY <1>0, <1>t, <3>1, <3>2, <3>3, <3>4 DEF HeldOnce, Held
    <3>6. HoldersOK'
      BY <1>0, <1>t, <3>1, <3>2, <3>3, <3>4 DEF HoldersOK, Held, Open, Carrying
    <3> QED BY <3>5, <3>6
  <2> QED BY <2>1, <2>2
<1>4. ASSUME NEW f \in Flows, CreateTicket(f) PROVE HeldOnce' /\ HoldersOK'
  <2>1. CASE ~(StillIn(flow[f].gen) /\ LoggedIn)
    BY <1>c, <1>4, <2>1 DEF CreateTicket
  <2>2. CASE StillIn(flow[f].gen) /\ LoggedIn
    <3> DEFINE d == [id |-> FreshId, gen |-> flow[f].gen]
    <3>1. d.id = FreshId /\ d.gen = flow[f].gen
      OBVIOUS
    <3>2. /\ FreshId \in Ceremonies /\ ~Held(FreshId) /\ began[FreshId] = 0
          /\ yields[FreshId] = 0 /\ provenBy[FreshId] = NoKey
      BY <1>0, <1>4, FreshIsFree DEF CreateTicket
    <3>3. /\ tickets' = tickets \cup {d} /\ UNCHANGED <<challenges, exchanges>>
          /\ began' = [began EXCEPT ![FreshId] = flow[f].gen + 1]
          /\ UNCHANGED <<provenBy, yields>> /\ Ends(f)
      BY <1>4, <2>2 DEF CreateTicket
    <3> HIDE DEF d
    <3>4. /\ \A g \in Flows \ {f} : flow'[g] = flow[g]
          /\ flow'[f].ceremony = NoCeremony /\ flow'[f].at \notin Carrying
      BY <1>a, <3>3
    <3>5. HeldOnce'
      BY <1>0, <1>t, <3>1, <3>2, <3>3, <3>4 DEF HeldOnce, Held
    <3>6. HoldersOK'
      BY <1>0, <1>t, <3>1, <3>2, <3>3, <3>4 DEF HoldersOK, Held, Open, Carrying
    <3> QED BY <3>5, <3>6
  <2> QED BY <2>1, <2>2
<1>5. ASSUME NEW f \in Flows, ConsumeTicket(f) PROVE HeldOnce' /\ HoldersOK'
  <2>1. PICK t \in tickets : /\ tickets' = tickets \ {t}
                             /\ Becomes(f, Holding("options", t.gen, t.id, "app"))
    BY <1>5 DEF ConsumeTicket
  <2>2. /\ flow'[f].at = "options" /\ flow'[f].gen = t.gen /\ flow'[f].ceremony = t.id
        /\ \A g \in Flows \ {f} : flow'[g] = flow[g]
    <3>1. t.gen \in Nat /\ t.id \in Ceremonies /\ "app" \in Callers
      BY <1>t DEF Callers
    <3> QED BY <1>0, <2>1, <3>1, HoldingType, FlowType
  <2>3. UNCHANGED <<challenges, exchanges, began, provenBy, yields>>
    BY <1>5 DEF ConsumeTicket
  <2>4. HeldOnce'
    BY <1>0, <1>t, <2>1, <2>2, <2>3 DEF HeldOnce
  <2>5. HoldersOK'
    BY <1>0, <1>t, <2>1, <2>2, <2>3 DEF HoldersOK, Open
  <2> QED BY <2>4, <2>5
<1>6. ASSUME NEW f \in Flows, TicketOptions(f) PROVE HeldOnce' /\ HoldersOK'
  <2>1. CASE ~StillIn(flow[f].gen)
    BY <1>c, <1>6, <2>1 DEF TicketOptions
  <2>2. CASE StillIn(flow[f].gen)
    <3> DEFINE d == Challenge(flow[f].ceremony, "register", "app", flow[f].gen)
    <3>1. d.id = flow[f].ceremony /\ d.gen = flow[f].gen
      BY DEF Challenge
    <3>2. flow[f].ceremony \in Ceremonies /\ Open(flow[f].ceremony, flow[f].gen, NoKey)
      BY <1>0, <1>6 DEF TicketOptions, HoldersOK
    <3>3. /\ challenges' = challenges \cup {d} /\ UNCHANGED <<tickets, exchanges>>
          /\ UNCHANGED <<began, provenBy, yields>> /\ Ends(f)
      BY <1>6, <2>2 DEF TicketOptions
    <3> HIDE DEF d
    <3>4. /\ \A g \in Flows \ {f} : flow'[g] = flow[g]
          /\ flow'[f].ceremony = NoCeremony /\ flow'[f].at \notin Carrying
      BY <1>a, <3>3
    <3>5. HeldOnce'
      BY <1>0, <1>t, <3>1, <3>2, <3>3, <3>4 DEF HeldOnce
    <3>6. HoldersOK'
      BY <1>0, <1>t, <3>1, <3>2, <3>3, <3>4 DEF HoldersOK, Open, Carrying
    <3> QED BY <3>5, <3>6
  <2> QED BY <2>1, <2>2
<1>7. ASSUME NEW f \in Flows, FinishCeremony(f) PROVE HeldOnce' /\ HoldersOK'
  <2>1. PICK c \in challenges :
           /\ challenges' = challenges \ {c}
           /\ \/ flow' = flow
              \/ \E place \in {"add", "lookup"} :
                    Becomes(f, Holding(place, c.gen, c.id, c.caller))
    BY <1>7 DEF FinishCeremony, WithoutChallenge
  <2>2. UNCHANGED <<tickets, exchanges, began, provenBy, yields>>
    BY <1>7 DEF FinishCeremony
  <2>3. CASE flow' = flow
    BY <1>b, <2>1, <2>2, <2>3
  <2>4. ASSUME NEW place \in {"add", "lookup"},
               Becomes(f, Holding(place, c.gen, c.id, c.caller))
        PROVE  HeldOnce' /\ HoldersOK'
    <3>1. /\ flow'[f].at = place /\ flow'[f].gen = c.gen /\ flow'[f].ceremony = c.id
          /\ \A g \in Flows \ {f} : flow'[g] = flow[g]
      BY <1>0, <1>t, <2>4, HoldingType, FlowType
    <3>2. HeldOnce'
      BY <1>0, <1>t, <2>1, <2>2, <3>1 DEF HeldOnce
    <3>3. HoldersOK'
      BY <1>0, <1>t, <2>1, <2>2, <3>1 DEF HoldersOK, Open
    <3> QED BY <3>2, <3>3
  <2> QED BY <2>1, <2>3, <2>4
<1>8. ASSUME NEW f \in Flows, AddKey(f) \/ KeySession(f) PROVE HeldOnce' /\ HoldersOK'
  <2>1. /\ UNCHANGED <<tickets, challenges, exchanges, began, provenBy>> /\ Ends(f)
        /\ UNCHANGED yields \/ yields' = [yields EXCEPT ![flow[f].ceremony] = @ + 1]
    BY <1>8 DEF AddKey, KeySession
  <2>2. PICK c \in Ceremonies : c = flow[f].ceremony
    BY <1>0, <1>8 DEF AddKey, KeySession, HoldersOK
  <2>2a. yields[c] = 0 /\ began[c] # 0
    <3>1. flow[f].at \in {"add", "grant"}
      BY <1>8 DEF AddKey, KeySession
    <3> QED BY <1>0, <2>2, <3>1 DEF HoldersOK, Open
  <2>3. /\ \A g \in Flows \ {f} : flow'[g] = flow[g]
        /\ flow'[f].ceremony = NoCeremony /\ flow'[f].at \notin Carrying
    BY <1>a, <2>1
  <2>4. HeldOnce'
    BY <1>0, <2>1, <2>3, HeldFrame
  <2>5. ~Held(c)'
    BY <1>0, <2>1, <2>2, <2>3 DEF HeldOnce, Held
  <2>6. \A d \in Ceremonies : \/ yields'[d] = yields[d]
                              \/ yields'[d] = 1 /\ began[d] # 0 /\ ~Held(d)'
    BY <1>0, <2>1, <2>2, <2>2a, <2>5
  <2>7. HoldersOK'
    BY <1>0, <2>1, <2>3, <2>6, HoldersFrame
  <2> QED BY <2>4, <2>7
<1>9. ASSUME NEW f \in Flows, VerifyAssertion(f) PROVE HeldOnce' /\ HoldersOK'
  <2>1. \/ Ends(f)
        \/ \E n \in 0 .. MaxCounter : Becomes(f, Verified(flow[f], n))
    BY <1>9 DEF VerifyAssertion
  <2>2. UNCHANGED <<grantRecords, grantHistory>> /\ flow[f].at = "lookup"
    BY <1>9 DEF VerifyAssertion
  <2>3. ASSUME NEW n \in 0 .. MaxCounter, Becomes(f, Verified(flow[f], n))
        PROVE  HeldOnce' /\ HoldersOK'
    <3>1. /\ flow'[f].at = "used" /\ flow'[f].gen = flow[f].gen
          /\ flow'[f].ceremony = flow[f].ceremony
          /\ \A g \in Flows \ {f} : flow'[g] = flow[g]
      <4>1. key.gen \in Nat /\ key.counter \in Nat
        BY <1>0, GrantFacts
      <4> QED BY <1>0, <2>3, <4>1, VerifiedType, FlowType
    <3>2. HeldOnce'
      BY <1>0, <2>2, <3>1, HeldFrame
    <3>3. HoldersOK'
      BY <1>0, <2>2, <3>1, HoldersFrame
    <3> QED BY <3>2, <3>3
  <2> QED BY <1>c, <2>1, <2>2, <2>3
<1>10. ASSUME NEW f \in Flows, UseKey(f) PROVE HeldOnce' /\ HoldersOK'
  <2>1. CASE ~Usable(f)
    BY <1>c, <1>10, <2>1 DEF UseKey
  <2>2. CASE Usable(f)
    <3>1. /\ provenBy' = [provenBy EXCEPT ![flow[f].ceremony] = key.gen]
          /\ Becomes(f, Counted(flow[f])) /\ flow[f].keyGen = key.gen
          /\ UNCHANGED <<tickets, challenges, exchanges, began, yields>>
      BY <1>10, <2>2 DEF UseKey, Usable
    <3>2. /\ flow'[f].at = "grant" /\ flow'[f].gen = flow[f].gen
          /\ flow'[f].ceremony = flow[f].ceremony /\ flow'[f].keyGen = key.gen
          /\ \A g \in Flows \ {f} : flow'[g] = flow[g]
      BY <1>0, <3>1, CountedType, FlowType
    <3>3. flow[f].ceremony \in Ceremonies /\ Open(flow[f].ceremony, flow[f].gen, NoKey)
      BY <1>0, <1>10 DEF UseKey, HoldersOK
    <3>4. HeldOnce'
      BY <1>0, <3>1, <3>2, HeldFrame
    <3>5. HoldersOK'
      <4>1. /\ \A t \in tickets : t.id # flow[f].ceremony
            /\ \A c \in challenges : c.id # flow[f].ceremony
            /\ \A x \in exchanges : x.id # flow[f].ceremony
            /\ \A g \in Flows \ {f} : flow[g].ceremony # flow[f].ceremony
        BY <1>0, <3>3 DEF HeldOnce
      <4> QED BY <1>0, <1>t, <3>1, <3>2, <3>3, <4>1 DEF HoldersOK, Open
    <3> QED BY <3>4, <3>5
  <2> QED BY <2>1, <2>2
<1>11. ASSUME NEW f \in Flows, CreateExchange(f) PROVE HeldOnce' /\ HoldersOK'
  <2>1. CASE ~KeyStillGood(f)
    BY <1>c, <1>11, <2>1 DEF CreateExchange
  <2>2. CASE KeyStillGood(f)
    <3> DEFINE d == [id |-> flow[f].ceremony, gen |-> flow[f].gen, keyGen |-> flow[f].keyGen]
    <3>1. d.id = flow[f].ceremony /\ d.gen = flow[f].gen /\ d.keyGen = flow[f].keyGen
      OBVIOUS
    <3>2. /\ flow[f].ceremony \in Ceremonies
          /\ Open(flow[f].ceremony, flow[f].gen, flow[f].keyGen)
      BY <1>0, <1>11 DEF CreateExchange, HoldersOK
    <3>3. /\ exchanges' = exchanges \cup {d} /\ UNCHANGED <<tickets, challenges>>
          /\ UNCHANGED <<began, provenBy, yields>> /\ Ends(f)
      BY <1>11, <2>2 DEF CreateExchange
    <3> HIDE DEF d
    <3>4. /\ \A g \in Flows \ {f} : flow'[g] = flow[g]
          /\ flow'[f].ceremony = NoCeremony /\ flow'[f].at \notin Carrying
      BY <1>a, <3>3
    <3>5. HeldOnce'
      BY <1>0, <1>t, <3>1, <3>2, <3>3, <3>4 DEF HeldOnce
    <3>6. HoldersOK'
      BY <1>0, <1>t, <3>1, <3>2, <3>3, <3>4 DEF HoldersOK, Open, Carrying
    <3> QED BY <3>5, <3>6
  <2> QED BY <2>1, <2>2
<1>12. CASE ConsumeExchange
  <2>1. PICK x \in exchanges :
           /\ exchanges' = exchanges \ {x}
           /\ UNCHANGED yields \/ yields' = [yields EXCEPT ![x.id] = @ + 1]
    BY <1>12 DEF ConsumeExchange
  <2>2. UNCHANGED <<tickets, challenges, flow, began, provenBy>>
    BY <1>12 DEF ConsumeExchange
  <2>3. HeldOnce'
    BY <1>0, <2>1, <2>2, HeldFrame
  <2>4. x.id \in Ceremonies /\ yields[x.id] = 0 /\ began[x.id] # 0
    BY <1>0, <1>t DEF HoldersOK, Open
  <2>5. ~Held(x.id)'
    BY <1>0, <2>1, <2>2, <2>4 DEF HeldOnce, Held
  <2>6. \A c \in Ceremonies : \/ yields'[c] = yields[c]
                              \/ yields'[c] = 1 /\ began[c] # 0 /\ ~Held(c)'
    BY <1>0, <2>1, <2>4, <2>5
  <2>7. HoldersOK'
    BY <1>0, <2>1, <2>2, <2>6, HoldersFrame
  <2> QED BY <2>3, <2>7
<1>13. CASE BeginAuthentication
  <2>1. PICK caller \in Callers :
           challenges' = challenges \cup
                            {Challenge(FreshId, "authenticate", caller, account.gen)}
    BY <1>13 DEF BeginAuthentication
  <2> DEFINE d == Challenge(FreshId, "authenticate", caller, account.gen)
  <2>2. d.id = FreshId /\ d.gen = account.gen
    BY DEF Challenge
  <2>3. /\ FreshId \in Ceremonies /\ ~Held(FreshId) /\ began[FreshId] = 0
        /\ yields[FreshId] = 0 /\ provenBy[FreshId] = NoKey
    BY <1>0, <1>13, FreshIsFree DEF BeginAuthentication
  <2>4. /\ challenges' = challenges \cup {d} /\ UNCHANGED <<tickets, exchanges, flow>>
        /\ began' = [began EXCEPT ![FreshId] = account.gen + 1]
        /\ UNCHANGED <<provenBy, yields>>
    BY <1>13, <2>1 DEF BeginAuthentication
  <2> HIDE DEF d
  <2>5. HeldOnce'
    BY <1>0, <1>t, <2>2, <2>3, <2>4 DEF HeldOnce, Held
  <2>6. HoldersOK'
    BY <1>0, <1>t, <2>2, <2>3, <2>4 DEF HoldersOK, Held, Open
  <2> QED BY <2>5, <2>6
<1>14. CASE RecordExpires \/ EditIdentity \/ UNCHANGED grantVars
  <2>1. /\ tickets' \subseteq tickets /\ challenges' \subseteq challenges
        /\ exchanges' \subseteq exchanges /\ UNCHANGED <<grantHistory, flow>>
    BY <1>14 DEF RecordExpires, EditIdentity, grantVars
  <2> QED BY <1>b, <2>1
<1> QED BY <1>1, <1>2, <1>3, <1>4, <1>5, <1>6, <1>7, <1>8, <1>9, <1>10, <1>11, <1>12, <1>13,
           <1>14 DEF GrantNext, FlowStep

-----------------------------------------------------------------------------
(* Counters.                                                               *)
LEMMA CounterStep ==
    ASSUME GrantInvariant, [GrantNext]_grantVars
    PROVE  CountersOK'
<1> USE DEF accountVars, grantKeys, grantRecords, grantHistory, InFlow
<1>0. /\ GrantTypeOK /\ CountersOK /\ flow \in [Flows -> FlowStates]
      /\ \A f \in Flows : /\ flow[f] \in FlowStates
                          /\ flow[f].counter \in Nat /\ flow[f].next \in Nat
      /\ key.gen \in Nat /\ key.counter \in Nat
      /\ accepted \in [1 .. MaxCounter -> Nat] /\ MaxCounter \in Nat
      /\ key \in [gen : 0 .. MaxKeyGens, counter : 0 .. MaxCounter]
  <2>1. GrantTypeOK /\ CountersOK
    BY DEF GrantInvariant
  <2>2. /\ flow \in [Flows -> FlowStates] /\ accepted \in [1 .. MaxCounter -> Nat]
        /\ key \in [gen : 0 .. MaxKeyGens, counter : 0 .. MaxCounter]
    BY <2>1 DEF GrantTypeOK
  <2>3. MaxCounter \in Nat /\ MaxKeyGens \in Nat
    BY GrantAssumptions
  <2>4. /\ \A f \in Flows : /\ flow[f] \in FlowStates /\ flow[f].counter \in Nat
                           /\ flow[f].next \in 0 .. MaxCounter
        /\ key.gen \in 0 .. MaxKeyGens /\ key.counter \in 0 .. MaxCounter
    BY <2>1, GrantFacts
  <2> QED BY <2>1, <2>2, <2>3, <2>4
<1>a. ASSUME NEW f \in Flows, Ends(f)
      PROVE  \A g \in Flows : flow'[g] = flow[g] \/ flow'[g].at # "used"
  BY <1>0, <1>a, IdleType, FlowType DEF Ends
<1>b. ASSUME UNCHANGED <<key, accepted>>,
             \A g \in Flows : flow'[g] = flow[g] \/ flow'[g].at # "used"
      PROVE  CountersOK'
  BY <1>0, <1>b DEF CountersOK
<1>1. ASSUME NEW f \in Flows,
             \/ PasswordSession(f) \/ BeginRegistration(f) \/ CreateTicket(f)
             \/ TicketOptions(f) \/ KeySession(f) \/ CreateExchange(f) \/ StorePassword(f)
             \/ BumpVersion(f) \/ StoreDevice(f)
      PROVE  CountersOK'
  <2>1. UNCHANGED <<key, accepted>> /\ Ends(f)
    BY <1>1 DEF PasswordSession, BeginRegistration, CreateTicket, TicketOptions, KeySession,
                CreateExchange, StorePassword, BumpVersion, StoreDevice
  <2> QED BY <1>a, <1>b, <2>1
<1>2. ASSUME NEW f \in Flows,
             \/ ProvePassword(f) \/ ChangePassword(f) \/ BeginLogout(f) \/ BeginDevice(f)
      PROVE  CountersOK'
  <2>1. \/ Ends(f)
        \/ \E place \in {"login", "approve", "ticket", "delete", "change", "store", "bump",
                         "device"}, g \in Nat, n \in Nat :
              Becomes(f, Remembering(place, g, n))
    <3>1. account.gen \in Nat /\ account.password \in Nat /\ account.version \in Nat
      BY <1>0, GrantFacts
    <3> QED BY <1>2, <3>1 DEF ProvePassword, ChangePassword, BeginLogout, BeginDevice
  <2>2. \A place \in {"login", "approve", "ticket", "delete", "change", "store", "bump",
                      "device"}, g \in Nat, n \in Nat :
           /\ Remembering(place, g, n) \in FlowStates
           /\ Remembering(place, g, n).at # "used"
    BY RememberingType
  <2>3. \A g \in Flows : flow'[g] = flow[g] \/ flow'[g].at # "used"
    <3>1. CASE Ends(f)
      BY <1>a, <3>1
    <3>2. ASSUME NEW r \in FlowStates, r.at # "used", Becomes(f, r)
          PROVE  \A g \in Flows : flow'[g] = flow[g] \/ flow'[g].at # "used"
      BY <1>0, <3>2, FlowType
    <3> QED BY <2>1, <2>2, <3>1, <3>2
  <2>4. UNCHANGED <<key, accepted>>
    BY <1>2 DEF ProvePassword, ChangePassword, BeginLogout, BeginDevice
  <2> QED BY <1>b, <2>3, <2>4
<1>3. ASSUME NEW f \in Flows, ConsumeTicket(f) \/ FinishCeremony(f) PROVE CountersOK'
  <2>1. \/ UNCHANGED flow
        \/ \E place \in {"options", "add", "lookup"}, g \in Nat, c \in Ceremonies,
              caller \in Callers : Becomes(f, Holding(place, g, c, caller))
    <3>1. \A t \in tickets : t.id \in Ceremonies /\ t.gen \in Nat
      BY <1>0, GrantFacts
    <3>2. \A c \in challenges : c.id \in Ceremonies /\ c.gen \in Nat /\ c.caller \in Callers
      BY <1>0, GrantFacts
    <3>3. CASE ConsumeTicket(f)
      BY <3>1, <3>3 DEF ConsumeTicket, Callers
    <3>4. CASE FinishCeremony(f)
      BY <3>2, <3>4 DEF FinishCeremony
    <3> QED BY <1>3, <3>3, <3>4
  <2>2. \A place \in {"options", "add", "lookup"}, g \in Nat, c \in Ceremonies,
              caller \in Callers :
           /\ Holding(place, g, c, caller) \in FlowStates
           /\ Holding(place, g, c, caller).at # "used"
    BY HoldingType
  <2>3. \A g \in Flows : flow'[g] = flow[g] \/ flow'[g].at # "used"
    BY <1>0, <2>1, <2>2, FlowType
  <2>4. UNCHANGED <<key, accepted>>
    BY <1>3 DEF ConsumeTicket, FinishCeremony
  <2> QED BY <1>b, <2>3, <2>4
<1>4. ASSUME NEW f \in Flows, AddKey(f) PROVE CountersOK'
  <2>1. CASE ~Addable(f)
    BY <1>a, <1>b, <1>4, <2>1 DEF AddKey
  <2>2. CASE Addable(f)
    <3>1. /\ accepted' = [n \in 1 .. MaxCounter |-> IF n = key'.counter THEN 1 ELSE 0]
          /\ \E n \in 0 .. 1 : key' = [gen |-> keyGens + 1, counter |-> n]
          /\ Ends(f)
      BY <1>4, <2>2 DEF AddKey
    <3>2. key'.counter \in Nat
      BY <3>1
    <3>3. /\ \A n \in 1 .. MaxCounter : accepted'[n] <= 1
          /\ \A n \in 1 .. MaxCounter : accepted'[n] > 0 => n <= key'.counter
      BY <1>0, <3>1, <3>2
    <3>4. \A g \in Flows : flow'[g] = flow[g] \/ flow'[g].at # "used"
      BY <1>a, <3>1
    <3> QED BY <1>0, <3>3, <3>4 DEF CountersOK
  <2> QED BY <2>1, <2>2
<1>5. ASSUME NEW f \in Flows, DeleteKey(f) PROVE CountersOK'
  <2>1. /\ key' = key \/ key'.gen = NoKey
        /\ UNCHANGED accepted
    BY <1>5 DEF DeleteKey
  <2>2. \A g \in Flows : flow'[g] = flow[g] \/ flow'[g].at # "used"
    BY <1>a, <1>5 DEF DeleteKey
  <2> QED BY <1>0, <2>1, <2>2 DEF CountersOK
<1>6. ASSUME NEW f \in Flows, VerifyAssertion(f) PROVE CountersOK'
  <2>1. \/ Ends(f)
        \/ /\ key.gen # NoKey
           /\ \E n \in 0 .. MaxCounter : /\ ~(key.counter > 0 /\ n <= key.counter)
                                         /\ Becomes(f, Verified(flow[f], n))
    BY <1>6 DEF VerifyAssertion
  <2>2. UNCHANGED <<key, accepted>>
    BY <1>6 DEF VerifyAssertion
  <2>3. ASSUME key.gen # NoKey, NEW n \in 0 .. MaxCounter,
               ~(key.counter > 0 /\ n <= key.counter), Becomes(f, Verified(flow[f], n))
        PROVE  CountersOK'
    <3>1. /\ flow'[f].keyGen = key.gen /\ flow'[f].counter = key.counter
          /\ flow'[f].next = n /\ \A g \in Flows \ {f} : flow'[g] = flow[g]
      <4>1. /\ Verified(flow[f], n) \in FlowStates
            /\ Verified(flow[f], n).keyGen = key.gen
            /\ Verified(flow[f], n).counter = key.counter /\ Verified(flow[f], n).next = n
        BY <1>0, VerifiedType
      <4> QED BY <1>0, <2>3, <4>1, FlowType
    <3>2. flow'[f].counter = 0 \/ flow'[f].counter < flow'[f].next
      BY <1>0, <2>3, <3>1
    <3> QED BY <1>0, <2>2, <2>3, <3>1, <3>2 DEF CountersOK
  <2> QED BY <1>a, <1>b, <2>1, <2>2, <2>3
<1>7. ASSUME NEW f \in Flows, UseKey(f) PROVE CountersOK'
  <2>1. CASE ~Usable(f)
    BY <1>a, <1>b, <1>7, <2>1 DEF UseKey
  <2>2. CASE Usable(f)
    <3>1. /\ key' = [key EXCEPT !.counter = flow[f].next]
          /\ accepted' = [n \in 1 .. MaxCounter |->
                 IF n = flow[f].next THEN accepted[n] + 1 ELSE accepted[n]]
          /\ Becomes(f, Counted(flow[f])) /\ flow[f].at = "used"
          /\ key.gen = flow[f].keyGen /\ key.counter = flow[f].counter
      BY <1>7, <2>2 DEF UseKey, Usable
    <3>2. key'.counter = flow[f].next /\ key'.gen = key.gen
      BY <1>0, <3>1
    <3>3. /\ key.gen # NoKey
          /\ key.counter = 0 \/ key.counter < flow[f].next
      BY <1>0, <3>1 DEF CountersOK
    <3>4. \A n \in 1 .. MaxCounter : accepted[n] > 0 => n <= key.counter /\ n < flow[f].next
      BY <1>0, <3>3 DEF CountersOK
    <3>5. \A n \in 1 .. MaxCounter :
             accepted'[n] <= 1 /\ (accepted'[n] > 0 => n <= flow[f].next)
      <4> TAKE n \in 1 .. MaxCounter
      <4>1. accepted[n] \in Nat /\ accepted[n] <= 1
        BY <1>0 DEF CountersOK
      <4>2. accepted'[n] = IF n = flow[f].next THEN accepted[n] + 1 ELSE accepted[n]
        BY <3>1
      <4> QED BY <1>0, <3>4, <4>1, <4>2
    <3>6. \A g \in Flows : flow'[g] = flow[g] \/ flow'[g].at # "used"
      BY <1>0, <3>1, CountedType, FlowType
    <3> QED BY <1>0, <3>2, <3>5, <3>6 DEF CountersOK
  <2> QED BY <2>1, <2>2
<1>8. CASE BeginAuthentication \/ ConsumeExchange \/ RecordExpires \/ EditIdentity
           \/ UNCHANGED grantVars
  <2>1. UNCHANGED <<key, accepted, flow>>
    BY <1>8 DEF BeginAuthentication, ConsumeExchange, RecordExpires, EditIdentity, grantVars
  <2> QED BY <1>b, <2>1
<1> QED BY <1>1, <1>2, <1>3, <1>4, <1>5, <1>6, <1>7, <1>8 DEF GrantNext, FlowStep

-----------------------------------------------------------------------------
LEMMA GrantInitOK == GrantInit => GrantInvariant
<1> SUFFICES ASSUME GrantInit PROVE GrantInvariant
  OBVIOUS
<1>1. GrantTypeOK
  <2>1. flow \in [Flows -> FlowStates]
    BY IdleType DEF GrantInit
  <2>2. account \in [gen : Nat, version : Nat, password : Nat]
    BY DEF GrantInit
  <2>3. /\ key \in [gen : 0 .. MaxKeyGens, counter : 0 .. MaxCounter]
        /\ keyGens \in 0 .. MaxKeyGens
    BY GrantAssumptions DEF GrantInit, NoKey
  <2> QED BY <2>1, <2>2, <2>3, GrantAssumptions DEF GrantInit, GrantTypeOK, NoKey
<1>2. \A f \in Flows : flow[f] = Idle
  <2>1. flow = [f \in Flows |-> Idle]
    BY DEF GrantInit
  <2> QED BY <2>1, Zenon
<1>3. PasswordOK
  BY <1>2, IdleType DEF GrantInit, PasswordOK
<1>4. HeldOnce
  BY <1>2, IdleType DEF GrantInit, HeldOnce
<1>5. HoldersOK
  BY <1>2, IdleType DEF GrantInit, HoldersOK
<1>6. CountersOK
  BY <1>2, IdleType DEF GrantInit, CountersOK
<1> QED BY <1>1, <1>3, <1>4, <1>5, <1>6 DEF GrantInvariant

LEMMA GrantStep == GrantInvariant /\ [GrantNext]_grantVars => GrantInvariant'
BY GrantTypeStep, PasswordStep, CeremonyStep, CounterStep DEF GrantInvariant

LEMMA GrantInvariantHolds == GrantSpec => []GrantInvariant
BY GrantInitOK, GrantStep, PTL DEF GrantSpec

(* Where a ceremony leads to something, the account is the one it began in, *)
(* and the key that proved it is the one registered now.                    *)
LEMMA YieldStep ==
    ASSUME GrantInvariant, [GrantNext]_grantVars
    PROVE  [\A c \in Ceremonies : yields'[c] # yields[c] =>
              /\ began[c] = account.gen + 1
              /\ provenBy[c] \in {NoKey, key.gen}]_grantVars
<1> USE DEF accountVars, grantKeys, grantRecords, grantHistory, InFlow
<1> DEFINE Live(c) == began[c] = account.gen + 1 /\ provenBy[c] \in {NoKey, key.gen}
<1> SUFFICES ASSUME NEW c \in Ceremonies, yields'[c] # yields[c]
             PROVE  Live(c)
  OBVIOUS
<1>0. HoldersOK /\ GrantTypeOK /\ yields \in [Ceremonies -> Nat]
  BY DEF GrantInvariant, GrantTypeOK
<1>1. ASSUME NEW f \in Flows, AddKey(f) PROVE Live(c)
  <2>1. /\ flow[f].at = "add" /\ flow[f].gen = account.gen /\ c = flow[f].ceremony
    BY <1>0, <1>1 DEF AddKey, Addable, StillIn
  <2> QED BY <1>0, <2>1 DEF HoldersOK, Open
<1>2. ASSUME NEW f \in Flows, KeySession(f) PROVE Live(c)
  <2>1. /\ flow[f].at = "grant" /\ flow[f].gen = account.gen /\ flow[f].keyGen = key.gen
        /\ c = flow[f].ceremony
    BY <1>0, <1>2 DEF KeySession, KeyStillGood, StillIn
  <2> QED BY <1>0, <2>1 DEF HoldersOK, Open
<1>3. CASE ConsumeExchange
  <2>1. PICK x \in exchanges : x.gen = account.gen /\ key.gen = x.keyGen /\ c = x.id
    BY <1>0, <1>3 DEF ConsumeExchange, StillIn
  <2> QED BY <1>0, <2>1 DEF HoldersOK, Open
<1>4. ASSUME NEW f \in Flows, FlowStep(f), ~AddKey(f), ~KeySession(f) PROVE FALSE
  <2>1. UNCHANGED yields
    BY <1>4 DEF FlowStep, ProvePassword, PasswordSession, BeginRegistration, CreateTicket,
         ConsumeTicket, TicketOptions, FinishCeremony, DeleteKey, VerifyAssertion, UseKey,
         CreateExchange, ChangePassword, StorePassword, BeginLogout, BumpVersion,
         BeginDevice, StoreDevice
  <2> QED BY <2>1
<1>5. CASE BeginAuthentication \/ RecordExpires \/ EditIdentity \/ UNCHANGED grantVars
  BY <1>5 DEF BeginAuthentication, RecordExpires, EditIdentity, grantVars
<1> QED BY <1>1, <1>2, <1>3, <1>4, <1>5 DEF GrantNext

-----------------------------------------------------------------------------
(* What the variables of the account and of its grants are.                 *)
THEOREM GrantTypesHold == GrantSpec => []GrantTypeOK
BY GrantInvariantHolds, PTL DEF GrantInvariant

(* However requests and changes of the account interleave, a session that   *)
(* counts rests on the present password or on a key: a login that had       *)
(* compared its password before a change finds the generation changed.      *)
THEOREM OldPasswordsAreOut == GrantSpec => []NoOldPassword
<1>1. GrantInvariant => NoOldPassword
  BY DEF GrantInvariant, PasswordOK, NoOldPassword
<1> QED BY <1>1, GrantInvariantHolds, PTL

(* A one-time record leads to one grant at most and a counter to one login: *)
(* one record or request at a time holds a ceremony, and webauthn_          *)
(* credential_used compares the counter it had read.                        *)
THEOREM RecordsAreUsedOnce == GrantSpec => []UsedOnce
<1>1. GrantInvariant => UsedOnce
  BY DEF GrantInvariant, HoldersOK, CountersOK, UsedOnce
<1> QED BY <1>1, GrantInvariantHolds, PTL

(* No grant outlives what it rests on: the guarded section that gives it    *)
(* compares the account and the key with those the ceremony carries along.  *)
THEOREM GrantsRestOnTheLiving == GrantSpec => YieldsAreLive
<1>1. GrantInvariant /\ [GrantNext]_grantVars =>
         [\A c \in Ceremonies : yields'[c] # yields[c] =>
             /\ began[c] = account.gen + 1
             /\ provenBy[c] \in {NoKey, key.gen}]_grantVars
  BY YieldStep
<1> QED BY <1>1, GrantInvariantHolds, PTL DEF GrantSpec, YieldsAreLive
=============================================================================
