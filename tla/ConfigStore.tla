----------------------------- MODULE ConfigStore -----------------------------
(***************************************************************************)
(* The configuration file, the copy each process keeps of it, and the      *)
(* requests that read, edit, restore and rotate it: threads of a process   *)
(* share its copy under an RLock, processes share the file under a file    *)
(* lock with a bounded wait, and readers look at the file without any lock *)
(* and take a new copy when its modification time has changed.             *)
(*                                                                         *)
(* A content is what an operator edits and the session version, which the  *)
(* server owns; the revision of a content is its hash, that is, the        *)
(* content itself.  Every write has a modification time of its own.        *)
(***************************************************************************)
EXTENDS Naturals, FiniteSets

CONSTANTS
    Clients,     \* requests and commands
    Processes,
    ProcessOf,   \* the process a client runs in
    Outsider,    \* somebody who holds the file lock and never lets go
    MaxWrites, MaxEdits  \* bounds

NoOne == "nobody"

ASSUME StoreAssumptions ==
    /\ ProcessOf \in [Clients -> Processes] /\ {Outsider, NoOne} \cap Clients = {}
    /\ {MaxWrites, MaxEdits} \subseteq Nat /\ MaxEdits <= MaxWrites

Contents == [edit : {0, 1}, version : 0 .. MaxWrites]
Start == [edit |-> 0, version |-> 0]

VARIABLES
    file,        \* config.yaml: its content and modification time
    snapshotFile,\* a saved snapshot that may be restored
    copyOf,      \* _data, _revision, _mtime_ns of a process
    opened,      \* the file a reader has opened
    rlock,       \* who holds _lock of a process
    fileLock,    \* who holds the file lock
    at,          \* where a client is
    doing,       \* edit, restore, rotate
    shown,       \* the content, hence revision, the client's page was made from
    draft,       \* what the client wants to have
    base,        \* old_data: the server's copy when the request came in
    edits

storeFiles == <<file, snapshotFile>>
storeLocks == <<rlock, fileLock>>
storeClient == <<at, doing, shown, draft, base>>
storeVars == <<storeFiles, copyOf, opened, storeLocks, storeClient, edits>>

StoreInit ==
    /\ file = [content |-> Start, mtime |-> 1]
    /\ snapshotFile = Start
    /\ copyOf = [p \in Processes |-> [content |-> Start, mtime |-> 1]]
    /\ opened = [c \in Clients |-> [content |-> Start, mtime |-> 1]]
    /\ rlock = [p \in Processes |-> NoOne] /\ fileLock = NoOne
    /\ at = [c \in Clients |-> "idle"] /\ doing = [c \in Clients |-> "edit"]
    /\ shown = [c \in Clients |-> Start] /\ base = [c \in Clients |-> Start]
    /\ draft = [c \in Clients |-> 0]
    /\ edits = 0

-----------------------------------------------------------------------------
Mine(c) == copyOf[ProcessOf[c]]
Holds(c) == rlock[ProcessOf[c]] = c
Step(c, s) == at' = [at EXCEPT ![c] = s]
Unlock(c) == rlock' = [rlock EXCEPT ![ProcessOf[c]] = NoOne]
Release(c) == Unlock(c) /\ fileLock' = IF fileLock = c THEN NoOne ELSE fileLock
Copy(c, f) == copyOf' = [copyOf EXCEPT ![ProcessOf[c]] = f]

(* The answer of a read: GET makes the page, PUT takes old_data.            *)
Answer(c, content) ==
    IF at[c] \in {"get", "getOpen"}
    THEN /\ shown' = [shown EXCEPT ![c] = content] /\ Step(c, "page")
         /\ UNCHANGED base
    ELSE /\ base' = [base EXCEPT ![c] = content] /\ Step(c, "lock")
         /\ UNCHANGED shown

(* A page is loaded: GET /api/config, or the plan or the snapshot list.     *)
BeginGet(c) ==
    /\ at[c] = "idle" /\ Step(c, "get")
    /\ UNCHANGED <<storeFiles, copyOf, opened, storeLocks, doing, shown, draft, base, edits>>

(* The request that saves: PUT /api/config, or a restore of a snapshot.     *)
BeginSave(c) ==
    /\ at[c] = "page" /\ edits < MaxEdits /\ edits' = edits + 1
    /\ \/ doing' = [doing EXCEPT ![c] = "edit"]
          /\ \E e \in {0, 1} : draft' = [draft EXCEPT ![c] = e]
       \/ doing' = [doing EXCEPT ![c] = "restore"]
          /\ draft' = [draft EXCEPT ![c] = snapshotFile.edit]
    /\ Step(c, "put")
    /\ UNCHANGED <<storeFiles, copyOf, opened, storeLocks, shown, base>>

(* change-password, logout, set-password and gen-secret read nothing first. *)
BeginRotate(c) ==
    /\ at[c] = "idle" /\ edits < MaxEdits /\ edits' = edits + 1
    /\ doing' = [doing EXCEPT ![c] = "rotate"] /\ Step(c, "lock")
    /\ UNCHANGED <<storeFiles, copyOf, opened, storeLocks, shown, draft, base>>

(* snapshot_with_revision: the copy is current if its time is the file's.   *)
ReadCopy(c) ==
    /\ at[c] \in {"get", "put"} /\ rlock[ProcessOf[c]] = NoOne
    /\ Mine(c).mtime = file.mtime
    /\ Answer(c, Mine(c).content)
    /\ UNCHANGED <<storeFiles, copyOf, opened, storeLocks, doing, draft, edits>>

(* Otherwise _load_unlocked opens it,                                       *)
OpenFile(c) ==
    /\ at[c] \in {"get", "put"} /\ rlock[ProcessOf[c]] = NoOne
    /\ Mine(c).mtime # file.mtime
    /\ rlock' = [rlock EXCEPT ![ProcessOf[c]] = c]
    /\ opened' = [opened EXCEPT ![c] = file]
    /\ Step(c, IF at[c] = "get" THEN "getOpen" ELSE "putOpen")
    /\ UNCHANGED <<storeFiles, copyOf, fileLock, doing, shown, draft, base, edits>>

(* Mutant: the modification time is asked for after the content was read. *)
LoadFileStat(c) ==
    /\ at[c] \in {"getOpen", "putOpen"} /\ Holds(c)
    /\ Copy(c, [opened[c] EXCEPT !.mtime = file.mtime]) /\ Unlock(c)
    /\ Answer(c, opened[c].content)
    /\ UNCHANGED <<storeFiles, opened, fileLock, doing, draft, edits>>

(* and keeps content and time of the one handle, whatever replaced it since. *)
LoadFile(c) ==
    /\ at[c] \in {"getOpen", "putOpen"} /\ Holds(c)
    /\ Copy(c, opened[c]) /\ Unlock(c)
    /\ Answer(c, opened[c].content)
    /\ UNCHANGED <<storeFiles, opened, fileLock, doing, draft, edits>>

(* replace and update: the RLock of the process first,                      *)
TakeRLock(c) ==
    /\ at[c] = "lock" /\ rlock[ProcessOf[c]] = NoOne
    /\ rlock' = [rlock EXCEPT ![ProcessOf[c]] = c]
    /\ Step(c, "wait")
    /\ UNCHANGED <<storeFiles, copyOf, opened, fileLock, doing, shown, draft, base, edits>>

Conflict(c) == doing[c] # "rotate" /\ shown[c] # file.content

(* then the file lock; the file is loaded and the revision compared.        *)
TakeFileLock(c) ==
    /\ at[c] = "wait" /\ Holds(c) /\ fileLock = NoOne
    /\ Copy(c, file)
    /\ IF Conflict(c)
       THEN Step(c, "idle") /\ Release(c)
       ELSE Step(c, "write") /\ fileLock' = c /\ UNCHANGED rlock
    /\ UNCHANGED <<storeFiles, opened, doing, shown, draft, base, edits>>

(* ConfigLockTimeoutError after the bounded wait.                           *)
LockTimeout(c) ==
    /\ at[c] = "wait" /\ Holds(c) /\ fileLock # NoOne
    /\ Step(c, "idle") /\ Unlock(c)
    /\ UNCHANGED <<storeFiles, copyOf, opened, fileLock, doing, shown, draft, base, edits>>

(* Mutant: a restored snapshot brings its own session version. *)
NewContentOwn(c) == CASE doing[c] = "edit" -> [edit |-> draft[c], version |-> base[c].version]
                  [] doing[c] = "restore" -> snapshotFile
                  [] doing[c] = "rotate" -> [file.content EXCEPT !.version = @ + 1]

(* What is written.  An edit keeps the version of old_data, which            *)
(* _preserve_sensitive takes from there; a restore counts on from it; a     *)
(* rotation counts on from the file.                                        *)
NewContent(c) ==
    CASE doing[c] = "edit"    -> [edit |-> draft[c], version |-> base[c].version]
      [] doing[c] = "restore" -> [edit |-> draft[c], version |-> base[c].version + 1]
      [] doing[c] = "rotate"  -> [file.content EXCEPT !.version = @ + 1]

(* os.replace of a complete new file.                                       *)
WriteFile(c) ==
    /\ at[c] = "write" /\ fileLock = c /\ file.mtime <= MaxWrites
    /\ file' = [content |-> NewContent(c), mtime |-> file.mtime + 1]
    /\ Step(c, "written")
    /\ UNCHANGED <<snapshotFile, copyOf, opened, storeLocks, doing, shown, draft, base, edits>>

(* The write fails before the file was replaced: the copy is loaded again.  *)
WriteFails(c) ==
    /\ at[c] = "write" /\ fileLock = c
    /\ Copy(c, file) /\ Step(c, "idle") /\ Release(c)
    /\ UNCHANGED <<storeFiles, opened, doing, shown, draft, base, edits>>

(* Time and revision of the new file become those of the copy.              *)
Remember(c) ==
    /\ at[c] = "written" /\ fileLock = c
    /\ Copy(c, file) /\ Step(c, "idle") /\ Release(c)
    /\ UNCHANGED <<storeFiles, opened, doing, shown, draft, base, edits>>

(* A snapshot of what the process knows is saved for later.                 *)
SaveSnapshot(c) ==
    /\ at[c] = "page" /\ snapshotFile' = shown[c] /\ snapshotFile # shown[c]
    /\ Step(c, "idle")
    /\ UNCHANGED <<file, copyOf, opened, storeLocks, doing, shown, draft, base, edits>>

(* The page is left.                                                        *)
LeavePage(c) ==
    /\ at[c] = "page" /\ Step(c, "idle")
    /\ UNCHANGED <<storeFiles, copyOf, opened, storeLocks, doing, shown, draft, base, edits>>

OutsiderLocks ==
    /\ fileLock = NoOne /\ fileLock' = Outsider
    /\ UNCHANGED <<storeFiles, copyOf, opened, rlock, storeClient, edits>>

(* A process ends; the operating system frees its file lock, and the next   *)
(* one reads the file.                                                      *)
ProcessEnds(p) ==
    /\ \E c \in Clients : ProcessOf[c] = p /\ at[c] \in {"write", "written"}
    /\ at' = [c \in Clients |-> IF ProcessOf[c] = p THEN "idle" ELSE at[c]]
    /\ rlock' = [rlock EXCEPT ![p] = NoOne]
    /\ fileLock' = IF fileLock \in Clients /\ ProcessOf[fileLock] = p THEN NoOne ELSE fileLock
    /\ copyOf' = [copyOf EXCEPT ![p] = file]
    /\ UNCHANGED <<storeFiles, opened, doing, shown, draft, base, edits>>

Serve(c) ==
    \/ ReadCopy(c) \/ OpenFile(c) \/ LoadFile(c) \/ TakeRLock(c) \/ TakeFileLock(c)
    \/ LockTimeout(c) \/ WriteFile(c) \/ WriteFails(c) \/ Remember(c)

StoreNext ==
    \/ \E c \in Clients : Serve(c) \/ BeginGet(c) \/ BeginSave(c) \/ BeginRotate(c)
                          \/ SaveSnapshot(c) \/ LeavePage(c)
    \/ OutsiderLocks
    \/ \E p \in Processes : ProcessEnds(p)

StoreSpec == StoreInit /\ [][StoreNext]_storeVars

-----------------------------------------------------------------------------
StoredFile == [content : Contents, mtime : 1 .. MaxWrites + 1]

StoreTypeOK ==
    /\ file \in StoredFile /\ snapshotFile \in Contents
    /\ copyOf \in [Processes -> StoredFile] /\ opened \in [Clients -> StoredFile]
    /\ rlock \in [Processes -> Clients \cup {NoOne}]
    /\ fileLock \in Clients \cup {NoOne, Outsider}
    /\ at \in [Clients -> {"idle", "get", "getOpen", "page", "put", "putOpen", "lock",
                           "wait", "write", "written"}]
    /\ doing \in [Clients -> {"edit", "restore", "rotate"}] /\ draft \in [Clients -> {0, 1}]
    /\ shown \in [Clients -> Contents] /\ base \in [Clients -> Contents]

(* To requests and commands the file with its copies is one register: a     *)
(* read answers what is in the file although it looks only at the copy of   *)
(* its process, and an edit or a restore replaces the revision its page was *)
(* made from and no other (snapshot_with_revision, replace, update).        *)
OneRegister ==
    [][\A c \in Clients :
          /\ at[c] = "get" /\ at'[c] = "page" => shown'[c] = file.content
          /\ at[c] = "write" /\ at'[c] = "written" /\ doing[c] # "rotate" =>
                file.content = shown[c]]_storeVars

(* Sessions that were ended stay ended: no edit of an older page, no        *)
(* restored snapshot and no kill brings an earlier session version back,    *)
(* although an edit writes the version it read before it had the lock       *)
(* (_preserve_sensitive, restore_config_snapshot, bump_session_version).    *)
VersionGrows == [][file'.content.version >= file.content.version]_storeVars
=============================================================================
