---------------------------- MODULE ConfigStore ----------------------------
(***************************************************************************)
(* StoreSource of pkg/config/source/store.go.                              *)
(*                                                                         *)
(* A change of the store is applied in memory, written to a temporary      *)
(* file, synced and renamed, and undone in memory if any of that fails.    *)
(* The process may die between any two steps, and so may the machine: then *)
(* a rename, or data that was not synced, may not have reached the disk.   *)
(***************************************************************************)
EXTENDS ConfigEntries

CONSTANT Torn \* what a file holds when its data did not reach the disk

ASSUME TornIsNoEntries == Torn \notin Entries

VARIABLES
  mem,        \* the entries in memory
  old,        \* those before the change being saved
  saving,     \* the step saveToFileUnlocked is at
  acked,      \* the entries after the last change that succeeded
  tmp, file,  \* the temporary file and the store's file
  disk        \* the store's file after a power loss

storeVars == <<mem, old, saving, acked, tmp, file, disk>>

Steps == {"idle", "open", "write", "sync", "close", "rename", "return"}
Contents == [data : Entries \cup {Torn}, synced : BOOLEAN]
Gone == [data |-> Torn, synced |-> FALSE]   \* no file, or an empty one

StoreInit ==
  /\ mem = Empty /\ old = Empty /\ acked = Empty
  /\ saving = "idle"
  /\ tmp = Gone
  /\ file = [data |-> Empty, synced |-> TRUE]
  /\ disk = Empty

-----------------------------------------------------------------------------
(* A change holds the lock from here to the end of the save: nothing else  *)
(* reads or changes the entries meanwhile.                                 *)

Change(k, v) ==
  /\ saving = "idle"
  /\ old' = mem
  /\ mem' = [mem EXCEPT ![k] = v]
  /\ saving' = "open"
  /\ UNCHANGED <<acked, tmp, file, disk>>

\* AddProxy and the like refuse a name in use, the others one that is not.
AddEntry(k, v) == mem[k] = NoCfg /\ Change(k, v)
UpdateEntry(k, v) == mem[k] # NoCfg /\ Change(k, v)
RemoveEntry(k) == mem[k] # NoCfg /\ Change(k, NoCfg)

SaveStep(from, to, content) ==
  /\ saving = from
  /\ saving' = to
  /\ tmp' = content
  /\ UNCHANGED <<mem, old, acked, file, disk>>

OpenTmp == SaveStep("open", "write", Gone)
WriteTmp == SaveStep("write", "sync", [data |-> mem, synced |-> FALSE])
SyncTmp_Skipped == SaveStep("sync", "close", tmp)
SyncTmp == SaveStep("sync", "close", [tmp EXCEPT !.synced = TRUE])
CloseTmp == SaveStep("close", "rename", tmp)

RenameTmp ==
  /\ saving = "rename"
  /\ saving' = "return"
  /\ file' = tmp /\ tmp' = Gone
  /\ UNCHANGED <<mem, old, acked, disk>>

\* The caller is told, and the lock released.
Saved ==
  /\ saving = "return"
  /\ saving' = "idle"
  /\ acked' = mem
  /\ UNCHANGED <<mem, old, tmp, file, disk>>

Rollback_KeepsChange ==
  /\ saving \notin {"idle", "return"}
  /\ saving' = "idle"
  /\ tmp' = IF saving = "open" THEN tmp ELSE Gone
  /\ UNCHANGED <<mem, old, acked, file, disk>>

\* persistOrRollbackUnlocked when a step fails; the temporary file is removed
\* unless it could not be opened.
Rollback ==
  /\ saving \notin {"idle", "return"}
  /\ saving' = "idle"
  /\ mem' = old
  /\ tmp' = IF saving = "open" THEN tmp ELSE Gone
  /\ UNCHANGED <<old, acked, file, disk>>

SaveToFile ==
  OpenTmp \/ WriteTmp \/ SyncTmp \/ CloseTmp \/ RenameTmp \/ Saved \/ Rollback

\* The system writes the rename, and with it whatever data there is, to disk.
Flush ==
  /\ disk' = IF file.synced THEN file.data ELSE Torn
  /\ UNCHANGED <<mem, old, saving, acked, tmp, file>>

\* NewStoreSource after the process, or the machine, has died.
Reopen(content) ==
  /\ file' = [data |-> content, synced |-> TRUE]
  /\ mem' = content /\ old' = content /\ acked' = content
  /\ saving' = "idle"

ReopenStore == Reopen(file.data) /\ UNCHANGED <<tmp, disk>>
PowerLoss == Reopen(disk) /\ tmp' = Gone /\ UNCHANGED disk

-----------------------------------------------------------------------------
StoreNext ==
  \/ \E k \in Keys : RemoveEntry(k) \/ \E v \in Cfgs : AddEntry(k, v) \/ UpdateEntry(k, v)
  \/ SaveToFile
  \/ Flush
  \/ ReopenStore \/ PowerLoss

StoreSpec == StoreInit /\ [][StoreNext]_storeVars

StoreTypeOK ==
  /\ mem \in Entries /\ old \in Entries /\ acked \in Entries
  /\ saving \in Steps
  /\ tmp \in Contents /\ file \in Contents
  /\ disk \in Entries \cup {Torn}

(***************************************************************************)
(* A failed change leaves no trace in memory, a process that dies at any   *)
(* step finds the entries before or after the change being saved, and a    *)
(* machine that dies finds a complete store, although the rename may be    *)
(* lost: the order write, sync, rename, and the rollback.                  *)
(***************************************************************************)
StoreSurvives ==
  /\ saving = "idle" => mem = acked
  /\ saving # "idle" => old = acked
  /\ file.data = IF saving = "return" THEN mem ELSE acked
  /\ disk # Torn

\* The map that ConfigMap promises is what the file holds.
Map == INSTANCE ConfigMap WITH entries <- file.data

(***************************************************************************)
(* A change becomes effective in one step, the rename; before it a crash   *)
(* or a failure undoes it, after it nothing but a power loss does.         *)
(***************************************************************************)
ImplementsMap == Map!MapSpec

=============================================================================
