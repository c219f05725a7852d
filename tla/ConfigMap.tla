----------------------------- MODULE ConfigMap -----------------------------
(***************************************************************************)
(* What the store of pkg/config/source/store.go promises: entries that     *)
(* change one at a time and survive the process, and of which a machine    *)
(* that dies keeps a state they have had.                                  *)
(***************************************************************************)
EXTENDS ConfigEntries

VARIABLES
  entries,    \* what the store holds
  disk        \* what is left of it after a power loss

mapVars == <<entries, disk>>

MapInit == entries = Empty /\ disk = Empty

\* An entry is added, changed or removed.
Commit(k, v) ==
  /\ entries[k] # NoCfg \/ v # NoCfg
  /\ entries' = [entries EXCEPT ![k] = v]
  /\ UNCHANGED disk

Settle == disk' = entries /\ UNCHANGED entries
Revert == entries' = disk /\ UNCHANGED disk

MapNext ==
  \/ \E k \in Keys, v \in Cfgs \cup {NoCfg} : Commit(k, v)
  \/ Settle
  \/ Revert

MapSpec == MapInit /\ [][MapNext]_mapVars

=============================================================================
