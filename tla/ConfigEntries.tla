--------------------------- MODULE ConfigEntries ---------------------------
(***************************************************************************)
(* The proxies and visitors of a client's configuration, and which of them *)
(* run: pkg/config/source and the loading in pkg/config/load.go.  The      *)
(* entries of the configuration files are the base; those of the store,    *)
(* which the program changes itself, override them.                        *)
(***************************************************************************)

CONSTANTS
  Keys,       \* kind and name of a proxy or visitor
  Cfgs,       \* configurations of an entry
  Off,        \* the configuration with enabled = false
  NoCfg       \* there is no such entry

ASSUME ConfigValues == Off \in Cfgs /\ NoCfg \notin Cfgs

Entries == [Keys -> Cfgs \cup {NoCfg}]
Empty == [k \in Keys |-> NoCfg]

Enabled(e) == e \notin {NoCfg, Off}

\* Aggregator.Load.  An entry that is off in the store does not hide that of
\* the files.
Load(src, store) ==
  [k \in Keys |-> IF Enabled(store[k]) THEN store[k]
                  ELSE IF Enabled(src[k]) THEN src[k] ELSE NoCfg]

\* FilterClientConfigurers: no start list starts everything.
Filter(start, loaded) ==
  [k \in Keys |-> IF start = {} \/ k \in start THEN loaded[k] ELSE NoCfg]

\* validateNoDuplicateNames over the entries of a file and of those it includes.
NoDuplicates_Unchecked(main, included) == TRUE
NoDuplicates(main, included) == \A k \in Keys : main[k] = NoCfg \/ included[k] = NoCfg

\* ConfigSource.ReplaceAll: the entries of both, by name.
Merged(main, included) ==
  [k \in Keys |-> IF included[k] # NoCfg THEN included[k] ELSE main[k]]

=============================================================================
