--------------------------- MODULE ClientRegistry ---------------------------
(***************************************************************************)
(* The server's registry of connected clients, server/registry/registry.go:*)
(* client records indexed by "{user}.{clientID}" (the run ID stands in for *)
(* an empty client ID) and an index from run ID to the record's key.       *)
(*                                                                         *)
(* Both maps are guarded by one mutex, so each method is one action.  Host *)
(* name, address, version and timestamps are left out.  Strings are opaque *)
(* values: composeClientKey is an arbitrary function ClientKey, which also *)
(* covers the composite keys that two different pairs share.               *)
(***************************************************************************)
EXTENDS Naturals

CONSTANTS
  RunIDs,       \* run IDs of clients
  Users,        \* user names
  ClientIDs,    \* client IDs a client may configure
  NoClientID,   \* the empty client ID
  Keys,         \* registry keys
  ClientKey,    \* composeClientKey, from <<user, effective ID>> to a key
  NoRun, NoKey  \* the empty run ID; no key in the index

ASSUME RegistryConstants ==
  /\ NoClientID \notin ClientIDs
  /\ NoRun \notin RunIDs
  /\ NoKey \notin Keys
  /\ ClientKey \in [Users \X (RunIDs \cup ClientIDs) -> Keys]

VARIABLES
  clients,      \* clients[k] is the record stored under key k
  runIndex      \* runIndex[r] is the key run r is registered under

registryVars == <<clients, runIndex>>

\* The identity a Login message carries.
Login == [run : RunIDs, user : Users, clientID : ClientIDs \cup {NoClientID}]

\* known: the map has the key.  explicit: RawClientID is not empty.
ClientInfo == [known : BOOLEAN, explicit : BOOLEAN, run : RunIDs \cup {NoRun},
               control : Nat, online : BOOLEAN]

NoClient == [known |-> FALSE, explicit |-> FALSE, run |-> NoRun,
             control |-> 0, online |-> FALSE]

RegistryTypeOK ==
  /\ clients \in [Keys -> ClientInfo]
  /\ runIndex \in [RunIDs -> Keys \cup {NoKey}]

RegistryInit ==
  /\ clients = [k \in Keys |-> NoClient]
  /\ runIndex = [r \in RunIDs |-> NoKey]

-----------------------------------------------------------------------------
EnforceUnique(l) == l.clientID # NoClientID

KeyOf(l) ==
  ClientKey[<<l.user, IF EnforceUnique(l) THEN l.clientID ELSE l.run>>]

Offline_KeepsRecord(info) ==
  [known |-> TRUE, explicit |-> info.explicit, run |-> NoRun,
   control |-> 0, online |-> FALSE]

\* setClientOffline, or the deletion of a record without explicit client ID.
Offline(info) ==
  IF info.explicit
    THEN [known |-> TRUE, explicit |-> TRUE, run |-> NoRun,
          control |-> 0, online |-> FALSE]
    ELSE NoClient

Conflict_NeverChecked(l) == FALSE

\* The login claims an explicit client ID that another run holds online.
Conflict(l) ==
  LET info == clients[KeyOf(l)] IN
  /\ EnforceUnique(l)
  /\ info.known /\ info.online
  /\ info.run # NoRun /\ info.run # l.run

\* RegisterWithControlID without a conflict: the run leaves the key it was
\* registered under, the record at its new key changes hands ...
RegisteredClients(l, id) ==
  [k \in Keys |->
     IF k = KeyOf(l)
       THEN [known |-> TRUE, explicit |-> EnforceUnique(l), run |-> l.run,
             control |-> id, online |-> TRUE]
     ELSE IF k = runIndex[l.run] /\ clients[k].known /\ clients[k].run = l.run
       THEN Offline(clients[k])
     ELSE clients[k]]

RegisteredIndex_KeepsDisplaced(l) == [runIndex EXCEPT ![l.run] = KeyOf(l)]

\* ... and the run that had it loses its index.
RegisteredIndex(l) ==
  LET displaced == clients[KeyOf(l)] IN
  [r \in RunIDs |->
     IF r = l.run THEN KeyOf(l)
     ELSE IF displaced.known /\ displaced.run = r THEN NoKey
     ELSE runIndex[r]]

Register(l, id) ==
  /\ clients' = RegisteredClients(l, id)
  /\ runIndex' = RegisteredIndex(l)

\* MarkOfflineByRunIDAndControlID: only the generation that owns the record
\* takes it offline.
MarkOffline(r, id) ==
  LET key == runIndex[r]
      owned == /\ key # NoKey
               /\ clients[key].known
               /\ clients[key].run = r
               /\ clients[key].control = id
  IN
  /\ clients' = IF owned THEN [clients EXCEPT ![key] = Offline(@)] ELSE clients
  /\ runIndex' =
       IF /\ key # NoKey
          /\ clients'[key].known => clients'[key].run # r
         THEN [runIndex EXCEPT ![r] = NoKey]
         ELSE runIndex

-----------------------------------------------------------------------------
(***************************************************************************)
(* The two maps agree: a run's index points at the record that names it,   *)
(* and a record that names a run is the one its index points at.  A run is *)
(* therefore online under one key at most, whatever keys it moves between  *)
(* and whatever records other logins take over.                            *)
(***************************************************************************)
IndexAgrees ==
  \A r \in RunIDs, k \in Keys :
    runIndex[r] = k <=> (clients[k].known /\ clients[k].run = r)

(***************************************************************************)
(* A record is online exactly while it names a run, and a record without   *)
(* an explicit client ID is never kept offline ("removed on disconnect to  *)
(* avoid stale offline records").                                          *)
(***************************************************************************)
NoStaleRecords ==
  \A k \in Keys :
    /\ clients[k].online <=> clients[k].run # NoRun
    /\ clients[k].known /\ ~clients[k].online => clients[k].explicit
    /\ ~clients[k].known => clients[k] = NoClient
=============================================================================
