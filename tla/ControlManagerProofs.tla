------------------------ MODULE ControlManagerProofs ------------------------
(* The registry's part of the invariant, and the theorems about the control  *)
(* manager, for any set of controls, runs and keys.                          *)
EXTENDS ControlManagerHandoff

(* The registry and the entries that own its records. *)

LEMMA OfflineFacts ==
  ASSUME NEW info \in ClientInfo
  PROVE  /\ ~Offline(info).online
         /\ Offline(info).run = NoRun
         /\ Offline(info).known => Offline(info).explicit
         /\ ~Offline(info).known => Offline(info) = NoClient
BY DEF Offline, NoClient, ClientInfo

LEMMA RegisterKeeps ==
  ASSUME RegistryTypeOK, IndexAgrees, NoStaleRecords,
         NEW l \in Login, NEW id \in Nat, Register(l, id)
  PROVE  /\ IndexAgrees'
         /\ NoStaleRecords'
         /\ \A k \in Keys : clients'[k].online =>
              \/ clients'[k].run = l.run /\ clients'[k].control = id
              \/ clients'[k] = clients[k] /\ clients[k].run # l.run
<1> DEFINE k0 == KeyOf(l)
           new == [known |-> TRUE, explicit |-> EnforceUnique(l),
                   run |-> l.run, control |-> id, online |-> TRUE]
<1>0. k0 \in Keys /\ l.run \in RunIDs /\ NoRun \notin RunIDs /\ NoKey \notin Keys
  BY KeyOfType, RegistryConstants DEF RegistryConstants, Login
<1>1. \A k \in Keys : clients[k] \in ClientInfo
  BY DEF RegistryTypeOK
<1>2. clients'[k0] = new
  BY <1>0 DEF Register, RegisteredClients
<1>3. ASSUME NEW k \in Keys, k # k0, clients[k].known, clients[k].run = l.run
      PROVE  clients'[k] = Offline(clients[k])
  BY SMTT(30), <1>0, <1>3 DEF Register, RegisteredClients, IndexAgrees
<1>4. ASSUME NEW k \in Keys, k # k0, ~(clients[k].known /\ clients[k].run = l.run)
      PROVE  clients'[k] = clients[k]
  BY <1>4 DEF Register, RegisteredClients
<1>5. /\ runIndex'[l.run] = k0
      /\ \A r \in RunIDs \ {l.run} :
           runIndex'[r] = IF clients[k0].known /\ clients[k0].run = r
                            THEN NoKey ELSE runIndex[r]
  BY <1>0 DEF Register, RegisteredIndex
<1>6. \A k \in Keys : clients[k].run = l.run => clients[k].known
  BY SMTT(30), <1>0, <1>1 DEF NoStaleRecords, NoClient
<1> HIDE DEF k0
<1>7. IndexAgrees'
  <2> SUFFICES ASSUME NEW r \in RunIDs, NEW k \in Keys
               PROVE  runIndex'[r] = k <=> (clients'[k].known /\ clients'[k].run = r)
    BY DEF IndexAgrees
  <2>1. CASE k = k0
    BY SMTT(30), <1>0, <1>2, <1>5, <2>1 DEF IndexAgrees
  <2>2. CASE k # k0 /\ clients[k].known /\ clients[k].run = l.run
    BY SMTT(30), <1>0, <1>1, <1>3, <1>5, <2>2, OfflineFacts DEF IndexAgrees
  <2>3. CASE k # k0 /\ ~(clients[k].known /\ clients[k].run = l.run)
    BY <1>0, <1>4, <1>5, <2>3 DEF IndexAgrees
  <2> QED BY <2>1, <2>2, <2>3
<1>8. ASSUME NEW k \in Keys
      PROVE  /\ clients'[k].online <=> clients'[k].run # NoRun
             /\ clients'[k].known /\ ~clients'[k].online => clients'[k].explicit
             /\ ~clients'[k].known => clients'[k] = NoClient
  <2>1. CASE k = k0
    BY SMTT(30), <1>0, <1>2, <2>1
  <2>2. CASE k # k0 /\ clients[k].known /\ clients[k].run = l.run
    BY <1>1, <1>3, <2>2, OfflineFacts
  <2>3. CASE k # k0 /\ ~(clients[k].known /\ clients[k].run = l.run)
    BY SMTT(30), <1>4, <2>3 DEF NoStaleRecords
  <2> QED BY <2>1, <2>2, <2>3
<1>9. ASSUME NEW k \in Keys, clients'[k].online
      PROVE  \/ clients'[k].run = l.run /\ clients'[k].control = id
             \/ clients'[k] = clients[k] /\ clients[k].run # l.run
  BY SMTT(30), <1>1, <1>2, <1>3, <1>4, <1>6, <1>9, OfflineFacts
<1>10. NoStaleRecords'
  BY SMTT(30), <1>8 DEF NoStaleRecords
<1> QED BY <1>7, <1>9, <1>10

LEMMA MarkOfflineKeeps ==
  ASSUME RegistryTypeOK, IndexAgrees, NoStaleRecords,
         NEW r \in RunIDs, NEW id \in Nat, MarkOffline(r, id)
  PROVE  /\ IndexAgrees'
         /\ NoStaleRecords'
         /\ \A k \in Keys : clients'[k].online =>
              /\ clients'[k] = clients[k]
              /\ clients[k].run = r => clients[k].control # id
<1> DEFINE key == runIndex[r]
           owned == /\ key # NoKey
                    /\ clients[key].known
                    /\ clients[key].run = r
                    /\ clients[key].control = id
<1>0. NoRun \notin RunIDs /\ NoKey \notin Keys /\ key \in Keys \cup {NoKey}
  BY RegistryConstants DEF RegistryConstants, RegistryTypeOK
<1>1. \A k \in Keys : clients[k] \in ClientInfo
  BY DEF RegistryTypeOK
<1>2. key # NoKey => clients[key].known /\ clients[key].run = r
  BY <1>0 DEF IndexAgrees
<1>3. \A k \in Keys : clients[k].run = r => clients[k].known /\ k = key
  BY SMTT(30), <1>0, <1>1 DEF NoStaleRecords, NoClient, IndexAgrees
<1>4. CASE owned
  <2>1. /\ key \in Keys
        /\ clients' = [clients EXCEPT ![key] = Offline(clients[key])]
    BY <1>0, <1>4 DEF MarkOffline
  <2>2. /\ clients'[key] = Offline(clients[key])
        /\ \A k \in Keys \ {key} : clients'[k] = clients[k]
    BY <2>1 DEF RegistryTypeOK
  <2>3. runIndex' = [runIndex EXCEPT ![r] = NoKey]
    BY SMTT(30), <1>0, <1>1, <1>4, <2>1, <2>2, OfflineFacts DEF MarkOffline
  <2>4. IndexAgrees'
    <3> SUFFICES ASSUME NEW q \in RunIDs, NEW k \in Keys
                 PROVE  runIndex'[q] = k <=> (clients'[k].known /\ clients'[k].run = q)
      BY DEF IndexAgrees
    <3>1. runIndex'[q] = IF q = r THEN NoKey ELSE runIndex[q]
      BY SMTT(30), <2>3 DEF RegistryTypeOK
    <3>2. CASE k = key
      BY SMTT(30), <1>0, <1>1, <1>2, <1>4, <2>1, <2>2, <3>1, <3>2, OfflineFacts
         DEF IndexAgrees
    <3>3. CASE k # key
      BY <1>0, <1>3, <2>2, <3>1, <3>3 DEF IndexAgrees
    <3> QED BY <3>2, <3>3
  <2>5. ASSUME NEW k \in Keys
        PROVE  /\ clients'[k].online <=> clients'[k].run # NoRun
               /\ clients'[k].known /\ ~clients'[k].online => clients'[k].explicit
               /\ ~clients'[k].known => clients'[k] = NoClient
    <3>1. CASE k = key
      BY <1>1, <2>1, <2>2, <3>1, OfflineFacts
    <3>2. CASE k # key
      BY <2>2, <3>2 DEF NoStaleRecords
    <3> QED BY <3>1, <3>2
  <2>6. NoStaleRecords'
    BY SMTT(30), <2>5 DEF NoStaleRecords
  <2> QED BY <1>1, <1>3, <2>1, <2>2, <2>4, <2>6, OfflineFacts
<1>5. CASE ~owned
  <2>1. clients' = clients /\ runIndex' = runIndex
    BY <1>2, <1>5 DEF MarkOffline
  <2> QED BY SMTT(30), <1>0, <1>2, <1>3, <1>5, <2>1
             DEF IndexAgrees, NoStaleRecords
<1> QED BY <1>4, <1>5

RegistryOK == IndexAgrees /\ NoStaleRecords /\ OnlineHasOwner

LEMMA DeleteEntryKeeps ==
  ASSUME TypeOK, RegistryOK, NEW r \in RunIDs, DeleteEntry(r)
  PROVE  RegistryOK'
<1>1. CASE registryOnline[r]
  <2>1. MarkOffline(r, registryControlID[r]) /\ registryControlID[r] \in Nat
    BY <1>1 DEF DeleteEntry, GoOffline, TypeOK, ManagerTypeOK
  <2>2. /\ IndexAgrees' /\ NoStaleRecords'
        /\ \A k \in Keys : clients'[k].online =>
             /\ clients'[k] = clients[k]
             /\ clients[k].run = r => clients[k].control # registryControlID[r]
    BY <2>1, MarkOfflineKeeps DEF TypeOK, RegistryOK
  <2>3. \A k \in Keys : clients'[k].online =>
          clients'[k] = clients[k] /\ clients[k].run # r
    BY <2>2 DEF RegistryOK, OnlineHasOwner
  <2>4. OnlineHasOwner'
    BY <2>3 DEF RegistryOK, OnlineHasOwner, DeleteEntry, TypeOK, ManagerTypeOK
  <2> QED BY <2>2, <2>4 DEF RegistryOK
<1>2. CASE ~registryOnline[r]
  <2>1. UNCHANGED registryVars
    BY SMTT(30), <1>2 DEF DeleteEntry, GoOffline
  <2>2. OnlineHasOwner'
    BY SMTT(30), <1>2, <2>1
       DEF RegistryOK, OnlineHasOwner, DeleteEntry, TypeOK,
                      ManagerTypeOK, registryVars
  <2> QED
    BY <2>1, <2>2 DEF RegistryOK, IndexAgrees, NoStaleRecords, registryVars
<1> QED BY <1>1, <1>2

LEMMA RegistryStep ==
  ASSUME Core, RegistryOK, [Next]_vars
  PROVE  RegistryOK'
<1> USE DEF Core
<1>1. CASE UNCHANGED <<registryVars, entryVars>>
  BY ZenonT(30), <1>1
     DEF RegistryOK, IndexAgrees, NoStaleRecords, OnlineHasOwner,
              registryVars, entryVars
<1>2. ASSUME NEW c \in Controls, Add(c) PROVE RegistryOK'
  <2>1. /\ ctlsByRunID' = [ctlsByRunID EXCEPT ![RunOf(c)] = c]
        /\ UNCHANGED <<clients, runIndex, registryOnline, registryControlID>>
    BY <1>2 DEF Add, registryVars
  <2>2. \A r : ctlsByRunID[r] # NoCtl => ctlsByRunID'[r] # NoCtl
    BY <2>1, ControlConstants DEF ControlConstants, TypeOK, ManagerTypeOK
  <2>3. OnlineHasOwner'
    BY <2>1, <2>2 DEF RegistryOK, OnlineHasOwner
  <2> QED
    BY ZenonT(30), <2>1, <2>3 DEF RegistryOK, IndexAgrees, NoStaleRecords
<1>3. ASSUME NEW c \in Controls, Activate(c) PROVE RegistryOK'
  <2> DEFINE l == login[c]
             id == controlID[c]
  <2>1. l \in Login /\ id \in Nat /\ l.run \in RunIDs /\ l.run = RunOf(c)
    BY SMTT(30) DEF TypeOK, SessionTypeOK, Login, RunOf
  <2>2. Register(l, id)
    BY ZenonT(30), <1>3 DEF Activate
  <2> HIDE DEF l, id
  <2>3. /\ IndexAgrees' /\ NoStaleRecords'
        /\ \A k \in Keys : clients'[k].online =>
             \/ clients'[k].run = l.run /\ clients'[k].control = id
             \/ clients'[k] = clients[k] /\ clients[k].run # l.run
    BY SMTT(30), <2>1, <2>2, RegisterKeeps DEF TypeOK, RegistryOK
  <2>4. /\ ctlsByRunID[l.run] # NoCtl
        /\ registryOnline' = [registryOnline EXCEPT ![l.run] = TRUE]
        /\ registryControlID' = [registryControlID EXCEPT ![l.run] = id]
        /\ UNCHANGED ctlsByRunID
    BY ZenonT(30), <1>3, <2>1 DEF Activate, MayActivate, Owns, HasRun, id
  <2>5. OnlineHasOwner'
    <3> SUFFICES ASSUME NEW k \in Keys, clients'[k].online
                 PROVE  /\ ctlsByRunID'[clients'[k].run] # NoCtl
                        /\ registryOnline'[clients'[k].run]
                        /\ clients'[k].control = registryControlID'[clients'[k].run]
      BY DEF OnlineHasOwner
    <3>1. CASE clients'[k].run = l.run /\ clients'[k].control = id
      BY <2>1, <2>4, <3>1 DEF TypeOK, ManagerTypeOK
    <3>2. CASE clients'[k] = clients[k] /\ clients[k].run # l.run
      BY SMTT(30), <2>4, <3>2
         DEF RegistryOK, OnlineHasOwner, TypeOK, ManagerTypeOK
    <3> QED BY <2>3, <3>1, <3>2
  <2> QED BY <2>3, <2>5 DEF RegistryOK
<1>4. ASSUME NEW c \in Controls, Remove(c) \/ WorkerRemove(c)
      PROVE  RegistryOK'
  BY ZenonT(30), <1>1, <1>4, DeleteEntryKeeps, RunOfType
     DEF Remove, WorkerRemove, RemoveAt
<1>5. ASSUME CloserRemove PROVE RegistryOK'
  BY ZenonT(30), <1>1, <1>5, DeleteEntryKeeps, RunOfType
     DEF CloserRemove, CloserOK
<1> HIDE DEF Core
<1>6. ASSUME NEW c \in Controls, NewControl(c) \/ LoginStep(c)
      PROVE  RegistryOK'
  BY ZenonT(30), <1>1, <1>2, <1>3, <1>4, <1>6
     DEF NewControl, LoginStep, AddRead, AddClosed, AddRetry, Replaced,
         WaitForHandoff, ActivateRead, ActivateFails, CompleteLoginRead,
         CompleteLogin, Start, WriteFails, RemoveRead, LoginFailed, LockRun
<1>7. ASSUME NEW c \in Controls,
             WorkerStep(c) \/ DispatcherDone(c) \/ HeartbeatTimeout(c)
      PROVE  RegistryOK'
  BY ZenonT(30), <1>1, <1>4, <1>7
     DEF WorkerStep, WorkerStop, WorkerDrain, WorkerRelease, WorkerRemoveRead,
         Finish, DispatcherDone, HeartbeatTimeout, LockRun
<1>8. ASSUME CloserStep \/ CloseManager PROVE RegistryOK'
  BY ZenonT(30), <1>1, <1>5, <1>8
     DEF CloserStep, CloseManager, CloserRead, CloserClose, CloserDone
<1> QED
  BY ZenonT(30), <1>1, <1>6, <1>7, <1>8
     DEF Next, WorkConnStep, vars, GetByID, WorkConnRefused,
         RegisterWorkConn, GetWorkConn, Terminated

-----------------------------------------------------------------------------
(* The theorems. *)

LEMMA InvInit == Init => IInv
<1> SUFFICES ASSUME Init PROVE IInv
  OBVIOUS
<1> USE ControlConstants, RegistryConstants
    DEF ControlConstants, RegistryConstants, Init, RegistryInit
<1>1. TypeOK
  BY TypeInit
<1>2. /\ \A r \in RunIDs : ctlsByRunID[r] = NoCtl
      /\ \A c \in Controls : pc[c] = "idle" /\ ~Current(c) /\ state[c] = "created"
    BY <1>1, RunOfType DEF Current
<1>3. EntryOK /\ PhaseOK /\ GateOK
  BY <1>2 DEF EntryOK, PhaseOK, GateOK, NotAdded, LockPCs, ExitPCs
<1>4. HandoffOK /\ OneLive /\ CloserOK
  BY <1>2 DEF HandoffOK, OneLive, CloserOK, Live, LivePCs
<1>5. RemovedOK /\ GenerationOK
  BY <1>2 DEF RemovedOK, GenerationOK
<1>6. IndexAgrees /\ NoStaleRecords /\ OnlineHasOwner
  BY DEF IndexAgrees, NoStaleRecords, OnlineHasOwner, NoClient
<1> QED BY <1>1, <1>3, <1>4, <1>5, <1>6 DEF IInv

LEMMA InvStep == IInv /\ [Next]_vars => IInv'
<1> SUFFICES ASSUME IInv, [Next]_vars PROVE IInv'
  OBVIOUS
<1>1. /\ Core /\ RegistryOK /\ HandoffOK /\ OneLive /\ RemovedOK /\ GenerationOK
  BY DEF IInv, Core, RegistryOK
<1>2. TypeOK' /\ EntryOK' /\ PhaseOK' /\ GateOK' /\ CloserOK'
  BY <1>1, TypeStep, EntryStep, PhaseStep, GateStep, CloserInvStep DEF Core
<1>3. HandoffOK' /\ OneLive'
  BY <1>1, HandoffStep, OneLiveStep
<1>4. RemovedOK' /\ GenerationOK'
  BY <1>1, RemovedStep, GenerationStep
<1>5. RegistryOK'
  BY <1>1, RegistryStep
<1> QED BY <1>2, <1>3, <1>4, <1>5 DEF IInv, RegistryOK

(***************************************************************************)
(* The inductive invariant: the map of runs, the gates, the phases of the  *)
(* controls, the handoff, the closing manager and the registry stay        *)
(* consistent under every interleaving of logins, workers, timeouts, work  *)
(* connections and ControlManager.Close.                                   *)
(***************************************************************************)
THEOREM Invariance == Spec => []IInv
BY InvInit, InvStep, PTL DEF Spec

(***************************************************************************)
(* Every variable keeps its type; a control's ID is one the counter of     *)
(* nextControlID has handed out.                                           *)
(***************************************************************************)
THEOREM TypeCorrect == Spec => []TypeOK
<1>1. IInv => TypeOK
  BY DEF IInv
<1> QED BY <1>1, Invariance, PTL

(***************************************************************************)
(* The handoff barrier works for any number of logins under one run ID: a  *)
(* live worker never shares its run with another live worker, nor with a   *)
(* current control that Activate has registered.                           *)
(***************************************************************************)
THEOREM RunIsExclusive == Spec => []ExclusiveRun
<1>1. IInv => ExclusiveRun
  <2> SUFFICES ASSUME IInv, NEW c \in Controls, NEW d \in Controls, c # d,
                      RunOf(c) = RunOf(d), Live(c)
               PROVE  ~Live(d) /\ ~(Current(d) /\ activated[d])
    BY DEF ExclusiveRun
  <2>1. ~Live(d)
    BY DEF IInv, OneLive
  <2>2. CASE Current(d) /\ activated[d]
    <3>1. ~Current(c) /\ ctlsByRunID[RunOf(c)] = d
      BY <2>2 DEF Current
    <3> QED BY <2>2, <3>1, ControlConstants
            DEF ControlConstants, IInv, HandoffOK
  <2> QED BY <2>1, <2>2
<1> QED BY <1>1, Invariance, PTL

(***************************************************************************)
(* The client registry holds no ghosts, whatever ClientKey maps identities *)
(* to: its two maps agree, a record is online exactly while it names a     *)
(* run, and that run has a current control whose entry knows the           *)
(* generation to take offline.                                             *)
(***************************************************************************)
THEOREM RegistryConsistent ==
  Spec => [](IndexAgrees /\ NoStaleRecords /\ OnlineHasOwner)
<1>1. IInv => IndexAgrees /\ NoStaleRecords /\ OnlineHasOwner
  BY DEF IInv
<1> QED BY <1>1, Invariance, PTL

(***************************************************************************)
(* The index from run IDs to keys and the records of the registry agree,   *)
(* whatever keys a run moves between and whatever records it takes over.   *)
(***************************************************************************)
THEOREM IndexConsistent == Spec => []IndexAgrees
<1>1. IInv => IndexAgrees
  BY DEF IInv
<1> QED BY <1>1, Invariance, PTL

(***************************************************************************)
(* A record is online exactly while it names a run, and records without an *)
(* explicit client ID are removed on disconnect.                           *)
(***************************************************************************)
THEOREM RecordsNeverStale == Spec => []NoStaleRecords
<1>1. IInv => NoStaleRecords
  BY DEF IInv
<1> QED BY <1>1, Invariance, PTL

\* c's record in the registry is its own.
Registered(c) ==
  /\ clients[KeyOf(login[c])].online
  /\ clients[KeyOf(login[c])].run = RunOf(c)
  /\ clients[KeyOf(login[c])].control = controlID[c]

\* Nothing happens to a registered control that stays current.
LEMMA RegisteredFrame ==
  ASSUME ActivatedIsOnline, UNCHANGED login,
         \A d \in Controls :
           ctlsByRunID'[RunOf(d)] = d /\ activated'[d] /\ KeyIsOwn(d) =>
             \/ Registered(d)'
             \/ /\ Current(d) /\ activated[d]
                /\ controlID'[d] = controlID[d]
                /\ Registered(d) =>
                     clients'[KeyOf(login[d])] = clients[KeyOf(login[d])]
  PROVE  ActivatedIsOnline'
<1> SUFFICES ASSUME NEW d \in Controls, Current(d)', activated'[d], KeyIsOwn(d)'
             PROVE  Registered(d)'
  BY ZenonT(30) DEF ActivatedIsOnline, Registered
<1>1. RunOf(d)' = RunOf(d) /\ KeyOf(login[d])' = KeyOf(login[d])
  BY DEF RunOf, KeyOf, EnforceUnique
<1>2. KeyIsOwn(d)
  BY ZenonT(30) DEF KeyIsOwn, RunOf, KeyOf, EnforceUnique
<1>3. ctlsByRunID'[RunOf(d)] = d
  BY <1>1 DEF Current
<1>4. CASE Registered(d)'
  BY <1>4
<1>5. CASE /\ Current(d) /\ activated[d]
           /\ controlID'[d] = controlID[d]
           /\ Registered(d) =>
                clients'[KeyOf(login[d])] = clients[KeyOf(login[d])]
  <2>1. Registered(d)
    BY ZenonT(30), <1>2, <1>5 DEF ActivatedIsOnline, Registered
  <2> QED BY ZenonT(30), <1>1, <1>5, <2>1 DEF Registered
<1> QED BY <1>2, <1>3, <1>4, <1>5

\* Taking a run offline leaves the records of the other runs alone.
LEMMA DeleteSparesOthers ==
  ASSUME TypeOK, RegistryOK, NEW r \in RunIDs, DeleteEntry(r),
         NEW k \in Keys, clients[k].online, clients[k].run # r
  PROVE  clients'[k] = clients[k]
<1>1. CASE registryOnline[r]
  <2>1. MarkOffline(r, registryControlID[r])
    BY <1>1 DEF DeleteEntry, GoOffline
  <2>2. runIndex[r] # k
    BY DEF RegistryOK, IndexAgrees
  <2> QED BY ZenonT(30), <2>1, <2>2 DEF MarkOffline, TypeOK, RegistryTypeOK
<1>2. CASE ~registryOnline[r]
  BY ZenonT(30), <1>2 DEF DeleteEntry, GoOffline, registryVars
<1> QED BY <1>1, <1>2

\* A removed entry is its caller's; the other runs' registrations stay.
LEMMA RemovalActivated ==
  ASSUME IInv, ActivatedIsOnline, NEW c \in Controls,
         Current(c), DeleteEntry(RunOf(c)), UNCHANGED <<login, sessionVars>>
  PROVE  ActivatedIsOnline'
<1>1. TypeOK /\ RegistryOK
  BY DEF IInv, RegistryOK
<1>2. \A d \in Controls : RunOf(d) \in RunIDs /\ KeyOf(login[d]) \in Keys
  BY <1>1, RunOfType, KeyOfType DEF TypeOK, SessionTypeOK
<1>3. ctlsByRunID' = [ctlsByRunID EXCEPT ![RunOf(c)] = NoCtl]
  BY DEF DeleteEntry
<1>4. ASSUME NEW d \in Controls, ctlsByRunID'[RunOf(d)] = d
      PROVE  Current(d) /\ RunOf(d) # RunOf(c)
  BY <1>1, <1>2, <1>3, <1>4, ControlConstants
     DEF ControlConstants, TypeOK, ManagerTypeOK, Current
<1>5. ASSUME NEW d \in Controls, RunOf(d) # RunOf(c), Registered(d)
      PROVE  clients'[KeyOf(login[d])] = clients[KeyOf(login[d])]
  <2> DEFINE k == KeyOf(login[d])
  <2>1. k \in Keys /\ clients[k].online /\ clients[k].run # RunOf(c)
    BY <1>2, <1>5 DEF Registered
  <2> HIDE DEF k
  <2>2. clients'[k] = clients[k]
    BY <1>1, <1>2, <2>1, DeleteSparesOthers
  <2> QED BY <2>2 DEF k
<1> QED BY ZenonT(30), <1>4, <1>5, RegisteredFrame DEF sessionVars

\* Activate registers its control and displaces no other registered control
\* whose key is its own.
LEMMA ActivateRegisters ==
  ASSUME IInv, ActivatedIsOnline, NEW c \in Controls, Activate(c)
  PROVE  ActivatedIsOnline'
<1>1. TypeOK /\ RegistryOK
  BY DEF IInv, RegistryOK
<1>2. \A d \in Controls : /\ RunOf(d) \in RunIDs
                         /\ KeyOf(login[d]) \in Keys
                         /\ login[d].run = RunOf(d)
  BY <1>1, RunOfType, KeyOfType DEF TypeOK, SessionTypeOK, RunOf
<1>3. /\ Current(c) /\ ~Conflict(login[c])
      /\ clients' = RegisteredClients(login[c], controlID[c])
      /\ activated' = [activated EXCEPT ![c] = TRUE]
      /\ UNCHANGED <<login, controlID, ctlsByRunID>>
  BY ZenonT(30) DEF Activate, MayActivate, Owns, Current, Register
<1>4. Registered(c)'
  <2>1. clients'[KeyOf(login[c])] =
          [known |-> TRUE, explicit |-> EnforceUnique(login[c]), run |-> RunOf(c),
           control |-> controlID[c], online |-> TRUE]
    BY ZenonT(30), <1>2, <1>3 DEF RegisteredClients
  <2>2. KeyOf(login[c])' = KeyOf(login[c]) /\ RunOf(c)' = RunOf(c)
    BY <1>3 DEF KeyOf, EnforceUnique, RunOf
  <2> QED BY <1>3, <2>1, <2>2 DEF Registered
<1>5. ASSUME NEW d \in Controls, d # c, Current(d), KeyIsOwn(d), Registered(d)
      PROVE  clients'[KeyOf(login[d])] = clients[KeyOf(login[d])]
  <2> DEFINE k == KeyOf(login[d])
  <2>1. RunOf(d) # RunOf(c)
    BY <1>3, <1>5 DEF Current
  <2>2. /\ k \in Keys /\ clients[k].online /\ clients[k].run = RunOf(d)
        /\ clients[k].known /\ clients[k].run # NoRun
    <3>1. k \in Keys /\ clients[k].online /\ clients[k].run = RunOf(d)
      BY <1>2, <1>5 DEF Registered
    <3>2. ~clients[k].known => clients[k] = NoClient
      BY <1>1, <3>1 DEF RegistryOK, NoStaleRecords
    <3>3. ~NoClient.online
      BY DEF NoClient
    <3> QED BY <1>2, <3>1, <3>2, <3>3, RegistryConstants DEF RegistryConstants
  <2>3. k # KeyOf(login[c])
    BY ZenonT(30), <1>2, <1>3, <1>5, <2>1, <2>2 DEF KeyIsOwn, Conflict
  <2> HIDE DEF k
  <2>4. clients'[k] = clients[k]
    BY <1>2, <1>3, <2>1, <2>2, <2>3 DEF RegisteredClients
  <2> QED BY <2>4 DEF k
<1>6. \A d \in Controls : d # c => activated'[d] = activated[d]
  BY <1>1, <1>3 DEF TypeOK, SessionTypeOK
<1> QED BY ZenonT(30), <1>3, <1>4, <1>5, <1>6, RegisteredFrame DEF Current

LEMMA ActivatedStep ==
  ASSUME IInv, ActivatedIsOnline, [Next]_vars
  PROVE  ActivatedIsOnline'
<1>1. ASSUME UNCHANGED <<registryVars, login, controlID, activated, ctlsByRunID>>
      PROVE  ActivatedIsOnline'
  BY ZenonT(30), <1>1, RegisteredFrame DEF Current, registryVars
<1>2. ASSUME NEW c \in Controls, Add(c) PROVE ActivatedIsOnline'
  <2>1. /\ ctlsByRunID' = [ctlsByRunID EXCEPT ![RunOf(c)] = c]
        /\ pc[c] = "addLock"
        /\ controlID' = [controlID EXCEPT ![c] = nextControlID']
        /\ UNCHANGED <<clients, runIndex, login, activated>>
    BY <1>2 DEF Add, NextID, registryVars
  <2>2. ~activated[c]
    BY <2>1 DEF IInv, PhaseOK, NotAdded
  <2>3. ASSUME NEW d \in Controls, d # c, ctlsByRunID'[RunOf(d)] = d
        PROVE  Current(d) /\ controlID'[d] = controlID[d]
    BY <2>1, <2>3 DEF IInv, TypeOK, SessionTypeOK, ManagerTypeOK, Current
  <2> QED BY ZenonT(30), <2>1, <2>2, <2>3, RegisteredFrame
<1>3. ASSUME NEW c \in Controls, Activate(c) PROVE ActivatedIsOnline'
  BY <1>3, ActivateRegisters
<1>4. ASSUME NEW c \in Controls, Remove(c) \/ WorkerRemove(c)
      PROVE  ActivatedIsOnline'
  BY ZenonT(30), <1>1, <1>4, RemovalActivated
     DEF Remove, WorkerRemove, RemoveAt, Owns, Current, entryVars, sessionVars
<1>5. ASSUME CloserRemove PROVE ActivatedIsOnline'
  <2>1. closerCtl \in Controls
    BY <1>5 DEF CloserRemove, IInv, CloserOK
  <2> QED BY ZenonT(30), <1>1, <1>5, <2>1, RemovalActivated
             DEF CloserRemove, Owns, Current, entryVars, sessionVars
<1>6. ASSUME NEW c \in Controls, NewControl(c) \/ LoginStep(c)
      PROVE  ActivatedIsOnline'
  BY ZenonT(30), <1>1, <1>2, <1>3, <1>4, <1>6
     DEF NewControl, LoginStep, AddRead, AddClosed, AddRetry, Replaced,
         WaitForHandoff, ActivateRead, ActivateFails, CompleteLoginRead,
         CompleteLogin, Start, WriteFails, RemoveRead, LoginFailed, LockRun,
         CloseControl, entryVars, sessionVars
<1>7. ASSUME NEW c \in Controls,
             WorkerStep(c) \/ DispatcherDone(c) \/ HeartbeatTimeout(c)
      PROVE  ActivatedIsOnline'
  BY ZenonT(30), <1>1, <1>4, <1>7
     DEF WorkerStep, WorkerStop, WorkerDrain, WorkerRelease, WorkerRemoveRead,
         Finish, DispatcherDone, HeartbeatTimeout, LockRun, CloseControl,
         entryVars, sessionVars
<1>8. ASSUME CloserStep \/ CloseManager PROVE ActivatedIsOnline'
  BY ZenonT(30), <1>1, <1>5, <1>8
     DEF CloserStep, CloseManager, CloserRead, CloserClose, CloserDone,
         CloseControl, entryVars, sessionVars
<1>9. ASSUME UNCHANGED vars PROVE ActivatedIsOnline'
  BY <1>1, <1>9 DEF vars, entryVars, sessionVars
<1> QED
  BY ZenonT(30), <1>1, <1>6, <1>7, <1>8, <1>9
     DEF Next, WorkConnStep, GetByID, WorkConnRefused, RegisterWorkConn,
         GetWorkConn, Terminated, entryVars, sessionVars

(***************************************************************************)
(* A current control that Activate has registered stays registered under   *)
(* its own generation, whoever else logs in, is replaced or removed late.  *)
(***************************************************************************)
THEOREM ActivatedStaysOnline == Spec => []ActivatedIsOnline
<1>1. Init => ActivatedIsOnline
  BY DEF Init, ActivatedIsOnline
<1>2. IInv /\ ActivatedIsOnline /\ [Next]_vars => ActivatedIsOnline'
  BY ActivatedStep
<1> QED BY <1>1, <1>2, Invariance, PTL DEF Spec

(***************************************************************************)
(* After ControlManager.Close has returned no control is current or        *)
(* running, also when logins and replacements raced with it.               *)
(***************************************************************************)
THEOREM ClosedManagerIsQuiet == Spec => []CloseStopsAll
<1>1. IInv => CloseStopsAll
  <2> SUFFICES ASSUME IInv, closer = "done" PROVE CloseStopsAll
    BY SMTT(30) DEF CloseStopsAll
  <2>1. \A c \in Controls : ~Current(c)
    BY DEF IInv, CloserOK
  <2>2. \A r \in RunIDs : ctlsByRunID[r] = NoCtl
    BY ZenonT(30), <2>1
       DEF IInv, TypeOK, ManagerTypeOK, CtlOrNone, EntryOK, Current
  <2>3. \A c \in Controls : state[c] \in {"pending", "running"} => pc[c] = "close"
    BY <2>1 DEF IInv, RemovedOK
  <2>4. \A c \in Controls : state[c] # "running"
    BY <2>3 DEF IInv, PhaseOK
  <2> QED BY <2>2, <2>3, <2>4 DEF CloseStopsAll
<1> QED BY <1>1, Invariance, PTL

LEMMA PoolStep == IInv /\ ClosedPoolEmpty /\ [Next]_vars => ClosedPoolEmpty'
<1> SUFFICES ASSUME IInv, ClosedPoolEmpty, [Next]_vars PROVE ClosedPoolEmpty'
  OBVIOUS
<1> USE DEF ClosedPoolEmpty, ExitPCs, Goto, Unlock
<1>0. TypeOK /\ PhaseOK
  BY DEF IInv
<1>1. CASE UNCHANGED <<pc, pool>>
  BY <1>1
<1>2. ASSUME NEW c \in Controls, NEW p, pc' = [pc EXCEPT ![c] = p],
             p \in {"releasing", "stopped"} \cup ExitPCs =>
               pc[c] \in {"releasing", "stopped"} \cup ExitPCs,
             UNCHANGED pool
      PROVE  ClosedPoolEmpty'
  BY <1>0, <1>2 DEF TypeOK, SessionTypeOK
<1>3. ASSUME NEW c \in Controls, WorkerDrain(c) PROVE ClosedPoolEmpty'
  BY SMTT(30), <1>0, <1>3 DEF WorkerDrain, TypeOK, SessionTypeOK, WorkTypeOK
<1>4. ASSUME NEW w \in WorkConns, RegisterWorkConn(w) PROVE ClosedPoolEmpty'
  BY ZenonT(30), <1>0, <1>4
     DEF RegisterWorkConn, Accepts, PhaseOK, TypeOK, WorkTypeOK
<1>5. ASSUME NEW w \in WorkConns, NEW c \in Controls, GetWorkConn(c, w)
      PROVE  ClosedPoolEmpty'
  BY <1>0, <1>5 DEF GetWorkConn, TypeOK, WorkTypeOK
<1>6. ASSUME NEW c \in Controls,
             \/ ActivateRead(c) \/ CompleteLoginRead(c) \/ RemoveRead(c)
             \/ CompleteLogin(c)
      PROVE  ClosedPoolEmpty'
  <2>1. /\ \E p \in {"actLock", "loginLock", "writing", "rmLock", "rmRead",
                     "close"} : pc' = [pc EXCEPT ![c] = p]
        /\ UNCHANGED pool
    BY ZenonT(30), <1>6
       DEF ActivateRead, CompleteLoginRead, RemoveRead, LockRun,
                CompleteLogin, workVars
  <2> QED BY SMTT(30), <1>2, <2>1
<1>7. ASSUME NEW c \in Controls, WorkerRemoveRead(c) PROVE ClosedPoolEmpty'
  <2>1. /\ pc[c] = "exitRead"
        /\ \E p \in {"exitLock", "finish"} : pc' = [pc EXCEPT ![c] = p]
        /\ UNCHANGED pool
    BY ZenonT(30), <1>7 DEF WorkerRemoveRead, LockRun, workVars
  <2> QED BY SMTT(30), <1>2, <2>1
<1>8. ASSUME NEW c \in Controls, Remove(c) \/ WorkerRemove(c)
      PROVE  ClosedPoolEmpty'
  <2>1. UNCHANGED pool
    BY ZenonT(30), <1>8 DEF Remove, WorkerRemove, RemoveAt, workVars
  <2> QED BY <1>2, <1>8, <2>1, RemoveEffect
<1> HIDE DEF ClosedPoolEmpty
<1>9. ASSUME NEW c \in Controls, NewControl(c) \/ LoginStep(c)
      PROVE  ClosedPoolEmpty'
  BY ZenonT(30), <1>2, <1>6, <1>8, <1>9
     DEF NewControl, LoginStep, AddRead, AddClosed, AddRetry, Add, Replaced,
         WaitForHandoff, Activate, ActivateFails, Start, WriteFails,
         LoginFailed, workVars
<1>10. ASSUME NEW c \in Controls,
              WorkerStep(c) \/ DispatcherDone(c) \/ HeartbeatTimeout(c)
       PROVE  ClosedPoolEmpty'
  BY ZenonT(30), <1>1, <1>2, <1>3, <1>7, <1>8, <1>10
     DEF WorkerStep, WorkerStop, WorkerRelease, Finish, DispatcherDone,
         HeartbeatTimeout, workVars
<1>11. ASSUME NEW w \in WorkConns, WorkConnStep(w) PROVE ClosedPoolEmpty'
  BY ZenonT(30), <1>1, <1>4, <1>5, <1>11
     DEF WorkConnStep, GetByID, WorkConnRefused
<1> QED
  BY ZenonT(30), <1>1, <1>9, <1>10, <1>11
     DEF Next, CloserStep, vars, CloseManager, CloserRead, CloserRemove,
         CloserClose, CloserDone, Terminated, workVars

(***************************************************************************)
(* RegisterWorkConn never reaches a workConnCh its worker has closed, for  *)
(* any number of connections and any pool size.                            *)
(***************************************************************************)
THEOREM PoolStaysEmpty == Spec => []ClosedPoolEmpty
<1>1. Init => ClosedPoolEmpty
  BY SMTT(30) DEF Init, ClosedPoolEmpty, ExitPCs
<1> QED BY <1>1, PoolStep, Invariance, PTL DEF Spec

(***************************************************************************)
(* WaitForHandoff only ever waits for an older worker of the same run that *)
(* has been told to stop, so there is no cycle of waits among any number   *)
(* of logins, and markReplaced, Close and the heartbeat never tell a       *)
(* worker to stop without its connection being closed or about to be.      *)
(***************************************************************************)
THEOREM NobodyWaitsInVain == Spec => []WaitsForStopping
<1>1. Init => BarrierOK /\ InterruptOK
  BY DEF Init, BarrierOK, InterruptOK
<1>2. IInv /\ BarrierOK /\ InterruptOK /\ [Next]_vars => BarrierOK' /\ InterruptOK'
  BY BarrierStep, InterruptStep DEF IInv, Core
<1>3. IInv /\ BarrierOK /\ InterruptOK => WaitsForStopping
  <2> SUFFICES ASSUME IInv, BarrierOK, InterruptOK, NEW c \in Controls,
                      pc[c] = "handoff", ~BarrierOpen(c)
               PROVE  /\ RunOf(barrier[c]) = RunOf(c)
                      /\ controlID[barrier[c]] < controlID[c]
                      /\ state[barrier[c]] = "closing" /\ Started(barrier[c])
    BY DEF WaitsForStopping, InterruptOK
  <2>1. barrier[c] # NoCtl /\ state[barrier[c]] # "closed"
    BY DEF BarrierOpen
  <2>2. barrier[c] \in Controls
    BY <2>1 DEF IInv, TypeOK, SessionTypeOK, CtlOrNone
  <2>3. /\ RunOf(barrier[c]) = RunOf(c) /\ controlID[barrier[c]] < controlID[c]
        /\ state[barrier[c]] = "closing"
    BY <2>1 DEF BarrierOK
  <2> QED BY <2>2, <2>3 DEF BarrierOK, Started
<1> QED BY <1>1, <1>2, <1>3, Invariance, PTL DEF Spec

LEMMA FinishStep ==
  ASSUME IInv, [Next]_vars, NEW c \in Controls,
         state[c] # "closed", state'[c] = "closed", Started(c)
  PROVE  pc[c] = "finish"
<1> USE DEF Started, LivePCs, ExitPCs
<1>1. TypeOK /\ PhaseOK /\ state[c] \in {"running", "closing"}
  BY DEF IInv, PhaseOK, TypeOK, SessionTypeOK
<1>2. ReplacedState(state[c]) = "closing"
  BY <1>1 DEF ReplacedState
<1>3. state'[c] # state[c] /\ state' # state
  OBVIOUS
<1>4. ASSUME NEW d \in Controls, CloseControl(d) PROVE FALSE
  BY SMTT(30), <1>1, <1>2, <1>3, <1>4
     DEF CloseControl, ClosedState, TypeOK, SessionTypeOK
<1>5. ASSUME NEW d \in Controls,
             Add(d) \/ Replaced(d) \/ Start(d) \/ WorkerStop(d)
      PROVE  FALSE
  BY <1>1, <1>2, <1>3, <1>5
     DEF Add, Replaced, Start, WorkerStop, TypeOK, SessionTypeOK
<1>6. ASSUME NEW d \in Controls, Finish(d) PROVE pc[c] = "finish"
  BY SMTT(30), <1>1, <1>3, <1>6 DEF Finish, TypeOK, SessionTypeOK
<1>7. ASSUME CloserClose PROVE FALSE
  BY ZenonT(30), <1>4, <1>7 DEF CloserClose, IInv, CloserOK
<1>8. ASSUME NEW d \in Controls, NewControl(d) \/ LoginStep(d)
      PROVE  FALSE
  BY ZenonT(30), <1>3, <1>4, <1>5, <1>8, RemoveEffect
     DEF NewControl, LoginStep, AddRead, AddClosed, AddRetry, WaitForHandoff,
         ActivateRead, Activate, ActivateFails, CompleteLoginRead,
         CompleteLogin, WriteFails, RemoveRead, LoginFailed, LockRun,
         sessionVars
<1>9. ASSUME NEW d \in Controls,
             WorkerStep(d) \/ DispatcherDone(d) \/ HeartbeatTimeout(d)
      PROVE  pc[c] = "finish"
  BY ZenonT(30), <1>3, <1>4, <1>5, <1>6, <1>9, RemoveEffect
     DEF WorkerStep, WorkerDrain, WorkerRelease, WorkerRemoveRead,
         DispatcherDone, HeartbeatTimeout, LockRun, sessionVars
<1> QED
  BY ZenonT(30), <1>3, <1>7, <1>8, <1>9
     DEF Next, CloserStep, WorkConnStep, vars, sessionVars, CloseManager,
         CloserRead, CloserRemove, CloserDone, GetByID, WorkConnRefused,
         RegisterWorkConn, GetWorkConn, Terminated

(***************************************************************************)
(* doneCh of a control with a worker is closed by finishLocked at the end  *)
(* of that worker, never by Close, Replaced or the heartbeat.              *)
(***************************************************************************)
THEOREM WorkerClosesDone == Spec => WorkerFinishesLast
<1>1. IInv /\ [Next]_vars =>
        [\A c \in Controls :
           state[c] # "closed" /\ state'[c] = "closed" /\ Started(c)
             => pc[c] = "finish"]_vars
  BY FinishStep
<1> QED BY <1>1, Invariance, PTL DEF Spec, WorkerFinishesLast

-----------------------------------------------------------------------------
(* The controls of a run implement RunLease. *)

Held == {<<RunOf(c), controlID[c]>> : c \in {d \in Controls : Live(d)}}
Used == {<<RunOf(c), controlID[c]>> : c \in {d \in Controls : Started(d)}}

LEMMA LeaseAcquire ==
  ASSUME IInv, NEW c \in Controls, Start(c)
  PROVE  /\ \A p \in Held : p[1] # RunOf(c)
         /\ \A p \in Used : p[1] = RunOf(c) => p[2] < controlID[c]
         /\ Held' = Held \cup {<<RunOf(c), controlID[c]>>}
         /\ Used' = Used \cup {<<RunOf(c), controlID[c]>>}
<1> USE DEF LivePCs, ExitPCs
<1>1. Core /\ HandoffOK /\ pc[c] = "writing" /\ Current(c)
  BY ZenonT(30) DEF IInv, Core, Start, PhaseOK
<1>2. \A d \in Controls : Live(d) => RunOf(d) # RunOf(c)
  BY <1>1, WriterIsAlone
<1>3. \A d \in Controls :
        Started(d) /\ RunOf(d) = RunOf(c) => controlID[d] < controlID[c]
  BY <1>1 DEF Started, IInv, GenerationOK
<1>4. /\ pc' = [pc EXCEPT ![c] = "serving"]
      /\ UNCHANGED <<login, controlID>>
  BY DEF Start, Unlock, Goto
<1>5. \A d \in Controls :
        /\ Live(d)' <=> Live(d) \/ d = c
        /\ Started(d)' <=> Started(d) \/ d = c
  BY <1>4 DEF Live, Started, IInv, TypeOK, SessionTypeOK
<1>6. \A d \in Controls : RunOf(d)' = RunOf(d) /\ controlID'[d] = controlID[d]
  BY <1>4 DEF RunOf
<1> HIDE DEF LivePCs, ExitPCs
<1>7. \A p \in Held : p[1] # RunOf(c)
  BY <1>2 DEF Held
<1>8. \A p \in Used : p[1] = RunOf(c) => p[2] < controlID[c]
  BY SMTT(30), <1>3 DEF Used
<1>9. Held' = Held \cup {<<RunOf(c), controlID[c]>>}
  BY SMTT(30), <1>5, <1>6 DEF Held
<1>10. Used' = Used \cup {<<RunOf(c), controlID[c]>>}
  BY <1>5, <1>6 DEF Used
<1> QED BY SMTT(30), <1>7, <1>8, <1>9, <1>10

LEMMA LeaseRelease ==
  ASSUME IInv, NEW c \in Controls, WorkerRelease(c)
  PROVE  /\ <<RunOf(c), controlID[c]>> \in Held
         /\ Held' = Held \ {<<RunOf(c), controlID[c]>>}
         /\ Used' = Used
<1> USE DEF LivePCs, ExitPCs
<1>1. /\ pc[c] = "releasing"
      /\ pc' = [pc EXCEPT ![c] = "exitRead"]
      /\ UNCHANGED <<login, controlID>>
  BY DEF WorkerRelease, Goto, sessionVars
<1>2. \A d \in Controls : Live(d) /\ d # c => RunOf(d) # RunOf(c)
  BY <1>1 DEF IInv, OneLive, Live
<1>3. /\ Live(c)
      /\ \A d \in Controls : /\ Live(d)' <=> Live(d) /\ d # c
                             /\ Started(d)' <=> Started(d)
  BY <1>1 DEF Live, Started, IInv, TypeOK, SessionTypeOK
<1>4. \A d \in Controls : RunOf(d)' = RunOf(d) /\ controlID'[d] = controlID[d]
  BY <1>1 DEF RunOf
<1> HIDE DEF LivePCs, ExitPCs
<1>5. <<RunOf(c), controlID[c]>> \in Held
  BY SMTT(30), <1>3 DEF Held
<1>6. Held' = Held \ {<<RunOf(c), controlID[c]>>}
  BY SMTT(30), <1>2, <1>3, <1>4 DEF Held
<1>7. Used' = Used
  BY <1>3, <1>4 DEF Used
<1> QED BY <1>5, <1>6, <1>7

LEMMA LeaseStutter ==
  ASSUME IInv, NEW c \in Controls, NEW p, pc' = [pc EXCEPT ![c] = p],
         UNCHANGED login,
         \A d \in Controls : Started(d) => controlID'[d] = controlID[d],
         p \in LivePCs <=> Live(c),
         p \in LivePCs \cup ExitPCs \cup {"stopped"} <=> Started(c)
  PROVE  Held' = Held /\ Used' = Used
<1>1. \A d \in Controls : /\ Live(d)' <=> Live(d)
                          /\ Started(d)' <=> Started(d)
                          /\ RunOf(d)' = RunOf(d)
                          /\ Live(d) => Started(d)
  BY SMTT(30) DEF Live, Started, RunOf, IInv, TypeOK, SessionTypeOK
<1>2. Held' = Held
  BY SMTT(30), <1>1 DEF Held
<1>3. Used' = Used
  BY <1>1 DEF Used
<1> QED BY <1>2, <1>3

LEMMA LeaseStep ==
  ASSUME IInv, [Next]_vars
  PROVE  \/ \E c \in Controls : Start(c) \/ WorkerRelease(c)
         \/ Held' = Held /\ Used' = Used
<1> DEFINE Goal == \/ \E c \in Controls : Start(c) \/ WorkerRelease(c)
                   \/ Held' = Held /\ Used' = Used
<1> USE DEF LivePCs, ExitPCs, Live, Started, Goto, Unlock, sessionVars
<1>0. TypeOK
  BY SMTT(30) DEF IInv
<1>1. CASE UNCHANGED <<login, pc, controlID>>
  BY SMTT(30), <1>1 DEF Held, Used, RunOf
<1>2. ASSUME NEW c \in Controls, Add(c) PROVE Goal
  <2>1. /\ pc[c] = "addLock"
        /\ \E p \in {"handoff", "replaced"} : pc' = [pc EXCEPT ![c] = p]
        /\ UNCHANGED login
        /\ \A d \in Controls : d # c => controlID'[d] = controlID[d]
    BY ZenonT(30), <1>0, <1>2 DEF Add, NextID, TypeOK, SessionTypeOK
  <2> QED BY ZenonT(30), <2>1, LeaseStutter
<1>3. ASSUME NEW c \in Controls, NEW p, pc' = [pc EXCEPT ![c] = p],
             UNCHANGED <<login, controlID>>,
             p \in LivePCs <=> Live(c),
             p \in LivePCs \cup ExitPCs \cup {"stopped"} <=> Started(c)
      PROVE  Goal
  BY ZenonT(30), <1>3, LeaseStutter
<1>4. ASSUME NEW c \in Controls,
             \/ ActivateRead(c) \/ CompleteLoginRead(c) \/ RemoveRead(c)
             \/ CompleteLogin(c)
      PROVE  Goal
  <2>1. /\ pc[c] \in {"actRead", "loginRead", "rmRead", "loginLock"}
        /\ \E p \in {"actLock", "loginLock", "writing", "rmLock", "rmRead",
                     "close"} : pc' = [pc EXCEPT ![c] = p]
        /\ UNCHANGED <<login, controlID>>
    BY ZenonT(30), <1>4
       DEF ActivateRead, CompleteLoginRead, RemoveRead, LockRun,
                CompleteLogin
  <2> QED BY ZenonT(30), <1>3, <2>1
<1>5. ASSUME NEW c \in Controls, WorkerRemoveRead(c) PROVE Goal
  <2>1. /\ pc[c] = "exitRead"
        /\ \E p \in {"exitLock", "finish"} : pc' = [pc EXCEPT ![c] = p]
        /\ UNCHANGED <<login, controlID>>
    BY ZenonT(30), <1>5 DEF WorkerRemoveRead, LockRun
  <2> QED BY ZenonT(30), <1>3, <2>1
<1>6. ASSUME NEW c \in Controls, Remove(c) \/ WorkerRemove(c) PROVE Goal
  BY ZenonT(30), <1>3, <1>6, RemoveEffect
<1> HIDE DEF Goal
<1>7. ASSUME NEW c \in Controls, NewControl(c) \/ LoginStep(c) PROVE Goal
  <2>1. ASSUME Start(c) PROVE Goal
    BY SMTT(30), <2>1 DEF Goal
  <2> QED
    BY ZenonT(30), <1>2, <1>3, <1>4, <1>6, <1>7, <2>1
       DEF NewControl, LoginStep, AddRead, AddClosed, AddRetry, Replaced,
           WaitForHandoff, Activate, ActivateFails, WriteFails, LoginFailed,
           CloseControl
<1>8. ASSUME NEW c \in Controls,
             WorkerStep(c) \/ DispatcherDone(c) \/ HeartbeatTimeout(c)
      PROVE  Goal
  <2>1. ASSUME WorkerRelease(c) PROVE Goal
    BY <2>1 DEF Goal
  <2>2. ASSUME HeartbeatTimeout(c) PROVE Goal
    BY SMTT(30), <1>1, <2>2 DEF HeartbeatTimeout, CloseControl, Goal
  <2> QED
    BY ZenonT(30), <1>3, <1>5, <1>6, <1>8, <2>1, <2>2
       DEF WorkerStep, WorkerStop, WorkerDrain, Finish, DispatcherDone
<1>9. Goal
  <2>1. CASE UNCHANGED <<login, pc, controlID>>
    BY <1>1, <2>1 DEF Goal
  <2> QED
    BY ZenonT(30), <1>7, <1>8, <2>1
       DEF Next, CloserStep, WorkConnStep, vars, CloseManager, CloserRead,
           CloserRemove, CloserClose, CloserDone, CloseControl, GetByID,
           WorkConnRefused, RegisterWorkConn, GetWorkConn, Terminated
<1> QED BY <1>9 DEF Goal

(***************************************************************************)
(* The handoff protocol implements RunLease: starting a control acquires   *)
(* its run's resources, the end of closeProxy in its worker releases them, *)
(* and every other step leaves them alone.                                 *)
(***************************************************************************)
THEOREM LeaseRefinement == Spec => ImplementsLease
<1>1. Init => Lease!LeaseInit
  <2> SUFFICES ASSUME Init PROVE Held = {} /\ Used = {}
    BY DEF Lease!LeaseInit, Held, Used
  <2>1. \A c \in Controls : ~Live(c) /\ ~Started(c)
    BY DEF Init, Live, Started, LivePCs, ExitPCs
  <2> QED BY <2>1 DEF Held, Used
<1>2. IInv /\ [Next]_vars => [Lease!LeaseNext]_(Lease!leaseVars)
  <2> DEFINE Acquires(p) == /\ \A q \in Held : q[1] # p[1]
                            /\ \A q \in Used : q[1] = p[1] => q[2] < p[2]
                            /\ Held' = Held \cup {<<p[1], p[2]>>}
                            /\ Used' = Used \cup {<<p[1], p[2]>>}
             Releases(p) == /\ <<p[1], p[2]>> \in Held
                            /\ Held' = Held \ {<<p[1], p[2]>>}
                            /\ Used' = Used
  <2> SUFFICES ASSUME IInv, [Next]_vars
               PROVE  \/ \E p \in Held' : Acquires(p)
                      \/ \E p \in Held : Releases(p)
                      \/ Held' = Held /\ Used' = Used
    BY ZenonT(30)
       DEF Lease!LeaseNext, Lease!Acquire, Lease!Release, Lease!leaseVars,
           Held, Used
  <2>1. ASSUME NEW c \in Controls, Start(c)
        PROVE  \E p \in Held' : Acquires(p)
    <3> DEFINE q == <<RunOf(c), controlID[c]>>
    <3>1. q[1] = RunOf(c) /\ q[2] = controlID[c] /\ q \in Held'
      BY <2>1, LeaseAcquire
    <3> HIDE DEF q
    <3> QED BY <2>1, <3>1, LeaseAcquire
  <2>2. ASSUME NEW c \in Controls, WorkerRelease(c)
        PROVE  \E p \in Held : Releases(p)
    <3> DEFINE q == <<RunOf(c), controlID[c]>>
    <3>1. q[1] = RunOf(c) /\ q[2] = controlID[c] /\ q \in Held
      BY <2>2, LeaseRelease
    <3> HIDE DEF q
    <3> QED BY <2>2, <3>1, LeaseRelease
  <2> QED BY SMTT(30), <2>1, <2>2, LeaseStep
<1> QED BY <1>1, <1>2, Invariance, PTL
           DEF Spec, ImplementsLease, Lease!LeaseSpec
=============================================================================
