---------------------- MODULE ControlManagerInvariants ----------------------
(* The lower layers of ControlManager's inductive invariant: the types, the   *)
(* map of runs and the phases of a control.                                   *)
EXTENDS ControlManager, TLAPS

LEMMA KeyOfType ==
  ASSUME NEW l \in Login
  PROVE  KeyOf(l) \in Keys
<1> USE RegistryConstants DEF RegistryConstants, Login, KeyOf, EnforceUnique
<1>1. <<l.user, IF l.clientID # NoClientID THEN l.clientID ELSE l.run>>
         \in Users \X (RunIDs \cup ClientIDs)
  OBVIOUS
<1> QED BY <1>1

LEMMA OfflineType ==
  ASSUME NEW info \in ClientInfo
  PROVE  Offline(info) \in ClientInfo
BY DEF Offline, NoClient, ClientInfo

LEMMA RegisterType ==
  ASSUME RegistryTypeOK, NEW l \in Login, NEW id \in Nat, Register(l, id)
  PROVE  RegistryTypeOK'
<1>1. KeyOf(l) \in Keys
  BY KeyOfType
<1>2. clients' \in [Keys -> ClientInfo]
  <2>1. [known |-> TRUE, explicit |-> EnforceUnique(l), run |-> l.run,
             control |-> id, online |-> TRUE] \in ClientInfo
    BY DEF ClientInfo, Login, EnforceUnique
  <2> QED BY <2>1, OfflineType DEF RegistryTypeOK, Register, RegisteredClients
<1>3. runIndex' \in [RunIDs -> Keys \cup {NoKey}]
  BY <1>1 DEF RegistryTypeOK, Register, RegisteredIndex
<1> QED BY <1>2, <1>3 DEF RegistryTypeOK

LEMMA MarkOfflineType ==
  ASSUME RegistryTypeOK, NEW r \in RunIDs, NEW id \in Nat, MarkOffline(r, id)
  PROVE  RegistryTypeOK'
<1>1. \A k \in Keys : Offline(clients[k]) \in ClientInfo
  BY OfflineType DEF RegistryTypeOK
<1>2. clients' \in [Keys -> ClientInfo]
  BY <1>1 DEF RegistryTypeOK, MarkOffline
<1>3. runIndex' \in [RunIDs -> Keys \cup {NoKey}]
  BY DEF RegistryTypeOK, MarkOffline
<1> QED BY <1>2, <1>3 DEF RegistryTypeOK

-----------------------------------------------------------------------------
(* Type correctness. *)

LEMMA TypeInit == Init => TypeOK
<1> SUFFICES ASSUME Init PROVE TypeOK
  OBVIOUS
<1> USE ControlConstants DEF ControlConstants, Init, CtlOrNone
<1>1. NoClient \in ClientInfo
  BY DEF NoClient, ClientInfo
<1>2. RegistryTypeOK
  BY <1>1 DEF RegistryInit, RegistryTypeOK
<1>3. SessionTypeOK
  BY DEF SessionTypeOK, PCs, States
<1>4. ManagerTypeOK
  BY ZenonT(30) DEF ManagerTypeOK
<1>5. WorkTypeOK
  BY DEF WorkTypeOK
<1> QED BY <1>2, <1>3, <1>4, <1>5 DEF TypeOK

LEMMA StateType ==
  ASSUME NEW s \in States
  PROVE  ReplacedState(s) \in {"closing", "closed"}
BY DEF ReplacedState, States

LEMMA BarrierType ==
  ASSUME TypeOK, NEW c \in Controls
  PROVE  ReplacedBarrier(c) \in CtlOrNone
BY DEF ReplacedBarrier, TypeOK, SessionTypeOK, CtlOrNone

LEMMA DeleteEntryType ==
  ASSUME TypeOK, NEW r \in RunIDs, DeleteEntry(r)
  PROVE  /\ RegistryTypeOK'
         /\ (ctlsByRunID \in [RunIDs -> CtlOrNone])'
         /\ (runMu \in [RunIDs -> CtlOrNone])'
         /\ (registryOnline \in [RunIDs -> BOOLEAN])'
         /\ (registryControlID \in [RunIDs -> Nat])'
<1>1. RegistryTypeOK'
  BY MarkOfflineType
     DEF DeleteEntry, GoOffline, TypeOK, ManagerTypeOK, RegistryTypeOK,
         registryVars
<1> QED BY <1>1 DEF DeleteEntry, TypeOK, ManagerTypeOK, CtlOrNone

LEMMA RunOfType ==
  ASSUME TypeOK, NEW c \in Controls
  PROVE  RunOf(c) \in RunIDs
BY DEF TypeOK, SessionTypeOK, RunOf, Login

LEMMA TypeStep == TypeOK /\ [Next]_vars => TypeOK'
<1> SUFFICES ASSUME TypeOK, [Next]_vars PROVE TypeOK'
  OBVIOUS
<1> USE ControlConstants DEF ControlConstants, CtlOrNone
<1>1. RegistryTypeOK'
  <2>1. CASE UNCHANGED registryVars
    BY <2>1 DEF TypeOK, RegistryTypeOK, registryVars
  <2>2. ASSUME NEW c \in Controls, Activate(c) PROVE RegistryTypeOK'
    BY <2>2, RegisterType DEF Activate, TypeOK, SessionTypeOK
  <2>3. ASSUME NEW r \in RunIDs, DeleteEntry(r) PROVE RegistryTypeOK'
    BY <2>3, DeleteEntryType
  <2>4. ASSUME NEW c \in Controls, Remove(c) \/ WorkerRemove(c)
        PROVE  RegistryTypeOK'
    BY ZenonT(30), <2>1, <2>3, <2>4, RunOfType
       DEF Remove, WorkerRemove, RemoveAt
  <2>5. ASSUME CloserRemove PROVE RegistryTypeOK'
    BY SMTT(30), <2>1, <2>3, <2>5, RunOfType
       DEF CloserRemove, Owns, HasRun, TypeOK, ManagerTypeOK
  <2> QED
    BY ZenonT(30), <2>1, <2>2, <2>4, <2>5
       DEF Next, LoginStep, WorkerStep, CloserStep, WorkConnStep, vars,
           NewControl, AddRead, AddClosed, AddRetry, Add, Replaced,
           WaitForHandoff, ActivateRead, ActivateFails, CompleteLoginRead,
           CompleteLogin, Start, WriteFails, RemoveRead, LoginFailed,
           WorkerStop, WorkerDrain, WorkerRelease, WorkerRemoveRead, Finish,
           DispatcherDone, HeartbeatTimeout, LockRun, CloseManager,
           CloserRead, CloserClose, CloserDone, GetByID, WorkConnRefused,
           RegisterWorkConn, GetWorkConn, Terminated
<1>2. SessionTypeOK'
  <2> USE DEF SessionTypeOK, PCs, LoginPCs, FailPCs, LivePCs, ExitPCs, States
  <2>1. ASSUME NEW c \in Controls, Add(c) PROVE SessionTypeOK'
    BY <2>1, StateType, BarrierType DEF TypeOK, Add, NextID, Goto, Unlock
  <2>2. ASSUME NEW c \in Controls, AddRead(c) PROVE SessionTypeOK'
    BY <2>2, RunOfType DEF TypeOK, ManagerTypeOK, AddRead, Goto, sessionVars
  <2>3. ASSUME NEW c \in Controls, AddClosed(c) PROVE SessionTypeOK'
    BY <2>3 DEF TypeOK, AddClosed, Goto, Unlock, sessionVars
  <2>4. ASSUME NEW c \in Controls, Replaced(c) PROVE SessionTypeOK'
    BY ZenonT(30), <2>4, StateType DEF TypeOK, Replaced, Goto
  <2>5. ASSUME NEW c \in Controls, Activate(c) PROVE SessionTypeOK'
    BY <2>5 DEF TypeOK, Activate, Goto, Unlock
  <2>6. ASSUME NEW c \in Controls, Start(c) PROVE SessionTypeOK'
    BY <2>6 DEF TypeOK, Start, Goto, Unlock
  <2>7. ASSUME NEW c \in Controls, LoginFailed(c) PROVE SessionTypeOK'
    BY <2>7, StateType DEF TypeOK, LoginFailed, CloseControl, ClosedState, Goto
  <2>8. ASSUME NEW c \in Controls, WorkerStop(c) PROVE SessionTypeOK'
    BY <2>8 DEF TypeOK, WorkerStop, Goto
  <2>9. ASSUME NEW c \in Controls, Finish(c) PROVE SessionTypeOK'
    BY <2>9 DEF TypeOK, Finish, Goto
  <2>10. ASSUME NEW c \in Controls, HeartbeatTimeout(c) PROVE SessionTypeOK'
    BY <2>10, StateType
       DEF TypeOK, HeartbeatTimeout, CloseControl, ClosedState
  <2>11. ASSUME CloserClose PROVE SessionTypeOK'
    BY ZenonT(30), <2>11, StateType
       DEF TypeOK, CloserClose, CloseControl, ClosedState
  <2>12. ASSUME NEW c \in Controls, NEW p \in PCs,
                Goto(c, p), gate' \in [Controls -> CtlOrNone],
                UNCHANGED <<login, sessionVars, interrupted, seen>>
         PROVE  SessionTypeOK'
    BY <2>12 DEF TypeOK, Goto, sessionVars
  <2>13. ASSUME NEW c \in Controls, NEW p \in PCs, Unlock(c, p),
                UNCHANGED <<login, sessionVars, interrupted, seen>>
         PROVE  SessionTypeOK'
    BY <2>12, <2>13 DEF TypeOK, Unlock
  <2>14. ASSUME NEW c \in Controls, NEW p \in PCs, Goto(c, p),
                UNCHANGED <<login, sessionVars, interrupted, seen, gate>>
         PROVE  SessionTypeOK'
    BY <2>12, <2>14 DEF TypeOK
  <2>15. ASSUME NEW c \in Controls,
                NewControl(c) \/ WaitForHandoff(c) \/ DispatcherDone(c)
                  \/ WorkerDrain(c) \/ WorkerRelease(c)
         PROVE  SessionTypeOK'
    BY SMTT(30), <2>14, <2>15
       DEF NewControl, WaitForHandoff, DispatcherDone, WorkerDrain,
           WorkerRelease
  <2>16. ASSUME NEW c \in Controls,
                AddRetry(c) \/ ActivateFails(c) \/ CompleteLogin(c)
                  \/ WriteFails(c) \/ Remove(c) \/ WorkerRemove(c)
         PROVE  SessionTypeOK'
    BY ZenonT(30), <2>13, <2>14, <2>16
       DEF AddRetry, ActivateFails, CompleteLogin, WriteFails, Remove,
           WorkerRemove, RemoveAt
  <2>17. ASSUME NEW c \in Controls, NEW from, NEW to \in PCs, NEW b,
                NEW giveUp \in PCs, LockRun(c, from, to, b, giveUp)
         PROVE  SessionTypeOK'
    <3>1. runMu[RunOf(c)] \in CtlOrNone
      BY RunOfType DEF TypeOK, ManagerTypeOK
    <3>2. gate' \in [Controls -> CtlOrNone]
      BY <2>17, <3>1 DEF LockRun, TypeOK
    <3> QED BY <2>12, <2>17, <3>2 DEF LockRun
  <2>18. ASSUME NEW c \in Controls,
                ActivateRead(c) \/ CompleteLoginRead(c) \/ RemoveRead(c)
                  \/ WorkerRemoveRead(c)
         PROVE  SessionTypeOK'
    BY ZenonT(30), <2>17, <2>18
       DEF ActivateRead, CompleteLoginRead, RemoveRead, WorkerRemoveRead
  <2>19. CASE UNCHANGED <<login, pc, sessionVars, interrupted, seen, gate>>
    BY <2>19 DEF TypeOK, sessionVars
  <2> QED
    BY ZenonT(30), <2>1, <2>2, <2>3, <2>4, <2>5, <2>6, <2>7, <2>8, <2>9,
       <2>10, <2>11,
       <2>15, <2>16, <2>18, <2>19
       DEF Next, LoginStep, WorkerStep, CloserStep, WorkConnStep, vars,
           CloseManager, CloserRead, CloserRemove, CloserDone, GetByID,
           WorkConnRefused, RegisterWorkConn, GetWorkConn, Terminated
<1>3. ManagerTypeOK'
  <2> USE DEF ManagerTypeOK
  <2>1. ASSUME NEW c \in Controls, Add(c) PROVE ManagerTypeOK'
    BY <2>1, RunOfType DEF TypeOK, Add, closerVars
  <2>2. ASSUME NEW c \in Controls, Activate(c) PROVE ManagerTypeOK'
    BY SMTT(30), <2>2, RunOfType
       DEF TypeOK, SessionTypeOK, Activate, closerVars
  <2>3. ASSUME NEW c \in Controls, Remove(c) \/ WorkerRemove(c)
        PROVE ManagerTypeOK'
    <3>1. CASE DeleteEntry(RunOf(c))
      BY ZenonT(30), <2>3, <3>1, RunOfType, DeleteEntryType
         DEF TypeOK, Remove, WorkerRemove, RemoveAt, closerVars
    <3>2. CASE UNCHANGED entryVars
      BY ZenonT(30), <2>3, <3>2
         DEF TypeOK, Remove, WorkerRemove, RemoveAt, entryVars, closerVars
    <3> QED BY ZenonT(30), <2>3, <3>1, <3>2 DEF Remove, WorkerRemove, RemoveAt
  <2>4. ASSUME CloserRemove PROVE ManagerTypeOK'
    BY <2>4, RunOfType, DeleteEntryType
       DEF TypeOK, CloserRemove, entryVars, Owns, HasRun
  <2>5. ASSUME NEW c \in Controls, CloserRead(c) PROVE ManagerTypeOK'
    BY ZenonT(30), <2>5, RunOfType DEF TypeOK, CloserRead, entryVars
  <2>6. ASSUME CloseManager \/ CloserClose \/ CloserDone PROVE ManagerTypeOK'
    BY ZenonT(30), <2>6
       DEF TypeOK, CloseManager, CloserClose, CloserDone, entryVars
  <2>7. CASE UNCHANGED <<entryVars, closed, closerVars>>
    BY <2>7 DEF TypeOK, entryVars, closerVars
  <2> HIDE DEF ManagerTypeOK
  <2>8. ASSUME NEW c \in Controls, NewControl(c) \/ LoginStep(c)
        PROVE  ManagerTypeOK'
    BY ZenonT(30), <2>1, <2>2, <2>3, <2>7, <2>8
       DEF NewControl, LoginStep, AddRead, AddClosed, AddRetry, Replaced,
           WaitForHandoff, ActivateRead, ActivateFails, CompleteLoginRead,
           CompleteLogin, Start, WriteFails, RemoveRead, LoginFailed, LockRun
  <2>9. ASSUME NEW c \in Controls,
               WorkerStep(c) \/ DispatcherDone(c) \/ HeartbeatTimeout(c)
        PROVE  ManagerTypeOK'
    BY ZenonT(30), <2>3, <2>7, <2>9
       DEF WorkerStep, WorkerStop, WorkerDrain, WorkerRelease,
           WorkerRemoveRead, Finish, DispatcherDone, HeartbeatTimeout, LockRun
  <2>10. ASSUME NEW w \in WorkConns, WorkConnStep(w)
         PROVE  ManagerTypeOK'
    BY ZenonT(30), <2>7, <2>10
       DEF WorkConnStep, GetByID, WorkConnRefused, RegisterWorkConn,
           GetWorkConn
  <2> QED
    BY <2>4, <2>5, <2>6, <2>7, <2>8, <2>9, <2>10
       DEF Next, CloserStep, Terminated, vars
<1>4. WorkTypeOK'
  <2> USE DEF WorkTypeOK
  <2>1. ASSUME NEW c \in Controls, WorkerDrain(c) PROVE WorkTypeOK'
    BY <2>1 DEF TypeOK, WorkerDrain
  <2>2. ASSUME NEW w \in WorkConns, NEW c \in Controls, GetByID(w, c)
        PROVE  WorkTypeOK'
    BY <2>2 DEF TypeOK, GetByID
  <2>3. ASSUME NEW w \in WorkConns, WorkConnRefused(w) PROVE WorkTypeOK'
    BY <2>3 DEF TypeOK, WorkConnRefused
  <2>4. ASSUME NEW w \in WorkConns, RegisterWorkConn(w) PROVE WorkTypeOK'
    BY <2>4 DEF TypeOK, RegisterWorkConn
  <2>5. ASSUME NEW w \in WorkConns, NEW c \in Controls, GetWorkConn(c, w)
        PROVE  WorkTypeOK'
    BY <2>5 DEF TypeOK, GetWorkConn
  <2>6. ASSUME NEW w \in WorkConns, WorkConnStep(w) PROVE WorkTypeOK'
    BY <2>2, <2>3, <2>4, <2>5, <2>6 DEF WorkConnStep
  <2>7. CASE UNCHANGED workVars
    BY <2>7 DEF TypeOK, workVars
  <2> QED
    BY ZenonT(30), <2>1, <2>6, <2>7
       DEF Next, LoginStep, WorkerStep, CloserStep, vars, NewControl,
           AddRead, AddClosed, AddRetry, Add, Replaced, WaitForHandoff,
           ActivateRead, Activate, ActivateFails, CompleteLoginRead,
           CompleteLogin, Start, WriteFails, RemoveRead, Remove, LoginFailed,
           WorkerStop, WorkerRelease, WorkerRemoveRead, WorkerRemove, Finish,
           DispatcherDone, HeartbeatTimeout, LockRun, RemoveAt, CloseManager,
           CloserRead, CloserRemove, CloserClose, CloserDone, Terminated
<1> QED BY <1>1, <1>2, <1>3, <1>4 DEF TypeOK

-----------------------------------------------------------------------------
Core == TypeOK /\ EntryOK /\ PhaseOK /\ GateOK /\ CloserOK

LEMMA DeleteFrame ==
  ASSUME TypeOK, NEW r \in RunIDs, DeleteEntry(r)
  PROVE  /\ ctlsByRunID' = [ctlsByRunID EXCEPT ![r] = NoCtl]
         /\ runMu' = [runMu EXCEPT ![r] = NoCtl]
BY DEF DeleteEntry

\* What Remove does to the map, whoever calls it.
Removal(c, g) ==
  IF Owns(c, g, TRUE)
    THEN /\ ctlsByRunID' = [ctlsByRunID EXCEPT ![RunOf(c)] = NoCtl]
         /\ runMu' = [runMu EXCEPT ![RunOf(c)] = NoCtl]
    ELSE UNCHANGED <<ctlsByRunID, runMu>>

LEMMA RemoveEffect ==
  ASSUME NEW c \in Controls, Remove(c) \/ WorkerRemove(c)
  PROVE  /\ \/ pc[c] = "rmLock" /\ pc' = [pc EXCEPT ![c] = "close"]
            \/ pc[c] = "exitLock" /\ pc' = [pc EXCEPT ![c] = "finish"]
         /\ Free(gate[c])
         /\ Removal(c, gate[c])
         /\ gate' = [gate EXCEPT ![c] = NoCtl]
         /\ UNCHANGED <<login, sessionVars, interrupted, seen, closed,
                        closerVars>>
BY ZenonT(30)
   DEF Remove, WorkerRemove, RemoveAt, Removal, DeleteEntry, Unlock, Goto,
       entryVars

LEMMA CloserRemoveEffect ==
  ASSUME CloserRemove
  PROVE  /\ closer = "rmLock" /\ closer' = "close"
         /\ Free(closerGate)
         /\ Removal(closerCtl, closerGate)
         /\ UNCHANGED <<login, pc, sessionVars, interrupted, seen, gate,
                        closed, closerTodo, closerCtl>>
BY ZenonT(30) DEF CloserRemove, Removal, DeleteEntry, entryVars

LEMMA RemovalKeeps ==
  ASSUME TypeOK, NEW c \in Controls, NEW g, Removal(c, g)
  PROVE  \A r \in RunIDs :
           \/ ctlsByRunID'[r] = NoCtl
           \/ ctlsByRunID'[r] = ctlsByRunID[r] /\ runMu'[r] = runMu[r]
BY ZenonT(30), RunOfType DEF Removal, TypeOK, ManagerTypeOK

LEMMA RemovalTakes ==
  ASSUME TypeOK, NEW c \in Controls, NEW g, Removal(c, g)
  PROVE  \A d \in Controls :
           Current(d) => d = c \/ ctlsByRunID'[RunOf(d)] = d
BY ZenonT(30), RunOfType DEF Removal, TypeOK, ManagerTypeOK, Owns, Current

LEMMA EntryStep ==
  ASSUME Core, [Next]_vars
  PROVE  EntryOK'
<1>a. \A c \in Controls : RunOf(c) \in RunIDs
  BY RunOfType DEF Core
<1>b. ASSUME NEW c \in Controls, NEW g, Removal(c, g)
      PROVE  \A r \in RunIDs :
               \/ ctlsByRunID'[r] = NoCtl
               \/ ctlsByRunID'[r] = ctlsByRunID[r] /\ runMu'[r] = runMu[r]
  BY <1>b, RemovalKeeps DEF Core
<1>t. /\ EntryOK /\ PhaseOK /\ GateOK /\ CloserOK
      /\ NoCtl \notin Controls
      /\ pc \in [Controls -> PCs]
      /\ state \in [Controls -> States]
      /\ login \in [Controls -> Login]
      /\ ctlsByRunID \in [RunIDs -> CtlOrNone]
      /\ runMu \in [RunIDs -> CtlOrNone]
  BY ControlConstants
     DEF ControlConstants, Core, TypeOK, SessionTypeOK, ManagerTypeOK
<1> USE <1>t DEF EntryOK, RunOf, CtlOrNone, Goto, Unlock, sessionVars
<1>1. CASE UNCHANGED <<login, state, ctlsByRunID, runMu>>
  BY <1>1
<1>2. ASSUME NEW c \in Controls, Add(c) PROVE EntryOK'
  BY <1>2, <1>a DEF Add
<1>3. ASSUME NEW c \in Controls, Replaced(c) PROVE EntryOK'
  BY <1>3 DEF Replaced, GateOK, ReplacedState, entryVars
<1>4. ASSUME NEW c \in Controls, Start(c) PROVE EntryOK'
  BY <1>4 DEF Start, entryVars
<1>5. ASSUME NEW c \in Controls, WorkerStop(c) PROVE EntryOK'
  BY <1>5 DEF WorkerStop, entryVars
<1>6. ASSUME NEW c \in Controls, LoginFailed(c) \/ Finish(c) PROVE EntryOK'
  BY <1>6, <1>a
     DEF LoginFailed, Finish, CloseControl, PhaseOK, Current, entryVars
<1>7. ASSUME NEW c \in Controls, HeartbeatTimeout(c) PROVE EntryOK'
  <2>1. state[c] \in {"running", "closing"}
    BY <1>7 DEF HeartbeatTimeout, PhaseOK, LivePCs, ExitPCs
  <2>2. state' = [state EXCEPT ![c] = "closing"]
    BY ZenonT(30), <1>7, <2>1
       DEF HeartbeatTimeout, CloseControl, ClosedState, ReplacedState
  <2> QED BY <1>7, <2>2 DEF HeartbeatTimeout, entryVars
<1>8. ASSUME NEW c \in Controls, Remove(c) \/ WorkerRemove(c) PROVE EntryOK'
  <2>1. Removal(c, gate[c]) /\ UNCHANGED <<login, state>>
    BY <1>8, RemoveEffect
  <2>2. login[c].run \in RunIDs
    BY <1>a
  <2> QED BY ZenonT(30), <2>1, <2>2 DEF Removal
<1>9. ASSUME CloserRemove PROVE EntryOK'
  <2>1. \A r \in RunIDs :
          \/ ctlsByRunID'[r] = NoCtl
          \/ ctlsByRunID'[r] = ctlsByRunID[r] /\ runMu'[r] = runMu[r]
    BY <1>9, CloserRemoveEffect, <1>b DEF CloserOK
  <2> QED BY <1>9, <2>1, CloserRemoveEffect
<1>10. ASSUME CloserClose PROVE EntryOK'
  BY SMTT(30), <1>10
     DEF CloserClose, CloseControl, CloserOK, Current, entryVars
<1> HIDE <1>t DEF EntryOK
<1>11. ASSUME NEW c \in Controls, NewControl(c) \/ LoginStep(c)
       PROVE  EntryOK'
  BY ZenonT(30), <1>1, <1>2, <1>3, <1>4, <1>6, <1>8, <1>11
     DEF NewControl, LoginStep, AddRead, AddClosed, AddRetry, WaitForHandoff,
         ActivateRead, Activate, ActivateFails, CompleteLoginRead,
         CompleteLogin, WriteFails, RemoveRead, LockRun, entryVars
<1>12. ASSUME NEW c \in Controls,
              WorkerStep(c) \/ DispatcherDone(c) \/ HeartbeatTimeout(c)
       PROVE  EntryOK'
  BY ZenonT(30), <1>1, <1>5, <1>6, <1>7, <1>8, <1>12
     DEF WorkerStep, WorkerDrain, WorkerRelease, WorkerRemoveRead,
         DispatcherDone, LockRun, entryVars
<1>13. ASSUME NEW w \in WorkConns, WorkConnStep(w) PROVE EntryOK'
  BY ZenonT(30), <1>1, <1>13
     DEF WorkConnStep, GetByID, WorkConnRefused, RegisterWorkConn, GetWorkConn,
         entryVars
<1>14. ASSUME CloseManager \/ CloserStep PROVE EntryOK'
  BY ZenonT(30), <1>1, <1>9, <1>10, <1>14
     DEF CloseManager, CloserStep, CloserRead, CloserDone, entryVars
<1> QED BY <1>1, <1>11, <1>12, <1>13, <1>14
        DEF Next, Terminated, vars, entryVars

\* While a login response is written the run's gate is taken, so neither a
\* replacement nor the closing manager gets past the writer.
LEMMA WriterHoldsGate ==
  ASSUME Core, NEW d \in Controls, pc[d] = "writing"
  PROVE  /\ Current(d)
         /\ gate[d] = runMu[RunOf(d)]
         /\ ~Free(runMu[RunOf(d)])
<1>1. Current(d)
  BY DEF Core, PhaseOK
<1>2. gate[d] = runMu[RunOf(d)]
  BY <1>1 DEF Core, GateOK, LockPCs
<1>3. RunOf(d) \in RunIDs
  BY RunOfType DEF Core
<1>4. runMu[RunOf(d)] # NoCtl
  BY <1>1, <1>3, ControlConstants DEF ControlConstants, Core, EntryOK, Current
<1> QED BY <1>1, <1>2, <1>4 DEF Free

LEMMA AddNotWriting ==
  ASSUME Core, NEW c \in Controls, Add(c), seen[c] # NoCtl
  PROVE  /\ seen[c] \in Controls
         /\ RunOf(seen[c]) = RunOf(c)
         /\ pc[seen[c]] # "writing"
         /\ pc[seen[c]] \notin NotAdded
         /\ state[seen[c]] \in {"pending", "running", "closing"}
         /\ seen[c] # c
<1>a. RunOf(c) \in RunIDs
  BY RunOfType DEF Core
<1>1. /\ seen[c] \in Controls
      /\ RunOf(seen[c]) = RunOf(c)
      /\ state[seen[c]] \in {"pending", "running", "closing"}
  BY SMTT(30), <1>a
     DEF Core, Add, EntryOK, TypeOK, SessionTypeOK, CtlOrNone
<1>2. pc[seen[c]] \notin NotAdded
  BY SMTT(30), <1>1 DEF Core, PhaseOK
<1>3. gate[c] = runMu[RunOf(c)] /\ Free(gate[c])
  BY ZenonT(30) DEF Core, GateOK, Add
<1>4. pc[seen[c]] # "writing"
  BY SMTT(30), <1>1, <1>3, WriterHoldsGate
<1> QED BY SMTT(30), <1>1, <1>2, <1>4 DEF Add, NotAdded

\* A control that is in the map has been added.
LEMMA EntryAdded ==
  ASSUME Core, NEW r \in RunIDs, ctlsByRunID[r] # NoCtl
  PROVE  /\ ctlsByRunID[r] \in Controls
         /\ pc[ctlsByRunID[r]] \notin NotAdded
<1>1. ctlsByRunID[r] \in Controls
  BY DEF Core, TypeOK, ManagerTypeOK, CtlOrNone
<1>2. state[ctlsByRunID[r]] # "created"
  BY DEF Core, EntryOK
<1> QED BY <1>1, <1>2 DEF Core, PhaseOK

LEMMA PhaseStep ==
  ASSUME Core, [Next]_vars
  PROVE  PhaseOK'
<1>a. \A c \in Controls : RunOf(c) \in RunIDs
  BY RunOfType DEF Core
<1>t. /\ EntryOK /\ PhaseOK /\ GateOK /\ CloserOK
      /\ NoCtl \notin Controls
      /\ pc \in [Controls -> PCs]
      /\ state \in [Controls -> States]
      /\ activated \in [Controls -> BOOLEAN]
      /\ seen \in [Controls -> CtlOrNone]
      /\ gate \in [Controls -> CtlOrNone]
      /\ ctlsByRunID \in [RunIDs -> CtlOrNone]
      /\ runMu \in [RunIDs -> CtlOrNone]
  BY ControlConstants
     DEF ControlConstants, Core, TypeOK, SessionTypeOK, ManagerTypeOK
<1> USE <1>t DEF PhaseOK, Current, RunOf, CtlOrNone, NotAdded, ExitPCs,
        Goto, Unlock, sessionVars, entryVars
<1>1. CASE UNCHANGED <<login, pc, state, activated, ctlsByRunID>>
  BY SMTT(30), <1>1
<1>2. ASSUME NEW c \in Controls, Add(c) PROVE PhaseOK'
  <2>1. /\ pc[c] = "addLock"
        /\ pc' = [pc EXCEPT ![c] = IF seen[c] = NoCtl THEN "handoff" ELSE "replaced"]
        /\ ctlsByRunID' = [ctlsByRunID EXCEPT ![login[c].run] = c]
        /\ ctlsByRunID[login[c].run] = seen[c]
        /\ UNCHANGED <<login, activated>>
    BY <1>2 DEF Add
  <2>2. state'[c] = "pending"
    BY <1>2 DEF Add
  <2>3. ASSUME NEW d \in Controls, d # c, d # seen[c] PROVE state'[d] = state[d]
    BY <1>2, <2>3 DEF Add
  <2>4. ASSUME seen[c] # NoCtl
        PROVE  state'[seen[c]] =
                 IF state[seen[c]] = "pending" THEN "closed" ELSE "closing"
    BY ZenonT(30), <1>2, <2>4, AddNotWriting DEF Add, ReplacedState
  <2> QED BY SMTT(60), <1>2, <2>1, <2>2, <2>3, <2>4, AddNotWriting, <1>a
<1>3. ASSUME NEW c \in Controls, Replaced(c) PROVE PhaseOK'
  <2>1. UNCHANGED state
    BY <1>3 DEF Replaced, GateOK, ReplacedState
  <2> QED BY <1>3, <2>1 DEF Replaced
<1>4. ASSUME NEW c \in Controls, Start(c) PROVE PhaseOK'
  BY SMTT(30), <1>4 DEF Start
<1>5. ASSUME NEW c \in Controls, WorkerStop(c) PROVE PhaseOK'
  BY SMTT(30), <1>5 DEF WorkerStop
<1>6. ASSUME NEW c \in Controls, Finish(c) PROVE PhaseOK'
  BY <1>6 DEF Finish
<1>7. ASSUME NEW c \in Controls, LoginFailed(c) PROVE PhaseOK'
  BY <1>7 DEF LoginFailed, CloseControl, ClosedState, ReplacedState
<1>8. ASSUME NEW c \in Controls, HeartbeatTimeout(c) PROVE PhaseOK'
  BY SMTT(30), <1>8
     DEF HeartbeatTimeout, CloseControl, ClosedState, ReplacedState,
              LivePCs
<1>9. ASSUME NEW c \in Controls, Remove(c) \/ WorkerRemove(c) PROVE PhaseOK'
  BY SMTT(30), <1>9, RemoveEffect, <1>a
     DEF Removal, Owns, HasRun, GateOK, LockPCs
<1>10. ASSUME CloserRemove PROVE PhaseOK'
  BY SMTT(60), <1>10, CloserRemoveEffect, WriterHoldsGate, <1>a
     DEF Removal, Owns, HasRun, CloserOK
<1>11. ASSUME CloserClose PROVE PhaseOK'
  BY <1>11 DEF CloserClose, CloseControl, ClosedState, ReplacedState, CloserOK
<1>12. ASSUME NEW c \in Controls, ActivateRead(c) \/ CompleteLoginRead(c)
       PROVE  PhaseOK'
  <2>1. /\ \/ pc[c] = "actRead" /\ pc' = [pc EXCEPT ![c] = "actLock"]
           \/ pc[c] = "loginRead" /\ pc' = [pc EXCEPT ![c] = "loginLock"]
           \/ pc[c] \in {"actRead", "loginRead"} /\ pc' = [pc EXCEPT ![c] = "rmRead"]
        /\ UNCHANGED <<login, state, activated, ctlsByRunID>>
    BY ZenonT(30), <1>12 DEF ActivateRead, CompleteLoginRead, LockRun
  <2> QED BY <2>1
<1>13. ASSUME NEW c \in Controls, RemoveRead(c) \/ WorkerRemoveRead(c)
       PROVE  PhaseOK'
  BY <1>13 DEF RemoveRead, WorkerRemoveRead, LockRun, HasRun
<1>14. ASSUME NEW c \in Controls, CompleteLogin(c) PROVE PhaseOK'
  <2>1. /\ pc[c] = "loginLock"
        /\ \/ /\ state[c] = "pending" /\ activated[c] /\ Current(c)
              /\ pc' = [pc EXCEPT ![c] = "writing"]
           \/ pc' = [pc EXCEPT ![c] = "rmRead"]
        /\ UNCHANGED <<login, state, activated, ctlsByRunID>>
    BY ZenonT(30), <1>14 DEF CompleteLogin, MayComplete, Owns
  <2> QED BY SMTT(30), <2>1
<1>15. ASSUME NEW c \in Controls,
              \/ NewControl(c) \/ AddRead(c) \/ AddClosed(c) \/ AddRetry(c)
              \/ WaitForHandoff(c)
       PROVE  PhaseOK'
  BY <1>15 DEF NewControl, AddRead, AddClosed, AddRetry, WaitForHandoff
<1>16. ASSUME NEW c \in Controls,
              Activate(c) \/ ActivateFails(c) \/ WriteFails(c)
       PROVE  PhaseOK'
  <2>1. CASE Activate(c)
    <3>1. /\ pc[c] = "actLock" /\ pc' = [pc EXCEPT ![c] = "loginRead"]
          /\ activated' = [activated EXCEPT ![c] = TRUE]
          /\ UNCHANGED <<login, state, ctlsByRunID>>
      BY ZenonT(30), <2>1 DEF Activate
    <3> QED BY SMTT(30), <3>1
  <2>2. CASE ActivateFails(c)
    BY SMTT(30), <2>2 DEF ActivateFails
  <2>3. CASE WriteFails(c)
    BY SMTT(30), <2>3 DEF WriteFails
  <2> QED BY <1>16, <2>1, <2>2, <2>3
<1>17. ASSUME NEW c \in Controls,
              DispatcherDone(c) \/ WorkerDrain(c) \/ WorkerRelease(c)
       PROVE  PhaseOK'
  BY SMTT(30), <1>17 DEF DispatcherDone, WorkerDrain, WorkerRelease
<1> HIDE <1>t DEF PhaseOK
<1>18. ASSUME CloseManager \/ CloserStep PROVE PhaseOK'
  BY ZenonT(30), <1>1, <1>10, <1>11, <1>18
     DEF CloseManager, CloserStep, CloserRead, CloserDone
<1>19. ASSUME NEW w \in WorkConns, WorkConnStep(w) PROVE PhaseOK'
  BY ZenonT(30), <1>1, <1>19
     DEF WorkConnStep, GetByID, WorkConnRefused, RegisterWorkConn, GetWorkConn
<1> QED BY SMTT(30), <1>1, <1>2, <1>3, <1>4, <1>5, <1>6, <1>7, <1>8, <1>9,
           <1>12, <1>13,
           <1>14, <1>15, <1>16, <1>17, <1>18, <1>19
        DEF Next, LoginStep, WorkerStep, Terminated, vars

=============================================================================
