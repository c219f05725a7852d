----------------------- MODULE ControlManagerHandoff ------------------------
(* The upper layers of ControlManager's inductive invariant: the gates, the   *)
(* closing manager, the handoff of a run between generations, and the order   *)
(* of the generations.                                                        *)
EXTENDS ControlManagerInvariants

LEMMA GateStep ==
  ASSUME Core, [Next]_vars
  PROVE  GateOK'
<1>a. \A c \in Controls : RunOf(c) \in RunIDs
  BY RunOfType DEF Core
<1>b. ASSUME NEW c \in Controls, NEW g, Removal(c, g)
      PROVE  \A r \in RunIDs :
               \/ ctlsByRunID'[r] = NoCtl
               \/ ctlsByRunID'[r] = ctlsByRunID[r] /\ runMu'[r] = runMu[r]
  BY <1>b, RemovalKeeps DEF Core
<1>c. \A r \in RunIDs : ctlsByRunID[r] # NoCtl
                         => pc[ctlsByRunID[r]] \notin NotAdded
  BY EntryAdded
<1>t. /\ EntryOK /\ PhaseOK /\ GateOK /\ CloserOK
      /\ NoCtl \notin Controls
      /\ pc \in [Controls -> PCs]
      /\ state \in [Controls -> States]
      /\ seen \in [Controls -> CtlOrNone]
      /\ gate \in [Controls -> CtlOrNone]
      /\ ctlsByRunID \in [RunIDs -> CtlOrNone]
      /\ runMu \in [RunIDs -> CtlOrNone]
  BY ControlConstants
     DEF ControlConstants, Core, TypeOK, SessionTypeOK, ManagerTypeOK
<1> USE <1>t DEF GateOK, Current, RunOf, CtlOrNone, NotAdded, LockPCs,
        Goto, Unlock, sessionVars, entryVars
<1>1. CASE UNCHANGED <<login, pc, state, seen, gate, ctlsByRunID, runMu>>
  BY <1>1
\* A step of c that neither takes a gate nor reads an entry.
<1>2. ASSUME NEW c \in Controls, NEW p \in PCs,
             pc' = [pc EXCEPT ![c] = p],
             p \notin LockPCs \cup {"addLock", "replaced"},
             p \in NotAdded => pc[c] \in NotAdded,
             \A d \in Controls \ {c} : gate'[d] = gate[d] /\ seen'[d] = seen[d],
             \A d \in Controls : state[d] \in {"closing", "closed"}
                                   => state'[d] \in {"closing", "closed"},
             UNCHANGED <<login, ctlsByRunID, runMu>>
      PROVE  GateOK'
  BY SMTT(30), <1>2
<1>3. ASSUME NEW c \in Controls, AddRead(c) PROVE GateOK'
  <2>1. ctlsByRunID[login[c].run] # NoCtl
          => pc[ctlsByRunID[login[c].run]] \notin NotAdded
    BY ZenonT(30), <1>a, <1>c
  <2> QED BY SMTT(30), <1>3, <2>1 DEF AddRead
<1>4. ASSUME NEW c \in Controls, Add(c) PROVE GateOK'
  <2>1. /\ pc[c] = "addLock"
        /\ pc' = [pc EXCEPT ![c] = IF seen[c] = NoCtl THEN "handoff" ELSE "replaced"]
        /\ ctlsByRunID' = [ctlsByRunID EXCEPT ![login[c].run] = c]
        /\ \A r \in RunIDs \ {login[c].run} : runMu'[r] = runMu[r]
        /\ \A d \in Controls \ {c} : gate'[d] = gate[d]
        /\ UNCHANGED <<login, seen>>
    BY SMTT(30), <1>4 DEF Add
  <2>2. state[c] = "created"
    BY <2>1 DEF PhaseOK
  <2>3. ASSUME NEW d \in Controls, state[d] \in {"closing", "closed"}
        PROVE  state'[d] \in {"closing", "closed"}
    BY <1>4, <2>2, <2>3 DEF Add, ReplacedState
  <2>4. seen[c] # NoCtl =>
          seen[c] \in Controls /\ state'[seen[c]] \in {"closing", "closed"}
    BY ZenonT(30), <1>4, AddNotWriting DEF Add, ReplacedState
  <2> QED BY SMTT(30), <2>1, <2>2, <2>3, <2>4, <1>a
<1>5. ASSUME NEW c \in Controls, Replaced(c) PROVE GateOK'
  <2>1. UNCHANGED state
    BY <1>5 DEF Replaced, ReplacedState
  <2> QED BY <1>2, <1>5, <2>1 DEF Replaced, PCs, LoginPCs
<1>6. ASSUME NEW c \in Controls, NEW from \in PCs, NEW to \in LockPCs, NEW b,
             NEW giveUp \in {"rmRead", "close", "finish"},
             LockRun(c, from, to, b, giveUp)
      PROVE  GateOK'
  BY <1>6, <1>a DEF LockRun
<1>7. ASSUME NEW c \in Controls,
             \/ ActivateRead(c) \/ CompleteLoginRead(c) \/ RemoveRead(c)
             \/ WorkerRemoveRead(c)
      PROVE  GateOK'
  BY ZenonT(30), <1>6, <1>7
     DEF ActivateRead, CompleteLoginRead, RemoveRead, WorkerRemoveRead, PCs,
         LoginPCs, FailPCs, ExitPCs
<1>8. ASSUME NEW c \in Controls, CompleteLogin(c) PROVE GateOK'
  <2>1. CASE pc' = [pc EXCEPT ![c] = "writing"] /\ UNCHANGED gate
    BY <1>8, <2>1 DEF CompleteLogin
  <2>2. CASE Unlock(c, "rmRead")
    BY ZenonT(30), <1>2, <1>8, <2>2 DEF CompleteLogin, PCs, FailPCs
  <2> QED BY <1>8, <2>1, <2>2 DEF CompleteLogin
<1>9. ASSUME NEW c \in Controls, Remove(c) \/ WorkerRemove(c) PROVE GateOK'
  <2>1. /\ Removal(c, gate[c])
        /\ \E p \in {"close", "finish"} : pc' = [pc EXCEPT ![c] = p]
        /\ gate' = [gate EXCEPT ![c] = NoCtl]
        /\ UNCHANGED <<login, state, seen>>
    BY SMTT(30), <1>9, RemoveEffect
  <2>2. \A r \in RunIDs :
          \/ ctlsByRunID'[r] = NoCtl
          \/ ctlsByRunID'[r] = ctlsByRunID[r] /\ runMu'[r] = runMu[r]
    BY <2>1, <1>b
  <2>3. PICK p \in {"close", "finish"} : pc' = [pc EXCEPT ![c] = p]
    BY ZenonT(30), <2>1
  <2>4. /\ \A d \in Controls \ {c} : pc'[d] = pc[d] /\ gate'[d] = gate[d]
        /\ pc'[c] \in {"close", "finish"}
        /\ UNCHANGED <<login, state, seen>>
    BY ZenonT(30), <2>1, <2>3
  <2>5. \A d \in Controls : pc'[d] \in NotAdded => pc[d] \in NotAdded
    BY ZenonT(30), <2>4
  <2> QED BY <2>2, <2>4, <2>5, <1>a
<1>10. ASSUME CloserRemove PROVE GateOK'
  <2>1. \A r \in RunIDs :
          \/ ctlsByRunID'[r] = NoCtl
          \/ ctlsByRunID'[r] = ctlsByRunID[r] /\ runMu'[r] = runMu[r]
    BY <1>10, CloserRemoveEffect, <1>b DEF CloserOK
  <2>2. UNCHANGED <<login, pc, state, seen, gate>>
    BY <1>10, CloserRemoveEffect
  <2> QED BY SMTT(30), <2>1, <2>2, <1>a
<1>11. ASSUME CloserClose PROVE GateOK'
  BY <1>11 DEF CloserClose, CloseControl, ClosedState, ReplacedState
<1>12. ASSUME NEW c \in Controls, HeartbeatTimeout(c) PROVE GateOK'
  BY SMTT(30), <1>12
     DEF HeartbeatTimeout, CloseControl, ClosedState, ReplacedState
<1>13. ASSUME NEW c \in Controls,
              \/ NewControl(c) \/ AddClosed(c) \/ AddRetry(c)
              \/ WaitForHandoff(c)
       PROVE  GateOK'
  BY SMTT(30), <1>2, <1>13
     DEF NewControl, AddClosed, AddRetry, WaitForHandoff, PCs, LoginPCs, FailPCs
<1>14. ASSUME NEW c \in Controls,
              Activate(c) \/ ActivateFails(c) \/ WriteFails(c)
       PROVE  GateOK'
  BY ZenonT(30), <1>2, <1>14
     DEF Activate, ActivateFails, WriteFails, PCs, LoginPCs, FailPCs
<1>15. ASSUME NEW c \in Controls, Start(c) PROVE GateOK'
  <2>1. /\ pc[c] = "writing" /\ pc' = [pc EXCEPT ![c] = "serving"]
        /\ gate' = [gate EXCEPT ![c] = NoCtl]
        /\ state' = [state EXCEPT ![c] = "running"]
        /\ UNCHANGED <<login, seen, ctlsByRunID, runMu>>
    BY <1>15 DEF Start
  <2>2. \A d \in Controls : state[d] \in {"closing", "closed"}
                              => state'[d] \in {"closing", "closed"}
    <3>1. state[c] = "pending"
      BY <2>1 DEF PhaseOK
    <3> QED BY <2>1, <3>1
  <2>3. \A d \in Controls \ {c} : gate'[d] = gate[d] /\ seen'[d] = seen[d]
    BY <2>1
  <2>4. "serving" \in PCs /\ "serving" \notin LockPCs \cup {"addLock", "replaced"}
        /\ "serving" \notin NotAdded
    BY DEF PCs, LivePCs
  <2> HIDE <1>t DEF GateOK
  <2> QED BY ZenonT(30), <1>2, <2>1, <2>2, <2>3, <2>4
<1>16. ASSUME NEW c \in Controls, WorkerStop(c) \/ Finish(c) PROVE GateOK'
  BY <1>2, <1>16 DEF WorkerStop, Finish, PCs, LivePCs
<1>17. ASSUME NEW c \in Controls, LoginFailed(c) PROVE GateOK'
  BY SMTT(30), <1>2, <1>17
     DEF LoginFailed, CloseControl, ClosedState, ReplacedState, PCs
<1>18. ASSUME NEW c \in Controls,
              DispatcherDone(c) \/ WorkerDrain(c) \/ WorkerRelease(c)
       PROVE  GateOK'
  BY SMTT(30), <1>2, <1>18
     DEF DispatcherDone, WorkerDrain, WorkerRelease, PCs, LivePCs, ExitPCs
<1> HIDE <1>t DEF GateOK
<1>19. ASSUME CloseManager \/ CloserStep PROVE GateOK'
  BY ZenonT(30), <1>1, <1>10, <1>11, <1>19
     DEF CloseManager, CloserStep, CloserRead, CloserDone
<1>20. ASSUME NEW w \in WorkConns, WorkConnStep(w) PROVE GateOK'
  BY ZenonT(30), <1>1, <1>20
     DEF WorkConnStep, GetByID, WorkConnRefused, RegisterWorkConn, GetWorkConn
<1> QED BY <1>1, <1>3, <1>4, <1>5, <1>7, <1>8, <1>9, <1>12, <1>13, <1>14,
           <1>15, <1>16, <1>17, <1>18, <1>19, <1>20
        DEF Next, LoginStep, WorkerStep, Terminated, vars

LEMMA CloserInvStep ==
  ASSUME Core, [Next]_vars
  PROVE  CloserOK'
<1>a. \A c \in Controls : RunOf(c) \in RunIDs
  BY RunOfType DEF Core
<1>b. ASSUME NEW c \in Controls, NEW g, Removal(c, g)
      PROVE  \A r \in RunIDs :
               \/ ctlsByRunID'[r] = NoCtl
               \/ ctlsByRunID'[r] = ctlsByRunID[r] /\ runMu'[r] = runMu[r]
  BY <1>b, RemovalKeeps DEF Core
<1>t. /\ EntryOK /\ PhaseOK /\ GateOK /\ CloserOK
      /\ NoCtl \notin Controls
      /\ pc \in [Controls -> PCs]
      /\ login \in [Controls -> Login]
      /\ ctlsByRunID \in [RunIDs -> CtlOrNone]
      /\ runMu \in [RunIDs -> CtlOrNone]
      /\ closed \in BOOLEAN
      /\ closerTodo \in SUBSET Controls
      /\ closerCtl \in CtlOrNone
  BY ControlConstants
     DEF ControlConstants, Core, TypeOK, SessionTypeOK, ManagerTypeOK
<1> USE <1>t DEF CloserOK, Current, RunOf, CtlOrNone, NotAdded,
        Goto, Unlock, sessionVars, entryVars, closerVars
<1>1. CASE UNCHANGED <<login, pc, ctlsByRunID, runMu, closed, closerVars>>
  BY <1>1
<1>2. ASSUME NEW c \in Controls, NEW p, pc' = [pc EXCEPT ![c] = p],
             p \in NotAdded => pc[c] \in NotAdded,
             UNCHANGED <<login, ctlsByRunID, runMu, closed, closerVars>>
      PROVE  CloserOK'
  BY SMTT(30), <1>2
<1>3. ASSUME NEW c \in Controls, Add(c) PROVE CloserOK'
  BY SMTT(30), <1>3 DEF Add
<1>4. ASSUME NEW c \in Controls, Remove(c) \/ WorkerRemove(c) PROVE CloserOK'
  <2>1. /\ \A r \in RunIDs :
             \/ ctlsByRunID'[r] = NoCtl
             \/ ctlsByRunID'[r] = ctlsByRunID[r] /\ runMu'[r] = runMu[r]
        /\ \E p \in {"close", "finish"} : pc' = [pc EXCEPT ![c] = p]
        /\ UNCHANGED <<login, closed, closerVars>>
    BY ZenonT(30), <1>4, RemoveEffect, <1>b
  <2> QED BY SMTT(60), <2>1, <1>a
<1>5. ASSUME CloserRemove PROVE CloserOK'
  <2>1. /\ \A r \in RunIDs :
             \/ ctlsByRunID'[r] = NoCtl
             \/ ctlsByRunID'[r] = ctlsByRunID[r] /\ runMu'[r] = runMu[r]
        /\ closer = "rmLock" /\ closer' = "close"
        /\ UNCHANGED <<login, pc, closed, closerTodo, closerCtl>>
    BY ZenonT(30), <1>5, CloserRemoveEffect, <1>b
  <2>2. ~Current(closerCtl)'
    BY <1>5, <2>1, CloserRemoveEffect, <1>a DEF Removal, Owns, HasRun
  <2> QED BY SMTT(60), <2>1, <2>2, <1>a
<1>6. ASSUME NEW c \in Controls, CloserRead(c) PROVE CloserOK'
  BY SMTT(30), <1>6, <1>a DEF CloserRead, HasRun
<1>7. ASSUME CloseManager PROVE CloserOK'
  <2>1. \A c \in Controls : Current(c) => pc[c] \notin NotAdded
    BY SMTT(30), <1>a DEF EntryOK, PhaseOK
  <2> QED BY SMTT(30), <1>7, <2>1 DEF CloseManager
<1>8. ASSUME CloserClose PROVE CloserOK'
  BY SMTT(30), <1>8 DEF CloserClose, CloseControl
<1>9. ASSUME CloserDone PROVE CloserOK'
  BY SMTT(30), <1>9 DEF CloserDone
<1>10. ASSUME NEW c \in Controls, NEW from, NEW to, NEW b, NEW giveUp,
              to \notin NotAdded, giveUp \notin NotAdded,
              LockRun(c, from, to, b, giveUp)
       PROVE  CloserOK'
  BY SMTT(30), <1>2, <1>10 DEF LockRun
<1> HIDE DEF CloserOK, Core
<1>11. ASSUME NEW c \in Controls, NewControl(c) \/ LoginStep(c)
       PROVE  CloserOK'
  BY ZenonT(30), <1>2, <1>3, <1>4, <1>10, <1>11
     DEF NewControl, LoginStep, AddRead, AddClosed, AddRetry, Replaced,
         WaitForHandoff, ActivateRead, Activate, ActivateFails,
         CompleteLoginRead, CompleteLogin, Start, WriteFails, RemoveRead,
         LoginFailed
<1>12. ASSUME NEW c \in Controls,
              WorkerStep(c) \/ DispatcherDone(c) \/ HeartbeatTimeout(c)
       PROVE  CloserOK'
  BY ZenonT(30), <1>1, <1>2, <1>4, <1>10, <1>12
     DEF WorkerStep, WorkerStop, WorkerDrain, WorkerRelease, WorkerRemoveRead,
         Finish, DispatcherDone, HeartbeatTimeout
<1>13. ASSUME NEW w \in WorkConns, WorkConnStep(w) PROVE CloserOK'
  BY ZenonT(30), <1>1, <1>13
     DEF WorkConnStep, GetByID, WorkConnRefused, RegisterWorkConn, GetWorkConn
<1> QED BY <1>1, <1>5, <1>6, <1>7, <1>8, <1>9, <1>11, <1>12, <1>13
        DEF Next, CloserStep, Terminated, vars

\* A control that answers its login has no live predecessor.
LEMMA WriterIsAlone ==
  ASSUME Core, HandoffOK, NEW c \in Controls, pc[c] = "writing",
         NEW d \in Controls, Live(d), RunOf(d) = RunOf(c)
  PROVE  FALSE
<1>1. Current(c) /\ activated[c] /\ c # d
  BY DEF Core, PhaseOK, Live, LivePCs
<1>2. ~Current(d) /\ ctlsByRunID[RunOf(d)] = c
  BY <1>1 DEF Current
<1> QED BY <1>1, <1>2, ControlConstants DEF HandoffOK, ControlConstants

LEMMA LiveState ==
  ASSUME Core, NEW c \in Controls, Live(c)
  PROVE  state[c] \in {"running", "closing"} /\ pc[c] \notin NotAdded
BY DEF Core, PhaseOK, Live, LivePCs, ExitPCs, NotAdded

LEMMA HandoffStep ==
  ASSUME Core, HandoffOK, OneLive, [Next]_vars
  PROVE  HandoffOK'
<1>a. \A c \in Controls : RunOf(c) \in RunIDs
  BY RunOfType DEF Core
<1>b. ASSUME NEW c \in Controls, NEW g, Removal(c, g)
      PROVE  \A r \in RunIDs :
               \/ ctlsByRunID'[r] = NoCtl
               \/ ctlsByRunID'[r] = ctlsByRunID[r] /\ runMu'[r] = runMu[r]
  BY <1>b, RemovalKeeps DEF Core
<1>t. /\ EntryOK /\ PhaseOK /\ GateOK /\ CloserOK
      /\ NoCtl \notin Controls
      /\ pc \in [Controls -> PCs]
      /\ state \in [Controls -> States]
      /\ login \in [Controls -> Login]
      /\ barrier \in [Controls -> CtlOrNone]
      /\ activated \in [Controls -> BOOLEAN]
      /\ seen \in [Controls -> CtlOrNone]
      /\ ctlsByRunID \in [RunIDs -> CtlOrNone]
      /\ closerCtl \in CtlOrNone
      /\ closed \in BOOLEAN
  BY ControlConstants
     DEF ControlConstants, Core, TypeOK, SessionTypeOK, ManagerTypeOK
<1> USE <1>t DEF HandoffOK, Current, Live, RunOf, CtlOrNone, LivePCs,
        Goto, Unlock, sessionVars, entryVars
<1>1. CASE UNCHANGED <<login, pc, state, barrier, activated, ctlsByRunID, closed>>
  BY <1>1
\* A step of c that does not make it live and leaves no handoff.
<1>2. ASSUME NEW c \in Controls, NEW p, pc' = [pc EXCEPT ![c] = p],
             p \in LivePCs => pc[c] \in LivePCs,
             pc[c] \in {"replaced", "handoff"} => p \in {"replaced", "handoff"},
             \A d \in Controls : state[d] = "pending" /\ Current(d)
                                   => state'[d] = "pending",
             UNCHANGED <<login, barrier, activated, ctlsByRunID, closed>>
      PROVE  HandoffOK'
  <2>1. ASSUME NEW r \in RunIDs, ctlsByRunID[r] # NoCtl
        PROVE  ctlsByRunID[r] \in Controls /\ Current(ctlsByRunID[r])
    BY <2>1 DEF EntryOK
  <2> QED BY <1>2, <2>1, <1>a
<1>3. ASSUME NEW c \in Controls, Add(c) PROVE HandoffOK'
  <2>1. /\ pc[c] = "addLock" /\ ~closed
        /\ \E p \in {"replaced", "handoff"} : pc' = [pc EXCEPT ![c] = p]
        /\ ctlsByRunID' = [ctlsByRunID EXCEPT ![RunOf(c)] = c]
        /\ ctlsByRunID[RunOf(c)] = seen[c]
        /\ barrier' = [barrier EXCEPT ![c] = IF seen[c] = NoCtl THEN NoCtl
                                             ELSE ReplacedBarrier(seen[c])]
        /\ state'[c] = "pending"
        /\ \A d \in Controls : d # c /\ d # seen[c] => state'[d] = state[d]
        /\ UNCHANGED <<login, activated, closed>>
    BY ZenonT(30), <1>3 DEF Add
  <2>2. state[c] = "created" /\ ~activated[c]
    BY <2>1 DEF PhaseOK, NotAdded
  <2>3. ASSUME NEW d \in Controls, Live(d), RunOf(d) = RunOf(c)
        PROVE  barrier'[c] = d
    <3>1. state[d] \in {"running", "closing"}
      BY <2>3, LiveState
    <3>2. seen[c] # NoCtl
      BY <2>1, <2>3
    <3>3. CASE seen[c] = d
      BY <2>1, <3>1, <3>2, <3>3 DEF ReplacedBarrier
    <3>4. CASE seen[c] # d
      BY <2>1, <2>3, <3>2, <3>4, AddNotWriting DEF ReplacedBarrier
    <3> QED BY <3>3, <3>4
  <2>4. ASSUME NEW d \in Controls, Live(d), RunOf(d) # RunOf(c),
               ctlsByRunID[RunOf(d)] \in Controls
        PROVE  LET e == ctlsByRunID[RunOf(d)] IN e # c /\ e # seen[c]
    BY <1>3, <2>2, <2>4, AddNotWriting, <1>a DEF EntryOK
  <2>5. ASSUME NEW d \in Controls, Live(d)' PROVE Live(d) /\ d # c
    BY <2>1, <2>5
  <2> QED BY <2>1, <2>2, <2>3, <2>4, <2>5, <1>a
<1>4. ASSUME NEW c \in Controls, Replaced(c) PROVE HandoffOK'
  <2>1. UNCHANGED state
    BY <1>4 DEF Replaced, GateOK, ReplacedState
  <2> QED BY <1>2, <1>4, <2>1 DEF Replaced
<1>5. ASSUME NEW c \in Controls, WaitForHandoff(c) PROVE HandoffOK'
  <2>1. ASSUME NEW d \in Controls, Live(d), barrier[c] = d PROVE FALSE
    BY <1>5, <2>1, LiveState DEF WaitForHandoff, BarrierOpen
  <2> QED BY <1>5, <2>1, <1>a DEF WaitForHandoff
<1>6. ASSUME NEW c \in Controls, Activate(c) PROVE HandoffOK'
  <2>1. /\ pc[c] = "actLock" /\ pc' = [pc EXCEPT ![c] = "loginRead"]
        /\ activated' = [activated EXCEPT ![c] = TRUE]
        /\ UNCHANGED <<login, state, barrier, ctlsByRunID, closed>>
    BY ZenonT(30), <1>6 DEF Activate
  <2> QED BY <2>1
<1>7. ASSUME NEW c \in Controls, Start(c) PROVE HandoffOK'
  <2>1. Current(c)
    BY <1>7 DEF Start, PhaseOK
  <2>2. \A d \in Controls : Live(d) => RunOf(d) # RunOf(c)
    BY <1>7, WriterIsAlone DEF Start
  <2>3. \A d \in Controls : Live(d) => ctlsByRunID[RunOf(d)] # c
    BY <2>2, <1>a DEF EntryOK
  <2> QED BY <1>7, <2>1, <2>3 DEF Start
<1>8. ASSUME NEW c \in Controls, LoginFailed(c) PROVE HandoffOK'
  BY <1>2, <1>8 DEF LoginFailed, CloseControl, PhaseOK
<1>9. ASSUME NEW c \in Controls, WorkerStop(c) PROVE HandoffOK'
  BY <1>2, <1>9 DEF WorkerStop
<1>10. ASSUME NEW c \in Controls, Finish(c) PROVE HandoffOK'
  BY <1>2, <1>10 DEF Finish, PhaseOK
<1>11. ASSUME NEW c \in Controls, HeartbeatTimeout(c) PROVE HandoffOK'
  BY <1>11 DEF HeartbeatTimeout, CloseControl
<1>12. ASSUME NEW c \in Controls, Remove(c) \/ WorkerRemove(c) PROVE HandoffOK'
  <2>1. /\ Removal(c, gate[c])
        /\ pc[c] \in {"rmLock", "exitLock"}
        /\ \E p \in {"close", "finish"} : pc' = [pc EXCEPT ![c] = p]
        /\ UNCHANGED <<login, state, barrier, activated, closed>>
    BY <1>12, RemoveEffect
  <2>2. \A d \in Controls :
          Live(d) => ctlsByRunID'[RunOf(d)] = ctlsByRunID[RunOf(d)]
    BY <2>1, <1>a DEF Removal, Owns, HasRun
  <2> QED BY <2>1, <2>2
<1>13. ASSUME CloserRemove PROVE HandoffOK'
  <2>1. /\ \A r \in RunIDs : \/ ctlsByRunID'[r] = NoCtl
                             \/ ctlsByRunID'[r] = ctlsByRunID[r]
        /\ UNCHANGED <<login, pc, state, barrier, activated, closed>>
    BY <1>13, CloserRemoveEffect, <1>b DEF CloserOK
  <2>2. closed
    BY <1>13 DEF CloserRemove, CloserOK
  <2> QED BY <2>1, <2>2, <1>a
<1>14. ASSUME CloserClose PROVE HandoffOK'
  BY <1>14, <1>a DEF CloserClose, CloseControl, CloserOK, EntryOK
<1>15. ASSUME CloseManager PROVE HandoffOK'
  BY <1>15 DEF CloseManager
<1>16. ASSUME NEW c \in Controls,
              \/ ActivateRead(c) \/ CompleteLoginRead(c) \/ RemoveRead(c)
              \/ WorkerRemoveRead(c)
       PROVE  HandoffOK'
  <2>1. /\ pc[c] \in {"actRead", "loginRead", "rmRead", "exitRead"}
        /\ \E p \in {"actLock", "loginLock", "rmLock", "exitLock", "rmRead",
                     "close", "finish"} : pc' = [pc EXCEPT ![c] = p]
        /\ UNCHANGED <<login, state, barrier, activated, ctlsByRunID, closed>>
    BY ZenonT(30), <1>16
       DEF ActivateRead, CompleteLoginRead, RemoveRead, WorkerRemoveRead,
                 LockRun
  <2> QED BY <1>2, <2>1
<1> HIDE <1>t DEF HandoffOK
<1>17. ASSUME NEW c \in Controls, NewControl(c) \/ LoginStep(c)
       PROVE  HandoffOK'
  <2>1. ASSUME \/ NewControl(c) \/ AddRead(c) \/ AddClosed(c) \/ AddRetry(c)
               \/ ActivateFails(c) \/ CompleteLogin(c) \/ WriteFails(c)
        PROVE  HandoffOK'
    BY ZenonT(30), <1>2, <2>1
       DEF NewControl, AddRead, AddClosed, AddRetry, ActivateFails,
           CompleteLogin, WriteFails
  <2> QED BY ZenonT(30), <1>3, <1>4, <1>5, <1>6, <1>7, <1>8, <1>12, <1>16,
             <1>17, <2>1
          DEF LoginStep
<1>18. ASSUME NEW c \in Controls,
              WorkerStep(c) \/ DispatcherDone(c) \/ HeartbeatTimeout(c)
       PROVE  HandoffOK'
  <2>1. ASSUME DispatcherDone(c) \/ WorkerDrain(c) \/ WorkerRelease(c)
        PROVE  HandoffOK'
    BY ZenonT(30), <1>2, <2>1 DEF DispatcherDone, WorkerDrain, WorkerRelease
  <2> QED BY ZenonT(30), <1>9, <1>10, <1>11, <1>12, <1>16, <1>18, <2>1
             DEF WorkerStep
<1>19. ASSUME NEW w \in WorkConns, WorkConnStep(w) PROVE HandoffOK'
  BY ZenonT(30), <1>1, <1>19
     DEF WorkConnStep, GetByID, WorkConnRefused, RegisterWorkConn, GetWorkConn
<1>20. ASSUME CloserStep PROVE HandoffOK'
  BY ZenonT(30), <1>1, <1>13, <1>14, <1>20
     DEF CloserStep, CloserRead, CloserDone
<1> QED BY <1>1, <1>15, <1>17, <1>18, <1>19, <1>20 DEF Next, Terminated, vars

LEMMA OneLiveStep ==
  ASSUME Core, HandoffOK, OneLive, [Next]_vars
  PROVE  OneLive'
<1> USE DEF OneLive, Live, RunOf, LivePCs, Goto, Unlock
<1>1. ASSUME \A c \in Controls : Live(c)' => Live(c), UNCHANGED login
      PROVE  OneLive'
  BY <1>1
<1>2. ASSUME NEW c \in Controls, Start(c) PROVE OneLive'
  <2>1. \A d \in Controls : Live(d) => RunOf(d) # RunOf(c)
    BY ZenonT(30), <1>2, WriterIsAlone DEF Start
  <2> QED BY SMTT(30), <1>2, <2>1 DEF Start, Core, TypeOK, SessionTypeOK
<1>3. ASSUME NEW c \in Controls, NEW p, pc' = [pc EXCEPT ![c] = p],
             p \in LivePCs => pc[c] \in LivePCs, UNCHANGED login
      PROVE  OneLive'
  BY SMTT(30), <1>3 DEF Core, TypeOK, SessionTypeOK
<1> HIDE DEF OneLive
<1>4. ASSUME NEW c \in Controls,
             \/ NewControl(c) \/ AddRead(c) \/ AddClosed(c) \/ AddRetry(c)
             \/ Add(c) \/ Replaced(c) \/ WaitForHandoff(c) \/ Activate(c)
             \/ ActivateFails(c) \/ WriteFails(c) \/ LoginFailed(c)
      PROVE  OneLive'
  BY ZenonT(30), <1>3, <1>4
     DEF NewControl, AddRead, AddClosed, AddRetry, Add, Replaced,
         WaitForHandoff, Activate, ActivateFails, WriteFails, LoginFailed
<1>5. ASSUME NEW c \in Controls,
             \/ ActivateRead(c) \/ CompleteLoginRead(c) \/ RemoveRead(c)
             \/ WorkerRemoveRead(c) \/ CompleteLogin(c)
      PROVE  OneLive'
  <2>1. /\ \E p \in {"actLock", "loginLock", "writing", "rmLock", "exitLock",
                     "rmRead", "close", "finish"} : pc' = [pc EXCEPT ![c] = p]
        /\ UNCHANGED login
    BY ZenonT(30), <1>5
       DEF ActivateRead, CompleteLoginRead, RemoveRead, WorkerRemoveRead,
                LockRun, CompleteLogin
  <2> QED BY ZenonT(30), <1>3, <2>1
<1>6. ASSUME NEW c \in Controls,
             \/ DispatcherDone(c) \/ WorkerStop(c) \/ WorkerDrain(c)
             \/ WorkerRelease(c) \/ Finish(c) \/ Remove(c) \/ WorkerRemove(c)
      PROVE  OneLive'
  BY <1>3, <1>6, RemoveEffect
     DEF DispatcherDone, WorkerStop, WorkerDrain, WorkerRelease, Finish
<1>7. CASE UNCHANGED <<login, pc>>
  BY SMTT(30), <1>1, <1>7
<1> QED
  BY ZenonT(30), <1>2, <1>4, <1>5, <1>6, <1>7
     DEF Next, LoginStep, WorkerStep, CloserStep, WorkConnStep, vars,
         HeartbeatTimeout, CloseManager, CloserRead, CloserRemove, CloserClose,
         CloserDone, GetByID, WorkConnRefused, RegisterWorkConn, GetWorkConn,
         Terminated

LEMMA RemovedStep ==
  ASSUME Core, RemovedOK, [Next]_vars
  PROVE  RemovedOK'
<1>b. ASSUME NEW c \in Controls, NEW g, Removal(c, g)
      PROVE  \A d \in Controls :
               Current(d) => d = c \/ ctlsByRunID'[RunOf(d)] = d
  BY <1>b, RemovalTakes DEF Core
<1>t. /\ EntryOK /\ PhaseOK /\ GateOK /\ CloserOK
      /\ NoCtl \notin Controls
      /\ pc \in [Controls -> PCs]
      /\ state \in [Controls -> States]
      /\ login \in [Controls -> Login]
      /\ seen \in [Controls -> CtlOrNone]
      /\ ctlsByRunID \in [RunIDs -> CtlOrNone]
      /\ closerCtl \in CtlOrNone
  BY ControlConstants
     DEF ControlConstants, Core, TypeOK, SessionTypeOK, ManagerTypeOK
<1> USE <1>t DEF Login, RemovedOK, Current, RunOf, CtlOrNone, Goto, Unlock,
        sessionVars, entryVars, closerVars
<1>1. CASE UNCHANGED <<login, pc, state, ctlsByRunID, closerVars>>
  BY <1>1
<1>2. ASSUME NEW c \in Controls, NEW p, pc' = [pc EXCEPT ![c] = p],
             pc[c] # "close",
             UNCHANGED <<login, state, ctlsByRunID, closerVars>>
      PROVE  RemovedOK'
  BY <1>2
<1>3. ASSUME NEW c \in Controls, Add(c) PROVE RemovedOK'
  <2>1. /\ ctlsByRunID' = [ctlsByRunID EXCEPT ![RunOf(c)] = c]
        /\ \A d \in Controls : pc'[d] = IF d = c THEN pc'[c] ELSE pc[d]
        /\ \A d \in Controls :
             d # c => \/ d = seen[c] /\ state'[d] \in {"closing", "closed"}
                      \/ d # seen[c] /\ state'[d] = state[d]
        /\ ctlsByRunID[RunOf(c)] = seen[c]
        /\ UNCHANGED <<login, closerVars>>
    BY <1>3, StateType DEF Add
  <2> QED BY <2>1
<1>4. ASSUME NEW c \in Controls, Replaced(c) PROVE RemovedOK'
  BY <1>4 DEF Replaced, GateOK, ReplacedState
<1>5. ASSUME NEW c \in Controls, Start(c) PROVE RemovedOK'
  BY <1>5 DEF Start, PhaseOK
<1>6. ASSUME NEW c \in Controls, LoginFailed(c) PROVE RemovedOK'
  <2>1. state'[c] \in {"closing", "closed"}
    BY <1>6, StateType DEF LoginFailed, CloseControl, ClosedState
  <2> QED BY <1>6, <2>1 DEF LoginFailed, CloseControl
<1>7. ASSUME NEW c \in Controls, WorkerStop(c) PROVE RemovedOK'
  BY <1>7 DEF WorkerStop
<1>8. ASSUME NEW c \in Controls, Finish(c) PROVE RemovedOK'
  BY <1>8 DEF Finish
<1>9. ASSUME NEW c \in Controls, HeartbeatTimeout(c) PROVE RemovedOK'
  <2>1. state'[c] \in {"closing", "closed"}
    BY SMTT(30), <1>9, StateType
       DEF HeartbeatTimeout, CloseControl, ClosedState
  <2> QED BY <1>9, <2>1 DEF HeartbeatTimeout, CloseControl
<1>10. ASSUME NEW c \in Controls, Remove(c) \/ WorkerRemove(c)
       PROVE  RemovedOK'
  <2>1. \A d \in Controls : Current(d) => d = c \/ ctlsByRunID'[RunOf(d)] = d
    BY <1>10, RemoveEffect, <1>b
  <2>2. pc'[c] = "close" \/ state[c] = "closing"
    BY SMTT(30), <1>10, RemoveEffect DEF PhaseOK, ExitPCs
  <2>3. /\ \A d \in Controls : d # c => pc'[d] = pc[d]
        /\ UNCHANGED <<login, state, closerVars>>
    BY <1>10, RemoveEffect
  <2>4. pc[c] # "close"
    BY <1>10, RemoveEffect
  <2> QED BY <2>1, <2>2, <2>3, <2>4
<1>11. ASSUME CloserRemove PROVE RemovedOK'
  <2>1. \A d \in Controls :
          Current(d) => d = closerCtl \/ ctlsByRunID'[RunOf(d)] = d
    BY <1>11, CloserRemoveEffect, <1>b DEF CloserOK
  <2>2. /\ closer = "rmLock" /\ closer' = "close"
        /\ UNCHANGED <<login, pc, state, closerCtl>>
    BY <1>11, CloserRemoveEffect
  <2> QED BY <2>1, <2>2
<1>12. ASSUME CloserClose PROVE RemovedOK'
  <2>1. closerCtl \in Controls /\ state'[closerCtl] \in {"closing", "closed"}
    BY <1>12, StateType DEF CloserClose, CloseControl, ClosedState, CloserOK
  <2> QED BY <1>12, <2>1 DEF CloserClose, CloseControl
<1>13. ASSUME CloseManager \/ CloserDone \/ \E c \in Controls : CloserRead(c)
       PROVE  RemovedOK'
  BY ZenonT(30), <1>13 DEF CloseManager, CloserDone, CloserRead
<1>14. ASSUME NEW c \in Controls,
              \/ NewControl(c) \/ AddRead(c) \/ AddClosed(c) \/ AddRetry(c)
              \/ WaitForHandoff(c) \/ Activate(c)
              \/ ActivateFails(c) \/ CompleteLogin(c) \/ WriteFails(c)
       PROVE  RemovedOK'
  BY ZenonT(30), <1>2, <1>14
     DEF NewControl, AddRead, AddClosed, AddRetry, WaitForHandoff, Activate,
         ActivateFails, CompleteLogin, WriteFails
<1>15. ASSUME NEW c \in Controls,
              \/ ActivateRead(c) \/ CompleteLoginRead(c) \/ RemoveRead(c)
              \/ WorkerRemoveRead(c) \/ DispatcherDone(c) \/ WorkerDrain(c)
              \/ WorkerRelease(c)
       PROVE  RemovedOK'
  BY ZenonT(30), <1>2, <1>15
     DEF ActivateRead, CompleteLoginRead, RemoveRead, WorkerRemoveRead,
         LockRun, DispatcherDone, WorkerDrain, WorkerRelease
<1> HIDE <1>t DEF RemovedOK
<1>16. ASSUME NEW c \in Controls,
              NewControl(c) \/ LoginStep(c) \/ WorkerStep(c)
                \/ DispatcherDone(c) \/ HeartbeatTimeout(c)
       PROVE  RemovedOK'
  BY <1>3, <1>4, <1>5, <1>6, <1>7, <1>8, <1>9, <1>10, <1>14, <1>15, <1>16
     DEF LoginStep, WorkerStep
<1> QED
  BY ZenonT(30), <1>1, <1>11, <1>12, <1>13, <1>16
     DEF Next, CloserStep, WorkConnStep, vars, GetByID, WorkConnRefused,
         RegisterWorkConn, GetWorkConn, Terminated

LEMMA GenerationStep ==
  ASSUME Core, GenerationOK, [Next]_vars
  PROVE  GenerationOK'
<1>b. ASSUME NEW c \in Controls, NEW g, Removal(c, g)
      PROVE  \A r \in RunIDs :
               \/ ctlsByRunID'[r] = NoCtl
               \/ ctlsByRunID'[r] = ctlsByRunID[r] /\ runMu'[r] = runMu[r]
  BY <1>b, RemovalKeeps DEF Core
<1> USE ControlConstants DEF ControlConstants, Core, TypeOK, SessionTypeOK,
        ManagerTypeOK, Login, GenerationOK, Current, RunOf, CtlOrNone, sessionVars,
        entryVars
<1>1. ASSUME UNCHANGED <<login, controlID>>,
             \A d \in Controls : Current(d)' => Current(d)
      PROVE  GenerationOK'
  BY ZenonT(30), <1>1
<1>2. ASSUME NEW c \in Controls, Add(c) PROVE GenerationOK'
  <2>1. /\ ctlsByRunID' = [ctlsByRunID EXCEPT ![RunOf(c)] = c]
        /\ controlID' = [controlID EXCEPT ![c] = nextControlID + 1]
        /\ UNCHANGED login
    BY SMTT(30), <1>2 DEF Add, NextID
  <2> QED BY <2>1
<1>3. ASSUME NEW c \in Controls, Remove(c) \/ WorkerRemove(c)
      PROVE  GenerationOK'
  <2>1. \A d \in Controls : Current(d)' => Current(d)
    <3>1. \A r \in RunIDs : ctlsByRunID'[r] \in {NoCtl, ctlsByRunID[r]}
      BY ZenonT(30), <1>3, RemoveEffect, <1>b
    <3>2. UNCHANGED login
      BY <1>3, RemoveEffect
    <3>3. NoCtl \notin Controls /\ \A d \in Controls : RunOf(d) \in RunIDs
      BY RunOfType
    <3> HIDE DEF Core, TypeOK, SessionTypeOK, ManagerTypeOK, Login, GenerationOK
    <3> QED BY <3>1, <3>2, <3>3
  <2> QED BY ZenonT(30), <1>1, <1>3, <2>1, RemoveEffect
<1>4. ASSUME CloserRemove PROVE GenerationOK'
  <2>1. \A d \in Controls : Current(d)' => Current(d)
    <3>1. closerCtl \in Controls /\ Removal(closerCtl, closerGate) /\ UNCHANGED login
      BY <1>4, CloserRemoveEffect DEF CloserOK
    <3>2. \A r \in RunIDs : ctlsByRunID'[r] \in {NoCtl, ctlsByRunID[r]}
      BY ZenonT(30), <3>1, <1>b
    <3>3. NoCtl \notin Controls /\ \A d \in Controls : RunOf(d) \in RunIDs
      BY RunOfType
    <3> HIDE DEF Core, TypeOK, SessionTypeOK, ManagerTypeOK, Login, GenerationOK
    <3> QED BY <3>1, <3>2, <3>3
  <2> QED BY ZenonT(30), <1>1, <1>4, <2>1, CloserRemoveEffect
<1>5. CASE UNCHANGED <<login, controlID, ctlsByRunID>>
  BY <1>1, <1>5
<1> HIDE DEF GenerationOK, Core
<1>6. ASSUME NEW c \in Controls, NewControl(c) \/ LoginStep(c)
      PROVE  GenerationOK'
  BY ZenonT(30), <1>2, <1>3, <1>5, <1>6
     DEF NewControl, LoginStep, AddRead, AddClosed, AddRetry, Replaced,
         WaitForHandoff, ActivateRead, Activate, ActivateFails,
         CompleteLoginRead, CompleteLogin, Start, WriteFails, RemoveRead,
         LoginFailed, LockRun, CloseControl
<1>7. ASSUME NEW c \in Controls,
             WorkerStep(c) \/ DispatcherDone(c) \/ HeartbeatTimeout(c)
      PROVE  GenerationOK'
  BY ZenonT(30), <1>3, <1>5, <1>7
     DEF WorkerStep, WorkerStop, WorkerDrain, WorkerRelease, WorkerRemoveRead,
         Finish, DispatcherDone, HeartbeatTimeout, LockRun, CloseControl
<1>8. ASSUME CloserStep \/ CloseManager PROVE GenerationOK'
  BY ZenonT(30), <1>4, <1>5, <1>8
     DEF CloserStep, CloseManager, CloserRead, CloserClose, CloserDone,
         CloseControl
<1> QED
  BY ZenonT(30), <1>5, <1>6, <1>7, <1>8
     DEF Next, WorkConnStep, vars, GetByID, WorkConnRefused,
         RegisterWorkConn, GetWorkConn, Terminated

LEMMA BarrierStep ==
  ASSUME Core, BarrierOK, [Next]_vars
  PROVE  BarrierOK'
<1>t. /\ EntryOK /\ PhaseOK
      /\ NoCtl \notin Controls
      /\ pc \in [Controls -> PCs]
      /\ state \in [Controls -> States]
      /\ controlID \in [Controls -> 0 .. nextControlID] /\ nextControlID \in Nat
      /\ barrier \in [Controls -> CtlOrNone]
      /\ seen \in [Controls -> CtlOrNone]
      /\ \A c \in Controls : RunOf(c) \in RunIDs
  BY ControlConstants, RunOfType
     DEF ControlConstants, Core, TypeOK, SessionTypeOK
\* No barrier is set, and no state goes back.
<1>1. ASSUME UNCHANGED <<login, controlID, barrier>>,
             \A d \in Controls : state[d] \in {"closing", "closed"}
                                   => state'[d] \in {"closing", "closed"},
             \A d \in Controls : state'[d] = "closing" => pc'[d] \in LivePCs \cup ExitPCs
      PROVE  BarrierOK'
  BY <1>1, <1>t DEF BarrierOK, RunOf, CtlOrNone
<1>2. ASSUME NEW c \in Controls, NEW p, pc' = [pc EXCEPT ![c] = p],
             pc[c] \in LivePCs \cup ExitPCs => p \in LivePCs \cup ExitPCs,
             UNCHANGED <<login, controlID, barrier, state>>
      PROVE  BarrierOK'
  BY <1>1, <1>2, <1>t DEF BarrierOK
<1>3. ASSUME NEW c \in Controls, Add(c) PROVE BarrierOK'
  <2>1. /\ pc[c] = "addLock" /\ seen[c] = ctlsByRunID[RunOf(c)]
        /\ controlID' = [controlID EXCEPT ![c] = nextControlID + 1]
        /\ state' = [d \in Controls |-> IF d = c THEN "pending"
                                         ELSE IF d = seen[c] THEN ReplacedState(state[d])
                                         ELSE state[d]]
        /\ barrier' = [barrier EXCEPT ![c] = IF seen[c] = NoCtl THEN NoCtl
                                              ELSE ReplacedBarrier(seen[c])]
        /\ \A d \in Controls \ {c} : pc'[d] = pc[d]
        /\ UNCHANGED login
    BY <1>3, <1>t DEF Add, NextID, Unlock, Goto
  <2>2. state[c] = "created"
    BY <2>1, <1>t DEF PhaseOK, NotAdded
  <2>3. \A d \in Controls : state[d] \in {"closing", "closed"}
                               => d # c /\ state'[d] \in {"closing", "closed"}
    BY <2>1, <2>2 DEF ReplacedState
  <2>4. \A d \in Controls : state'[d] = "closing" => pc'[d] \in LivePCs \cup ExitPCs
    <3> SUFFICES ASSUME NEW d \in Controls, state'[d] = "closing"
                 PROVE  pc'[d] \in LivePCs \cup ExitPCs
      OBVIOUS
    <3>1. d # c /\ state[d] \in {"running", "closing"}
      BY <2>1, <1>t DEF ReplacedState, States
    <3>2. pc[d] \in LivePCs \cup ExitPCs
      BY <3>1, <1>t DEF BarrierOK, PhaseOK, LivePCs
    <3> QED BY <2>1, <3>1, <3>2
  <2>5. \A d \in Controls \ {c} : barrier[d] # NoCtl =>
          /\ RunOf(barrier[d]) = RunOf(d)
          /\ barrier[d] # c /\ controlID[barrier[d]] < controlID[d]
          /\ state'[barrier[d]] \in {"closing", "closed"}
    BY <2>3, <1>t DEF BarrierOK, CtlOrNone
  <2>6. barrier'[c] # NoCtl =>
          /\ barrier'[c] \in Controls \ {c}
          /\ RunOf(barrier'[c]) = RunOf(c)
          /\ state'[barrier'[c]] \in {"closing", "closed"}
    <3> SUFFICES ASSUME barrier'[c] # NoCtl
                 PROVE  /\ barrier'[c] \in Controls \ {c}
                        /\ RunOf(barrier'[c]) = RunOf(c)
                        /\ state'[barrier'[c]] \in {"closing", "closed"}
      OBVIOUS
    <3>1. /\ seen[c] \in Controls /\ RunOf(seen[c]) = RunOf(c)
          /\ state[seen[c]] \in {"pending", "running", "closing"}
          /\ barrier'[c] = ReplacedBarrier(seen[c])
      BY <2>1, <1>t DEF EntryOK, CtlOrNone
    <3>2. CASE state[seen[c]] = "pending"
      <4>1. barrier'[c] = barrier[seen[c]]
        BY <3>1, <3>2 DEF ReplacedBarrier
      <4> QED BY <2>3, <3>1, <3>2, <4>1, <1>t DEF BarrierOK, CtlOrNone
    <3>3. CASE state[seen[c]] \in {"running", "closing"}
      <4>1. barrier'[c] = seen[c]
        BY <3>1, <3>3 DEF ReplacedBarrier
      <4>2. seen[c] # c /\ state'[seen[c]] = "closing"
        BY <2>1, <2>2, <3>1, <3>3 DEF ReplacedState
      <4> QED BY <3>1, <4>1, <4>2
    <3> QED BY <3>1, <3>2, <3>3
  <2>7. /\ controlID'[c] = nextControlID + 1
        /\ \A d \in Controls \ {c} : controlID'[d] = controlID[d] /\ controlID[d] <= nextControlID
        /\ \A d \in Controls \ {c} : barrier'[d] = barrier[d]
        /\ \A d \in Controls : RunOf(d)' = RunOf(d)
    BY <2>1, <1>t DEF RunOf
  <2>8. \A d \in Controls : barrier'[d] # NoCtl =>
          /\ RunOf(barrier'[d]) = RunOf(d)
          /\ controlID'[barrier'[d]] < controlID'[d]
          /\ state'[barrier'[d]] \in {"closing", "closed"}
    BY <2>5, <2>6, <2>7, <1>t DEF CtlOrNone
  <2>9. \A d \in Controls : barrier'[d] # NoCtl => barrier'[d] \in Controls
    BY <2>6, <2>7, <1>t DEF CtlOrNone
  <2> QED BY <2>4, <2>7, <2>8, <2>9 DEF BarrierOK
<1>4. ASSUME NEW c \in Controls, UNCHANGED <<login, controlID, barrier, pc>>,
             state' = [state EXCEPT ![c] = ReplacedState(@)]
      PROVE  BarrierOK'
  <2>1. \A d \in Controls : state'[d] = state[d] \/ state'[d] = ReplacedState(state[d])
    BY <1>4, <1>t
  <2> QED
    BY <1>1, <1>4, <2>1, <1>t DEF BarrierOK, PhaseOK, ReplacedState, States, LivePCs
<1>5. ASSUME NEW c \in Controls, Replaced(c) \/ LoginFailed(c) PROVE BarrierOK'
  <2>1. \E d \in CtlOrNone : state' = [state EXCEPT ![d] = ReplacedState(@)]
    BY <1>5, <1>t DEF Replaced, LoginFailed, CloseControl, ClosedState, CtlOrNone
  <2>2. /\ pc[c] \in {"replaced", "close"} /\ \A d \in Controls \ {c} : pc'[d] = pc[d]
        /\ UNCHANGED <<login, controlID, barrier>>
    BY <1>5, <1>t DEF Replaced, LoginFailed, CloseControl, Goto
  <2>3. state[c] \notin {"running", "closing"}
    BY <2>2, <1>t DEF BarrierOK, PhaseOK, LivePCs, ExitPCs
  <2>4. \A d \in Controls : state'[d] = state[d] \/ state'[d] = ReplacedState(state[d])
    BY <2>1, <1>t
  <2>5. \A d \in Controls : state'[d] = "closing" => state[d] \in {"running", "closing"}
    BY <2>4, <1>t DEF ReplacedState, States
  <2>6. \A d \in Controls : state[d] \in {"running", "closing"} => pc[d] \in LivePCs \cup ExitPCs
    BY <1>t DEF BarrierOK, PhaseOK, LivePCs
  <2>7. \A d \in Controls : state[d] \in {"closing", "closed"}
                               => state'[d] \in {"closing", "closed"}
    BY <2>4 DEF ReplacedState
  <2> QED
    BY <1>1, <2>2, <2>3, <2>5, <2>6, <2>7
<1>6. ASSUME NEW c \in Controls, Start(c) \/ WorkerStop(c) \/ Finish(c)
      PROVE  BarrierOK'
  <2>1. /\ \A d \in Controls \ {c} : pc'[d] = pc[d] /\ state'[d] = state[d]
        /\ UNCHANGED <<login, controlID, barrier>>
    BY <1>6, <1>t DEF Start, WorkerStop, Finish, Goto, Unlock
  <2>2. /\ state[c] \in {"closing", "closed"} => state'[c] \in {"closing", "closed"}
        /\ state'[c] = "closing" => pc'[c] \in LivePCs
    BY <1>6, <1>t DEF Start, WorkerStop, Finish, Goto, Unlock, PhaseOK, LivePCs, PCs, States
  <2> QED
    BY <1>1, <2>1, <2>2 DEF BarrierOK
<1> HIDE DEF BarrierOK
<1>7. ASSUME NEW c \in Controls, Remove(c) \/ WorkerRemove(c) PROVE BarrierOK'
  <2>1. UNCHANGED <<controlID, barrier, state>>
    BY <1>7 DEF Remove, WorkerRemove, RemoveAt, sessionVars
  <2>2. /\ pc[c] \in {"rmLock", "exitLock"} /\ UNCHANGED login
        /\ pc[c] = "rmLock" => pc' = [pc EXCEPT ![c] = "close"]
        /\ pc[c] = "exitLock" => pc' = [pc EXCEPT ![c] = "finish"]
    BY <1>7 DEF Remove, WorkerRemove, RemoveAt, Unlock, Goto
  <2> QED BY <1>2, <2>1, <2>2 DEF LivePCs, ExitPCs
<1>8. ASSUME NEW c \in Controls,
             \/ ActivateRead(c) \/ CompleteLoginRead(c) \/ RemoveRead(c)
             \/ WorkerRemoveRead(c) \/ CompleteLogin(c)
      PROVE  BarrierOK'
  <2>1. /\ \/ /\ pc[c] \in {"actRead", "loginRead", "rmRead", "loginLock"}
              /\ \E p \in PCs : pc' = [pc EXCEPT ![c] = p]
           \/ /\ pc[c] = "exitRead"
              /\ \E p \in {"exitLock", "finish"} : pc' = [pc EXCEPT ![c] = p]
        /\ UNCHANGED <<login, controlID, barrier, state>>
    BY ZenonT(30), <1>8
       DEF ActivateRead, CompleteLoginRead, RemoveRead, WorkerRemoveRead, LockRun,
           CompleteLogin, Goto, Unlock, sessionVars, PCs, LoginPCs, FailPCs
  <2> QED BY <1>2, <2>1 DEF LivePCs, ExitPCs
<1>9. ASSUME UNCHANGED <<login, controlID, barrier, pc, state>> PROVE BarrierOK'
  BY <1>1, <1>9 DEF BarrierOK
<1>10. ASSUME NEW c \in Controls, NewControl(c) \/ LoginStep(c) PROVE BarrierOK'
  BY ZenonT(30), <1>2, <1>3, <1>5, <1>6, <1>7, <1>8, <1>10
     DEF NewControl, LoginStep, AddRead, AddClosed, AddRetry, WaitForHandoff, Activate,
         ActivateFails, WriteFails, Goto, Unlock, sessionVars, LivePCs, ExitPCs
<1>11. ASSUME NEW c \in Controls,
              WorkerStep(c) \/ DispatcherDone(c) \/ HeartbeatTimeout(c)
       PROVE  BarrierOK'
  BY ZenonT(30), <1>2, <1>4, <1>6, <1>7, <1>8, <1>11
     DEF WorkerStep, WorkerDrain, WorkerRelease, DispatcherDone, HeartbeatTimeout,
         CloseControl, ClosedState, Goto, sessionVars, LivePCs, ExitPCs
<1>12. ASSUME CloserStep \/ CloseManager PROVE BarrierOK'
  <2>1. CASE CloserClose
    <3>1. closerCtl \in Controls
      BY <2>1 DEF CloserClose, Core, CloserOK
    <3> QED BY ZenonT(30), <1>4, <2>1, <3>1 DEF CloserClose, CloseControl, ClosedState
  <2> QED
    BY ZenonT(30), <1>9, <1>12, <2>1
       DEF CloserStep, CloseManager, CloserRead, CloserRemove, CloserDone, sessionVars
<1> QED
  BY ZenonT(30), <1>9, <1>10, <1>11, <1>12
     DEF Next, WorkConnStep, vars, sessionVars, GetByID, WorkConnRefused,
         RegisterWorkConn, GetWorkConn, Terminated

LEMMA InterruptStep ==
  ASSUME Core, InterruptOK, [Next]_vars
  PROVE  InterruptOK'
<1>t. /\ EntryOK /\ PhaseOK /\ GateOK
      /\ NoCtl \notin Controls
      /\ pc \in [Controls -> PCs]
      /\ state \in [Controls -> States]
      /\ interrupted \in [Controls -> BOOLEAN]
      /\ seen \in [Controls -> CtlOrNone]
  BY ControlConstants DEF ControlConstants, Core, TypeOK, SessionTypeOK
\* A control that was told to stop before stays unblocked.
<1>1. ASSUME \A d \in Controls : interrupted[d] => interrupted'[d],
             \A d \in Controls : pc[d] = "replaced" =>
               (pc'[d] = "replaced" /\ seen'[d] = seen[d]) \/ interrupted'[seen[d]],
             \A d \in Controls : state'[d] = "closing" /\ pc'[d] = "serving" =>
               (state[d] = "closing" /\ pc[d] = "serving") \/ Unblocked(d)'
      PROVE  InterruptOK'
  <2>1. ASSUME NEW d \in Controls, Unblocked(d) PROVE Unblocked(d)'
    <3>1. CASE interrupted[d]
      BY <1>1, <3>1 DEF Unblocked
    <3>2. ASSUME NEW e \in Controls, pc[e] = "replaced", seen[e] = d
          PROVE  Unblocked(d)'
      <4>1. (pc'[e] = "replaced" /\ seen'[e] = d) \/ interrupted'[d]
        BY <1>1, <3>2
      <4> QED BY <4>1 DEF Unblocked
    <3> QED BY <2>1, <3>1, <3>2 DEF Unblocked
  <2> QED BY <1>1, <2>1 DEF InterruptOK
<1>2. ASSUME NEW c \in Controls, NEW p, pc' = [pc EXCEPT ![c] = p],
             pc[c] # "replaced", p # "serving",
             \A d \in Controls \ {c} : seen'[d] = seen[d],
             UNCHANGED <<state, interrupted>>
      PROVE  InterruptOK'
  BY <1>1, <1>2, <1>t
<1>3. ASSUME NEW c \in Controls, Add(c) PROVE InterruptOK'
  <2>1. /\ pc[c] = "addLock"
        /\ state' = [d \in Controls |-> IF d = c THEN "pending"
                                         ELSE IF d = seen[c] THEN ReplacedState(state[d])
                                         ELSE state[d]]
        /\ pc' = [pc EXCEPT ![c] = IF seen[c] = NoCtl THEN "handoff" ELSE "replaced"]
        /\ UNCHANGED <<seen, interrupted>>
    BY <1>3 DEF Add, Unlock, Goto
  <2>2. ASSUME NEW d \in Controls, state'[d] = "closing", pc'[d] = "serving"
        PROVE  (state[d] = "closing" /\ pc[d] = "serving") \/ Unblocked(d)'
    <3>1. d # c /\ pc[d] = "serving"
      BY <2>1, <2>2, <1>t
    <3>2. CASE d = seen[c]
      <4>1. pc'[c] = "replaced" /\ seen'[c] = d
        BY <2>1, <3>2, <1>t
      <4> QED BY <4>1 DEF Unblocked
    <3> QED BY <2>1, <2>2, <3>1, <3>2
  <2> QED BY <1>1, <2>1, <2>2, <1>t
<1>4. ASSUME NEW c \in Controls, Replaced(c) PROVE InterruptOK'
  <2>1. /\ seen[c] \in Controls
        /\ state' = [state EXCEPT ![seen[c]] = ReplacedState(@)]
        /\ interrupted' = [interrupted EXCEPT ![seen[c]] = TRUE]
        /\ seen' = [seen EXCEPT ![c] = NoCtl]
        /\ pc' = [pc EXCEPT ![c] = "handoff"]
    BY <1>4, <1>t DEF Replaced, Goto, GateOK
  <2>2. interrupted'[seen[c]] = TRUE /\ \A d \in Controls \ {seen[c]} : state'[d] = state[d]
    BY <2>1, <1>t
  <2> QED BY <1>1, <2>1, <2>2, <1>t DEF Unblocked
<1>5. ASSUME NEW c \in Controls, CloseControl(c), UNCHANGED seen,
             pc' = pc \/ (pc[c] = "close" /\ pc' = [pc EXCEPT ![c] = "rejected"])
      PROVE  InterruptOK'
  <2>1. /\ interrupted'[c] = TRUE
        /\ \A d \in Controls \ {c} : state'[d] = state[d] /\ interrupted'[d] = interrupted[d]
    BY <1>5, <1>t DEF CloseControl
  <2> QED BY <1>1, <1>5, <2>1, <1>t DEF Unblocked
<1>6. ASSUME NEW c \in Controls, Start(c) \/ WorkerStop(c) \/ Finish(c)
      PROVE  InterruptOK'
  <2>1. /\ pc[c] \in {"writing", "stopping", "finish"} /\ UNCHANGED seen
        /\ \A d \in Controls \ {c} : /\ pc'[d] = pc[d] /\ state'[d] = state[d]
                                       /\ interrupted'[d] = interrupted[d]
        /\ interrupted[c] => interrupted'[c]
        /\ ~(state'[c] = "closing" /\ pc'[c] = "serving")
    BY <1>6, <1>t DEF Start, WorkerStop, Finish, Goto, Unlock
  <2> QED BY <1>1, <2>1
<1> HIDE DEF InterruptOK
<1>7. ASSUME NEW c \in Controls, Remove(c) \/ WorkerRemove(c) PROVE InterruptOK'
  <2>1. /\ UNCHANGED <<seen, interrupted, state>>
        /\ pc[c] \in {"rmLock", "exitLock"}
        /\ \E p \in {"close", "finish"} : pc' = [pc EXCEPT ![c] = p]
    BY ZenonT(30), <1>7 DEF Remove, WorkerRemove, RemoveAt, sessionVars, Unlock, Goto
  <2> QED BY <1>2, <2>1
<1>8. ASSUME NEW c \in Controls,
             \/ ActivateRead(c) \/ CompleteLoginRead(c) \/ RemoveRead(c)
             \/ WorkerRemoveRead(c) \/ CompleteLogin(c)
      PROVE  InterruptOK'
  <2>1. /\ pc[c] \in {"actRead", "loginRead", "rmRead", "exitRead", "loginLock"}
        /\ \E p \in {"actLock", "loginLock", "writing", "rmLock", "exitLock", "rmRead",
                      "close", "finish"} : pc' = [pc EXCEPT ![c] = p]
        /\ UNCHANGED <<seen, interrupted, state>>
    BY ZenonT(30), <1>8
       DEF ActivateRead, CompleteLoginRead, RemoveRead, WorkerRemoveRead, LockRun,
           CompleteLogin, Goto, Unlock, sessionVars
  <2> QED BY <1>2, <2>1
<1>9. ASSUME UNCHANGED <<pc, state, interrupted, seen>> PROVE InterruptOK'
  BY <1>1, <1>9
<1>10. ASSUME NEW c \in Controls, AddRead(c) \/ AddClosed(c) PROVE InterruptOK'
  <2>1. /\ pc[c] \in {"addRead", "addLock"}
        /\ \E p \in {"addLock", "rmRead"} : pc' = [pc EXCEPT ![c] = p]
        /\ \A d \in Controls \ {c} : seen'[d] = seen[d]
        /\ UNCHANGED <<interrupted, state>>
    BY <1>10, <1>t DEF AddRead, AddClosed, Goto, Unlock, sessionVars
  <2> QED BY <1>2, <2>1
<1>11. ASSUME NEW c \in Controls, NewControl(c) \/ LoginStep(c) PROVE InterruptOK'
  BY ZenonT(30), <1>2, <1>3, <1>4, <1>5, <1>6, <1>7, <1>8, <1>10, <1>11
     DEF NewControl, LoginStep, AddRetry, WaitForHandoff, Activate, ActivateFails,
         WriteFails, LoginFailed, Goto, Unlock, sessionVars
<1>12. ASSUME NEW c \in Controls,
              WorkerStep(c) \/ DispatcherDone(c) \/ HeartbeatTimeout(c)
       PROVE  InterruptOK'
  BY ZenonT(30), <1>2, <1>5, <1>6, <1>7, <1>8, <1>12
     DEF WorkerStep, WorkerDrain, WorkerRelease, DispatcherDone, HeartbeatTimeout,
         Goto, sessionVars
<1>13. ASSUME CloserStep \/ CloseManager PROVE InterruptOK'
  <2>1. CASE CloserClose
    <3>1. closerCtl \in Controls
      BY <2>1 DEF CloserClose, Core, CloserOK
    <3> QED BY ZenonT(30), <1>5, <2>1, <3>1 DEF CloserClose
  <2> QED
    BY ZenonT(30), <1>9, <1>13, <2>1
       DEF CloserStep, CloseManager, CloserRead, CloserRemove, CloserDone, sessionVars
<1> QED
  BY ZenonT(30), <1>9, <1>11, <1>12, <1>13
     DEF Next, WorkConnStep, vars, sessionVars, GetByID, WorkConnRefused,
         RegisterWorkConn, GetWorkConn, Terminated
=============================================================================
