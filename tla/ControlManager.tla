--------------------------- MODULE ControlManager ---------------------------
(***************************************************************************)
(* The server's control sessions, server/control.go and the Login and      *)
(* NewWorkConn paths of server/service.go: concurrent logins under one run *)
(* ID replace one another, hand the run over from generation to generation *)
(* and register the client with ClientRegistry.                            *)
(*                                                                         *)
(* A control is one login connection.  The goroutine that handles the      *)
(* login and, once it has succeeded, the worker goroutine take its steps   *)
(* one after the other, so a single program counter pc[c] covers both.     *)
(* Concurrently with them run the other controls, the heartbeat, the       *)
(* handlers of work connections and ControlManager.Close.                  *)
(*                                                                         *)
(* Locks.  A critical section of cm.mu or of a control's lifecycleMu is    *)
(* one step.  A run gate (runMu) is held across steps only while           *)
(* completeLogin writes LoginResp; every other holder takes it, finishes   *)
(* without blocking and releases it, so its whole section is one step that *)
(* waits for the gate to be free.  A gate is named after the control for   *)
(* which Add created it.                                                   *)
(***************************************************************************)
EXTENDS ClientRegistry, FiniteSets

CONSTANTS
  Controls,     \* login connections, in the lifetime of one server
  WorkConns,    \* work connections
  PoolCap,      \* capacity of workConnCh
  NoCtl         \* a nil *Control

ASSUME ControlConstants ==
  /\ NoCtl \notin Controls
  /\ PoolCap \in Nat \ {0}

VARIABLES
  login,               \* login[c]: the identity in c's Login message
  pc,                  \* where c's goroutine is
  state,               \* controlState of c
  controlID,           \* generation number of c, 0 before it is admitted
  nextControlID,       \* the process-wide counter behind it
  barrier,             \* handoffBarrier: the control whose doneCh c awaits
  activated,           \* c is registered and may start
  interrupted,         \* c's connection has been closed by the server
  seen,                \* the entry Add read before waiting for its gate
  gate,                \* the gate c's goroutine waits for or holds
  ctlsByRunID,         \* current control of a run
  runMu,               \* gate of the run's current entry
  registryOnline,      \* the entry's registry state
  registryControlID,
  closed,              \* cm.closed
  closer,              \* where the goroutine in ControlManager.Close is
  closerTodo,          \* the controls it has not come to
  closerCtl,           \* the control it is at
  closerGate,          \* the gate it waits for
  work,                \* work[w]: where the handler of connection w is
  workCtl,             \* the control it found for w's run ID
  pool                 \* pool[c]: contents of c's workConnCh

sessionVars == <<state, controlID, nextControlID, barrier, activated>>
entryVars == <<ctlsByRunID, runMu, registryOnline, registryControlID>>
closerVars == <<closer, closerTodo, closerCtl, closerGate>>
workVars == <<work, workCtl, pool>>
vars == <<registryVars, login, pc, sessionVars, interrupted, seen, gate,
          entryVars, closed, closerVars, workVars>>

LoginPCs == {"addRead", "addLock", "replaced", "handoff", "actRead", "actLock",
             "loginRead", "loginLock", "writing"}
FailPCs == {"rmRead", "rmLock", "close"}
LivePCs == {"serving", "stopping", "draining", "releasing"}
ExitPCs == {"exitRead", "exitLock", "finish"}

PCs == {"idle", "rejected", "stopped"}
         \cup LoginPCs \cup FailPCs \cup LivePCs \cup ExitPCs

CtlOrNone == Controls \cup {NoCtl}

States == {"created", "pending", "running", "closing", "closed"}

SessionTypeOK ==
  /\ login \in [Controls -> Login]
  /\ pc \in [Controls -> PCs]
  /\ state \in [Controls -> States]
  /\ nextControlID \in Nat
  /\ controlID \in [Controls -> 0 .. nextControlID]
  /\ barrier \in [Controls -> CtlOrNone]
  /\ activated \in [Controls -> BOOLEAN]
  /\ interrupted \in [Controls -> BOOLEAN]
  /\ seen \in [Controls -> CtlOrNone]
  /\ gate \in [Controls -> CtlOrNone]

ManagerTypeOK ==
  /\ ctlsByRunID \in [RunIDs -> CtlOrNone]
  /\ runMu \in [RunIDs -> CtlOrNone]
  /\ registryOnline \in [RunIDs -> BOOLEAN]
  /\ registryControlID \in [RunIDs -> Nat]
  /\ closed \in BOOLEAN
  /\ closer \in {"idle", "next", "rmLock", "close", "done"}
  /\ closerTodo \in SUBSET Controls
  /\ closerCtl \in CtlOrNone
  /\ closerGate \in CtlOrNone

WorkTypeOK ==
  /\ work \in [WorkConns -> {"idle", "found", "pooled", "taken", "closed"}]
  /\ workCtl \in [WorkConns -> CtlOrNone]
  /\ pool \in [Controls -> SUBSET WorkConns]

\* The values of the variables; generation numbers come from the counter.
TypeOK == RegistryTypeOK /\ SessionTypeOK /\ ManagerTypeOK /\ WorkTypeOK

Init ==
  /\ RegistryInit
  /\ login \in [Controls -> Login]
  /\ pc = [c \in Controls |-> "idle"]
  /\ state = [c \in Controls |-> "created"]
  /\ controlID = [c \in Controls |-> 0]
  /\ nextControlID = 0
  /\ barrier = [c \in Controls |-> NoCtl]
  /\ activated = [c \in Controls |-> FALSE]
  /\ interrupted = [c \in Controls |-> FALSE]
  /\ seen = [c \in Controls |-> NoCtl]
  /\ gate = [c \in Controls |-> NoCtl]
  /\ ctlsByRunID = [r \in RunIDs |-> NoCtl]
  /\ runMu = [r \in RunIDs |-> NoCtl]
  /\ registryOnline = [r \in RunIDs |-> FALSE]
  /\ registryControlID = [r \in RunIDs |-> 0]
  /\ closed = FALSE
  /\ closer = "idle"
  /\ closerTodo = {}
  /\ closerCtl = NoCtl
  /\ closerGate = NoCtl
  /\ work = [w \in WorkConns |-> "idle"]
  /\ workCtl = [w \in WorkConns |-> NoCtl]
  /\ pool = [c \in Controls |-> {}]

-----------------------------------------------------------------------------
RunOf(c) == login[c].run

Goto(c, p) == pc' = [pc EXCEPT ![c] = p]

\* Release the gate, if one is held, and go on at p.
Unlock(c, p) == Goto(c, p) /\ gate' = [gate EXCEPT ![c] = NoCtl]

\* Nobody is writing a LoginResp under gate m.
Free(m) == m = NoCtl \/ \A d \in Controls : pc[d] = "writing" => gate[d] # m

\* First half of lockCurrentRun, under cm.mu: there is a run to lock.
HasRun(r, allowClosed) == ctlsByRunID[r] # NoCtl /\ (closed => allowClosed)

\* Second half, with the gate g held, and the check that the entry is c's.
Owns(c, g, allowClosed) ==
  /\ HasRun(RunOf(c), allowClosed)
  /\ runMu[RunOf(c)] = g
  /\ ctlsByRunID[RunOf(c)] = c

\* markReplaced: the state it leaves the old control in, the barrier it returns.
ReplacedState(s) ==
  CASE s \in {"created", "pending"} -> "closed"
    [] s = "running" -> "closing"
    [] OTHER -> s

ReplacedBarrier_NotInherited(old) ==
  IF state[old] \in {"created", "pending"} THEN NoCtl ELSE old

ReplacedBarrier(old) ==
  CASE state[old] = "created" -> NoCtl
    [] state[old] = "pending" -> barrier[old]
    [] OTHER -> old

ClosedState_Finished(s) == IF s = "closing" THEN s ELSE "closed"

\* Control.Close: a control without worker is finished on the spot.
ClosedState(s) == ReplacedState(s)

CloseControl_NoInterrupt(c) ==
  /\ state' = [state EXCEPT ![c] = ClosedState(@)]
  /\ UNCHANGED <<interrupted, controlID, nextControlID, barrier, activated>>

CloseControl(c) ==
  /\ state' = [state EXCEPT ![c] = ClosedState(@)]
  /\ interrupted' = [interrupted EXCEPT ![c] = TRUE]
  /\ UNCHANGED <<controlID, nextControlID, barrier, activated>>

GoOffline_OwnID(r) ==
  IF registryOnline[r]
    THEN MarkOffline(r, controlID[ctlsByRunID[r]])
    ELSE UNCHANGED registryVars

\* The registry learns that the run is gone, in the name of the generation
\* that was registered last.
GoOffline(r) ==
  IF registryOnline[r]
    THEN MarkOffline(r, registryControlID[r])
    ELSE UNCHANGED registryVars

\* Remove, once it has established that the run's entry is the caller's.
DeleteEntry(r) ==
  /\ ctlsByRunID' = [ctlsByRunID EXCEPT ![r] = NoCtl]
  /\ runMu' = [runMu EXCEPT ![r] = NoCtl]
  /\ registryOnline' = [registryOnline EXCEPT ![r] = FALSE]
  /\ registryControlID' = [registryControlID EXCEPT ![r] = 0]
  /\ GoOffline(r)

-----------------------------------------------------------------------------
(* RegisterControl: NewControl, Add, WaitForHandoff, Activate.             *)

NewControl(c) ==
  /\ pc[c] = "idle"
  /\ Goto(c, "addRead")
  /\ UNCHANGED <<registryVars, login, sessionVars, interrupted, seen, gate,
                 entryVars, closed, closerVars, workVars>>

AddRead(c) ==
  /\ pc[c] = "addRead"
  /\ seen' = [seen EXCEPT ![c] = ctlsByRunID[RunOf(c)]]
  /\ gate' = [gate EXCEPT ![c] = runMu[RunOf(c)]]
  /\ Goto(c, "addLock")
  /\ UNCHANGED <<registryVars, login, sessionVars, interrupted, entryVars,
                 closed, closerVars, workVars>>

AddClosed(c) ==
  /\ pc[c] = "addLock"
  /\ Free(gate[c])
  /\ closed
  /\ seen' = [seen EXCEPT ![c] = NoCtl]
  /\ Unlock(c, "rmRead")
  /\ UNCHANGED <<registryVars, login, sessionVars, interrupted,
                 entryVars, closed, closerVars, workVars>>

AddRetry(c) ==
  /\ pc[c] = "addLock"
  /\ Free(gate[c])
  /\ ~closed
  /\ ctlsByRunID[RunOf(c)] # seen[c]
  /\ Unlock(c, "addRead")
  /\ UNCHANGED <<registryVars, login, sessionVars, interrupted, seen,
                 entryVars, closed, closerVars, workVars>>

NextID(c) ==
  /\ nextControlID' = nextControlID + 1
  /\ controlID' = [controlID EXCEPT ![c] = nextControlID']

\* Add commits: c is admitted and becomes the run's current control.  admit
\* cannot fail: no other goroutine knows c before it is in the map.
Add(c) ==
  LET r == RunOf(c)
      old == seen[c]
      fresh == old = NoCtl
  IN
  /\ pc[c] = "addLock"
  /\ Free(gate[c])
  /\ ~closed
  /\ ctlsByRunID[r] = old
  /\ NextID(c)
  /\ state' = [d \in Controls |-> IF d = c THEN "pending"
                                  ELSE IF d = old THEN ReplacedState(state[d])
                                  ELSE state[d]]
  /\ barrier' = [barrier EXCEPT ![c] = IF fresh THEN NoCtl ELSE ReplacedBarrier(old)]
  /\ ctlsByRunID' = [ctlsByRunID EXCEPT ![r] = c]
  /\ runMu' = [runMu EXCEPT ![r] = IF fresh THEN c ELSE @]
  /\ Unlock(c, IF fresh THEN "handoff" ELSE "replaced")
  /\ UNCHANGED <<registryVars, login, activated, interrupted, seen,
                 registryOnline, registryControlID, closed, closerVars, workVars>>

Replaced_NoInterrupt(c) ==
  /\ pc[c] = "replaced"
  /\ state' = [state EXCEPT ![seen[c]] = ReplacedState(@)]
  /\ seen' = [seen EXCEPT ![c] = NoCtl]
  /\ Goto(c, "handoff")
  /\ UNCHANGED <<registryVars, login, controlID, nextControlID, barrier,
                 activated, interrupted, gate, entryVars, closed, closerVars,
                 workVars>>

\* Control.Replaced on the predecessor, after Add has released its locks.
Replaced(c) ==
  /\ pc[c] = "replaced"
  /\ state' = [state EXCEPT ![seen[c]] = ReplacedState(@)]
  /\ interrupted' = [interrupted EXCEPT ![seen[c]] = TRUE]
  /\ seen' = [seen EXCEPT ![c] = NoCtl]
  /\ Goto(c, "handoff")
  /\ UNCHANGED <<registryVars, login, controlID, nextControlID, barrier,
                 activated, gate, entryVars, closed, closerVars, workVars>>

BarrierOpen_Closing(c) ==
  barrier[c] # NoCtl => state[barrier[c]] \in {"closing", "closed"}

\* doneCh of the predecessor is closed, or there is none to wait for.
BarrierOpen(c) == barrier[c] # NoCtl => state[barrier[c]] = "closed"

WaitForHandoff(c) ==
  /\ pc[c] = "handoff"
  /\ BarrierOpen(c)
  /\ Goto(c, "actRead")
  /\ UNCHANGED <<registryVars, login, sessionVars, interrupted, seen, gate,
                 entryVars, closed, closerVars, workVars>>

\* lockCurrentRun on c's run: read the gate to wait for, or give up.
LockRun(c, from, to, allowClosed, giveUp) ==
  /\ pc[c] = from
  /\ IF HasRun(RunOf(c), allowClosed)
       THEN /\ gate' = [gate EXCEPT ![c] = runMu[RunOf(c)]]
            /\ Goto(c, to)
       ELSE /\ Goto(c, giveUp)
            /\ UNCHANGED gate
  /\ UNCHANGED <<registryVars, login, sessionVars, interrupted, seen,
                 entryVars, closed, closerVars, workVars>>

ActivateRead(c) == LockRun(c, "actRead", "actLock", FALSE, "rmRead")

MayActivate(c) == Owns(c, gate[c], FALSE) /\ state[c] = "pending"

\* Activate is called once per control, so it never finds c activated.
Activate(c) ==
  /\ pc[c] = "actLock"
  /\ Free(gate[c])
  /\ MayActivate(c)
  /\ ~Conflict(login[c])
  /\ Register(login[c], controlID[c])
  /\ registryOnline' = [registryOnline EXCEPT ![RunOf(c)] = TRUE]
  /\ registryControlID' = [registryControlID EXCEPT ![RunOf(c)] = controlID[c]]
  /\ activated' = [activated EXCEPT ![c] = TRUE]
  /\ Unlock(c, "loginRead")
  /\ UNCHANGED <<login, state, controlID, nextControlID, barrier, interrupted,
                 seen, ctlsByRunID, runMu, closed, closerVars, workVars>>

\* The control was replaced or removed, or its client ID is online elsewhere.
ActivateFails(c) ==
  /\ pc[c] = "actLock"
  /\ Free(gate[c])
  /\ MayActivate(c) => Conflict(login[c])
  /\ Unlock(c, "rmRead")
  /\ UNCHANGED <<registryVars, login, sessionVars, interrupted, seen,
                 entryVars, closed, closerVars, workVars>>

-----------------------------------------------------------------------------
(* completeLogin: the gate stays held while LoginResp is written.          *)

CompleteLoginRead(c) == LockRun(c, "loginRead", "loginLock", FALSE, "rmRead")

MayComplete(c) ==
  Owns(c, gate[c], FALSE) /\ state[c] = "pending" /\ activated[c]

CompleteLogin(c) ==
  /\ pc[c] = "loginLock"
  /\ Free(gate[c])
  /\ IF MayComplete(c)
       THEN Goto(c, "writing") /\ UNCHANGED gate
       ELSE Unlock(c, "rmRead")
  /\ UNCHANGED <<registryVars, login, sessionVars, interrupted, seen,
                 entryVars, closed, closerVars, workVars>>

\* The write succeeded: startLocked, and the worker takes over.
Start(c) ==
  /\ pc[c] = "writing"
  /\ state' = [state EXCEPT ![c] = "running"]
  /\ Unlock(c, "serving")
  /\ UNCHANGED <<registryVars, login, controlID, nextControlID, barrier,
                 activated, interrupted, seen, entryVars, closed, closerVars,
                 workVars>>

WriteFails(c) ==
  /\ pc[c] = "writing"
  /\ Unlock(c, "rmRead")
  /\ UNCHANGED <<registryVars, login, sessionVars, interrupted, seen,
                 entryVars, closed, closerVars, workVars>>

\* The error path of handleConnection: Remove, then Close.
RemoveRead(c) == LockRun(c, "rmRead", "rmLock", TRUE, "close")

RemoveAt(c, from, to) ==
  /\ pc[c] = from
  /\ Free(gate[c])
  /\ IF Owns(c, gate[c], TRUE)
       THEN DeleteEntry(RunOf(c))
       ELSE UNCHANGED <<entryVars, registryVars>>
  /\ Unlock(c, to)
  /\ UNCHANGED <<login, sessionVars, interrupted, seen, closed, closerVars,
                 workVars>>

Remove(c) == RemoveAt(c, "rmLock", "close")

LoginFailed(c) ==
  /\ pc[c] = "close"
  /\ CloseControl(c)
  /\ Goto(c, "rejected")
  /\ UNCHANGED <<registryVars, login, seen, gate, entryVars, closed, closerVars,
                 workVars>>

-----------------------------------------------------------------------------
(* The worker, from the dispatcher's end to finishLocked.                  *)

\* The read loop ends: the peer is gone or the server closed the connection.
DispatcherDone(c) ==
  /\ pc[c] = "serving"
  /\ Goto(c, "stopping")
  /\ UNCHANGED <<registryVars, login, sessionVars, interrupted, seen, gate,
                 entryVars, closed, closerVars, workVars>>

WorkerStop(c) ==
  /\ pc[c] = "stopping"
  /\ state' = [state EXCEPT ![c] = IF @ = "running" THEN "closing" ELSE @]
  /\ interrupted' = [interrupted EXCEPT ![c] = TRUE]
  /\ Goto(c, "draining")
  /\ UNCHANGED <<registryVars, login, controlID, nextControlID, barrier,
                 activated, seen, gate, entryVars, closed, closerVars, workVars>>

\* close(workConnCh), and every connection left in it is closed.
WorkerDrain(c) ==
  /\ pc[c] = "draining"
  /\ work' = [w \in WorkConns |-> IF w \in pool[c] THEN "closed" ELSE work[w]]
  /\ pool' = [pool EXCEPT ![c] = {}]
  /\ Goto(c, "releasing")
  /\ UNCHANGED <<registryVars, login, sessionVars, interrupted, seen, gate,
                 entryVars, closed, closerVars, workCtl>>

\* closeProxy on every proxy of the control.
WorkerRelease(c) ==
  /\ pc[c] = "releasing"
  /\ Goto(c, "exitRead")
  /\ UNCHANGED <<registryVars, login, sessionVars, interrupted, seen, gate,
                 entryVars, closed, closerVars, workVars>>

WorkerRemoveRead(c) == LockRun(c, "exitRead", "exitLock", TRUE, "finish")

WorkerRemove(c) == RemoveAt(c, "exitLock", "finish")

Finish(c) ==
  /\ pc[c] = "finish"
  /\ state' = [state EXCEPT ![c] = "closed"]
  /\ Goto(c, "stopped")
  /\ UNCHANGED <<registryVars, login, controlID, nextControlID, barrier,
                 activated, interrupted, seen, gate, entryVars, closed, closerVars,
                 workVars>>

\* The heartbeat goroutine of a started control finds the last ping too old.
HeartbeatTimeout(c) ==
  /\ pc[c] \in LivePCs
  /\ ~interrupted[c]
  /\ CloseControl(c)
  /\ UNCHANGED <<registryVars, login, pc, seen, gate, entryVars, closed, closerVars,
                 workVars>>

-----------------------------------------------------------------------------
(* ControlManager.Close                                                    *)

CloseManager ==
  /\ closer = "idle"
  /\ closed' = TRUE
  /\ closer' = "next"
  /\ closerTodo' = {c \in Controls : ctlsByRunID[RunOf(c)] = c}
  /\ UNCHANGED <<registryVars, login, pc, sessionVars, interrupted, seen, gate,
                 entryVars, closerCtl, closerGate, workVars>>

CloserRead(c) ==
  /\ closer = "next"
  /\ c \in closerTodo
  /\ closerTodo' = closerTodo \ {c}
  /\ closerCtl' = c
  /\ IF HasRun(RunOf(c), TRUE)
       THEN closer' = "rmLock" /\ closerGate' = runMu[RunOf(c)]
       ELSE closer' = "close" /\ UNCHANGED closerGate
  /\ UNCHANGED <<registryVars, login, pc, sessionVars, interrupted, seen, gate,
                 entryVars, closed, workVars>>

CloserRemove_NoGate ==
  /\ closer = "rmLock"
  /\ IF Owns(closerCtl, closerGate, TRUE)
       THEN DeleteEntry(RunOf(closerCtl))
       ELSE UNCHANGED <<entryVars, registryVars>>
  /\ closer' = "close"
  /\ closerGate' = NoCtl
  /\ UNCHANGED <<login, pc, sessionVars, interrupted, seen, gate, closed,
                 closerTodo, closerCtl, workVars>>

CloserRemove ==
  /\ closer = "rmLock"
  /\ Free(closerGate)
  /\ IF Owns(closerCtl, closerGate, TRUE)
       THEN DeleteEntry(RunOf(closerCtl))
       ELSE UNCHANGED <<entryVars, registryVars>>
  /\ closer' = "close"
  /\ closerGate' = NoCtl
  /\ UNCHANGED <<login, pc, sessionVars, interrupted, seen, gate, closed,
                 closerTodo, closerCtl, workVars>>

CloserClose ==
  /\ closer = "close"
  /\ CloseControl(closerCtl)
  /\ closer' = "next"
  /\ closerCtl' = NoCtl
  /\ UNCHANGED <<registryVars, login, pc, seen, gate, entryVars, closed,
                 closerTodo, closerGate, workVars>>

CloserDone ==
  /\ closer = "next"
  /\ closerTodo = {}
  /\ closer' = "done"
  /\ UNCHANGED <<registryVars, login, pc, sessionVars, interrupted, seen, gate,
                 entryVars, closed, closerTodo, closerCtl, closerGate, workVars>>

-----------------------------------------------------------------------------
(***************************************************************************)
(* Work connections.  GetByID and RegisterWorkConn lock the run one after  *)
(* the other; in between the control found may be replaced or stop.  The   *)
(* lookup of each and its locked half are one step: a control that is      *)
(* current in the second half was current, under the same gate, in the     *)
(* first, because no control becomes current twice.                        *)
(***************************************************************************)
GetByID(w, c) ==
  /\ work[w] = "idle"
  /\ HasRun(RunOf(c), FALSE)
  /\ ctlsByRunID[RunOf(c)] = c
  /\ Free(runMu[RunOf(c)])
  /\ state[c] = "running"
  /\ work' = [work EXCEPT ![w] = "found"]
  /\ workCtl' = [workCtl EXCEPT ![w] = c]
  /\ UNCHANGED <<registryVars, login, pc, sessionVars, interrupted, seen, gate,
                 entryVars, closed, closerVars, pool>>

\* No running control for the run ID, or the message fails verification.
WorkConnRefused(w) ==
  /\ work[w] \in {"idle", "found"}
  /\ work' = [work EXCEPT ![w] = "closed"]
  /\ UNCHANGED <<registryVars, login, pc, sessionVars, interrupted, seen, gate,
                 entryVars, closed, closerVars, workCtl, pool>>

Accepts_AnyState(c) == HasRun(RunOf(c), FALSE) /\ ctlsByRunID[RunOf(c)] = c

Accepts(c) ==
  /\ HasRun(RunOf(c), FALSE)
  /\ ctlsByRunID[RunOf(c)] = c
  /\ state[c] = "running"

\* The connection goes into the channel, or is closed by the caller when c no
\* longer accepts it or the channel is full.
RegisterWorkConn(w) ==
  LET c == workCtl[w] IN
  /\ work[w] = "found"
  /\ HasRun(RunOf(c), FALSE) => Free(runMu[RunOf(c)])
  /\ IF Accepts(c) /\ Cardinality(pool[c]) < PoolCap
       THEN /\ pool' = [pool EXCEPT ![c] = @ \cup {w}]
            /\ work' = [work EXCEPT ![w] = "pooled"]
       ELSE /\ work' = [work EXCEPT ![w] = "closed"]
            /\ UNCHANGED pool
  /\ UNCHANGED <<registryVars, login, pc, sessionVars, interrupted, seen, gate,
                 entryVars, closed, closerVars, workCtl>>

\* GetWorkConn hands a pooled connection to a proxy of the control.
GetWorkConn(c, w) ==
  /\ w \in pool[c]
  /\ pool' = [pool EXCEPT ![c] = @ \ {w}]
  /\ work' = [work EXCEPT ![w] = "taken"]
  /\ UNCHANGED <<registryVars, login, pc, sessionVars, interrupted, seen, gate,
                 entryVars, closed, closerVars, workCtl>>

\* Every connection has been dealt with and the manager is closed.
Terminated ==
  /\ \A c \in Controls : pc[c] \in {"rejected", "stopped"}
  /\ \A w \in WorkConns : work[w] \in {"taken", "closed"}
  /\ closer = "done"
  /\ UNCHANGED vars

LoginStep(c) ==
  \/ AddRead(c) \/ AddClosed(c) \/ AddRetry(c) \/ Add(c) \/ Replaced(c)
  \/ WaitForHandoff(c) \/ ActivateRead(c) \/ Activate(c) \/ ActivateFails(c)
  \/ CompleteLoginRead(c) \/ CompleteLogin(c) \/ Start(c) \/ WriteFails(c)
  \/ RemoveRead(c) \/ Remove(c) \/ LoginFailed(c)

WorkerStep(c) ==
  \/ WorkerStop(c) \/ WorkerDrain(c) \/ WorkerRelease(c)
  \/ WorkerRemoveRead(c) \/ WorkerRemove(c) \/ Finish(c)

CloserStep ==
  \/ \E c \in Controls : CloserRead(c)
  \/ CloserRemove \/ CloserClose \/ CloserDone

WorkConnStep(w) ==
  \/ \E c \in Controls : GetByID(w, c)
  \/ WorkConnRefused(w)
  \/ RegisterWorkConn(w)
  \/ \E c \in Controls : GetWorkConn(c, w)

Next ==
  \/ \E c \in Controls : NewControl(c) \/ LoginStep(c) \/ WorkerStep(c)
                           \/ DispatcherDone(c) \/ HeartbeatTimeout(c)
  \/ CloseManager
  \/ CloserStep
  \/ \E w \in WorkConns : WorkConnStep(w)
  \/ Terminated

Spec == Init /\ [][Next]_vars

(***************************************************************************)
(* Every goroutine that can take a step eventually does: Go's scheduler    *)
(* and mutexes do not starve one, and LoginResp is written under a         *)
(* deadline.  A read loop is bound to end only after the server closed its *)
(* connection.  No login, peer failure, timeout or shutdown has to occur.  *)
(***************************************************************************)
Fairness ==
  /\ \A c \in Controls :
       /\ WF_vars(LoginStep(c))
       /\ WF_vars(WorkerStep(c))
       /\ WF_vars(interrupted[c] /\ DispatcherDone(c))
  /\ WF_vars(CloserStep)

FairSpec == Spec /\ Fairness

-----------------------------------------------------------------------------
Current(c) == ctlsByRunID[RunOf(c)] = c

\* c's worker runs and has not yet closed its proxies.
Live(c) == pc[c] \in LivePCs

\* c's worker has been started.
Started(c) == pc[c] \in LivePCs \cup ExitPCs \cup {"stopped"}

(***************************************************************************)
(* A control that may answer its login (Activate succeeded and it is still *)
(* current) or runs has the run to itself: no other control of the run     *)
(* still holds proxies or work connections.  This is what the handoff      *)
(* barrier is for, through any chain of replaced pending controls.         *)
(***************************************************************************)
ExclusiveRun ==
  \A c, d \in Controls :
    /\ c # d
    /\ RunOf(c) = RunOf(d)
    /\ Live(c)
    => ~Live(d) /\ ~(Current(d) /\ activated[d])

(***************************************************************************)
(* The registry shows a run online only on behalf of the control that is   *)
(* current for it or of the predecessor it is taking over from: the entry  *)
(* knows the generation that has to be taken offline.  Without a current   *)
(* control the run is offline: no interleaving of replacement, removal,    *)
(* failed login and shutdown leaves a ghost.                               *)
(***************************************************************************)
OnlineHasOwner ==
  \A k \in Keys :
    LET r == clients[k].run IN
    clients[k].online =>
      /\ ctlsByRunID[r] # NoCtl
      /\ registryOnline[r]
      /\ clients[k].control = registryControlID[r]

\* Nobody may take over c's registry key: RegisterWithControlID refuses another
\* run only when it has an explicit client ID.
KeyIsOwn(c) ==
  \A d \in Controls :
    RunOf(d) # RunOf(c) /\ KeyOf(login[d]) = KeyOf(login[c]) =>
      EnforceUnique(login[d])

(***************************************************************************)
(* The converse: a current control that completed Activate is registered   *)
(* under its own generation, through replacements, late removals by older  *)
(* generations and logins of other runs that claim the same client ID.     *)
(***************************************************************************)
ActivatedIsOnline ==
  \A c \in Controls :
    Current(c) /\ activated[c] /\ KeyIsOwn(c) =>
      LET info == clients[KeyOf(login[c])] IN
      info.online /\ info.run = RunOf(c) /\ info.control = controlID[c]

(***************************************************************************)
(* No work connection is sent into a closed channel or stays there: once   *)
(* the worker has closed workConnCh the pool is and stays empty.           *)
(***************************************************************************)
ClosedPoolEmpty ==
  \A c \in Controls : pc[c] \in {"releasing", "stopped"} \cup ExitPCs => pool[c] = {}

(***************************************************************************)
(* When ControlManager.Close returns, no control is current or running,    *)
(* including a login whose response was being written when Close began; an *)
(* admitted control that is not closed yet is about to be by its own       *)
(* handler.                                                                *)
(***************************************************************************)
CloseStopsAll ==
  closer = "done" =>
    /\ \A r \in RunIDs : ctlsByRunID[r] = NoCtl
    /\ \A c \in Controls : state[c] # "running"
    /\ \A c \in Controls : state[c] = "pending" => pc[c] = "close"

\* c's connection is closed, or c's successor is about to close it.
Unblocked(c) ==
  interrupted[c] \/ \E d \in Controls : pc[d] = "replaced" /\ seen[d] = c

(***************************************************************************)
(* Nobody waits in vain.  A login that waits for doneCh of a predecessor   *)
(* waits for an older worker of its own run that has been told to stop, so *)
(* no two logins wait for each other, and a worker that has been told to   *)
(* stop and still reads its connection finds it closed, or will once the   *)
(* login that has replaced it comes to Replaced.                           *)
(***************************************************************************)
WaitsForStopping ==
  \A c \in Controls :
    /\ pc[c] = "handoff" /\ ~BarrierOpen(c) =>
         LET b == barrier[c] IN
         /\ RunOf(b) = RunOf(c) /\ controlID[b] < controlID[c]
         /\ state[b] = "closing" /\ Started(b)
    /\ state[c] = "closing" /\ pc[c] = "serving" => Unblocked(c)

(***************************************************************************)
(* The life cycle only moves forward, and a control that has a worker is   *)
(* declared closed (its successor's barrier opens) by the worker's last    *)
(* step only.                                                              *)
(***************************************************************************)
WorkerFinishesLast ==
  [][\A c \in Controls :
       state[c] # "closed" /\ state'[c] = "closed" /\ Started(c) => pc[c] = "finish"]_vars

(***************************************************************************)
(* The resources of a run follow RunLease.                                 *)
(***************************************************************************)
Lease ==
  INSTANCE RunLease WITH
    held <- {<<RunOf(c), controlID[c]>> : c \in {d \in Controls : Live(d)}},
    used <- {<<RunOf(c), controlID[c]>> : c \in {d \in Controls : Started(d)}}

ImplementsLease == Lease!LeaseSpec

(***************************************************************************)
(* Every login is answered, with success or an error: no wait for a        *)
(* predecessor or a gate lasts forever.                                    *)
(***************************************************************************)
LoginsSettle ==
  \A c \in Controls : pc[c] = "addRead" ~> (Started(c) \/ pc[c] = "rejected")

(***************************************************************************)
(* A control that is told to stop (replaced, timed out, shut down) gives   *)
(* its resources back and finishes.                                        *)
(***************************************************************************)
ClosingFinishes ==
  \A c \in Controls : state[c] = "closing" ~> state[c] = "closed"

-----------------------------------------------------------------------------
(***************************************************************************)
(* The parts of the inductive invariant behind the safety properties.      *)
(***************************************************************************)
NotAdded == {"idle", "addRead", "addLock"}
LockPCs == {"actLock", "loginLock", "writing", "rmLock", "exitLock"}

\* An entry belongs to a control of its run that is not closed, and has a gate.
EntryOK ==
  \A r \in RunIDs :
    LET c == ctlsByRunID[r] IN
    c # NoCtl =>
      /\ RunOf(c) = r
      /\ state[c] \in {"pending", "running", "closing"}
      /\ runMu[r] # NoCtl

\* Where a control can be in each state.
PhaseOK ==
  \A c \in Controls :
    /\ pc[c] \in NotAdded => state[c] = "created" /\ ~activated[c]
    /\ pc[c] = "writing" => state[c] = "pending" /\ activated[c] /\ Current(c)
    /\ pc[c] \in {"serving", "stopping"} => state[c] \in {"running", "closing"}
    /\ pc[c] \in {"draining", "releasing"} \cup ExitPCs => state[c] = "closing"
    /\ state[c] = "running" => pc[c] \in {"serving", "stopping"}
    /\ pc[c] = "stopped" => state[c] = "closed"
    /\ pc[c] \in {"close", "rejected", "finish", "stopped"} => ~Current(c)

\* What was read before waiting for a gate still holds if the entry is the same.
GateOK ==
  \A c \in Controls :
    /\ pc[c] \in LockPCs /\ Current(c) => gate[c] = runMu[RunOf(c)]
    /\ pc[c] = "addLock" /\ seen[c] # NoCtl =>
         /\ pc[seen[c]] \notin NotAdded
         /\ ctlsByRunID[RunOf(c)] = seen[c] => gate[c] = runMu[RunOf(c)]
    /\ pc[c] = "replaced" =>
         seen[c] \in Controls /\ state[seen[c]] \in {"closing", "closed"}

\* A worker that still holds resources is current, or is the one its run's
\* current control is waiting for, or the manager is closed.
HandoffOK ==
  \A c \in Controls :
    Live(c) /\ ~Current(c) =>
      LET d == ctlsByRunID[RunOf(c)] IN
      IF d = NoCtl
        THEN closed
        ELSE /\ state[d] = "pending"
             /\ ~activated[d]
             /\ barrier[d] = c
             /\ pc[d] \in {"replaced", "handoff"}

OneLive ==
  \A c, d \in Controls :
    Live(c) /\ Live(d) /\ RunOf(c) = RunOf(d) => c = d

\* ControlManager.Close has yet to remove every control that is still current.
CloserOK ==
  /\ closed <=> closer # "idle"
  /\ closer \in {"rmLock", "close"} => closerCtl \in Controls
  /\ \A c \in closerTodo \cup {closerCtl} : c # NoCtl => pc[c] \notin NotAdded
  /\ closer = "rmLock" /\ Current(closerCtl) =>
       closerGate = runMu[RunOf(closerCtl)]
  /\ closer = "close" => ~Current(closerCtl)
  /\ closer = "done" => closerTodo = {}
  /\ \A c \in Controls :
       closed /\ Current(c) =>
         c \in closerTodo \/ (closer = "rmLock" /\ closerCtl = c)

\* A control leaves the map before it is closed.
RemovedOK ==
  \A c \in Controls :
    state[c] \in {"pending", "running"} =>
      \/ Current(c)
      \/ pc[c] = "close"
      \/ closer = "close" /\ closerCtl = c

\* The current control is the youngest of its run.
GenerationOK ==
  \A c, d \in Controls :
    Current(d) /\ RunOf(c) = RunOf(d) /\ c # d => controlID[c] < controlID[d]

\* A barrier is an older generation of the run that has been told to stop, and
\* only a worker is ever closing.
BarrierOK ==
  \A c \in Controls :
    /\ barrier[c] # NoCtl =>
         /\ RunOf(barrier[c]) = RunOf(c)
         /\ controlID[barrier[c]] < controlID[c]
         /\ state[barrier[c]] \in {"closing", "closed"}
    /\ state[c] = "closing" => pc[c] \in LivePCs \cup ExitPCs

InterruptOK ==
  \A c \in Controls : state[c] = "closing" /\ pc[c] = "serving" => Unblocked(c)

IInv ==
  /\ TypeOK
  /\ EntryOK /\ PhaseOK /\ GateOK
  /\ HandoffOK /\ OneLive
  /\ CloserOK /\ RemovedOK
  /\ GenerationOK
  /\ IndexAgrees /\ NoStaleRecords /\ OnlineHasOwner
=============================================================================
