---------------------------- MODULE XTCPVisitor ----------------------------
(***************************************************************************)
(* The visitors of a client: visitor.Manager, and XTCPVisitor with its     *)
(* tunnel session.                                                         *)
(*                                                                         *)
(* A visitor has a goroutine that makes tunnels when told to on the        *)
(* unbuffered startTunnelCh, one for each user connection, and with        *)
(* KeepTunnelOpen one that tries the tunnel now and then.  They share the  *)
(* session, whose RWMutex is held while a stream is being opened.  A step  *)
(* of making a tunnel may fail (how a hole is punched is in HolePunch), a  *)
(* tunnel may break, and the manager may replace or close the visitor.     *)
(***************************************************************************)
EXTENDS Naturals

CONSTANTS
  Names,      \* names in the configuration
  FallbackTo, \* FallbackTo[n]: where n hands its failed connections on
  NoName,
  KeepOpen,   \* the visitors with KeepTunnelOpen
  Bound,      \* the visitors with a BindPort; others serve as fallbacks only
  Users,      \* user connections
  Visitors,   \* visitors that can be started, each once
  Name,       \* their names
  None,
  MaxHole     \* bound: tunnels attempted

ASSUME VisitorConstants ==
  /\ FallbackTo \in [Names -> Names \cup {NoName}] /\ NoName \notin Names
  /\ KeepOpen \subseteq Names /\ Bound \subseteq Names
  /\ Name \in [Visitors -> Names] /\ None \notin Visitors
  /\ MaxHole \in Nat

Holes == 1..MaxHole
NoHole == 0

VARIABLES
  cfgs,       \* Manager.cfgs
  visitors,   \* Manager.visitors
  state,      \* of a visitor: new, up, cancelled (in Close), closed
  loop,       \* where processTunnelStartEvents is
  worker,     \* where keepTunnelOpenWorker is
  hole,       \* the tunnel the loop is making
  session,    \* the tunnel in TunnelSession
  tunnel,     \* of a tunnel: none, made, live, dead or closed
  risky,      \* tunnels installed in a closed visitor, or with a start yet to be sent
  at, user    \* the visitor of a user connection, and where handleConn is

managerVars == <<cfgs, visitors>>
tunnelVars == <<hole, session, tunnel, risky>>
userVars == <<at, user>>
visitorVars == <<managerVars, state, loop, worker, tunnelVars, userVars>>

VisitorInit ==
  /\ cfgs = {}
  /\ visitors = [n \in Names |-> None]
  /\ state = [v \in Visitors |-> "new"]
  /\ loop = [v \in Visitors |-> "none"]
  /\ worker = [v \in Visitors |-> "none"]
  /\ hole = [v \in Visitors |-> NoHole]
  /\ session = [v \in Visitors |-> NoHole]
  /\ tunnel = [h \in Holes |-> "none"]
  /\ risky = {}
  /\ at = [u \in Users |-> None]
  /\ user = [u \in Users |-> "none"]

-----------------------------------------------------------------------------
(* The manager.  Its lock is held while a visitor is being closed.         *)

Locked == \E v \in Visitors : state[v] = "cancelled"

\* XTCPVisitor.Run starts the goroutines.
RunVisitor(v) ==
  /\ state[v] = "new"
  /\ state' = [state EXCEPT ![v] = "up"]
  /\ loop' = [loop EXCEPT ![v] = "select"]
  /\ worker' = [worker EXCEPT ![v] = IF Name[v] \in KeepOpen THEN "first" ELSE "none"]

\* startVisitor.  If the local port is in use nothing is left of the visitor.
StartVisitor(n) ==
  \E v \in Visitors :
     /\ Name[v] = n
     /\ visitors' = [visitors EXCEPT ![n] = v]
     /\ RunVisitor(v)

\* UpdateAll, for an entry that is new; bound: while there are visitors to start.
AddVisitor(n) ==
  /\ ~Locked /\ n \notin cfgs
  /\ \E v \in Visitors : Name[v] = n /\ state[v] = "new"
  /\ cfgs' = cfgs \cup {n}
  /\ \/ StartVisitor(n)
     \/ UNCHANGED <<visitors, state, loop, worker>>
  /\ UNCHANGED <<tunnelVars, userVars>>

\* A tick, which keepVisitorsRunning may take even after Close.
KeepVisitorsRunning(n) ==
  /\ ~Locked /\ n \in cfgs /\ visitors[n] = None
  /\ StartVisitor(n)
  /\ UNCHANGED <<cfgs, tunnelVars, userVars>>

\* UpdateAll, for an entry that is gone or has changed.
RemoveVisitor(n) ==
  /\ ~Locked /\ n \in cfgs
  /\ cfgs' = cfgs \ {n}
  /\ visitors' = [visitors EXCEPT ![n] = None]
  /\ state' = [v \in Visitors |->
       IF v = visitors[n] /\ state[v] = "up" THEN "cancelled" ELSE state[v]]
  /\ UNCHANGED <<loop, worker, tunnelVars, userVars>>

\* Close, for one of the visitors: it stays listed.
CloseManager(n) ==
  /\ ~Locked
  /\ visitors[n] # None /\ state[visitors[n]] = "up"
  /\ state' = [state EXCEPT ![visitors[n]] = "cancelled"]
  /\ UNCHANGED <<managerVars, loop, worker, tunnelVars, userVars>>

-----------------------------------------------------------------------------
(* TunnelSession.                                                          *)

\* Streams are opened under the read lock; whoever closes or replaces the
\* session waits for them, and keeps new ones out meanwhile.
Reading(v) == worker[v] = "opening" \/ \E u \in Users : at[u] = v /\ user[u] = "opening"
Writing(v) ==
  \/ worker[v] = "close" \/ loop[v] = "init" \/ state[v] = "cancelled"
  \/ \E u \in Users : at[u] = v /\ user[u] = "close"

\* OpenConn fails at once without a session or with one that has ended.
HasTunnel(v) == session[v] # NoHole /\ tunnel[session[v]] = "live"

\* The tunnels once the session of v is closed.
WithoutSession(v) == [h \in Holes |-> IF h = session[v] THEN "closed" ELSE tunnel[h]]

\* XTCPVisitor.Close: listeners and context are done with, then the session.
CloseVisitor(v) ==
  /\ state[v] = "cancelled"
  /\ state' = [state EXCEPT ![v] = "closed"]
  /\ ~Reading(v)
  /\ tunnel' = WithoutSession(v)
  /\ session' = [session EXCEPT ![v] = NoHole]
  /\ UNCHANGED <<managerVars, loop, worker, hole, risky, userVars>>

\* The other end of a session is gone.
TunnelBreaks(h) ==
  /\ tunnel[h] = "live" /\ \E v \in Visitors : session[v] = h
  /\ tunnel' = [tunnel EXCEPT ![h] = "dead"]
  /\ UNCHANGED <<managerVars, state, loop, worker, hole, session, risky, userVars>>

-----------------------------------------------------------------------------
(* processTunnelStartEvents and makeNatHole.                               *)

\* The loop takes the event.
Unused == {h \in Holes : tunnel[h] = "none"}
StartEvent(v) ==
  \E h \in Unused :
    /\ \A x \in Unused : h <= x
    /\ loop' = [loop EXCEPT ![v] = "hole"]
    /\ hole' = [hole EXCEPT ![v] = h]
    /\ tunnel' = [tunnel EXCEPT ![h] = "made"]

\* makeNatHole gives up; a socket it has is closed.
GiveUp(v) ==
  /\ loop' = [loop EXCEPT ![v] = "sleep"]
  /\ tunnel' = [tunnel EXCEPT ![hole[v]] = "closed"]
  /\ hole' = [hole EXCEPT ![v] = NoHole]

\* PreCheck, Prepare, ExchangeInfo and MakeHole, then Init up to its lock: each
\* fails or ends in time.
MakeNatHole(v) ==
  /\ loop[v] = "hole"
  /\ \/ loop' = [loop EXCEPT ![v] = "init"] /\ UNCHANGED <<hole, tunnel>>
     \/ GiveUp(v)
  /\ UNCHANGED <<managerVars, state, worker, session, risky, userVars>>

\* Somebody has decided on a start and not sent it yet.
StartDue(v) ==
  \/ worker[v] \in {"first", "send"}
  \/ \E u \in Users : at[u] = v /\ user[u] = "send"

\* Init does not look at the session it replaces, nor whether the visitor has
\* been closed.
InitSession(v) ==
  /\ loop[v] = "init" /\ ~Reading(v)
  /\ session' = [session EXCEPT ![v] = hole[v]]
  /\ tunnel' = [tunnel EXCEPT ![hole[v]] = "live"]
  /\ risky' = IF state[v] = "closed" \/ StartDue(v) THEN risky \cup {hole[v]} ELSE risky
  /\ hole' = [hole EXCEPT ![v] = NoHole]
  /\ loop' = [loop EXCEPT ![v] = "sleep"]
  /\ UNCHANGED <<managerVars, state, worker, userVars>>

\* Ten seconds between two tunnels.
LoopAgain(v) ==
  /\ loop[v] = "sleep"
  /\ loop' = [loop EXCEPT ![v] = "select"]
  /\ UNCHANGED <<managerVars, state, worker, tunnelVars, userVars>>

LoopExits(v) ==
  /\ loop[v] = "select" /\ state[v] \in {"cancelled", "closed"}
  /\ loop' = [loop EXCEPT ![v] = "none"]
  /\ UNCHANGED <<managerVars, state, worker, tunnelVars, userVars>>

TunnelLoop(v) ==
  \/ MakeNatHole(v) \/ InitSession(v) \/ LoopAgain(v) \/ LoopExits(v)

-----------------------------------------------------------------------------
(* getTunnelConn, and who calls it.                                        *)

CloseSession_Skipped(v) == ~Reading(v) /\ UNCHANGED <<session, tunnel>>

\* OpenConn has failed: the session is closed, whichever it is by now ...
CloseSession(v) ==
  /\ ~Reading(v)
  /\ tunnel' = WithoutSession(v)
  /\ session' = [session EXCEPT ![v] = NoHole]

\* ... and the loop told to start if it is waiting for that.
SendStart(v) ==
  IF loop[v] = "select" /\ Unused # {} THEN StartEvent(v)
  ELSE UNCHANGED <<loop, hole, tunnel>>

\* The first start of keepTunnelOpenWorker waits for the loop, and for ever if
\* that has exited.
WorkerFirst(v) ==
  /\ worker[v] = "first"
  /\ worker' = [worker EXCEPT ![v] = "tick"]
  /\ loop[v] = "select" /\ Unused # {}
  /\ StartEvent(v)
  /\ UNCHANGED <<managerVars, state, session, risky, userVars>>

\* The worker and user connections open streams alike: begin with the lock,
\* then succeed, or fail and close the session.
WorkerStep(v, from, to) ==
  /\ worker[v] = from
  /\ worker' = [worker EXCEPT ![v] = to]

WorkerOpens(v) ==
  /\ WorkerStep(v, "tick", IF HasTunnel(v) THEN "opening" ELSE "close")
  /\ ~Writing(v)
  /\ UNCHANGED <<managerVars, state, loop, tunnelVars, userVars>>

\* Without a deadline: it waits for the peer to allow another stream.
WorkerOpened(v, to) ==
  /\ WorkerStep(v, "opening", to)
  /\ to = "close" => ~HasTunnel(v) \/ state[v] # "up"
  /\ UNCHANGED <<managerVars, state, loop, tunnelVars, userVars>>

WorkerCloses(v) ==
  /\ WorkerStep(v, "close", "send")
  /\ CloseSession(v)
  /\ UNCHANGED <<managerVars, state, loop, hole, risky, userVars>>

WorkerSends(v) ==
  /\ WorkerStep(v, "send", "tick")
  /\ SendStart(v)
  /\ UNCHANGED <<managerVars, state, session, risky, userVars>>

WorkerExits(v) ==
  /\ WorkerStep(v, "tick", "none")
  /\ state[v] # "up"
  /\ UNCHANGED <<managerVars, state, loop, tunnelVars, userVars>>

Worker(v) ==
  \/ WorkerFirst(v) \/ WorkerOpens(v) \/ WorkerCloses(v) \/ WorkerSends(v) \/ WorkerExits(v)
  \/ \E to \in {"tick", "close"} : WorkerOpened(v, to)

-----------------------------------------------------------------------------
(* handleConn.                                                             *)

UserStep(u, from, to) ==
  /\ user[u] = from
  /\ user' = [user EXCEPT ![u] = to]
  /\ at' = [at EXCEPT ![u] = IF to = "closed" THEN None ELSE @]

\* A connection arrives at the local port.
Accept(u, v) ==
  /\ Name[v] \in Bound
  /\ user[u] = "none" /\ state[v] = "up"
  /\ user' = [user EXCEPT ![u] = "select"]
  /\ at' = [at EXCEPT ![u] = v]
  /\ UNCHANGED <<managerVars, state, loop, worker, tunnelVars>>

\* openTunnel: twice a second it tries, until its time is up.
TimerFires(u) ==
  /\ UserStep(u, "select", "lock")
  /\ UNCHANGED <<managerVars, state, loop, worker, tunnelVars>>

OpenConn(u) ==
  /\ user[u] = "lock" /\ ~Writing(at[u])
  /\ UserStep(u, "lock", IF HasTunnel(at[u]) THEN "opening" ELSE "close")
  /\ UNCHANGED <<managerVars, state, loop, worker, tunnelVars>>

\* A stream is opened and joined with the connection, or not within the time.
Opened(u) ==
  /\ \E to \in {"joined", "close"} :
       UserStep(u, "opening", to) /\ (to = "joined" => HasTunnel(at[u]))
  /\ UNCHANGED <<managerVars, state, loop, worker, tunnelVars>>

UserCloses(u) ==
  /\ UserStep(u, "close", "send")
  /\ CloseSession(at[u])
  /\ UNCHANGED <<managerVars, state, loop, worker, hole, risky>>

UserSends(u) ==
  /\ UserStep(u, "send", "select")
  /\ SendStart(at[u])
  /\ UNCHANGED <<managerVars, state, worker, session, risky>>

\* The time is up, or the visitor is closed.
OpenTunnelFails(u) ==
  /\ user[u] = "select"
  /\ UserStep(u, "select", IF FallbackTo[Name[at[u]]] = NoName THEN "closed" ELSE "transfer")
  /\ UNCHANGED <<managerVars, state, loop, worker, tunnelVars>>

\* InternalListener.PutConn closes a connection it has no room for.  Where there
\* is no such visitor, or a closed one, handleConn closes it.
PutConn_Drops(v) ==
  IF v # None /\ state[v] = "up" THEN {"queued", "dropped"} ELSE {"closed"}
PutConn(v) ==
  IF v # None /\ state[v] = "up" THEN {"queued", "closed"} ELSE {"closed"}

TransferConn(u) ==
  /\ user[u] = "transfer" /\ ~Locked
  /\ LET v == visitors[FallbackTo[Name[at[u]]]]
     IN \E to \in PutConn(v) :
          /\ user' = [user EXCEPT ![u] = to]
          /\ at' = [at EXCEPT ![u] = IF to = "queued" THEN v ELSE None]
  /\ UNCHANGED <<managerVars, state, loop, worker, tunnelVars>>

\* The accept loop also takes what is left in a closed listener.
AcceptInternal(u) ==
  /\ UserStep(u, "queued", "select")
  /\ UNCHANGED <<managerVars, state, loop, worker, tunnelVars>>

JoinEnds(u) ==
  /\ UserStep(u, "joined", "closed")
  /\ UNCHANGED <<managerVars, state, loop, worker, tunnelVars>>

HandleConn(u) ==
  \/ TimerFires(u) \/ OpenConn(u) \/ Opened(u) \/ UserCloses(u) \/ UserSends(u)
  \/ OpenTunnelFails(u) \/ TransferConn(u) \/ AcceptInternal(u)

-----------------------------------------------------------------------------
VisitorNext ==
  \/ \E n \in Names : AddVisitor(n) \/ KeepVisitorsRunning(n) \/ RemoveVisitor(n) \/ CloseManager(n)
  \/ \E v \in Visitors : CloseVisitor(v) \/ TunnelLoop(v) \/ Worker(v)
  \/ \E h \in Holes : TunnelBreaks(h)
  \/ \E u \in Users : HandleConn(u) \/ JoinEnds(u) \/ \E v \in Visitors : Accept(u, v)

(***************************************************************************)
(* Goroutines run, deadlines pass and a lock that is released again and    *)
(* again is not withheld from anyone.  A worker may wait for a stream as   *)
(* long as the tunnel lasts.                                               *)
(***************************************************************************)
VisitorFairness ==
  /\ \A v \in Visitors :
       /\ WF_visitorVars(CloseVisitor(v)) /\ WF_visitorVars(TunnelLoop(v))
       /\ WF_visitorVars(WorkerCloses(v))
  /\ \A u \in Users :
       /\ WF_visitorVars(Opened(u) \/ UserCloses(u) \/ UserSends(u) \/ AcceptInternal(u))
       /\ SF_visitorVars(OpenConn(u)) /\ SF_visitorVars(TransferConn(u))
       /\ SF_visitorVars(OpenTunnelFails(u))

VisitorSpec == VisitorInit /\ [][VisitorNext]_visitorVars /\ VisitorFairness

-----------------------------------------------------------------------------
(***************************************************************************)
(* An open tunnel is the session of a visitor that will close it, whatever *)
(* the order in which users, the worker and the loop close and make        *)
(* tunnels.  Two kinds are lost at times: one that is installed when the   *)
(* visitor is closed already, and one installed while somebody has yet to  *)
(* send a start, which then makes the tunnel that replaces it.             *)
(***************************************************************************)
TunnelsKept ==
  \A h \in Holes : tunnel[h] \in {"live", "dead"} =>
    \/ \E v \in Visitors : session[v] = h /\ state[v] # "closed"
    \/ h \in risky

(***************************************************************************)
(* A user's connection is joined with a tunnel or closed in the end, by    *)
(* the visitor or the one it falls back to; but not if the worker waits    *)
(* for a stream for ever, with the lock the others need.                   *)
(***************************************************************************)
UsersServed ==
  \A u \in Users :
    (\A v \in Visitors : []<>(worker[v] # "opening"))
      => (user[u] # "none" ~> user[u] \in {"joined", "closed"})

=============================================================================
