-------------------------- MODULE NatHoleController --------------------------
(***************************************************************************)
(* The sessions of pkg/nathole/controller.go on top of the proxies: a      *)
(* visitor's session is offered to the loop of the proxy (server/proxy/    *)
(* xtcp.go), which tells the client; the client's answer and the timeout   *)
(* of the visitor race; both peers get a response.                         *)
(*                                                                         *)
(* HandleVisitor and HandleClient run in goroutines of their own           *)
(* (AsyncHandler).  HandleVisitor holds on to the ClientCfg it has looked  *)
(* up, here the proxy that listens on its sidCh, which nobody ever closes. *)
(***************************************************************************)
EXTENDS ProxyTable

CONSTANTS
  Visits,    \* NatHoleVisitor messages, one session each
  NoVisit

ASSUME NatHoleConstants == NoVisit \notin Visits

VARIABLES
  vpc,       \* vpc[v]: where HandleVisitor is
  cfg,       \* cfg[v]: its clientCfg
  job,       \* job[p]: the session the loop of p has received
  client,    \* client[v]: the client's side of the session
  notified,  \* notified[v]: notifyCh holds a token
  clientMsg, \* clientMsg[v]: clientMsg and clientTransporter are set
  answered   \* answered[v]: the peers that a response was sent to

sessionVars == <<vpc, cfg, job, client, notified, clientMsg, answered>>
natHoleVars == <<proxyVars, sessionVars>>

\* Controller.sessions
InSession == {"offer", "wait", "analysis", "respond", "linger"}
sessions == {v \in Visits : vpc[v] \in InSession}

(***************************************************************************)
(* Types; a loop has a session exactly while it is busy.                   *)
(***************************************************************************)
NatHoleTypeOK ==
  /\ vpc \in [Visits -> InSession \cup {"idle", "done"}]
  /\ cfg \in [Visits -> ProxyOrNone]
  /\ job \in [Proxies -> Visits \cup {NoVisit}]
  /\ client \in [Visits -> {"none", "told", "found", "set", "done"}]
  /\ notified \in [Visits -> BOOLEAN]
  /\ clientMsg \in [Visits -> BOOLEAN]
  /\ answered \in [Visits -> SUBSET {"visitor", "client"}]
  /\ \A p \in Proxies : job[p] # NoVisit <=> loop[p] = "busy"

NatHoleInit ==
  /\ ProxyInit
  /\ vpc = [v \in Visits |-> "idle"]
  /\ cfg = [v \in Visits |-> NoProxy]
  /\ job = [p \in Proxies |-> NoVisit]
  /\ client = [v \in Visits |-> "none"]
  /\ notified = [v \in Visits |-> FALSE]
  /\ clientMsg = [v \in Visits |-> FALSE]
  /\ answered = [v \in Visits |-> {}]

-----------------------------------------------------------------------------
\* HandleVisitor looks the name up and enters its session.
HandleVisitor(v, n) ==
  /\ vpc[v] = "idle"
  /\ clientCfgs[n] # NoProxy
  /\ cfg' = [cfg EXCEPT ![v] = clientCfgs[n]]
  /\ vpc' = [vpc EXCEPT ![v] = "offer"]
  /\ UNCHANGED <<proxyVars, job, client, notified, clientMsg, answered>>

\* No such proxy, or a wrong key: an error response and no session.
Refuse(v) ==
  /\ vpc[v] = "idle"
  /\ vpc' = [vpc EXCEPT ![v] = "done"]
  /\ answered' = [answered EXCEPT ![v] = {"visitor"}]
  /\ UNCHANGED <<proxyVars, cfg, job, client, notified, clientMsg>>

\* The send on sidCh meets the loop's receive; also after closeCh is closed.
Receive(p, v) ==
  /\ loop[p] = "select"
  /\ vpc[v] = "offer" /\ cfg[v] = p
  /\ loop' = [loop EXCEPT ![p] = "busy"]
  /\ job' = [job EXCEPT ![p] = v]
  /\ vpc' = [vpc EXCEPT ![v] = "wait"]
  /\ UNCHANGED <<leaseVars, cpc, cur, owner, name, shut, tableVars>>
  /\ UNCHANGED <<cfg, client, notified, clientMsg, answered>>

LoopEnds_OnError(p, told) ==
  /\ loop[p] = "busy"
  /\ client' = IF told THEN [client EXCEPT ![job[p]] = "told"] ELSE client
  /\ loop' = [loop EXCEPT ![p] = IF told THEN "select" ELSE "exited"]
  /\ job' = [job EXCEPT ![p] = NoVisit]
  /\ UNCHANGED <<leaseVars, cpc, cur, owner, name, shut, tableVars>>
  /\ UNCHANGED <<vpc, cfg, notified, clientMsg, answered>>

TellClient_NoTimeout(p, told) ==
  /\ loop[p] = "busy"
  /\ told /\ cpc[owner[p]] \in Handling
  /\ client' = [client EXCEPT ![job[p]] = "told"]
  /\ loop' = [loop EXCEPT ![p] = "select"]
  /\ job' = [job EXCEPT ![p] = NoVisit]
  /\ UNCHANGED <<leaseVars, cpc, cur, owner, name, shut, tableVars>>
  /\ UNCHANGED <<vpc, cfg, notified, clientMsg, answered>>

\* The session ID is written to a work connection, which may have been taken
\* from the pool before the control ended, or there is none in time, or the
\* write fails; the loop goes on with its select.
TellClient(p, told) ==
  /\ loop[p] = "busy"
  /\ client' = IF told THEN [client EXCEPT ![job[p]] = "told"] ELSE client
  /\ loop' = [loop EXCEPT ![p] = "select"]
  /\ job' = [job EXCEPT ![p] = NoVisit]
  /\ UNCHANGED <<leaseVars, cpc, cur, owner, name, shut, tableVars>>
  /\ UNCHANGED <<vpc, cfg, notified, clientMsg, answered>>

LoopExits_ClosesClient(p) ==
  /\ shut[p]
  /\ loop[p] = "select"
  /\ loop' = [loop EXCEPT ![p] = "exited"]
  /\ clientCfgs' = [clientCfgs EXCEPT ![name[p]] = NoProxy]
  /\ UNCHANGED <<leaseVars, cpc, cur, owner, name, shut, pxys, proxies>>
  /\ UNCHANGED sessionVars

\* The select takes closeCh.
LoopExits(p) ==
  /\ shut[p]
  /\ loop[p] = "select"
  /\ loop' = [loop EXCEPT ![p] = "exited"]
  /\ UNCHANGED <<leaseVars, cpc, cur, owner, name, shut, tableVars>>
  /\ UNCHANGED sessionVars

-----------------------------------------------------------------------------
\* The client's NatHoleClient, if it arrives: HandleClient looks the session up
\* and gives up if it is over.  Its goroutine may outlive the control.
HandleClient(v) ==
  /\ client[v] = "told"
  /\ client' = [client EXCEPT ![v] =
                  IF v \in sessions THEN "found" ELSE "done"]
  /\ UNCHANGED <<proxyVars, vpc, cfg, job, notified, clientMsg, answered>>

SetClient(v) ==
  /\ client[v] = "found"
  /\ clientMsg' = [clientMsg EXCEPT ![v] = TRUE]
  /\ client' = [client EXCEPT ![v] = "set"]
  /\ UNCHANGED <<proxyVars, vpc, cfg, job, notified, answered>>

Notify_First(v) ==
  /\ client[v] \in {"found", "set"} /\ ~notified[v]
  /\ notified' = [notified EXCEPT ![v] = TRUE]
  /\ client' = [client EXCEPT ![v] = IF @ = "set" THEN "done" ELSE @]
  /\ UNCHANGED <<proxyVars, vpc, cfg, job, clientMsg, answered>>

\* The non-blocking send on notifyCh.
Notify(v) ==
  /\ client[v] = "set"
  /\ notified' = [notified EXCEPT ![v] = TRUE]
  /\ client' = [client EXCEPT ![v] = "done"]
  /\ UNCHANGED <<proxyVars, vpc, cfg, job, clientMsg, answered>>

-----------------------------------------------------------------------------
\* HandleVisitor is woken up by the client.
Woken(v) ==
  /\ vpc[v] = "wait"
  /\ notified[v]
  /\ notified' = [notified EXCEPT ![v] = FALSE]
  /\ vpc' = [vpc EXCEPT ![v] = "analysis"]
  /\ UNCHANGED <<proxyVars, cfg, job, client, clientMsg, answered>>

\* NatHoleTimeout passes; the session is deleted without a response.
Timeout(v) ==
  /\ vpc[v] = "wait"
  /\ vpc' = [vpc EXCEPT ![v] = "done"]
  /\ UNCHANGED <<proxyVars, cfg, job, client, notified, clientMsg, answered>>

\* The behaviours, or an error, for both peers; see Analyzer.
Analysis(v) ==
  /\ vpc[v] = "analysis"
  /\ vpc' = [vpc EXCEPT ![v] = "respond"]
  /\ UNCHANGED <<proxyVars, cfg, job, client, notified, clientMsg, answered>>

\* The two goroutines of the errgroup, the sender's a second later.
Respond(v, peer) ==
  /\ vpc[v] = "respond"
  /\ peer \notin answered[v]
  /\ answered' = [answered EXCEPT ![v] = @ \cup {peer}]
  /\ vpc' = [vpc EXCEPT ![v] =
               IF answered'[v] = {"visitor", "client"} THEN "linger" ELSE @]
  /\ UNCHANGED <<proxyVars, cfg, job, client, notified, clientMsg>>

\* The session is kept for the reports and then deleted.
EndVisit(v) ==
  /\ vpc[v] = "linger"
  /\ vpc' = [vpc EXCEPT ![v] = "done"]
  /\ UNCHANGED <<proxyVars, cfg, job, client, notified, clientMsg, answered>>

LoopStep(p) ==
  \/ \E v \in Visits : Receive(p, v)
  \/ \E told \in BOOLEAN : TellClient(p, told)
  \/ LoopExits(p)

ClientStep(v) == HandleClient(v) \/ SetClient(v) \/ Notify(v)

VisitStep(v) ==
  \/ Woken(v) \/ Timeout(v) \/ Analysis(v)
  \/ \E peer \in {"visitor", "client"} : Respond(v, peer)
  \/ EndVisit(v)

\* A visitor is left behind when its proxy's loop exits before it is received.
Stranded(v) == vpc[v] = "offer" /\ loop[cfg[v]] = "exited"

AllServed ==
  /\ \A c \in Controls : cpc[c] = "gone"
  /\ \A p \in Proxies : loop[p] \in {"none", "exited"}
  /\ \A v \in Visits : vpc[v] = "done" \/ Stranded(v)
  /\ UNCHANGED natHoleVars

NatHoleNext ==
  \/ \E c \in Controls : ProxyStep(c) /\ UNCHANGED sessionVars
  \/ \E p \in Proxies : LoopStep(p)
  \/ \E v \in Visits :
       \/ Refuse(v) \/ (\E n \in Names : HandleVisitor(v, n))
       \/ ClientStep(v)
       \/ VisitStep(v)
  \/ AllServed

(***************************************************************************)
(* Goroutines that can run do run, timeouts and timers expire.  Clients,   *)
(* visitors and the ends of their connections are not forced.              *)
(***************************************************************************)
NatHoleFairness ==
  /\ \A c \in Controls :
       WF_natHoleVars(HandlerStep(c) /\ UNCHANGED sessionVars)
  /\ \A p \in Proxies :
       /\ WF_natHoleVars(\E v \in Visits : Receive(p, v))
       /\ WF_natHoleVars(TellClient(p, FALSE))
       /\ WF_natHoleVars(LoopExits(p))
  /\ \A v \in Visits :
       /\ WF_natHoleVars(SetClient(v) \/ Notify(v))
       /\ WF_natHoleVars(VisitStep(v))

NatHoleSpec ==
  NatHoleInit /\ [][NatHoleNext]_natHoleVars /\ NatHoleFairness

-----------------------------------------------------------------------------
(***************************************************************************)
(* analysis and the response to the client only run once clientMsg and     *)
(* clientTransporter are set, however the client's answer, the timeout and *)
(* the end of the session interleave.                                      *)
(***************************************************************************)
ClientKnown ==
  \A v \in Visits :
    vpc[v] \in {"analysis", "respond", "linger"} =>
      clientMsg[v] /\ client[v] # "found"

(***************************************************************************)
(* No session is lost between two goroutines.  A visitor in the send on    *)
(* sidCh has a loop to receive it until its proxy is closed; a session is  *)
(* received by the loop of its own proxy only, before its client is told;  *)
(* and a visitor that still waits when HandleClient is through finds the   *)
(* token in notifyCh.                                                      *)
(***************************************************************************)
SessionHandedOver ==
  \A v \in Visits :
    /\ vpc[v] = "offer" => loop[cfg[v]] \in {"select", "busy"} \/ shut[cfg[v]]
    /\ \A p \in Proxies : job[p] = v => cfg[v] = p /\ client[v] = "none"
    /\ vpc[v] = "wait" /\ client[v] = "done" => notified[v]

(***************************************************************************)
(* The visitors do not disturb the tables: with the work of a loop, and    *)
(* its exit, left out, every step is one of ProxyTable's or none.          *)
(***************************************************************************)
Table ==
  INSTANCE ProxyTable WITH
    loop <- [p \in Proxies |-> IF loop[p] = "none" THEN "none" ELSE "select"]

ImplementsProxyTable == Table!ProxySpec

(***************************************************************************)
(* An open proxy takes every visitor that has been matched with it, and a  *)
(* matched visitor's session ends unless the proxy is closed first.  A     *)
(* visitor that is still in the send on sidCh when the loop exits is       *)
(* stranded: nothing closes sidCh and the send has no timeout.             *)
(***************************************************************************)
SessionsEnd ==
  \A v \in Visits :
    (v \in sessions) ~> (vpc[v] = "done" \/ (vpc[v] = "offer" /\ shut[cfg[v]]))

(***************************************************************************)
(* The loop of a closed proxy exits, whatever it was doing and however     *)
(* many visitors still hold the proxy's ClientCfg.                         *)
(***************************************************************************)
LoopsEnd == \A p \in Proxies : shut[p] ~> (loop[p] = "exited")
=============================================================================
