---------------------------- MODULE ClientProxies ----------------------------
(***************************************************************************)
(* The proxies of one client session: Control in client/control.go, the    *)
(* proxy manager, the wrappers and XTCPProxy in client/proxy, and what the *)
(* server does with their messages.                                        *)
(*                                                                         *)
(* Four kinds of goroutines interleave: the check worker of each wrapper,  *)
(* the read loop of the dispatcher, whoever reloads or closes the control, *)
(* and one handler for each work connection.  NewProxyResp carries a name  *)
(* and nothing else, so the read loop cannot tell whose request a message  *)
(* answers.  The server is a name table; ProxyTable has its details.       *)
(* Messages about different names do not affect each other, so each name   *)
(* has its own queue in either direction.                                  *)
(***************************************************************************)
EXTENDS Naturals, Sequences

CONSTANTS
  Names,      \* proxy names
  Cfgs,       \* configurations a name can have
  NoCfg,      \* the name is not configured
  MaxGen,     \* bound: wrappers made for one name
  MaxSend,    \* bound: NewProxy messages of one wrapper
  WorkConns   \* one for each ReqWorkConn message

ASSUME ClientBounds == MaxGen \in Nat /\ MaxSend \in Nat

Gens == 1..MaxGen
Wrappers == Names \X Gens
None == 0

VARIABLES
  proxies,    \* Manager.proxies: the generation listed for a name
  gen,        \* wrappers made so far for a name
  cfg,        \* Wrapper.Cfg of the listed wrapper
  phase,      \* Wrapper.Phase
  sends,      \* NewProxy messages sent so far
  reading,    \* what the read loop has looked up and not yet applied
  conn,       \* the control connection
  worker,     \* Control.worker
  closing,    \* GracefulClose has been called
  up, down,   \* requests to the server and answers to the client, by name
  reg,        \* the server's name table: the generation registered
  refused,    \* the server's last answer to the wrapper was an error
  wc,         \* where the handler of a work connection is
  serves,     \* the name the server gave it, then the wrapper looked up
  report      \* the NatHoleReport it has sent

wrapperVars == <<proxies, gen, cfg, phase, sends>>
sessionVars == <<reading, conn, worker, closing>>
netVars == <<up, down, reg, refused>>
workVars == <<wc, serves, report>>
clientVars == <<wrapperVars, sessionVars, netVars, workVars>>

Phases == {"none", "new", "wait start", "start error", "running", "closed"}
NewProxy(g) == [type |-> "new", gen |-> g]
CloseProxy == [type |-> "close", gen |-> None]
Requests == {NewProxy(g) : g \in Gens} \cup {CloseProxy}

\* A handler in one of these reads from the server and has no deadline.
Waiting == {"asked", "started"}

(***************************************************************************)
(* Types; the wrapper listed for a name is the only one that has not been  *)
(* stopped, whatever answers the read loop was about to apply.             *)
(***************************************************************************)
ClientTypeOK ==
  /\ proxies \in [Names -> Gens \cup {None}]
  /\ gen \in [Names -> Gens \cup {None}]
  /\ cfg \in [Names -> Cfgs \cup {NoCfg}]
  /\ phase \in [Wrappers -> Phases]
  /\ sends \in [Wrappers -> 0..MaxSend]
  /\ reading \in {<<>>} \cup (Wrappers \X BOOLEAN)
  /\ conn \in {"open", "closed"}
  /\ worker \in {"run", "ended", "done"}
  /\ closing \in BOOLEAN
  /\ up \in [Names -> Seq(Requests)]
  /\ down \in [Names -> Seq(BOOLEAN)]
  /\ reg \in [Names -> Gens \cup {None}]
  /\ refused \in [Wrappers -> BOOLEAN]
  /\ \A w \in Wrappers :
       phase[w] \notin {"none", "closed"} <=> proxies[w[1]] = w[2]

ClientInit ==
  /\ proxies = [n \in Names |-> None]
  /\ gen = [n \in Names |-> None]
  /\ cfg = [n \in Names |-> NoCfg]
  /\ phase = [w \in Wrappers |-> "none"]
  /\ sends = [w \in Wrappers |-> 0]
  /\ reading = <<>>
  /\ conn = "open"
  /\ worker = "run"
  /\ closing = FALSE
  /\ up = [n \in Names |-> <<>>]
  /\ down = [n \in Names |-> <<>>]
  /\ reg = [n \in Names |-> None]
  /\ refused = [w \in Wrappers |-> FALSE]
  /\ wc = [k \in WorkConns |-> "none"]
  /\ serves = [k \in WorkConns |-> <<>>]
  /\ report = [k \in WorkConns |-> "none"]

-----------------------------------------------------------------------------
(* The manager.  Its lock is held for a whole UpdateAll or Close.          *)

Listed(S) == {<<n, proxies[n]>> : n \in {m \in S : proxies[m] # None}}

\* What is sent on a closed connection is dropped.
Sent(S, m) ==
  up' = [n \in Names |-> IF n \in S /\ conn = "open" THEN Append(up[n], m) ELSE up[n]]

CloseEvent_NotSent(S) == UNCHANGED up

\* Wrapper.close
CloseEvent(S) == Sent({n \in S : proxies[n] # None}, CloseProxy)

Stopped_KeepsPhase(S) == phase

\* Stop, but for the CloseProxy it sends.
Stopped(S) == [w \in Wrappers |-> IF w \in Listed(S) THEN "closed" ELSE phase[w]]

\* A reload, or the first list a control gets.  It is not refused after the
\* session has ended.
UpdateAll(c) ==
  LET removed == {n \in Names : proxies[n] # None /\ cfg[n] # c[n]}
      added == {n \in Names : c[n] # NoCfg /\ (proxies[n] = None \/ n \in removed)}
      fresh == {<<n, gen[n] + 1>> : n \in added}
  IN /\ \A n \in added : gen[n] < MaxGen
     /\ gen' = [n \in Names |-> IF n \in added THEN gen[n] + 1 ELSE gen[n]]
     /\ proxies' = [n \in Names |-> IF n \in added THEN gen[n] + 1
                                    ELSE IF n \in removed THEN None ELSE proxies[n]]
     /\ phase' = [w \in Wrappers |-> IF w \in fresh THEN "new" ELSE Stopped(removed)[w]]
     /\ cfg' = c
     /\ CloseEvent(removed)
     /\ UNCHANGED <<sends, sessionVars, down, reg, refused, workVars>>

\* Manager.Close
CloseManager ==
  /\ proxies' = [n \in Names |-> None]
  /\ cfg' = [n \in Names |-> NoCfg]
  /\ phase' = Stopped(Names)
  /\ CloseEvent(Names)
  /\ UNCHANGED <<gen, sends, down, reg, refused, workVars>>

\* checkWorker: the first request, and a retry after either timeout.
CheckWorker(w) ==
  /\ phase[w] \in {"new", "wait start", "start error"}
  /\ sends[w] < MaxSend
  /\ sends' = [sends EXCEPT ![w] = @ + 1]
  /\ phase' = [phase EXCEPT ![w] = "wait start"]
  /\ Sent({w[1]}, NewProxy(w[2]))
  /\ UNCHANGED <<proxies, gen, cfg, sessionVars, down, reg, refused, workVars>>

-----------------------------------------------------------------------------
(* The session.                                                            *)

\* handleNewProxyResp up to the lookup in StartProxy; an answer for a name
\* that is not listed is dropped.
StartProxy(n) ==
  /\ worker = "run"
  /\ reading = <<>>
  /\ down[n] # <<>>
  /\ down' = [down EXCEPT ![n] = Tail(@)]
  /\ reading' = IF proxies[n] = None THEN <<>> ELSE <<<<n, proxies[n]>>, Head(down[n])>>
  /\ UNCHANGED <<wrapperVars, conn, worker, closing, up, reg, refused, workVars>>

SetRunningStatus_AnyPhase ==
  /\ reading # <<>>
  /\ phase' = [phase EXCEPT ![reading[1]] = IF reading[2] THEN "running" ELSE "start error"]
  /\ reading' = <<>>
  /\ UNCHANGED <<proxies, gen, cfg, sends, conn, worker, closing, netVars, workVars>>

SetRunningStatus ==
  /\ reading # <<>>
  /\ phase' = [phase EXCEPT ![reading[1]] =
                 IF @ # "wait start" THEN @ ELSE IF reading[2] THEN "running" ELSE "start error"]
  /\ reading' = <<>>
  /\ UNCHANGED <<proxies, gen, cfg, sends, conn, worker, closing, netVars, workVars>>

\* A network failure, or the server closes the connection.
LoseConn ==
  /\ conn = "open"
  /\ conn' = "closed"
  /\ UNCHANGED <<wrapperVars, reading, worker, closing, netVars, workVars>>

\* handlePong with an error runs in the read loop.
HandlePong == worker = "run" /\ reading = <<>> /\ LoseConn

\* The timeout check stops with the control.
HeartbeatWorker == worker # "done" /\ LoseConn

\* The dispatcher ends when a read fails; answers not yet read are lost.
DispatcherDone ==
  /\ worker = "run" /\ conn = "closed" /\ reading = <<>>
  /\ worker' = "ended"
  /\ down' = [n \in Names |-> <<>>]
  /\ UNCHANGED <<wrapperVars, reading, conn, closing, up, reg, refused, workVars>>

\* The rest of worker.
Worker ==
  /\ worker = "ended"
  /\ worker' = "done"
  /\ CloseManager
  /\ UNCHANGED <<reading, conn, closing>>

\* GracefulClose: the manager first, then, after a delay, the session.
GracefulClose ==
  /\ ~closing \/ \E n \in Names : proxies[n] # None
  /\ closing' = TRUE
  /\ CloseManager
  /\ UNCHANGED <<reading, conn, worker>>

CloseSession == closing /\ LoseConn

-----------------------------------------------------------------------------
(* The server, one request at a time.                                      *)

\* A name in use is refused, and a free one may be (a limit, a bad request,
\* another client that holds it).
HandleNewProxy(n) ==
  /\ up[n] # <<>> /\ Head(up[n]).type = "new"
  /\ up' = [up EXCEPT ![n] = Tail(@)]
  /\ LET g == Head(up[n]).gen
     IN \E ok \in BOOLEAN :
          /\ ok => reg[n] = None
          /\ reg' = IF ok THEN [reg EXCEPT ![n] = g] ELSE reg
          /\ refused' = [refused EXCEPT ![<<n, g>>] = ~ok]
          /\ down' = IF conn = "open" THEN [down EXCEPT ![n] = Append(@, ok)] ELSE down
  /\ UNCHANGED <<wrapperVars, sessionVars, workVars>>

HandleCloseProxy(n) ==
  /\ up[n] # <<>> /\ Head(up[n]).type = "close"
  /\ up' = [up EXCEPT ![n] = Tail(@)]
  /\ reg' = [reg EXCEPT ![n] = None]
  /\ UNCHANGED <<wrapperVars, sessionVars, down, refused, workVars>>

\* The server's control ends: what it had not read is lost, and it closes its
\* proxies and the work connections nobody took.
ServerEnds ==
  /\ conn = "closed"
  /\ \/ \E n \in Names : up[n] # <<>> \/ reg[n] # None
     \/ \E k \in WorkConns : wc[k] \in Waiting
  /\ up' = [n \in Names |-> <<>>]
  /\ reg' = [n \in Names |-> None]
  /\ wc' = [k \in WorkConns |-> IF wc[k] \in Waiting THEN "closed" ELSE wc[k]]
  /\ UNCHANGED <<wrapperVars, sessionVars, down, refused, serves, report>>

-----------------------------------------------------------------------------
(* One handler for each work connection.                                   *)

AtWork(k, from, to) ==
  /\ wc[k] = from
  /\ wc' = [wc EXCEPT ![k] = to]
  /\ UNCHANGED <<wrapperVars, sessionVars, netVars>>

\* handleReqWorkConn up to the read of StartWorkConn.  It runs in a goroutine,
\* which may be late and find the session closed.
HandleReqWorkConn(k) ==
  /\ AtWork(k, "none", "asked")
  /\ UNCHANGED <<serves, report>>

\* The server starts it for a proxy it has.
GetWorkConnFromPool(k) ==
  \E n \in Names :
    /\ reg[n] # None
    /\ AtWork(k, "asked", "named")
    /\ serves' = [serves EXCEPT ![k] = n]
    /\ UNCHANGED report

\* HandleWorkConn: the name may be gone, or be another wrapper's by now.
HandleWorkConn(k) ==
  /\ wc[k] = "named"
  /\ AtWork(k, "named", IF proxies[serves[k]] = None THEN "closed" ELSE "found")
  /\ serves' = [serves EXCEPT ![k] = <<@, proxies[@]>>]
  /\ UNCHANGED report

\* Wrapper.InWorkConn: the phase is read after the lock is released.
InWorkConn(k) ==
  /\ wc[k] = "found"
  /\ AtWork(k, "found", IF phase[serves[k]] = "running" THEN "started" ELSE "closed")
  /\ UNCHANGED <<serves, report>>

\* XTCPProxy.InWorkConn reads the session id, prepares and asks the server.
ReadNatHoleSid(k) == AtWork(k, "started", "prepare") /\ UNCHANGED <<serves, report>>
Prepare(k) == AtWork(k, "prepare", "exchange") /\ UNCHANGED <<serves, report>>
ExchangeInfo(k) == AtWork(k, "exchange", "hole") /\ UNCHANGED <<serves, report>>

MakeHole_SilentFailure(k) ==
  /\ wc[k] = "hole"
  /\ \E ok \in BOOLEAN :
       /\ AtWork(k, "hole", IF ok THEN "tunnel" ELSE "closed")
       /\ report' = [report EXCEPT ![k] = IF ok THEN "success" ELSE @]
  /\ UNCHANGED serves

\* Either way the outcome is reported.
MakeHole(k) ==
  /\ wc[k] = "hole"
  /\ \E ok \in BOOLEAN :
       /\ AtWork(k, "hole", IF ok THEN "tunnel" ELSE "closed")
       /\ report' = [report EXCEPT ![k] = IF ok THEN "success" ELSE "failure"]
  /\ UNCHANGED serves

\* Any step before the hole can fail: the connection is refused or reset, the
\* server answers with an error or not in time.
GiveUp(k) ==
  /\ wc[k] \in {"asked", "started", "prepare", "exchange"}
  /\ AtWork(k, wc[k], "closed")
  /\ UNCHANGED <<serves, report>>

\* listenByKCP or listenByQUIC could not set up the tunnel, or its peer closed
\* it; the end of the session does not.
TunnelEnds(k) == AtWork(k, "tunnel", "closed") /\ UNCHANGED <<serves, report>>

HandlerStep(k) ==
  \/ HandleWorkConn(k) \/ InWorkConn(k) \/ Prepare(k) \/ ExchangeInfo(k) \/ MakeHole(k)

-----------------------------------------------------------------------------
ClientNext ==
  \/ \E c \in [Names -> Cfgs \cup {NoCfg}] : UpdateAll(c)
  \/ \E w \in Wrappers : CheckWorker(w)
  \/ \E n \in Names : StartProxy(n) \/ HandleNewProxy(n) \/ HandleCloseProxy(n)
  \/ SetRunningStatus
  \/ LoseConn \/ HandlePong \/ HeartbeatWorker
  \/ DispatcherDone \/ Worker
  \/ GracefulClose \/ CloseSession
  \/ ServerEnds
  \/ \E k \in WorkConns :
       \/ HandleReqWorkConn(k) \/ GetWorkConnFromPool(k) \/ ReadNatHoleSid(k)
       \/ HandlerStep(k) \/ GiveUp(k) \/ TunnelEnds(k)

\* Goroutines that can run do; the server reads what it is sent and notices a
\* closed connection (its own heartbeat timeout at the latest).  Nothing makes
\* the connection fail, a reload happen or a peer answer.
ClientFairness ==
  /\ \A n \in Names : WF_clientVars(HandleNewProxy(n)) /\ WF_clientVars(HandleCloseProxy(n))
  /\ WF_clientVars(ServerEnds)
  /\ WF_clientVars(SetRunningStatus)
  /\ WF_clientVars(DispatcherDone) /\ WF_clientVars(Worker)
  /\ \A k \in WorkConns : WF_clientVars(HandlerStep(k))

ClientSpec == ClientInit /\ [][ClientNext]_clientVars /\ ClientFairness

-----------------------------------------------------------------------------
\* Nothing about the name is under way, and the session is up.
Quiet(n) == conn = "open" /\ up[n] = <<>> /\ down[n] = <<>> /\ reading = <<>>

(***************************************************************************)
(* Stop sets the phase and sends CloseProxy under the wrapper's lock, which *)
(* the check worker needs to send NewProxy; so no NewProxy of a stopped    *)
(* wrapper follows its CloseProxy, and once the server has read everything *)
(* a registered name is that of the wrapper the manager lists.             *)
(***************************************************************************)
NoOrphanRegistration ==
  \A n \in Names : Quiet(n) /\ reg[n] # None => reg[n] = proxies[n]

(***************************************************************************)
(* A running proxy that the server has not refused is the one the server   *)
(* has registered, however replacements, retries and answers to an earlier *)
(* wrapper of the name interleave.                                         *)
(***************************************************************************)
RunningUnlessRefused ==
  \A w \in Wrappers :
    Quiet(w[1]) /\ phase[w] = "running" => reg[w[1]] = w[2] \/ refused[w]

(***************************************************************************)
(* The registration of a stopped wrapper goes away: by its CloseProxy, or  *)
(* with the session when that message was lost.                            *)
(***************************************************************************)
RemovalReachesServer ==
  \A w \in Wrappers : phase[w] = "closed" /\ reg[w[1]] = w[2] ~> reg[w[1]] # w[2]

(***************************************************************************)
(* After the session has ended no handler of a work connection is left     *)
(* waiting; and one that has begun to make a hole reports the outcome, on  *)
(* which the server bases its next recommendation.                         *)
(***************************************************************************)
WorkConnsSettle ==
  \A k \in WorkConns :
    /\ worker = "done" ~> wc[k] \in {"none", "tunnel", "closed"}
    /\ wc[k] = "hole" ~> report[k] # "none"

=============================================================================
