----------------------------- MODULE ProxyTable -----------------------------
(***************************************************************************)
(* The XTCP proxies of the server: RegisterProxy, CloseProxy and the end   *)
(* of the session in server/control.go, the proxy manager and XTCPProxy in *)
(* server/proxy, ListenClient and CloseClient in pkg/nathole/controller.go.*)
(*                                                                         *)
(* A control registers proxies while it holds its run; RunLease, which     *)
(* ControlManager implements, says when it may start.  The dispatcher of a *)
(* control calls the handlers of NewProxy and CloseProxy one at a time and *)
(* the worker closes the proxies after the last of them, so one program    *)
(* counter covers all three.  Controls of different runs interleave, and   *)
(* each lock is released between two steps of a handler.                   *)
(***************************************************************************)
EXTENDS RunLease

CONSTANTS
  RunIDs,
  Controls,
  Generation,  \* Generation[c]: run ID and control ID of c
  Names,       \* proxy names
  Proxies,     \* XTCPProxy objects, one for each NewProxy message
  NoProxy

ASSUME ProxyConstants ==
  /\ NoProxy \notin Proxies
  /\ Generation \in [Controls -> RunIDs \X Nat]
  /\ \A c, d \in Controls : Generation[c] = Generation[d] => c = d

VARIABLES
  cpc,         \* where the handler or the worker of a control is
  cur,         \* the proxy it is working on
  owner,       \* owner[p]: the control that gets the NewProxy message
  name,        \* name[p]: the name in it
  shut,        \* shut[p]: closeCh of p is closed
  loop,        \* loop[p]: the goroutine of p that serves visitors
  pxys,        \* Manager.pxys
  clientCfgs,  \* Controller.clientCfgs, by the proxy that listens
  proxies      \* proxies[c]: Control.proxies, then what the worker took of it

tableVars == <<pxys, clientCfgs, proxies>>
proxyVars == <<leaseVars, cpc, cur, owner, name, shut, loop, tableVars>>

ProxyOrNone == Proxies \cup {NoProxy}

Handling == {"serving", "run", "add", "abort", "close", "del"}
Releasing == {"release", "closeEach", "delEach"}

(***************************************************************************)
(* Types; a control works on one proxy at a time and only on its own.      *)
(***************************************************************************)
ProxyTypeOK ==
  /\ cpc \in [Controls -> Handling \cup Releasing \cup {"idle", "gone"}]
  /\ cur \in [Controls -> ProxyOrNone]
  /\ owner \in [Proxies -> Controls]
  /\ name \in [Proxies -> Names]
  /\ shut \in [Proxies -> BOOLEAN]
  /\ loop \in [Proxies -> {"none", "select", "busy", "exited"}]
  /\ pxys \in [Names -> ProxyOrNone]
  /\ clientCfgs \in [Names -> ProxyOrNone]
  /\ proxies \in [Controls -> SUBSET Proxies]
  /\ \A c \in Controls :
       /\ cur[c] = NoProxy <=>
            cpc[c] \in {"idle", "serving", "release", "gone"}
       /\ \A p \in proxies[c] \cup ({cur[c]} \ {NoProxy}) : owner[p] = c

ProxyInit ==
  /\ LeaseInit
  /\ cpc = [c \in Controls |-> "idle"]
  /\ cur = [c \in Controls |-> NoProxy]
  /\ owner \in [Proxies -> Controls]
  /\ name \in [Proxies -> Names]
  /\ shut = [p \in Proxies |-> FALSE]
  /\ loop = [p \in Proxies |-> "none"]
  /\ pxys = [n \in Names |-> NoProxy]
  /\ clientCfgs = [n \in Names |-> NoProxy]
  /\ proxies = [c \in Controls |-> {}]

-----------------------------------------------------------------------------
Goto(c, pc, p) ==
  /\ cpc' = [cpc EXCEPT ![c] = pc]
  /\ cur' = [cur EXCEPT ![c] = p]

\* The control has been started and may register proxies.
Start(c) ==
  /\ cpc[c] = "idle"
  /\ Acquire(Generation[c][1], Generation[c][2])
  /\ Goto(c, "serving", NoProxy)
  /\ UNCHANGED <<owner, name, shut, loop, tableVars>>

\* A login that is refused or replaced never starts.
NeverStarts(c) ==
  /\ cpc[c] = "idle"
  /\ Goto(c, "gone", NoProxy)
  /\ UNCHANGED <<leaseVars, owner, name, shut, loop, tableVars>>

\* RegisterProxy up to Exist; p is answered with an error if the name is used.
RegisterProxy(c, p) ==
  /\ cpc[c] = "serving"
  /\ owner[p] = c
  /\ loop[p] = "none"
  /\ pxys[name[p]] = NoProxy
  /\ Goto(c, "run", p)
  /\ UNCHANGED <<leaseVars, owner, name, shut, loop, tableVars>>

\* XTCPProxy.Run: ListenClient succeeds and the loop is started.
Run(c) ==
  LET p == cur[c] IN
  /\ cpc[c] = "run"
  /\ clientCfgs[name[p]] = NoProxy
  /\ clientCfgs' = [clientCfgs EXCEPT ![name[p]] = p]
  /\ loop' = [loop EXCEPT ![p] = "select"]
  /\ Goto(c, "add", p)
  /\ UNCHANGED <<leaseVars, owner, name, shut, pxys, proxies>>

RunFails_Closes(c) ==
  /\ cpc[c] = "run"
  /\ clientCfgs[name[cur[c]]] # NoProxy
  /\ Goto(c, "abort", cur[c])
  /\ UNCHANGED <<leaseVars, owner, name, shut, loop, tableVars>>

\* Another proxy listens on the name; the new one is dropped, not closed.
RunFails(c) ==
  /\ cpc[c] = "run"
  /\ clientCfgs[name[cur[c]]] # NoProxy
  /\ Goto(c, "serving", NoProxy)
  /\ UNCHANGED <<leaseVars, owner, name, shut, loop, tableVars>>

\* Manager.Add and the control's own map.
Add(c) ==
  LET p == cur[c] IN
  /\ cpc[c] = "add"
  /\ pxys[name[p]] = NoProxy
  /\ pxys' = [pxys EXCEPT ![name[p]] = p]
  /\ proxies' = [proxies EXCEPT ![c] = @ \cup {p}]
  /\ Goto(c, "serving", NoProxy)
  /\ UNCHANGED <<leaseVars, owner, name, shut, loop, clientCfgs>>

AddFails(c) ==
  /\ cpc[c] = "add"
  /\ pxys[name[cur[c]]] # NoProxy
  /\ Goto(c, "abort", cur[c])
  /\ UNCHANGED <<leaseVars, owner, name, shut, loop, tableVars>>

\* XTCPProxy.Close of c's proxy: CloseClient by name, then closeCh.  Only the
\* loop reads closeCh, and its select may take the other branch anyway.
Close(c, from, to, next) ==
  LET p == cur[c] IN
  /\ cpc[c] = from
  /\ clientCfgs' = [clientCfgs EXCEPT ![name[p]] = NoProxy]
  /\ shut' = [shut EXCEPT ![p] = TRUE]
  /\ Goto(c, to, next)
  /\ UNCHANGED <<leaseVars, owner, name, loop, pxys, proxies>>

Abort_NoClose(c) ==
  /\ cpc[c] = "abort"
  /\ Goto(c, "serving", NoProxy)
  /\ UNCHANGED <<leaseVars, owner, name, shut, loop, tableVars>>

\* The deferred Close of RegisterProxy.
Abort(c) == Close(c, "abort", "serving", NoProxy)

\* Manager.Del by name, the second half of closeProxy.
Del(c, from, to) ==
  /\ cpc[c] = from
  /\ pxys' = [pxys EXCEPT ![name[cur[c]]] = NoProxy]
  /\ Goto(c, to, NoProxy)
  /\ UNCHANGED <<leaseVars, owner, name, shut, loop, clientCfgs, proxies>>

\* CloseProxy takes a proxy of the control out of its map and closes it.
CloseProxy(c, p) ==
  /\ cpc[c] = "serving"
  /\ p \in proxies[c]
  /\ proxies' = [proxies EXCEPT ![c] = @ \ {p}]
  /\ Goto(c, "close", p)
  /\ UNCHANGED <<leaseVars, owner, name, shut, loop, pxys, clientCfgs>>

ClosePxy(c) == Close(c, "close", "del", cur[c])
DelPxy(c) == Del(c, "del", "serving")

\* The dispatcher is done; the worker closes what the control still has.
DispatcherDone(c) ==
  /\ cpc[c] = "serving"
  /\ Goto(c, "release", NoProxy)
  /\ UNCHANGED <<leaseVars, owner, name, shut, loop, tableVars>>

ReleaseNext(c, p) ==
  /\ cpc[c] = "release"
  /\ p \in proxies[c]
  /\ proxies' = [proxies EXCEPT ![c] = @ \ {p}]
  /\ Goto(c, "closeEach", p)
  /\ UNCHANGED <<leaseVars, owner, name, shut, loop, pxys, clientCfgs>>

CloseEach(c) == Close(c, "closeEach", "delEach", cur[c])
DelEach(c) == Del(c, "delEach", "release")

WorkerDone_Early(c) ==
  /\ cpc[c] \in Releasing
  /\ Release(Generation[c][1], Generation[c][2])
  /\ UNCHANGED <<cpc, cur, owner, name, shut, loop, tableVars>>

\* Every proxy is closed; Remove and finishLocked let the next control start.
WorkerDone(c) ==
  /\ cpc[c] = "release"
  /\ proxies[c] = {}
  /\ Release(Generation[c][1], Generation[c][2])
  /\ Goto(c, "gone", NoProxy)
  /\ UNCHANGED <<owner, name, shut, loop, tableVars>>

HandlerStep(c) ==
  \/ Run(c) \/ RunFails(c)
  \/ Add(c) \/ AddFails(c) \/ Abort(c)
  \/ ClosePxy(c) \/ DelPxy(c)
  \/ \E p \in Proxies : ReleaseNext(c, p)
  \/ CloseEach(c) \/ DelEach(c)
  \/ WorkerDone(c)

ProxyStep(c) ==
  \/ Start(c) \/ NeverStarts(c)
  \/ \E p \in Proxies : RegisterProxy(c, p) \/ CloseProxy(c, p)
  \/ DispatcherDone(c)
  \/ HandlerStep(c)

AllGone ==
  /\ \A c \in Controls : cpc[c] = "gone"
  /\ UNCHANGED proxyVars

ProxyNext == (\E c \in Controls : ProxyStep(c)) \/ AllGone

ProxySpec == ProxyInit /\ [][ProxyNext]_proxyVars

-----------------------------------------------------------------------------
(***************************************************************************)
(* A proxy that is listed and not closed can be reached: visitors who ask  *)
(* for the name are offered to its loop.  Registrations and closings of    *)
(* the same name by other clients do not take that away.                   *)
(***************************************************************************)
ListedIsReachable ==
  \A n \in Names :
    LET p == pxys[n] IN
    p # NoProxy /\ ~shut[p] =>
      clientCfgs[n] = p /\ loop[p] \in {"select", "busy"}

(***************************************************************************)
(* A client that reconnects under its run ID finds its proxy names free:   *)
(* what the new control can meet in the tables belongs to itself or to     *)
(* another run, never to its predecessor.                                  *)
(***************************************************************************)
SuccessorFindsNamesFree ==
  \A c \in Controls : \A n \in Names :
    cpc[c] \in Handling =>
      \A p \in {pxys[n], clientCfgs[n]} \ {NoProxy} :
        Generation[owner[p]][1] = Generation[c][1] => owner[p] = c

(***************************************************************************)
(* A control that is gone has left no proxy behind, open or listed.        *)
(***************************************************************************)
NothingLeftBehind ==
  \A p \in Proxies :
    cpc[owner[p]] = "gone" =>
      /\ loop[p] # "none" => shut[p]
      /\ pxys[name[p]] # p /\ clientCfgs[name[p]] # p

(***************************************************************************)
(* Del and CloseClient go by name, yet a handler never takes another       *)
(* client's proxy out of a table.                                          *)
(***************************************************************************)
RemovesOwnOnly ==
  [][\A c \in Controls : \A n \in Names :
       cpc[c] # cpc'[c] =>
         /\ pxys[n] # NoProxy /\ pxys'[n] # pxys[n] => owner[pxys[n]] = c
         /\ clientCfgs[n] # NoProxy /\ clientCfgs'[n] # clientCfgs[n] =>
              owner[clientCfgs[n]] = c]_proxyVars
=============================================================================
