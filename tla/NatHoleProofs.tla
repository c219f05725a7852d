--------------------------- MODULE NatHoleProofs ----------------------------
(***************************************************************************)
(* The inductive invariant of ProxyTable and, on top of it, that of        *)
(* NatHoleController, for any controls, names, proxies and visitors, with  *)
(* the theorems about each.                                                *)
(***************************************************************************)
EXTENDS NatHoleController, TLAPS

-----------------------------------------------------------------------------
(* The proxy table on its own.                                             *)

Active(c) == cpc[c] \in Handling \cup Releasing

\* The handlers that c's own map and program counter say have p listening
\* with the coordinator, and listed in the manager.
Listening(c, p) ==
  \/ p \in proxies[c]
  \/ cur[c] = p /\ cpc[c] \in {"add", "abort", "close", "closeEach"}

Listed(c, p) ==
  \/ p \in proxies[c]
  \/ cur[c] = p /\ cpc[c] \in {"close", "del", "closeEach", "delEach"}

LeaseOK ==
  /\ \A c \in Controls : Active(c) => Generation[c] \in held
  /\ \A c, d \in Controls :
       /\ Active(c) /\ Active(d)
       /\ Generation[c][1] = Generation[d][1]
       => c = d

ListenOK ==
  /\ \A p \in Proxies :
       /\ Listening(owner[p], p) <=> clientCfgs[name[p]] = p
       /\ Listening(owner[p], p) <=> loop[p] # "none" /\ ~shut[p]
       /\ loop[p] = "exited" => shut[p]
       /\ loop[p] = "none" => ~shut[p]
  /\ \A n \in Names : clientCfgs[n] # NoProxy => name[clientCfgs[n]] = n

ListedOK ==
  /\ \A p \in Proxies : Listed(owner[p], p) <=> pxys[name[p]] = p
  /\ \A n \in Names : pxys[n] # NoProxy => name[pxys[n]] = n

WorkOK ==
  \A c \in Controls :
    /\ cur[c] \notin proxies[c]
    /\ cpc[c] = "run" => loop[cur[c]] = "none"
    /\ cpc[c] \in {"del", "delEach"} => shut[cur[c]]
    /\ cpc[c] \in {"idle", "gone"} => proxies[c] = {}

ProxyInv == ProxyTypeOK /\ LeaseOK /\ ListenOK /\ ListedOK /\ WorkOK

-----------------------------------------------------------------------------
LEMMA NoProxyIsNone == NoProxy \notin Proxies
BY ProxyConstants DEF ProxyConstants

LEMMA InitInv == ProxyInit => ProxyInv
<1> SUFFICES ASSUME ProxyInit PROVE ProxyInv
  OBVIOUS
<1> USE DEF ProxyInit
<1>1. ProxyTypeOK
  BY DEF ProxyTypeOK, ProxyOrNone
<1>2. LeaseOK
  BY DEF LeaseOK, Active, Handling, Releasing
<1>3. ListenOK
  BY NoProxyIsNone DEF ListenOK, Listening
<1>4. ListedOK
  BY NoProxyIsNone DEF ListedOK, Listed
<1>5. WorkOK
  BY DEF WorkOK
<1> QED
  BY <1>1, <1>2, <1>3, <1>4, <1>5 DEF ProxyInv

LEMMA TypeStep ==
  ASSUME ProxyInv, [ProxyNext]_proxyVars
  PROVE  ProxyTypeOK'
<1>t. ProxyTypeOK
  BY DEF ProxyInv
<1>u. CASE UNCHANGED proxyVars
  BY <1>t, <1>u DEF proxyVars, tableVars, leaseVars, ProxyTypeOK, ProxyOrNone,
         Handling, Releasing
<1>n. ASSUME NEW c \in Controls, ProxyStep(c) PROVE ProxyTypeOK'
  <2>1. CASE Start(c)
    BY <1>t, <2>1, NoProxyIsNone
       DEF Start, Acquire, Goto, tableVars, leaseVars, ProxyTypeOK,
           ProxyOrNone, Handling, Releasing
  <2>2. CASE NeverStarts(c)
    BY <1>t, <2>2, NoProxyIsNone
       DEF NeverStarts, Goto, tableVars, leaseVars, ProxyTypeOK, ProxyOrNone,
           Handling, Releasing
  <2>3. ASSUME NEW p \in Proxies, RegisterProxy(c, p) PROVE ProxyTypeOK'
    BY <1>t, <2>3, NoProxyIsNone
       DEF RegisterProxy, Goto, tableVars, leaseVars, ProxyTypeOK,
           ProxyOrNone, Handling, Releasing
  <2>4. ASSUME NEW p \in Proxies, CloseProxy(c, p) PROVE ProxyTypeOK'
    BY <1>t, <2>4, NoProxyIsNone
       DEF CloseProxy, Goto, tableVars, leaseVars, ProxyTypeOK, ProxyOrNone,
           Handling, Releasing
  <2>5. CASE DispatcherDone(c)
    BY <1>t, <2>5, NoProxyIsNone
       DEF DispatcherDone, Goto, tableVars, leaseVars, ProxyTypeOK,
           ProxyOrNone, Handling, Releasing
  <2>6. CASE Run(c)
    BY <1>t, <2>6, NoProxyIsNone
       DEF Run, Goto, tableVars, leaseVars, ProxyTypeOK, ProxyOrNone,
           Handling, Releasing
  <2>7. CASE RunFails(c)
    BY <1>t, <2>7, NoProxyIsNone
       DEF RunFails, Goto, tableVars, leaseVars, ProxyTypeOK, ProxyOrNone,
           Handling, Releasing
  <2>8. CASE Add(c)
    BY <1>t, <2>8, NoProxyIsNone
       DEF Add, Goto, tableVars, leaseVars, ProxyTypeOK, ProxyOrNone,
           Handling, Releasing
  <2>9. CASE AddFails(c)
    BY <1>t, <2>9, NoProxyIsNone
       DEF AddFails, Goto, tableVars, leaseVars, ProxyTypeOK, ProxyOrNone,
           Handling, Releasing
  <2>10. CASE Abort(c)
    BY <1>t, <2>10, NoProxyIsNone
       DEF Abort, Close, Goto, tableVars, leaseVars, ProxyTypeOK, ProxyOrNone,
           Handling, Releasing
  <2>11. CASE ClosePxy(c)
    BY <1>t, <2>11, NoProxyIsNone
       DEF ClosePxy, Close, Goto, tableVars, leaseVars, ProxyTypeOK,
           ProxyOrNone, Handling, Releasing
  <2>12. CASE DelPxy(c)
    BY <1>t, <2>12, NoProxyIsNone
       DEF DelPxy, Del, Goto, tableVars, leaseVars, ProxyTypeOK, ProxyOrNone,
           Handling, Releasing
  <2>13. ASSUME NEW p \in Proxies, ReleaseNext(c, p) PROVE ProxyTypeOK'
    BY <1>t, <2>13, NoProxyIsNone
       DEF ReleaseNext, Goto, tableVars, leaseVars, ProxyTypeOK, ProxyOrNone,
           Handling, Releasing
  <2>14. CASE CloseEach(c)
    BY <1>t, <2>14, NoProxyIsNone
       DEF CloseEach, Close, Goto, tableVars, leaseVars, ProxyTypeOK,
           ProxyOrNone, Handling, Releasing
  <2>15. CASE DelEach(c)
    BY <1>t, <2>15, NoProxyIsNone
       DEF DelEach, Del, Goto, tableVars, leaseVars, ProxyTypeOK, ProxyOrNone,
           Handling, Releasing
  <2>16. CASE WorkerDone(c)
    BY <1>t, <2>16, NoProxyIsNone
       DEF WorkerDone, Release, Goto, tableVars, leaseVars, ProxyTypeOK,
           ProxyOrNone, Handling, Releasing
  <2> QED
    BY ZenonT(30), <1>n, <2>1, <2>2, <2>3, <2>4, <2>5, <2>6, <2>7, <2>8, <2>9,
       <2>10, <2>11, <2>12, <2>13, <2>14, <2>15, <2>16
       DEF ProxyStep, HandlerStep
<1> QED
  BY <1>u, <1>n DEF ProxyNext, AllGone

LEMMA LeaseStep ==
  ASSUME ProxyInv, [ProxyNext]_proxyVars
  PROVE  LeaseOK'
<1>t. ProxyTypeOK /\ LeaseOK
  BY DEF ProxyInv
<1>u. CASE UNCHANGED proxyVars
  BY <1>t, <1>u DEF proxyVars, tableVars, leaseVars, ProxyTypeOK, LeaseOK,
         Active, Handling, Releasing
<1>n. ASSUME NEW c \in Controls, ProxyStep(c) PROVE LeaseOK'
  <2>1. CASE Start(c)
    <3>1. \A d \in Controls : Active(d) => Generation[d][1] # Generation[c][1]
      BY <1>t, <2>1 DEF Start, Acquire, LeaseOK
    <3>2. Generation[c] = <<Generation[c][1], Generation[c][2]>>
      BY ProxyConstants DEF ProxyConstants
    <3>3. /\ held' = held \cup {Generation[c]}
          /\ cpc' = [cpc EXCEPT ![c] = "serving"]
      BY <3>2, <2>1 DEF Start, Acquire, Goto
    <3>4. \A d \in Controls : d # c => (Active(d)' <=> Active(d))
      BY <1>t, <3>3 DEF Active, ProxyTypeOK
    <3> QED
      BY <1>t, <3>1, <3>3, <3>4 DEF LeaseOK
  <2>2. CASE NeverStarts(c)
    BY <1>t, <2>2, NoProxyIsNone
       DEF NeverStarts, Goto, tableVars, leaseVars, ProxyTypeOK, LeaseOK,
           Active, Handling, Releasing
  <2>3. ASSUME NEW p \in Proxies, RegisterProxy(c, p) PROVE LeaseOK'
    BY <1>t, <2>3, NoProxyIsNone
       DEF RegisterProxy, Goto, tableVars, leaseVars, ProxyTypeOK, LeaseOK,
           Active, Handling, Releasing
  <2>4. ASSUME NEW p \in Proxies, CloseProxy(c, p) PROVE LeaseOK'
    BY <1>t, <2>4, NoProxyIsNone
       DEF CloseProxy, Goto, tableVars, leaseVars, ProxyTypeOK, LeaseOK,
           Active, Handling, Releasing
  <2>5. CASE DispatcherDone(c)
    BY <1>t, <2>5, NoProxyIsNone
       DEF DispatcherDone, Goto, tableVars, leaseVars, ProxyTypeOK, LeaseOK,
           Active, Handling, Releasing
  <2>6. CASE Run(c)
    BY <1>t, <2>6, NoProxyIsNone
       DEF Run, Goto, tableVars, leaseVars, ProxyTypeOK, LeaseOK, Active,
           Handling, Releasing
  <2>7. CASE RunFails(c)
    BY <1>t, <2>7, NoProxyIsNone
       DEF RunFails, Goto, tableVars, leaseVars, ProxyTypeOK, LeaseOK, Active,
           Handling, Releasing
  <2>8. CASE Add(c)
    BY <1>t, <2>8, NoProxyIsNone
       DEF Add, Goto, tableVars, leaseVars, ProxyTypeOK, LeaseOK, Active,
           Handling, Releasing
  <2>9. CASE AddFails(c)
    BY <1>t, <2>9, NoProxyIsNone
       DEF AddFails, Goto, tableVars, leaseVars, ProxyTypeOK, LeaseOK, Active,
           Handling, Releasing
  <2>10. CASE Abort(c)
    BY <1>t, <2>10, NoProxyIsNone
       DEF Abort, Close, Goto, tableVars, leaseVars, ProxyTypeOK, LeaseOK,
           Active, Handling, Releasing
  <2>11. CASE ClosePxy(c)
    BY <1>t, <2>11, NoProxyIsNone
       DEF ClosePxy, Close, Goto, tableVars, leaseVars, ProxyTypeOK, LeaseOK,
           Active, Handling, Releasing
  <2>12. CASE DelPxy(c)
    BY <1>t, <2>12, NoProxyIsNone
       DEF DelPxy, Del, Goto, tableVars, leaseVars, ProxyTypeOK, LeaseOK,
           Active, Handling, Releasing
  <2>13. ASSUME NEW p \in Proxies, ReleaseNext(c, p) PROVE LeaseOK'
    BY <1>t, <2>13, NoProxyIsNone
       DEF ReleaseNext, Goto, tableVars, leaseVars, ProxyTypeOK, LeaseOK,
           Active, Handling, Releasing
  <2>14. CASE CloseEach(c)
    BY <1>t, <2>14, NoProxyIsNone
       DEF CloseEach, Close, Goto, tableVars, leaseVars, ProxyTypeOK, LeaseOK,
           Active, Handling, Releasing
  <2>15. CASE DelEach(c)
    BY <1>t, <2>15, NoProxyIsNone
       DEF DelEach, Del, Goto, tableVars, leaseVars, ProxyTypeOK, LeaseOK,
           Active, Handling, Releasing
  <2>16. CASE WorkerDone(c)
    <3>1. /\ held' = held \ {Generation[c]}
          /\ cpc' = [cpc EXCEPT ![c] = "gone"]
      <4>1. Generation[c] = <<Generation[c][1], Generation[c][2]>>
        BY ProxyConstants DEF ProxyConstants
      <4> QED
        BY <4>1, <2>16 DEF WorkerDone, Release, Goto
    <3>2. \A d \in Controls : d # c => (Active(d)' <=> Active(d))
      BY <1>t, <3>1 DEF Active, ProxyTypeOK
    <3>3. ~Active(c)'
      BY <1>t, <3>1 DEF Active, ProxyTypeOK, Handling, Releasing
    <3>4. \A d \in Controls : d # c => Generation[d] # Generation[c]
      BY ProxyConstants DEF ProxyConstants
    <3> QED
      BY <1>t, <3>1, <3>2, <3>3, <3>4 DEF LeaseOK
  <2> QED
    BY ZenonT(30), <1>n, <2>1, <2>2, <2>3, <2>4, <2>5, <2>6, <2>7, <2>8, <2>9,
       <2>10, <2>11, <2>12, <2>13, <2>14, <2>15, <2>16
       DEF ProxyStep, HandlerStep
<1> QED
  BY <1>u, <1>n DEF ProxyNext, AllGone

LEMMA ListenStep ==
  ASSUME ProxyInv, [ProxyNext]_proxyVars
  PROVE  ListenOK'
<1>t. ProxyTypeOK /\ ListenOK /\ WorkOK
  BY DEF ProxyInv
<1>u. CASE UNCHANGED proxyVars
  BY <1>t, <1>u DEF proxyVars, tableVars, leaseVars, ProxyTypeOK, ProxyOrNone,
         ListenOK, Listening, WorkOK
<1>n. ASSUME NEW c \in Controls, ProxyStep(c) PROVE ListenOK'
  <2>1. CASE Start(c)
    BY <1>t, <2>1, NoProxyIsNone
       DEF Start, Acquire, Goto, tableVars, leaseVars, ProxyTypeOK,
           ProxyOrNone, ListenOK, Listening, WorkOK
  <2>2. CASE NeverStarts(c)
    BY <1>t, <2>2, NoProxyIsNone
       DEF NeverStarts, Goto, tableVars, leaseVars, ProxyTypeOK, ProxyOrNone,
           ListenOK, Listening, WorkOK
  <2>3. ASSUME NEW p \in Proxies, RegisterProxy(c, p) PROVE ListenOK'
    BY <1>t, <2>3, NoProxyIsNone
       DEF RegisterProxy, Goto, tableVars, leaseVars, ProxyTypeOK,
           ProxyOrNone, ListenOK, Listening, WorkOK
  <2>4. ASSUME NEW p \in Proxies, CloseProxy(c, p) PROVE ListenOK'
    BY <1>t, <2>4, NoProxyIsNone
       DEF CloseProxy, Goto, tableVars, leaseVars, ProxyTypeOK, ProxyOrNone,
           ListenOK, Listening, WorkOK
  <2>5. CASE DispatcherDone(c)
    BY <1>t, <2>5, NoProxyIsNone
       DEF DispatcherDone, Goto, tableVars, leaseVars, ProxyTypeOK,
           ProxyOrNone, ListenOK, Listening, WorkOK
  <2>6. CASE Run(c)
    BY <1>t, <2>6, NoProxyIsNone
       DEF Run, Goto, tableVars, leaseVars, ProxyTypeOK, ProxyOrNone,
           ListenOK, Listening, WorkOK
  <2>7. CASE RunFails(c)
    BY <1>t, <2>7, NoProxyIsNone
       DEF RunFails, Goto, tableVars, leaseVars, ProxyTypeOK, ProxyOrNone,
           ListenOK, Listening, WorkOK
  <2>8. CASE Add(c)
    BY <1>t, <2>8, NoProxyIsNone
       DEF Add, Goto, tableVars, leaseVars, ProxyTypeOK, ProxyOrNone,
           ListenOK, Listening, WorkOK
  <2>9. CASE AddFails(c)
    BY <1>t, <2>9, NoProxyIsNone
       DEF AddFails, Goto, tableVars, leaseVars, ProxyTypeOK, ProxyOrNone,
           ListenOK, Listening, WorkOK
  <2>10. CASE Abort(c)
    BY <1>t, <2>10, NoProxyIsNone
       DEF Abort, Close, Goto, tableVars, leaseVars, ProxyTypeOK, ProxyOrNone,
           ListenOK, Listening, WorkOK
  <2>11. CASE ClosePxy(c)
    BY <1>t, <2>11, NoProxyIsNone
       DEF ClosePxy, Close, Goto, tableVars, leaseVars, ProxyTypeOK,
           ProxyOrNone, ListenOK, Listening, WorkOK
  <2>12. CASE DelPxy(c)
    BY <1>t, <2>12, NoProxyIsNone
       DEF DelPxy, Del, Goto, tableVars, leaseVars, ProxyTypeOK, ProxyOrNone,
           ListenOK, Listening, WorkOK
  <2>13. ASSUME NEW p \in Proxies, ReleaseNext(c, p) PROVE ListenOK'
    BY <1>t, <2>13, NoProxyIsNone
       DEF ReleaseNext, Goto, tableVars, leaseVars, ProxyTypeOK, ProxyOrNone,
           ListenOK, Listening, WorkOK
  <2>14. CASE CloseEach(c)
    BY <1>t, <2>14, NoProxyIsNone
       DEF CloseEach, Close, Goto, tableVars, leaseVars, ProxyTypeOK,
           ProxyOrNone, ListenOK, Listening, WorkOK
  <2>15. CASE DelEach(c)
    BY <1>t, <2>15, NoProxyIsNone
       DEF DelEach, Del, Goto, tableVars, leaseVars, ProxyTypeOK, ProxyOrNone,
           ListenOK, Listening, WorkOK
  <2>16. CASE WorkerDone(c)
    BY <1>t, <2>16, NoProxyIsNone
       DEF WorkerDone, Release, Goto, tableVars, leaseVars, ProxyTypeOK,
           ProxyOrNone, ListenOK, Listening, WorkOK
  <2> QED
    BY ZenonT(30), <1>n, <2>1, <2>2, <2>3, <2>4, <2>5, <2>6, <2>7, <2>8, <2>9,
       <2>10, <2>11, <2>12, <2>13, <2>14, <2>15, <2>16
       DEF ProxyStep, HandlerStep
<1> QED
  BY <1>u, <1>n DEF ProxyNext, AllGone

LEMMA ListedStep ==
  ASSUME ProxyInv, [ProxyNext]_proxyVars
  PROVE  ListedOK'
<1>t. ProxyTypeOK /\ ListedOK /\ WorkOK
  BY DEF ProxyInv
<1>u. CASE UNCHANGED proxyVars
  BY <1>t, <1>u DEF proxyVars, tableVars, leaseVars, ProxyTypeOK, ProxyOrNone,
         ListedOK, Listed, WorkOK
<1>n. ASSUME NEW c \in Controls, ProxyStep(c) PROVE ListedOK'
  <2>1. CASE Start(c)
    BY <1>t, <2>1, NoProxyIsNone
       DEF Start, Acquire, Goto, tableVars, leaseVars, ProxyTypeOK,
           ProxyOrNone, ListedOK, Listed, WorkOK
  <2>2. CASE NeverStarts(c)
    BY <1>t, <2>2, NoProxyIsNone
       DEF NeverStarts, Goto, tableVars, leaseVars, ProxyTypeOK, ProxyOrNone,
           ListedOK, Listed, WorkOK
  <2>3. ASSUME NEW p \in Proxies, RegisterProxy(c, p) PROVE ListedOK'
    BY <1>t, <2>3, NoProxyIsNone
       DEF RegisterProxy, Goto, tableVars, leaseVars, ProxyTypeOK,
           ProxyOrNone, ListedOK, Listed, WorkOK
  <2>4. ASSUME NEW p \in Proxies, CloseProxy(c, p) PROVE ListedOK'
    BY <1>t, <2>4, NoProxyIsNone
       DEF CloseProxy, Goto, tableVars, leaseVars, ProxyTypeOK, ProxyOrNone,
           ListedOK, Listed, WorkOK
  <2>5. CASE DispatcherDone(c)
    BY <1>t, <2>5, NoProxyIsNone
       DEF DispatcherDone, Goto, tableVars, leaseVars, ProxyTypeOK,
           ProxyOrNone, ListedOK, Listed, WorkOK
  <2>6. CASE Run(c)
    BY <1>t, <2>6, NoProxyIsNone
       DEF Run, Goto, tableVars, leaseVars, ProxyTypeOK, ProxyOrNone,
           ListedOK, Listed, WorkOK
  <2>7. CASE RunFails(c)
    BY <1>t, <2>7, NoProxyIsNone
       DEF RunFails, Goto, tableVars, leaseVars, ProxyTypeOK, ProxyOrNone,
           ListedOK, Listed, WorkOK
  <2>8. CASE Add(c)
    BY <1>t, <2>8, NoProxyIsNone
       DEF Add, Goto, tableVars, leaseVars, ProxyTypeOK, ProxyOrNone,
           ListedOK, Listed, WorkOK
  <2>9. CASE AddFails(c)
    BY <1>t, <2>9, NoProxyIsNone
       DEF AddFails, Goto, tableVars, leaseVars, ProxyTypeOK, ProxyOrNone,
           ListedOK, Listed, WorkOK
  <2>10. CASE Abort(c)
    BY <1>t, <2>10, NoProxyIsNone
       DEF Abort, Close, Goto, tableVars, leaseVars, ProxyTypeOK, ProxyOrNone,
           ListedOK, Listed, WorkOK
  <2>11. CASE ClosePxy(c)
    BY <1>t, <2>11, NoProxyIsNone
       DEF ClosePxy, Close, Goto, tableVars, leaseVars, ProxyTypeOK,
           ProxyOrNone, ListedOK, Listed, WorkOK
  <2>12. CASE DelPxy(c)
    BY <1>t, <2>12, NoProxyIsNone
       DEF DelPxy, Del, Goto, tableVars, leaseVars, ProxyTypeOK, ProxyOrNone,
           ListedOK, Listed, WorkOK
  <2>13. ASSUME NEW p \in Proxies, ReleaseNext(c, p) PROVE ListedOK'
    BY <1>t, <2>13, NoProxyIsNone
       DEF ReleaseNext, Goto, tableVars, leaseVars, ProxyTypeOK, ProxyOrNone,
           ListedOK, Listed, WorkOK
  <2>14. CASE CloseEach(c)
    BY <1>t, <2>14, NoProxyIsNone
       DEF CloseEach, Close, Goto, tableVars, leaseVars, ProxyTypeOK,
           ProxyOrNone, ListedOK, Listed, WorkOK
  <2>15. CASE DelEach(c)
    BY <1>t, <2>15, NoProxyIsNone
       DEF DelEach, Del, Goto, tableVars, leaseVars, ProxyTypeOK, ProxyOrNone,
           ListedOK, Listed, WorkOK
  <2>16. CASE WorkerDone(c)
    BY <1>t, <2>16, NoProxyIsNone
       DEF WorkerDone, Release, Goto, tableVars, leaseVars, ProxyTypeOK,
           ProxyOrNone, ListedOK, Listed, WorkOK
  <2> QED
    BY ZenonT(30), <1>n, <2>1, <2>2, <2>3, <2>4, <2>5, <2>6, <2>7, <2>8, <2>9,
       <2>10, <2>11, <2>12, <2>13, <2>14, <2>15, <2>16
       DEF ProxyStep, HandlerStep
<1> QED
  BY <1>u, <1>n DEF ProxyNext, AllGone

LEMMA WorkStep ==
  ASSUME ProxyInv, [ProxyNext]_proxyVars
  PROVE  WorkOK'
<1>t. ProxyTypeOK /\ ListenOK /\ WorkOK
  BY DEF ProxyInv
<1>u. CASE UNCHANGED proxyVars
  BY <1>t, <1>u DEF proxyVars, tableVars, leaseVars, ProxyTypeOK, ProxyOrNone,
         ListenOK, Listening, WorkOK
<1>n. ASSUME NEW c \in Controls, ProxyStep(c) PROVE WorkOK'
  <2>1. CASE Start(c)
    BY <1>t, <2>1, NoProxyIsNone
       DEF Start, Acquire, Goto, tableVars, leaseVars, ProxyTypeOK,
           ProxyOrNone, ListenOK, Listening, WorkOK
  <2>2. CASE NeverStarts(c)
    BY <1>t, <2>2, NoProxyIsNone
       DEF NeverStarts, Goto, tableVars, leaseVars, ProxyTypeOK, ProxyOrNone,
           ListenOK, Listening, WorkOK
  <2>3. ASSUME NEW p \in Proxies, RegisterProxy(c, p) PROVE WorkOK'
    BY <1>t, <2>3, NoProxyIsNone
       DEF RegisterProxy, Goto, tableVars, leaseVars, ProxyTypeOK,
           ProxyOrNone, ListenOK, Listening, WorkOK
  <2>4. ASSUME NEW p \in Proxies, CloseProxy(c, p) PROVE WorkOK'
    BY <1>t, <2>4, NoProxyIsNone
       DEF CloseProxy, Goto, tableVars, leaseVars, ProxyTypeOK, ProxyOrNone,
           ListenOK, Listening, WorkOK
  <2>5. CASE DispatcherDone(c)
    BY <1>t, <2>5, NoProxyIsNone
       DEF DispatcherDone, Goto, tableVars, leaseVars, ProxyTypeOK,
           ProxyOrNone, ListenOK, Listening, WorkOK
  <2>6. CASE Run(c)
    BY <1>t, <2>6, NoProxyIsNone
       DEF Run, Goto, tableVars, leaseVars, ProxyTypeOK, ProxyOrNone,
           ListenOK, Listening, WorkOK
  <2>7. CASE RunFails(c)
    BY <1>t, <2>7, NoProxyIsNone
       DEF RunFails, Goto, tableVars, leaseVars, ProxyTypeOK, ProxyOrNone,
           ListenOK, Listening, WorkOK
  <2>8. CASE Add(c)
    <3>1. /\ cpc[c] = "add"
          /\ proxies' = [proxies EXCEPT ![c] = proxies[c] \cup {cur[c]}]
          /\ cpc' = [cpc EXCEPT ![c] = "serving"]
          /\ cur' = [cur EXCEPT ![c] = NoProxy]
          /\ UNCHANGED <<loop, shut>>
      BY <2>8 DEF Add, Goto
    <3>2. NoProxy \notin proxies[c] \cup {cur[c]}
      BY <1>t, <3>1, NoProxyIsNone DEF ProxyTypeOK
    <3> QED
      BY <1>t, <3>1, <3>2 DEF ProxyTypeOK, WorkOK
  <2>9. CASE AddFails(c)
    BY <1>t, <2>9, NoProxyIsNone
       DEF AddFails, Goto, tableVars, leaseVars, ProxyTypeOK, ProxyOrNone,
           ListenOK, Listening, WorkOK
  <2>10. CASE Abort(c)
    BY <1>t, <2>10, NoProxyIsNone
       DEF Abort, Close, Goto, tableVars, leaseVars, ProxyTypeOK, ProxyOrNone,
           ListenOK, Listening, WorkOK
  <2>11. CASE ClosePxy(c)
    BY <1>t, <2>11, NoProxyIsNone
       DEF ClosePxy, Close, Goto, tableVars, leaseVars, ProxyTypeOK,
           ProxyOrNone, ListenOK, Listening, WorkOK
  <2>12. CASE DelPxy(c)
    BY <1>t, <2>12, NoProxyIsNone
       DEF DelPxy, Del, Goto, tableVars, leaseVars, ProxyTypeOK, ProxyOrNone,
           ListenOK, Listening, WorkOK
  <2>13. ASSUME NEW p \in Proxies, ReleaseNext(c, p) PROVE WorkOK'
    BY <1>t, <2>13, NoProxyIsNone
       DEF ReleaseNext, Goto, tableVars, leaseVars, ProxyTypeOK, ProxyOrNone,
           ListenOK, Listening, WorkOK
  <2>14. CASE CloseEach(c)
    BY <1>t, <2>14, NoProxyIsNone
       DEF CloseEach, Close, Goto, tableVars, leaseVars, ProxyTypeOK,
           ProxyOrNone, ListenOK, Listening, WorkOK
  <2>15. CASE DelEach(c)
    BY <1>t, <2>15, NoProxyIsNone
       DEF DelEach, Del, Goto, tableVars, leaseVars, ProxyTypeOK, ProxyOrNone,
           ListenOK, Listening, WorkOK
  <2>16. CASE WorkerDone(c)
    BY <1>t, <2>16, NoProxyIsNone
       DEF WorkerDone, Release, Goto, tableVars, leaseVars, ProxyTypeOK,
           ProxyOrNone, ListenOK, Listening, WorkOK
  <2> QED
    BY ZenonT(30), <1>n, <2>1, <2>2, <2>3, <2>4, <2>5, <2>6, <2>7, <2>8, <2>9,
       <2>10, <2>11, <2>12, <2>13, <2>14, <2>15, <2>16
       DEF ProxyStep, HandlerStep
<1> QED
  BY <1>u, <1>n DEF ProxyNext, AllGone

LEMMA InvStep == ProxyInv /\ [ProxyNext]_proxyVars => ProxyInv'
<1> SUFFICES ASSUME ProxyInv, [ProxyNext]_proxyVars PROVE ProxyInv'
  OBVIOUS
<1> QED
  BY TypeStep, LeaseStep, ListenStep, ListedStep, WorkStep DEF ProxyInv

LEMMA ProxyInvariance == ProxySpec => []ProxyInv
BY InitInv, InvStep, PTL DEF ProxySpec

(***************************************************************************)
(* The handlers of NewProxy and CloseProxy and the end of a session keep   *)
(* to one proxy of their own at a time.                                    *)
(***************************************************************************)
THEOREM ProxyTypeCorrect == ProxySpec => []ProxyTypeOK
<1>1. ProxyInv => ProxyTypeOK
  BY DEF ProxyInv
<1> QED
  BY <1>1, ProxyInvariance, PTL

LEMMA InvReachable == ProxyInv => ListedIsReachable
<1>1. ASSUME ProxyInv, NEW n \in Names, pxys[n] # NoProxy, ~shut[pxys[n]]
      PROVE  clientCfgs[n] = pxys[n] /\ loop[pxys[n]] \in {"select", "busy"}
  <2> DEFINE p == pxys[n]
             c == owner[p]
  <2>1. p \in Proxies /\ c \in Controls /\ name[p] = n
    BY <1>1 DEF ProxyInv, ProxyTypeOK, ProxyOrNone, ListedOK
  <2>2. Listed(c, p)
    BY <1>1, <2>1 DEF ProxyInv, ListedOK
  <2>3. Listening(c, p)
    BY <1>1, <2>1, <2>2 DEF ProxyInv, WorkOK, Listed, Listening
  <2> QED
    BY <1>1, <2>1, <2>3 DEF ProxyInv, ProxyTypeOK, ListenOK
<1> QED
  BY <1>1 DEF ListedIsReachable

(***************************************************************************)
(* Whatever other clients register or close under the same name, a listed  *)
(* proxy that is open is the one visitors of its name are offered to.      *)
(***************************************************************************)
THEOREM ListedProxiesReachable == ProxySpec => []ListedIsReachable
BY InvReachable, ProxyInvariance, PTL

(***************************************************************************)
(* Every entry of the tables belongs to a control that still holds its     *)
(* run, and a run has one such control.                                    *)
(***************************************************************************)
LEMMA EntriesActive ==
  ASSUME ProxyInv, NEW n \in Names,
         NEW p \in {pxys[n], clientCfgs[n]} \ {NoProxy}
  PROVE  p \in Proxies /\ owner[p] \in Controls /\ Active(owner[p])
<1>1. p \in Proxies /\ owner[p] \in Controls /\ name[p] = n
  BY DEF ProxyInv, ProxyTypeOK, ProxyOrNone, ListedOK, ListenOK
<1>2. Listed(owner[p], p) \/ Listening(owner[p], p)
  BY <1>1 DEF ProxyInv, ListedOK, ListenOK
<1>3. cpc[owner[p]] \notin {"idle", "gone"}
  BY <1>1, <1>2, NoProxyIsNone
     DEF ProxyInv, ProxyTypeOK, WorkOK, Listed, Listening
<1> QED
  BY <1>1, <1>3 DEF ProxyInv, ProxyTypeOK, Active

LEMMA InvNamesFree == ProxyInv => SuccessorFindsNamesFree
<1>1. ASSUME ProxyInv PROVE SuccessorFindsNamesFree
  <2> SUFFICES ASSUME NEW c \in Controls, NEW n \in Names,
                      cpc[c] \in Handling,
                      NEW p \in {pxys[n], clientCfgs[n]} \ {NoProxy},
                      Generation[owner[p]][1] = Generation[c][1]
               PROVE  owner[p] = c
    BY DEF SuccessorFindsNamesFree
  <2>1. p \in Proxies /\ owner[p] \in Controls /\ Active(owner[p])
    BY <1>1, EntriesActive
  <2>2. Active(c)
    BY DEF Active
  <2> QED
    BY <1>1, <2>1, <2>2 DEF ProxyInv, LeaseOK
<1> QED
  BY <1>1

(***************************************************************************)
(* A client that comes back under its run ID never finds one of its names  *)
(* taken by the control it had before.                                     *)
(***************************************************************************)
THEOREM NamesFreeForSuccessor == ProxySpec => []SuccessorFindsNamesFree
BY InvNamesFree, ProxyInvariance, PTL

LEMMA InvNothingLeft == ProxyInv => NothingLeftBehind
<1>1. ASSUME ProxyInv, NEW p \in Proxies, cpc[owner[p]] = "gone"
      PROVE  /\ loop[p] # "none" => shut[p]
             /\ pxys[name[p]] # p /\ clientCfgs[name[p]] # p
  <2>1. owner[p] \in Controls /\ name[p] \in Names
    BY <1>1 DEF ProxyInv, ProxyTypeOK
  <2>2. ~Listed(owner[p], p) /\ ~Listening(owner[p], p)
    BY <1>1, <2>1 DEF ProxyInv, WorkOK, Listed, Listening
  <2> QED
    BY <1>1, <2>1, <2>2 DEF ProxyInv, ListedOK, ListenOK
<1> QED
  BY <1>1 DEF NothingLeftBehind

(***************************************************************************)
(* The worker of a control that has ended has closed every proxy it        *)
(* started and has taken it out of both tables.                            *)
(***************************************************************************)
THEOREM GoneLeavesNothing == ProxySpec => []NothingLeftBehind
BY InvNothingLeft, ProxyInvariance, PTL

(***************************************************************************)
(* Del and CloseClient go by name, and still no handler and no worker ever *)
(* takes out the entry of another client.                                  *)
(***************************************************************************)
THEOREM OnlyOwnRemoved == ProxySpec => RemovesOwnOnly
<1> DEFINE Keeps(c, n) ==
      /\ pxys[n] # NoProxy /\ pxys'[n] # pxys[n] => owner[pxys[n]] = c
      /\ clientCfgs[n] # NoProxy /\ clientCfgs'[n] # clientCfgs[n] =>
           owner[clientCfgs[n]] = c
<1>1. ASSUME ProxyInv, [ProxyNext]_proxyVars,
             NEW c \in Controls, NEW n \in Names, cpc[c] # cpc'[c]
      PROVE  Keeps(c, n)
  <2>t. ProxyTypeOK /\ ListenOK /\ ListedOK
    BY <1>1 DEF ProxyInv
  <2>1. PICK d \in Controls : ProxyStep(d)
    BY <1>1 DEF ProxyNext, AllGone, proxyVars
  <2>2. c = d
    <3>1. \A e \in Controls : e # d => cpc'[e] = cpc[e]
      <4>1. CASE \E s : cpc' = [cpc EXCEPT ![d] = s]
        BY <2>t, <4>1 DEF ProxyTypeOK
      <4>2. CASE HandlerStep(d)
        BY <4>1, <4>2
           DEF HandlerStep, Goto, Run, RunFails, Add, AddFails, Abort, ClosePxy,
               DelPxy, ReleaseNext, CloseEach, DelEach, WorkerDone, Close, Del
      <4>3. CASE ~HandlerStep(d)
        BY <2>1, <4>1, <4>3
           DEF ProxyStep, Goto, Start, NeverStarts, RegisterProxy, CloseProxy,
               DispatcherDone
      <4> QED
        BY <4>2, <4>3
    <3> QED
      BY <1>1, <3>1
  <2> HIDE DEF Keeps
  <2>3. CASE UNCHANGED <<pxys, clientCfgs>>
    BY <2>3 DEF Keeps
  <2>4. CASE Run(c)
    BY <2>t, <2>4 DEF Run, ProxyTypeOK, ProxyOrNone, Keeps
  <2>5. CASE Add(c)
    BY <2>t, <2>5 DEF Add, ProxyTypeOK, ProxyOrNone, Keeps
  <2>6. CASE Abort(c) \/ ClosePxy(c) \/ CloseEach(c)
    <3>1. /\ cpc[c] \in {"abort", "close", "closeEach"}
          /\ clientCfgs' = [clientCfgs EXCEPT ![name[cur[c]]] = NoProxy]
          /\ UNCHANGED pxys
      BY <2>6 DEF Abort, ClosePxy, CloseEach, Close
    <3>2. cur[c] \in Proxies /\ owner[cur[c]] = c
      BY <2>t, <3>1 DEF ProxyTypeOK, ProxyOrNone
    <3>3. clientCfgs[name[cur[c]]] = cur[c]
      BY <2>t, <3>1, <3>2 DEF ListenOK, Listening
    <3> QED
      BY <2>t, <3>1, <3>2, <3>3 DEF ProxyTypeOK, Keeps
  <2>7. CASE DelPxy(c) \/ DelEach(c)
    <3>1. /\ cpc[c] \in {"del", "delEach"}
          /\ pxys' = [pxys EXCEPT ![name[cur[c]]] = NoProxy]
          /\ UNCHANGED clientCfgs
      BY <2>7 DEF DelPxy, DelEach, Del
    <3>2. cur[c] \in Proxies /\ owner[cur[c]] = c
      BY <2>t, <3>1 DEF ProxyTypeOK, ProxyOrNone
    <3>3. pxys[name[cur[c]]] = cur[c]
      BY <2>t, <3>1, <3>2 DEF ListedOK, Listed
    <3> QED
      BY <2>t, <3>1, <3>2, <3>3 DEF ProxyTypeOK, Keeps
  <2> QED
    BY <2>1, <2>2, <2>3, <2>4, <2>5, <2>6, <2>7, ZenonT(30)
       DEF ProxyStep, HandlerStep, tableVars, Start, NeverStarts,
           RegisterProxy, CloseProxy, DispatcherDone, RunFails, AddFails,
           ReleaseNext, WorkerDone
<1>2. ProxyInv /\ [ProxyNext]_proxyVars =>
        [\A c \in Controls : \A n \in Names :
           cpc[c] # cpc'[c] => Keeps(c, n)]_proxyVars
  BY <1>1
<1> QED
  BY <1>2, ProxyInvariance, PTL DEF ProxySpec, RemovesOwnOnly

-----------------------------------------------------------------------------
(* With the visitors and the proxies' loops.                               *)

\* Where the two sides of a session can be.  A session is received by one loop
\* and told to the client once; a token means that the client has been set.
SessionOK ==
  /\ \A p \in Proxies : job[p] # NoVisit =>
       /\ client[job[p]] = "none"
       /\ vpc[job[p]] \notin {"idle", "offer"}
       /\ \A q \in Proxies : job[q] = job[p] => q = p
  /\ \A v \in Visits :
       /\ vpc[v] \in {"idle", "offer"} => client[v] = "none"
       /\ client[v] = "set" => clientMsg[v]
       /\ notified[v] => clientMsg[v] /\ client[v] = "done"
       /\ vpc[v] \in {"analysis", "respond", "linger"} =>
            clientMsg[v] /\ client[v] = "done"

NatHoleInv == ProxyInv /\ NatHoleTypeOK /\ SessionOK

-----------------------------------------------------------------------------
LEMMA NoVisitIsNone == NoVisit \notin Visits
BY NatHoleConstants DEF NatHoleConstants

LEMMA NatHoleInitInv == NatHoleInit => NatHoleInv
<1> SUFFICES ASSUME NatHoleInit PROVE NatHoleInv
  OBVIOUS
<1>1. ProxyInv
  BY InitInv DEF NatHoleInit
<1>2. NatHoleTypeOK
  BY DEF NatHoleInit, ProxyInit, NatHoleTypeOK, ProxyOrNone
<1>3. SessionOK
  BY DEF NatHoleInit, SessionOK
<1> QED
  BY <1>1, <1>2, <1>3 DEF NatHoleInv

\* The loop of a proxy that listens goes between its select and a session; the
\* tables do not depend on which.
LEMMA LoopsKeepTables ==
  ASSUME ProxyInv,
         UNCHANGED <<leaseVars, cpc, cur, owner, name, shut, tableVars>>,
         loop' \in [Proxies -> {"none", "select", "busy", "exited"}],
         \A p \in Proxies : /\ loop'[p] = "none" <=> loop[p] = "none"
                            /\ loop'[p] = "exited" => shut[p]
  PROVE  ProxyInv'
<1>t. ProxyTypeOK /\ LeaseOK /\ ListenOK /\ ListedOK /\ WorkOK
  BY DEF ProxyInv
<1>0. UNCHANGED <<held, cpc, cur, owner, name, shut, pxys, clientCfgs, proxies>>
  BY DEF leaseVars, tableVars
<1>1. ProxyTypeOK'
  BY <1>t, <1>0 DEF ProxyTypeOK, ProxyOrNone, Handling, Releasing
<1>2. LeaseOK'
  BY <1>t, <1>0 DEF LeaseOK, Active, Handling, Releasing
<1>3. ListenOK'
  BY <1>t, <1>0 DEF ListenOK, Listening, ProxyTypeOK
<1>4. ListedOK'
  BY <1>t, <1>0 DEF ListedOK, Listed
<1>5. WorkOK'
  BY <1>t, <1>0 DEF WorkOK, ProxyTypeOK, ProxyOrNone
<1> QED
  BY <1>1, <1>2, <1>3, <1>4, <1>5 DEF ProxyInv

\* What the server's tables do to a loop: RegisterProxy starts that of a new
\* proxy, and nothing else.
LEMMA ProxyStepLoops ==
  ASSUME ProxyInv, NEW c \in Controls, ProxyStep(c)
  PROVE  \A p \in Proxies :
           loop'[p] = loop[p] \/ (loop[p] = "none" /\ loop'[p] = "select")
<1>1. CASE loop' = loop
  BY ZenonT(30), <1>1
<1>2. CASE Run(c)
  <2>1. cpc[c] = "run" /\ loop' = [loop EXCEPT ![cur[c]] = "select"]
    BY <1>2 DEF Run
  <2>2. loop[cur[c]] = "none"
    BY <2>1 DEF ProxyInv, WorkOK
  <2>3. loop \in [Proxies -> {"none", "select", "busy", "exited"}]
    BY DEF ProxyInv, ProxyTypeOK
  <2> QED
    BY ZenonT(30), <2>1, <2>2, <2>3
<1> QED
  BY ZenonT(30), <1>1, <1>2
     DEF ProxyStep, HandlerStep, Start, NeverStarts, RegisterProxy, CloseProxy,
         DispatcherDone, RunFails, Add, AddFails, Abort, ClosePxy, DelPxy,
         ReleaseNext, CloseEach, DelEach, WorkerDone, Close, Del

LEMMA TableStepInv ==
  ASSUME NatHoleInv, NEW c \in Controls, ProxyStep(c), UNCHANGED sessionVars
  PROVE  NatHoleInv'
<1>t. ProxyInv /\ NatHoleTypeOK /\ SessionOK
  BY DEF NatHoleInv
<1>1. ProxyInv'
  BY <1>t, InvStep DEF ProxyNext
<1>2. UNCHANGED <<vpc, cfg, job, client, notified, clientMsg, answered>>
  BY DEF sessionVars
<1>3. \A p \in Proxies : loop'[p] = "busy" <=> loop[p] = "busy"
  BY <1>t, ProxyStepLoops
<1>4. NatHoleTypeOK'
  BY <1>t, <1>2, <1>3 DEF NatHoleTypeOK
<1>5. SessionOK'
  BY <1>t, <1>2 DEF SessionOK
<1> QED
  BY <1>1, <1>4, <1>5 DEF NatHoleInv

LEMMA ReceiveInv ==
  ASSUME NatHoleInv, NEW p \in Proxies, NEW v \in Visits, Receive(p, v)
  PROVE  NatHoleInv'
<1>t. ProxyInv /\ ProxyTypeOK /\ NatHoleTypeOK /\ SessionOK
  BY DEF NatHoleInv, ProxyInv
<1>1. /\ loop[p] = "select" /\ vpc[v] = "offer"
      /\ loop' = [loop EXCEPT ![p] = "busy"]
      /\ job' = [job EXCEPT ![p] = v]
      /\ vpc' = [vpc EXCEPT ![v] = "wait"]
      /\ UNCHANGED <<cfg, client, notified, clientMsg, answered>>
      /\ UNCHANGED <<leaseVars, cpc, cur, owner, name, shut, tableVars>>
  BY DEF Receive
<1>2. ProxyInv'
  <2>1. loop' \in [Proxies -> {"none", "select", "busy", "exited"}]
    BY <1>t, <1>1 DEF ProxyTypeOK
  <2>2. \A q \in Proxies : /\ loop'[q] = "none" <=> loop[q] = "none"
                           /\ loop'[q] = "exited" => shut[q]
    BY <1>t, <1>1 DEF ProxyInv, ProxyTypeOK, ListenOK
  <2> QED
    BY <1>t, <1>1, <2>1, <2>2, LoopsKeepTables
<1>3. NatHoleTypeOK'
  BY <1>t, <1>1, NoVisitIsNone DEF NatHoleTypeOK, ProxyTypeOK, InSession
<1>4. SessionOK'
  <2>1. \A q \in Proxies : job[q] # v
    BY <1>t, <1>1, NoVisitIsNone DEF SessionOK
  <2>2. /\ job'[p] = v /\ vpc'[v] = "wait"
        /\ \A q \in Proxies : q # p => job'[q] = job[q]
        /\ \A w \in Visits : w # v => vpc'[w] = vpc[w]
    BY <1>t, <1>1 DEF NatHoleTypeOK
  <2>3. client[v] = "none" /\ \A q \in Proxies : job[q] \in Visits \cup {NoVisit}
    BY <1>t, <1>1 DEF SessionOK, NatHoleTypeOK
  <2> QED
    BY <1>t, <1>1, <2>1, <2>2, <2>3 DEF SessionOK
<1> QED
  BY <1>2, <1>3, <1>4 DEF NatHoleInv

LEMMA TellClientInv ==
  ASSUME NatHoleInv, NEW p \in Proxies, NEW told \in BOOLEAN, TellClient(p, told)
  PROVE  NatHoleInv'
<1>t. ProxyInv /\ ProxyTypeOK /\ NatHoleTypeOK /\ SessionOK
  BY DEF NatHoleInv, ProxyInv
<1>1. /\ loop[p] = "busy"
      /\ loop' = [loop EXCEPT ![p] = "select"]
      /\ job' = [job EXCEPT ![p] = NoVisit]
      /\ client' = client \/ client' = [client EXCEPT ![job[p]] = "told"]
      /\ UNCHANGED <<vpc, cfg, notified, clientMsg, answered>>
      /\ UNCHANGED <<leaseVars, cpc, cur, owner, name, shut, tableVars>>
  BY ZenonT(30) DEF TellClient
<1>2. job[p] \in Visits /\ client[job[p]] = "none"
  BY <1>t, <1>1 DEF NatHoleTypeOK, SessionOK
<1>3. ProxyInv'
  <2>1. loop' \in [Proxies -> {"none", "select", "busy", "exited"}]
    BY <1>t, <1>1 DEF ProxyTypeOK
  <2>2. \A q \in Proxies : /\ loop'[q] = "none" <=> loop[q] = "none"
                           /\ loop'[q] = "exited" => shut[q]
    BY <1>t, <1>1 DEF ProxyInv, ProxyTypeOK, ListenOK
  <2> QED
    BY <1>t, <1>1, <2>1, <2>2, LoopsKeepTables
<1>4. NatHoleTypeOK'
  BY <1>t, <1>1, <1>2, NoVisitIsNone DEF NatHoleTypeOK, ProxyTypeOK, InSession
<1>5. SessionOK'
  <2>1. \A q \in Proxies : q # p => job'[q] = job[q] /\ job[q] # job[p]
    BY <1>t, <1>1, <1>2, NoVisitIsNone DEF SessionOK, NatHoleTypeOK
  <2>2. \A w \in Visits : w # job[p] => client'[w] = client[w]
    BY <1>t, <1>1 DEF NatHoleTypeOK
  <2>3. client'[job[p]] \in {"none", "told"} /\ job'[p] = NoVisit
    BY <1>t, <1>1, <1>2 DEF NatHoleTypeOK
  <2>4. \A q \in Proxies : job[q] \in Visits \cup {NoVisit}
    BY <1>t DEF NatHoleTypeOK
  <2>5. vpc[job[p]] \notin {"idle", "offer", "analysis", "respond", "linger"}
        /\ ~notified[job[p]]
    BY <1>t, <1>2, NoVisitIsNone DEF SessionOK
  <2> QED
    BY <1>t, <1>1, <1>2, <2>1, <2>2, <2>3, <2>4, <2>5 DEF SessionOK
<1> QED
  BY <1>3, <1>4, <1>5 DEF NatHoleInv

LEMMA LoopExitsInv ==
  ASSUME NatHoleInv, NEW p \in Proxies, LoopExits(p)
  PROVE  NatHoleInv'
<1>t. ProxyInv /\ ProxyTypeOK /\ NatHoleTypeOK /\ SessionOK
  BY DEF NatHoleInv, ProxyInv
<1>1. /\ shut[p] /\ loop[p] = "select"
      /\ loop' = [loop EXCEPT ![p] = "exited"]
      /\ UNCHANGED <<vpc, cfg, job, client, notified, clientMsg, answered>>
      /\ UNCHANGED <<leaseVars, cpc, cur, owner, name, shut, tableVars>>
  BY DEF LoopExits, sessionVars
<1>2. ProxyInv'
  <2>1. loop' \in [Proxies -> {"none", "select", "busy", "exited"}]
    BY <1>t, <1>1 DEF ProxyTypeOK
  <2>2. \A q \in Proxies : /\ loop'[q] = "none" <=> loop[q] = "none"
                           /\ loop'[q] = "exited" => shut[q]
    BY <1>t, <1>1 DEF ProxyInv, ProxyTypeOK, ListenOK
  <2> QED
    BY <1>t, <1>1, <2>1, <2>2, LoopsKeepTables
<1>3. NatHoleTypeOK'
  BY <1>t, <1>1 DEF NatHoleTypeOK, ProxyTypeOK
<1>4. SessionOK'
  BY <1>t, <1>1 DEF SessionOK
<1> QED
  BY <1>2, <1>3, <1>4 DEF NatHoleInv

\* The steps of a session that leave the proxies alone.
LEMMA VisitStepInv ==
  ASSUME NatHoleInv, NEW v \in Visits,
         \/ Refuse(v) \/ (\E n \in Names : HandleVisitor(v, n))
         \/ ClientStep(v) \/ VisitStep(v)
  PROVE  NatHoleInv'
<1>t. ProxyInv /\ ProxyTypeOK /\ NatHoleTypeOK /\ SessionOK
  BY DEF NatHoleInv, ProxyInv
<1>u. UNCHANGED proxyVars
  BY ZenonT(30)
     DEF Refuse, HandleVisitor, ClientStep, HandleClient, SetClient, Notify,
         VisitStep, Woken, Timeout, Analysis, Respond, EndVisit
<1>1. ProxyInv'
  BY <1>t, <1>u, InvStep
<1>2. UNCHANGED <<loop, job>>
  BY ZenonT(30), <1>u
     DEF proxyVars, Refuse, HandleVisitor, ClientStep, HandleClient, SetClient,
         Notify, VisitStep, Woken, Timeout, Analysis, Respond, EndVisit
<1> DEFINE Good == NatHoleTypeOK' /\ SessionOK'
<1>3. ASSUME Refuse(v) PROVE Good
  BY <1>t, <1>2, <1>3 DEF Refuse, NatHoleTypeOK, SessionOK, InSession
<1>4. ASSUME NEW n \in Names, HandleVisitor(v, n) PROVE Good
  <2>1. clientCfgs[n] \in ProxyOrNone
    BY <1>t DEF ProxyTypeOK
  <2> QED
    BY <1>t, <1>2, <1>4, <2>1 DEF HandleVisitor, NatHoleTypeOK, SessionOK, InSession
<1>5. ASSUME HandleClient(v) PROVE Good
  BY <1>t, <1>2, <1>5 DEF HandleClient, NatHoleTypeOK, SessionOK
<1>6. ASSUME SetClient(v) PROVE Good
  BY <1>t, <1>2, <1>6 DEF SetClient, NatHoleTypeOK, SessionOK
<1>7. ASSUME Notify(v) PROVE Good
  BY <1>t, <1>2, <1>7 DEF Notify, NatHoleTypeOK, SessionOK
<1>8. ASSUME Woken(v) PROVE Good
  BY <1>t, <1>2, <1>8 DEF Woken, NatHoleTypeOK, SessionOK, InSession
<1>9. ASSUME Timeout(v) \/ Analysis(v) \/ EndVisit(v) PROVE Good
  BY <1>t, <1>2, <1>9
     DEF Timeout, Analysis, EndVisit, NatHoleTypeOK, SessionOK, InSession
<1>10. ASSUME NEW peer \in {"visitor", "client"}, Respond(v, peer) PROVE Good
  <2>1. /\ vpc[v] = "respond"
        /\ answered' = [answered EXCEPT ![v] = answered[v] \cup {peer}]
        /\ vpc' = [vpc EXCEPT ![v] = "linger"] \/ vpc' = vpc
        /\ UNCHANGED <<cfg, client, notified, clientMsg>>
    <3>1. vpc = [vpc EXCEPT ![v] = vpc[v]]
      BY <1>t DEF NatHoleTypeOK
    <3> QED
      BY ZenonT(30), <1>10, <3>1 DEF Respond
  <2> QED
    BY <1>t, <1>2, <1>10, <2>1 DEF NatHoleTypeOK, SessionOK, InSession
<1> HIDE DEF Good
<1>11. Good
  BY ZenonT(30), <1>3, <1>4, <1>5, <1>6, <1>7, <1>8, <1>9, <1>10
     DEF ClientStep, VisitStep, Good
<1> QED
  BY <1>1, <1>11 DEF NatHoleInv, Good

LEMMA NatHoleInvStep == NatHoleInv /\ [NatHoleNext]_natHoleVars => NatHoleInv'
<1> SUFFICES ASSUME NatHoleInv, [NatHoleNext]_natHoleVars PROVE NatHoleInv'
  OBVIOUS
<1>1. CASE UNCHANGED natHoleVars
  <2>1. UNCHANGED proxyVars /\ UNCHANGED sessionVars
    BY <1>1 DEF natHoleVars
  <2>2. ProxyInv'
    BY <2>1, InvStep DEF NatHoleInv
  <2>3. NatHoleTypeOK' /\ SessionOK'
    BY <2>1 DEF NatHoleInv, NatHoleTypeOK, SessionOK, proxyVars, sessionVars
  <2> QED
    BY <2>2, <2>3 DEF NatHoleInv
<1>2. ASSUME NEW p \in Proxies, LoopStep(p) PROVE NatHoleInv'
  BY <1>2, ReceiveInv, TellClientInv, LoopExitsInv DEF LoopStep
<1> QED
  BY ZenonT(30), <1>1, <1>2, TableStepInv, VisitStepInv
     DEF NatHoleNext, AllServed

(***************************************************************************)
(* The tables of proxies, the loops and the sessions stay consistent under *)
(* every interleaving of the handlers of both peers, the loops, the        *)
(* timeouts and the ends of the controls.                                  *)
(***************************************************************************)
THEOREM NatHoleInvariance == NatHoleSpec => []NatHoleInv
BY NatHoleInitInv, NatHoleInvStep, PTL DEF NatHoleSpec

(***************************************************************************)
(* A loop holds a session exactly while it is busy, whatever the control   *)
(* and the visitors do meanwhile.                                          *)
(***************************************************************************)
THEOREM NatHoleTypeCorrect == NatHoleSpec => []NatHoleTypeOK
<1>1. NatHoleInv => NatHoleTypeOK
  BY DEF NatHoleInv
<1> QED
  BY <1>1, NatHoleInvariance, PTL

(***************************************************************************)
(* HandleVisitor never analyses or answers before HandleClient has stored  *)
(* the client's message and transporter, and HandleClient never changes    *)
(* them afterwards.                                                        *)
(***************************************************************************)
THEOREM ClientAlwaysKnown == NatHoleSpec => []ClientKnown
<1>1. NatHoleInv => ClientKnown
  BY DEF NatHoleInv, SessionOK, ClientKnown
<1> QED
  BY <1>1, NatHoleInvariance, PTL

(***************************************************************************)
(* With visitors at the loops the tables keep their promises: a listed     *)
(* open proxy is reachable, ...                                            *)
(***************************************************************************)
THEOREM ReachableWithVisitors == NatHoleSpec => []ListedIsReachable
<1>1. NatHoleInv => ListedIsReachable
  BY InvReachable DEF NatHoleInv
<1> QED
  BY <1>1, NatHoleInvariance, PTL

(***************************************************************************)
(* ... and a control that is gone leaves no proxy open or listed, also     *)
(* while visitors still hold its ClientCfg.                                *)
(***************************************************************************)
THEOREM NothingLeftWithVisitors == NatHoleSpec => []NothingLeftBehind
<1>1. NatHoleInv => NothingLeftBehind
  BY InvNothingLeft DEF NatHoleInv
<1> QED
  BY <1>1, NatHoleInvariance, PTL

-----------------------------------------------------------------------------
(* No session is lost between the goroutines.                              *)

\* A visitor at the send has met a proxy whose loop has been started, a session
\* is with the loop of its proxy, and a client that is through has left a token.
HandedOK ==
  /\ \A v \in Visits :
       /\ vpc[v] = "offer" => cfg[v] \in Proxies /\ loop[cfg[v]] # "none"
       /\ vpc[v] = "wait" /\ client[v] = "done" => notified[v]
  /\ \A p \in Proxies : job[p] # NoVisit => cfg[job[p]] = p

LEMMA HandedStep ==
  ASSUME NatHoleInv, HandedOK, [NatHoleNext]_natHoleVars
  PROVE  HandedOK'
<1>t. ProxyInv /\ ProxyTypeOK /\ NatHoleTypeOK /\ SessionOK
  BY DEF NatHoleInv, ProxyInv
<1>1. ASSUME UNCHANGED <<vpc, cfg, job, client, notified>>,
             \A p \in Proxies : loop[p] # "none" => loop'[p] # "none"
      PROVE  HandedOK'
  BY <1>1 DEF HandedOK
<1>2. ASSUME NEW c \in Controls, ProxyStep(c), UNCHANGED sessionVars PROVE HandedOK'
  BY <1>1, <1>2, <1>t, ProxyStepLoops DEF sessionVars
<1>3. ASSUME NEW p \in Proxies, NEW v \in Visits, Receive(p, v) PROVE HandedOK'
  <2>1. /\ vpc[v] = "offer" /\ cfg[v] = p
        /\ loop' = [loop EXCEPT ![p] = "busy"]
        /\ job' = [job EXCEPT ![p] = v]
        /\ vpc' = [vpc EXCEPT ![v] = "wait"]
        /\ UNCHANGED <<cfg, client, notified>>
    BY <1>3 DEF Receive
  <2>2. client[v] = "none"
    BY <1>t, <2>1 DEF SessionOK
  <2>3. \A q \in Proxies : loop[q] # "none" => loop'[q] # "none"
    BY <1>t, <2>1 DEF ProxyTypeOK
  <2> QED
    BY <1>t, <2>1, <2>2, <2>3 DEF HandedOK, NatHoleTypeOK
<1>4. ASSUME NEW p \in Proxies, NEW told \in BOOLEAN, TellClient(p, told) PROVE HandedOK'
  <2>1. /\ loop[p] = "busy"
        /\ loop' = [loop EXCEPT ![p] = "select"]
        /\ job' = [job EXCEPT ![p] = NoVisit]
        /\ client' = client \/ client' = [client EXCEPT ![job[p]] = "told"]
        /\ UNCHANGED <<vpc, cfg, notified>>
    BY ZenonT(30), <1>4 DEF TellClient
  <2>2. \A v \in Visits : client'[v] = "done" => client[v] = "done"
    BY <1>t, <2>1 DEF NatHoleTypeOK
  <2>3. \A q \in Proxies : loop[q] # "none" => loop'[q] # "none"
    BY <1>t, <2>1 DEF ProxyTypeOK
  <2> QED
    BY <1>t, <2>1, <2>2, <2>3 DEF HandedOK, NatHoleTypeOK
<1>5. ASSUME NEW p \in Proxies, LoopExits(p) PROVE HandedOK'
  <2>1. \A q \in Proxies : loop[q] # "none" => loop'[q] # "none"
    BY <1>t, <1>5 DEF LoopExits, ProxyTypeOK
  <2> QED
    BY <1>1, <1>5, <2>1 DEF LoopExits, sessionVars
<1>6. ASSUME NEW v \in Visits, NEW n \in Names, HandleVisitor(v, n) PROVE HandedOK'
  <2>1. /\ vpc[v] = "idle" /\ clientCfgs[n] # NoProxy
        /\ cfg' = [cfg EXCEPT ![v] = clientCfgs[n]]
        /\ vpc' = [vpc EXCEPT ![v] = "offer"]
        /\ UNCHANGED <<loop, job, client, notified>>
    BY <1>6 DEF HandleVisitor, proxyVars
  <2>2. clientCfgs[n] \in Proxies /\ loop[clientCfgs[n]] # "none"
    <3>1. clientCfgs[n] \in Proxies /\ name[clientCfgs[n]] = n
      BY <1>t, <2>1 DEF ProxyTypeOK, ProxyOrNone, ProxyInv, ListenOK
    <3> QED
      BY <1>t, <3>1 DEF ProxyInv, ListenOK
  <2>3. \A p \in Proxies : job[p] # v
    BY <1>t, <2>1, NoVisitIsNone DEF SessionOK
  <2>4. /\ cfg'[v] = clientCfgs[n] /\ vpc'[v] = "offer"
        /\ \A w \in Visits : w # v => cfg'[w] = cfg[w] /\ vpc'[w] = vpc[w]
        /\ \A p \in Proxies : job[p] # NoVisit => job[p] \in Visits
    BY <1>t, <2>1 DEF NatHoleTypeOK
  <2> QED
    BY <2>1, <2>2, <2>3, <2>4 DEF HandedOK
<1>7. ASSUME NEW v \in Visits, HandleClient(v) \/ SetClient(v) \/ Notify(v)
      PROVE  HandedOK'
  <2>1. /\ UNCHANGED <<loop, vpc, cfg, job>>
        /\ \A w \in Visits : w # v => client'[w] = client[w] /\ notified'[w] = notified[w]
    BY <1>t, <1>7 DEF HandleClient, SetClient, Notify, proxyVars, NatHoleTypeOK
  <2>2. client'[v] = "done" => notified'[v] \/ vpc[v] # "wait"
    BY <1>t, <1>7
       DEF HandleClient, SetClient, Notify, NatHoleTypeOK, sessions, InSession
  <2> QED
    BY <2>1, <2>2 DEF HandedOK
<1>8. ASSUME NEW v \in Visits, Refuse(v) \/ VisitStep(v) PROVE HandedOK'
  <2>1. /\ UNCHANGED <<loop, cfg, job, client>>
        /\ \A w \in Visits : w # v => vpc'[w] = vpc[w] /\ notified'[w] = notified[w]
        /\ vpc'[v] \notin {"offer", "wait"}
    <3>1. ASSUME Refuse(v) \/ Woken(v) \/ Timeout(v) \/ Analysis(v) \/ EndVisit(v)
          PROVE  /\ UNCHANGED <<loop, cfg, job, client>>
                 /\ \A w \in Visits : w # v => vpc'[w] = vpc[w] /\ notified'[w] = notified[w]
                 /\ vpc'[v] \notin {"offer", "wait"}
      BY <1>t, <3>1
         DEF Refuse, Woken, Timeout, Analysis, EndVisit, proxyVars, NatHoleTypeOK
    <3>2. ASSUME NEW peer \in {"visitor", "client"}, Respond(v, peer)
          PROVE  /\ UNCHANGED <<loop, cfg, job, client>>
                 /\ \A w \in Visits : w # v => vpc'[w] = vpc[w] /\ notified'[w] = notified[w]
                 /\ vpc'[v] \notin {"offer", "wait"}
      BY <1>t, <3>2 DEF Respond, proxyVars, NatHoleTypeOK
    <3> QED
      BY ZenonT(30), <1>8, <3>1, <3>2 DEF VisitStep
  <2> QED
    BY <2>1 DEF HandedOK
<1>9. CASE UNCHANGED natHoleVars
  BY <1>1, <1>9 DEF natHoleVars, proxyVars, sessionVars
<1> QED
  BY ZenonT(30), <1>2, <1>3, <1>4, <1>5, <1>6, <1>7, <1>8, <1>9
     DEF NatHoleNext, AllServed, LoopStep, ClientStep

(***************************************************************************)
(* Between HandleVisitor, the loop of the proxy and HandleClient no        *)
(* session gets lost, for any number of proxies and visitors: the send on  *)
(* sidCh has a receiver while the proxy is open, one loop at most has the  *)
(* session, and the token for a visitor that waits is never missing.       *)
(***************************************************************************)
THEOREM SessionsHandedOver == NatHoleSpec => []SessionHandedOver
<1>1. NatHoleInit => HandedOK
  BY DEF NatHoleInit, HandedOK
<1>2. NatHoleInv /\ HandedOK => SessionHandedOver
  <2> SUFFICES ASSUME NatHoleInv, HandedOK, NEW v \in Visits
               PROVE  /\ vpc[v] = "offer" =>
                           loop[cfg[v]] \in {"select", "busy"} \/ shut[cfg[v]]
                      /\ \A p \in Proxies : job[p] = v => cfg[v] = p /\ client[v] = "none"
                      /\ vpc[v] = "wait" /\ client[v] = "done" => notified[v]
    BY DEF SessionHandedOver
  <2>1. vpc[v] = "offer" => loop[cfg[v]] \in {"select", "busy"} \/ shut[cfg[v]]
    BY DEF HandedOK, NatHoleInv, ProxyInv, ProxyTypeOK, ListenOK
  <2>2. \A p \in Proxies : job[p] = v => cfg[v] = p /\ client[v] = "none"
    BY NoVisitIsNone DEF HandedOK, NatHoleInv, SessionOK
  <2> QED
    BY <2>1, <2>2 DEF HandedOK
<1> QED
  BY <1>1, <1>2, HandedStep, NatHoleInvariance, PTL DEF NatHoleSpec

-----------------------------------------------------------------------------
(* The tables under the visitors.                                          *)

TableLoop == [p \in Proxies |-> IF loop[p] = "none" THEN "none" ELSE "select"]

\* Every step of a handler or a worker is the same step without the visitors.
LEMMA TableStepMaps ==
  ASSUME NatHoleInv, NEW c \in Controls, ProxyStep(c)
  PROVE  Table!ProxyStep(c)
<1>t. ProxyTypeOK
  BY DEF NatHoleInv, ProxyInv
<1>1. loop' = loop => TableLoop' = TableLoop
  BY DEF TableLoop
<1>2. \A p \in Proxies : loop[p] = "none" => TableLoop[p] = "none"
  BY DEF TableLoop
<1>3. ASSUME Run(c) PROVE TableLoop' = [TableLoop EXCEPT ![cur[c]] = "select"]
  <2>1. loop' = [loop EXCEPT ![cur[c]] = "select"]
    BY <1>3 DEF Run
  <2> QED
    BY <1>t, <2>1 DEF TableLoop, ProxyTypeOK
<1> USE DEF Goto, leaseVars, tableVars, TableLoop, Table!Goto, Table!leaseVars,
            Table!tableVars
<1>4. Run(c) => Table!Run(c)
  BY <1>3 DEF Run, Table!Run
<1>5. Start(c) => Table!Start(c)
  BY <1>1 DEF Start, Acquire, Table!Start, Table!Acquire
<1>6. ASSUME NEW p \in Proxies, RegisterProxy(c, p) PROVE Table!RegisterProxy(c, p)
  BY <1>1, <1>2, <1>6 DEF RegisterProxy, Table!RegisterProxy
<1>7. ASSUME NEW p \in Proxies
      PROVE  /\ CloseProxy(c, p) => Table!CloseProxy(c, p)
             /\ ReleaseNext(c, p) => Table!ReleaseNext(c, p)
  BY <1>1 DEF CloseProxy, ReleaseNext, Table!CloseProxy, Table!ReleaseNext
<1>8. /\ NeverStarts(c) => Table!NeverStarts(c)
      /\ DispatcherDone(c) => Table!DispatcherDone(c)
      /\ RunFails(c) => Table!RunFails(c)
      /\ AddFails(c) => Table!AddFails(c)
  BY <1>1
     DEF NeverStarts, DispatcherDone, RunFails, AddFails,
         Table!NeverStarts, Table!DispatcherDone, Table!RunFails, Table!AddFails
<1>9. Add(c) => Table!Add(c)
  BY <1>1 DEF Add, Table!Add
<1>10. /\ Abort(c) => Table!Abort(c)
       /\ ClosePxy(c) => Table!ClosePxy(c)
       /\ CloseEach(c) => Table!CloseEach(c)
  BY <1>1
     DEF Abort, ClosePxy, CloseEach, Close,
         Table!Abort, Table!ClosePxy, Table!CloseEach, Table!Close
<1>11. /\ DelPxy(c) => Table!DelPxy(c)
       /\ DelEach(c) => Table!DelEach(c)
  BY <1>1 DEF DelPxy, DelEach, Del, Table!DelPxy, Table!DelEach, Table!Del
<1>12. WorkerDone(c) => Table!WorkerDone(c)
  BY <1>1 DEF WorkerDone, Release, Table!WorkerDone, Table!Release
<1> HIDE DEF Goto, leaseVars, tableVars, TableLoop, Table!Goto, Table!leaseVars,
             Table!tableVars
<1> QED
  BY ZenonT(30), <1>4, <1>5, <1>6, <1>7, <1>8, <1>9, <1>10, <1>11, <1>12
     DEF ProxyStep, HandlerStep, Table!ProxyStep, Table!HandlerStep

\* The other steps leave the tables alone; a loop is never taken back to none.
LEMMA SessionStepMaps ==
  ASSUME NatHoleInv, UNCHANGED <<leaseVars, cpc, cur, owner, name, shut, tableVars>>,
         \A p \in Proxies : loop'[p] = "none" <=> loop[p] = "none"
  PROVE  UNCHANGED Table!proxyVars
<1>1. TableLoop' = TableLoop
  BY DEF TableLoop
<1> QED
  BY <1>1 DEF TableLoop, Table!proxyVars, Table!leaseVars, Table!tableVars, leaseVars, tableVars

LEMMA NatHoleStepMaps ==
  ASSUME NatHoleInv, [NatHoleNext]_natHoleVars
  PROVE  [Table!ProxyNext]_(Table!proxyVars)
<1>t. ProxyTypeOK
  BY DEF NatHoleInv, ProxyInv
<1>1. ASSUME NEW c \in Controls, ProxyStep(c) PROVE Table!ProxyNext
  BY <1>1, TableStepMaps DEF Table!ProxyNext
<1>2. ASSUME NEW p \in Proxies, LoopStep(p) PROVE UNCHANGED Table!proxyVars
  <2>1. /\ loop[p] # "none"
        /\ \E l \in {"select", "busy", "exited"} : loop' = [loop EXCEPT ![p] = l]
        /\ UNCHANGED <<leaseVars, cpc, cur, owner, name, shut, tableVars>>
    BY ZenonT(30), <1>2 DEF LoopStep, Receive, TellClient, LoopExits
  <2>2. \A q \in Proxies : loop'[q] = "none" <=> loop[q] = "none"
    BY <1>t, <2>1 DEF ProxyTypeOK
  <2> QED
    BY <2>1, <2>2, SessionStepMaps
<1>3. CASE UNCHANGED proxyVars
  BY <1>3, SessionStepMaps DEF proxyVars
<1> QED
  BY ZenonT(30), <1>1, <1>2, <1>3
     DEF NatHoleNext, AllServed, natHoleVars, ClientStep, VisitStep, Refuse, HandleVisitor,
         HandleClient, SetClient, Notify, Woken, Timeout, Analysis, Respond, EndVisit

(***************************************************************************)
(* HandleVisitor, HandleClient and the loops of the proxies never touch    *)
(* the tables: with them every step is one of ProxyTable's or none, so     *)
(* what is shown of the tables alone holds under any load of visitors.     *)
(***************************************************************************)
THEOREM VisitorsKeepTables == NatHoleSpec => ImplementsProxyTable
<1>1. NatHoleInit => Table!ProxyInit
  BY DEF NatHoleInit, ProxyInit, LeaseInit, Table!ProxyInit, Table!LeaseInit
<1> QED
  BY <1>1, NatHoleStepMaps, NatHoleInvariance, PTL
     DEF NatHoleSpec, ImplementsProxyTable, Table!ProxySpec
=============================================================================
