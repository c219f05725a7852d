--------------------------- MODULE ClientService ---------------------------
(***************************************************************************)
(* The client's Service, with its login (LoginHandshake) and the sources   *)
(* of its configuration (ConfigEntries).  The store is left by an earlier  *)
(* process and changes in single steps, as ConfigStore shows it does.      *)
(*                                                                         *)
(* Three goroutines share svr.ctl and the configuration: the one that logs *)
(* in again whenever the control has ended, one that reloads, and the one  *)
(* in Run that stops the service.  The first also reads svr.ctl without    *)
(* the lock; if it is nil then, the process dies.  A control is named      *)
(* after its connection.                                                   *)
(***************************************************************************)
EXTENDS LoginHandshake, ConfigEntries

CONSTANTS
  Starts,     \* start lists, {} for none
  MaxReload   \* bound: reloads

Nil == 0

VARIABLES
  entries,    \* of the store
  cfg,        \* proxyCfgs and visitorCfgs
  ctl,        \* Service.ctl
  attempt,    \* connections used so far; the last one is being logged in
  login,      \* where the goroutine that logs in is
  waiting,    \* the control whose Done it waits for
  read,       \* the configuration loginFunc has read
  applied,    \* what a control has been given last
  done,       \* Control.doneCh is closed
  first,      \* in the first loopLoginUntilSuccess
  phase,      \* of Run: up, cancelled, stopping, stopped or dead
  reload,     \* where a reload is
  target,     \* the configuration the last reload, or the start, computed
  overlap,    \* the last reload fell between loginFunc's read and the install
  reloads

serviceVars == <<cfg, ctl, attempt, login, waiting, read, applied, done, first,
                 phase, reload, target, overlap, reloads>>
allVars == <<loginVars, entries, serviceVars>>

ctlVars == <<attempt, login, waiting, read, done, first>>
configVars == <<cfg, target, overlap>>

\* What the sources give, at the start and in reloadConfigFromSourcesLocked.
FromSources(main, list) == Filter(list, Load(main, entries))

\* LoadClientConfigResult accepts the files, and the sources are read.
Loaded(main, included, list) ==
  /\ NoDuplicates(main, included)
  /\ cfg' = FromSources(Merged(main, included), list)
  /\ target' = cfg'

ServiceInit ==
  /\ LoginInit /\ entries \in Entries
  /\ cfg = Empty /\ target = Empty
  /\ ctl = Nil /\ attempt = 0 /\ login = "off" /\ waiting = Nil
  /\ read = Empty
  /\ applied = [c \in Conns |-> Empty]
  /\ done = [c \in Conns |-> FALSE]
  /\ first = TRUE
  /\ phase = "off"
  /\ reload = "idle" /\ overlap = FALSE
  /\ reloads = 0

\* runClient: the files are read, and refused or run.
Start(main, included, list) ==
  /\ phase = "off"
  /\ UNCHANGED <<loginVars, entries>>
  /\ Loaded(main, included, list)
  /\ phase' = "up" /\ login' = "pause" /\ first' = TRUE
  /\ UNCHANGED <<ctl, attempt, waiting, read, applied, done, reload, overlap,
                 reloads>>

-----------------------------------------------------------------------------
(* loopLoginUntilSuccess and keepControllerWorking.                        *)

LoginStep(from, to) ==
  /\ login = from /\ phase \notin {"off", "dead"}
  /\ login' = to

\* BackoffUntil tries again, unless the context is done.
Attempt ==
  /\ LoginStep("pause", "dial")
  /\ phase = "up" /\ attempt < MaxConn
  /\ attempt' = attempt + 1
  /\ UNCHANGED <<loginVars, entries, configVars, phase, ctl, waiting, read, applied,
                 done, first, reload, reloads>>

Dialing ==
  /\ login = "dial"
  /\ LoginClient(attempt)
  /\ UNCHANGED <<entries, serviceVars>>

\* With LoginFailExit the first failure ends the service.
DialFailed ==
  /\ LoginStep("dial", "pause") /\ dialer[attempt] = "failed"
  /\ phase' \in {phase} \cup (IF first THEN {"cancelled"} ELSE {})
  /\ UNCHANGED <<loginVars, entries, configVars, ctl, attempt, waiting, read, applied,
                 done, first, reload, reloads>>

ReadCfg ==
  /\ LoginStep("dial", "run") /\ dialer[attempt] = "session"
  /\ read' = cfg
  /\ overlap' = FALSE
  /\ UNCHANGED <<loginVars, entries, cfg, target, phase, ctl, attempt,
                 waiting, applied, done, first, reload, reloads>>

\* NewControl and its Run.
RunControl ==
  /\ LoginStep("run", "install")
  /\ applied' = [applied EXCEPT ![attempt] = read]
  /\ UNCHANGED <<loginVars, entries, configVars, phase, ctl, attempt, waiting, read,
                 done, first, reload, reloads>>

\* Control.Close stops what it runs and closes its session.
CloseControl(c) ==
  /\ applied' = [applied EXCEPT ![c] = Empty]
  /\ CloseLink(c)
  /\ UNCHANGED <<protocol, runID, issued, dialer, server, toServer, toClient,
                 clientCipher, serverCipher, clientID, serverID>>

Install ==
  /\ LoginStep("install", IF first THEN "await" ELSE "check")
  /\ IF ctl # Nil THEN CloseControl(ctl) ELSE UNCHANGED <<applied, loginVars>>
  /\ ctl' = attempt
  /\ first' = FALSE
  /\ UNCHANGED <<entries, configVars, phase, attempt, waiting, read, done, reload, reloads>>

\* The context is done while it backs off: the loop returns, to Run or to
\* keepControllerWorking, whose own loop ends likewise.
LoopReturns ==
  /\ \E to \in IF first THEN {"end"} ELSE {"check", "end"} : LoginStep("pause", to)
  /\ phase # "up"
  /\ UNCHANGED <<loginVars, entries, configVars, phase, ctl, attempt, waiting, read,
                 applied, done, first, reload, reloads>>

\* if svr.ctl != nil
CheckControl ==
  /\ LoginStep("check", IF ctl # Nil THEN "await" ELSE "end")
  /\ UNCHANGED <<loginVars, entries, configVars, phase, ctl, attempt, waiting, read,
                 applied, done, first, reload, reloads>>

\* <-svr.ctl.Done() reads svr.ctl again.
AwaitControl ==
  /\ LoginStep("await", "wait")
  /\ ctl # Nil
  /\ waiting' = ctl
  /\ UNCHANGED <<loginVars, entries, configVars, phase, ctl, attempt, read, applied,
                 done, first, reload, reloads>>

AwaitNil ==
  /\ LoginStep("await", "end")
  /\ ctl = Nil
  /\ phase' = "dead"
  /\ UNCHANGED <<loginVars, entries, configVars, ctl, attempt, waiting,
                 read, applied, done, first, reload, reloads>>

ControlDone ==
  /\ LoginStep("wait", "pause")
  /\ done[waiting]
  /\ UNCHANGED <<loginVars, entries, configVars, phase, ctl, attempt, waiting, read,
                 applied, done, first, reload, reloads>>

\* Control.worker: the session has ended, its proxies and visitors are stopped.
WorkerDone(c) ==
  /\ phase \notin {"off", "dead"}
  /\ dialer[c] = "session" /\ link[c] = "down" /\ ~done[c]
  /\ c = attempt => login \notin {"dial", "run"}
  /\ done' = [done EXCEPT ![c] = TRUE]
  /\ applied' = [applied EXCEPT ![c] = Empty]
  /\ UNCHANGED <<loginVars, entries, configVars, phase, ctl, attempt, login, waiting,
                 read, first, reload, reloads>>

LoginLoop ==
  \/ Attempt \/ DialFailed \/ ReadCfg \/ RunControl \/ Install
  \/ LoopReturns \/ CheckControl \/ AwaitControl \/ AwaitNil \/ ControlDone

-----------------------------------------------------------------------------
(* A reload: reloadMu is held throughout.                                  *)

ReloadSet_NotKept(main, list) ==
  /\ phase \in {"up", "cancelled"} /\ reload = "idle" /\ reloads < MaxReload
  /\ target' = FromSources(main, list)
  /\ overlap' = (login \in {"run", "install"})
  /\ reload' = "ctl" /\ reloads' = reloads + 1
  /\ UNCHANGED <<loginVars, entries, cfg, phase, ctl, attempt, login, waiting, read,
                 applied, done, first>>

\* UpdateConfigSource and reloadConfigFromSources, up to the assignment in
\* UpdateAllConfigurer.  The store is read under its own lock.
ReloadSet(main, list) ==
  /\ phase \in {"up", "cancelled"} /\ reload = "idle" /\ reloads < MaxReload
  /\ cfg' = FromSources(main, list)
  /\ target' = cfg'
  /\ overlap' = (login \in {"run", "install"})
  /\ reload' = "ctl" /\ reloads' = reloads + 1
  /\ UNCHANGED <<loginVars, entries, phase, ctl, attempt, login, waiting, read,
                 applied, done, first>>

\* The control is copied under the lock, and the copy compared with nil.
ReloadControl ==
  /\ reload = "ctl" /\ phase # "dead"
  /\ reload' = IF ctl = Nil THEN "idle" ELSE "apply"
  /\ UNCHANGED <<loginVars, entries, configVars, phase, ctl, attempt, login, waiting,
                 read, applied, done, first, reloads>>

\* What is used is svr.ctl, read again without the lock.
ReloadApply ==
  /\ reload = "apply" /\ phase # "dead"
  /\ reload' = "idle"
  /\ applied' = IF ctl = Nil THEN applied ELSE [applied EXCEPT ![ctl] = target]
  /\ phase' = IF ctl = Nil THEN "dead" ELSE phase
  /\ UNCHANGED <<loginVars, entries, configVars, ctl, attempt, login,
                 waiting, read, done, first, reloads>>

-----------------------------------------------------------------------------
(* Run and stop.                                                           *)

\* Close, GracefulClose or a signal.
Cancel ==
  /\ phase = "up"
  /\ phase' = "cancelled"
  /\ UNCHANGED <<loginVars, entries, configVars, ctl, ctlVars, applied,
                 reload, reloads>>

StopSources_Unlocked ==
  /\ phase = "cancelled"
  /\ first => login = "end"
  /\ phase' = "stopping"
  /\ UNCHANGED <<loginVars, entries, configVars, ctl, ctlVars, applied,
                 reload, reloads>>

\* stop drops the sources when no reload is running, then closes the control.
\* During the first login it is Run itself that is in the loop.
StopSources ==
  /\ phase = "cancelled" /\ reload = "idle"
  /\ first => login = "end"
  /\ phase' = "stopping"
  /\ UNCHANGED <<loginVars, entries, configVars, ctl, ctlVars, applied,
                 reload, reloads>>

StopControl_NotClosed ==
  /\ phase = "stopping"
  /\ phase' = "stopped"
  /\ ctl' = Nil
  /\ UNCHANGED <<loginVars, entries, configVars, ctlVars, applied, reload, reloads>>

StopControl ==
  /\ phase = "stopping"
  /\ phase' = "stopped"
  /\ ctl' = Nil
  /\ IF ctl # Nil THEN CloseControl(ctl) ELSE UNCHANGED <<applied, loginVars>>
  /\ UNCHANGED <<entries, configVars, ctlVars, reload, reloads>>

-----------------------------------------------------------------------------
ChangeStore ==
  /\ phase \notin {"off", "dead"}
  /\ \E k \in Keys, v \in Cfgs \cup {NoCfg} : entries' = [entries EXCEPT ![k] = v]
  /\ UNCHANGED <<loginVars, serviceVars>>

\* The server handles each connection, or stream, in a goroutine of its own.
ServerStep(c) ==
  /\ LoginServer(c)
  /\ UNCHANGED <<entries, serviceVars>>

ServiceNext ==
  \/ \E main, included \in Entries, list \in Starts : Start(main, included, list)
  \/ LoginLoop \/ Dialing
  \/ \E c \in Conns : WorkerDone(c) \/ ServerStep(c)
  \/ \E main \in Entries, list \in Starts : ReloadSet(main, list)
  \/ ReloadControl \/ ReloadApply
  \/ Cancel \/ StopSources \/ StopControl
  \/ ChangeStore

\* The client's own goroutines run, and its deadlines pass.  Nothing is asked
\* of the server, of the network or of whoever reloads.
ServiceFairness ==
  /\ WF_allVars(LoginLoop) /\ WF_allVars(Dialing)
  /\ \A c \in Conns : WF_allVars(WorkerDone(c))
  /\ WF_allVars(ReloadControl) /\ WF_allVars(ReloadApply)
  /\ WF_allVars(StopSources) /\ WF_allVars(StopControl)

ServiceSpec == ServiceInit /\ [][ServiceNext]_allVars /\ ServiceFairness

-----------------------------------------------------------------------------
(***************************************************************************)
(* Whatever the files, their includes and the store hold, every entry that *)
(* is enabled and in the start list is run when the service starts, unless *)
(* the store has an enabled entry of its name: no entry is lost to another *)
(* one of the files, which is what validateNoDuplicateNames is for.        *)
(***************************************************************************)
StartKeepsEntries ==
  [][\A main, included \in Entries, list \in Starts : Start(main, included, list) =>
       \A k \in Keys : \A e \in {main[k], included[k]} :
         Enabled(e) /\ (list = {} \/ k \in list) => cfg'[k] = e \/ Enabled(entries[k])]_allVars

(***************************************************************************)
(* A control that is up runs what the last reload asked for, also after    *)
(* the connection was lost and made again, unless that reload fell between *)
(* the moment loginFunc reads the configuration and the one it installs    *)
(* the control.                                                            *)
(***************************************************************************)
ReloadApplied ==
  phase = "up" /\ login = "wait" /\ reload = "idle" /\ ~done[ctl] /\ ~overlap
    => applied[ctl] = target

(***************************************************************************)
(* Two places test svr.ctl and then read it again without the lock.  The   *)
(* one in UpdateAllConfigurer finds a control, because stop waits for the  *)
(* reload before it takes the control away, and no reload begins after     *)
(* that; the one in keepControllerWorking finds nil only after stop.       *)
(***************************************************************************)
ControlNotNil ==
  /\ reload = "apply" /\ phase # "dead" => ctl # Nil
  /\ login = "await" /\ ctl = Nil => phase \in {"stopped", "dead"}

(***************************************************************************)
(* No session is left open behind the service's back: one whose connection *)
(* is up is that of svr.ctl or of the control that is about to be          *)
(* installed, through failed attempts, lost controls, reloads and stop;    *)
(* and the goroutine that waits for a control's end waits for svr.ctl's,   *)
(* or for one that has been closed.                                        *)
(***************************************************************************)
NoSessionLeaks ==
  /\ \A c \in Conns : dialer[c] = "session" /\ link[c] = "up" =>
       c = ctl \/ (c = attempt /\ login \in {"dial", "run", "install"})
  /\ login = "wait" => waiting = ctl \/ link[waiting] = "down"

(***************************************************************************)
(* The service goes on: an attempt to log in ends whatever the server does *)
(* or does not do, a lost control leads to the next attempt, and a service *)
(* told to stop does.                                                      *)
(***************************************************************************)
ServiceGoesOn ==
  /\ phase = "up" /\ login # "wait" ~> phase # "up" \/ login = "wait" \/ attempt = MaxConn
  /\ login = "dial" ~> login # "dial"
  /\ phase = "up" /\ login = "wait" /\ link[ctl] = "down" ~> phase # "up" \/ login # "wait"
  /\ phase = "cancelled" ~> phase # "cancelled"

=============================================================================
