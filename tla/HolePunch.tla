----------------------------- MODULE HolePunch -----------------------------
(***************************************************************************)
(* How a hole is punched: pkg/nathole/nathole.go on both sides, as called  *)
(* by client/visitor/xtcp.go and client/proxy/xtcp.go.                     *)
(*                                                                         *)
(* The two peers of a session get their roles from the server.  Both send  *)
(* detection messages to each other, the sender from one socket, the       *)
(* receiver possibly from several; the receiver answers the first it gets  *)
(* on a socket, the sender waits for an answer.  Datagrams may be lost,    *)
(* doubled and late, and hit a socket of another session: ports are        *)
(* guessed.  So what has been sent may arrive at any time, or never.       *)
(***************************************************************************)
EXTENDS Naturals

CONSTANTS
  MaxSid,     \* bound: sessions of a visitor, one after the other
  MaxSocket   \* bound: sockets of a receiver (ListenRandomPorts + 1)

ASSUME PunchConstants == MaxSid \in Nat /\ MaxSocket \in Nat \ {0}

Sids == 1..MaxSid
Peers == {"visitor", "client"}
Ends == Peers \X Sids
Sockets == 1..MaxSocket     \* 1 is the one Prepare has opened
Nothing == [addr |-> <<>>, reply |-> FALSE]

VARIABLES
  step,       \* of an end: where makeNatHole, or InWorkConn, is
  sender,     \* of a session: the peer with the role of the sender
  sock,       \* of an end's sockets: none, open, wait, found, held by the caller, closed
  from        \* where the message a socket has found is from, and whether it is a reply

punchVars == <<step, sender, sock, from>>

Other(e) == <<IF e[1] = "visitor" THEN "client" ELSE "visitor", e[2]>>
IsSender(e) == sender[e[2]] = e[1]
Single(e) == MaxSocket = 1 \/ sock[e][2] = "none"

PunchInit ==
  /\ step = [e \in Ends |-> "idle"]
  /\ sender \in [Sids -> Peers]
  /\ sock = [e \in Ends |-> [x \in Sockets |-> "none"]]
  /\ from = [e \in Ends |-> [x \in Sockets |-> Nothing]]

-----------------------------------------------------------------------------
Over == {"unprepared", "refused", "ok", "failed"}

GoTo(e, before, after) ==
  /\ step[e] = before
  /\ step' = [step EXCEPT ![e] = after]

\* The request of an end has not been sent.
Unheard == {"idle", "unprepared"}

\* The visitor makes one tunnel at a time; the client has read the ID of a
\* session the visitor has asked for.
MayStart(e) ==
  IF e[1] = "visitor" THEN \A s \in 1..(e[2] - 1) : step[<<"visitor", s>>] \in Over
  ELSE step[Other(e)] \notin Unheard

\* PreCheck fails, or Discover gets no address from the STUN server in time.
DiscoverFails(e) ==
  /\ MayStart(e)
  /\ GoTo(e, "idle", "unprepared")
  /\ UNCHANGED <<sender, sock, from>>

\* Prepare: the address is discovered, and the socket opened.
Prepare(e) ==
  /\ MayStart(e)
  /\ GoTo(e, "idle", "exchange")
  /\ sock' = [sock EXCEPT ![e][1] = "open"]
  /\ UNCHANGED <<sender, from>>

\* ExchangeInfo: Do has sent the request and gets the answer to it, once the
\* server has heard from both.
ExchangeInfo(e) ==
  /\ step[Other(e)] \notin Unheard
  /\ GoTo(e, "exchange", "send")
  /\ UNCHANGED <<sender, sock, from>>

\* No answer in time, or an error in it.
ExchangeFails(e) ==
  /\ GoTo(e, "exchange", "refused")
  /\ sock' = [sock EXCEPT ![e][1] = "closed"]
  /\ UNCHANGED <<sender, from>>

\* MakeHole up to the wait: the receiver may open more sockets; messages are
\* sent from all of them.
SendSidMessages(e) ==
  /\ \E n \in Sockets :
       /\ IsSender(e) => n = 1
       /\ sock' = [sock EXCEPT ![e] = [x \in Sockets |-> IF x <= n THEN "wait" ELSE "none"]]
       /\ GoTo(e, "send", IF n = 1 THEN "select" ELSE "spawn")
  /\ UNCHANGED <<sender, from>>

\* With several sockets, each in a goroutine, MakeHole comes to its select.
Select(e) ==
  /\ GoTo(e, "spawn", "select")
  /\ UNCHANGED <<sender, sock, from>>

-----------------------------------------------------------------------------
(* waitDetectMessage.                                                      *)

Sent(e) == step[e] \in {"spawn", "select", "ok", "failed"}

\* On its only socket MakeHole waits itself.
Found(e, x, msg) ==
  /\ from' = [from EXCEPT ![e][x] = msg]
  /\ sock' = [sock EXCEPT ![e][x] = IF Single(e) THEN "held" ELSE "found"]
  /\ step' = [step EXCEPT ![e] = IF Single(e) THEN "ok" ELSE @]
  /\ UNCHANGED sender

SameSid_Unchecked(e, f) == TRUE
SameSid(e, f) == e[2] = f[2]

\* A message of the session, not a reply: a sender goes on waiting, a receiver
\* replies.
ReceiveSid(e, x, f, y) ==
  /\ sock[e][x] = "wait" /\ ~IsSender(e)
  /\ f[1] # e[1] /\ Sent(f) /\ sock[f][y] # "none"
  /\ SameSid(e, f)
  /\ Found(e, x, [addr |-> <<f, y>>, reply |-> FALSE])

\* The reply has the session ID of what it replies to.
ReceiveReply(e, x, f, y) ==
  /\ sock[e][x] = "wait"
  /\ from[f][y] = [addr |-> <<e, x>>, reply |-> FALSE]
  /\ Found(e, x, [addr |-> <<f, y>>, reply |-> TRUE])

\* A goroutine offers its socket; MakeHole takes it if it is in its select.
Deliver_Waits(e, x) ==
  /\ sock[e][x] = "found"
  /\ step[e] = "select"
  /\ sock' = [sock EXCEPT ![e][x] = "held"]
  /\ step' = [step EXCEPT ![e] = "ok"]
  /\ UNCHANGED <<sender, from>>
Deliver(e, x) ==
  /\ sock[e][x] = "found"
  /\ sock' = [sock EXCEPT ![e][x] = IF step[e] = "select" THEN "held" ELSE "closed"]
  /\ step' = [step EXCEPT ![e] = IF @ = "select" THEN "ok" ELSE @]
  /\ UNCHANGED <<sender, from>>

\* The read deadline passes.
WaitTimesOut(e, x) ==
  /\ sock[e][x] = "wait"
  /\ sock' = [sock EXCEPT ![e][x] = "closed"]
  /\ step' = [step EXCEPT ![e] = IF Single(e) THEN "failed" ELSE @]
  /\ UNCHANGED <<sender, from>>

\* MakeHole's own time is up, or the context is done; the caller closes the
\* socket it knows.
MakeHoleFails(e) ==
  /\ GoTo(e, "select", "failed") /\ ~Single(e)
  /\ sock' = [sock EXCEPT ![e][1] = "closed"]
  /\ UNCHANGED <<sender, from>>

EndStep(e) ==
  \/ ExchangeFails(e) \/ SendSidMessages(e) \/ Select(e) \/ MakeHoleFails(e)

SocketStep(e, x) == Deliver(e, x) \/ WaitTimesOut(e, x)

PunchNext ==
  \/ \E e \in Ends : DiscoverFails(e) \/ Prepare(e) \/ ExchangeInfo(e) \/ EndStep(e)
  \/ \E e, f \in Ends, x, y \in Sockets : ReceiveSid(e, x, f, y) \/ ReceiveReply(e, x, f, y)
  \/ \E e \in Ends, x \in Sockets : SocketStep(e, x)

\* Deadlines pass and goroutines run; no datagram need arrive.
PunchFairness ==
  \A e \in Ends :
    WF_punchVars(EndStep(e)) /\ \A x \in Sockets : WF_punchVars(SocketStep(e, x))

PunchSpec == PunchInit /\ [][PunchNext]_punchVars /\ PunchFairness

-----------------------------------------------------------------------------
(***************************************************************************)
(* A sender that has its hole has it with the other peer of its session,   *)
(* to a socket that has got the sender's message and answered it; if the   *)
(* receiver listens on one socket only, it has the hole too, back to the   *)
(* sender.  (With several, it may have returned another or none.)          *)
(***************************************************************************)
HoleMatches ==
  \A e \in Ends : IsSender(e) /\ step[e] = "ok" =>
    LET f == from[e][1].addr[1]
        y == from[e][1].addr[2]
    IN /\ f = Other(e)
       /\ from[f][y] = [addr |-> <<e, 1>>, reply |-> FALSE]
       /\ Single(f) => step[f] = "ok"

(***************************************************************************)
(* MakeHole comes to an end on both sides, and every socket but the one it *)
(* returns is closed, whichever of them finds a message and when.          *)
(***************************************************************************)
SocketsSettle ==
  \A e \in Ends :
    /\ step[e] = "exchange" ~> step[e] \in Over
    /\ \A x \in Sockets : sock[e][x] = "wait" ~>
          sock[e][x] = "closed" \/ (sock[e][x] = "held" /\ step[e] = "ok")

=============================================================================
