---------------------------- MODULE TunnelProofs ----------------------------
(***************************************************************************)
(* How a hole is punched, and who keeps the tunnel made of it.             *)
(*                                                                         *)
(* HoleMatches holds for any number of sessions and sockets: a reply is    *)
(* evidence of what the other end has found, and what a socket has found   *)
(* is never forgotten, because only a socket that waits finds anything and *)
(* none waits twice.                                                       *)
(*                                                                         *)
(* TunnelsKept holds for any visitors, users and numbers of tunnels.  The  *)
(* heart of it is when a session can be replaced: only by a tunnel whose   *)
(* start was due when the session was installed.                           *)
(***************************************************************************)
EXTENDS HolePunch, XTCPVisitor, TLAPS

-----------------------------------------------------------------------------
(* Punching a hole.                                                        *)

Early == {"idle", "unprepared", "exchange", "refused", "send"}
Late == {"spawn", "select", "ok", "failed"}
States == {"none", "open", "wait", "found", "held", "closed"}
Messages == [addr : Ends \X Sockets, reply : BOOLEAN]

PunchTypeOK ==
  /\ step \in [Ends -> Early \cup Late]
  /\ sender \in [Sids -> Peers]
  /\ sock \in [Ends -> [Sockets -> States]]
  /\ from \in [Ends -> [Sockets -> Messages \cup {Nothing}]]

\* Before MakeHole has sent anything nothing is found.
EarlyOK ==
  \A e \in Ends, x \in Sockets : step[e] \in Early =>
    /\ from[e][x] = Nothing
    /\ sock[e][x] \in {"none", "open", "closed"}
    /\ x # 1 => sock[e][x] = "none"

\* Who waits on one socket has no other; a sender does.
SocketOK ==
  \A e \in Ends, x \in Sockets :
    /\ x # 1 /\ (IsSender(e) \/ Single(e)) => sock[e][x] = "none"
    /\ from[e][x] # Nothing => sock[e][x] \in {"found", "held", "closed"}
    /\ sock[e][x] = "found" => ~Single(e)

\* A message that is no reply came from the other peer of the session, to its
\* receiver, who holds the hole if it waits on one socket.
FoundOK ==
  \A e \in Ends, x \in Sockets : from[e][x] # Nothing =>
    /\ from[e][x].reply = FALSE => ~IsSender(e) /\ from[e][x].addr[1] = Other(e)
    /\ Single(e) => step[e] = "ok"

\* A reply is to a message its sender has found.
ReplyOK ==
  \A e, f \in Ends, x, y \in Sockets :
    from[e][x] = [addr |-> <<f, y>>, reply |-> TRUE] =>
      from[f][y] = [addr |-> <<e, x>>, reply |-> FALSE]

\* A sender's hole comes from a reply.
SenderOK ==
  \A e \in Ends : IsSender(e) /\ step[e] = "ok" =>
    from[e][1] # Nothing /\ from[e][1].reply = TRUE

PunchInv == PunchTypeOK /\ EarlyOK /\ SocketOK /\ FoundOK /\ ReplyOK /\ SenderOK

-----------------------------------------------------------------------------
LEMMA PeerFacts ==
  /\ 1 \in Sockets
  /\ \A e \in Ends : Other(e) \in Ends /\ Other(Other(e)) = e
  /\ \A e, f \in Ends : f[1] # e[1] /\ f[2] = e[2] => f = Other(e)
  BY PunchConstants DEF PunchConstants, Ends, Peers, Other, Sockets

\* What is found is never nothing.
LEMMA MessageFacts ==
  \A f \in Ends, y \in Sockets :
    /\ [addr |-> <<f, y>>, reply |-> TRUE] \in Messages \ {Nothing}
    /\ [addr |-> <<f, y>>, reply |-> FALSE] \in Messages \ {Nothing}
  BY DEF Messages, Nothing

LEMMA PunchInitInv == PunchInit => PunchInv
<1> SUFFICES ASSUME PunchInit PROVE PunchInv
  OBVIOUS
<1>1. \A e \in Ends, x \in Sockets : step[e] = "idle" /\ sock[e][x] = "none" /\ from[e][x] = Nothing
  BY DEF PunchInit
<1>2. PunchTypeOK
  BY DEF PunchInit, PunchTypeOK, Early, Late, States
<1>3. ReplyOK
  <2> SUFFICES ASSUME NEW e \in Ends, NEW f \in Ends, NEW x \in Sockets, NEW y \in Sockets
               PROVE  from[e][x] # [addr |-> <<f, y>>, reply |-> TRUE]
    BY DEF ReplyOK
  <2>1. [addr |-> <<f, y>>, reply |-> TRUE] # Nothing
    BY MessageFacts
  <2> QED
    BY <1>1, <2>1
<1>4. EarlyOK /\ SocketOK
  BY <1>1 DEF EarlyOK, SocketOK
<1>5. FoundOK
  BY <1>1 DEF FoundOK
<1>6. SenderOK
  BY <1>1, PeerFacts DEF SenderOK
<1> QED
  BY <1>2, <1>3, <1>4, <1>5, <1>6 DEF PunchInv

\* What an end does before anything can be found.
LEMMA EarlyStepInv ==
  ASSUME PunchInv, NEW e \in Ends,
         DiscoverFails(e) \/ Prepare(e) \/ ExchangeInfo(e) \/ ExchangeFails(e)
  PROVE  PunchInv'
<1>1. /\ step[e] \in Early /\ step' = [step EXCEPT ![e] = step'[e]] /\ step'[e] \in Early
      /\ \E s \in {"none", "open", "closed"} : sock' = [sock EXCEPT ![e][1] = s]
      /\ UNCHANGED <<sender, from>>
  BY PeerFacts DEF DiscoverFails, Prepare, ExchangeInfo, ExchangeFails, GoTo, PunchInv, PunchTypeOK,
     Early, Late, EarlyOK
<1>2. PunchTypeOK'
  <2>1. PICK s \in States : sock' = [sock EXCEPT ![e][1] = s]
    BY <1>1 DEF States
  <2>2. sock' \in [Ends -> [Sockets -> States]]
    BY <2>1 DEF PunchInv, PunchTypeOK
  <2> QED
    BY <1>1, <2>2 DEF PunchInv, PunchTypeOK
<1>3. \A f \in Ends : /\ (step'[f] \in Early) = (step[f] \in Early)
                      /\ f # e => step'[f] = step[f] /\ sock'[f] = sock[f]
                      /\ (step'[f] = "ok") = (step[f] = "ok")
  BY <1>1 DEF PunchInv, PunchTypeOK, Early
<1>4. \A x \in Sockets : x # 1 => sock'[e][x] = "none"
  BY <1>1 DEF PunchInv, PunchTypeOK, EarlyOK
<1>5. EarlyOK'
  BY <1>1, <1>3, <1>4, PeerFacts DEF PunchInv, PunchTypeOK, EarlyOK
<1>6. \A f \in Ends : Single(f)' = Single(f) /\ IsSender(f)' = IsSender(f)
  BY <1>1, PeerFacts, PunchConstants
  DEF PunchConstants, Sockets, Single, IsSender, PunchInv, PunchTypeOK
<1>7. SocketOK' 
  BY <1>1, <1>3, <1>4, <1>5, <1>6 DEF PunchInv, SocketOK, EarlyOK
<1>8. FoundOK' /\ SenderOK'
  BY <1>1, <1>3, <1>6 DEF PunchInv, FoundOK, SenderOK
<1>9. ReplyOK'
  BY <1>1 DEF PunchInv, ReplyOK
<1> QED
  BY <1>2, <1>5, <1>7, <1>8, <1>9 DEF PunchInv

\* MakeHole sends, from one socket or several.
LEMMA SendInv == ASSUME PunchInv, NEW e \in Ends, SendSidMessages(e) PROVE PunchInv'
<1>1. PICK n \in Sockets :
        /\ IsSender(e) => n = 1
        /\ sock' = [sock EXCEPT ![e] = [x \in Sockets |-> IF x <= n THEN "wait" ELSE "none"]]
        /\ step[e] = "send"
        /\ step' = [step EXCEPT ![e] = IF n = 1 THEN "select" ELSE "spawn"]
        /\ UNCHANGED <<sender, from>>
  BY DEF SendSidMessages, GoTo
<1>2. PunchTypeOK'
  BY <1>1 DEF PunchInv, PunchTypeOK, States, Late
<1>3. /\ step'[e] \in {"select", "spawn"}
      /\ \A x \in Sockets : /\ sock'[e][x] = IF x <= n THEN "wait" ELSE "none"
                            /\ from[e][x] = Nothing
      /\ \A f \in Ends : f # e => step'[f] = step[f] /\ sock'[f] = sock[f]
  BY <1>1 DEF PunchInv, PunchTypeOK, EarlyOK, Early
<1>4. /\ \A f \in Ends : IsSender(f)' = IsSender(f)
      /\ \A f \in Ends : f # e => Single(f)' = Single(f)
      /\ Single(e)' = (n = 1)
  BY <1>1, <1>3, PunchConstants DEF PunchConstants, Sockets, Single, IsSender
<1>5. EarlyOK'
  BY <1>1, <1>3 DEF PunchInv, EarlyOK, Early
<1>6. SocketOK'
  <2>1. \A x \in Sockets : x # 1 /\ n = 1 => sock'[e][x] = "none"
    BY <1>3, PunchConstants DEF PunchConstants, Sockets
  <2>2. \A x \in Sockets : sock'[e][x] # "found"
    BY <1>3
  <2> SUFFICES ASSUME NEW f \in Ends, NEW x \in Sockets
               PROVE  /\ x # 1 /\ (IsSender(f) \/ Single(f))' => sock'[f][x] = "none"
                      /\ from[f][x] # Nothing => sock'[f][x] \in {"found", "held", "closed"}
                      /\ sock'[f][x] = "found" => ~Single(f)'
    BY <1>1 DEF SocketOK
  <2>3. CASE f = e
    BY <2>3, <1>1, <1>3, <1>4, <2>1, <2>2
  <2>4. CASE f # e
    BY <2>4, <1>3, <1>4 DEF PunchInv, SocketOK
  <2> QED
    BY <2>3, <2>4
<1>7. FoundOK' /\ SenderOK'
  BY <1>1, <1>3, <1>4 DEF PunchInv, FoundOK, SenderOK
<1>8. ReplyOK'
  BY <1>1 DEF PunchInv, ReplyOK
<1> QED
  BY <1>2, <1>5, <1>6, <1>7, <1>8 DEF PunchInv

\* A sender waits on one socket.
LEMMA SenderIsSingle == ASSUME PunchInv, NEW e \in Ends, IsSender(e) PROVE Single(e)
  BY PunchConstants DEF PunchConstants, Sockets, PunchInv, SocketOK, Single

\* A socket of an end that has sent is closed or handed over, or the end goes on.
LEMMA LateStepInv ==
  ASSUME PunchInv, NEW e \in Ends, NEW x \in Sockets,
         Select(e) \/ MakeHoleFails(e) \/ Deliver(e, x) \/ WaitTimesOut(e, x)
  PROVE  PunchInv'
<1> DEFINE Kept == /\ step[e] \in Late /\ step' = [step EXCEPT ![e] = step'[e]] /\ step'[e] \in Late
                   /\ UNCHANGED <<sender, from>>
           Handled == \E y \in Sockets, s \in {"held", "closed"} :
                        sock' = [sock EXCEPT ![e][y] = s] /\ (y = 1 \/ sock[e][y] # "none")
           StillOk == step[e] = "ok" /\ Single(e) /\ (\E z \in Sockets : from[e][z] # Nothing)
                        => step'[e] = "ok"
           NewlyOk == step'[e] = "ok" => step[e] = "ok" \/ ~IsSender(e)
<1>1. Kept /\ (UNCHANGED sock \/ Handled) /\ StillOk /\ NewlyOk
  <2>1. CASE Select(e)
    BY <2>1 DEF Select, GoTo, PunchInv, PunchTypeOK, Late
  <2>2. CASE MakeHoleFails(e)
    <3>1. step[e] = "select" /\ step' = [step EXCEPT ![e] = "failed"] /\ ~Single(e)
          /\ sock' = [sock EXCEPT ![e][1] = "closed"] /\ UNCHANGED <<sender, from>>
      BY <2>2 DEF MakeHoleFails, GoTo
    <3>2. Kept
      BY <3>1 DEF PunchInv, PunchTypeOK, Late
    <3> QED
      BY <3>1, <3>2, PeerFacts DEF PunchInv, PunchTypeOK
  <2>3. CASE Deliver(e, x)
    <3>1. /\ sock[e][x] = "found" /\ ~Single(e) /\ ~IsSender(e) /\ step[e] \in Late
      BY <2>3, SenderIsSingle DEF Deliver, PunchInv, PunchTypeOK, EarlyOK, SocketOK
    <3>2. \E s \in {"held", "closed"} : sock' = [sock EXCEPT ![e][x] = s]
      BY <2>3 DEF Deliver
    <3>3. step' = [step EXCEPT ![e] = IF step[e] = "select" THEN "ok" ELSE step[e]]
          /\ UNCHANGED <<sender, from>>
      BY <2>3 DEF Deliver
    <3>4. Kept
      BY <3>1, <3>3 DEF PunchInv, PunchTypeOK, Late
    <3> QED
      BY <3>1, <3>2, <3>4
  <2>4. CASE WaitTimesOut(e, x)
    <3>1. sock[e][x] = "wait" /\ from[e][x] = Nothing /\ step[e] \in Late
      BY <2>4 DEF WaitTimesOut, PunchInv, PunchTypeOK, EarlyOK, SocketOK
    <3>2. Single(e) => \A z \in Sockets : from[e][z] = Nothing
      BY <3>1 DEF PunchInv, SocketOK
    <3>3. sock' = [sock EXCEPT ![e][x] = "closed"]
          /\ step' = [step EXCEPT ![e] = IF Single(e) THEN "failed" ELSE step[e]]
          /\ UNCHANGED <<sender, from>>
      BY <2>4 DEF WaitTimesOut
    <3>4. Kept
      BY <3>1, <3>3 DEF PunchInv, PunchTypeOK, Late
    <3>5. step'[e] = "ok" => step[e] = "ok"
      BY <3>3 DEF PunchInv, PunchTypeOK
    <3>6. Single(e) => ~\E z \in Sockets : from[e][z] # Nothing
      BY <3>2
    <3> QED
      BY <3>1, <3>3, <3>4, <3>5, <3>6
  <2> QED
    BY <2>1, <2>2, <2>3, <2>4
<1>2. sock' \in [Ends -> [Sockets -> States]]
  <2>1. ASSUME Handled PROVE sock' \in [Ends -> [Sockets -> States]]
    <3>1. PICK y \in Sockets, s \in States : sock' = [sock EXCEPT ![e][y] = s]
      BY <2>1 DEF States
    <3> QED
      BY <3>1 DEF PunchInv, PunchTypeOK
  <2> QED
    BY <1>1, <2>1 DEF PunchInv, PunchTypeOK
<1>3. \A f \in Ends, z \in Sockets :
        \/ sock'[f][z] = sock[f][z]
        \/ f = e /\ sock'[f][z] \in {"held", "closed"} /\ (z = 1 \/ sock[f][z] # "none")
  BY <1>1 DEF PunchInv, PunchTypeOK
<1>4. \A f \in Ends : f # e => step'[f] = step[f]
  BY <1>1 DEF PunchInv, PunchTypeOK
<1>5. \A f \in Ends : Single(f)' = Single(f) /\ IsSender(f)' = IsSender(f)
  BY <1>1, <1>3, PunchConstants DEF PunchConstants, Sockets, Single, IsSender
<1>6. PunchTypeOK'
  BY <1>1, <1>2 DEF PunchInv, PunchTypeOK
<1>7. EarlyOK'
  BY <1>1, <1>3, <1>4 DEF PunchInv, EarlyOK, Early, Late
<1>8. SocketOK'
  BY <1>1, <1>3, <1>5 DEF PunchInv, SocketOK
<1>9. FoundOK'
  BY <1>1, <1>4, <1>5 DEF PunchInv, FoundOK
<1>10. ReplyOK'
  BY <1>1 DEF PunchInv, ReplyOK
<1>11. SenderOK'
  BY <1>1, <1>4, <1>5 DEF PunchInv, SenderOK
<1> QED
  BY <1>6, <1>7, <1>8, <1>9, <1>10, <1>11 DEF PunchInv

\* A waiting socket finds a message of the other peer, or the reply to its own.
LEMMA FoundInv ==
  ASSUME PunchInv, NEW e \in Ends, NEW f \in Ends, NEW x \in Sockets, NEW y \in Sockets,
         ReceiveSid(e, x, f, y) \/ ReceiveReply(e, x, f, y)
  PROVE  PunchInv'
<1>1. PICK b \in BOOLEAN :
        /\ Found(e, x, [addr |-> <<f, y>>, reply |-> b])
        /\ sock[e][x] = "wait"
        /\ b = FALSE => ~IsSender(e) /\ f = Other(e)
        /\ b = TRUE => from[f][y] = [addr |-> <<e, x>>, reply |-> FALSE]
  BY PeerFacts DEF ReceiveSid, ReceiveReply, SameSid
<1> DEFINE msg == [addr |-> <<f, y>>, reply |-> b]
<1>2. /\ step[e] \in Late /\ from[e][x] = Nothing
      /\ b = TRUE => <<f, y>> # <<e, x>>
      /\ x # 1 => ~IsSender(e) /\ ~Single(e)
  <2>1. step[e] \in Late
    BY <1>1 DEF PunchInv, PunchTypeOK, EarlyOK
  <2>2. from[e][x] = Nothing /\ (x # 1 => ~IsSender(e) /\ ~Single(e))
    BY <1>1 DEF PunchInv, SocketOK
  <2>3. [addr |-> <<e, x>>, reply |-> FALSE] # Nothing
    BY MessageFacts
  <2>4. b = TRUE => f # e \/ y # x
    BY <1>1, <2>2, <2>3
  <2> QED
    BY <2>1, <2>2, <2>4
<1>3. msg \in Messages /\ msg # Nothing /\ msg.reply = b /\ msg.addr = <<f, y>>
  BY MessageFacts
<1> HIDE DEF msg
<1>4. /\ from' = [from EXCEPT ![e][x] = msg]
      /\ sock' = [sock EXCEPT ![e][x] = IF Single(e) THEN "held" ELSE "found"]
      /\ step' = [step EXCEPT ![e] = IF Single(e) THEN "ok" ELSE step[e]]
      /\ UNCHANGED sender
  BY <1>1 DEF Found, msg
<1>5. /\ from'[e][x] = msg
      /\ sock'[e][x] = IF Single(e) THEN "held" ELSE "found"
      /\ step'[e] = IF Single(e) THEN "ok" ELSE step[e]
      /\ \A g \in Ends, z \in Sockets :
           g # e \/ z # x => from'[g][z] = from[g][z] /\ sock'[g][z] = sock[g][z]
      /\ \A g \in Ends : g # e => step'[g] = step[g]
  BY <1>4 DEF PunchInv, PunchTypeOK
<1>6. PunchTypeOK'
  <2>1. from' \in [Ends -> [Sockets -> Messages \cup {Nothing}]]
    BY <1>3, <1>4 DEF PunchInv, PunchTypeOK
  <2>2. sock' \in [Ends -> [Sockets -> States]]
    <3>1. (IF Single(e) THEN "held" ELSE "found") \in States
      BY DEF States
    <3> QED
      BY <1>4, <3>1 DEF PunchInv, PunchTypeOK
  <2>3. step' \in [Ends -> Early \cup Late]
    BY <1>4 DEF PunchInv, PunchTypeOK, Late
  <2> QED
    BY <1>4, <2>1, <2>2, <2>3 DEF PunchInv, PunchTypeOK
<1>7. \A g \in Ends : Single(g)' = Single(g) /\ IsSender(g)' = IsSender(g)
  BY <1>1, <1>4, <1>5, PunchConstants DEF PunchConstants, Sockets, Single, IsSender
<1>8. EarlyOK'
  BY <1>2, <1>5 DEF PunchInv, EarlyOK, Early, Late
<1>9. SocketOK'
  BY <1>1, <1>2, <1>5, <1>7 DEF PunchInv, SocketOK
<1>10. FoundOK'
  <2> SUFFICES ASSUME NEW g \in Ends, NEW z \in Sockets, from'[g][z] # Nothing
               PROVE  /\ from'[g][z].reply = FALSE =>
                           ~IsSender(g) /\ from'[g][z].addr[1] = Other(g)
                      /\ Single(g) => step'[g] = "ok"
    BY <1>7 DEF FoundOK, Other
  <2>1. CASE g = e /\ z = x
    BY <2>1, <1>1, <1>3, <1>5
  <2>2. CASE g # e \/ z # x
    BY <2>2, <1>5 DEF PunchInv, FoundOK
  <2> QED
    BY <2>1, <2>2
<1>11. ReplyOK'
  <2> SUFFICES ASSUME NEW g \in Ends, NEW h \in Ends, NEW z \in Sockets, NEW w \in Sockets,
                      from'[g][z] = [addr |-> <<h, w>>, reply |-> TRUE]
               PROVE  from'[h][w] = [addr |-> <<g, z>>, reply |-> FALSE]
    BY DEF ReplyOK
  <2>1. CASE g = e /\ z = x
    <3>1. b = TRUE /\ h = f /\ w = y
      BY <2>1, <1>3, <1>5
    <3> QED
      BY <2>1, <3>1, <1>1, <1>2, <1>5
  <2>2. CASE g # e \/ z # x
    <3>1. from[h][w] = [addr |-> <<g, z>>, reply |-> FALSE]
      BY <2>2, <1>5 DEF PunchInv, ReplyOK
    <3>2. h # e \/ w # x
      BY <3>1, <1>2, MessageFacts
    <3> QED
      BY <3>1, <3>2, <1>5
  <2> QED
    BY <2>1, <2>2
<1>12. SenderOK'
  BY <1>1, <1>2, <1>3, <1>5, <1>7, PeerFacts, SenderIsSingle DEF PunchInv, SenderOK
<1> QED
  BY <1>6, <1>8, <1>9, <1>10, <1>11, <1>12 DEF PunchInv

LEMMA PunchStepInv == PunchInv /\ [PunchNext]_punchVars => PunchInv'
<1> SUFFICES ASSUME PunchInv, [PunchNext]_punchVars PROVE PunchInv'
  OBVIOUS
<1>1. CASE UNCHANGED punchVars
  BY <1>1 DEF punchVars, PunchInv, PunchTypeOK, EarlyOK, SocketOK, FoundOK, ReplyOK, SenderOK,
     Single, IsSender
<1>2. CASE \E e \in Ends : DiscoverFails(e) \/ Prepare(e) \/ ExchangeInfo(e) \/ EndStep(e)
  BY <1>2, PeerFacts, EarlyStepInv, SendInv, LateStepInv DEF EndStep
<1>3. CASE \E e, f \in Ends, x, y \in Sockets : ReceiveSid(e, x, f, y) \/ ReceiveReply(e, x, f, y)
  BY <1>3, FoundInv
<1>4. CASE \E e \in Ends, x \in Sockets : SocketStep(e, x)
  BY <1>4, LateStepInv DEF SocketStep
<1> QED
  BY <1>1, <1>2, <1>3, <1>4 DEF PunchNext

(***************************************************************************)
(* PunchInv holds throughout: what MakeHole's goroutines on both sides     *)
(* know of one another, over a network that loses, delays and repeats.     *)
(***************************************************************************)
THEOREM PunchInvariance == PunchSpec => []PunchInv
<1>1. PunchInit => PunchInv
  BY PunchInitInv
<1>2. PunchInv /\ [PunchNext]_punchVars => PunchInv'
  BY PunchStepInv
<1> QED
  BY <1>1, <1>2, PTL DEF PunchSpec

LEMMA InvHoleMatches == PunchInv => HoleMatches
<1> SUFFICES ASSUME PunchInv, NEW e \in Ends, IsSender(e), step[e] = "ok"
             PROVE  LET f == from[e][1].addr[1]
                        y == from[e][1].addr[2]
                    IN /\ f = Other(e)
                       /\ from[f][y] = [addr |-> <<e, 1>>, reply |-> FALSE]
                       /\ Single(f) => step[f] = "ok"
  BY DEF HoleMatches
<1>1. from[e][1] \in Messages /\ from[e][1].reply = TRUE
  BY PeerFacts DEF PunchInv, PunchTypeOK, SenderOK
<1>2. PICK f \in Ends, y \in Sockets : from[e][1] = [addr |-> <<f, y>>, reply |-> TRUE]
  <2>1. PICK a \in Ends \X Sockets : from[e][1] = [addr |-> a, reply |-> TRUE]
    BY <1>1 DEF Messages
  <2>2. PICK f \in Ends, y \in Sockets : a = <<f, y>>
    BY <2>1
  <2> QED
    BY <2>1, <2>2
<1>3. from[f][y] = [addr |-> <<e, 1>>, reply |-> FALSE]
  <2>1. ReplyOK /\ 1 \in Sockets
    BY PeerFacts DEF PunchInv
  <2> QED
    BY <1>2, <2>1, Zenon DEF ReplyOK
<1>4. e = Other(f) /\ (Single(f) => step[f] = "ok")
  <2>1. from[f][y] # Nothing
    BY <1>3, PeerFacts, MessageFacts
  <2>2. from[f][y].reply = FALSE /\ from[f][y].addr[1] = e
    BY <1>3
  <2> QED
    BY <2>1, <2>2 DEF PunchInv, FoundOK
<1>5. f = Other(e)
  BY <1>4, PeerFacts
<1> QED
  BY <1>2, <1>3, <1>4, <1>5

(***************************************************************************)
(* A sender's hole leads to the receiver of its session, which has got the *)
(* sender's message, for any number of sessions and of sockets: the check  *)
(* of the session ID in waitDetectMessage is all that is needed.           *)
(***************************************************************************)
THEOREM HolesMatch == PunchSpec => []HoleMatches
  BY PunchInvariance, InvHoleMatches, PTL

\* MakeHole hands over one socket when it succeeds and none when it does not;
\* if it fails, the socket the caller knows of is closed.
HeldAt(e) ==
  /\ step[e] = "ok" <=> \E x \in Sockets : sock[e][x] = "held"
  /\ \A x, y \in Sockets : sock[e][x] = "held" /\ sock[e][y] = "held" => x = y
  /\ step[e] \in {"refused", "failed"} => sock[e][1] = "closed"

LEMMA HeldStep ==
  ASSUME PunchInv, \A e \in Ends : HeldAt(e), [PunchNext]_punchVars
  PROVE  \A e \in Ends : HeldAt(e)'
<1>1. /\ \A e \in Ends, x \in Sockets : Single(e) /\ sock[e][x] = "wait" => x = 1
      /\ \A e \in Ends, x \in Sockets : step[e] \in Early => sock[e][x] # "held"
      /\ 1 \in Sockets
  BY PeerFacts DEF PunchInv, SocketOK, EarlyOK
\* The steps before the wait hold nothing.
<1>2. ASSUME NEW e \in Ends, DiscoverFails(e) \/ Prepare(e) \/ ExchangeInfo(e) \/ ExchangeFails(e)
      PROVE  \A d \in Ends : HeldAt(d)'
  <2>1. /\ step[e] \in Early /\ step'[e] \in Early /\ step'[e] # "failed"
        /\ step'[e] = "refused" => sock'[e][1] = "closed"
        /\ \A x \in Sockets : sock'[e][x] # "held"
        /\ \A d \in Ends : d # e => step'[d] = step[d] /\ sock'[d] = sock[d]
    BY <1>1, <1>2 DEF DiscoverFails, Prepare, ExchangeInfo, ExchangeFails, GoTo, Early, PunchInv,
                      PunchTypeOK
  <2> QED
    BY <2>1 DEF HeldAt, Early
<1>3. ASSUME NEW e \in Ends, SendSidMessages(e) \/ Select(e)
      PROVE  \A d \in Ends : HeldAt(d)'
  <2>1. CASE SendSidMessages(e)
    <3>1. /\ step'[e] \in {"select", "spawn"}
          /\ \A x \in Sockets : sock'[e][x] # "held"
          /\ \A d \in Ends : d # e => step'[d] = step[d] /\ sock'[d] = sock[d]
      BY <2>1 DEF SendSidMessages, GoTo, PunchInv, PunchTypeOK
    <3> QED
      BY <3>1 DEF HeldAt
  <2>2. CASE Select(e)
    <3>1. /\ step[e] = "spawn" /\ step'[e] = "select" /\ UNCHANGED sock
          /\ \A d \in Ends : d # e => step'[d] = step[d]
      BY <2>2 DEF Select, GoTo, PunchInv, PunchTypeOK
    <3> QED
      BY <3>1 DEF HeldAt
  <2> QED
    BY <1>3, <2>1, <2>2
\* A goroutine that is late finds MakeHole gone, and closes its socket.
<1>4. ASSUME NEW e \in Ends, NEW x \in Sockets, Deliver(e, x)
      PROVE  \A d \in Ends : HeldAt(d)'
  <2>1. CASE step[e] = "select"
    <3>1. /\ step'[e] = "ok" /\ sock'[e][x] = "held"
          /\ \A y \in Sockets : y # x => sock'[e][y] = sock[e][y]
          /\ \A d \in Ends : d # e => step'[d] = step[d] /\ sock'[d] = sock[d]
      BY <1>4, <2>1 DEF Deliver, PunchInv, PunchTypeOK
    <3> QED
      BY <2>1, <3>1 DEF HeldAt
  <2>2. CASE step[e] # "select"
    <3>1. /\ sock[e][x] = "found" /\ sock'[e][x] = "closed" /\ step'[e] = step[e]
          /\ \A y \in Sockets : y # x => sock'[e][y] = sock[e][y]
          /\ \A d \in Ends : d # e => step'[d] = step[d] /\ sock'[d] = sock[d]
      BY <1>4, <2>2 DEF Deliver, PunchInv, PunchTypeOK
    <3>2. /\ \A y \in Sockets : sock'[e][y] = "held" <=> sock[e][y] = "held"
          /\ sock[e][1] = "closed" => sock'[e][1] = "closed"
      BY <1>1, <3>1
    <3> QED
      BY <3>1, <3>2 DEF HeldAt
  <2> QED
    BY <2>1, <2>2
<1>5. ASSUME NEW e \in Ends, NEW x \in Sockets, WaitTimesOut(e, x)
      PROVE  \A d \in Ends : HeldAt(d)'
  <2>1. /\ sock[e][x] = "wait" /\ sock'[e][x] = "closed"
        /\ step'[e] = IF Single(e) THEN "failed" ELSE step[e]
        /\ \A y \in Sockets : y # x => sock'[e][y] = sock[e][y]
        /\ \A d \in Ends : d # e => step'[d] = step[d] /\ sock'[d] = sock[d]
    BY <1>5 DEF WaitTimesOut, PunchInv, PunchTypeOK
  <2>2. Single(e) => \A y \in Sockets : sock'[e][y] # "held"
    <3>1. Single(e) => \A y \in Sockets : y # 1 => sock[e][y] = "none"
      BY DEF PunchInv, SocketOK
    <3> QED
      BY <1>1, <2>1, <3>1
  <2> QED
    BY <1>1, <2>1, <2>2 DEF HeldAt
<1>6. ASSUME NEW e \in Ends, MakeHoleFails(e)
      PROVE  \A d \in Ends : HeldAt(d)'
  <2>1. /\ step[e] = "select" /\ step'[e] = "failed" /\ sock'[e][1] = "closed"
        /\ \A y \in Sockets : y # 1 => sock'[e][y] = sock[e][y]
        /\ \A d \in Ends : d # e => step'[d] = step[d] /\ sock'[d] = sock[d]
    BY <1>1, <1>6 DEF MakeHoleFails, GoTo, PunchInv, PunchTypeOK
  <2> QED
    BY <2>1 DEF HeldAt
<1>7. ASSUME NEW e \in Ends, NEW f \in Ends, NEW x \in Sockets, NEW y \in Sockets,
             ReceiveSid(e, x, f, y) \/ ReceiveReply(e, x, f, y)
      PROVE  \A d \in Ends : HeldAt(d)'
  <2>1. /\ sock[e][x] = "wait" /\ sock'[e][x] = IF Single(e) THEN "held" ELSE "found"
        /\ step'[e] = IF Single(e) THEN "ok" ELSE step[e]
        /\ \A z \in Sockets : z # x => sock'[e][z] = sock[e][z]
        /\ \A d \in Ends : d # e => step'[d] = step[d] /\ sock'[d] = sock[d]
    BY <1>7 DEF ReceiveSid, ReceiveReply, Found, PunchInv, PunchTypeOK
  <2>2. Single(e) => \A z \in Sockets : z # x => sock[e][z] = "none"
    BY <1>1, <2>1 DEF PunchInv, SocketOK
  <2>3. CASE Single(e)
    BY <2>1, <2>2, <2>3 DEF HeldAt
  <2>4. CASE ~Single(e)
    BY <2>1, <2>4, <1>1 DEF HeldAt
  <2> QED
    BY <2>3, <2>4
<1>8. CASE UNCHANGED punchVars
  BY <1>8 DEF punchVars, HeldAt
<1> QED
  BY <1>2, <1>3, <1>4, <1>5, <1>6, <1>7, <1>8 DEF PunchNext, EndStep, SocketStep

(***************************************************************************)
(* For any number of sessions and of sockets, and whichever goroutine      *)
(* finds a message and when: MakeHole returns with one socket held or with *)
(* none, never with a second that nobody would close; and whoever gives up *)
(* has closed the socket it knew of.                                       *)
(***************************************************************************)
THEOREM OneSocketIsReturned == PunchSpec => []\A e \in Ends : HeldAt(e)
<1>1. PunchInit => \A e \in Ends : HeldAt(e)
  BY DEF PunchInit, HeldAt
<1>2. PunchInv /\ (\A e \in Ends : HeldAt(e)) /\ [PunchNext]_punchVars
        => (\A e \in Ends : HeldAt(e))'
  BY HeldStep
<1> QED
  BY <1>1, <1>2, PunchInvariance, PTL DEF PunchSpec

-----------------------------------------------------------------------------
(* Keeping the tunnel.                                                     *)

UserStates == {"none", "select", "lock", "opening", "close", "send", "transfer", "queued",
               "joined", "closed"}

\* A user connection in hand is at a visitor, and handed on only to a name.
UserOK ==
  /\ visitors \in [Names -> Visitors \cup {None}]
  /\ at \in [Users -> Visitors \cup {None}]
  /\ user \in [Users -> UserStates]
  /\ \A u \in Users :
       /\ user[u] \notin {"none", "closed"} => at[u] \in Visitors
       /\ user[u] = "transfer" => FallbackTo[Name[at[u]]] \in Names

TunnelTypeOK ==
  /\ state \in [Visitors -> {"new", "up", "cancelled", "closed"}]
  /\ loop \in [Visitors -> {"none", "select", "hole", "init", "sleep"}]
  /\ worker \in [Visitors -> {"none", "first", "tick", "opening", "close", "send"}]
  /\ hole \in [Visitors -> Holes \cup {NoHole}]
  /\ session \in [Visitors -> Holes \cup {NoHole}]
  /\ tunnel \in [Holes -> {"none", "made", "live", "dead", "closed"}]
  /\ risky \in SUBSET Holes

\* A visitor that was not started has nothing; a tunnel being made is that of
\* the loop; the tunnel of the session was made and is not closed.
HeldOK(v) ==
  /\ state[v] = "new" => loop[v] = "none" /\ session[v] = NoHole
  /\ loop[v] \in {"hole", "init"} <=> hole[v] # NoHole
  /\ hole[v] # NoHole => tunnel[hole[v]] = "made"
  /\ session[v] # NoHole => tunnel[session[v]] \in {"live", "dead"}

\* No tunnel is in two hands.
ApartOK(v, w) ==
  v # w => /\ hole[v] # NoHole => hole[v] # hole[w]
           /\ session[v] # NoHole => session[v] # session[w]

\* A session that will be replaced, or not be closed, was known to be at risk.
RiskOK(v) ==
  session[v] # NoHole /\ (StartDue(v) \/ hole[v] # NoHole \/ state[v] = "closed")
    => session[v] \in risky

KeptOK == \A h \in Holes : tunnel[h] \in {"live", "dead"} =>
            h \in risky \/ \E v \in Visitors : session[v] = h

TunnelInv ==
  /\ UserOK /\ TunnelTypeOK /\ KeptOK
  /\ \A v \in Visitors : HeldOK(v) /\ RiskOK(v)
  /\ \A v, w \in Visitors : ApartOK(v, w)

-----------------------------------------------------------------------------
(* User connections.                                                       *)

LEMMA UserStepOK ==
  ASSUME UserOK, UNCHANGED visitors, NEW u \in Users,
         NEW to \in UserStates, NEW v \in Visitors \cup {None},
         user' = [user EXCEPT ![u] = to], at' = [at EXCEPT ![u] = v],
         to \notin {"none", "closed"} => v \in Visitors,
         to = "transfer" => FallbackTo[Name[v]] \in Names
  PROVE  UserOK'
<1>1. at' \in [Users -> Visitors \cup {None}] /\ user' \in [Users -> UserStates]
  BY DEF UserOK
<1>2. \A x \in Users : /\ at'[x] = IF x = u THEN v ELSE at[x]
                       /\ user'[x] = IF x = u THEN to ELSE user[x]
  BY DEF UserOK
<1> QED
  BY <1>1, <1>2 DEF UserOK

LEMMA HandleConnOK ==
  ASSUME UserOK, NEW u \in Users,
         HandleConn(u) \/ JoinEnds(u) \/ \E v \in Visitors : Accept(u, v)
  PROVE  UserOK'
<1>1. CASE \E v \in Visitors : Accept(u, v)
  <2>1. PICK v \in Visitors : Accept(u, v)
    BY <1>1
  <2> QED
    BY <2>1, UserStepOK DEF Accept, UserStates, managerVars
<1>2. ASSUME NEW was \in UserStates \ {"none", "closed"}, NEW to \in UserStates \ {"none"},
             UserStep(u, was, to), UNCHANGED visitors,
             to = "transfer" => FallbackTo[Name[at[u]]] \in Names
      PROVE  UserOK'
  <2>1. user[u] \notin {"none", "closed"} /\ at[u] \in Visitors
    BY <1>2 DEF UserOK, UserStep
  <2>2. PICK v \in Visitors \cup {None} : /\ v = IF to = "closed" THEN None ELSE at[u]
                                          /\ at' = [at EXCEPT ![u] = v]
    BY <1>2, <2>1 DEF UserStep
  <2> QED
    BY <1>2, <2>1, <2>2, UserStepOK DEF UserStep
<1>3. CASE TimerFires(u)
  BY <1>2, <1>3 DEF TimerFires, UserStates, managerVars
<1>4. CASE OpenConn(u)
  <2>1. PICK to \in {"opening", "close"} : UserStep(u, "lock", to)
    BY <1>4 DEF OpenConn
  <2> QED
    BY <1>2, <1>4, <2>1 DEF OpenConn, UserStates, managerVars
<1>5. CASE Opened(u)
  BY <1>2, <1>5 DEF Opened, UserStates, managerVars
<1>6. CASE UserCloses(u) \/ UserSends(u)
  BY <1>2, <1>6 DEF UserCloses, UserSends, UserStates, managerVars
<1>7. CASE OpenTunnelFails(u)
  <2>1. user[u] = "select" /\ at[u] \in Visitors
    BY <1>7 DEF OpenTunnelFails, UserOK
  <2>2. FallbackTo[Name[at[u]]] \in Names \cup {NoName}
    BY <2>1, VisitorConstants DEF VisitorConstants
  <2>3. PICK to \in {"closed", "transfer"} :
          UserStep(u, "select", to) /\ (to = "transfer" => FallbackTo[Name[at[u]]] \in Names)
    BY <1>7, <2>2 DEF OpenTunnelFails
  <2> QED
    BY <1>2, <1>7, <2>3 DEF OpenTunnelFails, UserStates, managerVars
<1>8. CASE TransferConn(u)
  <2>1. FallbackTo[Name[at[u]]] \in Names
    BY <1>8 DEF TransferConn, UserOK
  <2>2. PICK v \in Visitors \cup {None} : v = visitors[FallbackTo[Name[at[u]]]]
    BY <2>1 DEF UserOK
  <2>3. PICK to \in PutConn(v) :
          /\ user' = [user EXCEPT ![u] = to]
          /\ at' = [at EXCEPT ![u] = IF to = "queued" THEN v ELSE None]
    BY <1>8, <2>2 DEF TransferConn
  <2>4. to \in {"queued", "closed"} /\ (to = "queued" => v \in Visitors)
    BY <2>3 DEF PutConn
  <2>5. CASE to = "queued"
    BY <1>8, <2>3, <2>4, <2>5, UserStepOK DEF TransferConn, UserStates, managerVars
  <2>6. CASE to = "closed"
    BY <1>8, <2>3, <2>4, <2>6, UserStepOK DEF TransferConn, UserStates, managerVars
  <2> QED
    BY <2>4, <2>5, <2>6
<1>9. CASE AcceptInternal(u)
  BY <1>2, <1>9 DEF AcceptInternal, UserStates, managerVars
<1>10. CASE JoinEnds(u)
  BY <1>2, <1>10 DEF JoinEnds, UserStates, managerVars
<1> QED
  BY <1>1, <1>3, <1>4, <1>5, <1>6, <1>7, <1>8, <1>9, <1>10 DEF HandleConn

LEMMA ManagerOK ==
  ASSUME UserOK, NEW n \in Names,
         AddVisitor(n) \/ KeepVisitorsRunning(n) \/ RemoveVisitor(n) \/ CloseManager(n)
  PROVE  UserOK'
<1>1. UNCHANGED <<at, user>>
  BY DEF AddVisitor, KeepVisitorsRunning, RemoveVisitor, CloseManager, userVars
<1>2. visitors' \in [Names -> Visitors \cup {None}]
  BY DEF AddVisitor, KeepVisitorsRunning, RemoveVisitor, CloseManager, StartVisitor, managerVars,
         UserOK
<1> QED
  BY <1>1, <1>2 DEF UserOK

-----------------------------------------------------------------------------
(* The kinds of steps, by what they do to the tunnels.                     *)

LEMMA HoleFacts ==
  ASSUME TunnelInv
  PROVE  /\ NoHole \notin Holes
         /\ \A v \in Visitors : /\ hole[v] \in Holes \cup {NoHole}
                                /\ session[v] \in Holes \cup {NoHole}
         /\ \A v \in Visitors : HeldOK(v) /\ RiskOK(v)
         /\ \A v, w \in Visitors : ApartOK(v, w)
BY DEF TunnelInv, TunnelTypeOK, NoHole, Holes

\* Nothing happens to a tunnel.
LEMMA FrameStep ==
  ASSUME TunnelInv, UserOK', UNCHANGED <<hole, session, tunnel, risky>>,
         state' \in [Visitors -> {"new", "up", "cancelled", "closed"}],
         loop' \in [Visitors -> {"none", "select", "hole", "init", "sleep"}],
         worker' \in [Visitors -> {"none", "first", "tick", "opening", "close", "send"}],
         \A v \in Visitors :
           /\ state'[v] = "new" => state[v] = "new" /\ (loop[v] = "none" => loop'[v] = "none")
           /\ state'[v] = "closed" => state[v] = "closed"
           /\ loop'[v] \in {"hole", "init"} <=> loop[v] \in {"hole", "init"}
           /\ StartDue(v)' => StartDue(v) \/ session[v] = NoHole
  PROVE  TunnelInv'
<1>1. TunnelTypeOK' /\ KeptOK'
  BY DEF TunnelInv, TunnelTypeOK, KeptOK
<1>2. \A v \in Visitors : HeldOK(v)' /\ RiskOK(v)'
  BY DEF TunnelInv, HeldOK, RiskOK
<1>3. \A v, w \in Visitors : ApartOK(v, w)'
  BY DEF TunnelInv, ApartOK
<1> QED
  BY <1>1, <1>2, <1>3 DEF TunnelInv

\* The loop begins a tunnel: the start was due, so a session is at risk.
LEMMA StartStep ==
  ASSUME TunnelInv, UserOK', NEW v \in Visitors, loop[v] = "select", StartEvent(v), StartDue(v),
         UNCHANGED <<state, session, risky>>,
         worker' \in [Visitors -> {"none", "first", "tick", "opening", "close", "send"}],
         \A w \in Visitors : StartDue(w)' => StartDue(w)
  PROVE  TunnelInv'
<1>1. PICK h \in Holes : /\ tunnel[h] = "none"
                         /\ loop' = [loop EXCEPT ![v] = "hole"]
                         /\ hole' = [hole EXCEPT ![v] = h]
                         /\ tunnel' = [tunnel EXCEPT ![h] = "made"]
  BY DEF StartEvent, Unused
<1>2. /\ \A w \in Visitors : /\ hole'[w] = IF w = v THEN h ELSE hole[w]
                             /\ loop'[w] = IF w = v THEN "hole" ELSE loop[w]
      /\ \A x \in Holes : tunnel'[x] = IF x = h THEN "made" ELSE tunnel[x]
  BY <1>1 DEF TunnelInv, TunnelTypeOK
<1>3. TunnelTypeOK'
  BY <1>1 DEF TunnelInv, TunnelTypeOK
<1>4. KeptOK'
  BY <1>2 DEF TunnelInv, KeptOK
<1>5. ASSUME NEW w \in Visitors PROVE HeldOK(w)' /\ RiskOK(w)'
  <2>1. HeldOK(w) /\ RiskOK(w) /\ hole[w] # h /\ session[w] # h /\ h # NoHole
    BY <1>1, HoleFacts DEF HeldOK
  <2>2. HeldOK(w)'
    <3>1. /\ hole[w] # NoHole => tunnel'[hole[w]] = tunnel[hole[w]]
          /\ session[w] # NoHole => tunnel'[session[w]] = tunnel[session[w]]
          /\ tunnel'[h] = "made"
      BY <1>2, <2>1, HoleFacts
    <3> QED
      BY <1>2, <2>1, <3>1 DEF HeldOK
  <2>3. RiskOK(w)'
    BY <1>2, <2>1 DEF RiskOK
  <2> QED
    BY <2>2, <2>3
<1>6. \A w, x \in Visitors : ApartOK(w, x)'
  BY <1>1, <1>2, HoleFacts DEF HeldOK, ApartOK
<1> QED
  BY <1>3, <1>4, <1>5, <1>6 DEF TunnelInv

\* The session is closed, and with it its tunnel.
LEMMA CloseStep ==
  ASSUME TunnelInv, UserOK', NEW v \in Visitors, tunnel' = WithoutSession(v),
         session' = [session EXCEPT ![v] = NoHole], UNCHANGED <<loop, hole, risky>>,
         state' \in [Visitors -> {"new", "up", "cancelled", "closed"}],
         worker' \in [Visitors -> {"none", "first", "tick", "opening", "close", "send"}],
         \A w \in Visitors :
           /\ state'[w] = "new" => state[w] = "new"
           /\ w # v /\ state'[w] = "closed" => state[w] = "closed"
           /\ w # v /\ StartDue(w)' => StartDue(w)
  PROVE  TunnelInv'
<1>1. /\ \A w \in Visitors : session'[w] = IF w = v THEN NoHole ELSE session[w]
      /\ \A h \in Holes : tunnel'[h] = IF h = session[v] THEN "closed" ELSE tunnel[h]
  BY DEF TunnelInv, TunnelTypeOK, WithoutSession
<1>2. TunnelTypeOK'
  BY DEF TunnelInv, TunnelTypeOK, WithoutSession
<1>3. KeptOK'
  <2> SUFFICES ASSUME NEW h \in Holes, tunnel'[h] \in {"live", "dead"}, h \notin risky
               PROVE  \E w \in Visitors : session'[w] = h
    BY DEF KeptOK
  <2>1. PICK w \in Visitors : session[w] = h
    BY <1>1 DEF TunnelInv, KeptOK
  <2> QED
    BY <1>1, <2>1
<1>4. ASSUME NEW w \in Visitors PROVE HeldOK(w)' /\ RiskOK(w)'
  <2>1. /\ HeldOK(w) /\ RiskOK(w) /\ HeldOK(v) /\ ApartOK(w, v)
        /\ hole[w] \in Holes \cup {NoHole} /\ session[w] \in Holes \cup {NoHole}
        /\ NoHole \notin Holes
    BY HoleFacts
  <2>2. hole[w] # NoHole => hole[w] # session[v]
    BY <2>1 DEF HeldOK
  <2>3. /\ session'[w] # NoHole => session'[w] = session[w] /\ session[w] # session[v]
        /\ hole[w] # NoHole => tunnel'[hole[w]] = tunnel[hole[w]]
        /\ session'[w] # NoHole => tunnel'[session[w]] = tunnel[session[w]]
    BY <1>1, <2>1, <2>2 DEF ApartOK
  <2>4. HeldOK(w)'
    BY <1>1, <2>1, <2>3 DEF HeldOK
  <2>5. RiskOK(w)'
    <3>1. CASE w = v
      BY <1>1, <3>1 DEF RiskOK
    <3>2. CASE w # v
      BY <1>1, <2>1, <3>2 DEF RiskOK
    <3> QED
      BY <3>1, <3>2
  <2> QED
    BY <2>4, <2>5
<1>5. ASSUME NEW w \in Visitors, NEW x \in Visitors PROVE ApartOK(w, x)'
  <2>1. ApartOK(w, x)
    BY HoleFacts
  <2>2. /\ session'[w] \in {NoHole, session[w]} /\ session'[x] \in {NoHole, session[x]}
        /\ hole' = hole
    BY <1>1
  <2> QED
    BY <2>1, <2>2 DEF ApartOK
<1>6. /\ \A w \in Visitors : HeldOK(w)' /\ RiskOK(w)'
      /\ \A w, x \in Visitors : ApartOK(w, x)'
  BY <1>4, <1>5
<1> QED
  BY Zenon, <1>2, <1>3, <1>6 DEF TunnelInv

\* The loop gives up the tunnel it was making, or goes on to install it.
LEMMA MakeStep ==
  ASSUME TunnelInv, UserOK', NEW v \in Visitors, MakeNatHole(v)
  PROVE  TunnelInv'
<1>1. /\ loop[v] = "hole" /\ UNCHANGED <<state, worker, session, risky, at, user>>
      /\ hole[v] \in Holes /\ tunnel[hole[v]] = "made"
  BY HoleFacts DEF MakeNatHole, HeldOK, userVars
<1>2. \A w \in Visitors : StartDue(w)' <=> StartDue(w)
  BY <1>1 DEF StartDue
<1>3. CASE GiveUp(v)
  <2>1. /\ \A w \in Visitors : /\ hole'[w] = IF w = v THEN NoHole ELSE hole[w]
                               /\ loop'[w] = IF w = v THEN "sleep" ELSE loop[w]
        /\ \A h \in Holes : tunnel'[h] = IF h = hole[v] THEN "closed" ELSE tunnel[h]
    BY <1>3 DEF GiveUp, TunnelInv, TunnelTypeOK
  <2>2. TunnelTypeOK'
    BY <1>1, <1>3 DEF GiveUp, TunnelInv, TunnelTypeOK
  <2>3. KeptOK'
    BY <1>1, <2>1 DEF TunnelInv, KeptOK
  <2>4. ASSUME NEW w \in Visitors PROVE HeldOK(w)' /\ RiskOK(w)'
    <3>1. /\ HeldOK(w) /\ RiskOK(w) /\ ApartOK(w, v)
          /\ hole[w] \in Holes \cup {NoHole} /\ session[w] \in Holes \cup {NoHole}
          /\ NoHole \notin Holes
      BY HoleFacts
    <3>2. session[w] # hole[v]
      BY <1>1, <3>1 DEF HeldOK
    <3>3. HeldOK(w)'
      BY <1>1, <2>1, <3>1, <3>2 DEF HeldOK, ApartOK
    <3>4. RiskOK(w)'
      BY <1>1, <1>2, <2>1, <3>1 DEF RiskOK
    <3> QED
      BY <3>3, <3>4
  <2>5. ASSUME NEW w \in Visitors, NEW x \in Visitors PROVE ApartOK(w, x)'
    <3>1. ApartOK(w, x)
      BY HoleFacts
    <3> QED
      BY <1>1, <2>1, <3>1 DEF ApartOK
  <2> QED
    BY <2>2, <2>3, <2>4, <2>5 DEF TunnelInv
<1>4. CASE loop' = [loop EXCEPT ![v] = "init"] /\ UNCHANGED <<hole, tunnel>>
  <2>1. /\ loop' \in [Visitors -> {"none", "select", "hole", "init", "sleep"}]
        /\ \A w \in Visitors : /\ loop'[w] \in {"hole", "init"} <=> loop[w] \in {"hole", "init"}
                               /\ loop[w] = "none" => loop'[w] = "none"
    BY <1>1, <1>4 DEF TunnelInv, TunnelTypeOK
  <2>2. /\ state' \in [Visitors -> {"new", "up", "cancelled", "closed"}]
        /\ worker' \in [Visitors -> {"none", "first", "tick", "opening", "close", "send"}]
    BY <1>1 DEF TunnelInv, TunnelTypeOK
  <2> QED
    BY <1>1, <1>2, <1>4, <2>1, <2>2, FrameStep
<1> QED
  BY <1>3, <1>4 DEF MakeNatHole

\* A session that is replaced was at risk, since a start had been due.
LEMMA InitStep ==
  ASSUME TunnelInv, UserOK', NEW v \in Visitors, InitSession(v)
  PROVE  TunnelInv'
<1>1. /\ loop[v] = "init" /\ UNCHANGED <<state, worker, at, user>>
      /\ hole[v] \in Holes /\ tunnel[hole[v]] = "made"
  BY HoleFacts DEF InitSession, HeldOK, userVars
<1>2. \A w \in Visitors : StartDue(w)' <=> StartDue(w)
  BY <1>1 DEF StartDue
<1>3. /\ \A w \in Visitors : /\ session'[w] = IF w = v THEN hole[v] ELSE session[w]
                             /\ hole'[w] = IF w = v THEN NoHole ELSE hole[w]
                             /\ loop'[w] = IF w = v THEN "sleep" ELSE loop[w]
      /\ \A h \in Holes : tunnel'[h] = IF h = hole[v] THEN "live" ELSE tunnel[h]
      /\ risky' = IF state[v] = "closed" \/ StartDue(v) THEN risky \cup {hole[v]} ELSE risky
  BY DEF InitSession, TunnelInv, TunnelTypeOK
<1>4. TunnelTypeOK'
  BY <1>1 DEF InitSession, TunnelInv, TunnelTypeOK
<1>5. KeptOK'
  <2> SUFFICES ASSUME NEW h \in Holes, tunnel'[h] \in {"live", "dead"}, h \notin risky'
               PROVE  \E w \in Visitors : session'[w] = h
    BY DEF KeptOK
  <2>1. CASE h = hole[v]
    BY <1>3, <2>1
  <2>2. CASE h # hole[v]
    <3>1. PICK w \in Visitors : session[w] = h /\ h \notin risky
      BY <1>3, <2>2 DEF TunnelInv, KeptOK
    <3>2. w # v
      BY <1>1, <3>1, HoleFacts DEF RiskOK
    <3> QED
      BY <1>3, <3>1, <3>2
  <2> QED
    BY <2>1, <2>2
<1>6. ASSUME NEW w \in Visitors PROVE HeldOK(w)' /\ RiskOK(w)'
  <2>1. /\ HeldOK(w) /\ RiskOK(w) /\ ApartOK(w, v)
        /\ hole[w] \in Holes \cup {NoHole} /\ session[w] \in Holes \cup {NoHole}
        /\ NoHole \notin Holes
    BY HoleFacts
  <2>2. session[w] # hole[v]
    BY <1>1, <2>1 DEF HeldOK
  <2>3. HeldOK(w)'
    BY <1>1, <1>3, <2>1, <2>2 DEF HeldOK, ApartOK
  <2>4. RiskOK(w)'
    BY <1>1, <1>2, <1>3, <2>1 DEF RiskOK
  <2> QED
    BY <2>3, <2>4
<1>7. ASSUME NEW w \in Visitors, NEW x \in Visitors PROVE ApartOK(w, x)'
  <2>1. ApartOK(w, x) /\ session[w] # hole[v] /\ session[x] # hole[v]
    BY <1>1, HoleFacts DEF HeldOK
  <2> QED
    BY <1>1, <1>3, <2>1, HoleFacts DEF ApartOK
<1> QED
  BY <1>4, <1>5, <1>6, <1>7 DEF TunnelInv

LEMMA BreakStep ==
  ASSUME TunnelInv, UserOK', NEW h \in Holes, TunnelBreaks(h)
  PROVE  TunnelInv'
<1>1. /\ tunnel[h] = "live" /\ UNCHANGED <<state, loop, worker, hole, session, risky, at, user>>
      /\ \A x \in Holes : tunnel'[x] = IF x = h THEN "dead" ELSE tunnel[x]
  BY DEF TunnelBreaks, TunnelInv, TunnelTypeOK, userVars
<1>2. \A w \in Visitors : StartDue(w)' <=> StartDue(w)
  BY <1>1 DEF StartDue
<1>3. TunnelTypeOK'
  BY <1>1 DEF TunnelBreaks, TunnelInv, TunnelTypeOK
<1>4. KeptOK'
  BY <1>1 DEF TunnelInv, KeptOK
<1>5. \A w \in Visitors : HeldOK(w)' /\ RiskOK(w)'
  BY <1>1, <1>2, HoleFacts DEF HeldOK, RiskOK
<1>6. \A w, x \in Visitors : ApartOK(w, x)'
  BY <1>1, HoleFacts DEF ApartOK
<1> QED
  BY <1>3, <1>4, <1>5, <1>6 DEF TunnelInv

-----------------------------------------------------------------------------
(* The actions.                                                            *)

LEMMA ManagerStep ==
  ASSUME TunnelInv, NEW n \in Names,
         AddVisitor(n) \/ KeepVisitorsRunning(n) \/ RemoveVisitor(n) \/ CloseManager(n)
  PROVE  TunnelInv'
<1>1. UserOK'
  BY ManagerOK DEF TunnelInv
<1>2. UNCHANGED <<hole, session, tunnel, risky, at, user>>
  BY DEF AddVisitor, KeepVisitorsRunning, RemoveVisitor, CloseManager, tunnelVars, userVars
<1>3. CASE \E v \in Visitors : RunVisitor(v)
  <2>1. PICK v \in Visitors : RunVisitor(v)
    BY <1>3
  <2>2. /\ state[v] = "new" /\ session[v] = NoHole /\ loop[v] = "none"
        /\ \A w \in Visitors : /\ state'[w] = IF w = v THEN "up" ELSE state[w]
                               /\ loop'[w] = IF w = v THEN "select" ELSE loop[w]
                               /\ w # v => worker'[w] = worker[w]
    BY <2>1, HoleFacts DEF RunVisitor, HeldOK, TunnelInv, TunnelTypeOK
  <2>3. /\ state' \in [Visitors -> {"new", "up", "cancelled", "closed"}]
        /\ loop' \in [Visitors -> {"none", "select", "hole", "init", "sleep"}]
        /\ worker' \in [Visitors -> {"none", "first", "tick", "opening", "close", "send"}]
    BY <2>1 DEF RunVisitor, TunnelInv, TunnelTypeOK
  <2>4. \A w \in Visitors : StartDue(w)' => StartDue(w) \/ session[w] = NoHole
    BY <1>2, <2>2 DEF StartDue
  <2> QED
    BY <1>1, <1>2, <2>2, <2>3, <2>4, FrameStep
<1>4. CASE /\ UNCHANGED <<loop, worker>>
           /\ state' \in [Visitors -> {"new", "up", "cancelled", "closed"}]
           /\ \A w \in Visitors : \/ state'[w] = state[w]
                                  \/ state[w] = "up" /\ state'[w] = "cancelled"
  <2>1. /\ loop' \in [Visitors -> {"none", "select", "hole", "init", "sleep"}]
        /\ worker' \in [Visitors -> {"none", "first", "tick", "opening", "close", "send"}]
    BY <1>4 DEF TunnelInv, TunnelTypeOK
  <2>2. \A w \in Visitors : StartDue(w)' <=> StartDue(w)
    BY <1>2, <1>4 DEF StartDue
  <2> QED
    BY <1>1, <1>2, <1>4, <2>1, <2>2, FrameStep
<1>5. CASE AddVisitor(n) \/ KeepVisitorsRunning(n)
  <2>1. (\E v \in Visitors : RunVisitor(v)) \/ UNCHANGED <<state, loop, worker>>
    BY <1>5 DEF AddVisitor, KeepVisitorsRunning, StartVisitor
  <2> QED
    BY <1>3, <1>4, <2>1 DEF TunnelInv, TunnelTypeOK
<1>6. CASE RemoveVisitor(n)
  BY <1>4, <1>6 DEF RemoveVisitor, TunnelInv, TunnelTypeOK
<1>7. CASE CloseManager(n)
  BY <1>4, <1>7 DEF CloseManager, TunnelInv, TunnelTypeOK
<1> QED
  BY <1>5, <1>6, <1>7

\* A step of the worker: what is due of other visitors stays.
LEMMA WorkerFacts ==
  ASSUME TunnelInv, UNCHANGED <<at, user>>, NEW v \in Visitors,
         NEW to \in {"none", "tick", "opening", "close", "send"},
         worker' = [worker EXCEPT ![v] = to]
  PROVE  /\ worker' \in [Visitors -> {"none", "first", "tick", "opening", "close", "send"}]
         /\ \A w \in Visitors : StartDue(w)' => StartDue(w) \/ (w = v /\ to = "send")
<1>1. \A w \in Visitors : worker'[w] = IF w = v THEN to ELSE worker[w]
  BY DEF TunnelInv, TunnelTypeOK
<1> QED
  BY <1>1 DEF StartDue, TunnelInv, TunnelTypeOK

LEMMA WorkerInv ==
  ASSUME TunnelInv, NEW v \in Visitors, Worker(v)
  PROVE  TunnelInv'
<1>1. UNCHANGED <<visitors, at, user, state>>
  BY DEF Worker, WorkerFirst, WorkerOpens, WorkerOpened, WorkerCloses, WorkerSends, WorkerExits,
         managerVars, userVars
<1>2. UserOK'
  BY <1>1 DEF TunnelInv, UserOK
<1>3. /\ state' \in [Visitors -> {"new", "up", "cancelled", "closed"}]
      /\ loop \in [Visitors -> {"none", "select", "hole", "init", "sleep"}]
  BY <1>1 DEF TunnelInv, TunnelTypeOK
<1>4. CASE WorkerFirst(v) \/ (WorkerSends(v) /\ loop[v] = "select" /\ Unused # {})
  <2>1. /\ worker[v] \in {"first", "send"} /\ loop[v] = "select" /\ StartEvent(v)
        /\ worker' = [worker EXCEPT ![v] = "tick"] /\ UNCHANGED <<session, risky>>
    BY <1>4 DEF WorkerFirst, WorkerSends, WorkerStep, SendStart
  <2>2. StartDue(v)
    BY <2>1 DEF StartDue
  <2> QED
    BY <1>1, <1>2, <2>1, <2>2, WorkerFacts, StartStep
<1>5. CASE WorkerCloses(v)
  <2>1. /\ worker' = [worker EXCEPT ![v] = "send"] /\ UNCHANGED <<loop, hole, risky>>
        /\ tunnel' = WithoutSession(v) /\ session' = [session EXCEPT ![v] = NoHole]
    BY <1>5 DEF WorkerCloses, WorkerStep, CloseSession
  <2>2. /\ worker' \in [Visitors -> {"none", "first", "tick", "opening", "close", "send"}]
        /\ \A w \in Visitors : w # v /\ StartDue(w)' => StartDue(w)
    BY <1>1, <2>1, WorkerFacts
  <2> QED
    BY <1>1, <1>2, <1>3, <2>1, <2>2, CloseStep
<1>6. CASE /\ \E to \in {"none", "tick", "opening", "close"} : worker' = [worker EXCEPT ![v] = to]
           /\ UNCHANGED <<loop, hole, session, tunnel, risky>>
  <2>1. PICK to \in {"none", "tick", "opening", "close"} : worker' = [worker EXCEPT ![v] = to]
    BY <1>6
  <2>2. /\ worker' \in [Visitors -> {"none", "first", "tick", "opening", "close", "send"}]
        /\ \A w \in Visitors : StartDue(w)' => StartDue(w)
    BY <1>1, <2>1, WorkerFacts
  <2> QED
    BY <1>1, <1>2, <1>3, <1>6, <2>2, FrameStep
<1>7. CASE \/ WorkerOpens(v) \/ WorkerExits(v)
           \/ \E to \in {"tick", "close"} : WorkerOpened(v, to)
           \/ WorkerSends(v) /\ ~(loop[v] = "select" /\ Unused # {})
  BY <1>6, <1>7 DEF WorkerOpens, WorkerExits, WorkerOpened, WorkerSends, WorkerStep, SendStart,
                    tunnelVars
<1> QED
  BY <1>4, <1>5, <1>7 DEF Worker

\* A step of a user connection.
LEMMA UserInv ==
  ASSUME TunnelInv, NEW u \in Users,
         HandleConn(u) \/ JoinEnds(u) \/ \E v \in Visitors : Accept(u, v)
  PROVE  TunnelInv'
<1>1. UserOK' /\ UNCHANGED <<state, worker>>
  <2>1. UNCHANGED <<state, worker>>
    BY DEF HandleConn, TimerFires, OpenConn, Opened, UserCloses, UserSends, OpenTunnelFails,
           TransferConn, AcceptInternal, JoinEnds, Accept
  <2> QED
    BY <2>1, HandleConnOK DEF TunnelInv
<1>2. /\ state' \in [Visitors -> {"new", "up", "cancelled", "closed"}]
      /\ worker' \in [Visitors -> {"none", "first", "tick", "opening", "close", "send"}]
      /\ loop \in [Visitors -> {"none", "select", "hole", "init", "sleep"}]
  BY <1>1 DEF TunnelInv, TunnelTypeOK
<1>3. \A x \in Users : x # u => at'[x] = at[x] /\ user'[x] = user[x]
  BY DEF HandleConn, TimerFires, OpenConn, Opened, UserCloses, UserSends, OpenTunnelFails,
         TransferConn, AcceptInternal, JoinEnds, Accept, UserStep, TunnelInv, UserOK
<1>4. user[u] = "send" => at[u] \in Visitors
  BY DEF TunnelInv, UserOK
<1>5. CASE user'[u] # "send" /\ UNCHANGED <<loop, hole, session, tunnel, risky>>
  <2>1. \A w \in Visitors : StartDue(w)' => StartDue(w)
    BY <1>1, <1>3, <1>5 DEF StartDue
  <2> QED
    BY <1>1, <1>2, <1>5, <2>1, FrameStep
<1>6. CASE UserSends(u)
  <2> DEFINE v == at[u]
  <2>1. /\ user[u] = "send" /\ user'[u] = "select" /\ SendStart(v) /\ UNCHANGED <<session, risky>>
    BY <1>6 DEF UserSends, UserStep, TunnelInv, UserOK
  <2>2. CASE loop[v] = "select" /\ Unused # {}
    <3>1. v \in Visitors /\ StartDue(v) /\ StartEvent(v)
      BY <1>4, <2>1, <2>2 DEF StartDue, SendStart
    <3>2. \A w \in Visitors : StartDue(w)' => StartDue(w)
      BY <1>1, <1>3, <2>1 DEF StartDue
    <3> HIDE DEF v
    <3> QED
      BY <1>1, <1>2, <2>1, <2>2, <3>1, <3>2, StartStep
  <2>3. CASE ~(loop[v] = "select" /\ Unused # {})
    BY <1>5, <2>1, <2>3 DEF SendStart
  <2> QED
    BY <2>2, <2>3
<1>7. CASE UserCloses(u)
  <2>1. PICK v \in Visitors : v = at[u]
    BY <1>7 DEF UserCloses, UserStep, TunnelInv, UserOK
  <2>2. /\ at'[u] = v /\ UNCHANGED <<loop, hole, risky>>
        /\ tunnel' = WithoutSession(v) /\ session' = [session EXCEPT ![v] = NoHole]
    BY <1>7, <2>1 DEF UserCloses, UserStep, CloseSession, TunnelInv, UserOK
  <2>3. \A w \in Visitors : w # v /\ StartDue(w)' => StartDue(w)
    BY <1>1, <1>3, <2>2 DEF StartDue
  <2> QED
    BY <1>1, <1>2, <2>2, <2>3, CloseStep
<1>8. CASE \/ TimerFires(u) \/ OpenConn(u) \/ Opened(u) \/ OpenTunnelFails(u) \/ AcceptInternal(u)
           \/ JoinEnds(u)
  <2>1. \E to \in UserStates \ {"send"} : user' = [user EXCEPT ![u] = to]
    BY <1>8 DEF TimerFires, OpenConn, Opened, OpenTunnelFails, AcceptInternal, JoinEnds, UserStep,
                UserStates
  <2>2. user'[u] # "send" /\ UNCHANGED <<loop, hole, session, tunnel, risky>>
    BY <1>8, <2>1 DEF TimerFires, OpenConn, Opened, OpenTunnelFails, AcceptInternal, JoinEnds,
                      tunnelVars, TunnelInv, UserOK
  <2> QED
    BY <1>5, <2>2
<1>9. CASE TransferConn(u) \/ \E v \in Visitors : Accept(u, v)
  <2>1. user'[u] # "send" /\ UNCHANGED <<loop, hole, session, tunnel, risky>>
    BY <1>9 DEF TransferConn, PutConn, Accept, tunnelVars, TunnelInv, UserOK
  <2> QED
    BY <1>5, <2>1
<1> QED
  BY <1>6, <1>7, <1>8, <1>9 DEF HandleConn

LEMMA LoopInv ==
  ASSUME TunnelInv, NEW v \in Visitors, TunnelLoop(v) \/ CloseVisitor(v)
  PROVE  TunnelInv'
<1>1. UNCHANGED <<visitors, at, user, worker>>
  BY DEF TunnelLoop, MakeNatHole, InitSession, LoopAgain, LoopExits, CloseVisitor, managerVars,
         userVars
<1>2. UserOK' /\ \A w \in Visitors : StartDue(w)' <=> StartDue(w)
  BY <1>1 DEF TunnelInv, UserOK, StartDue
<1>3. worker' \in [Visitors -> {"none", "first", "tick", "opening", "close", "send"}]
  BY <1>1 DEF TunnelInv, TunnelTypeOK
<1>4. CASE MakeNatHole(v)
  BY <1>2, <1>4, MakeStep
<1>5. CASE InitSession(v)
  BY <1>2, <1>5, InitStep
<1>6. CASE LoopAgain(v) \/ LoopExits(v)
  <2>1. /\ UNCHANGED <<state, hole, session, tunnel, risky>>
        /\ loop[v] \in {"sleep", "select"}
        /\ \E to \in {"none", "select"} : loop' = [loop EXCEPT ![v] = to]
    BY <1>6 DEF LoopAgain, LoopExits, tunnelVars
  <2>2. /\ loop' \in [Visitors -> {"none", "select", "hole", "init", "sleep"}]
        /\ state' \in [Visitors -> {"new", "up", "cancelled", "closed"}]
        /\ \A w \in Visitors : /\ loop'[w] \in {"hole", "init"} <=> loop[w] \in {"hole", "init"}
                               /\ loop[w] = "none" => loop'[w] = "none"
    BY <2>1 DEF TunnelInv, TunnelTypeOK
  <2> QED
    BY <1>2, <1>3, <2>1, <2>2, FrameStep
<1>7. CASE CloseVisitor(v)
  <2>1. /\ UNCHANGED <<loop, hole, risky>>
        /\ tunnel' = WithoutSession(v) /\ session' = [session EXCEPT ![v] = NoHole]
        /\ state' \in [Visitors -> {"new", "up", "cancelled", "closed"}]
        /\ \A w \in Visitors : state'[w] = IF w = v THEN "closed" ELSE state[w]
    BY <1>7 DEF CloseVisitor, TunnelInv, TunnelTypeOK
  <2> QED
    BY <1>2, <1>3, <2>1, CloseStep
<1> QED
  BY <1>4, <1>5, <1>6, <1>7 DEF TunnelLoop

LEMMA TunnelInitInv == ASSUME VisitorInit PROVE TunnelInv
<1>1. UserOK
  BY DEF VisitorInit, UserOK, UserStates
<1>2. TunnelTypeOK /\ KeptOK
  BY DEF VisitorInit, TunnelTypeOK, KeptOK
<1> QED
  BY <1>1, <1>2 DEF VisitorInit, TunnelInv, HeldOK, RiskOK, ApartOK

LEMMA TunnelStepInv == ASSUME TunnelInv, [VisitorNext]_visitorVars PROVE TunnelInv'
<1>1. CASE \E n \in Names : AddVisitor(n) \/ KeepVisitorsRunning(n) \/ RemoveVisitor(n)
                            \/ CloseManager(n)
  BY <1>1, ManagerStep
<1>2. CASE \E v \in Visitors : CloseVisitor(v) \/ TunnelLoop(v) \/ Worker(v)
  BY <1>2, LoopInv, WorkerInv
<1>3. CASE \E h \in Holes : TunnelBreaks(h)
  <2>1. PICK h \in Holes : TunnelBreaks(h)
    BY <1>3
  <2>2. UserOK'
    BY <2>1 DEF TunnelBreaks, TunnelInv, UserOK, managerVars, userVars
  <2> QED
    BY <2>1, <2>2, BreakStep
<1>4. CASE \E u \in Users : HandleConn(u) \/ JoinEnds(u) \/ \E v \in Visitors : Accept(u, v)
  BY <1>4, UserInv
<1>5. CASE UNCHANGED visitorVars
  <2>1. /\ UNCHANGED <<visitors, at, user, state, loop, worker, hole, session, tunnel, risky>>
        /\ UserOK'
    BY <1>5 DEF visitorVars, managerVars, tunnelVars, userVars, TunnelInv, UserOK
  <2>2. \A w \in Visitors : StartDue(w)' <=> StartDue(w)
    BY <2>1 DEF StartDue
  <2> QED
    BY <2>1, <2>2, FrameStep DEF TunnelInv, TunnelTypeOK
<1> QED
  BY <1>1, <1>2, <1>3, <1>4, <1>5 DEF VisitorNext

-----------------------------------------------------------------------------
(***************************************************************************)
(* The inductive invariant: the tunnels of sessions and loops are apart,   *)
(* and Init replaces only a session that somebody had yet to send a start  *)
(* for when it was installed.                                              *)
(***************************************************************************)
THEOREM TunnelInvariance == VisitorSpec => []TunnelInv
<1>1. VisitorInit => TunnelInv
  BY TunnelInitInv
<1>2. TunnelInv /\ [VisitorNext]_visitorVars => TunnelInv'
  BY TunnelStepInv
<1> QED
  BY <1>1, <1>2, PTL DEF VisitorSpec

(***************************************************************************)
(* For any visitors, fallbacks, user connections and number of tunnels: an *)
(* open tunnel is the session of a visitor that will close it, but for the *)
(* two kinds named in risky.                                               *)
(***************************************************************************)
THEOREM TunnelsAreKept == VisitorSpec => []TunnelsKept
<1>1. ASSUME TunnelInv PROVE TunnelsKept
  <2> SUFFICES ASSUME NEW h \in Holes, tunnel[h] \in {"live", "dead"}, h \notin risky
               PROVE  \E v \in Visitors : session[v] = h /\ state[v] # "closed"
    BY DEF TunnelsKept
  <2>1. PICK v \in Visitors : session[v] = h
    BY <1>1 DEF TunnelInv, KeptOK
  <2>2. state[v] # "closed"
    BY <1>1, <2>1, HoleFacts DEF RiskOK
  <2> QED
    BY <2>1, <2>2
<1> QED
  BY <1>1, TunnelInvariance, PTL

=============================================================================
