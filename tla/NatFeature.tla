----------------------------- MODULE NatFeature -----------------------------
(***************************************************************************)
(* pkg/nathole/classify.go and the tables of pkg/nathole/analysis.go: what *)
(* kind of NAT a peer is behind and which behaviours are worth trying for  *)
(* a pair of peers.                                                        *)
(*                                                                         *)
(* A peer is the pair of address lists it reports: addrs, its mapped       *)
(* addresses as [ip, port] records, at least two (nathole.Prepare fails    *)
(* with fewer), and local, the IPs of its own interfaces.                  *)
(***************************************************************************)
EXTENDS Integers, Sequences, FiniteSets

Indices(seq) == 1 .. Len(seq)

Ports(addrs) == {addrs[i].port : i \in Indices(addrs)}

\* portMax - portMin.
Spread(ports) ==
  CHOOSE d \in {a - b : a, b \in ports} : \A a, b \in ports : a - b <= d

Regular(behavior, difference) ==
  behavior = "PortChanged" /\ difference >= 1 /\ difference <= 5

ClassifyNATFeature(peer) ==
  LET addrs == peer.addrs
      ipChanged == \E i \in Indices(addrs) : addrs[i].ip # addrs[1].ip
      portChanged == \E i \in Indices(addrs) : addrs[i].port # addrs[1].port
      behavior == CASE ipChanged /\ portChanged -> "BothChanged"
                    [] ipChanged /\ ~portChanged -> "IPChanged"
                    [] ~ipChanged /\ portChanged -> "PortChanged"
                    [] OTHER -> "NoChange"
      difference == IF behavior = "PortChanged" THEN Spread(Ports(addrs)) ELSE 0
  IN
  [NatType |-> IF behavior = "NoChange" THEN "EasyNAT" ELSE "HardNAT",
   Behavior |-> behavior,
   PortsDifference |-> difference,
   RegularPortsChange |-> Regular(behavior, difference),
   PublicNetwork |-> \E i \in Indices(addrs) : addrs[i].ip \in peer.local]

Hard(f) == f.NatType = "HardNAT"

\* ClassifyFeatureCount of a pair of features.
hardCount(c, v) == (IF Hard(c) THEN 1 ELSE 0) + (IF Hard(v) THEN 1 ELSE 0)

portsChangedRegularCount(c, v) ==
  (IF c.RegularPortsChange THEN 1 ELSE 0) + (IF v.RegularPortsChange THEN 1 ELSE 0)

-----------------------------------------------------------------------------
(***************************************************************************)
(* The behaviour tables.  A behaviour is the role it gives the first of    *)
(* the two peers; the second has the opposite role.  TTLs, delays and      *)
(* numbers of ports are left out.                                          *)
(***************************************************************************)
Roles == {"sender", "receiver"}

Opposite(role) == IF role = "sender" THEN "receiver" ELSE "sender"

mode0Behaviors ==
  <<"sender", "receiver", "sender", "receiver", "sender", "receiver",
    "sender", "sender", "receiver", "receiver">>

mode1Behaviors == [i \in 1 .. 6 |-> "sender"]

mode2Behaviors == [i \in 1 .. 3 |-> "sender"]

mode3Behaviors == [i \in 1 .. 6 |-> IF i <= 3 THEN "sender" ELSE "receiver"]

mode4Behaviors == [i \in 1 .. 3 |-> "sender"]

Modes == 0 .. 4

getBehaviorByMode(mode) ==
  CASE mode = 1 -> mode1Behaviors
    [] mode = 2 -> mode2Behaviors
    [] mode = 3 -> mode3Behaviors
    [] mode = 4 -> mode4Behaviors
    [] OTHER -> mode0Behaviors

\* Indices count from 1 here and from 0 in the code.
getBehaviorScoresByMode2(mode, senderScore, receiverScore) ==
  LET behaviors == getBehaviorByMode(mode) IN
  [i \in Indices(behaviors) |->
     [Mode |-> mode, Index |-> i,
      Score |-> IF behaviors[i] = "sender" THEN senderScore ELSE receiverScore]]

getBehaviorScoresByMode(mode, score) ==
  getBehaviorScoresByMode2(mode, score, score)

mode0Scores(c, v) ==
  CASE c.PublicNetwork -> getBehaviorScoresByMode2(0, 0, 1)
    [] ~c.PublicNetwork /\ v.PublicNetwork -> getBehaviorScoresByMode2(0, 1, 0)
    [] OTHER -> getBehaviorScoresByMode(0, 0)

newMakeHoleRecords(c, v) ==
  LET hard == hardCount(c, v)
      regular == portsChangedRegularCount(c, v)
      mode(m) == getBehaviorScoresByMode(m, 0)
      tryout(m) == getBehaviorScoresByMode(m, 1)
  IN
  CASE hard = 0 -> mode0Scores(c, v)
    [] hard = 1 /\ regular = 1 -> mode(1) \o mode(2) \o mode0Scores(c, v)
    [] hard = 1 /\ regular = 0 -> mode(2) \o mode(1) \o mode0Scores(c, v)
    [] hard = 2 /\ regular = 2 -> mode(3) \o mode(4)
    [] hard = 2 /\ regular = 1 -> mode(4)
    [] OTHER -> tryout(0) \o tryout(1) \o tryout(3)

\* Whether the client takes the second behaviour of the table's pair.
Swapped(mode, c) ==
  \/ mode = 1 /\ ~Hard(c)
  \/ mode = 2 /\ Hard(c)
  \/ mode = 4 /\ ~c.RegularPortsChange

\* The client's role under a recommended mode and index.
clientRole(mode, index, c) ==
  LET role == getBehaviorByMode(mode)[index] IN
  IF Swapped(mode, c) THEN Opposite(role) ELSE role

-----------------------------------------------------------------------------
\* genAnalysisKey: first IP, NAT type, behaviour and regularity of both peers.
PeerKey_NoRegularity(p) ==
  LET f == ClassifyNATFeature(p) IN
  <<p.addrs[1].ip, f.NatType, f.Behavior>>

PeerKey(p) ==
  LET f == ClassifyNATFeature(p) IN
  <<p.addrs[1].ip, f.NatType, f.Behavior, f.RegularPortsChange>>

analysisKey(c, v) == <<PeerKey(v), PeerKey(c)>>
=============================================================================
