----------------------------- MODULE MCAnalyzer -----------------------------
(* Analyzer on small instances. *)
EXTENDS Analyzer, TLC

CONSTANTS h1, h2, a1, a2, a3

Peer(ip, port, local) ==
  [addrs |-> <<[ip |-> ip, port |-> 1], [ip |-> ip, port |-> port]>>,
   local |-> local]

\* Behind an easy NAT, on a public network, behind a hard NAT with regular and
\* with irregular port changes.
Easy == Peer("a", 1, {})
Public == Peer("b", 1, {"b"})
RegularHard == Peer("c", 3, {})
IrregularHard == Peer("c", 9, {})

Kinds == {Public, RegularHard, IrregularHard}
AllPairs == Kinds \X Kinds
HardPairs == {<<RegularHard, IrregularHard>>}
PublicPairs == {<<Easy, Public>>, <<Public, Easy>>}
NoPairs == {}

AnalyzerSymmetry == Permutations(Handlers) \cup Permutations(Records)
=============================================================================
