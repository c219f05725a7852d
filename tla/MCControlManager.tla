-------------------------- MODULE MCControlManager --------------------------
(* ControlManager on small instances. *)
EXTENDS ControlManager, TLC

CONSTANTS c1, c2, c3, w1, w2, r1, r2, u1, i1

\* One key for the client ID and one that the run IDs share: logins conflict
\* over the first, take over the second and move between the two.
TwoKeys == {<<"run">>, <<"client">>}
TwoKey == [p \in Users \X (RunIDs \cup ClientIDs) |->
             IF p[2] \in ClientIDs THEN <<"client">> ELSE <<"run">>]

\* Two runs log in with the same registry key.  Logins of one run only are those
\* of MCControlGenerations.cfg; records under different keys do not interact.
ContendedInit ==
  /\ Init
  /\ \E c, d \in Controls :
       login[c].run # login[d].run /\ KeyOf(login[c]) = KeyOf(login[d])

ContendedSpec == ContendedInit /\ [][Next]_vars

ControlSymmetry == Permutations(Controls) \cup Permutations(RunIDs)
=============================================================================
