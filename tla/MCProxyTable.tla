---------------------------- MODULE MCProxyTable ----------------------------
(* ProxyTable on small instances. *)
EXTENDS ProxyTable, TLC

CONSTANTS c1, c2, c3, n1, n2, p1, p2, p3, p4

\* c1 and c2 are generations of one client, c3 is another client.
TwoClients == c1 :> <<"run1", 1>> @@ c2 :> <<"run1", 2>> @@ c3 :> <<"run2", 1>>

ProxySymmetry == Permutations(Names) \cup Permutations(Proxies)
=============================================================================
