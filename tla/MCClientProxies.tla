-------------------------- MODULE MCClientProxies --------------------------
(* Small instances of ClientProxies.                                       *)
EXTENDS ClientProxies, TLC

=============================================================================
