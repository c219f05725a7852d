---------------------------- MODULE MCHolePunch ----------------------------
(* A small instance of HolePunch.                                          *)
EXTENDS HolePunch, TLC

=============================================================================
