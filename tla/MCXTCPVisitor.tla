--------------------------- MODULE MCXTCPVisitor ---------------------------
(* A small instance of XTCPVisitor.                                        *)
EXTENDS XTCPVisitor, TLC

CONSTANTS a, b, va, vb

MCName == va :> a @@ vb :> b
MCFallbackTo == a :> b @@ b :> NoName

=============================================================================
