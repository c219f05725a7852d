------------------------------ MODULE RunLease ------------------------------
(***************************************************************************)
(* What the control manager promises about a run ID: its resources (the    *)
(* proxies a client registers, its work connections) belong to one control *)
(* generation at a time, a generation gets them once, and never after a    *)
(* newer generation of the run has had them.                               *)
(***************************************************************************)
EXTENDS Naturals

VARIABLES
  held,   \* pairs <<run, generation>> that hold the run's resources
  used    \* pairs that hold or have held them

leaseVars == <<held, used>>

LeaseInit == held = {} /\ used = {}

Acquire(r, id) ==
  /\ \A p \in held : p[1] # r
  /\ \A p \in used : p[1] = r => p[2] < id
  /\ held' = held \cup {<<r, id>>}
  /\ used' = used \cup {<<r, id>>}

Release(r, id) ==
  /\ <<r, id>> \in held
  /\ held' = held \ {<<r, id>>}
  /\ UNCHANGED used

LeaseNext ==
  \/ \E p \in held' : Acquire(p[1], p[2])
  \/ \E p \in held : Release(p[1], p[2])

LeaseSpec == LeaseInit /\ [][LeaseNext]_leaseVars
=============================================================================
