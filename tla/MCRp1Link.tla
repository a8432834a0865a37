----------------------------- MODULE MCRp1Link -----------------------------
(***************************************************************************)
(* Four launches, in any order and by either of two callers: one that      *)
(* reprograms, one that runs a kernel and enlarges the ring, one that does *)
(* both, and one whose ring length is refused.  The ring is shorter than   *)
(* an image, so that the firmware is held back until the host drains.  A   *)
(* new card starts over once; on one in service the words wrap.            *)
(***************************************************************************)
EXTENDS Rp1Link

TwoCallers == {"c1", "c2"}
FourLaunches == 1..4

FourImages ==
  << [packets |-> <<"pdi", "signal">>, size |-> 0],
     [packets |-> <<"kernel", "signal">>, size |-> 2],
     [packets |-> <<"pdi", "kernel", "signal">>, size |-> 0],
     [packets |-> <<"signal">>, size |-> 3] >>

FreshOrUsed == {[word |-> 0, restarts |-> 1], [word |-> 14, restarts |-> 0]}
=============================================================================
