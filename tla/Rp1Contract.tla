---------------------------- MODULE Rp1Contract ----------------------------
(***************************************************************************)
(* What launching an image on RP1 promises its caller.                     *)
(*                                                                         *)
(* Launches are numbered.  One is open from the moment its image is handed *)
(* to the hardware until its result is known.  While it is open the        *)
(* hardware may work on it, and on nothing else.  A launch that succeeds   *)
(* has been worked through to its end, and its caller is given the         *)
(* evidence of exactly this.  A launch whose end the host could not wait   *)
(* for retires the hardware: no other image is ever handed to it.          *)
(***************************************************************************)
EXTENDS Naturals

CONSTANTS
  Launches,      \* the numbers of the launches; 0 is none of them
  Evidence(_)    \* the completion records of a launch that succeeds

VARIABLES
  open,          \* the launch that was handed over, 0 for none
  hw,            \* the launch the hardware works on, 0 for none
  finished,      \* the launches that were worked through to their end
  result,        \* what a launch returned, NoResult before
  retired

vars == <<open, hw, finished, result, retired>>

NoResult == [out |-> "none", evidence |-> <<>>]
Ok(l) == [out |-> "ok", evidence |-> Evidence(l)]

Init ==
  /\ open = 0 /\ hw = 0
  /\ finished = {}
  /\ result = [l \in Launches |-> NoResult]
  /\ retired = FALSE

HandOver(l) ==
  /\ ~retired /\ open = 0 /\ hw = 0
  /\ result[l] = NoResult
  /\ open' = l
  /\ UNCHANGED <<hw, finished, result, retired>>

Take ==
  /\ open # 0 /\ hw = 0
  /\ hw' = open
  /\ UNCHANGED <<open, finished, result, retired>>

Finish ==
  /\ hw # 0
  /\ hw' = 0
  /\ finished' = finished \cup {hw}
  /\ UNCHANGED <<open, result, retired>>

\* The hardware stops before the end: an error, or a restart.
Abandon ==
  /\ hw # 0
  /\ hw' = 0
  /\ UNCHANGED <<open, finished, result, retired>>

Succeed ==
  /\ ~retired /\ open \in finished /\ hw = 0
  /\ result' = [result EXCEPT ![open] = Ok(open)]
  /\ open' = 0
  /\ UNCHANGED <<hw, finished, retired>>

\* A launch may fail before it is handed over.  One that retired the hardware
\* stays open.
Fail(l) ==
  /\ result[l] = NoResult
  /\ result' = [result EXCEPT ![l].out = "error"]
  /\ open' = IF open = l /\ ~retired THEN 0 ELSE open
  /\ UNCHANGED <<hw, finished, retired>>

Retire ==
  /\ open # 0
  /\ retired' = TRUE
  /\ UNCHANGED <<open, hw, finished, result>>

Next ==
  \/ \E l \in Launches : HandOver(l) \/ Fail(l)
  \/ Take \/ Finish \/ Abandon \/ Succeed \/ Retire

Spec == Init /\ [][Next]_vars

=============================================================================
