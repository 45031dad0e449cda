-------------------------- MODULE SafeStateAuthority --------------------------
(***************************************************************************)
(* What SafetyArbitrator promises those who listen to it: it starts in     *)
(* full operation, every change of the safe state takes the next command   *)
(* number, numbers are taken by nothing else, and only certain states are  *)
(* ever commanded.                                                         *)
(***************************************************************************)
EXTENDS DegradationMatrix

CONSTANTS
  States,           \* the states that may be commanded
  CounterModulus    \* 2^32: where the command number wraps

VARIABLES currentState, sequenceNum

authorityVars == <<currentState, sequenceNum>>

Init ==
  /\ currentState = FullOperation
  /\ sequenceNum = 0

NextNumber(n) == IF n + 1 = CounterModulus THEN 0 ELSE n + 1

Transition ==
  /\ currentState' \in States \ {currentState}
  /\ sequenceNum' = NextNumber(sequenceNum)

Spec == Init /\ [][Transition]_authorityVars
==============================================================================
