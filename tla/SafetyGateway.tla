---------------------------- MODULE SafetyGateway ----------------------------
(***************************************************************************)
(* The safety path as a whole: SafetyArbitrator and SotifPlausibilityGate  *)
(* send their commands through one IpcBridge, with the same service and    *)
(* event id, to the M7 supervisor, which obeys whatever comes last.        *)
(*                                                                         *)
(* Each part is here as what its own module shows of it.  The arbitrator   *)
(* is SafeStateAuthority, which SafetyArbitrator implements.  The gate     *)
(* numbers and sends one command per rejection (RejectsEscalate and        *)
(* CommandExplained of SotifPlausibilityGate).  The bridge is the bounded  *)
(* FIFO that IpcBridge implements as long as one thread at a time calls    *)
(* Send(), so calls of the two senders do not overlap here.  The M7 is not *)
(* in the repository: it obeys the commands in the order of the ring and   *)
(* can see neither sender nor anything else that tells them apart.         *)
(***************************************************************************)
EXTENDS DegradationMatrix, Sequences

CONSTANTS
  States,           \* the states that the arbitrator commands
  CounterModulus,   \* 2^32: where both series of command numbers wrap
  Capacity          \* kIpcRingSlots - 1

ASSUME StatesAssumption == States \subseteq SafeState
ASSUME ModulusAssumption == CounterModulus \in Nat \ {0, 1}
ASSUME CapacityAssumption == Capacity \in Nat \ {0}

VARIABLES
  currentState, sequenceNum,   \* of the arbitrator
  escalationSequence,          \* of the gate
  ring,             \* the commands published and not yet obeyed
  obeyed,           \* the command the M7 obeys
  heard,            \* history: the arbitrator's last command that it obeyed
  refused           \* history: Send() refused the arbitrator's last command

arbitratorVars == <<currentState, sequenceNum>>
m7Vars == <<obeyed, heard>>
vars == <<arbitratorVars, escalationSequence, ring, m7Vars, refused>>

Authority == INSTANCE SafeStateAuthority

-----------------------------------------------------------------------------
\* What a command tells the M7; sender is known to the model only.
Number == 0..(CounterModulus - 1)
Message ==
  [sender : {"arbitrator", "gate"}, state : SafeState, maxSpeedKph : Nat,
   decelPercent : Nat, sequenceNum : Number]

\* ExecuteTransition(): the limits of the state.
ArbitratorMessage(state, n) ==
  [sender |-> "arbitrator", state |-> state, maxSpeedKph |-> MaxSpeedKph(state),
   decelPercent |-> DecelPercent(state), sequenceNum |-> n]

\* EscalateToSafeState(kReducedDynamics): the speed of that state, and the
\* braking that SafeStateCommand{} defaults to.
GateMessage(n) ==
  [sender |-> "gate", state |-> ReducedDynamics, maxSpeedKph |-> 30,
   decelPercent |-> 100, sequenceNum |-> n]

\* Mutant: a full ring gives up its newest entry instead of refusing.
SendOverwriting(msg) ==
  ring' = IF Len(ring) < Capacity THEN Append(ring, msg)
                                  ELSE [ring EXCEPT ![Len(ring)] = msg]

\* Mutant: the full check is dropped.
SendUnchecked(msg) == ring' = Append(ring, msg)

\* IpcBridge::Send(): refused (kIpcBufferFull) if the ring is full.
Send(msg) ==
  ring' = IF Len(ring) < Capacity THEN Append(ring, msg) ELSE ring

-----------------------------------------------------------------------------
\* Before the first command the M7 is in full operation, as lastCommand_ of the
\* arbitrator is.
Init ==
  /\ Authority!Init
  /\ escalationSequence = 0
  /\ ring = << >>
  /\ obeyed = ArbitratorMessage(FullOperation, 0)
  /\ heard = ArbitratorMessage(FullOperation, 0)
  /\ refused = FALSE

\* Mutant: lastCommand_ is sent before it is assigned.
ArbitrateStale ==
  /\ Authority!Transition
  /\ Send(ArbitratorMessage(currentState, sequenceNum))
  /\ refused' = (Len(ring) = Capacity)
  /\ UNCHANGED <<escalationSequence, m7Vars>>

\* Arbitrate() executes a transition and hands its command to Send().  The new
\* state is in force for the arbitrator whether the ring took it or not, and
\* later cycles that require the same state find nothing to do.
Arbitrate ==
  /\ Authority!Transition
  /\ Send(ArbitratorMessage(currentState', sequenceNum'))
  /\ refused' = (Len(ring) = Capacity)
  /\ UNCHANGED <<escalationSequence, m7Vars>>

\* Evaluate() rejects a candidate: EscalateToSafeState(), whose Send() may be
\* refused as well.
GateRejects ==
  /\ Send(GateMessage(escalationSequence))
  /\ escalationSequence' = Authority!NextNumber(escalationSequence)
  /\ UNCHANGED <<arbitratorVars, m7Vars, refused>>

\* The M7 reads, verifies and releases the slot at tail, and obeys.
M7Obeys ==
  /\ ring # << >>
  /\ obeyed' = Head(ring)
  /\ heard' = IF Head(ring).sender = "arbitrator" THEN Head(ring) ELSE heard
  /\ ring' = Tail(ring)
  /\ UNCHANGED <<arbitratorVars, escalationSequence, refused>>

Next == Arbitrate \/ GateRejects \/ M7Obeys

Spec == Init /\ [][Next]_vars

\* The M7 keeps reading its ring.
FairSpec == Spec /\ WF_vars(M7Obeys)

-----------------------------------------------------------------------------
TypeOK ==
  /\ currentState \in SafeState
  /\ sequenceNum \in Number
  /\ escalationSequence \in Number
  /\ ring \in Seq(Message) /\ Len(ring) <= Capacity
  /\ obeyed \in Message
  /\ heard \in Message
  /\ refused \in BOOLEAN

\* Once the M7 has emptied the ring, it obeys the state, the limits and the
\* number that the arbitrator believes in force, unless the ring refused that
\* command or the gate has spoken since.
M7MeetsDemand ==
  ring = << >> /\ ~refused /\ obeyed.sender = "arbitrator"
    => obeyed = ArbitratorMessage(currentState, sequenceNum)

\* Every state that the arbitrator puts into force is heard by the M7, whatever
\* the gate sends around it, unless its command is refused.
TransitionReachesM7 ==
  \A s \in SafeState : (currentState = s /\ ~refused) ~> (heard.state = s)
==============================================================================
