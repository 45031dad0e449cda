------------------------- MODULE SafetyGatewayProofs -------------------------
(***************************************************************************)
(* The M7 obeys what the arbitrator believes in force, for any capacity of *)
(* the ring, any width of the numbers and any set of states, unless a      *)
(* command was refused or the gate has spoken since.                       *)
(***************************************************************************)
EXTENDS SafetyGateway, TLAPS

FromArbitrator(i) == ring[i].sender = "arbitrator"

\* The command the arbitrator believes the M7 has.
Latest == ArbitratorMessage(currentState, sequenceNum)

\* Unless it was refused, that command is the arbitrator's last one in the
\* ring, or else the last one that the M7 heard.
LatestOnItsWay ==
  ~refused =>
    /\ \A i \in 1..Len(ring) :
         FromArbitrator(i)
           /\ (\A j \in 1..Len(ring) : j > i => ~FromArbitrator(j))
         => ring[i] = Latest
    /\ (\A i \in 1..Len(ring) : ~FromArbitrator(i)) => heard = Latest

\* If the M7 obeys the arbitrator, then in the last thing it heard from it.
ObeyedIsHeard == obeyed.sender = "arbitrator" => obeyed = heard

IInv == TypeOK /\ LatestOnItsWay /\ ObeyedIsHeard

-----------------------------------------------------------------------------
\* Messages of either sender are well formed.
LEMMA ArbitratorMessageType ==
  ASSUME NEW s \in SafeState, NEW n \in Number
  PROVE  ArbitratorMessage(s, n) \in Message
<1>1. MaxSpeedKph(s) \in Nat /\ DecelPercent(s) \in Nat
  BY DEF MaxSpeedKph, DecelPercent, SafeState, FullOperation, RadarCameraFallback,
         LidarCameraFallback, LidarRadarFallback, DeadReckoningMode,
         ReducedDynamics, MinimalRiskCondition, EmergencyStop
<1>2. QED
  BY <1>1 DEF ArbitratorMessage, Message

LEMMA GateMessageType ==
  ASSUME NEW n \in Number
  PROVE  GateMessage(n) \in Message
BY DEF GateMessage, Message, SafeState, ReducedDynamics

LEMMA NextNumberType ==
  ASSUME NEW n \in Number
  PROVE  Authority!NextNumber(n) \in Number
BY ModulusAssumption DEF Authority!NextNumber, Number

\* Type correctness of every step.
LEMMA TypeStep ==
  ASSUME TypeOK, [Next]_vars
  PROVE  TypeOK'
<1> USE DEF TypeOK
<1>1. ASSUME NEW msg \in Message, Send(msg)
      PROVE  ring' \in Seq(Message) /\ Len(ring') <= Capacity
  BY <1>1, CapacityAssumption DEF Send
<1>2. CASE Arbitrate
  <2>1. currentState' \in SafeState /\ sequenceNum' \in Number
    BY <1>2, StatesAssumption, NextNumberType DEF Arbitrate, Authority!Transition
  <2>2. ArbitratorMessage(currentState', sequenceNum') \in Message
    BY <2>1, ArbitratorMessageType
  <2>3. ring' \in Seq(Message) /\ Len(ring') <= Capacity
    BY <1>1, <1>2, <2>2 DEF Arbitrate
  <2>4. refused' \in BOOLEAN
    BY <1>2 DEF Arbitrate
  <2>5. QED
    BY <1>2, <2>1, <2>3, <2>4 DEF Arbitrate, m7Vars
<1>3. CASE GateRejects
  <2>1. ring' \in Seq(Message) /\ Len(ring') <= Capacity
    BY <1>1, <1>3, GateMessageType DEF GateRejects
  <2>2. QED
    BY <1>3, <2>1, NextNumberType DEF GateRejects, arbitratorVars, m7Vars
<1>4. CASE M7Obeys
  <2>1. Head(ring) \in Message
    BY <1>4 DEF M7Obeys
  <2>2. ring' \in Seq(Message) /\ Len(ring') <= Capacity
    <3>1. ring' = Tail(ring) /\ ring # << >> /\ ring \in Seq(Message)
      BY <1>4 DEF M7Obeys
    <3>2. ring' \in Seq(Message) /\ Len(ring') = Len(ring) - 1
      BY <3>1
    <3>3. QED
      BY <3>1, <3>2, CapacityAssumption
  <2>3. QED
    BY <1>4, <2>1, <2>2 DEF M7Obeys, arbitratorVars
<1>5. CASE UNCHANGED vars
  BY <1>5 DEF vars, arbitratorVars, m7Vars
<1>6. QED
  BY <1>2, <1>3, <1>4, <1>5 DEF Next

-----------------------------------------------------------------------------
\* A transition either is refused, or becomes the last command in the ring.
LEMMA ArbitrateStep ==
  ASSUME IInv, Arbitrate
  PROVE  LatestOnItsWay' /\ ObeyedIsHeard'
<1>1. ObeyedIsHeard'
  BY DEF IInv, ObeyedIsHeard, Arbitrate, m7Vars
<1>2. SUFFICES ASSUME ~refused'
               PROVE  LatestOnItsWay'
  BY <1>1 DEF LatestOnItsWay
<1>3. Len(ring) < Capacity
  <2>1. Len(ring) # Capacity
    BY <1>2, Zenon DEF Arbitrate
  <2>2. Len(ring) \in Nat /\ Len(ring) <= Capacity
    BY DEF IInv, TypeOK
  <2>3. QED
    BY <2>1, <2>2, CapacityAssumption
<1>4. ring' = Append(ring, Latest')
  BY <1>3 DEF Arbitrate, Send, Latest
<1>5. Latest'.sender = "arbitrator"
  BY DEF Latest, ArbitratorMessage
<1>6. Len(ring') = Len(ring) + 1 /\ ring'[Len(ring) + 1] = Latest'
  BY <1>4 DEF IInv, TypeOK
<1>7. Len(ring) \in Nat
  BY DEF IInv, TypeOK
<1>8. QED
  BY <1>5, <1>6, <1>7 DEF LatestOnItsWay, FromArbitrator

\* A rejection adds at most a command of the gate at the end.
LEMMA GateRejectsStep ==
  ASSUME IInv, GateRejects
  PROVE  LatestOnItsWay' /\ ObeyedIsHeard'
<1>1. ObeyedIsHeard'
  BY DEF IInv, ObeyedIsHeard, GateRejects, m7Vars
<1>2. Latest' = Latest /\ heard' = heard /\ refused' = refused
  BY DEF GateRejects, Latest, arbitratorVars, m7Vars, ArbitratorMessage
<1>3. CASE ring' = ring
  BY <1>1, <1>2, <1>3 DEF IInv, LatestOnItsWay, FromArbitrator
<1>4. CASE ring' = Append(ring, GateMessage(escalationSequence))
  <2>1. /\ Len(ring) \in Nat
        /\ Len(ring') = Len(ring) + 1
        /\ \A i \in 1..Len(ring) : ring'[i] = ring[i]
        /\ ring'[Len(ring) + 1] = GateMessage(escalationSequence)
    BY <1>4 DEF IInv, TypeOK
  <2>2. /\ \A i \in 1..Len(ring) : FromArbitrator(i)' <=> FromArbitrator(i)
        /\ \A i \in 1..Len(ring') : i = Len(ring) + 1 => ~FromArbitrator(i)'
    BY <2>1 DEF FromArbitrator, GateMessage
  <2>3. LatestOnItsWay'
    <3>1. SUFFICES ASSUME ~refused
                   PROVE  LatestOnItsWay'
      BY <1>2 DEF LatestOnItsWay
    <3>2. ASSUME NEW i \in 1..Len(ring'), FromArbitrator(i)',
                 \A j \in 1..Len(ring') : j > i => ~FromArbitrator(j)'
          PROVE  ring'[i] = Latest'
      <4>1. i \in 1..Len(ring) /\ FromArbitrator(i)
        BY <2>1, <2>2, <3>2
      <4>2. \A j \in 1..Len(ring) : j > i => ~FromArbitrator(j)
        BY <2>1, <2>2, <3>2
      <4>3. ring[i] = Latest
        BY <3>1, <4>1, <4>2 DEF IInv, LatestOnItsWay
      <4>4. QED
        BY <1>2, <2>1, <4>1, <4>3
    <3>3. ASSUME \A i \in 1..Len(ring') : ~FromArbitrator(i)'
          PROVE  heard' = Latest'
      <4>1. \A i \in 1..Len(ring) : ~FromArbitrator(i)
        BY <2>1, <2>2, <3>3
      <4>2. QED
        BY <1>2, <3>1, <4>1 DEF IInv, LatestOnItsWay
    <3>4. QED
      BY <3>2, <3>3 DEF LatestOnItsWay
  <2>4. QED
    BY <1>1, <2>3
<1>5. QED
  BY <1>3, <1>4 DEF GateRejects, Send

\* Reading the ring moves its first command to the M7.
LEMMA M7ObeysStep ==
  ASSUME IInv, M7Obeys
  PROVE  LatestOnItsWay' /\ ObeyedIsHeard'
<1>1. ObeyedIsHeard'
  BY DEF M7Obeys, ObeyedIsHeard
<1>2. /\ Len(ring) \in Nat \ {0}
      /\ ring[1] = Head(ring)
      /\ Len(ring') = Len(ring) - 1
      /\ \A i \in 1..Len(ring') : ring'[i] = ring[i + 1]
  BY DEF IInv, TypeOK, M7Obeys
<1>3. Latest' = Latest /\ refused' = refused
  BY DEF M7Obeys, Latest, arbitratorVars, ArbitratorMessage
<1>4. \A i \in 1..Len(ring') : FromArbitrator(i)' = FromArbitrator(i + 1)
  BY <1>2 DEF FromArbitrator
<1>5. SUFFICES ASSUME ~refused
               PROVE  LatestOnItsWay'
  BY <1>1, <1>3 DEF LatestOnItsWay
<1>6. ASSUME NEW i \in 1..Len(ring'), FromArbitrator(i)',
             \A j \in 1..Len(ring') : j > i => ~FromArbitrator(j)'
      PROVE  ring'[i] = Latest'
  <2>1. i + 1 \in 1..Len(ring) /\ FromArbitrator(i + 1)
    BY <1>2, <1>4, <1>6
  <2>2. \A j \in 1..Len(ring) : j > i + 1 => ~FromArbitrator(j)
    <3>1. SUFFICES ASSUME NEW j \in 1..Len(ring), j > i + 1
                   PROVE  ~FromArbitrator(j)
      OBVIOUS
    <3>2. j - 1 \in 1..Len(ring') /\ j - 1 > i /\ (j - 1) + 1 = j
      BY <1>2, <3>1
    <3>3. ~FromArbitrator(j - 1)'
      BY <1>6, <3>2
    <3>4. FromArbitrator(j - 1)' = FromArbitrator(j)
      BY <1>4, <3>2
    <3>5. QED
      BY <3>3, <3>4
  <2>3. ring[i + 1] = Latest
    BY <1>5, <2>1, <2>2 DEF IInv, LatestOnItsWay
  <2>4. QED
    BY <1>2, <1>3, <1>6, <2>3
<1>7. ASSUME \A i \in 1..Len(ring') : ~FromArbitrator(i)'
      PROVE  heard' = Latest'
  <2>1. \A j \in 1..Len(ring) : j > 1 => ~FromArbitrator(j)
    <3>1. SUFFICES ASSUME NEW j \in 1..Len(ring), j > 1
                   PROVE  ~FromArbitrator(j)
      OBVIOUS
    <3>2. j - 1 \in 1..Len(ring') /\ (j - 1) + 1 = j
      BY <1>2, <3>1
    <3>3. FromArbitrator(j - 1)' = FromArbitrator(j)
      BY <1>4, <3>2
    <3>4. QED
      BY <1>7, <3>2, <3>3
  <2>2. CASE FromArbitrator(1)
    <3>1. ring[1] = Latest
      BY <1>2, <1>5, <2>1, <2>2 DEF IInv, LatestOnItsWay
    <3>2. heard' = ring[1]
      BY <1>2, <2>2 DEF M7Obeys, FromArbitrator
    <3>3. QED
      BY <1>3, <3>1, <3>2
  <2>3. CASE ~FromArbitrator(1)
    <3>1. \A j \in 1..Len(ring) : ~FromArbitrator(j)
      BY <1>2, <2>1, <2>3
    <3>2. heard = Latest
      BY <1>5, <3>1 DEF IInv, LatestOnItsWay
    <3>3. heard' = heard
      BY <1>2, <2>3 DEF M7Obeys, FromArbitrator
    <3>4. QED
      BY <1>3, <3>2, <3>3
  <2>4. QED
    BY <2>2, <2>3
<1>8. QED
  BY <1>3, <1>5, <1>6, <1>7 DEF LatestOnItsWay

-----------------------------------------------------------------------------
\* The invariant holds in every reachable state.
THEOREM Invariance == Spec => []IInv
<1>1. Init => IInv
  <2> SUFFICES ASSUME Init PROVE IInv
    OBVIOUS
  <2>1. FullOperation \in SafeState /\ 0 \in Number
    BY ModulusAssumption DEF FullOperation, SafeState, Number
  <2>2. TypeOK
    <3>1. currentState \in SafeState /\ sequenceNum \in Number
      BY <2>1 DEF Init, Authority!Init, Authority!FullOperation, FullOperation
    <3>2. escalationSequence \in Number /\ refused \in BOOLEAN
      BY <2>1 DEF Init
    <3>3. ring \in Seq(Message) /\ Len(ring) <= Capacity
      BY CapacityAssumption DEF Init
    <3>4. obeyed \in Message /\ heard \in Message
      BY <2>1, ArbitratorMessageType DEF Init
    <3>5. QED
      BY <3>1, <3>2, <3>3, <3>4 DEF TypeOK
  <2>3. LatestOnItsWay
    <3>1. Len(ring) = 0
      BY DEF Init
    <3>2. heard = Latest
      BY DEF Init, Authority!Init, Latest, Authority!FullOperation, FullOperation
    <3>3. QED
      BY <3>1, <3>2 DEF LatestOnItsWay
  <2>4. ObeyedIsHeard
    BY DEF Init, ObeyedIsHeard
  <2>5. QED
    BY <2>2, <2>3, <2>4 DEF IInv
<1>2. IInv /\ [Next]_vars => IInv'
  <2> SUFFICES ASSUME IInv, [Next]_vars PROVE IInv'
    OBVIOUS
  <2>1. TypeOK'
    BY TypeStep DEF IInv
  <2>2. CASE UNCHANGED vars
    BY <2>1, <2>2 DEF IInv, vars, arbitratorVars, m7Vars, LatestOnItsWay,
       ObeyedIsHeard, FromArbitrator, Latest, ArbitratorMessage
  <2>3. CASE Next
    BY <2>1, <2>3, ArbitrateStep, GateRejectsStep, M7ObeysStep DEF IInv, Next
  <2>4. QED
    BY <2>2, <2>3
<1>3. QED
  BY <1>1, <1>2, PTL DEF Spec

\* Type correctness of the gateway; in particular the ring holds whole commands,
\* and at most Capacity of them.
THEOREM TypeCorrect == Spec => []TypeOK
BY Invariance, PTL DEF IInv

\* With the ring empty, the M7 obeys the arbitrator's command in force, unless
\* it was refused or the gate has spoken since.
THEOREM DemandMet == Spec => []M7MeetsDemand
<1>1. IInv => M7MeetsDemand
  BY DEF IInv, TypeOK, LatestOnItsWay, ObeyedIsHeard, M7MeetsDemand, Latest
<1>2. QED
  BY <1>1, Invariance, PTL

-----------------------------------------------------------------------------
\* What is left of the parts when they are put together.  The gate and the M7
\* take nothing from what the arbitrator promises: Arbitrate() alone changes its
\* state and takes its numbers, and a refusal of its command undoes neither.
THEOREM GatewayKeepsAuthority == Spec => Authority!Spec
<1>1. Init => Authority!Init
  BY DEF Init
<1>2. [Next]_vars => [Authority!Transition]_(Authority!authorityVars)
  BY DEF Next, Arbitrate, GateRejects, M7Obeys, vars, arbitratorVars, m7Vars,
         Authority!authorityVars
<1>3. QED
  BY <1>1, <1>2, PTL DEF Spec, Authority!Spec

\* The ring that both senders use, as the FIFO that IpcBridge implements.
Queue == INSTANCE CommandQueue WITH Commands <- Message, queue <- ring

\* Two senders and the M7 keep to it: commands of either sender enter the ring
\* whole and only when there is room, none is lost in it, and the M7 takes them
\* in the order of the calls.
THEOREM GatewayKeepsQueue == Spec => Queue!Spec
<1>1. Init => Queue!Init
  BY DEF Init, Queue!Init
<1>2. IInv /\ [Next]_vars => [Queue!Next]_ring
  <2> SUFFICES ASSUME IInv, [Next]_vars PROVE [Queue!Next]_ring
    OBVIOUS
  <2>1. ASSUME NEW msg \in Message, Send(msg)
        PROVE  [Queue!Next]_ring
    BY <2>1 DEF Send, Queue!Next, Queue!Enqueue
  <2>2. CASE Arbitrate
    <3>1. currentState' \in SafeState /\ sequenceNum' \in Number
      BY <2>2, TypeStep DEF IInv, TypeOK
    <3>2. QED
      BY <2>1, <2>2, <3>1, ArbitratorMessageType DEF Arbitrate
  <2>3. CASE GateRejects
    BY <2>1, <2>3, GateMessageType DEF GateRejects, IInv, TypeOK
  <2>4. CASE M7Obeys
    BY <2>4 DEF M7Obeys, Queue!Next, Queue!Dequeue
  <2>5. CASE UNCHANGED vars
    BY <2>5 DEF vars
  <2>6. QED
    BY <2>2, <2>3, <2>4, <2>5 DEF Next
<1>3. QED
  BY <1>1, <1>2, Invariance, PTL DEF Spec, Queue!Spec
==============================================================================
