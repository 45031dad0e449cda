--------------------------- MODULE IpcBridgeProofs ---------------------------
(***************************************************************************)
(* With one sender at a time, IpcBridge delivers intact slots with         *)
(* contiguous counters, whatever the number of slots and the width of the  *)
(* counter.  The assumption OneSender is the SPSC contract that            *)
(* IpcBridge.cpp names; two senders break it (run two_senders).  So the    *)
(* ring implements CommandQueue, and it still does when bits of a slot     *)
(* flip and the M7 refuses it.                                             *)
(*                                                                         *)
(* Then the CRC.  The table and the loops of ComputeE2eCrc() are linear,   *)
(* so what flips do to the CRC does not depend on the slot, and they       *)
(* divide: the CRC is the remainder of a polynomial modulo Generator.  So  *)
(* which flips go undetected is a question about multiples of Generator;   *)
(* an odd number of them, two of them, and bursts are none.                *)
(***************************************************************************)
EXTENDS MCIpcBridge, FiniteSetTheorems, SequenceTheorems, TLAPS

OneSender == \A s, t \in Senders : s = t

Writing(s) == pc[s] \in {"fill", "stamp", "count", "publish"}

\* A sender past its first load holds the current head: nobody else moves it.
HeadHeld == \A s \in Senders : pc[s] # "idle" => myHead[s] = head

\* A sender past the full check still has room: the M7 only makes more.
RoomHeld == \A s \in Senders : Writing(s) => NextIndex(head) # tail

\* What the sender has put into its slot so far.
SlotProgress ==
  \A s \in Senders :
    /\ pc[s] \in {"count", "publish"} =>
         slots[head].crc = <<slots[head].command, slots[head].counter>>
    /\ pc[s] = "count" => slots[head].counter = seqCounter
    /\ pc[s] = "publish" => seqCounter = NextCounter(slots[head].counter)

IInv ==
  /\ TypeOK
  /\ HeadHeld
  /\ RoomHeld
  /\ SlotProgress
  /\ CountersContiguous
  /\ M7AcceptsAll

-----------------------------------------------------------------------------
\* Indices and counters stay in range when they are advanced.
LEMMA NextIndexType ==
  ASSUME NEW i \in Index
  PROVE  NextIndex(i) \in Index /\ NextIndex(i) # i
BY SlotsAssumption DEF Index, NextIndex

LEMMA NextCounterType ==
  ASSUME NEW n \in Counter
  PROVE  NextCounter(n) \in Counter
BY CounterAssumption DEF Counter, NextCounter

\* Publishing at head makes exactly that slot visible, and it is followed by
\* the new head.
LEMMA UnreadAfterPublish ==
  ASSUME head \in Index, tail \in Index, NextIndex(head) # tail,
         head' = NextIndex(head), tail' = tail
  PROVE  /\ \A i \in Index : i \in Unread' <=> (i \in Unread \/ i = head)
         /\ \A i \in Unread : NextIndex(i) # head'
         /\ head \notin Unread
BY SlotsAssumption DEF Index, NextIndex, Unread

\* Releasing the slot at tail hides exactly that slot.
LEMMA UnreadAfterRelease ==
  ASSUME head \in Index, tail \in Index, head # tail,
         head' = head, tail' = NextIndex(tail)
  PROVE  /\ \A i \in Index : i \in Unread' <=> (i \in Unread /\ i # tail)
         /\ tail \in Unread
         /\ head' # tail' => tail' \in Unread
BY SlotsAssumption DEF Index, NextIndex, Unread

\* The slot at head is not visible to the M7.
LEMMA HeadUnpublished ==
  ASSUME head \in Index, tail \in Index
  PROVE  /\ head \notin Unread
         /\ head = tail => Unread = {}
         /\ Unread \subseteq Index
         /\ head # tail => tail \in Unread
         /\ \A i \in Unread : NextIndex(i) # head => NextIndex(i) \in Unread
BY SlotsAssumption DEF Index, NextIndex, Unread

\* Type correctness of every step.
LEMMA TypeStep ==
  ASSUME TypeOK, [Next]_vars
  PROVE  TypeOK'
<1> USE DEF TypeOK, sendVars, m7Vars
<1>1. ASSUME NEW s \in Senders, NEW c \in Commands, LoadHead(s, c)
      PROVE  TypeOK'
  BY <1>1 DEF LoadHead
<1>2. ASSUME NEW s \in Senders, CheckFull(s)
      PROVE  TypeOK'
  BY <1>2 DEF CheckFull
<1>3. ASSUME NEW s \in Senders, FillSlot(s)
      PROVE  TypeOK'
  <2>1. slots' \in [Index -> Slot]
    BY <1>3 DEF FillSlot, Slot
  <2>2. QED
    BY <1>3, <2>1 DEF FillSlot
<1>4. ASSUME NEW s \in Senders, StampHeader(s)
      PROVE  TypeOK'
  <2>1. slots' \in [Index -> Slot]
    BY <1>4 DEF StampHeader, Slot
  <2>2. QED
    BY <1>4, <2>1 DEF StampHeader
<1>5. ASSUME NEW s \in Senders, AdvanceCounter(s)
      PROVE  TypeOK'
  BY <1>5, NextCounterType DEF AdvanceCounter
<1>6. ASSUME NEW s \in Senders, Publish(s)
      PROVE  TypeOK'
  BY <1>6, NextIndexType DEF Publish
<1>7. CASE M7Read
  <2>1. slots[tail].counter \in Counter
    BY DEF Slot
  <2>2. QED
    BY <1>7, <2>1, NextCounterType DEF M7Read, VerifyE2e
<1>8. CASE M7Release
  BY <1>8, NextIndexType DEF M7Release
<1>9. CASE UNCHANGED vars
  BY <1>9 DEF vars
<1>10. QED
  BY <1>1, <1>2, <1>3, <1>4, <1>5, <1>6, <1>7, <1>8, <1>9 DEF Next, Send

\* Type correctness holds in every reachable state, for any set of senders.
THEOREM TypeCorrect == Spec => []TypeOK
<1>1. Init => TypeOK
  <2> SUFFICES ASSUME Init PROVE TypeOK
    OBVIOUS
  <2>1. 0 \in Index /\ 0 \in Counter
    BY SlotsAssumption, CounterAssumption DEF Index, Counter
  <2>2. ZeroSlot \in Slot
    BY <2>1 DEF ZeroSlot, Slot
  <2>3. QED
    BY <2>1, <2>2 DEF Init, TypeOK
<1>2. TypeOK /\ [Next]_vars => TypeOK'
  BY TypeStep
<1>3. QED
  BY <1>1, <1>2, PTL DEF Spec

-----------------------------------------------------------------------------
\* The steps of Send() before it stamps its slot, and the advance of the
\* counter, leave the published slots and Due as they are.
LEMMA ContiguousUndisturbed ==
  ASSUME CountersContiguous, UNCHANGED <<head, tail, m7Counter, m7Holds>>,
         \A i \in Unread : slots'[i] = slots[i],
         TypeOK, Due' = Due
  PROVE  CountersContiguous'
<1>1. Unread' = Unread
  BY DEF Unread
<1>2. \A i \in Unread : NextIndex(i) # head => NextIndex(i) \in Unread
  BY HeadUnpublished DEF TypeOK
<1>3. head # tail => tail \in Unread
  BY HeadUnpublished DEF TypeOK
<1>4. QED
  BY <1>1, <1>2, <1>3 DEF CountersContiguous

\* Each step of the only sender preserves the invariant.
LEMMA LoadHeadStep ==
  ASSUME OneSender, IInv, NEW s \in Senders, NEW c \in Commands, LoadHead(s, c)
  PROVE  IInv'
<1> USE DEF IInv
<1>1. \A t \in Senders : t = s
  BY DEF OneSender
<1>2. /\ pc[s] = "idle" /\ pc' = [pc EXCEPT ![s] = "check"]
      /\ myHead' = [myHead EXCEPT ![s] = head]
      /\ UNCHANGED <<head, tail, slots, seqCounter, m7Counter, m7Holds, m7Verdict>>
  BY DEF LoadHead, m7Vars
<1>3. pc'[s] = "check" /\ myHead'[s] = head
  BY <1>2 DEF TypeOK
<1>4. TypeOK'
  BY TypeStep DEF Next, Send
<1>5. HeadHeld'
  BY <1>1, <1>2, <1>3 DEF HeadHeld
<1>6. RoomHeld' /\ SlotProgress'
  BY <1>1, <1>3 DEF RoomHeld, SlotProgress, Writing
<1>7. CountersContiguous'
  <2>1. Due' = Due
    BY <1>1, <1>2, <1>3 DEF Due, Stamped
  <2>2. QED
    BY <1>2, <2>1, ContiguousUndisturbed
<1>8. M7AcceptsAll'
  BY <1>2 DEF M7AcceptsAll
<1>9. QED
  BY <1>4, <1>5, <1>6, <1>7, <1>8

LEMMA CheckFullStep ==
  ASSUME OneSender, IInv, NEW s \in Senders, CheckFull(s)
  PROVE  IInv'
<1> USE DEF IInv
<1>1. \A t \in Senders : t = s
  BY DEF OneSender
<1>2. /\ pc[s] = "check"
      /\ pc' = [pc EXCEPT ![s] = IF NextIndex(myHead[s]) = tail THEN "idle" ELSE "fill"]
      /\ UNCHANGED <<head, tail, slots, seqCounter, myHead, m7Counter, m7Holds, m7Verdict>>
  BY DEF CheckFull, m7Vars
<1>3. /\ pc'[s] = IF NextIndex(myHead[s]) = tail THEN "idle" ELSE "fill"
      /\ myHead[s] = head
  BY <1>2 DEF TypeOK, HeadHeld
<1>4. TypeOK'
  BY TypeStep DEF Next, Send
<1>5. HeadHeld' /\ RoomHeld' /\ SlotProgress'
  BY <1>1, <1>2, <1>3 DEF HeadHeld, RoomHeld, SlotProgress, Writing
<1>6. CountersContiguous'
  <2>1. Due' = Due
    BY <1>1, <1>2, <1>3 DEF Due, Stamped
  <2>2. QED
    BY <1>2, <2>1, ContiguousUndisturbed
<1>7. M7AcceptsAll'
  BY <1>2 DEF M7AcceptsAll
<1>8. QED
  BY <1>4, <1>5, <1>6, <1>7

LEMMA FillSlotStep ==
  ASSUME OneSender, IInv, NEW s \in Senders, FillSlot(s)
  PROVE  IInv'
<1> USE DEF IInv
<1>1. \A t \in Senders : t = s
  BY DEF OneSender
<1>2. /\ pc[s] = "fill" /\ pc' = [pc EXCEPT ![s] = "stamp"]
      /\ slots' = [slots EXCEPT ![myHead[s]].command = event[s]]
      /\ UNCHANGED <<head, tail, seqCounter, myHead, m7Counter, m7Holds, m7Verdict>>
  BY DEF FillSlot, m7Vars
<1>3. pc'[s] = "stamp" /\ myHead[s] = head
  BY <1>2 DEF TypeOK, HeadHeld
<1>4. TypeOK'
  BY TypeStep DEF Next, Send
<1>5. HeadHeld' /\ RoomHeld' /\ SlotProgress'
  BY <1>1, <1>2, <1>3 DEF HeadHeld, RoomHeld, SlotProgress, Writing
<1>6. CountersContiguous'
  <2>1. Due' = Due
    BY <1>1, <1>2, <1>3 DEF Due, Stamped
  <2>2. \A i \in Unread : slots'[i] = slots[i]
    BY <1>2, <1>3, HeadUnpublished DEF TypeOK
  <2>3. QED
    BY <1>2, <2>1, <2>2, ContiguousUndisturbed
<1>7. M7AcceptsAll'
  BY <1>2 DEF M7AcceptsAll
<1>8. QED
  BY <1>4, <1>5, <1>6, <1>7

LEMMA StampHeaderStep ==
  ASSUME OneSender, IInv, NEW s \in Senders, StampHeader(s)
  PROVE  IInv'
<1> USE DEF IInv
<1>1. \A t \in Senders : t = s
  BY DEF OneSender
<1>2. /\ pc[s] = "stamp" /\ pc' = [pc EXCEPT ![s] = "count"]
      /\ slots' = [slots EXCEPT ![myHead[s]].counter = seqCounter,
                    ![myHead[s]].crc = <<slots[myHead[s]].command, seqCounter>>]
      /\ UNCHANGED <<head, tail, seqCounter, myHead, m7Counter, m7Holds, m7Verdict>>
  BY DEF StampHeader, m7Vars
<1>3. pc'[s] = "count" /\ myHead[s] = head
  BY <1>2 DEF TypeOK, HeadHeld
<1>4. TypeOK'
  BY TypeStep DEF Next, Send
<1>5. /\ slots'[head].counter = seqCounter
      /\ slots'[head].crc = <<slots'[head].command, slots'[head].counter>>
  BY <1>2, <1>3 DEF TypeOK, Slot
<1>6. HeadHeld' /\ RoomHeld'
  BY <1>1, <1>2, <1>3 DEF HeadHeld, RoomHeld, Writing
<1>7. SlotProgress'
  BY <1>1, <1>2, <1>3, <1>5 DEF SlotProgress
<1>8. CountersContiguous'
  <2>1. Due' = Due
    BY <1>1, <1>2, <1>3 DEF Due, Stamped
  <2>2. \A i \in Unread : slots'[i] = slots[i]
    BY <1>2, <1>3, HeadUnpublished DEF TypeOK
  <2>3. QED
    BY <1>2, <2>1, <2>2, ContiguousUndisturbed
<1>9. M7AcceptsAll'
  BY <1>2 DEF M7AcceptsAll
<1>10. QED
  BY <1>4, <1>6, <1>7, <1>8, <1>9

LEMMA AdvanceCounterStep ==
  ASSUME OneSender, IInv, NEW s \in Senders, AdvanceCounter(s)
  PROVE  IInv'
<1> USE DEF IInv
<1>1. \A t \in Senders : t = s
  BY DEF OneSender
<1>2. /\ pc[s] = "count" /\ pc' = [pc EXCEPT ![s] = "publish"]
      /\ seqCounter' = NextCounter(seqCounter)
      /\ UNCHANGED <<head, tail, slots, myHead, m7Counter, m7Holds, m7Verdict>>
  BY DEF AdvanceCounter, m7Vars
<1>3. pc'[s] = "publish" /\ myHead[s] = head /\ slots[head].counter = seqCounter
  BY <1>2 DEF TypeOK, HeadHeld, SlotProgress
<1>4. TypeOK'
  BY TypeStep DEF Next, Send
<1>5. HeadHeld' /\ RoomHeld'
  BY <1>1, <1>2, <1>3 DEF HeadHeld, RoomHeld, Writing
<1>6. SlotProgress'
  BY <1>1, <1>2, <1>3 DEF SlotProgress
<1>7. CountersContiguous'
  <2>1. ~Stamped /\ Stamped'
    BY <1>1, <1>2, <1>3 DEF Stamped
  <2>2. Due' = Due
    BY <1>2, <1>3, <2>1 DEF Due
  <2>3. QED
    BY <1>2, <2>2, ContiguousUndisturbed
<1>8. M7AcceptsAll'
  BY <1>2 DEF M7AcceptsAll
<1>9. QED
  BY <1>4, <1>5, <1>6, <1>7, <1>8

LEMMA PublishStep ==
  ASSUME OneSender, IInv, NEW s \in Senders, Publish(s)
  PROVE  IInv'
<1> USE DEF IInv
<1>1. \A t \in Senders : t = s
  BY DEF OneSender
<1>2. /\ pc[s] = "publish" /\ pc' = [pc EXCEPT ![s] = "idle"]
      /\ head' = NextIndex(myHead[s])
      /\ UNCHANGED <<slots, tail, seqCounter, myHead, m7Counter, m7Holds, m7Verdict>>
  BY DEF Publish, m7Vars
<1>3. pc'[s] = "idle" /\ myHead[s] = head /\ NextIndex(head) # tail
  BY <1>2 DEF TypeOK, HeadHeld, RoomHeld, Writing
<1>4. TypeOK'
  BY TypeStep DEF Next, Send
<1>5. HeadHeld' /\ RoomHeld' /\ SlotProgress'
  BY <1>1, <1>3 DEF HeadHeld, RoomHeld, SlotProgress, Writing
<1>6. CountersContiguous'
  <2>1. /\ slots[head].crc = <<slots[head].command, slots[head].counter>>
        /\ seqCounter = NextCounter(slots[head].counter)
    BY <1>2 DEF SlotProgress
  <2>2. Due = slots[head].counter /\ Due' = seqCounter
    BY <1>1, <1>2, <1>3 DEF Due, Stamped
  <2>3. /\ \A i \in Index : i \in Unread' <=> (i \in Unread \/ i = head)
        /\ \A i \in Unread : NextIndex(i) # head'
        /\ head \notin Unread
    BY <1>2, <1>3, UnreadAfterPublish DEF TypeOK
  <2>4. Unread \subseteq Index /\ Unread' \subseteq Index
    BY <1>4, HeadUnpublished DEF TypeOK, Unread
  <2>5. head \in Index /\ head' # head /\ head' # tail' /\ head' = NextIndex(head)
    BY <1>2, <1>3, NextIndexType DEF TypeOK
  <2>6. \A i \in Unread' :
          /\ slots'[i].crc = <<slots'[i].command, slots'[i].counter>>
          /\ IF NextIndex(i) = head'
             THEN Due' = NextCounter(slots'[i].counter)
             ELSE slots'[NextIndex(i)].counter = NextCounter(slots'[i].counter)
    <3>1. TAKE i \in Unread'
    <3>2. CASE i = head
      BY <1>2, <2>1, <2>2, <2>5, <3>2
    <3>3. CASE i # head
      <4>1. i \in Unread /\ NextIndex(i) # head'
        BY <2>3, <2>4, <3>3
      <4>2. CASE NextIndex(i) = head
        BY <1>2, <2>2, <4>1, <4>2 DEF CountersContiguous
      <4>3. CASE NextIndex(i) # head
        BY <1>2, <4>1, <4>3 DEF CountersContiguous
      <4>4. QED
        BY <4>2, <4>3
    <3>4. QED
      BY <3>2, <3>3
  <2>7. m7Counter' = IF m7Holds' THEN NextCounter(slots'[tail'].counter)
                                 ELSE slots'[tail'].counter
    BY <1>2, <2>2 DEF CountersContiguous
  <2>8. QED
    BY <2>5, <2>6, <2>7 DEF CountersContiguous
<1>7. M7AcceptsAll'
  BY <1>2 DEF M7AcceptsAll
<1>8. QED
  BY <1>4, <1>5, <1>6, <1>7

\* The M7 accepts what it reads, and the next slot it will read bears the next
\* counter.
LEMMA M7ReadStep ==
  ASSUME IInv, M7Read
  PROVE  IInv'
<1> USE DEF IInv
<1>1. /\ ~m7Holds /\ head # tail /\ m7Holds' = TRUE
      /\ m7Verdict' = VerifyE2e(slots[tail], m7Counter)
      /\ m7Counter' = NextCounter(slots[tail].counter)
      /\ UNCHANGED <<head, tail, slots, seqCounter, pc, event, myHead>>
  BY DEF M7Read, sendVars
<1>2. TypeOK'
  BY TypeStep DEF Next
<1>3. HeadHeld' /\ RoomHeld' /\ SlotProgress'
  BY <1>1 DEF HeadHeld, RoomHeld, SlotProgress, Writing
<1>4. CountersContiguous'
  BY <1>1 DEF CountersContiguous, Unread, Due, Stamped
<1>5. tail \in Unread
  BY <1>1, HeadUnpublished DEF TypeOK
<1>6. M7AcceptsAll'
  BY <1>1, <1>5 DEF M7AcceptsAll, VerifyE2e, CountersContiguous
<1>7. QED
  BY <1>2, <1>3, <1>4, <1>6

\* The M7 gives the slot at tail back, however it took it, and expects the
\* counter after the slot's.
LEMMA ReleasedStep ==
  ASSUME IInv, head # tail,
         tail' = NextIndex(tail), m7Holds' = FALSE, m7Verdict' = m7Verdict,
         m7Counter' = NextCounter(slots[tail].counter),
         UNCHANGED <<head, slots, seqCounter, pc, event, myHead>>
  PROVE  IInv'
<1> USE DEF IInv
<1>1. TypeOK'
  <2>1. slots[tail].counter \in Counter
    BY DEF TypeOK, Slot
  <2>2. QED
    BY <2>1, NextIndexType, NextCounterType DEF TypeOK
<1>2. HeadHeld' /\ SlotProgress'
  BY DEF HeadHeld, SlotProgress
<1>3. RoomHeld'
  <2>1. NextIndex(head) # NextIndex(tail)
    BY SlotsAssumption DEF TypeOK, Index, NextIndex
  <2>2. QED
    BY <2>1 DEF RoomHeld, Writing
<1>4. CountersContiguous'
  <2>1. /\ \A i \in Index : i \in Unread' <=> (i \in Unread /\ i # tail)
        /\ tail \in Unread
        /\ head' # tail' => tail' \in Unread
    BY UnreadAfterRelease DEF TypeOK
  <2>2. Unread' \subseteq Unread
    BY <1>1, <2>1, HeadUnpublished DEF TypeOK, Unread
  <2>3. Due' = Due
    BY DEF Due, Stamped
  <2>4. head' = tail' => m7Counter' = Due'
    BY <2>1, <2>3 DEF CountersContiguous
  <2>5. head' # tail' => m7Counter' = slots'[tail'].counter
    BY <2>1 DEF CountersContiguous
  <2>6. \A i \in Unread' :
          /\ slots'[i].crc = <<slots'[i].command, slots'[i].counter>>
          /\ IF NextIndex(i) = head'
             THEN Due' = NextCounter(slots'[i].counter)
             ELSE slots'[NextIndex(i)].counter = NextCounter(slots'[i].counter)
    BY <2>2, <2>3 DEF CountersContiguous
  <2>7. QED
    BY <2>4, <2>5, <2>6 DEF CountersContiguous
<1>5. M7AcceptsAll'
  BY DEF M7AcceptsAll
<1>6. QED
  BY <1>1, <1>2, <1>3, <1>4, <1>5

LEMMA M7ReleaseStep ==
  ASSUME IInv, M7Release
  PROVE  IInv'
<1>1. /\ m7Holds /\ m7Holds' = FALSE /\ tail' = NextIndex(tail)
      /\ UNCHANGED <<head, slots, seqCounter, pc, event, myHead, m7Counter, m7Verdict>>
  BY DEF M7Release, sendVars
<1>2. head # tail /\ m7Counter = NextCounter(slots[tail].counter)
  BY <1>1 DEF IInv, CountersContiguous
<1>3. QED
  BY <1>1, <1>2, ReleasedStep

\* The freshly initialised bridge satisfies the invariant.
LEMMA InitIInv ==
  ASSUME Init
  PROVE  IInv
<1>1. 0 \in Index /\ 0 \in Counter
  BY SlotsAssumption, CounterAssumption DEF Index, Counter
<1>2. TypeOK
  <2>1. ZeroSlot \in Slot
    BY <1>1 DEF ZeroSlot, Slot
  <2>2. QED
    BY <1>1, <2>1 DEF Init, TypeOK
<1>3. HeadHeld /\ RoomHeld /\ SlotProgress
  BY DEF Init, HeadHeld, RoomHeld, SlotProgress, Writing
<1>4. CountersContiguous
  <2>1. Unread = {}
    BY <1>1, HeadUnpublished DEF Init
  <2>2. ~Stamped
    BY DEF Init, Stamped
  <2>3. QED
    BY <2>1, <2>2 DEF Init, CountersContiguous, Due
<1>5. QED
  BY <1>2, <1>3, <1>4 DEF IInv, M7AcceptsAll, Init

LEMMA StutterStep ==
  ASSUME IInv, UNCHANGED vars
  PROVE  IInv'
<1>1. TypeOK'
  BY TypeStep DEF IInv
<1>2. QED
  BY <1>1 DEF IInv, vars, sendVars, m7Vars, HeadHeld, RoomHeld, SlotProgress,
     Writing, CountersContiguous, Unread, Due, Stamped, M7AcceptsAll

LEMMA IInvStep ==
  ASSUME OneSender, IInv, [Next]_vars
  PROVE  IInv'
<1>1. CASE M7Read
  BY <1>1, M7ReadStep
<1>2. CASE M7Release
  BY <1>2, M7ReleaseStep
<1>3. ASSUME NEW s \in Senders, Send(s)
      PROVE  IInv'
  BY <1>3, LoadHeadStep, CheckFullStep, FillSlotStep, StampHeaderStep,
     AdvanceCounterStep, PublishStep DEF Send
<1>4. CASE UNCHANGED vars
  BY <1>4, StutterStep
<1>5. QED
  BY <1>1, <1>2, <1>3, <1>4 DEF Next

\* IInv is an inductive invariant of the bridge with one sender.
LEMMA Invariance ==
  ASSUME OneSender
  PROVE  Spec => []IInv
<1>1. Init => IInv
  BY InitIInv
<1>2. OneSender /\ IInv /\ [Next]_vars => IInv'
  BY IInvStep
<1>3. QED
  BY <1>1, <1>2, PTL DEF Spec

\* The M7 finds neither a CRC mismatch nor a gap in the counters: the E2E
\* counter's wrap, dropped sends and the wrap of the ring never cost a command.
THEOREM AcceptsAll ==
  ASSUME OneSender
  PROVE  Spec => []M7AcceptsAll
<1>1. IInv => M7AcceptsAll
  BY DEF IInv
<1>2. QED
  BY <1>1, Invariance, PTL

\* Published slots stay intact and contiguously numbered.
THEOREM CountersCorrect ==
  ASSUME OneSender
  PROVE  Spec => []CountersContiguous
<1>1. IInv => CountersContiguous
  BY DEF IInv
<1>2. QED
  BY <1>1, Invariance, PTL

\* Send() never writes into a slot that the M7 may be reading.
THEOREM SlotOwned ==
  ASSUME OneSender
  PROVE  Spec => []WriterOwnsSlot
<1>1. IInv => WriterOwnsSlot
  BY HeadUnpublished DEF IInv, HeadHeld, RoomHeld, Writing, WriterOwnsSlot, TypeOK
<1>2. QED
  BY <1>1, Invariance, PTL

-----------------------------------------------------------------------------
\* The refinement.  Contents(h, t, ring) is the queue that a ring holds from
\* its tail t up to its head h; UsedOf and AtOf are Used and At of such a ring.
UsedOf(h, t) == IF h >= t THEN h - t ELSE h - t + Slots
AtOf(t, k) == IF t + k < Slots THEN t + k ELSE t + k - Slots
Contents(h, t, ring) ==
  [k \in 1..UsedOf(h, t) |-> ring[AtOf(t, k - 1)].command]

LEMMA ContentsIsQueue ==
  Contents(head, tail, slots) = [k \in 1..Used |-> slots[At(k - 1)].command]
BY DEF Contents, UsedOf, AtOf, Used, At

\* The published slots are as many as the distance from tail to head, and the
\* slot at head is none of them.
LEMMA UsedSlots ==
  ASSUME NEW h \in Index, NEW t \in Index
  PROVE  /\ UsedOf(h, t) \in Nat
         /\ AtOf(t, UsedOf(h, t)) = h
         /\ \A k \in 1..UsedOf(h, t) : AtOf(t, k - 1) \in Index \ {h}
BY SlotsAssumption DEF Index, UsedOf, AtOf

LEMMA ContentsType ==
  ASSUME NEW h \in Index, NEW t \in Index, NEW ring \in [Index -> Slot]
  PROVE  /\ Contents(h, t, ring) \in Seq(Commands \cup {NoCommand})
         /\ Len(Contents(h, t, ring)) = UsedOf(h, t)
<1> DEFINE n == UsedOf(h, t)
<1>1. n \in Nat /\ \A k \in 1..n : AtOf(t, k - 1) \in Index
  BY UsedSlots
<1> HIDE DEF n
<1>2. \A k \in 1..n : ring[AtOf(t, k - 1)].command \in Commands \cup {NoCommand}
  BY <1>1 DEF Slot
<1>3. Contents(h, t, ring) = [k \in 1..n |-> ring[AtOf(t, k - 1)].command]
  BY DEF Contents, n
<1>4. Contents(h, t, ring) \in Seq(Commands \cup {NoCommand})
  BY <1>1, <1>2, <1>3
<1>5. Len(Contents(h, t, ring)) = n
  BY <1>1, <1>3, <1>4, LenProperties
<1>6. QED
  BY <1>4, <1>5 DEF n

\* Publishing appends the command in the slot at head.
LEMMA PublishAppends ==
  ASSUME NEW h \in Index, NEW t \in Index, NEW ring \in [Index -> Slot],
         NextIndex(h) # t
  PROVE  /\ UsedOf(h, t) < Slots - 1
         /\ Contents(NextIndex(h), t, ring)
              = Append(Contents(h, t, ring), ring[h].command)
<1> DEFINE n == UsedOf(h, t)
<1>1. /\ n \in Nat /\ n < Slots - 1
      /\ UsedOf(NextIndex(h), t) = n + 1
      /\ AtOf(t, (n + 1) - 1) = h
  BY SlotsAssumption DEF Index, UsedOf, AtOf, NextIndex
<1> HIDE DEF n
<1>2. /\ Contents(h, t, ring) \in Seq(Commands \cup {NoCommand})
      /\ Len(Contents(h, t, ring)) = n
  BY ContentsType DEF n
<1>3. ring[h].command \in Commands \cup {NoCommand}
  BY DEF Slot
<1>4. Contents(h, t, ring) = [k \in 1..n |-> ring[AtOf(t, k - 1)].command]
  BY DEF Contents, n
<1>5. Contents(NextIndex(h), t, ring)
        = [k \in 1..(n + 1) |-> ring[AtOf(t, k - 1)].command]
  BY <1>1 DEF Contents
<1>6. Append(Contents(h, t, ring), ring[h].command)
        = [k \in 1..(n + 1) |-> IF k <= n THEN Contents(h, t, ring)[k]
                                          ELSE ring[h].command]
  BY <1>1, <1>2, <1>3
<1>7. \A k \in 1..(n + 1) :
        ring[AtOf(t, k - 1)].command = IF k <= n THEN Contents(h, t, ring)[k]
                                                 ELSE ring[h].command
  BY <1>1, <1>4
<1>8. QED
  BY <1>1, <1>5, <1>6, <1>7 DEF n

\* Releasing the slot at tail removes the first command.
LEMMA ReleaseTakesFirst ==
  ASSUME NEW h \in Index, NEW t \in Index, NEW ring \in [Index -> Slot], h # t
  PROVE  /\ Contents(h, t, ring) # << >>
         /\ Contents(h, NextIndex(t), ring) = Tail(Contents(h, t, ring))
<1> DEFINE n == UsedOf(h, t)
<1>1. /\ n \in Nat \ {0}
      /\ UsedOf(h, NextIndex(t)) = n - 1
      /\ \A k \in 1..(n - 1) : AtOf(NextIndex(t), k - 1) = AtOf(t, (k + 1) - 1)
  BY SlotsAssumption DEF Index, UsedOf, AtOf, NextIndex
<1> HIDE DEF n
<1>2. /\ Contents(h, t, ring) \in Seq(Commands \cup {NoCommand})
      /\ Len(Contents(h, t, ring)) = n
  BY ContentsType DEF n
<1>3. Contents(h, t, ring) # << >>
  BY <1>1, <1>2
<1>4. Contents(h, t, ring) = [k \in 1..n |-> ring[AtOf(t, k - 1)].command]
  BY DEF Contents, n
<1>5. Contents(h, NextIndex(t), ring)
        = [k \in 1..(n - 1) |-> ring[AtOf(NextIndex(t), k - 1)].command]
  BY <1>1 DEF Contents
<1>6. \A k \in 1..(n - 1) :
        ring[AtOf(NextIndex(t), k - 1)].command = Contents(h, t, ring)[k + 1]
  BY <1>1, <1>4
<1>7. Contents(h, NextIndex(t), ring) = Tail(Contents(h, t, ring))
  <2> DEFINE q == Contents(h, t, ring)
  <2> HIDE DEF q
  <2>1. /\ Tail(q) \in Seq(Commands \cup {NoCommand})
        /\ Len(Tail(q)) = n - 1
        /\ \A k \in 1..(n - 1) : Tail(q)[k] = q[k + 1]
    BY <1>2, <1>3, HeadTailProperties DEF q
  <2>2. Tail(q) \in [1..(n - 1) -> Commands \cup {NoCommand}]
    BY <2>1, LenProperties
  <2> DEFINE rest == Tail(q)
  <2>3. rest = [k \in 1..(n - 1) |-> rest[k]]
    <3> HIDE DEF rest
    <3>1. rest \in [1..(n - 1) -> Commands \cup {NoCommand}]
      BY <2>2 DEF rest
    <3>2. QED
      BY <3>1
  <2>4. QED
    BY <1>5, <1>6, <2>1, <2>3 DEF q
<1>8. QED
  BY <1>3, <1>7

\* What a sender writes into the slot at head, the receiver cannot see.
LEMMA HeadUnseen ==
  ASSUME NEW h \in Index, NEW t \in Index, NEW ring, NEW other,
         \A i \in Index \ {h} : ring[i].command = other[i].command
  PROVE  Contents(h, t, ring) = Contents(h, t, other)
<1> DEFINE n == UsedOf(h, t)
<1>1. \A k \in 1..n : AtOf(t, k - 1) \in Index \ {h}
  BY UsedSlots
<1> HIDE DEF n
<1>2. \A k \in 1..n : ring[AtOf(t, k - 1)].command = other[AtOf(t, k - 1)].command
  BY <1>1
<1>3. QED
  BY <1>2 DEF Contents, n

\* The sender carries a command; from the copy to the publication that command
\* is in the slot at head.
CommandHeld ==
  \A s \in Senders :
    /\ pc[s] # "idle" => event[s] \in Commands
    /\ pc[s] \in {"stamp", "count", "publish"} => slots[head].command = event[s]

LEMMA CommandHeldStep ==
  ASSUME OneSender, TypeOK, HeadHeld, CommandHeld, [Next]_vars
  PROVE  CommandHeld'
<1> USE DEF TypeOK
<1>1. ASSUME NEW s \in Senders, Send(s)
      PROVE  CommandHeld'
  <2>1. \A t \in Senders : t = s
    BY DEF OneSender
  <2>2. CASE \E c \in Commands : LoadHead(s, c)
    BY <2>1, <2>2 DEF LoadHead, CommandHeld
  <2>3. CASE CheckFull(s)
    BY <2>1, <2>3 DEF CheckFull, CommandHeld
  <2>4. CASE FillSlot(s)
    <3>1. slots'[head].command = event[s]
      BY <2>4 DEF FillSlot, HeadHeld, Slot
    <3>2. QED
      BY <2>1, <2>4, <3>1 DEF FillSlot, CommandHeld
  <2>5. CASE StampHeader(s)
    <3>1. slots'[head].command = slots[head].command
      BY <2>5 DEF StampHeader, HeadHeld, Slot
    <3>2. QED
      BY <2>1, <2>5, <3>1 DEF StampHeader, CommandHeld
  <2>6. CASE AdvanceCounter(s)
    BY <2>1, <2>6 DEF AdvanceCounter, CommandHeld
  <2>7. CASE Publish(s)
    BY <2>1, <2>7 DEF Publish, CommandHeld
  <2>8. QED
    BY <1>1, <2>2, <2>3, <2>4, <2>5, <2>6, <2>7 DEF Send
<1>2. CASE M7Read \/ M7Release \/ UNCHANGED vars
  BY <1>2 DEF M7Read, M7Release, vars, sendVars, CommandHeld
<1>3. QED
  BY <1>1, <1>2 DEF Next

\* Publishing enqueues the command of that Send(), releasing dequeues, and every
\* other step leaves the queue alone.
LEMMA QueueStep ==
  ASSUME OneSender, IInv, CommandHeld, [Next]_vars
  PROVE  LET q == Contents(head, tail, slots)
         IN  \/ \E c \in Commands : Len(q) < Slots - 1 /\ q' = Append(q, c)
             \/ q # << >> /\ q' = Tail(q)
             \/ UNCHANGED q
<1> DEFINE q == Contents(head, tail, slots)
<1>0. /\ head \in Index /\ tail \in Index /\ slots \in [Index -> Slot]
      /\ \A s \in Senders : pc[s] # "idle" => myHead[s] = head
  BY DEF IInv, TypeOK, HeadHeld
<1>1. q' = Contents(head', tail', slots')
  OBVIOUS
<1>2. ASSUME NEW s \in Senders, Publish(s)
      PROVE  \E c \in Commands : Len(q) < Slots - 1 /\ q' = Append(q, c)
  <2>1. /\ event[s] \in Commands /\ slots[head].command = event[s]
        /\ NextIndex(head) # tail
    BY <1>2 DEF Publish, CommandHeld, IInv, RoomHeld, Writing
  <2>2. head' = NextIndex(head) /\ tail' = tail /\ slots' = slots
    BY <1>0, <1>2 DEF Publish, m7Vars
  <2>3. QED
    BY <1>0, <1>1, <2>1, <2>2, PublishAppends, ContentsType
<1>3. ASSUME M7Release
      PROVE  q # << >> /\ q' = Tail(q)
  <2>1. head # tail
    BY <1>3 DEF M7Release, IInv, CountersContiguous
  <2>2. head' = head /\ tail' = NextIndex(tail) /\ slots' = slots
    BY <1>3 DEF M7Release
  <2>3. QED
    BY <1>0, <1>1, <2>1, <2>2, ReleaseTakesFirst
<1>4. ASSUME NEW s \in Senders, FillSlot(s) \/ StampHeader(s)
      PROVE  UNCHANGED q
  <2>1. head' = head /\ tail' = tail
    BY <1>4 DEF FillSlot, StampHeader, m7Vars
  <2>2. \A i \in Index \ {head} : slots'[i].command = slots[i].command
    BY <1>0, <1>4 DEF FillSlot, StampHeader
  <2>3. Contents(head, tail, slots') = Contents(head, tail, slots)
    BY <1>0, <2>2, HeadUnseen
  <2>4. QED
    BY <1>1, <2>1, <2>3
<1>5. ASSUME UNCHANGED <<head, tail, slots>>
      PROVE  UNCHANGED q
  BY <1>1, <1>5
<1>6. QED
  <2>1. ASSUME NEW s \in Senders, Send(s)
        PROVE  \/ \E c \in Commands : Len(q) < Slots - 1 /\ q' = Append(q, c)
               \/ UNCHANGED q
    <3>1. CASE Publish(s) \/ FillSlot(s) \/ StampHeader(s)
      BY <1>2, <1>4, <3>1
    <3>2. CASE \/ \E c \in Commands : LoadHead(s, c)
               \/ CheckFull(s) \/ AdvanceCounter(s)
      BY <1>5, <3>2 DEF LoadHead, CheckFull, AdvanceCounter, m7Vars
    <3>3. QED
      BY <2>1, <3>1, <3>2 DEF Send
  <2>2. CASE M7Read \/ UNCHANGED vars
    BY <1>5, <2>2 DEF M7Read, vars, m7Vars
  <2>3. QED
    BY <1>3, <2>1, <2>2 DEF Next

\* With one sender at a time the bridge is a FIFO of Slots - 1 commands: what
\* Send() accepted is received once and in order, what it refused leaves no
\* trace, for rings of any size.
THEOREM IsQueue ==
  ASSUME OneSender
  PROVE  Spec => ImplementsQueue
<1>1. Init => Queue!Init /\ CommandHeld
  <2> SUFFICES ASSUME Init PROVE Queue!Init /\ CommandHeld
    OBVIOUS
  <2>1. [k \in 1..Used |-> slots[At(k - 1)].command] = << >>
    BY DEF Init, Used
  <2>2. QED
    BY <2>1 DEF Init, Queue!Init, CommandHeld
<1>2. OneSender /\ IInv /\ CommandHeld /\ [Next]_vars => CommandHeld'
  BY CommandHeldStep DEF IInv
<1>3. IInv /\ CommandHeld /\ [Next]_vars
        => [Queue!Next]_([k \in 1..Used |-> slots[At(k - 1)].command])
  <2> SUFFICES ASSUME IInv, CommandHeld, [Next]_vars
               PROVE  [Queue!Next]_([k \in 1..Used |-> slots[At(k - 1)].command])
    OBVIOUS
  <2>1. Contents(head, tail, slots)' = [k \in 1..Used |-> slots[At(k - 1)].command]'
    BY DEF Contents, UsedOf, AtOf, Used, At
  <2>2. QED
    BY <2>1, QueueStep, ContentsIsQueue
       DEF Queue!Next, Queue!Enqueue, Queue!Dequeue
<1>4. QED
  BY <1>1, <1>2, <1>3, Invariance, PTL DEF Spec, ImplementsQueue, Queue!Spec

-----------------------------------------------------------------------------
(***************************************************************************)
(* The CRC.  ComputeE2eCrc() is a loop over bytes around a loop over bits,  *)
(* and what it computes for every message takes inductions.  They are      *)
(* stated with sets instead of predicates, and rest on the library's       *)
(* theorem that the strict subsets of a finite set are well founded.       *)
(***************************************************************************)

\* Every inhabited family of subsets of a finite set has a minimal member.
LEMMA MinimalSubset ==
  ASSUME NEW S, IsFiniteSet(S), NEW F, F \subseteq SUBSET S, F # {}
  PROVE  \E A \in F : \A B \in F : B \subseteq A => B = A
<1> DEFINE R == StrictSubsetOrdering(S)
<1>1. IsWellFoundedOn(R, FiniteSubsetsOf(S)) /\ F \subseteq FiniteSubsetsOf(S)
  BY FS_StrictSubsetOrderingWellFounded, FS_FiniteSubsetsOfFinite
<1>2. \A A \in F, B \in F : B \subseteq A /\ B # A => <<B, A>> \in R
  BY DEF StrictSubsetOrdering
<1> HIDE DEF R
<1>3. PICK A \in F : \A B \in F : ~ (<<B, A>> \in R)
  BY <1>1, WFMin
<1>4. QED
  BY <1>2, <1>3

\* Induction over 0..n, with the set of the numbers that have the property: a
\* least number outside it would be a smallest interval 0..m with m outside.
LEMMA IntervalInduction ==
  ASSUME NEW n \in Nat, NEW T, 0 \in T,
         \A i \in 1..n : i - 1 \in T => i \in T
  PROVE  \A i \in 0..n : i \in T
<1> SUFFICES ASSUME NEW j \in 0..n, j \notin T PROVE FALSE
  OBVIOUS
<1> DEFINE F == {0..m : m \in (0..n) \ T}
<1>1. F \subseteq SUBSET (0..n) /\ F # {}
  OBVIOUS
<1>2. PICK A \in F : \A B \in F : B \subseteq A => B = A
  <2> DEFINE S == 0..n
  <2>1. IsFiniteSet(S)
    BY FS_Interval
  <2>2. F \subseteq SUBSET S /\ F # {}
    BY <1>1
  <2> HIDE DEF F, S
  <2>3. QED
    BY <2>1, <2>2, MinimalSubset
<1>3. PICK m \in (0..n) \ T : A = 0..m
  OBVIOUS
<1>4. m - 1 \in (0..n) \ T
  OBVIOUS
<1>5. 0..(m - 1) \in F /\ 0..(m - 1) \subseteq A /\ m \in A \ (0..(m - 1))
  BY <1>3, <1>4
<1>6. QED
  BY <1>2, <1>5

\* n steps on S, and what they lead through from base.
Steps(n, S) == [1..n -> [S -> S]]
Orbit(f, n, S, base, step) ==
  /\ f \in [0..n -> S]
  /\ f[0] = base
  /\ \A i \in 1..n : f[i] = step[i][f[i - 1]]

\* A sequence of n steps from a starting point exists.
LEMMA Iteration ==
  ASSUME NEW n \in Nat, NEW S, NEW base \in S, NEW step \in Steps(n, S)
  PROVE  \E f : Orbit(f, n, S, base, step)
<1> DEFINE Upto(k, f) == f[0] = base /\ \A i \in 1..k : f[i] = step[i][f[i - 1]]
           T == {k \in 0..n : \E f \in [0..n -> S] : Upto(k, f)}
<1>1. 0 \in T
  <2> DEFINE g == [i \in 0..n |-> base]
  <2>1. g \in [0..n -> S] /\ g[0] = base
    OBVIOUS
  <2> HIDE DEF g
  <2>2. Upto(0, g)
    BY <2>1
  <2>3. QED
    BY <2>1, <2>2
<1>2. ASSUME NEW k \in 1..n, k - 1 \in T
      PROVE  k \in T
  <2>1. PICK f \in [0..n -> S] : Upto(k - 1, f)
    BY <1>2
  <2> DEFINE g == [f EXCEPT ![k] = step[k][f[k - 1]]]
  <2>2. step[k][f[k - 1]] \in S
    BY DEF Steps
  <2>3. g \in [0..n -> S]
    BY <2>2
  <2>4. (\A i \in 0..(k - 1) : g[i] = f[i]) /\ g[k] = step[k][f[k - 1]]
    OBVIOUS
  <2> HIDE DEF g
  <2>5. g[0] = base
    BY <2>1, <2>4
  <2>6. ASSUME NEW i \in 1..k
        PROVE  g[i] = step[i][g[i - 1]]
    <3>1. g[i - 1] = f[i - 1]
      BY <2>4
    <3>2. CASE i = k
      BY <2>4, <3>1, <3>2
    <3>3. CASE i # k
      <4>1. g[i] = f[i] /\ i \in 1..(k - 1)
        BY <2>4, <3>3
      <4>2. QED
        BY <2>1, <3>1, <4>1
    <3>4. QED
      BY <3>2, <3>3
  <2>7. QED
    BY <2>3, <2>5, <2>6
<1>3. n \in T
  <2> HIDE DEF T
  <2>1. n \in 0..n
    OBVIOUS
  <2>2. QED
    BY <1>1, <1>2, <2>1, IntervalInduction
<1>4. QED
  BY <1>3 DEF Orbit

\* What is in an exclusive or.
LEMMA SymDiffMember ==
  ASSUME NEW A, NEW B
  PROVE  \A x : x \in SymDiff(A, B) <=> (x \in A <=> x \notin B)
BY DEF SymDiff

\* Exclusive or is a commutative group in which every member is its own inverse.
LEMMA SymDiffLaws ==
  ASSUME NEW A, NEW B, NEW C, NEW D
  PROVE  /\ SymDiff(A, A) = {} /\ SymDiff(A, {}) = A /\ SymDiff({}, A) = A
         /\ SymDiff(A, B) = {} <=> A = B
         /\ SymDiff(SymDiff(A, B), SymDiff(C, D))
              = SymDiff(SymDiff(A, C), SymDiff(B, D))
         /\ SymDiff(SymDiff(A, B), C) = SymDiff(A, SymDiff(B, C))
         /\ SymDiff(SymDiff(A, C), SymDiff(B, C)) = SymDiff(A, B)
BY Zenon DEF SymDiff

\* A shift moves bit x + n to x and drops the n lowest.
LEMMA ShiftRightMember ==
  ASSUME NEW w \in SUBSET Int, NEW n \in Nat
  PROVE  \A x : x \in ShiftRight(w, n) <=> x \in Nat /\ x + n \in w
BY DEF ShiftRight

\* A shift of an exclusive or is the exclusive or of the shifts.
LEMMA ShiftRightLinear ==
  ASSUME NEW v \in Word, NEW w \in Word, NEW n \in Nat
  PROVE  /\ ShiftRight(v, n) \in Word
         /\ ShiftRight(SymDiff(v, w), n) = SymDiff(ShiftRight(v, n), ShiftRight(w, n))
<1>1. v \in SUBSET Int /\ w \in SUBSET Int /\ SymDiff(v, w) \in SUBSET Int
  BY DEF Word, SymDiff
<1>2. \A x : x \in ShiftRight(SymDiff(v, w), n)
               <=> x \in SymDiff(ShiftRight(v, n), ShiftRight(w, n))
  BY <1>1, ShiftRightMember, SymDiffMember
<1>3. ShiftRight(SymDiff(v, w), n) = SymDiff(ShiftRight(v, n), ShiftRight(w, n))
  BY <1>2
<1>4. ShiftRight(v, n) \in Word
  BY <1>1, ShiftRightMember DEF Word
<1>5. QED
  BY <1>3, <1>4

\* So is a step of GenerateCrcEntry(), since the feedback is exclusive-ored in
\* exactly if the lowest bits of the two words differ.
LEMMA ShiftedLinear ==
  ASSUME NEW v \in Word, NEW w \in Word
  PROVE  /\ Shifted(v) \in Word
         /\ SymDiff(v, w) \in Word
         /\ Shifted(SymDiff(v, w)) = SymDiff(Shifted(v), Shifted(w))
<1> DEFINE a == ShiftRight(v, 1)
           b == ShiftRight(w, 1)
<1>1. ShiftRight(SymDiff(v, w), 1) = SymDiff(a, b) /\ a \in Word /\ b \in Word
  BY ShiftRightLinear
<1>2. 0 \in SymDiff(v, w) <=> (0 \in v <=> 0 \notin w)
  BY SymDiffMember
<1> HIDE DEF a, b
<1>3. Shifted(v) = IF 0 \in v THEN SymDiff(a, kFeedback) ELSE a
  BY DEF Shifted, a
<1>4. Shifted(w) = IF 0 \in w THEN SymDiff(b, kFeedback) ELSE b
  BY DEF Shifted, b
<1>5. Shifted(SymDiff(v, w))
        = IF 0 \in SymDiff(v, w) THEN SymDiff(SymDiff(a, b), kFeedback)
                                 ELSE SymDiff(a, b)
  BY <1>1 DEF Shifted
<1>6. Shifted(v) \in Word /\ SymDiff(v, w) \in Word
  BY <1>1, <1>3 DEF Word, kFeedback, SymDiff
<1>7. /\ SymDiff(SymDiff(a, kFeedback), b) = SymDiff(SymDiff(a, b), kFeedback)
      /\ SymDiff(a, SymDiff(b, kFeedback)) = SymDiff(SymDiff(a, b), kFeedback)
      /\ SymDiff(SymDiff(a, kFeedback), SymDiff(b, kFeedback)) = SymDiff(a, b)
  BY Zenon DEF SymDiff
<1>8. QED
  BY <1>2, <1>3, <1>4, <1>5, <1>6, <1>7

\* The eight rounds.
Rounds(idx, crc) ==
  crc = [bit \in 0..8 |-> IF bit = 0 THEN idx ELSE Shifted(crc[bit - 1])]

\* The eight rounds of GenerateCrcEntry() are defined and yield words.
LEMMA RoundsExist ==
  ASSUME NEW idx \in Byte
  PROVE  \E crc \in [0..8 -> Word] :
           Rounds(idx, crc) /\ GenerateCrcEntry(idx) = crc[8]
<1> DEFINE step == [bit \in 1..8 |-> [w \in Word |-> Shifted(w)]]
<1>1. idx \in Word
  BY DEF Byte, Word
<1>2. step \in Steps(8, Word)
  BY ShiftedLinear DEF Steps
<1>3. \E crc : Orbit(crc, 8, Word, idx, step)
  <2> HIDE DEF step
  <2>1. 8 \in Nat
    OBVIOUS
  <2>2. QED
    BY <1>1, <1>2, <2>1, Iteration
<1>4. PICK crc : Orbit(crc, 8, Word, idx, step)
  BY <1>3
<1>5. Rounds(idx, crc)
  <2>1. \A bit \in 1..8 : crc[bit - 1] \in Word /\ crc[bit] = Shifted(crc[bit - 1])
    BY <1>4 DEF Orbit
  <2>2. QED
    BY <1>4, <2>1 DEF Rounds, Orbit
<1> DEFINE chosen == CHOOSE f : Rounds(idx, f)
<1>6. Rounds(idx, chosen)
  BY <1>5
<1>7. GenerateCrcEntry(idx) = chosen[8]
  BY DEF GenerateCrcEntry, Rounds
<1>8. chosen \in [0..8 -> Word]
  <2> HIDE DEF chosen
  <2> DEFINE T == {bit \in 0..8 : chosen[bit] \in Word}
  <2>1. 0 \in T
    BY <1>1, <1>6 DEF Rounds
  <2>2. ASSUME NEW i \in 1..8, i - 1 \in T
        PROVE  i \in T
    <3>1. Shifted(chosen[i - 1]) \in Word
      BY <2>2, ShiftedLinear
    <3>2. chosen[i] = Shifted(chosen[i - 1])
      BY <1>6 DEF Rounds
    <3>3. QED
      BY <3>1, <3>2
  <2>3. \A i \in 0..8 : i \in T
    <3> HIDE DEF T
    <3> QED BY <2>1, <2>2, IntervalInduction
  <2>4. QED
    BY <1>6, <2>3 DEF Rounds
<1>9. QED
  BY <1>6, <1>7, <1>8

\* The CRC table is linear in its index.
LEMMA EntryLinear ==
  ASSUME NEW x \in Byte, NEW y \in Byte
  PROVE  /\ GenerateCrcEntry(x) \in Word
         /\ SymDiff(x, y) \in Byte
         /\ GenerateCrcEntry(SymDiff(x, y))
              = SymDiff(GenerateCrcEntry(x), GenerateCrcEntry(y))
<1>1. SymDiff(x, y) \in Byte
  BY DEF Byte, SymDiff
<1>2. PICK f \in [0..8 -> Word] : Rounds(x, f) /\ GenerateCrcEntry(x) = f[8]
  BY RoundsExist
<1>3. PICK g \in [0..8 -> Word] : Rounds(y, g) /\ GenerateCrcEntry(y) = g[8]
  BY RoundsExist
<1>4. PICK h \in [0..8 -> Word] :
        Rounds(SymDiff(x, y), h) /\ GenerateCrcEntry(SymDiff(x, y)) = h[8]
  BY <1>1, RoundsExist
<1> DEFINE T == {i \in 0..8 : h[i] = SymDiff(f[i], g[i])}
<1>5. 0 \in T
  BY <1>2, <1>3, <1>4 DEF Rounds
<1>6. ASSUME NEW i \in 1..8, i - 1 \in T
      PROVE  i \in T
  <2>1. /\ f[i] = Shifted(f[i - 1]) /\ g[i] = Shifted(g[i - 1])
        /\ h[i] = Shifted(h[i - 1])
        /\ f[i - 1] \in Word /\ g[i - 1] \in Word
    BY <1>2, <1>3, <1>4 DEF Rounds
  <2>2. h[i - 1] = SymDiff(f[i - 1], g[i - 1])
    BY <1>6
  <2>3. QED
    BY <2>1, <2>2, ShiftedLinear
<1>7. \A i \in 0..8 : i \in T
  <2> HIDE DEF T
  <2>1. 8 \in Nat
    OBVIOUS
  <2>2. QED
    BY <1>5, <1>6, <2>1, IntervalInduction
<1>8. QED
  BY <1>1, <1>2, <1>3, <1>4, <1>7

\* One byte of ComputeE2eCrc() is linear in the register and the byte.
LEMMA NextCrcLinear ==
  ASSUME NEW c \in Word, NEW d \in Word, NEW x \in Byte, NEW y \in Byte
  PROVE  /\ NextCrc(c, x) \in Word
         /\ NextCrc(SymDiff(c, d), SymDiff(x, y))
              = SymDiff(NextCrc(c, x), NextCrc(d, y))
<1> DEFINE low(w) == w \cap (0..7)
           i == SymDiff(low(c), x)
           j == SymDiff(low(d), y)
<1>1. i \in Byte /\ j \in Byte /\ SymDiff(c, d) \in Word /\ SymDiff(x, y) \in Byte
  BY DEF Byte, Word, SymDiff
<1>2. SymDiff(low(SymDiff(c, d)), SymDiff(x, y)) = SymDiff(i, j)
  BY Zenon DEF SymDiff
<1> HIDE DEF i, j
<1>3. /\ kCrcTable[i] \in Word /\ SymDiff(i, j) \in Byte
      /\ kCrcTable[SymDiff(i, j)] = SymDiff(kCrcTable[i], kCrcTable[j])
  BY <1>1, EntryLinear DEF kCrcTable
<1>4. /\ ShiftRight(c, 8) \in Word
      /\ ShiftRight(SymDiff(c, d), 8) = SymDiff(ShiftRight(c, 8), ShiftRight(d, 8))
  BY ShiftRightLinear
<1>5. NextCrc(c, x) = SymDiff(ShiftRight(c, 8), kCrcTable[i])
  BY DEF NextCrc, i
<1>6. NextCrc(d, y) = SymDiff(ShiftRight(d, 8), kCrcTable[j])
  BY DEF NextCrc, j
<1>7. NextCrc(SymDiff(c, d), SymDiff(x, y))
        = SymDiff(SymDiff(ShiftRight(c, 8), ShiftRight(d, 8)),
                  SymDiff(kCrcTable[i], kCrcTable[j]))
  BY <1>2, <1>3, <1>4 DEF NextCrc
<1>8. NextCrc(c, x) \in Word
  BY <1>3, <1>4, <1>5 DEF Word, SymDiff
<1>9. QED
  BY <1>5, <1>6, <1>7, <1>8, SymDiffLaws

\* The register of ComputeE2eCrc() after each of n bytes.
Registers(n, data, crc) ==
  /\ crc \in [0..n -> Word]
  /\ crc[0] = {}
  /\ \A i \in 1..n : crc[i] = NextCrc(crc[i - 1], data[i])

\* The loop of ComputeE2eCrc().
ByteLoop(n, data, loop) ==
  loop = [at \in Word \X (1..(n + 1)) |->
            IF at[2] > n THEN at[1]
            ELSE loop[<<NextCrc(at[1], data[at[2]]), at[2] + 1>>]]

\* The loop of ComputeE2eCrc() is defined: its last iterations first.
LEMMA LoopExists ==
  ASSUME NEW n \in Nat, NEW data \in [1..n -> Byte]
  PROVE  \E loop : ByteLoop(n, data, loop)
<1> DEFINE S == [Word -> Word]
           base == [w \in Word |-> w]
           step == [k \in 1..n |->
                     [g \in S |-> [w \in Word |-> g[NextCrc(w, data[n + 1 - k])]]]]
<1>1. \A k \in 1..n : data[n + 1 - k] \in Byte
  OBVIOUS
<1>2. base \in S
  OBVIOUS
<1>3. step \in Steps(n, S)
  <2>1. ASSUME NEW k \in 1..n, NEW g \in S
        PROVE  [w \in Word |-> g[NextCrc(w, data[n + 1 - k])]] \in S
    <3>1. \A w \in Word : NextCrc(w, data[n + 1 - k]) \in Word
      BY <1>1, NextCrcLinear
    <3>2. QED
      BY <3>1
  <2>2. QED
    BY <2>1 DEF Steps
<1>4. PICK G : Orbit(G, n, S, base, step)
  <2> HIDE DEF S, base, step
  <2>1. QED
    BY <1>2, <1>3, Iteration
<1>5. \A w \in Word : G[0][w] = w
  BY <1>4 DEF Orbit
<1>6. ASSUME NEW i \in 1..n, NEW w \in Word
      PROVE  G[n + 1 - i][w] = G[n + 1 - (i + 1)][NextCrc(w, data[i])]
  <2> DEFINE k == n + 1 - i
  <2>1. k \in 1..n /\ k - 1 = n + 1 - (i + 1) /\ n + 1 - k = i
    OBVIOUS
  <2> HIDE DEF k
  <2>2. G[k] = step[k][G[k - 1]] /\ G[k - 1] \in S
    <3> HIDE DEF step, S
    <3>1. k - 1 \in 0..n
      BY <2>1
    <3>2. QED
      BY <1>4, <2>1, <3>1 DEF Orbit
  <2>3. G[k][w] = G[k - 1][NextCrc(w, data[n + 1 - k])]
    BY <2>1, <2>2
  <2>4. QED
    BY <2>1, <2>3 DEF k
<1> DEFINE D == Word \X (1..(n + 1))
           loop == [at \in D |-> G[n + 1 - at[2]][at[1]]]
           Rest(at) == <<NextCrc(at[1], data[at[2]]), at[2] + 1>>
<1>7. ASSUME NEW at \in D
      PROVE  loop[at] = IF at[2] > n THEN at[1] ELSE loop[Rest(at)]
  <2>1. at[1] \in Word /\ at[2] \in 1..(n + 1)
    OBVIOUS
  <2>2. CASE at[2] > n
    <3>1. n + 1 - at[2] = 0
      BY <2>1, <2>2
    <3>2. QED
      BY <1>5, <2>1, <2>2, <3>1
  <2>3. CASE ~ (at[2] > n)
    <3>1. at[2] \in 1..n /\ at[2] + 1 \in 1..(n + 1) /\ data[at[2]] \in Byte
      BY <2>1, <2>3
    <3>2. NextCrc(at[1], data[at[2]]) \in Word
      BY <2>1, <3>1, NextCrcLinear
    <3>3. loop[Rest(at)] = G[n + 1 - (at[2] + 1)][NextCrc(at[1], data[at[2]])]
      BY <3>1, <3>2
    <3>4. loop[at] = G[n + 1 - (at[2] + 1)][NextCrc(at[1], data[at[2]])]
      BY <1>6, <2>1, <3>1
    <3>5. QED
      BY <2>3, <3>3, <3>4
  <2>4. QED
    BY <2>2, <2>3
<1>8. ByteLoop(n, data, loop)
  <2> HIDE DEF loop
  <2>1. loop = [at \in D |-> loop[at]]
    BY DEF loop
  <2>2. loop = [at \in D |-> IF at[2] > n THEN at[1] ELSE loop[Rest(at)]]
    BY <1>7, <2>1
  <2>3. QED
    BY <2>2 DEF ByteLoop
<1>9. QED
  BY <1>8

\* ComputeE2eCrc() leaves the register that it has after its last byte.
LEMMA CrcRun ==
  ASSUME NEW n \in Nat, NEW data \in [1..n -> Byte], Len(data) = n
  PROVE  \E crc : Registers(n, data, crc) /\ ComputeE2eCrc(data) = crc[n]
<1> DEFINE step == [i \in 1..n |-> [w \in Word |-> NextCrc(w, data[i])]]
           chosen == CHOOSE loop : ByteLoop(n, data, loop)
<1>1. {} \in Word /\ \A i \in 1..n : data[i] \in Byte
  BY DEF Word
<1>2. step \in Steps(n, Word)
  BY <1>1, NextCrcLinear DEF Steps
<1>3. PICK crc : Orbit(crc, n, Word, {}, step)
  <2> HIDE DEF step
  <2>1. QED
    BY <1>1, <1>2, Iteration
<1>4. Registers(n, data, crc)
  <2>1. ASSUME NEW i \in 1..n
        PROVE  crc[i] = NextCrc(crc[i - 1], data[i])
    <3>1. crc[i - 1] \in Word /\ crc[i] = step[i][crc[i - 1]]
      BY <1>3 DEF Orbit
    <3>2. QED
      BY <3>1
  <2>2. crc[0] = {} /\ crc \in [0..n -> Word]
    BY <1>3 DEF Orbit
  <2>3. QED
    BY <2>1, <2>2 DEF Registers
<1>5. ByteLoop(n, data, chosen)
  BY LoopExists
<1>6. ComputeE2eCrc(data) = chosen[<<{}, 1>>]
  BY Zenon DEF ComputeE2eCrc, ByteLoop
<1> HIDE DEF chosen
<1>7. \A w \in Word, i \in 1..(n + 1) :
        chosen[<<w, i>>] = IF i > n THEN w ELSE chosen[<<NextCrc(w, data[i]), i + 1>>]
  <2>1. \A at \in Word \X (1..(n + 1)) :
          chosen[at] = IF at[2] > n THEN at[1]
                       ELSE chosen[<<NextCrc(at[1], data[at[2]]), at[2] + 1>>]
    BY <1>5, Zenon DEF ByteLoop
  <2>2. ASSUME NEW w \in Word, NEW i \in 1..(n + 1)
        PROVE  chosen[<<w, i>>]
                 = IF i > n THEN w ELSE chosen[<<NextCrc(w, data[i]), i + 1>>]
    <3> DEFINE at == <<w, i>>
    <3>1. at \in Word \X (1..(n + 1)) /\ at[1] = w /\ at[2] = i
      OBVIOUS
    <3> HIDE DEF at
    <3>2. chosen[at] = IF at[2] > n THEN at[1]
                       ELSE chosen[<<NextCrc(at[1], data[at[2]]), at[2] + 1>>]
      BY <2>1, <3>1, Zenon
    <3>3. chosen[at] = IF i > n THEN w ELSE chosen[<<NextCrc(w, data[i]), i + 1>>]
      BY <3>1, <3>2, Zenon
    <3>4. QED
      BY <3>3 DEF at
  <2>3. QED
    BY <2>2, Zenon
<1> DEFINE T == {i \in 0..n : chosen[<<crc[i], i + 1>>] = chosen[<<{}, 1>>]}
<1>8. 0 \in T
  <2>1. crc[0] = {} /\ 0 + 1 = 1 /\ 0 \in 0..n
    BY <1>4 DEF Registers
  <2>2. chosen[<<crc[0], 0 + 1>>] = chosen[<<{}, 1>>]
    BY <2>1, Zenon
  <2>3. QED
    BY <2>1, <2>2, Zenon
<1>9. ASSUME NEW i \in 1..n, i - 1 \in T
      PROVE  i \in T
  <2>1. crc[i - 1] \in Word /\ crc[i] = NextCrc(crc[i - 1], data[i])
    BY <1>4 DEF Registers
  <2>2. chosen[<<crc[i - 1], (i - 1) + 1>>] = chosen[<<{}, 1>>] /\ (i - 1) + 1 = i
    BY <1>9
  <2>3. i \in 1..(n + 1) /\ ~ (i > n)
    OBVIOUS
  <2>4. chosen[<<crc[i - 1], i>>] = chosen[<<NextCrc(crc[i - 1], data[i]), i + 1>>]
    BY <1>7, <2>1, <2>3
  <2>5. chosen[<<crc[i], i + 1>>] = chosen[<<{}, 1>>]
    BY <2>1, <2>2, <2>4
  <2>6. QED
    BY <2>5
<1>10. \A i \in 0..n : i \in T
  <2> HIDE DEF T
  <2>1. QED
    BY <1>8, <1>9, IntervalInduction
<1>11. chosen[<<crc[n], n + 1>>] = chosen[<<{}, 1>>]
  BY <1>10
<1>12. chosen[<<crc[n], n + 1>>] = crc[n]
  <2>1. n + 1 \in 1..(n + 1) /\ n + 1 > n /\ crc[n] \in Word
    BY <1>4 DEF Registers
  <2>2. QED
    BY <1>7, <2>1
<1>13. QED
  BY <1>4, <1>6, <1>11, <1>12

\* Linearity of ComputeE2eCrc() (src/IpcBridge.cpp), for messages of any length:
\* the CRC of an exclusive or is the exclusive or of the CRCs.
THEOREM CrcLinear ==
  ASSUME NEW n \in Nat, NEW a \in [1..n -> Byte], NEW b \in [1..n -> Byte]
  PROVE  /\ ComputeE2eCrc(a) \in Word
         /\ ComputeE2eCrc([i \in 1..n |-> SymDiff(a[i], b[i])])
              = SymDiff(ComputeE2eCrc(a), ComputeE2eCrc(b))
<1> DEFINE c == [i \in 1..n |-> SymDiff(a[i], b[i])]
<1>1. \A i \in 1..n : a[i] \in Byte /\ b[i] \in Byte
  OBVIOUS
<1>2. c \in [1..n -> Byte] /\ \A i \in 1..n : c[i] = SymDiff(a[i], b[i])
  BY <1>1, EntryLinear
<1>3. Len(a) = n /\ Len(b) = n /\ Len(c) = n
  <2> HIDE DEF c
  <2>1. QED
    BY <1>2
<1> HIDE DEF c
<1>4. PICK f : Registers(n, a, f) /\ ComputeE2eCrc(a) = f[n]
  BY <1>3, CrcRun
<1>5. PICK g : Registers(n, b, g) /\ ComputeE2eCrc(b) = g[n]
  BY <1>3, CrcRun
<1>6. PICK h : Registers(n, c, h) /\ ComputeE2eCrc(c) = h[n]
  BY <1>2, <1>3, CrcRun
<1> DEFINE T == {i \in 0..n : h[i] = SymDiff(f[i], g[i])}
<1>7. 0 \in T
  <2>1. h[0] = {} /\ f[0] = {} /\ g[0] = {}
    BY <1>4, <1>5, <1>6 DEF Registers
  <2>2. QED
    BY <2>1, SymDiffLaws
<1>8. ASSUME NEW i \in 1..n, i - 1 \in T
      PROVE  i \in T
  <2>1. /\ f[i] = NextCrc(f[i - 1], a[i]) /\ g[i] = NextCrc(g[i - 1], b[i])
        /\ h[i] = NextCrc(h[i - 1], c[i])
        /\ f[i - 1] \in Word /\ g[i - 1] \in Word
    <3>1. i - 1 \in 0..n
      OBVIOUS
    <3>2. f[i] = NextCrc(f[i - 1], a[i]) /\ f[i - 1] \in Word
      BY <1>4, <3>1 DEF Registers
    <3>3. g[i] = NextCrc(g[i - 1], b[i]) /\ g[i - 1] \in Word
      BY <1>5, <3>1 DEF Registers
    <3>4. h[i] = NextCrc(h[i - 1], c[i])
      BY <1>6 DEF Registers
    <3>5. QED
      BY <3>2, <3>3, <3>4
  <2>2. h[i - 1] = SymDiff(f[i - 1], g[i - 1])
    BY <1>8
  <2>3. h[i] = SymDiff(f[i], g[i])
    BY <1>1, <1>2, <2>1, <2>2, NextCrcLinear
  <2>4. QED
    BY <2>3
<1>9. \A i \in 0..n : i \in T
  <2> HIDE DEF T
  <2>1. QED
    BY <1>7, <1>8, IntervalInduction
<1>10. h[n] = SymDiff(f[n], g[n]) /\ f[n] \in Word
  BY <1>4, <1>9 DEF Registers
<1>11. QED
  BY <1>4, <1>5, <1>6, <1>10 DEF c

\* The bytes of a slot, all of them zero, zero but for these bits, and the bits
\* of byte k among these.
RawSlot == [1..kSlotBytes -> Byte]
ZeroBytes == [k \in 1..kSlotBytes |-> {}]
FlipPattern(flips) == Damaged(ZeroBytes, flips)
FlippedBits(flips, k) == {p % 8 : p \in {q \in flips : q \div 8 = k - 1}}

\* The difference that VerifyE2e() looks for is linear in the slot.
LEMMA DifferenceLinear ==
  ASSUME NEW a \in RawSlot, NEW b \in RawSlot
  PROVE  CrcDifference([k \in 1..kSlotBytes |-> SymDiff(a[k], b[k])])
           = SymDiff(CrcDifference(a), CrcDifference(b))
<1> DEFINE c == [k \in 1..kSlotBytes |-> SymDiff(a[k], b[k])]
           n == kProtectedLen
           Data(s) == Protected(s)
<1>1. n \in Nat /\ \A i \in 1..n : kCrcOffset + i \in 1..kSlotBytes
  BY DEF kProtectedLen, kSlotBytes, kCrcOffset
<1>2. /\ \A k \in 1..kSlotBytes : c[k] = SymDiff(a[k], b[k])
      /\ 1 \in 1..kSlotBytes /\ 2 \in 1..kSlotBytes
  BY DEF kSlotBytes
<1> HIDE DEF c, n
<1>3. Protected(a) \in [1..n -> Byte] /\ Protected(b) \in [1..n -> Byte]
  BY <1>1 DEF Protected, RawSlot, n
<1>4. Protected(c) = [i \in 1..n |-> SymDiff(Protected(a)[i], Protected(b)[i])]
  BY <1>1, <1>2 DEF Protected, n
<1>5. ComputeE2eCrc(Protected(c))
        = SymDiff(ComputeE2eCrc(Protected(a)), ComputeE2eCrc(Protected(b)))
  BY <1>1, <1>3, <1>4, CrcLinear
<1>6. CrcField(c) = SymDiff(CrcField(a), CrcField(b))
  <2>1. /\ a[1] \subseteq 0..7 /\ b[1] \subseteq 0..7
        /\ a[2] \subseteq 0..7 /\ b[2] \subseteq 0..7
    BY <1>2 DEF RawSlot, Byte
  <2>2. c[1] = SymDiff(a[1], b[1]) /\ c[2] = SymDiff(a[2], b[2])
    BY <1>2
  <2>3. \A x : x \in CrcField(c) <=> x \in SymDiff(CrcField(a), CrcField(b))
    BY <2>1, <2>2 DEF CrcField, SymDiff
  <2>4. QED
    BY <2>3
<1>7. QED
  BY <1>5, <1>6, SymDiffLaws DEF CrcDifference, c

\* Flips of different positions flip different bits of the bytes.
LEMMA BitsSplit ==
  ASSUME NEW s \in SUBSET SlotBits, NEW x \in s, NEW k \in 1..kSlotBytes
  PROVE  /\ FlippedBits(s, k) \in Byte
         /\ FlippedBits(s, k) = SymDiff(FlippedBits({x}, k), FlippedBits(s \ {x}, k))
<1>1. \A p \in s : /\ p \in Nat /\ p = 8 * (p \div 8) + (p % 8)
                  /\ p % 8 \in 0..7 /\ p \div 8 \in Nat
  BY DEF SlotBits, kSlotBytes
<1>2. \A p, q \in s : p \div 8 = q \div 8 /\ p % 8 = q % 8 => p = q
  BY <1>1
<1>3. QED
  BY <1>1, <1>2 DEF FlippedBits, SymDiff, Byte

\* Flipping bits of a slot is an exclusive or with a pattern of bytes, which can
\* be put together one flip at a time.
LEMMA PatternSplit ==
  ASSUME NEW s \in SUBSET SlotBits
  PROVE  /\ FlipPattern(s) \in RawSlot
         /\ FlipPattern({}) = ZeroBytes
         /\ \A x \in s : FlipPattern(s) = [k \in 1..kSlotBytes |-> 
                SymDiff(FlipPattern({x})[k], FlipPattern(s \ {x})[k])]
         /\ \A slot \in RawSlot : Damaged(slot, s) = 
               [k \in 1..kSlotBytes |-> SymDiff(slot[k], FlipPattern(s)[k])]
<1>1. \A t : FlipPattern(t) = [k \in 1..kSlotBytes |-> FlippedBits(t, k)]
  BY SymDiffLaws DEF FlipPattern, Damaged, ZeroBytes, FlippedBits
<1>2. QED
  BY <1>1, BitsSplit DEF RawSlot, ZeroBytes, FlippedBits, Damaged, Byte

\* What flips add to the CRC, whatever the slot.
Added(flips) == CrcDifference(FlipPattern(flips))

\* Flips add what each of them adds alone, whatever the slot.
LEMMA AddedSplit ==
  ASSUME NEW s \in SUBSET SlotBits
  PROVE  /\ Added({}) = {}
         /\ \A x \in s : Added(s) = SymDiff(Syndrome[x], Added(s \ {x}))
         /\ \A slot \in RawSlot :
              CrcDifference(Damaged(slot, s)) = SymDiff(CrcDifference(slot), Added(s))
<1>1. Added({}) = {}
  <2>1. /\ ZeroBytes \in RawSlot
        /\ ZeroBytes
             = [k \in 1..kSlotBytes |-> SymDiff(ZeroBytes[k], ZeroBytes[k])]
    BY SymDiffLaws DEF ZeroBytes, RawSlot, Byte
  <2>2. CrcDifference(ZeroBytes)
          = SymDiff(CrcDifference(ZeroBytes), CrcDifference(ZeroBytes))
    BY <2>1, DifferenceLinear
  <2>3. FlipPattern({}) = ZeroBytes
    BY PatternSplit
  <2>4. QED
    BY <2>2, <2>3, SymDiffLaws DEF Added
<1>2. ASSUME NEW x \in s
      PROVE  Added(s) = SymDiff(Syndrome[x], Added(s \ {x}))
  <2>1. FlipPattern({x}) \in RawSlot /\ FlipPattern(s \ {x}) \in RawSlot
    BY PatternSplit
  <2>2. FlipPattern(s) = [k \in 1..kSlotBytes |->
                        SymDiff(FlipPattern({x})[k], FlipPattern(s \ {x})[k])]
    BY PatternSplit
  <2>3. Added(s) = SymDiff(Added({x}), Added(s \ {x}))
    BY <2>1, <2>2, DifferenceLinear DEF Added
  <2>4. Syndrome[x] = Added({x})
    BY DEF Syndrome, Added, FlipPattern, ZeroBytes
  <2>5. QED
    BY <2>3, <2>4
<1>3. ASSUME NEW slot \in RawSlot
      PROVE  CrcDifference(Damaged(slot, s)) = SymDiff(CrcDifference(slot), Added(s))
  <2>1. FlipPattern(s) \in RawSlot
        /\ Damaged(slot, s)
             = [k \in 1..kSlotBytes |-> SymDiff(slot[k], FlipPattern(s)[k])]
    BY PatternSplit
  <2>2. QED
    BY <2>1, DifferenceLinear DEF Added
<1>4. QED
  BY <1>1, <1>2, <1>3

\* There are finitely many bits to flip.
LEMMA SlotBitsFinite ==
  ASSUME NEW s \in SUBSET SlotBits
  PROVE  IsFiniteSet(s)
<1>1. 0 \in Int /\ 8 * kSlotBytes - 1 \in Int
  BY DEF kSlotBytes
<1>2. IsFiniteSet(SlotBits)
  BY <1>1, FS_Interval DEF SlotBits
<1>3. QED
  BY <1>2, FS_Subset

\* Residue, which adds up the syndromes in the order that CHOOSE gives, is what
\* the flips add.
LEMMA ResidueIsAdded ==
  ASSUME NEW flips \in SUBSET SlotBits
  PROVE  Residue(flips) = Added(flips)
<1> DEFINE first(s) == CHOOSE p \in s : TRUE
           Folds(sum) ==
             sum = [s \in SUBSET flips |->
                      IF s = {} THEN {}
                      ELSE SymDiff(Syndrome[first(s)], sum[s \ {first(s)}])]
           chosen == CHOOSE sum : Folds(sum)
<1>1. \A s : s # {} => first(s) \in s
  OBVIOUS
<1> HIDE DEF first
<1>2. Folds([s \in SUBSET flips |-> Added(s)])
  <2> DEFINE added == [s \in SUBSET flips |-> Added(s)]
  <2>1. ASSUME NEW s \in SUBSET flips
        PROVE  Added(s) = IF s = {} THEN {}
                          ELSE SymDiff(Syndrome[first(s)], added[s \ {first(s)}])
    <3>1. CASE s = {}
      BY <3>1, AddedSplit
    <3>2. CASE s # {}
      <4>1. first(s) \in s /\ s \in SUBSET SlotBits
        BY <1>1, <3>2
      <4>2. Added(s) = SymDiff(Syndrome[first(s)], Added(s \ {first(s)}))
        BY <4>1, AddedSplit
      <4>3. QED
        BY <3>2, <4>2
    <3>3. QED
      BY <3>1, <3>2
  <2>2. QED
    BY <2>1
<1>3. Folds(chosen)
  BY <1>2
<1>4. Residue(flips) = chosen[flips]
  BY DEF Residue, FoldSet, MapThenFoldSet, first
<1> HIDE DEF chosen
<1> DEFINE F == {s \in SUBSET flips : chosen[s] # Added(s)}
<1>5. F = {}
  <2> SUFFICES ASSUME F # {} PROVE FALSE
    OBVIOUS
  <2>1. IsFiniteSet(flips)
    BY SlotBitsFinite
  <2>2. F \subseteq SUBSET flips
    OBVIOUS
  <2>3. PICK s \in F : \A t \in F : t \subseteq s => t = s
    <3> HIDE DEF F
    <3>1. QED
      BY <2>1, <2>2, MinimalSubset
  <2>4. s # {}
    BY <1>3, AddedSplit
  <2>5. first(s) \in s /\ s \ {first(s)} \notin F
    BY <1>1, <2>3, <2>4
  <2>6. chosen[s \ {first(s)}] = Added(s \ {first(s)})
    BY <2>2, <2>5
  <2>7. chosen[s] = SymDiff(Syndrome[first(s)], chosen[s \ {first(s)}])
    BY <1>3, <2>4
  <2>8. Added(s) = SymDiff(Syndrome[first(s)], Added(s \ {first(s)}))
    BY <2>2, <2>5, AddedSplit
  <2>9. QED
    BY <2>6, <2>7, <2>8
<1>6. QED
  BY <1>4, <1>5

\* VerifyE2e() and damage: whatever an intact slot contains, and whichever of its
\* bits flip, in the CRC or in the bytes it protects, the CRC still matches if
\* and only if the syndromes of the flipped positions cancel out.  MCIpcBridge
\* rests on it where it represents damage by positions and damages one slot.
THEOREM DamageAdds ==
  ASSUME NEW slot \in RawSlot, CrcMatches(slot), NEW flips \in SUBSET SlotBits
  PROVE  CrcMatches(Damaged(slot, flips)) <=> Undetected(flips)
<1>1. CrcDifference(slot) = {}
  BY SymDiffLaws DEF CrcDifference, CrcMatches
<1>2. CrcDifference(Damaged(slot, flips)) = Residue(flips)
  BY <1>1, AddedSplit, ResidueIsAdded, SymDiffLaws
<1>3. QED
  BY <1>2, SymDiffLaws DEF CrcDifference, CrcMatches, Undetected

-----------------------------------------------------------------------------
(***************************************************************************)
(* The division.  Polynomials over GF(2), and the proof that the CRC is    *)
(* the remainder of one: Generator divides what the message and its CRC    *)
(* differ in.                                                              *)
(***************************************************************************)

\* Polynomials, their products with Generator, and those that it divides.
Poly == {p \in SUBSET Nat : \E n \in Nat : p \subseteq 0..n}
Times(q) == SymDiff(SymDiff(q, Raised(q, 13)), SymDiff(Raised(q, 15), Raised(q, 16)))
Multiple(p) == \E q \in Poly : p = Times(q)
Congruent(p, r) == Multiple(SymDiff(p, r))

\* x^k is a term of p if and only if x^(k + n) is one of p times x^n.
LEMMA RaisedMember ==
  ASSUME NEW p \in SUBSET Nat, NEW n \in Nat
  PROVE  /\ Raised(p, n) \in SUBSET Nat
         /\ \A x \in Int : x \in Raised(p, n) <=> x - n \in p
BY DEF Raised

\* What is in a product with Generator.
LEMMA TimesMember ==
  ASSUME NEW q \in SUBSET Nat
  PROVE  /\ Times(q) \in SUBSET Nat
         /\ \A x \in Nat :
              x \in Times(q) <=> ((x \in q <=> x - 13 \notin q)
                                    <=> ~(x - 15 \in q <=> x - 16 \notin q))
<1>1. \A n \in {13, 15, 16} :
        /\ Raised(q, n) \in SUBSET Nat
        /\ \A x \in Nat : x \in Raised(q, n) <=> x - n \in q
  BY RaisedMember
<1>2. QED
  BY <1>1 DEF Times, SymDiff

LEMMA PolyIntro ==
  ASSUME NEW n \in Nat, NEW p, p \subseteq 0..n
  PROVE  p \in Poly
<1>1. p \in SUBSET Nat
  OBVIOUS
<1>2. QED
  BY <1>1 DEF Poly

\* Polynomials are closed under sums and multiplication by x^n.
LEMMA PolyClosed ==
  ASSUME NEW p \in Poly, NEW r \in Poly, NEW n \in Nat
  PROVE  SymDiff(p, r) \in Poly /\ Raised(p, n) \in Poly
<1>1. PICK i \in Nat : p \subseteq 0..i
  BY DEF Poly
<1>2. PICK j \in Nat : r \subseteq 0..j
  BY DEF Poly
<1>3. SymDiff(p, r) \subseteq 0..(i + j) /\ i + j \in Nat
  BY <1>1, <1>2 DEF SymDiff
<1>4. Raised(p, n) \subseteq 0..(i + n) /\ i + n \in Nat
  BY <1>1 DEF Raised
<1>5. QED
  BY <1>3, <1>4, PolyIntro

\* So are the multiples of Generator.
LEMMA MultipleSum ==
  ASSUME NEW p, NEW r, Multiple(p), Multiple(r)
  PROVE  Multiple(SymDiff(p, r))
<1>1. PICK a \in Poly : p = Times(a)
  BY DEF Multiple
<1>2. PICK b \in Poly : r = Times(b)
  BY DEF Multiple
<1>3. /\ a \in SUBSET Nat /\ b \in SUBSET Nat
      /\ SymDiff(a, b) \in SUBSET Nat /\ SymDiff(a, b) \in Poly
  BY PolyClosed DEF Poly
<1>4. \A x \in Nat : x \in Times(SymDiff(a, b)) <=> x \in SymDiff(p, r)
  BY <1>1, <1>2, <1>3, TimesMember, SymDiffMember
<1>5. Times(SymDiff(a, b)) \in SUBSET Nat /\ SymDiff(p, r) \in SUBSET Nat
  BY <1>1, <1>2, <1>3, TimesMember DEF SymDiff
<1>6. Times(SymDiff(a, b)) = SymDiff(p, r)
  BY <1>4, <1>5
<1>7. QED
  BY <1>3, <1>6 DEF Multiple

LEMMA TimesRaised ==
  ASSUME NEW q \in SUBSET Nat, NEW n \in Nat
  PROVE  Times(Raised(q, n)) = Raised(Times(q), n)
<1>1. Raised(q, n) \in SUBSET Nat /\ Times(q) \in SUBSET Nat
  BY RaisedMember, TimesMember
<1>2. \A x \in Nat : x \in Times(Raised(q, n)) <=> x \in Raised(Times(q), n)
  <2> SUFFICES ASSUME NEW x \in Nat
               PROVE  x \in Times(Raised(q, n)) <=> x \in Raised(Times(q), n)
    OBVIOUS
  <2>1. \A k \in {0, 13, 15, 16} : x - k \in Raised(q, n) <=> (x - n) - k \in q
    BY RaisedMember
  <2>2. x \in Raised(Times(q), n) <=> x - n \in Times(q)
    BY <1>1, RaisedMember
  <2>3. x \in Times(Raised(q, n))
          <=> ((x - n \in q <=> (x - n) - 13 \notin q)
                 <=> ~((x - n) - 15 \in q <=> (x - n) - 16 \notin q))
    BY <1>1, <2>1, TimesMember
  <2>4. CASE x - n \in Nat
    BY <2>2, <2>3, <2>4, TimesMember
  <2>5. CASE x - n \notin Nat
    <3>1. \A k \in {0, 13, 15, 16} : (x - n) - k \notin q
      BY <2>5
    <3>2. QED
      BY <1>1, <2>2, <2>3, <2>5, <3>1
  <2>6. QED
    BY <2>4, <2>5
<1>3. Times(Raised(q, n)) \in SUBSET Nat /\ Raised(Times(q), n) \in SUBSET Nat
  BY <1>1, RaisedMember, TimesMember
<1>4. QED
  BY <1>2, <1>3

LEMMA MultipleRaised ==
  ASSUME NEW p, Multiple(p), NEW n \in Nat
  PROVE  Multiple(Raised(p, n))
<1>1. PICK q \in Poly : p = Times(q)
  BY DEF Multiple
<1>2. q \in SUBSET Nat /\ Raised(q, n) \in Poly
  BY PolyClosed DEF Poly
<1>3. QED
  BY <1>1, <1>2, TimesRaised DEF Multiple

\* A polynomial that is not 0 has a term of the lowest and one of the highest
\* degree.
LEMMA Extremes ==
  ASSUME NEW p \in Poly, p # {}
  PROVE  /\ \E k \in p : \A j \in p : k <= j
         /\ \E k \in p : \A j \in p : j <= k
<1>1. PICK n \in Nat : p \subseteq 0..n
  BY DEF Poly
<1>2. \E k \in p : \A j \in p : k <= j
  <2> SUFFICES ASSUME \A k \in p : \E j \in p : j < k
               PROVE  FALSE
    BY <1>1
  <2> DEFINE T == {i \in 0..n : p \cap (0..i) = {}}
  <2>1. 0 \in T
    BY <1>1
  <2>2. ASSUME NEW i \in 1..n, i - 1 \in T
        PROVE  i \in T
    BY <1>1, <2>2
  <2>3. \A i \in 0..n : i \in T
    <3> HIDE DEF T
    <3>1. QED
      BY <2>1, <2>2, IntervalInduction
  <2>4. n \in T
    BY <2>3
  <2>5. QED
    BY <1>1, <2>4
<1>3. \E k \in p : \A j \in p : j <= k
  <2> SUFFICES ASSUME \A k \in p : \E j \in p : k < j
               PROVE  FALSE
    BY <1>1
  <2> DEFINE T == {i \in 0..n : p \cap ((n - i)..n) = {}}
  <2>1. 0 \in T
    BY <1>1
  <2>2. ASSUME NEW i \in 1..n, i - 1 \in T
        PROVE  i \in T
    BY <1>1, <2>2
  <2>3. \A i \in 0..n : i \in T
    <3> HIDE DEF T
    <3>1. QED
      BY <2>1, <2>2, IntervalInduction
  <2>4. n \in T /\ n - n = 0
    BY <2>3
  <2>5. p \cap (0..n) = {}
    BY <2>4
  <2>6. QED
    BY <1>1, <2>5
<1>4. QED
  BY <1>2, <1>3

\* Generator has the constant term 1: it divides what it divides times x^n.
LEMMA MultipleLowered ==
  ASSUME NEW p \in Poly, NEW n \in Nat, Multiple(Raised(p, n))
  PROVE  Multiple(p)
<1>1. PICK q \in Poly : Raised(p, n) = Times(q)
  BY DEF Multiple
<1>2. p \in SUBSET Nat /\ q \in SUBSET Nat
  BY DEF Poly
<1>3. \A x \in q : x >= n
  <2> SUFFICES ASSUME NEW x \in q, x < n
               PROVE  FALSE
    BY <1>2
  <2>1. PICK k \in q : \A j \in q : k <= j
    BY Extremes
  <2>2. k \in Nat /\ k < n /\ k - 13 \notin q /\ k - 15 \notin q /\ k - 16 \notin q
    BY <1>2, <2>1
  <2>3. k \in Times(q)
    BY <1>2, <2>1, <2>2, TimesMember
  <2>4. k \in Int /\ k - n \in p
    BY <1>1, <1>2, <2>2, <2>3, RaisedMember
  <2>5. QED
    BY <1>2, <2>2, <2>4
<1> DEFINE r == {x - n : x \in q}
<1>4. r \in Poly /\ q = Raised(r, n)
  <2>1. PICK i \in Nat : q \subseteq 0..i
    BY DEF Poly
  <2>2. r \subseteq 0..i /\ r \in SUBSET Nat
    BY <1>2, <1>3, <2>1
  <2>3. \A x \in Nat : x \in q <=> x - n \in r
    BY <1>2, <1>3
  <2>4. Raised(r, n) \in SUBSET Nat /\ \A x \in Nat : x \in q <=> x \in Raised(r, n)
    <3> HIDE DEF r
    <3>1. QED
      BY <2>2, <2>3, RaisedMember
  <2>5. r \in Poly
    BY <2>1, <2>2, PolyIntro
  <2>6. QED
    BY <1>2, <2>4, <2>5
<1> HIDE DEF r
<1>5. r \in SUBSET Nat /\ Times(r) \in SUBSET Nat
  BY <1>4, TimesMember DEF Poly
<1>6. Raised(p, n) = Raised(Times(r), n)
  BY <1>1, <1>4, <1>5, TimesRaised
<1>7. \A x \in Nat : x \in p <=> x \in Times(r)
  <2> SUFFICES ASSUME NEW x \in Nat
               PROVE  x \in p <=> x \in Times(r)
    OBVIOUS
  <2>1. x + n \in Nat /\ (x + n) - n = x
    OBVIOUS
  <2>2. (x + n \in Raised(p, n) <=> x \in p) /\ (x + n \in Raised(Times(r), n) <=> x \in Times(r))
    BY <1>2, <1>5, <2>1, RaisedMember
  <2>3. QED
    BY <1>6, <2>2
<1>8. p = Times(r)
  BY <1>2, <1>5, <1>7
<1>9. QED
  BY <1>4, <1>8 DEF Multiple

\* Generator has the degree 16: it divides nothing of a lower degree but 0.
LEMMA MultipleDegree ==
  ASSUME NEW p \in SUBSET (0..15), Multiple(p)
  PROVE  p = {}
<1>1. PICK q \in Poly : p = Times(q)
  BY DEF Multiple
<1>2. q \in SUBSET Nat
  BY DEF Poly
<1>3. q = {}
  <2> SUFFICES ASSUME q # {} PROVE FALSE
    OBVIOUS
  <2>1. PICK k \in q : \A j \in q : j <= k
    BY Extremes
  <2>2. /\ k + 16 \in Nat /\ k + 16 \notin q /\ (k + 16) - 13 \notin q
        /\ (k + 16) - 15 \notin q /\ (k + 16) - 16 \in q /\ k + 16 \notin 0..15
    BY <1>2, <2>1
  <2>3. k + 16 \in Times(q)
    BY <1>2, <2>2, TimesMember
  <2>4. QED
    BY <1>1, <2>2, <2>3
<1>4. \A x \in Nat : x \notin p
  BY <1>1, <1>2, <1>3, TimesMember
<1>5. QED
  BY <1>4

\* Arithmetic modulo Generator.
LEMMA RaisedSum ==
  ASSUME NEW p \in SUBSET Nat, NEW r \in SUBSET Nat, NEW n \in Nat
  PROVE  Raised(SymDiff(p, r), n) = SymDiff(Raised(p, n), Raised(r, n))
<1>1. SymDiff(p, r) \in SUBSET Nat
  BY DEF SymDiff
<1>2. /\ Raised(SymDiff(p, r), n) \in SUBSET Nat
      /\ Raised(p, n) \in SUBSET Nat /\ Raised(r, n) \in SUBSET Nat
  BY <1>1, RaisedMember
<1>3. \A x \in Nat :
        x \in Raised(SymDiff(p, r), n) <=> x \in SymDiff(Raised(p, n), Raised(r, n))
  BY <1>1, RaisedMember, SymDiffMember
<1>4. SymDiff(Raised(p, n), Raised(r, n)) \in SUBSET Nat
  BY <1>2 DEF SymDiff
<1>5. QED
  BY <1>2, <1>3, <1>4

LEMMA GeneratorMultiple ==
  /\ Generator \in SUBSET Nat /\ Multiple(Generator)
  /\ Multiple({})
<1>1. {0} \in Poly /\ {} \in Poly
  <2>1. {0} \subseteq 0..0 /\ {} \subseteq 0..0 /\ 0 \in Nat
    OBVIOUS
  <2>2. QED
    BY <2>1, PolyIntro
<1>2. Times({0}) = Generator
  <2>1. Raised({0}, 13) = {13} /\ Raised({0}, 15) = {15} /\ Raised({0}, 16) = {16}
    BY DEF Raised
  <2>2. QED
    BY <2>1 DEF Times, Generator, SymDiff
<1>3. Times({}) = {}
  BY DEF Times, Raised, SymDiff
<1>4. QED
  BY <1>1, <1>2, <1>3 DEF Multiple, Generator

LEMMA CongruentLaws ==
  ASSUME NEW p, NEW r, NEW s, NEW t
  PROVE  /\ Congruent(p, p)
         /\ Congruent(p, r) => Congruent(r, p)
         /\ Congruent(p, r) /\ Congruent(r, s) => Congruent(p, s)
         /\ Congruent(p, r) /\ Congruent(s, t) => Congruent(SymDiff(p, s), SymDiff(r, t))
<1>1. /\ SymDiff(p, p) = {} /\ SymDiff(p, r) = SymDiff(r, p)
      /\ SymDiff(SymDiff(p, r), SymDiff(r, s)) = SymDiff(p, s)
      /\ SymDiff(SymDiff(p, r), SymDiff(s, t)) = SymDiff(SymDiff(p, s), SymDiff(r, t))
  BY Zenon DEF SymDiff
<1>2. QED
  BY <1>1, GeneratorMultiple, MultipleSum DEF Congruent

LEMMA CongruentRaised ==
  ASSUME NEW p \in SUBSET Nat, NEW r \in SUBSET Nat, NEW n \in Nat, Congruent(p, r)
  PROVE  Congruent(Raised(p, n), Raised(r, n))
BY MultipleRaised, RaisedSum DEF Congruent

\* Over GF(2) a square has no mixed terms, so the square of a multiple is one.
Doubled(p) == {2 * k : k \in p}

LEMMA DoubledMember ==
  ASSUME NEW p \in SUBSET Nat
  PROVE  /\ Doubled(p) \in SUBSET Nat
         /\ \A x \in Int : x \in Doubled(p) <=> x % 2 = 0 /\ x \div 2 \in p
BY DEF Doubled

LEMMA DoubledSum ==
  ASSUME NEW p \in SUBSET Nat, NEW r \in SUBSET Nat
  PROVE  Doubled(SymDiff(p, r)) = SymDiff(Doubled(p), Doubled(r))
<1>1. SymDiff(p, r) \in SUBSET Nat
  BY DEF SymDiff
<1>2. \A x \in Int : x \in Doubled(SymDiff(p, r)) <=> x \in SymDiff(Doubled(p), Doubled(r))
  BY <1>1, DoubledMember, SymDiffMember
<1>3. /\ Doubled(SymDiff(p, r)) \in SUBSET Int
      /\ SymDiff(Doubled(p), Doubled(r)) \in SUBSET Int
  BY <1>1, DoubledMember DEF SymDiff
<1>4. QED
  BY <1>2, <1>3

LEMMA MultipleDoubled ==
  ASSUME NEW p, Multiple(p)
  PROVE  Multiple(Doubled(p))
<1>1. PICK q \in Poly : p = Times(q)
  BY DEF Multiple
<1> DEFINE d == Doubled(q)
           a == Times(d)
<1>2. q \in SUBSET Nat /\ d \in SUBSET Nat /\ a \in SUBSET Nat /\ p \in SUBSET Nat
  BY <1>1, DoubledMember, TimesMember DEF Poly
<1>3. a \in Poly
  <2>1. PICK n \in Nat : q \subseteq 0..n
    BY DEF Poly
  <2>2. d \subseteq 0..(2 * n) /\ 2 * n \in Nat
    BY <2>1 DEF Doubled
  <2>3. d \in Poly
    BY <2>2, PolyIntro
  <2>4. QED
    <3> HIDE DEF d
    <3>1. QED
      BY <2>3, PolyClosed DEF Times
<1>4. \A x \in Nat : x \in Times(a) <=> x \in Doubled(p)
  <2> SUFFICES ASSUME NEW x \in Nat PROVE x \in Times(a) <=> x \in Doubled(p)
    OBVIOUS
  <2>1. x \in Times(a) <=> ((x \in d <=> x - 26 \notin d)
                             <=> ~(x - 30 \in d <=> x - 32 \notin d))
    <3> HIDE DEF d
    <3>1. \A y \in Int : y \in a <=> ((y \in d <=> y - 13 \notin d)
                                        <=> ~(y - 15 \in d <=> y - 16 \notin d))
      BY <1>2, TimesMember
    <3> HIDE DEF a
    <3>2. x \in Times(a) <=> ((x \in a <=> x - 13 \notin a)
                             <=> ~(x - 15 \in a <=> x - 16 \notin a))
      BY <1>2, TimesMember
    <3>3. QED
      BY <3>1, <3>2
  <2>2. \A y \in Int : y \in d <=> y % 2 = 0 /\ y \div 2 \in q
    BY <1>2, DoubledMember
  <2>3. x \in Doubled(p) <=> x % 2 = 0 /\ x \div 2 \in p
    BY <1>2, DoubledMember
  <2> HIDE DEF d, a
  <2>4. CASE x % 2 = 0
    <3> DEFINE y == x \div 2
    <3>1. /\ y \in Nat /\ (x - 26) % 2 = 0 /\ (x - 26) \div 2 = y - 13
          /\ (x - 30) % 2 = 0 /\ (x - 30) \div 2 = y - 15
          /\ (x - 32) % 2 = 0 /\ (x - 32) \div 2 = y - 16
      BY <2>4
    <3>2. y \in p <=> ((y \in q <=> y - 13 \notin q) <=> ~(y - 15 \in q <=> y - 16 \notin q))
      BY <1>1, <1>2, <3>1, TimesMember
    <3> HIDE DEF y
    <3>3. /\ x \in d <=> y \in q
          /\ x - 26 \in d <=> y - 13 \in q
          /\ x - 30 \in d <=> y - 15 \in q
          /\ x - 32 \in d <=> y - 16 \in q
      BY <2>2, <2>4, <3>1 DEF y
    <3>4. QED
      BY <2>1, <2>3, <2>4, <3>2, <3>3 DEF y
  <2>5. CASE x % 2 # 0
    <3>1. (x - 26) % 2 # 0 /\ (x - 30) % 2 # 0 /\ (x - 32) % 2 # 0
      BY <2>5
    <3>2. QED
      BY <2>1, <2>2, <2>3, <2>5, <3>1
  <2>6. QED
    BY <2>4, <2>5
<1>5. Times(a) \in SUBSET Nat /\ Doubled(p) \in SUBSET Nat
  BY <1>2, TimesMember, DoubledMember
<1>6. Times(a) = Doubled(p)
  BY <1>4, <1>5
<1>7. QED
  BY <1>3, <1>6 DEF Multiple

LEMMA CongruentDoubled ==
  ASSUME NEW p \in SUBSET Nat, NEW r \in SUBSET Nat, Congruent(p, r)
  PROVE  Congruent(Doubled(p), Doubled(r))
BY DoubledSum, MultipleDoubled DEF Congruent

\* One step of a division, and all of them.
LEMMA ClearedRemains ==
  ASSUME NEW top \in 16..31, NEW p \in SUBSET (0..top)
  PROVE  Cleared(p, top) \in SUBSET (0..(top - 1)) /\ Congruent(p, Cleared(p, top))
<1> DEFINE g == Raised(Generator, top - 16)
<1>1. g = {top - 16, top - 3, top - 1, top}
  BY DEF Raised, Generator
<1>2. Multiple(g)
  BY GeneratorMultiple, MultipleRaised
<1> HIDE DEF g
<1>3. CASE top \in p
  <2>1. Cleared(p, top) = SymDiff(p, g)
    BY <1>3 DEF Cleared, g
  <2>2. SymDiff(p, SymDiff(p, g)) = g
    BY Zenon DEF SymDiff
  <2>3. SymDiff(p, g) \in SUBSET (0..(top - 1))
    BY <1>1, <1>3 DEF SymDiff
  <2>4. QED
    BY <1>2, <2>1, <2>2, <2>3 DEF Congruent
<1>4. CASE top \notin p
  <2>1. Cleared(p, top) = p /\ p \in SUBSET (0..(top - 1))
    BY <1>4 DEF Cleared
  <2>2. QED
    BY <2>1, CongruentLaws
<1>5. QED
  BY <1>3, <1>4

Stages(p, r) ==
  r = [k \in 0..16 |-> IF k = 0 THEN p ELSE Cleared(r[k - 1], 32 - k)]

LEMMA ReducedRemains ==
  ASSUME NEW p \in SUBSET (0..31)
  PROVE  Reduced(p) \in Word /\ Congruent(p, Reduced(p))
<1> DEFINE S == SUBSET Nat
           step == [k \in 1..16 |-> [w \in S |-> Cleared(w, 32 - k)]]
<1>1. \A w \in S, k \in 1..16 : Cleared(w, 32 - k) \in S
  <2> SUFFICES ASSUME NEW w \in S, NEW k \in 1..16
               PROVE  Cleared(w, 32 - k) \in S
    OBVIOUS
  <2> DEFINE g == Raised(Generator, (32 - k) - 16)
  <2>1. Generator \in SUBSET Nat /\ (32 - k) - 16 \in Nat
    BY DEF Generator
  <2>2. g \in SUBSET Nat
    BY <2>1, RaisedMember
  <2> HIDE DEF g
  <2>3. SymDiff(w, g) \in SUBSET Nat
    BY <2>2 DEF SymDiff
  <2>4. QED
    BY <2>3 DEF Cleared, g
<1>2. step \in Steps(16, S) /\ p \in S /\ 16 \in Nat
  BY <1>1 DEF Steps
<1>3. PICK r : Orbit(r, 16, S, p, step)
  <2> HIDE DEF step, S
  <2>1. QED
    BY <1>2, Iteration
<1>4. Stages(p, r)
  <2>1. \A k \in 1..16 : r[k - 1] \in S /\ r[k] = Cleared(r[k - 1], 32 - k)
    BY <1>3 DEF Orbit
  <2>2. QED
    BY <1>3, <2>1 DEF Stages, Orbit
<1> DEFINE chosen == CHOOSE f : Stages(p, f)
<1>5. Stages(p, chosen)
  BY <1>4
<1>6. Reduced(p) = chosen[16]
  BY DEF Reduced, Stages
<1> HIDE DEF chosen
<1> DEFINE T == {k \in 0..16 : /\ chosen[k] \in SUBSET (0..(31 - k))
                              /\ Congruent(p, chosen[k])}
<1>7. 0 \in T
  <2>1. chosen[0] = p /\ chosen[0] \in SUBSET (0..(31 - 0)) /\ Congruent(p, p)
    BY <1>5, CongruentLaws DEF Stages
  <2>2. 0 \in 0..16 /\ Congruent(p, chosen[0])
    BY <2>1
  <2>3. QED
    BY <2>1, <2>2, Zenon
<1>8. ASSUME NEW k \in 1..16, k - 1 \in T
      PROVE  k \in T
  <2> DEFINE top == 32 - k
  <2>1. top \in 16..31 /\ 31 - (k - 1) = top /\ 31 - k = top - 1
    OBVIOUS
  <2> HIDE DEF top
  <2>2. chosen[k] = Cleared(chosen[k - 1], top)
    BY <1>5 DEF Stages, top
  <2>3. chosen[k - 1] \in SUBSET (0..top) /\ Congruent(p, chosen[k - 1])
    BY <1>8, <2>1
  <2>4. chosen[k] \in SUBSET (0..(top - 1)) /\ Congruent(chosen[k - 1], chosen[k])
    BY <2>1, <2>2, <2>3, ClearedRemains
  <2>5. Congruent(p, chosen[k])
    BY <2>3, <2>4, CongruentLaws
  <2>6. QED
    BY <2>1, <2>4, <2>5
<1>9. \A k \in 0..16 : k \in T
  <2> HIDE DEF T
  <2>1. QED
    BY <1>2, <1>7, <1>8, IntervalInduction
<1>10. chosen[16] \in SUBSET (0..(31 - 16)) /\ 31 - 16 = 15 /\ Congruent(p, chosen[16])
  BY <1>9
<1>11. QED
  BY <1>6, <1>10 DEF Word

\* The recursion of Power: x^n by squaring x^(n \div 2).
Squared(w, n) == Reduced({2 * k + (n % 2) : k \in w})
Powers(f) ==
  f = [n \in Exponents |-> IF n = 0 THEN {0} ELSE Squared(f[n \div 2], n)]

LEMMA SquaredRemains ==
  ASSUME NEW n \in Nat, NEW w \in Word
  PROVE  /\ Squared(w, n) \in Word
         /\ Congruent({n \div 2}, w) => Congruent({n}, Squared(w, n))
<1> DEFINE b == n % 2
           p == Raised(Doubled(w), b)
<1>1. b \in {0, 1} /\ n = 2 * (n \div 2) + b /\ n \div 2 \in Nat
  OBVIOUS
<1>2. {2 * k + b : k \in w} = p /\ p \in SUBSET (0..31)
  <2> HIDE DEF b
  <2>1. \A k \in w : k \in 0..15 /\ 2 * k + b \in 0..31
    BY <1>1 DEF Word
  <2>2. {2 * k + b : k \in w} = {j + b : j \in {2 * k : k \in w}}
    BY Zenon
  <2>3. {2 * k + b : k \in w} = p
    BY <2>2 DEF Raised, Doubled
  <2>4. {2 * k + b : k \in w} \subseteq 0..31
    BY <2>1
  <2>5. QED
    BY <2>3, <2>4
<1>3. {n} = Raised(Doubled({n \div 2}), b)
  BY <1>1 DEF Raised, Doubled
<1>4. w \in SUBSET Nat /\ {n \div 2} \in SUBSET Nat /\ b \in Nat
  BY <1>1 DEF Word
<1> HIDE DEF b
<1>5. Reduced(p) \in Word /\ Congruent(p, Reduced(p)) /\ Squared(w, n) = Reduced(p)
  BY <1>2, ReducedRemains DEF Squared, b
<1>6. Congruent({n \div 2}, w) => Congruent({n}, p)
  <2>1. Doubled(w) \in SUBSET Nat /\ Doubled({n \div 2}) \in SUBSET Nat
    BY <1>4, DoubledMember
  <2>2. QED
    BY <1>3, <1>4, <2>1, CongruentDoubled, CongruentRaised
<1>7. QED
  BY <1>5, <1>6, CongruentLaws

LEMMA PowersExist == \E f : Powers(f)
<1> DEFINE N == 8 * kSlotBytes - 1
           Upto(m, f) == \A n \in 0..m :
                           f[n] = IF n = 0 THEN {0} ELSE Squared(f[n \div 2], n)
           T == {m \in 0..N : \E f \in [0..N -> Word] : Upto(m, f)}
<1>1. N \in Nat /\ Exponents = 0..N
  BY DEF Exponents, kSlotBytes
<1> HIDE DEF N
<1>2. 0 \in T
  <2> DEFINE f == [n \in 0..N |-> {0}]
  <2>1. f \in [0..N -> Word] /\ f[0] = {0}
    BY <1>1 DEF Word
  <2> HIDE DEF f
  <2>2. Upto(0, f)
    BY <2>1
  <2> HIDE DEF Upto
  <2>3. 0 \in 0..N /\ \E g \in [0..N -> Word] : Upto(0, g)
    BY <1>1, <2>1, <2>2
  <2>4. QED
    BY <2>3, Zenon
<1>3. ASSUME NEW m \in 1..N, m - 1 \in T
      PROVE  m \in T
  <2>1. PICK f \in [0..N -> Word] : Upto(m - 1, f)
    BY <1>3
  <2>2. m \div 2 \in 0..(m - 1) /\ m \in Nat /\ m \div 2 \in 0..N
    BY <1>1
  <2> DEFINE g == [f EXCEPT ![m] = Squared(f[m \div 2], m)]
  <2>3. Squared(f[m \div 2], m) \in Word
    BY <2>2, SquaredRemains
  <2>4. g \in [0..N -> Word]
    BY <2>3
  <2>5. (\A n \in 0..(m - 1) : g[n] = f[n]) /\ g[m] = Squared(f[m \div 2], m)
    BY <1>1
  <2> HIDE DEF g
  <2>6. ASSUME NEW n \in 0..m
        PROVE  g[n] = IF n = 0 THEN {0} ELSE Squared(g[n \div 2], n)
    <3>1. CASE n = m
      <4>1. g[n \div 2] = f[n \div 2] /\ n # 0
        BY <2>2, <2>5, <3>1
      <4>2. QED
        BY <2>5, <3>1, <4>1
    <3>2. CASE n \in 0..(m - 1)
      <4>1. n \div 2 \in 0..(m - 1)
        BY <3>2
      <4>2. QED
        BY <2>1, <2>5, <3>2, <4>1
    <3>3. QED
      BY <3>1, <3>2
  <2>7. Upto(m, g)
    BY <2>6
  <2> HIDE DEF Upto
  <2>8. m \in 0..N /\ \E h \in [0..N -> Word] : Upto(m, h)
    BY <1>1, <2>4, <2>7
  <2>9. QED
    BY <2>8, Zenon
<1>4. N \in T
  <2> HIDE DEF T
  <2>1. QED
    BY <1>1, <1>2, <1>3, IntervalInduction
<1>5. PICK f \in [0..N -> Word] : Upto(N, f)
  BY <1>4
<1>6. f = [n \in 0..N |-> f[n]]
  OBVIOUS
<1>7. Powers(f)
  BY <1>1, <1>5, <1>6 DEF Powers
<1>8. QED
  BY <1>7

\* What the powers of x leave.
LEMMA PowerRemains ==
  ASSUME NEW n \in Exponents
  PROVE  Power[n] \in Word /\ Congruent({n}, Power[n])
<1> DEFINE f == CHOOSE g : Powers(g)
           N == 8 * kSlotBytes - 1
           Good(i) == f[i] \in Word /\ Congruent({i}, f[i])
           T == {m \in 0..N : \A i \in 0..m : Good(i)}
<1>1. N \in Nat /\ Exponents = 0..N
  BY DEF Exponents, kSlotBytes
<1>2. Powers(f)
  BY PowersExist
<1>3. Power = [i \in Exponents |-> f[i]]
  BY DEF Power, Powers, Squared
<1> HIDE DEF f, N
<1>4. \A i \in 0..N : f[i] = IF i = 0 THEN {0} ELSE Squared(f[i \div 2], i)
  BY <1>1, <1>2, Zenon DEF Powers
<1>5. Good(0)
  <2>1. f[0] = {0} /\ {0} \in Word
    BY <1>1, <1>4 DEF Word
  <2>2. QED
    BY <2>1, CongruentLaws
<1>6. 0 \in T
  BY <1>1, <1>5
<1>7. ASSUME NEW m \in 1..N, m - 1 \in T
      PROVE  m \in T
  <2>1. m \div 2 \in 0..(m - 1) /\ m \in Nat
    BY <1>1
  <2>2. Good(m \div 2)
    BY <1>7, <2>1
  <2>3. f[m] = Squared(f[m \div 2], m)
    BY <1>1, <1>4
  <2>4. Good(m)
    BY <2>1, <2>2, <2>3, SquaredRemains
  <2>5. \A i \in 0..m : i = m \/ i \in 0..(m - 1)
    BY <1>1
  <2>6. \A i \in 0..(m - 1) : Good(i)
    BY <1>7
  <2> HIDE DEF Good
  <2>7. m \in 0..N /\ \A i \in 0..m : Good(i)
    BY <1>1, <2>4, <2>5, <2>6
  <2>8. QED
    BY <2>7, Zenon
<1>8. N \in T
  <2> HIDE DEF T
  <2>1. QED
    BY <1>1, <1>6, <1>7, IntervalInduction
<1>9. QED
  BY <1>1, <1>3, <1>8

\* The partial sums of Remainder, in the order that CHOOSE gives.
PartialSums(p, sum) ==
  sum = [s \in SUBSET p |->
           IF s = {} THEN {}
           ELSE SymDiff(Power[CHOOSE n \in s : TRUE], sum[s \ {CHOOSE n \in s : TRUE}])]

LEMMA PartialSumsExist ==
  ASSUME NEW p \in SUBSET Exponents, IsFiniteSet(p)
  PROVE  \E sum : PartialSums(p, sum)
<1> DEFINE P == SUBSET p
           first(s) == CHOOSE n \in s : TRUE
           size(s) == Cardinality(s)
           N == size(p)
           Sums == [P -> Word]
           Right(sum, s) == sum[s] = IF s = {} THEN {}
                                     ELSE SymDiff(Power[first(s)], sum[s \ {first(s)}])
           Upto(m, sum) == \A s \in P : size(s) <= m => Right(sum, s)
           T == {m \in 0..N : \E sum \in Sums : Upto(m, sum)}
<1>1. ASSUME NEW s \in P
      PROVE  /\ size(s) \in Nat /\ size(s) <= N
             /\ size(s) = 0 <=> s = {}
             /\ s # {} => first(s) \in s /\ size(s \ {first(s)}) = size(s) - 1
  <2>1. IsFiniteSet(s) /\ size(s) <= N /\ size(s) \in Nat /\ N \in Nat
    BY FS_Subset, FS_CardinalityType
  <2>2. s # {} => first(s) \in s
    OBVIOUS
  <2>3. size(s) = 0 <=> s = {}
    BY <2>1, FS_EmptySet
  <2> HIDE DEF first
  <2>4. s # {} => size(s \ {first(s)}) = size(s) - 1
    BY <2>1, <2>2, FS_RemoveElement
  <2>5. QED
    BY <2>1, <2>2, <2>3, <2>4
<1> HIDE DEF size
<1>2. \A s \in P : size(s) \in Nat /\ size(s) <= N /\ (size(s) = 0 <=> s = {})
  BY <1>1
<1>3. \A s \in P : s # {} => first(s) \in s
  BY <1>1
<1>4. \A s \in P : s # {} => Power[first(s)] \in Word
  BY <1>3, PowerRemains
<1>5. N \in Nat
  BY FS_CardinalityType DEF size
<1>6. {} \in P /\ \A s \in P : s \ {first(s)} \in P
  OBVIOUS
<1> HIDE DEF first, N, P, size
<1>7. 0 \in T
  <2> DEFINE g == [s \in P |-> {}]
  <2>1. g \in Sums /\ \A s \in P : g[s] = {}
    BY DEF Word
  <2> HIDE DEF g
  <2>2. \A s \in P : size(s) <= 0 => s = {}
    <3> SUFFICES ASSUME NEW s \in P, size(s) <= 0 PROVE s = {}
      OBVIOUS
    <3>1. size(s) \in Nat
      BY <1>2
    <3>2. QED
      BY <1>2, <3>1
  <2>3. Upto(0, g)
    BY <2>1, <2>2
  <2> HIDE DEF Upto
  <2>4. 0 \in 0..N /\ \E sum \in Sums : Upto(0, sum)
    BY <1>5, <2>1, <2>3
  <2>5. QED
    BY <2>4, Zenon
<1>8. ASSUME NEW m \in 1..N, m - 1 \in T
      PROVE  m \in T
  <2>1. PICK f \in Sums : Upto(m - 1, f)
    BY <1>8
  <2> DEFINE value(s) == SymDiff(Power[first(s)], f[s \ {first(s)}])
             g == [s \in P |-> IF size(s) < m THEN f[s] ELSE value(s)]
  <2>2. \A s \in P : s # {} => value(s) \in Word
    <3>1. \A s \in P : f[s] \in Word /\ s \ {first(s)} \in P
      BY <1>6
    <3>2. QED
      BY <1>4, <3>1 DEF Word, SymDiff
  <2>3. \A s \in P : ~(size(s) < m) => s # {}
    <3> SUFFICES ASSUME NEW s \in P, s = {} PROVE size(s) < m
      OBVIOUS
    <3>1. size(s) = 0 /\ 0 < m
      BY <1>2, <1>5
    <3>2. QED
      BY <3>1
  <2>4. g \in Sums
    <3> HIDE DEF value
    <3>1. QED
      BY <2>2, <2>3
  <2>5. \A s \in P : g[s] = IF size(s) < m THEN f[s] ELSE value(s)
    OBVIOUS
  <2> HIDE DEF g
  <2>6. ASSUME NEW s \in P, size(s) <= m
        PROVE  Right(g, s)
    <3>1. CASE s = {}
      <4>1. size(s) < m /\ size(s) <= m - 1
        BY <1>2, <3>1
      <4>2. g[s] = f[s] /\ f[s] = {}
        BY <2>1, <2>5, <3>1, <4>1
      <4>3. QED
        BY <3>1, <4>2
    <3>2. CASE s # {}
      <4>1. s \ {first(s)} \in P /\ size(s \ {first(s)}) < m
        <5>1. size(s \ {first(s)}) = size(s) - 1 /\ size(s) \in Nat /\ m \in Int
          BY <1>1, <1>5, <3>2
        <5>2. QED
          BY <1>6, <2>6, <5>1
      <4>2. g[s \ {first(s)}] = f[s \ {first(s)}]
        BY <2>5, <4>1
      <4>3. g[s] = value(s)
        <5>1. CASE size(s) < m
          <6>1. size(s) <= m - 1
            <7>1. size(s) \in Nat /\ m \in Int
              BY <1>2, <1>5
            <7>2. QED
              BY <5>1, <7>1
          <6>2. f[s] = value(s)
            BY <2>1, <3>2, <6>1
          <6>3. QED
            BY <2>5, <5>1, <6>2
        <5>2. CASE ~(size(s) < m)
          BY <2>5, <5>2
        <5>3. QED
          BY <5>1, <5>2
      <4>4. QED
        BY <3>2, <4>2, <4>3
    <3>3. QED
      BY <3>1, <3>2
  <2>7. Upto(m, g)
    BY <2>6
  <2> HIDE DEF Upto
  <2>8. m \in 0..N /\ \E sum \in Sums : Upto(m, sum)
    BY <1>5, <2>4, <2>7
  <2>9. QED
    BY <2>8, Zenon
<1>9. N \in T
  <2> HIDE DEF T
  <2>1. QED
    BY <1>5, <1>7, <1>8, IntervalInduction
<1>10. PICK f \in Sums : Upto(N, f)
  BY <1>9
<1>11. \A s \in P : Right(f, s)
  <2> HIDE DEF Right
  <2>1. QED
    BY <1>2, <1>10
<1>12. f = [s \in P |-> f[s]]
  OBVIOUS
<1>13. PartialSums(p, f)
  BY <1>11, <1>12 DEF PartialSums, first, P
<1>14. QED
  BY <1>13

\* The remainder of any polynomial that the exponents of a slot make up.
LEMMA RemainderRemains ==
  ASSUME NEW p \in SUBSET Exponents
  PROVE  Remainder(p) \in Word /\ Congruent(p, Remainder(p))
<1> DEFINE first(s) == CHOOSE n \in s : TRUE
           sum == CHOOSE f : PartialSums(p, f)
           Good(s) == sum[s] \in Word /\ Congruent(s, sum[s])
           F == {s \in SUBSET p : ~Good(s)}
<1>1. IsFiniteSet(p)
  <2>1. p \in SUBSET SlotBits
    BY DEF Exponents, SlotBits
  <2>2. QED
    BY <2>1, SlotBitsFinite
<1>2. PartialSums(p, sum)
  BY <1>1, PartialSumsExist
<1>3. Remainder(p) = sum[p]
  BY DEF Remainder, FoldSet, MapThenFoldSet, PartialSums
<1>4. \A s : s # {} => first(s) \in s
  OBVIOUS
<1> HIDE DEF sum
<1>5. \A s \in SUBSET p : sum[s] = IF s = {} THEN {}
                                 ELSE SymDiff(Power[first(s)], sum[s \ {first(s)}])
  BY <1>2, Zenon DEF PartialSums
<1> HIDE DEF first
<1>6. F = {}
  <2> SUFFICES ASSUME F # {} PROVE FALSE
    OBVIOUS
  <2>1. PICK s \in F : \A t \in F : t \subseteq s => t = s
    <3>1. F \subseteq SUBSET p
      OBVIOUS
    <3> HIDE DEF F
    <3>2. QED
      BY <1>1, <3>1, MinimalSubset
  <2>2. s \in SUBSET p /\ ~Good(s)
    OBVIOUS
  <2>3. s # {}
    <3>1. sum[{}] = {}
      BY <1>5
    <3>2. Good({})
      BY <3>1, CongruentLaws DEF Word
    <3>3. QED
      BY <2>2, <3>2
  <2> DEFINE x == first(s)
  <2>4. x \in s /\ sum[s] = SymDiff(Power[x], sum[s \ {x}])
    BY <1>4, <1>5, <2>2, <2>3
  <2> HIDE DEF x
  <2>5. Good(s \ {x})
    <3>1. s \ {x} \in SUBSET p /\ s \ {x} # s
      BY <2>2, <2>4
    <3>2. QED
      BY <2>1, <3>1
  <2>6. Power[x] \in Word /\ Congruent({x}, Power[x])
    BY <2>2, <2>4, PowerRemains
  <2>7. s = SymDiff({x}, s \ {x})
    BY <2>4 DEF SymDiff
  <2>8. Congruent(SymDiff({x}, s \ {x}), SymDiff(Power[x], sum[s \ {x}]))
    BY <2>5, <2>6, CongruentLaws
  <2>9. sum[s] \in Word
    BY <2>4, <2>5, <2>6 DEF Word, SymDiff
  <2>10. Congruent(s, sum[s])
    BY <2>4, <2>7, <2>8
  <2>11. QED
    BY <2>2, <2>9, <2>10
<1>7. QED
  BY <1>3, <1>6

\* A remainder is unique: congruent words are equal.
LEMMA UniqueRemainder ==
  ASSUME NEW v \in Word, NEW w \in Word, Congruent(v, w)
  PROVE  v = w
<1>1. SymDiff(v, w) \in SUBSET (0..15)
  BY DEF Word, SymDiff
<1>2. SymDiff(v, w) = {}
  BY <1>1, MultipleDegree DEF Congruent
<1>3. QED
  BY <1>2, SymDiffLaws

\* Reflection only renames the bits of a word.
LEMMA ReflectedLaws ==
  ASSUME NEW v \in Word, NEW w \in Word
  PROVE  /\ Reflected(v) \in Word /\ Reflected(v) \in SUBSET Nat
         /\ \A k \in Int : k \in Reflected(v) <=> 15 - k \in v
         /\ Reflected(Reflected(v)) = v
         /\ Reflected(SymDiff(v, w)) = SymDiff(Reflected(v), Reflected(w))
<1>1. \A u \in Word : /\ Reflected(u) \in Word
                      /\ \A k \in Int : k \in Reflected(u) <=> 15 - k \in u
  BY DEF Reflected, Word
<1>2. Reflected(Reflected(v)) = v
  <2>1. \A k \in Int : 15 - k \in Int /\ 15 - (15 - k) = k
    OBVIOUS
  <2>2. \A k \in Int : k \in Reflected(Reflected(v)) <=> k \in v
    BY <1>1, <2>1
  <2>3. Reflected(Reflected(v)) \in SUBSET Int /\ v \in SUBSET Int
    BY <1>1 DEF Word
  <2>4. QED
    BY <2>2, <2>3
<1>3. Reflected(SymDiff(v, w)) = SymDiff(Reflected(v), Reflected(w))
  <2>1. SymDiff(v, w) \in Word /\ SymDiff(Reflected(v), Reflected(w)) \in Word
    BY <1>1 DEF Word, SymDiff
  <2>2. \A k \in Int : k \in Reflected(SymDiff(v, w))
                         <=> k \in SymDiff(Reflected(v), Reflected(w))
    BY <1>1, <2>1, SymDiffMember
  <2>3. Reflected(SymDiff(v, w)) \in SUBSET Int
        /\ SymDiff(Reflected(v), Reflected(w)) \in SUBSET Int
    BY <1>1, <2>1 DEF Word
  <2>4. QED
    BY <2>2, <2>3
<1>4. Reflected(v) \in SUBSET Nat
  BY <1>1 DEF Word
<1>5. QED
  BY <1>1, <1>2, <1>3, <1>4

LEMMA RaisedTwice ==
  ASSUME NEW p \in SUBSET Nat, NEW m \in Nat, NEW n \in Nat
  PROVE  Raised(Raised(p, m), n) = Raised(p, m + n)
<1>1. Raised(p, m) \in SUBSET Nat /\ m + n \in Nat
  BY RaisedMember
<1>2. \A x \in Nat : x \in Raised(Raised(p, m), n) <=> x \in Raised(p, m + n)
  <2>1. \A x \in Nat : x \in Raised(Raised(p, m), n) <=> (x - n) - m \in p
    BY <1>1, RaisedMember
  <2>2. \A x \in Nat : x \in Raised(p, m + n) <=> x - (m + n) \in p
    BY <1>1, RaisedMember
  <2>3. QED
    BY <2>1, <2>2
<1>3. Raised(Raised(p, m), n) \in SUBSET Nat /\ Raised(p, m + n) \in SUBSET Nat
  BY <1>1, RaisedMember
<1>4. QED
  BY <1>2, <1>3

\* Bits that are shifted out of the low end are raised past the top of a word.
LEMMA ShiftRightRaises ==
  ASSUME NEW w \in Word, NEW n \in 0..15, \A k \in w : k >= n
  PROVE  Reflected(ShiftRight(w, n)) = Raised(Reflected(w), n)
<1>1. ShiftRight(w, n) \in Word
  BY ShiftRightLinear
<1>2. \A k \in Nat : k \in Reflected(ShiftRight(w, n)) <=> k \in Raised(Reflected(w), n)
  <2> SUFFICES ASSUME NEW k \in Nat
               PROVE  k \in Reflected(ShiftRight(w, n)) <=> k \in Raised(Reflected(w), n)
    OBVIOUS
  <2>1. w \in SUBSET Int /\ n \in Nat
    BY DEF Word
  <2>2. k \in Reflected(ShiftRight(w, n)) <=> 15 - k \in Nat /\ (15 - k) + n \in w
    BY <1>1, <2>1, ReflectedLaws, ShiftRightMember
  <2>3. k \in Raised(Reflected(w), n) <=> 15 - (k - n) \in w
    <3>1. Reflected(w) \in SUBSET Nat /\ k - n \in Int
      BY ReflectedLaws
    <3>2. k \in Raised(Reflected(w), n) <=> k - n \in Reflected(w)
      BY <2>1, <3>1, RaisedMember
    <3>3. QED
      BY <3>1, <3>2, ReflectedLaws
  <2>4. 15 - (k - n) = (15 - k) + n
    OBVIOUS
  <2>5. (15 - k) + n \in w => 15 - k \in Nat
    OBVIOUS
  <2>6. QED
    BY <2>2, <2>3, <2>4, <2>5
<1>3. Reflected(ShiftRight(w, n)) \in SUBSET Nat /\ Raised(Reflected(w), n) \in SUBSET Nat
  <2>1. /\ Reflected(ShiftRight(w, n)) \in SUBSET Nat /\ Reflected(w) \in SUBSET Nat
        /\ n \in Nat
    BY <1>1, ReflectedLaws
  <2>2. QED
    BY <2>1, RaisedMember
<1>4. QED
  BY <1>2, <1>3

\* One shift of the register multiplies it by x, modulo Generator.
LEMMA ShiftedRemains ==
  ASSUME NEW w \in Word
  PROVE  Congruent(Raised(Reflected(w), 1), Reflected(Shifted(w)))
<1> DEFINE rest == w \ {0}
<1>1. /\ rest \in Word /\ kFeedback \in Word /\ {0} \in Word
      /\ ShiftRight(rest, 1) \in Word /\ ShiftRight(rest, 1) = ShiftRight(w, 1)
  <2>1. rest \in Word /\ kFeedback \in Word /\ {0} \in Word /\ 1 \in Nat
    BY DEF Word, kFeedback
  <2>2. ShiftRight(rest, 1) = ShiftRight(w, 1)
    BY DEF ShiftRight, Word
  <2>3. QED
    BY <2>1, <2>2, ShiftRightLinear
<1>2. Reflected(ShiftRight(w, 1)) = Raised(Reflected(rest), 1)
  <2>1. \A k \in rest : k >= 1
    BY DEF Word
  <2> HIDE DEF rest
  <2>2. QED
    BY <1>1, <2>1, ShiftRightRaises
<1>3. CASE 0 \notin w
  <2>1. rest = w /\ Shifted(w) = ShiftRight(w, 1)
    BY <1>3 DEF Shifted
  <2>2. QED
    BY <1>2, <2>1, CongruentLaws
<1>4. CASE 0 \in w
  <2>1. w = SymDiff(rest, {0}) /\ Shifted(w) = SymDiff(ShiftRight(w, 1), kFeedback)
    BY <1>4 DEF SymDiff, Shifted
  <2> HIDE DEF rest
  <2>2. Reflected(w) = SymDiff(Reflected(rest), {15})
    <3>1. Reflected({0}) = {15}
      BY DEF Reflected
    <3>2. Reflected(SymDiff(rest, {0})) = SymDiff(Reflected(rest), Reflected({0}))
      BY <1>1, ReflectedLaws
    <3>3. QED
      BY <2>1, <3>1, <3>2, Zenon
  <2>3. Raised(Reflected(w), 1) = SymDiff(Raised(Reflected(rest), 1), {16})
    <3>1. Raised({15}, 1) = {16} /\ {15} \in SUBSET Nat /\ 1 \in Nat
      BY DEF Raised
    <3>2. Reflected(rest) \in SUBSET Nat
      BY <1>1, ReflectedLaws
    <3>3. Raised(SymDiff(Reflected(rest), {15}), 1)
            = SymDiff(Raised(Reflected(rest), 1), Raised({15}, 1))
      BY <3>1, <3>2, RaisedSum
    <3>4. QED
      BY <2>2, <3>1, <3>3, Zenon
  <2>4. Reflected(Shifted(w)) = SymDiff(Raised(Reflected(rest), 1), {0, 13, 15})
    <3>1. Reflected(kFeedback) = {0, 13, 15}
      BY DEF Reflected, kFeedback
    <3>2. Reflected(SymDiff(ShiftRight(w, 1), kFeedback))
            = SymDiff(Reflected(ShiftRight(w, 1)), Reflected(kFeedback))
      BY <1>1, ReflectedLaws
    <3>3. QED
      BY <1>2, <2>1, <3>1, <3>2, Zenon
  <2>5. SymDiff(Raised(Reflected(w), 1), Reflected(Shifted(w))) = Generator
    <3>1. SymDiff({16}, {0, 13, 15}) = Generator
      BY DEF SymDiff, Generator
    <3>2. QED
      BY <2>3, <2>4, <3>1, SymDiffLaws
  <2>6. QED
    BY <2>5, GeneratorMultiple DEF Congruent
<1>5. QED
  BY <1>3, <1>4

\* An entry of the table is its index times x^8, modulo Generator.
LEMMA EntryRemains ==
  ASSUME NEW idx \in Byte
  PROVE  Congruent(Raised(Reflected(idx), 8), Reflected(GenerateCrcEntry(idx)))
<1>1. PICK crc \in [0..8 -> Word] : Rounds(idx, crc) /\ GenerateCrcEntry(idx) = crc[8]
  BY RoundsExist
<1> DEFINE Good(i) == Congruent(Raised(Reflected(idx), i), Reflected(crc[i]))
           T == {i \in 0..8 : Good(i)}
<1>2. idx \in Word /\ Reflected(idx) \in SUBSET Nat
  <2>1. idx \in Word
    BY DEF Byte, Word
  <2>2. QED
    BY <2>1, ReflectedLaws
<1>3. Good(0)
  <2>1. crc[0] = idx
    BY <1>1 DEF Rounds
  <2>2. Raised(Reflected(idx), 0) = Reflected(idx)
    <3>1. \A k \in Reflected(idx) : k + 0 = k
      BY <1>2
    <3>2. QED
      BY <3>1 DEF Raised
  <2>3. QED
    BY <2>1, <2>2, CongruentLaws
<1>4. ASSUME NEW i \in 1..8, Good(i - 1)
      PROVE  Good(i)
  <2> DEFINE p == Raised(Reflected(idx), i - 1)
             r == Reflected(crc[i - 1])
  <2>1. crc[i - 1] \in Word /\ crc[i] = Shifted(crc[i - 1]) /\ i - 1 \in Nat /\ 1 \in Nat
    BY <1>1 DEF Rounds
  <2>2. Congruent(p, r)
    BY <1>4
  <2>3. p \in SUBSET Nat /\ r \in SUBSET Nat
    <3>1. r \in SUBSET Nat
      BY <2>1, ReflectedLaws
    <3>2. p \in SUBSET Nat
      BY <1>2, <2>1, RaisedMember
    <3>3. QED
      BY <3>1, <3>2
  <2>4. Raised(p, 1) = Raised(Reflected(idx), i)
    <3>1. (i - 1) + 1 = i
      OBVIOUS
    <3>2. QED
      BY <1>2, <2>1, <3>1, RaisedTwice
  <2>5. Congruent(Raised(r, 1), Reflected(crc[i]))
    BY <2>1, ShiftedRemains
  <2> HIDE DEF p, r
  <2>6. Congruent(Raised(p, 1), Raised(r, 1))
    BY <2>1, <2>2, <2>3, CongruentRaised
  <2>7. QED
    BY <2>4, <2>5, <2>6, CongruentLaws
<1> HIDE DEF Good
<1>5. \A i \in 0..8 : i \in T
  <2>1. 0 \in T /\ 8 \in Nat
    BY <1>3
  <2>2. \A i \in 1..8 : i - 1 \in T => i \in T
    BY <1>4
  <2> HIDE DEF T
  <2>3. QED
    BY <2>1, <2>2, IntervalInduction
<1>6. QED
  BY <1>1, <1>5 DEF Good

\* One byte of the loop adds the byte to the register and multiplies by x^8.
LEMMA NextCrcRemains ==
  ASSUME NEW c \in Word, NEW x \in Byte
  PROVE  Congruent(Raised(Reflected(SymDiff(c, x)), 8), Reflected(NextCrc(c, x)))
<1> DEFINE low == c \cap (0..7)
           high == c \ (0..7)
           i == SymDiff(low, x)
<1>1. i \in Byte /\ i \in Word /\ high \in Word /\ 8 \in 0..15 /\ 8 \in Nat
  BY DEF Byte, Word, SymDiff
<1>2. SymDiff(c, x) = SymDiff(high, i)
  BY Zenon DEF SymDiff
<1>3. \A k \in high : k >= 8
  BY DEF Word
<1>4. ShiftRight(c, 8) = ShiftRight(high, 8)
  BY DEF ShiftRight, Word
<1>5. NextCrc(c, x) = SymDiff(ShiftRight(high, 8), GenerateCrcEntry(i))
  BY <1>1, <1>4 DEF NextCrc, kCrcTable
<1> HIDE DEF low, high, i
<1>6. Reflected(ShiftRight(high, 8)) = Raised(Reflected(high), 8)
  BY <1>1, <1>3, ShiftRightRaises
<1>7. Congruent(Raised(Reflected(i), 8), Reflected(GenerateCrcEntry(i)))
  BY <1>1, EntryRemains
<1>8. ShiftRight(high, 8) \in Word /\ GenerateCrcEntry(i) \in Word
  BY <1>1, ShiftRightLinear, EntryLinear
<1>9. Reflected(NextCrc(c, x))
        = SymDiff(Raised(Reflected(high), 8), Reflected(GenerateCrcEntry(i)))
  BY <1>5, <1>6, <1>8, ReflectedLaws
<1>10. Raised(Reflected(SymDiff(c, x)), 8)
         = SymDiff(Raised(Reflected(high), 8), Raised(Reflected(i), 8))
  <2>1. Reflected(high) \in SUBSET Nat /\ Reflected(i) \in SUBSET Nat
    BY <1>1, ReflectedLaws
  <2>2. Reflected(SymDiff(high, i)) = SymDiff(Reflected(high), Reflected(i))
    BY <1>1, ReflectedLaws
  <2>3. QED
    BY <1>1, <1>2, <2>1, <2>2, RaisedSum
<1>11. QED
  BY <1>7, <1>9, <1>10, CongruentLaws

\* The first i bytes of a message, as a polynomial times x^16.
Message(data, i) ==
  UNION {{16 + 8 * (i - j) + 7 - bit : bit \in data[j]} : j \in 1..i}

LEMMA MessageMember ==
  ASSUME NEW n \in Nat, NEW data \in [1..n -> Byte], NEW i \in 0..n
  PROVE  /\ Message(data, i) \in SUBSET (16..(8 * i + 15))
         /\ \A x \in Int : x \in Message(data, i) <=>
              \E j \in 1..i : 23 + 8 * (i - j) - x \in data[j]
<1>1. \A j \in 1..i : data[j] \in SUBSET (0..7)
  BY DEF Byte
<1>2. \A j \in 1..i, bit \in 0..7 : 16 + 8 * (i - j) + 7 - bit \in 16..(8 * i + 15)
  OBVIOUS
<1>3. Message(data, i) \in SUBSET (16..(8 * i + 15))
  BY <1>1, <1>2 DEF Message
<1>4. ASSUME NEW x \in Int
      PROVE  x \in Message(data, i) <=> \E j \in 1..i : 23 + 8 * (i - j) - x \in data[j]
  <2>1. ASSUME NEW j \in 1..i
        PROVE  x \in {16 + 8 * (i - j) + 7 - bit : bit \in data[j]}
                 <=> 23 + 8 * (i - j) - x \in data[j]
    <3>1. \A bit \in 0..7 : x = 16 + 8 * (i - j) + 7 - bit <=> bit = 23 + 8 * (i - j) - x
      OBVIOUS
    <3>2. QED
      BY <1>1, <3>1
  <2>2. x \in Message(data, i)
          <=> \E j \in 1..i : x \in {16 + 8 * (i - j) + 7 - bit : bit \in data[j]}
    BY Zenon DEF Message
  <2>3. QED
    BY <2>1, <2>2
<1>5. QED
  BY <1>3, <1>4

LEMMA MessageExtends ==
  ASSUME NEW n \in Nat, NEW data \in [1..n -> Byte], NEW i \in 1..n
  PROVE  Message(data, i) = Raised(SymDiff(Message(data, i - 1), Reflected(data[i])), 8)
<1> DEFINE m == Message(data, i - 1)
           r == Reflected(data[i])
<1>1. data[i] \in Word /\ data[i] \in SUBSET (0..7)
  BY DEF Byte, Word
<1>2. r \in SUBSET (8..15) /\ \A x \in Int : x \in r <=> 15 - x \in data[i]
  BY <1>1 DEF Reflected
<1>3. /\ m \in SUBSET (16..(8 * (i - 1) + 15))
      /\ \A x \in Int : x \in m <=> \E j \in 1..(i - 1) : 23 + 8 * (i - 1 - j) - x \in data[j]
  <2>1. i - 1 \in 0..n
    OBVIOUS
  <2>2. QED
    BY <2>1, MessageMember
<1>4. /\ Message(data, i) \in SUBSET Nat
      /\ \A x \in Int : x \in Message(data, i)
                         <=> \E j \in 1..i : 23 + 8 * (i - j) - x \in data[j]
  <2>1. i \in 0..n /\ 16..(8 * i + 15) \in SUBSET Nat
    OBVIOUS
  <2>2. /\ Message(data, i) \in SUBSET (16..(8 * i + 15))
        /\ \A x \in Int : x \in Message(data, i)
                           <=> \E j \in 1..i : 23 + 8 * (i - j) - x \in data[j]
    BY <2>1, MessageMember
  <2>3. QED
    BY <2>1, <2>2
<1> HIDE DEF m, r
<1>5. SymDiff(m, r) \in SUBSET Nat /\ \A x \in Int : x \in SymDiff(m, r) <=> x \in m \/ x \in r
  <2> DEFINE low == 8..15
             high == 16..(8 * (i - 1) + 15)
  <2>1. \A x : ~(x \in high /\ x \in low)
    OBVIOUS
  <2>2. high \in SUBSET Nat /\ low \in SUBSET Nat
    OBVIOUS
  <2>3. m \in SUBSET high /\ r \in SUBSET low
    BY <1>2, <1>3
  <2> HIDE DEF low, high
  <2>4. \A x : ~(x \in m /\ x \in r)
    BY <2>1, <2>3
  <2>5. m \in SUBSET Nat /\ r \in SUBSET Nat
    BY <2>2, <2>3
  <2>6. QED
    BY <2>4, <2>5 DEF SymDiff
<1>6. \A x \in Nat : x \in Message(data, i) <=> x \in Raised(SymDiff(m, r), 8)
  <2> SUFFICES ASSUME NEW x \in Nat
               PROVE  x \in Message(data, i) <=> x \in Raised(SymDiff(m, r), 8)
    OBVIOUS
  <2>1. x \in Raised(SymDiff(m, r), 8) <=> x - 8 \in m \/ x - 8 \in r
    BY <1>5, RaisedMember
  <2>2. x - 8 \in r <=> 23 + 8 * (i - i) - x \in data[i]
    <3>1. 15 - (x - 8) = 23 + 8 * (i - i) - x
      OBVIOUS
    <3>2. QED
      BY <1>2, <3>1
  <2>3. x - 8 \in m <=> \E j \in 1..(i - 1) : 23 + 8 * (i - j) - x \in data[j]
    <3>1. \A j \in 1..(i - 1) : 23 + 8 * (i - 1 - j) - (x - 8) = 23 + 8 * (i - j) - x
      OBVIOUS
    <3>2. QED
      BY <1>3, <3>1
  <2>4. x \in Message(data, i) <=> \E j \in 1..i : 23 + 8 * (i - j) - x \in data[j]
    BY <1>4
  <2>5. \A j : j \in 1..i <=> j \in 1..(i - 1) \/ j = i
    OBVIOUS
  <2>6. QED
    BY <2>1, <2>2, <2>3, <2>4, <2>5
<1>7. Raised(SymDiff(m, r), 8) \in SUBSET Nat
  BY <1>5, RaisedMember
<1>8. QED
  BY <1>4, <1>6, <1>7 DEF m, r

\* ComputeE2eCrc() divides: for a message of any length, what the table and the
\* byte-wise loop leave in the register is the message, times x^16, modulo
\* Generator.
THEOREM CrcDivides ==
  ASSUME NEW n \in Nat, NEW data \in [1..n -> Byte]
  PROVE  /\ ComputeE2eCrc(data) \in Word
         /\ Congruent(Polynomial(data), Reflected(ComputeE2eCrc(data)))
<1>1. Len(data) = n /\ DOMAIN data = 1..n
  OBVIOUS
<1>2. PICK crc : Registers(n, data, crc) /\ ComputeE2eCrc(data) = crc[n]
  BY <1>1, CrcRun
<1> DEFINE Good(i) == Congruent(Message(data, i), Reflected(crc[i]))
           T == {i \in 0..n : Good(i)}
<1>3. Good(0)
  <2>1. Message(data, 0) = {} /\ Reflected({}) = {} /\ crc[0] = {}
    BY <1>2 DEF Message, Reflected, Registers
  <2>2. QED
    BY <2>1, CongruentLaws
<1>4. ASSUME NEW i \in 1..n, Good(i - 1)
      PROVE  Good(i)
  <2> DEFINE m == Message(data, i - 1)
             c == crc[i - 1]
             x == data[i]
  <2>1. c \in Word /\ x \in Byte /\ x \in Word /\ crc[i] = NextCrc(c, x)
    <3>1. x \in Byte
      OBVIOUS
    <3>2. QED
      BY <1>2, <3>1 DEF Registers, Byte, Word
  <2>2. m \in SUBSET Nat
    <3>1. i - 1 \in 0..n
      OBVIOUS
    <3>2. QED
      BY <3>1, MessageMember
  <2>3. Message(data, i) = Raised(SymDiff(m, Reflected(x)), 8)
    BY MessageExtends
  <2>4. Congruent(m, Reflected(c))
    BY <1>4
  <2> HIDE DEF m, c, x
  <2>5. Reflected(c) \in SUBSET Nat /\ Reflected(x) \in SUBSET Nat
    BY <2>1, ReflectedLaws
  <2>6. Reflected(SymDiff(c, x)) = SymDiff(Reflected(c), Reflected(x))
    BY <2>1, ReflectedLaws
  <2>7. Congruent(SymDiff(m, Reflected(x)), Reflected(SymDiff(c, x)))
    BY <2>4, <2>6, CongruentLaws
  <2>8. /\ SymDiff(m, Reflected(x)) \in SUBSET Nat
        /\ Reflected(SymDiff(c, x)) \in SUBSET Nat
    BY <2>2, <2>5, <2>6 DEF SymDiff
  <2>9. Congruent(Message(data, i), Raised(Reflected(SymDiff(c, x)), 8))
    BY <2>3, <2>7, <2>8, CongruentRaised
  <2>10. Congruent(Raised(Reflected(SymDiff(c, x)), 8), Reflected(crc[i]))
    BY <2>1, NextCrcRemains
  <2>11. QED
    BY <2>9, <2>10, CongruentLaws
<1> HIDE DEF Good
<1>5. \A i \in 0..n : i \in T
  <2>1. 0 \in T
    BY <1>3
  <2>2. \A i \in 1..n : i - 1 \in T => i \in T
    BY <1>4
  <2> HIDE DEF T
  <2>3. QED
    BY <2>1, <2>2, IntervalInduction
<1>6. Good(n)
  BY <1>5
<1>7. Polynomial(data) = Message(data, n)
  BY <1>1 DEF Polynomial, Message
<1>8. crc[n] \in Word
  BY <1>2 DEF Registers
<1>9. QED
  BY <1>2, <1>6, <1>7, <1>8 DEF Good

\* So the CRC of a message that fits in a slot is its remainder.
THEOREM CrcIsRemainder ==
  ASSUME NEW n \in 0..kProtectedLen, NEW data \in [1..n -> Byte]
  PROVE  IsRemainder(ComputeE2eCrc(data), data)
<1> DEFINE p == Polynomial(data)
           crc == ComputeE2eCrc(data)
<1>1. n \in Nat /\ n <= 146 /\ Len(data) = n /\ DOMAIN data = 1..n
  BY DEF kProtectedLen, kSlotBytes, kCrcOffset
<1>2. crc \in Word /\ Congruent(p, Reflected(crc))
  BY <1>1, CrcDivides
<1>3. p \in SUBSET Exponents
  <2>1. p = Message(data, n)
    BY <1>1 DEF Polynomial, Message
  <2>2. Message(data, n) \in SUBSET (16..(8 * n + 15))
    <3>1. n \in 0..n
      BY <1>1
    <3>2. QED
      BY <1>1, <3>1, MessageMember
  <2>3. 16..(8 * n + 15) \subseteq Exponents
    BY <1>1 DEF Exponents, kSlotBytes
  <2>4. QED
    BY <2>1, <2>2, <2>3
<1> HIDE DEF p, crc
<1>4. Remainder(p) \in Word /\ Congruent(p, Remainder(p))
  BY <1>3, RemainderRemains
<1>5. Reflected(crc) \in Word /\ Reflected(Reflected(crc)) = crc
  BY <1>2, ReflectedLaws
<1>6. Congruent(Reflected(crc), Remainder(p))
  BY <1>2, <1>4, CongruentLaws
<1>7. Reflected(crc) = Remainder(p)
  BY <1>4, <1>5, <1>6, UniqueRemainder
<1>8. QED
  BY <1>5, <1>7 DEF IsRemainder, crc, p

\* A slot of zeros in which one bit of one byte flips: the bytes that the CRC
\* protects, and its field.
Flipped(p, b, bit, data, field) ==
  /\ p = 8 * b + bit
  /\ Syndrome[p] = SymDiff(ComputeE2eCrc(data), field)
  /\ \A i \in 1..146 : data[i] = IF i + 1 = b THEN {bit} ELSE {}
  /\ field = IF b = 0 THEN {bit} ELSE IF b = 1 THEN {8 + bit} ELSE {}

LEMMA FlippedSlot ==
  ASSUME NEW p \in SlotBits
  PROVE  \E b \in 0..147, bit \in 0..7, data \in [1..146 -> Byte], field \in Word :
           Flipped(p, b, bit, data, field)
<1> DEFINE b == p \div 8
           bit == p % 8
           slot == FlipPattern({p})
<1>1. b \in 0..147 /\ bit \in 0..7 /\ p = 8 * b + bit
  BY DEF SlotBits, kSlotBytes
<1> HIDE DEF b, bit
<1>2. kProtectedLen = 146 /\ kSlotBytes = 148 /\ kCrcOffset = 2
  BY DEF kProtectedLen, kSlotBytes, kCrcOffset
<1>3. \A k \in 1..148 : slot[k] = IF k = b + 1 THEN {bit} ELSE {}
  <2> SUFFICES ASSUME NEW k \in 1..148
               PROVE  slot[k] = IF k = b + 1 THEN {bit} ELSE {}
    OBVIOUS
  <2>1. slot[k] = SymDiff({}, FlippedBits({p}, k))
    BY <1>2 DEF FlipPattern, Damaged, ZeroBytes, FlippedBits
  <2>2. FlippedBits({p}, k) = IF k = b + 1 THEN {bit} ELSE {}
    BY <1>1 DEF FlippedBits, b, bit
  <2>3. SymDiff({}, FlippedBits({p}, k)) = FlippedBits({p}, k)
    BY SymDiffLaws
  <2>4. QED
    BY <2>1, <2>2, <2>3
<1>4. Syndrome[p] = SymDiff(ComputeE2eCrc(Protected(slot)), CrcField(slot))
  BY DEF Syndrome, CrcDifference, FlipPattern, ZeroBytes
<1> HIDE DEF slot
<1>5. \A i \in 1..146 : Protected(slot)[i] = IF i + 1 = b THEN {bit} ELSE {}
  BY <1>1, <1>2, <1>3 DEF Protected
<1>6. Protected(slot) \in [1..146 -> Byte]
  <2>1. \A i \in 1..146 : Protected(slot)[i] \in Byte
    BY <1>1, <1>5 DEF Byte
  <2>2. QED
    BY <1>2, <2>1 DEF Protected
<1>7. CrcField(slot) = IF b = 0 THEN {bit} ELSE IF b = 1 THEN {8 + bit} ELSE {}
  <2>1. slot[1] = (IF b = 0 THEN {bit} ELSE {}) /\ slot[2] = (IF b = 1 THEN {bit} ELSE {})
    BY <1>1, <1>3
  <2>2. CrcField(slot) = slot[1] \cup {8 + k : k \in slot[2]}
    BY DEF CrcField
  <2>3. CASE b = 1
    <3>1. {8 + k : k \in {bit}} = {8 + bit}
      OBVIOUS
    <3>2. b # 0
      BY <2>3
    <3>5. slot[1] = {} /\ slot[2] = {bit}
      BY <2>1, <2>3, <3>2, Zenon
    <3>3. CrcField(slot) = {8 + bit}
      BY <2>2, <3>1, <3>5
    <3>4. QED
      BY <2>3, <3>2, <3>3
  <2>4. CASE b # 1
    BY <2>1, <2>2, <2>4
  <2>5. QED
    BY <2>3, <2>4
<1>8. Flipped(p, b, bit, Protected(slot), CrcField(slot))
  BY <1>1, <1>4, <1>5, <1>7, Zenon DEF Flipped
<1>9. CrcField(slot) \in Word
  BY <1>1, <1>7 DEF Word
<1>10. QED
  BY <1>1, <1>6, <1>8, <1>9, Zenon

\* What one flipped bit adds is x to its exponent, modulo Generator.
LEMMA SyndromeRemains ==
  ASSUME NEW p \in SlotBits
  PROVE  /\ Exponent(p) \in Exponents
         /\ Syndrome[p] \in Word
         /\ Congruent({Exponent(p)}, Reflected(Syndrome[p]))
<1>1. PICK b \in 0..147, bit \in 0..7, data \in [1..146 -> Byte], field \in Word :
        Flipped(p, b, bit, data, field)
  BY FlippedSlot, Zenon
<1> DEFINE crc == ComputeE2eCrc(data)
           poly == Polynomial(data)
<1> USE DEF Flipped
<1>8. Syndrome[p] = SymDiff(crc, field)
  BY <1>1
<1>2. crc \in Word /\ Congruent(poly, Reflected(crc))
  <2>1. 146 \in Nat
    OBVIOUS
  <2>2. QED
    BY <1>1, <2>1, CrcDivides
<1> HIDE DEF crc
<1>3. Exponent(p) = IF b < 2 THEN 15 - p ELSE 1199 - p
  BY <1>1 DEF Exponent, CrcBits, kSlotBytes, kCrcOffset
<1>4. /\ poly \in SUBSET Int
      /\ \A x \in Int : x \in poly <=> \E k \in 1..146 : 23 + 8 * (146 - k) - x \in data[k]
  <2> DEFINE n == 146
  <2>1. Len(data) = n /\ DOMAIN data = 1..n /\ n \in Nat /\ n \in 0..n
    BY <1>1
  <2>2. poly = Message(data, n)
    BY <2>1 DEF Polynomial, Message
  <2>3. data \in [1..n -> Byte]
    BY <1>1
  <2> HIDE DEF n
  <2>4. /\ Message(data, n) \in SUBSET (16..(8 * n + 15))
        /\ \A x \in Int : x \in Message(data, n)
                           <=> \E k \in 1..n : 23 + 8 * (n - k) - x \in data[k]
    BY <2>1, <2>3, MessageMember
  <2>5. 16..(8 * n + 15) \in SUBSET Int
    OBVIOUS
  <2>6. poly \in SUBSET Int
    BY <2>2, <2>4, <2>5
  <2>7. QED
    BY <2>2, <2>4, <2>6 DEF n
<1> HIDE DEF poly
<1>5. CASE b < 2
  <2>1. \A x \in Int : x \notin poly
    <3>1. \A i \in 1..146 : data[i] = {}
      BY <1>1, <1>5
    <3> SUFFICES ASSUME NEW x \in Int, x \in poly PROVE FALSE
      OBVIOUS
    <3>2. PICK k \in 1..146 : 23 + 8 * (146 - k) - x \in data[k]
      BY <1>4
    <3>3. QED
      BY <3>1, <3>2
  <2>2. poly = {}
    <3>1. poly \in SUBSET Int
      BY <1>4
    <3>2. QED
      BY <2>1, <3>1
  <2>3. crc = {}
    <3>1. {} \in Word /\ Reflected({}) = {} /\ Reflected(crc) \in Word
      BY <1>2, ReflectedLaws DEF Word, Reflected
    <3>2. Reflected(crc) = {}
      BY <1>2, <2>2, <3>1, UniqueRemainder
    <3>3. Reflected(Reflected(crc)) = crc
      BY <1>2, ReflectedLaws
    <3>4. QED
      BY <3>1, <3>2, <3>3
  <2>4. field = {p} /\ p \in 0..15
    BY <1>1, <1>5
  <2>5. Syndrome[p] = {p}
    <3>1. Syndrome[p] = SymDiff({}, {p})
      BY <1>8, <2>3, <2>4
    <3>2. QED
      BY <3>1, SymDiffLaws
  <2>6. {p} \in Word /\ Reflected({p}) = {15 - p} /\ Exponent(p) = 15 - p
    BY <1>3, <1>5, <2>4 DEF Word, Reflected
  <2>7. Exponent(p) \in Exponents
    BY <2>4, <2>6 DEF Exponents, kSlotBytes
  <2>8. QED
    <3>1. Congruent({15 - p}, {15 - p})
      BY CongruentLaws
    <3>2. QED
      BY <2>5, <2>6, <2>7, <3>1, Zenon
<1>6. CASE b >= 2
  <2>1. field = {}
    BY <1>1, <1>6
  <2>2. Syndrome[p] = crc
    <3>1. Syndrome[p] = SymDiff(crc, {})
      BY <1>8, <2>1
    <3>2. QED
      BY <3>1, SymDiffLaws
  <2>3. Exponent(p) = 1199 - p /\ 1199 - p \in 16..1183
    BY <1>1, <1>3, <1>6
  <2>4. poly = {1199 - p}
    <3>1. ASSUME NEW x \in Int
          PROVE  x \in poly <=> x = 1199 - p
      <4> DEFINE at(k) == 23 + 8 * (146 - k) - x
                 k0 == b - 1
      <4>1. k0 \in 1..146 /\ data[k0] = {bit} /\ \A k \in 1..146 : k # k0 => data[k] = {}
        BY <1>1, <1>6
      <4>2. x \in poly <=> \E k \in 1..146 : at(k) \in data[k]
        BY <1>4
      <4>3. at(k0) = bit <=> x = 1199 - p
        BY <1>1
      <4> HIDE DEF at, k0
      <4>4. x \in poly <=> at(k0) \in data[k0]
        BY <4>1, <4>2
      <4>5. QED
        BY <4>1, <4>3, <4>4
    <3> DEFINE e == 1199 - p
    <3>2. e \in Int
      BY <2>3
    <3>3. \A x \in Int : x \in poly <=> x = e
      BY <3>1
    <3> HIDE DEF e
    <3>4. poly \in SUBSET Int
      BY <1>4
    <3>5. poly = {e}
      BY <3>2, <3>3, <3>4
    <3>6. QED
      BY <3>5 DEF e
  <2>5. Exponent(p) \in Exponents
    BY <2>3 DEF Exponents, kSlotBytes
  <2>6. QED
    BY <1>2, <2>2, <2>3, <2>4, <2>5
<1>7. QED
  BY <1>1, <1>5, <1>6

\* Flipped bits as a polynomial, what they make of a slot's message and CRC.
ErrorPolynomial(flips) == {Exponent(p) : p \in flips}

LEMMA ExponentInjective ==
  ASSUME NEW p \in SlotBits, NEW q \in SlotBits, Exponent(p) = Exponent(q)
  PROVE  p = q
<1>1. ASSUME NEW k \in SlotBits
      PROVE  /\ k \in 0..1183
             /\ Exponent(k) = IF k <= 15 THEN 15 - k ELSE 1199 - k
  BY DEF Exponent, SlotBits, CrcBits, kSlotBytes, kCrcOffset
<1> DEFINE e(k) == IF k <= 15 THEN 15 - k ELSE 1199 - k
<1>2. p \in 0..1183 /\ q \in 0..1183
  BY <1>1
<1>3. Exponent(p) = e(p) /\ Exponent(q) = e(q)
  BY <1>1
<1>4. e(p) = e(q)
  <2> HIDE DEF e
  <2>1. QED
    BY <1>3
<1>5. QED
  BY <1>2, <1>4

LEMMA AddedRemains ==
  ASSUME NEW flips \in SUBSET SlotBits
  PROVE  /\ ErrorPolynomial(flips) \in SUBSET Exponents
         /\ Added(flips) \in Word
         /\ Congruent(ErrorPolynomial(flips), Reflected(Added(flips)))
<1> DEFINE Good(s) == Added(s) \in Word /\ Congruent(ErrorPolynomial(s), Reflected(Added(s)))
           F == {s \in SUBSET flips : ~Good(s)}
<1>1. F = {}
  <2> SUFFICES ASSUME F # {} PROVE FALSE
    OBVIOUS
  <2>1. PICK s \in F : \A t \in F : t \subseteq s => t = s
    <3>1. IsFiniteSet(flips) /\ F \subseteq SUBSET flips
      BY SlotBitsFinite
    <3> HIDE DEF F
    <3>2. QED
      BY <3>1, MinimalSubset
  <2>2. s \in SUBSET SlotBits /\ ~Good(s)
    OBVIOUS
  <2>3. s # {}
    <3>1. Added({}) = {} /\ ErrorPolynomial({}) = {} /\ Reflected({}) = {}
      BY AddedSplit DEF ErrorPolynomial, Reflected
    <3>2. Good({})
      BY <3>1, CongruentLaws DEF Word
    <3>3. QED
      BY <2>2, <3>2
  <2>4. PICK x \in s : TRUE
    BY <2>3
  <2> DEFINE rest == s \ {x}
  <2>5. Good(rest)
    <3>1. rest \in SUBSET flips /\ rest # s
      OBVIOUS
    <3>2. QED
      BY <2>1, <3>1
  <2>6. Added(s) = SymDiff(Syndrome[x], Added(rest))
    BY <2>2, AddedSplit
  <2>7. x \in SlotBits /\ Syndrome[x] \in Word /\ Congruent({Exponent(x)}, Reflected(Syndrome[x]))
    BY <2>2, SyndromeRemains
  <2>8. ErrorPolynomial(s) = SymDiff({Exponent(x)}, ErrorPolynomial(rest))
    <3>1. \A y \in rest : Exponent(y) # Exponent(x)
      BY <2>2, <2>7, ExponentInjective
    <3>2. \A e : e \in ErrorPolynomial(s) <=> e = Exponent(x) \/ e \in ErrorPolynomial(rest)
      BY DEF ErrorPolynomial
    <3>3. Exponent(x) \notin ErrorPolynomial(rest)
      BY <3>1 DEF ErrorPolynomial
    <3>4. QED
      BY <3>2, <3>3 DEF SymDiff
  <2> HIDE DEF rest
  <2>9. Added(s) \in Word
    BY <2>5, <2>6, <2>7 DEF Word, SymDiff
  <2>10. Reflected(Added(s)) = SymDiff(Reflected(Syndrome[x]), Reflected(Added(rest)))
    BY <2>5, <2>6, <2>7, ReflectedLaws
  <2>11. Congruent(ErrorPolynomial(s), Reflected(Added(s)))
    BY <2>5, <2>7, <2>8, <2>10, CongruentLaws
  <2>12. QED
    BY <2>2, <2>9, <2>11
<1>2. ErrorPolynomial(flips) \in SUBSET Exponents
  BY SyndromeRemains DEF ErrorPolynomial
<1>3. Good(flips)
  BY <1>1
<1>4. QED
  BY <1>2, <1>3

LEMMA ExponentsPoly ==
  ASSUME NEW p \in SUBSET Exponents
  PROVE  p \in Poly /\ p \in SUBSET Nat
<1>1. 8 * kSlotBytes - 1 \in Nat /\ p \subseteq 0..(8 * kSlotBytes - 1)
  BY DEF Exponents, kSlotBytes
<1>2. QED
  BY <1>1, PolyIntro DEF Poly

\* VerifyE2e() and damage: flipped bits go undetected if and only if Generator
\* divides the polynomial that they make up.
THEOREM UndetectedIsMultiple ==
  ASSUME NEW flips \in SUBSET SlotBits
  PROVE  Undetected(flips) <=> Multiple(ErrorPolynomial(flips))
<1> DEFINE e == ErrorPolynomial(flips)
           a == Added(flips)
<1>1. a \in Word /\ Congruent(e, Reflected(a)) /\ (Undetected(flips) <=> a = {})
  BY AddedRemains, ResidueIsAdded DEF Undetected
<1> HIDE DEF e, a
<1>2. SymDiff(e, {}) = e /\ Reflected({}) = {} /\ {} \in Word
  BY SymDiffLaws DEF Reflected, Word
<1>3. ASSUME a = {} PROVE Multiple(e)
  BY <1>1, <1>2, <1>3 DEF Congruent
<1>4. ASSUME Multiple(e) PROVE a = {}
  <2>1. Congruent(e, {})
    BY <1>2, <1>4 DEF Congruent
  <2>2. Congruent(Reflected(a), {})
    BY <1>1, <2>1, CongruentLaws
  <2>3. Reflected(a) \in Word /\ Reflected(Reflected(a)) = a
    BY <1>1, ReflectedLaws
  <2>4. Reflected(a) = {}
    BY <1>2, <2>2, <2>3, UniqueRemainder
  <2>5. QED
    BY <1>2, <2>3, <2>4
<1>5. QED
  BY <1>1, <1>3, <1>4 DEF e

-----------------------------------------------------------------------------
(***************************************************************************)
(* Which damage is detected: an odd number of flips, two flips, a burst.   *)
(***************************************************************************)

\* Parity.
Odd(S) == Cardinality(S) % 2 = 1

\* The parity of an exclusive or.
LEMMA OddSymDiff ==
  ASSUME NEW A, NEW B, IsFiniteSet(A), IsFiniteSet(B)
  PROVE  Odd(SymDiff(A, B)) <=> (Odd(A) <=> ~Odd(B))
<1> DEFINE a == Cardinality(A)
           b == Cardinality(B)
           c == Cardinality(A \cap B)
<1>1. a \in Nat /\ b \in Nat /\ c \in Nat /\ c <= a /\ c <= b
  BY FS_CardinalityType, FS_Intersection
<1>2. IsFiniteSet(A \ B) /\ IsFiniteSet(B \ A) /\ Cardinality({}) = 0
  BY FS_Difference, FS_EmptySet
<1>3. Cardinality(A \ B) = a - c
  BY FS_Difference
<1>4. Cardinality(B \ A) = b - c
  <2>1. Cardinality(B \ A) = b - Cardinality(B \cap A) /\ B \cap A = A \cap B
    BY FS_Difference
  <2>2. QED
    BY <2>1
<1>5. Cardinality(SymDiff(A, B)) = (a - c) + (b - c)
  <2>1. (A \ B) \cap (B \ A) = {}
    OBVIOUS
  <2>2. Cardinality(SymDiff(A, B)) = Cardinality(A \ B) + Cardinality(B \ A)
                                       - Cardinality((A \ B) \cap (B \ A))
    BY <1>2, FS_Union DEF SymDiff
  <2>3. QED
    BY <1>1, <1>2, <1>3, <1>4, <2>1, <2>2
<1> HIDE DEF a, b, c
<1>6. ((a - c) + (b - c)) % 2 = 1 <=> (a % 2 = 1 <=> ~ (b % 2 = 1))
  BY <1>1
<1>7. QED
  BY <1>5, <1>6 DEF Odd, a, b

\* Words are finite.
LEMMA WordFinite ==
  ASSUME NEW w \in Word
  PROVE  IsFiniteSet(w)
<1>1. 0 \in Int /\ 15 \in Int
  OBVIOUS
<1>2. IsFiniteSet(0..15)
  BY <1>1, FS_Interval
<1>3. QED
  BY <1>2, FS_Subset DEF Word

\* A one-to-one image of a set.
LEMMA OddImage ==
  ASSUME NEW S, NEW T, IsFiniteSet(S), NEW f \in Bijection(S, T)
  PROVE  IsFiniteSet(T) /\ (Odd(T) <=> Odd(S))
<1>1. IsFiniteSet(T) /\ Cardinality(T) = Cardinality(S)
  BY FS_Bijection DEF ExistsBijection
<1>2. QED
  BY <1>1 DEF Odd

\* What Generator divides has an even number of terms: it has four itself.
LEMMA MultipleEven ==
  ASSUME NEW p, Multiple(p)
  PROVE  IsFiniteSet(p) /\ ~Odd(p)
<1>1. PICK q \in Poly : p = Times(q)
  BY DEF Multiple
<1>2. PICK n \in Nat : q \subseteq 0..n
  BY DEF Poly
<1>3. IsFiniteSet(q) /\ q \in SUBSET Nat
  <2>1. 0 \in Int /\ n \in Int
    OBVIOUS
  <2>2. IsFiniteSet(0..n) /\ q \in SUBSET (0..n)
    BY <1>2, <2>1, FS_Interval
  <2>3. IsFiniteSet(q)
    BY <2>2, FS_Subset
  <2>4. QED
    BY <2>3 DEF Poly
<1>4. ASSUME NEW k \in Nat
      PROVE  IsFiniteSet(Raised(q, k)) /\ (Odd(Raised(q, k)) <=> Odd(q))
  <2> DEFINE move == [j \in q |-> j + k]
  <2>1. move \in Bijection(q, Raised(q, k))
    BY <1>3 DEF Bijection, Injection, Surjection, IsInjective, Raised
  <2> HIDE DEF move
  <2>2. QED
    BY <1>3, <2>1, OddImage
<1>5. ASSUME NEW A, NEW B, IsFiniteSet(A), IsFiniteSet(B)
      PROVE  IsFiniteSet(SymDiff(A, B)) /\ (Odd(SymDiff(A, B)) <=> (Odd(A) <=> ~Odd(B)))
  <2>1. IsFiniteSet(A \ B) /\ IsFiniteSet(B \ A)
    BY <1>5, FS_Difference
  <2>2. IsFiniteSet(SymDiff(A, B))
    BY <2>1, FS_Union DEF SymDiff
  <2>3. QED
    BY <1>5, <2>2, OddSymDiff
<1>6. 13 \in Nat /\ 15 \in Nat /\ 16 \in Nat
  OBVIOUS
<1>7. /\ IsFiniteSet(SymDiff(q, Raised(q, 13))) /\ ~Odd(SymDiff(q, Raised(q, 13)))
      /\ IsFiniteSet(SymDiff(Raised(q, 15), Raised(q, 16)))
      /\ ~Odd(SymDiff(Raised(q, 15), Raised(q, 16)))
  BY <1>3, <1>4, <1>5, <1>6
<1>8. QED
  BY <1>1, <1>5, <1>7 DEF Times

\* The parity of what flips add is that of their number.
LEMMA OddAdded ==
  ASSUME NEW flips \in SUBSET SlotBits
  PROVE  IsFiniteSet(Added(flips)) /\ (Odd(Added(flips)) <=> Odd(flips))
<1> DEFINE e == ErrorPolynomial(flips)
           a == Added(flips)
           r == Reflected(a)
<1>1. a \in Word /\ Congruent(e, r)
  BY AddedRemains
<1>2. IsFiniteSet(flips) /\ IsFiniteSet(a)
  BY <1>1, SlotBitsFinite, WordFinite
<1>3. IsFiniteSet(e) /\ (Odd(e) <=> Odd(flips))
  <2> DEFINE term == [p \in flips |-> Exponent(p)]
  <2>1. \A p, q \in flips : Exponent(p) = Exponent(q) => p = q
    BY ExponentInjective
  <2>2. term \in Bijection(flips, e)
    BY <2>1 DEF Bijection, Injection, Surjection, IsInjective, ErrorPolynomial
  <2> HIDE DEF term, e
  <2>3. QED
    BY <1>2, <2>2, OddImage
<1>4. IsFiniteSet(r) /\ (Odd(r) <=> Odd(a))
  <2> DEFINE mirror == [k \in a |-> 15 - k]
  <2>1. a \in SUBSET (0..15)
    BY <1>1 DEF Word
  <2> HIDE DEF a
  <2>2. mirror \in Bijection(a, r)
    BY <2>1 DEF Bijection, Injection, Surjection, IsInjective, Reflected
  <2> HIDE DEF mirror, r
  <2>3. QED
    BY <1>2, <2>2, OddImage
<1> HIDE DEF e, a, r
<1>5. ~Odd(SymDiff(e, r))
  BY <1>1, MultipleEven DEF Congruent
<1>6. Odd(e) <=> Odd(r)
  BY <1>3, <1>4, <1>5, OddSymDiff
<1>7. QED
  BY <1>2, <1>3, <1>4, <1>6 DEF a

\* The empty set.
LEMMA OddSmall == ~Odd({})
<1>1. Cardinality({}) = 0 /\ 0 % 2 = 0
  BY FS_EmptySet
<1>2. QED
  BY <1>1 DEF Odd

\* VerifyE2e() and damage: a slot in which one bit has flipped, or any odd number
\* of bits, never passes for intact.  This is so although the polynomial is not
\* the one of CRC-16/ARC: 0x8005 shifted to the right is still divisible by x + 1.
THEOREM OddDamageDetected ==
  ASSUME NEW slot \in RawSlot, CrcMatches(slot),
         NEW flips \in SUBSET SlotBits, Cardinality(flips) % 2 = 1
  PROVE  ~CrcMatches(Damaged(slot, flips))
<1>1. Odd(Residue(flips))
  BY OddAdded, ResidueIsAdded DEF Odd
<1>2. ~Undetected(flips)
  BY <1>1, OddSmall DEF Undetected
<1>3. QED
  BY <1>2, DamageAdds

\* v is the square of w times x^b, less the product of q and Generator.
Squares(w, b, v, q) ==
  /\ w \in Word /\ v \in Word /\ q \in Word
  /\ \A x \in 0..31 :
       ((x - b) % 2 = 0 /\ (x - b) \div 2 \in w <=> x \notin v)
         <=> ((x \in q <=> x - 13 \notin q) <=> ~(x - 15 \in q <=> x - 16 \notin q))

\* What x^n leaves, and x^(2 * n + b).
Leaves(n, w) == Congruent({n}, w)

LEMMA Squaring ==
  ASSUME NEW n \in Nat, NEW b \in {0, 1}, NEW w, NEW v, NEW q,
         Leaves(n, w), Squares(w, b, v, q),
         NEW m \in Nat, m = 2 * n + b
  PROVE  Leaves(m, v)
<1> DEFINE d == Raised(Doubled(w), b)
<1>1. w \in SUBSET (0..15) /\ v \in SUBSET (0..15) /\ q \in SUBSET (0..15)
  BY DEF Squares, Word
<1>2. Doubled(w) \in SUBSET Nat /\ b \in Nat /\ d \in SUBSET (0..31)
  BY <1>1 DEF Doubled, Raised
<1>3. \A x \in Int : x \in d <=> (x - b) % 2 = 0 /\ (x - b) \div 2 \in w
  <2>1. w \in SUBSET Nat /\ \A x \in Int : x - b \in Int
    BY <1>1, <1>2
  <2>2. \A x \in Int : x \in d <=> x - b \in Doubled(w)
    BY <1>2, RaisedMember
  <2>3. QED
    BY <2>1, <2>2, DoubledMember
<1> HIDE DEF d
<1>4. SymDiff(d, v) = Times(q)
  <2>1. q \in SUBSET Nat /\ Times(q) \in SUBSET Nat
    BY <1>1, TimesMember
  <2>2. \A x \in 0..31 : x \in SymDiff(d, v) <=> x \in Times(q)
    <3> SUFFICES ASSUME NEW x \in 0..31
                 PROVE  x \in SymDiff(d, v) <=> x \in Times(q)
      OBVIOUS
    <3>1. x \in SymDiff(d, v) <=> ((x - b) % 2 = 0 /\ (x - b) \div 2 \in w <=> x \notin v)
      BY <1>3, SymDiffMember
    <3>2. x \in Times(q)
            <=> ((x \in q <=> x - 13 \notin q) <=> ~(x - 15 \in q <=> x - 16 \notin q))
      BY <2>1, TimesMember
    <3>3. QED
      BY <3>1, <3>2 DEF Squares
  <2>3. SymDiff(d, v) \in SUBSET (0..31)
    BY <1>1, <1>2 DEF SymDiff
  <2>4. \A x \in Nat : x \in Times(q) => x \in 0..31
    <3> SUFFICES ASSUME NEW x \in Nat, x > 31 PROVE x \notin Times(q)
      BY <2>1
    <3>1. x \notin q /\ x - 13 \notin q /\ x - 15 \notin q /\ x - 16 \notin q
      BY <1>1
    <3>2. QED
      BY <2>1, <3>1, TimesMember
  <2>5. QED
    BY <2>1, <2>2, <2>3, <2>4
<1>5. Multiple(Times(q))
  <2>1. q \in Poly
    <3>1. 15 \in Nat /\ q \subseteq 0..15
      BY <1>1
    <3>2. QED
      BY <3>1, PolyIntro
  <2>2. QED
    BY <2>1 DEF Multiple
<1>6. Congruent(d, v)
  BY <1>4, <1>5 DEF Congruent
<1>7. Congruent({m}, d)
  <2>1. {m} = Raised(Doubled({n}), b)
    BY DEF Raised, Doubled
  <2>2. {n} \in SUBSET Nat /\ w \in SUBSET Nat
    BY <1>1
  <2>3. Doubled({n}) \in SUBSET Nat /\ Congruent(Doubled({n}), Doubled(w))
    BY <2>2, DoubledMember, CongruentDoubled DEF Leaves
  <2>4. QED
    BY <1>2, <2>1, <2>3, CongruentRaised DEF d
<1>8. QED
  BY <1>6, <1>7, CongruentLaws DEF Leaves

\* Powers of x: neither x^186 nor x^762 is 1, but x^23622 is.
LEMMA SomePowers ==
  /\ ~Leaves(186, {0})
  /\ ~Leaves(762, {0})
  /\ Leaves(23622, {0})
<1> DEFINE w11 == {11}
           w23 == {0, 3, 5, 6, 7, 13, 15}
           q23 == {0, 3, 5, 6, 7}
           w46 == {1, 2, 5, 6, 7, 8, 9, 10, 14}
           q46 == {0, 1, 2, 5, 7, 8, 9, 12, 13, 14}
           w93 == {0, 1, 3, 5, 6, 9, 12, 13, 14}
           q93 == {0, 1, 6, 9, 11, 12, 13}
           w186 == {0, 2, 5, 6, 7, 8, 9, 10, 11}
           q186 == {5, 7, 8, 9, 11, 12}
           w47 == {2, 3, 6, 7, 8, 9, 10, 11, 15}
           q47 == {1, 2, 3, 6, 8, 9, 10, 13, 14, 15}
           w95 == {0, 2, 3, 5, 7, 8, 11, 13, 14}
           q95 == {0, 2, 3, 8, 11, 13, 14, 15}
           w190 == {4, 6, 9, 10, 11, 12, 13, 14, 15}
           q190 == {0, 9, 11, 12}
           w381 == {6, 10, 11, 12, 13, 14, 15}
           q381 == {6, 9, 10, 11, 12, 14, 15}
           w762 == {0, 1, 2, 5, 8, 9, 10, 11, 12}
           q762 == {0, 1, 2, 5, 8, 9, 10, 11, 13, 14}
           w1524 == {0, 3, 5, 7, 8, 10, 15}
           q1524 == {2, 3, 4, 5, 7, 8}
           w3048 == {2, 4, 5, 7, 12}
           q3048 == {0, 2, 4, 5, 6, 7, 10, 12, 13, 14}
           w6096 == {0, 1, 6, 7, 10, 13, 15}
           q6096 == {0, 1, 4, 6, 7, 8}
           w12192 == {0, 1, 2, 3, 4, 5, 7, 8, 9, 13, 14}
           q12192 == {1, 3, 4, 5, 7, 8, 9, 12, 13, 14}
           q24384 == {1, 4, 5, 6, 9, 11, 12}
<1>0. w186 # {0} /\ w762 # {0} /\ w186 \in Word /\ w762 \in Word
  BY DEF Word
<1> HIDE DEF w11, w23, q23, w46, q46, w93, q93, w186, q186, w47, q47, w95,
              q95, w190, q190, w381, q381, w762, q762, w1524, q1524, w3048,
              q3048, w6096, q6096, w12192, q12192, q24384
<1>1. Leaves(11, w11)
  BY CongruentLaws DEF Leaves, w11
<1>2. Leaves(23, w23)
  <2>1. Squares(w11, 1, w23, q23)
    BY DEF Squares, Word, q23, w11, w23
  <2>2. QED
    BY <1>1, <2>1, Squaring
<1>3. Leaves(46, w46)
  <2>1. Squares(w23, 0, w46, q46)
    BY DEF Squares, Word, q46, w23, w46
  <2>2. QED
    BY <1>2, <2>1, Squaring
<1>4. Leaves(93, w93)
  <2>1. Squares(w46, 1, w93, q93)
    BY DEF Squares, Word, q93, w46, w93
  <2>2. QED
    BY <1>3, <2>1, Squaring
<1>5. Leaves(186, w186)
  <2>1. Squares(w93, 0, w186, q186)
    BY DEF Squares, Word, q186, w186, w93
  <2>2. QED
    BY <1>4, <2>1, Squaring
<1>6. Leaves(47, w47)
  <2>1. Squares(w23, 1, w47, q47)
    BY DEF Squares, Word, q47, w23, w47
  <2>2. QED
    BY <1>2, <2>1, Squaring
<1>7. Leaves(95, w95)
  <2>1. Squares(w47, 1, w95, q95)
    BY DEF Squares, Word, q95, w47, w95
  <2>2. QED
    BY <1>6, <2>1, Squaring
<1>8. Leaves(190, w190)
  <2>1. Squares(w95, 0, w190, q190)
    BY DEF Squares, Word, q190, w190, w95
  <2>2. QED
    BY <1>7, <2>1, Squaring
<1>9. Leaves(381, w381)
  <2>1. Squares(w190, 1, w381, q381)
    BY DEF Squares, Word, q381, w190, w381
  <2>2. QED
    BY <1>8, <2>1, Squaring
<1>10. Leaves(762, w762)
  <2>1. Squares(w381, 0, w762, q762)
    BY DEF Squares, Word, q762, w381, w762
  <2>2. QED
    BY <1>9, <2>1, Squaring
<1>11. Leaves(1524, w1524)
  <2>1. Squares(w762, 0, w1524, q1524)
    BY DEF Squares, Word, q1524, w1524, w762
  <2>2. QED
    BY <1>10, <2>1, Squaring
<1>12. Leaves(3048, w3048)
  <2>1. Squares(w1524, 0, w3048, q3048)
    BY DEF Squares, Word, q3048, w1524, w3048
  <2>2. QED
    BY <1>11, <2>1, Squaring
<1>13. Leaves(6096, w6096)
  <2>1. Squares(w3048, 0, w6096, q6096)
    BY DEF Squares, Word, q6096, w3048, w6096
  <2>2. QED
    BY <1>12, <2>1, Squaring
<1>14. Leaves(12192, w12192)
  <2>1. Squares(w6096, 0, w12192, q12192)
    BY DEF Squares, Word, q12192, w12192, w6096
  <2>2. QED
    BY <1>13, <2>1, Squaring
<1>15. Leaves(24384, w762)
  <2>1. Squares(w12192, 0, w762, q24384)
    BY DEF Squares, Word, q24384, w12192, w762
  <2>2. QED
    BY <1>14, <2>1, Squaring
<1>16. ~Leaves(186, {0}) /\ ~Leaves(762, {0})
  <2>1. ASSUME NEW n \in Nat, NEW w \in Word, Leaves(n, w), w # {0}
        PROVE  ~Leaves(n, {0})
    <3>1. {0} \in Word
      BY DEF Word
    <3>2. QED
      BY <2>1, <3>1, CongruentLaws, UniqueRemainder DEF Leaves
  <2>2. QED
    BY <1>0, <1>5, <1>10, <2>1
<1>17. Leaves(23622, {0})
  <2>1. Congruent({24384}, {762})
    BY <1>10, <1>15, CongruentLaws DEF Leaves
  <2>2. SymDiff({24384}, {762}) = Raised(SymDiff({23622}, {0}), 762)
    BY DEF SymDiff, Raised
  <2> DEFINE n == 23622
  <2>3. SymDiff({n}, {0}) \in Poly
    <3>1. n \in Nat
      OBVIOUS
    <3> HIDE DEF n
    <3>2. SymDiff({n}, {0}) \subseteq 0..n
      BY <3>1 DEF SymDiff
    <3>3. QED
      BY <3>1, <3>2, PolyIntro
  <2>4. 762 \in Nat
    OBVIOUS
  <2>5. QED
    BY <2>1, <2>2, <2>3, <2>4, MultipleLowered DEF Congruent, Leaves
<1>18. QED
  BY <1>16, <1>17

\* The numbers n for which x^n is 1 modulo Generator.
Periods == {n \in Nat : Leaves(n, {0})}

\* They are closed under sums and differences, and so under multiples.
LEMMA PeriodsClosed ==
  /\ 0 \in Periods
  /\ \A a \in Periods, b \in Periods : a + b \in Periods
  /\ \A a \in Periods, b \in Periods : a <= b => b - a \in Periods
<1>1. 0 \in Periods
  BY CongruentLaws DEF Periods, Leaves
<1>2. ASSUME NEW a \in Periods, NEW b \in Periods
      PROVE  a + b \in Periods
  <2>1. {a} \in SUBSET Nat /\ {0} \in SUBSET Nat /\ b \in Nat /\ a \in Nat
    BY DEF Periods
  <2>2. Congruent(Raised({a}, b), Raised({0}, b))
    BY <2>1, CongruentRaised DEF Periods, Leaves
  <2>3. Raised({a}, b) = {a + b} /\ Raised({0}, b) = {b}
    BY <2>1 DEF Raised
  <2>4. Congruent({a + b}, {b}) /\ Congruent({b}, {0})
    BY <2>2, <2>3 DEF Periods, Leaves
  <2>5. QED
    BY <2>1, <2>4, CongruentLaws DEF Periods, Leaves
<1>3. ASSUME NEW a \in Periods, NEW b \in Periods, a <= b
      PROVE  b - a \in Periods
  <2>1. a \in Nat /\ b \in Nat /\ b - a \in Nat
    BY <1>3 DEF Periods
  <2>2. Congruent({a}, {0}) /\ Congruent({b}, {0})
    BY DEF Periods, Leaves
  <2>3. Congruent({b}, {a})
    BY <2>2, CongruentLaws
  <2>4. SymDiff({b}, {a}) = Raised(SymDiff({b - a}, {0}), a)
    BY <2>1 DEF SymDiff, Raised
  <2>5. SymDiff({b - a}, {0}) \in Poly
    <3>1. SymDiff({b - a}, {0}) \subseteq 0..(b - a)
      BY <2>1 DEF SymDiff
    <3>2. QED
      BY <2>1, <3>1, PolyIntro
  <2>6. Multiple(SymDiff({b - a}, {0}))
    BY <2>1, <2>3, <2>4, <2>5, MultipleLowered DEF Congruent
  <2>7. QED
    BY <2>1, <2>6 DEF Periods, Leaves, Congruent
<1>4. QED
  BY <1>1, <1>2, <1>3

LEMMA PeriodsMultiple ==
  ASSUME NEW k \in Periods, NEW n \in Nat
  PROVE  n * k \in Periods
<1>0. k \in Nat
  BY DEF Periods
<1> DEFINE Good(i) == i * k \in Periods
           T == {i \in 0..n : Good(i)}
<1>1. 0 \in T
  BY <1>0, PeriodsClosed
<1>2. ASSUME NEW i \in 1..n, i - 1 \in T PROVE i \in T
  <2>1. (i - 1) * k + k = i * k
    BY <1>0
  <2>2. Good(i - 1)
    BY <1>2
  <2>3. Good(i)
    BY <2>1, <2>2, PeriodsClosed
  <2>4. QED
    BY <2>3
<1>3. \A i \in 0..n : i \in T
  <2> HIDE DEF T
  <2>1. QED
    BY <1>1, <1>2, IntervalInduction
<1>4. QED
  BY <1>3

\* The divisors of the two primes that the period of Generator needs here.
LEMMA Divisors ==
  ASSUME NEW p \in {31, 127}, NEW d \in Nat, NEW m \in Nat, p = m * d
  PROVE  d = 1 \/ d = p
<1>1. ASSUME NEW a \in Nat, NEW b \in Nat, a * b = p, a <= 11
      PROVE  a = 1
  <2>1. a = 0 \/ a = 1 \/ a = 2 \/ a = 3 \/ a = 4 \/ a = 5 \/ a = 6 \/ a = 7 \/ a = 8
          \/ a = 9 \/ a = 10 \/ a = 11
    BY <1>1
  <2>2. QED
    BY <1>1, <2>1
<1>2. m <= 11 \/ d <= 11
  <2> SUFFICES ASSUME m >= 12, d >= 12 PROVE FALSE
    OBVIOUS
  <2>1. m * d >= 12 * d
    OBVIOUS
  <2>2. QED
    BY <2>1
<1>3. m * d = d * m
  OBVIOUS
<1>4. QED
  BY <1>1, <1>2, <1>3

\* A set of numbers that is closed under differences consists of multiples of
\* the least of them that is not 0.
ClosedUnderDifference(J) == \A a \in J, b \in J : a <= b => b - a \in J
MultipleOf(d, j) == \E m \in Nat : j = m * d

LEMMA LeastDivides ==
  ASSUME NEW J \in SUBSET Nat, ClosedUnderDifference(J),
         NEW d \in J, d > 0, \A j \in J : j = 0 \/ d <= j,
         NEW j \in J
  PROVE  MultipleOf(d, j)
<1> DEFINE bad == {i \in J : i <= j /\ ~MultipleOf(d, i)}
<1> SUFFICES ASSUME bad # {} PROVE FALSE
  BY DEF ClosedUnderDifference
<1>1. PICK i \in bad : \A k \in bad : i <= k
  <2>1. j \in Nat /\ \A i \in bad : i \in 0..j
    OBVIOUS
  <2>2. bad \in Poly
    <3> HIDE DEF bad
    <3>1. QED
      BY <2>1, PolyIntro
  <2> HIDE DEF bad
  <2>3. QED
    BY <2>2, Extremes
<1>2. i \in J /\ i \in Nat /\ i <= j /\ ~MultipleOf(d, i) /\ d \in Nat
  OBVIOUS
<1>3. i # 0
  <2>1. 0 = 0 * d
    BY <1>2
  <2>2. QED
    BY <1>2, <2>1 DEF MultipleOf
<1>4. d <= i /\ i - d \in J /\ i - d < i
  BY <1>2, <1>3 DEF ClosedUnderDifference
<1>5. MultipleOf(d, i - d)
  <2>1. i - d \notin bad
    BY <1>1, <1>2, <1>4
  <2>2. QED
    BY <1>2, <1>4, <2>1
<1>6. PICK m \in Nat : i - d = m * d
  BY <1>5 DEF MultipleOf
<1>7. m + 1 \in Nat /\ i = (m + 1) * d
  BY <1>2, <1>6
<1>8. QED
  BY <1>2, <1>7 DEF MultipleOf

\* If it contains a prime, it contains 1, unless they are multiples of the prime.
LEMMA PrimeOrOne ==
  ASSUME NEW J \in SUBSET Nat, ClosedUnderDifference(J),
         NEW p \in {31, 127}, p \in J,
         NEW k \in J, ~MultipleOf(p, k)
  PROVE  1 \in J
<1> DEFINE L == J \cap (1..p)
<1>1. PICK d \in L : \A j \in L : d <= j
  <2>1. p \in Nat /\ L \subseteq 0..p /\ L # {}
    OBVIOUS
  <2>2. L \in Poly
    BY <2>1, PolyIntro
  <2> HIDE DEF L
  <2>3. QED
    BY <2>2, <2>1, Extremes
<1>2. d \in Nat /\ d > 0 /\ d \in J /\ \A j \in J : j = 0 \/ d <= j
  BY <1>1
<1> HIDE DEF L
<1>3. MultipleOf(d, p) /\ MultipleOf(d, k)
  BY <1>2, LeastDivides
<1>4. PICK m \in Nat : p = m * d
  BY <1>3 DEF MultipleOf
<1>5. d = 1 \/ d = p
  <2> HIDE <1>1
  <2>1. QED
    BY <1>2, <1>4, Divisors
<1>6. QED
  BY <1>2, <1>3, <1>5

\* The period of Generator divides 23622 = 2 * 3 * 31 * 127, but neither
\* 23622 / 127 nor 23622 / 31: it is longer than a slot.
Distances == 1..(8 * kSlotBytes - 1)

LEMMA NoShortPeriod ==
  ASSUME NEW k \in Distances
  PROVE  k \notin Periods
<1>0. k \in 1..1183
  BY DEF Distances, kSlotBytes
<1> SUFFICES ASSUME k \in Periods PROVE FALSE
  OBVIOUS
<1> DEFINE J(c) == {j \in Nat : c * j \in Periods}
<1>1. ASSUME NEW c \in Nat, NEW p \in {31, 127}, c * p \in Periods, c \notin Periods
      PROVE  MultipleOf(p, k)
  <2>1. J(c) \in SUBSET Nat
    OBVIOUS
  <2>2. ClosedUnderDifference(J(c))
    <3> SUFFICES ASSUME NEW a \in J(c), NEW b \in J(c), a <= b
                 PROVE  b - a \in J(c)
      BY DEF ClosedUnderDifference
    <3>1. a \in Nat /\ b \in Nat /\ b - a \in Nat /\ c * a \in Periods /\ c * b \in Periods
      OBVIOUS
    <3>2. c * a <= c * b /\ c * b - c * a = c * (b - a)
      BY <3>1
    <3>3. c * (b - a) \in Periods
      BY <3>1, <3>2, PeriodsClosed
    <3>4. QED
      BY <3>1, <3>3
  <2>3. p \in J(c) /\ 1 \notin J(c)
    BY <1>1
  <2>4. k \in J(c)
    BY <1>0, PeriodsMultiple
  <2> HIDE DEF J
  <2>5. QED
    BY <2>1, <2>2, <2>3, <2>4, PrimeOrOne
<1>2. MultipleOf(127, k)
  BY <1>1, SomePowers DEF Periods
<1>3. MultipleOf(31, k)
  BY <1>1, SomePowers DEF Periods
<1>4. QED
  BY <1>0, <1>2, <1>3 DEF MultipleOf

LEMMA TwoTerms ==
  ASSUME NEW m \in Nat, NEW k \in Distances, NEW n, n = m + k
  PROVE  ~Multiple({m, n})
<1> SUFFICES ASSUME Multiple({m, n}) PROVE FALSE
  OBVIOUS
<1> DEFINE s == SymDiff({k}, {0})
<1>1. k \in Nat /\ s \subseteq 0..k
  BY DEF SymDiff, Distances, kSlotBytes
<1>2. {m, n} = Raised(s, m)
  <2>1. s = {k, 0}
    BY DEF SymDiff, Distances
  <2>2. \A x : x \in Raised({k, 0}, m) <=> x = k + m \/ x = 0 + m
    BY DEF Raised
  <2>3. QED
    BY <1>1, <2>1, <2>2
<1>3. k \notin Periods
  BY NoShortPeriod
<1>4. ~Multiple(s)
  BY <1>1, <1>3 DEF Periods, Leaves, Congruent
<1> HIDE DEF s
<1>5. s \in Poly
  BY <1>1, PolyIntro
<1>6. Multiple(Raised(s, m))
  BY <1>2
<1>7. QED
  BY <1>4, <1>5, <1>6, MultipleLowered

\* Two flipped bits are never taken for none.
LEMMA TwoFlips ==
  ASSUME NEW p \in SlotBits, NEW q \in SlotBits, p # q
  PROVE  ~Undetected({p, q})
<1> SUFFICES ASSUME Undetected({p, q}) PROVE FALSE
  OBVIOUS
<1> DEFINE a == Exponent(p)
           b == Exponent(q)
<1>1. a \in 0..1183 /\ b \in 0..1183 /\ a # b
  <2>1. Exponent(p) \in 0..1183
    BY DEF Exponent, SlotBits, CrcBits, kSlotBytes, kCrcOffset
  <2>2. Exponent(q) \in 0..1183
    BY DEF Exponent, SlotBits, CrcBits, kSlotBytes, kCrcOffset
  <2>3. QED
    BY <2>1, <2>2, ExponentInjective
<1>2. Multiple({a, b})
  <2>1. {p, q} \in SUBSET SlotBits /\ ErrorPolynomial({p, q}) = {a, b}
    BY DEF ErrorPolynomial
  <2>2. QED
    BY <2>1, UndetectedIsMultiple
<1> HIDE DEF a, b
<1>3. CASE a < b
  <2>1. a \in Nat /\ b - a \in Distances /\ b = a + (b - a)
    BY <1>1, <1>3 DEF Distances, kSlotBytes
  <2>2. QED
    BY <1>2, <2>1, TwoTerms
<1>4. CASE b < a
  <2>1. b \in Nat /\ a - b \in Distances /\ a = b + (a - b)
    BY <1>1, <1>4 DEF Distances, kSlotBytes
  <2>2. {a, b} = {b, a}
    OBVIOUS
  <2>3. QED
    BY <1>2, <2>1, <2>2, TwoTerms
<1>5. QED
  BY <1>1, <1>3, <1>4

\* Nor are any bits whose exponents lie within 16 of each other.
LEMMA ShortMultiple ==
  ASSUME NEW n \in Nat, NEW p, p \subseteq n..(n + 15), Multiple(p)
  PROVE  p = {}
<1> DEFINE s == {k - n : k \in p}
<1>1. s \in SUBSET (0..15) /\ s \subseteq 0..15 /\ 15 \in Nat
  OBVIOUS
<1>2. p = Raised(s, n)
  <2>1. ASSUME NEW x \in p PROVE x \in Raised(s, n)
    <3>1. x - n \in s /\ x = (x - n) + n
      OBVIOUS
    <3>2. QED
      BY <3>1 DEF Raised
  <2>2. ASSUME NEW x \in Raised(s, n) PROVE x \in p
    <3>1. PICK k \in p : x = (k - n) + n
      BY <2>2 DEF Raised
    <3>2. QED
      BY <3>1
  <2>3. QED
    BY <2>1, <2>2
<1>3. (s = {}) => (p = {})
  OBVIOUS
<1> HIDE DEF s
<1>4. s \in Poly
  BY <1>1, PolyIntro
<1>5. Multiple(s)
  BY <1>2, <1>4, MultipleLowered
<1>6. QED
  BY <1>1, <1>3, <1>5, MultipleDegree

\* VerifyE2e() and bursts: whichever of 16 consecutive bits of an intact slot
\* flip, it is never taken for intact, as long as they all lie in the protected
\* bytes or all in the CRC.  (The CRC precedes the bytes that it protects, so a
\* burst across the two is not one in the polynomial.)
THEOREM BurstDetected ==
  ASSUME NEW slot \in RawSlot, CrcMatches(slot),
         NEW flips \in SUBSET SlotBits, flips # {},
         NEW first \in SlotBits, flips \subseteq first..(first + 15),
         flips \subseteq CrcBits \/ flips \cap CrcBits = {}
  PROVE  ~CrcMatches(Damaged(slot, flips))
<1> SUFFICES ASSUME Multiple(ErrorPolynomial(flips)) PROVE FALSE
  BY DamageAdds, UndetectedIsMultiple
<1>1. CASE flips \subseteq CrcBits
  <2>1. ErrorPolynomial(flips) \subseteq 0..(0 + 15) /\ 0 \in Nat
    BY <1>1 DEF ErrorPolynomial, Exponent, CrcBits, kCrcOffset
  <2>2. ErrorPolynomial(flips) = {}
    BY <2>1, ShortMultiple
  <2>3. QED
    BY <2>2 DEF ErrorPolynomial
<1>2. CASE flips \cap CrcBits = {}
  <2> DEFINE n == 1184 - first
  <2>1. first \in 0..1183 /\ n \in Nat
    BY DEF SlotBits, kSlotBytes
  <2>2. ASSUME NEW p \in flips PROVE Exponent(p) \in n..(n + 15)
    <3>1. p \in first..(first + 15) /\ p \notin CrcBits
      BY <1>2
    <3>2. Exponent(p) = 1199 - p
      BY <3>1 DEF Exponent, kSlotBytes, kCrcOffset
    <3>3. QED
      BY <2>1, <3>1, <3>2
  <2> HIDE DEF n
  <2>3. ErrorPolynomial(flips) \subseteq n..(n + 15)
    BY <2>2 DEF ErrorPolynomial
  <2>4. ErrorPolynomial(flips) = {}
    BY <2>1, <2>3, ShortMultiple
  <2>5. QED
    BY <2>4 DEF ErrorPolynomial
<1>3. QED
  BY <1>1, <1>2

\* Up to three flipped bits are never taken for none.
LEMMA FewFlips ==
  ASSUME NEW flips \in SUBSET SlotBits, flips # {}, Cardinality(flips) <= 3
  PROVE  ~Undetected(flips)
<1>1. IsFiniteSet(flips) /\ Cardinality(flips) \in 1..3
  BY SlotBitsFinite, FS_CardinalityType, FS_EmptySet
<1>2. CASE Odd(flips)
  BY <1>2, OddAdded, ResidueIsAdded, OddSmall DEF Undetected
<1>3. CASE ~Odd(flips)
  <2>1. Cardinality(flips) = 2
    BY <1>1, <1>3 DEF Odd
  <2>2. PICK p \in flips : TRUE
    OBVIOUS
  <2>3. IsFiniteSet(flips \ {p}) /\ Cardinality(flips \ {p}) = 1
    BY <1>1, <2>1, FS_RemoveElement
  <2>4. PICK q : flips \ {p} = {q}
    BY <2>3, FS_Singleton
  <2>5. flips = {p, q} /\ p # q
    BY <2>4
  <2>6. QED
    BY <2>5, TwoFlips
<1>4. QED
  BY <1>2, <1>3

-----------------------------------------------------------------------------
\* Damage.  Once a bit has flipped, nothing happens until the M7 has refused
\* the slot, so the state of the bridge is still the one of DamageWindow.
DInv ==
  /\ IInv
  /\ CommandHeld
  /\ damage # {} => DamageWindow

DamageInRange == damage \subseteq SlotBits

\* The M7 refuses the only slot in the ring, which bears the counter that it
\* expects.
LEMMA RefuseStep ==
  ASSUME DInv, RefuseDamaged
  PROVE  /\ DInv'
         /\ head # tail /\ head' = head /\ tail' = NextIndex(tail) /\ slots' = slots
<1>1. /\ tail = 0 /\ head = 1 /\ ~m7Holds
      /\ \A s \in Senders : pc[s] = "idle"
  BY DEF DInv, RefuseDamaged, DamageWindow
<1>2. m7Counter = slots[tail].counter
  BY <1>1 DEF DInv, IInv, CountersContiguous
<1>3. /\ tail' = NextIndex(tail) /\ m7Holds' = m7Holds /\ m7Verdict' = m7Verdict
      /\ m7Counter' = NextCounter(m7Counter) /\ damage' = {}
      /\ UNCHANGED <<head, slots, seqCounter, pc, event, myHead>>
  BY DEF RefuseDamaged, sendVars
<1>4. m7Holds' = FALSE
  BY <1>1, <1>3 DEF DInv, IInv, TypeOK
<1>5. IInv'
  <2>1. IInv /\ head # tail
    BY <1>1 DEF DInv
  <2>2. m7Counter' = NextCounter(slots[tail].counter)
    BY <1>2, <1>3
  <2>3. QED
    BY <1>3, <1>4, <2>1, <2>2, ReleasedStep
<1>6. CommandHeld'
  BY <1>3 DEF DInv, CommandHeld
<1>7. QED
  BY <1>1, <1>3, <1>5, <1>6 DEF DInv

LEMMA DamageStep ==
  ASSUME OneSender, DInv, [DamageNext]_damageVars
  PROVE  DInv'
<1>1. CASE Intact
  BY <1>1, IInvStep, CommandHeldStep DEF Intact, DInv, IInv
<1>2. CASE Flip \/ UNCHANGED damageVars
  <2>1. UNCHANGED vars
    BY <1>2 DEF Flip, damageVars
  <2>2. IInv' /\ CommandHeld'
    BY <2>1, IInvStep, CommandHeldStep DEF DInv, IInv
  <2>3. DamageWindow' <=> DamageWindow
    BY <2>1 DEF DamageWindow, vars, sendVars, m7Vars
  <2>4. QED
    BY <1>2, <2>2, <2>3 DEF Flip, DInv, damageVars
<1>3. CASE RefuseDamaged
  BY <1>3, RefuseStep
<1>4. QED
  BY <1>1, <1>2, <1>3 DEF DamageNext

LEMMA DamageInvariance ==
  ASSUME OneSender
  PROVE  DamageSpec => []DInv
<1>1. DamageInit => DInv
  BY InitIInv DEF DamageInit, DInv, CommandHeld, Init
<1>2. OneSender /\ DInv /\ [DamageNext]_damageVars => DInv'
  BY DamageStep
<1>3. QED
  BY <1>1, <1>2, PTL DEF DamageSpec

\* A slot that is damaged and refused costs nothing but its command: slots stay
\* owned, the others are intact and contiguously numbered, and VerifyE2e()
\* accepts them, for any number of flips in the slot.
THEOREM DamageHarmless ==
  ASSUME OneSender
  PROVE  DamageSpec => [](TypeOK /\ WriterOwnsSlot /\ CountersContiguous /\ M7AcceptsAll)
<1>1. DInv => TypeOK /\ WriterOwnsSlot /\ CountersContiguous /\ M7AcceptsAll
  BY HeadUnpublished
     DEF DInv, IInv, HeadHeld, RoomHeld, Writing, WriterOwnsSlot, TypeOK
<1>2. QED
  BY <1>1, DamageInvariance, PTL

\* With damage the bridge is still a FIFO: what the M7 refuses leaves the queue
\* where it would have been received.
THEOREM DamagedIsQueue ==
  ASSUME OneSender
  PROVE  DamageSpec => ImplementsQueue
<1> DEFINE q == [k \in 1..Used |-> slots[At(k - 1)].command]
<1>1. DamageInit => Queue!Init
  <2> SUFFICES ASSUME DamageInit PROVE Queue!Init
    OBVIOUS
  <2>1. q = << >>
    BY DEF DamageInit, Init, Used
  <2>2. QED
    BY <2>1 DEF Queue!Init
<1>2. OneSender /\ DInv /\ [DamageNext]_damageVars => [Queue!Next]_q
  <2> SUFFICES ASSUME OneSender, DInv, [DamageNext]_damageVars
               PROVE  [Queue!Next]_q
    OBVIOUS
  <2> DEFINE r == Contents(head, tail, slots)
  <2>1. \/ \E c \in Commands : Len(r) < Slots - 1 /\ r' = Append(r, c)
        \/ r # << >> /\ r' = Tail(r)
        \/ UNCHANGED r
    <3>1. CASE RefuseDamaged
      <4>1. /\ head # tail /\ head' = head /\ tail' = NextIndex(tail) /\ slots' = slots
            /\ head \in Index /\ tail \in Index /\ slots \in [Index -> Slot]
        BY <3>1, RefuseStep DEF DInv, IInv, TypeOK
      <4>2. QED
        BY <4>1, ReleaseTakesFirst
    <3>2. CASE Intact \/ Flip \/ UNCHANGED damageVars
      <4>1. [Next]_vars
        BY <3>2 DEF Intact, Flip, damageVars
      <4>2. QED
        BY <4>1, QueueStep DEF DInv
    <3>3. QED
      BY <3>1, <3>2 DEF DamageNext
  <2>2. r' = q' /\ r = q
    BY DEF Contents, UsedOf, AtOf, Used, At
  <2>3. QED
    BY <2>1, <2>2 DEF Queue!Next, Queue!Enqueue, Queue!Dequeue
<1>3. QED
  BY <1>1, <1>2, DamageInvariance, PTL DEF DamageSpec, ImplementsQueue, Queue!Spec

\* VerifyE2e() and damage to the ring: what flipped bits add to the difference
\* that it looks for has the parity of their number, for any number of flips
\* and any number of senders.  So it takes no slot for intact in which an odd
\* number of bits has flipped.
THEOREM ParityKept == DamageSpec => []DamageParity
<1>1. DamageInit => DamageInRange
  BY DEF DamageInit, DamageInRange
<1>2. DamageInRange /\ [DamageNext]_damageVars => DamageInRange'
  BY DEF DamageInRange, DamageNext, Intact, Flip, RefuseDamaged, damageVars
<1>3. DamageInRange => DamageParity
  <2> SUFFICES ASSUME damage \in SUBSET SlotBits
               PROVE  Cardinality(Residue(damage)) % 2 = Cardinality(damage) % 2
    BY DEF DamageInRange, DamageParity
  <2>1. Odd(Added(damage)) <=> Odd(damage)
    BY OddAdded
  <2>2. IsFiniteSet(Added(damage)) /\ IsFiniteSet(damage)
    BY OddAdded, SlotBitsFinite
  <2>3. Cardinality(Added(damage)) \in Nat /\ Cardinality(damage) \in Nat
    BY <2>2, FS_CardinalityType
  <2>4. Cardinality(Added(damage)) % 2 = Cardinality(damage) % 2
    BY <2>1, <2>3 DEF Odd
  <2>5. QED
    BY <2>4, ResidueIsAdded
<1>4. QED
  BY <1>1, <1>2, <1>3, PTL DEF DamageSpec

DamageBounded == DamageInRange /\ Cardinality(damage) <= MaxFlips

\* VerifyE2e() and damage to the ring: the M7 takes no slot for intact in which
\* up to three bits have flipped, wherever they are in it.
THEOREM FewFlipsDetected ==
  ASSUME MaxFlips \in 0..3
  PROVE  DamageSpec => []DamageDetected
<1>1. DamageInit => DamageBounded
  BY FS_EmptySet DEF DamageInit, DamageBounded, DamageInRange
<1>2. DamageBounded /\ [DamageNext]_damageVars => DamageBounded'
  <2> SUFFICES ASSUME DamageBounded, [DamageNext]_damageVars PROVE DamageBounded'
    OBVIOUS
  <2>1. CASE Flip
    <3>1. PICK p \in SlotBits : damage' = damage \cup {p}
      BY <2>1 DEF Flip
    <3>2. IsFiniteSet(damage)
      BY SlotBitsFinite DEF DamageBounded, DamageInRange
    <3>3. /\ Cardinality(damage) \in Nat
          /\ Cardinality(damage') = Cardinality(damage)
               \/ Cardinality(damage') = Cardinality(damage) + 1
      BY <3>1, <3>2, FS_AddElement, FS_CardinalityType
    <3>4. QED
      BY <2>1, <3>1, <3>3 DEF Flip, DamageBounded, DamageInRange
  <2>2. CASE Intact \/ RefuseDamaged \/ UNCHANGED damageVars
    <3>1. damage' = damage \/ damage' = {}
      BY <2>2 DEF Intact, RefuseDamaged, damageVars
    <3>2. QED
      BY <3>1, FS_EmptySet DEF DamageBounded, DamageInRange
  <2>3. QED
    BY <2>1, <2>2 DEF DamageNext
<1>3. DamageBounded => DamageDetected
  <2> SUFFICES ASSUME DamageBounded, damage # {} PROVE ~Undetected(damage)
    BY DEF DamageDetected
  <2>1. damage \in SUBSET SlotBits /\ Cardinality(damage) <= 3
    <3>1. IsFiniteSet(damage) /\ Cardinality(damage) \in Nat
      BY SlotBitsFinite, FS_CardinalityType DEF DamageBounded, DamageInRange
    <3>2. QED
      BY <3>1 DEF DamageBounded, DamageInRange
  <2>2. QED
    BY <2>1, FewFlips
<1>4. QED
  BY <1>1, <1>2, <1>3, PTL DEF DamageSpec

\* A published slot holds a command.
CommandsPublished == \A i \in Unread : slots[i].command \in Commands

LEMMA CommandsPublishedStep ==
  ASSUME OneSender, DInv, CommandsPublished, [DamageNext]_damageVars
  PROVE  CommandsPublished'
<1>0. /\ head \in Index /\ tail \in Index /\ slots \in [Index -> Slot]
      /\ \A s \in Senders : pc[s] # "idle" => myHead[s] = head
      /\ Unread \subseteq Index /\ head \notin Unread
  BY HeadUnpublished DEF DInv, IInv, TypeOK, HeadHeld
<1>1. CASE RefuseDamaged
  <2>1. /\ head # tail /\ head' = head /\ tail' = NextIndex(tail) /\ slots' = slots
    BY <1>1, RefuseStep
  <2>2. QED
    BY <1>0, <2>1, UnreadAfterRelease DEF CommandsPublished, Unread
<1>2. CASE M7Release
  <2>1. head' = head /\ tail' = NextIndex(tail) /\ slots' = slots
    BY <1>2 DEF M7Release
  <2>2. head # tail
    BY <1>2 DEF M7Release, DInv, IInv, CountersContiguous
  <2>3. QED
    BY <1>0, <2>1, <2>2, UnreadAfterRelease DEF CommandsPublished, Unread
<1>3. ASSUME NEW s \in Senders, Publish(s)
      PROVE  CommandsPublished'
  <2>1. slots[head].command \in Commands /\ NextIndex(head) # tail
    BY <1>3 DEF Publish, DInv, CommandHeld, IInv, RoomHeld, Writing
  <2>2. head' = NextIndex(head) /\ tail' = tail /\ slots' = slots
    BY <1>0, <1>3 DEF Publish, m7Vars
  <2>3. QED
    BY <1>0, <2>1, <2>2, UnreadAfterPublish DEF CommandsPublished, Unread
<1>4. ASSUME NEW s \in Senders, FillSlot(s) \/ StampHeader(s)
      PROVE  CommandsPublished'
  <2>1. head' = head /\ tail' = tail /\ Unread' = Unread
    BY <1>4 DEF FillSlot, StampHeader, m7Vars, Unread
  <2>2. \A i \in Index \ {head} : slots'[i] = slots[i]
    BY <1>0, <1>4 DEF FillSlot, StampHeader
  <2>3. QED
    BY <1>0, <2>1, <2>2 DEF CommandsPublished
<1>5. CASE UNCHANGED <<head, tail, slots>>
  BY <1>5 DEF CommandsPublished, Unread
<1>6. QED
  <2>1. CASE Intact
    <3>1. ASSUME NEW s \in Senders, Send(s) PROVE CommandsPublished'
      <4>1. CASE FillSlot(s) \/ StampHeader(s)
        BY <1>4, <4>1
      <4>2. CASE Publish(s)
        BY <1>3, <4>2
      <4>3. CASE (\E c \in Commands : LoadHead(s, c)) \/ CheckFull(s) \/ AdvanceCounter(s)
        BY <1>5, <4>3 DEF LoadHead, CheckFull, AdvanceCounter, m7Vars
      <4>4. QED
        BY <3>1, <4>1, <4>2, <4>3 DEF Send
    <3>2. CASE M7Read
      BY <1>5, <3>2 DEF M7Read
    <3>3. QED
      BY <1>2, <2>1, <3>1, <3>2 DEF Intact, Next
  <2>2. CASE Flip \/ UNCHANGED damageVars
    BY <1>5, <2>2 DEF Flip, damageVars, vars, m7Vars
  <2>3. QED
    BY <1>1, <2>1, <2>2 DEF DamageNext

\* The bytes of one part of a slot followed by those of another.
LEMMA Concatenated ==
  ASSUME NEW m \in Nat, NEW n \in Nat, NEW s \in [1..m -> Byte], NEW t \in [1..n -> Byte]
  PROVE  s \o t \in [1..(m + n) -> Byte]
<1>1. s \in Seq(Byte) /\ Len(s) = m /\ t \in Seq(Byte) /\ Len(t) = n
  OBVIOUS
<1>2. s \o t \in Seq(Byte) /\ Len(s \o t) = Len(s) + Len(t)
  BY <1>1, ConcatProperties, Zenon
<1>3. s \o t \in [1..Len(s \o t) -> Byte]
  BY <1>2, LenProperties, Zenon
<1>4. QED
  BY <1>1, <1>2, <1>3

\* The protected bytes of a slot are as many bytes as there should be.
LEMMA SlotBytesType ==
  ASSUME NEW command \in Nat, NEW counter \in Nat
  PROVE  SlotBytes(command, counter) \in [1..kProtectedLen -> Byte]
<1> DEFINE header == <<Bits(counter), Bits(1), Bits(kSlotBytes), {}, {}, {}>>
           fields == <<Bits(16), {}, Bits(3), {}, {}, {}, {}, {}, Bits(24), {}, {}, {}>>
           payload == [k \in 1..24 |-> Bits((53 * command + 29 * k) % 256)]
           padding == [k \in 1..104 |-> {}]
<1>1. {} \in Byte /\ \A n : Bits(n) \in Byte
  BY DEF Bits, Byte
<1>2. header \in [1..6 -> Byte]
  BY <1>1
<1>3. fields \in [1..12 -> Byte]
  BY <1>1
<1>4. payload \in [1..24 -> Byte]
  BY <1>1
<1>5. padding \in [1..104 -> Byte]
  BY <1>1
<1> DEFINE first18 == header \o fields
           first42 == first18 \o payload
           all == first42 \o padding
<1>6. SlotBytes(command, counter) = all
  BY DEF SlotBytes
<1> HIDE DEF header, fields, payload, padding
<1>7. first18 \in [1..18 -> Byte]
  <2>1. first18 \in [1..(6 + 12) -> Byte]
    BY <1>2, <1>3, Concatenated
  <2>2. QED
    BY <2>1
<1> HIDE DEF first18
<1>8. first42 \in [1..42 -> Byte]
  <2>1. first42 \in [1..(18 + 24) -> Byte]
    BY <1>4, <1>7, Concatenated
  <2> HIDE DEF first42
  <2>2. QED
    BY <2>1
<1> HIDE DEF first42
<1>9. all \in [1..146 -> Byte]
  <2>1. all \in [1..(42 + 104) -> Byte]
    BY <1>5, <1>8, Concatenated
  <2> HIDE DEF all
  <2>2. QED
    BY <2>1
<1> HIDE DEF all
<1>10. kProtectedLen = 146
  BY DEF kProtectedLen, kSlotBytes, kCrcOffset
<1>11. QED
  BY <1>6, <1>9, <1>10

\* What one flipped bit adds is the remainder of its power of x.
LEMMA SyndromeIsPower ==
  ASSUME NEW p \in SlotBits
  PROVE  Syndrome[p] = Reflected(Power[Exponent(p)])
<1> DEFINE e == Exponent(p)
           s == Syndrome[p]
<1>1. e \in Exponents /\ s \in Word /\ Congruent({e}, Reflected(s))
  BY SyndromeRemains
<1> HIDE DEF e, s
<1>2. Power[e] \in Word /\ Congruent({e}, Power[e])
  BY <1>1, PowerRemains
<1>3. Reflected(s) \in Word /\ Reflected(Reflected(s)) = s
  BY <1>1, ReflectedLaws
<1>4. Congruent(Reflected(s), Power[e])
  BY <1>1, <1>2, CongruentLaws
<1>5. Reflected(s) = Power[e]
  BY <1>2, <1>3, <1>4, UniqueRemainder
<1>6. QED
  BY <1>3, <1>5 DEF e, s

\* The CRC that ApplyE2eHeader() puts into a slot.
THEOREM CrcCorrect ==
  ASSUME OneSender
  PROVE  DamageSpec => []CrcIsDivision
<1>1. DamageInit => CommandsPublished
  BY DEF DamageInit, Init, CommandsPublished, Unread, Index
<1>2. OneSender /\ DInv /\ CommandsPublished /\ [DamageNext]_damageVars
        => CommandsPublished'
  BY CommandsPublishedStep
<1>3. DamageInit => DamageInRange
  BY DEF DamageInit, DamageInRange
<1>4. DamageInRange /\ [DamageNext]_damageVars => DamageInRange'
  BY DEF DamageInRange, DamageNext, Intact, Flip, RefuseDamaged, damageVars
<1>5. ASSUME DInv, CommandsPublished, DamageInRange
      PROVE  CrcIsDivision
  <2>1. ASSUME NEW i \in Unread
        PROVE  Divided[slots[i].command][slots[i].counter]
    <3> DEFINE command == slots[i].command
               counter == slots[i].counter
               data == SlotBytes(command, counter)
    <3>1. command \in Commands /\ counter \in Counter
      <4>1. i \in Index /\ slots \in [Index -> Slot]
        BY <1>5 DEF DInv, IInv, TypeOK, Unread
      <4>2. QED
        BY <1>5, <4>1 DEF CommandsPublished, Slot
    <3> HIDE DEF command, counter
    <3>2. command \in Nat /\ counter \in Nat
      BY <3>1, CommandsAssumption DEF Counter
    <3>3. data \in [1..kProtectedLen -> Byte] /\ kProtectedLen \in 0..kProtectedLen
      BY <3>2, SlotBytesType DEF kProtectedLen, kSlotBytes, kCrcOffset
    <3>4. IsRemainder(ComputeE2eCrc(data), data)
      <4> HIDE DEF data
      <4>1. QED
        BY <3>3, CrcIsRemainder
    <3>5. Divided[command][counter]
      BY <3>1, <3>4, Zenon DEF Divided, data
    <3>6. QED
      BY <3>5 DEF command, counter
  <2>2. ASSUME NEW p \in damage
        PROVE  Syndrome[p] = Reflected(Power[Exponent(p)])
    BY <1>5, SyndromeIsPower DEF DamageInRange
  <2>3. QED
    BY <2>1, <2>2, Zenon DEF CrcIsDivision
<1>6. QED
  BY <1>1, <1>2, <1>3, <1>4, <1>5, DamageInvariance, PTL DEF DamageSpec
=============================================================================
