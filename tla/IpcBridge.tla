------------------------------ MODULE IpcBridge ------------------------------
(***************************************************************************)
(* IpcBridge: the ring buffer in shared SRAM between the A53 side and the  *)
(* M7 supervisor.  Send() is split at its accesses to shared memory, one   *)
(* action per access, so that the M7 -- and, if Senders has more than one  *)
(* element, another caller of Send() on the same bridge -- interleaves     *)
(* with it.                                                                *)
(*                                                                         *)
(* Abstractions.  A command stands for the SoaEvent that carries it.  The  *)
(* CRC field of a slot is the pair it was computed over, so VerifyE2e()    *)
(* accepts a slot exactly if command and counter are still that pair (the  *)
(* CRC is taken to detect every change).  The barriers of the code order   *)
(* the accesses of one side as written here.  The M7 is not in the         *)
(* repository: its steps are those of a consumer that verifies the slot at *)
(* tail with VerifyE2e() and then advances tail, as the tests do.          *)
(***************************************************************************)
EXTENDS Integers, Sequences

CONSTANTS
  Senders,          \* the threads that call Send()
  Commands,
  Slots,            \* kIpcRingSlots
  CounterModulus,   \* 256: where the uint8 seqCounter_ wraps
  NoCommand         \* the zeroed payload left by Init()

ASSUME SlotsAssumption == Slots \in Nat \ {0, 1}
ASSUME CounterAssumption == CounterModulus \in Nat \ {0, 1}
ASSUME NoCommandAssumption == NoCommand \notin Commands

Index == 0..(Slots - 1)
Counter == 0..(CounterModulus - 1)

Slot ==
  [command : Commands \cup {NoCommand}, counter : Counter,
   crc : (Commands \cup {NoCommand}) \X Counter]

VARIABLES
  head,          \* ring_->head, written by the A53
  tail,          \* ring_->tail, written by the M7
  slots,         \* ring_->slots
  seqCounter,    \* seqCounter_
  pc,            \* where each sender is in Send()
  event,         \* the argument of its Send()
  myHead,        \* the local variable head of Send()
  m7Counter,     \* the counter the M7 expects next
  m7Verdict,     \* what VerifyE2e() said last
  m7Holds        \* the M7 has copied the slot at tail, not yet released it

sendVars == <<pc, event, myHead>>
m7Vars == <<tail, m7Counter, m7Verdict, m7Holds>>
vars == <<head, slots, seqCounter, sendVars, m7Vars>>

-----------------------------------------------------------------------------
\* (i + 1) & kIpcRingSlotMask, and the uint8 increment of seqCounter_.
NextIndex(i) == IF i + 1 = Slots THEN 0 ELSE i + 1
NextCounter(n) == IF n + 1 = CounterModulus THEN 0 ELSE n + 1

\* How many published slots the M7 has not released.
Used == IF head >= tail THEN head - tail ELSE head - tail + Slots

\* The slot k places after tail, and the slots from tail up to head.
At(k) == IF tail + k < Slots THEN tail + k ELSE tail + k - Slots
Unread ==
  {i \in Index : IF head >= tail THEN tail <= i /\ i < head
                                 ELSE tail <= i \/ i < head}

ZeroSlot == [command |-> NoCommand, counter |-> 0, crc |-> <<NoCommand, 0>>]

\* After IpcBridge::Init(): the ring zeroed, the magic published.
Init ==
  /\ head = 0
  /\ tail = 0
  /\ slots = [i \in Index |-> ZeroSlot]
  /\ seqCounter = 0
  /\ pc = [s \in Senders |-> "idle"]
  /\ event = [s \in Senders |-> NoCommand]
  /\ myHead = [s \in Senders |-> 0]
  /\ m7Counter = 0
  /\ m7Verdict = "ok"
  /\ m7Holds = FALSE

-----------------------------------------------------------------------------
\* Send() is called and reads ring_->head.
LoadHead(s, c) ==
  /\ pc[s] = "idle"
  /\ pc' = [pc EXCEPT ![s] = "check"]
  /\ event' = [event EXCEPT ![s] = c]
  /\ myHead' = [myHead EXCEPT ![s] = head]
  /\ UNCHANGED <<head, slots, seqCounter, m7Vars>>

\* Mutant: the full check is dropped.
CheckFullDropped(s) ==
  /\ pc[s] = "check"
  /\ pc' = [pc EXCEPT ![s] = "fill"]
  /\ UNCHANGED <<head, slots, seqCounter, event, myHead, m7Vars>>

\* It reads ring_->tail and gives up (kIpcBufferFull) if the ring is full.
CheckFull(s) ==
  /\ pc[s] = "check"
  /\ pc' = [pc EXCEPT ![s] = IF NextIndex(myHead[s]) = tail THEN "idle" ELSE "fill"]
  /\ UNCHANGED <<head, slots, seqCounter, event, myHead, m7Vars>>

\* It copies the event into slots[head].
FillSlot(s) ==
  /\ pc[s] = "fill"
  /\ slots' = [slots EXCEPT ![myHead[s]].command = event[s]]
  /\ pc' = [pc EXCEPT ![s] = "stamp"]
  /\ UNCHANGED <<head, seqCounter, event, myHead, m7Vars>>

\* Mutant: the CRC is computed before the counter is in place.
StampHeaderEarly(s) ==
  /\ pc[s] = "stamp"
  /\ slots' = [slots EXCEPT
       ![myHead[s]].counter = seqCounter,
       ![myHead[s]].crc = <<slots[myHead[s]].command, slots[myHead[s]].counter>>]
  /\ pc' = [pc EXCEPT ![s] = "count"]
  /\ UNCHANGED <<head, seqCounter, event, myHead, m7Vars>>

\* ApplyE2eHeader(): the counter and the CRC over what the slot now holds ...
StampHeader(s) ==
  /\ pc[s] = "stamp"
  /\ slots' = [slots EXCEPT
       ![myHead[s]].counter = seqCounter,
       ![myHead[s]].crc = <<slots[myHead[s]].command, seqCounter>>]
  /\ pc' = [pc EXCEPT ![s] = "count"]
  /\ UNCHANGED <<head, seqCounter, event, myHead, m7Vars>>

\* ... and the advance of seqCounter_.
AdvanceCounter(s) ==
  /\ pc[s] = "count"
  /\ seqCounter' = NextCounter(seqCounter)
  /\ pc' = [pc EXCEPT ![s] = "publish"]
  /\ UNCHANGED <<head, slots, event, myHead, m7Vars>>

\* Mutant: the head is not masked.
PublishUnmasked(s) ==
  /\ pc[s] = "publish"
  /\ head' = myHead[s] + 1
  /\ pc' = [pc EXCEPT ![s] = "idle"]
  /\ UNCHANGED <<slots, seqCounter, event, myHead, m7Vars>>

\* It writes ring_->head and returns Ok.
Publish(s) ==
  /\ pc[s] = "publish"
  /\ head' = NextIndex(myHead[s])
  /\ pc' = [pc EXCEPT ![s] = "idle"]
  /\ UNCHANGED <<slots, seqCounter, event, myHead, m7Vars>>

Send(s) ==
  \/ \E c \in Commands : LoadHead(s, c)
  \/ CheckFull(s)
  \/ FillSlot(s)
  \/ StampHeader(s)
  \/ AdvanceCounter(s)
  \/ Publish(s)

-----------------------------------------------------------------------------
\* VerifyE2e(slot, expectedCounter)
VerifyE2e(slot, expected) ==
  IF slot.crc # <<slot.command, slot.counter>> THEN "kChecksumMismatch"
  ELSE IF slot.counter # expected THEN "kSequenceError"
  ELSE "ok"

\* The M7 finds the ring non-empty and reads the slot at tail.  After a
\* mismatch it follows the counter it saw.
M7Read ==
  /\ ~m7Holds
  /\ head # tail
  /\ m7Verdict' = VerifyE2e(slots[tail], m7Counter)
  /\ m7Counter' = NextCounter(slots[tail].counter)
  /\ m7Holds' = TRUE
  /\ UNCHANGED <<head, tail, slots, seqCounter, sendVars>>

\* It gives the slot back.
M7Release ==
  /\ m7Holds
  /\ tail' = NextIndex(tail)
  /\ m7Holds' = FALSE
  /\ UNCHANGED <<head, slots, seqCounter, sendVars, m7Counter, m7Verdict>>

Next == M7Read \/ M7Release \/ \E s \in Senders : Send(s)

Spec == Init /\ [][Next]_vars

-----------------------------------------------------------------------------
TypeOK ==
  /\ head \in Index
  /\ tail \in Index
  /\ slots \in [Index -> Slot]
  /\ seqCounter \in Counter
  /\ pc \in [Senders -> {"idle", "check", "fill", "stamp", "count", "publish"}]
  /\ event \in [Senders -> Commands \cup {NoCommand}]
  /\ myHead \in [Senders -> Index]
  /\ m7Counter \in Counter
  /\ m7Verdict \in {"ok", "kChecksumMismatch", "kSequenceError"}
  /\ m7Holds \in BOOLEAN

\* A sender that writes a slot owns it: it is the next one to publish, the
\* M7 cannot see it, and publishing it will not make the ring look empty.
WriterOwnsSlot ==
  \A s \in Senders :
    pc[s] \in {"fill", "stamp", "count", "publish"}
      => /\ myHead[s] = head
         /\ NextIndex(head) # tail
         /\ myHead[s] \notin Unread

\* What makes the M7 accept every slot.  Due is the counter that the next slot
\* to be published bears: stamped already, or still in seqCounter.
Stamped == \E s \in Senders : pc[s] = "publish"
Due == IF Stamped THEN slots[head].counter ELSE seqCounter

\* The published slots are intact, numbered without gaps up to Due, and start
\* at the counter the M7 expects.
CountersContiguous ==
  /\ \A i \in Unread :
       /\ slots[i].crc = <<slots[i].command, slots[i].counter>>
       /\ IF NextIndex(i) = head
          THEN Due = NextCounter(slots[i].counter)
          ELSE slots[NextIndex(i)].counter = NextCounter(slots[i].counter)
  /\ head = tail => m7Counter = Due /\ ~m7Holds
  /\ head # tail =>
       m7Counter = IF m7Holds THEN NextCounter(slots[tail].counter)
                              ELSE slots[tail].counter

\* Whatever the M7 reads passes VerifyE2e(): neither CRC nor counter is off.
M7AcceptsAll == m7Verdict = "ok"

\* The bridge is a FIFO of Slots - 1 commands.
Queue == INSTANCE CommandQueue
           WITH Capacity <- Slots - 1,
                queue <- [k \in 1..Used |-> slots[At(k - 1)].command]

ImplementsQueue == Queue!Spec
=============================================================================
