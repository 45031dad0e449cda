-------------------------------- MODULE E2eCrc --------------------------------
(***************************************************************************)
(* The CRC that ComputeE2eCrc() puts into the header of an IpcSlot: the    *)
(* generated table, the byte-wise computation, and what flipped bits do to *)
(* its verification.                                                       *)
(*                                                                         *)
(* A word is the set of the positions of its bits that are 1 (position 0   *)
(* is the least significant), so that exclusive or is SymDiff.  A message  *)
(* is a sequence of bytes.                                                 *)
(***************************************************************************)
EXTENDS Integers, Sequences, FiniteSetsExt

Byte == SUBSET (0..7)
Word == SUBSET (0..15)

\* sizeof(IpcSlot), and the bytes of it that the CRC protects.
kSlotBytes == 148
kCrcOffset == 2
kProtectedLen == kSlotBytes - kCrcOffset

ShiftRight(word, n) == {i - n : i \in {j \in word : j >= n}}

\* 0x8005, exclusive-ored in when a 1 leaves the register at its low end.
kFeedback == {0, 2, 15}

Shifted(word) ==
  IF 0 \in word THEN SymDiff(ShiftRight(word, 1), kFeedback)
                ELSE ShiftRight(word, 1)

\* Mutant: one bit of the index is not shifted through.
GenerateCrcEntryShort(idx) ==
  LET crc[bit \in 0..7] == IF bit = 0 THEN idx ELSE Shifted(crc[bit - 1])
  IN crc[7]

GenerateCrcEntry(idx) ==
  LET crc[bit \in 0..8] == IF bit = 0 THEN idx ELSE Shifted(crc[bit - 1])
  IN crc[8]

kCrcTable == [idx \in Byte |-> GenerateCrcEntry(idx)]

\* Mutant: the register is not shifted before the table's entry goes in.
NextCrcUnshifted(crc, byte) ==
  SymDiff(crc, kCrcTable[SymDiff(crc \cap (0..7), byte)])

\* One byte of ComputeE2eCrc()'s loop.
NextCrc(crc, byte) ==
  SymDiff(ShiftRight(crc, 8), kCrcTable[SymDiff(crc \cap (0..7), byte)])

\* The loop, from a register and the number of the next byte.
ComputeE2eCrc(data) ==
  LET crc[at \in Word \X (1..(Len(data) + 1))] ==
        IF at[2] > Len(data) THEN at[1]
        ELSE crc[<<NextCrc(at[1], data[at[2]]), at[2] + 1>>]
  IN crc[<<{}, 1>>]

-----------------------------------------------------------------------------
\* The CRC in the first two bytes of a slot, and the bytes after it.
CrcField(slot) == slot[1] \cup {8 + bit : bit \in slot[2]}
Protected(slot) == [i \in 1..kProtectedLen |-> slot[kCrcOffset + i]]

\* VerifyE2e() finds no kChecksumMismatch.
CrcMatches(slot) == ComputeE2eCrc(Protected(slot)) = CrcField(slot)

\* What the CRC that it computes and the one in the slot differ in.
CrcDifference(slot) == SymDiff(ComputeE2eCrc(Protected(slot)), CrcField(slot))

\* The bits of a slot are numbered from its first byte, low bits first: 0..15
\* are the CRC, the others are protected by it.
SlotBits == 0..(8 * kSlotBytes - 1)
CrcBits == 0..(8 * kCrcOffset - 1)

\* A slot in which these bits have flipped.
Damaged(slot, flips) ==
  [k \in 1..kSlotBytes |->
     SymDiff(slot[k], {p % 8 : p \in {q \in flips : q \div 8 = k - 1}})]

\* What flipping one bit of a slot adds to that difference.
Syndrome ==
  [p \in SlotBits |-> CrcDifference(Damaged([k \in 1..kSlotBytes |-> {}], {p}))]

\* That difference after several flips.
Residue(flips) == FoldSet(LAMBDA p, sum : SymDiff(Syndrome[p], sum), {}, flips)

\* VerifyE2e() finds the CRC of a slot intact although these bits were flipped.
Undetected(flips) == Residue(flips) = {}
=============================================================================
