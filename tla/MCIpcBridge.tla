------------------------------ MODULE MCIpcBridge -----------------------------
(***************************************************************************)
(* The damaged bridge for model checking, with what the CRC of its slots   *)
(* ought to be.                                                            *)
(***************************************************************************)
EXTENDS DamagedBridge, CrcDivision

ASSUME CommandsAssumption == Commands \subseteq Nat

-----------------------------------------------------------------------------
\* The protected bytes of a slot: the rest of the header, the fields of the
\* event, 24 bytes of command, and padding.  What is in a command does not
\* matter here, as long as commands differ in many of its bytes.
Bits(n) == {b \in 0..7 : (n \div 2^b) % 2 = 1}
SlotBytes(command, counter) ==
  <<Bits(counter), Bits(1), Bits(kSlotBytes), {}, {}, {}>>
    \o <<Bits(16), {}, Bits(3), {}, {}, {}, {}, {}, Bits(24), {}, {}, {}>>
    \o [k \in 1..24 |-> Bits((53 * command + 29 * k) % 256)]
    \o [k \in 1..104 |-> {}]

\* Whether the CRC over a command and a counter is the remainder.
Divided ==
  [command \in Commands |->
     [counter \in Counter |->
        LET data == SlotBytes(command, counter)
        IN IsRemainder(ComputeE2eCrc(data), data)]]

\* The table and the byte-wise loop are a division of polynomials: the CRC of
\* every slot the M7 is given is the remainder modulo Generator, and so is what
\* one flipped bit adds to it.
CrcIsDivision ==
  /\ \A i \in Unread : Divided[slots[i].command][slots[i].counter]
  /\ \A p \in damage :
       Cardinality(damage) = 1 => Syndrome[p] = Reflected(Power[Exponent(p)])
=============================================================================
