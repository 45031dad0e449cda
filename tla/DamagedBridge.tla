----------------------------- MODULE DamagedBridge ----------------------------
(***************************************************************************)
(* The bridge with its CRC and with damage to the shared memory.           *)
(* IpcBridge takes the CRC of a slot to be the pair it was computed over;  *)
(* here a published slot is made of bytes, bits of it flip, and the M7     *)
(* discards a slot whose CRC does not verify.                              *)
(*                                                                         *)
(* Damage is confined to one slot, the first that is sent (DamageWindow),  *)
(* and to MaxFlips bits of it: what flipped bits add to the CRC depends on *)
(* their positions only, not on the slot.                                  *)
(***************************************************************************)
EXTENDS IpcBridge, E2eCrc

CONSTANTS
  MaxFlips,       \* how many bits flip
  FirstCommand    \* the command in the slot that they flip in

VARIABLE damage   \* the bits of the slot at tail that have flipped

damageVars == <<vars, damage>>

DamageInit == Init /\ damage = {}

DamageWindow ==
  /\ <<tail, head, seqCounter, m7Holds>> = <<0, 1, 1, FALSE>>
  /\ \A s \in Senders : pc[s] = "idle"
  /\ slots[0].command = FirstCommand
  /\ \A i \in Index \ {0} : slots[i] = ZeroSlot

\* One more bit flips (in ascending order: only the set of them matters).
Flip ==
  /\ DamageWindow
  /\ Cardinality(damage) < MaxFlips
  /\ \E p \in SlotBits :
       /\ \A q \in damage : q < p
       /\ damage' = damage \cup {p}
  /\ UNCHANGED vars

\* The M7 finds kChecksumMismatch and drops the slot.
RefuseDamaged ==
  /\ damage # {}
  /\ ~Undetected(damage)
  /\ tail' = NextIndex(tail)
  /\ m7Counter' = NextCounter(m7Counter)
  /\ damage' = {}
  /\ UNCHANGED <<head, slots, seqCounter, sendVars, m7Verdict, m7Holds>>

Intact == damage = {} /\ Next /\ UNCHANGED damage

DamageNext == Intact \/ Flip \/ RefuseDamaged

DamageSpec == DamageInit /\ [][DamageNext]_damageVars

-----------------------------------------------------------------------------
\* No slot is taken for intact in which one or two bits have flipped, in the
\* protected region or in the CRC.
DamageDetected == damage # {} => ~Undetected(damage)

\* Nor is one in which an odd number of bits has flipped, however many: every
\* flip, of a protected bit or of one of the CRC, changes the parity of what
\* the CRC that VerifyE2e() computes and the one it finds differ in.
DamageParity == Cardinality(Residue(damage)) % 2 = Cardinality(damage) % 2
=============================================================================
