------------------------------ MODULE CrcDivision -----------------------------
(***************************************************************************)
(* What the CRC of E2eCrc is meant to be: the remainder of a division of   *)
(* polynomials over GF(2), a polynomial being the set of its exponents.    *)
(***************************************************************************)
EXTENDS E2eCrc, FiniteSets

\* A right-shifting register holds the coefficient of x^(15 - i) in bit i, so
\* 0x8005 stands for x^16 + x^15 + x^13 + 1, which is not the generator of
\* CRC-16/ARC (x^16 + x^15 + x^2 + 1, 0xA001 here).
Generator == {0, 13, 15, 16}

\* p times x^n.
Raised(p, n) == {k + n : k \in p}

\* A multiple of Generator takes away the coefficient of x^top.
Cleared(p, top) ==
  IF top \in p THEN SymDiff(p, Raised(Generator, top - 16)) ELSE p

\* p modulo Generator, for p of a degree below 32.
Reduced(p) ==
  LET r[k \in 0..16] == IF k = 0 THEN p ELSE Cleared(r[k - 1], 32 - k)
  IN r[16]

\* x^n modulo Generator by squaring, for the exponents that a slot has room for:
\* over GF(2) the square of a polynomial has its exponents doubled.
Exponents == 0..(8 * kSlotBytes - 1)
Power ==
  LET power[n \in Exponents] ==
        IF n = 0 THEN {0} ELSE Reduced({2 * k + (n % 2) : k \in power[n \div 2]})
  IN [n \in Exponents |-> power[n]]

Remainder(p) == FoldSet(LAMBDA n, sum : SymDiff(Power[n], sum), {}, p)

\* A message times x^16, its first byte and low bits foremost.
Polynomial(data) ==
  UNION {{16 + 8 * (Len(data) - i) + 7 - bit : bit \in data[i]} :
           i \in DOMAIN data}

Reflected(p) == {15 - k : k \in p}

IsRemainder(crc, data) == crc = Reflected(Remainder(Polynomial(data)))

\* The exponent that a bit of a slot stands for: the message's bits come first,
\* those of the CRC after them.
Exponent(p) == IF p \in CrcBits THEN 15 - p ELSE 8 * (kSlotBytes + kCrcOffset) - 1 - p
=============================================================================
