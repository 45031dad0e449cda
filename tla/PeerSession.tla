----------------------------- MODULE PeerSession -----------------------------
(***************************************************************************)
(* What the hybrid handshake promises: a session is trusted only after the *)
(* peer it was opened with has signed its own, never used before challenge *)
(* with both of its keys, first the classical and then the post-quantum    *)
(* one counted; it may be closed at any time.                              *)
(***************************************************************************)
CONSTANTS Clients, Nonces, NoClient, NoNonce

VARIABLES
  phase,
  peer,
  nonce,
  challenged,   \* the challenges issued, as <<client, nonce>>
  eccSigned,    \* the challenges that their client signed, classically ...
  pqcSigned     \* ... and with its post-quantum key

sessionVars == <<phase, peer, nonce>>
vars == <<sessionVars, challenged, eccSigned, pqcSigned>>

Init ==
  /\ phase = "closed" /\ peer = NoClient /\ nonce = NoNonce
  /\ challenged = {} /\ eccSigned = {} /\ pqcSigned = {}

Open(c, n) ==
  /\ phase = "closed"
  /\ \A used \in challenged : used[2] # n
  /\ phase' = "open" /\ peer' = c /\ nonce' = n
  /\ challenged' = challenged \cup {<<c, n>>}
  /\ UNCHANGED <<eccSigned, pqcSigned>>

\* The peer signs, whenever the challenge reaches it.
Sign(challenge) ==
  /\ \/ eccSigned' = eccSigned \cup {challenge} /\ UNCHANGED pqcSigned
     \/ pqcSigned' = pqcSigned \cup {challenge} /\ UNCHANGED eccSigned
  /\ UNCHANGED <<sessionVars, challenged>>

Advance(from, to, signed) ==
  /\ phase = from /\ phase' = to
  /\ <<peer, nonce>> \in signed
  /\ UNCHANGED <<peer, nonce, challenged, eccSigned, pqcSigned>>

Close ==
  /\ phase' = "closed" /\ peer' = NoClient /\ nonce' = NoNonce
  /\ UNCHANGED <<challenged, eccSigned, pqcSigned>>

Next ==
  \/ \E c \in Clients, n \in Nonces : Open(c, n)
  \/ \E challenge \in challenged : Sign(challenge)
  \/ Advance("open", "proved", eccSigned)
  \/ Advance("proved", "trusted", pqcSigned)
  \/ Close

Spec == Init /\ [][Next]_vars
=============================================================================
