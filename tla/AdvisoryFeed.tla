---------------------------- MODULE AdvisoryFeed ----------------------------
(***************************************************************************)
(* What V2xNetworkAdapter promises to those who use its advisories: one is *)
(* published only for a message that somebody has signed, with a pseudonym *)
(* that was in force, at one reading of the clock, beside the authority    *)
(* that vouches for it, and the root vouches for that authority.           *)
(***************************************************************************)
EXTENDS Integers

CONSTANTS
  Authorities, Pseudonyms,    \* the certificates that go around
  RootKey,
  Times,                      \* what the clock may read
  Messages,
  NoAdvisory, NoReading

VARIABLES
  signed,      \* the messages signed, as <<key, message>>
  advisory,    \* the last one published, as <<key, message>>
  trustedAt    \* the clock's reading for it, while the last verdict stands

vars == <<signed, advisory, trustedAt>>

Init == signed = {} /\ advisory = NoAdvisory /\ trustedAt = NoReading

\* The issuer's signature covers the key and the window.
Vouches(issuer, cert) ==
  cert.issuer_signature =
    [signer |-> issuer,
     content |-> <<cert.subject_public_key,
                   cert.valid_from_epoch_s, cert.valid_until_epoch_s>>]

InForce(cert, t) == t \in cert.valid_from_epoch_s .. cert.valid_until_epoch_s - 1

Sign(key, message) ==
  /\ signed' = signed \cup {<<key, message>>}
  /\ UNCHANGED <<advisory, trustedAt>>

Publish(authority, pseudonym, t) ==
  /\ Vouches(RootKey, authority) /\ InForce(authority, t)
  /\ Vouches(authority.subject_public_key, pseudonym) /\ InForce(pseudonym, t)
  /\ \E message \in Messages :
       /\ <<pseudonym.subject_public_key, message>> \in signed
       /\ advisory' = <<pseudonym.subject_public_key, message>>
  /\ trustedAt' = t
  /\ UNCHANGED signed

\* Another frame is looked at, or was refused: the advisory stays.
Turn ==
  /\ trustedAt' = NoReading
  /\ UNCHANGED <<signed, advisory>>

Next ==
  \/ \E pseudonym \in Pseudonyms, message \in Messages :
       Sign(pseudonym.subject_public_key, message)
  \/ \E authority \in Authorities, pseudonym \in Pseudonyms, t \in Times :
       Publish(authority, pseudonym, t)
  \/ Turn

Spec == Init /\ [][Next]_vars
=============================================================================
