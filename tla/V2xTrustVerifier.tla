-------------------------- MODULE V2xTrustVerifier --------------------------
(***************************************************************************)
(* V2xTrustVerifier: the chain from the root key over the intermediate and *)
(* the pseudonym certificate to one signed message, judged link by link    *)
(* against one reading of the clock.                                       *)
(*                                                                         *)
(* A signature is who signed what; Noise stands for bytes that nobody      *)
(* signed.  Any call of the crypto platform may fail: fault is the step in *)
(* which one does, or "none"; a failing step is always the last.           *)
(***************************************************************************)
EXTENDS Integers

CONSTANTS
  Authorities,   \* the intermediate certificates that frames may carry, ...
  Pseudonyms,    \* ... and the pseudonym certificates, damaged ones included
  RootKey,
  Messages,      \* payloads of the right size
  Noise

ASSUME CertificateAssumption ==
  \A cert \in Authorities \cup Pseudonyms :
    cert.valid_from_epoch_s \in Nat /\ cert.valid_until_epoch_s \in Nat

ASSUME NoiseAssumption == Noise \notin Messages

kMaxBsmPayloadBytes == 192

V2xTrustStatus ==
  {"kTrusted", "kInvalidInput", "kRootSignatureInvalid", "kIntermediateExpired",
   "kLeafSignatureInvalid", "kLeafExpired", "kBsmSignatureInvalid", "kCryptoError"}

\* The steps of one verification in which the platform is called: the two calls
\* of VerifyCertSignature() count as one, since it does not tell them apart.
CryptoSteps == {"intermediate", "leaf", "payload", "message", "pseudonym"}

Signed(key, content) == [signer |-> key, content |-> content]

CertContent(cert) ==
  <<cert.subject_public_key, cert.valid_from_epoch_s, cert.valid_until_epoch_s>>

VerifyCertSignature(cert, issuer) ==
  cert.issuer_signature = Signed(issuer, CertContent(cert))

\* Mutant: the end of the window is in it.
WithinValidityInclusive(cert, nowEpochS) ==
  cert.valid_from_epoch_s <= nowEpochS /\ nowEpochS <= cert.valid_until_epoch_s

WithinValidity(cert, nowEpochS) ==
  cert.valid_from_epoch_s <= nowEpochS /\ nowEpochS < cert.valid_until_epoch_s

\* Mutant: the chain is walked from the leaf.
VerifyChainLeafFirst(bsm, nowEpochS, fault) ==
  IF bsm.payload_len \notin 1 .. kMaxBsmPayloadBytes
  THEN "kInvalidInput"
  ELSE IF fault = "leaf"
          \/ ~VerifyCertSignature(bsm.pseudonym_cert, bsm.intermediate_cert.subject_public_key)
  THEN "kLeafSignatureInvalid"
  ELSE IF ~WithinValidity(bsm.pseudonym_cert, nowEpochS)
  THEN "kLeafExpired"
  ELSE IF fault = "intermediate" \/ ~VerifyCertSignature(bsm.intermediate_cert, RootKey)
  THEN "kRootSignatureInvalid"
  ELSE IF ~WithinValidity(bsm.intermediate_cert, nowEpochS)
  THEN "kIntermediateExpired"
  ELSE IF fault = "payload"
  THEN "kCryptoError"
  ELSE IF fault = "message"
          \/ bsm.bsm_signature # Signed(bsm.pseudonym_cert.subject_public_key, bsm.payload)
  THEN "kBsmSignatureInvalid"
  ELSE "kTrusted"

\* VerifyChain(bsm, nowEpochS): the first failure wins.
VerifyChain(bsm, nowEpochS, fault) ==
  IF bsm.payload_len \notin 1 .. kMaxBsmPayloadBytes
  THEN "kInvalidInput"
  ELSE IF fault = "intermediate" \/ ~VerifyCertSignature(bsm.intermediate_cert, RootKey)
  THEN "kRootSignatureInvalid"
  ELSE IF ~WithinValidity(bsm.intermediate_cert, nowEpochS)
  THEN "kIntermediateExpired"
  ELSE IF fault = "leaf"
          \/ ~VerifyCertSignature(bsm.pseudonym_cert, bsm.intermediate_cert.subject_public_key)
  THEN "kLeafSignatureInvalid"
  ELSE IF ~WithinValidity(bsm.pseudonym_cert, nowEpochS)
  THEN "kLeafExpired"
  ELSE IF fault = "payload"
  THEN "kCryptoError"
  ELSE IF fault = "message"
          \/ bsm.bsm_signature # Signed(bsm.pseudonym_cert.subject_public_key, bsm.payload)
  THEN "kBsmSignatureInvalid"
  ELSE "kTrusted"
=============================================================================
