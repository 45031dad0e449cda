-------------------------- MODULE V2xNetworkAdapter --------------------------
(***************************************************************************)
(* V2xNetworkAdapter over V2xTrustVerifier, with the radio, the vehicles   *)
(* and the clock it needs.  Vehicles are honest; the radio loses, repeats, *)
(* delays and corrupts frames, and may put a part of one frame beside a    *)
(* part of another.  now_fn is any clock: it may stand still or step back. *)
(***************************************************************************)
EXTENDS V2xTrustVerifier, FiniteSets

CONSTANTS
  Times,         \* what now_fn may return
  PayloadLens,   \* payload_len fields that frames may carry
  MaxSigned,     \* bound on the messages that the vehicles sign
  NoAdvisory,    \* a zeroed SoaEvent
  NoReading      \* the clock has not been read for the frame at hand

ASSUME TimeAssumption == Times \subseteq Nat /\ NoReading \notin Times

kV2xWireFrameBytes == 472
kBsmCorePayloadBytes == 16
kAdvisoryBytes == 25      \* payloadLen of PackAdvisory()

VARIABLES
  initialised,
  last_trust_status,
  frame,         \* the caller's WireFrame
  event,         \* the caller's SoaEvent
  result,        \* what the last call of the adapter returned
  reading,       \* history: the clock as read for the frame at hand
  faulted,       \* history: the crypto platform failed meanwhile
  signed         \* history: the messages signed, as <<key, message>>

adapterVars == <<initialised, last_trust_status>>
vars == <<adapterVars, frame, event, result, reading, faulted, signed>>

Blank == [subject_public_key |-> Noise, valid_from_epoch_s |-> 0,
          valid_until_epoch_s |-> 0, issuer_signature |-> Signed(Noise, Noise)]

Init ==
  /\ initialised = FALSE
  /\ last_trust_status = "kInvalidInput"
  /\ frame = [length |-> 0, payload_len |-> 0, payload |-> Noise,
              pseudonym_cert |-> Blank, intermediate_cert |-> Blank,
              bsm_signature |-> Signed(Noise, Noise)]
  /\ event = NoAdvisory
  /\ result = "kOk"
  /\ reading = NoReading
  /\ faulted = FALSE
  /\ signed = {}

-----------------------------------------------------------------------------
\* A vehicle signs a message with the key of one of its pseudonyms.
Sign(pseudonym, message) ==
  /\ Cardinality(signed) < MaxSigned
  /\ signed' = signed \cup {<<pseudonym.subject_public_key, message>>}
  /\ UNCHANGED <<adapterVars, frame, event, result, reading, faulted>>

\* The radio hands over a frame of the right length: any payload, certificates
\* and signature that go around, and any length field.
Signatures == {Signed(s[1], s[2]) : s \in signed} \cup {Signed(Noise, Noise)}

Arrive ==
  /\ \E len \in PayloadLens, message \in Messages, leaf \in Pseudonyms,
        authority \in Authorities, signature \in Signatures :
       frame' = [length |-> kV2xWireFrameBytes, payload_len |-> len,
                 payload |-> message, pseudonym_cert |-> leaf,
                 intermediate_cert |-> authority, bsm_signature |-> signature]
  /\ reading' = NoReading
  /\ faulted' = FALSE
  /\ UNCHANGED <<adapterVars, event, result, signed>>

\* Init()
Initialise ==
  /\ initialised' = TRUE
  /\ result' = "kOk"
  /\ UNCHANGED <<last_trust_status, frame, event, reading, faulted, signed>>

\* Receive() and Transmit(): no transport is bound.
NotBound ==
  /\ result' = "kNotInitialized"
  /\ UNCHANGED <<adapterVars, frame, event, reading, faulted, signed>>

UnpackWireFrame(wire) ==
  wire.length = kV2xWireFrameBytes /\ wire.payload_len <= kMaxBsmPayloadBytes

\* The key stands for its hash, pseudonym_correlation_hash.
PackAdvisory(bsm) == <<bsm.pseudonym_cert.subject_public_key, bsm.payload>>

ErrorOf(status) == IF status = "kCryptoError" THEN "kUnknown" ELSE "kUnauthorized"

\* The hash of the pseudonym's key, for the correlation field of a trusted
\* message, may fail too.
Correlated(status, fault) ==
  IF status = "kTrusted" /\ fault = "pseudonym" THEN "kCryptoError" ELSE status

\* Deserialise(frame, event)
DeserialiseTooEarly ==
  /\ ~initialised
  /\ result' = "kNotInitialized"
  /\ UNCHANGED <<adapterVars, frame, event, reading, faulted, signed>>

DeserialiseMalformed ==
  /\ initialised
  /\ ~UnpackWireFrame(frame) \/ frame.payload_len # kBsmCorePayloadBytes
  /\ last_trust_status' = "kInvalidInput"
  /\ result' = "kInvalidArgument"
  /\ UNCHANGED <<initialised, frame, event, reading, faulted, signed>>

\* Mutant: the status of the chain stays when the last hash fails.
DeserialiseChainStatusKept(nowEpochS, fault) ==
  /\ initialised
  /\ UnpackWireFrame(frame) /\ frame.payload_len = kBsmCorePayloadBytes
  /\ LET status == VerifyChain(frame, nowEpochS, fault) IN
       /\ last_trust_status' = status
       /\ IF Correlated(status, fault) = "kTrusted"
          THEN result' = "kOk" /\ event' = PackAdvisory(frame)
          ELSE result' = ErrorOf(Correlated(status, fault)) /\ UNCHANGED event
  /\ reading' = nowEpochS
  /\ faulted' = (fault # "none")
  /\ UNCHANGED <<initialised, frame, signed>>

DeserialiseChain(nowEpochS, fault) ==
  /\ initialised
  /\ UnpackWireFrame(frame) /\ frame.payload_len = kBsmCorePayloadBytes
  /\ LET status == Correlated(VerifyChain(frame, nowEpochS, fault), fault) IN
       /\ last_trust_status' = status
       /\ IF status = "kTrusted"
          THEN result' = "kOk" /\ event' = PackAdvisory(frame)
          ELSE result' = ErrorOf(status) /\ UNCHANGED event
  /\ reading' = nowEpochS
  /\ faulted' = (fault # "none")
  /\ UNCHANGED <<initialised, frame, signed>>

\* Serialise(event, frame) into the same buffer: the advisory covers the head of
\* the frame, payload_len included; the certificates behind it stay.
Serialise ==
  /\ IF ~initialised \/ event = NoAdvisory
     THEN /\ result' = IF initialised THEN "kInvalidArgument" ELSE "kNotInitialized"
          /\ UNCHANGED <<frame, reading, faulted>>
     ELSE /\ \E len \in PayloadLens :
               frame' = [frame EXCEPT !.length = kAdvisoryBytes,
                                      !.payload_len = len, !.payload = Noise]
          /\ result' = "kOk"
          /\ reading' = NoReading
          /\ faulted' = FALSE
  /\ UNCHANGED <<adapterVars, event, signed>>

Next ==
  \/ \E pseudonym \in Pseudonyms, message \in Messages : Sign(pseudonym, message)
  \/ Arrive
  \/ Initialise
  \/ NotBound
  \/ DeserialiseTooEarly
  \/ DeserialiseMalformed
  \/ \E nowEpochS \in Times, fault \in CryptoSteps \cup {"none"} :
       DeserialiseChain(nowEpochS, fault)
  \/ Serialise

Spec == Init /\ [][Next]_vars

-----------------------------------------------------------------------------
\* Once a frame has been judged and GetLastTrustStatus() says kTrusted, the
\* event carries that very frame's message under its pseudonym, even though a
\* call can still fail after the chain has been found good.
StatusTellsPublished ==
  reading # NoReading /\ last_trust_status = "kTrusted" => event = PackAdvisory(frame)

\* The chain's links, in the order in which a receiver must not look past them.
Links ==
  <<[verdict |-> "kRootSignatureInvalid",
     holds |-> VerifyCertSignature(frame.intermediate_cert, RootKey)],
    [verdict |-> "kIntermediateExpired",
     holds |-> WithinValidity(frame.intermediate_cert, reading)],
    [verdict |-> "kLeafSignatureInvalid",
     holds |-> VerifyCertSignature(frame.pseudonym_cert,
                                   frame.intermediate_cert.subject_public_key)],
    [verdict |-> "kLeafExpired",
     holds |-> WithinValidity(frame.pseudonym_cert, reading)],
    [verdict |-> "kBsmSignatureInvalid",
     holds |-> frame.bsm_signature
                 = Signed(frame.pseudonym_cert.subject_public_key, frame.payload)]>>

\* "First failure wins", and it is named right: before the link that the status
\* names all hold, and it is broken itself unless the crypto platform failed.
VerdictIsFirstFailure ==
  reading # NoReading =>
    \A i \in 1 .. 5 : last_trust_status = Links[i].verdict =>
      /\ \A j \in 1 .. i - 1 : Links[j].holds
      /\ ~Links[i].holds \/ faulted

\* Advisories come from signed messages of pseudonyms in force only: the
\* adapter implements AdvisoryFeed.
Feed ==
  INSTANCE AdvisoryFeed WITH
    advisory <- event,
    trustedAt <- IF last_trust_status = "kTrusted" THEN reading ELSE NoReading

ImplementsFeed == Feed!Spec
==============================================================================
