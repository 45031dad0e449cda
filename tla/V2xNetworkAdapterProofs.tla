---------------------- MODULE V2xNetworkAdapterProofs ----------------------
(***************************************************************************)
(* V2xNetworkAdapter for any certificates, keys, messages, clock readings  *)
(* and any number of vehicles' signatures.                                 *)
(***************************************************************************)
EXTENDS V2xNetworkAdapter, TLAPS

\* A frame of the right length holds parts that go around; the shorter one that
\* Serialise() leaves, or the zeroed one, need not.
Whole ==
  frame.length = kV2xWireFrameBytes =>
    /\ frame.payload \in Messages
    /\ frame.pseudonym_cert \in Pseudonyms
    /\ frame.intermediate_cert \in Authorities
    /\ \/ frame.bsm_signature = Signed(Noise, Noise)
       \/ \E s \in signed : frame.bsm_signature = Signed(s[1], s[2])

\* The WireFrame is a record with these fields.
FrameShape ==
  frame = [length |-> frame.length, payload_len |-> frame.payload_len,
           payload |-> frame.payload, pseudonym_cert |-> frame.pseudonym_cert,
           intermediate_cert |-> frame.intermediate_cert,
           bsm_signature |-> frame.bsm_signature]

\* A message that is signed is a pair, by a pseudonym's key.
Genuine == \A s \in signed : s = <<s[1], s[2]>>

Typing ==
  /\ initialised \in BOOLEAN
  /\ last_trust_status \in V2xTrustStatus
  /\ reading \in Times \cup {NoReading}
  /\ Genuine
  /\ FrameShape

IInv == Typing /\ Whole

LEMMA VerdictType ==
  ASSUME NEW bsm, NEW t, NEW fault
  PROVE  VerifyChain(bsm, t, fault) \in V2xTrustStatus
BY DEF VerifyChain, V2xTrustStatus

LEMMA SignaturesGrow ==
  ASSUME signed \subseteq signed', Whole, UNCHANGED frame
  PROVE  Whole'
BY DEF Whole

\* The strengthening holds at the start and every step preserves it.
THEOREM Invariance == Spec => []IInv
<1>1. Init => IInv
  <2> SUFFICES ASSUME Init PROVE IInv
    OBVIOUS
  <2>1. FrameShape /\ frame.length = 0
    BY DEF Init, FrameShape
  <2>2. Whole
    BY <2>1 DEF Whole, kV2xWireFrameBytes
  <2>3. QED
    BY <2>1, <2>2 DEF Init, IInv, Typing, Genuine, V2xTrustStatus
<1>2. IInv /\ [Next]_vars => IInv'
  <2> SUFFICES ASSUME IInv, [Next]_vars PROVE IInv'
    OBVIOUS
  <2> USE DEF IInv
  <2>1. ASSUME NEW pseudonym \in Pseudonyms, NEW message \in Messages,
               Sign(pseudonym, message)
        PROVE  IInv'
    <3>1. signed \subseteq signed' /\ UNCHANGED <<adapterVars, frame, reading>>
      BY <2>1 DEF Sign
    <3>2. Genuine'
      BY <2>1 DEF Sign, Typing, Genuine
    <3>3. Typing'
      BY <3>1, <3>2 DEF Typing, FrameShape, adapterVars
    <3>4. QED
      BY <3>1, <3>3, SignaturesGrow
  <2>2. CASE Arrive
    <3>1. Typing'
      BY <2>2 DEF Arrive, Typing, Genuine, FrameShape, adapterVars
    <3>2. Whole'
      BY <2>2 DEF Arrive, Whole, Signatures
    <3>3. QED
      BY <3>1, <3>2
  <2>3. CASE Initialise \/ NotBound \/ DeserialiseTooEarly \/ DeserialiseMalformed
    <3>1. UNCHANGED <<frame, signed, reading>>
      BY <2>3 DEF Initialise, NotBound, DeserialiseTooEarly, DeserialiseMalformed
    <3>2. initialised' \in BOOLEAN /\ last_trust_status' \in V2xTrustStatus
      BY <2>3 DEF Initialise, NotBound, DeserialiseTooEarly, DeserialiseMalformed,
                  Typing, adapterVars, V2xTrustStatus
    <3>3. QED
      BY <3>1, <3>2, SignaturesGrow DEF Typing, Genuine, FrameShape
  <2>4. ASSUME NEW nowEpochS \in Times, NEW fault, DeserialiseChain(nowEpochS, fault)
        PROVE  IInv'
    <3>1. UNCHANGED <<frame, signed, initialised>> /\ reading' \in Times
      BY <2>4 DEF DeserialiseChain
    <3>2. last_trust_status' \in V2xTrustStatus
      BY <2>4, VerdictType DEF DeserialiseChain, Correlated, V2xTrustStatus
    <3>3. QED
      BY <3>1, <3>2, SignaturesGrow DEF Typing, Genuine, FrameShape
  <2>5. CASE Serialise
    <3>1. UNCHANGED <<adapterVars, signed>> /\ reading' \in {reading, NoReading}
      BY <2>5 DEF Serialise
    <3>2. CASE UNCHANGED frame
      BY <3>1, <3>2, SignaturesGrow DEF Typing, Genuine, FrameShape, adapterVars
    <3>3. CASE ~UNCHANGED frame
      <4>1. PICK len \in PayloadLens :
              frame' = [frame EXCEPT !.length = kAdvisoryBytes,
                                     !.payload_len = len, !.payload = Noise]
        BY <2>5, <3>3 DEF Serialise
      <4>2. frame' = [length |-> kAdvisoryBytes, payload_len |-> len,
                      payload |-> Noise, pseudonym_cert |-> frame.pseudonym_cert,
                      intermediate_cert |-> frame.intermediate_cert,
                      bsm_signature |-> frame.bsm_signature]
        BY <4>1 DEF Typing, FrameShape
      <4>3. FrameShape' /\ frame'.length = kAdvisoryBytes
        BY <4>2 DEF FrameShape
      <4>4. Whole'
        BY <4>3 DEF Whole, kAdvisoryBytes, kV2xWireFrameBytes
      <4>5. QED
        BY <3>1, <4>3, <4>4 DEF Typing, Genuine, adapterVars
    <3>4. QED
      BY <3>2, <3>3
  <2>6. CASE UNCHANGED vars
    BY <2>6, SignaturesGrow DEF vars, adapterVars, Typing, Genuine, FrameShape
  <2>7. QED
    BY <2>1, <2>2, <2>3, <2>4, <2>5, <2>6 DEF Next
<1>3. QED
  BY <1>1, <1>2, PTL DEF Spec

-----------------------------------------------------------------------------
\* What is known of a frame once it has been judged.
Judged ==
  reading # NoReading =>
    /\ last_trust_status = "kTrusted" =>
         /\ frame.length = kV2xWireFrameBytes
         /\ event = PackAdvisory(frame)
         /\ \A i \in 1 .. 5 : Links[i].holds
    /\ \A i \in 1 .. 5 : last_trust_status = Links[i].verdict =>
         /\ \A j \in 1 .. i - 1 : Links[j].holds
         /\ ~Links[i].holds \/ faulted

\* VerifyChain() walks the links in their order, whatever fails.
LEMMA JudgedByChain ==
  ASSUME NEW t \in Times, NEW fault, DeserialiseChain(t, fault)
  PROVE  Judged'
<1> DEFINE status == Correlated(VerifyChain(frame, t, fault), fault)
           authority == VerifyCertSignature(frame.intermediate_cert, RootKey)
           leaf == VerifyCertSignature(frame.pseudonym_cert,
                                       frame.intermediate_cert.subject_public_key)
           message == frame.bsm_signature
                        = Signed(frame.pseudonym_cert.subject_public_key, frame.payload)
           early == WithinValidity(frame.intermediate_cert, t)
           late == WithinValidity(frame.pseudonym_cert, t)
<1>1. /\ frame' = frame /\ reading' = t /\ last_trust_status' = status
      /\ faulted' = (fault # "none")
      /\ frame.length = kV2xWireFrameBytes
      /\ status = "kTrusted" => event' = PackAdvisory(frame)
      /\ frame.payload_len \in 1 .. kMaxBsmPayloadBytes
  BY DEF DeserialiseChain, UnpackWireFrame, kBsmCorePayloadBytes, kMaxBsmPayloadBytes
<1>2. /\ status = "kTrusted" => authority /\ early /\ leaf /\ late /\ message
      /\ status = "kRootSignatureInvalid" => ~authority \/ fault = "intermediate"
      /\ status = "kIntermediateExpired" => authority /\ ~early
      /\ status = "kLeafSignatureInvalid" =>
           authority /\ early /\ (~leaf \/ fault = "leaf")
      /\ status = "kLeafExpired" => authority /\ early /\ leaf /\ ~late
      /\ status = "kBsmSignatureInvalid" =>
           authority /\ early /\ leaf /\ late /\ (~message \/ fault = "message")
  BY <1>1 DEF VerifyChain, Correlated
<1>3. Links' = <<[verdict |-> "kRootSignatureInvalid", holds |-> authority],
                 [verdict |-> "kIntermediateExpired", holds |-> early],
                 [verdict |-> "kLeafSignatureInvalid", holds |-> leaf],
                 [verdict |-> "kLeafExpired", holds |-> late],
                 [verdict |-> "kBsmSignatureInvalid", holds |-> message]>>
  BY <1>1 DEF Links
<1> HIDE DEF status, authority, early, leaf, late, message
<1>4. /\ Links'[1].verdict = "kRootSignatureInvalid" /\ (Links'[1].holds <=> authority)
      /\ Links'[2].verdict = "kIntermediateExpired" /\ (Links'[2].holds <=> early)
      /\ Links'[3].verdict = "kLeafSignatureInvalid" /\ (Links'[3].holds <=> leaf)
      /\ Links'[4].verdict = "kLeafExpired" /\ (Links'[4].holds <=> late)
      /\ Links'[5].verdict = "kBsmSignatureInvalid" /\ (Links'[5].holds <=> message)
  BY <1>3
<1>5. fault \in {"intermediate", "leaf", "message"} => faulted'
  <2>1. fault # "none" => faulted'
    BY <1>1, Zenon
  <2>2. QED
    BY <2>1
<1>6. status = "kTrusted" => \A i \in 1 .. 5 : Links'[i].holds
  BY <1>2, <1>4
<1>7. ASSUME NEW i \in 1 .. 5, status = Links'[i].verdict
      PROVE  /\ \A j \in 1 .. i - 1 : Links'[j].holds
             /\ ~Links'[i].holds \/ faulted'
  <2>1. CASE i = 1
    BY <1>1, <1>2, <1>4, <1>5, <1>7, <2>1
  <2>2. CASE i = 2
    BY <1>1, <1>2, <1>4, <1>5, <1>7, <2>2
  <2>3. CASE i = 3
    BY <1>1, <1>2, <1>4, <1>5, <1>7, <2>3
  <2>4. CASE i = 4
    BY <1>1, <1>2, <1>4, <1>5, <1>7, <2>4
  <2>5. CASE i = 5
    BY <1>1, <1>2, <1>4, <1>5, <1>7, <2>5
  <2>6. QED
    BY <2>1, <2>2, <2>3, <2>4, <2>5
<1>8. QED
  BY <1>1, <1>6, <1>7 DEF Judged, PackAdvisory

LEMMA JudgedInductive == Judged /\ [Next]_vars => Judged'
<1> SUFFICES ASSUME Judged, [Next]_vars PROVE Judged'
  OBVIOUS
<1>1. CASE UNCHANGED <<frame, reading, faulted, last_trust_status, event>>
  BY <1>1 DEF Judged, Links, PackAdvisory
<1>2. CASE reading' = NoReading
  BY <1>2 DEF Judged
<1>3. CASE DeserialiseMalformed
  BY <1>3 DEF DeserialiseMalformed, Judged, Links
<1>4. ASSUME NEW t \in Times, NEW fault, DeserialiseChain(t, fault)
      PROVE  Judged'
  BY <1>4, JudgedByChain
<1>5. QED
  BY <1>1, <1>2, <1>3, <1>4
     DEF Next, Sign, Arrive, Initialise, NotBound, DeserialiseTooEarly, Serialise,
         vars, adapterVars

LEMMA JudgedAlways == Spec => []Judged
<1>1. Init => Judged
  BY DEF Init, Judged
<1>2. QED
  BY <1>1, JudgedInductive, PTL DEF Spec

\* A standing kTrusted means that the event carries the frame's message.
THEOREM StatusCorrect == Spec => []StatusTellsPublished
<1>1. Judged => StatusTellsPublished
  BY DEF Judged, StatusTellsPublished
<1>2. QED
  BY <1>1, JudgedAlways, PTL

\* The status names the first link that fails.
THEOREM VerdictCorrect == Spec => []VerdictIsFirstFailure
<1>1. Judged => VerdictIsFirstFailure
  BY DEF Judged, VerdictIsFirstFailure
<1>2. QED
  BY <1>1, JudgedAlways, PTL

-----------------------------------------------------------------------------
\* A frame that is found trusted is a publication in the sense of AdvisoryFeed.
LEMMA TrustedPublishes ==
  ASSUME IInv, NEW t \in Times, NEW fault, DeserialiseChain(t, fault),
         last_trust_status' = "kTrusted"
  PROVE  Feed!Next
<1>1. Judged' /\ reading' = t /\ t # NoReading
  BY JudgedByChain, TimeAssumption DEF DeserialiseChain
<1>2. frame' = frame /\ signed' = signed
  BY DEF DeserialiseChain
<1>3. /\ frame.length = kV2xWireFrameBytes /\ event' = PackAdvisory(frame)
      /\ \A i \in 1 .. 5 : Links'[i].holds
  BY <1>1, <1>2 DEF Judged, PackAdvisory
<1>4. Links'[1].holds /\ Links'[2].holds /\ Links'[3].holds /\ Links'[4].holds
      /\ Links'[5].holds
  BY <1>3
<1>5. /\ VerifyCertSignature(frame.intermediate_cert, RootKey)
      /\ WithinValidity(frame.intermediate_cert, t)
      /\ VerifyCertSignature(frame.pseudonym_cert,
                             frame.intermediate_cert.subject_public_key)
      /\ WithinValidity(frame.pseudonym_cert, t)
      /\ frame.bsm_signature
           = Signed(frame.pseudonym_cert.subject_public_key, frame.payload)
  BY <1>1, <1>2, <1>4 DEF Links
<1>6. /\ frame.payload \in Messages
      /\ frame.pseudonym_cert \in Pseudonyms
      /\ frame.intermediate_cert \in Authorities
      /\ \/ frame.bsm_signature = Signed(Noise, Noise)
         \/ \E s \in signed : frame.bsm_signature = Signed(s[1], s[2])
  BY <1>3 DEF IInv, Whole
<1>7. <<frame.pseudonym_cert.subject_public_key, frame.payload>> \in signed
  <2>1. frame.bsm_signature # Signed(Noise, Noise)
    BY <1>5, <1>6, NoiseAssumption DEF Signed
  <2>2. PICK s \in signed : frame.bsm_signature = Signed(s[1], s[2])
    BY <1>6, <2>1
  <2>3. s = <<s[1], s[2]>>
    BY DEF IInv, Typing, Genuine
  <2>4. s[1] = frame.pseudonym_cert.subject_public_key /\ s[2] = frame.payload
    BY <1>5, <2>2 DEF Signed
  <2>5. QED
    BY <2>3, <2>4
<1>8. /\ Feed!InForce(frame.intermediate_cert, t)
      /\ Feed!InForce(frame.pseudonym_cert, t)
  BY <1>5, <1>6, CertificateAssumption, TimeAssumption DEF WithinValidity, Feed!InForce
<1>9. /\ Feed!Vouches(RootKey, frame.intermediate_cert)
      /\ Feed!Vouches(frame.intermediate_cert.subject_public_key, frame.pseudonym_cert)
  BY <1>5 DEF VerifyCertSignature, Signed, CertContent, Feed!Vouches
<1>10. Feed!Publish(frame.intermediate_cert, frame.pseudonym_cert, t)
  BY <1>1, <1>2, <1>3, <1>6, <1>7, <1>8, <1>9 DEF Feed!Publish, PackAdvisory
<1>11. QED
  BY <1>6, <1>10 DEF Feed!Next

\* The adapter implements AdvisoryFeed.
THEOREM IsFeed == Spec => ImplementsFeed
<1>1. Init => Feed!Init
  BY DEF Init, Feed!Init
<1>2. IInv /\ [Next]_vars => [Feed!Next]_Feed!vars
  <2> SUFFICES ASSUME IInv, [Next]_vars PROVE [Feed!Next]_Feed!vars
    OBVIOUS
  <2>1. ASSUME NEW pseudonym \in Pseudonyms, NEW message \in Messages,
               Sign(pseudonym, message)
        PROVE  Feed!Next
    <3>1. Feed!Sign(pseudonym.subject_public_key, message)
      BY <2>1 DEF Sign, Feed!Sign, adapterVars
    <3>2. QED
      BY <3>1 DEF Feed!Next
  <2>2. CASE UNCHANGED <<signed, event, last_trust_status, reading>>
    BY <2>2 DEF Feed!vars
  <2>3. CASE UNCHANGED <<signed, event>>
             /\ (reading' = NoReading \/ last_trust_status' # "kTrusted")
    <3>1. Feed!Turn
      BY <2>3 DEF Feed!Turn
    <3>2. QED
      BY <3>1 DEF Feed!Next
  <2>4. ASSUME NEW t \in Times, NEW fault, DeserialiseChain(t, fault)
        PROVE  [Feed!Next]_Feed!vars
    <3>1. CASE last_trust_status' = "kTrusted"
      BY <2>4, <3>1, TrustedPublishes
    <3>2. CASE last_trust_status' # "kTrusted"
      <4>1. UNCHANGED <<signed, event>>
        BY <2>4, <3>2 DEF DeserialiseChain
      <4>2. QED
        BY <2>3, <3>2, <4>1
    <3>3. QED
      BY <3>1, <3>2
  <2>5. CASE DeserialiseMalformed
    BY <2>3, <2>5 DEF DeserialiseMalformed
  <2>6. QED
    BY <2>1, <2>2, <2>3, <2>4, <2>5
       DEF Next, Arrive, Initialise, NotBound, DeserialiseTooEarly, Serialise,
           vars, adapterVars
<1>3. QED
  BY <1>1, <1>2, Invariance, PTL DEF Spec, ImplementsFeed, Feed!Spec
=============================================================================
