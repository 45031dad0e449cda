------------------------ MODULE HybridAuthGateProofs ------------------------
(***************************************************************************)
(* HybridAuthGate for any clients, peers and number of handshakes.         *)
(***************************************************************************)
EXTENDS HybridAuthGate, TLAPS

\* While a challenge is out, it is the one that the caller captured, it was
\* issued, and no post-quantum check has failed under it.
OpenMatches ==
  state = "kChallengeSent" =>
    /\ captured = <<pendingClientId, pendingNonce>>
    /\ captured \in challenged
    /\ pendingNonce \notin rejected

\* An authenticated session rests on the classical signature of its peer.
ProvedMatches ==
  state = "kAuthenticated" => captured \in eccSigned

\* Only nonces of issued challenges have been rejected, so that a fresh one is
\* not among them.
RejectedIssued == \A n \in rejected : ~Fresh(n)

TrustedMatches ==
  trusted =>
    /\ state = "kAuthenticated"
    /\ provider = "mldsa"
    /\ captured \in pqcSigned

IInv ==
  /\ TypeOK
  /\ OpenMatches
  /\ TokenMatchesSession
  /\ ProvedMatches
  /\ RejectedNeverLive
  /\ RejectedIssued
  /\ TrustedMatches

USE DEF Challenge

\* The parts that only Request() and ConfirmHybrid() can disturb.
LEMMA RejectedStays ==
  ASSUME RejectedIssued, UNCHANGED rejected, challenged \subseteq challenged'
  PROVE  RejectedIssued'
BY DEF RejectedIssued, Fresh

LEMMA RequestType ==
  ASSUME TypeOK, NEW id \in Clients, NEW supported \in BOOLEAN, Request(id, supported)
  PROVE  TypeOK'
<1>1. CASE RefuseRequest(id, supported)
  BY <1>1 DEF Request, RefuseRequest, TypeOK, engineVars, peerVars, SpdmStatus
<1>2. CASE ~RefuseRequest(id, supported) /\ status' = "kCryptoError"
  BY <1>2 DEF Request, ProcessAuthRequest, TypeOK, peerVars, SpdmStatus
<1>3. CASE ~RefuseRequest(id, supported) /\ status' # "kCryptoError"
  BY <1>3 DEF Request, ProcessAuthRequest, TypeOK, peerVars, SpdmStatus
<1>4. QED
  BY <1>1, <1>2, <1>3

LEMMA RequestKeeps ==
  ASSUME IInv, NEW id \in Clients, NEW supported \in BOOLEAN, Request(id, supported)
  PROVE  IInv'
<1>1. TypeOK'
  BY RequestType DEF IInv
<1>2. CASE RefuseRequest(id, supported)
  <2>1. status' # "kOk" /\ UNCHANGED <<engineVars, token, challenged>>
    BY <1>2 DEF RefuseRequest
  <2>2. UNCHANGED <<captured, peerVars, provider, trusted, rejected>>
    BY <2>1 DEF Request
  <2>3. QED
    BY <1>1, <2>1, <2>2, RejectedStays
       DEF IInv, OpenMatches, TokenMatchesSession, ProvedMatches, RejectedNeverLive,
           TrustedMatches, engineVars, peerVars
<1>3. CASE state = "kUnauthenticated" /\ status' = "kCryptoError"
  <2>1. UNCHANGED <<state, challenged, trusted, rejected>>
    BY <1>3 DEF Request, ProcessAuthRequest, RefuseRequest
  <2>2. QED
    BY <1>1, <1>3, <2>1, RejectedStays
       DEF IInv, OpenMatches, TokenMatchesSession, ProvedMatches, RejectedNeverLive,
           TrustedMatches
<1>4. CASE state = "kUnauthenticated" /\ status' = "kOk"
  <2>1. /\ Fresh(pendingNonce')
        /\ challenged' = challenged \cup {<<id, pendingNonce'>>}
        /\ pendingClientId' = id /\ state' = "kChallengeSent"
        /\ captured' = <<id, pendingNonce'>>
        /\ UNCHANGED <<trusted, rejected>>
    BY <1>4 DEF Request, ProcessAuthRequest, RefuseRequest
  <2>2. pendingNonce' \notin rejected'
    BY <2>1 DEF IInv, RejectedIssued
  <2>3. ~trusted'
    BY <1>4, <2>1 DEF IInv, TrustedMatches
  <2>4. QED
    BY <1>1, <2>1, <2>2, <2>3, RejectedStays
       DEF IInv, OpenMatches, TokenMatchesSession, ProvedMatches, RejectedNeverLive,
           TrustedMatches
<1>5. QED
  BY <1>2, <1>3, <1>4 DEF Request, ProcessAuthRequest

\* A response is answered by the session's end or by its authentication.
LEMMA ResponseKeeps ==
  ASSUME IInv, NEW id \in Clients, NEW signature \in Arrives(eccSigned),
         Response(id, signature)
  PROVE  IInv'
<1>1. UNCHANGED <<challenged, peerVars, gateVars>>
  BY DEF Response, ProcessAuthResponse
<1>2. CASE state # "kChallengeSent"
  <2>1. UNCHANGED <<engineVars, token>> /\ status' = "kInvalidState"
    BY <1>2 DEF Response, ProcessAuthResponse
  <2>2. QED
    BY <1>1, <2>1, RejectedStays
       DEF IInv, TypeOK, OpenMatches, TokenMatchesSession, ProvedMatches,
           RejectedNeverLive, TrustedMatches, engineVars, peerVars, gateVars, SpdmStatus
<1>3. CASE state = "kChallengeSent" /\ Revoke
  <2>1. UNCHANGED token /\ status' \in SpdmStatus
    BY <1>3 DEF Response, ProcessAuthResponse, Authenticate, Revoke, SpdmStatus
  <2>2. ~trusted
    BY <1>3 DEF IInv, TrustedMatches
  <2>3. QED
    BY <1>1, <1>3, <2>1, <2>2, RejectedStays
       DEF IInv, TypeOK, OpenMatches, TokenMatchesSession, ProvedMatches,
           RejectedNeverLive, TrustedMatches, Revoke, SanitiseSecretMaterial,
           peerVars, gateVars
<1>4. CASE state = "kChallengeSent" /\ Authenticate(id)
  <2>1. id = pendingClientId /\ signature = Signed(id, pendingNonce, id)
    BY <1>4 DEF Response, ProcessAuthResponse, Authenticate, Revoke, VerifyResults
  <2>2. captured = <<id, pendingNonce>> /\ captured \in Challenge
    BY <1>4, <2>1 DEF IInv, OpenMatches, TypeOK
  <2>3. captured \in eccSigned
    <3>1. signature # Corrupted
      BY <2>1, ZeroAssumption DEF Signed, Corrupted
    <3>2. PICK c \in eccSigned : signature = Signed(c[1], c[2], c[1])
      BY <3>1 DEF Arrives
    <3>3. c \in Clients \X Nonces
      BY DEF IInv, TypeOK
    <3>4. c = <<id, pendingNonce>>
      BY <2>1, <3>2, <3>3 DEF Signed
    <3>5. QED
      BY <2>2, <3>4
  <2>4. ~trusted /\ pendingNonce \notin rejected
    BY <1>4 DEF IInv, OpenMatches, TrustedMatches
  <2>5. /\ state' = "kAuthenticated" /\ authenticatedClientId' = id /\ status' = "kOk"
        /\ token' = [client_id |-> id, session_nonce |-> pendingNonce]
        /\ UNCHANGED <<pendingNonce, pendingClientId>>
    BY <1>4 DEF Authenticate
  <2>6. TypeOK'
    BY <1>1, <2>5 DEF IInv, TypeOK, Token, peerVars, gateVars, SpdmStatus
  <2>7. QED
    BY <1>1, <2>1, <2>2, <2>3, <2>4, <2>5, <2>6, RejectedStays
       DEF IInv, OpenMatches, TokenMatchesSession, ProvedMatches, RejectedNeverLive,
           TrustedMatches, peerVars, gateVars
<1>5. QED
  BY <1>2, <1>3, <1>4 DEF Response, ProcessAuthResponse

\* What ConfirmHybrid() does once the session is authenticated.
LEMMA ConfirmCases ==
  ASSUME IInv, NEW signature \in Arrives(pqcSigned), ConfirmHybrid(signature)
  PROVE  /\ UNCHANGED <<token, challenged, peerVars, provider, captured>>
         /\ \/ /\ state # "kAuthenticated" /\ status' = "kInvalidState"
               /\ UNCHANGED <<engineVars, trusted, rejected>>
            \/ /\ state = "kAuthenticated" /\ status' = "kOk" /\ trusted'
               /\ UNCHANGED <<engineVars, rejected>>
               /\ provider = "mldsa" /\ captured \in pqcSigned
            \/ /\ state = "kAuthenticated" /\ status' = "kSignatureInvalid" /\ ~trusted'
               /\ Revoke /\ rejected' = rejected \cup {captured[2]}
<1>1. CASE state # "kAuthenticated"
  BY <1>1 DEF ConfirmHybrid
<1>2. CASE state = "kAuthenticated"
  <2>1. PICK verified \in PqcVerifyResults(signature, captured[1], captured[2]) :
          IF verified = "kOk"
          THEN /\ status' = "kOk"
               /\ trusted' = TRUE
               /\ UNCHANGED <<engineVars, rejected>>
          ELSE /\ Revoke
               /\ status' = "kSignatureInvalid"
               /\ trusted' = FALSE
               /\ rejected' = rejected \cup {captured[2]}
    BY <1>2 DEF ConfirmHybrid
  <2>2. ASSUME verified = "kOk"
        PROVE  provider = "mldsa" /\ captured \in pqcSigned
    <3>1. provider = "mldsa" /\ signature = Signed(captured[1], captured[2], captured[1])
      BY <2>2 DEF PqcVerifyResults, VerifyResults, IInv, TypeOK
    <3>2. captured \in Clients \X Nonces
      BY <1>2 DEF IInv, TypeOK, ProvedMatches
    <3>3. signature # Corrupted
      BY <3>1, <3>2, ZeroAssumption DEF Signed, Corrupted
    <3>4. PICK c \in pqcSigned : signature = Signed(c[1], c[2], c[1])
      BY <3>3 DEF Arrives
    <3>5. c \in Clients \X Nonces
      BY DEF IInv, TypeOK
    <3>6. c = captured
      BY <3>1, <3>2, <3>4, <3>5 DEF Signed
    <3>7. QED
      BY <3>1, <3>6
  <2>3. UNCHANGED <<token, challenged, peerVars, provider, captured>>
    BY DEF ConfirmHybrid
  <2>4. QED
    BY <1>2, <2>1, <2>2, <2>3
<1>3. QED
  BY <1>1, <1>2

LEMMA ConfirmKeeps ==
  ASSUME IInv, NEW signature \in Arrives(pqcSigned), ConfirmHybrid(signature)
  PROVE  IInv'
<1>1. UNCHANGED <<token, challenged, peerVars, provider, captured>>
  BY ConfirmCases
<1>2. CASE /\ state # "kAuthenticated" /\ status' = "kInvalidState"
           /\ UNCHANGED <<engineVars, trusted, rejected>>
  BY <1>1, <1>2, RejectedStays
     DEF IInv, TypeOK, OpenMatches, TokenMatchesSession, ProvedMatches,
         RejectedNeverLive, TrustedMatches, engineVars, peerVars, SpdmStatus
<1>3. CASE /\ state = "kAuthenticated" /\ status' = "kOk" /\ trusted'
           /\ UNCHANGED <<engineVars, rejected>>
           /\ provider = "mldsa" /\ captured \in pqcSigned
  <2>1. trusted' \in BOOLEAN
    BY ConfirmCases, <1>3 DEF ConfirmHybrid, PqcVerifyResults
  <2>2. TypeOK'
    BY <1>1, <1>3, <2>1 DEF IInv, TypeOK, engineVars, peerVars, SpdmStatus
  <2>3. QED
    BY <1>1, <1>3, <2>2, RejectedStays
       DEF IInv, OpenMatches, TokenMatchesSession, ProvedMatches,
           RejectedNeverLive, TrustedMatches, engineVars, peerVars
<1>4. CASE /\ state = "kAuthenticated" /\ status' = "kSignatureInvalid" /\ ~trusted'
           /\ Revoke /\ rejected' = rejected \cup {captured[2]}
  <2>1. captured \in challenged /\ captured \in Clients \X Nonces
    BY <1>4 DEF IInv, ProvedMatches, TypeOK
  <2>2. trusted' \in BOOLEAN
    BY <1>4 DEF ConfirmHybrid
  <2>3. TypeOK'
    BY <1>1, <1>4, <2>1, <2>2
       DEF IInv, TypeOK, Revoke, SanitiseSecretMaterial, peerVars, SpdmStatus
  <2>4. RejectedIssued'
    BY <1>1, <1>4, <2>1 DEF IInv, RejectedIssued, Fresh
  <2>5. QED
    BY <1>1, <1>4, <2>3, <2>4
       DEF IInv, OpenMatches, TokenMatchesSession, ProvedMatches, RejectedNeverLive,
           TrustedMatches, Revoke
<1>5. QED
  BY <1>2, <1>3, <1>4, ConfirmCases

\* The strengthening holds at the start and every step preserves it.
THEOREM Invariance == Spec => []IInv
<1>1. Init => IInv
  <2> SUFFICES ASSUME Init PROVE IInv
    OBVIOUS
  <2>1. TypeOK
    BY DEF Init, ConstructEngine, TypeOK, Token, SpdmStatus
  <2>2. state = "kUnauthenticated" /\ trusted = FALSE /\ rejected = {}
    BY DEF Init, ConstructEngine
  <2>3. ~trusted
    BY <2>2, Zenon
  <2>4. QED
    BY <2>1, <2>2, <2>3
       DEF IInv, OpenMatches, TokenMatchesSession, ProvedMatches, RejectedNeverLive,
           RejectedIssued, TrustedMatches
<1>2. IInv /\ [Next]_vars => IInv'
  <2> SUFFICES ASSUME IInv, [Next]_vars PROVE IInv'
    OBVIOUS
  <2>1. ASSUME NEW challenge \in challenged, PeerSigns(challenge) PROVE IInv'
    <3>1. /\ UNCHANGED <<spdmVars, gateVars>>
          /\ eccSigned \subseteq eccSigned' /\ pqcSigned \subseteq pqcSigned'
      BY <2>1 DEF PeerSigns
    <3>2. TypeOK'
      BY <2>1 DEF PeerSigns, IInv, TypeOK, spdmVars, engineVars, gateVars
    <3>3. QED
      BY <3>1, <3>2, RejectedStays
         DEF IInv, OpenMatches, TokenMatchesSession, ProvedMatches, RejectedNeverLive,
             TrustedMatches, spdmVars, engineVars, gateVars
  <2>2. CASE OwnerRevokes \/ OwnerResets
    <3>1. /\ UNCHANGED <<token, challenged, peerVars, provider, captured, rejected>>
          /\ UNCHANGED status /\ trusted' = FALSE
          /\ SanitiseSecretMaterial
          /\ state' \in {"kRevoked", "kUnauthenticated"}
          /\ authenticatedClientId' \in {authenticatedClientId, NoClient}
      BY <2>2 DEF OwnerRevokes, OwnerResets, Revoke, Reset
    <3>2. TypeOK'
      BY <3>1 DEF IInv, TypeOK, SanitiseSecretMaterial, peerVars
    <3>3. QED
      BY <3>1, <3>2, RejectedStays
         DEF IInv, OpenMatches, TokenMatchesSession, ProvedMatches, RejectedNeverLive,
             TrustedMatches
  <2>3. CASE UNCHANGED vars
    BY <2>3, RejectedStays
       DEF vars, spdmVars, engineVars, peerVars, gateVars, IInv, TypeOK, OpenMatches,
           TokenMatchesSession, ProvedMatches, RejectedNeverLive, TrustedMatches
  <2>4. QED
    BY <2>1, <2>2, <2>3, RequestKeeps, ResponseKeeps, ConfirmKeeps DEF Next
<1>3. QED
  BY <1>1, <1>2, PTL DEF Spec

THEOREM TypeCorrect == Spec => []TypeOK
<1>1. IInv => TypeOK
  BY DEF IInv
<1>2. QED
  BY <1>1, Invariance, PTL

\* Token, engine and caller agree on the peer and its challenge.
THEOREM TokenCorrect == Spec => []TokenMatchesSession
<1>1. IInv => TokenMatchesSession
  BY DEF IInv
<1>2. QED
  BY <1>1, Invariance, PTL

\* No session lives on, or again, under a challenge whose check has failed.
THEOREM RejectedStaysDead == Spec => []RejectedNeverLive
<1>1. IInv => RejectedNeverLive
  BY DEF IInv
<1>2. QED
  BY <1>1, Invariance, PTL

\* With the provider that is shipped nothing is ever trusted.
THEOREM Closed == Spec => []FailsClosed
<1>1. IInv => FailsClosed
  BY DEF IInv, TrustedMatches, FailsClosed
<1>2. QED
  BY <1>1, Invariance, PTL

-----------------------------------------------------------------------------
\* The phase of the abstract session in each state of the engine.
PhaseFacts ==
  /\ state = "kChallengeSent" => phase = "open"
  /\ state = "kAuthenticated" /\ ~trusted => phase = "proved"
  /\ state = "kAuthenticated" /\ trusted => phase = "trusted"
  /\ state \notin {"kChallengeSent", "kAuthenticated"} => phase = "closed"

LEMMA PhaseOf == PhaseFacts
BY DEF PhaseFacts, phase

\* A session that goes on or ends, seen as PeerSession.
LEMMA SessionCloses ==
  ASSUME phase' = "closed", UNCHANGED <<challenged, eccSigned, pqcSigned>>
  PROVE  Session!Next
<1>1. Session!Close
  BY DEF Session!Close
<1>2. QED
  BY <1>1 DEF Session!Next

LEMMA SessionStays ==
  ASSUME UNCHANGED <<phase, pendingClientId, pendingNonce>>,
         UNCHANGED <<challenged, eccSigned, pqcSigned>>
  PROVE  UNCHANGED Session!vars
BY DEF Session!vars, Session!sessionVars

\* The hybrid gate implements PeerSession.
THEOREM IsSession == Spec => ImplementsSession
<1>1. Init => Session!Init
  BY PhaseOf DEF Init, ConstructEngine, Session!Init, PhaseFacts
<1>2. IInv /\ PhaseFacts' /\ [Next]_vars => [Session!Next]_Session!vars
  <2> SUFFICES ASSUME IInv, PhaseFacts', [Next]_vars
               PROVE  [Session!Next]_Session!vars
    OBVIOUS
  <2> USE PhaseOf DEF PhaseFacts
  <2>1. ASSUME NEW id \in Clients, NEW supported \in BOOLEAN, Request(id, supported)
        PROVE  [Session!Next]_Session!vars
    <3>1. CASE RefuseRequest(id, supported)
      <4>1. UNCHANGED <<engineVars, challenged, peerVars, trusted>>
        BY <2>1, <3>1 DEF Request, RefuseRequest
      <4>2. UNCHANGED phase
        BY <4>1 DEF phase, engineVars
      <4>3. QED
        BY <4>1, <4>2, SessionStays DEF engineVars, peerVars
    <3>2. CASE state = "kUnauthenticated" /\ status' = "kCryptoError"
      <4>1. UNCHANGED <<state, challenged, eccSigned, pqcSigned>>
        BY <2>1, <3>2 DEF Request, ProcessAuthRequest, RefuseRequest, peerVars
      <4>2. QED
        BY <3>2, <4>1, SessionCloses
    <3>3. CASE state = "kUnauthenticated" /\ status' = "kOk"
      <4>1. PICK n \in Nonces :
              /\ Fresh(n) /\ pendingNonce' = n /\ pendingClientId' = id
              /\ state' = "kChallengeSent"
              /\ challenged' = challenged \cup {<<id, n>>}
              /\ UNCHANGED <<eccSigned, pqcSigned>>
        BY <2>1, <3>3 DEF Request, ProcessAuthRequest, RefuseRequest, peerVars
      <4>2. phase = "closed" /\ phase' = "open"
        BY <3>3, <4>1
      <4>3. \A used \in challenged : used[2] # n
        BY <4>1 DEF Fresh
      <4>4. Session!Open(id, n)
        BY <4>1, <4>2, <4>3 DEF Session!Open
      <4>5. QED
        BY <4>4 DEF Session!Next
    <3>4. QED
      BY <2>1, <3>1, <3>2, <3>3 DEF Request, ProcessAuthRequest
  <2>2. ASSUME NEW challenge \in challenged, PeerSigns(challenge)
        PROVE  [Session!Next]_Session!vars
    <3>1. UNCHANGED <<state, trusted, pendingClientId, pendingNonce, challenged>>
      BY <2>2 DEF PeerSigns, spdmVars, engineVars, gateVars
    <3>2. UNCHANGED phase
      BY <3>1 DEF phase
    <3>3. Session!Sign(challenge)
      BY <2>2, <3>1, <3>2 DEF PeerSigns, Session!Sign, Session!sessionVars
    <3>4. QED
      BY <3>3 DEF Session!Next
  <2>3. ASSUME NEW id \in Clients, NEW signature \in Arrives(eccSigned),
               Response(id, signature)
        PROVE  [Session!Next]_Session!vars
    <3>1. UNCHANGED <<challenged, eccSigned, pqcSigned, trusted>>
      BY <2>3 DEF Response, ProcessAuthResponse, peerVars, gateVars
    <3>2. CASE state # "kChallengeSent"
      <4>1. UNCHANGED engineVars
        BY <2>3, <3>2 DEF Response, ProcessAuthResponse
      <4>2. UNCHANGED phase
        BY <3>1, <4>1 DEF phase, engineVars
      <4>3. QED
        BY <3>1, <4>1, <4>2, SessionStays DEF engineVars
    <3>3. CASE Revoke
      BY <3>1, <3>3, SessionCloses DEF Revoke
    <3>4. CASE state = "kChallengeSent" /\ Authenticate(id)
      <4>1. /\ state' = "kAuthenticated" /\ ~trusted /\ ~trusted'
            /\ UNCHANGED <<pendingNonce, pendingClientId>>
        BY <3>1, <3>4 DEF Authenticate, IInv, TrustedMatches
      <4>2. captured' \in eccSigned' /\ captured' = captured
        BY <2>3, <4>1, ResponseKeeps DEF IInv, ProvedMatches, Response, gateVars
      <4>3. <<pendingClientId, pendingNonce>> \in eccSigned
        BY <3>1, <3>4, <4>2 DEF IInv, OpenMatches
      <4>4. phase = "open" /\ phase' = "proved"
        BY <3>4, <4>1
      <4>5. Session!Advance("open", "proved", eccSigned)
        BY <3>1, <4>1, <4>3, <4>4 DEF Session!Advance
      <4>6. QED
        BY <4>5 DEF Session!Next
    <3>5. QED
      BY <2>3, <3>2, <3>3, <3>4 DEF Response, ProcessAuthResponse
  <2>4. ASSUME NEW signature \in Arrives(pqcSigned), ConfirmHybrid(signature)
        PROVE  [Session!Next]_Session!vars
    <3>1. UNCHANGED <<challenged, eccSigned, pqcSigned>>
      BY <2>4 DEF ConfirmHybrid, peerVars
    <3>2. CASE UNCHANGED <<engineVars, trusted>>
      <4>1. UNCHANGED phase
        BY <3>2 DEF phase, engineVars
      <4>2. QED
        BY <3>1, <3>2, <4>1, SessionStays DEF engineVars
    <3>3. CASE /\ state = "kAuthenticated" /\ ~trusted /\ trusted'
               /\ UNCHANGED engineVars /\ captured \in pqcSigned
      <4>1. phase = "proved" /\ phase' = "trusted"
        BY <3>3 DEF engineVars
      <4>2. <<pendingClientId, pendingNonce>> \in pqcSigned
        BY <3>3 DEF IInv, TokenMatchesSession
      <4>3. Session!Advance("proved", "trusted", pqcSigned)
        BY <3>1, <3>3, <4>1, <4>2 DEF Session!Advance, engineVars
      <4>4. QED
        BY <4>3 DEF Session!Next
    <3>4. CASE Revoke
      BY <3>1, <3>4, SessionCloses DEF Revoke
    <3>5. CASE /\ state = "kAuthenticated" /\ trusted /\ trusted'
               /\ UNCHANGED engineVars
      <4>1. UNCHANGED phase
        BY <3>5 DEF engineVars
      <4>2. QED
        BY <3>1, <3>5, <4>1, SessionStays DEF engineVars
    <3>6. QED
      BY <2>4, <3>2, <3>3, <3>4, <3>5, ConfirmCases
  <2>5. CASE OwnerRevokes \/ OwnerResets
    <3>1. /\ state' \in {"kRevoked", "kUnauthenticated"}
          /\ UNCHANGED <<challenged, eccSigned, pqcSigned>>
      BY <2>5 DEF OwnerRevokes, OwnerResets, Revoke, Reset, peerVars
    <3>2. QED
      BY <3>1, SessionCloses
  <2>6. CASE UNCHANGED vars
    <3>1. UNCHANGED <<phase, pendingClientId, pendingNonce>>
      BY <2>6 DEF vars, spdmVars, engineVars, gateVars, phase
    <3>2. UNCHANGED <<challenged, eccSigned, pqcSigned>>
      BY <2>6 DEF vars, spdmVars, peerVars
    <3>3. QED
      BY <3>1, <3>2, SessionStays
  <2>7. QED
    BY <2>1, <2>2, <2>3, <2>4, <2>5, <2>6 DEF Next
<1>3. QED
  BY <1>1, <1>2, PhaseOf, Invariance, PTL DEF Spec, ImplementsSession, Session!Spec
=============================================================================
