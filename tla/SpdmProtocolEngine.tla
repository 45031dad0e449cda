------------------------- MODULE SpdmProtocolEngine -------------------------
(***************************************************************************)
(* SpdmProtocolEngine of zonal-zero-trust-auth: the challenge-response     *)
(* handshake of one client session, as a state machine with a latched      *)
(* challenge and client id.                                                *)
(*                                                                         *)
(* Abstractions.  A signature is who signed what: its signer, the nonce    *)
(* and the client id that went into the digest; Corrupted stands for bytes *)
(* that are nobody's signature.  A random nonce is never drawn twice.      *)
(* Every call of the crypto platform may also fail (kHwFault stands for    *)
(* all its failures but kVerifyFailed).  The session key is a function of  *)
(* nonce and client id, so the token stands for it.                        *)
(***************************************************************************)
EXTENDS FiniteSets

CONSTANTS
  Clients,       \* the ids found in frames
  KnownPeers,    \* the ids in peer_table_, each with its own key
  Nonces,        \* what GenerateRandomNonce() may draw: a bound on handshakes
  NoClient,      \* a zeroed ClientId buffer
  NoNonce        \* a zeroed Nonce buffer

ASSUME PeersAssumption == KnownPeers \subseteq Clients
ASSUME ZeroAssumption == NoClient \notin Clients /\ NoNonce \notin Nonces

Corrupted == [signer |-> NoClient, nonce |-> NoNonce, client_id |-> NoClient]
Signed(signer, n, id) == [signer |-> signer, nonce |-> n, client_id |-> id]
Signature ==
  [signer : Clients, nonce : Nonces, client_id : Clients] \cup {Corrupted}

Token == [client_id : Clients \cup {NoClient}, session_nonce : Nonces \cup {NoNonce}]

SpdmStatus ==
  {"kOk", "kInvalidState", "kVersionMismatch", "kClientIdMismatch",
   "kSignatureInvalid", "kCryptoError", "kAlreadyAuthenticated"}

VARIABLES
  state,
  pendingNonce,
  pendingClientId,
  authenticatedClientId,
  token,            \* the caller's session_token_out
  status,           \* what the last call returned
  challenged        \* history: the challenges issued, as <<client, nonce>>

engineVars == <<state, pendingNonce, pendingClientId, authenticatedClientId>>
spdmVars == <<engineVars, token, status, challenged>>

-----------------------------------------------------------------------------
\* The constructor.
ConstructEngine ==
  /\ state = "kUnauthenticated"
  /\ pendingNonce = NoNonce
  /\ pendingClientId = NoClient
  /\ authenticatedClientId = NoClient
  /\ token = [client_id |-> NoClient, session_nonce |-> NoNonce]
  /\ status = "kOk"
  /\ challenged = {}

\* SanitiseSecretMaterial()
SanitiseSecretMaterial ==
  /\ pendingNonce' = NoNonce
  /\ pendingClientId' = NoClient

\* Revoke(): the authenticated id stays behind.
Revoke ==
  /\ SanitiseSecretMaterial
  /\ state' = "kRevoked"
  /\ UNCHANGED authenticatedClientId

\* Reset()
Reset ==
  /\ SanitiseSecretMaterial
  /\ authenticatedClientId' = NoClient
  /\ state' = "kUnauthenticated"
  /\ UNCHANGED <<token, status, challenged>>

\* What VerifyEccSignature() may answer for a signature over the digest of
\* nonce n and id, under the key of that id.
VerifyResults(signature, n, id) ==
  {IF signature = Signed(id, n, id) THEN "kOk" ELSE "kVerifyFailed", "kHwFault"}

\* A nonce that no challenge has carried.
Fresh(n) == n \notin {c[2] : c \in challenged}

\* Mutant: a new request supersedes the session in force.
ProcessAuthRequestAnytime(id, supported) ==
  /\ supported /\ id \in KnownPeers
  /\ \E n \in Nonces :
       /\ Fresh(n)
       /\ pendingNonce' = n
       /\ challenged' = challenged \cup {<<id, n>>}
  /\ pendingClientId' = id
  /\ state' = IF state = "kAuthenticated" THEN state ELSE "kChallengeSent"
  /\ status' = "kOk"
  /\ UNCHANGED <<authenticatedClientId, token>>

\* A request that is refused before the nonce is drawn.
RefuseRequest(id, supported) ==
  /\ \/ /\ state # "kUnauthenticated"
        /\ status' = IF state = "kAuthenticated"
                     THEN "kAlreadyAuthenticated" ELSE "kInvalidState"
     \/ /\ state = "kUnauthenticated"
        /\ ~supported
        /\ status' = "kVersionMismatch"
     \/ /\ state = "kUnauthenticated"
        /\ supported
        /\ id \notin KnownPeers
        /\ status' = "kSignatureInvalid"
  /\ UNCHANGED <<engineVars, token, challenged>>

\* ProcessAuthRequest(request), for a version that is supported or not.  When
\* GenerateRandomNonce() fails it may have written to the nonce already.
ProcessAuthRequest(id, supported) ==
  \/ RefuseRequest(id, supported)
  \/ /\ state = "kUnauthenticated" /\ supported /\ id \in KnownPeers
     /\ pendingNonce' \in Nonces \cup {pendingNonce}
     /\ status' = "kCryptoError"
     /\ UNCHANGED <<state, pendingClientId, authenticatedClientId, token, challenged>>
  \/ /\ state = "kUnauthenticated" /\ supported /\ id \in KnownPeers
     /\ \E n \in Nonces :
          /\ Fresh(n)
          /\ pendingNonce' = n
          /\ challenged' = challenged \cup {<<id, n>>}
     /\ pendingClientId' = id
     /\ state' = "kChallengeSent"
     /\ status' = "kOk"
     /\ UNCHANGED <<authenticatedClientId, token>>

\* The end of ProcessAuthResponse(): token, authenticated id, new state.  The
\* pending nonce and id stay where they are.
Authenticate(id) ==
  /\ token' = [client_id |-> id, session_nonce |-> pendingNonce]
  /\ authenticatedClientId' = id
  /\ state' = "kAuthenticated"
  /\ status' = "kOk"
  /\ UNCHANGED <<pendingNonce, pendingClientId>>

\* ProcessAuthResponse(response): outside kChallengeSent it does nothing; every
\* failure revokes the session.  (The second lookup of the peer cannot fail,
\* but the code checks it.)
ProcessAuthResponse(id, signature) ==
  /\ IF state # "kChallengeSent"
     THEN status' = "kInvalidState" /\ UNCHANGED <<engineVars, token>>
     ELSE \E digested, derived \in {"kOk", "kHwFault"},
             verified \in VerifyResults(signature, pendingNonce, id) :
            IF /\ id = pendingClientId
               /\ id \in KnownPeers
               /\ {digested, verified, derived} = {"kOk"}
            THEN Authenticate(id)
            ELSE /\ Revoke
                 /\ UNCHANGED token
                 /\ status' =
                      IF id # pendingClientId THEN "kClientIdMismatch"
                      ELSE IF id \notin KnownPeers THEN "kSignatureInvalid"
                      ELSE IF digested = "kOk" /\ verified = "kVerifyFailed"
                      THEN "kSignatureInvalid" ELSE "kCryptoError"
  /\ UNCHANGED challenged
=============================================================================
