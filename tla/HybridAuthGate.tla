--------------------------- MODULE HybridAuthGate ---------------------------
(***************************************************************************)
(* HybridAuthGate of pqc-signature-extension over one SpdmProtocolEngine,  *)
(* with the peers and the caller that it needs.                            *)
(*                                                                         *)
(* The peers are honest and the network is not reliable: a signature that  *)
(* a peer has made may arrive at any later time, any number of times, in   *)
(* another peer's session, corrupted, or never.  The caller, which is not  *)
(* in the repository, calls in any order, but passes to ConfirmHybrid()    *)
(* the id and nonce that it "captured at ProcessAuthRequest() time".       *)
(***************************************************************************)
EXTENDS SpdmProtocolEngine

VARIABLES
  provider,     \* which PqcSignaturePlatformInterface: "mldsa" or "unavailable"
  captured,     \* <<client, nonce>> of the last request that was taken
  eccSigned,    \* the challenges that their client signed, classically ...
  pqcSigned,    \* ... and with its post-quantum key
  trusted,      \* history: ConfirmHybrid() said kOk in this session
  rejected      \* history: the nonces whose post-quantum check failed

peerVars == <<eccSigned, pqcSigned>>
gateVars == <<provider, captured, trusted, rejected>>
vars == <<spdmVars, peerVars, gateVars>>

Init ==
  /\ ConstructEngine
  /\ provider \in {"mldsa", "unavailable"}
  /\ captured = <<NoClient, NoNonce>>
  /\ eccSigned = {}
  /\ pqcSigned = {}
  /\ trusted = FALSE
  /\ rejected = {}

\* The frames that may arrive: a signature made, or none at all.
Arrives(signed) ==
  {Signed(c[1], c[2], c[1]) : c \in signed} \cup {Corrupted}

Request(id, supported) ==
  /\ ProcessAuthRequest(id, supported)
  /\ captured' = IF status' = "kOk" THEN <<id, pendingNonce'>> ELSE captured
  /\ UNCHANGED <<peerVars, provider, trusted, rejected>>

PeerSigns(challenge) ==
  /\ \/ eccSigned' = eccSigned \cup {challenge} /\ UNCHANGED pqcSigned
     \/ pqcSigned' = pqcSigned \cup {challenge} /\ UNCHANGED eccSigned
  /\ UNCHANGED <<spdmVars, gateVars>>

Response(id, signature) ==
  /\ ProcessAuthResponse(id, signature)
  /\ UNCHANGED <<peerVars, gateVars>>

\* Revoke() and Reset() called by the owner of the engine.
OwnerRevokes ==
  /\ Revoke
  /\ trusted' = FALSE
  /\ UNCHANGED <<token, status, challenged, peerVars, provider, captured, rejected>>

OwnerResets ==
  /\ Reset
  /\ trusted' = FALSE
  /\ UNCHANGED <<peerVars, provider, captured, rejected>>

\* What Verify() of the provider may answer: the only one that is shipped
\* supports nothing.
PqcVerifyResults(signature, id, n) ==
  IF provider = "unavailable" THEN {"kNotSupported"}
                              ELSE VerifyResults(signature, n, id)

\* Mutants: an absent provider is passed over; a failed check is only reported;
\* the state is not looked at.
ConfirmHybridIfSupported(signature) ==
  /\ IF state # "kAuthenticated"
     THEN status' = "kInvalidState" /\ UNCHANGED <<engineVars, trusted, rejected>>
     ELSE \E verified \in PqcVerifyResults(signature, captured[1], captured[2]) :
            IF verified \in {"kOk", "kNotSupported"}
            THEN /\ status' = "kOk"
                 /\ trusted' = TRUE
                 /\ UNCHANGED <<engineVars, rejected>>
            ELSE /\ Revoke
                 /\ status' = "kSignatureInvalid"
                 /\ trusted' = FALSE
                 /\ rejected' = rejected \cup {captured[2]}
  /\ UNCHANGED <<token, challenged, peerVars, provider, captured>>

ConfirmHybridUnrevoked(signature) ==
  /\ state = "kAuthenticated"
  /\ \E verified \in PqcVerifyResults(signature, captured[1], captured[2]) :
       IF verified = "kOk"
       THEN status' = "kOk" /\ trusted' = TRUE /\ UNCHANGED rejected
       ELSE /\ status' = "kSignatureInvalid"
            /\ trusted' = FALSE
            /\ rejected' = rejected \cup {captured[2]}
  /\ UNCHANGED <<engineVars, token, challenged, peerVars, provider, captured>>

ConfirmHybridAnytime(signature) ==
  /\ \E verified \in PqcVerifyResults(signature, captured[1], captured[2]) :
       IF verified = "kOk"
       THEN /\ status' = "kOk"
            /\ trusted' = TRUE
            /\ UNCHANGED <<engineVars, rejected>>
       ELSE /\ Revoke
            /\ status' = "kSignatureInvalid"
            /\ trusted' = FALSE
            /\ rejected' = rejected \cup {captured[2]}
  /\ UNCHANGED <<token, challenged, peerVars, provider, captured>>

\* ConfirmHybrid(engine, client_id, key, signature, nonce)
ConfirmHybrid(signature) ==
  /\ IF state # "kAuthenticated"
     THEN status' = "kInvalidState" /\ UNCHANGED <<engineVars, trusted, rejected>>
     ELSE \E verified \in PqcVerifyResults(signature, captured[1], captured[2]) :
            IF verified = "kOk"
            THEN /\ status' = "kOk"
                 /\ trusted' = TRUE
                 /\ UNCHANGED <<engineVars, rejected>>
            ELSE /\ Revoke
                 /\ status' = "kSignatureInvalid"
                 /\ trusted' = FALSE
                 /\ rejected' = rejected \cup {captured[2]}
  /\ UNCHANGED <<token, challenged, peerVars, provider, captured>>

Next ==
  \/ \E id \in Clients, supported \in BOOLEAN : Request(id, supported)
  \/ \E challenge \in challenged : PeerSigns(challenge)
  \/ \E id \in Clients, signature \in Arrives(eccSigned) : Response(id, signature)
  \/ \E signature \in Arrives(pqcSigned) : ConfirmHybrid(signature)
  \/ OwnerRevokes
  \/ OwnerResets

Spec == Init /\ [][Next]_vars

-----------------------------------------------------------------------------
Challenge == Clients \X Nonces

TypeOK ==
  /\ state \in {"kUnauthenticated", "kChallengeSent", "kAuthenticated", "kRevoked"}
  /\ pendingNonce \in Nonces \cup {NoNonce}
  /\ pendingClientId \in Clients \cup {NoClient}
  /\ authenticatedClientId \in Clients \cup {NoClient}
  /\ token \in Token
  /\ status \in SpdmStatus
  /\ challenged \in SUBSET Challenge
  /\ provider \in {"mldsa", "unavailable"}
  /\ captured \in Challenge \cup {<<NoClient, NoNonce>>}
  /\ eccSigned \in SUBSET challenged
  /\ pqcSigned \in SUBSET challenged
  /\ trusted \in BOOLEAN
  /\ rejected \in SUBSET (Nonces \cup {NoNonce})

\* While a session is authenticated, three places name its peer and two its
\* challenge, each latched by another call: they agree with one another and
\* with what the caller captured.
TokenMatchesSession ==
  state = "kAuthenticated" =>
    /\ token = [client_id |-> authenticatedClientId, session_nonce |-> pendingNonce]
    /\ pendingClientId = authenticatedClientId
    /\ captured = <<pendingClientId, pendingNonce>>

\* "The classical-only session must not outlive a failed PQC check": no session
\* is authenticated under a challenge whose post-quantum check has failed, nor
\* does one come back under it.
RejectedNeverLive ==
  state = "kAuthenticated" => pendingNonce \notin rejected

\* The one provider that is shipped fails closed: with it nothing is ever
\* trusted, whatever arrives.
FailsClosed == provider = "unavailable" => ~trusted

\* No session is trusted unless it is authenticated, and only if the peer that
\* it names has signed its challenge with both keys, the challenge being new:
\* "no code path returns success without both signatures having verified".
phase ==
  CASE state = "kChallengeSent" -> "open"
    [] state = "kAuthenticated" -> IF trusted THEN "trusted" ELSE "proved"
    [] OTHER -> "closed"

Session ==
  INSTANCE PeerSession WITH
    peer <- IF phase = "closed" THEN NoClient ELSE pendingClientId,
    nonce <- IF phase = "closed" THEN NoNonce ELSE pendingNonce

ImplementsSession == Session!Spec
=============================================================================
