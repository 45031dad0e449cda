SPECIFICATION Spec
CONSTANTS
  Clients = {lidarZone, radarZone, stranger}
  KnownPeers = {lidarZone, radarZone}
  Nonces = {n1, n2, n3}
  NoClient = noClient
  NoNonce = noNonce
INVARIANTS
  TokenMatchesSession
  RejectedNeverLive
  FailsClosed
PROPERTIES
  ImplementsSession
