\* Two peers over and over: one handshake and one subscriber at a time.
CONSTANTS
  NoPeer = NoPeer
  Peer = {a, b}
  MaxPending = 1
  MaxSubscribers = 1
  MaxEvents = 2
  LineUnits = 2
  WriteBudget = 2
  Room = 2
  Sends = {"part", "command", "subscribe"}
  Fingerprints = 2
  MaxStatus = 1
SPECIFICATION FairSpec
INVARIANTS
  IInv
  EventsAreCurrent
  WholeLines
  Backpressure
PROPERTIES
  NeverGoesBack
  Accepted
  Converges
