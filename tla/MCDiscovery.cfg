\* The two threads, two topics and a map that is full with one name.
SPECIFICATION Spec
SYMMETRY MCSymmetry
CONSTANTS
  Topics = {t1, t2}
  Joins = {t2}
  Groups = {g}
  Peers = {p1, p2}
  Own = Own
  MaxPeers = 1
  MaxCards = 2
  MaxDiscovers = 2
  MaxFaults = 1
  Unavailable = Unavailable
  Envelope = Envelope
  None = None
INVARIANTS
  TypeOK
  OwnCardSkipped
  PeersAreCurrent
  SubscriptionsStand
