\* A card that names an account, and one that does not.
SPECIFICATION Spec
CONSTANTS
  Topics = {t1, t2}
  Joins = {t2}
  Groups = {g}
  Peers = {p1, p2}
  Own = Own
  MaxPeers = 1
  MaxCards = 2
  MaxDiscovers = 2
  MaxFaults = 1
  Unavailable = Unavailable
  Envelope = Envelope
  None = None
INVARIANT CardNamesAccount
