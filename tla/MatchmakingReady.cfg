CONSTANTS
  a = a
  b = b
  k1 = k1
  k2 = k2
  h1 = h1
  h2 = h2
  Player = {a, b}
  PartyId = {k1, k2}
  NoParty = NoParty
  NoPlayer = NoPlayer
  MAX_MEMBERS = 2
  Hunt = {h1, h2}
  NoHunt = NoHunt
  QUEUE_SIZE = 2
  MAX_JOINS = 3
SPECIFICATION Spec
PROPERTY ReadyKept
