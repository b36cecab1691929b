CONSTANTS
  a = a
  b = b
  c = c
  k1 = k1
  k2 = k2
  h1 = h1
  h2 = h2
  Player = {a, b, c}
  PartyId = {k1, k2}
  NoParty = NoParty
  NoPlayer = NoPlayer
  MAX_MEMBERS = 2
  Hunt = {h1, h2}
  NoHunt = NoHunt
  QUEUE_SIZE = 3
  MAX_JOINS = 2
SPECIFICATION FairSpec
CONSTRAINT FewInvites
ACTION_CONSTRAINT AlikeOnce
INVARIANTS WaitingHonest PartiesSound
PROPERTY WaitingAnswered
