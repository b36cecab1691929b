CONSTANTS
  a = a
  b = b
  c = c
  h1 = h1
  h2 = h2
  r1 = r1
  r2 = r2
  r3 = r3
  p1 = p1
  p2 = p2
  City = City
  NoPort = NoPort
  NoHunt = NoHunt
  NoRequest = NoRequest
  Player = {a, b, c}
  Hunt = {h1}
  Request = {r1, r2, r3}
  IslandPort = {p1, p2}
  Party <- PairAndStranger
  PrivateHunts = FALSE
  HUNTING_GROUND_MAX_PLAYERS = 2
SPECIFICATION Spec
INVARIANT CountsWhoIsThere
PROPERTY AskAnswered
CHECK_DEADLOCK FALSE
