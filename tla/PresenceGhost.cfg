CONSTANTS
  alice = alice
  bob = bob
  r1 = r1
  r2 = r2
  c1 = c1
  c2 = c2
  c3 = c3
  Account = {alice, bob}
  Resource = {r1, r2}
  Conn = {c1, c2, c3}
  NoAccount = NoAccount
  NoResource = NoResource
  NoConn = NoConn
  BindOnce = TRUE
SPECIFICATION RoomSpec
CONSTRAINT RoomsOrFriends
PROPERTY OfflineSeen
SYMMETRY Symmetry
