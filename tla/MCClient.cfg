SPECIFICATION Spec
CONSTANTS
  c1 = c1
  c2 = c2
  http = http
  k1 = k1
  k2 = k2
  Clients <- MCClients
  Https <- MCHttps
  SecurityKeys <- MCSecurityKeys
INVARIANTS
  TypeOK
  BorrowedStaysOpen
  NoPoolIsLeaked
  KeysAreNotMixed
PROPERTIES
  SilentOnceClosed
