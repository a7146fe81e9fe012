SPECIFICATION Spec
CONSTANTS
  x = x
  a1 = a1
  a2 = a2
  k1 = k1
  k2 = k2
  r = r
  Empty = Empty
  None = None
  Ids = {Empty, x}
  Accounts = {a1, a2}
  Clients = {k1, k2}
  KeyOf <- MCKeyOf
  First = a2
  MaxInits = 1
  Calls = {c1, c2, c3, r}
  Contents = {c1, c2, c3, r}
  Ops <- MCOps
  ClientOf <- MCClientOf
SYMMETRY Interchangeable
INVARIANTS TypeOK SuccessIsMined ReplayIsStored ReadsSeeWrites EmptyAlertPoisons
  RegistrationsCounted ListsMatchMappings AddressesMatchVehicles
PROPERTY ImplementsRegistry
