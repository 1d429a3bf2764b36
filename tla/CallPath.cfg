SPECIFICATION Spec
CONSTANTS
  c1 = c1  c2 = c2  t = t  empty = empty  phone = phone  plate = plate
  Text = {t, empty, phone, plate}
  Empty = empty
  Phones = {phone}
  Emails = {}
  Plates = {plate}
  Calls = {c1, c2}
  Offers <- MCOffers
  NoOffer = NoOffer
  None = None
  DefaultTimeout = 2
  RedisLimit = 3
  MaxOpen = 1
  StoredUser <- MCUser
  StoredVehicle <- MCVehicle
CHECK_DEADLOCK FALSE
INVARIANTS LateOnlyForPostgres AcknowledgedWriteIsTold PoolMoves
PROPERTIES CancelIsEnough PostgresIsEnough
