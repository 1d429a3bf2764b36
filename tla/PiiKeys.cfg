SPECIFICATION Spec
CONSTANTS
  k1 = k1  kDefault = kDefault
  i1 = i1  i2 = i2  d1 = d1  d2 = d2
  Processes = {i1, i2}
  Keys = {k1, kDefault}
  DefaultKey = kDefault
  Unset = Unset
  Environments <- MCEnvironments
  Down = Down
  Drivers = {d1, d2}
  NoRow = NoRow
  PageSize = 2
  MaxVersion = 2
INVARIANT WriterCanRead
PROPERTIES ProfilesOnlyAdvance CacheForgetsOtherKeys
