SPECIFICATION FairSpec
CONSTANTS
  k1 = k1
  k2 = k2
  h1 = h1
  Thread = {t1, t2, t3}
  Key = {k1, k2}
  Hash = {h1}
  HashCode <- MCHashCode
  Value = {v1, v2}
  NoValue = NoValue
INVARIANTS
  TypeOK
  OneFactoryPerKey
  NoPermitLost
PROPERTIES
  ImplementsMap
  CallTerminates
