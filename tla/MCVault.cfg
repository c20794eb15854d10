SPECIFICATION FairSpec
CONSTANTS
  Keys = {k1, k2}
  Values = {v1, v2}
  Absent = Absent
  Salts = {s1, s2}
  MasterKeys <- DerivedKeys
  KeyFor <- Derived
  NoFile = NoFile
  Torn = Torn
  NoRequest = NoRequest
  Persistent = TRUE
INVARIANTS TypeOK PromisesKept Reopens
PROPERTIES ImplementsStore ServesAgain
