SPECIFICATION FairSpec
CONSTANTS
  Clients = {c1, c2}
  Chars <- SomeChars
  Contents <- SomeContents
  Sought <- SomeSought
  Nul = "nul"
  Fold <- LowerCase
  Nobody = Nobody
  NoRequest = NoRequest
  MaxTime = 1
INVARIANTS TypeOK RowsInTimeOrder AnswerNamesContent
PROPERTIES FirstWriteStands LockReleased ImplementsMemory
