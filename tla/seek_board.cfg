SPECIFICATION BoardSpec
CONSTANTS
  Owners <- MCOwners
  Seeks <- MCSeeks
  OwnerOf <- MCOwnerOf
  NoSeek = NoSeek
INVARIANTS OneWaitEach
