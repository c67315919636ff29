SPECIFICATION Spec
CONSTANTS
  Snapshots <- Environments
  BufPages = 3
  Faults = {"thread", "begin", "page", "write"}
  NoPage = NoPage
  MaxPg = 5
  MaxWrites = 2
  MaxTxn = 4
  IOFaults = {"lock", "renew", "read", "write"}
  FileFaults = {"open", "close"}
INVARIANTS CompactFaithful AsIsReadable NothingLeft
PROPERTY CopyEnds
CHECK_DEADLOCK FALSE
