\* Two sessions on one listener, and Stop at any time.
SPECIFICATION Spec
CONSTANTS
  client = client
  stranger = stranger
  nobody = nobody
  short = short
  long = long
  empty = empty
  locked = locked
  nofile = nofile
  none = none
  Sessions = {s1, s2}
  Endpoints = {client}
  NoEndpoint = nobody
  Files <- MCFiles
  NoFile = nofile
  FileLength <- MCFileLength
  Unopenable = {locked}
  WordSize <- MCWordSize
  DefaultBlockSize = 2
  DefaultTimeOut = 1
  None = none
  Requests <- PoolRequests
  Datagrams <- PoolDatagrams
SYMMETRY SessionSymmetry
INVARIANT StopIsFinal
PROPERTY SessionsArePool
