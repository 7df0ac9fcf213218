\* The peer falls silent, or the server is stopped, at any time.
SPECIFICATION FairSpec
CONSTANTS
  client = client
  stranger = stranger
  nobody = nobody
  short = short
  long = long
  empty = empty
  locked = locked
  nofile = nofile
  none = none
  Sessions = {s1}
  Endpoints = {client}
  NoEndpoint = nobody
  Files <- MCFiles
  NoFile = nofile
  FileLength <- MCFileLength
  Unopenable = {locked}
  WordSize <- MCWordSize
  DefaultBlockSize = 2
  DefaultTimeOut = 1
  None = none
  Requests <- SilentRequests
  Datagrams <- SilentDatagrams
PROPERTIES
  SilentSessionEnds
  RunReturns
