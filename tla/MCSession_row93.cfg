\* The target of the row for old and foreign data.
SPECIFICATION Spec
CONSTANTS
  client = client
  stranger = stranger
  nobody = nobody
  short = short
  long = long
  empty = empty
  locked = locked
  nofile = nofile
  none = none
  Sessions = {s1}
  Endpoints <- MCEndpoints
  NoEndpoint = nobody
  Files <- MCFiles
  NoFile = nofile
  FileLength <- MCFileLength
  Unopenable = {locked}
  WordSize <- MCWordSize
  DefaultBlockSize = 2
  DefaultTimeOut = 1
  None = none
  Requests <- CoreRequests
  Datagrams <- CoreDatagrams
INVARIANT WriteWaitsForData
