\* One session, one client, two transfers, and a network that loses, repeats and reorders.
SPECIFICATION UploadSpec
CONSTANTS
  alice = alice
  nobody = nobody
  file = file
  nofile = nofile
  none = none
  noport = noport
  Sessions = {s1}
  Endpoints = {alice}
  NoEndpoint = nobody
  Files = {file}
  NoFile = nofile
  FileLength <- MCFileLength
  Unopenable = {}
  WordSize <- MCWordSize
  DefaultBlockSize = 2
  DefaultTimeOut = 1
  None = none
  Requests <- MCRequests
  Datagrams <- MCDatagrams
  NoPort = noport
  MaxTransfers = 2
INVARIANTS
  UploadTypeOK
  UndisturbedUploadIsSaved
PROPERTY UploadIsTransfer
