\* One session, one client and any of its requests, and a network that loses, repeats and reorders.
SPECIFICATION DownloadSpec
CONSTANTS
  alice = alice
  nobody = nobody
  even = even
  odd = odd
  nofile = nofile
  none = none
  Sessions = {s1}
  Endpoints = {alice}
  NoEndpoint = nobody
  Files = {even, odd}
  NoFile = nofile
  FileLength <- MCFileLength
  Unopenable = {}
  WordSize <- MCWordSize
  DefaultBlockSize = 2
  DefaultTimeOut = 1
  None = none
  Requests <- MCRequests
  Datagrams <- MCDatagrams
INVARIANT DownloadTypeOK
PROPERTIES
  DownloadIsTransfer
  FinishedMeansDelivered
