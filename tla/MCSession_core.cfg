\* One session: every request, every datagram, two endpoints.
SPECIFICATION Spec
CONSTANTS
  client = client
  stranger = stranger
  nobody = nobody
  short = short
  long = long
  empty = empty
  locked = locked
  nofile = nofile
  none = none
  Sessions = {s1}
  Endpoints <- MCEndpoints
  NoEndpoint = nobody
  Files <- MCFiles
  NoFile = nofile
  FileLength <- MCFileLength
  Unopenable = {locked}
  WordSize <- MCWordSize
  DefaultBlockSize = 2
  DefaultTimeOut = 1
  None = none
  Requests <- CoreRequests
  Datagrams <- CoreDatagrams
INVARIANTS
  TypeOK
  InFlightMatchesState
  ResetRestoresDefaults
  ErrorIsReported
  RetryBudget
  DownloadInOrder
  UploadInOrder
  NoSecondLap
  OackTellsTheSize
PROPERTIES
  AdvancesOnCurrentAck
  CompletionMeansAll
  RetriesAreEarned
  SilentStepsDescend
