\* Every short datagram, longer ones with two options, and the limits.
SPECIFICATION FairSpec
CONSTANTS
  nul = nul
  none = none
  file = file
  nofile = nofile
  Files = {file}
  NoFile = nofile
  None = none
  Nul = nul
  SizeMax = 99999
  Texts <- MCTexts
  Payloads <- MCPayloads
  Resolve <- MCResolve
INVARIANTS
  TypeOK
  ParsedAsWritten
  DecodedAsWritten
PROPERTY EveryDatagramIsHandedOn
