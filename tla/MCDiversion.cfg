SPECIFICATION FairSpec
CONSTANTS
  Ssh = 2
  SafeMid = 3
  FirstFree = 4
  MaxPort = 6
  MultiportMax = 2
CHECK_DEADLOCK FALSE
INVARIANTS
  TypeOK
  OthersUntouched
  NoneSlipsThrough
  ListenPortApart
PROPERTIES
  ProxiedLasts
  SynTaken
