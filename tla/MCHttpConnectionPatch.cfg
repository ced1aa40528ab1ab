SPECIFICATION Spec
CONSTANTS
  v = v
  w = w
  HeaderNames <- MCHeaderNames
  QueryNames <- MCQueryNames
  Keys <- MCKeys
  Methods <- MCMethods
  Paths <- MCPaths
  Codes <- MCCodes
  Values <- MCValues
  Text = Text
  Absent = Absent
  Null = Null
  EmptyPath = EmptyPath
  RootPath = RootPath
  BadPath = BadPath
  Err = Err
  Streams <- MCStreams
  RawConfigs <- MCPatchConfigs
  Responses <- MCResponses
  BadGateway <- MCBadGateway
  BadHost = BadHost
  Upgraded = 101
  Remote = "client"
  Target = "target"
  Port = 80
  MaxReplies = 1
INVARIANT
  PatchHeadersAppended
