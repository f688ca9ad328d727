SPECIFICATION DataSpec
CONSTANTS
  Tasks = {x1, x2}
  NoTask = NoTask
  BufSize = 4
  MaxSize = 8
  Nil = 0
  Timers = {1, 2, 3, 4, 5, 6, 7, 8, 9}
  timeout <- MCTimeout
  Keys = {1, 2, 3}
  Handles = {1, 2, 3, 4}
  MaxHeld = 2
  MaxSizes = {0, 2}
  Docs = {d1, d2}
  NoDoc = NoDoc
  Names = {1, 2}
  MaxBlocks = 4
  START_LINE_MAX = 8
  HEADER_NAME_MAX = 3
  HEADER_VALUE_MAX = 3
  CHUNK_LINE_MAX = 3
  TRAILER_LINE_MAX = 3
  CHUNK_SIZE_MAX = 9
  Streams <- MCStreams
  Requests <- MCRequests
  AppHeaders <- MCHeaders
  AppBlocks <- MCBlocks
  AppChunked <- MCChunked
  AppVersions <- MCVersions
  AppCodes <- MCCodes
  MaxHttpOps = 3
  MaxVectors = 11
  DefaultTimeo = 60000
  KEEPALIVE_MAX = 300000
  Uris <- MCUris
  Again <- MCAgain
  Strings <- MCStrings
  MaxLevel = 2
  StringTexts <- MCStringTexts
  Integrals <- MCIntegrals
  Fractions <- MCFractions
  Exponents <- MCExponents
  ValueTexts <- MCValueTexts
  Documents <- MCDocuments
  Mallocs = {0, 1, 2, 3, 4, 5, 99}
  Figures = 3
  Powers = 5
  Subnormal = 2
  JSON_DEPTH_LIMIT = 2
INVARIANTS Inv TreeInv CacheInv DocInv MessageInv RoundTrip KeepAliveAgrees UriInv StrInv JsonTextInv
PROPERTY Implements
SYMMETRY Symmetry
CHECK_DEADLOCK FALSE
