SPECIFICATION UriSpec
CONSTANTS
  Uris <- MCUris
  Again <- MCAgain
INVARIANT EveryUriParsed
CHECK_DEADLOCK FALSE
