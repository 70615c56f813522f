\* Every message as it is, every beginning of it, and every change of it in
\* one place.  No text is as long as Wrap.
CONSTANTS
  Requests <- MCRequests
  Responses <- MCResponses
  Uris <- MCUris
  Wrap = 1024
SPECIFICATION Spec
INVARIANTS
  TypeOK
  WholeIsParsed
  CutIsIncomplete
  ViewsTile
CHECK_DEADLOCK FALSE
