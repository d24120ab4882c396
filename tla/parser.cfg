\* Fourteen streams of one or two requests, cut anywhere.
SPECIFICATION Spec
CONSTANTS
  Streams <- MCStreams
  MaxChunk = 24
INVARIANTS TypeOK ParsedAsWhole
CHECK_DEADLOCK FALSE
