SPECIFICATION Spec
CONSTANTS
  MaxFrame <- MCMaxFrame
  Streams <- MCStreams
  RespLen <- MCRespLen
INVARIANT TypeOK
INVARIANT FrameLimitExact
INVARIANT ResponsesRoundTrip
PROPERTY RequestsAnswered
CHECK_DEADLOCK FALSE
