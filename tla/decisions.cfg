SPECIFICATION Spec
CONSTANTS
  NoCode = NoCode
  Names <- SampleNames
  Replies <- SampleReplies
  MaxRedirects = 2
  IdLen = 2
  MaxPayload = 2
  TestBytes <- SampleBytes
INVARIANTS ProxyTypeOK BodiesWhereTheyBelong RequestsRewritten  CloseCodeSound FramesRoundTrip FramesRejected
PROPERTIES AlwaysAnswered
CHECK_DEADLOCK FALSE
