SPECIFICATION Spec
CONSTANTS
  NoCode = NoCode
  Names <- SampleNames
  Replies <- SampleReplies
  MaxRedirects = 2
  IdLen = 2
  MaxPayload = 2
  TestBytes <- SampleBytes
INVARIANT AuthorizationNotForwarded
CHECK_DEADLOCK FALSE
