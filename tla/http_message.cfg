CONSTANTS
  HTTP_MAX_HEADER_SIZE = 45
  ULLONG_MAX = 255
  FieldMod = 65536
  MaxPort = 65535
  CONN_BUFFER_SIZE = 3
  Nil = Nil
  Streams <- MCStreams
SPECIFICATION FairSpec
INVARIANTS DecodedExactly BodyInOrder MalformedRefused AssertionsHold
PROPERTIES NeverRefused ReadingEnds
