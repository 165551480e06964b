\* Three spans, two requests on the way, all codecs, two keys that differ in their case.
CONSTANTS
  s1 = s1 s2 = s2 s3 = s3
  Span = {s1, s2, s3}
  NoId = NoId
  Codec = {"text", "binary", "zipkin", "b3"}
  Key = {"a", "A"}
  LowerCase <- Lower
  v = v
  Value = {v}
  NoValue = NoValue
  NoContext = NoContext
  Unknown = Unknown
  MaxWire = 2
  MaxChange = 1
SPECIFICATION Spec
SYMMETRY Symmetry
INVARIANT TypeOK
INVARIANT TraceIsTree
INVARIANT FlagsAgree
INVARIANT BaggageKept
CHECK_DEADLOCK FALSE
