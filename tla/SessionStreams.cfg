SPECIFICATION StreamsSpec
CONSTANTS
  HeaderLen = 2
  Lengths = {1, 3}
  LastId = 2
  MaxRequests = 3
  ReportLengths = {2, 3}
  MaxReports = 3
  Messages <- MCMessages
CHECK_DEADLOCK FALSE
INVARIANTS
  StreamsInSequence
  PayloadsRoundTrip
PROPERTIES
  AnswerBelongsToRequest
  SessionEndsWhole
