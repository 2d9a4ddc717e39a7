SPECIFICATION Spec
CONSTANTS
  Calls = {c1}
  Kinds = {"SRPC", "SRPCHttp", "BRPC", "TRPC", "TRPCHttp"}
  Spoken = {"SRPC", "TRPC"}
  Requests <- MCRequests
  Responses <- MCResponses
  Garbled <- MCGarbled
  Low = 8
  High = 32
CHECK_DEADLOCK FALSE
INVARIANTS
  TypeOK
  HandledAsAsked
  ResultIsTheAnswer
  OnlyText
  SpellingsAgree
PROPERTIES
  CallsEnd
