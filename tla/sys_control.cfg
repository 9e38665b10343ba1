SPECIFICATION FairSpec
CONSTANTS
  None = None
  Programs <- MCPrograms
  HandlerCalls <- MCHandlerCalls
  MaxInterrupts <- MCMaxInterrupts
INVARIANTS
  TypeOK
  CallersConsiderate
  FieldsIntact
  CodecAgrees
PROPERTIES
  VolumesTogether
  CallEnds
CHECK_DEADLOCK FALSE
