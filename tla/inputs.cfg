SPECIFICATION Spec
CONSTANTS
  Devices <- MCDevices
  Documents <- MCDocuments
  Texts <- MCTexts
INVARIANTS
  AnswersUnderItsId
  ArgumentsAreLegal
  ArgumentsSayRequest
  OfferedIsAccepted
  ValuesSurviveCommandLine
CHECK_DEADLOCK FALSE
