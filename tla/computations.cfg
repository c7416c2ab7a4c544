\* Every input of the small sets of MCComputations, each for itself.
CONSTANTS
  World <- MCWorld
  PlanInputs <- MCPlanInputs
  TraceInputs <- MCTraceInputs
  LengthInputs <- MCLengthInputs
  TalkInputs <- MCTalkInputs
  ByteInputs <- MCByteInputs
  StreamInputs <- MCStreamInputs
  ThoughtInputs <- MCThoughtInputs
  ValueInputs <- MCValueInputs
  TokenInputs <- MCTokenInputs
  RunInputs <- MCRunInputs
  BatchInputs <- MCBatchInputs
  WindowInputs <- MCWindowInputs
  AnswerInputs <- MCAnswerInputs
  ChoiceInputs <- MCChoiceInputs
  TextInputs <- MCTextInputs
SPECIFICATION Spec
INVARIANTS
  PlanFaithful
  WorkloadFaithful
  StreamsFaithful
  ReportsHonest
  QualityHonest
