SPECIFICATION Spec
CONSTANTS
  Spans <- MCSpans
  Climates <- MCClimates
INVARIANTS
  AnswerIsHistory
  AxesReachPoints
