SPECIFICATION Spec
CONSTANTS
  Batches = {1, 3}
  Values = {0, 18}
INVARIANT AnswerDecoded
