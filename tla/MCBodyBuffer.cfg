SPECIFICATION Spec
CONSTANTS
  MaxBufferSize = 4
  MaxBytes = 6
  MaxLen = 3
INVARIANTS BufferHoldsRest ReadInOrder
PROPERTIES ReadAnswers ImplementsQueue
