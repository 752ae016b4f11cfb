\* Two calls over two lives of the application.
CONSTANTS
  Calls = {c1, c2}
  MaxLives = 2
SPECIFICATION FairSpec
INVARIANTS CalledOnce ParkedIsHeld NothingInherited
PROPERTIES SettledBeforeDropped PromiseSpec AnswersArrive
CHECK_DEADLOCK FALSE
