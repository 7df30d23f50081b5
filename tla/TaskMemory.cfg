SPECIFICATION FairMemorySpec
CONSTANTS
  Task = {t1, t2}
  Item = {c1}
  NoItem = NoItem
  Stopper = {s1, s2}
  NoTask = NoTask
CHECK_DEADLOCK FALSE
INVARIANT AnswersAreTrue
PROPERTIES ImplementsTaskLife EveryStopAnswers
