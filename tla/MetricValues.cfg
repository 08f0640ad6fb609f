SPECIFICATION Spec
CONSTANTS
  Digits <- MCDigits
  Pool <- MCPool
  MaxStatements = 10000
  MaxStored = 4
  CourseId <- MCCourse
  TopicId <- MCTopic
INVARIANTS TypeOK IncrementalIsFull ScoresWithinMaximum LastElementsAreLatest
PROPERTIES NeverDecreases
