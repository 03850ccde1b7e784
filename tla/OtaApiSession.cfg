SPECIFICATION FairSpec
CONSTANT
  Scenarios <- MCScenarios
PROPERTIES
  AnswersTaken
  NeverStarved
  
CHECK_DEADLOCK FALSE
