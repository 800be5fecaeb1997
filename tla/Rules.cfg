SPECIFICATION RulesSpec
CONSTANT Tasks <- MCTasks
CHECK_DEADLOCK FALSE
INVARIANTS GlobAnswers GatesAgree AcceptedMeansItself  HighestIsHighest
PROPERTIES GlobEnds
