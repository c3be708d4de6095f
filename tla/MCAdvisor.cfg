SPECIFICATION TrailSpec
CONSTANTS
  Problem <- MCProblem
  Tags <- MCTags
  Difficulty <- MCDifficulty
  Curricula <- MCCurricula
  MaxTries = 2
  MaxDay = 1
  MaxImports = 1
INVARIANT AgreesWithCurriculum
PROPERTY TrailEnds
CHECK_DEADLOCK FALSE
