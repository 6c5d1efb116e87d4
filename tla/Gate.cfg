\* Token files of up to three lines, one rotation at a time; If-Match headers
\* of up to five fragments.
SPECIFICATION GateSpec
CONSTANTS
  Texts <- MCTexts
  TrimSpace <- MCTrimSpace
  Length <- MCLength
  HasBlank = {"s 3"}
  Lines <- MCLines
  MaxLines = 3
  Routes <- MCRoutes
  Headers <- MCHeaders
  NullValue = "null"
  OtherValue = "other"
  Nobody = Nobody
  Fragments <- MCFragments
  MaxFragments = 5
  MaxVersion = 10
INVARIANTS LoadDecidesByContent AnswersFollowTheFile PreconditionMeansItsTags
CHECK_DEADLOCK FALSE
