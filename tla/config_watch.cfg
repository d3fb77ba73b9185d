SPECIFICATION FairSpec
CONSTANTS
  Contents = {"c1", "c2", "c3", "odd", "bare", "twin"}
  SourcesOf <- Sharing
  Broken = {"odd"}
  Sourceless = {"bare"}
  Clashing = {"twin"}
  Posts = {"p1"}
  Body <- Bodies
  FirstFile = "c1"
  MaxEdits = 2
  Missing = "missing"
  Empty = "empty"
  Invalid = "invalid"
  Nobody = "nobody"
INVARIANTS
  ServiceRunsConfig
  PostTellsApplied
PROPERTIES
  AnswersAreFinal
  FileIsApplied
  NewBodyIsAnswered
  EndsAtLast
CHECK_DEADLOCK FALSE
