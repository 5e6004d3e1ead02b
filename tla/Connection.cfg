\* Two boards, one of them with GET_SECURITY_INFO, in three sessions; up to three
\* frames outlive a call, as many as SYNC has answers.
CONSTANTS
  MaxLate = 3
  Faults = {"lose_command", "lose_answer", "refuse"}
  Chips = {old, new}
  InfoChips = {new}
  EfuseChips = {old}
  Registers = {"r1", "r2"}
  SyncAnswers = 3
  Trials = {0, 1, 2}
  MaxSessions = 3
SPECIFICATION Spec
INVARIANTS
  DetectsAttached
  ReadsFresh
PROPERTY ConnectEnds
CHECK_DEADLOCK FALSE
