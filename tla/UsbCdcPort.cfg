\* One core and two; four sessions.
CONSTANT
  MaxSessions = 4
SPECIFICATION Spec
INVARIANTS
  LeaksOnlyWhenOvertaken
  IntactWhilePlugged
PROPERTY UnplugNoticed
CHECK_DEADLOCK FALSE
