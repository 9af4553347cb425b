SPECIFICATION FairSpec
CONSTANTS
  AutofocusLead = 3
  ImmediateAutofocusLead = 1
  WebShutterHold = 1
  PhysicalShutterFailsafe = 2
  Cooldown = 3
  MaxDelay = 4
  RequestIds = {r1}
  Delays <- MCDelays
  MaxNow = 4
  LastAsk = 4
  MaxCommands = 3
  r1 = r1
INVARIANTS
  TypeOK
  StateFollowsReadiness
  ScheduleMatchesState
PROPERTIES
  CapturesAsAsked
  CapturesSpaced
  ReleaseOnTime
  JobsAreOnTime
  StaleResultsIgnored
  ImplementsShutter
  JobsEnd
  ShutterIsReleased
