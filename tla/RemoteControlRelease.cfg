SPECIFICATION Spec
CONSTANTS
  AutofocusLead = 3
  ImmediateAutofocusLead = 1
  WebShutterHold = 1
  PhysicalShutterFailsafe = 2
  Cooldown = 3
  MaxDelay = 4
  RequestIds = {r1}
  Delays <- MCDelays
  MaxNow = 8
  LastAsk = 5
  MaxCommands = 4
  r1 = r1
PROPERTIES
  EveryShotReleased
