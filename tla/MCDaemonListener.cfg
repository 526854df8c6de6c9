CONSTANTS
  Devices = {d1, d2}
  Keyboards = {d1, d2}
  ctrl = ctrl
  s = s
  x = x
  Keys = {ctrl, s}
  Actions <- TheAction
  Requires <- SaveOnly
  Debounce = 1
  MaxTime = 1
  MaxEvents = 4
  MaxQueue = 1
SPECIFICATION ListenerSpec
INVARIANTS
  NoGhostKeys
  ArmedIffUp
PROPERTIES
  OncePerPress
  KeyboardFound
  StopEnds
CHECK_DEADLOCK FALSE
