CONSTANTS
    i1 = i1
    i2 = i2
    i3 = i3
    Instances = {i1, i2}
    Events = {e1}
    NoOne = NoOne
    NoEvent = NoEvent
    Host <- OneHost
    Timeout = 2
SPECIFICATION Spec
CHECK_DEADLOCK FALSE
PROPERTY RecoveredWasInterrupted
