SPECIFICATION UdpFairSpec
CONSTANTS
  Sender = {loop, gcode}
  Busy = {loop}
  Address = {a1, a2}
  Host = Host
  Limited = Limited
  None = None
  MaxChanges = 2
  MaxExtra = 1
 
PROPERTIES ComesBack
CHECK_DEADLOCK FALSE
