SPECIFICATION Spec
CONSTANTS
  copied = copied
  decoy = decoy
  flashed = flashed
  blank = blank
  None = None
  Gone = Gone
  Devices <- MCDevices
  Carriers <- MCCarriers
  Foreign <- MCForeign
  Labelled <- MCLabelled
  Tries = 2
  MaxPlugs = 3
INVARIANT EveryFailurePanics
