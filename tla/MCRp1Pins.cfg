SPECIFICATION Spec
CONSTANTS
  Callers <- TwoCallers
  Launches <- FourLaunches
  ImageOf <- FourImages
  WordWrap = 16
  CqSize = 1
  MaxCqSize = 4
  Starts <- FreshOrUsed
INVARIANT PinsHeld
