CONSTANTS
  MaxFN = 48
  Airs <- Channels
  MaxMiss = 3
  Frames = 26
  PdchMaxMiss = 3
  IdleHeard = TRUE
  SchemeFlags <- StealingFlags
  SchemeOf <- Estimate
  Octet = {"2b", "x"}
  Fill = "2b"
  SdcchLen = 3
  SacchLen = 2
  SiLen = 2
  MaxFrames = 5
SPECIFICATION Spec
INVARIANTS Lossless PdchResync CodesCorrect PdusReassembled PaddingMeasured
CHECK_DEADLOCK FALSE
