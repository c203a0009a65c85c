SPECIFICATION Spec
CONSTANTS
  SndCap = 1
  RecvMax = 3
  MaxIo = 2
  High = 2
  Low = 1
  FrameLen = 2
  BatchCap = 1
  HeldCap = 1
  MaxSend = 2
  MaxKept = 1
  Configs <- MCConfigs
INVARIANTS StreamsExact WriteProgress ReadsGoOn SendWaiterWakes
