SPECIFICATION Spec
CONSTANTS
  Procs = {p1}
  Bodies = {b1, b2}
  NoBody = NoBody
  Secret = Secret
  OtherSecret = OtherSecret
  NoHeader = NoHeader
  Malformed = Malformed
  TicksPerSecond = 2
  Options <- MCOptions
  DefaultReplayWindow = 4
  OTPOptions <- MCOTPOptions
  DefaultDigits = 6
  DefaultPeriod = 3
  DefaultSkew = 1
  CounterMod = 64
  MaxDrift = 2
  MaxTime = 13
  MaxSigned = 1
INVARIANTS TypeOK HandledWasSigned TimelyIsHandled CodesLiveTheirWindow
