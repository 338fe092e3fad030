SPECIFICATION CaptureSpec
CONSTANTS
  Sensors <- MCSensors
  PerPacket = 2
  MaxPackets = 4
  MaxSamples = 1
  Ages = {0, 30}
  Days = {25, 1000}
  Waits = {5}
  Durations = {0, 10}
\* Each of these is refuted; TLC stops at the first, so one is to be active.
INVARIANT ZeroIsIndefinite
\* INVARIANT TimesRise
\* INVARIANT DurationHolds
CHECK_DEADLOCK FALSE
