SPECIFICATION CaptureSpec
CONSTANTS
  Sensors <- MCSensors
  PerPacket = 2
  MaxPackets = 4
  MaxSamples = 1
  Ages = {0, 30}
  Days = {25, 1000}
  Waits = {5}
  Durations = {0, 10}
INVARIANTS TableIsCapture ConvertersAgree TimesInWindow
CHECK_DEADLOCK FALSE
