\* One sensor and three tenths of a second between two heartbeats instead of ten.  One call of each
\* shape: "setting", "extrinsic", "spindown" and "standby" go through the same actions as "spinup".
SPECIFICATION FairSpec
CONSTANTS
  Ops = {"connect", "spinup", "address", "start", "stop", "save", "close", "reboot", "disconnect", "rawStart", "rawStop", "drain"}
  Slots = 3
  MaxAlarms = 1
  MaxUnread = 1
INVARIANTS FilesClosed DisconnectedIsQuiet
PROPERTIES ImplementsHalfDuplex CallsReturn
