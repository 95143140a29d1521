SPECIFICATION FairSpec
CONSTANTS
  Langs = {"en", "de"}
  OnDevice = {"en"}
  FirstLang = "en"
  MaxSessions = 3
  MaxProbes = 2
INVARIANTS
  TypeOK
  MicrophoneIsOwned
  TextIsTheRecording
  AudioStaysWhereAllowed
  NothingLeftBehind
PROPERTY BusyEnds
CHECK_DEADLOCK FALSE
