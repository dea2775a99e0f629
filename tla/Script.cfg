SPECIFICATION Spec
CONSTANTS
  Messages <- MCMessages
  Foreign <- MCForeign
  Live <- MCLive
  MaxInput = 2
  MaxScripts = 2
  MaxEvents = 2
INVARIANTS
  TypeOK
  RoundTrip
  TextReplayed
  ClicksReplayed
  NoPhantomKey
PROPERTY
  OwnFilesAccepted
