SPECIFICATION WireSpec
CONSTANTS
  None = None
  FirstRoom = 2
  NextRoom = 3
  Sizes <- MCSizes
  Looks <- MCLooks
  MaxRounds = 2
  MaxRequests = 2
  MaxSockets = 2
INVARIANTS WireTypeOK AnswerBelongs NeverMixed
PROPERTIES ConfirmsOwnRequest CallsReturn
CHECK_DEADLOCK FALSE
