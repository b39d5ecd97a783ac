SPECIFICATION Spec
CONSTANT None = None
INVARIANTS
  MessagesAsSent
  RepliesAsSent
  CommandsAsMeant
CHECK_DEADLOCK FALSE
