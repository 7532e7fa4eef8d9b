\* Three messages of a conversation, handled in any interleaving; one answer
\* is lost or the process is restarted once.
SPECIFICATION FairSpec
CONSTANTS
  MaxCallbacks = 3
  ConversationId = {c1}
  MaxFaults = 1
INVARIANTS
  TypeOK
  StoreMatchesChat
  PendingCanBeParsed
PROPERTIES
  EveryCallbackIsAnswered
CHECK_DEADLOCK FALSE
