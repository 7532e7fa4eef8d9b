\* Two messages in one conversation, no fault.
SPECIFICATION Spec
CONSTANTS
  MaxCallbacks = 2
  ConversationId = {c1}
  MaxFaults = 0
INVARIANT PromptIsBacked
CHECK_DEADLOCK FALSE
