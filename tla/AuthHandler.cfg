SPECIFICATION Spec
CONSTANTS
  KeyNames = {"k1", "k2", "k3"}
  IdentityFiles <- MCIdentityFiles
  AgentLists <- MCAgentLists
  Preferences <- MCPreferences
  PasswordRetries = 2
  PassphraseRetries = 2
  MaxPrompts = 2
  MaxRounds = 2
  MaxRefusals = 1
INVARIANTS
  TypeOK
  OfferedAsListed
  NoKeyKeptBack
  AnswersMatchPrompts
PROPERTIES
  CancelSticks
  Finishes
CHECK_DEADLOCK FALSE
