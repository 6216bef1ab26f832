CONSTANTS
  Services <- CleanupHttpGrpc
  Logger = FALSE
SPECIFICATION FairSpec
INVARIANTS StopsWhatWasStarted CleanupComesLast
PROPERTIES StartReturns RegistrationEnds RegistersOnce
CHECK_DEADLOCK FALSE
