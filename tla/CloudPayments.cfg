SPECIFICATION CloudFairSpec
CONSTANTS
  Codes = {k1, k2}
  Timer = timer
  Checkers = {timer, register}
  RetryLimit = 3
CHECK_DEADLOCK FALSE
INVARIANTS CloudTypeOK ChargesAreAccountedFor
PROPERTIES ImplementsTruth ChargesAreSettled
