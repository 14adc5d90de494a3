SPECIFICATION FairSpec
CONSTANTS
  Callers = {c1}
  Attempts = 3
  Codes = {200, 500}
  Unauthorized = 401
  Nil = Nil
  MaxVersion = 3
  Limit = 16
  Second = 2
  DefaultSec = 5
  NotANumber = NotANumber
  Timeouts <- MCTimeouts
INVARIANTS TypeOK CredentialsAreRecent RefusedOnlyAfterRotation
PROPERTIES ExchangesEnd ExchangesKeepThePromise
