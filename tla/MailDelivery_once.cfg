SPECIFICATION Spec
CONSTANTS
  Procs = {daemon, command}
  Operator = command
  HttpAttempts = 2
  Lifetime = 1
  Margin = 1
  MaxClock = 1
  MaxIssued = 3
  Methods = {"PLAIN", "XOAUTH2"}
  TlsModes = {"starttls", "implicit"}
  TransientRetryLimit = 2
  MaxJobs = 1
  MaxPowerFailures = 1
INVARIANTS
  TypeOK
  RefreshTokenIsKept
  MailIsSentOnce
  CredentialsInsideTls
CHECK_DEADLOCK FALSE
