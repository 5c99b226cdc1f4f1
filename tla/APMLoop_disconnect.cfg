\* The collector may tell the extension to disconnect.
SPECIFICATION Spec
CONSTANTS
  Payloads = {1}
  DataCap = 1
  ErrorCap = 1
  Answers = {0, 200, 410}
  CompleteReplies = TRUE
  NumInvocations = 1
  NumReports = 0
  ReportKinds = {}
  MaxErrors = 0
  MaySignal = FALSE
INVARIANT DisconnectObeyed
CHECK_DEADLOCK FALSE
