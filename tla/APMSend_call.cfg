\* Three kinds of data, any of them empty, SIGTERM at any moment.
SPECIFICATION Spec
CONSTANTS
  NumKinds = 3
INVARIANTS TypeOK NoSendOnClosedErrChan SuccessMeansAllAccepted
PROPERTIES CallCompletes
CHECK_DEADLOCK FALSE
