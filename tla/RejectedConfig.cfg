SPECIFICATION Spec
CONSTANTS
  Files <- MCFiles
  Strays <- MCStrays
  Numbers <- MCNumbers
  Leading <- MCLeading
  Addresses = {"local"}
INVARIANT RejectedIsReported
CHECK_DEADLOCK FALSE
