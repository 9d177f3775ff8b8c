SPECIFICATION FairSpec
CONSTANTS
  Files <- MCFiles
  Strays <- MCStrays
  Numbers <- MCNumbers
  Leading <- MCLeading
  Addresses = {"local"}
INVARIANTS TypeOK AsWritten SlipStaysInServer ListensAsConfigured
PROPERTIES EachWordOnce Loads
CHECK_DEADLOCK FALSE
