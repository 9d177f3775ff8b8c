SPECIFICATION Spec
CONSTANTS
  Requests <- MCRequests
  Configurations <- MCConfigurations
  Files <- MCFiles
  Unreadable <- MCUnreadable
  Directories <- MCDirectories
  Dotted <- MCDotted
  EndsInDot <- MCEndsInDot
  Digits <- MCDigits
INVARIANT QueryIsNotPath
