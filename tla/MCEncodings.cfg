\* Three bytes: an escape is one byte written in three.
SPECIFICATION Spec
CONSTANTS
  Byte <- MCByte
  MaxFields = 2
  MaxBytes = 3
  Root <- MCRoot
  None = None
INVARIANTS
  FormRoundTrip
  CookieRoundTrip
  StateEntryRoundTrip
  TokenRoundTrip
  StringsWhole
  UrlRoundTrip
CHECK_DEADLOCK FALSE
