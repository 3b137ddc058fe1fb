SPECIFICATION WriterSpec
CONSTANTS
  PageCap = 4
  Calls <- MCCalls
  Unwritable = {"lzo"}
INVARIANT RoundTrip
