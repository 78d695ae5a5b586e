CONSTANTS
  Payload <- Payloads
  Length <- Lengths
  Deflated <- DeflatedLengths
  Garbage = Garbage
  Nothing = Nothing
  Other = Other
  Dir <- Dirs
  MaxScans = 3
  MaxBus = 3
SPECIFICATION Spec
INVARIANTS TypeOK OncePerScan RoundTrip Genuine
PROPERTIES OnlyCurrent ScanEnds
