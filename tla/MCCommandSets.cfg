CONSTANTS
  extended_addressing = TRUE
  ScsiSamples <- MCScsiSamples
  UfiSamples <- MCUfiSamples
SPECIFICATION SetsSpec
INVARIANTS
  
  ScsiCutBlocks
  UfiRoundTrip
