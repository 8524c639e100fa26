SPECIFICATION ConversionSpec
CONSTANTS
    Bits <- BitDepths
    Byte <- SomeBytes
    MaxInt <- TwelveBits
CHECK_DEADLOCK FALSE
INVARIANTS
    FormatsTruthful
    TicksExact
