SPECIFICATION Spec
CONSTANTS
    CHAR_BIT = 3
    Groups <- SomeGroups
    Texts6 <- SomeTexts
    PrefixBytes = {0, 1, 170, 255}
    Bytes4 = {0, 9, 10, 99, 100, 255}
    Components4 <- SomeComponents
    Vectors <- SomeVectors
    Payloads <- SomePayloads
INVARIANTS ReadsAddress PrintsReadable ReadsAddress4 BitsExact ChecksumExact
