CONSTANTS
    RsaKeys <- MCRsaKeys
    EcKeys <- MCEcKeys
    Digests <- MCDigests
    RsaPssSaltSizes <- MCSalts
    LargeFileSizes <- MCLargeSizes
    SmallFileSizes <- MCSmallSizes
    EcdsaFileSizes <- MCEcdsaSizes
    Faults = {"none", "badArtifact", "acceptAll"}
    MaxOpErrors = 1
    NoKey = NoKey
SPECIFICATION Spec
INVARIANTS NegativePathSound
