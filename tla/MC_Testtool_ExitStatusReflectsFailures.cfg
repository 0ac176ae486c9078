CONSTANTS
    RsaKeys <- MCRsaKeys
    EcKeys <- MCEcKeys
    Digests <- MCDigests
    RsaPssSaltSizes <- MCSalts
    LargeFileSizes <- MCLargeSizes
    SmallFileSizes <- MCSmallSizes
    EcdsaFileSizes <- MCEcdsaSizes
    Faults = {"none", "badArtifact", "acceptAll"}
    MaxOpErrors = 1
    MaxRuns = 2
    NoKey = NoKey
SPECIFICATION SuiteSpec
INVARIANTS ExitStatusReflectsFailures
