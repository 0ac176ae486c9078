\* Two certificates that both exist already, for the same domain.
CONSTANTS
    NoValue = NoValue
    DestroySubcommand = FALSE
    CertConfigs <- MCCertConfigsExisting
    MaxCerts = 2
    InstanceConfigs <- MCInstanceConfigs
    Envs <- MCEnvs
    CertStackNames = {NoValue}
    RoleStackNames = {NoValue}
    InstanceStackNames = {NoValue}
SPECIFICATION Spec
INVARIANT DistinctServedDomains
