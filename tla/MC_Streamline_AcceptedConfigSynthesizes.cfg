\* Certificates to create, with or without a certificateName.
CONSTANTS
    NoValue = NoValue
    DestroySubcommand = FALSE
    CertConfigs <- MCCertConfigsUnnamed
    MaxCerts = 2
    InstanceConfigs <- MCInstanceConfigs
    Envs <- MCEnvs
    CertStackNames = {NoValue}
    RoleStackNames = {NoValue}
    InstanceStackNames = {NoValue}
SPECIFICATION Spec
INVARIANT AcceptedConfigSynthesizes
