\* Streamline on at most two certificates: types, validation methods and
\* the refinement of DeployAbstract.
CONSTANTS
    NoValue = NoValue
    DestroySubcommand = FALSE
    CertConfigs <- MCCertConfigs
    MaxCerts = 2
    InstanceConfigs <- MCInstanceConfigs
    Envs <- MCEnvs
    CertStackNames <- MCCertStackNames
    RoleStackNames = {NoValue}
    InstanceStackNames <- MCInstanceStackNames
SPECIFICATION Spec
INVARIANTS DeployInv TypeOK CreatedAsRequested RoleCoversServedCerts
PROPERTIES AbstractDeploy
