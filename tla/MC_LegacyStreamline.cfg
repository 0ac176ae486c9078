\* The legacy RoleStack and InstanceStack against the new stacks.
CONSTANTS
    NoValue = NoValue
    DestroySubcommand = FALSE
    RoleProps <- MCRoleProps
    InstanceProps <- MCInstanceProps
SPECIFICATION LSpec
INVARIANTS LInv LegacyRoleMatches LegacyInstanceMatches
