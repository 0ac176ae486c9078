--------------------------- MODULE DeployAbstract ---------------------------
(***************************************************************************)
(* What a deployment of the CDK app promises, in one step: a              *)
(* configuration is either rejected, or deployed.  A deployed             *)
(* configuration is one the validators admit.  Its instance then serves   *)
(* each configured domain with the certificate configured for it (the     *)
(* existing ARN, or the one issued for the certificate's construct), and  *)
(* its role is granted access to every one of those certificates.  Which  *)
(* admissible configurations are rejected (by the constructs library, say) *)
(* is left open.                                                           *)
(***************************************************************************)
EXTENDS ConfigValidator

CONSTANT Configs     \* the configurations the app may be given

VARIABLES
    config,     \* the configuration
    outcome,    \* "pending", "deployed" or "rejected"
    served,     \* the <<domain, certificate ARN>> pairs the instance serves
    granted     \* the certificate ARNs the role may fetch and decrypt

avars == <<config, outcome, served, granted>>

\* The ARN of the certificate issued for a construct named `name`.
IssuedArn(name) == "arn:acm:" \o name

ArnOf(c) ==
    IF Truthy(c.existingCertificateArn) THEN c.existingCertificateArn
    ELSE IssuedArn(c.certificateName)

ConfiguredPairs(cfg) ==
    {<<cfg.certs[i].domainName, ArnOf(cfg.certs[i])>> : i \in 1 .. Len(cfg.certs)}

ConfiguredArns(cfg) == {ArnOf(cfg.certs[i]) : i \in 1 .. Len(cfg.certs)}

\* What the validators admit about the certificates to create, the
\* instance and the environment.
Admissible(cfg) ==
    /\ ValidateEnv(cfg.env)
    /\ ValidateInstanceStack(cfg.instance)
    /\ \/ DestroySubcommand
       \/ \A i \in 1 .. Len(cfg.certs) :
             Truthy(cfg.certs[i].existingCertificateArn)
             \/ CertificateToCreateOK(cfg.certs[i])

AInit ==
    /\ config \in Configs
    /\ outcome = "pending"
    /\ served = {} /\ granted = {}

Deployed ==
    /\ outcome = "pending"
    /\ Admissible(config)
    /\ outcome' = "deployed"
    /\ served' = ConfiguredPairs(config)
    /\ granted' = ConfiguredArns(config)
    /\ UNCHANGED config

Rejected ==
    /\ outcome = "pending"
    /\ outcome' = "rejected"
    /\ UNCHANGED <<config, served, granted>>

ANext == Deployed \/ Rejected

\* Every deployment ends, deployed or rejected.
ASpec == AInit /\ [][ANext]_avars /\ WF_avars(ANext)
=============================================================================
