--------------------------- MODULE ConfigValidator ---------------------------
(***************************************************************************)
(* The configuration of the CDK app (config/types.ts) and the checks of   *)
(* ConfigValidator (config/config-validator.ts), as predicates.           *)
(*                                                                         *)
(* An optional field that is absent is NoValue.  JavaScript truthiness is *)
(* kept: `!x` holds of an absent field and of the empty string.  Each     *)
(* validator returns normally or throws; a predicate here is TRUE when    *)
(* the validator returns normally.                                        *)
(***************************************************************************)
EXTENDS Integers, Sequences, FiniteSets

CONSTANTS
    NoValue,             \* an absent optional field (undefined)
    DestroySubcommand    \* the isDestroySubcommand flag of the app

ASSUME ConfigValidatorAssumption ==
    /\ NoValue \notin STRING
    /\ DestroySubcommand \in BOOLEAN

\* `!x` is false: the field is present and not the empty string.
Truthy(x) == x \notin {NoValue, ""}

\* A CertificateConfig (types.ts): isPrivate is a boolean, the rest are
\* strings or absent.
CertificateConfig(Names, Domains, Zones, VTypes, Pcas, Arns) ==
    [certificateName : Names, domainName : Domains, isPrivate : BOOLEAN,
     hostedZoneId : Zones, validationType : VTypes, pcaArn : Pcas,
     existingCertificateArn : Arns]

(***************************************************************************)
(* validateCertificateStack: distinct domain names over all certificates, *)
(* then, for each certificate without an existing ARN, the rules of a     *)
(* private (PCA-issued) or a public (DNS or e-mail validated) one.        *)
(***************************************************************************)
DistinctDomains(certs) ==
    Cardinality({certs[i].domainName : i \in 1 .. Len(certs)}) = Len(certs)

PrivateCertificateOK(c) ==
    /\ Truthy(c.pcaArn)
    /\ ~Truthy(c.validationType)
    /\ ~Truthy(c.hostedZoneId)

\* Mutant of PublicCertificateOK: without the check that a hosted zone
\* or a validationType is given (config-validator.ts, line 41).
PublicCertificateOKNoEither(c) ==
    /\ ~Truthy(c.pcaArn)
    /\ ~(Truthy(c.hostedZoneId) /\ Truthy(c.validationType))
    /\ Truthy(c.validationType) => c.validationType \in {"DNS", "EMAIL"}

PublicCertificateOK(c) ==
    /\ ~Truthy(c.pcaArn)
    /\ ~(Truthy(c.hostedZoneId) /\ Truthy(c.validationType))
    /\ Truthy(c.hostedZoneId) \/ Truthy(c.validationType)
    /\ Truthy(c.validationType) => c.validationType \in {"DNS", "EMAIL"}

CertificateToCreateOK(c) ==
    /\ Truthy(c.domainName)
    /\ IF c.isPrivate THEN PrivateCertificateOK(c) ELSE PublicCertificateOK(c)

ValidateCertificateStack(certs) ==
    \/ DestroySubcommand
    \/ /\ DistinctDomains(certs)
       /\ \A i \in 1 .. Len(certs) :
             Truthy(certs[i].existingCertificateArn)
             \/ CertificateToCreateOK(certs[i])

\* validateRoleStack returns at once.
ValidateRoleStack == TRUE

\* validateInstanceStack.
ValidateInstanceStack(ic) ==
    \/ DestroySubcommand
    \/ /\ ic.serverType \in {"NGINX", "APACHE"}
       /\ ic.amiType \in {"AL2", "AL2023"}
       /\ Truthy(ic.keyPairName)
       /\ Truthy(ic.instanceType)

\* validateEnv, run by the app's constructor, whatever the subcommand.
ValidateEnv(env) == Truthy(env.region) /\ Truthy(env.account)
=============================================================================
