------------------------------ MODULE Streamline ------------------------------
(***************************************************************************)
(* The CDK app NitroEnclavesAcmStreamline (config/types.ts) and the three *)
(* stacks it synthesises: CertificateStack and InstanceStack              *)
(* (lib/certificate-stack.ts) and RoleStack (lib/role-stack.ts).          *)
(*                                                                         *)
(* The app is constructed (validateEnv), then deploy() runs               *)
(* createCertificateStack, createRoleStack, createInstanceStack and       *)
(* addDependency in order; any of them may throw, which ends the          *)
(* synthesis.  A stack is modelled by what its constructor declares:      *)
(* the certificates with their validation method, the role's             *)
(* certificate associations and policy statements, the instance's        *)
(* ingress ports, image and user data.  A created certificate's ARN is a *)
(* token naming its construct.                                            *)
(***************************************************************************)
EXTENDS ConfigValidator, TLC

CONSTANTS
    CertConfigs,         \* the CertificateConfig values a configuration may use
    MaxCerts,            \* bound on the length of certificateConfig.certificates
    InstanceConfigs,     \* candidate instanceConfig values
    Envs,                \* candidate [region, account] values
    CertStackNames,      \* candidate certificateConfig.stackName values
    RoleStackNames,      \* candidate roleConfig?.stackName values
    InstanceStackNames   \* candidate instanceConfig.stackName values

\* The fields of types.ts: strings, optional ones absent or strings, and
\* isPrivate a boolean; the stack names are strings or absent.
OptString == STRING \cup {NoValue}

ASSUME StreamlineAssumption ==
    /\ MaxCerts \in Nat
    /\ \A c \in CertConfigs :
          c \in CertificateConfig(OptString, STRING, OptString, OptString,
                                  OptString, OptString)
    /\ CertStackNames \subseteq OptString
    /\ RoleStackNames \subseteq OptString
    /\ InstanceStackNames \subseteq OptString

VARIABLES
    phase,          \* where the app is: "new" .. "done", or "failed"
    config,         \* the configuration given to the constructor
    certificates,   \* the app's `certificates` array
    certStack,      \* CertificateStack's certificates, or NoValue
    roleStack,      \* RoleStack's associations and statements, or NoValue
    instanceStack   \* InstanceStack's declarations, or NoValue

vars == <<phase, config, certificates, certStack, roleStack, instanceStack>>

Configs ==
    [certs : UNION {[1 .. n -> CertConfigs] : n \in 0 .. MaxCerts},
     instance : InstanceConfigs, env : Envs,
     certStackName : CertStackNames, roleStackName : RoleStackNames,
     instanceStackName : InstanceStackNames]

\* The stacks' construct ids in the app.  `${stackName}` turns an absent
\* name into the string "undefined", so 'InstanceStack' is used only for
\* the empty string.
CertStackId(cfg) ==
    IF Truthy(cfg.certStackName) THEN cfg.certStackName ELSE "CertificateStack"
RoleStackId(cfg) ==
    IF Truthy(cfg.roleStackName) THEN cfg.roleStackName ELSE "RoleStack"
InstanceStackId(cfg) ==
    CASE cfg.instanceStackName = NoValue -> "undefined"
      [] cfg.instanceStackName = "" -> "InstanceStack"
      [] OTHER -> cfg.instanceStackName

----------------------------------------------------------------------------
(***************************************************************************)
(* CertificateStack.                                                       *)
(***************************************************************************)

\* certificate.certificateArn: a token resolved at deployment, one per
\* certificate construct, which is named certConfig.certificateName.
CreatedArn(name) == "arn:acm:" \o name

\* The validation the constructor picks: a PCA for a private certificate;
\* for a public one, DNS through the hosted zone if there is one, else DNS
\* if validationType is 'DNS', else e-mail.
Validation(c) ==
    IF c.isPrivate THEN "pca"
    ELSE IF Truthy(c.hostedZoneId) THEN "route53"
    ELSE IF c.validationType = "DNS" THEN "dns"
    ELSE "email"

CertificateResource(c) ==
    [arn |-> CreatedArn(c.certificateName), domain |-> c.domainName,
     validation |-> Validation(c),
     authority |-> IF c.isPrivate THEN c.pcaArn ELSE NoValue]

\* The ids the constructor gives the other constructs of certificate k
\* (`HostedZone-${index}`, `CertificateAuthority-${index}`, the outputs).
IndexedIds(k) ==
    {p \o ToString(k - 1) :
        p \in {"HostedZone-", "CertificateAuthority-", "CertificateArn-",
               "DomainName-"}}

\* The constructs library throws on an empty id and on an id already
\* taken in the scope; the certificate construct's id is its
\* certificateName.
ConstructIdsOK(certs) ==
    /\ \A i \in 1 .. Len(certs) : Truthy(certs[i].certificateName)
    /\ \A i, j \in 1 .. Len(certs) :
          i # j => certs[i].certificateName # certs[j].certificateName
    /\ \A i, k \in 1 .. Len(certs) : certs[i].certificateName \notin IndexedIds(k)

----------------------------------------------------------------------------
(***************************************************************************)
(* RoleStack: one association per certificate ARN, and for each an S3 and *)
(* a KMS statement; then iam:GetRole on the role itself.                  *)
(***************************************************************************)
Statement(action, a, region) == [action |-> action, association |-> a, region |-> region]

\* Mutant of RoleStack: the S3 and KMS grants only for the first
\* association, as the single-certificate stack had them.
RoleStackFirstOnly(id, arns, region) ==
    [id |-> id, associations |-> arns,
     statements |->
        {Statement("s3:GetObject", a, NoValue) : a \in 1 .. Len(arns) \cap {1}}
        \cup {Statement("kms:Decrypt", a, region) : a \in 1 .. Len(arns) \cap {1}}
        \cup {Statement("iam:GetRole", 0, NoValue)}]

\* Mutant of RoleStack: the KMS grant's region read from a prop the new
\* RoleStackProps no longer has (the legacy props.region), so undefined.
RoleStackNoRegion(id, arns, region) ==
    [id |-> id, associations |-> arns,
     statements |->
        {Statement("s3:GetObject", a, NoValue) : a \in 1 .. Len(arns)}
        \cup {Statement("kms:Decrypt", a, NoValue) : a \in 1 .. Len(arns)}
        \cup {Statement("iam:GetRole", 0, NoValue)}]

RoleStack(id, arns, region) ==
    [id |-> id, associations |-> arns,
     statements |->
        {Statement("s3:GetObject", a, NoValue) : a \in 1 .. Len(arns)}
        \cup {Statement("kms:Decrypt", a, region) : a \in 1 .. Len(arns)}
        \cup {Statement("iam:GetRole", 0, NoValue)}]

(***************************************************************************)
(* InstanceStack: the security group's ingress ports, the image, and the  *)
(* user data getUserData assembles from the scripts of the AMI and server *)
(* folder.  For the k-th certificate it appends the acm.yaml label        *)
(* nginx-acm-token-k with the certificate's ARN, writing                  *)
(* nginx-acm-k.conf, and the web-server stanza for its domain reading     *)
(* that file; and, for a private certificate, an /etc/hosts entry.        *)
(***************************************************************************)
UserData(ic, certs) ==
    [folder |-> <<ic.amiType, ic.serverType>>,
     serverNames |-> [k \in 1 .. Len(certs) |-> certs[k].domainName],
     labels |-> [k \in 1 .. Len(certs) |-> certs[k].existingCertificateArn],
     stanzas |-> [k \in 1 .. Len(certs) |-> certs[k].domainName],
     hosts |-> {certs[k].domainName : k \in {j \in 1 .. Len(certs) : certs[j].isPrivate}}]

\* Mutant of InstanceStack: the allowSSHPort branch dropped.
InstanceStackNoSSH(id, ic, certs) ==
    [id |-> id, ingress |-> {80, 443},
     encrypted |-> ic.encryptVolume,
     generation |-> IF ic.amiType = "AL2" THEN "AL2" ELSE "AL2023",
     userData |-> UserData(ic, certs),
     dependsOn |-> NoValue]

InstanceStack(id, ic, certs) ==
    [id |-> id, ingress |-> {80, 443} \cup (IF ic.allowSSHPort THEN {22} ELSE {}),
     encrypted |-> ic.encryptVolume,
     generation |-> IF ic.amiType = "AL2" THEN "AL2" ELSE "AL2023",
     userData |-> UserData(ic, certs),
     dependsOn |-> NoValue]

----------------------------------------------------------------------------
(***************************************************************************)
(* The app.                                                                *)
(***************************************************************************)

\* Mutant of Entry: the pushed element forgets isPrivate.
EntryNoPrivate(arn, c) ==
    [existingCertificateArn |-> arn, domainName |-> c.domainName]

\* An element of the app's `certificates` array.
Entry(arn, c) ==
    [existingCertificateArn |-> arn, domainName |-> c.domainName,
     isPrivate |-> c.isPrivate]

\* `filter` over the indexes I of the elements that pass: the elements of
\* s at the indexes in I, in their order in s.
Pick(s, I) ==
    LET F[i \in 0 .. Len(s)] ==
            IF i = 0 THEN << >>
            ELSE IF i \in I THEN Append(F[i - 1], s[i]) ELSE F[i - 1]
    IN  F[Len(s)]

\* certificatesToCreate: the configured certificates without an ARN.
ToCreate(certs) ==
    Pick(certs, {i \in 1 .. Len(certs) : ~Truthy(certs[i].existingCertificateArn)})

\* Mutant of NewEntries: the k-th ARN paired with the k-th configured
\* certificate instead of the k-th one to create.
NewEntriesByConfigIndex(certs, made) ==
    [k \in 1 .. Len(made) |-> Entry(made[k].arn, certs[k])]

\* The entries pushed for the created certificates: the k-th ARN of the
\* stack with the k-th certificate to create.
NewEntries(certs, made) ==
    [k \in 1 .. Len(made) |-> Entry(made[k].arn, ToCreate(certs)[k])]

Existing(certs) ==
    LET e == Pick(certs, {i \in 1 .. Len(certs) : Truthy(certs[i].existingCertificateArn)})
    IN  [i \in 1 .. Len(e) |-> Entry(e[i].existingCertificateArn, e[i])]

\* The certificates CertificateStack declares, one per certificate to
\* create, in order.
Made(toCreate) == [i \in 1 .. Len(toCreate) |-> CertificateResource(toCreate[i])]

\* The constructor: validateEnv.
ConstructApp ==
    /\ phase = "new"
    /\ phase' = IF ValidateEnv(config.env) THEN "constructed" ELSE "failed"
    /\ UNCHANGED <<config, certificates, certStack, roleStack, instanceStack>>

\* Mutant of CreateCertificateStack: validateCertificateStack not called.
CreateCertificateStackUnvalidated ==
    /\ phase = "constructed"
    /\ LET toCreate == ToCreate(config.certs)
           made == Made(toCreate)
       IN  IF toCreate = << >>
           THEN /\ certificates' = Existing(config.certs)
                /\ phase' = "certified" /\ UNCHANGED certStack
           ELSE IF ConstructIdsOK(toCreate)
           THEN /\ certStack' = [id |-> CertStackId(config), certs |-> made]
                /\ certificates' = Existing(config.certs) \o NewEntries(config.certs, made)
                /\ phase' = "certified"
           ELSE /\ certificates' = Existing(config.certs)
                /\ phase' = "failed" /\ UNCHANGED certStack
    /\ UNCHANGED <<config, roleStack, instanceStack>>

\* createCertificateStack: the existing certificates first; then, if some
\* are to be created, validateCertificateStack and the CertificateStack,
\* whose ARNs are appended with the domain of the certificate created.
CreateCertificateStack ==
    /\ phase = "constructed"
    /\ LET toCreate == ToCreate(config.certs)
           made == Made(toCreate)
       IN  IF toCreate = << >>
           THEN /\ certificates' = Existing(config.certs)
                /\ phase' = "certified" /\ UNCHANGED certStack
           ELSE IF ValidateCertificateStack(config.certs) /\ ConstructIdsOK(toCreate)
           THEN /\ certStack' = [id |-> CertStackId(config), certs |-> made]
                /\ certificates' = Existing(config.certs) \o NewEntries(config.certs, made)
                /\ phase' = "certified"
           ELSE /\ certificates' = Existing(config.certs)
                /\ phase' = "failed" /\ UNCHANGED certStack
    /\ UNCHANGED <<config, roleStack, instanceStack>>

\* The ids of the stacks already in the app; a new stack with one of them
\* throws.
AppIds == {s.id : s \in {certStack, roleStack, instanceStack} \ {NoValue}}

\* createRoleStack: validateRoleStack, then the RoleStack over every ARN.
CreateRoleStack ==
    /\ phase = "certified"
    /\ ValidateRoleStack
    /\ IF RoleStackId(config) \notin AppIds
       THEN /\ roleStack' = RoleStack(RoleStackId(config),
                                      [i \in 1 .. Len(certificates) |->
                                          certificates[i].existingCertificateArn],
                                      config.env.region)
            /\ phase' = "role"
       ELSE phase' = "failed" /\ UNCHANGED roleStack
    /\ UNCHANGED <<config, certificates, certStack, instanceStack>>

\* createInstanceStack: validateInstanceStack, then the InstanceStack.
CreateInstanceStack ==
    /\ phase = "role"
    /\ IF ValidateInstanceStack(config.instance) /\ InstanceStackId(config) \notin AppIds
       THEN /\ instanceStack' = InstanceStack(InstanceStackId(config), config.instance,
                                              certificates)
            /\ phase' = "instance"
       ELSE phase' = "failed" /\ UNCHANGED instanceStack
    /\ UNCHANGED <<config, certificates, certStack, roleStack>>

\* instanceStack.addDependency(roleStack): the instance, which uses the
\* role's instance profile, is deployed after the role.
AddDependency ==
    /\ phase = "instance"
    /\ instanceStack' = [instanceStack EXCEPT !.dependsOn = roleStack.id]
    /\ phase' = "done"
    /\ UNCHANGED <<config, certificates, certStack, roleStack>>

Init ==
    /\ phase = "new"
    /\ config \in Configs
    /\ certificates = << >>
    /\ certStack = NoValue /\ roleStack = NoValue /\ instanceStack = NoValue

\* Synthesis is over.
Finished == phase \in {"done", "failed"} /\ UNCHANGED vars

Deploy ==
    \/ ConstructApp \/ CreateCertificateStack \/ CreateRoleStack
    \/ CreateInstanceStack \/ AddDependency

Next == Deploy \/ Finished

\* deploy() runs its calls in sequence to the end or to the first throw.
Spec == Init /\ [][Next]_vars /\ WF_vars(Deploy)
----------------------------------------------------------------------------
(***************************************************************************)
(* Properties.                                                             *)
(***************************************************************************)
Phases == {"new", "constructed", "certified", "role", "instance", "done", "failed"}

EntryType == [existingCertificateArn : STRING,
              domainName : STRING, isPrivate : BOOLEAN]

\* The app's variables keep their shapes: the certificates array holds
\* entries with an ARN, a domain and a privacy flag, and each stack is
\* absent or has an id.
TypeOK ==
    /\ phase \in Phases
    /\ config \in Configs
    /\ certificates \in Seq(EntryType)
    /\ \A s \in {certStack, roleStack, instanceStack} : s = NoValue \/ s.id \in STRING
    /\ certStack # NoValue => DOMAIN certStack.certs = 1 .. Len(certStack.certs)

\* The validation a certificate config asks for, as the app's README and
\* the validator's messages describe it: a PCA for a private certificate;
\* Route 53 DNS for a hosted zone without a validationType; DNS or e-mail
\* as validationType says when there is no hosted zone; anything else
\* asks for nothing the stack can honour.
Requested(c) ==
    IF c.isPrivate THEN "pca"
    ELSE IF Truthy(c.hostedZoneId) /\ ~Truthy(c.validationType) THEN "route53"
    ELSE IF ~Truthy(c.hostedZoneId) /\ c.validationType = "DNS" THEN "dns"
    ELSE IF ~Truthy(c.hostedZoneId) /\ c.validationType = "EMAIL" THEN "email"
    ELSE "unspecified"

\* Every certificate CertificateStack declares is validated the way its
\* config asked for, and a private one names its CA: the validator's
\* checks (config-validator.ts) must rule out every config on which the
\* constructor's fallbacks (certificate-stack.ts, the e-mail default of
\* the ternary) would pick a method nobody asked for.
CreatedAsRequested ==
    certStack # NoValue =>
        \A k \in DOMAIN certStack.certs :
            /\ certStack.certs[k].validation = Requested(ToCreate(config.certs)[k])
            /\ certStack.certs[k].validation = "pca" => Truthy(certStack.certs[k].authority)

\* Every certificate the instance's ACM agent is configured to fetch
\* (the k-th label of acm.yaml in the user data) is the certificate of
\* the role's k-th association, and the role may read that association's
\* S3 object and decrypt with its KMS key in the app's region: the role
\* stack and the instance stack are built in different steps of deploy()
\* from the same `certificates` array.
RoleCoversServedCerts ==
    instanceStack # NoValue =>
        LET u == instanceStack.userData
        IN  \A k \in DOMAIN u.labels :
               /\ roleStack.associations[k] = u.labels[k]
               /\ Statement("s3:GetObject", k, NoValue) \in roleStack.statements
               /\ Statement("kms:Decrypt", k, config.env.region) \in roleStack.statements

\* createCertificateStack checks distinct domain names (the validator's
\* first rule) before the web server gets one stanza per certificate: no
\* two stanzas of the instance's user data serve the same domain.
DistinctServedDomains ==
    instanceStack # NoValue =>
        LET st == instanceStack.userData.stanzas
        IN  \A k, j \in DOMAIN st : k # j => st[k] # st[j]

\* A configuration that the validators accept (with `cdk deploy`) is
\* synthesised: deploy() does not throw on it.
Accepted(cfg) ==
    /\ ValidateEnv(cfg.env)
    /\ ValidateCertificateStack(cfg.certs)
    /\ ValidateInstanceStack(cfg.instance)

AcceptedConfigSynthesizes == ~DestroySubcommand /\ Accepted(config) => phase # "failed"

(***************************************************************************)
(* What deploy() has established, step by step, about the configuration   *)
(* it was given: validateEnv passed once the app is constructed; from     *)
(* createCertificateStack on, `certificates` holds the existing           *)
(* certificates followed by the created ones, and if some were to be      *)
(* created the validator admitted the configuration; the certificate      *)
(* stack declares exactly the certificates to create; validateInstanceStack *)
(* passed once the instance stack exists.  This is the inductive          *)
(* invariant behind CreatedAsRequested and the refinement of              *)
(* DeployAbstract.                                                         *)
(***************************************************************************)
DeployInv ==
    /\ config \in Configs
    /\ phase \in Phases
    /\ phase \in {"constructed", "certified", "role", "instance", "done"} =>
          ValidateEnv(config.env)
    /\ phase \in {"certified", "role", "instance", "done"} =>
          /\ certificates = Existing(config.certs)
                            \o NewEntries(config.certs, Made(ToCreate(config.certs)))
          /\ ToCreate(config.certs) # << >> =>
                ValidateCertificateStack(config.certs) /\ ConstructIdsOK(ToCreate(config.certs))
    /\ certStack # NoValue =>
          /\ ToCreate(config.certs) # << >>
          /\ ValidateCertificateStack(config.certs)
          /\ certStack.certs = Made(ToCreate(config.certs))
    /\ phase \in {"instance", "done"} => ValidateInstanceStack(config.instance)

----------------------------------------------------------------------------
(***************************************************************************)
(* The refinement mapping: the deployment is pending until deploy() ends; *)
(* it is deployed when addDependency has run and rejected when a step     *)
(* threw.  The instance serves the pairs of a stanza and the label of the *)
(* same index; the role is granted the ARNs of the associations that have *)
(* both their S3 and their KMS statement in the app's region.            *)
(***************************************************************************)
MappedOutcome ==
    CASE phase = "done" -> "deployed"
      [] phase = "failed" -> "rejected"
      [] OTHER -> "pending"

MappedServed ==
    IF phase = "done"
    THEN LET u == instanceStack.userData
         IN  {<<u.stanzas[k], u.labels[k]>> : k \in DOMAIN u.labels}
    ELSE {}

MappedGranted ==
    IF phase = "done"
    THEN {roleStack.associations[a] :
            a \in {b \in DOMAIN roleStack.associations :
                     /\ Statement("s3:GetObject", b, NoValue) \in roleStack.statements
                     /\ Statement("kms:Decrypt", b, config.env.region)
                          \in roleStack.statements}}
    ELSE {}

Abs == INSTANCE DeployAbstract
          WITH outcome <- MappedOutcome, served <- MappedServed,
               granted <- MappedGranted

\* Streamline implements DeployAbstract: deploy() either throws or
\* synthesises an instance serving exactly the configured
\* certificate-domain pairs with a role granted exactly their ARNs, only
\* for configurations the validators admit, and it always ends.
AbstractDeploy == Abs!ASpec

=============================================================================
