-------------------------- MODULE LegacyStreamline --------------------------
(***************************************************************************)
(* The single-certificate stacks of the first version of the app          *)
(* (streamline/src/lib): RoleStack and InstanceStack.  Each constructor   *)
(* checks its props and throws, or declares its resources.  The           *)
(* InstanceStack imports the role by the ARN that RoleStack publishes     *)
(* (roleArn, "to pass it to external stacks"), so the role stack is       *)
(* constructed first.  The props are inputs drawn from small sets.        *)
(*                                                                         *)
(* The declarations are compared with those of the multi-certificate      *)
(* stacks of Streamline, which replaced these: given one certificate,     *)
(* the new stacks are to declare what the old ones did.                   *)
(***************************************************************************)
EXTENDS ConfigValidator

CONSTANTS
    RoleProps,       \* candidate RoleStackProps
    InstanceProps    \* candidate InstanceStackProps, roleArn aside

VARIABLES
    lphase,      \* "new", "role", "instance" or "failed"
    lrole,       \* the role stack's declarations, or NoValue
    linstance    \* the instance stack's declarations, or NoValue

lvars == <<lphase, lrole, linstance>>

\* The stacks of Streamline, for their declarations only.
New == INSTANCE Streamline
         WITH CertConfigs <- {}, MaxCerts <- 0, InstanceConfigs <- {}, Envs <- {},
              CertStackNames <- {}, RoleStackNames <- {}, InstanceStackNames <- {},
              phase <- "new", config <- NoValue, certificates <- << >>,
              certStack <- NoValue, roleStack <- NoValue, instanceStack <- NoValue

\* The role's ARN token, resolved at deployment.
RoleArn(roleId) == "arn:iam:role/" \o roleId

(***************************************************************************)
(* RoleStack: certificateArn and region are required; the role, one       *)
(* association with the certificate, and its S3, KMS and GetRole grants.  *)
(***************************************************************************)
LegacyRoleOK(p) == Truthy(p.certificateArn) /\ Truthy(p.region)

LegacyRoleStack(p) ==
    LET roleId == IF Truthy(p.roleName) THEN p.roleName ELSE "AcmRole"
    IN  [roleArn |-> RoleArn(roleId), region |-> p.region,
         associations |-> << p.certificateArn >>,
         statements |-> {New!Statement("s3:GetObject", 1, NoValue),
                         New!Statement("kms:Decrypt", 1, p.region),
                         New!Statement("iam:GetRole", 0, NoValue)}]

(***************************************************************************)
(* InstanceStack: serverType, amiType, roleArn, keyPairName and           *)
(* instanceType are checked; SSH, HTTP and HTTPS are open; the user data  *)
(* is <amiType>/<server>-conf.sh with the first occurrence of each        *)
(* placeholder replaced by the certificate's ARN and its domain.          *)
(***************************************************************************)
LegacyInstanceOK(p) ==
    /\ p.serverType \in {"NGINX", "APACHE"}
    /\ p.amiType \in {"AL2", "AL2023"}
    /\ Truthy(p.roleArn)
    /\ Truthy(p.keyPairName)
    /\ Truthy(p.instanceType)

LegacyInstanceStack(p) ==
    [ingress |-> {22, 80, 443},
     serverType |-> p.serverType, amiType |-> p.amiType,
     generation |-> IF p.amiType = "AL2" THEN "AL2" ELSE "AL2023",
     role |-> p.roleArn,
     userData |-> [arn |-> p.certificateArn, domain |-> p.domainName]]

\* Mutant of CreateRoleStack: the props' checks skipped.
CreateRoleStackUnchecked ==
    /\ lphase = "new"
    /\ \E p \in RoleProps : lrole' = LegacyRoleStack(p) /\ lphase' = "role"
    /\ UNCHANGED linstance

CreateRoleStack ==
    /\ lphase = "new"
    /\ \E p \in RoleProps :
          IF LegacyRoleOK(p)
          THEN lrole' = LegacyRoleStack(p) /\ lphase' = "role"
          ELSE lphase' = "failed" /\ UNCHANGED lrole
    /\ UNCHANGED linstance

\* The instance is given the role stack's roleArn, or none.
CreateInstanceStack ==
    /\ lphase = "role"
    /\ \E q \in InstanceProps, r \in {lrole.roleArn, NoValue} :
          LET p == [q EXCEPT !.roleArn = r]
          IN  IF LegacyInstanceOK(p)
              THEN linstance' = LegacyInstanceStack(p) /\ lphase' = "instance"
              ELSE lphase' = "failed" /\ UNCHANGED linstance
    /\ UNCHANGED lrole

LInit == lphase = "new" /\ lrole = NoValue /\ linstance = NoValue

LFinished == lphase \in {"instance", "failed"} /\ UNCHANGED lvars

LNext == CreateRoleStack \/ CreateInstanceStack \/ LFinished

LSpec == LInit /\ [][LNext]_lvars

----------------------------------------------------------------------------
(***************************************************************************)
(* What the two constructors can have left behind: the role stack, once   *)
(* made, is RoleStack's declarations for props that passed its checks;    *)
(* the instance stack, once made, is InstanceStack's for instance props   *)
(* given the role's ARN or none.  Neither is made before its constructor  *)
(* runs: the instance's role is never read from a role stack made after   *)
(* it.  It is the inductive invariant behind the two comparisons below.   *)
(***************************************************************************)
LInv ==
    /\ lphase \in {"new", "role", "instance", "failed"}
    /\ lphase = "new" => lrole = NoValue
    /\ lphase \in {"new", "role"} => linstance = NoValue
    /\ lrole # NoValue =>
          \E p \in RoleProps : LegacyRoleOK(p) /\ lrole = LegacyRoleStack(p)
    /\ linstance # NoValue =>
          \E q \in InstanceProps, r \in {lrole.roleArn, NoValue} :
             LET p == [q EXCEPT !.roleArn = r]
             IN  LegacyInstanceOK(p) /\ linstance = LegacyInstanceStack(p)

\* With one certificate, the new RoleStack (cdk/src/lib/role-stack.ts)
\* associates the same ARN and declares the same S3, KMS (in the same
\* region) and GetRole statements as the legacy one.
LegacyRoleMatches ==
    lrole # NoValue =>
        LET n == New!RoleStack("RoleStack", lrole.associations, lrole.region)
        IN  /\ n.associations = lrole.associations
            /\ n.statements = lrole.statements

\* With one public certificate and SSH allowed, the new InstanceStack
\* opens the same ports, picks the same image generation, and serves the
\* same domain with the same certificate as the legacy one.
LegacyInstanceMatches ==
    linstance # NoValue =>
        LET u == linstance.userData
            ic == [serverType |-> linstance.serverType, amiType |-> linstance.amiType,
                   allowSSHPort |-> TRUE, encryptVolume |-> FALSE]
            n == New!InstanceStack("InstanceStack", ic,
                    << [existingCertificateArn |-> u.arn, domainName |-> u.domain,
                        isPrivate |-> FALSE] >>)
        IN  /\ n.ingress = linstance.ingress
            /\ n.generation = linstance.generation
            /\ n.userData.labels = << u.arn >>
            /\ n.userData.stanzas = << u.domain >>
=============================================================================
