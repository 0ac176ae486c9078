----------------------- MODULE LegacyStreamlineProofs -----------------------
(***************************************************************************)
(* Proofs that the multi-certificate stacks declare, for one certificate, *)
(* what the legacy single-certificate stacks declared: for every set of    *)
(* props, not only the ones MC_LegacyStreamline enumerates.  The          *)
(* inductive invariant LInv says which declarations the two legacy        *)
(* constructors can have left behind.                                      *)
(***************************************************************************)
EXTENDS LegacyStreamline, TLAPS

LEMMA LInvInit == LInit => LInv
BY DEF LInit, LInv

\* Each constructor, and the stutter after the last, preserves LInv.
LEMMA LInvStep == LInv /\ [LNext]_lvars => LInv'
<1> SUFFICES ASSUME LInv, [LNext]_lvars PROVE LInv'
  OBVIOUS
<1>1. CASE CreateRoleStack
  BY <1>1 DEF CreateRoleStack, LInv
<1>2. CASE CreateInstanceStack
  BY <1>2 DEF CreateInstanceStack, LInv
<1>3. CASE LFinished \/ UNCHANGED lvars
  BY <1>3 DEF LFinished, lvars, LInv
<1> QED
  BY <1>1, <1>2, <1>3 DEF LNext

\* LInv holds in every state of the legacy app.
THEOREM LInvariant == LSpec => []LInv
BY LInvInit, LInvStep, PTL DEF LSpec

(***************************************************************************)
(* For every role props that pass the legacy checks, the new RoleStack    *)
(* over the legacy role's one ARN and region associates that ARN and      *)
(* declares the S3, KMS and GetRole statements the legacy one did.        *)
(***************************************************************************)
THEOREM RoleMatches == LSpec => []LegacyRoleMatches
<1>1. ASSUME NEW p
      PROVE  LET l == LegacyRoleStack(p)
                 n == New!RoleStack("RoleStack", l.associations, l.region)
             IN  n.associations = l.associations /\ n.statements = l.statements
  BY DEF LegacyRoleStack, New!RoleStack
<1>2. LInv => LegacyRoleMatches
  BY <1>1 DEF LInv, LegacyRoleMatches
<1> QED
  BY <1>2, LInvariant, PTL

(***************************************************************************)
(* For every instance props, the new InstanceStack with SSH allowed and   *)
(* the legacy certificate as its one public certificate opens the ports,  *)
(* picks the image generation and writes the acm.yaml label and the       *)
(* server stanza that the legacy one did.                                 *)
(***************************************************************************)
THEOREM InstanceMatches == LSpec => []LegacyInstanceMatches
<1>1. ASSUME NEW p
      PROVE  LET l == LegacyInstanceStack(p)
                 u == l.userData
                 ic == [serverType |-> l.serverType, amiType |-> l.amiType,
                        allowSSHPort |-> TRUE, encryptVolume |-> FALSE]
                 n == New!InstanceStack("InstanceStack", ic,
                         << [existingCertificateArn |-> u.arn, domainName |-> u.domain,
                             isPrivate |-> FALSE] >>)
             IN  /\ n.ingress = l.ingress
                 /\ n.generation = l.generation
                 /\ n.userData.labels = << u.arn >>
                 /\ n.userData.stanzas = << u.domain >>
  BY DEF LegacyInstanceStack, New!InstanceStack, New!UserData
<1>2. LInv => LegacyInstanceMatches
  BY <1>1 DEF LInv, LegacyInstanceMatches
<1> QED
  BY <1>2, LInvariant, PTL
=============================================================================
