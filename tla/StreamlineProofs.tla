-------------------------- MODULE StreamlineProofs --------------------------
(***************************************************************************)
(* Proofs about the CDK app of Streamline, for every value of the         *)
(* constants: the instance's certificates are the role's (through the     *)
(* inductive invariant CoverInv); a certificate the validator admits is   *)
(* created with the validation its config asks for (through DeployInv);   *)
(* and Streamline implements the safety part of DeployAbstract.          *)
(***************************************************************************)
EXTENDS Streamline, SequenceTheorems, WellFoundedInduction, TLAPS

----------------------------------------------------------------------------
(***************************************************************************)
(* Lemmas about Pick, the `filter` of createCertificateStack.  Induction  *)
(* over the indexes of a sequence is done with a set of naturals closed   *)
(* under successor (SetInduction), from the least-element property of    *)
(* the naturals.                                                           *)
(***************************************************************************)
LessNat == {ss \in Nat \X Nat : ss[1] < ss[2]}

\* A set of naturals that holds 0 and is closed under successor holds
\* every natural.
LEMMA SetInduction ==
    ASSUME NEW S, 0 \in S, \A i \in Nat : i \in S => i + 1 \in S
    PROVE  Nat \subseteq S
<1> SUFFICES ASSUME Nat \ S # {} PROVE FALSE
  OBVIOUS
<1>1. IsWellFoundedOn(LessNat, Nat)
  BY NatLessThanWellFounded DEF OpToRel, LessNat
<1>2. PICK x \in Nat \ S : \A y \in Nat \ S : ~(<<y, x>> \in LessNat)
  BY <1>1, WFMin
<1>3. x \in Nat /\ x # 0
  BY <1>2
<1>4. x - 1 \in Nat /\ <<x - 1, x>> \in LessNat
  BY <1>3 DEF LessNat
<1>5. x - 1 \in S
  BY <1>2, <1>4
<1> QED
  BY <1>2, <1>4, <1>5

\* The step of Pick's recursive function F at index i.
PickStep(F, s, I, i) ==
    IF i = 0 THEN << >> ELSE IF i \in I THEN Append(F[i - 1], s[i]) ELSE F[i - 1]

\* Pick's recursive function, as the LET of its definition names it.
PickFn(s, I) == CHOOSE F : F = [i \in 0 .. Len(s) |-> PickStep(F, s, I, i)]

LEMMA PickDef == ASSUME NEW s, NEW I PROVE Pick(s, I) = PickFn(s, I)[Len(s)]
BY DEF Pick, PickFn, PickStep

\* Pick's recursive function exists: it is built index by index.
LEMMA PickFnDef ==
    ASSUME NEW s, NEW I, Len(s) \in Nat
    PROVE  PickFn(s, I) = [i \in 0 .. Len(s) |-> PickStep(PickFn(s, I), s, I, i)]
<1> DEFINE n == Len(s)
           Ok(m) == \E g : /\ DOMAIN g = 0 .. m
                           /\ \A i \in 0 .. m : g[i] = PickStep(g, s, I, i)
           T == {m \in Nat : m <= n => Ok(m)}
<1>1. 0 \in T
  <2>1. Ok(0)
    <3> DEFINE g == [i \in 0 .. 0 |-> << >>]
    <3>1. DOMAIN g = 0 .. 0 /\ \A i \in 0 .. 0 : g[i] = PickStep(g, s, I, i)
      BY DEF PickStep
    <3> QED
      BY <3>1, Zenon
  <2> QED
    BY <2>1
<1>2. ASSUME NEW m \in Nat, m \in T PROVE m + 1 \in T
  <2> SUFFICES ASSUME m + 1 <= n PROVE Ok(m + 1)
    OBVIOUS
  <2>1. PICK g : DOMAIN g = 0 .. m /\ \A i \in 0 .. m : g[i] = PickStep(g, s, I, i)
    BY <1>2
  <2> DEFINE h == [i \in 0 .. m + 1 |-> IF i <= m THEN g[i] ELSE PickStep(g, s, I, i)]
  <2>2. ASSUME NEW i \in 0 .. m + 1 PROVE h[i] = PickStep(h, s, I, i)
    <3>1. i > 0 => h[i - 1] = g[i - 1]
      OBVIOUS
    <3>2. PickStep(h, s, I, i) = PickStep(g, s, I, i)
      BY <3>1 DEF PickStep
    <3>3. h[i] = PickStep(g, s, I, i)
      BY <2>1
    <3> QED
      BY <3>2, <3>3
  <2>3. DOMAIN h = 0 .. m + 1
    OBVIOUS
  <2> QED
    BY <2>2, <2>3, Zenon
<1>3. n \in T
  BY <1>1, <1>2, SetInduction
<1>4. PICK g : DOMAIN g = 0 .. n /\ \A i \in 0 .. n : g[i] = PickStep(g, s, I, i)
  BY <1>3
<1>5. g = [i \in 0 .. n |-> PickStep(g, s, I, i)]
  BY <1>4
<1> QED
  BY <1>5 DEF PickFn

\* The elements of a sequence.
Elems(q) == {q[k] : k \in 1 .. Len(q)}

LEMMA ElemsAppend ==
    ASSUME NEW X, NEW q \in Seq(X), NEW x
    PROVE  Elems(Append(q, x)) = Elems(q) \cup {x}
<1>1. Len(Append(q, x)) = Len(q) + 1
  OBVIOUS
<1>2. \A k \in 1 .. Len(q) : Append(q, x)[k] = q[k]
  OBVIOUS
<1>3. Append(q, x)[Len(q) + 1] = x
  OBVIOUS
<1> QED
  BY <1>1, <1>2, <1>3 DEF Elems

(***************************************************************************)
(* Pick(s, I) is a sequence of the elements of s at the indexes in I, and *)
(* every one of them is in it: `filter` loses no element that passes.     *)
(***************************************************************************)
LEMMA PickElems ==
    ASSUME NEW X, NEW s \in Seq(X), NEW I \in SUBSET (1 .. Len(s))
    PROVE  /\ Pick(s, I) \in Seq({s[i] : i \in I})
           /\ Elems(Pick(s, I)) = {s[i] : i \in I}
<1> DEFINE n == Len(s)
           F == PickFn(s, I)
           Y == {s[i] : i \in I}
           Inv(m) == F[m] \in Seq(Y) /\ Elems(F[m]) = {s[i] : i \in I \cap 1 .. m}
           T == {m \in Nat : m <= n => Inv(m)}
<1>1. F = [i \in 0 .. n |-> PickStep(F, s, I, i)]
  BY PickFnDef
<1>2. 0 \in T
  BY <1>1 DEF PickStep, Elems
<1>3. ASSUME NEW m \in Nat, m \in T PROVE m + 1 \in T
  <2> SUFFICES ASSUME m + 1 <= n PROVE Inv(m + 1)
    OBVIOUS
  <2>1. Inv(m)
    BY <1>3
  <2>2. CASE m + 1 \in I
    <3>1. F[m + 1] = Append(F[m], s[m + 1])
      BY <1>1, <2>2 DEF PickStep
    <3>2. s[m + 1] \in Y
      BY <2>2
    <3>3. Elems(F[m + 1]) = Elems(F[m]) \cup {s[m + 1]}
      BY <2>1, <3>1, ElemsAppend
    <3>4. I \cap 1 .. m + 1 = (I \cap 1 .. m) \cup {m + 1}
      BY <2>2
    <3> QED
      BY <2>1, <3>1, <3>2, <3>3, <3>4
  <2>3. CASE m + 1 \notin I
    <3>0. F[m + 1] = PickStep(F, s, I, m + 1)
      BY <1>1
    <3>1. F[m + 1] = F[m]
      BY <3>0, <2>3 DEF PickStep
    <3>2. I \cap 1 .. m + 1 = I \cap 1 .. m
      BY <2>3
    <3> QED
      BY <2>1, <3>1, <3>2
  <2> QED
    BY <2>2, <2>3
<1>4. Nat \subseteq T
  BY <1>2, <1>3, SetInduction
<1>5. n \in T
  <2>1. n \in Nat
    OBVIOUS
  <2> QED
    BY <1>4, <2>1
<1>7. Inv(n)
  BY <1>5
<1>6. I \cap 1 .. n = I
  OBVIOUS
<1> QED
  BY <1>7, <1>6, PickDef

\* The fields of the InstanceStack record.
InstanceFields == {"id", "ingress", "encrypted", "generation", "userData", "dependsOn"}

\* The role's associations: the ARNs of the `certificates` array, in order.
RoleArns == [i \in 1 .. Len(certificates) |-> certificates[i].existingCertificateArn]

(***************************************************************************)
(* What deploy() leaves behind, phase by phase: no instance stack before  *)
(* createInstanceStack has returned; from createRoleStack on, the role    *)
(* stack built over the whole `certificates` array; and from              *)
(* createInstanceStack on, the user data built over that same array.  It  *)
(* holds because `certificates` and `config` no longer change once the    *)
(* certificate stack is made.                                              *)
(***************************************************************************)
CoverInv ==
    /\ phase \in Phases
    /\ phase \notin {"instance", "done"} => instanceStack = NoValue
    /\ phase \in {"role", "instance", "done"} =>
          roleStack = RoleStack(roleStack.id, RoleArns, config.env.region)
    /\ phase \in {"instance", "done"} =>
          /\ DOMAIN instanceStack = InstanceFields
          /\ instanceStack.userData = UserData(config.instance, certificates)

LEMMA CoverInit == Init => CoverInv
BY DEF Init, CoverInv, Phases

\* Every step of deploy(), a stutter included, preserves CoverInv.
LEMMA CoverStep == CoverInv /\ [Next]_vars => CoverInv'
<1> SUFFICES ASSUME CoverInv, [Next]_vars PROVE CoverInv'
  OBVIOUS
<1> USE DEF CoverInv, Phases, RoleArns
<1>1. CASE ConstructApp
  BY <1>1 DEF ConstructApp
<1>2. CASE CreateCertificateStack
  BY <1>2 DEF CreateCertificateStack
<1>3. CASE CreateRoleStack
  BY <1>3 DEF CreateRoleStack, RoleStack
<1>4. CASE CreateInstanceStack
  BY <1>4 DEF CreateInstanceStack, InstanceStack, InstanceFields
<1>5. CASE AddDependency
  BY <1>5 DEF AddDependency
<1>6. CASE Finished
  BY <1>6 DEF Finished, vars
<1>7. CASE UNCHANGED vars
  BY <1>7 DEF vars
<1> QED
  BY <1>1, <1>2, <1>3, <1>4, <1>5, <1>6, <1>7 DEF Next, Deploy

\* CoverInv holds in every state of deploy().
THEOREM CoverInvariant == Spec => []CoverInv
BY CoverInit, CoverStep, PTL DEF Spec

(***************************************************************************)
(* Every certificate the instance's ACM agent fetches is associated with  *)
(* the instance's role, which may read its S3 object and decrypt with its *)
(* KMS key in the app's region.                                            *)
(***************************************************************************)
THEOREM RoleCoversServed == Spec => []RoleCoversServedCerts
<1>1. CoverInv => RoleCoversServedCerts
  <2> SUFFICES ASSUME CoverInv, instanceStack # NoValue,
                      NEW k \in DOMAIN instanceStack.userData.labels
               PROVE  /\ roleStack.associations[k] = instanceStack.userData.labels[k]
                      /\ Statement("s3:GetObject", k, NoValue) \in roleStack.statements
                      /\ Statement("kms:Decrypt", k, config.env.region)
                            \in roleStack.statements
    BY DEF RoleCoversServedCerts
  <2>1. phase \in {"instance", "done"}
    BY DEF CoverInv
  <2>2. k \in 1 .. Len(certificates)
    BY <2>1 DEF CoverInv, UserData
  <2> QED
    BY <2>1, <2>2 DEF CoverInv, RoleArns, RoleStack, UserData
<1> QED
  BY <1>1, CoverInvariant, PTL

(***************************************************************************)
(* The validator and CertificateStack's constructor agree, for every      *)
(* string: a certificate that validateCertificateStack admits for         *)
(* creation is declared with the validation method its config asks for,  *)
(* and a private one with its CA.  This is the per-certificate core of    *)
(* CreatedAsRequested, which TLC checks on the small instance.            *)
(***************************************************************************)
THEOREM AdmittedCreatedAsRequested ==
    ASSUME NEW c, ~DestroySubcommand, CertificateToCreateOK(c),
           c.isPrivate \in BOOLEAN
    PROVE  /\ CertificateResource(c).validation = Requested(c)
           /\ CertificateResource(c).validation = "pca" =>
                 Truthy(CertificateResource(c).authority)
<1>1. CASE c.isPrivate
  <2>1. PrivateCertificateOK(c)
    BY <1>1 DEF CertificateToCreateOK
  <2>2. Validation(c) = "pca" /\ Requested(c) = "pca"
    BY <1>1 DEF Validation, Requested
  <2> QED
    BY <1>1, <2>1, <2>2 DEF PrivateCertificateOK, CertificateResource
<1>2. CASE ~c.isPrivate
  <2>1. PublicCertificateOK(c)
    BY <1>2 DEF CertificateToCreateOK
  <2>2. CASE Truthy(c.hostedZoneId)
    <3>1. ~Truthy(c.validationType)
      BY <2>1, <2>2 DEF PublicCertificateOK
    <3>2. Validation(c) = "route53" /\ Requested(c) = "route53"
      BY <1>2, <2>2, <3>1 DEF Validation, Requested
    <3> QED
      BY <3>2 DEF CertificateResource
  <2>3. CASE ~Truthy(c.hostedZoneId)
    <3>1. c.validationType \in {"DNS", "EMAIL"}
      BY <2>1, <2>3 DEF PublicCertificateOK
    <3>2. Validation(c) = Requested(c) /\ Validation(c) # "pca"
      BY <1>2, <2>3, <3>1 DEF Validation, Requested
    <3> QED
      BY <3>2 DEF CertificateResource
  <2> QED
    BY <2>2, <2>3
<1> QED
  BY <1>1, <1>2

----------------------------------------------------------------------------
(***************************************************************************)
(* DeployInv, and through it CreatedAsRequested.                          *)
(***************************************************************************)
\* A function on 1 .. n is a sequence.
LEMMA FcnIsSeq ==
    ASSUME NEW X, NEW n \in Nat, NEW f \in [1 .. n -> X]
    PROVE  f \in Seq(X)
BY SeqDef

\* The configured certificates form a sequence of CertConfigs.
LEMMA ConfigCerts ==
    ASSUME NEW cfg \in Configs
    PROVE  cfg.certs \in Seq(CertConfigs)
<1>1. PICK n \in 0 .. MaxCerts : cfg.certs \in [1 .. n -> CertConfigs]
  BY DEF Configs
<1>2. n \in Nat
  BY StreamlineAssumption
<1> QED
  BY <1>1, <1>2, FcnIsSeq

\* The indexes of the certificates to create and of the existing ones.
NewIdx(certs) == {i \in 1 .. Len(certs) : ~Truthy(certs[i].existingCertificateArn)}
OldIdx(certs) == {i \in 1 .. Len(certs) : Truthy(certs[i].existingCertificateArn)}

\* What PickElems says of the two filters of createCertificateStack.
LEMMA FilterElems ==
    ASSUME NEW cfg \in Configs
    PROVE  /\ ToCreate(cfg.certs) \in Seq({cfg.certs[i] : i \in NewIdx(cfg.certs)})
           /\ Elems(ToCreate(cfg.certs)) = {cfg.certs[i] : i \in NewIdx(cfg.certs)}
           /\ Pick(cfg.certs, OldIdx(cfg.certs))
                 \in Seq({cfg.certs[i] : i \in OldIdx(cfg.certs)})
           /\ Elems(Pick(cfg.certs, OldIdx(cfg.certs)))
                 = {cfg.certs[i] : i \in OldIdx(cfg.certs)}
<1>1. cfg.certs \in Seq(CertConfigs)
  BY ConfigCerts
<1>2. /\ NewIdx(cfg.certs) \in SUBSET (1 .. Len(cfg.certs))
      /\ OldIdx(cfg.certs) \in SUBSET (1 .. Len(cfg.certs))
  BY DEF NewIdx, OldIdx
<1> QED
  BY <1>1, <1>2, PickElems DEF ToCreate, NewIdx, OldIdx

\* Existing(certs) is a sequence: concatenating nothing leaves it as it is.
LEMMA ExistingConcatEmpty ==
    ASSUME NEW cfg \in Configs
    PROVE  Existing(cfg.certs) \o << >> = Existing(cfg.certs)
<1> DEFINE e == Pick(cfg.certs, OldIdx(cfg.certs))
           x == Existing(cfg.certs)
<1>1. Len(e) \in Nat
  BY FilterElems
<1>2. x \in [1 .. Len(e) -> {x[i] : i \in 1 .. Len(e)}]
  BY DEF Existing, OldIdx
<1>3. x \in Seq({x[i] : i \in 1 .. Len(e)})
  BY <1>1, <1>2, FcnIsSeq
<1> QED
  BY <1>3, ConcatEmptySeq

LEMMA DeployInit == Init => DeployInv
BY DEF Init, DeployInv, Phases

\* Every step of deploy(), a stutter included, preserves DeployInv.
LEMMA DeployStep == DeployInv /\ [Next]_vars => DeployInv'
<1> SUFFICES ASSUME DeployInv, [Next]_vars PROVE DeployInv'
  OBVIOUS
<1> USE DEF DeployInv, Phases
<1>1. CASE ConstructApp
  BY <1>1 DEF ConstructApp
<1>2. CASE CreateCertificateStack
  <2> DEFINE certs == config.certs
             tc == ToCreate(certs)
  <2>1. CASE tc = << >>
    <3>1. NewEntries(certs, Made(tc)) = << >>
      BY <2>1 DEF NewEntries, Made
    <3>2. certificates' = Existing(certs) /\ phase' = "certified"
          /\ UNCHANGED <<config, certStack>>
      BY <1>2, <2>1 DEF CreateCertificateStack
    <3>3. Existing(certs) \o << >> = Existing(certs)
      BY ExistingConcatEmpty
    <3>4. certificates' = Existing(certs) \o NewEntries(certs, Made(tc))
      BY <3>1, <3>2, <3>3
    <3>5. phase = "constructed" /\ certStack = NoValue
      BY <1>2, <2>1 DEF CreateCertificateStack
    <3> QED
      BY <2>1, <3>2, <3>4, <3>5
  <2>2. CASE tc # << >> /\ ValidateCertificateStack(certs) /\ ConstructIdsOK(tc)
    BY <1>2, <2>2 DEF CreateCertificateStack
  <2>3. CASE tc # << >> /\ ~(ValidateCertificateStack(certs) /\ ConstructIdsOK(tc))
    BY <1>2, <2>3 DEF CreateCertificateStack
  <2> QED
    BY <2>1, <2>2, <2>3
<1>3. CASE CreateRoleStack
  BY <1>3 DEF CreateRoleStack
<1>4. CASE CreateInstanceStack
  BY <1>4 DEF CreateInstanceStack
<1>5. CASE AddDependency
  BY <1>5 DEF AddDependency
<1>6. CASE Finished \/ UNCHANGED vars
  BY <1>6 DEF Finished, vars
<1> QED
  BY <1>1, <1>2, <1>3, <1>4, <1>5, <1>6 DEF Next, Deploy

\* DeployInv holds in every state of deploy().
THEOREM DeployInvariant == Spec => []DeployInv
BY DeployInit, DeployStep, PTL DEF Spec

(***************************************************************************)
(* With `cdk deploy` (the validators run), every certificate the          *)
(* certificate stack declares is validated the way its configuration      *)
(* asked for, and a private one names its CA: the filter hands the        *)
(* constructor only certificates without an ARN, and for those the       *)
(* validator's rules rule out the e-mail fallback.                        *)
(***************************************************************************)
THEOREM CreatedAsRequestedTheorem ==
    ASSUME ~DestroySubcommand
    PROVE  Spec => []CreatedAsRequested
<1>1. DeployInv => CreatedAsRequested
  <2> SUFFICES ASSUME DeployInv, certStack # NoValue,
                      NEW k \in DOMAIN certStack.certs
               PROVE  /\ certStack.certs[k].validation
                            = Requested(ToCreate(config.certs)[k])
                      /\ certStack.certs[k].validation = "pca" =>
                            Truthy(certStack.certs[k].authority)
    BY DEF CreatedAsRequested
  <2> DEFINE certs == config.certs
             tc == ToCreate(certs)
  <2>1. config \in Configs /\ certStack.certs = Made(tc)
        /\ ValidateCertificateStack(certs)
    BY DEF DeployInv
  <2>2. k \in 1 .. Len(tc) /\ certStack.certs[k] = CertificateResource(tc[k])
    BY <2>1 DEF Made
  <2>3. tc[k] \in {certs[i] : i \in NewIdx(certs)}
    BY <2>1, <2>2, FilterElems, ElementOfSeq
  <2>4. PICK j \in NewIdx(certs) : tc[k] = certs[j]
    BY <2>3
  <2>5. CertificateToCreateOK(certs[j])
    BY <2>1, <2>4 DEF NewIdx, ValidateCertificateStack
  <2>6. certs[j].isPrivate \in BOOLEAN
    <3>1. certs[j] \in CertConfigs
      BY <2>1, <2>4, ConfigCerts, ElementOfSeq DEF NewIdx
    <3> QED
      BY <3>1, StreamlineAssumption DEF CertificateConfig
  <2> QED
    BY <2>2, <2>4, <2>5, <2>6, AdmittedCreatedAsRequested
<1> QED
  BY <1>1, DeployInvariant, PTL

----------------------------------------------------------------------------
(***************************************************************************)
(* The refinement of DeployAbstract.                                      *)
(***************************************************************************)
\* The ARN the app pushes for a configured certificate: its existing ARN,
\* or the ARN of the certificate created for its construct.
CfgArn(c) ==
    IF Truthy(c.existingCertificateArn) THEN c.existingCertificateArn
    ELSE CreatedArn(c.certificateName)

\* The entries of `certificates`, one per configured certificate.
CfgEntries(certs) == {Entry(CfgArn(certs[i]), certs[i]) : i \in 1 .. Len(certs)}

\* The existing certificates' entries: one for each configured
\* certificate with an ARN.
LEMMA ExistingElems ==
    ASSUME NEW cfg \in Configs
    PROVE  LET certs == cfg.certs
           IN  /\ Existing(certs) \in Seq(CfgEntries(certs))
               /\ Elems(Existing(certs))
                     = {Entry(CfgArn(certs[j]), certs[j]) : j \in OldIdx(certs)}
<1> DEFINE certs == cfg.certs
           e == Pick(certs, OldIdx(certs))
           X == Existing(certs)
<1>1. /\ e \in Seq({certs[j] : j \in OldIdx(certs)})
      /\ Elems(e) = {certs[j] : j \in OldIdx(certs)}
  BY FilterElems
<1>2. Len(e) \in Nat
  BY <1>1
<1>3. X = [i \in 1 .. Len(e) |-> Entry(e[i].existingCertificateArn, e[i])]
  BY DEF Existing, OldIdx
<1>4. ASSUME NEW i \in 1 .. Len(e)
      PROVE  \E j \in OldIdx(certs) : e[i] = certs[j] /\ X[i] = Entry(CfgArn(certs[j]), certs[j])
  <2>1. PICK j \in OldIdx(certs) : e[i] = certs[j]
    BY <1>1, ElementOfSeq
  <2>2. Truthy(certs[j].existingCertificateArn)
    BY DEF OldIdx
  <2> QED
    BY <1>3, <2>1, <2>2 DEF CfgArn
<1>5. X \in [1 .. Len(e) -> CfgEntries(certs)]
  BY <1>3, <1>4 DEF CfgEntries, OldIdx
<1>6. X \in Seq(CfgEntries(certs))
  BY <1>2, <1>5, FcnIsSeq
<1>7. Elems(X) \subseteq {Entry(CfgArn(certs[j]), certs[j]) : j \in OldIdx(certs)}
  BY <1>3, <1>4 DEF Elems
<1>8. ASSUME NEW j \in OldIdx(certs)
      PROVE  Entry(CfgArn(certs[j]), certs[j]) \in Elems(X)
  <2>1. PICK i \in 1 .. Len(e) : e[i] = certs[j]
    BY <1>1 DEF Elems
  <2>2. Truthy(certs[j].existingCertificateArn)
    BY DEF OldIdx
  <2> QED
    BY <1>3, <2>1, <2>2 DEF CfgArn, Elems
<1> QED
  BY <1>6, <1>7, <1>8

\* The created certificates' entries: one for each configured certificate
\* without an ARN, with the ARN of the certificate made for it.
LEMMA NewElems ==
    ASSUME NEW cfg \in Configs
    PROVE  LET certs == cfg.certs
               N == NewEntries(certs, Made(ToCreate(certs)))
           IN  /\ N \in Seq(CfgEntries(certs))
               /\ Elems(N) = {Entry(CfgArn(certs[j]), certs[j]) : j \in NewIdx(certs)}
<1> DEFINE certs == cfg.certs
           tc == ToCreate(certs)
           N == NewEntries(certs, Made(tc))
<1>1. /\ tc \in Seq({certs[j] : j \in NewIdx(certs)})
      /\ Elems(tc) = {certs[j] : j \in NewIdx(certs)}
  BY FilterElems
<1>2. Len(tc) \in Nat
  BY <1>1
<1>3. N = [k \in 1 .. Len(tc) |-> Entry(CreatedArn(tc[k].certificateName), tc[k])]
  BY <1>2 DEF NewEntries, Made, CertificateResource
<1>4. ASSUME NEW k \in 1 .. Len(tc)
      PROVE  \E j \in NewIdx(certs) : tc[k] = certs[j] /\ N[k] = Entry(CfgArn(certs[j]), certs[j])
  <2>1. PICK j \in NewIdx(certs) : tc[k] = certs[j]
    BY <1>1, ElementOfSeq
  <2>2. ~Truthy(certs[j].existingCertificateArn)
    BY DEF NewIdx
  <2> QED
    BY <1>3, <2>1, <2>2 DEF CfgArn
<1>5. N \in [1 .. Len(tc) -> CfgEntries(certs)]
  BY <1>3, <1>4 DEF CfgEntries, NewIdx
<1>6. N \in Seq(CfgEntries(certs))
  BY <1>2, <1>5, FcnIsSeq
<1>7. Elems(N) \subseteq {Entry(CfgArn(certs[j]), certs[j]) : j \in NewIdx(certs)}
  BY <1>3, <1>4 DEF Elems
<1>8. ASSUME NEW j \in NewIdx(certs)
      PROVE  Entry(CfgArn(certs[j]), certs[j]) \in Elems(N)
  <2>1. PICK k \in 1 .. Len(tc) : tc[k] = certs[j]
    BY <1>1 DEF Elems
  <2>2. ~Truthy(certs[j].existingCertificateArn)
    BY DEF NewIdx
  <2> QED
    BY <1>3, <2>1, <2>2 DEF CfgArn, Elems
<1> QED
  BY <1>6, <1>7, <1>8

(***************************************************************************)
(* The `certificates` array createCertificateStack leaves holds one entry *)
(* per configured certificate, with its existing ARN or the ARN made for  *)
(* it, and no other.                                                       *)
(***************************************************************************)
LEMMA CertificatesElems ==
    ASSUME NEW cfg \in Configs
    PROVE  LET certs == cfg.certs
               C == Existing(certs) \o NewEntries(certs, Made(ToCreate(certs)))
           IN  /\ C \in Seq(CfgEntries(certs))
               /\ Elems(C) = CfgEntries(certs)
<1> DEFINE certs == cfg.certs
           X == Existing(certs)
           N == NewEntries(certs, Made(ToCreate(certs)))
<1>1. X \in Seq(CfgEntries(certs)) /\ N \in Seq(CfgEntries(certs))
  BY ExistingElems, NewElems
<1>2. /\ X \o N \in Seq(CfgEntries(certs))
      /\ Len(X \o N) = Len(X) + Len(N)
      /\ \A i \in 1 .. Len(X) + Len(N) :
            (X \o N)[i] = IF i <= Len(X) THEN X[i] ELSE N[i - Len(X)]
  BY <1>1, ConcatProperties
<1>3. Elems(X \o N) = Elems(X) \cup Elems(N)
  <2>1. Len(X) \in Nat /\ Len(N) \in Nat
    BY <1>1
  <2> QED
    BY <1>2, <2>1 DEF Elems
<1>4. OldIdx(certs) \cup NewIdx(certs) = 1 .. Len(certs)
  BY DEF OldIdx, NewIdx
<1> QED
  BY <1>2, <1>3, <1>4, ExistingElems, NewElems DEF CfgEntries

\* The abstract specification extends the same validators: through the
\* instance they are the operators Streamline uses.
LEMMA AbsValidators ==
    ASSUME NEW x
    PROVE  /\ Abs!Truthy(x) = Truthy(x)
           /\ Abs!ValidateEnv(x) = ValidateEnv(x)
           /\ Abs!ValidateInstanceStack(x) = ValidateInstanceStack(x)
           /\ Abs!CertificateToCreateOK(x) = CertificateToCreateOK(x)
<1>1. Abs!Truthy(x) = Truthy(x)
  BY DEF Abs!Truthy, Truthy
<1>2. ASSUME NEW y PROVE Abs!PrivateCertificateOK(y) = PrivateCertificateOK(y)
  BY DEF Abs!PrivateCertificateOK, PrivateCertificateOK, Abs!Truthy, Truthy
<1>3. ASSUME NEW y PROVE Abs!PublicCertificateOK(y) = PublicCertificateOK(y)
  BY DEF Abs!PublicCertificateOK, PublicCertificateOK, Abs!Truthy, Truthy
<1>4. Abs!CertificateToCreateOK(x) = CertificateToCreateOK(x)
  BY <1>2, <1>3 DEF Abs!CertificateToCreateOK, CertificateToCreateOK, Abs!Truthy, Truthy
<1> QED
  BY <1>1, <1>4 DEF Abs!ValidateEnv, ValidateEnv, Abs!ValidateInstanceStack,
                    ValidateInstanceStack, Abs!Truthy, Truthy

\* CfgArn is the abstract specification's ArnOf.
LEMMA CfgArnIsArnOf == ASSUME NEW c PROVE CfgArn(c) = Abs!ArnOf(c)
BY AbsValidators DEF CfgArn, CreatedArn, Abs!ArnOf, Abs!IssuedArn

\* A sequence holding exactly the configured entries yields the configured
\* <<domain, ARN>> pairs and the configured ARNs.
LEMMA PairsOfEntries ==
    ASSUME NEW cfg \in Configs, NEW C \in Seq(CfgEntries(cfg.certs)),
           Elems(C) = CfgEntries(cfg.certs)
    PROVE  /\ {<<C[k].domainName, C[k].existingCertificateArn>> : k \in 1 .. Len(C)}
                 = Abs!ConfiguredPairs(cfg)
           /\ {C[k].existingCertificateArn : k \in 1 .. Len(C)} = Abs!ConfiguredArns(cfg)
<1> DEFINE certs == cfg.certs
<1>1. \A i \in 1 .. Len(certs) : CfgArn(certs[i]) = Abs!ArnOf(certs[i])
  BY CfgArnIsArnOf
<1>2. {<<C[k].domainName, C[k].existingCertificateArn>> : k \in 1 .. Len(C)}
        = {<<x.domainName, x.existingCertificateArn>> : x \in Elems(C)}
  BY DEF Elems
<1>3. {C[k].existingCertificateArn : k \in 1 .. Len(C)}
        = {x.existingCertificateArn : x \in Elems(C)}
  BY DEF Elems
<1>0. \A i \in 1 .. Len(certs) :
        /\ Entry(CfgArn(certs[i]), certs[i]).domainName = certs[i].domainName
        /\ Entry(CfgArn(certs[i]), certs[i]).existingCertificateArn = CfgArn(certs[i])
  BY DEF Entry
<1>4. {<<x.domainName, x.existingCertificateArn>> : x \in CfgEntries(certs)}
        = {<<certs[i].domainName, CfgArn(certs[i])>> : i \in 1 .. Len(certs)}
  <2> DEFINE L == {<<x.domainName, x.existingCertificateArn>> : x \in CfgEntries(certs)}
             R == {<<certs[i].domainName, CfgArn(certs[i])>> : i \in 1 .. Len(certs)}
  <2>1. ASSUME NEW x \in CfgEntries(certs)
        PROVE  <<x.domainName, x.existingCertificateArn>> \in R
    <3>1. PICK i \in 1 .. Len(certs) : x = Entry(CfgArn(certs[i]), certs[i])
      BY <2>1 DEF CfgEntries
    <3> QED
      BY <3>1, <1>0
  <2>2. ASSUME NEW i \in 1 .. Len(certs)
        PROVE  <<certs[i].domainName, CfgArn(certs[i])>> \in L
    <3>1. Entry(CfgArn(certs[i]), certs[i]) \in CfgEntries(certs)
      BY DEF CfgEntries
    <3> QED
      BY <3>1, <1>0
  <2>3. L \subseteq R
    BY <2>1
  <2>4. R \subseteq L
    BY <2>2
  <2> QED
    BY <2>3, <2>4
<1>5. {x.existingCertificateArn : x \in CfgEntries(certs)}
        = {CfgArn(certs[i]) : i \in 1 .. Len(certs)}
  <2>1. ASSUME NEW x \in CfgEntries(certs)
        PROVE  \E i \in 1 .. Len(certs) : x.existingCertificateArn = CfgArn(certs[i])
    <3>1. PICK i \in 1 .. Len(certs) : x = Entry(CfgArn(certs[i]), certs[i])
      BY <2>1 DEF CfgEntries
    <3> QED
      BY <3>1, <1>0
  <2>2. ASSUME NEW i \in 1 .. Len(certs)
        PROVE  \E x \in CfgEntries(certs) : CfgArn(certs[i]) = x.existingCertificateArn
    <3>1. Entry(CfgArn(certs[i]), certs[i]) \in CfgEntries(certs)
      BY DEF CfgEntries
    <3> QED
      BY <3>1, <1>0
  <2> QED
    BY <2>1, <2>2, Zenon
<1>6. {<<certs[i].domainName, CfgArn(certs[i])>> : i \in 1 .. Len(certs)}
        = Abs!ConfiguredPairs(cfg)
  BY <1>1 DEF Abs!ConfiguredPairs
<1>7. {CfgArn(certs[i]) : i \in 1 .. Len(certs)} = Abs!ConfiguredArns(cfg)
  BY <1>1 DEF Abs!ConfiguredArns
<1> QED
  BY <1>2, <1>3, <1>4, <1>5, <1>6, <1>7

\* With `certificates` built, the configuration is admissible once the
\* environment and the instance config have passed their validators.
LEMMA AdmissibleConfig ==
    ASSUME NEW cfg \in Configs, ValidateEnv(cfg.env), ValidateInstanceStack(cfg.instance),
           ToCreate(cfg.certs) # << >> => ValidateCertificateStack(cfg.certs)
    PROVE  Abs!Admissible(cfg)
<1> DEFINE certs == cfg.certs
<1>1. CASE ToCreate(certs) = << >>
  <2>0. Elems(ToCreate(certs)) = {}
    BY <1>1 DEF Elems
  <2>1. {certs[j] : j \in NewIdx(certs)} = {}
    BY <2>0, FilterElems
  <2>2. \A i \in 1 .. Len(certs) : Truthy(certs[i].existingCertificateArn)
    BY <2>1 DEF NewIdx
  <2> QED
    BY <2>2, AbsValidators DEF Abs!Admissible
<1>2. CASE ToCreate(certs) # << >>
  BY <1>2, AbsValidators DEF Abs!Admissible, ValidateCertificateStack
<1> QED
  BY <1>1, <1>2

\* The user data built over such a sequence serves the configured
\* <<domain, ARN>> pairs: stanza k is the domain, label k the ARN.
LEMMA ServedPairs ==
    ASSUME NEW cfg \in Configs, NEW ic, NEW C \in Seq(CfgEntries(cfg.certs)),
           Elems(C) = CfgEntries(cfg.certs)
    PROVE  LET u == UserData(ic, C)
           IN  {<<u.stanzas[k], u.labels[k]>> : k \in DOMAIN u.labels}
                 = Abs!ConfiguredPairs(cfg)
<1> DEFINE u == UserData(ic, C)
<1>1. /\ DOMAIN u.labels = 1 .. Len(C)
      /\ \A k \in 1 .. Len(C) : u.stanzas[k] = C[k].domainName
                                /\ u.labels[k] = C[k].existingCertificateArn
  BY DEF UserData
<1>2. {<<u.stanzas[k], u.labels[k]>> : k \in DOMAIN u.labels}
        = {<<C[k].domainName, C[k].existingCertificateArn>> : k \in 1 .. Len(C)}
  BY <1>1
<1> QED
  BY <1>2, PairsOfEntries

\* Every step of deploy() is a step of DeployAbstract or leaves its
\* variables unchanged: the throws map to Rejected, addDependency, which
\* ends synthesis, to Deployed, and every other call to a stutter.
LEMMA RefineStep ==
    /\ DeployInv /\ CoverInv /\ CoverInv'
    /\ [Next]_vars
    => [Abs!ANext]_Abs!avars
<1> SUFFICES ASSUME DeployInv, CoverInv, CoverInv', [Next]_vars
             PROVE  [Abs!ANext]_Abs!avars
  OBVIOUS
<1>0. phase \in Phases /\ config \in Configs
  BY DEF DeployInv
<1>1. CASE AddDependency
  <2>1. /\ phase = "instance" /\ phase' = "done"
        /\ config' = config /\ certificates' = certificates /\ roleStack' = roleStack
    BY <1>1 DEF AddDependency
  <2>2. /\ ValidateEnv(config.env) /\ ValidateInstanceStack(config.instance)
        /\ ToCreate(config.certs) # << >> => ValidateCertificateStack(config.certs)
        /\ certificates = Existing(config.certs)
                            \o NewEntries(config.certs, Made(ToCreate(config.certs)))
    BY <2>1 DEF DeployInv
  <2>3. Abs!Admissible(config)
    BY <1>0, <2>2, AdmissibleConfig
  <2>4. /\ certificates \in Seq(CfgEntries(config.certs))
        /\ Elems(certificates) = CfgEntries(config.certs)
    BY <1>0, <2>2, CertificatesElems
  <2>5. MappedServed' = Abs!ConfiguredPairs(config)
    <3>1. instanceStack'.userData = UserData(config.instance, certificates)
      BY <2>1 DEF CoverInv
    <3>2. MappedServed'
            = LET u == UserData(config.instance, certificates)
              IN  {<<u.stanzas[k], u.labels[k]>> : k \in DOMAIN u.labels}
      BY <2>1, <3>1 DEF MappedServed
    <3> QED
      BY <1>0, <2>4, <3>2, ServedPairs
  <2>6. MappedGranted' = Abs!ConfiguredArns(config)
    <3>1. roleStack = RoleStack(roleStack.id, RoleArns, config.env.region)
      BY <2>1 DEF CoverInv
    <3> DEFINE role == RoleStack(roleStack.id,
                              [i \in 1 .. Len(certificates) |->
                                  certificates[i].existingCertificateArn],
                              config.env.region)
               G == {role.associations[a] :
                       a \in {b \in DOMAIN role.associations :
                                /\ Statement("s3:GetObject", b, NoValue) \in role.statements
                                /\ Statement("kms:Decrypt", b, config.env.region)
                                     \in role.statements}}
    <3>2. MappedGranted' = G
      BY <2>1, <3>1 DEF MappedGranted, RoleArns
    <3>3. {b \in DOMAIN role.associations :
             /\ Statement("s3:GetObject", b, NoValue) \in role.statements
             /\ Statement("kms:Decrypt", b, config.env.region) \in role.statements}
            = 1 .. Len(certificates)
      BY DEF role, RoleStack
    <3>4. \A a \in 1 .. Len(certificates) :
             role.associations[a] = certificates[a].existingCertificateArn
      BY DEF role, RoleStack
    <3>5. G = {certificates[k].existingCertificateArn : k \in 1 .. Len(certificates)}
      BY <3>3, <3>4 DEF G
    <3>6. {certificates[k].existingCertificateArn : k \in 1 .. Len(certificates)}
            = Abs!ConfiguredArns(config)
      BY <1>0, <2>4, PairsOfEntries
    <3> QED
      BY <3>2, <3>5, <3>6
  <2>7. MappedOutcome = "pending" /\ MappedOutcome' = "deployed"
    BY <2>1 DEF MappedOutcome
  <2> QED
    BY <2>1, <2>3, <2>5, <2>6, <2>7 DEF Abs!ANext, Abs!Deployed
<1>2. CASE ConstructApp \/ CreateCertificateStack \/ CreateRoleStack \/ CreateInstanceStack
  <2>1. /\ phase \in {"new", "constructed", "certified", "role"}
        /\ phase' \in {"constructed", "certified", "role", "instance", "failed"}
        /\ config' = config
    BY <1>2 DEF ConstructApp, CreateCertificateStack, CreateRoleStack, CreateInstanceStack
  <2>2. MappedServed = {} /\ MappedServed' = {} /\ MappedGranted = {} /\ MappedGranted' = {}
    BY <2>1 DEF MappedServed, MappedGranted
  <2>3. MappedOutcome = "pending"
    BY <2>1 DEF MappedOutcome
  <2>4. CASE phase' = "failed"
    <3>1. MappedOutcome' = "rejected"
      BY <2>4 DEF MappedOutcome
    <3> QED
      BY <2>1, <2>2, <2>3, <3>1 DEF Abs!ANext, Abs!Rejected
  <2>5. CASE phase' # "failed"
    <3>1. MappedOutcome' = "pending"
      BY <2>1, <2>5 DEF MappedOutcome
    <3> QED
      BY <2>1, <2>2, <2>3, <3>1 DEF Abs!avars
  <2> QED
    BY <2>4, <2>5
<1>3. CASE Finished \/ UNCHANGED vars
  BY <1>3 DEF Finished, vars, Abs!avars, MappedOutcome, MappedServed, MappedGranted
<1> QED
  BY <1>1, <1>2, <1>3 DEF Next, Deploy

\* Streamline implements the safety part of DeployAbstract under the
\* refinement mapping: deploy() starts pending with nothing served or
\* granted, and each of its steps is a Deployed, a Rejected or a stutter
\* of the abstract deployment.
THEOREM Refinement == Spec => Abs!AInit /\ [][Abs!ANext]_Abs!avars
<1>1. Init => Abs!AInit
  BY DEF Init, Abs!AInit, MappedOutcome, MappedServed, MappedGranted
<1>2. Spec => [](DeployInv /\ CoverInv)
  BY DeployInvariant, CoverInvariant, PTL
<1>3. Spec => [][Next]_vars
  BY PTL DEF Spec
<1> QED
  BY <1>1, <1>2, <1>3, RefineStep, PTL DEF Spec

=============================================================================
