--------------------------- MODULE TesttoolProofs ---------------------------
(***************************************************************************)
(* Proofs about the `openssl` test set of Testtool, for every test matrix *)
(* and every bound: the loops of cmd_openssl keep the suite's variables   *)
(* in their types (SuiteInv), and a run against a conformant subject with *)
(* no external failure logs no FAILED case (HonestInv) whenever every     *)
(* case the skip rules let through is one the providers can do; and the  *)
(* summary counts every runnable case of the plan exactly once            *)
(* (CountInv).                                                             *)
(***************************************************************************)
EXTENDS Testtool, DiffTestProofs, SequenceTheorems, FiniteSetTheorems

\* The test cases of the key labelled lbl.
KeyCases(lbl) == {c \in TestCase : c.label = lbl}

\* A sub-suite whose cases are all of its key.
SuiteOK == {r \in [label : STRING, cases : Seq(TestCase)] :
               \A j \in 1 .. Len(r.cases) : r.cases[j].label = r.label}

\* The mixed-radix index of a flattened loop nest stays inside each list.
LEMMA MixedRadix ==
    ASSUME NEW L \in Nat, NEW D \in Nat, NEW S \in Nat, NEW i \in 1 .. L * D * S
    PROVE  /\ (i - 1) \div (D * S) + 1 \in 1 .. L
           /\ (((i - 1) \div S) % D) + 1 \in 1 .. D
           /\ ((i - 1) % S) + 1 \in 1 .. S
<1>1. D * S > 0 /\ L > 0
  OBVIOUS
<1> QED
  BY <1>1

LEMMA MixedRadix2 ==
    ASSUME NEW L \in Nat, NEW D \in Nat, NEW i \in 1 .. L * D
    PROVE  /\ (i - 1) \div D + 1 \in 1 .. L
           /\ ((i - 1) % D) + 1 \in 1 .. D
OBVIOUS

\* A function on 1 .. n whose values are in X is a sequence over X.
LEMMA FcnIsSeq ==
    ASSUME NEW X, NEW n \in Nat, NEW f \in [1 .. n -> X]
    PROVE  f \in Seq(X)
BY SeqDef

(***************************************************************************)
(* Each test function's loops produce test cases of the key it is given:  *)
(* the mixed-radix index of the PSS and PKCS loops stays inside the       *)
(* lists of sizes, digests and salts.                                     *)
(***************************************************************************)
LEMMA CasesOfKey ==
    ASSUME NEW k \in Key
    PROVE  /\ PssCases(k) \in Seq(KeyCases(k.label))
           /\ PkcsCases(k) \in Seq(KeyCases(k.label))
           /\ EcdsaCases(k) \in Seq(KeyCases(k.label))
           /\ EncCases(k) \in Seq(KeyCases(k.label))
           /\ \A f \in Families : RawCases(f, k) \in Seq(KeyCases(k.label))
<1> USE MatrixAssumption DEF KeyCases, TestCase, MkCase, Key
<1>0. /\ Len(LargeFileSizes) \in Nat /\ Len(Digests) \in Nat
      /\ Len(RsaPssSaltSizes) \in Nat /\ Len(EcdsaFileSizes) \in Nat
      /\ Len(SmallFileSizes) \in Nat
  OBVIOUS
<1>1. PssCases(k) \in Seq(KeyCases(k.label))
  <2> DEFINE L == Len(LargeFileSizes)  D == Len(Digests)  S == Len(RsaPssSaltSizes)
             C(i) == MkCase("rsapss", k,
                       LargeFileSizes[(i - 1) \div (D * S) + 1],
                       Digests[(((i - 1) \div S) % D) + 1].len,
                       RsaPssSaltSizes[((i - 1) % S) + 1])
  <2>1. ASSUME NEW i \in 1 .. L * D * S PROVE C(i) \in KeyCases(k.label)
    <3>1. /\ (i - 1) \div (D * S) + 1 \in 1 .. L
          /\ (((i - 1) \div S) % D) + 1 \in 1 .. D
          /\ ((i - 1) % S) + 1 \in 1 .. S
      BY <1>0, MixedRadix
    <3>2. LargeFileSizes[(i - 1) \div (D * S) + 1] \in Nat
      BY <3>1, ElementOfSeq, Zenon
    <3>3. Digests[(((i - 1) \div S) % D) + 1] \in [name : STRING, len : Nat]
      BY <3>1, ElementOfSeq, Zenon
    <3>4. RsaPssSaltSizes[((i - 1) % S) + 1] \in Nat
      BY <3>1, ElementOfSeq, Zenon
    <3> QED
      BY <3>2, <3>3, <3>4 DEF Families
  <2>2. L * D * S \in Nat
    BY <1>0
  <2> HIDE DEF C, L, D, S
  <2>3. [i \in 1 .. L * D * S |-> C(i)] \in Seq(KeyCases(k.label))
    BY <2>1, <2>2, FcnIsSeq
  <2> QED
    BY <2>3 DEF PssCases, C, L, D, S
<1>2. PkcsCases(k) \in Seq(KeyCases(k.label))
  <2> DEFINE L == Len(LargeFileSizes)  D == Len(Digests)
             C(i) == MkCase("rsa_pkcs", k, LargeFileSizes[(i - 1) \div D + 1],
                            Digests[((i - 1) % D) + 1].len, 0)
  <2>1. ASSUME NEW i \in 1 .. L * D PROVE C(i) \in KeyCases(k.label)
    <3>1. (i - 1) \div D + 1 \in 1 .. L /\ ((i - 1) % D) + 1 \in 1 .. D
      BY <1>0, MixedRadix2
    <3>2. LargeFileSizes[(i - 1) \div D + 1] \in Nat
      BY <3>1, ElementOfSeq, Zenon
    <3>3. Digests[((i - 1) % D) + 1] \in [name : STRING, len : Nat]
      BY <3>1, ElementOfSeq, Zenon
    <3> QED
      BY <3>2, <3>3 DEF Families
  <2>2. L * D \in Nat
    BY <1>0
  <2> HIDE DEF C, L, D
  <2>3. [i \in 1 .. L * D |-> C(i)] \in Seq(KeyCases(k.label))
    BY <2>1, <2>2, FcnIsSeq
  <2> QED
    BY <2>3 DEF PkcsCases, C, L, D
<1>3. EcdsaCases(k) \in Seq(KeyCases(k.label))
  BY <1>0 DEF EcdsaCases, Families
<1>4. EncCases(k) \in Seq(KeyCases(k.label))
  BY <1>0 DEF EncCases, Families
<1>5. ASSUME NEW f \in Families PROVE RawCases(f, k) \in Seq(KeyCases(k.label))
  <2>1. CASE k.label \in RawLabels
    <3>1. RawSize(k.label) \in Nat
      BY <2>1 DEF RawSize, RawLabels
    <3>2. MkCase(f, k, RawSize(k.label), 0, 0) \in KeyCases(k.label)
      BY <3>1
    <3> QED
      BY <2>1, <3>2 DEF RawCases
  <2>2. CASE k.label \notin RawLabels
    BY <2>2, EmptySeq DEF RawCases
  <2> QED
    BY <2>1, <2>2
<1> QED
  BY <1>1, <1>2, <1>3, <1>4, <1>5
\* A sequence of one key's cases makes a sub-suite of that key.
LEMMA SuiteOfKey ==
    ASSUME NEW k \in Key, NEW cs \in Seq(KeyCases(k.label))
    PROVE  Suite(k, cs) \in SuiteOK
<1>1. cs \in Seq(TestCase)
  BY SeqMonotonic DEF KeyCases
<1>2. \A j \in 1 .. Len(cs) : cs[j].label = k.label
  BY ElementOfSeq DEF KeyCases
<1> QED
  BY <1>1, <1>2 DEF Suite, SuiteOK, Key

(***************************************************************************)
(* The sub-suites of cmd_openssl, in order, each run its key's cases:     *)
(* the token provisioned with a sub-suite's key is the one its cases      *)
(* name.                                                                  *)
(***************************************************************************)
LEMMA SuitesOK == Suites \in Seq(SuiteOK)
<1> USE MatrixAssumption
<1>1. ASSUME NEW k \in Key
      PROVE  /\ Suite(k, PssCases(k) \o PkcsCases(k) \o RawCases("rsa_x509", k)) \in SuiteOK
             /\ Suite(k, EcdsaCases(k)) \in SuiteOK
             /\ Suite(k, EncCases(k) \o RawCases("enc_x509", k)) \in SuiteOK
  <2> DEFINE KC == KeyCases(k.label)
  <2>1. /\ PssCases(k) \in Seq(KC) /\ PkcsCases(k) \in Seq(KC)
        /\ EcdsaCases(k) \in Seq(KC) /\ EncCases(k) \in Seq(KC)
        /\ RawCases("rsa_x509", k) \in Seq(KC) /\ RawCases("enc_x509", k) \in Seq(KC)
    BY CasesOfKey DEF Families
  <2>2. PssCases(k) \o PkcsCases(k) \o RawCases("rsa_x509", k) \in Seq(KC)
    BY <2>1, ConcatProperties
  <2>3. EncCases(k) \o RawCases("enc_x509", k) \in Seq(KC)
    BY <2>1, ConcatProperties
  <2> QED
    BY <2>1, <2>2, <2>3, SuiteOfKey
<1>2. /\ \A i \in 1 .. Len(RsaKeys) : RsaKeys[i] \in Key
      /\ \A i \in 1 .. Len(EcKeys) : EcKeys[i] \in Key
  BY ElementOfSeq
<1>3. [i \in 1 .. Len(RsaKeys) |->
          Suite(RsaKeys[i], PssCases(RsaKeys[i]) \o PkcsCases(RsaKeys[i])
                               \o RawCases("rsa_x509", RsaKeys[i]))] \in Seq(SuiteOK)
  BY <1>1, <1>2, FcnIsSeq
<1>4. [i \in 1 .. Len(EcKeys) |-> Suite(EcKeys[i], EcdsaCases(EcKeys[i]))] \in Seq(SuiteOK)
  BY <1>1, <1>2, FcnIsSeq
<1>5. [i \in 1 .. Len(RsaKeys) |->
          Suite(RsaKeys[i], EncCases(RsaKeys[i]) \o RawCases("enc_x509", RsaKeys[i]))]
        \in Seq(SuiteOK)
  BY <1>1, <1>2, FcnIsSeq
<1> QED
  BY <1>3, <1>4, <1>5, ConcatProperties DEF Suites
\* What SuitesOK gives the loops: a number of sub-suites, each a SuiteOK.
LEMMA SuiteFacts ==
    /\ Len(Suites) \in Nat
    /\ \A s \in 1 .. Len(Suites) : Suites[s] \in SuiteOK
BY SuitesOK, ElementOfSeq, LenProperties

----------------------------------------------------------------------------
(***************************************************************************)
(* Type correctness of the suite: every step of cmd_openssl, of the       *)
(* template it runs, a crash and a new invocation keep SuiteInv.          *)
(***************************************************************************)
LEMMA SuiteInvInit == SuiteInit => SuiteInv
BY SuiteFacts, TesttoolAssumption, DiffTestAssumption
DEF SuiteInit, SuiteInv, SuiteTypeOK, NoCaseRunning, NoArt, NoCase, Steps, Ended

\* A step of the running case's template keeps SuiteInv.
LEMMA SuiteInvTemplate == SuiteInv /\ RunTemplate => SuiteInv'
<1> SUFFICES ASSUME SuiteInv, RunTemplate PROVE SuiteInv'
  OBVIOUS
<1> USE DiffTestAssumption
    DEF SuiteInv, SuiteTypeOK, NoCaseRunning, RunTemplate, Steps, Ended,
        Pass, Fail, OpError, NoError, svars, tvars, ledger, env
<1>1. CASE GenInput
  BY <1>1 DEF GenInput
<1>2. CASE Corrupt
  BY <1>2 DEF Corrupt
<1>3. CASE SubjectGenerate
  BY <1>3, NoncesRange, SubjectOutputsType DEF SubjectGenerate
<1>4. CASE ReferenceGenerate
  BY <1>4, ReferenceOutputsType DEF ReferenceGenerate
<1>5. CASE CompareOutputs
  BY <1>5 DEF CompareOutputs
<1>6. CASE ReferenceCheck
  BY <1>6 DEF ReferenceCheck
<1>7. CASE SubjectCheck
  BY <1>7 DEF SubjectCheck
<1>8. CASE NegativeReferenceCheck
  BY <1>8 DEF NegativeReferenceCheck
<1>9. CASE NegativeSubjectCheck
  BY <1>9 DEF NegativeSubjectCheck
<1>10. CASE LogTestResult
  BY <1>10 DEF LogTestResult
<1> QED
  BY <1>1, <1>2, <1>3, <1>4, <1>5, <1>6, <1>7, <1>8, <1>9, <1>10 DEF TemplateStep

\* Every step of the suite, a stutter included, keeps SuiteInv.
LEMMA SuiteInvStep == SuiteInv /\ [SuiteNext]_allvars => SuiteInv'
<1> SUFFICES ASSUME SuiteInv, [SuiteNext]_allvars PROVE SuiteInv'
  OBVIOUS
<1>0. SuiteFacts
  BY SuiteFacts
<1> USE TesttoolAssumption, DiffTestAssumption
    DEF SuiteInv, SuiteTypeOK, NoCaseRunning, Steps, Ended,
        Pass, Fail, OpError, NoError, Die, PipelineStatus, TeeStatus,
        allvars, vars, svars, tvars, ledger, env
<1>1. CASE PrepareTestEnv
  BY <1>0, <1>1 DEF PrepareTestEnv
<1>2. CASE ProvisionKey
  BY <1>0, <1>2 DEF ProvisionKey, Labels
<1>3. CASE StartCase
  <2> DEFINE c == CurrentCases[ci]
  <2>1. si \in 1 .. Len(Suites) /\ ci \in 1 .. Len(CurrentCases)
    BY <1>0, <1>3 DEF StartCase
  <2>2. ~Skipped(c) => c \in Runnable
    BY <2>1 DEF Runnable, PlanCases, CurrentCases
  <2> QED
    BY <1>3, <2>2 DEF StartCase
<1>4. CASE RunTemplate
  BY <1>4, SuiteInvTemplate
<1>5. CASE CleanupKey
  BY <1>0, <1>5 DEF CleanupKey
<1>6. CASE CleanupTestEnv
  BY <1>6 DEF CleanupTestEnv
<1>7. CASE Summary
  BY <1>7 DEF Summary, EXIT_CODE_FAILED_TESTS
<1>8. CASE Crash
  BY <1>8 DEF Crash
<1>9. CASE Restart
  BY <1>0, <1>9 DEF Restart, NoArt, NoCase
<1>10. CASE Terminated \/ UNCHANGED allvars
  BY <1>10 DEF Terminated
<1> QED
  BY <1>1, <1>2, <1>3, <1>4, <1>5, <1>6, <1>7, <1>8, <1>9, <1>10
  DEF SuiteNext, ScriptStep

\* SuiteInv holds in every state of every sequence of invocations.
THEOREM SuiteInvariant == SuiteSpec => []SuiteInv
BY SuiteInvInit, SuiteInvStep, PTL DEF SuiteSpec

(***************************************************************************)
(* Type correctness of cmd_openssl, for every test matrix: the loop       *)
(* indexes stay in the sub-suites, a template runs only runnable cases of *)
(* the plan, the token holds a key of the plan or none, and the ledger    *)
(* and the exit status keep their shapes, across crashes and reruns.      *)
(***************************************************************************)
THEOREM SuiteTypeCorrect == SuiteSpec => []SuiteTypeOK
BY SuiteInvariant, PTL DEF SuiteInv
----------------------------------------------------------------------------
(***************************************************************************)
(* Honest runs.  A step of the template inside the size loop, in a run    *)
(* that stays honest, keeps HonestFacts: the subject is ready (the        *)
(* enclave runs and the token holds the sub-suite's key, which is the     *)
(* case's), the case is feasible, so every check of the && chain passes.  *)
(***************************************************************************)
LEMMA HonestTemplate ==
    ASSUME PlanFeasible, SuiteInv, HonestRun => HonestFacts, RunTemplate,
           HonestRun'
    PROVE  HonestFacts'
<1> USE DEF HonestRun, HonestFacts, RunTemplate, SubjectOutputs, SubjectReady, Steps,
            Pass, Fail, OpError, NoError, svars, tvars, ledger, env
<1>0. /\ HonestRun /\ UNCHANGED opErrors
      /\ SubjectReady /\ ~Infeasible(tcase)
  <2>1. opErrors \in Nat /\ tpc \in Steps /\ tcase \in Runnable
    BY DiffTestAssumption DEF SuiteInv, SuiteTypeOK, TemplateStep, GenInput,
       Corrupt, SubjectGenerate, ReferenceGenerate, CompareOutputs,
       ReferenceCheck, SubjectCheck, NegativeReferenceCheck,
       NegativeSubjectCheck, LogTestResult, Steps
  <2>2. HonestRun /\ UNCHANGED opErrors
    BY <2>1 DEF TemplateStep, GenInput,
       Corrupt, SubjectGenerate, ReferenceGenerate, CompareOutputs,
       ReferenceCheck, SubjectCheck, NegativeReferenceCheck,
       NegativeSubjectCheck, LogTestResult
  <2> QED
    BY <2>1, <2>2 DEF PlanFeasible
<1>1. CASE GenInput
  BY <1>0, <1>1 DEF GenInput
<1>2. CASE Corrupt
  BY <1>0, <1>2 DEF Corrupt
<1>3. CASE SubjectGenerate
  BY <1>0, <1>3 DEF SubjectGenerate
<1>4. CASE ReferenceGenerate
  BY <1>0, <1>4 DEF ReferenceGenerate
<1>5. CASE CompareOutputs
  <2>1. CustomCheck(tcase, artA, artB)
    BY <1>0, <1>5, ConformantOutputs, ComparatorAcceptsConformant DEF CompareOutputs
  <2> QED
    BY <1>0, <1>5, <2>1 DEF CompareOutputs
<1>6. CASE ReferenceCheck
  BY <1>0, <1>6 DEF ReferenceCheck, Accepts
<1>7. CASE SubjectCheck
  BY <1>0, <1>7 DEF SubjectCheck, Accepts, ReferenceOutputs
<1>8. CASE NegativeReferenceCheck
  BY <1>0, <1>8 DEF NegativeReferenceCheck, Accepts
<1>9. CASE NegativeSubjectCheck
  BY <1>0, <1>9 DEF NegativeSubjectCheck, Accepts
<1>10. CASE LogTestResult
  BY <1>0, <1>10 DEF LogTestResult
<1> QED
  BY <1>1, <1>2, <1>3, <1>4, <1>5, <1>6, <1>7, <1>8, <1>9, <1>10 DEF TemplateStep
LEMMA HonestInit == SuiteInit => HonestInv
BY SuiteInvInit DEF SuiteInit, HonestInv, HonestRun, HonestFacts, Steps

\* Every step of the suite, a stutter included, keeps HonestInv when the
\* plan is feasible.
LEMMA HonestStep ==
    ASSUME PlanFeasible
    PROVE  HonestInv /\ [SuiteNext]_allvars => HonestInv'
<1> SUFFICES ASSUME HonestInv, [SuiteNext]_allvars PROVE HonestInv'
  OBVIOUS
<1>0. SuiteInv'
  BY SuiteInvStep DEF HonestInv
<1> SUFFICES ASSUME HonestRun' PROVE HonestFacts'
  BY <1>0 DEF HonestInv
<1>f. SuiteFacts
  BY SuiteFacts
<1> USE DiffTestAssumption
    DEF HonestInv, HonestRun, HonestFacts, SuiteInv, SuiteTypeOK, NoCaseRunning,
        SubjectOutputs, Steps, Ended, Pass, Fail, OpError, NoError, Die,
        allvars, vars, svars, tvars, ledger, env
<1>1. CASE PrepareTestEnv
  BY <1>1 DEF PrepareTestEnv
<1>2. CASE ProvisionKey
  BY <1>2 DEF ProvisionKey
<1>3. CASE StartCase
  <2> DEFINE c == CurrentCases[ci]
  <2>1. si \in 1 .. Len(Suites) /\ ci \in 1 .. Len(CurrentCases)
    BY <1>f, <1>3 DEF StartCase
  <2>2. c.label = Suites[si].label
    BY <1>f, <2>1 DEF SuiteOK, CurrentCases
  <2> QED
    BY <1>3, <2>2 DEF StartCase
<1>4. CASE RunTemplate
  BY <1>4, HonestTemplate
<1>5. CASE CleanupKey
  BY <1>5 DEF CleanupKey
<1>6. CASE CleanupTestEnv
  BY <1>6 DEF CleanupTestEnv
<1>7. CASE Summary
  BY <1>7 DEF Summary
<1>8. CASE Crash
  BY <1>8 DEF Crash
<1>9. CASE Restart
  BY <1>9 DEF Restart
<1>10. CASE Terminated \/ UNCHANGED allvars
  BY <1>10 DEF Terminated
<1> QED
  BY <1>1, <1>2, <1>3, <1>4, <1>5, <1>6, <1>7, <1>8, <1>9, <1>10
  DEF SuiteNext, ScriptStep

(***************************************************************************)
(* An honest run passes, for every test matrix whose skip rules leave no  *)
(* case the providers cannot do: against a conformant subject, an         *)
(* invocation of cmd_openssl with no external failure logs no FAILED      *)
(* case, whatever an interrupted invocation left in the enclave and the   *)
(* token, and whatever nonces the randomised schemes draw.  The order of  *)
(* prepare_test_env, provision_key and cleanup_key gives each sub-suite   *)
(* a token holding its key, and the comparators fit their schemes.        *)
(***************************************************************************)
(***************************************************************************)
(* For a plan whose skip rules leave no infeasible case, an honest run    *)
(* keeps the facts HonestInv lists across crashes and restarts: nothing   *)
(* failed, the token free after prepare_test_env and holding the          *)
(* sub-suite's key in its cases, and the running case's artifacts         *)
(* conformant.                                                            *)
(***************************************************************************)
THEOREM HonestInvariant ==
    ASSUME PlanFeasible
    PROVE  SuiteSpec => []HonestInv
BY HonestInit, HonestStep, PTL DEF SuiteSpec

THEOREM HonestRunsPass ==
    ASSUME PlanFeasible
    PROVE  SuiteSpec => []HonestRunAllPass
<1>1. HonestInv => HonestRunAllPass
  BY DEF HonestInv, HonestRun, HonestFacts, HonestRunAllPass
<1> QED
  BY <1>1, HonestInvariant, PTL


----------------------------------------------------------------------------
(***************************************************************************)
(* The summary's counts.  CountInv relates the ledger to the runnable     *)
(* entries the loops have passed; a step of the size loop adds one entry  *)
(* to Visited exactly when it starts a template, and log_test_result      *)
(* moves that case from Running into the ledger.                          *)
(***************************************************************************)
\* A step of the running case's template either stays inside the && chain
\* with the ledger unchanged, or logs the verdict and counts one case.
LEMMA TemplateCounts ==
    ASSUME SuiteInv, RunTemplate
    PROVE  /\ UNCHANGED svars
           /\ \/ tpc \in Steps /\ tpc' \in Steps /\ UNCHANGED ledger
              \/ /\ tpc = "log" /\ tpc' = "done"
                 /\ num_tests_passed' + num_tests_failed'
                      = num_tests_passed + num_tests_failed + 1
<1>1. UNCHANGED svars
  BY DEF RunTemplate
<1>2. CASE LogTestResult
  <2>1. num_tests_passed \in Nat /\ num_tests_failed \in Nat
    BY DEF SuiteInv, SuiteTypeOK
  <2> QED
    BY <1>1, <1>2, <2>1 DEF LogTestResult
<1>3. CASE TemplateStep /\ ~LogTestResult
  BY <1>1, <1>3 DEF TemplateStep, GenInput, Corrupt, SubjectGenerate, ReferenceGenerate,
                    CompareOutputs, ReferenceCheck, SubjectCheck, NegativeReferenceCheck,
                    NegativeSubjectCheck, Steps, Pass, Fail, ledger
<1> QED
  BY <1>2, <1>3 DEF RunTemplate

\* Positions of the plan are pairs of a sub-suite and a case index in it.
LEMMA EntryRange ==
    ASSUME NEW e \in RunnableEntries
    PROVE  /\ e = <<e[1], e[2]>>
           /\ e[1] \in 1 .. Len(Suites)
           /\ e[2] \in 1 .. Len(Suites[e[1]].cases)
BY DEF RunnableEntries, PlanEntries

LEMMA CountInit == SuiteInit => CountInv
BY SuiteInvInit DEF SuiteInit, CountInv

\* Every step of the suite, a stutter included, keeps CountInv.
LEMMA CountStep == CountInv /\ [SuiteNext]_allvars => CountInv'
<1> SUFFICES ASSUME CountInv, [SuiteNext]_allvars PROVE CountInv'
  OBVIOUS
<1>0. /\ SuiteInv /\ SuiteInv' /\ SuiteFacts
      /\ num_tests_passed \in Nat /\ num_tests_failed \in Nat
  BY SuiteInvStep, SuiteFacts DEF CountInv, SuiteInv, SuiteTypeOK
<1> DEFINE count == num_tests_passed + num_tests_failed
<1>1. CASE PrepareTestEnv
  <2>1. CASE pc' = "provision"
    <3>1. pc = "main" /\ si' = 1 /\ UNCHANGED <<ledger, tpc>>
      BY <1>1, <2>1 DEF PrepareTestEnv, Die, ledger, tvars, CountInv
    <3>2. Running' = 0
      BY <1>0, <3>1 DEF SuiteInv, NoCaseRunning, Running, Steps
    <3>3. Visited' = {}
      BY <3>1, <2>1, EntryRange DEF Visited
    <3>4. count = 0
      BY <3>1 DEF CountInv, count
    <3> QED
      BY <2>1, <3>1, <3>2, <3>3, <3>4, <1>0, FS_EmptySet DEF CountInv, ledger, count
  <2>2. CASE pc' # "provision"
    BY <1>1, <2>2, <1>0 DEF PrepareTestEnv, Die, CountInv
  <2> QED
    BY <2>1, <2>2
<1>2. CASE ProvisionKey
  <2>1. CASE pc' = "case"
    <3>1. /\ pc = "provision" /\ ci' = 1 /\ si \in 1 .. Len(Suites)
          /\ UNCHANGED <<si, tpc, ledger>>
      BY <1>0, <1>2, <2>1 DEF ProvisionKey, Die, ledger, tvars, SuiteInv, SuiteTypeOK
    <3>2. Visited' = Visited
      BY <3>1, <2>1, EntryRange DEF Visited
    <3>3. Running' = Running
      BY <3>1 DEF Running
    <3>4. ci' \in 1 .. Len(CurrentCases') + 1
      BY <3>1, <1>0 DEF CurrentCases, SuiteFacts, SuiteOK
    <3> QED
      BY <2>1, <3>1, <3>2, <3>3, <3>4, <1>0 DEF CountInv, ledger
  <2>2. CASE pc' # "case"
    BY <1>2, <2>2, <1>0 DEF ProvisionKey, Die, CountInv
  <2> QED
    BY <2>1, <2>2
<1>3. CASE StartCase
  <2> DEFINE c == CurrentCases[ci]
  <2>1. /\ pc = "case" /\ pc' = "case" /\ ci' = ci + 1 /\ UNCHANGED <<si, ledger>>
        /\ si \in 1 .. Len(Suites) /\ ci \in 1 .. Len(CurrentCases)
        /\ tpc \in {"idle", "done"}
    BY <1>0, <1>3 DEF StartCase, ledger, SuiteInv, SuiteTypeOK, NoCaseRunning
  <2>2. ci' \in 1 .. Len(CurrentCases') + 1
    BY <2>1, <1>0 DEF CurrentCases
  <2>3. Running = 0
    BY <2>1 DEF Running, Steps
  <2>4. IsFiniteSet(Visited) /\ count = Cardinality(Visited)
    <3>1. IsFiniteSet(Visited) /\ count + Running = Cardinality(Visited)
      BY <2>1 DEF CountInv, count
    <3> QED
      BY <3>1, <2>3, <1>0 DEF count
  <2>5. CASE Skipped(c)
    <3>1. UNCHANGED tpc
      BY <1>3, <2>5 DEF StartCase, tvars
    <3>2. <<si, ci>> \notin RunnableEntries
      BY <2>5 DEF RunnableEntries, CurrentCases
    <3>3. Visited' = Visited
      BY <2>1, <3>2, EntryRange DEF Visited
    <3> QED
      BY <2>1, <2>2, <2>3, <2>4, <3>1, <3>3, <1>0 DEF CountInv, Running, count, ledger
  <2>6. CASE ~Skipped(c)
    <3>1. tpc' = "gen"
      BY <1>3, <2>6 DEF StartCase
    <3>2. <<si, ci>> \in RunnableEntries
      BY <2>1, <2>6 DEF RunnableEntries, PlanEntries, CurrentCases
    <3>3. <<si, ci>> \notin Visited
      BY <2>1 DEF Visited
    <3>4. Visited' = Visited \cup {<<si, ci>>}
      BY <2>1, <3>2, EntryRange DEF Visited
    <3>5. IsFiniteSet(Visited') /\ Cardinality(Visited') = Cardinality(Visited) + 1
      BY <2>4, <3>3, <3>4, FS_AddElement
    <3>6. Running' = 1
      BY <3>1 DEF Running, Steps
    <3> QED
      BY <2>1, <2>2, <2>3, <2>4, <3>5, <3>6, <1>0 DEF CountInv, ledger, count
  <2> QED
    BY <2>5, <2>6
<1>4. CASE RunTemplate
  <2>1. UNCHANGED svars /\ pc = "case"
    BY <1>4, <1>0, TemplateCounts DEF RunTemplate
  <2>2. Visited' = Visited /\ CurrentCases' = CurrentCases
    BY <2>1 DEF Visited, svars, CurrentCases
  <2>3. IsFiniteSet(Visited) /\ count + Running = Cardinality(Visited)
    BY <2>1 DEF CountInv, count
  <2>4. CASE tpc \in Steps /\ tpc' \in Steps /\ UNCHANGED ledger
    BY <2>1, <2>2, <2>3, <2>4, <1>0 DEF CountInv, Running, ledger, svars, count
  <2>5. CASE /\ tpc = "log" /\ tpc' = "done"
             /\ num_tests_passed' + num_tests_failed' = count + 1
    BY <2>1, <2>2, <2>3, <2>5, <1>0 DEF CountInv, Running, Steps, svars, count
  <2> QED
    BY <1>4, <1>0, <2>4, <2>5, TemplateCounts
<1>5. CASE CleanupKey
  <2>1. /\ pc = "case" /\ pc' = "provision" /\ si' = si + 1
        /\ UNCHANGED <<ci, tpc, ledger>>
        /\ ci = Len(CurrentCases) + 1
    BY <1>0, <1>5 DEF CleanupKey, tvars, ledger, CountInv
  <2>2. si \in 1 .. Len(Suites)
    BY <2>1, <1>0 DEF SuiteInv, SuiteTypeOK
  <2>3. Visited' = Visited
    BY <2>1, <2>2, EntryRange DEF Visited, CurrentCases
  <2> QED
    BY <2>1, <2>3, <1>0 DEF CountInv, Running, ledger
<1>6. CASE CleanupTestEnv
  <2>1. /\ pc = "provision" /\ pc' = "summary" /\ si > Len(Suites)
        /\ UNCHANGED <<si, ci, tpc, ledger>>
    BY <1>6 DEF CleanupTestEnv, tvars, ledger
  <2>2. si = Len(Suites) + 1
    BY <2>1, <1>0 DEF SuiteInv, SuiteTypeOK
  <2>3. Visited' = Visited
    BY <2>1 DEF Visited
  <2> QED
    BY <2>1, <2>2, <2>3, <1>0 DEF CountInv, Running, ledger
<1>7. CASE Summary \/ Crash
  BY <1>7, <1>0 DEF Summary, Crash, CountInv
<1>8. CASE Restart
  BY <1>8, <1>0 DEF Restart, CountInv
<1>9. CASE Terminated \/ UNCHANGED allvars
  <2>1. UNCHANGED <<pc, si, ci, tpc, ledger>>
    BY <1>9 DEF Terminated, allvars, vars, svars, tvars, ledger
  <2>2. Visited' = Visited /\ Running' = Running /\ CurrentCases' = CurrentCases
    BY <2>1 DEF Visited, Running, CurrentCases
  <2> QED
    BY <2>1, <2>2, <1>0 DEF CountInv, ledger
<1> QED
  BY <1>1, <1>2, <1>3, <1>4, <1>5, <1>6, <1>7, <1>8, <1>9 DEF SuiteNext, ScriptStep

\* CountInv holds in every state of every sequence of invocations.
THEOREM CountInvariant == SuiteSpec => []CountInv
BY CountInit, CountStep, PTL DEF SuiteSpec

(***************************************************************************)
(* For every test matrix: an invocation that reaches test_results_summary *)
(* has counted, as passed or failed, each runnable case of the plan       *)
(* exactly once, across init-token failures, external errors inside the   *)
(* && chain, skipped combinations and interrupted earlier invocations.    *)
(***************************************************************************)
THEOREM SummaryCounts == SuiteSpec => []SummaryCountsPlan
<1>1. CountInv => SummaryCountsPlan
  <2> SUFFICES ASSUME CountInv, pc = "summary"
               PROVE  num_tests_passed + num_tests_failed = Cardinality(RunnableEntries)
    BY DEF SummaryCountsPlan
  <2>1. si = Len(Suites) + 1 /\ Running = 0
    BY DEF CountInv, SuiteInv, NoCaseRunning, Running, Steps
  <2>2. Visited = RunnableEntries
    BY <2>1, EntryRange DEF Visited
  <2>3. num_tests_passed \in Nat /\ num_tests_failed \in Nat
    BY DEF CountInv, SuiteInv, SuiteTypeOK
  <2> QED
    BY <2>1, <2>2, <2>3 DEF CountInv
<1> QED
  BY <1>1, CountInvariant, PTL

=============================================================================
