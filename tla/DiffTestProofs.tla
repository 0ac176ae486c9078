--------------------------- MODULE DiffTestProofs ---------------------------
(***************************************************************************)
(* Proofs about the differential test template of DiffTest, for every     *)
(* value of the constants: the template keeps its variables in their      *)
(* types and the ledger consistent (TypeOK), and a PASSED verdict is      *)
(* evidence about the subject (VerdictSound), through the inductive       *)
(* invariant ChainInv; and a conformant subject with its key in the token  *)
(* is never failed (NoFalseAlarm), through the inductive invariant         *)
(* CleanInv.                                                               *)
(***************************************************************************)
EXTENDS DiffTest, TLAPS

\* The outputs the subject can write are artifacts.
LEMMA SubjectOutputsType ==
    ASSUME NEW c, fault \in Faults,
           Nonces(c) \subseteq 0 .. 2
    PROVE  SubjectOutputs(c) \subseteq Artifact
BY DEF SubjectOutputs, Artifact

\* The nonces a scheme draws are 0, 1 or 2.
LEMMA NoncesRange ==
    ASSUME NEW c
    PROVE  Nonces(c) \subseteq 0 .. 2
BY DEF Nonces

\* The outputs the reference can write are artifacts.
LEMMA ReferenceOutputsType ==
    ASSUME NEW c
    PROVE  ReferenceOutputs(c) \subseteq Artifact
BY NoncesRange DEF ReferenceOutputs, Artifact

(***************************************************************************)
(* Type correctness: every step of the template keeps each variable in    *)
(* its type, and the ledger holds exactly one entry once the case is      *)
(* logged (log_test_result increments one counter, once).                 *)
(***************************************************************************)
LEMMA TypeInit == Init => TypeOK
BY DiffTestAssumption DEF Init, TypeOK, Steps, NoArt

\* Every step of the template, a stutter included, preserves TypeOK.
LEMMA TypeStep == TypeOK /\ [Next]_vars => TypeOK'
<1> SUFFICES ASSUME TypeOK, [Next]_vars PROVE TypeOK'
  OBVIOUS
<1> USE DiffTestAssumption DEF TypeOK, Steps, Pass, Fail, OpError, NoError,
                               vars, tvars, ledger, env
<1>1. CASE GenInput
  BY <1>1 DEF GenInput
<1>2. CASE Corrupt
  BY <1>2 DEF Corrupt
<1>3. CASE SubjectGenerate
  <2>1. SubjectOutputs(tcase) \subseteq Artifact
    BY NoncesRange, SubjectOutputsType
  <2> QED
    BY <1>3, <2>1 DEF SubjectGenerate
<1>4. CASE ReferenceGenerate
  BY <1>4, ReferenceOutputsType DEF ReferenceGenerate
<1>5. CASE CompareOutputs
  BY <1>5 DEF CompareOutputs
<1>6. CASE ReferenceCheck
  BY <1>6 DEF ReferenceCheck
<1>7. CASE SubjectCheck
  BY <1>7 DEF SubjectCheck
<1>8. CASE NegativeReferenceCheck
  BY <1>8 DEF NegativeReferenceCheck
<1>9. CASE NegativeSubjectCheck
  BY <1>9 DEF NegativeSubjectCheck
<1>10. CASE LogTestResult
  BY <1>10 DEF LogTestResult
<1>11. CASE Finished
  BY <1>11 DEF Finished, vars, tvars, ledger, env
<1>12. CASE UNCHANGED vars
  BY <1>12 DEF vars, tvars, ledger, env
<1> QED
  BY <1>1, <1>2, <1>3, <1>4, <1>5, <1>6, <1>7, <1>8, <1>9, <1>10,
     <1>11, <1>12 DEF Next, TemplateStep

THEOREM TypeCorrect == Spec => []TypeOK
BY TypeInit, TypeStep, PTL DEF Spec

(***************************************************************************)
(* The && chain's facts: each step that lets the chain go on establishes  *)
(* the fact that ChainInv records for it (the subject generated a genuine *)
(* output with its key in the token, the reference accepted it, the       *)
(* subject rejected the corrupted input), and no later step undoes it,    *)
(* because a step either passes the status on unchanged or sets it to 1. *)
(***************************************************************************)
LEMMA ChainInit == Init => ChainInv
BY TypeInit DEF Init, ChainInv, Generated, RefChecked, NegChecked

\* Every step of the template, a stutter included, preserves ChainInv.
LEMMA ChainStep == ChainInv /\ [Next]_vars => ChainInv'
<1> SUFFICES ASSUME ChainInv, [Next]_vars PROVE ChainInv'
  OBVIOUS
<1>0. TypeOK'
  BY TypeStep DEF ChainInv
<1> USE DEF ChainInv, Generated, RefChecked, NegChecked, SubjectReady,
            SubjectOutputs, Nonces, Randomized, Infeasible, EngineVerified,
            Pass, Fail, OpError, NoError, vars, tvars, ledger, env
<1>1. CASE GenInput
  BY <1>0, <1>1 DEF GenInput
<1>2. CASE Corrupt
  BY <1>0, <1>2 DEF Corrupt
<1>3. CASE SubjectGenerate
  BY <1>0, <1>3 DEF SubjectGenerate
<1>4. CASE ReferenceGenerate
  BY <1>0, <1>4 DEF ReferenceGenerate
<1>5. CASE CompareOutputs
  BY <1>0, <1>5 DEF CompareOutputs
<1>6. CASE ReferenceCheck
  BY <1>0, <1>6 DEF ReferenceCheck, Accepts
<1>7. CASE SubjectCheck
  BY <1>0, <1>7 DEF SubjectCheck
<1>8. CASE NegativeReferenceCheck
  BY <1>0, <1>8 DEF NegativeReferenceCheck
<1>9. CASE NegativeSubjectCheck
  <2>1. CASE SubjectReady /\ NoError
             /\ IF Accepts("subject", "corrupted", artB) THEN Fail ELSE Pass("log")
    BY <1>0, <1>9, <2>1 DEF NegativeSubjectCheck, Accepts
  <2>2. CASE ~SubjectReady /\ NoError /\ Pass("log")
    BY <1>0, <1>9, <2>2 DEF NegativeSubjectCheck
  <2>3. CASE OpError /\ Pass("log")
    BY <1>0, <1>9, <2>3, DiffTestAssumption DEF NegativeSubjectCheck, TypeOK
  <2> QED
    BY <1>9, <2>1, <2>2, <2>3 DEF NegativeSubjectCheck
<1>10. CASE LogTestResult
  BY <1>0, <1>10 DEF LogTestResult
<1>11. CASE Finished
  BY <1>0, <1>11 DEF Finished
<1>12. CASE UNCHANGED vars
  BY <1>0, <1>12
<1> QED
  BY <1>1, <1>2, <1>3, <1>4, <1>5, <1>6, <1>7, <1>8, <1>9, <1>10,
     <1>11, <1>12 DEF Next, TemplateStep

\* ChainInv holds in every state of the template.
THEOREM ChainInvariant == Spec => []ChainInv
BY ChainInit, ChainStep, PTL DEF Spec

(***************************************************************************)
(* A PASSED verdict of the template is evidence about the subject (the    *)
(* order and the short-circuit of testtemplate_generate_check's && chain): *)
(* a genuine artifact over the input, on a feasible case, with the key in *)
(* the token, and no accept-all verifier when the negative path ran       *)
(* without an external failure.                                            *)
(***************************************************************************)
THEOREM VerdictSoundness == Spec => []VerdictSound
<1>1. ChainInv => VerdictSound
  <2> SUFFICES ASSUME ChainInv, Passed PROVE VerdictSound
    BY DEF VerdictSound
  <2>1. artA \in SubjectOutputs(tcase) /\ artA.over = "input"
    BY DEF ChainInv, Generated, RefChecked, Passed
  <2>2. fault # "badArtifact"
    BY <2>1 DEF SubjectOutputs
  <2> QED
    BY <2>2 DEF ChainInv, Generated, NegChecked, Passed, VerdictSound
<1> QED
  BY <1>1, ChainInvariant, PTL

(***************************************************************************)
(* A conformant subject writes exactly what the reference writes: the     *)
(* two output sets of a case coincide when the engine has no fault.       *)
(***************************************************************************)
LEMMA ConformantOutputs ==
    ASSUME NEW c, fault = "none"
    PROVE  SubjectOutputs(c) = ReferenceOutputs(c)
BY DEF SubjectOutputs, ReferenceOutputs

(***************************************************************************)
(* The comparator of each family accepts any two outputs a conformant     *)
(* subject and the reference can write: the families it diffs sign or     *)
(* encrypt deterministically, and PSS with a salt is not diffed.          *)
(***************************************************************************)
LEMMA ComparatorAcceptsConformant ==
    ASSUME NEW c, NEW a \in ReferenceOutputs(c),
           NEW b \in ReferenceOutputs(c)
    PROVE  CustomCheck(c, a, b)
<1>1. CASE c.family \in {"rsa_pkcs", "rsa_x509", "enc_x509"}
  <2>1. Nonces(c) = {0}
    BY <1>1 DEF Nonces, Randomized
  <2> QED
    BY <1>1, <2>1 DEF CustomCheck, ReferenceOutputs
<1>2. CASE c.family = "rsapss"
  BY <1>2 DEF CustomCheck
<1>3. CASE c.family \notin {"rsa_pkcs", "rsa_x509", "enc_x509", "rsapss"}
  BY <1>3 DEF CustomCheck
<1> QED
  BY <1>1, <1>2, <1>3

LEMMA CleanInit == Init => CleanInv
BY TypeInit DEF Init, CleanInv

\* Every step of the template, a stutter included, preserves CleanInv.
LEMMA CleanStep == CleanInv /\ [Next]_vars => CleanInv'
<1> SUFFICES ASSUME CleanInv, [Next]_vars PROVE CleanInv'
  OBVIOUS
<1>0. TypeOK'
  BY TypeStep DEF CleanInv
<1> USE DEF CleanInv, Clean, SubjectOutputs, SubjectReady,
            Pass, Fail, OpError, NoError,
            vars, tvars, ledger, env
\* An external failure makes the case unclean for good.
<1>e. OpError => ~Clean'
  BY DiffTestAssumption DEF TypeOK
<1>1. CASE GenInput
  BY <1>0, <1>1, <1>e DEF GenInput
<1>2. CASE Corrupt
  BY <1>0, <1>2, <1>e DEF Corrupt
<1>3. CASE SubjectGenerate
  BY <1>0, <1>3, <1>e, ConformantOutputs DEF SubjectGenerate
<1>4. CASE ReferenceGenerate
  BY <1>0, <1>4, <1>e DEF ReferenceGenerate
<1>5. CASE CompareOutputs
  <2>1. CASE Clean
    <3>1. CustomCheck(tcase, artA, artB)
      BY <2>1, <1>5, ConformantOutputs, ComparatorAcceptsConformant
      DEF CompareOutputs
    <3> QED
      BY <1>0, <1>5, <2>1, <3>1 DEF CompareOutputs
  <2>2. CASE ~Clean
    BY <1>0, <1>5, <2>2 DEF CompareOutputs
  <2> QED
    BY <2>1, <2>2
<1>6. CASE ReferenceCheck
  BY <1>0, <1>6, <1>e DEF ReferenceCheck, Accepts
<1>7. CASE SubjectCheck
  BY <1>0, <1>7, <1>e DEF SubjectCheck, Accepts, ReferenceOutputs
<1>8. CASE NegativeReferenceCheck
  BY <1>0, <1>8, <1>e DEF NegativeReferenceCheck, Accepts
<1>9. CASE NegativeSubjectCheck
  <2>1. CASE SubjectReady /\ NoError
             /\ IF Accepts("subject", "corrupted", artB) THEN Fail ELSE Pass("log")
    BY <1>0, <1>9, <2>1 DEF NegativeSubjectCheck, Accepts
  <2>2. CASE ~SubjectReady /\ NoError /\ Pass("log")
    BY <1>0, <1>9, <2>2 DEF NegativeSubjectCheck
  <2>3. CASE OpError /\ Pass("log")
    BY <1>0, <1>9, <2>3, <1>e DEF NegativeSubjectCheck
  <2> QED
    BY <1>9, <2>1, <2>2, <2>3 DEF NegativeSubjectCheck
<1>10. CASE LogTestResult
  BY <1>0, <1>10 DEF LogTestResult
<1>11. CASE Finished \/ UNCHANGED vars
  BY <1>0, <1>11 DEF Finished
<1> QED
  BY <1>1, <1>2, <1>3, <1>4, <1>5, <1>6, <1>7, <1>8, <1>9, <1>10,
     <1>11 DEF Next, TemplateStep

(***************************************************************************)
(* No false alarm, for every plan and every bound on external failures:   *)
(* testtemplate_generate_check logs a conformant subject PASSED on every  *)
(* feasible case whose key is in the token, when no external command      *)
(* failed, whatever nonces the randomised schemes draw.                   *)
(***************************************************************************)
(***************************************************************************)
(* On a clean case (no fault, no failed command, the key in the token, a  *)
(* feasible case) every step of the && chain keeps status 0 and the       *)
(* artifacts the subject and the reference wrote are conformant ones.     *)
(***************************************************************************)
THEOREM CleanInvariant == Spec => []CleanInv
BY CleanInit, CleanStep, PTL DEF Spec

THEOREM NoFalseAlarmTheorem == Spec => []NoFalseAlarm
<1>1. CleanInv => NoFalseAlarm
  BY DEF CleanInv, Clean, NoFalseAlarm
<1> QED
  BY <1>1, CleanInvariant, PTL

=============================================================================
