------------------------------ MODULE DiffTest ------------------------------
(***************************************************************************)
(* The differential test template `testtemplate_generate_check` of        *)
(* src/tests/testtool, run on one test case, and the ledger update        *)
(* `log_test_result` it ends with.                                         *)
(*                                                                         *)
(* The && chain of the template is a sequence of steps; the first step    *)
(* whose command returns non-zero ends the chain and the case is logged   *)
(* FAILED.  Files are abstracted to what the checks tell apart: a payload *)
(* is the input or its corrupted copy, an artifact (signature or          *)
(* ciphertext) is a record of what it was made over and of the random     *)
(* nonce its padding drew (0 for a deterministic scheme).                 *)
(*                                                                         *)
(* The subject (the PKCS#11 engine) is the component under test: its      *)
(* behaviour is `fault`, fixed for a whole behaviour.  Any call to an     *)
(* external command may fail for an external reason (I/O, engine crash):  *)
(* at most MaxOpErrors such failures happen per run.                      *)
(***************************************************************************)
EXTENDS Matrix

CONSTANTS
    Faults,       \* subset of {"none", "badArtifact", "acceptAll"}
    MaxOpErrors,  \* bound on external failures per run
    NoKey         \* the token holds no key

ASSUME DiffTestAssumption ==
    /\ Faults \subseteq {"none", "badArtifact", "acceptAll"}
    /\ MaxOpErrors \in Nat
    /\ NoKey \notin STRING

VARIABLES
    tpc,              \* step of the template ("idle" before the first case)
    tcase,            \* the TestCase being run
    artA,             \* subject output file  ($pkcs_out_path)
    artB,             \* reference output file ($ref_out_path)
    tstatus,          \* exit status of the && chain so far: 0 or 1
    num_tests_passed,
    num_tests_failed,
    opErrors,         \* external failures so far in this run
    fault,            \* the subject's behaviour
    enclave,          \* "running" or "stopped"
    token             \* the key the test token holds, or NoKey

tvars == <<tpc, tcase, artA, artB, tstatus>>
ledger == <<num_tests_passed, num_tests_failed>>
env == <<opErrors, fault, enclave, token>>
vars == <<tvars, ledger, env>>

Steps == {"gen", "corrupt", "subjGen", "refGen", "compare",
          "refCheck", "subjCheck", "negRef", "negSubj", "log"}

Artifact == [over : {"input", "garbage"}, nonce : 0 .. 2]
NoArt == [over |-> "none", nonce |-> 0]
NoCase == [family |-> "none", label |-> "none", bytes |-> 0,
           size |-> 0, dlen |-> 0, salt |-> 0]

----------------------------------------------------------------------------
(***************************************************************************)
(* Providers.                                                              *)
(***************************************************************************)

\* The subject's URI names token test-token and object $keylabel: it is
\* usable only while the enclave runs and the token holds the case's key.
SubjectReady == enclave = "running" /\ token = tcase.label

\* Randomised padding: ECDSA, PKCS#1 v1.5 encryption, PSS with a salt.
Randomized(c) ==
    \/ c.family \in {"ecdsa", "enc_rsa"}
    \/ c.family = "rsapss" /\ c.salt > 0

Nonces(c) == IF Randomized(c) THEN {1, 2} ELSE {0}

ReferenceOutputs(c) == {[over |-> "input", nonce |-> n] : n \in Nonces(c)}

SubjectOutputs(c) ==
    {[over |-> IF fault = "badArtifact" THEN "garbage" ELSE "input",
      nonce |-> n] : n \in Nonces(c)}

\* Families whose checker is `openssl dgst -verify` (the engine decides);
\* the others recover the payload (rsautl -verify, pkeyutl -decrypt) and
\* `diff` it against the input, so the decision is the script's.
EngineVerified(c) == c.family \in {"rsa_pkcs", "rsapss", "ecdsa"}

\* Does `party`'s checker return 0 on payload `msg` and artifact `a`?
Accepts(party, msg, a) ==
    IF party = "subject" /\ fault = "acceptAll" /\ EngineVerified(tcase)
    THEN TRUE
    ELSE a.over = "input" /\ msg = "input"

\* Variant in which the PSS comparator diffs the two outputs whatever the
\* salt length (the randomised PSS signatures then differ).
CustomCheckPssDiff(c, a, b) ==
    CASE c.family \in {"rsa_pkcs", "rsa_x509", "enc_x509", "rsapss"} -> a = b
      [] OTHER -> TRUE

\* $fct_custom_check_out_files: check_outfiles_diff, the PSS check (which
\* diffs the pkcs output against itself), or `true`.
CustomCheck(c, a, b) ==
    CASE c.family \in {"rsa_pkcs", "rsa_x509", "enc_x509"} -> a = b
      [] c.family = "rsapss" -> IF c.salt = 0 THEN a = a ELSE TRUE
      [] OTHER -> TRUE

----------------------------------------------------------------------------
(***************************************************************************)
(* Step outcomes.                                                          *)
(***************************************************************************)
Pass(next) == tpc' = next /\ UNCHANGED tstatus

Fail == tpc' = "log" /\ tstatus' = 1

OpError == opErrors < MaxOpErrors /\ opErrors' = opErrors + 1

NoError == UNCHANGED opErrors

\* $fct_prng_inputfile writes the payload.
GenInput ==
    /\ tpc = "gen"
    /\ \/ NoError /\ Pass(IF tcase.size > 0 THEN "corrupt" ELSE "subjGen")
       \/ OpError /\ Fail
    /\ UNCHANGED <<tcase, artA, artB, ledger, fault, enclave, token>>

\* bitflip of one bit in [0, 8 * size), then `! diff input corrupted`.
Corrupt ==
    /\ tpc = "corrupt"
    /\ \/ NoError /\ Pass("subjGen")
       \/ OpError /\ Fail
    /\ UNCHANGED <<tcase, artA, artB, ledger, fault, enclave, token>>

\* $fct_generator_pkcs: sign or encrypt through the engine.
SubjectGenerate ==
    /\ tpc = "subjGen"
    /\ \/ /\ SubjectReady /\ ~Infeasible(tcase) /\ NoError
          /\ \E a \in SubjectOutputs(tcase) : artA' = a
          /\ Pass("refGen")
       \/ /\ ~SubjectReady \/ Infeasible(tcase)
          /\ NoError /\ Fail /\ UNCHANGED artA
       \/ OpError /\ Fail /\ UNCHANGED artA
    /\ UNCHANGED <<tcase, artB, ledger, fault, enclave, token>>

\* $fct_generator_ref: sign or encrypt with the key file.
ReferenceGenerate ==
    /\ tpc = "refGen"
    /\ \/ /\ ~Infeasible(tcase) /\ NoError
          /\ \E b \in ReferenceOutputs(tcase) : artB' = b
          /\ Pass("compare")
       \/ Infeasible(tcase) /\ NoError /\ Fail /\ UNCHANGED artB
       \/ OpError /\ Fail /\ UNCHANGED artB
    /\ UNCHANGED <<tcase, artA, ledger, fault, enclave, token>>

\* $fct_custom_check_out_files on the two output files.
CompareOutputs ==
    /\ tpc = "compare"
    /\ IF CustomCheck(tcase, artA, artB) THEN Pass("refCheck") ELSE Fail
    /\ UNCHANGED <<tcase, artA, artB, ledger, env>>

\* Variant that drops the reference's check of the subject's output.
ReferenceCheckDropped ==
    /\ tpc = "refCheck"
    /\ NoError /\ Pass("subjCheck")
    /\ UNCHANGED <<tcase, artA, artB, ledger, fault, enclave, token>>

\* $fct_checker_ref on the input and the subject's output.
ReferenceCheck ==
    /\ tpc = "refCheck"
    /\ \/ NoError /\ IF Accepts("reference", "input", artA)
                     THEN Pass("subjCheck") ELSE Fail
       \/ OpError /\ Fail
    /\ UNCHANGED <<tcase, artA, artB, ledger, fault, enclave, token>>

\* $fct_checker_pkcs on the input and the reference's output.
SubjectCheck ==
    /\ tpc = "subjCheck"
    /\ \/ /\ SubjectReady /\ NoError
          /\ IF Accepts("subject", "input", artB)
             THEN Pass(IF tcase.size > 0 THEN "negRef" ELSE "log")
             ELSE Fail
       \/ ~SubjectReady /\ NoError /\ Fail
       \/ OpError /\ Fail
    /\ UNCHANGED <<tcase, artA, artB, ledger, fault, enclave, token>>

\* `! $fct_checker_ref` on the corrupted input: any non-zero status of the
\* checker, an error included, lets the chain go on.
NegativeReferenceCheck ==
    /\ tpc = "negRef"
    /\ \/ NoError /\ IF Accepts("reference", "corrupted", artA)
                     THEN Fail ELSE Pass("negSubj")
       \/ OpError /\ Pass("negSubj")
    /\ UNCHANGED <<tcase, artA, artB, ledger, fault, enclave, token>>

\* `! $fct_checker_pkcs` on the corrupted input.
NegativeSubjectCheck ==
    /\ tpc = "negSubj"
    /\ \/ /\ SubjectReady /\ NoError
          /\ IF Accepts("subject", "corrupted", artB) THEN Fail ELSE Pass("log")
       \/ ~SubjectReady /\ NoError /\ Pass("log")
       \/ OpError /\ Pass("log")
    /\ UNCHANGED <<tcase, artA, artB, ledger, fault, enclave, token>>

\* Variant of the ledger update with the else branch lost: every case is
\* counted as passed, a failed one as failed too.
LogTestResultNoElse ==
    /\ tpc = "log"
    /\ tpc' = "done"
    /\ num_tests_passed' = num_tests_passed + 1
    /\ num_tests_failed' = IF tstatus = 0 THEN num_tests_failed
                                          ELSE num_tests_failed + 1
    /\ UNCHANGED <<tcase, artA, artB, tstatus, env>>

\* Variant that takes `exitcode=$?` after `echo $testname`: the status
\* logged is echo's, always 0.
LogTestResultEchoStatus ==
    /\ tpc = "log"
    /\ tpc' = "done"
    /\ tstatus' = 0
    /\ num_tests_passed' = num_tests_passed + 1
    /\ UNCHANGED <<tcase, artA, artB, num_tests_failed, env>>

\* exitcode=$?; log_test_result: count the case as passed or failed.
LogTestResult ==
    /\ tpc = "log"
    /\ tpc' = "done"
    /\ IF tstatus = 0
       THEN num_tests_passed' = num_tests_passed + 1 /\ UNCHANGED num_tests_failed
       ELSE num_tests_failed' = num_tests_failed + 1 /\ UNCHANGED num_tests_passed
    /\ UNCHANGED <<tcase, artA, artB, tstatus, env>>

TemplateStep ==
    \/ GenInput \/ Corrupt \/ SubjectGenerate \/ ReferenceGenerate
    \/ CompareOutputs \/ ReferenceCheck \/ SubjectCheck
    \/ NegativeReferenceCheck \/ NegativeSubjectCheck \/ LogTestResult

----------------------------------------------------------------------------
(***************************************************************************)
(* One test case on its own: any runnable case of the plan, in any        *)
(* environment the suite can leave it in.                                 *)
(***************************************************************************)
Init ==
    /\ tpc = "gen"
    /\ tcase \in Runnable
    /\ artA = NoArt /\ artB = NoArt
    /\ tstatus = 0
    /\ num_tests_passed = 0 /\ num_tests_failed = 0
    /\ opErrors = 0
    /\ fault \in Faults
    /\ enclave \in {"running", "stopped"}
    /\ token \in Labels \cup {NoKey}

\* A finished case stays finished.
Finished == tpc = "done" /\ UNCHANGED vars

Next == TemplateStep \/ Finished

Spec == Init /\ [][Next]_vars /\ WF_vars(TemplateStep)

----------------------------------------------------------------------------
TypeOK ==
    /\ tpc \in Steps \cup {"done"}
    /\ tcase \in Runnable
    /\ artA \in Artifact \cup {NoArt}
    /\ artB \in Artifact \cup {NoArt}
    /\ tstatus \in {0, 1}
    /\ num_tests_passed \in 0 .. 1 /\ num_tests_failed \in 0 .. 1
    /\ num_tests_passed + num_tests_failed = IF tpc = "done" THEN 1 ELSE 0
    /\ opErrors \in 0 .. MaxOpErrors
    /\ fault \in Faults
    /\ enclave \in {"running", "stopped"}
    /\ token \in Labels \cup {NoKey}

\* A case logged PASSED.
Passed == tpc = "done" /\ tstatus = 0

(***************************************************************************)
(* A PASSED verdict is evidence about the subject: its generating          *)
(* operation produced a genuine artifact over the input, on a feasible     *)
(* case, with the case's key in the token; and, when the payload is not    *)
(* empty and no external failure happened, its verifier does not accept   *)
(* everything.  This is what the order and the short-circuit of the       *)
(* template's && chain must guarantee.                                     *)
(***************************************************************************)
VerdictSound ==
    Passed =>
        /\ fault # "badArtifact"
        /\ SubjectReady
        /\ ~Infeasible(tcase)
        /\ (tcase.size > 0 /\ opErrors = 0 /\ EngineVerified(tcase))
              => fault # "acceptAll"

(***************************************************************************)
(* The facts the && chain has established while the case is still going: *)
(* once the subject has generated, its output is one of the outputs it    *)
(* can make for this case, its key was in the token and the case was      *)
(* feasible; once the reference has checked that output, it is over the   *)
(* input; once the negative subject check is behind, with no external     *)
(* failure, an engine-verified subject does not accept everything.  It    *)
(* strengthens VerdictSound into an inductive invariant.                  *)
(***************************************************************************)
Generated ==
    (tpc \in {"refGen", "compare", "refCheck", "subjCheck", "negRef",
              "negSubj", "log", "done"} /\ tstatus = 0)
        => artA \in SubjectOutputs(tcase) /\ SubjectReady /\ ~Infeasible(tcase)

RefChecked ==
    (tpc \in {"subjCheck", "negRef", "negSubj", "log", "done"} /\ tstatus = 0)
        => artA.over = "input"

NegChecked ==
    (/\ tpc \in {"log", "done"} /\ tstatus = 0 /\ tcase.size > 0
     /\ opErrors = 0 /\ EngineVerified(tcase))
        => fault # "acceptAll"

ChainInv == TypeOK /\ Generated /\ RefChecked /\ NegChecked

(***************************************************************************)
(* No false alarm: a conformant subject, on a feasible case, with the      *)
(* token provisioned and no external failure, is logged PASSED, whatever   *)
(* nonces the randomised schemes draw.  This is what the choice of the     *)
(* comparator per family must guarantee.                                   *)
(***************************************************************************)
NoFalseAlarm ==
    (/\ tpc = "done" /\ fault = "none" /\ opErrors = 0
     /\ SubjectReady /\ ~Infeasible(tcase)) => tstatus = 0

(***************************************************************************)
(* What a clean case (a conformant subject, its key in the token, a       *)
(* feasible case, no external failure so far) has established at each    *)
(* step: the chain's status is still 0, the subject's output is one it    *)
(* can make for the case, and the reference's one it can make.  Since     *)
(* the conformant subject's outputs are the reference's, the comparator   *)
(* chosen for the family, both checkers and both negative checks let the  *)
(* chain go on.  It strengthens NoFalseAlarm into an inductive invariant. *)
(***************************************************************************)
Clean == fault = "none" /\ opErrors = 0 /\ SubjectReady /\ ~Infeasible(tcase)

CleanInv ==
    /\ TypeOK
    /\ Clean =>
          /\ tstatus = 0
          /\ tpc \in {"refGen", "compare", "refCheck", "subjCheck", "negRef",
                      "negSubj", "log", "done"} => artA \in SubjectOutputs(tcase)
          /\ tpc \in {"compare", "refCheck", "subjCheck", "negRef",
                      "negSubj", "log", "done"} => artB \in ReferenceOutputs(tcase)

(***************************************************************************)
(* The spec (section 4.4, step 7): when the payload is not empty, the     *)
(* subject's verifier must reject the reference's signature over the      *)
(* corrupted input, or the case fails.  The script runs the check as      *)
(* `! $fct_checker_pkcs ...`, so a checker that fails for another reason  *)
(* counts as a rejection.                                                 *)
(***************************************************************************)
NegativePathSound ==
    (Passed /\ tcase.size > 0 /\ EngineVerified(tcase)) => fault # "acceptAll"
=============================================================================
