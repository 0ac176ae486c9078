------------------------------ MODULE Testtool ------------------------------
(***************************************************************************)
(* The `openssl` test set of src/tests/testtool: `main`, `cmd_openssl`,   *)
(* the enclave set-up and tear-down (prepare_test_env, cleanup_test_env), *)
(* the per-key token life cycle (provision_key, cleanup_key), the loops   *)
(* over the sub-suites of Matrix, each case run by the template of        *)
(* DiffTest, the summary and the exit status.                             *)
(*                                                                         *)
(* The enclave and its token outlive an invocation of the script: an      *)
(* invocation may be interrupted at any point and the script run again    *)
(* (at most MaxRuns invocations).                                          *)
(***************************************************************************)
EXTENDS DiffTest, FiniteSets

CONSTANT MaxRuns

ASSUME TesttoolAssumption == MaxRuns \in Nat \ {0}

VARIABLES
    pc,          \* where cmd_openssl is
    si,          \* index of the current sub-suite (the key loops)
    ci,          \* index of the next case in the sub-suite (the size loops)
    exitStatus,  \* exit status of the script, once pc = "exited"
    run          \* invocations so far

svars == <<pc, si, ci, exitStatus, run>>
allvars == <<vars, svars>>

EXIT_CODE_FAILED_TESTS == 2

Ended == {"exited", "crashed"}

\* `{ ... } | tee $OVERALL_LOG_FILE` without pipefail: the status of a
\* pipeline is the status of its last command.
PipelineStatus(left, right) == right

TeeStatus == 0

\* die inside the piped group: `exit` leaves the group's subshell only.
Die == pc' = "exited" /\ exitStatus' = PipelineStatus(1, TeeStatus)

CurrentCases == Suites[si].cases

NoCaseRunning == tpc \in {"idle", "done"}

----------------------------------------------------------------------------
\* Variant in which a failed `p11ne-cli start` is taken for an enclave
\* already running and kept as it is, token included, instead of being
\* stopped and started again.
PrepareTestEnvReuse ==
    /\ pc = "main"
    /\ \/ /\ NoError
          /\ enclave' = "running"
          /\ token' = IF enclave = "running" THEN token ELSE NoKey
          /\ pc' = "provision" /\ UNCHANGED exitStatus
       \/ /\ OpError
          /\ enclave' \in {enclave, "stopped"}
          /\ token' = IF enclave' = "stopped" THEN NoKey ELSE token
          /\ Die
    /\ UNCHANGED <<tvars, ledger, fault, si, ci, run>>

\* prepare_test_env: mkdir, then `p11ne-cli start`; if that fails (an
\* enclave left by an interrupted run), stop and start again.  A stopped
\* enclave holds no token.  Any of these failing is fatal (ok_or_die).
PrepareTestEnv ==
    /\ pc = "main"
    /\ \/ /\ NoError
          /\ enclave' = "running" /\ token' = NoKey
          /\ pc' = "provision" /\ UNCHANGED exitStatus
       \/ /\ OpError
          /\ enclave' \in {enclave, "stopped"}
          /\ token' = IF enclave' = "stopped" THEN NoKey ELSE token
          /\ Die
    /\ UNCHANGED <<tvars, ledger, fault, si, ci, run>>

\* provision_key: `p11ne-db pack-key` (fatal on failure), then
\* `p11ne-cli init-token`, whose status is ignored (`return 0`).  The
\* token takes the key only if the enclave runs and the token is free.
ProvisionKey ==
    /\ pc = "provision"
    /\ si <= Len(Suites)
    /\ \/ /\ NoError
          /\ token' = IF enclave = "running" /\ token = NoKey
                      THEN Suites[si].label ELSE token
          /\ pc' = "case" /\ ci' = 1 /\ UNCHANGED exitStatus
       \/ /\ OpError
          /\ UNCHANGED token
          /\ pc' = "case" /\ ci' = 1 /\ UNCHANGED exitStatus
       \/ OpError /\ Die /\ UNCHANGED <<token, ci>>
    /\ UNCHANGED <<tvars, ledger, fault, enclave, si, run>>

\* Variant in which the test functions lose their early `return`.
StartCaseNoSkip ==
    /\ pc = "case"
    /\ NoCaseRunning
    /\ ci <= Len(CurrentCases)
    /\ ci' = ci + 1
    /\ tpc' = "gen" /\ tcase' = CurrentCases[ci]
    /\ artA' = NoArt /\ artB' = NoArt /\ tstatus' = 0
    /\ UNCHANGED <<ledger, env, pc, si, exitStatus, run>>

\* One iteration of a size loop: the test function returns early on a
\* skip rule, or runs the template on its case.
StartCase ==
    /\ pc = "case"
    /\ NoCaseRunning
    /\ ci <= Len(CurrentCases)
    /\ ci' = ci + 1
    /\ LET c == CurrentCases[ci] IN
         IF Skipped(c)
         THEN UNCHANGED tvars
         ELSE /\ tpc' = "gen" /\ tcase' = c
              /\ artA' = NoArt /\ artB' = NoArt /\ tstatus' = 0
    /\ UNCHANGED <<ledger, env, pc, si, exitStatus, run>>

\* A step of the running case's template.
RunTemplate ==
    /\ pc = "case"
    /\ TemplateStep
    /\ UNCHANGED svars

\* End of the sub-suite: cleanup_key, `p11ne-cli release-token`, whose
\* status is ignored; then the next key.
CleanupKey ==
    /\ pc = "case"
    /\ NoCaseRunning
    /\ ci > Len(CurrentCases)
    /\ \/ NoError /\ token' = NoKey
       \/ OpError /\ UNCHANGED token
    /\ si' = si + 1 /\ pc' = "provision"
    /\ UNCHANGED <<tvars, ledger, fault, enclave, ci, exitStatus, run>>

\* cleanup_test_env: `p11ne-cli stop`, status ignored.
CleanupTestEnv ==
    /\ pc = "provision"
    /\ si > Len(Suites)
    /\ \/ NoError /\ enclave' = "stopped" /\ token' = NoKey
       \/ OpError /\ UNCHANGED <<enclave, token>>
    /\ pc' = "summary"
    /\ UNCHANGED <<tvars, ledger, fault, si, ci, exitStatus, run>>

\* main: test_results_summary, then `exit $EXIT_CODE_FAILED_TESTS` if a
\* test failed, inside the group piped to tee.
Summary ==
    /\ pc = "summary"
    /\ LET groupStatus == IF num_tests_failed # 0 THEN EXIT_CODE_FAILED_TESTS
                                                ELSE 0
       IN  exitStatus' = PipelineStatus(groupStatus, TeeStatus)
    /\ pc' = "exited"
    /\ UNCHANGED <<tvars, ledger, env, si, ci, run>>

\* The script's own steps.
ScriptStep ==
    \/ PrepareTestEnv \/ ProvisionKey \/ StartCase \/ RunTemplate
    \/ CleanupKey \/ CleanupTestEnv \/ Summary

----------------------------------------------------------------------------
\* The process is interrupted; the enclave and the token stay as they are.
Crash ==
    /\ pc \notin Ended
    /\ pc' = "crashed"
    /\ UNCHANGED <<vars, si, ci, exitStatus, run>>

\* `testtool openssl` is invoked again: a new process, a new ledger.
Restart ==
    /\ pc \in Ended
    /\ run < MaxRuns
    /\ run' = run + 1
    /\ pc' = "main" /\ si' = 1 /\ ci' = 1 /\ exitStatus' = 0
    /\ tpc' = "idle" /\ tcase' = NoCase /\ artA' = NoArt /\ artB' = NoArt
    /\ tstatus' = 0
    /\ num_tests_passed' = 0 /\ num_tests_failed' = 0 /\ opErrors' = 0
    /\ UNCHANGED <<fault, enclave, token>>

\* No invocation is left.
Terminated == pc \in Ended /\ run = MaxRuns /\ UNCHANGED allvars

\* The machine may start with an enclave left running, with any token.
SuiteInit ==
    /\ pc = "main" /\ si = 1 /\ ci = 1 /\ exitStatus = 0 /\ run = 1
    /\ tpc = "idle" /\ tcase = NoCase /\ artA = NoArt /\ artB = NoArt
    /\ tstatus = 0
    /\ num_tests_passed = 0 /\ num_tests_failed = 0 /\ opErrors = 0
    /\ fault \in Faults
    /\ enclave \in {"running", "stopped"}
    /\ token \in IF enclave = "running" THEN Labels \cup {NoKey} ELSE {NoKey}

SuiteNext == ScriptStep \/ Crash \/ Restart \/ Terminated

\* The script runs its own steps as long as its external calls return.
SuiteSpec == SuiteInit /\ [][SuiteNext]_allvars /\ WF_allvars(ScriptStep)

----------------------------------------------------------------------------
SuiteTypeOK ==
    /\ pc \in {"main", "provision", "case", "summary"} \cup Ended
    /\ si \in 1 .. Len(Suites) + 1
    /\ ci \in Nat \ {0}
    /\ tpc \in Steps \cup {"idle", "done"}
    /\ tcase \in Runnable \cup {NoCase}
    /\ artA \in Artifact \cup {NoArt} /\ artB \in Artifact \cup {NoArt}
    /\ tstatus \in {0, 1}
    /\ num_tests_passed \in Nat /\ num_tests_failed \in Nat
    /\ opErrors \in 0 .. MaxOpErrors
    /\ fault \in Faults
    /\ enclave \in {"running", "stopped"}
    /\ token \in Labels \cup {NoKey}
    /\ exitStatus \in {0, 1, EXIT_CODE_FAILED_TESTS}
    /\ run \in 1 .. MaxRuns

(***************************************************************************)
(* A run of the whole matrix against a conformant subject, with no        *)
(* external failure in the run, logs no FAILED case: every infeasible     *)
(* combination is skipped, every sub-suite finds the token holding its    *)
(* key (the previous key released, an enclave left by an interrupted      *)
(* invocation restarted), and every comparator fits its scheme.           *)
(***************************************************************************)
HonestRunAllPass ==
    (fault = "none" /\ opErrors = 0) => num_tests_failed = 0

(***************************************************************************)
(* SuiteTypeOK with what the loops of cmd_openssl keep: a case's template *)
(* runs only inside the size loop, on a runnable case of the plan, and    *)
(* the size loop runs only on an existing sub-suite.  Its inductive       *)
(* strengthening.                                                          *)
(***************************************************************************)
SuiteInv ==
    /\ SuiteTypeOK
    /\ pc = "case" => si <= Len(Suites)
    /\ pc \in {"main", "provision", "summary"} => NoCaseRunning
    /\ tpc \in Steps \cup {"done"} => tcase \in Runnable

(***************************************************************************)
(* What a run with a conformant subject and no external failure so far    *)
(* has established at each point of cmd_openssl: the enclave runs from    *)
(* prepare_test_env on; the token is free when a key is to be provisioned *)
(* and holds the sub-suite's key inside the size loop, whose case is of   *)
(* that key; the running case's && chain is still at status 0 with        *)
(* outputs the subject and the reference can make; no case has failed.    *)
(* It strengthens HonestRunAllPass into an inductive invariant.           *)
(***************************************************************************)
HonestRun == fault = "none" /\ opErrors = 0

HonestFacts ==
    /\ num_tests_failed = 0
    /\ pc \in {"provision", "case"} => enclave = "running"
    /\ pc = "provision" /\ si <= Len(Suites) => token = NoKey
    /\ pc = "case" => token = Suites[si].label
    /\ pc = "case" /\ tpc \in Steps => tcase.label = Suites[si].label
    /\ tpc \in Steps => tstatus = 0
    /\ tpc \in {"refGen", "compare", "refCheck", "subjCheck", "negRef",
                "negSubj", "log"} => artA \in SubjectOutputs(tcase)
    /\ tpc \in {"compare", "refCheck", "subjCheck", "negRef",
                "negSubj", "log"} => artB \in ReferenceOutputs(tcase)

HonestInv == SuiteInv /\ (HonestRun => HonestFacts)

(***************************************************************************)
(* test_results_summary reports every runnable case of the plan exactly   *)
(* once: when an invocation reaches the summary, passed + failed is the   *)
(* number of entries of the sub-suites that no skip rule returns from,    *)
(* whatever init-token, the template's external calls or an earlier,      *)
(* interrupted invocation did.                                             *)
(***************************************************************************)
SummaryCountsPlan ==
    pc = "summary" => num_tests_passed + num_tests_failed = Cardinality(RunnableEntries)

(***************************************************************************)
(* What the loops of cmd_openssl have counted so far: within an           *)
(* invocation, the ledger plus the case whose template is running is the  *)
(* number of runnable entries the loops have passed, those of the         *)
(* finished sub-suites and, inside the size loop, those before ci.  The   *)
(* inductive strengthening of SummaryCountsPlan.                          *)
(***************************************************************************)
Visited ==
    {e \in RunnableEntries : e[1] < si \/ (pc = "case" /\ e[1] = si /\ e[2] < ci)}

Running == IF tpc \in Steps THEN 1 ELSE 0

CountInv ==
    /\ SuiteInv
    /\ pc = "main" => si = 1 /\ num_tests_passed = 0 /\ num_tests_failed = 0
    /\ pc = "case" => ci \in 1 .. Len(CurrentCases) + 1
    /\ pc = "summary" => si = Len(Suites) + 1
    /\ pc \in {"provision", "case", "summary"} =>
          /\ IsFiniteSet(Visited)
          /\ num_tests_passed + num_tests_failed + Running = Cardinality(Visited)

(***************************************************************************)
(* The spec (section 6): the process exits with code 2 when one or more   *)
(* tests failed.  main computes that code inside the group piped to tee.  *)
(***************************************************************************)
ExitStatusReflectsFailures ==
    (pc = "exited" /\ num_tests_failed > 0) => exitStatus = EXIT_CODE_FAILED_TESTS

(***************************************************************************)
(* The spec (section 3): a KeyUnderTest is released before the next one   *)
(* is provisioned.  cleanup_key ignores the status of release-token.      *)
(***************************************************************************)
TokenFreeAtProvision ==
    (pc = "provision" /\ si <= Len(Suites)) => token = NoKey

(***************************************************************************)
(* The spec (sections 4.5 and 8): a combination is skipped only when the  *)
(* key cannot do it (PSS: digest length + salt length exceeds the         *)
(* modulus' capacity).  Stated of the next case a size loop handles.      *)
(***************************************************************************)
SkipOnlyInfeasible ==
    (pc = "case" /\ NoCaseRunning /\ ci <= Len(CurrentCases))
        => (Skipped(CurrentCases[ci]) => Infeasible(CurrentCases[ci]))
=============================================================================
