# TLA+ models of the ACM for Nitro Enclaves streamline app and its test tool

This directory holds TLA+ specifications of two parts of the repository:
- the PKCS#11 conformance test tool `src/tests/testtool`;
- the CDK app that deploys ACM for Nitro Enclaves (`src/cdk`, its validator in `src/unnamed/part_001`, and the legacy stacks in `src/streamline`).

It also holds the TLC configurations that model-check them and TLAPS proofs.
The test tool is described first, then the CDK app.

`testtool openssl` is a differential conformance harness. For each key and
each case it signs or encrypts a random payload twice:

- the **subject** is the enclave's PKCS#11 engine (`-engine pkcs11`, key URI
  `token=test-token`);
- the **reference** is openssl with the key file.

Each side then checks the other's output. For a non-empty payload, each side
also checks that the other's output fails against a corrupted copy of the
payload. Each case is logged PASSED or FAILED, and the script ends with a
summary and an exit status.

## Inventory

| Part of the system | Source | Module | Status |
|---|---|---|---|
| Differential template and ledger (`testtemplate_generate_check`, `log_test_result`, comparators) | src/tests/testtool 190–217, 578–702 | `DiffTest` | modelled |
| Test matrix (`cmd_openssl` loops, raw-size table, skip rules) | 21–37, 659–775, 877–956 | `Matrix` | modelled |
| Orchestration (`main`, `prepare_test_env`, `provision_key`, `cleanup_key`, `cleanup_test_env`, `die`) | 777–873, 1002–1061 | `Testtool` | partly: the x509 export block and argument parsing are missing |
| openssl / engine helpers | 219–569 | `DiffTest` (abstracted) | by effect only |
| x509 certificate export tests (`create_test_certs`, `provision_key_w_cert`, p11tool) | 128–188, 833–856, 958–994 | — | not yet |
| ConfigValidator | src/unnamed/part_001 | `ConfigValidator` | modelled |
| CDK app (`NitroEnclavesAcmStreamline`) and its CertificateStack, RoleStack and InstanceStack | src/cdk/src/config/types.ts, src/cdk/src/lib | `Streamline`, `DeployAbstract`, `StreamlineProofs` | modelled; outputs, VPC lookup and CPU type left out |
| Legacy single-certificate RoleStack and InstanceStack | src/streamline/src/lib | `LegacyStreamline` | partly: the app that drove them is not in the repository |
| User-data scripts, devtool, README/acm.yaml | src/cdk/src/assets, src/tools, src/unnamed | — | not modelled |

The last row is shell text, build tooling and configuration data. None of it
has a state machine for TLC to explore. What getUserData composes from the
scripts is modelled in `Streamline`.

## Modules

- **`Matrix`** holds the plan and the skip rules.
  - The script's value lists (`RSA_KEYS`, `TEST_DIGESTS`, and so on) are CONSTANTS. Each key is given by its modulus size in bytes, each digest by its output length.
  - `Suites` lists the sub-suites in execution order: for each RSA key, its PSS, PKCS#1 and raw signing cases; then each EC key; then each RSA key's encryption cases. The nested loops are flattened in loop order.
  - `RsaPssSkipped` and `EncSkipped` are the early `return`s of the test functions.
  - `Infeasible` is what RFC 8017 allows. It is a property of the providers, not of the script.
- **`DiffTest`** runs one case of the template.
  - `tpc` is the position in the `&&` chain, and `tstatus` is its status so far. There is one action per step, from `GenInput` to `NegativeSubjectCheck`, then `LogTestResult`.
  - A failing step jumps to `"log"` with status 1, because the chain short-circuits.
  - Files are abstracted to records `[over, nonce]`: the output was made over the input or over garbage, with the nonce its padding drew.
  - The subject's behaviour `fault` is one of `none`, `badArtifact` (it produces a wrong output) or `acceptAll` (its verifier accepts anything).
  - Any external command may fail, at most `MaxOpErrors` times per run.
  - `SubjectReady` models the key URI: the enclave is running and the token holds the case's key.
- **`Testtool`** extends `DiffTest` with the script around the template.
  - It has one action each for `prepare_test_env`, `provision_key`, one step of a size loop (`StartCase`, with the skip rules), `cleanup_key`, `cleanup_test_env` and the summary.
  - `Die` models `die` inside the piped group.
  - The enclave and its token outlive a process. `Crash` interrupts an invocation anywhere, and `Restart` runs the script again with a fresh ledger, at most `MaxRuns` times.
  - `PipelineStatus(left, right) == right` is the rule bash uses for a pipeline without `pipefail`.
- **`DiffTestProofs`** holds the TLAPS proofs about `DiffTest`, and **`TesttoolProofs`** those about the whole suite.
- **`MC_DiffTest`** and **`MC_Testtool`** give the constants small values for TLC.

## Runs

| Run | Checks | Result |
|---|---|---|
| `difftest_pass` (`MC_DiffTest.cfg`) | `TypeOK`, `VerdictSound`, `NoFalseAlarm`, `ChainInv` | pass, 5,984 states |
| `difftest_negative_masked` (`MC_DiffTest_negmask.cfg`) | `NegativePathSound` | violated |
| `testtool_pass` (`MC_Testtool.cfg`) | `SuiteTypeOK`, `HonestRunAllPass`, `SummaryCountsPlan` | pass, 9,216 states |
| `difftest_inductive` (`MC_DiffTest_inductive.cfg`) | `CleanInv` | pass, 5,984 states |
| `testtool_inductive` (`MC_Testtool_inductive.cfg`) | `CountInv`, `HonestInv` | pass, 9,216 states |
| `testtool_exit_status` | `ExitStatusReflectsFailures` | violated |
| `testtool_release_ignored` | `TokenFreeAtProvision` | violated |
| `testtool_pss_overskip` | `SkipOnlyInfeasible` | violated |

What the passing properties say:

- **`VerdictSound`**: a PASSED case means all of these:
  - the subject's generation produced a genuine output over the input;
  - the case was feasible;
  - the token held the case's key;
  - if the payload was non-empty and no external failure happened, the subject's verifier is not accept-all.
- **`NoFalseAlarm`**: a conformant subject with its key provisioned is never failed on a feasible case, whatever nonces the randomised schemes draw. This is what the choice of comparator per family must guarantee.
- **`HonestRunAllPass`**: over a whole invocation with no external failure, a conformant subject gets no FAILED line. This holds even when an earlier interrupted invocation left the enclave running with a key in the token. Seen from the end result, it checks the skip rules and the raw-size table against feasibility.
- **`SummaryCountsPlan`**: when an invocation reaches `test_results_summary` (testtool:216), passed + failed equals the number of runnable entries of the plan. Each runnable case is counted exactly once, even though:
  - the skip rules return before `log_test_result` (712, 748);
  - a failed `init-token` lets its sub-suite run anyway (829);
  - external errors stop the `&&` chain part-way through;
  - an interrupted earlier invocation left its own counts behind.

  The mutant that counts a failed case as passed as well breaks it.
- **`CleanInv`**, **`CountInv`** and **`HonestInv`** are the inductive invariants the proofs below rest on. They have their own runs, so that TLC checks each one on the small instance before it is proved.

The violation runs are the findings in `PROJECT.json`:

- **Exit status lost.** The exit code 2 disappears through `| tee`, so the script exits 0 after failed tests.
- **Release status ignored.** A failed `release-token` leaves the single test token holding the previous key, and the next key's `init-token` failure is ignored too.
- **PSS skip too broad.** The skip rule drops feasible rsa1024 salt-64 cases for every digest, not only sha512.
- **Negative check masked.** `!` counts a checker error as a rejection, so an accept-all verifier can pass.

Each property of a passing run has a mutant in `PROJECT.json`: a variant of a
mapped definition that models a plausible bug. The variants sit in the modules
just before the definition they replace. Under the run's own configuration,
TLC must find each one violating its property.

### Bounds

The sizes below are what make the interesting cases happen; smaller values
would miss some of them.

- **`MC_DiffTest`**
  - Keys: rsa1024 (128 bytes), rsa2048 (256 bytes) and prime256v1.
  - Digests: sha1 and sha512. Salts: 0 and 64.
  - Large payload sizes 0 and 32, small sizes 64 and 128, ECDSA size 32.
  - These make PSS infeasible exactly for rsa1024 with sha512 and salt 64, and encryption infeasible for rsa1024 at 128 bytes.
  - Every family, both payload paths (empty and non-empty), every fault, every enclave and token state, and one external failure at any step are all explored.
- **`MC_Testtool`**
  - One RSA key (rsa1024) and one EC key, so there are three sub-suites.
  - Digests sha256 and sha512, so the PSS skip rule covers both a feasible and an infeasible combination.
  - Two invocations (`MaxRuns = 2`), so an interrupted run can be followed by a recovering one.
  - One external failure, so every ignored and every fatal status is reached.

### Fairness

`Spec` assumes weak fairness of the template's steps. `SuiteSpec` assumes weak
fairness of the script's own steps. The script is a single sequential process,
so as long as each external command returns it takes its next step. `Crash` and
`Restart` are not fair: an interruption and a new invocation are up to the
operator. No liveness property of the suite is checked. Every loop of `cmd_openssl`
is a `for` over a fixed list, so an invocation ends whenever its external
commands return; a hung command is outside the model. Deadlock is checked: a finished invocation stutters only through
`Terminated`, and a finished case only through `Finished`.

## Proofs (TLAPS, `DiffTestProofs`, `TesttoolProofs`)

These hold for every value of the constants that satisfies `MatrixAssumption`,
`DiffTestAssumption` and `TesttoolAssumption`.

- **`TypeCorrect`**: `Spec => []TypeOK`, including the ledger's consistency (exactly one counter is incremented, once).
- **`ChainInvariant`**: `Spec => []ChainInv`. `ChainInv` is `TypeOK` plus three facts that the passed steps of the `&&` chain leave behind:
  - `Generated`: the subject's output is one it can make, it made it with the key in the token, and the case was feasible;
  - `RefChecked`: the reference accepted that output over the input;
  - `NegChecked`: the subject rejected the corrupted payload.

  Each fact is created by the step that checks it. No later step undoes it, because a step either passes the status on unchanged or sets it to 1.
- **`VerdictSoundness`**: `Spec => []VerdictSound`. This follows from `ChainInv`. `VerdictSound` alone is not inductive: it speaks only of finished cases, and the induction needs the facts above for the cases still running.
- **`NoFalseAlarmTheorem`**: `Spec => []NoFalseAlarm`. It uses the inductive invariant `CleanInv`, proved on its own as **`CleanInvariant`** (`Spec => []CleanInv`). On a clean case (no fault, no external failure, the key in the token, a feasible case), `CleanInv` says:
  - the status is 0;
  - the subject's artifact is one a conformant signer makes;
  - the reference's artifact is one the reference makes.

  Two lemmas carry the step:
  - `ConformantOutputs`: a fault-free subject makes exactly the reference's outputs;
  - `ComparatorAcceptsConformant`: each family's comparator accepts any two conformant outputs. This covers the salt-0 PSS self-diff and the `true` comparator of the randomised schemes.

  An external failure makes the case unclean, so it never has to be carried.
- **`SuiteInvariant`** and **`SuiteTypeCorrect`**: `SuiteSpec => []SuiteInv` and `SuiteSpec => []SuiteTypeOK`, across crashes and restarts. `SuiteInv` adds these facts to the types:
  - the case loop's index stays within the plan;
  - no case is running outside the case loop;
  - a running case is a runnable case of the plan.

  The last fact needs the plan itself. The lemmas `CasesOfKey`, `SuitesOK` and `SuiteFacts` prove that every case of a key's sub-suite carries that key's label. `MixedRadix` and `MixedRadix2` prove that the flattened nested loops index within their bounds.
- **`HonestRunsPass`**: `SuiteSpec => []HonestRunAllPass`. It uses the inductive invariant `HonestInv`, proved on its own as **`HonestInvariant`** (`ASSUME PlanFeasible PROVE SuiteSpec => []HonestInv`). `HonestInv` is `SuiteInv` plus what an honest run keeps (no fault, no external failure):
  - no failure has been logged;
  - the enclave runs in the case loop;
  - the token is free after `prepare_test_env` and holds the sub-suite's key in its cases;
  - the running case's artifacts are conformant.

  It has one hypothesis, `PlanFeasible`: the skip rules leave no infeasible case in the plan. This is a fact about the constants, not about the code, and the rsa1024 salt-64 finding shows it can fail. `MC_Testtool` states it as `ASSUME MCPlanFeasible`, which TLC evaluates for the checked matrix. The theorem is `ASSUME PlanFeasible PROVE ...` rather than an assumption on the constants, so that a matrix where the skip rules leave too much is not covered silently.
- **`SummaryCounts`**: `SuiteSpec => []SummaryCountsPlan`, for every test matrix. It rests on the inductive invariant `CountInv`, proved as `CountInvariant`. `CountInv` says that, within an invocation, the ledger plus the running case (`Running`) equals the number of runnable entries the loops have passed (`Visited`): those of the finished sub-suites and, in the size loop, those before `ci`.
  - A step of the size loop adds its entry to `Visited` exactly when it starts a template, because a skipped entry is not runnable.
  - `log_test_result` moves the case from `Running` into the ledger.
  - `cleanup_key` and `cleanup_test_env` move the loop position without changing the set.

  `CountInv` also carries `IsFiniteSet(Visited)`. The library's finiteness lemmas for images and unions take an operator parameter, which the provers cannot instantiate. Finiteness therefore follows from `FS_AddElement`, one step at a time. `SummaryCountsPlan` alone is not inductive, because it says nothing before the summary.

TLC checked each inductive invariant (`ChainInv`, `CleanInv`, `CountInv`, `HonestInv`, and `SuiteInv` as a conjunct of the last two) as an invariant of a run before it was proved.


## The CDK app

`NitroEnclavesAcmStreamline` (src/cdk/src/config/types.ts) works in this order:
1. Its constructor runs `validateEnv`.
2. `deploy()` runs `createCertificateStack`:
   - it first pushes the certificates that have an `existingCertificateArn`;
   - only if some certificate has no ARN does it run `validateCertificateStack` and build a `CertificateStack` for those;
   - it then pushes each created ARN with `certificatesToCreate[index]`.
3. `createRoleStack` builds a `RoleStack` over all the ARNs: one association per certificate, with an S3 and a KMS grant each.
4. `createInstanceStack` runs `validateInstanceStack` and builds an `InstanceStack`. Its user data gives each certificate an acm.yaml label (the ARN) and a web-server stanza (the domain) with the same index.
5. `instanceStack.addDependency(roleStack)`.

Any of these steps may throw, which ends synthesis.

### Modules

- **`ConfigValidator`** holds the configuration types and the four validators, as predicates. `NoValue` is an absent optional field, and `Truthy` is JavaScript's `!x` test.
- **`Streamline`** models the app.
  - `phase` runs from `"new"` through `"done"`, or to `"failed"`.
  - `config` is the configuration, chosen from `Configs` in `Init`.
  - `certificates` is the app's array.
  - `certStack`, `roleStack` and `instanceStack` are what each constructor declares: construct ids, validation methods, associations, policy statements, ports, image and user data.
  - There is one action per step of `deploy()`. Each action includes its validation, its throws and the constructor it calls.
  - A created certificate's ARN is a token named after its construct.
  - `createCertificateStack` selects the configured certificates twice: with a `forEach` and an `if` for the existing ones, and with a `filter` for the ones to create. Both selections are `Pick(s, I)`, the elements of `s` at the indexes in `I`, in order, written as a recursive function rather than with `SelectSeq`, so that the provers can unfold it.
  - `StreamlineAssumption` gives the constants the field types of types.ts: strings, optional strings (`OptString`), a boolean `isPrivate`, and a natural bound on the number of certificates.
  - Assumption about the external constructs library: an empty or repeated construct id throws. `ConstructIdsOK` and `AppIds` carry this rule.
- **`DeployAbstract`** is what a deployment promises, in one step. A configuration is either rejected, or deployed. A deployed configuration is one the validators admit, its instance serves exactly the configured ⟨domain, certificate⟩ pairs, and its role is granted exactly those certificates. Which admissible configurations are rejected is left open.
- **`LegacyStreamline`** models the single-certificate stacks of `src/streamline`. Their constructors are actions over props drawn from small sets, and the role stack is built first because the instance imports its `roleArn`. Through `INSTANCE Streamline`, their declarations are compared with those of the new stacks.
- **`StreamlineProofs`** and **`LegacyStreamlineProofs`** hold the TLAPS proofs about the app and the legacy comparison.
- **`MC_Streamline`** and **`MC_LegacyStreamline`** give the constants small values. The refinement mapping sits at the end of `Streamline`, so that the proofs can use it:
  - `phase` maps to the abstract outcome;
  - the user data's label/stanza pairs map to `served`;
  - the associations with both grants in the app's region map to `granted`.

### Runs

| Run | Checks | Result |
|---|---|---|
| `streamline_pass` (`MC_Streamline.cfg`) | `DeployInv`, `TypeOK`, `CreatedAsRequested`, `RoleCoversServedCerts`, `AbstractDeploy` | pass, 1,691,164 states, about 35 s |
| `streamline_duplicate_domains` | `DistinctServedDomains` | violated |
| `streamline_unnamed_certificate` | `AcceptedConfigSynthesizes` | violated |
| `legacy_equivalence` (`MC_LegacyStreamline.cfg`) | `LInv`, `LegacyRoleMatches`, `LegacyInstanceMatches` | pass, 146 states |

- **`CreatedAsRequested`**: every certificate the stack declares uses the validation its configuration asks for (Route 53 DNS, DNS, e-mail or a PCA). The constructor falls back to e-mail validation, and only the validator keeps it from doing so for a certificate that asked for nothing.
- **`RoleCoversServedCerts`**: the k-th certificate the instance's ACM agent fetches is the role's k-th association, with its S3 and KMS grants.
- **`AbstractDeploy`** (`Abs!ASpec`): `Streamline` implements `DeployAbstract` under weak fairness of `deploy()`'s steps. deploy() is one sequential call, so once started it runs to its end or to its first throw. This covers:
  - the pairing of created ARNs with their domains when existing and new certificates are mixed;
  - that only admissible configurations deploy;
  - that every deployment ends.
- **`LegacyRoleMatches`** and **`LegacyInstanceMatches`**: for one certificate, the new stacks keep the legacy stacks' association, grants (the KMS grant in the same region), ports (with SSH allowed), image generation and served certificate.

The two findings:

- **Duplicate domains accepted.** When every certificate has an existing ARN, `validateCertificateStack` is never called (types.ts:78). Two certificates for one domain then reach the web server as two stanzas with the same server name.
- **Unnamed certificate.** `certificateName` is optional and not validated, yet it is the certificate's construct id (certificate-stack.ts:35/40/46). A configuration every validator accepts then throws at synthesis.

Bounds for `MC_Streamline`:
- up to two certificates, over:
  - two names and two domains;
  - public or private;
  - a hosted zone or none;
  - validationType absent, DNS or EMAIL;
  - a PCA or none;
  - an existing ARN or none;
- a valid instance configuration and one without a key pair;
- a complete environment and one without a region;
- a certificate stack name that is absent or collides with the role stack's default id, and an instance stack name that is absent or empty.

These bounds reach every branch of the validators and of the constructor's validation choice, mixed existing and new certificates in both orders, and every throw of `deploy()`. `DestroySubcommand` is FALSE: with `cdk destroy` the validators are bypassed on purpose.

### Proofs (TLAPS, `StreamlineProofs`)

- **`RoleCoversServed`**: `Spec => []RoleCoversServedCerts`, for every value of the constants. It rests on the inductive invariant `CoverInv`, proved as `CoverInvariant`. `CoverInv` states, phase by phase:
  - there is no instance stack before `createInstanceStack`;
  - from `createRoleStack` on, the role stack is `RoleStack` over the whole `certificates` array;
  - from `createInstanceStack` on, the user data is built over that same array.

  `RoleCoversServedCerts` alone is not inductive, because it says nothing about the role stack before the instance exists. `CoverInv` holds because `certificates` and `config` do not change after the certificate step.
- **`AdmittedCreatedAsRequested`**: for every string value of the fields, a certificate `validateCertificateStack` admits for creation is declared with the validation it asks for, and a private one with its CA.
- **`DeployInvariant`**: `Spec => []DeployInv`. `DeployInv` is the inductive invariant of the whole synthesis. It says:
  - the environment was validated once the constructor returned;
  - from `createCertificateStack` on, `certificates` is `Existing(certs) \o NewEntries(certs, Made(ToCreate(certs)))`, the existing entries followed by the created ones;
  - a certificate stack exists only if some certificate lacked an ARN and `validateCertificateStack` passed, and it declares `Made(ToCreate(certs))`;
  - an instance stack exists only if `validateInstanceStack` passed.

  TLC checks it on `streamline_pass`, listed first there. The mutant that drops `validateCertificateStack` breaks it.
- **`CreatedAsRequestedTheorem`**: `ASSUME ~DestroySubcommand PROVE Spec => []CreatedAsRequested`. Every certificate of the stack comes from `ToCreate`, so it has no ARN and passed the validator. `AdmittedCreatedAsRequested` then gives its validation. The lemma `PickElems` says which elements `Pick` selects.
- **`Refinement`**: `Spec => Abs!AInit /\ [][Abs!ANext]_Abs!avars`, the safety part of `AbstractDeploy`. The step lemma `RefineStep` uses `DeployInv`, `CoverInv` and `CoverInv'`. Its cases:
  - a throw maps to `Rejected`;
  - the other calls before `addDependency` map to stutters, because the mapped outcome stays pending and nothing is served;
  - `addDependency` maps to `Deployed`.

  For `Deployed`, three lemmas carry the argument:
  - `AdmissibleConfig`: the validators `DeployInv` records give `Admissible`;
  - `CertificatesElems`: `certificates` holds exactly one entry per configured certificate, with the existing ARN or the created one (`CfgEntries`);
  - `PairsOfEntries`, with `CoverInv`'s user data and role stack: the served pairs and the granted ARNs are then `ConfiguredPairs` and `ConfiguredArns`.

  `AbsValidators` shows that the validators seen through the instance are the ones `Streamline` uses.

Induction over sequence indexes is done without an operator parameter. `SetInduction` says that a set of naturals holding 0 and closed under successor holds every natural. It is proved from the least-element property in `WellFoundedInduction` (`WFMin`, `NatLessThanWellFounded`). `PickFnDef` uses it to show that `Pick`'s recursive function exists and satisfies its equation, and `PickElems` to show what `Pick` returns.

### Proofs (TLAPS, `LegacyStreamlineProofs`)

- **`LInvariant`**: `LSpec => []LInv`. `LInv` says that the legacy stacks are declared role first, and only from props that pass the legacy constructors' checks.
- **`RoleMatches`** and **`InstanceMatches`**: `LSpec => []LegacyRoleMatches` and `LSpec => []LegacyInstanceMatches`, for every props, not only the ones TLC enumerates. Each rests on a step that compares the two constructors on arbitrary props.

### What stays with TLC

- **`TypeOK` of `Streamline`.** A created certificate's ARN is `"arn:acm:" \o name`, and `TypeOK` says every ARN in `certificates` is a `STRING`. The provers have no facts about concatenating strings: even `"arn:acm:" \o n \in STRING` for `n \in STRING` fails. The other conjuncts of `TypeOK` follow from `DeployInv`.
- **The liveness part of `AbstractDeploy`** (`WF_avars(ANext)`: every deployment ends). It is liveness under fairness, and it needs `ENABLED`.

### Not modelled in the CDK app

- CfnOutput values.
- The default-VPC lookup.
- The ARM/x86 choice, which is a lookup of the instance type in the CDK library.
- The text of the user-data scripts. Only `AL2023/NGINX/acm/label.sh` and an older `AL2/NGINX/conf.sh` are in the repository.
- The default configurations, which are data.

## Plan for later work

1. Model the x509 certificate export block (`create_test_certs`, `provision_key_w_cert`, the p11tool tests and their inverted negative test) as actions of `Testtool`.
2. Write an abstract specification of a test-suite run (a set of cases each judged PASSED or FAILED, then an exit status), and show that `Testtool` refines it with `INSTANCE ... WITH`.
