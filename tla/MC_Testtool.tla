---------------------------- MODULE MC_Testtool ----------------------------
(***************************************************************************)
(* Testtool on a sub-matrix: rsa1024 (the key the skip rules name) and    *)
(* one EC key, so that the run goes through an RSA signing sub-suite, an  *)
(* ECDSA one and an RSA encryption one, releasing and provisioning the    *)
(* one token between them; sha256 and sha512 with salts 0 and 64, so     *)
(* that both a feasible and an infeasible PSS combination meet the skip   *)
(* rule; encryption sizes on both sides of rsa1024's capacity.            *)
(***************************************************************************)
EXTENDS Testtool

MCRsaKeys == << [label |-> "rsa1024", bytes |-> 128] >>
MCEcKeys == << [label |-> "prime256v1", bytes |-> 32] >>
MCDigests == << [name |-> "sha256", len |-> 32], [name |-> "sha512", len |-> 64] >>
MCSalts == << 0, 64 >>
MCLargeSizes == << 0, 32 >>
MCSmallSizes == << 64, 128 >>
MCEcdsaSizes == << 32 >>

\* The sub-matrix is one whose runnable cases the providers can all do, as
\* the theorem HonestRunsPass of TesttoolProofs requires.
ASSUME MCPlanFeasible == PlanFeasible
=============================================================================
