---------------------------- MODULE MC_DiffTest ----------------------------
(***************************************************************************)
(* DiffTest on a sub-matrix of the script's lists: two RSA keys (one of   *)
(* them rsa1024, which the skip rules name), one EC key, the shortest and *)
(* the longest digest, no salt and the largest salt, an empty and a       *)
(* non-empty payload, and encryption sizes on both sides of rsa1024's     *)
(* capacity.                                                              *)
(***************************************************************************)
EXTENDS DiffTest

MCRsaKeys == << [label |-> "rsa1024", bytes |-> 128],
                [label |-> "rsa2048", bytes |-> 256] >>
MCEcKeys == << [label |-> "prime256v1", bytes |-> 32] >>
MCDigests == << [name |-> "sha1", len |-> 20], [name |-> "sha512", len |-> 64] >>
MCSalts == << 0, 64 >>
MCLargeSizes == << 0, 32 >>
MCSmallSizes == << 64, 128 >>
MCEcdsaSizes == << 32 >>
=============================================================================
