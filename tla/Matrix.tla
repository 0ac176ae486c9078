------------------------------- MODULE Matrix -------------------------------
(***************************************************************************)
(* The test matrix of src/tests/testtool, `cmd_openssl`: the sub-suites    *)
(* (one per key and per loop of cmd_openssl), the test cases each one      *)
(* enumerates in the order of its nested loops, and the skip rules the     *)
(* test functions apply before calling the differential template.         *)
(*                                                                         *)
(* The value lists of the script (RSA_KEYS, ECDSA_KEYS, TEST_DIGESTS,      *)
(* TEST_RSAPSS_SALT_SIZES, TEST_*_FILE_SIZES) are CONSTANTS so that a      *)
(* model can take a sub-list of each; key labels, the raw-RSA size table   *)
(* and the skip rules are literals of the script and stay definitions.    *)
(***************************************************************************)
EXTENDS Integers, Sequences

CONSTANTS
    RsaKeys,          \* RSA_KEYS: sequence of [label, bytes] (modulus bytes)
    EcKeys,           \* ECDSA_KEYS: sequence of [label, bytes]
    Digests,          \* TEST_DIGESTS: sequence of [name, len] (output bytes)
    RsaPssSaltSizes,  \* TEST_RSAPSS_SALT_SIZES
    LargeFileSizes,   \* TEST_LARGE_FILE_SIZES
    SmallFileSizes,   \* TEST_SMALL_FILE_SIZES
    EcdsaFileSizes    \* TEST_ECDSA_FILE_SIZES

Key == [label : STRING, bytes : Nat]

ASSUME MatrixAssumption ==
    /\ RsaKeys \in Seq(Key)
    /\ EcKeys \in Seq(Key)
    /\ Digests \in Seq([name : STRING, len : Nat])
    /\ RsaPssSaltSizes \in Seq(Nat)
    /\ LargeFileSizes \in Seq(Nat)
    /\ SmallFileSizes \in Seq(Nat)
    /\ EcdsaFileSizes \in Seq(Nat)

(***************************************************************************)
(* The six test functions of the script, by the family directory they     *)
(* write to: signverify/{rsapss,rsa_pkcs,rsa_x509,ecdsa} and               *)
(* encryptdecrypt/{rsa_pkcs,rsa_x509} (here enc_rsa and enc_x509).         *)
(***************************************************************************)
Families == {"rsapss", "rsa_pkcs", "rsa_x509", "ecdsa", "enc_rsa", "enc_x509"}

\* A TestCase: the arguments a test function passes to the template.
TestCase == [family : Families, label : STRING, bytes : Nat,
             size : Nat, dlen : Nat, salt : Nat]

MkCase(f, k, size, dlen, salt) ==
    [family |-> f, label |-> k.label, bytes |-> k.bytes,
     size |-> size, dlen |-> dlen, salt |-> salt]

(***************************************************************************)
(* Raw (x509) RSA operations use one payload size per key, picked by the  *)
(* key's label; a label outside the table runs no raw test.               *)
(***************************************************************************)
RawLabels == {"rsa1024", "rsa2048", "rsa4096"}

RawSize(label) ==
    CASE label = "rsa1024" -> 128
      [] label = "rsa2048" -> 256
      [] label = "rsa4096" -> 512

RawCases(f, k) ==
    IF k.label \in RawLabels THEN << MkCase(f, k, RawSize(k.label), 0, 0) >>
                             ELSE << >>

(***************************************************************************)
(* The nested loops `for fsize; for digest; for slen` of the RSA-PSS      *)
(* block, flattened in loop order: index i - 1 written in the mixed radix *)
(* (sizes, digests, salts).                                               *)
(***************************************************************************)
PssCases(k) ==
    LET D == Len(Digests)
        S == Len(RsaPssSaltSizes)
    IN  [i \in 1 .. Len(LargeFileSizes) * D * S |->
            MkCase("rsapss", k,
                   LargeFileSizes[(i - 1) \div (D * S) + 1],
                   Digests[(((i - 1) \div S) % D) + 1].len,
                   RsaPssSaltSizes[((i - 1) % S) + 1])]

PkcsCases(k) ==
    LET D == Len(Digests)
    IN  [i \in 1 .. Len(LargeFileSizes) * D |->
            MkCase("rsa_pkcs", k,
                   LargeFileSizes[(i - 1) \div D + 1],
                   Digests[((i - 1) % D) + 1].len, 0)]

EcdsaCases(k) ==
    [i \in 1 .. Len(EcdsaFileSizes) |-> MkCase("ecdsa", k, EcdsaFileSizes[i], 0, 0)]

EncCases(k) ==
    [i \in 1 .. Len(SmallFileSizes) |-> MkCase("enc_rsa", k, SmallFileSizes[i], 0, 0)]

(***************************************************************************)
(* The sub-suites of cmd_openssl in execution order: one per RSA key for  *)
(* signing, one per EC key, one per RSA key for encryption.  Each is run  *)
(* between a provision_key and a cleanup_key of its key.                  *)
(***************************************************************************)
Suite(k, cases) == [label |-> k.label, cases |-> cases]

Suites ==
    [i \in 1 .. Len(RsaKeys) |->
        Suite(RsaKeys[i], PssCases(RsaKeys[i]) \o PkcsCases(RsaKeys[i])
                              \o RawCases("rsa_x509", RsaKeys[i]))]
    \o [i \in 1 .. Len(EcKeys) |-> Suite(EcKeys[i], EcdsaCases(EcKeys[i]))]
    \o [i \in 1 .. Len(RsaKeys) |->
        Suite(RsaKeys[i], EncCases(RsaKeys[i]) \o RawCases("enc_x509", RsaKeys[i]))]

PlanCases == UNION {{Suites[s].cases[j] : j \in 1 .. Len(Suites[s].cases)} :
                    s \in 1 .. Len(Suites)}

Labels == {Suites[s].label : s \in 1 .. Len(Suites)}

(***************************************************************************)
(* Skip rules: the early `return` of test_openssl_digestsignverify_rsapss *)
(* and of test_openssl_encryptdecrypt_rsa.  A skipped case is not run and *)
(* not logged.                                                            *)
(***************************************************************************)
\* Variant of the PSS skip rule with the wrong salt size.
RsaPssSkipped48(c) == c.label = "rsa1024" /\ c.salt = 48

RsaPssSkipped(c) == c.label = "rsa1024" /\ c.salt = 64

EncSkipped(c) == c.label = "rsa1024" /\ c.size = 128

Skipped(c) ==
    \/ c.family = "rsapss" /\ RsaPssSkipped(c)
    \/ c.family = "enc_rsa" /\ EncSkipped(c)

Runnable == {c \in PlanCases : ~Skipped(c)}

\* The positions <<sub-suite, case>> the loops visit, and those whose test
\* function does not return on a skip rule.
PlanEntries == UNION {{<<s, j>> : j \in 1 .. Len(Suites[s].cases)} : s \in 1 .. Len(Suites)}

RunnableEntries == {e \in PlanEntries : ~Skipped(Suites[e[1]].cases[e[2]])}

(***************************************************************************)
(* What the providers can do at all (RFC 8017), independent of the        *)
(* script: PSS needs hLen + sLen + 2 <= emLen, PKCS#1 v1.5 encryption     *)
(* takes at most k - 11 bytes, raw RSA takes exactly k bytes.  Both the   *)
(* subject and the reference fail the generating operation otherwise.     *)
(***************************************************************************)
Infeasible(c) ==
    \/ c.family = "rsapss" /\ c.dlen + c.salt + 2 > c.bytes
    \/ c.family = "enc_rsa" /\ c.size + 11 > c.bytes
    \/ c.family \in {"rsa_x509", "enc_x509"} /\ c.size # c.bytes

\* The skip rules leave no case of the plan that the providers cannot do.
PlanFeasible == \A c \in Runnable : ~Infeasible(c)
=============================================================================
