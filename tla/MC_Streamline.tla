--------------------------- MODULE MC_Streamline ---------------------------
(***************************************************************************)
(* Streamline on configurations of at most two certificates, drawn from   *)
(* two names, two domains, both kinds, a hosted zone or none, every       *)
(* validationType case, a PCA or none and an existing ARN or none; a      *)
(* valid and an invalid instance config; a complete and an incomplete     *)
(* environment; and stack names that use the defaults, the empty string  *)
(* or collide with another stack's default id.                            *)
(***************************************************************************)
EXTENDS Streamline

MCCertConfigs ==
    CertificateConfig({"c1", "c2"}, {"a.example", "b.example"}, {NoValue, "Z1"},
                      {NoValue, "DNS", "EMAIL"}, {NoValue, "pca-1"},
                      {NoValue, "arn-1"})

\* Configurations whose certificates may lack a certificateName.
MCCertConfigsUnnamed ==
    CertificateConfig({NoValue, "c1"}, {"a.example"}, {NoValue},
                      {"DNS"}, {NoValue}, {NoValue})

\* Public certificates that all exist already, over one domain.
MCCertConfigsExisting ==
    CertificateConfig({"c1"}, {"a.example"}, {NoValue}, {NoValue}, {NoValue},
                      {"arn-1", "arn-2"})

MCInstanceConfigs ==
    {[serverType |-> "NGINX", amiType |-> "AL2", keyPairName |-> "kp",
      instanceType |-> "c5.xlarge", encryptVolume |-> TRUE, allowSSHPort |-> FALSE],
     [serverType |-> "APACHE", amiType |-> "AL2023", keyPairName |-> NoValue,
      instanceType |-> "m6g.large", encryptVolume |-> FALSE, allowSSHPort |-> TRUE]}

MCEnvs ==
    {[region |-> "eu-west-1", account |-> "111122223333"],
     [region |-> NoValue, account |-> "111122223333"]}

MCCertStackNames == {NoValue, "RoleStack"}
MCInstanceStackNames == {NoValue, ""}

=============================================================================
