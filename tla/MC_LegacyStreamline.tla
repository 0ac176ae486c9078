------------------------ MODULE MC_LegacyStreamline ------------------------
(***************************************************************************)
(* The legacy stacks with props that are complete or lack each required   *)
(* field, a valid and an invalid server type, both AMI types and both     *)
(* ways of naming the role and the instance.                              *)
(***************************************************************************)
EXTENDS LegacyStreamline

MCRoleProps ==
    [roleName : {NoValue, "AcmneRole"}, certificateArn : {NoValue, "arn-1", "arn-2"},
     region : {NoValue, "eu-west-1", "us-east-1"}]

MCInstanceProps ==
    [instanceName : {NoValue, "AcmneInstance"}, roleArn : {NoValue},
     keyPairName : {NoValue, "kp"}, serverType : {"NGINX", "APACHE", "IIS"},
     amiType : {"AL2", "AL2023"}, instanceType : {NoValue, "c5.xlarge"},
     certificateArn : {"arn-1", "arn-2"}, domainName : {"a.example", "b.example"}]
=============================================================================
