-------------------------- MODULE MCVaultProvider --------------------------
(* Instances of VaultProvider for TLC.  "cyberark" is not among them: its   *)
(* lookups take the steps of "token", but for the missing token.            *)
EXTENDS VaultProvider

CONSTANTS w1, w2

MCConfigs == <<"approle", "token">>
=============================================================================
