---------------------------- MODULE MCVaultUpload ----------------------------
(* Instances of VaultUpload for TLC: all uploads have one content.           *)
EXTENDS VaultUpload

MCContent == [u \in Uploads |-> "photo"]
=============================================================================
