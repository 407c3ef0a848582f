------------------------ MODULE MCCredentialJournal ------------------------
(* Instances of CredentialJournal for TLC.                                 *)
EXTENDS CredentialJournal
=============================================================================
