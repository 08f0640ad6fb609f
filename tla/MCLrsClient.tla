----------------------------- MODULE MCLrsClient -----------------------------
(* Small instances of LrsClient.                                           *)
EXTENDS LrsClient
=============================================================================
