----------------------------- MODULE MCSyncRun -----------------------------
(***************************************************************************)
(* Three zones, the last with always_dry_run, and the account; one worker  *)
(* (the caller applies the scopes itself) and two (one scope waits).       *)
(***************************************************************************)
EXTENDS SyncRun

MCDryRun == {3}
=============================================================================
