----------------------------- MODULE MCTaskPool -----------------------------
(***************************************************************************)
(* A stage of four calls (creates, not reported), an empty stage, a stage  *)
(* of one call (which the caller makes itself) and a stage of two.  With   *)
(* two workers: a full pool with calls waiting, results out of order, a    *)
(* stage skipped.  With one: the sequential path.                          *)
(***************************************************************************)
EXTENDS TaskPool

MCStageOf == <<1, 1, 1, 1, 3, 4, 4>>
MCCollected == {2, 3, 4}
=============================================================================
