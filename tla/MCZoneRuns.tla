----------------------------- MODULE MCZoneRuns -----------------------------
(***************************************************************************)
(* Two phases planned and written together: phases not declared, not       *)
(* selected or not fetched, thresholds with and without --force, failed    *)
(* fetches and writes, outside edits, and the command run again.           *)
(***************************************************************************)
EXTENDS ZonePhases

CONSTANTS r1, r2, b1, b2, p1, p2

Managed(ref, body) == [ref |-> ref, body |-> body, ignored |-> FALSE, targeted |-> TRUE]
Ignored(ref) == [ref |-> ref, body |-> b1, ignored |-> TRUE, targeted |-> TRUE]
Elsewhere(ref) == [ref |-> ref, body |-> b1, ignored |-> FALSE, targeted |-> FALSE]
Live(ref, body) == [ref |-> ref, body |-> body, form |-> "api"]

MCFileLists ==
  {<<>>, <<Managed(r1, b2), Ignored(r2)>>, <<Managed(r2, b1), Managed(r1, b1)>>,
   <<Elsewhere(r1), Managed(r2, b2)>>}
MCLiveLists ==
  {<<>>, <<Live(r1, b1), Live(r2, b1)>>, <<Live(r2, b2), Live(NoRef, b1), Live(r1, b2)>>}
MCDriftLists == {<<Live(r2, b2)>>}
MCNoLists == {}

MCSelections == {Phases, {p1}}
MCExcludes == {{}}
=============================================================================
