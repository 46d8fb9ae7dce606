---------------------------- MODULE MCPlanFetch ----------------------------
(***************************************************************************)
(* Two extensions, three phases and up to two background fetches; one      *)
(* worker (the phases wait for each other) and two (one phase waits).      *)
(***************************************************************************)
EXTENDS PlanFetch

MCHooks == {1, 2}
MCFetches == {3, 4, 5}
MCBackgrounds == {{}, {6}, {6, 7}}
=============================================================================
