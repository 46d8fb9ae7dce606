--------------------------- MODULE StageContract ---------------------------
(***************************************************************************)
(* What applying the stages of a plan promises, however many threads work  *)
(* on it: a call has its effect at most once, no call of a stage starts    *)
(* before every call of the earlier stages has succeeded, and once the     *)
(* verdict is out the provider is left alone.  The verdict is what the     *)
(* caller learns: the calls that succeeded, or an exception.               *)
(***************************************************************************)
EXTENDS Integers

CONSTANTS
  Tasks,      \* the calls of the plan
  StageOf,    \* [Tasks -> Nat], the stage each call belongs to
  Collected   \* the stages whose successful calls are reported

VARIABLES
  effect,     \* [Tasks -> {"none", "ok", "failed"}]
  verdict,    \* "open", then "ok", "error" or "raised"
  report      \* the calls reported as done

vars == <<effect, verdict, report>>

Init ==
  /\ effect = [t \in Tasks |-> "none"]
  /\ verdict = "open"
  /\ report = {}

Do(t) ==
  /\ verdict = "open"
  /\ effect[t] = "none"
  /\ \A u \in Tasks : StageOf[u] < StageOf[t] => effect[u] = "ok"
  /\ \E result \in {"ok", "failed"} : effect' = [effect EXCEPT ![t] = result]
  /\ UNCHANGED <<verdict, report>>

Return ==
  /\ verdict = "open"
  /\ \/ /\ \A t \in Tasks : effect[t] = "ok"
        /\ verdict' = "ok"
     \/ /\ \E t \in Tasks : effect[t] = "failed"
        /\ verdict' = "error"
  /\ report' = {t \in Tasks : effect[t] = "ok" /\ StageOf[t] \in Collected}
  /\ UNCHANGED effect

Raise ==
  /\ verdict = "open"
  /\ \E t \in Tasks : effect[t] = "failed"
  /\ verdict' = "raised"
  /\ UNCHANGED <<effect, report>>

Next == (\E t \in Tasks : Do(t)) \/ Return \/ Raise

Spec == Init /\ [][Next]_vars
=============================================================================
