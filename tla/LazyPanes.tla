------------------------------ MODULE LazyPanes ------------------------------
(***************************************************************************)
(* What the panes promise whoever opens their tab (LoadState, app.rs), with *)
(* no word of channels, of the worker or of the server: a pane asks when it *)
(* is first opened or reloaded, says loading only while an answer is due,   *)
(* takes its state from an answer that was due, says at once that it could  *)
(* not ask, and never goes back to not having been opened.  Answers of one  *)
(* pane may come more often than one: every reload asks once more.          *)
(***************************************************************************)
CONSTANT Panes

VARIABLES
  shown, \* the state of each pane
  due    \* the panes an answer is due to

paneVars == <<shown, due>>

Settled == {"ready", "unavailable", "failed"}
Shows(p, s) == shown' = [shown EXCEPT ![p] = s]

Ask(p) == Shows(p, "loading") /\ due' = due \cup {p}
Refuse(p) == Shows(p, "failed") /\ UNCHANGED due
Answer(p) == /\ p \in due /\ due' \in {due, due \ {p}}
             /\ \E s \in Settled : Shows(p, s)

Init == shown = [p \in Panes |-> "idle"] /\ due = {}
Next == \E p \in Panes : Ask(p) \/ Refuse(p) \/ Answer(p)
Spec == Init /\ [][Next]_paneVars

\* No pane waits for an answer that is not due.
LoadingIsDue == \A p \in Panes : shown[p] = "loading" => p \in due
=============================================================================
