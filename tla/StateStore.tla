----------------------------- MODULE StateStore -----------------------------
(***************************************************************************)
(* What SaveState promises its callers: "persists the State to StateFile   *)
(* atomically (write to tmp, rename)" (health/state.go:32).  A caller that *)
(* saves a state either replaces the stored state with exactly that value  *)
(* in one step, or leaves it as it was.                                    *)
(***************************************************************************)

CONSTANTS
  Procs,   \* the processes that save
  States,  \* the states that can be saved
  Zero     \* what a reader gets before the first save

VARIABLES
  stored,  \* the state a reader gets
  saving   \* saving[p] = {s} while p is saving s, {} otherwise

storeVars == <<stored, saving>>

Init ==
  /\ stored = Zero
  /\ saving = [p \in Procs |-> {}]

\* p calls SaveState(s).
Begin(p, s) ==
  /\ saving[p] = {}
  /\ saving' = [saving EXCEPT ![p] = {s}]
  /\ UNCHANGED stored

\* The save of p takes effect.
Commit(p) ==
  /\ saving[p] /= {}
  /\ stored' \in saving[p]
  /\ saving' = [saving EXCEPT ![p] = {}]

\* The save of p fails, or p dies: nothing is stored.
Abandon(p) ==
  /\ saving[p] /= {}
  /\ saving' = [saving EXCEPT ![p] = {}]
  /\ UNCHANGED stored

Next ==
  \E p \in Procs :
    \/ \E s \in States : Begin(p, s)
    \/ Commit(p)
    \/ Abandon(p)

Spec == Init /\ [][Next]_storeVars

=============================================================================
