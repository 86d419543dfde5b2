---------------------------- MODULE SingleRunner ----------------------------
(***************************************************************************)
(* What the task manager promises of the runs of one task: a run is        *)
(* admitted once, admitting a run retires the one before it, and a retired *)
(* run is never admitted again while the process lives.                    *)
(***************************************************************************)
CONSTANT Runs

VARIABLE phase

Phase == {"idle", "live", "retired"}

Init == phase = [r \in Runs |-> "idle"]

RetireLive == [x \in Runs |-> IF phase[x] = "live" THEN "retired" ELSE phase[x]]

Admit(r) ==
  /\ phase[r] = "idle"
  /\ phase' = [RetireLive EXCEPT ![r] = "live"]

Retire == phase' = RetireLive

\* The process restarts: no run of the old process is left.
Restart == phase' = [r \in Runs |-> "idle"]

Next == (\E r \in Runs : Admit(r)) \/ Retire \/ Restart

Spec == Init /\ [][Next]_phase

\* At most one run is admitted at a time.
OneLiveRun == \A r, s \in Runs : phase[r] = "live" /\ phase[s] = "live" => r = s
=============================================================================
