----------------------------- MODULE MCSandbox -----------------------------
(* Model values and bounds for checking Sandbox with TLC.                  *)
EXTENDS Sandbox

CONSTANTS s1, s2, blocked, boom

(* Both sandboxes time out after one unit; s2 keeps a larger console.     *)
MCTimeoutOf == [s \in Sandboxes |-> 1]
MCMaxSizeOf == [s \in Sandboxes |-> IF s = s1 THEN 2 ELSE 3]

(* One-byte consoles, for the runs with two evaluations in flight.        *)
MCMaxSizeOfOne == [s \in Sandboxes |-> 1]

(* Used by a run in which s2 has no timeout (timeout_ms = 0).             *)
MCTimeoutOfNoLimit == [s \in Sandboxes |-> IF s = s1 THEN 1 ELSE 0]
(* The state as the actions of Sandbox read it.  reported, freed and       *)
(* userRefs are written but never read by a guard or by another variable's *)
(* update when the collector is off, CallbackHeldElsewhere is TRUE and     *)
(* DropsSandboxes is FALSE (Release is then disabled and every sandbox     *)
(* stays in userRefs for EvalStart), so states that differ only in them    *)
(* have the same successors and the same values of every invariant that    *)
(* does not mention them.                                                  *)
ControlView == <<cons, timedOut, elapsed, pending, httpCallback, currentWrapper,
                 stack, abandoned>>
=============================================================================
