------------------------------ MODULE EvalSpec ------------------------------
(***************************************************************************)
(* What an evaluation promises its caller (spec 4.2, 4.3 and 7), with no  *)
(* engine, callbacks or buffers: each sandbox is idle or running; while   *)
(* it runs, its script may be aborted by the timeout, may have a host     *)
(* exception deferred from a fetch call (the last one overwrites), and    *)
(* ends with a value or an error; the evaluation then finishes with one   *)
(* outcome chosen by the spec's precedence.  A host-side argument error   *)
(* ends an evaluation at once with a Ruby error.                          *)
(***************************************************************************)
CONSTANTS
    Sandboxes,
    NULL,
    Exceptions      \* the [cls, id] of the exceptions a callback may raise

VARIABLES
    phase,          \* "idle" or "running", per sandbox
    deferred,       \* the host exception deferred during the current run
    ended,          \* how the script ended: "none", "value", "SyntaxError",
                    \* "Error" or "aborted"
    outcome         \* the outcome of the last finished evaluation

vars == <<phase, deferred, ended, outcome>>

Result(cls) == [cls |-> cls, id |-> NULL]

Init ==
    /\ phase = [s \in Sandboxes |-> "idle"]
    /\ deferred = [s \in Sandboxes |-> NULL]
    /\ ended = [s \in Sandboxes |-> "none"]
    /\ outcome = [s \in Sandboxes |-> NULL]

Start(s) ==
    /\ phase[s] = "idle"
    /\ phase' = [phase EXCEPT ![s] = "running"]
    /\ UNCHANGED <<deferred, ended, outcome>>

Running(s) == phase[s] = "running" /\ ended[s] = "none"

(* The timeout aborts the script.                                          *)
Abort(s) ==
    /\ Running(s)
    /\ ended' = [ended EXCEPT ![s] = "aborted"]
    /\ UNCHANGED <<phase, deferred, outcome>>

(* A fetch callback raised x: x is deferred and a generic error thrown    *)
(* into the script, which catches it or ends with it.                      *)
Defer(s, x) ==
    /\ Running(s)
    /\ deferred' = [deferred EXCEPT ![s] = x]
    /\ ended' \in {ended, [ended EXCEPT ![s] = "Error"]}
    /\ UNCHANGED <<phase, outcome>>

End(s, how) ==
    /\ Running(s)
    /\ ended' = [ended EXCEPT ![s] = how]
    /\ UNCHANGED <<phase, deferred, outcome>>

(* The thrown value cannot be stringified (its toString throws or is      *)
(* aborted): there is no message to carry the syntax-failure tag, and     *)
(* spec 4.2 step 4b, which classifies by that message, leaves a script    *)
(* error.                                                                  *)
Unstringified(s) ==
    /\ phase[s] = "running" /\ ended[s] = "SyntaxError"
    /\ ended' = [ended EXCEPT ![s] = "Error"]
    /\ UNCHANGED <<phase, deferred, outcome>>

(* The precedence of spec 4.2 and 7: timeout, then a deferred host        *)
(* exception if the script ended in an error, then the script's error     *)
(* classified, else the result.                                            *)
Precedence(s) ==
    CASE ended[s] = "aborted"                      -> Result("TimeoutError")
      [] ended[s] # "value" /\ deferred[s] # NULL  -> deferred[s]
      [] ended[s] = "SyntaxError"                  -> Result("SyntaxError")
      [] ended[s] = "Error"                        -> Result("JavascriptError")
      [] ended[s] = "value"                        -> Result("Result")

Finish(s) ==
    /\ phase[s] = "running" /\ ended[s] # "none"
    /\ outcome' = [outcome EXCEPT ![s] = Precedence(s)]
    /\ phase' = [phase EXCEPT ![s] = "idle"]
    /\ deferred' = [deferred EXCEPT ![s] = NULL]
    /\ ended' = [ended EXCEPT ![s] = "none"]

(* Bad input from the caller or a callback is reported at once.            *)
Reject(s) ==
    /\ outcome' = [outcome EXCEPT ![s] = Result("RubyError")]
    /\ phase' = [phase EXCEPT ![s] = "idle"]
    /\ deferred' = [deferred EXCEPT ![s] = NULL]
    /\ ended' = [ended EXCEPT ![s] = "none"]

Next ==
    \E s \in Sandboxes :
        \/ Start(s)
        \/ Abort(s)
        \/ \E x \in Exceptions : Defer(s, x)
        \/ \E how \in {"value", "SyntaxError", "Error"} : End(s, how)
        \/ Unstringified(s)
        \/ Finish(s)
        \/ Reject(s)

Spec == Init /\ [][Next]_vars
=============================================================================
