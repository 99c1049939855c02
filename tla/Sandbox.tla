------------------------------ MODULE Sandbox ------------------------------
(***************************************************************************)
(* The sandbox control layer of quickjs_ext.c: a set of NativeSandbox     *)
(* instances (ContextWrapper), the thread-local current_wrapper, and the  *)
(* evaluations in flight on the one Ruby thread.                          *)
(*                                                                         *)
(* sandbox_eval is not atomic: between its prologue (EvalStart) and its   *)
(* epilogue (EvalFinish) the engine runs the script, which calls back     *)
(* into console.log (ScriptLog) and fetch (ScriptFetch), and the engine   *)
(* polls interrupt_handler (Poll).  A fetch runs the Ruby HTTP callback,  *)
(* which returns (HandlerReturn), raises (HandlerRaise), returns a        *)
(* response the C code cannot read (HandlerMalformed), or itself calls    *)
(* eval on another sandbox (EvalStart again, one frame deeper).  The      *)
(* evaluations in flight form the sequence `stack`, innermost last.       *)
(*                                                                         *)
(* Script contents are abstracted to the callbacks a script makes and     *)
(* whether it ends with a value or an uncaught exception.  Time is the    *)
(* per-wrapper elapsed time since start_time_ms, saturated one above      *)
(* timeout_ms, which is all interrupt_handler compares.                   *)
(***************************************************************************)
EXTENDS Naturals, Sequences, SequencesExt

CONSTANTS
    Sandboxes,        \* the NativeSandbox instances
    NULL,             \* NULL / Qnil
    Handler,          \* a Ruby proc given to http_callback=
    HostExceptions,   \* exceptions a Ruby HTTP callback may raise
    HTTPErrors,       \* those whose class is HTTPBlockedError, HTTPLimitError or HTTPError
    TimeoutOf,        \* timeout_ms of each sandbox
    MaxSizeOf,        \* console_log_max_size of each sandbox
    MaxDepth,         \* bound on evaluations in flight (nesting through a callback)
    BadCode,          \* whether eval may be given code StringValueCStr rejects
    Malformed,        \* whether a callback may return a response fetch cannot read
    GCRuns,           \* whether Ruby's garbage collector may run
    CallbackHeldElsewhere, \* whether the host keeps its own reference to the proc
    DropsSandboxes,   \* whether the host may drop its reference to a sandbox
    EpilogueScript,   \* whether the thrown value's toString, its stack or the result's
                      \* properties may be script-defined getters
    InitCapacity, ArgLens, MaxArgs, ReallocMayFail

ASSUME /\ HTTPErrors \subseteq HostExceptions
       /\ TimeoutOf \in [Sandboxes -> Nat]
       /\ MaxSizeOf \in [Sandboxes -> Nat \ {0}]
       /\ MaxDepth \in Nat \ {0}
       /\ BadCode \in BOOLEAN /\ Malformed \in BOOLEAN
       /\ GCRuns \in BOOLEAN /\ CallbackHeldElsewhere \in BOOLEAN
       /\ EpilogueScript \in BOOLEAN /\ DropsSandboxes \in BOOLEAN

VARIABLES
    cons,            \* console_output, _len, _capacity, _truncated of each wrapper
    timedOut,        \* timed_out of each wrapper
    elapsed,         \* get_time_ms() - start_time_ms of each wrapper, saturated
    pending,         \* pending_ruby_exception of each wrapper
    httpCallback,    \* rb_http_callback of each wrapper
    currentWrapper,  \* the thread-local current_wrapper
    stack,           \* the evaluations in flight, innermost last
    abandoned,       \* runtimes a Ruby exception unwound through
    reported,        \* the outcome the last evaluation of each sandbox ended in
    freed,           \* Ruby objects the garbage collector has reclaimed
    userRefs         \* Ruby objects the host program itself references

vars == <<cons, timedOut, elapsed, pending, httpCallback, currentWrapper,
          stack, abandoned, reported, freed, userRefs>>

hostVars == <<reported, freed, userRefs>>

CB == INSTANCE ConsoleBuffer WITH MaxSizes <- {MaxSizeOf[s] : s \in Sandboxes},
                                  buf <- cons, logged <- stack

-----------------------------------------------------------------------------
(* Exceptions and results, as the Ruby caller receives them.  `id` names  *)
(* the callback's exception; `console` is the console_output and          *)
(* console_truncated the object carries, or NULL.                         *)
Snapshot(c) == [len |-> c.len, trunc |-> c.trunc]

Outcome(cls, id, snap) == [cls |-> cls, id |-> id, console |-> snap]

(* A Ruby exception raised by NUM2INT or StringValueCStr inside fetch, or  *)
(* by StringValueCStr on the code given to eval.                          *)
RubyError == Outcome("RubyError", NULL, NULL)

HostRaised(e) == Outcome("Host", e, NULL)

(* An outcome without its console: the class and host exception a caller  *)
(* can tell apart.                                                         *)
Brief(x) == [cls |-> x.cls, id |-> x.id]

Briefs == [cls : {"Host", "TimeoutError", "SyntaxError", "JavascriptError", "RubyError",
                  "Result"},
           id : HostExceptions \cup {NULL}]

(* sandbox_eval re-raising the pending exception: an HTTP error class is  *)
(* rebuilt with the console output, any other exception raised as is.     *)
Reraised(x, snap) ==
    IF x.cls = "Host" /\ x.id \in HTTPErrors THEN [x EXCEPT !.console = snap] ELSE x

(* An evaluation in flight.  logged, hostExc and interrupted record what  *)
(* the script did: bytes passed to console.log, the last exception a      *)
(* callback raised into one of its fetch calls, whether an interrupt      *)
(* aborted it.  fw is the wrapper js_fetch read; caught the exception an  *)
(* eval nested in the running callback raised into it.                    *)
NewFrame(s) ==
    [sb |-> s, st |-> "run", res |-> "none", err |-> "none", fw |-> NULL,
     caught |-> NULL, logged |-> 0, hostExc |-> NULL, interrupted |-> FALSE]

Top == Last(stack)

SetTop(f) == stack' = [stack EXCEPT ![Len(stack)] = f]

OnStack == {stack[i].sb : i \in DOMAIN stack}

(* Ruby code runs: the host between evaluations, or a callback in fetch.  *)
RubyRunning == IF stack = <<>> THEN TRUE ELSE Top.st = "fetch"

-----------------------------------------------------------------------------
(* Ruby's collector.  sandbox_type has no dmark function, so the VALUEs   *)
(* a ContextWrapper holds (rb_http_callback, pending_ruby_exception) are  *)
(* not marked.  An object survives a collection when the host program      *)
(* references it, when it is the callback an active js_fetch passed to    *)
(* rb_protect (args.callback on the C stack), when it is an exception     *)
(* being raised into a running callback, or when it is a sandbox whose    *)
(* eval is in flight (the receiver on the Ruby VM stack).  The sandbox     *)
(* objects themselves are collected too.                                   *)
Objects == {Handler} \cup HostExceptions \cup Sandboxes

Marked ==
    userRefs
    \cup (IF \E i \in DOMAIN stack : stack[i].st = "fetch" THEN {Handler} ELSE {})
    \cup ({stack[i].caught.id : i \in {j \in DOMAIN stack : stack[j].caught # NULL}} \cap Objects)
    \cup OnStack

(* The wrappers sandbox_free has released (ContextWrapper, runtime,       *)
(* context and console buffer): those of the collected sandbox objects.   *)
FreedWrappers == freed \cap Sandboxes

(* A collection at an allocation: every unmarked object is reclaimed.      *)
Collect == GCRuns /\ freed' = freed \cup (Objects \ Marked)

(* An allocation that may or may not start a collection.                   *)
MayCollect == Collect \/ UNCHANGED freed

(* The script reacts to an exception thrown into it: a try/catch takes it *)
(* and the script runs on, or it is uncaught and JS_Eval returns.         *)
Thrown(f) ==
    SetTop([f EXCEPT !.st = "run"])
    \/ SetTop([f EXCEPT !.st = "returned", !.res = "exc", !.err = "Error"])

-----------------------------------------------------------------------------
Init ==
    /\ cons = [s \in Sandboxes |-> CB!NewBuffer(MaxSizeOf[s])]
    /\ timedOut = [s \in Sandboxes |-> FALSE]
    /\ elapsed = [s \in Sandboxes |-> 0]
    /\ pending = [s \in Sandboxes |-> NULL]
    /\ httpCallback = [s \in Sandboxes |-> NULL]
    /\ currentWrapper = NULL
    /\ stack = <<>>
    /\ abandoned = {}
    /\ reported = [s \in Sandboxes |-> NULL]
    /\ freed = {}
    /\ userRefs = Sandboxes

(* sandbox_set_http_callback, from the host or from a running callback.   *)
SetHttpCallback(s, cb) ==
    /\ RubyRunning /\ s \in userRefs
    /\ httpCallback' = [httpCallback EXCEPT ![s] = cb]
    /\ IF cb = NULL THEN UNCHANGED <<freed, userRefs>>
       ELSE /\ freed' = freed \ {cb}
            /\ userRefs' = userRefs \cup {cb}
    /\ UNCHANGED <<cons, timedOut, elapsed, pending, currentWrapper, stack,
                   abandoned, reported>>

(* The Ruby exception `x` reaches the innermost Ruby code: the host, or   *)
(* the callback of the fetch below, whose rb_protect will catch it if the *)
(* callback does not rescue it.                                           *)
RaiseInto(rest, x) ==
    IF rest = <<>> THEN rest
    ELSE [rest EXCEPT ![Len(rest)] = [@ EXCEPT !.caught = x]]

(* Mutants of ResetWrapper: timed_out, or the console buffer, not reset.  *)
ResetWrapperKeepsTimedOut(s) ==
    /\ cons' = [cons EXCEPT ![s] = CB!ResetBuffer(@)]
    /\ pending' = [pending EXCEPT ![s] = NULL]
    /\ elapsed' = [elapsed EXCEPT ![s] = 0]
    /\ UNCHANGED timedOut

ResetWrapperKeepsConsole(s) ==
    /\ timedOut' = [timedOut EXCEPT ![s] = FALSE]
    /\ pending' = [pending EXCEPT ![s] = NULL]
    /\ elapsed' = [elapsed EXCEPT ![s] = 0]
    /\ UNCHANGED cons

(* sandbox_eval resets the console, timed_out and the pending exception,  *)
(* and starts the clock.                                                  *)
ResetWrapper(s) ==
    /\ cons' = [cons EXCEPT ![s] = CB!ResetBuffer(@)]
    /\ timedOut' = [timedOut EXCEPT ![s] = FALSE]
    /\ pending' = [pending EXCEPT ![s] = NULL]
    /\ elapsed' = [elapsed EXCEPT ![s] = 0]

(* sandbox_eval up to JS_Eval: reset the wrapper, set current_wrapper.    *)
(* The caller is the host or a callback; the spec forbids a callback      *)
(* evaluating on a sandbox that is already evaluating.  With bad code,    *)
(* StringValueCStr raises after current_wrapper was set and JS_Eval is    *)
(* never reached.                                                          *)
EvalStart(s) ==
    /\ RubyRunning
    /\ Len(stack) < MaxDepth
    /\ s \in userRefs /\ s \notin OnStack
    /\ ResetWrapper(s)
    /\ currentWrapper' = s
    /\ \/ stack' = Append(stack, NewFrame(s)) /\ UNCHANGED reported
       \/ /\ BadCode /\ stack' = RaiseInto(stack, RubyError)
          /\ reported' = [reported EXCEPT ![s] = Brief(RubyError)]
    /\ UNCHANGED <<httpCallback, abandoned, freed, userRefs>>

(* js_console_log: append to the buffer of current_wrapper, if any.       *)
ScriptLog(args) ==
    /\ stack # <<>> /\ Top.st = "run"
    /\ IF currentWrapper = NULL THEN UNCHANGED cons
       ELSE \E c \in CB!ConsoleLog(cons[currentWrapper], args) :
                cons' = [cons EXCEPT ![currentWrapper] = c]
    /\ SetTop([Top EXCEPT !.logged = CB!LesserOf(@ + CB!Requested(args),
                                                 MaxSizeOf[Top.sb] + 1)])
    /\ UNCHANGED <<timedOut, elapsed, pending, httpCallback, currentWrapper,
                   abandoned, hostVars>>

(* js_fetch up to rb_protect: with no current_wrapper, no callback on it, *)
(* or arguments it cannot read, a TypeError is thrown into the script;    *)
(* otherwise the callback of current_wrapper is called.  rb_hash_new and  *)
(* rb_str_new2 allocate before the callback is copied into args.           *)
ScriptFetch ==
    /\ stack # <<>> /\ Top.st = "run"
    /\ \/ /\ currentWrapper # NULL
          /\ httpCallback[currentWrapper] # NULL
          /\ MayCollect
          /\ SetTop([Top EXCEPT !.st = "fetch", !.fw = currentWrapper, !.caught = NULL])
       \/ Thrown(Top) /\ UNCHANGED freed
    /\ UNCHANGED <<cons, timedOut, elapsed, pending, httpCallback,
                   currentWrapper, abandoned, reported, userRefs>>

(* The script throws, or fails to parse: JS_Eval returns an exception.    *)
ScriptThrow(kind) ==
    /\ stack # <<>> /\ Top.st = "run"
    /\ SetTop([Top EXCEPT !.st = "returned", !.res = "exc", !.err = kind])
    /\ UNCHANGED <<cons, timedOut, elapsed, pending, httpCallback,
                   currentWrapper, abandoned, hostVars>>

(* The script runs to its end: JS_Eval returns its value.                 *)
ScriptComplete ==
    /\ stack # <<>> /\ Top.st = "run"
    /\ SetTop([Top EXCEPT !.st = "returned", !.res = "value"])
    /\ UNCHANGED <<cons, timedOut, elapsed, pending, httpCallback,
                   currentWrapper, abandoned, hostVars>>

(* Script code run by sandbox_eval after JS_Eval returns to it.  A        *)
(* toString that throws or is aborted leaves JS_ToCString with NULL: the  *)
(* message is "Unknown JavaScript error" and is_syntax stays 0.  A stack  *)
(* getter or a result getter that fails leaves the class as it was.       *)
ConversionEnds(failed) ==
    SetTop([Top EXCEPT !.st = "converted",
                       !.err = IF failed /\ Top.res = "exc" THEN "Error" ELSE @])

(* Mutant: the engine ignores interrupt_handler's return value.           *)
EngineAbortIgnored == UNCHANGED stack

(* The engine aborts the code the interrupt stopped with an uncatchable   *)
(* error: the script, whose JS_Eval returns an exception, or the script    *)
(* code sandbox_eval's conversion runs, which then fails.                 *)
EngineAbort ==
    IF Top.st = "run"
    THEN SetTop([Top EXCEPT !.st = "returned", !.res = "exc", !.interrupted = TRUE])
    ELSE \E failed \in BOOLEAN : ConversionEnds(failed)

(* interrupt_handler, called by the runtime of the running script code    *)
(* with that runtime's own wrapper: past the timeout it sets timed_out    *)
(* and returns 1.  A poll that returns 0 changes nothing and is not an     *)
(* action.                                                                 *)
Poll ==
    /\ stack # <<>> /\ Top.st \in {"run", "converting"}
    /\ TimeoutOf[Top.sb] > 0
    /\ elapsed[Top.sb] > TimeoutOf[Top.sb]
    /\ timedOut' = [timedOut EXCEPT ![Top.sb] = TRUE]
    /\ EngineAbort
    /\ UNCHANGED <<cons, elapsed, pending, httpCallback, currentWrapper,
                   abandoned, hostVars>>

(* Wall-clock time passes for every evaluation in flight.                 *)
Tick ==
    /\ \E s \in OnStack : elapsed[s] <= TimeoutOf[s]
    /\ elapsed' = [s \in Sandboxes |->
                     IF s \in OnStack THEN CB!LesserOf(elapsed[s] + 1, TimeoutOf[s] + 1)
                     ELSE elapsed[s]]
    /\ UNCHANGED <<cons, timedOut, pending, httpCallback, currentWrapper,
                   stack, abandoned, hostVars>>

(* js_fetch after rb_protect returned a response hash it can read: the    *)
(* Response object is the value of the fetch call.                        *)
HandlerReturn ==
    /\ stack # <<>> /\ Top.st = "fetch"
    /\ SetTop([Top EXCEPT !.st = "run", !.fw = NULL, !.caught = NULL])
    /\ UNCHANGED <<cons, timedOut, elapsed, pending, httpCallback,
                   currentWrapper, abandoned, hostVars>>

(* Mutant: the exception is stored into current_wrapper as it is after   *)
(* the callback, instead of the wrapper js_fetch read before calling it.  *)
StorePendingCurrent(x) == pending' = [pending EXCEPT ![currentWrapper] = x]

(* js_fetch stores exception x as the pending exception of the wrapper it *)
(* read on entry.                                                          *)
StorePending(x) == pending' = [pending EXCEPT ![Top.fw] = x]

(* js_fetch after rb_protect caught exception x: store it as the pending  *)
(* exception, throw "HTTP request failed".  x is one the callback raises, *)
(* or the one a nested eval raised into it.                               *)
HandlerRaise(x) ==
    /\ stack # <<>> /\ Top.st = "fetch"
    /\ StorePending(x)
    /\ Thrown([Top EXCEPT !.hostExc = x, !.fw = NULL, !.caught = NULL])
    /\ freed' = freed \ {x.id}
    /\ UNCHANGED <<cons, timedOut, elapsed, httpCallback, currentWrapper,
                   abandoned, reported, userRefs>>

(* js_fetch reading the response outside rb_protect: a status NUM2INT     *)
(* rejects, or a statusText or body StringValueCStr rejects, raises a     *)
(* Ruby exception that longjmps through the engine and out of the         *)
(* sandbox_eval of this frame, skipping its epilogue.                     *)
HandlerMalformed ==
    /\ Malformed
    /\ stack # <<>> /\ Top.st = "fetch"
    /\ abandoned' = abandoned \cup {Top.sb}
    /\ stack' = RaiseInto(Front(stack), RubyError)
    /\ reported' = [reported EXCEPT ![Top.sb] = Brief(RubyError)]
    /\ UNCHANGED <<cons, timedOut, elapsed, pending, httpCallback,
                   currentWrapper, freed, userRefs>>

(* The class a script error (by its message prefix) or a value is        *)
(* reported as.                                                            *)
Classified(f) ==
    CASE f.res = "value"        -> "Result"
      [] f.err = "SyntaxError"  -> "SyntaxError"
      [] OTHER                  -> "JavascriptError"

(* What sandbox_eval makes of JS_Eval's return for frame f: the console  *)
(* output of its own wrapper, then timeout, else the pending Ruby         *)
(* exception, else the classified script error or the result.            *)
EvalOutcome(f) ==
    LET s    == f.sb
        snap == Snapshot(cons[s])
    IN  IF timedOut[s] THEN Outcome("TimeoutError", NULL, snap)
        ELSE IF f.res = "exc" /\ pending[s] # NULL THEN Reraised(pending[s], snap)
        ELSE Outcome(Classified(f), NULL, snap)

(* sandbox_eval hands the outcome of sandbox s to the host, or raises it  *)
(* into the callback that called eval.                                    *)
Deliver(s, out) ==
    /\ stack' = IF out.cls = "Result" THEN Front(stack) ELSE RaiseInto(Front(stack), out)
    /\ reported' = [reported EXCEPT ![s] = Brief(out)]

ClearWrapper == currentWrapper' = NULL

(* sandbox_eval after JS_Eval returned: clear current_wrapper, copy the    *)
(* console output (rb_str_new may start a collection), clear the pending  *)
(* exception it re-raises, and deliver the outcome.  Past the timeout     *)
(* check and the re-raise, stringifying the exception, reading its stack  *)
(* or converting the result may first call script-defined toString or     *)
(* getters, which run with current_wrapper NULL and under the interrupt.  *)
EvalFinish ==
    /\ stack # <<>> /\ Top.st = "returned"
    /\ ClearWrapper
    /\ pending' = IF ~timedOut[Top.sb] /\ Top.res = "exc"
                  THEN [pending EXCEPT ![Top.sb] = NULL] ELSE pending
    /\ MayCollect
    /\ \/ Deliver(Top.sb, EvalOutcome(Top))
       \/ /\ EpilogueScript /\ ~timedOut[Top.sb]
          /\ Top.res = "value" \/ pending[Top.sb] = NULL
          /\ SetTop([Top EXCEPT !.st = "converting"])
          /\ UNCHANGED reported
    /\ UNCHANGED <<cons, timedOut, elapsed, httpCallback, abandoned, userRefs>>

(* The script code a conversion called returns or throws.  Its console    *)
(* and fetch calls find no current_wrapper and change nothing.            *)
ConversionScript ==
    /\ stack # <<>> /\ Top.st = "converting"
    /\ \E failed \in BOOLEAN : ConversionEnds(failed)
    /\ UNCHANGED <<cons, timedOut, elapsed, pending, httpCallback,
                   currentWrapper, abandoned, hostVars>>

(* sandbox_eval raises the classified error, or returns the Result, with  *)
(* the console output copied before; timed_out is no longer read.        *)
EvalConverted ==
    /\ stack # <<>> /\ Top.st = "converted"
    /\ Deliver(Top.sb, Outcome(Classified(Top), NULL, Snapshot(cons[Top.sb])))
    /\ MayCollect
    /\ UNCHANGED <<cons, timedOut, elapsed, pending, httpCallback,
                   currentWrapper, abandoned, userRefs>>

(* Ruby code allocates, in the host or in a running callback, and the     *)
(* collector runs.                                                         *)
RubyGC ==
    /\ RubyRunning
    /\ Collect
    /\ UNCHANGED <<cons, timedOut, elapsed, pending, httpCallback,
                   currentWrapper, stack, abandoned, reported, userRefs>>

(* The host program drops its own reference to the proc it gave to        *)
(* http_callback= (a lambda written in the call, a local going out of     *)
(* scope), or to a sandbox object (one a callback created and used).      *)
Release(o) ==
    /\ o = Handler => ~CallbackHeldElsewhere
    /\ o \in Sandboxes => DropsSandboxes
    /\ RubyRunning
    /\ o \in userRefs
    /\ userRefs' = userRefs \ {o}
    /\ UNCHANGED <<cons, timedOut, elapsed, pending, httpCallback,
                   currentWrapper, stack, abandoned, reported, freed>>

(* What a running callback can raise: its own exception, or one a nested  *)
(* eval raised into it.                                                   *)
Raisable ==
    {HostRaised(e) : e \in HostExceptions}
    \cup (IF stack = <<>> THEN {} ELSE {Top.caught} \ {NULL})

Next ==
    \/ \E s \in Sandboxes, cb \in {NULL, Handler} : SetHttpCallback(s, cb)
    \/ \E s \in Sandboxes : EvalStart(s)
    \/ \E args \in CB!ArgLists : ScriptLog(args)
    \/ ScriptFetch
    \/ \E kind \in {"SyntaxError", "Error"} : ScriptThrow(kind)
    \/ ScriptComplete
    \/ Poll
    \/ Tick
    \/ HandlerReturn
    \/ \E x \in Raisable : HandlerRaise(x)
    \/ HandlerMalformed
    \/ EvalFinish
    \/ ConversionScript
    \/ EvalConverted
    \/ RubyGC
    \/ \E o \in {Handler} \cup Sandboxes : Release(o)

(* The engine polls the interrupt handler again and again while a script  *)
(* runs, including between fetch calls; the host's callbacks return; the  *)
(* C code after JS_Eval runs; the clock advances.  Script code a         *)
(* conversion calls is not assumed to return.                             *)
Fairness ==
    /\ WF_vars(Tick)
    /\ SF_vars(Poll)
    /\ WF_vars(HandlerReturn \/ \E e \in HostExceptions : HandlerRaise(HostRaised(e)))
    /\ WF_vars(EvalFinish)
    /\ WF_vars(EvalConverted)

Spec == Init /\ [][Next]_vars
FairSpec == Spec /\ Fairness

-----------------------------------------------------------------------------
FrameOK(f) ==
    /\ f.sb \in Sandboxes /\ f.st \in {"run", "fetch", "returned", "converting", "converted"}
    /\ f.res \in {"none", "value", "exc"} /\ f.err \in {"none", "SyntaxError", "Error"}
    /\ f.fw \in Sandboxes \cup {NULL} /\ f.logged \in 0..(MaxSizeOf[f.sb] + 1)
    /\ f.interrupted \in BOOLEAN

TypeOK ==
    /\ \A s \in Sandboxes : cons[s].len \in 0..MaxSizeOf[s] /\ cons[s].max = MaxSizeOf[s]
    /\ timedOut \in [Sandboxes -> BOOLEAN]
    /\ \A s \in Sandboxes : elapsed[s] \in 0..(TimeoutOf[s] + 1)
    /\ \A s \in Sandboxes : pending[s] = NULL \/ pending[s].cls \in {"Host", "TimeoutError",
                              "SyntaxError", "JavascriptError", "RubyError"}
    /\ httpCallback \in [Sandboxes -> {NULL, Handler}]
    /\ currentWrapper \in Sandboxes \cup {NULL}
    /\ Len(stack) <= MaxDepth /\ \A i \in DOMAIN stack : FrameOK(stack[i])
    /\ abandoned \subseteq Sandboxes
    /\ \A s \in Sandboxes : reported[s] = NULL \/ reported[s] \in Briefs
    /\ freed \subseteq Objects /\ userRefs \subseteq Objects

(* JS_Eval has returned to the innermost sandbox_eval, which is about to   *)
(* build its outcome.                                                      *)
Returned == stack # <<>> /\ Top.st = "returned"

(* What the spec says an evaluation must end in, from what its script did: *)
(* a timeout first, then the last exception a callback raised into one of *)
(* its fetch calls if the script ended in an exception, then the script's  *)
(* own error, else its value.                                              *)
Expected(f) ==
    IF f.interrupted THEN [cls |-> "TimeoutError", id |-> NULL]
    ELSE IF f.res = "exc" /\ f.hostExc # NULL
         THEN [cls |-> f.hostExc.cls, id |-> f.hostExc.id]
    ELSE IF f.res = "exc"
         THEN [cls |-> IF f.err = "SyntaxError" THEN "SyntaxError" ELSE "JavascriptError",
               id |-> NULL]
    ELSE [cls |-> "Result", id |-> NULL]

(* The console output the spec says an evaluation reports: what its own   *)
(* console.log calls asked for, clipped at console_log_max_size.           *)
ExpectedConsole(f) ==
    [len |-> CB!LesserOf(f.logged, MaxSizeOf[f.sb]), trunc |-> f.logged > MaxSizeOf[f.sb]]

OutcomeReported ==
    Returned => LET out == EvalOutcome(Top)
                IN  [cls |-> out.cls, id |-> out.id] = Expected(Top)

(* The console_output and console_truncated sandbox_eval hands back with   *)
(* any outcome are those of the evaluation's own console.log calls.        *)
ConsoleReported ==
    Returned => Snapshot(cons[Top.sb]) = ExpectedConsole(Top)

(* A callback that raised makes the evaluation raise (spec section 8):     *)
(* an evaluation in which a fetch callback raised never returns a Result.  *)
HostExceptionReported ==
    Returned /\ Top.hostExc # NULL => EvalOutcome(Top).cls # "Result"

(* No Ruby exception ever unwinds through a QuickJS runtime (the reason    *)
(* js_fetch calls the callback under rb_protect).                          *)
EngineNeverUnwound == abandoned = {}

(* With a timeout set, every evaluation started eventually finishes.      *)
EvalTerminates == stack # <<>> ~> stack = <<>>

(* console.log and fetch find their wrapper through current_wrapper: while *)
(* a script runs, that pointer never names a wrapper sandbox_free has      *)
(* released, whatever evaluations were rejected or nested before.          *)
WrapperAliveWhenUsed ==
    stack # <<>> /\ Top.st = "run" /\ currentWrapper # NULL
        => currentWrapper \notin FreedWrappers

(* An evaluation re-raises the pending exception of its wrapper: JS_Eval  *)
(* returned an exception, no timeout, and a callback's exception is kept.  *)
Reraising ==
    Returned /\ ~timedOut[Top.sb] /\ Top.res = "exc" /\ pending[Top.sb] # NULL

(* The Ruby objects a ContextWrapper holds are alive whenever the C code  *)
(* uses them: the callback js_fetch calls, and the pending exception      *)
(* sandbox_eval re-raises, have not been reclaimed by the collector.       *)
WrapperValuesLiveWhenUsed ==
    [][/\ \A i \in DOMAIN stack' : stack'[i].st = "fetch" => Handler \notin freed'
       /\ Reraising => pending[Top.sb].id \notin freed']_vars

-----------------------------------------------------------------------------
(* The refinement mapping to EvalSpec: a sandbox runs while it has an      *)
(* evaluation in flight; the deferred exception and the way the script    *)
(* ended are those of its frame; the outcome is the one sandbox_eval       *)
(* handed to its caller.                                                   *)
FrameOf(s) == stack[CHOOSE i \in DOMAIN stack : stack[i].sb = s]

HowEnded(f) ==
    CASE f.st \in {"run", "fetch"} -> "none"
      [] f.interrupted              -> "aborted"
      [] f.res = "value"            -> "value"
      [] OTHER                      -> f.err

ES == INSTANCE EvalSpec WITH
        Exceptions <- {b \in Briefs : b.cls # "Result"},
        phase <- [s \in Sandboxes |-> IF s \in OnStack THEN "running" ELSE "idle"],
        deferred <- [s \in Sandboxes |->
                       IF s \in OnStack /\ FrameOf(s).hostExc # NULL
                       THEN Brief(FrameOf(s).hostExc) ELSE NULL],
        ended <- [s \in Sandboxes |-> IF s \in OnStack THEN HowEnded(FrameOf(s)) ELSE "none"],
        outcome <- reported

(* sandbox_eval implements the ExecutionController the spec describes:    *)
(* every evaluation starts idle, runs, and ends in the outcome its        *)
(* precedence prescribes (timeout, then the deferred callback exception,   *)
(* then the classified script error, then the result), with the reset of  *)
(* timed_out and of the pending exception making each run independent.    *)
ImplementsEvalSpec == ES!Spec
=============================================================================
