--------------------------- MODULE ConsoleBuffer ---------------------------
(***************************************************************************)
(* The bounded console-output capture of one sandbox (OutputCapture):     *)
(* the console_output* fields of ContextWrapper, append_console_output,   *)
(* the console.log/.warn/.error callback js_console_log that feeds it,    *)
(* and the resets done by sandbox_initialize and sandbox_eval.            *)
(*                                                                         *)
(* A buffer is a record                                                    *)
(*   len   console_output_len                                              *)
(*   cap   console_output_capacity                                         *)
(*   alloc the number of bytes actually allocated for console_output       *)
(*   trunc console_truncated                                               *)
(*   max   console_max_size                                                *)
(* Bytes are abstracted to counts: only lengths decide what the code does. *)
(* The operators on buffers are pure so that Sandbox can apply them to the *)
(* buffer of whichever wrapper a callback reaches.                         *)
(***************************************************************************)
EXTENDS Naturals, Sequences, SequencesExt

CONSTANTS
    InitCapacity,    \* the initial console_output_capacity (1024, scaled down)
    MaxSizes,        \* console_max_size values a sandbox may be created with
    ArgLens,         \* lengths JS_ToCString may yield for one console.log argument
    MaxArgs,         \* bound on the number of arguments of one console.log call
    ReallocMayFail   \* whether realloc may return NULL

ASSUME /\ InitCapacity \in Nat \ {0}
       /\ MaxSizes \subseteq Nat \ {0}
       /\ ArgLens \subseteq Nat
       /\ MaxArgs \in Nat
       /\ ReallocMayFail \in BOOLEAN

LesserOf(a, b) == IF a < b THEN a ELSE b

(* sandbox_initialize: capacity 1024, malloc(capacity) bytes, empty.       *)
NewBuffer(max) ==
    [len |-> 0, cap |-> InitCapacity, alloc |-> InitCapacity,
     trunc |-> FALSE, max |-> max]

(* sandbox_eval: console_output_len = 0, console_truncated = 0; the        *)
(* allocation and capacity are kept.                                       *)
ResetBuffer(c) == [c EXCEPT !.len = 0, !.trunc = FALSE]

(* Mutant: doubling only, without growing to what the append needs.       *)
GrownCapacityDoubleOnly(c, need) == LesserOf(c.cap * 2, c.max)

(* The capacity chosen when an append does not fit: double, capped at the  *)
(* maximum, but at least what the append needs.                            *)
GrownCapacity(c, need) ==
    LET doubled == LesserOf(c.cap * 2, c.max)
    IN  IF doubled < need THEN need ELSE doubled

(* Mutant: a full buffer drops the append without raising the flag.      *)
AppendOutcomesFullUnflagged(c, n) ==
    IF n = 0 \/ c.len >= c.max THEN {c}
    ELSE LET toAppend == LesserOf(n, c.max - c.len)
         IN  {[c EXCEPT !.len = c.len + toAppend, !.trunc = c.trunc \/ toAppend < n,
                        !.cap = IF c.len + toAppend > c.cap
                                THEN GrownCapacity(c, c.len + toAppend) ELSE c.cap]}

(* Mutant: the one byte of room left below the maximum is miscounted.     *)
AppendOutcomesOffByOne(c, n) ==
    IF n = 0 THEN {c}
    ELSE IF c.len >= c.max THEN {[c EXCEPT !.trunc = TRUE]}
    ELSE LET toAppend == LesserOf(n, c.max - c.len + 1)
         IN  {[c EXCEPT !.len = c.len + toAppend, !.trunc = c.trunc \/ toAppend < n,
                        !.cap = IF c.len + toAppend > c.cap
                                THEN c.len + toAppend ELSE c.cap]}

(* append_console_output(wrapper, str, n): the set of buffers it may leave *)
(* (more than one only when realloc may fail).                             *)
AppendOutcomes(c, n) ==
    IF n = 0 THEN {c}
    ELSE IF c.len >= c.max THEN {[c EXCEPT !.trunc = TRUE]}
    ELSE LET toAppend == LesserOf(n, c.max - c.len)
             t        == c.trunc \/ toAppend < n
             need     == c.len + toAppend
         IN  IF need > c.cap
             THEN LET newCap == GrownCapacity(c, need)
                  IN  {[c EXCEPT !.len = need, !.cap = newCap,
                                 !.alloc = newCap + 1, !.trunc = t]}
                      \cup (IF ReallocMayFail THEN {[c EXCEPT !.trunc = t]}
                                              ELSE {})
             ELSE {[c EXCEPT !.len = need, !.trunc = t]}

(* The lengths js_console_log hands to append_console_output for one call: *)
(* each argument, a single space before every argument but the first, and  *)
(* the final newline.                                                      *)
LogPieces(args) ==
    (IF args = <<>> THEN <<>>
     ELSE <<args[1]>> \o FlattenSeq([i \in 1..(Len(args) - 1) |-> <<1, args[i + 1]>>]))
    \o <<1>>

RECURSIVE AppendAll(_, _)
AppendAll(c, ns) ==
    IF ns = <<>> THEN {c}
    ELSE UNION {AppendAll(d, Tail(ns)) : d \in AppendOutcomes(c, Head(ns))}

(* js_console_log: every buffer one console.log(args) call may leave.      *)
ConsoleLog(c, args) == AppendAll(c, LogPieces(args))

(* The argument lists a script may pass to console.log.                    *)
ArgLists == UNION {[1..k -> ArgLens] : k \in 0..MaxArgs}

(* The number of bytes a call asks to be captured, as the spec states it:  *)
(* the arguments joined with single spaces, and a newline.                 *)
Requested(args) ==
    FoldSeq(+, 0, args) + (IF args = <<>> THEN 0 ELSE Len(args) - 1) + 1

-----------------------------------------------------------------------------
(* The buffer on its own: one wrapper, its evaluations started and console *)
(* calls made in any order. `logged` counts the bytes the current          *)
(* evaluation asked to capture, saturated just above the maximum.          *)
VARIABLES buf, logged

vars == <<buf, logged>>

Init ==
    /\ buf \in {NewBuffer(m) : m \in MaxSizes}
    /\ logged = 0

Log(args) ==
    /\ buf' \in ConsoleLog(buf, args)
    /\ logged' = LesserOf(logged + Requested(args), buf.max + 1)

EvalStart ==
    /\ buf' = ResetBuffer(buf)
    /\ logged' = 0

Next == EvalStart \/ \E args \in ArgLists : Log(args)

Spec == Init /\ [][Next]_vars

TypeOK ==
    /\ buf.len \in 0..buf.max /\ buf.cap \in Nat /\ buf.alloc \in Nat
    /\ buf.trunc \in BOOLEAN /\ buf.max \in MaxSizes
    /\ logged \in 0..(buf.max + 1)

(* What an evaluation reports as console output is exactly what its       *)
(* console.log calls asked for, clipped at console_max_size, and the       *)
(* truncation flag is raised exactly when something was clipped.           *)
ConsoleFaithful ==
    /\ buf.len = LesserOf(logged, buf.max)
    /\ buf.trunc <=> logged > buf.max

(* The memcpy of append_console_output stays within the capacity the       *)
(* buffer was grown to: len never exceeds capacity.                        *)
ContentInBounds == buf.len <= buf.cap

(* The NUL terminator written at console_output[len] lies inside the       *)
(* allocation.                                                             *)
TerminatorInBounds == buf.len < buf.alloc
=============================================================================
