----------------------------- MODULE ValueTree -----------------------------
(***************************************************************************)
(* The structural part of the value bridge: arrays and hashes in          *)
(* ruby_to_js and hash_foreach_cb, arrays and objects in js_to_ruby, and  *)
(* sandbox_set_variable, which stores a converted host value as a global.  *)
(*                                                                         *)
(* Leaves are abstracted to one string (numbers are the subject of        *)
(* ValueBridge).  A Ruby value is [t |-> "str"], [t |-> "nil"],            *)
(* [t |-> "arr", s |-> elements] or [t |-> "hash", s |-> <<key, value>>    *)
(* pairs in insertion order].  A script value is [t |-> "jsstr"],          *)
(* [t |-> "arr", s], [t |-> "obj", s |-> own properties in creation order] *)
(* or JS_EXCEPTION.  Keys are strings of three kinds that the engine      *)
(* treats differently: array-index keys ("0", "1", ...), the key          *)
(* "__proto__", and all other keys.                                        *)
(*                                                                         *)
(* Under a memory limit every engine allocation may fail: JS_NewString,   *)
(* JS_NewArray and JS_NewObject return JS_EXCEPTION (ConvertMayFail), and  *)
(* JS_ToCString, JS_AtomToCString and JS_GetOwnPropertyNames fail       *)
(* (ReadMayFail).                                                          *)
(***************************************************************************)
EXTENDS Naturals, Sequences, SequencesExt

CONSTANTS
    PlainKeys,      \* keys that are neither array indices nor "__proto__"
    IndexKeys,      \* array-index keys, as a sequence in numeric order
    ProtoKeys,      \* {"__proto__"} or {}
    Names,          \* variable names passed to set_variable ("" among them)
    MaxLen,         \* bound on the length of the outermost host array or hash
    MaxNestedLen,   \* bound on the length of the arrays and hashes inside it
    MaxDepth,       \* bound on the nesting depth of a host value
    ConvertMayFail, \* whether allocations in ruby_to_js may hit a memory limit
    ReadMayFail     \* whether the copies js_to_ruby makes may hit it

Keys == PlainKeys \cup ToSet(IndexKeys) \cup ProtoKeys

Str == [t |-> "str"]
Nil == [t |-> "nil"]
JsStr == [t |-> "jsstr"]
JsNull == [t |-> "jsnull"]
JsException == [t |-> "exc"]

(* The outcomes of one engine allocation that yields v.                    *)
Alloc(v) == {v} \cup (IF ConvertMayFail THEN {JsException} ELSE {})

(* The host values of nesting depth at most d.                             *)
RECURSIVE RubyValues(_)
RubyValues(d) ==
    IF d = 0 THEN {Str}
    ELSE LET sub == RubyValues(d - 1)
             len == IF d = MaxDepth THEN MaxLen ELSE MaxNestedLen
         IN  sub
             \cup {[t |-> "arr", s |-> e] : e \in BoundedSeq(sub, len)}
             \cup {[t |-> "hash", s |-> p] :
                     p \in {q \in BoundedSeq(Keys \X sub, len) :
                              IsInjective([i \in DOMAIN q |-> q[i][1]])}}

IsIndex(k) == k \in ToSet(IndexKeys)
IndexOf(k) == CHOOSE i \in DOMAIN IndexKeys : IndexKeys[i] = k

(* JS_SetPropertyStr on a plain object: "__proto__" goes to the prototype *)
(* setter and never becomes an own property; an existing key keeps its    *)
(* place and takes the new value; a new key is added last.                 *)
SetProp(props, k, v) ==
    IF k \in ProtoKeys THEN props
    ELSE IF \E i \in DOMAIN props : props[i][1] = k
    THEN [i \in DOMAIN props |-> IF props[i][1] = k THEN <<k, v>> ELSE props[i]]
    ELSE Append(props, <<k, v>>)

OwnKeys(props) ==
    LET idx == SelectSeq(props, LAMBDA p : IsIndex(p[1]))
    IN  SortSeq(idx, LAMBDA p, q : IndexOf(p[1]) < IndexOf(q[1]))
        \o SelectSeq(props, LAMBDA p : ~IsIndex(p[1]))

RECURSIVE ToJs(_), ToJsElems(_, _), ToJsElemsUnchecked(_, _), ToJsProps(_, _),
          ToJsPropsUnconverted(_, _)

(* Mutant: the JS_IsException test on each element left out.              *)
ToJsElemsUnchecked(s, acc) ==
    IF s = <<>> THEN Alloc([t |-> "arr", s |-> acc])
    ELSE UNION {ToJsElemsUnchecked(Tail(s), Append(acc, e)) : e \in ToJs(Head(s))}

(* The T_ARRAY loop: convert each element in order; the first            *)
(* JS_EXCEPTION frees the array and is returned.                           *)
ToJsElems(s, acc) ==
    IF s = <<>> THEN Alloc([t |-> "arr", s |-> acc])
    ELSE UNION {IF e = JsException THEN {JsException}
                ELSE ToJsElems(Tail(s), Append(acc, e)) : e \in ToJs(Head(s))}

(* Mutant: the host value stored as the property instead of js_val.       *)
ToJsPropsUnconverted(s, props) ==
    IF s = <<>> THEN Alloc([t |-> "obj", s |-> props])
    ELSE UNION {IF v = JsException THEN {JsException}
                ELSE ToJsPropsUnconverted(Tail(s), SetProp(props, Head(s)[1], Head(s)[2]))
                : v \in ToJs(Head(s)[2])}

(* rb_hash_foreach with hash_foreach_cb: each entry in insertion order;   *)
(* a failed value sets has_error, stops the iteration, and the object is   *)
(* freed and JS_EXCEPTION returned.                                        *)
ToJsProps(s, props) ==
    IF s = <<>> THEN Alloc([t |-> "obj", s |-> props])
    ELSE UNION {IF v = JsException THEN {JsException}
                ELSE ToJsProps(Tail(s), SetProp(props, Head(s)[1], v))
                : v \in ToJs(Head(s)[2])}

(* ruby_to_js: every script value it may return.                          *)
ToJs(r) ==
    CASE r.t = "str"  -> Alloc(JsStr)
      [] r.t = "nil"  -> {JsNull}
      [] r.t = "arr"  -> ToJsElems(r.s, <<>>)
      [] r.t = "hash" -> ToJsProps(r.s, <<>>)

(* Every sequence whose i-th element is one of S[i].                        *)
PerIndexChoices(S) == {f \in [DOMAIN S -> UNION Range(S)] : \A i \in DOMAIN S : f[i] \in S[i]}

(* The entry js_to_ruby reads for own property p, or Skip: a key         *)
(* JS_AtomToCString cannot copy is left out of the hash.                   *)
Skip == <<>>

RECURSIVE ToRuby(_), ReadEntry(_)
ReadEntry(p) ==
    {<<p[1], v>> : v \in ToRuby(p[2])} \cup (IF ReadMayFail THEN {Skip} ELSE {})

(* js_to_ruby: every host value it may return.  A string JS_ToCString     *)
(* cannot copy falls through every test to nil; an object whose property  *)
(* names cannot be read becomes an empty hash.                              *)
ToRuby(j) ==
    CASE j.t = "jsstr"  -> {Str} \cup (IF ReadMayFail THEN {Nil} ELSE {})
      [] j.t = "jsnull" -> {Nil}
      [] j.t = "arr"    -> {[t |-> "arr", s |-> e] :
                              e \in PerIndexChoices([i \in DOMAIN j.s |-> ToRuby(j.s[i])])}
      [] j.t = "obj"    ->
            LET props == OwnKeys(j.s)
            IN  {[t |-> "hash", s |-> SelectSeq(es, LAMBDA e : e # Skip)] :
                    es \in PerIndexChoices([i \in DOMAIN props |-> ReadEntry(props[i])])}
                \cup (IF ReadMayFail THEN {[t |-> "hash", s |-> <<>>]} ELSE {})
      [] j.t = "exc"    -> {Nil}

(* A well-formed script value: built from script strings and null, an     *)
(* object's own keys distinct and none of them "__proto__".                *)
RECURSIVE IsJsValue(_)
IsJsValue(j) ==
    \/ j \in {JsStr, JsNull, JsException}
    \/ j.t = "arr" /\ \A i \in DOMAIN j.s : IsJsValue(j.s[i])
    \/ /\ j.t = "obj"
       /\ IsInjective([i \in DOMAIN j.s |-> j.s[i][1]])
       /\ \A i \in DOMAIN j.s : j.s[i][1] \in Keys \ ProtoKeys /\ IsJsValue(j.s[i][2])

(* A script value with JS_EXCEPTION somewhere inside it.                   *)
RECURSIVE HoldsException(_)
HoldsException(j) ==
    \/ j = JsException
    \/ j.t = "arr" /\ \E i \in DOMAIN j.s : HoldsException(j.s[i])
    \/ j.t = "obj" /\ \E i \in DOMAIN j.s : HoldsException(j.s[i][2])

(* A host value with hashes taken as key-to-value maps: equal when the    *)
(* same entries are there, in whatever order.                              *)
RECURSIVE Unordered(_)
Unordered(r) ==
    CASE r.t \in {"str", "nil"} -> r
      [] r.t = "arr"  -> [t |-> "arr", s |-> [i \in DOMAIN r.s |-> Unordered(r.s[i])]]
      [] r.t = "hash" -> [t |-> "hash",
                          m |-> [k \in {r.s[i][1] : i \in DOMAIN r.s} |->
                                   Unordered((CHOOSE p \in Range(r.s) : p[1] = k)[2])]]

(* A host value with its "__proto__" entries removed, at every level.      *)
RECURSIVE WithoutProto(_)
WithoutProto(r) ==
    CASE r.t \in {"str", "nil"} -> r
      [] r.t = "arr"  -> [r EXCEPT !.s = [i \in DOMAIN r.s |-> WithoutProto(r.s[i])]]
      [] r.t = "hash" -> LET kept == SelectSeq(r.s, LAMBDA p : p[1] \notin ProtoKeys)
                         IN  [r EXCEPT !.s = [i \in DOMAIN kept |->
                                               <<kept[i][1], WithoutProto(kept[i][2])>>]]

-----------------------------------------------------------------------------
(* A sandbox's globals as set by set_variable and read back by evaluating *)
(* the variable's name.  `given` remembers the host value each global was  *)
(* last set from, so that the value read back can be compared with it.     *)
VARIABLES global, given, last

vars == <<global, given, last>>

VarNames == Names \ {""}
NoValue == [t |-> "undefined"]

Init ==
    /\ global = [n \in VarNames |-> NoValue]
    /\ given = [n \in VarNames |-> NoValue]
    /\ last = [op |-> "none"]

(* sandbox_set_variable(name, value): an empty name raises ArgumentError   *)
(* before anything is converted; otherwise the converted value, whatever   *)
(* it is, is stored with JS_SetPropertyStr and nil returned.               *)
SetVariable(name, r) ==
    IF name = ""
    THEN /\ last' = [op |-> "set", name |-> name, raised |-> TRUE]
         /\ UNCHANGED <<global, given>>
    ELSE \E j \in ToJs(r) :
         /\ global' = [global EXCEPT ![name] = j]
         /\ given' = [given EXCEPT ![name] = r]
         /\ last' = [op |-> "set", name |-> name, raised |-> FALSE]

(* sandbox_eval(name) on a global holding a converted value: the result   *)
(* goes through js_to_ruby.                                                *)
ReadBack(name) ==
    /\ global[name] \notin {NoValue, JsException}
    /\ \E out \in ToRuby(global[name]) :
           last' = [op |-> "read", name |-> name, out |-> out]
    /\ UNCHANGED <<global, given>>

Next ==
    \/ \E name \in Names, r \in RubyValues(MaxDepth) : SetVariable(name, r)
    \/ \E name \in VarNames : ReadBack(name)

Spec == Init /\ [][Next]_vars

TypeOK ==
    /\ last.op \in {"none", "set", "read"}
    /\ \A n \in VarNames : global[n] = NoValue \/ IsJsValue(global[n])

FailureNotPartial ==
    \A n \in VarNames : global[n] # JsException => ~HoldsException(global[n])

(* The spec's round-trip property: host -> script -> host yields a value   *)
(* structurally equal to the one passed, key order included.               *)
RoundTripStructurallyEqual ==
    last.op = "read" => last.out = given[last.name]
=============================================================================
