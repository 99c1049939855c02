---------------------------- MODULE ValueBridge ----------------------------
(***************************************************************************)
(* The conversion of numbers between script and host (ValueBridge):       *)
(* the Number branch of js_to_ruby and the T_FIXNUM / T_BIGNUM / T_FLOAT   *)
(* branches of ruby_to_js.                                                 *)
(*                                                                         *)
(* Widths are scaled: `long` / int64_t has LongBits bits (64 in the        *)
(* build), a double has MantissaBits significant bits (53), and QuickJS's *)
(* int32 tag has Int32Bits bits (32).  A Fixnum holds LongBits - 1 bits,   *)
(* so FIXNUM_MAX = 2^(LongBits-2) - 1 needs LongBits - 2 significant bits. *)
(* What makes the code go wrong is the order between these widths, which  *)
(* the scaled values keep: Int32Bits <= MantissaBits < LongBits - 2.       *)
(*                                                                         *)
(* A double is a record: [k |-> "fin", h |-> 2 * value] for a finite       *)
(* value (halves are the fractional values kept), [k |-> "nan"], or        *)
(* [k |-> "inf", h |-> sign].  A Ruby number is [cls |-> "Integer", n]     *)
(* (a Fixnum inside the Fixnum range, a Bignum outside) or                 *)
(* [cls |-> "Float", d].                                                   *)
(***************************************************************************)
EXTENDS Integers

CONSTANTS
    LongBits,       \* width of long / int64_t
    MantissaBits,   \* significant bits of a double
    Int32Bits       \* width of the int32 tag of a JSValue

ASSUME /\ Int32Bits \in Nat \ {0}
       /\ MantissaBits \in Nat /\ Int32Bits <= MantissaBits
       /\ LongBits \in Nat /\ MantissaBits < LongBits - 2

FIXNUM_MAX == 2^(LongBits - 2) - 1
FIXNUM_MIN == -(2^(LongBits - 2))
LongRange == -(2^(LongBits - 1))..(2^(LongBits - 1) - 1)
Int32Range == -(2^(Int32Bits - 1))..(2^(Int32Bits - 1) - 1)

Abs(x) == IF x < 0 THEN -x ELSE x

Fin(x) == [k |-> "fin", h |-> 2 * x]
NaN == [k |-> "nan"]
Inf(sign) == [k |-> "inf", h |-> sign]

IsIntegral(d) == d.k = "fin" /\ d.h % 2 = 0
ValueOf(d) == d.h \div 2          \* of an integral finite double

(* A magnitude rounded to MantissaBits significant bits, ties to even:     *)
(* the IEEE conversion of an integer to double.                            *)
RoundMagnitude(m) ==
    IF m < 2^MantissaBits THEN m
    ELSE LET e == CHOOSE x \in 1..(2 * LongBits) :
                      2^(MantissaBits + x - 1) <= m /\ m < 2^(MantissaBits + x)
             u == 2^e
             q == m \div u
             r == m % u
         IN  (IF 2 * r > u \/ (2 * r = u /\ q % 2 = 1) THEN q + 1 ELSE q) * u

(* (double)n for an integer n.                                              *)
ToDouble(n) == Fin(IF n < 0 THEN -RoundMagnitude(-n) ELSE RoundMagnitude(n))

(* The doubles a script can hand to the converter: every representable    *)
(* value up to twice the int64 range, the halves below 2^(MantissaBits-1), *)
(* NaN and both infinities.                                                 *)
Doubles ==
    {ToDouble(n) : n \in -(2^LongBits)..(2^LongBits)}
    \cup {[k |-> "fin", h |-> 2 * n + 1] : n \in -(2^(MantissaBits - 1))..(2^(MantissaBits - 1) - 1)}
    \cup {NaN, Inf(1), Inf(-1)}

(* The truth values `d == (int64_t)d` can take.  Inside the int64 range    *)
(* the cast truncates toward zero; outside it (NaN, infinities, |d| >=     *)
(* 2^63) the cast is undefined and may yield any int64, which the          *)
(* comparison converts back to double.                                      *)
SameAsInt64Cast(d) ==
    IF d.k = "fin" /\ d.h \div 2 \in LongRange /\ (d.h + 1) \div 2 \in LongRange
    THEN {IsIntegral(d)}
    ELSE {ToDouble(v) = d : v \in LongRange}

(* d >= FIXNUM_MIN && d <= FIXNUM_MAX: both bounds are converted to       *)
(* double, and (double)FIXNUM_MAX rounds up to 2^(LongBits-2).            *)
WithinFixnumBounds(d) ==
    /\ d.k = "fin"
    /\ d.h >= ToDouble(FIXNUM_MIN).h
    /\ d.h <= ToDouble(FIXNUM_MAX).h

Long2Fix(l) == ((l - FIXNUM_MIN) % 2^(LongBits - 1)) + FIXNUM_MIN

RubyInteger(x) == [cls |-> "Integer", n |-> x]
RubyFloat(x) == [cls |-> "Float", d |-> x]

(* Mutant: the integral test `d == (int64_t)d` left out.                   *)
JsToRubyNumberNoIntegralTest(d) ==
    IF WithinFixnumBounds(d) THEN {RubyInteger(Long2Fix(d.h \div 2))}
    ELSE {RubyFloat(d)}

(* js_to_ruby on a number: every Ruby value it may return for double d.   *)
JsToRubyNumber(d) ==
    {IF same /\ WithinFixnumBounds(d) THEN RubyInteger(Long2Fix(ValueOf(d)))
     ELSE RubyFloat(d) : same \in SameAsInt64Cast(d)}

(* JS_NewInt64: an int32-tagged value when v fits, else JS_NewFloat64.    *)
(* Either way the number later read back by JS_ToFloat64 is (double)v.    *)
JS_NewInt64(v) == IF v \in Int32Range THEN Fin(v) ELSE ToDouble(v)

(* Mutant: a Fixnum handed to JS_NewInt32, keeping only its low bits.     *)
RubyToJsNumberInt32(r) ==
    IF r.cls = "Integer"
    THEN LET low == ((r.n + 2^(Int32Bits - 1)) % 2^Int32Bits) - 2^(Int32Bits - 1)
         IN  IF r.n \in FIXNUM_MIN..FIXNUM_MAX THEN Fin(low) ELSE ToDouble(r.n)
    ELSE r.d

(* ruby_to_js on a number: a Fixnum through JS_NewInt64, a Bignum through *)
(* NUM2DBL (rounded to nearest) and a Float as it is.                     *)
RubyToJsNumber(r) ==
    IF r.cls = "Integer"
    THEN IF r.n \in FIXNUM_MIN..FIXNUM_MAX THEN JS_NewInt64(r.n) ELSE ToDouble(r.n)
    ELSE r.d

(* The Ruby numbers a host can pass: every Integer up to twice the int64  *)
(* range (Fixnums and Bignums) and every double as a Float.               *)
RubyNumbers ==
    {RubyInteger(n) : n \in -(2^LongBits)..(2^LongBits)} \cup {RubyFloat(d) : d \in Doubles}

-----------------------------------------------------------------------------
(* One conversion at a time: a script result read back by sandbox_eval    *)
(* (js_to_ruby), or a host value passed in by set_variable and read back  *)
(* as the result of evaluating the variable (ruby_to_js, then js_to_ruby). *)
VARIABLE last

ConvertToRuby(d) ==
    \E out \in JsToRubyNumber(d) : last' = [dir |-> "js", in |-> d, out |-> out]

RoundTrip(r) ==
    \E out \in JsToRubyNumber(RubyToJsNumber(r)) :
        last' = [dir |-> "rb", in |-> r, out |-> out]

Init == last = [dir |-> "none"]

Next == \/ \E d \in Doubles : ConvertToRuby(d)
        \/ \E r \in RubyNumbers : RoundTrip(r)

Spec == Init /\ [][Next]_last

TypeOK ==
    last.dir = "none"
    \/ (/\ last.dir \in {"js", "rb"}
        /\ last.out \in {RubyInteger(n) : n \in FIXNUM_MIN..FIXNUM_MAX}
                        \cup {RubyFloat(d) : d \in Doubles})

NonIntegersStayFloats ==
    last.dir = "js" /\ ~IsIntegral(last.in) => last.out = RubyFloat(last.in)

(* A host Integer that a double holds exactly (|n| <= 2^MantissaBits)     *)
(* comes back from the script as the same Integer: ruby_to_js and         *)
(* js_to_ruby are inverse on it.                                           *)
ExactIntegersRoundTrip ==
    last.dir = "rb" /\ last.in.cls = "Integer" /\ Abs(last.in.n) <= 2^MantissaBits
        => last.out = last.in

=============================================================================
