------------------------------ MODULE WasmArith ------------------------------
(***************************************************************************)
(* Python integers on the emitted i64 helpers, at any width.  A result is  *)
(* a set: {v}, or {} when the helper traps, so that a trap in an operand   *)
(* is a trap of the expression.                                            *)
(***************************************************************************)
EXTENDS Integers

CONSTANTS
  Half,    \* 2^(Bits - 1): the values are -Half .. Half - 1
  Bits     \* the width of a word: 64 in the code

ASSUME WidthAssumption == Half \in Nat \ {0} /\ Bits \in Nat \ {0}

I64 == -Half .. (Half - 1)

(* What i64.add, i64.sub, i64.mul and i64.shl keep of an exact result. *)
wrap(n) == ((n + Half) % (2 * Half)) - Half

FloorDiv(a, b) == IF b > 0 THEN a \div b ELSE (-a) \div (-b)

(* Division towards zero. *)
Magnitude(a) == IF a < 0 THEN -a ELSE a
Trunc(a, b) ==
  LET q == Magnitude(a) \div Magnitude(b) IN IF (a < 0) = (b < 0) THEN q ELSE -q

(* i64.div_s and i64.rem_s: a zero divisor traps, and so does MIN / -1. *)
div_s(a, b) == IF b = 0 \/ (a = -Half /\ b = -1) THEN {} ELSE {Trunc(a, b)}
rem_s(a, b) == IF b = 0 THEN {} ELSE {a - b * Trunc(a, b)}

-----------------------------------------------------------------------------
(* Slip: looks at the sign of one operand only. *)
add_i64_half_checked(x, y) ==
  LET r == wrap(x + y) IN IF (x < 0) # (r < 0) /\ x >= 0 THEN {} ELSE {r}

(* __wasm_add_i64: overflow iff both operands share a sign r does not. *)
add_i64(x, y) ==
  LET r == wrap(x + y) IN
  IF (x < 0) # (r < 0) /\ (y < 0) # (r < 0) THEN {} ELSE {r}

(* __wasm_sub_i64: overflow iff the operands differ in sign and r has y's. *)
sub_i64(x, y) ==
  LET r == wrap(x - y) IN
  IF (x < 0) # (y < 0) /\ (x < 0) # (r < 0) THEN {} ELSE {r}

(* __wasm_mul_i64: r / x must give y back; MIN / -1 traps by itself. *)
mul_i64(x, y) ==
  LET r == wrap(x * y) IN
  IF x = 0 THEN {0} ELSE IF div_s(r, x) = {y} THEN {r} ELSE {}

(* -x is x * -1 through the checked multiply. *)
neg_i64(x) == mul_i64(x, -1)

(* Slip: corrects the quotient of an exact division too. *)
floordiv_i64_eager(a, b) ==
  UNION {{IF (r < 0) # (b < 0) THEN q - 1 ELSE q : q \in div_s(a, b)} : r \in rem_s(a, b)}

(* __wasm_floordiv_i64: the quotient rounds down when a remainder is left    *)
(* whose sign is not the divisor's.                                          *)
floordiv_i64(a, b) ==
  UNION {{IF r # 0 /\ (r < 0) # (b < 0) THEN q - 1 ELSE q : q \in div_s(a, b)} : r \in rem_s(a, b)}

(* __wasm_floormod_i64: a - b * (a // b), so MIN % -1 traps with it. *)
floormod_i64(a, b) == {wrap(a - wrap(b * q)) : q \in floordiv_i64(a, b)}

(* __wasm_shl_i64: a negative count traps, a large one traps unless x is 0,  *)
(* any other wraps.                                                          *)
shl_i64(x, n) ==
  IF n < 0 THEN {}
  ELSE IF n >= Bits THEN (IF x = 0 THEN {0} ELSE {})
  ELSE {wrap(x * 2^n)}

(* Slip: the count is masked, as i64.shr_s does. *)
shr_i64_masked(x, n) == IF n < 0 THEN {} ELSE {x \div 2^(n % Bits)}

(* __wasm_shr_i64: a negative count traps, a large one saturates. *)
shr_i64(x, n) ==
  IF n < 0 THEN {} ELSE {x \div 2^(IF n < Bits THEN n ELSE Bits - 1)}

(* __wasm_abs_i64: 0 - x with a bare i64.sub. *)
abs_i64(x) == {IF x < 0 THEN wrap(0 - x) ELSE x}

min_i64(a, b) == {IF a < b THEN a ELSE b}
max_i64(a, b) == {IF a > b THEN a ELSE b}
=============================================================================
