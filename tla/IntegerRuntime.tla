---------------------------- MODULE IntegerRuntime ----------------------------
(***************************************************************************)
(* The emitted integer code at run time: the operations of                 *)
(* IntegerConversion, with a division carried out by the helpers, the loop *)
(* of LongDivision one iteration a step.  Signed division gives the loop   *)
(* magnitudes and puts the signs back.  One thread runs all of it, so an   *)
(* operation waits for the helper it called.                               *)
(***************************************************************************)
EXTENDS IntegerConversion

VARIABLES dividend, divisor, quotient, remainder, i, pc   \* the helper's locals

Loop == INSTANCE LongDivision

call    == <<dividend, divisor, quotient, remainder, i, pc>>
runVars == <<vars, call>>

\* no helper is running
Idle == pc = "idle"
RunInit ==
  /\ Init
  /\ dividend = 0 /\ divisor = 0 /\ quotient = 0 /\ remainder = 0
  /\ i = Loop!FirstIndex /\ pc = "idle"

\* any operation but a division
Operation ==
  /\ Idle
  /\ \/ Read \/ ThroughMember \/ Cast \/ Compare
     \/ Arithmetic \/ BitwiseOp \/ Minus \/ ShiftLeft \/ ShiftRight
  /\ UNCHANGED call

Enter(a, b, where) ==
  /\ dividend' = a /\ divisor' = b /\ quotient' = 0 /\ remainder' = 0
  /\ i' = Loop!FirstIndex /\ pc' = where

\* __c2pnk_u64_div or _rem, also with the divisor zero
CallUnsigned ==
  /\ Idle /\ Operands /\ ~x.type.signed
  /\ Enter(x.word, y.word, "loop")
  /\ UNCHANGED vars

\* __c2pnk_i64_div or _rem past its early returns
CallSigned ==
  /\ Idle /\ Operands /\ x.type.signed
  /\ y.word # 0 /\ ~(x.word = IntMin(x.type.bits) /\ y.word = MinusOne)
  /\ Enter(Abs(x.word), Abs(y.word), "loop")
  /\ UNCHANGED vars

HelperStep == Loop!Next /\ UNCHANGED vars

\* x becomes x / y or x % y
Answer ==
  /\ pc = "done" /\ y.c # 0
  /\ LET t == x.type
         q == Quotient(x.c, y.c)
     IN  \/ Becomes(t, q, WithSign(t.signed /\ QuotientSign(x.word, y.word), quotient))
         \/ Becomes(t, x.c - q * y.c, WithSign(t.signed /\ Negative(x.word), remainder))
  /\ Enter(0, 0, "idle")

\* after a division by zero what the program does is not C's to say
Undefined == pc = "done" /\ y.c = 0 /\ UNCHANGED runVars

RunNext == Operation \/ CallUnsigned \/ CallSigned \/ HelperStep \/ Answer \/ Undefined

\* a helper is straight-line code, which runs on
RunSpec == RunInit /\ [][RunNext]_runVars /\ WF_runVars(HelperStep)

-----------------------------------------------------------------------------
(* Properties, with Canonical of IntegerConversion.                        *)

\* Whatever the program divides, the shift of the remainder pushes no bit out
\* of the word, although a divisor may be larger than half of what fits.
NoBitLost == Loop!NoBitLost

\* A helper that returns has the quotient and the remainder of its arguments,
\* and zero for the divisor zero.
Correct == Loop!Correct

\* A helper that is called returns, although its counter is unsigned.
Termination == Loop!Termination
===============================================================================
