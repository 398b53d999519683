------------------------------ MODULE Numbers ------------------------------
(***************************************************************************)
(* The numbers that nodes of the expression tree evaluate to, and the      *)
(* three eval_opcode functions of ExprNode.cc that compute with them.      *)
(*                                                                         *)
(* A double is abstracted by a power series in one variable t, cut after   *)
(* Order terms, with coefficients in the field of 17 elements.  A constant *)
(* is a series whose other terms vanish.  In this ring every function of   *)
(* the C library the preprocessor calls has exact values that satisfy the  *)
(* laws the tree transformations rely on: exp(a+b) = exp(a)*exp(b),        *)
(* log(exp(a)) = a, sin(acos(x)) = sqrt(1-x^2), and the derivative of      *)
(* f(x(t)) in t is f'(x(t))*x'(t).  A value the ring does not have (a      *)
(* division by zero, a logarithm of something other than 1 or e ...) is    *)
(* NaN, which spreads, and which the properties leave aside.               *)
(***************************************************************************)
EXTENDS Integers, Sequences

CONSTANT Order        \* number of terms kept
ASSUME OrderAssumption == Order \in 2..5

P     == 17
Field == 0 .. P-1
NaN   == <<>>
Idx   == 1 .. Order

Num(c)      == [i \in Idx |-> IF i = 1 THEN c % P ELSE 0]
Lift(c)     == IF 2*c > P THEN c - P ELSE c       \* c as a signed number
Const(s)    == s # NaN /\ \A i \in Idx : i > 1 => s[i] = 0
InvF        == [c \in 1..P-1 |-> CHOOSE d \in 1..P-1 : (c*d) % P = 1]
RootF       == [c \in {(d*d) % P : d \in Field} |->
                   CHOOSE d \in 0..P \div 2 : (d*d) % P = c]

(* Ring operations and their inverses, term by term. *)
RECURSIVE Tot(_, _)
Tot(f, i) == IF i = 0 THEN 0 ELSE f[i] + Tot(f, i-1)

Add(a, b) == IF NaN \in {a, b} THEN NaN ELSE [i \in Idx |-> (a[i] + b[i]) % P]
Neg(a)    == IF a = NaN THEN NaN ELSE [i \in Idx |-> (P - a[i]) % P]
Sub(a, b) == Add(a, Neg(b))
Mul(a, b) == IF NaN \in {a, b} THEN NaN
             ELSE [i \in Idx |-> Tot([j \in 1..i |-> a[j] * b[i+1-j]], i) % P]
Recip(b) ==
  IF b = NaN \/ b[1] = 0 THEN NaN
  ELSE LET c[i \in Idx] == IF i = 1 THEN InvF[b[1]]
             ELSE ((P - InvF[b[1]]) * Tot([j \in 1..i-1 |-> b[j+1] * c[i-j]], i-1)) % P
       IN [i \in Idx |-> c[i]]
Div(a, b) == Mul(a, Recip(b))
Root(a) ==                     \* square root
  IF a = NaN \/ a[1] = 0 \/ a[1] \notin DOMAIN RootF
  THEN (IF a = Num(0) THEN Num(0) ELSE NaN)
  ELSE LET r[i \in Idx] == IF i = 1 THEN RootF[a[1]]
             ELSE ((a[i] - Tot([j \in 1..i-2 |-> r[j+1] * r[i-j]], i-2))
                     * InvF[(2 * RootF[a[1]]) % P]) % P
       IN [i \in Idx |-> r[i]]

(* The derivative in t and the primitive with constant term c. *)
Diff(a)  == IF a = NaN THEN NaN
            ELSE [i \in Idx |-> IF i = Order THEN 0 ELSE (i * a[i+1]) % P]
Integral(a, c) == IF a = NaN THEN NaN
            ELSE [i \in Idx |-> IF i = 1 THEN c ELSE (a[i-1] * InvF[i-1]) % P]

(* The constants of the functions: e, pi, and one point of cosh. *)
E == 3      Pi == 2     HalfPi == 1    Log10E == 5     CoshPoint == 3     CoshArg == 7

(* exp, and sin with cos, solve x' = a'x, and s' = a'c, c' = -a's, from    *)
(* where they are known: at 0 and 1, at 0 and pi/2; sinh and cosh solve    *)
(* s' = a'c, c' = a's and are known at 0 and at one point more.            *)
ExpFrom(a, x1) ==
  LET x[i \in Idx] == IF i = 1 THEN x1
        ELSE (Tot([j \in 1..i-1 |-> j * a[j+1] * x[i-j]], i-1) * InvF[i-1]) % P
  IN [i \in Idx |-> x[i]]
TrigFrom(a, sgn, w1) ==
  LET w[i \in Idx] == IF i = 1 THEN w1
        ELSE <<(Tot([j \in 1..i-1 |-> j * a[j+1] * w[i-j][2]], i-1) * InvF[i-1]) % P,
               (sgn * Tot([j \in 1..i-1 |-> j * a[j+1] * w[i-j][1]], i-1) * InvF[i-1]) % P>>
  IN <<[i \in Idx |-> w[i][1]], [i \in Idx |-> w[i][2]]>>
TrigPoints == [p \in {<<-1, 0>>, <<-1, HalfPi>>, <<1, 0>>, <<1, CoshArg>>} |->
                 IF p[2] = 0 THEN <<0, 1>> ELSE IF p[1] = -1 THEN <<1, 0>> ELSE <<5, CoshPoint>>]

Exp(a) == IF a = NaN THEN NaN
          ELSE IF Lift(a[1]) \in 0..1 THEN ExpFrom(a, IF a[1] = 0 THEN 1 ELSE E) ELSE NaN
Log(a) == IF a = NaN \/ a[1] \notin {1, E} THEN NaN
          ELSE Integral(Div(Diff(a), a), IF a[1] = 1 THEN 0 ELSE 1)
(* <<sin, cos>> for sgn = -1, <<sinh, cosh>> for sgn = 1.                  *)
Trig(a, sgn) == IF a = NaN THEN <<NaN, NaN>>
                ELSE IF <<sgn, a[1]>> \notin DOMAIN TrigPoints THEN <<NaN, NaN>>
                ELSE TrigFrom(a, sgn, TrigPoints[<<sgn, a[1]>>])
One   == Num(1)
Sqr(a) == Mul(a, a)
At(a, c, d, v) ==  \* the primitive of a'*d that is v where a is c
  IF a = NaN \/ a[1] # c THEN NaN ELSE Integral(Mul(Diff(a), d), v)
Erf(a) == At(a, 0, Mul(Num(2 * InvF[RootF[Pi]]), Exp(Neg(Sqr(a)))), 0)

(* The order of the ring: signs of the first terms that differ from 0. *)
Positive(a) == \E i \in Idx : Lift(a[i]) > 0 /\ \A j \in 1..i-1 : a[j] = 0
Less(a, b)  == Positive(Sub(b, a))
Bool(x)     == IF x THEN One ELSE Num(0)

Whole == -4..4          \* the constants that count as integers in a power
RECURSIVE IntPow(_, _)
IntPow(a, n) == IF n = 0 THEN One
                ELSE IF n > 0 THEN Mul(a, IntPow(a, n-1)) ELSE Recip(IntPow(a, -n))
Pow(a, b) == IF NaN \in {a, b} THEN NaN
             ELSE IF Const(b) /\ Lift(b[1]) \in Whole THEN IntPow(a, Lift(b[1]))
             ELSE Exp(Mul(b, Log(a)))
=============================================================================
