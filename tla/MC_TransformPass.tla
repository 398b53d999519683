------------------------- MODULE MC_TransformPass -------------------------
(***************************************************************************)
(* Model files for TransformPass: an equation for y made of two terms that *)
(* are combined in one of several ways, and an equation for x.             *)
(***************************************************************************)
EXTENDS ComputingPass

X(k) == Variable("x", "eEndogenous", k)
Y(k) == Variable("y", "eEndogenous", k)
U(k) == Variable("u", "eExogenous", k)
A    == Variable("a", "eParameter", 0)
G    == Variable("g", "eExogenous", 0)
D    == Variable("d", "eExogenousDet", 0)
T    == Variable("T", "eTrend", 0)
ExpOf(e) == Op1("oExp", e)
Ln(e) == Op1("oLog", e)

XRule == Built(Equal(X(0), Plus(Times(A, X(-1)), U(0))))
File(rhs) ==
  [eqs |-> << Built(Equal(Y(0), rhs)), XRule >>, locals |-> <<>>, endogenous |-> <<"x", "y">>,
   objective |-> Equation(Zero, Zero), predetermined |-> {}, growth |-> <<>>,
   nonstationary |-> <<>>, stochastic |-> TRUE, logpow |-> FALSE, ramsey |-> FALSE,
   symbols |-> <<X(0), U(0), D, Y(0), A, G, Beta>>, wanted |-> {}]

Leads == {X(3), X(2), X(1), Y(1), U(1), U(2), X(-2), U(-1)}
Combined(s, t) ==
  { Times(s, t), Plus(ExpOf(s), t), ExpOf(Times(s, t)), Over(s, t), Times(s, UMinus(t)),
    Times(Plus(s, A), t), Op2("oMax", s, t), Op3("oNormcdf", s, t, Two) }
Plain == {[File(e) EXCEPT !.stochastic = b] :
            e \in UNION {Combined(s, t) : s \in Leads, t \in Leads}, b \in BOOLEAN}

(* Local variables, one of which uses the other.                           *)
First(e)  == LocalVariable("l", Built(e))
Second(e) == LocalVariable("m", Built(Times(First(e), X(-3))))
WithLocals ==
  {[File(r) EXCEPT !.stochastic = b, !.locals = <<First(e), Second(e)>>] :
     b \in BOOLEAN, <<e, r>> \in UNION {{<<e, Plus(First(e), Times(First(e), s))>>,
                                         <<e, ExpOf(Times(Second(e), s))>>} :
                        e \in {ExpOf(X(2)), Times(U(1), X(1)), Times(U(-1), X(-2)), Plus(X(2), U(2))},
                        s \in {X(1), X(2), X(-1)}}}

(* Expectations, some of them nested.                                      *)
Expect(k, e) == Expectation(k, e)
Expectations ==
  {File(r) : r \in UNION {{Times(Expect(k, ExpOf(s)), A), Expect(k, Times(s, Expect(j, ExpOf(Y(1))))),
                           Plus(Expect(k, ExpOf(s)), Ln(Expect(k, ExpOf(s))))} :
                s \in {X(2), X(1), U(1)}, k \in {-1, 0, 1}, j \in {-1, 0}}}

(* Logarithms and powers.                                                  *)
Logs == {[File(r) EXCEPT !.logpow = TRUE] :
           r \in UNION {{Ln(Times(s, t)), Power(Plus(s, t), A), Power(s, Two),
                         Op1("oSqrt", Times(s, Ln(t))), Times(Ln(s), Ln(t)),
                         Times(Power(s, A), Op1("oSqrt", t))} :
                  s \in {X(2), X(1), X(0), Y(-1), U(1)}, t \in {X(2), X(1), X(0), U(0)}}}
LogExpect == {[f EXCEPT !.logpow = TRUE] : f \in Expectations}

(* Predetermined and nonstationary variables.                              *)
Predetermined == {[File(e) EXCEPT !.predetermined = p] :
                    e \in UNION {Combined(s, t) : s \in {X(2), X(1), X(-1)}, t \in {Y(2), U(1)}},
                    p \in {{"x"}, {"x", "y"}}}
Trends == {[File(e) EXCEPT !.growth = [x \in {"T"} |-> G], !.nonstationary = [i \in DOMAIN n |-> <<n[i][1], Built(n[i][2])>>], !.predetermined = p] :
             e \in UNION {Combined(s, t) : s \in {X(2), X(-2)}, t \in {Y(2), Y(-1), U(1)}},
             p \in {{}, {"y"}},
             n \in {<< <<"y", T>> >>, << <<"x", Times(T, T)>>, <<"y", T>> >>}}

(* The planner's problem.                                                  *)
Planner == {[File(e) EXCEPT !.ramsey = TRUE, !.objective = Built(Equal(o, Zero)), !.logpow = b] :
              e \in UNION {{Times(s, t), Plus(Power(s, Two), t), Over(s, t)} :
                       s \in {X(1), X(2), X(-1)}, t \in {Y(1), Y(-2), U(1), X(2)}}
                    \cup {Expect(k, Times(X(1), Y(1))) : k \in {-1, 0}},
              o \in {Minus(Times(X(0), X(0)), Y(0)), Times(X(0), Power(Y(0), Two))},
              b \in BOOLEAN}

(* Derivatives of higher order and by parameters.                          *)
Deriving ==
  {[File(e) EXCEPT !.wanted = k] :
     e \in UNION {{Times(Times(s, t), U(0)), ExpOf(Plus(Times(A, s), t)), Power(s, A), Over(A, Times(s, t)),
                   Times(Power(A, Two), Times(s, s)), Times(Times(s, t), Times(A, Beta)), Plus(Times(D, s), t),
                   Op3("oNormcdf", s, t, A)}
                  : s \in {X(1), Y(-1), X(2)}, t \in {Y(1), Y(0), X(-1)}},
     k \in {{"hessian", "notmpterms"}, {"hessian", "third", "use_dll"}, {"hessian", "third", "params"}}}

Files == Deriving \cup Plain \cup WithLocals \cup Expectations \cup Logs \cup LogExpect \cup Predetermined
           \cup Trends \cup Planner
=============================================================================
