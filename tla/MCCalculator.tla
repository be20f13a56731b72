------------------------------ MODULE MCCalculator ------------------------------
(* The instance of Calculator that TLC checks. *)
EXTENDS Calculator

\* A number as it is typed, with its sign.
Digits(n) == IF n < 0 THEN <<Char("-"), Num(-n)>> ELSE <<Num(n)>>
Expression(a, c, b) == Digits(a) \o <<Char(c)>> \o Digits(b)

\* Lines that are right, that fail in each way, that stop short and that go on.
Few ==
    {<<>>, Expression(7, "+", 5), Expression(-7, "%", 3), Expression(3, "/", 4),
     <<Char("x"), Num(1)>>, <<Num(2), Char("*"), Char("x"), Num(5)>>, <<Num(3), Char("-")>>,
     Expression(6, "-", 2) \o <<Num(1)>>}

\* Up to three of these lines, or one line with any expression.
SetOfInputs ==
    (UNION {[1..n -> Few] : n \in 0..3})
    \cup {<<Expression(a, c, b)>> : a \in Ints, c \in {"+", "-", "*", "%"}, b \in Ints}
================================================================================
