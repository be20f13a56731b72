------------------------------- MODULE Calculator -------------------------------
(***************************************************************************)
(* Assignment_3: the calculator syscall_operation.c and the system calls it  *)
(* makes, sys_basic_add, sys_basic_sub, sys_basic_mul and sys_basic_mod, by  *)
(* their numbers in syscall_64.tbl.                                          *)
(*                                                                           *)
(* The calculator reads "%d %c %d" with scanf, which does not stop at the    *)
(* end of a line.  The input is a sequence of lines and a line a sequence of *)
(* tokens of one character: a number, a character or a newline.  result      *)
(* points wherever the uninitialised variable happens to point: to memory    *)
(* that can be written, that can only be read, or to none.                   *)
(***************************************************************************)
EXTENDS Integers, Sequences, SequencesExt

CONSTANTS
    Width,      \* bits of an int
    Inputs      \* what may be typed: sequences of lines

ASSUME WidthAssumption == Width \in Nat \ {0, 1}

Half == 2 ^ (Width - 1)
Ints == -Half .. Half - 1

Num(n) == [kind |-> "number", value |-> n]
Char(c) == [kind |-> "char", value |-> c]
Newline == [kind |-> "newline", value |-> 0]

\* The lines one after another, each with its newline.
Stream(lines) == FlattenSeq([n \in DOMAIN lines |-> Append(lines[n], Newline)])

VARIABLES
    typed,          \* the lines that are typed
    input,          \* the tokens scanf has not read yet
    state,          \* "prompt", "call", "discard", "print", "killed"
    num1, op, num2, \* the last expression
    result,         \* where result points: "writable", "readonly" or "nowhere"
    memory,         \* *result
    dmesg,          \* what the kernel has logged
    output          \* what the calculator has printed

vars == <<typed, input, state, num1, op, num2, result, memory, dmesg, output>>

Init ==
    /\ typed \in Inputs
    /\ input = Stream(typed)
    /\ state = "prompt"
    /\ num1 = 0 /\ op = "" /\ num2 = 0
    /\ result \in {"writable", "readonly", "nowhere"}
    /\ memory = 0
    /\ dmesg = <<>> /\ output = <<>>
--------------------------------------------------------------------------------
(***************************************************************************)
(* The system calls                                                         *)
(***************************************************************************)
\* What an int holds of a value; the kernel is built with -fno-strict-overflow.
Wrapped(n) == ((n + Half) % (2 * Half)) - Half

\* Mutant: the remainder has the sign of the divisor.
RemainderFloored(a, b) == IF b > 0 THEN a % b ELSE - ((-a) % (-b))

\* % of C: the quotient is cut towards zero.
Remainder(a, b) ==
    LET abs(n) == IF n < 0 THEN -n ELSE n
        r == abs(a) % abs(b)
    IN  IF a < 0 THEN -r ELSE r

\* The instruction for % traps when the divisor is zero or the quotient too large.
Traps(a, b) == b = 0 \/ (a = -Half /\ b = -1)

SyscallTable == [n \in 443..446 |-> <<"add", "sub", "mul", "mod">>[n - 442]]

Value(call, a, b) ==
    CASE call = "add" -> Wrapped(a + b)
      [] call = "sub" -> Wrapped(a - b)
      [] call = "mul" -> Wrapped(a * b)
      [] call = "mod" -> Remainder(a, b)

\* The system call stores its value with put_user, which fails unless result can be
\* written, logs which of the two happened and returns 0.
Syscall(number) ==
    LET call == SyscallTable[number]
    IN  /\ state' = "print"
        /\ \/ /\ result = "writable"
              /\ memory' = Value(call, num1, num2)
              /\ dmesg' = Append(dmesg, <<call, "success">>)
           \/ /\ result # "writable"
              /\ dmesg' = Append(dmesg, <<call, "failed">>)
              /\ UNCHANGED memory
--------------------------------------------------------------------------------
(***************************************************************************)
(* scanf and getchar (external)                                             *)
(***************************************************************************)
\* The input behind the blanks in front of it.
Skip(tokens) ==
    LET first == SelectInSeq(tokens, LAMBDA t : t # Newline)
    IN  IF first = 0 THEN <<>> ELSE SubSeq(tokens, first, Len(tokens))

\* %d: a number, which may have a sign; [ok, value, rest].
ScanNumber(tokens) ==
    LET t == Skip(tokens)
        signed == t # <<>> /\ Head(t) \in {Char("+"), Char("-")}
        u == IF signed THEN Tail(t) ELSE t
    IN  IF u # <<>> /\ Head(u).kind = "number"
        THEN [ok |-> TRUE, rest |-> Tail(u),
              value |-> Wrapped(IF Head(t) = Char("-") THEN - Head(u).value ELSE Head(u).value)]
        ELSE [ok |-> FALSE, rest |-> u, value |-> 0]

\* " %c": any one character that is no blank.
ScanChar(tokens) ==
    LET t == Skip(tokens)
    IN  IF t # <<>> THEN [ok |-> TRUE, rest |-> Tail(t),
                           value |-> IF Head(t).kind = "char" THEN Head(t).value ELSE "digit"]
        ELSE [ok |-> FALSE, value |-> "", rest |-> t]

\* scanf("%d %c %d"): items is the number of conversions, the return value.
Scan(tokens) ==
    LET a == ScanNumber(tokens)
        c == ScanChar(a.rest)
        b == ScanNumber(c.rest)
    IN  [items |-> IF ~ a.ok THEN 0 ELSE IF ~ c.ok THEN 1 ELSE IF ~ b.ok THEN 2 ELSE 3,
         a |-> a.value, c |-> c.value, b |-> b.value,
         rest |-> IF ~ a.ok THEN a.rest ELSE IF ~ c.ok THEN c.rest ELSE b.rest]
--------------------------------------------------------------------------------
(***************************************************************************)
(* The calculator                                                           *)
(***************************************************************************)
Reply(what, a, c, b, r) == [what |-> what, a |-> a, op |-> c, b |-> b, r |-> r]
Say(reply) == output' = Append(output, reply)
InputError == Reply("input error", 0, "", 0, 0)
OperatorError == Reply("operator error", 0, "", 0, 0)

\* scanf assigns what it converted, also when it fails.
Assign(s) ==
    /\ num1' = IF s.items >= 1 THEN s.a ELSE num1
    /\ op' = IF s.items >= 2 THEN s.c ELSE op
    /\ num2' = IF s.items = 3 THEN s.b ELSE num2
    /\ input' = s.rest

\* The call numbers of the switch.
Number(c) ==
    CASE c = "+" -> 443 [] c = "-" -> 444 [] c = "*" -> 445 [] c = "%" -> 446

\* scanf waits until something has been typed, or the input has ended.
Read ==
    /\ state = "prompt"
    /\ LET s == Scan(input)
       IN  /\ Assign(s)
           /\ \/ /\ s.items # 3
                 /\ state' = "discard" /\ Say(InputError)
              \/ /\ s.items = 3 /\ s.c \in {"+", "-", "*", "%"}
                 /\ state' = "call" /\ UNCHANGED output
              \/ /\ s.items = 3 /\ s.c \notin {"+", "-", "*", "%"}
                 /\ Say(OperatorError) /\ UNCHANGED state
    /\ UNCHANGED <<typed, result, memory, dmesg>>

\* Mutant: the rest of the line is left for the next scanf.
DiscardNothing ==
    /\ state = "discard" /\ input # <<>>
    /\ state' = "prompt"
    /\ UNCHANGED <<typed, input, num1, op, num2, result, memory, dmesg, output>>

\* getchar up to the newline; at the end of the input it never comes.
Discard ==
    /\ state = "discard" /\ Contains(input, Newline)
    /\ input' = SubSeq(input, SelectInSeq(input, LAMBDA t : t = Newline) + 1, Len(input))
    /\ state' = "prompt"
    /\ UNCHANGED <<typed, num1, op, num2, result, memory, dmesg, output>>

\* syscall; a trap of the instruction in the kernel kills the calculator.
Call ==
    /\ state = "call"
    /\ \/ /\ op = "%" /\ Traps(num1, num2)
          /\ state' = "killed" /\ UNCHANGED <<memory, dmesg>>
       \/ /\ ~ (op = "%" /\ Traps(num1, num2))
          /\ Syscall(Number(op))
    /\ UNCHANGED <<typed, input, num1, op, num2, result, output>>

\* The result is read through the pointer: a signal ends the calculator if there is
\* no memory.
PrintResult ==
    /\ state = "print"
    /\ \/ /\ result = "nowhere"
          /\ state' = "killed" /\ UNCHANGED output
       \/ /\ result # "nowhere"
          /\ Say(Reply("result", num1, op, num2, memory))
          /\ state' = "prompt"
    /\ UNCHANGED <<typed, input, num1, op, num2, result, memory, dmesg>>

Next == Read \/ Discard \/ Call \/ PrintResult

Spec == Init /\ [][Next]_vars
--------------------------------------------------------------------------------
(***************************************************************************)
(* Properties                                                               *)
(***************************************************************************)
\* r is the value of a op b in an int.
Answers(a, c, b, r) ==
    /\ r \in Ints
    /\ CASE c = "+" -> (r - (a + b)) % (2 * Half) = 0
         [] c = "-" -> (r - (a - b)) % (2 * Half) = 0
         [] c = "*" -> (r - a * b) % (2 * Half) = 0
         [] c = "%" -> \E q \in -Half .. Half :
                         a = q * b + r /\ r * r < b * b /\ (r = 0 \/ (r > 0) = (a > 0))

\* Every result that is printed is that of its own expression in an int, if the
\* kernel could store it through result.
AnswersTrue ==
    result = "writable" =>
        \A n \in DOMAIN output :
            output[n].what = "result" =>
                Answers(output[n].a, output[n].op, output[n].b, output[n].r)

\* The line is an expression, is rejected before its end, or is empty: scanf neither
\* goes on behind it nor leaves a part of it.
OwnLine(line) ==
    LET s == Scan(Append(line, Newline))
    IN  line = <<>> \/ (IF s.items = 3 THEN s.rest = <<Newline>> ELSE s.rest # <<>>)

\* What is to be printed for such a line, without the result.
Expected(line) ==
    LET s == Scan(Append(line, Newline))
    IN  IF line = <<>> THEN <<>>
        ELSE IF s.items # 3 THEN <<InputError>>
        ELSE IF s.c \notin {"+", "-", "*", "%"} THEN <<OperatorError>>
        ELSE <<Reply("result", s.a, s.c, s.b, 0)>>

\* Whatever wrong lines come between, the calculator stays in step: when it is back
\* at its prompt it has printed one reply to each line it has read, in their order,
\* and nothing of those lines is left.
InStep ==
    state = "prompt" /\ (\A n \in DOMAIN typed : OwnLine(typed[n])) =>
        \E k \in 0..Len(typed) :
            /\ Skip(input) = Skip(Stream(SubSeq(typed, k + 1, Len(typed))))
            /\ [n \in DOMAIN output |-> [output[n] EXCEPT !.r = 0]]
                 = FlattenSeq([n \in 1..k |-> Expected(typed[n])])
================================================================================
