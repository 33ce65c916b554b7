----------------------------- MODULE MCLzFindMt -----------------------------
EXTENDS LzFindMt

(* Bytes with long and short repetitions, near and far, in every phase of  *)
(* the window and of the numbering.                                        *)
Pattern(n, Bit(_)) == [i \in 1 .. n |-> IF Bit(i) THEN 1 ELSE 0]
Mixed == Pattern(92, LAMBDA i : (i * i) % 11 \in {1, 3, 4, 5} \/ i % 13 = 0)
Runs == Pattern(88, LAMBDA i : (i \div 4) % 3 = 0)
Case(m, n, tree, cut, max, in) ==
  [mode |-> m, n |-> n, btMode |-> tree, cutValue |-> cut, matchMaxLen |-> max, input |-> in]
Inputs == {Input(Mixed, 100, 200, FALSE), Input(Mixed, 7, 86, FALSE),
           Input(Runs, 100, 200, FALSE), Input(Mixed, 100, 200, TRUE)}
MCCases == {Case("mt", 2, TRUE, 9, 3, Input(Mixed, 7, 86, FALSE)),
            Case("mt", 3, TRUE, 9, 4, Input(Mixed, 100, 200, FALSE)),
            Case("mt", 4, TRUE, 2, 4, Input(Runs, 100, 200, FALSE)),
            Case("mt", 5, TRUE, 9, 5, Input(Mixed, 100, 200, FALSE))}
           \cup {Case("st", n, TRUE, 9, 5, in) : n \in 2 .. 5, in \in Inputs}
           \cup {Case("st", n, FALSE, c, 5, in) : n \in 4 .. 5, c \in {2, 9}, in \in Inputs}
=============================================================================
