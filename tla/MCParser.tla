------------------------------ MODULE MCParser ------------------------------
EXTENDS Parser

L(n, ws) == [spaces |-> n, tabs |-> 0, words |-> ws]
Tab(ws) == [spaces |-> 0, tabs |-> 1, words |-> ws]
Ending(ls, nl) == [lines |-> ls, newline |-> nl]

MCComments == [c \in {"--", "--@sql"} |-> IF c = "--" THEN <<>> ELSE <<"sql">>]

(* Lines at the outer level: each kind of declaration, whole and broken. *)
Heads == {<<"unit", "a">>, <<"unit">>, <<"magnitude", "m">>, <<"dimension", "d", ":", "a", "|", "b">>,
    <<"dimension", "d", ":", "a", "+">>, <<"dimension", "d", ":", "[", "a", ",">>,
    <<"dimension", "d", ":", "match", "a", "{", "a", "->", "b">>, <<"x", "d", ":", "match", "a">>,
    <<"xi", "v", ":", "{", "a", ":", "1", "}">>, <<"xi", "v", ":", "f", "(", "a", ",", "b", ".", "c", ")">>,
    <<"dependency", "p", ":", "a", "->", "b">>, <<"morphism", "p">>,
    <<"journey", "j", ":">>, <<"journey">>, <<"projection", "q", ":", "a">>, <<"traversal", "t">>,
    <<"perpendicular", "a", ",", "b">>, <<"perpendicular", "a", ",">>,
    <<"meihua", "f", "(", "a", ":", "unit", ")", ":", "a">>, <<"zhulin", "f", ":">>,
    <<"import", "w">>, <<"containment", ")">>, <<"--@sql">>, <<>>}

(* Lines of a body. *)
Bodies == {<<"carries", ":", "a">>, <<"a", "+">>, <<")">>, <<"unit", "u">>, <<"output", ":", "a", "|>", "b">>,
    <<"output", "omega", "o", ":">>, <<"invariant", "xi", "a">>, <<"cases", ":">>, <<"a", "->", "b">>,
    <<"|>", "a">>, <<"--">>, <<"match", "a">>, <<"if", "a">>}

Tails == {<<"unit", "u">>, <<"magnitude", "m">>, <<"x", "y", ":", "1">>}

Structures ==
    LET Body == {L(n, b) : n \in {1, 2}, b \in Bodies} IN
    {Ending(<<L(0, h), L(2, b)>> \o m \o <<L(0, t)>>, TRUE) :
        h \in Heads, b \in Bodies, m \in {<<>>} \cup {<<L(n, c)>> : n \in {1, 2, 3}, c \in Bodies}, t \in Tails}

Sequels == {Ending(<<L(0, g), L(0, h), L(0, t)>>, nl) : g \in Heads, h \in Heads, t \in Tails, nl \in BOOLEAN}

(* Nesting at every depth, tabs, and blocks that close half way. *)
Nestings == {Ending(<<L(0, <<"traversal", "t">>), L(i, <<"output", ":">>), L(j, <<"a">>), k, L(l, <<"unit", "b">>)>>, nl) :
    i \in 1 .. 2, j \in 1 .. 4, k \in {L(3, <<"a">>), L(0, <<>>), L(0, <<"--">>), Tab(<<"a">>)}, l \in 0 .. 4, nl \in BOOLEAN}

Operands == {<<"a">>, <<"-", "b">>}
Ops == {"->", "|", "|>", "??", "==", "+", "*", "^", "cross"}
Expressions == {Ending(<<L(0, <<"xi", "v", ":">> \o l \o <<o>> \o m \o <<p>> \o r)>>, TRUE) :
    l \in Operands, o \in Ops, m \in Operands, p \in Ops, r \in Operands}

MCTexts == Structures \cup Sequels \cup Nestings \cup Expressions
=============================================================================
