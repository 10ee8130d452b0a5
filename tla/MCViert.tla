------------------------------ MODULE MCViert ------------------------------
(***************************************************************************)
(* Programs for viert: every primitive and every word of the dictionary,   *)
(* with what Forth says they leave on the stack (its top first) and print. *)
(***************************************************************************)
EXTENDS Viert, SequencesExt

Values == {0, 7, 255, 256, MaxInt - 1, MaxInt, W - 1}
Few == {0, 10, MaxInt + 3}

Program(body, leaves, prints, ends) ==
  [ code |-> body \o F("exit"), leaves |-> leaves, prints |-> prints,
    ends |-> ends ]
P(body, leaves) == Program(body, leaves, << >>, {"exited"})
Printing(body, leaves, prints) == Program(body, leaves, prints, {"exited"})

Minus(a) == (W - a) % W

Unary ==
  UNION { { P(Lit(a) \o F("not"), << Not(a) >>),
            P(Lit(a) \o F("not2"), << Not(a) >>),
            P(Lit(a) \o F("0ne"), << IF a = 0 THEN 0 ELSE True >>),
            P(Lit(a) \o F("inc"), << (a + 1) % W >>),
            P(Lit(a) \o F("dec"), << (a + W - 1) % W >>),
            P(Lit(a) \o F("negate"), << Minus(a) >>),
            P(Lit(a) \o F("dup"), << a, a >>) } : a \in Values }

Binary ==
  UNION { LET on(name, leaves) == P(Lit(a) \o Lit(b) \o F(name), leaves)
          IN  { on("plus", << (a + b) % W >>),
                on("minus", << (a + Minus(b)) % W >>),
                on("and", << And(a, b) >>),
                on("or", << Or(a, b) >>),
                on("nor", << Not(Or(a, b)) >>),
                on("nand", << Not(And(a, b)) >>),
                on("nand2", << Not(And(a, b)) >>),
                on("swap", << a, b >>),
                on("2dup", << b, a, b, a >>),
                IF b = 0 THEN Program(Lit(a) \o Lit(b) \o F("divmod"),
                                      << >>, << >>, {"sigfpe"})
                         ELSE on("divmod", << a \div b, a % b >>) }
          : a, b \in Values }

\* udot's ten digits, dot's sign.
Udot(n) == [i \in 1 .. 10 |-> 48 + ((n \div 10^(10 - i)) % 10)] \o << 10 >>
Dot(n) == IF n >= MaxInt THEN << 45 >> \o Udot(Minus(n)) ELSE Udot(n)

Numbers ==
  { Printing(Lit(a) \o F("dup") \o F("dot"), << a >>, Dot(a)) : a \in Few }

\* if ... else ... then; and loops around the words.
Control ==
  { P(Lit(5) \o Lit(b) \o IfElse(F("inc"), F("dec")),
      << IF b = 0 THEN 4 ELSE 6 >>) : b \in {0, 1, MaxInt} }
  \cup
  { P(Lit(5) \o DoLoop(3, F("negate")), << W - 5 >>),
    P(F("1") \o F("true") \o If(Lit(8) \o F("1")) \o F("2drop"), << 1 >>),
    P(Lit(6) \o Lit(7) \o Lit(8) \o F("rot"), << 6, 8, 7 >>),
    \* the counter of a loop, read where rp_at says it is
    P(DoLoop(3, F("rp_at") \o F("fetch")), << 1, 2, 3 >>),
    P(DoLoop(2, DoLoop(2, F("1"))), << 1, 1, 1, 1 >>),
    P(Lit(3) \o F("rspush") \o F("1") \o F("rdrop"), << 1 >>),
    \* a cell of the data stack, replaced where sp_at says it is
    P(Lit(5) \o Lit(9) \o F("sp_at") \o Lit(3) \o F("swap") \o F("store"),
      << 3, 5 >>),
    P(String(<< 65, 66 >>) \o F("drop") \o F("fetch"), << (65 + 256 * 66) % W >>),
    \* a program that fills the stack
    Program(F("1") \o F("dup") \o F("branch") \o << 254 >>, << >>, << >>,
            {"sigsegv"}) }

Output ==
  { Printing(String(<< 72, 105 >>) \o F("puts") \o F("nl") \o Lit(7),
             << 7 >>, << 72, 105, 10 >>),
    Printing(F("1") \o Lit(65) \o F("emit") \o Lit(66) \o F("emit"),
             << 1 >>, << 65, 66 >>),
    Printing(Lit(321) \o F("emit"), << >>, << 65 >>),
    Program(Lit(65) \o F("dupemit") \o F("inc") \o F("dupemit"),
            << 66 >>, << 65, 66 >>, {"exited", "wild"}) }

\* 0lt leaves its flag twice; this is what a program that drops one sees.
Flags == { P(Lit(a) \o F("0lt") \o F("drop"), << IF a < MaxInt THEN 0 ELSE True >>)
             : a \in Values }

\* Loop counters on the return stack, Gap of them at most: nothing keeps one
\* more from replacing the cell at the bottom of the data stack.
Nested(n) ==
  Lit(1) \o Lit(2) \o FlattenSeq([i \in 1 .. n |-> Lit(9) \o F("rspush")])
    \o FlattenSeq([i \in 1 .. n |-> F("rdrop")])
Deep   == { P(Nested(Gap - 1), << 2, 1 >>), P(Nested(Gap), << 2, 1 >>) }
Deeper == { P(Nested(Gap + 1), << 2, 9 >>) }

Lawful == Unary \cup Binary \cup Numbers \cup Control \cup Output \cup Deep

CodeOf(claims) == {claim.code : claim \in claims}

\* Any two pieces of code after seven literals, of which some are addresses:
\* in the data stack, in the return stack, between them, in the code.
Pushed == Lit(DataBase - 6) \o Lit(0) \o Lit(W - 1) \o Lit(ReturnBase - 3)
            \o Lit(MaxInt) \o Lit(3) \o Lit(DataBase - 4)
Pieces ==
  LET words == {F(name) : name \in
        {"swap", "dup", "over", "drop", "rot", "store", "fetch", "sp_at",
         "rp_at", "0ne", "nand", "nand2", "dupemit", "plus", "not", "and",
         "or", "nor", "not2", "divmod", "false", "true", "negate", "minus",
         "2dup", "2drop", "emit"}}
      simple == {F("drop"), F("plus"), F("dupemit"), F("rp_at"), F("2dup")}
  IN  words \cup {If(w) : w \in simple} \cup {DoLoop(2, w) : w \in simple}
            \cup {IfElse(w, F("swap")) : w \in simple}
Pairs == {Pushed \o p \o q \o F("exit") : p, q \in Pieces}

Claimed == Lawful \cup Flags \cup Deeper
Tested == CodeOf(Claimed)
Refining == CodeOf(Lawful) \cup Pairs
NoClaims == {}
=============================================================================
