----------------------------- MODULE MCLoggers -----------------------------
(***************************************************************************)
(* Loggers for TLC: both builders and two threads with one pattern; and    *)
(* many patterns with one logger and a single statement.                   *)
(***************************************************************************)
EXTENDS Loggers

CONSTANTS p1, p2

MCProducers == {p1, p2}

Says(payload, level) == [payload |-> payload, level |-> level, file |-> "f.cc", line |-> "7"]
Pattern(tokens) == [text |-> Render(tokens), tokens |-> tokens, whole |-> TRUE]
Broken(tokens, tail) == [text |-> Render(tokens) \o tail, tokens |-> tokens, whole |-> FALSE]
Workload(builders, pattern, limit, statements, calls) ==
  [builders |-> builders, pattern |-> pattern, limit |-> limit,
   statements |-> statements, calls |-> calls]

Char(c) == Item("", <<c>>)
Field(key) == Item(key, <<>>)

\* "%m", lines of one and two characters, and one below the limit.
Short == Says(<<"a">>, 2)
Long == Says(<<"a", "b">>, 3)
Low == Says(<<"c">>, 1)
Plain == Pattern(<<Field("m")>>)

\* Text with every special character, fields with and without "{...}", an unknown one.
Tokens ==
  {Char("a"), Char("%"), Char("{"), Char("}"), Field("m"), Field("d"),
   Item("d", <<"a">>), Item("d", <<"%", "m", "{">>), Item("p", <<"%">>), Field("x")}
Sequences(n) == UNION {[1 .. k -> Tokens] : k \in 0 .. n}
Tails == {<<"%">>, <<"%", "{">>, <<"%", "m", "{">>, <<"%", "d", "{", "a">>, <<"%", "1", "m">>}

\* "[%d{%Y-%m}][%t][%c][%f:%l][%p]-%T%m%n"
Usual ==
  <<Char("["), Item("d", <<"%", "Y", "-", "%", "m">>), Char("]"), Char("["), Field("t"),
    Char("]"), Char("["), Field("c"), Char("]"), Char("["), Field("f"), Char(":"),
    Field("l"), Char("]"), Char("["), Field("p"), Char("]"), Char("-"), Field("T"),
    Field("m"), Field("n")>>

Patterns ==
  {Pattern(t) : t \in {u \in Sequences(3) : Unambiguous(u)} \cup {Usual}}
  \cup {Broken(t, tail) : t \in {u \in Sequences(1) : Unambiguous(u)}, tail \in Tails}

MCWorkloads ==
  {Workload(Builders, Plain, 2, {Short, Long, Low}, 2),
   Workload({Async}, Plain, 2, {Short, Long}, 3)}
  \cup {Workload({Sync}, p, 1, {Long}, 1) : p \in Patterns}
  \cup {Workload({Sync}, Pattern(Usual), 3, {Short, Long}, 2)}

MCLines == {<<<<"a">>>>, <<<<"a">>, <<"b">>>>}
=============================================================================
