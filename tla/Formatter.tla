----------------------------- MODULE Formatter -----------------------------
(***************************************************************************)
(* log/Formatter.hpp: the layout of a line of a logger.  A pattern is a    *)
(* sequence of characters, and so is what a message says; a line is a      *)
(* sequence of pieces, of which the text and what the message says are     *)
(* one per character and every other field is one.                         *)
(***************************************************************************)
EXTENDS Naturals, Sequences, SequencesExt

\* The fields, and those among the letters that none stands for.
Fields == {"m", "p", "c", "t", "n", "d", "f", "l", "T"}
Alpha == Fields \cup {"x"}

\* What CreateItem is given: "" for text.
Item(key, value) == [key |-> key, value |-> value]
Text(value) == IF value = <<>> THEN <<>> ELSE <<Item("", value)>>

\* ParsePattern returned false.
Rejected == Item("rejected", <<>>)

\* The field whose "%" is at pos ends where its "{...}" ends, if it has one.
\* 0: there is no letter, or no "}".
FieldEndMutant(pattern, pos) ==    \* looks for the last "}"
  LET n == Len(pattern)
      close == {k \in pos + 3 .. n : pattern[k] = "}"}
  IN IF pos = n \/ pattern[pos + 1] \notin Alpha THEN 0
     ELSE IF pos + 1 = n \/ pattern[pos + 2] # "{" THEN pos + 1
     ELSE CHOOSE k \in close \cup {0} : \A j \in close : j <= k
FieldEnd(pattern, pos) ==
  LET n == Len(pattern)
      close == {k \in pos + 3 .. n : pattern[k] = "}"}
  IN IF pos = n \/ pattern[pos + 1] \notin Alpha THEN 0
     ELSE IF pos + 1 = n \/ pattern[pos + 2] # "{" THEN pos + 1
     ELSE IF close = {} THEN 0 ELSE Min(close)

\* The pairs of ParsePattern, in order.  Text goes on until a field; a pattern
\* that ends with text is rejected.
ParsePattern(pattern) ==
  LET n == Len(pattern)
      From[pos \in 1 .. n + 1, value \in Seq(STRING)] ==
        LET end == FieldEnd(pattern, pos)
        IN IF pos > n THEN IF value = <<>> THEN <<>> ELSE <<Rejected>>
           ELSE IF pattern[pos] # "%" THEN From[pos + 1, Append(value, pattern[pos])]
           ELSE IF pos < n /\ pattern[pos + 1] = "%" THEN From[pos + 2, Append(value, "%")]
           ELSE Text(value) \o
                (IF end = 0 THEN <<Rejected>>
                 ELSE <<Item(pattern[pos + 1], SubSeq(pattern, pos + 3, end - 1))>>
                      \o From[end + 1, <<>>])
  IN From[1, <<>>]

\* The constructor asserts that the pattern is not rejected, CreateItem calls
\* abort() for a letter that it does not know.
Aborts(items) == \E k \in 1 .. Len(items) : items[k].key \notin Fields \cup {""}

\* "%Y%m%d%H%M%S"
DefaultTime == <<"Y", "m", "d", "H", "M", "S">>

LevelToString(level) ==
  <<"DEBUG", "INFO", "WARNING", "ERROR", "FATAL", "OFF">>[level]

Pieces(value) == [k \in 1 .. Len(value) |-> <<value[k]>>]
\* What an item writes of a message: [payload, level, file, line, name, tid].
Output(item, msg) ==
  CASE item.key = "" -> Pieces(item.value)
    [] item.key = "m" -> Pieces(msg.payload)
    [] item.key = "p" -> <<<<"level", LevelToString(msg.level)>>>>
    [] item.key = "c" -> <<<<"name", msg.name>>>>
    [] item.key = "t" -> <<<<"thread", msg.tid>>>>
    [] item.key = "d" ->
         <<<<"time">> \o (IF item.value = <<>> THEN DefaultTime ELSE item.value)>>
    [] item.key = "f" -> <<<<"file", msg.file>>>>
    [] item.key = "l" -> <<<<"line", msg.line>>>>
    [] item.key = "n" -> <<<<"\n">>>>
    [] item.key = "T" -> <<<<"\t">>>>

Format(items, msg) == FlattenSeq([k \in 1 .. Len(items) |-> Output(items[k], msg)])

-----------------------------------------------------------------------------
(* The reference: a pattern as what it is written from, items of which text *)
(* has one character each.                                                  *)

Written(token) ==
  CASE token.key = "" -> IF token.value = <<"%">> THEN <<"%", "%">> ELSE token.value
    [] token.key # "" /\ token.value = <<>> -> <<"%", token.key>>
    [] OTHER -> <<"%", token.key, "{">> \o token.value \o <<"}">>
Render(tokens) == FlattenSeq([k \in 1 .. Len(tokens) |-> Written(tokens[k])])

\* What can be told from what is written.
Unambiguous(tokens) ==
  /\ \A k \in 1 .. Len(tokens) :
       IF tokens[k].key = "" THEN Len(tokens[k].value) = 1
       ELSE tokens[k].key \in Alpha /\ "}" \notin ToSet(tokens[k].value)
  /\ \A k \in 2 .. Len(tokens) :
       tokens[k] = Item("", <<"{">>) => tokens[k - 1].key = "" \/ tokens[k - 1].value # <<>>

\* All fields are known; and text at the end, which ParsePattern refuses although
\* its comment says that it is to be appended.
KnownFields(tokens) == \A k \in 1 .. Len(tokens) : tokens[k].key \in Fields \cup {""}
EndsWithText(tokens) == tokens # <<>> /\ Last(tokens).key = ""
=============================================================================
