------------------------------ MODULE HttpUtil ------------------------------
(***************************************************************************)
(* The functions of http/Util.hpp that the HTTP server decides by.  A text *)
(* is a sequence of bytes.                                                 *)
(***************************************************************************)
EXTENDS Integers, Sequences, SequencesExt

Byte == 0 .. 255
Nul == 0
Space == 32
Percent == 37
Ampersand == 38
Plus == 43
Dash == 45
Dot == 46
Slash == 47
Equals == 61
Underscore == 95
Tilde == 126

IsDigit(c) == c \in 48 .. 57
IsUpper(c) == c \in 65 .. 90
IsLower(c) == c \in 97 .. 122
IsAlnum(c) == IsDigit(c) \/ IsUpper(c) \/ IsLower(c)

-----------------------------------------------------------------------------

\* SplitString: one cut at each run of separators, so that only the first and
\* the last part can be empty.
SplitString(text, sep) ==
  LET seps == {k \in 1 .. Len(text) : text[k] = sep}
      starts == {1} \cup {k + 1 : k \in {j \in seps : j + 1 \notin seps}}
      Start(n) == CHOOSE k \in starts : Cardinality({j \in starts : j < k}) = n - 1
      End(k) == Min({j \in seps : j >= k} \cup {Len(text) + 1}) - 1
  IN [n \in 1 .. Cardinality(starts) |-> SubSeq(text, Start(n), End(Start(n)))]

\* The digits of "%02X"
HexDigit(n) == IF n < 10 THEN 48 + n ELSE 55 + n

\* A byte is a signed char: from 128 on it is printed as FFFFFF.., of which tmp
\* has room for the first two digits.
Encoded(c, convert_space_to_plus) ==
  CASE c \in {Dot, Dash, Underscore, Tilde} \/ IsAlnum(c) -> <<c>>
    [] c = Space /\ convert_space_to_plus -> <<Plus>>
    [] c >= 128 -> <<Percent, HexDigit(15), HexDigit(15)>>
    [] OTHER -> <<Percent, HexDigit(c \div 16), HexDigit(c % 16)>>
UrlEncode(url, convert_space_to_plus) ==
  FlattenSeq([k \in 1 .. Len(url) |-> Encoded(url[k], convert_space_to_plus)])

\* Every letter has a value, those beyond F as well.
HEXTOI(c) == CASE IsDigit(c) -> c - 48
               [] IsLower(c) -> c - 97 + 10
               [] IsUpper(c) -> c - 65 + 10
               [] OTHER -> -1

\* "%" stands for itself when fewer than two bytes follow.
UrlDecode(url, convert_plus_to_space) ==
  LET From[k \in 1 .. Len(url) + 1] ==
        CASE k > Len(url) -> <<>>
          [] k <= Len(url) /\ url[k] = Plus /\ convert_plus_to_space ->
               <<Space>> \o From[k + 1]
          [] k + 2 <= Len(url) /\ url[k] = Percent ->
               <<(HEXTOI(url[k + 1]) * 16 + HEXTOI(url[k + 2])) % 256>> \o From[k + 3]
          [] OTHER -> <<url[k]>> \o From[k + 1]
  IN From[1]

\* The depth must not become negative on the way down the parts of the path.
ValidPathMutant(pathname) ==       \* looks at the depth in the end only
  LET subdir == SplitString(pathname, Slash)
      Level[k \in 0 .. Len(subdir)] ==
        CASE k = 0 -> 0
          [] k > 0 /\ subdir[k] \in {<<>>, <<Dot>>} -> Level[k - 1]
          [] k > 0 /\ subdir[k] = <<Dot, Dot>> -> Level[k - 1] - 1
          [] OTHER -> Level[k - 1] + 1
  IN Level[Len(subdir)] >= 0
ValidPath(pathname) ==
  LET subdir == SplitString(pathname, Slash)
      Level[k \in 0 .. Len(subdir)] ==
        CASE k = 0 -> 0
          [] k > 0 /\ subdir[k] \in {<<>>, <<Dot>>} -> Level[k - 1]
          [] k > 0 /\ subdir[k] = <<Dot, Dot>> -> Level[k - 1] - 1
          [] OTHER -> Level[k - 1] + 1
  IN \A k \in 1 .. Len(subdir) : Level[k] >= 0

\* The entry of mime_msg for what begins at the last dot, <<>> for the default.
ExtMime(filename, mime_msg) ==
  LET dots == {k \in 1 .. Len(filename) : filename[k] = Dot}
      postfix == SubSeq(filename, CHOOSE k \in dots : \A j \in dots : j <= k, Len(filename))
  IN IF dots # {} /\ postfix \in mime_msg THEN postfix ELSE <<>>

-----------------------------------------------------------------------------
(* stat() and open(): a tree of dirs and files, each a sequence of names from *)
(* the root.                                                                  *)

Nowhere == <<(<<>>)>>

\* What of a string reaches the system: a name ends at its first byte 0.
c_str(text) == SubSeq(text, 1, Min({k \in 1 .. Len(text) : text[k] = Nul} \cup {Len(text) + 1}) - 1)

Names == [text \in Seq(Byte) |-> SplitString(text, Slash)]

Lookup(tree, start, pathname) ==
  LET names == Names[c_str(pathname)]
      Place[k \in 0 .. Len(names)] ==
        CASE k = 0 -> start
          [] k > 0 /\ names[k] \in {<<>>, <<Dot>>} -> Place[k - 1]
          [] k > 0 /\ names[k] = <<Dot, Dot>> ->
               LET here == Place[k - 1] IN SubSeq(here, 1, Len(here) - 1)
          [] OTHER -> Append(Place[k - 1], names[k])
  IN IF \A k \in 0 .. Len(names) - 1 : Place[k] \in tree.dirs THEN Place[Len(names)]
     ELSE Nowhere

IsFileExists(tree, start, pathname) == Lookup(tree, start, pathname) \in tree.files
=============================================================================
