---------------------------- MODULE MCHttpServer ----------------------------
(***************************************************************************)
(* HttpServer for TLC: a disk, handlers, and what the client sends: three  *)
(* requests, good and bad, behind each other; or one or two with any       *)
(* target, query and method.                                               *)
(***************************************************************************)
EXTENDS HttpServer

\* Texts: names on the disk, in the targets and in the queries.
a == <<97>>
d == <<100>>
aPlusA == <<97, Plus, 97>>
js == <<Dot, 106, 115>>
script == a \o js
SlashText == <<Slash>>
DotDot == <<Dot, Dot>>

\* /a, and below /d the root of the server with a, a.js, a+a, index.html and d/a.js
MCBaseDir == <<d>>
MCTree ==
  [dirs |-> {<<>>, <<d>>, <<d, d>>},
   files |-> {<<a>>, <<d, a>>, <<d, script>>, <<d, aPlusA>>, <<d, homepage>>, <<d, d, script>>}]
MCMimes == {js}

h == SlashText \o <<104>>
k == SlashText \o <<107>>
MCRoutes ==
  [GET |-> <<[paths |-> {h, SlashText \o a}, connection |-> ""],
             [paths |-> {h, k}, connection |-> "close"]>>,
   POST |-> <<[paths |-> {SlashText \o a}, connection |-> "keep-alive"]>>,
   PUT |-> <<>>, DELETE |-> <<>>]

Request(lines, body, method, target, query, path, params) ==
  [lines |-> lines, body |-> body, method |-> method, target |-> target,
   query |-> query, path |-> path, params |-> params]

-----------------------------------------------------------------------------
(* Requests behind each other.                                              *)

Lines(lines, body, path) == Request(lines, body, "GET", path, <<>>, path, <<>>)
Keep == Lines(<<"request", "keep-alive", "empty">>, 0, SlashText)
KeepWithBody == Lines(<<"request", "length", "keep-alive", "empty">>, 2, h)
CloseWithBody == Lines(<<"request", "length", "empty">>, 3, SlashText \o a)
Mangled == Lines(<<"mangled", "keep-alive", "empty">>, 0, h)
BadHeader == Lines(<<"request", "length", "no colon", "empty">>, 1, h)
LongHeader == Lines(<<"request", "keep-alive", "long", "empty">>, 0, h)

Three == {Keep, KeepWithBody, CloseWithBody, BadHeader}
Two == Three \cup {Mangled, LongHeader}
Pipelines == [1 .. 3 -> Three] \cup [1 .. 2 -> Two]

-----------------------------------------------------------------------------
(* Targets: what is written, and the path it means.                         *)

Short == <<"request", "empty">>
Get(target, path) == Request(Short, 0, "GET", target, <<>>, path, <<>>)

\* "/", "..", "%2e%2e", "a", "d" and "%2F", four behind each other, and three with "%00"
Tokens == {<<SlashText, SlashText>>, <<DotDot, DotDot>>,
           <<<<Percent, 50, 101, Percent, 50, 101>>, DotDot>>,
           <<a, a>>, <<d, d>>, <<<<Percent, 50, 70>>, SlashText>>}
NulToken == <<<<Percent, 48, 48>>, <<Nul>>>>
Written(tokens) == FlattenSeq([j \in 1 .. Len(tokens) |-> tokens[j][1]])
Meant(tokens) == FlattenSeq([j \in 1 .. Len(tokens) |-> tokens[j][2]])
UpTo(n, tokens) == UNION {[1 .. m -> tokens] : m \in 1 .. n}
Targets ==
  {Get(Written(t), Meant(t)) : t \in UpTo(4, Tokens) \cup UpTo(3, Tokens \cup {NulToken})}

Others ==
  {Get(<<>>, <<>>), Get(k, k), Get(SlashText \o script, SlashText \o script),
   Get(SlashText \o d \o SlashText \o script, SlashText \o d \o SlashText \o script),
   Get(SlashText \o aPlusA, SlashText \o aPlusA),
   Get(SlashText \o UrlEncode(aPlusA, FALSE), SlashText \o aPlusA),
   Get(SlashText \o UrlEncode(script \o <<Nul>>, FALSE), SlashText \o script \o <<Nul>>),
   Get(SlashText \o UrlEncode(a \o <<Nul>> \o js, FALSE), SlashText \o a \o <<Nul>> \o js)}
  \cup {Request(Short, 0, m, p, <<>>, p, <<>>) : m \in Methods, p \in {h, SlashText \o a}}

-----------------------------------------------------------------------------
(* Queries: parameters as a client encodes them, and some by hand.          *)

Letters == {97, 50, Percent, Plus, Space, Equals, Ampersand}
Texts(n) == UNION {[1 .. m -> Letters] : m \in 0 .. n}
Param(p) == UrlEncode(p[1], TRUE) \o <<Equals>> \o UrlEncode(p[2], TRUE)
Ask(query, params) == Request(Short, 0, "GET", h, query, h, params)

Queries == {Ask(Param(p), <<p>>) : p \in Texts(1) \X Texts(2)}
TwoValues ==
  {Ask(Param(p) \o <<Ampersand>> \o Param(q), <<p, q>>) :
     p \in {<<a, d>>, <<d, a>>}, q \in {<<a, a>>, <<d, <<Ampersand>>>>}}
ByHand ==
  {Ask(a, <<>>), Ask(<<97, Equals, Ampersand>>, <<>>), Ask(<<Ampersand, 97, Equals>>, <<>>),
   Ask(<<97, Equals, Ampersand, Ampersand, 100, Equals>>, << <<a, <<>>>>, <<d, <<>>>> >>),
   Ask(<<97, Equals, Percent, 50>>, << <<a, <<Percent, 50>>>> >>)}

-----------------------------------------------------------------------------

OnDisk(requests, files) == [requests |-> requests, tree |-> MCTree, fleeting |-> files]
MCInputs ==
  {OnDisk(p, {}) : p \in Pipelines}
  \cup {OnDisk(<<r>>, {}) : r \in Targets \cup Others \cup Queries \cup TwoValues \cup ByHand}
  \cup {OnDisk(<<Keep, Keep>>, {<<d, homepage>>}),
        OnDisk(<<KeepWithBody, CloseWithBody>>, {<<d, a>>, <<d, homepage>>})}
=============================================================================
