----------------------------- MODULE HttpServer -----------------------------
(***************************************************************************)
(* http/HttpServer.hpp and http/HttpProtocol.hpp: one connection of the    *)
(* HTTP server.  A client sends requests, one behind the other, the        *)
(* network cuts them anywhere, and OnMessage() parses and answers what has *)
(* come.  It can be re-entered: it calls Shutdown(), which hands it what   *)
(* is left in the buffer.                                                  *)
(*                                                                         *)
(* The text is a sequence of pieces: a line is some pieces, of which the   *)
(* last has the newline; a body is pieces without any.  The target of a    *)
(* request line is bytes, and is decoded and routed as the code does it,   *)
(* to a file below the base directory or to a handler.  Files may vanish.  *)
(***************************************************************************)
EXTENDS HttpUtil

CONSTANTS
  Inputs,    \* what the client sends and what is on the disk, bounded:
             \* [requests, tree, fleeting], fleeting being files that may vanish
  MaxLine,   \* MAX_LINE, in pieces
  BaseDir,   \* where _basedir is in the tree
  Routes,    \* per method the handlers: [paths they match, connection they set]
  Mimes      \* the extensions of mime_msg

\* A request line that the pattern of ParseHttpLine matches or not, headers
\* that matter, one without ": ", a line that is too long, the empty line.
Kinds == {"request", "mangled", "keep-alive", "length", "no colon", "long", "empty"}

\* Those of the pattern of ParseHttpLine.
Methods == {"GET", "HEAD", "POST", "PUT", "DELETE"}

\* What is one request: it ends with its first empty line, and a request line
\* further down is a bad header.
Framed(lines) ==
  /\ lines # <<>>
  /\ \A k \in 1 .. Len(lines) :
       (lines[k] = "empty" <=> k = Len(lines)) /\ (lines[k] = "request" => k = 1)

\* A request: its lines, the number of pieces of its body; the method, the target
\* and the query (<<>>: none) of its first line; and what the client means by
\* them: a path and parameters.
Requests ==
  {r \in [lines : Seq(Kinds), body : Nat, method : Methods, target : Seq(Byte),
          query : Seq(Byte), path : Seq(Byte), params : Seq(Seq(Byte) \X Seq(Byte))] :
     /\ r.body > 0 => "length" \in {r.lines[k] : k \in 1 .. Len(r.lines)}
     /\ Framed(r.lines)}

\* Where a file or a directory is: names from the root, none of them empty.
Places == Seq(Seq(Byte) \ {<<>>})

ASSUME HttpAssumption ==
  /\ MaxLine \in Nat \ {0, 1}
  /\ \A i \in Inputs :
       /\ i.requests \in Seq(Requests) \ {<<>>}
       /\ i.tree \in [dirs : SUBSET Places, files : SUBSET Places]
       /\ i.tree.dirs \cap i.tree.files = {} /\ \A p \in i.tree.dirs : Front(p) \in i.tree.dirs
       /\ BaseDir \in i.tree.dirs /\ i.fleeting \subseteq i.tree.files
  /\ DOMAIN Routes = Methods \ {"HEAD"}
  /\ \A m \in DOMAIN Routes : Routes[m] \in Seq([paths : SUBSET Seq(Byte), connection : STRING])
  /\ \A m \in Mimes : Slash \notin ToSet(m)

VARIABLES
  sent,     \* the requests of the client
  tree,     \* the disk
  fleeting, \* files that may still vanish
  vanished, \* history: those that did
  wire,     \* what has not been received yet
  buf,      \* _in_buf
  ctx,      \* the HttpContext of the connection
  out,      \* the responses
  status,   \* of the connection: "connected", "disconnecting", "released";
            \* "aborted": an assertion ended the program
  stack     \* what runs, innermost last: OnMessage and ShutdownInLoop

world == <<sent, tree, fleeting, vanished>>
vars == <<world, wire, buf, ctx, out, status, stack>>

\* The text of the i-th request.
Pieces(kind) == CASE kind = "empty" -> 1 [] kind = "long" -> MaxLine + 2 [] OTHER -> 2
LineText(i, kind) ==
  [k \in 1 .. Pieces(kind) |-> [req |-> i, kind |-> kind, at |-> k, newline |-> k = Pieces(kind)]]
BodyText(i, n) ==
  [k \in 1 .. n |-> [req |-> i, kind |-> "body", at |-> k, newline |-> FALSE]]
Text(i, r) ==
  FlattenSeq([k \in 1 .. Len(r.lines) |-> LineText(i, r.lines[k])]) \o BodyText(i, r.body)

\* HttpContext::Reset(), HttpRequest::Reset(): the request line with its path and
\* parameters, the headers and the body so far.
Fresh == [recv |-> "line", resp |-> 200, req |-> 0, path |-> <<>>, params |-> <<>>,
          heads |-> {}, body |-> <<>>]

\* A frame: where OnMessage or ShutdownInLoop is, and prevent of the latter.
OnMessageFrame == [at |-> "loop", seen |-> 0]
ShutdownFrame == [at |-> "drain", seen |-> 0]

Init ==
  /\ \E input \in Inputs :
       sent = input.requests /\ tree = input.tree /\ fleeting = input.fleeting
  /\ vanished = {}
  /\ wire = FlattenSeq([i \in 1 .. Len(sent) |-> Text(i, sent[i])])
  /\ buf = <<>> /\ ctx = Fresh /\ out = <<>>
  /\ status = "connected" /\ stack = <<>>

Top == stack[Len(stack)]
In(place) == stack # <<>> /\ Top.at = place
Goto(place) == [stack EXCEPT ![Len(stack)].at = place]
Return == Front(stack)
Open == status \notin {"released", "aborted"}

-----------------------------------------------------------------------------
(* The connection.                                                          *)

\* HandleRead: some of what is on its way.
HandleReadData ==
  /\ stack = <<>> /\ Open
  /\ \E n \in 1 .. Len(wire) :
       /\ buf' = buf \o SubSeq(wire, 1, n)
       /\ wire' = SubSeq(wire, n + 1, Len(wire))
  /\ stack' = <<OnMessageFrame>>
  /\ UNCHANGED <<world, ctx, out, status>>

\* ... and the end of it.
HandleReadEnd ==
  /\ stack = <<>> /\ Open
  /\ wire = <<>>
  /\ status' = "disconnecting"
  /\ stack' = <<ShutdownFrame>>
  /\ UNCHANGED <<world, wire, buf, ctx, out>>

\* "while(_in_buf.ReadableSize() > 0)" of ShutdownInLoop.
DrainGoesOn == buf # <<>> /\ Len(buf) # Top.seen
DrainCallsBack ==
  /\ In("drain") /\ DrainGoesOn
  /\ stack' = Append([stack EXCEPT ![Len(stack)].seen = Len(buf)], OnMessageFrame)
  /\ UNCHANGED <<world, wire, buf, ctx, out, status>>
ShutdownEnds ==
  /\ In("drain") /\ ~ DrainGoesOn
  /\ stack' = Return
  /\ UNCHANGED <<world, wire, buf, ctx, out, status>>

\* Once the output is sent (Connection.tla).
ReleaseInLoop ==
  /\ stack = <<>> /\ status = "disconnecting"
  /\ status' = "released"
  /\ UNCHANGED <<world, wire, buf, ctx, out, stack>>

-----------------------------------------------------------------------------
(* RecvHttpRequest: line, headers and body, as far as they have come.       *)

Newlines == {k \in 1 .. Len(buf) : buf[k].newline}
HasLine == Newlines # {}
LineEnd == CHOOSE k \in Newlines : \A j \in Newlines : k <= j
Rest(n) == SubSeq(buf, n + 1, Len(buf))

\* What a line is: one that lacks its beginning is none of the known ones.
KindOf(line) == IF line[1].at = 1 /\ line[1].kind # "body" THEN line[1].kind ELSE "mangled"

Fail(code) == ctx' = [ctx EXCEPT !.recv = "error", !.resp = code]
Parsing == In("parse")
Parsed == stack' = Goto("parsed")

\* No newline: wait, unless there is too much already.
NeedsMore ==
  /\ Parsing /\ ctx.recv \in {"line", "head"} /\ ~ HasLine
  /\ IF Len(buf) > MaxLine THEN Fail(414) ELSE UNCHANGED ctx
  /\ Parsed
  /\ UNCHANGED <<world, wire, buf, out, status>>

LineTooLong ==
  /\ Parsing /\ ctx.recv \in {"line", "head"} /\ HasLine /\ LineEnd > MaxLine
  /\ buf' = Rest(LineEnd)
  /\ Fail(414)
  /\ Parsed
  /\ UNCHANGED <<world, wire, out, status>>

\* Between "&" and "&" there must be a "="; of two values of a key the first stays.
Params(query) ==
  LET parts == IF query = <<>> THEN <<>> ELSE SplitString(query, Ampersand)
      at(k) == {p \in 1 .. Len(parts[k]) : parts[k][p] = Equals}
      bad == {k \in 1 .. Len(parts) : at(k) = {}}
      key(k) == UrlDecode(SubSeq(parts[k], 1, Min(at(k)) - 1), TRUE)
      val(k) == UrlDecode(SubSeq(parts[k], Min(at(k)) + 1, Len(parts[k])), TRUE)
      Inserted[k \in 0 .. Min(bad \cup {Len(parts) + 1}) - 1] ==
        IF k = 0 THEN <<>> ELSE Inserted[k - 1] @@ (key(k) :> val(k))
  IN [kv |-> Inserted[Min(bad \cup {Len(parts) + 1}) - 1], good |-> bad = {}]

\* The request line of the i-th request, which matches the pattern.
ParseHttpLine(i) ==
  LET params == Params(sent[i].query)
      parsed == [ctx EXCEPT !.req = i, !.path = UrlDecode(sent[i].target, FALSE),
                            !.params = params.kv]
  IN IF params.good THEN [parsed EXCEPT !.recv = "head"]
                    ELSE [parsed EXCEPT !.recv = "error", !.resp = 400]

\* ... and on to the headers.
RecvHttpLine ==
  /\ Parsing /\ ctx.recv = "line" /\ HasLine /\ LineEnd <= MaxLine
  /\ buf' = Rest(LineEnd)
  /\ IF KindOf(buf) = "request" THEN ctx' = ParseHttpLine(buf[1].req) ELSE Fail(400)
  /\ IF ctx'.recv = "error" THEN Parsed ELSE UNCHANGED stack
  /\ UNCHANGED <<world, wire, out, status>>

\* One header, or the empty line, and on to the body.
RecvHttpHeadMutant ==        \* breaks out of the switch
  /\ Parsing /\ ctx.recv = "head" /\ HasLine /\ LineEnd <= MaxLine
  /\ buf' = Rest(LineEnd)
  /\ CASE KindOf(buf) = "empty" -> ctx' = [ctx EXCEPT !.recv = "body"] /\ Parsed
       [] KindOf(buf) \in {"keep-alive", "length"} ->
            ctx' = [ctx EXCEPT !.heads = @ \cup {KindOf(buf)}] /\ UNCHANGED stack
       [] OTHER -> Fail(400) /\ Parsed
  /\ UNCHANGED <<world, wire, out, status>>
RecvHttpHead ==
  /\ Parsing /\ ctx.recv = "head" /\ HasLine /\ LineEnd <= MaxLine
  /\ buf' = Rest(LineEnd)
  /\ CASE KindOf(buf) = "empty" -> ctx' = [ctx EXCEPT !.recv = "body"] /\ UNCHANGED stack
       [] KindOf(buf) \in {"keep-alive", "length"} ->
            ctx' = [ctx EXCEPT !.heads = @ \cup {KindOf(buf)}] /\ UNCHANGED stack
       [] OTHER -> Fail(400) /\ Parsed
  /\ UNCHANGED <<world, wire, out, status>>

\* The body, if there is a length, or as much of it as there is.
ContentLength == IF "length" \in ctx.heads THEN sent[ctx.req].body ELSE 0
RecvHttpBody ==
  /\ Parsing /\ ctx.recv = "body"
  /\ LET left == ContentLength - Len(ctx.body)
         n == IF left <= Len(buf) THEN left ELSE Len(buf)
     IN /\ buf' = Rest(n)
        /\ ctx' = [ctx EXCEPT !.body = @ \o SubSeq(buf, 1, n),
                              !.recv = IF n = left THEN "over" ELSE @]
  /\ Parsed
  /\ UNCHANGED <<world, wire, out, status>>

-----------------------------------------------------------------------------
(* OnMessage.                                                               *)

\* "while(buf->ReadableSize() > 0)"
OnMessageParses ==
  /\ In("loop") /\ buf # <<>>
  /\ stack' = Goto("parse")
  /\ UNCHANGED <<world, wire, buf, ctx, out, status>>
OnMessageReturns ==
  \/ /\ In("loop") /\ buf = <<>>
     /\ stack' = Return
     /\ UNCHANGED <<world, wire, buf, ctx, out, status>>
  \/ /\ In("parsed") /\ ctx.resp < 400 /\ ctx.recv # "over"
     /\ stack' = Return
     /\ UNCHANGED <<world, wire, buf, ctx, out, status>>

\* WriteResponse: which request, or none; what the body shows and of what type it
\* is; what is said of the connection, where the header of a handler comes first;
\* and what the handler saw of the request.
Response(req, code, content, connection) ==
  [req |-> req, code |-> code, content |-> content,
   keep |-> IF connection # "" THEN connection = "keep-alive" ELSE "keep-alive" \in ctx.heads,
   path |-> ctx.path, params |-> ctx.params, body |-> ctx.body]

Content(kind, of, type) == [kind |-> kind, of |-> of, type |-> type]
Page == Content("page", <<>>, <<>>)
NoContent == Content("none", <<>>, <<>>)

\* ErrorHandler.  The buffer is empty when Shutdown() is called: it calls nobody
\* back; and the context says "line" again: OnMessage returns.
AnswerErrorMutant ==         \* keeps the headers
  /\ In("parsed") /\ ctx.resp >= 400
  /\ out' = Append(out, Response(0, ctx.resp, Page, ""))
  /\ ctx' = [ctx EXCEPT !.recv = "line", !.resp = 200] /\ buf' = <<>>
  /\ status' = "disconnecting"
  /\ stack' = Append(Goto("parsed"), ShutdownFrame)
  /\ UNCHANGED <<world, wire>>
AnswerError ==
  /\ In("parsed") /\ ctx.resp >= 400
  /\ out' = Append(out, Response(0, ctx.resp, Page, ""))
  /\ ctx' = Fresh /\ buf' = <<>>
  /\ status' = "disconnecting"
  /\ stack' = Append(Goto("parsed"), ShutdownFrame)
  /\ UNCHANGED <<world, wire>>

\* Answered; on with the rest, even if the connection is to be closed.
AnswerRequestDiscardMutant(resp) ==  \* empties the buffer, as after an error
  /\ out' = Append(out, resp)
  /\ ctx' = Fresh /\ buf' = <<>>
  /\ IF resp.keep
       THEN stack' = Goto("loop") /\ UNCHANGED status
       ELSE stack' = Append(Goto("loop"), ShutdownFrame) /\ status' = "disconnecting"
AnswerRequestOnceMutant(resp) ==     \* one request per call
  /\ out' = Append(out, resp)
  /\ ctx' = Fresh
  /\ IF resp.keep
       THEN stack' = Return /\ UNCHANGED status
       ELSE stack' = Append(Return, ShutdownFrame) /\ status' = "disconnecting"
  /\ UNCHANGED buf
AnswerRequest(resp) ==
  /\ out' = Append(out, resp)
  /\ ctx' = Fresh
  /\ IF resp.keep
       THEN stack' = Goto("loop") /\ UNCHANGED status
       ELSE stack' = Append(Goto("loop"), ShutdownFrame) /\ status' = "disconnecting"
  /\ UNCHANGED buf

-----------------------------------------------------------------------------
(* Route.                                                                   *)

Complete == In("parsed") /\ ctx.resp < 400 /\ ctx.recv = "over"
Method == sent[ctx.req].method

\* "index.html" below a directory.  back() of the empty path reads the last byte
\* of the string's length, which is no "/".
homepage == <<105, 110, 100, 101, 120, Dot, 104, 116, 109, 108>>
RequestPath(path) == IF path # <<>> /\ Last(path) = Slash THEN path \o homepage ELSE path

IsFileHandler ==
  /\ Method \in {"GET", "HEAD"}
  /\ ValidPath(ctx.path)
  /\ IsFileExists(tree, BaseDir, RequestPath(ctx.path))

RouteToFile ==
  /\ Complete /\ IsFileHandler
  /\ stack' = Goto("file")
  /\ UNCHANGED <<world, wire, buf, ctx, out, status>>

\* FileHandler with ReadFile, which asserts that the file can be opened.
FileHandler ==
  /\ In("file")
  /\ LET req_path == RequestPath(ctx.path)
     IN IF IsFileExists(tree, BaseDir, req_path)
          THEN AnswerRequest(Response(ctx.req, 200,
                 Content("file", Lookup(tree, BaseDir, req_path), ExtMime(req_path, Mimes)), ""))
          ELSE status' = "aborted" /\ stack' = <<>> /\ UNCHANGED <<buf, ctx, out>>
  /\ UNCHANGED <<world, wire>>

\* The first handler of the method that matches the path.
DispatcherMutant ==          \* calls the handlers of POST for GET as well
  /\ Complete /\ ~ IsFileHandler
  /\ LET handlers == Routes[IF Method \in {"GET", "HEAD"} THEN "POST" ELSE Method]
         found == {k \in 1 .. Len(handlers) : ctx.path \in handlers[k].paths}
         k == Min(found)
     IN AnswerRequest(IF found = {} THEN Response(ctx.req, 404, NoContent, "")
                      ELSE Response(ctx.req, 200, Content("handler", <<k>>, <<>>),
                                    handlers[k].connection))
  /\ UNCHANGED <<world, wire>>
Dispatcher ==
  /\ Complete /\ ~ IsFileHandler
  /\ LET handlers == Routes[IF Method = "HEAD" THEN "GET" ELSE Method]
         found == {k \in 1 .. Len(handlers) : ctx.path \in handlers[k].paths}
         k == Min(found)
     IN AnswerRequest(IF found = {} THEN Response(ctx.req, 404, NoContent, "")
                      ELSE Response(ctx.req, 200, Content("handler", <<k>>, <<>>),
                                    handlers[k].connection))
  /\ UNCHANGED <<world, wire>>

\* The disk is not the server's alone.
Vanish ==
  /\ Open
  /\ \E f \in fleeting :
       /\ tree' = [tree EXCEPT !.files = @ \ {f}]
       /\ fleeting' = fleeting \ {f} /\ vanished' = vanished \cup {f}
  /\ UNCHANGED <<sent, wire, buf, ctx, out, status, stack>>

OnMessage ==
  \/ OnMessageParses \/ OnMessageReturns
  \/ NeedsMore \/ LineTooLong \/ RecvHttpLine \/ RecvHttpHead \/ RecvHttpBody
  \/ AnswerError \/ RouteToFile \/ FileHandler \/ Dispatcher

Loop == HandleReadData \/ DrainCallsBack \/ ShutdownEnds \/ ReleaseInLoop \/ OnMessage

Next == Loop \/ HandleReadEnd \/ Vanish

Spec == Init /\ [][Next]_vars

\* The loop's thread is scheduled and what is sent arrives.
FairSpec == Spec /\ WF_vars(Loop)

-----------------------------------------------------------------------------
(* Properties.                                                              *)

\* Every variable has its type; no more of a body is taken than there is of it.
TypeOK ==
  /\ sent \in Seq(Requests)
  /\ ctx.recv \in {"error", "line", "head", "body", "over"}
  /\ ctx.resp \in {200, 400, 414} /\ ctx.req \in 0 .. Len(sent)
  /\ ctx.heads \subseteq {"keep-alive", "length"}
  /\ ctx.recv # "error" => Len(ctx.body) <= ContentLength
  /\ status \in {"connected", "disconnecting", "released", "aborted"}
  /\ \A k \in 1 .. Len(stack) : stack[k].at \in {"loop", "parse", "parsed", "file", "drain"}

\* The reference: what each request says and asks for, seen as a whole.
WellFormed(r) ==
  /\ Len(r.lines) > 0 /\ r.lines[1] = "request" /\ Last(r.lines) = "empty"
  /\ \A k \in 2 .. Len(r.lines) - 1 : r.lines[k] \in {"keep-alive", "length"}
  /\ r.query # <<>> =>
       \A k \in 1 .. Len(SplitString(r.query, Ampersand)) :
         Equals \in ToSet(SplitString(r.query, Ampersand)[k])

\* No beginning of the path has more ".." than names.
StaysBelow(path) ==
  LET parts == SplitString(path, Slash)
      Up(k) == {j \in 1 .. k : parts[j] = <<Dot, Dot>>}
      Here(k) == {j \in 1 .. k : parts[j] \in {<<>>, <<Dot>>}}
  IN \A k \in 1 .. Len(parts) : 2 * Cardinality(Up(k)) + Cardinality(Here(k)) <= k

PlaceOf(r) == Lookup(tree, BaseDir, RequestPath(r.path))
AsksForFile(r) ==
  /\ r.method \in {"GET", "HEAD"} /\ StaysBelow(r.path)
  /\ PlaceOf(r) \in tree.files \cup vanished
Handlers(r) == Routes[IF r.method = "HEAD" THEN "GET" ELSE r.method]
HandlerOf(r) ==      \* 0: none
  LET found == {k \in 1 .. Len(Handlers(r)) : r.path \in Handlers(r)[k].paths}
  IN IF found = {} THEN 0 ELSE Min(found)

\* What is served, with the type by the extension of the file's own name.
Resource(r) ==
  IF AsksForFile(r) THEN Content("file", PlaceOf(r), ExtMime(Last(PlaceOf(r)), Mimes))
  ELSE IF HandlerOf(r) # 0 THEN Content("handler", <<HandlerOf(r)>>, <<>>)
  ELSE NoContent

SetsConnection(r) ==
  ~ AsksForFile(r) /\ HandlerOf(r) # 0 /\ Handlers(r)[HandlerOf(r)].connection # ""
Stays(r) ==
  /\ WellFormed(r)
  /\ IF SetsConnection(r) THEN Handlers(r)[HandlerOf(r)].connection = "keep-alive"
     ELSE \E k \in 1 .. Len(r.lines) : r.lines[k] = "keep-alive"

FirstValues(params) ==
  LET At(key) == {k \in 1 .. Len(params) : params[k][1] = key}
  IN [key \in {params[k][1] : k \in 1 .. Len(params)} |->
        params[Min(At(key))][2]]

\* Requests up to the first that is wrong or asks to close.
Reach == CHOOSE n \in 1 .. Len(sent) :
           /\ \A i \in 1 .. n - 1 : Stays(sent[i])
           /\ n = Len(sent) \/ ~ Stays(sent[n])

\* However the network cuts the text, and however OnMessage is re-entered, a
\* request that is answered is answered as if it had come alone: with its own
\* headers, its own body, and the path and parameters that the client has
\* encoded (the context is reset in between, a body is completed over several
\* calls, ParseHttpLine undoes UrlEncode).
AnswersAreTheirOwn ==
  \A k \in 1 .. Len(out) : out[k].req # 0 =>
    LET r == sent[out[k].req]
    IN /\ out[k].keep = Stays(r) /\ out[k].body = BodyText(out[k].req, r.body)
       /\ out[k].path = r.path /\ out[k].params = FirstValues(r.params)

\* Route gives each request the resource it names: the file, with its type, or
\* the page of its directory, or the first handler of the method for the path, or
\* 404.  A file that vanishes meanwhile may be either.  A path with a byte 0 ("%00")
\* names for stat() and ifstream what stands before that byte, and the type of the
\* file may then be another: see TypeIsTheFiles.
RightResource ==
  \A k \in 1 .. Len(out) : out[k].req # 0 =>
    LET r == sent[out[k].req]
        content == out[k].content
        right == Resource(r)
    IN \/ PlaceOf(r) \in vanished
       \/ /\ content.kind = right.kind /\ content.of = right.of
          /\ content.type = right.type \/ Nul \in ToSet(r.path)
          /\ out[k].code = 404 <=> right = NoContent

\* A file is served with the type by the extension of its own name.  The code does
\* not keep this of paths with a byte 0: FileHandler asks for the type of the whole
\* path, of which ReadFile opens the beginning.
TypeIsTheFiles ==
  \A k \in 1 .. Len(out) : out[k].content.kind = "file" =>
    out[k].content.type = ExtMime(Last(out[k].content.of), Mimes)

\* "A client can only ask for resources below the root" (Util.hpp, ValidPath):
\* whatever is read lies in the base directory, however the target is written.
ServedFromBaseDir ==
  \A k \in 1 .. Len(out) :
    out[k].content.kind = "file" => IsPrefix(BaseDir, out[k].content.of)

\* Responses come in the order of the requests: the first ones answer the first
\* requests, one each.
AnswersInOrder ==
  \A k \in 1 .. Len(out) : k <= Reach =>
     IF WellFormed(sent[k]) THEN out[k].req = k ELSE out[k].req = 0

\* OnMessage leaves nothing behind that it could have answered: input waits only
\* for the rest of a line of legal length or for the rest of a body.
NothingWaits ==
  stack = <<>> /\ status # "aborted" =>
    \/ ctx.recv \in {"line", "head"} /\ ~ HasLine /\ Len(buf) <= MaxLine
    \/ ctx.recv = "body" /\ buf = <<>> /\ Len(ctx.body) < ContentLength

\* Every request up to the first that is wrong or asks to close is answered.
\* Only when a file vanishes between IsFileHandler and FileHandler the program is
\* aborted instead: the two look for the same name.
EveryRequestIsAnswered ==
  <>((status = "aborted" /\ vanished # {}) \/ (stack = <<>> /\ Len(out) >= Reach))

\* "A short connection is closed at once" (HttpServer.hpp): no request is
\* answered behind a response that says "Connection: close".  The code does not
\* keep this when requests are pipelined.
CloseIsTheLastAnswer == \A k \in 1 .. Len(out) - 1 : out[k].keep
=============================================================================
