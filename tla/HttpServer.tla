------------------------------ MODULE HttpServer ------------------------------
(***************************************************************************)
(* src/net/http: one connection of an HttpServer.  Each read brings bytes  *)
(* that complete any number of lines, none included; OnMessage parses what *)
(* the read buffer holds and answers at most one request.  The parser's    *)
(* context is kept with the connection, but OnMessage works on a copy.     *)
(*                                                                         *)
(* A read that does not fit makes the read buffer grow, and that loses all *)
(* that was in it, and the first part of the read (MsgBuffer).  What comes *)
(* after such a loss is a stream of its own: histories begin anew there.   *)
(*                                                                         *)
(* A line is what the parser tells apart: a request line, a header, or one *)
(* that is neither.  All sends are made on the connection's loop, so none  *)
(* is queued (TcpConnection); a send is discarded unless kConnected.       *)
(***************************************************************************)
EXTENDS Naturals, Sequences, SequencesExt

CONSTANTS
  WebApi,       (* values of web_api that the constructor is given     *)
  Names,        (* what paths have between their slashes               *)
  Nothing,      (* no name                                             *)
  AnyRest,      (* the pattern ".*"                                    *)
  Files,        (* names of the files in wwwroot                       *)
  Requests,     (* request lines that clients send                     *)
  Routes,       (* what the application may register                   *)
  MaxRoutes,    (* bound: handlers registered for a method             *)
  MaxLines,     (* bound: lines received since the last loss           *)
  MaxLeft       (* bound: lines left of a read that does not fit       *)

Methods == {"kGet", "kPost", "kPut", "kDelete"}

(* A path: slashes, a name, slashes.  All the slashes of "//" are leading. *)
Paths == [lead : 0 .. 3, name : Names, trail : 0 .. 1]

Root == [lead |-> 1, name |-> Nothing, trail |-> 0]

RequestLines == [kind : {"request"}, method : Methods \cup {"kHead"}, path : Paths,
                 version : {"kHttp10", "kHttp11"}]

ASSUME HttpAssumption ==
  /\ WebApi \subseteq BOOLEAN /\ {Nothing, AnyRest} \subseteq Names /\ Nothing # AnyRest
  /\ Files \subseteq Names \ {Nothing, AnyRest}
  /\ Requests \subseteq RequestLines
  /\ Routes \subseteq [method : Methods, path : Paths, close : BOOLEAN]
  /\ MaxRoutes \in Nat /\ MaxLines \in Nat /\ MaxLeft \in Nat

(* Of the headers the server looks at Connection only. *)
HeaderLines == [kind : {"header"}, connection : {"close", "Keep-Alive", "other"}]

(* A line without a colon that is no request line; "empty" ends the headers. *)
OtherLines == [kind : {"empty", "garbage"}]

Lines == Requests \cup HeaderLines \cup OtherLines

VARIABLES
  web_api,    (* web_api_: handlers for every GET, no files               *)
  handlers,   (* get_handlers_ and the others, in order of registration:  *)
              (* the path given, the pattern of its regex, what it does   *)
  started,    (* Start has been called                                    *)
  state,      (* the connection's state_                                  *)
  context,    (* the connection's context                                 *)
  buffer,     (* complete lines in read_buffer_                           *)
  (* Histories, since bytes of the stream were last lost:                 *)
  received,   (* the lines received                                       *)
  answers,    (* the responses sent                                       *)
  cut,        (* a read ended inside the headers of a request             *)
  surplus     (* requests that ended, less one for each read              *)

vars == <<web_api, handlers, started, state, context, buffer, received, answers, cut, surplus>>

NoContext == [state |-> "none"]

NewContext == [state |-> "kExpectRequestLine", request |-> NoContext, connection |-> ""]

Answer == [status : {"200", "400", "404"}, close : BOOLEAN, handler : Nat]

TypeOK ==
  /\ web_api \in WebApi
  /\ handlers \in [Methods -> Seq([path : Paths, pattern : Paths, close : BOOLEAN])]
  /\ started \in BOOLEAN
  /\ state \in {"none", "kConnected", "kDisconnecting", "kDisconnected"}
  /\ context \in {NoContext, NewContext}
  /\ buffer \in Seq(Lines) /\ received \in Seq(Lines)
  /\ answers \in Seq(Answer)
  /\ cut \in BOOLEAN /\ surplus \in Nat

-----------------------------------------------------------------------------
(* EnsureHeadingSlash: of two or more slashes one is left, and it is true. *)
EnsureHeadingSlash(path) ==
  [has |-> path.lead > 1, path |-> [path EXCEPT !.lead = IF @ > 1 THEN 1 ELSE @]]

(* Without a name, the slashes in front are trailing ones too. *)
RemoveTrailingSlash(path) ==
  [path EXCEPT !.trail = 0, !.lead = IF path.name = Nothing THEN 0 ELSE @]

NormalizePath(path) ==
  LET e == EnsureHeadingSlash(path)
      p == RemoveTrailingSlash(e.path)
  IN IF e.has THEN p ELSE [p EXCEPT !.lead = @ + 1]

(* regex_match: a name stands for itself, ".*" for any rest of a path. *)
Matches(pattern, path) ==
  IF pattern.name = AnyRest THEN path.lead >= pattern.lead ELSE path = pattern

Handler(path, close) == [path |-> path, pattern |-> NormalizePath(path), close |-> close]

(* The constructor of a server of files registers index.html for "". *)
Init ==
  /\ web_api \in WebApi
  /\ handlers = [m \in Methods |->
                   IF m = "kGet" /\ ~web_api
                   THEN <<Handler([lead |-> 0, name |-> Nothing, trail |-> 0], FALSE)>>
                   ELSE <<>>]
  /\ started = FALSE /\ state = "none" /\ context = NoContext
  /\ buffer = <<>> /\ received = <<>> /\ answers = <<>>
  /\ cut = FALSE /\ surplus = 0

-----------------------------------------------------------------------------
(* ProcessRequestLine. *)
IsRequestLine(line) == line.kind = "request"

(* A header line in the read buffer: its name, its value, its end. *)
Memory == <<"name", "value", "cr", "lf">>

(* HasCrlf of a view that begins at a position: it goes on to the next NUL. *)
HasCrlf(from) == \E i \in from .. Len(Memory) :
  /\ Memory[i] \in {"cr", "lf"}
  /\ \A j \in from .. i : Memory[j] # "nul"

(* HttpRequest::SetHeader of the header Connection; the first one counts. *)
SetHeader(connection, line) ==
  IF HasCrlf(1) \/ HasCrlf(2) \/ line.connection = "other" \/ connection # ""
  THEN connection ELSE line.connection

(* Mutant of ParseLine: what follows the request is retrieved with it. *)
ParseLineDropping(p, line) ==
  IF ~p.more THEN p
  ELSE IF p.context.state = "kExpectRequestLine"
  THEN IF IsRequestLine(line)
       THEN [p EXCEPT !.context.state = "kExpectHeaders", !.context.request = line]
       ELSE [p EXCEPT !.ok = FALSE, !.more = FALSE, !.rest = <<line>>]
  ELSE IF line.kind = "header"
  THEN [p EXCEPT !.context.connection = SetHeader(@, line)]
  ELSE [p EXCEPT !.context.state = "kComplete", !.more = FALSE]

(* One turn of ParseRequest's loop, at a complete line; the lines behind the  *)
(* last turn stay in the buffer, and so does a bad request line.              *)
ParseLine(p, line) ==
  IF ~p.more THEN [p EXCEPT !.rest = Append(@, line)]
  ELSE IF p.context.state = "kExpectRequestLine"
  THEN IF IsRequestLine(line)
       THEN [p EXCEPT !.context.state = "kExpectHeaders", !.context.request = line]
       ELSE [p EXCEPT !.ok = FALSE, !.more = FALSE, !.rest = <<line>>]
  ELSE IF line.kind = "header"
  THEN [p EXCEPT !.context.connection = SetHeader(@, line)]
  ELSE [p EXCEPT !.context.state = "kComplete", !.more = FALSE]

Unparsed(ctx) == [context |-> ctx, ok |-> TRUE, more |-> TRUE, rest |-> <<>>]

ParseRequest(ctx, lines) ==
  LET p[n \in 0 .. Len(lines)] ==
        IF n = 0 THEN Unparsed(ctx) ELSE ParseLine(p[n - 1], lines[n])
  IN p[Len(lines)]

-----------------------------------------------------------------------------
Response(status, close, handler) == [status |-> status, close |-> close, handler |-> handler]

(* Mutant of NotFound: the status code is not set. *)
NotFoundUnset == Response("0", TRUE, 0)

(* DefaultHttpCallback. *)
NotFound == Response("404", TRUE, 0)

(* Mutant of Dispatch: the last handler that matches. *)
DispatchLast(request, close) ==
  LET hs == handlers[request.method]
      i == SelectLastInSeq(hs, LAMBDA h : Matches(h.pattern, request.path))
  IN IF i = 0 THEN NotFound ELSE Response("200", close \/ hs[i].close, i)

(* Dispatch: the first handler whose pattern matches; it may ask for a close. *)
Dispatch(request, close) ==
  LET hs == handlers[request.method]
      i == SelectInSeq(hs, LAMBDA h : Matches(h.pattern, request.path))
  IN IF i = 0 THEN NotFound ELSE Response("200", close \/ hs[i].close, i)

(* The file of a path: one slash in front is taken away. *)
FileOf(path) == [path EXCEPT !.lead = IF @ > 0 THEN @ - 1 ELSE 0]

IsFile(path) == \E f \in Files : FileOf(path) = [lead |-> 0, name |-> f, trail |-> 0]

(* Route, and DefaultHttpCallback where it fails (also for HEAD). *)
Route(request, close) ==
  IF request.method = "kHead" THEN NotFound
  ELSE IF request.method # "kGet" \/ web_api \/ request.path = Root
  THEN Dispatch(request, close)
  ELSE IF IsFile(request.path) THEN Response("200", close, 0) ELSE NotFound

(* OnRequest: does the request ask for a close?  Then Route and WriteTo. *)
OnRequest(ctx) ==
  Route(ctx.request, \/ ctx.connection = "close"
                     \/ ctx.request.version = "kHttp10" /\ ctx.connection # "Keep-Alive")

BadRequest == Response("400", TRUE, 0)

-----------------------------------------------------------------------------
(* A route answers the path it was given with one slash in front and none     *)
(* behind, except that one slash in front becomes two, and "//" matches none. *)
Answers(route, path) ==
  LET slashes == IF route.lead = 1 THEN 2 ELSE 1
  IN CASE route.name = Nothing -> path.name = Nothing /\ path.trail = 0
                                  /\ path.lead = (IF route.lead < 2 THEN 1 ELSE 0)
       [] route.name = AnyRest -> path.lead >= slashes
       [] OTHER -> path.name = route.name /\ path.lead = slashes /\ path.trail = 0

(* The answer that a request should get: a file, or the first route of its    *)
(* method that answers it.  web and hs are web_api and handlers.              *)
RefAnswer(web, hs, q, asked) ==
  LET static == q.method = "kGet" /\ ~web /\ q.path # Root
      served == q.path.lead < 2 /\ q.path.name \in Files /\ q.path.trail = 0
      routes == hs[q.method]
      first == {i \in DOMAIN routes : /\ Answers(routes[i].path, q.path)
                                     /\ \A j \in 1 .. i - 1 : ~Answers(routes[j].path, q.path)}
      i == CHOOSE i \in first : TRUE
  IN IF static
     THEN IF served THEN Response("200", asked, 0) ELSE Response("404", TRUE, 0)
     ELSE IF q.method = "kHead" \/ first = {} THEN Response("404", TRUE, 0)
     ELSE Response("200", asked \/ routes[i].close, i)

(* What the stream of all lines asks for: each request is answered once, in  *)
(* order, until an answer that closes.  keeps says whether headers count.    *)
RefLine(web, hs, keeps, r, line) ==
  CASE r.at = "end" -> r
    [] r.at = "request" /\ line \in RequestLines ->
         [r EXCEPT !.at = "headers", !.request = line, !.connection = ""]
    [] r.at = "request" /\ line \notin RequestLines ->
         [r EXCEPT !.at = "end", !.out = Append(@, BadRequest)]
    [] r.at = "headers" /\ line \in HeaderLines ->
         [r EXCEPT !.connection = IF keeps /\ @ = "" /\ line.connection # "other"
                                  THEN line.connection ELSE @]
    [] r.at = "headers" /\ line \notin HeaderLines ->
         LET a == RefAnswer(web, hs, r.request,
                            \/ r.connection = "close"
                            \/ r.request.version = "kHttp10" /\ r.connection # "Keep-Alive")
         IN [r EXCEPT !.at = IF a.close THEN "end" ELSE "request", !.out = Append(@, a)]

RefStart == [at |-> "request", request |-> NoContext, connection |-> "", out |-> <<>>]

RefState(web, hs, keeps, lines) ==
  LET r[n \in 0 .. Len(lines)] ==
        IF n = 0 THEN RefStart ELSE RefLine(web, hs, keeps, r[n - 1], lines[n])
  IN r[Len(lines)]

Reference(keeps, lines) == RefState(web_api, handlers, keeps, lines).out

-----------------------------------------------------------------------------
(* Get, Post, Put, Delete, before Start. *)
Register(r) ==
  /\ ~started /\ Len(handlers[r.method]) < MaxRoutes
  /\ handlers' = [handlers EXCEPT ![r.method] =
                    Append(@, Handler(r.path, r.close))]
  /\ UNCHANGED <<web_api, started, state, context, buffer, received, answers, cut, surplus>>

Start ==
  /\ ~started /\ started' = TRUE
  /\ UNCHANGED <<web_api, handlers, state, context, buffer, received, answers, cut, surplus>>

(* OnConnection of a connection that is up. *)
OnConnection ==
  /\ started /\ state = "none"
  /\ state' = "kConnected" /\ context' = NewContext
  /\ UNCHANGED <<web_api, handlers, started, buffer, received, answers, cut, surplus>>

(* The connection is closed by the peer, or after an answer that closes. *)
Close ==
  /\ state \in {"kConnected", "kDisconnecting"}
  /\ state' = "kDisconnected"
  /\ UNCHANGED <<web_api, handlers, started, context, buffer, received, answers, cut, surplus>>

(* Send one response, after those said, and Shutdown if it closes. *)
Respond(said, a) ==
  IF state = "kConnected"
  THEN answers' = Append(said, a) /\ state' = IF a.close THEN "kDisconnecting" ELSE state
  ELSE answers' = said /\ UNCHANGED state

(* MsgBuffer::ReadFile: the lines that stay in the read buffer. *)
Kept(grows) == IF grows THEN <<>> ELSE buffer

(* The histories that a read continues. *)
Before(grows) ==
  IF grows THEN [received |-> <<>>, answers |-> <<>>, cut |-> FALSE, surplus |-> 0]
  ELSE [received |-> received, answers |-> answers, cut |-> cut, surplus |-> surplus]

(* HandleRead and OnMessage: new are the lines that the read completes, or    *)
(* when the buffer grows those that are left of it, the first one perhaps     *)
(* without its beginning, and so any line.  The context of the connection is  *)
(* not the one that is parsed into and reset.                                 *)
OnMessage(new, grows) ==
  LET p == ParseRequest(context, Kept(grows) \o new)
      b == Before(grows)
      ended == Len(Reference(FALSE, b.received \o new)) - Len(Reference(FALSE, b.received))
  IN /\ state \in {"kConnected", "kDisconnecting"}
     /\ buffer' = p.rest
     /\ IF ~p.ok THEN Respond(b.answers, BadRequest)
        ELSE IF p.context.state = "kComplete" THEN Respond(b.answers, OnRequest(p.context))
        ELSE answers' = b.answers /\ UNCHANGED state
     /\ received' = b.received \o new
     /\ cut' = (b.cut \/ p.context.state = "kExpectHeaders")
     /\ surplus' = IF b.surplus + ended = 0 THEN 0 ELSE b.surplus + ended - 1
     /\ UNCHANGED <<web_api, handlers, started, context>>

(* A read that completes any number of lines; whether it fits is left open. *)
Receive == \E grows \in BOOLEAN :
  \E k \in 0 .. IF grows THEN MaxLeft ELSE MaxLines - Len(received) :
    \E new \in [1 .. k -> Lines] : OnMessage(new, grows)

Next == (\E r \in Routes : Register(r)) \/ Start \/ OnConnection \/ Close \/ Receive

Spec == Init /\ [][Next]_vars

-----------------------------------------------------------------------------
(* However the stream is split into reads, and wherever bytes of it are lost, *)
(* the answers since the last loss are the first ones that the lines received *)
(* since then ask for, unless a read ended inside the headers of a request.   *)
AnswersInOrder == ~cut => IsPrefix(answers, Reference(FALSE, received))

(* One request is answered per read: answers are outstanding only while more  *)
(* requests ended, since bytes were last lost, than there were reads since to *)
(* answer them.                                                               *)
OnePerRead ==
  ~cut /\ state = "kConnected" => Len(Reference(FALSE, received)) <= Len(answers) + surplus

(* http.hpp:95: a header is refused when its name or value has a CR or LF in  *)
(* it.  None here has, so the header Connection of a request decides.         *)
HeadersCount == ~cut => IsPrefix(answers, Reference(TRUE, received))
=============================================================================
