--------------------------- MODULE HttpServerProofs ---------------------------
(***************************************************************************)
(* HttpServer.tla for any routes, files, requests and numbers of lines:    *)
(* the types, that the answers are the first ones the stream asks for,     *)
(* and that one request is answered per read.                              *)
(*                                                                         *)
(* Both the parser and the reference are runs: a state, and a step for     *)
(* each line.  First what holds of any run, then the two runs step by      *)
(* step, then side by side over the lines of one read (Parsed): the parser *)
(* is where the reference is until it has a whole request, or a bad one.   *)
(***************************************************************************)
EXTENDS HttpServer, SequenceTheorems, WellFoundedInduction, TLAPS

(* A set of numbers has a least one. *)
LEMMA Least ==
  ASSUME NEW T, T \subseteq Nat, T # {}
  PROVE  \E x \in T : \A y \in T : x <= y
<1>. DEFINE R == OpToRel(<, Nat)
<1>1. \A x, y \in Nat : y < x => <<y, x>> \in R
  BY DEF OpToRel
<1>2. PICK x \in T : \A y \in T : ~(<<y, x>> \in R)
  BY NatLessThanWellFounded, WFMin
<1>. HIDE DEF R
<1>3. \A y \in T : ~ (y < x)
  BY <1>1, <1>2, Zenon
<1>4. x \in Nat /\ \A y \in T : y \in Nat
  OBVIOUS
<1>5. \A y \in T : x <= y
  BY <1>3, <1>4
<1>. QED BY <1>5

(* So a set of numbers with 0 and all successors has them all ...            *)
LEMMA Induction ==
  ASSUME NEW T, T \subseteq Nat, 0 \in T, \A n \in T : n + 1 \in T
  PROVE  \A n \in Nat : n \in T
<1>1. ASSUME NEW n \in Nat \ T PROVE FALSE
  <2>1. PICK x \in Nat \ T : \A y \in Nat \ T : x <= y
    BY <1>1, Least
  <2>2. x - 1 \in Nat /\ x - 1 \in T
    BY <2>1
  <2> QED BY <2>1, <2>2
<1> QED BY <1>1

(* ... and a set of sequences, with the empty one and what it takes to grow. *)
LEMMA SequenceInduction ==
  ASSUME NEW L, NEW T, <<>> \in T,
         \A s \in Seq(L), x \in L : s \in T => Append(s, x) \in T
  PROVE  \A s \in Seq(L) : s \in T
<1>. DEFINE P(n) == \A s \in Seq(L) : Len(s) = n => s \in T
            N == {n \in Nat : P(n)}
<1>1. P(0)
  BY EmptySeq
<1>2. ASSUME NEW n \in Nat, P(n) PROVE P(n + 1)
  <2>. SUFFICES ASSUME NEW s \in Seq(L), Len(s) = n + 1 PROVE s \in T
    OBVIOUS
  <2>1. s # <<>>
    BY EmptySeq
  <2>2. PICK f \in Seq(L), x \in L : s = Append(f, x)
    BY <2>1, SequenceEmptyOrAppend
  <2>3. Len(f) = n
    BY <2>2, AppendProperties, LenProperties
  <2>. QED BY <1>2, <2>2, <2>3
<1>. HIDE DEF P
<1>3. \A n \in Nat : n \in N
  <2>1. N \subseteq Nat /\ 0 \in N /\ \A n \in N : n + 1 \in N
    BY <1>1, <1>2
  <2>. HIDE DEF N
  <2>. QED BY <2>1, Induction
<1>4. ASSUME NEW s \in Seq(L) PROVE s \in T
  <2>1. Len(s) \in Nat
    BY LenProperties
  <2>2. P(Len(s))
    BY <1>3, <2>1
  <2>. QED BY <2>2 DEF P
<1>. QED BY <1>4

-----------------------------------------------------------------------------
(* g[n] is the state after n lines. *)
IsRun(D, start, F, lines, g) ==
  /\ g \in [0 .. Len(lines) -> D] /\ g[0] = start
  /\ \A n \in 1 .. Len(lines) : g[n] = F[<<g[n - 1], lines[n]>>]

Longer(g, N, z) == [n \in 0 .. N + 1 |-> IF n = N + 1 THEN z ELSE g[n]]

LEMMA RunAppend ==
  ASSUME NEW D, NEW L, NEW start \in D, NEW F \in [D \X L -> D],
         NEW lines \in Seq(L), NEW x \in L, NEW g, IsRun(D, start, F, lines, g)
  PROVE  IsRun(D, start, F, Append(lines, x), Longer(g, Len(lines), F[<<g[Len(lines)], x>>]))
<1>. DEFINE N == Len(lines)
            q == Append(lines, x)
            z == F[<<g[N], x>>]
            h == Longer(g, N, z)
<1>1. /\ q \in Seq(L) /\ Len(q) = N + 1 /\ N \in Nat
      /\ q[N + 1] = x /\ \A n \in 1 .. N : q[n] = lines[n]
  BY AppendProperties, LenProperties
<1>2. g \in [0 .. N -> D] /\ g[0] = start
  BY DEF IsRun
<1>3. z \in D
  <2>1. g[N] \in D
    BY <1>1, <1>2
  <2>. QED BY <2>1
<1>4. \A n \in 1 .. N : g[n] = F[<<g[n - 1], lines[n]>>]
  BY DEF IsRun
<1>. HIDE DEF N, q, z
<1>5. h[N + 1] = z /\ \A n \in 0 .. N : h[n] = g[n]
  BY <1>1 DEF Longer
<1>6. h \in [0 .. N + 1 -> D] /\ h[0] = start
  BY <1>1, <1>2, <1>3 DEF Longer
<1>. HIDE DEF h
<1>7. ASSUME NEW n \in 1 .. N + 1 PROVE h[n] = F[<<h[n - 1], q[n]>>]
  <2>1. CASE n = N + 1
    <3>1. n - 1 = N /\ N \in 0 .. N
      BY <1>1, <2>1
    <3>. QED BY <1>1, <1>5, <2>1, <3>1 DEF z
  <2>2. CASE n # N + 1
    <3>1. n \in 1 .. N /\ n \in 0 .. N /\ n - 1 \in 0 .. N
      BY <1>1, <2>2
    <3>. QED BY <1>1, <1>4, <1>5, <3>1
  <2>. QED BY <2>1, <2>2
<1>8. IsRun(D, start, F, q, h)
  BY <1>1, <1>6, <1>7 DEF IsRun
<1>. QED BY <1>8 DEF h, q, z, N

LEMMA RunExists ==
  ASSUME NEW D, NEW L, NEW start \in D, NEW F \in [D \X L -> D], NEW lines \in Seq(L)
  PROVE  \E g : IsRun(D, start, F, lines, g)
<1>. DEFINE T == {q \in Seq(L) : \E g : IsRun(D, start, F, q, g)}
<1>1. <<>> \in T
  <2>1. IsRun(D, start, F, <<>>, [n \in 0 .. 0 |-> start])
    BY EmptySeq DEF IsRun
  <2>. QED BY <2>1, EmptySeq
<1>2. ASSUME NEW q \in Seq(L), NEW x \in L, q \in T PROVE Append(q, x) \in T
  <2>1. PICK g : IsRun(D, start, F, q, g)
    BY <1>2
  <2>. DEFINE t == Append(q, x)
              h == Longer(g, Len(q), F[<<g[Len(q)], x>>])
  <2>2. IsRun(D, start, F, t, h)
    <3>1. IsRun(D, start, F, Append(q, x), h)
      BY <2>1, RunAppend
    <3>. QED BY <3>1
  <2>3. t \in Seq(L)
    BY AppendProperties
  <2>. HIDE DEF t, h
  <2>4. t \in T
    BY <2>2, <2>3
  <2>. QED BY <2>4 DEF t
<1>. HIDE DEF T
<1>3. lines \in T
  BY <1>1, <1>2, SequenceInduction
<1>. QED BY <1>3 DEF T

-----------------------------------------------------------------------------
(* The parser.  A header never gets into a request (SetHeader).              *)
ParseStates ==
  [context : [state : {"kExpectRequestLine", "kExpectHeaders", "kComplete"},
              request : RequestLines \cup {NoContext}, connection : {""}],
   ok : BOOLEAN, more : BOOLEAN, rest : Seq(Lines)]

ParseStep == [x \in ParseStates \X Lines |-> ParseLine(x[1], x[2])]

(* The requests are among the request lines. *)
LEMMA KindOfLine ==
  ASSUME NEW line \in Lines
  PROVE  /\ line.kind = "request" <=> line \in RequestLines
         /\ line.kind = "header" <=> line \in HeaderLines
BY HttpAssumption DEF Lines, RequestLines, HeaderLines, OtherLines

LEMMA HeadersUnset ==
  ASSUME NEW connection, NEW line PROVE SetHeader(connection, line) = connection
<1>1. HasCrlf(1)
  BY DEF HasCrlf, Memory
<1>. QED BY <1>1 DEF SetHeader

LEMMA ParseLineType ==
  ASSUME NEW p \in ParseStates, NEW line \in Lines
  PROVE  ParseLine(p, line) \in ParseStates
<1>. DEFINE C == [state : {"kExpectRequestLine", "kExpectHeaders", "kComplete"},
                  request : RequestLines \cup {NoContext}, connection : {""}]
<1>1. p.context \in C /\ p.rest \in Seq(Lines)
  BY DEF ParseStates
<1>2. CASE ~p.more
  <2>1. Append(p.rest, line) \in Seq(Lines)
    BY <1>1, AppendProperties
  <2>. QED BY <1>2, <2>1 DEF ParseLine, ParseStates
<1>3. CASE p.more /\ p.context.state = "kExpectRequestLine"
  <2>1. <<line>> \in Seq(Lines)
    OBVIOUS
  <2>2. CASE IsRequestLine(line)
    BY <1>1, <1>3, <2>2, KindOfLine DEF ParseLine, ParseStates, IsRequestLine
  <2>3. CASE ~IsRequestLine(line)
    BY <1>1, <1>3, <2>1, <2>3 DEF ParseLine, ParseStates
  <2>. QED BY <2>2, <2>3
<1>4. CASE p.more /\ p.context.state # "kExpectRequestLine"
  BY <1>1, <1>4, HeadersUnset DEF ParseLine, ParseStates
<1>. QED BY <1>2, <1>3, <1>4

LEMMA ParseIsRun ==
  ASSUME NEW ctx, NEW lines \in Seq(Lines), NEW g,
         IsRun(ParseStates, Unparsed(ctx), ParseStep, lines, g)
  PROVE  ParseRequest(ctx, lines) = g[Len(lines)]
<1>. DEFINE N == Len(lines)
            Is(f) == f = [n \in 0 .. N |-> IF n = 0 THEN Unparsed(ctx)
                                           ELSE ParseLine(f[n - 1], lines[n])]
            parse == CHOOSE f : Is(f)
<1>1. N \in Nat /\ g \in [0 .. N -> ParseStates]
  BY LenProperties DEF IsRun
<1>0. g[0] = Unparsed(ctx)
  BY DEF IsRun
<1>2. ASSUME NEW n \in 1 .. N PROVE g[n] = ParseLine(g[n - 1], lines[n])
  <2>1. g[n - 1] \in ParseStates /\ lines[n] \in Lines
    BY <1>1, ElementOfSeq
  <2>2. g[n] = ParseStep[<<g[n - 1], lines[n]>>]
    BY DEF IsRun
  <2>. QED BY <2>1, <2>2 DEF ParseStep
<1>3. Is(g)
  <2>1. ASSUME NEW n \in 0 .. N
        PROVE  g[n] = IF n = 0 THEN Unparsed(ctx) ELSE ParseLine(g[n - 1], lines[n])
    <3>1. CASE n = 0
      BY <1>0, <3>1
    <3>2. CASE n # 0
      <4>1. n \in 1 .. N
        BY <1>1, <3>2
      <4>. QED BY <1>2, <3>2, <4>1
    <3>. QED BY <3>1, <3>2
  <2>. QED BY <1>1, <2>1
<1>4. Is(parse)
  <2>. HIDE DEF Is
  <2>. QED BY <1>3
<1>5. ParseRequest(ctx, lines) = parse[N]
  BY DEF ParseRequest
<1>. HIDE DEF parse, N
<1>. DEFINE P(n) == n <= N => parse[n] = g[n]
            T == {n \in Nat : P(n)}
<1>6. P(0)
  <2>1. 0 \in 0 .. N
    BY <1>1
  <2>. QED BY <1>0, <1>4, <2>1
<1>7. ASSUME NEW n \in Nat, P(n) PROVE P(n + 1)
  <2>. SUFFICES ASSUME n + 1 <= N PROVE parse[n + 1] = g[n + 1]
    OBVIOUS
  <2>1. n <= N /\ n + 1 \in 1 .. N /\ n + 1 \in 0 .. N /\ (n + 1) - 1 = n /\ n + 1 # 0
    BY <1>1
  <2>2. parse[n + 1] = ParseLine(parse[n], lines[n + 1])
    BY <1>4, <2>1
  <2>. QED BY <1>2, <1>7, <2>1, <2>2
<1>. HIDE DEF P
<1>8. \A n \in Nat : n \in T
  <2>1. T \subseteq Nat /\ 0 \in T /\ \A n \in T : n + 1 \in T
    BY <1>6, <1>7
  <2>. HIDE DEF T
  <2>. QED BY <2>1, Induction
<1>9. P(N)
  BY <1>1, <1>8
<1>. QED BY <1>1, <1>5, <1>9 DEF P, N

(* One more line is one more step. *)
LEMMA ParseAppend ==
  ASSUME NEW lines \in Seq(Lines), NEW line \in Lines
  PROVE  /\ ParseRequest(NewContext, lines) \in ParseStates
         /\ ParseRequest(NewContext, Append(lines, line))
              = ParseLine(ParseRequest(NewContext, lines), line)
<1>. DEFINE start == Unparsed(NewContext)
            N == Len(lines)
<1>1. start \in ParseStates
  BY EmptySeq DEF ParseStates, Unparsed, NewContext
<1>2. ParseStep \in [ParseStates \X Lines -> ParseStates]
  BY ParseLineType DEF ParseStep
<1>. HIDE DEF start
<1>3. PICK g : IsRun(ParseStates, start, ParseStep, lines, g)
  BY <1>1, <1>2, RunExists
<1>. DEFINE h == Longer(g, N, ParseStep[<<g[N], line>>])
<1>4. IsRun(ParseStates, start, ParseStep, Append(lines, line), h)
  BY <1>1, <1>2, <1>3, RunAppend
<1>5. h[N + 1] = ParseStep[<<g[N], line>>]
  BY LenProperties DEF Longer
<1>. HIDE DEF h
<1>6. /\ Append(lines, line) \in Seq(Lines) /\ Len(Append(lines, line)) = N + 1
      /\ N \in Nat
  BY AppendProperties, LenProperties
<1>7. ParseRequest(NewContext, lines) = g[N]
  BY <1>3, ParseIsRun DEF start
<1>8. ParseRequest(NewContext, Append(lines, line)) = h[N + 1]
  <2>1. ParseRequest(NewContext, Append(lines, line)) = h[Len(Append(lines, line))]
    BY <1>4, <1>6, ParseIsRun DEF start
  <2>. QED BY <1>6, <2>1
<1>9. g \in [0 .. N -> ParseStates]
  BY <1>3 DEF IsRun
<1>10. g[N] \in ParseStates
  <2>. HIDE DEF N
  <2>. QED BY <1>6, <1>9
<1>. QED BY <1>5, <1>7, <1>8, <1>10 DEF ParseStep

LEMMA ParseNothing == ParseRequest(NewContext, <<>>) = Unparsed(NewContext)
<1>. DEFINE start == Unparsed(NewContext)
<1>1. start \in ParseStates
  BY EmptySeq DEF ParseStates, Unparsed, NewContext
<1>. HIDE DEF start
<1>2. IsRun(ParseStates, start, ParseStep, <<>>, [n \in 0 .. 0 |-> start])
  BY <1>1, EmptySeq DEF IsRun
<1>. QED BY <1>2, ParseIsRun, EmptySeq DEF start

-----------------------------------------------------------------------------
(* Handlers as the server registers them. *)
Registered ==
  {hs \in [Methods -> Seq([path : Paths, pattern : Paths, close : BOOLEAN])] :
     \A m \in Methods : \A i \in DOMAIN hs[m] :
       hs[m][i].pattern = NormalizePath(hs[m][i].path)}

LEMMA PatternOf ==
  ASSUME NEW path \in Paths
  PROVE  NormalizePath(path) =
           [lead |-> IF path.name = Nothing THEN IF path.lead > 1 THEN 0 ELSE 1
                     ELSE IF path.lead = 1 THEN 2 ELSE 1,
            name |-> path.name, trail |-> 0]
<1>. DEFINE has == path.lead > 1
            p == [path EXCEPT !.lead = IF path.lead > 1 THEN 1 ELSE @]
            q == RemoveTrailingSlash(p)
            lead == IF path.lead > 1 THEN 1 ELSE path.lead
<1>1. path \in [lead : 0 .. 3, name : Names, trail : 0 .. 1]
  BY DEF Paths
<1>2. p = [lead |-> lead, name |-> path.name, trail |-> path.trail]
  BY <1>1
<1>3. lead \in 0 .. 1 /\ path.lead \in 0 .. 3 /\ has \in BOOLEAN
  BY <1>1
<1>4. EnsureHeadingSlash(path) = [has |-> has, path |-> p]
  BY DEF EnsureHeadingSlash
<1>. HIDE DEF has, p, lead
<1>5. q = [lead |-> IF path.name = Nothing THEN 0 ELSE lead, name |-> path.name, trail |-> 0]
  <2>1. p.name = path.name /\ p.lead = lead
    BY <1>2
  <2>2. p \in [lead : 0 .. 3, name : Names, trail : 0 .. 1]
    BY <1>1, <1>2, <1>3
  <2>3. q = [p EXCEPT !.trail = 0, !.lead = IF path.name = Nothing THEN 0 ELSE lead]
    BY <2>1 DEF RemoveTrailingSlash
  <2>. HIDE DEF q
  <2>. QED BY <2>1, <2>2, <2>3
<1>. HIDE DEF q
<1>6. NormalizePath(path) = IF has THEN q ELSE [q EXCEPT !.lead = @ + 1]
  <2>1. EnsureHeadingSlash(path).has = has /\ EnsureHeadingSlash(path).path = p
    BY <1>4
  <2>. QED BY <2>1 DEF NormalizePath, q
<1>7. [q EXCEPT !.lead = @ + 1]
        = [lead |-> 1 + IF path.name = Nothing THEN 0 ELSE lead, name |-> path.name, trail |-> 0]
  BY <1>3, <1>5
<1>. QED BY <1>3, <1>5, <1>6, <1>7 DEF has, lead

LEMMA PatternType ==
  ASSUME NEW path \in Paths PROVE NormalizePath(path) \in Paths
BY PatternOf DEF Paths

(* The regex of a normalized path matches what the path should answer. *)
LEMMA PatternMatches ==
  ASSUME NEW route \in Paths, NEW path \in Paths
  PROVE  Matches(NormalizePath(route), path) <=> Answers(route, path)
<1>. DEFINE p == NormalizePath(route)
<1>1. /\ p \in Paths /\ p.name = route.name /\ p.trail = 0
      /\ p.lead = IF route.name = Nothing THEN IF route.lead > 1 THEN 0 ELSE 1
                  ELSE IF route.lead = 1 THEN 2 ELSE 1
  BY PatternOf, PatternType
<1>2. path = p <=> path.lead = p.lead /\ path.name = p.name /\ path.trail = p.trail
  BY <1>1 DEF Paths
<1>. HIDE DEF p
<1>3. route.lead \in 0 .. 3 /\ path.lead \in 0 .. 3
  BY DEF Paths
<1>4. CASE route.name = AnyRest
  BY <1>1, <1>3, <1>4, HttpAssumption DEF Matches, Answers, p
<1>5. CASE route.name = Nothing
  BY <1>1, <1>2, <1>3, <1>5, HttpAssumption DEF Matches, Answers, p
<1>6. CASE route.name # AnyRest /\ route.name # Nothing
  BY <1>1, <1>2, <1>3, <1>6 DEF Matches, Answers, p
<1>. QED BY <1>4, <1>5, <1>6

(* The least of a set of indexes is the one that none before it is in. *)
LEMMA FirstIsMin ==
  ASSUME NEW I, I \subseteq Nat, NEW first,
         first = {i \in I : \A j \in I : ~(j < i)}
  PROVE  /\ I = {} <=> first = {}
         /\ I # {} => /\ Min(I) \in I
                      /\ Min(I) = CHOOSE i \in first : TRUE
<1>1. CASE I = {}
  BY <1>1
<1>2. CASE I # {}
  <2>1. PICK x \in I : \A y \in I : x <= y
    BY <1>2, Least
  <2>2. \A y \in I : y \in Nat
    OBVIOUS
  <2>3. first = {x}
    <3>1. x \in first
      BY <2>1, <2>2
    <3>2. ASSUME NEW z \in first PROVE z = x
      BY <2>1, <2>2
    <3>. QED BY <3>1, <3>2
  <2>4. \A y \in I : (\A z \in I : y <= z) => y = x
    BY <2>1, <2>2
  <2>5. Min(I) = x
    BY <2>1, <2>4 DEF Min
  <2>6. (CHOOSE i \in first : TRUE) = x
    BY <2>3
  <2>. QED BY <1>2, <2>1, <2>3, <2>5, <2>6
<1>. QED BY <1>1, <1>2

(* OnRequest gives the answer that the reference asks for. *)
LEMMA DispatchFirst ==
  ASSUME web_api \in BOOLEAN, handlers \in Registered,
         NEW q \in RequestLines, NEW asked \in BOOLEAN,
         q.method # "kHead", ~(q.method = "kGet" /\ ~web_api /\ q.path # Root)
  PROVE  /\ Dispatch(q, asked) = RefAnswer(web_api, handlers, q, asked)
         /\ Dispatch(q, asked) \in Answer
<1>. DEFINE hs == handlers[q.method]
            I == {i \in 1 .. Len(hs) : Matches(hs[i].pattern, q.path)}
            J == {i \in DOMAIN hs : /\ Answers(hs[i].path, q.path)
                                    /\ \A j \in 1 .. i - 1 : ~Answers(hs[j].path, q.path)}
            chosen == CHOOSE i \in J : TRUE
<1>1. q.method \in Methods /\ q.path \in Paths
  BY DEF RequestLines, Methods
<1>2. /\ hs \in Seq([path : Paths, pattern : Paths, close : BOOLEAN])
      /\ \A i \in DOMAIN hs : hs[i].pattern = NormalizePath(hs[i].path)
  BY <1>1 DEF Registered
<1>. HIDE DEF hs
<1>3. DOMAIN hs = 1 .. Len(hs) /\ Len(hs) \in Nat
  BY <1>2, LenProperties
<1>4. ASSUME NEW i \in 1 .. Len(hs) PROVE hs[i].path \in Paths /\ hs[i].close \in BOOLEAN
  <2>1. hs[i] \in [path : Paths, pattern : Paths, close : BOOLEAN]
    BY <1>2, ElementOfSeq
  <2>. QED BY <2>1
<1>5. \A i \in 1 .. Len(hs) : Matches(hs[i].pattern, q.path) <=> Answers(hs[i].path, q.path)
  BY <1>1, <1>2, <1>3, <1>4, PatternMatches
<1>6. I \subseteq Nat /\ J = {i \in I : \A j \in I : ~(j < i)}
  BY <1>3, <1>5
<1>7. /\ I = {} <=> J = {}
      /\ I # {} => Min(I) \in I /\ Min(I) = chosen
  <2>. HIDE DEF I, J
  <2>. QED BY <1>6, FirstIsMin
<1>8. Dispatch(q, asked) = IF I = {} THEN NotFound
                           ELSE Response("200", asked \/ hs[Min(I)].close, Min(I))
  <2>1. SelectInSeq(hs, LAMBDA h : Matches(h.pattern, q.path)) = IF I = {} THEN 0 ELSE Min(I)
    BY DEF SelectInSeq
  <2>2. I # {} => Min(I) # 0
    BY <1>3, <1>7
  <2>. QED BY <2>1, <2>2 DEF Dispatch, hs
<1>9. RefAnswer(web_api, handlers, q, asked)
        = IF q.method = "kHead" \/ J = {} THEN NotFound
          ELSE Response("200", asked \/ hs[chosen].close, chosen)
  BY Zenon DEF RefAnswer, NotFound, hs
<1>. HIDE DEF I, J, chosen
<1>10. I # {} => Min(I) \in 1 .. Len(hs)
  BY <1>7 DEF I
<1>11. Dispatch(q, asked) = RefAnswer(web_api, handlers, q, asked)
  BY <1>7, <1>8, <1>9
<1>12. (asked \/ hs[Min(I)].close) \in BOOLEAN
  OBVIOUS
<1>13. Dispatch(q, asked) \in Answer
  BY <1>3, <1>8, <1>10, <1>12 DEF Answer, NotFound, Response
<1>. QED BY <1>11, <1>13

LEMMA AnswerIsAsked ==
  ASSUME web_api \in BOOLEAN, handlers \in Registered,
         NEW q \in RequestLines, NEW asked \in BOOLEAN
  PROVE  /\ Route(q, asked) = RefAnswer(web_api, handlers, q, asked)
         /\ Route(q, asked) \in Answer
<1>. DEFINE static == q.method = "kGet" /\ ~web_api /\ q.path # Root
<1>1. CASE q.method = "kHead"
  BY <1>1 DEF Route, RefAnswer, NotFound, Response, Answer
<1>2. CASE q.method # "kHead" /\ ~static
  BY <1>2, DispatchFirst DEF Route
<1>3. CASE static
  <2>1. q.path \in Paths
    BY DEF RequestLines
  <2>2. IsFile(q.path) <=> q.path.lead < 2 /\ q.path.name \in Files /\ q.path.trail = 0
    <3>. DEFINE lead == IF q.path.lead > 0 THEN q.path.lead - 1 ELSE 0
    <3>1. FileOf(q.path) = [lead |-> lead, name |-> q.path.name, trail |-> q.path.trail]
      BY <2>1 DEF FileOf, Paths
    <3>2. lead = 0 <=> q.path.lead < 2
      BY <2>1 DEF Paths
    <3>. HIDE DEF lead
    <3>3. \A f : FileOf(q.path) = [lead |-> 0, name |-> f, trail |-> 0]
                 <=> lead = 0 /\ q.path.name = f /\ q.path.trail = 0
      BY <3>1
    <3>. QED BY <3>2, <3>3 DEF IsFile
  <2>3. Route(q, asked) = IF IsFile(q.path) THEN Response("200", asked, 0) ELSE NotFound
    BY <1>3 DEF Route
  <2>4. RefAnswer(web_api, handlers, q, asked)
          = IF IsFile(q.path) THEN Response("200", asked, 0) ELSE NotFound
    BY <1>3, <2>2 DEF RefAnswer, NotFound
  <2>. QED BY <2>3, <2>4 DEF Answer, NotFound, Response
<1>. QED BY <1>1, <1>2, <1>3

-----------------------------------------------------------------------------
(* The reference, for a configuration whose answers are answers. *)
Configured(web, hs) ==
  \A q \in RequestLines, asked \in BOOLEAN : RefAnswer(web, hs, q, asked) \in Answer

Asks(q, connection) ==
  \/ connection = "close"
  \/ q.version = "kHttp10" /\ connection # "Keep-Alive"

RefStates ==
  {r \in [at : {"request", "headers", "end"}, request : RequestLines \cup {NoContext},
          connection : {""}, out : Seq(Answer)] :
     r.at = "headers" => r.request \in RequestLines}

RefStep(web, hs) == [x \in RefStates \X Lines |-> RefLine(web, hs, FALSE, x[1], x[2])]

RefMoves(web, hs, r, line, s) ==
  /\ r.at = "end" => s = r
  /\ r.at = "request" =>
       IF line \in RequestLines
       THEN s.at = "headers" /\ s.request = line /\ s.out = r.out
       ELSE s.at = "end" /\ s.out = Append(r.out, BadRequest)
  /\ r.at = "headers" =>
       IF line \in HeaderLines THEN s = r
       ELSE LET a == RefAnswer(web, hs, r.request, Asks(r.request, r.connection))
            IN /\ s.at = IF a.close THEN "end" ELSE "request"
               /\ s.out = Append(r.out, a)

LEMMA RefLineMoves ==
  ASSUME NEW web, NEW hs, Configured(web, hs), NEW r \in RefStates, NEW line \in Lines
  PROVE  /\ RefLine(web, hs, FALSE, r, line) \in RefStates
         /\ RefMoves(web, hs, r, line, RefLine(web, hs, FALSE, r, line))
<1>. DEFINE s == RefLine(web, hs, FALSE, r, line)
            R == [at : {"request", "headers", "end"}, request : RequestLines \cup {NoContext},
                  connection : {""}, out : Seq(Answer)]
<1>1. /\ r \in R /\ r.at \in {"request", "headers", "end"} /\ r.out \in Seq(Answer)
      /\ r.connection = "" /\ r.at = "headers" => r.request \in RequestLines
  BY DEF RefStates
<1>2. CASE r.at = "end"
  <2>1. s = r
    BY <1>2 DEF RefLine
  <2>. QED BY <1>2, <2>1 DEF RefMoves
<1>3. CASE r.at = "request" /\ line \in RequestLines
  <2>1. s = [r EXCEPT !.at = "headers", !.request = line, !.connection = ""]
    BY <1>3 DEF RefLine
  <2>. HIDE DEF s
  <2>2. s \in R /\ s.at = "headers" /\ s.request = line /\ s.out = r.out
    BY <1>1, <1>3, <2>1
  <2>. QED BY <1>3, <2>2 DEF RefStates, RefMoves, s
<1>4. CASE r.at = "request" /\ line \notin RequestLines
  <2>1. s = [r EXCEPT !.at = "end", !.out = Append(@, BadRequest)]
    BY <1>4 DEF RefLine
  <2>2. BadRequest \in Answer
    BY DEF BadRequest, Response, Answer
  <2>3. Append(r.out, BadRequest) \in Seq(Answer)
    BY <1>1, <2>2, AppendProperties
  <2>. HIDE DEF s
  <2>4. s \in R /\ s.at = "end" /\ s.out = Append(r.out, BadRequest)
    BY <1>1, <1>4, <2>1, <2>3
  <2>. QED BY <1>4, <2>4 DEF RefStates, RefMoves, s
<1>5. CASE r.at = "headers" /\ line \in HeaderLines
  <2>1. s = [r EXCEPT !.connection = @]
    BY <1>5 DEF RefLine
  <2>. HIDE DEF s
  <2>2. s = r
    BY <1>1, <2>1
  <2>. QED BY <1>5, <2>2 DEF RefMoves, s
<1>6. CASE r.at = "headers" /\ line \notin HeaderLines
  <2>. DEFINE a == RefAnswer(web, hs, r.request, Asks(r.request, r.connection))
  <2>1. s = [r EXCEPT !.at = IF a.close THEN "end" ELSE "request", !.out = Append(@, a)]
    BY <1>6 DEF RefLine, Asks
  <2>2. a \in Answer
    BY <1>1, <1>6 DEF Configured, Asks
  <2>. HIDE DEF a, s
  <2>3. Append(r.out, a) \in Seq(Answer)
    BY <1>1, <2>2, AppendProperties
  <2>4. /\ s \in R /\ s.at = IF a.close THEN "end" ELSE "request"
        /\ s.out = Append(r.out, a)
    BY <1>1, <2>1, <2>3
  <2>. QED BY <1>6, <2>4 DEF RefStates, RefMoves, s, a
<1>. QED BY <1>1, <1>2, <1>3, <1>4, <1>5, <1>6

LEMMA RefIsRun ==
  ASSUME NEW web, NEW hs, Configured(web, hs), NEW lines \in Seq(Lines), NEW g,
         IsRun(RefStates, RefStart, RefStep(web, hs), lines, g)
  PROVE  RefState(web, hs, FALSE, lines) = g[Len(lines)]
<1>. DEFINE N == Len(lines)
            Is(f) == f = [n \in 0 .. N |-> IF n = 0 THEN RefStart
                                           ELSE RefLine(web, hs, FALSE, f[n - 1], lines[n])]
            ref == CHOOSE f : Is(f)
<1>1. N \in Nat /\ g \in [0 .. N -> RefStates]
  BY LenProperties DEF IsRun
<1>0. g[0] = RefStart
  BY DEF IsRun
<1>2. ASSUME NEW n \in 1 .. N PROVE g[n] = RefLine(web, hs, FALSE, g[n - 1], lines[n])
  <2>1. g[n - 1] \in RefStates /\ lines[n] \in Lines
    BY <1>1, ElementOfSeq
  <2>2. g[n] = RefStep(web, hs)[<<g[n - 1], lines[n]>>]
    BY DEF IsRun
  <2>. QED BY <2>1, <2>2 DEF RefStep
<1>3. Is(g)
  <2>1. ASSUME NEW n \in 0 .. N
        PROVE  g[n] = IF n = 0 THEN RefStart ELSE RefLine(web, hs, FALSE, g[n - 1], lines[n])
    <3>1. CASE n = 0
      BY <1>0, <3>1
    <3>2. CASE n # 0
      <4>1. n \in 1 .. N
        BY <1>1, <3>2
      <4>. QED BY <1>2, <3>2, <4>1
    <3>. QED BY <3>1, <3>2
  <2>. QED BY <1>1, <2>1
<1>4. Is(ref)
  <2>. HIDE DEF Is
  <2>. QED BY <1>3
<1>5. RefState(web, hs, FALSE, lines) = ref[N]
  BY DEF RefState
<1>. HIDE DEF ref, N
<1>. DEFINE P(n) == n <= N => ref[n] = g[n]
            T == {n \in Nat : P(n)}
<1>6. P(0)
  <2>1. 0 \in 0 .. N
    BY <1>1
  <2>. QED BY <1>0, <1>4, <2>1
<1>7. ASSUME NEW n \in Nat, P(n) PROVE P(n + 1)
  <2>. SUFFICES ASSUME n + 1 <= N PROVE ref[n + 1] = g[n + 1]
    OBVIOUS
  <2>1. n <= N /\ n + 1 \in 1 .. N /\ n + 1 \in 0 .. N /\ (n + 1) - 1 = n /\ n + 1 # 0
    BY <1>1
  <2>2. ref[n + 1] = RefLine(web, hs, FALSE, ref[n], lines[n + 1])
    BY <1>4, <2>1
  <2>. QED BY <1>2, <1>7, <2>1, <2>2
<1>. HIDE DEF P
<1>8. \A n \in Nat : n \in T
  <2>1. T \subseteq Nat /\ 0 \in T /\ \A n \in T : n + 1 \in T
    BY <1>6, <1>7
  <2>. HIDE DEF T
  <2>. QED BY <2>1, Induction
<1>9. P(N)
  BY <1>1, <1>8
<1>. QED BY <1>1, <1>5, <1>9 DEF P, N

LEMMA RefStartType == RefStart \in RefStates
BY EmptySeq DEF RefStates, RefStart

LEMMA RefStepType ==
  ASSUME NEW web, NEW hs, Configured(web, hs)
  PROVE  RefStep(web, hs) \in [RefStates \X Lines -> RefStates]
BY RefLineMoves DEF RefStep

LEMMA RefAppend ==
  ASSUME NEW web, NEW hs, Configured(web, hs), NEW lines \in Seq(Lines), NEW line \in Lines
  PROVE  /\ RefState(web, hs, FALSE, lines) \in RefStates
         /\ RefState(web, hs, FALSE, Append(lines, line))
              = RefLine(web, hs, FALSE, RefState(web, hs, FALSE, lines), line)
<1>. DEFINE N == Len(lines)
            Step == RefStep(web, hs)
<1>1. RefStart \in RefStates
  BY RefStartType
<1>2. Step \in [RefStates \X Lines -> RefStates]
  BY RefStepType
<1>. HIDE DEF Step
<1>3. PICK g : IsRun(RefStates, RefStart, Step, lines, g)
  BY <1>1, <1>2, RunExists
<1>. DEFINE h == Longer(g, N, Step[<<g[N], line>>])
<1>4. IsRun(RefStates, RefStart, Step, Append(lines, line), h)
  BY <1>1, <1>2, <1>3, RunAppend
<1>5. h[N + 1] = Step[<<g[N], line>>]
  BY LenProperties DEF Longer
<1>. HIDE DEF h
<1>6. /\ Append(lines, line) \in Seq(Lines) /\ Len(Append(lines, line)) = N + 1
      /\ N \in Nat
  BY AppendProperties, LenProperties
<1>7. RefState(web, hs, FALSE, lines) = g[N]
  BY <1>3, RefIsRun DEF Step
<1>8. RefState(web, hs, FALSE, Append(lines, line)) = h[N + 1]
  <2>1. RefState(web, hs, FALSE, Append(lines, line)) = h[Len(Append(lines, line))]
    BY <1>4, <1>6, RefIsRun DEF Step
  <2>. QED BY <1>6, <2>1
<1>9. g \in [0 .. N -> RefStates]
  BY <1>3 DEF IsRun
<1>10. g[N] \in RefStates
  <2>. HIDE DEF N
  <2>. QED BY <1>6, <1>9
<1>. QED BY <1>5, <1>7, <1>8, <1>10 DEF Step, RefStep

LEMMA RefType ==
  ASSUME NEW web, NEW hs, Configured(web, hs), NEW lines \in Seq(Lines)
  PROVE  RefState(web, hs, FALSE, lines) \in RefStates
<1>1. [kind |-> "empty"] \in Lines
  BY DEF Lines, OtherLines
<1>. QED BY <1>1, RefAppend

LEMMA RefNothing ==
  ASSUME NEW web, NEW hs, Configured(web, hs)
  PROVE  RefState(web, hs, FALSE, <<>>) = RefStart
<1>. DEFINE g == [n \in 0 .. 0 |-> RefStart]
<1>1. IsRun(RefStates, RefStart, RefStep(web, hs), <<>>, g)
  BY RefStartType, EmptySeq DEF IsRun
<1>2. g[0] = RefStart
  OBVIOUS
<1>. HIDE DEF g
<1>. QED BY <1>1, <1>2, RefIsRun, EmptySeq

LEMMA ConcatAppend ==
  ASSUME NEW L, NEW s \in Seq(L), NEW t \in Seq(L), NEW x \in L
  PROVE  /\ s \o t \in Seq(L) /\ Append(t, x) \in Seq(L)
         /\ s \o Append(t, x) = Append(s \o t, x)
<1>1. s \o t \in Seq(L) /\ Append(t, x) \in Seq(L) /\ <<x>> \in Seq(L)
  BY ConcatProperties, AppendProperties
<1>2. Append(t, x) = t \o <<x>> /\ Append(s \o t, x) = (s \o t) \o <<x>>
  BY <1>1, AppendIsConcat
<1>. DEFINE u == <<x>>
<1>3. (s \o t) \o u = s \o (t \o u)
  <2>1. u \in Seq(L)
    BY <1>1
  <2>. HIDE DEF u
  <2>. QED BY <2>1
<1>. QED BY <1>1, <1>2, <1>3

LEMMA PrefixIs ==
  ASSUME NEW A, NEW s \in Seq(A), NEW t \in Seq(A)
  PROVE  IsPrefix(s, t) <=> Len(s) <= Len(t) /\ \A i \in 1 .. Len(s) : s[i] = t[i]
<1>1. Len(s) \in Nat /\ Len(t) \in Nat
  BY LenProperties
<1>2. SubSeq(s, 1, Len(s)) = s
  BY SubSeqFull
<1>3. ASSUME Len(s) <= Len(t) PROVE s = SubSeq(t, 1, Len(s)) <=> \A i \in 1 .. Len(s) : s[i] = t[i]
  <2>. DEFINE u == SubSeq(t, 1, Len(s))
  <2>1. u \in Seq(A) /\ Len(u) = Len(s) /\ \A i \in 1 .. Len(s) : u[i] = t[i]
    BY <1>1, <1>3
  <2>. HIDE DEF u
  <2>2. (\A i \in 1 .. Len(s) : s[i] = u[i]) => s = u
    BY <2>1, SeqEqual
  <2>. QED BY <2>1, <2>2 DEF u
<1>. QED BY <1>2, <1>3 DEF IsPrefix

(* The answers asked for only become more, and none comes after the end. *)
Grows(r, s) ==
  /\ IsPrefix(r.out, s.out)
  /\ r.at = "end" => s = r

LEMMA GrowsStep ==
  ASSUME NEW web, NEW hs, Configured(web, hs), NEW r \in RefStates, NEW s \in RefStates,
         Grows(r, s), NEW line \in Lines
  PROVE  Grows(r, RefLine(web, hs, FALSE, s, line))
<1>. DEFINE u == RefLine(web, hs, FALSE, s, line)
<1>1. u \in RefStates /\ RefMoves(web, hs, s, line, u)
  BY RefLineMoves
<1>. HIDE DEF u
<1>2. r.out \in Seq(Answer) /\ s.out \in Seq(Answer) /\ u.out \in Seq(Answer)
  BY <1>1 DEF RefStates
<1>3. u.out = s.out \/ \E a \in Answer : u.out = Append(s.out, a)
  <2>1. /\ s.at \in {"request", "headers", "end"}
        /\ s.at = "headers" => s.request \in RequestLines
    BY DEF RefStates
  <2>2. BadRequest \in Answer
    BY DEF BadRequest, Response, Answer
  <2>. DEFINE a == RefAnswer(web, hs, s.request, Asks(s.request, s.connection))
  <2>3. s.at = "headers" => a \in Answer
    BY <2>1 DEF Configured, Asks
  <2>4. s.at = "headers" => u = s \/ u.out = Append(s.out, a)
    BY <1>1 DEF RefMoves
  <2>. HIDE DEF a
  <2>5. s.at = "request" => u.out = s.out \/ u.out = Append(s.out, BadRequest)
    BY <1>1 DEF RefMoves
  <2>6. s.at = "end" => u = s
    BY <1>1 DEF RefMoves
  <2>. QED BY <2>1, <2>2, <2>3, <2>4, <2>5, <2>6
<1>4. Len(s.out) <= Len(u.out) /\ \A i \in 1 .. Len(s.out) : s.out[i] = u.out[i]
  BY <1>2, <1>3, AppendProperties, LenProperties
<1>5. Len(r.out) <= Len(s.out) /\ \A i \in 1 .. Len(r.out) : r.out[i] = s.out[i]
  BY <1>2, PrefixIs DEF Grows
<1>6. Len(r.out) <= Len(u.out) /\ \A i \in 1 .. Len(r.out) : r.out[i] = u.out[i]
  BY <1>2, <1>4, <1>5, LenProperties
<1>7. IsPrefix(r.out, u.out)
  BY <1>2, <1>6, PrefixIs
<1>8. r.at = "end" => u = r
  BY <1>1 DEF Grows, RefMoves
<1>. QED BY <1>7, <1>8 DEF Grows, u

LEMMA RefGrows ==
  ASSUME NEW web, NEW hs, Configured(web, hs), NEW s \in Seq(Lines), NEW t \in Seq(Lines)
  PROVE  Grows(RefState(web, hs, FALSE, s), RefState(web, hs, FALSE, s \o t))
<1>. DEFINE R(q) == RefState(web, hs, FALSE, q)
            T == {q \in Seq(Lines) : Grows(R(s), R(s \o q))}
<1>1. \A q \in Seq(Lines) : R(q) \in RefStates
  BY RefType
<1>2. <<>> \in T
  <2>1. R(s).out \in Seq(Answer) /\ s \o <<>> = s /\ <<>> \in Seq(Lines)
    BY <1>1, ConcatEmptySeq, EmptySeq DEF RefStates
  <2>2. IsPrefix(R(s).out, R(s).out)
    BY <2>1, LenProperties DEF IsPrefix
  <2>. QED BY <2>1, <2>2 DEF Grows
<1>3. ASSUME NEW q \in Seq(Lines), NEW x \in Lines, q \in T PROVE Append(q, x) \in T
  <2>1. s \o q \in Seq(Lines) /\ Append(q, x) \in Seq(Lines) /\ s \o Append(q, x) = Append(s \o q, x)
    BY ConcatAppend
  <2>. DEFINE y == s \o q
  <2>2. R(s \o Append(q, x)) = RefLine(web, hs, FALSE, R(s \o q), x)
    <3>1. y \in Seq(Lines) /\ s \o Append(q, x) = Append(y, x)
      BY <2>1
    <3>. HIDE DEF y
    <3>2. R(Append(y, x)) = RefLine(web, hs, FALSE, R(y), x)
      BY <3>1, RefAppend
    <3>. QED BY <3>1, <3>2 DEF y
  <2>3. Grows(R(s), R(s \o q))
    BY <1>3
  <2>4. R(s) \in RefStates /\ R(s \o q) \in RefStates
    BY <1>1, <2>1
  <2>. HIDE DEF R
  <2>5. Grows(R(s), RefLine(web, hs, FALSE, R(s \o q), x))
    BY <2>3, <2>4, GrowsStep
  <2>. QED BY <2>1, <2>2, <2>5
<1>. HIDE DEF T
<1>4. t \in T
  BY <1>2, <1>3, SequenceInduction
<1>. QED BY <1>4 DEF T

-----------------------------------------------------------------------------
(* One read: q is what the parser is given, and done are the lines before.    *)
Untouched(q) ==
  q = <<>> /\ ParseRequest(NewContext, q) = Unparsed(NewContext)

InHeaders(web, hs, done, q) ==
  LET p == ParseRequest(NewContext, q)
      r == RefState(web, hs, FALSE, done \o q)
  IN /\ p.ok /\ p.more /\ p.context.state = "kExpectHeaders" /\ p.rest = <<>>
     /\ r.at = "headers" /\ r.request = p.context.request
     /\ r.out = RefState(web, hs, FALSE, done).out

Completed(web, hs, done, q) ==
  LET p == ParseRequest(NewContext, q)
      a == RefAnswer(web, hs, p.context.request, Asks(p.context.request, p.context.connection))
  IN /\ p.ok /\ ~p.more /\ p.context.state = "kComplete"
     /\ p.context.request \in RequestLines
     /\ \E c \in Seq(Lines) :
          LET r == RefState(web, hs, FALSE, done \o c)
          IN /\ q = c \o p.rest
             /\ r.at = IF a.close THEN "end" ELSE "request"
             /\ r.out = Append(RefState(web, hs, FALSE, done).out, a)

Refused(web, hs, done, q) ==
  LET p == ParseRequest(NewContext, q)
      r == RefState(web, hs, FALSE, done \o q)
  IN /\ ~p.ok /\ ~p.more /\ p.context.state = "kExpectRequestLine"
     /\ r.at = "end"
     /\ r.out = Append(RefState(web, hs, FALSE, done).out, BadRequest)

(* The parser and the reference, at the first line and at each line after it. *)
LEMMA ParsedFirst ==
  ASSUME NEW web, NEW hs, Configured(web, hs), NEW done \in Seq(Lines), NEW line \in Lines,
         RefState(web, hs, FALSE, done).at = "request"
  PROVE  LET q == Append(<<>>, line) IN InHeaders(web, hs, done, q) \/ Refused(web, hs, done, q)
<1>. DEFINE q == Append(<<>>, line)
            p == ParseRequest(NewContext, q)
            r0 == RefState(web, hs, FALSE, done)
            r == RefState(web, hs, FALSE, done \o q)
<1>1. p = ParseLine(Unparsed(NewContext), line)
  BY ParseAppend, ParseNothing, EmptySeq
<1>2. r \in RefStates /\ RefMoves(web, hs, r0, line, r)
  <2>1. done \o q = Append(done, line)
    <3>1. done \o <<>> = done /\ <<>> \in Seq(Lines)
      BY ConcatEmptySeq, EmptySeq
    <3>. QED BY <3>1, ConcatAppend
  <2>2. r = RefLine(web, hs, FALSE, r0, line) /\ r0 \in RefStates
    BY <2>1, RefAppend
  <2>. QED BY <2>2, RefLineMoves
<1>. HIDE DEF r0, r, p
<1>3. CASE line \in RequestLines
  <2>1. p = [Unparsed(NewContext) EXCEPT !.context.state = "kExpectHeaders",
                                        !.context.request = line]
    BY <1>1, <1>3, KindOfLine DEF ParseLine, IsRequestLine, Unparsed, NewContext
  <2>2. /\ p.ok /\ p.more /\ p.context.state = "kExpectHeaders" /\ p.rest = <<>>
        /\ p.context.request = line
    BY <2>1 DEF Unparsed, NewContext
  <2>3. r.at = "headers" /\ r.request = line /\ r.out = r0.out
    BY <1>2, <1>3 DEF RefMoves, r0
  <2>. QED BY <2>2, <2>3 DEF InHeaders, p, r, r0
<1>4. CASE line \notin RequestLines
  <2>1. p = [Unparsed(NewContext) EXCEPT !.ok = FALSE, !.more = FALSE, !.rest = <<line>>]
    BY <1>1, <1>4, KindOfLine DEF ParseLine, IsRequestLine, Unparsed, NewContext
  <2>2. ~p.ok /\ ~p.more /\ p.context.state = "kExpectRequestLine"
    BY <2>1 DEF Unparsed, NewContext
  <2>3. r.at = "end" /\ r.out = Append(r0.out, BadRequest)
    BY <1>2, <1>4 DEF RefMoves, r0
  <2>. QED BY <2>2, <2>3 DEF Refused, p, r, r0
<1>. QED BY <1>3, <1>4

LEMMA ParsedInHeaders ==
  ASSUME NEW web, NEW hs, Configured(web, hs), NEW done \in Seq(Lines),
         NEW q \in Seq(Lines), NEW line \in Lines, InHeaders(web, hs, done, q)
  PROVE  \/ InHeaders(web, hs, done, Append(q, line))
         \/ Completed(web, hs, done, Append(q, line))
<1>. DEFINE t == Append(q, line)
            p == ParseRequest(NewContext, q)
            u == ParseRequest(NewContext, t)
            r0 == RefState(web, hs, FALSE, done)
            r == RefState(web, hs, FALSE, done \o q)
            s == RefState(web, hs, FALSE, done \o t)
<1>1. p \in ParseStates /\ u = ParseLine(p, line)
  BY ParseAppend
<1>2. /\ p.ok /\ p.more /\ p.context.state = "kExpectHeaders" /\ p.rest = <<>>
      /\ r.at = "headers" /\ r.request = p.context.request /\ r.out = r0.out
  BY DEF InHeaders
<1>3. r \in RefStates /\ s \in RefStates /\ RefMoves(web, hs, r, line, s) /\ t \in Seq(Lines)
  <2>. DEFINE y == done \o q
  <2>1. y \in Seq(Lines) /\ done \o t = Append(y, line) /\ t \in Seq(Lines)
    BY ConcatAppend
  <2>. HIDE DEF y, t
  <2>2. s = RefLine(web, hs, FALSE, r, line) /\ r \in RefStates
    <3>1. RefState(web, hs, FALSE, Append(y, line))
            = RefLine(web, hs, FALSE, RefState(web, hs, FALSE, y), line)
      BY <2>1, RefAppend
    <3>2. RefState(web, hs, FALSE, y) \in RefStates
      BY <2>1, RefType
    <3>. QED BY <2>1, <3>1, <3>2 DEF y
  <2>. HIDE DEF s, r
  <2>. QED BY <2>1, <2>2, RefLineMoves
<1>. HIDE DEF p, u, r, s, t, r0
<1>4. p.context.connection = "" /\ r.connection = "" /\ r.request \in RequestLines
  BY <1>1, <1>2, <1>3 DEF ParseStates, RefStates
<1>5. CASE line \in HeaderLines
  <2>1. u = [p EXCEPT !.context.connection = SetHeader(@, line)]
    BY <1>1, <1>2, <1>5, KindOfLine DEF ParseLine
  <2>2. /\ u.ok /\ u.more /\ u.context.state = "kExpectHeaders" /\ u.rest = <<>>
        /\ u.context.request = p.context.request
    BY <1>1, <1>2, <2>1 DEF ParseStates
  <2>3. s = r
    BY <1>2, <1>3, <1>5 DEF RefMoves
  <2>4. InHeaders(web, hs, done, t)
    BY <1>2, <2>2, <2>3 DEF InHeaders, u, s, r0
  <2>. QED BY <2>4 DEF t
<1>6. CASE line \notin HeaderLines
  <2>. DEFINE a == RefAnswer(web, hs, r.request, Asks(r.request, r.connection))
  <2>1. u = [p EXCEPT !.context.state = "kComplete", !.more = FALSE]
    BY <1>1, <1>2, <1>6, KindOfLine DEF ParseLine
  <2>2. /\ u.ok /\ ~u.more /\ u.context.state = "kComplete" /\ u.rest = <<>>
        /\ u.context.request = r.request /\ u.context.connection = r.connection
    BY <1>1, <1>2, <1>4, <2>1 DEF ParseStates
  <2>3. s.at = (IF a.close THEN "end" ELSE "request") /\ s.out = Append(r0.out, a)
    BY <1>2, <1>3, <1>6 DEF RefMoves
  <2>4. t = t \o u.rest
    BY <1>3, <2>2, ConcatEmptySeq
  <2>. DEFINE b == RefAnswer(web, hs, u.context.request,
                             Asks(u.context.request, u.context.connection))
  <2>5. a = b
    BY <2>2
  <2>. HIDE DEF a, b
  <2>6. /\ t = t \o u.rest /\ s.at = IF b.close THEN "end" ELSE "request"
        /\ s.out = Append(r0.out, b)
    BY <2>3, <2>4, <2>5
  <2>7. Completed(web, hs, done, t)
    BY <1>3, <1>4, <2>2, <2>6 DEF Completed, u, s, r0, b
  <2>. QED BY <2>7 DEF t
<1>. QED BY <1>5, <1>6

LEMMA ParsedBehind ==
  ASSUME NEW web, NEW hs, Configured(web, hs), NEW done \in Seq(Lines),
         NEW q \in Seq(Lines), NEW line \in Lines
  PROVE  /\ Completed(web, hs, done, q) => Completed(web, hs, done, Append(q, line))
         /\ Refused(web, hs, done, q) => Refused(web, hs, done, Append(q, line))
<1>. DEFINE t == Append(q, line)
            p == ParseRequest(NewContext, q)
            u == ParseRequest(NewContext, t)
            r0 == RefState(web, hs, FALSE, done)
            a == RefAnswer(web, hs, p.context.request,
                           Asks(p.context.request, p.context.connection))
            b == RefAnswer(web, hs, u.context.request,
                           Asks(u.context.request, u.context.connection))
<1>1. p \in ParseStates /\ u = ParseLine(p, line)
  BY ParseAppend
<1>. HIDE DEF p, u, r0
<1>2. ASSUME ~p.more
      PROVE  /\ u.ok = p.ok /\ ~u.more /\ u.context = p.context
             /\ u.rest = Append(p.rest, line)
  BY <1>1, <1>2 DEF ParseLine, ParseStates
<1>3. ASSUME Completed(web, hs, done, q) PROVE Completed(web, hs, done, t)
  <2>1. /\ p.ok /\ ~p.more /\ p.context.state = "kComplete"
        /\ p.context.request \in RequestLines
    BY <1>3 DEF Completed, p
  <2>2. PICK c \in Seq(Lines) :
          /\ q = c \o p.rest
          /\ RefState(web, hs, FALSE, done \o c).at = IF a.close THEN "end" ELSE "request"
          /\ RefState(web, hs, FALSE, done \o c).out = Append(r0.out, a)
    BY <1>3 DEF Completed, p, r0
  <2>3. p.rest \in Seq(Lines)
    BY <1>1 DEF ParseStates
  <2>4. t = c \o Append(p.rest, line)
    <3>. DEFINE e == p.rest
    <3>1. e \in Seq(Lines)
      BY <2>3
    <3>. HIDE DEF e
    <3>2. c \o Append(e, line) = Append(c \o e, line)
      BY <3>1, ConcatAppend
    <3>. QED BY <2>2, <3>2 DEF e
  <2>. HIDE DEF t
  <2>5. a = b /\ t = c \o u.rest
    BY <1>2, <2>1, <2>4
  <2>. HIDE DEF a, b
  <2>6. /\ t = c \o u.rest
        /\ RefState(web, hs, FALSE, done \o c).at = IF b.close THEN "end" ELSE "request"
        /\ RefState(web, hs, FALSE, done \o c).out = Append(r0.out, b)
    BY <2>2, <2>5
  <2>. QED BY <1>2, <2>1, <2>6 DEF Completed, u, r0, b
<1>4. ASSUME Refused(web, hs, done, q) PROVE Refused(web, hs, done, t)
  <2>1. /\ ~p.ok /\ ~p.more /\ p.context.state = "kExpectRequestLine"
        /\ RefState(web, hs, FALSE, done \o q).at = "end"
        /\ RefState(web, hs, FALSE, done \o q).out = Append(r0.out, BadRequest)
    BY <1>4 DEF Refused, p, r0
  <2>2. RefState(web, hs, FALSE, done \o t) = RefState(web, hs, FALSE, done \o q)
    <3>. DEFINE y == done \o q
                r == RefState(web, hs, FALSE, y)
    <3>1. y \in Seq(Lines) /\ done \o t = Append(y, line)
      BY ConcatAppend
    <3>2. r.at = "end"
      BY <2>1
    <3>. HIDE DEF y, t
    <3>3. RefState(web, hs, FALSE, Append(y, line)) = RefLine(web, hs, FALSE, r, line)
      BY <3>1, RefAppend
    <3>4. RefLine(web, hs, FALSE, r, line) = r
      <4>. HIDE DEF r
      <4>. QED BY <3>2 DEF RefLine
    <3>. QED BY <3>1, <3>3, <3>4 DEF y
  <2>. QED BY <1>2, <2>1, <2>2 DEF Refused, u, r0
<1>. QED BY <1>3, <1>4

(* What is parsed of one read: nothing, part of a request, one, or a bad one. *)
LEMMA Parsed ==
  ASSUME NEW web, NEW hs, Configured(web, hs), NEW done \in Seq(Lines),
         RefState(web, hs, FALSE, done).at = "request", NEW q \in Seq(Lines)
  PROVE  \/ Untouched(q) \/ InHeaders(web, hs, done, q)
         \/ Completed(web, hs, done, q) \/ Refused(web, hs, done, q)
<1>. DEFINE T == {t \in Seq(Lines) : \/ Untouched(t) \/ InHeaders(web, hs, done, t)
                                    \/ Completed(web, hs, done, t) \/ Refused(web, hs, done, t)}
<1>1. <<>> \in T
  BY ParseNothing, EmptySeq DEF Untouched
<1>2. ASSUME NEW t \in Seq(Lines), NEW line \in Lines, t \in T PROVE Append(t, line) \in T
  <2>1. Append(t, line) \in Seq(Lines)
    BY AppendProperties
  <2>2. CASE t = <<>>
    BY <2>1, <2>2, ParsedFirst
  <2>3. CASE InHeaders(web, hs, done, t)
    BY <2>1, <2>3, ParsedInHeaders
  <2>4. CASE Completed(web, hs, done, t) \/ Refused(web, hs, done, t)
    BY <2>1, <2>4, ParsedBehind
  <2>. QED BY <1>2, <2>2, <2>3, <2>4 DEF Untouched
<1>. HIDE DEF T
<1>3. q \in T
  BY <1>1, <1>2, SequenceInduction
<1>. QED BY <1>3 DEF T

-----------------------------------------------------------------------------
(* What is asked for by the lines received so far, or some of them. *)
Ref(lines) == RefState(web_api, handlers, FALSE, lines)

Patterns == \A m \in Methods : \A i \in DOMAIN handlers[m] :
  handlers[m][i].pattern = NormalizePath(handlers[m][i].path)

(* Handlers are registered before the start, and nothing is read before a     *)
(* connection is up; the context of the connection stays the new one.         *)
Beginning ==
  /\ ~started => state = "none"
  /\ state = "none" => buffer = <<>> /\ received = <<>> /\ answers = <<>>
  /\ state # "none" => context = NewContext

(* Of a stream of lines received: while connected, the buffer begins where    *)
(* the requests that are answered end; later no answer is added.              *)
Standing(st, rec, kept, said) ==
  /\ st = "kConnected" => \E done \in Seq(Lines) :
       rec = done \o kept /\ Ref(done).at = "request" /\ Ref(done).out = said
  /\ st \in {"kDisconnecting", "kDisconnected"} => IsPrefix(said, Ref(rec).out)

Stream == ~cut => Standing(state, received, buffer, answers)

IInv == TypeOK /\ Patterns /\ Beginning /\ Stream /\ OnePerRead

LEMMA Configuration ==
  ASSUME TypeOK, Patterns
  PROVE  web_api \in BOOLEAN /\ handlers \in Registered /\ Configured(web_api, handlers)
<1>1. web_api \in BOOLEAN
  BY HttpAssumption DEF TypeOK
<1>2. handlers \in Registered
  BY DEF TypeOK, Patterns, Registered
<1>3. Configured(web_api, handlers)
  BY <1>1, <1>2, AnswerIsAsked DEF Configured
<1>. QED BY <1>1, <1>2, <1>3

LEMMA ParseType ==
  ASSUME NEW lines \in Seq(Lines) PROVE ParseRequest(NewContext, lines) \in ParseStates
<1>1. [kind |-> "empty"] \in Lines
  BY DEF Lines, OtherLines
<1>. QED BY <1>1, ParseAppend

LEMMA CompleteIsRequest ==
  ASSUME NEW web, NEW hs, Configured(web, hs), NEW q \in Seq(Lines),
         ParseRequest(NewContext, q).context.state = "kComplete"
  PROVE  ParseRequest(NewContext, q).context.request \in RequestLines
<1>1. RefState(web, hs, FALSE, <<>>).at = "request" /\ <<>> \in Seq(Lines)
  <2>1. RefStart.at = "request" /\ <<>> \in Seq(Lines)
    BY EmptySeq DEF RefStart
  <2>2. RefState(web, hs, FALSE, <<>>) = RefStart
    BY RefNothing
  <2>. QED BY <2>1, <2>2
<1>2. \/ Untouched(q) \/ InHeaders(web, hs, <<>>, q)
      \/ Completed(web, hs, <<>>, q) \/ Refused(web, hs, <<>>, q)
  BY <1>1, Parsed
<1>3. ~Untouched(q)
  <2>1. Unparsed(NewContext).context.state = "kExpectRequestLine"
    BY DEF Unparsed, NewContext
  <2>. QED BY <2>1 DEF Untouched
<1>4. ~InHeaders(web, hs, <<>>, q) /\ ~Refused(web, hs, <<>>, q)
  BY DEF InHeaders, Refused
<1>5. Completed(web, hs, <<>>, q) => ParseRequest(NewContext, q).context.request \in RequestLines
  BY DEF Completed
<1>. QED BY <1>2, <1>3, <1>4, <1>5

(* A whole request is answered as the reference asks, however it was cut. *)
LEMMA OnRequestAnswers ==
  ASSUME TypeOK, Patterns, NEW q \in Seq(Lines),
         ParseRequest(NewContext, q).context.state = "kComplete"
  PROVE  LET c == ParseRequest(NewContext, q).context
         IN /\ OnRequest(c) = RefAnswer(web_api, handlers, c.request, Asks(c.request, c.connection))
            /\ OnRequest(c) \in Answer
<1>. DEFINE c == ParseRequest(NewContext, q).context
            asked == Asks(c.request, c.connection)
<1>1. web_api \in BOOLEAN /\ handlers \in Registered /\ Configured(web_api, handlers)
  BY Configuration
<1>2. Configured(web_api, handlers)
  BY Configuration
<1>3. c.request \in RequestLines
  BY <1>2, CompleteIsRequest
<1>4. asked \in BOOLEAN
  BY DEF Asks
<1>5. OnRequest(c) = Route(c.request, asked)
  BY DEF OnRequest, Asks
<1>. HIDE DEF c, asked
<1>6. Route(c.request, asked) = RefAnswer(web_api, handlers, c.request, asked)
      /\ Route(c.request, asked) \in Answer
  BY <1>1, <1>3, <1>4, AnswerIsAsked
<1>. QED BY <1>5, <1>6 DEF c, asked

LEMMA PrefixOfPrefix ==
  ASSUME NEW A, NEW s \in Seq(A), NEW t \in Seq(A), NEW u \in Seq(A), IsPrefix(s, t), IsPrefix(t, u)
  PROVE  IsPrefix(s, u)
<1>1. Len(s) \in Nat /\ Len(t) \in Nat /\ Len(u) \in Nat
  BY LenProperties
<1>2. Len(s) <= Len(t) /\ \A i \in 1 .. Len(s) : s[i] = t[i]
  BY PrefixIs
<1>3. Len(t) <= Len(u) /\ \A i \in 1 .. Len(t) : t[i] = u[i]
  BY PrefixIs
<1>4. Len(s) <= Len(u) /\ \A i \in 1 .. Len(s) : s[i] = u[i]
  BY <1>1, <1>2, <1>3
<1>. QED BY <1>4, PrefixIs

LEMMA EmptyIsPrefix ==
  ASSUME NEW t \in Seq(Answer)
  PROVE  IsPrefix(<<>>, t)
<1>. DEFINE e == <<>>
<1>1. e \in Seq(Answer)
  BY EmptySeq
<1>2. Len(e) = 0 /\ Len(t) \in Nat
  BY EmptySeq, LenProperties
<1>. HIDE DEF e
<1>3. IsPrefix(e, t) <=> Len(e) <= Len(t) /\ \A i \in 1 .. Len(e) : e[i] = t[i]
  BY <1>1, PrefixIs
<1>4. IsPrefix(e, t)
  BY <1>2, <1>3
<1>. QED BY <1>4 DEF e

(* The histories that a read continues are those of a connection, also where *)
(* the buffer grew and they begin anew.                                      *)
LEMMA ReadBegins ==
  ASSUME IInv, NEW grows \in BOOLEAN, state \in {"kConnected", "kDisconnecting"}
  PROVE  LET b == Before(grows)
         IN /\ b.received \in Seq(Lines) /\ b.answers \in Seq(Answer)
            /\ b.cut \in BOOLEAN /\ b.surplus \in Nat /\ Kept(grows) \in Seq(Lines)
            /\ ~b.cut => Standing(state, b.received, Kept(grows), b.answers)
            /\ ~b.cut /\ state = "kConnected"
                 => Len(Ref(b.received).out) <= Len(b.answers) + b.surplus
<1>1. TypeOK /\ Patterns /\ Beginning /\ Stream /\ OnePerRead
  BY DEF IInv
<1>2. CASE ~grows
  BY <1>1, <1>2 DEF Before, Kept, TypeOK, Stream, OnePerRead, Reference, Ref
<1>3. CASE grows
  <2>1. /\ Before(grows).received = <<>> /\ Before(grows).answers = <<>>
        /\ Before(grows).cut = FALSE /\ Before(grows).surplus = 0 /\ Kept(grows) = <<>>
    BY <1>3 DEF Before, Kept
  <2>2. Ref(<<>>) = RefStart
    <3>1. Configured(web_api, handlers)
      BY <1>1, Configuration
    <3>. QED BY <3>1, RefNothing DEF Ref
  <2>3. RefStart.at = "request" /\ RefStart.out = <<>>
    BY DEF RefStart
  <2>4. <<>> \in Seq(Lines) /\ <<>> \in Seq(Answer) /\ <<>> \o <<>> = <<>>
    BY EmptySeq, ConcatEmptySeq
  <2>5. IsPrefix(<<>>, RefStart.out)
    BY <2>3, <2>4, EmptyIsPrefix
  <2>6. Standing(state, <<>>, <<>>, <<>>)
    BY <2>2, <2>3, <2>4, <2>5 DEF Standing
  <2>7. Len(Ref(<<>>).out) = 0 /\ Len(<<>>) = 0
    BY <2>2, <2>3, EmptySeq
  <2>8. /\ Before(grows).received \in Seq(Lines) /\ Before(grows).answers \in Seq(Answer)
        /\ Kept(grows) \in Seq(Lines)
    BY <2>1, <2>4
  <2>9. Standing(state, Before(grows).received, Kept(grows), Before(grows).answers)
    BY <2>1, <2>6
  <2>10. Len(Ref(Before(grows).received).out) = 0 /\ Len(Before(grows).answers) = 0
    BY <2>1, <2>7
  <2>11. Len(Ref(Before(grows).received).out)
           <= Len(Before(grows).answers) + Before(grows).surplus
    <3>1. Before(grows).surplus = 0
      BY <2>1
    <3>. QED BY <2>10, <3>1
  <2>12. Before(grows).cut \in BOOLEAN /\ Before(grows).surplus \in Nat
    BY <1>3 DEF Before
  <2>. QED BY <2>8, <2>9, <2>11, <2>12
<1>. QED BY <1>2, <1>3

(* The step of a read: what it leaves, answers and asks for. *)
LEMMA MessageAnswers ==
  ASSUME IInv, NEW new \in Seq(Lines), NEW grows \in BOOLEAN, OnMessage(new, grows)
  PROVE  LET b == Before(grows)
             p == ParseRequest(NewContext, Kept(grows) \o new)
             a == IF p.ok THEN OnRequest(p.context) ELSE BadRequest
             answered == state = "kConnected" /\ (p.ok => p.context.state = "kComplete")
         IN /\ Kept(grows) \o new \in Seq(Lines) /\ p \in ParseStates
            /\ answered => /\ a \in Answer
                           /\ answers' = Append(b.answers, a)
                           /\ state' = IF a.close THEN "kDisconnecting" ELSE "kConnected"
            /\ ~answered => answers' = b.answers /\ state' = state
            /\ buffer' = p.rest /\ received' = b.received \o new /\ received' \in Seq(Lines)
            /\ cut' = (b.cut \/ p.context.state = "kExpectHeaders")
<1>. DEFINE b == Before(grows)
            q == Kept(grows) \o new
            p == ParseRequest(NewContext, q)
            a == IF p.ok THEN OnRequest(p.context) ELSE BadRequest
<1>0. b.received \in Seq(Lines) /\ Kept(grows) \in Seq(Lines)
  BY ReadBegins DEF OnMessage
<1>1. TypeOK /\ Patterns /\ context = NewContext
  BY DEF IInv, Beginning, OnMessage
<1>2. q \in Seq(Lines) /\ b.received \o new \in Seq(Lines)
  BY <1>0, ConcatProperties
<1>3. p \in ParseStates
  BY <1>2, ParseType
<1>4. (p.ok => p.context.state = "kComplete") => a \in Answer
  <2>1. BadRequest \in Answer
    BY DEF BadRequest, Response, Answer
  <2>2. p.ok /\ p.context.state = "kComplete" => OnRequest(p.context) \in Answer
    <3>. HIDE DEF q
    <3>. QED BY <1>1, <1>2, OnRequestAnswers
  <2>. HIDE DEF p
  <2>. QED BY <2>1, <2>2
<1>5. /\ received' = b.received \o new /\ buffer' = p.rest
      /\ IF ~p.ok THEN Respond(b.answers, BadRequest)
         ELSE IF p.context.state = "kComplete" THEN Respond(b.answers, OnRequest(p.context))
         ELSE answers' = b.answers /\ UNCHANGED state
      /\ cut' = (b.cut \/ p.context.state = "kExpectHeaders")
  BY <1>1 DEF OnMessage
<1>. HIDE DEF p, q, b
<1>6. (p.ok => p.context.state = "kComplete") => Respond(b.answers, a)
  BY <1>5
<1>7. p.ok /\ p.context.state # "kComplete" => answers' = b.answers /\ UNCHANGED state
  BY <1>5
<1>. HIDE DEF a
<1>8. state = "kConnected" /\ (p.ok => p.context.state = "kComplete")
        => /\ a \in Answer
           /\ answers' = Append(b.answers, a)
           /\ state' = IF a.close THEN "kDisconnecting" ELSE "kConnected"
  BY <1>4, <1>6 DEF Respond
<1>9. ~(state = "kConnected" /\ (p.ok => p.context.state = "kComplete"))
        => answers' = b.answers /\ state' = state
  BY <1>6, <1>7 DEF Respond
<1>. QED BY <1>2, <1>3, <1>5, <1>8, <1>9 DEF a, b, p, q

(* How many answers are asked for, and what that makes of surplus.           *)
LEMMA MessageSurplus ==
  ASSUME IInv, NEW new \in Seq(Lines), NEW grows \in BOOLEAN, OnMessage(new, grows)
  PROVE  LET b == Before(grows)
             n == Len(Ref(b.received).out)
             m == Len(Ref(received').out)
         IN /\ n \in Nat /\ m \in Nat /\ n <= m
            /\ surplus' \in Nat /\ surplus' + 1 >= b.surplus + (m - n)
<1>. DEFINE b == Before(grows)
            n == Len(Ref(b.received).out)
            m == Len(Ref(received').out)
<1>1. b.received \in Seq(Lines) /\ b.surplus \in Nat /\ received' = b.received \o new
  BY ReadBegins DEF OnMessage
<1>2. Configured(web_api, handlers)
  BY Configuration DEF IInv
<1>3. received' \in Seq(Lines)
  BY <1>1, ConcatProperties
<1>4. Ref(b.received).out \in Seq(Answer) /\ Ref(received').out \in Seq(Answer)
  <2>1. Ref(b.received) \in RefStates /\ Ref(received') \in RefStates
    BY <1>1, <1>2, <1>3, RefType DEF Ref
  <2>. QED BY <2>1 DEF RefStates
<1>5. n \in Nat /\ m \in Nat /\ n <= m
  <2>1. Grows(Ref(b.received), Ref(received'))
    BY <1>1, <1>2, RefGrows DEF Ref
  <2>2. IsPrefix(Ref(b.received).out, Ref(received').out)
    BY <2>1 DEF Grows
  <2>. QED BY <1>4, <2>2, LenProperties DEF IsPrefix
<1>6. surplus' = IF b.surplus + (m - n) = 0 THEN 0 ELSE b.surplus + (m - n) - 1
  BY DEF OnMessage, Reference, Ref
<1>. HIDE DEF n, m, b
<1>7. surplus' \in Nat /\ surplus' + 1 >= b.surplus + (m - n)
  BY <1>1, <1>5, <1>6
<1>. QED BY <1>5, <1>7 DEF n, m, b

LEMMA AtMost ==
  ASSUME NEW n \in Nat, NEW m \in Nat, NEW k \in Nat, NEW s \in Nat, NEW t \in Nat,
         n <= k + s, t + 1 >= s + (m - n)
  PROVE  m <= (k + 1) + t
OBVIOUS

LEMMA MessageStream ==
  ASSUME IInv, NEW new \in Seq(Lines), NEW grows \in BOOLEAN, OnMessage(new, grows)
  PROVE  Stream' /\ OnePerRead'
<1>. DEFINE b == Before(grows)
            q == Kept(grows) \o new
            p == ParseRequest(NewContext, q)
            a == IF p.ok THEN OnRequest(p.context) ELSE BadRequest
            answered == state = "kConnected" /\ (p.ok => p.context.state = "kComplete")
            n == Len(Ref(b.received).out)
            m == Len(Ref(received').out)
<1>. SUFFICES ASSUME ~cut' PROVE Stream' /\ OnePerRead'
  BY DEF Stream, OnePerRead
<1>1. TypeOK /\ Patterns /\ Beginning /\ Stream /\ OnePerRead
  BY DEF IInv
<1>2. Configured(web_api, handlers)
  BY <1>1, Configuration
<1>3. web_api' = web_api /\ handlers' = handlers /\ state \in {"kConnected", "kDisconnecting"}
  BY DEF OnMessage
<1>4. /\ q \in Seq(Lines) /\ p \in ParseStates
      /\ answered => /\ a \in Answer
                     /\ answers' = Append(b.answers, a)
                     /\ state' = IF a.close THEN "kDisconnecting" ELSE "kConnected"
      /\ ~answered => answers' = b.answers /\ state' = state
      /\ buffer' = p.rest /\ received' = b.received \o new /\ received' \in Seq(Lines)
      /\ cut' = (b.cut \/ p.context.state = "kExpectHeaders")
  BY MessageAnswers
<1>5. n \in Nat /\ m \in Nat /\ n <= m /\ surplus' \in Nat /\ surplus' + 1 >= b.surplus + (m - n)
  BY MessageSurplus
<1>6. /\ b.received \in Seq(Lines) /\ Kept(grows) \in Seq(Lines) /\ b.answers \in Seq(Answer)
      /\ b.surplus \in Nat
      /\ ~b.cut => Standing(state, b.received, Kept(grows), b.answers)
      /\ ~b.cut /\ state = "kConnected" => Len(Ref(b.received).out) <= Len(b.answers) + b.surplus
  BY <1>3, ReadBegins
<1>7. ~b.cut /\ p.context.state # "kExpectHeaders"
  BY <1>4
<1>8. state = "kConnected" => n <= Len(b.answers) + b.surplus
  BY <1>6, <1>7
<1>9. \A s, t \in Seq(Lines) : Grows(Ref(s), Ref(s \o t))
  BY <1>2, RefGrows DEF Ref
<1>10. Ref(received)' = Ref(received') /\ \A lines : Ref(lines)' = Ref(lines)
  BY <1>3 DEF Ref
<1>11. n = Len(Ref(b.received).out) /\ m = Len(Ref(received').out)
  OBVIOUS
<1>12. answers' \in Seq(Answer) /\ Len(b.answers) \in Nat /\ Len(answers') \in Nat
  <2>. HIDE DEF a, answered
  <2>1. answers' = b.answers \/ (a \in Answer /\ answers' = Append(b.answers, a))
    BY <1>4
  <2>2. answers' \in Seq(Answer)
    <3>1. CASE a \in Answer /\ answers' = Append(b.answers, a)
      <4>1. b.answers \in Seq(Answer)
        BY <1>6
      <4>2. Append(b.answers, a) \in Seq(Answer)
        BY <3>1, <4>1, AppendProperties
      <4>. QED BY <3>1, <4>2
    <3>. QED BY <1>6, <2>1, <3>1
  <2>. QED BY <1>6, <2>2, LenProperties
<1>. HIDE DEF b, q, p, n, m, Ref, answered, a
(* The two ways in which a read leaves the connection. *)
<1>17. IsPrefix(answers', answers')
  BY <1>12, PrefixIs
<1>13. ASSUME state' = "kDisconnecting", IsPrefix(answers', Ref(received').out)
       PROVE  Stream' /\ OnePerRead'
  <2>1. Stream'
    BY <1>10, <1>13 DEF Stream, Standing
  <2>2. OnePerRead'
    BY <1>13 DEF OnePerRead
  <2>. QED BY <2>1, <2>2
<1>14. ASSUME state' = "kConnected", NEW d \in Seq(Lines), received' = d \o buffer',
              Ref(d).at = "request", Ref(d).out = answers', m <= Len(answers') + surplus'
       PROVE  Stream' /\ OnePerRead'
  <2>1. Stream'
    BY <1>10, <1>14 DEF Stream, Standing
  <2>2. Len(Ref(received)'.out) <= Len(answers') + surplus'
    BY <1>10, <1>11, <1>14
  <2>3. OnePerRead'
    BY <2>2 DEF OnePerRead, Reference, Ref
  <2>. QED BY <2>1, <2>3
<1>15. CASE state = "kDisconnecting"
  <2>1. answers' = b.answers /\ state' = state
    BY <1>4, <1>15 DEF answered
  <2>2. IsPrefix(b.answers, Ref(b.received).out)
    BY <1>6, <1>7, <1>15 DEF Standing
  <2>3. IsPrefix(Ref(b.received).out, Ref(received').out)
    <3>1. new \in Seq(Lines) /\ Grows(Ref(b.received), Ref(b.received \o new))
      BY <1>6, <1>9
    <3>. QED BY <1>4, <3>1 DEF Grows
  <2>4. Ref(b.received).out \in Seq(Answer) /\ Ref(received').out \in Seq(Answer)
    BY <1>2, <1>4, <1>6, RefType DEF Ref, RefStates
  <2>5. IsPrefix(b.answers, Ref(received').out)
    BY <1>6, <2>2, <2>3, <2>4, PrefixOfPrefix
  <2>. QED BY <1>13, <1>15, <2>1, <2>5
<1>16. CASE state = "kConnected"
  <2>1. PICK done \in Seq(Lines) :
          b.received = done \o Kept(grows) /\ Ref(done).at = "request" /\ Ref(done).out = b.answers
    BY <1>6, <1>7, <1>16 DEF Standing
  <2>2. received' = done \o q
    <3>1. (done \o Kept(grows)) \o new = done \o (Kept(grows) \o new)
      BY <1>6
    <3>. QED BY <1>4, <2>1, <3>1 DEF q
  <2>3. \/ Untouched(q) \/ InHeaders(web_api, handlers, done, q)
        \/ Completed(web_api, handlers, done, q) \/ Refused(web_api, handlers, done, q)
    BY <1>2, <1>4, <2>1, Parsed DEF Ref
  <2>4. ~InHeaders(web_api, handlers, done, q)
    BY <1>7 DEF InHeaders, p
  <2>5. CASE Untouched(q)
    <3>1. q = <<>> /\ p = Unparsed(NewContext)
      BY <2>5 DEF Untouched, p
    <3>2. p.ok /\ p.context.state = "kExpectRequestLine" /\ p.rest = <<>>
      BY <3>1 DEF Unparsed, NewContext
    <3>3. answers' = b.answers /\ state' = "kConnected" /\ buffer' = <<>>
      BY <1>4, <1>16, <3>2 DEF answered
    <3>4. done \o <<>> = done
      BY <2>1, ConcatEmptySeq
    <3>5. m <= Len(answers') + surplus'
      BY <1>5, <1>11, <1>12, <2>1, <2>2, <3>1, <3>3, <3>4
    <3>. QED BY <1>14, <2>1, <2>2, <3>1, <3>3, <3>4, <3>5
  <2>6. CASE Completed(web_api, handlers, done, q)
    <3>1. /\ p.ok /\ p.context.state = "kComplete"
          /\ \E c \in Seq(Lines) :
               /\ q = c \o p.rest
               /\ Ref(done \o c).at = IF a.close THEN "end" ELSE "request"
               /\ Ref(done \o c).out = Append(b.answers, a)
      <4>. DEFINE wanted == RefAnswer(web_api, handlers, p.context.request,
                                      Asks(p.context.request, p.context.connection))
      <4>1. /\ p.ok /\ p.context.state = "kComplete"
            /\ \E c \in Seq(Lines) :
                 /\ q = c \o p.rest
                 /\ Ref(done \o c).at = IF wanted.close THEN "end" ELSE "request"
                 /\ Ref(done \o c).out = Append(Ref(done).out, wanted)
        BY <2>6 DEF Completed, p, Ref
      <4>2. a = wanted
        <5>1. OnRequest(p.context) = wanted
          BY <1>1, <1>4, <4>1, OnRequestAnswers DEF p
        <5>. QED BY <4>1, <5>1 DEF a
      <4>. HIDE DEF wanted
      <4>. QED BY <2>1, <4>1, <4>2
    <3>2. PICK c \in Seq(Lines) : /\ q = c \o p.rest
                                  /\ Ref(done \o c).at = IF a.close THEN "end" ELSE "request"
                                  /\ Ref(done \o c).out = Append(b.answers, a)
      BY <3>1
    <3>. DEFINE d == done \o c
    <3>3. d \in Seq(Lines) /\ p.rest \in Seq(Lines)
      BY <1>4, ConcatProperties DEF ParseStates
    <3>4. received' = d \o buffer'
      <4>. DEFINE e == p.rest
      <4>. HIDE DEF e
      <4>1. e \in Seq(Lines)
        BY <3>3 DEF e
      <4>2. (done \o c) \o e = done \o (c \o e)
        BY <4>1
      <4>. QED BY <1>4, <2>2, <3>2, <4>2 DEF e
    <3>5. /\ a \in Answer /\ answers' = Append(b.answers, a)
          /\ state' = IF a.close THEN "kDisconnecting" ELSE "kConnected"
      BY <1>4, <1>16, <3>1 DEF answered
    <3>6. Ref(d).at = (IF a.close THEN "end" ELSE "request") /\ Ref(d).out = answers'
      BY <3>2, <3>5
    <3>7. Len(answers') = Len(b.answers) + 1
      BY <1>6, <3>5, AppendProperties
    <3>. HIDE DEF d
    <3>8. CASE a.close
      <4>1. Grows(Ref(d), Ref(d \o buffer'))
        BY <1>4, <1>9, <3>3
      <4>2. Ref(received') = Ref(d)
        BY <3>4, <3>6, <3>8, <4>1 DEF Grows
      <4>. QED BY <1>13, <1>17, <3>5, <3>6, <3>8, <4>2
    <3>9. CASE ~a.close
      <4>1. m <= Len(answers') + surplus'
        <5>1. /\ n \in Nat /\ m \in Nat /\ b.surplus \in Nat /\ surplus' \in Nat
              /\ Len(b.answers) \in Nat /\ Len(answers') \in Nat
          BY <1>5, <1>6, <1>12
        <5>2. n <= Len(b.answers) + b.surplus /\ surplus' + 1 >= b.surplus + (m - n)
          BY <1>5, <1>8, <1>16
        <5>3. m <= (Len(b.answers) + 1) + surplus'
          BY <5>1, <5>2, AtMost
        <5>. QED BY <3>7, <5>3
      <4>. QED BY <1>14, <3>3, <3>4, <3>5, <3>6, <3>9, <4>1
    <3>. QED BY <3>8, <3>9
  <2>7. CASE Refused(web_api, handlers, done, q)
    <3>1. /\ ~p.ok /\ Ref(done \o q).at = "end"
          /\ Ref(done \o q).out = Append(b.answers, BadRequest)
      BY <2>1, <2>7 DEF Refused, p, Ref
    <3>2. a = BadRequest /\ answered
      BY <1>16, <3>1 DEF a, answered
    <3>3. BadRequest.close
      BY DEF BadRequest, Response
    <3>4. answers' = Append(b.answers, BadRequest) /\ state' = "kDisconnecting"
      BY <1>4, <3>2, <3>3
    <3>. QED BY <1>13, <1>17, <2>2, <3>1, <3>4
  <2>. QED BY <2>3, <2>4, <2>5, <2>6, <2>7
<1>. QED BY <1>3, <1>15, <1>16

LEMMA MessageInv ==
  ASSUME IInv, NEW new \in Seq(Lines), NEW grows \in BOOLEAN, OnMessage(new, grows)
  PROVE  IInv'
<1>. DEFINE b == Before(grows)
            p == ParseRequest(NewContext, Kept(grows) \o new)
            a == IF p.ok THEN OnRequest(p.context) ELSE BadRequest
            answered == state = "kConnected" /\ (p.ok => p.context.state = "kComplete")
<1>1. TypeOK /\ Patterns /\ Beginning
  BY DEF IInv
<1>2. UNCHANGED <<web_api, handlers, started, context>>
  BY DEF OnMessage
<1>3. /\ p \in ParseStates
      /\ answered => /\ a \in Answer
                     /\ answers' = Append(b.answers, a)
                     /\ state' = IF a.close THEN "kDisconnecting" ELSE "kConnected"
      /\ ~answered => answers' = b.answers /\ state' = state
      /\ buffer' = p.rest /\ received' \in Seq(Lines)
      /\ cut' = (b.cut \/ p.context.state = "kExpectHeaders")
  BY MessageAnswers
<1>4. b.cut \in BOOLEAN /\ b.answers \in Seq(Answer) /\ cut' \in BOOLEAN
  BY <1>3, ReadBegins DEF OnMessage
<1>. HIDE DEF b, p, a, answered
<1>5. buffer' \in Seq(Lines)
  BY <1>3 DEF ParseStates
<1>6. answers' \in Seq(Answer) /\ state' \in {"none", "kConnected", "kDisconnecting", "kDisconnected"}
  <2>1. b.answers \in Seq(Answer)
    BY <1>4
  <2>2. CASE answered
    <3>1. Append(b.answers, a) \in Seq(Answer)
      BY <1>3, <2>1, <2>2, AppendProperties
    <3>. QED BY <1>3, <2>2, <3>1
  <2>3. CASE ~answered
    BY <1>1, <1>3, <2>1, <2>3 DEF TypeOK
  <2>. QED BY <2>2, <2>3
<1>7. surplus' \in Nat
  BY MessageSurplus
<1>8. TypeOK'
  BY <1>1, <1>2, <1>3, <1>4, <1>5, <1>6, <1>7 DEF TypeOK
<1>9. Patterns'
  BY <1>1, <1>2 DEF Patterns
<1>10. Beginning'
  <2>1. state # "none"
    BY DEF OnMessage
  <2>2. state' # "none"
    BY <1>3, <2>1
  <2>. QED BY <1>1, <1>2, <2>1, <2>2 DEF Beginning
<1>. QED BY <1>8, <1>9, <1>10, MessageStream DEF IInv

LEMMA RegisterInv ==
  ASSUME IInv, NEW r \in Routes, Register(r)
  PROVE  IInv'
<1>. DEFINE T == [path : Paths, pattern : Paths, close : BOOLEAN]
            old == handlers[r.method]
            h == Handler(r.path, r.close)
            hs == Append(old, h)
<1>1. TypeOK /\ Patterns /\ Beginning
  BY DEF IInv
<1>2. r.method \in Methods /\ r.path \in Paths /\ r.close \in BOOLEAN
  BY HttpAssumption
<1>3. h \in T /\ h.pattern = NormalizePath(h.path)
  BY <1>2, PatternType DEF Handler
<1>4. handlers \in [Methods -> Seq(T)] /\ old \in Seq(T)
  BY <1>1, <1>2 DEF TypeOK
<1>5. handlers' = [handlers EXCEPT ![r.method] = hs]
  BY DEF Register
<1>. HIDE DEF h
<1>6. /\ hs \in Seq(T) /\ Len(hs) = Len(old) + 1 /\ hs[Len(old) + 1] = h
      /\ \A i \in 1 .. Len(old) : hs[i] = old[i]
      /\ Len(old) \in Nat
  <2>. HIDE DEF old, T
  <2>. QED BY <1>3, <1>4, AppendProperties, LenProperties
<1>7. \A i \in DOMAIN hs : hs[i].pattern = NormalizePath(hs[i].path)
  <2>1. DOMAIN hs = 1 .. Len(old) + 1 /\ DOMAIN old = 1 .. Len(old)
    BY <1>4, <1>6, LenProperties
  <2>2. \A i \in 1 .. Len(old) : old[i].pattern = NormalizePath(old[i].path)
    BY <1>1, <1>2, <2>1 DEF Patterns
  <2>. HIDE DEF hs, old
  <2>3. \A i \in 1 .. Len(old) + 1 : i = Len(old) + 1 \/ i \in 1 .. Len(old)
    BY <1>6
  <2>. QED BY <1>3, <1>6, <2>1, <2>2, <2>3
<1>. HIDE DEF hs
<1>8. Patterns'
  BY <1>1, <1>2, <1>4, <1>5, <1>7 DEF Patterns
<1>9. TypeOK'
  <2>1. handlers' \in [Methods -> Seq(T)]
    BY <1>4, <1>5, <1>6
  <2>. QED BY <1>1, <2>1 DEF TypeOK, Register
<1>10. ~started /\ UNCHANGED <<started, state, context, buffer, received, answers, cut>>
  BY DEF Register
<1>11. state = "none"
  BY <1>1, <1>10 DEF Beginning
<1>. QED BY <1>1, <1>8, <1>9, <1>10, <1>11 DEF IInv, Beginning, Stream, Standing, OnePerRead

LEMMA ConnectionInv ==
  ASSUME IInv, OnConnection
  PROVE  IInv'
<1>1. TypeOK /\ Patterns /\ Beginning
  BY DEF IInv
<1>2. /\ started /\ state = "none" /\ state' = "kConnected" /\ context' = NewContext
      /\ UNCHANGED <<web_api, handlers, started, buffer, received, answers, cut, surplus>>
  BY DEF OnConnection
<1>3. buffer = <<>> /\ received = <<>> /\ answers = <<>>
  BY <1>1, <1>2 DEF Beginning
<1>4. TypeOK' /\ Patterns' /\ Beginning'
  BY <1>1, <1>2 DEF TypeOK, Patterns, Beginning
<1>5. Ref(<<>>)' = RefStart /\ <<>> \in Seq(Lines) /\ <<>> \o <<>> = <<>>
  <2>1. Configured(web_api, handlers)
    BY <1>1, Configuration
  <2>2. Ref(<<>>) = RefStart
    BY <2>1, RefNothing DEF Ref
  <2>3. Ref(<<>>)' = Ref(<<>>)
    BY <1>2 DEF Ref
  <2>. QED BY <2>2, <2>3, EmptySeq, ConcatEmptySeq
<1>6. RefStart.at = "request" /\ RefStart.out = <<>>
  BY DEF RefStart
<1>7. Stream'
  BY <1>2, <1>3, <1>5, <1>6 DEF Stream, Standing
<1>8. Len(Ref(received)'.out) = 0
  <2>1. Ref(received)' = Ref(<<>>)'
    BY <1>2, <1>3 DEF Ref
  <2>. QED BY <1>5, <1>6, <2>1, EmptySeq
<1>9. OnePerRead'
  <2>1. surplus' \in Nat /\ Len(answers') \in Nat
    BY <1>4, LenProperties DEF TypeOK
  <2>2. Len(Ref(received)'.out) <= Len(answers') + surplus'
    BY <1>8, <2>1
  <2>. QED BY <2>2 DEF OnePerRead, Reference, Ref
<1>. QED BY <1>4, <1>7, <1>9 DEF IInv

(* The answers sent are the first that the stream asks for. *)
LEMMA AnswersArePrefix ==
  ASSUME IInv, ~cut
  PROVE  IsPrefix(answers, Ref(received).out)
<1>1. TypeOK /\ Patterns /\ Beginning /\ Stream
  BY DEF IInv
<1>2. Configured(web_api, handlers)
  BY <1>1, Configuration
<1>3. /\ answers \in Seq(Answer) /\ received \in Seq(Lines) /\ buffer \in Seq(Lines)
      /\ state \in {"none", "kConnected", "kDisconnecting", "kDisconnected"}
  BY <1>1 DEF TypeOK
<1>4. Ref(received).out \in Seq(Answer)
  <2>1. Ref(received) \in RefStates
    BY <1>2, <1>3, RefType DEF Ref
  <2>. QED BY <2>1 DEF RefStates
<1>5. CASE state = "none"
  <2>1. answers = <<>>
    BY <1>1, <1>5 DEF Beginning
  <2>. QED BY <1>4, <2>1, EmptyIsPrefix
<1>6. CASE state = "kConnected"
  <2>1. PICK done \in Seq(Lines) : received = done \o buffer /\ Ref(done).out = answers
    BY <1>1, <1>6 DEF Stream, Standing
  <2>2. Grows(Ref(done), Ref(done \o buffer))
    BY <1>2, <1>3, RefGrows DEF Ref
  <2>. QED BY <2>1, <2>2 DEF Grows
<1>7. CASE state \in {"kDisconnecting", "kDisconnected"}
  BY <1>1, <1>7 DEF Stream, Standing
<1>. QED BY <1>3, <1>5, <1>6, <1>7

LEMMA CloseInv ==
  ASSUME IInv, Close
  PROVE  IInv'
<1>1. TypeOK /\ Patterns /\ Beginning
  BY DEF IInv
<1>2. /\ state # "none" /\ state' = "kDisconnected"
      /\ UNCHANGED <<web_api, handlers, started, context, buffer, received, answers, cut, surplus>>
  BY DEF Close
<1>3. TypeOK' /\ Patterns' /\ Beginning'
  BY <1>1, <1>2 DEF TypeOK, Patterns, Beginning
<1>4. Ref(received)' = Ref(received)
  BY <1>2 DEF Ref
<1>5. Stream'
  BY <1>2, <1>4, AnswersArePrefix DEF Stream, Standing
<1>6. OnePerRead'
  BY <1>2 DEF OnePerRead
<1>. QED BY <1>3, <1>5, <1>6 DEF IInv

-----------------------------------------------------------------------------
(* For any routes, files and requests: the invariant, and what it makes sure. *)
THEOREM ServerInvariant == Spec => []IInv
<1>1. Init => IInv
  <2>. SUFFICES ASSUME Init PROVE IInv
    OBVIOUS
  <2>. DEFINE T == [path : Paths, pattern : Paths, close : BOOLEAN]
              path == [lead |-> 0, name |-> Nothing, trail |-> 0]
              h == Handler(path, FALSE)
  <2>1. path \in Paths
    BY HttpAssumption DEF Paths
  <2>. HIDE DEF path
  <2>2. h \in T /\ h.pattern = NormalizePath(h.path)
    BY <2>1, PatternType DEF Handler
  <2>. HIDE DEF h
  <2>3. handlers = [m \in Methods |-> IF m = "kGet" /\ ~web_api THEN <<h>> ELSE <<>>]
    BY DEF Init, h, path
  <2>4. <<h>> \in Seq(T) /\ <<>> \in Seq(T) /\ DOMAIN <<h>> = {1} /\ <<h>>[1] = h
    BY <2>2
  <2>5. TypeOK
    <3>1. handlers \in [Methods -> Seq(T)]
      BY <2>3, <2>4
    <3>. QED BY <3>1, EmptySeq DEF Init, TypeOK
  <2>6. Patterns
    BY <2>2, <2>3, <2>4 DEF Patterns
  <2>7. Beginning /\ Stream /\ OnePerRead
    BY DEF Init, Beginning, Stream, Standing, OnePerRead
  <2>. QED BY <2>5, <2>6, <2>7 DEF IInv
<1>2. IInv /\ [Next]_vars => IInv'
  <2>. SUFFICES ASSUME IInv, [Next]_vars PROVE IInv'
    OBVIOUS
  <2>1. ASSUME NEW r \in Routes, Register(r) PROVE IInv'
    BY <2>1, RegisterInv
  <2>2. CASE Start
    <3>1. UNCHANGED <<web_api, handlers, state, context, buffer, received, answers, cut, surplus>>
          /\ started'
      BY <2>2 DEF Start
    <3>2. TypeOK' /\ Patterns' /\ Beginning'
      BY <2>2, <3>1 DEF Start, IInv, TypeOK, Patterns, Beginning
    <3>3. \A lines : Ref(lines)' = Ref(lines)
      BY <3>1 DEF Ref
    <3>4. Ref(received)' = Ref(received)
      BY <3>1 DEF Ref
    <3>5. Stream'
      BY <3>1, <3>3, <3>4 DEF IInv, Stream, Standing
    <3>6. OnePerRead'
      BY <3>1 DEF IInv, OnePerRead, Reference
    <3>. QED BY <3>2, <3>5, <3>6 DEF IInv
  <2>3. CASE OnConnection
    BY <2>3, ConnectionInv
  <2>4. CASE Close
    BY <2>4, CloseInv
  <2>5. ASSUME NEW grows \in BOOLEAN,
               NEW k \in 0 .. IF grows THEN MaxLeft ELSE MaxLines - Len(received),
               NEW new \in [1 .. k -> Lines], OnMessage(new, grows)
        PROVE  IInv'
    <3>1. k \in Nat
      BY <2>5, HttpAssumption, LenProperties DEF IInv, TypeOK
    <3>2. new \in Seq(Lines)
      BY <3>1, IsASeq
    <3>. QED BY <2>5, <3>2, MessageInv
  <2>6. CASE UNCHANGED vars
    <3>1. TypeOK' /\ Patterns' /\ Beginning'
      BY <2>6 DEF vars, IInv, TypeOK, Patterns, Beginning
    <3>2. \A lines : Ref(lines)' = Ref(lines)
      BY <2>6 DEF vars, Ref
    <3>3. Ref(received)' = Ref(received)
      BY <2>6 DEF vars, Ref
    <3>4. Stream'
      BY <2>6, <3>2, <3>3 DEF vars, IInv, Stream, Standing
    <3>5. OnePerRead'
      BY <2>6 DEF vars, IInv, OnePerRead, Reference
    <3>. QED BY <3>1, <3>4, <3>5 DEF IInv
  <2>. QED BY <2>1, <2>2, <2>3, <2>4, <2>5, <2>6 DEF Next, Receive
<1>. QED BY <1>1, <1>2, PTL DEF Spec

(* All that a connection of a server keeps has its type, whatever is read. *)
THEOREM ServerTypeCorrect == Spec => []TypeOK
<1>1. IInv => TypeOK
  BY DEF IInv
<1>. QED BY <1>1, ServerInvariant, PTL

(* HandleRead, OnMessage and Dispatch: unless a read ended inside headers,    *)
(* the responses since the read buffer last lost bytes are the first ones     *)
(* that the lines received since then ask for, however they were split.       *)
THEOREM AnswersAlwaysInOrder == Spec => []AnswersInOrder
<1>1. IInv => AnswersInOrder
  BY AnswersArePrefix DEF AnswersInOrder, Reference, Ref
<1>. QED BY <1>1, ServerInvariant, PTL

(* One OnMessage answers one request: while the connection is open, no more   *)
(* are outstanding than ended, since the read buffer last lost bytes, without *)
(* a read after them.                                                         *)
THEOREM AlwaysOnePerRead == Spec => []OnePerRead
<1>1. IInv => OnePerRead
  BY DEF IInv
<1>. QED BY <1>1, ServerInvariant, PTL
=============================================================================
