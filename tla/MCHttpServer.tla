----------------------------- MODULE MCHttpServer -----------------------------
(***************************************************************************)
(* Streams of up to two requests: of "/", of a file in wwwroot, with one   *)
(* slash or two, and of what is neither, for each way to route them.       *)
(***************************************************************************)
EXTENDS HttpServer

CONSTANTS file, other

Path(lead, name) == [lead |-> lead, name |-> name, trail |-> 0]

Line(m, p, v) == [kind |-> "request", method |-> m, path |-> p, version |-> v]

SomeRequests == {Line("kGet", Root, "kHttp11"), Line("kGet", Path(1, file), "kHttp10"),
                 Line("kPost", Path(2, file), "kHttp11"), Line("kHead", Path(1, other), "kHttp11")}

Given(m, path, close) == [method |-> m, path |-> path, close |-> close]

(* "" and "//.*" compete for "/", and "/file/" answers "//file". *)
SomeRoutes == {Given("kGet", Path(0, Nothing), FALSE), Given("kGet", Path(2, AnyRest), TRUE),
               Given("kPost", [Path(1, file) EXCEPT !.trail = 1], FALSE)}
=============================================================================
