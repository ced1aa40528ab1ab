-------------------------- MODULE MCHttpConnection --------------------------
(* Model checking of HttpConnection: messages, streams and configurations. *)
EXTENDS HttpConnection

CONSTANTS v, w   \* values of headers, parameters and keys

MCHeaderNames == {"host", "tag"}
MCQueryNames  == {"p", "q"}
MCKeys        == {"a", "b"}
MCMethods     == {"GET", "POST"}
MCPaths       == {"/a", "/b", EmptyPath, RootPath, BadPath}
MCCodes       == {101, 200, 304, 404, 502}
MCValues      == {v, w, BadHost}

Header(host, tag) == [host |-> host, tag |-> tag]
Query(p, q)       == [p |-> p, q |-> q]
Doc(a, b)         == [a |-> a, b |-> b]

----------------------------------------------------------------------------
(* What the client sends and the target answers.                           *)

Get == [method |-> "GET", path |-> "/a", query |-> Query(<<v, w>>, <<>>),
        headers |-> Header(<<v>>, <<w>>), body |-> Doc(v, Absent), length |-> {Doc(v, Absent)}]
Post == [method |-> "POST", path |-> "/b", query |-> Query(<<>>, <<v>>),
         headers |-> Header(<<v>>, <<>>), body |-> Text, length |-> {Text}]

Segment(kind, request) == [kind |-> kind, request |-> request]
Junk == Segment("junk", Err)

MCStreams ==
  { <<Segment("request", Get), Segment("request", Post)>>,
    <<Segment("head", Get), Segment("body", Err), Segment("request", Post)>>,
    <<Segment("start", Get), Segment("end", Err), Junk>>,
    <<Segment("start", Post), Junk, Segment("head", Get)>> }

Response(code, tag, body) ==
  [code |-> code, headers |-> Header(<<>>, tag), body |-> body, length |-> {body}]

MCBadGateway == [Response(502, <<>>, Text) EXCEPT !.length = {}]
\* With a body, without one (and the length of one), and of an upgrade.
MCResponses  == {Response(200, <<v>>, Doc(w, v)), Response(404, <<>>, Text),
                 [Response(304, <<>>, Text) EXCEPT !.length = {Doc(w, v)}],
                 Response(101, <<>>, Text)}

----------------------------------------------------------------------------
(* Configurations.                                                         *)

Every     == [port |-> {}, path |-> {}, method |-> {}, code |-> {},
              request_headers |-> {}, response_headers |-> {}]
Nothing   == [abort |-> {}, replace |-> {}, patch |-> {}]
NoReplace == [path |-> {}, method |-> {}, body |-> {}, code |-> {}, queries |-> {}, headers |-> {}]
NoPatch   == [body |-> {}, queries |-> {}, headers |-> {}]

Rule(target, selector, actions) == [target |-> target, selector |-> selector, actions |-> actions]
Replace(r) == [Nothing EXCEPT !.replace = {r}]
Patch(p)   == [Nothing EXCEPT !.patch = {p}]
Abort      == [Nothing EXCEPT !.abort = {TRUE}]

Conf(rules, role, tls) == [rules |-> rules, role |-> role, tls |-> tls]

\* Rules for requests: a path moved to one another rule selects (and the body
\* with it), an empty path, headers and queries replaced and appended.
RequestRules ==
  { Rule("Request", [Every EXCEPT !.path = {{"/a"}}],
         [Nothing EXCEPT !.replace = {[NoReplace EXCEPT !.path = {"/b"}, !.method = {"POST"},
                                                        !.body = {Doc(w, w)}]},
                         !.patch   = {[NoPatch EXCEPT !.body = {Doc(Null, v)}]}]),
    Rule("Request", [Every EXCEPT !.path = {{"/b"}}, !.method = {"POST"}],
         Replace([NoReplace EXCEPT !.path = {EmptyPath}, !.body = {Text}])),
    Rule("Request", [Every EXCEPT !.method = {"GET"}, !.request_headers = {Header(<<>>, <<w>>)}],
         [Nothing EXCEPT !.patch = {[NoPatch EXCEPT !.headers = {<<<<"tag", v>>>>},
                                                    !.queries = {<<<<"q", v>>, <<"q", w>>>>}]}]),
    Rule("Request", [Every EXCEPT !.port = {80}],
         [Nothing EXCEPT !.replace = {[NoReplace EXCEPT !.queries = {[p |-> w]},
                                                        !.headers = {Header(<<w>>, <<>>)}]},
                         !.patch   = {[NoPatch EXCEPT !.body = {Doc(v, Null)},
                                                      !.headers = {<<<<"host", v>>>>},
                                                      !.queries = {<<<<"p", v>>>>}]}]) }

\* Rules for responses, selected by the request that was forwarded, by the
\* response served, by the 502 of a failure.
ResponseRules ==
  { Rule("Response", [Every EXCEPT !.path = {{"/b"}}, !.code = {200}],
         Patch([NoPatch EXCEPT !.body = {Doc(v, Null)}, !.headers = {<<<<"tag", w>>>>}])),
    Rule("Response", [Every EXCEPT !.code = {502}],
         Replace([NoReplace EXCEPT !.code = {200}, !.body = {Doc(v, v)},
                                   !.headers = {Header(<<>>, <<w>>)}])),
    Rule("Response", [Every EXCEPT !.response_headers = {Header(<<>>, <<v>>)}],
         Replace([NoReplace EXCEPT !.path = {BadPath}, !.code = {404}])),
    Rule("Response", Every, Patch([NoPatch EXCEPT !.body = {Doc(Null, w)}])) }

AbortRequest  == Rule("Request", [Every EXCEPT !.path = {{"/b"}}], Abort)
AbortResponse == Rule("Response", [Every EXCEPT !.code = {404}], Abort)
BadHostRule   == Rule("Request", [Every EXCEPT !.method = {"GET"}],
                      Patch([NoPatch EXCEPT !.headers = {<<<<"host", BadHost>>>>}]))
BadHostFirst  == Rule("Request", Every,
                      Replace([NoReplace EXCEPT !.headers = {Header(<<BadHost>>, <<>>)}]))
BadRule       == Rule("Request", [Every EXCEPT !.method = {"POST"}],
                      Replace([NoReplace EXCEPT !.path = {BadPath}]))
Client == [side |-> "Client", ips |-> {"client"}]
Server == [side |-> "Server", ips |-> {"client"}]

MCRawConfigs ==
  {Conf(<<r, s>>, {}, FALSE) : r, s \in RequestRules} \cup
  {Conf(<<r, s>>, {}, FALSE) : r \in RequestRules, s \in ResponseRules} \cup
  {Conf(<<r, s>>, {}, FALSE) : r, s \in ResponseRules} \cup
  { Conf(<<>>, {}, FALSE), Conf(<<AbortRequest, AbortResponse>>, {Client}, FALSE),
    Conf(<<AbortRequest, AbortResponse>>, {Server}, FALSE),
    Conf(<<BadHostRule, AbortResponse>>, {Client}, FALSE),
    Conf(<<BadHostRule, BadHostFirst>>, {}, FALSE),
    Conf(<<BadRule>>, {}, TRUE) }

\* For the pairs of a patch.
TwoOfOneName ==
  << Rule("Request", Every, Patch([NoPatch EXCEPT !.headers = {<<<<"tag", v>>, <<"tag", w>>>>}])) >>

MCPatchConfigs == {Conf(TwoOfOneName, {}, FALSE)}
=============================================================================
