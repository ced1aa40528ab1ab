------------------------------- MODULE Rules -------------------------------
(***************************************************************************)
(* Rules of the sub-proxy: the conversion of the configured actions, the   *)
(* selectors, and what an action does to a request or a response.          *)
(*                                                                         *)
(* An Option is a set of at most one element, so that `iter().all(...)`    *)
(* of the source is \A.  A header map or a query is a function from names  *)
(* to the sequence of their values; the order between names is left out.   *)
(* A wildcard pattern is the set of paths it matches.  A body is a JSON    *)
(* object (a function from keys to values) or Text, which is none.         *)
(***************************************************************************)
EXTENDS Naturals, Sequences, SequencesExt

CONSTANTS
  HeaderNames, QueryNames, Keys,
  Methods, Paths, Codes,
  Values,      \* values of headers, of parameters and of the keys of an object
  Text,        \* a body that is not JSON
  Absent,      \* the value of a key an object does not have
  Null,        \* null in a JSON merge patch
  EmptyPath, RootPath,
  BadPath,     \* a path the conversion accepts and http::Uri does not parse
  Err          \* the Err of a Result

Option(S) == {o \in SUBSET S : \A x, y \in o : x = y}

HeadersType  == [HeaderNames -> Seq(Values)]
ObjectType   == [Keys -> Values \cup {Absent}]
BodyType     == ObjectType \cup {Text}
RequestType  == [method : Methods, path : Paths, query : [QueryNames -> Seq(Values)],
                 headers : HeadersType, body : BodyType, length : SUBSET BodyType]
ResponseType == [code : Codes, headers : HeadersType, body : BodyType, length : SUBSET BodyType]

\* The actions of a rule, as configured and as converted.
ReplaceType    == [path : Option(Paths), method : Option(Methods), body : Option(BodyType),
                   code : Option(Codes), headers : Option(HeadersType),
                   queries : Option(UNION {[N -> Values] : N \in SUBSET QueryNames})]
PatchType(H)   == [body : Option([Keys -> Values \cup {Absent, Null}]), headers : Option(H),
                   queries : Option(Seq(QueryNames \X Values))]
RawActionsType == [abort : Option(BOOLEAN), replace : Option(ReplaceType),
                   patch : Option(PatchType(Seq(HeaderNames \X Values)))]
ActionsType    == [abort : BOOLEAN, replace : Option(ReplaceType),
                   patch : Option(PatchType(HeadersType))]

ASSUME RulesAssumption ==
  /\ Null # Absent /\ BadPath \notin {EmptyPath, RootPath}
  /\ {EmptyPath, RootPath, BadPath} \subseteq Paths
  /\ Text \notin ObjectType /\ Err \notin RequestType \cup ResponseType

The(option)           == CHOOSE x \in option : TRUE
UnwrapOr(option, x)   == IF option = {} THEN x ELSE The(option)
Field(option, Get(_)) == UNION {Get(x) : x \in option}   \* and_then

\* The elements of s that pass the test (iter().filter(...).collect()).
Filter(s, Test(_)) == FlattenSeq([i \in DOMAIN s |-> IF Test(s[i]) THEN <<s[i]>> ELSE <<>>])

\* The values of a name in a list of pairs, and what is left of the values of a
\* name in a map that keeps one of them.
ValuesOf(pairs, n) ==
  FlattenSeq([i \in DOMAIN pairs |-> IF pairs[i][1] = n THEN <<pairs[i][2]>> ELSE <<>>])
LastOnly(values)   == IF values = <<>> THEN <<>> ELSE <<Last(values)>>

\* HeaderMap::insert and append, for each value of a map.
InsertAll(m, new) == [n \in DOMAIN m |-> IF new[n] = <<>> THEN m[n] ELSE LastOnly(new[n])]
AppendAll(m, new) == [n \in DOMAIN m |-> m[n] \o new[n]]

----------------------------------------------------------------------------
(* Conversion of the configured actions (raw_config.rs).                   *)

\* The list of a patch becomes a map by insert.
TryFromVec(pairs) == [n \in HeaderNames |-> LastOnly(ValuesOf(pairs, n))]

ConvertPatch(raw) ==
  [body |-> raw.body, queries |-> raw.queries, headers |-> {TryFromVec(l) : l \in raw.headers}]

ConvertActions(raw) ==
  [abort   |-> UnwrapOr(raw.abort, FALSE),
   replace |-> raw.replace,
   patch   |-> {ConvertPatch(p) : p \in raw.patch}]

ConvertRules(raws) ==
  [i \in DOMAIN raws |-> [target   |-> raws[i].target,
                          selector |-> raws[i].selector,
                          actions  |-> ConvertActions(raws[i].actions)]]

----------------------------------------------------------------------------
(* Selectors.                                                              *)

\* Every configured header value is among the values of the message.
HasHeaders(headers, option) ==
  \A fields \in option : \A n \in DOMAIN fields : ToSet(fields[n]) \subseteq ToSet(headers[n])

\* The rules act on the connections of the role's side only.
RoleOk(role, remote, target) ==
  \A r \in role : IF r.side = "Client" THEN remote \in r.ips ELSE target \in r.ips

SelectRequest(port, request, s) ==
  /\ \A p \in s.port : p = port
  /\ \A pattern \in s.path : request.path \in pattern
  /\ \A m \in s.method : m = request.method
  /\ HasHeaders(request.headers, s.request_headers)

SelectResponse(port, request, response, s) ==
  /\ SelectRequest(port, request, s)
  /\ \A c \in s.code : c = response.code
  /\ HasHeaders(response.headers, s.response_headers)

----------------------------------------------------------------------------
(* Actions.                                                                *)

\* mutant: the length of the old body stays.
WithBodyKeepingLength(msg, body) == [msg EXCEPT !.body = body]

\* A new body takes Content-Length away; hyper writes the length it has.
WithBody(msg, body) == [msg EXCEPT !.body = body, !.length = {}]

\* json_patch::merge on an object.
Merge(doc, patch) ==
  [k \in Keys |-> IF patch[k] = Absent THEN doc[k]
                  ELSE IF patch[k] = Null THEN Absent ELSE patch[k]]

ReplaceBody(msg, body)       == IF body = {} THEN msg ELSE WithBody(msg, The(body))
ReplaceHeaders(msg, headers) ==
  IF headers = {} THEN msg ELSE [msg EXCEPT !.headers = InsertAll(@, The(headers))]

PatchesBody(a)  == \E p \in a.patch : p.body # {}
ReplacesBody(a) == \E r \in a.replace : r.body # {}

\* mutant: the old body is read also if a new one has taken its place.
ReadsReplacedBody(a) == ~a.abort /\ PatchesBody(a)

\* read_value takes the stream the message came with to its end, unless the body
\* has been replaced: an action that does so waits for the stream, and fails if
\* that breaks off.  A path that does not parse, in a request, or an abort fails
\* before.
ReadsBody(a)        == ~a.abort /\ PatchesBody(a) /\ ~ReplacesBody(a)
ReadsRequestBody(a) == ReadsBody(a) /\ \A r \in a.replace : BadPath \notin r.path

\* It also fails if all of the body has come and is not JSON.
PatchBody(msg, body) ==
  IF body = {} THEN msg
  ELSE IF msg.body = Text THEN Err
  ELSE WithBody(msg, Merge(msg.body, The(body)))

PatchHeaders(msg, headers) ==
  IF msg = Err \/ headers = {} THEN msg ELSE [msg EXCEPT !.headers = AppendAll(@, The(headers))]

ReplacePath(request, path) ==
  IF path = {} THEN request
  ELSE [request EXCEPT !.path = IF The(path) = EmptyPath THEN RootPath ELSE The(path)]

\* The old query goes through a HashMap, so of a repeated parameter only the
\* last value is left, whether the rule names it or not.
ReplaceQueries(request, queries) ==
  IF queries = {} THEN request
  ELSE [request EXCEPT !.query =
         [n \in QueryNames |->
            IF n \in DOMAIN The(queries) THEN <<The(queries)[n]>> ELSE LastOnly(@[n])]]

AppendQueries(request, queries) ==
  IF queries = {} THEN request
  ELSE [request EXCEPT !.query = [n \in QueryNames |-> @[n] \o ValuesOf(The(queries), n)]]

ReplaceRequest(request, r) ==
  IF BadPath \in r.path THEN Err
  ELSE ReplaceHeaders(
         ReplaceQueries(
           ReplaceBody([ReplacePath(request, r.path) EXCEPT !.method = UnwrapOr(r.method, @)],
                       r.body),
           r.queries),
         r.headers)

PatchRequest(request, p) ==
  PatchHeaders(PatchBody(AppendQueries(request, p.queries), p.body), p.headers)

\* mutant: the patch before the replacement.
ApplyRequestActionPatchFirst(request, a) ==
  LET patched == IF a.patch = {} THEN request ELSE PatchRequest(request, The(a.patch))
  IN IF a.abort \/ patched = Err THEN Err
     ELSE IF a.replace = {} THEN patched ELSE ReplaceRequest(patched, The(a.replace))

ApplyRequestAction(request, a) ==
  LET replaced == IF a.replace = {} THEN request ELSE ReplaceRequest(request, The(a.replace))
  IN IF a.abort \/ replaced = Err THEN Err
     ELSE IF a.patch = {} THEN replaced ELSE PatchRequest(replaced, The(a.patch))

ReplaceResponse(response, r) ==
  ReplaceHeaders(ReplaceBody([response EXCEPT !.code = UnwrapOr(r.code, @)], r.body), r.headers)

PatchResponse(response, p) == PatchHeaders(PatchBody(response, p.body), p.headers)

ApplyResponseAction(response, a) ==
  LET replaced == IF a.replace = {} THEN response ELSE ReplaceResponse(response, The(a.replace))
  IN IF a.abort THEN Err
     ELSE IF a.patch = {} THEN replaced ELSE PatchResponse(replaced, The(a.patch))
=============================================================================
