---------------------------- MODULE RuleMeaning ----------------------------
(***************************************************************************)
(* What a list of actions means, said field by field of the message        *)
(* instead of action by action: the definition the handlers' steps are     *)
(* checked against.  `as` is the list of the actions of the rules that     *)
(* were selected, in the order of the configuration.                       *)
(***************************************************************************)
EXTENDS Rules

\* What each action says of one thing.
Each(as, Get(_)) == [i \in DOMAIN as |-> Get(as[i])]

\* The last place of a list of Options that is not None, 0 if there is none, and
\* what is there, or else d.
LastAt(options)       == Max({0} \cup {i \in DOMAIN options : options[i] # {}})
LastGiven(options, d) ==
  LET i == LastAt(options) IN IF i = 0 THEN d ELSE The(options[i])

\* What lists give together, from place i on.
From(lists, i) == FlattenSeq(SubSeq(lists, Max({1, i}), Len(lists)))

NewMethod(a) == Field(a.replace, LAMBDA r : r.method)
NewPath(a)   == {IF p = EmptyPath THEN RootPath ELSE p : p \in Field(a.replace, LAMBDA r : r.path)}
NewCode(a)   == Field(a.replace, LAMBDA r : r.code)
NewBody(a)   == Field(a.replace, LAMBDA r : r.body)
BodyDiff(a)  == Field(a.patch, LAMBDA p : p.body)

\* A message is lost with an abort, and with a merge into a body that is not
\* JSON; a request also with a path that does not parse.
FailsAt(as, body, i) ==
  \/ as[i].abort
  \/ BodyDiff(as[i]) # {} /\ LastGiven(SubSeq(Each(as, NewBody), 1, i), body) = Text

Fails(as, body)  == \E i \in DOMAIN as : FailsAt(as, body, i)
FailsRequest(as, body) == Fails(as, body) \/ \E i \in DOMAIN as : BadPath \in NewPath(as[i])

\* The list looks at the body a message came with: before it has a new one.
LooksAtBody(as) ==
  \E i \in DOMAIN as : BodyDiff(as[i]) # {} /\ \A j \in 1 .. i : NewBody(as[j]) = {}

\* The list has a say in the body.
ChangesBody(as) == \E i \in DOMAIN as : BodyDiff(as[i]) # {} \/ NewBody(as[i]) # {}

\* What an action says of one key of an object: its merge, or else its new body.
Value(body, k)  == IF body = Text THEN Absent ELSE body[k]
Merged(a, k)    == {IF d[k] = Null THEN Absent ELSE d[k] : d \in {x \in BodyDiff(a) : x[k] # Absent}}
NewValue(a, k)  == IF Merged(a, k) # {} THEN Merged(a, k) ELSE {Value(b, k) : b \in NewBody(a)}

MeantBody(as, body) ==
  IF LastGiven(Each(as, NewBody), body) = Text THEN Text
  ELSE [k \in Keys |-> LastGiven(Each(as, LAMBDA a : NewValue(a, k)), Value(body, k))]

MeantLength(as, length) ==
  IF \E i \in DOMAIN as : NewBody(as[i]) # {} \/ BodyDiff(as[i]) # {} THEN {} ELSE length

\* The values of a header: those of its last replacement, then what was
\* appended since.
NewHeader(a, n)   == {LastOnly(h[n]) : h \in {x \in Field(a.replace, LAMBDA r : r.headers) : x[n] # <<>>}}
AddedHeader(a, n) ==
  LET headers == Field(a.patch, LAMBDA p : p.headers) IN IF headers = {} THEN <<>> ELSE The(headers)[n]

MeantHeader(as, n, values) ==
  LET new == Each(as, LAMBDA a : NewHeader(a, n))
  IN LastGiven(new, values) \o From(Each(as, LAMBDA a : AddedHeader(a, n)), LastAt(new))

MeantHeaders(as, headers) == [n \in HeaderNames |-> MeantHeader(as, n, headers[n])]

\* The values of a query parameter: of all that were there when a rule last
\* replaced queries the last one, then what was appended since.
NewQueries(a)    == Field(a.replace, LAMBDA r : r.queries)
NewQuery(a, n)   == {<<q[n]>> : q \in {x \in NewQueries(a) : n \in DOMAIN x}}
AddedQuery(a, n) ==
  LET pairs == Field(a.patch, LAMBDA p : p.queries)
  IN IF pairs = {} THEN <<>> ELSE ValuesOf(The(pairs), n)

\* The last value an action gives a parameter, as the list of it.
LastQuery(a, n) == IF AddedQuery(a, n) # <<>> THEN {LastOnly(AddedQuery(a, n))} ELSE NewQuery(a, n)

MeantParameter(as, n, values) ==
  LET i    == LastAt(Each(as, NewQueries))
      kept == LastGiven(SubSeq(Each(as, LAMBDA a : LastQuery(a, n)), 1, i - 1), LastOnly(values))
      start == IF i = 0 THEN values
               ELSE IF NewQuery(as[i], n) # {} THEN The(NewQuery(as[i], n)) ELSE kept
  IN start \o From(Each(as, LAMBDA a : AddedQuery(a, n)), i)

MeantQuery(as, query) == [n \in QueryNames |-> MeantParameter(as, n, query[n])]

MeantRequest(as, r) ==
  IF FailsRequest(as, r.body) THEN Err
  ELSE [method  |-> LastGiven(Each(as, NewMethod), r.method),
        path    |-> LastGiven(Each(as, NewPath), r.path),
        query   |-> MeantQuery(as, r.query),
        headers |-> MeantHeaders(as, r.headers),
        body    |-> MeantBody(as, r.body),
        length  |-> MeantLength(as, r.length)]

\* Fields that concern requests only are ignored in rules for responses.
MeantResponse(as, rsp) ==
  IF Fails(as, rsp.body) THEN Err
  ELSE [code    |-> LastGiven(Each(as, NewCode), rsp.code),
        headers |-> MeantHeaders(as, rsp.headers),
        body    |-> MeantBody(as, rsp.body),
        length  |-> MeantLength(as, rsp.length)]

\* The actions of a list of rules.
ActionsOf(rules) == Each(rules, LAMBDA rule : rule.actions)
=============================================================================
