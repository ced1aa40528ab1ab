--------------------------- MODULE HttpConnection ---------------------------
(***************************************************************************)
(* One accepted connection of the sub-proxy: serve_https or                *)
(* serve_http_with_error_return around hyper's HTTP server, the service    *)
(* HttpService::handle with its rules, the connection to the target made   *)
(* from the client's own address, and the relay of a stream that is not    *)
(* HTTP.  The client, the target and hyper (a fork, used through           *)
(* serve_connection_with_parts and Client) are the environment.            *)
(*                                                                         *)
(* The client's stream is a sequence of segments: whole requests; the      *)
(* start and the end of a request cut within its head; a head whose body   *)
(* comes later, and that body; and junk.  Positions in it stand for its    *)
(* bytes.  hyper calls handle with the head and streams the body: a        *)
(* message in `ex` has the body it is going to have, and fromClient and    *)
(* fromTarget say how much of its stream has come.                         *)
(***************************************************************************)
EXTENDS RuleMeaning

CONSTANTS
  Streams,      \* what clients may send, each a sequence of segments
  RawConfigs,   \* configurations: rules as configured, role, tls
  Responses,    \* what the target may answer
  BadGateway,   \* the response handle makes if it cannot forward
  BadHost,      \* a value of Host that is no authority
  Upgraded,     \* the status code after which hyper ends HTTP (101)
  Remote, Target, Port,   \* addresses of the connection, port of the target
  MaxReplies    \* bound on the segments the target sends during a relay

ASSUME ConnectionAssumption ==
  /\ \A s \in Streams : s \in Seq(ToSet(s))
  /\ \A s \in Streams : \A i \in DOMAIN s \ {Len(s)} :
       s[i].kind = "head" => s[i + 1].kind = "body"
  /\ "host" \in HeaderNames
  /\ MaxReplies \in Nat

ASSUME MessageAssumption ==
  /\ \A s \in Streams : \A segment \in ToSet(s) :
       segment.kind \in {"request", "start", "head"} => segment.request \in RequestType
  /\ \A m \in {BadGateway} \cup Responses : m \in ResponseType

\* The message has no Content-Length, or that of its body.  A response to HEAD
\* and a 304 have that of a body they come without.
TrueLength(m) == m.length \subseteq {m.body}

ASSUME ConfigAssumption ==
  \A raw \in RawConfigs :
    /\ raw.rules \in Seq(ToSet(raw.rules))
    /\ \A rule \in ToSet(raw.rules) : rule.actions \in RawActionsType

VARIABLES
  config,     \* the converted configuration, shared by all connections
  stream,     \* what this client is going to send
  sent,       \* segments the client has sent
  eof,        \* the client has closed its side
  pc,         \* where the task of the connection is
  read,       \* segments read from the client
  base,       \* segments consumed: base+1 .. read are in hyper's read_buf
  ex,         \* the exchange under way
  up,         \* the connection to the target, bound to the client's address
  taken,      \* history: positions of the requests handed to handle
  forwarded,  \* history: what the target received as requests
  answers,    \* history: what the client received as responses
  skipped,    \* history: positions in a read_buf that was dropped
  bodies,     \* history: positions read as bodies of requests
  relay       \* the relay

conf   == <<config, stream>>
client == <<sent, eof>>
buffer == <<read, base, skipped, bodies>>
http   == <<ex, taken, forwarded, answers>>
vars   == <<conf, client, pc, buffer, http, up, relay>>

ServePc   == {"request", "wait", "response"}          \* inside handle
\* ... and until the request is over, if it has been answered before.
ExchangePc == ServePc \cup {"drain"}
RelayPc   == {"bind", "replay", "relay"}
\* Why the task has ended.
ClosedPc  == {"eof", "incomplete", "closed", "aborted", "cancelled", "truncated", "failed",
              "relayed", "panicked"}
Open      == pc \notin ClosedPc

\* fromClient: the body of the request has come, is coming, broke off, or is not
\* wanted any more; fromTarget: the same of the response's.
NoExchange == [at |-> 0, request |-> Err, served |-> Err, response |-> Err, todo |-> <<>>,
               fromClient |-> "whole", fromTarget |-> "whole"]
NoRelay    == [from |-> 0, toTarget |-> <<>>, targetShut |-> FALSE,
               replies |-> 0, toClient |-> 0, targetEof |-> FALSE, clientShut |-> FALSE]

Convert(raw) == [rules |-> ConvertRules(raw.rules), role |-> raw.role, tls |-> raw.tls]

Init ==
  /\ \E raw \in RawConfigs : config = Convert(raw)
  /\ stream \in Streams
  /\ sent = 0 /\ eof = FALSE
  /\ pc = IF config.tls THEN "handshake" ELSE "http"
  /\ read = 0 /\ base = 0 /\ skipped = {} /\ bodies = {}
  /\ ex = NoExchange /\ taken = <<>> /\ forwarded = <<>> /\ answers = <<>>
  /\ up = "none" /\ relay = NoRelay

----------------------------------------------------------------------------
(* The client and the target.                                              *)

ClientSends ==
  /\ Open /\ ~eof /\ sent < Len(stream)
  /\ sent' = sent + 1
  /\ UNCHANGED <<conf, eof, pc, buffer, http, up, relay>>

ClientCloses ==
  /\ Open /\ ~eof
  /\ eof' = TRUE
  /\ UNCHANGED <<conf, sent, pc, buffer, http, up, relay>>

TargetReplies ==
  /\ pc = "relay" /\ ~relay.targetEof /\ relay.replies < MaxReplies
  /\ relay' = [relay EXCEPT !.replies = @ + 1]
  /\ UNCHANGED <<conf, client, pc, buffer, http, up>>

TargetCloses ==
  /\ pc = "relay" /\ ~relay.targetEof
  /\ relay' = [relay EXCEPT !.targetEof = TRUE]
  /\ UNCHANGED <<conf, client, pc, buffer, http, up>>

\* The kernel has the client's address in use until both ends have closed.
UpstreamCloses ==
  /\ up = "closing"
  /\ up' = "none"
  /\ UNCHANGED <<conf, client, pc, buffer, http, relay>>

----------------------------------------------------------------------------
(* hyper's server.                                                         *)

\* The task ends and drops its streams.
Close(how) == pc' = how /\ up' = IF up = "open" THEN "closing" ELSE up

TlsAccept ==
  /\ pc = "handshake"
  /\ \/ pc' = "http" /\ UNCHANGED up
     \/ Close("failed")
  /\ UNCHANGED <<conf, client, buffer, http, relay>>

\* What the parser makes of read_buf.
Kind(i)   == stream[i].kind
Waiting   == base < read => Kind(base + 1) = "start" /\ read = base + 1
Complete  == /\ base < read
             /\ \/ Kind(base + 1) \in {"request", "head"}
                \/ /\ Kind(base + 1) = "start" /\ base + 1 < read
                   /\ Kind(base + 2) = "end"
Malformed == ~Waiting /\ ~Complete

\* hyper reads if it has no whole head; and during an exchange, if read_buf is
\* empty, for the body of the request, to skip one that is not wanted, or to
\* notice the end of the stream.
Read ==
  /\ \/ pc = "http" /\ Waiting
     \/ pc \in ExchangePc /\ base = read /\ ex.fromClient # "broken"
  /\ \E n \in read + 1 .. sent : read' = n
  /\ UNCHANGED <<conf, client, pc, base, skipped, bodies, http, up, relay>>

\* The body is handed on to whoever has the request by now, or skipped.
ReadBody ==
  /\ pc \in ExchangePc /\ ex.fromClient \in {"coming", "dropped"} /\ base < read
  /\ base' = base + 1 /\ bodies' = bodies \cup {base + 1}
  /\ ex' = [ex EXCEPT !.fromClient = "whole"]
  /\ UNCHANGED <<conf, client, pc, read, skipped, taken, forwarded, answers, up, relay>>

\* The client closes before the end of the body.  The service goes on, with an
\* error as the last of its body, and hyper does not read any more.
BodyBreaks ==
  /\ pc \in ExchangePc /\ ex.fromClient = "coming"
  /\ eof /\ read = sent /\ base = read
  /\ ex' = [ex EXCEPT !.fromClient = "broken"]
  /\ UNCHANGED <<conf, client, pc, buffer, taken, forwarded, answers, up, relay>>

\* Rules for requests, selected on the request as the client sent it.
SelectedRequestRules(request) ==
  Filter(config.rules, LAMBDA rule :
    /\ RoleOk(config.role, Remote, Target)
    /\ rule.target = "Request"
    /\ SelectRequest(Port, request, rule.selector))

\* mutant: two segments are consumed, whatever was read.
TakeRequestOfTwo ==
  /\ pc = "http" /\ Complete
  /\ ex' = [NoExchange EXCEPT !.at = base + 1, !.request = stream[base + 1].request,
                              !.todo = SelectedRequestRules(stream[base + 1].request)]
  /\ base' = base + 2
  /\ taken' = Append(taken, base + 1)
  /\ pc' = "request"
  /\ UNCHANGED <<conf, client, read, skipped, bodies, forwarded, answers, up, relay>>

\* The service is called with the head of a request.
TakeRequest ==
  /\ pc = "http" /\ Complete
  /\ LET request == stream[base + 1].request
     IN ex' = [NoExchange EXCEPT !.at = base + 1, !.request = request,
                 !.todo = SelectedRequestRules(request),
                 !.fromClient = IF Kind(base + 1) = "head" THEN "coming" ELSE "whole"]
  /\ base' = IF Kind(base + 1) = "start" THEN base + 2 ELSE base + 1
  /\ taken' = Append(taken, base + 1)
  /\ pc' = "request"
  /\ UNCHANGED <<conf, client, read, skipped, bodies, forwarded, answers, up, relay>>

\* The end of the stream: between requests it is Ok without parts; within one
\* it is an error, but not of the parser, and what was read is dropped.
ServeEof ==
  /\ pc = "http" /\ Waiting /\ eof /\ read = sent
  /\ Close(IF base = read THEN "eof" ELSE "incomplete")
  /\ UNCHANGED <<conf, client, buffer, http, relay>>

\* hyper drops a service whose client has closed after its request, at whatever
\* await it is.
Cancel ==
  /\ pc \in ServePc /\ ex.fromClient = "whole" /\ eof /\ read = sent /\ base = read
  /\ Close("cancelled")
  /\ UNCHANGED <<conf, client, buffer, http, relay>>

\* A parse error comes with the parts of the connection if error_return is
\* set, which serve_https does not do.
ParseError ==
  /\ pc = "http" /\ Malformed
  /\ \/ ~config.tls /\ pc' = "bind" /\ UNCHANGED up
     \/ config.tls /\ Close("failed")
  /\ UNCHANGED <<conf, client, buffer, http, relay>>

\* Ok with parts, after an upgrade: the loop serves the stream again and drops
\* the parts' read_buf.
ServeAgain ==
  /\ pc = "parts"
  /\ pc' = "http"
  /\ base' = read /\ skipped' = skipped \cup (base + 1 .. read)
  /\ UNCHANGED <<conf, client, read, bodies, http, up, relay>>

----------------------------------------------------------------------------
(* HttpService::handle.                                                    *)

\* mutant: the rules that are left must match the request as it is now.
ApplyToRequestReselecting ==
  /\ pc = "request" /\ ex.todo # <<>>
  /\ LET result == ApplyRequestAction(ex.request, Head(ex.todo).actions)
     IN \/ /\ result = Err
           /\ Close("aborted")
           /\ UNCHANGED ex
        \/ /\ result # Err
           /\ ex' = [ex EXCEPT !.request = result,
                               !.todo = Filter(Tail(@), LAMBDA rule :
                                       SelectRequest(Port, result, rule.selector))]
           /\ UNCHANGED <<pc, up>>
  /\ UNCHANGED <<conf, client, buffer, taken, forwarded, answers, relay>>

\* The stream of a request's body whose Body is dropped.
Unwanted(body) == IF body \in {"coming", "broken"} THEN "dropped" ELSE body

\* One rule: an error ends the service and with it the connection.  A delay or
\* a body that is read is an await, so other steps come in between; there is no
\* limit to how long the client may take over a body a rule waits for.
ApplyToRequest ==
  /\ pc = "request" /\ ex.todo # <<>>
  /\ LET a      == Head(ex.todo).actions
         result == ApplyRequestAction(ex.request, a)
     IN /\ ReadsRequestBody(a) => ex.fromClient # "coming"
        /\ \/ /\ result = Err \/ (ReadsRequestBody(a) /\ ex.fromClient = "broken")
              /\ Close("aborted")
              /\ UNCHANGED ex
           \/ /\ result # Err /\ ~(ReadsRequestBody(a) /\ ex.fromClient = "broken")
              /\ ex' = [ex EXCEPT !.request = result, !.todo = Tail(@),
                                  !.fromClient = IF ReplacesBody(a) THEN Unwanted(@) ELSE @]
              /\ UNCHANGED <<pc, up>>
  /\ UNCHANGED <<conf, client, buffer, taken, forwarded, answers, relay>>

\* Rules for responses, selected on the request as it was forwarded and the
\* response as it was served.
SelectedResponseRules(request, response) ==
  Filter(config.rules, LAMBDA rule :
    /\ RoleOk(config.role, Remote, Target)
    /\ rule.target = "Response"
    /\ SelectResponse(Port, request, response, rule.selector))

\* hyper's client hands over the head of a response; the body follows, if there
\* is one.
BodyToCome(response) ==
  IF response.code = Upgraded \/ ~TrueLength(response) THEN "whole" ELSE "coming"

\* mutant: the rules see the request as it came in.
ServedByOriginal(response) ==
  ex' = [ex EXCEPT !.served = response, !.response = response,
                   !.todo = SelectedResponseRules(stream[ex.at].request, response),
                   !.fromTarget = BodyToCome(response)]

Served(response) ==
  ex' = [ex EXCEPT !.served = response, !.response = response,
                   !.todo = SelectedResponseRules(ex.request, response),
                   !.fromTarget = BodyToCome(response)]

\* The 502 in place of a response; the request, with its Body, is gone.
NotServed ==
  ex' = [ex EXCEPT !.served = BadGateway, !.response = BadGateway,
                   !.todo = SelectedResponseRules(ex.request, BadGateway),
                   !.fromClient = Unwanted(@)]

\* The URI is rebuilt from the first Host header, if there is one.
HasAuthority(request) ==
  request.headers["host"] # <<>> => Head(request.headers["host"]) # BadHost

\* A client of its own for each request, and a connection bound to the client's
\* address.  It fails if the target refuses, and if an earlier connection
\* between the same two addresses has not gone yet.  A body that is still coming
\* is streamed to the target.
Forward ==
  /\ pc = "request" /\ ex.todo = <<>> /\ HasAuthority(ex.request)
  /\ \/ /\ up = "none"
        /\ up' = "open" /\ pc' = "wait"
        /\ forwarded' = Append(forwarded,
                         [at |-> ex.at, request |-> ex.request,
                          streamed |-> ex.fromClient \in {"coming", "broken"}])
        /\ UNCHANGED ex
     \/ /\ NotServed
        /\ pc' = "response"
        /\ UNCHANGED <<up, forwarded>>
  /\ UNCHANGED <<conf, client, buffer, taken, answers, relay>>

RefuseHost ==
  /\ pc = "request" /\ ex.todo = <<>> /\ ~HasAuthority(ex.request)
  /\ Close("aborted")
  /\ UNCHANGED <<conf, client, buffer, http, relay>>

\* mutant: a request that failed is sent again.
TargetAnswersOrRetry ==
  /\ pc = "wait"
  /\ \/ /\ \E response \in Responses : Served(response)
        /\ pc' = "response"
        /\ UNCHANGED up
     \/ pc' = "request" /\ up' = "closing" /\ UNCHANGED ex
  /\ UNCHANGED <<conf, client, buffer, taken, forwarded, answers, relay>>

\* The target answers, be it before it has all of the request, or its connection
\* fails.  There is no time limit.
TargetAnswers ==
  /\ pc = "wait"
  /\ (\E response \in Responses : Served(response)) \/ NotServed
  /\ pc' = "response"
  /\ UNCHANGED <<conf, client, buffer, taken, forwarded, answers, up, relay>>

\* The target sends the body of its response, or breaks off.
TargetSendsBody ==
  /\ pc = "response" /\ ex.fromTarget = "coming"
  /\ \E body \in {"whole", "broken"} : ex' = [ex EXCEPT !.fromTarget = body]
  /\ UNCHANGED <<conf, client, pc, buffer, taken, forwarded, answers, up, relay>>

\* The connection to the target ends, and nobody takes the rest of the request.
TargetDropsBody ==
  /\ pc \in {"wait", "response", "drain"} /\ ex.fromClient = "coming" /\ up = "open"
  /\ ex' = [ex EXCEPT !.fromClient = "dropped"]
  /\ UNCHANGED <<conf, client, pc, buffer, taken, forwarded, answers, up, relay>>

EndExchange ==
  /\ ex' = NoExchange
  /\ \E next \in {"closed"} \cup (IF ex.fromClient = "whole" THEN {"http"} ELSE {}) : Close(next)

\* mutant: after an error the rule is tried again.
ApplyToResponseRetrying ==
  /\ pc = "response" /\ ex.todo # <<>>
  /\ LET result == ApplyResponseAction(ex.response, Head(ex.todo).actions)
     IN IF result = Err THEN UNCHANGED ex
        ELSE ex' = [ex EXCEPT !.response = result, !.todo = Tail(@)]
  /\ UNCHANGED <<conf, client, pc, buffer, up, taken, forwarded, answers, relay>>

ApplyToResponse ==
  /\ pc = "response" /\ ex.todo # <<>>
  /\ LET a      == Head(ex.todo).actions
         result == ApplyResponseAction(ex.response, a)
     IN /\ ReadsBody(a) => ex.fromTarget # "coming"
        /\ \/ /\ result = Err \/ (ReadsBody(a) /\ ex.fromTarget = "broken")
              /\ Close("aborted")
              /\ UNCHANGED ex
           \/ /\ result # Err /\ ~(ReadsBody(a) /\ ex.fromTarget = "broken")
              /\ ex' = [ex EXCEPT !.response = result, !.todo = Tail(@),
                                  !.fromTarget = IF ReplacesBody(a) THEN "whole" ELSE @]
              /\ UNCHANGED <<pc, up>>
  /\ UNCHANGED <<conf, client, buffer, taken, forwarded, answers, relay>>

\* All of the response is written.  hyper closes the connection then if either
\* message says so or it does not read any more; if the request is not over, it
\* goes on reading.
Deliver ==
  /\ pc = "response" /\ ex.todo = <<>> /\ ex.fromTarget = "whole"
  /\ answers' = Append(answers, [at |-> ex.at, request |-> ex.request,
                                 served |-> ex.served, response |-> ex.response])
  /\ \/ /\ ex.response.code = Upgraded
        /\ Close("parts") /\ ex' = NoExchange
     \/ /\ ex.response.code # Upgraded /\ ex.fromClient = "coming"
        /\ pc' = "drain" /\ UNCHANGED <<ex, up>>
     \/ /\ ex.response.code # Upgraded /\ ex.fromClient # "coming"
        /\ EndExchange
  /\ UNCHANGED <<conf, client, buffer, taken, forwarded, relay>>

\* The rest of a request that has been answered is read, or is not.
Drained ==
  /\ pc = "drain" /\ ex.fromClient # "coming"
  /\ EndExchange
  /\ UNCHANGED <<conf, client, buffer, taken, forwarded, answers, relay>>

\* The target breaks off a response no rule looks into: so does hyper.
ResponseBreaksOff ==
  /\ pc = "response" /\ ex.todo = <<>> /\ ex.fromTarget = "broken"
  /\ Close("truncated")
  /\ UNCHANGED <<conf, client, buffer, http, relay>>

----------------------------------------------------------------------------
(* The relay of a stream that is not HTTP.                                 *)

BindAndConnect ==
  /\ pc = "bind"
  /\ \/ up = "none" /\ up' = "open" /\ pc' = "replay"
     \/ Close("failed")
  /\ relay' = [relay EXCEPT !.from = base]
  /\ UNCHANGED <<conf, client, buffer, http>>

\* mutant: what hyper has read is not written.
ReplayNothing ==
  /\ pc = "replay"
  /\ base' = read /\ pc' = "relay"
  /\ UNCHANGED <<conf, client, read, skipped, bodies, http, up, relay>>

\* mutant: the replay waits for the end of the stream.
ReplayAtEof ==
  /\ pc = "replay" /\ eof
  /\ relay' = [relay EXCEPT !.toTarget = @ \o [i \in 1 .. read - base |-> base + i]]
  /\ base' = read /\ pc' = "relay"
  /\ UNCHANGED <<conf, client, read, skipped, bodies, http, up>>

\* write_all(read_buf).unwrap()
Replay ==
  /\ pc = "replay"
  /\ \/ /\ relay' = [relay EXCEPT !.toTarget = @ \o [i \in 1 .. read - base |-> base + i]]
        /\ base' = read /\ pc' = "relay"
        /\ UNCHANGED up
     \/ /\ Close("panicked")
        /\ UNCHANGED <<relay, base>>
  /\ UNCHANGED <<conf, client, read, skipped, bodies, http>>

\* copy_bidirectional copies each way, passes on the end of either stream and
\* returns when both have ended.
RelayToTarget ==
  /\ pc = "relay" /\ read < sent
  /\ read' = read + 1 /\ base' = read + 1
  /\ relay' = [relay EXCEPT !.toTarget = Append(@, read + 1)]
  /\ UNCHANGED <<conf, client, pc, skipped, bodies, http, up>>

\* mutant: the end of one direction waits for that of the other.
ShutTargetLast ==
  /\ pc = "relay" /\ eof /\ read = sent /\ ~relay.targetShut /\ relay.clientShut
  /\ relay' = [relay EXCEPT !.targetShut = TRUE]
  /\ UNCHANGED <<conf, client, pc, buffer, http, up>>

ShutTarget ==
  /\ pc = "relay" /\ eof /\ read = sent /\ ~relay.targetShut
  /\ relay' = [relay EXCEPT !.targetShut = TRUE]
  /\ UNCHANGED <<conf, client, pc, buffer, http, up>>

RelayToClient ==
  /\ pc = "relay" /\ relay.toClient < relay.replies
  /\ relay' = [relay EXCEPT !.toClient = @ + 1]
  /\ UNCHANGED <<conf, client, pc, buffer, http, up>>

\* mutant: the end of the target's stream is lost if the client has closed.
ShutClientUnlessEof ==
  /\ pc = "relay" /\ relay.targetEof /\ relay.toClient = relay.replies /\ ~relay.clientShut
  /\ ~eof
  /\ relay' = [relay EXCEPT !.clientShut = TRUE]
  /\ UNCHANGED <<conf, client, pc, buffer, http, up>>

ShutClient ==
  /\ pc = "relay" /\ relay.targetEof /\ relay.toClient = relay.replies /\ ~relay.clientShut
  /\ relay' = [relay EXCEPT !.clientShut = TRUE]
  /\ UNCHANGED <<conf, client, pc, buffer, http, up>>

\* mutant: the relay ends with either direction.
RelayEndsWithEither ==
  /\ pc = "relay" /\ (relay.targetShut \/ relay.clientShut)
  /\ Close("relayed")
  /\ UNCHANGED <<conf, client, buffer, http, relay>>

RelayEnds ==
  /\ pc = "relay" /\ relay.targetShut /\ relay.clientShut
  /\ Close("relayed")
  /\ UNCHANGED <<conf, client, buffer, http, relay>>

\* An error of either stream.
RelayFails ==
  /\ pc = "relay"
  /\ Close("failed")
  /\ UNCHANGED <<conf, client, buffer, http, relay>>

----------------------------------------------------------------------------

HyperStep  == TlsAccept \/ Read \/ ReadBody \/ BodyBreaks \/ TakeRequest \/ ServeEof
              \/ Drained \/ ResponseBreaksOff \/ ParseError \/ ServeAgain

HandleStep == ApplyToRequest \/ Forward \/ RefuseHost \/ ApplyToResponse \/ Deliver

RelayStep  == BindAndConnect \/ Replay \/ RelayToTarget \/ ShutTarget \/ RelayToClient
              \/ ShutClient \/ RelayEnds

Environment == ClientSends \/ ClientCloses \/ TargetReplies \/ Cancel \/ RelayFails

TargetStep == \/ TargetAnswers \/ TargetSendsBody \/ TargetDropsBody \/ TargetCloses
              \/ UpstreamCloses

\* Nothing is left to happen.
Ended ==
  /\ ~Open /\ up = "none"
  /\ UNCHANGED vars

Next == HyperStep \/ HandleStep \/ RelayStep \/ Environment \/ TargetStep \/ Ended

Spec == Init /\ [][Next]_vars

\* The runtime polls the task.  The target answers a request it has all of, or
\* fails, and so with the body of its response.  Clients owe nothing: what a
\* property expects of them is its premise.
Fairness ==
  /\ WF_vars(HyperStep) /\ WF_vars(HandleStep) /\ WF_vars(RelayStep)
  /\ WF_vars(ex.fromClient # "coming" /\ TargetAnswers)
  /\ WF_vars(TargetSendsBody) /\ WF_vars(UpstreamCloses)

FairSpec == Spec /\ Fairness

----------------------------------------------------------------------------
(* Properties.                                                             *)

TypeOK ==
  /\ stream \in Streams
  /\ sent \in 0 .. Len(stream) /\ eof \in BOOLEAN
  /\ pc \in {"handshake", "http", "parts"} \cup ExchangePc \cup RelayPc \cup ClosedPc
  /\ read \in 0 .. sent /\ base \in 0 .. read /\ skipped \subseteq 1 .. base
  /\ bodies \subseteq 1 .. base
  /\ ex.at \in 0 .. base
  /\ ex.fromClient \in {"whole", "coming", "broken", "dropped"}
  /\ ex.fromTarget \in {"whole", "coming", "broken"}
  /\ up \in {"none", "open", "closing"}
  /\ taken \in Seq(1 .. base)
  /\ relay \in [from : 0 .. base, toTarget : Seq(1 .. base), targetShut : BOOLEAN,
                 replies : 0 .. MaxReplies, toClient : 0 .. MaxReplies,
                 targetEof : BOOLEAN, clientShut : BOOLEAN]

Span(p) ==
  CASE Kind(p) = "start" -> {p, p + 1}
    [] Kind(p) = "head"  -> {p} \cup ({p + 1} \cap bodies)
    [] OTHER             -> {p}

\* server.rs 143-173: every byte of the client is consumed once and in order: as
\* part of one request, or written to the target by the relay, first what hyper
\* had read and then what it had not; or it was in a read_buf the loop dropped.
StreamAccounted ==
  LET inRequests == UNION {Span(p) : p \in ToSet(taken)}
  IN /\ \A i, j \in DOMAIN taken : i < j => taken[i] < taken[j]
     /\ relay.toTarget = [i \in 1 .. Len(relay.toTarget) |-> relay.from + i]
     /\ 1 .. base = inRequests \cup skipped \cup ToSet(relay.toTarget)
     /\ inRequests \cap skipped = {}
     /\ \A p \in inRequests \cup skipped : relay.toTarget # <<>> => p <= relay.from

\* How a connection ends that owes an answer.
Unanswered == {"aborted", "cancelled", "truncated"}

\* server.rs 228-330: requests reach the target at most once and in order, and
\* the n-th response the client gets answers its n-th request; one request at
\* most stays without an answer, the one after which the connection ended.
AnswersInOrder ==
  /\ [i \in DOMAIN answers |-> answers[i].at] = SubSeq(taken, 1, Len(answers))
  /\ Len(taken) = Len(answers) + (IF pc \in ServePc \cup Unanswered THEN 1 ELSE 0)
  /\ \A i, j \in DOMAIN forwarded : i < j => forwarded[i].at < forwarded[j].at
  /\ \A i \in DOMAIN forwarded : forwarded[i].at \in ToSet(taken)

RequestActions(at) == ActionsOf(SelectedRequestRules(stream[at].request))
Ruled(at)          == MeantRequest(RequestActions(at), stream[at].request)

ResponseActions(request, served) == ActionsOf(SelectedResponseRules(request, served))
RuledResponse(request, served)   == MeantResponse(ResponseActions(request, served), served)

\* server.rs 232-248, action.rs 53-62: the target receives what the rules that
\* match the original request mean together, and nothing of a request they
\* abort; a body they have a say in not before all of it is there.
ForwardedAsRuled ==
  \A i \in DOMAIN forwarded :
    /\ forwarded[i].request = Ruled(forwarded[i].at)
    /\ forwarded[i].streamed => ~ChangesBody(RequestActions(forwarded[i].at))

\* server.rs 250-252, 296-328: the client receives what the rules that match the
\* forwarded request and the served response, or the 502 in its place, mean.
AnsweredAsRuled ==
  \A i \in DOMAIN answers :
    /\ answers[i].request = Ruled(answers[i].at)
    /\ answers[i].response = RuledResponse(answers[i].request, answers[i].served)

\* server.rs 246, 327, action.rs 53-62: a connection is aborted only by rules:
\* for its last request they mean an error, or for the response to it; or they
\* look into the body of either and it broke off; or by the Host header they
\* left or made.
AbortedAsRuled ==
  pc = "aborted" =>
    LET at == Last(taken)
    IN IF ex.served = Err
         THEN \/ Ruled(at) = Err \/ ~HasAuthority(Ruled(at))
              \/ ex.fromClient = "broken" /\ LooksAtBody(RequestActions(at))
         ELSE \/ RuledResponse(ex.request, ex.served) = Err
              \/ ex.fromTarget = "broken" /\ LooksAtBody(ResponseActions(ex.request, ex.served))

\* action.rs 90-118, 223-244: a message that came with the Content-Length of its
\* body goes out with that of its body or with none, whatever sequence of rules
\* has changed it.
LengthTrue ==
  /\ \A i \in DOMAIN forwarded :
       TrueLength(stream[forwarded[i].at].request) => TrueLength(forwarded[i].request)
  /\ \A i \in DOMAIN answers :
       TrueLength(answers[i].served) => TrueLength(answers[i].response)

\* server.rs:169: a relay that returns Ok has carried everything either side sent
\* before it closed.
RelayedWhole ==
  pc = "relayed" =>
    /\ eof /\ relay.from + Len(relay.toTarget) = sent
    /\ relay.targetEof /\ relay.toClient = relay.replies

\* server.rs 228-330, action.rs 53-62: each request is answered, aborted or given
\* up, if the target answers or fails, and if a client whose request has a body
\* sends it or closes: a rule waits for it as long as it takes, and the target
\* is not asked before.
ClientFinishes  == ex.fromClient = "coming" /\ (ClientSends \/ ClientCloses)
RequestResolved == WF_vars(ClientFinishes) => ((pc \in ServePc) ~> (pc \notin ServePc))

\* server.rs 165-168: what the parser has refused reaches the target without waiting for more, or
\* the connection ends.
JunkReachesTarget == (pc = "bind") ~> (pc = "relay" \/ ~Open)

\* server.rs:169: the end of the client's stream is passed on, also while the
\* target keeps its side open.
HalfClosePassedOn == (pc = "relay" /\ eof) ~> (relay.targetShut \/ ~Open)

\* server.rs 128-173: after the client has closed, both connections end and no
\* descriptor is kept, if a target that is relayed to closes its side as well.
ConnectionEnds == WF_vars(TargetCloses) => (eof ~> (~Open /\ up = "none"))

\* raw_config.rs 109: "append headers by key-value".  Every pair a rule lists is
\* in the message it was applied to.  (Stated of configurations of one rule
\* for requests that selects all of them.)
PatchHeadersAppended ==
  \A raw \in RawConfigs : \A i \in DOMAIN forwarded :
    config = Convert(raw) =>
      \A p \in raw.rules[1].actions.patch : \A list \in p.headers : \A k \in DOMAIN list :
        list[k][2] \in ToSet(forwarded[i].request.headers[list[k][1]])
=============================================================================
