------------------------ MODULE HttpConnectionProofs ------------------------
(***************************************************************************)
(* Proofs about HttpConnection for all streams, rules, responses and       *)
(* bounds: its types, the account of the client's stream and the           *)
(* completeness of a relay that ends well.                                 *)
(***************************************************************************)
EXTENDS HttpConnection, TLAPS

----------------------------------------------------------------------------
(* Sequences.                                                              *)

LEMMA ToSetAppend ==
  ASSUME NEW S, NEW s \in Seq(S), NEW x \in S
  PROVE  ToSet(Append(s, x)) = ToSet(s) \cup {x}
<1>1. DOMAIN Append(s, x) = DOMAIN s \cup {Len(s) + 1}
  OBVIOUS
<1>2. Append(s, x)[Len(s) + 1] = x /\ \A i \in DOMAIN s : Append(s, x)[i] = s[i]
  OBVIOUS
<1> QED
  BY <1>1, <1>2 DEF ToSet

LEMMA SeqOfMore ==
  ASSUME NEW m \in Nat, NEW n \in Nat, m <= n, NEW s \in Seq(1 .. m)
  PROVE  s \in Seq(1 .. n)
OBVIOUS

LEMMA RangeOfInterval ==
  ASSUME NEW n \in Nat, NEW b \in Nat
  PROVE  ToSet([i \in 1 .. n |-> b + i]) = b + 1 .. b + n
<1> DEFINE s == [i \in 1 .. n |-> b + i]
<1>1. ToSet(s) \subseteq b + 1 .. b + n
  BY DEF ToSet
<1>2. ASSUME NEW x \in b + 1 .. b + n PROVE x \in ToSet(s)
  <2>1. x - b \in 1 .. n /\ s[x - b] = x
    OBVIOUS
  <2> QED
    BY <2>1 DEF ToSet
<1> QED
  BY <1>1, <1>2

LEMMA IntervalAsSequence ==
  ASSUME NEW n \in Nat, NEW b \in Nat, NEW m \in Nat, b + n <= m
  PROVE  /\ [i \in 1 .. n |-> b + i] \in Seq(1 .. m)
         /\ Len([i \in 1 .. n |-> b + i]) = n
         /\ <<>> \o [i \in 1 .. n |-> b + i] = [i \in 1 .. n |-> b + i]
OBVIOUS

LEMMA IntervalAppend ==
  ASSUME NEW n \in Nat, NEW b \in Nat
  PROVE  Append([i \in 1 .. n |-> b + i], b + n + 1) = [i \in 1 .. n + 1 |-> b + i]
OBVIOUS

----------------------------------------------------------------------------
(* The inductive invariant.                                                *)

\* A relay writes what follows the segments HTTP has consumed.
Consumed   == base - Len(relay.toTarget)
InRequests == UNION {Span(p) : p \in ToSet(taken)}

\* ex is a record of these fields, whatever the requests and responses are.
ExchangeShape ==
  ex = [f \in {"at", "request", "served", "response", "todo", "fromClient", "fromTarget"} |-> ex[f]]

BodiesTyped ==
  /\ ex.fromClient \in {"whole", "coming", "broken", "dropped"}
  /\ ex.fromTarget \in {"whole", "coming", "broken"}

BeforeRelay == {"handshake", "http", "parts", "bind"} \cup ExchangePc

PhaseInv ==
  /\ pc \in BeforeRelay => relay = NoRelay
  /\ pc = "replay" => relay = [NoRelay EXCEPT !.from = base]
  /\ pc \in {"relay", "relayed"} => base = read /\ relay.from = Consumed
  /\ pc = "relayed" => relay.targetShut /\ relay.clientShut

ShutInv ==
  /\ relay.targetShut => eof /\ read = sent /\ base = read
  /\ relay.clientShut => relay.targetEof /\ relay.toClient = relay.replies

StreamInv ==
  /\ \A i, j \in DOMAIN taken : i < j => taken[i] < taken[j]
  /\ Len(relay.toTarget) <= base
  /\ relay.toTarget = [i \in 1 .. Len(relay.toTarget) |-> Consumed + i]
  /\ InRequests \cup skipped = 1 .. Consumed
  /\ InRequests \cap skipped = {}
  /\ relay.toTarget # <<>> => relay.from = Consumed

\* What comes next, while the body of a request is not there, is that body.
BodyInv ==
  pc \in ExchangePc /\ ex.fromClient # "whole" =>
    base = ex.at /\ Kind(ex.at) = "head" /\ ex.at \in ToSet(taken)

HInv == TypeOK /\ ExchangeShape /\ PhaseInv /\ ShutInv /\ StreamInv /\ BodyInv

RelayType(b) == [from : 0 .. b, toTarget : Seq(1 .. b), targetShut : BOOLEAN,
                 replies : 0 .. MaxReplies, toClient : 0 .. MaxReplies,
                 targetEof : BOOLEAN, clientShut : BOOLEAN]

LEMMA Lengths ==
  ASSUME TypeOK
  PROVE  /\ Len(stream) \in Nat /\ sent \in Nat /\ read \in Nat /\ base \in Nat
         /\ Len(relay.toTarget) \in Nat
         /\ base <= read /\ read <= sent /\ sent <= Len(stream)
         /\ relay \in RelayType(base)
BY ConnectionAssumption DEF TypeOK, RelayType

----------------------------------------------------------------------------
(* Initially.                                                              *)

LEMMA InitHInv == Init => HInv
<1> SUFFICES ASSUME Init PROVE HInv
  OBVIOUS
<1> USE DEF Init
<1>1. Len(stream) \in Nat
  BY ConnectionAssumption
<1>2. NoRelay \in RelayType(0)
  BY ConnectionAssumption DEF NoRelay, RelayType
<1>3. pc \in {"handshake", "http"}
  OBVIOUS
<1>4. TypeOK
  <2>1. relay \in RelayType(base)
    BY <1>2
  <2>2. /\ sent \in 0 .. Len(stream) /\ read \in 0 .. sent /\ base \in 0 .. read
        /\ skipped \subseteq 1 .. base /\ bodies \subseteq 1 .. base
        /\ taken \in Seq(1 .. base) /\ ex.at \in 0 .. base
        /\ ex.fromClient = "whole" /\ ex.fromTarget = "whole"
    BY <1>1 DEF NoExchange
  <2> QED
    BY <1>3, <2>1, <2>2 DEF TypeOK, RelayType
<1>5. ExchangeShape
  BY DEF ExchangeShape, NoExchange
<1>6. PhaseInv /\ ShutInv
  BY <1>3 DEF PhaseInv, ShutInv, NoRelay
<1>7. InRequests = {} /\ Consumed = 0
  <2>1. ToSet(taken) = {}
    BY DEF ToSet
  <2>2. Len(relay.toTarget) = 0
    BY DEF NoRelay
  <2> QED
    BY <2>1, <2>2 DEF InRequests, Consumed
<1>8. StreamInv
  BY <1>7 DEF StreamInv, NoRelay
<1>9. BodyInv
  BY <1>3 DEF BodyInv, ExchangePc, ServePc
<1> QED
  BY <1>4, <1>5, <1>6, <1>8, <1>9 DEF HInv

----------------------------------------------------------------------------
(* Steps that leave the stream, its account and the relay alone.           *)

AllPc == {"handshake", "http", "parts"} \cup ExchangePc \cup RelayPc \cup ClosedPc
UpStates == {"none", "open", "closing"}

\* Where such a step may lead: nowhere, on to a place before the relay, or to the end.
Onward ==
  \/ pc' = pc
  \/ /\ pc' \in BeforeRelay \cup (ClosedPc \ {"relayed"})
     /\ pc' \in BeforeRelay => pc \in BeforeRelay

Still == UNCHANGED <<stream, sent, eof, read, base, skipped, bodies, taken, relay>>

\* The exchange is over, or goes on with as much of the request's body as there was.
BodyGoesOn ==
  /\ ExchangeShape' /\ BodiesTyped' /\ ex'.at \in {0, ex.at}
  /\ pc' \in ExchangePc /\ ex'.fromClient # "whole" =>
       pc \in ExchangePc /\ ex.fromClient # "whole" /\ ex'.at = ex.at

LEMMA StreamKept ==
  ASSUME StreamInv, UNCHANGED <<stream, base, skipped, bodies, taken>>,
         relay'.toTarget = relay.toTarget, relay'.from = relay.from
  PROVE  StreamInv'
<1>1. Consumed' = Consumed /\ InRequests' = InRequests
  BY DEF Consumed, InRequests, Span, Kind
<1> QED
  BY <1>1 DEF StreamInv

LEMMA StillKeeps ==
  ASSUME HInv, Still, Onward, BodyGoesOn, up' \in UpStates
  PROVE  HInv'
<1> USE DEF HInv, Still
<1>1. TypeOK'
  <2>1. pc' \in AllPc
    BY DEF Onward, TypeOK, AllPc, BeforeRelay, RelayPc, ExchangePc
  <2>2. ex'.at \in 0 .. base'
    BY Lengths DEF TypeOK, BodyGoesOn
  <2> QED
    BY <2>1, <2>2 DEF TypeOK, AllPc, UpStates, BodyGoesOn, BodiesTyped
<1>2. PhaseInv'
  <2>1. CASE pc' = pc
    BY <2>1 DEF PhaseInv, Consumed
  <2>2. CASE pc' # pc
    <3>1. pc' \notin {"replay", "relay", "relayed"} /\ (pc' \in BeforeRelay => pc \in BeforeRelay)
      BY <2>2 DEF Onward, BeforeRelay, ExchangePc, ServePc, ClosedPc
    <3> QED
      BY <3>1 DEF PhaseInv
  <2> QED
    BY <2>1, <2>2
<1>3. ShutInv'
  BY DEF ShutInv
<1>4. StreamInv'
  BY StreamKept
<1>5. BodyInv'
  BY DEF BodyInv, BodyGoesOn, Kind
<1> QED
  BY <1>1, <1>2, <1>3, <1>4, <1>5 DEF BodyGoesOn

LEMMA CloseUp ==
  ASSUME TypeOK, NEW how, Close(how)
  PROVE  pc' = how /\ up' \in UpStates
BY DEF Close, TypeOK, UpStates

LEMMA ExchangeKept ==
  ASSUME ExchangeShape, ex' = ex
  PROVE  ExchangeShape' /\ ex'.at = ex.at
BY DEF ExchangeShape

\* An exchange that is left alone, or that is over.
LEMMA BodyKept ==
  ASSUME HInv, \/ ex' = ex /\ (pc' \in ExchangePc => pc \in ExchangePc)
               \/ ex' = NoExchange
  PROVE  BodyGoesOn
<1>1. ExchangeShape /\ BodiesTyped
  BY DEF HInv, TypeOK, BodiesTyped
<1>2. CASE ex' = ex /\ (pc' \in ExchangePc => pc \in ExchangePc)
  BY <1>1, <1>2, ExchangeKept DEF BodyGoesOn, BodiesTyped
<1>3. CASE ex' = NoExchange
  <2>1. ExchangeShape'
    BY <1>3 DEF ExchangeShape, NoExchange
  <2>2. ex'.fromClient = "whole" /\ ex'.fromTarget = "whole" /\ ex'.at = 0
    BY <1>3 DEF NoExchange
  <2> QED
    BY <2>1, <2>2 DEF BodyGoesOn, BodiesTyped
<1> QED
  BY <1>2, <1>3

----------------------------------------------------------------------------
(* What the steps of an exchange make of it.                               *)

LEMMA RequestChanged ==
  ASSUME ExchangeShape, NEW a, NEW d, NEW e,
         ex' = [ex EXCEPT !.request = a, !.todo = d, !.fromClient = e]
  PROVE  /\ ExchangeShape' /\ ex'.request = a /\ ex'.todo = d /\ ex'.fromClient = e
         /\ ex'.at = ex.at /\ ex'.served = ex.served /\ ex'.response = ex.response
         /\ ex'.fromTarget = ex.fromTarget
BY DEF ExchangeShape

LEMMA ResponseChanged ==
  ASSUME ExchangeShape, NEW b, NEW d, NEW e,
         ex' = [ex EXCEPT !.response = b, !.todo = d, !.fromTarget = e]
  PROVE  /\ ExchangeShape' /\ ex'.response = b /\ ex'.todo = d /\ ex'.fromTarget = e
         /\ ex'.at = ex.at /\ ex'.served = ex.served /\ ex'.request = ex.request
         /\ ex'.fromClient = ex.fromClient
BY DEF ExchangeShape

\* The body of a message, or its end, that a rule has waited for.
Waits(a, body)  == ReadsRequestBody(a) /\ body = "coming"
Breaks(a, body) == ReadsRequestBody(a) /\ body = "broken"
BodyAfter(a, body) == IF ReplacesBody(a) THEN Unwanted(body) ELSE body

LEMMA ApplyToRequestDoes ==
  ASSUME HInv, ApplyToRequest,
         NEW a, a = Head(ex.todo).actions,
         NEW result, result = ApplyRequestAction(ex.request, a)
  PROVE  /\ pc = "request" /\ ex.todo # <<>> /\ ~Waits(a, ex.fromClient)
         /\ UNCHANGED <<config, stream, sent, eof, read, base, skipped, bodies, relay>>
         /\ UNCHANGED <<taken, forwarded, answers>>
         /\ \/ /\ result = Err \/ Breaks(a, ex.fromClient)
               /\ pc' = "aborted" /\ ex' = ex /\ up' \in UpStates
            \/ /\ result # Err /\ ~Breaks(a, ex.fromClient)
               /\ pc' = pc /\ up' \in UpStates /\ ExchangeShape'
               /\ ex'.at = ex.at /\ ex'.served = ex.served /\ ex'.request = result
               /\ ex'.todo = Tail(ex.todo) /\ ex'.response = ex.response
               /\ ex'.fromClient = BodyAfter(a, ex.fromClient)
               /\ ex'.fromTarget = ex.fromTarget
<1>1. /\ pc = "request" /\ ex.todo # <<>> /\ ~Waits(a, ex.fromClient)
      /\ UNCHANGED <<config, stream, sent, eof, read, base, skipped, bodies, relay>>
      /\ UNCHANGED <<taken, forwarded, answers>>
  BY DEF ApplyToRequest, Waits, conf, client, buffer
<1>2. \/ (result = Err \/ Breaks(a, ex.fromClient)) /\ Close("aborted") /\ UNCHANGED ex
      \/ /\ result # Err /\ ~Breaks(a, ex.fromClient)
         /\ ex' = [ex EXCEPT !.request = result, !.todo = Tail(@),
                             !.fromClient = BodyAfter(a, @)]
         /\ UNCHANGED <<pc, up>>
  BY Zenon DEF ApplyToRequest, Breaks, BodyAfter
<1>3. up \in UpStates
  BY DEF HInv, TypeOK, UpStates
<1>4. CASE (result = Err \/ Breaks(a, ex.fromClient)) /\ Close("aborted") /\ UNCHANGED ex
  BY <1>1, <1>4, CloseUp DEF HInv
<1>5. CASE /\ result # Err /\ ~Breaks(a, ex.fromClient)
           /\ ex' = [ex EXCEPT !.request = result, !.todo = Tail(@),
                               !.fromClient = BodyAfter(a, @)]
           /\ UNCHANGED <<pc, up>>
  <2> DEFINE todo == Tail(ex.todo)
             body == BodyAfter(a, ex.fromClient)
  <2>1. ex' = [ex EXCEPT !.request = result, !.todo = todo, !.fromClient = body]
    BY <1>5
  <2> HIDE DEF todo, body
  <2>2. /\ ExchangeShape' /\ ex'.request = result /\ ex'.todo = todo /\ ex'.fromClient = body
        /\ ex'.at = ex.at /\ ex'.served = ex.served /\ ex'.response = ex.response
        /\ ex'.fromTarget = ex.fromTarget
    BY <2>1, RequestChanged DEF HInv
  <2> QED
    BY <1>1, <1>3, <1>5, <2>2 DEF todo, body
<1> QED
  BY <1>2, <1>4, <1>5

LEMMA ApplyToResponseDoes ==
  ASSUME HInv, ApplyToResponse,
         NEW a, a = Head(ex.todo).actions,
         NEW result, result = ApplyResponseAction(ex.response, a)
  PROVE  /\ pc = "response" /\ ex.todo # <<>> /\ (ReadsBody(a) => ex.fromTarget # "coming")
         /\ UNCHANGED <<config, stream, sent, eof, read, base, skipped, bodies, relay>>
         /\ UNCHANGED <<taken, forwarded, answers>>
         /\ \/ /\ result = Err \/ (ReadsBody(a) /\ ex.fromTarget = "broken")
               /\ pc' = "aborted" /\ ex' = ex /\ up' \in UpStates
            \/ /\ result # Err /\ ~(ReadsBody(a) /\ ex.fromTarget = "broken")
               /\ pc' = pc /\ up' \in UpStates /\ ExchangeShape'
               /\ ex'.at = ex.at /\ ex'.served = ex.served /\ ex'.request = ex.request
               /\ ex'.response = result /\ ex'.todo = Tail(ex.todo)
               /\ ex'.fromTarget = (IF ReplacesBody(a) THEN "whole" ELSE ex.fromTarget)
               /\ ex'.fromClient = ex.fromClient
<1> DEFINE broken == ReadsBody(a) /\ ex.fromTarget = "broken"
           body   == IF ReplacesBody(a) THEN "whole" ELSE ex.fromTarget
           todo   == Tail(ex.todo)
<1>1. /\ pc = "response" /\ ex.todo # <<>> /\ (ReadsBody(a) => ex.fromTarget # "coming")
      /\ UNCHANGED <<config, stream, sent, eof, read, base, skipped, bodies, relay>>
      /\ UNCHANGED <<taken, forwarded, answers>>
  BY DEF ApplyToResponse, conf, client, buffer
<1>2. \/ (result = Err \/ broken) /\ Close("aborted") /\ UNCHANGED ex
      \/ /\ result # Err /\ ~broken
         /\ ex' = [ex EXCEPT !.response = result, !.todo = todo, !.fromTarget = body]
         /\ UNCHANGED <<pc, up>>
  BY Zenon DEF ApplyToResponse
<1>3. up \in UpStates
  BY DEF HInv, TypeOK, UpStates
<1> HIDE DEF broken, body, todo
<1>4. CASE (result = Err \/ broken) /\ Close("aborted") /\ UNCHANGED ex
  BY <1>1, <1>4, CloseUp DEF HInv, broken
<1>5. CASE /\ result # Err /\ ~broken
           /\ ex' = [ex EXCEPT !.response = result, !.todo = todo, !.fromTarget = body]
           /\ UNCHANGED <<pc, up>>
  <2>1. /\ ExchangeShape' /\ ex'.response = result /\ ex'.todo = todo /\ ex'.fromTarget = body
        /\ ex'.at = ex.at /\ ex'.served = ex.served /\ ex'.request = ex.request
        /\ ex'.fromClient = ex.fromClient
    BY <1>5, ResponseChanged DEF HInv
  <2> QED
    BY <1>1, <1>3, <1>5, <2>1 DEF todo, body, broken
<1> QED
  BY <1>2, <1>4, <1>5

\* The target's response m, or the 502 in its place.
ServedIs(m) ==
  /\ ExchangeShape' /\ ex'.served = m /\ ex'.response = m
  /\ ex'.todo = SelectedResponseRules(ex.request, m)
  /\ ex'.at = ex.at /\ ex'.request = ex.request
  /\ ex'.fromTarget \in {ex.fromTarget, BodyToCome(m)}
  /\ ex'.fromClient \in {ex.fromClient, Unwanted(ex.fromClient)}

LEMMA ServedDoes ==
  ASSUME ExchangeShape
  PROVE  /\ \A m : Served(m) => ServedIs(m)
         /\ NotServed => ServedIs(BadGateway)
<1>1. ASSUME NEW m, Served(m) PROVE ServedIs(m)
  <2> DEFINE todo == SelectedResponseRules(ex.request, m)
             body == BodyToCome(m)
  <2>1. ex' = [ex EXCEPT !.served = m, !.response = m, !.todo = todo, !.fromTarget = body]
    BY <1>1 DEF Served
  <2> HIDE DEF todo, body
  <2>2. /\ ExchangeShape' /\ ex'.served = m /\ ex'.response = m /\ ex'.todo = todo
        /\ ex'.at = ex.at /\ ex'.request = ex.request
        /\ ex'.fromTarget = body /\ ex'.fromClient = ex.fromClient
    BY <2>1 DEF ExchangeShape
  <2> QED
    BY <2>2 DEF ServedIs, todo, body
<1>2. ASSUME NotServed PROVE ServedIs(BadGateway)
  <2> DEFINE todo == SelectedResponseRules(ex.request, BadGateway)
             body == Unwanted(ex.fromClient)
  <2>1. ex' = [ex EXCEPT !.served = BadGateway, !.response = BadGateway, !.todo = todo,
                         !.fromClient = body]
    BY <1>2 DEF NotServed
  <2> HIDE DEF todo, body
  <2>2. /\ ExchangeShape' /\ ex'.served = BadGateway /\ ex'.response = BadGateway
        /\ ex'.todo = todo /\ ex'.at = ex.at /\ ex'.request = ex.request
        /\ ex'.fromTarget = ex.fromTarget /\ ex'.fromClient = body
    BY <2>1 DEF ExchangeShape
  <2> QED
    BY <2>2 DEF ServedIs, todo, body
<1> QED
  BY <1>1, <1>2

\* A body moves, the exchange does not.
BodyMoves ==
  /\ ExchangeShape' /\ ex'.at = ex.at /\ ex'.request = ex.request
  /\ ex'.served = ex.served /\ ex'.response = ex.response /\ ex'.todo = ex.todo
  /\ \/ /\ ex'.fromTarget = ex.fromTarget
        /\ \/ ex.fromClient = "coming" /\ ex'.fromClient \in {"broken", "dropped", "whole"}
           \/ ex.fromClient = "dropped" /\ ex'.fromClient = "whole"
     \/ /\ ex'.fromClient = ex.fromClient
        /\ ex.fromTarget = "coming" /\ ex'.fromTarget \in {"whole", "broken"}

LEMMA BodyStepDoes ==
  ASSUME HInv, ReadBody \/ BodyBreaks \/ TargetSendsBody \/ TargetDropsBody
  PROVE  /\ BodyMoves /\ pc \in ExchangePc
         /\ UNCHANGED <<pc, up, config, stream, sent, eof, read, skipped, relay>>
         /\ UNCHANGED <<taken, forwarded, answers>>
         /\ BodyBreaks \/ TargetSendsBody \/ TargetDropsBody => UNCHANGED <<base, bodies>>
         /\ pc = "wait" => ex'.fromTarget = ex.fromTarget
<1>1. /\ pc \in ExchangePc
      /\ UNCHANGED <<pc, up, config, stream, sent, eof, read, skipped, relay>>
      /\ UNCHANGED <<taken, forwarded, answers>>
      /\ BodyBreaks \/ TargetSendsBody \/ TargetDropsBody => UNCHANGED <<base, bodies>>
  BY DEF ReadBody, BodyBreaks, TargetSendsBody, TargetDropsBody, conf, client, buffer,
         ExchangePc, ServePc
<1>2. CASE ReadBody
  <2>1. ex' = [ex EXCEPT !.fromClient = "whole"] /\ ex.fromClient \in {"coming", "dropped"}
    BY <1>2 DEF ReadBody
  <2> QED
    BY <1>1, <2>1 DEF HInv, ExchangeShape, BodyMoves
<1>3. CASE BodyBreaks
  <2>1. ex' = [ex EXCEPT !.fromClient = "broken"] /\ ex.fromClient = "coming"
    BY <1>3 DEF BodyBreaks
  <2> QED
    BY <1>1, <2>1 DEF HInv, ExchangeShape, BodyMoves
<1>4. CASE TargetSendsBody
  <2>1. PICK e \in {"whole", "broken"} : ex' = [ex EXCEPT !.fromTarget = e]
    BY <1>4 DEF TargetSendsBody
  <2>2. ex.fromTarget = "coming" /\ pc # "wait"
    BY <1>4 DEF TargetSendsBody
  <2> QED
    BY <1>1, <2>1, <2>2 DEF HInv, ExchangeShape, BodyMoves
<1>5. CASE TargetDropsBody
  <2>1. ex' = [ex EXCEPT !.fromClient = "dropped"] /\ ex.fromClient = "coming"
    BY <1>5 DEF TargetDropsBody
  <2> QED
    BY <1>1, <2>1 DEF HInv, ExchangeShape, BodyMoves
<1> QED
  BY <1>2, <1>3, <1>4, <1>5

LEMMA QuietStep ==
  ASSUME HInv,
         \/ UpstreamCloses \/ TlsAccept \/ ServeEof \/ Cancel \/ ParseError \/ RelayFails
         \/ RefuseHost \/ Drained \/ ResponseBreaksOff \/ UNCHANGED vars
  PROVE  HInv'
<1> USE DEF HInv
<1>1. Still /\ (ex' = ex \/ ex' = NoExchange)
  BY DEF UpstreamCloses, TlsAccept, ServeEof, Cancel, ParseError, RelayFails, RefuseHost,
         Drained, EndExchange, ResponseBreaksOff, Still, vars, conf, client, buffer, http
<1>2. Onward /\ up' \in UpStates /\ (pc' \in ExchangePc => pc \in ExchangePc)
  <2> USE DEF ExchangePc, ServePc, Onward, UpStates, TypeOK, BeforeRelay, ClosedPc
  <2>1. CASE UpstreamCloses
    BY <2>1 DEF UpstreamCloses
  <2>2. CASE TlsAccept
    BY <2>2 DEF TlsAccept, Close
  <2>3. CASE ServeEof
    BY <2>3 DEF ServeEof, Close
  <2>4. CASE Cancel
    BY <2>4 DEF Cancel, Close
  <2>5. CASE ParseError
    BY <2>5 DEF ParseError, Close
  <2>6. CASE RelayFails
    BY <2>6 DEF RelayFails, Close
  <2>7. CASE RefuseHost
    BY <2>7 DEF RefuseHost, Close
  <2>8. CASE Drained
    <3>1. pc = "drain" /\ pc' \in {"http", "closed"} /\ up' \in UpStates
      BY <2>8 DEF Drained, EndExchange, Close
    <3> QED
      BY <3>1
  <2>9. CASE ResponseBreaksOff
    BY <2>9 DEF ResponseBreaksOff, Close
  <2>10. CASE UNCHANGED vars
    BY <2>10 DEF vars
  <2> QED
    BY <2>1, <2>2, <2>3, <2>4, <2>5, <2>6, <2>7, <2>8, <2>9, <2>10
<1> QED
  BY <1>1, <1>2, BodyKept, StillKeeps

LEMMA ApplyKeeps ==
  ASSUME HInv, ApplyToRequest \/ ApplyToResponse
  PROVE  HInv'
<1>1. Still /\ pc \in ServePc /\ pc' \in {pc, "aborted"} /\ up' \in UpStates /\ BodyGoesOn
  <2>1. CASE ApplyToRequest
    <3> DEFINE a == Head(ex.todo).actions
               result == ApplyRequestAction(ex.request, a)
    <3> HIDE DEF a, result
    <3>1. a = Head(ex.todo).actions /\ result = ApplyRequestAction(ex.request, a)
      BY DEF a, result
    <3>2. Still /\ pc = "request" /\ up' \in UpStates
      BY <2>1, <3>1, ApplyToRequestDoes DEF Still
    <3>3. \/ pc' = "aborted" /\ ex' = ex
          \/ /\ pc' = pc /\ ExchangeShape' /\ ex'.at = ex.at
             /\ ex'.fromClient = BodyAfter(a, ex.fromClient) /\ ex'.fromTarget = ex.fromTarget
      BY <2>1, <3>1, ApplyToRequestDoes
    <3>4. BodyGoesOn
      <4>1. CASE pc' = "aborted" /\ ex' = ex
        BY <4>1, BodyKept DEF ExchangePc, ServePc
      <4>2. CASE /\ pc' = pc /\ ExchangeShape' /\ ex'.at = ex.at
                 /\ ex'.fromClient = BodyAfter(a, ex.fromClient)
                 /\ ex'.fromTarget = ex.fromTarget
        <5>1. /\ ex'.fromClient \in {"whole", "coming", "broken", "dropped"}
              /\ ex'.fromClient # "whole" => ex.fromClient # "whole"
          BY <4>2 DEF BodyAfter, Unwanted, HInv, TypeOK
        <5> QED
          BY <4>2, <5>1 DEF BodyGoesOn, BodiesTyped, HInv, TypeOK
      <4> QED
        BY <3>3, <4>1, <4>2
    <3> QED
      BY <3>2, <3>3, <3>4 DEF ServePc
  <2>2. CASE ApplyToResponse
    <3> DEFINE a == Head(ex.todo).actions
               result == ApplyResponseAction(ex.response, a)
    <3> HIDE DEF a, result
    <3>1. a = Head(ex.todo).actions /\ result = ApplyResponseAction(ex.response, a)
      BY DEF a, result
    <3>2. Still /\ pc = "response" /\ up' \in UpStates
      BY <2>2, <3>1, ApplyToResponseDoes DEF Still
    <3>3. \/ pc' = "aborted" /\ ex' = ex
          \/ /\ pc' = pc /\ ExchangeShape' /\ ex'.at = ex.at
             /\ ex'.fromTarget \in {"whole", ex.fromTarget} /\ ex'.fromClient = ex.fromClient
      BY <2>2, <3>1, ApplyToResponseDoes
    <3>4. BodyGoesOn
      <4>1. CASE pc' = "aborted" /\ ex' = ex
        BY <4>1, BodyKept DEF ExchangePc, ServePc
      <4>2. CASE /\ pc' = pc /\ ExchangeShape' /\ ex'.at = ex.at
                 /\ ex'.fromTarget \in {"whole", ex.fromTarget}
                 /\ ex'.fromClient = ex.fromClient
        BY <4>2 DEF BodyGoesOn, BodiesTyped, HInv, TypeOK
      <4> QED
        BY <3>3, <4>1, <4>2
    <3> QED
      BY <3>2, <3>3, <3>4 DEF ServePc
  <2> QED
    BY <2>1, <2>2
<1>2. Onward
  BY <1>1 DEF Onward, ClosedPc, BeforeRelay, ExchangePc, ServePc
<1> QED
  BY <1>1, <1>2, StillKeeps

\* The response m has been served.
LEMMA ServedGoesOn ==
  ASSUME HInv, NEW m, ServedIs(m), pc \in ServePc
  PROVE  BodyGoesOn
<1>1. BodyToCome(m) \in {"whole", "coming"}
  BY DEF BodyToCome
<1>2. BodiesTyped' /\ (ex'.fromClient # "whole" => ex.fromClient # "whole")
  BY <1>1 DEF ServedIs, BodiesTyped, Unwanted, HInv, TypeOK
<1> QED
  BY <1>2 DEF ServedIs, BodyGoesOn, ExchangePc

LEMMA HandleStepKeeps ==
  ASSUME HInv, Forward \/ TargetAnswers \/ Deliver
  PROVE  HInv'
<1> USE DEF HInv
<1>1. Still /\ pc \in ServePc
  BY DEF Forward, TargetAnswers, Deliver, Still, conf, client, buffer, ServePc
<1>2. /\ pc' \in {"wait", "response", "parts", "http", "closed", "drain"}
      /\ up' \in UpStates /\ BodyGoesOn
  <2>1. CASE Forward
    <3>1. /\ pc' \in {"wait", "response"} /\ up' \in UpStates
          /\ ex' = ex \/ NotServed
      BY <2>1 DEF Forward, UpStates, TypeOK
    <3> QED
      BY <1>1, <3>1, BodyKept, ServedDoes, ServedGoesOn DEF ExchangePc
  <2>2. CASE TargetAnswers
    <3>1. pc' = "response" /\ up' \in UpStates
      BY <2>2 DEF TargetAnswers, UpStates, TypeOK
    <3>2. \E m : ServedIs(m)
      BY <2>2, ServedDoes DEF TargetAnswers
    <3> QED
      BY <1>1, <3>1, <3>2, ServedGoesOn
  <2>3. CASE Deliver
    <3>1. /\ pc' \in {"parts", "http", "closed", "drain"} /\ up' \in UpStates
          /\ ex' = ex \/ ex' = NoExchange
      BY <2>3 DEF Deliver, EndExchange, Close, UpStates, TypeOK
    <3> QED
      BY <1>1, <3>1, BodyKept DEF ExchangePc
  <2> QED
    BY <2>1, <2>2, <2>3
<1>3. Onward
  BY <1>1, <1>2 DEF Onward, BeforeRelay, ExchangePc, ServePc, ClosedPc
<1> QED
  BY <1>1, <1>2, <1>3, StillKeeps

\* A body goes on without a step of the reader.
LEMMA BodyStepKeeps ==
  ASSUME HInv, BodyBreaks \/ TargetSendsBody \/ TargetDropsBody
  PROVE  HInv'
<1>1. Still /\ BodyMoves /\ pc' = pc /\ pc \in ExchangePc /\ up' \in UpStates
  BY BodyStepDoes DEF Still, HInv, TypeOK, UpStates
<1>2. BodyGoesOn
  BY <1>1 DEF BodyMoves, BodyGoesOn, BodiesTyped, HInv, TypeOK
<1> QED
  BY <1>1, <1>2, StillKeeps DEF Onward

----------------------------------------------------------------------------
(* Steps of the client, the reader and the flags of the relay.             *)

LEMMA ClientStepKeeps ==
  ASSUME HInv, ClientSends \/ ClientCloses \/ Read
  PROVE  HInv'
<1> USE DEF HInv
<1>1. UNCHANGED <<stream, pc, base, skipped, bodies, ex, taken, up, relay>>
  BY DEF ClientSends, ClientCloses, Read, conf, buffer, http
<1>2. /\ sent' \in sent .. Len(stream) /\ read' \in read .. sent'
      /\ eof' \in BOOLEAN
  <2>1. CASE ClientSends
    BY <2>1, Lengths DEF ClientSends, buffer, TypeOK
  <2>2. CASE ClientCloses
    BY <2>2, Lengths DEF ClientCloses, buffer
  <2>3. CASE Read
    BY <2>3, Lengths DEF Read, client, TypeOK
  <2> QED
    BY <2>1, <2>2, <2>3
<1>3. relay.targetShut => eof' = eof /\ read' = read /\ sent' = sent
  BY Lengths DEF ClientSends, ClientCloses, Read, client, buffer, ShutInv, TypeOK
<1>4. pc \in {"relay", "relayed"} => read' = read
  BY DEF ClientSends, ClientCloses, Read, buffer, ServePc, ExchangePc
<1>5. TypeOK'
  BY <1>1, <1>2, Lengths DEF TypeOK
<1>6. PhaseInv'
  BY <1>1, <1>4 DEF PhaseInv, Consumed
<1>7. ShutInv'
  BY <1>1, <1>3 DEF ShutInv
<1>8. BodyInv'
  BY <1>1 DEF BodyInv, Kind
<1> QED
  BY <1>1, <1>5, <1>6, <1>7, <1>8, StreamKept, ExchangeKept

\* The relay's progress in the other direction and its half-closes.
LEMMA RelayFlagsKeep ==
  ASSUME HInv, pc = "relay", UNCHANGED <<conf, client, pc, buffer, http, up>>,
         \/ relay' = [relay EXCEPT !.replies = @ + 1]
              /\ ~relay.targetEof /\ relay.replies < MaxReplies
         \/ relay' = [relay EXCEPT !.toClient = @ + 1] /\ relay.toClient < relay.replies
         \/ relay' = [relay EXCEPT !.targetEof = TRUE]
         \/ relay' = [relay EXCEPT !.targetShut = TRUE] /\ eof /\ read = sent
         \/ relay' = [relay EXCEPT !.clientShut = TRUE]
              /\ relay.targetEof /\ relay.toClient = relay.replies
  PROVE  HInv'
<1> USE DEF HInv
<1>1. relay \in RelayType(base)
  BY Lengths
<1>2. relay' \in RelayType(base) /\ relay'.toTarget = relay.toTarget /\ relay'.from = relay.from
  <2> USE <1>1, ConnectionAssumption DEF RelayType
  <2>1. CASE relay' = [relay EXCEPT !.replies = @ + 1] /\ relay.replies < MaxReplies
    BY <2>1
  <2>2. CASE relay' = [relay EXCEPT !.toClient = @ + 1] /\ relay.toClient < relay.replies
    <3>1. relay.toClient + 1 \in 0 .. MaxReplies
      BY <2>2
    <3> QED
      BY <2>2, <3>1
  <2>3. CASE relay' = [relay EXCEPT !.targetEof = TRUE]
    BY <2>3
  <2>4. CASE relay' = [relay EXCEPT !.targetShut = TRUE]
    BY <2>4
  <2>5. CASE relay' = [relay EXCEPT !.clientShut = TRUE]
    BY <2>5
  <2> QED
    BY <2>1, <2>2, <2>3, <2>4, <2>5
<1>3. TypeOK'
  BY <1>2 DEF TypeOK, RelayType, conf, client, buffer, http
<1>4. PhaseInv'
  BY <1>2 DEF PhaseInv, Consumed, BeforeRelay, ExchangePc, ServePc, buffer
<1>5. ShutInv'
  BY <1>1, ConnectionAssumption DEF ShutInv, PhaseInv, RelayType, client, buffer
<1>6. StreamInv'
  BY <1>2, StreamKept DEF conf, buffer, http
<1>7. BodyInv'
  BY DEF BodyInv, ExchangePc, ServePc
<1> QED
  BY <1>3, <1>4, <1>5, <1>6, <1>7, ExchangeKept DEF http

LEMMA RelayEndsKeeps ==
  ASSUME HInv, RelayEnds
  PROVE  HInv'
<1> USE DEF HInv
<1>1. /\ UNCHANGED <<conf, client, buffer, http, relay>>
      /\ pc = "relay" /\ relay.targetShut /\ relay.clientShut
      /\ pc' = "relayed" /\ up' \in UpStates
  BY CloseUp DEF RelayEnds
<1>2. TypeOK'
  BY <1>1 DEF TypeOK, UpStates, ClosedPc, conf, client, buffer, http
<1>3. PhaseInv'
  BY <1>1 DEF PhaseInv, Consumed, BeforeRelay, ExchangePc, ServePc, buffer
<1>4. ShutInv' /\ StreamInv' /\ ExchangeShape' /\ BodyInv'
  BY <1>1, StreamKept, ExchangeKept
  DEF ShutInv, BodyInv, ExchangePc, ServePc, conf, client, buffer, http
<1> QED
  BY <1>2, <1>3, <1>4

----------------------------------------------------------------------------
(* Steps that consume the stream.                                          *)

LEMMA OneOrTwo == \A n \in Nat : {n} = n .. n /\ {n, n + 1} = n .. n + 1
OBVIOUS

LEMMA MinusNone == \A n : \A b \in Nat : n = 0 => b - n = b
OBVIOUS

\* Before the relay everything consumed is in requests or skipped.
LEMMA NoneRelayed ==
  ASSUME HInv, pc \in BeforeRelay
  PROVE  /\ relay = NoRelay /\ Len(relay.toTarget) = 0 /\ Consumed = base
         /\ InRequests \cup skipped = 1 .. base
<1>1. relay = NoRelay /\ base \in Nat
  BY Lengths DEF HInv, PhaseInv
<1>2. Len(relay.toTarget) = 0
  BY <1>1 DEF NoRelay
<1> QED
  BY <1>1, <1>2 DEF HInv, StreamInv, Consumed

LEMMA TakeRequestKeeps ==
  ASSUME HInv, TakeRequest
  PROVE  HInv'
<1> USE DEF HInv
<1> DEFINE p == base + 1
<1>1. /\ UNCHANGED <<stream, sent, eof, read, skipped, bodies, up, relay>>
      /\ pc = "http" /\ pc' = "request" /\ taken' = Append(taken, p)
  BY DEF TakeRequest, conf, client
<1>2. pc \in BeforeRelay /\ pc' \in BeforeRelay
  BY <1>1 DEF BeforeRelay, ExchangePc, ServePc
<1>3. /\ relay = NoRelay /\ Len(relay.toTarget) = 0 /\ Consumed = base
      /\ InRequests \cup skipped = 1 .. base
  BY <1>2, NoneRelayed
<1>4. base \in Nat /\ read \in Nat /\ sent \in Nat /\ base <= read /\ taken \in Seq(1 .. base)
  BY Lengths DEF TypeOK
<1>5. base' \in {base + 1, base + 2} /\ base' <= read /\ Span(p) = p .. base'
  <2>1. base < read
    BY DEF TakeRequest, Complete
  <2>2. CASE Kind(p) = "start"
    <3>1. base + 1 < read
      BY <2>2 DEF TakeRequest, Complete
    <3>2. base' = base + 2 /\ Span(p) = {p, p + 1}
      BY <2>2 DEF TakeRequest, Span
    <3>3. p \in Nat /\ p + 1 = base + 2
      BY <1>4
    <3>4. Span(p) = p .. p + 1
      <4> HIDE DEF p
      <4> QED
        BY <3>2, <3>3, OneOrTwo
    <3> QED
      BY <1>4, <3>1, <3>2, <3>3, <3>4
  <2>3. CASE Kind(p) # "start"
    <3>1. p + 1 \notin bodies
      BY <1>4 DEF TypeOK
    <3>2. base' = p /\ Span(p) = {p}
      BY <2>3, <3>1 DEF TakeRequest, Span
    <3>3. p \in Nat
      BY <1>4
    <3>4. Span(p) = p .. p
      <4> HIDE DEF p
      <4> QED
        BY <3>2, <3>3, OneOrTwo
    <3> QED
      BY <1>4, <2>1, <3>2, <3>4
  <2> QED
    BY <2>2, <2>3
<1>6. taken \in Seq(1 .. base') /\ p \in 1 .. base'
  BY <1>4, <1>5, SeqOfMore
<1>7. ex'.at = p /\ ex'.at \in 0 .. base' /\ ExchangeShape' /\ BodiesTyped'
      /\ (ex'.fromClient # "whole" => Kind(p) = "head")
  <2> DEFINE r == stream[p].request
             todo == SelectedRequestRules(r)
             body == IF Kind(p) = "head" THEN "coming" ELSE "whole"
  <2>1. ex' = [NoExchange EXCEPT !.at = p, !.request = r, !.todo = todo, !.fromClient = body]
    BY DEF TakeRequest
  <2>2. body \in {"whole", "coming"} /\ (body # "whole" => Kind(p) = "head")
    OBVIOUS
  <2> HIDE DEF r, p, todo, body
  <2>3. ex'.at = p /\ ex'.fromClient = body /\ ex'.fromTarget = "whole"
    BY <2>1 DEF NoExchange
  <2>4. ExchangeShape'
    BY <2>1 DEF NoExchange, ExchangeShape
  <2> QED
    BY <1>6, <2>2, <2>3, <2>4 DEF BodiesTyped
<1>8. TypeOK'
  <2>1. taken' \in Seq(1 .. base')
    BY <1>1, <1>6
  <2>2. relay' \in RelayType(base')
    BY <1>1, <1>3, <1>5, <1>4, ConnectionAssumption DEF NoRelay, RelayType
  <2>3. base' \in 0 .. read' /\ skipped' \subseteq 1 .. base' /\ bodies' \subseteq 1 .. base'
    BY <1>1, <1>4, <1>5 DEF TypeOK
  <2> QED
    BY <1>1, <1>7, <2>1, <2>2, <2>3 DEF TypeOK, BodiesTyped, RelayType, ExchangePc, ServePc
<1>9. PhaseInv' /\ ShutInv'
  BY <1>1, <1>2, <1>3 DEF PhaseInv, ShutInv, NoRelay, BeforeRelay, ExchangePc, ServePc
<1>10. StreamInv'
  <2>1. Consumed' = base'
    <3>1. base' \in Nat
      BY <1>4, <1>5
    <3>2. Len(relay'.toTarget) = 0
      BY <1>1, <1>3
    <3> QED
      BY <3>1, <3>2, MinusNone DEF Consumed
  <2>2. ToSet(taken') = ToSet(taken) \cup {p}
    <3> DEFINE S == 1 .. base'
    <3> HIDE DEF p, S
    <3>1. taken \in Seq(S) /\ p \in S
      BY <1>6 DEF S
    <3>2. ToSet(Append(taken, p)) = ToSet(taken) \cup {p}
      BY <3>1, ToSetAppend
    <3> QED
      BY <1>1, <3>2
  <2>3. \A q : Span(q)' = Span(q)
    BY <1>1 DEF Span, Kind
  <2>4. InRequests' = InRequests \cup Span(p)
    BY <2>2, <2>3 DEF InRequests
  <2>5. InRequests' \cup skipped' = 1 .. base' /\ InRequests' \cap skipped' = {}
    BY <1>1, <1>3, <1>4, <1>5, <2>4 DEF StreamInv
  <2>6. \A i, j \in DOMAIN taken' : i < j => taken'[i] < taken'[j]
    <3>1. \A i \in DOMAIN taken : taken[i] < p /\ taken'[i] = taken[i]
      BY <1>1, <1>4
    <3>2. DOMAIN taken' = 1 .. Len(taken) + 1 /\ DOMAIN taken = 1 .. Len(taken)
          /\ taken'[Len(taken) + 1] = p /\ Len(taken) \in Nat
      BY <1>1, <1>4, <1>6
    <3> QED
      BY <3>1, <3>2 DEF StreamInv
  <2>7. relay'.toTarget = <<>>
    BY <1>1, <1>3 DEF NoRelay
  <2>8. relay'.toTarget = [i \in 1 .. Len(relay'.toTarget) |-> Consumed' + i]
    BY <2>7
  <2> QED
    BY <1>1, <1>3, <1>4, <1>5, <2>1, <2>5, <2>6, <2>7, <2>8 DEF StreamInv
<1>11. BodyInv'
  <2> SUFFICES ASSUME ex'.fromClient # "whole" PROVE BodyInv'
    BY DEF BodyInv
  <2>1. Kind(p) = "head" /\ ex'.at = p
    BY <1>7
  <2>2. base' = p /\ stream'[p].kind = "head"
    BY <1>1, <2>1 DEF TakeRequest, Kind
  <2>3. p \in ToSet(taken')
    <3>1. DOMAIN taken' = 1 .. Len(taken) + 1 /\ taken'[Len(taken) + 1] = p /\ Len(taken) \in Nat
      BY <1>1, <1>4, <1>6
    <3> QED
      BY <3>1 DEF ToSet
  <2> QED
    BY <2>1, <2>2, <2>3 DEF BodyInv, Kind
<1> QED
  BY <1>7, <1>8, <1>9, <1>10, <1>11

\* The body that was to come is read: it is the next segment, and belongs to the
\* request taken last.
LEMMA ReadBodyKeeps ==
  ASSUME HInv, ReadBody
  PROVE  HInv'
<1> USE DEF HInv
<1> DEFINE p == base + 1
<1>1. /\ UNCHANGED <<stream, sent, eof, read, skipped, pc, taken, up, relay>>
      /\ pc \in ExchangePc /\ ex.fromClient # "whole" /\ base < read
      /\ base' = p /\ bodies' = bodies \cup {p} /\ ex'.fromClient = "whole"
      /\ ExchangeShape' /\ ex'.at = ex.at /\ ex'.fromTarget = ex.fromTarget
  <2>1. ex' = [ex EXCEPT !.fromClient = "whole"]
    BY DEF ReadBody
  <2>2. /\ ex'.fromClient = "whole" /\ ExchangeShape' /\ ex'.at = ex.at
        /\ ex'.fromTarget = ex.fromTarget
    BY <2>1 DEF ExchangeShape
  <2> QED
    BY <2>2 DEF ReadBody, conf, client
<1>2. pc \in BeforeRelay /\ base = ex.at /\ Kind(ex.at) = "head" /\ ex.at \in ToSet(taken)
  BY <1>1 DEF BeforeRelay, BodyInv
<1>3. /\ relay = NoRelay /\ Len(relay.toTarget) = 0 /\ Consumed = base
      /\ InRequests \cup skipped = 1 .. base
  BY <1>2, NoneRelayed
<1>4. base \in Nat /\ read \in Nat /\ sent \in Nat /\ base <= read /\ taken \in Seq(1 .. base)
  BY Lengths DEF TypeOK
<1>5. TypeOK'
  <2>1. taken' \in Seq(1 .. base')
    BY <1>1, <1>4, SeqOfMore
  <2>2. relay' \in RelayType(base')
    BY <1>1, <1>3, <1>4, ConnectionAssumption DEF NoRelay, RelayType
  <2>3. /\ base' \in 0 .. read' /\ skipped' \subseteq 1 .. base' /\ bodies' \subseteq 1 .. base'
        /\ ex'.at \in 0 .. base'
    BY <1>1, <1>4 DEF TypeOK
  <2> QED
    BY <1>1, <2>1, <2>2, <2>3 DEF TypeOK, RelayType
<1>6. PhaseInv' /\ ShutInv' /\ BodyInv'
  BY <1>1, <1>2, <1>3 DEF PhaseInv, ShutInv, BodyInv, NoRelay, BeforeRelay, ExchangePc, ServePc
<1>7. StreamInv'
  <2>1. Consumed' = base'
    BY <1>1, <1>3, <1>4 DEF Consumed
  <2>2. InRequests' = InRequests \cup {p}
    <3>1. \A q \in ToSet(taken) : q \in 1 .. base
      BY <1>4 DEF ToSet
    <3>2. ASSUME NEW q \in ToSet(taken)
          PROVE  Span(q)' = Span(q) \cup (IF q = base THEN {p} ELSE {})
      <4>1. q = base => Kind(q) = "head"
        BY <1>2
      <4> QED
        BY <1>1, <1>4, <3>1, <4>1 DEF Span, Kind
    <3>3. base \in ToSet(taken) /\ ToSet(taken') = ToSet(taken)
      BY <1>1, <1>2
    <3> QED
      BY <3>2, <3>3 DEF InRequests
  <2>3. InRequests' \cup skipped' = 1 .. base'
    BY <1>1, <1>3, <1>4, <2>2
  <2>4. InRequests' \cap skipped' = {}
    <3>1. p \notin skipped
      BY <1>4 DEF TypeOK
    <3> QED
      BY <1>1, <2>2, <3>1 DEF StreamInv
  <2>5. relay'.toTarget = <<>>
    BY <1>1, <1>3 DEF NoRelay
  <2>6. relay'.toTarget = [i \in 1 .. Len(relay'.toTarget) |-> Consumed' + i]
    BY <2>5
  <2> QED
    BY <1>1, <1>3, <1>4, <2>1, <2>3, <2>4, <2>5, <2>6 DEF StreamInv
<1> QED
  BY <1>1, <1>5, <1>6, <1>7

LEMMA ServeAgainKeeps ==
  ASSUME HInv, ServeAgain
  PROVE  HInv'
<1> USE DEF HInv
<1>1. /\ UNCHANGED <<stream, sent, eof, read, bodies, ex, taken, up, relay>>
      /\ pc = "parts" /\ pc' = "http" /\ base' = read
      /\ skipped' = skipped \cup (base + 1 .. read)
  BY DEF ServeAgain, conf, client, http
<1>2. pc \in BeforeRelay /\ pc' \in BeforeRelay
  BY <1>1 DEF BeforeRelay
<1>3. /\ relay = NoRelay /\ Len(relay.toTarget) = 0 /\ Consumed = base
      /\ InRequests \cup skipped = 1 .. base
  BY <1>2, NoneRelayed
<1>4. base \in Nat /\ read \in Nat /\ sent \in Nat /\ base <= read /\ taken \in Seq(1 .. base)
  BY Lengths DEF TypeOK
<1>5. TypeOK'
  <2>1. taken' \in Seq(1 .. base')
    BY <1>1, <1>4, SeqOfMore
  <2>2. relay' \in RelayType(base')
    BY <1>1, <1>3, <1>4, ConnectionAssumption DEF NoRelay, RelayType
  <2>3. /\ base' \in 0 .. read' /\ skipped' \subseteq 1 .. base' /\ bodies' \subseteq 1 .. base'
        /\ ex'.at \in 0 .. base'
    BY <1>1, <1>4 DEF TypeOK
  <2> QED
    BY <1>1, <2>1, <2>2, <2>3 DEF TypeOK, RelayType
<1>6. PhaseInv' /\ ShutInv' /\ ExchangeShape' /\ BodyInv'
  BY <1>1, <1>2, <1>3, ExchangeKept
  DEF PhaseInv, ShutInv, BodyInv, NoRelay, BeforeRelay, ExchangePc, ServePc
<1>7. StreamInv'
  <2>1. Consumed' = base'
    BY <1>1, <1>3, <1>4 DEF Consumed
  <2>2. InRequests' = InRequests
    BY <1>1 DEF InRequests, Span, Kind
  <2>3. InRequests' \cup skipped' = 1 .. base' /\ InRequests' \cap skipped' = {}
    BY <1>1, <1>3, <1>4, <2>2 DEF StreamInv
  <2>4. relay'.toTarget = <<>>
    BY <1>1, <1>3 DEF NoRelay
  <2>5. relay'.toTarget = [i \in 1 .. Len(relay'.toTarget) |-> Consumed' + i]
    BY <2>4
  <2> QED
    BY <1>1, <1>3, <1>4, <2>1, <2>3, <2>4, <2>5 DEF StreamInv
<1> QED
  BY <1>5, <1>6, <1>7

LEMMA BindAndConnectKeeps ==
  ASSUME HInv, BindAndConnect
  PROVE  HInv'
<1> USE DEF HInv
<1>1. /\ UNCHANGED <<stream, sent, eof, read, base, skipped, bodies, ex, taken>>
      /\ pc = "bind" /\ pc' \in {"replay", "failed"} /\ up' \in UpStates
      /\ relay' = [relay EXCEPT !.from = base]
  BY DEF BindAndConnect, conf, client, buffer, http, Close, TypeOK, UpStates
<1>2. relay = NoRelay /\ Len(relay.toTarget) = 0 /\ Consumed = base
  BY <1>1, NoneRelayed DEF BeforeRelay
<1>3. base \in Nat /\ relay' = [NoRelay EXCEPT !.from = base]
  BY <1>1, <1>2, Lengths
<1>4. relay' \in RelayType(base) /\ relay'.toTarget = relay.toTarget /\ relay'.toTarget = <<>>
  <2>1. relay.toTarget = <<>> /\ relay'.toTarget = <<>>
    BY <1>2, <1>3 DEF NoRelay
  <2>2. NoRelay \in RelayType(base)
    BY <1>3, ConnectionAssumption DEF NoRelay, RelayType
  <2>3. relay' \in RelayType(base)
    BY <1>3, <2>2 DEF RelayType
  <2> QED
    BY <2>1, <2>3
<1>5. TypeOK'
  BY <1>1, <1>4 DEF TypeOK, RelayType, RelayPc, ClosedPc, UpStates
<1>6. PhaseInv' /\ ShutInv' /\ BodyInv'
  BY <1>1, <1>3 DEF PhaseInv, ShutInv, BodyInv, BeforeRelay, ExchangePc, ServePc, NoRelay
<1>7. Consumed' = Consumed /\ InRequests' = InRequests
  BY <1>1, <1>4 DEF Consumed, InRequests, Span, Kind
<1>8. StreamInv'
  BY <1>1, <1>4, <1>7 DEF StreamInv
<1> QED
  BY <1>1, <1>5, <1>6, <1>8, ExchangeKept

LEMMA ReplayKeeps ==
  ASSUME HInv, Replay
  PROVE  HInv'
<1> USE DEF HInv
<1> DEFINE n == read - base
           s == [i \in 1 .. n |-> base + i]
<1>1. /\ UNCHANGED <<stream, sent, eof, read, skipped, bodies, ex, taken>>
      /\ pc = "replay" /\ up' \in UpStates
  BY DEF Replay, conf, client, http, Close, TypeOK, UpStates
<1>2. /\ relay = [NoRelay EXCEPT !.from = base] /\ relay.toTarget = <<>> /\ relay.from = base
      /\ Len(relay.toTarget) = 0
  BY <1>1 DEF PhaseInv, NoRelay
<1>3. /\ base \in Nat /\ read \in Nat /\ sent \in Nat /\ base <= read /\ n \in Nat
      /\ base + n = read /\ relay \in RelayType(base)
  BY Lengths
<1>4. Consumed = base
  BY <1>2, <1>3, MinusNone DEF Consumed
<1>5. CASE Close("panicked") /\ UNCHANGED <<relay, base>>
  <2>1. pc' = "panicked" /\ UNCHANGED <<relay, base>>
    BY <1>5 DEF Close
  <2>2. TypeOK'
    BY <1>1, <2>1 DEF TypeOK, ClosedPc, UpStates
  <2>3. PhaseInv' /\ ShutInv' /\ StreamInv' /\ ExchangeShape' /\ BodyInv'
    BY <1>1, <2>1, StreamKept, ExchangeKept
    DEF PhaseInv, ShutInv, BodyInv, BeforeRelay, ExchangePc, ServePc
  <2> QED
    BY <2>2, <2>3
<1>6. CASE /\ relay' = [relay EXCEPT !.toTarget = @ \o s]
           /\ base' = read /\ pc' = "relay" /\ UNCHANGED up
  <2>1. s \in Seq(1 .. read) /\ Len(s) = n /\ <<>> \o s = s
    BY <1>3, IntervalAsSequence
  <2>2. relay' = [relay EXCEPT !.toTarget = s]
    BY <1>2, <1>6, <2>1
  <2>3. relay'.toTarget = s /\ relay'.from = base /\ Len(relay'.toTarget) = n
    BY <1>2, <1>3, <2>1, <2>2 DEF RelayType
  <2>4. relay' \in RelayType(read)
    <3> HIDE DEF s
    <3>1. relay.from \in 0 .. read
      BY <1>2, <1>3
    <3> QED
      BY <1>3, <2>1, <2>2, <3>1 DEF RelayType
  <2>5. taken' \in Seq(1 .. base')
    BY <1>1, <1>3, <1>6, SeqOfMore DEF TypeOK
  <2>6. TypeOK'
    <3>1. /\ stream' \in Streams /\ sent' \in 0 .. Len(stream') /\ eof' \in BOOLEAN
          /\ pc' \in RelayPc /\ read' \in 0 .. sent'
      BY <1>1, <1>6 DEF TypeOK, RelayPc
    <3>2. /\ base' \in 0 .. read' /\ skipped' \subseteq 1 .. base' /\ ex'.at \in 0 .. base'
          /\ bodies' \subseteq 1 .. base' /\ BodiesTyped'
      <4>1. base' = read /\ read' = read /\ base <= read /\ base \in Nat /\ read \in Nat
        BY <1>1, <1>3, <1>6
      <4>2. /\ skipped' = skipped /\ bodies' = bodies /\ ex' = ex
            /\ skipped \subseteq 1 .. base /\ bodies \subseteq 1 .. base /\ ex.at \in 0 .. base
        BY <1>1 DEF TypeOK
      <4>3. BodiesTyped'
        BY <4>2 DEF TypeOK, BodiesTyped
      <4> QED
        BY <4>1, <4>2, <4>3
    <3>3. up' \in {"none", "open", "closing"}
      BY <1>1 DEF UpStates
    <3>4. relay' \in RelayType(base')
      BY <1>6, <2>4
    <3> QED
      BY <2>5, <3>1, <3>2, <3>3, <3>4 DEF TypeOK, BodiesTyped, RelayType
  <2>7. Consumed' = base
    <3>1. read - n = base
      BY <1>3
    <3> QED
      BY <1>6, <2>3, <3>1 DEF Consumed
  <2>8. InRequests' = InRequests
    BY <1>1 DEF InRequests, Span, Kind
  <2>9. relay'.targetShut = FALSE /\ relay'.clientShut = FALSE
    BY <1>2, <2>2 DEF NoRelay
  <2>10. PhaseInv' /\ ShutInv' /\ BodyInv'
    BY <1>1, <1>6, <2>3, <2>7, <2>9
    DEF PhaseInv, ShutInv, BodyInv, BeforeRelay, ExchangePc, ServePc
  <2>11. StreamInv'
    <3>1. /\ \A i, j \in DOMAIN taken' : i < j => taken'[i] < taken'[j]
          /\ InRequests' \cup skipped' = 1 .. Consumed' /\ InRequests' \cap skipped' = {}
      BY <1>1, <1>4, <2>7, <2>8 DEF StreamInv
    <3>2. Len(relay'.toTarget) <= base' /\ relay'.from = Consumed'
      BY <1>3, <1>6, <2>3, <2>7
    <3>3. relay'.toTarget = [i \in 1 .. Len(relay'.toTarget) |-> Consumed' + i]
      BY <2>3, <2>7
    <3> QED
      BY <3>1, <3>2, <3>3 DEF StreamInv
  <2> QED
    BY <1>1, <2>6, <2>10, <2>11, ExchangeKept
<1> QED
  BY <1>5, <1>6 DEF Replay

LEMMA RelayToTargetKeeps ==
  ASSUME HInv, RelayToTarget
  PROVE  HInv'
<1> USE DEF HInv
<1> DEFINE n == Len(relay.toTarget)
<1>1. /\ UNCHANGED <<stream, sent, eof, skipped, bodies, pc, ex, taken, up>>
      /\ pc = "relay" /\ read < sent /\ read' = read + 1 /\ base' = read + 1
      /\ relay' = [relay EXCEPT !.toTarget = Append(@, read + 1)]
  BY DEF RelayToTarget, conf, client, http
<1>2. /\ base \in Nat /\ read \in Nat /\ sent \in Nat /\ base = read /\ n \in Nat
      /\ relay \in RelayType(base) /\ relay.from = Consumed /\ n <= base
  BY <1>1, Lengths DEF PhaseInv, StreamInv
<1>3. Consumed \in Nat /\ Consumed + n + 1 = read + 1 /\ read + 1 - (n + 1) = Consumed
  BY <1>2 DEF Consumed
<1>4. Append(relay.toTarget, read + 1) = [i \in 1 .. n + 1 |-> Consumed + i]
  <2> HIDE DEF n
  <2>1. relay.toTarget = [i \in 1 .. n |-> Consumed + i]
    BY DEF StreamInv, n
  <2> DEFINE c == Consumed
  <2> HIDE DEF c
  <2>2. c \in Nat /\ n \in Nat /\ c + n + 1 = read + 1
    BY <1>2, <1>3 DEF c
  <2>3. relay.toTarget = [i \in 1 .. n |-> c + i]
    BY <2>1 DEF c
  <2>4. Append([i \in 1 .. n |-> c + i], c + n + 1) = [i \in 1 .. n + 1 |-> c + i]
    BY <2>2, IntervalAppend
  <2>5. Append(relay.toTarget, read + 1) = [i \in 1 .. n + 1 |-> c + i]
    BY <2>2, <2>3, <2>4
  <2> QED
    BY <2>5 DEF c
<1>5. relay.toTarget \in Seq(1 .. read + 1) /\ read + 1 \in 1 .. read + 1
  BY <1>2, SeqOfMore DEF RelayType
<1>6. /\ relay'.toTarget = Append(relay.toTarget, read + 1) /\ relay'.from = relay.from
      /\ Len(relay'.toTarget) = n + 1
  BY <1>1, <1>2, <1>5 DEF RelayType
<1>7. relay' \in RelayType(read + 1)
  <2>1. Append(relay.toTarget, read + 1) \in Seq(1 .. read + 1)
    BY <1>5
  <2>2. relay.from \in 0 .. read + 1
    BY <1>2 DEF RelayType
  <2> QED
    BY <1>1, <1>2, <2>1, <2>2 DEF RelayType
<1>8. TypeOK'
  <2>1. taken' \in Seq(1 .. base')
    BY <1>1, <1>2, SeqOfMore DEF TypeOK
  <2>2. /\ stream' \in Streams /\ sent' \in 0 .. Len(stream') /\ eof' \in BOOLEAN
        /\ pc' \in RelayPc /\ up' \in {"none", "open", "closing"}
    BY <1>1 DEF TypeOK, RelayPc
  <2>3. /\ read' \in 0 .. sent' /\ base' \in 0 .. read'
        /\ skipped' \subseteq 1 .. base' /\ ex'.at \in 0 .. base'
        /\ bodies' \subseteq 1 .. base' /\ BodiesTyped'
    BY <1>1, <1>2 DEF TypeOK, BodiesTyped
  <2>4. relay' \in RelayType(base')
    BY <1>1, <1>7
  <2> QED
    BY <2>1, <2>2, <2>3, <2>4 DEF TypeOK, BodiesTyped, RelayType
<1>9. Consumed' = Consumed
  BY <1>1, <1>3, <1>6 DEF Consumed
<1>10. InRequests' = InRequests
  BY <1>1 DEF InRequests, Span, Kind
<1>11. PhaseInv' /\ BodyInv'
  BY <1>1, <1>2, <1>6, <1>9 DEF PhaseInv, BodyInv, BeforeRelay, ExchangePc, ServePc
<1>12. ShutInv'
  <2>1. ~relay.targetShut
    BY <1>1, <1>2 DEF ShutInv
  <2>2. /\ relay'.targetShut = relay.targetShut /\ relay'.clientShut = relay.clientShut
        /\ relay'.targetEof = relay.targetEof /\ relay'.toClient = relay.toClient
        /\ relay'.replies = relay.replies
    BY <1>1, <1>2 DEF RelayType
  <2> QED
    BY <2>1, <2>2 DEF ShutInv
<1>13. StreamInv'
  <2>1. Len(relay'.toTarget) <= base'
    BY <1>1, <1>2, <1>6
  <2> QED
    BY <1>1, <1>2, <1>4, <1>6, <1>9, <1>10, <2>1 DEF StreamInv
<1> QED
  BY <1>1, <1>8, <1>11, <1>12, <1>13, ExchangeKept

----------------------------------------------------------------------------
(* The theorems.                                                           *)

LEMMA NextHInv ==
  ASSUME HInv, [Next]_vars
  PROVE  HInv'
<1>1. CASE HyperStep
  BY <1>1, QuietStep, ClientStepKeeps, ReadBodyKeeps, BodyStepKeeps, TakeRequestKeeps,
     ServeAgainKeeps DEF HyperStep
<1>2. CASE HandleStep
  BY <1>2, QuietStep, ApplyKeeps, HandleStepKeeps DEF HandleStep
<1>3. CASE RelayStep
  <2>1. CASE ShutTarget \/ RelayToClient \/ ShutClient
    BY <2>1, RelayFlagsKeep DEF ShutTarget, RelayToClient, ShutClient
  <2> QED
    BY <1>3, <2>1, BindAndConnectKeeps, ReplayKeeps, RelayToTargetKeeps, RelayEndsKeeps
    DEF RelayStep
<1>4. CASE Environment
  <2>1. CASE TargetReplies
    BY <2>1, RelayFlagsKeep DEF TargetReplies
  <2> QED
    BY <1>4, <2>1, ClientStepKeeps, QuietStep DEF Environment
<1>5. CASE TargetStep
  <2>1. CASE TargetCloses
    BY <2>1, RelayFlagsKeep DEF TargetCloses
  <2> QED
    BY <1>5, <2>1, HandleStepKeeps, BodyStepKeeps, QuietStep DEF TargetStep
<1>6. CASE Ended \/ UNCHANGED vars
  BY <1>6, QuietStep DEF Ended
<1> QED
  BY <1>1, <1>2, <1>3, <1>4, <1>5, <1>6 DEF Next

LEMMA HInvAccounts ==
  ASSUME HInv
  PROVE  StreamAccounted
<1> DEFINE n == Len(relay.toTarget)
           c == Consumed
<1>1. base \in Nat /\ n \in Nat /\ n <= base /\ base = c + n /\ c \in Nat
  BY Lengths DEF HInv, StreamInv, Consumed
<1>2. relay.toTarget = [i \in 1 .. n |-> c + i]
  BY DEF HInv, StreamInv
<1>3. InRequests \cup skipped = 1 .. c /\ InRequests \cap skipped = {}
  BY DEF HInv, StreamInv
<1>4. /\ relay.toTarget = [i \in 1 .. n |-> relay.from + i]
      /\ \A p \in InRequests \cup skipped : relay.toTarget # <<>> => p <= relay.from
  <2>1. CASE relay.toTarget # <<>>
    <3>1. relay.from = c
      BY <2>1 DEF HInv, StreamInv
    <3> QED
      BY <1>2, <1>3, <3>1
  <2>2. CASE relay.toTarget = <<>>
    BY <2>2
  <2> QED
    BY <2>1, <2>2
<1>5. ToSet(relay.toTarget) = c + 1 .. c + n
  <2> HIDE DEF n, c
  <2> QED
    BY <1>1, <1>2, RangeOfInterval
<1>6. 1 .. base = InRequests \cup skipped \cup ToSet(relay.toTarget)
  <2> HIDE DEF n, c
  <2> QED
    BY <1>1, <1>3, <1>5
<1>7. \A i, j \in DOMAIN taken : i < j => taken[i] < taken[j]
  BY DEF HInv, StreamInv
<1> QED
  BY <1>3, <1>4, <1>6, <1>7 DEF StreamAccounted, InRequests

LEMMA HInvRelaysWhole ==
  ASSUME HInv
  PROVE  RelayedWhole
<1> SUFFICES ASSUME pc = "relayed" PROVE RelayedWhole
  BY DEF RelayedWhole
<1>1. base = read /\ relay.from = Consumed /\ relay.targetShut /\ relay.clientShut
  BY DEF HInv, PhaseInv
<1>2. eof /\ read = sent /\ relay.targetEof /\ relay.toClient = relay.replies
  BY <1>1 DEF HInv, ShutInv
<1>3. relay.from + Len(relay.toTarget) = base
  BY <1>1, Lengths DEF HInv, Consumed
<1> QED
  BY <1>1, <1>2, <1>3 DEF RelayedWhole

\* server.rs 96-331: every variable of a connection keeps its type, whatever the
\* streams, the rules and the answers.
THEOREM ConnectionTypeCorrect == Spec => []TypeOK
<1>1. HInv => TypeOK
  BY DEF HInv
<1> QED
  BY <1>1, InitHInv, NextHInv, PTL DEF Spec

\* server.rs 143-173: for every stream the client's bytes are consumed once and
\* in order, by requests or by the relay, but for those in a read_buf dropped
\* after an upgrade.
THEOREM ClientStreamAccounted == Spec => []StreamAccounted
BY InitHInv, NextHInv, HInvAccounts, PTL DEF Spec

\* server.rs:169: for every stream and any number of replies, a relay that ends
\* with Ok has carried all that either side has sent.
THEOREM RelayCarriesAll == Spec => []RelayedWhole
BY InitHInv, NextHInv, HInvRelaysWhole, PTL DEF Spec

----------------------------------------------------------------------------
(* Requests and responses stay in order.                                   *)

\* Where the request taken last has no answer.
Owing == ServePc \cup Unanswered

OrderInv ==
  /\ answers \in Seq(ToSet(answers)) /\ forwarded \in Seq(ToSet(forwarded))
  /\ Len(taken) = Len(answers) + (IF pc \in Owing THEN 1 ELSE 0)
  /\ \A i \in DOMAIN answers : answers[i].at = taken[i]
  /\ pc \in ServePc => ex.at = taken[Len(taken)]
  /\ \A i, j \in DOMAIN forwarded : i < j => forwarded[i].at < forwarded[j].at
  /\ \A i \in DOMAIN forwarded : forwarded[i].at \in ToSet(taken)
  /\ pc = "request" => \A i \in DOMAIN forwarded : forwarded[i].at < ex.at

LEMMA AppendOwn ==
  ASSUME NEW s, s \in Seq(ToSet(s)), NEW x
  PROVE  /\ Append(s, x) \in Seq(ToSet(Append(s, x)))
         /\ Len(Append(s, x)) = Len(s) + 1 /\ Len(s) \in Nat
         /\ DOMAIN Append(s, x) = 1 .. Len(s) + 1 /\ DOMAIN s = 1 .. Len(s)
         /\ \A i \in DOMAIN s : Append(s, x)[i] = s[i]
         /\ Append(s, x)[Len(s) + 1] = x
<1> DEFINE S == ToSet(s) \cup {x}
<1>1. s \in Seq(S) /\ x \in S
  <2>1. ToSet(s) \subseteq S
    OBVIOUS
  <2> HIDE DEF S
  <2>2. \A i \in DOMAIN s : s[i] \in S
    BY <2>1 DEF ToSet
  <2>3. s \in Seq(S)
    BY <2>2
  <2> QED
    BY <2>3 DEF S
<1> HIDE DEF S
<1>2. ToSet(Append(s, x)) = S
  BY <1>1, ToSetAppend DEF S
<1>3. Append(s, x) \in Seq(S)
  BY <1>1
<1> QED
  BY <1>1, <1>2, <1>3

\* Steps of which the histories see nothing.
LEMMA OrderStill ==
  ASSUME OrderInv, UNCHANGED <<taken, answers, forwarded>>,
         (pc \in Owing) <=> (pc' \in Owing),
         pc' \in ServePc => pc \in ServePc /\ ex'.at = ex.at,
         pc' = "request" => pc = "request"
  PROVE  OrderInv'
BY DEF OrderInv, ServePc

LEMMA TakeRequestOrders ==
  ASSUME HInv, OrderInv, TakeRequest
  PROVE  OrderInv'
<1> DEFINE p == base + 1
<1>1. /\ pc = "http" /\ pc' = "request" /\ taken' = Append(taken, p)
      /\ UNCHANGED <<answers, forwarded>>
  BY DEF TakeRequest
<1>2. pc \notin Owing /\ pc' \in Owing
  BY <1>1 DEF Owing, Unanswered, ServePc
<1>3. taken \in Seq(1 .. base) /\ base \in Nat
  BY Lengths DEF HInv, TypeOK
<1>4. /\ Len(taken') = Len(taken) + 1 /\ Len(taken) \in Nat
      /\ DOMAIN taken = 1 .. Len(taken) /\ DOMAIN taken' = 1 .. Len(taken) + 1
      /\ \A i \in DOMAIN taken : taken'[i] = taken[i] /\ taken[i] \in 1 .. base
      /\ taken'[Len(taken) + 1] = p
  BY <1>1, <1>3
<1>5. ex'.at = p
  <2> DEFINE r == stream[p].request
             todo == SelectedRequestRules(r)
             body == IF Kind(p) = "head" THEN "coming" ELSE "whole"
  <2>1. ex' = [NoExchange EXCEPT !.at = p, !.request = r, !.todo = todo, !.fromClient = body]
    BY DEF TakeRequest
  <2> HIDE DEF r, p, todo, body
  <2> QED
    BY <2>1 DEF NoExchange
<1>6. ToSet(taken) \subseteq ToSet(taken')
  BY <1>4 DEF ToSet
<1>7. Len(answers) \in Nat /\ DOMAIN answers = 1 .. Len(answers)
  BY DEF OrderInv
<1>8. Len(taken) = Len(answers)
  BY <1>2, <1>7 DEF OrderInv
<1>9. \A i \in DOMAIN forwarded : forwarded[i].at \in 1 .. base
  <2>1. ToSet(taken) \subseteq 1 .. base
    BY <1>4 DEF ToSet
  <2> QED
    BY <2>1 DEF OrderInv
<1>10. Len(taken') = Len(answers') + (IF pc' \in Owing THEN 1 ELSE 0)
  BY <1>1, <1>2, <1>4, <1>7, <1>8
<1>11. \A i \in DOMAIN answers' : answers'[i].at = taken'[i]
  BY <1>1, <1>4, <1>7, <1>8 DEF OrderInv
<1>12. ex'.at = taken'[Len(taken')]
  BY <1>4, <1>5
<1>13. \A i \in DOMAIN forwarded' : forwarded'[i].at < ex'.at /\ forwarded'[i].at \in ToSet(taken')
  BY <1>1, <1>3, <1>5, <1>6, <1>9 DEF OrderInv
<1> QED
  BY <1>1, <1>10, <1>11, <1>12, <1>13 DEF OrderInv

\* What Forward adds to the history.
Forwarding == [at |-> ex.at, request |-> ex.request,
               streamed |-> ex.fromClient \in {"coming", "broken"}]

LEMMA ForwardOrders ==
  ASSUME HInv, OrderInv, Forward
  PROVE  OrderInv'
<1>1. CASE ex' = ex /\ pc' = "wait" /\ forwarded' = Append(forwarded, Forwarding)
  <2> DEFINE x == Forwarding
  <2>1. pc = "request" /\ UNCHANGED <<taken, answers, ex>>
    BY <1>1 DEF Forward
  <2>2. x.at = ex.at /\ forwarded' = Append(forwarded, x)
    BY <1>1 DEF Forwarding
  <2> HIDE DEF x
  <2>3. /\ forwarded' \in Seq(ToSet(forwarded')) /\ Len(forwarded) \in Nat
        /\ DOMAIN forwarded' = 1 .. Len(forwarded) + 1 /\ DOMAIN forwarded = 1 .. Len(forwarded)
        /\ \A i \in DOMAIN forwarded : forwarded'[i] = forwarded[i]
        /\ forwarded'[Len(forwarded) + 1] = x
    BY <2>2, AppendOwn DEF OrderInv
  <2>4. \A i \in DOMAIN forwarded : forwarded[i].at < ex.at
    BY <2>1 DEF OrderInv
  <2>5. \A i, j \in DOMAIN forwarded' : i < j => forwarded'[i].at < forwarded'[j].at
    BY <2>2, <2>3, <2>4 DEF OrderInv
  <2>6. ex.at = taken[Len(taken)] /\ Len(taken) = Len(answers) + 1
    BY <2>1 DEF OrderInv, ServePc, Owing, Unanswered
  <2>7. ex.at \in ToSet(taken)
    <3>1. Len(answers) \in Nat
      BY DEF OrderInv
    <3>2. DOMAIN taken = 1 .. Len(taken)
      BY DEF HInv, TypeOK
    <3>3. Len(taken) \in DOMAIN taken
      BY <2>6, <3>1, <3>2
    <3> QED
      BY <2>6, <3>3 DEF ToSet
  <2>8. \A i \in DOMAIN forwarded' : forwarded'[i].at \in ToSet(taken')
    BY <2>1, <2>2, <2>3, <2>7 DEF OrderInv
  <2> QED
    BY <1>1, <2>1, <2>3, <2>5, <2>6, <2>8 DEF OrderInv, ServePc, Owing
<1>2. CASE NotServed /\ pc' = "response" /\ forwarded' = forwarded
  <2>1. ex'.at = ex.at
    BY <1>2, ServedDoes DEF ServedIs, HInv
  <2> QED
    BY <1>2, <2>1, OrderStill DEF Forward, ServePc, Owing
<1> QED
  BY <1>1, <1>2 DEF Forward, Forwarding

LEMMA DeliverOrders ==
  ASSUME HInv, OrderInv, Deliver
  PROVE  OrderInv'
<1> DEFINE x == [at |-> ex.at, request |-> ex.request, served |-> ex.served,
                 response |-> ex.response]
<1>1. /\ pc = "response" /\ pc' \in {"parts", "http", "closed", "drain"}
      /\ UNCHANGED <<taken, forwarded>> /\ answers' = Append(answers, x) /\ x.at = ex.at
  BY DEF Deliver, EndExchange, Close
<1> HIDE DEF x
<1>2. /\ answers' \in Seq(ToSet(answers')) /\ Len(answers) \in Nat
      /\ Len(answers') = Len(answers) + 1
      /\ DOMAIN answers' = 1 .. Len(answers) + 1 /\ DOMAIN answers = 1 .. Len(answers)
      /\ \A i \in DOMAIN answers : answers'[i] = answers[i]
      /\ answers'[Len(answers) + 1] = x
  BY <1>1, AppendOwn DEF OrderInv
<1>3. ex.at = taken[Len(taken)] /\ Len(taken) = Len(answers) + 1
  BY <1>1 DEF OrderInv, ServePc, Owing, Unanswered
<1>4. \A i \in DOMAIN answers' : answers'[i].at = taken'[i]
  <2> SUFFICES ASSUME NEW i \in DOMAIN answers' PROVE answers'[i].at = taken'[i]
    OBVIOUS
  <2>1. CASE i \in DOMAIN answers
    BY <2>1, <1>1, <1>2 DEF OrderInv
  <2>2. CASE i = Len(answers) + 1
    BY <2>2, <1>1, <1>2, <1>3
  <2> QED
    BY <2>1, <2>2, <1>2
<1>5. Len(taken') = Len(answers') + (IF pc' \in Owing THEN 1 ELSE 0)
  BY <1>1, <1>2, <1>3 DEF ServePc, Owing, Unanswered
<1>6. pc' \notin ServePc
  BY <1>1 DEF ServePc
<1> QED
  BY <1>1, <1>2, <1>4, <1>5, <1>6 DEF OrderInv, ServePc

LEMMA NextOrderInv ==
  ASSUME HInv, OrderInv, [Next]_vars
  PROVE  OrderInv'
<1> USE DEF HInv
<1>1. CASE TakeRequest \/ Forward \/ Deliver
  BY <1>1, TakeRequestOrders, ForwardOrders, DeliverOrders
<1>2. CASE ApplyToRequest \/ ApplyToResponse \/ TargetAnswers
  <2>1. /\ UNCHANGED <<taken, answers, forwarded>> /\ pc \in ServePc
        /\ pc' \in ServePc \cup {"aborted"} /\ (pc' = "request" => pc = "request")
        /\ ex'.at = ex.at
    <3>1. CASE ApplyToRequest
      <4> DEFINE a == Head(ex.todo).actions
                 result == ApplyRequestAction(ex.request, a)
      <4> HIDE DEF a, result
      <4>1. a = Head(ex.todo).actions /\ result = ApplyRequestAction(ex.request, a)
        BY DEF a, result
      <4> QED
        BY <3>1, <4>1, ApplyToRequestDoes DEF ServePc
    <3>2. CASE ApplyToResponse
      <4> DEFINE a == Head(ex.todo).actions
                 result == ApplyResponseAction(ex.response, a)
      <4> HIDE DEF a, result
      <4>1. a = Head(ex.todo).actions /\ result = ApplyResponseAction(ex.response, a)
        BY DEF a, result
      <4> QED
        BY <3>2, <4>1, ApplyToResponseDoes DEF ServePc
    <3>3. CASE TargetAnswers
      <4>1. /\ UNCHANGED <<taken, answers, forwarded>> /\ pc = "wait" /\ pc' = "response"
            /\ (\E m : Served(m)) \/ NotServed
        BY <3>3 DEF TargetAnswers
      <4>2. ex'.at = ex.at
        BY <4>1, ServedDoes DEF ServedIs
      <4> QED
        BY <4>1, <4>2 DEF ServePc
    <3> QED
      BY <1>2, <3>1, <3>2, <3>3
  <2> QED
    BY <2>1, OrderStill DEF Owing, Unanswered
<1>3. CASE RefuseHost \/ Cancel \/ ResponseBreaksOff
  <2>1. /\ UNCHANGED <<taken, answers, forwarded>> /\ pc \in ServePc
        /\ pc' \in Unanswered
    BY <1>3 DEF RefuseHost, Cancel, ResponseBreaksOff, http, Close, ServePc, Unanswered
  <2> QED
    BY <2>1, OrderStill DEF Owing, Unanswered, ServePc
<1>4. CASE Read \/ ClientSends \/ ClientCloses \/ UpstreamCloses \/ Ended \/ UNCHANGED vars
  <2>1. UNCHANGED <<taken, answers, forwarded, pc, ex>>
    BY <1>4 DEF Read, ClientSends, ClientCloses, UpstreamCloses, Ended, vars, http
  <2> QED
    BY <2>1, OrderStill
<1>6. CASE ReadBody \/ BodyBreaks \/ TargetSendsBody \/ TargetDropsBody
  BY <1>6, BodyStepDoes, OrderStill DEF BodyMoves
<1>5. CASE TlsAccept \/ ServeEof \/ ParseError \/ ServeAgain \/ RelayStep \/ TargetReplies
           \/ TargetCloses \/ RelayFails \/ Drained
  <2>1. UNCHANGED <<taken, answers, forwarded>>
    BY <1>5 DEF TlsAccept, ServeEof, ParseError, ServeAgain, RelayStep, BindAndConnect, Replay,
      RelayToTarget, ShutTarget, RelayToClient, ShutClient, RelayEnds, TargetReplies,
      TargetCloses, RelayFails, Drained, http
  <2>2. pc \notin Owing
    BY <1>5 DEF TlsAccept, ServeEof, ParseError, ServeAgain, RelayStep, BindAndConnect, Replay,
      RelayToTarget, ShutTarget, RelayToClient, ShutClient, RelayEnds, TargetReplies,
      TargetCloses, RelayFails, Drained, Owing, Unanswered, ServePc
  <2>3. pc' \notin Owing
    <3>1. CASE TlsAccept \/ ServeEof \/ ParseError \/ ServeAgain \/ Drained
      BY <3>1 DEF TlsAccept, ServeEof, ParseError, ServeAgain, Drained, EndExchange, Close, Owing,
        Unanswered, ServePc
    <3>2. CASE RelayStep
      BY <3>2, <2>2 DEF RelayStep, BindAndConnect, Replay, RelayToTarget, ShutTarget,
        RelayToClient, ShutClient, RelayEnds, Close, Owing, Unanswered, ServePc
    <3>3. CASE TargetReplies \/ TargetCloses \/ RelayFails
      BY <3>3, <2>2 DEF TargetReplies, TargetCloses, RelayFails, Close, Owing, Unanswered, ServePc
    <3> QED
      BY <1>5, <3>1, <3>2, <3>3
  <2>4. pc' \notin ServePc /\ pc' # "request"
    BY <2>3 DEF Owing, ServePc
  <2> QED
    BY <2>1, <2>2, <2>3, <2>4, OrderStill
<1> QED
  BY <1>1, <1>2, <1>3, <1>4, <1>5, <1>6
  DEF Next, HyperStep, HandleStep, Environment, TargetStep

LEMMA OrderInvAnswers ==
  ASSUME HInv, OrderInv
  PROVE  AnswersInOrder
<1> DEFINE n == Len(answers)
<1>1. n \in Nat /\ DOMAIN answers = 1 .. n
  BY DEF OrderInv
<1>2. Len(taken) \in Nat /\ n <= Len(taken) /\ DOMAIN taken = 1 .. Len(taken)
  BY <1>1 DEF OrderInv, HInv, TypeOK
<1>3. [i \in 1 .. n |-> answers[i].at] = SubSeq(taken, 1, n)
  <2> HIDE DEF n
  <2>1. SubSeq(taken, 1, n) = [i \in 1 .. n |-> taken[i]]
    BY <1>1, <1>2 DEF HInv, TypeOK
  <2>2. \A i \in 1 .. n : answers[i].at = taken[i]
    BY <1>1 DEF OrderInv
  <2> QED
    BY <2>1, <2>2
<1> QED
  BY <1>1, <1>3 DEF AnswersInOrder, OrderInv, Owing

LEMMA InitOrderInv == Init => OrderInv
BY DEF Init, OrderInv, Owing, Unanswered, ServePc, ToSet

\* server.rs 228-330: for all rules, responses and failures requests are
\* forwarded at most once and in order and answered in the order they came in.
THEOREM AnsweredInOrder == Spec => []AnswersInOrder
<1>1. Init => HInv /\ OrderInv
  BY InitHInv, InitOrderInv
<1>2. HInv /\ OrderInv /\ [Next]_vars => (HInv /\ OrderInv)'
  BY NextHInv, NextOrderInv
<1>3. HInv /\ OrderInv => AnswersInOrder
  BY OrderInvAnswers
<1> QED
  BY <1>1, <1>2, <1>3, PTL DEF Spec
=============================================================================
