--------------------------- MODULE SubProxyProofs ---------------------------
(***************************************************************************)
(* Proofs about SubProxy for any finite set of clients and any limit of    *)
(* descriptors, and that each of its steps is one of ChildProcess.         *)
(***************************************************************************)
EXTENDS SubProxy, FiniteSetTheorems, TLAPS

----------------------------------------------------------------------------
(* Queues without duplicates.                                              *)

Distinct(s) == \A i, j \in DOMAIN s : s[i] = s[j] => i = j

LEMMA LenIsCardinality ==
  ASSUME NEW S, NEW s \in Seq(S), Distinct(s)
  PROVE  Len(s) = Cardinality(ToSet(s))
<1>1. s \in Bijection(1 .. Len(s), ToSet(s))
  BY DEF Distinct, ToSet, Bijection, Injection, Surjection, IsInjective
<1>2. ExistsBijection(1 .. Len(s), ToSet(s))
  BY <1>1 DEF ExistsBijection
<1> QED
  BY <1>2, FS_CountingElements

LEMMA DistinctAppend ==
  ASSUME NEW S, NEW s \in Seq(S), NEW x \in S, Distinct(s), x \notin ToSet(s)
  PROVE  Distinct(Append(s, x)) /\ ToSet(Append(s, x)) = ToSet(s) \cup {x}
<1>1. /\ DOMAIN Append(s, x) = DOMAIN s \cup {Len(s) + 1} /\ DOMAIN s = 1 .. Len(s)
      /\ Append(s, x)[Len(s) + 1] = x /\ \A i \in DOMAIN s : Append(s, x)[i] = s[i]
  OBVIOUS
<1> QED
  BY <1>1 DEF Distinct, ToSet

LEMMA DistinctTail ==
  ASSUME NEW S, NEW s \in Seq(S), s # <<>>, Distinct(s)
  PROVE  /\ Distinct(Tail(s)) /\ Tail(s) \in Seq(S) /\ Head(s) \in S
         /\ ToSet(Tail(s)) = ToSet(s) \ {Head(s)} /\ Head(s) \in ToSet(s)
<1>1. /\ Len(s) \in Nat \ {0} /\ DOMAIN s = 1 .. Len(s) /\ DOMAIN Tail(s) = 1 .. Len(s) - 1
      /\ \A i \in 1 .. Len(s) - 1 : Tail(s)[i] = s[i + 1]
      /\ Head(s) = s[1] /\ Tail(s) \in Seq(S) /\ Head(s) \in S
  OBVIOUS
<1>2. Distinct(Tail(s))
  BY <1>1 DEF Distinct
<1>3. ToSet(Tail(s)) \subseteq ToSet(s) \ {Head(s)}
  BY <1>1 DEF Distinct, ToSet
<1>4. ASSUME NEW x \in ToSet(s), x # Head(s) PROVE x \in ToSet(Tail(s))
  <2>1. PICK i \in DOMAIN s : s[i] = x
    BY DEF ToSet
  <2>2. i - 1 \in DOMAIN Tail(s) /\ Tail(s)[i - 1] = x
    BY <1>1, <1>4, <2>1
  <2> QED
    BY <2>2 DEF ToSet
<1>5. Head(s) \in ToSet(s)
  BY <1>1 DEF ToSet
<1> QED
  BY <1>1, <1>2, <1>3, <1>4, <1>5

----------------------------------------------------------------------------
(* The inductive invariant.                                                *)

\* The process and its tasks.
ProcInv ==
  /\ status # "none" => ~Alive
  /\ main = "connect" => server = "none" /\ ~stop
  /\ stop => signalled
  /\ server # "panicked" => cause = "none"
  /\ server = "returned" => stop
  /\ status = "ok" => server = "returned"

\* The connections, the queue and the stream the loop holds.
QueueInv ==
  /\ Distinct(queue)
  /\ ToSet(queue) = {c \in Conns : conn[c] = "queued"}
  /\ ~Listening \/ ~Alive => queue = <<>>
  /\ \A c, d \in Conns : conn[c] = "accepted" /\ conn[d] = "accepted" => c = d
  /\ (\E c \in Conns : conn[c] = "accepted") <=> server = "accepted" /\ Alive
  /\ \A c \in reset : conn[c] \in {"queued", "accepted"}
  /\ ~Alive => \A c \in Conns : conn[c] = "none"

SInv == TypeOK /\ ProcInv /\ QueueInv

ConnStates == {"none", "queued", "accepted", "served"}

\* The part of TypeOK the tasks of the process do not see.
Typed == conn \in [Conns -> ConnStates] /\ reset \in SUBSET Conns /\ queue \in Seq(Conns)

LEMMA InitSInv == Init => SInv
<1> SUFFICES ASSUME Init PROVE SInv
  OBVIOUS
<1> USE DEF Init
<1>1. TypeOK
  <2>1. queue \in Seq(Conns) /\ reset \in SUBSET Conns /\ conn \in [Conns -> ConnStates]
    BY DEF ConnStates
  <2>2. signalled \in BOOLEAN /\ stop \in BOOLEAN
    OBVIOUS
  <2> QED
    BY <2>1, <2>2 DEF TypeOK, ConnStates
<1>2. ProcInv
  BY DEF ProcInv, Alive
<1>3. QueueInv
  <2>1. Distinct(queue) /\ ToSet(queue) = {}
    BY DEF Distinct, ToSet
  <2> QED
    BY <2>1 DEF QueueInv, Alive
<1> QED
  BY <1>1, <1>2, <1>3 DEF SInv

----------------------------------------------------------------------------
(* Types and the process.                                                  *)

LEMMA EndEmpties ==
  ASSUME NEW how, End(how)
  PROVE  /\ main' = "ended" /\ status' = how /\ ~Alive'
         /\ queue' = <<>> /\ reset' = {} /\ \A c \in Conns : conn'[c] = "none"
         /\ Typed'
BY DEF End, Alive, Typed, ConnStates

LEMMA ServeReturnsEmpties ==
  ASSUME TypeOK, NEW how, NEW why, ServeReturns(how, why)
  PROVE  /\ server' = how /\ cause' = why
         /\ queue' = <<>> /\ reset' = {} /\ \A c \in Conns : conn'[c] \in {"none", "served"}
         /\ Typed'
BY DEF ServeReturns, Typed, ConnStates

LEMMA MainStepKeeps ==
  ASSUME TypeOK, ProcInv, MainStep
  PROVE  TypeOK' /\ ProcInv'
<1>1. CASE ReadConfig
  <2>1. CASE main' = "spawned" /\ server' = "bind" /\ UNCHANGED <<status, conn, reset, queue>>
    BY <1>1, <2>1 DEF ReadConfig, TypeOK, ProcInv, Alive
  <2>2. CASE End("error") /\ UNCHANGED server
    <3>1. /\ main' = "ended" /\ status' = "error" /\ Typed' /\ main = "connect"
          /\ UNCHANGED <<signalled, stop, server, cause>>
      BY <1>1, <2>2, EndEmpties DEF ReadConfig
    <3> QED
      BY <3>1 DEF TypeOK, ProcInv, Alive, Typed, ConnStates
  <2> QED
    BY <1>1, <2>1, <2>2 DEF ReadConfig
<1>2. CASE RegisterSignals
  BY <1>2 DEF RegisterSignals, TypeOK, ProcInv, Alive
<1>3. CASE Killed
  <2>1. /\ main' = "ended" /\ status' = "killed" /\ Typed'
        /\ UNCHANGED <<signalled, stop, server, cause>>
    BY <1>3, EndEmpties DEF Killed
  <2> QED
    BY <2>1 DEF TypeOK, ProcInv, Alive, Typed, ConnStates
<1>4. CASE SendStop
  BY <1>4 DEF SendStop, TypeOK, ProcInv, Alive
<1>5. CASE JoinServer
  <2>1. server = "returned" => status' = "ok"
    BY <1>5, EndEmpties DEF JoinServer
  <2>2. server # "returned" => status' = "error"
    BY <1>5, EndEmpties DEF JoinServer
  <2>3. /\ main' = "ended" /\ Typed' /\ main = "join"
        /\ UNCHANGED <<signalled, stop, server, cause>>
    BY <1>5, EndEmpties DEF JoinServer
  <2> QED
    BY <2>1, <2>2, <2>3 DEF TypeOK, ProcInv, Alive, Typed, ConnStates
<1> QED
  BY <1>1, <1>2, <1>3, <1>4, <1>5 DEF MainStep

LEMMA ServeReturnsKeeps ==
  ASSUME TypeOK, ProcInv, Alive, server \in {"bind", "accept", "accepted"},
         NEW how, NEW why, ServeReturns(how, why), UNCHANGED <<main, status, signalled, stop>>,
         \/ how = "panicked" /\ why \in {"bind", "accept", "peer_addr"}
         \/ how = "returned" /\ why = cause /\ stop
  PROVE  TypeOK' /\ ProcInv'
<1>1. Typed' /\ server' = how /\ cause' = why
  BY ServeReturnsEmpties
<1>2. TypeOK'
  BY <1>1 DEF TypeOK, Typed, ConnStates
<1>3. ProcInv'
  BY <1>1 DEF ProcInv, Alive
<1> QED
  BY <1>2, <1>3

LEMMA ServerStepKeeps ==
  ASSUME TypeOK, ProcInv, ServerStep \/ StopServing
  PROVE  TypeOK' /\ ProcInv'
<1>1. CASE Bind
  <2>1. CASE server' = "accept" /\ UNCHANGED <<cause, conn, reset, queue>>
    BY <1>1, <2>1 DEF Bind, TypeOK, ProcInv, Alive
  <2>2. CASE ServeReturns("panicked", "bind")
    BY <1>1, <2>2, ServeReturnsKeeps DEF Bind
  <2> QED
    BY <1>1, <2>1, <2>2 DEF Bind
<1>2. CASE Accept
  <2>1. Head(queue) \in Conns /\ queue' \in Seq(Conns)
    BY <1>2 DEF Accept, TypeOK
  <2>2. conn' \in [Conns -> {"none", "queued", "accepted", "served"}]
    BY <1>2 DEF Accept, TypeOK
  <2> QED
    BY <1>2, <2>1, <2>2 DEF Accept, TypeOK, ProcInv, Alive
<1>3. CASE AcceptConnectionError
  <2>1. Head(queue) \in Conns /\ queue' \in Seq(Conns)
    BY <1>3 DEF AcceptConnectionError, TypeOK
  <2>2. conn' \in [Conns -> {"none", "queued", "accepted", "served"}]
    BY <1>3 DEF AcceptConnectionError, TypeOK
  <2> QED
    BY <1>3, <2>1, <2>2 DEF AcceptConnectionError, TypeOK, ProcInv, Alive
<1>4. CASE AcceptError
  BY <1>4, ServeReturnsKeeps DEF AcceptError
<1>5. CASE Dispatch
  <2>1. CASE ServeReturns("panicked", "peer_addr")
    BY <1>5, <2>1, ServeReturnsKeeps DEF Dispatch
  <2>2. ASSUME NEW c \in Conns, server' = "accept", conn' = [conn EXCEPT ![c] = "served"],
               UNCHANGED <<cause, reset, queue>>
        PROVE  TypeOK' /\ ProcInv'
    BY <1>5, <2>2 DEF Dispatch, TypeOK, ProcInv, Alive
  <2> QED
    BY <1>5, <2>1, <2>2 DEF Dispatch
<1>6. CASE StopServing
  BY <1>6, ServeReturnsKeeps DEF StopServing
<1> QED
  BY <1>1, <1>2, <1>3, <1>4, <1>5, <1>6 DEF ServerStep, AcceptStep

LEMMA EnvironmentKeeps ==
  ASSUME TypeOK, ProcInv, Environment \/ UNCHANGED vars
  PROVE  TypeOK' /\ ProcInv'
<1>1. CASE Interrupt
  BY <1>1 DEF Interrupt, TypeOK, ProcInv, Alive
<1>2. ASSUME NEW c \in Conns, Finish(c) PROVE TypeOK' /\ ProcInv'
  BY <1>2 DEF Finish, TypeOK, ProcInv, Alive
<1>3. ASSUME NEW c \in Conns, Connect(c) PROVE TypeOK' /\ ProcInv'
  BY <1>3 DEF Connect, TypeOK, ProcInv, Alive
<1>4. ASSUME NEW c \in Conns, PeerResets(c) PROVE TypeOK' /\ ProcInv'
  BY <1>4 DEF PeerResets, TypeOK, ProcInv, Alive
<1>5. CASE UNCHANGED vars
  BY <1>5 DEF vars, TypeOK, ProcInv, Alive
<1> QED
  BY <1>1, <1>2, <1>3, <1>4, <1>5 DEF Environment

----------------------------------------------------------------------------
(* The connections.                                                        *)

LEMMA EndQueueInv ==
  ASSUME NEW how, End(how)
  PROVE  QueueInv'
<1>1. /\ queue' = <<>> /\ reset' = {} /\ (\A c \in Conns : conn'[c] = "none") /\ ~Alive'
  BY EndEmpties
<1>2. Distinct(queue') /\ ToSet(queue') = {}
  BY <1>1 DEF Distinct, ToSet
<1> QED
  BY <1>1, <1>2 DEF QueueInv

LEMMA ServeReturnsQueueInv ==
  ASSUME Alive, NEW how \in {"returned", "panicked"}, NEW why, ServeReturns(how, why), main' = main
  PROVE  QueueInv'
<1>1. /\ queue' = <<>> /\ reset' = {} /\ (\A c \in Conns : conn'[c] \in {"none", "served"})
      /\ Alive' /\ server' \in {"returned", "panicked"}
  BY DEF ServeReturns, Alive
<1>2. Distinct(queue') /\ ToSet(queue') = {}
  BY <1>1 DEF Distinct, ToSet
<1> QED
  BY <1>1, <1>2 DEF QueueInv

LEMMA MainStepQueueInv ==
  ASSUME TypeOK, QueueInv, ProcInv, MainStep
  PROVE  QueueInv'
<1>1. CASE ReadConfig
  <2>1. CASE main' = "spawned" /\ server' = "bind" /\ UNCHANGED <<status, conn, reset, queue>>
    <3>1. main = "connect" /\ server = "none" /\ Alive /\ Alive'
      BY <1>1, <2>1 DEF ReadConfig, ProcInv, Alive
    <3>2. \A c \in Conns : conn[c] # "accepted"
      BY <3>1 DEF QueueInv
    <3> QED
      BY <2>1, <3>1, <3>2 DEF QueueInv, Listening
  <2>2. CASE End("error")
    BY <2>2, EndQueueInv
  <2> QED
    BY <1>1, <2>1, <2>2 DEF ReadConfig
<1>2. CASE RegisterSignals \/ SendStop
  <2>1. UNCHANGED <<conn, reset, queue, server>> /\ Alive /\ Alive'
    BY <1>2 DEF RegisterSignals, SendStop, Alive
  <2> QED
    BY <2>1 DEF QueueInv, Listening
<1>3. CASE Killed
  BY <1>3, EndQueueInv DEF Killed
<1>4. CASE JoinServer
  BY <1>4, EndQueueInv DEF JoinServer
<1> QED
  BY <1>1, <1>2, <1>3, <1>4 DEF MainStep

LEMMA AcceptQueueInv ==
  ASSUME TypeOK, QueueInv, Accept
  PROVE  QueueInv'
<1> DEFINE h == Head(queue)
<1>1. /\ Alive /\ Alive' /\ server = "accept" /\ server' = "accepted" /\ queue # <<>>
      /\ conn' = [conn EXCEPT ![h] = "accepted"] /\ queue' = Tail(queue) /\ reset' = reset
  BY DEF Accept, Alive
<1>2. /\ Distinct(queue') /\ h \in Conns /\ h \in ToSet(queue)
      /\ ToSet(queue') = ToSet(queue) \ {h}
  BY <1>1, DistinctTail DEF TypeOK, QueueInv
<1> HIDE DEF h
<1>3. \A c \in Conns : conn[c] # "accepted"
  BY <1>1 DEF QueueInv
<1>4. /\ conn'[h] = "accepted" /\ \A c \in Conns : c # h => conn'[c] = conn[c]
  BY <1>1, <1>2 DEF TypeOK
<1>5. ToSet(queue') = {c \in Conns : conn'[c] = "queued"}
  BY <1>2, <1>4 DEF QueueInv
<1>6. \A c \in reset' : conn'[c] \in {"queued", "accepted"}
  BY <1>1, <1>4 DEF QueueInv, TypeOK
<1> QED
  BY <1>1, <1>2, <1>3, <1>4, <1>5, <1>6 DEF QueueInv, Listening

LEMMA AcceptConnectionErrorQueueInv ==
  ASSUME TypeOK, QueueInv, AcceptConnectionError
  PROVE  QueueInv'
<1> DEFINE h == Head(queue)
<1>1. /\ Alive /\ Alive' /\ server = "accept" /\ server' = "accept" /\ queue # <<>>
      /\ conn' = [conn EXCEPT ![h] = "none"] /\ queue' = Tail(queue) /\ reset' = reset \ {h}
  BY DEF AcceptConnectionError, Alive
<1>2. /\ Distinct(queue') /\ h \in Conns /\ h \in ToSet(queue)
      /\ ToSet(queue') = ToSet(queue) \ {h}
  BY <1>1, DistinctTail DEF TypeOK, QueueInv
<1> HIDE DEF h
<1>3. \A c \in Conns : conn[c] # "accepted"
  BY <1>1 DEF QueueInv
<1>4. /\ conn'[h] = "none" /\ \A c \in Conns : c # h => conn'[c] = conn[c]
  BY <1>1, <1>2 DEF TypeOK
<1>5. ToSet(queue') = {c \in Conns : conn'[c] = "queued"}
  BY <1>2, <1>4 DEF QueueInv
<1>6. \A c \in reset' : conn'[c] \in {"queued", "accepted"}
  BY <1>1, <1>4 DEF QueueInv, TypeOK
<1> QED
  BY <1>1, <1>2, <1>3, <1>4, <1>5, <1>6 DEF QueueInv, Listening

LEMMA DispatchQueueInv ==
  ASSUME TypeOK, QueueInv, Dispatch
  PROVE  QueueInv'
<1>1. CASE ServeReturns("panicked", "peer_addr")
  BY <1>1, ServeReturnsQueueInv DEF Dispatch
<1>2. ASSUME NEW c \in Conns, conn[c] = "accepted", c \notin reset, server' = "accept",
             conn' = [conn EXCEPT ![c] = "served"], UNCHANGED <<cause, reset, queue>>
      PROVE  QueueInv'
  <2>1. Alive /\ Alive' /\ server = "accepted"
    BY <1>2 DEF Dispatch, Alive
  <2>2. conn'[c] = "served" /\ \A d \in Conns : d # c => conn'[d] = conn[d] /\ conn[d] # "accepted"
    BY <1>2 DEF TypeOK, QueueInv
  <2>3. {d \in Conns : conn'[d] = "queued"} = {d \in Conns : conn[d] = "queued"}
    BY <1>2, <2>2
  <2>4. \A d \in reset : conn'[d] \in {"queued", "accepted"}
    BY <1>2, <2>2 DEF QueueInv, TypeOK
  <2> QED
    BY <1>2, <2>1, <2>2, <2>3, <2>4 DEF QueueInv, Listening
<1> QED
  BY <1>1, <1>2 DEF Dispatch

LEMMA ServerStepQueueInv ==
  ASSUME TypeOK, QueueInv, ServerStep \/ StopServing
  PROVE  QueueInv'
<1>1. CASE Bind
  <2>1. CASE server' = "accept" /\ UNCHANGED <<cause, conn, reset, queue>>
    <3>1. Alive /\ Alive' /\ server = "bind" /\ queue' = queue
      BY <1>1, <2>1 DEF Bind, Alive
    <3> QED
      BY <2>1, <3>1 DEF QueueInv, Listening
  <2>2. CASE ServeReturns("panicked", "bind")
    BY <1>1, <2>2, ServeReturnsQueueInv DEF Bind
  <2> QED
    BY <1>1, <2>1, <2>2 DEF Bind
<1>2. CASE AcceptError
  BY <1>2, ServeReturnsQueueInv DEF AcceptError
<1>3. CASE StopServing
  BY <1>3, ServeReturnsQueueInv DEF StopServing
<1> QED
  BY <1>1, <1>2, <1>3, AcceptQueueInv, AcceptConnectionErrorQueueInv, DispatchQueueInv
  DEF ServerStep, AcceptStep

LEMMA EnvironmentQueueInv ==
  ASSUME TypeOK, QueueInv, Environment \/ UNCHANGED vars
  PROVE  QueueInv'
<1>1. CASE Interrupt \/ UNCHANGED vars
  <2>1. UNCHANGED <<conn, reset, queue, server, main>>
    BY <1>1 DEF Interrupt, vars
  <2> QED
    BY <2>1 DEF QueueInv, Listening, Alive
<1>2. ASSUME NEW c \in Conns, Finish(c) PROVE QueueInv'
  <2>1. /\ UNCHANGED <<reset, queue, server, main>> /\ conn[c] = "served"
        /\ conn'[c] = "none" /\ \A d \in Conns : d # c => conn'[d] = conn[d]
    BY <1>2 DEF Finish, TypeOK
  <2>2. {d \in Conns : conn'[d] = "queued"} = {d \in Conns : conn[d] = "queued"}
    BY <2>1
  <2>3. \A d \in reset : conn'[d] \in {"queued", "accepted"}
    BY <2>1 DEF QueueInv, TypeOK
  <2> QED
    BY <2>1, <2>2, <2>3 DEF QueueInv, Listening, Alive
<1>3. ASSUME NEW c \in Conns, Connect(c) PROVE QueueInv'
  <2>1. /\ UNCHANGED <<reset, server, main>> /\ conn[c] = "none" /\ queue' = Append(queue, c)
        /\ Listening /\ Alive
        /\ conn'[c] = "queued" /\ \A d \in Conns : d # c => conn'[d] = conn[d]
    BY <1>3 DEF Connect, TypeOK
  <2>2. c \notin ToSet(queue)
    BY <2>1 DEF QueueInv
  <2>3. Distinct(queue') /\ ToSet(queue') = ToSet(queue) \cup {c}
    BY <2>1, <2>2, DistinctAppend DEF TypeOK, QueueInv
  <2>4. ToSet(queue') = {d \in Conns : conn'[d] = "queued"}
    BY <2>1, <2>3 DEF QueueInv
  <2>5. \A d \in reset : conn'[d] \in {"queued", "accepted"}
    BY <2>1 DEF QueueInv, TypeOK
  <2> QED
    BY <2>1, <2>3, <2>4, <2>5 DEF QueueInv, Listening, Alive
<1>4. ASSUME NEW c \in Conns, PeerResets(c) PROVE QueueInv'
  <2>1. /\ UNCHANGED <<conn, queue, server, main>> /\ conn[c] \in {"queued", "accepted"}
        /\ reset' = reset \cup {c}
    BY <1>4 DEF PeerResets
  <2> QED
    BY <2>1 DEF QueueInv, Listening, Alive
<1> QED
  BY <1>1, <1>2, <1>3, <1>4 DEF Environment

LEMMA NextSInv ==
  ASSUME SInv, [Next]_vars
  PROVE  SInv'
BY MainStepKeeps, ServerStepKeeps, EnvironmentKeeps, MainStepQueueInv, ServerStepQueueInv,
   EnvironmentQueueInv
DEF SInv, Next

LEMMA SInvAccounts ==
  ASSUME SInv
  PROVE  ConnectionsAccounted
<1> DEFINE held == {c \in Conns : conn[c] = "accepted"}
<1>1. Len(queue) = Cardinality(ToSet(queue))
  BY LenIsCardinality DEF SInv, TypeOK, QueueInv
<1>2. Cardinality(held) = IF server = "accepted" /\ Alive THEN 1 ELSE 0
  <2>1. CASE server = "accepted" /\ Alive
    <3>1. PICK c \in Conns : conn[c] = "accepted"
      BY <2>1 DEF SInv, QueueInv
    <3>2. held = {c}
      BY <3>1 DEF SInv, QueueInv
    <3> QED
      BY <2>1, <3>2, FS_Singleton
  <2>2. CASE ~(server = "accepted" /\ Alive)
    <3>1. held = {}
      BY <2>2 DEF SInv, QueueInv
    <3> QED
      BY <2>2, <3>1, FS_EmptySet
  <2> QED
    BY <2>1, <2>2
<1> QED
  BY <1>1, <1>2 DEF ConnectionsAccounted, SInv, QueueInv

----------------------------------------------------------------------------
(* The process as the supervisor sees it.                                  *)

LEMMA InitChild == Init => Child!Init
BY DEF Init, Child!Init, phase

LEMMA NextChild ==
  ASSUME SInv, [Next]_vars
  PROVE  [Child!Next]_(Child!vars)
<1> USE DEF Child!vars
<1>1. phase \in {"boot", "serve", "dead"} /\ (phase = "dead" <=> main = "ended")
      /\ (phase = "boot" <=> main = "connect")
  BY DEF phase, SInv, TypeOK
<1>2. CASE Environment
  <2>1. CASE Interrupt
    <3>1. phase' = phase /\ signalled = FALSE /\ signalled' = TRUE
      BY <2>1 DEF Interrupt, phase, SInv, TypeOK
    <3> QED
      BY <1>1, <3>1 DEF Child!Next, Child!Signal
  <2>2. CASE UNCHANGED <<main, signalled>>
    BY <2>2 DEF phase
  <2> QED
    BY <1>2, <2>1, <2>2 DEF Environment, Finish, Connect, PeerResets
<1>3. CASE ServerStep \/ StopServing \/ UNCHANGED vars
  <2>1. UNCHANGED <<main, signalled>>
    BY <1>3 DEF ServerStep, AcceptStep, Bind, Accept, AcceptConnectionError, AcceptError,
      Dispatch, StopServing, vars
  <2> QED
    BY <2>1 DEF phase
<1>4. CASE MainStep
  <2>1. signalled' = signalled
    BY <1>4 DEF MainStep, ReadConfig, RegisterSignals, Killed, SendStop, JoinServer
  <2>2. CASE main' = "ended"
    <3>1. main # "ended" /\ phase' = "dead"
      BY <1>4, <2>2 DEF MainStep, ReadConfig, RegisterSignals, Killed, SendStop, JoinServer, phase
    <3> QED
      BY <1>1, <2>1, <3>1 DEF Child!Next, Child!Die, Child!Running
  <2>3. CASE main = "connect" /\ main' = "spawned"
    <3>1. phase = "boot" /\ phase' = "serve"
      BY <2>3 DEF phase
    <3> QED
      BY <2>1, <3>1 DEF Child!Next, Child!Serve
  <2>4. CASE RegisterSignals \/ SendStop
    BY <2>1, <2>4 DEF RegisterSignals, SendStop, phase
  <2> QED
    BY <1>4, <2>2, <2>3, <2>4 DEF MainStep, ReadConfig, Killed, JoinServer, End
<1> QED
  BY <1>2, <1>3, <1>4 DEF Next

----------------------------------------------------------------------------
(* The theorems.                                                           *)

\* proxy/exec.rs, http/server.rs, tcp/listener.rs: types, for any set of clients.
THEOREM SubProxyTypeCorrect == Spec => []TypeOK
<1>1. SInv => TypeOK
  BY DEF SInv
<1> QED
  BY <1>1, InitSInv, NextSInv, PTL DEF Spec

\* tcp/listener.rs, http/server.rs: for any number of clients no accepted stream
\* is lost or kept by the loop, and none outlives the listener or the process.
THEOREM AllConnectionsAccounted == Spec => []ConnectionsAccounted
BY InitSInv, NextSInv, SInvAccounts, PTL DEF Spec

\* proxy/exec.rs: whatever the clients do, exit status 0 means that serve ended
\* because SIGINT was received.
THEOREM OkOnlyIfStopped == Spec => []OkMeansStopped
<1>1. SInv => OkMeansStopped
  BY DEF SInv, ProcInv, OkMeansStopped
<1> QED
  BY <1>1, InitSInv, NextSInv, PTL DEF Spec

\* The safety part of IsChildProcess: each step of the sub-proxy is a step the
\* controller's model allows its child, or leaves what it sees of it alone.
THEOREM SubProxyStepsAreChilds == Spec => Child!Init /\ [][Child!Next]_(Child!vars)
BY InitSInv, NextSInv, InitChild, NextChild, PTL DEF Spec
=============================================================================
