------------------------------ MODULE SubProxy ------------------------------
(***************************************************************************)
(* The sub-proxy process: proxy_main with its signals and the task that    *)
(* runs HttpServer::serve, the accept loop of TcpListener, and the tasks   *)
(* of the connections as far as the loop depends on them (the descriptors  *)
(* they hold).  The kernel's queue of connections, resets by peers and the *)
(* limit of descriptors are the environment.                               *)
(***************************************************************************)
EXTENDS Naturals, FiniteSets, Sequences, SequencesExt

CONSTANTS
  Conns,      \* clients, each with at most one connection at a time
  FdLimit     \* descriptors left for accepted connections

ASSUME SubProxyAssumption == FdLimit \in Nat /\ IsFiniteSet(Conns)

VARIABLES
  main,       \* proxy_main
  status,     \* how the process ended
  signalled,  \* SIGINT was sent to the process
  stop,       \* the stop channel of serve: the sender has been used
  server,     \* the task that runs serve
  cause,      \* history: what made serve return an error
  conn,       \* per client: the state of its connection
  reset,      \* clients that have reset their queued or accepted connection
  queue       \* the kernel's accept queue

vars == <<main, status, signalled, stop, server, cause, conn, reset, queue>>

TypeOK ==
  /\ main \in {"connect", "spawned", "wait", "join", "ended"}
  /\ status \in {"none", "ok", "error", "killed"}
  /\ signalled \in BOOLEAN
  /\ stop \in BOOLEAN
  /\ server \in {"none", "bind", "accept", "accepted", "returned", "panicked"}
  /\ cause \in {"none", "bind", "accept", "peer_addr"}
  /\ conn \in [Conns -> {"none", "queued", "accepted", "served"}]
  /\ reset \in SUBSET Conns
  /\ queue \in Seq(Conns)

Init ==
  /\ main = "connect" /\ status = "none" /\ signalled = FALSE
  /\ stop = FALSE /\ server = "none" /\ cause = "none"
  /\ conn = [c \in Conns |-> "none"] /\ reset = {} /\ queue = <<>>

Alive     == main # "ended"
Listening == server \in {"accept", "accepted"}
FdsInUse  == Cardinality({c \in Conns : conn[c] \in {"accepted", "served"}})

----------------------------------------------------------------------------
(* proxy_main.                                                             *)

\* The end of the process closes every descriptor.
End(how) ==
  /\ main' = "ended" /\ status' = how
  /\ conn' = [c \in Conns |-> "none"] /\ reset' = {} /\ queue' = <<>>

\* read_into and try_into: with a configuration serve is spawned, otherwise
\* proxy_main returns the error.
ReadConfig ==
  /\ main = "connect"
  /\ \/ /\ main' = "spawned" /\ server' = "bind"
        /\ UNCHANGED <<status, conn, reset, queue>>
     \/ /\ End("error")
        /\ UNCHANGED server
  /\ UNCHANGED <<signalled, stop, cause>>

RegisterSignals ==
  /\ main = "spawned"
  /\ main' = "wait"
  /\ UNCHANGED <<status, signalled, stop, server, cause, conn, reset, queue>>

\* SIGINT before the handlers are installed; the process can take some steps
\* before it is delivered.
Killed ==
  /\ main \in {"connect", "spawned"} /\ signalled
  /\ End("killed")
  /\ UNCHANGED <<signalled, stop, server, cause>>

\* wait returns; the result of send is ignored, the receiver may be gone.
SendStop ==
  /\ main = "wait" /\ signalled
  /\ main' = "join" /\ stop' = TRUE
  /\ UNCHANGED <<status, signalled, server, cause, conn, reset, queue>>

\* mutant: the JoinError is ignored as well.
JoinServerIgnoringPanic ==
  /\ main = "join" /\ server \in {"returned", "panicked"}
  /\ End("ok")
  /\ UNCHANGED <<signalled, stop, server, cause>>

\* mutant: the outcome of the task is passed on as it is.
JoinServerOutcome ==
  /\ main = "join" /\ server \in {"returned", "panicked"}
  /\ End(server)
  /\ UNCHANGED <<signalled, stop, server, cause>>

\* spawn.await?: the tasks of the connections are not waited for.
JoinServer ==
  /\ main = "join" /\ server \in {"returned", "panicked"}
  /\ End(IF server = "returned" THEN "ok" ELSE "error")
  /\ UNCHANGED <<signalled, stop, server, cause>>

----------------------------------------------------------------------------
(* HttpServer::serve.                                                      *)

\* serve returns: the listener and an accepted stream are dropped, and the
\* kernel resets what was queued.  `serve(rx).await.unwrap()` panics on an
\* error; the panic ends this task only.
ServeReturns(how, why) ==
  /\ server' = how /\ cause' = why
  /\ conn' = [c \in Conns |-> IF conn[c] = "served" THEN "served" ELSE "none"]
  /\ reset' = {} /\ queue' = <<>>

Bind ==
  /\ Alive /\ server = "bind"
  /\ \/ server' = "accept" /\ UNCHANGED <<cause, conn, reset, queue>>
     \/ ServeReturns("panicked", "bind")
  /\ UNCHANGED <<main, status, signalled, stop>>

\* accept takes the first queued connection, also one its peer has reset.
Accept ==
  /\ Alive /\ server = "accept" /\ queue # <<>> /\ FdsInUse < FdLimit
  /\ server' = "accepted"
  /\ conn' = [conn EXCEPT ![Head(queue)] = "accepted"]
  /\ queue' = Tail(queue)
  /\ UNCHANGED <<main, status, signalled, stop, cause, reset>>

\* Or the kernel reports the reset: a connection error, and accept continues.
AcceptConnectionError ==
  /\ Alive /\ server = "accept" /\ queue # <<>> /\ Head(queue) \in reset
  /\ conn' = [conn EXCEPT ![Head(queue)] = "none"]
  /\ reset' = reset \ {Head(queue)}
  /\ queue' = Tail(queue)
  /\ UNCHANGED <<main, status, signalled, stop, server, cause>>

\* Any other error of accept, such as EMFILE, is returned.
AcceptError ==
  /\ Alive /\ server = "accept" /\ queue # <<>> /\ FdsInUse >= FdLimit
  /\ ServeReturns("panicked", "accept")
  /\ UNCHANGED <<main, status, signalled, stop>>

\* mutant: the connection is served by the loop and not by a task of its own.
DispatchInline ==
  /\ Alive /\ server = "accepted"
  /\ \E c \in Conns :
       \/ /\ conn[c] = "accepted" /\ c \notin reset
          /\ conn' = [conn EXCEPT ![c] = "served"]
          /\ UNCHANGED <<server, cause, reset, queue>>
       \/ /\ conn[c] = "accepted" /\ c \in reset
          /\ ServeReturns("panicked", "peer_addr")
       \/ /\ \A d \in Conns : conn[d] \notin {"accepted", "served"}
          /\ server' = "accept"
          /\ UNCHANGED <<conn, cause, reset, queue>>
  /\ UNCHANGED <<main, status, signalled, stop>>

\* peer_addr()? fails on a connection that is reset by now; otherwise a task
\* is spawned for it.
Dispatch ==
  /\ Alive /\ server = "accepted"
  /\ \E c \in Conns :
       /\ conn[c] = "accepted"
       /\ \/ /\ c \notin reset
             /\ server' = "accept" /\ conn' = [conn EXCEPT ![c] = "served"]
             /\ UNCHANGED <<cause, reset, queue>>
          \/ /\ c \in reset
             /\ ServeReturns("panicked", "peer_addr")
  /\ UNCHANGED <<main, status, signalled, stop>>

\* mutant: the stop channel is polled only when no connection is queued.
StopServingWhenQuiet ==
  /\ Alive /\ server = "accept" /\ stop /\ queue = <<>>
  /\ ServeReturns("returned", cause)
  /\ UNCHANGED <<main, status, signalled, stop>>

\* mutant: the listener outlives serve.
StopServingStillListening ==
  /\ Alive /\ server = "accept" /\ stop
  /\ server' = "returned"
  /\ UNCHANGED <<main, status, signalled, stop, cause, conn, reset, queue>>

\* The other branch of the select.
StopServing ==
  /\ Alive /\ server = "accept" /\ stop
  /\ ServeReturns("returned", cause)
  /\ UNCHANGED <<main, status, signalled, stop>>

----------------------------------------------------------------------------
(* Connections and the environment.                                        *)

\* The task of a connection ends: done, with an error or by a panic.
Finish(c) ==
  /\ conn[c] = "served"
  /\ conn' = [conn EXCEPT ![c] = "none"]
  /\ UNCHANGED <<main, status, signalled, stop, server, cause, reset, queue>>

Connect(c) ==
  /\ Listening /\ Alive /\ conn[c] = "none"
  /\ conn' = [conn EXCEPT ![c] = "queued"]
  /\ queue' = Append(queue, c)
  /\ UNCHANGED <<main, status, signalled, stop, server, cause, reset>>

PeerResets(c) ==
  /\ conn[c] \in {"queued", "accepted"} /\ c \notin reset
  /\ reset' = reset \cup {c}
  /\ UNCHANGED <<main, status, signalled, stop, server, cause, conn, queue>>

Interrupt ==
  /\ Alive /\ ~signalled
  /\ signalled' = TRUE
  /\ UNCHANGED <<main, status, stop, server, cause, conn, reset, queue>>

----------------------------------------------------------------------------

MainStep == ReadConfig \/ RegisterSignals \/ Killed \/ SendStop \/ JoinServer

AcceptStep == Accept \/ AcceptConnectionError \/ AcceptError

ServerStep == Bind \/ AcceptStep \/ Dispatch

Environment == Interrupt \/ \E c \in Conns : Finish(c) \/ Connect(c) \/ PeerResets(c)

Next == MainStep \/ ServerStep \/ StopServing \/ Environment

Spec == Init /\ [][Next]_vars

\* The runtime polls both tasks.  The loop leaves the select for a moment with
\* every stream it accepts; as select! polls its branches in a random order, a
\* stop that stays ready is taken in the end (SF).  Clients need not finish.
Fairness == WF_vars(MainStep) /\ WF_vars(ServerStep) /\ SF_vars(StopServing)

FairSpec == Spec /\ Fairness

----------------------------------------------------------------------------
(* Properties.                                                             *)

\* The accept queue and the states of the connections agree: a connection is
\* queued once, the loop holds at most one accepted stream, and no stream or
\* queue outlives the listener or the process.
ConnectionsAccounted ==
  /\ ToSet(queue) = {c \in Conns : conn[c] = "queued"}
  /\ Len(queue) = Cardinality(ToSet(queue))
  /\ ~Listening => queue = <<>>
  /\ Cardinality({c \in Conns : conn[c] = "accepted"})
       = IF server = "accepted" /\ Alive THEN 1 ELSE 0
  /\ \A c \in reset : conn[c] \in {"queued", "accepted"}
  /\ ~Alive => \A c \in Conns : conn[c] = "none"

\* The process ends well only if serve returned because it was told to: an
\* accept loop that died before shows in the exit status.
OkMeansStopped == status = "ok" => server = "returned" /\ signalled /\ cause = "none"

\* No connection waits in the queue for ever: the loop takes it, or drops it
\* with the listener when it ends, however long the accepted ones last.
QueuedResolved == \A c \in Conns : (conn[c] = "queued") ~> (conn[c] # "queued")

\* The process is what the controller's supervisor takes it for.
phase == CASE main = "connect" -> "boot"
           [] main = "ended"   -> "dead"
           [] OTHER            -> "serve"
Child == INSTANCE ChildProcess WITH sig <- signalled
IsChildProcess == Child!Spec

\* tcp/listener.rs, TcpListener::accept: "Connection errors can be ignored
\* directly, continue by accepting the next request."
ResetConnectionIgnored == cause # "peer_addr"

\* tcp/listener.rs, is_connection_error: "All other errors will incur a timeout
\* before next accept() is performed.  The timeout is useful to handle resource
\* exhaustion errors like ENFILE and EMFILE."
ExhaustionWaitedOut == cause # "accept"
=============================================================================
