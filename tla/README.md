# chaos-tproxy: TLA+ specification, model checking and proofs

chaos-tproxy injects faults into the HTTP traffic of a host. The *controller*
moves the host's traffic through a network namespace (two bridges, two veth
pairs, the host's IPv4 address on a new interface, routes, ebtables and iptables
rules), starts a *sub-proxy* in that namespace, and puts everything back when it
is told to. This directory holds TLA+ modules of that program, TLC
configurations that check them, and proofs checked by TLAPS. Paths below are
relative to the repository; `controller/` and `proxy/` abbreviate
`chaos-tproxy-controller/src/` and `chaos-tproxy-proxy/src/`.

## 1. Inventory

| Component | Source | State | Operations |
|---|---|---|---|
| main | `controller/main.rs`, `cmd/command_line.rs` | mode, signals | file mode: `Proxy::new`, `reload`, wait for SIGINT/SIGTERM, `stop`; interactive mode: `serve_interactive`, wait, `ConfigServer::stop`, `exit(0)` |
| Configuration server | `controller/cmd/interactive/` | `Arc<Mutex<Proxy>>`, server task, stop channel, one HTTP connection over stdio | `call`, `handle` (PUT only), `read_config`, `stop` |
| Proxy | `controller/proxy/exec.rs` | `net_env`, `opt` (socket path), `sender`, `rx`, `task` | `new`, `exec`, `stop`, `reload`, supervisor task with a `select!` |
| Network set-up | `controller/proxy/net/{bridge,set_net,routes,arp,ping}.rs` | `NetEnv` (names, device, ip, saved routes); the host itself | `setenv_bridge`, `set_net`, `clear_bridge`, netlink queries |
| Packet rules | `controller/proxy/net/iptables.rs` | tables of host and namespace | `set_iptables`, `set_iptables_safe`, `clear_ebtables` |
| Hand-over | `controller/proxy/uds_server.rs`, `proxy/uds_client.rs` | a Unix socket per `exec`, never closed | `bind`, `listen`, `read_into` |
| Controller configuration | `controller/{raw_config,proxy/config}.rs` | none | `Config::try_from`, `get_free_port` |
| Sub-proxy process | `proxy/{lib,signal}.rs` | stop channel, server task | `proxy_main`, `Signals` |
| Accept loop | `proxy/proxy/http/server.rs` 44-93, `proxy/proxy/tcp/` | listener | `serve`, `bind`, `accept` |
| Connection handling | `proxy/proxy/http/{server,connector}.rs` | stream, parts | `serve_http_with_error_return`, `serve_https`, `handle`, TCP relay |
| Rules | `proxy/handler/http/` | none; applied by `handle` | `select_request`, `select_response`, `apply_*_action` |
| Sub-proxy configuration | `proxy/raw_config.rs` | none | conversions, TLS files |

**Interactions.** `main` and the configuration server share the Proxy through a
tokio mutex, which hands the lock to whoever waits for it. `reload` calls `stop`,
`Proxy::new` and `exec`; `exec` binds the socket, calls `set_net` and spawns the
supervisor. The supervisor hears of a stop by a oneshot channel, and sends the
sub-proxy SIGINT. The sub-proxy reads its configuration from the socket. The
host's network is shared with the kernel (link-scope routes appear and vanish
with addresses, namespaces are destroyed late) and with a network manager.

**What is hard.** Set-up and tear-down are some thirty fallible commands with no
transaction around them; a `reload` can be dropped at an `await`; the old
sub-proxy is not waited for; the next session reads the host's state to learn
what to restore later; signals race with everything; the accept loop dies of
errors the code means to survive. The list of hazards, each at its line and with
the properties that cover it, is in `PROJECT.json`.

**What makes each component correct.**
- *Proxy and network:* with no session the host's network is the site's own;
  with a session all traffic is diverted; nothing of an earlier session disturbs
  a later one.
- *Supervision:* no sub-proxy is lost; it is told to stop before its namespace
  goes; it and its interfaces vanish afterwards.
- *Configuration server:* an answer tells the state of the Proxy; a good
  configuration is accepted; a reload and a shutdown end.
- *Sub-proxy:* it behaves as the supervisor assumes; its exit status is true; no
  connection is stuck in the queue.
- *Connection handling:* every byte of the client is part of one request or
  reaches the target once and in order; answers belong to their requests; both
  connections end.
- *Rules:* what the target and the client get is what the selected rules mean
  together; a message does not lie about its length.
- *Packet rules:* connections to the configured ports are taken over and last;
  the others are left alone, also while a session comes and goes.

## 2. Modules

| Module | Models |
|---|---|
| `HostNetwork` | the host's network as one record (`dns`, `bak`, `ns`, `links`, `master`, `addr`, `routes`, `nat`) and one operator per command or netlink request: `AddrDel` flushes the interface's routes, `AddrAdd` makes the link-scope route, `RouteAdd` refuses what the kernel refuses, `NsDestroy` removes the veth pairs |
| `Controller` | the controller process: `main`, the configuration server, `Proxy`, the set-up and tear-down one command per action, the supervisors and the sub-proxies as the controller sees them |
| `ChildProcess` | abstract: what the controller relies on of a sub-proxy process |
| `Switch` | abstract: what the controller promises to whoever runs it |
| `SubProxy` | `proxy_main`, the accept loop, connections as holders of descriptors |
| `Rules` | pure: conversion of configured actions, selectors, what an action does to a request or response |
| `RuleMeaning` | reference definition: what a list of actions means, field by field of the message |
| `HttpConnection` | one accepted connection: the loop around hyper, `handle` with its rules, the TCP relay; client, target and hyper as environment |
| `Diversion` | one TCP connection through the ebtables and iptables rules while a session comes and goes; `get_free_port` |
| `ControllerProofs`, `HostProofs` | theorems about `Controller` |
| `SubProxyProofs`, `DiversionProofs` | theorems about `SubProxy` and `Diversion` |
| `HttpConnectionProofs`, `ExchangeProofs` | theorems about `HttpConnection`: the stream and its order; the messages, the rules and their lengths |
| `RuleProofs` | lemmas about `Rules` and `RuleMeaning` that `ExchangeProofs` cites |
| `IntervalProofs` | lemmas on the naturals and their intervals (least and greatest element, induction stated of a set), cited by `HostProofs`, `DiversionProofs` and `RuleProofs` |
| `MCController`, `MCSubProxy`, `MCHttpConnection`, `MCDiversion` | instances for TLC |

`Controller` EXTENDS `HostNetwork`; `HttpConnection` EXTENDS `RuleMeaning`, which
EXTENDS `Rules`. `ChildProcess` joins the two processes: the
run `controller_live` checks that a sub-proxy as `Controller` moves it implements
`ChildProcess` (property `ChildIsChildProcess`, under the mapping
`phase <- proc[1].child, sig <- proc[1].sig`), and the run `sub_proxy` that the
sub-proxy's own program does (`IsChildProcess`, under the mapping of `main` to
`phase`).

`Switch` is the controller seen from outside: the traffic takes the site's own way
or is diverted through one session, in between only while an operation works on
it. `Controller` implements it (`ControllerIsSwitch`, in `controller_live`): `Way`
reads the way of the traffic off the host (`resolv.conf` is no part of it), a
session is on from the moment the sub-proxy's task is stored until `stop` takes
it, and the promise is void (`broken`) once a tear-down command has failed or a
reload was dropped. That an operation ends is stated in `Switch` as a leads-to
formula and not as fairness, because TLC cannot evaluate ENABLED of an action
under the mapping.

**State of `Controller`.** `op` is the operation on the Proxy under way: `pc` is
the command or `await` it has reached, `cfg` the configuration, `join` the
`JoinHandle` that `stop` has taken, `rest` the routes `load_routes` has still to
add. At most one operation is under way, because the callers hold the mutex or,
in file mode, are `main` itself. `proxy` is the struct `Proxy`: `gen` stands for the
`NetEnv`, socket path and stop channel that `Self::new` makes together (its
random prefix is fresh, so a number is), `device` and `saved` are the fields of
`NetEnv` read from the host, `task` and `sender` the Options of the struct.
`proc[g]` holds what outlives the struct: supervisor task, stop message, process,
pending SIGINT, the configuration served by the socket and the one the process
has read. `conn` and `reply` are the connection and its last answer (`refused`
stands for 405 and 400, `error` for a connection closed because `reload` failed),
`main` the main task, `lock` the mutex.

**Actions.** One per command with an effect on the host outside the namespace.
Commands that only act inside the namespace (and sysctl, arp, link up) are
counted with the neighbour they follow: they cannot be seen from the host, and
their failure is the same as that of the neighbour. `Command` is `execute`: the
command works, or the host refuses it, or a fault strikes, with or without the
command's effect, because `execute` takes any output on stderr for a failure.
Failure leads to `clear_bridge` as in `reload`. `Teardown` is
`execute_all_with_log_error`: a failed command is skipped. `Eof` is the end of
stdin in the middle of a request, which drops the future of `reload` at an
`await`. `Signal` kills the process if the handlers are not installed yet.
`JoinServer` ends the process by `exit(0)`; but if the configuration server's task
has panicked, `handler.await?` fails, `main` returns an error instead, and the
runtime is dropped (`main = "drop"`), which waits for a blocking read of stdin if one
has begun. Nothing runs then, signals are still swallowed, and `StdinReturns` (input,
or the end of stdin) lets the process end.

**`HttpConnection`.** The client's `stream` is a sequence of segments: `request`, one
that arrives as a whole; `start` and `end`, the halves of one cut within its head;
`head` and `body`, one whose body comes later; and `junk`. `sent`, `read`
and `base` are positions in it: what the client has sent, hyper has read, and
hyper or the relay has consumed, so that `base + 1 .. read` is the `read_buf`
that `Parts` hands over. `pc` is where the task is: `handshake` and `http` in
`serve_https` and in the loop of `serve_http_with_error_return`; `request`, `wait`,
`response` inside `HttpService::handle`; `drain` if the answer is out and the request
is not all there; `parts` after an upgrade; `bind`, `replay`, `relay` in the TCP
fallback; otherwise the way it ended (`truncated`: the target broke off a response
that was being written). `ex` is the
exchange under way, with the rules `todo` that were selected when it began and, once
more, when its response was there. `handle` is called with the head of a request, and
has the head of the response when it selects rules for it: a message in `ex` has the
body it is going to have, and `ex.fromClient` and `ex.fromTarget` say whether the stream
of that body has come, is coming, broke off or is not wanted any more. A rule that
reads the body waits for it (`ReadsRequestBody`, `ReadsBody` are the guards of
`ApplyToRequest` and `ApplyToResponse`) and fails if it broke off; one that replaces
it drops the stream; a body no rule reads goes through while it comes. `bodies` are the
positions that were read as such. `up` is the connection to the target, bound to the client's own
address, which stays in use (`closing`) for a while after it is dropped: the next
request on a keep-alive connection may find it so and get a 502. The actions are
the reads and outcomes of hyper's server, one rule at a time (each may be an
await), forwarding, answering, the arrival of either body or its end before its time
(`ReadBody`, `BodyBreaks`, `TargetSendsBody`, `TargetDropsBody`, `ResponseBreaksOff`,
`Drained`), each way of `copy_bidirectional`, and `Cancel`, which drops the service at
any await when the client has gone after its request.

The fork of hyper is not in the repository. From how it is used: a parse error
returns the parts with what was read, if `error_return` is set; after 101 the
result is `Ok` with parts; an end of stream within a message is an error, but not
of the parser; the connection is read once more while the service works if
`read_buf` is empty, and a service whose client has closed is dropped. While the body
of the request is still coming, the end of the stream is the error of that body
instead, and the service goes on. A response is delivered when its body is: hyper then
closes the connection or takes the next request, for which it needs all of the last
one.

**`Rules`.** An Option is a set of at most one element, a wildcard pattern the set
of paths it matches, headers and queries are functions from names to lists of
values, a body is a JSON object or `Text`. The operators follow the order of the
code: `InsertAll` keeps the last value of each name, `ReplaceQueries` passes the
old query through a map, `WithBody` drops Content-Length. `read_value` fails in two
ways: `PatchBody` is an error if all of the body has come and is no JSON;
`ReadsBody` and `ReadsRequestBody` say which actions take the stream a message came with
to its end, so that `HttpConnection` lets them wait for it and fail with it.
`RuleMeaning` does not apply actions: it looks for the last action that gives a value
and for what was appended since; `LooksAtBody` says whether a list of actions looks at
the body a message came with, `ChangesBody` whether it has a say in it at all.

**`Diversion`.** `ports`, `safe` and `listen` are the configuration, `end` the two
ends of the connection, `rules` how far the tables are filled (nothing, those of
`set_iptables`, those of `set_iptables_safe` as well, set up in this order before the
sub-proxy starts), `leg` the state of the connection. `Verdict` is the way of a
segment through broute, the exemptions of safe mode, DIVERT and TPROXY. Port
numbers are constants that keep their order (ssh < 81 < 1025 < 65535).

**History variables.** `lossy` records that a tear-down command failed, `dropped`
that a reload was dropped or panicked in `set_net`: nothing in the code repairs
the host then, and the properties about the host say so openly. The findings
below show the consequences.

## 3. Runs

| Run | Checks | Result |
|---|---|---|
| `controller` | `TypeOK`, `RestoredWhenStopped`, `SessionIsDiverted`, `NoStrayProxy`, `AnswerTellsTheState`, `GoodConfigAccepted`, `StopPrecedesTeardown` | hold, 769 thousand states |
| `controller_live` | `ReloadEnds`, `SignalStops`, `StoppedSessionVanishes`, `ChildIsChildProcess`, `ControllerIsSwitch` | hold, 71 thousand states |
| `sub_proxy` | `TypeOK`, `ConnectionsAccounted`, `OkMeansStopped`, `QueuedResolved`, `IsChildProcess` | hold, 1.3 thousand states |
| `connection` | `TypeOK`, `StreamAccounted`, `AnswersInOrder`, `ForwardedAsRuled`, `AnsweredAsRuled`, `AbortedAsRuled`, `LengthTrue`, `RelayedWhole`, `RequestResolved`, `JunkReachesTarget`, `HalfClosePassedOn`, `ConnectionEnds` | hold, 193 thousand states |
| `diversion` | `TypeOK`, `OthersUntouched`, `NoneSlipsThrough`, `ListenPortApart`, `ProxiedLasts`, `SynTaken` | hold, 293 thousand states |
| `patch_headers` | `PatchHeadersAppended` | violated: of two values a patch lists for one header, one is appended |
| `empty_ports` | `EmptyPortsRecover` | violated: the documented recovery request fails |
| `dropped_reload` | `OkMeansRecovered` | violated: 200 without recovery after a dropped reload |
| `ipv6_host` | `GoodConfigAccepted` on a host with IPv6 | violated: 400 while a session is in force |
| `stalled_body` | `SignalStops` without helpful clients | violated: the mutex is held while the body is awaited |
| `reset_connection` | `ResetConnectionIgnored` | violated: `peer_addr()?` ends the accept loop |
| `fd_exhaustion` | `ExhaustionWaitedOut` | violated: EMFILE ends the accept loop |

What each property says, and of which code, stands above it in its module. Each
violation contradicts a sentence of the README or of a comment, quoted in
`PROJECT.json`.

**Bounds.** `MaxGen` bounds the number of `NetEnv`s a controller creates. Two are
needed for what one session does to the next (stale routes, a late namespace, a
second configuration); a third would meet the same code with the same inputs,
because `Self::new` replaces everything a session keeps. `MaxFaults` = 1 puts a
failure at any one command, process or panic of a behaviour. Two configurations
with ports suffice to tell which one is served (they are symmetric in the safety
run). Requests without ports and ill-formed requests are not bounded. The run
`controller` has a constraint, `OneSessionAfterDrop`: once a reload was dropped, the
second `NetEnv` is the last state followed. What that leaves out is a session on a
host nobody has repaired, of which the properties of the host say nothing
(`dropped` makes them void); those that still speak there (`NoStrayProxy`,
`AnswerTellsTheState`, `StopPrecedesTeardown`) are proved without any bound. For
liveness one generation is enough: the properties speak of one operation, one
signal and one process. In `SubProxy` three clients with two descriptors fill the
queue and the table at once.

In `HttpConnection` the streams cover keep-alive requests, a head that comes in two
pieces, junk after a request and in place of a head's end, and a request whose body
follows its head, is missing, or is followed by a second request. The
responses are one with a JSON body, one whose body is no JSON, a 304 with the length
of a body it does not have, and an upgrade.
The configurations are all pairs of four rules for requests and four for
responses, so that each rule is applied before and after each other one and to a
message another one has changed, and pairs with aborts, bad Host headers, a path
that does not parse, roles, and TLS. Two rules are enough to tell selection on
the original from selection on the changed message and to have each field set and
set again. `MaxReplies` = 1 bounds what the target sends in a relay. In
`Diversion` six ports stand for 65535: one below ssh, ssh, 81, 1025 and two
above, with every set of ports, every pair of ends and both modes. `MultiportMax` = 2 stands
for 15.

**Deadlock** is checked in the controller's and the connection's runs: the only
states without a step of the program are those after its end, where `Ended`
stutters. `SubProxy` really stops after the end of the process, and a session of
`Diversion` may be stopped for good; their runs switch the check off.

**Fairness.** The tokio runtime polls every ready task and the kernel schedules
every process, so operations, supervisors, `main`, the server's shutdown and the
sub-proxies are weakly fair. Nobody is obliged to send a request, a signal or a
fault, or to end stdin. `FairClientSpec` adds that a client which has sent the head of
a request sends the rest; `SignalStops` needs it, as `stalled_body` shows. Its second
half, that the process ends and not only `main`, has as its premise that stdin gives
something to read or ends (`WF_vars(StdinReturns)`): it matters after a panic of the
configuration server's task. In `SubProxy`
the stop branch is strongly fair: the loop leaves the `select!` for each
accepted connection, and `select!` polls its branches in random order. In
`HttpConnection` hyper, the service and the relay are polled by the runtime. The target
answers a request, or its connection fails, once it has all of it, and it sends
the body of its response or breaks off (`TargetSendsBody`): `handle` has no time limit,
so without this `RequestResolved` would be false. Nobody obliges a client to send
or close, nor the target of a relay to close. A rule that patches the body of a request
awaits it without limit, before the target is asked, and a target may wait for
the body as well, so `RequestResolved` has as its premise that a client whose request
has a body sends it or closes (`ClientFinishes`), and `ConnectionEnds` that the target
of a relay closes. In `Diversion` a set-up goes on (`SetIptablesSafe`, `Listen`) and
TCP sends a SYN again; nothing makes a session begin or end.

## 4. Proofs

**The controller.** `ControllerProofs` proves, for every number of generations,
every set of configurations, both kinds of host and every number of faults (assumptions
`HostAssumption` and `ControllerAssumption`):

- `TypeCorrect`: `Spec => []TypeOK`.
- `SubProxiesAccounted`: `Spec => []NoStrayProxy`.
- `TeardownAfterStop`: `Spec => StopPrecedesTeardown`.
- `AnswersAreTrue`: `Spec => []AnswerTellsTheState`.
- `OperationsExclude`: `Spec => []LockInv`, the mutual exclusion on which keeping
  one `op` for all operations rests.

The argument of the first three is the invariant `IInv`, five conjuncts:

- `TypeOK` is not inductive: `Self::new` counts `gen` up, and only a reload that
  has a generation left may get there.
- `GenInv` says which reloads have one: those whose request was admitted by the
  bound, from their first step to `NewEnv`.
- `EnvInv` relates the struct to the operation: a task belongs to the current
  `NetEnv` and its sender to the same; from the moment `stop` has taken the task
  there is none; a set-up works on a generation whose supervisor does not exist
  yet; a tear-down on one whose supervisor does not exist or has been told to
  stop.
- `ProcInv`: generations are spawned in order, and no process precedes its
  supervisor.
- `NoStrayProxy` itself.

The last clause of `EnvInv` is what makes `TeardownAfterStop` follow: deleting the
namespace is possible only in the tear-down. `NetnsKept` shows that every other
action leaves the named namespaces alone. Steps are grouped by what they leave
alone (`SetupFrame`, `TeardownFrame`, `ProcFrame`, `OtherFrame`), with one lemma
per group that such a step preserves `IInv`, and one that the actions are such
steps.

`AnswersAreTrue` needs three more conjuncts, inductive together with `IInv`.
`LockInv` says that mutex, connection and `main` agree on who works on the Proxy,
so that nobody changes it between an answer and the next request. `CfgInv` follows
the configuration from the request to the socket and the sub-proxy: a set-up is
under way only for a configuration with ports, the socket of its generation
serves that one once it is bound, and a sub-proxy has what its socket serves. The
sockets are never closed, so this is also why a late sub-proxy of an earlier
session cannot get a newer configuration. `AnswerInv` is the property without the
sub-proxy, and that a request under way has no answer yet. An operation goes on
(`WorkPreserves`), returns (`ReturnPreserves`) or panics (`PanicPreserves`); one
lemma per group of actions reduces them to these.

**The host.** `HostProofs` proves `SessionsDivert` (`SessionIsDiverted`),
`HostIsRestored` (`RestoredWhenStopped`) and, for hosts without IPv6,
`GoodConfigsAccepted` (`GoodConfigAccepted`). None of them says anything about the
middle of an operation, so `HostInv` does, as long as the run is `Undisturbed`:
`Stage` tells for each command of set-up and tear-down what of the way through the
namespace is `Built`, where address and routes are (`Routed`: the removal of the
address may have failed, and the next route is then refused) and what clear_bridge
has `Undone`. A tear-down begins with nothing known but `OthersGone`, that no other
generation has a name on the host: it has to undo whatever a failed set-up left, and
the proof shows it does so without looking at where that had stopped. `DnsInv`
follows resolv.conf and its backup. One lemma per group of commands takes a stage
to the next (`NetnsLinks`, `AddressMoves`, `TablesFilled`, `Clearing`,
`LoadingRoutes`); `ReapKeeps` shows that the destruction of a namespace, which may
come at any time, disturbs no stage. That a new operation finds the host settled
is `LockInv` again.

**The refinements.** `ControllerStepsSwitch` follows from `HostInv`: every step of
`Controller` is a step of `Switch` or leaves what that sees alone. `StopInv` is
needed besides: nothing is set up after main's stop. `ControllerStepsChild` is the
same for `ChildProcess`; with `SubProxyStepsAreChilds` below it joins the two
programs: what the one takes for granted the other provides.

**The sub-proxy.** `SubProxyProofs` proves, for any set of clients and any number of
descriptors, `TypeOK`, `AllConnectionsAccounted` (`ConnectionsAccounted`),
`OkOnlyIfStopped` (`OkMeansStopped`), and `SubProxyStepsAreChilds`: its start and
each of its steps are those of `ChildProcess` or leave it alone, the safety half
of `IsChildProcess`. The invariant `SInv` adds to the types that main, signal and
server agree (`ProcInv`) and that only waiting streams are queued, each once
(`QueueInv`).

**A connection.** `HttpConnectionProofs` proves, for all streams, rules, responses
and bounds (`RulesAssumption`, `ConnectionAssumption`), `TypeOK`,
`ClientStreamAccounted` (`StreamAccounted`), `RelayCarriesAll` (`RelayedWhole`) and
`AnsweredInOrder` (`AnswersInOrder`). `StreamAccounted` is not inductive: it does
not say where the relay began. `HInv` splits what is consumed into `Consumed`, by
HTTP, and the rest, by the relay, which must be the interval that follows;
`PhaseInv` says that there is no relay before the fallback, `ShutInv` what the
end of either direction means. `OrderInv` relates the histories to the exchange
under way: its position is the last one taken, and larger than any forwarded as
long as it has not been forwarded itself. `ExchangeProofs` proves `LengthsAreTrue`
(`LengthTrue`): one lemma per operator of `Rules` says that it keeps a message's length
true or fails, and `LengthInv` follows the message from hyper to the target and back.
The property speaks of messages that came with the length of their body
(`TrueLength`); a response to HEAD or a 304 has that of a body it comes without, and
`MessageAssumption` says no more than that messages have their types.

**The rules.** `ExchangeProofs` proves, for all streams, messages, answers and lists of
rules of any length (`RulesAssumption`, `MessageAssumption`, `ConfigAssumption`,
`ConnectionAssumption`), that the program's handling of rules agrees with `RuleMeaning`:

- `ForwardsAsRuled` (`ForwardedAsRuled`): what the target gets is the client's request
  as the rules selected for it mean it, taken together; and a body the rules have a say
  in is never the stream of the client.
- `AnswersAsRuled` (`AnsweredAsRuled`): likewise what the client gets, with the
  rules selected for the request as forwarded and the target's answer as it came, or
  the 502 in its place.
- `AbortsAsRuled` (`AbortedAsRuled`): a connection is aborted only if the rules for
  its last request, or for the response to it, mean an error (one of them aborts, or cannot be
  applied), or look at its body (`LooksAtBody`) and that broke off, or the request they
  left has no usable Host.

The program changes the message rule by rule; `RuleMeaning` looks, field by field, for
the last rule that sets it and for what was appended since. `RuleProofs` bridges
the two. For each field one lemma says what one more action at the end of a list
does to its meaning (`FieldsAppend`, `HeaderAppend`, `ParameterAppend`, `BodyAppend`,
`LengthAppend`, `FailsAppend`). Two of these are not provable of the field alone:
the old values of a parameter matter only through the last one (`LastParameter`), and
whether a patch of the body fails depends on whether the body so far is JSON
(`BodySays`). `RequestAction` and `ResponseAction` say that the operators of `Rules` do
the same to the message, so that `RequestStep` and `ResponseStep` take what k actions
mean to what k + 1 mean. Filtering a list and picking a name's values are folds
(`FlattenSeq`); `FlattenAppend` says how they grow with the list and `FlattenType`
what they consist of, and the other proofs use nothing else.

The induction over the list is done by the behaviour of the program, not in the
logic: the invariant `RuleInv` says that the rules still `todo` are the end of the
selected ones and that the message is what those before them mean
(`InRequest`, `InResponse`); `RequestGoesOn` and `ResponseGoesOn` are its steps. A rule that fails
ends the exchange, and `FailsPrefix` shows that the whole list fails then. The invariant
also relates the two streams to the rules applied so far: as long as one is coming or
broke off (`Pending`) no rule has touched that body (`StillPending` is the step), so a rule that reads it is
one by which the list looks at the body the message came with. Besides
it needs `ConfigInv`, that the converted rules have their types, and `OrderInv`: an
abort concerns the last request taken, which is the one under way.

**The diversion.** `DiversionProofs` proves, for all port numbers in the order of
the code (`DiversionAssumption`), `TypeOK`, `OthersLeftAlone` (`OthersUntouched`),
`AllTaken` (`NoneSlipsThrough`), `ListensApart` (`ListenPortApart`) and `TakenLasts`
(`ProxiedLasts`). `DInv` adds that the sub-proxy listens only once the rules are
complete, and that a connection with sockets of the sub-proxy needs one that
listens. `get_free_port`
is a CHOOSE of a least element; that there is one (`LeastElement`, in
`IntervalProofs`) is shown by way of the free initial segments of the range. The
library's induction theorems take an operator, which no prover here can instantiate;
`SetInduction` and `GreatestElement` state induction of a set and follow from the
well-foundedness of `<`.

**Only model-checked.** Every invariant and action property that a run checks to
hold is proved. What stays with TLC, because TLAPS has no rule for ENABLED and
fairness, is liveness (`ReloadEnds`, `SignalStops`, `StoppedSessionVanishes`,
`QueuedResolved`, `RequestResolved`, `JunkReachesTarget`, `HalfClosePassedOn`,
`ConnectionEnds`, `SynTaken`) and the fairness half of the three refinement
properties (`ChildIsChildProcess`, `ControllerIsSwitch`, `IsChildProcess`), whose
steps are proved.

## 5. Not modelled

- HTTP/2, trailers, CONNECT, and the bytes of HTTP, stdio and configuration. The
  rebuilding of the URI's authority from Host is modelled as far as it can fail.
- TLS: the handshake succeeds or fails; certificates and the choice of the
  server name are left out. So is the loading of certificate and key files.
- Raw values the conversion of `raw_config.rs` refuses: the sub-proxy then ends
  before it listens, which `SubProxy` has as one outcome of `ReadConfig`.
- Delays as time (a rule with a delay is one of the awaits between steps); JSON
  patches of nested objects; a Content-Length set by a rule.
- ARP announcements and the gateway pinger, which have no effect on modelled
  state; sysctl and `br_netfilter`; option parsing.
- The effects of an ebtables flush on rules the host had before.
- More than one physical device, and more than two routes of the site.
- The keys `update_content_length`, which no code knows, and `interface`, which
  is parsed and not used, of the README's example.

## 6. Plan

1. Several connections of one client at once, which share the converted
   configuration and the client's address.
2. The route filter's comparison of addresses (`bridge.rs` 214) and hosts with
   several addresses on the device.
3. Proofs: the order of rules that commute (a list of replacements of different
   fields means the same in any order), as lemmas of `RuleMeaning`.
