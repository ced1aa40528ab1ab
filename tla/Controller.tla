----------------------------- MODULE Controller -----------------------------
(***************************************************************************)
(* The controller process of chaos-tproxy: main, the interactive           *)
(* configuration server, Proxy::{new, exec, stop, reload} with the network *)
(* set-up and tear-down they run, the task that supervises a sub-proxy,    *)
(* the Unix socket that hands over its configuration, and the sub-proxy    *)
(* process as far as the controller can see it.                            *)
(*                                                                         *)
(* At most one operation on the Proxy is under way (the Mutex<Proxy>, or   *)
(* main alone in file mode): op.pc is the command or await it has reached. *)
(* Every set-up command can fail with or without having had its effect     *)
(* (execute only looks at stderr), every tear-down command can fail        *)
(* unnoticed: MaxFaults bounds these faults of the environment.            *)
(***************************************************************************)
EXTENDS HostNetwork

CONSTANTS
  Rules,        \* configurations that name at least one proxy port
  NoPorts,      \* the configuration without proxy_ports
  EmptyPorts,   \* a configuration with proxy_ports: []
  NoCfg,        \* no configuration
  Modes,        \* "interactive": chaos-tproxy -i, "file": chaos-tproxy FILE
  MaxFaults     \* bound on the number of environment faults

Configs == Rules \cup {NoPorts, EmptyPorts}

ASSUME ControllerAssumption ==
  /\ NoCfg \notin Configs /\ NoPorts # EmptyPorts /\ {NoPorts, EmptyPorts} \cap Rules = {}
  /\ Modes \subseteq {"interactive", "file"}
  /\ MaxFaults \in Nat

VARIABLES
  host,     \* the host's network, see HostNetwork
  op,       \* the operation on the Proxy that is under way
  proxy,    \* the Proxy: its NetEnv, task and sender
  proc,     \* per generation: supervisor task, sub-proxy, Unix socket
  lock,     \* who holds the Mutex<Proxy>
  main,     \* the main task
  conn,     \* the task of the configuration server and its connection
  reply,    \* the last answer of the configuration server
  faults,   \* number of environment faults so far
  lossy,    \* history: a tear-down step failed
  dropped   \* history: a reload was dropped at an await or by a panic of set_net

vars == <<host, op, proxy, proc, lock, main, conn, reply, faults, lossy, dropped>>

None == 0   \* Option::None where the value would be a generation

SetupPc ==
  {"bind", "gateway", "save_dns", "netns_add", "bridge1_add", "veth1_add",
   "veth4_add", "set_master", "addr_del", "addr_add", "route_add", "get_routes",
   "del_kernel_routes", "announce", "iptables", "ebtables", "dns_back", "spawn"}
TeardownPc ==
  {"netns_del", "bridge1_del", "addr_restore", "dns_restore", "nat_flush",
   "del_routes", "load_routes", "cleared"}
OpPc == {"idle", "stop", "await_task", "stopped", "new"} \cup SetupPc \cup TeardownPc

\* Where a reload can be suspended: netlink requests and the JoinHandle.
AwaitPc == {"new", "get_routes", "del_kernel_routes", "del_routes", "load_routes", "await_task"}

OpType == [pc : OpPc, cfg : Configs \cup {NoCfg}, join : Gens \cup {None}, rest : SUBSET Route]

ProxyType == [gen : Gens \cup {None}, device : Ifaces, saved : SUBSET Route,
              task : Gens \cup {None}, sender : Gens \cup {None}]

ProcType == [task  : {"none", "spawn", "run", "done"},
             stop  : BOOLEAN,
             child : {"none", "start", "boot", "serve", "dead"},
             sig   : BOOLEAN,
             uds   : Configs \cup {NoCfg},
             cfg   : Configs \cup {NoCfg}]

ReplyType == [cfg : Configs \cup {NoCfg}, status : {"none", "ok", "refused", "error"}]

TypeOK ==
  /\ host \in HostType
  /\ op \in OpType
  /\ proxy \in ProxyType
  /\ proc \in [Gens -> ProcType]
  /\ lock \in {"free", "handler", "main"}
  /\ main \in {"reload", "start", "wait", "lock", "stopping", "join", "drop", "exited", "killed"}
  /\ conn \in {"idle", "body", "lock", "op", "done", "panicked"}
  /\ reply \in ReplyType
  /\ faults \in 0 .. MaxFaults
  /\ lossy \in BOOLEAN
  /\ dropped \in BOOLEAN

Idle     == [pc |-> "idle", cfg |-> NoCfg, join |-> None, rest |-> {}]
Begin(c) == [pc |-> "stop", cfg |-> c, join |-> None, rest |-> {}]
NoReply  == [cfg |-> NoCfg, status |-> "none"]

NoProcess == [task |-> "none", stop |-> FALSE, child |-> "none", sig |-> FALSE,
              uds |-> NoCfg, cfg |-> NoCfg]

\* main: Proxy::new, then the first reload (file mode) or serve_interactive.
Init ==
  /\ host \in {SiteNetwork("missing"), SiteNetwork("older")}
  /\ proxy = [gen |-> None, device |-> Device, saved |-> SiteRoutes,
              task |-> None, sender |-> None]
  /\ proc = [g \in Gens |-> NoProcess]
  /\ reply = NoReply
  /\ faults = 0 /\ lossy = FALSE /\ dropped = FALSE
  /\ \/ /\ "interactive" \in Modes
        /\ main = "start" /\ lock = "free" /\ conn = "idle" /\ op = Idle
     \/ /\ "file" \in Modes
        /\ main = "reload" /\ lock = "main" /\ conn = "done"
        /\ \E c \in Configs : op = Begin(c)

\* The tasks run; "drop": main has returned and the runtime is being dropped.
Alive == main \notin {"drop", "exited", "killed"}

Fault == faults < MaxFaults /\ faults' = faults + 1

----------------------------------------------------------------------------
(* Processes started for a generation.                                     *)

\* UdsDataServer::bind and listen: the listener of g serves the configuration
\* exec was called with; it is never closed while the controller lives.
UdsListen(g, c) == proc' = [proc EXCEPT ![g].uds = c]

\* The task exec spawns runs `ip netns exec`, which may fail to start.
SpawnChild(g) ==
  /\ Alive /\ proc[g].task = "spawn"
  /\ \/ /\ proc' = [proc EXCEPT ![g].task = "run", ![g].child = "start"]
        /\ UNCHANGED faults
     \/ /\ Fault
        /\ proc' = [proc EXCEPT ![g].task = "done"]
  /\ UNCHANGED <<host, op, proxy, lock, main, conn, reply, lossy, dropped>>

\* select! on the sub-proxy's end and on the stop channel; the second kills
\* the sub-proxy with SIGINT and does not wait for it.
SelectWait(g) ==
  /\ Alive /\ proc[g].task = "run" /\ proc[g].child = "dead"
  /\ proc' = [proc EXCEPT ![g].task = "done"]
  /\ UNCHANGED <<host, op, proxy, lock, main, conn, reply, faults, lossy, dropped>>

\* mutant: the receiver ends the supervisor, not the sub-proxy.
SelectStopWithoutKill(g) ==
  /\ Alive /\ proc[g].task = "run" /\ proc[g].stop
  /\ proc' = [proc EXCEPT ![g].task = "done"]
  /\ UNCHANGED <<host, op, proxy, lock, main, conn, reply, faults, lossy, dropped>>

SelectStop(g) ==
  /\ Alive /\ proc[g].task = "run" /\ proc[g].stop
  /\ proc' = [proc EXCEPT ![g].task = "done", ![g].sig = TRUE]
  /\ UNCHANGED <<host, op, proxy, lock, main, conn, reply, faults, lossy, dropped>>

\* `ip netns exec` enters the namespace by its name, or fails.
EnterNetns(g) ==
  /\ proc[g].child = "start"
  /\ proc' = [proc EXCEPT ![g].child = IF g \in host.ns THEN "boot" ELSE "dead"]
  /\ UNCHANGED <<host, op, proxy, lock, main, conn, reply, faults, lossy, dropped>>

\* proxy_main reads its configuration from the socket named on its command
\* line; without a listener it returns an error and the process ends.
ReadConfig(g) ==
  /\ proc[g].child = "boot"
  /\ proc' = [proc EXCEPT ![g] = IF Alive /\ @.uds # NoCfg
                                   THEN [@ EXCEPT !.child = "serve", !.cfg = proc[g].uds]
                                   ELSE [@ EXCEPT !.child = "dead"]]
  /\ UNCHANGED <<host, op, proxy, lock, main, conn, reply, faults, lossy, dropped>>

\* mutant: once it serves, the sub-proxy does not react.
ChildStopsBeforeServing(g) ==
  /\ proc[g].child \in {"start", "boot"} /\ proc[g].sig
  /\ proc' = [proc EXCEPT ![g].child = "dead", ![g].cfg = NoCfg]
  /\ UNCHANGED <<host, op, proxy, lock, main, conn, reply, faults, lossy, dropped>>

\* SIGINT ends the sub-proxy, by its handler or by the default action, and its
\* configuration goes with it.
ChildStops(g) ==
  /\ proc[g].child \in {"start", "boot", "serve"} /\ proc[g].sig
  /\ proc' = [proc EXCEPT ![g].child = "dead", ![g].cfg = NoCfg]
  /\ UNCHANGED <<host, op, proxy, lock, main, conn, reply, faults, lossy, dropped>>

ChildCrashes(g) ==
  /\ proc[g].child \in {"start", "boot", "serve"} /\ Fault
  /\ proc' = [proc EXCEPT ![g].child = "dead", ![g].cfg = NoCfg]
  /\ UNCHANGED <<host, op, proxy, lock, main, conn, reply, lossy, dropped>>

\* The kernel destroys a namespace that has neither name nor process.
ReapNetns(g) ==
  /\ g \notin host.ns /\ proc[g].child \notin {"boot", "serve"}
  /\ host' = NsDestroy(host, g) /\ host' # host
  /\ UNCHANGED <<op, proxy, proc, lock, main, conn, reply, faults, lossy, dropped>>

\* A network manager rewrites resolv.conf while the device has no address;
\* this is what the code's backup of the file is for.
RewriteDns ==
  /\ Device \notin host.addr /\ host.dns # "rewritten"
  /\ host' = [host EXCEPT !.dns = "rewritten"]
  /\ UNCHANGED <<op, proxy, proc, lock, main, conn, reply, faults, lossy, dropped>>

----------------------------------------------------------------------------
(* The end of an operation.                                                *)

\* A mutex of tokio is handed to the task that waits for it.
Release == lock' = IF main = "lock" THEN "main" ELSE "free"

Answer(c, status) ==
  /\ reply' = [cfg |-> c, status |-> status]
  /\ conn' = "idle"
  /\ Release
  /\ UNCHANGED main

\* reload returns to handle, which answers the request (an error closes the
\* connection instead); to main in file mode; stop returns to main.
Return(status) ==
  /\ op' = Idle
  /\ \/ /\ lock = "handler"
        /\ Answer(op.cfg, status)
     \/ /\ main = "reload"
        /\ main' = IF status = "ok" THEN "start" ELSE "exited"
        /\ lock' = "free"
        /\ UNCHANGED <<conn, reply>>
     \/ /\ main = "stopping"
        /\ main' = IF conn = "done" THEN "exited" ELSE "join"
        /\ UNCHANGED <<lock, conn, reply>>

\* A panic of reload ends the task it runs in: the configuration server's, or
\* main in file mode.
Panic ==
  /\ op' = Idle
  /\ \/ /\ lock = "handler"
        /\ conn' = "panicked"
        /\ Release
        /\ UNCHANGED main
     \/ /\ main = "reload"
        /\ main' = "exited" /\ lock' = "free"
        /\ UNCHANGED conn
  /\ UNCHANGED reply

----------------------------------------------------------------------------
(* Set-up: exec, set_net, setenv_bridge.                                   *)

\* One set-up command: it succeeds, fails because the host does not allow it,
\* or fails by a fault, with or without effect; failure ends exec with an
\* error and reload goes on with clear_bridge.
Command(at, next, allowed, effect) ==
  /\ Alive /\ op.pc = at
  /\ \/ /\ allowed /\ host' = effect
        /\ op' = [op EXCEPT !.pc = next]
        /\ UNCHANGED faults
     \/ /\ ~allowed
        /\ op' = [op EXCEPT !.pc = "netns_del"]
        /\ UNCHANGED <<host, faults>>
     \/ /\ Fault /\ host' \in {host, effect}
        /\ op' = [op EXCEPT !.pc = "netns_del"]
  /\ UNCHANGED <<proxy, proc, lock, main, conn, reply, lossy, dropped>>

\* A command whose error is logged or discarded.
CommandIgnoringErrors(at, next, effect) ==
  /\ Alive /\ op.pc = at
  /\ op' = [op EXCEPT !.pc = next]
  /\ \/ host' = effect /\ UNCHANGED faults
     \/ Fault /\ UNCHANGED host
  /\ UNCHANGED <<proxy, proc, lock, main, conn, reply, lossy, dropped>>

Bind ==
  /\ Alive /\ op.pc = "bind"
  /\ \/ /\ proc[proxy.gen].uds = NoCfg
        /\ UdsListen(proxy.gen, op.cfg)
        /\ op' = [op EXCEPT !.pc = "gateway"]
        /\ UNCHANGED faults
     \/ /\ proc[proxy.gen].uds # NoCfg
        /\ op' = [op EXCEPT !.pc = "netns_del"]
        /\ UNCHANGED <<proc, faults>>
     \/ /\ Fault
        /\ op' = [op EXCEPT !.pc = "netns_del"]
        /\ UNCHANGED proc
  /\ UNCHANGED <<host, proxy, lock, main, conn, reply, lossy, dropped>>

GetGateway == Command("gateway", "save_dns", HasGateway(host), host)

BackupDns == Command("save_dns", "netns_add", TRUE, SaveDns(host))

AddNetns == Command("netns_add", "bridge1_add", TRUE, NetnsAdd(host, proxy.gen))

AddBridge1 == Command("bridge1_add", "veth1_add", TRUE, LinkAdd(host, "b1", proxy.gen))

AddVeth1 ==
  Command("veth1_add", "veth4_add", proxy.gen \in host.ns, LinkAdd(host, "v1", proxy.gen))

AddVeth4 ==
  Command("veth4_add", "set_master", proxy.gen \in host.ns, LinkAdd(host, "v4", proxy.gen))

EnslaveDevice ==
  Command("set_master", "addr_del", Present(host, proxy.device),
          SetMaster(host, proxy.device, proxy.gen))

RemoveAddress ==
  CommandIgnoringErrors("addr_del", "addr_add", AddrDel(host, proxy.device))

MoveAddress ==
  Command("addr_add", "route_add", Present(host, proxy.gen), AddrAdd(host, proxy.gen))

AddDefaultRoute ==
  Command("route_add", "get_routes", RouteAddable(host, DefaultVia(proxy.gen), TRUE),
          RouteAdd(host, DefaultVia(proxy.gen), TRUE))

GetRoutes == Command("get_routes", "del_kernel_routes", TRUE, host)

DeleteKernelRoutes ==
  Command("del_kernel_routes", "announce", TRUE, KernelRoutesDel(host))

\* set_net unwraps the interface veth4, its hardware and its IPv4 address.  A
\* panic here leaves reload without the tear-down.
Announce == Command("announce", "iptables", TRUE, host)

AnnouncePanics ==
  /\ Alive /\ op.pc = "announce" /\ Fault
  /\ Panic
  /\ dropped' = TRUE
  /\ UNCHANGED <<host, proxy, proc, lossy>>

\* `iptables ... --dports ""` is an error.
SetIptables == Command("iptables", "ebtables", op.cfg # EmptyPorts, host)

\* The dnat rule, and in safe mode the rules of set_iptables_safe.
SetEbtables == Command("ebtables", "dns_back", TRUE, NatAdd(host, proxy.gen))

PutDnsBack == CommandIgnoringErrors("dns_back", "spawn", RestoreDns(host))

\* The last step of set_net looks for a gateway again; then exec takes the
\* receiver, spawns the supervisor and returns.
SpawnTask ==
  /\ Alive /\ op.pc = "spawn"
  /\ \/ /\ HasGateway(host)
        /\ proxy' = [proxy EXCEPT !.task = proxy.gen]
        /\ proc' = [proc EXCEPT ![proxy.gen].task = "spawn"]
        /\ Return("ok")
        /\ UNCHANGED faults
     \/ /\ ~HasGateway(host)
        /\ op' = [op EXCEPT !.pc = "netns_del"]
        /\ UNCHANGED <<proxy, proc, lock, main, conn, reply, faults>>
     \/ /\ Fault
        /\ op' = [op EXCEPT !.pc = "netns_del"]
        /\ UNCHANGED <<proxy, proc, lock, main, conn, reply>>
  /\ UNCHANGED <<host, lossy, dropped>>

----------------------------------------------------------------------------
(* Tear-down: clear_bridge.                                                *)

\* Errors are logged, so a fault leaves the command without effect and the
\* tear-down goes on.
Teardown(at, next, effect) ==
  /\ Alive /\ op.pc = at
  /\ op' = [op EXCEPT !.pc = next]
  /\ \/ host' = effect /\ UNCHANGED <<faults, lossy>>
     \/ Fault /\ lossy' = TRUE /\ UNCHANGED host
  /\ UNCHANGED <<proxy, proc, lock, main, conn, reply, dropped>>

DeleteNetns    == Teardown("netns_del", "bridge1_del", NetnsDel(host, proxy.gen))
DeleteBridge1  == Teardown("bridge1_del", "addr_restore", BridgeDel(host, proxy.gen))
\* mutant: the address is not given back to the device.
RestoreAddressForgotten == Teardown("addr_restore", "dns_restore", host)
RestoreAddress == Teardown("addr_restore", "dns_restore", AddrAdd(host, proxy.device))
RestoreDnsFile == Teardown("dns_restore", "nat_flush", RestoreDns(host))
FlushNat       == Teardown("nat_flush", "del_routes", NatFlush(host))

\* All routes are deleted at once; the deletion of some may fail.
DeleteRoutes ==
  /\ Alive /\ op.pc = "del_routes"
  /\ op' = [op EXCEPT !.pc = "load_routes", !.rest = proxy.saved]
  /\ \/ host' = RoutesDel(host) /\ UNCHANGED <<faults, lossy>>
     \/ /\ Fault /\ lossy' = TRUE
        /\ \E left \in SUBSET host.routes : host' = [host EXCEPT !.routes = left]
  /\ UNCHANGED <<proxy, proc, lock, main, conn, reply, dropped>>

\* load_routes adds the saved routes one by one, in their order.
LoadRoute(r) ==
  /\ Alive /\ op.pc = "load_routes" /\ FirstToLoad(op.rest, r)
  /\ op' = [op EXCEPT !.rest = @ \ {r}]
  /\ \/ host' = RouteAdd(host, r, FALSE) /\ UNCHANGED <<faults, lossy>>
     \/ Fault /\ lossy' = TRUE /\ UNCHANGED host
  /\ UNCHANGED <<proxy, proc, lock, main, conn, reply, dropped>>

RoutesLoaded ==
  /\ Alive /\ op.pc = "load_routes" /\ op.rest = {}
  /\ op' = [op EXCEPT !.pc = "cleared"]
  /\ UNCHANGED <<host, proxy, proc, lock, main, conn, reply, faults, lossy, dropped>>

\* mutant: reload clears the network and returns Ok.
ClearedSwallowsError ==
  /\ Alive /\ op.pc = "cleared"
  /\ \/ /\ op.join # None
        /\ op' = [op EXCEPT !.pc = "await_task"]
        /\ UNCHANGED <<lock, main, conn, reply>>
     \/ /\ op.join = None
        /\ Return("ok")
  /\ UNCHANGED <<host, proxy, proc, faults, lossy, dropped>>

\* clear_bridge was called by stop, which awaits the supervisor next, or by
\* reload after a failed exec, which returns the error.
Cleared ==
  /\ Alive /\ op.pc = "cleared"
  /\ \/ /\ op.join # None
        /\ op' = [op EXCEPT !.pc = "await_task"]
        /\ UNCHANGED <<lock, main, conn, reply>>
     \/ /\ op.join = None
        /\ Return("error")
  /\ UNCHANGED <<host, proxy, proc, faults, lossy, dropped>>

----------------------------------------------------------------------------
(* stop and the rest of reload.                                            *)

\* mutant: stop takes the task and never uses the sender.
StopWithoutSend ==
  /\ Alive /\ op.pc = "stop"
  /\ op' = [op EXCEPT !.pc = IF proxy.task = None THEN "stopped" ELSE "netns_del",
                     !.join = proxy.task]
  /\ proxy' = [proxy EXCEPT !.task = None]
  /\ UNCHANGED <<host, proc, lock, main, conn, reply, faults, lossy, dropped>>

\* stop does nothing without a task; otherwise it takes the task and the
\* sender, and tells the supervisor to stop before it clears the network.
Stop ==
  /\ Alive /\ op.pc = "stop"
  /\ \/ /\ proxy.task = None
        /\ op' = [op EXCEPT !.pc = "stopped"]
        /\ UNCHANGED <<proxy, proc>>
     \/ /\ proxy.task # None
        /\ op' = [op EXCEPT !.pc = "netns_del", !.join = proxy.task]
        /\ proxy' = [proxy EXCEPT !.task = None, !.sender = None]
        /\ proc' = [g \in Gens |-> IF g = proxy.sender THEN [proc[g] EXCEPT !.stop = TRUE]
                                                       ELSE proc[g]]
  /\ UNCHANGED <<host, lock, main, conn, reply, faults, lossy, dropped>>

AwaitTask ==
  /\ Alive /\ op.pc = "await_task" /\ proc[op.join].task = "done"
  /\ op' = [op EXCEPT !.pc = "stopped", !.join = None]
  /\ UNCHANGED <<host, proxy, proc, lock, main, conn, reply, faults, lossy, dropped>>

\* mutant: reload goes on with the NetEnv it has.
AfterStopKeepsEnv ==
  /\ Alive /\ op.pc = "stopped"
  /\ \/ /\ op.cfg = NoPorts
        /\ Return("ok")
     \/ /\ op.cfg # NoPorts
        /\ op' = [op EXCEPT !.pc = "gateway"]
        /\ UNCHANGED <<lock, main, conn, reply>>
  /\ UNCHANGED <<host, proxy, proc, faults, lossy, dropped>>

\* reload returns if there are no ports to proxy, and so does stop.
AfterStop ==
  /\ Alive /\ op.pc = "stopped"
  /\ \/ /\ op.cfg = NoPorts
        /\ Return("ok")
     \/ /\ op.cfg # NoPorts
        /\ op' = [op EXCEPT !.pc = "new"]
        /\ UNCHANGED <<lock, main, conn, reply>>
  /\ UNCHANGED <<host, proxy, proc, faults, lossy, dropped>>

\* Self::new: a fresh NetEnv, socket path and stop channel.  It unwraps the
\* default interface, its IPv4 address and the dump of the routes.
NewEnv ==
  /\ Alive /\ op.pc = "new" /\ DefaultHasIpv4(host)
  /\ proxy' = [gen |-> proxy.gen + 1, device |-> DefaultInterface(host),
               saved |-> host.routes, task |-> None, sender |-> proxy.gen + 1]
  /\ op' = [op EXCEPT !.pc = "bind"]
  /\ UNCHANGED <<host, proc, lock, main, conn, reply, faults, lossy, dropped>>

NewEnvPanics ==
  /\ Alive /\ op.pc = "new"
  /\ \/ ~DefaultHasIpv4(host) /\ UNCHANGED faults
     \/ Fault
  /\ Panic
  /\ UNCHANGED <<host, proxy, proc, lossy, dropped>>

----------------------------------------------------------------------------
(* The configuration server.                                               *)

\* The head of a request arrives: hyper calls the service, which waits for
\* the mutex first.
Request ==
  /\ Alive /\ conn = "idle"
  /\ reply' = NoReply
  /\ IF lock = "free" THEN lock' = "handler" /\ conn' = "body"
                      ELSE conn' = "lock" /\ UNCHANGED lock
  /\ UNCHANGED <<host, op, proxy, proc, main, faults, lossy, dropped>>

\* handle answers any method but PUT at once (405; a body it refuses gets 400).
NotPut ==
  /\ Alive /\ conn = "body"
  /\ Answer(NoCfg, "refused")
  /\ UNCHANGED <<host, op, proxy, proc, faults, lossy, dropped>>

\* read_config has the whole body.  It is no configuration, or the default
\* interface of the moment has no IPv4 address, or reload is called.  MaxGen
\* bounds the number of requests that start a session.
Body(c) ==
  /\ Alive /\ conn = "body" /\ (c \in Rules \cup {EmptyPorts} => proxy.gen < MaxGen)
  /\ IF c # NoCfg /\ DefaultHasIpv4(host)
       THEN /\ conn' = "op" /\ op' = Begin(c)
            /\ UNCHANGED <<lock, main, reply>>
       ELSE /\ Answer(c, "refused")
            /\ UNCHANGED op
  /\ UNCHANGED <<host, proxy, proc, faults, lossy, dropped>>

\* stdin ends (for a terminal, once) while a request is being served: hyper
\* drops the connection and with it the service's future, wherever that is
\* suspended; the loop of serve_interactive makes a new connection.
Eof ==
  /\ Alive
  /\ conn \in {"lock", "body"} \/ (conn = "op" /\ op.pc \in AwaitPc)
  /\ conn' = "idle"
  /\ IF lock = "handler" THEN Release ELSE UNCHANGED lock
  /\ op' = IF conn = "op" THEN Idle ELSE op
  /\ dropped' = (dropped \/ conn = "op")
  /\ UNCHANGED <<host, proxy, proc, main, reply, faults, lossy>>

\* mutant: the server finishes the request it has before it stops.
ServerStopsGracefully ==
  /\ Alive /\ main = "join" /\ conn = "idle"
  /\ conn' = "done"
  /\ UNCHANGED <<host, op, proxy, proc, lock, main, reply, faults, lossy, dropped>>

\* The stop channel of the configuration server wins the select: the
\* connection is dropped and the task returns.
ServerStops ==
  /\ Alive /\ main = "join" /\ conn \in {"idle", "lock"}
  /\ conn' = "done"
  /\ UNCHANGED <<host, op, proxy, proc, lock, main, reply, faults, lossy, dropped>>

----------------------------------------------------------------------------
(* main.                                                                   *)

\* Signals::from_kinds installs the handlers, in file mode after reload.
RegisterSignals ==
  /\ main = "start"
  /\ main' = "wait"
  /\ UNCHANGED <<host, op, proxy, proc, lock, conn, reply, faults, lossy, dropped>>

\* SIGINT or SIGTERM kills the process before the handlers are installed.
Signal ==
  /\ \/ main \in {"reload", "start"} /\ main' = "killed"
     \/ main = "wait" /\ main' = "lock"
  /\ UNCHANGED <<host, op, proxy, proc, lock, conn, reply, faults, lossy, dropped>>

\* mutant: main ends without a stop.
LockAndExit ==
  /\ main = "lock" /\ lock \in {"free", "main"}
  /\ main' = "exited" /\ lock' = "main"
  /\ UNCHANGED <<host, op, proxy, proc, conn, reply, faults, lossy, dropped>>

\* ConfigServer::stop locks the Proxy and keeps it; then Proxy::stop.
LockAndStop ==
  /\ main = "lock" /\ lock \in {"free", "main"}
  /\ main' = "stopping" /\ lock' = "main"
  /\ op' = Begin(NoPorts)
  /\ UNCHANGED <<host, proxy, proc, conn, reply, faults, lossy, dropped>>

\* The JoinHandle of the configuration server, then exit(0).  If that task
\* panicked, stop fails and main returns instead: the runtime is dropped, which
\* waits for a read of stdin that hyper may have begun and nobody can cancel.
JoinServer ==
  /\ main = "join"
  /\ \/ conn = "done" /\ main' = "exited"
     \/ conn = "panicked" /\ main' \in {"drop", "exited"}
  /\ UNCHANGED <<host, op, proxy, proc, lock, conn, reply, faults, lossy, dropped>>

\* Input or the end of stdin ends that read, and with it the process.
StdinReturns ==
  /\ main = "drop"
  /\ main' = "exited"
  /\ UNCHANGED <<host, op, proxy, proc, lock, conn, reply, faults, lossy, dropped>>

----------------------------------------------------------------------------

SetupStep ==
  \/ Bind \/ GetGateway \/ BackupDns \/ AddNetns \/ AddBridge1 \/ AddVeth1 \/ AddVeth4
  \/ EnslaveDevice \/ RemoveAddress \/ MoveAddress \/ AddDefaultRoute \/ GetRoutes
  \/ DeleteKernelRoutes \/ Announce \/ AnnouncePanics \/ SetIptables \/ SetEbtables
  \/ PutDnsBack \/ SpawnTask

TeardownStep ==
  \/ DeleteNetns \/ DeleteBridge1 \/ RestoreAddress \/ RestoreDnsFile \/ FlushNat
  \/ DeleteRoutes \/ (\E r \in Route : LoadRoute(r)) \/ RoutesLoaded \/ Cleared

ReloadStep == Stop \/ AwaitTask \/ AfterStop \/ NewEnv \/ NewEnvPanics

OpStep == SetupStep \/ TeardownStep \/ ReloadStep

ProcStep(g) ==
  \/ SpawnChild(g) \/ SelectWait(g) \/ SelectStop(g)
  \/ EnterNetns(g) \/ ReadConfig(g) \/ ChildStops(g) \/ ReapNetns(g)

MainStep == RegisterSignals \/ LockAndStop \/ JoinServer

BodyArrives == NotPut \/ \E c \in Configs \cup {NoCfg} : Body(c)

Environment ==
  \/ RewriteDns \/ Request \/ Eof \/ Signal \/ StdinReturns
  \/ \E g \in Gens : ChildCrashes(g)

\* Nothing is left to happen once the controller has ended.
Ended ==
  /\ ~Alive
  /\ \A g \in Gens : proc[g].child \in {"none", "dead"} \/ (proc[g].child = "serve" /\ ~proc[g].sig)
  /\ UNCHANGED vars

Next ==
  \/ OpStep \/ (\E g \in Gens : ProcStep(g)) \/ MainStep \/ ServerStops
  \/ BodyArrives \/ Environment \/ Ended

Spec == Init /\ [][Next]_vars

\* The runtime polls every task that can go on, the scheduler runs every
\* process and the kernel reaps namespaces.  Nobody is obliged to send a
\* request, to complete it, to end stdin, to send a signal or to cause a fault.
Fairness ==
  /\ WF_vars(OpStep) /\ WF_vars(MainStep) /\ WF_vars(ServerStops)
  /\ \A g \in Gens : WF_vars(ProcStep(g))

FairSpec == Spec /\ Fairness

\* Clients that complete the requests they begin.
FairClientSpec == FairSpec /\ WF_vars(BodyArrives)

----------------------------------------------------------------------------
(* Properties.                                                             *)

OpIdle == op.pc = "idle"
Undisturbed == ~lossy /\ ~dropped

\* When no operation is under way and the Proxy has no task, the host has its
\* own network again: whatever command of setenv_bridge or set_net failed, and
\* whether or not the failed command took effect, clear_bridge has undone all
\* of it.  Except after a failed tear-down command or a dropped reload, or if
\* exec failed before it replaced a backup of resolv.conf left by an earlier
\* controller, which clear_bridge then restores.
RestoredWhenStopped ==
  OpIdle /\ proxy.task = None /\ Undisturbed /\ host.bak # "older" => Restored(host)

\* From the return of exec until stop takes the task, all traffic of the host
\* passes the namespace of the session: no late step of an earlier session (the
\* end of its sub-proxy, the destruction of its namespace) undoes any of it.
SessionIsDiverted == proxy.task # None /\ Undisturbed => Diverted(host, proxy.task)

\* A supervisor that was not told to stop, and a sub-proxy that was not sent
\* SIGINT, belong to the session in force: reload and stop never lose one.
NoStrayProxy ==
  \A g \in Gens :
    /\ proc[g].task \in {"spawn", "run"} /\ ~proc[g].stop => proxy.task = g
    /\ proc[g].child \in {"start", "boot", "serve"} /\ ~proc[g].sig => proc[g].task = "run"

\* The last answer of the configuration server tells the state of the Proxy
\* until the next request or the end: after 200 the configuration of the
\* request is in force (its socket hands it over, and the sub-proxy serves it
\* and no other), or nothing is if it named no ports; after an error nothing is.
AnswerTellsTheState ==
  conn = "idle" /\ OpIdle /\ main \in {"start", "wait"} =>
    /\ reply.status = "ok" /\ reply.cfg # NoPorts =>
         /\ proxy.task # None
         /\ proc[proxy.task].uds = reply.cfg
         /\ proc[proxy.task].child = "serve" => proc[proxy.task].cfg = reply.cfg
    /\ reply.status = "error" \/ (reply.status = "ok" /\ reply.cfg = NoPorts) =>
         proxy.task = None

\* A well-formed configuration is not refused, also while an earlier one is in
\* force and the device has lost its IPv4 address to veth4.
GoodConfigAccepted ==
  reply.status = "refused" /\ reply.cfg # NoCfg => lossy \/ dropped

\* A namespace loses its name only after the supervisor of the sub-proxy that
\* was started in it has been told to stop.
StopPrecedesTeardown ==
  [][\A g \in Gens : proc[g].task # "none" /\ g \in host.ns /\ g \notin host'.ns
                      => proc[g].stop]_vars

\* A reload ends: with an answer, an error, a panic or because its connection
\* went away.  It waits for the end of the supervisor it stopped.
ReloadEnds == (conn = "op") ~> (conn \in {"idle", "panicked"} \/ main = "killed")

\* Once the controller has caught SIGINT or SIGTERM it ends, whatever request it
\* is working on and whether or not reload panics.  If the configuration
\* server's task has panicked, main ends all the same, but the process (which
\* still swallows both signals) may have to wait for stdin.
SignalStops ==
  /\ (main = "lock") ~> (main = "exited" \/ (main = "drop" /\ conn = "panicked"))
  /\ WF_vars(StdinReturns) => ((main = "lock") ~> (main = "exited"))

\* After its stop signal a sub-proxy dies and its veth pairs disappear with its
\* namespace, although nobody waits for either.
StoppedSessionVanishes ==
  \A g \in Gens :
    proc[g].stop ~> \/ /\ proc[g].child \in {"none", "dead"}
                       /\ ~HasLink(host, "v1", g) /\ ~HasLink(host, "v4", g)
                   \/ lossy \/ dropped \/ main = "killed"

\* What the controller takes the sub-proxy for is the contract of ChildProcess,
\* which the sub-proxy's own program is checked against in SubProxy.  (Stated of
\* the first generation: the actions treat all alike.)
FirstChild == INSTANCE ChildProcess WITH phase <- proc[1].child, sig <- proc[1].sig
ChildIsChildProcess == FirstChild!Spec

\* The way of the host's traffic, whatever resolv.conf holds.
Way ==
  IF Restored([host EXCEPT !.dns = "site"]) THEN "site"
  ELSE IF \E g \in Gens : Diverted(host, g) THEN "diverted" ELSE "between"

\* exec.rs 60-166, main.rs 34-58: the controller is a switch.  No operation and
\* no late step of an earlier session leaves the traffic in between, every
\* operation settles, and the controller exits with the site's network only.
\* The promise is void after a failed tear-down command or a dropped reload.
TheSwitch == INSTANCE Switch WITH
  net <- Way, on <- proxy.task # None, broken <- ~Undisturbed,
  cmd <- IF OpIdle THEN "idle" ELSE "work",
  end <- CASE Alive -> "running" [] main = "killed" -> "killed" [] OTHER -> "exited"
ControllerIsSwitch == TheSwitch!Spec

\* README.md, "recover": "Update config with empty proxy ports", answered with
\* 200 OK.
EmptyPortsRecover == reply.cfg = EmptyPorts => reply.status = "ok"

\* README.md, "recover": a request without ports that is answered with 200 OK
\* has recovered the host's network.
OkMeansRecovered ==
  conn = "idle" /\ OpIdle /\ reply.status = "ok" /\ reply.cfg = NoPorts => Restored(host)
=============================================================================
