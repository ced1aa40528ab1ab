-------------------------- MODULE ControllerProofs --------------------------
(***************************************************************************)
(* Proofs about Controller, for every number of generations, every set of  *)
(* configurations and every number of faults: the order of its steps, that *)
(* no sub-proxy outlives its session, and that the configuration server's  *)
(* answers tell the state of the Proxy.                                    *)
(***************************************************************************)
EXTENDS Controller, TLAPS

USE DEF OpType, ProxyType, ReplyType

\* What the order of stop, Self::new, exec and clear_bridge guarantees about the
\* Proxy and the processes of its generations.
EnvInv ==
  /\ proxy.task # None => proxy.gen = proxy.task /\ proxy.sender = proxy.task
  /\ op.pc \notin {"idle", "stop"} => proxy.task = None
  /\ op.pc \in {"stop", "stopped", "new"} => op.join = None
  /\ op.pc \in SetupPc =>
       /\ proxy.gen \in Gens /\ proxy.sender = proxy.gen
       /\ op.join = None
       /\ proc[proxy.gen].task = "none"
  /\ op.pc \in TeardownPc =>
       /\ proxy.gen \in Gens
       /\ proc[proxy.gen].task = "none" \/ proc[proxy.gen].stop

\* A reload that has yet to create a NetEnv has a generation left for it.
GenInv ==
  /\ op.pc = "new" => proxy.gen < MaxGen
  /\ op.pc \in {"stop", "await_task", "stopped"} \/ (op.pc \in TeardownPc /\ op.join # None)
       => op.cfg = NoPorts \/ proxy.gen < MaxGen

\* Generations are used in order; nothing runs for one that was not spawned.
ProcInv ==
  \A g \in Gens :
    /\ g > proxy.gen => proc[g].task = "none"
    /\ proc[g].task \in {"none", "spawn"} => proc[g].child = "none"

IInv == TypeOK /\ EnvInv /\ GenInv /\ ProcInv /\ NoStrayProxy

----------------------------------------------------------------------------
(* The commands keep the type of the host.                                 *)

LEMMA CommandTypes ==
  ASSUME NEW h \in HostType, NEW g \in Gens, NEW i \in Ifaces
  PROVE  /\ SaveDns(h) \in HostType
         /\ RestoreDns(h) \in HostType
         /\ NetnsAdd(h, g) \in HostType
         /\ NetnsDel(h, g) \in HostType
         /\ \A kind \in {"b1", "v1", "v4"} : LinkAdd(h, kind, g) \in HostType
         /\ BridgeDel(h, g) \in HostType
         /\ SetMaster(h, i, g) \in HostType
         /\ NatAdd(h, g) \in HostType
         /\ NatFlush(h) \in HostType
<1> USE DEF HostType
<1>1. SaveDns(h) \in HostType
  BY DEF SaveDns, DnsFile
<1>2. RestoreDns(h) \in HostType
  BY DEF RestoreDns, DnsFile
<1>3. NetnsAdd(h, g) \in HostType /\ NetnsDel(h, g) \in HostType
  BY DEF NetnsAdd, NetnsDel
<1>4. \A kind \in {"b1", "v1", "v4"} : LinkAdd(h, kind, g) \in HostType
  BY DEF LinkAdd
<1>5. BridgeDel(h, g) \in HostType
  BY DEF BridgeDel, Ifaces, Device
<1>6. SetMaster(h, i, g) \in HostType
  BY DEF SetMaster, Ifaces
<1>7. NatAdd(h, g) \in HostType /\ NatFlush(h) \in HostType
  BY DEF NatAdd, NatFlush
<1> QED
  BY <1>1, <1>2, <1>3, <1>4, <1>5, <1>6, <1>7

LEMMA AddressTypes ==
  ASSUME NEW h \in HostType, NEW i \in Ifaces
  PROVE  AddrDel(h, i) \in HostType /\ AddrAdd(h, i) \in HostType
<1>1. LinkOf(i) \in Route
  BY DEF LinkOf, Route
<1> QED
  BY <1>1 DEF HostType, AddrDel, AddrAdd

LEMMA RouteTypes ==
  ASSUME NEW h \in HostType, NEW r \in Route
  PROVE  /\ \A onlink \in BOOLEAN : RouteAdd(h, r, onlink) \in HostType
         /\ KernelRoutesDel(h) \in HostType
         /\ RoutesDel(h) \in HostType
<1>1. \A onlink \in BOOLEAN : RouteAdd(h, r, onlink) \in HostType
  BY DEF HostType, RouteAdd
<1>2. KernelRoutesDel(h) \in HostType /\ RoutesDel(h) \in HostType
  BY DEF HostType, KernelRoutesDel, RoutesDel
<1> QED
  BY <1>1, <1>2

LEMMA DefaultViaType ==
  ASSUME NEW g \in Gens
  PROVE  DefaultVia(g) \in Route
BY DEF DefaultVia, Route, Ifaces

LEMMA DefaultInterfaceType ==
  ASSUME NEW h \in HostType, DefaultHasIpv4(h)
  PROVE  DefaultInterface(h) \in Ifaces
BY DEF DefaultHasIpv4, HostType

----------------------------------------------------------------------------
(* What a step of set_net, of clear_bridge or of a process leaves alone.   *)

SetupFrame(at, next) ==
  /\ op.pc = at
  /\ op' = [op EXCEPT !.pc = next] \/ op' = [op EXCEPT !.pc = "netns_del"]
  /\ host' \in HostType /\ faults' \in 0 .. MaxFaults
  /\ UNCHANGED <<proxy, proc, lock, main, conn, reply, lossy, dropped>>

LEMMA SetupFramePreserves ==
  ASSUME IInv, NEW at \in SetupPc, NEW next \in SetupPc, SetupFrame(at, next)
  PROVE  IInv'
<1> USE DEF IInv, SetupFrame
<1>1. op'.pc \in {next, "netns_del"} /\ op'.join = op.join /\ op'.cfg = op.cfg
  BY DEF TypeOK
<1>2. TypeOK'
  BY DEF TypeOK, OpPc, SetupPc, TeardownPc
<1>3. EnvInv'
  BY <1>1 DEF EnvInv, SetupPc, TeardownPc
<1>4. GenInv'
  BY <1>1 DEF EnvInv, GenInv, SetupPc, TeardownPc
<1>5. ProcInv' /\ NoStrayProxy'
  BY DEF ProcInv, NoStrayProxy
<1> QED
  BY <1>2, <1>3, <1>4, <1>5

TeardownFrame(at, next) ==
  /\ op.pc = at
  /\ op' \in [pc : {next}, cfg : {op.cfg}, join : {op.join}, rest : SUBSET Route]
  /\ host' \in HostType /\ faults' \in 0 .. MaxFaults /\ lossy' \in BOOLEAN
  /\ UNCHANGED <<proxy, proc, lock, main, conn, reply, dropped>>

LEMMA TeardownFramePreserves ==
  ASSUME IInv, NEW at \in TeardownPc, NEW next \in TeardownPc, TeardownFrame(at, next)
  PROVE  IInv'
<1> USE DEF IInv, TeardownFrame
<1>1. op'.pc = next /\ op'.join = op.join /\ op'.cfg = op.cfg
  OBVIOUS
<1>2. TypeOK'
  BY DEF TypeOK, OpPc
<1>3. EnvInv'
  BY <1>1 DEF EnvInv, SetupPc, TeardownPc
<1>4. GenInv'
  BY <1>1 DEF GenInv, SetupPc, TeardownPc
<1>5. ProcInv' /\ NoStrayProxy'
  BY DEF ProcInv, NoStrayProxy
<1> QED
  BY <1>2, <1>3, <1>4, <1>5

\* Only one generation's record changes, and only in these ways.
ProcFrame(g) ==
  /\ \E p \in ProcType :
       /\ proc' = [proc EXCEPT ![g] = p]
       /\ p.task # proc[g].task =>
            \/ proc[g].task = "spawn" /\ p.task = "run"
            \/ proc[g].task = "spawn" /\ p.task = "done"
            \/ proc[g].task = "run" /\ p.task = "done" /\ (p.sig \/ p.child = "dead")
       /\ p.child # proc[g].child =>
            \/ p.child = "dead" /\ proc[g].child # "none"
            \/ p.child # "none" /\ p.task = "run" /\ proc[g].child = "none"
            \/ p.child # "none" /\ proc[g].child \in {"start", "boot"} /\ p.task = proc[g].task
       /\ p.stop = proc[g].stop
       /\ proc[g].sig => p.sig
  /\ host' \in HostType /\ faults' \in 0 .. MaxFaults
  /\ UNCHANGED <<op, proxy, lock, main, conn, reply, lossy, dropped>>

LEMMA ProcFramePreserves ==
  ASSUME IInv, NEW g \in Gens, ProcFrame(g)
  PROVE  IInv'
<1> USE DEF IInv, ProcFrame
<1>1. PICK p \in ProcType : ProcFrame(g)!1!(p)
  OBVIOUS
<1>2. proc \in [Gens -> ProcType] /\ proc' \in [Gens -> ProcType]
  BY <1>1 DEF TypeOK, ProcType
<1>3. /\ proc'[g] = p
      /\ \A i \in Gens : i # g => proc'[i] = proc[i]
  BY <1>1, <1>2
<1>4. TypeOK'
  BY <1>2 DEF TypeOK, ProcType
<1>5. ProcInv'
  BY <1>1, <1>2, <1>3 DEF ProcInv, ProcType
<1>6. NoStrayProxy'
  BY <1>1, <1>2, <1>3 DEF ProcInv, NoStrayProxy, ProcType
<1>7. EnvInv'
  BY <1>1, <1>2, <1>3 DEF EnvInv, ProcInv, ProcType
<1>8. GenInv'
  BY DEF GenInv
<1> QED
  BY <1>4, <1>5, <1>6, <1>7, <1>8

\* Steps that at most end the operation.
OtherFrame ==
  /\ op' = op \/ op' = Idle
  /\ host' \in HostType
  /\ lock' \in {"free", "handler", "main"}
  /\ main' \in {"reload", "start", "wait", "lock", "stopping", "join", "drop", "exited", "killed"}
  /\ conn' \in {"idle", "body", "lock", "op", "done", "panicked"}
  /\ reply' \in ReplyType
  /\ faults' \in 0 .. MaxFaults
  /\ lossy' \in BOOLEAN
  /\ dropped' \in BOOLEAN
  /\ UNCHANGED <<proxy, proc>>

LEMMA IdleType ==
  /\ Idle \in OpType
  /\ Idle.pc = "idle"
BY DEF Idle, OpPc, None

LEMMA OtherFramePreserves ==
  ASSUME IInv, OtherFrame
  PROVE  IInv'
<1> USE DEF IInv, OtherFrame
<1>1. TypeOK'
  BY IdleType DEF TypeOK
<1>2. EnvInv' /\ GenInv'
  <2>1. CASE op' = op
    BY <2>1 DEF EnvInv, GenInv
  <2>2. CASE op' = Idle
    BY <2>2, IdleType DEF EnvInv, GenInv, SetupPc, TeardownPc
  <2> QED
    BY <2>1, <2>2
<1>3. ProcInv' /\ NoStrayProxy'
  BY DEF ProcInv, NoStrayProxy
<1> QED
  BY <1>1, <1>2, <1>3

LEMMA FaultType ==
  ASSUME TypeOK, Fault \/ UNCHANGED faults
  PROVE  faults' \in 0 .. MaxFaults
BY ControllerAssumption DEF TypeOK, Fault

\* Whatever becomes of the operation, the answer and the lock keep their types.
LEMMA ReturnTypes ==
  ASSUME TypeOK, UNCHANGED <<host, lossy, dropped>>,
         faults' \in 0 .. MaxFaults,
         UNCHANGED <<proxy, proc>>,
         Panic \/ Return("ok") \/ Return("error")
  PROVE  OtherFrame
<1>1. CASE Panic
  BY <1>1 DEF TypeOK, OtherFrame, Panic, Release
<1>2. ASSUME NEW status \in {"ok", "error"}, Return(status)
      PROVE  OtherFrame
  <2>1. [cfg |-> op.cfg, status |-> status]
          \in ReplyType
    BY DEF TypeOK
  <2> QED
    BY <1>2, <2>1 DEF TypeOK, OtherFrame, Return, Answer, Release
<1> QED
  BY <1>1, <1>2

----------------------------------------------------------------------------
(* Every step preserves IInv.                                              *)

\* A set-up command whose effect keeps the type of the host.
LEMMA CommandFrame ==
  ASSUME TypeOK, NEW at \in SetupPc, NEW next \in SetupPc,
         op.pc = at,
         \/ op' = [op EXCEPT !.pc = next]
         \/ op' = [op EXCEPT !.pc = "netns_del"],
         host' \in HostType,
         UNCHANGED faults \/ Fault,
         UNCHANGED <<proxy, proc, lock, main, conn, reply, lossy, dropped>>
  PROVE  SetupFrame(at, next)
BY FaultType DEF SetupFrame

LEMMA SetupPreserves ==
  ASSUME IInv, SetupStep
  PROVE  IInv'
<1> USE DEF IInv
<1>0. /\ host \in HostType /\ proxy.device \in Ifaces
      /\ op.pc \in SetupPc => proxy.gen \in Gens
  BY DEF TypeOK, EnvInv
<1>1. CASE Bind
  <2>1. /\ proxy.gen \in Gens /\ op.pc = "bind" /\ op.join = None
        /\ proc[proxy.gen].task = "none"
    BY <1>1 DEF Bind, EnvInv, SetupPc
  <2>2. CASE UNCHANGED proc
    <3>1. SetupFrame("bind", "gateway")
      BY <1>1, <2>2, FaultType DEF Bind, SetupFrame, TypeOK, UdsListen
    <3> QED
      BY <3>1, SetupFramePreserves DEF SetupPc
  <2>3. CASE UdsListen(proxy.gen, op.cfg) /\ op' = [op EXCEPT !.pc = "gateway"] /\ UNCHANGED faults
    <3>1. /\ proc \in [Gens -> ProcType] /\ proc' \in [Gens -> ProcType]
          /\ \A g \in Gens : /\ proc'[g].task = proc[g].task
                             /\ proc'[g].child = proc[g].child
                             /\ proc'[g].stop = proc[g].stop
                             /\ proc'[g].sig = proc[g].sig
      BY <2>1, <2>3 DEF UdsListen, TypeOK, ProcType
    <3>2. /\ op'.pc = "gateway" /\ op'.join = None
          /\ op' \in OpType
      BY <2>1, <2>3 DEF TypeOK, OpPc, SetupPc
    <3>3. TypeOK'
      BY <1>1, <2>3, <3>1, <3>2 DEF Bind, TypeOK, ProcType
    <3>4. EnvInv' /\ GenInv'
      BY <1>1, <2>1, <3>1, <3>2 DEF Bind, EnvInv, GenInv, SetupPc, TeardownPc
    <3>5. ProcInv' /\ NoStrayProxy'
      BY <1>1, <3>1 DEF Bind, ProcInv, NoStrayProxy
    <3> QED
      BY <3>3, <3>4, <3>5
  <2> QED
    BY <1>1, <2>2, <2>3 DEF Bind
<1>2. CASE GetGateway
  <2>1. SetupFrame("gateway", "save_dns")
    BY <1>0, <1>2, CommandFrame DEF GetGateway, Command, SetupPc
  <2> QED
    BY <2>1, SetupFramePreserves DEF SetupPc
<1>3. CASE BackupDns
  <2>1. SetupFrame("save_dns", "netns_add")
    BY <1>0, <1>3, CommandFrame, CommandTypes DEF BackupDns, Command, SetupPc
  <2> QED
    BY <2>1, SetupFramePreserves DEF SetupPc
<1>4. CASE AddNetns
  <2>1. SetupFrame("netns_add", "bridge1_add")
    BY <1>0, <1>4, CommandFrame, CommandTypes DEF AddNetns, Command, SetupPc
  <2> QED
    BY <2>1, SetupFramePreserves DEF SetupPc
<1>5. CASE AddBridge1
  <2>1. SetupFrame("bridge1_add", "veth1_add")
    BY <1>0, <1>5, CommandFrame, CommandTypes DEF AddBridge1, Command, SetupPc
  <2> QED
    BY <2>1, SetupFramePreserves DEF SetupPc
<1>6. CASE AddVeth1
  <2>1. SetupFrame("veth1_add", "veth4_add")
    BY <1>0, <1>6, CommandFrame, CommandTypes DEF AddVeth1, Command, SetupPc
  <2> QED
    BY <2>1, SetupFramePreserves DEF SetupPc
<1>7. CASE AddVeth4
  <2>1. SetupFrame("veth4_add", "set_master")
    BY <1>0, <1>7, CommandFrame, CommandTypes DEF AddVeth4, Command, SetupPc
  <2> QED
    BY <2>1, SetupFramePreserves DEF SetupPc
<1>8. CASE EnslaveDevice
  <2>1. SetupFrame("set_master", "addr_del")
    BY <1>0, <1>8, CommandFrame, CommandTypes DEF EnslaveDevice, Command, SetupPc
  <2> QED
    BY <2>1, SetupFramePreserves DEF SetupPc
<1>9. CASE RemoveAddress
  <2>1. SetupFrame("addr_del", "addr_add")
    BY <1>0, <1>9, CommandFrame, AddressTypes DEF RemoveAddress, CommandIgnoringErrors, SetupPc
  <2> QED
    BY <2>1, SetupFramePreserves DEF SetupPc
<1>10. CASE MoveAddress
  <2>1. proxy.gen \in Ifaces
    BY <1>0, <1>10 DEF MoveAddress, Command, SetupPc, Ifaces
  <2>2. SetupFrame("addr_add", "route_add")
    BY <1>0, <1>10, <2>1, CommandFrame, AddressTypes DEF MoveAddress, Command, SetupPc
  <2> QED
    BY <2>2, SetupFramePreserves DEF SetupPc
<1>11. CASE AddDefaultRoute
  <2>1. DefaultVia(proxy.gen) \in Route /\ proxy.gen \in Gens
    BY <1>0, <1>11, DefaultViaType DEF AddDefaultRoute, Command, SetupPc
  <2>2. SetupFrame("route_add", "get_routes")
    BY <1>0, <1>11, <2>1, CommandFrame, RouteTypes DEF AddDefaultRoute, Command, SetupPc
  <2> QED
    BY <2>2, SetupFramePreserves DEF SetupPc
<1>12. CASE GetRoutes
  <2>1. SetupFrame("get_routes", "del_kernel_routes")
    BY <1>0, <1>12, CommandFrame DEF GetRoutes, Command, SetupPc
  <2> QED
    BY <2>1, SetupFramePreserves DEF SetupPc
<1>13. CASE DeleteKernelRoutes
  <2>1. KernelRoutesDel(host) \in HostType
    BY <1>0 DEF HostType, KernelRoutesDel
  <2>2. SetupFrame("del_kernel_routes", "announce")
    BY <1>0, <1>13, <2>1, CommandFrame DEF DeleteKernelRoutes, Command, SetupPc
  <2> QED
    BY <2>2, SetupFramePreserves DEF SetupPc
<1>14. CASE Announce
  <2>1. SetupFrame("announce", "iptables")
    BY <1>0, <1>14, CommandFrame DEF Announce, Command, SetupPc
  <2> QED
    BY <2>1, SetupFramePreserves DEF SetupPc
<1>15. CASE AnnouncePanics
  <2>1. OtherFrame
    BY <1>0, <1>15, FaultType DEF AnnouncePanics, Panic, Release, OtherFrame, TypeOK
  <2> QED
    BY <2>1, OtherFramePreserves
<1>16. CASE SetIptables
  <2>1. SetupFrame("iptables", "ebtables")
    BY <1>0, <1>16, CommandFrame DEF SetIptables, Command, SetupPc
  <2> QED
    BY <2>1, SetupFramePreserves DEF SetupPc
<1>17. CASE SetEbtables
  <2>1. SetupFrame("ebtables", "dns_back")
    BY <1>0, <1>17, CommandFrame, CommandTypes DEF SetEbtables, Command, SetupPc
  <2> QED
    BY <2>1, SetupFramePreserves DEF SetupPc
<1>18. CASE PutDnsBack
  <2>1. RestoreDns(host) \in HostType
    BY <1>0 DEF HostType, RestoreDns, DnsFile
  <2>2. SetupFrame("dns_back", "spawn")
    BY <1>0, <1>18, <2>1, CommandFrame DEF PutDnsBack, CommandIgnoringErrors, SetupPc
  <2> QED
    BY <2>2, SetupFramePreserves DEF SetupPc
<1>19. CASE SpawnTask
  <2>1. /\ proxy.gen \in Gens /\ proxy.sender = proxy.gen /\ op.pc = "spawn"
        /\ op.join = None /\ proc[proxy.gen].task = "none"
    BY <1>19 DEF SpawnTask, EnvInv, SetupPc
  <2>2. CASE UNCHANGED <<proxy, proc>>
    <3>1. SetupFrame("spawn", "spawn")
      BY <1>0, <1>19, <2>1, <2>2, FaultType DEF SpawnTask, SetupFrame, TypeOK, ProcType
    <3> QED
      BY <3>1, SetupFramePreserves DEF SetupPc
  <2>3. CASE /\ proxy' = [proxy EXCEPT !.task = proxy.gen]
             /\ proc' = [proc EXCEPT ![proxy.gen].task = "spawn"]
             /\ Return("ok") /\ UNCHANGED faults
    <3>1. /\ proc \in [Gens -> ProcType] /\ proc' \in [Gens -> ProcType]
          /\ proc'[proxy.gen].task = "spawn"
          /\ \A g \in Gens : /\ g # proxy.gen => proc'[g] = proc[g]
                             /\ proc'[g].child = proc[g].child
                             /\ proc'[g].stop = proc[g].stop
                             /\ proc'[g].sig = proc[g].sig
      BY <2>1, <2>3 DEF TypeOK, ProcType
    <3>2. /\ op'.pc = "idle" /\ proxy'.task = proxy.gen
          /\ proxy'.gen = proxy.gen /\ proxy'.sender = proxy.gen
      BY <2>1, <2>3, IdleType DEF Return, TypeOK
    <3>3. TypeOK'
      <4>1. /\ proxy' \in ProxyType
            /\ proc' \in [Gens -> ProcType]
        BY <2>1, <2>3, <3>1 DEF TypeOK
      <4>2. [cfg |-> op.cfg, status |-> "ok"]
              \in ReplyType
        BY DEF TypeOK
      <4>3. /\ lock' \in {"free", "handler", "main"}
            /\ main' \in {"reload", "start", "wait", "lock", "stopping", "join", "drop",
                          "exited", "killed"}
            /\ conn' \in {"idle", "body", "lock", "op", "done", "panicked"}
            /\ reply' \in ReplyType
            /\ op' = Idle
        BY <2>3, <4>2 DEF Return, Answer, Release, TypeOK
      <4> QED
        BY <1>19, <2>3, <4>1, <4>3, IdleType DEF SpawnTask, TypeOK, ProcType
    <3>4. EnvInv' /\ GenInv'
      BY <3>2 DEF EnvInv, GenInv, SetupPc, TeardownPc
    <3>5. ProcInv'
      <4>1. proxy.gen \in Nat
        BY <2>1, HostAssumption DEF Gens
      <4>2. proc[proxy.gen].child = "none"
        BY <2>1 DEF ProcInv
      <4>3. ASSUME NEW g \in Gens, g > proxy.gen
            PROVE  proc'[g].task = "none"
        <5>1. g # proxy.gen
          BY <4>1, <4>3 DEF Gens
        <5> QED
          BY <3>1, <4>3, <5>1 DEF ProcInv
      <4>4. ASSUME NEW g \in Gens, proc'[g].task \in {"none", "spawn"}
            PROVE  proc'[g].child = "none"
        <5>1. CASE g = proxy.gen
          BY <3>1, <4>2, <5>1
        <5>2. CASE g # proxy.gen
          BY <3>1, <4>4, <5>2 DEF ProcInv
        <5> QED
          BY <5>1, <5>2
      <4> QED
        BY <3>2, <4>3, <4>4 DEF ProcInv
    <3>6. NoStrayProxy'
      <4>1. proxy.task = None
        BY <2>1 DEF EnvInv
      <4>2. proc[proxy.gen].child = "none"
        BY <2>1 DEF ProcInv
      <4>3. ASSUME NEW g \in Gens, proc'[g].task \in {"spawn", "run"}, ~proc'[g].stop
            PROVE  proxy'.task = g
        BY <3>1, <3>2, <4>1, <4>3 DEF NoStrayProxy, None, Gens
      <4>4. ASSUME NEW g \in Gens, proc'[g].child \in {"start", "boot", "serve"}, ~proc'[g].sig
            PROVE  proc'[g].task = "run"
        <5>1. g # proxy.gen
          BY <3>1, <4>2, <4>4
        <5> QED
          BY <3>1, <4>4, <5>1 DEF NoStrayProxy
      <4> QED
        BY <4>3, <4>4 DEF NoStrayProxy
    <3> QED
      BY <3>3, <3>4, <3>5, <3>6
  <2> QED
    BY <1>19, <2>2, <2>3 DEF SpawnTask
<1> QED
  BY <1>1, <1>2, <1>3, <1>4, <1>5, <1>6, <1>7, <1>8, <1>9, <1>10, <1>11, <1>12, <1>13,
     <1>14, <1>15, <1>16, <1>17, <1>18, <1>19 DEF SetupStep

LEMMA TeardownPreserves ==
  ASSUME IInv, TeardownStep
  PROVE  IInv'
<1> USE DEF IInv
<1>0. /\ host \in HostType /\ proxy.device \in Ifaces
      /\ op.pc \in TeardownPc => proxy.gen \in Gens
  BY DEF TypeOK, EnvInv
\* A tear-down command whose effect keeps the type of the host.
<1> DEFINE Keeps(at, next) ==
      /\ op.pc = at
      /\ op' = [op EXCEPT !.pc = next]
      /\ host' \in HostType
      /\ UNCHANGED <<faults, lossy>> \/ (Fault /\ lossy' = TRUE)
      /\ UNCHANGED <<proxy, proc, lock, main, conn, reply, dropped>>
<1>a. ASSUME NEW at \in TeardownPc, NEW next \in TeardownPc, Keeps(at, next)
      PROVE  IInv'
  <2>1. /\ op' \in [pc : {next}, cfg : {op.cfg}, join : {op.join}, rest : SUBSET Route]
        /\ lossy' \in BOOLEAN
    BY <1>a DEF TypeOK
  <2>2. TeardownFrame(at, next)
    BY <1>a, <2>1, FaultType DEF TeardownFrame
  <2> QED
    BY <2>2, TeardownFramePreserves
<1>1. CASE DeleteNetns
  <2>1. Keeps("netns_del", "bridge1_del")
    BY <1>0, <1>1, CommandTypes DEF DeleteNetns, Teardown, TeardownPc
  <2> QED
    BY <1>a, <2>1 DEF TeardownPc
<1>2. CASE DeleteBridge1
  <2>1. Keeps("bridge1_del", "addr_restore")
    BY <1>0, <1>2, CommandTypes DEF DeleteBridge1, Teardown, TeardownPc
  <2> QED
    BY <1>a, <2>1 DEF TeardownPc
<1>3. CASE RestoreAddress
  <2>1. Keeps("addr_restore", "dns_restore")
    BY <1>0, <1>3, AddressTypes DEF RestoreAddress, Teardown, TeardownPc
  <2> QED
    BY <1>a, <2>1 DEF TeardownPc
<1>4. CASE RestoreDnsFile
  <2>1. Keeps("dns_restore", "nat_flush")
    BY <1>0, <1>4 DEF RestoreDnsFile, Teardown, RestoreDns, HostType, DnsFile
  <2> QED
    BY <1>a, <2>1 DEF TeardownPc
<1>5. CASE FlushNat
  <2>1. Keeps("nat_flush", "del_routes")
    BY <1>0, <1>5 DEF FlushNat, Teardown, NatFlush, HostType
  <2> QED
    BY <1>a, <2>1 DEF TeardownPc
<1>6. CASE DeleteRoutes
  <2>1. host' \in HostType
    <3>1. CASE host' = RoutesDel(host)
      BY <1>0, <3>1 DEF RoutesDel, HostType
    <3>2. CASE \E left \in SUBSET host.routes : host' = [host EXCEPT !.routes = left]
      <4>1. PICK left \in SUBSET host.routes : host' = [host EXCEPT !.routes = left]
        BY <3>2
      <4> QED
        BY <1>0, <4>1 DEF HostType
    <3> QED
      BY <1>6, <3>1, <3>2 DEF DeleteRoutes
  <2>2. /\ op' \in [pc : {"load_routes"}, cfg : {op.cfg}, join : {op.join}, rest : SUBSET Route]
        /\ lossy' \in BOOLEAN /\ faults' \in 0 .. MaxFaults
    BY <1>6, FaultType DEF DeleteRoutes, TypeOK
  <2>3. TeardownFrame("del_routes", "load_routes")
    BY <1>6, <2>1, <2>2 DEF DeleteRoutes, TeardownFrame
  <2> QED
    BY <2>3, TeardownFramePreserves DEF TeardownPc
<1>7. ASSUME NEW r \in Route, LoadRoute(r)
      PROVE  IInv'
  <2>1. host' \in HostType
    <3>1. RouteAdd(host, r, FALSE) \in HostType
      BY <1>0, RouteTypes
    <3> QED
      BY <1>0, <1>7, <3>1 DEF LoadRoute
  <2>2. /\ op' \in [pc : {"load_routes"}, cfg : {op.cfg}, join : {op.join}, rest : SUBSET Route]
        /\ lossy' \in BOOLEAN /\ faults' \in 0 .. MaxFaults
    BY <1>7, FaultType DEF LoadRoute, TypeOK
  <2>3. TeardownFrame("load_routes", "load_routes")
    BY <1>7, <2>1, <2>2 DEF LoadRoute, TeardownFrame
  <2> QED
    BY <2>3, TeardownFramePreserves DEF TeardownPc
<1>8. CASE RoutesLoaded
  <2>1. Keeps("load_routes", "cleared")
    BY <1>0, <1>8 DEF RoutesLoaded
  <2> QED
    BY <1>a, <2>1 DEF TeardownPc
<1>9. CASE Cleared
  <2>1. CASE Return("error") /\ op.join = None
    <3>1. OtherFrame
      BY <1>9, <2>1, ReturnTypes DEF Cleared, TypeOK
    <3> QED
      BY <3>1, OtherFramePreserves
  <2>2. CASE /\ op.join # None /\ op' = [op EXCEPT !.pc = "await_task"]
             /\ UNCHANGED <<lock, main, conn, reply>>
    <3>1. /\ op' \in OpType
          /\ op'.pc = "await_task" /\ op'.cfg = op.cfg
      BY <2>2 DEF TypeOK, OpPc
    <3>2. TypeOK'
      BY <1>9, <2>2, <3>1 DEF Cleared, TypeOK
    <3>3. EnvInv' /\ GenInv'
      BY <1>9, <2>2, <3>1 DEF Cleared, EnvInv, GenInv, SetupPc, TeardownPc
    <3>4. ProcInv' /\ NoStrayProxy'
      BY <1>9 DEF Cleared, ProcInv, NoStrayProxy
    <3> QED
      BY <3>2, <3>3, <3>4
  <2> QED
    BY <1>9, <2>1, <2>2 DEF Cleared
<1> QED
  BY <1>1, <1>2, <1>3, <1>4, <1>5, <1>6, <1>7, <1>8, <1>9 DEF TeardownStep

LEMMA ReloadPreserves ==
  ASSUME IInv, ReloadStep
  PROVE  IInv'
<1> USE DEF IInv
<1>1. CASE Stop
  <2>1. CASE proxy.task = None /\ op' = [op EXCEPT !.pc = "stopped"] /\ UNCHANGED <<proxy, proc>>
    <3>1. /\ op' \in OpType
          /\ op'.pc = "stopped" /\ op'.cfg = op.cfg
      BY <2>1 DEF TypeOK, OpPc
    <3>2. TypeOK'
      BY <1>1, <2>1, <3>1 DEF Stop, TypeOK
    <3>3. EnvInv' /\ GenInv'
      BY <1>1, <2>1, <3>1 DEF Stop, EnvInv, GenInv, SetupPc, TeardownPc
    <3>4. ProcInv' /\ NoStrayProxy'
      BY <2>1 DEF ProcInv, NoStrayProxy
    <3> QED
      BY <3>2, <3>3, <3>4
  <2>2. CASE /\ proxy.task # None
             /\ op' = [op EXCEPT !.pc = "netns_del", !.join = proxy.task]
             /\ proxy' = [proxy EXCEPT !.task = None, !.sender = None]
             /\ proc' = [g \in Gens |-> IF g = proxy.sender THEN [proc[g] EXCEPT !.stop = TRUE]
                                                            ELSE proc[g]]
    <3>1. /\ proxy.gen \in Gens /\ proxy.sender = proxy.gen /\ proxy.task = proxy.gen
      BY <2>2 DEF EnvInv, TypeOK
    <3>2. /\ op' \in OpType
          /\ op'.pc = "netns_del" /\ op'.cfg = op.cfg
      BY <2>2, <3>1 DEF TypeOK, OpPc, TeardownPc
    <3>3. /\ proxy' \in ProxyType
          /\ proxy'.gen = proxy.gen /\ proxy'.task = None
      BY <2>2 DEF TypeOK
    <3>4. /\ proc \in [Gens -> ProcType] /\ proc' \in [Gens -> ProcType]
          /\ proc'[proxy.gen].stop
          /\ \A g \in Gens :
               /\ g # proxy.gen => proc'[g] = proc[g]
               /\ proc'[g].task = proc[g].task
               /\ proc'[g].child = proc[g].child
               /\ proc'[g].sig = proc[g].sig
      <4>1. proc \in [Gens -> ProcType]
        BY DEF TypeOK, ProcType
      <4>2. \A g \in Gens : proc'[g] = IF g = proxy.gen THEN [proc[g] EXCEPT !.stop = TRUE]
                                                        ELSE proc[g]
        BY <2>2, <3>1
      <4>3. \A g \in Gens : [proc[g] EXCEPT !.stop = TRUE] \in ProcType
        BY <4>1 DEF ProcType
      <4>4. proc' \in [Gens -> ProcType]
        BY <2>2, <3>1, <4>1, <4>3
      <4> QED
        BY <3>1, <4>1, <4>2, <4>4 DEF ProcType
    <3>5. TypeOK'
      BY <1>1, <3>2, <3>3, <3>4 DEF Stop, TypeOK, ProcType
    <3>6. EnvInv' /\ GenInv'
      BY <1>1, <3>1, <3>2, <3>3, <3>4 DEF Stop, EnvInv, GenInv, SetupPc, TeardownPc
    <3>7. ProcInv'
      BY <3>3, <3>4 DEF ProcInv
    <3>8. NoStrayProxy'
      <4>1. ASSUME NEW g \in Gens, proc'[g].task \in {"spawn", "run"}, ~proc'[g].stop
            PROVE  FALSE
        <5>1. g # proxy.gen
          BY <3>4, <4>1
        <5>2. proxy.task = g
          BY <3>4, <4>1, <5>1 DEF NoStrayProxy
        <5> QED
          BY <3>1, <5>1, <5>2
      <4>2. \A g \in Gens : proc'[g].child \in {"start", "boot", "serve"} /\ ~proc'[g].sig
                              => proc'[g].task = "run"
        BY <3>4 DEF NoStrayProxy
      <4> QED
        BY <4>1, <4>2 DEF NoStrayProxy
    <3> QED
      BY <3>5, <3>6, <3>7, <3>8
  <2> QED
    BY <1>1, <2>1, <2>2 DEF Stop
<1>2. CASE AwaitTask
  <2>1. /\ op' \in OpType
        /\ op'.pc = "stopped" /\ op'.cfg = op.cfg
    BY <1>2 DEF AwaitTask, TypeOK, OpPc
  <2>2. TypeOK'
    BY <1>2, <2>1 DEF AwaitTask, TypeOK
  <2>3. EnvInv' /\ GenInv'
    BY <1>2, <2>1 DEF AwaitTask, EnvInv, GenInv, SetupPc, TeardownPc
  <2>4. ProcInv' /\ NoStrayProxy'
    BY <1>2 DEF AwaitTask, ProcInv, NoStrayProxy
  <2> QED
    BY <2>2, <2>3, <2>4
<1>3. CASE AfterStop
  <2>1. CASE Return("ok")
    <3>1. OtherFrame
      BY <1>3, <2>1, ReturnTypes DEF AfterStop, TypeOK
    <3> QED
      BY <3>1, OtherFramePreserves
  <2>2. CASE /\ op.cfg # NoPorts /\ op' = [op EXCEPT !.pc = "new"]
             /\ UNCHANGED <<lock, main, conn, reply>>
    <3>1. /\ op' \in OpType
          /\ op'.pc = "new"
      BY <2>2 DEF TypeOK, OpPc
    <3>2. TypeOK'
      BY <1>3, <2>2, <3>1 DEF AfterStop, TypeOK
    <3>3. EnvInv' /\ GenInv'
      BY <1>3, <2>2, <3>1 DEF AfterStop, EnvInv, GenInv, SetupPc, TeardownPc
    <3>4. ProcInv' /\ NoStrayProxy'
      BY <1>3 DEF AfterStop, ProcInv, NoStrayProxy
    <3> QED
      BY <3>2, <3>3, <3>4
  <2> QED
    BY <1>3, <2>1, <2>2 DEF AfterStop
<1>4. CASE NewEnv
  <2> DEFINE n == proxy.gen + 1
  <2>1. n \in Gens /\ n > proxy.gen
    BY <1>4, HostAssumption DEF NewEnv, GenInv, TypeOK, Gens, None
  <2>2. proxy' \in ProxyType
    <3>1. host.routes \in SUBSET Route
      BY DEF TypeOK, HostType
    <3> QED
      BY <1>4, <2>1, <3>1, DefaultInterfaceType DEF NewEnv, TypeOK
  <2>3. /\ op' \in OpType
        /\ op'.pc = "bind" /\ op'.join = op.join
    BY <1>4 DEF NewEnv, TypeOK, OpPc, SetupPc
  <2>4. TypeOK'
    BY <1>4, <2>2, <2>3 DEF NewEnv, TypeOK
  <2>5. proxy'.gen = n /\ proxy'.sender = n /\ proxy'.task = None /\ proxy.task = None
    BY <1>4 DEF NewEnv, EnvInv
  <2>6. proc[n].task = "none"
    BY <2>1 DEF ProcInv
  <2>7. EnvInv'
    BY <1>4, <2>1, <2>3, <2>5, <2>6 DEF NewEnv, EnvInv, SetupPc, TeardownPc
  <2>8. GenInv'
    BY <2>3 DEF GenInv, TeardownPc
  <2>9. ProcInv'
    <3>1. \A g \in Gens : g > n => g > proxy.gen
      BY <2>1, HostAssumption DEF TypeOK, Gens, None
    <3> QED
      BY <1>4, <2>5, <3>1 DEF NewEnv, ProcInv
  <2>10. NoStrayProxy'
    BY <1>4, <2>5 DEF NewEnv, NoStrayProxy
  <2> QED
    BY <2>4, <2>7, <2>8, <2>9, <2>10
<1>5. CASE NewEnvPanics
  <2>1. faults' \in 0 .. MaxFaults
    BY <1>5, FaultType DEF NewEnvPanics
  <2>2. OtherFrame
    BY <1>5, <2>1, ReturnTypes DEF NewEnvPanics, TypeOK
  <2> QED
    BY <2>2, OtherFramePreserves
<1> QED
  BY <1>1, <1>2, <1>3, <1>4, <1>5 DEF ReloadStep
LEMMA ProcPreserves ==
  ASSUME IInv, NEW g \in Gens, ProcStep(g)
  PROVE  IInv'
<1> USE DEF IInv
<1>0. /\ proc \in [Gens -> ProcType] /\ proc[g] \in ProcType
      /\ host \in HostType
      /\ proc[g].task \in {"none", "spawn"} => proc[g].child = "none"
  BY DEF TypeOK, ProcType, ProcInv
<1>1. CASE SpawnChild(g)
  <2>1. ProcFrame(g)
    <3>1. CASE proc' = [proc EXCEPT ![g].task = "run", ![g].child = "start"] /\ UNCHANGED faults
      <4> DEFINE p == [proc[g] EXCEPT !.task = "run", !.child = "start"]
      <4>1. proc' = [proc EXCEPT ![g] = p]
        BY <1>0, <3>1
      <4>2. /\ p \in ProcType /\ p.task = "run" /\ p.child = "start"
            /\ p.stop = proc[g].stop /\ p.sig = proc[g].sig
        BY <1>0 DEF ProcType
      <4>3. proc[g].task = "spawn" /\ proc[g].child = "none"
        BY <1>0, <1>1 DEF SpawnChild
      <4> HIDE DEF p
      <4> QED
        BY <1>0, <1>1, <3>1, <4>1, <4>2, <4>3, FaultType DEF SpawnChild, ProcFrame
    <3>2. CASE proc' = [proc EXCEPT ![g].task = "done"] /\ Fault
      <4> DEFINE p == [proc[g] EXCEPT !.task = "done"]
      <4>1. proc' = [proc EXCEPT ![g] = p]
        BY <1>0, <3>2
      <4>2. /\ p \in ProcType /\ p.task = "done" /\ p.child = proc[g].child
            /\ p.stop = proc[g].stop /\ p.sig = proc[g].sig
        BY <1>0 DEF ProcType
      <4>3. proc[g].task = "spawn"
        BY <1>1 DEF SpawnChild
      <4> HIDE DEF p
      <4> QED
        BY <1>0, <1>1, <3>2, <4>1, <4>2, <4>3, FaultType DEF SpawnChild, ProcFrame
    <3> QED
      BY <1>1, <3>1, <3>2 DEF SpawnChild
  <2> QED
    BY <2>1, ProcFramePreserves
<1>2. CASE SelectWait(g)
  <2> DEFINE p == [proc[g] EXCEPT !.task = "done"]
  <2>1. proc' = [proc EXCEPT ![g] = p]
    BY <1>0, <1>2 DEF SelectWait
  <2>2. /\ p \in ProcType /\ p.task = "done" /\ p.child = proc[g].child
        /\ p.stop = proc[g].stop /\ p.sig = proc[g].sig
    BY <1>0 DEF ProcType
  <2>3. proc[g].task = "run" /\ proc[g].child = "dead"
    BY <1>2 DEF SelectWait
  <2>4. ProcFrame(g)
    <3> HIDE DEF p
    <3> QED
      BY <1>0, <1>2, <2>1, <2>2, <2>3, FaultType DEF SelectWait, ProcFrame
  <2> QED
    BY <2>4, ProcFramePreserves
<1>3. CASE SelectStop(g)
  <2> DEFINE p == [proc[g] EXCEPT !.task = "done", !.sig = TRUE]
  <2>1. proc' = [proc EXCEPT ![g] = p]
    BY <1>0, <1>3 DEF SelectStop
  <2>2. /\ p \in ProcType /\ p.task = "done" /\ p.child = proc[g].child
        /\ p.stop = proc[g].stop /\ p.sig
    BY <1>0 DEF ProcType
  <2>3. proc[g].task = "run"
    BY <1>3 DEF SelectStop
  <2>4. ProcFrame(g)
    <3> HIDE DEF p
    <3> QED
      BY <1>0, <1>3, <2>1, <2>2, <2>3, FaultType DEF SelectStop, ProcFrame
  <2> QED
    BY <2>4, ProcFramePreserves
<1>4. CASE EnterNetns(g)
  <2> DEFINE p == [proc[g] EXCEPT !.child = IF g \in host.ns THEN "boot" ELSE "dead"]
  <2>1. proc' = [proc EXCEPT ![g] = p]
    BY <1>0, <1>4 DEF EnterNetns
  <2>2. /\ p \in ProcType /\ p.task = proc[g].task /\ p.child \in {"boot", "dead"}
        /\ p.stop = proc[g].stop /\ p.sig = proc[g].sig
    BY <1>0 DEF ProcType
  <2>3. proc[g].child = "start"
    BY <1>4 DEF EnterNetns
  <2>4. ProcFrame(g)
    <3> HIDE DEF p
    <3> QED
      BY <1>0, <1>4, <2>1, <2>2, <2>3, FaultType DEF EnterNetns, ProcFrame
  <2> QED
    BY <2>4, ProcFramePreserves
<1>5. CASE ReadConfig(g)
  <2> DEFINE p == IF Alive /\ proc[g].uds # NoCfg
                    THEN [proc[g] EXCEPT !.child = "serve", !.cfg = proc[g].uds]
                    ELSE [proc[g] EXCEPT !.child = "dead"]
  <2>1. proc' = [proc EXCEPT ![g] = p]
    BY <1>0, <1>5 DEF ReadConfig
  <2>2. /\ p \in ProcType /\ p.task = proc[g].task /\ p.child \in {"serve", "dead"}
        /\ p.stop = proc[g].stop /\ p.sig = proc[g].sig
    BY <1>0 DEF ProcType
  <2>3. proc[g].child = "boot"
    BY <1>5 DEF ReadConfig
  <2>4. ProcFrame(g)
    <3> HIDE DEF p
    <3> QED
      BY <1>0, <1>5, <2>1, <2>2, <2>3, FaultType DEF ReadConfig, ProcFrame
  <2> QED
    BY <2>4, ProcFramePreserves
<1>6. CASE ChildStops(g)
  <2> DEFINE p == [proc[g] EXCEPT !.child = "dead", !.cfg = NoCfg]
  <2>1. proc' = [proc EXCEPT ![g] = p]
    BY <1>0, <1>6 DEF ChildStops
  <2>2. /\ p \in ProcType /\ p.task = proc[g].task /\ p.child = "dead"
        /\ p.stop = proc[g].stop /\ p.sig = proc[g].sig
    BY <1>0 DEF ProcType
  <2>3. proc[g].child # "none"
    BY <1>6 DEF ChildStops
  <2>4. ProcFrame(g)
    <3> HIDE DEF p
    <3> QED
      BY <1>0, <1>6, <2>1, <2>2, <2>3, FaultType DEF ChildStops, ProcFrame
  <2> QED
    BY <2>4, ProcFramePreserves
<1>7. CASE ReapNetns(g)
  <2>1. NsDestroy(host, g) \in HostType
    BY <1>0 DEF NsDestroy, HostType
  <2>2. proc' = [proc EXCEPT ![g] = proc[g]]
    BY <1>0, <1>7 DEF ReapNetns
  <2>3. ProcFrame(g)
    BY <1>0, <1>7, <2>1, <2>2, FaultType DEF ReapNetns, ProcFrame
  <2> QED
    BY <2>3, ProcFramePreserves
<1> QED
  BY <1>1, <1>2, <1>3, <1>4, <1>5, <1>6, <1>7 DEF ProcStep

LEMMA BeginPreserves ==
  ASSUME IInv, NEW c \in Configs, op' = Begin(c), c = NoPorts \/ proxy.gen < MaxGen,
         UNCHANGED <<proxy, proc>>
  PROVE  EnvInv' /\ GenInv' /\ ProcInv' /\ NoStrayProxy'
<1>1. op'.pc = "stop" /\ op'.cfg = c /\ op'.join = None
  BY DEF Begin
<1>2. EnvInv' /\ GenInv'
  BY <1>1 DEF IInv, EnvInv, GenInv, SetupPc, TeardownPc
<1>3. ProcInv' /\ NoStrayProxy'
  BY DEF IInv, ProcInv, NoStrayProxy
<1> QED
  BY <1>2, <1>3

LEMMA OuterPreserves ==
  ASSUME IInv, MainStep \/ ServerStops \/ BodyArrives \/ Environment
  PROVE  IInv'
<1> USE DEF IInv
<1>1. ASSUME RegisterSignals \/ JoinServer \/ ServerStops \/ Signal \/ StdinReturns
      PROVE  IInv'
  <2>1. OtherFrame
    BY <1>1 DEF RegisterSignals, JoinServer, ServerStops, Signal, StdinReturns, OtherFrame, TypeOK
  <2> QED
    BY <2>1, OtherFramePreserves
<1>2. CASE LockAndStop
  <2>1. NoPorts \in Configs /\ op' = Begin(NoPorts)
    BY <1>2 DEF LockAndStop, Configs
  <2>2. TypeOK'
    BY <1>2, <2>1 DEF LockAndStop, TypeOK, Begin, OpPc, None
  <2> QED
    BY <1>2, <2>1, <2>2, BeginPreserves DEF LockAndStop
<1>3. ASSUME NEW c \in Configs \cup {NoCfg}, Body(c)
      PROVE  IInv'
  <2>1. CASE c # NoCfg /\ DefaultHasIpv4(host)
    <3>1. c \in Configs /\ op' = Begin(c) /\ (c = NoPorts \/ proxy.gen < MaxGen)
      BY <1>3, <2>1 DEF Body, Configs
    <3>2. TypeOK'
      BY <1>3, <2>1, <3>1 DEF Body, TypeOK, Begin, OpPc, None
    <3> QED
      BY <1>3, <3>1, <3>2, BeginPreserves DEF Body
  <2>2. CASE ~(c # NoCfg /\ DefaultHasIpv4(host))
    <3>1. [cfg |-> c, status |-> "refused"]
            \in ReplyType
      OBVIOUS
    <3>2. OtherFrame
      BY <1>3, <2>2, <3>1 DEF Body, Answer, Release, OtherFrame, TypeOK
    <3> QED
      BY <3>2, OtherFramePreserves
  <2> QED
    BY <2>1, <2>2
<1>4. CASE NotPut
  <2>1. [cfg |-> NoCfg, status |-> "refused"]
          \in ReplyType
    OBVIOUS
  <2>2. OtherFrame
    BY <1>4, <2>1 DEF NotPut, Answer, Release, OtherFrame, TypeOK
  <2> QED
    BY <2>2, OtherFramePreserves
<1>5. CASE RewriteDns
  <2>1. host' \in HostType
    BY <1>5 DEF RewriteDns, TypeOK, HostType, DnsFile
  <2>2. OtherFrame
    BY <1>5, <2>1 DEF RewriteDns, OtherFrame, TypeOK
  <2> QED
    BY <2>2, OtherFramePreserves
<1>6. CASE Request
  <2>1. NoReply \in ReplyType
    BY DEF NoReply
  <2>2. OtherFrame
    BY <1>6, <2>1 DEF Request, OtherFrame, TypeOK
  <2> QED
    BY <2>2, OtherFramePreserves
<1>7. CASE Eof
  <2>1. dropped' \in BOOLEAN
    BY <1>7 DEF Eof, TypeOK
  <2>2. OtherFrame
    BY <1>7, <2>1 DEF Eof, Release, OtherFrame, TypeOK
  <2> QED
    BY <2>2, OtherFramePreserves
<1>8. ASSUME NEW g \in Gens, ChildCrashes(g)
      PROVE  IInv'
  <2> DEFINE p == [proc[g] EXCEPT !.child = "dead", !.cfg = NoCfg]
  <2>0. proc \in [Gens -> ProcType] /\ proc[g] \in ProcType /\ host \in HostType
    BY DEF TypeOK, ProcType
  <2>1. proc' = [proc EXCEPT ![g] = p]
    BY <1>8, <2>0 DEF ChildCrashes
  <2>2. /\ p \in ProcType /\ p.task = proc[g].task /\ p.child = "dead"
        /\ p.stop = proc[g].stop /\ p.sig = proc[g].sig
    BY <2>0 DEF ProcType
  <2>3. proc[g].child # "none"
    BY <1>8 DEF ChildCrashes
  <2>4. ProcFrame(g)
    <3> HIDE DEF p
    <3> QED
      BY <1>8, <2>0, <2>1, <2>2, <2>3, FaultType DEF ChildCrashes, ProcFrame
  <2> QED
    BY <2>4, ProcFramePreserves
<1> QED
  BY <1>1, <1>2, <1>3, <1>4, <1>5, <1>6, <1>7, <1>8 DEF MainStep, BodyArrives, Environment

LEMMA InitIInv == Init => IInv
<1> SUFFICES ASSUME Init PROVE IInv
  OBVIOUS
<1>1. MaxGen \in Nat /\ MaxGen > 0 /\ 0 \notin Gens
  BY HostAssumption DEF Gens
<1>2. host \in HostType
  <2>1. SiteRoutes \in SUBSET Route /\ Device \in Ifaces
    BY DEF SiteRoutes, DefaultVia, LinkOf, Route, Ifaces
  <2>2. \A b \in {"missing", "older"} : SiteNetwork(b) \in HostType
    BY <2>1 DEF SiteNetwork, HostType, DnsFile
  <2> QED
    BY <2>2 DEF Init
<1>3. /\ op \in OpType
      /\ op.pc \in {"idle", "stop"} /\ op.join = None
  BY DEF Init, Idle, Begin, OpPc, None
<1>4. /\ proxy \in ProxyType
      /\ proxy.gen = 0 /\ proxy.task = None
  BY DEF Init, None, Ifaces, Device, SiteRoutes, DefaultVia, LinkOf, Route
<1>5. /\ proc \in [Gens -> ProcType]
      /\ \A g \in Gens : proc[g].task = "none" /\ proc[g].child = "none"
  BY DEF Init, NoProcess, ProcType
<1>6. /\ lock \in {"free", "handler", "main"}
      /\ main \in {"reload", "start", "wait", "lock", "stopping", "join", "drop", "exited", "killed"}
      /\ conn \in {"idle", "body", "lock", "op", "done", "panicked"}
      /\ reply \in ReplyType
      /\ faults \in 0 .. MaxFaults /\ lossy \in BOOLEAN /\ dropped \in BOOLEAN
  <2>1. NoReply \in ReplyType
    BY DEF NoReply
  <2>2. faults \in 0 .. MaxFaults /\ lossy \in BOOLEAN /\ dropped \in BOOLEAN
    <3>1. MaxFaults \in Nat
      BY ControllerAssumption
    <3>2. faults = 0 /\ lossy = FALSE /\ dropped = FALSE
      BY DEF Init
    <3>3. faults \in 0 .. MaxFaults
      BY <3>1, <3>2
    <3>4. lossy \in BOOLEAN /\ dropped \in BOOLEAN
      BY <3>2, Zenon
    <3> QED
      BY <3>3, <3>4
  <2> QED
    BY <2>1, <2>2 DEF Init
<1>7. TypeOK
  BY <1>2, <1>3, <1>4, <1>5, <1>6 DEF TypeOK, ProcType
<1>8. EnvInv /\ GenInv
  BY <1>1, <1>3, <1>4 DEF EnvInv, GenInv, SetupPc, TeardownPc
<1>9. ProcInv /\ NoStrayProxy
  BY <1>5 DEF ProcInv, NoStrayProxy
<1> QED
  BY <1>7, <1>8, <1>9 DEF IInv

LEMMA NextIInv == IInv /\ [Next]_vars => IInv'
<1> SUFFICES ASSUME IInv, [Next]_vars PROVE IInv'
  OBVIOUS
<1>1. CASE UNCHANGED vars
  BY <1>1 DEF IInv, TypeOK, EnvInv, GenInv, ProcInv, NoStrayProxy, vars
<1>2. CASE OpStep
  BY <1>2, SetupPreserves, TeardownPreserves, ReloadPreserves DEF OpStep
<1>3. ASSUME NEW g \in Gens, ProcStep(g) PROVE IInv'
  BY <1>3, ProcPreserves
<1>4. CASE MainStep \/ ServerStops \/ BodyArrives \/ Environment
  BY <1>4, OuterPreserves
<1>5. CASE Ended
  BY <1>1, <1>5 DEF Ended
<1> QED
  BY <1>1, <1>2, <1>3, <1>4, <1>5 DEF Next

LEMMA Invariance == Spec => []IInv
BY InitIInv, NextIInv, PTL DEF Spec

----------------------------------------------------------------------------
(* Theorems.                                                               *)

\* In every reachable state the variables have their types; in particular every
\* command is run for a NetEnv that exists.
THEOREM TypeCorrect == Spec => []TypeOK
<1>1. IInv => TypeOK
  BY DEF IInv
<1> QED
  BY <1>1, Invariance, PTL

\* exec, stop and reload never lose a sub-proxy: one that is not the session in
\* force has been told to stop, whatever failed and wherever a request was
\* dropped.
THEOREM SubProxiesAccounted == Spec => []NoStrayProxy
<1>1. IInv => NoStrayProxy
  BY DEF IInv
<1> QED
  BY <1>1, Invariance, PTL

\* No other step takes a name from the named namespaces.
LEMMA NetnsKept ==
  ASSUME TypeOK, Next, ~DeleteNetns
  PROVE  host.ns \subseteq host'.ns
<1>1. CASE SetupStep
  <2>1. host \in HostType
    BY DEF TypeOK
  <2> USE <2>1 DEF HostType
  <2>2. CASE AddNetns
    BY <2>2 DEF AddNetns, Command, NetnsAdd
  <2>3. CASE BackupDns \/ AddBridge1 \/ AddVeth1 \/ AddVeth4
    BY <2>3 DEF BackupDns, AddBridge1, AddVeth1, AddVeth4, Command, SaveDns, LinkAdd
  <2>4. CASE EnslaveDevice \/ RemoveAddress \/ MoveAddress
    BY <2>4 DEF EnslaveDevice, RemoveAddress, MoveAddress, Command, CommandIgnoringErrors,
                SetMaster, AddrDel, AddrAdd
  <2>5. CASE AddDefaultRoute \/ DeleteKernelRoutes \/ SetEbtables \/ PutDnsBack
    BY <2>5 DEF AddDefaultRoute, DeleteKernelRoutes, SetEbtables, PutDnsBack, Command,
                CommandIgnoringErrors, RouteAdd, KernelRoutesDel, NatAdd, RestoreDns
  <2>6. CASE \/ Bind \/ GetGateway \/ GetRoutes \/ Announce \/ AnnouncePanics
             \/ SetIptables \/ SpawnTask
    BY <2>6 DEF Bind, GetGateway, GetRoutes, Announce, AnnouncePanics, SetIptables,
                SpawnTask, Command
  <2> QED
    BY <1>1, <2>2, <2>3, <2>4, <2>5, <2>6 DEF SetupStep
<1>2. CASE TeardownStep
  <2>1. host \in HostType
    BY DEF TypeOK
  <2> USE <2>1 DEF HostType
  <2>2. CASE DeleteBridge1 \/ RestoreAddress \/ RestoreDnsFile \/ FlushNat
    BY <2>2 DEF DeleteBridge1, RestoreAddress, RestoreDnsFile, FlushNat, Teardown,
                BridgeDel, AddrAdd, RestoreDns, NatFlush
  <2>3. CASE DeleteRoutes
    <3>1. CASE host' = RoutesDel(host)
      BY <3>1 DEF RoutesDel
    <3>2. CASE \E left \in SUBSET host.routes : host' = [host EXCEPT !.routes = left]
      BY <3>2
    <3> QED
      BY <2>3, <3>1, <3>2 DEF DeleteRoutes
  <2>4. ASSUME NEW r \in Route, LoadRoute(r) PROVE host.ns \subseteq host'.ns
    BY <2>4 DEF LoadRoute, RouteAdd
  <2>5. CASE RoutesLoaded \/ Cleared
    BY <2>5 DEF RoutesLoaded, Cleared
  <2> QED
    BY <1>2, <2>2, <2>3, <2>4, <2>5 DEF TeardownStep
<1>3. CASE ReloadStep
  BY <1>3 DEF ReloadStep, Stop, AwaitTask, AfterStop, NewEnv, NewEnvPanics
<1>4. ASSUME NEW g \in Gens, ProcStep(g) PROVE host.ns \subseteq host'.ns
  <2>1. CASE ReapNetns(g)
    BY <2>1 DEF ReapNetns, NsDestroy, TypeOK, HostType
  <2> QED
    BY <1>4, <2>1 DEF ProcStep, SpawnChild, SelectWait, SelectStop, EnterNetns, ReadConfig,
                      ChildStops
<1>5. CASE MainStep \/ ServerStops \/ Ended
  BY <1>5 DEF MainStep, RegisterSignals, LockAndStop, JoinServer, ServerStops, Ended, vars
<1>6. CASE BodyArrives
  BY <1>6 DEF BodyArrives, NotPut, Body
<1>7. CASE Environment
  <2>1. CASE RewriteDns
    BY <2>1 DEF RewriteDns, TypeOK, HostType
  <2> QED
    BY <1>7, <2>1 DEF Environment, Request, Eof, Signal, StdinReturns, ChildCrashes
<1> QED
  BY <1>1, <1>2, <1>3, <1>4, <1>5, <1>6, <1>7 DEF Next, OpStep

\* clear_bridge never deletes the namespace of a sub-proxy whose supervisor has
\* not been told to stop before.
THEOREM TeardownAfterStop == Spec => StopPrecedesTeardown
<1> DEFINE Ordered == \A g \in Gens : proc[g].task # "none" /\ g \in host.ns /\ g \notin host'.ns
                                        => proc[g].stop
<1>1. ASSUME IInv, [Next]_vars PROVE [Ordered]_vars
  <2>1. SUFFICES ASSUME NEW g \in Gens, proc[g].task # "none", g \in host.ns, g \notin host'.ns
                 PROVE  proc[g].stop
    BY DEF Ordered
  <2>2. host \in HostType
    BY <1>1 DEF IInv, TypeOK
  <2>3. CASE DeleteNetns
    BY <1>1, <2>1, <2>2, <2>3 DEF DeleteNetns, Teardown, NetnsDel, HostType, IInv, EnvInv,
                                  TeardownPc
  <2>4. CASE ~DeleteNetns
    BY <1>1, <2>1, <2>4, NetnsKept DEF IInv, vars
  <2> QED
    BY <2>3, <2>4
<1> QED
  BY <1>1, Invariance, PTL DEF Spec, StopPrecedesTeardown

----------------------------------------------------------------------------
(* The mutex and the answers.                                              *)

\* The mutex, the connection and main agree on who works on the Proxy: there is
\* an operation exactly while a request is in reload or main in reload or stop.
LockInv ==
  main # "killed" =>
    /\ lock = "handler" <=> conn \in {"body", "op"}
    /\ main \in {"reload", "stopping"} => lock = "main"
    /\ main = "reload" => conn = "done"
    /\ op.pc = "idle" <=> conn # "op" /\ main \notin {"reload", "stopping"}

\* A session's socket serves the configuration of the reload that makes it, and
\* a sub-proxy has what its socket serves.
CfgInv ==
  /\ op.pc \in SetupPc \cup {"new"} => op.cfg # NoPorts
  /\ op.pc \in SetupPc \ {"bind"} => proc[proxy.gen].uds = op.cfg
  /\ \A g \in Gens : proc[g].child = "serve" => proc[g].cfg = proc[g].uds

AnswerInv ==
  /\ conn \in {"body", "lock", "op"} => reply = NoReply
  /\ conn = "idle" /\ OpIdle /\ main \in {"start", "wait"} =>
       /\ reply.status = "ok" /\ reply.cfg # NoPorts =>
            proxy.task # None /\ proc[proxy.task].uds = reply.cfg
       /\ reply.status = "error" \/ (reply.status = "ok" /\ reply.cfg = NoPorts) =>
            proxy.task = None

AInv == LockInv /\ CfgInv /\ AnswerInv

----------------------------------------------------------------------------
(* An operation goes on, or ends.                                          *)

LEMMA WorkPreserves ==
  ASSUME AInv, op.pc # "idle", op'.pc # "idle", CfgInv',
         UNCHANGED <<lock, main, conn, reply>>
  PROVE  AInv'
<1>1. LockInv'
  BY DEF AInv, LockInv
<1>2. AnswerInv'
  BY DEF AInv, AnswerInv, OpIdle, NoReply
<1> QED
  BY <1>1, <1>2 DEF AInv

\* A command of set_net or clear_bridge.
LEMMA CommandPreserves ==
  ASSUME IInv, AInv, UNCHANGED <<proxy, proc, lock, main, conn, reply>>,
         NEW at \in SetupPc \cup TeardownPc, op.pc = at,
         NEW next \in SetupPc \cup TeardownPc,
         op' = [op EXCEPT !.pc = next], next = "bind" => at = "bind",
         next \in SetupPc => at \in SetupPc \ {"bind"}
  PROVE  AInv'
<1>1. op'.pc = next /\ op'.cfg = op.cfg
  BY DEF IInv, TypeOK
<1>2. op.pc # "idle" /\ op'.pc # "idle"
  BY <1>1 DEF SetupPc, TeardownPc
<1>3. next # "new"
  BY DEF SetupPc, TeardownPc
<1>4. CfgInv'
  BY <1>1, <1>3 DEF AInv, CfgInv
<1> QED
  BY <1>2, <1>4, WorkPreserves

\* reload returns to handle or to main, stop returns to main.
LEMMA ReturnPreserves ==
  ASSUME IInv, AInv, Alive, op.pc # "idle",
         NEW status \in {"ok", "error"}, Return(status),
         \A g \in Gens : proc'[g].child = "serve" => proc'[g].cfg = proc'[g].uds,
         status = "ok" /\ op.cfg # NoPorts =>
           proxy'.task # None /\ proc'[proxy'.task].uds = op.cfg,
         status = "error" \/ op.cfg = NoPorts => proxy'.task = None
  PROVE  AInv'
<1>1. op' = Idle /\ op'.pc = "idle" /\ main # "killed"
  BY DEF Return, Idle, Alive
<1>2. CfgInv'
  BY <1>1 DEF CfgInv, SetupPc
<1>3. CASE lock = "handler" /\ Answer(op.cfg, status)
  <2>1. /\ conn' = "idle" /\ main' = main /\ lock' \in {"main", "free"}
        /\ reply'.cfg = op.cfg /\ reply'.status = status
    BY <1>3 DEF Answer, Release
  <2>2. main \notin {"reload", "stopping"}
    BY <1>1, <1>3 DEF AInv, LockInv
  <2>3. LockInv'
    BY <1>1, <2>1, <2>2 DEF LockInv
  <2>4. AnswerInv'
    BY <2>1 DEF AnswerInv
  <2> QED
    BY <1>2, <2>3, <2>4 DEF AInv
<1>4. CASE /\ main = "reload" /\ main' \in {"start", "exited"}
           /\ lock' = "free" /\ UNCHANGED <<conn, reply>>
  <2>1. conn' = "done"
    BY <1>1, <1>4 DEF AInv, LockInv
  <2> QED
    BY <1>1, <1>2, <1>4, <2>1 DEF AInv, LockInv, AnswerInv
<1>5. CASE main = "stopping" /\ main' \in {"exited", "join"} /\ UNCHANGED <<lock, conn, reply>>
  <2>1. lock = "main" /\ conn \notin {"body", "op"}
    BY <1>1, <1>5 DEF AInv, LockInv
  <2> QED
    BY <1>1, <1>2, <1>5, <2>1 DEF AInv, LockInv, AnswerInv, NoReply
<1> QED
  BY <1>3, <1>4, <1>5 DEF Return

LEMMA PanicPreserves ==
  ASSUME AInv, Alive, Panic, UNCHANGED proc
  PROVE  AInv'
<1>1. op'.pc = "idle" /\ main # "killed" /\ UNCHANGED reply
  BY DEF Panic, Idle, Alive
<1>2. CfgInv'
  BY <1>1 DEF AInv, CfgInv, SetupPc
<1>3. CASE /\ lock = "handler" /\ conn' = "panicked" /\ lock' \in {"main", "free"}
           /\ UNCHANGED main
  <2>1. main \notin {"reload", "stopping"}
    BY <1>1, <1>3 DEF AInv, LockInv
  <2> QED
    BY <1>1, <1>2, <1>3, <2>1 DEF AInv, LockInv, AnswerInv
<1>4. CASE main = "reload" /\ main' = "exited" /\ lock' = "free" /\ UNCHANGED conn
  <2>1. conn' = "done"
    BY <1>1, <1>4 DEF AInv, LockInv
  <2> QED
    BY <1>1, <1>2, <1>4, <2>1 DEF AInv, LockInv, AnswerInv
<1> QED
  BY <1>3, <1>4 DEF Panic, Release

\* Between its operations the Proxy, and what its sub-proxies were given, stay.
LEMMA ProcessPreserves ==
  ASSUME IInv, AInv, UNCHANGED <<op, proxy, lock, main, conn, reply>>,
         \A g \in Gens : proc'[g].uds = proc[g].uds,
         \A g \in Gens : proc'[g].child = "serve" => proc'[g].cfg = proc'[g].uds
  PROVE  AInv'
<1>1. LockInv'
  BY DEF AInv, LockInv
<1>2. proxy.task # None => proxy.task \in Gens
  BY DEF IInv, TypeOK
<1>3. op.pc \in SetupPc => proxy.gen \in Gens
  BY DEF IInv, EnvInv
<1>4. CfgInv'
  BY <1>3 DEF AInv, CfgInv
<1>5. AnswerInv'
  BY <1>2 DEF AInv, AnswerInv, OpIdle, NoReply
<1> QED
  BY <1>1, <1>4, <1>5 DEF AInv

----------------------------------------------------------------------------
(* The actions.                                                            *)

LEMMA SetupAnswers == IInv /\ AInv /\ SetupStep => AInv'
<1> SUFFICES ASSUME IInv, AInv, SetupStep PROVE AInv'
  OBVIOUS
<1>1. ASSUME NEW at \in SetupPc, NEW next \in SetupPc, next # "bind", at # "bind",
             NEW allowed, NEW effect, Command(at, next, allowed, effect)
      PROVE  AInv'
  <2>1. op.pc = at /\ UNCHANGED <<proxy, proc, lock, main, conn, reply>>
    BY <1>1 DEF Command
  <2>2. CASE op' = [op EXCEPT !.pc = next]
    BY <1>1, <2>1, <2>2, CommandPreserves
  <2>3. CASE op' = [op EXCEPT !.pc = "netns_del"]
    BY <1>1, <2>1, <2>3, CommandPreserves DEF SetupPc, TeardownPc
  <2> QED
    BY <1>1, <2>2, <2>3 DEF Command
<1>2. ASSUME NEW at \in SetupPc, NEW next \in SetupPc, next # "bind", at # "bind",
             NEW effect, CommandIgnoringErrors(at, next, effect)
      PROVE  AInv'
  BY <1>2, CommandPreserves DEF CommandIgnoringErrors
<1>3. CASE Bind
  <2>1. /\ op.pc = "bind" /\ UNCHANGED <<proxy, lock, main, conn, reply>>
        /\ proxy.gen \in Gens /\ proc[proxy.gen].child = "none"
    BY <1>3 DEF Bind, IInv, EnvInv, ProcInv, SetupPc
  <2>2. CASE UdsListen(proxy.gen, op.cfg) /\ op' = [op EXCEPT !.pc = "gateway"]
    <3>1. op'.pc = "gateway" /\ op'.cfg = op.cfg
      BY <2>2 DEF IInv, TypeOK
    <3>2. proc \in [Gens -> ProcType]
      BY DEF IInv, TypeOK
    <3>3. /\ proc'[proxy.gen].uds = op.cfg
          /\ \A g \in Gens : proc'[g].child = "serve" => proc'[g] = proc[g]
      BY <2>1, <2>2, <3>2 DEF UdsListen, ProcType
    <3>4. CfgInv'
      BY <2>1, <3>1, <3>3 DEF AInv, CfgInv, SetupPc
    <3> QED
      BY <2>1, <3>1, <3>4, WorkPreserves
  <2>3. CASE op' = [op EXCEPT !.pc = "netns_del"] /\ UNCHANGED proc
    BY <2>1, <2>3, CommandPreserves DEF SetupPc, TeardownPc
  <2> QED
    BY <1>3, <2>2, <2>3 DEF Bind
<1>4. CASE SpawnTask
  <2>1. /\ op.pc = "spawn" /\ Alive /\ proxy.gen \in Gens
        /\ op.cfg # NoPorts /\ proc[proxy.gen].uds = op.cfg
    BY <1>4 DEF SpawnTask, IInv, EnvInv, AInv, CfgInv, SetupPc
  <2>2. CASE /\ proxy' = [proxy EXCEPT !.task = proxy.gen]
             /\ proc' = [proc EXCEPT ![proxy.gen].task = "spawn"]
             /\ Return("ok")
    <3>1. proc \in [Gens -> ProcType] /\ proxy \in ProxyType
      BY DEF IInv, TypeOK
    <3>2. proxy'.task = proxy.gen /\ proxy.gen # None
      BY <2>1, <2>2, <3>1 DEF None, Gens
    <3>3. \A g \in Gens : /\ proc'[g].uds = proc[g].uds /\ proc'[g].cfg = proc[g].cfg
                          /\ proc'[g].child = proc[g].child
      BY <2>2, <3>1 DEF ProcType
    <3>4. \A g \in Gens : proc'[g].child = "serve" => proc'[g].cfg = proc'[g].uds
      BY <3>3 DEF AInv, CfgInv
    <3>5. proc'[proxy'.task].uds = op.cfg
      BY <2>1, <3>2, <3>3
    <3> QED
      BY <2>1, <2>2, <3>2, <3>4, <3>5, ReturnPreserves
  <2>3. CASE /\ op' = [op EXCEPT !.pc = "netns_del"]
             /\ UNCHANGED <<proxy, proc, lock, main, conn, reply>>
    BY <2>1, <2>3, CommandPreserves DEF SetupPc, TeardownPc
  <2> QED
    BY <1>4, <2>2, <2>3 DEF SpawnTask
<1>5. CASE AnnouncePanics
  BY <1>5, PanicPreserves DEF AnnouncePanics
<1>6. CASE \/ GetGateway \/ BackupDns \/ AddNetns \/ AddBridge1 \/ AddVeth1 \/ AddVeth4
           \/ EnslaveDevice \/ MoveAddress
  BY <1>1, <1>6 DEF GetGateway, BackupDns, AddNetns, AddBridge1, AddVeth1, AddVeth4,
                    EnslaveDevice, MoveAddress, SetupPc
<1>7. CASE \/ AddDefaultRoute \/ GetRoutes \/ DeleteKernelRoutes \/ Announce
           \/ SetIptables \/ SetEbtables
  BY <1>1, <1>7 DEF AddDefaultRoute, GetRoutes, DeleteKernelRoutes, Announce,
                    SetIptables, SetEbtables, SetupPc
<1>8. CASE RemoveAddress \/ PutDnsBack
  BY <1>2, <1>8 DEF RemoveAddress, PutDnsBack, SetupPc
<1> QED
  BY <1>3, <1>4, <1>5, <1>6, <1>7, <1>8 DEF SetupStep

LEMMA TeardownAnswers == IInv /\ AInv /\ TeardownStep => AInv'
<1> SUFFICES ASSUME IInv, AInv, TeardownStep PROVE AInv'
  OBVIOUS
<1>1. ASSUME NEW at \in TeardownPc, NEW next \in TeardownPc, NEW effect,
             Teardown(at, next, effect)
      PROVE  AInv'
  <2>1. next \notin SetupPc /\ next # "bind"
    BY DEF SetupPc, TeardownPc
  <2> QED
    BY <1>1, <2>1, CommandPreserves DEF Teardown
<1>2. CASE DeleteNetns \/ DeleteBridge1 \/ RestoreAddress \/ RestoreDnsFile \/ FlushNat
  BY <1>1, <1>2 DEF DeleteNetns, DeleteBridge1, RestoreAddress, RestoreDnsFile, FlushNat,
                    TeardownPc
<1>3. CASE DeleteRoutes \/ (\E r \in Route : LoadRoute(r)) \/ RoutesLoaded
  <2>1. /\ op.pc \in {"del_routes", "load_routes"}
        /\ op'.pc \in {"load_routes", "cleared"}
        /\ UNCHANGED <<proxy, proc, lock, main, conn, reply>>
    BY <1>3 DEF DeleteRoutes, LoadRoute, RoutesLoaded, IInv, TypeOK
  <2>2. CfgInv'
    BY <2>1 DEF AInv, CfgInv, SetupPc
  <2> QED
    BY <2>1, <2>2, WorkPreserves
<1>4. CASE Cleared
  <2>1. /\ op.pc = "cleared" /\ Alive /\ proxy.task = None /\ UNCHANGED <<proxy, proc>>
        /\ \A g \in Gens : proc[g].child = "serve" => proc[g].cfg = proc[g].uds
    BY <1>4 DEF Cleared, IInv, EnvInv, AInv, CfgInv
  <2>2. CASE op' = [op EXCEPT !.pc = "await_task"] /\ UNCHANGED <<lock, main, conn, reply>>
    <3>1. op'.pc = "await_task"
      BY <2>2 DEF IInv, TypeOK
    <3>2. CfgInv'
      BY <2>1, <3>1 DEF CfgInv, SetupPc
    <3> QED
      BY <2>1, <2>2, <3>1, <3>2, WorkPreserves
  <2>3. CASE Return("error")
    <3>1. \A g \in Gens : proc'[g].child = "serve" => proc'[g].cfg = proc'[g].uds
      BY <2>1
    <3>2. proxy'.task = None
      BY <2>1
    <3> QED
      BY <2>1, <2>3, <3>1, <3>2, ReturnPreserves
  <2> QED
    BY <1>4, <2>2, <2>3 DEF Cleared
<1> QED
  BY <1>2, <1>3, <1>4 DEF TeardownStep

LEMMA ReloadAnswers == IInv /\ AInv /\ ReloadStep => AInv'
<1> SUFFICES ASSUME IInv, AInv, ReloadStep PROVE AInv'
  OBVIOUS
<1>0. proc \in [Gens -> ProcType] /\ op \in OpType
  BY DEF IInv, TypeOK
<1>1. CASE Stop \/ AwaitTask
  <2>1. /\ op.pc # "idle" /\ op'.pc \in {"stopped", "netns_del"}
        /\ UNCHANGED <<lock, main, conn, reply>>
    BY <1>0, <1>1 DEF Stop, AwaitTask
  <2>2. \A g \in Gens : /\ proc'[g].uds = proc[g].uds /\ proc'[g].cfg = proc[g].cfg
                        /\ proc'[g].child = proc[g].child
    BY <1>0, <1>1 DEF Stop, AwaitTask, ProcType
  <2>3. CfgInv'
    BY <2>1, <2>2 DEF AInv, CfgInv, SetupPc
  <2> QED
    BY <2>1, <2>3, WorkPreserves
<1>2. CASE AfterStop
  <2>1. op.pc = "stopped" /\ Alive /\ proxy.task = None /\ UNCHANGED <<proxy, proc>>
    BY <1>2 DEF AfterStop, IInv, EnvInv
  <2>2. \A g \in Gens : proc'[g].child = "serve" => proc'[g].cfg = proc'[g].uds
    BY <2>1 DEF AInv, CfgInv
  <2>3. CASE op.cfg = NoPorts /\ Return("ok")
    BY <2>1, <2>2, <2>3, ReturnPreserves
  <2>4. CASE /\ op.cfg # NoPorts /\ op' = [op EXCEPT !.pc = "new"]
             /\ UNCHANGED <<lock, main, conn, reply>>
    <3>1. op'.pc = "new" /\ op'.cfg = op.cfg
      BY <1>0, <2>4
    <3>2. CfgInv'
      BY <2>2, <2>4, <3>1 DEF CfgInv, SetupPc
    <3> QED
      BY <2>1, <2>4, <3>1, <3>2, WorkPreserves
  <2> QED
    BY <1>2, <2>3, <2>4 DEF AfterStop
<1>3. CASE NewEnv
  <2>1. /\ op.pc = "new" /\ op'.pc = "bind" /\ op'.cfg = op.cfg
        /\ UNCHANGED <<proc, lock, main, conn, reply>>
    BY <1>0, <1>3 DEF NewEnv
  <2>2. CfgInv'
    BY <2>1 DEF AInv, CfgInv, SetupPc
  <2> QED
    BY <2>1, <2>2, WorkPreserves
<1>4. CASE NewEnvPanics
  BY <1>4, PanicPreserves DEF NewEnvPanics
<1> QED
  BY <1>1, <1>2, <1>3, <1>4 DEF ReloadStep

LEMMA ProcessAnswers == ASSUME IInv, AInv, NEW g \in Gens, ProcStep(g) \/ ChildCrashes(g)
                        PROVE  AInv'
<1>1. proc \in [Gens -> ProcType] /\ proc[g] \in ProcType
  BY DEF IInv, TypeOK
<1>2. UNCHANGED <<op, proxy, lock, main, conn, reply>>
  BY DEF ProcStep, SpawnChild, SelectWait, SelectStop, EnterNetns, ReadConfig, ChildStops,
         ReapNetns, ChildCrashes
<1>3. /\ \A f \in Gens : f # g => proc'[f] = proc[f]
      /\ proc'[g].uds = proc[g].uds
      /\ proc'[g].child = "serve" =>
           \/ proc[g].child = "serve" /\ proc'[g].cfg = proc[g].cfg
           \/ proc'[g].cfg = proc[g].uds
  <2>1. CASE ReadConfig(g)
    BY <1>1, <2>1 DEF ReadConfig, ProcType
  <2>2. CASE SpawnChild(g) \/ SelectWait(g) \/ SelectStop(g)
    BY <1>1, <2>2 DEF SpawnChild, SelectWait, SelectStop, ProcType
  <2>3. CASE EnterNetns(g) \/ ChildStops(g) \/ ChildCrashes(g) \/ ReapNetns(g)
    BY <1>1, <2>3 DEF EnterNetns, ChildStops, ChildCrashes, ReapNetns, ProcType
  <2> QED
    BY <2>1, <2>2, <2>3 DEF ProcStep
<1>4. \A f \in Gens : proc'[f].child = "serve" => proc'[f].cfg = proc'[f].uds
  BY <1>3 DEF AInv, CfgInv
<1> QED
  BY <1>2, <1>3, <1>4, ProcessPreserves

LEMMA OuterAnswers ==
  IInv /\ AInv /\ (\/ MainStep \/ ServerStops \/ BodyArrives
                   \/ RewriteDns \/ Request \/ Eof \/ Signal \/ StdinReturns)
    => AInv'
<1> SUFFICES ASSUME IInv, AInv,
                    \/ MainStep \/ ServerStops \/ BodyArrives
                    \/ RewriteDns \/ Request \/ Eof \/ Signal \/ StdinReturns
             PROVE  AInv'
  OBVIOUS
<1>1. CASE RewriteDns \/ RegisterSignals \/ ServerStops \/ JoinServer \/ Signal \/ StdinReturns
  <2>1. UNCHANGED <<op, proxy, proc, lock, reply>>
    BY <1>1 DEF RewriteDns, RegisterSignals, ServerStops, JoinServer, Signal, StdinReturns
  <2>2. CfgInv'
    BY <2>1 DEF AInv, CfgInv
  <2>3. LockInv'
    BY <1>1, <2>1 DEF AInv, LockInv, RewriteDns, RegisterSignals, ServerStops, JoinServer,
                      Signal, StdinReturns
  <2>4. AnswerInv'
    BY <1>1, <2>1 DEF AInv, AnswerInv, OpIdle, NoReply, RewriteDns, RegisterSignals, ServerStops,
                      JoinServer, Signal, StdinReturns
  <2> QED
    BY <2>2, <2>3, <2>4 DEF AInv
<1>2. CASE LockAndStop
  <2>1. op'.pc = "stop" /\ UNCHANGED <<proxy, proc, conn, reply>>
    BY <1>2 DEF LockAndStop, Begin
  <2>2. CfgInv'
    BY <2>1 DEF AInv, CfgInv, SetupPc
  <2> QED
    BY <1>2, <2>1, <2>2 DEF AInv, LockInv, AnswerInv, OpIdle, LockAndStop, NoReply
<1>3. CASE Request
  BY <1>3 DEF AInv, LockInv, CfgInv, AnswerInv, OpIdle, Request, Alive, NoReply
<1>4. CASE NotPut \/ \E c \in Configs \cup {NoCfg} : Body(c)
  <2>1. /\ conn = "body" /\ lock = "handler" /\ op.pc = "idle" /\ Alive
        /\ UNCHANGED <<proxy, proc, main>>
    BY <1>4 DEF NotPut, Body, Answer, AInv, LockInv, Alive
  <2>2. CASE \E c \in Configs \cup {NoCfg} : Answer(c, "refused") /\ UNCHANGED op
    <3>1. /\ conn' = "idle" /\ lock' \in {"main", "free"} /\ reply'.status = "refused"
          /\ UNCHANGED op
      BY <2>2 DEF Answer, Release
    <3> QED
      BY <2>1, <3>1 DEF AInv, LockInv, CfgInv, AnswerInv, Alive
  <2>3. CASE conn' = "op" /\ (\E c \in Configs : op' = Begin(c)) /\ UNCHANGED <<lock, reply>>
    <3>1. op'.pc = "stop"
      BY <2>3 DEF Begin
    <3> QED
      BY <2>1, <2>3, <3>1 DEF AInv, LockInv, CfgInv, AnswerInv, Alive, SetupPc, NoReply
  <2> QED
    BY <1>4, <2>2, <2>3 DEF NotPut, Body
<1>5. CASE Eof
  <2>1. /\ conn \in {"lock", "body", "op"} /\ conn' = "idle" /\ Alive
        /\ IF lock = "handler" THEN lock' \in {"main", "free"} ELSE lock' = lock
        /\ op' = IF conn = "op" THEN Idle ELSE op
        /\ UNCHANGED <<proxy, proc, main, reply>>
    BY <1>5 DEF Eof, Release
  <2>2. LockInv'
    BY <2>1 DEF AInv, LockInv, Idle, Alive
  <2>3. CfgInv'
    BY <2>1 DEF AInv, CfgInv, Idle, SetupPc
  <2>4. AnswerInv'
    BY <2>1 DEF AInv, AnswerInv, NoReply
  <2> QED
    BY <2>2, <2>3, <2>4 DEF AInv
<1> QED
  BY <1>1, <1>2, <1>3, <1>4, <1>5 DEF MainStep, BodyArrives

----------------------------------------------------------------------------

LEMMA InitAnswers == Init => AInv
BY DEF Init, AInv, LockInv, CfgInv, AnswerInv, OpIdle, NoReply, NoProcess, Idle, Begin, SetupPc

LEMMA NextAnswers == IInv /\ AInv /\ [Next]_vars => AInv'
<1> SUFFICES ASSUME IInv, AInv, [Next]_vars PROVE AInv'
  OBVIOUS
<1>1. CASE UNCHANGED vars
  BY <1>1 DEF AInv, LockInv, CfgInv, AnswerInv, OpIdle, vars
<1>2. CASE OpStep
  BY <1>2, SetupAnswers, TeardownAnswers, ReloadAnswers DEF OpStep
<1>3. ASSUME NEW g \in Gens, ProcStep(g) \/ ChildCrashes(g) PROVE AInv'
  BY <1>3, ProcessAnswers
<1> QED
  BY <1>1, <1>2, <1>3, OuterAnswers DEF Next, Environment, Ended

LEMMA AnswerInvariance == Spec => []AInv
BY InitAnswers, NextAnswers, Invariance, PTL DEF Spec

\* After each answer of the configuration server, until the next request: 200
\* means that the configuration of the request is the one in force and the one
\* its sub-proxy serves, or none if it named no ports; an error means none.
THEOREM AnswersAreTrue == Spec => []AnswerTellsTheState
<1>1. IInv /\ AInv => AnswerTellsTheState
  <2>1. IInv => (proxy.task # None => proxy.task \in Gens)
    BY DEF IInv, TypeOK
  <2> QED
    BY <2>1 DEF AInv, CfgInv, AnswerInv, AnswerTellsTheState
<1> QED
  BY <1>1, Invariance, AnswerInvariance, PTL

\* The mutex serialises the operations on the Proxy: while main runs reload or
\* stop no request is in reload, and a request in reload holds the mutex.
THEOREM OperationsExclude == Spec => []LockInv
<1>1. AInv => LockInv
  BY DEF AInv
<1> QED
  BY <1>1, AnswerInvariance, PTL
=============================================================================
