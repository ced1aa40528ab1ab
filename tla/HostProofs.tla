----------------------------- MODULE HostProofs -----------------------------
(***************************************************************************)
(* Proofs about the host's network: it is the site's own again whenever no *)
(* session is in force, and diverted while one is, for every number of     *)
(* sessions, every failing command of a set-up and every interleaving with *)
(* the ends of earlier sessions.  From these, that each step of Controller *)
(* is one of Switch, and that it takes of its sub-proxy what ChildProcess  *)
(* says.                                                                   *)
(***************************************************************************)
EXTENDS ControllerProofs, IntervalProofs

USE DEF OpType, ProxyType, ReplyType

----------------------------------------------------------------------------
(* The host at each step of set-up and tear-down.                          *)

\* Only the current NetEnv g has names on the host; of later ones nothing is there.
OthersGone(h, g) ==
  /\ h.ns \subseteq {g} /\ h.nat \subseteq {g} /\ h.master \in {Device, g}
  /\ \A k \in Gens : HasLink(h, "b1", k) => k = g
  /\ \A k \in Gens : k > g => k \notin h.addr

\* The site's own network, whatever resolv.conf holds.
Untouched(h) ==
  /\ h.ns = {} /\ h.nat = {} /\ h.master = Device
  /\ \A k \in Gens : ~HasLink(h, "b1", k)
  /\ Device \in h.addr /\ h.routes = SiteRoutes

UntouchedPc == {"bind", "gateway", "save_dns", "netns_add", "await_task", "stopped", "new",
                "cleared"}

\* What has been made of the way through the namespace of g.
NetnsPc  == {"bridge1_add", "veth1_add", "veth4_add", "set_master", "addr_del", "addr_add",
             "route_add", "get_routes", "del_kernel_routes", "announce", "iptables",
             "ebtables", "dns_back", "spawn"}
BridgePc == NetnsPc \ {"bridge1_add"}
Veth1Pc  == BridgePc \ {"veth1_add"}
Veth4Pc  == Veth1Pc \ {"veth4_add"}
MasterPc == Veth4Pc \ {"set_master"}
MovedPc  == {"announce", "iptables", "ebtables", "dns_back", "spawn"}

Built(pc, h, g) ==
  /\ pc \in NetnsPc => g \in h.ns
  /\ pc \in BridgePc => HasLink(h, "b1", g)
  /\ pc \in Veth1Pc => HasLink(h, "v1", g)
  /\ pc \in Veth4Pc => HasLink(h, "v4", g)
  /\ pc \in MasterPc => h.master = g
  /\ pc \in {"dns_back", "spawn"} => g \in h.nat

\* Where the address and the routes are: the removal of the address may fail, and
\* then there is a second default route, which the kernel refuses.
Routed(pc, h, g) ==
  /\ pc \in {"bind", "gateway", "save_dns", "netns_add", "bridge1_add", "veth1_add",
             "veth4_add", "set_master", "addr_del"} =>
       Device \in h.addr /\ g \notin h.addr /\ h.routes = SiteRoutes
  /\ pc = "addr_add" =>
       /\ g \notin h.addr
       /\ \/ Device \notin h.addr /\ h.routes = {}
          \/ Device \in h.addr /\ DefaultVia(Device) \in h.routes
  /\ pc = "route_add" =>
       /\ g \in h.addr
       /\ \/ Device \notin h.addr /\ h.routes = {LinkOf(g)}
          \/ DefaultVia(Device) \in h.routes
  /\ pc \in {"get_routes", "del_kernel_routes"} =>
       g \in h.addr /\ Device \notin h.addr /\ h.routes = {LinkOf(g), DefaultVia(g)}
  /\ pc \in MovedPc => g \in h.addr /\ Device \notin h.addr /\ h.routes = {DefaultVia(g)}

\* What clear_bridge has undone, whatever there was.
Undone(pc, h, rest) ==
  /\ pc \in {"bridge1_del", "addr_restore", "dns_restore", "nat_flush", "del_routes",
             "load_routes"} => h.ns = {}
  /\ pc \in {"addr_restore", "dns_restore", "nat_flush", "del_routes", "load_routes"} =>
       h.master = Device /\ \A k \in Gens : ~HasLink(h, "b1", k)
  /\ pc \in {"dns_restore", "nat_flush", "del_routes", "load_routes"} => Device \in h.addr
  /\ pc \in {"del_routes", "load_routes"} => h.nat = {}
  /\ pc = "load_routes" =>
       rest \in {SiteRoutes, {DefaultVia(Device)}, {}} /\ h.routes = SiteRoutes \ rest

Stage(pc, h, g, rest) ==
  /\ OthersGone(h, g)
  /\ pc \in UntouchedPc => Untouched(h)
  /\ Built(pc, h, g) /\ Routed(pc, h, g) /\ Undone(pc, h, rest)

\* While nobody works on the host it is the site's own or that of a session.
Settled == IF proxy.task = None THEN Untouched(host) ELSE Diverted(host, proxy.gen)

NetInv ==
  /\ proxy.device = Device /\ proxy.saved = SiteRoutes
  /\ Stage(op.pc, host, proxy.gen, op.rest)
  /\ op.pc \in {"idle", "stop"} => Settled

----------------------------------------------------------------------------
(* resolv.conf and its backup.                                             *)

\* Until the first backup the file is the site's; a backup is the site's unless
\* it is an earlier controller's or was made of that.
BackupGood(h) ==
  /\ h.bak # "rewritten"
  /\ h.bak = "missing" => h.dns = "site" /\ Device \in h.addr

DnsGood(h) == h.dns # "rewritten" /\ (h.bak # "older" => h.dns = "site")

SavedPc   == NetnsPc \cup {"netns_add"}
DnsGoodPc == (UntouchedPc \ {"netns_add"}) \cup {"nat_flush", "del_routes", "load_routes"}

Calm == op.pc \in DnsGoodPc \/ (op.pc \in {"idle", "stop"} /\ proxy.task = None)

DnsInv ==
  /\ BackupGood(host)
  /\ op.pc \in SavedPc => host.bak # "missing"
  /\ Calm => DnsGood(host)

HostInv == Undisturbed => NetInv /\ DnsInv

----------------------------------------------------------------------------
(* The commands of a set-up.                                               *)

LEMMA NothingBuilt ==
  ASSUME NEW h, NEW g, NEW rest, OthersGone(h, g), NEW pc \in {"netns_del", "idle", "stop"}
  PROVE  Stage(pc, h, g, rest)
BY DEF Stage, UntouchedPc, Built, Routed, Undone, NetnsPc, BridgePc, Veth1Pc, Veth4Pc, MasterPc,
       MovedPc

\* A set-up that goes on changes what is built, and where address and routes are.
LEMMA Building ==
  ASSUME NEW h, NEW g, NEW rest, NEW pc \in NetnsPc, OthersGone(h, g), Built(pc, h, g),
         Routed(pc, h, g)
  PROVE  Stage(pc, h, g, rest)
BY DEF Stage, UntouchedPc, Undone, NetnsPc

LEMMA BuildsLinks ==
  ASSUME NEW h \in HostType, NEW g \in Gens, OthersGone(h, g)
  PROVE  /\ OthersGone(NetnsAdd(h, g), g)
         /\ OthersGone(LinkAdd(h, "b1", g), g)
         /\ OthersGone(LinkAdd(h, "v1", g), g)
         /\ OthersGone(LinkAdd(h, "v4", g), g)
         /\ OthersGone(SetMaster(h, Device, g), g)
         /\ OthersGone(AddrDel(h, Device), g)
         /\ OthersGone(AddrAdd(h, g), g)
         /\ OthersGone(RouteAdd(h, DefaultVia(g), TRUE), g)
         /\ OthersGone(KernelRoutesDel(h), g)
         /\ OthersGone(NatAdd(h, g), g)
         /\ OthersGone(SaveDns(h), g)
         /\ OthersGone(RestoreDns(h), g)
<1> USE DEF HostType, OthersGone, HasLink
<1>1. OthersGone(NetnsAdd(h, g), g)
  BY DEF NetnsAdd
<1>2. \A kind \in {"b1", "v1", "v4"} : OthersGone(LinkAdd(h, kind, g), g)
  BY DEF LinkAdd
<1>3. OthersGone(SetMaster(h, Device, g), g)
  BY DEF SetMaster
<1>4. OthersGone(AddrDel(h, Device), g)
  BY DEF AddrDel
<1>5. OthersGone(AddrAdd(h, g), g)
  BY DEF AddrAdd, Gens
<1>6. OthersGone(RouteAdd(h, DefaultVia(g), TRUE), g)
  BY DEF RouteAdd
<1>7. OthersGone(KernelRoutesDel(h), g)
  BY DEF KernelRoutesDel
<1>8. OthersGone(NatAdd(h, g), g)
  BY DEF NatAdd
<1>9. OthersGone(SaveDns(h), g) /\ OthersGone(RestoreDns(h), g)
  BY DEF SaveDns, RestoreDns
<1> QED
  BY <1>1, <1>2, <1>3, <1>4, <1>5, <1>6, <1>7, <1>8, <1>9

LEMMA NetnsLinks ==
  ASSUME NEW h \in HostType, NEW g \in Gens, NEW rest
  PROVE  /\ Stage("netns_add", h, g, rest) => Stage("bridge1_add", NetnsAdd(h, g), g, rest)
         /\ Stage("bridge1_add", h, g, rest) => Stage("veth1_add", LinkAdd(h, "b1", g), g, rest)
         /\ Stage("veth1_add", h, g, rest) => Stage("veth4_add", LinkAdd(h, "v1", g), g, rest)
         /\ Stage("veth4_add", h, g, rest) => Stage("set_master", LinkAdd(h, "v4", g), g, rest)
         /\ Stage("set_master", h, g, rest) =>
              Stage("addr_del", SetMaster(h, Device, g), g, rest)
<1>other. \A pc : Stage(pc, h, g, rest) => OthersGone(h, g)
  BY DEF Stage
<1> USE DEF Built, Routed, NetnsPc, BridgePc, Veth1Pc, Veth4Pc, MasterPc, MovedPc, HostType, HasLink
<1>1. ASSUME Stage("netns_add", h, g, rest) PROVE Stage("bridge1_add", NetnsAdd(h, g), g, rest)
  <2>1. Built("bridge1_add", NetnsAdd(h, g), g) /\ Routed("bridge1_add", NetnsAdd(h, g), g)
    BY <1>1 DEF Stage, NetnsAdd
  <2> HIDE DEF Built, Routed, HostType, HasLink
  <2> QED
    BY <1>1, <1>other, <2>1, Building, BuildsLinks
<1>2. ASSUME Stage("bridge1_add", h, g, rest)
      PROVE  Stage("veth1_add", LinkAdd(h, "b1", g), g, rest)
  <2>1. Built("veth1_add", LinkAdd(h, "b1", g), g) /\ Routed("veth1_add", LinkAdd(h, "b1", g), g)
    BY <1>2 DEF Stage, LinkAdd
  <2> HIDE DEF Built, Routed, HostType, HasLink
  <2> QED
    BY <1>2, <1>other, <2>1, Building, BuildsLinks
<1>3. ASSUME Stage("veth1_add", h, g, rest)
      PROVE  Stage("veth4_add", LinkAdd(h, "v1", g), g, rest)
  <2>1. Built("veth4_add", LinkAdd(h, "v1", g), g) /\ Routed("veth4_add", LinkAdd(h, "v1", g), g)
    BY <1>3 DEF Stage, LinkAdd
  <2> HIDE DEF Built, Routed, HostType, HasLink
  <2> QED
    BY <1>3, <1>other, <2>1, Building, BuildsLinks
<1>4. ASSUME Stage("veth4_add", h, g, rest)
      PROVE  Stage("set_master", LinkAdd(h, "v4", g), g, rest)
  <2>1. Built("set_master", LinkAdd(h, "v4", g), g) /\ Routed("set_master", LinkAdd(h, "v4", g), g)
    BY <1>4 DEF Stage, LinkAdd
  <2> HIDE DEF Built, Routed, HostType, HasLink
  <2> QED
    BY <1>4, <1>other, <2>1, Building, BuildsLinks
<1>5. ASSUME Stage("set_master", h, g, rest)
      PROVE  Stage("addr_del", SetMaster(h, Device, g), g, rest)
  <2>1. /\ Built("addr_del", SetMaster(h, Device, g), g)
        /\ Routed("addr_del", SetMaster(h, Device, g), g)
    BY <1>5 DEF Stage, SetMaster
  <2> HIDE DEF Built, Routed, HostType, HasLink
  <2> QED
    BY <1>5, <1>other, <2>1, Building, BuildsLinks
<1> QED
  BY <1>1, <1>2, <1>3, <1>4, <1>5

LEMMA AddressMoves ==
  ASSUME NEW h \in HostType, NEW g \in Gens, NEW rest
  PROVE  /\ Stage("addr_del", h, g, rest) =>
              Stage("addr_add", h, g, rest) /\ Stage("addr_add", AddrDel(h, Device), g, rest)
         /\ Stage("addr_add", h, g, rest) => Stage("route_add", AddrAdd(h, g), g, rest)
         /\ Stage("route_add", h, g, rest) /\ RouteAddable(h, DefaultVia(g), TRUE) =>
              Stage("get_routes", RouteAdd(h, DefaultVia(g), TRUE), g, rest)
         /\ Stage("get_routes", h, g, rest) => Stage("del_kernel_routes", h, g, rest)
         /\ Stage("del_kernel_routes", h, g, rest) =>
              Stage("announce", KernelRoutesDel(h), g, rest)
<1>other. \A pc : Stage(pc, h, g, rest) => OthersGone(h, g)
  BY DEF Stage
<1> USE DEF Built, Routed, NetnsPc, BridgePc, Veth1Pc, Veth4Pc, MasterPc, MovedPc, HostType, HasLink
<1>0. g # Device /\ DefaultVia(Device) \in SiteRoutes /\ \A r \in SiteRoutes : r.dev = Device
  BY HostAssumption DEF Gens, Device, SiteRoutes, LinkOf, DefaultVia
<1>1. ASSUME Stage("addr_del", h, g, rest)
      PROVE  Stage("addr_add", h, g, rest) /\ Stage("addr_add", AddrDel(h, Device), g, rest)
  <2>1. Built("addr_add", h, g) /\ Routed("addr_add", h, g)
    BY <1>0, <1>1 DEF Stage
  <2>2. Built("addr_add", AddrDel(h, Device), g) /\ Routed("addr_add", AddrDel(h, Device), g)
    BY <1>0, <1>1 DEF Stage, AddrDel
  <2> HIDE DEF Built, Routed, HostType, HasLink
  <2> QED
    BY <1>1, <1>other, <2>1, <2>2, Building, BuildsLinks
<1>2. ASSUME Stage("addr_add", h, g, rest) PROVE Stage("route_add", AddrAdd(h, g), g, rest)
  <2>1. Built("route_add", AddrAdd(h, g), g)
    BY <1>2 DEF Stage, AddrAdd
  <2>2. Routed("route_add", AddrAdd(h, g), g)
    BY <1>0, <1>2 DEF Stage, AddrAdd, Present
  <2> HIDE DEF Built, Routed, HostType, HasLink
  <2> QED
    BY <1>2, <1>other, <2>1, <2>2, Building, BuildsLinks
<1>3. ASSUME Stage("route_add", h, g, rest), RouteAddable(h, DefaultVia(g), TRUE)
      PROVE  Stage("get_routes", RouteAdd(h, DefaultVia(g), TRUE), g, rest)
  <2>1. RouteAdd(h, DefaultVia(g), TRUE) = [h EXCEPT !.routes = @ \cup {DefaultVia(g)}]
    BY <1>3 DEF RouteAdd
  <2>2. DefaultVia(Device) \notin h.routes
    BY <1>3 DEF RouteAddable, DefaultVia
  <2>3. Built("get_routes", RouteAdd(h, DefaultVia(g), TRUE), g)
    BY <1>3, <2>1 DEF Stage
  <2>4. Routed("get_routes", RouteAdd(h, DefaultVia(g), TRUE), g)
    BY <1>3, <2>1, <2>2 DEF Stage
  <2> HIDE DEF Built, Routed, HostType, HasLink
  <2> QED
    BY <1>3, <1>other, <2>3, <2>4, Building, BuildsLinks
<1>4. ASSUME Stage("get_routes", h, g, rest) PROVE Stage("del_kernel_routes", h, g, rest)
  <2>1. Built("del_kernel_routes", h, g) /\ Routed("del_kernel_routes", h, g)
    BY <1>4 DEF Stage
  <2> HIDE DEF Built, Routed, HostType, HasLink
  <2> QED
    BY <1>4, <1>other, <2>1, Building
<1>5. ASSUME Stage("del_kernel_routes", h, g, rest)
      PROVE  Stage("announce", KernelRoutesDel(h), g, rest)
  <2>1. h.routes = {LinkOf(g), DefaultVia(g)} /\ g \in h.addr /\ Device \notin h.addr
    BY <1>5 DEF Stage
  <2>2. {r \in h.routes : ~IsKernelRoute(r)} = {DefaultVia(g)}
    BY <2>1 DEF IsKernelRoute, LinkOf, DefaultVia
  <2>3. Built("announce", KernelRoutesDel(h), g) /\ Routed("announce", KernelRoutesDel(h), g)
    BY <1>5, <2>1, <2>2 DEF Stage, KernelRoutesDel
  <2> HIDE DEF Built, Routed, HostType, HasLink
  <2> QED
    BY <1>5, <1>other, <2>3, Building, BuildsLinks
<1> QED
  BY <1>1, <1>2, <1>3, <1>4, <1>5

LEMMA TablesFilled ==
  ASSUME NEW h \in HostType, NEW g \in Gens, NEW rest
  PROVE  /\ Stage("announce", h, g, rest) => Stage("iptables", h, g, rest)
         /\ Stage("iptables", h, g, rest) => Stage("ebtables", h, g, rest)
         /\ Stage("ebtables", h, g, rest) => Stage("dns_back", NatAdd(h, g), g, rest)
         /\ Stage("dns_back", h, g, rest) =>
              Stage("spawn", h, g, rest) /\ Stage("spawn", RestoreDns(h), g, rest)
         /\ Stage("spawn", h, g, rest) => Diverted(h, g)
<1>other. \A pc : Stage(pc, h, g, rest) => OthersGone(h, g)
  BY DEF Stage
<1> USE DEF Built, Routed, NetnsPc, BridgePc, Veth1Pc, Veth4Pc, MasterPc, MovedPc, HostType, HasLink
<1>1. ASSUME Stage("announce", h, g, rest) PROVE Stage("iptables", h, g, rest)
  <2>1. Built("iptables", h, g) /\ Routed("iptables", h, g)
    BY <1>1 DEF Stage
  <2> HIDE DEF Built, Routed, HostType, HasLink
  <2> QED
    BY <1>1, <1>other, <2>1, Building
<1>2. ASSUME Stage("iptables", h, g, rest) PROVE Stage("ebtables", h, g, rest)
  <2>1. Built("ebtables", h, g) /\ Routed("ebtables", h, g)
    BY <1>2 DEF Stage
  <2> HIDE DEF Built, Routed, HostType, HasLink
  <2> QED
    BY <1>2, <1>other, <2>1, Building
<1>3. ASSUME Stage("ebtables", h, g, rest) PROVE Stage("dns_back", NatAdd(h, g), g, rest)
  <2>1. Built("dns_back", NatAdd(h, g), g) /\ Routed("dns_back", NatAdd(h, g), g)
    BY <1>3 DEF Stage, NatAdd
  <2> HIDE DEF Built, Routed, HostType, HasLink
  <2> QED
    BY <1>3, <1>other, <2>1, Building, BuildsLinks
<1>4. ASSUME Stage("dns_back", h, g, rest)
      PROVE  Stage("spawn", h, g, rest) /\ Stage("spawn", RestoreDns(h), g, rest)
  <2>1. Built("spawn", h, g) /\ Routed("spawn", h, g)
    BY <1>4 DEF Stage
  <2>2. Built("spawn", RestoreDns(h), g) /\ Routed("spawn", RestoreDns(h), g)
    BY <1>4 DEF Stage, RestoreDns
  <2> HIDE DEF Built, Routed, HostType, HasLink
  <2> QED
    BY <1>4, <1>other, <2>1, <2>2, Building, BuildsLinks
<1>5. ASSUME Stage("spawn", h, g, rest) PROVE Diverted(h, g)
  BY <1>5 DEF Stage, Diverted
<1> QED
  BY <1>1, <1>2, <1>3, <1>4, <1>5

----------------------------------------------------------------------------
(* The commands of a tear-down, and what happens to the host besides.      *)

UndonePc == TeardownPc \ {"netns_del", "cleared"}

LEMMA Undoing ==
  ASSUME NEW h, NEW g, NEW rest, NEW pc \in UndonePc, OthersGone(h, g), Undone(pc, h, rest)
  PROVE  Stage(pc, h, g, rest)
BY DEF Stage, UntouchedPc, Built, Routed, NetnsPc, BridgePc, Veth1Pc, Veth4Pc, MasterPc, MovedPc,
       UndonePc, TeardownPc

LEMMA Clearing ==
  ASSUME NEW h \in HostType, NEW g \in Gens, NEW rest
  PROVE  /\ Stage("netns_del", h, g, rest) => Stage("bridge1_del", NetnsDel(h, g), g, rest)
         /\ Stage("bridge1_del", h, g, rest) => Stage("addr_restore", BridgeDel(h, g), g, rest)
         /\ Stage("addr_restore", h, g, rest) => Stage("dns_restore", AddrAdd(h, Device), g, rest)
         /\ Stage("dns_restore", h, g, rest) => Stage("nat_flush", RestoreDns(h), g, rest)
         /\ Stage("nat_flush", h, g, rest) => Stage("del_routes", NatFlush(h), g, rest)
         /\ Stage("del_routes", h, g, rest) => Stage("load_routes", RoutesDel(h), g, SiteRoutes)
<1> USE DEF UndonePc, TeardownPc, OthersGone, Undone, HasLink, HostType
<1>1. ASSUME Stage("netns_del", h, g, rest) PROVE Stage("bridge1_del", NetnsDel(h, g), g, rest)
  <2>1. OthersGone(NetnsDel(h, g), g) /\ Undone("bridge1_del", NetnsDel(h, g), rest)
    BY <1>1 DEF Stage, NetnsDel
  <2> QED
    BY <2>1, Undoing
<1>2. ASSUME Stage("bridge1_del", h, g, rest)
      PROVE  Stage("addr_restore", BridgeDel(h, g), g, rest)
  <2>1. OthersGone(BridgeDel(h, g), g) /\ Undone("addr_restore", BridgeDel(h, g), rest)
    BY <1>2 DEF Stage, BridgeDel
  <2> QED
    BY <2>1, Undoing
<1>3. ASSUME Stage("addr_restore", h, g, rest)
      PROVE  Stage("dns_restore", AddrAdd(h, Device), g, rest)
  <2>1. g # Device /\ Device \notin Gens
    BY DEF Gens, Device
  <2>2. /\ OthersGone(AddrAdd(h, Device), g)
        /\ Undone("dns_restore", AddrAdd(h, Device), rest)
    BY <1>3, <2>1 DEF Stage, AddrAdd, Present
  <2> QED
    BY <2>2, Undoing
<1>4. ASSUME Stage("dns_restore", h, g, rest) PROVE Stage("nat_flush", RestoreDns(h), g, rest)
  <2>1. OthersGone(RestoreDns(h), g) /\ Undone("nat_flush", RestoreDns(h), rest)
    BY <1>4 DEF Stage, RestoreDns
  <2> QED
    BY <2>1, Undoing
<1>5. ASSUME Stage("nat_flush", h, g, rest) PROVE Stage("del_routes", NatFlush(h), g, rest)
  <2>1. OthersGone(NatFlush(h), g) /\ Undone("del_routes", NatFlush(h), rest)
    BY <1>5 DEF Stage, NatFlush
  <2> QED
    BY <2>1, Undoing
<1>6. ASSUME Stage("del_routes", h, g, rest)
      PROVE  Stage("load_routes", RoutesDel(h), g, SiteRoutes)
  <2>1. OthersGone(RoutesDel(h), g) /\ Undone("load_routes", RoutesDel(h), SiteRoutes)
    BY <1>6 DEF Stage, RoutesDel
  <2> QED
    BY <2>1, Undoing
<1> QED
  BY <1>1, <1>2, <1>3, <1>4, <1>5, <1>6

\* The link-scope route comes first, and makes the gateway reachable.
LEMMA LoadingRoutes ==
  ASSUME NEW h \in HostType, NEW g, NEW rest, Stage("load_routes", h, g, rest)
  PROVE  /\ \A r : FirstToLoad(rest, r) =>
                Stage("load_routes", RouteAdd(h, r, FALSE), g, rest \ {r})
         /\ rest = {} => Stage("cleared", h, g, rest)
<1> DEFINE l == LinkOf(Device)
           d == DefaultVia(Device)
<1>1. l # d /\ ~l.gw /\ d.gw /\ l.dev = Device /\ d.dev = Device /\ SiteRoutes = {l, d}
  BY DEF LinkOf, DefaultVia, SiteRoutes
<1>2. rest \in {SiteRoutes, {d}, {}} /\ h.routes = SiteRoutes \ rest /\ Device \in h.addr
  BY DEF Stage, Undone
<1>3. ASSUME NEW r, FirstToLoad(rest, r)
      PROVE  Stage("load_routes", RouteAdd(h, r, FALSE), g, rest \ {r})
  <2>1. \/ rest = SiteRoutes /\ r = l
        \/ rest = {d} /\ r = d
    <3> HIDE DEF l, d
    <3> QED
      BY <1>1, <1>2, <1>3 DEF FirstToLoad, LoadsBefore
  <2>2. RouteAddable(h, r, FALSE)
    <3>1. l = LinkOf(r.dev)
      BY <1>1, <2>1
    <3>2. h.addr # {} /\ Present(h, r.dev)
      BY <1>1, <1>2, <2>1 DEF Present
    <3> HIDE DEF l, d
    <3> QED
      BY <1>1, <1>2, <2>1, <3>1, <3>2 DEF RouteAddable
  <2>3. RouteAdd(h, r, FALSE) = [h EXCEPT !.routes = @ \cup {r}]
    BY <2>2 DEF RouteAdd
  <2>4. /\ SiteRoutes \ (rest \ {r}) = (SiteRoutes \ rest) \cup {r}
        /\ rest \ {r} \in {SiteRoutes, {d}, {}}
    <3> HIDE DEF l, d
    <3> QED
      BY <1>1, <2>1
  <2>5. /\ OthersGone(RouteAdd(h, r, FALSE), g)
        /\ Undone("load_routes", RouteAdd(h, r, FALSE), rest \ {r})
    BY <1>2, <2>3, <2>4 DEF Stage, OthersGone, Undone, HasLink, HostType
  <2> QED
    BY <2>5, Undoing DEF UndonePc, TeardownPc
<1>4. ASSUME rest = {} PROVE Stage("cleared", h, g, rest)
  <2>1. Untouched(h)
    BY <1>2, <1>4 DEF Stage, Undone, Untouched
  <2> QED
    BY <2>1 DEF Stage, UntouchedPc, Built, Routed, Undone, NetnsPc, BridgePc, Veth1Pc, Veth4Pc,
                MasterPc, MovedPc
<1> QED
  BY <1>3, <1>4

\* The namespace of an earlier session, or of one that is torn down.
LEMMA ReapKeeps ==
  ASSUME NEW h \in HostType, NEW g \in Gens \cup {None}, NEW k \in Gens, k \notin h.ns
  PROVE  /\ \A pc, rest : Stage(pc, h, g, rest) => Stage(pc, NsDestroy(h, k), g, rest)
         /\ Untouched(h) => Untouched(NsDestroy(h, k))
         /\ Diverted(h, g) => Diverted(NsDestroy(h, k), g)
<1> DEFINE n == NsDestroy(h, k)
<1>1. /\ n \in HostType
      /\ n.ns = h.ns /\ n.nat = h.nat /\ n.master = h.master
      /\ n.addr = h.addr \ {k} /\ n.routes = {r \in h.routes : r.dev # k}
      /\ \A j \in Gens : HasLink(n, "b1", j) <=> HasLink(h, "b1", j)
      /\ \A j \in Gens \ {k} : /\ HasLink(n, "v1", j) <=> HasLink(h, "v1", j)
                               /\ HasLink(n, "v4", j) <=> HasLink(h, "v4", j)
  BY DEF NsDestroy, HostType, HasLink
<1>2. k # Device /\ Device \notin Gens /\ None \notin Gens
  BY DEF Gens, Device, None
<1>3. /\ \A i \in Ifaces : LinkOf(i).dev = i /\ DefaultVia(i).dev = i
      /\ \A r \in SiteRoutes : r.dev = Device
  BY DEF LinkOf, DefaultVia, SiteRoutes
<1> HIDE DEF n
<1>4. OthersGone(h, g) => OthersGone(n, g)
  BY <1>1 DEF OthersGone
<1>5. Untouched(h) => Untouched(n)
  BY <1>1, <1>2, <1>3 DEF Untouched
<1>6. Diverted(h, g) => Diverted(n, g)
  <2> SUFFICES ASSUME Diverted(h, g) PROVE Diverted(n, g)
    OBVIOUS
  <2>1. g \in Gens /\ g # k /\ g \in Ifaces
    BY DEF Diverted, HostType, Ifaces
  <2> QED
    BY <1>1, <1>2, <1>3, <2>1 DEF Diverted
<1>7. ASSUME NEW pc, NEW rest, Stage(pc, h, g, rest) PROVE Stage(pc, n, g, rest)
  <2>1. pc \in NetnsPc => g \in Gens /\ g # k
    BY <1>7 DEF Stage, Built, HostType
  <2>2. /\ h.routes = SiteRoutes => n.routes = SiteRoutes
        /\ h.routes = {} => n.routes = {}
        /\ DefaultVia(Device) \in h.routes => DefaultVia(Device) \in n.routes
        /\ h.routes \subseteq SiteRoutes => n.routes = h.routes
    BY <1>1, <1>2, <1>3 DEF Ifaces
  <2>3. g \in Gens /\ g # k =>
          /\ h.routes = {LinkOf(g)} => n.routes = {LinkOf(g)}
          /\ h.routes = {DefaultVia(g)} => n.routes = {DefaultVia(g)}
          /\ h.routes = {LinkOf(g), DefaultVia(g)} => n.routes = {LinkOf(g), DefaultVia(g)}
    BY <1>1, <1>3 DEF Ifaces
  <2>4. /\ Device \in n.addr <=> Device \in h.addr
        /\ g \notin h.addr => g \notin n.addr
        /\ g # k => (g \in n.addr <=> g \in h.addr)
    BY <1>1, <1>2
  <2>5. Built(pc, n, g)
    <3>1. Built(pc, h, g)
      BY <1>7 DEF Stage
    <3>2. CASE pc \in NetnsPc
      <4>1. g \in Gens /\ g # k
        BY <2>1, <3>2
      <4>2. n.ns = h.ns /\ n.nat = h.nat /\ n.master = h.master
        BY <1>1
      <4>3. HasLink(n, "b1", g) <=> HasLink(h, "b1", g)
        BY <1>1, <4>1
      <4>4. HasLink(n, "v1", g) <=> HasLink(h, "v1", g)
        BY <1>1, <4>1
      <4>5. HasLink(n, "v4", g) <=> HasLink(h, "v4", g)
        BY <1>1, <4>1
      <4> QED
        BY <3>1, <4>2, <4>3, <4>4, <4>5 DEF Built
    <3>3. CASE pc \notin NetnsPc
      BY <3>3 DEF Built, NetnsPc, BridgePc, Veth1Pc, Veth4Pc, MasterPc
    <3> QED
      BY <3>2, <3>3
  <2>6. Routed(pc, n, g)
    <3>1. Routed(pc, h, g)
      BY <1>7 DEF Stage
    <3>2. CASE pc \in NetnsPc
      BY <2>1, <2>2, <2>3, <2>4, <3>1, <3>2 DEF Routed
    <3>3. CASE pc \notin NetnsPc
      <4>1. pc \notin MovedPc
        BY <3>3 DEF NetnsPc, MovedPc
      <4> QED
        BY <2>2, <2>4, <3>1, <3>3, <4>1 DEF Routed, NetnsPc
    <3> QED
      BY <3>2, <3>3
  <2>7. Undone(pc, n, rest)
    <3>1. Undone(pc, h, rest)
      BY <1>7 DEF Stage
    <3>2. pc = "load_routes" => h.routes \subseteq SiteRoutes
      BY <3>1 DEF Undone
    <3> QED
      BY <1>1, <2>2, <2>4, <3>1, <3>2 DEF Undone
  <2>8. OthersGone(n, g) /\ (pc \in UntouchedPc => Untouched(n))
    BY <1>4, <1>5, <1>7 DEF Stage
  <2> QED
    BY <2>5, <2>6, <2>7, <2>8 DEF Stage
<1> QED
  BY <1>5, <1>6, <1>7 DEF n

----------------------------------------------------------------------------
(* The steps keep NetInv.                                                  *)

LEMMA Types == IInv => /\ host \in HostType /\ op \in OpType /\ proxy \in ProxyType
                       /\ op.pc \in SetupPc \cup TeardownPc => proxy.gen \in Gens
BY DEF IInv, TypeOK, EnvInv

\* The operation goes on, on another host or the same.
LEMMA NetGoesOn ==
  ASSUME IInv, NetInv, proxy' = proxy, NEW next \in OpPc \ {"idle", "stop"}, op'.pc = next,
         Stage(next, host', proxy.gen, op'.rest)
  PROVE  NetInv'
BY DEF NetInv

LEMMA CommandNet ==
  ASSUME IInv, NetInv, NEW at, NEW next \in SetupPc, NEW allowed, NEW effect,
         Command(at, next, allowed, effect),
         allowed => Stage(next, effect, proxy.gen, op.rest), OthersGone(effect, proxy.gen)
  PROVE  NetInv'
<1>1. op \in OpType /\ proxy' = proxy /\ OthersGone(host, proxy.gen)
  BY Types DEF Command, NetInv, Stage
<1>2. CASE allowed /\ host' = effect /\ op' = [op EXCEPT !.pc = next]
  <2>1. op'.pc = next /\ op'.rest = op.rest
    BY <1>1, <1>2
  <2>2. next \in OpPc \ {"idle", "stop"}
    BY DEF OpPc, SetupPc
  <2> QED
    BY <1>1, <1>2, <2>1, <2>2, NetGoesOn
<1>3. CASE host' \in {host, effect} /\ op' = [op EXCEPT !.pc = "netns_del"]
  <2>1. op'.pc = "netns_del" /\ OthersGone(host', proxy.gen)
    BY <1>1, <1>3
  <2> QED
    BY <1>1, <2>1, NetGoesOn, NothingBuilt DEF OpPc, TeardownPc
<1> QED
  BY <1>2, <1>3 DEF Command

LEMMA IgnoringNet ==
  ASSUME IInv, NetInv, NEW at, NEW next \in SetupPc, NEW effect,
         CommandIgnoringErrors(at, next, effect),
         Stage(next, effect, proxy.gen, op.rest), Stage(next, host, proxy.gen, op.rest)
  PROVE  NetInv'
<1>1. /\ op \in OpType /\ proxy' = proxy /\ host' \in {host, effect}
      /\ op' = [op EXCEPT !.pc = next]
  BY Types DEF CommandIgnoringErrors
<1>2. op'.pc = next /\ op'.rest = op.rest
  BY <1>1
<1> QED
  BY <1>1, <1>2, NetGoesOn DEF OpPc, SetupPc

\* Between operations it only matters whether there is a task.
LEMMA NetPauses ==
  ASSUME NetInv, UNCHANGED <<host, proxy>>, op'.pc \in {"idle", "stop"},
         \/ op.pc \in {"idle", "stop"}
         \/ op.pc \in UntouchedPc /\ proxy.task = None
  PROVE  NetInv'
<1>1. OthersGone(host, proxy.gen) /\ Settled
  BY DEF NetInv, Stage, Settled
<1>2. Stage(op'.pc, host, proxy.gen, op'.rest)
  BY <1>1, NothingBuilt
<1> QED
  BY <1>1, <1>2 DEF NetInv, Settled

LEMMA SetupNet ==
  ASSUME IInv, NetInv, SetupStep, Undisturbed'
  PROVE  NetInv'
<1> DEFINE g == proxy.gen
           rest == op.rest
<1>1. /\ op.pc \in SetupPc /\ Stage(op.pc, host, g, rest) /\ OthersGone(host, g)
      /\ proxy.device = Device
  BY DEF SetupStep, NetInv, Stage, SetupPc, Bind, GetGateway, BackupDns, AddNetns, AddBridge1,
         AddVeth1, AddVeth4, EnslaveDevice, RemoveAddress, MoveAddress, AddDefaultRoute,
         GetRoutes, DeleteKernelRoutes, Announce, AnnouncePanics, SetIptables, SetEbtables,
         PutDnsBack, SpawnTask, Command, CommandIgnoringErrors
<1>2. host \in HostType /\ op \in OpType /\ g \in Gens
  BY <1>1, Types
<1> USE DEF SetupPc
<1>a. ASSUME NEW at, NEW next, NEW allowed, NEW effect, Command(at, next, allowed, effect)
      PROVE  op.pc = at
  BY <1>a DEF Command
<1>b. ASSUME NEW at, NEW next, NEW effect, CommandIgnoringErrors(at, next, effect)
      PROVE  op.pc = at
  BY <1>b DEF CommandIgnoringErrors
<1>3. CASE Bind
  <2>1. op.pc = "bind" /\ UNCHANGED <<host, proxy>>
    BY <1>3 DEF Bind
  <2>2. CASE op' = [op EXCEPT !.pc = "gateway"]
    <3>1. op'.pc = "gateway" /\ op'.rest = rest
      BY <1>2, <2>2
    <3>2. Stage("gateway", host, g, rest)
      BY <1>1, <2>1 DEF Stage, UntouchedPc, Built, Routed, Undone, NetnsPc, BridgePc, Veth1Pc,
                        Veth4Pc, MasterPc, MovedPc
    <3> QED
      BY <2>1, <3>1, <3>2, NetGoesOn DEF OpPc
  <2>3. CASE op' = [op EXCEPT !.pc = "netns_del"]
    <3>1. op'.pc = "netns_del"
      BY <1>2, <2>3
    <3> QED
      BY <1>1, <2>1, <3>1, NothingBuilt, NetGoesOn DEF OpPc, TeardownPc
  <2> QED
    BY <1>3, <2>2, <2>3 DEF Bind
<1>4. CASE GetGateway
  <2>1. Stage("save_dns", host, g, rest)
    BY <1>1, <1>4 DEF GetGateway, Command, Stage, UntouchedPc, Built, Routed, Undone, NetnsPc,
                      BridgePc, Veth1Pc, Veth4Pc, MasterPc, MovedPc
  <2> QED
    BY <1>1, <1>4, <2>1, CommandNet DEF GetGateway
<1>5. CASE BackupDns
  <2>1. op.pc = "save_dns"
    BY <1>5 DEF BackupDns, Command
  <2>2. Stage("netns_add", SaveDns(host), g, rest)
    BY <1>1, <1>2, <2>1 DEF SaveDns, HostType, Stage, OthersGone, Untouched, HasLink, UntouchedPc,
       Built, Routed, Undone, NetnsPc, BridgePc, Veth1Pc, Veth4Pc, MasterPc, MovedPc
  <2> QED
    BY <1>1, <1>2, <1>5, <2>2, CommandNet, BuildsLinks DEF BackupDns
<1>6. CASE AddNetns
  <2>1. Stage(op.pc, host, g, rest) /\ op.pc = "netns_add"
    BY <1>1, <1>6, <1>a DEF AddNetns
  <2> QED
    BY <1>1, <1>2, <1>6, <2>1, CommandNet, NetnsLinks, BuildsLinks DEF AddNetns
<1>7. CASE AddBridge1
  <2>1. Stage(op.pc, host, g, rest) /\ op.pc = "bridge1_add"
    BY <1>1, <1>7, <1>a DEF AddBridge1
  <2> QED
    BY <1>1, <1>2, <1>7, <2>1, CommandNet, NetnsLinks, BuildsLinks DEF AddBridge1
<1>8. CASE AddVeth1
  <2>1. Stage(op.pc, host, g, rest) /\ op.pc = "veth1_add"
    BY <1>1, <1>8, <1>a DEF AddVeth1
  <2> QED
    BY <1>1, <1>2, <1>8, <2>1, CommandNet, NetnsLinks, BuildsLinks DEF AddVeth1
<1>9. CASE AddVeth4
  <2>1. Stage(op.pc, host, g, rest) /\ op.pc = "veth4_add"
    BY <1>1, <1>9, <1>a DEF AddVeth4
  <2> QED
    BY <1>1, <1>2, <1>9, <2>1, CommandNet, NetnsLinks, BuildsLinks DEF AddVeth4
<1>10. CASE EnslaveDevice
  <2>1. Stage(op.pc, host, g, rest) /\ op.pc = "set_master"
    BY <1>1, <1>10, <1>a DEF EnslaveDevice
  <2> QED
    BY <1>1, <1>2, <1>10, <2>1, CommandNet, NetnsLinks, BuildsLinks DEF EnslaveDevice
<1>11. CASE RemoveAddress
  <2>1. Stage(op.pc, host, g, rest) /\ op.pc = "addr_del"
    BY <1>1, <1>11, <1>b DEF RemoveAddress
  <2> QED
    BY <1>1, <1>2, <1>11, <2>1, IgnoringNet, AddressMoves DEF RemoveAddress
<1>12. CASE MoveAddress
  <2>1. Stage(op.pc, host, g, rest) /\ op.pc = "addr_add"
    BY <1>1, <1>12, <1>a DEF MoveAddress
  <2> QED
    BY <1>1, <1>2, <1>12, <2>1, CommandNet, AddressMoves, BuildsLinks DEF MoveAddress
<1>13. CASE AddDefaultRoute
  <2>1. Stage(op.pc, host, g, rest) /\ op.pc = "route_add"
    BY <1>1, <1>13, <1>a DEF AddDefaultRoute
  <2> QED
    BY <1>1, <1>2, <1>13, <2>1, CommandNet, AddressMoves, BuildsLinks DEF AddDefaultRoute
<1>14. CASE GetRoutes
  <2>1. Stage(op.pc, host, g, rest) /\ op.pc = "get_routes"
    BY <1>1, <1>14, <1>a DEF GetRoutes
  <2> QED
    BY <1>1, <1>2, <1>14, <2>1, CommandNet, AddressMoves DEF GetRoutes
<1>15. CASE DeleteKernelRoutes
  <2>1. Stage(op.pc, host, g, rest) /\ op.pc = "del_kernel_routes"
    BY <1>1, <1>15, <1>a DEF DeleteKernelRoutes
  <2> QED
    BY <1>1, <1>2, <1>15, <2>1, CommandNet, AddressMoves, BuildsLinks DEF DeleteKernelRoutes
<1>16. CASE Announce
  <2>1. Stage(op.pc, host, g, rest) /\ op.pc = "announce"
    BY <1>1, <1>16, <1>a DEF Announce
  <2> QED
    BY <1>1, <1>2, <1>16, <2>1, CommandNet, TablesFilled DEF Announce
<1>17. CASE AnnouncePanics
  BY <1>17 DEF AnnouncePanics, Undisturbed
<1>18. CASE SetIptables
  <2>1. Stage(op.pc, host, g, rest) /\ op.pc = "iptables"
    BY <1>1, <1>18, <1>a DEF SetIptables
  <2> QED
    BY <1>1, <1>2, <1>18, <2>1, CommandNet, TablesFilled DEF SetIptables
<1>19. CASE SetEbtables
  <2>1. Stage(op.pc, host, g, rest) /\ op.pc = "ebtables"
    BY <1>1, <1>19, <1>a DEF SetEbtables
  <2> QED
    BY <1>1, <1>2, <1>19, <2>1, CommandNet, TablesFilled, BuildsLinks DEF SetEbtables
<1>20. CASE PutDnsBack
  <2>1. Stage(op.pc, host, g, rest) /\ op.pc = "dns_back"
    BY <1>1, <1>20, <1>b DEF PutDnsBack
  <2> QED
    BY <1>1, <1>2, <1>20, <2>1, IgnoringNet, TablesFilled DEF PutDnsBack
<1>21. CASE SpawnTask
  <2>1. op.pc = "spawn" /\ host' = host
    BY <1>21 DEF SpawnTask
  <2>2. CASE proxy' = [proxy EXCEPT !.task = g] /\ Return("ok")
    <3>1. /\ proxy'.task = g /\ g # None /\ proxy'.gen = g
          /\ proxy'.device = proxy.device /\ proxy'.saved = proxy.saved
      BY <1>2, <2>2, Types DEF None, Gens
    <3>2. op'.pc = "idle"
      BY <2>2 DEF Return, Idle
    <3>3. Diverted(host, g) /\ Stage("idle", host, g, op'.rest)
      BY <1>1, <1>2, <2>1, TablesFilled, NothingBuilt
    <3> QED
      BY <2>1, <3>1, <3>2, <3>3 DEF NetInv, Settled
  <2>3. CASE op' = [op EXCEPT !.pc = "netns_del"] /\ proxy' = proxy
    <3>1. op'.pc = "netns_del"
      BY <1>2, <2>3
    <3> QED
      BY <1>1, <2>1, <2>3, <3>1, NothingBuilt, NetGoesOn DEF OpPc, TeardownPc
  <2> QED
    BY <1>21, <2>2, <2>3 DEF SpawnTask
<1> QED
  BY <1>3, <1>4, <1>5, <1>6, <1>7, <1>8, <1>9, <1>10, <1>11, <1>12, <1>13, <1>14, <1>15, <1>16,
     <1>17, <1>18, <1>19, <1>20, <1>21 DEF SetupStep
LEMMA StillUntouched ==
  ASSUME NEW h, NEW g, NEW rest, OthersGone(h, g), Untouched(h),
         NEW pc \in {"await_task", "stopped", "new", "cleared"}
  PROVE  Stage(pc, h, g, rest)
BY DEF Stage, Built, Routed, Undone, NetnsPc, BridgePc, Veth1Pc, Veth4Pc, MasterPc, MovedPc

\* A command of clear_bridge that has its effect.
LEMMA TeardownCommandNet ==
  ASSUME IInv, NetInv, Undisturbed', NEW at, NEW next \in TeardownPc, NEW effect,
         Teardown(at, next, effect), Stage(next, effect, proxy.gen, op.rest)
  PROVE  NetInv'
<1>1. /\ op \in OpType /\ proxy' = proxy /\ host' = effect
      /\ op' = [op EXCEPT !.pc = next]
  BY Types DEF Teardown, Undisturbed
<1>2. op'.pc = next /\ op'.rest = op.rest
  BY <1>1
<1> QED
  BY <1>1, <1>2, NetGoesOn DEF OpPc, TeardownPc

LEMMA TeardownNet ==
  ASSUME IInv, NetInv, TeardownStep, Undisturbed'
  PROVE  NetInv'
<1> DEFINE g == proxy.gen
           rest == op.rest
<1>1. /\ op.pc \in TeardownPc /\ Stage(op.pc, host, g, rest) /\ OthersGone(host, g)
      /\ proxy.device = Device /\ proxy.saved = SiteRoutes
  BY DEF TeardownStep, NetInv, Stage, TeardownPc, DeleteNetns, DeleteBridge1, RestoreAddress,
         RestoreDnsFile, FlushNat, DeleteRoutes, LoadRoute, RoutesLoaded, Cleared, Teardown
<1>2. host \in HostType /\ op \in OpType /\ g \in Gens
  BY <1>1, Types
<1>a. ASSUME NEW at, NEW next, NEW effect, Teardown(at, next, effect) PROVE op.pc = at
  BY <1>a DEF Teardown
<1> USE DEF TeardownPc
<1>3. CASE DeleteNetns
  <2>1. Stage(op.pc, host, g, rest) /\ op.pc = "netns_del"
    BY <1>1, <1>3, <1>a DEF DeleteNetns
  <2> QED
    BY <1>2, <1>3, <2>1, Clearing, TeardownCommandNet DEF DeleteNetns
<1>4. CASE DeleteBridge1
  <2>1. Stage(op.pc, host, g, rest) /\ op.pc = "bridge1_del"
    BY <1>1, <1>4, <1>a DEF DeleteBridge1
  <2> QED
    BY <1>2, <1>4, <2>1, Clearing, TeardownCommandNet DEF DeleteBridge1
<1>5. CASE RestoreAddress
  <2>1. Stage(op.pc, host, g, rest) /\ op.pc = "addr_restore"
    BY <1>1, <1>5, <1>a DEF RestoreAddress
  <2> QED
    BY <1>1, <1>2, <1>5, <2>1, Clearing, TeardownCommandNet DEF RestoreAddress
<1>6. CASE RestoreDnsFile
  <2>1. Stage(op.pc, host, g, rest) /\ op.pc = "dns_restore"
    BY <1>1, <1>6, <1>a DEF RestoreDnsFile
  <2> QED
    BY <1>2, <1>6, <2>1, Clearing, TeardownCommandNet DEF RestoreDnsFile
<1>7. CASE FlushNat
  <2>1. Stage(op.pc, host, g, rest) /\ op.pc = "nat_flush"
    BY <1>1, <1>7, <1>a DEF FlushNat
  <2> QED
    BY <1>2, <1>7, <2>1, Clearing, TeardownCommandNet DEF FlushNat
<1>8. CASE DeleteRoutes
  <2>1. Stage(op.pc, host, g, rest) /\ op.pc = "del_routes"
    BY <1>1, <1>8 DEF DeleteRoutes
  <2>2. /\ host' = RoutesDel(host) /\ proxy' = proxy
        /\ op' = [op EXCEPT !.pc = "load_routes", !.rest = proxy.saved]
    BY <1>8 DEF DeleteRoutes, Undisturbed
  <2>3. op'.pc = "load_routes" /\ op'.rest = SiteRoutes
    BY <1>1, <1>2, <2>2
  <2>4. Stage("load_routes", host', g, SiteRoutes)
    BY <1>2, <2>1, <2>2, Clearing
  <2> QED
    BY <2>2, <2>3, <2>4, NetGoesOn DEF OpPc
<1>9. ASSUME NEW r, LoadRoute(r) PROVE NetInv'
  <2>1. Stage(op.pc, host, g, rest) /\ op.pc = "load_routes"
    BY <1>1, <1>9 DEF LoadRoute
  <2>2. /\ FirstToLoad(rest, r) /\ host' = RouteAdd(host, r, FALSE) /\ proxy' = proxy
        /\ op' = [op EXCEPT !.rest = rest \ {r}]
    BY <1>9 DEF LoadRoute, Undisturbed
  <2>3. op'.pc = "load_routes" /\ op'.rest = rest \ {r}
    BY <1>2, <2>1, <2>2
  <2>4. Stage("load_routes", host', g, rest \ {r})
    BY <1>2, <2>1, <2>2, LoadingRoutes
  <2> QED
    BY <2>2, <2>3, <2>4, NetGoesOn DEF OpPc
<1>10. CASE RoutesLoaded
  <2>1. Stage(op.pc, host, g, rest) /\ op.pc = "load_routes" /\ rest = {}
    BY <1>1, <1>10 DEF RoutesLoaded
  <2>2. UNCHANGED <<host, proxy>> /\ op'.pc = "cleared" /\ op'.rest = rest
    BY <1>2, <1>10 DEF RoutesLoaded
  <2>3. Stage("cleared", host', g, rest)
    BY <1>2, <2>1, <2>2, LoadingRoutes
  <2> QED
    BY <2>2, <2>3, NetGoesOn DEF OpPc
<1>11. CASE Cleared
  <2>1. op.pc = "cleared" /\ UNCHANGED <<host, proxy>> /\ proxy.task = None
    BY <1>11 DEF Cleared, IInv, EnvInv
  <2>2. Untouched(host)
    BY <1>1, <2>1 DEF Stage, UntouchedPc
  <2>3. CASE op' = [op EXCEPT !.pc = "await_task"]
    <3>1. op'.pc = "await_task"
      BY <1>2, <2>3
    <3> QED
      BY <1>1, <2>1, <2>2, <3>1, StillUntouched, NetGoesOn DEF OpPc
  <2>4. CASE Return("error")
    <3>1. op'.pc = "idle"
      BY <2>4 DEF Return, Idle
    <3> QED
      BY <2>1, <3>1, NetPauses DEF UntouchedPc
  <2> QED
    BY <1>11, <2>3, <2>4 DEF Cleared
<1> QED
  BY <1>3, <1>4, <1>5, <1>6, <1>7, <1>8, <1>9, <1>10, <1>11 DEF TeardownStep

\* Self::new finds the site's network: the device has the address again.
LEMMA NewDevice ==
  ASSUME NEW h \in HostType, Untouched(h)
  PROVE  DefaultHasIpv4(h) /\ DefaultInterface(h) = Device
<1>1. /\ WithAddress(h) \subseteq Ifaces /\ Device \in WithAddress(h)
      /\ \A i \in Ifaces : i \in Int /\ Device <= i
  BY HostAssumption DEF WithAddress, HostType, Ifaces, Gens, Device, Untouched
<1>2. \A i \in Ifaces : i <= Device => i = Device
  BY HostAssumption DEF Ifaces, Gens, Device
<1>3. DefaultInterface(h) = Device
  BY <1>1, <1>2 DEF DefaultInterface
<1> QED
  BY <1>1, <1>3 DEF DefaultHasIpv4, Untouched

LEMMA ReloadNet ==
  ASSUME IInv, NetInv, ReloadStep
  PROVE  NetInv'
<1>1. /\ host \in HostType /\ op \in OpType /\ proxy \in ProxyType
      /\ OthersGone(host, proxy.gen) /\ Stage(op.pc, host, proxy.gen, op.rest)
  BY Types DEF NetInv, Stage
<1>2. CASE Stop
  <2>1. CASE proxy.task = None /\ op' = [op EXCEPT !.pc = "stopped"] /\ UNCHANGED <<host, proxy>>
    <3>1. op'.pc = "stopped" /\ Untouched(host)
      BY <1>1, <1>2, <2>1 DEF Stop, NetInv, Settled
    <3> QED
      BY <1>1, <2>1, <3>1, StillUntouched, NetGoesOn DEF OpPc
  <2>2. CASE /\ op' = [op EXCEPT !.pc = "netns_del", !.join = proxy.task] /\ UNCHANGED host
             /\ proxy' = [proxy EXCEPT !.task = None, !.sender = None]
    <3>1. /\ op'.pc = "netns_del" /\ proxy'.gen = proxy.gen
          /\ proxy'.device = proxy.device /\ proxy'.saved = proxy.saved
      BY <1>1, <2>2
    <3>2. Stage("netns_del", host, proxy.gen, op'.rest)
      BY <1>1, NothingBuilt
    <3> QED
      BY <2>2, <3>1, <3>2 DEF NetInv
  <2> QED
    BY <1>2, <2>1, <2>2 DEF Stop
<1>3. CASE AwaitTask
  <2>1. op.pc = "await_task" /\ op'.pc = "stopped" /\ UNCHANGED <<host, proxy>>
    BY <1>1, <1>3 DEF AwaitTask
  <2>2. Untouched(host)
    BY <1>1, <2>1 DEF Stage, UntouchedPc
  <2> QED
    BY <1>1, <2>1, <2>2, StillUntouched, NetGoesOn DEF OpPc
<1>4. CASE AfterStop
  <2>1. op.pc = "stopped" /\ UNCHANGED <<host, proxy>> /\ proxy.task = None
    BY <1>4 DEF AfterStop, IInv, EnvInv
  <2>2. Untouched(host)
    BY <1>1, <2>1 DEF Stage, UntouchedPc
  <2>3. CASE Return("ok")
    <3>1. op'.pc = "idle"
      BY <2>3 DEF Return, Idle
    <3> QED
      BY <2>1, <3>1, NetPauses DEF UntouchedPc
  <2>4. CASE op' = [op EXCEPT !.pc = "new"]
    <3>1. op'.pc = "new"
      BY <1>1, <2>4
    <3> QED
      BY <1>1, <2>1, <2>2, <3>1, StillUntouched, NetGoesOn DEF OpPc
  <2> QED
    BY <1>4, <2>3, <2>4 DEF AfterStop
<1>5. CASE NewEnv
  <2> DEFINE g == proxy.gen + 1
  <2>1. /\ op.pc = "new" /\ host' = host /\ op' = [op EXCEPT !.pc = "bind"]
        /\ proxy' = [gen |-> g, device |-> DefaultInterface(host), saved |-> host.routes,
                     task |-> None, sender |-> g]
    BY <1>5 DEF NewEnv
  <2>2. Untouched(host) /\ op'.pc = "bind"
    BY <1>1, <2>1 DEF Stage, UntouchedPc
  <2>3. proxy'.gen = g /\ proxy'.device = Device /\ proxy'.saved = SiteRoutes
    BY <1>1, <2>1, <2>2, NewDevice DEF Untouched
  <2>4. proxy.gen \in Int /\ g > proxy.gen /\ g \in Gens
    BY <1>1, <2>1, HostAssumption DEF IInv, GenInv, Gens, None
  <2>5. OthersGone(host, g) /\ g \notin host.addr
    <3>1. \A k \in Gens : k > g => k > proxy.gen
      BY <2>4 DEF Gens
    <3>2. \A k \in Gens : k > proxy.gen => k \notin host.addr
      BY <1>1 DEF OthersGone
    <3> QED
      BY <2>2, <2>4, <3>1, <3>2 DEF OthersGone, Untouched
  <2>6. Stage("bind", host, g, op'.rest)
    BY <2>2, <2>5 DEF Stage, Untouched, Built, Routed, Undone, NetnsPc, BridgePc, Veth1Pc,
                      Veth4Pc, MasterPc, MovedPc
  <2> QED
    BY <2>1, <2>2, <2>3, <2>6 DEF NetInv
<1>6. CASE NewEnvPanics
  <2>1. op.pc = "new" /\ UNCHANGED <<host, proxy>> /\ proxy.task = None /\ op'.pc = "idle"
    BY <1>6 DEF NewEnvPanics, Panic, Idle, IInv, EnvInv
  <2> QED
    BY <2>1, NetPauses DEF UntouchedPc
<1> QED
  BY <1>2, <1>3, <1>4, <1>5, <1>6 DEF ReloadStep

LEMMA ProcessNet ==
  ASSUME IInv, NetInv, NEW g \in Gens, ProcStep(g) \/ ChildCrashes(g)
  PROVE  NetInv'
<1>1. host \in HostType /\ proxy.gen \in Gens \cup {None} /\ UNCHANGED <<op, proxy>>
  BY Types DEF ProcStep, SpawnChild, SelectWait, SelectStop, EnterNetns, ReadConfig, ChildStops,
               ReapNetns, ChildCrashes
<1>2. CASE host' = host
  BY <1>1, <1>2 DEF NetInv, Settled
<1>3. CASE ReapNetns(g)
  <2>1. host' = NsDestroy(host, g) /\ g \notin host.ns
    BY <1>3 DEF ReapNetns
  <2>2. Stage(op.pc, host', proxy.gen, op.rest)
    BY <1>1, <2>1, ReapKeeps DEF NetInv
  <2>3. Settled => Settled'
    BY <1>1, <2>1, ReapKeeps DEF Settled
  <2> QED
    BY <1>1, <2>2, <2>3 DEF NetInv
<1> QED
  BY <1>2, <1>3 DEF ProcStep, SpawnChild, SelectWait, SelectStop, EnterNetns, ReadConfig,
                    ChildStops, ChildCrashes

\* resolv.conf is not part of the way.
LEMMA DnsIsAside ==
  ASSUME NEW h \in HostType, NEW d, NEW g
  PROVE  /\ \A pc, rest : Stage(pc, h, g, rest) => Stage(pc, [h EXCEPT !.dns = d], g, rest)
         /\ Untouched(h) => Untouched([h EXCEPT !.dns = d])
         /\ Diverted(h, g) => Diverted([h EXCEPT !.dns = d], g)
<1> DEFINE n == [h EXCEPT !.dns = d]
<1>1. /\ n.ns = h.ns /\ n.nat = h.nat /\ n.master = h.master /\ n.links = h.links
      /\ n.addr = h.addr /\ n.routes = h.routes
  BY DEF HostType
<1> HIDE DEF n
<1>2. Untouched(h) => Untouched(n)
  BY <1>1 DEF Untouched, HasLink
<1>3. Diverted(h, g) => Diverted(n, g)
  BY <1>1 DEF Diverted, HasLink
<1>4. ASSUME NEW pc, NEW rest, Stage(pc, h, g, rest) PROVE Stage(pc, n, g, rest)
  <2>1. OthersGone(n, g)
    BY <1>1, <1>4 DEF Stage, OthersGone, HasLink
  <2>2. Built(pc, n, g)
    BY <1>1, <1>4 DEF Stage, Built, HasLink
  <2>3. Routed(pc, n, g)
    BY <1>1, <1>4 DEF Stage, Routed
  <2>4. Undone(pc, n, rest)
    BY <1>1, <1>4 DEF Stage, Undone, HasLink
  <2> QED
    BY <1>2, <1>4, <2>1, <2>2, <2>3, <2>4 DEF Stage
<1> QED
  BY <1>2, <1>3, <1>4 DEF n

\* The mutex lets a new operation begin only when none is under way.
LEMMA BeginsIdle ==
  ASSUME AInv, LockAndStop \/ \E c \in Configs \cup {NoCfg} : Body(c)
  PROVE  op.pc = "idle" /\ op'.pc \in {"idle", "stop"} /\ UNCHANGED <<host, proxy>>
<1>1. CASE LockAndStop
  BY <1>1 DEF LockAndStop, AInv, LockInv, Begin
<1>2. CASE \E c \in Configs \cup {NoCfg} : Body(c)
  <2>1. conn = "body" /\ Alive /\ UNCHANGED <<host, proxy>>
    BY <1>2 DEF Body
  <2>2. op.pc = "idle"
    BY <2>1 DEF AInv, LockInv, Alive
  <2>3. op'.pc \in {"idle", "stop"}
    BY <1>2, <2>2 DEF Body, Begin
  <2> QED
    BY <2>1, <2>2, <2>3
<1> QED
  BY <1>1, <1>2

LEMMA OuterFrame ==
  ASSUME Undisturbed', \/ RegisterSignals \/ JoinServer \/ ServerStops \/ Signal
                       \/ StdinReturns \/ NotPut \/ Request \/ Eof
  PROVE  UNCHANGED <<host, op, proxy>>
BY DEF RegisterSignals, JoinServer, ServerStops, Signal, StdinReturns, NotPut, Request, Eof,
       Undisturbed

LEMMA OuterNet ==
  ASSUME IInv, AInv, NetInv, Undisturbed',
         \/ MainStep \/ ServerStops \/ BodyArrives
         \/ RewriteDns \/ Request \/ Eof \/ Signal \/ StdinReturns
  PROVE  NetInv'
<1>1. CASE \/ RegisterSignals \/ JoinServer \/ ServerStops \/ Signal \/ StdinReturns \/ NotPut
           \/ Request \/ Eof
  BY <1>1, OuterFrame DEF NetInv, Settled
<1>2. CASE LockAndStop \/ \E c \in Configs \cup {NoCfg} : Body(c)
  BY <1>2, BeginsIdle, NetPauses
<1>3. CASE RewriteDns
  <2>1. /\ host \in HostType /\ host' = [host EXCEPT !.dns = "rewritten"]
        /\ UNCHANGED <<op, proxy>>
    BY <1>3, Types DEF RewriteDns
  <2>2. Stage(op.pc, host', proxy.gen, op.rest)
    BY <2>1, DnsIsAside DEF NetInv
  <2>3. Settled => Settled'
    BY <2>1, DnsIsAside DEF Settled
  <2> QED
    BY <2>1, <2>2, <2>3 DEF NetInv
<1> QED
  BY <1>1, <1>2, <1>3 DEF MainStep, BodyArrives

----------------------------------------------------------------------------
(* The steps keep DnsInv.                                                  *)

\* Nothing happens to resolv.conf, its backup or the device's address.
LEMMA DnsStill ==
  ASSUME DnsInv, host'.dns = host.dns, host'.bak = host.bak,
         Device \in host.addr => Device \in host'.addr,
         op'.pc \in SavedPc => op.pc \in SavedPc, Calm' => Calm
  PROVE  DnsInv'
BY DEF DnsInv, BackupGood, DnsGood

\* Once the backup is made, resolv.conf may become anything.
LEMMA SavedOnce ==
  ASSUME DnsInv, op.pc \in SavedPc, host'.bak = host.bak,
         \/ op'.pc \in SavedPc \cup {"netns_del"}
         \/ op'.pc = "idle" /\ proxy'.task # None
  PROVE  DnsInv'
<1>1. ~Calm'
  BY DEF Calm, DnsGoodPc, SavedPc, UntouchedPc, NetnsPc
<1> QED
  BY <1>1 DEF DnsInv, BackupGood

LEMMA SetupDns ==
  ASSUME IInv, NetInv, DnsInv, SetupStep, Undisturbed'
  PROVE  DnsInv'
<1>1. host \in HostType /\ op \in OpType
  BY Types
<1>2. CASE Bind \/ GetGateway
  <2>1. /\ op.pc \in {"bind", "gateway"} /\ host' = host
        /\ op'.pc \in {"gateway", "save_dns", "netns_del"}
    BY <1>1, <1>2 DEF Bind, GetGateway, Command
  <2> QED
    BY <2>1, DnsStill DEF Calm, DnsGoodPc, UntouchedPc, SavedPc, NetnsPc
<1>3. CASE BackupDns
  <2>1. /\ op.pc = "save_dns" /\ op'.pc \in {"netns_add", "netns_del"}
        /\ host' = SaveDns(host) \/ (host' = host /\ op'.pc = "netns_del")
    BY <1>1, <1>3 DEF BackupDns, Command
  <2>2. DnsGood(host)
    BY <2>1 DEF DnsInv, Calm, DnsGoodPc, UntouchedPc
  <2>3. ~Calm'
    BY <2>1 DEF Calm, DnsGoodPc, UntouchedPc
  <2>4. CASE host' = SaveDns(host)
    <3>1. host'.bak = host.dns /\ host.dns \in {"site", "older"}
      BY <1>1, <2>2, <2>4 DEF SaveDns, HostType, DnsFile, DnsGood
    <3> QED
      BY <2>3, <3>1 DEF DnsInv, BackupGood
  <2>5. CASE host' = host /\ op'.pc = "netns_del"
    BY <2>3, <2>5 DEF DnsInv, BackupGood, SavedPc, NetnsPc
  <2> QED
    BY <2>1, <2>4, <2>5
<1>4. CASE SpawnTask
  <2>1. op.pc = "spawn" /\ host' = host
    BY <1>4 DEF SpawnTask
  <2>2. op'.pc = "netns_del" \/ (op'.pc = "idle" /\ proxy'.task # None)
    <3>1. proxy \in ProxyType /\ proxy.gen \in Gens /\ None \notin Gens
      BY <2>1, Types DEF SetupPc, None, Gens
    <3> QED
      BY <1>1, <1>4, <3>1 DEF SpawnTask, Return, Idle
  <2> QED
    BY <2>1, <2>2, SavedOnce DEF SavedPc, NetnsPc
<1>5. CASE \/ AddNetns \/ AddBridge1 \/ AddVeth1 \/ AddVeth4 \/ EnslaveDevice
           \/ RemoveAddress \/ MoveAddress \/ AddDefaultRoute \/ GetRoutes
           \/ DeleteKernelRoutes \/ Announce \/ SetIptables \/ SetEbtables \/ PutDnsBack
  <2>1. op.pc \in SavedPc /\ op'.pc \in SavedPc \cup {"netns_del"}
    BY <1>1, <1>5 DEF AddNetns, AddBridge1, AddVeth1, AddVeth4, EnslaveDevice, RemoveAddress,
       MoveAddress, AddDefaultRoute, GetRoutes, DeleteKernelRoutes, Announce, SetIptables,
       SetEbtables, PutDnsBack, Command, CommandIgnoringErrors, SavedPc, NetnsPc
  <2>2. host'.bak = host.bak
    BY <1>1, <1>5 DEF AddNetns, AddBridge1, AddVeth1, AddVeth4, EnslaveDevice, RemoveAddress,
       MoveAddress, AddDefaultRoute, GetRoutes, DeleteKernelRoutes, Announce, SetIptables,
       SetEbtables, PutDnsBack, Command, CommandIgnoringErrors, HostType, NetnsAdd, LinkAdd,
       SetMaster, AddrDel, AddrAdd, RouteAdd, KernelRoutesDel, NatAdd, RestoreDns
  <2> QED
    BY <2>1, <2>2, SavedOnce
<1>6. CASE AnnouncePanics
  BY <1>6 DEF AnnouncePanics, Undisturbed
<1> QED
  BY <1>2, <1>3, <1>4, <1>5, <1>6 DEF SetupStep

LEMMA TeardownDns ==
  ASSUME IInv, NetInv, DnsInv, TeardownStep, Undisturbed'
  PROVE  DnsInv'
<1>1. host \in HostType /\ op \in OpType /\ proxy.device = Device
  BY Types DEF NetInv
<1>2. CASE RestoreDnsFile
  <2>1. op.pc = "dns_restore" /\ op'.pc = "nat_flush" /\ host' = RestoreDns(host)
    BY <1>1, <1>2 DEF RestoreDnsFile, Teardown, Undisturbed
  <2>2. BackupGood(host') /\ DnsGood(host')
    BY <1>1, <2>1 DEF RestoreDns, HostType, DnsFile, DnsInv, BackupGood, DnsGood
  <2> QED
    BY <2>1, <2>2 DEF DnsInv, SavedPc, NetnsPc
<1>3. CASE DeleteNetns \/ DeleteBridge1 \/ RestoreAddress \/ FlushNat
  <2>1. /\ <<op.pc, op'.pc>> \in {<<"netns_del", "bridge1_del">>, <<"bridge1_del", "addr_restore">>,
                                  <<"addr_restore", "dns_restore">>, <<"nat_flush", "del_routes">>}
    BY <1>1, <1>3 DEF DeleteNetns, DeleteBridge1, RestoreAddress, FlushNat, Teardown
  <2>2. /\ host'.dns = host.dns /\ host'.bak = host.bak
        /\ Device \in host.addr => Device \in host'.addr
    BY <1>1, <1>3 DEF DeleteNetns, DeleteBridge1, RestoreAddress, FlushNat, Teardown, Undisturbed,
       HostType, NetnsDel, BridgeDel, AddrAdd, NatFlush
  <2> QED
    BY <2>1, <2>2, DnsStill DEF Calm, DnsGoodPc, UntouchedPc, SavedPc, NetnsPc
<1>4. CASE DeleteRoutes \/ (\E r \in Route : LoadRoute(r)) \/ RoutesLoaded
  <2>1. op.pc \in {"del_routes", "load_routes"} /\ op'.pc \in {"load_routes", "cleared"}
    BY <1>1, <1>4 DEF DeleteRoutes, LoadRoute, RoutesLoaded
  <2>2. host'.dns = host.dns /\ host'.bak = host.bak /\ host'.addr = host.addr
    BY <1>1, <1>4 DEF DeleteRoutes, LoadRoute, RoutesLoaded, Undisturbed, HostType, RoutesDel,
       RouteAdd
  <2> QED
    BY <2>1, <2>2, DnsStill DEF Calm, DnsGoodPc, UntouchedPc, SavedPc, NetnsPc
<1>5. CASE Cleared
  <2>1. op.pc = "cleared" /\ host' = host /\ op'.pc \in {"await_task", "idle"}
    BY <1>1, <1>5 DEF Cleared, Return, Idle
  <2> QED
    BY <2>1, DnsStill DEF Calm, DnsGoodPc, UntouchedPc, SavedPc, NetnsPc
<1> QED
  BY <1>2, <1>3, <1>4, <1>5 DEF TeardownStep

LEMMA ReloadDns ==
  ASSUME IInv, DnsInv, ReloadStep
  PROVE  DnsInv'
<1>1. op \in OpType /\ host' = host
  BY Types DEF ReloadStep, Stop, AwaitTask, AfterStop, NewEnv, NewEnvPanics
<1>2. \/ op.pc = "stop" /\ op'.pc = "netns_del"
      \/ op.pc = "stop" /\ op'.pc = "stopped" /\ proxy.task = None
      \/ op.pc \in {"await_task", "stopped", "new"} /\ op'.pc \in {"stopped", "idle", "new", "bind"}
  <2>1. CASE Stop
    <3>1. \/ op' = [op EXCEPT !.pc = "stopped"] /\ proxy.task = None
          \/ op' = [op EXCEPT !.pc = "netns_del", !.join = proxy.task]
      BY <2>1 DEF Stop
    <3> QED
      BY <1>1, <2>1, <3>1 DEF Stop
  <2>2. CASE AwaitTask
    BY <1>1, <2>2 DEF AwaitTask
  <2>3. CASE NewEnv
    BY <1>1, <2>3 DEF NewEnv
  <2>4. CASE NewEnvPanics
    BY <2>4 DEF NewEnvPanics, Panic, Idle
  <2>5. CASE AfterStop
    BY <1>1, <2>5 DEF AfterStop, Return, Idle
  <2> QED
    BY <2>1, <2>2, <2>3, <2>4, <2>5 DEF ReloadStep
<1> QED
  BY <1>1, <1>2, DnsStill DEF Calm, DnsGoodPc, UntouchedPc, SavedPc, NetnsPc

LEMMA ProcessDns ==
  ASSUME IInv, DnsInv, NEW g \in Gens, ProcStep(g) \/ ChildCrashes(g)
  PROVE  DnsInv'
<1>1. host \in HostType /\ UNCHANGED <<op, proxy>> /\ g # Device
  BY Types DEF ProcStep, SpawnChild, SelectWait, SelectStop, EnterNetns, ReadConfig, ChildStops,
               ReapNetns, ChildCrashes, Gens, Device
<1>2. host' = host \/ host' = NsDestroy(host, g)
  BY DEF ProcStep, SpawnChild, SelectWait, SelectStop, EnterNetns, ReadConfig, ChildStops,
         ReapNetns, ChildCrashes
<1>3. /\ host'.dns = host.dns /\ host'.bak = host.bak
      /\ Device \in host.addr => Device \in host'.addr
  BY <1>1, <1>2 DEF NsDestroy, HostType
<1> QED
  BY <1>1, <1>3, DnsStill DEF Calm

\* Where resolv.conf has to be good the device has its address, and no network
\* manager touches the file.
LEMMA CalmHasAddress ==
  ASSUME NetInv, Calm
  PROVE  Device \in host.addr
BY DEF NetInv, Calm, Stage, Settled, Untouched, Undone, DnsGoodPc

LEMMA OuterDns ==
  ASSUME IInv, AInv, NetInv, DnsInv, Undisturbed',
         \/ MainStep \/ ServerStops \/ BodyArrives
         \/ RewriteDns \/ Request \/ Eof \/ Signal \/ StdinReturns
  PROVE  DnsInv'
<1>1. CASE \/ RegisterSignals \/ JoinServer \/ ServerStops \/ Signal \/ StdinReturns \/ NotPut
           \/ Request \/ Eof
  BY <1>1, OuterFrame, DnsStill DEF Calm
<1>2. CASE LockAndStop \/ \E c \in Configs \cup {NoCfg} : Body(c)
  BY <1>2, BeginsIdle, DnsStill DEF Calm, DnsGoodPc, UntouchedPc, SavedPc, NetnsPc
<1>3. CASE RewriteDns
  <2>1. /\ host \in HostType /\ Device \notin host.addr
        /\ host' = [host EXCEPT !.dns = "rewritten"] /\ UNCHANGED <<op, proxy>>
    BY <1>3, Types DEF RewriteDns
  <2>2. ~Calm'
    BY <2>1, CalmHasAddress DEF Calm
  <2>3. host'.bak = host.bak /\ host.bak # "missing"
    BY <2>1 DEF HostType, DnsInv, BackupGood
  <2> QED
    BY <2>1, <2>2, <2>3 DEF DnsInv, BackupGood
<1> QED
  BY <1>1, <1>2, <1>3 DEF MainStep, BodyArrives

----------------------------------------------------------------------------
(* Theorems.                                                               *)

LEMMA InitHost == Init => HostInv
<1> SUFFICES ASSUME Init PROVE NetInv /\ DnsInv
  BY DEF HostInv
<1>1. host \in {SiteNetwork("missing"), SiteNetwork("older")}
  BY DEF Init
<1>2. /\ host.dns = "site" /\ host.bak \in {"missing", "older"} /\ host.ns = {}
      /\ host.links = {} /\ host.master = Device /\ host.addr = {Device}
      /\ host.routes = SiteRoutes /\ host.nat = {}
  BY <1>1 DEF SiteNetwork
<1>3. /\ proxy.device = Device /\ proxy.saved = SiteRoutes
      /\ proxy.task = None /\ op.pc \in {"idle", "stop"}
  BY DEF Init, Idle, Begin
<1>4. Untouched(host) /\ OthersGone(host, proxy.gen)
  BY <1>2 DEF Untouched, OthersGone, HasLink, Gens, Device
<1>5. NetInv
  BY <1>3, <1>4, NothingBuilt DEF NetInv, Settled
<1>6. DnsInv
  BY <1>2, <1>3 DEF DnsInv, BackupGood, DnsGood, SavedPc, NetnsPc
<1> QED
  BY <1>5, <1>6

\* The exceptions are for good.
LEMMA StaysUndisturbed ==
  ASSUME Undisturbed',
         \/ OpStep \/ (\E g \in Gens : ProcStep(g) \/ ChildCrashes(g)) \/ MainStep
         \/ ServerStops \/ BodyArrives \/ RewriteDns \/ Request \/ Eof \/ Signal \/ StdinReturns
  PROVE  Undisturbed
<1> DEFINE Same == (lossy' <=> lossy) /\ (dropped' <=> dropped)
           Kept == Same \/ lossy' = TRUE \/ dropped' = TRUE
<1>1. ASSUME SetupStep PROVE Kept
  BY <1>1 DEF SetupStep, Bind, GetGateway, BackupDns, AddNetns, AddBridge1,
     AddVeth1, AddVeth4, EnslaveDevice, RemoveAddress, MoveAddress, AddDefaultRoute, GetRoutes,
     DeleteKernelRoutes, Announce, AnnouncePanics, SetIptables, SetEbtables, PutDnsBack,
     SpawnTask, Command, CommandIgnoringErrors
<1>2. ASSUME TeardownStep PROVE Kept
  BY <1>2 DEF TeardownStep, DeleteNetns, DeleteBridge1, RestoreAddress,
     RestoreDnsFile, FlushNat, DeleteRoutes, LoadRoute, RoutesLoaded, Cleared, Teardown
<1>3. ASSUME ReloadStep PROVE Kept
  BY <1>3 DEF ReloadStep, Stop, AwaitTask, AfterStop, NewEnv, NewEnvPanics
<1>4. ASSUME \E g \in Gens : ProcStep(g) \/ ChildCrashes(g) PROVE Kept
  BY <1>4 DEF ProcStep, SpawnChild, SelectWait, SelectStop, EnterNetns, ReadConfig,
     ChildStops, ReapNetns, ChildCrashes
<1>5. ASSUME MainStep \/ ServerStops \/ BodyArrives PROVE Kept
  BY <1>5 DEF MainStep, RegisterSignals, LockAndStop, JoinServer, ServerStops,
     BodyArrives, NotPut, Body
<1>6. ASSUME RewriteDns \/ Request \/ Signal \/ StdinReturns PROVE Kept
  BY <1>6 DEF RewriteDns, Request, Signal, StdinReturns
<1>7. ~lossy' /\ ~dropped'
  BY DEF Undisturbed
<1>8. Same \/ Eof
  BY <1>1, <1>2, <1>3, <1>4, <1>5, <1>6, <1>7 DEF OpStep
<1>9. CASE Eof
  BY <1>7, <1>9, Zenon DEF Eof, Undisturbed
<1> QED
  BY <1>7, <1>8, <1>9, Zenon DEF Undisturbed

LEMMA StepStaysUndisturbed ==
  ASSUME [Next]_vars, Undisturbed'
  PROVE  Undisturbed
<1>1. CASE UNCHANGED vars
  BY <1>1 DEF vars, Undisturbed
<1>2. CASE Ended
  BY <1>1, <1>2 DEF Ended
<1> QED
  BY <1>1, <1>2, StaysUndisturbed DEF Next, Environment

LEMMA NextHost == IInv /\ AInv /\ HostInv /\ [Next]_vars => HostInv'
<1> SUFFICES ASSUME IInv, AInv, HostInv, [Next]_vars, Undisturbed' PROVE NetInv' /\ DnsInv'
  BY DEF HostInv
<1>1. CASE UNCHANGED vars
  BY <1>1 DEF HostInv, NetInv, Settled, DnsInv, Calm, Undisturbed, vars
<1>2. CASE OpStep
  <2>1. Undisturbed
    BY StepStaysUndisturbed
  <2> QED
    BY <1>2, <2>1, SetupNet, SetupDns, TeardownNet, TeardownDns, ReloadNet, ReloadDns
       DEF OpStep, HostInv
<1>3. ASSUME NEW g \in Gens, ProcStep(g) \/ ChildCrashes(g) PROVE NetInv' /\ DnsInv'
  <2>1. Undisturbed
    BY StepStaysUndisturbed
  <2> QED
    BY <1>3, <2>1, ProcessNet, ProcessDns DEF HostInv
<1>4. CASE \/ MainStep \/ ServerStops \/ BodyArrives
           \/ RewriteDns \/ Request \/ Eof \/ Signal \/ StdinReturns
  <2>1. Undisturbed
    BY StepStaysUndisturbed
  <2> QED
    BY <1>4, <2>1, OuterNet, OuterDns DEF HostInv
<1> QED
  BY <1>1, <1>2, <1>3, <1>4 DEF Next, Environment, Ended

LEMMA HostInvariance == Spec => []HostInv
BY InitHost, NextHost, Invariance, AnswerInvariance, PTL DEF Spec

\* From the return of exec until stop takes the task, the whole traffic of the
\* host passes the namespace of the session in force, whatever the ends of
\* earlier sessions do in the meantime.
THEOREM SessionsDivert == Spec => []SessionIsDiverted
<1>1. IInv /\ HostInv => SessionIsDiverted
  <2> SUFFICES ASSUME IInv, HostInv, proxy.task # None, Undisturbed
               PROVE  Diverted(host, proxy.task)
    BY DEF SessionIsDiverted
  <2>1. op.pc \in {"idle", "stop"} /\ proxy.gen = proxy.task
    BY DEF IInv, EnvInv
  <2> QED
    BY <2>1 DEF HostInv, NetInv, Settled
<1> QED
  BY <1>1, Invariance, HostInvariance, PTL

\* After every operation that leaves no session the host has the site's network
\* again, however far exec had come and whatever the command that failed did.
THEOREM HostIsRestored == Spec => []RestoredWhenStopped
<1>1. IInv /\ HostInv => RestoredWhenStopped
  <2> SUFFICES ASSUME HostInv, OpIdle, proxy.task = None, Undisturbed, host.bak # "older"
               PROVE  Restored(host)
    BY DEF RestoredWhenStopped
  <2>1. Untouched(host)
    BY DEF HostInv, NetInv, Settled, OpIdle
  <2>2. host.dns = "site"
    BY DEF HostInv, DnsInv, Calm, DnsGood, OpIdle
  <2> QED
    BY <2>1, <2>2 DEF Restored, Untouched
<1> QED
  BY <1>1, Invariance, HostInvariance, PTL

----------------------------------------------------------------------------
(* read_config looks for the default interface.                            *)

\* A request finds an IPv4 address on the first interface that has one, the
\* device or the host end of veth4.
LEMMA DefaultFound ==
  ASSUME NEW h \in HostType, ~HasIpv6, NEW g, Untouched(h) \/ Diverted(h, g)
  PROVE  DefaultHasIpv4(h)
<1>1. CASE Untouched(h)
  BY <1>1, NewDevice
<1>2. CASE Diverted(h, g)
  <2>1. h.addr \in SUBSET (1 .. MaxGen) /\ h.addr # {} /\ MaxGen \in Nat
    BY <1>2, HostAssumption DEF Diverted, HostType, Ifaces, Gens
  <2>2. WithAddress(h) = h.addr
    BY DEF WithAddress
  <2>3. \E i \in h.addr : \A j \in h.addr : i <= j
    BY <2>1, LeastElement
  <2> QED
    BY <2>1, <2>2, <2>3 DEF DefaultHasIpv4, DefaultInterface
<1> QED
  BY <1>1, <1>2

\* Only read_config refuses a request with a configuration.
LEMMA OnlyBodyRefuses ==
  ASSUME [Next]_vars, reply' # reply, reply'.status = "refused", reply'.cfg # NoCfg
  PROVE  \E c \in Configs : Body(c) /\ ~DefaultHasIpv4(host)
<1>1. ASSUME SetupStep \/ TeardownStep \/ ReloadStep PROVE FALSE
  <2>1. \A status \in {"ok", "error"} : ~Return(status)
    BY DEF Return, Answer
  <2>2. ~Panic
    BY DEF Panic
  <2>3. CASE SetupStep
    BY <2>1, <2>2, <2>3 DEF SetupStep, Bind, GetGateway, BackupDns, AddNetns, AddBridge1,
       AddVeth1, AddVeth4, EnslaveDevice, RemoveAddress, MoveAddress, AddDefaultRoute, GetRoutes,
       DeleteKernelRoutes, Announce, AnnouncePanics, SetIptables, SetEbtables, PutDnsBack,
       SpawnTask, Command, CommandIgnoringErrors
  <2>4. CASE TeardownStep
    BY <2>1, <2>4 DEF TeardownStep, DeleteNetns, DeleteBridge1, RestoreAddress, RestoreDnsFile,
       FlushNat, DeleteRoutes, LoadRoute, RoutesLoaded, Cleared, Teardown
  <2>5. CASE ReloadStep
    BY <2>1, <2>2, <2>5 DEF ReloadStep, Stop, AwaitTask, AfterStop, NewEnv, NewEnvPanics
  <2> QED
    BY <1>1, <2>3, <2>4, <2>5
<1>2. ASSUME NEW g \in Gens, ProcStep(g) \/ ChildCrashes(g) PROVE FALSE
  BY <1>2 DEF ProcStep, SpawnChild, SelectWait, SelectStop, EnterNetns, ReadConfig, ChildStops,
     ReapNetns, ChildCrashes
<1>3. ASSUME \/ MainStep \/ ServerStops \/ NotPut \/ RewriteDns \/ Request \/ Eof \/ Signal
             \/ StdinReturns \/ UNCHANGED vars
      PROVE  FALSE
  BY <1>3 DEF MainStep, RegisterSignals, LockAndStop, JoinServer, ServerStops, NotPut, Answer,
     RewriteDns, Request, NoReply, Eof, Signal, StdinReturns, vars
<1>4. PICK c \in Configs \cup {NoCfg} : Body(c)
  BY <1>1, <1>2, <1>3 DEF Next, OpStep, BodyArrives, Environment, Ended
<1>5. ~(c # NoCfg /\ DefaultHasIpv4(host)) /\ c # NoCfg
  BY <1>4 DEF Body, Answer
<1> QED
  BY <1>4, <1>5

\* Unless an interface has an address of IPv6 only, a well-formed configuration
\* is not refused, also while a session has taken the device's IPv4 address.
THEOREM GoodConfigsAccepted == ~HasIpv6 => (Spec => []GoodConfigAccepted)
<1> SUFFICES ASSUME ~HasIpv6 PROVE Spec => []GoodConfigAccepted
  OBVIOUS
<1>1. Init => GoodConfigAccepted
  BY DEF Init, GoodConfigAccepted, NoReply
<1>2. IInv /\ AInv /\ HostInv /\ HostInv' /\ GoodConfigAccepted /\ [Next]_vars
        => GoodConfigAccepted'
  <2> SUFFICES ASSUME IInv, AInv, HostInv, GoodConfigAccepted, [Next]_vars, Undisturbed',
                      reply'.status = "refused", reply'.cfg # NoCfg
               PROVE  FALSE
    BY DEF GoodConfigAccepted, Undisturbed
  <2>1. Undisturbed
    BY StepStaysUndisturbed
  <2>2. reply' # reply
    BY <2>1 DEF GoodConfigAccepted, Undisturbed
  <2>3. PICK c \in Configs : Body(c) /\ ~DefaultHasIpv4(host)
    BY <2>2, OnlyBodyRefuses
  <2>4. op.pc = "idle"
    BY <2>3, BeginsIdle
  <2>5. Untouched(host) \/ Diverted(host, proxy.gen)
    BY <2>1, <2>4 DEF HostInv, NetInv, Settled
  <2> QED
    BY <2>3, <2>5, DefaultFound, Types
<1> QED
  BY <1>1, <1>2, Invariance, AnswerInvariance, HostInvariance, PTL DEF Spec

----------------------------------------------------------------------------
(* The controller is a Switch.                                             *)

\* main's stop clears the way for good: nothing is set up after it.
StopInv ==
  /\ main = "stopping" => op.cfg = NoPorts
  /\ main = "join" => lock = "main" /\ proxy.task = None
  /\ main \in {"drop", "exited"} => op.pc = "idle"

\* An operation goes on.
LEMMA WorkKeepsStop ==
  ASSUME IInv, AInv, StopInv, Alive, op.pc # "idle", UNCHANGED <<lock, main>>,
         op'.cfg = op.cfg
  PROVE  StopInv'
<1>1. main \in {"reload", "stopping"} \/ (conn = "op" /\ lock = "handler")
  BY DEF AInv, LockInv, Alive
<1> QED
  BY <1>1 DEF StopInv, Alive

LEMMA ReturnKeepsStop ==
  ASSUME AInv, StopInv, Alive, op.pc # "idle", NEW status, Return(status),
         proxy'.task = None \/ op.cfg # NoPorts
  PROVE  StopInv'
<1>0. op'.pc = "idle"
  BY DEF Return, Panic, Idle
<1>1. CASE lock = "handler" /\ UNCHANGED main
  BY <1>0, <1>1 DEF AInv, LockInv, Alive, StopInv
<1>2. CASE main = "reload" /\ main' \in {"start", "exited"}
  BY <1>0, <1>2 DEF StopInv
<1>3. CASE main = "stopping" /\ main' \in {"exited", "join"} /\ UNCHANGED lock
  BY <1>0, <1>3 DEF AInv, LockInv, StopInv
<1> QED
  BY <1>1, <1>2, <1>3 DEF Return, Answer

LEMMA PanicKeepsStop ==
  ASSUME AInv, StopInv, Alive, Panic
  PROVE  StopInv'
<1>0. op'.pc = "idle"
  BY DEF Return, Panic, Idle
<1>1. CASE lock = "handler" /\ UNCHANGED main
  BY <1>0, <1>1 DEF AInv, LockInv, Alive, StopInv
<1>2. CASE main = "reload" /\ main' = "exited"
  BY <1>0, <1>2 DEF StopInv
<1> QED
  BY <1>1, <1>2 DEF Panic

LEMMA OperationKeepsStop == IInv /\ AInv /\ StopInv /\ OpStep => StopInv'
<1> SUFFICES ASSUME IInv, AInv, StopInv, OpStep PROVE StopInv'
  OBVIOUS
<1>1. op \in OpType
  BY Types
<1>2. CASE \/ Bind \/ GetGateway \/ BackupDns \/ AddNetns \/ AddBridge1 \/ AddVeth1 \/ AddVeth4
           \/ EnslaveDevice \/ RemoveAddress \/ MoveAddress \/ AddDefaultRoute \/ GetRoutes
           \/ DeleteKernelRoutes \/ Announce \/ SetIptables \/ SetEbtables \/ PutDnsBack
  <2>1. /\ Alive /\ op.pc # "idle" /\ UNCHANGED <<lock, main>>
        /\ \E next : op' = [op EXCEPT !.pc = next]
    BY <1>2 DEF Bind, GetGateway, BackupDns, AddNetns, AddBridge1, AddVeth1, AddVeth4,
       EnslaveDevice, RemoveAddress, MoveAddress, AddDefaultRoute, GetRoutes, DeleteKernelRoutes,
       Announce, SetIptables, SetEbtables, PutDnsBack, Command, CommandIgnoringErrors
  <2> QED
    BY <1>1, <2>1, WorkKeepsStop
<1>3. CASE AnnouncePanics \/ NewEnvPanics
  BY <1>3, PanicKeepsStop DEF AnnouncePanics, NewEnvPanics
<1>4. CASE SpawnTask
  <2>1. Alive /\ op.pc = "spawn" /\ op.cfg # NoPorts
    BY <1>4 DEF SpawnTask, AInv, CfgInv, SetupPc
  <2>2. CASE Return("ok")
    BY <2>1, <2>2, ReturnKeepsStop
  <2>3. CASE op' = [op EXCEPT !.pc = "netns_del"] /\ UNCHANGED <<lock, main>>
    BY <1>1, <2>1, <2>3, WorkKeepsStop
  <2> QED
    BY <1>4, <2>2, <2>3 DEF SpawnTask
<1>5. CASE \/ DeleteNetns \/ DeleteBridge1 \/ RestoreAddress \/ RestoreDnsFile \/ FlushNat
           \/ DeleteRoutes \/ (\E r \in Route : LoadRoute(r)) \/ RoutesLoaded
  <2>1. Alive /\ op.pc # "idle" /\ UNCHANGED <<lock, main>> /\ op'.cfg = op.cfg
    BY <1>1, <1>5 DEF DeleteNetns, DeleteBridge1, RestoreAddress, RestoreDnsFile, FlushNat,
       DeleteRoutes, LoadRoute, RoutesLoaded, Teardown
  <2> QED
    BY <2>1, WorkKeepsStop
<1>6. CASE Cleared \/ AfterStop
  <2>1. Alive /\ op.pc \in {"cleared", "stopped"} /\ proxy'.task = None
    BY <1>6 DEF Cleared, AfterStop, IInv, EnvInv
  <2>2. CASE Return("ok") \/ Return("error")
    BY <2>1, <2>2, ReturnKeepsStop
  <2>3. CASE \E next : op' = [op EXCEPT !.pc = next] /\ UNCHANGED <<lock, main>>
    BY <1>1, <2>1, <2>3, WorkKeepsStop
  <2> QED
    BY <1>6, <2>2, <2>3 DEF Cleared, AfterStop
<1>7. CASE Stop \/ AwaitTask \/ NewEnv
  <2>1. Alive /\ op.pc # "idle" /\ UNCHANGED <<lock, main>> /\ op'.cfg = op.cfg
    BY <1>1, <1>7 DEF Stop, AwaitTask, NewEnv
  <2> QED
    BY <2>1, WorkKeepsStop
<1> QED
  BY <1>2, <1>3, <1>4, <1>5, <1>6, <1>7 DEF OpStep, SetupStep, TeardownStep, ReloadStep

LEMMA NextStop == IInv /\ AInv /\ StopInv /\ [Next]_vars => StopInv'
<1> SUFFICES ASSUME IInv, AInv, StopInv, [Next]_vars PROVE StopInv'
  OBVIOUS
<1>1. ASSUME NEW g \in Gens, ProcStep(g) \/ ChildCrashes(g) PROVE StopInv'
  <2>1. UNCHANGED <<op, proxy, lock, main>>
    BY <1>1 DEF ProcStep, SpawnChild, SelectWait, SelectStop, EnterNetns, ReadConfig, ChildStops,
       ReapNetns, ChildCrashes
  <2> QED
    BY <2>1 DEF StopInv
<1>2. CASE RegisterSignals \/ ServerStops \/ RewriteDns \/ Signal \/ StdinReturns \/ UNCHANGED vars
  <2>1. UNCHANGED <<op, proxy, lock>> /\ (main' = main \/ main' \in {"wait", "lock", "killed"}
                                        \/ (main = "drop" /\ main' = "exited"))
    BY <1>2 DEF RegisterSignals, ServerStops, RewriteDns, Signal, StdinReturns, vars
  <2> QED
    BY <2>1 DEF StopInv
<1>3. CASE LockAndStop
  <2>1. main' = "stopping" /\ op'.cfg = NoPorts
    BY <1>3 DEF LockAndStop, Begin
  <2> QED
    BY <2>1 DEF StopInv
<1>4. CASE Request \/ JoinServer
  BY <1>4 DEF Request, JoinServer, StopInv, AInv, LockInv
<1>5. CASE BodyArrives
  <2>1. conn = "body" /\ Alive /\ UNCHANGED <<main, proxy>>
    BY <1>5 DEF BodyArrives, NotPut, Body, Answer
  <2>2. main \notin {"stopping", "join", "drop", "exited"}
    BY <2>1 DEF AInv, LockInv, StopInv, Alive
  <2> QED
    BY <2>1, <2>2 DEF StopInv
<1>6. CASE Eof
  <2>1. main \in {"stopping", "join"} => lock = "main" /\ conn # "op"
    BY DEF AInv, LockInv, StopInv
  <2>2. UNCHANGED <<main, proxy>> /\ main \notin {"drop", "exited"}
    BY <1>6 DEF Eof, Alive
  <2>3. main \in {"stopping", "join"} => UNCHANGED <<op, lock>>
    BY <1>6, <2>1 DEF Eof
  <2> QED
    BY <2>2, <2>3 DEF StopInv
<1> QED
  BY <1>1, <1>2, <1>3, <1>4, <1>5, <1>6, OperationKeepsStop
     DEF Next, MainStep, Environment, Ended

\* The way of the traffic, on any host.
Ways(h) ==
  IF Restored([h EXCEPT !.dns = "site"]) THEN "site"
  ELSE IF \E g \in Gens : Diverted(h, g) THEN "diverted" ELSE "between"

LEMMA WayIs ==
  ASSUME NEW h \in HostType
  PROVE  /\ Ways(h) \in {"site", "diverted", "between"}
         /\ Ways(h) = "site" <=> Untouched(h)
         /\ \A g \in Gens : Diverted(h, g) => Ways(h) = "diverted"
         /\ Ways(h) = "diverted" => \E g \in Gens : Diverted(h, g)
<1>1. Restored([h EXCEPT !.dns = "site"]) <=> Untouched(h)
  BY DEF Restored, Untouched, HostType, HasLink
<1>2. \A g \in Gens : Diverted(h, g) => ~Untouched(h)
  BY DEF Diverted, Untouched
<1> QED
  BY <1>1, <1>2 DEF Ways

\* What happens by itself leaves the way alone, or what was in between.
LEMMA WayKept ==
  ASSUME NEW h \in HostType, NEW n \in HostType,
         \/ n = h
         \/ \E d : n = [h EXCEPT !.dns = d]
         \/ \E k \in Gens : k \notin h.ns /\ n = NsDestroy(h, k)
  PROVE  Ways(h) = "between" \/ Ways(n) = Ways(h)
<1>1. \A g \in Gens : Diverted(h, g) => Diverted(n, g)
  BY DnsIsAside, ReapKeeps
<1>2. Untouched(h) => Untouched(n)
  BY DnsIsAside, ReapKeeps, HostAssumption DEF Gens
<1> QED
  BY <1>1, <1>2, WayIs

\* Where nobody works, the way is told by the task.
LEMMA SettledWay ==
  ASSUME IInv, HostInv, Undisturbed, op.pc \in {"idle", "stop"}
  PROVE  /\ proxy.task = None => Way = "site"
         /\ proxy.task # None => Way = "diverted"
<1>1. Way = Ways(host) /\ host \in HostType
  BY Types DEF Way, Ways
<1>2. Settled /\ (proxy.task # None => proxy.gen \in Gens)
  BY DEF HostInv, NetInv, IInv, EnvInv, TypeOK
<1> QED
  BY <1>1, <1>2, WayIs DEF Settled

\* The abstract step of each kind of step.
SameEnd == (Alive' /\ Alive) \/ main' = main \/ (main = "drop" /\ main' = "exited")

LEMMA SwitchStays ==
  ASSUME Way' = Way, proxy'.task = proxy.task, OpIdle' <=> OpIdle, SameEnd,
         Undisturbed' <=> Undisturbed
  PROVE  UNCHANGED TheSwitch!vars
BY DEF TheSwitch!vars, SameEnd, Alive

LEMMA SwitchWorks ==
  ASSUME Undisturbed, Undisturbed', Alive, ~OpIdle, ~OpIdle', main' = main,
         Way' \in TheSwitch!Nets,
         \/ proxy'.task = None
         \/ proxy'.task = proxy.task /\ Way' = Way
  PROVE  TheSwitch!Work
BY DEF TheSwitch!Work, TheSwitch!Running, Alive

LEMMA SwitchStarts ==
  ASSUME Undisturbed, Undisturbed', Alive, OpIdle, ~OpIdle', Alive',
         Way' = Way, proxy' = proxy
  PROVE  TheSwitch!Start
BY DEF TheSwitch!Start, TheSwitch!Running, Alive

LEMMA SwitchSettles ==
  ASSUME Undisturbed, Undisturbed', Alive, ~OpIdle, OpIdle',
         \/ proxy'.task = None /\ Way' = "site" /\ (Alive' \/ main' = "exited")
         \/ proxy'.task # None /\ Way' = "diverted" /\ Alive'
  PROVE  TheSwitch!Settle
BY DEF TheSwitch!Settle, TheSwitch!Running, Alive

\* An operation goes on, or it is over and has left the way as it promised.
LEMMA OperationIsSwitch ==
  ASSUME IInv, AInv, StopInv, Undisturbed, Undisturbed', OpStep,
         Way' \in TheSwitch!Nets,
         op'.pc = "idle" /\ proxy'.task = None => Way' = "site",
         op'.pc = "idle" /\ proxy'.task # None => Way' = "diverted"
  PROVE  TheSwitch!Next
<1>1. op \in OpType /\ Alive /\ ~OpIdle
  BY Types DEF OpStep, SetupStep, TeardownStep, ReloadStep, Bind, GetGateway, BackupDns, AddNetns,
     AddBridge1, AddVeth1, AddVeth4, EnslaveDevice, RemoveAddress, MoveAddress, AddDefaultRoute,
     GetRoutes, DeleteKernelRoutes, Announce, AnnouncePanics, SetIptables, SetEbtables,
     PutDnsBack, SpawnTask, DeleteNetns, DeleteBridge1, RestoreAddress, RestoreDnsFile, FlushNat,
     DeleteRoutes, LoadRoute, RoutesLoaded, Cleared, Stop, AwaitTask, AfterStop, NewEnv,
     NewEnvPanics, Command, CommandIgnoringErrors, Teardown, OpIdle
<1>2. ASSUME ~OpIdle', main' = main, proxy'.task = None PROVE TheSwitch!Next
  BY <1>1, <1>2, SwitchWorks DEF TheSwitch!Next
<1>3. ASSUME NEW status, Return(status), proxy'.task = None PROVE TheSwitch!Next
  <2>1. op'.pc = "idle" /\ (main' = main \/ main' \in {"start", "exited", "join"})
    BY <1>3 DEF Return, Idle, Answer
  <2>2. Alive' \/ main' = "exited"
    BY <1>1, <2>1 DEF Alive
  <2> QED
    BY <1>1, <1>3, <2>1, <2>2, SwitchSettles DEF TheSwitch!Next, OpIdle
<1>4. CASE \/ Bind \/ GetGateway \/ BackupDns \/ AddNetns \/ AddBridge1 \/ AddVeth1 \/ AddVeth4
           \/ EnslaveDevice \/ RemoveAddress \/ MoveAddress \/ AddDefaultRoute \/ GetRoutes
           \/ DeleteKernelRoutes \/ Announce \/ SetIptables \/ SetEbtables \/ PutDnsBack
  <2>1. /\ op.pc \in SetupPc /\ UNCHANGED <<proxy, main>>
        /\ \E next \in SetupPc \cup {"netns_del"} : op' = [op EXCEPT !.pc = next]
    BY <1>4 DEF SetupPc, Bind, GetGateway, BackupDns, AddNetns, AddBridge1, AddVeth1, AddVeth4,
       EnslaveDevice, RemoveAddress, MoveAddress, AddDefaultRoute, GetRoutes, DeleteKernelRoutes,
       Announce, SetIptables, SetEbtables, PutDnsBack, Command, CommandIgnoringErrors
  <2>2. ~OpIdle'
    BY <1>1, <2>1 DEF OpIdle, SetupPc
  <2> QED
    BY <1>2, <2>1, <2>2 DEF IInv, EnvInv, SetupPc
<1>5. CASE AnnouncePanics
  BY <1>5 DEF AnnouncePanics, Undisturbed
<1>6. CASE SpawnTask
  <2>1. op.pc = "spawn" /\ op.cfg # NoPorts /\ proxy.task = None
    BY <1>6 DEF SpawnTask, AInv, CfgInv, IInv, EnvInv, SetupPc
  <2>2. CASE Return("ok") /\ proxy' = [proxy EXCEPT !.task = proxy.gen]
    <3>1. proxy'.task # None
      BY <2>1, <2>2, Types DEF SetupPc, Gens, None
    <3>2. main # "stopping"
      BY <2>1 DEF StopInv
    <3>3. op'.pc = "idle" /\ Alive'
      BY <1>1, <2>2, <3>2 DEF Return, Answer, Idle, Alive
    <3> QED
      BY <1>1, <3>1, <3>3, SwitchSettles DEF TheSwitch!Next, OpIdle
  <2>3. CASE op' = [op EXCEPT !.pc = "netns_del"] /\ UNCHANGED <<proxy, main>>
    <3>1. ~OpIdle'
      BY <1>1, <2>3 DEF OpIdle
    <3> QED
      BY <1>2, <2>1, <2>3, <3>1
  <2> QED
    BY <1>6, <2>2, <2>3 DEF SpawnTask
<1>7. CASE \/ DeleteNetns \/ DeleteBridge1 \/ RestoreAddress \/ RestoreDnsFile \/ FlushNat
           \/ DeleteRoutes \/ (\E r \in Route : LoadRoute(r)) \/ RoutesLoaded
  <2>1. op.pc \in TeardownPc /\ op'.pc # "idle" /\ UNCHANGED <<proxy, main>>
    BY <1>1, <1>7 DEF TeardownPc, DeleteNetns, DeleteBridge1, RestoreAddress, RestoreDnsFile,
       FlushNat, DeleteRoutes, LoadRoute, RoutesLoaded, Teardown
  <2> QED
    BY <1>2, <2>1 DEF IInv, EnvInv, TeardownPc, OpIdle
<1>8. CASE Cleared \/ AfterStop
  <2>1. op.pc \in {"cleared", "stopped"} /\ UNCHANGED proxy /\ proxy.task = None
    BY <1>8 DEF Cleared, AfterStop, IInv, EnvInv
  <2>2. CASE Return("ok") \/ Return("error")
    BY <1>3, <2>1, <2>2
  <2>3. CASE (op' = [op EXCEPT !.pc = "await_task"] \/ op' = [op EXCEPT !.pc = "new"])
             /\ UNCHANGED main
    <3>1. ~OpIdle'
      BY <1>1, <2>3 DEF OpIdle
    <3> QED
      BY <1>2, <2>1, <2>3, <3>1
  <2> QED
    BY <1>8, <2>2, <2>3 DEF Cleared, AfterStop
<1>9. CASE Stop \/ AwaitTask
  <2>1. op'.pc # "idle" /\ main' = main /\ proxy'.task = None
    BY <1>1, <1>9, Types DEF Stop, AwaitTask, IInv, EnvInv
  <2> QED
    BY <1>2, <2>1 DEF OpIdle
<1>10. CASE NewEnv
  <2>1. op'.pc # "idle" /\ main' = main /\ proxy'.task = None
    BY <1>1, <1>10 DEF NewEnv
  <2> QED
    BY <1>2, <2>1 DEF OpIdle
<1>11. CASE NewEnvPanics
  <2>1. op'.pc = "idle" /\ proxy'.task = None /\ (main' = main \/ main' = "exited")
    BY <1>11 DEF NewEnvPanics, Panic, Idle, IInv, EnvInv
  <2> QED
    BY <1>1, <2>1, SwitchSettles DEF TheSwitch!Next, OpIdle, Alive
<1> QED
  BY <1>4, <1>5, <1>6, <1>7, <1>8, <1>9, <1>10, <1>11
     DEF OpStep, SetupStep, TeardownStep, ReloadStep

\* What happens by itself: a late step of an earlier session, a network manager.
LEMMA ByItselfIsSwitch ==
  ASSUME IInv, AInv, StopInv, Undisturbed, Undisturbed', UNCHANGED <<op, proxy, main>>,
         Way' \in TheSwitch!Nets, Way = "between" \/ Way' = Way,
         op.pc \in {"idle", "stop"} => Way # "between"
  PROVE  TheSwitch!Next \/ UNCHANGED TheSwitch!vars
<1>1. CASE Way' = Way
  BY <1>1, SwitchStays DEF OpIdle, SameEnd
<1>2. CASE Way = "between" /\ Alive
  <2>1. ~OpIdle /\ ~OpIdle' /\ proxy'.task = None
    BY <1>2 DEF OpIdle, IInv, EnvInv
  <2> QED
    BY <1>2, <2>1, SwitchWorks DEF TheSwitch!Next
<1>3. CASE Way = "between" /\ ~Alive
  <2>1. main = "killed" /\ main' = main /\ ~Alive'
    BY <1>3 DEF StopInv, Alive
  <2> QED
    BY <1>3, <2>1 DEF TheSwitch!Next, TheSwitch!Collapse, OpIdle
<1> QED
  BY <1>1, <1>2, <1>3

LEMMA OuterIsSwitch ==
  ASSUME IInv, AInv, StopInv, Undisturbed, Undisturbed', Way' = Way,
         op.pc = "idle" /\ proxy.task = None => Way = "site",
         \/ MainStep \/ ServerStops \/ BodyArrives \/ Request \/ Eof \/ Signal \/ StdinReturns
  PROVE  TheSwitch!Next \/ UNCHANGED TheSwitch!vars
<1>1. CASE RegisterSignals \/ ServerStops \/ NotPut \/ Request \/ Eof
  <2>1. UNCHANGED <<op, proxy>> /\ SameEnd
    BY <1>1, OuterFrame DEF RegisterSignals, ServerStops, NotPut, Answer, Request, Eof, SameEnd,
                            Alive
  <2> QED
    BY <2>1, SwitchStays DEF OpIdle
<1>2. CASE Signal
  <2>1. UNCHANGED <<op, proxy>> /\ Alive
    BY <1>2 DEF Signal, Alive
  <2>2. CASE main' = "killed"
    BY <2>1, <2>2 DEF TheSwitch!Next, TheSwitch!Kill, TheSwitch!Running, Alive, OpIdle
  <2>3. CASE main' = "lock"
    BY <2>1, <2>3, SwitchStays DEF OpIdle, SameEnd, Alive
  <2> QED
    BY <1>2, <2>2, <2>3 DEF Signal
<1>3. CASE LockAndStop
  <2>1. Alive /\ Alive' /\ OpIdle /\ ~OpIdle' /\ proxy' = proxy
    BY <1>3, BeginsIdle DEF LockAndStop, Begin, Alive, OpIdle
  <2> QED
    BY <2>1, SwitchStarts DEF TheSwitch!Next
<1>4. ASSUME NEW c \in Configs \cup {NoCfg}, Body(c)
      PROVE  TheSwitch!Next \/ UNCHANGED TheSwitch!vars
  <2>1. Alive /\ Alive' /\ OpIdle /\ proxy' = proxy
    BY <1>4, BeginsIdle DEF Body, Answer, Alive, OpIdle
  <2>2. CASE op' = Begin(c)
    <3>1. ~OpIdle'
      BY <2>2 DEF Begin, OpIdle
    <3> QED
      BY <2>1, <3>1, SwitchStarts DEF TheSwitch!Next
  <2>3. CASE UNCHANGED op
    BY <2>1, <2>3, SwitchStays DEF OpIdle, SameEnd
  <2> QED
    BY <1>4, <2>2, <2>3 DEF Body
<1>5. CASE JoinServer
  <2>1. /\ main = "join" /\ main' \in {"drop", "exited"} /\ UNCHANGED <<op, proxy>>
        /\ proxy.task = None /\ op.pc = "idle"
    BY <1>5 DEF JoinServer, StopInv, AInv, LockInv
  <2> QED
    BY <2>1 DEF TheSwitch!Next, TheSwitch!Exit, TheSwitch!Running, Alive, OpIdle
<1>6. CASE StdinReturns
  <2>1. UNCHANGED <<op, proxy>> /\ SameEnd
    BY <1>6 DEF StdinReturns, SameEnd
  <2> QED
    BY <2>1, SwitchStays DEF OpIdle
<1> QED
  BY <1>1, <1>2, <1>3, <1>4, <1>5, <1>6 DEF MainStep, BodyArrives

LEMMA NextSwitch ==
  ASSUME IInv, AInv, HostInv, StopInv, IInv', HostInv', [Next]_vars
  PROVE  TheSwitch!Next \/ UNCHANGED TheSwitch!vars
<1>1. CASE ~Undisturbed'
  BY <1>1 DEF TheSwitch!Next, TheSwitch!Break
<1>2. CASE Undisturbed'
  <2>1. Undisturbed
    BY <1>2, StepStaysUndisturbed
  <2>2. /\ host \in HostType /\ Way = Ways(host)
        /\ host' \in HostType /\ Way' = Ways(host')
    BY DEF Way, Ways, IInv, TypeOK
  <2>3. Way' \in TheSwitch!Nets
    BY <2>2, WayIs DEF TheSwitch!Nets
  <2>4. op.pc \in {"idle", "stop"} =>
          /\ proxy.task = None => Way = "site"
          /\ proxy.task # None => Way = "diverted"
    BY <2>1, SettledWay
  <2>5. op'.pc \in {"idle", "stop"} =>
          /\ proxy'.task = None => Way' = "site"
          /\ proxy'.task # None => Way' = "diverted"
    <3>1. op'.pc \in {"idle", "stop"} =>
            Settled' /\ (proxy'.task # None => proxy'.gen \in Gens)
      BY <1>2 DEF HostInv, NetInv, IInv, EnvInv, TypeOK
    <3> QED
      BY <2>2, <3>1, WayIs DEF Settled
  <2>6. CASE OpStep
    BY <1>2, <2>1, <2>3, <2>5, <2>6, OperationIsSwitch
  <2>7. CASE RewriteDns \/ \E g \in Gens : ProcStep(g) \/ ChildCrashes(g)
    <3>1. UNCHANGED <<op, proxy, main>>
      BY <2>7 DEF RewriteDns, ProcStep, SpawnChild, SelectWait, SelectStop, EnterNetns,
         ReadConfig, ChildStops, ReapNetns, ChildCrashes
    <3>2. Way = "between" \/ Way' = Way
      <4>1. \/ host' = host
            \/ \E d : host' = [host EXCEPT !.dns = d]
            \/ \E k \in Gens : k \notin host.ns /\ host' = NsDestroy(host, k)
        BY <2>7 DEF RewriteDns, ProcStep, SpawnChild, SelectWait, SelectStop, EnterNetns,
           ReadConfig, ChildStops, ReapNetns, ChildCrashes
      <4> QED
        BY <2>2, <4>1, WayKept
    <3> QED
      BY <1>2, <2>1, <2>3, <2>4, <3>1, <3>2, ByItselfIsSwitch
  <2>8. CASE MainStep \/ ServerStops \/ BodyArrives \/ Request \/ Eof \/ Signal \/ StdinReturns
    <3>1. host' = host
      BY <2>8 DEF MainStep, RegisterSignals, LockAndStop, JoinServer, ServerStops, BodyArrives,
         NotPut, Body, Request, Eof, Signal, StdinReturns
    <3>2. Way' = Way
      BY <2>2, <3>1
    <3> QED
      BY <1>2, <2>1, <2>4, <2>8, <3>2, OuterIsSwitch
  <2>9. CASE UNCHANGED vars
    <3>1. UNCHANGED <<host, op, proxy, main>> /\ (Undisturbed' <=> Undisturbed)
      BY <1>2, <2>1, <2>9 DEF vars
    <3> QED
      BY <2>2, <3>1, SwitchStays DEF OpIdle, SameEnd
  <2> QED
    BY <2>6, <2>7, <2>8, <2>9 DEF Next, Environment, Ended
<1> QED
  BY <1>1, <1>2

LEMMA InitSwitch == Init => TheSwitch!Init /\ StopInv
<1> SUFFICES ASSUME Init PROVE TheSwitch!Init /\ StopInv
  OBVIOUS
<1>1. host \in HostType /\ Way = Ways(host) /\ Undisturbed
  BY InitIInv DEF IInv, TypeOK, Way, Ways, Init, Undisturbed
<1>2. proxy.task = None /\ op.pc \in {"idle", "stop"} /\ main \in {"start", "reload"}
  BY DEF Init, Idle, Begin
<1>3. Untouched(host)
  BY <1>1, <1>2, InitHost DEF HostInv, NetInv, Settled
<1>4. Way = "site"
  BY <1>1, <1>3, WayIs
<1> QED
  BY <1>1, <1>2, <1>4 DEF TheSwitch!Init, StopInv, OpIdle, Alive

\* The safety part of ControllerIsSwitch: the traffic is in between only while
\* an operation is under way, every operation ends with the site's way or with a
\* session that diverts all of it, and the controller exits with the site's.
THEOREM ControllerStepsSwitch == Spec => TheSwitch!Init /\ [][TheSwitch!Next]_(TheSwitch!vars)
<1>1. IInv /\ AInv /\ HostInv /\ StopInv /\ IInv' /\ HostInv' /\ [Next]_vars
        => [TheSwitch!Next]_(TheSwitch!vars)
  BY NextSwitch
<1> QED
  BY <1>1, InitSwitch, NextStop, Invariance, AnswerInvariance, HostInvariance, PTL DEF Spec

----------------------------------------------------------------------------
(* What the controller takes a sub-proxy for.                              *)

\* A supervisor that has not decided yet has sent no signal.
ChildInv ==
  \A g \in Gens :
    /\ proc[g].task # "done" => ~proc[g].sig
    /\ proc[g].task = "run" => proc[g].child # "none"

LEMMA InitChild == Init => ChildInv /\ FirstChild!Init
<1>1. 1 \in Gens
  BY HostAssumption DEF Gens
<1> QED
  BY <1>1 DEF Init, NoProcess, ChildInv, FirstChild!Init

\* Operations change what a supervisor is told, never its sub-proxy.
LEMMA OperationsSpareChildren ==
  ASSUME IInv, ChildInv, OpStep
  PROVE  ChildInv' /\ \A g \in Gens : /\ proc'[g].child = proc[g].child
                                     /\ proc'[g].sig = proc[g].sig
<1> USE DEF ProcType
<1>1. proc \in [Gens -> ProcType] /\ (op.pc \in SetupPc => proxy.gen \in Gens)
  BY DEF IInv, TypeOK, EnvInv
<1>2. CASE Bind
  BY <1>1, <1>2 DEF Bind, UdsListen, ChildInv, SetupPc
<1>3. CASE SpawnTask
  <2>1. op.pc = "spawn" /\ proc[proxy.gen].task = "none"
    BY <1>3 DEF SpawnTask, IInv, EnvInv, SetupPc
  <2> QED
    BY <1>1, <1>3, <2>1 DEF SpawnTask, ChildInv, SetupPc
<1>4. CASE Stop
  <2>1. \A g \in Gens : /\ proc'[g].task = proc[g].task /\ proc'[g].child = proc[g].child
                        /\ proc'[g].sig = proc[g].sig
    BY <1>1, <1>4 DEF Stop
  <2> QED
    BY <2>1 DEF ChildInv
<1>5. CASE UNCHANGED proc
  BY <1>5 DEF ChildInv
<1> QED
  BY <1>2, <1>3, <1>4, <1>5 DEF OpStep, SetupStep, TeardownStep, ReloadStep, GetGateway,
     BackupDns, AddNetns, AddBridge1, AddVeth1, AddVeth4, EnslaveDevice, RemoveAddress,
     MoveAddress, AddDefaultRoute, GetRoutes, DeleteKernelRoutes, Announce, AnnouncePanics,
     SetIptables, SetEbtables, PutDnsBack, DeleteNetns, DeleteBridge1, RestoreAddress,
     RestoreDnsFile, FlushNat, DeleteRoutes, LoadRoute, RoutesLoaded, Cleared, AwaitTask,
     AfterStop, NewEnv, NewEnvPanics, Command, CommandIgnoringErrors, Teardown

LEMMA NextChild ==
  ASSUME IInv, ChildInv, [Next]_vars
  PROVE  ChildInv' /\ (FirstChild!Next \/ UNCHANGED FirstChild!vars)
<1> USE DEF ProcType
<1>1. proc \in [Gens -> ProcType] /\ 1 \in Gens
  BY HostAssumption DEF IInv, TypeOK, Gens
<1>2. CASE OpStep
  BY <1>1, <1>2, OperationsSpareChildren DEF FirstChild!vars
<1>3. ASSUME NEW g \in Gens, ProcStep(g) \/ ChildCrashes(g)
      PROVE  ChildInv' /\ (FirstChild!Next \/ UNCHANGED FirstChild!vars)
  <2>2. \A k \in Gens \ {g} : proc'[k] = proc[k]
    BY <1>1, <1>3 DEF ProcStep, SpawnChild, SelectWait, SelectStop, EnterNetns, ReadConfig,
       ChildStops, ReapNetns, ChildCrashes
  <2> DEFINE p == proc[g]
             q == proc'[g]
           Moves == {<<"start", "boot">>, <<"boot", "serve">>, <<"start", "dead">>,
                     <<"boot", "dead">>, <<"serve", "dead">>}
  <2>0. p \in ProcType /\ (p.task = "spawn" => p.child = "none")
    BY <1>1 DEF IInv, ProcInv
  <2>3. \/ p.task = "spawn" /\ p.child = "none" /\ q = [p EXCEPT !.task = "run", !.child = "start"]
        \/ q = [p EXCEPT !.task = "done"]
        \/ p.task = "run" /\ q = [p EXCEPT !.task = "done", !.sig = TRUE]
        \/ q = p
        \/ <<p.child, q.child>> \in Moves /\ q.task = p.task /\ q.sig = p.sig
    <3>1. CASE SpawnChild(g)
      BY <1>1, <2>0, <3>1 DEF SpawnChild
    <3>2. CASE SelectWait(g) \/ SelectStop(g)
      BY <1>1, <3>2 DEF SelectWait, SelectStop
    <3>3. CASE ReapNetns(g)
      BY <3>3 DEF ReapNetns
    <3>4. CASE EnterNetns(g)
      BY <1>1, <2>0, <3>4 DEF EnterNetns
    <3>5. CASE ReadConfig(g)
      <4>1. q = [p EXCEPT !.child = "serve", !.cfg = p.uds] \/ q = [p EXCEPT !.child = "dead"]
        BY <1>1, <3>5 DEF ReadConfig
      <4> QED
        BY <2>0, <3>5, <4>1 DEF ReadConfig
    <3>6. CASE ChildStops(g) \/ ChildCrashes(g)
      <4>1. q = [p EXCEPT !.child = "dead", !.cfg = NoCfg] /\ p.child \in {"start", "boot", "serve"}
        BY <1>1, <3>6 DEF ChildStops, ChildCrashes
      <4> QED
        BY <2>0, <4>1
    <3> QED
      BY <1>3, <3>1, <3>2, <3>3, <3>4, <3>5, <3>6 DEF ProcStep
  <2>4. ChildInv'
    <3>1. /\ q.task # "done" => ~q.sig
          /\ q.task = "run" => q.child # "none"
      BY <2>0, <2>3 DEF ChildInv
    <3> QED
      BY <2>2, <3>1 DEF ChildInv
  <2>5. CASE g = 1
    <3>1. CASE q.child = p.child /\ q.sig = p.sig
      BY <2>4, <2>5, <3>1 DEF FirstChild!vars
    <3>2. CASE p.task = "run" /\ q = [p EXCEPT !.task = "done", !.sig = TRUE]
      <4>1. p.child # "none" /\ ~p.sig
        BY <3>2 DEF ChildInv
      <4>2. q.child = p.child /\ q.sig = TRUE /\ p.sig = FALSE
        BY <2>0, <3>2, <4>1
      <4> QED
        BY <2>4, <2>5, <4>1, <4>2 DEF FirstChild!Next, FirstChild!Signal
    <3>3. CASE p.child = "none" /\ q.child = "start" /\ q.sig = p.sig
      BY <2>4, <2>5, <3>3 DEF FirstChild!Next, FirstChild!Launch
    <3>4. CASE <<p.child, q.child>> \in Moves /\ q.sig = p.sig
      BY <2>4, <2>5, <3>4 DEF FirstChild!Next, FirstChild!Enter, FirstChild!Serve, FirstChild!Die,
         FirstChild!Running
    <3> QED
      BY <2>0, <2>3, <3>1, <3>2, <3>3, <3>4
  <2>6. CASE g # 1
    BY <1>1, <2>2, <2>4, <2>6 DEF FirstChild!vars
  <2> QED
    BY <2>5, <2>6
<1>4. CASE UNCHANGED proc
  BY <1>4 DEF ChildInv, FirstChild!vars
<1> QED
  BY <1>2, <1>3, <1>4 DEF Next, MainStep, RegisterSignals, LockAndStop, JoinServer, ServerStops,
     BodyArrives, NotPut, Body, Environment, RewriteDns, Request, Eof, Signal, StdinReturns, Ended,
     vars

\* The safety part of ChildIsChildProcess: the controller takes no more of its
\* sub-proxy for granted than ChildProcess says, which SubProxy implements.
THEOREM ControllerStepsChild == Spec => FirstChild!Init /\ [][FirstChild!Next]_(FirstChild!vars)
<1>1. IInv /\ ChildInv /\ [Next]_vars => ChildInv' /\ [FirstChild!Next]_(FirstChild!vars)
  BY NextChild
<1> QED
  BY <1>1, InitChild, Invariance, PTL DEF Spec
=============================================================================
