---------------------------- MODULE HostNetwork ----------------------------
(***************************************************************************)
(* The part of the host's network configuration that chaos-tproxy moves    *)
(* out of the way and puts back, and what each command or netlink request  *)
(* of net/bridge.rs, net/iptables.rs and net/routes.rs does to it.         *)
(*                                                                         *)
(* Names derived from one NetEnv (prefix + "ns", "b1", "v1", "v4") are     *)
(* identified with the number of the NetEnv, its generation.  Interface 0  *)
(* is the physical device, interface g > 0 the host end prefix+"v4" of     *)
(* generation g.  Commands run inside the namespace leave the host alone.  *)
(***************************************************************************)
EXTENDS Integers

CONSTANTS
  MaxGen,   \* bound on the number of NetEnv's a controller creates for PUTs
  HasIpv6   \* the interfaces of the host carry IPv6 link-local addresses

ASSUME HostAssumption == MaxGen \in Nat \ {0} /\ HasIpv6 \in BOOLEAN

Gens   == 1 .. MaxGen
Device == 0
Ifaces == Gens \cup {Device}

\* A route of a table other than 255: the default route through the gateway,
\* or the link-scope route of the host's subnet.
Route == [dev : Ifaces, gw : BOOLEAN]
DefaultVia(i) == [dev |-> i, gw |-> TRUE]
LinkOf(i)     == [dev |-> i, gw |-> FALSE]

\* resolv.conf holds the site's servers, what a network manager wrote while
\* the device had no address, or what it held when a controller that ran before
\* this one made its backup.
DnsFile == {"site", "rewritten", "older"}

HostType ==
  [ dns    : DnsFile,                      \* /etc/resolv.conf
    bak    : DnsFile \cup {"missing"},     \* /etc/resolv.conf.bak
    ns     : SUBSET Gens,                  \* named network namespaces
    links  : SUBSET ({"b1", "v1", "v4"} \X Gens),
    master : Ifaces,                       \* bridge1 the device is enslaved to
    addr   : SUBSET Ifaces,                \* interfaces with the host's IPv4
    routes : SUBSET Route,
    nat    : SUBSET Gens ]                 \* dnat rules of the ebtables nat table

SiteRoutes == {LinkOf(Device), DefaultVia(Device)}

\* The backup an earlier controller made is never removed.
SiteNetwork(backup) ==
  [ dns |-> "site", bak |-> backup, ns |-> {}, links |-> {}, master |-> Device,
    addr |-> {Device}, routes |-> SiteRoutes, nat |-> {} ]

----------------------------------------------------------------------------
(* Commands.                                                               *)

HasLink(h, kind, g) == <<kind, g>> \in h.links
Present(h, i)       == i = Device \/ HasLink(h, "v4", i)

SaveDns(h)    == [h EXCEPT !.bak = h.dns]
\* cp of a missing backup fails and writes nothing.
RestoreDns(h) == IF h.bak = "missing" THEN h ELSE [h EXCEPT !.dns = h.bak]

NetnsAdd(h, g)      == [h EXCEPT !.ns = @ \cup {g}]
NetnsDel(h, g)      == [h EXCEPT !.ns = @ \ {g}]
LinkAdd(h, kind, g) == [h EXCEPT !.links = @ \cup {<<kind, g>>}]

\* Deleting a bridge releases the interfaces enslaved to it.
BridgeDel(h, g) ==
  [h EXCEPT !.links  = @ \ {<<"b1", g>>},
            !.master = IF @ = g THEN Device ELSE @]

SetMaster(h, i, g) == IF i = Device THEN [h EXCEPT !.master = g] ELSE h

\* Removing an interface's only IPv4 address flushes the interface's routes.
AddrDel(h, i) ==
  [h EXCEPT !.addr = @ \ {i}, !.routes = {r \in @ : r.dev # i}]

\* The kernel adds the link-scope route of a new address by itself.  The
\* command fails if the interface is gone or has the address already.
AddrAdd(h, i) ==
  IF Present(h, i) /\ i \notin h.addr
    THEN [h EXCEPT !.addr = @ \cup {i}, !.routes = @ \cup {LinkOf(i)}]
    ELSE h

\* A route is refused if one with its destination exists, if its interface or
\* the preferred source address is gone, or if the gateway is not reachable on
\* the interface (unless the route says onlink).
RouteAddable(h, r, onlink) ==
  /\ \A s \in h.routes : s.gw # r.gw
  /\ Present(h, r.dev)
  /\ h.addr # {}
  /\ r.gw /\ ~onlink => LinkOf(r.dev) \in h.routes

RouteAdd(h, r, onlink) ==
  IF RouteAddable(h, r, onlink) THEN [h EXCEPT !.routes = @ \cup {r}] ELSE h

\* setenv_bridge deletes the routes that have the host's address as preferred
\* source and no gateway.
IsKernelRouteNever(r) == FALSE   \* mutant: the address is never found
IsKernelRoute(r)    == ~r.gw
KernelRoutesDel(h)  == [h EXCEPT !.routes = {r \in @ : ~IsKernelRoute(r)}]
RoutesDel(h)        == [h EXCEPT !.routes = {}]

\* The dump lists the default route first; NetEnv::new reverses it, so a route
\* is loaded after those that make its gateway reachable.
LoadsBeforeUnreversed(r, s) == r.gw /\ ~s.gw   \* mutant: order of the dump
LoadsBefore(r, s) == ~r.gw /\ s.gw
FirstToLoad(rest, r) == r \in rest /\ \A s \in rest : ~LoadsBefore(s, r)

NatAdd(h, g)  == [h EXCEPT !.nat = @ \cup {g}]
NatFlush(h)   == [h EXCEPT !.nat = {}]

\* A namespace without a name and without a process is destroyed, and with it
\* the veth pairs that have an end in it.
NsDestroy(h, g) ==
  [h EXCEPT !.links  = @ \ {<<"v1", g>>, <<"v4", g>>},
            !.addr   = @ \ {g},
            !.routes = {r \in @ : r.dev # g}]

----------------------------------------------------------------------------
(* Queries.                                                                *)

HasGateway(h) == \E r \in h.routes : r.gw

\* get_default_interface takes the first interface, by index, that has an
\* address of either family; the caller then wants an IPv4 address of it.
WithAddress(h) == h.addr \cup (IF HasIpv6 THEN {Device} ELSE {})
DefaultInterface(h) ==
  CHOOSE i \in WithAddress(h) : \A j \in WithAddress(h) : i <= j
DefaultHasIpv4(h) == WithAddress(h) # {} /\ DefaultInterface(h) \in h.addr

----------------------------------------------------------------------------
(* What the properties ask of the host.                                    *)

\* The site's own network, up to interfaces of a namespace that is being
\* destroyed.
Restored(h) ==
  /\ h.dns = "site"
  /\ h.ns = {}
  /\ \A g \in Gens : ~HasLink(h, "b1", g)
  /\ h.master = Device
  /\ Device \in h.addr
  /\ h.routes = SiteRoutes
  /\ h.nat = {}

\* All traffic of the host passes the bridges and the namespace of g.
Diverted(h, g) ==
  /\ g \in h.ns
  /\ \A kind \in {"b1", "v1", "v4"} : HasLink(h, kind, g)
  /\ h.master = g
  /\ g \in h.addr /\ Device \notin h.addr
  /\ h.routes = {DefaultVia(g)}
  /\ g \in h.nat
=============================================================================
