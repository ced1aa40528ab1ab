----------------------------- MODULE Diversion -----------------------------
(***************************************************************************)
(* What the rules in the namespace do to one TCP connection between the    *)
(* host and a peer: the broute rule of ebtables, the mangle chain with     *)
(* DIVERT, TPROXY and the rules of safe mode, and the sockets of the       *)
(* sub-proxy the chain looks for.  The session is started and stopped, and *)
(* the sub-proxy listens and dies, while the connection is being opened or *)
(* used.  Port numbers keep the order they have in the code.               *)
(***************************************************************************)
EXTENDS Naturals, FiniteSets

CONSTANTS
  Ssh,        \* 22
  SafeMid,    \* 81
  FirstFree,  \* 1025
  MaxPort,    \* 65535
  MultiportMax   \* the ports iptables takes in one multiport match, 15

ASSUME DiversionAssumption ==
  /\ {Ssh, SafeMid, FirstFree, MaxPort, MultiportMax} \subseteq Nat
  /\ 1 < Ssh /\ Ssh < SafeMid /\ SafeMid < FirstFree /\ FirstFree < MaxPort

Ports == 1 .. MaxPort
NoPort == 0

\* The host, a peer in the subnet of its address, and one beyond the gateway.
\* The address in NetEnv carries its prefix, so iptables takes -s and -d to be
\* the subnet.
Addresses   == {"host", "lan", "wan"}
InSubnet(a) == a \in {"host", "lan"}

\* Connections that pass the bridges have the host at one end.
Endpoints ==
  {e \in [client : Addresses, cport : Ports, server : Addresses, sport : Ports] :
     (e.client = "host") # (e.server = "host")}

VARIABLES
  ports, safe,   \* proxy_ports (reload starts no session if it is None) and safe_mode
  listen,        \* listen_port, or NoPort: the configuration is refused
  end,           \* the two ends of the connection
  rules,         \* what of the rules is in place
  proxy,         \* the sub-proxy
  leg,           \* the connection
  began          \* history: state of the session when the SYN passed

vars == <<ports, safe, listen, end, rules, proxy, leg, began>>
conf == <<ports, safe, listen, end>>

----------------------------------------------------------------------------
(* Configuration.                                                          *)

\* mutant: the range begins one too early.
FreePortsFromOneBelow(used) == {p \in FirstFree - 1 .. MaxPort - 1 : p \notin used}

\* mutant: a port is free whatever is used.
FreePortsOfAll(used) == FirstFree .. MaxPort - 1

\* u16::MAX itself is not tried.
FreePorts(used) == {p \in FirstFree .. MaxPort - 1 : p \notin used}

GetFreePort(used) ==
  IF FreePorts(used) = {} THEN NoPort
  ELSE CHOOSE p \in FreePorts(used) : \A q \in FreePorts(used) : p <= q

Init ==
  /\ ports \in SUBSET Ports /\ safe \in BOOLEAN
  /\ listen = GetFreePort(ports)
  /\ end \in Endpoints
  /\ rules = "none" /\ proxy = "none" /\ leg = "none" /\ began = "none"

----------------------------------------------------------------------------
(* The namespace.                                                          *)

\* Segments of the connection, in either direction.
ToServer == [src |-> end.client, sport |-> end.cport, dst |-> end.server, dport |-> end.sport]
ToClient == [src |-> end.server, sport |-> end.sport, dst |-> end.client, dport |-> end.cport]

\* Sockets of the sub-proxy with the addresses of the connection: the one it
\* accepted and the one it connected from the client's address.
HasAccepted  == leg \in {"accepted", "connecting", "proxied"}
HasConnected == leg \in {"connecting", "proxied"}
HasSocket(p) == (p = ToServer /\ HasAccepted) \/ (p = ToClient /\ HasConnected)

\* The bridge hands a segment to the IP layer unless it belongs to ssh.
Brouted(p) == rules # "none" /\ p.dport # Ssh /\ p.sport # Ssh

\* mutant: one direction of the connections of clients in the subnet is left out.
SafeAcceptOneWay(p) ==
  /\ rules = "full" /\ safe
  /\ \/ p.dport \in 1 .. SafeMid /\ InSubnet(p.src)
     \/ p.sport \in 1 .. SafeMid /\ InSubnet(p.dst)
     \/ p.dport \in SafeMid .. FirstFree /\ InSubnet(p.src)

\* mutant: the rules of safe mode are always there.
SafeAcceptAlways(p) ==
  /\ rules = "full"
  /\ \/ p.dport \in 1 .. FirstFree /\ InSubnet(p.src)
     \/ p.sport \in 1 .. FirstFree /\ InSubnet(p.dst)

\* The four rules of safe mode come before all others.
SafeAccept(p) ==
  /\ rules = "full" /\ safe
  /\ \/ p.dport \in 1 .. SafeMid /\ InSubnet(p.src)
     \/ p.sport \in 1 .. SafeMid /\ InSubnet(p.dst)
     \/ p.dport \in SafeMid .. FirstFree /\ InSubnet(p.src)
     \/ p.sport \in SafeMid .. FirstFree /\ InSubnet(p.dst)

\* Bridged and routed segments reach the other end alike.  A marked segment is
\* delivered to the socket it matches, and one that meets TPROXY to the
\* listener, or it is dropped.
Verdict(p) ==
  IF ~Brouted(p) \/ SafeAccept(p) THEN "pass"
  ELSE IF HasSocket(p) THEN "socket"
  ELSE IF p.dport \in ports THEN "listener"
  ELSE "pass"

----------------------------------------------------------------------------
(* The session.                                                            *)

\* The broute rule is the last that matters.  iptables refuses an empty list of
\* ports and a long one, and then there is no session.
SetIptables ==
  /\ rules = "none" /\ proxy = "none" /\ listen # NoPort
  /\ Cardinality(ports) \in 1 .. MultiportMax
  /\ rules' = IF safe THEN "base" ELSE "full"
  /\ UNCHANGED <<conf, proxy, leg, began>>

SetIptablesSafe ==
  /\ rules = "base"
  /\ rules' = "full"
  /\ UNCHANGED <<conf, proxy, leg, began>>

\* mutant: the sub-proxy is started before the rules of safe mode.
ListenEarly ==
  /\ rules # "none" /\ proxy = "none"
  /\ proxy' = "listens"
  /\ UNCHANGED <<conf, rules, leg, began>>

\* mutant: no sub-proxy in safe mode.
ListenUnlessSafe ==
  /\ rules = "full" /\ proxy = "none" /\ ~safe
  /\ proxy' = "listens"
  /\ UNCHANGED <<conf, rules, leg, began>>

Listen ==
  /\ rules = "full" /\ proxy = "none"
  /\ proxy' = "listens"
  /\ UNCHANGED <<conf, rules, leg, began>>

\* The sub-proxy is stopped or dies; its sockets are reset.  Nothing tears the
\* session down then, unless somebody stops it.
ProxyEnds ==
  /\ proxy = "listens"
  /\ proxy' = "dead"
  /\ leg' = IF HasAccepted THEN "reset" ELSE leg
  /\ UNCHANGED <<conf, rules, began>>

\* stop, or the end of a set-up that failed: the bridges go and with them the way
\* through the namespace.  A sub-proxy that has been told to stop may live on.
TearDown ==
  /\ rules # "none"
  /\ rules' = "none"
  /\ proxy' = IF proxy = "none" THEN "gone" ELSE proxy
  /\ UNCHANGED <<conf, leg, began>>

----------------------------------------------------------------------------
(* The connection.                                                         *)

\* The client's SYN, sent again if it was dropped.
Syn ==
  /\ leg = "none"
  /\ LET verdict == Verdict(ToServer)
     IN \/ verdict = "pass" /\ leg' = "syn"
        \/ verdict = "listener" /\ proxy = "listens" /\ leg' = "accepted"
        \/ verdict = "listener" /\ proxy # "listens" /\ leg' = "none"
  /\ began' = IF rules = "none" THEN "free" ELSE IF proxy = "listens" THEN "session" ELSE "setup"
  /\ UNCHANGED <<conf, rules, proxy>>

\* HttpConnector and the relay: from the client's address to its target.
Connect ==
  /\ leg = "accepted"
  /\ leg' = "connecting"
  /\ UNCHANGED <<conf, rules, proxy, began>>

\* A segment of an open connection meets its own socket, or passes if there is
\* none; otherwise somebody gets a segment he does not know and resets.
Arrives(p, next) ==
  LET verdict == Verdict(p)
  IN \/ HasSocket(p) /\ verdict = "socket" /\ leg' = next
     \/ ~HasSocket(p) /\ verdict = "pass" /\ leg' = next
     \/ HasSocket(p) /\ verdict # "socket" /\ leg' = "reset"
     \/ ~HasSocket(p) /\ verdict = "listener" /\ proxy = "listens" /\ leg' = "reset"
     \/ ~HasSocket(p) /\ verdict = "listener" /\ proxy # "listens" /\ leg' = leg

SynAck ==
  /\ \/ leg = "syn" /\ Arrives(ToClient, "direct")
     \/ leg = "connecting" /\ Arrives(ToClient, "proxied")
  /\ UNCHANGED <<conf, rules, proxy, began>>

Data ==
  /\ leg \in {"direct", "proxied"}
  /\ Arrives(ToClient, leg) \/ Arrives(ToServer, leg)
  /\ UNCHANGED <<conf, rules, proxy, began>>

SessionStep == SetIptables \/ SetIptablesSafe \/ Listen \/ TearDown
TcpStep     == Syn \/ SynAck

Next == SessionStep \/ ProxyEnds \/ TcpStep \/ Connect \/ Data

Spec == Init /\ [][Next]_vars

\* A set-up goes on unless it fails, clients send a SYN again.  Nobody is obliged
\* to stop the session.
Fairness == WF_vars(SetIptablesSafe) /\ WF_vars(Listen) /\ WF_vars(TcpStep)

FairSpec == Spec /\ Fairness

----------------------------------------------------------------------------
(* Properties.                                                             *)

TypeOK ==
  /\ ports \subseteq Ports /\ safe \in BOOLEAN /\ end \in Endpoints
  /\ listen \in {NoPort} \cup FirstFree .. MaxPort - 1
  /\ rules \in {"none", "base", "full"}
  /\ proxy \in {"none", "listens", "dead", "gone"}
  /\ leg \in {"none", "syn", "direct", "accepted", "connecting", "proxied", "reset"}
  /\ began \in {"none", "free", "setup", "session"}

Carried == {"accepted", "connecting", "proxied"}

\* iptables.rs 57-91, 134-207: every segment of a connection the sub-proxy has
\* taken over meets the sub-proxy's socket, in both directions and also in safe
\* mode, so that such a connection lasts as long as session and sub-proxy do.
ProxiedLasts ==
  [][(leg \in Carried /\ leg' = "reset") => (proxy' = "dead" \/ rules = "none")]_vars

\* What a session leaves alone: connections of ssh; those that name no port of
\* the configuration at either end; in safe mode, those to low ports from the
\* subnet of the host, so that replies to them come from it or go to it.
LeftAlone ==
  \/ Ssh \in {end.cport, end.sport}
  \/ {end.cport, end.sport} \cap ports = {}
  \/ /\ safe
     /\ \/ InSubnet(end.client) /\ end.sport <= FirstFree
        \/ InSubnet(end.server) /\ end.cport <= FirstFree

\* iptables.rs 9-31, 95-114, 134-207: such a connection is neither taken over nor
\* reset, whether it is opened before, during or after the session: the rules
\* that come first in safe mode are in place before anybody listens.
OthersUntouched == LeftAlone => leg \notin Carried \cup {"reset"}

\* iptables.rs 9-31: while rules and listener are in place, every connection
\* opened to a port of the configuration is taken over.
NoneSlipsThrough ==
  began = "session" /\ end.sport \in ports /\ ~LeftAlone => leg \notin {"syn", "direct"}

\* config.rs 58-74: the port the sub-proxy listens on is none that is diverted to
\* it, whatever ports are configured.
ListenPortApart == rules # "none" => listen \notin ports

\* A SYN that finds the rules in place and nobody listening yet is dropped; the
\* client's next one passes or is taken, unless the sub-proxy has died.
SynTaken == (leg = "none") ~> (leg # "none" \/ proxy = "dead")
=============================================================================
