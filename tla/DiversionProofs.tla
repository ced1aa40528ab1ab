-------------------------- MODULE DiversionProofs --------------------------
(***************************************************************************)
(* Proofs about Diversion for all ports, all lists of ports to divert and  *)
(* all limits: what safe mode exempts is exempt in both directions, so the *)
(* rules agree about every segment of a connection.                        *)
(***************************************************************************)
EXTENDS Diversion, IntervalProofs

\* Which stages of the session and of the connection go together.
StageInv ==
  /\ listen \in FreePorts(ports) \cup {NoPort}
  /\ rules # "none" => listen # NoPort
  /\ proxy = "listens" => rules \in {"full", "none"}
  /\ leg \in Carried => proxy = "listens" /\ end.sport \in ports /\ ~LeftAlone

DInv == TypeOK /\ StageInv /\ OthersUntouched /\ NoneSlipsThrough

----------------------------------------------------------------------------
(* The port to listen on.                                                  *)

\* get_free_port returns a port of its range that is not used, if there is one.
LEMMA FreePort ==
  ASSUME NEW used \in SUBSET Ports
  PROVE  GetFreePort(used) \in FreePorts(used) \cup {NoPort}
<1>1. FreePorts(used) \in SUBSET (1 .. MaxPort)
  BY DiversionAssumption DEF FreePorts
<1>2. FreePorts(used) # {} =>
        \E p \in FreePorts(used) : \A q \in FreePorts(used) : p <= q
  BY <1>1, LeastElement, DiversionAssumption
<1> QED
  BY <1>2 DEF GetFreePort

----------------------------------------------------------------------------
(* The rules see both directions of a connection alike.                    *)

\* What the complete rules let pass on account of ssh or of safe mode is a
\* connection that is left alone.
LEMMA PassedIsLeftAlone ==
  ASSUME TypeOK, rules = "full", NEW p \in {ToServer, ToClient},
         ~Brouted(p) \/ SafeAccept(p)
  PROVE  LeftAlone
<1> USE DiversionAssumption DEF TypeOK, Endpoints, Ports, LeftAlone, ToServer, ToClient
<1>1. CASE p = ToServer
  BY <1>1 DEF Brouted, SafeAccept
<1>2. CASE p = ToClient
  BY <1>2 DEF Brouted, SafeAccept
<1> QED
  BY <1>1, <1>2

\* What they give to the sub-proxy is none.
LEMMA TakenIsNotLeftAlone ==
  ASSUME TypeOK, rules = "full", NEW p \in {ToServer, ToClient},
         Brouted(p), ~SafeAccept(p), p.dport \in ports
  PROVE  ~LeftAlone
<1> USE DiversionAssumption DEF TypeOK, Endpoints, Ports, LeftAlone, ToServer, ToClient
<1>1. CASE p = ToServer
  BY <1>1 DEF Brouted, SafeAccept
<1>2. CASE p = ToClient
  BY <1>2 DEF Brouted, SafeAccept
<1> QED
  BY <1>1, <1>2

----------------------------------------------------------------------------
(* The invariant.                                                          *)

LEMMA InitDInv == Init => DInv
<1> SUFFICES ASSUME Init PROVE DInv
  OBVIOUS
<1>1. listen \in FreePorts(ports) \cup {NoPort}
  BY FreePort DEF Init
<1>2. TypeOK
  BY <1>1 DEF Init, TypeOK, FreePorts
<1> QED
  BY <1>1, <1>2 DEF DInv, StageInv, Init, OthersUntouched, NoneSlipsThrough, Carried

\* Steps of the session leave the connection alone.
LEMMA SessionPreserves ==
  ASSUME DInv, SessionStep
  PROVE  DInv' /\ UNCHANGED leg
<1> USE DEF DInv, conf
<1>1. UNCHANGED <<conf, leg, began>>
  BY DEF SessionStep, SetIptables, SetIptablesSafe, Listen, TearDown
<1>2. TypeOK'
  BY <1>1 DEF TypeOK, SessionStep, SetIptables, SetIptablesSafe, Listen, TearDown
<1>3. StageInv'
  <2> USE DEF StageInv, LeftAlone, FreePorts
  <2>1. CASE SetIptables
    BY <1>1, <2>1 DEF SetIptables, Carried
  <2>2. CASE SetIptablesSafe
    BY <1>1, <2>2 DEF SetIptablesSafe, Carried
  <2>3. CASE Listen
    BY <1>1, <2>3 DEF Listen, Carried
  <2>4. CASE TearDown
    BY <1>1, <2>4 DEF TearDown, Carried
  <2> QED
    BY <2>1, <2>2, <2>3, <2>4 DEF SessionStep
<1>4. OthersUntouched' /\ NoneSlipsThrough'
  BY <1>1 DEF OthersUntouched, NoneSlipsThrough, LeftAlone
<1> QED
  BY <1>1, <1>2, <1>3, <1>4

LEMMA ProxyEndsPreserves ==
  ASSUME DInv, ProxyEnds
  PROVE  DInv'
<1> USE DEF DInv, conf, ProxyEnds
<1>1. TypeOK'
  BY DEF TypeOK, HasAccepted
<1>2. StageInv'
  BY DEF StageInv, FreePorts, HasAccepted, Carried
<1>3. OthersUntouched' /\ NoneSlipsThrough'
  BY DEF OthersUntouched, NoneSlipsThrough, LeftAlone, HasAccepted, Carried, StageInv
<1> QED
  BY <1>1, <1>2, <1>3

\* A connection whose opening passes while there is a listener is left alone;
\* one that is taken is not.
LEMMA SynPreserves ==
  ASSUME DInv, Syn
  PROVE  DInv' /\ leg = "none"
<1> USE DEF DInv, conf
<1>1. leg = "none" /\ UNCHANGED <<conf, rules, proxy>> /\ leg' \in {"syn", "accepted", "none"}
  BY DEF Syn
<1>2. TypeOK'
  BY <1>1 DEF TypeOK, Syn
<1>3. LeftAlone' <=> LeftAlone
  BY <1>1 DEF LeftAlone
<1>4. leg' = "accepted" =>
        /\ proxy = "listens" /\ rules = "full" /\ end.sport \in ports /\ ~LeftAlone
  <2> SUFFICES ASSUME leg' = "accepted"
               PROVE  proxy = "listens" /\ rules = "full" /\ end.sport \in ports /\ ~LeftAlone
    OBVIOUS
  <2>1. Verdict(ToServer) = "listener" /\ proxy = "listens"
    BY DEF Syn
  <2>2. Brouted(ToServer) /\ ~SafeAccept(ToServer) /\ ToServer.dport \in ports
    BY <2>1 DEF Verdict
  <2>3. rules = "full"
    BY <2>1, <2>2 DEF Brouted, StageInv
  <2> QED
    BY <2>1, <2>2, <2>3, TakenIsNotLeftAlone DEF ToServer
<1>5. leg' = "syn" /\ began' = "session" /\ end.sport \in ports => LeftAlone
  <2> SUFFICES ASSUME leg' = "syn", began' = "session", end.sport \in ports PROVE LeftAlone
    OBVIOUS
  <2>1. rules # "none" /\ proxy = "listens" /\ Verdict(ToServer) = "pass"
    BY DEF Syn
  <2>2. rules = "full"
    BY <2>1 DEF StageInv
  <2>3. ~Brouted(ToServer) \/ SafeAccept(ToServer)
    BY <2>1 DEF Verdict, ToServer
  <2> QED
    BY <2>2, <2>3, PassedIsLeftAlone
<1>6. StageInv'
  BY <1>1, <1>3, <1>4 DEF StageInv, FreePorts, Carried
<1>7. OthersUntouched' /\ NoneSlipsThrough'
  BY <1>1, <1>3, <1>4, <1>5 DEF OthersUntouched, NoneSlipsThrough, Carried
<1> QED
  BY <1>1, <1>2, <1>6, <1>7

LEMMA ConnectPreserves ==
  ASSUME DInv, Connect
  PROVE  DInv' /\ leg' # "reset"
<1> USE DEF DInv, conf, Connect
<1>1. TypeOK'
  BY DEF TypeOK
<1>2. StageInv'
  BY DEF StageInv, FreePorts, Carried, LeftAlone
<1>3. OthersUntouched' /\ NoneSlipsThrough'
  BY DEF OthersUntouched, NoneSlipsThrough, LeftAlone, Carried
<1> QED
  BY <1>1, <1>2, <1>3

\* What a segment does to a connection that would go on to `next`.
Outcome(next) ==
  \/ leg' = next \/ leg' = leg
  \/ leg' = "reset" /\ leg \in {"connecting", "proxied"} /\ rules = "none"
  \/ leg' = "reset" /\ leg \in {"syn", "direct"} /\ ~LeftAlone

\* Segments of a connection that has been taken over meet its sockets, those of
\* another pass, or the connection is none to be left alone.
LEMMA ArrivesOutcome ==
  ASSUME DInv, NEW p \in {ToServer, ToClient}, NEW next, Arrives(p, next),
         leg \in {"connecting", "proxied"} => HasSocket(p),
         leg \in {"syn", "direct", "connecting", "proxied"}
  PROVE  Outcome(next)
<1> USE DEF DInv, Outcome
<1>1. CASE leg \in {"connecting", "proxied"}
  <2>1. HasSocket(p) /\ ~LeftAlone /\ rules \in {"full", "none"}
    BY <1>1 DEF StageInv, Carried
  <2>2. rules = "full" => Verdict(p) = "socket"
    BY <2>1, PassedIsLeftAlone DEF Verdict
  <2> QED
    BY <1>1, <2>1, <2>2 DEF Arrives
<1>2. CASE leg \in {"syn", "direct"}
  <2>1. ~HasSocket(p)
    BY <1>2 DEF HasSocket, HasAccepted, HasConnected
  <2>2. Verdict(p) = "listener" /\ proxy = "listens" => ~LeftAlone
    <3> SUFFICES ASSUME Verdict(p) = "listener", proxy = "listens" PROVE ~LeftAlone
      OBVIOUS
    <3>1. Brouted(p) /\ ~SafeAccept(p) /\ p.dport \in ports
      BY DEF Verdict
    <3>2. rules = "full"
      BY <3>1 DEF Brouted, StageInv
    <3> QED
      BY <3>1, <3>2, TakenIsNotLeftAlone
  <2> QED
    BY <1>2, <2>1, <2>2 DEF Arrives
<1> QED
  BY <1>1, <1>2

LEMMA SegmentFrame ==
  ASSUME DInv, UNCHANGED <<conf, rules, proxy, began>>, NEW next, Outcome(next),
         \/ leg = "syn" /\ next = "direct"
         \/ leg = "connecting" /\ next = "proxied"
         \/ leg \in {"direct", "proxied"} /\ next = leg
  PROVE  /\ DInv'
         /\ leg \in Carried /\ leg' = "reset" => rules = "none"
<1> USE DEF DInv, conf, Outcome
<1>1. TypeOK'
  BY DEF TypeOK
<1>2. StageInv'
  BY DEF StageInv, FreePorts, Carried, LeftAlone
<1>3. OthersUntouched' /\ NoneSlipsThrough'
  BY DEF OthersUntouched, NoneSlipsThrough, LeftAlone, Carried, StageInv
<1>4. leg \in Carried /\ leg' = "reset" => rules = "none"
  BY DEF Carried
<1> QED
  BY <1>1, <1>2, <1>3, <1>4

LEMMA SegmentPreserves ==
  ASSUME DInv, SynAck \/ Data
  PROVE  /\ DInv'
         /\ leg \in Carried /\ leg' = "reset" => rules = "none"
<1> USE DEF DInv, conf
<1>1. UNCHANGED <<conf, rules, proxy, began>>
  BY DEF SynAck, Data
<1>2. leg \in {"syn", "direct", "connecting", "proxied"}
  BY DEF SynAck, Data
<1>3. CASE leg = "syn"
  <2>1. Outcome("direct")
    BY <1>3, ArrivesOutcome DEF SynAck, Data
  <2> QED
    BY <1>1, <1>3, <2>1, SegmentFrame
<1>4. CASE leg = "connecting"
  <2>1. Outcome("proxied")
    BY <1>4, ArrivesOutcome DEF SynAck, Data, HasSocket, HasConnected
  <2> QED
    BY <1>1, <1>4, <2>1, SegmentFrame
<1>5. CASE leg \in {"direct", "proxied"}
  <2>1. Outcome(leg)
    BY <1>5, ArrivesOutcome DEF SynAck, Data, HasSocket, HasConnected, HasAccepted
  <2> QED
    BY <1>1, <1>5, <2>1, SegmentFrame
<1> QED
  BY <1>2, <1>3, <1>4, <1>5

----------------------------------------------------------------------------
(* Theorems.                                                               *)

LEMMA NextPreserves == DInv /\ [Next]_vars => DInv'
<1> SUFFICES ASSUME DInv, [Next]_vars PROVE DInv'
  OBVIOUS
<1>1. CASE UNCHANGED vars
  BY <1>1 DEF DInv, TypeOK, StageInv, OthersUntouched, NoneSlipsThrough, LeftAlone, FreePorts,
              vars
<1> QED
  BY <1>1, SessionPreserves, ProxyEndsPreserves, SynPreserves, ConnectPreserves,
     SegmentPreserves DEF Next, TcpStep

\* Diversion.tla's state stays in its types.
THEOREM DiversionTypeCorrect == Spec => []TypeOK
<1>1. DInv => TypeOK
  BY DEF DInv
<1> QED
  BY <1>1, InitDInv, NextPreserves, PTL DEF Spec

\* No session takes over or resets a connection of ssh, one between other
\* ports, or one that safe mode exempts.
THEOREM OthersLeftAlone == Spec => []OthersUntouched
<1>1. DInv => OthersUntouched
  BY DEF DInv
<1> QED
  BY <1>1, InitDInv, NextPreserves, PTL DEF Spec

\* No connection to a configured port is opened past a listening sub-proxy.
THEOREM AllTaken == Spec => []NoneSlipsThrough
<1>1. DInv => NoneSlipsThrough
  BY DEF DInv
<1> QED
  BY <1>1, InitDInv, NextPreserves, PTL DEF Spec

\* Whatever list of ports is configured, the sub-proxy listens on another one.
THEOREM ListensApart == Spec => []ListenPortApart
<1>1. DInv => ListenPortApart
  BY DEF DInv, StageInv, ListenPortApart, FreePorts
<1> QED
  BY <1>1, InitDInv, NextPreserves, PTL DEF Spec

\* A connection that has been taken over is reset only with the sub-proxy or
\* after the session.
THEOREM TakenLasts == Spec => ProxiedLasts
<1>1. DInv /\ [Next]_vars => [(leg \in Carried /\ leg' = "reset")
                               => (proxy' = "dead" \/ rules = "none")]_vars
  <2> SUFFICES ASSUME DInv, Next, leg \in Carried, leg' = "reset"
               PROVE  proxy' = "dead" \/ rules = "none"
    OBVIOUS
  <2>1. CASE ProxyEnds
    BY <2>1 DEF ProxyEnds
  <2> QED
    BY <2>1, SessionPreserves, SynPreserves, ConnectPreserves, SegmentPreserves
       DEF Next, TcpStep, Carried
<1> QED
  BY <1>1, InitDInv, NextPreserves, PTL DEF Spec, ProxiedLasts
=============================================================================
