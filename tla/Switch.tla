------------------------------- MODULE Switch -------------------------------
(***************************************************************************)
(* What the controller promises to whoever runs it: it is a switch for the *)
(* traffic of the host.  Traffic takes the site's own way or is diverted   *)
(* through one session, in between only while the controller works on it,  *)
(* which it does not do for ever; it leaves the host as the site's own if  *)
(* it ends by itself.  `broken` says that the promise is void.             *)
(***************************************************************************)

VARIABLES
  net,      \* way of the traffic
  on,       \* a session has been granted and not been taken back
  cmd,      \* an operation is under way
  end,      \* the controller's end
  broken

vars == <<net, on, cmd, end, broken>>

Nets == {"site", "diverted", "between"}

Init ==
  /\ net = "site" /\ ~on /\ ~broken
  /\ cmd \in {"idle", "work"} /\ end = "running"

Running == end = "running" /\ ~broken

Start ==
  /\ Running /\ cmd = "idle"
  /\ cmd' = "work"
  /\ UNCHANGED <<net, on, end, broken>>

\* A session that is on is diverted until it is taken back.
Work ==
  /\ Running /\ cmd = "work"
  /\ net' \in Nets
  /\ on' => (on /\ net' = net)
  /\ UNCHANGED <<cmd, end, broken>>

Settle ==
  /\ Running /\ cmd = "work" /\ cmd' = "idle"
  /\ \/ ~on' /\ net' = "site" /\ end' \in {"running", "exited"}
     \/ on' /\ net' = "diverted" /\ end' = "running"
  /\ UNCHANGED broken

Exit ==
  /\ Running /\ cmd = "idle" /\ ~on /\ net = "site"
  /\ end' = "exited"
  /\ UNCHANGED <<net, on, cmd, broken>>

Kill ==
  /\ Running
  /\ end' = "killed"
  /\ UNCHANGED <<net, on, cmd, broken>>

\* What a killed controller was working on may still collapse.
Collapse ==
  /\ end = "killed" /\ net = "between"
  /\ net' \in Nets
  /\ UNCHANGED <<on, cmd, end, broken>>

Break == broken'

Next == Start \/ Work \/ Settle \/ Exit \/ Kill \/ Collapse \/ Break

\* An operation does not go on for ever.
Settles == (cmd = "work") ~> (cmd = "idle" \/ ~Running)

Spec == Init /\ [][Next]_vars /\ Settles
=============================================================================
