---------------------------- MODULE ChildProcess ----------------------------
(***************************************************************************)
(* What Proxy::exec and the supervisor it spawns rely on of the process    *)
(* `ip netns exec NS chaos-tproxy --proxy`: it goes through its phases     *)
(* once, in order, it can die in any of them, and it dies when it is sent  *)
(* SIGINT.  Controller assumes this of every generation's process and      *)
(* SubProxy, the program run by it, is checked to provide it.              *)
(***************************************************************************)
VARIABLES
  phase,   \* "none", "start" (ip), "boot" (no configuration yet), "serve", "dead"
  sig      \* SIGINT was sent

vars == <<phase, sig>>

Running == phase \in {"start", "boot", "serve"}

Init == phase \in {"none", "boot"} /\ sig = FALSE

Launch == phase = "none" /\ phase' = "start" /\ UNCHANGED sig
Enter  == phase = "start" /\ phase' = "boot" /\ UNCHANGED sig
Serve  == phase = "boot" /\ phase' = "serve" /\ UNCHANGED sig
Die    == Running /\ phase' = "dead" /\ UNCHANGED sig
Signal == phase # "none" /\ sig = FALSE /\ sig' = TRUE /\ UNCHANGED phase

Next == Launch \/ Enter \/ Serve \/ Die \/ Signal

Spec == Init /\ [][Next]_vars /\ WF_vars(sig /\ Die)
=============================================================================
