---------------------------- MODULE SafeShutdown ----------------------------
(***************************************************************************)
(* What the daemon promises about its end, whatever happens inside it: the *)
(* chip is driven only until the first channel is put into its safe state, *)
(* and the process ends by itself only after every channel was handled.    *)
(***************************************************************************)
CONSTANT Channels

VARIABLES
  phase,  \* "regulating", "securing", "ended"
  chip    \* per channel: "driven", "safe", or "refused" (the node did not
          \* accept its safe state)

vars == <<phase, chip>>

Init == phase = "regulating" /\ chip = [ch \in Channels |-> "driven"]

Secure ==
  /\ phase = "regulating"
  /\ phase' = "securing"
  /\ UNCHANGED chip

SecureChannel(ch) ==
  /\ phase = "securing" /\ chip[ch] = "driven"
  /\ \E s \in {"safe", "refused"} : chip' = [chip EXCEPT ![ch] = s]
  /\ UNCHANGED phase

End ==
  /\ phase = "securing" /\ \A ch \in Channels : chip[ch] # "driven"
  /\ phase' = "ended"
  /\ UNCHANGED chip

Next == Secure \/ End \/ \E ch \in Channels : SecureChannel(ch)
Spec == Init /\ [][Next]_vars
=============================================================================
