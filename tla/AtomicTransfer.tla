---------------------------- MODULE AtomicTransfer ----------------------------
(***************************************************************************)
(* What the bridge promises for each transfer, without agent, pools,       *)
(* events or clocks: the sender's amount is locked on the origin; the      *)
(* agent's amount is locked on the destination; the agent takes the        *)
(* sender's amount only when its own is locked, and only then does the     *)
(* receiver get the agent's; a transfer given up is refunded and never     *)
(* delivered.                                                              *)
(***************************************************************************)
CONSTANT Tx
VARIABLES
    origin, \* none, locked, taken (by the agent), returnable, returned
    dest    \* none, locked, delivered

Init == /\ origin = [t \in Tx |-> "none"]
        /\ dest = [t \in Tx |-> "none"]

Lock(t) == /\ origin[t] = "none"
           /\ origin' = [origin EXCEPT ![t] = "locked"]
           /\ UNCHANGED dest

LockDest(t) == /\ origin[t] # "none" /\ dest[t] = "none"
               /\ dest' = [dest EXCEPT ![t] = "locked"]
               /\ UNCHANGED origin

Take(t) == /\ origin[t] = "locked" /\ dest[t] = "locked"
           /\ origin' = [origin EXCEPT ![t] = "taken"]
           /\ UNCHANGED dest

GiveUp(t) == /\ origin[t] = "locked"
             /\ origin' = [origin EXCEPT ![t] = "returnable"]
             /\ UNCHANGED dest

Return(t) == /\ origin[t] = "returnable"
             /\ origin' = [origin EXCEPT ![t] = "returned"]
             /\ UNCHANGED dest

Deliver(t) == /\ origin[t] = "taken" /\ dest[t] = "locked"
              /\ dest' = [dest EXCEPT ![t] = "delivered"]
              /\ UNCHANGED origin

Next == \E t \in Tx : Lock(t) \/ LockDest(t) \/ Take(t) \/ GiveUp(t) \/ Return(t) \/ Deliver(t)

Spec == Init /\ [][Next]_<<origin, dest>>
=============================================================================
