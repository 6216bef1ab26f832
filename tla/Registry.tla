------------------------------ MODULE Registry ------------------------------
(* What the registration of servers in etcd amounts to for who looks them   *)
(* up: a server's key is there for at most one stretch of time.  Nothing    *)
(* registers a server again whose lease has gone.                           *)
CONSTANT Servers

VARIABLE entry     \* per server: "absent", "present" or "gone"

Init == entry = [s \in Servers |-> "absent"]

Appears(s) == entry[s] = "absent" /\ entry' = [entry EXCEPT ![s] = "present"]
Disappears(s) == entry[s] # "gone" /\ entry' = [entry EXCEPT ![s] = "gone"]

Next == \E s \in Servers : Appears(s) \/ Disappears(s)

Spec == Init /\ [][Next]_entry
=============================================================================
