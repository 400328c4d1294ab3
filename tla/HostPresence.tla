---------------------------- MODULE HostPresence ----------------------------
(***************************************************************************)
(* What the connection manager promises about hosts, without generations,  *)
(* tasks or closures: a host is announced when its first session arrives   *)
(* and withdrawn in the very step in which its last one departs            *)
(* (HostConnected and HostDisconnected in                                  *)
(* crates/remote_server/src/manager.rs, RemoteServerManagerEvent).  One    *)
(* way to leave goes unnoticed: a session that begins a new connection     *)
(* over its old one is still counted for the old host.                     *)
(***************************************************************************)
CONSTANTS Session, Host

VARIABLES
    members,    \* sessions connected to each host
    counted,    \* sessions each host is kept announced for
    announced   \* hosts that downstream models are kept for

presenceVars == <<members, counted, announced>>

PresenceInit ==
    /\ members = [h \in Host |-> {}]
    /\ counted = [h \in Host |-> {}]
    /\ announced = [h \in Host |-> FALSE]

Arrive(s, h) ==
    /\ \A k \in Host : s \notin members[k]
    /\ members' = [members EXCEPT ![h] = @ \cup {s}]
    /\ counted' = [counted EXCEPT ![h] = @ \cup {s}]
    /\ announced' = [announced EXCEPT ![h] = TRUE]

Depart(s, h) ==
    /\ s \in members[h]
    /\ members' = [members EXCEPT ![h] = @ \ {s}]
    /\ counted' = [counted EXCEPT ![h] = @ \ {s}]
    /\ announced' = [announced EXCEPT ![h] = counted[h] # {s}]

SlipAway(s, h) ==
    /\ s \in members[h]
    /\ members' = [members EXCEPT ![h] = @ \ {s}]
    /\ UNCHANGED <<counted, announced>>

PresenceNext ==
    \E s \in Session, h \in Host : Arrive(s, h) \/ Depart(s, h) \/ SlipAway(s, h)

PresenceSpec == PresenceInit /\ [][PresenceNext]_presenceVars
=============================================================================
