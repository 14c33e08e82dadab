-------------------------- MODULE RendererDirectory --------------------------
(***************************************************************************)
(* What discovery promises to the clients of the manager object            *)
(* (GetServers, FoundRenderer, LostRenderer in                             *)
(* src/libdleyna/renderer/server.c), whatever the networks do:             *)
(*                                                                         *)
(*   - a renderer is announced once, and only while it can be reached;     *)
(*   - it is withdrawn in the very step that takes its last address away,  *)
(*     and never while one is left.                                        *)
(***************************************************************************)
CONSTANTS Udn, Ip

VARIABLES
    reachable,   \* [Udn -> SUBSET Ip]: the addresses a renderer is seen at
    listed       \* SUBSET Udn: what GetServers returns

Init ==
    /\ reachable = [u \in Udn |-> {}]
    /\ listed = {}

\* The renderer is seen at an address, known or new.
Appear(u, ip) ==
    /\ reachable' = [reachable EXCEPT ![u] = @ \cup {ip}]
    /\ UNCHANGED listed

\* An address goes; with the last one goes the renderer (LostRenderer).
Disappear(u, ip) ==
    /\ reachable' = [reachable EXCEPT ![u] = @ \ {ip}]
    /\ listed' = IF reachable'[u] = {} THEN listed \ {u} ELSE listed

\* FoundRenderer.
Announce(u) ==
    /\ u \notin listed
    /\ reachable[u] # {}
    /\ listed' = listed \cup {u}
    /\ UNCHANGED reachable

Next ==
    \E u \in Udn :
        \/ Announce(u)
        \/ \E ip \in Ip : Appear(u, ip) \/ Disappear(u, ip)

Spec == Init /\ [][Next]_<<reachable, listed>>
=============================================================================
