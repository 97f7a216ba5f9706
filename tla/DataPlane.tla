----------------------------- MODULE DataPlane ------------------------------
(***************************************************************************)
(* What the data plane promises of a device's public key, whatever         *)
(* handlers, reconciliation and crashes it takes to keep the promise: a    *)
(* key is registered once and retired for good; only a registered key is   *)
(* connected, unless requests for it overlapped; and only a retired key is *)
(* disconnected, unless the interface is lost.                             *)
(***************************************************************************)
EXTENDS FiniteSets

CONSTANTS Keys          \* public keys

VARIABLES registered,   \* keys of the devices that exist
          retired,      \* keys that will never be a device's (again)
          connected,    \* keys configured as WireGuard peers
          excused       \* keys for which requests have overlapped since the last start

planeVars == <<registered, retired, connected, excused>>

Init == registered = {} /\ retired = {} /\ connected = {} /\ excused = {}

\* A device is created with a key nobody has used.
Register(k) ==
  /\ k \notin registered \cup retired
  /\ registered' = registered \cup {k}
  /\ UNCHANGED <<retired, connected, excused>>

\* Devices are deleted; or a key is generated and its device never created.
Retire(K) ==
  /\ K \cap retired = {}
  /\ registered' = registered \ K
  /\ retired' = retired \cup K
  /\ UNCHANGED <<connected, excused>>

Overlap(K) ==
  /\ excused' = excused \cup K
  /\ UNCHANGED <<registered, retired, connected>>

Connect(k) ==
  /\ k \in registered \cup excused
  /\ connected' = connected \cup {k}
  /\ UNCHANGED <<registered, retired, excused>>

Disconnect(k) ==
  /\ k \in retired
  /\ connected' = connected \ {k}
  /\ UNCHANGED <<registered, retired, excused>>

\* The process dies, with the requests under way and maybe with the interface.
Die(K) ==
  /\ K \cap (registered \cup retired) = {}
  /\ retired' = retired \cup K
  /\ connected' \in {connected, {}}
  /\ UNCHANGED <<registered, excused>>

Start == excused' = {} /\ UNCHANGED <<registered, retired, connected>>

Next ==
  \/ \E k \in Keys : Register(k) \/ Connect(k) \/ Disconnect(k)
  \/ \E K \in SUBSET Keys : Retire(K) \/ Overlap(K) \/ Die(K)
  \/ Start

Spec == Init /\ [][Next]_planeVars

=============================================================================
