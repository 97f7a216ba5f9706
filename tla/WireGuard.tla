----------------------------- MODULE WireGuard ------------------------------
(***************************************************************************)
(* The WireGuard interface in the kernel, as the commands issued by        *)
(* services/wireguard.py see it: the peers, the cryptokey routing table    *)
(* (each address or subnet is carried by at most one peer: giving it to a  *)
(* peer takes it from the one that had it) and the routes on the           *)
(* interface.                                                              *)
(***************************************************************************)
EXTENDS Database

CONSTANTS TunnelNet,    \* the tunnel network, routed by interface setup
          Nobody        \* an address carried by no peer

ASSUME WireGuardAssumption ==
  /\ TunnelNet \notin Subnets
  /\ Nobody \notin Devices

VARIABLES peers,        \* public keys configured on the interface
          carrier,      \* the peer whose allowed-ips hold each address or subnet
          routes        \* destinations routed through the interface

wgVars == <<peers, carrier, routes>>

Carried == Addresses \cup Subnets

WgTypeOK ==
  /\ peers \subseteq Devices
  /\ carrier \in [Carried -> Devices \cup {Nobody}]
  /\ routes \subseteq Subnets \cup {TunnelNet}

NoCarrier == [a \in Carried |-> Nobody]

\* Mutant: an address another peer carries stays with that peer.
AddPeer_FirstKeeps(k, ips) ==
  /\ peers' = peers \cup {k}
  /\ carrier' = [a \in Carried |-> IF a \in ips /\ carrier[a] = Nobody THEN k ELSE carrier[a]]
  /\ UNCHANGED routes

\* wg set <iface> peer <key> allowed-ips <ips>: adds the peer or replaces its list.
AddPeer(k, ips) ==
  /\ peers' = peers \cup {k}
  /\ carrier' = [a \in Carried |-> IF a \in ips THEN k
                                   ELSE IF carrier[a] = k THEN Nobody
                                   ELSE carrier[a]]
  /\ UNCHANGED routes

\* wg set <iface> peer <key> remove: no error when the peer is not there.
RemovePeer(k) ==
  /\ peers' = peers \ {k}
  /\ carrier' = [a \in Carried |-> IF carrier[a] = k THEN Nobody ELSE carrier[a]]
  /\ UNCHANGED routes

\* ip route add: "File exists" is not an error.
AddRoute(s) ==
  /\ routes' = routes \cup {s}
  /\ UNCHANGED <<peers, carrier>>

\* ip route del: a route that is not there is not an error.
RemoveRoute(s) ==
  /\ routes' = routes \ {s}
  /\ UNCHANGED <<peers, carrier>>

\* ensure_interface and configure_interface: the interface is up and its
\* addresses make the kernel route the tunnel network; peers are left alone.
ConfigureInterface ==
  /\ routes' = routes \cup {TunnelNet}
  /\ UNCHANGED <<peers, carrier>>

\* Mutants: the tunnel network is not protected; nothing is pruned.
RoutesToRemove_Unprotected(expected, actual) == actual \ expected
RoutesToRemove_Nothing(expected, actual)     == {}

\* What sync_routes decides from the subnets it expects and the routes it saw.
RoutesToAdd(expected, actual)    == expected \ actual
RoutesToRemove(expected, actual) == (actual \ expected) \ {TunnelNet}

=============================================================================
