----------------------------- MODULE VpnSession -----------------------------
(***************************************************************************)
(* The background task that ends VPN sessions (tasks/vpn_session.py),      *)
(* beside the sign-ins of SignIn that renew them, the handlers that        *)
(* connect and remove devices, and restarts, whose reconciliation makes    *)
(* every device a peer again.                                              *)
(*                                                                         *)
(* A pass reads the users once, and then, user by user, the devices of     *)
(* those whose session was over; it removes their peers one at a time.     *)
(* What a handler does to one device is a single step here: EventBridge    *)
(* has its parts.                                                          *)
(***************************************************************************)
EXTENDS SignIn, Naturals

CONSTANTS Devices,
          Owner,         \* the user of each device
          MaxFaults,     \* bound: commands that fail
          MaxRestarts    \* bound: times the process dies

ASSUME VpnSessionAssumption ==
  /\ Owner \in [Devices -> Users]
  /\ MaxFaults \in Nat /\ MaxRestarts \in Nat

VARIABLES limited,     \* the configuration limits sessions (vpn_session_duration > 0)
          devices,     \* the devices table
          peers,       \* devices that are peers of the interface
          due,         \* users of this pass whose devices are yet to be read
          rows,        \* devices of this pass whose peers are yet to be removed
          lapsed,      \* ghost: users whose session was over at some time since the last start
          faults, restarts

vpnVars == <<limited, devices, peers, due, rows, lapsed, faults, restarts>>
allVars == <<signInVars, vpnVars>>

TypeOK ==
  /\ SignInTypeOK
  /\ limited \in BOOLEAN
  /\ devices \subseteq Devices /\ peers \subseteq Devices
  /\ due \subseteq Users /\ rows \subseteq Devices
  /\ lapsed \subseteq Users
  /\ faults \in 0..MaxFaults
  /\ restarts \in 0..MaxRestarts

Init ==
  /\ SignInInit
  /\ limited \in BOOLEAN
  /\ devices = {} /\ peers = {} /\ due = {} /\ rows = {} /\ lapsed = {}
  /\ faults = 0 /\ restarts = 0

Expired(u) == status[u] = "active" /\ session[u] = "over"

-----------------------------------------------------------------------------
(* _expire_sessions *)

\* Mutant: the sign-in times are not compared with the duration.
StartPass_AllSignedIn ==
  /\ due = {} /\ rows = {}
  /\ limited
  /\ due' = {u \in Users : status[u] = "active" /\ session[u] # "never"}
  /\ UNCHANGED <<signInVars, limited, devices, peers, rows, lapsed, faults, restarts>>

\* The configuration and the users are read.
StartPass ==
  /\ due = {} /\ rows = {}
  /\ limited
  /\ due' = {u \in Users : Expired(u)}
  /\ UNCHANGED <<signInVars, limited, devices, peers, rows, lapsed, faults, restarts>>

\* The devices of one of them are read.
ReadDevices ==
  /\ rows = {}
  /\ \E u \in due :
       /\ due' = due \ {u}
       /\ rows' = {d \in devices : Owner[d] = u}
  /\ UNCHANGED <<signInVars, limited, devices, peers, lapsed, faults, restarts>>

\* Mutant: the pass leaves a user after the first device.
RemoveExpired_FirstOnly ==
  /\ \E d \in rows :
       /\ rows' = {}
       /\ \/ peers' = peers \ {d} /\ UNCHANGED faults
          \/ faults < MaxFaults /\ faults' = faults + 1 /\ UNCHANGED peers
  /\ UNCHANGED <<signInVars, limited, devices, due, lapsed, restarts>>

\* remove_peer; a failure is logged and the pass goes on.
RemoveExpired ==
  /\ \E d \in rows :
       /\ rows' = rows \ {d}
       /\ \/ peers' = peers \ {d} /\ UNCHANGED faults
          \/ faults < MaxFaults /\ faults' = faults + 1 /\ UNCHANGED peers
  /\ UNCHANGED <<signInVars, limited, devices, due, lapsed, restarts>>

Pass == StartPass \/ ReadDevices \/ RemoveExpired

-----------------------------------------------------------------------------
(* The rest of the system *)

\* The duration passes after the last sign-in.
SessionEnds ==
  /\ limited
  /\ \E u \in Users :
       /\ session[u] = "valid"
       /\ session' = [session EXCEPT ![u] = "over"]
       /\ lapsed' = lapsed \cup {u}
  /\ UNCHANGED <<status, mfa, links, storage, tabs,
                 limited, devices, peers, due, rows, faults, restarts>>

\* The settings page limits sessions, or no longer does.
SaveDuration ==
  /\ limited' = ~limited
  /\ UNCHANGED <<signInVars, devices, peers, due, rows, lapsed, faults, restarts>>

\* create_device with on_device_created.
ConnectDevice ==
  /\ \E d \in Devices \ devices :
       /\ Exists(Owner[d])
       /\ devices' = devices \cup {d}
       /\ peers' = peers \cup {d}
  /\ UNCHANGED <<signInVars, limited, due, rows, lapsed, faults, restarts>>

\* delete_device with on_device_deleted.
RemoveDevice ==
  /\ \E d \in devices : devices' = devices \ {d} /\ peers' = peers \ {d}
  /\ UNCHANGED <<signInVars, limited, due, rows, lapsed, faults, restarts>>

\* delete_user_and_cleanup.
RemoveUser ==
  /\ \E u \in Users :
       /\ DeleteUser(u)
       /\ devices' = {d \in devices : Owner[d] # u}
       /\ peers' = {d \in peers : Owner[d] # u}
  /\ UNCHANGED <<limited, due, rows, lapsed, faults, restarts>>

\* The process dies and starts again: its handlers are gone, browsers keep their
\* storage, and the devices of expired users are peers until the next pass.
Restart ==
  /\ restarts < MaxRestarts
  /\ restarts' = restarts + 1
  /\ tabs' = [t \in Tabs |-> Blank]
  /\ peers' = devices
  /\ due' = {} /\ rows' = {}
  /\ lapsed' = {u \in Users : session[u] = "over"}
  /\ UNCHANGED <<accountVars, storage, limited, devices, faults>>

Next ==
  \/ Pass
  \/ SessionEnds \/ SaveDuration
  \/ ConnectDevice \/ RemoveDevice \/ RemoveUser
  \/ Restart
  \/ (\E t \in Tabs : TabStep(t)) /\ UNCHANGED vpnVars
  \/ AccountStep /\ UNCHANGED vpnVars

\* The task is started with the application and loops for ever.
Spec == Init /\ [][Next]_allVars /\ WF_allVars(Pass)

-----------------------------------------------------------------------------
(* Properties *)

\* The expiry disconnects nobody else: a device is a peer as long as its user's
\* session has not been over since the last start, whatever a pass read before
\* the user signed in or the device came (_expire_sessions).
UnexpiredStayConnected == \A d \in devices : Owner[d] \notin lapsed => d \in peers

\* A device of a user whose session is over is disconnected, unless the user
\* signs in again, is disabled or the limit is lifted (vpn_session_loop).
ExpiredAreDisconnected ==
  \A d \in Devices :
    (limited /\ Expired(Owner[d]) /\ d \in devices \cap peers)
      ~> (d \notin peers \/ ~limited \/ ~Expired(Owner[d]))

=============================================================================
