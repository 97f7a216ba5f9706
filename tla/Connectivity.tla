---------------------------- MODULE Connectivity ----------------------------
(***************************************************************************)
(* The connectivity loop (tasks/connectivity.py): check the WAN, report a  *)
(* failure as a notification, then make the WireGuard interface what it    *)
(* should be (ensure_interface), for ever.  Beside it, others on the host  *)
(* strip addresses, take the link down or delete it, and the diagnostics   *)
(* page shows and clears the notifications (services/notifications.py),    *)
(* a queue in memory that drops its oldest entry when it is full.          *)
(*                                                                         *)
(* The commands of ensure_interface are awaited one by one, so the link    *)
(* may change between any two of them.  The loop's first delay (60 s)      *)
(* outlasts startup(), which therefore never runs beside it.               *)
(***************************************************************************)
EXTENDS Naturals, Sequences, SequencesExt

CONSTANTS Addresses,    \* the server's addresses, in the order they are set
          Pages,        \* diagnostics pages that are open
          MaxQueue,     \* MAX_NOTIFICATIONS
          MaxNotes,     \* bound: notifications ever added
          MaxDrift,     \* bound: times somebody else touches the interface
          MaxRestarts   \* bound: restarts of the process

ASSUME ConnectivityAssumption ==
  /\ Addresses \in Seq(Range(Addresses)) /\ Addresses # <<>>
  /\ MaxQueue \in Nat \ {0}
  /\ {MaxNotes, MaxDrift, MaxRestarts} \subseteq Nat

VARIABLES link,         \* does the interface exist?
          addresses,    \* the server's addresses that are on it
          isUp,
          configured,   \* has it the private key and the peers?
          loop,         \* where the loop is, and the addresses it has yet to set
          queue,        \* notifications, newest first; each known by its number
          added,        \* notifications added since the start
          shown,        \* what each page has rendered
          asked,        \* ghost: notifications somebody asked to clear
          lost,         \* ghost: the link was deleted since the start
          drift, restarts

linkVars == <<link, addresses, isUp, configured>>
noteVars == <<queue, added, asked>>
vars     == <<linkVars, loop, noteVars, shown, lost, drift, restarts>>

Notes == 1..MaxNotes

TypeOK ==
  /\ {link, isUp, configured, lost} \subseteq BOOLEAN
  /\ addresses \subseteq Range(Addresses)
  /\ loop.pc \in {"check", "show", "add", "replace", "up"}
  /\ IsSuffix(loop.todo, Addresses)
  /\ queue \in Seq(Notes) /\ Len(queue) <= MaxQueue
  /\ added \in 0..MaxNotes /\ asked \subseteq 1..added
  /\ \A p \in Pages : shown[p] \in Seq(Notes)
  /\ drift \in 0..MaxDrift /\ restarts \in 0..MaxRestarts

Sleep == [pc |-> "check", todo |-> <<>>]

\* startup() has just run: ensure_interface, configure_interface, reconcile.
Init ==
  /\ link = TRUE /\ addresses = Range(Addresses) /\ isUp = TRUE /\ configured = TRUE
  /\ loop = Sleep
  /\ queue = <<>> /\ added = 0 /\ asked = {}
  /\ shown = [p \in Pages |-> <<>>]
  /\ lost = FALSE /\ drift = 0 /\ restarts = 0

-----------------------------------------------------------------------------
(* Notifications *)

\* Mutant: the queue has no limit.
Push_Unbounded(q, n) == <<n>> \o q

\* appendleft on a deque of bounded length drops the entry at the right end.
Push(q, n) == SubSeq(<<n>> \o q, 1, IF Len(q) < MaxQueue THEN Len(q) + 1 ELSE MaxQueue)

Notify ==
  /\ added < MaxNotes
  /\ added' = added + 1
  /\ queue' = Push(queue, added')
  /\ UNCHANGED asked

\* Mutant: the entry now at the place where the page showed it goes.
Without_ByPlace(q, page, i) == IF i <= Len(q) THEN RemoveAt(q, i) ELSE q

\* clear(): the entry with the number the page showed, if it is still there (no
\* two entries have the same number).
Without(q, page, i) ==
  IF \E j \in DOMAIN q : q[j] = page[i]
  THEN RemoveAt(q, CHOOSE j \in DOMAIN q : q[j] = page[i])
  ELSE q

\* A button of the page; the page is then rendered anew.
Clear(p, i) ==
  /\ queue' = Without(queue, shown[p], i)
  /\ shown' = [shown EXCEPT ![p] = queue']
  /\ asked' = asked \cup {shown[p][i]}
  /\ UNCHANGED <<linkVars, loop, added, lost, drift, restarts>>

\* clear_all() takes also what was added after the page was rendered.
ClearAll(p) ==
  /\ shown[p] # <<>>
  /\ queue' = <<>>
  /\ shown' = [shown EXCEPT ![p] = <<>>]
  /\ asked' = asked \cup Range(queue)
  /\ UNCHANGED <<linkVars, loop, added, lost, drift, restarts>>

Render(p) ==
  /\ shown[p] # queue
  /\ shown' = [shown EXCEPT ![p] = queue]
  /\ UNCHANGED <<linkVars, loop, noteVars, lost, drift, restarts>>

\* The session expiry and the token refresh report failures too.
OtherTaskNotifies == Notify /\ UNCHANGED <<linkVars, loop, shown, lost, drift, restarts>>

-----------------------------------------------------------------------------
(* The loop *)

Go(pc, todo) == loop' = [pc |-> pc, todo |-> todo]

\* The check; whether the WAN answers, and whether the result can be stored, the
\* round goes on.
Check ==
  /\ loop.pc = "check"
  /\ UNCHANGED noteVars \/ Notify
  /\ Go("show", <<>>)
  /\ UNCHANGED <<linkVars, shown, lost, drift, restarts>>

\* Mutant: an interface that exists is left as it is.
ShowLink_CreateOnce ==
  /\ loop.pc = "show"
  /\ IF link THEN loop' = Sleep ELSE Go("add", <<>>)
  /\ UNCHANGED <<linkVars, noteVars, shown, lost, drift, restarts>>

\* Mutant: an interface that exists is made anew.
ShowLink_Anew ==
  /\ loop.pc = "show"
  /\ link' = TRUE /\ addresses' = {} /\ isUp' = FALSE /\ configured' = FALSE
  /\ Go("replace", Addresses)
  /\ UNCHANGED <<noteVars, shown, lost, drift, restarts>>

\* ip link show: an interface that exists gets its addresses again.
ShowLink ==
  /\ loop.pc = "show"
  /\ IF link THEN Go("replace", Addresses) ELSE Go("add", <<>>)
  /\ UNCHANGED <<linkVars, noteVars, shown, lost, drift, restarts>>

\* ip link add: a new interface has neither key nor peers; when somebody else has
\* added it meanwhile the command fails, and the round is over.
AddLink ==
  /\ loop.pc = "add"
  /\ \/ /\ ~link
        /\ link' = TRUE /\ addresses' = {} /\ isUp' = FALSE /\ configured' = FALSE
        /\ Go("replace", Addresses)
     \/ link /\ loop' = Sleep /\ UNCHANGED linkVars
  /\ UNCHANGED <<noteVars, shown, lost, drift, restarts>>

\* ip address replace, once per address.
ReplaceAddress ==
  /\ loop.pc = "replace"
  /\ \/ /\ link
        /\ addresses' = addresses \cup {Head(loop.todo)}
        /\ IF Len(loop.todo) = 1 THEN Go("up", <<>>) ELSE Go("replace", Tail(loop.todo))
     \/ ~link /\ loop' = Sleep /\ UNCHANGED addresses
  /\ UNCHANGED <<link, isUp, configured, noteVars, shown, lost, drift, restarts>>

\* ip link set up, and the round is over.
SetUp ==
  /\ loop.pc = "up"
  /\ isUp' = link
  /\ loop' = Sleep
  /\ UNCHANGED <<link, addresses, configured, noteVars, shown, lost, drift, restarts>>

Round == Check \/ ShowLink \/ AddLink \/ ReplaceAddress \/ SetUp

-----------------------------------------------------------------------------
(* Others on the host, and the container runtime *)

StripAddress(a) == a \in addresses /\ addresses' = addresses \ {a} /\ UNCHANGED <<link, isUp, configured, lost>>
TakeDown        == isUp /\ isUp' = FALSE /\ UNCHANGED <<link, addresses, configured, lost>>
DeleteLink      == /\ link
                   /\ link' = FALSE /\ addresses' = {} /\ isUp' = FALSE /\ configured' = FALSE
                   /\ lost' = TRUE
AddLinkByHand   == /\ ~link
                   /\ link' = TRUE
                   /\ UNCHANGED <<addresses, isUp, configured, lost>>

Drift ==
  /\ drift < MaxDrift /\ drift' = drift + 1
  /\ (\E a \in addresses : StripAddress(a)) \/ TakeDown \/ DeleteLink \/ AddLinkByHand
  /\ UNCHANGED <<loop, noteVars, shown, restarts>>

\* The process dies wherever the loop is, and startup() configures everything.
Restart ==
  /\ restarts < MaxRestarts /\ restarts' = restarts + 1
  /\ link' = TRUE /\ addresses' = Range(Addresses) /\ isUp' = TRUE /\ configured' = TRUE
  /\ loop' = Sleep
  /\ queue' = <<>> /\ added' = 0 /\ asked' = {}
  /\ shown' = [p \in Pages |-> <<>>]
  /\ lost' = FALSE
  /\ UNCHANGED drift

Next ==
  \/ Round
  \/ \E p \in Pages : \/ Render(p) \/ ClearAll(p)
                      \/ \E i \in DOMAIN shown[p] : Clear(p, i)
  \/ OtherTaskNotifies
  \/ Drift
  \/ Restart

Spec == Init /\ [][Next]_vars

\* The loop never ends (connectivity_loop); nobody else has to do anything.
FairSpec == Spec /\ WF_vars(Round)

-----------------------------------------------------------------------------

Converged == link /\ isUp /\ addresses = Range(Addresses)

\* "externally-caused drift self-heals within one interval": whatever somebody
\* does to the interface, in the middle of a round or between two, and whether
\* or not the WAN answers, the interface is there, up and with its addresses
\* again (connectivity_loop, ensure_interface).
DriftHeals == ~Converged ~> Converged

\* The loop itself never costs the tunnel its private key or its peers: as long
\* as nobody deletes the link, the key and the peers set at startup stay, however
\* the link was found by ip link show (ensure_interface).
KeyAndPeersStay == configured \/ lost

\* A notification that nobody asked to clear is gone only when MAX_NOTIFICATIONS
\* newer ones were added, also when a page clears what it rendered some time ago
\* (notifications.add, notifications.clear, diagnostics_page).
OnlyOldAreDropped ==
  \A n \in (1..added) \ asked : n \in Range(queue) \/ added - n >= MaxQueue

\* "instead of persisting until the next restart": a tunnel whose link was
\* deleted works again without a restart (connectivity_loop).
TunnelHeals == ~(Converged /\ configured) ~> (Converged /\ configured)

=============================================================================
