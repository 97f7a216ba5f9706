# WireGUI: TLA+ specification and proofs

WireGUI is a self-hosted WireGuard portal: a Python web application (NiceGUI
and FastAPI on one asyncio event loop) that keeps users, devices and firewall rules in
PostgreSQL and drives the kernel's WireGuard interface, routing table and
nftables through the `wg`, `ip` and `nft` commands.

The database says what the data plane *should* be, the kernel holds what it
*is*, and every operation changes the first and then the second in several
steps, with an await between any two. This project specifies how the second follows
the first: which overlaps, failures, crashes and restarts it survives, and which
it does not. A second model covers the part of the program that keeps state in memory and at
third parties: OpenID Connect sign-in, its provider registry and the refresh of its tokens. A third covers
the other ways to sign in, the second factor, and the VPN sessions that a sign-in starts and time ends. Three smaller ones
cover what several writers do to one device row (address allocation, edits, traffic statistics), the loop that keeps the
WireGuard interface and the notifications in shape, and the accounts, their roles and API tokens.

All paths below are relative to the repository, whose files are under `src/`.

1. [The system](#1-the-system)
2. [Plan](#2-plan)
3. [The modules and the code](#3-the-modules-and-the-code)
4. [What is checked](#4-what-is-checked)
5. [Where code and comments disagree](#5-where-code-and-comments-disagree)
6. [What is proved](#6-what-is-proved)
7. [What is not modelled](#7-what-is-not-modelled)
8. [Running it](#8-running-it)

## 1. The system

### Components

| Component | State | Operations | Hard part | What makes it correct | Modelled |
|---|---|---|---|---|---|
| Event bridge (`services/events.py`) | none of its own; reads the database, drives the kernel | `on_device_created/updated/deleted`, `on_rule_*`, `_rebuild_user_chain` | handlers overlap at every await, act on what they read earlier, catch every failure and go on | peers, routes and chains end up as the database has them | yes |
| WireGuard and routes (`services/wireguard.py`) | kernel: peers, allowed-ips, routes | `add_peer`, `remove_peer`, `get_peers`, `sync_routes`, `ensure_interface`, `configure_interface` | allowed-ips move silently between peers; `sync_routes` applies a stale difference | an address is carried by its device; tunnel networks stay routed | yes |
| Firewall (`services/firewall.py`) | kernel: `wiregui` nftables table | `add_user_chain`, `add_device_jump_rule`, `rebuild_all_rules`, base tables, masquerade, peer-to-peer and LAN toggles | a batch is atomic, what it is computed from is not; one rebuild takes other users' chains for orphans | each device's traffic meets exactly its user's rules, in order | partly |
| Startup (`main.py`, `tasks/reconcile.py`) | none | `startup`, `reconcile` | reads the kernel, then the database; requests may be served meanwhile; the crash it repairs may have happened anywhere | afterwards kernel and database agree | yes |
| User deletion (`services/users.py`) | users table | `delete_user_and_cleanup` | the cascade deletes the rows whose keys are still needed | no peer outlives its user | yes |
| Device operations (`api/v0/devices.py`, `pages/devices.py`, `pages/admin/devices.py`) | devices table | create, edit, delete | the pages run `on_device_created` in a task that starts long after the commit | as for the event bridge | yes |
| Rule operations (`api/v0/rules.py`, `pages/admin/rules.py`, `utils/ordering.py`) | rules table | create, edit, delete, reorder | two ways to change a rule, one of which fires no event; priorities drawn from a stale maximum | the chain follows the table | yes |
| IP allocation (`utils/network.py`) | none | `allocate_ipv4`, `allocate_ipv6` | allocation and commit are apart; exhaustion test counts foreign addresses | a free address of the network, never two devices with one | yes |
| VPN sessions (`tasks/vpn_session.py`) | none (`last_signed_in_at` in users) | periodic expiry | removes peers from what it read, beside handlers that add them | expired users have no peers, others keep theirs | yes |
| Statistics (`tasks/stats.py`, `collector.py`) | device counters | periodic read of `wg show dump`, in a task or a process of its own | one commit for all devices, rows deleted meanwhile | what the kernel counts for a peer is recorded in the end unless the count starts again, and no edit is undone | yes |
| OIDC registry and sign-in (`auth/oidc.py`, `pages/auth_oidc.py`) | `_registered`, authlib's registry and client cache; connections table | `register_provider`, `unregister_provider`, `get_client`, redirect, callback | three dictionaries that must agree with a row edited at run time; find-or-insert without a constraint | a sign-in uses the provider's present settings; one connection per user and provider | partly |
| OIDC refresh (`tasks/oidc_refresh.py`) | connections table | periodic refresh | its answer may overwrite a newer token, or be lost after the provider used up the old one | the stored refresh token is one the provider still accepts | yes |
| SAML (`auth/saml.py`, `pages/auth_saml.py`) | none | login, ACS | the protocol is in a library | only asserted users sign in | partly |
| Password, MFA, magic link (`pages/login.py`, `pages/mfa_challenge.py`, `pages/auth_magic.py`, `auth/*`) | browser session, MFA methods, tokens | sign-in in two pages | the account changes between the pages, tabs share the storage | no session without every factor, none for a disabled account | partly |
| Accounts (`pages/account.py`, `pages/admin/users.py`) | users table | edit, disable, delete | "only administrator" is decided when the page is built | one administrator always remains | partly |
| Configuration (`auth/seed.py`, `pages/admin/settings.py`, `api/v0/configuration.py`) | singleton row | seed, save | read, change and write are apart, and the provider list is one column | no setting is lost, one row exists | partly (the OIDC providers, the session duration, the first administrator) |
| Notifications (`services/notifications.py`) | deque of 100 | `add`, `clear`, `clear_all` | drops the oldest when full | nothing goes unasked but the oldest of a full queue | yes |
| Connectivity and interface (`tasks/connectivity.py`) | checks table, interface addresses | periodic check, `ensure_interface` | runs beside the handlers | a drifted interface converges, and keeps its key and peers | yes |
| Task registry (`tasks/__init__.py`) | `_tasks` | `register_task`, `cancel_all` | cancellation at an await | everything stops | no (section 7) |
| API tokens (`auth/api_token.py`, `api/deps.py`) | tokens table | create, resolve, delete | expiry during a call | only live tokens of live users | yes |
| Client configuration (`utils/wg_conf.py`) | none | `build_client_config` | precedence of device over site defaults | a pure function | no (section 7) |
| Presentation, e-mail, logging, schemas | none | | | | no |

### How they interact

```
 pages / REST API ──commit──▶ PostgreSQL ◀──read── reconcile (startup)
        │                         ▲                      │
        └──await / create_task──▶ event bridge           │
                                  │   │                  │
                     services.wireguard  services.firewall
                                  │   │
                             wg, ip   nft   (kernel)
```

One process, one event loop. A handler runs alone until it awaits a database
statement or a command; there are no locks. The pages commit, show the client's configuration
and then start `on_device_created` with `asyncio.create_task`; the REST API
awaits the bridge before it answers, but other requests run meanwhile. The
bridge catches every exception and logs it, so a failed command leaves the
kernel behind the database without anybody being told. Startup
(`startup()` in `main.py`) is the only repair. The container runtime starts a
dead process again (`compose.prod.yml:4`, `restart: unless-stopped`); depending on what died,
the kernel's state is kept or gone with the network namespace.

```
 settings page ──save/delete──▶ configuration row ◀──seed── startup ◀── file
      │                               │ read at every get_client
      └──unregister_provider──▶ registry (in memory) ◀──register── redirect, callback
                                                                      │
 refresh task ──tokens──▶ identity provider ◀──code for tokens────────┤
      └─────────────────▶ oidc_connections ◀──find or insert──────────┘
```

```
 tabs of a browser ──▶ storage: pending sign-in, signed-in user ──▶ pages
        │  password, code, link, SAML
        └──last_signed_in_at──▶ users ◀──read── expiry task ──remove_peer──▶ kernel
 account page, administrators ──▶ users, mfa_methods
```

Sign-ins, the settings page and the refresh task share the same loop; they meet in the
registry, in the database, and at the provider, which may replace a refresh token when it is used.

Beside the requests run loops that nobody waits for, each started by `startup()`: the statistics every minute (or a collector,
a process of its own, `main.py:93`), the VPN expiry, the token refresh, and the connectivity loop, whose round ends with `ensure_interface`.

```
 WireGuard ──dump──▶ statistics ──commit──▶ devices ◀──commit── pages and API (create, edit, delete)
 WAN ──check──▶ connectivity loop ──▶ ensure_interface ──▶ interface ◀── others on the host
                       └──────▶ notifications ◀── expiry, refresh;  diagnostics pages show and clear
```

The full list of what can go wrong, each at its line, is in `PROJECT.json`
under `hazards`.

## 2. Plan

In order of what matters most to an operator: who has access to the network.

1. **Done.** `Database`, `WireGuard`, `Nftables` (state and primitive effects),
   `EventBridge` (every operation and handler, composed of the three), `WireGUI`
   (startup, crash, restart, composed of `EventBridge`), `MCWireGUI`; proofs in
   `WireGUITypes`, `WireGUIPeers`.
2. **Done.** `OidcProviders` (provider list, registry, settings page, seeding), `OidcSignIn`
   (sign-in, connections, refresh, users, crash), `MCOidc`; proofs in `OidcProofs`.
3. **Done.** `SignIn` (password, second factor, magic link, SAML, changes to accounts), `VpnSession`
   (expiry, devices, restart, composed with `SignIn`), `MCVpnSession`; proofs in `VpnSessionProofs`.
4. **Done.** `WireGUIOrphans`: the theorem that no peer outlives its device (`NoOrphanPeers`), the counterpart of `LivePeers`, and
   `AddressesAreCarried` (`OwnAddressCarried`).
5. **Done.** `DataPlane`, an abstract specification of what happens to a key: registered, connected, retired, disconnected.
   `WireGUI` is model-checked and proved to implement it.
6. **Done.** `DeviceRecords` (allocation of addresses, edits and statistics: three writers of one row), `MCDeviceRecords`;
   proofs in `DeviceRecordsProofs`.
7. **Done.** `Connectivity` (the loop with `ensure_interface` command by command, drift, notifications), `MCConnectivity`;
   proofs in `ConnectivityProofs`.
8. **Done.** `Accounts` (roles, the last administrator, API tokens, the seeded administrator), `MCAccounts`.
9. **Done.** `WireGUIReconcile`: the theorems of what startup leaves behind (`StartupReconciles`), of routes when operations come one at a
   time (`RoutesFollowDatabase`), and of chains and jumps under any overlap (`PolicyFollowsDatabase`, `JumpsLeadToChains`).

With these, every invariant and action property that a passing run checks is also a theorem. Left:

- `Accounts` has no theorem: its one property is the subject of a violation run (section 5).
- The order of the jumps. A property of which jump a source meets first needs a sequence in place of the set `forward`, and does not hold of a freed
  address before the next rebuild (section 5).
- Requests served before or after a startup that failed: `PolicyFollowsDatabase` and `StartupReconciles` take it that requests wait for startup.

Not worth a module: the two policy toggles, since nothing jumps to the chains they fill (section 5); the order of a drag on a stale rules
page, since `ReorderRules` already gives the rules any order; `build_client_config`, which would be its own reference.

## 3. The modules and the code

| Module | Extends | Models |
|---|---|---|
| `Database` | | users, devices and rules tables, one operator per committed statement: unique tunnel address, foreign key to the owner, `ON DELETE CASCADE` |
| `WireGuard` | `Database` | peers, cryptokey routing, routes; `services/wireguard.py` commands and the decision of `sync_routes` |
| `Nftables` | `Database` | user chains, their content, jumps; `services/firewall.py` batches |
| `EventBridge` | `WireGuard`, `Nftables` | operations of pages and API, `services/events.py`, `services/users.py` |
| `WireGUI` | `EventBridge` | `startup()`, `reconcile()`, crash and restart; the specification and all properties |
| `MCWireGUI` | `WireGUI` | instances for TLC |
| `WireGUITypes` | `WireGUI` | proof: type correctness, control invariants, tunnel route |
| `WireGUIPeers` | `WireGUITypes` | proof: live devices have peers |
| `DataPlane` | | abstract specification: what the data plane promises of a public key; instantiated by `WireGUI` as `Plane` |
| `WireGUIOrphans` | `WireGUIPeers` | proof: peers without a device go, addresses, and `WireGUI` implements `DataPlane` |
| `WireGUIReconcile` | `WireGUIOrphans` | proof: what startup rebuilds; routes when operations come one at a time; chains and jumps whatever overlaps |
| `OidcProviders` | | provider list of the configuration row, settings page, seeding, `auth/oidc.py` |
| `OidcSignIn` | `OidcProviders` | `pages/auth_oidc.py`, `tasks/oidc_refresh.py`, users and connections; the specification and its properties |
| `MCOidc` | `OidcSignIn` | an instance for TLC |
| `OidcProofs` | `OidcSignIn` | proof: type correctness, registry, connections, refresh tokens |
| `SignIn` | | `pages/login.py`, `mfa_challenge.py`, `auth_magic.py`, `auth_saml.py`; methods and state of the accounts |
| `VpnSession` | `SignIn` | `tasks/vpn_session.py`, devices and their peers, restart; the specification and its properties |
| `MCVpnSession` | `VpnSession` | an instance for TLC |
| `VpnSessionProofs` | `VpnSession` | proof: second factor, expiry |
| `DeviceRecords` | | `utils/network.py`, the INSERT and the edits of a device, `tasks/stats.py`, `collector.py`; the specification and its properties |
| `MCDeviceRecords` | `DeviceRecords` | an instance for TLC |
| `DeviceRecordsProofs` | `DeviceRecords` | proof: type correctness, unique addresses, no lost column, refusal only when the pool is full |
| `Connectivity` | | `tasks/connectivity.py`, `ensure_interface`, `services/notifications.py`, the diagnostics page; the specification and its properties |
| `MCConnectivity` | `Connectivity` | an instance for TLC |
| `ConnectivityProofs` | `Connectivity` | proof: type correctness, the loop keeps key and peers, which notifications are lost |
| `Accounts` | | `pages/account.py`, `pages/admin/users.py`, `api/v0/users.py`, `auth/api_token.py`, `seed_admin`; the specification and its property |
| `MCAccounts` | `Accounts` | an instance for TLC |

**Tasks.** `task[t]` is the local state of one coroutine: where it is (`pc`), which
operation it serves, and the values it read and still uses (`row`, `queue`,
`want`, `entries`, `bodies`, ...). One action is what a coroutine does up to and
including one awaited effect. A value is read in one action and used in a later
one exactly where the code has an await in between: `sync_routes` gets
`expected_subnets` (`relay_subnets`), then lists the routes (`interface_routes`),
then runs one command per difference (`routes`); `_rebuild_user_chain` reads
the rules, the devices and the chains in three actions and writes in a fourth.

**Operations.** `StartCreate`, `Insert`, `Refresh`, then `AddPeerStep`,
`RouteAdd`, `AddUserChainStep`, `AddJumpsStep` are device creation; `AbandonCreate` is
a page that fails between its commit and `create_task`. `StartUpdate`, `Save`,
`Refresh`, `AddPeerStep`, route synchronisation and rebuild are an edit.
`StartDelete`, `DeleteRow`, `RemovePeerStep`, route synchronisation are a deletion;
`StartDeleteUser`, `Cascade` and the queue of `NextDevice` that of a user.
`CreateRule`, `UpdateRuleFromPage`, `UpdateRuleFromApi`, `DeleteRuleRow`,
`ReorderRules` and `RefreshRule` lead to `ReadRules`, `ReadDevices`, `ListChains`,
`NftBatch`. Page and API may both give a rule another owner, of which the former one is not told. `ReorderRules` commits the new
priorities and then looks at the page's filter again, as `_persist_order` does after its awaits: by then the filter may name another user, even
one deleted since the page was loaded, who gets the event instead (`TellOwner`), or nobody, and then there is none. Startup is the task `Boot`: `GetPeers`, `ReadAllDevices`,
`ReadAllRules`, `AddMissingPeer`, `RemoveOrphanPeer`, then the shared rebuild
and route synchronisation.

**Failures.** Every command may fail, at most `MaxFaults` times. The commands before `reconcile()` (interface, key, base tables) end
`startup()` when they fail (`StartupFails`): the process ends and is started again, or it goes on and serves requests with whatever earlier runs
left (`phase` "unready"), which `MCPeers` explores. Three ghosts say what is not promised; no guard reads them. `faulted`
remembers the keys, subnets and users whose last command failed, and `contended` the
keys that two operations met on since the last start. `lagging` remembers the users whose chain or jumps the code left behind, until a rebuild of
theirs begins that no older one can overtake. There are four ways: a change that tells nobody, or the wrong user (`Changes`); a change made after a rebuild
under way has read (`HasReadFor`); another user's rebuild (`Dropped`); and a batch refused because a chain it deletes is gone (`NftBatch`).

**Startup and requests.** `app.on_startup(startup)` hands the coroutine to
NiceGUI, and whether requests are served before it is finished is the
framework's choice. `ServeWhileStarting` is TRUE where a property must hold either
way (`MCPeers`, and the theorems unless section 6 says otherwise) and FALSE where a property is about the end of
a startup that nothing disturbed. With FALSE, a startup that fails is followed by another one.

**Abstractions.**
- The IPv4 and IPv6 address of a device are allocated together and never change:
  one address stands for both. A tunnel address is any free one.
- Relay subnets are disjoint values; a subnet inside another is left out.
- Jumps are a set, without order and duplicates. The order decides where one source has jumps to two chains, which happens when a freed address is given
  to a device of another user before a rebuild has dropped the old jump (section 5); `PolicyFollowsDatabase` says that the right jump is there, not that
  it comes first. Chains are named by user, not by the first 12 digits of the UUID.
- `sync_routes` lists the routes with two commands, IPv4 and IPv6, which may fail apart. They are one step, `InterfaceRoutes`, which may miss any part of the
  routes; the await between the two listings is left out.
- A rule's fields other than owner, priority and place of insertion are one value, `Exprs`.
- Places of a chain are a function of `Place`, the number of rules before a rule in
  the order (priority, age), instead of a sort; this is what `ORDER BY priority, inserted_at`
  and the stable sort of `rebuild_all_rules` compute, and the provers can expand it.
- Reading a rule and committing its edit is one action: what the page or the
  call writes does not depend on what it read.
- The database is always available; `wg_enabled` is true; VPN expiry is off (its
  default); no user is created after the start, since a new user has no device and no rule.

**OIDC.** A sign-in (`sign[b]`) is one browser's redirect and callback: `StartSignIn` and
`Callback` read the row, `RedirectClient` and `CallbackClient` are the rest of `get_client`, which runs
without an await and so is one step of registering and taking the client. `Exchange` is the provider's answer,
`ReadAuto`, `FindUser`, `CreateUser`, `FindConn` and `CommitSignIn` follow the callback. A page of the settings
(`admin[a]`) reads the list (`StartEdit`), writes it whole (`CommitEdit`) and, after a deletion, drops the
registration in a third step (`Unregister`). Startup seeds the list and registers what it then finds. The
refresh task (`refresher`) keeps the provider map and the connections it read for the whole cycle,
uses the token it read (`UseToken`), gets the connection again and commits the answer.

- An entry of `reg` stands for three dictionaries: the fingerprint in `_registered`, the settings in authlib's
  `_registry`, the client in authlib's `_clients`. `create_client` of authlib is modelled from its use: a client built
  once is returned again.
- PostgreSQL works at READ COMMITTED. The query for connections makes SQLAlchemy flush the sign-in time first, so it
  holds the user's row from there to the commit (`lock`); a deletion or change of the user, and
  another callback of the same user, wait. Flush and query are one step: nothing another transaction does between them could be told apart.
- A refresh token is the number of the grant that issued it. A provider may or may not replace it when it is used; when it does not, authlib
  puts the token that was used into the answer, so that this one is stored. The commit writes the column when it differs from the row
  that was loaded for it (`loaded`, `Replaced`), so that an unchanged token undoes nobody's;
  a new sign-in is assumed not to revoke the tokens of earlier ones. `cut` is a ghost: connections whose new token
  was lost by a failure or a crash.
- The configuration row exists, as it does after the first startup. Users do not change
  their address. SAML, which shares the user part of the callback, is not included.

**Sign-in and VPN sessions.** `tabs[t]` is a page of one browser with what its handler has read; the tabs share
`storage`, which stands for `app.storage.user` and the cookie session (`handover`, set by a callback and moved by `AuthComplete`).
`PasswordAccepted`, `ReadMethods` and `FinishLogin` are `try_login`, cut at its awaits; `OpenChallenge`, `LoadChallenge`,
`EnterCode` and `CodeAccepted` the challenge page, whose list of methods is the one it was built with; `RowGone` an update of a row that a
deletion has taken away. The expiry task reads the users (`StartPass`), then the devices of each (`ReadDevices`),
and removes one peer per step (`RemoveExpired`).

- Time is not counted: `session` says of each user whether the last sign-in is within the duration (`valid`), before it
  (`over`), or none has happened. `SaveDuration` limits the sessions or lifts the limit.
- The creation or deletion of a device, with what the event bridge does for it, is one step that does not fail here, and so is a
  restart with its reconciliation: `EventBridge` and `WireGUI` have their parts. What this model adds is the pass, which
  overlaps with all of them.
- Three ghosts. `kept` follows a sign-in with a password: the codes among the account's methods at the moment the
  password was accepted, less those removed since. `owed` is what of them was still there when the sign-in was completed
  without a code; the storage keeps it. `lapsed` holds the users whose session has been over since the last start.
- An id is not used again after a deletion. Only a TOTP code is asked for at `/mfa`, as in the code, so the property is about
  those methods; a security key alone leads to the challenge page, which completes the sign-in at once.
- Wrong passwords and codes change nothing and are left out; so are roles, changes of the password, and the deletion of one's own account.
  Sign-ins with OIDC end at the same `AuthComplete` and are in `OidcSignIn`.

**The promise of the data plane.** `DataPlane` knows four sets of public keys. `registered` is mapped to the keys in the devices table,
`connected` to the peers, `excused` to `contended`, and `retired` to the keys that were generated and are neither in the table nor
waiting for their INSERT. Of the many ways through handlers, cascade, startup and crash, `DataPlane` leaves this: a key
registers once and is retired for good; only a registered key is connected and only a retired one disconnected, but for keys whose requests
overlapped, and for an interface that is lost. Each step of `WireGUI` is one of its steps or none.

**Device rows.** `creator[c]` is a request that creates a device, cut at its three awaited statements: `AllocateV4`
reads the IPv4 addresses in use and draws one, `AllocateV6` the same for IPv6, `Insert` commits under the unique constraints.
`editor[e]` has loaded a row to set what its form says (`LoadForEdit`) and commits (`SaveEdit`); `poll` is the task or the
collector between the dump of the interface (`PollPeers`), the rows it loads (`PollSelect`) and the one commit (`PollCommit`).
`Flush` is what SQLAlchemy sends: the columns that differ from what was loaded, so that two writers of one row do not undo each
other; `Flushable` is the error when a changed row is gone.

- Addresses are numbers, a network is its first number and its size. The 1000 random draws of `_find_available_v4` and the
  scan that follows them yield any address that is not in use: the draw is `\E a \in Pool \ Used`, and only the count of used addresses decides
  whether it is refused, as in the code.
- One column stands for all that a form edits, one for the counters. Between restarts the network may change
  (`V4Networks`), and devices keep addresses of an earlier one; the ghost `networks` holds those the process has run with.
- `sent` is the kernel's counter of each peer. It starts from zero when a peer is added (`Connect`), so also when the peer was removed in between
  (`Disconnect`: the expiry of a session, a lost interface), and when a restart finds the interface gone. The poll then writes the lower value, as the code does.
- The dump shows the peers there are, each with its counter; a dump that fails is a poll that does not begin.

**The interface.** `loop` is the connectivity task: the check and its notification (`Check`), then `ensure_interface`: `ip link show` (`ShowLink`),
`ip link add` (`AddLink`), one `ip address replace` per address (`ReplaceAddress`), `ip link set up` (`SetUp`). Others on the host change the
link between any two commands (`Drift`); a command on a link that is gone fails and ends the round. `configured` says whether the link still has the private key and the peers that
`startup()` gave it. `queue` is the deque of notifications, each known by its number; a page has rendered `shown[p]` and clears what it shows,
by identity (`Clear`) or all at once (`ClearAll`).

- The loop waits 60 seconds before its first round, so `startup()` does not run beside it: `Restart` is the whole of it.
- Whether the check succeeds is the network's choice; storing its result may fail and changes nothing else.

**Accounts.** `session[b]` is what a browser's storage says of the signed-in user, with the role of the moment of signing in; `page[b]` a page with what
it read when it was built. `OpenAccount` and `CountAdmins` are the two queries of the account page, `DeleteOwnAccount` its last button. A handler that loads a row,
changes columns and commits is one step. An API call finds its token (`FindToken`), reads the account (`FindCaller`) and acts (`Serve`), one statement
after the other. `LookForUsers` and `SeedAdmin` are the creation of the first administrator.

- A token is its row; the digest by which it is looked up identifies it. Passwords, addresses and display settings are left out.

## 4. What is checked

The runs of the data plane use `MCWireGUI`; the other parts have an MC module each, named after their run (`MCTunnel` uses `MCConnectivity`). Every run has `CHECK_DEADLOCK FALSE`: nobody has to start
another operation, keys and crashes are bounded, so the system may stop.

| Run | Instance | Shows |
|---|---|---|
| `MCPeers` | 1 user, 2 keys, 2 addresses, 2 tasks, 1 crash, requests during startup | `LiveDevicesHavePeers`, `NoOrphanPeers` under every overlap of two operations; `OwnAddressCarried`: an address that goes from a deleted device to a new one is carried by the new one; `ImplementsDataPlane`: every step is one of `DataPlane` or a stutter |
| `MCSerial` | 1 user, 2 keys, 2 addresses, 1 subnet, 2 rules, 1 task, 1 failure, 1 crash | with operations one at a time, peers, routes and the chain follow the database, also after a failure and a restart; of two rules, created, edited, dragged, the chain has the right one first |
| `MCStartup` | 2 users, 1 key, 1 address, 1 subnet, 1 rule (possibly global), 2 tasks, 1 failure, 1 crash | `StartupReconciles`: whatever the process left behind, startup ends with peers, routes, chains and jumps exactly as the database has them; `PolicyFollowsDatabase` and `JumpsLeadToChains` under every overlap of two operations, of one user or two; `TunnelRouteKept`, `TypeOK` |
| `MCLiveness` | 1 user, 1 key, 1 subnet, 1 rule, 2 tasks, 1 crash, `FairSpec` | devices become peers, orphans go |
| `MCOidc` | 1 provider, 2 settings, 1 user, 2 sign-ins, 1 settings page, 2 grants, 1 crash | `ClientAsConfigured`, `ConfiguredIsUsable`: redirect and callback use the settings just read and never fail for want of a registration; `OneConnection`; `StoredTokenAccepted` |
| `MCVpnSession` | 1 user, 2 devices, 1 tab, a TOTP code and a security key, 1 failure, 1 restart | `SecondFactorAsked`: no authenticator that the account kept is passed over; `UnexpiredStayConnected`: the expiry disconnects nobody whose session was not over; `ExpiredAreDisconnected`: whoever stays expired is disconnected |
| `MCDeviceRecords` | 2 keys, 2 creations, 1 edit, two networks that overlap, 1 unit of traffic per peer, 1 restart that may change the network or lose the interface, `FairSpec` | `NoSharedAddress`: two creations that draw one address do not both commit, and none is the server's, unless the device has it from another network; `RefusedOnlyWhenFull`: while the network stays, no creation is refused that has an address left; `NoLostColumn`: edits and polls never undo each other, and a poll writes what the kernel showed, also a lower count; `TrafficIsRecorded`: a poll that fails is made up for |
| `MCConnectivity` | 2 server addresses, 2 pages, a queue of 2, 4 notifications, 3 drifts, 1 restart, `FairSpec` | `DriftHeals`: whatever is done to the interface in the middle of a round, it is up and complete again; `KeyAndPeersStay`: the loop itself never costs the private key and the peers; `OnlyOldAreDropped`: a notification nobody cleared is lost only to newer ones |

**Why these bounds.** Most of the properties relate two devices at most, or a device and
the operation that met it: two keys give one to lose and one to take its
address, two tasks every pairwise overlap. Two
rules and two priorities give equal and different priorities and a reorder.
One crash can hit any state and the state it leaves can be the start of everything again; the
kernel's state is kept or lost. One failure is enough for each handler's every
error path. Keys are generated once (`born`), so a run is finite. Users, keys,
addresses and tasks are symmetric in the safety runs; `MCLiveness` uses no symmetry. In `MCOidc` providers and users are
independent of each other, so one of each is enough; two sign-ins and the settings page give a registration that another one
replaces, and a deletion between a save and a sign-in; two grants give a refresh that replaces a token, or a second sign-in
that does. Requests are not served during startup there, to keep the run short; the theorems of section 6
do not depend on it, nor on any of these numbers. In `MCVpnSession` a sign-in crosses with changes of the same account and
with a pass, which one user and one tab show; the second device is the one a pass may forget. Two tabs, whose
storage is shared, are covered by the theorem `NoFactorSkipped`, for any number of them.
In `MCDeviceRecords` one network has a pool of two addresses, and the other, a part of it, a pool of one, which two creations want: exhausted, last address and
choice all occur, an address kept from the network of the earlier start counts against the new one, and one of them is the address that the server then takes. One unit of traffic is
enough to tell an old counter from a new one. In `MCConnectivity` three drifts reach a link that is deleted, added by hand and touched again within one round;
four notifications overflow a queue of two while two pages show different states of it.
The data-plane runs have 0.2 to 2.1 million distinct states, `MCOidc` 1.8, `MCDeviceRecords` 0.6, `MCConnectivity` 0.2. A third way to
change a rule (`rule_update`, the page's edit) would make `MCStartup` ten times as large: there the API changes owners, in `MCSerial` the page changes rules, and
both together are left to the theorem `PolicyFollows`.

**What overlaps break.** Routes do *not* follow the database when operations overlap (section 5), so `RoutesFollowDatabase` is checked in
`MCSerial` only, with one task. Chains and jumps do not either, but there the ways are few enough to name: `PolicyFollowsDatabase` excuses a user in
`lagging` and nobody else, and is checked in `MCStartup` with two users and two tasks.

**Fairness.** `FairSpec` assumes weak fairness of each task's next step (the event
loop resumes a coroutine whose await is done, and each command of
`asyncio.create_subprocess_exec` ends), of the startup's next step, and of the restart
(`restart: unless-stopped`). Nothing forces a user to act or a command to fail.
In `VpnSession` the pass is weakly fair: `vpn_session_loop` catches every exception and starts
again after 60 seconds, and `startup()` registers it (`main.py:77`).
In `DeviceRecords` the poll is weakly fair: a failing poll is caught and logged and the loop goes on (`tasks/stats.py`, `collector.py`). That the collector's
process lives is assumed; nobody looks after it. In `Connectivity` the round is weakly fair: `connectivity_loop` catches
every exception and sleeps. Creations, edits, pages, drift and restarts are free.
`WF(TaskStep(t))` is enough because a step of a task that is enabled stays
enabled until it is taken or the process dies.

**Mutants.** Each property is paired with a change to the model that a plausible bug would make
(an orphan test that removes everything, user deletion that looks for the devices after the cascade,
allowed-ips without the tunnel address, `sync_routes` that does not spare the tunnel
network or prunes nothing, chains in order of age, a client cache that is not
evicted, a fingerprint that outlives its registration, a connection looked up without holding the user's row, an answer not stored,
a login that looks for security keys only, an expiry that does not compare times or leaves a user after the first device,
a pool that ends one address late, a test of exhaustion that is off by one, owners that are told of their rules only if they have a device, a forward chain that a rebuild does not flush, one unique constraint of two, an UPDATE of the whole row, a poller that dies with its first error,
`ensure_interface` that leaves an existing link as it is or makes it anew, a queue without a limit or cleared by place) and fails under it; see
`PROJECT.json`. The mutated definitions are named `X_...`, before `X`.

## 5. Where code and comments disagree

Four runs are expected to end in a violation; each checks what a comment, a
docstring, a text of a page or a list of tests says.

| Run | The code | Says |
|---|---|---|
| `MCRebuildOthers` | `_rebuild_user_chain` passes one entry to `rebuild_all_rules`, which deletes all other users' chains and flushes every jump (`services/firewall.py:169-171`, `195`, `217-219`) | "rebuild a single user's firewall chain" (`services/events.py:163`) |
| `MCStartupIps` | `reconcile` compares keys only; a peer found keeps stale allowed-ips | "ensure WireGuard and firewall state matches the database" (`tasks/reconcile.py:1`) |
| `MCAccounts` | the account page decides when it is built whether the account is the only administrator (`pages/account.py:329`); two administrators who both have it open delete their accounts one after the other | "You are the only admin — account deletion is disabled." (`pages/account.py:332`), "Danger zone: disabled when only admin" (`TESTS.md:78`) |
| `MCTunnel` | `ensure_interface` re-creates a deleted interface without key and peers, which only `startup()` sets (`services/wireguard.py:82`) | drift "self-heals within one interval instead of persisting until the next restart" (`tasks/connectivity.py:36-38`) |

More were met while modelling and have no run of their own:

- `PUT /rules` commits without an event (`api/v0/rules.py:69`), although the bridge "propagates database changes to WireGuard and firewall"
  (`services/events.py:1`), also when it gives the rule another owner (`schemas/rule.py:34`). `UpdateRuleFromApi` is a step of `MCStartup`: the users
  concerned are in `lagging` until their chain is rebuilt, at the latest by the next startup.
- A device deleted before its `on_device_created` runs becomes a peer afterwards and stays one until a restart (`services/events.py:47`, `76`).
  This is what `contended` excuses in `NoOrphanPeers` and `excused` in `DataPlane`.
- Two overlapping `sync_routes` leave a route missing or left over, though routes should "exactly match `expected_subnets`" (`services/wireguard.py:305`).
- No rebuild applies a rule without owner; "global rules handled via rebuild" (`services/events.py:133`).
- A rule moved to another owner by the rules page stays in the former owner's chain, since only
  the new owner's chain is rebuilt (`services/events.py:143`).
- A drag fires its event for whomever the page's filter names after the commit, or for nobody (`pages/admin/rules.py:80-82`), although the docstring says "Re-sequence
  priorities to match the dragged order, then rebuild the chain" (`pages/admin/rules.py:70`).
- The jumps of a deleted device are "cleaned up on next rebuild", of whichever user (`services/events.py:91`). If its address is given to a device of another user before that,
  the new jump is appended, and the traffic meets the former owner's chain first.
- When two devices relay one subnet and the one that carries it is deleted, the route is kept ("so shared subnets are kept",
  `services/events.py:84`) but the kernel moved the subnet to the last peer that was
  given it, and removing that peer leaves it carried by none.
- Of two rebuilds of one chain that overlap, the one that read the older rules may write last, although the
  chain is rebuilt "from current DB rules" (`services/events.py:163`). This one, the moved rule, the drag, `PUT /rules` and other users' rebuilds are
  what `lagging` excuses in `PolicyFollowsDatabase`.
- After a change of the network, the addresses of the old one still count, so "No available addresses in {network}" (`utils/network.py:64`)
  can be untrue; and a device may hold the address the server has now (`services/wireguard.py:43-50`). `RefusedOnlyWhenFull` and `NoSharedAddress` say so.
- The counters of a device go down when the kernel starts counting anew, and what was counted since the last poll is then lost (`tasks/stats.py:47-48`,
  `collector.py:59-60`), which `TrafficIsRecorded` excuses.
- Two settings pages, or a page and the seeding, read the whole provider
  list and write it back whole, so the later write drops what the earlier one added. The docstring of `seed_idp_providers`
  says "Providers not in the YAML are preserved" (`auth/seed.py:87`), which holds of the list that was read.
- The toggles for peer-to-peer and LAN traffic fill chains that nothing jumps to (`services/firewall.py:227-284`).
- The users page goes by the role that the browser's storage was given at sign-in (`Accounts`, `SaveEdit` and `DeleteUser`), while an API call reads it each time.

Not a disagreement, but of interest to an operator: a user whose session was over and who signs in again stays
disconnected until a device is edited or the process restarts, since no sign-in adds a peer; and one who signs in while a
pass is under way may still be disconnected by it. `UnexpiredStayConnected` therefore speaks of users whose session
has not been over since the last start.

`StartupReconciles` holds and `StartupRestoresAllowedIps` does not: together they
say exactly what a restart repairs.

## 6. What is proved

With TLAPS (SMT/Z3, Zenon, LS4), for all values of the constants that satisfy the
assumptions of the modules: any number of users, devices, addresses, subnets,
rules and tasks, any bound of failures and crashes, requests served during startup or not. Three theorems (`StartupRebuilds`, `RoutesFollow`, `PolicyFollows`) have
the hypotheses the table names, next to those of the modules.

| Theorem | Module | Statement |
|---|---|---|
| `TypeCorrect` | `WireGUITypes` | `Spec => [](TypeOK /\ RowsHeld)` |
| `Control` | `WireGUITypes` | `Spec => [](Down /\ Booting /\ Serve)` |
| `TunnelRoute` | `WireGUITypes` | `Spec => []TunnelRouteKept` |
| `LivePeers` | `WireGUIPeers` | `Spec => []LiveDevicesHavePeers` |
| `NoOrphans` | `WireGUIOrphans` | `Spec => []NoOrphanPeers` |
| `AddressesAreCarried` | `WireGUIOrphans` | `Spec => []OwnAddressCarried` |
| `DataPlaneImplemented` | `WireGUIOrphans` | `Spec => ImplementsDataPlane`, that is `Spec => Plane!Spec` |
| `StartupRebuilds` | `WireGUIReconcile` | `Spec => StartupReconciles`, if `~ServeWhileStarting` |
| `RoutesFollow` | `WireGUIReconcile` | `Spec => []RoutesFollowDatabase`, if `OneAtATime` (one task) and `~ServeWhileStarting` |
| `PolicyFollows` | `WireGUIReconcile` | `Spec => []PolicyFollowsDatabase`, if `~ServeWhileStarting` |
| `ChainsHold` | `WireGUIReconcile` | `Spec => []JumpsLeadToChains` |
| `TypeCorrect` | `OidcProofs` | `Spec => []TypeInv` |
| `PresentSettings` | `OidcProofs` | `Spec => []ClientAsConfigured` |
| `ConfiguredUsable` | `OidcProofs` | `Spec => ConfiguredIsUsable` |
| `AtMostOneConnection` | `OidcProofs` | `Spec => []OneConnection` |
| `StoredTokens` | `OidcProofs` | `Spec => []StoredTokenAccepted` |
| `NoFactorSkipped` | `VpnSessionProofs` | `Spec => []SecondFactorAsked` |
| `ExpirySparesOthers` | `VpnSessionProofs` | `Spec => []UnexpiredStayConnected` |
| `RecordsTyped` | `DeviceRecordsProofs` | `Spec => []TypeOK` |
| `AddressesUnique` | `DeviceRecordsProofs` | `Spec => []NoSharedAddress` |
| `ColumnsKept` | `DeviceRecordsProofs` | `Spec => NoLostColumn` |
| `RefusedWhenFull` | `DeviceRecordsProofs` | `Spec => RefusedOnlyWhenFull` |
| `TypeCorrect` | `ConnectivityProofs` | `Spec => []TypeOK` |
| `KeyAndPeersKept` | `ConnectivityProofs` | `Spec => []KeyAndPeersStay` |
| `OldDropped` | `ConnectivityProofs` | `Spec => []OnlyOldAreDropped` |

**Assumptions.** Those next to the constants only: the kinds of names are apart
(`Global` is no user, subnets are neither addresses nor users, `Boot` is no task, `NoRow` no row), there are a
user and a provider id, the file lists providers, the server has an address, bounds are natural numbers. TLC evaluates them in every run.

**Types.** `TypeOK` is inductive together with `RowsHeld`: a task at a step that
reads a field of `row` holds a row and not `NoRow`. One lemma per action.

**Control.** While the process is down every task is idle; the startup task is at
one of its steps exactly during startup; no other task ever takes the
branch of the shared steps that ends a startup. With them the tunnel
route follows: only `RouteDel` removes a route, and its `drop` came from
`RoutesToRemove`, whose values are subnets.

**Live devices have peers.** The property alone is not inductive: a step that
removes a peer could hit a live device. `PeerInv` adds, in terms of the keys each task
is about to insert, add, remove or hold:
- `BornInv`: every key known anywhere was generated, and a key that waits for its
  INSERT is known to nobody but the request that generated it. So a key that is gone does not come back.
- `RemovesInv`: no pending removal names a live device, in a task, its queue, or
  startup's list of orphans once the devices were read.
- `SeenInv`: a live key that startup saw on the interface is still a peer when it reads the
  devices, so leaving it out of `to_add` is right.
- `CascadeInv`, `OwnerInv`: the cascade takes every device whose removal is queued.
- `QueueInv`, `CoverInv`: from startup's query on, every live device is a peer, about to be
  added by its own request or by startup, or its command failed.

`TaskEffect`, `QuietStep`, `BeginEffect`, `BootEffect` state once what a step of
a task, of an operation's start, or of startup may do without breaking
`PeerInv`; each action's lemma shows that it does no more. The last theorem combines the parts with PTL.

**No orphans.** Here the bookkeeping runs the other way: a peer must not outlive its device unless requests for the device
overlapped. `OrphanInv` says which overlaps `contended` has seen, and that nothing is lost outside them:
- `SharedInv`: two tasks that are both ahead of a command for one key contend; `StartupInv`: so does any such task during startup.
- `InsertInv`, `LeftInv`: a creation that meets the deletion of its owner contends, whether its INSERT comes before or after the
  owner's devices were read. Without the pair, the cascade could take a row nobody queued.
- `AddsInv`: a task about to add a peer has a row that still exists; `MissingInv`: so has startup.
- `WorkInv`: only the deletion of a user has a queue, and it is at a step that goes on with it.
- `OrphanCover`: from the dump of the interface on, a peer has a row, a removal pending, is on startup's list, failed, or is contended.

`OrphanEffect`, `BeginOrphans`, `BootOrphans` play the part that `TaskEffect`, `BeginEffect`, `BootEffect` play above.

**Addresses.** `wg set peer` takes the address from whichever peer had it, so a device keeps its own only if nobody who adds a peer
holds another device's address. `AddressInv`: no two rows share a key or an address (`IpInv`); a task about to add a peer holds
the address of the row in the table, however the row was edited since (`HeldInv`); during the first startup there is no device
unless a request overlapped with it (`FirstInv`); and the property itself while an addition is pending or failed (`CarrierInv`).
`AddPeerStepAddress` and `RemovePeerStepAddress` need `AddsInv` and `RemovesInv`: the peer added has a row, the one removed has none.

**The refinement.** `PlaneNext` shows that a step from a state with these invariants is a step of `DataPlane` or a stutter. `AddsInv` and `MissingInv`
give the guard of `Connect`, `RemovesInv` that of `Disconnect`, `BornInv` those of `Register`, `Retire` and `Die`. `RetiredMeans` restates
the mapped variable `retired`; `PlaneStill`, `OverlapPlane`, `RetirePlane`, `ConnectPlane` and `DisconnectPlane` say once which changes of `WireGUI` are which steps.

**Device rows.** `RecordsInv`: a creation under way holds addresses of the present pools and a key that is nobody else's, not in the table and not
among the rows a poll has loaded (`Drawn`); the IPv4 address of every device is of the pool of a network the process has run with (`Placed`), which is where
the server's address and the refusals come from: while there has been one network only, the addresses in use are a subset of its pool, and as many of them as
the pool has are all of it (`FullPool`); and nobody but the poll changes the counters of the rows it has loaded (`Loaded`), so that its commit, which writes
the columns that differ from those rows, leaves each as the kernel showed it.

**Chains.** A batch of `rebuild_all_rules` deletes the chains that are no entry of it and writes the jumps anew. `NftInv` follows what a
task has collected for it: its jumps lead to chains it fills (`BatchInv`), which it does not delete. So no jump is ever left to a chain
that is gone (`JumpInv`, and with `BodyInv` the theorem `ChainsHold`), which is also why the model need not have a batch that the kernel refuses because a chain is in use.
That a chain holds each rule once and in order is `OrderedInOrder`: `Place` is an injection of n rules into `1..n` (`PlacesOrdered`), and so
onto it, and of two rules the one evaluated first counts a proper subset of what the other counts.

**Startup.** With nothing else running (`Quiet`, `Fresh`), what startup has read stays true, since a startup commits nothing. `BootInv` says at each step
what it holds: the tunnel routes, owners, jumps and bodies of the tables (`BootRead`), and for the chains it has yet to delete, that they are listed or
a command failed; after the batch `ChainsRebuilt` and `JumpsRebuilt`, except for users in `faulted`; and during the route commands that they are
the difference that is left (`PlanKnown`). At its end peers follow from `PeerInv` and `OrphanInv` (`PeersReconciled`), routes from the empty
difference. No condition is needed on the state the crash left: chains, jumps and routes may be anything.

**Routes one at a time.** `RouteInv` says, for each step a task can be at, for which subnets routes and devices may still differ: a device
being created, for its own; a removal, for those of its row and of the queue; a synchronisation, for its two lists; and at every other step for none
but those in `faulted` (`OnTrack`). `TableInv` gives that a key has one row, so the subnets of an edit are those of the row deleted or saved.
A startup ends with `OnTrack({}, {})`, which is how the invariant survives a crash anywhere.

**Chains whatever overlaps.** `PolicyFollowsDatabase` is not inductive: that somebody is about to write a chain says nothing of what will be written. `PolicyInv`
adds it, for the users in `Tracked` (neither `faulted` nor `lagging`): a rebuild that nothing overtook holds the rules and jumps of the tables
(`ReadAt`), and where a new device's jumps are about to be added, their chain is there or comes back with a rebuild (`ChainAt`). `RulesKept` and `JumpsKept` say
that rules and jumps are right or due, device by device. `HolderInv` gives that a task which creates or edits a device works for its
present owner, and that a rebuild is of one user's chain. `ReadRulesPolicy` is the step at which a user stops lagging, `BatchPolicy` the one at which
others start to, and `StartupPolicy` the end of a startup, where `BootInv` has everything in order. The way from `PolicyInv` to the property is `PolicyCovered`.
What holds while requests are served before or after a startup that failed is not proved: a startup's batch writes what it read before their changes.

**OIDC registry.** `ClientAsConfigured` is inductive with `Coherent`: an entry is empty, or its
client was built from the settings whose fingerprint it has. That is why the fingerprint alone may decide to
skip a registration. `RegisterYields` states it once for `register_provider`; `GetClientYields` for `get_client`.

**One connection.** `Serialized`: who is about to commit holds the user's row, nobody else is about to commit for that
user, and the connection it will insert is not there. `Owned`: a connection belongs to a user that exists, so a user just
inserted has none. Without the row held from the query on, neither is preserved.

**Refresh tokens.** `TokenInv`: what a pending sign-in is about to store is accepted and stored
nowhere else (`PendingApart`), a token is in the copies of one connection only (`OneOwner`), and the answer waiting to be stored is
accepted and stored nowhere (`AnswerApart`). So the token that a refresh uses up is stored in the one connection
whose successor the task holds. `TokensKept` covers every step that stores nothing; `TokenUse`,
`TokenStored` and the two cases of `TokenSignIn` are the steps that do.

**Second factor.** `owed` stays empty because of `Kept`: wherever a page or the storage remembers the codes
an account has kept, the account still has them, and what a login has read of the methods includes them. So a login that finds no
method and a challenge that finds no code have nothing to pass over. A removal takes the method from `mfa` and from `kept`
together (`ForgetType`), whichever tab is where.

**Expiry.** `Chosen`: the users a pass has yet to look at, the owners of the devices it has yet to disconnect, and all whose
session is over are in `lapsed`. What the pass read may be old, but `lapsed` only shrinks at a restart, which ends the pass.

**The interface.** `ConnInv`: the round's remaining addresses are the last ones of the server's list (`LoopInv`), and unless somebody deleted the link it
is there with its key and peers (`LinkInv`), so that `ip link add` can only make one that was deleted. `Aged` says that the entry at place `i`
is none of the `i - 1` newest notifications; so when the last entry of a full queue falls off, as many newer ones were added as the queue holds.

**With TLC only.** Liveness (`EveryDeviceConnects`, `EveryOrphanGoes`, `ExpiredAreDisconnected`, `TrafficIsRecorded`, `DriftHeals`),
which needs ENABLED and is beyond the prover; and the four violation runs, whose properties do not hold. No property
needed an induction over data, which is beyond it too.

## 7. What is not modelled

- **Task registry.** `register_task` starts the loops, which the modules of the loops take for granted; `cancel_all` at shutdown is, for
  each loop, the process dying, which those modules have.
- **Client configuration.** `build_client_config` picks, field by field, the device's value or the site's default: a function
  that would be its own reference definition.
- **Firewall, in part.** The base tables and the masquerade rules are written at startup and assumed; the two toggles fill chains that nothing jumps to.
- **Configuration, in part.** Apart from the OIDC providers and the session duration, its columns are saved one by one and read by nobody
  modelled; the key pair is generated once, before requests need it.
- **Accounts, in part.** Passwords, addresses and display settings; no decision of another component depends on them.
- **SAML and WebAuthn.** The protocols are in libraries: an answer names an account, or does not.
- **Statistics.** The export to VictoriaMetrics keeps no state.
- In the data plane `ensure_interface` is one step of startup, since it leaves peers alone; `Connectivity` has its commands.
- Rendering, e-mail, logging and request schemas keep no state worth a model.

## 8. Running it

```
tlc -workers 2 -config MCPeers.cfg MCWireGUI          # MCSerial, MCStartup, MCLiveness, MCRebuildOthers, MCStartupIps likewise
tlc -workers 2 -config MCOidc.cfg MCOidc              # MCVpnSession, MCDeviceRecords, MCAccounts likewise
tlc -workers 2 -config MCConnectivity.cfg MCConnectivity     # and MCTunnel.cfg
tlapm WireGUITypes.tla     # then WireGUIPeers, WireGUIOrphans, WireGUIReconcile, OidcProofs, VpnSessionProofs, DeviceRecordsProofs, ConnectivityProofs
```

The pass runs take 10 seconds to two minutes each, the violation runs seconds; the proofs
take about ten minutes from nothing, half of them `WireGUIReconcile`.
