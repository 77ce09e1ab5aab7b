# Verification of Mirror X

TLA+ models of the parts of Mirror X (`crates/`, `apps/`) whose correctness
depends on the order in which things happen: several files changed as one,
several processes over one home directory, several connections in one room,
several commands over one task, a stream cut anywhere.
TLC checks the models on small instances; TLAPS proves the theorems named below
for every value of the constants. `PROJECT.json` lists the components, the runs,
the theorems, the hazards, and for every definition the lines of
the source it was translated from.

## 1. The system

Mirror X puts a Manager (a Tauri application), a launcher and a small data
library beside the Codex desktop application, and a relay server on the
internet. Paths below are relative to the repository.

| Part | Code | State it keeps | Operations | Talks to |
| --- | --- | --- | --- | --- |
| Mirror access | `crates/codex-plus-core/src/mirror_access.rs`, commands in `apps/codex-plus-manager/src-tauri/src/commands.rs` | `config.toml`, `auth.json`, model catalog of a `CODEX_HOME`; `settings.json`, `managed-access.json`, `baseline-v1/` of the Manager | enable in pure or mixed mode, restore, recover, repair sessions, roll back | provider sync, launcher |
| Launcher | `crates/codex-plus-core/src/launcher.rs`, `watcher.rs`, `ports.rs` | the single-instance guard, the proxy's port, `latest-status.json`, the Codex process | check and repair the provider, spawn, inject, report, wait; the Manager's launch and restart | the Manager, Codex, the same files without the Manager's mutex |
| Provider sync | `crates/codex-plus-data/src/provider_sync.rs` | rollout files, session databases, `.codex-global-state.json`, `tmp/provider-sync.lock`, backups | scan, back up, rewrite, update, roll back, prune | every process that syncs, and Codex, which appends |
| Deletion, undo, workspace moves | `crates/codex-plus-data/src/storage.rs`, `backup.rs`, `session_index_cleanup.rs` | databases, rollouts, undo tokens, a move journal | delete, undo, move, finish an interrupted move | the same files as the sync |
| Relay server | `apps/codex-plus-mobile-relay/src/main.rs`, `rate_limiter.rs` | rooms with a desktop and a phone slot, counters, token buckets | register, replace, forward, unregister | WebSocket peers |
| Desktop end of the channel | `crates/codex-plus-core/src/mobile_relay_host.rs`, `desktop_sync.rs` | connection, session handles, uploads, event queue | dial with backoff, answer the phone, forward events | relay, injected script |
| Mobile control | `apps/codex-plus-manager/src-tauri/src/mobile_control.rs` | the running host and a generation number | start, stop, resume | desktop end |
| Phone app | `apps/codex-plus-mobile-relay/pwa/` | outbox, transcript | connect, send, steer | relay |
| Local proxy, relay rotation | `protocol_proxy.rs`, `relay_rotation.rs` in core | the converter of each stream; position in the rotation, conversation affinity | translate requests and streams, choose, fall back | providers, Codex |
| Settings and configuration | `settings.rs`, `relay_config.rs` in core, `commands.rs` | `settings.json` with a copy of each profile's files, live `config.toml` and `auth.json` | switch the active provider, rewrite | everyone |
| Injection, marketplace, skill, Windows integration, updates | the rest of core, `assets/inject/` | a page, unpacked files | I/O | Codex, the operating system |

**What is hard, and what makes each part correct.**

- *Mirror access.* One operation is up to five file writes with a verification
  and a rollback; each write can fail, the rollback too, and the process can die
  between any two. The user and Codex edit the same files between operations.
  Correct means: what the user had is kept in a baseline that never holds
  anything of Mirror's; a restore leaves nothing of Mirror's; a failure that
  claims a complete rollback left everything as it was; keys Mirror does not
  manage are never touched; a managed state can always be undone. The launcher
  repairs the same files from another process.
- *Provider switch.* Settings and two live files change one after the other around
  two network probes; what Codex wrote into the live files is first taken back into
  the profile that is left. Correct means: a key is never beside another provider's
  endpoint; the last login and the user's entries survive any number of switches; a
  switch that reports a restoration has restored.
- *Launching Codex.* A guard that only one launcher holds, a status file all of them
  write, a Codex that the user opens and quits at will, and a Manager that waits for
  "the" launcher it started. Correct means: a restart reports only what happened after
  it; a failing launch ends no Codex of the user's; nobody waits for ever.
- *Relay.* A reader, a writer and a channel per connection; slots are replaced
  while their former owner still runs; sends happen after the lock is released;
  peers vanish. Correct means: a slot names a live connection of that room, role
  and token; no room without a desktop; the counters count; a replaced connection
  is told why and ends; frames stay in order and in their room.
- *Limiter.* Lazy refill and forgotten buckets must not show.
- *Mobile control and the desktop end.* Starts and stops overlap across awaits; a
  stopped host goes on reporting until it notices; a phone's session owns a backend
  and a reader task. Correct means: at most one host is in charge and none runs
  unowned; the newest command has its way; the status is the present host's.
- *Phone.* One submission is followed by a chain of continuations through lost
  connections, calls that may or may not have arrived, and turns that end meanwhile.
  Correct means: nothing the user sent vanishes, nothing is told to Codex twice, and
  what the page shows is what the desktop has.
- *Provider sync.* A lock directory that outlives its owner and is taken over;
  rollouts that are locked, or appended to while they are rewritten; one failing
  write after others succeeded; subagents' sessions that must not be converted.
- *Moves, deletion, undo.* A row and a file cannot change in one step: a journal, a
  staged copy and a kept original bridge them, several databases may list one session,
  and several processes recover the same journal. Correct means: a session is in one
  workspace or the other and never in neither, its rollout always exists under some
  name, and what is reported is so.
- *Stream conversion.* A message in pieces, with `<think>` tags cut anywhere and
  interleaved tool calls, becomes a sequence of events with an order of its own.
  Correct means: every word once, in the right item, no event out of order, and the
  same result as converting the whole message.

## 2. Modules

| Module | What it is |
| --- | --- |
| `AccessFiles` | What the files of an access contain, reduced to the parts the code tells apart, and the pure rewriting functions |
| `MirrorAccess`, `MirrorAccessMC` | The operations of the Manager and the launcher, one file write per step; small instances |
| `MirrorAccessProofs` | Types; the baseline of a managed state; what rollbacks and restores leave of the user's files |
| `ProviderSwitch` | The verified switch of the active provider |
| `CodexLaunch`, `CodexLaunchProofs` | Launchers, the Manager's launch and restart, Codex; reports, restraint |
| `IdealLimiter`, `RateLimiter` | What the limiter promises; the limiter |
| `MobileRelay`, `MobileRelayMC`, `MobileRelayProofs` | The relay's handlers, channels and writers; small instances; the registry, the streams and the limiter |
| `MobileHosts` | The desktop's connection tasks with the phone's session |
| `MobileControl` | The Manager's commands, composed with the hosts (`EXTENDS MobileHosts`) |
| `PhoneOutbox`, `PhoneOutboxMC` | The phone's submission from composer to acknowledgement; small instance |
| `MobileEndsProofs` | Of both ends of the channel: the ownership of hosts; what becomes of the phone's submissions |
| `ProviderSync`, `ProviderSyncMC` | Lock, scan, backup, rewriting, rollback; small instances |
| `SessionFiles` | What a session is on disk, the state the next three share |
| `WorkspaceMove`, `SessionDelete` | Moves with their recovery; deletes with their undo |
| `Sessions`, `SessionsMC` | The two composed, with Codex and kills, and their properties; small instances |
| `SessionsProofs`, `SessionReportsProofs` | The inductive invariants of `Sessions`, the rollout's survival, and that moves settle; that undos, moves and deletes tell the truth |
| `ResponsesStream` | What a reader of a Responses stream may rely on (abstract) |
| `ChatStream` | The converter of `protocol_proxy.rs`, which implements it |
| `ChatHistory` | The messages the proxy makes of the items in Codex's next request |
| `ProvidersProofs` | Of the switch: keys, data, reports. Of the stream: types, the implementation of `ResponsesStream`, the end |
| `Rotation`, `RotationMC` | The selector of an aggregate's members under concurrent requests; small instances |
| `ProviderSyncProofs` | Of the sync: types, subagents, lock, reports, rollbacks. Of the rotation: types, shares, conversations, failures |

### State and actions against the code

*AccessFiles.* A `config.toml` is three parts: the routing keys Mirror manages
(`access`), the two login-storage keys only the pure mode manages (`login`), and
everything else (`other`). `auth.json` is its key and the rest, `settings.json` the
managed keys and the rest. That is what the properties tell apart. A missing file
has all parts `Unset`; one that does not parse is `Corrupt`. `BuildManagedConfig`,
`ManagedAuth`, `RestoredConfig`, `RecoveredConfig` and the others are the functions
`build_managed_config`, `managed_auth_for_mode`, `restore_managed_config_contents`,
`recover_managed_config_contents` over those parts.

*MirrorAccess.* `state` is `managed-access.json`, `baseline` is `baseline-v1/`. An
operation is a process (`"manager"`, `"launcher"`) at a place `pc` with a `job` (its
home, what it read, what it will write) and the files it has left `todo`. The
places follow the code: `stage` and `publish` (`refresh_baseline`), `load`, `write`
(one file each), `verify`, `commit` (save the state), `confirm` (the status read
back), `undo` or `rewind`/`redo` (the rollbacks), then the command's own steps
`market`, `image`, `sync`. `Pause` is `pause_mirror_enable_if_codex_started`.
`RefuseRestore` is a restore that cannot start and records it. The launcher's
`check`, `write`, `spawn` are `ensure_managed_provider_ready` and the launch.
`World` is the user, Codex and the environment.

*ProviderSwitch.* A `config.toml` is the profile its endpoint belongs to, the profile
its key belongs to and the user's entries; an `auth.json` a key and a login. `settings`
holds the active profile and each profile's copy of both. `pc` follows
`switch_relay_profile_in_home_verified`: `begin`, `preflight`, `snapshot`, `switch`,
`save`, `apply`, `auth`, `config`, `check`, `probe`, and the rollbacks; `job` is
its local variables under the code's names (`original`, `verified`, `written`). `Save`
ends in one of three ways: saved and read back, not saved, or saved and not read back
(`"unread"`), after which the code restores nothing. `mishaps` records what a switch does not
survive; `"resumed"` is a switch that began with settings and live files of two profiles,
from which on the properties promise the user's entries only (`Promising`).

*CodexLaunch.* `launcher[l]` is a process at the places of `main.rs` and of
`launch_and_inject_with_hooks`; `manager` is the one launch or restart the Manager
runs at a time; `lock`, `port`, `latest`, `codex` are what they share. A time stamp
is the number of launches requested, which is all `started_at_ms >= requested_at_ms`
tells apart; the run of Codex a status is about is history.

*RateLimiter.* `Handshake` is `cleanup_stale` and `check_and_consume`, which
`register_peer` calls together under the lock. Tokens are counted in units of
1/`Window`, so they are exact where the code has floating point.

*MobileRelay.* `rooms`, `active`, `total`, `rejected`, `forwarded` are `RelayState`.
Each handler is at `pc`: `new`, `live`, `sending` (looked up, not yet sent),
`leaving`, `unregistered`, `gone`. `queue` is its unbounded channel, `writer` its
writer task, `sock` whether the peer still reads, `got` a history of what the peer
received. Everything under the lock of `RelayState` is one action; the send of a
forward is another, as in the code.

*MobileHosts, MobileControl.* `host[h]` is the task the h-th start spawned, at a place
between two awaits; in the places `Deaf` it is inside a handler and reads neither the
relay nor the request to stop. `sess`, `backend` and `reading` are the session in its
map, the bridge or app-server it runs on, and the reader task. `caller[c]` is a command
(`enable`, `disable`, `repoint`, `resume`); each of its steps is one critical section of
the `HostState` mutex, and `held` is the runtime it took out and carries across an await.

*PhoneOutbox.* `phone` is the page: the stored submission, its status, what the
composer and the transcript show. A `task` is a chain of continuations in at most one
call at a time (`start`, `locate`, `check`, `steer`, `verify`, ...); `link` and `down`
are the connection and the answers on it, `late` requests of broken connections,
`codex` the thread on the desktop. One event and every continuation it runs are one
action, because the page is one JavaScript thread. `Noticed` is `handleNotification` with its
three branches: a turn started, completed, or erred (`TurnErrs`: Codex may go on with it).
The histories `raced`, `doubted`, `wandered` and `erred` are what the properties except.

*ProviderSync.* `rollout[t]` is a session's file (its provider and how many lines),
`rows[d]` a database, `global` the state file and its `.bak`, `lock` the directory
(free, or its owner). A run is a process at a place of `run_provider_sync_with_target`
with its `job`. Taking the lock is four steps because the code has four: look, remove
a stale directory, make one, write the owner. `Recheck` and `Replace` are the last
check and the rename of `rewrite_rollout_file`; `UpdateRows` is one transaction per
database; `UndoRollout`, `UndoOther`, `AbandonUndo` are the two restores. A rollout
that cannot be opened is passed over at the scan or at the rewriting.

*SessionFiles, WorkspaceMove, SessionDelete, Sessions.* One session: `row[d]` its row in
each database with `writer[d]` the holder of its write transaction, `path` the file at
its rollout path (inode, workspace, length), `flock` the advisory locks, which belong to
inodes, `staged`, `rollback` and `journal` of each move, `backup` of each delete, and
`index` its line in `session_index.jsonl`. `loc[p]` is a process with its local
variables; the places `scan` ... `clear` are `move_codex_thread_workspace` and
`recover_workspace_moves_for_db`, the places `del*` `delete_codex_thread`, `undo*`
`undo` and `restore_backups`. Files that the move renames keep their inode and so
their lock; Codex appends to every name of an inode.

*ResponsesStream, ChatStream.* `chat` is `ChatSseState`; a chunk is one record with
reasoning, text and pieces of calls, and `HandleChunk` is `handle_chat_chunk_into` as one
function of state and chunk; the pieces of calls in a chunk (`PushTools`) and the calls
open at the end (`FinalizeTools`) are gone through by recursive functions. Text is a sequence of words and half tags, a word named
for the chunk that brought it, so that losing, doubling or moving one shows. `view` is
what a reader makes of the events; the refinement mapping takes it to the items of
`ResponsesStream`. `sent` is the answer as one message, to compare with the conversion
of whole messages. The code converts whatever comes; the provider of the run and the proofs
keeps to the protocol, and `Departures` names the four ways in which it might not: going back
to reasoning that is done (`Reasons`), giving an open call another id or kind (`Settled`), sending chunks or
errors after the end (`Gets`, `Errs`), breaking the connection after it (`Breaks`). Pieces of a call bring id,
name and arguments in any order and more than once.

*ChatHistory.* `AppendItem` is `append_responses_item` as a function of the messages so far
and what is pending; `Messages` folds it over the items of a request.

*Rotation.* `selector` is `GLOBAL_SELECTOR`, `settings` what `settings.json` says of the
active aggregate. A request (`req[q]`) or probe reads the settings (`Starts`), asks the
selector under its mutex (`SelectRegular`, `SelectByModel`, `SelectByTurn`,
`SelectForProbe`) and tries one candidate after another (`NotSent`, `Answered`,
`NotAnswered`), noting each outcome in whatever selector there is by then (`Noted`).
`given`, `held` and `overtaken` are histories the properties compare it with.

## 3. Runs

All runs pass; `PROJECT.json` says in a sentence what each asks. Sizes and times
are of two TLC workers.

| Run | Properties | Bounds | States or time |
| --- | --- | --- | --- |
| `access_faults` | `BaselineIsUserOwned`, `RestoreUndoesTakeover`, `ClosedCycleIsClean`, `FailedOperationChangesNothing`, `UnmanagedKept` | one home, group and user value; one failing write per operation, one edit, one file that stops parsing, one crash outside an enable | 1.5 min |
| `access_crashes` | `ActiveHasBaseline`, `BaselineFixedWhileOpen` | two homes; one failing write per operation, one crash anywhere | 2.5 min |
| `limiter` | `BurstBound`, `ImplementsIdeal` | two addresses, two tokens, seven ticks | seconds |
| `relay` | `RegistryAgrees`, `EvictedIsToldToClose`, `FramesMakeSense` | three connections, one room, two tokens, two forwarded frames | 2.5 min |
| `rotation` | `TurnsAreKept`, `FailuresLeadOn` | three relays, one conversation, eight settings, four requests, one save | 1,101,267 |
| `provider_sync` | `OneSyncer`, `LockIsReturned`, `ReportIsTrue`, `FailureRestoresAll`, `SubagentsUntouched` | two processes, four sessions, one database; two faults, one crash, one append | 2 min |
| `sessions` | `MovesSettle`, `RolloutNeverLost`, `RecoveryKeepsMoves`, `ReportsAreTrue`, `UndoRestores` | two processes, one session, two databases, two workspaces; two requests, two move attempts, one delete, one undo, one fault, one kill or appended line | 1,649,257 |
| `mobile` | `HostsAreHeld`, `LastCommandWins`, `StatusIsOfTheRuntime`, `ToldHostsEnd` | two commands at a time, two starts or stops, two phone sessions | 398,227 |
| `phone` | `SentIsKept`, `ToldOnce`, `ViewAgrees` | two messages, two tasks, two turns, three of the four mishaps, two with a timeout, each once | 3,670,389 |
| `switch` | `KeysStayWithTheirProvider`, `UsersDataIsKept`, `ReportIsTrue` | an official, a mixed and a pure profile, one entry, three logins, two faults, one kill | 2,680,000 |
| `stream` | `NothingIsLost`, `SameMessage`, `ImplementsResponses` | four chunks, two tool calls, text of six, no departures | 4,132,819 |
| `launch` | `ReportIsTrue`, `OwnCodexOnly`, `NobodyWaitsForEver` | two launchers, one injection attempt, one bind, two looks, two runs of Codex, one request | 633,530 |

*Why these are enough.* In `access_faults` the operations themselves are not
bounded: cycles of enabling, switching and restoring go on for ever, and only the
environment's mishaps are. One group gives two requests (pure, mixed), which is
what mode switching needs. The run starts from a fresh machine or from one where
Codex and the Manager are both in use (`SmallSpec`): parts of different files never
meet in a formula, so mixtures add states and no cases. An enable is not killed
there because that violates `BaselineIsUserOwned` (section 6); `access_crashes` kills
it too. In `relay` three connections in one room are a desktop and two phones, or
two desktops and a phone; rooms share nothing but the counters. The last two
connections may be exchanged (`LatePeers`), the set of arrivals being closed under
that. In `provider_sync` the four sessions are the four kinds the code tells apart:
the user's, one marked a subagent's but overruled, one by its row, one by its
rollout; scans that differ only in whether a session excluded by its row could be
read are taken once (`FewerScans`). Two faults are needed for a rollback that fails.
The two processes may be exchanged (`AnyProcess`).

In `sessions` two databases are needed for a delete whose second database fails and
for a move that goes on to the next; two processes for recoveries of one journal and
for an undo beside a delete. A request takes one attempt per database; `MaxRequests`
counts moves and deletes together, so that a request never stops for want of an attempt.
The run starts with rows and rollout in agreement, moves take turns, and a move that
puts the rollout back after a failed commit is alone (`OrderlySpec`; section 6 has the
other cases, nothing in the code excludes them). With one database it was also checked
with three requests, two faults and three workspaces (5.2 million states).
In `mobile` two commands overlap at every
await, and two phone sessions replace each other; a third generation changes nothing
that the proof (which has no bound) does not cover. In `phone` two messages are a
pending one and one written meanwhile; without the constraint `FewerMishaps`, which keeps
a timeout to one other mishap, 9,958,363 states pass as well. In `switch` the three profiles are the three
modes; switches are not bounded. The constraint `Promising` stops where the
properties promise nothing any more. In `stream` four chunks suffice to cut either tag
in two and have a tool call and text on both sides. In `launch` two launchers are one that
lingers and its successor; the invariant of the proof was also checked with two
requests (1,596,396 states).

In `rotation` the eight settings are one of each strategy, a single relay, Mirror's own
groups with a model per key, the same with a key missing, and a deleted member; four
requests are one round of three members and the next turn. Two at a time suffice for
every race on the selector, since a step of a request looks at no other request.

`relay_live.cfg` (module `MobileRelayMC`, two connections, 16,988 states) is kept beside
the runs: `LostConnectionsEnd`, that a connection which lost its slot or its peer is
cleaned up in the end. `FramesMakeSense` joins `PeerStream` and `DataInOrder`,
`MovesSettle` joins `RowAndRolloutAgree` and `MovesAreRecoverable`, `TurnsAreKept` and
`FailuresLeadOn` join two each in the same way.

Each module states a `TypeOK` (where two components' theorems stand in one module, one of them has a name of its own:
`LimiterTypeOK`, `OutboxTypeOK`, `RotationTypeOK`, `StreamTypeOK`). It is proved for `MirrorAccess`, `RateLimiter`,
`MobileRelay`, `ProviderSync`, `MobileControl`, `CodexLaunch`, `ProviderSwitch`, `Sessions`,
`PhoneOutbox`, `Rotation` and `ChatStream`; the configurations do not repeat it (add it to an `INVARIANTS` line to check it).

`CHECK_DEADLOCK FALSE` stands where the system may stop: connections are used once,
bounds are used up, the user does nothing more.

Definitions marked `Mutant` are what a plausible slip in the code would make of
the definition after them; `PROJECT.json` pairs each with the property that
then fails.

**Refinements.** `RateLimiter` implements `IdealLimiter`, which forgets nothing
(`ImplementsIdeal`, also proved). `ChatStream` implements `ResponsesStream`: however a
provider that keeps to the protocol cuts its answer and wherever that ends, what Codex reads is
a proper stream (`ImplementsResponses`, also proved). `SameMessage`
adds that the conversion in pieces agrees with the code's own conversion of a whole
message, and that Codex's next request brings that message back to the provider.

**Assumptions of the runs.**
- *Fairness of the relay* (`relay_live`). Tokio keeps polling every task that
  is ready: weak fairness of `Send`, `Write`, `WriteFails`, `Unregister`, `Abort`.
  `WriterEnded` is an arm of a `select!` beside the reader; `select!` begins with a
  random arm, so an arm that is ready again and again is taken: strong fairness. A
  peer owes nothing: it need not read, close or vanish. Writing to a vanished peer
  fails in the end because of the keepalive ping.
- *Fairness of the mobile channel.* Weak fairness of each command (`CommandGoesOn`) and
  each host (`HostGoesOn`): tasks are polled and timers fire. Opening a session waits
  for another program, so it may hang; then the abort after five seconds ends the host.
- *Fairness of the launch.* Weak fairness of the Manager, of its timeout and of each
  launcher. Nobody has to open or quit Codex, leave a port or ask for anything;
  failing saves, kills and taken ports are free choices.
- *No overlap* (`Overlap = FALSE`): one access operation at a time and no edit by the
  user during one. The Manager's mutex and its check that Codex is closed give that
  within the Manager; nothing does between the Manager and the launcher, which
  `access_overlap` shows.
- *Undisturbed*: no other process makes a lock directory between the look at a stale
  one and the making of one's own. The code has nothing that prevents it;
  `sync_stale_lock` shows what happens then. A live process writes the owner into its
  new lock within the ten minutes after which an ownerless one is stale.
- The process number of a dead owner is not in use by another process.
- Codex remembers the items of a response in the order in which they are reported done.

## 4. Proofs

Every theorem holds for all values of the constants under the `ASSUME`s of its
module, which say that the null values differ from the real ones, that bounds are
numbers, that sets are finite where a cardinality is taken, and, for the access files, that
what Mirror writes is told from what the user writes (`AuthorshipAssumption`).

- `MirrorAccessProofs!TypeCorrect`: `Typed` is inductive; it adds to `TypeOK`
  (`JobsKnown`) that a busy process has a home and one preparing an enable its
  request.
- `MirrorAccessProofs!ManagedKeepsItsBaseline`: `~Overlap => (Spec => []ActiveHasBaseline)`.
  `ActiveHasBaseline` is not inductive: a rollback writes back a state that was
  read earlier. `Kept` adds `OneAtATime` (one busy process), `AllCovered` (the state
  *and the states an operation may still write* have a baseline of their home) and
  `NoneManagedWhileReplacing` (while the old baseline is away none of those states
  is managed). Crashes and failed writes at every step are included.
- `MirrorAccessProofs!RollbacksAreComplete` (`FailedOperationChangesNothing`),
  `!OtherKeysAreKept` (`UnmanagedKept`), `!BaselineStays` (`BaselineFixedWhileOpen`), all
  under `~Overlap` alone. `Follows` adds to `Kept` what the one busy process knows of the
  files: every file it no longer has before it has the contents of the image it writes or
  puts back (`Tracked`); the two images and the files agree in the keys Mirror does not
  manage (`OthersAgree`); a baseline is away only where a new cycle begins (`Replacing`).
- `MirrorAccessProofs!BaselinesAreUserOwned` (`BaselineIsUserOwned`),
  `!RestoresAreComplete` (`RestoreUndoesTakeover`), `!NewCyclesAreClean`
  (`ClosedCycleIsClean`): `Mild => (StayingSpec => ...)`. `Ownership` joins `Follows` to an
  argument about whose the contents are. Between operations the files are `Sane`: under a
  state that is not active nothing of Mirror's is there, under one of the mixed mode the
  login is the user's. An operation starts from a sane image and writes one (`Purposed`);
  one that is no enable may stop after any write, because each single file it writes is
  sane under the state in force (`MayStop`); an enable may not, and is left out of `Settled`
  from its first write to its confirmation or the end of its rollback (`Enabling`). The
  baseline is copied from a sane image under an inactive state, hence clean.
  `Mild` and `StayingSpec` are needed: an enable killed between its writes, another home and
  an overlapping launcher are disagreements 1 to 3 of section 6, and after two failed
  writes of one enable the rollback itself is incomplete (`torn`; the code reports it), so
  Mirror's files may stay under an inactive state. TLC agrees on `Ownership`: 1,213,594
  states with the constants of `access_faults`.
- `ProvidersProofs!TypeCorrect`, `!KeysStay` (`KeysStayWithTheirProvider`),
  `!DataIsKept` (`UsersDataIsKept`), `!ReportsAreTrue` (`ReportIsTrue`), for any number of
  profiles, entries, logins, faults and kills. `IInv == Typed /\ KeysHeld /\ DataHeld`
  follows the files: before the first write the live files are those of the active
  profile, so the backfill takes a profile's own key back into it; from then on
  settings and live files are of two profiles and the local variables lead back to one.
  A switch that was killed at a write, could not restore, or could not read its settings back
  leaves them so; endpoints and keys still fit, until the next switch begins (`"resumed"`).
  For logins: a pure profile stores none; the last login is in the live file of an active
  profile that is not pure, or in another profile; and if the active profile stores it,
  the live one is it.
- `ProvidersProofs!StreamTypeCorrect`, `!StreamIsProper` (`ImplementsResponses`), `!EndStays`
  (`EndIsFinal`), `!EndGetsTold` (`EndIsTold`, a part of `NothingIsLost`): `Departures = {} => (StreamSpec => ...)`, for any
  positions of tool calls, any number of chunks and any length of text. Each departure
  makes the refinement fail (disagreements 9 and 14 to 16 of section 6). The
  converter writes before Codex reads, so the invariant, `StreamInv`, is about both ends of
  the wire (`WireTells`): reading all that is on it takes Codex by legal steps (`Reads`,
  `Legal`) to a view that agrees with the converter. To agree (`Agrees`) means that every
  place of an item the converter has opened (reasoning, message, one per tool call: its
  `Ledger`) is shown at its output index with the same kind, call, text and end, that no
  two places have one index, and that there are no items but these. Each function the
  converter is made of is then one lemma: from a converter that has `Told` a view of its
  ledger it makes another that has (`PushTold`, `FinalizeTold`, `ContentTold`, `FlushedTold`,
  `PushToolsTold`, `ChunkTold`, ...); that what it adds is legal needs that an item is
  streamed to only while it is open, hence `GoesOn`: while the answer goes on no text or
  tool is done, and reasoning only once the text has begun (`Calm`, `Tidy`). The pieces of
  one chunk, the positions at the end and the order of the whole output are taken by
  induction over a set of naturals, as in the rotation. The last event replaces all Codex
  has by the output; it is the same because the indexes of what is done are exactly those
  below `next` (`InOrderTo`, `OutputIs`).
- `CodexLaunchProofs!TypeCorrect`, `!TrueReport` (`ReportIsTrue`), `!OwnCodex`
  (`OwnCodexOnly`), for any number of launchers, attempts, runs of Codex and commands. A
  launcher past its guard holds it, so nobody else opens Codex with a debug port
  between its look and its launch (`LaunchersSound`); what has the port was opened by a
  launcher (`CodexSound`); and once a command has waited for the launchers, none is left
  that could speak of the Codex it closed (`Young`).
- `MobileRelayProofs!LimiterTypeCorrect`, `!Budget` (`BurstBound`), `!Refinement`
  (`ImplementsIdeal`). The refinement rests on `StaleAfter >= Window`, which makes a
  stale bucket a full one; the code has 600 and 60 seconds.
- `MobileRelayProofs!TypeCorrect`, `!RegistryThroughout` (`RegistryAgrees`: rooms have
  hosts, slots name their owners, the counter counts), from the one inductive invariant
  `Sound`: that a slot's owner is registered is what makes unregistering keep the
  hosts, and the count rests on who is registered.
- `MobileRelayProofs!EvictedAreTold` (`EvictedIsToldToClose`), `!StreamsMakeSense`
  (`FramesMakeSense`). `HistoryInv` adds to `Sound` the whole path of a frame: what a peer
  got, what its writer has queued and what a reader has still to send are one sensible
  stream whose numbers rise to those the sender has used (`StreamsSensible`), a writer's stream
  opens with the registration and ends with the close (`ChannelsSound`), and a target that was looked up under the lock stays of the other role
  of the same room even when it is replaced before the frame is queued (`TargetsAcross`).
- `MobileEndsProofs!TypeCorrect`, `!NoHostEscapes` (`HostsAreHeld`), `!NewestDecides`
  (`LastCommandWins`), `!StatusIsTrue` (`StatusIsOfTheRuntime`), for any number of commands,
  generations and sessions. The argument is ownership: a generation belongs to one
  command, its host is unborn until that command spawns it (`Numbers`), and a host that
  was born passes from hand to hand, to the shared state only if its generation is still
  the newest, and from there to the command that takes the next one (`Hands`, `InCharge`).
- `MobileEndsProofs!OutboxTypeCorrect`, `!SentStaysKept` (`SentIsKept`), `!NothingToldTwice`
  (`ToldOnce`), `!ViewStaysRight` (`ViewAgrees`), for any messages, continuations at a time,
  turns and mishaps. A message that was sent is kept through everything but the user's wandering
  off and two continuations at it; told once it is also not known to be when a call about it timed out or a frame with it was
  late, of which the page cannot know. The invariant has four parts. `Sound`: an answer on its way is to the call its task is in, and there is one
  at most (`AnswersSound`); the page is connected but when the connection is down.
  `Keeping`: a submission not raced for is in one pair of hands. Two tasks at
  work of which one sends race (`Alone`), and so do two submissions that are held at a
  time (`OneAtATime`); a task that sends holds the pending one, and one that concludes holds
  it or what the composer got (`Holding`). That is why no continuation clears a submission
  but its own. While the thread is off the screen all that is held has wandered (`Away`).
  `Telling`: what else may tell Codex of it. A request of a broken connection that still
  counts is of one task, which has no answer to it coming (`LateSound`); a task whose message
  Codex has waits for the answer that says so, or for one that never comes (`SendersSound`); and
  a page of turns that was read shows the message, if Codex has it (`SettlersSound`), so that what is
  given back was not told. Each continuation is reduced to what it does to the three
  places a submission can be in (`Answering`, `Moves`), whatever it does to the view.
  `Viewing`, which `ViewAgrees` needs, says why the page knows whether Codex works unless a call
  timed out. What is on its way is read in the order it happened; only the end of a turn may
  overtake the acknowledgement of a steer. Each answer that tells whether a turn runs
  agrees with the news before it (`News`), and turns are numbered in order, so that an old
  one is known by its number (`Numbered`, `Past`). A steer that was accepted is of the turn
  last heard of (`Steered`), an opening that leaves the page as it is finds it right
  (`Opened`), and the answer to a start is followed by the note of its turn (`Announced`). A
  page that is not sure has a note, an opening or a reconciliation coming (`Seen`). An error
  hides a turn; what Codex says of a turn it told no error of comes behind every error of
  earlier ones (`Blind`).
- `ProviderSyncProofs!TypeCorrect`, `!SubagentsSpared` (`SubagentsUntouched`) under `Spec`, so
  with any races. `Inv` adds to the types that what a process has in hand to write
  never is of a protected session and that every backup agrees with the databases
  about protected rows: that is why a rollback, of another process's backup even,
  does not touch them.
- `ProviderSyncProofs!OneAtATime` (`OneSyncer`) under `UndisturbedSpec`, for any number of
  processes, deaths and faults. `LockInv`: the directory names whoever is inside, or
  nobody while its owner is being written; at most one process holds it; and whoever
  is taking a stale one over finds nobody holding it.
- `ProviderSyncProofs!LockComesBack` (`LockIsReturned`) under `Spec`, so with any races:
  while the lock is taken somebody is past its making, or one was left behind (`Returned`).
- `ProviderSyncProofs!ReportsAreTrue` (`ReportIsTrue`), `!FailuresRestore`
  (`FailureRestoresAll`) under `UndisturbedSpec`. By `OneSyncer` whoever is inside is alone,
  so the rollouts, rows and global state change under its hands only, appended messages
  apart. `WorkInv` says of it, step by step, what is already at the target (`OnTarget`,
  from which the report follows) and that everything but what it has written and not yet
  put back is as in the backup (`Restorable`).
- `ProviderSyncProofs!RotationTyped`, `!TurnsShared` (`TurnsAreKept`), `!FailuresLead`
  (`FailuresLeadOn`) under `RotationSpec`, for any relays, aggregates, requests and saves.
  What a list comes to is proved by induction over a set of naturals, for which the least
  element is taken (`Least`, `Induction`): that the candidates chosen by a model hold no member twice
  (`EligibleSound`), that a member and the others after it are all members in turn
  (`AfterCycles`), and that a round gives each member the places of its weight
  (`RoundShares`). The invariant, `RotationInv`, is in four parts. `TurnsOK`: every relay has
  had its places of some number of full rounds and of the part of a round up to the
  selector's position (`FairTurns`), whoever took the turns; a new selector begins a new
  count. `RequestBasics`: what a request has tried and what it has before it are its
  candidates, each once (`Way`), so that when nothing is left all of them have failed. `AloneOK`:
  a request that is alone is the only one but for probes, which note nothing. `Unovertaken`:
  while no save has overtaken a request all of them have read the settings in force, so
  that nobody replaces or clears the selector with its conversations; and a failover
  selector stands at the member that the request alone with it tries, the
  members after it being what the request has left (`Led`). Without that proviso the two
  promises fail (disagreements 10 and 11 of section 6). TLC agrees on `RotationInv`: all
  1,101,267 states of `rotation`.
- `SessionsProofs!TypesHold`, `!ConversationSurvives` (`RolloutNeverLost`) under `Spec`, so with
  any number of processes, databases and attempts, in every interleaving, whatever fails
  or is killed. `IndInv` adds to the types where each process may be and what it then has
  in hand (`Placed`), and that no file has more lines than Codex appended (`Fits`), for which an
  unused inode must always exist (`FreshIsFresh`). `KeepInv` follows the rollout. It leaves its
  path in two ways: a delete removes it, whose own backup then holds a rollout
  (`BackedUp`); or a move or a recovery renames a side file over it, which must then be
  there. It is, since an attempt's files and journal are nobody else's while it runs
  (`Owned`, `Apart`): a recovery takes a journal only after its writer let go of it, and one
  process holds the write transaction in which the file is renamed. No lock on the
  rollout is needed for that, which is why the disagreements of section 6 lose no rollout.
- `SessionsProofs!MovesAlwaysSettle` (`MovesSettle`), `!MovesAreKept` (`RecoveryKeepsMoves`) under
  `OrderlySpec`, whose three assumptions are needed: a rollout that lags behind its row and
  a put-back that is not alone are disagreements 7 and 13 of section 6. `SettleInv` says, of a
  session one database lists and until a delete is tried (`Quiet`), that rollout and row
  agree but for at most one move (`Consistent`). That one is `Torn`: its
  rollout was renamed, its row not changed, and its journal and its original are both
  there, so that recovery has one plan, to put the original back. The rest of the invariant
  says why no step leaves these two cases: a move begins with no journal left of that
  database and has its own side files until its commit (`MovingSound`); a recovery between its
  look at the rollout and its commit holds the write transaction, and one that comes late,
  its journal gone, finds no side file to rename (`RecoveringSound`). A move reported as done is
  never torn, hence `MovesAreKept`. TLC agrees on `SettleInv`: 1,836,390 states with two databases.
- `SessionReportsProofs!UndoBringsBack` (`UndoRestores`), `!ManagerTellsTruth`
  (`ReportsAreTrue`, from `!MoveTellsTruth` and `!DeleteTellsTruth`) under `Spec`: what is told
  of an operation nobody interferes with, in a system where others did interfere before.
  The notes of an operation (`before`) stay true while it is alone (`TrulyAlone`). For an
  undo, `UndoSound` says what its checks have seen and what it has put back so far, and
  `Ledger` that a token has one backup of each database. `Writers` says that who holds a database's
  write transaction is at a step inside it, so an undo that is alone never waits for it. `MoveSound`
  says what a move knows at each step: the journals left of a database are behind it, or
  it finds the row and the rollout of its notes (`Known`), so that its commit or its put-back
  ends at what it reports. `DeleteSound` follows the delete: the first backup holds all
  it found and every backup is of what it found (`Backed`), what is gone since is what its
  backups hold (`Within`, `Gone`, `Tabled`), and the undos of a failed delete bring that back
  (`Undone`). It allows for one failure: after two, the token of what is gone can be lost
  (section 6).

**Only model-checked.** Liveness under fairness is out of the prover's reach
(`LostConnectionsEnd`, `ToldHostsEnd`, `NobodyWaitsForEver`), and so are the launcher's
repair beside the Manager and what the configurations of section 6 show. Of the stream
the words of `NothingIsLost` and `SameMessage` are not proved: they compare flattened and filtered
sequences, which the community modules define as folds, and a fold takes its step as an
operator, which no theorem about folds can be applied to here. Where a list is gone through
by a recursive function, as in the rotation, `PushTools`, `FinalizeTools` and the order of the
output, the induction above works.

## 5. What is not modelled

- *Access*: the restore the uninstaller runs in its own process
  (`restore_before_uninstall`), the detection of a provider an older version left,
  disk-headroom checks (an early refusal that writes nothing), probing an access.
- *Switch*: aggregate profiles, model catalogs, the common configuration, renaming of
  provider ids, imports, other commands that write settings or live files.
- *Launch*: installing the watcher, the choice of the debug port, the bridge's and the
  computer-use guard's watchdogs, macOS.
- *Relay*: HTTP routes, assets, address resolution behind proxies, byte counters.
  The limiter is a module of its own; in the relay its refusal is a choice.
- *Desktop end*: uploads and downloads, forwarding of RPC, pairing, encryption.
- *Phone*: attachments, resuming and forking threads, `interruptTurn` (it asks Codex to end the
  turn and may synchronise, which the model has as `TurnEnds` and `sync`; it also notes an unknown turn's id), rendering, pairing, encryption; a
  message is told from another by identity, in the code by its text.
- *Provider sync*: how the target provider is chosen, the read-only repair audit and
  the encrypted-content warning, the columns `has_user_event` and `cwd`, Codex writing
  to its databases. A database and its sidecar files are one.
- *Sessions*: other schemas than the thread's, `session_index_cleanup.rs`, rows of other
  tables, validation of paths.
- *Proxy*: tools, instructions and options of a request, names and arguments of calls
  (with the patch texts among them), usage, white space, the cutting of bytes into blocks.
- *Codex, the network, the operating system* are what the code sees of them.
- *Whole components*: those with status `not_modelled` in `PROJECT.json`, with the
  reason. Injection, marketplace, skills, updates and Windows integration are I/O
  without state of their own that other parts rely on. The user interface and the
  scripts injected into Codex have no protocol beyond the calls modelled here.

About a sixth of the implementation's lines are mapped. What is left is for the larger
part data conversion (configuration files, requests, catalogs), presentation and calls of
the operating system, where unit tests reach what a model would say.

Hazards seen while reading, beside those `PROJECT.json` lists: Codex started by hand between
the steps of an enable (`commands.rs:3345`); the uninstaller's restore
without the Manager's mutex (manager `main.rs:54`); the launcher's rollback to an old
snapshot (`mirror_access.rs:2663`); a subagent known only by an unreadable rollout
(`provider_sync.rs:861`) and a lock whose removal fails (`:427`); a relay redialled at once
after it closed cleanly (`mobile_relay_host.rs:402`), a peer that vanishes without a close
(relay `main.rs:411`, see `relay_live.cfg`); a `previous_response_id` that names the same
conversation anew with every turn (`protocol_proxy.rs:891`); Codex started while a switch is probed
(`commands.rs:4138`), settings saved without the switch's mutex (`commands.rs:725`, `:5788`);
the phone's steer and reconciliation deciding on one message (`app.js:3198`), its queued
submissions and resumptions (`app.js:3063`, `:3117`, `:3547`, `:3612`), late frames
and answers in its transport (`relay.js:188`, `:309`, `:546`); a stream cut inside a character or a block
(`protocol_proxy.rs:384`); a helper shut down while Codex is kept (`launcher.rs:470`), the
status overwritten by a second launcher (launcher `main.rs:172`), a launcher that ends
without one (`commands.rs:665`); a move tried in one database
after another (`storage.rs:169`), a delete whose second failure drops the token of the database that
failed first (`:92`, so `DeleteReportIsTrue` stops promising it there), the rename of a rollout under its lock (`:2512`).

## 6. Known disagreements

The code and what its documents or comments say differ in 1 to 13; 14 to 18 nothing in the
repository speaks of, but the properties except them. Each has a configuration in which TLC
finds the counterexample, with just the freedom it needs, so that the trace is short; the
passing runs exclude exactly that freedom. (With other departures than `"breaks"`,
`stream_after_end.cfg` is to have `MaxChunks = 3` and `MaxText = 4`.)

| Configuration | Property | Module |
| --- | --- | --- |
| `access_killed_enable.cfg` | `BaselineIsUserOwned` | `MirrorAccessMC` |
| `access_other_home.cfg` | `RepairInManagedHome` | `MirrorAccessMC` |
| `access_overlap.cfg` | `RepairWhileManaged` | `MirrorAccessMC` |
| `relay_takeover.cfg` | `OnlyTheCurrentPeerSpeaks` | `MobileRelayMC` |
| `sync_appends.cfg` | `AppendedKept` | `ProviderSyncMC` |
| `sync_stale_lock.cfg` | `OneSyncer` | `ProviderSyncMC` |
| `sessions_lagging.cfg` | `RecoveryHasAPlan` | `SessionsMC` |
| `sessions_put_back.cfg` | `RowAndRolloutAgree` | `SessionsMC` |
| `switch_login.cfg` | `LoginIsRetained` | `ProviderSwitch` |
| `switch_login.cfg` with `Entries = {}`, `MaxLogins = 1`, `MaxFaults = 1` | `KeysStayAfterAll` | `ProviderSwitch` |
| `stream_after_end.cfg` | `EndIsFinal` | `ChatStream` |
| the same with `Departures = {"reasoning"}` | `ImplementsResponses`, `NothingIsLost`, `SameMessage` | `ChatStream` |
| the same with `Departures = {"calls"}` | `ImplementsResponses` | `ChatStream` |
| the same with `Departures = {"chunks"}` | `ImplementsResponses`, `NothingIsLost`, `EndIsFinal`, `SameMessage` | `ChatStream` |
| `phone.cfg` | `ViewIsExact` | `PhoneOutboxMC` |
| `rotation_overtaken.cfg` | `ConversationStays` | `RotationMC` |
| `rotation_concurrent.cfg` | `FailureMovesOn` | `RotationMC` |
| the same, with the next property for its own | `OneBadMemberStopsNobody` | `RotationMC` |

1. *A killed enable loses the baseline* (`mirror_access.rs:1129`). The managed state is
   saved after the files are written. Killed in between, the next enable takes the
   state for a new cycle and copies Mirror's files into the baseline.
   `docs/product/2026-07-17-mirrorplus-prd.md:104` says later takeovers never overwrite it.
2. *Repair in another home* (`mirror_access.rs:769`). The launcher's repair does not
   compare the state's and the baseline's home with `CODEX_HOME`; the comment at line 765
   says repair needs their agreement.
3. *Repair after a restore* (`mirror_access.rs:774`). The launcher decides on a state it
   read before the Manager's restore and writes after it, against the same comment.
4. *Two phones* (relay `main.rs:968`). A replaced phone's frames are forwarded until its
   writer has delivered the close; `docs/mobile/Architecture.md:510` says one phone is
   active.
5. *Appended messages* (`provider_sync.rs:1473`). Between the last check of a rollout and
   the rename, and at every rollback, a message Codex appends is overwritten; the comment
   at line 1469 says none is ever lost.
6. *Two takers of a stale lock* (`provider_sync.rs:794`). The stale directory is removed by
   name. The slower of two takers removes the lock the faster has just made.
7. *A move that cannot be finished* (`storage.rs:2837`). A session whose rollout lags
   behind its row (which the move allows) is moved and the process killed: recovery meets
   three workspaces and has no plan, and every later listing fails on the journal.
   `docs/qa/2026-08-21-v1.2.45-final-acceptance.md:82` (DP-003) asks that a move be
   finished or undone.
8. *A login that is not retained* (`relay_config.rs:2618`). From an official to a pure
   profile and on to a mixed one the login stays in the official profile only, and Codex is
   signed out; `README.md:23` and `docs/Mirror-X-Codex-用户安装与使用指南.md:187` say the
   login is kept.
9. *An error after the end* (`protocol_proxy.rs:405`, `:1712`). If the provider's connection
   breaks after `[DONE]`, a completed response is followed by `response.failed`.
10. *A conversation that changes its member* (`relay_rotation.rs:303`). A request that read
    the settings before an aggregate became active clears the selector when it is answered;
    the conversations are then assigned anew. `docs/plan/20260527160751519_聚合API供应商轮转实施计划.md`
    (line 35) says a conversation stays with its member.
11. *A member skipped* (`protocol_proxy.rs:605`). Two requests that fail at the same member
    move the selector twice; with two members it is back at the one that failed. Line 34 of
    the same plan says a failure leads to the next member.
12. *One missing key stops all* (`relay_rotation.rs:348`). A member without a key, or a deleted
    one, makes every request of the aggregate fail before anything is sent; line 83 of the
    plan says an unavailable member does not affect the others.
13. *A put-back that meets a recovery* (`storage.rs:621`). When the commit of a move fails,
    SQLite has rolled back, and the advisory lock is on the inode the rename took away: until
    the move has put the old rollout back, another move may find the rollout already at its
    target, change the row only and be done. The put-back then leaves row and rollout apart,
    with no journal to tell.
    `docs/qa/2026-08-23-v1.2.45-public-release-acceptance.md:77` (DP-003) says that locks
    and concurrent changes are recoverable and nothing is overwritten.
14. *Reasoning taken up again* (`protocol_proxy.rs:1379`). Reasoning that comes after text or a
    call is streamed to an item already reported done, and is in no item Codex keeps.
15. *A call that changes its id* (`protocol_proxy.rs:1469`). A later piece with an id, an empty one
    even, replaces the id under which the open item was announced.
16. *More after the end* (`protocol_proxy.rs:376`, `:1499`). A block after `[DONE]`, or one read after
    an error, is converted like those before: a completed response is streamed to, or fails.
17. *Saved settings that cannot be read back* (`relay_switch.rs:177`). The switch ends there,
    past its recovery (lines 181 to 199): the settings name the target, the live files are the previous
    provider's. The next switch takes those into the target's profile, an endpoint beside
    another provider's key. After a kill or a recovery that failed it is the same.
18. *An error of a turn that goes on* (`app.js:2980`). The page takes an error for the end of the
    turn: a turn Codex goes on with is not shown until it is heard of again.

## 7. What could come next

1. The tools of a request of the proxy, whose names and patch texts are converted there
   and back.
2. The uninstaller's restore as a third process of `MirrorAccess`, and the image skill's
   takeover with its own baseline.
3. Uploads and downloads of `MobileHosts`, composed with `MobileRelay`.
4. The application state Mirror keeps for Codex (`codex_app_state.rs`), a pair of files with
   backup and rollback.
5. Proofs: that no word of a stream is lost, with the flattening and filtering of
   sequences written as recursive functions, so that the induction of the other proofs
   reaches them.
