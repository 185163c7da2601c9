# City-G verification project

TLA+ models of the City-G server, of the acceptance engine underneath it, of
its two hosts (the native API and the Cloudflare worker) and of the desktop
client's state machines; TLC configurations that check them on small instances;
and TLAPS proofs of their safety properties for every value of the constants.
Paths are relative to `src/crates/` unless they start with `src/`.

## The system and its parts

City-G is an end-to-end encrypted group protocol with a server that sees no
content. Clients build *epoch bundles* (an anchor, its proofs and its
envelopes); the server validates, orders and stores them.

| part | code | role | here |
| --- | --- | --- | --- |
| epoch journal | `cityg-server/src/journal_io.rs`, `lib.rs` | append-only file of accepted bundles, replayed at start | `ServerJournal`, `DurableLog` |
| room governance | `cityg-server/src/lib.rs`, `roster_state.rs`, `kbroad_state_io.rs` | broadcast key (KBROAD) and its generation, admin list, spent admin proofs, side file | `RoomAdmin` |
| acceptance window | `msphf-orchestrator/src/mhw.rs`, `time.rs`, `accept/`, `lib.rs` | live heads, replay guard, pivot parities, logical clock | `AnchorWindow` |
| epoch counters and barrier gate | `msphf-orchestrator/src/accept/` | device chains, forward caps, barrier version, refresh limits, checkpoints | `EpochGate` |
| roster and slot leases | `cityg-server/src/roster_state.rs`, `lib.rs`, `barrier_tree_state.rs` | members, tree slots and generations, join tickets, removals | `SlotRoster` |
| native API and room runtime | `cityg-api/src/`, `cityg-runtime/src/` | lanes, volatile room state, retention, coalesced leave tickets | `NativeRoom` (partly) |
| worker room | `cityg-worker/src/cloudflare.rs`, `do_store.rs`, `rehydrate.rs` | the same room as a durable object: checkpoint, replay, routing index | `WorkerRoom` (partly) |
| realtime hints | `cityg-worker/src/cloudflare.rs`, `cityg-gui/src/native/websocket.rs` | numbered notifications, acknowledgement, replay, reconnection | `RealtimeFeed` |
| client barrier state | `cityg-gui/src/native/` | pending update, publication, epoch sync, recovery, roster check | `ClientBarrier` (partly) |
| desktop chat | `cityg-gui/src/native/` | poll loop, sending, message list | `GuiSession` |
| history commitments, barrier tree, anchor stages | `cityg-server`, `msphf-orchestrator` | hashes and validation of one bundle | abstracted |
| primitives, tools | `capss`, `msphf-*`, `cityg-pqc`, `pqcrypto-kyber`, `anchor-seed`, `cityg-config`, ... | proofs, encryption, parsing, harnesses | not modelled |

How they meet: a newcomer asks for a **join ticket** (slot promised, pending
record written), posts a join bundle, and later posts a *join-finalize* update.
A member asks for a **merge ticket** and posts a merge that refreshes keys or
removes someone. `CityGServer::accept_epoch` clones the acceptance context and
the roster, runs the engine (`AnchorWindow`, `EpochGate`) and the roster rules
(`SlotRoster`) on the clones, appends the bundle to the journal
(`ServerJournal`) and then installs the clones. A removal sets
`rotation_required`; governance calls (`RoomAdmin`) clear it and write the side
file. Around the server, the native API keeps it in memory behind a lock and
indexes what it accepts (`NativeRoom`); the worker rebuilds it from a checkpoint
for every request (`WorkerRoom`) and announces changes (`RealtimeFeed`). A hint
makes a client sync its session (`ClientBarrier`) and fetch messages
(`GuiSession`).

`PROJECT.json` lists the parts with their sources, the hazards of each with the
line where they bite, and for every definition that models code the lines it
stands for.

## Modules

Definitions carry the names of the functions they model. One action is one
whole handler, or what a handler does between two awaits or under one lock. A
refused call changes nothing, because the server works on clones, and is no
step, except where the code changes state before it refuses. A definition
commented *Faulty variant* is a mistake that code could contain; it is used to
see that a property notices it and is no part of any specification.

**ServerJournal** and **DurableLog.** The file is a sequence of cells, a record
is a length prefix of two cells and a body, so a write can stop anywhere.
`BeginAppend`, `WriteCell` and `SyncAndCommit` are the append of `accept_epoch`;
`WriteFails` and `SyncFails` its error paths, which leave what was written;
`CrashAndRestart` loses some of the unsynced tail and replays the rest. All
bundles have the same length, so the prefix of one record reads like that of
another. A replayed bundle goes through the acceptance rules again. One of them
is in the model, because what it compares with changes: a bundle must carry the
broadcast key of the registry, and the replay runs under the one key that was
saved last (`key`, `saved`, `sealed`; `rotate_group_kbroad`, whose save may
fail, and `persist_kbroad_state`). So `Journaled(file)` is what the journal
hands to a replay and `recover_from_state(file)` the prefix of it under the
saved key; the other rules may end the replay earlier, and a restart applies any
prefix of that. `DurableLog` says what this promises without files: a log of
which a first part is durable, a restart that serves a first part of the log
without an epoch under another key, and a flag that says the log took damage and
no longer grows. `Log == INSTANCE DurableLog WITH ...` in `ServerJournal` is the
refinement mapping (the log is `Journaled(file)`), `ImplementsLog` the claim.

**RoomAdmin.** One room's governance record in memory (`mem`) and in the side
file (`disk`). Each handler changes memory first and saves afterwards; the save
may fail and the reply may be lost. `OtherRoomPersists` is the save of another
room, which writes this room's record too; `Restart` reads the file back and
applies the overlay after the replay. Join and merge tickets write only when a
rotation is owed (`ensure_kbroad_ready`) and otherwise name the key memory has,
which a failed save may have left out of the file. The history variables hold
what clients were told: `acks`, `bootstrapped`, `latest` (the generation the
latest reply named) and `named` (the names told while the file held them; a name
given from memory only is no promise, since a restart takes it back although the
client library calls the number monotonic, `cityg-api-client/src/lib.rs:936`).

**AnchorWindow.** Live heads with their reverse index, the rho guard, the parity
store, and the mirroring of parities onto the root an anchor leads to. All
groups share one logical clock: another group's anchor ages this group's
entries. Signatures and proofs are the fact that an anchor is well formed; a
seed is accepted once per group.

**EpochGate.** The counters of one registered group: device chains with the
three forward caps, the barrier version and roots, PCS-refresh distances and
slots, the checkpoint counter, join-finalize and revocation updates. Headers
range over `Ecs`, `Links` and `Versions`, wrong values included.

**SlotRoster.** Members, active, pending and revoked leases, the slot allocator
with its lazily rebuilt free set, tickets that may be used late or never, joins,
updates with and without a join-finalize token, removals (of another by an
admin, of oneself also in a reused slot with the token, `updater_valid`), and
the rotation that a removal forces. A membership root is modelled by the set it
hashes. A merge names the history commitment of the state it was built on, so
its ticket and its acceptance are one action; a join does not, so they are two.

**NativeRoom.** One room of one lane while the process runs. The lane, the
volatile room state and the ticket cache have a lock each, and a handler reads
the clock before it waits: what one lock covers is an action, and its stamp
(`Stamps`) is up to `MaxDelay` old. An acceptance is three steps (lane, index
update, cache clearing), of which `AcceptMax` run at once. Bundles, scopes and
messages are pruned by age when a request finds that due; leave tickets are
coalesced in a cache with a lifetime and a size. `sent`, `overlapped` and a
ticket's `until` are history.

**WorkerRoom.** One room of the worker. Every request loads the checkpoint,
builds the configured server, replays the stored bundles on it, restores the
metadata, acts and writes what changed. The configuration may register the
room's key (`seeded`; `seed_demo_room`); otherwise `handle_bootstrap_room` does,
and only the metadata knows of it. `accept_epoch` has the rules that decide
whether a replay repeats what was accepted: a registered group without a
rotation due, the key's generation, the barrier version, leases and tickets.
Rotations, changes of administrators and tickets (which rotate when a rotation
is due) write the metadata and all records again. Handlers are one step each,
but for the acceptance of a revocation, which awaits the alias service between
reading the checkpoint and writing the next one; other requests run meanwhile.
The writes of a request are no transaction and may stop in between, those of an
acceptance (`AcceptTears`) and those of a checkpoint, which deletes the records
before it writes them (`CheckpointTears`). The routing index is written at best
effort and rewritten by `resync_and_resolve_gid_for_we_epoch_id` when a lookup
misses.

**RealtimeFeed.** Numbering, replay buffer and socket attachment of the room
object; the client's acknowledgement of every numbered frame and its `resume`.
Connections break, and the platform may drop the object's memory while the
socket, with its attachment, stays open.

**ClientBarrier.** Two copies of the session, in memory and on disk, and three
tasks that work on copies of their own: publication, epoch sync and roster
refresh. Merges on the wire may be accepted, refused or answered too late; the
device may crash. A finalization first verifies in full the state the device
joined with (stage `verify`) and marks it on disk; a publication whose own
update cannot be activated falls back to a sync of its own (`fallback`,
`resync`). A key is named by its version and the attempt that made it; whether
the device can open another member's update is a choice.

**GuiSession.** The poll loop, the sync and the send, each on values copied from
the session; the server stamps messages with its clock and the device its own
messages with a clock that is `Skew` ahead. A message being sent has an entry of
its own beside the fetched ones (`own`), which its answer replaces and which a
lost answer leaves behind as failed. What a sync learns about the barrier
is a choice here and the subject of `ClientBarrier`.

`MC<Module>` instantiates a module for TLC and defines its symmetry sets.
`<Module>Proofs` holds its theorems; those of the two hosts are together,
`NativeRoom` and `ServerJournal` in `NativeProofs`, `WorkerRoom` and
`RealtimeFeed` in `WorkerProofs`. Since these extend two components each, the
specifications of `ServerJournal` and `RealtimeFeed` are named `JournalSpec` and
`FeedSpec`, and their parts likewise (`JournalInit`, `FeedNext`, `FeedTypeOK`).

## Runs

Runs that pass:

| run | distinct states | shows |
| --- | --- | --- |
| `journal` | 99,464 | `CleanAcksSurvive`: epochs acknowledged while the file was whole are handed to the replay, in order, after any later torn write, failed sync or crash, and replayed unless an epoch under another key than the saved one comes first; `ImplementsLog`: the bytes implement the durable log |
| `room_admin` | 253,389 | `ProofSpentOnce`, `GenerationNamesOneKey`, `NamedGenerationsGrow`, `AdminNeverLost` and `RotationDemandKept` under failing saves, lost replies and restarts |
| `window` | 527,040 | `IndexExact`, `GuardCoversJoins`; a group with a recent anchor can get a merge ticket (`TicketAvailable`) and the heads the ticket names are accepted (`TicketMergeable`) |
| `epoch_gate` | 292,465 | `EcOrder`, `PcsSpacing`, `NoDeviceStuck` for two devices, one of which may lag |
| `slot_roster` | 657,051 | `OneOccupantPerSlot`, `RevokedLeaseIsPast`, `MembersHaveLeases`, `RevokedHaveLeases`, `CapacityMeansSlot`, and `FinalizedStay`: only a removal takes a finalized member off the list |
| `native_room` | 3,074,647 | `IndexFollowsLane`: the member index agrees with the lane although index updates overtake each other; `CachedTicketIsRecent`: a coalesced leave ticket is out of date by its lifetime at most; `AckedMessageIsServed`: pruning spares what is within the retention |
| `worker_room` | 138,516 | `EpochsKept`: however accepts overlap or fail between their writes, no acknowledged epoch leaves the store, unless a checkpoint fails while it rewrites the records; `SerialAcksKept`: without overlap nothing acknowledged is lost; `Resolves` (liveness): an acknowledged epoch becomes routable |
| `realtime_feed` | 84,682 | `WindowIsTail`, `LiveHintsArrive`: a client on an open socket misses no hint; `Drains` (liveness): acknowledgement and replay do not feed each other for ever |
| `client_barrier` | 2,218,080 | `KeysAreAccepted`, `FullMeansCurrent`, `DropIsSettled`: no copy of the session ever holds a key the room did not accept; a session marked as verified in full holds the key of its own version, or is that of a device that verified what it joined with and has no key yet; and a sync gives up a pending update only once its fate is settled |
| `gui_session` | 1,557,754 | `ShownOnce`: a message has one entry, but for the one being sent and the failed entry of a send whose answer was lost; `PollAlive`, and `Delivered` (liveness): a message later than the cursor is shown unless an own message moved the cursor past it |

Type invariants are checked by `journal`, `native_room`, `worker_room`,
`realtime_feed` and `client_barrier`, and proved for all ten modules.

Runs that end in a counterexample, each against a sentence of the repository
(quoted with its place under `findings` in `PROJECT.json`):

| run | shows |
| --- | --- |
| `journal_acked` | the replay runs under the latest saved broadcast key, so an epoch acknowledged before a rotation is refused by the restart after it, and all later ones with it. (Without rotations the same property fails after a torn write: `open` does not cut off a torn record, and epochs acknowledged after it are lost.) |
| `worker_rehydrate` | the worker replays the stored bundles on the configured server and restores registration, key and tickets only afterwards: after `handle_bootstrap_room` and one accepted join the replay refuses the join, and the room answers no further request. (In a seeded room the replay gets further, up to a finalization or an epoch after a revocation.) |

### What shaped the properties

Several properties carry an exception because the code has a behaviour that the
plain statement would exclude. The models contain it:

- a restart reads back a record saved before a removal and forgets the rotation
  the removal demanded (`RotationDemandKept` excepts `Restart`);
- a window is keyed by the seed context too, so `h_max` bounds the heads of a
  window and not those of a parent root;
- only the epoch of the *last* refresh is barred for joins: a lagging device may
  use one that spans an earlier refresh;
- of two joins on one parent root the later takes the first off the list; only a
  finalized member is safe from this (`FinalizedStay`);
- after a second removal new join tickets carry roots the gate refuses, until an
  update that removes nobody;
- an own message moves the chat's cursor to the device's clock, and messages
  stamped before that are passed over (`jump` in `Delivered`);
- an update accepted while a sync is between its ticket and its lookup may be
  replaced by the older barrier; the session written then has neither its key
  nor its pending record;
- a request that writes while an acceptance awaits the alias service has its
  message, ticket or governance change overwritten by the copy the acceptance
  holds (`overlapped` in `SerialAcksKept`);
- a checkpoint that fails while it rewrites the records takes acknowledged epochs
  with it (`torn` in `EpochsKept` and `Resolves`);
- a rotation of the broadcast key ends what a replay accepts of older epochs
  (`sealed` in `CleanAcksSurvive`);
- a message whose answer was lost keeps its failed entry beside the fetched copy
  (`own` in `ShownOnce`);
- a leaf with two epochs between the lane's lock and the room lock at once, a
  leave and a join, may keep the entry of the earlier one (`overlapped` in
  `IndexFollowsLane`);
- a message goes out of reach with the bundle of its epoch, even if it is
  younger than the retention itself (`bundled` in `AckedMessageIsServed`).

### Bounds, and why they are enough

- `journal`: three epochs and two interrupted writes: an epoch before, between
  and after the tears; a body of two cells lets a write stop at every kind of
  place; two keys, so that epochs lie before and after a rotation and a key that
  comes back.
- `room_admin`: three keys give two keys competing for one generation after a
  lost rotation; two admins let one revoke the other; two proofs are one to
  replay and one to do something else with.
- `window`: two groups (the second makes time pass), two roots, three seeds per
  group, TTLs of one and two ticks, so entries expire between a ticket and its
  merge; `RhoLimit` = 2 is reached. The seeds bound the clock.
- `epoch_gate`: epochs 0 to 3 with caps 2, 1, 2 and a slot width of 2 contain
  both sides of every comparison.
- `slot_roster`: three leaves on two slots, so somebody waits for a slot to be
  released; four updates allow join, removal, reuse, finalize and a second
  removal.
- `native_room`: two leaves for a cache of one entry, so entries are evicted;
  three epochs, two in flight, allow a join and a leave to overtake each other;
  retention, pruning interval, lifetime and delay of one tick in a clock of two
  put a stamp on either side of each cutoff. One ticket request suffices for a
  ticket that is stored after the acceptance that outdates it.
- `worker_room`: four epochs allow a join, its finalization, a second join and a
  leave that awaits; one message, one ticket and one fault can each fall into the
  await. `MaxGov` = 2 is a bootstrap and one rotation or change of administrators;
  rooms with and without a seeded key are both initial states.
- `realtime_feed`: five notifications against a buffer of two and a lag limit of
  three produce lag notices, replayable gaps and gaps beyond the buffer; two
  broken connections and one loss of memory combine.
- `client_barrier`: two own attempts and two more epochs of others let an own
  update be overtaken, retried and settled late, with one crash anywhere.
- `gui_session`: two messages of others and one own, two epochs, two ticks and
  one tick of skew: the own stamp lies ahead of a stored message's; one failure
  and one session change within the epoch.

`epoch_gate`, `slot_roster`, `realtime_feed`, `client_barrier` and `worker_room`
disable the deadlock check: their behaviours end at the bounds. `room_admin`,
`window`, `journal`, `native_room` and `gui_session` check it. Symmetry is used
only in runs without liveness properties, over values the modules treat alike
(for `slot_roster` the leaves that are not admins).

### Fairness

The server runs only when a client calls, and its specifications assume no
fairness; availability is stated as safety (`TicketAvailable`,
`CapacityMeansSlot`, `TicketMergeable`, `NoDeviceStuck`). Three specifications
assume weak fairness, of steps the code takes by itself:

- `RealtimeFeed`: the client's reconnect loop (`Connect`), its read loop
  (`Receive`) and the platform's delivery of a signal to the object
  (`record_websocket_signal`). Not fair: notifications, broken connections and
  loss of memory.
- `GuiSession`: a request that was started ends and the interface thread handles
  its result (`perform_fetch`, `handle_fetch_result`, `perform_epoch_sync`,
  `handle_epoch_sync_result`). The second is the interface's own event loop. The
  first is an assumption about the network and the server: the HTTP client is
  built without a timeout (`cityg-api-client/src/lib.rs:272`), so a request that
  never ends would stop the loop. Failures stay possible and are bounded, hints
  and sends are up to others.
- `WorkerRoom`: somebody asks again for an epoch that was acknowledged; members
  send, fetch and read bundles by epoch id, and each lookup that misses runs the
  resync.

## Proofs

The theorems hold for every value of the constants that satisfies the named
assumption of the component's module; each of those asks only for types, finite
sets of leaves, positive limits and non-empty sets. The bounds that keep TLC's
state space finite are arbitrary naturals. All of it is safety: every invariant
and every action property of the passing runs, and the refinement, has a
theorem.

**NativeProofs**, the journal (`JournalTypeCorrect`, `JournalKeepsCleanAcks`,
`JournalImplementsLog`, `KeptForEver`, `DurablePrefixStable`). What the two
readers compute is characterised first: `load_entries` yields the bodies up to
the first record that is not whole (`LoadEffect`), `Journaled` the one sequence
of epochs that is handed to the replay and where the file stops
(`RecoverEffect`, `RecoverUnique`), and `recover_from_state` a first part of it,
which ends before an epoch under another key than the saved one or with it
(`KeyedReplay`, `KeyedPrefix`). From there on everything is about records of
files of which one begins with the other. `JournalInv` needs two things beyond
the types: the cells of the running append are written behind the synced part
and belong to an epoch under the key in force, and *the synced part alone* holds
the safe epochs in order. The property says this of the whole file only, and a
crash would not preserve it. The same lemmas give the refinement: each step
keeps `JournalInv` and is one acceptance, failure, rotation or restart of
`DurableLog`, or none (`JournalStep`). `LogInv` is the invariant of the abstract
log (what is kept lies in its durable part), and `KeptForEver` and
`DurablePrefixStable` carry its promises over to the journal.

**NativeProofs**, the room (`NativeTypeCorrect`, `NativeIndexFollowsLane`,
`NativeTicketIsRecent`, `NativeMessageIsServed`). `RoomInv` has a part for each
store, and each part is kept by every step. `LaneOk`: what is between the locks
names epochs of the lane. `IndexOk`: an epoch about a leaf that waits for the
index is the last one about it, unless two were there at once; this is what
makes the index exact when it arrives. `MessagesOk`: an epoch gets its scope and
stamp once and no message before, so the stamp a message was sent under is the
one its bundle is pruned by; `CutoffSpares` relates the cutoff of a request that
waited to the clock. `CacheOk`: a ticket was built after its stamp, so it went
out of date no earlier than its age counts from; the bound of the cache is a
comparison of cardinalities.

**WorkerProofs**, the room object (`WorkerTypeCorrect`, `WorkerKeepsEpochs`,
`WorkerKeepsSerialAcks`). Bundles are stored under indices; an append takes the
number of records as its index, and a checkpoint writes all of them again in
order. `WorkerInv` says that the indices have no gap while no checkpoint is torn
(`Dense`; then an append overwrites nothing and a rewrite loses nothing,
`AppendEffect`, `ReplaceEffect`; an accept that fails half-way appends or leaves
the records alone),
that what is stored or awaited never outnumbers what was offered (`Counted`,
which bounds the index), and that, as long as nothing wrote meanwhile, the
copy a suspended accept will write back covers everything answered (`Covers`).
The rewrite goes by rank, so `Ranks` shows that a finite set of numbers has an
element of every rank below its size.

**WorkerProofs**, the hints (`FeedTypeCorrect`, `ReplayWindowIsTail`,
`HintsReachLiveClients`). The last two do not depend on the numbers the two
sides acknowledge, so for them the frames on the wire need only be a sequence
(`FeedShape`): every step either adds frames to the wire or lets the client
handle the first one. The types do depend on them: `FeedNumbers` says that no
number on the wire, in the attachment or in the buffer is above those given out.

In both modules the models' recursive functions are reasoned about through
`Iterate` (the function exists) and `Least` (induction, as the absence of a
least counterexample).

**RoomAdminProofs** (`TypeCorrect`, `ReplayProtection`, `GenerationUnique`,
`AdminRemains`, `GenerationsGrow`, `DemandKept`). The properties speak of what
clients were told, the handlers of two copies of a record. The invariant `IInv`
says that each copy by itself keeps every promise (`Keeps(mem)`, `Keeps(disk)`):
memory, because the next handler checks it; the file, because a restart replaces
memory by it. A step is then shown to let each copy only descend from a copy
before (`Descends`), and to reply only what both copies hold (`Replies`).

**AnchorWindowProofs** (`WindowTypeCorrect`, `WindowIndexExact`,
`WindowGuardCovers`, `WindowTicketAvailable`, `WindowTicketMergeable`).
`WindowInv` adds to the properties that stamps lie in the past and everything
kept is live (`Timely`), that seeds of heads and parities are spent
(`SeedsSpent`, so a new head collides with no old one), that a parity agrees
with its head and outlives it (`ParityMatches`), and that a recent group has a
head as recent as its last anchor under its latest root (`FreshParity`).
Joins and merges share one lemma about the anchor that lands (`LandedKeeps`).

**EpochGateProofs** (`GateTypeCorrect`, `GateEcOrder`, `GatePcsSpacing`,
`GateNoDeviceStuck`). The gate compares with the last refresh only;
`RefreshesKnown` says that the last refresh of the group, and of a device, is
the largest of all, so that one comparison stands for all of them.

**SlotRosterProofs** (`RosterTypeCorrect`, `RosterOneOccupant`,
`RosterRevokedPast`, `RosterMembersLeased`, `RosterRevokedLeased`,
`RosterCapacity`, `RosterFinalizedStay`). A late join restores the members of
the snapshot its ticket was built on. `TicketsCurrent` is why this is harmless:
only removals take a lease away, and they advance the barrier version, which
retires every earlier ticket. `HeldAccounted` (a leased slot is a member's or
still pending) makes the count of the capacity check cover the allocator's
slots; the capacity theorem then compares cardinalities.

**ClientBarrierProofs** (`ClientTypeCorrect`, `ClientKeysAreAccepted`,
`OriginGuardIsEarned`, `SyncDropsOnlySettled`). The invariant is stated for a
session, `GoodSessions`, and required of every copy: memory, disk and the ones
the tasks hold. The set only grows with the room (`RoomGrows`), so a copy that
was good when a task took it is good when the task hands it back, however late.
The mark of full verification is the delicate part: a joining device sets it
before it has a key, and `JoinOk` says that until then the interface has no
session and nothing but the publication writes the one on disk. What remains is
a lemma per operation on a session, and for the publication that an answer
*accepted* has its epoch (`PubOk`). The type invariant also says that an ended
task leaves none of its values behind and when the interface may be without a
session; `Tidy` adds that every session a task or the disk holds is in an epoch
of the room, so that installing one never leaves the interface without.

**GuiSessionProofs** (`ChatTypeCorrect`, `ChatShowsOnce`, `PollNeverDies`,
`FetchMatchesSession`). `ShownOnce` needs that an entry shown has its key
(`ShownHasKey`) and that a pending entry is that of the send under way
(`PendingIsSent`); `PollAlive` needs that an outstanding fetch is one of the
session's own epoch (`FetchOfSession`), since the result of another epoch ends
the loop. That the cursor stays a time rests on stamps of the past: the largest
of a bounded set of numbers exists by the well-foundedness of the naturals
(`LargestExists`).

Only model-checked are the liveness properties `Drains`, `Delivered` and
`Resolves`, because fairness and `ENABLED` are out of the prover's reach, and
the two counterexamples. Both are about the replay: the theorems about
`ServerJournal` say what a replay is handed, those about `WorkerRoom` what is
stored, and neither that the acceptance rules take it again.

## Not modelled, and why

The modules stand for the control that has state: which request may do what in
which order, and what survives. By lines this is a small share of the
repository, because most of it is something else:

- Proof systems and primitives (`capss`, `msphf-core`, `msphf-lb-vrf`,
  `msphf-rlwe`, `cityg-pqc`, `pqcrypto-kyber`, the proofs of
  `msphf-orchestrator`): algebra out of TLC's reach. Hashes and commitments are
  taken as injective, signatures as present or absent.
- Validation of one bundle (`accept/stages.rs`, `accept/barrier.rs`), the
  contents of the barrier tree and of history attestations: sequential functions
  of their input without state of their own. The models take an anchor as well
  formed or refused and a commitment as the value it commits to.
- Schema, parsing, encoding, configuration, metrics, logging, rendering and the
  stress and timing harnesses; unit and integration tests.
- Widths of counters: ticks, epochs, versions and generations are u64 with
  saturating additions and grow by bounded steps per call; the models use
  naturals.
- The genesis branch of the barrier gate, which registration makes unreachable,
  leases of genesis bundles without a ticket and sequential leaf ids.

Left out although it has state:

- The native recovery path as a whole: `ServerJournal` and `RoomAdmin` cover its
  two files one by one and `WorkerRoom` the replay as the worker uses it, but no
  module has slot generations, the free set and history records across a
  restart. `NativeRoom` is one run of the
  process: `rehydrate_persisted_bundle_indexes` is not in it, nor is the choice
  of a lane. That choice hashes the room's id with `AHasher::default()`
  (`cityg-api/src/lib.rs:370`) while each lane has a journal of its own; whether
  a room meets its own journal again after a restart depends on how the hash
  library is seeded and is outside the models.
- Aliases and their registry (only the await on it is modelled), rate limits,
  websockets of the native API, heartbeats.
- Leaving a room, the forward-secrecy chain and the administrator's views of the
  desktop client.
- `AnchorWindow` and `EpochGate` are not composed: the checkpoint rule sees the
  heads a merge retires only as a choice.

The hazards that follow from these are listed in `PROJECT.json` with a note in
place of a property.
