----------------------------- MODULE WorkerRoom -----------------------------
(***************************************************************************)
(* One room of the worker (cityg-worker cloudflare.rs): a durable object   *)
(* that keeps nothing in memory between two requests.  Every request loads *)
(* the stored checkpoint, rebuilds the server from it (rehydrate.rs), runs *)
(* the runtime's operation and writes the parts that changed.              *)
(*                                                                         *)
(* A handler gives up the object only where it awaits.  All handlers await *)
(* before they load or after they have written, so each is one step, but   *)
(* for handle_accept_epoch: when the epoch revokes leaves it awaits the    *)
(* alias registry between accepting and writing, and other requests run    *)
(* in between.  Neither are the writes of one request a transaction.       *)
(*                                                                         *)
(* The server is rebuilt from the configuration: it knows the group's key  *)
(* only when the configuration seeds the demo room; every other group is   *)
(* registered by handle_bootstrap_room, and that is in the metadata, which *)
(* is restored after the replay.  `seeded' tells the two rooms apart.      *)
(*                                                                         *)
(* Governance (bootstrap, rotation, admin grants and revocations) is a     *)
(* counter of the mutations applied: RoomAdmin models what they do.        *)
(* Messages and scopes do not expire within a behaviour.  A pcs_refresh    *)
(* needs a join_finalize before it, and a stored join_finalize already     *)
(* ends the room (see Rehydrates), so no action accepts one.               *)
(* handle_refresh_pivot writes back the metadata it loaded, unchanged.     *)
(***************************************************************************)
EXTENDS Integers, FiniteSets

CONSTANTS Leaves,       \* leaf ids that may join
          MaxEpochs,    \* bound: epochs offered to the room
          MaxMessages,  \* bound: messages sent
          MaxGov,       \* bound: governance mutations
          MaxFaults     \* bound: writes that fail and alias calls that fail

ASSUME WorkerAssumption ==
  /\ IsFiniteSet(Leaves) /\ MaxEpochs \in Nat /\ MaxMessages \in Nat
  /\ MaxGov \in Nat /\ MaxFaults \in Nat

VARIABLES seeded,   \* the configuration registers the group (never changes)
          snap,     \* the stored RoomSnapshot, or NoSnapshot
          bundles,  \* the stored AcceptedBundleRecords, by index
          vol,      \* the stored RoomVolatileSnapshot
          tasks,    \* accepts that await the alias registry, with the copies they hold
          routing,  \* epochs the routing index can resolve
          acked,    \* history: what the room has answered Ok
          offered, faults,   \* counters of the bounds
          overlapped,        \* history: a request wrote while an accept awaited
          torn               \* history: which writes failed half-way, accepts or checkpoints

vars == <<seeded, snap, bundles, vol, tasks, routing, acked, offered, faults, overlapped, torn>>
store == <<snap, bundles, vol>>

Kinds == {"join", "finalize", "leave"}
AcceptedBundleRecord ==
  [id : 1..MaxEpochs, kind : Kinds, leaf : Leaves, base : Nat, gen : Nat]

(***************************************************************************)
(* What the server's metadata keeps of a group; the roster is not in it.   *)
(* reg: the group has a kbroad key and its barrier state is initialised;   *)
(* gen: the generation of the key in force, 0 for the one it was           *)
(* registered with; rot: a revocation wants the key rotated.               *)
(***************************************************************************)
Metadata == [reg : BOOLEAN, gen : Nat, rot : BOOLEAN, ver : Nat,
             leases : SUBSET Leaves, pend : SUBSET Leaves, gov : Nat]
RoomSnapshot == [meta : Metadata, last : 0..MaxEpochs]
RoomVolatileSnapshot == [msgs : SUBSET (1..MaxMessages), scopes : SUBSET (1..MaxEpochs)]

NewGroup == [reg |-> FALSE, gen |-> 0, rot |-> FALSE, ver |-> 0, leases |-> {}, pend |-> {},
             gov |-> 0, members |-> {}]
Refused == [NewGroup EXCEPT !.ver = -1]

MetadataOf(g) == [reg |-> g.reg, gen |-> g.gen, rot |-> g.rot, ver |-> g.ver,
                  leases |-> g.leases, pend |-> g.pend, gov |-> g.gov]
NoSnapshot == [meta |-> MetadataOf(NewGroup), last |-> -1]

(***************************************************************************)
(* The server's accept_epoch, reduced to what decides whether a bundle is  *)
(* taken: that no rotation is due, that the group is registered and the    *)
(* bundle sealed under its key, the barrier version it was built on, the   *)
(* lease of a joining leaf (granted to the first member of an untouched    *)
(* group, otherwise reserved by a join ticket), the ticket that a          *)
(* join_finalize spends, and the lease of a revoked leaf.                  *)
(***************************************************************************)
accept_epoch(g, b) ==
  LET untouched == g.ver = 0 /\ g.leases = {} /\ g.pend = {} /\ g.members = {}
  IN  IF g.rot \/ ~g.reg \/ b.gen # g.gen \/ b.base # g.ver THEN Refused ELSE
      CASE b.kind = "join" ->
             IF b.leaf \notin g.members /\ (untouched \/ b.leaf \in g.pend \cup g.leases)
             THEN [g EXCEPT !.leases = @ \cup {b.leaf}, !.members = @ \cup {b.leaf}]
             ELSE Refused
        [] b.kind = "finalize" ->
             IF b.leaf \in g.members \cap g.pend
             THEN [g EXCEPT !.ver = @ + 1, !.pend = @ \ {b.leaf}]
             ELSE Refused
        [] b.kind = "leave" ->
             IF b.leaf \in g.members \cap g.leases
             THEN [g EXCEPT !.ver = @ + 1, !.leases = @ \ {b.leaf}, !.pend = @ \ {b.leaf},
                            !.members = @ \ {b.leaf}, !.rot = TRUE]
             ELSE Refused

(* The server of the configuration, before anything is restored. *)
build_server == [NewGroup EXCEPT !.reg = seeded]

(* Every bundle in the order of its index, up to the first that is refused. *)
replay_accepted_bundles(server, bs) ==
  LET replay[k \in 0..MaxEpochs] ==
        IF k = 0 THEN server
        ELSE IF replay[k - 1] = Refused \/ k - 1 \notin DOMAIN bs THEN replay[k - 1]
        ELSE accept_epoch(replay[k - 1], bs[k - 1])
  IN  replay[MaxEpochs]

(***************************************************************************)
(* The metadata over the replayed group.  The key, governance and the      *)
(* reserved tickets come from the metadata (replay leaves no ticket        *)
(* reserved); the barrier version and the leases only when the metadata is *)
(* ahead of the replay, or, for the leases, when the replay has none.      *)
(***************************************************************************)
restore_runtime_metadata(g, m) ==
  LET ahead == m.ver > g.ver
  IN  [g EXCEPT !.reg = @ \/ m.reg, !.gen = m.gen, !.rot = m.rot,
                !.gov = m.gov, !.pend = m.pend,
                !.ver = IF ahead THEN m.ver ELSE @,
                !.leases = IF ahead \/ @ = {} THEN m.leases ELSE @]

rehydrate ==
  IF snap = NoSnapshot THEN build_server
  ELSE LET g == replay_accepted_bundles(build_server, bundles)
       IN  IF g = Refused THEN Refused ELSE restore_runtime_metadata(g, snap.meta)

(* A request the room answers at all. *)
Served == rehydrate # Refused

-----------------------------------------------------------------------------
(* The store's writes. *)

(* Faulty variant: the epoch's own number is the index. *)
append_accepted_bundle_ById(bs, b) ==
  [k \in DOMAIN bs \cup {b.id} |-> IF k = b.id THEN b ELSE bs[k]]

(* The index is the number of records there are, whatever their indices. *)
append_accepted_bundle(bs, b) ==
  LET n == Cardinality(DOMAIN bs)
  IN  [k \in DOMAIN bs \cup {n} |-> IF k = n THEN b ELSE bs[k]]

(* The record that has k others before it. *)
Nth(bs, k) == bs[CHOOSE i \in DOMAIN bs : Cardinality({j \in DOMAIN bs : j < i}) = k]

(* Faulty variant: the last record is left out. *)
replace_accepted_bundles_Short(bs) ==
  [k \in 0..(Cardinality(DOMAIN bs) - 2) |-> Nth(bs, k)]

(* The records of the checkpoint the request loaded, written back one by one. *)
replace_accepted_bundles(bs) ==
  [k \in 0..(Cardinality(DOMAIN bs) - 1) |-> Nth(bs, k)]

(* What a failing checkpoint leaves of the records: some first ones are     *)
(* deleted already, or all are and some first ones are written again (all   *)
(* of them when it is the volatile state that cannot be written).           *)
TornBundles(bs) ==
  {[k \in {i \in DOMAIN bs : i > d} |-> bs[k]] : d \in DOMAIN bs}
    \cup {[k \in 0..(n - 1) |-> Nth(bs, k)] : n \in 0..Cardinality(DOMAIN bs)}

Overlap == overlapped' = (overlapped \/ tasks # {})

(* A request that only changes the server's metadata: snapshot, bundles and *)
(* volatile state are all written again, from the checkpoint it loaded.     *)
persist_room_runtime_state(g) ==
  /\ snap' = [meta |-> MetadataOf(g), last |-> IF snap = NoSnapshot THEN 0 ELSE snap.last]
  /\ bundles' = replace_accepted_bundles(bundles)
  /\ vol' = vol
  /\ Overlap

(* The copies an accept holds once it has accepted. *)
AcceptedRoomEpoch == [meta : Metadata, vol : RoomVolatileSnapshot, bundle : AcceptedBundleRecord]

(* Faulty variant: the epoch is indexed in a new volatile state. *)
accept_room_epoch_Fresh(b) ==
  [meta |-> MetadataOf(accept_epoch(rehydrate, b)), bundle |-> b,
   vol |-> [msgs |-> {}, scopes |-> {b.id}]]

accept_room_epoch(b) ==
  [meta |-> MetadataOf(accept_epoch(rehydrate, b)), bundle |-> b,
   vol |-> [vol EXCEPT !.scopes = @ \cup {b.id}]]

persist_room_accept(a) ==
  /\ snap' = [meta |-> a.meta, last |-> a.bundle.id]
  /\ bundles' = append_accepted_bundle(bundles, a.bundle)
  /\ vol' = a.vol

(* The epoch is answered Ok whether or not its routing entry was written. *)
upsert_routing_entries(id) == routing' \in {routing, routing \cup {id}}

(* A finalized or revoked leaf no longer holds the ticket it was given. *)
AckEpoch(b) ==
  acked' = [acked EXCEPT !.epochs = @ \cup {b.id},
                         !.tickets = IF b.kind = "join" THEN @ ELSE @ \ {b.leaf}]

-----------------------------------------------------------------------------
Init ==
  /\ seeded \in BOOLEAN
  /\ snap = NoSnapshot /\ bundles = <<>> /\ vol = [msgs |-> {}, scopes |-> {}]
  /\ tasks = {} /\ routing = {}
  /\ acked = [msgs |-> {}, epochs |-> {}, tickets |-> {}, gov |-> 0]
  /\ offered = 0 /\ faults = 0 /\ overlapped = FALSE /\ torn = {}

(* A client's epoch, built on the current barrier version and sealed under  *)
(* the current key.  Any other is refused and leaves no trace.              *)
Offer(kind, leaf) ==
  [id |-> offered + 1, kind |-> kind, leaf |-> leaf,
   base |-> IF Served THEN rehydrate.ver ELSE 0, gen |-> rehydrate.gen]

Offered(b) ==
  /\ offered < MaxEpochs
  /\ Served
  /\ accept_epoch(rehydrate, b) # Refused
  /\ offered' = offered + 1

(* An epoch that revokes nobody: one step from the load to the answer. *)
handle_accept_epoch ==
  \E kind \in {"join", "finalize"}, leaf \in Leaves :
    LET b == Offer(kind, leaf)
    IN  /\ Offered(b)
        /\ persist_room_accept(accept_room_epoch(b))
        /\ Overlap
        /\ AckEpoch(b)
        /\ upsert_routing_entries(b.id)
        /\ UNCHANGED <<seeded, tasks, faults, torn>>

(* An epoch that revokes a leaf: it is accepted on the loaded copies, then  *)
(* the handler awaits the alias registry.                                   *)
remove_alias_bindings_for_revoked_leaves ==
  \E leaf \in Leaves :
    LET b == Offer("leave", leaf)
    IN  /\ Offered(b)
        /\ tasks' = tasks \cup {accept_room_epoch(b)}
        /\ UNCHANGED <<seeded, store, routing, acked, faults, overlapped, torn>>

(* The registry has answered: the copies are written over what is stored now. *)
AcceptResumes ==
  \E a \in tasks :
    /\ tasks' = tasks \ {a}
    /\ persist_room_accept(a)
    /\ overlapped' = (overlapped \/ tasks # {a})
    /\ AckEpoch(a.bundle)
    /\ upsert_routing_entries(a.bundle.id)
    /\ UNCHANGED <<seeded, offered, faults, torn>>

(* The registry fails, or the platform ends the object: nothing is written. *)
AcceptAborts ==
  /\ faults < MaxFaults
  /\ faults' = faults + 1
  /\ \E a \in tasks : tasks' = tasks \ {a}
  /\ UNCHANGED <<seeded, store, routing, acked, offered, overlapped, torn>>

handle_send_message ==
  /\ Served /\ rehydrate.members # {} /\ vol.scopes # {}
  /\ \E m \in {Cardinality(acked.msgs) + 1} \cap 1..MaxMessages :
       /\ vol' = [vol EXCEPT !.msgs = @ \cup {m}]
       /\ acked' = [acked EXCEPT !.msgs = @ \cup {m}]
  /\ Overlap
  /\ UNCHANGED <<seeded, snap, bundles, tasks, routing, offered, faults, torn>>

register_group_with_admin(g) ==
  [g EXCEPT !.reg = TRUE, !.gen = 0, !.rot = FALSE, !.gov = @ + 1]

rotate_group_kbroad(g) == [g EXCEPT !.gen = @ + 1, !.rot = FALSE]

(* A group that has its key already is refused. *)
MayBootstrap == Served /\ rehydrate.gov < MaxGov /\ ~rehydrate.reg

(* Only a bootstrapped group has administrators, a seeded one has none. *)
MayGovern == Served /\ rehydrate.gov \in 1..(MaxGov - 1) /\ rehydrate.reg

RotatedByAdmin == [rotate_group_kbroad(rehydrate) EXCEPT !.gov = @ + 1]
AdminsChanged == [rehydrate EXCEPT !.gov = @ + 1]

Governs(g) ==
  /\ persist_room_runtime_state(g)
  /\ acked' = [acked EXCEPT !.gov = g.gov]
  /\ UNCHANGED <<seeded, tasks, routing, offered, faults, torn>>

handle_bootstrap_room == MayBootstrap /\ Governs(register_group_with_admin(rehydrate))
handle_rotate_room_kbroad == MayGovern /\ Governs(RotatedByAdmin)

(* What a grant or a revocation checks and changes: see RoomAdmin. *)
handle_room_admin_mutation == MayGovern /\ Governs(AdminsChanged)

(* A rotation that is due comes before the ticket. *)
prepare_join_ticket(g, leaf) ==
  [(IF g.rot THEN rotate_group_kbroad(g) ELSE g) EXCEPT !.pend = @ \cup {leaf}]

(* Who may be given a ticket: nobody while the group has no key, and while  *)
(* there is no current barrier update, only the first member.               *)
Ticketable ==
  IF Served /\ rehydrate.reg /\ (rehydrate.members = {} \/ rehydrate.ver > 0)
  THEN Leaves \ (rehydrate.members \cup rehydrate.pend) ELSE {}

(* The lease is stored first; the alias may then be refused, and the ticket *)
(* is not given although its lease stays reserved.                          *)
handle_join_ticket ==
  /\ \E leaf \in Ticketable :
       /\ persist_room_runtime_state(prepare_join_ticket(rehydrate, leaf))
       /\ acked' \in {acked, [acked EXCEPT !.tickets = @ \cup {leaf}]}
  /\ UNCHANGED <<seeded, tasks, routing, offered, faults, torn>>

(* A write of persist_room_accept fails: the snapshot is stored, perhaps    *)
(* the bundle, not the volatile state.  The request is answered 500.        *)
Tears(a) ==
  /\ faults < MaxFaults
  /\ faults' = faults + 1 /\ torn' = torn \cup {"accept"}
  /\ snap' = [meta |-> a.meta, last |-> a.bundle.id]
  /\ bundles' \in {bundles, append_accepted_bundle(bundles, a.bundle)}
  /\ UNCHANGED <<seeded, vol, routing, acked, overlapped>>

AcceptTears ==
  \/ \E kind \in {"join", "finalize"}, leaf \in Leaves :
       LET b == Offer(kind, leaf)
       IN  Offered(b) /\ Tears(accept_room_epoch(b)) /\ UNCHANGED tasks
  \/ \E a \in tasks : tasks' = tasks \ {a} /\ Tears(a) /\ UNCHANGED offered

(* A write of persist_checkpoint fails after the snapshot is stored. *)
CheckpointTears ==
  /\ faults < MaxFaults
  /\ faults' = faults + 1 /\ torn' = torn \cup {"checkpoint"}
  /\ \E g \in {prepare_join_ticket(rehydrate, leaf) : leaf \in Ticketable}
             \cup {x \in {register_group_with_admin(rehydrate)} : MayBootstrap}
             \cup {x \in {RotatedByAdmin, AdminsChanged} : MayGovern} :
       snap' = [meta |-> MetadataOf(g), last |-> IF snap = NoSnapshot THEN 0 ELSE snap.last]
  /\ bundles' \in TornBundles(bundles)
  /\ UNCHANGED <<seeded, vol, tasks, routing, acked, offered, overlapped>>

(* Faulty variant: the entries are derived from the volatile scopes only. *)
derive_room_routing_entries_Volatile == IF snap = NoSnapshot THEN {} ELSE vol.scopes

derive_room_routing_entries ==
  IF snap = NoSnapshot THEN {}
  ELSE ({snap.last} \ {0}) \cup {bundles[k].id : k \in DOMAIN bundles} \cup vol.scopes

(* A request names an epoch the routing index does not know: every          *)
(* registered room writes the entries its checkpoint yields.                *)
resync_and_resolve_gid_for_we_epoch_id ==
  /\ \E id \in 1..offered : id \notin routing
  /\ routing' = routing \cup derive_room_routing_entries
  /\ routing' # routing
  /\ UNCHANGED <<seeded, store, tasks, acked, offered, faults, overlapped, torn>>

Next ==
  \/ handle_accept_epoch \/ remove_alias_bindings_for_revoked_leaves
  \/ AcceptResumes \/ AcceptAborts \/ AcceptTears
  \/ handle_send_message \/ handle_join_ticket
  \/ handle_bootstrap_room \/ handle_rotate_room_kbroad \/ handle_room_admin_mutation
  \/ CheckpointTears \/ resync_and_resolve_gid_for_we_epoch_id

(* Somebody keeps asking for every epoch that was answered Ok: its members  *)
(* send, fetch and read bundles by epoch id.                                *)
Spec == Init /\ [][Next]_vars /\ WF_vars(resync_and_resolve_gid_for_we_epoch_id)

-----------------------------------------------------------------------------
(* The stored records and the copies of the awaiting accepts are well formed. *)
TypeOK ==
  /\ seeded \in BOOLEAN
  /\ snap \in RoomSnapshot \cup {NoSnapshot}
  /\ DOMAIN bundles \subseteq 0..(MaxEpochs - 1)
  /\ \A k \in DOMAIN bundles : bundles[k] \in AcceptedBundleRecord
  /\ vol \in RoomVolatileSnapshot
  /\ tasks \subseteq AcceptedRoomEpoch
  /\ routing \subseteq 1..offered /\ offered \in 0..MaxEpochs /\ faults \in 0..MaxFaults
  /\ overlapped \in BOOLEAN /\ torn \subseteq {"accept", "checkpoint"}

StoredEpochs == {bundles[k].id : k \in DOMAIN bundles}

(* An epoch that was answered Ok stays among the stored bundles, even when  *)
(* another request wrote while its accept awaited the alias registry: the   *)
(* accept appends to what is stored instead of writing back what it loaded, *)
(* and when an accept fails after storing a snapshot that names an epoch    *)
(* without a bundle.  Only a checkpoint that fails while it rewrites the    *)
(* records can lose one.                                                    *)
EpochsKept == "checkpoint" \notin torn => acked.epochs \subseteq StoredEpochs

(* As long as no request writes during the await of an accept and no write  *)
(* fails, everything answered Ok is in the store: messages, governance and  *)
(* the lease of every ticket that was given and not yet used.               *)
SerialAcksKept ==
  torn = {} /\ ~overlapped =>
    /\ acked.msgs \subseteq vol.msgs
    /\ acked.gov <= snap.meta.gov
    /\ acked.tickets \subseteq snap.meta.pend
    /\ acked.epochs \subseteq vol.scopes

(* Although the failure of the routing write is ignored, an epoch answered  *)
(* Ok becomes resolvable: the lookup that misses makes the room write its   *)
(* entries again, from the stored bundles and not from the volatile state   *)
(* an overlapping request may have lost.                                    *)
Resolves == \A id \in 1..MaxEpochs : (id \in acked.epochs) ~> (id \in routing \/ "checkpoint" \in torn)

(* "The current worker path replays accepted bundles to rebuild the         *)
(* authoritative CityGServer state" (rehydrate.rs): without any fault, the  *)
(* stored bundles can be replayed.                                          *)
Rehydrates == Served
=============================================================================
