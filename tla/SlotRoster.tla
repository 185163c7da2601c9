----------------------------- MODULE SlotRoster -----------------------------
(***************************************************************************)
(* Membership and slot leases of one registered room (cityg-server:        *)
(* roster_state.rs, and the ticket, acceptance and validation code of      *)
(* lib.rs that works on GroupState).                                       *)
(*                                                                         *)
(* A member is a leaf; it occupies one slot of the barrier tree under a    *)
(* lease, the slot and its generation.  A membership root is a hash of the *)
(* set of leaves and is modelled by that set.  The zero root is the empty  *)
(* set (canonical_set_root).  Snapshots are never removed and a ticket's   *)
(* parent root was latest_root when it was built, so its snapshot is known *)
(* and the map of snapshots is left out.                                   *)
(*                                                                         *)
(* A join bundle carries what its ticket said and may arrive much later.   *)
(* A merge carries the history commitment of the state it was built on,    *)
(* which binds the latest root, the version and the roots; building the    *)
(* ticket and accepting the merge are one action here.                     *)
(***************************************************************************)
EXTENDS Integers, FiniteSets

CONSTANTS
    Leaves,
    Admins,     \* leaves whose device is a room admin
    NMax,       \* slots of the barrier tree
    Limit,      \* slots join tickets may reserve: n_max * refusal_percent / 100
    MaxVersion  \* bound on the updates of a behaviour

ASSUME SlotRosterAssumption ==
    /\ IsFiniteSet(Leaves)
    /\ Admins \subseteq Leaves
    /\ NMax \in Nat \ {0}
    /\ Limit \in 0 .. NMax
    /\ MaxVersion \in Nat

Slots == 0 .. NMax - 1
Lease == [slot : Slots, generation : Nat]
NoLease == [slot |-> -1, generation |-> -1]
None == -1

VARIABLES
    latest,             \* members of the snapshot latest_root names
    revoked,            \* revoked leaves
    revoked_slot_leases,
    leaf_slot_leases,   \* active leases
    pending,            \* leases of pending_join_finalize_auth
    free_slots, slot_generations,
    barrier_version,
    barrier_roots,      \* the pair (revoked_since, revoked) the roots hash commits to
    join_version,       \* JoinLeafHistoryRecord.barrier_version
    rotation_required,
    tickets             \* join tickets whose bundle has not arrived

vars == <<latest, revoked, revoked_slot_leases, leaf_slot_leases, pending,
          free_slots, slot_generations, barrier_version, barrier_roots,
          join_version, rotation_required, tickets>>

Init ==
    /\ latest = {}
    /\ revoked = {}
    /\ revoked_slot_leases = [l \in Leaves |-> NoLease]
    /\ leaf_slot_leases = [l \in Leaves |-> NoLease]
    /\ pending = [l \in Leaves |-> NoLease]
    /\ free_slots = {}
    /\ slot_generations = [s \in Slots |-> 0]
    /\ barrier_version = 0
    /\ barrier_roots = <<{}, {}>>
    /\ join_version = [l \in Leaves |-> None]
    /\ rotation_required = FALSE
    /\ tickets = {}

-----------------------------------------------------------------------------
Holders(leases) == {l \in Leaves : leases[l] # NoLease}

SlotsOf(leases) == {leases[l].slot : l \in Holders(leases)}

(* Faulty variant: a slot that is only promised by a ticket is free.       *)
InitializedIgnoringPending ==
    IF free_slots = {} THEN Slots \ SlotsOf(leaf_slot_leases) ELSE free_slots

(* The free slots after the allocator was initialised.  An empty free set  *)
(* is rebuilt, which also recovers slots allocated for a failed ticket.    *)
ensure_slot_allocator_initialized ==
    IF free_slots = {}
    THEN Slots \ (SlotsOf(leaf_slot_leases) \cup SlotsOf(pending))
    ELSE free_slots

committed_revoked_slot_indices == SlotsOf(revoked_slot_leases)

(* Every member of the latest snapshot has an active lease; otherwise no   *)
(* ticket is built and no bundle accepted.                                 *)
active_cover_leaf_allocations == latest \subseteq Holders(leaf_slot_leases)

MemberSlots == {leaf_slot_leases[l].slot : l \in latest}

reserved_slot_indices == MemberSlots \cup SlotsOf(pending)

(* Faulty variant: one ticket more than there are slots.                   *)
CapacityOffByOne(l) ==
    \/ pending[l] # NoLease
    \/ active_cover_leaf_allocations /\ Cardinality(reserved_slot_indices) <= Limit

ensure_join_capacity(l) ==
    \/ pending[l] # NoLease
    \/ active_cover_leaf_allocations /\ Cardinality(reserved_slot_indices) < Limit

require_pending_or_active_slot_lease(l) ==
    IF pending[l] # NoLease THEN pending[l] ELSE leaf_slot_leases[l]

-----------------------------------------------------------------------------
Fresh(s) == [slot |-> s, generation |-> slot_generations[s]]

(* The lease the leaf has, or a fresh one for the first free slot.         *)
allocate_slot_lease(l, lease) ==
    \/ /\ leaf_slot_leases[l] # NoLease
       /\ lease = leaf_slot_leases[l]
       /\ UNCHANGED free_slots
    \/ /\ leaf_slot_leases[l] = NoLease
       /\ pending[l] # NoLease
       /\ lease = pending[l]
       /\ UNCHANGED free_slots
    \/ /\ leaf_slot_leases[l] = NoLease
       /\ pending[l] = NoLease
       /\ \E s \in ensure_slot_allocator_initialized :
             /\ \A x \in ensure_slot_allocator_initialized : s <= x
             /\ lease = Fresh(s)
             /\ free_slots' = ensure_slot_allocator_initialized \ {s}

(* Without an accepted barrier update a newcomer cannot be provisioned     *)
(* into a room that has members.  The slot is allocated by then.           *)
ProvisioningFails == barrier_version = 0 /\ latest # {}

(* build_join_ticket_with_leaf for a leaf of the newcomer's choice.  A due *)
(* rotation of the broadcast key comes first.                              *)
build_join_ticket(l) ==
    /\ l \notin latest
    /\ ensure_join_capacity(l)
    /\ \E lease \in {leaf_slot_leases[l], pending[l]} \cup {Fresh(s) : s \in Slots} :
          /\ allocate_slot_lease(l, lease)
          /\ IF ProvisioningFails
             THEN UNCHANGED <<pending, tickets>>
             ELSE /\ pending' = [pending EXCEPT ![l] = lease]
                  /\ tickets' = tickets \cup
                        {[leaf |-> l, base |-> latest, version |-> barrier_version,
                          roots |-> <<revoked, revoked>>]}
    /\ rotation_required' = FALSE
    /\ UNCHANGED <<latest, revoked, revoked_slot_leases, leaf_slot_leases,
                   slot_generations, barrier_version, barrier_roots, join_version>>

(* A refused ticket request still rotates the key.                         *)
ensure_kbroad_ready ==
    /\ rotation_required
    /\ rotation_required' = FALSE
    /\ UNCHANGED <<latest, revoked, revoked_slot_leases, leaf_slot_leases, pending,
                   free_slots, slot_generations, barrier_version, barrier_roots,
                   join_version, tickets>>

-----------------------------------------------------------------------------
(* The gate of an anchor without a barrier update.                         *)
JoinGate(t) == t.version = barrier_version /\ t.roots = barrier_roots

(* The slot of the joining leaf is nobody else's.                          *)
ensure_join_slot_indices_available(l) ==
    /\ active_cover_leaf_allocations
    /\ require_pending_or_active_slot_lease(l) # NoLease
    /\ require_pending_or_active_slot_lease(l).slot \notin
          MemberSlots \cup {pending[x].slot : x \in Holders(pending) \ {l}}

(* Faulty variant: a lease the leaf was promised is taken for an active one. *)
ReserveUnpromised(l, lease) ==
    /\ slot_generations[lease.slot] = lease.generation
    /\ leaf_slot_leases[l] \in {NoLease, lease}
    /\ leaf_slot_leases' = [leaf_slot_leases EXCEPT ![l] =
                               IF pending[l] = lease THEN @ ELSE lease]
    /\ free_slots' = ensure_slot_allocator_initialized \ {lease.slot}

(* reserve_slot_lease and activate_slot_lease of a joining leaf.           *)
reserve_slot_lease(l, lease) ==
    /\ slot_generations[lease.slot] = lease.generation
    /\ leaf_slot_leases[l] \in {NoLease, lease}
    /\ leaf_slot_leases' = [leaf_slot_leases EXCEPT ![l] = lease]
    /\ free_slots' = ensure_slot_allocator_initialized \ {lease.slot}

(* join_history keeps the latest record of each member.                    *)
prune_join_history(versions, members) ==
    [x \in Leaves |-> IF x \in members THEN versions[x] ELSE None]

(* accept_epoch of a join: the leaf is added to the members its ticket was *)
(* built on, and the result becomes the latest snapshot.                   *)
accept_join(t) ==
    LET l == t.leaf IN
    /\ ~rotation_required
    /\ ensure_join_slot_indices_available(l)
    /\ JoinGate(t)
    /\ l \notin t.base
    /\ latest' = t.base \cup {l}
    /\ reserve_slot_lease(l, require_pending_or_active_slot_lease(l))
    /\ revoked' = revoked \ {l}
    /\ revoked_slot_leases' = [revoked_slot_leases EXCEPT ![l] = NoLease]
    /\ join_version' = prune_join_history([join_version EXCEPT ![l] = barrier_version + 1],
                                          t.base \cup {l})
    /\ tickets' = tickets \ {t}
    /\ UNCHANGED <<pending, slot_generations, barrier_version, barrier_roots,
                   rotation_required>>

-----------------------------------------------------------------------------
(* JoinSet: the slots of members no update has covered; at version 0, of   *)
(* every member.                                                           *)
UnresolvedJoinSlots ==
    IF barrier_version = 0
    THEN MemberSlots
    ELSE {leaf_slot_leases[l].slot :
             l \in {x \in latest : join_version[x] > barrier_version}}

(* A merge ticket of author a that removes nobody: a joiner whose slot was *)
(* revoked before leaves the slot's earlier occupants out of the roots.    *)
pending_join_finalize_reclaim(a) ==
    /\ pending[a] # NoLease
    /\ pending[a].slot \in committed_revoked_slot_indices

RevokedByTicket(a) ==
    IF pending_join_finalize_reclaim(a)
    THEN {r \in revoked : revoked_slot_leases[r].slot # pending[a].slot}
    ELSE revoked

(* The rules for an update by author a that removes nobody.  Reasons are   *)
(* 0 = revocation, 1 = pcs_refresh, 2 = join_finalize; with a token the    *)
(* author spends its pending join_finalize_auth record.                    *)
validate_barrier_update(a, reason, token) ==
    LET slot == leaf_slot_leases[a].slot
        roots == <<RevokedByTicket(a), RevokedByTicket(a)>>
    IN  /\ slot \in committed_revoked_slot_indices => reason = 0 /\ token
        /\ (reason = 0) <=> (roots # barrier_roots)
        /\ reason = 1 => slot \notin UnresolvedJoinSlots /\ ~token
        /\ reason = 2 => slot \in UnresolvedJoinSlots /\ token
        /\ token => pending[a] # NoLease /\ pending[a].slot = slot
        /\ reason = 0 /\ token =>
              slot \in UnresolvedJoinSlots \cap committed_revoked_slot_indices

(* Faulty variant: the earlier occupants lose their lease and stay revoked. *)
ReclaimLeaseOnly(a) ==
    /\ pending' = [pending EXCEPT ![a] = NoLease]
    /\ revoked_slot_leases' =
          [l \in Leaves |-> IF revoked_slot_leases[l].slot = pending[a].slot
                            THEN NoLease ELSE revoked_slot_leases[l]]
    /\ UNCHANGED revoked

(* The token is spent: the record goes, and so do the earlier occupants of *)
(* its slot.                                                               *)
finalize_slot_reclaim(a) ==
    LET superseded == {r \in Holders(revoked_slot_leases) :
                          revoked_slot_leases[r].slot = pending[a].slot}
    IN  /\ pending' = [pending EXCEPT ![a] = NoLease]
        /\ revoked' = revoked \ superseded
        /\ revoked_slot_leases' =
              [l \in Leaves |-> IF l \in superseded THEN NoLease
                                                    ELSE revoked_slot_leases[l]]

(* Ticket and acceptance of a refresh, a join-finalize or a revocation     *)
(* update that removes nobody.                                             *)
accept_update(a, reason, token) ==
    /\ barrier_version < MaxVersion
    /\ a \in latest
    /\ active_cover_leaf_allocations
    /\ validate_barrier_update(a, reason, token)
    /\ barrier_version' = barrier_version + 1
    /\ barrier_roots' = <<RevokedByTicket(a), RevokedByTicket(a)>>
    /\ IF token THEN finalize_slot_reclaim(a)
                ELSE UNCHANGED <<pending, revoked, revoked_slot_leases>>
    /\ rotation_required' = FALSE
    /\ UNCHANGED <<latest, leaf_slot_leases, free_slots, slot_generations,
                   join_version, tickets>>

(* Faulty variant: the slot goes back without a new generation.            *)
ReleaseSameGeneration(l) ==
    LET lease == leaf_slot_leases[l]
    IN  /\ leaf_slot_leases' = [leaf_slot_leases EXCEPT ![l] = NoLease]
        /\ UNCHANGED slot_generations
        /\ free_slots' = ensure_slot_allocator_initialized \cup {lease.slot}

release_slot_lease(l) ==
    LET lease == leaf_slot_leases[l]
    IN  /\ leaf_slot_leases' = [leaf_slot_leases EXCEPT ![l] = NoLease]
        /\ slot_generations' = [slot_generations EXCEPT ![lease.slot] = lease.generation + 1]
        /\ free_slots' = ensure_slot_allocator_initialized \cup {lease.slot}

(* Who may remove whom, by an update for the member's slot: a member       *)
(* itself, an admin anyone.  A slot that was revoked before and not        *)
(* reclaimed is nobody's to update, but for its new occupant, who leaves   *)
(* with the token of the join it has not finalized.                        *)
updater_valid(a, l) ==
    LET slot == leaf_slot_leases[l].slot
    IN  /\ a = l \/ a \in Admins
        /\ slot \in committed_revoked_slot_indices =>
              /\ a = l /\ pending[l] # NoLease /\ pending[l].slot = slot
              /\ slot \in UnresolvedJoinSlots

(* Faulty variant: the removed leaf is not recorded as revoked.            *)
RemovalUnrecorded(a, l) ==
    /\ barrier_version < MaxVersion
    /\ {a, l} \subseteq latest
    /\ active_cover_leaf_allocations
    /\ updater_valid(a, l)
    /\ <<{l}, revoked \cup {l}>> # barrier_roots
    /\ barrier_version' = barrier_version + 1
    /\ barrier_roots' = <<{l}, revoked \cup {l}>>
    /\ latest' = latest \ {l}
    /\ release_slot_lease(l)
    /\ pending' = [pending EXCEPT ![l] = NoLease]
    /\ join_version' = prune_join_history(join_version, latest \ {l})
    /\ rotation_required' = TRUE
    /\ UNCHANGED <<tickets, revoked, revoked_slot_leases>>

(* Ticket and acceptance of a merge by which author a removes a member.  A *)
(* token it came with is not spent: the author is a member no longer when  *)
(* its record is looked up.                                                *)
accept_removal(a, l) ==
    /\ barrier_version < MaxVersion
    /\ {a, l} \subseteq latest
    /\ active_cover_leaf_allocations
    /\ updater_valid(a, l)
    /\ <<{l}, revoked \cup {l}>> # barrier_roots
    /\ barrier_version' = barrier_version + 1
    /\ barrier_roots' = <<{l}, revoked \cup {l}>>
    /\ latest' = latest \ {l}
    /\ revoked' = revoked \cup {l}
    /\ release_slot_lease(l)
    /\ revoked_slot_leases' = [revoked_slot_leases EXCEPT ![l] = leaf_slot_leases[l]]
    /\ pending' = [pending EXCEPT ![l] = NoLease]
    /\ join_version' = prune_join_history(join_version, latest \ {l})
    /\ rotation_required' = TRUE
    /\ UNCHANGED tickets

Next ==
    \/ \E l \in Leaves : build_join_ticket(l)
    \/ ensure_kbroad_ready
    \/ \E t \in tickets : accept_join(t)
    \/ \E a \in Leaves : \E reason \in 0 .. 2 : \E token \in BOOLEAN :
          accept_update(a, reason, token)
    \/ \E a, l \in Leaves : accept_removal(a, l)

Spec == Init /\ [][Next]_vars

-----------------------------------------------------------------------------
(* Leases are for slots of the tree, tickets for leaves, counters natural. *)
TypeOK ==
    /\ latest \subseteq Leaves
    /\ revoked \subseteq Leaves
    /\ revoked_slot_leases \in [Leaves -> Lease \cup {NoLease}]
    /\ leaf_slot_leases \in [Leaves -> Lease \cup {NoLease}]
    /\ pending \in [Leaves -> Lease \cup {NoLease}]
    /\ free_slots \subseteq Slots
    /\ slot_generations \in [Slots -> Nat]
    /\ barrier_version \in Nat
    /\ barrier_roots \in (SUBSET Leaves) \X (SUBSET Leaves)
    /\ join_version \in [Leaves -> Nat \cup {None}]
    /\ rotation_required \in BOOLEAN
    /\ tickets \subseteq [leaf : Leaves, base : SUBSET Leaves, version : Nat,
                          roots : (SUBSET Leaves) \X (SUBSET Leaves)]

(* One slot, one occupant: the leases leaves hold or were promised by a    *)
(* ticket (leaf_slot_leases, pending_join_finalize_auth) are for different *)
(* slots, none of them is free, and both records of a leaf agree.  The     *)
(* free set is rebuilt whenever it runs empty, tickets never expire, and   *)
(* slots leak from tickets that fail after the allocation.                 *)
OneOccupantPerSlot ==
    /\ \A l \in Holders(leaf_slot_leases), p \in Holders(pending) :
          (l = p) <=> (leaf_slot_leases[l].slot = pending[p].slot)
    /\ \A l, m \in Holders(leaf_slot_leases) :
          leaf_slot_leases[l].slot = leaf_slot_leases[m].slot => l = m
    /\ \A p, q \in Holders(pending) : pending[p].slot = pending[q].slot => p = q
    /\ free_slots \cap (SlotsOf(leaf_slot_leases) \cup SlotsOf(pending)) = {}

(* Reuse takes a new generation: every lease held or promised has its      *)
(* slot's current generation and every revoked lease an earlier one, so    *)
(* the lease of a removed member is never the lease of a later occupant of *)
(* the slot (slot_generations, release_slot_lease).                        *)
RevokedLeaseIsPast ==
    /\ \A l \in Holders(leaf_slot_leases) :
          leaf_slot_leases[l].generation = slot_generations[leaf_slot_leases[l].slot]
    /\ \A l \in Holders(pending) :
          pending[l].generation = slot_generations[pending[l].slot]
    /\ \A l \in Holders(revoked_slot_leases) :
          revoked_slot_leases[l].generation < slot_generations[revoked_slot_leases[l].slot]

(* Every member has an active lease.  active_cover_leaf_allocations fails  *)
(* otherwise, and with it every later ticket and bundle of the room.  A    *)
(* join resurrects the members of the snapshot its ticket was built on,    *)
(* which may be older than a removal.                                      *)
MembersHaveLeases == latest \subseteq Holders(leaf_slot_leases)

(* A leaf that passes the capacity check gets a slot: the count of members *)
(* and pending tickets misses no slot that is taken, so the allocator does *)
(* not run dry before the limit is reached ("slot allocator exhausted").   *)
CapacityMeansSlot ==
    \A l \in Leaves \ latest :
        ensure_join_capacity(l) =>
            \/ leaf_slot_leases[l] # NoLease \/ pending[l] # NoLease
            \/ ensure_slot_allocator_initialized # {}

(* The revoked set and the retained revoked leases name the same leaves,   *)
(* and no member is among them; joins, removals and reclaims update the    *)
(* two separately (apply_delta, activate_slot_lease,                       *)
(* finalize_slot_reclaim).                                                 *)
RevokedHaveLeases ==
    /\ revoked = Holders(revoked_slot_leases)
    /\ revoked \cap latest = {}

(* A member that has finalized its join leaves the list only by being      *)
(* removed, although apply_delta takes the snapshot a join ticket was      *)
(* built on, however old, for the new list.  A newcomer whose token is     *)
(* still pending is excepted: a later join on its own parent root leaves   *)
(* it out.                                                                 *)
FinalizedStay ==
    [][\A l \in latest \ latest' : l \in revoked' \/ pending[l] # NoLease]_vars

=============================================================================
