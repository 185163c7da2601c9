-------------------------- MODULE SlotRosterProofs --------------------------
(***************************************************************************)
(* Proofs about SlotRoster for any leaves, tree size and capacity limit.   *)
(*                                                                         *)
(* The safety invariants are not inductive on their own: a join restores   *)
(* the members of the snapshot its ticket was built on.  TicketsCurrent    *)
(* says what a ticket that can still pass the gate knows about the leases: *)
(* removals, the only steps that take a lease away, advance the version    *)
(* and so retire every earlier ticket.                                     *)
(***************************************************************************)
EXTENDS SlotRoster, FiniteSetTheorems, TLAPS

(* The leases behind SlotsOf(leaf_slot_leases) are those ensure_join_      *)
(* capacity counts: their holders are members, or joined on a parent root  *)
(* from before and still have their pending record.                        *)
HeldAccounted ==
    \A l \in Holders(leaf_slot_leases) : l \in latest \/ pending[l] # NoLease

(* No ticket is from the future, and the members of a ticket of the        *)
(* current version still have their leases.                                *)
TicketsCurrent ==
    \A t \in tickets :
        /\ t.version <= barrier_version
        /\ t.version = barrier_version =>
              /\ t.base \subseteq Holders(leaf_slot_leases)
              /\ \A l \in Holders(leaf_slot_leases) :
                    l \in t.base \/ pending[l] # NoLease

(* A revoked leaf holds no lease.                                          *)
RevokedHoldNothing == revoked \cap Holders(leaf_slot_leases) = {}

(* The inductive invariant. *)
IInv ==
    /\ TypeOK
    /\ OneOccupantPerSlot
    /\ RevokedLeaseIsPast
    /\ MembersHaveLeases
    /\ RevokedHaveLeases
    /\ HeldAccounted
    /\ TicketsCurrent
    /\ RevokedHoldNothing

-----------------------------------------------------------------------------
(* NoLease is no lease, and a held lease has its fields.                   *)
LEMMA LeaseFacts ==
    /\ NoLease \notin Lease
    /\ \A x \in Lease : x.slot \in Slots /\ x.generation \in Nat
BY SlotRosterAssumption DEF Lease, NoLease, Slots

(* Whoever holds a lease has one of the right type.                        *)
LEMMA HeldFacts ==
    ASSUME TypeOK
    PROVE  /\ \A l \in Holders(leaf_slot_leases) : leaf_slot_leases[l] \in Lease
           /\ \A l \in Holders(pending) : pending[l] \in Lease
           /\ \A l \in Holders(revoked_slot_leases) : revoked_slot_leases[l] \in Lease
BY DEF TypeOK, Holders

(* The slots the allocator works with are slots, and none of them is taken *)
(* (ensure_slot_allocator_initialized).                                    *)
LEMMA InitializedFree ==
    ASSUME TypeOK, OneOccupantPerSlot
    PROVE  /\ ensure_slot_allocator_initialized \subseteq Slots
           /\ ensure_slot_allocator_initialized \cap
                 (SlotsOf(leaf_slot_leases) \cup SlotsOf(pending)) = {}
BY DEF TypeOK, OneOccupantPerSlot, ensure_slot_allocator_initialized

(* A ticket offers a lease whose slot is the leaf's own or nobody's, in    *)
(* the slot's current generation, and takes the slot out of the free set   *)
(* (allocate_slot_lease).                                                  *)
LEMMA AllocatedLease ==
    ASSUME TypeOK, OneOccupantPerSlot, RevokedLeaseIsPast,
           NEW l \in Leaves, NEW lease, allocate_slot_lease(l, lease)
    PROVE  /\ lease \in Lease
           /\ lease.generation = slot_generations[lease.slot]
           /\ \A x \in Holders(leaf_slot_leases) :
                 (x = l) <=> (leaf_slot_leases[x].slot = lease.slot)
           /\ \A x \in Holders(pending) : pending[x].slot = lease.slot => x = l
           /\ pending[l] # NoLease => pending[l].slot = lease.slot
           /\ free_slots' \subseteq Slots
           /\ free_slots' \cap
                 (SlotsOf(leaf_slot_leases) \cup SlotsOf(pending) \cup {lease.slot}) = {}
<1>1. CASE leaf_slot_leases[l] # NoLease /\ lease = leaf_slot_leases[l] /\ UNCHANGED free_slots
  <2>1. l \in Holders(leaf_slot_leases)
    BY <1>1 DEF Holders
  <2>2. lease \in Lease
    BY <2>1, <1>1, HeldFacts
  <2>3. lease.slot \in SlotsOf(leaf_slot_leases)
    BY <2>1, <1>1 DEF SlotsOf
  <2>4. pending[l] # NoLease => l \in Holders(pending)
    BY DEF Holders
  <2>. QED  BY <1>1, <2>1, <2>2, <2>3, <2>4 DEF TypeOK, OneOccupantPerSlot, RevokedLeaseIsPast
<1>2. CASE /\ leaf_slot_leases[l] = NoLease /\ pending[l] # NoLease
           /\ lease = pending[l] /\ UNCHANGED free_slots
  <2>1. l \in Holders(pending) /\ l \notin Holders(leaf_slot_leases)
    BY <1>2 DEF Holders
  <2>2. lease \in Lease
    BY <2>1, <1>2, HeldFacts
  <2>3. lease.slot \in SlotsOf(pending)
    BY <2>1, <1>2 DEF SlotsOf
  <2>. QED  BY <1>2, <2>1, <2>2, <2>3 DEF TypeOK, OneOccupantPerSlot, RevokedLeaseIsPast
<1>3. ASSUME leaf_slot_leases[l] = NoLease, pending[l] = NoLease,
             NEW s \in ensure_slot_allocator_initialized, lease = Fresh(s),
             free_slots' = ensure_slot_allocator_initialized \ {s}
      PROVE  /\ lease \in Lease
             /\ lease.generation = slot_generations[lease.slot]
             /\ \A x \in Holders(leaf_slot_leases) :
                   (x = l) <=> (leaf_slot_leases[x].slot = lease.slot)
             /\ \A x \in Holders(pending) : pending[x].slot = lease.slot => x = l
             /\ pending[l] # NoLease => pending[l].slot = lease.slot
             /\ free_slots' \subseteq Slots
             /\ free_slots' \cap
                   (SlotsOf(leaf_slot_leases) \cup SlotsOf(pending) \cup {lease.slot}) = {}
  <2>1. s \in Slots /\ s \notin SlotsOf(leaf_slot_leases) /\ s \notin SlotsOf(pending)
    BY <1>3, InitializedFree
  <2>2. lease.slot = s /\ lease.generation = slot_generations[s] /\ lease \in Lease
    BY <1>3, <2>1 DEF Fresh, Lease, TypeOK
  <2>3. l \notin Holders(leaf_slot_leases)
    BY <1>3 DEF Holders
  <2>4. \A x \in Holders(leaf_slot_leases) : leaf_slot_leases[x].slot # s
    BY <2>1 DEF SlotsOf
  <2>5. \A x \in Holders(pending) : pending[x].slot # s
    BY <2>1 DEF SlotsOf
  <2>. QED  BY <1>3, <2>2, <2>3, <2>4, <2>5, InitializedFree
<1>. QED  BY <1>1, <1>2, <1>3 DEF allocate_slot_lease


-----------------------------------------------------------------------------
(* Building a ticket keeps the invariant: the leaf is promised a lease     *)
(* that is its own or nobody's (build_join_ticket_with_leaf).              *)
LEMMA TicketKeeps ==
    ASSUME IInv, NEW l \in Leaves, build_join_ticket(l)
    PROVE  IInv'
<1>. USE DEF IInv
<1>1. PICK lease : /\ allocate_slot_lease(l, lease)
                   /\ IF ProvisioningFails
                      THEN UNCHANGED <<pending, tickets>>
                      ELSE /\ pending' = [pending EXCEPT ![l] = lease]
                           /\ tickets' = tickets \cup
                                 {[leaf |-> l, base |-> latest, version |-> barrier_version,
                                   roots |-> <<revoked, revoked>>]}
  BY DEF build_join_ticket
<1>2. UNCHANGED <<latest, revoked, revoked_slot_leases, leaf_slot_leases, slot_generations,
                  barrier_version, barrier_roots, join_version>>
  BY DEF build_join_ticket
<1>3. rotation_required' = FALSE
  BY DEF build_join_ticket
<1>4. /\ lease \in Lease
      /\ lease.generation = slot_generations[lease.slot]
      /\ \A x \in Holders(leaf_slot_leases) :
            (x = l) <=> (leaf_slot_leases[x].slot = lease.slot)
      /\ \A x \in Holders(pending) : pending[x].slot = lease.slot => x = l
      /\ pending[l] # NoLease => pending[l].slot = lease.slot
      /\ free_slots' \subseteq Slots
      /\ free_slots' \cap
            (SlotsOf(leaf_slot_leases) \cup SlotsOf(pending) \cup {lease.slot}) = {}
  BY <1>1, AllocatedLease
<1>5. lease # NoLease
  BY <1>4, LeaseFacts
<1>6. pending' = pending \/ pending' = [pending EXCEPT ![l] = lease]
  BY <1>1
<1>7. /\ pending' \in [Leaves -> Lease \cup {NoLease}]
      /\ Holders(pending) \subseteq Holders(pending')
      /\ \A x \in Holders(pending') :
            \/ x \in Holders(pending) /\ pending'[x] = pending[x]
            \/ x = l /\ pending'[x] = lease
  BY <1>4, <1>5, <1>6 DEF TypeOK, Holders
<1>8. SlotsOf(pending') \subseteq SlotsOf(pending) \cup {lease.slot}
  BY <1>7 DEF SlotsOf
<1>9. TypeOK'
  <2>1. tickets' \subseteq [leaf : Leaves, base : SUBSET Leaves, version : Nat,
                            roots : (SUBSET Leaves) \X (SUBSET Leaves)]
    BY <1>1 DEF TypeOK
  <2>. QED  BY <1>2, <1>3, <1>4, <1>7, <2>1 DEF TypeOK
<1>10. Holders(leaf_slot_leases)' = Holders(leaf_slot_leases)
       /\ SlotsOf(leaf_slot_leases)' = SlotsOf(leaf_slot_leases)
       /\ Holders(revoked_slot_leases)' = Holders(revoked_slot_leases)
       /\ Holders(pending)' = Holders(pending')
       /\ SlotsOf(pending)' = SlotsOf(pending')
  BY <1>2 DEF Holders, SlotsOf
<1>11. OneOccupantPerSlot'
  <2>1. \A x \in Holders(leaf_slot_leases), p \in Holders(pending') :
           (x = p) <=> (leaf_slot_leases[x].slot = pending'[p].slot)
    BY <1>4, <1>7 DEF OneOccupantPerSlot
  <2>2. \A p, q \in Holders(pending') : pending'[p].slot = pending'[q].slot => p = q
    BY <1>4, <1>7 DEF OneOccupantPerSlot
  <2>3. free_slots' \cap (SlotsOf(leaf_slot_leases) \cup SlotsOf(pending')) = {}
    BY <1>4, <1>8
  <2>. QED  BY <1>2, <1>10, <2>1, <2>2, <2>3 DEF OneOccupantPerSlot
<1>12. RevokedLeaseIsPast'
  BY <1>2, <1>4, <1>7, <1>10 DEF RevokedLeaseIsPast
<1>13. TicketsCurrent'
  <2>1. \A x \in Leaves : pending[x] # NoLease => pending'[x] # NoLease
    BY <1>7 DEF Holders
  <2>2. ASSUME NEW t \in tickets'
        PROVE  /\ t.version <= barrier_version
               /\ t.version = barrier_version =>
                     /\ t.base \subseteq Holders(leaf_slot_leases)
                     /\ \A x \in Holders(leaf_slot_leases) :
                           x \in t.base \/ pending'[x] # NoLease
    <3>1. CASE t \in tickets
      BY <3>1, <2>1 DEF TicketsCurrent, Holders
    <3>2. CASE t = [leaf |-> l, base |-> latest, version |-> barrier_version,
                    roots |-> <<revoked, revoked>>]
      <4>1. t.version = barrier_version /\ t.base = latest
        BY <3>2
      <4>. QED  BY <4>1, <2>1 DEF MembersHaveLeases, HeldAccounted, TypeOK, Holders
    <3>. QED  BY <1>1, <3>1, <3>2
  <2>. QED  BY <2>2, <1>2, <1>10 DEF TicketsCurrent
<1>14. HeldAccounted'
  BY <1>2, <1>7, <1>10 DEF HeldAccounted, Holders
<1>15. MembersHaveLeases' /\ RevokedHaveLeases' /\ RevokedHoldNothing'
  BY <1>2, <1>10 DEF MembersHaveLeases, RevokedHaveLeases, RevokedHoldNothing
<1>. QED  BY <1>9, <1>11, <1>12, <1>13, <1>14, <1>15

(* A join keeps the invariant: its lease is the one the leaf was promised, *)
(* and the members it restores still have theirs.                          *)
LEMMA JoinKeeps ==
    ASSUME IInv, NEW t \in tickets, accept_join(t)
    PROVE  IInv'
<1>. USE DEF IInv
<1>. DEFINE l == t.leaf
            lease == require_pending_or_active_slot_lease(l)
<1>1. /\ l \in Leaves /\ t.base \subseteq Leaves
      /\ lease # NoLease
      /\ t.version = barrier_version
      /\ latest' = t.base \cup {l}
      /\ leaf_slot_leases' = [leaf_slot_leases EXCEPT ![l] = lease]
      /\ free_slots' = ensure_slot_allocator_initialized \ {lease.slot}
      /\ revoked' = revoked \ {l}
      /\ revoked_slot_leases' = [revoked_slot_leases EXCEPT ![l] = NoLease]
      /\ tickets' = tickets \ {t}
      /\ UNCHANGED <<pending, slot_generations, barrier_version, barrier_roots,
                     rotation_required>>
  BY DEF accept_join, TypeOK, ensure_join_slot_indices_available, JoinGate, reserve_slot_lease
<1>2. join_version' \in [Leaves -> Nat \cup {None}]
  <2>1. barrier_version + 1 \in Nat
    BY DEF TypeOK
  <2>2. [join_version EXCEPT ![l] = barrier_version + 1] \in [Leaves -> Nat \cup {None}]
    BY <1>1, <2>1 DEF TypeOK
  <2>. QED  BY <2>2 DEF accept_join, prune_join_history
<1>3. \/ l \in Holders(pending) /\ lease = pending[l]
      \/ /\ l \in Holders(leaf_slot_leases) /\ lease = leaf_slot_leases[l]
         /\ pending[l] = NoLease
  BY <1>1 DEF require_pending_or_active_slot_lease, Holders
<1>. HIDE DEF lease, l
<1>4. /\ lease \in Lease
      /\ lease.generation = slot_generations[lease.slot]
      /\ \A x \in Holders(leaf_slot_leases) : leaf_slot_leases[x].slot = lease.slot => x = l
      /\ \A x \in Holders(pending) : (x = l) <=> (pending[x].slot = lease.slot)
      /\ lease.slot \in SlotsOf(leaf_slot_leases) \cup SlotsOf(pending)
  <2>1. CASE l \in Holders(pending) /\ lease = pending[l]
    BY <2>1, HeldFacts DEF OneOccupantPerSlot, RevokedLeaseIsPast, SlotsOf
  <2>2. CASE /\ l \in Holders(leaf_slot_leases) /\ lease = leaf_slot_leases[l]
             /\ pending[l] = NoLease
    <3>1. l \notin Holders(pending)
      BY <2>2 DEF Holders
    <3>. QED  BY <2>2, <3>1, HeldFacts DEF OneOccupantPerSlot, RevokedLeaseIsPast, SlotsOf
  <2>. QED  BY <1>3, <2>1, <2>2
<1>5. /\ leaf_slot_leases' \in [Leaves -> Lease \cup {NoLease}]
      /\ Holders(leaf_slot_leases') = Holders(leaf_slot_leases) \cup {l}
      /\ \A x \in Holders(leaf_slot_leases') :
            \/ x \in Holders(leaf_slot_leases) /\ leaf_slot_leases'[x] = leaf_slot_leases[x]
            \/ x = l /\ leaf_slot_leases'[x] = lease
  BY <1>1, <1>4 DEF TypeOK, Holders
<1>6. SlotsOf(leaf_slot_leases') \subseteq SlotsOf(leaf_slot_leases) \cup {lease.slot}
  BY <1>5 DEF SlotsOf
<1>7. /\ revoked_slot_leases' \in [Leaves -> Lease \cup {NoLease}]
      /\ Holders(revoked_slot_leases') = Holders(revoked_slot_leases) \ {l}
      /\ \A x \in Holders(revoked_slot_leases') : revoked_slot_leases'[x] = revoked_slot_leases[x]
  BY <1>1 DEF TypeOK, Holders
<1>8. /\ Holders(leaf_slot_leases)' = Holders(leaf_slot_leases')
      /\ SlotsOf(leaf_slot_leases)' = SlotsOf(leaf_slot_leases')
      /\ Holders(revoked_slot_leases)' = Holders(revoked_slot_leases')
      /\ Holders(pending)' = Holders(pending) /\ SlotsOf(pending)' = SlotsOf(pending)
  BY <1>1 DEF Holders, SlotsOf
<1>9. TypeOK'
  BY <1>1, <1>2, <1>5, <1>7, InitializedFree DEF TypeOK
<1>10. OneOccupantPerSlot'
  <2>1. \A x \in Holders(leaf_slot_leases'), p \in Holders(pending) :
           (x = p) <=> (leaf_slot_leases'[x].slot = pending[p].slot)
    BY <1>4, <1>5 DEF OneOccupantPerSlot
  <2>2. \A x, y \in Holders(leaf_slot_leases') :
           leaf_slot_leases'[x].slot = leaf_slot_leases'[y].slot => x = y
    BY <1>4, <1>5 DEF OneOccupantPerSlot
  <2>3. free_slots' \cap (SlotsOf(leaf_slot_leases') \cup SlotsOf(pending)) = {}
    BY <1>1, <1>4, <1>6, InitializedFree
  <2>4. \A p, q \in Holders(pending) : pending[p].slot = pending[q].slot => p = q
    BY DEF OneOccupantPerSlot
  <2>5. pending' = pending
    BY <1>1
  <2>. QED  BY ONLY <1>8, <2>1, <2>2, <2>3, <2>4, <2>5 DEF OneOccupantPerSlot
<1>11. RevokedLeaseIsPast'
  <2>1. \A x \in Holders(leaf_slot_leases') :
           leaf_slot_leases'[x].generation = slot_generations[leaf_slot_leases'[x].slot]
    BY <1>4, <1>5 DEF RevokedLeaseIsPast
  <2>2. \A x \in Holders(pending) : pending[x].generation = slot_generations[pending[x].slot]
    BY DEF RevokedLeaseIsPast
  <2>3. \A x \in Holders(revoked_slot_leases') :
           revoked_slot_leases'[x].generation < slot_generations[revoked_slot_leases'[x].slot]
    BY <1>7 DEF RevokedLeaseIsPast
  <2>4. pending' = pending /\ slot_generations' = slot_generations
    BY <1>1
  <2>. QED  BY ONLY <1>8, <2>1, <2>2, <2>3, <2>4 DEF RevokedLeaseIsPast
<1>12. /\ t.base \subseteq Holders(leaf_slot_leases)
       /\ \A x \in Holders(leaf_slot_leases) : x \in t.base \/ pending[x] # NoLease
  BY <1>1 DEF TicketsCurrent
<1>13. l \in Holders(leaf_slot_leases) \/ pending[l] # NoLease
  BY <1>3 DEF Holders
<1>14. HeldAccounted'
  BY <1>1, <1>5, <1>8, <1>12 DEF HeldAccounted
<1>15. MembersHaveLeases' /\ RevokedHoldNothing' /\ RevokedHaveLeases'
  BY <1>1, <1>5, <1>7, <1>8, <1>12
     DEF MembersHaveLeases, RevokedHoldNothing, RevokedHaveLeases
<1>16. TicketsCurrent'
  <2>1. tickets' \subseteq tickets /\ barrier_version' = barrier_version /\ pending' = pending
    BY <1>1
  <2>2. Holders(leaf_slot_leases)' = Holders(leaf_slot_leases) \cup {l}
    BY <1>5, <1>8
  <2>3. TicketsCurrent
    OBVIOUS
  <2>. QED  BY ONLY <1>13, <2>1, <2>2, <2>3 DEF TicketsCurrent
<1>. QED  BY <1>9, <1>10, <1>11, <1>14, <1>15, <1>16


(* An update that removes nobody keeps the invariant: it only drops the    *)
(* author's pending record and earlier occupants' revocations, and retires *)
(* every ticket.                                                           *)
LEMMA UpdateKeeps ==
    ASSUME IInv, NEW a \in Leaves, NEW reason \in 0 .. 2, NEW token \in BOOLEAN,
           accept_update(a, reason, token)
    PROVE  IInv'
<1>. USE DEF IInv
<1>1. /\ a \in latest
      /\ barrier_version' = barrier_version + 1
      /\ barrier_roots' = <<RevokedByTicket(a), RevokedByTicket(a)>>
      /\ rotation_required' = FALSE
      /\ UNCHANGED <<latest, leaf_slot_leases, free_slots, slot_generations,
                     join_version, tickets>>
  BY DEF accept_update
<1>2. PICK gone \in SUBSET Leaves, spent \in SUBSET {a} :
         /\ pending' = [x \in Leaves |-> IF x \in spent THEN NoLease ELSE pending[x]]
         /\ revoked' = revoked \ gone
         /\ revoked_slot_leases' =
               [x \in Leaves |-> IF x \in gone THEN NoLease ELSE revoked_slot_leases[x]]
  <2>1. CASE token
    <3>. DEFINE superseded == {r \in Holders(revoked_slot_leases) :
                                  revoked_slot_leases[r].slot = pending[a].slot}
    <3>1. /\ pending' = [pending EXCEPT ![a] = NoLease]
          /\ revoked' = revoked \ superseded
          /\ revoked_slot_leases' =
                [x \in Leaves |-> IF x \in superseded THEN NoLease ELSE revoked_slot_leases[x]]
      BY <2>1 DEF accept_update, finalize_slot_reclaim
    <3>2. superseded \in SUBSET Leaves
      BY DEF Holders
    <3>3. pending' = [x \in Leaves |-> IF x \in {a} THEN NoLease ELSE pending[x]]
      BY <3>1 DEF TypeOK
    <3>. QED  BY <3>1, <3>2, <3>3
  <2>2. CASE ~token
    <3>1. pending' = pending /\ revoked' = revoked /\ revoked_slot_leases' = revoked_slot_leases
      BY <2>2 DEF accept_update
    <3>2. /\ pending' = [x \in Leaves |-> IF x \in {} THEN NoLease ELSE pending[x]]
          /\ revoked_slot_leases' =
                [x \in Leaves |-> IF x \in {} THEN NoLease ELSE revoked_slot_leases[x]]
      BY <3>1 DEF TypeOK
    <3>3. revoked' = revoked \ {}
      BY <3>1
    <3>. WITNESS {} \in SUBSET Leaves, {} \in SUBSET {a}
    <3>. QED  BY <3>2, <3>3
  <2>. QED  BY <2>1, <2>2
<1>3. /\ pending' \in [Leaves -> Lease \cup {NoLease}]
      /\ Holders(pending') \subseteq Holders(pending)
      /\ \A x \in Holders(pending') : pending'[x] = pending[x]
      /\ \A x \in Leaves : pending[x] # NoLease => x = a \/ pending'[x] # NoLease
  BY <1>2 DEF TypeOK, Holders
<1>4. /\ revoked_slot_leases' \in [Leaves -> Lease \cup {NoLease}]
      /\ Holders(revoked_slot_leases') = Holders(revoked_slot_leases) \ gone
      /\ \A x \in Holders(revoked_slot_leases') : revoked_slot_leases'[x] = revoked_slot_leases[x]
  BY <1>2 DEF TypeOK, Holders
<1>5. SlotsOf(pending') \subseteq SlotsOf(pending)
  BY <1>3 DEF SlotsOf
<1>6. /\ Holders(leaf_slot_leases)' = Holders(leaf_slot_leases)
      /\ SlotsOf(leaf_slot_leases)' = SlotsOf(leaf_slot_leases)
      /\ Holders(revoked_slot_leases)' = Holders(revoked_slot_leases')
      /\ Holders(pending)' = Holders(pending') /\ SlotsOf(pending)' = SlotsOf(pending')
  BY <1>1 DEF Holders, SlotsOf
<1>7. TypeOK'
  <2>1. barrier_version' \in Nat
    <3>1. barrier_version \in Nat
      BY DEF TypeOK
    <3>. QED
      BY ONLY <1>1, <3>1
  <2>2. RevokedByTicket(a) \in SUBSET Leaves
    BY DEF RevokedByTicket, TypeOK
  <2>3. barrier_roots' \in (SUBSET Leaves) \X (SUBSET Leaves)
    BY <1>1, <2>2
  <2>4. revoked' \subseteq Leaves
    BY <1>2 DEF TypeOK
  <2>. QED  BY <1>1, <1>3, <1>4, <2>1, <2>3, <2>4 DEF TypeOK
<1>8. OneOccupantPerSlot'
  <2>1. \A x \in Holders(leaf_slot_leases), p \in Holders(pending') :
           (x = p) <=> (leaf_slot_leases[x].slot = pending'[p].slot)
    BY <1>3 DEF OneOccupantPerSlot
  <2>2. \A p, q \in Holders(pending') : pending'[p].slot = pending'[q].slot => p = q
    BY <1>3 DEF OneOccupantPerSlot
  <2>3. free_slots \cap (SlotsOf(leaf_slot_leases) \cup SlotsOf(pending')) = {}
    BY <1>5 DEF OneOccupantPerSlot
  <2>4. \A x, y \in Holders(leaf_slot_leases) :
           leaf_slot_leases[x].slot = leaf_slot_leases[y].slot => x = y
    BY DEF OneOccupantPerSlot
  <2>5. free_slots' = free_slots /\ leaf_slot_leases' = leaf_slot_leases
    BY <1>1
  <2>. QED  BY ONLY <1>6, <2>1, <2>2, <2>3, <2>4, <2>5 DEF OneOccupantPerSlot
<1>9. RevokedLeaseIsPast'
  BY <1>1, <1>3, <1>4, <1>6 DEF RevokedLeaseIsPast
<1>10. HeldAccounted'
  BY <1>1, <1>3, <1>6 DEF HeldAccounted, Holders
<1>11. MembersHaveLeases' /\ RevokedHaveLeases' /\ RevokedHoldNothing'
  BY <1>1, <1>2, <1>4, <1>6 DEF MembersHaveLeases, RevokedHaveLeases, RevokedHoldNothing
<1>12. TicketsCurrent'
  <2>1. \A t \in tickets : t.version \in Nat
    BY DEF TypeOK
  <2>2. \A t \in tickets : t.version <= barrier_version + 1 /\ t.version # barrier_version + 1
    BY <2>1 DEF TypeOK, TicketsCurrent
  <2>. QED  BY <1>1, <2>2 DEF TicketsCurrent
<1>. QED  BY <1>7, <1>8, <1>9, <1>10, <1>11, <1>12

(* A removal keeps the invariant: the slot comes free with no other record *)
(* of it, its generation moves past the revoked lease, and every ticket is *)
(* retired (release_slot_lease).                                           *)
LEMMA RemovalKeeps ==
    ASSUME IInv, NEW a \in Leaves, NEW l \in Leaves, accept_removal(a, l)
    PROVE  IInv'
<1>. USE DEF IInv
<1>. DEFINE lease == leaf_slot_leases[l]
<1>1. /\ l \in latest
      /\ barrier_version' = barrier_version + 1
      /\ barrier_roots' = <<{l}, revoked \cup {l}>>
      /\ latest' = latest \ {l}
      /\ revoked' = revoked \cup {l}
      /\ leaf_slot_leases' = [leaf_slot_leases EXCEPT ![l] = NoLease]
      /\ slot_generations' = [slot_generations EXCEPT ![lease.slot] = lease.generation + 1]
      /\ free_slots' = ensure_slot_allocator_initialized \cup {lease.slot}
      /\ revoked_slot_leases' = [revoked_slot_leases EXCEPT ![l] = lease]
      /\ pending' = [pending EXCEPT ![l] = NoLease]
      /\ join_version' = prune_join_history(join_version, latest \ {l})
      /\ rotation_required' = TRUE
      /\ tickets' = tickets
  BY DEF accept_removal, release_slot_lease
<1>2. /\ l \in Holders(leaf_slot_leases)
      /\ lease \in Lease /\ lease # NoLease
      /\ lease.slot \in Slots /\ lease.generation \in Nat
      /\ lease.generation = slot_generations[lease.slot]
  BY <1>1, HeldFacts, LeaseFacts DEF MembersHaveLeases, RevokedLeaseIsPast
<1>3. /\ \A x \in Holders(leaf_slot_leases) : leaf_slot_leases[x].slot = lease.slot => x = l
      /\ \A x \in Holders(pending) : pending[x].slot = lease.slot => x = l
  BY <1>2 DEF OneOccupantPerSlot
<1>. HIDE DEF lease
<1>4. /\ leaf_slot_leases' \in [Leaves -> Lease \cup {NoLease}]
      /\ Holders(leaf_slot_leases') = Holders(leaf_slot_leases) \ {l}
      /\ \A x \in Holders(leaf_slot_leases') : leaf_slot_leases'[x] = leaf_slot_leases[x]
  BY <1>1 DEF TypeOK, Holders
<1>5. /\ pending' \in [Leaves -> Lease \cup {NoLease}]
      /\ Holders(pending') = Holders(pending) \ {l}
      /\ \A x \in Holders(pending') : pending'[x] = pending[x]
      /\ \A x \in Leaves \ {l} : pending'[x] = pending[x]
  BY <1>1 DEF TypeOK, Holders
<1>6. /\ revoked_slot_leases' \in [Leaves -> Lease \cup {NoLease}]
      /\ Holders(revoked_slot_leases') = Holders(revoked_slot_leases) \cup {l}
      /\ revoked_slot_leases'[l] = lease
      /\ \A x \in Leaves \ {l} : revoked_slot_leases'[x] = revoked_slot_leases[x]
  BY <1>1, <1>2 DEF TypeOK, Holders
<1>7. /\ slot_generations' \in [Slots -> Nat]
      /\ slot_generations'[lease.slot] = slot_generations[lease.slot] + 1
      /\ \A s \in Slots \ {lease.slot} : slot_generations'[s] = slot_generations[s]
  <2>1. lease.generation + 1 \in Nat
    BY <1>2
  <2>. QED  BY <1>1, <1>2, <2>1 DEF TypeOK
<1>8. /\ SlotsOf(leaf_slot_leases') \subseteq SlotsOf(leaf_slot_leases) \ {lease.slot}
      /\ SlotsOf(pending') \subseteq SlotsOf(pending) \ {lease.slot}
  BY <1>3, <1>4, <1>5 DEF SlotsOf
<1>9. /\ Holders(leaf_slot_leases)' = Holders(leaf_slot_leases')
      /\ SlotsOf(leaf_slot_leases)' = SlotsOf(leaf_slot_leases')
      /\ Holders(revoked_slot_leases)' = Holders(revoked_slot_leases')
      /\ Holders(pending)' = Holders(pending') /\ SlotsOf(pending)' = SlotsOf(pending')
  BY DEF Holders, SlotsOf
<1>10. TypeOK'
  <2>1. barrier_version' \in Nat
    BY <1>1 DEF TypeOK
  <2>2. join_version' \in [Leaves -> Nat \cup {None}]
    BY <1>1 DEF TypeOK, prune_join_history
  <2>3. free_slots' \subseteq Slots
    BY <1>1, <1>2, InitializedFree
  <2>4. barrier_roots' \in (SUBSET Leaves) \X (SUBSET Leaves)
    BY <1>1 DEF TypeOK
  <2>5. latest' \subseteq Leaves /\ revoked' \subseteq Leaves /\ rotation_required' \in BOOLEAN
    BY <1>1 DEF TypeOK
  <2>. QED  BY <1>1, <1>4, <1>5, <1>6, <1>7, <2>1, <2>2, <2>3, <2>4, <2>5 DEF TypeOK
<1>11. OneOccupantPerSlot'
  <2>1. \A x \in Holders(leaf_slot_leases'), p \in Holders(pending') :
           (x = p) <=> (leaf_slot_leases'[x].slot = pending'[p].slot)
    BY <1>4, <1>5 DEF OneOccupantPerSlot
  <2>2. \A x, y \in Holders(leaf_slot_leases') :
           leaf_slot_leases'[x].slot = leaf_slot_leases'[y].slot => x = y
    BY <1>4 DEF OneOccupantPerSlot
  <2>3. \A p, q \in Holders(pending') : pending'[p].slot = pending'[q].slot => p = q
    BY <1>5 DEF OneOccupantPerSlot
  <2>4. free_slots' \cap (SlotsOf(leaf_slot_leases') \cup SlotsOf(pending')) = {}
    BY <1>1, <1>8, InitializedFree
  <2>. QED  BY ONLY <1>9, <2>1, <2>2, <2>3, <2>4 DEF OneOccupantPerSlot
<1>12. RevokedLeaseIsPast'
  <2>1. \A x \in Holders(leaf_slot_leases') :
           leaf_slot_leases'[x].generation = slot_generations'[leaf_slot_leases'[x].slot]
    BY <1>3, <1>4, <1>7, HeldFacts, LeaseFacts DEF RevokedLeaseIsPast
  <2>2. \A x \in Holders(pending') :
           pending'[x].generation = slot_generations'[pending'[x].slot]
    BY <1>3, <1>5, <1>7, HeldFacts, LeaseFacts DEF RevokedLeaseIsPast
  <2>3. ASSUME NEW x \in Holders(revoked_slot_leases')
        PROVE  revoked_slot_leases'[x].generation < slot_generations'[revoked_slot_leases'[x].slot]
    <3>1. CASE x = l
      BY <3>1, <1>2, <1>6, <1>7
    <3>2. CASE x # l
      <4>1. /\ x \in Holders(revoked_slot_leases) /\ x \in Leaves
            /\ revoked_slot_leases'[x] = revoked_slot_leases[x]
        BY <3>2, <1>6 DEF Holders
      <4>2. /\ revoked_slot_leases[x].slot \in Slots /\ revoked_slot_leases[x].generation \in Nat
            /\ revoked_slot_leases[x].generation < slot_generations[revoked_slot_leases[x].slot]
        BY <4>1, HeldFacts, LeaseFacts DEF RevokedLeaseIsPast
      <4>3. slot_generations[revoked_slot_leases[x].slot] \in Nat
        BY <4>2 DEF TypeOK
      <4>. QED  BY <4>1, <4>2, <4>3, <1>7
    <3>. QED  BY <3>1, <3>2
  <2>. QED  BY ONLY <1>9, <2>1, <2>2, <2>3 DEF RevokedLeaseIsPast
<1>13. HeldAccounted'
  BY <1>1, <1>4, <1>5, <1>9 DEF HeldAccounted, Holders
<1>14. MembersHaveLeases' /\ RevokedHaveLeases' /\ RevokedHoldNothing'
  BY <1>1, <1>4, <1>6, <1>9 DEF MembersHaveLeases, RevokedHaveLeases, RevokedHoldNothing
<1>15. TicketsCurrent'
  <2>1. \A t \in tickets : t.version \in Nat
    BY DEF TypeOK
  <2>2. \A t \in tickets : t.version <= barrier_version + 1 /\ t.version # barrier_version + 1
    BY <2>1 DEF TypeOK, TicketsCurrent
  <2>. QED  BY <1>1, <2>2 DEF TicketsCurrent
<1>. QED  BY <1>10, <1>11, <1>12, <1>13, <1>14, <1>15


-----------------------------------------------------------------------------
(* An empty room satisfies the invariant. *)
LEMMA InvInit ==
    ASSUME Init
    PROVE  IInv
<1>1. Holders(leaf_slot_leases) = {} /\ Holders(pending) = {} /\ Holders(revoked_slot_leases) = {}
  BY DEF Init, Holders
<1>2. TypeOK
  BY SlotRosterAssumption DEF Init, TypeOK, Slots, None
<1>. QED
  BY <1>1, <1>2 DEF Init, IInv, OneOccupantPerSlot, RevokedLeaseIsPast, MembersHaveLeases,
     RevokedHaveLeases, HeldAccounted, TicketsCurrent, RevokedHoldNothing, SlotsOf

(* No step disturbs it. *)
LEMMA InvNext ==
    ASSUME IInv, [Next]_vars
    PROVE  IInv'
<1>1. CASE \E l \in Leaves : build_join_ticket(l)
  BY <1>1, TicketKeeps
<1>2. CASE ensure_kbroad_ready \/ UNCHANGED vars
  <2>1. /\ UNCHANGED <<latest, revoked, revoked_slot_leases, leaf_slot_leases, pending,
                       free_slots, slot_generations, barrier_version, barrier_roots,
                       join_version, tickets>>
        /\ rotation_required' \in BOOLEAN
    BY <1>2 DEF ensure_kbroad_ready, vars, IInv, TypeOK
  <2>2. TypeOK'
    BY <2>1 DEF IInv, TypeOK
  <2>3. /\ Holders(leaf_slot_leases)' = Holders(leaf_slot_leases)
        /\ SlotsOf(leaf_slot_leases)' = SlotsOf(leaf_slot_leases)
        /\ Holders(pending)' = Holders(pending) /\ SlotsOf(pending)' = SlotsOf(pending)
        /\ Holders(revoked_slot_leases)' = Holders(revoked_slot_leases)
    BY <2>1 DEF SlotsOf, Holders
  <2>4. OneOccupantPerSlot' /\ HeldAccounted'
    BY <2>1, <2>3 DEF IInv, OneOccupantPerSlot, HeldAccounted
  <2>5. RevokedLeaseIsPast' /\ MembersHaveLeases' /\ RevokedHaveLeases'
    BY <2>1, <2>3 DEF IInv, RevokedLeaseIsPast, MembersHaveLeases, RevokedHaveLeases
  <2>6. TicketsCurrent' /\ RevokedHoldNothing'
    BY <2>1, <2>3 DEF IInv, TicketsCurrent, RevokedHoldNothing
  <2>. QED
    BY <2>2, <2>4, <2>5, <2>6 DEF IInv
<1>3. CASE \E t \in tickets : accept_join(t)
  BY <1>3, JoinKeeps
<1>4. CASE \E a \in Leaves : \E reason \in 0 .. 2 : \E token \in BOOLEAN :
              accept_update(a, reason, token)
  BY <1>4, UpdateKeeps
<1>5. CASE \E a, l \in Leaves : accept_removal(a, l)
  BY <1>5, RemovalKeeps
<1>. QED  BY <1>1, <1>2, <1>3, <1>4, <1>5 DEF Next

(* The invariant the accept paths of the roster keep (joins, updates, removals *)
(* and the tickets before them) holds in every state.                          *)
THEOREM InductiveInvariant == Spec => []IInv
BY InvInit, InvNext, PTL DEF Spec

(* The room's roster state is well typed, for any leaves and tree size.    *)
THEOREM RosterTypeCorrect == Spec => []TypeOK
<1>1. IInv => TypeOK
  BY DEF IInv
<1>. QED  BY <1>1, InductiveInvariant, PTL

(* A slot is leased or promised to at most one leaf, and is then not free, *)
(* although the free set is rebuilt from the records whenever it is empty. *)
THEOREM RosterOneOccupant == Spec => []OneOccupantPerSlot
<1>1. IInv => OneOccupantPerSlot
  BY DEF IInv
<1>. QED  BY <1>1, InductiveInvariant, PTL

(* The lease of a removed member is never the lease of a later occupant of *)
(* its slot (slot_generations).                                            *)
THEOREM RosterRevokedPast == Spec => []RevokedLeaseIsPast
<1>1. IInv => RevokedLeaseIsPast
  BY DEF IInv
<1>. QED  BY <1>1, InductiveInvariant, PTL

(* However late joins arrive, every member has an active lease, so the     *)
(* room's tickets and bundles never fail active_cover_leaf_allocations.    *)
THEOREM RosterMembersLeased == Spec => []MembersHaveLeases
<1>1. IInv => MembersHaveLeases
  BY DEF IInv
<1>. QED  BY <1>1, InductiveInvariant, PTL

(* The revoked leaves are those with a retained revoked lease, and no      *)
(* member is among them.                                                   *)
THEOREM RosterRevokedLeased == Spec => []RevokedHaveLeases
<1>1. IInv => RevokedHaveLeases
  BY DEF IInv
<1>. QED  BY <1>1, InductiveInvariant, PTL

(* A leaf that passes the capacity check gets a slot: the slots it counts  *)
(* are all that are taken, and they are fewer than the tree has.           *)
THEOREM RosterCapacity == Spec => []CapacityMeansSlot
<1>1. ASSUME IInv, NEW l \in Leaves \ latest, ensure_join_capacity(l),
             pending[l] = NoLease, ensure_slot_allocator_initialized = {}
      PROVE  FALSE
  <2>1. Slots \subseteq SlotsOf(leaf_slot_leases) \cup SlotsOf(pending)
    BY <1>1 DEF ensure_slot_allocator_initialized
  <2>2. SlotsOf(leaf_slot_leases) \subseteq MemberSlots \cup SlotsOf(pending)
    <3>1. ASSUME NEW x \in Holders(leaf_slot_leases)
          PROVE  leaf_slot_leases[x].slot \in MemberSlots \cup SlotsOf(pending)
      <4>1. CASE x \in latest
        BY <4>1 DEF MemberSlots
      <4>2. CASE x \notin latest
        <5>1. x \in Holders(pending)
          BY <1>1, <4>2 DEF IInv, HeldAccounted, Holders
        <5>2. leaf_slot_leases[x].slot = pending[x].slot
          BY <1>1, <3>1, <5>1 DEF IInv, OneOccupantPerSlot
        <5>. QED  BY <5>1, <5>2 DEF SlotsOf
      <4>. QED  BY <4>1, <4>2
    <3>. QED  BY <3>1 DEF SlotsOf
  <2>3. reserved_slot_indices \subseteq Slots
    <3>1. MemberSlots \subseteq Slots
      BY <1>1, HeldFacts, LeaseFacts DEF IInv, MembersHaveLeases, MemberSlots
    <3>2. SlotsOf(pending) \subseteq Slots
      BY <1>1, HeldFacts, LeaseFacts DEF IInv, SlotsOf
    <3>. QED  BY <3>1, <3>2 DEF reserved_slot_indices
  <2>4. reserved_slot_indices = Slots
    BY <2>1, <2>2, <2>3 DEF reserved_slot_indices
  <2>5. Cardinality(Slots) = NMax
    <3>1. 0 \in Int /\ NMax - 1 \in Int /\ NMax > 0
      BY SlotRosterAssumption
    <3>. DEFINE last == NMax - 1
    <3>2. last \in Int
      BY <3>1
    <3>. HIDE DEF last
    <3>3. Cardinality(0 .. last) = IF 0 > last THEN 0 ELSE last - 0 + 1
      BY <3>1, <3>2, FS_Interval
    <3>. QED  BY <3>1, <3>3, SlotRosterAssumption DEF Slots, last
  <2>6. Cardinality(reserved_slot_indices) < Limit
    BY <1>1 DEF ensure_join_capacity
  <2>. QED  BY <2>4, <2>5, <2>6, SlotRosterAssumption
<1>2. IInv => CapacityMeansSlot
  BY <1>1 DEF CapacityMeansSlot
<1>. QED  BY <1>2, InductiveInvariant, PTL

(* A member that has finalized its join leaves the list only by being      *)
(* removed: a ticket that still passes the gate was built on a list with   *)
(* every lease holder but those whose token is pending (accept_join).      *)
THEOREM RosterFinalizedStay == Spec => FinalizedStay
<1> DEFINE Stay == \A l \in latest \ latest' : l \in revoked' \/ pending[l] # NoLease
<1>1. IInv /\ [Next]_vars => [Stay]_vars
    <2> SUFFICES ASSUME IInv, Next, NEW l \in latest \ latest'
                 PROVE  l \in revoked' \/ pending[l] # NoLease
        OBVIOUS
    <2>1. CASE \E t \in tickets : accept_join(t)
        <3>1. PICK t \in tickets : accept_join(t)
            BY <2>1
        <3>2. l \notin t.base /\ t.version = barrier_version
            BY <3>1 DEF accept_join, JoinGate
        <3>3. l \in Holders(leaf_slot_leases)
            BY DEF IInv, MembersHaveLeases
        <3> QED
            BY <3>2, <3>3 DEF IInv, TicketsCurrent
    <2>2. CASE \E a, m \in Leaves : accept_removal(a, m)
        BY <2>2 DEF accept_removal
    <2>3. CASE (\E m \in Leaves : build_join_ticket(m)) \/ ensure_kbroad_ready
        BY <2>3 DEF build_join_ticket, ensure_kbroad_ready
    <2>4. CASE \E a \in Leaves : \E reason \in 0 .. 2 : \E token \in BOOLEAN :
                  accept_update(a, reason, token)
        BY <2>4 DEF accept_update
    <2> QED
        BY <2>1, <2>2, <2>3, <2>4 DEF Next
<1> QED
    BY InductiveInvariant, <1>1, PTL DEF Spec, FinalizedStay

=============================================================================
