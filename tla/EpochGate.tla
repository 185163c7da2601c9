----------------------------- MODULE EpochGate ------------------------------
(***************************************************************************)
(* The epoch-counter and barrier-version rules an anchor of one registered *)
(* group passes: the device chain with its forward-leap caps, the barrier  *)
(* gating and the checkpoint rule of msphf-orchestrator (accept/mod.rs,    *)
(* join.rs, merge.rs), and the join-finalize rules cityg-server adds       *)
(* (validate_barrier_update_against_roster).                               *)
(*                                                                         *)
(* Registration initialises the barrier before the first anchor, so the    *)
(* genesis branch of the gate is not part of the model.  The counters of   *)
(* the code are u64; here they are naturals without a largest value.       *)
(*                                                                         *)
(* A device's chain commitment hashes the device, its previous commitment  *)
(* and the fields the chain binds, so the commitments of one device are    *)
(* numbered: prev = n says that the anchor extends the n-th.               *)
(***************************************************************************)
EXTENDS Integers

CONSTANTS
    Devices,
    Roots, Root0,   \* hashes of the revocation roots, and the initial one
    Ecs,            \* values of fs_ec in a header
    Links,          \* values of fs_dev_prev_commit in a header
    Versions,       \* values of barrier_version in a header
    AnchorMax, FirstDevice, DeviceMax,          \* FsCaps
    MinDeltaGroup, MinDeltaDevice, SlotWidth    \* pcs_refresh_* settings

ASSUME EpochGateAssumption ==
    /\ Root0 \in Roots
    /\ Ecs \subseteq Nat /\ Links \subseteq Nat /\ Versions \subseteq Nat
    /\ AnchorMax \in Nat \ {0} /\ FirstDevice \in Nat \ {0}
    /\ DeviceMax \in Nat \ {0}
    /\ MinDeltaGroup \in Nat \ {0} /\ MinDeltaDevice \in Nat \ {0}
    /\ SlotWidth \in Nat \ {0}

None == -1

VARIABLES
    barrier_version, barrier_roots_hash,
    last_checkpoint_ec, last_accepted_ec, last_pcs_refresh_ec,
    chain,      \* DeviceChainState: number of commitments, last_ec, last refresh
    join_version, \* JoinLeafHistoryRecord.barrier_version, None if not joined
    pending,    \* devices with a pending_join_finalize_auth record
    heads,      \* fs_ec of the live heads
    refreshes   \* history: the accepted PCS refreshes

vars == <<barrier_version, barrier_roots_hash, last_checkpoint_ec,
          last_accepted_ec, last_pcs_refresh_ec, chain, join_version, pending,
          heads, refreshes>>

Larger(a, b) == IF a < b THEN b ELSE a

Init ==
    /\ barrier_version = 0
    /\ barrier_roots_hash = Root0
    /\ last_checkpoint_ec = 0
    /\ last_accepted_ec = 0
    /\ last_pcs_refresh_ec = None
    /\ chain = [d \in Devices |-> [n |-> 0, last_ec |-> 0, pcs |-> None]]
    /\ join_version = [d \in Devices |-> None]
    /\ pending = {}
    /\ heads = {}
    /\ refreshes = {}

-----------------------------------------------------------------------------
(* Faulty variant: the device's leap cap is exclusive.                     *)
DeviceCapExclusive(d, prev, ec) ==
    /\ ec <= last_accepted_ec + AnchorMax
    /\ IF chain[d].n = 0
       THEN ec <= last_accepted_ec + FirstDevice
       ELSE ec >= chain[d].last_ec /\ ec < chain[d].last_ec + DeviceMax
    /\ prev = chain[d].n

verify_device_chain_state(d, prev, ec) ==
    /\ ec <= last_accepted_ec + AnchorMax
    /\ IF chain[d].n = 0
       THEN ec <= last_accepted_ec + FirstDevice
       ELSE ec >= chain[d].last_ec /\ ec <= chain[d].last_ec + DeviceMax
    /\ prev = chain[d].n

(* Faulty variant: the accepted counter is overwritten, not raised.        *)
RecordLatest(ec) == last_accepted_ec' = ec

record_accepted_ec(ec) == last_accepted_ec' = Larger(last_accepted_ec, ec)

(* The author's device chain moves on.                                     *)
Extend(d, ec) == chain' = [chain EXCEPT ![d].n = @ + 1, ![d].last_ec = ec]

(* The gate of an anchor without a barrier update: the version and the     *)
(* revocation roots are the current ones, and the epoch counter is not     *)
(* that of the last PCS refresh.                                           *)
JoinGate(ec, version, roots) ==
    /\ ec # last_pcs_refresh_ec
    /\ roots = barrier_roots_hash
    /\ version = barrier_version

(* A join of device d.  The ticket it was built from left a finalize       *)
(* record for the joining leaf.                                            *)
accept_anchor_join(d, prev, ec) ==
    /\ verify_device_chain_state(d, prev, ec)
    /\ \E version \in Versions, roots \in Roots : JoinGate(ec, version, roots)
    /\ Extend(d, ec)
    /\ record_accepted_ec(ec)
    /\ join_version' = [join_version EXCEPT ![d] = barrier_version + 1]
    /\ pending' = pending \cup {d}
    /\ heads' = heads \cup {ec}
    /\ UNCHANGED <<barrier_version, barrier_roots_hash, last_checkpoint_ec,
                   last_pcs_refresh_ec, refreshes>>

-----------------------------------------------------------------------------
(* JoinSet membership of the author: joins no update has covered yet; at   *)
(* version 0, every member.                                                *)
UnresolvedJoiner(d) ==
    IF barrier_version = 0 THEN join_version[d] # None
                           ELSE join_version[d] > barrier_version

(* Faulty variant: a refresh in the slot of the last one is let through.   *)
RateOnly(d, ec) ==
    /\ last_pcs_refresh_ec # None => ec >= last_pcs_refresh_ec + MinDeltaGroup
    /\ chain[d].pcs # None => ec >= chain[d].pcs + MinDeltaDevice

PcsAllowed(d, ec) ==
    /\ last_pcs_refresh_ec # None =>
          /\ ec >= last_pcs_refresh_ec + MinDeltaGroup
          /\ ec \div SlotWidth # last_pcs_refresh_ec \div SlotWidth
    /\ chain[d].pcs # None => ec >= chain[d].pcs + MinDeltaDevice

(* The gate of an anchor with a barrier update for `version` on top of     *)
(* `prev_version`: 0 = revocation, 1 = pcs_refresh, 2 = join_finalize.     *)
MergeGate(d, ec, version, prev_version, reason, roots) ==
    /\ ec # last_pcs_refresh_ec
    /\ version = barrier_version + 1
    /\ prev_version = barrier_version
    /\ (reason = 0) <=> (roots # barrier_roots_hash)
    /\ reason = 1 => PcsAllowed(d, ec) /\ ~UnresolvedJoiner(d)
    /\ reason = 2 => UnresolvedJoiner(d)

(* fs_checkpoint_ec is the fs_ec of the head the merge retires.            *)
CheckpointAllowed(ec) == ec >= last_checkpoint_ec /\ ec <= last_accepted_ec

(* A head goes; another with the same counter may stay.                    *)
Without(head) == {heads, heads \ {head}}

(* What an update does to the roster's records: a revocation removes some  *)
(* members, and an author that takes over a revoked member's slot may hand *)
(* in its finalize token with it; a join_finalize always does.             *)
Applied(d, reason, out) ==
    /\ out \subseteq {e \in Devices : join_version[e] # None}
    /\ out # {} => reason = 0
    /\ join_version' = [e \in Devices |->
                           IF e \in out THEN None ELSE join_version[e]]
    /\ \/ reason # 2 /\ pending' = pending \ out
       \/ reason # 1 /\ d \in pending /\ UnresolvedJoiner(d)
          /\ pending' = pending \ (out \cup {d})

(* set_last_checkpoint_ec would also raise last_accepted_ec; the last      *)
(* check of CheckpointAllowed leaves it nothing to raise.                  *)
accept_anchor_merge(d, prev, ec, head) ==
    /\ join_version[d] # None
    /\ verify_device_chain_state(d, prev, ec)
    /\ CheckpointAllowed(head)
    /\ \E version, prev_version \in Versions, reason \in 0..2, roots \in Roots :
          /\ MergeGate(d, ec, version, prev_version, reason, roots)
          /\ barrier_version' = version
          /\ barrier_roots_hash' = roots
          /\ chain' = [chain EXCEPT ![d].n = @ + 1, ![d].last_ec = ec,
                                    ![d].pcs = IF reason = 1 THEN ec ELSE @]
          /\ \E out \in SUBSET Devices : Applied(d, reason, out)
          /\ IF reason = 1
             THEN /\ last_pcs_refresh_ec' = ec
                  /\ refreshes' = refreshes \cup
                       {[dev |-> d, ec |-> ec, version |-> version]}
             ELSE UNCHANGED <<last_pcs_refresh_ec, refreshes>>
    /\ last_checkpoint_ec' = head
    /\ record_accepted_ec(ec)
    /\ \E rest \in Without(head) : heads' = rest \cup {ec}

(* A head leaves the window when it expires.                               *)
prune_all(head) ==
    /\ heads' \in Without(head)
    /\ UNCHANGED <<barrier_version, barrier_roots_hash, last_checkpoint_ec,
                   last_accepted_ec, last_pcs_refresh_ec, chain, join_version,
                   pending, refreshes>>

Next ==
    \/ \E d \in Devices, prev \in Links, ec \in Ecs :
          \/ accept_anchor_join(d, prev, ec)
          \/ \E head \in heads : accept_anchor_merge(d, prev, ec, head)
    \/ \E head \in heads : prune_all(head)

Spec == Init /\ [][Next]_vars

-----------------------------------------------------------------------------
(* Counters are naturals, optional ones possibly None.                     *)
TypeOK ==
    /\ barrier_version \in Nat
    /\ barrier_roots_hash \in Roots
    /\ last_checkpoint_ec \in Nat
    /\ last_accepted_ec \in Nat
    /\ last_pcs_refresh_ec \in Nat \cup {None}
    /\ chain \in [Devices -> [n : Nat, last_ec : Nat, pcs : Nat \cup {None}]]
    /\ join_version \in [Devices -> Nat \cup {None}]
    /\ pending \in SUBSET Devices
    /\ heads \in SUBSET Nat
    /\ refreshes \in SUBSET [dev : Devices, ec : Nat, version : Nat]

(* The debug_assert of accept_anchor_merge, and what makes it true: the    *)
(* checkpoint, every device's counter, every live head and every refresh   *)
(* stay at or below last_accepted_ec, from which the caps are measured.    *)
EcOrder ==
    /\ last_checkpoint_ec <= last_accepted_ec
    /\ \A d \in Devices : chain[d].last_ec <= last_accepted_ec
    /\ \A ec \in heads : ec <= last_accepted_ec
    /\ \A r \in refreshes : r.ec <= last_accepted_ec

(* PCS refreshes keep their distance although each is checked only against *)
(* the last of the group and the last of its author: any two of the group  *)
(* are MinDeltaGroup and a slot apart, any two of one device               *)
(* MinDeltaDevice.                                                         *)
PcsSpacing ==
    \A x, y \in refreshes : x # y /\ x.ec <= y.ec =>
       /\ y.ec >= x.ec + MinDeltaGroup
       /\ y.ec \div SlotWidth # x.ec \div SlotWidth
       /\ x.dev = y.dev => y.ec >= x.ec + MinDeltaDevice

(* The epoch-boundary rule and the forward caps never corner a device: if  *)
(* the device cap allows two steps, some counter beyond its last one       *)
(* passes verify_device_chain_state and is not the last refresh's.         *)
NoDeviceStuck ==
    DeviceMax >= 2 => \A d \in Devices :
       \E ec \in {chain[d].last_ec + 1, chain[d].last_ec + 2} :
          /\ ec # last_pcs_refresh_ec
          /\ verify_device_chain_state(d, chain[d].n, ec)

=============================================================================
