-------------------------- MODULE EpochGateProofs ---------------------------
(***************************************************************************)
(* Proofs of the safety properties of EpochGate for any devices, header    *)
(* values, caps and refresh settings.                                      *)
(*                                                                         *)
(* Every check of the gate compares a header with one remembered value:    *)
(* the group's last refresh, the author's last refresh.  RefreshesKnown    *)
(* says that the remembered values are the largest of all accepted ones,   *)
(* so a check against the last refresh is a check against each of them.    *)
(***************************************************************************)
EXTENDS EpochGate, TLAPS

(* The remembered counters bound the history: every refresh is at or below *)
(* the group's last refresh and its author's last refresh, its version has *)
(* been reached, and the last refresh is an accepted counter.              *)
RefreshesKnown ==
    /\ last_pcs_refresh_ec <= last_accepted_ec
    /\ \A r \in refreshes :
          /\ last_pcs_refresh_ec # None /\ r.ec <= last_pcs_refresh_ec
          /\ chain[r.dev].pcs # None /\ r.ec <= chain[r.dev].pcs
          /\ r.version <= barrier_version

GateInv == TypeOK /\ EcOrder /\ RefreshesKnown /\ PcsSpacing

-----------------------------------------------------------------------------
(* Division by the slot width keeps the order of epoch counters.           *)
LEMMA SlotsMonotone ==
  ASSUME NEW a \in Nat, NEW b \in Nat, NEW w \in Nat \ {0}, a <= b
  PROVE  /\ a \div w <= b \div w
         /\ a \div w \in Int /\ b \div w \in Int
<1>1. a \div w <= b \div w
  OBVIOUS
<1>2. a \div w \in Int /\ b \div w \in Int
  OBVIOUS
<1> QED BY <1>1, <1>2

(* Freshly initialised, the group has no refresh and all counters are 0.   *)
LEMMA GateInit == Init => GateInv
  BY EpochGateAssumption DEF Init, GateInv, TypeOK, EcOrder, RefreshesKnown,
     PcsSpacing, None

(* record_accepted_ec never lowers the accepted counter and covers ec.     *)
LEMMA AcceptedRises ==
  ASSUME TypeOK, NEW ec \in Nat, record_accepted_ec(ec)
  PROVE  /\ last_accepted_ec' \in Nat
         /\ last_accepted_ec <= last_accepted_ec'
         /\ ec <= last_accepted_ec'
  BY DEF TypeOK, record_accepted_ec, Larger

(* A join leaves the refreshes alone and raises the counters together.     *)
LEMMA JoinKeeps ==
  ASSUME GateInv, NEW d \in Devices, NEW prev \in Links, NEW ec \in Ecs,
         accept_anchor_join(d, prev, ec)
  PROVE  GateInv'
  <1> USE DEF GateInv
  <1>1. ec \in Nat
    BY EpochGateAssumption
  <1>2. /\ last_accepted_ec' \in Nat
        /\ last_accepted_ec <= last_accepted_ec'
        /\ ec <= last_accepted_ec'
    BY <1>1, AcceptedRises DEF accept_anchor_join
  <1>3. chain' \in [Devices -> [n : Nat, last_ec : Nat, pcs : Nat \cup {None}]]
    <2>1. /\ chain[d] \in [n : Nat, last_ec : Nat, pcs : Nat \cup {None}]
          /\ chain[d].n + 1 \in Nat
      BY DEF TypeOK
    <2>2. [chain[d] EXCEPT !.n = @ + 1, !.last_ec = ec]
             \in [n : Nat, last_ec : Nat, pcs : Nat \cup {None}]
      BY <1>1, <2>1
    <2> QED BY <2>2 DEF accept_anchor_join, Extend, TypeOK
  <1>4. /\ \A e \in Devices : chain'[e].pcs = chain[e].pcs
        /\ \A e \in Devices : chain'[e].last_ec = chain[e].last_ec
                              \/ chain'[e].last_ec = ec
    BY DEF accept_anchor_join, Extend, TypeOK
  <1>5. TypeOK'
    <2>1. join_version' \in [Devices -> Nat \cup {None}]
      BY DEF accept_anchor_join, TypeOK
    <2>2. /\ heads' \in SUBSET Nat
          /\ pending' \in SUBSET Devices
      BY <1>1 DEF accept_anchor_join, TypeOK
    <2> QED BY <1>2, <1>3, <2>1, <2>2 DEF accept_anchor_join, TypeOK
  <1>6. EcOrder'
    <2>1. last_checkpoint_ec' <= last_accepted_ec'
      BY <1>2 DEF accept_anchor_join, TypeOK, EcOrder
    <2>2. \A e \in Devices : chain'[e].last_ec <= last_accepted_ec'
      BY <1>1, <1>2, <1>4 DEF TypeOK, EcOrder
    <2>3. \A h \in heads' : h <= last_accepted_ec'
      BY <1>1, <1>2 DEF accept_anchor_join, TypeOK, EcOrder
    <2>4. \A r \in refreshes' : r.ec <= last_accepted_ec'
      BY <1>2 DEF accept_anchor_join, TypeOK, EcOrder
    <2> QED BY <2>1, <2>2, <2>3, <2>4 DEF EcOrder
  <1>7. RefreshesKnown'
    BY <1>2, <1>4 DEF accept_anchor_join, TypeOK, RefreshesKnown, None
  <1>8. PcsSpacing'
    BY DEF accept_anchor_join, PcsSpacing
  <1> QED BY <1>5, <1>6, <1>7, <1>8

(* A merge carries the version one up, and a refresh it carries is past    *)
(* every earlier one: PcsAllowed compares it with the largest of them.     *)
LEMMA MergeKeeps ==
  ASSUME GateInv, NEW d \in Devices, NEW prev \in Links, NEW ec \in Ecs,
         NEW head \in heads, accept_anchor_merge(d, prev, ec, head)
  PROVE  GateInv'
  <1> USE DEF GateInv
  <1>1. ec \in Nat /\ head \in Nat
    BY EpochGateAssumption DEF TypeOK
  <1>2. /\ last_accepted_ec' \in Nat
        /\ last_accepted_ec <= last_accepted_ec'
        /\ ec <= last_accepted_ec'
    BY <1>1, AcceptedRises DEF accept_anchor_merge
  <1>3. PICK version \in Versions, prev_version \in Versions,
             reason \in 0..2, roots \in Roots :
          /\ MergeGate(d, ec, version, prev_version, reason, roots)
          /\ barrier_version' = version
          /\ barrier_roots_hash' = roots
          /\ chain' = [chain EXCEPT ![d].n = @ + 1, ![d].last_ec = ec,
                                    ![d].pcs = IF reason = 1 THEN ec ELSE @]
          /\ \E out \in SUBSET Devices : Applied(d, reason, out)
          /\ IF reason = 1
             THEN /\ last_pcs_refresh_ec' = ec
                  /\ refreshes' = refreshes \cup
                       {[dev |-> d, ec |-> ec, version |-> version]}
             ELSE UNCHANGED <<last_pcs_refresh_ec, refreshes>>
    BY DEF accept_anchor_merge
  <1>4. version = barrier_version + 1 /\ version \in Nat
    BY <1>3 DEF MergeGate, TypeOK
  <1>5. chain' \in [Devices -> [n : Nat, last_ec : Nat, pcs : Nat \cup {None}]]
    <2>1. /\ chain[d] \in [n : Nat, last_ec : Nat, pcs : Nat \cup {None}]
          /\ chain[d].n + 1 \in Nat
          /\ (IF reason = 1 THEN ec ELSE chain[d].pcs) \in Nat \cup {None}
      BY <1>1 DEF TypeOK
    <2>2. [chain[d] EXCEPT !.n = @ + 1, !.last_ec = ec,
                           !.pcs = IF reason = 1 THEN ec ELSE @]
             \in [n : Nat, last_ec : Nat, pcs : Nat \cup {None}]
      BY <1>1, <2>1
    <2> QED BY <1>3, <2>2 DEF TypeOK
  <1>6. /\ \A e \in Devices : chain'[e].pcs =
                IF e = d /\ reason = 1 THEN ec ELSE chain[e].pcs
        /\ \A e \in Devices : chain'[e].last_ec = chain[e].last_ec
                              \/ chain'[e].last_ec = ec
    BY <1>3 DEF TypeOK
  <1>7. heads' \subseteq heads \cup {ec}
    BY DEF accept_anchor_merge, Without
  <1>8. TypeOK'
    <2>1. refreshes' \in SUBSET [dev : Devices, ec : Nat, version : Nat]
      BY <1>1, <1>3, <1>4 DEF TypeOK
    <2>2. heads' \in SUBSET Nat
      BY <1>1, <1>3, <1>7 DEF TypeOK
    <2>5. /\ pending' \in SUBSET Devices
          /\ join_version' \in [Devices -> Nat \cup {None}]
      BY <1>3 DEF TypeOK, Applied
    <2>3. last_pcs_refresh_ec' \in Nat \cup {None}
      BY <1>1, <1>3 DEF TypeOK
    <2>4. last_checkpoint_ec' \in Nat
      BY <1>1 DEF accept_anchor_merge
    <2> QED BY <1>2, <1>3, <1>4, <1>5, <2>1, <2>2, <2>3, <2>4,
           <2>5 DEF TypeOK
  <1>9. EcOrder'
    <2>1. last_checkpoint_ec' <= last_accepted_ec'
      BY <1>1, <1>2 DEF accept_anchor_merge, CheckpointAllowed, TypeOK
    <2>2. \A e \in Devices : chain'[e].last_ec <= last_accepted_ec'
      BY <1>1, <1>2, <1>6 DEF TypeOK, EcOrder
    <2>3. \A h \in heads' : h <= last_accepted_ec'
      BY <1>1, <1>2, <1>7 DEF TypeOK, EcOrder
    <2>4. \A r \in refreshes' : r.ec <= last_accepted_ec'
      BY <1>1, <1>2, <1>3 DEF TypeOK, EcOrder
    <2> QED BY <2>1, <2>2, <2>3, <2>4 DEF EcOrder
  <1>10. reason = 1 => \A x \in refreshes :
           /\ ec >= x.ec + MinDeltaGroup
           /\ ec \div SlotWidth # x.ec \div SlotWidth
           /\ x.dev = d => ec >= x.ec + MinDeltaDevice
    <2> SUFFICES ASSUME reason = 1, NEW x \in refreshes
                 PROVE  /\ ec >= x.ec + MinDeltaGroup
                        /\ ec \div SlotWidth # x.ec \div SlotWidth
                        /\ x.dev = d => ec >= x.ec + MinDeltaDevice
      OBVIOUS
    <2>1. /\ last_pcs_refresh_ec \in Nat /\ x.ec \in Nat
          /\ x.dev \in Devices /\ x.ec <= last_pcs_refresh_ec
          /\ chain[x.dev].pcs \in Nat /\ x.ec <= chain[x.dev].pcs
      BY DEF TypeOK, RefreshesKnown
    <2>2. PcsAllowed(d, ec)
      BY <1>3 DEF MergeGate
    <2>3. /\ ec >= last_pcs_refresh_ec + MinDeltaGroup
          /\ ec \div SlotWidth # last_pcs_refresh_ec \div SlotWidth
          /\ x.dev = d => ec >= chain[x.dev].pcs + MinDeltaDevice
      BY <2>1, <2>2 DEF PcsAllowed, None
    <2>4. ec >= x.ec + MinDeltaGroup /\ last_pcs_refresh_ec <= ec
      BY <1>1, <2>1, <2>3, EpochGateAssumption
    <2>5. x.dev = d => ec >= x.ec + MinDeltaDevice
      BY <1>1, <2>1, <2>3, EpochGateAssumption
    <2>6. /\ x.ec \div SlotWidth <= last_pcs_refresh_ec \div SlotWidth
          /\ last_pcs_refresh_ec \div SlotWidth <= ec \div SlotWidth
          /\ x.ec \div SlotWidth \in Int
          /\ last_pcs_refresh_ec \div SlotWidth \in Int
          /\ ec \div SlotWidth \in Int
      <3>1. /\ x.ec \in Nat /\ last_pcs_refresh_ec \in Nat /\ ec \in Nat
            /\ SlotWidth \in Nat \ {0}
            /\ x.ec <= last_pcs_refresh_ec /\ last_pcs_refresh_ec <= ec
        BY <1>1, <2>1, <2>4, EpochGateAssumption
      <3>2. /\ x.ec \div SlotWidth <= last_pcs_refresh_ec \div SlotWidth
            /\ x.ec \div SlotWidth \in Int /\ last_pcs_refresh_ec \div SlotWidth \in Int
        BY <3>1, SlotsMonotone
      <3>3. /\ last_pcs_refresh_ec \div SlotWidth <= ec \div SlotWidth
            /\ ec \div SlotWidth \in Int
        BY <3>1, SlotsMonotone
      <3> QED BY <3>2, <3>3
    <2>7. ec \div SlotWidth # x.ec \div SlotWidth
      <3> DEFINE a == x.ec \div SlotWidth
                 b == last_pcs_refresh_ec \div SlotWidth
                 c == ec \div SlotWidth
      <3>1. a \in Int /\ b \in Int /\ c \in Int /\ a <= b /\ b <= c /\ c # b
        BY <2>3, <2>6
      <3> HIDE DEF a, b, c
      <3>2. c # a
        BY <3>1
      <3> QED BY <3>2 DEF a, c
    <2> QED BY <2>4, <2>5, <2>7
  <1>11. RefreshesKnown'
    <2>1. CASE reason = 1
      <3>1. /\ last_pcs_refresh_ec' = ec /\ ec # None
            /\ last_pcs_refresh_ec' <= last_accepted_ec'
        BY <1>1, <1>2, <1>3, <2>1 DEF None
      <3>2. \A r \in refreshes' :
               /\ r.ec <= last_pcs_refresh_ec'
               /\ chain'[r.dev].pcs # None /\ r.ec <= chain'[r.dev].pcs
               /\ r.version <= barrier_version'
        <4> SUFFICES ASSUME NEW r \in refreshes'
                     PROVE  /\ r.ec <= ec
                            /\ chain'[r.dev].pcs # None
                            /\ r.ec <= chain'[r.dev].pcs
                            /\ r.version <= version
          BY <1>3, <3>1
        <4>1. CASE r \in refreshes
          <5>1. /\ r.ec \in Nat /\ r.version \in Nat /\ r.dev \in Devices
                /\ r.version <= barrier_version /\ chain[r.dev].pcs # None
                /\ r.ec <= chain[r.dev].pcs
            BY <4>1 DEF TypeOK, RefreshesKnown
          <5>2. r.ec <= ec
            BY <1>1, <1>10, <2>1, <4>1, <5>1, EpochGateAssumption
          <5>3. r.version <= version
            BY <1>4, <5>1 DEF TypeOK
          <5>4. chain'[r.dev].pcs # None /\ r.ec <= chain'[r.dev].pcs
            BY <1>6, <2>1, <3>1, <5>1, <5>2
          <5> QED BY <5>2, <5>3, <5>4
        <4>2. CASE r = [dev |-> d, ec |-> ec, version |-> version]
          BY <1>1, <1>4, <1>6, <2>1, <3>1, <4>2
        <4> QED BY <1>3, <2>1, <4>1, <4>2
      <3> QED BY <3>1, <3>2 DEF RefreshesKnown
    <2>2. CASE reason # 1
      <3>1. /\ refreshes' = refreshes
            /\ last_pcs_refresh_ec' = last_pcs_refresh_ec
            /\ \A e \in Devices : chain'[e].pcs = chain[e].pcs
        BY <1>3, <1>6, <2>2
      <3>2. last_pcs_refresh_ec' <= last_accepted_ec'
        BY <1>2, <3>1 DEF TypeOK, RefreshesKnown, None
      <3>3. \A r \in refreshes :
               r.dev \in Devices /\ r.version <= barrier_version'
        BY <1>3, <1>4 DEF TypeOK, RefreshesKnown
      <3> QED BY <3>1, <3>2, <3>3 DEF RefreshesKnown
    <2> QED BY <2>1, <2>2
  <1>12. PcsSpacing'
    <2>1. CASE reason = 1
      <3>1. \A x \in refreshes : x.ec \in Nat /\ x.ec < ec
        BY <1>1, <1>10, <2>1, EpochGateAssumption DEF TypeOK
      <3> SUFFICES ASSUME NEW x \in refreshes', NEW y \in refreshes',
                          x # y, x.ec <= y.ec
                   PROVE  /\ y.ec >= x.ec + MinDeltaGroup
                          /\ y.ec \div SlotWidth # x.ec \div SlotWidth
                          /\ x.dev = y.dev => y.ec >= x.ec + MinDeltaDevice
        BY DEF PcsSpacing
      <3> DEFINE new == [dev |-> d, ec |-> ec, version |-> version]
      <3>2. /\ x \in refreshes \/ x = new
            /\ y \in refreshes \/ y = new
        BY <1>3, <2>1
      <3>3. CASE x \in refreshes /\ y \in refreshes
        BY <3>3 DEF PcsSpacing
      <3>4. CASE x \in refreshes /\ y = new
        BY <1>10, <2>1, <3>4
      <3>5. CASE x = new /\ y \in refreshes
        <4>1. ec <= y.ec /\ y.ec \in Nat /\ y.ec < ec
          BY <3>1, <3>5
        <4> QED BY <1>1, <4>1
      <3> QED BY <3>2, <3>3, <3>4, <3>5
    <2>2. CASE reason # 1
      BY <1>3, <2>2 DEF PcsSpacing
    <2> QED BY <2>1, <2>2
  <1> QED BY <1>8, <1>9, <1>11, <1>12

(* A head that expires takes no other state with it.                       *)
LEMMA PruneKeeps ==
  ASSUME GateInv, NEW head \in heads, prune_all(head)
  PROVE  GateInv'
  <1>1. heads' \subseteq heads
    BY DEF prune_all, Without
  <1> QED BY <1>1 DEF prune_all, GateInv, TypeOK, EcOrder, RefreshesKnown,
          PcsSpacing

-----------------------------------------------------------------------------
(* The inductive invariant: types, order of the counters, the remembered   *)
(* refreshes as bounds of the history, and the spacing of the refreshes.   *)
THEOREM GateInvariance == Spec => []GateInv
  <1>1. GateInv /\ [Next]_vars => GateInv'
    <2> SUFFICES ASSUME GateInv, [Next]_vars
                 PROVE  GateInv'
      OBVIOUS
    <2>1. ASSUME NEW d \in Devices, NEW prev \in Links, NEW ec \in Ecs,
                 accept_anchor_join(d, prev, ec)
          PROVE  GateInv'
      BY <2>1, JoinKeeps
    <2>2. ASSUME NEW d \in Devices, NEW prev \in Links, NEW ec \in Ecs,
                 NEW head \in heads, accept_anchor_merge(d, prev, ec, head)
          PROVE  GateInv'
      BY <2>2, MergeKeeps
    <2>3. ASSUME NEW head \in heads, prune_all(head)
          PROVE  GateInv'
      BY <2>3, PruneKeeps
    <2>4. CASE UNCHANGED vars
      BY <2>4 DEF vars, GateInv, TypeOK, EcOrder, RefreshesKnown, PcsSpacing
    <2> QED BY <2>1, <2>2, <2>3, <2>4 DEF Next
  <1> QED BY GateInit, <1>1, PTL DEF Spec

(* The group's counters and the device chains are well typed.              *)
THEOREM GateTypeCorrect == Spec => []TypeOK
  <1>1. GateInv => TypeOK
    BY DEF GateInv
  <1> QED BY GateInvariance, <1>1, PTL

(* The debug_assert of accept_anchor_merge holds, and no device, head or   *)
(* refresh is ahead of last_accepted_ec.                                   *)
THEOREM GateEcOrder == Spec => []EcOrder
  <1>1. GateInv => EcOrder
    BY DEF GateInv
  <1> QED BY GateInvariance, <1>1, PTL

(* Any two PCS refreshes keep the group's distance, lie in different slots *)
(* and, from one device, keep the device's distance.                       *)
THEOREM GatePcsSpacing == Spec => []PcsSpacing
  <1>1. GateInv => PcsSpacing
    BY DEF GateInv
  <1> QED BY GateInvariance, <1>1, PTL

(* Whatever the caps (at least one epoch, two for a device), every device  *)
(* has a counter beyond its last one that the chain check lets through.    *)
THEOREM GateNoDeviceStuck == Spec => []NoDeviceStuck
  <1>1. GateInv => NoDeviceStuck
    <2> SUFFICES ASSUME GateInv, DeviceMax >= 2, NEW d \in Devices
                 PROVE  \E ec \in {chain[d].last_ec + 1, chain[d].last_ec + 2} :
                           /\ ec # last_pcs_refresh_ec
                           /\ verify_device_chain_state(d, chain[d].n, ec)
      BY DEF NoDeviceStuck
    <2> DEFINE last == chain[d].last_ec
    <2>1. /\ last \in Nat /\ last <= last_accepted_ec
          /\ last_accepted_ec \in Nat
          /\ last_pcs_refresh_ec \in Int
          /\ last_pcs_refresh_ec <= last_accepted_ec
      BY DEF GateInv, TypeOK, EcOrder, RefreshesKnown, None
    <2>2. CASE last_pcs_refresh_ec # last + 1
      <3>1. verify_device_chain_state(d, chain[d].n, last + 1)
        BY <2>1, EpochGateAssumption DEF verify_device_chain_state
      <3> QED BY <2>2, <3>1
    <2>3. CASE last_pcs_refresh_ec = last + 1
      <3>1. verify_device_chain_state(d, chain[d].n, last + 2)
        BY <2>1, <2>3, EpochGateAssumption DEF verify_device_chain_state
      <3>2. last + 2 # last_pcs_refresh_ec
        BY <2>1, <2>3
      <3> QED BY <3>1, <3>2
    <2> QED BY <2>2, <2>3
  <1> QED BY GateInvariance, <1>1, PTL

=============================================================================
