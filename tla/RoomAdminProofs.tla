-------------------------- MODULE RoomAdminProofs --------------------------
(***************************************************************************)
(* The safety properties of RoomAdmin for every set of keys, admins and    *)
(* proofs and every bound.  The inductive invariant relates what clients   *)
(* were told (acks, named, bootstrapped) to BOTH copies of the record:     *)
(* what is counted as promised was in the side file, so a restart keeps    *)
(* it, and in memory, so the next handler's checks see it.                 *)
(***************************************************************************)
EXTENDS RoomAdmin, TLAPS

(* What a copy of the record owes to the replies already given.            *)
Keeps(room) ==
    /\ \A p \in Proofs :
          acks[p] # 0 => p \in room.room_admin_proof_replay_keys
    /\ bootstrapped => room.registered /\ room.room_admin_pop_keys # {}
    /\ \A n \in named : /\ room.registered
                        /\ n.generation <= room.kbroad_generation
                        /\ n.generation = room.kbroad_generation
                              => n.public = room.kbroad_public

(* The inductive invariant. *)
IInv ==
    /\ TypeOK
    /\ Keeps(mem)
    /\ Keeps(disk)
    /\ ProofSpentOnce
    /\ GenerationNamesOneKey
    /\ NamedGenerationsGrow

(* What a handler may do to a registered record.                           *)
Descends(new, old) ==
    /\ old.room_admin_proof_replay_keys \subseteq new.room_admin_proof_replay_keys
    /\ old.room_admin_pop_keys # {} => new.room_admin_pop_keys # {}
    /\ old.registered =>
          /\ new.registered
          /\ \/ new.kbroad_generation > old.kbroad_generation
             \/ /\ new.kbroad_generation = old.kbroad_generation
                /\ new.kbroad_public = old.kbroad_public

(* What a reply may add to the promises: each one is backed by both copies. *)
Replies ==
    /\ \/ acks' = acks
       \/ \E p \in Proofs :
             /\ acks[p] = 0
             /\ acks' = [acks EXCEPT ![p] = 1]
             /\ p \in mem'.room_admin_proof_replay_keys
             /\ p \in disk'.room_admin_proof_replay_keys
    /\ \/ named' = named
       \/ /\ named' = named \cup {Name(mem')}
          /\ Name(disk') = Name(mem')
          /\ mem'.registered /\ disk'.registered
          /\ latest' = mem'.kbroad_generation
    /\ latest' \in {latest, mem'.kbroad_generation}
    /\ \/ bootstrapped' = bootstrapped
       \/ /\ bootstrapped' = TRUE
          /\ mem'.registered /\ mem'.room_admin_pop_keys # {}
          /\ disk'.registered /\ disk'.room_admin_pop_keys # {}

Counters ==
    /\ history' \in BOOLEAN
    /\ epochs' \in 0..MaxEpochs

StepOK ==
    /\ mem' \in Room
    /\ disk' \in Room
    /\ Keeps(mem')
    /\ Keeps(disk')
    /\ Replies
    /\ Counters

(* A copy that descends from one that keeps the promises keeps them.       *)
LEMMA DescendKeeps ==
    ASSUME NEW old \in Room, NEW new \in Room, TypeOK,
           Keeps(old), Descends(new, old)
    PROVE  Keeps(new)
<1>1. \A p \in Proofs : acks[p] # 0 => p \in new.room_admin_proof_replay_keys
    BY DEF Keeps, Descends
<1>2. bootstrapped => new.registered /\ new.room_admin_pop_keys # {}
    BY DEF Keeps, Descends
<1>3. ASSUME NEW n \in named
      PROVE  /\ new.registered
             /\ n.generation <= new.kbroad_generation
             /\ n.generation = new.kbroad_generation
                   => n.public = new.kbroad_public
    <2>1. n.generation \in Nat
        BY <1>3 DEF TypeOK
    <2>2. /\ old.kbroad_generation \in Nat
          /\ new.kbroad_generation \in Nat
        BY DEF Room
    <2> QED
        BY <1>3, <2>1, <2>2 DEF Keeps, Descends
<1> QED
    BY <1>1, <1>2, <1>3 DEF Keeps

(* A record that was never registered owes nothing about keys or admins.   *)
LEMMA UnregisteredOwesNothing ==
    ASSUME NEW room \in Room, TypeOK, Keeps(room), ~room.registered
    PROVE  named = {} /\ ~bootstrapped
BY DEF Keeps

(* Both copies keep the old promises and the reply adds backed ones only:  *)
(* the invariant holds again.                                              *)
LEMMA RepliesKeep ==
    ASSUME IInv, StepOK
    PROVE  IInv'
<1> USE DEF StepOK
<1>1. acks' \in [Proofs -> Nat] /\ ProofSpentOnce'
    BY DEF IInv, TypeOK, Replies, ProofSpentOnce
<1>2. named' \in SUBSET [generation : Nat, public : Keys]
    BY DEF IInv, TypeOK, Replies, Name, Room
<1>3. bootstrapped' \in BOOLEAN
    BY DEF IInv, TypeOK, Replies
<1>4. TypeOK'
    <2>1. latest' \in Nat
        BY DEF IInv, TypeOK, Replies, Room
    <2> QED
        BY <1>1, <1>2, <1>3, <2>1 DEF TypeOK, Counters
<1>5. ASSUME NEW p \in Proofs, acks'[p] # 0
      PROVE  /\ p \in mem'.room_admin_proof_replay_keys
             /\ p \in disk'.room_admin_proof_replay_keys
    BY <1>5 DEF IInv, TypeOK, Replies, Keeps
<1>6. bootstrapped' => /\ mem'.registered /\ mem'.room_admin_pop_keys # {}
                       /\ disk'.registered /\ disk'.room_admin_pop_keys # {}
    BY DEF Replies, Keeps
<1>7. ASSUME NEW n \in named'
      PROVE  /\ mem'.registered /\ disk'.registered
             /\ n.generation <= mem'.kbroad_generation
             /\ n.generation <= disk'.kbroad_generation
             /\ n.generation = mem'.kbroad_generation
                   => n.public = mem'.kbroad_public
             /\ n.generation = disk'.kbroad_generation
                   => n.public = disk'.kbroad_public
    <2>1. CASE n \in named
        BY <2>1 DEF Keeps
    <2>2. CASE /\ n = Name(mem') /\ Name(disk') = Name(mem')
               /\ mem'.registered /\ disk'.registered
        BY <2>2 DEF Name, Room
    <2> QED
        BY <1>7, <2>1, <2>2 DEF Replies
<1>8. GenerationNamesOneKey'
    <2> SUFFICES ASSUME NEW m \in named', NEW n \in named',
                        m.generation = n.generation
                 PROVE  m.public = n.public
        BY DEF GenerationNamesOneKey
    <2>1. CASE named' = named
        BY <2>1 DEF IInv, GenerationNamesOneKey
    <2>2. CASE named' = named \cup {Name(mem')}
        BY <2>2, <1>7 DEF IInv, GenerationNamesOneKey, Name
    <2> QED
        BY <2>1, <2>2 DEF Replies
<1>9. NamedGenerationsGrow'
    <2> SUFFICES ASSUME NEW n \in named' PROVE n.generation <= latest'
        BY DEF NamedGenerationsGrow
    <2>1. CASE latest' = mem'.kbroad_generation
        BY <1>7, <2>1
    <2>2. CASE latest' = latest /\ named' = named
        BY <2>2 DEF IInv, NamedGenerationsGrow
    <2> QED
        BY <2>1, <2>2 DEF Replies
<1> QED
    BY <1>1, <1>4, <1>5, <1>6, <1>7, <1>8, <1>9 DEF IInv, Keeps

(* The initial state promises nothing.                                     *)
LEMMA InitIInv == Init => IInv
<1> SUFFICES ASSUME Init PROVE IInv
    OBVIOUS
<1>1. (CHOOSE k \in Keys : TRUE) \in Keys
    BY RoomAdminAssumption
<1>2. Unregistered \in Room
    BY <1>1 DEF Unregistered, Room
<1>3. mem \in Room /\ disk \in Room
    BY <1>2 DEF Init
<1>4. acks \in [Proofs -> Nat] /\ named = {} /\ latest = 0 /\ \A p \in Proofs : acks[p] = 0
    BY DEF Init
<1>5. epochs \in 0..MaxEpochs
    BY RoomAdminAssumption DEF Init
<1>6. history \in BOOLEAN /\ bootstrapped = FALSE
    BY DEF Init
<1>7. TypeOK
    BY <1>3, <1>4, <1>5, <1>6 DEF TypeOK
<1> QED
    BY <1>4, <1>6, <1>7 DEF IInv, Keeps, ProofSpentOnce, GenerationNamesOneKey, NamedGenerationsGrow

(* A handler that moves memory, the file or both to one record.            *)
LEMMA PersistKeeps ==
    ASSUME IInv, NEW room \in Room, Keeps(room), NEW answered \in BOOLEAN,
           persist_kbroad_state(room, answered)
    PROVE  /\ mem' \in Room /\ disk' \in Room /\ Keeps(mem') /\ Keeps(disk')
           /\ answered => mem' = room /\ disk' = room
<1>1. mem' = room /\ (disk' = disk \/ disk' = room) /\ (answered => disk' = room)
    BY DEF persist_kbroad_state
<1> QED
    BY <1>1 DEF IInv, TypeOK

(* A proof that is counted was not counted before and is spent now.        *)
LEMMA CountFresh ==
    ASSUME IInv, NEW p \in Proofs, NEW answered \in BOOLEAN,
           p \notin mem.room_admin_proof_replay_keys, CountAck(p, answered),
           answered => /\ p \in mem'.room_admin_proof_replay_keys
                       /\ p \in disk'.room_admin_proof_replay_keys
    PROVE  \/ acks' = acks
           \/ \E q \in Proofs :
                 /\ acks[q] = 0
                 /\ acks' = [acks EXCEPT ![q] = 1]
                 /\ q \in mem'.room_admin_proof_replay_keys
                 /\ q \in disk'.room_admin_proof_replay_keys
<1>1. acks \in [Proofs -> Nat] /\ acks[p] = 0
    BY DEF IInv, TypeOK, Keeps
<1>2. CASE answered
    <2>1. acks[p] + 1 = 1
        BY <1>1
    <2>2. acks' = [acks EXCEPT ![p] = 1]
        BY <1>2, <2>1 DEF CountAck
    <2> QED
        BY <1>1, <1>2, <2>2
<1>3. CASE ~answered
    BY <1>1, <1>3 DEF CountAck
<1> QED
    BY <1>2, <1>3

(* Spending a proof and rotating the key keep what was promised.           *)
LEMMA SpendKeeps ==
    ASSUME TypeOK, NEW room \in Room, Keeps(room), NEW p \in Proofs
    PROVE  /\ Spend(room, p) \in Room
           /\ Keeps(Spend(room, p))
           /\ p \in Spend(room, p).room_admin_proof_replay_keys
           /\ Spend(room, p).registered = room.registered
<1>1. Spend(room, p) \in Room /\ Descends(Spend(room, p), room)
    BY DEF Spend, Room, Descends
<1>2. Keeps(Spend(room, p))
    BY <1>1, DescendKeeps
<1> QED
    BY <1>1, <1>2 DEF Spend, Room

LEMMA RotateKeeps ==
    ASSUME TypeOK, NEW room \in Room, Keeps(room), NEW k \in Keys
    PROVE  /\ rotate_group_kbroad_in_place(room, k) \in Room
           /\ Keeps(rotate_group_kbroad_in_place(room, k))
           /\ rotate_group_kbroad_in_place(room, k).registered = room.registered
<1> DEFINE new == rotate_group_kbroad_in_place(room, k)
<1>1. new \in Room /\ Descends(new, room)
    <2>1. /\ room.kbroad_generation \in Nat
          /\ room.kbroad_generation + 1 \in Nat
        BY DEF Room
    <2>2. new \in Room
        BY <2>1 DEF rotate_group_kbroad_in_place, Room
    <2>3. /\ new.kbroad_generation = room.kbroad_generation + 1
          /\ new.registered = room.registered
          /\ new.room_admin_pop_keys = room.room_admin_pop_keys
          /\ new.room_admin_proof_replay_keys = room.room_admin_proof_replay_keys
        BY DEF rotate_group_kbroad_in_place, Room
    <2> QED
        BY <2>1, <2>2, <2>3 DEF Descends
<1>2. Keeps(new)
    BY <1>1, DescendKeeps
<1> QED
    BY <1>1, <1>2 DEF rotate_group_kbroad_in_place, Room

(* The record register_group builds, and the same with a first admin.      *)
LEMMA RegisterKeeps ==
    ASSUME IInv, ~mem.registered, NEW k \in Keys, NEW A \in SUBSET Admins,
           NEW room, room = [mem EXCEPT !.registered        = TRUE,
                                        !.kbroad_public     = k,
                                        !.rotation_required = FALSE,
                                        !.kbroad_generation = 0]
    PROVE  LET admin == [room EXCEPT !.room_admin_pop_keys = @ \cup A]
           IN  /\ room \in Room /\ admin \in Room
               /\ Keeps(room) /\ Keeps(admin)
               /\ room.registered /\ admin.registered
               /\ A \subseteq admin.room_admin_pop_keys
<1> DEFINE admin == [room EXCEPT !.room_admin_pop_keys = @ \cup A]
<1>1. mem \in Room /\ TypeOK /\ Keeps(mem)
    BY DEF IInv, TypeOK
<1>2. room \in Room /\ admin \in Room
    BY <1>1 DEF Room
<1>3. Descends(room, mem) /\ Descends(admin, mem)
    BY <1>1, <1>2 DEF Descends, Room
<1>4. Keeps(room) /\ Keeps(admin)
    BY <1>1, <1>2, <1>3, DescendKeeps
<1>5. room.registered /\ admin.registered /\ A \subseteq admin.room_admin_pop_keys
    BY <1>1 DEF Room
<1> QED
    BY <1>2, <1>4, <1>5

(* One step per action: both copies keep the old promises, and the reply   *)
(* adds only promises that both copies back.                               *)
LEMMA StepKeeps == IInv /\ Next => StepOK
<1> SUFFICES ASSUME IInv, Next PROVE StepOK
    OBVIOUS
<1> USE DEF StepOK
<1>0. /\ TypeOK /\ mem \in Room /\ disk \in Room
      /\ Keeps(mem) /\ Keeps(disk)
      /\ history \in BOOLEAN /\ bootstrapped \in BOOLEAN /\ epochs \in 0..MaxEpochs
    BY DEF IInv, TypeOK
<1>c. UNCHANGED <<history, epochs>> => Counters
    BY <1>0 DEF Counters
<1>1. ASSUME NEW k \in Keys, register_group(k)
      PROVE  StepOK
    <2> DEFINE room == [mem EXCEPT !.registered        = TRUE,
                                   !.kbroad_public     = k,
                                   !.rotation_required = FALSE,
                                   !.kbroad_generation = 0]
    <2>1. PICK answered \in BOOLEAN :
             /\ ~mem.registered
             /\ persist_kbroad_state(room, answered)
             /\ Reply(room, answered, TRUE)
             /\ UNCHANGED <<history, acks, bootstrapped, epochs>>
        BY <1>1 DEF register_group
    <2>2. room \in Room /\ Keeps(room) /\ room.registered
        BY <2>1, RegisterKeeps, {} \in SUBSET Admins
    <2> HIDE DEF room
    <2>3. /\ mem' \in Room /\ disk' \in Room /\ Keeps(mem') /\ Keeps(disk')
          /\ answered => mem' = room /\ disk' = room
        BY <2>1, <2>2, PersistKeeps
    <2> QED
        BY <2>1, <2>2, <2>3, <1>c DEF Replies, Reply, Name
<1>2. ASSUME NEW k \in Keys, NEW a \in Admins, register_group_with_admin(k, a)
      PROVE  StepOK
    <2> DEFINE room  == [mem EXCEPT !.registered        = TRUE,
                                    !.kbroad_public     = k,
                                    !.rotation_required = FALSE,
                                    !.kbroad_generation = 0]
               admin == [room EXCEPT !.room_admin_pop_keys = @ \cup {a}]
    <2>1. PICK answered \in BOOLEAN :
             /\ ~mem.registered
             /\ \/ mem' = room  /\ disk' = disk /\ ~answered
                \/ mem' = admin /\ disk' = room /\ ~answered
                \/ mem' = admin /\ disk' = admin
             /\ Reply(admin, answered, TRUE)
             /\ bootstrapped' = (bootstrapped \/ answered)
             /\ UNCHANGED <<history, acks, epochs>>
        BY <1>2 DEF register_group_with_admin
    <2>2. /\ room \in Room /\ admin \in Room /\ Keeps(room) /\ Keeps(admin)
          /\ admin.registered /\ a \in admin.room_admin_pop_keys
        BY <2>1, RegisterKeeps, {a} \in SUBSET Admins
    <2> HIDE DEF room, admin
    <2>3. /\ mem' \in Room /\ disk' \in Room /\ Keeps(mem') /\ Keeps(disk')
          /\ answered => mem' = admin /\ disk' = admin
        BY <2>1, <2>2, <1>0
    <2>4. CASE answered
        <3>1. bootstrapped' = TRUE
            BY <2>1, <2>4
        <3> QED
            BY <2>1, <2>2, <2>3, <2>4, <3>1, <1>c DEF Replies, Reply, Name
    <2>5. CASE ~answered
        <3>1. bootstrapped' = bootstrapped
            BY <2>1, <2>5, <1>0
        <3> QED
            BY <2>1, <2>3, <2>5, <3>1, <1>c DEF Replies, Reply, Name
    <2> QED
        BY <2>4, <2>5
<1>3. ASSUME NEW a \in Admins, attach_initial_room_admin(a)
      PROVE  StepOK
    <2> DEFINE room == [mem EXCEPT !.room_admin_pop_keys = {a}]
    <2>1. PICK answered \in BOOLEAN :
             /\ mem.registered
             /\ persist_kbroad_state(room, answered)
             /\ bootstrapped' = (bootstrapped \/ answered)
             /\ UNCHANGED <<history, acks, named, latest, epochs>>
        BY <1>3 DEF attach_initial_room_admin
    <2>2. /\ room \in Room /\ Descends(room, mem)
          /\ room.registered /\ room.room_admin_pop_keys # {}
        BY <2>1, <1>0 DEF Room, Descends
    <2> HIDE DEF room
    <2>3. Keeps(room)
        BY <2>2, <1>0, DescendKeeps
    <2>4. /\ mem' \in Room /\ disk' \in Room /\ Keeps(mem') /\ Keeps(disk')
          /\ answered => mem' = room /\ disk' = room
        BY <2>1, <2>2, <2>3, PersistKeeps
    <2>5. CASE answered
        <3>1. bootstrapped' = TRUE
            BY <2>1, <2>5
        <3> QED
            BY <2>1, <2>2, <2>4, <2>5, <3>1, <1>c DEF Replies
    <2>6. CASE ~answered
        <3>1. bootstrapped' = bootstrapped
            BY <2>1, <2>6, <1>0
        <3> QED
            BY <2>1, <2>4, <2>6, <3>1, <1>c DEF Replies
    <2> QED
        BY <2>5, <2>6
<1>4. ASSUME NEW k \in Keys, rotate_group_kbroad(k)
      PROVE  StepOK
    <2> DEFINE room == rotate_group_kbroad_in_place(mem, k)
    <2>1. PICK answered \in BOOLEAN :
             /\ mem.registered
             /\ persist_kbroad_state(room, answered)
             /\ Reply(room, answered, TRUE)
             /\ UNCHANGED <<history, acks, bootstrapped, epochs>>
        BY <1>4 DEF rotate_group_kbroad
    <2>2. room \in Room /\ Keeps(room) /\ room.registered
        BY <1>0, <2>1, RotateKeeps
    <2> HIDE DEF room
    <2>3. /\ mem' \in Room /\ disk' \in Room /\ Keeps(mem') /\ Keeps(disk')
          /\ answered => mem' = room /\ disk' = room
        BY <2>1, <2>2, PersistKeeps
    <2> QED
        BY <2>1, <2>2, <2>3, <1>c DEF Replies, Reply, Name
<1>5. ASSUME NEW k \in Keys, NEW a \in Admins, NEW p \in Proofs,
             rotate_group_kbroad_with_actor(k, a, p)
      PROVE  StepOK
    <2> DEFINE rotated == rotate_group_kbroad_in_place(mem, k)
               room    == Spend(rotated, p)
    <2>1. PICK answered \in BOOLEAN :
             /\ mem.registered
             /\ p \notin mem.room_admin_proof_replay_keys
             /\ persist_kbroad_state(room, answered)
             /\ CountAck(p, answered)
             /\ Reply(room, answered, TRUE)
             /\ UNCHANGED <<history, bootstrapped, epochs>>
        BY <1>5 DEF rotate_group_kbroad_with_actor, Authorized
    <2>2. rotated \in Room /\ Keeps(rotated) /\ rotated.registered
        BY <1>0, <2>1, RotateKeeps
    <2>3. /\ room \in Room /\ Keeps(room) /\ room.registered
          /\ p \in room.room_admin_proof_replay_keys
        BY <1>0, <2>2, SpendKeeps
    <2> HIDE DEF room
    <2>4. /\ mem' \in Room /\ disk' \in Room /\ Keeps(mem') /\ Keeps(disk')
          /\ answered => mem' = room /\ disk' = room
        BY <2>1, <2>3, PersistKeeps
    <2>5. \/ acks' = acks
          \/ \E q \in Proofs :
                /\ acks[q] = 0
                /\ acks' = [acks EXCEPT ![q] = 1]
                /\ q \in mem'.room_admin_proof_replay_keys
                /\ q \in disk'.room_admin_proof_replay_keys
        BY <2>1, <2>3, <2>4, CountFresh
    <2> QED
        BY <2>1, <2>3, <2>4, <2>5, <1>c DEF Replies, Reply, Name
<1>6. ASSUME NEW p \in Proofs, NEW answered \in BOOLEAN, NEW A \in SUBSET Admins,
             A # {} \/ mem.room_admin_pop_keys = {},
             p \notin mem.room_admin_proof_replay_keys,
             persist_kbroad_state(
                 Spend([mem EXCEPT !.room_admin_pop_keys = A], p), answered),
             CountAck(p, answered),
             UNCHANGED <<history, named, latest, bootstrapped, epochs>>
      PROVE  StepOK
    <2> DEFINE changed == [mem EXCEPT !.room_admin_pop_keys = A]
               room    == Spend(changed, p)
    <2>1. changed \in Room /\ Descends(changed, mem)
        BY <1>0, <1>6 DEF Room, Descends
    <2>2. Keeps(changed)
        BY <1>0, <2>1, DescendKeeps
    <2> HIDE DEF changed
    <2>3. /\ room \in Room /\ Keeps(room)
          /\ p \in room.room_admin_proof_replay_keys
        BY <1>0, <2>1, <2>2, SpendKeeps
    <2>4. persist_kbroad_state(room, answered)
        BY <1>6 DEF changed
    <2> HIDE DEF room
    <2>5. /\ mem' \in Room /\ disk' \in Room /\ Keeps(mem') /\ Keeps(disk')
          /\ answered => mem' = room /\ disk' = room
        BY <2>3, <2>4, PersistKeeps
    <2>6. \/ acks' = acks
          \/ \E q \in Proofs :
                /\ acks[q] = 0
                /\ acks' = [acks EXCEPT ![q] = 1]
                /\ q \in mem'.room_admin_proof_replay_keys
                /\ q \in disk'.room_admin_proof_replay_keys
        BY <1>6, <2>3, <2>5, CountFresh
    <2> QED
        BY <1>6, <2>5, <2>6, <1>c DEF Replies
<1>7. ASSUME NEW a \in Admins, NEW t \in Admins, NEW p \in Proofs,
             grant_room_admin(a, t, p)
      PROVE  StepOK
    <2> DEFINE A == mem.room_admin_pop_keys \cup {t}
    <2>1. A \in SUBSET Admins /\ A # {}
        BY <1>0 DEF Room
    <2>2. [mem EXCEPT !.room_admin_pop_keys = @ \cup {t}]
              = [mem EXCEPT !.room_admin_pop_keys = A]
        OBVIOUS
    <2> QED
        BY <1>6, <1>7, <2>1, <2>2 DEF grant_room_admin, Authorized
<1>8. ASSUME NEW a \in Admins, NEW t \in Admins, NEW p \in Proofs,
             revoke_room_admin(a, t, p)
      PROVE  StepOK
    <2> DEFINE A == mem.room_admin_pop_keys \ {t}
    <2>1. A \in SUBSET Admins /\ A # {}
        BY <1>0, <1>8 DEF Room, revoke_room_admin, Authorized
    <2>2. [mem EXCEPT !.room_admin_pop_keys = @ \ {t}]
              = [mem EXCEPT !.room_admin_pop_keys = A]
        OBVIOUS
    <2> QED
        BY <1>6, <1>8, <2>1, <2>2 DEF revoke_room_admin, Authorized

<1>9. ASSUME NEW a \in Admins, NEW p \in Proofs, NEW k \in Keys,
             build_admin_expel_ticket(a, p, k)
      PROVE  StepOK
    <2> DEFINE rotated == rotate_group_kbroad_in_place(mem, k)
               ready   == IF mem.rotation_required THEN rotated ELSE mem
               written == IF mem.rotation_required THEN rotated ELSE disk
               spent   == Spend(ready, p)
    <2>1. PICK answered \in BOOLEAN :
             /\ mem.registered
             /\ p \notin mem.room_admin_proof_replay_keys
             /\ \/ mem' = ready /\ disk' \in {disk, written} /\ ~answered
                \/ mem' = spent /\ disk' = written /\ ~answered
                \/ mem' = spent /\ disk' = spent
             /\ CountAck(p, answered)
             /\ Reply(spent, answered, TRUE)
             /\ UNCHANGED <<history, bootstrapped, epochs>>
        BY <1>9 DEF build_admin_expel_ticket, Authorized
    <2>2. rotated \in Room /\ Keeps(rotated) /\ rotated.registered
        BY <1>0, <2>1, RotateKeeps
    <2>3. /\ ready \in Room /\ Keeps(ready) /\ ready.registered
          /\ written \in Room /\ Keeps(written)
        BY <1>0, <2>1, <2>2
    <2> HIDE DEF ready, written
    <2>4. /\ spent \in Room /\ Keeps(spent) /\ spent.registered
          /\ p \in spent.room_admin_proof_replay_keys
        BY <1>0, <2>3, SpendKeeps
    <2> HIDE DEF spent
    <2>5. /\ mem' \in Room /\ disk' \in Room /\ Keeps(mem') /\ Keeps(disk')
          /\ answered => mem' = spent /\ disk' = spent
        BY <1>0, <2>1, <2>3, <2>4
    <2>6. \/ acks' = acks
          \/ \E q \in Proofs :
                /\ acks[q] = 0
                /\ acks' = [acks EXCEPT ![q] = 1]
                /\ q \in mem'.room_admin_proof_replay_keys
                /\ q \in disk'.room_admin_proof_replay_keys
        BY <2>1, <2>4, <2>5, CountFresh
    <2> QED
        BY <2>1, <2>4, <2>5, <2>6, <1>c DEF Replies, Reply, Name
<1>10. ASSUME NEW k \in Keys, NEW answered \in BOOLEAN, mem.registered,
              ensure_kbroad_ready(k, answered), TicketReply(answered),
              UNCHANGED <<history, acks, bootstrapped, epochs>>
       PROVE  StepOK
    <2> DEFINE rotated == rotate_group_kbroad_in_place(mem, k)
    <2>1. /\ mem' \in Room /\ disk' \in Room /\ Keeps(mem') /\ Keeps(disk')
          /\ mem'.registered
        <3>1. CASE mem.rotation_required
            <4>1. rotated \in Room /\ Keeps(rotated) /\ rotated.registered
                BY <1>0, <1>10, RotateKeeps
            <4>2. mem' = rotated /\ persist_kbroad_state(rotated, answered)
                BY <1>10, <3>1 DEF ensure_kbroad_ready, persist_kbroad_state
            <4> HIDE DEF rotated
            <4> QED
                BY <4>1, <4>2, PersistKeeps
        <3>2. CASE ~mem.rotation_required
            BY <1>0, <1>10, <3>2 DEF ensure_kbroad_ready
        <3> QED
            BY <3>1, <3>2
    <2>2. /\ \/ named' = named
             \/ /\ named' = named \cup {Name(mem')}
                /\ Name(disk') = Name(mem') /\ disk'.registered
                /\ latest' = mem'.kbroad_generation
          /\ latest' \in {latest, mem'.kbroad_generation}
        BY <1>10 DEF TicketReply, Reply
    <2> QED
        BY <1>10, <2>1, <2>2, <1>c DEF Replies
<1>14. ASSUME NEW k \in Keys, build_join_ticket(k) PROVE StepOK
    BY <1>10, <1>14 DEF build_join_ticket
<1>15. ASSUME NEW k \in Keys, build_merge_ticket(k) PROVE StepOK
    BY <1>10, <1>15 DEF build_merge_ticket
<1>11. ASSUME NEW removes \in BOOLEAN, accept_epoch(removes)
       PROVE  StepOK
    <2>1. /\ mem' = [mem EXCEPT !.rotation_required = removes]
          /\ history' = TRUE /\ epochs < MaxEpochs /\ epochs' = epochs + 1
          /\ UNCHANGED <<disk, acks, named, latest, bootstrapped>>
        BY <1>11 DEF accept_epoch
    <2>2. mem' \in Room /\ Descends(mem', mem)
        BY <1>0, <2>1 DEF Room, Descends
    <2>3. Keeps(mem')
        BY <1>0, <2>2, DescendKeeps
    <2>4. epochs' \in 0..MaxEpochs
        BY <1>0, <2>1, RoomAdminAssumption
    <2> QED
        BY <1>0, <2>1, <2>2, <2>3, <2>4 DEF Replies, Counters
<1>12. CASE OtherRoomPersists
    BY <1>0, <1>12, <1>c DEF OtherRoomPersists, Replies
<1>13. CASE Restart
    BY <1>0, <1>13 DEF Restart, Replies, Counters
<1> QED
    BY <1>1, <1>2, <1>3, <1>4, <1>5, <1>7, <1>8, <1>9, <1>11, <1>12,
       <1>13, <1>14, <1>15 DEF Next

(* The invariant is inductive.                                             *)
LEMMA InductiveStep == IInv /\ [Next]_vars => IInv'
<1>1. IInv /\ Next => IInv'
    BY StepKeeps, RepliesKeep
<1>2. IInv /\ UNCHANGED vars => IInv'
    BY DEF vars, IInv, TypeOK, Keeps, ProofSpentOnce, GenerationNamesOneKey,
              NamedGenerationsGrow
<1> QED
    BY <1>1, <1>2

(* IInv holds in every reachable state.                                    *)
THEOREM Invariance == Spec => []IInv
BY InitIInv, InductiveStep, PTL DEF Spec

(* The governance record is well typed in memory and on disk.              *)
THEOREM TypeCorrect == Spec => []TypeOK
<1>1. IInv => TypeOK
    BY DEF IInv
<1> QED
    BY Invariance, <1>1, PTL

(* No admin proof is ever answered Ok twice: not after a failed write, not *)
(* after a lost reply, not across a restart.                               *)
THEOREM ReplayProtection == Spec => []ProofSpentOnce
<1>1. IInv => ProofSpentOnce
    BY DEF IInv
<1> QED
    BY Invariance, <1>1, PTL

(* A generation number told to a client stands for one KBROAD key.         *)
THEOREM GenerationUnique == Spec => []GenerationNamesOneKey
<1>1. IInv => GenerationNamesOneKey
    BY DEF IInv
<1> QED
    BY Invariance, <1>1, PTL

(* A room whose first admin was acknowledged always has an admin.          *)
THEOREM AdminRemains == Spec => []AdminNeverLost
<1>1. IInv => AdminNeverLost
    BY DEF IInv, Keeps, AdminNeverLost
<1> QED
    BY Invariance, <1>1, PTL

(* A reply names no generation older than one a client learned when it was *)
(* in the side file: such a generation bounds both copies from below.      *)
THEOREM GenerationsGrow == Spec => []NamedGenerationsGrow
<1>1. IInv => NamedGenerationsGrow
    BY DEF IInv
<1> QED
    BY Invariance, <1>1, PTL

-----------------------------------------------------------------------------
(* Only a registered room can owe a rotation, in either copy.              *)
OwedByRegistered ==
    /\ mem.rotation_required => mem.registered
    /\ disk.rotation_required => disk.registered

Demand(new, old) ==
    /\ new.rotation_required => new.registered
    /\ old.rotation_required /\ ~new.rotation_required =>
          new.kbroad_generation = old.kbroad_generation + 1

DemandStep ==
    /\ OwedByRegistered'
    /\ mem.rotation_required /\ ~mem'.rotation_required =>
          mem'.kbroad_generation = mem.kbroad_generation + 1 \/ Restart

(* A handler that writes a record which meets or keeps the demand.         *)
LEMMA PersistDemand ==
    ASSUME OwedByRegistered, NEW room, Demand(room, mem), mem' = room,
           disk' \in {disk, room}
    PROVE  DemandStep
BY DEF OwedByRegistered, Demand, DemandStep

(* The changes handlers make to a registered record, all but the rotation  *)
(* leaving the flag alone.                                                 *)
LEMMA ChangesDemand ==
    ASSUME NEW room \in Room, room.registered, NEW k \in Keys, NEW p \in Proofs,
           NEW S \in SUBSET Admins
    PROVE  /\ Demand(room, room)
           /\ Demand(Spend(room, p), room)
           /\ Demand(rotate_group_kbroad_in_place(room, k), room)
           /\ Demand(Spend(rotate_group_kbroad_in_place(room, k), p), room)
           /\ Demand([room EXCEPT !.room_admin_pop_keys = S], room)
           /\ Demand(Spend([room EXCEPT !.room_admin_pop_keys = S], p), room)
BY DEF Room, Demand, Spend, rotate_group_kbroad_in_place

(* A rotation meets the demand.                                            *)
LEMMA RotateMeets ==
    ASSUME NEW room \in Room, NEW k \in Keys
    PROVE  /\ rotate_group_kbroad_in_place(room, k) \in Room
           /\ rotate_group_kbroad_in_place(room, k).registered = room.registered
           /\ ~rotate_group_kbroad_in_place(room, k).rotation_required
           /\ rotate_group_kbroad_in_place(room, k).kbroad_generation
                = room.kbroad_generation + 1
<1>1. room.kbroad_generation \in Nat /\ room.kbroad_generation + 1 \in Nat
    BY DEF Room
<1>2. rotate_group_kbroad_in_place(room, k) \in Room
    BY <1>1 DEF rotate_group_kbroad_in_place, Room
<1>3. /\ rotate_group_kbroad_in_place(room, k).registered = room.registered
      /\ ~rotate_group_kbroad_in_place(room, k).rotation_required
      /\ rotate_group_kbroad_in_place(room, k).kbroad_generation
           = room.kbroad_generation + 1
    BY DEF rotate_group_kbroad_in_place, Room
<1> QED
    BY <1>2, <1>3

(* Every step keeps OwedByRegistered and, but for a restart, the demand.   *)
LEMMA StepDemand == TypeOK /\ OwedByRegistered /\ Next => DemandStep
<1> SUFFICES ASSUME TypeOK, OwedByRegistered, Next PROVE DemandStep
    OBVIOUS
<1>0. mem \in Room /\ disk \in Room
    BY DEF TypeOK
<1>1. ASSUME NEW k \in Keys, register_group(k) PROVE DemandStep
    BY <1>0, <1>1 DEF register_group, persist_kbroad_state, Room, OwedByRegistered, DemandStep
<1>2. ASSUME NEW k \in Keys, NEW a \in Admins, register_group_with_admin(k, a)
      PROVE  DemandStep
    BY <1>0, <1>2 DEF register_group_with_admin, Room, OwedByRegistered, DemandStep
<1>3. ASSUME NEW a \in Admins, attach_initial_room_admin(a) PROVE DemandStep
    BY <1>0, <1>3 DEF attach_initial_room_admin, persist_kbroad_state, Room,
                      OwedByRegistered, DemandStep
<1>4. ASSUME NEW k \in Keys, rotate_group_kbroad(k) PROVE DemandStep
    BY <1>0, <1>4 DEF rotate_group_kbroad, rotate_group_kbroad_in_place,
                      persist_kbroad_state, Room, OwedByRegistered, DemandStep
<1>5. ASSUME NEW k \in Keys, NEW a \in Admins, NEW p \in Proofs,
             rotate_group_kbroad_with_actor(k, a, p)
      PROVE  DemandStep
    <2>1. Demand(Spend(rotate_group_kbroad_in_place(mem, k), p), mem)
        BY <1>0, <1>5, ChangesDemand DEF rotate_group_kbroad_with_actor, Authorized
    <2> QED
        BY <2>1, <1>5, PersistDemand DEF rotate_group_kbroad_with_actor, persist_kbroad_state
<1>6. ASSUME NEW a \in Admins, NEW t \in Admins, NEW p \in Proofs,
             grant_room_admin(a, t, p)
      PROVE  DemandStep
    <2>1. mem.room_admin_pop_keys \cup {t} \in SUBSET Admins
        BY <1>0 DEF Room
    <2>2. Demand(Spend([mem EXCEPT !.room_admin_pop_keys = @ \cup {t}], p), mem)
        <3>1. mem.registered
            BY <1>6 DEF grant_room_admin, Authorized
        <3>2. PICK k \in Keys : TRUE
            BY RoomAdminAssumption
        <3> QED
            BY <1>0, <2>1, <3>1, <3>2, ChangesDemand
    <2> QED
        BY <2>2, <1>6, PersistDemand DEF grant_room_admin, persist_kbroad_state
<1>7. ASSUME NEW a \in Admins, NEW t \in Admins, NEW p \in Proofs,
             revoke_room_admin(a, t, p)
      PROVE  DemandStep
    <2>1. mem.room_admin_pop_keys \ {t} \in SUBSET Admins
        BY <1>0 DEF Room
    <2>2. Demand(Spend([mem EXCEPT !.room_admin_pop_keys = @ \ {t}], p), mem)
        <3>1. mem.registered
            BY <1>7 DEF revoke_room_admin, Authorized
        <3>2. PICK k \in Keys : TRUE
            BY RoomAdminAssumption
        <3> QED
            BY <1>0, <2>1, <3>1, <3>2, ChangesDemand
    <2> QED
        BY <2>2, <1>7, PersistDemand DEF revoke_room_admin, persist_kbroad_state
<1>8. ASSUME NEW a \in Admins, NEW p \in Proofs, NEW k \in Keys,
             build_admin_expel_ticket(a, p, k)
      PROVE  DemandStep
    <2> DEFINE rotated == rotate_group_kbroad_in_place(mem, k)
               ready   == IF mem.rotation_required THEN rotated ELSE mem
               written == IF mem.rotation_required THEN rotated ELSE disk
    <2>1. /\ mem.registered
          /\ mem' \in {ready, Spend(ready, p)}
          /\ disk' \in {disk, written, Spend(ready, p)}
        BY <1>8 DEF build_admin_expel_ticket, Authorized
    <2>2. rotated \in Room /\ rotated.registered /\ ~rotated.rotation_required
          /\ rotated.kbroad_generation = mem.kbroad_generation + 1
        BY <1>0, <2>1, RotateMeets
    <2> HIDE DEF rotated
    <2>3. /\ ready \in Room /\ ready.registered
          /\ Demand(ready, mem) /\ Demand(Spend(ready, p), mem)
        <3>1. ready \in Room /\ ready.registered /\ Demand(ready, mem)
            BY <1>0, <2>1, <2>2 DEF Demand, Room
        <3> HIDE DEF ready
        <3>2. Spend(ready, p).rotation_required = ready.rotation_required
              /\ Spend(ready, p).registered = ready.registered
              /\ Spend(ready, p).kbroad_generation = ready.kbroad_generation
            BY <3>1 DEF Spend, Room
        <3> QED
            BY <3>1, <3>2 DEF Demand
    <2> QED
        BY <2>1, <2>2, <2>3 DEF OwedByRegistered, Demand, DemandStep
<1>9. ASSUME NEW k \in Keys, NEW answered \in BOOLEAN,
             ensure_kbroad_ready(k, answered)
      PROVE  DemandStep
    <2>1. CASE mem.rotation_required
        <3>1. Demand(rotate_group_kbroad_in_place(mem, k), mem)
            BY <1>0, <2>1, ChangesDemand, RotateMeets DEF OwedByRegistered, Demand
        <3> QED
            BY <1>9, <2>1, <3>1, PersistDemand
            DEF ensure_kbroad_ready, persist_kbroad_state
    <2>2. CASE ~mem.rotation_required
        BY <1>9, <2>2 DEF ensure_kbroad_ready, OwedByRegistered, DemandStep
    <2> QED
        BY <2>1, <2>2
<1>13. ASSUME NEW k \in Keys, build_join_ticket(k) \/ build_merge_ticket(k)
       PROVE  DemandStep
    BY <1>9, <1>13 DEF build_join_ticket, build_merge_ticket
<1>10. ASSUME NEW removes \in BOOLEAN, accept_epoch(removes) PROVE DemandStep
    BY <1>0, <1>10 DEF accept_epoch, Room, OwedByRegistered, DemandStep
<1>11. ASSUME OtherRoomPersists PROVE DemandStep
    BY <1>11 DEF OtherRoomPersists, OwedByRegistered, DemandStep
<1>12. ASSUME Restart PROVE DemandStep
    BY <1>12 DEF Restart, OwedByRegistered, DemandStep
<1> QED
    BY <1>1, <1>2, <1>3, <1>4, <1>5, <1>6, <1>7, <1>8, <1>10, <1>11, <1>12, <1>13
    DEF Next

(* A demanded rotation is met by a rotation or forgotten by a restart: the *)
(* other handlers leave the flag as it is (rotate_group_kbroad_in_place).  *)
THEOREM DemandKept == Spec => RotationDemandKept
<1> DEFINE Kept == mem.rotation_required /\ ~mem'.rotation_required =>
                      mem'.kbroad_generation = mem.kbroad_generation + 1 \/ Restart
<1>1. Init => OwedByRegistered
    BY DEF Init, Unregistered, OwedByRegistered
<1>2. TypeOK /\ OwedByRegistered /\ [Next]_vars => OwedByRegistered'
    BY StepDemand DEF DemandStep, OwedByRegistered, vars
<1>3. TypeOK /\ OwedByRegistered /\ [Next]_vars => [Kept]_vars
    BY StepDemand DEF DemandStep
<1> QED
    BY TypeCorrect, <1>1, <1>2, <1>3, PTL DEF Spec, RotationDemandKept

=============================================================================
