----------------------------- MODULE RoomAdmin -----------------------------
(***************************************************************************)
(* One room's governance record on the server: its KBROAD public key and   *)
(* generation, the rotation flag, the room-admin set and the set of spent  *)
(* admin-proof replay keys (crates/cityg-server/src/lib.rs and             *)
(* roster_state.rs).  A handler that changes the record does so in memory  *)
(* first and then writes the whole record to the side file of the journal  *)
(* with persist_kbroad_state, which replaces the file atomically or fails  *)
(* and leaves it as it was.  A handler that changes nothing writes nothing *)
(* and answers from memory, which a failed write has left ahead of the     *)
(* file.  A crash loses the memory; the next start reads the side file     *)
(* back.  The reply of a handler may be lost on its way.                   *)
(***************************************************************************)
EXTENDS Integers, FiniteSets

CONSTANTS
    Keys,           \* KBROAD public keys
    Admins,         \* PoP public keys of devices that may administer the room
    Proofs,         \* replay keys of the admin proofs clients present
    MaxGeneration,  \* bound on the KBROAD generations explored
    MaxEpochs       \* bound on the epochs accepted

ASSUME RoomAdminAssumption ==
    /\ Keys # {}
    /\ MaxGeneration \in Nat
    /\ MaxEpochs \in Nat

VARIABLES
    mem,          \* the record in CityGServer.roster and the KBROAD registry
    disk,         \* the record in the side file
    history,      \* GroupRoster::has_history: an epoch is in the roster
    acks,         \* per proof, how many Ok replies the clients received
    named,        \* generations with their keys that clients received in Ok
                  \* replies when the side file held them
    latest,       \* the generation the latest Ok reply named, in the file or not
    bootstrapped, \* some client received Ok for the room's first admin
    epochs        \* number of epochs accepted

vars == <<mem, disk, history, acks, named, latest, bootstrapped, epochs>>

Room == [registered        : BOOLEAN,
         kbroad_public     : Keys,
         kbroad_generation : Nat,
         rotation_required : BOOLEAN,
         room_admin_pop_keys          : SUBSET Admins,
         room_admin_proof_replay_keys : SUBSET Proofs]

Unregistered == [registered        |-> FALSE,
                 kbroad_public     |-> CHOOSE k \in Keys : TRUE,
                 kbroad_generation |-> 0,
                 rotation_required |-> FALSE,
                 room_admin_pop_keys          |-> {},
                 room_admin_proof_replay_keys |-> {}]

(* What a reply tells the client about the key: its generation and itself. *)
Name(room) == [generation |-> room.kbroad_generation,
               public     |-> room.kbroad_public]

Init ==
    /\ mem = Unregistered
    /\ disk = Unregistered
    /\ history = FALSE
    /\ acks = [p \in Proofs |-> 0]
    /\ named = {}
    /\ latest = 0
    /\ bootstrapped = FALSE
    /\ epochs = 0

-----------------------------------------------------------------------------
(* Memory first, then the side file; an Ok reply needs the file written.   *)
persist_kbroad_state(room, answered) ==
    /\ mem' = room
    /\ disk' \in (IF answered THEN {room} ELSE {disk, room})

(* An Ok reply names the key; it is a promise when the file has the key.    *)
Reply(room, answered, durable) ==
    /\ named' = IF answered /\ durable THEN named \cup {Name(room)} ELSE named
    /\ latest' = IF answered THEN room.kbroad_generation ELSE latest

(* The proof checks shared by the admin endpoints.                         *)
(* AuthorizedNoReplay is the faulty variant without the replay check.       *)
AuthorizedNoReplay(a, p) == mem.registered /\ a \in mem.room_admin_pop_keys

Authorized(a, p) ==
    /\ mem.registered
    /\ a \in mem.room_admin_pop_keys
    /\ p \notin mem.room_admin_proof_replay_keys

Spend(room, p) == [room EXCEPT !.room_admin_proof_replay_keys = @ \cup {p}]

CountAck(p, answered) ==
    acks' = [acks EXCEPT ![p] = IF answered THEN @ + 1 ELSE @]

(* Faulty variant: the generation stays.                                    *)
RotatedSameGeneration(room, k) ==
    [room EXCEPT !.kbroad_public = k, !.rotation_required = FALSE]

(* rotate_group_kbroad_in_place with the two roster helpers it calls.       *)
rotate_group_kbroad_in_place(room, k) ==
    [room EXCEPT !.kbroad_public     = k,
                 !.kbroad_generation = @ + 1,
                 !.rotation_required = FALSE]

CanRotate(room, k) ==
    /\ k # room.kbroad_public
    /\ room.kbroad_generation < MaxGeneration

-----------------------------------------------------------------------------
register_group(k) == \E answered \in BOOLEAN :
    LET room == [mem EXCEPT !.registered        = TRUE,
                            !.kbroad_public     = k,
                            !.rotation_required = FALSE,
                            !.kbroad_generation = 0]
    IN  /\ ~history
        /\ ~mem.registered
        /\ persist_kbroad_state(room, answered)
        /\ Reply(room, answered, TRUE)
        /\ UNCHANGED <<history, acks, bootstrapped, epochs>>

(* register_group, then the first admin and a second write.  The second    *)
(* write may fail after the first one succeeded.                           *)
register_group_with_admin(k, a) == \E answered \in BOOLEAN :
    LET room  == [mem EXCEPT !.registered        = TRUE,
                             !.kbroad_public     = k,
                             !.rotation_required = FALSE,
                             !.kbroad_generation = 0]
        admin == [room EXCEPT !.room_admin_pop_keys = @ \cup {a}]
    IN  /\ ~history
        /\ ~mem.registered
        /\ \/ mem' = room  /\ disk' = disk /\ ~answered
           \/ mem' = admin /\ disk' = room /\ ~answered
           \/ mem' = admin /\ disk' = admin
        /\ Reply(admin, answered, TRUE)
        /\ bootstrapped' = (bootstrapped \/ answered)
        /\ UNCHANGED <<history, acks, epochs>>

attach_initial_room_admin(a) == \E answered \in BOOLEAN :
    /\ mem.registered
    /\ mem.room_admin_pop_keys = {}
    /\ persist_kbroad_state([mem EXCEPT !.room_admin_pop_keys = {a}], answered)
    /\ bootstrapped' = (bootstrapped \/ answered)
    /\ UNCHANGED <<history, acks, named, latest, epochs>>

rotate_group_kbroad(k) == \E answered \in BOOLEAN :
    LET room == rotate_group_kbroad_in_place(mem, k)
    IN  /\ mem.registered
        /\ CanRotate(mem, k)
        /\ persist_kbroad_state(room, answered)
        /\ Reply(room, answered, TRUE)
        /\ UNCHANGED <<history, acks, bootstrapped, epochs>>

rotate_group_kbroad_with_actor(k, a, p) == \E answered \in BOOLEAN :
    LET room == Spend(rotate_group_kbroad_in_place(mem, k), p)
    IN  /\ Authorized(a, p)
        /\ CanRotate(mem, k)
        /\ persist_kbroad_state(room, answered)
        /\ CountAck(p, answered)
        /\ Reply(room, answered, TRUE)
        /\ UNCHANGED <<history, bootstrapped, epochs>>

grant_room_admin(a, t, p) == \E answered \in BOOLEAN :
    /\ Authorized(a, p)
    /\ persist_kbroad_state(
           Spend([mem EXCEPT !.room_admin_pop_keys = @ \cup {t}], p), answered)
    /\ CountAck(p, answered)
    /\ UNCHANGED <<history, named, latest, bootstrapped, epochs>>

(* Faulty variant: the last admin may be revoked.                           *)
RevokeAnyAdmin(a, t, p) == \E answered \in BOOLEAN :
    /\ Authorized(a, p)
    /\ persist_kbroad_state(
           Spend([mem EXCEPT !.room_admin_pop_keys = @ \ {t}], p), answered)
    /\ CountAck(p, answered)
    /\ UNCHANGED <<history, named, latest, bootstrapped, epochs>>

(* A target that is no admin spends the proof and answers Ok(false); the   *)
(* last admin is refused before anything is written.                       *)
revoke_room_admin(a, t, p) == \E answered \in BOOLEAN :
    /\ Authorized(a, p)
    /\ t \in mem.room_admin_pop_keys => mem.room_admin_pop_keys # {t}
    /\ persist_kbroad_state(
           Spend([mem EXCEPT !.room_admin_pop_keys = @ \ {t}], p), answered)
    /\ CountAck(p, answered)
    /\ UNCHANGED <<history, named, latest, bootstrapped, epochs>>

(* build_admin_expel_ticket calls ensure_kbroad_ready, which rotates to a  *)
(* fresh key and writes the file when a rotation is pending.  Its own      *)
(* insertion of the replay key and second write follow only if that write  *)
(* and the construction of the ticket succeed.                             *)
build_admin_expel_ticket(a, p, k) == \E answered \in BOOLEAN :
    LET rotated == rotate_group_kbroad_in_place(mem, k)
        ready   == IF mem.rotation_required THEN rotated ELSE mem
        written == IF mem.rotation_required THEN rotated ELSE disk
        spent   == Spend(ready, p)
    IN  /\ Authorized(a, p)
        /\ history
        /\ mem.rotation_required => CanRotate(mem, k)
        /\ \/ mem' = ready /\ disk' \in {disk, written} /\ ~answered
           \/ mem' = spent /\ disk' = written /\ ~answered
           \/ mem' = spent /\ disk' = spent
        /\ CountAck(p, answered)
        /\ Reply(spent, answered, TRUE)
        /\ UNCHANGED <<history, bootstrapped, epochs>>

(* An owed rotation is made, and written, before a ticket is built; without *)
(* one nothing is written.                                                  *)
ensure_kbroad_ready(k, answered) ==
    IF mem.rotation_required
    THEN /\ CanRotate(mem, k)
         /\ persist_kbroad_state(rotate_group_kbroad_in_place(mem, k), answered)
    ELSE UNCHANGED <<mem, disk>>

(* Faulty variant: the roster has no entry for the room and the generation  *)
(* defaults to zero.                                                        *)
TicketReplyDefault(answered) ==
    LET room == [mem' EXCEPT !.kbroad_generation = 0]
    IN  Reply(room, answered, disk'.registered /\ Name(disk') = Name(room))

(* A ticket names the key in memory, which may not be in the file.          *)
TicketReply(answered) ==
    Reply(mem', answered, disk'.registered /\ Name(disk') = Name(mem'))

build_join_ticket(k) == \E answered \in BOOLEAN :
    /\ mem.registered
    /\ ensure_kbroad_ready(k, answered)
    /\ TicketReply(answered)
    /\ UNCHANGED <<history, acks, bootstrapped, epochs>>

(* A room without an accepted epoch has no merge ticket, but an owed        *)
(* rotation is made before that is found out.                               *)
build_merge_ticket(k) == \E answered \in BOOLEAN :
    /\ mem.registered
    /\ answered => history
    /\ ensure_kbroad_ready(k, answered)
    /\ TicketReply(answered)
    /\ UNCHANGED <<history, acks, bootstrapped, epochs>>

(* Faulty variant: an owed rotation does not hold the epoch back.          *)
AcceptWhileOwed(removes) ==
    /\ mem.registered
    /\ removes => history
    /\ epochs < MaxEpochs
    /\ mem' = [mem EXCEPT !.rotation_required = removes]
    /\ history' = TRUE
    /\ epochs' = epochs + 1
    /\ UNCHANGED <<disk, acks, named, latest, bootstrapped>>

(* An accepted epoch goes to the journal only: the side file is not        *)
(* written, so the flag a removal sets stays in memory.  The room's first  *)
(* epoch has nobody to remove.                                             *)
accept_epoch(removes) ==
    /\ mem.registered
    /\ removes => history
    /\ ~mem.rotation_required
    /\ epochs < MaxEpochs
    /\ mem' = [mem EXCEPT !.rotation_required = removes]
    /\ history' = TRUE
    /\ epochs' = epochs + 1
    /\ UNCHANGED <<disk, acks, named, latest, bootstrapped>>

(* CityGServer::new after a crash: the replay may or may not rebuild the   *)
(* roster, and the overlay then takes every governance field from disk.    *)
Restart ==
    /\ mem' = disk
    /\ history' \in {FALSE, history}
    /\ UNCHANGED <<disk, acks, named, latest, bootstrapped, epochs>>

(* A handler of another room writes the whole side file, this room with it. *)
OtherRoomPersists ==
    /\ mem.registered
    /\ disk' = mem
    /\ UNCHANGED <<mem, history, acks, named, latest, bootstrapped, epochs>>

Next ==
    \/ \E k \in Keys : register_group(k)
    \/ \E k \in Keys, a \in Admins : register_group_with_admin(k, a)
    \/ \E a \in Admins : attach_initial_room_admin(a)
    \/ \E k \in Keys : rotate_group_kbroad(k)
    \/ \E k \in Keys, a \in Admins, p \in Proofs :
           rotate_group_kbroad_with_actor(k, a, p)
    \/ \E a, t \in Admins, p \in Proofs : grant_room_admin(a, t, p)
    \/ \E a, t \in Admins, p \in Proofs : revoke_room_admin(a, t, p)
    \/ \E a \in Admins, p \in Proofs, k \in Keys :
           build_admin_expel_ticket(a, p, k)
    \/ \E k \in Keys : build_join_ticket(k)
    \/ \E k \in Keys : build_merge_ticket(k)
    \/ \E removes \in BOOLEAN : accept_epoch(removes)
    \/ OtherRoomPersists
    \/ Restart

Spec == Init /\ [][Next]_vars

-----------------------------------------------------------------------------
(* The variables hold what the code's types allow.                         *)
TypeOK ==
    /\ mem \in Room
    /\ disk \in Room
    /\ history \in BOOLEAN
    /\ acks \in [Proofs -> Nat]
    /\ named \in SUBSET [generation : Nat, public : Keys]
    /\ latest \in Nat
    /\ bootstrapped \in BOOLEAN
    /\ epochs \in 0..MaxEpochs

(* An admin proof is good for one successful call: whatever writes fail,   *)
(* replies get lost or restarts happen in between, no proof is answered Ok *)
(* twice (ensure_unused_room_admin_proof_replay_key).                      *)
ProofSpentOnce == \A p \in Proofs : acks[p] <= 1

(* A KBROAD generation that was in the side file when a client learned it  *)
(* names one key for ever: no failed write, restart or later rotation lets *)
(* the same number be given to another key (rotate_group_kbroad_in_place   *)
(* and persist_kbroad_state).  Every registration, rotation and expel      *)
(* ticket answers after the file is written.  A join or merge ticket that  *)
(* names a key of memory only promises nothing: a restart takes the        *)
(* generation back.                                                        *)
GenerationNamesOneKey ==
    \A m, n \in named : m.generation = n.generation => m.public = n.public

(* The latest reply, of whatever handler and after whatever restart, does  *)
(* not name a generation older than one that a client learned when it was  *)
(* in the side file.                                                       *)
NamedGenerationsGrow == \A m \in named : m.generation <= latest

(* Once a client was told the room has its first admin, the room has one   *)
(* both in memory and in the side file, so no failed write, crash or       *)
(* revocation leaves a room nobody may administer (revoke_room_admin).     *)
AdminNeverLost ==
    bootstrapped => /\ mem.room_admin_pop_keys # {}
                    /\ disk.room_admin_pop_keys # {}

(* The rotation a removal asks for is not called off: the flag that blocks *)
(* further epochs is cleared only together with a step to a new key        *)
(* generation, or by a restart that reads an older record back.            *)
RotationDemandKept ==
    [][mem.rotation_required /\ ~mem'.rotation_required =>
          mem'.kbroad_generation = mem.kbroad_generation + 1 \/ Restart]_vars

=============================================================================
