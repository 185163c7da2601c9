------------------------ MODULE ClientBarrierProofs ------------------------
(***************************************************************************)
(* The client's barrier safety for any number of epochs, attempts and      *)
(* crashes.  The invariant is stated for each copy of the session: the set *)
(* GoodSessions holds the ones whose key was accepted and whose mark of    *)
(* full verification is earned, and it only grows with the room.           *)
(***************************************************************************)
EXTENDS ClientBarrier, SequenceTheorems, TLAPS

(* Versions never fall along the room's epochs. *)
RoomOk ==
  /\ epochs \in Seq(Epoch) /\ Len(epochs) >= 2
  /\ \A i \in 1 .. Tip : epochs[i].key.ver >= 1 /\ epochs[i].key.ver <= Ver(Tip)
  /\ wire \subseteq Merge

(* A session whose key was accepted and whose mark of verification is earned. *)
GoodSessions ==
  {s \in AppSession : /\ s.key # NoKey => s.key \in Accepted
                      /\ s.full => IF s.recov THEN s.key = NoKey
                                              ELSE s.key # NoKey /\ s.key.ver = s.ver}

(* The sync task works on a good session and an epoch of the room. *)
SyncOk ==
  /\ sync \in [at: {"idle", "ticket", "resolve", "done"},
               s: GoodSessions, t: Nat, changed: BOOLEAN]
  /\ sync.at = "resolve" => sync.t \in 1 .. Tip

(* The publication works on a good session, and an Ok is about an accepted *)
(* key.                                                                    *)
PubOk ==
  /\ pub \in [at: {"idle", "verify", "ticket", "build", "send", "wait",
                   "fallback", "resync", "applied"},
              kind: Kinds, s: GoodSessions, t: Nat, p: Keys,
              reply: {"none", "ok", "jump", "no"}, again: BOOLEAN]
  /\ pub.at \in {"build", "send", "wait", "resync"} => pub.t \in 1 .. Tip
  /\ pub.at \in {"verify", "ticket", "build", "send"} => pub.reply # "ok"
  /\ pub.reply = "ok" => pub.p \in Accepted

(* The copies in memory and on disk are good. *)
RestOk ==
  /\ mem \in GoodSessions /\ disk \in GoodSessions
  /\ roster \in Roster /\ tries \in Nat

(* While the state a join started from is being verified, the interface has *)
(* no session and nothing but the publication writes the one on disk.        *)
JoinOk ==
  pub.at = "verify" => mem = NoSession /\ disk.key = NoKey /\ roster = NoPage

(* The inductive invariant. *)
IInv == RoomOk /\ SyncOk /\ PubOk /\ RestOk /\ JoinOk

-----------------------------------------------------------------------------
(* The room's keys. *)

(* An accepted key has a version the room has reached. *)
LEMMA AcceptedKeys ==
  ASSUME RoomOk, NEW k \in Accepted
  PROVE  k \in Keys /\ k.ver >= 1 /\ k.ver <= Ver(Tip) /\ k # NoKey
<1>1. PICK i \in 1 .. Tip : epochs[i].key = k
  BY DEF Accepted, Updates
<1>2. epochs[i] \in Epoch
  BY <1>1 DEF RoomOk, Tip
<1>. QED
  BY <1>1, <1>2 DEF RoomOk, Epoch, Keys, NoKey

(* An epoch of the room has a version. *)
LEMMA EpochType ==
  ASSUME RoomOk, NEW t \in 1 .. Tip
  PROVE  epochs[t] \in Epoch /\ Ver(t) \in Nat /\ Ver(t) >= 1
<1>1. epochs[t] \in Epoch /\ epochs[t].key.ver >= 1
  BY DEF RoomOk, Tip
<1>2. epochs[t].key.ver \in Nat
  BY <1>1 DEF Epoch, Keys
<1>. QED
  BY <1>1, <1>2 DEF Ver

(* An accepted epoch adds to the keys that were accepted before. *)
LEMMA RoomGrows ==
  ASSUME RoomOk, NEW e \in Epoch, epochs' = Append(epochs, e),
         e.key.ver >= Ver(Tip), wire' \subseteq wire
  PROVE  /\ RoomOk' /\ Tip' = Tip + 1 /\ Accepted \subseteq Accepted'
         /\ e.upd => e.key \in Accepted'
<1>1. /\ epochs' \in Seq(Epoch) /\ Len(epochs') = Len(epochs) + 1
      /\ \A i \in 1 .. Len(epochs) : epochs'[i] = epochs[i]
      /\ epochs'[Len(epochs) + 1] = e
  BY AppendProperties DEF RoomOk
<1>2. Tip \in Nat /\ Tip = Len(epochs) /\ Tip' = Tip + 1 /\ Tip >= 2
  BY <1>1 DEF RoomOk, Tip
<1>3. Ver(Tip) \in Nat /\ Ver(Tip) >= 1 /\ e.key.ver \in Nat
  BY <1>2, EpochType DEF Epoch, Keys
<1>4. Ver(Tip)' = e.key.ver
  BY <1>1, <1>2 DEF Ver
<1>5. ASSUME NEW i \in 1 .. Tip'
      PROVE  epochs'[i].key.ver >= 1 /\ epochs'[i].key.ver <= Ver(Tip)'
  <2>1. CASE i \in 1 .. Tip
    <3>1. epochs'[i] = epochs[i] /\ epochs[i].key.ver \in Nat
          /\ epochs[i].key.ver >= 1 /\ epochs[i].key.ver <= Ver(Tip)
      BY <1>1, <1>2, <2>1, EpochType DEF RoomOk, Ver
    <3>. QED
      BY <1>3, <1>4, <3>1
  <2>2. CASE i = Tip + 1
    BY <1>1, <1>2, <1>3, <1>4, <2>2
  <2>. QED
    BY <1>2, <2>1, <2>2
<1>6. RoomOk'
  BY <1>1, <1>2, <1>5 DEF RoomOk
<1>7. Accepted \subseteq Accepted'
  <2>. SUFFICES ASSUME NEW i \in Updates PROVE epochs[i].key \in Accepted'
    BY DEF Accepted
  <2>1. i \in 1 .. Tip /\ epochs[i].upd
    BY DEF Updates
  <2>2. i \in 1 .. Tip' /\ epochs'[i] = epochs[i]
    BY <1>1, <1>2, <2>1
  <2>. QED
    BY <2>1, <2>2 DEF Accepted, Updates
<1>8. e.upd => e.key \in Accepted'
  <2>1. Tip + 1 \in 1 .. Tip' /\ epochs'[Tip + 1] = e
    BY <1>1, <1>2
  <2>. QED
    BY <2>1 DEF Accepted, Updates
<1>. QED
  BY <1>2, <1>6, <1>7, <1>8

-----------------------------------------------------------------------------
(* What a task does to a good session leaves a good session. *)

(* Activating an accepted key leaves a good session, in the same epoch. *)
LEMMA ActivateGood ==
  ASSUME RoomOk, NEW s \in GoodSessions, NEW p \in Accepted
  PROVE  Activate(s, p) \in GoodSessions /\ Activate(s, p).we = s.we
<1>1. p \in Keys /\ p # NoKey /\ NoKey \in Keys
  BY AcceptedKeys DEF Keys, NoKey
<1>. QED
  BY <1>1 DEF GoodSessions, AppSession, Activate, Keys

(* A merge the server calls accepted is accepted; one that is settled has its *)
(* version taken.                                                             *)
LEMMA ResolveSettled ==
  ASSUME RoomOk, NEW p \in Keys, NEW v \in Nat
  PROVE  /\ resolve_pending_barrier_history(p, v)
              \in {"activate", "discard", "recovery_required", "unchanged"}
         /\ resolve_pending_barrier_history(p, v) = "activate" => p \in Accepted
         /\ resolve_pending_barrier_history(p, v) \in {"activate", "discard"}
              => p.ver <= Ver(Tip)
<1>. DEFINE st == lookup_merge_acceptance(p)
            taken == \E k \in Accepted : k.ver = p.ver
<1>0. Ver(Tip) \in Nat /\ p.ver \in Nat
  BY EpochType DEF RoomOk, Tip, Keys
<1>1. \/ st = "accepted" /\ p \in Accepted
      \/ st = "superseded" /\ taken
      \/ st = "final_rejected" /\ Ver(Tip) > p.ver
      \/ st = "pending"
  BY DEF lookup_merge_acceptance
<1>2. p \in Accepted \/ taken => p.ver <= Ver(Tip)
  BY AcceptedKeys
<1>3. resolve_pending_barrier_history(p, v) =
        CASE st = "accepted" -> "activate"
          [] st \in {"superseded", "final_rejected"} -> "discard"
          [] st = "pending" -> IF v > p.ver THEN "recovery_required" ELSE "unchanged"
  BY DEF resolve_pending_barrier_history
<1>. HIDE DEF st, taken
<1>. QED
  BY <1>0, <1>1, <1>2, <1>3

(* Resolving the pending update from the history leaves a good session, and *)
(* drops the update only when its version is taken.                         *)
LEMMA PendingGood ==
  ASSUME RoomOk, NEW s \in GoodSessions, NEW t \in 1 .. Tip
  PROVE  LET r == apply_pending_barrier_activation_from_history(s, t) IN
         /\ r.s \in GoodSessions
         /\ s.pend # NoKey /\ r.s.pend = NoKey => s.pend.ver <= Ver(Tip)
         /\ s.pend = NoKey => r.s = s
         /\ r.s.we = s.we
<1>. DEFINE out == IF s.pend = NoKey THEN "unchanged"
                   ELSE resolve_pending_barrier_history(s.pend, Ver(t))
            x == CASE out = "unchanged" -> s
                   [] out = "activate" -> Activate(s, s.pend)
                   [] out = "discard" -> [s EXCEPT !.pend = NoKey]
                   [] out = "recovery_required" -> enter_barrier_recovery(s)
<1>1. apply_pending_barrier_activation_from_history(s, t).s = x
  BY DEF apply_pending_barrier_activation_from_history
<1>2. s.pend \in Keys /\ NoKey \in Keys /\ Ver(t) \in Nat /\ s \in AppSession
  BY EpochType DEF GoodSessions, AppSession, Keys, NoKey
<1>3. /\ out \in {"activate", "discard", "recovery_required", "unchanged"}
      /\ out = "activate" => s.pend \in Accepted
      /\ out \in {"activate", "discard"} => s.pend.ver <= Ver(Tip)
      /\ s.pend = NoKey => out = "unchanged"
  BY <1>2, ResolveSettled
<1>4. x \in {s, Activate(s, s.pend), [s EXCEPT !.pend = NoKey], enter_barrier_recovery(s)}
      /\ (out = "unchanged" => x = s) /\ (out = "activate" => x = Activate(s, s.pend))
      /\ (out = "discard" => x = [s EXCEPT !.pend = NoKey])
      /\ (out = "recovery_required" => x = enter_barrier_recovery(s))
  <2>. HIDE DEF out
  <2>. QED
    BY <1>3
<1>. HIDE DEF x, out
<1>5. CASE out = "unchanged"
  BY <1>1, <1>4, <1>5
<1>6. CASE out = "activate"
  <2>1. x \in GoodSessions /\ x.we = s.we
    BY <1>3, <1>4, <1>6, ActivateGood
  <2>. QED
    BY <1>1, <1>3, <1>6, <2>1
<1>7. CASE out = "discard"
  <2>1. x \in GoodSessions /\ x.we = s.we
    BY <1>2, <1>4, <1>7 DEF GoodSessions, AppSession
  <2>. QED
    BY <1>1, <1>3, <1>7, <2>1
<1>8. CASE out = "recovery_required"
  <2>1. x \in GoodSessions /\ x.pend = s.pend /\ x.we = s.we
    BY <1>2, <1>4, <1>8 DEF GoodSessions, AppSession, enter_barrier_recovery
  <2>. QED
    BY <1>1, <1>3, <1>8, <2>1
<1>. QED
  BY <1>3, <1>5, <1>6, <1>7, <1>8

(* Every outcome of reconciling a fetched bundle is good. *)
LEMMA ReconcileGood ==
  ASSUME RoomOk, NEW s \in GoodSessions, NEW t \in 1 .. Tip, epochs[t].upd,
         NEW x \in reconcile_epoch_sync_barrier_bundle(s, t)
  PROVE  x \in GoodSessions /\ x.pend = s.pend /\ x.we = s.we
<1>. DEFINE k == epochs[t].key
            gap == full_chain_check_gap(s, k)
<1>1. k \in Accepted
  BY DEF Accepted, Updates
<1>2. k \in Keys /\ k # NoKey
  BY <1>1, AcceptedKeys
<1>3. x = apply_recovered_barrier_state(s, k, ~gap) \/ x = enter_barrier_recovery(s)
  BY DEF reconcile_epoch_sync_barrier_bundle
<1>4. gap \in BOOLEAN
  BY DEF full_chain_check_gap
<1>. HIDE DEF k, gap
<1>5. CASE x = apply_recovered_barrier_state(s, k, ~gap)
  BY <1>1, <1>2, <1>4, <1>5 DEF GoodSessions, AppSession, Keys, apply_recovered_barrier_state
<1>6. CASE x = enter_barrier_recovery(s)
  BY <1>6 DEF GoodSessions, AppSession, enter_barrier_recovery
<1>. QED
  BY <1>3, <1>5, <1>6

(* The public state of the ticket takes the mark away when it is another one. *)
LEMMA InstallGood ==
  ASSUME NEW s \in GoodSessions, NEW v \in Nat
  PROVE  /\ install_authenticated_current_state(s, v) \in GoodSessions
         /\ install_authenticated_current_state(s, v).pend = s.pend
         /\ install_authenticated_current_state(s, v).we = s.we
  BY DEF GoodSessions, AppSession, install_authenticated_current_state

(* Every outcome of a sync is good, and in the old epoch or the fetched one. *)
LEMMA PerformGood ==
  ASSUME RoomOk, NEW s \in GoodSessions, NEW t \in 1 .. Tip,
         NEW r \in perform_epoch_sync(s, t)
  PROVE  /\ r.s \in GoodSessions /\ r.changed \in BOOLEAN
         /\ s.pend # NoKey /\ r.s.pend = NoKey => s.pend.ver <= Ver(Tip)
         /\ r.s.we \in {s.we, t}
<1>. DEFINE a == apply_pending_barrier_activation_from_history(s, t)
            moved == [a.s EXCEPT !.we = t, !.root = epochs[t].root]
            own == a.out = "activate" /\ s.pend = epochs[t].key
            after == IF epochs[t].upd /\ ~own
                       THEN reconcile_epoch_sync_barrier_bundle(moved, t)
                       ELSE {moved}
<1>1. /\ a.s \in GoodSessions
      /\ s.pend # NoKey /\ a.s.pend = NoKey => s.pend.ver <= Ver(Tip)
      /\ a.s.we = s.we
  BY PendingGood
<1>2. epochs[t] \in Epoch /\ Ver(t) \in Nat /\ epochs[t].root \in Nat /\ t \in Nat
  BY EpochType DEF Epoch
<1>3. PICK x \in {a.s} \cup after :
        /\ r.s = install_authenticated_current_state(x, Ver(t))
        /\ r.changed \in BOOLEAN
  <2>. DEFINE c == a.s.ver # Ver(t) \/ a.out # "unchanged"
              Result(x, b) == [s |-> install_authenticated_current_state(x, Ver(t)), changed |-> b]
  <2>1. perform_epoch_sync(s, t) =
          IF t = s.we THEN {Result(a.s, c)} ELSE {Result(x, TRUE) : x \in after}
    BY Zenon DEF perform_epoch_sync
  <2>. HIDE DEF a, after, c
  <2>2. c \in BOOLEAN
    BY DEF c
  <2>3. \E x \in {a.s} \cup after, b \in BOOLEAN : r = Result(x, b)
    BY <2>1, <2>2
  <2>. QED
    BY <2>3
<1>. HIDE DEF a
<1>4. moved \in GoodSessions /\ moved.pend = a.s.pend /\ moved.we = t
  BY <1>1, <1>2 DEF GoodSessions, AppSession
<1>5. ASSUME x \in after PROVE x \in GoodSessions /\ x.pend = a.s.pend /\ x.we = t
  <2>. HIDE DEF moved, own
  <2>1. CASE epochs[t].upd /\ ~own
    BY <1>4, <1>5, <2>1, ReconcileGood
  <2>2. CASE ~(epochs[t].upd /\ ~own)
    BY <1>4, <1>5, <2>2
  <2>. QED
    BY <2>1, <2>2
<1>. HIDE DEF after
<1>6. x \in GoodSessions /\ x.pend = a.s.pend /\ x.we \in {s.we, t}
  BY <1>1, <1>3, <1>5
<1>7. /\ r.s \in GoodSessions /\ r.s.pend = x.pend /\ r.s.we = x.we
  <2>. DEFINE i == install_authenticated_current_state(x, Ver(t))
  <2>1. i \in GoodSessions /\ i.pend = x.pend /\ i.we = x.we
    BY ONLY <1>2, <1>6, InstallGood
  <2>2. r.s = i
    BY <1>3
  <2>. HIDE DEF i
  <2>. QED
    BY ONLY <2>1, <2>2
<1>. QED
  BY <1>1, <1>3, <1>6, <1>7

(* A merge that was accepted has its epoch. *)
LEMMA AppliedGood ==
  ASSUME RoomOk, NEW s \in GoodSessions, NEW p \in Accepted
  PROVE  /\ apply_local_published_barrier_merge(s, EpochOf(p), p) \in GoodSessions
         /\ apply_local_published_barrier_merge(s, EpochOf(p), p).we \in 1 .. Tip
<1>1. EpochOf(p) \in 1 .. Tip
  <2>1. \E i \in Updates : epochs[i].key = p
    BY DEF Accepted
  <2>. QED
    BY <2>1 DEF EpochOf, Updates
<1>2. epochs[EpochOf(p)] \in Epoch
  BY <1>1, EpochType
<1>3. EpochOf(p) \in Nat /\ epochs[EpochOf(p)].root \in Nat
  BY <1>1, <1>2 DEF Epoch
<1>4. Activate(s, p) \in GoodSessions
  BY ActivateGood
<1>. QED
  BY <1>1, <1>3, <1>4 DEF apply_local_published_barrier_merge, GoodSessions, AppSession

(* The absent session makes no claim. *)
LEMMA NoSessionGood == NoSession \in GoodSessions
  BY DEF NoSession, GoodSessions, AppSession, NoKey, Keys

(* A scheduled sync starts from a good session. *)
LEMMA ScheduleGood ==
  ASSUME SyncOk, NEW s \in GoodSessions, sync' = schedule_epoch_sync(s),
         UNCHANGED epochs
  PROVE  SyncOk'
<1>1. GoodSessions' = GoodSessions /\ Tip' = Tip
  BY DEF GoodSessions, Accepted, Updates, Tip
<1>2. CASE sync.at = "idle"
  <2>1. sync' = [at |-> "ticket", s |-> s, t |-> 0, changed |-> FALSE]
    BY <1>2 DEF schedule_epoch_sync, IdleSync
  <2>. QED
    BY <1>1, <2>1 DEF SyncOk
<1>3. CASE sync.at # "idle"
  BY <1>1, <1>3 DEF SyncOk, schedule_epoch_sync
<1>. QED
  BY <1>2, <1>3

(* Parts of the invariant a step that accepts no epoch leaves alone. *)
LEMMA RoomUnchanged ==
  ASSUME UNCHANGED epochs
  PROVE  /\ GoodSessions' = GoodSessions /\ Tip' = Tip /\ Accepted' = Accepted
         /\ RoomOk /\ wire' \subseteq Merge => RoomOk'
         /\ SyncOk /\ sync' = sync => SyncOk'
         /\ PubOk /\ pub' = pub => PubOk'
         /\ PubOk /\ pub' = IdlePub => PubOk'
         /\ SyncOk /\ sync' = IdleSync => SyncOk'
<1>1. GoodSessions' = GoodSessions /\ Tip' = Tip /\ Accepted' = Accepted
  BY DEF GoodSessions, Accepted, Updates, Tip
<1>2. RoomOk /\ wire' \subseteq Merge => RoomOk'
  BY DEF RoomOk, Tip, Ver
<1>3. /\ SyncOk /\ sync' = sync => SyncOk'
      /\ PubOk /\ pub' = pub => PubOk'
  BY <1>1 DEF SyncOk, PubOk
<1>4. pub' = IdlePub => PubOk'
  BY <1>1, NoSessionGood DEF PubOk, IdlePub, Kinds, NoKey, Keys
<1>5. sync' = IdleSync => SyncOk'
  BY <1>1, NoSessionGood DEF SyncOk, IdleSync
<1>. QED
  BY <1>1, <1>2, <1>3, <1>4, <1>5

-----------------------------------------------------------------------------
(* The steps of the room. *)

(* An epoch is accepted; it may be the one the publication waits for. *)
LEMMA EpochStep ==
  ASSUME IInv, NEW e \in Epoch, epochs' = Append(epochs, e),
         e.key.ver >= Ver(Tip), wire' \subseteq wire,
         UNCHANGED <<mem, disk, sync, roster, tries>>,
         \/ pub' = pub
         \/ /\ pub' = [pub EXCEPT !.reply = "ok"]
            /\ pub.at = "wait" /\ pub.p = e.key /\ e.upd
  PROVE  IInv'
<1>1. /\ RoomOk' /\ Tip' = Tip + 1 /\ Accepted \subseteq Accepted'
      /\ e.upd => e.key \in Accepted'
  BY RoomGrows DEF IInv
<1>2. Tip \in Nat
  BY DEF IInv, RoomOk, Tip
<1>3. GoodSessions \subseteq GoodSessions'
  BY <1>1 DEF GoodSessions
<1>4. SyncOk'
  BY <1>1, <1>2, <1>3 DEF IInv, SyncOk
<1>5. PubOk'
  <2>1. CASE pub' = pub
    BY <1>1, <1>2, <1>3, <2>1 DEF IInv, PubOk
  <2>2. CASE pub' = [pub EXCEPT !.reply = "ok"] /\ pub.at = "wait" /\ pub.p = e.key /\ e.upd
    BY <1>1, <1>2, <1>3, <2>2 DEF IInv, PubOk
  <2>. QED
    BY <2>1, <2>2
<1>6. RestOk'
  BY <1>3 DEF IInv, RestOk
<1>7. JoinOk'
  BY DEF IInv, PubOk, JoinOk
<1>. QED
  BY <1>1, <1>4, <1>5, <1>6, <1>7 DEF IInv

(* An epoch of another member only adds to the room. *)
LEMMA PeerStep ==
  ASSUME IInv, PeerJoin \/ \E reason \in PeerReasons : PeerUpdate(reason)
  PROVE  IInv'
<1>1. Tip \in 1 .. Tip /\ RoomOk
  BY DEF IInv, RoomOk, Tip
<1>2. /\ epochs[Tip] \in Epoch /\ Ver(Tip) \in Nat /\ Ver(Tip) = epochs[Tip].key.ver
      /\ epochs[Tip].root \in Nat /\ epochs[Tip].key \in Keys
  BY <1>1, EpochType DEF Epoch, Ver
<1>3. CASE PeerJoin
  <2>. DEFINE e == [key |-> epochs[Tip].key, upd |-> FALSE,
                    reason |-> 0, root |-> epochs[Tip].root + 1]
  <2>1. e \in Epoch /\ e.key.ver >= Ver(Tip)
    BY <1>2 DEF Epoch, Reasons
  <2>2. epochs' = Append(epochs, e) /\ UNCHANGED <<wire, mem, disk, sync, pub, roster, tries>>
    BY <1>3 DEF PeerJoin
  <2>. HIDE DEF e
  <2>. QED
    BY <2>1, <2>2, EpochStep
<1>4. ASSUME NEW reason \in PeerReasons, PeerUpdate(reason) PROVE IInv'
  <2>. DEFINE e == [key |-> [ver |-> Ver(Tip) + 1, id |-> 0], upd |-> TRUE,
                    reason |-> reason,
                    root |-> epochs[Tip].root + (IF reason = 0 THEN 1 ELSE 0)]
  <2>1. e \in Epoch /\ e.key.ver >= Ver(Tip)
    BY <1>2, ClientAssumption DEF Epoch, Reasons, Keys
  <2>2. epochs' = Append(epochs, e) /\ UNCHANGED <<wire, mem, disk, sync, pub, roster, tries>>
    BY <1>4 DEF PeerUpdate
  <2>. HIDE DEF e
  <2>. QED
    BY <2>1, <2>2, EpochStep
<1>. QED
  BY <1>3, <1>4

(* An accepted merge becomes an epoch, and its key accepted. *)
LEMMA ServerAcceptStep == ASSUME IInv, NEW m \in wire, ServerAccept(m) PROVE IInv'
<1>1. Tip \in 1 .. Tip /\ RoomOk /\ m \in Merge
  BY DEF IInv, RoomOk, Tip
<1>2. Ver(Tip) \in Nat /\ epochs[Tip].root \in Nat
  BY <1>1, EpochType DEF Epoch
<1>. DEFINE e == [key |-> m.p, upd |-> TRUE, reason |-> ReasonOf[m.kind],
                  root |-> epochs[Tip].root + (IF m.kind = "expel" THEN 1 ELSE 0)]
<1>3. ReasonOf[m.kind] \in Reasons /\ m.p \in Keys /\ m.p.ver = Ver(Tip) + 1
  BY <1>1 DEF ReasonOf, Merge, Kinds, Reasons, ServerAccept
<1>4. e \in Epoch /\ e.key.ver >= Ver(Tip) /\ e.upd /\ e.key = m.p
  BY <1>2, <1>3 DEF Epoch
<1>5. /\ epochs' = Append(epochs, e) /\ wire' \subseteq wire
      /\ UNCHANGED <<mem, disk, sync, roster, tries>>
      /\ pub' = IF pub.at = "wait" /\ pub.p = m.p THEN [pub EXCEPT !.reply = "ok"] ELSE pub
  BY DEF ServerAccept, Reply
<1>. HIDE DEF e
<1>. QED
  BY <1>4, <1>5, EpochStep

(* A refusal leaves the room as it is. *)
LEMMA ServerRefuseStep ==
  ASSUME IInv, NEW m \in wire, NEW answer \in {"jump", "no"}, ServerRefuse(m, answer)
  PROVE  IInv'
<1>1. /\ UNCHANGED <<epochs, mem, disk, sync, roster, tries>> /\ wire' \subseteq wire
      /\ pub' = pub \/ (pub' = [pub EXCEPT !.reply = answer] /\ pub.at = "wait")
  BY DEF ServerRefuse, Reply
<1>2. PubOk'
  BY <1>1, RoomUnchanged DEF IInv, PubOk
<1>3. RoomOk' /\ SyncOk' /\ RestOk'
  BY <1>1, RoomUnchanged DEF IInv, RestOk, RoomOk
<1>4. JoinOk'
  BY <1>1 DEF IInv, PubOk, JoinOk
<1>. QED
  BY <1>2, <1>3, <1>4 DEF IInv

-----------------------------------------------------------------------------
(* The steps of the sync and of the roster. *)

(* The sync task reads the room and changes its own session. *)
LEMMA SyncTaskStep ==
  ASSUME IInv, Hint \/ SyncTicket \/ SyncResolve \/ SyncFails
  PROVE  IInv'
<1>1. UNCHANGED <<epochs, wire, mem, disk, pub, roster, tries>>
  BY DEF Hint, SyncTicket, SyncResolve, SyncFails
<1>2. RoomOk' /\ PubOk' /\ RestOk' /\ JoinOk'
  BY <1>1, RoomUnchanged DEF IInv, RestOk, RoomOk, JoinOk
<1>3. SyncOk'
  <2>1. CASE Hint
    BY <1>1, <2>1, ScheduleGood DEF Hint, IInv, RestOk
  <2>2. CASE SyncTicket
    <3>1. Tip \in 1 .. Tip /\ Tip \in Nat
      BY DEF IInv, RoomOk, Tip
    <3>. QED
      BY <1>1, <2>2, <3>1, RoomUnchanged DEF SyncTicket, IInv, SyncOk
  <2>3. CASE SyncResolve
    <3>1. sync.s \in GoodSessions /\ sync.t \in 1 .. Tip
      BY <2>3 DEF SyncResolve, IInv, SyncOk
    <3>2. PICK r \in perform_epoch_sync(sync.s, sync.t) :
            sync' = [sync EXCEPT !.at = "done", !.s = r.s, !.changed = r.changed]
      BY <2>3 DEF SyncResolve
    <3>3. r.s \in GoodSessions /\ r.changed \in BOOLEAN
      BY <3>1, PerformGood DEF IInv
    <3>. QED
      BY <1>1, <3>2, <3>3, RoomUnchanged DEF IInv, SyncOk
  <2>4. CASE SyncFails
    BY <1>1, <2>4, RoomUnchanged DEF SyncFails, IInv
  <2>. QED
    BY <2>1, <2>2, <2>3, <2>4
<1>. QED
  BY <1>2, <1>3 DEF IInv

(* The interface installs the session the sync task returns. *)
LEMMA HandleSyncStep == ASSUME IInv, handle_epoch_sync_result PROVE IInv'
<1>1. /\ UNCHANGED <<epochs, wire, pub, tries>> /\ sync' = IdleSync
      /\ mem' \in {mem, sync.s} /\ disk' \in {disk, sync.s}
      /\ roster' \in {roster, Loading}
  BY DEF handle_epoch_sync_result
<1>2. sync.s \in GoodSessions
  BY DEF IInv, SyncOk
<1>3. RestOk'
  BY <1>1, <1>2, RoomUnchanged DEF IInv, RestOk, Loading, Roster
<1>4. JoinOk'
  BY DEF handle_epoch_sync_result, IInv, JoinOk
<1>. QED
  BY <1>1, <1>3, <1>4, RoomUnchanged DEF IInv, RoomOk

(* Reading the roster does not touch the keys. *)
LEMMA RosterStep ==
  ASSUME IInv, RosterRefresh \/ RosterRead \/ on_members_refreshed
  PROVE  IInv'
<1>1. UNCHANGED <<epochs, wire, pub, tries>>
  BY DEF RosterRefresh, RosterRead, on_members_refreshed
<1>0. JoinOk'
  BY DEF RosterRefresh, RosterRead, on_members_refreshed, IInv, JoinOk, NoPage, Loading
<1>2. CASE RosterRefresh \/ RosterRead
  <2>1. epochs[Tip].root \in Nat
    <3>1. Tip \in 1 .. Tip
      BY DEF IInv, RoomOk, Tip
    <3>. QED
      BY <3>1, EpochType DEF IInv, Epoch
  <2>2. UNCHANGED <<mem, disk, sync>> /\ roster' \in Roster
    BY <1>2, <2>1 DEF RosterRefresh, RosterRead, Loading, Roster
  <2>. QED
    BY <1>0, <1>1, <2>2, RoomUnchanged DEF IInv, RoomOk, RestOk
<1>3. CASE on_members_refreshed
  <2>. DEFINE s == [mem EXCEPT !.root = roster.root]
  <2>1. s \in GoodSessions
    BY DEF IInv, RestOk, GoodSessions, AppSession, Roster
  <2>2. /\ roster' = NoPage /\ mem' \in {mem, s} /\ disk' \in {disk, s}
        /\ sync' = sync \/ sync' = schedule_epoch_sync(s)
    BY <1>3 DEF on_members_refreshed
  <2>. HIDE DEF s
  <2>3. SyncOk'
    BY <1>1, <2>1, <2>2, ScheduleGood, RoomUnchanged DEF IInv
  <2>4. RestOk'
    BY <1>1, <2>1, <2>2, RoomUnchanged DEF IInv, RestOk, NoPage, Roster
  <2>. QED
    BY <1>0, <1>1, <2>3, <2>4, RoomUnchanged DEF IInv, RoomOk
<1>. QED
  BY <1>2, <1>3

-----------------------------------------------------------------------------
(* The steps of the publication, up to its answer. *)

(* A publication starts from the session in memory. *)
LEMMA StartStep ==
  ASSUME IInv, start_pcs_refresh \/ start_member_expulsion
               \/ prepare_barrier_merge_ticket \/ publish_revocation_merge_from_ticket
  PROVE  IInv'
<1>1. UNCHANGED <<epochs, wire, mem, disk, sync, roster, tries>>
  BY DEF start_pcs_refresh, start_member_expulsion, StartPublish,
         prepare_barrier_merge_ticket, publish_revocation_merge_from_ticket, TakeTicket
<1>2. PubOk'
  <2>1. ASSUME NEW kind \in Kinds, StartPublish(kind) PROVE PubOk'
    <3>1. pub' = [at |-> "ticket", kind |-> kind, s |-> mem, t |-> 0, p |-> NoKey,
                  reply |-> "none", again |-> FALSE]
      BY <2>1 DEF StartPublish, IdlePub
    <3>2. mem \in GoodSessions' /\ NoKey \in Keys
      BY <1>1, RoomUnchanged DEF IInv, RestOk, NoKey, Keys
    <3>. QED
      BY <3>1, <3>2 DEF PubOk
  <2>2. CASE TakeTicket
    <3>1. Tip \in 1 .. Tip /\ Tip \in Nat
      BY DEF IInv, RoomOk, Tip
    <3>2. pub.at = "ticket" /\ pub' = [pub EXCEPT !.at = "build", !.t = Tip]
      BY <2>2 DEF TakeTicket
    <3>3. pub.reply # "ok"
      BY <3>2 DEF IInv, PubOk
    <3>. QED
      BY <1>1, <3>1, <3>2, <3>3, RoomUnchanged DEF IInv, PubOk
  <2>. QED
    BY <2>1, <2>2 DEF start_pcs_refresh, start_member_expulsion, Kinds,
         prepare_barrier_merge_ticket, publish_revocation_merge_from_ticket
<1>3. JoinOk'
  BY DEF start_pcs_refresh, start_member_expulsion, StartPublish, IInv, PubOk, JoinOk, IdlePub,
         prepare_barrier_merge_ticket, publish_revocation_merge_from_ticket, TakeTicket
<1>. QED
  BY <1>1, <1>2, <1>3, RoomUnchanged DEF IInv, RoomOk, RestOk

(* A merge is built with the next version and goes to the disk first. *)
LEMMA BuildStep == ASSUME IInv, PublishBuild PROVE IInv'
<1>. DEFINE p == [ver |-> Ver(pub.t) + 1, id |-> tries + 1]
<1>1. /\ UNCHANGED <<epochs, wire, mem, sync, roster>> /\ pub.at = "build"
      /\ disk' = [disk EXCEPT !.pend = p]
      /\ pub' = [pub EXCEPT !.at = "send", !.p = p]
      /\ tries' = tries + 1
  BY DEF PublishBuild, persist_pending_barrier_state_before_publish
<1>2. pub.t \in 1 .. Tip /\ pub.reply # "ok"
  BY <1>1 DEF IInv, PubOk
<1>3. Ver(pub.t) \in Nat
  BY <1>2, EpochType DEF IInv
<1>4. p \in Keys
  BY <1>3 DEF Keys, IInv, RestOk
<1>. HIDE DEF p
<1>5. disk' \in GoodSessions
  BY <1>1, <1>4 DEF IInv, RestOk, GoodSessions, AppSession
<1>6. PubOk' /\ JoinOk'
  BY <1>1, <1>2, <1>4, RoomUnchanged DEF IInv, PubOk, JoinOk
<1>7. RestOk'
  BY <1>1, <1>5, RoomUnchanged DEF IInv, RestOk
<1>. QED
  BY <1>1, <1>6, <1>7, RoomUnchanged DEF IInv, RoomOk

(* Sending puts the built merge on the wire; a retry builds another. *)
LEMMA SendStep == ASSUME IInv, PublishSend \/ PublishRetry PROVE IInv'
<1>1. UNCHANGED <<epochs, mem, disk, sync, roster, tries>>
  BY DEF PublishSend, PublishRetry
<1>2. wire' \subseteq Merge
  BY DEF PublishSend, PublishRetry, IInv, RoomOk, PubOk, Merge
<1>3. PubOk' /\ JoinOk'
  <2>1. CASE PublishSend
    BY <1>1, <2>1, RoomUnchanged DEF PublishSend, IInv, PubOk, JoinOk
  <2>2. CASE PublishRetry
    BY <1>1, <2>2, RoomUnchanged DEF PublishRetry, IInv, PubOk, JoinOk
  <2>. QED
    BY <2>1, <2>2
<1>. QED
  BY <1>1, <1>2, <1>3, RoomUnchanged DEF IInv, RestOk

(* The mark of a joining device is set while it has no key. *)
LEMMA VerifyStep == ASSUME IInv, ensure_join_finalize_bootstrap_verified PROVE IInv'
<1>1. /\ UNCHANGED <<epochs, wire, mem, sync, roster, tries>> /\ pub.at = "verify"
      /\ disk' = [disk EXCEPT !.full = TRUE] /\ pub' = [pub EXCEPT !.at = "ticket"]
      /\ disk.full \/ disk.recov
  BY DEF ensure_join_finalize_bootstrap_verified
<1>2. disk \in GoodSessions /\ disk.key = NoKey
  BY <1>1 DEF IInv, RestOk, JoinOk
<1>3. disk.recov /\ disk \in AppSession
  BY <1>1, <1>2 DEF GoodSessions, AppSession
<1>4. disk' \in GoodSessions
  BY <1>1, <1>2, <1>3 DEF GoodSessions, AppSession
<1>5. PubOk' /\ JoinOk'
  BY <1>1, RoomUnchanged DEF IInv, PubOk, JoinOk
<1>6. RestOk'
  BY <1>1, <1>4, RoomUnchanged DEF IInv, RestOk
<1>. QED
  BY <1>1, <1>5, <1>6, RoomUnchanged DEF IInv, RoomOk

-----------------------------------------------------------------------------
(* The steps that end a publication, and the restart. *)

(* An Ok activates the key it is about. *)
LEMMA ApplyStep == ASSUME IInv, PublishApply PROVE IInv'
<1>. DEFINE s == apply_local_published_barrier_merge(pub.s, EpochOf(pub.p), pub.p)
<1>1. /\ UNCHANGED <<epochs, wire, mem, sync, roster, tries>> /\ pub.reply = "ok"
      /\ disk' = s /\ pub' = [pub EXCEPT !.at = "applied", !.s = s]
  BY DEF PublishApply
<1>2. s \in GoodSessions
  <2>1. pub.s \in GoodSessions /\ pub.p \in Accepted
    BY <1>1 DEF IInv, PubOk
  <2>. QED
    BY <2>1, AppliedGood DEF IInv
<1>. HIDE DEF s
<1>3. PubOk' /\ JoinOk'
  BY <1>1, <1>2, RoomUnchanged DEF IInv, PubOk, JoinOk
<1>. QED
  BY <1>1, <1>2, <1>3, RoomUnchanged DEF IInv, RoomOk, RestOk

(* After a failed activation the session on disk is synced. *)
LEMMA FallbackStep ==
  ASSUME IInv, ActivationFails \/ FallbackTicket \/ FallbackResolve
  PROVE  IInv'
<1>1. UNCHANGED <<epochs, wire, mem, sync, roster, tries>>
  BY DEF ActivationFails, FallbackTicket, FallbackResolve
<1>2. CASE ActivationFails \/ FallbackTicket
  <2>1. disk' = disk /\ pub'.at # "verify"
    BY <1>2 DEF ActivationFails, FallbackTicket, IInv, PubOk
  <2>2. Tip \in 1 .. Tip /\ Tip \in Nat /\ disk \in GoodSessions
    BY DEF IInv, RoomOk, Tip, RestOk
  <2>3. PubOk'
    BY <1>1, <1>2, <2>2, RoomUnchanged DEF ActivationFails, FallbackTicket, IInv, PubOk
  <2>. QED
    BY <1>1, <2>1, <2>3, RoomUnchanged DEF IInv, RoomOk, RestOk, JoinOk
<1>3. CASE FallbackResolve
  <2>1. pub.at = "resync" /\ pub.s \in GoodSessions /\ pub.t \in 1 .. Tip
    BY <1>3 DEF FallbackResolve, IInv, PubOk
  <2>2. PICK r \in perform_epoch_sync(pub.s, pub.t) :
          /\ disk' = [r.s EXCEPT !.pend = NoKey]
          /\ pub' = [pub EXCEPT !.at = "applied", !.s = [r.s EXCEPT !.pend = NoKey]]
    BY <1>3 DEF FallbackResolve
  <2>. DEFINE s == [r.s EXCEPT !.pend = NoKey]
  <2>3. r.s \in GoodSessions
    BY <2>1, PerformGood DEF IInv
  <2>4. s \in GoodSessions
    BY <2>3 DEF GoodSessions, AppSession, NoKey, Keys
  <2>5. disk' = s /\ pub' = [pub EXCEPT !.at = "applied", !.s = s]
    BY <2>2
  <2>. HIDE DEF s
  <2>6. PubOk' /\ pub'.at # "verify"
    BY <1>1, <2>1, <2>4, <2>5, RoomUnchanged DEF IInv, PubOk
  <2>. QED
    BY <1>1, <2>4, <2>5, <2>6, RoomUnchanged DEF IInv, RoomOk, RestOk, JoinOk
<1>. QED
  BY <1>2, <1>3

(* Every way a publication ends installs a good session. *)
LEMMA EndStep ==
  ASSUME IInv, on_member_expel_finished \/ JoinFinished \/ on_refresh_finished \/ PublishFails
  PROVE  IInv'
<1>1. /\ UNCHANGED <<epochs, wire, tries>> /\ pub' = IdlePub
      /\ mem' \in {mem, disk, pub.s} /\ disk' \in {disk, pub.s}
      /\ roster' \in {roster, Loading}
      /\ sync' = sync \/ \E s \in {disk, pub.s} : sync' = schedule_epoch_sync(s)
  BY DEF on_member_expel_finished, JoinFinished, on_refresh_finished, PublishFails,
         on_join_finished
<1>2. {mem, disk, pub.s} \subseteq GoodSessions
  BY DEF IInv, RestOk, PubOk
<1>3. SyncOk'
  BY <1>1, <1>2, ScheduleGood, RoomUnchanged DEF IInv
<1>4. RestOk'
  BY <1>1, <1>2, RoomUnchanged DEF IInv, RestOk, Loading, Roster
<1>. QED
  BY <1>1, <1>3, <1>4, RoomUnchanged DEF IInv, RoomOk, JoinOk, IdlePub

(* A restart continues from the disk. *)
LEMMA RestartStep == ASSUME IInv, Restart PROVE IInv'
<1>1. /\ UNCHANGED <<epochs, wire, disk, tries>> /\ pub' = IdlePub
      /\ mem' = disk /\ roster' = NoPage
      /\ sync' = [at |-> "ticket", s |-> disk, t |-> 0, changed |-> FALSE]
  BY DEF Restart, IdleSync
<1>2. SyncOk'
  BY <1>1, RoomUnchanged DEF IInv, RestOk, SyncOk
<1>3. RestOk'
  BY <1>1, RoomUnchanged DEF IInv, RestOk, NoPage, Roster
<1>. QED
  BY <1>1, <1>2, <1>3, RoomUnchanged DEF IInv, RoomOk, JoinOk, IdlePub

-----------------------------------------------------------------------------
(* Both ways the program starts: joining a room, and having founded one. *)
LEMMA InitIInv == Init => IInv
<1>. SUFFICES ASSUME Init PROVE IInv
  OBVIOUS
<1>1. PICK k \in {[ver |-> 1, id |-> 0], [ver |-> 1, id |-> 1]} :
        /\ epochs = FirstEpochs(k)
        /\ \/ /\ mem = NoSession /\ disk = Joined /\ tries = 0
              /\ pub = [at |-> "verify", kind |-> "finalize", s |-> Joined, t |-> 0,
                        p |-> NoKey, reply |-> "none", again |-> FALSE]
           \/ /\ mem = Founder /\ disk = Founder /\ tries = 1 /\ k = Founder.key
              /\ pub = IdlePub
  BY DEF Init, IdlePub, Founder, Joined
<1>2. k \in Keys /\ k.ver = 1
  BY <1>1 DEF Keys
<1>3. /\ epochs \in Seq(Epoch) /\ Len(epochs) = 2 /\ epochs[1].key = k /\ epochs[2].key = k
      /\ epochs[1].upd
  BY <1>1, <1>2 DEF FirstEpochs, Epoch, Reasons
<1>4. RoomOk
  BY <1>2, <1>3 DEF Init, RoomOk, Tip, Ver
<1>5. k \in Accepted
  BY <1>3 DEF Accepted, Updates, Tip
<1>6. Joined \in GoodSessions /\ (k = Founder.key => Founder \in GoodSessions)
  <2>1. Joined \in GoodSessions
    BY DEF Joined, GoodSessions, AppSession, NoKey, Keys
  <2>2. Founder = [we |-> 2, ver |-> 1, key |-> [ver |-> 1, id |-> 1], pend |-> NoKey,
                   recov |-> FALSE, full |-> TRUE, root |-> 1]
    <3>. DEFINE n == NoKey
                key == [ver |-> 1, id |-> 1]
    <3>1. Founder = [[we |-> 2, ver |-> 1, key |-> n, pend |-> n, recov |-> TRUE,
                      full |-> FALSE, root |-> 1]
                       EXCEPT !.key = key, !.recov = FALSE, !.full = TRUE]
      BY DEF Founder, Joined
    <3>. HIDE DEF n, key
    <3>2. Founder = [we |-> 2, ver |-> 1, key |-> key, pend |-> n, recov |-> FALSE,
                     full |-> TRUE, root |-> 1]
      BY <3>1
    <3>. QED
      BY <3>2 DEF n, key
  <2>3. k = Founder.key => Founder \in GoodSessions
    BY <1>5, <2>2 DEF GoodSessions, AppSession, NoKey, Keys
  <2>. QED
    BY <2>1, <2>3
<1>7. SyncOk
  BY NoSessionGood DEF Init, SyncOk, IdleSync
<1>8. PubOk
  <2>1. NoKey \in Keys /\ "finalize" \in Kinds /\ "refresh" \in Kinds
    BY DEF NoKey, Keys, Kinds
  <2>. QED
    <3>1. CASE pub = IdlePub
      BY <2>1, <3>1, NoSessionGood DEF PubOk, IdlePub
    <3>2. CASE pub = [at |-> "verify", kind |-> "finalize", s |-> Joined, t |-> 0,
                      p |-> NoKey, reply |-> "none", again |-> FALSE]
      BY <1>6, <2>1, <3>2 DEF PubOk
    <3>. QED
      BY <1>1, <3>1, <3>2
<1>9. RestOk
  BY <1>1, <1>6, NoSessionGood DEF Init, RestOk, NoPage, Roster
<1>10. JoinOk
  BY <1>1 DEF Init, JoinOk, IdlePub, Joined
<1>. QED
  BY <1>4, <1>7, <1>8, <1>9, <1>10 DEF IInv

(* A sync that drops the pending update found its version taken. *)
Settled ==
  (SyncResolve /\ sync.s.pend # NoKey /\ sync'.s.pend = NoKey)
    => sync.s.pend.ver <= Ver(Tip)

(* In a state of the invariant a step drops settled updates only. *)
LEMMA SettledStep == IInv => Settled
<1>. SUFFICES ASSUME IInv, SyncResolve, sync.s.pend # NoKey, sync'.s.pend = NoKey
              PROVE  sync.s.pend.ver <= Ver(Tip)
  BY DEF Settled
<1>1. sync.s \in GoodSessions /\ sync.t \in 1 .. Tip
  BY DEF SyncResolve, IInv, SyncOk
<1>2. PICK r \in perform_epoch_sync(sync.s, sync.t) :
        sync' = [sync EXCEPT !.at = "done", !.s = r.s, !.changed = r.changed]
  BY DEF SyncResolve
<1>3. sync'.s = r.s
  BY <1>2 DEF IInv, SyncOk
<1>. QED
  BY <1>1, <1>3, PerformGood DEF IInv

(* No step disturbs the invariant. *)
LEMMA NextStep == IInv /\ [Next]_vars => IInv'
<1>. SUFFICES ASSUME IInv, [Next]_vars PROVE IInv'
  OBVIOUS
<1>1. CASE Next
  BY <1>1, PeerStep, ServerAcceptStep, ServerRefuseStep, SyncTaskStep, HandleSyncStep,
     RosterStep, StartStep, VerifyStep, BuildStep, SendStep, ApplyStep, FallbackStep, EndStep,
     RestartStep DEF Next
<1>2. CASE UNCHANGED vars
  BY <1>2, RoomUnchanged DEF vars, IInv, RoomOk, RestOk, JoinOk
<1>. QED
  BY <1>1, <1>2

(* The invariant implies the two properties of all copies. *)
LEMMA GoodEverywhere == IInv => KeysAreAccepted /\ FullMeansCurrent
  BY DEF IInv, SyncOk, PubOk, RestOk, GoodSessions, KeysAreAccepted, FullMeansCurrent, Sessions

(* Whatever times out, is refused, is superseded or is cut off by a crash, a   *)
(* session only ever holds the key of an update the room accepted.             *)
THEOREM ClientKeysAreAccepted == Spec => []KeysAreAccepted
  BY InitIInv, NextStep, GoodEverywhere, PTL DEF Spec

(* The mark guard_barrier_origin asks for is only carried by sessions that     *)
(* hold the key of the barrier version they name, and by a device that joined, *)
(* has no key yet and whose pending recovery the guard refuses for every       *)
(* update but its join finalization.                                           *)
THEOREM OriginGuardIsEarned == Spec => []FullMeansCurrent
  BY InitIInv, NextStep, GoodEverywhere, PTL DEF Spec

(* resolve_pending_barrier_history drops an update only once its version is    *)
(* taken in the room.                                                          *)
THEOREM SyncDropsOnlySettled == Spec => DropIsSettled
  BY InitIInv, NextStep, SettledStep, PTL DEF Spec, DropIsSettled, Settled

-----------------------------------------------------------------------------
(***************************************************************************)
(* What the tasks leave behind.  NoSession is told from a session by its   *)
(* epoch: every session a task or the disk holds is in one of the room's   *)
(* epochs, so installing it never leaves the interface without a session.  *)
(***************************************************************************)
Tidy ==
  /\ IF sync.at = "idle" THEN sync = IdleSync ELSE sync.s.we >= 1
  /\ IF pub.at = "idle" THEN pub = IdlePub ELSE pub.s.we >= 1
  /\ disk.we >= 1
  /\ \/ mem.we >= 1
     \/ mem = NoSession /\ pub.at # "idle" /\ pub.kind = "finalize" /\ roster = NoPage
  /\ tries \in 0 .. MaxTries /\ crashes \in 0 .. MaxCrashes

(* The epoch of a session is a number, and of no session it is 0. *)
LEMMA EpochsAreInt ==
  ASSUME IInv
  PROVE  /\ mem.we \in Nat /\ disk.we \in Nat /\ sync.s.we \in Nat /\ pub.s.we \in Nat
         /\ NoSession.we = 0
  BY DEF IInv, RestOk, SyncOk, PubOk, GoodSessions, AppSession, NoSession

(* A scheduled sync works on a session or is idle. *)
LEMMA ScheduleTidy ==
  ASSUME IInv, Tidy, NEW s, s.we >= 1, sync' = schedule_epoch_sync(s)
  PROVE  IF sync'.at = "idle" THEN sync' = IdleSync ELSE sync'.s.we >= 1
<1>1. CASE sync.at = "idle"
  <2>1. sync' = [at |-> "ticket", s |-> s, t |-> 0, changed |-> FALSE]
    BY <1>1 DEF schedule_epoch_sync, IdleSync
  <2>. QED
    BY <2>1
<1>2. CASE sync.at # "idle"
  BY <1>2 DEF Tidy, schedule_epoch_sync
<1>. QED
  BY <1>1, <1>2

(* It holds when the join begins. *)
LEMMA InitTidy == Init => Tidy
<1>. SUFFICES ASSUME Init PROVE Tidy
  OBVIOUS
<1>1. \/ /\ mem = NoSession /\ disk = Joined /\ tries = 0
         /\ pub = [at |-> "verify", kind |-> "finalize", s |-> Joined, t |-> 0,
                   p |-> NoKey, reply |-> "none", again |-> FALSE]
      \/ mem = Founder /\ disk = Founder /\ tries = 1 /\ pub = IdlePub
  BY DEF Init, IdlePub
<1>2. sync = IdleSync /\ roster = NoPage /\ crashes = 0
  BY DEF Init
<1>3. Joined.we = 2 /\ Founder.we = 2
  BY DEF Founder, Joined
<1>4. IdleSync.at = "idle" /\ IdlePub.at = "idle"
  BY DEF IdleSync, IdlePub
<1>5. tries \in 0 .. MaxTries /\ crashes \in 0 .. MaxCrashes
  BY <1>1, <1>2, ClientAssumption
<1>. QED
  BY <1>1, <1>2, <1>3, <1>4, <1>5 DEF Tidy

(* The room's steps change of the tasks only the publication's answer. *)
LEMMA RoomTidy ==
  ASSUME IInv, Tidy, UNCHANGED <<mem, disk, sync, roster, tries, crashes>>,
         \/ pub' = pub
         \/ pub.at = "wait" /\ \E answer : pub' = [pub EXCEPT !.reply = answer]
  PROVE  Tidy'
<1>1. pub'.at = pub.at /\ pub'.kind = pub.kind /\ pub'.s = pub.s /\ (pub.at = "idle" => pub' = pub)
  BY DEF IInv, PubOk
<1>. QED
  BY <1>1 DEF Tidy

(* The room and the server touch no task. *)
LEMMA ServerTidy ==
  ASSUME IInv, Tidy,
         \/ PeerJoin
         \/ \E reason \in PeerReasons : PeerUpdate(reason)
         \/ \E m \in wire : ServerAccept(m)
         \/ \E m \in wire : \E answer \in {"jump", "no"} : ServerRefuse(m, answer)
  PROVE  Tidy'
<1>1. UNCHANGED <<mem, disk, sync, roster, tries, crashes>>
  BY DEF PeerJoin, PeerUpdate, ServerAccept, ServerRefuse
<1>2. \/ pub' = pub
      \/ pub.at = "wait" /\ \E answer : pub' = [pub EXCEPT !.reply = answer]
  BY DEF PeerJoin, PeerUpdate, ServerAccept, ServerRefuse, Reply
<1>. QED
  BY <1>1, <1>2, RoomTidy

(* The sync task keeps its session to the end and leaves nothing behind. *)
LEMMA SyncTidy ==
  ASSUME IInv, Tidy, Hint \/ SyncTicket \/ SyncResolve \/ SyncFails
  PROVE  Tidy'
<1>1. UNCHANGED <<mem, disk, pub, roster, tries, crashes>>
  BY DEF Hint, SyncTicket, SyncResolve, SyncFails
<1>2. IF sync'.at = "idle" THEN sync' = IdleSync ELSE sync'.s.we >= 1
  <2>1. CASE Hint
    <3>1. mem.we >= 1 /\ sync' = schedule_epoch_sync(mem)
      BY <2>1 DEF Hint, Tidy
    <3>. QED
      BY <3>1, ScheduleTidy
  <2>2. CASE SyncTicket
    BY <2>2 DEF SyncTicket, Tidy, IInv, SyncOk
  <2>3. CASE SyncResolve
    <3>1. sync.s \in GoodSessions /\ sync.t \in 1 .. Tip /\ sync.s.we >= 1
      BY <2>3 DEF SyncResolve, IInv, SyncOk, Tidy
    <3>2. PICK r \in perform_epoch_sync(sync.s, sync.t) :
            sync' = [sync EXCEPT !.at = "done", !.s = r.s, !.changed = r.changed]
      BY <2>3 DEF SyncResolve
    <3>3. r.s.we \in {sync.s.we, sync.t}
      BY <3>1, PerformGood DEF IInv
    <3>4. r.s.we >= 1
      BY <3>1, <3>3
    <3>5. sync'.at = "done" /\ sync'.s = r.s
      BY <3>2 DEF IInv, SyncOk
    <3>. QED
      BY <3>4, <3>5
  <2>4. CASE SyncFails
    BY <2>4 DEF SyncFails, IdleSync
  <2>. QED
    BY <2>1, <2>2, <2>3, <2>4
<1>. QED
  BY <1>1, <1>2 DEF Tidy

(* What the interface installs is a session. *)
LEMMA HandleSyncTidy == ASSUME IInv, Tidy, handle_epoch_sync_result PROVE Tidy'
<1>1. UNCHANGED <<pub, tries, crashes>> /\ sync' = IdleSync /\ sync.at = "done"
  BY DEF handle_epoch_sync_result
<1>2. sync.s.we >= 1 /\ IdleSync.at = "idle"
  BY <1>1 DEF Tidy, IdleSync
<1>3. \/ mem # NoSession /\ mem' = sync.s /\ disk' = sync.s
      \/ UNCHANGED <<mem, disk, roster>>
  BY DEF handle_epoch_sync_result
<1>. QED
  BY <1>1, <1>2, <1>3 DEF Tidy

(* The roster task keeps to its own values. *)
LEMMA RosterTidy ==
  ASSUME IInv, Tidy, RosterRefresh \/ RosterRead \/ on_members_refreshed
  PROVE  Tidy'
<1>1. UNCHANGED <<pub, tries, crashes>>
  BY DEF RosterRefresh, RosterRead, on_members_refreshed
<1>2. mem.we >= 1
  BY DEF RosterRefresh, RosterRead, on_members_refreshed, Tidy, NoPage, Loading
<1>3. CASE RosterRefresh \/ RosterRead
  <2>1. UNCHANGED <<mem, disk, sync>>
    BY <1>3 DEF RosterRefresh, RosterRead
  <2>. QED
    BY <1>1, <1>2, <2>1 DEF Tidy
<1>4. CASE on_members_refreshed
  <2>. DEFINE s == [mem EXCEPT !.root = roster.root]
  <2>1. s.we = mem.we
    BY DEF IInv, RestOk, GoodSessions, AppSession
  <2>2. /\ mem' \in {mem, s} /\ disk' \in {disk, s}
        /\ sync' = sync \/ sync' = schedule_epoch_sync(s)
    BY <1>4 DEF on_members_refreshed
  <2>. HIDE DEF s
  <2>3. IF sync'.at = "idle" THEN sync' = IdleSync ELSE sync'.s.we >= 1
    BY <1>2, <2>1, <2>2, ScheduleTidy DEF Tidy
  <2>. QED
    BY <1>1, <1>2, <2>1, <2>2, <2>3 DEF Tidy
<1>. QED
  BY <1>3, <1>4

(* The publication carries a session from its start on. *)
LEMMA PublishTidy ==
  ASSUME IInv, Tidy, start_pcs_refresh \/ start_member_expulsion
                     \/ prepare_barrier_merge_ticket \/ publish_revocation_merge_from_ticket
                     \/ PublishSend \/ PublishRetry
  PROVE  Tidy'
<1>1. UNCHANGED <<mem, disk, sync, roster, tries, crashes>>
  BY DEF start_pcs_refresh, start_member_expulsion, StartPublish, PublishSend, PublishRetry,
         prepare_barrier_merge_ticket, publish_revocation_merge_from_ticket, TakeTicket
<1>2. ASSUME NEW kind, StartPublish(kind) PROVE Tidy'
  <2>1. pub' = [at |-> "ticket", kind |-> kind, s |-> mem, t |-> 0, p |-> NoKey,
                reply |-> "none", again |-> FALSE]
    BY <1>2 DEF StartPublish, IdlePub
  <2>2. mem.we >= 1
    BY <1>2 DEF StartPublish, Tidy
  <2>. QED
    BY <1>1, <2>1, <2>2 DEF Tidy
<1>3. ASSUME TakeTicket \/ PublishSend \/ PublishRetry PROVE Tidy'
  <2>1. /\ pub.at # "idle" /\ pub'.at # "idle" /\ pub'.kind = pub.kind /\ pub'.s = pub.s
    BY <1>3 DEF TakeTicket, PublishSend, PublishRetry, IInv, PubOk
  <2>. QED
    BY <1>1, <2>1 DEF Tidy
<1>. QED
  BY <1>2, <1>3 DEF start_pcs_refresh, start_member_expulsion,
       prepare_barrier_merge_ticket, publish_revocation_merge_from_ticket

(* Marking the session on disk changes nothing else of it. *)
LEMMA VerifyTidy ==
  ASSUME IInv, Tidy, ensure_join_finalize_bootstrap_verified PROVE Tidy'
<1>1. /\ UNCHANGED <<mem, sync, roster, tries, crashes>> /\ pub.at = "verify"
      /\ disk' = [disk EXCEPT !.full = TRUE] /\ pub' = [pub EXCEPT !.at = "ticket"]
  BY DEF ensure_join_finalize_bootstrap_verified
<1>2. disk'.we = disk.we
  BY <1>1 DEF IInv, RestOk, GoodSessions, AppSession
<1>3. pub'.at = "ticket" /\ pub'.kind = pub.kind /\ pub'.s = pub.s
  BY <1>1 DEF IInv, PubOk
<1>. QED
  BY <1>1, <1>2, <1>3 DEF Tidy

(* What is saved before the merge is sent is a session. *)
LEMMA BuildTidy == ASSUME IInv, Tidy, PublishBuild PROVE Tidy'
<1>. DEFINE p == [ver |-> Ver(pub.t) + 1, id |-> tries + 1]
<1>1. /\ UNCHANGED <<mem, sync, roster, crashes>> /\ pub.at = "build"
      /\ disk' = [disk EXCEPT !.pend = p]
      /\ pub' = [pub EXCEPT !.at = "send", !.p = p]
      /\ tries < MaxTries /\ tries' = tries + 1
  BY DEF PublishBuild, persist_pending_barrier_state_before_publish
<1>. HIDE DEF p
<1>2. disk'.we = disk.we
  BY <1>1 DEF IInv, RestOk, GoodSessions, AppSession
<1>3. pub'.at = "send" /\ pub'.kind = pub.kind /\ pub'.s = pub.s
  BY <1>1 DEF IInv, PubOk
<1>4. tries' \in 0 .. MaxTries
  BY <1>1, ClientAssumption DEF Tidy
<1>. QED
  BY <1>1, <1>2, <1>3, <1>4 DEF Tidy

(* The end of a publication installs a session and leaves nothing behind. *)
LEMMA ApplyTidy == ASSUME IInv, Tidy, PublishApply PROVE Tidy'
<1>. DEFINE s == apply_local_published_barrier_merge(pub.s, EpochOf(pub.p), pub.p)
<1>1. /\ UNCHANGED <<mem, sync, roster, tries, crashes>> /\ pub.reply = "ok" /\ pub.at = "wait"
      /\ disk' = s /\ pub' = [pub EXCEPT !.at = "applied", !.s = s]
  BY DEF PublishApply
<1>2. s.we \in 1 .. Tip /\ Tip \in Nat
  <2>1. pub.s \in GoodSessions /\ pub.p \in Accepted /\ RoomOk
    BY <1>1 DEF IInv, PubOk
  <2>. QED
    BY <2>1, AppliedGood DEF RoomOk, Tip
<1>. HIDE DEF s
<1>3. pub'.at = "applied" /\ pub'.kind = pub.kind /\ pub'.s = s
  BY <1>1 DEF IInv, PubOk
<1>. QED
  BY <1>1, <1>2, <1>3 DEF Tidy

(* The sync after a failed activation works on the session on disk. *)
LEMMA FallbackTidy ==
  ASSUME IInv, Tidy, ActivationFails \/ FallbackTicket \/ FallbackResolve
  PROVE  Tidy'
<1>1. UNCHANGED <<mem, sync, roster, tries, crashes>>
  BY DEF ActivationFails, FallbackTicket, FallbackResolve
<1>2. CASE ActivationFails \/ FallbackTicket
  <2>1. /\ disk' = disk /\ pub.at # "idle" /\ pub'.at # "idle" /\ pub'.kind = pub.kind
        /\ pub'.s \in {pub.s, disk}
    BY <1>2 DEF ActivationFails, FallbackTicket, IInv, PubOk
  <2>. QED
    BY <1>1, <2>1 DEF Tidy
<1>3. CASE FallbackResolve
  <2>1. pub.at = "resync" /\ pub.s \in GoodSessions /\ pub.t \in 1 .. Tip /\ pub.s.we >= 1
    BY <1>3 DEF FallbackResolve, IInv, PubOk, Tidy
  <2>2. PICK r \in perform_epoch_sync(pub.s, pub.t) :
          /\ disk' = [r.s EXCEPT !.pend = NoKey]
          /\ pub' = [pub EXCEPT !.at = "applied", !.s = [r.s EXCEPT !.pend = NoKey]]
    BY <1>3 DEF FallbackResolve
  <2>. DEFINE s == [r.s EXCEPT !.pend = NoKey]
  <2>3. r.s \in GoodSessions /\ r.s.we \in {pub.s.we, pub.t}
    BY <2>1, PerformGood DEF IInv
  <2>4. r.s.we >= 1
    BY <2>1, <2>3
  <2>5. s.we = r.s.we
    BY <2>3 DEF GoodSessions, AppSession
  <2>6. disk' = s /\ pub' = [pub EXCEPT !.at = "applied", !.s = s]
    BY <2>2
  <2>. HIDE DEF s
  <2>7. pub'.at = "applied" /\ pub'.kind = pub.kind /\ pub'.s = s
    BY <2>6 DEF IInv, PubOk
  <2>. QED
    BY <1>1, <2>1, <2>4, <2>5, <2>6, <2>7 DEF Tidy
<1>. QED
  BY <1>2, <1>3

(* Whatever ends a publication that finalizes a join leaves a session in memory. *)
LEMMA EndTidy ==
  ASSUME IInv, Tidy,
         on_member_expel_finished \/ JoinFinished \/ on_refresh_finished \/ PublishFails
  PROVE  Tidy'
<1>1. UNCHANGED <<tries, crashes>> /\ pub' = IdlePub /\ IdlePub.at = "idle" /\ pub.at # "idle"
  BY DEF on_member_expel_finished, JoinFinished, on_refresh_finished, PublishFails,
         on_join_finished, IdlePub
<1>2. disk.we >= 1 /\ pub.s.we >= 1
  BY <1>1 DEF Tidy
<1>3. /\ mem' \in {disk, pub.s} \/ (mem' = mem /\ pub.kind # "finalize")
      /\ disk' \in {disk, pub.s}
      /\ sync' = sync \/ \E s \in {disk, pub.s} : sync' = schedule_epoch_sync(s)
  BY DEF on_member_expel_finished, JoinFinished, on_refresh_finished, PublishFails,
         on_join_finished
<1>4. mem'.we >= 1
  BY <1>2, <1>3 DEF Tidy
<1>5. IF sync'.at = "idle" THEN sync' = IdleSync ELSE sync'.s.we >= 1
  BY <1>2, <1>3, ScheduleTidy DEF Tidy
<1>. QED
  BY <1>1, <1>2, <1>3, <1>4, <1>5 DEF Tidy

(* A restart finds a session on the disk and ends all tasks. *)
LEMMA RestartTidy == ASSUME IInv, Tidy, Restart PROVE Tidy'
<1>1. /\ UNCHANGED <<disk, tries>> /\ pub' = IdlePub /\ mem' = disk
      /\ crashes < MaxCrashes /\ crashes' = crashes + 1
      /\ sync' = [at |-> "ticket", s |-> disk, t |-> 0, changed |-> FALSE]
  BY DEF Restart, IdleSync
<1>2. IdlePub.at = "idle" /\ disk.we >= 1
  BY DEF IdlePub, Tidy
<1>3. crashes' \in 0 .. MaxCrashes
  BY <1>1, ClientAssumption DEF Tidy
<1>. QED
  BY <1>1, <1>2, <1>3 DEF Tidy

(* No step disturbs it. *)
LEMMA TidyStep == IInv /\ Tidy /\ [Next]_vars => Tidy'
<1>. SUFFICES ASSUME IInv, Tidy, [Next]_vars PROVE Tidy'
  OBVIOUS
<1>1. CASE Next
  BY <1>1, ServerTidy, SyncTidy, HandleSyncTidy, RosterTidy, PublishTidy, VerifyTidy,
     BuildTidy, ApplyTidy, FallbackTidy, EndTidy, RestartTidy DEF Next
<1>2. CASE UNCHANGED vars
  BY <1>2 DEF vars, Tidy
<1>. QED
  BY <1>1, <1>2

(* Sessions and tasks keep their shape; a task that ended left nothing of its  *)
(* values behind, and the interface is without a session only while the join   *)
(* is being finalized.                                                         *)
THEOREM ClientTypeCorrect == Spec => []TypeOK
<1>1. IInv /\ Tidy => TypeOK
  <2>. SUFFICES ASSUME IInv, Tidy PROVE TypeOK
    OBVIOUS
  <2>1. /\ epochs \in Seq(Epoch) /\ Len(epochs) >= 2 /\ wire \subseteq Merge /\ roster \in Roster
    BY DEF IInv, RoomOk, RestOk
  <2>2. GoodSessions \subseteq AppSession
    BY DEF GoodSessions
  <2>3. mem \in AppSession /\ disk \in AppSession
    BY <2>2 DEF IInv, RestOk
  <2>4. sync \in Sync /\ (sync.at = "idle" => sync = IdleSync)
    BY <2>2 DEF IInv, SyncOk, Sync, Tidy
  <2>5. pub \in Publish /\ (pub.at = "idle" => pub = IdlePub)
    BY <2>2 DEF IInv, PubOk, Publish, Tidy
  <2>6. mem = NoSession => pub.at # "idle" /\ pub.kind = "finalize"
    BY EpochsAreInt DEF Tidy
  <2>. QED
    BY <2>1, <2>3, <2>4, <2>5, <2>6 DEF TypeOK, Tidy
<1>. QED
  BY InitIInv, NextStep, InitTidy, TidyStep, <1>1, PTL DEF Spec
=============================================================================
