---------------------------- MODULE NativeProofs ----------------------------
(***************************************************************************)
(* Theorems about the native server: the room (NativeRoom) and the journal *)
(* it appends its epochs to (ServerJournal).  For the room, one part of    *)
(* the inductive invariant per store (lane, member index, messages, ticket *)
(* cache), each kept by every step on its own; the overlap of two epochs   *)
(* about one leaf and the stamps of requests that waited are in it.  For   *)
(* the journal, load_entries and recover_from_state are first              *)
(* characterised (they read up to the first record that is not whole, and  *)
(* replay up to the first that does not decode or carries another key), so *)
(* that the invariant and the refinement of DurableLog are about records   *)
(* and not about cursors.                                                  *)
(***************************************************************************)
EXTENDS NativeRoom, ServerJournal, FiniteSetTheorems, SequenceTheorems, NaturalsInduction,
        WellFoundedInduction, TLAPS

(* An epoch of the lane: what it did, about which leaf, and who is in. *)
EpochRecords == [kind : {"join", "leave", "refresh"}, leaf : Leaves \cup {NoLeaf},
                 members : SUBSET Leaves]

(* The last epoch about leaf l is its join. *)
JoinedLast(l) == \E i \in DOMAIN epochs :
                    /\ epochs[i].leaf = l /\ epochs[i].kind = "join"
                    /\ \A j \in DOMAIN epochs : j > i => epochs[j].leaf # l

(* The lane and what has left it.  A refresh is about no leaf. *)
LaneOk ==
    /\ clock \in 0 .. MaxClock
    /\ epochs \in Seq(EpochRecords)
    /\ \A i \in DOMAIN epochs : epochs[i].kind = "refresh" <=> epochs[i].leaf = NoLeaf
    /\ accepting \subseteq [epoch : DOMAIN epochs, next : {"commit", "clear"}]

(* A leaf that never had two epochs between the locks: the one that is there *)
(* is the last about it, and without one the index is exact.                 *)
IndexOk ==
    /\ meta \subseteq Leaves
    /\ \A l \in Leaves \ overlapped :
          /\ Uncommitted(l) = {} => (l \in meta <=> JoinedLast(l))
          /\ \A e \in Uncommitted(l) : \A j \in DOMAIN epochs : j > e => epochs[j].leaf # l

(* An epoch is indexed once: while its update is to come it has no scope and *)
(* no message, and afterwards the stamp of its bundle does not change.       *)
MessagesOk ==
    /\ scopes = DOMAIN bundles /\ scopes \subseteq DOMAIN epochs
    /\ \A e \in scopes : bundles[e] \in Nat
    /\ messages \subseteq sent
    /\ \A m \in sent : m.at \in Nat /\ m.bundled \in Nat /\ m.epoch \in DOMAIN epochs
    /\ \A a \in accepting : a.next = "commit" =>
          a.epoch \notin scopes /\ \A m \in sent : m.epoch # a.epoch
    /\ \A m \in sent : m.epoch \in scopes => bundles[m.epoch] = m.bundled
    /\ AckedMessageIsServed

(* What a ticket was built on was the room's state after its stamp. *)
Stamped(t) == t.at \in 0 .. clock /\ t.until \in Nat /\ t.at <= t.until

(* Tasks and cache entries carry sound stamps, and the cache keeps its bound. *)
CacheOk ==
    /\ merging \in [Requests -> [leaf : Leaves \cup {NoLeaf}, at : Nat, built : BOOLEAN,
                                 until : Nat]]
    /\ \A r \in Requests : /\ Stamped(merging[r])
                           /\ merging[r].built => merging[r].leaf \in Leaves
    /\ DOMAIN cache \subseteq Leaves
    /\ Cardinality(DOMAIN cache) <= CoalesceMax
    /\ \A l \in DOMAIN cache : Stamped(cache[l]) /\ cache[l] \in [at : Nat, until : Nat]

-----------------------------------------------------------------------------
(* The lane and the member index. *)

(* The steps of the lane and of the index. *)
LaneSteps ==
    \/ AcceptJoin \/ AcceptLeave \/ AcceptRefresh
    \/ \E a \in accepting : commit_accepted_bundle(a)
    \/ \E a \in accepting : clear_merge_ticket_cache(a)

(* The steps that leave the lane and the index alone. *)
OtherSteps ==
    \/ \E l \in Leaves, e \in scopes, now \in Stamps : send_message(l, e, now)
    \/ \E l \in Leaves, e \in scopes, now \in Stamps : fetch_messages(l, e, now)
    \/ \E now \in Stamps : get_bundle(now)
    \/ \E r \in Requests, l \in Leaves, now \in Stamps :
          coalesced_merge_ticket_lookup(r, l, now)
    \/ \E r \in Requests : prepare_merge_ticket(r)
    \/ \E r \in Requests : coalesced_merge_ticket_store(r)
    \/ Tick

(* The members of an epoch are leaves. *)
LEMMA EpochTyped ==
  ASSUME LaneOk, NEW i \in DOMAIN epochs
  PROVE  epochs[i] \in EpochRecords /\ epochs[i].members \subseteq Leaves
<1>1. epochs[i] \in EpochRecords
  BY DEF LaneOk
<1>. QED
  BY <1>1 DEF EpochRecords

(* The members of the latest epoch are leaves. *)
LEMMA LatestAreLeaves == ASSUME LaneOk PROVE latest_members \subseteq Leaves
<1>1. \A i \in DOMAIN epochs : epochs[i].members \subseteq Leaves
  BY EpochTyped
<1>2. epochs # << >> => Len(epochs) \in DOMAIN epochs
  BY DEF LaneOk
<1>. QED
  BY <1>1, <1>2 DEF latest_members

(* Every step that accepts an epoch appends it, about a leaf or about none. *)
LEMMA AcceptIsAppend ==
  ASSUME LaneOk, AcceptJoin \/ AcceptLeave \/ AcceptRefresh
  PROVE  \E kind, l, members :
            /\ [kind |-> kind, leaf |-> l, members |-> members] \in EpochRecords
            /\ kind = "refresh" <=> l = NoLeaf
            /\ prepare_accepted_bundle(kind, l, members)
<1>1. CASE AcceptJoin
  <2>1. PICK l \in Leaves \ latest_members, base \in JoinBases :
           l \notin base /\ prepare_accepted_bundle("join", l, base \cup {l})
    BY <1>1 DEF AcceptJoin
  <2>2. \A i \in DOMAIN epochs : epochs[i].members \subseteq Leaves
    BY EpochTyped
  <2>3. base \subseteq Leaves
    BY <2>2 DEF JoinBases, SinceMerge
  <2>. QED
    BY <2>1, <2>3, NativeRoomAssumption DEF EpochRecords
<1>2. CASE AcceptLeave
  <2>1. PICK l \in latest_members : prepare_accepted_bundle("leave", l, latest_members \ {l})
    BY <1>2 DEF AcceptLeave
  <2>. QED
    BY <2>1, LatestAreLeaves, NativeRoomAssumption DEF EpochRecords
<1>3. CASE AcceptRefresh
  BY <1>3, LatestAreLeaves DEF AcceptRefresh, EpochRecords
<1>. QED
  BY <1>1, <1>2, <1>3

(* What an acceptance does to the lane. *)
LEMMA PrepareEffect ==
  ASSUME LaneOk, NEW kind, NEW l, NEW members,
         [kind |-> kind, leaf |-> l, members |-> members] \in EpochRecords,
         kind = "refresh" <=> l = NoLeaf,
         prepare_accepted_bundle(kind, l, members)
  PROVE  /\ LaneOk'
         /\ DOMAIN epochs = 1 .. Len(epochs) /\ Len(epochs) \in Nat
         /\ DOMAIN epochs' = 1 .. Len(epochs) + 1
         /\ \A i \in DOMAIN epochs : epochs'[i] = epochs[i]
         /\ epochs'[Len(epochs) + 1].leaf = l
<1>. DEFINE rec == [kind |-> kind, leaf |-> l, members |-> members]
<1>1. epochs' = Append(epochs, rec)
  BY DEF prepare_accepted_bundle
<1>2. rec.kind = kind /\ rec.leaf = l
  OBVIOUS
<1>. HIDE DEF rec
<1>3. /\ epochs' \in Seq(EpochRecords) /\ Len(epochs') = Len(epochs) + 1
      /\ \A i \in 1 .. Len(epochs) : epochs'[i] = epochs[i]
      /\ epochs'[Len(epochs) + 1] = rec
  BY <1>1, AppendProperties DEF LaneOk, rec
<1>4. /\ DOMAIN epochs = 1 .. Len(epochs) /\ Len(epochs) \in Nat
      /\ DOMAIN epochs' = 1 .. Len(epochs) + 1
  BY <1>3 DEF LaneOk
<1>5. accepting' = accepting \cup {[epoch |-> Len(epochs) + 1, next |-> "commit"]}
      /\ clock' = clock
  BY DEF prepare_accepted_bundle
<1>6. accepting' \subseteq [epoch : DOMAIN epochs', next : {"commit", "clear"}]
  BY <1>4, <1>5 DEF LaneOk
<1>7. \A i \in DOMAIN epochs' : epochs'[i].kind = "refresh" <=> epochs'[i].leaf = NoLeaf
  BY <1>2, <1>3, <1>4 DEF LaneOk
<1>. QED
  BY <1>2, <1>3, <1>4, <1>5, <1>6, <1>7 DEF LaneOk

(* Accepting an epoch. *)
LEMMA PrepareKeepsIndex ==
  ASSUME LaneOk, IndexOk, NEW kind, NEW l, NEW members,
         [kind |-> kind, leaf |-> l, members |-> members] \in EpochRecords,
         kind = "refresh" <=> l = NoLeaf,
         prepare_accepted_bundle(kind, l, members)
  PROVE  IndexOk'
<1>. DEFINE n == Len(epochs) + 1
<1>1. /\ DOMAIN epochs = 1 .. Len(epochs) /\ Len(epochs) \in Nat
      /\ DOMAIN epochs' = 1 .. n
      /\ \A i \in DOMAIN epochs : epochs'[i] = epochs[i]
      /\ epochs'[n].leaf = l
  BY PrepareEffect
<1>2. /\ accepting' = accepting \cup {[epoch |-> n, next |-> "commit"]}
      /\ overlapped' = (IF Uncommitted(l) # {} THEN overlapped \cup {l} ELSE overlapped)
      /\ meta' = meta
  BY DEF prepare_accepted_bundle, room_state
<1>3. \A x \in accepting : x.epoch \in DOMAIN epochs
  BY DEF LaneOk
<1>4. ASSUME NEW k \in Leaves \ overlapped'
      PROVE  /\ Uncommitted(k)' = {} => (k \in meta' <=> JoinedLast(k)')
             /\ \A e \in Uncommitted(k)' : \A j \in DOMAIN epochs' : j > e => epochs'[j].leaf # k
  <2>1. k \in Leaves \ overlapped
    BY <1>2
  <2>2. CASE k = l
    <3>1. Uncommitted(k) = {}
      BY <1>2, <2>2
    <3>2. ASSUME NEW x \in accepting', x.next = "commit", epochs'[x.epoch].leaf = k
          PROVE  x.epoch = n
      <4>1. CASE x \in accepting
        BY <1>1, <1>3, <3>1, <3>2, <4>1 DEF Uncommitted
      <4>2. CASE x = [epoch |-> n, next |-> "commit"]
        BY <4>2
      <4>. QED
        BY <1>2, <4>1, <4>2
    <3>3. \A e \in Uncommitted(k)' : e = n
      BY <3>2 DEF Uncommitted
    <3>4. n \in Uncommitted(k)'
      <4>. DEFINE x == [epoch |-> n, next |-> "commit"]
      <4>1. x \in accepting' /\ x.epoch = n /\ x.next = "commit"
        BY <1>2
      <4>. QED
        BY <1>1, <2>2, <4>1 DEF Uncommitted
    <3>. QED
      BY <1>1, <3>3, <3>4
  <2>3. CASE k # l
    <3>1. Uncommitted(k)' = Uncommitted(k)
      BY <1>1, <1>2, <1>3, <2>3 DEF Uncommitted
    <3>2. JoinedLast(k)' <=> JoinedLast(k)
      BY <1>1, <2>3 DEF JoinedLast
    <3>3. ASSUME NEW e \in Uncommitted(k), NEW j \in DOMAIN epochs', j > e
          PROVE  epochs'[j].leaf # k
      BY <1>1, <2>1, <2>3, <3>3 DEF IndexOk
    <3>. QED
      BY <1>2, <2>1, <3>1, <3>2, <3>3 DEF IndexOk
  <2>. QED
    BY <2>2, <2>3
<1>. QED
  BY <1>2, <1>4 DEF IndexOk

(* An index update ends the wait of its leaf with the right entry. *)
LEMMA CommitKeepsIndex ==
  ASSUME LaneOk, IndexOk, NEW a \in accepting, commit_accepted_bundle(a)
  PROVE  LaneOk' /\ IndexOk'
<1>. DEFINE e == a.epoch
            b == [a EXCEPT !.next = "clear"]
<1>1. /\ a.next = "commit" /\ accepting' = (accepting \ {a}) \cup {b}
      /\ UNCHANGED <<clock, epochs, overlapped>>
      /\ meta' = CASE epochs[e].kind = "join"  -> meta \cup {epochs[e].leaf}
                   [] epochs[e].kind = "leave" -> meta \ {epochs[e].leaf}
                   [] OTHER -> meta
  BY DEF commit_accepted_bundle, apply_bundle_indexes
<1>2. /\ a \in [epoch : DOMAIN epochs, next : {"commit", "clear"}]
      /\ b \in [epoch : DOMAIN epochs, next : {"commit", "clear"}] /\ b.next = "clear"
  BY DEF LaneOk
<1>3. LaneOk'
  BY <1>1, <1>2 DEF LaneOk
<1>4. \A x \in accepting : x.epoch = e /\ x.next = "commit" => x = a
  BY <1>1, <1>2 DEF LaneOk
<1>5. /\ epochs[e] \in EpochRecords
      /\ epochs[e].kind = "refresh" <=> epochs[e].leaf = NoLeaf
      /\ epochs \in Seq(EpochRecords)
  BY <1>2 DEF LaneOk
<1>. HIDE DEF b
<1>6. \A k : Uncommitted(k)' = Uncommitted(k) \ {e}
  BY <1>1, <1>2, <1>4 DEF Uncommitted
<1>7. ASSUME NEW k \in Leaves \ overlapped, k = epochs[e].leaf
      PROVE  Uncommitted(k)' = {} /\ (k \in meta' <=> JoinedLast(k)')
  <2>1. e \in Uncommitted(k)
    BY <1>1, <1>7 DEF Uncommitted
  <2>2. \A j \in DOMAIN epochs : j > e => epochs[j].leaf # k
    BY <2>1 DEF IndexOk
  <2>3. ASSUME NEW d \in Uncommitted(k) PROVE d = e
    <3>1. \A j \in DOMAIN epochs : j > d => epochs[j].leaf # k
      BY DEF IndexOk
    <3>2. d \in DOMAIN epochs /\ epochs[d].leaf = k
      BY DEF Uncommitted, LaneOk
    <3>. QED
      BY <1>2, <1>5, <1>7, <2>2, <3>1, <3>2
  <2>4. k # NoLeaf /\ epochs[e].kind \in {"join", "leave"}
    BY <1>5, <1>7, NativeRoomAssumption DEF EpochRecords
  <2>5. JoinedLast(k)' <=> epochs[e].kind = "join"
    <3>1. epochs[e].kind = "join" => JoinedLast(k)
      BY <1>2, <1>7, <2>2 DEF JoinedLast
    <3>2. JoinedLast(k) => epochs[e].kind = "join"
      BY <1>2, <1>5, <1>7, <2>2 DEF JoinedLast
    <3>. QED
      BY <1>1, <3>1, <3>2 DEF JoinedLast
  <2>6. k \in meta' <=> epochs[e].kind = "join"
    BY <1>1, <1>7, <2>4
  <2>. QED
    BY <1>6, <2>3, <2>5, <2>6
<1>8. ASSUME NEW k \in Leaves \ overlapped, k # epochs[e].leaf
      PROVE  /\ Uncommitted(k)' = Uncommitted(k) /\ (k \in meta' <=> k \in meta)
             /\ JoinedLast(k)' <=> JoinedLast(k)
  <2>1. e \notin Uncommitted(k)
    BY <1>8 DEF Uncommitted
  <2>. QED
    BY <1>1, <1>6, <1>8, <2>1 DEF JoinedLast
<1>9. meta' \subseteq Leaves
  <2>1. epochs[e].kind = "join" => epochs[e].leaf \in Leaves
    BY <1>5, NativeRoomAssumption DEF EpochRecords
  <2>. QED
    BY <1>1, <2>1 DEF IndexOk
<1>10. ASSUME NEW k \in Leaves \ overlapped'
       PROVE  /\ Uncommitted(k)' = {} => (k \in meta' <=> JoinedLast(k)')
              /\ \A d \in Uncommitted(k)' : \A j \in DOMAIN epochs' : j > d => epochs'[j].leaf # k
  <2>1. CASE k = epochs[e].leaf
    BY <1>1, <1>7, <2>1
  <2>2. CASE k # epochs[e].leaf
    BY <1>1, <1>8, <2>2 DEF IndexOk
  <2>. QED
    BY <2>1, <2>2
<1>. QED
  BY <1>3, <1>9, <1>10 DEF IndexOk

(* Clearing the cache is the end of an acceptance that waits for no index. *)
LEMMA ClearKeepsIndex ==
  ASSUME LaneOk, IndexOk, NEW a \in accepting, clear_merge_ticket_cache(a)
  PROVE  LaneOk' /\ IndexOk'
<1>1. /\ a.next = "clear" /\ accepting' = accepting \ {a}
      /\ UNCHANGED <<clock, epochs, overlapped, meta>>
  BY DEF clear_merge_ticket_cache, room_state
<1>2. \A k : Uncommitted(k)' = Uncommitted(k)
  BY <1>1 DEF Uncommitted
<1>3. \A k : JoinedLast(k)' <=> JoinedLast(k)
  BY <1>1 DEF JoinedLast
<1>. QED
  BY <1>1, <1>2, <1>3 DEF LaneOk, IndexOk

(* The other requests touch neither. *)
LEMMA OtherKeepIndex ==
  ASSUME LaneOk, IndexOk, OtherSteps \/ UNCHANGED vars
  PROVE  LaneOk' /\ IndexOk'
<1>1. /\ UNCHANGED <<epochs, accepting, meta, overlapped>>
      /\ clock' = clock \/ (clock < MaxClock /\ clock' = clock + 1)
  BY DEF OtherSteps, vars, room_state, send_message, fetch_messages, get_bundle,
         coalesced_merge_ticket_lookup, prepare_merge_ticket, coalesced_merge_ticket_store, Tick
<1>2. \A k : Uncommitted(k)' = Uncommitted(k)
  BY <1>1 DEF Uncommitted
<1>3. \A k : JoinedLast(k)' <=> JoinedLast(k)
  BY <1>1 DEF JoinedLast
<1>4. LaneOk'
  BY <1>1, NativeRoomAssumption DEF LaneOk
<1>. QED
  BY <1>1, <1>2, <1>3, <1>4 DEF IndexOk

(* Every step is one of the lane or another one. *)
LEMMA StepKinds == Next <=> LaneSteps \/ OtherSteps
  BY DEF Next, LaneSteps, OtherSteps

(* No step disturbs the lane or the index. *)
LEMMA NextKeepsIndex ==
  ASSUME LaneOk, IndexOk, [Next]_vars
  PROVE  LaneOk' /\ IndexOk'
<1>1. CASE AcceptJoin \/ AcceptLeave \/ AcceptRefresh
  <2>1. PICK kind, l, members :
            /\ [kind |-> kind, leaf |-> l, members |-> members] \in EpochRecords
            /\ kind = "refresh" <=> l = NoLeaf
            /\ prepare_accepted_bundle(kind, l, members)
    BY <1>1, AcceptIsAppend
  <2>. QED
    BY <2>1, PrepareEffect, PrepareKeepsIndex
<1>2. CASE OtherSteps \/ UNCHANGED vars
  BY <1>2, OtherKeepIndex
<1>. QED
  BY <1>1, <1>2, StepKinds, CommitKeepsIndex, ClearKeepsIndex DEF LaneSteps

-----------------------------------------------------------------------------
(* Messages, scopes and bundles. *)

(* A handler's stamp is not in the future; what is within the retention now  *)
(* is not below the cutoff of a stamp.                                       *)
LEMMA CutoffSpares ==
  ASSUME LaneOk, NEW now \in Stamps
  PROVE  /\ now \in Nat /\ now <= clock /\ cutoff(now) \in Nat /\ cutoff(now) <= now
         /\ \A t \in Nat : clock - t <= Retention => t >= cutoff(now)
<1>1. clock \in Nat /\ Retention \in Nat /\ now \in Nat /\ now <= clock
  BY NativeRoomAssumption DEF LaneOk, Stamps
<1>. QED
  BY <1>1 DEF cutoff

(* The bundle of a message within its retention is not pruned. *)
LEMMA BundleSpared ==
  ASSUME LaneOk, MessagesOk, NEW now \in Stamps, NEW m \in sent,
         clock - m.at <= Retention, clock - m.bundled <= Retention
  PROVE  m \in messages /\ m.epoch \in scopes /\ m.epoch \notin expired_bundles(now)
<1>1. m \in messages /\ m.epoch \in scopes /\ bundles[m.epoch] = m.bundled /\ m.bundled \in Nat
  BY DEF MessagesOk, AckedMessageIsServed
<1>2. m.bundled >= cutoff(now) /\ cutoff(now) \in Nat
  BY <1>1, CutoffSpares
<1>. QED
  BY <1>1, <1>2 DEF expired_bundles

(* Neither is the message. *)
LEMMA MessageSpared ==
  ASSUME LaneOk, NEW now \in Stamps, NEW ms, NEW m \in ms, m.at \in Nat,
         clock - m.at <= Retention
  PROVE  m \in prune_messages(ms, now)
  BY CutoffSpares DEF prune_messages

(* Pruning only removes. *)
LEMMA PruneIsSubset == ASSUME NEW ms, NEW now PROVE prune_messages(ms, now) \subseteq ms
  BY DEF prune_messages

(* A new epoch has no scope and no message before its update is stored. *)
LEMMA PrepareKeepsMessages ==
  ASSUME LaneOk, MessagesOk, NEW kind, NEW l, NEW members,
         [kind |-> kind, leaf |-> l, members |-> members] \in EpochRecords,
         kind = "refresh" <=> l = NoLeaf,
         prepare_accepted_bundle(kind, l, members)
  PROVE  MessagesOk'
<1>. DEFINE n == Len(epochs) + 1
            x == [epoch |-> n, next |-> "commit"]
<1>1. /\ DOMAIN epochs = 1 .. Len(epochs) /\ Len(epochs) \in Nat
      /\ DOMAIN epochs' = 1 .. n
  BY PrepareEffect
<1>2. /\ accepting' = accepting \cup {x} /\ x.epoch = n
      /\ UNCHANGED <<clock, scopes, bundles, messages, sent>>
  BY DEF prepare_accepted_bundle, room_state
<1>3. n \notin DOMAIN epochs /\ DOMAIN epochs \subseteq DOMAIN epochs'
  BY <1>1
<1>4. ASSUME NEW a \in accepting', a.next = "commit"
      PROVE  a.epoch \notin scopes /\ \A m \in sent : m.epoch # a.epoch
  BY <1>2, <1>3, <1>4 DEF MessagesOk
<1>5. AckedMessageIsServed'
  BY <1>2 DEF MessagesOk, AckedMessageIsServed
<1>. QED
  BY <1>2, <1>3, <1>4, <1>5 DEF MessagesOk

(* Storing the update gives the epoch its scope and its stamp, once, and drops *)
(* expired bundles with their scopes.                                          *)
LEMMA CommitKeepsMessages ==
  ASSUME LaneOk, MessagesOk, NEW a \in accepting, commit_accepted_bundle(a)
  PROVE  MessagesOk'
<1>. DEFINE e == a.epoch
            b == [a EXCEPT !.next = "clear"]
<1>1. PICK now \in Stamps : apply_bundle_indexes(e, now)
  BY DEF commit_accepted_bundle
<1>2. /\ a.next = "commit" /\ accepting' = (accepting \ {a}) \cup {b}
      /\ UNCHANGED <<clock, epochs, sent>>
  BY DEF commit_accepted_bundle
<1>3. /\ a \in [epoch : DOMAIN epochs, next : {"commit", "clear"}] /\ b.next = "clear"
      /\ \A x \in accepting : x.epoch = e /\ x.next = "commit" => x = a
  BY <1>2 DEF LaneOk
<1>4. e \in DOMAIN epochs /\ e \notin scopes /\ \A m \in sent : m.epoch # e
  BY <1>2, <1>3 DEF MessagesOk
<1>. HIDE DEF b
<1>. DEFINE gone == expired_bundles(now)
<1>5. gone \subseteq DOMAIN bundles
  BY DEF expired_bundles
<1>6. /\ scopes' = (scopes \cup {e}) \ gone
      /\ bundles' = Insert(Restrict(bundles, DOMAIN bundles \ gone), e, now)
      /\ messages' = messages
  BY <1>1 DEF apply_bundle_indexes
<1>. HIDE DEF gone
<1>7. /\ DOMAIN bundles' = (DOMAIN bundles \ gone) \cup {e}
      /\ bundles'[e] = now
      /\ \A x \in DOMAIN bundles \ gone : x # e => bundles'[x] = bundles[x]
  BY <1>6 DEF Insert, Restrict
<1>8. scopes' = DOMAIN bundles' /\ scopes' \subseteq scopes \cup {e}
  BY <1>4, <1>5, <1>6, <1>7 DEF MessagesOk
<1>9. \A x \in scopes' : bundles'[x] \in Nat
  BY <1>4, <1>5, <1>7, <1>8, CutoffSpares DEF MessagesOk
<1>10. ASSUME NEW y \in accepting', y.next = "commit"
       PROVE  y.epoch \notin scopes' /\ \A m \in sent : m.epoch # y.epoch
  <2>1. y \in accepting /\ y # a
    BY <1>2, <1>3, <1>10
  <2>2. y.epoch # e
    BY <1>3, <1>10, <2>1
  <2>. QED
    BY <1>8, <1>10, <2>1, <2>2 DEF MessagesOk
<1>11. \A m \in sent : m.epoch \in scopes' => bundles'[m.epoch] = m.bundled
  BY <1>4, <1>5, <1>6, <1>7 DEF MessagesOk
<1>12. ASSUME NEW m \in sent, clock - m.at <= Retention, clock - m.bundled <= Retention
       PROVE  m \in messages' /\ m.epoch \in scopes'
  BY <1>6, <1>12, BundleSpared DEF gone
<1>13. AckedMessageIsServed'
  BY <1>2, <1>12 DEF AckedMessageIsServed
<1>14. /\ scopes' \subseteq DOMAIN epochs' /\ messages' \subseteq sent'
       /\ \A m \in sent' : m.at \in Nat /\ m.bundled \in Nat /\ m.epoch \in DOMAIN epochs'
  BY <1>2, <1>4, <1>6, <1>8 DEF MessagesOk
<1>. QED
  BY <1>2, <1>8, <1>9, <1>10, <1>11, <1>13, <1>14 DEF MessagesOk

(* A message is stored under the stamp its bundle has; what it prunes is *)
(* expired.                                                              *)
LEMMA SendKeepsMessages ==
  ASSUME LaneOk, MessagesOk, NEW l \in Leaves, NEW e \in scopes, NEW now \in Stamps,
         send_message(l, e, now)
  PROVE  MessagesOk'
<1>. DEFINE m == [epoch |-> e, at |-> now, bundled |-> bundles[e]]
<1>1. /\ messages' = prune_messages(messages \cup {m}, now) /\ sent' = sent \cup {m}
      /\ UNCHANGED <<clock, epochs, accepting, scopes, bundles>>
  BY DEF send_message
<1>2. m.epoch = e /\ m.at = now /\ m.bundled = bundles[e]
  OBVIOUS
<1>. HIDE DEF m
<1>3. now \in Nat /\ cutoff(now) \in Nat /\ cutoff(now) <= now /\ bundles[e] \in Nat
      /\ e \in DOMAIN epochs
  BY CutoffSpares DEF MessagesOk
<1>4. m \in messages'
  BY <1>1, <1>2, <1>3 DEF prune_messages
<1>5. messages' \subseteq sent'
  BY <1>1, PruneIsSubset DEF MessagesOk
<1>6. ASSUME NEW x \in sent', clock - x.at <= Retention, clock - x.bundled <= Retention
      PROVE  x \in messages' /\ x.epoch \in scopes
  <2>1. CASE x = m
    BY <1>2, <1>4, <2>1
  <2>2. CASE x \in sent
    <3>1. x \in messages /\ x.epoch \in scopes /\ x.at \in Nat
      BY <1>6, <2>2 DEF MessagesOk, AckedMessageIsServed
    <3>. QED
      BY <1>1, <1>6, <3>1, MessageSpared
  <2>. QED
    BY <1>1, <2>1, <2>2
<1>7. AckedMessageIsServed'
  BY <1>1, <1>6 DEF AckedMessageIsServed
<1>8. \A x \in sent' : x.at \in Nat /\ x.bundled \in Nat /\ x.epoch \in DOMAIN epochs
  BY <1>1, <1>2, <1>3 DEF MessagesOk
<1>9. \A x \in sent' : x.epoch \in scopes => bundles[x.epoch] = x.bundled
  BY <1>1, <1>2 DEF MessagesOk
<1>10. \A a \in accepting : a.next = "commit" =>
          a.epoch \notin scopes /\ \A x \in sent' : x.epoch # a.epoch
  BY <1>1, <1>2 DEF MessagesOk
<1>. QED
  BY <1>1, <1>5, <1>7, <1>8, <1>9, <1>10 DEF MessagesOk

(* A fetch prunes messages, the expired ones only. *)
LEMMA FetchKeepsMessages ==
  ASSUME LaneOk, MessagesOk, NEW l \in Leaves, NEW e \in scopes, NEW now \in Stamps,
         fetch_messages(l, e, now)
  PROVE  MessagesOk'
<1>1. /\ messages' = prune_messages(messages, now)
      /\ UNCHANGED <<clock, epochs, accepting, scopes, bundles, sent>>
  BY DEF fetch_messages
<1>2. messages' \subseteq sent
  BY <1>1, PruneIsSubset DEF MessagesOk
<1>3. ASSUME NEW x \in sent, clock - x.at <= Retention, clock - x.bundled <= Retention
      PROVE  x \in messages' /\ x.epoch \in scopes
  <2>1. x \in messages /\ x.epoch \in scopes /\ x.at \in Nat
    BY <1>3 DEF MessagesOk, AckedMessageIsServed
  <2>. QED
    BY <1>1, <1>3, <2>1, MessageSpared
<1>4. AckedMessageIsServed'
  BY <1>1, <1>3 DEF AckedMessageIsServed
<1>. QED
  BY <1>1, <1>2, <1>4 DEF MessagesOk

(* A read of a bundle drops expired bundles with their scopes. *)
LEMMA GetBundleKeepsMessages ==
  ASSUME LaneOk, MessagesOk, NEW now \in Stamps, get_bundle(now)
  PROVE  MessagesOk'
<1>. DEFINE gone == expired_bundles(now)
<1>1. /\ scopes' = scopes \ gone
      /\ bundles' = Restrict(bundles, DOMAIN bundles \ gone)
      /\ UNCHANGED <<clock, epochs, accepting, messages, sent>>
  BY DEF get_bundle
<1>2. \A m \in sent : clock - m.at <= Retention /\ clock - m.bundled <= Retention =>
          m \in messages /\ m.epoch \in scopes /\ m.epoch \notin gone
  BY BundleSpared
<1>. HIDE DEF gone
<1>3. /\ DOMAIN bundles' = DOMAIN bundles \ gone
      /\ \A x \in DOMAIN bundles' : bundles'[x] = bundles[x]
  BY <1>1 DEF Restrict
<1>4. AckedMessageIsServed'
  BY <1>1, <1>2 DEF AckedMessageIsServed
<1>. QED
  BY <1>1, <1>3, <1>4 DEF MessagesOk

(* No step disturbs the messages and the scopes. *)
LEMMA NextKeepsMessages ==
  ASSUME LaneOk, MessagesOk, [Next]_vars
  PROVE  MessagesOk'
<1>1. CASE AcceptJoin \/ AcceptLeave \/ AcceptRefresh
  <2>1. PICK kind, l, members :
            /\ [kind |-> kind, leaf |-> l, members |-> members] \in EpochRecords
            /\ kind = "refresh" <=> l = NoLeaf
            /\ prepare_accepted_bundle(kind, l, members)
    BY <1>1, AcceptIsAppend
  <2>. QED
    BY <2>1, PrepareKeepsMessages
<1>2. ASSUME NEW a \in accepting, clear_merge_ticket_cache(a) PROVE MessagesOk'
  <2>1. accepting' \subseteq accepting /\ UNCHANGED <<clock, epochs, room_state, sent>>
    BY <1>2 DEF clear_merge_ticket_cache
  <2>. QED
    BY <2>1 DEF room_state, MessagesOk, AckedMessageIsServed
<1>3. CASE Tick
  <2>1. /\ clock' = clock + 1 /\ clock \in Nat /\ Retention \in Nat
        /\ UNCHANGED <<epochs, accepting, room_state, sent>>
    BY <1>3, NativeRoomAssumption DEF Tick, LaneOk
  <2>2. ASSUME NEW m \in sent, clock' - m.at <= Retention, clock' - m.bundled <= Retention
        PROVE  m \in messages /\ m.epoch \in scopes
    <3>1. m.at \in Nat /\ m.bundled \in Nat
      BY DEF MessagesOk
    <3>2. clock - m.at <= Retention /\ clock - m.bundled <= Retention
      BY <2>1, <2>2, <3>1
    <3>. QED
      BY <3>2 DEF MessagesOk, AckedMessageIsServed
  <2>3. AckedMessageIsServed'
    BY <2>1, <2>2 DEF AckedMessageIsServed, room_state
  <2>. QED
    BY <2>1, <2>3 DEF MessagesOk, room_state
<1>4. ASSUME \/ UNCHANGED vars
             \/ \E r \in Requests, l \in Leaves, now \in Stamps :
                   coalesced_merge_ticket_lookup(r, l, now)
             \/ \E r \in Requests : prepare_merge_ticket(r)
             \/ \E r \in Requests : coalesced_merge_ticket_store(r)
      PROVE  MessagesOk'
  <2>1. UNCHANGED <<clock, epochs, accepting, scopes, bundles, messages, sent>>
    BY <1>4 DEF vars, room_state, coalesced_merge_ticket_lookup, prepare_merge_ticket,
                coalesced_merge_ticket_store
  <2>. QED
    BY <2>1 DEF MessagesOk, AckedMessageIsServed
<1>. QED
  BY <1>1, <1>2, <1>3, <1>4, CommitKeepsMessages, SendKeepsMessages, FetchKeepsMessages,
     GetBundleKeepsMessages DEF Next

-----------------------------------------------------------------------------
(* The cache of leave tickets. *)

(* A lookup in progress, and an entry of the cache. *)
Tasks == [leaf : Leaves \cup {NoLeaf}, at : Nat, built : BOOLEAN, until : Nat]
Entries == [at : Nat, until : Nat]

(* A cache within its bound whose entries outlived their stamps. *)
GoodCache(c) ==
    /\ DOMAIN c \subseteq Leaves
    /\ Cardinality(DOMAIN c) <= CoalesceMax
    /\ \A l \in DOMAIN c : Stamped(c[l]) /\ c[l] \in Entries

(* The cache of the room is a good one. *)
LEMMA CacheIsGood == CacheOk => GoodCache(cache)
  BY DEF CacheOk, GoodCache, Entries

(* Becoming outdated now is later than the stamp. *)
LEMMA OutdatedStamped ==
  ASSUME LaneOk, NEW t, Stamped(t), t \in Tasks \/ t \in Entries
  PROVE  /\ Stamped(Outdated(t))
         /\ t \in Tasks => Outdated(t) \in Tasks
         /\ t \in Entries => Outdated(t) \in Entries
         /\ t \in Tasks => Outdated(t).leaf = t.leaf /\ Outdated(t).built = t.built
<1>1. clock \in Nat /\ MaxClock \in Nat
  BY NativeRoomAssumption DEF LaneOk
<1>2. CASE t \in Tasks
  <2>1. Outdated(t) \in Tasks /\ Outdated(t).at = t.at
        /\ Outdated(t).until = (IF t.until = Never THEN clock ELSE t.until)
        /\ Outdated(t).leaf = t.leaf /\ Outdated(t).built = t.built
    BY <1>1, <1>2 DEF Outdated, Tasks
  <2>2. t \notin Entries
    BY <1>2 DEF Tasks, Entries
  <2>. QED
    BY <1>1, <2>1, <2>2 DEF Stamped
<1>3. CASE t \in Entries
  <2>1. Outdated(t) \in Entries /\ Outdated(t).at = t.at
        /\ Outdated(t).until = (IF t.until = Never THEN clock ELSE t.until)
    BY <1>1, <1>3 DEF Outdated, Entries
  <2>2. t \notin Tasks
    BY <1>3 DEF Tasks, Entries
  <2>. QED
    BY <1>1, <2>1, <2>2 DEF Stamped
<1>. QED
  BY <1>2, <1>3

(* A new epoch outdates what is built and what is cached, at its own time. *)
LEMMA PrepareKeepsCache ==
  ASSUME LaneOk, CacheOk, NEW kind, NEW l, NEW members,
         prepare_accepted_bundle(kind, l, members)
  PROVE  CacheOk'
<1>1. /\ merging' = [r \in Requests |-> IF merging[r].built THEN Outdated(merging[r])
                                                            ELSE merging[r]]
      /\ cache' = [x \in DOMAIN cache |-> Outdated(cache[x])]
      /\ clock' = clock
  BY DEF prepare_accepted_bundle
<1>2. \A t : Stamped(t)' <=> Stamped(t)
  BY <1>1 DEF Stamped
<1>3. ASSUME NEW r \in Requests
      PROVE  merging'[r] \in Tasks /\ Stamped(merging'[r])
             /\ (merging'[r].built => merging'[r].leaf \in Leaves)
  <2>1. merging[r] \in Tasks /\ Stamped(merging[r])
        /\ (merging[r].built => merging[r].leaf \in Leaves)
    BY DEF CacheOk, Tasks
  <2>2. merging'[r] = IF merging[r].built THEN Outdated(merging[r]) ELSE merging[r]
    BY <1>1
  <2>. QED
    BY <2>1, <2>2, OutdatedStamped
<1>4. DOMAIN cache' = DOMAIN cache
  BY <1>1
<1>5. ASSUME NEW k \in DOMAIN cache PROVE Stamped(cache'[k]) /\ cache'[k] \in Entries
  <2>1. Stamped(cache[k]) /\ cache[k] \in Entries
    BY DEF CacheOk, Entries
  <2>. QED
    BY <1>1, <2>1, OutdatedStamped
<1>6. merging' \in [Requests -> Tasks]
  <2>1. DOMAIN merging' = Requests /\ merging' = [r \in Requests |-> merging'[r]]
    BY <1>1
  <2>. QED
    BY <1>3, <2>1
<1>. QED
  BY <1>2, <1>3, <1>4, <1>5, <1>6 DEF CacheOk, Tasks, Entries

(* Dropping entries keeps a good cache good. *)
LEMMA RestrictGood ==
  ASSUME NEW c, GoodCache(c), NEW D \in SUBSET (DOMAIN c)
  PROVE  GoodCache(Restrict(c, D)) /\ DOMAIN Restrict(c, D) = D
<1>1. DOMAIN Restrict(c, D) = D /\ \A x \in D : Restrict(c, D)[x] = c[x]
  BY DEF Restrict
<1>2. IsFiniteSet(DOMAIN c)
  BY FS_Subset, NativeRoomAssumption DEF GoodCache
<1>3. Cardinality(D) <= Cardinality(DOMAIN c) /\ Cardinality(D) \in Nat
      /\ Cardinality(DOMAIN c) \in Nat
  BY <1>2, FS_Subset, FS_CardinalityType
<1>4. CoalesceMax \in Nat
  BY NativeRoomAssumption
<1>. QED
  BY <1>1, <1>3, <1>4 DEF GoodCache

(* An insertion makes room first. *)
LEMMA InsertedGood ==
  ASSUME NEW live, GoodCache(live), NEW l \in Leaves, NEW entry \in Entries, Stamped(entry),
         NEW c \in Inserted(live, l, entry)
  PROVE  GoodCache(c)
<1>0. CoalesceMax \in Nat /\ CoalesceMax > 0
  BY NativeRoomAssumption
<1>1. IsFiniteSet(DOMAIN live) /\ Cardinality(DOMAIN live) \in Nat
  BY FS_Subset, FS_CardinalityType, NativeRoomAssumption DEF GoodCache
<1>2. PICK kept : /\ c = Insert(kept, l, entry)
                  /\ \/ /\ l \in DOMAIN live \/ Cardinality(DOMAIN live) < CoalesceMax
                        /\ kept = live
                     \/ /\ l \notin DOMAIN live
                        /\ \E x \in DOMAIN live : kept = Restrict(live, DOMAIN live \ {x})
  BY DEF Inserted
<1>3. GoodCache(kept) /\ (l \in DOMAIN kept \/ Cardinality(DOMAIN kept) < CoalesceMax)
  <2>1. CASE kept = live
    <3>1. CASE l \in DOMAIN live \/ Cardinality(DOMAIN live) < CoalesceMax
      BY <2>1, <3>1
    <3>2. CASE /\ l \notin DOMAIN live
               /\ \E x \in DOMAIN live : kept = Restrict(live, DOMAIN live \ {x})
      BY <2>1, <3>2 DEF Restrict
    <3>. QED
      BY <1>2, <3>1, <3>2
  <2>2. ASSUME NEW x \in DOMAIN live, kept = Restrict(live, DOMAIN live \ {x})
        PROVE  GoodCache(kept) /\ Cardinality(DOMAIN kept) < CoalesceMax
    <3>1. GoodCache(kept) /\ DOMAIN kept = DOMAIN live \ {x}
      BY <2>2, RestrictGood
    <3>2. Cardinality(DOMAIN kept) = Cardinality(DOMAIN live) - 1
      BY <1>1, <3>1, FS_RemoveElement
    <3>. QED
      BY <1>0, <1>1, <3>1, <3>2 DEF GoodCache
  <2>. QED
    BY <1>2, <2>1, <2>2
<1>4. /\ DOMAIN c = DOMAIN kept \cup {l}
      /\ \A x \in DOMAIN c : c[x] = IF x = l THEN entry ELSE kept[x]
  BY <1>2 DEF Insert
<1>5. IsFiniteSet(DOMAIN kept) /\ Cardinality(DOMAIN kept) \in Nat
  BY <1>3, FS_Subset, FS_CardinalityType, NativeRoomAssumption DEF GoodCache
<1>6. Cardinality(DOMAIN c) <= CoalesceMax
  <2>1. Cardinality(DOMAIN c) = IF l \in DOMAIN kept THEN Cardinality(DOMAIN kept)
                                                      ELSE Cardinality(DOMAIN kept) + 1
    BY <1>4, <1>5, FS_AddElement
  <2>. QED
    BY <1>0, <1>3, <1>5, <2>1 DEF GoodCache
<1>. QED
  BY <1>3, <1>4, <1>6 DEF GoodCache

(* What the retain of the lookup leaves is good. *)
LEMMA LiveGood ==
  ASSUME CacheOk, NEW now PROVE GoodCache(LiveEntries(now))
  BY CacheIsGood, RestrictGood DEF LiveEntries

(* A lookup drops the dead entries and may start a task. *)
LEMMA LookupKeepsCache ==
  ASSUME LaneOk, CacheOk, NEW r \in Requests, NEW l \in Leaves, NEW now \in Stamps,
         coalesced_merge_ticket_lookup(r, l, now)
  PROVE  CacheOk'
<1>. DEFINE t == [leaf |-> l, at |-> now, built |-> FALSE, until |-> Never]
<1>1. /\ cache' = LiveEntries(now) /\ clock' = clock
      /\ merging' = merging \/ merging' = [merging EXCEPT ![r] = t]
  BY DEF coalesced_merge_ticket_lookup
<1>2. /\ clock \in Nat /\ MaxClock \in Nat /\ clock <= MaxClock
      /\ now \in Nat /\ now <= clock
  BY NativeRoomAssumption, CutoffSpares DEF LaneOk
<1>3. t \in Tasks /\ t.at = now /\ t.until = MaxClock + 1 /\ t.built = FALSE
  <2>. DEFINE n == MaxClock + 1
  <2>0. n \in Nat
    BY <1>2
  <2>. HIDE DEF n
  <2>2. t = [leaf |-> l, at |-> now, built |-> FALSE, until |-> n]
    BY DEF n, Never
  <2>. HIDE DEF t
  <2>3. t \in Tasks
    BY <1>2, <2>0, <2>2 DEF Tasks
  <2>4. t.at = now /\ t.until = n /\ t.built = FALSE
    BY <2>2
  <2>. QED
    BY <2>3, <2>4 DEF n
<1>4. \A x : Stamped(x)' <=> Stamped(x)
  BY <1>1 DEF Stamped
<1>. HIDE DEF t
<1>5. Stamped(t)
  BY <1>2, <1>3 DEF Stamped
<1>6. /\ merging' \in [Requests -> Tasks]
      /\ \A x \in Requests : Stamped(merging'[x]) /\ (merging'[x].built => merging'[x].leaf \in Leaves)
  BY <1>1, <1>3, <1>5 DEF CacheOk, Tasks
<1>7. GoodCache(cache')
  BY <1>1, LiveGood
<1>. QED
  BY <1>4, <1>6, <1>7 DEF CacheOk, GoodCache, Tasks, Entries

(* A ticket is built on the state of the moment, after the stamp of its task. *)
LEMMA BuildKeepsCache ==
  ASSUME LaneOk, CacheOk, NEW r \in Requests, prepare_merge_ticket(r)
  PROVE  CacheOk'
<1>. DEFINE t == merging[r]
<1>1. /\ cache' = cache /\ clock' = clock
      /\ merging' = [merging EXCEPT ![r] = IF @.leaf \in latest_members
                                           THEN [@ EXCEPT !.built = TRUE] ELSE NoTask]
  BY DEF prepare_merge_ticket
<1>2. clock \in Nat /\ MaxClock \in Nat /\ clock <= MaxClock
  BY NativeRoomAssumption DEF LaneOk
<1>3. t \in Tasks /\ Stamped(t)
  BY DEF CacheOk, Tasks
<1>4. NoTask \in Tasks /\ Stamped(NoTask) /\ ~NoTask.built
  BY <1>2 DEF NoTask, Tasks, Stamped, Never
<1>. DEFINE u == [t EXCEPT !.built = TRUE]
<1>5. u \in Tasks /\ Stamped(u) /\ u.leaf = t.leaf
  BY <1>3 DEF Tasks, Stamped
<1>6. merging' = [merging EXCEPT ![r] = IF t.leaf \in latest_members THEN u ELSE NoTask]
      /\ DOMAIN merging = Requests
  BY <1>1 DEF CacheOk
<1>7. \A x : Stamped(x)' <=> Stamped(x)
  BY <1>1 DEF Stamped
<1>. HIDE DEF u
<1>8. /\ merging' \in [Requests -> Tasks]
      /\ \A x \in Requests : Stamped(merging'[x]) /\ (merging'[x].built => merging'[x].leaf \in Leaves)
  BY <1>4, <1>5, <1>6, LatestAreLeaves DEF CacheOk, Tasks
<1>. QED
  BY <1>1, <1>7, <1>8 DEF CacheOk, Tasks

(* A store evicts until there is room, so the cache keeps its bound. *)
LEMMA StoreKeepsCache ==
  ASSUME LaneOk, CacheOk, NEW r \in Requests, coalesced_merge_ticket_store(r)
  PROVE  CacheOk'
<1>. DEFINE t == merging[r]
            entry == [at |-> t.at, until |-> t.until]
<1>1. /\ cache' \in Inserted(LiveEntries(t.at), t.leaf, entry) /\ clock' = clock /\ t.built
      /\ merging' = [merging EXCEPT ![r] = NoTask]
  BY DEF coalesced_merge_ticket_store
<1>2. clock \in Nat /\ MaxClock \in Nat /\ clock <= MaxClock
  BY NativeRoomAssumption DEF LaneOk
<1>3. t \in Tasks /\ Stamped(t) /\ t.leaf \in Leaves
  BY <1>1 DEF CacheOk, Tasks
<1>4. entry \in Entries /\ Stamped(entry)
  BY <1>3 DEF Tasks, Entries, Stamped
<1>. HIDE DEF entry
<1>5. GoodCache(cache')
  BY <1>1, <1>3, <1>4, LiveGood, InsertedGood
<1>6. NoTask \in Tasks /\ Stamped(NoTask) /\ ~NoTask.built
  BY <1>2 DEF NoTask, Tasks, Stamped, Never
<1>7. /\ merging' \in [Requests -> Tasks]
      /\ \A x \in Requests : Stamped(merging'[x]) /\ (merging'[x].built => merging'[x].leaf \in Leaves)
  BY <1>1, <1>6 DEF CacheOk, Tasks
<1>8. \A x : Stamped(x)' <=> Stamped(x)
  BY <1>1 DEF Stamped
<1>. QED
  BY <1>5, <1>7, <1>8 DEF CacheOk, GoodCache, Tasks, Entries

(* No step disturbs the tasks and the cache. *)
LEMMA NextKeepsCache ==
  ASSUME LaneOk, CacheOk, [Next]_vars
  PROVE  CacheOk'
<1>1. CASE AcceptJoin \/ AcceptLeave \/ AcceptRefresh
  <2>1. PICK kind, l, members : prepare_accepted_bundle(kind, l, members)
    BY <1>1, AcceptIsAppend
  <2>. QED
    BY <2>1, PrepareKeepsCache
<1>2. ASSUME NEW a \in accepting, clear_merge_ticket_cache(a) PROVE CacheOk'
  <2>1. cache' = << >> /\ UNCHANGED <<clock, merging>>
    BY <1>2 DEF clear_merge_ticket_cache
  <2>2. DOMAIN cache' = {}
    BY <2>1
  <2>3. Cardinality({}) <= CoalesceMax
    BY FS_EmptySet, NativeRoomAssumption
  <2>. QED
    BY <2>1, <2>2, <2>3 DEF CacheOk, Stamped
<1>3. CASE Tick
  <2>1. clock' = clock + 1 /\ clock \in Nat /\ UNCHANGED <<merging, cache>>
    BY <1>3 DEF Tick, LaneOk
  <2>2. \A x : Stamped(x) => Stamped(x)'
    BY <2>1 DEF Stamped
  <2>. QED
    BY <2>1, <2>2 DEF CacheOk
<1>4. ASSUME \/ UNCHANGED vars
             \/ \E a \in accepting : commit_accepted_bundle(a)
             \/ \E l \in Leaves, e \in scopes, now \in Stamps : send_message(l, e, now)
             \/ \E l \in Leaves, e \in scopes, now \in Stamps : fetch_messages(l, e, now)
             \/ \E now \in Stamps : get_bundle(now)
      PROVE  CacheOk'
  <2>1. UNCHANGED <<clock, merging, cache>>
    BY <1>4 DEF vars, commit_accepted_bundle, send_message, fetch_messages, get_bundle
  <2>. QED
    BY <2>1 DEF CacheOk, Stamped
<1>. QED
  BY <1>1, <1>2, <1>3, <1>4, LookupKeepsCache, BuildKeepsCache, StoreKeepsCache DEF Next

-----------------------------------------------------------------------------
(* The inductive invariant of the native room. *)
RoomInv == LaneOk /\ IndexOk /\ MessagesOk /\ CacheOk

(* An empty room satisfies it. *)
LEMMA InitRoomInv == Init => RoomInv
<1>. SUFFICES ASSUME Init PROVE RoomInv
  OBVIOUS
<1>0. {MaxClock, CoalesceMax, Retention} \subseteq Nat
  BY NativeRoomAssumption
<1>1. DOMAIN epochs = {} /\ DOMAIN bundles = {} /\ DOMAIN cache = {}
  BY DEF Init
<1>2. LaneOk
  BY <1>0, <1>1 DEF Init, LaneOk
<1>3. IndexOk
  BY <1>1 DEF Init, IndexOk, Uncommitted, JoinedLast
<1>4. MessagesOk
  BY <1>1 DEF Init, MessagesOk, AckedMessageIsServed
<1>5. CacheOk
  <2>1. Cardinality({}) <= CoalesceMax
    BY <1>0, FS_EmptySet
  <2>2. NoTask \in Tasks /\ Stamped(NoTask) /\ ~NoTask.built
    BY <1>0 DEF NoTask, Tasks, Stamped, Never, Init
  <2>3. merging = [r \in Requests |-> NoTask]
    BY DEF Init
  <2>. QED
    BY <1>1, <2>1, <2>2, <2>3 DEF CacheOk, Tasks
<1>. QED
  BY <1>2, <1>3, <1>4, <1>5 DEF RoomInv

(* It holds in every state. *)
LEMMA RoomInvariant == Spec => []RoomInv
<1>1. RoomInv /\ [Next]_vars => RoomInv'
  BY NextKeepsIndex, NextKeepsMessages, NextKeepsCache DEF RoomInv
<1>. QED
  BY <1>1, InitRoomInv, PTL DEF Spec

(* Lane, index, message store and ticket cache keep their types, the cache    *)
(* never holds more than its maximum of entries (coalesced_merge_ticket_store *)
(* evicts), and every request in progress names an epoch of the lane.         *)
THEOREM NativeTypeCorrect == Spec => []TypeOK
<1>1. RoomInv => TypeOK
  BY DEF RoomInv, LaneOk, IndexOk, MessagesOk, CacheOk, TypeOK, EpochRecords
<1>. QED
  BY <1>1, RoomInvariant, PTL

(* Once commit_accepted_bundle has run for all epochs about a leaf, the member *)
(* index says what the lane says of it, for any number of requests between the *)
(* two locks, unless two epochs about this leaf were between them at once.     *)
THEOREM NativeIndexFollowsLane == Spec => []IndexFollowsLane
<1>1. RoomInv => IndexFollowsLane
  BY DEF RoomInv, IndexOk, IndexFollowsLane, JoinedLast
<1>. QED
  BY <1>1, RoomInvariant, PTL

(* A leave ticket coalesced_merge_ticket_lookup answers from the cache is out *)
(* of date by the TTL at most, for every TTL and cache size and however       *)
(* requests and epochs interleave with the build of the ticket.               *)
THEOREM NativeTicketIsRecent == Spec => []CachedTicketIsRecent
<1>1. RoomInv => CachedTicketIsRecent
  <2>. SUFFICES ASSUME RoomInv, NEW now \in Stamps, NEW l \in DOMAIN LiveEntries(now)
                PROVE  cache[l].until + CoalesceTtl >= now
    BY DEF CachedTicketIsRecent
  <2>1. l \in DOMAIN cache /\ now - cache[l].at <= CoalesceTtl
    BY DEF LiveEntries, Restrict
  <2>2. Stamped(cache[l]) /\ now \in Nat /\ CoalesceTtl \in Nat
    BY <2>1, CutoffSpares, NativeRoomAssumption DEF RoomInv, CacheOk
  <2>. QED
    BY <2>1, <2>2 DEF Stamped
<1>. QED
  BY <1>1, RoomInvariant, PTL

(* A message send_message acknowledged can be fetched until its retention or *)
(* the one of its bundle is over, whichever stamps the requests carry that   *)
(* prune in between.                                                         *)
THEOREM NativeMessageIsServed == Spec => []AckedMessageIsServed
<1>1. RoomInv => AckedMessageIsServed
  BY DEF RoomInv, MessagesOk
<1>. QED
  BY <1>1, RoomInvariant, PTL

-----------------------------------------------------------------------------
(* A set of numbers has a least one. *)
LEMMA Least ==
  ASSUME NEW S \in SUBSET Nat, S # {}
  PROVE  \E m \in S : \A k \in S : m <= k
<1>. DEFINE LT == OpToRel(LAMBDA x, y : x < y, Nat)
<1>1. PICK m \in S : \A y \in S : ~(<<y, m>> \in LT)
  BY NatLessThanWellFounded, WFMin
<1>2. \A y \in S : ~(y < m)
  BY <1>1 DEF OpToRel
<1>. QED
  BY <1>2

(* A record is its length prefix and its body, and neither is empty. *)
LEMMA Lengths ==
  PrefixLen = 2 /\ BodyLen \in Nat /\ BodyLen > 0 /\ RecordLen \in Nat /\ RecordLen > 2
    /\ RecordLen = PrefixLen + BodyLen
  BY JournalAssumption DEF PrefixLen, RecordLen

(* Record k + 1 begins where record k ends. *)
LEMMA StartStep ==
  ASSUME NEW k \in Nat
  PROVE  /\ Start(k + 1) \in Nat /\ Start(k + 1) = k * RecordLen /\ Start(k + 1) >= k
         /\ Start(k + 2) = Start(k + 1) + RecordLen /\ Start(1) = 0
<1>. DEFINE R == RecordLen
<1>1. R \in Nat /\ R > 2
  BY Lengths
<1>. HIDE DEF R
<1>2. ((k + 1) - 1) * R = k * R /\ k * R \in Nat /\ ((k + 2) - 1) * R = k * R + R
  BY <1>1
<1>3. k * R >= k /\ (1 - 1) * R = 0
  BY <1>1
<1>. QED
  BY <1>2, <1>3 DEF R, Start

(* Record k begins at a cell, k - 1 at the earliest. *)
LEMMA StartNat ==
  ASSUME NEW k \in Nat \ {0} PROVE Start(k) \in Nat /\ Start(k) >= k - 1
<1>1. k - 1 \in Nat /\ k = (k - 1) + 1
  OBVIOUS
<1>. QED
  BY <1>1, StartStep

(* The body of record k. *)
Payload(f, k) == SubSeq(f, Start(k) + PrefixLen + 1, Start(k) + RecordLen)

(* load_entries reads up to the first record that is not whole. *)
LEMMA LoadEffect ==
  ASSUME NEW f \in Seq(Cells)
  PROVE  \E n \in 0..Len(f) : /\ \A k \in 1..n : Whole(f, k)
                              /\ ~ Whole(f, n + 1)
                              /\ load_entries(f) = [k \in 1..n |-> Payload(f, k)]
<1>. DEFINE S == {m \in Nat : ~ Whole(f, m + 1)}
            P(m) == (\A k \in 1..m : Whole(f, k)) /\ ~ Whole(f, m + 1)
<1>0. Len(f) \in Nat
  OBVIOUS
<1>1. Len(f) \in S
  BY <1>0, StartStep, Lengths DEF Whole
<1>2. PICK m \in S : \A k \in S : m <= k
  <2>1. S \in SUBSET Nat /\ S # {}
    BY <1>1
  <2>. HIDE DEF S
  <2>. QED
    BY <2>1, Least
<1>3. m \in 0..Len(f) /\ ~ Whole(f, m + 1)
  BY <1>0, <1>1, <1>2
<1>4. ASSUME NEW k \in 1..m PROVE Whole(f, k)
  <2>1. k - 1 \in Nat /\ ~(m <= k - 1) /\ (k - 1) + 1 = k
    BY <1>3
  <2>. QED
    BY <1>2, <2>1
<1>5. \E n \in 0..Len(f) : P(n)
  BY <1>3, <1>4
<1>. DEFINE n == CHOOSE x \in 0..Len(f) : P(x)
<1>6. n \in 0..Len(f) /\ P(n)
  BY <1>5
<1>7. load_entries(f) = [k \in 1..n |-> Payload(f, k)]
  BY DEF load_entries, Payload
<1>. QED
  BY <1>6, <1>7

(* A whole record whose payload decodes to e is the record of e. *)
LEMMA RecordRead ==
  ASSUME NEW f \in Seq(Cells), NEW k \in Nat \ {0}, NEW e \in Epochs
  PROVE  HasRecord(f, k, e) <=> Whole(f, k) /\ Decodes(Payload(f, k), e)
<1>. DEFINE st == Start(k)
            body == [i \in 1..BodyLen |-> <<"body", e, i>>]
<1>0. st \in Nat /\ Len(f) \in Nat
  BY StartNat
<1>. HIDE DEF st
<1>1. SUFFICES ASSUME st + RecordLen <= Len(f)
               PROVE  (\A i \in 1..RecordLen : f[st + i] = Record(e)[i])
                        <=> IsPrefixAt(f, st) /\ Payload(f, k) = body
  BY DEF HasRecord, Whole, Decodes, st
<1>2. /\ Payload(f, k) \in Seq(Cells) /\ Len(Payload(f, k)) = BodyLen
      /\ \A i \in 1..BodyLen : Payload(f, k)[i] = f[st + PrefixLen + i]
  <2>. DEFINE a == st + PrefixLen + 1
              b == st + RecordLen
  <2>1. a \in 1..Len(f) + 1 /\ b \in a - 1..Len(f) /\ b - a + 1 = BodyLen
    BY <1>0, <1>1, Lengths
  <2>2. /\ SubSeq(f, a, b) \in Seq(Cells) /\ Len(SubSeq(f, a, b)) = b - a + 1
        /\ \A i \in 1..(b - a + 1) : SubSeq(f, a, b)[i] = f[a + i - 1]
    BY <2>1, SubSeqProperties
  <2>3. \A i \in 1..BodyLen : a + i - 1 = st + PrefixLen + i
    BY <1>0, Lengths
  <2>. QED
    BY <2>1, <2>2, <2>3 DEF Payload, st
<1>3. Payload(f, k) = body <=> \A i \in 1..BodyLen : f[st + PrefixLen + i] = <<"body", e, i>>
  <2>. DEFINE p == Payload(f, k)
  <2>1. DOMAIN p = 1..BodyLen /\ p = [i \in DOMAIN p |-> p[i]]
    BY <1>2, Lengths
  <2>2. \A i \in 1..BodyLen : p[i] = f[st + PrefixLen + i]
    BY <1>2
  <2>. HIDE DEF p
  <2>3. p = body <=> \A i \in 1..BodyLen : p[i] = <<"body", e, i>>
    BY <2>1
  <2>. QED
    BY <2>2, <2>3 DEF p
<1>4. /\ \A i \in 1..PrefixLen : i \in 1..RecordLen /\ Record(e)[i] = <<"len", i>>
      /\ \A i \in 1..BodyLen : PrefixLen + i \in 1..RecordLen
                               /\ Record(e)[PrefixLen + i] = <<"body", e, i>>
  BY Lengths DEF Record
<1>5. \A i \in 1..RecordLen : i \in 1..PrefixLen \/ \E x \in 1..BodyLen : i = PrefixLen + x
  <2>1. ASSUME NEW i \in 1..RecordLen, i \notin 1..PrefixLen
        PROVE  i - PrefixLen \in 1..BodyLen /\ i = PrefixLen + (i - PrefixLen)
    BY <2>1, Lengths
  <2>. QED
    BY <2>1
<1>6. \A x \in 1..BodyLen : st + (PrefixLen + x) = st + PrefixLen + x
  BY <1>0, Lengths
<1>. HIDE DEF body
<1>7. ASSUME \A i \in 1..RecordLen : f[st + i] = Record(e)[i]
      PROVE  IsPrefixAt(f, st) /\ Payload(f, k) = body
  <2>1. IsPrefixAt(f, st)
    BY <1>4, <1>7 DEF IsPrefixAt
  <2>2. ASSUME NEW x \in 1..BodyLen PROVE f[st + PrefixLen + x] = <<"body", e, x>>
    BY <1>4, <1>6, <1>7
  <2>. QED
    BY <1>3, <2>1, <2>2
<1>8. ASSUME IsPrefixAt(f, st), Payload(f, k) = body, NEW i \in 1..RecordLen
      PROVE  f[st + i] = Record(e)[i]
  <2>1. CASE i \in 1..PrefixLen
    BY <1>4, <1>8, <2>1 DEF IsPrefixAt
  <2>2. ASSUME NEW x \in 1..BodyLen, i = PrefixLen + x PROVE f[st + i] = Record(e)[i]
    <3>1. f[st + PrefixLen + x] = <<"body", e, x>>
      BY <1>3, <1>8
    <3>. QED
      BY <1>4, <1>6, <2>2, <3>1
  <2>. QED
    BY <1>5, <2>1, <2>2
<1>. QED
  BY <1>7, <1>8

(* The epochs of s are the first records of f, each once. *)
Replayed(f, s) ==
    /\ s \in Seq(Epochs)
    /\ \A k \in 1..Len(s) : HasRecord(f, k, s[k])
    /\ \A j, k \in 1..Len(s) : s[j] = s[k] => j = k

(* And what follows them is not another one. *)
Stops(f, s) ==
    \A e \in Epochs : HasRecord(f, Len(s) + 1, e) => \E k \in 1..Len(s) : s[k] = e

(* A payload is the encoding of one epoch only. *)
LEMMA DecodesOne ==
  ASSUME NEW raw, NEW a, NEW b, Decodes(raw, a), Decodes(raw, b)
  PROVE  a = b
<1>1. 1 \in 1..BodyLen
  BY Lengths
<1>2. raw[1] = <<"body", a, 1>> /\ raw[1] = <<"body", b, 1>>
  BY <1>1 DEF Decodes
<1>. QED
  BY <1>2

(* A record stands for one epoch. *)
LEMMA RecordOfOne ==
  ASSUME NEW f \in Seq(Cells), NEW k \in Nat \ {0}, NEW a \in Epochs, NEW b \in Epochs,
         HasRecord(f, k, a), HasRecord(f, k, b)
  PROVE  a = b
  BY RecordRead, DecodesOne

(* Journaled is the longest sequence of distinct epochs whose records begin *)
(* the file.                                                                *)
LEMMA RecoverEffect ==
  ASSUME NEW f \in Seq(Cells)
  PROVE  Replayed(f, Journaled(f)) /\ Stops(f, Journaled(f))
<1>. DEFINE raws == load_entries(f)
<1>1. PICK N \in 0..Len(f) : /\ \A k \in 1..N : Whole(f, k)
                             /\ ~ Whole(f, N + 1)
                             /\ raws = [k \in 1..N |-> Payload(f, k)]
  BY LoadEffect
<1>2. N \in Nat /\ Len(raws) = N /\ \A k \in 1..N : raws[k] = Payload(f, k)
  <2>1. Len(f) \in Nat
    OBVIOUS
  <2>2. N \in Nat
    BY <2>1
  <2>. QED
    BY <1>1, <2>2
<1>. HIDE DEF raws
<1>. DEFINE P(m) == Replayable(raws, m) /\ (m = Len(raws) \/ ~ Replayable(raws, m + 1))
            S == {m \in Nat : m = N \/ ~ Replayable(raws, m + 1)}
<1>3. \E m \in 0..Len(raws) : P(m)
  <2>1. S \in SUBSET Nat /\ N \in S
    BY <1>2
  <2>2. PICK m \in S : \A k \in S : m <= k
    <3>. HIDE DEF S
    <3>. QED
      BY <2>1, Least
  <2>3. m \in 0..N
    <3>. HIDE DEF S
    <3>. QED
      BY <1>2, <2>1, <2>2
  <2>4. Replayable(raws, m)
    <3>1. CASE m = 0
      BY <3>1 DEF Replayable
    <3>2. CASE m # 0
      <4>1. m - 1 \in Nat /\ m - 1 \notin S /\ (m - 1) + 1 = m
        BY <2>2, <2>3, <3>2
      <4>. QED
        BY <4>1
    <3>. QED
      BY <3>1, <3>2
  <2>. QED
    BY <1>2, <2>2, <2>3, <2>4
<1>. DEFINE n == CHOOSE m \in 0..Len(raws) : P(m)
            s == [k \in 1..n |-> CHOOSE e \in Epochs : Decodes(raws[k], e)]
<1>4. n \in 0..Len(raws) /\ P(n)
  BY <1>3
<1>5. Journaled(f) = s
  BY DEF Journaled, raws
<1>. HIDE DEF n
<1>6. n \in Nat /\ n <= N
  BY <1>2, <1>4
<1>7. ASSUME NEW k \in 1..n
      PROVE  /\ s[k] \in Epochs /\ Decodes(raws[k], s[k]) /\ HasRecord(f, k, s[k])
  <2>1. \E e \in Epochs : Decodes(raws[k], e)
    BY <1>4 DEF Replayable
  <2>2. s[k] \in Epochs /\ Decodes(raws[k], s[k])
    BY <2>1
  <2>3. k \in 1..N /\ k \in Nat \ {0}
    BY <1>6, <1>2
  <2>. QED
    BY <1>1, <1>2, <2>2, <2>3, RecordRead
<1>8. DOMAIN s = 1..n
  OBVIOUS
<1>. HIDE DEF s
<1>9. s \in Seq(Epochs) /\ Len(s) = n
  <2>1. s \in [1..n -> Epochs]
    BY <1>7, <1>8 DEF s
  <2>. QED
    BY <1>6, <2>1
<1>10. ASSUME NEW j \in 1..n, NEW k \in 1..n, s[j] = s[k] PROVE j = k
  <2>1. raws[j] = raws[k]
    BY <1>7, <1>10 DEF Decodes
  <2>. QED
    BY <1>4, <2>1 DEF Replayable
<1>11. ASSUME NEW e \in Epochs, HasRecord(f, n + 1, e), ~ \E k \in 1..n : s[k] = e
       PROVE  FALSE
  <2>1. Whole(f, n + 1) /\ Decodes(Payload(f, n + 1), e)
    BY <1>6, <1>11, RecordRead
  <2>2. n # N /\ n + 1 \in 1..N
    BY <1>1, <1>2, <1>6, <2>1
  <2>3. Decodes(raws[n + 1], e)
    BY <1>2, <2>1, <2>2
  <2>4. ~ Replayable(raws, n + 1)
    BY <1>2, <1>4, <2>2
  <2>5. \A k \in 1..(n + 1) : k \in 1..n \/ k = n + 1
    BY <1>6
  <2>6. \A k \in 1..n : raws[k] # raws[n + 1]
    BY <1>7, <1>11, <2>3, DecodesOne
  <2>. QED
    BY <1>4, <2>3, <2>4, <2>5, <2>6 DEF Replayable
<1>. QED
  BY <1>5, <1>7, <1>9, <1>10, <1>11 DEF Replayed, Stops

(* Every other one is a first part of it. *)
LEMMA ReplayedIsPrefix ==
  ASSUME NEW f \in Seq(Cells), NEW s, NEW t, Replayed(f, s), Stops(f, s), Replayed(f, t)
  PROVE  Len(t) <= Len(s) /\ \A k \in 1..Len(t) : t[k] = s[k]
<1>0. s \in Seq(Epochs) /\ t \in Seq(Epochs) /\ Len(s) \in Nat /\ Len(t) \in Nat
  BY DEF Replayed
<1>1. ASSUME NEW k \in 1..Len(t), k <= Len(s) PROVE t[k] = s[k]
  <2>1. k \in Nat \ {0} /\ k \in 1..Len(s) /\ t[k] \in Epochs /\ s[k] \in Epochs
    BY <1>0, <1>1
  <2>2. HasRecord(f, k, s[k]) /\ HasRecord(f, k, t[k])
    BY <2>1 DEF Replayed
  <2>. QED
    BY <2>1, <2>2, RecordOfOne
<1>2. ASSUME Len(t) > Len(s) PROVE FALSE
  <2>. DEFINE n == Len(s) + 1
  <2>1. n \in 1..Len(t) /\ t[n] \in Epochs
    BY <1>0, <1>2
  <2>2. PICK k \in 1..Len(s) : s[k] = t[n]
    BY <2>1 DEF Stops, Replayed
  <2>3. k \in 1..Len(t) /\ t[k] = t[n] /\ k # n
    BY <1>0, <1>1, <1>2, <2>2
  <2>. QED
    BY <2>1, <2>3 DEF Replayed
<1>. QED
  BY <1>0, <1>1, <1>2

(* What is replayed up to where the file stops is what is recovered. *)
LEMMA RecoverUnique ==
  ASSUME NEW f \in Seq(Cells), NEW s, Replayed(f, s), Stops(f, s)
  PROVE  Journaled(f) = s
<1>. DEFINE t == Journaled(f)
<1>1. Replayed(f, t) /\ Stops(f, t)
  BY RecoverEffect
<1>. HIDE DEF t
<1>2. s \in Seq(Epochs) /\ t \in Seq(Epochs) /\ Len(s) \in Nat /\ Len(t) \in Nat
  BY <1>1 DEF Replayed
<1>3. Len(t) <= Len(s) /\ \A k \in 1..Len(t) : t[k] = s[k]
  BY <1>1, ReplayedIsPrefix
<1>4. Len(s) <= Len(t)
  BY <1>1, ReplayedIsPrefix
<1>5. s = t
  BY <1>2, <1>3, <1>4, SeqEqual
<1>. QED
  BY <1>5 DEF t

-----------------------------------------------------------------------------
(* Files that begin alike. *)

(* File f begins with file b. *)
Begins(b, f) == Len(b) <= Len(f) /\ \A i \in 1..Len(b) : f[i] = b[i]

(* A record of the shorter file is one of the longer, and one of the longer *)
(* that lies in the shorter is one of it.                                   *)
LEMMA BeginsRecords ==
  ASSUME NEW b \in Seq(Cells), NEW f \in Seq(Cells), Begins(b, f),
         NEW k \in Nat \ {0}, NEW e \in Epochs
  PROVE  /\ HasRecord(b, k, e) => HasRecord(f, k, e)
         /\ HasRecord(f, k, e) /\ Start(k) + RecordLen <= Len(b) => HasRecord(b, k, e)
<1>1. Start(k) \in Nat /\ RecordLen \in Nat /\ Len(b) \in Nat /\ Len(f) \in Nat
  BY StartNat, Lengths
<1>2. Start(k) + RecordLen <= Len(b) =>
        \A i \in 1..RecordLen : Start(k) + i \in 1..Len(b)
  BY <1>1
<1>3. ASSUME HasRecord(b, k, e) PROVE HasRecord(f, k, e)
  <2>1. Start(k) + RecordLen <= Len(b) /\ Start(k) + RecordLen <= Len(f)
    BY <1>1, <1>3 DEF HasRecord, Begins
  <2>. QED
    BY <1>2, <1>3, <2>1 DEF HasRecord, Begins
<1>4. ASSUME HasRecord(f, k, e), Start(k) + RecordLen <= Len(b) PROVE HasRecord(b, k, e)
  BY <1>2, <1>4 DEF HasRecord, Begins
<1>. QED
  BY <1>3, <1>4

(* What a file replays, every longer one replays. *)
LEMMA BeginsReplayed ==
  ASSUME NEW b \in Seq(Cells), NEW f \in Seq(Cells), Begins(b, f), NEW s, Replayed(b, s)
  PROVE  Replayed(f, s)
<1>1. s \in Seq(Epochs)
  BY DEF Replayed
<1>2. ASSUME NEW k \in 1..Len(s) PROVE HasRecord(f, k, s[k])
  <2>1. k \in Nat \ {0} /\ s[k] \in Epochs /\ HasRecord(b, k, s[k])
    BY <1>1 DEF Replayed
  <2>. QED
    BY <2>1, BeginsRecords
<1>. QED
  BY <1>2 DEF Replayed

(* A longer file replays what the shorter one does, and possibly more. *)
LEMMA BeginsRecover ==
  ASSUME NEW b \in Seq(Cells), NEW f \in Seq(Cells), Begins(b, f)
  PROVE  Begins(Journaled(b), Journaled(f))
<1>1. Replayed(f, Journaled(b))
  BY RecoverEffect, BeginsReplayed
<1>2. Replayed(f, Journaled(f)) /\ Stops(f, Journaled(f))
  BY RecoverEffect
<1>. QED
  BY <1>1, <1>2, ReplayedIsPrefix DEF Begins

(* What is replayed fits in the file. *)
LEMMA ReplayFits ==
  ASSUME NEW f \in Seq(Cells), NEW s, Replayed(f, s)
  PROVE  /\ Len(s) \in Nat /\ Start(Len(s) + 1) \in Nat /\ Start(Len(s) + 1) <= Len(f)
         /\ Start(Len(s) + 1) = Len(s) * RecordLen /\ Len(s) <= Len(f)
<1>1. s \in Seq(Epochs) /\ Len(s) \in Nat /\ Len(f) \in Nat
  BY DEF Replayed
<1>2. /\ Start(Len(s) + 1) \in Nat /\ Start(Len(s) + 1) = Len(s) * RecordLen
      /\ Start(Len(s) + 1) >= Len(s)
  BY <1>1, StartStep
<1>3. CASE Len(s) = 0
  BY <1>1, <1>2, <1>3, StartStep
<1>4. CASE Len(s) # 0
  <2>1. Start(Len(s)) + RecordLen <= Len(f)
    BY <1>1, <1>4 DEF Replayed, HasRecord
  <2>2. Len(s) - 1 \in Nat /\ (Len(s) - 1) + 1 = Len(s) /\ (Len(s) - 1) + 2 = Len(s) + 1
    BY <1>1, <1>4
  <2>3. Start(Len(s) + 1) = Start(Len(s)) + RecordLen
    BY <2>2, StartStep
  <2>. QED
    BY <1>1, <1>2, <2>1, <2>3
<1>. QED
  BY <1>3, <1>4

(* A file is clean exactly if all of it is replayed. *)
LEMMA CleanIsReplayed ==
  ASSUME NEW f \in Seq(Cells)
  PROVE  Clean(f) <=> Len(f) = Start(Len(Journaled(f)) + 1)
<1>. DEFINE r == Journaled(f)
<1>1. Replayed(f, r) /\ Stops(f, r)
  BY RecoverEffect
<1>. HIDE DEF r
<1>2. r \in Seq(Epochs) /\ Len(f) \in Nat
  BY <1>1 DEF Replayed
<1>3. ASSUME Len(f) = Start(Len(r) + 1) PROVE Clean(f)
  <2>1. Len(r) \in 0..Len(f) /\ Len(f) = Len(r) * RecordLen
    BY <1>1, <1>2, <1>3, ReplayFits
  <2>2. \A k \in 1..Len(r) : r[k] \in Epochs /\ HasRecord(f, k, r[k])
    BY <1>1, <1>2 DEF Replayed
  <2>3. ASSUME NEW j \in 1..Len(r), NEW k \in 1..Len(r), NEW e \in Epochs,
               HasRecord(f, j, e), HasRecord(f, k, e)
        PROVE  j = k
    <3>1. j \in Nat \ {0} /\ k \in Nat \ {0}
      BY <2>1
    <3>2. r[j] = e /\ r[k] = e
      BY <2>2, <2>3, <3>1, RecordOfOne
    <3>. QED
      BY <1>1, <3>2 DEF Replayed
  <2>. QED
    BY <2>1, <2>2, <2>3 DEF Clean
<1>4. ASSUME Clean(f) PROVE Len(f) = Start(Len(r) + 1)
  <2>1. PICK n \in 0..Len(f) :
           /\ Len(f) = n * RecordLen
           /\ \A k \in 1..n : \E e \in Epochs : HasRecord(f, k, e)
           /\ \A j, k \in 1..n : \A e \in Epochs :
                 HasRecord(f, j, e) /\ HasRecord(f, k, e) => j = k
    BY <1>4 DEF Clean
  <2>2. n \in Nat
    BY <1>2
  <2>. DEFINE s == [k \in 1..n |-> CHOOSE e \in Epochs : HasRecord(f, k, e)]
  <2>3. \A k \in 1..n : s[k] \in Epochs /\ HasRecord(f, k, s[k])
    BY <2>1
  <2>4. s \in Seq(Epochs) /\ Len(s) = n
    <3>1. s \in [1..n -> Epochs]
      BY <2>3
    <3>. HIDE DEF s
    <3>. QED
      BY <2>2, <3>1
  <2>. HIDE DEF s
  <2>5. \A j, k \in 1..n : s[j] = s[k] => j = k
    BY <2>1, <2>3
  <2>6. Replayed(f, s)
    BY <2>3, <2>4, <2>5 DEF Replayed
  <2>7. Len(f) = Start(n + 1)
    BY <2>1, <2>2, StartStep
  <2>8. Stops(f, s)
    BY <1>2, <2>4, <2>7, Lengths DEF Stops, HasRecord
  <2>9. r = s
    BY <2>6, <2>8, RecoverUnique DEF r
  <2>. QED
    BY <2>4, <2>7, <2>9
<1>. QED
  BY <1>3, <1>4 DEF r

-----------------------------------------------------------------------------
(* A file with w more cells, the first of the record of e. *)
Extended(b, f, e, w) ==
    /\ Len(f) = Len(b) + w /\ Begins(b, f)
    /\ \A i \in 1..w : f[Len(b) + i] = Record(e)[i]

(* Cells after an unfinished record are never replayed: they are not where *)
(* a record's own cells would be.  Nor is a part of a record, or a second  *)
(* record of the same epoch.                                               *)
LEMMA NothingMore ==
  ASSUME NEW b \in Seq(Cells), NEW f \in Seq(Cells), NEW e \in Epochs, NEW w \in 0..RecordLen,
         Extended(b, f, e, w),
         w < RecordLen \/ ~ Clean(b) \/ \E k \in 1..Len(Journaled(b)) :
                                           Journaled(b)[k] = e
  PROVE  Journaled(f) = Journaled(b)
<1>. DEFINE s == Journaled(b)
            n == Len(s)
            R == RecordLen
<1>1. Replayed(b, s) /\ Stops(b, s)
  BY RecoverEffect
<1>2. Replayed(f, s)
  BY <1>1, BeginsReplayed DEF Extended
<1>3. /\ n \in Nat /\ Start(n + 1) \in Nat /\ Start(n + 1) <= Len(b) /\ Len(b) \in Nat
      /\ R \in Nat /\ R > 2 /\ w \in Nat /\ w <= R /\ Len(f) = Len(b) + w
  BY <1>1, ReplayFits, Lengths DEF Extended
<1>4. Clean(b) <=> Len(b) = Start(n + 1)
  BY CleanIsReplayed
<1>5. w < R \/ ~ Clean(b) \/ \E k \in 1..n : s[k] = e
  OBVIOUS
<1>. HIDE DEF s, n, R
<1>6. ASSUME NEW x \in Epochs, HasRecord(f, n + 1, x) PROVE \E k \in 1..n : s[k] = x
  <2>0. Start(n + 1) + R <= Len(f)
    BY <1>6 DEF HasRecord, R
  <2>1. /\ Start(n + 1) + R <= Len(f)
        /\ \A i \in 1..R : f[Start(n + 1) + i] = Record(x)[i]
    BY <1>6 DEF HasRecord, R
  <2>2. CASE Start(n + 1) + R <= Len(b)
    <3>1. HasRecord(b, n + 1, x)
      <4>1. Begins(b, f)
        BY DEF Extended
      <4>2. n + 1 \in Nat \ {0}
        BY <1>3
      <4>3. Start(n + 1) + RecordLen <= Len(b)
        BY <2>2 DEF R
      <4>. QED
        BY <1>6, <4>1, <4>2, <4>3, BeginsRecords
    <3>. QED
      BY <1>1, <3>1 DEF Stops, n
  <2>3. CASE Start(n + 1) = Len(b)
    <3>1. w = R /\ \E k \in 1..n : s[k] = e
      <4>1. w = R
        BY ONLY <1>3, <2>0, <2>3
      <4>2. Clean(b)
        BY <1>4, <2>3
      <4>3. ~(w < R)
        BY <1>3, <4>1
      <4>. QED
        BY <1>5, <4>1, <4>2, <4>3
    <3>2. HasRecord(f, n + 1, e)
      BY <1>3, <2>1, <2>3, <3>1 DEF HasRecord, Extended, R
    <3>3. n + 1 \in Nat \ {0}
      BY <1>3
    <3>4. x = e
      BY <1>6, <3>2, <3>3, RecordOfOne
    <3>. QED
      BY <3>1, <3>4
  <2>4. CASE Start(n + 1) < Len(b) /\ Len(b) < Start(n + 1) + R
    <3>. DEFINE i == Len(b) - Start(n + 1) + 1
    <3>0. Start(n + 1) + R <= Len(b) + w
      BY <1>3, <2>1
    <3>. DEFINE p == Start(n + 1)
                q == Len(b)
    <3>1. Start(n + 1) + i = Len(b) + 1 /\ 1 \in 1..w /\ i \in 1..R /\ i # 1
      <4>1. p \in Nat /\ q \in Nat /\ p < q /\ q < p + R /\ p + R <= q + w
            /\ R \in Nat /\ w \in Nat
        BY <1>3, <2>4, <3>0
      <4>. HIDE DEF p, q
      <4>2. p + (q - p + 1) = q + 1 /\ q - p + 1 \in 1..R /\ q - p + 1 # 1 /\ 1 \in 1..w
        BY <4>1
      <4>. QED
        BY <4>2 DEF p, q
    <3>2. f[Len(b) + 1] = Record(e)[1] /\ f[Len(b) + 1] = Record(x)[i]
      BY <2>1, <3>1 DEF Extended
    <3>. HIDE DEF i
    <3>3. Record(e)[1] = <<"len", 1>>
      BY <1>3, Lengths DEF Record
    <3>4. Record(x)[i] # <<"len", 1>>
      <4>1. Record(x)[i] = IF i <= PrefixLen THEN <<"len", i>> ELSE <<"body", x, i - PrefixLen>>
        BY <3>1 DEF Record, R
      <4>2. <<"body", x, i - PrefixLen>> # <<"len", 1>>
        OBVIOUS
      <4>3. <<"len", i>> # <<"len", 1>>
        BY <3>1
      <4>. QED
        BY <4>1, <4>2, <4>3
    <3>. QED
      BY <3>2, <3>3, <3>4
  <2>. QED
    BY <1>3, <2>2, <2>3, <2>4
<1>7. Stops(f, s)
  BY <1>6 DEF Stops, n
<1>. QED
  BY <1>2, <1>7, RecoverUnique DEF s

(* A new epoch's record at the end of a clean file is replayed last. *)
LEMMA OneMore ==
  ASSUME NEW b \in Seq(Cells), NEW f \in Seq(Cells), NEW e \in Epochs,
         Extended(b, f, e, RecordLen), Clean(b),
         ~ \E k \in 1..Len(Journaled(b)) : Journaled(b)[k] = e
  PROVE  Journaled(f) = Append(Journaled(b), e) /\ Clean(f)
<1>. DEFINE s == Journaled(b)
            n == Len(s)
            t == Append(s, e)
<1>1. Replayed(b, s) /\ Stops(b, s) /\ Len(b) = Start(n + 1)
  BY RecoverEffect, CleanIsReplayed
<1>2. Replayed(f, s)
  BY <1>1, BeginsReplayed DEF Extended
<1>3. s \in Seq(Epochs) /\ n \in Nat /\ RecordLen \in Nat /\ RecordLen > 2
  BY <1>1, Lengths DEF Replayed
<1>4. ~ \E k \in 1..n : s[k] = e
  OBVIOUS
<1>. HIDE DEF s
<1>5. /\ t \in Seq(Epochs) /\ Len(t) = n + 1 /\ t[n + 1] = e
      /\ \A k \in 1..n : t[k] = s[k]
  BY <1>3
<1>6. Start(n + 1) \in Nat /\ Start(n + 2) = Start(n + 1) + RecordLen
      /\ Len(f) = Start(n + 2)
  BY <1>1, <1>3, StartStep DEF Extended
<1>7. HasRecord(f, n + 1, e)
  BY <1>1, <1>6 DEF HasRecord, Extended
<1>. HIDE DEF n, t
<1>8. \A k \in 1..(n + 1) : k \in 1..n \/ k = n + 1
  BY <1>3
<1>9. Replayed(f, t)
  BY <1>2, <1>4, <1>5, <1>7, <1>8 DEF Replayed, n
<1>10. Stops(f, t)
  <2>1. (n + 1) + 1 = n + 2
    BY <1>3
  <2>. QED
    BY <1>3, <1>5, <1>6, <2>1 DEF Stops, HasRecord
<1>11. Journaled(f) = t
  BY <1>9, <1>10, RecoverUnique
<1>12. Clean(f)
  <2>1. (n + 1) + 1 = n + 2
    BY <1>3
  <2>. QED
    BY <1>5, <1>6, <1>11, <2>1, CleanIsReplayed
<1>. QED
  BY <1>11, <1>12 DEF t, s

-----------------------------------------------------------------------------
(* The journal's invariant. *)

(* What a crash leaves at least, and the file before the running append. *)
SyncedPart == SubSeq(file, 1, synced)
Base == SubSeq(file, 1, Len(file) - Written)

(* The safe epochs are in s in the order of their acknowledgements. *)
InOrder(s) ==
    \A i, j \in DOMAIN acked : i <= j /\ {acked[i], acked[j]} \subseteq safe =>
        \E k, l \in DOMAIN s : k <= l /\ s[k] = acked[i] /\ s[l] = acked[j]

(* w cells of the record of e are written, after everything that is synced. *)
InProgress(e, w) ==
    /\ Len(pending) = RecordLen - w
    /\ \A i \in 1..(RecordLen - w) : pending[i] = Record(e)[w + i]
    /\ synced + w <= Len(file)
    /\ \A i \in 1..w : file[Len(file) - w + i] = Record(e)[i]
    /\ e \notin Range(memory) \cup Range(acked)
    /\ sealed[e] = key

(* The inductive invariant of the journal: the cells of the running append are *)
(* written behind the synced part, and the synced part alone recovers every    *)
(* epoch acknowledged while the journal was clean, in order.                   *)
JournalInv ==
    /\ JournalTypeOK
    /\ pending # << >> => \E e \in Epochs, w \in 0..(RecordLen - 1) : InProgress(e, w)
    /\ InOrder(Journaled(SyncedPart))

(* The first n cells of a file are a file it begins with. *)
LEMMA FrontOf ==
  ASSUME NEW f \in Seq(Cells), NEW n \in 0..Len(f)
  PROVE  /\ SubSeq(f, 1, n) \in Seq(Cells) /\ Len(SubSeq(f, 1, n)) = n
         /\ \A i \in 1..n : SubSeq(f, 1, n)[i] = f[i]
         /\ Begins(SubSeq(f, 1, n), f)
<1>1. n \in Nat /\ n <= Len(f) /\ Len(f) \in Nat
  OBVIOUS
<1>2. \A i \in 1..n : f[i] \in Cells
  BY <1>1
<1>3. /\ SubSeq(f, 1, n) \in Seq(Cells)
      /\ Len(SubSeq(f, 1, n)) = IF 1 <= n THEN n - 1 + 1 ELSE 0
      /\ \A i \in 1..(n - 1 + 1) : SubSeq(f, 1, n)[i] = f[1 + i - 1]
  BY <1>1, <1>2, SubSeqProperties
<1>4. n - 1 + 1 = n /\ (\A i \in 1..n : 1 + i - 1 = i) /\ (1 <= n \/ n = 0)
  BY <1>1
<1>5. Len(SubSeq(f, 1, n)) = n /\ \A i \in 1..n : SubSeq(f, 1, n)[i] = f[i]
  BY <1>3, <1>4
<1>. QED
  BY <1>1, <1>3, <1>5 DEF Begins

(* Files that begin alike have the same front. *)
LEMMA SameFront ==
  ASSUME NEW f \in Seq(Cells), NEW g \in Seq(Cells), Begins(f, g), NEW n \in 0..Len(f)
  PROVE  SubSeq(g, 1, n) = SubSeq(f, 1, n)
<1>1. n \in 0..Len(g) /\ \A i \in 1..n : g[i] = f[i]
  BY DEF Begins
<1>2. /\ SubSeq(f, 1, n) \in Seq(Cells) /\ Len(SubSeq(f, 1, n)) = n
      /\ \A i \in 1..n : SubSeq(f, 1, n)[i] = f[i]
  BY FrontOf
<1>3. /\ SubSeq(g, 1, n) \in Seq(Cells) /\ Len(SubSeq(g, 1, n)) = n
      /\ \A i \in 1..n : SubSeq(g, 1, n)[i] = g[i]
  BY <1>1, FrontOf
<1>. QED
  BY <1>1, <1>2, <1>3, SeqEqual

(* The first n epochs of a sequence. *)
LEMMA EpochFront ==
  ASSUME NEW s \in Seq(Epochs), NEW n \in 0..Len(s)
  PROVE  /\ SubSeq(s, 1, n) \in Seq(Epochs) /\ Len(SubSeq(s, 1, n)) = n
         /\ \A i \in 1..n : SubSeq(s, 1, n)[i] = s[i]
<1>1. n \in Nat /\ n <= Len(s) /\ Len(s) \in Nat
  OBVIOUS
<1>2. \A i \in 1..n : s[i] \in Epochs
  BY <1>1
<1>3. /\ SubSeq(s, 1, n) \in Seq(Epochs)
      /\ Len(SubSeq(s, 1, n)) = IF 1 <= n THEN n - 1 + 1 ELSE 0
      /\ \A i \in 1..(n - 1 + 1) : SubSeq(s, 1, n)[i] = s[1 + i - 1]
  BY <1>1, <1>2, SubSeqProperties
<1>4. n - 1 + 1 = n /\ (\A i \in 1..n : 1 + i - 1 = i) /\ (1 <= n \/ n = 0)
  BY <1>1
<1>. QED
  BY <1>3, <1>4

(* recover_from_state stops at the first epoch that carries another key. *)
LEMMA KeyedReplay ==
  ASSUME NEW f \in Seq(Cells)
  PROVE  /\ recover_from_state(f) \in Seq(Epochs)
         /\ Len(recover_from_state(f)) \in 0..Len(Journaled(f))
         /\ recover_from_state(f) = SubSeq(Journaled(f), 1, Len(recover_from_state(f)))
         /\ \A i \in 1..Len(recover_from_state(f)) : sealed[Journaled(f)[i]] = saved
         /\ \A l \in DOMAIN Journaled(f) :
              l \in DOMAIN recover_from_state(f) \/ \E i \in 1..l : sealed[Journaled(f)[i]] # saved
<1>. DEFINE h == Journaled(f)
            ok(m) == \A k \in 1..m : sealed[h[k]] = saved
            P(m) == ok(m) /\ (m = Len(h) \/ sealed[h[m + 1]] # saved)
            S == {m \in Nat : m = Len(h) \/ sealed[h[m + 1]] # saved}
            n == CHOOSE m \in 0..Len(h) : P(m)
<1>1. recover_from_state(f) = SubSeq(h, 1, n)
  BY DEF recover_from_state
<1>2. h \in Seq(Epochs) /\ Len(h) \in Nat /\ DOMAIN h = 1..Len(h)
  BY RecoverEffect DEF Replayed
<1>. HIDE DEF h
<1>3. \E m \in 0..Len(h) : P(m)
  <2>1. S \in SUBSET Nat /\ Len(h) \in S
    BY <1>2
  <2>2. PICK m \in S : \A k \in S : m <= k
    <3>. HIDE DEF S
    <3>. QED
      BY <2>1, Least
  <2>3. m \in 0..Len(h)
    <3>. HIDE DEF S
    <3>1. m \in Nat /\ m <= Len(h)
      BY <2>1, <2>2
    <3>. QED
      BY <1>2, <3>1
  <2>4. ASSUME NEW k \in 1..m PROVE sealed[h[k]] = saved
    <3>1. k - 1 \in Nat /\ ~(m <= k - 1) /\ (k - 1) + 1 = k
      BY <2>3
    <3>. QED
      BY <2>2, <3>1
  <2>. QED
    BY <2>2, <2>3, <2>4
<1>4. n \in 0..Len(h) /\ P(n)
  BY <1>3
<1>. HIDE DEF n, P
<1>5. /\ SubSeq(h, 1, n) \in Seq(Epochs) /\ Len(SubSeq(h, 1, n)) = n
      /\ DOMAIN SubSeq(h, 1, n) = 1..n
  <2>. DEFINE g == SubSeq(h, 1, n)
  <2>1. g \in Seq(Epochs) /\ Len(g) = n
    BY <1>2, <1>4, EpochFront
  <2>. HIDE DEF g
  <2>2. DOMAIN g = 1..Len(g)
    BY ONLY <2>1
  <2>. QED
    BY <2>1, <2>2 DEF g
<1>6. ASSUME NEW l \in DOMAIN h, l \notin 1..n PROVE \E i \in 1..l : sealed[h[i]] # saved
  <2>1. l \in 1..Len(h) /\ l \notin 1..n /\ n \in 0..Len(h) /\ Len(h) \in Nat
    BY <1>2, <1>4, <1>6
  <2>2. n + 1 \in 1..l /\ n # Len(h)
    BY ONLY <2>1
  <2>. QED
    BY <1>4, <2>2 DEF P
<1>. QED
  BY <1>1, <1>4, <1>5, <1>6 DEF h, P

(* A file is its own front. *)
LEMMA WholeFront ==
  ASSUME NEW f \in Seq(Cells) PROVE SubSeq(f, 1, Len(f)) = f
<1>1. Len(f) \in 0..Len(f)
  OBVIOUS
<1>. QED
  BY <1>1, FrontOf, SeqEqual

(* What is in order stays in order when more is replayed. *)
LEMMA InOrderGrows ==
  ASSUME NEW s \in Seq(Epochs), NEW t \in Seq(Epochs), Begins(s, t), InOrder(s)
  PROVE  InOrder(t)
<1>1. \A k \in DOMAIN s : k \in DOMAIN t /\ t[k] = s[k]
  BY DEF Begins
<1>. QED
  BY <1>1 DEF InOrder

(* The replay of the synced part begins the replay of the file. *)
LEMMA SyncedBegins ==
  ASSUME JournalTypeOK
  PROVE  /\ SyncedPart \in Seq(Cells) /\ Len(SyncedPart) = synced
         /\ Journaled(SyncedPart) \in Seq(Epochs)
         /\ Journaled(file) \in Seq(Epochs)
         /\ Begins(Journaled(SyncedPart), Journaled(file))
<1>1. file \in Seq(Cells) /\ synced \in 0..Len(file)
  BY DEF JournalTypeOK
<1>2. SyncedPart \in Seq(Cells) /\ Begins(SyncedPart, file) /\ Len(SyncedPart) = synced
  BY <1>1, FrontOf DEF SyncedPart
<1>. QED
  BY <1>1, <1>2, BeginsRecover, RecoverEffect DEF Replayed

(* While no append runs, everything in the file is the base. *)
LEMMA IdleBase ==
  ASSUME JournalTypeOK, pending = << >>
  PROVE  Written = 0 /\ Base = file
<1>1. file \in Seq(Cells) /\ Len(file) \in Nat /\ Written = 0
  BY DEF JournalTypeOK, Written
<1>2. Len(file) - Written = Len(file)
  BY <1>1
<1>. QED
  BY <1>1, <1>2, WholeFront DEF Base

(* A running append extends the base and has not changed the replay. *)
LEMMA RunningBase ==
  ASSUME JournalTypeOK, NEW e \in Epochs, NEW w \in 0..(RecordLen - 1), InProgress(e, w)
  PROVE  /\ Written = w /\ Base \in Seq(Cells) /\ Extended(Base, file, e, w)
         /\ Len(Base) = Len(file) - w
         /\ Journaled(file) = Journaled(Base)
<1>1. /\ file \in Seq(Cells) /\ Len(file) \in Nat /\ synced \in Nat
      /\ RecordLen \in Nat /\ w \in Nat /\ w < RecordLen /\ w <= Len(file)
  <2>1. file \in Seq(Cells) /\ synced \in 0..Len(file) /\ synced + w <= Len(file)
    BY DEF JournalTypeOK, InProgress
  <2>. QED
    BY <2>1, Lengths
<1>2. Written = w
  <2>1. pending \in Seq(Cells) /\ Len(pending) = RecordLen - w
    BY DEF JournalTypeOK, InProgress
  <2>2. pending # << >>
    BY <1>1, <2>1
  <2>. QED
    BY <1>1, <2>1, <2>2 DEF Written
<1>. DEFINE n == Len(file) - w
<1>3. n \in 0..Len(file) /\ n + w = Len(file)
  BY <1>1
<1>4. /\ Base \in Seq(Cells) /\ Len(Base) = n /\ Begins(Base, file)
  <2>1. Base = SubSeq(file, 1, n)
    BY <1>2 DEF Base
  <2>. HIDE DEF n
  <2>. QED
    BY <1>1, <1>3, <2>1, FrontOf
<1>5. Extended(Base, file, e, w)
  BY <1>3, <1>4 DEF Extended, InProgress
<1>6. w \in 0..RecordLen
  BY <1>1
<1>. QED
  BY <1>1, <1>2, <1>4, <1>5, <1>6, NothingMore

(* The next cell of the record is written. *)
LEMMA OneCell ==
  ASSUME JournalTypeOK, NEW e \in Epochs, NEW w \in 0..(RecordLen - 1), InProgress(e, w),
         NEW f, f = Append(file, Head(pending))
  PROVE  /\ f \in Seq(Cells) /\ Len(f) = Len(file) + 1 /\ Begins(file, f)
         /\ Head(pending) = Record(e)[w + 1] /\ f[Len(f)] = Record(e)[w + 1]
         /\ Extended(Base, f, e, w + 1) /\ SubSeq(f, 1, Len(Base)) = Base
<1>1. /\ file \in Seq(Cells) /\ Len(file) \in Nat
      /\ RecordLen \in Nat /\ w \in Nat /\ w < RecordLen
      /\ pending \in Seq(Cells) /\ Len(pending) = RecordLen - w
  BY Lengths DEF JournalTypeOK, InProgress
<1>2. Head(pending) = Record(e)[w + 1] /\ Head(pending) \in Cells
  <2>1. pending # << >> /\ 1 \in 1..(RecordLen - w)
    BY <1>1
  <2>. QED
    BY <1>1, <2>1 DEF InProgress
<1>3. /\ f \in Seq(Cells) /\ Len(f) = Len(file) + 1 /\ f[Len(file) + 1] = Head(pending)
      /\ \A i \in 1..Len(file) : f[i] = file[i]
  BY <1>1, <1>2
<1>4. Begins(file, f)
  BY <1>1, <1>3 DEF Begins
<1>5. /\ Base \in Seq(Cells) /\ Extended(Base, file, e, w) /\ Len(Base) = Len(file) - w
      /\ Len(Base) \in Nat
  BY RunningBase
<1>6. Begins(Base, f)
  BY <1>1, <1>3, <1>4, <1>5 DEF Begins, Extended
<1>7. ASSUME NEW i \in 1..(w + 1) PROVE f[Len(Base) + i] = Record(e)[i]
  <2>1. CASE i = w + 1
    <3>1. Len(Base) + i = Len(file) + 1
      BY <1>1, <1>5, <2>1
    <3>. QED
      BY <1>2, <1>3, <2>1, <3>1
  <2>2. CASE i # w + 1
    <3>1. i \in 1..w /\ Len(Base) + i \in 1..Len(file)
      BY <1>1, <1>5, <2>2
    <3>. QED
      BY <1>3, <1>5, <3>1 DEF Extended
  <2>. QED
    BY <2>1, <2>2
<1>8. Extended(Base, f, e, w + 1)
  <2>1. Len(f) = Len(Base) + (w + 1)
    BY <1>1, <1>3, <1>5
  <2>. QED
    BY <1>6, <1>7, <2>1 DEF Extended
<1>9. SubSeq(f, 1, Len(Base)) = Base
  <2>1. Len(Base) \in 0..Len(Base)
    BY <1>5
  <2>. QED
    BY <1>3, <1>5, <1>6, <2>1, SameFront, WholeFront
<1>. QED
  BY <1>2, <1>3, <1>4, <1>8, <1>9

(* A file that grew without being replayed further is not clean. *)
LEMMA GrownIsUnclean ==
  ASSUME NEW b \in Seq(Cells), NEW f \in Seq(Cells), Len(f) > Len(b) \/ ~ Clean(b),
         Begins(b, f), Journaled(f) = Journaled(b)
  PROVE  ~ Clean(f)
<1>. DEFINE n == Start(Len(Journaled(b)) + 1)
<1>1. n \in Nat /\ n <= Len(b) /\ Len(b) \in Nat /\ Len(f) \in Nat
  BY RecoverEffect, ReplayFits
<1>2. (Clean(b) <=> Len(b) = n) /\ (Clean(f) <=> Len(f) = n)
  BY CleanIsReplayed
<1>. HIDE DEF n
<1>. QED
  BY <1>1, <1>2 DEF Begins

(* The last cell is written: the epoch is replayed if the file was clean and *)
(* did not hold it, and otherwise the file is not clean any more.            *)
LEMMA LastCell ==
  ASSUME JournalInv, Len(pending) = 1, NEW f, f = Append(file, Head(pending))
  PROVE  \E e \in Epochs :
           /\ Head(pending)[2] = e
           /\ e \notin Range(memory) \cup Range(acked) /\ sealed[e] = key
           /\ f \in Seq(Cells) /\ Begins(file, f)
           /\ IF Clean(Base) /\ ~ \E k \in 1..Len(Journaled(file)) :
                                       Journaled(file)[k] = e
              THEN Journaled(f) = Append(Journaled(file), e) /\ Clean(f)
              ELSE Journaled(f) = Journaled(file) /\ ~ Clean(f)
<1>0. JournalTypeOK /\ pending # << >>
  BY DEF JournalInv
<1>1. PICK e \in Epochs, w \in 0..(RecordLen - 1) : InProgress(e, w)
  BY <1>0 DEF JournalInv
<1>2. w + 1 = RecordLen /\ RecordLen \in Nat /\ RecordLen > 2
  <2>1. 1 = RecordLen - w
    BY <1>1 DEF InProgress
  <2>. QED
    BY <2>1, Lengths
<1>3. /\ f \in Seq(Cells) /\ Len(f) = Len(file) + 1 /\ Begins(file, f)
      /\ Head(pending) = Record(e)[RecordLen] /\ Extended(Base, f, e, RecordLen)
  BY <1>0, <1>1, <1>2, OneCell
<1>4. Head(pending)[2] = e
  <2>1. Record(e)[RecordLen] = <<"body", e, RecordLen - PrefixLen>>
    BY <1>2, Lengths DEF Record
  <2>. QED
    BY <1>3, <2>1
<1>5. e \notin Range(memory) \cup Range(acked) /\ sealed[e] = key
  BY <1>1 DEF InProgress
<1>6. Base \in Seq(Cells) /\ Journaled(file) = Journaled(Base)
  BY <1>0, <1>1, RunningBase
<1>7. CASE Clean(Base) /\ ~ \E k \in 1..Len(Journaled(file)) :
                               Journaled(file)[k] = e
  <2>0. Clean(Base) /\ ~ \E k \in 1..Len(Journaled(Base)) :
                           Journaled(Base)[k] = e
    BY <1>6, <1>7
  <2>1. Journaled(f) = Append(Journaled(Base), e) /\ Clean(f)
    BY <1>3, <1>6, <2>0, OneMore, Zenon
  <2>. QED
    BY <1>3, <1>4, <1>5, <1>6, <1>7, <2>1
<1>8. CASE ~(Clean(Base) /\ ~ \E k \in 1..Len(Journaled(file)) :
                                 Journaled(file)[k] = e)
  <2>0. RecordLen \in 0..RecordLen
        /\ (~ Clean(Base) \/ \E k \in 1..Len(Journaled(Base)) :
                                 Journaled(Base)[k] = e)
    BY <1>2, <1>6, <1>8
  <2>1. Journaled(f) = Journaled(Base)
    BY <1>3, <1>6, <2>0, NothingMore
  <2>2. Len(Base) \in Nat /\ Len(f) > Len(Base) /\ Begins(Base, f)
    BY <1>2, <1>3, <1>6 DEF Extended
  <2>3. ~ Clean(f)
    BY <1>3, <1>6, <2>1, <2>2, GrownIsUnclean
  <2>. QED
    BY <1>3, <1>4, <1>5, <1>6, <1>8, <2>1, <2>3
<1>. QED
  BY <1>7, <1>8

(* An empty journal satisfies the invariant. *)
LEMMA JournalInitInv == JournalInit => JournalInv
<1>. SUFFICES ASSUME JournalInit PROVE JournalInv
  OBVIOUS
<1>1. Len(file) = 0 /\ Len(pending) = 0 /\ DOMAIN acked = {} /\ pending = << >>
  BY DEF JournalInit
<1>2. 0 <= RecordLen /\ MaxTears \in Nat
  BY Lengths, JournalAssumption
<1>3. JournalTypeOK
  BY <1>1, <1>2 DEF JournalInit, JournalTypeOK
<1>. QED
  BY <1>1, <1>3 DEF JournalInv, InOrder

(* A step that leaves the histories alone and the synced part as it is. *)
LEMMA SameHistory ==
  ASSUME JournalInv, JournalTypeOK', UNCHANGED <<acked, safe, synced>>, Begins(file, file')
  PROVE  SyncedPart' = SyncedPart /\ InOrder(Journaled(SyncedPart))'
<1>1. SyncedPart' = SyncedPart
  <2>1. file \in Seq(Cells) /\ file' \in Seq(Cells) /\ synced \in 0..Len(file)
    BY DEF JournalInv, JournalTypeOK
  <2>. QED
    BY <2>1, SameFront DEF SyncedPart
<1>. QED
  BY <1>1 DEF JournalInv, InOrder

(* A file begins with itself. *)
LEMMA BeginsItself ==
  ASSUME NEW f \in Seq(Cells) PROVE Begins(f, f)
  BY DEF Begins

(* What a step does to the abstract log. *)
LogStutters ==
    /\ Journaled(file') = Journaled(file)
    /\ SyncedPart' = SyncedPart
    /\ Clean(Base') <=> Clean(Base)
    /\ UNCHANGED <<memory, safe, key, saved, sealed>>

(* Starting an append writes nothing yet: the log does not see it. *)
LEMMA BeginStep ==
  ASSUME JournalInv, NEW e \in Epochs, BeginAppend(e)
  PROVE  JournalInv' /\ LogStutters
<1>1. /\ pending = << >> /\ pending' = Record(e) /\ e \notin Range(memory) \cup Range(acked)
      /\ sealed[e] = key
      /\ UNCHANGED <<file, synced, memory, acked, safe, tears, key, saved, sealed>>
  BY DEF BeginAppend, key_vars
<1>2. JournalTypeOK /\ file \in Seq(Cells) /\ synced \in 0..Len(file)
  BY DEF JournalInv, JournalTypeOK
<1>3. Record(e) \in Seq(Cells) /\ Len(Record(e)) = RecordLen
  <2>1. ASSUME NEW i \in 1..RecordLen PROVE Record(e)[i] \in Cells
    <3>1. CASE i <= PrefixLen
      <4>1. Record(e)[i] = <<"len", i>> /\ i \in 1..PrefixLen
        BY <3>1, Lengths DEF Record
      <4>. QED
        BY <4>1 DEF Cells
    <3>2. CASE ~(i <= PrefixLen)
      <4>1. Record(e)[i] = <<"body", e, i - PrefixLen>> /\ i - PrefixLen \in 1..BodyLen
        BY <3>2, Lengths DEF Record
      <4>. QED
        BY <4>1 DEF Cells
    <3>. QED
      BY <3>1, <3>2
  <2>2. Record(e) \in [1..RecordLen -> Cells]
    BY <2>1 DEF Record
  <2>. QED
    BY <2>2, Lengths
<1>4. JournalTypeOK'
  BY <1>1, <1>2, <1>3, Lengths DEF JournalTypeOK
<1>5. InProgress(e, 0)'
  <2>1. /\ RecordLen - 0 = RecordLen /\ synced + 0 = synced /\ 1..0 = {}
        /\ \A i \in 1..RecordLen : 0 + i = i
    BY <1>2, Lengths
  <2>. QED
    BY <1>1, <1>2, <1>3, <2>1 DEF InProgress
<1>6. 0 \in 0..(RecordLen - 1)
  BY Lengths
<1>7. SyncedPart' = SyncedPart /\ InOrder(Journaled(SyncedPart))'
  BY <1>1, <1>2, <1>4, BeginsItself, SameHistory
<1>8. Written = 0 /\ Written' = 0
  BY <1>1, <1>2, <1>3, Lengths, IdleBase DEF Written
<1>9. Base' = Base
  BY <1>1, <1>8 DEF Base
<1>. QED
  BY <1>1, <1>4, <1>5, <1>6, <1>7, <1>9 DEF JournalInv, LogStutters

(* A cell before the last makes no record: the log does not see it. *)
LEMMA WriteStep ==
  ASSUME JournalInv, WriteCell
  PROVE  JournalInv' /\ LogStutters
<1>1. /\ Len(pending) > 1 /\ file' = Append(file, Head(pending)) /\ pending' = Tail(pending)
      /\ UNCHANGED <<synced, memory, acked, safe, tears, key, saved, sealed>>
  BY DEF WriteCell, key_vars
<1>2. /\ JournalTypeOK /\ file \in Seq(Cells) /\ synced \in 0..Len(file)
      /\ pending \in Seq(Cells) /\ pending # << >>
  BY <1>1 DEF JournalInv, JournalTypeOK
<1>3. PICK e \in Epochs, w \in 0..(RecordLen - 1) : InProgress(e, w)
  BY <1>2 DEF JournalInv
<1>4. w + 1 \in 0..(RecordLen - 1) /\ w \in Nat /\ RecordLen \in Nat
      /\ Len(pending) = RecordLen - w
  BY <1>1, <1>3, Lengths DEF InProgress
<1>5. /\ file' \in Seq(Cells) /\ Len(file') = Len(file) + 1 /\ Begins(file, file')
      /\ Extended(Base, file', e, w + 1) /\ SubSeq(file', 1, Len(Base)) = Base
  BY <1>1, <1>2, <1>3, OneCell
<1>6. /\ pending' \in Seq(Cells) /\ Len(pending') = RecordLen - (w + 1)
      /\ \A i \in 1..(RecordLen - (w + 1)) : pending'[i] = Record(e)[(w + 1) + i]
  <2>1. /\ Tail(pending) \in Seq(Cells) /\ Len(Tail(pending)) = Len(pending) - 1
        /\ \A i \in 1..(Len(pending) - 1) : Tail(pending)[i] = pending[i + 1]
    BY <1>2, HeadTailProperties
  <2>2. Len(pending) - 1 = RecordLen - (w + 1)
    BY <1>4
  <2>3. \A i \in 1..(RecordLen - (w + 1)) : i + 1 \in 1..(RecordLen - w)
                                             /\ w + (i + 1) = (w + 1) + i
    BY <1>4
  <2>. QED
    BY <1>1, <1>3, <2>1, <2>2, <2>3 DEF InProgress
<1>7. JournalTypeOK'
  <2>1. synced' \in 0..Len(file') /\ Len(pending') <= RecordLen
    <3>1. synced' = synced /\ synced \in 0..Len(file) /\ Len(file) \in Nat
      BY <1>1, <1>2
    <3>2. synced' \in 0..Len(file')
      BY <1>5, <3>1
    <3>3. Len(pending') <= RecordLen
      BY <1>4, <1>6
    <3>. QED
      BY <3>2, <3>3
  <2>. QED
    BY <1>1, <1>2, <1>5, <1>6, <2>1 DEF JournalTypeOK
<1>8. /\ Base \in Seq(Cells) /\ Len(Base) = Len(file) - w
      /\ Journaled(file) = Journaled(Base)
  BY <1>2, <1>3, RunningBase
<1>9. InProgress(e, w + 1)'
  <2>1. synced' + (w + 1) <= Len(file')
    <3>1. synced + w <= Len(file)
      BY <1>3 DEF InProgress
    <3>2. synced' = synced /\ synced \in Nat /\ Len(file) \in Nat
      BY <1>1, <1>2
    <3>. QED
      BY <1>4, <1>5, <3>1, <3>2
  <2>2. Len(file') - (w + 1) = Len(Base)
    BY <1>2, <1>4, <1>5, <1>8
  <2>3. \A i \in 1..(w + 1) : file'[Len(file') - (w + 1) + i] = Record(e)[i]
    BY <1>5, <2>2 DEF Extended
  <2>. QED
    BY <1>1, <1>3, <1>6, <2>1, <2>3 DEF InProgress
<1>10. Base' = Base /\ Journaled(file') = Journaled(file)
  <2>1. Written' = w + 1
    <3>1. pending' # << >>
      BY <1>1, <1>4, <1>6
    <3>. QED
      BY <1>4, <1>6, <3>1 DEF Written
  <2>2. Len(file') - Written' = Len(Base)
    BY <1>2, <1>4, <1>5, <1>8, <2>1
  <2>3. Base' = Base
    BY <1>5, <2>2 DEF Base
  <2>4. w + 1 \in 0..RecordLen /\ w + 1 < RecordLen
    BY <1>4
  <2>5. Journaled(file') = Journaled(Base)
    BY <1>5, <1>8, <2>4, NothingMore
  <2>. QED
    BY <1>8, <2>3, <2>5
<1>11. SyncedPart' = SyncedPart /\ InOrder(Journaled(SyncedPart))'
  BY <1>1, <1>5, <1>7, SameHistory
<1>. QED
  BY <1>1, <1>4, <1>7, <1>9, <1>10, <1>11 DEF JournalInv, LogStutters

(* An append that fails before its last cell at most damages the log. *)
LEMMA WriteFailsStep ==
  ASSUME JournalInv, WriteFails
  PROVE  JournalInv' /\ Log!Fail
<1>1. /\ pending # << >> /\ tears < MaxTears /\ tears' = tears + 1 /\ pending' = << >>
      /\ UNCHANGED <<file, synced, memory, acked, safe, key, saved, sealed>>
  BY DEF WriteFails, key_vars
<1>2. JournalTypeOK /\ file \in Seq(Cells) /\ tears \in Nat /\ MaxTears \in Nat
  BY JournalAssumption DEF JournalInv, JournalTypeOK
<1>3. JournalTypeOK'
  <2>1. tears' \in 0..MaxTears
    BY <1>1, <1>2
  <2>2. pending' \in Seq(Cells) /\ Len(pending') <= RecordLen
    BY <1>1, Lengths
  <2>. QED
    BY <1>1, <1>2, <2>1, <2>2 DEF JournalTypeOK
<1>4. SyncedPart' = SyncedPart /\ InOrder(Journaled(SyncedPart))'
  BY <1>1, <1>2, <1>3, BeginsItself, SameHistory
<1>5. JournalInv'
  BY <1>1, <1>3, <1>4 DEF JournalInv
<1>6. Base' = file
  <2>1. Base' = file'
    <3>1. Written' = 0 /\ Len(file') \in Nat
      BY <1>1, <1>2 DEF Written
    <3>2. Len(file') - Written' = Len(file')
      BY <3>1
    <3>. QED
      BY <1>1, <1>2, <3>2, WholeFront DEF Base
  <2>. QED
    BY <1>1, <2>1
<1>7. ~ Clean(Base) => ~ Clean(file)
  <2>1. PICK e \in Epochs, w \in 0..(RecordLen - 1) : InProgress(e, w)
    BY <1>1 DEF JournalInv
  <2>2. /\ Base \in Seq(Cells) /\ Begins(Base, file)
        /\ Journaled(file) = Journaled(Base)
    BY <1>2, <2>1, RunningBase DEF Extended
  <2>. QED
    BY <1>2, <2>2, GrownIsUnclean
<1>8. ~ Clean(Base) => ~ Clean(Base)'
  BY <1>6, <1>7
<1>. QED
  BY <1>1, <1>4, <1>5, <1>8 DEF Log!Fail, SyncedPart, Base

(* A file all of which is synced is its own synced part and base. *)
LEMMA SyncedFile ==
  ASSUME (file \in Seq(Cells))', (pending = << >>)'
  PROVE  Base' = file' /\ (synced' = Len(file') => SyncedPart' = file')
<1>1. Written' = 0 /\ Len(file') \in Nat
  BY DEF Written
<1>2. Len(file') - Written' = Len(file')
  BY <1>1
<1>. QED
  BY <1>2, WholeFront DEF Base, SyncedPart

(* Not in the memory of the server is not in the log. *)
LEMMA InRange ==
  ASSUME NEW s \in Seq(Epochs), NEW e, e \notin Range(s)
  PROVE  e \notin Log!Elements(s)
  BY DEF Range, Log!Elements

(* An acknowledged epoch is accepted by the log. *)
LEMMA CommitStep ==
  ASSUME JournalInv, SyncAndCommit
  PROVE  JournalInv' /\ \E e \in Epochs : Log!Accept(e)
<1>. DEFINE s == Journaled(file)
<1>1. PICK e \in Epochs :
        /\ Head(pending)[2] = e
        /\ e \notin Range(memory) \cup Range(acked) /\ sealed[e] = key
        /\ file' \in Seq(Cells) /\ Begins(file, file')
        /\ IF Clean(Base) /\ ~ \E k \in 1..Len(s) : s[k] = e
           THEN Journaled(file') = Append(s, e) /\ Clean(file')
           ELSE Journaled(file') = s /\ ~ Clean(file')
  BY LastCell DEF SyncAndCommit
<1>2. /\ synced' = Len(file') /\ memory' = Append(memory, e) /\ acked' = Append(acked, e)
      /\ safe' = (IF Clean(file') THEN safe \cup {e} ELSE safe)
      /\ pending' = << >> /\ tears' = tears /\ UNCHANGED <<key, saved, sealed>>
  BY <1>1 DEF SyncAndCommit, key_vars
<1>3. /\ JournalTypeOK /\ memory \in Seq(Epochs) /\ acked \in Seq(Epochs)
      /\ safe \subseteq Range(acked)
  BY DEF JournalInv, JournalTypeOK
<1>4. /\ acked' \in Seq(Epochs) /\ Len(acked') = Len(acked) + 1 /\ Len(acked) \in Nat
      /\ acked'[Len(acked) + 1] = e /\ \A i \in 1..Len(acked) : acked'[i] = acked[i]
      /\ DOMAIN acked = 1..Len(acked) /\ DOMAIN acked' = 1..(Len(acked) + 1)
  BY <1>2, <1>3
<1>5. Range(acked') = Range(acked) \cup {e}
  BY <1>4 DEF Range
<1>6. JournalTypeOK'
  <2>1. synced' \in 0..Len(file') /\ pending' \in Seq(Cells) /\ Len(pending') <= RecordLen
    <3>1. Len(file') \in Nat /\ RecordLen \in Nat
      BY <1>1, Lengths
    <3>. QED
      BY <1>2, <3>1
  <2>2. safe' \subseteq Range(acked')
    BY <1>2, <1>3, <1>5
  <2>3. memory' \in Seq(Epochs)
    BY <1>2, <1>3
  <2>. QED
    BY <1>1, <1>2, <1>3, <1>4, <2>1, <2>2, <2>3 DEF JournalTypeOK
<1>7. Base' = file' /\ SyncedPart' = file'
  BY <1>1, <1>2, SyncedFile
<1>8. s \in Seq(Epochs) /\ Len(s) \in Nat /\ InOrder(s)
  BY <1>3, SyncedBegins, InOrderGrows DEF JournalInv
<1>9. e \notin safe /\ \A i \in DOMAIN acked : acked[i] # e
  BY <1>1, <1>3 DEF Range
<1>. HIDE DEF s
<1>10. CASE Clean(Base) /\ ~ \E k \in 1..Len(s) : s[k] = e
  <2>1. Journaled(file') = Append(s, e) /\ Clean(file') /\ safe' = safe \cup {e}
    BY <1>1, <1>2, <1>10
  <2>. DEFINE t == Append(s, e)
  <2>2. /\ t \in Seq(Epochs) /\ Len(t) = Len(s) + 1 /\ t[Len(s) + 1] = e
        /\ \A k \in 1..Len(s) : t[k] = s[k]
        /\ DOMAIN s = 1..Len(s) /\ DOMAIN t = 1..(Len(s) + 1)
    BY <1>8
  <2>. HIDE DEF t
  <2>3. ASSUME NEW i \in DOMAIN acked', NEW j \in DOMAIN acked', i <= j,
               acked'[i] \in safe', acked'[j] \in safe'
        PROVE  \E k, l \in DOMAIN t : k <= l /\ t[k] = acked'[i] /\ t[l] = acked'[j]
    <3>1. CASE j # Len(acked) + 1
      <4>1. i \in DOMAIN acked /\ j \in DOMAIN acked
        BY <1>4, <2>3, <3>1
      <4>2. {acked[i], acked[j]} \subseteq safe
        BY <1>4, <1>9, <2>1, <2>3, <4>1
      <4>3. PICK k \in DOMAIN s, l \in DOMAIN s : k <= l /\ s[k] = acked[i] /\ s[l] = acked[j]
        BY <1>8, <2>3, <4>1, <4>2 DEF InOrder
      <4>4. k \in DOMAIN t /\ l \in DOMAIN t
        BY <1>8, <2>2, <4>3
      <4>. QED
        BY <1>4, <2>2, <4>1, <4>3, <4>4
    <3>2. CASE i = Len(acked) + 1 /\ j = Len(acked) + 1
      <4>1. Len(s) + 1 \in DOMAIN t /\ Len(s) + 1 <= Len(s) + 1
        BY <1>8, <2>2
      <4>. QED
        BY <1>4, <2>2, <3>2, <4>1
    <3>3. CASE i # Len(acked) + 1 /\ j = Len(acked) + 1
      <4>1. i \in DOMAIN acked /\ i <= i
        BY <1>4, <3>3
      <4>2. {acked[i], acked[i]} \subseteq safe
        BY <1>4, <1>9, <2>1, <2>3, <4>1
      <4>3. PICK k \in DOMAIN s : s[k] = acked[i]
        BY <1>8, <4>1, <4>2 DEF InOrder
      <4>4. k \in DOMAIN t /\ Len(s) + 1 \in DOMAIN t /\ k <= Len(s) + 1
        BY <1>8, <2>2, <4>3
      <4>. QED
        BY <1>4, <2>2, <3>3, <4>1, <4>3, <4>4
    <3>. QED
      BY <1>4, <3>1, <3>2, <3>3
  <2>4. InOrder(Journaled(SyncedPart))'
    BY <1>7, <2>1, <2>3 DEF InOrder, t
  <2>5. JournalInv'
    BY <1>2, <1>6, <2>4 DEF JournalInv
  <2>6. e \notin Log!Elements(s) /\ e \notin Log!Elements(memory)
    BY <1>1, <1>3, <1>10, InRange DEF Log!Elements
  <2>7. Log!Accept(e)
    BY <1>1, <1>2, <1>7, <1>10, <2>1, <2>6 DEF Log!Accept, Base, SyncedPart, s
  <2>. QED
    BY <2>5, <2>7
<1>11. CASE ~(Clean(Base) /\ ~ \E k \in 1..Len(s) : s[k] = e)
  <2>1. Journaled(file') = s /\ ~ Clean(file') /\ safe' = safe
    BY <1>1, <1>2, <1>11
  <2>2. ASSUME NEW i \in DOMAIN acked', acked'[i] \in safe'
        PROVE  i \in DOMAIN acked /\ acked'[i] = acked[i]
    BY <1>4, <1>9, <2>1, <2>2
  <2>3. InOrder(Journaled(SyncedPart))'
    <3>1. Journaled(SyncedPart)' = s
      BY <1>7, <2>1
    <3>2. ASSUME NEW i \in DOMAIN acked', NEW j \in DOMAIN acked', i <= j,
                 {acked'[i], acked'[j]} \subseteq safe'
          PROVE  \E k, l \in DOMAIN s : k <= l /\ s[k] = acked'[i] /\ s[l] = acked'[j]
      <4>1. /\ i \in DOMAIN acked /\ acked'[i] = acked[i]
            /\ j \in DOMAIN acked /\ acked'[j] = acked[j]
        BY <2>2, <3>2
      <4>2. {acked[i], acked[j]} \subseteq safe
        BY <2>1, <3>2, <4>1
      <4>. QED
        BY <1>8, <3>2, <4>1, <4>2 DEF InOrder
    <3>. QED
      BY <3>1, <3>2 DEF InOrder
  <2>4. JournalInv'
    BY <1>2, <1>6, <2>3 DEF JournalInv
  <2>5. ~ Clean(Base) \/ e \in Log!Elements(s)
    BY <1>11 DEF Log!Elements
  <2>6. e \notin Log!Elements(memory)
    BY <1>1, <1>3, InRange
  <2>7. Log!Accept(e)
    BY <1>1, <1>2, <1>7, <2>1, <2>5, <2>6 DEF Log!Accept, Base, SyncedPart, s
  <2>. QED
    BY <2>4, <2>7
<1>. QED
  BY <1>10, <1>11

(* A failed sync leaves a record the server does not hold, or damage. *)
LEMMA SyncFailsStep ==
  ASSUME JournalInv, SyncFails
  PROVE  JournalInv' /\ Log!Fail
<1>. DEFINE s == Journaled(file)
<1>1. PICK e \in Epochs :
        /\ e \notin Range(memory) \cup Range(acked) /\ sealed[e] = key
        /\ file' \in Seq(Cells) /\ Begins(file, file')
        /\ IF Clean(Base) /\ ~ \E k \in 1..Len(s) : s[k] = e
           THEN Journaled(file') = Append(s, e) /\ Clean(file')
           ELSE Journaled(file') = s /\ ~ Clean(file')
  BY LastCell DEF SyncFails
<1>2. /\ pending' = << >> /\ tears < MaxTears /\ tears' = tears + 1
      /\ UNCHANGED <<synced, memory, acked, safe, key, saved, sealed>>
  BY DEF SyncFails, key_vars
<1>3. /\ JournalTypeOK /\ file \in Seq(Cells) /\ memory \in Seq(Epochs) /\ tears \in Nat
      /\ MaxTears \in Nat /\ synced \in 0..Len(file)
  BY JournalAssumption DEF JournalInv, JournalTypeOK
<1>4. JournalTypeOK'
  <2>1. tears' \in 0..MaxTears
    BY ONLY <1>2, <1>3
  <2>0. synced' \in 0..Len(file')
    <3>1. Len(file) <= Len(file') /\ Len(file) \in Nat /\ Len(file') \in Nat
      BY <1>1, <1>3 DEF Begins
    <3>. QED
      BY ONLY <1>2, <1>3, <3>1
  <2>2. pending' \in Seq(Cells) /\ Len(pending') <= RecordLen
    BY <1>2, Lengths
  <2>. QED
    BY <1>1, <1>2, <1>3, <2>0, <2>1, <2>2 DEF JournalTypeOK
<1>5. SyncedPart' = SyncedPart /\ InOrder(Journaled(SyncedPart))'
  BY <1>1, <1>2, <1>4, SameHistory
<1>6. JournalInv'
  BY <1>2, <1>4, <1>5 DEF JournalInv
<1>7. Base' = file'
  BY <1>1, <1>2, SyncedFile
<1>. HIDE DEF s
<1>8. CASE Clean(Base) /\ ~ \E k \in 1..Len(s) : s[k] = e
  <2>1. Journaled(file') = Append(s, e)
    BY <1>1, <1>8
  <2>2. e \in Epochs \ (Log!Elements(s) \cup Log!Elements(memory))
    BY <1>1, <1>3, <1>8, InRange DEF Log!Elements
  <2>3. Log!Fail
    BY <1>2, <1>5, <1>8, <2>1, <2>2 DEF Log!Fail, SyncedPart, Base, s
  <2>. QED
    BY <1>6, <2>3
<1>9. CASE ~(Clean(Base) /\ ~ \E k \in 1..Len(s) : s[k] = e)
  <2>1. Journaled(file') = s /\ ~ Clean(Base)'
    BY <1>1, <1>7, <1>9
  <2>2. Log!Fail
    BY <1>2, <1>5, <2>1 DEF Log!Fail, SyncedPart, Base, s
  <2>. QED
    BY <1>6, <2>2
<1>. QED
  BY <1>8, <1>9

(* The replay applies a first part of what the journal holds, and no epoch in *)
(* it carries another key than the saved one.                                 *)
LEMMA KeyedPrefix ==
  ASSUME NEW f \in Seq(Cells), NEW m \in 0..Len(recover_from_state(f))
  PROVE  /\ m \in 0..Len(Journaled(f))
         /\ SubSeq(recover_from_state(f), 1, m) = SubSeq(Journaled(f), 1, m)
         /\ SubSeq(Journaled(f), 1, m) \in Seq(Epochs)
         /\ \A i \in 1..m : sealed[Journaled(f)[i]] = saved
<1>. DEFINE h == Journaled(f)
            n == Len(recover_from_state(f))
<1>1. h \in Seq(Epochs)
  BY RecoverEffect DEF Replayed
<1>2. /\ n \in 0..Len(h) /\ recover_from_state(f) = SubSeq(h, 1, n)
      /\ \A i \in 1..n : sealed[h[i]] = saved
  BY KeyedReplay
<1>. HIDE DEF h, n
<1>3. Len(h) \in Nat /\ n \in Nat /\ n <= Len(h) /\ m \in Nat /\ m <= n
  BY <1>1, <1>2 DEF n
<1>4. /\ SubSeq(h, 1, n) \in Seq(Epochs) /\ Len(SubSeq(h, 1, n)) = n
      /\ \A i \in 1..n : SubSeq(h, 1, n)[i] = h[i]
  BY <1>1, <1>3, EpochFront
<1>5. /\ SubSeq(h, 1, m) \in Seq(Epochs) /\ Len(SubSeq(h, 1, m)) = m
      /\ \A i \in 1..m : SubSeq(h, 1, m)[i] = h[i]
  BY <1>1, <1>3, EpochFront
<1>. DEFINE g == SubSeq(h, 1, n)
<1>. HIDE DEF g
<1>6. g \in Seq(Epochs) /\ Len(g) = n /\ \A i \in 1..n : g[i] = h[i]
  BY <1>4 DEF g
<1>7. /\ SubSeq(g, 1, m) \in Seq(Epochs) /\ Len(SubSeq(g, 1, m)) = m
      /\ \A i \in 1..m : SubSeq(g, 1, m)[i] = g[i]
  BY <1>3, <1>6, EpochFront
<1>8. \A i \in 1..m : i \in 1..n
  BY <1>3
<1>9. SubSeq(g, 1, m) = SubSeq(h, 1, m)
  BY <1>3, <1>5, <1>6, <1>7, <1>8, SeqEqual
<1>. QED
  BY <1>2, <1>3, <1>5, <1>8, <1>9 DEF g, h

(* A crash and the replay after it restart the log. *)
LEMMA CrashStep ==
  ASSUME JournalInv, CrashAndRestart
  PROVE  JournalInv' /\ Log!Restart
<1>1. PICK k \in synced..Len(file), m \in 0..Len(recover_from_state(file')) :
        /\ file' = SubSeq(file, 1, k) /\ synced' = k
        /\ memory' = SubSeq(recover_from_state(file'), 1, m)
  BY DEF CrashAndRestart
<1>2. /\ pending' = << >> /\ key' = saved /\ UNCHANGED <<acked, safe, saved, sealed>>
      /\ (pending # << >> \/ synced # Len(file)) => tears < MaxTears
      /\ tears' = IF pending # << >> \/ synced # Len(file) THEN tears + 1 ELSE tears
  BY DEF CrashAndRestart
<1>3. /\ JournalTypeOK /\ file \in Seq(Cells) /\ synced \in 0..Len(file)
      /\ tears \in 0..MaxTears /\ MaxTears \in Nat
  BY JournalAssumption DEF JournalInv, JournalTypeOK
<1>4. k \in 0..Len(file) /\ synced \in 0..k
  BY <1>1, <1>3
<1>5. file' \in Seq(Cells) /\ Len(file') = k /\ Begins(file', file)
  BY <1>1, <1>3, <1>4, FrontOf
<1>6. Base' = file' /\ SyncedPart' = file'
  BY <1>1, <1>2, <1>5, SyncedFile
<1>7. SyncedPart = SubSeq(file', 1, synced)
  BY <1>3, <1>4, <1>5, SameFront DEF SyncedPart
<1>8. Begins(SyncedPart, file') /\ SyncedPart \in Seq(Cells)
  BY <1>4, <1>5, <1>7, FrontOf
<1>. DEFINE d == Journaled(SyncedPart)
            r == Journaled(file')
            s == Journaled(file)
<1>9. d \in Seq(Epochs) /\ r \in Seq(Epochs) /\ s \in Seq(Epochs)
  BY <1>3, <1>5, <1>8, RecoverEffect DEF Replayed
<1>10. Begins(d, r) /\ Begins(r, s)
  BY <1>3, <1>5, <1>8, BeginsRecover
<1>11. InOrder(r)
  BY <1>9, <1>10, InOrderGrows DEF JournalInv
<1>0. m \in 0..Len(r) /\ memory' \in Seq(Epochs) /\ memory' = SubSeq(r, 1, m)
      /\ \A i \in 1..m : sealed[r[i]] = saved
  BY <1>1, <1>5, KeyedPrefix
<1>12. JournalTypeOK'
  <2>1. tears' \in 0..MaxTears
    BY <1>2, <1>3
  <2>2. pending' \in Seq(Cells) /\ Len(pending') <= RecordLen
    BY <1>2, Lengths
  <2>3. synced' \in 0..Len(file')
    BY <1>1, <1>3, <1>4, <1>5
  <2>. QED
    BY <1>0, <1>2, <1>3, <1>5, <2>1, <2>2, <2>3 DEF JournalTypeOK
<1>13. JournalInv'
  <2>1. InOrder(Journaled(SyncedPart))'
    BY <1>2, <1>6, <1>11 DEF InOrder
  <2>. QED
    BY <1>2, <1>12, <2>1 DEF JournalInv
<1>. HIDE DEF d, r, s
<1>14. Len(r) \in Len(d)..Len(s) /\ r = SubSeq(s, 1, Len(r))
  <2>1. /\ Len(d) \in Nat /\ Len(r) \in Nat /\ Len(s) \in Nat /\ Len(d) <= Len(r)
        /\ Len(r) <= Len(s) /\ \A i \in 1..Len(r) : s[i] = r[i]
    BY <1>9, <1>10 DEF Begins
  <2>2. \A i \in 1..Len(r) : s[i] \in Epochs
    BY <1>9, <2>1
  <2>3. /\ SubSeq(s, 1, Len(r)) \in Seq(Epochs)
        /\ Len(SubSeq(s, 1, Len(r))) = IF 1 <= Len(r) THEN Len(r) - 1 + 1 ELSE 0
        /\ \A i \in 1..(Len(r) - 1 + 1) : SubSeq(s, 1, Len(r))[i] = s[1 + i - 1]
    BY <2>1, <2>2, SubSeqProperties
  <2>4. Len(SubSeq(s, 1, Len(r))) = Len(r)
        /\ \A i \in 1..Len(r) : SubSeq(s, 1, Len(r))[i] = r[i]
    BY <2>1, <2>3
  <2>. QED
    BY <1>9, <2>1, <2>3, <2>4, SeqEqual
<1>15. Log!Restart
  <2>1. Journaled(file') = r /\ Journaled(SyncedPart)' = r
    BY <1>6 DEF r
  <2>. QED
    BY <1>0, <1>2, <1>14, <2>1 DEF Log!Restart, SyncedPart, d, s
<1>. QED
  BY <1>13, <1>15

(* A rotation, and a later command that saves the key, change the key alone. *)
LEMMA RotateStep ==
  ASSUME JournalInv, (\E k \in Keys : rotate_group_kbroad(k)) \/ persist_kbroad_state
  PROVE  JournalInv' /\ Log!Rotate
<1>1. /\ pending = << >> /\ key' \in Keys /\ saved' \in {saved, key'}
      /\ UNCHANGED <<file, synced, pending, memory, acked, safe, tears, sealed>>
  BY DEF rotate_group_kbroad, persist_kbroad_state, JournalInv, JournalTypeOK
<1>2. JournalTypeOK'
  BY <1>1 DEF JournalInv, JournalTypeOK
<1>3. JournalInv'
  <2>1. SyncedPart' = SyncedPart
    BY <1>1 DEF SyncedPart
  <2>2. InOrder(Journaled(SyncedPart)) /\ Journaled(SyncedPart)' = Journaled(SyncedPart)
    BY <2>1 DEF JournalInv
  <2>3. InOrder(Journaled(SyncedPart))'
    BY <1>1, <2>2 DEF InOrder
  <2>. QED
    BY <1>1, <1>2, <2>3 DEF JournalInv
<1>4. Written' = Written
  BY <1>1 DEF Written
<1>5. Log!Rotate
  BY <1>1, <1>4 DEF Log!Rotate
<1>. QED
  BY <1>3, <1>5

(* A step the log does not see changes no variable of it. *)
LEMMA LogStuttersIs == LogStutters => UNCHANGED Log!vars
  BY DEF LogStutters, Log!vars, SyncedPart, Base

(* Every step keeps the invariant and is a step of the log or none. *)
LEMMA JournalStep ==
  ASSUME JournalInv, [JournalNext]_journal_vars
  PROVE  JournalInv' /\ [Log!Next]_(Log!vars)
<1>1. CASE UNCHANGED journal_vars
  <2>1. UNCHANGED <<file, synced, pending, memory, acked, safe, tears, key, saved, sealed>>
    BY <1>1 DEF journal_vars, key_vars
  <2>2. Written' = Written
    BY <2>1 DEF Written
  <2>3. UNCHANGED Log!vars
    BY <2>1, <2>2 DEF Log!vars
  <2>4. JournalInv'
    <3>1. JournalTypeOK' /\ SyncedPart' = SyncedPart
      BY <2>1 DEF JournalInv, JournalTypeOK, SyncedPart
    <3>2. \A e, w : InProgress(e, w) => InProgress(e, w)'
      BY <2>1 DEF InProgress
    <3>3. InOrder(Journaled(SyncedPart))'
      <4>1. InOrder(Journaled(SyncedPart))
        BY DEF JournalInv
      <4>2. Journaled(SyncedPart)' = Journaled(SyncedPart)
        BY <3>1
      <4>. QED
        BY <2>1, <4>1, <4>2 DEF InOrder
    <3>. QED
      BY <2>1, <3>1, <3>2, <3>3 DEF JournalInv
  <2>. QED
    BY <2>3, <2>4
<1>2. CASE (\E e \in Epochs : BeginAppend(e)) \/ WriteCell
  BY <1>2, BeginStep, WriteStep, LogStuttersIs
<1>3. CASE WriteFails \/ SyncFails
  BY <1>3, WriteFailsStep, SyncFailsStep DEF Log!Next
<1>4. CASE SyncAndCommit
  BY <1>4, CommitStep DEF Log!Next
<1>5. CASE CrashAndRestart
  BY <1>5, CrashStep DEF Log!Next
<1>6. CASE (\E k \in Keys : rotate_group_kbroad(k)) \/ persist_kbroad_state
  BY <1>6, RotateStep DEF Log!Next
<1>. QED
  BY <1>1, <1>2, <1>3, <1>4, <1>5, <1>6 DEF JournalNext

(* The invariant holds in every state. *)
LEMMA JournalInvariant == JournalSpec => []JournalInv
<1>1. JournalInv /\ [JournalNext]_journal_vars => JournalInv'
  BY JournalStep
<1>. QED
  BY <1>1, JournalInitInv, PTL DEF JournalSpec

(* The file is a sequence of cells, the synced part a part of it, an append in *)
(* progress has at most one record to write, and what is counted as safe was   *)
(* acknowledged.                                                               *)
THEOREM JournalTypeCorrect == JournalSpec => []JournalTypeOK
<1>1. JournalInv => JournalTypeOK
  BY DEF JournalInv
<1>. QED
  BY <1>1, JournalInvariant, PTL

(* Every epoch accept_epoch acknowledged while the file was a sequence of      *)
(* whole records is handed to the replay, in the order of the acknowledgements, *)
(* through any number of crashes and failed writes: load_entries stops at the  *)
(* first torn record, which lies behind all of them.  recover_from_state then  *)
(* applies it unless an epoch under another key than the saved one comes first. *)
THEOREM JournalKeepsCleanAcks == JournalSpec => []CleanAcksSurvive
<1>1. JournalInv => CleanAcksSurvive
  <2>. SUFFICES ASSUME JournalInv PROVE CleanAcksSurvive
    OBVIOUS
  <2>. DEFINE held == Journaled(file)
              replayed == recover_from_state(file)
  <2>1. InOrder(held)
    BY SyncedBegins, InOrderGrows DEF JournalInv
  <2>2. \A l \in DOMAIN held :
          l \in DOMAIN replayed \/ \E m \in 1..l : sealed[held[m]] # saved
    BY KeyedReplay DEF JournalInv, JournalTypeOK
  <2>. HIDE DEF held, replayed
  <2>3. ASSUME NEW i \in DOMAIN acked, NEW j \in DOMAIN acked, i <= j,
               {acked[i], acked[j]} \subseteq safe
        PROVE  \E k, l \in DOMAIN held :
                  /\ k <= l /\ held[k] = acked[i] /\ held[l] = acked[j]
                  /\ l \in DOMAIN replayed \/ \E m \in 1..l : sealed[held[m]] # saved
    <3>1. PICK k \in DOMAIN held, l \in DOMAIN held :
             k <= l /\ held[k] = acked[i] /\ held[l] = acked[j]
      BY <2>1, <2>3 DEF InOrder
    <3>. QED
      BY <2>2, <3>1
  <2>. QED
    BY <2>3 DEF CleanAcksSurvive, held, replayed
<1>. QED
  BY <1>1, JournalInvariant, PTL

(* The journal implements the abstract durable log: an append up to its sync *)
(* is no step of the log, sync_data and the commit in memory are one         *)
(* acceptance, a failed write or sync is a failure, a rotation changes the   *)
(* key and nothing the journal holds, and a crash is a restart that keeps at *)
(* least the durable part and serves no epoch under another key.             *)
THEOREM JournalImplementsLog == JournalSpec => ImplementsLog
<1>1. JournalInit => Log!Init
  <2>. SUFFICES ASSUME JournalInit PROVE Log!Init
    OBVIOUS
  <2>1. /\ file = << >> /\ synced = 0 /\ pending = << >> /\ memory = << >> /\ safe = {}
        /\ key \in Keys /\ saved = key /\ sealed \in [Epochs -> Keys]
    BY DEF JournalInit
  <2>2. file \in Seq(Cells) /\ Len(file) = 0 /\ Written = 0
    BY <2>1 DEF Written
  <2>3. Len(file) - Written = Len(file) /\ synced = Len(file)
    BY <2>1, <2>2
  <2>4. SubSeq(file, 1, Len(file) - Written) = file /\ SubSeq(file, 1, synced) = file
    BY <2>2, <2>3, WholeFront
  <2>. DEFINE r == Journaled(file)
  <2>5. Replayed(file, r)
    BY <2>2, RecoverEffect
  <2>6. Len(r) = 0 /\ r \in Seq(Epochs) /\ Start(Len(r) + 1) = 0
    <3>1. r \in Seq(Epochs) /\ Len(r) \in Nat /\ Len(r) <= Len(file)
      BY <2>2, <2>5, ReplayFits DEF Replayed
    <3>2. Len(r) = 0 /\ Len(r) + 1 = 1
      BY <2>2, <3>1
    <3>3. Start(1) = 0
      <4>1. 0 \in Nat
        OBVIOUS
      <4>. QED
        BY <4>1, StartStep
    <3>. QED
      BY <3>1, <3>2, <3>3
  <2>7. r = << >> /\ Clean(file)
    BY <2>2, <2>6, CleanIsReplayed
  <2>. QED
    BY <2>1, <2>4, <2>6, <2>7 DEF Log!Init
<1>2. JournalInv /\ [JournalNext]_journal_vars => [Log!Next]_(Log!vars)
  BY JournalStep
<1>. QED
  BY <1>1, <1>2, JournalInvariant, PTL DEF JournalSpec, ImplementsLog, Log!Spec

-----------------------------------------------------------------------------
(* The promises of the abstract log, of the journal as its implementation. *)

(* The log as the refinement reads it, and how much of it is durable. *)
Replay == Journaled(file)
Durable == Len(Journaled(SyncedPart))

(* The invariant of the log: what is kept lies in its durable part. *)
LogInv ==
    /\ Replay \in Seq(Epochs)
    /\ Durable \in 0..Len(Replay)
    /\ safe \subseteq Epochs
    /\ \A e \in safe : \E i \in 1..Durable : Replay[i] = e

(* The durable part of the log is a prefix of the log after the step. *)
Grows == Durable' >= Durable /\ \A i \in 1..Durable : Replay'[i] = Replay[i]

(* An accepted epoch becomes the last one of the durable part, or changes *)
(* nothing in it.                                                         *)
LEMMA LogAcceptStep ==
  ASSUME LogInv, NEW e \in Epochs, Log!Accept(e) PROVE LogInv' /\ Grows
<1>1. CASE ~ Clean(Base) \/ e \in Log!Elements(Replay)
  <2>1. Replay' = Replay /\ safe' = safe /\ Durable' = Len(Replay)
    BY <1>1 DEF Log!Accept, Base, Replay, Durable, SyncedPart
  <2>. QED
    BY <2>1 DEF LogInv, Grows
<1>2. CASE ~(~ Clean(Base) \/ e \in Log!Elements(Replay))
  <2>1. Replay' = Append(Replay, e) /\ safe' = safe \cup {e} /\ Durable' = Len(Replay')
    BY <1>2 DEF Log!Accept, Base, Replay, Durable, SyncedPart
  <2>2. /\ Replay' \in Seq(Epochs) /\ Len(Replay') = Len(Replay) + 1
        /\ Replay'[Len(Replay) + 1] = e /\ \A i \in 1..Len(Replay) : Replay'[i] = Replay[i]
    BY <2>1 DEF LogInv
  <2>3. Grows
    BY <2>1, <2>2 DEF LogInv, Grows
  <2>4. \A x \in safe' : \E i \in 1..Durable' : Replay'[i] = x
    BY <2>1, <2>2 DEF LogInv
  <2>5. Durable' \in 0..Len(Replay')
    <3>1. Len(Replay') \in Nat
      BY <2>2
    <3>. QED
      BY <2>1, <3>1
  <2>6. safe' \subseteq Epochs
    BY <2>1 DEF LogInv
  <2>. QED
    BY <2>2, <2>3, <2>4, <2>5, <2>6 DEF LogInv
<1>. QED
  BY <1>1, <1>2

(* A failed append at most adds an epoch after the durable part. *)
LEMMA LogFailStep == ASSUME LogInv, Log!Fail PROVE LogInv' /\ Grows
<1>1. Durable' = Durable /\ safe' = safe
  BY DEF Log!Fail, Durable, SyncedPart
<1>2. Replay' = Replay \/ \E e \in Epochs : Replay' = Append(Replay, e)
  BY DEF Log!Fail, Replay
<1>3. /\ Replay' \in Seq(Epochs) /\ Len(Replay') >= Len(Replay)
      /\ \A i \in 1..Len(Replay) : Replay'[i] = Replay[i]
  BY <1>2 DEF LogInv
<1>. QED
  BY <1>1, <1>3 DEF LogInv, Grows

(* A restart cuts the log somewhere after its durable part. *)
LEMMA LogRestartStep == ASSUME LogInv, Log!Restart PROVE LogInv' /\ Grows
<1>1. PICK n \in Durable..Len(Replay) : Replay' = SubSeq(Replay, 1, n) /\ Durable' = n
  BY DEF Log!Restart, Replay, Durable, SyncedPart
<1>2. n \in Nat /\ n >= Durable /\ n <= Len(Replay) /\ Durable \in Nat /\ safe' = safe
  BY <1>1 DEF LogInv, Log!Restart
<1>3. Replay' \in Seq(Epochs) /\ Len(Replay') = n /\ \A i \in 1..n : Replay'[i] = Replay[i]
  BY <1>1, <1>2, SubSeqProperties DEF LogInv
<1>4. Grows
  BY <1>1, <1>2, <1>3 DEF Grows
<1>. QED
  BY <1>1, <1>2, <1>3, <1>4 DEF LogInv, Grows

(* A rotation does not touch the log. *)
LEMMA LogRotateStep == ASSUME LogInv, Log!Rotate PROVE LogInv' /\ Grows
<1>1. Replay' = Replay /\ Durable' = Durable /\ safe' = safe
  BY DEF Log!Rotate, Replay, Durable, SyncedPart
<1>. QED
  BY <1>1 DEF LogInv, Grows

(* Every step of the log keeps it and leaves the durable part as it is. *)
LEMMA LogSteps == LogInv /\ [Log!Next]_(Log!vars) => LogInv' /\ [Grows]_(Log!vars)
<1>. SUFFICES ASSUME LogInv, [Log!Next]_(Log!vars) PROVE LogInv' /\ [Grows]_(Log!vars)
  OBVIOUS
<1>1. CASE Log!Next
  BY <1>1, LogAcceptStep, LogFailStep, LogRotateStep, LogRestartStep
  DEF Log!Next
<1>2. CASE UNCHANGED Log!vars
  <2>1. Replay' = Replay /\ Durable' = Durable /\ safe' = safe
    BY <1>2 DEF Log!vars, Replay, Durable, SyncedPart
  <2>. QED
    BY <1>2, <2>1 DEF LogInv
<1>. QED
  BY <1>1, <1>2

(* The empty log satisfies it. *)
LEMMA LogInitInv == Log!Init => LogInv
<1>. SUFFICES ASSUME Log!Init PROVE LogInv
  OBVIOUS
<1>1. Replay = << >> /\ Durable = 0 /\ safe = {}
  BY DEF Log!Init, Replay, Durable, SyncedPart
<1>. QED
  BY <1>1 DEF LogInv

(* An epoch whose accept_epoch returned Ok while the journal was undamaged is in the
   synced part of the file for ever: every later restart hands it to the replay. *)
THEOREM KeptForEver == JournalSpec => []Log!KeptIsDurable
<1>1. LogInv => Log!KeptIsDurable
  BY DEF LogInv, Log!KeptIsDurable, Replay, Durable, SyncedPart
<1>2. Log!Spec => []LogInv
  BY LogInitInv, LogSteps, PTL DEF Log!Spec
<1>. QED
  BY <1>1, <1>2, JournalImplementsLog, PTL DEF ImplementsLog

(* No step, a rotation or a restart included, rewrites or shortens the epochs the
   synced part of the file holds for a replay. *)
THEOREM DurablePrefixStable == JournalSpec => Log!DurableNeverRewritten
<1>1. [Grows]_(Log!vars) =>
        [/\ Len(Journaled(SubSeq(file, 1, synced)))'
              >= Len(Journaled(SubSeq(file, 1, synced)))
         /\ \A i \in 1..Len(Journaled(SubSeq(file, 1, synced))) :
              Journaled(file)'[i] = Journaled(file)[i]]_(Log!vars)
  BY DEF Grows, Replay, Durable, SyncedPart
<1>2. Log!Spec => [][Grows]_(Log!vars)
  BY LogInitInv, LogSteps, PTL DEF Log!Spec
<1>. QED
  BY <1>1, <1>2, JournalImplementsLog, PTL DEF ImplementsLog, Log!DurableNeverRewritten
=============================================================================
