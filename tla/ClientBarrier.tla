---------------------------- MODULE ClientBarrier ----------------------------
(****************************************************************************)
(* The barrier state of one client device (cityg-gui/src/native): how the   *)
(* desktop client publishes a barrier update, remembers it on disk until    *)
(* the room's history says what became of it, and follows the updates of    *)
(* the other members.                                                       *)
(*                                                                          *)
(* There are two copies of the session, the one of the user interface       *)
(* (`mem`) and the one on disk (`disk`), and three tasks that run beside    *)
(* the interface thread, each on a copy of the session taken when it        *)
(* started: the publication of a merge (`pub`), the epoch sync (`sync`) and *)
(* the roster refresh (`roster`).  A task is a chain of requests to the     *)
(* server; its result is handed back to the interface thread, which         *)
(* installs and persists it.                                                *)
(*                                                                          *)
(* The room is the sequence `epochs` of accepted epochs; an epoch is named  *)
(* by its position.  An epoch that carries a barrier update starts a new    *)
(* barrier version.  A barrier key is named by the version it belongs to    *)
(* and the publication attempt of this device that made it, 0 when it was   *)
(* another member's.  Key derivation is not modelled: whether this device   *)
(* can open another member's update is a choice, and it never opens its     *)
(* own, which is encrypted to the others only.                              *)
(****************************************************************************)
EXTENDS Integers, Sequences

CONSTANTS MaxEpochs,    \* accepted epochs, the first two included
          MaxTries,     \* publication attempts of this device
          MaxCrashes,   \* restarts of this device
          PeerReasons   \* the reasons of the other members' updates

ASSUME ClientAssumption ==
  /\ MaxEpochs \in Nat /\ MaxEpochs >= 2
  /\ MaxTries \in Nat /\ MaxTries >= 1
  /\ MaxCrashes \in Nat
  /\ PeerReasons \subseteq 0 .. 2

VARIABLES epochs,       \* the accepted epochs of the room
          wire,         \* merges sent to the server and not yet judged
          mem, disk,    \* the session of the interface, and the one on disk
          sync,         \* the epoch sync task
          pub,          \* the publication task
          roster,       \* the roster refresh task
          tries, crashes

vars == <<epochs, wire, mem, disk, sync, pub, roster, tries, crashes>>

----------------------------------------------------------------------------
(* State.                                                                   *)

Keys == [ver: Nat, id: Nat]
NoKey == [ver |-> 0, id |-> 0]

\* The reason a barrier update gives: revocation, PCS refresh, join finalize.
Reasons == 0 .. 2
Kinds == {"expel", "refresh", "finalize"}
ReasonOf == [expel |-> 0, refresh |-> 1, finalize |-> 2]

Epoch == [key: Keys, upd: BOOLEAN, reason: Reasons, root: Nat]

\* What of AppSession and its BarrierSecretState decides anything here: the
\* epoch it is in, the barrier version and key, the pending update, whether
\* barrier recovery is pending, whether the current state was verified in
\* full, and the membership root.
AppSession == [we: Nat, ver: Nat, key: Keys, pend: Keys,
               recov: BOOLEAN, full: BOOLEAN, root: Nat]
NoSession == [we |-> 0, ver |-> 0, key |-> NoKey, pend |-> NoKey,
              recov |-> FALSE, full |-> FALSE, root |-> 0]

Sync == [at: {"idle", "ticket", "resolve", "done"},
         s: AppSession, t: Nat, changed: BOOLEAN]
IdleSync == [at |-> "idle", s |-> NoSession, t |-> 0, changed |-> FALSE]

Publish == [at: {"idle", "verify", "ticket", "build", "send", "wait",
                 "fallback", "resync", "applied"},
            kind: Kinds, s: AppSession, t: Nat, p: Keys,
            reply: {"none", "ok", "jump", "no"}, again: BOOLEAN]
IdlePub == [at |-> "idle", kind |-> "refresh", s |-> NoSession, t |-> 0,
            p |-> NoKey, reply |-> "none", again |-> FALSE]

Merge == [kind: Kinds, p: Keys, t: Nat]

Roster == [at: {"idle", "loading", "page"}, root: Nat]
NoPage == [at |-> "idle", root |-> 0]
Loading == [at |-> "loading", root |-> 0]

Tip == Len(epochs)
Ver(t) == epochs[t].key.ver
Updates == {i \in 1 .. Tip : epochs[i].upd}

\* The keys of the room's accepted barrier updates.
Accepted == {epochs[i].key : i \in Updates}

----------------------------------------------------------------------------
(* What a task does to its copy of a session.                               *)

Activate(s, p) ==
  [s EXCEPT !.ver = p.ver, !.key = p, !.pend = NoKey,
            !.recov = FALSE, !.full = TRUE]

enter_barrier_recovery(s) == [s EXCEPT !.recov = TRUE, !.full = FALSE]

apply_recovered_barrier_state(s, k, full) ==
  [s EXCEPT !.ver = k.ver, !.key = k, !.recov = FALSE, !.full = full]

\* Faulty variant: the mark of full verification survives a change.
install_authenticated_current_state_Keeps(s, v) == [s EXCEPT !.ver = v]

\* Adopting the public state the ticket advertises: a state that changed was
\* not verified in full.
install_authenticated_current_state(s, v) ==
  [s EXCEPT !.ver = v, !.full = @ /\ s.ver = v]

\* The status the server gives for a pending merge.
lookup_merge_acceptance(p) ==
  CASE p \in Accepted -> "accepted"
    [] p \notin Accepted /\ \E k \in Accepted : k.ver = p.ver -> "superseded"
    [] OTHER -> IF Ver(Tip) > p.ver THEN "final_rejected" ELSE "pending"

\* Faulty variant: whatever is not accepted yet is thrown away.
resolve_pending_barrier_history_Rejects(p, v) ==
  IF lookup_merge_acceptance(p) = "accepted" THEN "activate" ELSE "discard"

\* Faulty variant: an update that lost to another one is activated.
resolve_pending_barrier_history_Trusts(p, v) ==
  CASE lookup_merge_acceptance(p) \in {"accepted", "superseded"} -> "activate"
    [] OTHER -> "unchanged"

\* What a pending update p becomes, under a ticket of version v.
resolve_pending_barrier_history(p, v) ==
  LET status == lookup_merge_acceptance(p) IN
  CASE status = "accepted" -> "activate"
    [] status \in {"superseded", "final_rejected"} -> "discard"
    [] status = "pending" ->
         IF v > p.ver THEN "recovery_required" ELSE "unchanged"

\* The session and the outcome after the sync settled the pending update,
\* before it looks at the epoch.
apply_pending_barrier_activation_from_history(s, t) ==
  LET out == IF s.pend = NoKey
               THEN "unchanged"
               ELSE resolve_pending_barrier_history(s.pend, Ver(t))
  IN [out |-> out,
      s   |-> CASE out = "unchanged" -> s
                [] out = "activate" -> Activate(s, s.pend)
                [] out = "discard" -> [s EXCEPT !.pend = NoKey]
                [] out = "recovery_required" -> enter_barrier_recovery(s)]

\* The chain check of an update fails in a way of its own when the update
\* does not directly follow the session's barrier version.
full_chain_check_gap(s, k) == k.ver # s.ver + 1

\* Only an update of another member can be opened.
try_recover_barrier(k) == k.id = 0

\* The sessions a sync can leave when epoch t carries a barrier update that
\* it did not just activate; none when the sync fails.  The state of a device
\* that skipped a version is never taken for fully verified.
reconcile_epoch_sync_barrier_bundle(s, t) ==
  LET k     == epochs[t].key
      gap   == full_chain_check_gap(s, k)
      opens == try_recover_barrier(k) /\ ~(gap /\ epochs[t].reason = 1)
  IN (IF opens THEN {apply_recovered_barrier_state(s, k, ~gap)} ELSE {})
     \cup (IF gap THEN {enter_barrier_recovery(s)} ELSE {})

\* The sessions, with the flag `changed`, that a sync holding ticket t may
\* return.
perform_epoch_sync(s, t) ==
  LET r     == apply_pending_barrier_activation_from_history(s, t)
      moved == [r.s EXCEPT !.we = t, !.root = epochs[t].root]
      own   == r.out = "activate" /\ s.pend = epochs[t].key
      after == IF epochs[t].upd /\ ~own
                 THEN reconcile_epoch_sync_barrier_bundle(moved, t)
                 ELSE {moved}
  IN IF t = s.we
       THEN {[s |-> install_authenticated_current_state(r.s, Ver(t)),
              changed |-> r.s.ver # Ver(t) \/ r.out # "unchanged"]}
       ELSE {[s |-> install_authenticated_current_state(x, Ver(t)),
              changed |-> TRUE] : x \in after}

\* The session a publisher builds for itself from its accepted merge: epoch
\* i, pending update p.
apply_local_published_barrier_merge(s, i, p) ==
  [Activate(s, p) EXCEPT !.we = i, !.root = epochs[i].root]

----------------------------------------------------------------------------
(* The room.                                                                *)

\* A device that has just been accepted into the room: it has no barrier key
\* yet, its session is on disk, and the finalization of its join is about to
\* run.
Joined == [we |-> 2, ver |-> 1, key |-> NoKey, pend |-> NoKey,
           recov |-> TRUE, full |-> FALSE, root |-> 1]

\* The founder of the room, whose first attempt made the first barrier.
Founder == [Joined EXCEPT !.key = [ver |-> 1, id |-> 1],
                          !.recov = FALSE, !.full = TRUE]

\* The room has its first barrier and the epoch of a join.
FirstEpochs(k) ==
  <<[key |-> k, upd |-> TRUE, reason |-> 0, root |-> 0],
    [key |-> k, upd |-> FALSE, reason |-> 0, root |-> 1]>>

Init ==
  /\ \/ /\ epochs = FirstEpochs([ver |-> 1, id |-> 0])
        /\ mem = NoSession /\ disk = Joined
        /\ pub = [IdlePub EXCEPT !.at = "verify", !.kind = "finalize",
                                 !.s = Joined]
        /\ tries = 0
     \/ /\ epochs = FirstEpochs(Founder.key)
        /\ mem = Founder /\ disk = Founder
        /\ pub = IdlePub
        /\ tries = 1
  /\ wire = {}
  /\ sync = IdleSync
  /\ roster = NoPage
  /\ crashes = 0

\* Another member joins: a new epoch and membership root, the same barrier.
PeerJoin ==
  /\ Tip < MaxEpochs
  /\ epochs' = Append(epochs, [key |-> epochs[Tip].key, upd |-> FALSE,
                               reason |-> 0, root |-> epochs[Tip].root + 1])
  /\ UNCHANGED <<wire, mem, disk, sync, pub, roster, tries, crashes>>

\* Another member's barrier update is accepted.
PeerUpdate(reason) ==
  /\ Tip < MaxEpochs
  /\ epochs' = Append(epochs,
       [key |-> [ver |-> Ver(Tip) + 1, id |-> 0], upd |-> TRUE,
        reason |-> reason,
        root |-> epochs[Tip].root + (IF reason = 0 THEN 1 ELSE 0)])
  /\ UNCHANGED <<wire, mem, disk, sync, pub, roster, tries, crashes>>

\* The answer reaches the publication that waits for it.
Reply(m, answer) ==
  IF pub.at = "wait" /\ pub.p = m.p THEN [pub EXCEPT !.reply = answer] ELSE pub

\* The server accepts a merge built on its current barrier and roster.
ServerAccept(m) ==
  /\ Tip < MaxEpochs
  /\ m.p.ver = Ver(Tip) + 1
  /\ epochs[m.t].root = epochs[Tip].root
  /\ epochs' = Append(epochs,
       [key |-> m.p, upd |-> TRUE, reason |-> ReasonOf[m.kind],
        root |-> epochs[Tip].root + (IF m.kind = "expel" THEN 1 ELSE 0)])
  /\ wire' = wire \ {m}
  /\ pub' = Reply(m, "ok")
  /\ UNCHANGED <<mem, disk, sync, roster, tries, crashes>>

\* It refuses one, because the room moved on or for a reason of its own; it
\* may say that the device's epoch counter runs too far ahead of the group's.
ServerRefuse(m, answer) ==
  /\ wire' = wire \ {m}
  /\ pub' = Reply(m, answer)
  /\ UNCHANGED <<epochs, mem, disk, sync, roster, tries, crashes>>

----------------------------------------------------------------------------
(* Epoch sync.                                                              *)

\* A second request while a sync runs is dropped.
schedule_epoch_sync(s) ==
  IF sync.at = "idle" THEN [IdleSync EXCEPT !.at = "ticket", !.s = s] ELSE sync

\* A WebSocket hint or a reconnection asks for a sync.
Hint ==
  /\ mem # NoSession
  /\ sync.at = "idle"
  /\ sync' = schedule_epoch_sync(mem)
  /\ UNCHANGED <<epochs, wire, mem, disk, pub, roster, tries, crashes>>

\* The merge ticket: the server's head at this moment.
SyncTicket ==
  /\ sync.at = "ticket"
  /\ sync.s.ver <= Ver(Tip)
  /\ sync' = [sync EXCEPT !.at = "resolve", !.t = Tip]
  /\ UNCHANGED <<epochs, wire, mem, disk, pub, roster, tries, crashes>>

\* The lookup of the pending merge and the bundle of the ticket's epoch.
SyncResolve ==
  /\ sync.at = "resolve"
  /\ \E r \in perform_epoch_sync(sync.s, sync.t) :
       sync' = [sync EXCEPT !.at = "done", !.s = r.s, !.changed = r.changed]
  /\ UNCHANGED <<epochs, wire, mem, disk, pub, roster, tries, crashes>>

\* A request fails, or the bundle cannot be opened or verified.
SyncFails ==
  /\ sync.at \in {"ticket", "resolve"}
  /\ sync' = IdleSync
  /\ UNCHANGED <<epochs, wire, mem, disk, pub, roster, tries, crashes>>

\* The interface installs and persists a session that changed; it refreshes
\* the roster.
handle_epoch_sync_result ==
  /\ sync.at = "done"
  /\ sync' = IdleSync
  /\ IF sync.changed /\ mem # NoSession
       THEN /\ mem' = sync.s
            /\ disk' = sync.s
            /\ roster' = IF roster = NoPage THEN Loading ELSE roster
       ELSE UNCHANGED <<mem, disk, roster>>
  /\ UNCHANGED <<epochs, wire, pub, tries, crashes>>

----------------------------------------------------------------------------
(* Roster refresh.                                                          *)

RosterRefresh ==
  /\ mem # NoSession
  /\ roster = NoPage
  /\ roster' = Loading
  /\ UNCHANGED <<epochs, wire, mem, disk, sync, pub, tries, crashes>>

RosterRead ==
  /\ roster = Loading
  /\ roster' = [at |-> "page", root |-> epochs[Tip].root]
  /\ UNCHANGED <<epochs, wire, mem, disk, sync, pub, tries, crashes>>

\* The page arrives.  A root the session does not have is stored in it, the
\* session is persisted and a sync is asked for.
on_members_refreshed ==
  /\ roster.at = "page"
  /\ roster' = NoPage
  /\ LET s == [mem EXCEPT !.root = roster.root] IN
     IF s # mem
       THEN /\ mem' = s
            /\ disk' = s
            /\ sync' = schedule_epoch_sync(s)
       ELSE UNCHANGED <<mem, disk, sync>>
  /\ UNCHANGED <<epochs, wire, pub, tries, crashes>>

----------------------------------------------------------------------------
(* Publication.                                                             *)

\* Only a device whose barrier state is verified in full may originate an
\* update.  A join finalization may run while recovery is pending, and first
\* verifies the state the join started from.
guard_barrier_origin(kind, s) ==
  CASE s.recov /\ kind # "finalize" -> "Refused"
    [] s.recov /\ kind = "finalize" /\ ~s.full -> "RequiresBootstrapVerification"
    [] OTHER -> IF s.full THEN "Allowed" ELSE "Refused"

StartPublish(kind) ==
  /\ pub.at = "idle"
  /\ mem # NoSession
  /\ guard_barrier_origin(kind, mem) = "Allowed"
  /\ pub' = [IdlePub EXCEPT !.at = "ticket", !.kind = kind, !.s = mem]
  /\ UNCHANGED <<epochs, wire, mem, disk, sync, roster, tries, crashes>>

start_pcs_refresh == StartPublish("refresh")
start_member_expulsion == StartPublish("expel")

\* The state the join started from is verified and the session on disk marked
\* so, with recovery still pending and no key; the task's own copy is not.
ensure_join_finalize_bootstrap_verified ==
  /\ pub.at = "verify"
  /\ guard_barrier_origin(pub.kind, pub.s) = "RequiresBootstrapVerification"
  /\ disk.full \/ disk.recov
  /\ disk' = [disk EXCEPT !.full = TRUE]
  /\ pub' = [pub EXCEPT !.at = "ticket"]
  /\ UNCHANGED <<epochs, wire, mem, sync, roster, tries, crashes>>

\* The ticket must not be older than the session the task started from.
TakeTicket ==
  /\ pub.at = "ticket"
  /\ pub.s.ver <= Ver(Tip)
  /\ pub' = [pub EXCEPT !.at = "build", !.t = Tip]
  /\ UNCHANGED <<epochs, wire, mem, disk, sync, roster, tries, crashes>>

prepare_barrier_merge_ticket == pub.kind # "expel" /\ TakeTicket
publish_revocation_merge_from_ticket == pub.kind = "expel" /\ TakeTicket

\* The merge is built and its pending state written into the session on disk,
\* whichever session that is by now.
persist_pending_barrier_state_before_publish(p) ==
  disk' = [disk EXCEPT !.pend = p]

PublishBuild ==
  /\ pub.at = "build"
  /\ tries < MaxTries
  /\ LET p == [ver |-> Ver(pub.t) + 1, id |-> tries + 1] IN
     /\ persist_pending_barrier_state_before_publish(p)
     /\ pub' = [pub EXCEPT !.at = "send", !.p = p]
  /\ tries' = tries + 1
  /\ UNCHANGED <<epochs, wire, mem, sync, roster, crashes>>

PublishSend ==
  /\ pub.at = "send"
  /\ wire' = wire \cup {[kind |-> pub.kind, p |-> pub.p, t |-> pub.t]}
  /\ pub' = [pub EXCEPT !.at = "wait", !.reply = "none"]
  /\ UNCHANGED <<epochs, mem, disk, sync, roster, tries, crashes>>

\* Refused for running ahead of the group, a merge that is no revocation is
\* rebuilt without the evolution step and sent once more.
PublishRetry ==
  /\ pub.at = "wait" /\ pub.reply = "jump"
  /\ pub.kind # "expel" /\ ~pub.again
  /\ pub' = [pub EXCEPT !.at = "build", !.again = TRUE]
  /\ UNCHANGED <<epochs, wire, mem, disk, sync, roster, tries, crashes>>

\* The epoch of an accepted merge.
EpochOf(p) == CHOOSE i \in Updates : epochs[i].key = p

\* An expulsion or a join finalization that was accepted is applied to the
\* task's own session and persisted, on the task's thread.
PublishApply ==
  /\ pub.at = "wait" /\ pub.reply = "ok" /\ pub.kind # "refresh"
  /\ LET s == apply_local_published_barrier_merge(pub.s, EpochOf(pub.p), pub.p) IN
     /\ disk' = s
     /\ pub' = [pub EXCEPT !.at = "applied", !.s = s]
  /\ UNCHANGED <<epochs, wire, mem, sync, roster, tries, crashes>>

\* When that fails, the task syncs the session on disk instead.
ActivationFails ==
  /\ pub.at = "wait" /\ pub.reply = "ok" /\ pub.kind # "refresh"
  /\ pub' = [pub EXCEPT !.at = "fallback", !.s = disk, !.reply = "none"]
  /\ UNCHANGED <<epochs, wire, mem, disk, sync, roster, tries, crashes>>

FallbackTicket ==
  /\ pub.at = "fallback"
  /\ pub.s.ver <= Ver(Tip)
  /\ pub' = [pub EXCEPT !.at = "resync", !.t = Tip]
  /\ UNCHANGED <<epochs, wire, mem, disk, sync, roster, tries, crashes>>

\* A sync that ends the recovery is kept, without the pending update; one that
\* does not fails the task.
FallbackResolve ==
  /\ pub.at = "resync"
  /\ \E r \in perform_epoch_sync(pub.s, pub.t) :
       /\ ~r.s.recov
       /\ LET s == [r.s EXCEPT !.pend = NoKey] IN
          /\ disk' = s
          /\ pub' = [pub EXCEPT !.at = "applied", !.s = s]
  /\ UNCHANGED <<epochs, wire, mem, sync, roster, tries, crashes>>

on_member_expel_finished ==
  /\ pub.at = "applied" /\ pub.kind = "expel"
  /\ mem' = pub.s
  /\ pub' = IdlePub
  /\ roster' = Loading
  /\ UNCHANGED <<epochs, wire, disk, sync, tries, crashes>>

\* A join ends with the finalized session, or, when the finalization failed,
\* with whatever is on disk; it is persisted again and synced.
on_join_finished(s) ==
  /\ mem' = s
  /\ disk' = s
  /\ pub' = IdlePub
  /\ roster' = Loading
  /\ sync' = schedule_epoch_sync(s)

JoinFinished ==
  /\ pub.at = "applied" /\ pub.kind = "finalize"
  /\ on_join_finished(pub.s)
  /\ UNCHANGED <<epochs, wire, tries, crashes>>

\* A PCS refresh is not applied locally: the interface reloads the session on
\* disk and leaves the activation to an epoch sync.
on_refresh_finished ==
  /\ pub.at = "wait" /\ pub.reply = "ok" /\ pub.kind = "refresh"
  /\ mem' = disk
  /\ pub' = IdlePub
  /\ sync' = schedule_epoch_sync(disk)
  /\ UNCHANGED <<epochs, wire, disk, roster, tries, crashes>>

\* Faulty variant: a failed task keeps its values.
PublishFails_NoReset ==
  /\ pub.at \in {"verify", "ticket", "build", "send", "wait", "fallback", "resync"}
  /\ pub.reply # "ok"
  /\ IF pub.kind = "finalize"
       THEN on_join_finished(disk)
       ELSE /\ pub' = [pub EXCEPT !.at = "idle"]
            /\ UNCHANGED <<mem, disk, sync, roster>>
  /\ UNCHANGED <<epochs, wire, tries, crashes>>

\* Any request of the publication fails or times out, the merge was refused,
\* or the sync after a failed activation leaves recovery pending.  What was
\* sent may still be accepted.
PublishFails ==
  /\ pub.at \in {"verify", "ticket", "build", "send", "wait", "fallback", "resync"}
  /\ pub.reply # "ok"
  /\ IF pub.kind = "finalize"
       THEN on_join_finished(disk)
       ELSE /\ pub' = IdlePub
            /\ UNCHANGED <<mem, disk, sync, roster>>
  /\ UNCHANGED <<epochs, wire, tries, crashes>>

----------------------------------------------------------------------------
\* The process ends at any point and is started again: the session on disk is
\* restored and synced.
Restart ==
  /\ crashes < MaxCrashes
  /\ crashes' = crashes + 1
  /\ mem' = disk
  /\ sync' = [IdleSync EXCEPT !.at = "ticket", !.s = disk]
  /\ pub' = IdlePub
  /\ roster' = NoPage
  /\ UNCHANGED <<epochs, wire, disk, tries>>

Next ==
  \/ PeerJoin
  \/ \E reason \in PeerReasons : PeerUpdate(reason)
  \/ \E m \in wire : ServerAccept(m)
  \/ \E m \in wire : \E answer \in {"jump", "no"} : ServerRefuse(m, answer)
  \/ Hint \/ SyncTicket \/ SyncResolve \/ SyncFails \/ handle_epoch_sync_result
  \/ RosterRefresh \/ RosterRead \/ on_members_refreshed
  \/ start_pcs_refresh \/ start_member_expulsion
  \/ ensure_join_finalize_bootstrap_verified
  \/ prepare_barrier_merge_ticket \/ publish_revocation_merge_from_ticket
  \/ PublishBuild \/ PublishSend \/ PublishRetry
  \/ PublishApply \/ ActivationFails \/ FallbackTicket \/ FallbackResolve
  \/ on_member_expel_finished \/ JoinFinished
  \/ on_refresh_finished \/ PublishFails
  \/ Restart

Spec == Init /\ [][Next]_vars

----------------------------------------------------------------------------
(* Properties.                                                              *)

\* The shape of the state; a task that ended left nothing behind, and there is
\* a session in memory unless the join is still being finalized.
TypeOK ==
  /\ epochs \in Seq(Epoch) /\ Len(epochs) >= 2
  /\ wire \subseteq Merge
  /\ mem \in AppSession /\ disk \in AppSession
  /\ sync \in Sync /\ (sync.at = "idle" => sync = IdleSync)
  /\ pub \in Publish /\ (pub.at = "idle" => pub = IdlePub)
  /\ mem = NoSession => pub.at # "idle" /\ pub.kind = "finalize"
  /\ roster \in Roster
  /\ tries \in 0 .. MaxTries
  /\ crashes \in 0 .. MaxCrashes

\* Every copy of the session the client holds.
Sessions == {mem, disk, sync.s, pub.s}

\* The client never takes an update the room did not accept for the barrier:
\* every barrier key in a session, in memory, on disk or in the hands of a
\* task, is the one of an accepted epoch.  Merges that were refused, that were
\* superseded, that timed out or that a crash cut off are never activated.
KeysAreAccepted ==
  \A s \in Sessions : s.key # NoKey => s.key \in Accepted

\* What the mark of full verification means.  A session that carries it holds
\* the key of the very barrier version it names; the one exception is a device
\* that joined and still waits for its first key, whose mark only says that
\* ensure_join_finalize_bootstrap_verified checked the state it joined, and
\* which has recovery pending and no key at all.  guard_barrier_origin asks for
\* the mark and, of all but a join finalization, that no recovery is pending:
\* no refresh and no expulsion is built on a barrier the device does not hold.
FullMeansCurrent ==
  \A s \in Sessions :
    s.full => IF s.recov THEN s.key = NoKey
                         ELSE s.key # NoKey /\ s.key.ver = s.ver

\* Epoch sync never throws away an update the room may still accept: when it
\* drops the pending update, the update's version is taken, by itself or by
\* another one.  A request that is still on its way, after a timeout or a
\* restart, therefore keeps its keys as far as the sync is concerned.  (The
\* sync inside a publication, FallbackResolve, drops it whatever it finds: it
\* runs after the server's Ok.)
DropIsSettled ==
  [][(SyncResolve /\ sync.s.pend # NoKey /\ sync'.s.pend = NoKey)
       => sync.s.pend.ver <= Ver(Tip)]_vars
=============================================================================
