----------------------------- MODULE NativeRoom -----------------------------
(***************************************************************************)
(* One room behind the native API while its process runs (cityg-api:       *)
(* accept_helpers.rs, ticket_routes.rs, message_routes.rs,                 *)
(* bundle_routes.rs; cityg-runtime: volatile.rs, service.rs).              *)
(*                                                                         *)
(* The lane (CityGServer), the volatile room state and the cache of leave  *)
(* tickets have a lock each.  A handler takes them one after the other and *)
(* reads the clock before it waits, so requests interleave between locks   *)
(* and stamps are older than the step that uses them.  What one lock       *)
(* covers is one action.                                                   *)
(*                                                                         *)
(* A membership root is the set it is a hash of; an epoch is its position  *)
(* in the lane.  Which bundles a lane accepts is the subject of SlotRoster *)
(* and EpochGate; here a bundle is accepted on the roots they allow.  The  *)
(* stamps in the member index are left out, and so is weid_to_leaf, which  *)
(* no route reads.                                                         *)
(***************************************************************************)
EXTENDS Integers, Sequences, FiniteSets, Functions

CONSTANTS
    Leaves,
    Requests,       \* merge_ticket requests that can be in progress together
    AcceptMax,      \* permits of accept_epoch_limiter
    Retention,      \* message_retention
    PruneInterval,  \* MESSAGE_PRUNE_INTERVAL_MS
    CoalesceTtl,    \* MERGE_COALESCE_TTL_MS
    CoalesceMax,    \* MERGE_COALESCE_MAX_ENTRIES
    MaxDelay,       \* longest wait of a handler after it read the clock
    MaxEpochs, MaxMessages, MaxClock    \* bounds on a behaviour

NoLeaf == "none"

ASSUME NativeRoomAssumption ==
    /\ IsFiniteSet(Leaves) /\ IsFiniteSet(Requests) /\ NoLeaf \notin Leaves
    /\ {AcceptMax, CoalesceMax} \subseteq Nat \ {0}
    /\ {Retention, PruneInterval, CoalesceTtl, MaxDelay, MaxEpochs,
        MaxMessages, MaxClock} \subseteq Nat

VARIABLES
    clock,
    epochs,         \* the lane: accepted epochs, in order
    accepting,      \* acceptances that have left the lane: epoch and next step
    meta,           \* leaves of member_metadata
    scopes,         \* epochs of epoch_scopes
    bundles,        \* stored_at_ms of the bundles
    bundle_due,
    messages,
    message_due,
    merging,        \* merge_ticket requests that missed the cache
    cache,          \* merge_ticket_cache, by leaf
    sent,           \* history: the messages acknowledged
    overlapped      \* history: leaves that had two epochs uncommitted at once

vars == <<clock, epochs, accepting, meta, scopes, bundles, bundle_due, messages,
          message_due, merging, cache, sent, overlapped>>

room_state == <<meta, scopes, bundles, bundle_due, messages, message_due>>

Never == MaxClock + 1

(* HashMap::insert. *)
Insert(f, k, v) == [x \in DOMAIN f \cup {k} |-> IF x = k THEN v ELSE f[x]]

(* A ticket request: its leaf, its stamp, whether the ticket is built, and *)
(* (history) when an acceptance replaced the state it was built on.        *)
NoTask == [leaf |-> NoLeaf, at |-> 0, built |-> FALSE, until |-> Never]

Init ==
    /\ clock = 0
    /\ epochs = <<>>
    /\ accepting = {}
    /\ meta = {} /\ scopes = {} /\ bundles = <<>> /\ bundle_due = 0
    /\ messages = {} /\ message_due = 0
    /\ merging = [r \in Requests |-> NoTask]
    /\ cache = <<>>
    /\ sent = {}
    /\ overlapped = {}

(* The values current_timestamp_ms may have returned to a handler that now *)
(* gets its lock.                                                          *)
Stamps == {t \in 0 .. clock : clock - t <= MaxDelay}

-----------------------------------------------------------------------------
(* The lane.                                                               *)

latest_members == IF epochs = <<>> THEN {} ELSE epochs[Len(epochs)].members

(* The epochs since the last merge.  A join is accepted on the root of any *)
(* of them, and on the empty room before the first merge.                  *)
SinceMerge == {i \in DOMAIN epochs :
                  \A j \in DOMAIN epochs : j > i => epochs[j].kind = "join"}

JoinBases == IF \A i \in DOMAIN epochs : epochs[i].kind = "join"
             THEN {{}}
             ELSE {epochs[i].members : i \in SinceMerge}

(* Epochs about leaf l whose index update has not happened yet.            *)
Uncommitted(l) == {a.epoch : a \in {x \in accepting :
                      x.next = "commit" /\ epochs[x.epoch].leaf = l}}

Outdated(ticket) == [ticket EXCEPT !.until = IF @ = Never THEN clock ELSE @]

(* prepare_accepted_bundle under the lane's lock.  The tickets built so    *)
(* far are out of date from here on.                                       *)
prepare_accepted_bundle(kind, l, members) ==
    /\ Len(epochs) < MaxEpochs
    /\ Cardinality(accepting) < AcceptMax
    /\ epochs' = Append(epochs, [kind |-> kind, leaf |-> l, members |-> members])
    /\ accepting' = accepting \cup {[epoch |-> Len(epochs) + 1, next |-> "commit"]}
    /\ overlapped' = IF Uncommitted(l) # {} THEN overlapped \cup {l} ELSE overlapped
    /\ merging' = [r \in Requests |-> IF merging[r].built THEN Outdated(merging[r])
                                                           ELSE merging[r]]
    /\ cache' = [x \in DOMAIN cache |-> Outdated(cache[x])]
    /\ UNCHANGED <<clock, room_state, sent>>

AcceptJoin == \E l \in Leaves \ latest_members, base \in JoinBases :
    l \notin base /\ prepare_accepted_bundle("join", l, base \cup {l})

AcceptLeave == \E l \in latest_members :
    prepare_accepted_bundle("leave", l, latest_members \ {l})

AcceptRefresh ==
    /\ latest_members # {}
    /\ prepare_accepted_bundle("refresh", NoLeaf, latest_members)

-----------------------------------------------------------------------------
(* The volatile room state.                                                *)

(* Faulty variant: entries of exactly the retention's age are dropped.     *)
CutoffEarly(now) == IF now > Retention THEN now - Retention + 1 ELSE 0

cutoff(now) == IF now > Retention THEN now - Retention ELSE 0

(* should_prune_due: pruning at `now` is due, and moves the due time.      *)
should_prune_due(due, now) == now >= due

NextDue(due, now) == IF should_prune_due(due, now) THEN now + PruneInterval ELSE due

expired_bundles(now) ==
    IF should_prune_due(bundle_due, now)
    THEN {e \in DOMAIN bundles : bundles[e] < cutoff(now)}
    ELSE {}

prune_messages(ms, now) ==
    IF should_prune_due(message_due, now)
    THEN {m \in ms : m.at >= cutoff(now)}
    ELSE ms

(* Faulty variant: the leaf of a leave keeps its entry.                    *)
IndexesUnrevoked(e, now) ==
    LET expired == expired_bundles(now)
    IN  /\ meta' = IF epochs[e].kind = "join" THEN meta \cup {epochs[e].leaf} ELSE meta
        /\ scopes' = (scopes \cup {e}) \ expired
        /\ bundles' = Insert(Restrict(bundles, DOMAIN bundles \ expired), e, now)
        /\ bundle_due' = NextDue(bundle_due, now)
        /\ UNCHANGED <<messages, message_due>>

(* Epoch scope, joined and revoked leaves, then store_bundle, which drops  *)
(* the bundles that expired and their scopes.                              *)
apply_bundle_indexes(e, now) ==
    LET expired == expired_bundles(now)
    IN  /\ meta' = CASE epochs[e].kind = "join"  -> meta \cup {epochs[e].leaf}
                     [] epochs[e].kind = "leave" -> meta \ {epochs[e].leaf}
                     [] OTHER -> meta
        /\ scopes' = (scopes \cup {e}) \ expired
        /\ bundles' = Insert(Restrict(bundles, DOMAIN bundles \ expired), e, now)
        /\ bundle_due' = NextDue(bundle_due, now)
        /\ UNCHANGED <<messages, message_due>>

commit_accepted_bundle(a) ==
    /\ a.next = "commit"
    /\ \E now \in Stamps : apply_bundle_indexes(a.epoch, now)
    /\ accepting' = (accepting \ {a}) \cup {[a EXCEPT !.next = "clear"]}
    /\ UNCHANGED <<clock, epochs, merging, cache, sent, overlapped>>

(* The first lookup of the scope only finds the lane; under both locks the *)
(* scope is looked up again.                                               *)
send_message(l, e, now) ==
    /\ e \in scopes
    /\ l \in epochs[e].members \cap latest_members
    /\ Cardinality(sent) < MaxMessages
    /\ LET m == [epoch |-> e, at |-> now, bundled |-> bundles[e]]
       IN  /\ messages' = prune_messages(messages \cup {m}, now)
           /\ sent' = sent \cup {m}
    /\ message_due' = NextDue(message_due, now)
    /\ UNCHANGED <<clock, epochs, accepting, meta, scopes, bundles, bundle_due,
                   merging, cache, overlapped>>

fetch_messages(l, e, now) ==
    /\ e \in scopes
    /\ l \in epochs[e].members
    /\ messages' = prune_messages(messages, now)
    /\ message_due' = NextDue(message_due, now)
    /\ UNCHANGED <<clock, epochs, accepting, meta, scopes, bundles, bundle_due,
                   merging, cache, sent, overlapped>>

(* Whichever bundle is asked for.                                          *)
get_bundle(now) ==
    LET expired == expired_bundles(now)
    IN  /\ scopes' = scopes \ expired
        /\ bundles' = Restrict(bundles, DOMAIN bundles \ expired)
        /\ bundle_due' = NextDue(bundle_due, now)
        /\ UNCHANGED <<clock, epochs, accepting, meta, messages, message_due,
                       merging, cache, sent, overlapped>>

-----------------------------------------------------------------------------
(* The cache of leave tickets.                                             *)

(* The entries still live for a request stamped `now`; the subtraction     *)
(* saturates, so an entry younger than the request is live.                *)
LiveEntries(now) ==
    Restrict(cache, {l \in DOMAIN cache : now - cache[l].at <= CoalesceTtl})

coalesced_merge_ticket_lookup(r, l, now) ==
    /\ merging[r] = NoTask
    /\ cache' = LiveEntries(now)
    /\ merging' = IF l \in DOMAIN LiveEntries(now) THEN merging
                  ELSE [merging EXCEPT ![r] = [leaf |-> l, at |-> now, built |-> FALSE,
                                                until |-> Never]]
    /\ UNCHANGED <<clock, epochs, accepting, room_state, sent, overlapped>>

(* Under the lane's lock; a leaf that is no member is refused.             *)
prepare_merge_ticket(r) ==
    /\ merging[r] # NoTask
    /\ ~merging[r].built
    /\ merging' = [merging EXCEPT ![r] = IF @.leaf \in latest_members
                                         THEN [@ EXCEPT !.built = TRUE]
                                         ELSE NoTask]
    /\ UNCHANGED <<clock, epochs, accepting, room_state, cache, sent, overlapped>>

(* The cache with a new entry for leaf l: the oldest goes if it is full.   *)
Inserted(live, l, entry) ==
    {Insert(kept, l, entry) :
        kept \in IF l \in DOMAIN live \/ Cardinality(DOMAIN live) < CoalesceMax
                 THEN {live}
                 ELSE {Restrict(live, DOMAIN live \ {x}) :
                          x \in {y \in DOMAIN live :
                                    \A z \in DOMAIN live : live[y].at <= live[z].at}}}

(* Faulty variant: nothing is evicted.                                     *)
StoreUnbounded(r) ==
    LET t == merging[r] IN
    /\ t.built
    /\ cache' = Insert(LiveEntries(t.at), t.leaf, [at |-> t.at, until |-> t.until])
    /\ merging' = [merging EXCEPT ![r] = NoTask]
    /\ UNCHANGED <<clock, epochs, accepting, room_state, sent, overlapped>>

(* Faulty variant: the entry's age counts from the time it is stored.      *)
StoreStampedLate(r) ==
    LET t == merging[r] IN
    /\ t.built
    /\ cache' \in Inserted(LiveEntries(clock), t.leaf, [at |-> clock, until |-> t.until])
    /\ merging' = [merging EXCEPT ![r] = NoTask]
    /\ UNCHANGED <<clock, epochs, accepting, room_state, sent, overlapped>>

coalesced_merge_ticket_store(r) ==
    LET t == merging[r] IN
    /\ t.built
    /\ cache' \in Inserted(LiveEntries(t.at), t.leaf, [at |-> t.at, until |-> t.until])
    /\ merging' = [merging EXCEPT ![r] = NoTask]
    /\ UNCHANGED <<clock, epochs, accepting, room_state, sent, overlapped>>

(* The last step of an acceptance, before its answer.                      *)
clear_merge_ticket_cache(a) ==
    /\ a.next = "clear"
    /\ cache' = <<>>
    /\ accepting' = accepting \ {a}
    /\ UNCHANGED <<clock, epochs, room_state, merging, sent, overlapped>>

Tick ==
    /\ clock < MaxClock
    /\ clock' = clock + 1
    /\ UNCHANGED <<epochs, accepting, room_state, merging, cache, sent, overlapped>>

Next ==
    \/ AcceptJoin
    \/ AcceptLeave
    \/ AcceptRefresh
    \/ \E a \in accepting : commit_accepted_bundle(a)
    \/ \E a \in accepting : clear_merge_ticket_cache(a)
    \/ \E l \in Leaves, e \in scopes, now \in Stamps : send_message(l, e, now)
    \/ \E l \in Leaves, e \in scopes, now \in Stamps : fetch_messages(l, e, now)
    \/ \E now \in Stamps : get_bundle(now)
    \/ \E r \in Requests, l \in Leaves, now \in Stamps :
          coalesced_merge_ticket_lookup(r, l, now)
    \/ \E r \in Requests : prepare_merge_ticket(r)
    \/ \E r \in Requests : coalesced_merge_ticket_store(r)
    \/ Tick

Spec == Init /\ [][Next]_vars

-----------------------------------------------------------------------------
(* The cache keeps its bound, whatever its requests overlap with; an epoch *)
(* has a scope exactly while its bundle is stored.                         *)
TypeOK ==
    /\ clock \in 0 .. MaxClock
    /\ epochs \in Seq([kind : {"join", "leave", "refresh"}, leaf : Leaves \cup {NoLeaf},
                       members : SUBSET Leaves])
    /\ accepting \subseteq [epoch : DOMAIN epochs, next : {"commit", "clear"}]
    /\ meta \subseteq Leaves
    /\ scopes = DOMAIN bundles /\ scopes \subseteq DOMAIN epochs
    /\ messages \subseteq sent
    /\ DOMAIN cache \subseteq Leaves /\ Cardinality(DOMAIN cache) <= CoalesceMax

(* The member index (member_metadata) agrees with the lane: once the index *)
(* updates of a leaf's epochs are done, it lists the leaf exactly if the   *)
(* last of them was its join.  The lane's lock is given back before the    *)
(* room lock is taken, so the updates of different leaves may be applied   *)
(* in any order; only a leaf with two epochs between the locks at the same *)
(* time may be left with the wrong entry.                                  *)
IndexFollowsLane ==
    \A l \in Leaves \ overlapped :
        Uncommitted(l) = {} =>
            (l \in meta <=> \E i \in DOMAIN epochs :
                /\ epochs[i].leaf = l /\ epochs[i].kind = "join"
                /\ \A j \in DOMAIN epochs : j > i => epochs[j].leaf # l)

(* A leave ticket answered from the cache (coalesced_merge_ticket_lookup)  *)
(* is out of date by the TTL at most: the state it was built on was still  *)
(* the room's within CoalesceTtl of the request.  An acceptance clears the *)
(* cache, but a ticket built before it may be stored after it.             *)
CachedTicketIsRecent ==
    \A now \in Stamps : \A l \in DOMAIN LiveEntries(now) :
        cache[l].until + CoalesceTtl >= now

(* An acknowledged message is there to be fetched for the retention time   *)
(* of the message and of its epoch's bundle: prune_expired_messages spares *)
(* it, and prune_expired_weids spares the scope fetch_messages needs.  The *)
(* pruning uses the stamps of requests that may have waited, and a message *)
(* goes out of reach with its epoch even if it is young itself.            *)
AckedMessageIsServed ==
    \A m \in sent :
        clock - m.at <= Retention /\ clock - m.bundled <= Retention =>
            m \in messages /\ m.epoch \in scopes

=============================================================================
