---------------------------- MODULE AnchorWindow ----------------------------
(***************************************************************************)
(* The acceptance window of msphf-orchestrator as cityg-server drives it:  *)
(* the accept clock (time.rs), the multi-head window with its reverse      *)
(* index (mhw.rs), the rho replay guard (accept/mod.rs), the pivot-parity  *)
(* store (lib.rs) and the mirroring of live parities onto the root an      *)
(* accepted anchor leads to (cityg-server apply_bundle_to_state).          *)
(*                                                                         *)
(* One clock and one set of tables serve all groups.  An anchor is staged  *)
(* on clones and installed as a whole or not at all, so a refused anchor   *)
(* changes nothing and each accepted one is a single step.                 *)
(*                                                                         *)
(* A seed stands for the hash of the anchor's seed context.  It covers the *)
(* author's device-chain commitment, which the chain accepts once, so a    *)
(* seed is accepted once per group.  rho is derived from the author's      *)
(* signature over the anchor, so a join's rho is as unique as its seed.    *)
(***************************************************************************)
EXTENDS Integers, FiniteSets

CONSTANTS
    Gids,      \* groups
    Roots,     \* membership roots
    Zero,      \* the all-zero root a group's first anchor builds on
    Seeds,     \* seed-context hashes
    HMaxes,    \* values update_window_limits may give h_max
    Ttls,      \* values update_window_limits may give the window TTL
    RhoLimit   \* capacity of the rho guard per (group, parent root)

ASSUME AnchorWindowAssumption ==
    /\ Zero \in Roots
    /\ HMaxes \subseteq Nat \ {0} /\ HMaxes # {}
    /\ Ttls \subseteq Nat /\ Ttls # {}
    /\ RhoLimit \in Nat

VARIABLES
    clock,     \* AcceptClock.next_tick
    h_max, ttl,
    heads,     \* MultiHeadWindow.heads: live records, each in its window
    index,     \* MultiHeadWindow.weid_index: we_epoch_id -> window id
    rho_guard, \* RhoReplayGuard.entries
    pivots,    \* PivotParityStore.entries, keyed by (gid, parent root)
    chained,   \* (group, seed) pairs the device chains have accepted
    known,     \* roots with a membership snapshot, per group
    latest,    \* the group's latest root, Zero before its first anchor
    fresh      \* history: groups whose last anchor has stayed within the TTL

vars == <<clock, h_max, ttl, heads, index, rho_guard, pivots, chained, known,
          latest, fresh>>

Wids == Gids \X Roots \X Seeds

(* compute_window_id and derive_we_epoch_id hash the same three values.    *)
Wid(g, p, s)  == <<g, p, s>>
Weid(g, p, s) == <<g, p, s>>

Head   == [wid : Wids, weid : Wids, rho : Seeds, time : Nat]
Parity == [gid : Gids, root : Roots, weid : Wids, rho : Seeds, time : Nat]
Guard  == [gid : Gids, root : Roots, rho : Seeds, time : Nat]

Now == IF clock = 0 THEN 0 ELSE clock - 1

(* now.duration_since(t) <= ttl                                            *)
Live(t, now, bound) == now - t <= bound

-----------------------------------------------------------------------------
(* MultiHeadWindow: prune_all drops what has expired from both tables.     *)
Pruned(hs, now, bound) == {h \in hs : Live(h.time, now, bound)}

(* Faulty variant: heads leave the window and stay in the index.           *)
StaleIndex(ix, gone) == ix

Unindex(ix, gone) == [w \in DOMAIN ix \ gone |-> ix[w]]

PrunedIndex(ix, hs, now, bound) ==
    Unindex(ix, {h.weid : h \in hs \ Pruned(hs, now, bound)})

InWindow(hs, wid) == {h \in hs : h.wid = wid}

find_head(hs, wid, weid) == {h \in hs : h.wid = wid /\ h.weid = weid}

Indexed(ix, h) == [w \in DOMAIN ix \cup {h.weid} |->
                      IF w = h.weid THEN h.wid ELSE ix[w]]

-----------------------------------------------------------------------------
(* RhoReplayGuard::record prunes the entries of its key and refuses a      *)
(* duplicate, and also a new value when the key is full: the result is the *)
(* set of new tables, empty when refused.  The faulty variant makes room   *)
(* by evicting the oldest entry.                                           *)
RecordEvicting(g, p, rho, now) ==
    LET seen == {e \in rho_guard : e.gid = g /\ e.root = p}
        kept == {e \in seen : Live(e.time, now, ttl)}
        room == {e \in kept : \/ Cardinality(kept) < RhoLimit
                              \/ \E d \in kept : d.time < e.time}
        new  == [gid |-> g, root |-> p, rho |-> rho, time |-> now]
    IN  {t \in {(rho_guard \ seen) \cup room \cup {new}} : \A e \in kept : e.rho # rho}

record(g, p, rho, now) ==
    LET seen == {e \in rho_guard : e.gid = g /\ e.root = p}
        kept == {e \in seen : Live(e.time, now, ttl)}
        new  == [gid |-> g, root |-> p, rho |-> rho, time |-> now]
    IN  {t \in {(rho_guard \ seen) \cup kept \cup {new}} :
            (\A e \in kept : e.rho # rho) /\ Cardinality(kept) < RhoLimit}

-----------------------------------------------------------------------------
(* PivotParityStore                                                        *)
Key(p) == <<p.gid, p.root, p.weid>>

insert(ps, p) == {q \in ps : Key(q) # Key(p)} \cup {p}

retire(ps, g, r, weids) ==
    {q \in ps : ~(q.gid = g /\ q.root = r /\ q.weid \in weids)}

list(ps, g, r, now) ==
    {q \in ps : q.gid = g /\ q.root = r /\ Live(q.time, now, ttl)}

(* A parity counts only while its head can be found through the index.     *)
HasHead(hs, ix, q) ==
    q.weid \in DOMAIN ix /\ find_head(hs, ix[q.weid], q.weid) # {}

(* Faulty variant: only the parities from before the anchor are carried.   *)
CarryPriorOnly(ps, hs, ix, own, r, now) ==
    LET prior == {q \in list(ps, own.gid, own.root, now) :
                     HasHead(hs, ix, q) /\ Key(q) # Key(own)}
        moved == {[q EXCEPT !.root = r, !.time = now] : q \in prior}
    IN  {q \in ps : /\ Live(q.time, now, ttl)
                    /\ \A m \in moved : Key(q) # Key(m)} \cup moved

(* Faulty variant: the anchor's rho is copied to the parities carried.     *)
CarryWithOwnRho(ps, hs, ix, own, r, now) ==
    LET prior == {q \in list(ps, own.gid, own.root, now) : HasHead(hs, ix, q)}
        moved == {[q EXCEPT !.root = r, !.time = now, !.rho = own.rho] : q \in prior}
    IN  {q \in ps : /\ Live(q.time, now, ttl)
                    /\ \A m \in moved : Key(q) # Key(m)} \cup moved

(* apply_bundle_to_state: listing the parent's parities prunes the whole   *)
(* store; those with a live head are inserted again under the new root     *)
(* with the time of the anchor; without any, the anchor's own parity is.   *)
CarryForward(ps, hs, ix, own, r, now) ==
    LET prior == {q \in list(ps, own.gid, own.root, now) : HasHead(hs, ix, q)}
        kept  == IF prior = {} THEN {own} ELSE prior
        moved == {[q EXCEPT !.root = r, !.time = now] : q \in kept}
    IN  {q \in ps : /\ Live(q.time, now, ttl)
                    /\ \A m \in moved : Key(q) # Key(m)} \cup moved

-----------------------------------------------------------------------------
Init ==
    /\ clock = 0
    /\ h_max \in HMaxes
    /\ ttl \in Ttls
    /\ heads = {}
    /\ index = << >>
    /\ rho_guard = {}
    /\ pivots = {}
    /\ chained = {}
    /\ known = [g \in Gids |-> {}]
    /\ latest = [g \in Gids |-> Zero]
    /\ fresh = {}

(* apply_delta starts from a root with a snapshot, or from the zero root   *)
(* when the group has none yet.                                            *)
BuildsOn(g, p) == p \in known[g] \/ (known[g] = {} /\ p = Zero)

(* A group that accepted an anchor at `clock` is fresh; the others stay so *)
(* while a head accepted at their last anchor would be live.               *)
Accepted(g, p, r, s) ==
    /\ clock' = clock + 1
    /\ chained' = chained \cup {<<g, s>>}
    /\ known' = [known EXCEPT ![g] = @ \cup {p, r}]
    /\ latest' = [latest EXCEPT ![g] = r]
    /\ fresh' = {f \in fresh : f.gid # g /\ Live(f.time, clock, ttl)}
                   \cup {[gid |-> g, time |-> clock]}
    /\ UNCHANGED <<h_max, ttl>>

(* accept_anchor_join for an anchor of group g on parent root p, leading   *)
(* to root r.                                                              *)
accept_anchor_join(g, p, s, r) ==
    LET hs    == Pruned(heads, clock, ttl)
        ix    == PrunedIndex(index, heads, clock, ttl)
        head  == [wid |-> Wid(g, p, s), weid |-> Weid(g, p, s), rho |-> s,
                  time |-> clock]
        own   == [gid |-> g, root |-> p, weid |-> head.weid, rho |-> s,
                  time |-> clock]
    IN  /\ BuildsOn(g, p)
        /\ <<g, s>> \notin chained
        /\ rho_guard' \in record(g, p, s, clock)
        /\ Cardinality(InWindow(hs, head.wid)) < h_max
        /\ heads' = hs \cup {head}
        /\ index' = Indexed(ix, head)
        /\ pivots' = CarryForward(insert(pivots, own), heads', index', own, r, clock)
        /\ Accepted(g, p, r, s)

(* What accept_anchor_merge asks of the heads a merge on root p lists.     *)
HeadsMergeable(g, p, ws, hs, ix, now) ==
    \E w \in ws : w \in DOMAIN ix
        /\ \A v \in ws : /\ find_head(hs, ix[w], v) # {}
                         /\ \E q \in list(pivots, g, p, now) : q.weid = v

(* accept_anchor_merge retires the heads ws and puts one head in their     *)
(* place.  It carries the rho of the pivot and is not seen by the guard.   *)
accept_anchor_merge(g, p, s, ws, r) ==
    LET hs   == Pruned(heads, clock, ttl)
        ix   == PrunedIndex(index, heads, clock, ttl)
        rest == {h \in hs : h.weid \notin ws}
    IN  /\ BuildsOn(g, p)
        /\ <<g, s>> \notin chained
        /\ HeadsMergeable(g, p, ws, hs, ix, clock)
        /\ Cardinality(ws) <= h_max
        /\ Cardinality(InWindow(rest, Wid(g, p, s))) < h_max
        /\ \E pivot \in {h \in hs : h.weid \in ws} :
              LET head == [wid |-> Wid(g, p, s), weid |-> Weid(g, p, s),
                           rho |-> pivot.rho, time |-> clock]
                  own  == [gid |-> g, root |-> p, weid |-> head.weid,
                           rho |-> pivot.rho, time |-> clock]
              IN  /\ heads' = rest \cup {head}
                  /\ index' = Indexed(Unindex(ix, ws), head)
                  /\ pivots' = CarryForward(insert(retire(pivots, g, p, ws), own),
                                            heads', index', own, r, clock)
                  /\ Accepted(g, p, r, s)
        /\ UNCHANGED rho_guard

(* refresh_pivot re-inserts the pivot's head in its window, and its parity *)
(* with the head's own time; both keep their place in the window.          *)
refresh_pivot(g, r) ==
    \E q \in list(pivots, g, r, Now) :
       /\ HasHead(heads, index, q)
       /\ LET wid == index[q.weid]
          IN  \E h \in find_head(heads, wid, q.weid) :
                 /\ Cardinality(InWindow(heads, wid) \ {h}) < h_max
                 /\ heads' = (heads \ {h}) \cup {[h EXCEPT !.rho = q.rho]}
                 /\ index' = Indexed(Unindex(index, {q.weid}), h)
                 /\ pivots' = insert({e \in pivots : Live(e.time, Now, ttl)},
                                     [q EXCEPT !.time = h.time])
       /\ UNCHANGED <<clock, h_max, ttl, rho_guard, chained, known, latest, fresh>>

(* build_merge_ticket lists the parities, which prunes the store.          *)
build_merge_ticket ==
    /\ pivots' = {q \in pivots : Live(q.time, Now, ttl)}
    /\ UNCHANGED <<clock, h_max, ttl, heads, index, rho_guard, chained, known,
                   latest, fresh>>

(* update_window_limits prunes every table when it sets the TTL; without a *)
(* TTL it sets h_max alone.                                                *)
set_h_max(h) ==
    /\ h_max' = h
    /\ UNCHANGED <<clock, ttl, heads, index, rho_guard, pivots, chained, known,
                   latest, fresh>>

update_window_limits(h, t) ==
    /\ h_max' = h
    /\ ttl' = t
    /\ heads' = Pruned(heads, Now, t)
    /\ index' = PrunedIndex(index, heads, Now, t)
    /\ rho_guard' = {e \in rho_guard : Live(e.time, Now, t)}
    /\ pivots' = {q \in pivots : Live(q.time, Now, t)}
    /\ fresh' = {f \in fresh : Live(f.time, Now, t)}
    /\ UNCHANGED <<clock, chained, known, latest>>

Next ==
    \/ \E g \in Gids, p, r \in Roots, s \in Seeds : accept_anchor_join(g, p, s, r)
    \/ \E g \in Gids, p, r \in Roots, s \in Seeds, ws \in SUBSET DOMAIN index :
           accept_anchor_merge(g, p, s, ws, r)
    \/ \E g \in Gids, r \in Roots : refresh_pivot(g, r)
    \/ build_merge_ticket
    \/ \E h \in HMaxes : set_h_max(h)
    \/ \E h \in HMaxes, t \in Ttls : update_window_limits(h, t)

Spec == Init /\ [][Next]_vars

-----------------------------------------------------------------------------
(* Every table holds records of its kind.                                  *)
TypeOK ==
    /\ clock \in Nat
    /\ h_max \in HMaxes
    /\ ttl \in Ttls
    /\ heads \in SUBSET Head
    /\ DOMAIN index \subseteq Wids
    /\ \A w \in DOMAIN index : index[w] \in Wids
    /\ rho_guard \in SUBSET Guard
    /\ pivots \in SUBSET Parity
    /\ chained \in SUBSET (Gids \X Seeds)
    /\ known \in [Gids -> SUBSET Roots]
    /\ latest \in [Gids -> Roots]
    /\ fresh \in SUBSET [gid : Gids, time : Nat]

(* The reverse index is exact: it has an entry for a we_epoch_id exactly   *)
(* when one live head has it, and the entry names that head's window.      *)
(* find_head_window (and with it every merge) depends on it, and four      *)
(* places change the two tables by hand.                                   *)
IndexExact ==
    /\ DOMAIN index = {h.weid : h \in heads}
    /\ \A h \in heads : index[h.weid] = h.wid
    /\ \A h, k \in heads : h.weid = k.weid => h = k

(* The heads a merge ticket of the group can name: parities of the latest  *)
(* root whose head is live (build_merge_ticket_core).                      *)
TicketParities(g) ==
    {q \in list(pivots, g, latest[g], Now) : HasHead(heads, index, q)}

(* build_merge_ticket never answers "no pivot parity available" to a group *)
(* whose last anchor has stayed within the TTL: the mirroring leaves a     *)
(* parity with a live head under the group's latest root.                  *)
TicketAvailable ==
    \A f \in fresh : TicketParities(f.gid) # {}

(* A merge built from a fresh ticket is not refused for its heads: if the  *)
(* head outlives the next tick, so does the parity under the latest root,  *)
(* and the rho the ticket shows is the rho the head carries.               *)
TicketMergeable ==
    \A g \in Gids : \A q \in TicketParities(g) :
       \A h \in find_head(heads, index[q.weid], q.weid) :
          Live(h.time, clock, ttl) =>
             /\ q.rho = h.rho
             /\ HeadsMergeable(g, latest[g], {q.weid}, Pruned(heads, clock, ttl),
                               PrunedIndex(index, heads, clock, ttl), clock)

(* While the head of a join is live, the guard remembers its rho, so the   *)
(* join cannot be replayed beside it: the guard prunes one key at a time,  *)
(* the window all at once, and a full guard refuses rather than forgets.   *)
GuardCoversJoins ==
    \A h \in heads : h.rho = h.weid[3] =>
       [gid |-> h.weid[1], root |-> h.weid[2], rho |-> h.rho, time |-> h.time]
          \in rho_guard

=============================================================================
