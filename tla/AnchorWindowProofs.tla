------------------------- MODULE AnchorWindowProofs -------------------------
(***************************************************************************)
(* Proofs about AnchorWindow for every number of groups, roots and seeds,  *)
(* every window limit and every TTL.                                       *)
(***************************************************************************)
EXTENDS AnchorWindow, TLAPS

GidOf(w)  == w[1]
RootOf(w) == w[2]
SeedOf(w) == w[3]

(* Everything stamped is stamped with a tick of the past, and nothing that *)
(* prune_all would drop stays in the window.                               *)
Timely ==
    /\ \A h \in heads : h.time < clock /\ Live(h.time, Now, ttl)
    /\ \A f \in fresh : f.time < clock /\ Live(f.time, Now, ttl)
    /\ \A q \in pivots : q.time < clock

(* The seed of a head or of a parity has been spent on its group's device  *)
(* chains, and so has the seed its rho was derived from.                   *)
SeedsSpent ==
    /\ \A h \in heads : /\ <<GidOf(h.weid), SeedOf(h.weid)>> \in chained
                        /\ <<GidOf(h.weid), h.rho>> \in chained
    /\ \A q \in pivots : /\ <<GidOf(q.weid), SeedOf(q.weid)>> \in chained
                         /\ GidOf(q.weid) = q.gid

(* A parity agrees with the head it names, and outlives it.                *)
ParityMatches ==
    \A q \in pivots, h \in heads :
       q.weid = h.weid => q.rho = h.rho /\ q.time >= h.time

(* A group whose last anchor is recent has a head at least as recent, with *)
(* a parity under the latest root.                                         *)
FreshParity ==
    \A f \in fresh : \E q \in pivots, h \in heads :
       /\ q.gid = f.gid
       /\ q.root = latest[f.gid]
       /\ q.weid = h.weid
       /\ h.time >= f.time

(* The guard entry of a join.                                              *)
GuardOf(h) == [gid |-> GidOf(h.weid), root |-> RootOf(h.weid), rho |-> h.rho,
               time |-> h.time]

GuardCovers == \A h \in heads : h.rho = SeedOf(h.weid) => GuardOf(h) \in rho_guard

(* The inductive invariant.                                                *)
WindowInv ==
    /\ TypeOK
    /\ IndexExact
    /\ Timely
    /\ SeedsSpent
    /\ ParityMatches
    /\ FreshParity
    /\ GuardCovers

-----------------------------------------------------------------------------
(* The parts of a window id are the values it was computed from.           *)
LEMMA WidParts ==
    ASSUME NEW g \in Gids, NEW p \in Roots, NEW s \in Seeds
    PROVE  /\ Weid(g, p, s) \in Wids /\ Wid(g, p, s) \in Wids
           /\ GidOf(Weid(g, p, s)) = g
           /\ RootOf(Weid(g, p, s)) = p
           /\ SeedOf(Weid(g, p, s)) = s
  BY DEF Wid, Weid, Wids, GidOf, RootOf, SeedOf

(* Before the first tick the clock reads 0, then the last tick.            *)
LEMMA NowFacts ==
    ASSUME clock \in Nat
    PROVE  /\ Now \in Nat
           /\ clock > 0 => Now = clock - 1
           /\ Now <= clock
  BY DEF Now

(* Exactness as a relation between any two tables.                         *)
Exact(hs, ix) ==
    /\ DOMAIN ix = {h.weid : h \in hs}
    /\ \A h \in hs : ix[h.weid] = h.wid
    /\ \A h, k \in hs : h.weid = k.weid => h = k

(* Dropping heads together with their entries keeps the index exact.       *)
LEMMA DropKeepsExact ==
    ASSUME NEW hs, NEW ix, Exact(hs, ix), NEW rest \in SUBSET hs, NEW gone,
           \A h \in hs : h.weid \in gone <=> h \notin rest
    PROVE  Exact(rest, Unindex(ix, gone))
  <1>1. DOMAIN Unindex(ix, gone) = {h.weid : h \in rest}
    <2>1. DOMAIN Unindex(ix, gone) = DOMAIN ix \ gone
      BY DEF Unindex
    <2> QED BY <2>1 DEF Exact
  <1>2. \A h \in rest : Unindex(ix, gone)[h.weid] = h.wid
    <2> TAKE h \in rest
    <2>1. h.weid \in DOMAIN ix \ gone
      BY DEF Exact
    <2>2. Unindex(ix, gone)[h.weid] = ix[h.weid]
      BY <2>1 DEF Unindex
    <2> QED BY <2>2 DEF Exact
  <1> QED BY <1>1, <1>2 DEF Exact

(* prune_all keeps the index exact.                                        *)
LEMMA PruneKeepsExact ==
    ASSUME NEW hs, NEW ix, Exact(hs, ix), NEW now, NEW bound
    PROVE  Exact(Pruned(hs, now, bound), PrunedIndex(ix, hs, now, bound))
  <1> DEFINE rest == Pruned(hs, now, bound)
             gone == {h.weid : h \in hs \ rest}
  <1>1. rest \in SUBSET hs
    BY DEF Pruned
  <1>2. \A h \in hs : h.weid \in gone <=> h \notin rest
    BY <1>1 DEF Exact
  <1> HIDE DEF rest, gone
  <1>3. Exact(rest, Unindex(ix, gone))
    BY <1>1, <1>2, DropKeepsExact
  <1> QED BY <1>3 DEF PrunedIndex, rest, gone

(* So does putting a head with a new we_epoch_id into both tables.         *)
LEMMA AddKeepsExact ==
    ASSUME NEW hs, NEW ix, Exact(hs, ix), NEW h, \A k \in hs : k.weid # h.weid
    PROVE  Exact(hs \cup {h}, Indexed(ix, h))
  <1>1. DOMAIN Indexed(ix, h) = {k.weid : k \in hs \cup {h}}
    <2>1. DOMAIN Indexed(ix, h) = DOMAIN ix \cup {h.weid}
      BY DEF Indexed
    <2> QED BY <2>1 DEF Exact
  <1>2. \A k \in hs \cup {h} : Indexed(ix, h)[k.weid] = k.wid
    <2> TAKE k \in hs \cup {h}
    <2>1. CASE k = h
      BY <2>1 DEF Indexed
    <2>2. CASE k \in hs
      <3>1. k.weid \in DOMAIN ix /\ k.weid # h.weid
        BY <2>2 DEF Exact
      <3>2. Indexed(ix, h)[k.weid] = ix[k.weid]
        BY <3>1 DEF Indexed
      <3> QED BY <2>2, <3>2 DEF Exact
    <2> QED BY <2>1, <2>2
  <1> QED BY <1>1, <1>2 DEF Exact

-----------------------------------------------------------------------------
(* Every parity after the mirroring stems from one before it, and differs  *)
(* from it at most in its root and in having the time of the anchor.       *)
LEMMA CarryStems ==
    ASSUME NEW ps \in SUBSET Parity, NEW own \in ps, NEW r \in Roots,
           NEW now \in Nat, NEW hs, NEW ix,
           NEW q \in CarryForward(ps, hs, ix, own, r, now)
    PROVE  /\ q \in Parity
           /\ \E e \in ps : /\ e.gid = q.gid /\ e.weid = q.weid /\ e.rho = q.rho
                            /\ q.time = e.time \/ q.time = now
  <1> DEFINE prior == {e \in list(ps, own.gid, own.root, now) : HasHead(hs, ix, e)}
             kept  == IF prior = {} THEN {own} ELSE prior
             moved == {[e EXCEPT !.root = r, !.time = now] : e \in kept}
  <1>1. kept \in SUBSET ps
    BY DEF list
  <1>2. CASE q \in moved
    <2> PICK e \in kept : q = [e EXCEPT !.root = r, !.time = now]
      BY <1>2
    <2>1. e \in ps /\ e \in Parity
      BY <1>1
    <2>2. q \in Parity /\ e.gid = q.gid /\ e.weid = q.weid /\ e.rho = q.rho
          /\ q.time = now
      BY <2>1 DEF Parity
    <2> QED BY <2>1, <2>2
  <1>3. CASE q \in ps
    BY <1>3 DEF Parity
  <1> QED BY <1>2, <1>3 DEF CarryForward

(* A parity of another group that has not expired comes through.           *)
LEMMA CarryKeepsOthers ==
    ASSUME NEW ps \in SUBSET Parity, NEW own \in ps, NEW r \in Roots,
           NEW now \in Nat, NEW hs, NEW ix,
           NEW q \in ps, q.gid # own.gid, Live(q.time, now, ttl)
    PROVE  q \in CarryForward(ps, hs, ix, own, r, now)
  <1> DEFINE prior == {e \in list(ps, own.gid, own.root, now) : HasHead(hs, ix, e)}
             kept  == IF prior = {} THEN {own} ELSE prior
             moved == {[e EXCEPT !.root = r, !.time = now] : e \in kept}
  <1>1. \A e \in kept : e.gid = own.gid /\ e \in Parity
    BY DEF list
  <1>2. \A m \in moved : m.gid = own.gid
    <2> TAKE m \in moved
    <2> PICK e \in kept : m = [e EXCEPT !.root = r, !.time = now]
      OBVIOUS
    <2> QED BY <1>1 DEF Parity
  <1> HIDE DEF moved
  <1>3. \A m \in moved : Key(q) # Key(m)
    <2> TAKE m \in moved
    <2>1. q.gid # m.gid
      BY <1>2
    <2> QED BY <2>1 DEF Key
  <1> USE DEF moved
  <1> QED BY <1>3 DEF CarryForward

(* The anchor's own parity reaches the new root when its head is live.     *)
LEMMA CarryMovesOwn ==
    ASSUME NEW ps \in SUBSET Parity, NEW own \in ps, NEW r \in Roots,
           NEW now \in Nat, NEW hs, NEW ix, ttl \in Nat,
           own.time = now, HasHead(hs, ix, own)
    PROVE  \E q \in CarryForward(ps, hs, ix, own, r, now) :
              q.gid = own.gid /\ q.root = r /\ q.weid = own.weid
  <1> DEFINE prior == {e \in list(ps, own.gid, own.root, now) : HasHead(hs, ix, e)}
             kept  == IF prior = {} THEN {own} ELSE prior
             moved == {[e EXCEPT !.root = r, !.time = now] : e \in kept}
             q == [own EXCEPT !.root = r, !.time = now]
  <1>1. own \in prior
    BY DEF list, Live
  <1>2. q \in moved
    BY <1>1
  <1>3. q.gid = own.gid /\ q.root = r /\ q.weid = own.weid
    BY DEF Parity
  <1>4. q \in CarryForward(ps, hs, ix, own, r, now)
    BY <1>2 DEF CarryForward
  <1> QED BY <1>3, <1>4

-----------------------------------------------------------------------------
(* What a join and a merge have in common: the heads ws go, one head with  *)
(* a new seed comes, and the guard forgets nothing that is live.           *)
NewHead(g, p, s, rho) ==
    [wid |-> Wid(g, p, s), weid |-> Weid(g, p, s), rho |-> rho, time |-> clock]

OwnParity(g, p, s, rho) ==
    [gid |-> g, root |-> p, weid |-> Weid(g, p, s), rho |-> rho, time |-> clock]

Rest(ws) == {h \in Pruned(heads, clock, ttl) : h.weid \notin ws}

Store(g, p, s, rho, ws) == insert(retire(pivots, g, p, ws), OwnParity(g, p, s, rho))

Landed(g, p, s, r, rho, ws) ==
    /\ <<g, s>> \notin chained
    /\ <<g, rho>> \in chained \cup {<<g, s>>}
    /\ \A v \in ws : GidOf(v) = g
    /\ heads' = Rest(ws) \cup {NewHead(g, p, s, rho)}
    /\ index' = Indexed(Unindex(PrunedIndex(index, heads, clock, ttl), ws),
                        NewHead(g, p, s, rho))
    /\ pivots' = CarryForward(Store(g, p, s, rho, ws), heads', index',
                              OwnParity(g, p, s, rho), r, clock)
    /\ rho_guard' \in SUBSET Guard
    /\ \A e \in rho_guard : Live(e.time, clock, ttl) => e \in rho_guard'
    /\ rho = s => GuardOf(NewHead(g, p, s, rho)) \in rho_guard'
    /\ Accepted(g, p, r, s)

(* A join lands with its own rho and retires nothing.                      *)
LEMMA JoinLands ==
    ASSUME WindowInv, NEW g \in Gids, NEW p \in Roots, NEW r \in Roots,
           NEW s \in Seeds, accept_anchor_join(g, p, s, r)
    PROVE  Landed(g, p, s, r, s, {})
  <1> DEFINE head == NewHead(g, p, s, s)
             own  == OwnParity(g, p, s, s)
             new  == [gid |-> g, root |-> p, rho |-> s, time |-> clock]
  <1>1. /\ <<g, s>> \notin chained
        /\ rho_guard' \in record(g, p, s, clock)
        /\ heads' = Pruned(heads, clock, ttl) \cup {head}
        /\ index' = Indexed(PrunedIndex(index, heads, clock, ttl), head)
        /\ pivots' = CarryForward(insert(pivots, own), heads', index', own, r, clock)
        /\ Accepted(g, p, r, s)
    BY DEF accept_anchor_join, NewHead, OwnParity
  <1>2. Rest({}) = Pruned(heads, clock, ttl)
    BY DEF Rest
  <1>3. retire(pivots, g, p, {}) = pivots
    BY DEF retire
  <1>4. Unindex(PrunedIndex(index, heads, clock, ttl), {})
           = PrunedIndex(index, heads, clock, ttl)
    BY DEF Unindex, PrunedIndex
  <1>5. GuardOf(head) = new
    BY WidParts DEF GuardOf, NewHead
  <1>6. new \in rho_guard' /\ \A e \in rho_guard : Live(e.time, clock, ttl) => e \in rho_guard'
    BY <1>1 DEF record
  <1>7. rho_guard' \in SUBSET Guard
    <2>1. new \in Guard /\ rho_guard \in SUBSET Guard
      BY DEF WindowInv, TypeOK, Guard
    <2>2. rho_guard' \subseteq rho_guard \cup {new}
      BY <1>1 DEF record
    <2> QED BY <2>1, <2>2
  <1> QED BY <1>1, <1>2, <1>3, <1>4, <1>5, <1>6, <1>7 DEF Landed, Store

(* The heads a merge of group g may list are heads of group g.             *)
LEMMA MergedAreOwn ==
    ASSUME WindowInv, NEW g, NEW p, NEW ws, NEW hs, NEW ix, NEW now,
           HeadsMergeable(g, p, ws, hs, ix, now), NEW v \in ws
    PROVE  GidOf(v) = g
  <1>1. PICK q \in list(pivots, g, p, now) : q.weid = v
    BY DEF HeadsMergeable
  <1> QED BY <1>1 DEF list, WindowInv, SeedsSpent

(* A merge lands with the rho of the pivot head, whose seed is spent.      *)
LEMMA MergeLands ==
    ASSUME WindowInv, NEW g \in Gids, NEW p \in Roots, NEW r \in Roots,
           NEW s \in Seeds, NEW ws, accept_anchor_merge(g, p, s, ws, r)
    PROVE  \E rho \in Seeds : Landed(g, p, s, r, rho, ws)
  <1>1. PICK pivot \in {h \in Pruned(heads, clock, ttl) : h.weid \in ws} :
           /\ heads' = Rest(ws) \cup {NewHead(g, p, s, pivot.rho)}
           /\ index' = Indexed(Unindex(PrunedIndex(index, heads, clock, ttl), ws),
                               NewHead(g, p, s, pivot.rho))
           /\ pivots' = CarryForward(Store(g, p, s, pivot.rho, ws), heads', index',
                                     OwnParity(g, p, s, pivot.rho), r, clock)
           /\ Accepted(g, p, r, s)
    BY DEF accept_anchor_merge, NewHead, OwnParity, Rest, Store
  <1>2. /\ <<g, s>> \notin chained
        /\ rho_guard' = rho_guard
        /\ \A v \in ws : GidOf(v) = g
    BY MergedAreOwn DEF accept_anchor_merge
  <1>3. pivot \in heads /\ pivot \in Head /\ pivot.weid \in ws
    BY <1>1 DEF Pruned, WindowInv, TypeOK
  <1>4. pivot.rho \in Seeds /\ <<g, pivot.rho>> \in chained
    BY <1>2, <1>3 DEF WindowInv, SeedsSpent, Head
  <1>5. pivot.rho # s
    BY <1>2, <1>4
  <1>6. rho_guard' \in SUBSET Guard
    BY <1>2 DEF WindowInv, TypeOK
  <1>7. Landed(g, p, s, r, pivot.rho, ws)
    BY <1>1, <1>2, <1>4, <1>5, <1>6 DEF Landed
  <1> QED BY <1>4, <1>7

(* An accepted anchor keeps the invariant.                                 *)
LEMMA LandedKeeps ==
    ASSUME WindowInv, NEW g \in Gids, NEW p \in Roots, NEW r \in Roots,
           NEW s \in Seeds, NEW rho \in Seeds, NEW ws,
           Landed(g, p, s, r, rho, ws)
    PROVE  WindowInv'
  <1> DEFINE head == NewHead(g, p, s, rho)
             own  == OwnParity(g, p, s, rho)
             ps   == Store(g, p, s, rho, ws)
  <1>1. /\ clock \in Nat /\ clock' = clock + 1 /\ Now' = clock /\ Now <= clock
        /\ ttl \in Nat /\ ttl' = ttl /\ h_max' = h_max
        /\ Now \in Nat
    BY AnchorWindowAssumption, NowFacts DEF WindowInv, TypeOK, Landed, Accepted, Now
  <1>2. /\ head \in Head /\ own \in Parity
        /\ head.weid = own.weid /\ head.rho = rho /\ own.rho = rho
        /\ head.time = clock /\ own.time = clock /\ own.gid = g
        /\ GidOf(head.weid) = g /\ SeedOf(head.weid) = s
    BY <1>1, WidParts DEF NewHead, OwnParity, Head, Parity
  <1> HIDE DEF head, own
  <1>3. /\ heads' = Rest(ws) \cup {head}
        /\ \A h \in Rest(ws) : h \in heads /\ Live(h.time, clock, ttl) /\ h.weid \notin ws
        /\ \A h \in heads : Live(h.time, clock, ttl) /\ h.weid \notin ws => h \in Rest(ws)
    BY DEF Landed, Rest, Pruned, head
  <1>4. /\ ps \in SUBSET Parity /\ own \in ps
        /\ \A q \in ps : q \in pivots \/ q = own
        /\ \A q \in pivots : q.gid # g => q \in ps
        /\ pivots' = CarryForward(ps, heads', index', own, r, clock)
    <2>1. ps = {q \in retire(pivots, g, p, ws) : Key(q) # Key(own)} \cup {own}
      BY DEF Store, insert, own
    <2>2. \A q \in pivots : q.gid # g => Key(q) # Key(own)
      BY <1>2 DEF Key
    <2>3. pivots \in SUBSET Parity
      BY DEF WindowInv, TypeOK
    <2> QED BY <1>2, <2>1, <2>2, <2>3 DEF retire, Landed, own
  <1> HIDE DEF ps
  <1>5. /\ \A k \in heads : k.weid # head.weid
        /\ \A q \in pivots : q.weid # head.weid
    BY <1>2 DEF WindowInv, SeedsSpent, Landed
  <1>6. /\ chained' = chained \cup {<<g, s>>}
        /\ <<g, rho>> \in chained'
        /\ latest' = [latest EXCEPT ![g] = r]
        /\ fresh' = {f \in fresh : f.gid # g /\ Live(f.time, clock, ttl)}
                       \cup {[gid |-> g, time |-> clock]}
        /\ known' = [known EXCEPT ![g] = @ \cup {p, r}]
    BY DEF Landed, Accepted
  <1>7. \A q \in pivots' :
           /\ q \in Parity
           /\ \E e \in ps : /\ e.gid = q.gid /\ e.weid = q.weid /\ e.rho = q.rho
                            /\ q.time = e.time \/ q.time = clock
    BY <1>1, <1>4, CarryStems
  <1>8. Exact(heads', index')
    <2> DEFINE hs == Pruned(heads, clock, ttl)
               ix == PrunedIndex(index, heads, clock, ttl)
    <2>1. Exact(heads, index)
      BY DEF WindowInv, IndexExact, Exact
    <2>2. Exact(hs, ix)
      BY <2>1, PruneKeepsExact
    <2>3. Rest(ws) \in SUBSET hs /\ \A h \in hs : h.weid \in ws <=> h \notin Rest(ws)
      BY DEF Rest
    <2> HIDE DEF hs, ix
    <2>4. Exact(Rest(ws), Unindex(ix, ws))
      BY <2>2, <2>3, DropKeepsExact
    <2>5. \A k \in Rest(ws) : k.weid # head.weid
      BY <1>3, <1>5
    <2>6. Exact(Rest(ws) \cup {head}, Indexed(Unindex(ix, ws), head))
      BY <2>4, <2>5, AddKeepsExact
    <2>7. index' = Indexed(Unindex(ix, ws), head)
      BY DEF Landed, ix, head
    <2> QED BY <1>3, <2>6, <2>7
  <1>9. IndexExact'
    BY <1>8 DEF Exact, IndexExact
  <1>10. TypeOK'
    <2>1. heads' \in SUBSET Head
      BY <1>2, <1>3 DEF WindowInv, TypeOK
    <2>2. DOMAIN index' \subseteq Wids /\ \A w \in DOMAIN index' : index'[w] \in Wids
      BY <1>8, <2>1 DEF Exact, Head
    <2>3. pivots' \in SUBSET Parity
      BY <1>7
    <2>4. rho_guard' \in SUBSET Guard
      BY DEF Landed
    <2>5. chained' \in SUBSET (Gids \X Seeds)
      BY <1>6 DEF WindowInv, TypeOK
    <2>6. known' \in [Gids -> SUBSET Roots] /\ latest' \in [Gids -> Roots]
      BY <1>6 DEF WindowInv, TypeOK
    <2>7. fresh' \in SUBSET [gid : Gids, time : Nat]
      BY <1>1, <1>6 DEF WindowInv, TypeOK
    <2>8. clock' \in Nat /\ h_max' \in HMaxes /\ ttl' \in Ttls
      BY <1>1 DEF WindowInv, TypeOK
    <2> QED BY <2>1, <2>2, <2>3, <2>4, <2>5, <2>6, <2>7, <2>8 DEF TypeOK
  <1>11. Timely'
    <2>1. \A h \in heads' : h.time < clock' /\ Live(h.time, Now', ttl')
      <3>1. \A h \in Rest(ws) : h.time \in Nat /\ h.time < clock /\ Live(h.time, clock, ttl)
        BY <1>3 DEF WindowInv, TypeOK, Timely, Head
      <3> QED BY <1>1, <1>2, <1>3, <3>1 DEF Live
    <2>2. \A f \in fresh' : f.time < clock' /\ Live(f.time, Now', ttl')
      <3>1. \A f \in fresh : f.time \in Nat /\ f.time < clock
        BY DEF WindowInv, TypeOK, Timely
      <3> QED BY <1>1, <1>6, <3>1 DEF Live
    <2>3. \A q \in pivots' : q.time < clock'
      <3>1. \A q \in ps : q.time \in Nat /\ q.time <= clock
        BY <1>1, <1>2, <1>4 DEF WindowInv, TypeOK, Timely, Parity
      <3> QED BY <1>1, <1>7, <3>1
    <2> QED BY <2>1, <2>2, <2>3 DEF Timely
  <1>12. SeedsSpent'
    <2>1. \A h \in heads' : /\ <<GidOf(h.weid), SeedOf(h.weid)>> \in chained'
                            /\ <<GidOf(h.weid), h.rho>> \in chained'
      BY <1>2, <1>3, <1>6 DEF WindowInv, SeedsSpent
    <2>2. \A q \in ps : /\ <<GidOf(q.weid), SeedOf(q.weid)>> \in chained'
                        /\ GidOf(q.weid) = q.gid
      BY <1>2, <1>4, <1>6 DEF WindowInv, SeedsSpent
    <2> QED BY <1>7, <2>1, <2>2 DEF SeedsSpent
  <1>13. ParityMatches'
    <2> SUFFICES ASSUME NEW q \in pivots', NEW h \in heads', q.weid = h.weid
                 PROVE  q.rho = h.rho /\ q.time >= h.time
      BY DEF ParityMatches
    <2>1. PICK e \in ps : /\ e.weid = q.weid /\ e.rho = q.rho
                          /\ q.time = e.time \/ q.time = clock
      BY <1>7
    <2>2. h.time \in Nat /\ e.time \in Nat /\ h.time <= clock
      BY <1>1, <1>2, <1>3, <1>4 DEF WindowInv, TypeOK, Timely, Head, Parity
    <2>3. CASE e = own
      BY <1>1, <1>2, <1>3, <1>5, <2>1, <2>2, <2>3
    <2>4. CASE e # own
      <3>1. e \in pivots /\ h \in heads
        BY <1>2, <1>3, <1>4, <1>5, <2>1, <2>4
      <3>2. e.rho = h.rho /\ e.time >= h.time
        BY <2>1, <3>1 DEF WindowInv, ParityMatches
      <3> QED BY <1>1, <2>1, <2>2, <3>2
    <2> QED BY <2>3, <2>4
  <1>14. FreshParity'
    <2> SUFFICES ASSUME NEW f \in fresh'
                 PROVE  \E q \in pivots', h \in heads' :
                           /\ q.gid = f.gid /\ q.root = latest'[f.gid]
                           /\ q.weid = h.weid /\ h.time >= f.time
      BY DEF FreshParity
    <2>0. latest \in [Gids -> Roots] /\ fresh \in SUBSET [gid : Gids, time : Nat]
      BY DEF WindowInv, TypeOK
    <2>1. CASE f = [gid |-> g, time |-> clock]
      <3>1. HasHead(heads', index', own)
        BY <1>2, <1>3, <1>8 DEF HasHead, find_head, Exact
      <3>2. PICK q \in pivots' : q.gid = own.gid /\ q.root = r /\ q.weid = own.weid
        BY <1>1, <1>2, <1>4, <3>1, CarryMovesOwn
      <3>3. latest'[g] = r
        BY <1>6, <2>0
      <3> QED BY <1>1, <1>2, <1>3, <2>1, <3>2, <3>3
    <2>2. CASE f \in fresh /\ f.gid # g /\ Live(f.time, clock, ttl)
      <3>1. PICK q \in pivots, h \in heads :
               /\ q.gid = f.gid /\ q.root = latest[f.gid]
               /\ q.weid = h.weid /\ h.time >= f.time
        BY <2>2 DEF WindowInv, FreshParity
      <3>2. q.time >= h.time /\ GidOf(h.weid) # g
        BY <2>2, <3>1 DEF WindowInv, ParityMatches, SeedsSpent
      <3>3. h.time \in Nat /\ q.time \in Nat /\ f.time \in Nat
        BY <2>0, <2>2 DEF WindowInv, TypeOK, Head, Parity
      <3>4. Live(h.time, clock, ttl) /\ Live(q.time, clock, ttl)
        BY <1>1, <2>2, <3>1, <3>2, <3>3 DEF Live
      <3>5. h \in heads'
        BY <1>3, <3>2, <3>4 DEF Landed
      <3>6. q \in pivots'
        BY <1>1, <1>2, <1>4, <2>2, <3>1, <3>4, CarryKeepsOthers
      <3>7. latest'[f.gid] = latest[f.gid]
        BY <1>6, <2>0, <2>2
      <3> QED BY <3>1, <3>5, <3>6, <3>7
    <2> QED BY <1>6, <2>1, <2>2
  <1>15. GuardCovers'
    <2> SUFFICES ASSUME NEW h \in heads', h.rho = SeedOf(h.weid)
                 PROVE  GuardOf(h) \in rho_guard'
      BY DEF GuardCovers, GuardOf
    <2>1. CASE h = head
      BY <1>2, <2>1 DEF Landed, head
    <2>2. CASE h \in Rest(ws)
      <3>1. GuardOf(h) \in rho_guard /\ Live(h.time, clock, ttl)
        BY <1>3, <2>2 DEF WindowInv, GuardCovers
      <3>2. GuardOf(h).time = h.time
        BY DEF GuardOf
      <3> QED BY <3>1, <3>2 DEF Landed
    <2> QED BY <1>3, <2>1, <2>2
  <1> QED BY <1>9, <1>10, <1>11, <1>12, <1>13, <1>14, <1>15 DEF WindowInv

(* refresh_pivot writes back the head it found; its parity may lose time,  *)
(* but no more than down to the time of the head.                          *)
LEMMA RefreshKeeps ==
    ASSUME WindowInv, NEW g \in Gids, NEW r \in Roots, refresh_pivot(g, r)
    PROVE  WindowInv'
  <1>1. PICK q \in list(pivots, g, r, Now) :
           /\ HasHead(heads, index, q)
           /\ \E h \in find_head(heads, index[q.weid], q.weid) :
                 /\ heads' = (heads \ {h}) \cup {[h EXCEPT !.rho = q.rho]}
                 /\ index' = Indexed(Unindex(index, {q.weid}), h)
                 /\ pivots' = insert({e \in pivots : Live(e.time, Now, ttl)},
                                     [q EXCEPT !.time = h.time])
           /\ UNCHANGED <<clock, h_max, ttl, rho_guard, chained, known, latest, fresh>>
    BY DEF refresh_pivot
  <1>2. PICK h \in heads :
           /\ h.weid = q.weid
           /\ heads' = (heads \ {h}) \cup {[h EXCEPT !.rho = q.rho]}
           /\ index' = Indexed(Unindex(index, {q.weid}), h)
           /\ pivots' = insert({e \in pivots : Live(e.time, Now, ttl)},
                               [q EXCEPT !.time = h.time])
    BY <1>1 DEF find_head
  <1> DEFINE qq == [q EXCEPT !.time = h.time]
  <1>3. q \in pivots /\ q \in Parity /\ h \in Head /\ q.gid = g /\ q.root = r
    BY <1>1 DEF list, WindowInv, TypeOK
  <1>4. q.rho = h.rho /\ q.time >= h.time
    BY <1>2, <1>3 DEF WindowInv, ParityMatches
  <1>5. heads' = heads
    <2>1. [h EXCEPT !.rho = q.rho] = h
      BY <1>3, <1>4 DEF Head
    <2> QED BY <1>2, <2>1
  <1>6. Exact(heads', index')
    <2>1. Exact(heads, index)
      BY DEF WindowInv, IndexExact, Exact
    <2>2. \A k \in heads : k.weid \in {q.weid} <=> k \notin heads \ {h}
      BY <1>2, <2>1 DEF Exact
    <2>3. Exact(heads \ {h}, Unindex(index, {q.weid}))
      BY <2>1, <2>2, DropKeepsExact
    <2>4. \A k \in heads \ {h} : k.weid # h.weid
      BY <2>1 DEF Exact
    <2>5. Exact((heads \ {h}) \cup {h}, index')
      BY <1>2, <2>3, <2>4, AddKeepsExact
    <2>6. (heads \ {h}) \cup {h} = heads
      OBVIOUS
    <2> QED BY <1>5, <2>5, <2>6
  <1>7. /\ qq \in Parity /\ qq.gid = q.gid /\ qq.root = q.root /\ qq.weid = q.weid
        /\ qq.rho = q.rho /\ qq.time = h.time /\ Key(qq) = Key(q)
    BY <1>3 DEF Parity, Head, Key
  <1> HIDE DEF qq
  <1>8. /\ \A e \in pivots' : e \in pivots \/ e = qq
        /\ qq \in pivots'
        /\ \A e \in pivots : Live(e.time, Now, ttl) /\ Key(e) # Key(qq) => e \in pivots'
    BY <1>2 DEF insert, qq
  <1>9. UNCHANGED <<clock, h_max, ttl, rho_guard, chained, known, latest, fresh>> /\ Now' = Now
    BY <1>1 DEF Now
  <1>10. TypeOK'
    <2>1. heads' \in SUBSET Head /\ pivots' \in SUBSET Parity
      BY <1>5, <1>7, <1>8 DEF WindowInv, TypeOK
    <2>2. DOMAIN index' \subseteq Wids /\ \A w \in DOMAIN index' : index'[w] \in Wids
      BY <1>6, <2>1 DEF Exact, Head
    <2> QED BY <1>9, <2>1, <2>2 DEF WindowInv, TypeOK
  <1>11. IndexExact'
    BY <1>6 DEF Exact, IndexExact
  <1>12. Timely'
    <2>1. /\ \A k \in heads : k.time < clock /\ Live(k.time, Now, ttl)
          /\ \A f \in fresh : f.time < clock /\ Live(f.time, Now, ttl)
          /\ \A e \in pivots : e.time < clock
      BY DEF WindowInv, Timely
    <2>2. qq.time < clock
      BY <1>7, <2>1
    <2> QED BY <1>5, <1>8, <1>9, <2>1, <2>2 DEF Timely
  <1>13. SeedsSpent'
    BY <1>3, <1>5, <1>7, <1>8, <1>9 DEF WindowInv, SeedsSpent
  <1>14. ParityMatches'
    <2> SUFFICES ASSUME NEW e \in pivots', NEW k \in heads, e.weid = k.weid
                 PROVE  e.rho = k.rho /\ e.time >= k.time
      BY <1>5 DEF ParityMatches
    <2>1. CASE e \in pivots
      BY <2>1 DEF WindowInv, ParityMatches
    <2>2. CASE e = qq
      <3>1. k = h
        BY <1>2, <1>7, <2>2 DEF WindowInv, IndexExact
      <3>2. h.time \in Nat
        BY <1>3 DEF Head
      <3> QED BY <1>4, <1>7, <2>2, <3>1, <3>2
    <2> QED BY <1>8, <2>1, <2>2
  <1>15. FreshParity'
    <2> SUFFICES ASSUME NEW f \in fresh
                 PROVE  \E e \in pivots', k \in heads :
                           /\ e.gid = f.gid /\ e.root = latest[f.gid]
                           /\ e.weid = k.weid /\ k.time >= f.time
      BY <1>5, <1>9 DEF FreshParity
    <2>1. PICK e \in pivots, k \in heads :
             /\ e.gid = f.gid /\ e.root = latest[f.gid]
             /\ e.weid = k.weid /\ k.time >= f.time
      BY DEF WindowInv, FreshParity
    <2>2. CASE Key(e) = Key(qq)
      <3>1. qq.gid = e.gid /\ qq.root = e.root /\ qq.weid = e.weid
        BY <2>2 DEF Key
      <3> QED BY <1>8, <2>1, <3>1
    <2>3. CASE Key(e) # Key(qq)
      <3>1. Live(e.time, Now, ttl)
        <4>1. e.time >= k.time /\ Live(k.time, Now, ttl)
          BY <2>1 DEF WindowInv, ParityMatches, Timely
        <4>2. e.time \in Nat /\ k.time \in Nat /\ Now \in Nat /\ ttl \in Nat
          BY AnchorWindowAssumption, NowFacts DEF WindowInv, TypeOK, Parity, Head
        <4> QED BY <4>1, <4>2 DEF Live
      <3> QED BY <1>8, <2>1, <2>3, <3>1
    <2> QED BY <2>2, <2>3
  <1>16. GuardCovers'
    BY <1>5, <1>9 DEF WindowInv, GuardCovers
  <1> QED BY <1>10, <1>11, <1>12, <1>13, <1>14, <1>15, <1>16 DEF WindowInv

(* Listing the parities drops only expired ones, which no fresh group and  *)
(* no live head needs.                                                     *)
LEMMA TicketKeeps ==
    ASSUME WindowInv, build_merge_ticket
    PROVE  WindowInv'
  <1>1. /\ pivots' = {q \in pivots : Live(q.time, Now, ttl)}
        /\ UNCHANGED <<clock, h_max, ttl, heads, index, rho_guard, chained,
                       known, latest, fresh>>
        /\ Now' = Now
    BY DEF build_merge_ticket, Now
  <1>2. TypeOK' /\ IndexExact' /\ Timely'
    BY <1>1 DEF WindowInv, TypeOK, IndexExact, Timely
  <1>3. SeedsSpent' /\ ParityMatches' /\ GuardCovers'
    BY <1>1 DEF WindowInv, SeedsSpent, ParityMatches, GuardCovers
  <1>4. FreshParity'
    <2> SUFFICES ASSUME NEW f \in fresh
                 PROVE  \E e \in pivots', k \in heads :
                           /\ e.gid = f.gid /\ e.root = latest[f.gid]
                           /\ e.weid = k.weid /\ k.time >= f.time
      BY <1>1 DEF FreshParity
    <2>1. PICK e \in pivots, k \in heads :
             /\ e.gid = f.gid /\ e.root = latest[f.gid]
             /\ e.weid = k.weid /\ k.time >= f.time
      BY DEF WindowInv, FreshParity
    <2>2. e.time >= k.time /\ Live(k.time, Now, ttl)
      BY <2>1 DEF WindowInv, ParityMatches, Timely
    <2>3. e.time \in Nat /\ k.time \in Nat /\ Now \in Nat /\ ttl \in Nat
      BY AnchorWindowAssumption, NowFacts DEF WindowInv, TypeOK, Parity, Head
    <2>4. e \in pivots'
      BY <1>1, <2>2, <2>3 DEF Live
    <2> QED BY <2>1, <2>4
  <1> QED BY <1>2, <1>3, <1>4 DEF WindowInv

(* update_window_limits prunes all tables by the same clock and TTL.       *)
LEMMA LimitsKeep ==
    ASSUME WindowInv, NEW hm \in HMaxes, NEW t \in Ttls, update_window_limits(hm, t)
    PROVE  WindowInv'
  <1>1. /\ h_max' = hm /\ ttl' = t
        /\ heads' = Pruned(heads, Now, t)
        /\ index' = PrunedIndex(index, heads, Now, t)
        /\ rho_guard' = {e \in rho_guard : Live(e.time, Now, t)}
        /\ pivots' = {q \in pivots : Live(q.time, Now, t)}
        /\ fresh' = {f \in fresh : Live(f.time, Now, t)}
        /\ UNCHANGED <<clock, chained, known, latest>>
        /\ Now' = Now
    BY DEF update_window_limits, Now
  <1>2. heads' = {h \in heads : Live(h.time, Now, t)}
    BY <1>1 DEF Pruned
  <1>3. Exact(heads', index')
    <2>1. Exact(heads, index)
      BY DEF WindowInv, IndexExact, Exact
    <2> QED BY <1>1, <2>1, PruneKeepsExact
  <1>4. TypeOK'
    <2>1. heads' \in SUBSET Head
      BY <1>2 DEF WindowInv, TypeOK
    <2>2. DOMAIN index' \subseteq Wids /\ \A w \in DOMAIN index' : index'[w] \in Wids
      BY <1>3, <2>1 DEF Exact, Head
    <2> QED BY <1>1, <2>1, <2>2 DEF WindowInv, TypeOK
  <1>5. IndexExact'
    BY <1>3 DEF Exact, IndexExact
  <1>6. Timely'
    BY <1>1, <1>2 DEF WindowInv, Timely
  <1>7. SeedsSpent'
    BY <1>1, <1>2 DEF WindowInv, SeedsSpent
  <1>8. ParityMatches'
    BY <1>1, <1>2 DEF WindowInv, ParityMatches
  <1>9. FreshParity'
    <2> SUFFICES ASSUME NEW f \in fresh, Live(f.time, Now, t)
                 PROVE  \E e \in pivots', k \in heads' :
                           /\ e.gid = f.gid /\ e.root = latest[f.gid]
                           /\ e.weid = k.weid /\ k.time >= f.time
      BY <1>1 DEF FreshParity
    <2>1. PICK e \in pivots, k \in heads :
             /\ e.gid = f.gid /\ e.root = latest[f.gid]
             /\ e.weid = k.weid /\ k.time >= f.time
      BY DEF WindowInv, FreshParity
    <2>2. e.time >= k.time
      BY <2>1 DEF WindowInv, ParityMatches
    <2>3. e.time \in Nat /\ k.time \in Nat /\ f.time \in Nat /\ Now \in Nat /\ t \in Nat
      BY AnchorWindowAssumption, NowFacts DEF WindowInv, TypeOK, Parity, Head
    <2>4. Live(e.time, Now, t) /\ Live(k.time, Now, t)
      BY <2>1, <2>2, <2>3 DEF Live
    <2> QED BY <1>1, <1>2, <2>1, <2>4
  <1>10. GuardCovers'
    <2> SUFFICES ASSUME NEW h \in heads, Live(h.time, Now, t), h.rho = SeedOf(h.weid)
                 PROVE  GuardOf(h) \in rho_guard'
      BY <1>2 DEF GuardCovers
    <2>1. GuardOf(h) \in rho_guard
      BY DEF WindowInv, GuardCovers
    <2>2. GuardOf(h).time = h.time
      BY DEF GuardOf
    <2> QED BY <1>1, <2>1, <2>2
  <1> QED BY <1>4, <1>5, <1>6, <1>7, <1>8, <1>9, <1>10 DEF WindowInv

-----------------------------------------------------------------------------
(* The invariant holds from the start and through every anchor, refresh    *)
(* and change of limits.                                                   *)
THEOREM WindowInvariance == Spec => []WindowInv
  <1>1. Init => WindowInv
    <2> SUFFICES ASSUME Init PROVE WindowInv
      OBVIOUS
    <2>1. TypeOK
      BY AnchorWindowAssumption DEF Init, TypeOK
    <2>2. IndexExact
      BY DEF Init, IndexExact
    <2> QED BY <2>1, <2>2 DEF Init, WindowInv, Timely, SeedsSpent, ParityMatches,
                              FreshParity, GuardCovers
  <1>2. WindowInv /\ [Next]_vars => WindowInv'
    <2> SUFFICES ASSUME WindowInv, [Next]_vars PROVE WindowInv'
      OBVIOUS
    <2>1. ASSUME NEW g \in Gids, NEW p \in Roots, NEW r \in Roots, NEW s \in Seeds,
                 accept_anchor_join(g, p, s, r)
          PROVE  WindowInv'
      BY <2>1, JoinLands, LandedKeeps
    <2>2. ASSUME NEW g \in Gids, NEW p \in Roots, NEW r \in Roots, NEW s \in Seeds,
                 NEW ws \in SUBSET DOMAIN index, accept_anchor_merge(g, p, s, ws, r)
          PROVE  WindowInv'
      <3>1. PICK rho \in Seeds : Landed(g, p, s, r, rho, ws)
        BY <2>2, MergeLands
      <3> QED BY <3>1, LandedKeeps
    <2>3. ASSUME NEW g \in Gids, NEW r \in Roots, refresh_pivot(g, r)
          PROVE  WindowInv'
      BY <2>3, RefreshKeeps
    <2>4. ASSUME NEW h \in HMaxes, NEW t \in Ttls, update_window_limits(h, t)
          PROVE  WindowInv'
      BY <2>4, LimitsKeep
    <2>6. CASE build_merge_ticket
      BY <2>6, TicketKeeps
    <2>7. ASSUME NEW h \in HMaxes, set_h_max(h)
          PROVE  WindowInv'
      BY <2>7 DEF set_h_max, WindowInv, TypeOK, IndexExact, Timely, Now,
                  SeedsSpent, ParityMatches, FreshParity, GuardCovers
    <2>5. CASE UNCHANGED vars
      BY <2>5 DEF vars, WindowInv, TypeOK, IndexExact, Timely, Now, SeedsSpent,
                  ParityMatches, FreshParity, GuardCovers
    <2> QED BY <2>1, <2>2, <2>3, <2>4, <2>5, <2>6, <2>7 DEF Next
  <1> QED BY <1>1, <1>2, PTL DEF Spec

(* The window's tables are well typed.                                     *)
THEOREM WindowTypeCorrect == Spec => []TypeOK
  BY WindowInvariance, PTL DEF WindowInv

(* The reverse index of the multi-head window is exact at every moment.    *)
THEOREM WindowIndexExact == Spec => []IndexExact
  BY WindowInvariance, PTL DEF WindowInv

(* The rho guard remembers every join whose head is live.                  *)
THEOREM WindowGuardCovers == Spec => []GuardCoversJoins
  <1>1. WindowInv => GuardCoversJoins
    BY DEF WindowInv, GuardCovers, GuardCoversJoins, GuardOf, GidOf, RootOf, SeedOf
  <1> QED BY <1>1, WindowInvariance, PTL

(* A group whose last anchor has stayed within the TTL gets a merge ticket. *)
THEOREM WindowTicketAvailable == Spec => []TicketAvailable
  <1>1. WindowInv => TicketAvailable
    <2> SUFFICES ASSUME WindowInv, NEW f \in fresh
                 PROVE  TicketParities(f.gid) # {}
      BY DEF TicketAvailable
    <2>1. PICK q \in pivots, h \in heads :
             /\ q.gid = f.gid /\ q.root = latest[f.gid]
             /\ q.weid = h.weid /\ h.time >= f.time
      BY DEF WindowInv, FreshParity
    <2>2. q.time >= h.time /\ Live(h.time, Now, ttl)
      BY <2>1 DEF WindowInv, ParityMatches, Timely
    <2>3. q.time \in Nat /\ h.time \in Nat /\ Now \in Nat /\ ttl \in Nat
      BY AnchorWindowAssumption, NowFacts DEF WindowInv, TypeOK, Parity, Head
    <2>4. q \in list(pivots, f.gid, latest[f.gid], Now)
      BY <2>1, <2>2, <2>3 DEF list, Live
    <2>5. HasHead(heads, index, q)
      BY <2>1 DEF WindowInv, IndexExact, HasHead, find_head
    <2> QED BY <2>4, <2>5 DEF TicketParities
  <1> QED BY <1>1, WindowInvariance, PTL

(* What a merge ticket offers, the next merge may retire.                  *)
THEOREM WindowTicketMergeable == Spec => []TicketMergeable
  <1>1. WindowInv => TicketMergeable
    <2> SUFFICES ASSUME WindowInv, NEW g \in Gids, NEW q \in TicketParities(g),
                        NEW h \in find_head(heads, index[q.weid], q.weid),
                        Live(h.time, clock, ttl)
                 PROVE  /\ q.rho = h.rho
                        /\ HeadsMergeable(g, latest[g], {q.weid},
                                          Pruned(heads, clock, ttl),
                                          PrunedIndex(index, heads, clock, ttl), clock)
      BY DEF TicketMergeable
    <2> DEFINE hs == Pruned(heads, clock, ttl)
               ix == PrunedIndex(index, heads, clock, ttl)
    <2>1. /\ q \in pivots /\ q.gid = g /\ q.root = latest[g]
          /\ h \in heads /\ h.weid = q.weid
      BY DEF TicketParities, list, find_head
    <2>2. q.rho = h.rho /\ q.time >= h.time
      BY <2>1 DEF WindowInv, ParityMatches
    <2>3. q.time \in Nat /\ h.time \in Nat /\ clock \in Nat /\ ttl \in Nat
      BY <2>1, AnchorWindowAssumption DEF WindowInv, TypeOK, Parity, Head
    <2>4. q \in list(pivots, g, latest[g], clock)
      BY <2>1, <2>2, <2>3 DEF list, Live
    <2>5. h \in hs
      BY <2>1 DEF Pruned
    <2>6. Exact(hs, ix)
      <3>1. Exact(heads, index)
        BY DEF WindowInv, IndexExact, Exact
      <3> QED BY <3>1, PruneKeepsExact
    <2> HIDE DEF hs, ix
    <2>7. q.weid \in DOMAIN ix /\ find_head(hs, ix[q.weid], q.weid) # {}
      BY <2>1, <2>5, <2>6 DEF Exact, find_head
    <2>8. HeadsMergeable(g, latest[g], {q.weid}, hs, ix, clock)
      BY <2>4, <2>7 DEF HeadsMergeable
    <2> QED BY <2>2, <2>8 DEF hs, ix
  <1> QED BY <1>1, WindowInvariance, PTL

=============================================================================
