---------------------------- MODULE WorkerProofs ----------------------------
(***************************************************************************)
(* Theorems about the worker: the room object (WorkerRoom) and the hints   *)
(* it sends (RealtimeFeed).  The recursive functions of the models (the    *)
(* replay of bundles, the filter of the buffer) are reasoned about through *)
(* Iterate, the existence of what they define, and Least, induction as the *)
(* absence of a least counterexample.  WorkerInv adds to the properties    *)
(* what they need to be inductive: the bundle store has no gap while no    *)
(* checkpoint is torn, every record stored or awaited was offered, and     *)
(* what a suspended accept will write back still covers what was answered  *)
(* meanwhile.                                                              *)
(***************************************************************************)
EXTENDS WorkerRoom, RealtimeFeed, FiniteSetTheorems, SequenceTheorems, NaturalsInduction,
        WellFoundedInduction, TLAPS

(* A set of numbers has a least one. *)
LEMMA Least ==
  ASSUME NEW S \in SUBSET Nat, S # {}
  PROVE  \E m \in S : \A k \in S : m <= k
<1>. DEFINE LT == OpToRel(LAMBDA x, y : x < y, Nat)
<1>1. PICK m \in S : \A y \in S : ~(<<y, m>> \in LT)
  BY NatLessThanWellFounded, WFMin
<1>2. \A y \in S : ~(y < m)
  BY <1>1 DEF OpToRel
<1>. QED
  BY <1>2

(* f holds the first N steps of st from x0 on. *)
Iterates(f, T, x0, st, N) ==
    f \in [0..N -> T] /\ f[0] = x0 /\ \A i \in 0..(N - 1) : f[i + 1] = st[<<i, f[i]>>]

(* A step function can be iterated as often as one likes. *)
LEMMA Iterate ==
  ASSUME NEW T, NEW x0 \in T, NEW st, NEW N \in Nat,
         \A i \in Nat : \A x \in T : st[<<i, x>>] \in T
  PROVE  \E f : Iterates(f, T, x0, st, N)
<1>. DEFINE P(n) == \E f \in [0..n -> T] :
                      f[0] = x0 /\ \A i \in 0..(n - 1) : f[i + 1] = st[<<i, f[i]>>]
            S == {n \in Nat : ~ P(n)}
<1>1. SUFFICES ASSUME S # {} PROVE FALSE
  <2>1. P(N) => \E f : Iterates(f, T, x0, st, N)
    BY DEF Iterates
  <2>2. S = {} => P(N)
    <3>. HIDE DEF P
    <3>. QED OBVIOUS
  <2>. QED
    BY <2>1, <2>2
<1>2. PICK m \in S : \A k \in S : m <= k
  <2>1. S \in SUBSET Nat
    OBVIOUS
  <2>. HIDE DEF S
  <2>. QED
    BY <1>1, <2>1, Least
<1>3. P(0)
  <2>. DEFINE f == [i \in 0..0 |-> x0]
  <2>1. f \in [0..0 -> T] /\ f[0] = x0 /\ 0..(0 - 1) = {}
    OBVIOUS
  <2>. QED
    BY <2>1
<1>4. m \in Nat /\ m # 0
  BY <1>3
<1>5. m - 1 \in Nat /\ P(m - 1)
  <2>1. m - 1 \in Nat /\ ~(m <= m - 1)
    BY <1>4
  <2>. QED
    BY <1>2, <2>1
<1>6. PICK f \in [0..(m - 1) -> T] :
         f[0] = x0 /\ \A i \in 0..((m - 1) - 1) : f[i + 1] = st[<<i, f[i]>>]
  BY <1>5
<1>. DEFINE g == [i \in 0..m |-> IF i = m THEN st[<<m - 1, f[m - 1]>>] ELSE f[i]]
<1>7. g \in [0..m -> T]
  <2>1. \A i \in 0..m : i # m => i \in 0..(m - 1)
    BY <1>4
  <2>2. m - 1 \in 0..(m - 1)
    BY <1>4
  <2>3. f[m - 1] \in T
    BY <2>2
  <2>4. st[<<m - 1, f[m - 1]>>] \in T
    BY <1>5, <2>3
  <2>. QED
    BY <2>1, <2>4
<1>8. g[0] = x0
  BY <1>4, <1>6
<1>9. ASSUME NEW i \in 0..(m - 1) PROVE g[i + 1] = st[<<i, g[i]>>]
  <2>1. i \in 0..m /\ i + 1 \in 0..m /\ i # m /\ g[i] = f[i]
    BY <1>4
  <2>2. CASE i + 1 = m
    <3>1. i = m - 1
      BY <1>4, <2>2
    <3>. QED
      BY <2>1, <2>2, <3>1
  <2>3. CASE i + 1 # m
    <3>1. i \in 0..((m - 1) - 1) /\ g[i + 1] = f[i + 1]
      BY <1>4, <2>1, <2>3
    <3>. QED
      BY <1>6, <2>1, <3>1
  <2>. QED
    BY <2>2, <2>3
<1>10. P(m)
  <2>. HIDE DEF g
  <2>. QED
    BY <1>7, <1>8, <1>9
<1>. QED
  BY <1>10

-----------------------------------------------------------------------------
(* The server a request rebuilds. *)

(* A group a request has rebuilt. *)
Groups == [reg : BOOLEAN, gen : Nat, rot : BOOLEAN, ver : Nat, leases : SUBSET Leaves,
           pend : SUBSET Leaves, gov : Nat, members : SUBSET Leaves]

(* The server of the configuration is one. *)
LEMMA BuildTyped ==
  ASSUME seeded \in BOOLEAN
  PROVE  build_server \in Groups /\ build_server.gov = 0 /\ build_server.pend = {}
  BY DEF build_server, NewGroup, Groups

(* An accepted bundle changes no governance, and at most the ticket of its *)
(* leaf.                                                                   *)
LEMMA AcceptTyped ==
  ASSUME NEW g \in Groups, NEW b, b.kind \in Kinds, b.leaf \in Leaves,
         accept_epoch(g, b) # Refused
  PROVE  /\ accept_epoch(g, b) \in Groups
         /\ accept_epoch(g, b).gov = g.gov
         /\ g.pend \ {b.leaf} \subseteq accept_epoch(g, b).pend
         /\ b.kind = "join" => accept_epoch(g, b).pend = g.pend
<1>. DEFINE h == accept_epoch(g, b)
<1>1. CASE b.kind = "join"
  <2>1. h = [g EXCEPT !.leases = @ \cup {b.leaf}, !.members = @ \cup {b.leaf}]
    BY <1>1 DEF accept_epoch
  <2>. HIDE DEF h
  <2>2. h \in Groups /\ h.gov = g.gov /\ h.pend = g.pend
    BY <2>1 DEF Groups
  <2>. QED
    BY <2>2 DEF h
<1>2. CASE b.kind = "finalize"
  <2>. DEFINE v == g.ver + 1
  <2>0. v \in Nat
    BY DEF Groups
  <2>1. h = [g EXCEPT !.ver = v, !.pend = @ \ {b.leaf}]
    BY <1>2 DEF accept_epoch
  <2>. HIDE DEF h, v
  <2>2. h \in Groups /\ h.gov = g.gov /\ h.pend = g.pend \ {b.leaf}
    BY <2>0, <2>1 DEF Groups
  <2>. QED
    BY <1>2, <2>2 DEF h
<1>3. CASE b.kind = "leave"
  <2>. DEFINE v == g.ver + 1
  <2>0. v \in Nat
    BY DEF Groups
  <2>1. h = [g EXCEPT !.ver = v, !.leases = @ \ {b.leaf}, !.pend = @ \ {b.leaf},
                      !.members = @ \ {b.leaf}, !.rot = TRUE]
    BY <1>3 DEF accept_epoch
  <2>. HIDE DEF h, v
  <2>2. h \in Groups /\ h.gov = g.gov /\ h.pend = g.pend \ {b.leaf}
    BY <2>0, <2>1 DEF Groups
  <2>. QED
    BY <1>3, <2>2 DEF h
<1>. QED
  BY <1>1, <1>2, <1>3 DEF Kinds

(* The replay of well-formed records is a group, or refused. *)
LEMMA ReplayTyped ==
  ASSUME NEW server \in Groups, NEW bs, \A k \in DOMAIN bs : bs[k] \in AcceptedBundleRecord
  PROVE  replay_accepted_bundles(server, bs) \in Groups \cup {Refused}
<1>. DEFINE G == Groups \cup {Refused}
            st == [p \in Nat \X G |-> IF p[2] = Refused \/ p[1] \notin DOMAIN bs THEN p[2]
                                      ELSE accept_epoch(p[2], bs[p[1]])]
            After(r) == [k \in 0..MaxEpochs |->
                           IF k = 0 THEN server
                           ELSE IF r[k - 1] = Refused \/ k - 1 \notin DOMAIN bs THEN r[k - 1]
                           ELSE accept_epoch(r[k - 1], bs[k - 1])]
            replay == CHOOSE r : r = After(r)
<1>0. MaxEpochs \in Nat
  BY WorkerAssumption
<1>1. ASSUME NEW g \in G, NEW i, g # Refused, i \in DOMAIN bs
      PROVE  accept_epoch(g, bs[i]) \in G
  <2>1. bs[i].kind \in Kinds /\ bs[i].leaf \in Leaves
    BY <1>1 DEF AcceptedBundleRecord
  <2>. QED
    BY <1>1, <2>1, AcceptTyped
<1>2. st \in [Nat \X G -> G]
  <2>1. ASSUME NEW p \in Nat \X G PROVE st[p] \in G
    <3>1. st[p] = IF p[2] = Refused \/ p[1] \notin DOMAIN bs THEN p[2]
                  ELSE accept_epoch(p[2], bs[p[1]])
      OBVIOUS
    <3>2. p[2] \in G
      OBVIOUS
    <3>. HIDE DEF G, st
    <3>. QED
      BY <1>1, <3>1, <3>2
  <2>2. st = [p \in Nat \X G |-> st[p]]
    OBVIOUS
  <2>. HIDE DEF st, G
  <2>. QED
    BY <2>1, <2>2
<1>3. \E r : r = After(r)
  <2>1. server \in G
    OBVIOUS
  <2>. HIDE DEF st, G
  <2>. HIDE DEF After, replay
  <2>2. PICK f : Iterates(f, G, server, st, MaxEpochs)
    <3>1. \A i \in Nat : \A x \in G : st[<<i, x>>] \in G
      BY <1>2
    <3>. QED
      BY <1>0, <2>1, <3>1, Iterate
  <2>. USE DEF After
  <2>3. ASSUME NEW k \in 0..MaxEpochs PROVE f[k] = After(f)[k]
    <3>1. CASE k = 0
      BY <2>2, <3>1 DEF Iterates
    <3>2. CASE k # 0
      <4>1. k - 1 \in 0..(MaxEpochs - 1) /\ (k - 1) + 1 = k /\ k - 1 \in 0..MaxEpochs
            /\ k - 1 \in Nat
        BY <1>0, <3>2
      <4>2. f[k] = st[<<k - 1, f[k - 1]>>] /\ f[k - 1] \in G
        BY <2>2, <4>1 DEF Iterates
      <4>3. <<k - 1, f[k - 1]>> \in Nat \X G
        BY <4>1, <4>2
      <4>4. st[<<k - 1, f[k - 1]>>] =
              IF f[k - 1] = Refused \/ k - 1 \notin DOMAIN bs THEN f[k - 1]
              ELSE accept_epoch(f[k - 1], bs[k - 1])
        BY <4>3 DEF st
      <4>. QED
        BY <3>2, <4>2, <4>4
    <3>. QED
      BY <3>1, <3>2
  <2>4. f = After(f)
    BY <2>2, <2>3 DEF Iterates
  <2>. QED
    BY <2>4
<1>4. replay = After(replay)
  BY <1>3
<1>5. replay_accepted_bundles(server, bs) = replay[MaxEpochs]
  BY DEF replay_accepted_bundles
<1>. HIDE DEF replay
<1>6. /\ replay[0] = server
      /\ \A k \in 1..MaxEpochs : replay[k] = IF replay[k - 1] = Refused \/ k - 1 \notin DOMAIN bs
                                             THEN replay[k - 1]
                                             ELSE accept_epoch(replay[k - 1], bs[k - 1])
  BY <1>0, <1>4
<1>. DEFINE S == {k \in 0..MaxEpochs : replay[k] \notin G}
<1>7. S = {}
  <2>. SUFFICES ASSUME S # {} PROVE FALSE
    OBVIOUS
  <2>1. S \in SUBSET Nat
    BY <1>0
  <2>2. PICK m \in S : \A k \in S : m <= k
    <3>. HIDE DEF S
    <3>. QED
      BY <2>1, Least
  <2>3. m \in 0..MaxEpochs /\ m # 0
    BY <1>6
  <2>4. m - 1 \in 0..MaxEpochs /\ ~(m <= m - 1) /\ m \in 1..MaxEpochs
    BY <1>0, <2>3
  <2>5. replay[m - 1] \in G
    BY <2>2, <2>4
  <2>6. replay[m] \in G
    <3>. HIDE DEF G
    <3>. QED
      BY <1>1, <1>6, <2>4, <2>5
  <2>. QED
    BY <2>6
<1>8. MaxEpochs \in 0..MaxEpochs
  BY <1>0
<1>. QED
  BY <1>5, <1>7, <1>8

(* A room that answers has the stored governance and tickets. *)
LEMMA RehydrateTyped ==
  ASSUME TypeOK, Served
  PROVE  /\ rehydrate \in Groups
         /\ rehydrate.gov = snap.meta.gov /\ rehydrate.pend = snap.meta.pend
         /\ snap.meta \in Metadata
<1>1. CASE snap = NoSnapshot
  <2>1. rehydrate = build_server
    BY <1>1 DEF rehydrate
  <2>2. snap.meta.gov = 0 /\ snap.meta.pend = {} /\ snap.meta \in Metadata
    BY <1>1 DEF NoSnapshot, MetadataOf, NewGroup, Metadata
  <2>3. seeded \in BOOLEAN
    BY DEF TypeOK
  <2>. QED
    BY <2>1, <2>2, <2>3, BuildTyped
<1>2. CASE snap # NoSnapshot
  <2>. DEFINE g == replay_accepted_bundles(build_server, bundles)
              m == snap.meta
              q == g.reg \/ m.reg
              v == IF m.ver > g.ver THEN m.ver ELSE g.ver
              l == IF m.ver > g.ver \/ g.leases = {} THEN m.leases ELSE g.leases
  <2>1. m \in Metadata
    BY <1>2 DEF TypeOK, RoomSnapshot
  <2>2. g # Refused /\ rehydrate = restore_runtime_metadata(g, m)
    BY <1>2 DEF Served, rehydrate
  <2>3. g \in Groups
    <3>1. build_server \in Groups
      BY BuildTyped DEF TypeOK
    <3>. QED
      BY <2>2, <3>1, ReplayTyped DEF TypeOK
  <2>. HIDE DEF g, m
  <2>4. rehydrate = [g EXCEPT !.reg = q, !.gen = m.gen, !.rot = m.rot, !.gov = m.gov,
                              !.pend = m.pend, !.ver = v, !.leases = l]
    BY <2>2 DEF restore_runtime_metadata
  <2>5. /\ v \in Nat /\ l \in SUBSET Leaves /\ m.gov \in Nat /\ m.pend \in SUBSET Leaves
        /\ m.gen \in Nat /\ m.rot \in BOOLEAN
    BY <2>1, <2>3 DEF Metadata, Groups
  <2>6. q \in BOOLEAN
    OBVIOUS
  <2>. HIDE DEF v, l, q
  <2>7. rehydrate \in Groups /\ rehydrate.gov = m.gov /\ rehydrate.pend = m.pend
    BY <2>3, <2>4, <2>5, <2>6 DEF Groups
  <2>. QED
    BY <2>1, <2>7 DEF m
<1>. QED
  BY <1>1, <1>2

(* The metadata written back are those of the group. *)
LEMMA MetadataTyped ==
  ASSUME NEW g \in Groups
  PROVE  /\ MetadataOf(g) \in Metadata
         /\ MetadataOf(g).gov = g.gov /\ MetadataOf(g).pend = g.pend
  BY DEF MetadataOf, Metadata, Groups

-----------------------------------------------------------------------------
(* The bundle store. *)

(* Records of epochs up to the top-th at indices below the bound. *)
Shaped(bs, top) ==
    /\ DOMAIN bs \subseteq 0..(MaxEpochs - 1)
    /\ \A k \in DOMAIN bs : bs[k] \in AcceptedBundleRecord /\ bs[k].id <= top

(* Indices without a gap. *)
Dense(bs) == DOMAIN bs = 0..(Cardinality(DOMAIN bs) - 1)

(* The epochs of the stored bundles. *)
Ids(bs) == {bs[k].id : k \in DOMAIN bs}

(* The numbers of D below i. *)
Below(D, i) == {j \in D : j < i}

(* In a finite set of numbers there is one with k others below it. *)
LEMMA Ranks ==
  ASSUME NEW D \in SUBSET Nat, IsFiniteSet(D), NEW k \in 0..(Cardinality(D) - 1)
  PROVE  \E i \in D : Cardinality(Below(D, i)) = k
<1>. DEFINE n == Cardinality(D)
            f == [i \in D |-> Cardinality(Below(D, i))]
            T == 0..(n - 1)
<1>0. n \in Nat
  BY FS_CardinalityType
<1>1. ASSUME NEW i \in D
      PROVE  /\ IsFiniteSet(Below(D, i)) /\ Cardinality(Below(D, i)) \in Nat
             /\ Cardinality(Below(D, i)) <= n - 1
  <2>1. Below(D, i) \in SUBSET (D \ {i})
    BY DEF Below
  <2>2. IsFiniteSet(D \ {i}) /\ Cardinality(D \ {i}) = n - 1
    BY FS_RemoveElement
  <2>. HIDE DEF n
  <2>. QED
    BY <2>1, <2>2, FS_Subset, FS_CardinalityType
<1>2. ASSUME NEW i \in D, NEW j \in D, i < j
      PROVE  Cardinality(Below(D, i)) < Cardinality(Below(D, j))
  <2>0. i \in Nat /\ j \in Nat
    OBVIOUS
  <2>1. Below(D, i) \cup {i} \in SUBSET Below(D, j) /\ i \notin Below(D, i)
    <3>1. ASSUME NEW x \in Below(D, i) PROVE x \in Below(D, j) /\ x # i
      <4>1. x \in D /\ x \in Nat /\ x < i
        BY DEF Below
      <4>. QED
        BY <1>2, <2>0, <4>1 DEF Below
    <3>2. i \in Below(D, j)
      BY <1>2 DEF Below
    <3>. QED
      BY <3>1, <3>2
  <2>2. Cardinality(Below(D, i) \cup {i}) = Cardinality(Below(D, i)) + 1
    BY <1>1, <2>1, FS_AddElement
  <2>3. Cardinality(Below(D, i) \cup {i}) <= Cardinality(Below(D, j))
    BY <1>1, <2>1, FS_Subset
  <2>. QED
    BY <1>1, <2>2, <2>3
<1>3. f \in [D -> T]
  BY <1>0, <1>1
<1>4. ASSUME NEW i \in D, NEW j \in D, f[i] = f[j] PROVE i = j
  <2>1. i \in Nat /\ j \in Nat /\ Cardinality(Below(D, i)) = Cardinality(Below(D, j))
    BY <1>4
  <2>. QED
    BY <1>1, <1>2, <2>1
<1>. HIDE DEF f, n
<1>5. f \in Injection(D, T)
  BY <1>3, <1>4 DEF Injection, IsInjective
<1>6. IsFiniteSet(T) /\ Cardinality(T) = n
  BY <1>0, FS_Interval
<1>7. f \in Surjection(D, T)
  <2>1. Cardinality(D) = Cardinality(T)
    BY <1>6 DEF n
  <2>. HIDE DEF T
  <2>. QED
    BY <1>5, <1>6, <2>1, FS_Injection
<1>8. k \in T
  BY DEF n
<1>9. PICK i \in D : f[i] = k
  BY <1>7, <1>8 DEF Surjection
<1>. QED
  BY <1>9 DEF f

(* Writing the records back closes the gaps, and changes nothing if there *)
(* are none.                                                              *)
LEMMA ReplaceEffect ==
  ASSUME NEW bs, NEW top \in Nat, Shaped(bs, top),
         NEW n \in 0..Cardinality(DOMAIN bs), NEW r, r = [k \in 0..(n - 1) |-> Nth(bs, k)]
  PROVE  /\ IsFiniteSet(DOMAIN bs) /\ Cardinality(DOMAIN bs) \in Nat
         /\ Shaped(r, top) /\ Dense(r) /\ Cardinality(DOMAIN r) = n
         /\ Dense(bs) /\ n = Cardinality(DOMAIN bs) => Ids(r) = Ids(bs)
<1>. DEFINE D == DOMAIN bs
            c == Cardinality(D)
<1>0. MaxEpochs \in Nat
  BY WorkerAssumption
<1>1. D \in SUBSET (0..(MaxEpochs - 1)) /\ D \in SUBSET Nat
  BY <1>0 DEF Shaped
<1>2. IsFiniteSet(D) /\ c \in Nat /\ c <= MaxEpochs
  <2>1. IsFiniteSet(0..(MaxEpochs - 1)) /\ Cardinality(0..(MaxEpochs - 1)) = MaxEpochs
    <3>1. 0 \in Int /\ MaxEpochs - 1 \in Int
      BY <1>0
    <3>2. Cardinality(0..(MaxEpochs - 1)) = IF 0 > MaxEpochs - 1 THEN 0 ELSE (MaxEpochs - 1) - 0 + 1
      BY <3>1, FS_Interval
    <3>. QED
      BY <1>0, <3>1, <3>2, FS_Interval
  <2>. HIDE DEF D
  <2>. QED
    BY <1>1, <2>1, FS_Subset, FS_CardinalityType
<1>3. n \in Nat /\ n <= c
  BY <1>2
<1>4. ASSUME NEW k \in 0..(n - 1) PROVE \E i \in D : Cardinality(Below(D, i)) = k
  <2>1. k \in 0..(c - 1)
    BY <1>2, <1>3
  <2>. HIDE DEF D
  <2>. QED
    BY <1>1, <1>2, <2>1, Ranks DEF c
<1>5. ASSUME NEW k \in 0..(n - 1) PROVE \E i \in D : r[k] = bs[i] /\ Cardinality(Below(D, i)) = k
  <2>. DEFINE x == CHOOSE i \in D : Cardinality({j \in D : j < i}) = k
  <2>1. x \in D /\ Cardinality(Below(D, x)) = k
    BY <1>4 DEF Below
  <2>2. r[k] = bs[x]
    BY DEF Nth
  <2>. QED
    BY <2>1, <2>2
<1>6. DOMAIN r = 0..(n - 1)
  OBVIOUS
<1>7. Cardinality(DOMAIN r) = n
  BY <1>3, <1>6, FS_Interval
<1>8. Shaped(r, top)
  <2>1. DOMAIN r \subseteq 0..(MaxEpochs - 1)
    BY <1>0, <1>2, <1>3, <1>6
  <2>2. ASSUME NEW k \in DOMAIN r PROVE r[k] \in AcceptedBundleRecord /\ r[k].id <= top
    BY <1>5, <1>6 DEF Shaped
  <2>. QED
    BY <2>1, <2>2 DEF Shaped
<1>9. Dense(r)
  BY <1>6, <1>7 DEF Dense
<1>10. ASSUME Dense(bs), n = c PROVE Ids(r) = Ids(bs)
  <2>1. D = 0..(c - 1)
    BY <1>10 DEF Dense
  <2>2. ASSUME NEW i \in D PROVE Cardinality(Below(D, i)) = i
    <3>1. Below(D, i) = 0..(i - 1) /\ i \in Nat
      BY <1>2, <2>1 DEF Below
    <3>. QED
      BY <3>1, FS_Interval
  <2>3. ASSUME NEW k \in D PROVE r[k] = bs[k]
    <3>1. PICK i \in D : r[k] = bs[i] /\ Cardinality(Below(D, i)) = k
      BY <1>5, <1>10, <2>1
    <3>. QED
      BY <2>2, <3>1
  <2>4. DOMAIN r = D
    BY <1>6, <1>10, <2>1
  <2>. QED
    BY <2>3, <2>4 DEF Ids
<1>. QED
  BY <1>2, <1>7, <1>8, <1>9, <1>10

(* Appending adds at most one record, and overwrites none if there is no gap. *)
LEMMA AppendEffect ==
  ASSUME NEW bs, NEW top \in Nat, Shaped(bs, top), NEW b \in AcceptedBundleRecord, b.id <= top,
         Cardinality(DOMAIN bs) < MaxEpochs, NEW r, r = append_accepted_bundle(bs, b)
  PROVE  /\ Shaped(r, top)
         /\ Cardinality(DOMAIN r) \in Nat /\ Cardinality(DOMAIN r) <= Cardinality(DOMAIN bs) + 1
         /\ Dense(bs) => Dense(r) /\ Ids(r) = Ids(bs) \cup {b.id}
<1>. DEFINE D == DOMAIN bs
            n == Cardinality(D)
<1>0. MaxEpochs \in Nat
  BY WorkerAssumption
<1>1. IsFiniteSet(D) /\ n \in Nat /\ n < MaxEpochs
  <2>1. 0 \in Int /\ MaxEpochs - 1 \in Int
    BY <1>0
  <2>2. IsFiniteSet(0..(MaxEpochs - 1))
    BY ONLY <2>1, FS_Interval
  <2>3. D \in SUBSET (0..(MaxEpochs - 1))
    BY DEF Shaped
  <2>. HIDE DEF D
  <2>4. IsFiniteSet(D) /\ Cardinality(D) \in Nat
    BY <2>2, <2>3, FS_Subset, FS_CardinalityType
  <2>. QED
    BY <2>4 DEF D
<1>2. r = [k \in D \cup {n} |-> IF k = n THEN b ELSE bs[k]]
  BY DEF append_accepted_bundle
<1>3. DOMAIN r = D \cup {n} /\ r[n] = b /\ \A k \in D : k # n => r[k] = bs[k]
  BY <1>2
<1>. HIDE DEF n, D
<1>4. Cardinality(DOMAIN r) = IF n \in D THEN n ELSE n + 1
  BY <1>1, <1>3, FS_AddElement DEF n
<1>5. Shaped(r, top)
  <2>1. DOMAIN r \subseteq 0..(MaxEpochs - 1)
    BY <1>0, <1>1, <1>3 DEF Shaped, D
  <2>2. ASSUME NEW k \in DOMAIN r PROVE r[k] \in AcceptedBundleRecord /\ r[k].id <= top
    BY <1>3 DEF Shaped, D
  <2>. QED
    BY <2>1, <2>2 DEF Shaped
<1>6. ASSUME Dense(bs) PROVE Dense(r) /\ Ids(r) = Ids(bs) \cup {b.id}
  <2>1. D = 0..(n - 1)
    BY <1>6 DEF Dense, n, D
  <2>2. n \notin D /\ D \cup {n} = 0..n /\ (n + 1) - 1 = n
    BY <1>1, <2>1
  <2>3. Dense(r)
    BY <1>3, <1>4, <2>2 DEF Dense
  <2>4. Ids(r) = Ids(bs) \cup {b.id}
    BY <1>3, <2>2 DEF Ids, D
  <2>. QED
    BY <2>3, <2>4
<1>. QED
  BY <1>1, <1>4, <1>5, <1>6 DEF n, D

(* A failing replacement leaves no more records than there were. *)
LEMMA TornEffect ==
  ASSUME NEW bs, NEW top \in Nat, Shaped(bs, top), NEW r \in TornBundles(bs)
  PROVE  /\ Shaped(r, top)
         /\ Cardinality(DOMAIN r) \in Nat /\ Cardinality(DOMAIN r) <= Cardinality(DOMAIN bs)
<1>. DEFINE c == Cardinality(DOMAIN bs)
<1>1. IsFiniteSet(DOMAIN bs) /\ c \in Nat
  <2>1. IsFiniteSet(0..(MaxEpochs - 1)) /\ DOMAIN bs \in SUBSET (0..(MaxEpochs - 1))
    BY WorkerAssumption, FS_Interval DEF Shaped
  <2>. QED
    BY <2>1, FS_Subset, FS_CardinalityType
<1>2. ASSUME NEW d \in DOMAIN bs, r = [k \in {i \in DOMAIN bs : i > d} |-> bs[k]]
      PROVE  Shaped(r, top) /\ Cardinality(DOMAIN r) \in Nat /\ Cardinality(DOMAIN r) <= c
  <2>1. DOMAIN r \in SUBSET (DOMAIN bs) /\ \A k \in DOMAIN r : r[k] = bs[k]
    BY <1>2
  <2>2. Shaped(r, top)
    BY <2>1 DEF Shaped
  <2>. QED
    BY <1>1, <2>1, <2>2, FS_Subset, FS_CardinalityType
<1>3. ASSUME NEW n \in 0..c, r = [k \in 0..(n - 1) |-> Nth(bs, k)]
      PROVE  Shaped(r, top) /\ Cardinality(DOMAIN r) \in Nat /\ Cardinality(DOMAIN r) <= c
  <2>1. n \in 0..c /\ n \in Nat /\ n <= c
    BY <1>1
  <2>. QED
    BY <1>3, <2>1, ReplaceEffect
<1>. QED
  BY <1>2, <1>3 DEF TornBundles

-----------------------------------------------------------------------------
(* What has been answered is a record of the bounded sets. *)
Answered == [msgs : SUBSET (1..MaxMessages), epochs : SUBSET (1..MaxEpochs),
             tickets : SUBSET Leaves, gov : Nat]

(* An accept that awaits the registry holds all that is stored, but for the *)
(* ticket of the leaf it revokes.                                           *)
Covers(a) ==
    /\ vol.msgs \subseteq a.vol.msgs
    /\ vol.scopes \subseteq a.vol.scopes /\ a.bundle.id \in a.vol.scopes
    /\ snap.meta.gov <= a.meta.gov
    /\ snap.meta.pend \ {a.bundle.leaf} \subseteq a.meta.pend
    /\ a.bundle.kind # "join"

(* Every epoch held anywhere has been offered, and there are never more     *)
(* records stored or awaited than offers: an append always finds a place.   *)
Counted ==
    /\ Shaped(bundles, offered) /\ snap.last <= offered
    /\ vol.scopes \subseteq 1..offered
    /\ \A a \in tasks : a.bundle.id <= offered /\ a.vol.scopes \subseteq 1..offered
    /\ IsFiniteSet(tasks)
    /\ Cardinality(DOMAIN bundles) + Cardinality(tasks) <= offered

(* The inductive invariant. *)
WorkerInv ==
    /\ TypeOK /\ acked \in Answered /\ Counted
    /\ "checkpoint" \notin torn => Dense(bundles)
    /\ EpochsKept /\ SerialAcksKept
    /\ torn = {} /\ ~overlapped => \A a \in tasks : Covers(a)

(* The stored snapshot is well formed, also where there is none. *)
LEMMA SnapTyped ==
  ASSUME TypeOK
  PROVE  snap.meta \in Metadata /\ snap.last \in Int
<1>1. CASE snap = NoSnapshot
  BY <1>1 DEF NoSnapshot, MetadataOf, NewGroup, Metadata
<1>2. CASE snap \in RoomSnapshot
  BY <1>2, WorkerAssumption DEF RoomSnapshot
<1>. QED
  BY <1>1, <1>2 DEF TypeOK

(* The store is finite. *)
LEMMA StoreFinite ==
  ASSUME TypeOK
  PROVE  IsFiniteSet(DOMAIN bundles) /\ Cardinality(DOMAIN bundles) \in Nat
<1>1. IsFiniteSet(0..(MaxEpochs - 1))
  BY WorkerAssumption, FS_Interval
<1>2. DOMAIN bundles \in SUBSET (0..(MaxEpochs - 1))
  BY DEF TypeOK
<1>. QED
  BY <1>1, <1>2, FS_Subset, FS_CardinalityType

(* Enlarging the bound keeps what is counted below it. *)
LEMMA ShapedUpTo ==
  ASSUME NEW bs, NEW m \in Nat, NEW n \in Nat, m <= n, Shaped(bs, m)
  PROVE  Shaped(bs, n)
<1>1. \A k \in DOMAIN bs : bs[k].id \in Int
  BY DEF Shaped, AcceptedBundleRecord
<1>. QED
  BY <1>1 DEF Shaped

(* The same of the copies that await. *)
LEMMA TasksUpTo ==
  ASSUME TypeOK, Counted, NEW n \in Nat, offered <= n, NEW x \in tasks
  PROVE  x.bundle.id <= n /\ x.vol.scopes \subseteq 1..n
<1>1. /\ x.bundle.id \in Int /\ x.bundle.id <= offered /\ offered \in Nat
      /\ x.vol.scopes \subseteq 1..offered
  BY DEF Counted, TypeOK, AcceptedRoomEpoch, AcceptedBundleRecord
<1>2. 1..offered \subseteq 1..n
  BY <1>1
<1>. QED
  BY <1>1, <1>2

(* What an accept holds once the server has taken the offered epoch. *)
LEMMA AcceptedCopy ==
  ASSUME TypeOK, Counted, NEW kind \in Kinds, NEW leaf \in Leaves, NEW b, b = Offer(kind, leaf),
         Offered(b), NEW a, a = accept_room_epoch(b)
  PROVE  /\ b \in AcceptedBundleRecord /\ b.id = offered + 1 /\ b.kind = kind /\ b.leaf = leaf
         /\ a \in AcceptedRoomEpoch /\ a.bundle = b
         /\ a.vol.msgs = vol.msgs /\ a.vol.scopes = vol.scopes \cup {b.id}
         /\ a.vol.scopes \subseteq 1..(offered + 1)
         /\ a.meta.gov = snap.meta.gov
         /\ snap.meta.pend \ {leaf} \subseteq a.meta.pend
         /\ kind = "join" => a.meta.pend = snap.meta.pend
<1>0. offered \in Nat /\ MaxEpochs \in Nat /\ offered < MaxEpochs /\ Served
  BY WorkerAssumption DEF TypeOK, Offered
<1>. DEFINE g == rehydrate
            h == accept_epoch(g, b)
            n == offered + 1
<1>1. g \in Groups /\ g.gov = snap.meta.gov /\ g.pend = snap.meta.pend
  BY <1>0, RehydrateTyped
<1>2. n \in 1..MaxEpochs
  BY <1>0
<1>3. b = [id |-> n, kind |-> kind, leaf |-> leaf, base |-> g.ver, gen |-> g.gen]
  BY <1>0 DEF Offer
<1>4. h # Refused
  BY DEF Offered
<1>5. a = [meta |-> MetadataOf(h), bundle |-> b, vol |-> [vol EXCEPT !.scopes = @ \cup {b.id}]]
  BY DEF accept_room_epoch
<1>. HIDE DEF g
<1>6. b.id = n /\ b.kind = kind /\ b.leaf = leaf /\ b \in AcceptedBundleRecord
  <2>1. g.ver \in Nat /\ g.gen \in Nat
    BY <1>1 DEF Groups
  <2>. HIDE DEF n
  <2>. QED
    BY <1>2, <1>3, <2>1 DEF AcceptedBundleRecord
<1>7. /\ h \in Groups /\ h.gov = g.gov /\ g.pend \ {leaf} \subseteq h.pend
      /\ kind = "join" => h.pend = g.pend
  BY <1>1, <1>4, <1>6, AcceptTyped
<1>. HIDE DEF h, n
<1>8. MetadataOf(h) \in Metadata /\ MetadataOf(h).gov = h.gov /\ MetadataOf(h).pend = h.pend
  BY <1>7, MetadataTyped
<1>9. vol \in RoomVolatileSnapshot /\ vol.scopes \subseteq 1..offered
  BY DEF TypeOK, Counted
<1>10. /\ a.vol \in RoomVolatileSnapshot /\ a.vol.msgs = vol.msgs
       /\ a.vol.scopes = vol.scopes \cup {b.id}
  <2>1. a.vol = [vol EXCEPT !.scopes = @ \cup {b.id}]
    BY <1>5
  <2>. QED
    BY <1>2, <1>6, <1>9, <2>1 DEF RoomVolatileSnapshot
<1>11. a.vol.scopes \subseteq 1..(offered + 1)
  BY <1>0, <1>6, <1>9, <1>10 DEF n
<1>12. a \in AcceptedRoomEpoch /\ a.bundle = b /\ a.meta = MetadataOf(h)
  BY <1>5, <1>6, <1>8, <1>10 DEF AcceptedRoomEpoch
<1>. QED
  BY <1>1, <1>6, <1>7, <1>8, <1>10, <1>11, <1>12 DEF n

(* Writing an accepted epoch over what is stored keeps the invariant, if     *)
(* the copies hold what is stored whenever nothing overlapped.               *)
LEMMA PersistKeeps ==
  ASSUME WorkerInv, NEW a \in AcceptedRoomEpoch, persist_room_accept(a), AckEpoch(a.bundle),
         upsert_routing_entries(a.bundle.id), seeded' = seeded, faults' = faults, torn' = torn,
         overlapped' \in BOOLEAN, offered' \in 0..MaxEpochs, offered <= offered',
         a.bundle.id <= offered', a.vol.scopes \subseteq 1..offered',
         tasks' \subseteq tasks, IsFiniteSet(tasks'),
         Cardinality(DOMAIN bundles) + 1 + Cardinality(tasks') <= offered',
         ~overlapped' => ~overlapped /\ tasks' = {},
         torn = {} /\ ~overlapped' =>
           /\ vol.msgs \subseteq a.vol.msgs
           /\ vol.scopes \subseteq a.vol.scopes /\ a.bundle.id \in a.vol.scopes
           /\ snap.meta.gov <= a.meta.gov
           /\ snap.meta.pend \ (IF a.bundle.kind = "join" THEN {} ELSE {a.bundle.leaf})
                \subseteq a.meta.pend
  PROVE  WorkerInv'
<1>. DEFINE b == a.bundle
<1>0. /\ TypeOK /\ acked \in Answered /\ Counted /\ ("checkpoint" \notin torn => Dense(bundles))
      /\ EpochsKept /\ SerialAcksKept /\ offered \in Nat /\ offered' \in Nat
      /\ offered' <= MaxEpochs /\ MaxEpochs \in Nat
  BY WorkerAssumption DEF WorkerInv, TypeOK
<1>1. b \in AcceptedBundleRecord /\ b.id \in 1..MaxEpochs /\ b.id <= offered'
      /\ a.meta \in Metadata /\ a.vol \in RoomVolatileSnapshot
  BY DEF AcceptedRoomEpoch, AcceptedBundleRecord
<1>2. Shaped(bundles, offered')
  BY <1>0, ShapedUpTo DEF Counted
<1>3. Cardinality(DOMAIN bundles) \in Nat /\ Cardinality(tasks') \in Nat
  BY <1>0, StoreFinite, FS_CardinalityType
<1>4. Cardinality(DOMAIN bundles) < MaxEpochs
  BY <1>0, <1>3
<1>5. /\ snap' = [meta |-> a.meta, last |-> b.id] /\ vol' = a.vol
      /\ bundles' = append_accepted_bundle(bundles, b)
  BY DEF persist_room_accept
<1>. HIDE DEF b
<1>6. /\ Shaped(bundles', offered')
      /\ Cardinality(DOMAIN bundles') \in Nat
      /\ Cardinality(DOMAIN bundles') <= Cardinality(DOMAIN bundles) + 1
      /\ Dense(bundles) => Dense(bundles') /\ Ids(bundles') = Ids(bundles) \cup {b.id}
  BY <1>0, <1>1, <1>2, <1>4, <1>5, AppendEffect
<1>7. snap' \in RoomSnapshot /\ snap'.last = b.id /\ snap'.meta = a.meta
  <2>1. b.id \in 0..MaxEpochs
    <3>1. b.id \in 1..MaxEpochs /\ MaxEpochs \in Nat
      BY <1>0, <1>1
    <3>. QED
      BY ONLY <3>1
  <2>. QED
    BY <1>1, <1>5, <2>1 DEF RoomSnapshot
<1>8. b.id \in 1..offered' /\ 1..offered \subseteq 1..offered'
  BY <1>0, <1>1
<1>9. TypeOK'
  <2>1. routing' \subseteq 1..offered'
    BY <1>0, <1>8 DEF upsert_routing_entries, TypeOK, b
  <2>2. tasks' \subseteq AcceptedRoomEpoch
    BY <1>0 DEF TypeOK
  <2>3. /\ DOMAIN bundles' \subseteq 0..(MaxEpochs - 1)
        /\ \A k \in DOMAIN bundles' : bundles'[k] \in AcceptedBundleRecord
    BY <1>6 DEF Shaped
  <2>4. /\ vol' \in RoomVolatileSnapshot /\ faults' \in 0..MaxFaults /\ torn' \subseteq {"accept", "checkpoint"}
        /\ seeded' \in BOOLEAN
    BY <1>0, <1>1, <1>5 DEF TypeOK
  <2>. QED
    BY <1>7, <2>1, <2>2, <2>3, <2>4 DEF TypeOK
<1>10. /\ acked' \in Answered /\ acked'.msgs = acked.msgs /\ acked'.gov = acked.gov
       /\ acked'.epochs = acked.epochs \cup {b.id}
       /\ acked'.tickets = acked.tickets \ (IF b.kind = "join" THEN {} ELSE {b.leaf})
  <2>. DEFINE t == acked.tickets \ (IF b.kind = "join" THEN {} ELSE {b.leaf})
  <2>1. acked' = [acked EXCEPT !.epochs = @ \cup {b.id}, !.tickets = t]
    BY DEF AckEpoch, b
  <2>2. t \in SUBSET Leaves
    BY <1>0 DEF Answered
  <2>. HIDE DEF t
  <2>3. /\ acked' \in Answered /\ acked'.msgs = acked.msgs /\ acked'.gov = acked.gov
        /\ acked'.epochs = acked.epochs \cup {b.id} /\ acked'.tickets = t
    BY <1>0, <1>1, <2>1, <2>2 DEF Answered
  <2>. QED
    BY <2>3 DEF t
<1>11. Counted'
  <2>1. \A x \in tasks' : x.bundle.id <= offered' /\ x.vol.scopes \subseteq 1..offered'
    BY <1>0, TasksUpTo
  <2>2. Cardinality(DOMAIN bundles') + Cardinality(tasks') <= offered'
    BY <1>0, <1>3, <1>6
  <2>. QED
    BY <1>1, <1>5, <1>6, <1>7, <2>1, <2>2 DEF Counted
<1>12. "checkpoint" \notin torn' => Dense(bundles')
  BY <1>0, <1>6
<1>13. EpochsKept'
  <2>1. SUFFICES ASSUME "checkpoint" \notin torn PROVE acked'.epochs \subseteq Ids(bundles')
    BY DEF EpochsKept, StoredEpochs, Ids
  <2>2. acked.epochs \subseteq Ids(bundles)
    BY <1>0, <2>1 DEF EpochsKept, StoredEpochs, Ids
  <2>. QED
    BY <1>0, <1>6, <1>10, <2>1, <2>2
<1>14. SerialAcksKept'
  <2>1. SUFFICES ASSUME torn = {}, ~overlapped'
        PROVE  /\ acked'.msgs \subseteq vol'.msgs /\ acked'.gov <= snap'.meta.gov
               /\ acked'.tickets \subseteq snap'.meta.pend /\ acked'.epochs \subseteq vol'.scopes
    BY DEF SerialAcksKept
  <2>2. /\ acked.msgs \subseteq vol.msgs /\ acked.gov <= snap.meta.gov
        /\ acked.tickets \subseteq snap.meta.pend /\ acked.epochs \subseteq vol.scopes
    BY <1>0, <2>1 DEF SerialAcksKept
  <2>3. /\ vol.msgs \subseteq a.vol.msgs
        /\ vol.scopes \subseteq a.vol.scopes /\ b.id \in a.vol.scopes
        /\ snap.meta.gov <= a.meta.gov
        /\ snap.meta.pend \ (IF b.kind = "join" THEN {} ELSE {b.leaf}) \subseteq a.meta.pend
    BY <2>1 DEF b
  <2>4. acked.gov \in Nat /\ snap.meta.gov \in Nat /\ a.meta.gov \in Nat
    BY <1>0, <1>1, SnapTyped DEF Answered, Metadata
  <2>5. acked'.gov <= snap'.meta.gov
    BY <1>7, <1>10, <2>2, <2>3, <2>4
  <2>6. acked'.msgs \subseteq vol'.msgs /\ acked'.epochs \subseteq vol'.scopes
    BY <1>5, <1>10, <2>2, <2>3
  <2>7. acked'.tickets \subseteq snap'.meta.pend
    BY <1>7, <1>10, <2>2, <2>3
  <2>. QED
    BY <2>5, <2>6, <2>7
<1>15. (torn = {} /\ ~overlapped => \A x \in tasks : Covers(x))'
  BY DEF Covers
<1>. QED
  BY <1>9, <1>10, <1>11, <1>12, <1>13, <1>14, <1>15 DEF WorkerInv

(* Writing the metadata of a group that has lost no governance and no       *)
(* ticket keeps the invariant.                                              *)
LEMMA RuntimeKeeps ==
  ASSUME WorkerInv, NEW g \in Groups, persist_room_runtime_state(g),
         snap.meta.gov <= g.gov, snap.meta.pend \subseteq g.pend,
         acked' \in Answered, acked'.msgs = acked.msgs, acked'.epochs = acked.epochs,
         acked'.gov \in {acked.gov, g.gov}, acked'.tickets \subseteq acked.tickets \cup g.pend,
         UNCHANGED <<seeded, tasks, routing, offered, faults, torn>>
  PROVE  WorkerInv'
<1>0. /\ TypeOK /\ acked \in Answered /\ Counted /\ ("checkpoint" \notin torn => Dense(bundles))
      /\ EpochsKept /\ SerialAcksKept /\ offered \in Nat /\ MaxEpochs \in Nat
  BY WorkerAssumption DEF WorkerInv, TypeOK
<1>. DEFINE l == IF snap = NoSnapshot THEN 0 ELSE snap.last
            c == Cardinality(DOMAIN bundles)
<1>1. /\ snap' = [meta |-> MetadataOf(g), last |-> l] /\ vol' = vol
      /\ bundles' = replace_accepted_bundles(bundles)
      /\ overlapped' = (overlapped \/ tasks # {})
  BY DEF persist_room_runtime_state, Overlap
<1>2. MetadataOf(g) \in Metadata /\ MetadataOf(g).gov = g.gov /\ MetadataOf(g).pend = g.pend
  BY MetadataTyped
<1>3. l \in 0..MaxEpochs /\ l <= offered
  <2>1. CASE snap = NoSnapshot
    BY <1>0, <2>1
  <2>2. CASE snap # NoSnapshot
    BY <1>0, <2>2 DEF TypeOK, RoomSnapshot, Counted
  <2>. QED
    BY <2>1, <2>2
<1>. HIDE DEF l
<1>4. snap' \in RoomSnapshot /\ snap'.last = l /\ snap'.meta.gov = g.gov /\ snap'.meta.pend = g.pend
  BY <1>1, <1>2, <1>3 DEF RoomSnapshot
<1>5. c \in Nat /\ c \in 0..c
  <2>1. c \in Nat
    BY <1>0, StoreFinite
  <2>. HIDE DEF c
  <2>. QED
    BY ONLY <2>1
<1>6. /\ Shaped(bundles', offered) /\ Dense(bundles') /\ Cardinality(DOMAIN bundles') = c
      /\ Dense(bundles) => Ids(bundles') = Ids(bundles)
  <2>1. bundles' = [k \in 0..(c - 1) |-> Nth(bundles, k)]
    BY <1>1 DEF replace_accepted_bundles
  <2>2. Shaped(bundles, offered) /\ offered \in Nat
    BY <1>0 DEF Counted
  <2>3. c = Cardinality(DOMAIN bundles)
    OBVIOUS
  <2>. HIDE DEF c
  <2>4. c \in 0..Cardinality(DOMAIN bundles)
    BY ONLY <1>5, <2>3
  <2>5. /\ Shaped(bundles', offered) /\ Dense(bundles') /\ Cardinality(DOMAIN bundles') = c
        /\ Dense(bundles) /\ c = Cardinality(DOMAIN bundles) => Ids(bundles') = Ids(bundles)
    BY ONLY <2>1, <2>2, <2>4, ReplaceEffect
  <2>. QED
    BY <2>3, <2>5
<1>7. TypeOK'
  <2>1. /\ DOMAIN bundles' \subseteq 0..(MaxEpochs - 1)
        /\ \A k \in DOMAIN bundles' : bundles'[k] \in AcceptedBundleRecord
    BY <1>6 DEF Shaped
  <2>. QED
    BY <1>0, <1>1, <1>4, <2>1 DEF TypeOK
<1>8. Counted'
  BY <1>0, <1>1, <1>3, <1>4, <1>6 DEF Counted
<1>9. EpochsKept'
  <2>1. SUFFICES ASSUME "checkpoint" \notin torn PROVE acked'.epochs \subseteq Ids(bundles')
    BY DEF EpochsKept, StoredEpochs, Ids
  <2>. QED
    BY <1>0, <1>6, <2>1 DEF EpochsKept, StoredEpochs, Ids
<1>10. SerialAcksKept'
  <2>1. SUFFICES ASSUME torn = {}, ~overlapped
        PROVE  /\ acked'.msgs \subseteq vol'.msgs /\ acked'.gov <= snap'.meta.gov
               /\ acked'.tickets \subseteq snap'.meta.pend /\ acked'.epochs \subseteq vol'.scopes
    BY <1>1 DEF SerialAcksKept
  <2>2. /\ acked.msgs \subseteq vol.msgs /\ acked.gov <= snap.meta.gov
        /\ acked.tickets \subseteq snap.meta.pend /\ acked.epochs \subseteq vol.scopes
    BY <1>0, <2>1 DEF SerialAcksKept
  <2>3. acked.gov \in Nat /\ snap.meta.gov \in Nat /\ g.gov \in Nat
    BY <1>0, SnapTyped DEF Answered, Metadata, Groups
  <2>4. acked'.gov <= snap'.meta.gov
    BY <1>4, <2>2, <2>3
  <2>5. acked'.tickets \subseteq snap'.meta.pend
    BY <1>4, <2>2
  <2>. QED
    BY <1>1, <2>2, <2>4, <2>5
<1>11. (torn = {} /\ ~overlapped => \A x \in tasks : Covers(x))'
  BY <1>1 DEF Covers
<1>. QED
  BY <1>6, <1>7, <1>8, <1>9, <1>10, <1>11 DEF WorkerInv

(* A write that fails half-way keeps what is left well formed. *)
LEMMA TearsKeep ==
  ASSUME WorkerInv, NEW w \in {"accept", "checkpoint"}, torn' = torn \cup {w}, faults < MaxFaults, faults' = faults + 1,
         UNCHANGED <<seeded, vol, routing, acked, overlapped>>,
         offered' \in 0..MaxEpochs, offered <= offered',
         snap' \in RoomSnapshot, snap'.last <= offered', Shaped(bundles', offered'),
         tasks' \subseteq tasks, IsFiniteSet(tasks'),
         Cardinality(DOMAIN bundles') + Cardinality(tasks') <= offered',
         "checkpoint" \notin torn' =>
           (Dense(bundles) => Dense(bundles') /\ Ids(bundles) \subseteq Ids(bundles'))
  PROVE  WorkerInv'
<1>0. /\ TypeOK /\ acked \in Answered /\ Counted /\ offered \in Nat /\ offered' \in Nat
      /\ MaxEpochs \in Nat /\ MaxFaults \in Nat
  BY WorkerAssumption DEF WorkerInv, TypeOK
<1>1. 1..offered \subseteq 1..offered'
  BY <1>0
<1>2. TypeOK'
  <2>1. /\ DOMAIN bundles' \subseteq 0..(MaxEpochs - 1)
        /\ \A k \in DOMAIN bundles' : bundles'[k] \in AcceptedBundleRecord
    BY DEF Shaped
  <2>2. faults' \in 0..MaxFaults
    BY <1>0 DEF TypeOK
  <2>. QED
    BY <1>0, <1>1, <2>1, <2>2 DEF TypeOK
<1>3. Counted'
  <2>1. \A x \in tasks' : x.bundle.id <= offered' /\ x.vol.scopes \subseteq 1..offered'
    BY <1>0, TasksUpTo
  <2>. QED
    BY <1>0, <1>1, <2>1 DEF Counted
<1>4. torn' # {} /\ ("checkpoint" \notin torn' => "checkpoint" \notin torn)
  OBVIOUS
<1>5. "checkpoint" \notin torn' => Dense(bundles')
  BY <1>4 DEF WorkerInv
<1>6. EpochsKept'
  <2>1. SUFFICES ASSUME "checkpoint" \notin torn' PROVE acked.epochs \subseteq Ids(bundles')
    BY DEF EpochsKept, StoredEpochs, Ids
  <2>2. acked.epochs \subseteq Ids(bundles) /\ Dense(bundles)
    BY <1>4, <2>1 DEF WorkerInv, EpochsKept, StoredEpochs, Ids
  <2>. QED
    BY <2>1, <2>2
<1>7. SerialAcksKept' /\ (torn = {} /\ ~overlapped => \A x \in tasks : Covers(x))'
  BY <1>4 DEF SerialAcksKept
<1>. QED
  BY <1>0, <1>2, <1>3, <1>5, <1>6, <1>7 DEF WorkerInv

(* The same of a torn persist_room_accept. *)
LEMMA AcceptTearsKeep ==
  ASSUME WorkerInv, NEW a \in AcceptedRoomEpoch, Tears(a),
         offered' \in 0..MaxEpochs, offered <= offered', a.bundle.id <= offered',
         tasks' \subseteq tasks, IsFiniteSet(tasks'),
         Cardinality(DOMAIN bundles) + 1 + Cardinality(tasks') <= offered'
  PROVE  WorkerInv'
<1>0. /\ TypeOK /\ Counted /\ offered \in Nat /\ offered' \in Nat /\ offered' <= MaxEpochs
      /\ MaxEpochs \in Nat
  BY WorkerAssumption DEF WorkerInv, TypeOK
<1>1. /\ a.bundle \in AcceptedBundleRecord /\ a.bundle.id \in 1..MaxEpochs /\ a.meta \in Metadata
  BY DEF AcceptedRoomEpoch, AcceptedBundleRecord
<1>2. snap' \in RoomSnapshot /\ snap'.last = a.bundle.id
  <2>1. a.bundle.id \in 0..MaxEpochs
    BY <1>0, <1>1
  <2>2. snap' = [meta |-> a.meta, last |-> a.bundle.id]
    BY DEF Tears
  <2>. QED
    BY <1>1, <2>1, <2>2 DEF RoomSnapshot
<1>3. Cardinality(DOMAIN bundles) \in Nat /\ Cardinality(tasks') \in Nat
  BY <1>0, StoreFinite, FS_CardinalityType
<1>4. Cardinality(DOMAIN bundles) < MaxEpochs
  BY <1>0, <1>3
<1>5. Shaped(bundles, offered')
  BY <1>0, ShapedUpTo DEF Counted
<1>6. /\ Shaped(bundles', offered') /\ Cardinality(DOMAIN bundles') \in Nat
      /\ Cardinality(DOMAIN bundles') <= Cardinality(DOMAIN bundles) + 1
      /\ Dense(bundles) => Dense(bundles') /\ Ids(bundles) \subseteq Ids(bundles')
  <2>1. CASE bundles' = bundles
    BY <1>3, <1>5, <2>1
  <2>2. CASE bundles' = append_accepted_bundle(bundles, a.bundle)
    <3>1. a.bundle.id <= offered' /\ offered' \in Nat
      BY <1>0
    <3>2. /\ Shaped(bundles', offered') /\ Cardinality(DOMAIN bundles') \in Nat
          /\ Cardinality(DOMAIN bundles') <= Cardinality(DOMAIN bundles) + 1
          /\ Dense(bundles) => Dense(bundles') /\ Ids(bundles') = Ids(bundles) \cup {a.bundle.id}
      BY ONLY <1>1, <1>4, <1>5, <2>2, <3>1, AppendEffect
    <3>. QED
      BY ONLY <3>2
  <2>. QED
    BY <2>1, <2>2 DEF Tears
<1>7. Cardinality(DOMAIN bundles') + Cardinality(tasks') <= offered'
  BY <1>0, <1>3, <1>6
<1>. QED
  <2>1. /\ torn' = torn \cup {"accept"} /\ faults < MaxFaults /\ faults' = faults + 1
        /\ UNCHANGED <<seeded, vol, routing, acked, overlapped>>
    BY DEF Tears
  <2>. QED
    BY <1>2, <1>6, <1>7, <2>1, TearsKeep

-----------------------------------------------------------------------------
(* One lemma per action. *)

(* The room starts in the invariant. *)
LEMMA WorkerInit ==
  Init => WorkerInv
<1>. SUFFICES ASSUME Init PROVE WorkerInv
  OBVIOUS
<1>0. MaxEpochs \in Nat /\ MaxMessages \in Nat /\ MaxFaults \in Nat
  BY WorkerAssumption
<1>1. DOMAIN bundles = {} /\ tasks = {}
  BY DEF Init
<1>2. IsFiniteSet({}) /\ Cardinality({}) = 0
  BY FS_EmptySet
<1>3. Dense(bundles)
  BY <1>1, <1>2 DEF Dense
<1>4. TypeOK
  <2>1. vol \in RoomVolatileSnapshot
    BY DEF Init, RoomVolatileSnapshot
  <2>2. snap = NoSnapshot /\ routing = {} /\ offered = 0 /\ faults = 0
        /\ overlapped = FALSE /\ torn = {} /\ seeded \in BOOLEAN
    BY DEF Init
  <2>3. offered \in 0..MaxEpochs /\ faults \in 0..MaxFaults
    BY <1>0, <2>2
  <2>. QED
    BY <1>1, <2>1, <2>2, <2>3 DEF TypeOK
<1>5. acked \in Answered
  BY DEF Init, Answered
<1>6. Counted
  BY <1>1, <1>2 DEF Init, Counted, Shaped, NoSnapshot
<1>7. EpochsKept /\ SerialAcksKept
  BY DEF Init, EpochsKept, SerialAcksKept, NoSnapshot, MetadataOf, NewGroup
<1>. QED
  BY <1>1, <1>3, <1>4, <1>5, <1>6, <1>7 DEF WorkerInv

(* An epoch that revokes nobody. *)
LEMMA AcceptStep ==
  ASSUME WorkerInv, handle_accept_epoch
  PROVE  WorkerInv'
<1>0. TypeOK /\ Counted /\ offered \in Nat /\ MaxEpochs \in Nat
  BY WorkerAssumption DEF WorkerInv, TypeOK
<1>1. PICK kind \in {"join", "finalize"}, leaf \in Leaves :
        /\ Offered(Offer(kind, leaf))
        /\ persist_room_accept(accept_room_epoch(Offer(kind, leaf)))
        /\ Overlap
        /\ AckEpoch(Offer(kind, leaf))
        /\ upsert_routing_entries(Offer(kind, leaf).id)
        /\ UNCHANGED <<seeded, tasks, faults, torn>>
  BY DEF handle_accept_epoch
<1>. DEFINE b == Offer(kind, leaf)
            a == accept_room_epoch(b)
<1>2. kind \in Kinds
  BY DEF Kinds
<1>3. /\ b \in AcceptedBundleRecord /\ b.id = offered + 1 /\ b.kind = kind /\ b.leaf = leaf
      /\ a \in AcceptedRoomEpoch /\ a.bundle = b
      /\ a.vol.msgs = vol.msgs /\ a.vol.scopes = vol.scopes \cup {b.id}
      /\ a.vol.scopes \subseteq 1..(offered + 1)
      /\ a.meta.gov = snap.meta.gov
      /\ snap.meta.pend \ {leaf} \subseteq a.meta.pend
      /\ kind = "join" => a.meta.pend = snap.meta.pend
  BY <1>0, <1>1, <1>2, AcceptedCopy
<1>4. offered' = offered + 1 /\ offered < MaxEpochs
  BY <1>1 DEF Offered
<1>. HIDE DEF a, b
<1>5. /\ persist_room_accept(a) /\ AckEpoch(a.bundle) /\ upsert_routing_entries(a.bundle.id)
  BY <1>1, <1>3 DEF a, b
<1>6. /\ offered' \in 0..MaxEpochs /\ offered <= offered' /\ a.bundle.id <= offered'
      /\ a.vol.scopes \subseteq 1..offered'
  BY <1>0, <1>3, <1>4
<1>7. /\ IsFiniteSet(tasks') /\ tasks' = tasks
      /\ Cardinality(DOMAIN bundles) + 1 + Cardinality(tasks') <= offered'
  <2>1. /\ IsFiniteSet(tasks) /\ Cardinality(DOMAIN bundles) + Cardinality(tasks) <= offered
    BY <1>0 DEF Counted
  <2>2. Cardinality(DOMAIN bundles) \in Nat /\ Cardinality(tasks) \in Nat
    BY <1>0, <2>1, StoreFinite, FS_CardinalityType
  <2>. QED
    BY <1>0, <1>1, <1>4, <2>1, <2>2
<1>8. overlapped' \in BOOLEAN /\ (~overlapped' => ~overlapped /\ tasks' = {})
  BY <1>1 DEF Overlap
<1>9. /\ vol.msgs \subseteq a.vol.msgs
      /\ vol.scopes \subseteq a.vol.scopes /\ a.bundle.id \in a.vol.scopes
      /\ snap.meta.gov <= a.meta.gov
      /\ snap.meta.pend \ (IF a.bundle.kind = "join" THEN {} ELSE {a.bundle.leaf}) \subseteq a.meta.pend
  <2>1. snap.meta.gov \in Nat
    BY <1>0, SnapTyped DEF Metadata
  <2>. QED
    BY <1>3, <2>1
<1>10. seeded' = seeded /\ faults' = faults /\ torn' = torn /\ a \in AcceptedRoomEpoch
  BY <1>1, <1>3
<1>. QED
  BY <1>5, <1>6, <1>7, <1>8, <1>9, <1>10, PersistKeeps

(* An epoch that revokes a leaf, up to the await. *)
LEMMA AwaitStep ==
  ASSUME WorkerInv, remove_alias_bindings_for_revoked_leaves
  PROVE  WorkerInv'
<1>0. TypeOK /\ Counted /\ offered \in Nat /\ MaxEpochs \in Nat
  BY WorkerAssumption DEF WorkerInv, TypeOK
<1>1. PICK leaf \in Leaves :
        /\ Offered(Offer("leave", leaf))
        /\ tasks' = tasks \cup {accept_room_epoch(Offer("leave", leaf))}
        /\ UNCHANGED <<seeded, store, routing, acked, faults, overlapped, torn>>
  BY DEF remove_alias_bindings_for_revoked_leaves
<1>. DEFINE b == Offer("leave", leaf)
            a == accept_room_epoch(b)
<1>2. "leave" \in Kinds
  BY DEF Kinds
<1>3. /\ b.id = offered + 1 /\ b.kind = "leave" /\ b.leaf = leaf
      /\ a \in AcceptedRoomEpoch /\ a.bundle = b
      /\ a.vol.msgs = vol.msgs /\ a.vol.scopes = vol.scopes \cup {b.id}
      /\ a.vol.scopes \subseteq 1..(offered + 1)
      /\ a.meta.gov = snap.meta.gov
      /\ snap.meta.pend \ {leaf} \subseteq a.meta.pend
  <2>1. b = Offer("leave", leaf) /\ a = accept_room_epoch(b) /\ Offered(b)
    BY <1>1
  <2>. HIDE DEF a, b
  <2>. QED
    BY ONLY <1>0, <1>2, <2>1, leaf \in Leaves, AcceptedCopy
<1>4. offered' = offered + 1 /\ offered < MaxEpochs
  BY <1>1 DEF Offered
<1>5. tasks' = tasks \cup {a} /\ snap' = snap /\ bundles' = bundles /\ vol' = vol
  BY <1>1 DEF store
<1>. HIDE DEF a, b
<1>6. 1..offered \subseteq 1..offered' /\ offered' \in 0..MaxEpochs /\ offered' \in Nat /\ offered <= offered'
  BY <1>0, <1>4
<1>7. TypeOK'
  BY <1>0, <1>1, <1>3, <1>5, <1>6 DEF TypeOK
<1>8. Counted'
  <2>1. /\ IsFiniteSet(tasks) /\ Cardinality(DOMAIN bundles) + Cardinality(tasks) <= offered
    BY <1>0 DEF Counted
  <2>2. Cardinality(DOMAIN bundles) \in Nat /\ Cardinality(tasks) \in Nat
    BY <1>0, <2>1, StoreFinite, FS_CardinalityType
  <2>3. IsFiniteSet(tasks') /\ Cardinality(tasks') = IF a \in tasks THEN Cardinality(tasks) ELSE Cardinality(tasks) + 1
    BY <1>5, <2>1, FS_AddElement
  <2>4. Cardinality(DOMAIN bundles') + Cardinality(tasks') <= offered'
    BY <1>0, <1>4, <1>5, <2>1, <2>2, <2>3
  <2>5. Shaped(bundles', offered')
    BY <1>0, <1>5, <1>6, ShapedUpTo DEF Counted
  <2>6. snap'.last <= offered' /\ vol'.scopes \subseteq 1..offered'
    <3>1. snap.last <= offered /\ snap.last \in Int /\ vol.scopes \subseteq 1..offered
      BY <1>0, SnapTyped DEF Counted
    <3>. QED
      BY <1>0, <1>5, <1>6, <3>1
  <2>7. ASSUME NEW x \in tasks' PROVE x.bundle.id <= offered' /\ x.vol.scopes \subseteq 1..offered'
    <3>1. CASE x = a
      BY <1>0, <1>3, <1>4, <3>1
    <3>2. CASE x \in tasks
      BY <1>0, <1>6, <3>2, TasksUpTo
    <3>. QED
      BY <1>5, <3>1, <3>2
  <2>. QED
    BY <2>3, <2>4, <2>5, <2>6, <2>7 DEF Counted
<1>9. (torn = {} /\ ~overlapped => \A x \in tasks : Covers(x))'
  <2>1. Covers(a)
    <3>1. snap.meta.gov \in Nat
      BY <1>0, SnapTyped DEF Metadata
    <3>. QED
      BY <1>3, <3>1 DEF Covers
  <2>2. ASSUME NEW x, Covers(x) PROVE Covers(x)'
    BY <1>5, <2>2 DEF Covers
  <2>3. SUFFICES ASSUME torn = {}, ~overlapped, NEW x \in tasks' PROVE Covers(x)
    BY <1>1, <2>2
  <2>. QED
    BY <1>5, <2>1, <2>3 DEF WorkerInv
<1>10. EpochsKept' /\ SerialAcksKept' /\ (acked' \in Answered) /\ ("checkpoint" \notin torn' => Dense(bundles'))
  BY <1>1, <1>5 DEF WorkerInv, EpochsKept, StoredEpochs, SerialAcksKept
<1>. QED
  BY <1>7, <1>8, <1>9, <1>10 DEF WorkerInv

(* The set of the awaiting accepts without one of them. *)
LEMMA OneLess ==
  ASSUME TypeOK, Counted, NEW a \in tasks
  PROVE  /\ IsFiniteSet(tasks \ {a}) /\ tasks \ {a} \subseteq tasks
         /\ Cardinality(DOMAIN bundles) + 1 + Cardinality(tasks \ {a}) <= offered
<1>1. /\ IsFiniteSet(tasks) /\ Cardinality(DOMAIN bundles) + Cardinality(tasks) <= offered
  BY DEF Counted
<1>2. /\ IsFiniteSet(tasks \ {a}) /\ Cardinality(tasks \ {a}) = Cardinality(tasks) - 1
  BY <1>1, FS_RemoveElement
<1>3. Cardinality(DOMAIN bundles) \in Nat /\ Cardinality(tasks) \in Nat /\ offered \in Nat
  BY <1>1, StoreFinite, FS_CardinalityType DEF TypeOK
<1>. QED
  BY <1>1, <1>2, <1>3

(* The registry has answered. *)
LEMMA ResumeStep ==
  ASSUME WorkerInv, AcceptResumes
  PROVE  WorkerInv'
<1>0. TypeOK /\ Counted /\ offered \in Nat /\ offered \in 0..MaxEpochs
  BY DEF WorkerInv, TypeOK
<1>1. PICK a \in tasks :
        /\ tasks' = tasks \ {a}
        /\ persist_room_accept(a)
        /\ overlapped' = (overlapped \/ tasks # {a})
        /\ AckEpoch(a.bundle)
        /\ upsert_routing_entries(a.bundle.id)
        /\ UNCHANGED <<seeded, offered, faults, torn>>
  BY DEF AcceptResumes
<1>2. /\ IsFiniteSet(tasks') /\ tasks' \subseteq tasks
      /\ Cardinality(DOMAIN bundles) + 1 + Cardinality(tasks') <= offered'
  BY <1>0, <1>1, OneLess
<1>3. a \in AcceptedRoomEpoch /\ a.bundle.id <= offered' /\ a.vol.scopes \subseteq 1..offered'
  BY <1>0, <1>1 DEF TypeOK, Counted
<1>4. overlapped' \in BOOLEAN /\ (~overlapped' => ~overlapped /\ tasks' = {})
  BY <1>1
<1>5. ASSUME torn = {}, ~overlapped'
      PROVE  /\ vol.msgs \subseteq a.vol.msgs
             /\ vol.scopes \subseteq a.vol.scopes /\ a.bundle.id \in a.vol.scopes
             /\ snap.meta.gov <= a.meta.gov
             /\ snap.meta.pend \ (IF a.bundle.kind = "join" THEN {} ELSE {a.bundle.leaf})
                  \subseteq a.meta.pend
  <2>1. Covers(a)
    BY <1>4, <1>5 DEF WorkerInv
  <2>. QED
    BY <2>1 DEF Covers
<1>6. seeded' = seeded /\ faults' = faults /\ torn' = torn /\ offered' \in 0..MaxEpochs /\ offered <= offered'
  BY <1>0, <1>1
<1>. QED
  BY <1>1, <1>2, <1>3, <1>4, <1>5, <1>6, PersistKeeps

(* The registry has failed. *)
LEMMA AbortStep ==
  ASSUME WorkerInv, AcceptAborts
  PROVE  WorkerInv'
<1>0. TypeOK /\ Counted /\ offered \in Nat /\ MaxFaults \in Nat
  BY WorkerAssumption DEF WorkerInv, TypeOK
<1>1. PICK a \in tasks : tasks' = tasks \ {a}
  BY DEF AcceptAborts
<1>2. /\ snap' = snap /\ bundles' = bundles /\ vol' = vol
      /\ UNCHANGED <<seeded, routing, acked, offered, overlapped, torn>>
      /\ faults < MaxFaults /\ faults' = faults + 1
  BY DEF AcceptAborts, store
<1>3. /\ IsFiniteSet(tasks') /\ tasks' \subseteq tasks
      /\ Cardinality(DOMAIN bundles) + 1 + Cardinality(tasks') <= offered
  BY <1>0, <1>1, OneLess
<1>4. TypeOK'
  <2>1. faults' \in 0..MaxFaults
    BY <1>0, <1>2 DEF TypeOK
  <2>. QED
    BY <1>0, <1>2, <1>3, <2>1 DEF TypeOK
<1>5. Counted'
  <2>1. Cardinality(DOMAIN bundles) \in Nat /\ Cardinality(tasks') \in Nat
    BY <1>0, <1>3, StoreFinite, FS_CardinalityType
  <2>2. Cardinality(DOMAIN bundles') + Cardinality(tasks') <= offered'
    BY <1>0, <1>2, <1>3, <2>1
  <2>. QED
    BY <1>0, <1>2, <1>3, <2>2 DEF Counted
<1>6. EpochsKept' /\ SerialAcksKept' /\ (acked' \in Answered) /\ ("checkpoint" \notin torn' => Dense(bundles'))
  BY <1>2 DEF WorkerInv, EpochsKept, StoredEpochs, SerialAcksKept
<1>7. (torn = {} /\ ~overlapped => \A x \in tasks : Covers(x))'
  <2>1. ASSUME NEW x, Covers(x) PROVE Covers(x)'
    BY <1>2, <2>1 DEF Covers
  <2>2. SUFFICES ASSUME torn = {}, ~overlapped, NEW x \in tasks' PROVE Covers(x)
    BY <1>2, <2>1
  <2>. QED
    BY <1>3, <2>2 DEF WorkerInv
<1>. QED
  BY <1>4, <1>5, <1>6, <1>7 DEF WorkerInv

(* A write of an accept fails. *)
LEMMA AcceptTearsStep ==
  ASSUME WorkerInv, AcceptTears
  PROVE  WorkerInv'
<1>0. TypeOK /\ Counted /\ offered \in Nat /\ MaxEpochs \in Nat /\ offered <= MaxEpochs
  BY WorkerAssumption DEF WorkerInv, TypeOK
<1>1. ASSUME NEW kind \in {"join", "finalize"}, NEW leaf \in Leaves, Offered(Offer(kind, leaf)),
             Tears(accept_room_epoch(Offer(kind, leaf))), UNCHANGED tasks
      PROVE  WorkerInv'
  <2>. DEFINE b == Offer(kind, leaf)
              a == accept_room_epoch(b)
  <2>1. kind \in Kinds
    BY DEF Kinds
  <2>2. a \in AcceptedRoomEpoch /\ a.bundle.id = offered + 1
    BY <1>0, <1>1, <2>1, AcceptedCopy
  <2>3. offered' = offered + 1 /\ offered < MaxEpochs
    BY <1>1 DEF Offered
  <2>4. /\ IsFiniteSet(tasks') /\ tasks' \subseteq tasks
        /\ Cardinality(DOMAIN bundles) + 1 + Cardinality(tasks') <= offered'
    <3>1. /\ IsFiniteSet(tasks) /\ Cardinality(DOMAIN bundles) + Cardinality(tasks) <= offered
      BY <1>0 DEF Counted
    <3>2. Cardinality(DOMAIN bundles) \in Nat /\ Cardinality(tasks) \in Nat
      BY <1>0, <3>1, StoreFinite, FS_CardinalityType
    <3>. QED
      BY <1>0, <1>1, <2>3, <3>1, <3>2
  <2>. HIDE DEF a, b
  <2>5. offered' \in 0..MaxEpochs /\ offered <= offered' /\ a.bundle.id <= offered'
    BY <1>0, <2>2, <2>3
  <2>. QED
    BY <1>1, <2>2, <2>4, <2>5, AcceptTearsKeep DEF a, b
<1>2. ASSUME NEW a \in tasks, tasks' = tasks \ {a}, Tears(a), UNCHANGED offered
      PROVE  WorkerInv'
  <2>1. a \in AcceptedRoomEpoch /\ a.bundle.id <= offered'
    BY <1>0, <1>2 DEF TypeOK, Counted
  <2>2. /\ IsFiniteSet(tasks') /\ tasks' \subseteq tasks
        /\ Cardinality(DOMAIN bundles) + 1 + Cardinality(tasks') <= offered'
    BY <1>0, <1>2, OneLess
  <2>3. offered' \in 0..MaxEpochs /\ offered <= offered'
    BY <1>0, <1>2
  <2>. QED
    BY <1>2, <2>1, <2>2, <2>3, AcceptTearsKeep
<1>. QED
  BY <1>1, <1>2 DEF AcceptTears

(* A message is sent. *)
LEMMA SendStep ==
  ASSUME WorkerInv, handle_send_message
  PROVE  WorkerInv'
<1>0. TypeOK /\ Counted /\ acked \in Answered
  BY DEF WorkerInv
<1>1. PICK m \in 1..MaxMessages :
        /\ vol' = [vol EXCEPT !.msgs = @ \cup {m}]
        /\ acked' = [acked EXCEPT !.msgs = @ \cup {m}]
  BY DEF handle_send_message
<1>2. /\ UNCHANGED <<seeded, snap, bundles, tasks, routing, offered, faults, torn>>
      /\ overlapped' = (overlapped \/ tasks # {})
  BY DEF handle_send_message, Overlap
<1>3. /\ vol' \in RoomVolatileSnapshot /\ vol'.scopes = vol.scopes
      /\ vol'.msgs = vol.msgs \cup {m}
  BY <1>0, <1>1 DEF TypeOK, RoomVolatileSnapshot
<1>4. /\ acked' \in Answered /\ acked'.msgs = acked.msgs \cup {m} /\ acked'.gov = acked.gov
      /\ acked'.tickets = acked.tickets /\ acked'.epochs = acked.epochs
  BY <1>0, <1>1 DEF Answered
<1>5. TypeOK'
  BY <1>0, <1>2, <1>3 DEF TypeOK
<1>6. Counted'
  BY <1>0, <1>2, <1>3 DEF Counted
<1>7. EpochsKept' /\ ("checkpoint" \notin torn' => Dense(bundles'))
  BY <1>2, <1>4 DEF WorkerInv, EpochsKept, StoredEpochs
<1>8. SerialAcksKept'
  BY <1>2, <1>3, <1>4 DEF WorkerInv, SerialAcksKept
<1>9. (torn = {} /\ ~overlapped => \A x \in tasks : Covers(x))'
  BY <1>2 DEF Covers
<1>. QED
  BY <1>4, <1>5, <1>6, <1>7, <1>8, <1>9 DEF WorkerInv

(* A governance mutation of the rebuilt group. *)
LEMMA GovernTyped ==
  ASSUME TypeOK, Served,
         NEW g \in {register_group_with_admin(rehydrate), RotatedByAdmin, AdminsChanged}
  PROVE  /\ g \in Groups /\ g.gov = snap.meta.gov + 1 /\ g.pend = snap.meta.pend
         /\ snap.meta.gov \in Nat
<1>. DEFINE r == rehydrate
            n == r.gov + 1
            k == r.gen + 1
<1>1. r \in Groups /\ r.gov = snap.meta.gov /\ r.pend = snap.meta.pend /\ snap.meta.gov \in Nat
  BY RehydrateTyped DEF Metadata
<1>2. \/ g = [r EXCEPT !.reg = TRUE, !.gen = 0, !.rot = FALSE, !.gov = n]
      \/ g = [[r EXCEPT !.gen = k, !.rot = FALSE] EXCEPT !.gov = n]
      \/ g = [r EXCEPT !.gov = n]
  <2>1. CASE g = register_group_with_admin(rehydrate)
    BY <2>1 DEF register_group_with_admin
  <2>2. CASE g = RotatedByAdmin
    <3>. DEFINE t == [r EXCEPT !.gen = k, !.rot = FALSE]
    <3>1. rotate_group_kbroad(rehydrate) = t
      BY DEF rotate_group_kbroad
    <3>2. t.gov = r.gov
      <4>. HIDE DEF r, k
      <4>. QED
        BY <1>1 DEF Groups
    <3>3. g = [t EXCEPT !.gov = t.gov + 1]
      BY <2>2, <3>1 DEF RotatedByAdmin
    <3>. QED
      BY <3>2, <3>3
  <2>3. CASE g = AdminsChanged
    BY <2>3 DEF AdminsChanged
  <2>. QED
    BY <2>1, <2>2, <2>3
<1>. HIDE DEF r
<1>3. n \in Nat /\ k \in Nat
  BY <1>1 DEF Groups
<1>. HIDE DEF n, k
<1>4. g \in Groups /\ g.gov = n /\ g.pend = r.pend
  <2>1. CASE g = [r EXCEPT !.reg = TRUE, !.gen = 0, !.rot = FALSE, !.gov = n]
    BY <1>1, <1>3, <2>1 DEF Groups
  <2>2. CASE g = [[r EXCEPT !.gen = k, !.rot = FALSE] EXCEPT !.gov = n]
    <3>. DEFINE t == [r EXCEPT !.gen = k, !.rot = FALSE]
    <3>1. t \in Groups /\ t.pend = r.pend
      BY <1>1, <1>3 DEF Groups
    <3>2. g = [t EXCEPT !.gov = n]
      BY <2>2
    <3>. HIDE DEF t
    <3>. QED
      BY <1>3, <3>1, <3>2 DEF Groups
  <2>3. CASE g = [r EXCEPT !.gov = n]
    BY <1>1, <1>3, <2>3 DEF Groups
  <2>. QED
    BY <1>2, <2>1, <2>2, <2>3
<1>. QED
  BY <1>1, <1>4 DEF n

(* A ticket leaves governance as it is, and rotates at most the key. *)
LEMMA TicketTyped ==
  ASSUME TypeOK, Served, NEW leaf \in Leaves, NEW g, g = prepare_join_ticket(rehydrate, leaf)
  PROVE  /\ g \in Groups /\ g.gov = snap.meta.gov /\ g.pend = snap.meta.pend \cup {leaf}
         /\ snap.meta.gov \in Nat
<1>. DEFINE r == rehydrate
            k == r.gen + 1
            t == IF r.rot THEN [r EXCEPT !.gen = k, !.rot = FALSE] ELSE r
<1>1. r \in Groups /\ r.gov = snap.meta.gov /\ r.pend = snap.meta.pend /\ snap.meta.gov \in Nat
  BY RehydrateTyped DEF Metadata
<1>2. g = [t EXCEPT !.pend = t.pend \cup {leaf}]
  BY DEF prepare_join_ticket, rotate_group_kbroad
<1>. HIDE DEF r
<1>3. k \in Nat
  BY <1>1 DEF Groups
<1>. HIDE DEF k
<1>4. t \in Groups /\ t.gov = r.gov /\ t.pend = r.pend
  BY <1>1, <1>3 DEF Groups
<1>. HIDE DEF t
<1>5. g \in Groups /\ g.gov = t.gov /\ g.pend = t.pend \cup {leaf}
  BY <1>2, <1>4 DEF Groups
<1>. QED
  BY <1>1, <1>4, <1>5

(* A governance change writes runtime state and metadata, and no bundle. *)
LEMMA AdminStep ==
  ASSUME WorkerInv,
         handle_bootstrap_room \/ handle_rotate_room_kbroad \/ handle_room_admin_mutation
  PROVE  WorkerInv'
<1>0. TypeOK /\ acked \in Answered /\ Served
  BY DEF WorkerInv, handle_bootstrap_room, handle_rotate_room_kbroad,
         handle_room_admin_mutation, MayBootstrap, MayGovern
<1>1. PICK g \in {register_group_with_admin(rehydrate), RotatedByAdmin, AdminsChanged} : Governs(g)
  BY DEF handle_bootstrap_room, handle_rotate_room_kbroad, handle_room_admin_mutation
<1>2. /\ persist_room_runtime_state(g) /\ acked' = [acked EXCEPT !.gov = g.gov]
      /\ UNCHANGED <<seeded, tasks, routing, offered, faults, torn>>
  BY <1>1 DEF Governs
<1>3. /\ g \in Groups /\ g.gov = snap.meta.gov + 1 /\ g.pend = snap.meta.pend
      /\ snap.meta.gov \in Nat
  BY <1>0, GovernTyped
<1>4. snap.meta.gov <= g.gov /\ g.gov \in Nat
  BY <1>3
<1>5. /\ acked' \in Answered /\ acked'.msgs = acked.msgs /\ acked'.gov = g.gov
      /\ acked'.tickets = acked.tickets /\ acked'.epochs = acked.epochs
  BY <1>0, <1>2, <1>4 DEF Answered
<1>. QED
  BY <1>2, <1>3, <1>4, <1>5, RuntimeKeeps

(* A ticket is given, or its lease reserved. *)
LEMMA TicketStep ==
  ASSUME WorkerInv, handle_join_ticket
  PROVE  WorkerInv'
<1>1. PICK leaf \in Ticketable :
        /\ persist_room_runtime_state(prepare_join_ticket(rehydrate, leaf))
        /\ acked' \in {acked, [acked EXCEPT !.tickets = @ \cup {leaf}]}
  BY DEF handle_join_ticket
<1>0. TypeOK /\ acked \in Answered /\ Served /\ leaf \in Leaves
  BY <1>1 DEF WorkerInv, Ticketable
<1>2. UNCHANGED <<seeded, tasks, routing, offered, faults, torn>>
  BY DEF handle_join_ticket
<1>. DEFINE g == prepare_join_ticket(rehydrate, leaf)
<1>3. /\ g \in Groups /\ g.gov = snap.meta.gov /\ g.pend = snap.meta.pend \cup {leaf}
      /\ snap.meta.gov \in Nat
  BY <1>0, TicketTyped
<1>4. persist_room_runtime_state(g)
  BY <1>1
<1>. HIDE DEF g
<1>6. /\ acked' \in Answered /\ acked'.msgs = acked.msgs /\ acked'.gov = acked.gov
      /\ acked'.tickets \subseteq acked.tickets \cup {leaf} /\ acked'.epochs = acked.epochs
  BY <1>0, <1>1 DEF Answered
<1>7. snap.meta.gov <= g.gov
  BY <1>3
<1>. QED
  BY <1>2, <1>3, <1>4, <1>6, <1>7, RuntimeKeeps

(* A write of a checkpoint fails. *)
LEMMA CheckpointStep ==
  ASSUME WorkerInv, CheckpointTears
  PROVE  WorkerInv'
<1>0. TypeOK /\ Counted /\ offered \in Nat /\ MaxEpochs \in Nat
      /\ Shaped(bundles, offered) /\ offered \in 0..MaxEpochs
  <2>1. TypeOK /\ Counted
    BY DEF WorkerInv
  <2>2. offered \in 0..MaxEpochs /\ MaxEpochs \in Nat
    BY <2>1, WorkerAssumption DEF TypeOK
  <2>3. Shaped(bundles, offered)
    BY <2>1 DEF Counted
  <2>4. offered \in Nat
    BY ONLY <2>2
  <2>. QED
    BY <2>1, <2>2, <2>3, <2>4
<1>. DEFINE l == IF snap = NoSnapshot THEN 0 ELSE snap.last
            D == {prepare_join_ticket(rehydrate, leaf) : leaf \in Ticketable}
            R == {x \in {register_group_with_admin(rehydrate)} : MayBootstrap}
            A == {x \in {RotatedByAdmin, AdminsChanged} : MayGovern}
<1>1. /\ faults < MaxFaults /\ faults' = faults + 1 /\ torn' = torn \cup {"checkpoint"}
      /\ bundles' \in TornBundles(bundles)
      /\ UNCHANGED <<seeded, vol, tasks, routing, acked, offered, overlapped>>
  BY DEF CheckpointTears
<1>2. PICK g \in D \cup R \cup A : snap' = [meta |-> MetadataOf(g), last |-> l]
  BY DEF CheckpointTears
<1>3. MetadataOf(g) \in Metadata
  <2>1. CASE g \in D
    <3>1. PICK leaf \in Ticketable : g = prepare_join_ticket(rehydrate, leaf)
      BY <2>1
    <3>2. Served /\ leaf \in Leaves
      BY <3>1 DEF Ticketable
    <3>. QED
      BY <1>0, <3>1, <3>2, TicketTyped, MetadataTyped
  <2>2. CASE g \in R \cup A
    <3>1. Served /\ g \in {register_group_with_admin(rehydrate), RotatedByAdmin, AdminsChanged}
      BY <2>2 DEF MayBootstrap, MayGovern
    <3>. HIDE DEF D, R, A
    <3>. QED
      BY <1>0, <3>1, GovernTyped, MetadataTyped
  <2>. QED
    BY <1>2, <2>1, <2>2
<1>4. l \in 0..MaxEpochs /\ l <= offered
  <2>1. CASE snap = NoSnapshot
    BY <1>0, <2>1
  <2>2. CASE snap # NoSnapshot
    BY <1>0, <2>2 DEF TypeOK, RoomSnapshot, Counted
  <2>. QED
    BY <2>1, <2>2
<1>. HIDE DEF l, D, R, A
<1>5. snap' \in RoomSnapshot /\ snap'.last = l
  BY <1>2, <1>3, <1>4 DEF RoomSnapshot
<1>6. /\ Shaped(bundles', offered) /\ Cardinality(DOMAIN bundles') \in Nat
      /\ Cardinality(DOMAIN bundles') <= Cardinality(DOMAIN bundles)
  BY <1>0, <1>1, TornEffect
<1>7. /\ IsFiniteSet(tasks) /\ Cardinality(DOMAIN bundles) + Cardinality(tasks) <= offered
  BY <1>0 DEF Counted
<1>8. Cardinality(DOMAIN bundles') + Cardinality(tasks) <= offered
  BY <1>0, <1>6, <1>7, StoreFinite, FS_CardinalityType
<1>9. /\ tasks' = tasks /\ offered' = offered /\ UNCHANGED <<seeded, vol, routing, acked, overlapped>>
      /\ offered <= offered'
  BY <1>0, <1>1
<1>. QED
  BY <1>0, <1>1, <1>4, <1>5, <1>6, <1>7, <1>8, <1>9, TearsKeep

(* The routing index is written again. *)
LEMMA ResyncStep ==
  ASSUME WorkerInv, resync_and_resolve_gid_for_we_epoch_id
  PROVE  WorkerInv'
<1>0. TypeOK /\ Counted /\ offered \in Nat /\ MaxEpochs \in Nat
  BY WorkerAssumption DEF WorkerInv, TypeOK
<1>1. /\ routing' = routing \cup derive_room_routing_entries
      /\ snap' = snap /\ bundles' = bundles /\ vol' = vol
      /\ UNCHANGED <<seeded, tasks, acked, offered, faults, overlapped, torn>>
  BY DEF resync_and_resolve_gid_for_we_epoch_id, store
<1>2. derive_room_routing_entries \subseteq 1..offered
  <2>1. CASE snap = NoSnapshot
    BY <2>1 DEF derive_room_routing_entries
  <2>2. CASE snap # NoSnapshot
    <3>1. snap.last \in 0..MaxEpochs /\ snap.last <= offered
      BY <1>0, <2>2 DEF TypeOK, RoomSnapshot, Counted
    <3>2. {snap.last} \ {0} \subseteq 1..offered
      BY <1>0, <3>1
    <3>3. ASSUME NEW k \in DOMAIN bundles PROVE bundles[k].id \in 1..offered
      <4>1. bundles[k] \in AcceptedBundleRecord /\ bundles[k].id <= offered
        BY <1>0 DEF Counted, Shaped
      <4>2. bundles[k].id \in 1..MaxEpochs
        BY <4>1 DEF AcceptedBundleRecord
      <4>. QED
        BY <1>0, <4>1, <4>2
    <3>4. vol.scopes \subseteq 1..offered
      BY <1>0 DEF Counted
    <3>. QED
      BY <2>2, <3>2, <3>3, <3>4 DEF derive_room_routing_entries
  <2>. QED
    BY <2>1, <2>2
<1>3. TypeOK'
  BY <1>0, <1>1, <1>2 DEF TypeOK
<1>4. Counted'
  BY <1>0, <1>1 DEF Counted
<1>5. EpochsKept' /\ SerialAcksKept' /\ (acked' \in Answered) /\ ("checkpoint" \notin torn' => Dense(bundles'))
  BY <1>1 DEF WorkerInv, EpochsKept, StoredEpochs, SerialAcksKept
<1>6. (torn = {} /\ ~overlapped => \A x \in tasks : Covers(x))'
  BY <1>1 DEF WorkerInv, Covers
<1>. QED
  BY <1>3, <1>4, <1>5, <1>6 DEF WorkerInv

(* Nothing happens in the room. *)
LEMMA WorkerStutters ==
  ASSUME WorkerInv, UNCHANGED vars
  PROVE  WorkerInv'
<1>1. /\ snap' = snap /\ bundles' = bundles /\ vol' = vol /\ tasks' = tasks /\ routing' = routing
      /\ acked' = acked /\ offered' = offered /\ faults' = faults /\ overlapped' = overlapped
      /\ torn' = torn /\ seeded' = seeded
  BY DEF vars
<1>2. TypeOK'
  BY <1>1 DEF WorkerInv, TypeOK
<1>3. Counted'
  BY <1>1 DEF WorkerInv, Counted
<1>4. EpochsKept' /\ SerialAcksKept' /\ (acked' \in Answered) /\ ("checkpoint" \notin torn' => Dense(bundles'))
  BY <1>1 DEF WorkerInv, EpochsKept, StoredEpochs, SerialAcksKept
<1>5. (torn = {} /\ ~overlapped => \A x \in tasks : Covers(x))'
  BY <1>1 DEF WorkerInv, Covers
<1>. QED
  BY <1>2, <1>3, <1>4, <1>5 DEF WorkerInv

(* The invariant holds in every state. *)
LEMMA WorkerInvariant ==
  Spec => []WorkerInv
<1>1. WorkerInv /\ [Next]_vars => WorkerInv'
  BY AcceptStep, AwaitStep, ResumeStep, AbortStep, AcceptTearsStep, SendStep, AdminStep,
     TicketStep, CheckpointStep, ResyncStep, WorkerStutters DEF Next
<1>. QED
  BY WorkerInit, <1>1, PTL DEF Spec

(* The stores of the room object, the answers it has given and the requests *)
(* suspended in an await keep their types, whatever is torn or replayed.    *)
THEOREM WorkerTypeCorrect ==
  Spec => []TypeOK
<1>1. WorkerInv => TypeOK
  BY DEF WorkerInv
<1>. QED
  BY <1>1, WorkerInvariant, PTL

(* As long as no checkpoint fails while it rewrites the records, every epoch   *)
(* answered Ok stays among the stored bundles, for any number of accepts       *)
(* suspended on the alias registry at once and whichever of them fail between  *)
(* two of their writes: persist appends to what is stored.                     *)
THEOREM WorkerKeepsEpochs ==
  Spec => []EpochsKept
<1>1. WorkerInv => EpochsKept
  BY DEF WorkerInv
<1>. QED
  BY <1>1, WorkerInvariant, PTL

(* Without a failed write and without a write during the await of an accept,  *)
(* messages, governance, unused tickets and epochs answered Ok are all in the *)
(* store that the next request rehydrates from.                               *)
THEOREM WorkerKeepsSerialAcks ==
  Spec => []SerialAcksKept
<1>1. WorkerInv => SerialAcksKept
  BY DEF WorkerInv
<1>. QED
  BY <1>1, WorkerInvariant, PTL

-----------------------------------------------------------------------------
(***************************************************************************)
(* The hint stream.  Its frames need only be a sequence for the two        *)
(* properties of the window and of live clients: neither depends on the    *)
(* numbers the two sides acknowledge.                                      *)
(***************************************************************************)
IsSeq(s) == \E S : s \in Seq(S)

(* What is kept of a buffer is a sequence of its events. *)
LEMMA FilterTyped ==
  ASSUME NEW S, NEW b \in Seq(S), NEW after, NEW upTo
  PROVE  buffered_websocket_events_after(b, after, upTo) \in Seq(S)
<1>. DEFINE T == Seq(S)
            N == Len(b)
            In(k) == b[k].sequence > after /\ b[k].sequence <= upTo
            st == [p \in Nat \X T |-> IF p[1] + 1 \in 1..N /\ In(p[1] + 1) THEN Append(p[2], b[p[1] + 1])
                                      ELSE p[2]]
            Kept(r) == [k \in 0..N |->
                          IF k = 0 THEN << >>
                          ELSE IF b[k].sequence > after /\ b[k].sequence <= upTo
                               THEN Append(r[k - 1], b[k])
                          ELSE r[k - 1]]
            kept == CHOOSE r : r = Kept(r)
<1>0. N \in Nat
  OBVIOUS
<1>1. ASSUME NEW x \in T, NEW k \in 1..N PROVE Append(x, b[k]) \in T
  <2>1. b[k] \in S
    OBVIOUS
  <2>. QED
    BY <2>1
<1>2. \A i \in Nat : \A x \in T : st[<<i, x>>] \in T
  <2>1. ASSUME NEW i \in Nat, NEW x \in T PROVE st[<<i, x>>] \in T
    <3>1. <<i, x>> \in Nat \X T
      OBVIOUS
    <3>2. st[<<i, x>>] = IF i + 1 \in 1..N /\ In(i + 1) THEN Append(x, b[i + 1]) ELSE x
      BY <3>1
    <3>. HIDE DEF T, st, N, In
    <3>. QED
      BY <1>1, <3>2
  <2>. QED
    BY <2>1
<1>3. << >> \in T
  BY EmptySeq
<1>4. \E r : r = Kept(r)
  <2>. HIDE DEF T, st, N, Kept, kept
  <2>1. PICK f : Iterates(f, T, << >>, st, N)
    BY <1>0, <1>2, <1>3, Iterate
  <2>. USE DEF Kept
  <2>2. ASSUME NEW k \in 0..N PROVE f[k] = Kept(f)[k]
    <3>1. CASE k = 0
      BY <2>1, <3>1 DEF Iterates
    <3>2. CASE k # 0
      <4>1. k - 1 \in 0..(N - 1) /\ (k - 1) + 1 = k /\ k - 1 \in 0..N /\ k - 1 \in Nat /\ k \in 1..N
        BY <1>0, <3>2
      <4>2. f[k] = st[<<k - 1, f[k - 1]>>] /\ f[k - 1] \in T
        BY <2>1, <4>1 DEF Iterates
      <4>3. <<k - 1, f[k - 1]>> \in Nat \X T
        BY <4>1, <4>2
      <4>4. st[<<k - 1, f[k - 1]>>] = IF In(k) THEN Append(f[k - 1], b[k]) ELSE f[k - 1]
        BY <4>1, <4>3 DEF st
      <4>. QED
        BY <3>2, <4>2, <4>4
    <3>. QED
      BY <3>1, <3>2
  <2>3. f = Kept(f)
    BY <2>1, <2>2 DEF Iterates
  <2>. QED
    BY <2>3
<1>5. kept = Kept(kept)
  BY <1>4
<1>6. buffered_websocket_events_after(b, after, upTo) = kept[N]
  BY DEF buffered_websocket_events_after
<1>. HIDE DEF kept
<1>7. /\ kept[0] = << >>
      /\ \A k \in 1..N : kept[k] = IF In(k) THEN Append(kept[k - 1], b[k]) ELSE kept[k - 1]
  <2>. HIDE DEF N
  <2>1. 0 \in 0..N /\ \A k \in 1..N : k \in 0..N /\ k # 0
    BY <1>0
  <2>2. kept[0] = Kept(kept)[0] /\ \A k \in 1..N : kept[k] = Kept(kept)[k]
    <3>. HIDE DEF Kept
    <3>. QED
      BY <1>5
  <2>3. Kept(kept)[0] = << >>
    BY <2>1
  <2>4. ASSUME NEW k \in 1..N
        PROVE  Kept(kept)[k] = IF In(k) THEN Append(kept[k - 1], b[k]) ELSE kept[k - 1]
    BY <2>1
  <2>. QED
    BY <2>2, <2>3, <2>4
<1>. DEFINE B == {k \in 0..N : kept[k] \notin T}
<1>8. B = {}
  <2>. SUFFICES ASSUME B # {} PROVE FALSE
    OBVIOUS
  <2>. HIDE DEF N, T, In
  <2>1. B \in SUBSET Nat
    BY <1>0
  <2>2. PICK m \in B : \A k \in B : m <= k
    <3>. HIDE DEF B
    <3>. QED
      BY <2>1, Least
  <2>3. m \in 0..N /\ m # 0
    BY <1>3, <1>7
  <2>4. m - 1 \in 0..N /\ ~(m <= m - 1) /\ m \in 1..N
    BY <1>0, <2>3
  <2>5. kept[m - 1] \in T
    BY <2>2, <2>4
  <2>6. kept[m] \in T
    BY <1>1, <1>7, <2>4, <2>5
  <2>. QED
    BY <2>6
<1>9. N \in 0..N
  BY <1>0
<1>. QED
  BY <1>6, <1>8, <1>9

(* What both properties rest on. *)
FeedShape ==
  /\ next \in Nat /\ events \in Nat /\ base \in Nat
  /\ IsSeq(buf) /\ IsSeq(down)

(* The invariant of the two properties. *)
FeedInv == FeedShape /\ WindowIsTail /\ LiveHintsArrive

(* Notification id is among the frames of s. *)
OnWire(s, id) == \E i \in 1..Len(s) : s[i].kind = "event" /\ s[i].id = id

(* Adding frames to the wire keeps the ones that are on it. *)
LEMMA WireGrows ==
  ASSUME NEW s, NEW t, IsSeq(s), IsSeq(t)
  PROVE  /\ IsSeq(s \o t)
         /\ \A id : OnWire(s, id) \/ OnWire(t, id) => OnWire(s \o t, id)
<1>1. PICK S : s \in Seq(S)
  BY DEF IsSeq
<1>2. PICK T : t \in Seq(T)
  BY DEF IsSeq
<1>3. s \in Seq(S \cup T) /\ t \in Seq(S \cup T)
  BY <1>1, <1>2
<1>4. /\ s \o t \in Seq(S \cup T)
      /\ Len(s \o t) = Len(s) + Len(t)
      /\ \A i \in 1 .. Len(s) + Len(t) :
           (s \o t)[i] = IF i <= Len(s) THEN s[i] ELSE t[i - Len(s)]
  BY <1>3, ConcatProperties, Zenon
<1>5. ASSUME NEW id, OnWire(s, id) PROVE OnWire(s \o t, id)
  <2>1. PICK i \in 1..Len(s) : s[i].kind = "event" /\ s[i].id = id
    BY <1>5 DEF OnWire
  <2>2. i \in 1..Len(s \o t) /\ (s \o t)[i] = s[i]
    BY <1>3, <1>4
  <2>. QED
    BY <2>1, <2>2 DEF OnWire
<1>6. ASSUME NEW id, OnWire(t, id) PROVE OnWire(s \o t, id)
  <2>1. PICK i \in 1..Len(t) : t[i].kind = "event" /\ t[i].id = id
    BY <1>6 DEF OnWire
  <2>2. Len(s) + i \in 1..Len(s \o t) /\ (s \o t)[Len(s) + i] = t[i]
    BY <1>3, <1>4
  <2>. QED
    BY <2>1, <2>2 DEF OnWire
<1>. QED
  BY <1>4, <1>5, <1>6 DEF IsSeq

(* One more frame is a sequence of one frame at the end. *)
LEMMA AppendOne ==
  ASSUME NEW s, IsSeq(s), NEW c
  PROVE  IsSeq(<<c>>) /\ IsSeq(Append(s, c)) /\ Append(s, c) = s \o <<c>>
<1>1. PICK S : s \in Seq(S)
  BY DEF IsSeq
<1>2. s \in Seq(S \cup {c}) /\ c \in S \cup {c}
  BY <1>1
<1>3. Append(s, c) \in Seq(S \cup {c}) /\ Append(s, c) = s \o <<c>>
  BY <1>2, AppendProperties, AppendIsConcat
<1>4. <<c>> \in Seq({c})
  OBVIOUS
<1>. QED
  BY <1>3, <1>4 DEF IsSeq

(* The buffer after a push is again the tail of the numbers given out. *)
LEMMA PushKeepsTail ==
  ASSUME NEW id, FeedShape, WindowIsTail,
         next' = next + 1,
         buf' = push_websocket_replay_event(buf, [sequence |-> next + 1, id |-> id])
  PROVE  IsSeq(buf') /\ WindowIsTail'
<1>. DEFINE e == [sequence |-> next + 1, id |-> id]
            l == Append(buf, e)
<1>0. Capacity \in Nat \ {0} /\ next \in Nat
  BY FeedAssumption DEF FeedShape
<1>1. PICK S : buf \in Seq(S)
  BY DEF FeedShape, IsSeq
<1>2. buf \in Seq(S \cup {e}) /\ e \in S \cup {e}
  BY <1>1
<1>3. /\ l \in Seq(S \cup {e}) /\ l # << >> /\ Len(l) = Len(buf) + 1
      /\ \A i \in 1..Len(buf) : l[i] = buf[i]
      /\ l[Len(buf) + 1] = e
  <2>. HIDE DEF e
  <2>. QED
    BY <1>2, AppendProperties, SMT
<1>4. Len(buf) \in Nat
  BY <1>1
<1>5. e.sequence = next + 1
  OBVIOUS
<1>6. buf' = IF Len(l) > Capacity THEN Tail(l) ELSE l
  BY DEF push_websocket_replay_event
<1>. HIDE DEF e, l
<1>7. \A i \in 1..Len(l) : l[i].sequence = next + 1 - Len(l) + i
  <2>. SUFFICES ASSUME NEW i \in 1..Len(l)
                PROVE  l[i].sequence = next + 1 - Len(l) + i
    OBVIOUS
  <2>1. CASE i = Len(buf) + 1
    BY <1>0, <1>3, <1>4, <1>5, <2>1
  <2>2. CASE i \in 1..Len(buf)
    <3>1. buf[i].sequence = next - Len(buf) + i
      BY <2>2 DEF WindowIsTail
    <3>. QED
      BY <1>0, <1>3, <1>4, <2>2, <3>1
  <2>. QED
    BY <1>3, <1>4, <2>1, <2>2
<1>8. CASE Len(l) > Capacity
  <2>1. /\ Tail(l) \in Seq(S \cup {e}) /\ Len(Tail(l)) = Len(l) - 1
        /\ \A i \in 1 .. Len(Tail(l)) : Tail(l)[i] = l[i + 1]
    BY <1>3, HeadTailProperties, Zenon
  <2>2. Len(buf) = Capacity /\ next >= Capacity
    BY <1>0, <1>3, <1>4, <1>8 DEF WindowIsTail
  <2>3. Len(buf') = Capacity /\ next' >= Capacity
    BY <1>0, <1>3, <1>4, <1>6, <1>8, <2>1, <2>2
  <2>4. \A i \in 1..Len(buf') : buf'[i].sequence = next' - Len(buf') + i
    <3>. SUFFICES ASSUME NEW i \in 1..Len(buf')
                  PROVE  buf'[i].sequence = next' - Len(buf') + i
      OBVIOUS
    <3>1. i + 1 \in 1..Len(l) /\ buf'[i] = l[i + 1] /\ Len(l) = Capacity + 1
      BY <1>0, <1>3, <1>4, <1>6, <1>8, <2>1, <2>2
    <3>2. l[i + 1].sequence = next + 1 - Len(l) + (i + 1)
      BY <1>7, <3>1
    <3>. QED
      BY <1>0, <2>3, <3>1, <3>2
  <2>5. IsSeq(buf')
    BY <1>6, <1>8, <2>1 DEF IsSeq
  <2>6. Len(buf') = IF next' < Capacity THEN next' ELSE Capacity
    BY <1>0, <2>3
  <2>. QED
    BY <2>4, <2>5, <2>6 DEF WindowIsTail
<1>9. CASE Len(l) <= Capacity
  <2>1. buf' = l
    BY <1>0, <1>3, <1>4, <1>6, <1>9
  <2>2. Len(l) = next + 1
    BY <1>0, <1>3, <1>4, <1>9 DEF WindowIsTail
  <2>3. IsSeq(buf')
    BY <1>3, <2>1 DEF IsSeq
  <2>4. Len(buf') = IF next' < Capacity THEN next' ELSE Capacity
    BY <1>0, <1>9, <2>1, <2>2
  <2>5. \A i \in 1..Len(buf') : buf'[i].sequence = next' - Len(buf') + i
    <3>. SUFFICES ASSUME NEW i \in 1..Len(l)
                  PROVE  l[i].sequence = next' - Len(l) + i
      BY <2>1
    <3>1. l[i].sequence = next + 1 - Len(l) + i
      BY <1>7
    <3>. QED
      BY <1>0, <1>3, <1>4, <3>1
  <2>. QED
    BY <2>3, <2>4, <2>5 DEF WindowIsTail
<1>. QED
  BY <1>0, <1>3, <1>4, <1>8, <1>9

(* A fresh room object and a client that is not connected satisfy it. *)
LEMMA FeedInitInv == FeedInit => FeedInv
<1>1. IsSeq(<< >>)
  BY EmptySeq DEF IsSeq
<1>2. FeedInit => FeedShape
  BY <1>1 DEF FeedInit, FeedShape
<1>3. FeedInit => WindowIsTail
  BY FeedAssumption DEF FeedInit, WindowIsTail
<1>. QED
  BY <1>2, <1>3 DEF FeedInit, FeedInv, LiveHintsArrive

(* A step that adds frames to the wire, if it leaves the socket open, and      *)
(* broadcasts nothing.                                                         *)
LEMMA KeepsHints ==
  ASSUME FeedInv, NEW t, IsSeq(t), down' = down \o t, accepted' => accepted,
         UNCHANGED <<linked, seen, base, events>>
  PROVE  LiveHintsArrive'
<1>1. \A id : OnWire(down, id) => OnWire(down', id)
  BY WireGrows DEF FeedInv, FeedShape
<1>. QED
  BY <1>1 DEF FeedInv, LiveHintsArrive, OnWire

(* A broadcast numbers the event, buffers it and puts it on an open wire. *)
LEMMA BroadcastStep == FeedInv /\ broadcast_websocket_payload => FeedInv'
<1>. SUFFICES ASSUME FeedInv, broadcast_websocket_payload PROVE FeedInv'
  OBVIOUS
<1>1. /\ events' = events + 1 /\ next' = next + 1
      /\ UNCHANGED <<linked, seen, base>>
  BY DEF broadcast_websocket_payload
<1>2. IsSeq(buf') /\ WindowIsTail'
  BY <1>1, PushKeepsTail DEF FeedInv, broadcast_websocket_payload
<1>3. CASE ~ accepted
  <2>1. UNCHANGED <<accepted, down>>
    BY <1>3 DEF broadcast_websocket_payload
  <2>. QED
    BY <1>1, <1>2, <1>3, <2>1 DEF FeedInv, FeedShape, LiveHintsArrive
<1>4. CASE accepted
  <2>. DEFINE lag == should_emit_websocket_lag_notice(att, next')
              ev  == Event([sequence |-> next', id |-> events + 1])
              ctl == IF lag THEN <<Control("lag", next')>> ELSE << >>
  <2>1. PushToSocket(next', buf')
    BY <1>4 DEF broadcast_websocket_payload
  <2>2. CASE websocket_gap_is_irrecoverable(att, buf')
    <3>1. down' = Append(down, Control("sync_required", next')) /\ accepted' = FALSE
      BY <2>1, <2>2 DEF PushToSocket
    <3>2. IsSeq(down')
      BY <3>1, AppendOne DEF FeedInv, FeedShape
    <3>. QED
      BY <1>1, <1>2, <3>1, <3>2 DEF FeedInv, FeedShape, LiveHintsArrive
  <2>3. CASE ~ websocket_gap_is_irrecoverable(att, buf')
    <3>1. down' = (down \o ctl) \o <<ev>> /\ accepted' = accepted
      BY <2>1, <2>3 DEF PushToSocket
    <3>2. ev.kind = "event" /\ ev.id = events + 1
      BY DEF Event
    <3>. HIDE DEF ev
    <3>3. IsSeq(<<ev>>) /\ OnWire(<<ev>>, events + 1)
      <4>1. <<ev>> \in Seq({ev}) /\ Len(<<ev>>) = 1 /\ <<ev>>[1] = ev
        OBVIOUS
      <4>2. 1 \in 1..Len(<<ev>>) /\ <<ev>>[1].kind = "event" /\ <<ev>>[1].id = events + 1
        BY <3>2, <4>1
      <4>3. OnWire(<<ev>>, events + 1)
        BY <4>2, Zenon DEF OnWire
      <4>. QED
        BY <4>1, <4>3 DEF IsSeq
    <3>4. IsSeq(ctl)
      <4>1. <<Control("lag", next')>> \in Seq({Control("lag", next')})
        OBVIOUS
      <4>2. << >> \in Seq({})
        BY EmptySeq
      <4>. QED
        BY <4>1, <4>2 DEF IsSeq
    <3>. HIDE DEF ctl
    <3>5. IsSeq(down \o ctl) /\ \A id : OnWire(down, id) => OnWire(down \o ctl, id)
      BY <3>4, WireGrows DEF FeedInv, FeedShape
    <3>6. /\ IsSeq(down')
          /\ \A id : OnWire(down, id) \/ OnWire(<<ev>>, id) => OnWire(down', id)
      BY <3>1, <3>3, <3>5, WireGrows
    <3>7. FeedShape'
      BY <1>1, <1>2, <3>6 DEF FeedInv, FeedShape
    <3>8. LiveHintsArrive'
      <4>. SUFFICES ASSUME linked, accepted, NEW id \in base + 1 .. events + 1
                    PROVE  id \in seen \/ OnWire(down', id)
        BY <1>1, <3>1 DEF LiveHintsArrive, OnWire
      <4>1. CASE id = events + 1
        BY <3>3, <3>6, <4>1
      <4>2. CASE id \in base + 1 .. events
        BY <3>6, <4>2 DEF FeedInv, LiveHintsArrive, OnWire
      <4>. QED
        BY <4>1, <4>2 DEF FeedInv, FeedShape
    <3>. QED
      BY <1>2, <3>7, <3>8 DEF FeedInv
  <2>. QED
    BY <2>2, <2>3
<1>. QED
  BY <1>3, <1>4

(* A signal only ever adds frames to the wire. *)
LEMMA SignalStep == FeedInv /\ record_websocket_signal => FeedInv'
<1>. SUFFICES ASSUME FeedInv, record_websocket_signal PROVE FeedInv'
  OBVIOUS
<1>1. UNCHANGED <<next, buf, linked, seen, base, events>> /\ accepted
  BY DEF record_websocket_signal, room, bounds
<1>2. PICK t : IsSeq(t) /\ down' = down \o t
  <2>. DEFINE a == [att EXCEPT !.last_acknowledged_sequence = IF Head(up) > @ THEN Head(up) ELSE @]
              c == Control("sync_required", att.last_sent_sequence)
  <2>1. \/ down' = Append(down, c)
        \/ down' = down \o replay_websocket_gap(a)
    BY DEF record_websocket_signal
  <2>2. IsSeq(replay_websocket_gap(a))
    <3>. HIDE DEF a
    <3>. DEFINE gap == buffered_websocket_events_after(buf, a.last_acknowledged_sequence, a.last_sent_sequence)
                n == Len(gap)
                f == [i \in 1..n |-> Event(gap[i])]
    <3>1. n \in Nat
      <4>1. PICK S : buf \in Seq(S)
        BY DEF FeedInv, FeedShape, IsSeq
      <4>2. gap \in Seq(S)
        BY <4>1, FilterTyped
      <4>. HIDE DEF gap
      <4>. QED
        BY <4>2
    <3>2. << >> \in Seq({})
      BY EmptySeq
    <3>3. replay_websocket_gap(a) \in {<< >>, f}
      BY DEF replay_websocket_gap
    <3>4. f \in Seq({Event(gap[i]) : i \in 1..n})
      <4>. HIDE DEF n, gap
      <4>. QED
        BY <3>1
    <3>. QED
      BY <3>2, <3>3, <3>4 DEF IsSeq
  <2>3. IsSeq(<<c>>) /\ Append(down, c) = down \o <<c>>
    <3>. HIDE DEF c
    <3>. QED
      BY AppendOne DEF FeedInv, FeedShape
  <2>. QED
    BY <2>1, <2>2, <2>3
<1>3. LiveHintsArrive'
  BY <1>1, <1>2, KeepsHints
<1>4. IsSeq(down')
  BY <1>2, WireGrows DEF FeedInv, FeedShape
<1>. QED
  BY <1>1, <1>3, <1>4 DEF FeedInv, FeedShape, WindowIsTail

(* Dropping the object's memory restarts the numbers and empties the buffer. *)
LEMMA EvictStep == FeedInv /\ Evict => FeedInv'
<1>. SUFFICES ASSUME FeedInv, Evict PROVE FeedInv'
  OBVIOUS
<1>1. next' = 0 /\ buf' = << >> /\ UNCHANGED <<accepted, down, linked, seen, base, events>>
  BY DEF Evict, wire
<1>2. IsSeq(buf')
  BY <1>1, EmptySeq DEF IsSeq
<1>3. WindowIsTail'
  BY <1>1, FeedAssumption DEF WindowIsTail
<1>. QED
  BY <1>1, <1>2, <1>3 DEF FeedInv, FeedShape, LiveHintsArrive

(* A new connection has nothing broadcast before it; a broken one promises nothing. *)
LEMMA LinkStep == FeedInv /\ (Connect \/ Drop) => FeedInv'
<1>. SUFFICES ASSUME FeedInv, Connect \/ Drop PROVE FeedInv'
  OBVIOUS
<1>1. /\ UNCHANGED <<next, buf, events>> /\ down' = << >>
      /\ (linked' /\ base' = events) \/ (~ linked' /\ base' = base)
  BY DEF Connect, Drop, Unlink, room, bounds
<1>2. IsSeq(down')
  BY <1>1, EmptySeq DEF IsSeq
<1>3. LiveHintsArrive'
  BY <1>1 DEF LiveHintsArrive, FeedInv, FeedShape
<1>. QED
  BY <1>1, <1>2, <1>3 DEF FeedInv, FeedShape, WindowIsTail

(* The client takes the first frame off the wire and, if it is an event, has handled it. *)
LEMMA ReceiveStep == FeedInv /\ Receive => FeedInv'
<1>. SUFFICES ASSUME FeedInv, Receive PROVE FeedInv'
  OBVIOUS
<1>1. UNCHANGED <<next, buf, base, events>> /\ linked /\ down # << >>
  BY DEF Receive, room, bounds
<1>2. CASE Unlink
  <2>1. down' = << >> /\ ~ linked'
    BY <1>2 DEF Unlink
  <2>2. IsSeq(down')
    BY <2>1, EmptySeq DEF IsSeq
  <2>. QED
    BY <1>1, <2>1, <2>2 DEF FeedInv, FeedShape, WindowIsTail, LiveHintsArrive
<1>3. CASE ~ Unlink
  <2>. DEFINE f == Head(down)
  <2>1. /\ seen' = IF f.kind = "event" THEN seen \union {f.id} ELSE seen
        /\ down' = Tail(down)
        /\ UNCHANGED <<accepted, linked>>
    BY <1>3 DEF Receive
  <2>2. PICK S : down \in Seq(S)
    BY DEF FeedInv, FeedShape, IsSeq
  <2>3. /\ Tail(down) \in Seq(S) /\ Len(Tail(down)) = Len(down) - 1
        /\ \A i \in 1 .. Len(Tail(down)) : Tail(down)[i] = down[i + 1]
    BY <1>1, <2>2, HeadTailProperties, Zenon
  <2>4. f = down[1] /\ Len(down) \in Nat
    BY <1>1, <2>2
  <2>. HIDE DEF f
  <2>5. LiveHintsArrive'
    <3>. SUFFICES ASSUME linked, accepted, NEW id \in base + 1 .. events
                  PROVE  id \in seen' \/ OnWire(down', id)
      BY <1>1, <2>1 DEF LiveHintsArrive, OnWire
    <3>1. id \in seen \/ OnWire(down, id)
      BY DEF FeedInv, LiveHintsArrive, OnWire
    <3>2. ASSUME NEW i \in 1..Len(down), down[i].kind = "event", down[i].id = id
          PROVE  id \in seen' \/ OnWire(down', id)
      <4>1. CASE i = 1
        BY <2>1, <2>4, <3>2, <4>1
      <4>2. CASE i # 1
        <5>1. i - 1 \in 1..Len(Tail(down)) /\ Tail(down)[i - 1] = down[(i - 1) + 1]
          BY <2>3, <2>4, <4>2
        <5>2. (i - 1) + 1 = i
          OBVIOUS
        <5>. QED
          BY <2>1, <3>2, <5>1, <5>2 DEF OnWire
      <4>. QED
        BY <4>1, <4>2
    <3>. QED
      BY <2>1, <3>1, <3>2 DEF OnWire
  <2>. QED
    BY <1>1, <2>1, <2>3, <2>5 DEF FeedInv, FeedShape, IsSeq, WindowIsTail
<1>. QED
  BY <1>2, <1>3

(* No step disturbs it. *)
LEMMA FeedStep == FeedInv /\ [FeedNext]_feed_vars => FeedInv'
<1>. SUFFICES ASSUME FeedInv, [FeedNext]_feed_vars PROVE FeedInv'
  OBVIOUS
<1>1. CASE FeedNext
  BY <1>1, BroadcastStep, SignalStep, EvictStep, LinkStep, ReceiveStep DEF FeedNext
<1>2. CASE UNCHANGED feed_vars
  BY <1>2 DEF feed_vars, FeedInv, FeedShape, WindowIsTail, LiveHintsArrive
<1>. QED
  BY <1>1, <1>2

(* The replay buffer of the room object is exactly the tail of the numbers it   *)
(* has given out, for every configured window.                                  *)
THEOREM ReplayWindowIsTail == FeedSpec => []WindowIsTail
<1>1. FeedInv => WindowIsTail
  BY DEF FeedInv
<1>. QED
  BY FeedInitInv, FeedStep, <1>1, PTL DEF FeedSpec

(* No lag notice, replay or loss of the object's memory makes a client on an    *)
(* open socket miss a notification, for every lag limit and threshold.          *)
THEOREM HintsReachLiveClients == FeedSpec => []LiveHintsArrive
<1>1. FeedInv => LiveHintsArrive
  BY DEF FeedInv
<1>. QED
  BY FeedInitInv, FeedStep, <1>1, PTL DEF FeedSpec

-----------------------------------------------------------------------------
(* The numbers of the hint stream. *)

(* Frames under the numbers given out: only sync_required may carry none. *)
NumberedFrames ==
  {f \in Frames : /\ f.sequence <= MaxEvents
                  /\ f.kind # "sync_required" => f.sequence > 0
                  /\ f.kind = "event" => f.id \in 1..MaxEvents}

(* An event of the replay buffer. *)
BufferedEvents == [sequence : 1..MaxEvents, id : 1..MaxEvents]

(* The invariant of the types: no number is above the ones given out. *)
FeedNumbers ==
  /\ FeedTypeOK /\ next <= events /\ down \in Seq(NumberedFrames)
  /\ att.last_sent_sequence <= MaxEvents

(* The frames the room object writes are numbered. *)
LEMMA FramesTyped ==
  /\ \A n \in 0..MaxEvents : Control("sync_required", n) \in NumberedFrames
  /\ \A n \in 1..MaxEvents : Control("lag", n) \in NumberedFrames
  /\ \A e \in BufferedEvents : Event(e) \in NumberedFrames
<1>0. MaxEvents \in Nat
  BY FeedAssumption
<1>1. ASSUME NEW n \in 0..MaxEvents PROVE Control("sync_required", n) \in NumberedFrames
  BY <1>0 DEF Control, NumberedFrames, Frames
<1>2. ASSUME NEW n \in 1..MaxEvents PROVE Control("lag", n) \in NumberedFrames
  BY <1>0 DEF Control, NumberedFrames, Frames
<1>3. ASSUME NEW e \in BufferedEvents PROVE Event(e) \in NumberedFrames
  BY <1>0 DEF Event, NumberedFrames, Frames, BufferedEvents
<1>. QED
  BY <1>1, <1>2, <1>3

(* Numbered frames are frames. *)
LEMMA NumberedAreFrames ==
  ASSUME NEW s \in Seq(NumberedFrames)
  PROVE  s \in Seq(Frames)
  BY DEF NumberedFrames

(* It holds before the first event. *)
LEMMA InitNumbers == FeedInit => FeedNumbers
<1>. SUFFICES ASSUME FeedInit PROVE FeedNumbers
  OBVIOUS
<1>0. MaxEvents \in Nat /\ MaxDrops \in Nat /\ MaxEvictions \in Nat
  BY FeedAssumption
<1>1. /\ next = 0 /\ buf = << >> /\ accepted = FALSE /\ att = FreshAttachment /\ down = << >>
      /\ up = << >> /\ linked = FALSE /\ cursor = 0 /\ seen = {} /\ base = 0
      /\ events = 0 /\ drops = 0 /\ evictions = 0
  BY DEF FeedInit
<1>2. att \in WebSocketSessionAttachment /\ att.last_sent_sequence = 0
  BY <1>1 DEF FreshAttachment, WebSocketSessionAttachment
<1>3. /\ buf \in Seq(BufferedEvents) /\ down \in Seq(NumberedFrames) /\ down \in Seq(Frames)
      /\ up \in Seq(1..MaxEvents)
  BY <1>1, EmptySeq
<1>4. FeedTypeOK
  <2>1. /\ next \in 0..MaxEvents /\ cursor \in 0..MaxEvents /\ base \in 0..MaxEvents
        /\ events \in 0..MaxEvents /\ drops \in 0..MaxDrops /\ evictions \in 0..MaxEvictions
    BY <1>0, <1>1
  <2>2. seen \subseteq 1..MaxEvents /\ accepted \in BOOLEAN /\ linked \in BOOLEAN
    BY <1>1
  <2>. QED
    BY <1>2, <1>3, <2>1, <2>2 DEF FeedTypeOK, BufferedEvents
<1>. QED
  BY <1>0, <1>1, <1>2, <1>3, <1>4 DEF FeedNumbers

(* A notification takes the next number, which no bound exceeds. *)
LEMMA BroadcastNumbers ==
  ASSUME FeedNumbers, broadcast_websocket_payload
  PROVE  FeedNumbers'
<1>0. /\ MaxEvents \in Nat /\ next \in Nat /\ events \in Nat /\ events < MaxEvents /\ next <= events
      /\ buf \in Seq(BufferedEvents) /\ down \in Seq(NumberedFrames)
      /\ att \in WebSocketSessionAttachment /\ att.last_sent_sequence <= MaxEvents
  BY FeedAssumption DEF FeedNumbers, FeedTypeOK, broadcast_websocket_payload, BufferedEvents
<1>1. /\ events' = events + 1 /\ next' = next + 1
      /\ UNCHANGED <<up, linked, cursor, seen, base, drops, evictions>>
  BY DEF broadcast_websocket_payload
<1>2. /\ events' \in 1..MaxEvents /\ next' \in 1..MaxEvents /\ next' <= events'
  BY <1>0, <1>1
<1>. DEFINE e == [sequence |-> next', id |-> events']
            l == Append(buf, e)
<1>3. e \in BufferedEvents
  BY <1>2 DEF BufferedEvents
<1>4. buf' = IF Len(l) > Capacity THEN Tail(l) ELSE l
  BY DEF broadcast_websocket_payload, push_websocket_replay_event
<1>. HIDE DEF e
<1>5. l \in Seq(BufferedEvents) /\ l # << >>
  BY <1>0, <1>3, AppendProperties
<1>. HIDE DEF l
<1>6. buf' \in Seq(BufferedEvents)
  BY <1>4, <1>5, HeadTailProperties
<1>7. /\ down' \in Seq(NumberedFrames) /\ att' \in WebSocketSessionAttachment
      /\ att'.last_sent_sequence <= MaxEvents /\ accepted' \in BOOLEAN
  <2>1. CASE ~ accepted
    BY <1>0, <2>1 DEF broadcast_websocket_payload, FeedNumbers, FeedTypeOK
  <2>2. CASE accepted /\ websocket_gap_is_irrecoverable(att, buf')
    <3>1. down' = Append(down, Control("sync_required", next')) /\ accepted' = FALSE /\ att' = att
      BY <2>2 DEF broadcast_websocket_payload, PushToSocket
    <3>2. Control("sync_required", next') \in NumberedFrames
      BY <1>0, <1>2, FramesTyped
    <3>. QED
      BY <1>0, <3>1, <3>2, AppendProperties
  <2>3. CASE accepted /\ ~ websocket_gap_is_irrecoverable(att, buf')
    <3>. DEFINE lag == should_emit_websocket_lag_notice(att, next')
                ev  == Event([sequence |-> next', id |-> events + 1])
                ctl == IF lag THEN <<Control("lag", next')>> ELSE << >>
                n == IF lag THEN att.last_acknowledged_sequence
                     ELSE att.last_lag_notice_acknowledged_sequence
    <3>1. /\ down' = (down \o ctl) \o <<ev>> /\ accepted' = accepted
          /\ att' = [att EXCEPT !.last_sent_sequence = next',
                                !.last_lag_notice_acknowledged_sequence = n]
      BY <2>3 DEF broadcast_websocket_payload, PushToSocket
    <3>2. ev \in NumberedFrames
      BY <1>1, <1>3, FramesTyped DEF e
    <3>3. Control("lag", next') \in NumberedFrames
      BY <1>2, FramesTyped
    <3>4. <<ev>> \in Seq(NumberedFrames) /\ ctl \in Seq(NumberedFrames)
      <4>. HIDE DEF ev, lag
      <4>. QED
        BY <3>2, <3>3, EmptySeq
    <3>5. n \in Nat
      BY <1>0 DEF WebSocketSessionAttachment
    <3>. HIDE DEF n, ctl, ev
    <3>6. down \o ctl \in Seq(NumberedFrames)
      BY <1>0, <3>4, ConcatProperties
    <3>7. down' \in Seq(NumberedFrames)
      BY <3>1, <3>4, <3>6, ConcatProperties
    <3>8. att' \in WebSocketSessionAttachment /\ att'.last_sent_sequence = next'
      <4>1. next' \in Nat
        BY <1>0, <1>2
      <4>. DEFINE x == next'
      <4>2. x \in Nat /\ att' = [att EXCEPT !.last_sent_sequence = x,
                                            !.last_lag_notice_acknowledged_sequence = n]
        BY <3>1, <4>1
      <4>. HIDE DEF x
      <4>3. att' \in WebSocketSessionAttachment /\ att'.last_sent_sequence = x
        BY <1>0, <3>5, <4>2 DEF WebSocketSessionAttachment
      <4>. QED
        BY <4>3 DEF x
    <3>. QED
      BY <1>0, <1>2, <2>3, <3>1, <3>7, <3>8
  <2>. QED
    BY <2>1, <2>2, <2>3
<1>8. FeedTypeOK'
  <2>1. down' \in Seq(Frames)
    BY <1>7, NumberedAreFrames
  <2>2. next' \in 0..MaxEvents /\ events' \in 0..MaxEvents
    BY <1>2
  <2>. QED
    BY <1>1, <1>6, <1>7, <2>1, <2>2 DEF FeedNumbers, FeedTypeOK, BufferedEvents
<1>. QED
  BY <1>2, <1>7, <1>8 DEF FeedNumbers

(* A replay puts buffered events on the wire. *)
LEMMA SignalNumbers ==
  ASSUME FeedNumbers, record_websocket_signal
  PROVE  FeedNumbers'
<1>0. /\ MaxEvents \in Nat /\ buf \in Seq(BufferedEvents) /\ down \in Seq(NumberedFrames)
      /\ att \in WebSocketSessionAttachment /\ att.last_sent_sequence <= MaxEvents
      /\ up \in Seq(1..MaxEvents) /\ up # << >> /\ accepted
  BY FeedAssumption DEF FeedNumbers, FeedTypeOK, record_websocket_signal, BufferedEvents
<1>. DEFINE h == Head(up)
            n == IF h > att.last_acknowledged_sequence THEN h ELSE att.last_acknowledged_sequence
            a == [att EXCEPT !.last_acknowledged_sequence = n]
<1>1. /\ up' = Tail(up)
      /\ UNCHANGED <<next, buf, linked, cursor, seen, base, events, drops, evictions>>
      /\ \/ /\ down' = Append(down, Control("sync_required", att.last_sent_sequence))
            /\ accepted' = FALSE /\ att' = att
         \/ down' = down \o replay_websocket_gap(a) /\ att' = a /\ accepted' = accepted
  BY DEF record_websocket_signal, room, bounds
<1>2. h \in 1..MaxEvents /\ up' \in Seq(1..MaxEvents)
  BY <1>0, <1>1, HeadTailProperties
<1>. HIDE DEF h
<1>3. n \in Nat
  BY <1>0, <1>2 DEF WebSocketSessionAttachment
<1>. HIDE DEF n
<1>4. a \in WebSocketSessionAttachment /\ a.last_sent_sequence = att.last_sent_sequence
  BY <1>0, <1>3 DEF WebSocketSessionAttachment
<1>. HIDE DEF a
<1>5. replay_websocket_gap(a) \in Seq(NumberedFrames)
  <2>. DEFINE gap == buffered_websocket_events_after(buf, a.last_acknowledged_sequence, a.last_sent_sequence)
              f == [i \in 1..Len(gap) |-> Event(gap[i])]
  <2>1. gap \in Seq(BufferedEvents)
    BY <1>0, FilterTyped
  <2>2. replay_websocket_gap(a) \in {<< >>, f}
    BY DEF replay_websocket_gap
  <2>. HIDE DEF gap
  <2>3. f \in Seq(NumberedFrames)
    <3>1. Len(gap) \in Nat /\ \A i \in 1..Len(gap) : gap[i] \in BufferedEvents
      BY <2>1
    <3>2. \A i \in 1..Len(gap) : Event(gap[i]) \in NumberedFrames
      BY <3>1, FramesTyped
    <3>. QED
      BY <3>1, <3>2
  <2>. QED
    BY <2>2, <2>3, EmptySeq
<1>6. Control("sync_required", att.last_sent_sequence) \in NumberedFrames
  <2>1. att.last_sent_sequence \in 0..MaxEvents
    BY <1>0 DEF WebSocketSessionAttachment
  <2>. QED
    BY <2>1, FramesTyped
<1>7. /\ down' \in Seq(NumberedFrames) /\ att' \in WebSocketSessionAttachment
      /\ att'.last_sent_sequence <= MaxEvents /\ accepted' \in BOOLEAN
  <2>1. ASSUME down' = Append(down, Control("sync_required", att.last_sent_sequence))
        PROVE  down' \in Seq(NumberedFrames)
    BY <1>0, <1>6, <2>1, AppendProperties
  <2>2. ASSUME down' = down \o replay_websocket_gap(a) PROVE down' \in Seq(NumberedFrames)
    BY <1>0, <1>5, <2>2, ConcatProperties
  <2>. QED
    BY <1>0, <1>1, <1>4, <2>1, <2>2
<1>8. FeedTypeOK'
  <2>1. down' \in Seq(Frames)
    BY <1>7, NumberedAreFrames
  <2>. QED
    BY <1>1, <1>2, <1>7, <2>1 DEF FeedNumbers, FeedTypeOK
<1>. QED
  BY <1>1, <1>7, <1>8 DEF FeedNumbers

(* What a connection that ends or begins leaves on the wire. *)
LEMMA UnlinkNumbers ==
  /\ FreshAttachment \in WebSocketSessionAttachment /\ FreshAttachment.last_sent_sequence = 0
  /\ << >> \in Seq(NumberedFrames) /\ << >> \in Seq(Frames) /\ << >> \in Seq(1..MaxEvents)
<1>1. FreshAttachment \in WebSocketSessionAttachment /\ FreshAttachment.last_sent_sequence = 0
  BY DEF FreshAttachment, WebSocketSessionAttachment
<1>. QED
  BY <1>1, EmptySeq

(* A lost object, a connection and its end number nothing. *)
LEMMA LinkNumbers ==
  ASSUME FeedNumbers, Evict \/ Connect \/ Drop
  PROVE  FeedNumbers'
<1>0. /\ MaxEvents \in Nat /\ MaxEvictions \in Nat /\ MaxDrops \in Nat /\ events \in 0..MaxEvents
      /\ FeedTypeOK
  BY FeedAssumption DEF FeedNumbers, FeedTypeOK
<1>1. CASE Evict
  <2>1. /\ evictions < MaxEvictions /\ evictions' = evictions + 1 /\ next' = 0 /\ buf' = << >>
        /\ UNCHANGED <<accepted, att, down, up, linked, cursor, seen, base, events, drops>>
    BY <1>1 DEF Evict, wire
  <2>2. buf' \in Seq(BufferedEvents)
    BY <2>1, EmptySeq
  <2>3. evictions' \in 0..MaxEvictions /\ next' \in 0..MaxEvents /\ next' <= events'
    BY <1>0, <2>1 DEF FeedTypeOK
  <2>4. FeedTypeOK'
    BY <1>0, <2>1, <2>2, <2>3 DEF FeedTypeOK, BufferedEvents
  <2>. QED
    BY <2>1, <2>3, <2>4 DEF FeedNumbers
<1>2. CASE Connect
  <2>1. /\ linked' = TRUE /\ accepted' = TRUE /\ att' = FreshAttachment /\ down' = << >>
        /\ up' = (IF cursor > 0 THEN <<cursor>> ELSE << >>) /\ base' = events
        /\ UNCHANGED <<next, buf, cursor, seen, events, drops, evictions>>
    BY <1>2 DEF Connect, room, bounds
  <2>2. up' \in Seq(1..MaxEvents)
    <3>1. CASE cursor > 0
      <4>1. cursor \in 1..MaxEvents
        BY <1>0, <3>1 DEF FeedTypeOK
      <4>. QED
        BY <2>1, <3>1, <4>1
    <3>2. CASE ~(cursor > 0)
      BY <2>1, <3>2, UnlinkNumbers
    <3>. QED
      BY <3>1, <3>2
  <2>3. FeedTypeOK'
    BY <1>0, <2>1, <2>2, UnlinkNumbers DEF FeedTypeOK
  <2>. QED
    BY <1>0, <2>1, <2>3, UnlinkNumbers DEF FeedNumbers
<1>3. CASE Drop
  <2>1. /\ linked' = FALSE /\ accepted' = FALSE /\ att' = FreshAttachment /\ down' = << >>
        /\ up' = << >> /\ drops < MaxDrops /\ drops' = drops + 1
        /\ UNCHANGED <<next, buf, cursor, seen, base, events, evictions>>
    BY <1>3 DEF Drop, Unlink, room
  <2>2. drops' \in 0..MaxDrops
    BY <1>0, <2>1 DEF FeedTypeOK
  <2>3. FeedTypeOK'
    BY <1>0, <2>1, <2>2, UnlinkNumbers DEF FeedTypeOK
  <2>. QED
    BY <1>0, <2>1, <2>3, UnlinkNumbers DEF FeedNumbers
<1>. QED
  BY <1>1, <1>2, <1>3

(* The client acknowledges only numbers that were given out. *)
LEMMA ReceiveNumbers ==
  ASSUME FeedNumbers, Receive
  PROVE  FeedNumbers'
<1>. DEFINE f == Head(down)
<1>0. /\ MaxEvents \in Nat /\ FeedTypeOK /\ down \in Seq(NumberedFrames) /\ down # << >>
      /\ cursor \in 0..MaxEvents /\ up \in Seq(1..MaxEvents)
  BY FeedAssumption DEF FeedNumbers, FeedTypeOK, Receive
<1>1. f \in NumberedFrames /\ Tail(down) \in Seq(NumberedFrames)
  BY <1>0, HeadTailProperties
<1>2. /\ cursor' = (IF f.sequence > cursor THEN f.sequence ELSE cursor)
      /\ UNCHANGED <<next, buf, base, events, drops, evictions>>
      /\ \/ Unlink /\ seen' = seen
         \/ /\ f.kind \in {"event", "lag"}
            /\ seen' = IF f.kind = "event" THEN seen \union {f.id} ELSE seen
            /\ down' = Tail(down)
            /\ up' = IF accepted THEN Append(up, cursor') ELSE up
            /\ UNCHANGED <<accepted, att, linked>>
  BY DEF Receive, room, bounds
<1>. HIDE DEF f
<1>3. f.sequence \in 0..MaxEvents /\ (f.kind \in {"event", "lag"} => f.sequence > 0)
      /\ (f.kind = "event" => f.id \in 1..MaxEvents)
  BY <1>0, <1>1 DEF NumberedFrames, Frames
<1>4. cursor' \in 0..MaxEvents /\ (f.kind \in {"event", "lag"} => cursor' \in 1..MaxEvents)
  BY <1>0, <1>2, <1>3
<1>5. CASE Unlink /\ seen' = seen
  <2>1. /\ linked' = FALSE /\ accepted' = FALSE /\ att' = FreshAttachment /\ down' = << >>
        /\ up' = << >>
    BY <1>5 DEF Unlink
  <2>2. FeedTypeOK'
    BY <1>0, <1>2, <1>4, <1>5, <2>1, UnlinkNumbers DEF FeedTypeOK
  <2>. QED
    BY <1>0, <1>2, <2>1, <2>2, UnlinkNumbers DEF FeedNumbers
<1>6. CASE /\ f.kind \in {"event", "lag"}
           /\ seen' = IF f.kind = "event" THEN seen \union {f.id} ELSE seen
           /\ down' = Tail(down)
           /\ up' = IF accepted THEN Append(up, cursor') ELSE up
           /\ UNCHANGED <<accepted, att, linked>>
  <2>1. up' \in Seq(1..MaxEvents)
    BY <1>0, <1>4, <1>6, AppendProperties
  <2>2. seen' \subseteq 1..MaxEvents
    BY <1>0, <1>3, <1>6 DEF FeedTypeOK
  <2>3. down' \in Seq(NumberedFrames) /\ down' \in Seq(Frames)
    BY <1>1, <1>6, NumberedAreFrames
  <2>4. FeedTypeOK'
    BY <1>0, <1>2, <1>4, <1>6, <2>1, <2>2, <2>3 DEF FeedTypeOK
  <2>. QED
    BY <1>2, <1>6, <2>3, <2>4 DEF FeedNumbers
<1>. QED
  BY <1>2, <1>5, <1>6

(* No step disturbs it. *)
LEMMA NumbersStep == FeedNumbers /\ [FeedNext]_feed_vars => FeedNumbers'
<1>. SUFFICES ASSUME FeedNumbers, [FeedNext]_feed_vars PROVE FeedNumbers'
  OBVIOUS
<1>1. CASE FeedNext
  BY <1>1, BroadcastNumbers, SignalNumbers, LinkNumbers, ReceiveNumbers DEF FeedNext
<1>2. CASE UNCHANGED feed_vars
  BY <1>2 DEF feed_vars, FeedNumbers, FeedTypeOK
<1>. QED
  BY <1>1, <1>2

(* Buffer, socket, attachment and client keep their types: numbers are given *)
(* out in order and never above the events there were, and a frame without a *)
(* number is a sync_required.                                                *)
THEOREM FeedTypeCorrect == FeedSpec => []FeedTypeOK
<1>1. FeedNumbers => FeedTypeOK
  BY DEF FeedNumbers
<1>. QED
  BY InitNumbers, NumbersStep, <1>1, PTL DEF FeedSpec
=============================================================================
