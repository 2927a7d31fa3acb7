-------------------------- MODULE IdsUsers_proofs --------------------------
(***************************************************************************)
(* Proofs about two parts of a switcher that keep a list of identifiers.   *)
(*                                                                         *)
(* Claw: an invariant of one side, kept by every operation of              *)
(* ConnectionSpec, and the invariant of the claws built on it.             *)
(*                                                                         *)
(* SwitcherState: the identifiers kept since the last reset are all in the *)
(* past, so that what is saved and cleared is what was made since, and a   *)
(* load finds the quiddities it makes under the nicknames that were free.  *)
(***************************************************************************)
EXTENDS Claw, SwitcherState, Ids_proofs, FiniteSetTheorems, TLAPS

USE IdMaxAssumption

-----------------------------------------------------------------------------
(* Claw.                                                                   *)

IsMap(f) == f = [x \in DOMAIN f |-> f[x]]

(* What the operations of ConnectionSpec maintain.                         *)

SideShape(side) ==
  /\ side = [gen |-> side.gen, labels |-> side.labels, can_do |-> side.can_do,
             dynamic |-> side.dynamic, tree |-> side.tree]
  /\ IsMap(side.labels) /\ IsMap(side.can_do) /\ IsMap(side.tree)

\* The identifiers given are 1 to cur.
SideGen(side) ==
  /\ GoodIds(side.gen)
  /\ Len(side.gen.ids) = side.gen.cur
  /\ side.gen.cur <= kMaxNumOfIds

SideKeys(side) ==
  /\ DOMAIN side.labels \subseteq 1..side.gen.cur
  /\ DOMAIN side.can_do = DOMAIN side.labels
  /\ side.dynamic \subseteq DOMAIN side.labels
  /\ DOMAIN side.tree \subseteq 0..side.gen.cur

SideTree(side) ==
  /\ \A k \in DOMAIN side.tree : side.tree[k].id \in DOMAIN side.labels
  /\ \A id \in DOMAIN side.labels : \E k \in DOMAIN side.tree : side.tree[k].id = id
  /\ \A j, k \in DOMAIN side.tree : side.tree[j].id = side.tree[k].id => j = k

\* What was generated from a meta entry has its identifier as key.
SideDynamic(side) ==
  \A id \in side.dynamic : /\ id \in DOMAIN side.tree /\ side.tree[id].id = id
                           /\ side.labels[id] \notin MetaLabels

SideInv(side) ==
  /\ SideShape(side) /\ SideGen(side) /\ SideKeys(side)
  /\ SideTree(side) /\ SideDynamic(side)

-----------------------------------------------------------------------------
(* The maps.                                                               *)

\* emplace of a new key, then erase, leave the map as it was
LEMMA EraseSet ==
  ASSUME NEW f, IsMap(f), NEW k, k \notin DOMAIN f, NEW v
  PROVE  Erase(Set(f, k, v), k) = f
<1>1. DOMAIN Set(f, k, v) \ {k} = DOMAIN f
  BY DEF Set
<1>2. \A x \in DOMAIN f : Set(f, k, v)[x] = f[x]
  BY DEF Set
<1>3. Erase(Set(f, k, v), k) = [x \in DOMAIN f |-> f[x]]
  BY <1>1, <1>2 DEF Erase
<1> QED  BY <1>3 DEF IsMap

-----------------------------------------------------------------------------
(* The operations of ConnectionSpec keep the invariant of a side.          *)

\* The constructor.
LEMMA ParseGood ==
  ASSUME NEW spec, Len(spec) \in Nat, spec = [i \in 1..Len(spec) |-> spec[i]],
         Accepted(spec)
  PROVE  SideInv(Parse(spec))
<1> DEFINE n == Len(spec)
           list == [i \in 1..n |-> i]
           P == Parse(spec)
<1>1. n \in Nat /\ n <= kMaxNumOfIds /\ kMaxNumOfIds \in Nat /\ n <= IdMax
  BY DEF Accepted, kMaxNumOfIds
<1>2. list \in Seq(1..IdMax) /\ Len(list) = n
  <2>1. list \in [1..n -> 1..IdMax]
    BY <1>1
  <2> HIDE DEF list
  <2> QED  BY <1>1, <2>1
<1>3. SideGen(P)
  <2>1. P.gen = [ids |-> list, cur |-> n]
    BY DEF Parse
  <2>2. \A i \in 1..n : list[i] = i
    OBVIOUS
  <2> HIDE DEF list, P
  <2> QED  BY <1>1, <1>2, <2>1, <2>2 DEF SideGen, GoodIds
<1>4. SideShape(P)
  BY DEF SideShape, Parse, IsMap
<1>5. /\ DOMAIN P.labels = 1..n /\ DOMAIN P.can_do = 1..n /\ P.dynamic = {}
      /\ DOMAIN P.tree = 0..(n - 1) /\ P.gen.cur = n
      /\ \A k \in 0..(n - 1) : P.tree[k].id = k + 1
  BY DEF Parse
<1>6. SideKeys(P)
  BY <1>1, <1>5 DEF SideKeys
<1>7. SideTree(P)
  <2>1. \A id \in 1..n : id - 1 \in 0..(n - 1) /\ P.tree[id - 1].id = id
    BY <1>1, <1>5
  <2> HIDE DEF P
  <2> QED  BY SMTT(30), <1>1, <1>5, <2>1 DEF SideTree
<1>8. SideDynamic(P)
  BY <1>5 DEF SideDynamic
<1> QED  BY <1>3, <1>4, <1>6, <1>7, <1>8 DEF SideInv

\* The identifier of a new entry is the successor of the last one given.
LEMMA NewId ==
  ASSUME NEW side, SideInv(side), ~Full(side.gen)
  PROVE  /\ allocate_id(side.gen) = side.gen.cur + 1
         /\ side.gen.cur \in Nat
         /\ GoodIds(AfterAllocate(side.gen))
         /\ AfterAllocate(side.gen).cur = side.gen.cur + 1
         /\ Len(AfterAllocate(side.gen).ids) = side.gen.cur + 1
         /\ side.gen.cur + 1 <= kMaxNumOfIds
<1> DEFINE g == side.gen
<1>1. GoodIds(g) /\ Len(g.ids) = g.cur /\ g.cur <= kMaxNumOfIds
  BY DEF SideInv, SideGen
<1>2. g.cur \in Nat /\ kMaxNumOfIds \in Nat /\ g.ids \in Seq(1..IdMax)
  BY <1>1 DEF GoodIds, kMaxNumOfIds
<1>3. g.cur < kMaxNumOfIds
  BY <1>1, <1>2 DEF Full
<1>4. /\ allocate_id(g) = g.cur + 1
      /\ GoodIds(AfterAllocate(g))
      /\ AfterAllocate(g).cur = g.cur + 1
      /\ AfterAllocate(g).ids = Append(g.ids, g.cur + 1)
  BY <1>1, <1>3, AllocateAppends
<1>5. Len(AfterAllocate(g).ids) = g.cur + 1
  <2>1. g.cur + 1 \in 1..IdMax
    BY <1>2, <1>3 DEF kMaxNumOfIds
  <2> QED  BY <1>1, <1>2, <1>4, <2>1
<1> QED  BY <1>2, <1>3, <1>4, <1>5

\* allocate_sfid_from_meta and allocate_swid_from_meta.
LEMMA AllocateGood ==
  ASSUME NEW side, SideInv(side), ~Full(side.gen),
         NEW meta, IsMeta(side, meta),
         NEW label \in NewLabels \cup {NoLabel}, NEW shown
  PROVE  LET A == AllocateFromMeta(side, meta, label, shown)
             id == side.gen.cur + 1
         IN  /\ SideInv(A)
             /\ A.gen.cur = id
             /\ id \notin DOMAIN side.labels
             /\ DOMAIN A.labels = DOMAIN side.labels \cup {id}
             /\ A.dynamic = side.dynamic \cup {id}
             /\ \A x \in DOMAIN side.labels : A.labels[x] = side.labels[x]
<1> DEFINE A == AllocateFromMeta(side, meta, label, shown)
           id == side.gen.cur + 1
           lab == IF label = NoLabel THEN <<side.labels[meta], id>> ELSE label
           ent == [id |-> id, can_do |-> shown]
           cd == side.can_do[meta]
<1>1. /\ allocate_id(side.gen) = id /\ side.gen.cur \in Nat
      /\ GoodIds(AfterAllocate(side.gen))
      /\ AfterAllocate(side.gen).cur = id
      /\ Len(AfterAllocate(side.gen).ids) = id
      /\ id <= kMaxNumOfIds
  BY NewId
<1>2. /\ SideShape(side) /\ SideGen(side) /\ SideKeys(side) /\ SideTree(side)
      /\ SideDynamic(side)
  BY DEF SideInv
<1>3. /\ id \notin DOMAIN side.labels /\ id \notin DOMAIN side.can_do
      /\ id \notin DOMAIN side.tree /\ id \notin side.dynamic
      /\ id \in Nat /\ id \in 1..IdMax
  BY <1>1, <1>2 DEF SideKeys, kMaxNumOfIds
<1>4. /\ A.gen = AfterAllocate(side.gen)
      /\ A.labels = Set(side.labels, id, lab)
      /\ A.can_do = Set(side.can_do, id, cd)
      /\ A.dynamic = side.dynamic \cup {id}
      /\ A.tree = Set(side.tree, id, ent)
      /\ A = [gen |-> A.gen, labels |-> A.labels, can_do |-> A.can_do,
              dynamic |-> A.dynamic, tree |-> A.tree]
  BY <1>1, <1>3 DEF AllocateFromMeta, Emplace
<1>5. lab \notin MetaLabels
  BY <1>3, ClawAssumption DEF IsMeta
<1> HIDE DEF A, lab, ent, cd
<1>6. ent.id = id
  BY DEF ent
<1>7. SideShape(A)
  BY <1>4 DEF SideShape, Set, IsMap
<1>8. SideGen(A)
  BY <1>1, <1>4 DEF SideGen
<1>9. /\ DOMAIN A.labels = DOMAIN side.labels \cup {id}
      /\ DOMAIN A.can_do = DOMAIN side.can_do \cup {id}
      /\ DOMAIN A.tree = DOMAIN side.tree \cup {id}
      /\ A.labels[id] = lab /\ A.tree[id] = ent
      /\ \A x \in DOMAIN side.labels : A.labels[x] = side.labels[x]
      /\ \A x \in DOMAIN side.tree : A.tree[x] = side.tree[x]
  BY <1>3, <1>4 DEF Set
<1>10. SideKeys(A)
  <2>1. A.gen.cur = id
    BY <1>1, <1>4
  <2>2. 1..side.gen.cur \subseteq 1..id /\ 0..side.gen.cur \subseteq 0..id /\ id \in 1..id
    BY <1>1
  <2> HIDE DEF id
  <2> QED  BY <1>2, <1>3, <1>4, <1>9, <2>1, <2>2 DEF SideKeys
<1>11. SideTree(A)
  <2> HIDE DEF id
  <2>1. \A k \in DOMAIN A.tree : A.tree[k].id \in DOMAIN A.labels
    BY <1>2, <1>6, <1>9 DEF SideTree
  <2>2. \A x \in DOMAIN A.labels : \E k \in DOMAIN A.tree : A.tree[k].id = x
    BY <1>2, <1>6, <1>9 DEF SideTree
  <2>3. \A j, k \in DOMAIN A.tree : A.tree[j].id = A.tree[k].id => j = k
    BY <1>2, <1>3, <1>6, <1>9 DEF SideTree
  <2> QED  BY <2>1, <2>2, <2>3 DEF SideTree
<1>12. SideDynamic(A)
  <2> HIDE DEF id
  <2> QED  BY <1>2, <1>4, <1>5, <1>6, <1>9 DEF SideDynamic, SideKeys
<1>13. SideInv(A) /\ A.gen.cur = id
  BY <1>1, <1>4, <1>7, <1>8, <1>10, <1>11, <1>12 DEF SideInv
<1> QED  BY <1>3, <1>4, <1>9, <1>13 DEF A

\* Deallocating what was just allocated leaves the side as it was.
LEMMA DeallocateUndoes ==
  ASSUME NEW side, SideInv(side), ~Full(side.gen),
         NEW meta, NEW label, NEW shown, NEW id, id = side.gen.cur + 1
  PROVE  Content(Deallocate(AllocateFromMeta(side, meta, label, shown), id)) =
           Content(side)
<1> DEFINE A == AllocateFromMeta(side, meta, label, shown)
           lab == IF label = NoLabel THEN <<side.labels[meta], id>> ELSE label
           ent == [id |-> id, can_do |-> shown]
           cd == side.can_do[meta]
<1>1. allocate_id(side.gen) = id /\ side.gen.cur \in Nat
  BY NewId
<1>2. /\ id \notin DOMAIN side.labels /\ id \notin DOMAIN side.can_do
      /\ id \notin DOMAIN side.tree /\ id \notin side.dynamic
      /\ IsMap(side.labels) /\ IsMap(side.can_do) /\ IsMap(side.tree)
  BY <1>1 DEF SideInv, SideShape, SideKeys
<1>3. /\ A.labels = Set(side.labels, id, lab)
      /\ A.can_do = Set(side.can_do, id, cd)
      /\ A.dynamic = side.dynamic \cup {id}
      /\ A.tree = Set(side.tree, id, ent)
  BY <1>1, <1>2 DEF AllocateFromMeta, Emplace
<1> HIDE DEF A, lab, ent, cd
<1>4. /\ Erase(A.labels, id) = side.labels
      /\ Erase(A.can_do, id) = side.can_do
      /\ Erase(A.tree, id) = side.tree
  BY <1>2, <1>3, EraseSet
<1>5. A.dynamic \ {id} = side.dynamic /\ id \in A.dynamic
  BY <1>2, <1>3
<1>6. Content(Deallocate(A, id)) = Content(side)
  BY <1>4, <1>5 DEF Deallocate, GenAfterDeallocate, TreeAfterPrune, Content
<1> QED  BY <1>6 DEF A

\* deallocate_sfid_from_meta and deallocate_swid_from_meta.
LEMMA DeallocateGood ==
  ASSUME NEW side, SideInv(side), NEW id
  PROVE  LET D == Deallocate(side, id)
         IN  /\ SideInv(D)
             /\ D.gen = side.gen
             /\ D.dynamic = side.dynamic \ {id}
             /\ DOMAIN D.labels \subseteq DOMAIN side.labels
             /\ DOMAIN side.labels \ {id} \subseteq DOMAIN D.labels
             /\ \A x \in DOMAIN D.labels : D.labels[x] = side.labels[x]
<1>1. CASE id \notin side.dynamic
  BY <1>1 DEF Deallocate
<1>2. CASE id \in side.dynamic
  <2> DEFINE D == Deallocate(side, id)
  <2>1. /\ SideShape(side) /\ SideGen(side) /\ SideKeys(side) /\ SideTree(side)
        /\ SideDynamic(side)
    BY DEF SideInv
  <2>2. /\ D.gen = side.gen
        /\ D.labels = Erase(side.labels, id)
        /\ D.can_do = Erase(side.can_do, id)
        /\ D.dynamic = side.dynamic \ {id}
        /\ D.tree = Erase(side.tree, id)
        /\ D = [gen |-> D.gen, labels |-> D.labels, can_do |-> D.can_do,
                dynamic |-> D.dynamic, tree |-> D.tree]
    BY <1>2 DEF Deallocate, GenAfterDeallocate, TreeAfterPrune
  <2> HIDE DEF D
  <2>3. /\ DOMAIN D.labels = DOMAIN side.labels \ {id}
        /\ DOMAIN D.can_do = DOMAIN side.can_do \ {id}
        /\ DOMAIN D.tree = DOMAIN side.tree \ {id}
        /\ \A x \in DOMAIN D.labels : D.labels[x] = side.labels[x]
        /\ \A x \in DOMAIN D.tree : D.tree[x] = side.tree[x]
    BY <2>2 DEF Erase
  <2>4. id \in DOMAIN side.tree /\ side.tree[id].id = id
    BY <1>2, <2>1 DEF SideDynamic
  <2>5. SideShape(D)
    BY <2>2 DEF SideShape, Erase, IsMap
  <2>6. SideGen(D) /\ SideKeys(D)
    BY <2>1, <2>2, <2>3 DEF SideGen, SideKeys
  <2>7. SideTree(D)
    BY <2>1, <2>3, <2>4 DEF SideTree
  <2>8. SideDynamic(D)
    BY <2>1, <2>2, <2>3 DEF SideDynamic, SideKeys
  <2> QED  BY <2>2, <2>3, <2>5, <2>6, <2>7, <2>8 DEF SideInv, D
<1> QED  BY <1>1, <1>2

\* replace_follower_can_do and replace_writer_can_do.
LEMMA ReplaceGood ==
  ASSUME NEW side, SideInv(side), NEW id \in DOMAIN side.labels, NEW types
  PROVE  LET R == ReplaceCanDo(side, id, types)
         IN  /\ SideInv(R) /\ R.gen = side.gen /\ R.labels = side.labels
             /\ R.dynamic = side.dynamic
<1> DEFINE R == ReplaceCanDo(side, id, types)
<1>1. /\ SideShape(side) /\ SideGen(side) /\ SideKeys(side) /\ SideTree(side)
      /\ SideDynamic(side)
  BY DEF SideInv
<1>2. /\ R.gen = side.gen /\ R.labels = side.labels
      /\ R.can_do = Set(side.can_do, id, types) /\ R.dynamic = side.dynamic
      /\ R = [gen |-> R.gen, labels |-> R.labels, can_do |-> R.can_do,
              dynamic |-> R.dynamic, tree |-> R.tree]
  BY DEF ReplaceCanDo
<1>3. /\ DOMAIN R.tree = DOMAIN side.tree /\ IsMap(R.tree)
      /\ \A k \in DOMAIN side.tree : R.tree[k].id = side.tree[k].id
  BY DEF ReplaceCanDo, IsMap
<1> HIDE DEF R
<1>4. SideShape(R)
  BY <1>1, <1>2, <1>3 DEF SideShape, Set, IsMap
<1>5. SideGen(R)
  BY <1>1, <1>2 DEF SideGen
<1>6. SideKeys(R)
  <2>1. DOMAIN R.can_do = DOMAIN side.labels
    BY <1>1, <1>2 DEF SideKeys, Set
  <2> QED  BY <1>1, <1>2, <1>3, <2>1 DEF SideKeys
<1>7. SideTree(R) /\ SideDynamic(R)
  <2>1. SideTree(R)
    BY <1>1, <1>2, <1>3 DEF SideTree
  <2>2. SideDynamic(R)
    BY <1>1, <1>2, <1>3 DEF SideDynamic
  <2> QED  BY <2>1, <2>2
<1> QED  BY <1>2, <1>4, <1>5, <1>6, <1>7 DEF SideInv, R

-----------------------------------------------------------------------------
(* The claws.                                                              *)

Shape ==
  /\ follower = [q \in Quids |-> follower[q]]
  /\ writer = [q \in Quids |-> writer[q]]
  /\ shmpaths = [q \in Quids |-> shmpaths[q]]
  /\ following = [q \in Quids |-> following[q]]
  /\ trying # NotTrying => trying.quid \in Quids /\ trying.target \in Quids

Sides == \A q \in Quids : SideInv(follower[q]) /\ SideInv(writer[q])

\* A path that is outside of switcher or of a writer that once was made.
KnownPath(p, made) ==
  \/ p \in RawPaths
  \/ \E q \in Quids : \E w \in 1..made[q].gen.cur : p = <<q, w>>

KnownPaths ==
  \A q \in Quids :
    /\ \A s \in DOMAIN following[q] : KnownPath(following[q][s], writer)
    /\ \A s \in DOMAIN shmpaths[q] : KnownPath(shmpaths[q][s], writer)

Inv == Shape /\ Sides /\ DynamicConnected /\ KnownPaths

\* Nothing is connected at first.
LEMMA InitInv == Init => Inv
<1> SUFFICES ASSUME Init PROVE Inv
  OBVIOUS
<1>1. PICK f \in [Quids -> UNION {FollowerSpecs[q] : q \in Quids}],
           w \in [Quids -> UNION {WriterSpecs[q] : q \in Quids}] :
        /\ \A q \in Quids : /\ f[q] \in FollowerSpecs[q]
                            /\ w[q] \in WriterSpecs[q]
                            /\ Accepted(f[q]) /\ Accepted(w[q])
        /\ follower = [q \in Quids |-> Parse(f[q])]
        /\ writer = [q \in Quids |-> Parse(w[q])]
  BY DEF Init
<1>2. \A q \in Quids : follower[q] = Parse(f[q]) /\ writer[q] = Parse(w[q])
  BY <1>1
<1>3. shmpaths = [q \in Quids |-> << >>] /\ following = [q \in Quids |-> << >>]
      /\ trying = NotTrying
  BY DEF Init
<1>4. Shape
  BY <1>1, <1>3 DEF Shape
<1>5. ASSUME NEW q \in Quids PROVE SideInv(follower[q]) /\ SideInv(writer[q])
  <2>1. /\ Len(f[q]) \in Nat /\ f[q] = [i \in 1..Len(f[q]) |-> f[q][i]]
        /\ Len(w[q]) \in Nat /\ w[q] = [i \in 1..Len(w[q]) |-> w[q][i]]
        /\ Accepted(f[q]) /\ Accepted(w[q])
    BY <1>1, ClawAssumption
  <2>2. SideInv(Parse(f[q])) /\ SideInv(Parse(w[q]))
    BY <2>1, ParseGood
  <2> QED  BY <1>2, <2>2
<1>6. \A q \in Quids : DOMAIN shmpaths[q] = {} /\ DOMAIN following[q] = {}
  BY <1>3
<1>7. ASSUME NEW q \in Quids PROVE follower[q].dynamic = {}
  <2>1. Parse(f[q]).dynamic = {}
    BY DEF Parse
  <2> QED  BY <1>2, <2>1
<1>8. DynamicConnected
  BY <1>6, <1>7 DEF DynamicConnected
<1>9. KnownPaths
  BY <1>6 DEF KnownPaths
<1> QED  BY <1>4, <1>5, <1>8, <1>9 DEF Inv, Sides

\* A step that leaves the writers alone and gives one quiddity a side and paths
\* that agree keeps the invariant.
LEMMA FollowerStep ==
  ASSUME Inv, NEW q \in Quids, NEW side, NEW paths, NEW follows,
         SideInv(side),
         follower' = [follower EXCEPT ![q] = side],
         shmpaths' = [shmpaths EXCEPT ![q] = paths],
         following' = [following EXCEPT ![q] = follows],
         writer' = writer,
         trying' # NotTrying => trying'.quid \in Quids /\ trying'.target \in Quids,
         DOMAIN paths = DOMAIN follows,
         side.dynamic \subseteq DOMAIN follows,
         DOMAIN follows \subseteq DOMAIN side.labels,
         \A s \in DOMAIN follows : ~IsMeta(side, s),
         \A s \in DOMAIN follows : KnownPath(follows[s], writer),
         \A s \in DOMAIN paths : KnownPath(paths[s], writer)
  PROVE  Inv'
<1>1. /\ \A r \in Quids : follower'[r] = IF r = q THEN side ELSE follower[r]
      /\ \A r \in Quids : shmpaths'[r] = IF r = q THEN paths ELSE shmpaths[r]
      /\ \A r \in Quids : following'[r] = IF r = q THEN follows ELSE following[r]
  BY DEF Inv, Shape
<1>2. Shape'
  BY DEF Inv, Shape
<1>3. Sides'
  BY <1>1 DEF Inv, Sides
<1>4. DynamicConnected'
  <2> SUFFICES ASSUME NEW r \in Quids
               PROVE  /\ DOMAIN shmpaths'[r] = DOMAIN following'[r]
                      /\ follower'[r].dynamic \subseteq DOMAIN following'[r]
                      /\ DOMAIN following'[r] \subseteq DOMAIN follower'[r].labels
                      /\ \A s \in DOMAIN following'[r] : ~IsMeta(follower'[r], s)
    BY DEF DynamicConnected, IsMeta
  <2>1. CASE r = q
    BY <1>1, <2>1
  <2>2. CASE r # q
    BY <1>1, <2>2 DEF Inv, DynamicConnected
  <2> QED  BY <2>1, <2>2
<1>5. KnownPaths'
  <2> SUFFICES ASSUME NEW r \in Quids
        PROVE  /\ \A s \in DOMAIN following'[r] : KnownPath(following'[r][s], writer)
               /\ \A s \in DOMAIN shmpaths'[r] : KnownPath(shmpaths'[r][s], writer)
    BY DEF KnownPaths
  <2>1. CASE r = q
    BY <1>1, <2>1
  <2>2. CASE r # q
    BY <1>1, <2>2 DEF Inv, KnownPaths
  <2> QED  BY <2>1, <2>2
<1> QED  BY <1>2, <1>3, <1>4, <1>5 DEF Inv

\* What a claw knows of one quiddity.
LEMMA OfOne ==
  ASSUME Inv, NEW q \in Quids
  PROVE  /\ SideInv(follower[q]) /\ SideInv(writer[q])
         /\ DOMAIN shmpaths[q] = DOMAIN following[q]
         /\ follower[q].dynamic \subseteq DOMAIN following[q]
         /\ DOMAIN following[q] \subseteq DOMAIN follower[q].labels
         /\ \A s \in DOMAIN following[q] : ~IsMeta(follower[q], s)
         /\ \A s \in DOMAIN following[q] : KnownPath(following[q][s], writer)
         /\ \A s \in DOMAIN shmpaths[q] : KnownPath(shmpaths[q][s], writer)
  BY DEF Inv, Sides, DynamicConnected, KnownPaths

\* connect_raw changes nothing, or connects a follower that is allocated.
LEMMA ConnectRawCases ==
  ASSUME NEW q \in Quids, NEW sfid, NEW path, NEW ok \in BOOLEAN,
         connect_raw(q, sfid, path, ok)
  PROVE  \/ UNCHANGED <<follower, writer, shmpaths, following>>
         \/ /\ sfid \in DOMAIN follower[q].labels
            /\ IsMeta(follower[q], sfid) => ~Full(follower[q].gen)
            /\ ConnectFollower(q, sfid, path, ok, IsMeta(follower[q], sfid))
<1>1. PICK meta \in is_meta_follower(follower[q], sfid) :
        IF sfid \in DOMAIN follower[q].labels /\ ~(meta /\ Full(follower[q].gen))
          THEN ConnectFollower(q, sfid, path, ok, meta)
          ELSE UNCHANGED <<follower, writer, shmpaths, following>>
  BY DEF connect_raw
<1>2. CASE sfid \in DOMAIN follower[q].labels
  <2>1. meta = IsMeta(follower[q], sfid)
    BY <1>2 DEF is_meta_follower
  <2> QED  BY <1>1, <1>2, <2>1
<1> QED  BY <1>1, <1>2

\* The connection of a follower, whatever the callback answers.
LEMMA ConnectFollowerKeeps ==
  ASSUME Inv, NEW q \in Quids, NEW sfid, sfid \in DOMAIN follower[q].labels,
         IsMeta(follower[q], sfid) => ~Full(follower[q].gen),
         NEW path, KnownPath(path, writer), NEW ok \in BOOLEAN,
         ConnectFollower(q, sfid, path, ok, IsMeta(follower[q], sfid)),
         trying' # NotTrying => trying'.quid \in Quids /\ trying'.target \in Quids
  PROVE  Inv'
<1> DEFINE F == follower[q]
           A == AllocateFromMeta(F, sfid, NoLabel, <<>>)
           new == allocate_id(F.gen)
<1>1. sfid \in DOMAIN F.labels /\ writer' = writer
  BY DEF ConnectFollower
<1>2. /\ follower = [follower EXCEPT ![q] = F]
      /\ shmpaths = [shmpaths EXCEPT ![q] = shmpaths[q]]
      /\ following = [following EXCEPT ![q] = following[q]]
  BY DEF Inv, Shape
<1>3. CASE IsMeta(F, sfid)
  <2>2. ~Full(F.gen)
    BY <1>3
  <2>3. new = F.gen.cur + 1
    BY <2>2, NewId, OfOne
  <2>4. NoLabel \in NewLabels \cup {NoLabel}
    OBVIOUS
  <2>5. /\ SideInv(A)
        /\ new \notin DOMAIN F.labels
        /\ DOMAIN A.labels = DOMAIN F.labels \cup {new}
        /\ A.dynamic = F.dynamic \cup {new}
        /\ \A x \in DOMAIN F.labels : A.labels[x] = F.labels[x]
    <3>1. SideInv(F)
      BY OfOne
    <3>2. LET id == F.gen.cur + 1
          IN  /\ SideInv(A)
              /\ id \notin DOMAIN F.labels
              /\ DOMAIN A.labels = DOMAIN F.labels \cup {id}
              /\ A.dynamic = F.dynamic \cup {id}
              /\ \A x \in DOMAIN F.labels : A.labels[x] = F.labels[x]
      <4> HIDE DEF F
      <4> QED  BY ONLY <1>3, <2>2, <2>4, <3>1, AllocateGood
    <3> HIDE DEF A, new, F
    <3> QED  BY <2>3, <3>2
  <2> HIDE DEF A, new, F
  <2>6. CASE ok
    <3> DEFINE paths == Emplace(shmpaths[q], new, path)
               follows == Set(following[q], new, path)
    <3>1. /\ follower' = [follower EXCEPT ![q] = A]
          /\ shmpaths' = [shmpaths EXCEPT ![q] = paths]
          /\ following' = [following EXCEPT ![q] = follows]
      BY <1>3, <2>6 DEF ConnectFollower, A, new, F
    <3>2. new \notin DOMAIN shmpaths[q] /\ new \notin DOMAIN following[q]
      BY <2>5, OfOne DEF F
    <3>3. /\ DOMAIN paths = DOMAIN shmpaths[q] \cup {new}
          /\ DOMAIN follows = DOMAIN following[q] \cup {new}
          /\ paths[new] = path /\ follows[new] = path
          /\ \A s \in DOMAIN shmpaths[q] : paths[s] = shmpaths[q][s]
          /\ \A s \in DOMAIN following[q] : follows[s] = following[q][s]
      BY <3>2 DEF Emplace, Set
    <3> HIDE DEF paths, follows
    <3>4. DOMAIN paths = DOMAIN follows
      BY <3>3, OfOne
    <3>5. A.dynamic \subseteq DOMAIN follows /\ DOMAIN follows \subseteq DOMAIN A.labels
      BY <2>5, <3>3, OfOne DEF F
    <3>6. \A s \in DOMAIN follows : ~IsMeta(A, s)
      <4>1. ~IsMeta(A, new)
        BY <2>5 DEF SideInv, SideDynamic, IsMeta
      <4>2. \A s \in DOMAIN following[q] : ~IsMeta(F, s) /\ s \in DOMAIN F.labels
        BY OfOne DEF F
      <4>3. \A s \in DOMAIN following[q] : ~IsMeta(A, s)
        BY <2>5, <4>2 DEF IsMeta
      <4> QED  BY <3>3, <4>1, <4>3
    <3>7. /\ \A s \in DOMAIN follows : KnownPath(follows[s], writer)
          /\ \A s \in DOMAIN paths : KnownPath(paths[s], writer)
      BY <3>3, OfOne
    <3> QED  BY <1>1, <2>5, <3>1, <3>4, <3>5, <3>6, <3>7, FollowerStep
  <2>7. CASE ~ok
    <3> DEFINE D == Deallocate(A, new)
    <3>1. /\ follower' = [follower EXCEPT ![q] = D]
          /\ shmpaths' = [shmpaths EXCEPT ![q] = shmpaths[q]]
          /\ following' = [following EXCEPT ![q] = following[q]]
      <4>1. follower' = [follower EXCEPT ![q] = D]
        BY <1>3, <2>7 DEF ConnectFollower, AfterFailedConnect, A, new, F
      <4>2. shmpaths' = shmpaths /\ following' = following
        BY <2>7 DEF ConnectFollower
      <4> QED  BY <1>2, <4>1, <4>2
    <3>2. /\ SideInv(D) /\ D.dynamic = A.dynamic \ {new}
          /\ DOMAIN D.labels \subseteq DOMAIN A.labels
          /\ DOMAIN A.labels \ {new} \subseteq DOMAIN D.labels
          /\ \A x \in DOMAIN D.labels : D.labels[x] = A.labels[x]
      BY <2>5, DeallocateGood
    <3> HIDE DEF D
    <3>3. D.dynamic \subseteq DOMAIN following[q]
      BY <2>5, <3>2, OfOne DEF F
    <3>4. DOMAIN following[q] \subseteq DOMAIN D.labels
      BY <2>5, <3>2, OfOne DEF F
    <3>5. \A s \in DOMAIN following[q] : ~IsMeta(D, s)
      <4>1. \A s \in DOMAIN following[q] : ~IsMeta(F, s) /\ s \in DOMAIN F.labels
        BY OfOne DEF F
      <4> QED  BY <2>5, <3>2, <4>1 DEF IsMeta
    <3>6. /\ DOMAIN shmpaths[q] = DOMAIN following[q]
          /\ \A s \in DOMAIN following[q] : KnownPath(following[q][s], writer)
          /\ \A s \in DOMAIN shmpaths[q] : KnownPath(shmpaths[q][s], writer)
      BY OfOne
    <3> QED  BY <1>1, <3>1, <3>2, <3>3, <3>4, <3>5, <3>6, FollowerStep
  <2> QED  BY <2>6, <2>7
<1>4. CASE ~IsMeta(F, sfid)
  <2>1. follower' = [follower EXCEPT ![q] = F]
    BY <1>4 DEF ConnectFollower
  <2>2. CASE ok
    <3> DEFINE paths == Emplace(shmpaths[q], sfid, path)
               follows == Set(following[q], sfid, path)
    <3>1. /\ shmpaths' = [shmpaths EXCEPT ![q] = paths]
          /\ following' = [following EXCEPT ![q] = follows]
      BY <1>4, <2>2 DEF ConnectFollower
    <3>2. /\ DOMAIN paths = DOMAIN shmpaths[q] \cup {sfid}
          /\ DOMAIN follows = DOMAIN following[q] \cup {sfid}
          /\ follows[sfid] = path
          /\ sfid \notin DOMAIN shmpaths[q] => paths[sfid] = path
          /\ \A s \in DOMAIN shmpaths[q] : paths[s] = shmpaths[q][s]
          /\ \A s \in DOMAIN following[q] : s # sfid => follows[s] = following[q][s]
      BY DEF Emplace, Set
    <3> HIDE DEF paths, follows, F
    <3>3. /\ DOMAIN paths = DOMAIN follows /\ F.dynamic \subseteq DOMAIN follows
          /\ DOMAIN follows \subseteq DOMAIN F.labels
      BY <1>1, <3>2, OfOne DEF F
    <3>4. \A s \in DOMAIN follows : ~IsMeta(F, s)
      BY <1>4, <3>2, OfOne DEF F
    <3>5. \A s \in DOMAIN follows : KnownPath(follows[s], writer)
      BY <3>2, OfOne
    <3>6. \A s \in DOMAIN paths : KnownPath(paths[s], writer)
      BY <3>2, OfOne
    <3>7. SideInv(F)
      BY OfOne DEF F
    <3> QED  BY <1>1, <2>1, <3>1, <3>3, <3>4, <3>5, <3>6, <3>7, FollowerStep
  <2>3. CASE ~ok
    <3>1. shmpaths' = shmpaths /\ following' = following
      BY <2>3 DEF ConnectFollower
    <3>2. /\ shmpaths' = [shmpaths EXCEPT ![q] = shmpaths[q]]
          /\ following' = [following EXCEPT ![q] = following[q]]
      BY <1>2, <3>1
    <3> QED  BY <1>1, <2>1, <3>2, OfOne, FollowerStep
  <2> QED  BY <2>2, <2>3
<1> QED  BY <1>3, <1>4

\* connect_raw, whatever the callback answers.
LEMMA ConnectRawKeeps ==
  ASSUME Inv, NEW q \in Quids, NEW sfid, NEW path, KnownPath(path, writer),
         NEW ok \in BOOLEAN, connect_raw(q, sfid, path, ok),
         trying' # NotTrying => trying'.quid \in Quids /\ trying'.target \in Quids
  PROVE  Inv'
<1>1. CASE UNCHANGED <<follower, writer, shmpaths, following>>
  BY <1>1 DEF Inv, Shape, Sides, DynamicConnected, KnownPaths
<1>2. CASE /\ sfid \in DOMAIN follower[q].labels
           /\ IsMeta(follower[q], sfid) => ~Full(follower[q].gen)
           /\ ConnectFollower(q, sfid, path, ok, IsMeta(follower[q], sfid))
  BY <1>2, ConnectFollowerKeeps
<1> QED  BY <1>1, <1>2, ConnectRawCases

\* A step of a writer that takes no identifier back keeps the invariant.
LEMMA WriterStep ==
  ASSUME Inv, NEW q \in Quids, NEW side, SideInv(side),
         writer[q].gen.cur <= side.gen.cur,
         writer' = [writer EXCEPT ![q] = side],
         UNCHANGED <<follower, shmpaths, following, trying>>
  PROVE  Inv'
<1>1. \A r \in Quids : writer'[r] = IF r = q THEN side ELSE writer[r]
  BY DEF Inv, Shape
<1>2. Shape'
  BY DEF Inv, Shape
<1>3. Sides'
  BY <1>1 DEF Inv, Sides
<1>4. DynamicConnected'
  BY DEF Inv, DynamicConnected
<1>5. ASSUME NEW p, KnownPath(p, writer) PROVE KnownPath(p, writer')
  <2>1. CASE p \in RawPaths
    BY <2>1 DEF KnownPath
  <2>2. ASSUME NEW r \in Quids, NEW w \in 1..writer[r].gen.cur, p = <<r, w>>
        PROVE  KnownPath(p, writer')
    <3>1. writer[r].gen.cur \in Nat /\ side.gen.cur \in Nat
      BY OfOne DEF SideInv, SideGen, GoodIds
    <3>2. writer[r].gen.cur <= writer'[r].gen.cur /\ writer'[r].gen.cur \in Nat
      BY <1>1, <3>1
    <3>3. w \in 1..writer'[r].gen.cur
      BY <3>1, <3>2
    <3> QED  BY <2>2, <3>3 DEF KnownPath
  <2> QED  BY <1>5, <2>1, <2>2 DEF KnownPath
<1>6. KnownPaths'
  BY <1>5 DEF Inv, KnownPaths
<1> QED  BY <1>2, <1>3, <1>4, <1>6 DEF Inv

\* connect_quid, alone or from try_connect.
LEMMA ConnectQuidKeeps ==
  ASSUME Inv, NEW q \in Quids, NEW sfid, NEW target \in Quids,
         NEW ok \in BOOLEAN, ConnectQuid(q, sfid, target, ok),
         trying' # NotTrying => trying'.quid \in Quids /\ trying'.target \in Quids
  PROVE  Inv'
<1> DEFINE swid == WriterFor(q, sfid, target)
<1>1. CASE CanConnectQuid(q, sfid, target)
  <2>1. HasPath(writer[target], swid)
    BY <1>1 DEF CanConnectQuid
  <2>2. KnownPath(<<target, swid>>, writer)
    BY <2>1, OfOne DEF HasPath, SideInv, SideKeys, KnownPath
  <2>3. connect_raw(q, sfid, <<target, swid>>, ok)
    BY <1>1 DEF ConnectQuid
  <2> QED  BY <2>2, <2>3, ConnectRawKeeps
<1>2. CASE ~CanConnectQuid(q, sfid, target)
  <2>1. UNCHANGED <<follower, writer, shmpaths, following>>
    BY <1>2 DEF ConnectQuid
  <2> QED  BY <2>1 DEF Inv, Shape, Sides, DynamicConnected, KnownPaths
<1> QED  BY <1>1, <1>2

\* disconnect
LEMMA DisconnectKeeps ==
  ASSUME Inv, NEW q \in Quids, NEW sfid, NEW ok, disconnect(q, sfid, ok)
  PROVE  Inv'
<1> DEFINE F == follower[q]
           D == Deallocate(F, sfid)
           paths == Erase(shmpaths[q], sfid)
           follows == Erase(following[q], sfid)
<1>1. /\ follower' = [follower EXCEPT ![q] = D]
      /\ shmpaths' = [shmpaths EXCEPT ![q] = paths]
      /\ following' = [following EXCEPT ![q] = follows]
      /\ writer' = writer /\ trying' = trying
  BY DEF disconnect, AfterDisconnect
<1>2. SideInv(F)
  BY OfOne
<1> HIDE DEF F
<1>3. /\ SideInv(D) /\ D.dynamic = F.dynamic \ {sfid}
      /\ DOMAIN D.labels \subseteq DOMAIN F.labels
      /\ DOMAIN F.labels \ {sfid} \subseteq DOMAIN D.labels
      /\ \A x \in DOMAIN D.labels : D.labels[x] = F.labels[x]
  BY <1>2, DeallocateGood
<1>4. /\ DOMAIN paths = DOMAIN shmpaths[q] \ {sfid}
      /\ DOMAIN follows = DOMAIN following[q] \ {sfid}
      /\ \A s \in DOMAIN paths : paths[s] = shmpaths[q][s]
      /\ \A s \in DOMAIN follows : follows[s] = following[q][s]
  BY DEF Erase
<1> HIDE DEF D, paths, follows
<1>5. /\ DOMAIN paths = DOMAIN follows /\ D.dynamic \subseteq DOMAIN follows
      /\ DOMAIN follows \subseteq DOMAIN D.labels
  BY <1>3, <1>4, OfOne DEF F
<1>6. \A s \in DOMAIN follows : ~IsMeta(D, s)
  <2>1. \A s \in DOMAIN following[q] : ~IsMeta(F, s) /\ s \in DOMAIN F.labels
    BY OfOne DEF F
  <2> QED  BY <1>3, <1>4, <2>1 DEF IsMeta
<1>7. /\ \A s \in DOMAIN follows : KnownPath(follows[s], writer)
      /\ \A s \in DOMAIN paths : KnownPath(paths[s], writer)
  BY <1>4, OfOne
<1>8. trying' # NotTrying => trying'.quid \in Quids /\ trying'.target \in Quids
  BY <1>1 DEF Inv, Shape
<1> QED  BY <1>1, <1>3, <1>5, <1>6, <1>7, <1>8, FollowerStep

\* replace_follower_can_do
LEMMA ReplaceKeeps ==
  ASSUME Inv, NEW q \in Quids, NEW sfid, NEW types,
         replace_follower_can_do(q, sfid, types)
  PROVE  Inv'
<1> DEFINE F == follower[q]
           R == ReplaceCanDo(F, sfid, types)
<1>1. /\ sfid \in DOMAIN F.labels
      /\ follower' = [follower EXCEPT ![q] = R]
      /\ writer' = writer /\ trying' = trying
      /\ shmpaths' = shmpaths /\ following' = following
  BY DEF replace_follower_can_do
<1>2. /\ shmpaths' = [shmpaths EXCEPT ![q] = shmpaths[q]]
      /\ following' = [following EXCEPT ![q] = following[q]]
  BY <1>1 DEF Inv, Shape
<1>3. SideInv(F)
  BY OfOne
<1> HIDE DEF F
<1>4. SideInv(R) /\ R.labels = F.labels /\ R.dynamic = F.dynamic
  BY <1>1, <1>3, ReplaceGood
<1> HIDE DEF R
<1>5. /\ DOMAIN shmpaths[q] = DOMAIN following[q]
      /\ R.dynamic \subseteq DOMAIN following[q]
      /\ DOMAIN following[q] \subseteq DOMAIN R.labels
      /\ \A s \in DOMAIN following[q] : ~IsMeta(R, s)
      /\ \A s \in DOMAIN following[q] : KnownPath(following[q][s], writer)
      /\ \A s \in DOMAIN shmpaths[q] : KnownPath(shmpaths[q][s], writer)
  BY <1>4, OfOne DEF F, IsMeta
<1>6. trying' # NotTrying => trying'.quid \in Quids /\ trying'.target \in Quids
  BY <1>1 DEF Inv, Shape
<1> QED  BY <1>1, <1>2, <1>4, <1>5, <1>6, FollowerStep

\* add_writer_to_meta gives the successor of the last identifier.
LEMMA AddWriterKeeps ==
  ASSUME Inv, NEW q \in Quids, NEW meta, NEW label \in NewLabels \cup {NoLabel},
         NEW types, add_writer_to_meta(q, meta, label, types)
  PROVE  /\ Inv'
         /\ \A r \in Quids : r # q => writer'[r] = writer[r]
         /\ DOMAIN writer'[q].labels =
              DOMAIN writer[q].labels \cup {writer[q].gen.cur + 1}
         /\ writer[q].gen.cur + 1 \in 1..IdMax
         /\ UNCHANGED <<follower, shmpaths, following, trying>>
<1> DEFINE W == writer[q]
           shown == IF types = <<>> THEN W.can_do[meta] ELSE types
           A == AllocateFromMeta(W, meta, label, shown)
<1>1. /\ IsMeta(W, meta) /\ ~Full(W.gen)
      /\ writer' = [writer EXCEPT ![q] = A]
      /\ UNCHANGED <<follower, shmpaths, following, trying>>
  BY DEF add_writer_to_meta
<1>2. SideInv(W)
  BY OfOne
<1>3. writer'[q] = A /\ \A r \in Quids : r # q => writer'[r] = writer[r]
  BY <1>1 DEF Inv, Shape
<1> HIDE DEF W, shown
<1>4. /\ SideInv(A) /\ A.gen.cur = W.gen.cur + 1
      /\ DOMAIN A.labels = DOMAIN W.labels \cup {W.gen.cur + 1}
  BY <1>1, <1>2, AllocateGood
<1>5. W.gen.cur \in Nat /\ W.gen.cur + 1 <= kMaxNumOfIds
  BY <1>1, <1>2, NewId
<1> HIDE DEF A
<1>6. W.gen.cur <= A.gen.cur /\ W.gen.cur + 1 \in 1..IdMax
  BY <1>4, <1>5 DEF kMaxNumOfIds
<1>7. Inv'
  BY <1>1, <1>4, <1>6, WriterStep DEF W
<1> QED  BY <1>1, <1>3, <1>4, <1>6, <1>7 DEF W

\* The two other operations on writers.
LEMMA RemoveWriterKeeps ==
  ASSUME Inv, NEW q \in Quids, NEW swid, remove_writer_from_meta(q, swid)
  PROVE  Inv' /\ \A r \in Quids : DOMAIN writer'[r].labels \subseteq DOMAIN writer[r].labels
<1> DEFINE W == writer[q]
           D == Deallocate(W, swid)
<1>1. /\ writer' = [writer EXCEPT ![q] = D]
      /\ UNCHANGED <<follower, shmpaths, following, trying>>
  BY DEF remove_writer_from_meta
<1>2. SideInv(W)
  BY OfOne
<1>3. \A r \in Quids : writer'[r] = IF r = q THEN D ELSE writer[r]
  BY <1>1 DEF Inv, Shape
<1> HIDE DEF W
<1>4. SideInv(D) /\ D.gen = W.gen /\ DOMAIN D.labels \subseteq DOMAIN W.labels
  BY <1>2, DeallocateGood
<1> HIDE DEF D
<1>5. W.gen.cur <= D.gen.cur
  BY <1>2, <1>4 DEF SideInv, SideGen, GoodIds
<1> QED  BY <1>1, <1>3, <1>4, <1>5, WriterStep DEF W

\* Replacing the types of a writer changes neither labels nor identifiers.
LEMMA ReplaceWriterKeeps ==
  ASSUME Inv, NEW q \in Quids, NEW swid, NEW types,
         replace_writer_can_do(q, swid, types)
  PROVE  Inv' /\ \A r \in Quids : DOMAIN writer'[r].labels \subseteq DOMAIN writer[r].labels
<1> DEFINE W == writer[q]
           R == ReplaceCanDo(W, swid, types)
<1>1. /\ writer' = [writer EXCEPT ![q] = R]
      /\ UNCHANGED <<follower, shmpaths, following, trying>>
      /\ swid \in DOMAIN W.labels
  BY DEF replace_writer_can_do
<1>2. SideInv(W)
  BY OfOne
<1>3. \A r \in Quids : writer'[r] = IF r = q THEN R ELSE writer[r]
  BY <1>1 DEF Inv, Shape
<1> HIDE DEF W
<1>4. SideInv(R) /\ R.gen = W.gen /\ R.labels = W.labels
  BY <1>1, <1>2, ReplaceGood
<1> HIDE DEF R
<1>5. W.gen.cur <= R.gen.cur
  BY <1>2, <1>4 DEF SideInv, SideGen, GoodIds
<1> QED  BY <1>1, <1>3, <1>4, <1>5, WriterStep DEF W

\* Every step keeps the invariant.
LEMMA NextInv == Inv /\ [Next]_vars => Inv'
<1> SUFFICES ASSUME Inv, [Next]_vars PROVE Inv'
  OBVIOUS
<1>0. trying # NotTrying => trying.quid \in Quids /\ trying.target \in Quids
  BY DEF Inv, Shape
<1>1. ASSUME NEW q \in Quids, NEW sfid \in Sids, NEW ok \in BOOLEAN,
             NEW path \in RawPaths, ConnectRaw(q, sfid, path, ok)
      PROVE  Inv'
  BY <1>0, <1>1, ConnectRawKeeps DEF ConnectRaw, KnownPath
<1>2. ASSUME NEW q \in Quids, NEW sfid \in Sids, NEW ok \in BOOLEAN,
             NEW target \in Quids, NEW swid \in Sids,
             connect(q, sfid, target, swid, ok)
      PROVE  Inv'
  <2>1. HasPath(writer[target], swid)
    BY <1>2 DEF connect
  <2>2. KnownPath(<<target, swid>>, writer)
    BY <2>1, OfOne DEF HasPath, SideInv, SideKeys, KnownPath
  <2>3. connect_raw(q, sfid, <<target, swid>>, ok) /\ trying' = trying
    BY <1>2 DEF connect
  <2> QED  BY <1>0, <2>2, <2>3, ConnectRawKeeps
<1>3. ASSUME NEW q \in Quids, NEW sfid \in Sids, NEW ok \in BOOLEAN,
             NEW target \in Quids, connect_quid(q, sfid, target, ok)
      PROVE  Inv'
  <2>1. ConnectQuid(q, sfid, target, ok) /\ trying' = trying
    BY <1>3 DEF connect_quid
  <2> QED  BY <1>0, <2>1, ConnectQuidKeeps
<1>4. ASSUME NEW q \in Quids, NEW sfid \in Sids, NEW ok \in BOOLEAN,
             disconnect(q, sfid, ok)
      PROVE  Inv'
  BY <1>4, DisconnectKeeps
<1>5. ASSUME NEW q \in Quids, NEW target \in Quids, try_connect(q, target)
      PROVE  Inv'
  <2>1. UNCHANGED <<follower, writer, shmpaths, following>>
    BY <1>5 DEF try_connect
  <2>2. trying'.quid = q /\ trying'.target = target
    BY <1>5 DEF try_connect
  <2> QED  BY <2>1, <2>2 DEF Inv, Shape, Sides, DynamicConnected, KnownPaths
<1>6. ASSUME NEW ok \in BOOLEAN, TryNext(ok) PROVE Inv'
  <2> DEFINE q == trying.quid
             target == trying.target
             sfid == Head(trying.sfids)
  <2>1. ConnectQuid(q, sfid, target, ok) /\ q \in Quids /\ target \in Quids
    BY <1>0, <1>6 DEF TryNext
  <2>2. trying' # NotTrying => trying'.quid = q /\ trying'.target = target
    BY <1>6 DEF TryNext
  <2> HIDE DEF q, target, sfid
  <2> QED  BY <2>1, <2>2, ConnectQuidKeeps
<1>7. ASSUME NEW q \in Quids, NEW id \in Sids, NEW label \in NewLabels \cup {NoLabel},
             NEW types \in TypeLists, add_writer_to_meta(q, id, label, types)
      PROVE  Inv'
  BY <1>7, AddWriterKeeps
<1>8. ASSUME NEW q \in Quids, NEW id \in Sids, remove_writer_from_meta(q, id)
      PROVE  Inv'
  BY <1>8, RemoveWriterKeeps
<1>9. ASSUME NEW q \in Quids, NEW id \in Sids, NEW types \in TypeLists,
             replace_follower_can_do(q, id, types)
      PROVE  Inv'
  BY <1>9, ReplaceKeeps
<1>10. ASSUME NEW q \in Quids, NEW id \in Sids, NEW types \in TypeLists,
              replace_writer_can_do(q, id, types)
       PROVE  Inv'
  BY <1>10, ReplaceWriterKeeps
<1>11. CASE UNCHANGED vars
  BY <1>11 DEF vars, Inv, Shape, Sides, DynamicConnected, KnownPaths
<1> QED
  BY <1>1, <1>2, <1>3, <1>4, <1>5, <1>6, <1>7, <1>8, <1>9, <1>10, <1>11 DEF Next

\* The inductive invariant holds in every reachable state.
THEOREM Invariance == Spec => []Inv
<1>1. Init => Inv
  BY InitInv
<1>2. Inv /\ [Next]_vars => Inv'
  BY NextInv
<1> QED  BY <1>1, <1>2, PTL DEF Spec

\* The maps and the tree of connection-spec.cpp list the same identifiers.
THEOREM SpecsAgree == Spec => []SpecAgrees
<1>1. ASSUME NEW side, SideInv(side) PROVE SideAgrees(side)
  <2> USE DEF SideInv, SideKeys, SideTree
  <2>1. DOMAIN side.can_do = DOMAIN side.labels
    BY <1>1
  <2>2. {side.tree[k].id : k \in DOMAIN side.tree} = DOMAIN side.labels
    BY <1>1
  <2>3. IsInjective([k \in DOMAIN side.tree |-> side.tree[k].id])
    BY <1>1 DEF IsInjective
  <2>4. \A id \in side.dynamic : ~IsMeta(side, id) /\ id \in DOMAIN side.tree
    BY <1>1 DEF SideDynamic, IsMeta
  <2> QED  BY <2>1, <2>2, <2>3, <2>4 DEF SideAgrees
<1>2. Inv => SpecAgrees
  BY <1>1 DEF Inv, Sides, SpecAgrees
<1> QED  BY <1>2, Invariance, PTL

\* A follower generated by connect_raw exists as long as it is connected.
THEOREM Connected == Spec => []DynamicConnected
<1>1. Inv => DynamicConnected
  BY DEF Inv
<1> QED  BY <1>1, Invariance, PTL

\* allocate_swid_from_meta never gives a path that somebody follows.
THEOREM Unfollowed == Spec => NewWriterUnfollowed
<1> DEFINE NewPath ==
      \A q \in Quids :
        \A swid \in DOMAIN writer'[q].labels \ DOMAIN writer[q].labels :
          \A r \in Quids :
            <<q, swid>> \notin Range(following[r]) \cup Range(shmpaths[r])
<1>1. Inv /\ [Next]_vars => [NewPath]_vars
  <2> SUFFICES ASSUME Inv, Next PROVE NewPath
    OBVIOUS
  <2>1. ASSUME \A q \in Quids : DOMAIN writer'[q].labels \subseteq DOMAIN writer[q].labels
        PROVE  NewPath
    BY <2>1
  <2>2. ASSUME writer' = writer PROVE NewPath
    BY <2>1, <2>2
  <2>3. ASSUME NEW q \in Quids, NEW id \in Sids, NEW label \in NewLabels \cup {NoLabel},
               NEW types \in TypeLists, add_writer_to_meta(q, id, label, types)
        PROVE  NewPath
    <3> DEFINE new == writer[q].gen.cur + 1
    <3>1. /\ \A r \in Quids : r # q => writer'[r] = writer[r]
          /\ DOMAIN writer'[q].labels = DOMAIN writer[q].labels \cup {new}
          /\ new \in 1..IdMax
      BY <2>3, AddWriterKeeps
    <3>2. writer[q].gen.cur \in Nat
      BY OfOne DEF SideInv, SideGen, GoodIds
    <3>3. ~KnownPath(<<q, new>>, writer)
      <4>1. <<q, new>> \notin RawPaths
        BY <3>1, ClawAssumption
      <4>2. ASSUME NEW p \in Quids, NEW w \in 1..writer[p].gen.cur, <<q, new>> = <<p, w>>
            PROVE  FALSE
        BY <3>2, <4>2
      <4> QED  BY <4>1, <4>2 DEF KnownPath
    <3> HIDE DEF new
    <3>4. ASSUME NEW r \in Quids
          PROVE  <<q, new>> \notin Range(following[r]) \cup Range(shmpaths[r])
      BY <3>3, OfOne DEF Range
    <3> QED  BY <3>1, <3>4
  <2>4. ASSUME NEW q \in Quids, NEW id \in Sids, remove_writer_from_meta(q, id)
        PROVE  NewPath
    BY <2>1, <2>4, RemoveWriterKeeps
  <2>5. ASSUME NEW q \in Quids, NEW id \in Sids, NEW types \in TypeLists,
               replace_writer_can_do(q, id, types)
        PROVE  NewPath
    BY <2>1, <2>5, ReplaceWriterKeeps
  <2>6. ASSUME NEW q \in Quids, NEW sfid \in Sids, NEW ok \in BOOLEAN,
               \/ \E path \in RawPaths : ConnectRaw(q, sfid, path, ok)
               \/ \E target \in Quids, swid \in Sids : connect(q, sfid, target, swid, ok)
               \/ \E target \in Quids : connect_quid(q, sfid, target, ok)
               \/ disconnect(q, sfid, ok)
        PROVE  writer' = writer
    BY <2>6 DEF ConnectRaw, connect, connect_quid, ConnectQuid, connect_raw,
                ConnectFollower, disconnect
  <2>7. ASSUME \/ \E q, target \in Quids : try_connect(q, target)
               \/ \E ok \in BOOLEAN : TryNext(ok)
               \/ \E q \in Quids, id \in Sids, types \in TypeLists :
                    replace_follower_can_do(q, id, types)
        PROVE  writer' = writer
    BY <2>7 DEF try_connect, TryNext, ConnectQuid, connect_raw, ConnectFollower,
                replace_follower_can_do
  <2> HIDE DEF NewPath
  <2> QED  BY <2>2, <2>3, <2>4, <2>5, <2>6, <2>7 DEF Next
<1> QED  BY <1>1, Invariance, PTL DEF Spec, NewWriterUnfollowed

\* A connection whose callback fails changes no side but for its identifiers.
LEMMA FailureLeavesContent ==
  ASSUME Inv, NEW q \in Quids, NEW sfid, NEW path,
         connect_raw(q, sfid, path, FALSE)
  PROVE  /\ \A r \in Quids : Content(follower'[r]) = Content(follower[r])
         /\ UNCHANGED <<writer, shmpaths, following>>
<1> DEFINE F == follower[q]
           A == AllocateFromMeta(F, sfid, NoLabel, <<>>)
           new == allocate_id(F.gen)
<1>0. CASE UNCHANGED <<follower, writer, shmpaths, following>>
  BY <1>0
<1> SUFFICES ASSUME sfid \in DOMAIN F.labels, IsMeta(F, sfid) => ~Full(F.gen),
                    ConnectFollower(q, sfid, path, FALSE, IsMeta(F, sfid))
             PROVE  /\ \A r \in Quids : Content(follower'[r]) = Content(follower[r])
                    /\ UNCHANGED <<writer, shmpaths, following>>
  BY <1>0, ConnectRawCases
<1>1. UNCHANGED <<writer, shmpaths, following>>
  BY DEF ConnectFollower
<1>2. CASE IsMeta(F, sfid)
  <2>1. follower' = [follower EXCEPT ![q] = Deallocate(A, new)]
    BY <1>2 DEF ConnectFollower, AfterFailedConnect
  <2>2. ~Full(F.gen)
    BY <1>2
  <2>3. SideInv(F) /\ NoLabel \in NewLabels \cup {NoLabel}
    BY OfOne
  <2>4. new = F.gen.cur + 1
    BY <2>2, <2>3, NewId
  <2>5. \A r \in Quids : follower'[r] = IF r = q THEN Deallocate(A, new) ELSE follower[r]
    BY <2>1 DEF Inv, Shape
  <2> HIDE DEF F, new
  <2>6. Content(Deallocate(A, new)) = Content(F)
    BY <2>2, <2>3, <2>4, DeallocateUndoes
  <2> HIDE DEF A
  <2> QED  BY <1>1, <2>5, <2>6 DEF F
<1>3. CASE ~IsMeta(F, sfid)
  <2>1. follower' = [follower EXCEPT ![q] = F]
    BY <1>3 DEF ConnectFollower
  <2>2. \A r \in Quids : follower'[r] = follower[r]
    BY <2>1 DEF Inv, Shape
  <2> QED  BY <1>1, <2>2
<1> QED  BY <1>2, <1>3

\* try_connect leaves nothing behind of the followers it could not connect.
THEOREM NoTrace == Spec => FailedTryLeavesNoTrace
<1> DEFINE Same == /\ \A q \in Quids : Content(follower'[q]) = Content(follower[q])
                   /\ UNCHANGED <<writer, shmpaths, following>>
           Goal == trying # NotTrying /\ trying' # NotTrying => Same
<1>1. Inv /\ [Next]_vars => [Goal]_vars
  <2> SUFFICES ASSUME Inv, Next, trying # NotTrying, trying' # NotTrying
               PROVE  Same
    OBVIOUS
  <2>1. PICK ok \in BOOLEAN : TryNext(ok)
    BY DEF Next, ConnectRaw, connect, connect_quid, disconnect, try_connect,
           add_writer_to_meta, remove_writer_from_meta, replace_follower_can_do,
           replace_writer_can_do
  <2> DEFINE q == trying.quid
             target == trying.target
             sfid == Head(trying.sfids)
  <2>2. q \in Quids /\ target \in Quids
    BY DEF Inv, Shape
  <2>3. /\ ConnectQuid(q, sfid, target, ok)
        /\ ~(ok /\ CanConnectQuid(q, sfid, target))
    BY <2>1 DEF TryNext
  <2> HIDE DEF q, target, sfid
  <2>4. CASE CanConnectQuid(q, sfid, target)
    <3>1. ok = FALSE
      BY <2>3, <2>4
    <3>2. connect_raw(q, sfid, <<target, WriterFor(q, sfid, target)>>, FALSE)
      BY <2>3, <2>4, <3>1 DEF ConnectQuid
    <3> QED  BY <2>2, <3>2, FailureLeavesContent
  <2>5. CASE ~CanConnectQuid(q, sfid, target)
    BY <2>3, <2>5 DEF ConnectQuid
  <2> QED  BY <2>4, <2>5
<1> QED  BY <1>1, Invariance, PTL DEF Spec, FailedTryLeavesNoTrace

-----------------------------------------------------------------------------
(* SwitcherState: lists of identifiers.                                    *)

USE StateAssumption

\* How many identifiers there are from one to another.
LEMMA IntervalSize ==
  ASSUME NEW a \in Nat, NEW n \in Nat
  PROVE  IsFiniteSet((a + 1)..(a + n)) /\ Cardinality((a + 1)..(a + n)) = n
<1>1. a + 1 \in Int /\ a + n \in Int
  OBVIOUS
<1>2. (a + 1 > a + n <=> n = 0) /\ (a + n) - (a + 1) + 1 = n
  OBVIOUS
<1> DEFINE b == a + 1
           c == a + n
<1>3. IsFiniteSet(b..c) /\ Cardinality(b..c) = IF b > c THEN 0 ELSE c - b + 1
  BY ONLY <1>1, FS_Interval
<1> QED  BY ONLY <1>2, <1>3

\* The elements of a finite set of identifiers, in order.
LEMMA InOrderFacts ==
  ASSUME NEW S, IsFiniteSet(S), NEW s \in InOrder(S)
  PROVE  /\ s \in Seq(S) /\ Len(s) = Cardinality(S) /\ Cardinality(S) \in Nat
         /\ Range(s) = S
         /\ \A i, j \in 1..Len(s) : s[i] = s[j] => i = j
<1> DEFINE n == Cardinality(S)
<1>1. n \in Nat
  BY FS_CardinalityType
<1>2. s \in [1..n -> S] /\ \A i, j \in 1..n : i # j => s[i] # s[j]
  BY DEF InOrder, SetToSeqs
<1> HIDE DEF n
<1>3. s \in Injection(1..n, S)
  BY <1>2 DEF Injection, IsInjective
<1>4. IsFiniteSet(1..n) /\ Cardinality(1..n) = n
  BY <1>1, FS_Interval
<1>5. s \in Surjection(1..n, S)
  BY <1>3, <1>4, FS_Injection DEF n
<1>6. Range(s) = S
  BY <1>2, <1>5 DEF Range, Surjection
<1>7. s \in Seq(S) /\ Len(s) = n
  BY <1>1, <1>2
<1> QED  BY <1>1, <1>2, <1>6, <1>7 DEF n

\* The identifiers of a list.
LEMMA AllocatedFacts ==
  ASSUME NEW s, GoodIds(s)
  PROVE  /\ Allocated(s) \subseteq 1..s.cur /\ s.cur \in 0..IdMax
         /\ IsFiniteSet(Allocated(s)) /\ Cardinality(Allocated(s)) <= s.cur
<1>1. s.ids \in Seq(1..IdMax) /\ s.cur \in 0..IdMax
      /\ DOMAIN s.ids = 1..Len(s.ids)
  BY LenProperties DEF GoodIds
<1>2. Allocated(s) \subseteq 1..s.cur
  <2> SUFFICES ASSUME NEW k \in 1..Len(s.ids) PROVE s.ids[k] \in 1..s.cur
    BY <1>1 DEF Allocated, Range
  <2>1. s.ids[k] \in 1..IdMax /\ s.ids[k] <= s.cur
    BY <1>1, ElementOfSeq DEF GoodIds
  <2> QED  BY <2>1, <1>1
<1>3. IsFiniteSet(1..s.cur) /\ Cardinality(1..s.cur) = s.cur
  <2>1. s.cur \in Nat /\ 0 \in Nat /\ 0 + 1 = 1 /\ 0 + s.cur = s.cur
    BY <1>1
  <2>2. IsFiniteSet((0 + 1)..(0 + s.cur)) /\ Cardinality((0 + 1)..(0 + s.cur)) = s.cur
    BY ONLY <2>1, IntervalSize
  <2> QED  BY ONLY <2>1, <2>2
<1> QED  BY <1>1, <1>2, <1>3, FS_Subset

\* Identifiers erased from a list leave a list.
LEMMA ErasedGood ==
  ASSUME NEW s, GoodIds(s), NEW S, NEW r \in InOrder(Allocated(s) \ S)
  PROVE  /\ GoodIds([s EXCEPT !.ids = r])
         /\ Allocated([s EXCEPT !.ids = r]) = Allocated(s) \ S
<1> DEFINE R == Allocated(s) \ S
<1>1. /\ R \subseteq 1..s.cur /\ s.cur \in 0..IdMax
      /\ IsFiniteSet(R) /\ Cardinality(R) <= s.cur
  <2>1. IsFiniteSet(R) /\ Cardinality(R) <= Cardinality(Allocated(s))
    BY AllocatedFacts, FS_Subset
  <2>2. Cardinality(R) \in Nat /\ Cardinality(Allocated(s)) \in Nat
    BY <2>1, AllocatedFacts, FS_CardinalityType
  <2> QED  BY <2>1, <2>2, AllocatedFacts
<1>2. /\ r \in Seq(R) /\ Len(r) = Cardinality(R) /\ Range(r) = R
      /\ \A i, j \in 1..Len(r) : r[i] = r[j] => i = j
  BY <1>1, InOrderFacts
<1> HIDE DEF R
<1>3. \A i \in 1..Len(r) : r[i] \in R
  BY <1>2, ElementOfSeq
<1>4. r \in Seq(1..IdMax)
  <2>1. R \subseteq 1..IdMax
    BY <1>1
  <2> QED  BY <2>1, <1>2, SeqMonotonic
<1>5. [s EXCEPT !.ids = r] = [ids |-> r, cur |-> s.cur]
  BY DEF GoodIds
<1>6. \A i \in 1..Len(r) : r[i] <= s.cur
  <2>1. \A x \in 1..s.cur : x <= s.cur
    BY <1>1
  <2> QED  BY <2>1, <1>1, <1>3
<1> QED  BY <1>1, <1>2, <1>4, <1>5, <1>6 DEF GoodIds, Allocated, R

\* The identifiers that n allocations can give, the list that keeps r of them,
\* and whether there are as many.
NextIds(s, n) == (s.cur + 1)..(s.cur + n)
Extended(s, n, r) == [ids |-> s.ids \o r, cur |-> s.cur + n]
HasRoom(s, n) == n \in Nat /\ s.cur + n <= IdMax

\* Identifiers that are given next and appended in order leave a list, as they
\* stand above those it has.
LEMMA ExtendedGood ==
  ASSUME NEW s, NEW n, NEW S, NEW r, GoodIds(s), HasRoom(s, n),
         S \in SUBSET NextIds(s, n), r \in InOrder(S)
  PROVE  /\ GoodIds(Extended(s, n, r))
         /\ Allocated(Extended(s, n, r)) = Allocated(s) \cup S
<1> USE DEF NextIds, Extended, HasRoom
<1> DEFINE t == s.ids \o r
           u == s.ids
           m == Len(s.ids)
           last == s.cur + n
<1>1. /\ u \in Seq(1..IdMax) /\ s.cur \in 0..IdMax /\ m \in Nat /\ m <= s.cur
      /\ DOMAIN u = 1..m
      /\ \A i, j \in 1..m : u[i] = u[j] => i = j
  BY LenProperties DEF GoodIds
<1>2. IsFiniteSet(S) /\ Cardinality(S) \in Nat /\ Cardinality(S) <= n
  <2>1. IsFiniteSet((s.cur + 1)..last) /\ Cardinality((s.cur + 1)..last) = n
    BY <1>1, IntervalSize
  <2>2. S \in SUBSET ((s.cur + 1)..last)
    OBVIOUS
  <2>3. IsFiniteSet(S) /\ Cardinality(S) <= Cardinality((s.cur + 1)..last)
    BY ONLY <2>1, <2>2, FS_Subset
  <2> QED  BY <2>1, <2>3, FS_CardinalityType
<1>3. /\ r \in Seq(S) /\ Len(r) = Cardinality(S) /\ Range(r) = S
      /\ \A i, j \in 1..Len(r) : r[i] = r[j] => i = j
  BY <1>2, InOrderFacts
<1>4. last \in 0..IdMax /\ S \subseteq 1..IdMax
  BY <1>1
<1>5. r \in Seq(1..IdMax) /\ DOMAIN r = 1..Len(r)
  BY <1>3, <1>4, SeqMonotonic, LenProperties
<1>6. /\ t \in Seq(1..IdMax) /\ Len(t) = m + Len(r) /\ DOMAIN t = 1..Len(t)
      /\ \A i \in 1..Len(t) : t[i] = IF i <= m THEN u[i] ELSE r[i - m]
  BY <1>1, <1>5, ConcatProperties, LenProperties
<1>7. /\ \A i \in 1..m : u[i] \in 1..s.cur
      /\ \A i \in 1..Len(r) : r[i] \in S /\ r[i] \in (s.cur + 1)..last
  <2>1. \A i \in 1..m : u[i] \in Allocated(s)
    BY <1>1 DEF Allocated, Range
  <2> QED  BY <2>1, AllocatedFacts, <1>3, ElementOfSeq
<1>8. Len(r) \in Nat /\ Len(r) <= n
  BY <1>2, <1>3
<1> HIDE DEF t, u, m
<1>9. \A i \in 1..Len(t) : \/ i \in 1..m /\ t[i] = u[i]
                           \/ i > m /\ i - m \in 1..Len(r) /\ t[i] = r[i - m]
  BY <1>1, <1>6, <1>8
<1>10. \A i \in 1..Len(t) : t[i] <= last
  BY <1>1, <1>7, <1>9
<1>11. \A i, j \in 1..Len(t) : t[i] = t[j] => i = j
  <2> SUFFICES ASSUME NEW i \in 1..Len(t), NEW j \in 1..Len(t), t[i] = t[j]
               PROVE  i = j
    OBVIOUS
  <2>a. \A a \in 1..s.cur, b \in (s.cur + 1)..last : a # b
    BY <1>1
  <2>1. CASE i \in 1..m /\ t[i] = u[i]
    <3>1. t[i] \in 1..s.cur
      BY <2>1, <1>7
    <3>2. ~(j > m /\ j - m \in 1..Len(r) /\ t[j] = r[j - m])
      BY <3>1, <2>a, <1>7
    <3>3. j \in 1..m /\ t[j] = u[j]
      BY <3>2, <1>9
    <3> QED  BY <2>1, <3>3, <1>1
  <2>2. CASE i > m /\ i - m \in 1..Len(r) /\ t[i] = r[i - m]
    <3>1. t[i] \in (s.cur + 1)..last
      BY <2>2, <1>7
    <3>2. ~(j \in 1..m /\ t[j] = u[j])
      BY <3>1, <2>a, <1>7
    <3>3. j - m \in 1..Len(r) /\ t[j] = r[j - m]
      BY <3>2, <1>9
    <3>4. i - m = j - m
      BY <2>2, <3>3, <1>3
    <3>5. i \in Nat /\ j \in Nat /\ m \in Nat
      BY <1>6, <1>8, <1>1
    <3> QED  BY ONLY <3>4, <3>5
  <2> QED  BY <2>1, <2>2, <1>9
<1>12. Range(t) = Range(u) \cup Range(r)
  <2>1. Range(t) \subseteq Range(u) \cup Range(r)
    <3>1. \A i \in 1..m : u[i] \in Range(u)
      BY <1>1 DEF Range
    <3>2. \A i \in 1..Len(r) : r[i] \in Range(r)
      BY <1>5 DEF Range
    <3>3. \A i \in 1..Len(t) : t[i] \in Range(u) \cup Range(r)
      BY ONLY <3>1, <3>2, <1>9
    <3>4. Range(t) = {t[i] : i \in 1..Len(t)}
      BY <1>6 DEF Range
    <3> QED  BY ONLY <3>3, <3>4
  <2>2. Range(u) \subseteq Range(t)
    <3>1. \A i \in 1..m : i \in DOMAIN t /\ t[i] = u[i]
      BY <1>1, <1>6, <1>8
    <3> QED  BY <3>1, <1>1 DEF Range
  <2>3. Range(r) \subseteq Range(t)
    <3> SUFFICES ASSUME NEW i \in 1..Len(r) PROVE r[i] \in Range(t)
      BY <1>5 DEF Range
    <3>1. m + i \in 1..Len(t) /\ ~(m + i <= m) /\ (m + i) - m = i
      BY <1>1, <1>6, <1>8
    <3>2. m + i \in DOMAIN t /\ t[m + i] = r[i]
      BY <3>1, <1>6
    <3> QED  BY <3>2 DEF Range
  <2> QED  BY <2>1, <2>2, <2>3
<1>13. Len(t) <= last
  BY <1>1, <1>6, <1>8
<1>14. GoodIds([ids |-> t, cur |-> last])
  BY <1>4, <1>6, <1>10, <1>11, <1>13 DEF GoodIds
<1> QED  BY <1>3, <1>12, <1>14 DEF Allocated, t, u, last

-----------------------------------------------------------------------------
(* The inductive invariant.                                                *)

\* A quiddity has all its fields.
Fields == {"nick", "kind", "value", "saved", "started", "user"}
Whole(q) == q = [field \in Fields |-> q[field]]

\* The quiddities are those that have an identifier.
QuiddityOfEach ==
  /\ GoodIds(ids) /\ ids.cur <= MaxIds
  /\ DOMAIN quids = Allocated(ids) /\ quids = [i \in DOMAIN quids |-> quids[i]]
  /\ \A i \in DOMAIN quids : Whole(quids[i])

\* What a file holds, if it parses: all quiddities it creates have a value of
\* "started" too.
Savable(s) ==
  IsFiniteSet(DOMAIN s.quiddities) /\ DOMAIN s.quiddities \subseteq DOMAIN s.started

FilesSavable == \A f \in DOMAIN files : files[f] # NoState => Savable(files[f])

\* An identifier kept since the last reset was given before, so that no
\* quiddity made later has it.
ResetIsPast ==
  /\ at_reset \subseteq 0..ids.cur
  /\ DOMAIN quids \cap at_reset = old

StateInv == QuiddityOfEach /\ FilesSavable /\ ResetIsPast

-----------------------------------------------------------------------------
(* Each step preserves it.                                                 *)

\* A switcher starts without quiddities and without files.
LEMMA StateInitInv == StateInit => StateInv
<1> SUFFICES ASSUME StateInit PROVE StateInv
  OBVIOUS
<1>1. DOMAIN << >> = {} /\ << >> = [i \in DOMAIN << >> |-> << >>[i]]
  OBVIOUS
<1>2. GoodIds(ids) /\ Allocated(ids) = {} /\ ids.cur = 0
  BY NoIdsGood DEF StateInit, NoIds, kInvalid
<1>3. QuiddityOfEach
  BY <1>1, <1>2 DEF StateInit, QuiddityOfEach
<1>4. FilesSavable
  BY <1>1 DEF StateInit, FilesSavable
<1>5. ResetIsPast
  BY <1>1 DEF StateInit, ResetIsPast
<1> QED  BY <1>3, <1>4, <1>5 DEF StateInv

\* A creation takes the identifier after the last one given, which no
\* quiddity of the last reset had; if it fails the identifier is used up.
LEMMA createInv ==
  ASSUME StateInv, NEW n, NEW k, create(n, k)
  PROVE  StateInv'
<1> DEFINE new == ids.cur + 1
<1>1. GoodIds(ids) /\ ids.cur \in Nat /\ ids.cur < MaxIds /\ new <= MaxIds
      /\ ids.cur < kMaxNumOfIds
  BY DEF StateInv, QuiddityOfEach, GoodIds, create, kMaxNumOfIds
<1>2. /\ allocate_id(ids) = new /\ new \notin Allocated(ids)
      /\ GoodIds(AfterAllocate(ids)) /\ AfterAllocate(ids).cur = new
      /\ AfterAllocate(ids).ids = Append(ids.ids, new)
      /\ Allocated(AfterAllocate(ids)) = Allocated(ids) \cup {new}
  BY <1>1, AllocateAppends, NextIsSuccessor
<1>3. /\ GoodIds(AfterReleaseLast(AfterAllocate(ids)))
      /\ AfterReleaseLast(AfterAllocate(ids)).cur = new
      /\ Allocated(AfterReleaseLast(AfterAllocate(ids))) = Allocated(ids)
  <2>1. ids.ids \in Seq(1..IdMax) /\ new \in 1..IdMax
    BY <1>1 DEF GoodIds, kMaxNumOfIds
  <2> DEFINE a == Append(ids.ids, new)
  <2>2. a # << >> /\ Len(a) = Len(ids.ids) + 1 /\ a[Len(ids.ids) + 1] = new
    BY ONLY <2>1, AppendProperties
  <2> HIDE DEF a
  <2>3. a # << >> /\ a[Len(a)] = new
    BY ONLY <2>2
  <2> DEFINE s == AfterAllocate(ids)
  <2>4. /\ GoodIds(s) /\ s.cur = new /\ s.ids # << >> /\ s.ids[Len(s.ids)] = new
        /\ Allocated(s) = Allocated(ids) \cup {new}
    BY <1>2, <2>3 DEF a
  <2> HIDE DEF s
  <2>5. /\ GoodIds(AfterReleaseLast(s)) /\ AfterReleaseLast(s).cur = s.cur
        /\ Allocated(AfterReleaseLast(s)) = Allocated(s) \ {s.ids[Len(s.ids)]}
    BY <2>4, ReleaseLastTakesLast
  <2> QED  BY <1>2, <2>4, <2>5 DEF s
<1>4. \/ n \in Nicknames /\ ids' = AfterReleaseLast(AfterAllocate(ids)) /\ quids' = quids
      \/ /\ ids' = AfterAllocate(ids)
         /\ quids' = [i \in DOMAIN quids \cup {new} |->
                        IF i = new THEN NewQuid(n, k) ELSE quids[i]]
  BY <1>2 DEF create
<1>5. QuiddityOfEach'
  <2>1. CASE quids' = quids /\ ids' = AfterReleaseLast(AfterAllocate(ids))
    BY <2>1, <1>1, <1>3 DEF StateInv, QuiddityOfEach
  <2>2. CASE /\ ids' = AfterAllocate(ids)
             /\ quids' = [i \in DOMAIN quids \cup {new} |->
                            IF i = new THEN NewQuid(n, k) ELSE quids[i]]
    <3>1. Whole(NewQuid(n, k))
      BY DEF Whole, Fields, NewQuid
    <3>2. GoodIds(ids') /\ ids'.cur <= MaxIds /\ DOMAIN quids' = Allocated(ids')
      BY <2>2, <1>1, <1>2 DEF StateInv, QuiddityOfEach
    <3>3. \A i \in DOMAIN quids' : Whole(quids'[i])
      BY <2>2, <3>1 DEF StateInv, QuiddityOfEach
    <3>4. quids' = [i \in DOMAIN quids' |-> quids'[i]]
      BY <2>2
    <3> QED  BY <3>2, <3>3, <3>4 DEF QuiddityOfEach
  <2> QED  BY <2>1, <2>2, <1>4
<1>6. FilesSavable'
  BY DEF StateInv, FilesSavable, create
<1>7. ResetIsPast'
  <2>1. ids'.cur = new /\ at_reset' = at_reset /\ old' = old
    BY <1>2, <1>3, <1>4 DEF create
  <2>2. at_reset \subseteq 0..ids.cur /\ new \notin at_reset
    BY <1>1 DEF StateInv, ResetIsPast
  <2>3. at_reset' \subseteq 0..ids'.cur
    BY <2>1, <2>2, <1>1
  <2>4. DOMAIN quids' \cap at_reset = DOMAIN quids \cap at_reset
    BY <1>4, <2>2
  <2> QED  BY <2>1, <2>3, <2>4 DEF StateInv, ResetIsPast
<1> QED  BY <1>5, <1>6, <1>7 DEF StateInv

\* The quiddities that are left keep their identifiers.
LEMMA WithoutKeeps ==
  ASSUME QuiddityOfEach, NEW S, Without(S)
  PROVE  QuiddityOfEach' /\ ids'.cur = ids.cur /\ DOMAIN quids' = DOMAIN quids \ S
<1>1. PICK rest \in InOrder(Allocated(ids) \ S) : ids' = [ids EXCEPT !.ids = rest]
  BY DEF Without
<1>2. GoodIds(ids') /\ Allocated(ids') = Allocated(ids) \ S
  BY <1>1, ErasedGood DEF QuiddityOfEach
<1>3. ids'.cur = ids.cur
  BY <1>1 DEF QuiddityOfEach, GoodIds
<1>4. quids' = [i \in DOMAIN quids \ S |-> quids[i]]
  BY DEF Without, Restrict
<1> QED  BY <1>2, <1>3, <1>4 DEF QuiddityOfEach

\* A removed quiddity leaves its identifier in quiddities_at_reset_, where it
\* is the one of no quiddity.
LEMMA removeInv ==
  ASSUME StateInv, NEW i, remove(i)
  PROVE  StateInv'
<1>1. QuiddityOfEach' /\ ids'.cur = ids.cur /\ DOMAIN quids' = DOMAIN quids \ {i}
  BY WithoutKeeps DEF remove, StateInv
<1>2. FilesSavable'
  BY DEF StateInv, FilesSavable, remove
<1>3. ResetIsPast'
  BY <1>1 DEF StateInv, ResetIsPast, remove
<1> QED  BY <1>1, <1>2, <1>3 DEF StateInv

\* An edit changes fields of a quiddity and not which quiddities there are.
LEMMA EditInv ==
  ASSUME StateInv, NEW i \in DOMAIN quids, Edit(i)
  PROVE  StateInv'
<1>1. PICK q \in Edits(quids[i]) : quids' = [quids EXCEPT ![i] = q]
  BY DEF Edit
<1>2. Whole(quids[i])
  BY DEF StateInv, QuiddityOfEach
<1>3. Whole(q)
  BY <1>2 DEF Whole, Fields, Edits
<1>4. DOMAIN quids' = DOMAIN quids
  BY <1>1
<1>5. QuiddityOfEach'
  BY <1>1, <1>3, <1>4 DEF StateInv, QuiddityOfEach, Edit
<1>6. FilesSavable'
  BY DEF StateInv, FilesSavable, Edit
<1>7. ResetIsPast'
  BY <1>4 DEF StateInv, ResetIsPast, Edit
<1> QED  BY <1>5, <1>6, <1>7 DEF StateInv

\* A reset makes the quiddities that are left the old ones.
LEMMA reset_stateInv ==
  ASSUME StateInv, NEW clear \in BOOLEAN, reset_state(clear)
  PROVE  StateInv'
<1>1. QuiddityOfEach'
  <2>1. CASE clear
    BY <2>1, WithoutKeeps DEF reset_state, StateInv
  <2>2. CASE ~clear
    BY <2>2 DEF reset_state, StateInv, QuiddityOfEach
  <2> QED  BY <2>1, <2>2
<1>2. FilesSavable'
  BY DEF StateInv, FilesSavable, reset_state
<1>3. ResetIsPast'
  <2>1. at_reset' = Allocated(ids') /\ old' = DOMAIN quids' /\ DOMAIN quids' = Allocated(ids')
    BY <1>1 DEF reset_state, QuiddityOfEach
  <2>2. Allocated(ids') \subseteq 0..ids'.cur
    <3>1. Allocated(ids') \subseteq 1..ids'.cur /\ ids'.cur \in 0..IdMax
      BY <1>1, AllocatedFacts DEF QuiddityOfEach
    <3> QED  BY <3>1
  <2> QED  BY <2>1, <2>2 DEF ResetIsPast
<1> QED  BY <1>1, <1>2, <1>3 DEF StateInv

\* The nicknames of finitely many quiddities.
LEMMA FiniteNicks ==
  ASSUME NEW qs, NEW S, IsFiniteSet(S)
  PROVE  IsFiniteSet(NicksOf(qs, S))
<1> DEFINE nick == [i \in S |-> qs[i].nick]
<1>1. nick \in Surjection(S, NicksOf(qs, S))
  BY DEF Surjection, NicksOf
<1> QED  BY <1>1, FS_Surjection

\* The started state of all quiddities is saved, and so of those that are
\* saved with their kind.
LEMMA SavedIsSavable ==
  ASSUME QuiddityOfEach
  PROVE  Savable(get_state(quids, at_reset))
<1> DEFINE created == DOMAIN quids \ at_reset
           s == get_state(quids, at_reset)
<1>1. DOMAIN s.quiddities = NicksOf(quids, created)
      /\ DOMAIN s.started = NicksOf(quids, DOMAIN quids)
  BY DEF get_state
<1>2. IsFiniteSet(created)
  BY AllocatedFacts, FS_Subset DEF QuiddityOfEach
<1>3. NicksOf(quids, created) \subseteq NicksOf(quids, DOMAIN quids)
  BY DEF NicksOf
<1> QED  BY <1>1, <1>2, <1>3, FiniteNicks DEF Savable

\* Operations on files write states that were saved, or a content of no use.
LEMMA SessionInv ==
  ASSUME StateInv, NEW name,
         \/ save_as(name) \/ write(name) \/ removeFile(name)
         \/ \E src : copy(src, name)
  PROVE  StateInv'
<1>1. QuiddityOfEach' /\ ResetIsPast'
  BY DEF StateInv, QuiddityOfEach, ResetIsPast, save_as, write, removeFile, copy
<1>a. FilesSavable' <=> \A f \in DOMAIN files' : files'[f] # NoState => Savable(files'[f])
  BY DEF FilesSavable, Savable
<1>2. ASSUME removeFile(name) PROVE FilesSavable'
  BY <1>2, <1>a DEF StateInv, FilesSavable, removeFile, Restrict
<1>3. ASSUME NEW content, Put(FileOf(name), content),
             content # NoState => Savable(content)
      PROVE  FilesSavable'
  BY <1>3, <1>a DEF StateInv, FilesSavable, Put
<1>4. ASSUME save_as(name) PROVE FilesSavable'
  BY <1>3, <1>4, SavedIsSavable DEF save_as, StateInv
<1>5. ASSUME write(name) PROVE FilesSavable'
  BY <1>3, <1>5 DEF write
<1>6. ASSUME NEW src, copy(src, name) PROVE FilesSavable'
  BY <1>3, <1>6 DEF copy, StateInv, FilesSavable
<1> QED  BY <1>1, <1>2, <1>4, <1>5, <1>6 DEF StateInv

\* What loading a state changes in a quiddity that is found.
LEMMA LoadedFacts ==
  ASSUME NEW q, Whole(q), NEW s, NEW refused
  PROVE  /\ Whole(Loaded(q, s, refused))
         /\ Loaded(q, s, refused).nick = q.nick
         /\ Loaded(q, s, refused).kind = q.kind
         /\ Loaded(q, s, refused).saved = q.saved
<1> DEFINE v == IF "value" \notin refused /\ q.nick \in DOMAIN s.properties
                  THEN s.properties[q.nick] ELSE q.value
           b == IF "started" \notin refused /\ q.nick \in DOMAIN s.started
                  THEN s.started[q.nick] ELSE q.started
           u == q.user \/ q.nick \in s.userdata
<1>1. Loaded(q, s, refused) = [q EXCEPT !.value = v, !.started = b, !.user = u]
  BY DEF Loaded
<1> HIDE DEF v, b, u
<1>2. Whole([q EXCEPT !.value = v, !.started = b, !.user = u])
  BY DEF Whole, Fields
<1> QED  BY <1>1, <1>2 DEF Whole, Fields

\* The quiddities after the creations of a load, tried with the identifiers in
\* tried, and what is found of them.
Made(s, failed) == DOMAIN s.quiddities \ (Nicknames \cup failed)
New(tried, s, failed) == {i \in DOMAIN tried : tried[i] \in Made(s, failed)}
Created(tried, s, failed) ==
  [i \in DOMAIN quids \cup New(tried, s, failed) |->
     IF i \in New(tried, s, failed) THEN NewQuid(tried[i], s.quiddities[tried[i]])
     ELSE quids[i]]

LoadedTo(qs, new, s, refused) ==
  /\ DOMAIN qs = DOMAIN quids \cup new
  /\ ids'.cur >= ids.cur /\ \A i \in new : i > ids.cur
  /\ GoodIds(ids') /\ ids'.cur <= MaxIds /\ Allocated(ids') = DOMAIN qs
  /\ \E found \in [NicksOf(qs, DOMAIN qs) -> DOMAIN qs] :
       /\ \A n \in DOMAIN found : qs[found[n]].nick = n
       /\ quids' = [i \in DOMAIN qs |->
                      IF i = found[qs[i].nick] THEN Loaded(qs[i], s, refused[i])
                                               ELSE qs[i]]

\* A load gives the next identifiers, those of failed creations left out, and
\* changes fields of the quiddities it finds.
LEMMA LoadFacts ==
  ASSUME QuiddityOfEach, NEW s, Savable(s), NEW failed, NEW refused,
         load_state(s, failed, refused)
  PROVE  \E tried \in Bijection((ids.cur + 1)..ids'.cur, DOMAIN s.quiddities) :
           LoadedTo(Created(tried, s, failed), New(tried, s, failed), s, refused)
<1> DEFINE all == DOMAIN s.quiddities
           n == Cardinality(all)
           last == ids.cur + n
<1>1. n \in Nat /\ ids.cur \in Nat /\ last <= MaxIds /\ last <= IdMax
  BY FS_CardinalityType DEF Savable, QuiddityOfEach, GoodIds, load_state, kMaxNumOfIds
<1>2. PICK tried \in Bijection((ids.cur + 1)..last, all) :
        /\ \E more \in InOrder(New(tried, s, failed)) :
             ids' = [ids |-> ids.ids \o more, cur |-> last]
        /\ LET qs == Created(tried, s, failed)
           IN  \E found \in [NicksOf(qs, DOMAIN qs) -> DOMAIN qs] :
                 /\ \A m \in DOMAIN found : qs[found[m]].nick = m
                 /\ quids' = [i \in DOMAIN qs |->
                                IF i = found[qs[i].nick]
                                  THEN Loaded(qs[i], s, refused[i])
                                  ELSE qs[i]]
  BY DEF load_state, Created, New, Made
<1> DEFINE new == New(tried, s, failed)
           qs == Created(tried, s, failed)
<1>3. DOMAIN tried = (ids.cur + 1)..last /\ new \subseteq (ids.cur + 1)..last
  BY DEF Bijection, Injection, New
<1>4. PICK more \in InOrder(new) : ids' = [ids |-> ids.ids \o more, cur |-> last]
  BY <1>2
<1>5. GoodIds(ids') /\ Allocated(ids') = Allocated(ids) \cup new /\ ids'.cur = last
  <2>1. GoodIds(ids) /\ HasRoom(ids, n)
    BY <1>1 DEF QuiddityOfEach, HasRoom
  <2>2. new \in SUBSET NextIds(ids, n)
    BY <1>3 DEF NextIds
  <2>3. more \in InOrder(new) /\ ids' = Extended(ids, n, more) /\ ids'.cur = last
    BY <1>4 DEF Extended
  <2> HIDE DEF n, new, last
  <2>4. /\ GoodIds(Extended(ids, n, more))
        /\ Allocated(Extended(ids, n, more)) = Allocated(ids) \cup new
    BY ONLY <2>1, <2>2, <2>3, ExtendedGood
  <2> QED  BY ONLY <2>3, <2>4
<1>6. DOMAIN qs = DOMAIN quids \cup new
  BY DEF Created
<1>7. \A i \in new : i > ids.cur
  BY <1>1, <1>3
<1>8. last >= ids.cur
  BY <1>1
<1>9. Allocated(ids') = DOMAIN qs
  BY <1>5, <1>6 DEF QuiddityOfEach
<1>10. tried \in Bijection((ids.cur + 1)..ids'.cur, all)
  BY <1>5
<1> HIDE DEF qs, new, last
<1> QED  BY <1>1, <1>2, <1>5, <1>6, <1>7, <1>8, <1>9, <1>10 DEF LoadedTo, qs, new

\* What a load creates was not there at the last reset.
LEMMA loadInv ==
  ASSUME StateInv, NEW name, NEW failed, NEW refused, load(name, failed, refused)
  PROVE  StateInv'
<1> DEFINE s == files[FileOf(name)]
<1>1. Savable(s) /\ load_state(s, failed, refused)
  BY DEF load, StateInv, FilesSavable
<1>2. UNCHANGED <<at_reset, files, old>>
  BY <1>1 DEF load_state
<1> HIDE DEF s
<1>3. QuiddityOfEach /\ ResetIsPast
  BY DEF StateInv
<1>4. PICK tried : LoadedTo(Created(tried, s, failed), New(tried, s, failed), s, refused)
  BY <1>1, <1>3, LoadFacts
<1> DEFINE new == New(tried, s, failed)
           qs == Created(tried, s, failed)
<1>5. \A i \in DOMAIN qs : Whole(qs[i])
  <2>1. \A n, k : Whole(NewQuid(n, k))
    BY DEF Whole, Fields, NewQuid
  <2> QED  BY <2>1, <1>3 DEF Created, QuiddityOfEach
<1>6. PICK found : quids' = [i \in DOMAIN qs |->
                               IF i = found[qs[i].nick]
                                 THEN Loaded(qs[i], s, refused[i])
                                 ELSE qs[i]]
  BY <1>4 DEF LoadedTo
<1>7. /\ DOMAIN qs = DOMAIN quids \cup new /\ \A i \in new : i > ids.cur
      /\ ids'.cur >= ids.cur /\ GoodIds(ids') /\ ids'.cur <= MaxIds
      /\ Allocated(ids') = DOMAIN qs
  BY <1>4 DEF LoadedTo
<1> HIDE DEF new, qs
<1>8. QuiddityOfEach'
  <2>1. \A i \in DOMAIN qs : Whole(quids'[i])
    BY <1>5, <1>6, LoadedFacts
  <2>2. DOMAIN quids' = DOMAIN qs /\ quids' = [i \in DOMAIN quids' |-> quids'[i]]
    BY <1>6
  <2> QED  BY <1>7, <2>1, <2>2 DEF QuiddityOfEach
<1>9. FilesSavable'
  BY <1>2 DEF StateInv, FilesSavable
<1>10. ResetIsPast'
  <2>1. ids.cur \in Nat /\ ids'.cur \in Nat
    BY <1>3, <1>7 DEF QuiddityOfEach, GoodIds
  <2>2. \A x \in 0..ids.cur : x \notin new
    BY <1>7, <2>1
  <2>3. 0..ids.cur \subseteq 0..ids'.cur
    BY <1>7, <2>1
  <2>4. DOMAIN quids' = DOMAIN quids \cup new
    BY <1>6, <1>7
  <2> QED  BY <1>2, <1>3, <2>2, <2>3, <2>4 DEF ResetIsPast
<1> QED  BY <1>8, <1>9, <1>10 DEF StateInv

\* Every step of a switcher and of its session preserves the invariant.
LEMMA StateStep == StateInv /\ [StateNext]_stateVars => StateInv'
<1> SUFFICES ASSUME StateInv, [StateNext]_stateVars PROVE StateInv'
  OBVIOUS
<1>1. CASE UNCHANGED stateVars
  BY <1>1 DEF stateVars, StateInv, QuiddityOfEach, FilesSavable, ResetIsPast
<1>2. CASE \E n \in Nicks, k \in Kinds : create(n, k)
  BY <1>2, createInv
<1>3. CASE \E i \in DOMAIN quids : remove(i) \/ Edit(i)
  BY <1>3, removeInv, EditInv
<1>4. CASE \E clear \in BOOLEAN : reset_state(clear)
  BY <1>4, reset_stateInv
<1>5. CASE \E name \in Names : save_as(name) \/ write(name) \/ removeFile(name)
  BY <1>5, SessionInv
<1>6. CASE \E src, dst \in Names : copy(src, dst)
  BY <1>6, SessionInv
<1>7. CASE \E name \in Names, failed \in SUBSET Nicks, refused \in Refusals :
             load(name, failed, refused)
  BY <1>7, loadInv
<1> QED  BY <1>1, <1>2, <1>3, <1>4, <1>5, <1>6, <1>7 DEF StateNext

\* The invariant of the states of a switcher is one.
THEOREM StateInvariance == StateSpec => []StateInv
BY StateInitInv, StateStep, PTL DEF StateSpec

\* Whatever is created, removed, loaded and reset, the quiddities made since
\* the last reset are those that are saved and cleared (switcher.cpp:82).
THEOREM CreatedAlwaysSaved == StateSpec => []CreatedIsSaved
<1>1. StateInv => CreatedIsSaved
  <2> SUFFICES ASSUME StateInv PROVE CreatedIsSaved
    OBVIOUS
  <2>1. DOMAIN quids \cap at_reset = old
    BY DEF StateInv, ResetIsPast
  <2>2. DOMAIN quids \ at_reset = DOMAIN quids \ old
    BY <2>1
  <2>3. DOMAIN get_state(quids, at_reset).quiddities = NicksOf(quids, DOMAIN quids \ at_reset)
    BY DEF get_state
  <2> QED  BY <2>1, <2>2, <2>3 DEF CreatedIsSaved
<1> QED  BY <1>1, StateInvariance, PTL

-----------------------------------------------------------------------------
(* A load restores what was saved.                                         *)

\* The quiddity saved under a nickname that only one has.
LEMMA OnlyOne ==
  ASSUME NEW qs, NEW S, NEW i \in S, i \in Nat,
         \A j \in S : qs[j].nick = qs[i].nick => j = i
  PROVE  /\ qs[i].nick \in NicksOf(qs, S)
         /\ LastOf(qs, S, qs[i].nick) = qs[i]
<1>1. {j \in S : qs[j].nick = qs[i].nick} = {i}
  OBVIOUS
<1>2. Max({i}) = i
  BY DEF Max
<1>3. LastOf(qs, S, qs[i].nick) = qs[Max({i})]
  BY <1>1 DEF LastOf
<1> QED  BY <1>2, <1>3 DEF NicksOf

\* A nickname that was free is that of the one quiddity the load creates with
\* it, which is found, and made what s says.
LEMMA FreshIsLoaded ==
  ASSUME StateInv, NEW s, Savable(s), load_state(s, {}, NoRefusal),
         NEW n \in Fresh(s)
  PROVE  \E i \in DOMAIN quids' :
           /\ i \in Nat \ at_reset
           /\ \A j \in DOMAIN quids' : quids'[j].nick = quids'[i].nick => j = i
           /\ quids'[i] = Loaded(NewQuid(n, s.quiddities[n]), s, {})
<1>1. QuiddityOfEach /\ ids.cur \in Nat
  BY DEF StateInv, QuiddityOfEach, GoodIds
<1>2. PICK tried \in Bijection((ids.cur + 1)..ids'.cur, DOMAIN s.quiddities) :
        LoadedTo(Created(tried, s, {}), New(tried, s, {}), s, NoRefusal)
  BY <1>1, LoadFacts
<1> DEFINE new == New(tried, s, {})
           qs == Created(tried, s, {})
<1>3. /\ DOMAIN qs = DOMAIN quids \cup new /\ ids'.cur \in Nat
      /\ ids'.cur <= MaxIds /\ \A j \in new : j > ids.cur
  BY <1>2 DEF LoadedTo, GoodIds
<1>4. PICK found \in [NicksOf(qs, DOMAIN qs) -> DOMAIN qs] :
        /\ \A m \in DOMAIN found : qs[found[m]].nick = m
        /\ quids' = [j \in DOMAIN qs |->
                       IF j = found[qs[j].nick] THEN Loaded(qs[j], s, NoRefusal[j])
                                                ELSE qs[j]]
  BY <1>2 DEF LoadedTo
<1>5. n \in DOMAIN s.quiddities /\ n \notin Nicknames /\ n \in Made(s, {})
  BY DEF Fresh, Made
<1>6. PICK i \in (ids.cur + 1)..ids'.cur : tried[i] = n
  BY <1>5 DEF Bijection, Surjection
<1>7. DOMAIN tried = (ids.cur + 1)..ids'.cur /\ \A j \in DOMAIN tried : tried[j] = n => j = i
  BY <1>6 DEF Bijection, Injection, IsInjective
<1>8. i \in new /\ i \in 1..MaxIds /\ i > ids.cur
  BY <1>1, <1>3, <1>5, <1>6, <1>7 DEF New
<1>9. qs[i] = NewQuid(n, s.quiddities[n])
  BY <1>6, <1>8 DEF Created
<1>10. \A j \in DOMAIN qs : Whole(qs[j])
  <2>1. \A m, k : Whole(NewQuid(m, k))
    BY DEF Whole, Fields, NewQuid
  <2> QED  BY <2>1, <1>1 DEF Created, QuiddityOfEach
<1>11. \A j \in DOMAIN qs : qs[j].nick = n => j = i
  <2> SUFFICES ASSUME NEW j \in DOMAIN qs, qs[j].nick = n PROVE j = i
    OBVIOUS
  <2>1. CASE j \in new
    <3>1. qs[j].nick = tried[j] /\ j \in DOMAIN tried
      BY <2>1 DEF Created, NewQuid, New
    <3> QED  BY <3>1, <1>7
  <2>2. CASE j \notin new
    <3>1. qs[j] = quids[j] /\ j \in DOMAIN quids
      BY <2>2, <1>3 DEF Created
    <3> QED  BY <3>1, <1>5 DEF Nicknames
  <2> QED  BY <2>1, <2>2
<1>12. i \in DOMAIN qs
  BY <1>3, <1>8
<1> HIDE DEF new, qs
<1>13. found[n] = i
  <2>1. qs[i].nick = n
    BY <1>9 DEF NewQuid
  <2>2. n \in NicksOf(qs, DOMAIN qs)
    BY <2>1, <1>12 DEF NicksOf
  <2>3. found[n] \in DOMAIN qs /\ qs[found[n]].nick = n
    BY <2>2, <1>4
  <2> QED  BY <2>3, <1>11
<1>14. \A j \in DOMAIN qs : quids'[j].nick = qs[j].nick
  BY <1>4, <1>10, LoadedFacts
<1>15. qs[i].nick = n
  BY <1>9 DEF NewQuid
<1>16. quids'[i] = Loaded(qs[i], s, {})
  <2>1. NoRefusal[i] = {}
    BY <1>8 DEF NoRefusal
  <2> QED  BY <2>1, <1>4, <1>12, <1>13, <1>15
<1>17. DOMAIN quids' = DOMAIN qs
  BY <1>4
<1>18. i \notin at_reset
  BY <1>1, <1>8 DEF StateInv, ResetIsPast
<1>19. \A j \in DOMAIN quids' : quids'[j].nick = quids'[i].nick => j = i
  BY <1>11, <1>12, <1>14, <1>15, <1>17
<1>20. i \in Nat
  BY <1>8
<1> QED  BY <1>9, <1>12, <1>16, <1>17, <1>18, <1>19, <1>20

\* A load in which nothing fails restores kinds, values, started states and
\* user data under all nicknames that were free (switcher.cpp:94, :232).
THEOREM LoadAlwaysRestores == StateSpec => LoadRestores
<1> DEFINE Restored(s, n) ==
             LET t == get_state(quids', at_reset')
             IN  /\ n \in DOMAIN t.quiddities /\ t.quiddities[n] = s.quiddities[n]
                 /\ n \in DOMAIN s.properties => t.properties[n] = s.properties[n]
                 /\ t.started[n] = s.started[n]
                 /\ n \in s.userdata <=> n \in t.userdata
<1>1. ASSUME StateInv, NEW f \in DOMAIN files, files[f] # NoState,
             load_state(files[f], {}, NoRefusal), NEW n \in Fresh(files[f])
      PROVE  Restored(files[f], n)
  <2> DEFINE s == files[f]
             t == get_state(quids', at_reset')
             all == DOMAIN quids'
             created == all \ at_reset'
             savers == {i \in all : quids'[i].saved}
             users == {i \in all : quids'[i].user}
  <2>1. Savable(s)
    BY <1>1 DEF StateInv, FilesSavable
  <2>2. PICK i \in all :
          /\ i \in Nat \ at_reset
          /\ \A j \in all : quids'[j].nick = quids'[i].nick => j = i
          /\ quids'[i] = Loaded(NewQuid(n, s.quiddities[n]), s, {})
    BY <1>1, <2>1, FreshIsLoaded
  <2>3. at_reset' = at_reset
    BY <1>1 DEF load_state
  <2>4. n \in DOMAIN s.started
    BY <1>1, <2>1 DEF Fresh, Savable
  <2> HIDE DEF s
  <2>5. /\ quids'[i].nick = n /\ quids'[i].kind = s.quiddities[n] /\ quids'[i].saved
        /\ quids'[i].started = s.started[n]
        /\ n \in DOMAIN s.properties => quids'[i].value = s.properties[n]
        /\ quids'[i].user <=> n \in s.userdata
    BY <2>2, <2>4 DEF Loaded, NewQuid
  <2>6. \A S \in SUBSET all : i \in S => /\ n \in NicksOf(quids', S)
                                        /\ LastOf(quids', S, n) = quids'[i]
    BY <2>2, <2>5, OnlyOne
  <2>7. i \in created /\ i \in savers /\ (i \in users <=> n \in s.userdata)
    BY <2>2, <2>3, <2>5
  <2>8. n \in NicksOf(quids', users) <=> i \in users
    BY <2>2, <2>5 DEF NicksOf
  <2>9. /\ t.quiddities = [m \in NicksOf(quids', created) |-> LastOf(quids', created, m).kind]
        /\ t.properties = [m \in NicksOf(quids', savers) |-> LastOf(quids', savers, m).value]
        /\ t.started = [m \in NicksOf(quids', all) |-> LastOf(quids', all, m).started]
        /\ t.userdata = NicksOf(quids', users)
    BY DEF get_state
  <2> HIDE DEF t, all, created, savers, users
  <2>10. n \in NicksOf(quids', created) /\ LastOf(quids', created, n) = quids'[i]
    BY <2>6, <2>7 DEF created
  <2>11. n \in NicksOf(quids', savers) /\ LastOf(quids', savers, n) = quids'[i]
    BY <2>6, <2>7 DEF savers
  <2>12. n \in NicksOf(quids', all) /\ LastOf(quids', all, n) = quids'[i]
    BY <2>6
  <2>13. n \in DOMAIN t.quiddities /\ t.quiddities[n] = s.quiddities[n]
    BY <2>5, <2>9, <2>10
  <2>14. n \in DOMAIN s.properties => t.properties[n] = s.properties[n]
    BY <2>5, <2>9, <2>11
  <2>15. t.started[n] = s.started[n]
    BY <2>5, <2>9, <2>12
  <2>16. n \in s.userdata <=> n \in t.userdata
    BY <2>7, <2>8, <2>9
  <2> QED  BY <2>13, <2>14, <2>15, <2>16 DEF t, s
<1>2. StateInv =>
        [\A f \in DOMAIN files :
           (files[f] # NoState /\ load_state(files[f], {}, NoRefusal)) =>
             LET s == files[f]
                 t == get_state(quids', at_reset')
             IN  \A n \in Fresh(s) :
                   /\ n \in DOMAIN t.quiddities /\ t.quiddities[n] = s.quiddities[n]
                   /\ n \in DOMAIN s.properties => t.properties[n] = s.properties[n]
                   /\ t.started[n] = s.started[n]
                   /\ n \in s.userdata <=> n \in t.userdata]_stateVars
  BY <1>1
<1> QED  BY <1>2, StateInvariance, PTL DEF LoadRestores
=============================================================================
