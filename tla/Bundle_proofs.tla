---------------------------- MODULE Bundle_proofs ----------------------------
(***************************************************************************)
(* The connections and the mirrored properties of a bundle, proved for     *)
(* every bundle: any members, pipes, writers and properties.               *)
(***************************************************************************)
EXTENDS Bundle, FunctionTheorems, FiniteSetTheorems, TLAPS

IsMap(f) == f = [x \in DOMAIN f |-> f[x]]

-----------------------------------------------------------------------------
(* The inductive invariant of the properties.                              *)

\* The bags of the members and that of the bundle are maps.
BagShapes ==
  /\ props = [m \in Members |-> props[m]] /\ counter = [m \in Members |-> counter[m]]
  /\ \A m \in Members : IsMap(props[m]) /\ DOMAIN props[m] \subseteq Props
  /\ IsMap(mirrors) /\ DOMAIN mirrors \subseteq Members \X Props

\* The bundle mirrors what it displays only: on_tree_pruned looks no further.
MirrorsDisplayed == \A mp \in DOMAIN mirrors : Displayed(mp[1], mp[2])

PropInv == BagShapes /\ MirrorsDisplayed /\ MirrorsAgree

-----------------------------------------------------------------------------
(* The inductive invariant of the connections.                             *)

WritersOf(m) == {w \in DOMAIN writers : WriterOf[w] = m}

ShmShapes ==
  /\ IsMap(writers) /\ DOMAIN writers \subseteq Writers
  /\ \A w \in DOMAIN writers : writers[w] \in Types \cup {NoCaps}
  /\ connects_to \in [Members -> SUBSET Members]
  /\ connected_to \in [Members -> SUBSET Members]
  /\ connected_shms \subseteq Members \X DOMAIN writers
  /\ conn \in [Members -> Writers \cup {NoPath}] /\ meta_first \subseteq Members
  /\ exposed \subseteq DOMAIN writers /\ \A v \in exposed : WriterOf[v] \in Exposed
  /\ regular \subseteq Members

\* The two lists of a member are that of its pipes and the empty one.
ListsSwapped ==
  \A m \in Members : \/ connects_to[m] = PipedTo[m] /\ connected_to[m] = {}
                     \/ connects_to[m] = {} /\ connected_to[m] = PipedTo[m]

\* The bundle records connections along pipes only, and every one it makes and can
\* undo; the first follower of a member that is meta is never connected itself.
Recorded ==
  /\ \A c \in connected_shms : c[1] \in PipedTo[WriterOf[c[2]]]
  /\ \A s \in meta_first : conn[s] = NoPath
  /\ ~quitting => \A s \in Members \ refused :
       conn[s] # NoPath => <<s, conn[s]>> \in connected_shms

\* A regular member has one writer at most, and its pipes are to be connected
\* exactly as long as that one has not told its caps.
RegularLists ==
  \A m \in regular :
    /\ \A v, w \in WritersOf(m) : v = w
    /\ (\A w \in WritersOf(m) : writers[w] = NoCaps) => connects_to[m] = PipedTo[m]
    /\ \A w \in WritersOf(m) : writers[w] # NoCaps => connects_to[m] = {}

\* Who is piped after a regular member only follows its writer.
Followed ==
  ~quitting => \A w \in DOMAIN writers : LET m == WriterOf[w] IN
    m \in regular /\ writers[w] # NoCaps =>
      \A s \in PipedTo[m] : PipedAfter(s) = {m} => Follows(s, w)

ShmInv == ShmShapes /\ ListsSwapped /\ Recorded /\ RegularLists /\ Followed

IInv == PropInv /\ ShmInv

USE BundleAssumption

-----------------------------------------------------------------------------
(* Mirrored properties.                                                    *)

\* A map with one entry replaced is a map on the same domain.
LEMMA ReplacedIsMap ==
  ASSUME NEW S, NEW f, f = [x \in S |-> f[x]], NEW a, NEW v, NEW g, g = [f EXCEPT ![a] = v]
  PROVE  g = [x \in S |-> g[x]]
OBVIOUS

\* The static properties of a member can be numbered, as push_parented does.
LEMMA StaticIdsType == StaticIds \in [StaticProps -> 1..Cardinality(StaticProps)]
<1>1. ExistsBijection(1..Cardinality(StaticProps), StaticProps)
  BY FS_CardinalityType
<1>2. ExistsBijection(StaticProps, 1..Cardinality(StaticProps))
  BY <1>1, Fun_ExistsBijSymmetric
<1>3. \E f \in [StaticProps -> 1..Cardinality(StaticProps)] : IsInjective(f)
  BY <1>2 DEF ExistsBijection, Bijection, Injection
<1>4. QED
  BY <1>3 DEF StaticIds

\* make_quiddities mirrors the static properties that the bundle displays.
LEMMA PropInit == Init => PropInv
<1> SUFFICES ASSUME Init PROVE PropInv
  OBVIOUS
<1>1. /\ props = [m \in Members |-> StaticIds]
      /\ counter = [m \in Members |-> Cardinality(StaticProps)]
      /\ mirrors = [mp \in StaticMirrors |-> StaticIds[mp[2]]]
  BY DEF Init
<1>2. StaticMirrors \subseteq Members \X StaticProps
  BY DEF StaticMirrors
<1>3. \A mp \in StaticMirrors : Displayed(mp[1], mp[2])
  BY DEF StaticMirrors
<1>4. ASSUME NEW m \in Members \ Grouped, NEW p \in StaticProps,
             Displayed(m, p), ParentOf[p] = NoParent
      PROVE  <<m, p>> \in StaticMirrors
  BY <1>4 DEF StaticMirrors, ParentFound
<1>5. DOMAIN StaticIds = StaticProps /\ IsMap(StaticIds)
  BY StaticIdsType DEF IsMap
<1>6. BagShapes
  BY <1>1, <1>2, <1>5 DEF BagShapes, IsMap
<1>7. MirrorsDisplayed
  BY <1>1, <1>3 DEF MirrorsDisplayed
<1>8. MirrorsAgree
  BY <1>1, <1>2, <1>4, <1>5 DEF MirrorsAgree
<1>9. QED
  BY <1>6, <1>7, <1>8 DEF PropInv

\* A member installs a property, and the handler of the bundle mirrors it.
LEMMA PushStep ==
  ASSUME PropInv, NEW m \in Members, NEW p \in Props, push(m, p)
  PROVE  PropInv'
<1> USE DEF PropInv, BagShapes, IsMap
<1>1. /\ IsMap(props'[m])
      /\ DOMAIN props'[m] = DOMAIN props[m] \cup {p} /\ props'[m][p] = counter[m] + 1
      /\ \A q \in DOMAIN props[m] : props'[m][q] = props[m][q]
      /\ \A n \in Members \ {m} : props'[n] = props[n]
  BY DEF push
<1>2. /\ props' = [n \in Members |-> props'[n]] /\ counter' = [n \in Members |-> counter'[n]]
      /\ \A n \in Members : IsMap(props'[n]) /\ DOMAIN props'[n] \subseteq Props
  <2>1. props' = [n \in Members |-> props'[n]] /\ counter' = [n \in Members |-> counter'[n]]
    <3>1. PICK v, c : props' = [props EXCEPT ![m] = v] /\ counter' = [counter EXCEPT ![m] = c]
      BY Zenon DEF push
    <3>2. QED
      BY <3>1, ReplacedIsMap
  <2>2. ASSUME NEW n \in Members PROVE IsMap(props'[n]) /\ DOMAIN props'[n] \subseteq Props
    <3>1. CASE n = m
      BY <1>1, <3>1
    <3>2. CASE n # m
      <4>1. props'[n] = props[n]
        BY <1>1, <3>2
      <4>2. QED
        BY <4>1
    <3>3. QED
      BY <3>1, <3>2
  <2>3. QED
    BY <2>1, <2>2
<1>3. <<m, p>> \notin DOMAIN mirrors
  BY DEF push, MirrorsAgree
<1>4. CASE Displayed(m, p) /\ ParentFound(m, p, DOMAIN mirrors, FALSE)
  <2>1. mirrors' = [mp \in DOMAIN mirrors \cup {<<m, p>>} |->
                      IF mp = <<m, p>> THEN counter[m] + 1 ELSE mirrors[mp]]
    BY <1>3, <1>4 DEF push
  <2>2. BagShapes'
    BY <1>2, <2>1
  <2>3. MirrorsDisplayed'
    <3>1. ASSUME NEW mp \in DOMAIN mirrors' PROVE Displayed(mp[1], mp[2])
      BY <1>4, <2>1 DEF MirrorsDisplayed
    <3>2. QED
      BY <3>1 DEF MirrorsDisplayed, Displayed
  <2>4. MirrorsAgree'
    BY <1>1, <2>1 DEF MirrorsAgree, Displayed
  <2>5. QED
    BY <2>2, <2>3, <2>4
<1>5. CASE ~(Displayed(m, p) /\ ParentFound(m, p, DOMAIN mirrors, FALSE))
  <2>1. mirrors' = mirrors
    BY <1>3, <1>5 DEF push
  <2>2. BagShapes'
    BY <1>2, <2>1
  <2>3. MirrorsDisplayed'
    BY <2>1 DEF MirrorsDisplayed, Displayed
  <2>4. ParentOf[p] = NoParent /\ m \notin Grouped => ~Displayed(m, p)
    BY <1>5 DEF ParentFound
  <2>5. MirrorsAgree'
    <3>1. ASSUME NEW mp \in DOMAIN mirrors
          PROVE  mp[2] \in DOMAIN props'[mp[1]] /\ props'[mp[1]][mp[2]] = mirrors[mp]
      <4>1. mp[1] \in Members /\ mp[2] \in DOMAIN props[mp[1]] /\ props[mp[1]][mp[2]] = mirrors[mp]
        BY DEF MirrorsAgree
      <4>2. QED
        BY <1>1, <4>1
    <3>2. ASSUME NEW n \in Members \ Grouped, NEW q \in DOMAIN props'[n],
                 Displayed(n, q), ParentOf[q] = NoParent
          PROVE  <<n, q>> \in DOMAIN mirrors
      <4>1. <<n, q>> # <<m, p>>
        BY <2>4, <3>2
      <4>2. q \in DOMAIN props[n]
        BY <1>1, <3>2, <4>1
      <4>3. QED
        BY <3>2, <4>2 DEF MirrorsAgree
    <3>3. QED
      BY <2>1, <3>1, <3>2 DEF MirrorsAgree, Displayed
  <2>6. QED
    BY <2>2, <2>3, <2>5
<1>6. QED
  BY <1>4, <1>5

\* A member removes a property: the mirror, if any, goes first.
LEMMA RemoveStep ==
  ASSUME PropInv, NEW m \in Members, NEW p \in Props, remove(m, p)
  PROVE  PropInv'
<1> USE DEF PropInv, BagShapes, IsMap
<1>1. /\ IsMap(props'[m])
      /\ DOMAIN props'[m] = DOMAIN props[m] \ {p}
      /\ \A q \in DOMAIN props[m] \ {p} : props'[m][q] = props[m][q]
      /\ \A n \in Members \ {m} : props'[n] = props[n]
  BY DEF remove, Restrict
<1>2. /\ IsMap(mirrors') /\ DOMAIN mirrors' = DOMAIN mirrors \ {<<m, p>>}
      /\ \A mp \in DOMAIN mirrors' : mirrors'[mp] = mirrors[mp]
  <2>1. CASE Displayed(m, p)
    <3>1. mirrors' = [mp \in DOMAIN mirrors \ {<<m, p>>} |-> mirrors[mp]]
      BY <2>1 DEF remove, MirrorsWithout, Restrict
    <3>2. QED
      BY <3>1
  <2>2. CASE ~Displayed(m, p)
    <3>1. mirrors' = mirrors
      BY <2>2 DEF remove, MirrorsWithout
    <3>2. <<m, p>> \notin DOMAIN mirrors
      BY <2>2 DEF MirrorsDisplayed
    <3>3. DOMAIN mirrors = DOMAIN mirrors \ {<<m, p>>}
      BY <3>2
    <3>4. IsMap(mirrors)
      OBVIOUS
    <3>5. QED
      BY ONLY <3>1, <3>3, <3>4 DEF IsMap
  <2>3. QED
    BY <2>1, <2>2
<1>3. BagShapes'
  <2>1. props' = [n \in Members |-> props'[n]] /\ counter' = [n \in Members |-> counter'[n]]
    <3>1. PICK v : props' = [props EXCEPT ![m] = v]
      BY Zenon DEF remove
    <3>2. counter' = counter /\ counter = [n \in Members |-> counter[n]]
      BY DEF remove
    <3>3. props' = [n \in Members |-> props'[n]]
      BY <3>1, ReplacedIsMap
    <3>4. QED
      BY <3>2, <3>3
  <2>2. \A n \in Members : IsMap(props'[n]) /\ DOMAIN props'[n] \subseteq Props
    BY <1>1
  <2>3. QED
    BY <1>2, <2>1, <2>2
<1>4. MirrorsDisplayed'
  BY <1>2 DEF MirrorsDisplayed, Displayed
<1>5. MirrorsAgree'
  BY <1>1, <1>2 DEF MirrorsAgree, Displayed
<1>6. QED
  BY <1>3, <1>4, <1>5

\* No other step touches a property.
LEMMA PropStep == PropInv /\ [Next]_vars => PropInv'
<1> SUFFICES ASSUME PropInv, [Next]_vars PROVE PropInv'
  OBVIOUS
<1>1. CASE UNCHANGED propVars
  BY <1>1 DEF PropInv, BagShapes, IsMap, MirrorsDisplayed, MirrorsAgree, Displayed, propVars
<1>2. QED
  BY <1>1, PushStep, RemoveStep
     DEF Next, vars, MakeWriter, StatGrafted, WriterPruned, CapsKnown, SetStarted, Quit

-----------------------------------------------------------------------------
(* Connections.                                                            *)

\* Before any writer there is nothing to follow.
LEMMA ShmInit == Init => ShmInv
<1> SUFFICES ASSUME Init PROVE ShmInv
  OBVIOUS
<1>1. IsMap(writers) /\ DOMAIN writers = {}
  BY DEF Init, IsMap
<1>2. ShmShapes
  BY <1>1 DEF Init, ShmShapes
<1>3. ListsSwapped /\ Recorded
  BY <1>2 DEF Init, ListsSwapped, Recorded, ShmShapes
<1>4. RegularLists /\ Followed
  BY <1>1 DEF Init, RegularLists, Followed, WritersOf
<1>5. QED
  BY <1>2, <1>3, <1>4 DEF ShmInv

\* A new writer has no caps: it changes nothing but what is regular.
LEMMA MakeWriterStep ==
  ASSUME ShmInv, NEW w \in Writers, MakeWriter(w)
  PROVE  ShmInv'
<1> DEFINE m == WriterOf[w]
<1>1. ShmShapes /\ ListsSwapped /\ Recorded /\ RegularLists /\ Followed /\ m \in Members
  BY DEF ShmInv
<1>2. /\ IsMap(writers') /\ DOMAIN writers' = DOMAIN writers \cup {w}
      /\ writers'[w] = NoCaps /\ w \notin DOMAIN writers
      /\ \A v \in DOMAIN writers : writers'[v] = writers[v]
  BY DEF MakeWriter, IsMap
<1>3. /\ UNCHANGED <<connects_to, connected_to, connected_shms, meta_first, conn, generated,
                      exposed, refused, quitting>>
      /\ regular' \subseteq regular
      /\ m \in regular' => \A v \in DOMAIN writers : WriterOf[v] # m
  BY <1>2 DEF MakeWriter, Irregular
<1>4. ShmShapes'
  BY <1>1, <1>2, <1>3 DEF ShmShapes
<1>5. (ListsSwapped /\ Recorded)'
  BY <1>1, <1>3 DEF ListsSwapped, Recorded
<1>6. RegularLists'
  <2>1. SUFFICES ASSUME NEW n \in regular'
        PROVE  /\ \A v, u \in WritersOf(n)' : v = u
               /\ (\A v \in WritersOf(n)' : writers'[v] = NoCaps) => connects_to[n] = PipedTo[n]
               /\ \A v \in WritersOf(n)' : writers'[v] # NoCaps => connects_to[n] = {}
    BY <1>3 DEF RegularLists, WritersOf
  <2>2. n \in regular
    BY <1>3
  <2>3. CASE n = m
    BY <1>1, <1>2, <1>3, <2>2, <2>3 DEF RegularLists, WritersOf
  <2>4. CASE n # m
    <3>1. WritersOf(n)' = WritersOf(n) /\ \A v \in WritersOf(n) : writers'[v] = writers[v]
      BY <1>2, <2>4 DEF WritersOf
    <3>2. /\ \A v, u \in WritersOf(n) : v = u
          /\ (\A v \in WritersOf(n) : writers[v] = NoCaps) => connects_to[n] = PipedTo[n]
          /\ \A v \in WritersOf(n) : writers[v] # NoCaps => connects_to[n] = {}
      BY <1>1, <2>2 DEF RegularLists
    <3>3. QED
      BY <3>1, <3>2
  <2>5. QED
    BY <2>3, <2>4
<1>7. Followed'
  BY <1>1, <1>2, <1>3 DEF Followed, Follows, PipedAfter
<1>8. QED
  BY <1>4, <1>5, <1>6, <1>7 DEF ShmInv

\* The handler of a graft: the pipes are connected as a whole, or nothing is.
LEMMA GraftedStep ==
  ASSUME ShmInv, NEW w \in DOMAIN writers, NEW caps \in Types \cup {NoCaps},
         ~quitting, UNCHANGED <<quitting, meta_first>>, Grafted(w, caps),
         IsMap(writers'), DOMAIN writers' = DOMAIN writers, writers'[w] = caps,
         writers[w] \in {NoCaps, caps},
         \A v \in DOMAIN writers \ {w} : writers'[v] = writers[v]
  PROVE  ShmInv'
<1> DEFINE m == WriterOf[w]
           reads == {s \in connects_to[m] : caps \in CanDo[s]}
<1>1. ShmShapes /\ ListsSwapped /\ Recorded /\ RegularLists /\ Followed
  BY DEF ShmInv
<1>2. w \in Writers /\ m \in Members
  BY <1>1 DEF ShmShapes
<1>3. \A n \in Members : WritersOf(n)' = WritersOf(n)
  BY DEF WritersOf
<1>4. exposed' \subseteq DOMAIN writers' /\ \A v \in exposed' : WriterOf[v] \in Exposed
  BY <1>1 DEF Grafted, ShmShapes
<1>5. CASE connects_to[m] # {} /\ caps # NoCaps
  <2>1. PICK ok \in SUBSET reads :
          /\ conn' = [s \in Members |-> IF s \in ok \ meta_first THEN w ELSE conn[s]]
          /\ generated' = generated \cup ((ok \cap meta_first) \X {w})
          /\ refused' = refused \ ok
          /\ regular' = IF ok = connects_to[m] THEN regular ELSE regular \ {m}
    BY <1>5 DEF Grafted, Connected
  <2>2. SwapLists(m) /\ connected_shms' = connected_shms \cup (reads \X {w})
    BY <1>5 DEF Grafted
  <2>3. connects_to[m] = PipedTo[m] /\ connected_to[m] = {}
    BY <1>1, <1>2, <1>5 DEF ListsSwapped
  <2>4. /\ connects_to' \in [Members -> SUBSET Members]
        /\ connected_to' \in [Members -> SUBSET Members]
        /\ connects_to'[m] = {} /\ connected_to'[m] = PipedTo[m]
        /\ \A n \in Members \ {m} :
             connects_to'[n] = connects_to[n] /\ connected_to'[n] = connected_to[n]
    BY <1>1, <1>2, <2>2, <2>3 DEF SwapLists, ShmShapes
  <2>5. reads \subseteq Members
    BY <1>1, <1>2 DEF ShmShapes
  <2>6. ShmShapes'
    <3>1. \A v \in DOMAIN writers' : writers'[v] \in Types \cup {NoCaps}
      BY <1>1 DEF ShmShapes
    <3>2. conn' \in [Members -> Writers \cup {NoPath}] /\ regular' \subseteq Members
      BY <1>1, <1>2, <2>1 DEF ShmShapes
    <3>3. connected_shms' \subseteq Members \X DOMAIN writers'
      BY <1>1, <2>2, <2>5 DEF ShmShapes
    <3>4. QED
      BY <1>1, <1>4, <2>4, <3>1, <3>2, <3>3 DEF ShmShapes
  <2>7. ListsSwapped'
    BY <1>1, <2>4 DEF ListsSwapped
  <2>8. Recorded'
    <3>1. \A c \in connected_shms' : c[1] \in PipedTo[WriterOf[c[2]]]
      BY <1>1, <2>2, <2>3 DEF Recorded
    <3>2. ASSUME NEW s \in Members, s \notin refused', conn'[s] # NoPath
          PROVE  <<s, conn'[s]>> \in connected_shms'
      <4>1. CASE s \in ok \ meta_first
        BY <2>1, <2>2, <4>1
      <4>2. CASE s \notin ok \/ s \in meta_first
        <5>1. conn'[s] = conn[s]
          BY <2>1, <4>2
        <5>2. s \notin refused
          BY <1>1, <2>1, <3>2, <4>2, <5>1 DEF Recorded
        <5>3. QED
          BY <1>1, <2>2, <3>2, <5>1, <5>2 DEF Recorded
      <4>3. QED
        BY <4>1, <4>2
    <3>3. \A s \in meta_first : conn'[s] = NoPath
      BY <1>1, <2>1 DEF Recorded, ShmShapes
    <3>4. QED
      BY <3>1, <3>2, <3>3 DEF Recorded
  <2>9. RegularLists'
    <3>1. SUFFICES ASSUME NEW n \in regular'
          PROVE  /\ \A u, v \in WritersOf(n) : u = v
                 /\ (\A v \in WritersOf(n) : writers'[v] = NoCaps) => connects_to'[n] = PipedTo[n]
                 /\ \A v \in WritersOf(n) : writers'[v] # NoCaps => connects_to'[n] = {}
      BY <1>3, <2>6 DEF RegularLists, ShmShapes
    <3>2. n \in regular /\ n \in Members
      BY <1>1, <2>1 DEF ShmShapes
    <3>3. \A u, v \in WritersOf(n) : u = v
      BY <1>1, <3>2 DEF RegularLists
    <3>4. CASE n = m
      <4>1. w \in WritersOf(m)
        BY DEF WritersOf
      <4>2. connects_to'[n] = {} /\ w \in WritersOf(n) /\ writers'[w] # NoCaps
        BY <1>5, <2>4, <3>4, <4>1
      <4>3. QED
        BY <3>3, <4>2
    <3>5. CASE n # m
      <4>1. \A v \in WritersOf(n) : writers'[v] = writers[v]
        BY <3>5 DEF WritersOf
      <4>2. connects_to'[n] = connects_to[n]
        BY <2>4, <3>2, <3>5
      <4>3. /\ (\A v \in WritersOf(n) : writers[v] = NoCaps) => connects_to[n] = PipedTo[n]
            /\ \A v \in WritersOf(n) : writers[v] # NoCaps => connects_to[n] = {}
        BY <1>1, <3>2 DEF RegularLists
      <4>4. QED
        BY <3>3, <4>1, <4>2, <4>3
    <3>6. QED
      BY <3>4, <3>5
  <2>10. Followed'
    <3>1. SUFFICES ASSUME NEW v \in DOMAIN writers, WriterOf[v] \in regular', writers'[v] # NoCaps,
                          NEW s \in PipedTo[WriterOf[v]], PipedAfter(s) = {WriterOf[v]}
          PROVE  Follows(s, v)'
      BY DEF Followed, PipedAfter
    <3>2. v \in Writers /\ WriterOf[v] \in regular /\ WriterOf[v] \in Members /\ s \in Members
      BY <1>1, <2>1, <3>1 DEF ShmShapes
    <3>3. CASE WriterOf[v] = m
      <4>1. v = w
        BY <1>1, <3>2, <3>3 DEF RegularLists, WritersOf
      <4>2. s \in ok
        BY <2>1, <2>3, <3>1, <3>3
      <4>3. QED
        BY <2>1, <3>2, <4>1, <4>2 DEF Follows
    <3>4. CASE WriterOf[v] # m
      <4>1. s \notin PipedTo[m]
        BY <1>2, <3>1, <3>4 DEF PipedAfter
      <4>2. conn'[s] = conn[s] /\ generated \subseteq generated'
        BY <2>1, <2>3, <3>2, <4>1
      <4>3. Follows(s, v)
        BY <1>1, <2>1, <3>1, <3>2, <3>4 DEF Followed
      <4>4. QED
        BY <4>2, <4>3 DEF Follows
    <3>5. QED
      BY <3>3, <3>4
  <2>11. QED
    BY <2>6, <2>7, <2>8, <2>9, <2>10 DEF ShmInv
<1>6. CASE ~(connects_to[m] # {} /\ caps # NoCaps)
  <2>1. UNCHANGED <<connects_to, connected_to, connected_shms, conn, generated, regular, refused>>
    BY <1>6 DEF Grafted
  <2>2. ShmShapes'
    BY <1>1, <1>4, <2>1 DEF ShmShapes
  <2>3. (ListsSwapped /\ Recorded)'
    BY <1>1, <2>1 DEF ListsSwapped, Recorded
  <2>4. m \in regular /\ writers'[w] # writers[w] => PipedTo[m] = {} /\ connects_to[m] = {}
    <3>1. SUFFICES ASSUME m \in regular, caps # NoCaps, writers[w] = NoCaps
          PROVE  PipedTo[m] = {} /\ connects_to[m] = {}
      OBVIOUS
    <3>2. connects_to[m] = {}
      BY <1>6, <3>1
    <3>3. \A v \in WritersOf(m) : writers[v] = NoCaps
      BY <1>1, <3>1 DEF RegularLists, WritersOf
    <3>4. QED
      BY <1>1, <3>1, <3>2, <3>3 DEF RegularLists
  <2>5. RegularLists'
    <3>1. SUFFICES ASSUME NEW n \in regular
          PROVE  /\ \A u, v \in WritersOf(n) : u = v
                 /\ (\A v \in WritersOf(n) : writers'[v] = NoCaps) => connects_to[n] = PipedTo[n]
                 /\ \A v \in WritersOf(n) : writers'[v] # NoCaps => connects_to[n] = {}
      BY <1>1, <1>3, <2>1 DEF RegularLists, ShmShapes
    <3>2. CASE n = m
      BY <1>1, <2>4, <3>2 DEF RegularLists, WritersOf
    <3>3. CASE n # m
      BY <1>1, <3>3 DEF RegularLists, WritersOf
    <3>4. QED
      BY <3>2, <3>3
  <2>6. Followed'
    <3>1. SUFFICES ASSUME NEW v \in DOMAIN writers, WriterOf[v] \in regular, writers'[v] # NoCaps,
                          NEW s \in PipedTo[WriterOf[v]], PipedAfter(s) = {WriterOf[v]}
          PROVE  Follows(s, v)
      BY <2>1 DEF Followed, Follows, PipedAfter
    <3>2. writers[v] = writers'[v]
      BY <2>4, <3>1
    <3>3. QED
      BY <1>1, <3>1, <3>2 DEF Followed
  <2>7. QED
    BY <2>2, <2>3, <2>5, <2>6 DEF ShmInv
<1>7. QED
  BY <1>5, <1>6

\* The handler of a prune: what was recorded with the writer is disconnected.
LEMMA WriterPrunedStep ==
  ASSUME ShmInv, NEW w \in Writers, WriterPruned(w)
  PROVE  ShmInv'
<1> DEFINE m == WriterOf[w]
<1>1. ShmShapes /\ ListsSwapped /\ Recorded /\ RegularLists /\ Followed /\ m \in Members
  BY DEF ShmInv
<1>2. /\ IsMap(writers') /\ DOMAIN writers' = DOMAIN writers \ {w} /\ w \in DOMAIN writers
      /\ \A v \in DOMAIN writers' : writers'[v] = writers[v]
  BY DEF WriterPruned, Restrict, IsMap
<1>3. /\ connected_shms' = {c \in connected_shms : c[2] # w}
      /\ UNCHANGED <<quitting, meta_first, generated>> /\ regular' \subseteq regular
      /\ m \in regular' => writers[w] # NoCaps
      /\ \A c \in connected_shms : c[1] \in Members /\ c[2] \in DOMAIN writers /\ c = <<c[1], c[2]>>
  BY <1>1 DEF WriterPruned, ShmShapes
<1>0. PICK kept \in SUBSET (ToDisconnect(w) \cap Refusing) :
        /\ conn' = [s \in Members |-> IF s \in ToDisconnect(w) \ kept THEN NoPath ELSE conn[s]]
        /\ refused' = (refused \ ToDisconnect(w)) \cup kept
  BY DEF WriterPruned, DisconnectedFrom
<1>4. /\ connects_to' \in [Members -> SUBSET Members]
      /\ connected_to' \in [Members -> SUBSET Members]
      /\ connects_to'[m] = connected_to[m] /\ connected_to'[m] = connects_to[m]
      /\ \A n \in Members \ {m} :
           connects_to'[n] = connects_to[n] /\ connected_to'[n] = connected_to[n]
  BY <1>1 DEF WriterPruned, SwapLists, ShmShapes
<1>5. ShmShapes'
  <2>1. conn' \in [Members -> Writers \cup {NoPath}]
    BY <1>0, <1>1 DEF ShmShapes
  <2>2. connected_shms' \subseteq Members \X DOMAIN writers'
    BY <1>1, <1>2, <1>3 DEF ShmShapes
  <2>3. exposed' \subseteq DOMAIN writers' /\ \A v \in exposed' : WriterOf[v] \in Exposed
    <3>1. exposed \subseteq DOMAIN writers /\ \A v \in exposed : WriterOf[v] \in Exposed
      BY <1>1 DEF ShmShapes
    <3>2. \A v \in exposed' : v \in exposed /\ v # w
      BY <1>1 DEF WriterPruned, ShmShapes
    <3>3. QED
      BY <1>2, <3>1, <3>2
  <2>4. QED
    BY <1>1, <1>2, <1>3, <1>4, <2>1, <2>2, <2>3 DEF ShmShapes
<1>6. ListsSwapped'
  BY <1>1, <1>4 DEF ListsSwapped
<1>7. Recorded'
  <2>1. \A c \in connected_shms' : c[1] \in PipedTo[WriterOf[c[2]]]
    BY <1>1, <1>3 DEF Recorded
  <2>2. ASSUME ~quitting, NEW s \in Members, s \notin refused', conn'[s] # NoPath
        PROVE  <<s, conn'[s]>> \in connected_shms'
    <3>1. s \notin ToDisconnect(w) /\ s \notin refused /\ conn'[s] = conn[s]
      BY <1>0, <2>2
    <3>2. s \notin meta_first
      BY <1>1, <2>2, <3>1 DEF Recorded
    <3>3. <<s, w>> \notin connected_shms
      BY <2>2, <3>1, <3>2 DEF ToDisconnect
    <3>4. QED
      BY <1>1, <1>3, <2>2, <3>1, <3>3 DEF Recorded
  <2>3. \A s \in meta_first : conn'[s] = NoPath
    BY <1>0, <1>1 DEF Recorded, ShmShapes
  <2>4. QED
    BY <1>3, <2>1, <2>2, <2>3 DEF Recorded
<1>8. RegularLists'
  <2>1. SUFFICES ASSUME NEW n \in regular'
        PROVE  /\ \A u, v \in WritersOf(n)' : u = v
               /\ (\A v \in WritersOf(n)' : writers'[v] = NoCaps) => connects_to'[n] = PipedTo[n]
               /\ \A v \in WritersOf(n)' : writers'[v] # NoCaps => connects_to'[n] = {}
    BY DEF RegularLists, WritersOf
  <2>2. n \in regular /\ n \in Members
    BY <1>1, <1>3 DEF ShmShapes
  <2>3. CASE n = m
    <3>1. WritersOf(n)' = {}
      BY <1>1, <1>2, <2>2, <2>3 DEF RegularLists, WritersOf
    <3>2. connects_to[m] = {}
      BY <1>1, <1>2, <1>3, <2>2, <2>3 DEF RegularLists, WritersOf
    <3>3. connects_to'[m] = PipedTo[m]
      BY <1>1, <1>4, <3>2 DEF ListsSwapped
    <3>4. QED
      BY <2>3, <3>1, <3>3
  <2>4. CASE n # m
    <3>1. WritersOf(n)' = WritersOf(n) /\ \A v \in WritersOf(n) : writers'[v] = writers[v]
      BY <1>2, <2>4 DEF WritersOf
    <3>2. connects_to'[n] = connects_to[n]
      BY <1>4, <2>2, <2>4
    <3>3. /\ \A u, v \in WritersOf(n) : u = v
          /\ (\A v \in WritersOf(n) : writers[v] = NoCaps) => connects_to[n] = PipedTo[n]
          /\ \A v \in WritersOf(n) : writers[v] # NoCaps => connects_to[n] = {}
      BY <1>1, <2>2 DEF RegularLists
    <3>4. QED
      BY <3>1, <3>2, <3>3
  <2>5. QED
    BY <2>3, <2>4
<1>9. Followed'
  <2>1. SUFFICES ASSUME ~quitting, NEW v \in DOMAIN writers', WriterOf[v] \in regular',
                        writers'[v] # NoCaps,
                        NEW s \in PipedTo[WriterOf[v]], PipedAfter(s) = {WriterOf[v]}
        PROVE  Follows(s, v)'
    BY <1>3 DEF Followed, PipedAfter
  <2>2. /\ v \in DOMAIN writers /\ v # w /\ v \in Writers /\ WriterOf[v] \in regular
        /\ WriterOf[v] \in Members /\ s \in Members
    BY <1>1, <1>2, <1>3, <2>1 DEF ShmShapes
  <2>3. WriterOf[v] # m
    BY <1>1, <1>2, <2>2 DEF RegularLists, WritersOf
  <2>4. <<s, w>> \notin connected_shms
    <3>1. s \notin PipedTo[m]
      BY <1>1, <2>1, <2>3 DEF PipedAfter
    <3>2. QED
      BY <1>1, <3>1 DEF Recorded
  <2>5. conn'[s] = conn[s]
    BY <1>0, <2>2, <2>4 DEF ToDisconnect
  <2>6. Follows(s, v)
    BY <1>1, <1>2, <2>1, <2>2 DEF Followed
  <2>7. QED
    BY <1>3, <2>5, <2>6 DEF Follows
<1>10. QED
  BY <1>5, <1>6, <1>7, <1>8, <1>9 DEF ShmInv

\* No other step touches a connection, and the destructor only sets its flag.
LEMMA ShmStep == ShmInv /\ [Next]_vars => ShmInv'
<1> SUFFICES ASSUME ShmInv, [Next]_vars PROVE ShmInv'
  OBVIOUS
<1>1. CASE UNCHANGED shmVars /\ (quitting => quitting')
  <2>1. ShmShapes' /\ ListsSwapped'
    BY <1>1 DEF ShmInv, ShmShapes, IsMap, ListsSwapped, shmVars
  <2>2. Recorded'
    BY <1>1 DEF ShmInv, Recorded, shmVars
  <2>3. RegularLists'
    BY <1>1 DEF ShmInv, RegularLists, WritersOf, shmVars
  <2>4. Followed'
    BY <1>1 DEF ShmInv, Followed, Follows, PipedAfter, shmVars
  <2>5. QED
    BY <2>1, <2>2, <2>3, <2>4 DEF ShmInv
<1>2. ASSUME NEW w \in Writers, NEW caps \in Types, CapsKnown(w, caps) PROVE ShmInv'
  <2>1. /\ IsMap(writers') /\ DOMAIN writers' = DOMAIN writers /\ writers'[w] = caps
        /\ \A v \in DOMAIN writers \ {w} : writers'[v] = writers[v]
    <3>1. w \in DOMAIN writers /\ writers' = [writers EXCEPT ![w] = caps]
      BY <1>2 DEF CapsKnown
    <3>2. QED
      BY ONLY <3>1 DEF IsMap
  <2>2. QED
    <3>1. /\ Grafted(w, caps) /\ ~quitting /\ UNCHANGED <<quitting, meta_first>>
          /\ w \in DOMAIN writers /\ writers[w] = NoCaps
      BY <1>2 DEF CapsKnown
    <3>2. QED
      BY <2>1, <3>1, GraftedStep
<1>3. ASSUME NEW w \in Writers, StatGrafted(w) PROVE ShmInv'
  <2>1. IsMap(writers') /\ writers' = writers /\ writers[w] \in Types \cup {NoCaps}
    BY <1>3 DEF StatGrafted, ShmInv, ShmShapes, IsMap
  <2>2. QED
    BY <1>3, <2>1, GraftedStep DEF StatGrafted
<1>4. ASSUME NEW w \in Writers, MakeWriter(w) \/ WriterPruned(w) PROVE ShmInv'
  BY <1>4, MakeWriterStep, WriterPrunedStep
<1>5. CASE \E m \in Members, p \in Props : push(m, p) \/ remove(m, p)
  BY <1>1, <1>5 DEF push, remove
<1>6. CASE Quit \/ \E val \in BOOLEAN : SetStarted(val)
  BY <1>1, <1>6 DEF SetStarted, Quit
<1>7. CASE UNCHANGED vars
  BY <1>1, <1>7 DEF vars
<1>8. QED
  BY <1>2, <1>3, <1>4, <1>5, <1>6, <1>7 DEF Next

-----------------------------------------------------------------------------
(* The theorems.                                                           *)

\* The two invariants are inductive.
THEOREM Invariance == Spec => []IInv
<1>1. Init => IInv
  BY PropInit, ShmInit DEF IInv
<1>2. IInv /\ [Next]_vars => IInv'
  BY PropStep, ShmStep DEF IInv
<1>3. QED
  BY <1>1, <1>2, PTL DEF Spec

\* Whatever writers come and go, no plain first follower that lets itself be
\* disconnected stays connected to one that is gone, and the regular ones are
\* followed (bundle.cpp:225, :366), in every bundle.
THEOREM SinksAlwaysFollow == Spec => []SinksFollowWriters
<1>1. ASSUME IInv, ~quitting, NEW s \in Members, s \notin refused, conn[s] # NoPath
      PROVE  conn[s] \in DOMAIN writers /\ <<s, conn[s]>> \in connected_shms
  BY <1>1 DEF IInv, ShmInv, ShmShapes, Recorded
<1>2. ASSUME IInv, NEW m \in regular
      PROVE  connects_to[m] = PipedTo[m] \/ \E w \in DOMAIN writers : WriterOf[w] = m
  BY <1>2 DEF IInv, ShmInv, RegularLists, WritersOf
<1>3. IInv => SinksFollowWriters
  BY <1>1, <1>2 DEF IInv, ShmInv, ShmShapes, Followed, SinksFollowWriters
<1>4. QED
  BY <1>3, Invariance, PTL

\* Each property that the bundle mirrors is the one its member has under that
\* name, and none that must be shown is missing (pbag.cpp:656), in every bundle.
THEOREM MirrorsAlwaysAgree == Spec => []MirrorsAgree
<1>1. IInv => MirrorsAgree
  BY DEF IInv, PropInv
<1>2. QED
  BY <1>1, Invariance, PTL
=============================================================================
