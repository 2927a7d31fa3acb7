------------------------------- MODULE Bundle -------------------------------
(***************************************************************************)
(* quiddity/bundle/bundle.cpp: a quiddity made of others, its members, in  *)
(* a switcher of its own.  It connects a member to those piped after it    *)
(* when a writer of the member shows its caps, forwards the writers and    *)
(* the properties of its members, and starts and stops some of them.  The  *)
(* bundle hears of its members by the signals of their trees: a handler    *)
(* is one step, taken with the graft or the prune that it answers.         *)
(***************************************************************************)
EXTENDS Naturals, Sequences, FiniteSets, Functions

CONSTANTS
  Members,
  PipedTo,       \* member -> the members piped after it
  Exposed,       \* members with the tag <shmw
  StartQuids,    \* start_quids_: the members with the tag <add_to_start
  TopLevel,      \* members with the tag <top_level
  Grouped,       \* members with a group property
  Writers, WriterOf, \* shmdata paths, and the member that writes each
  Types, CanDo,  \* of streams, and those the first follower of each member reads
  MetaChoices,   \* what meta_first may be
  Refusing,      \* members whose callback may refuse a disconnection
  Props, ParentOf, NoParent, \* properties of the members, and their groups
  StaticProps,   \* those that the constructors of the members install
  Hidden,        \* <<member, property>>: not displayed by the bundle
  MaxProps,      \* bound: properties that each member installs
  NoCaps, NoPath

ASSUME BundleAssumption ==
  /\ PipedTo \in [Members -> SUBSET Members]
  /\ StartQuids \in Seq(Members) /\ Cardinality(Range(StartQuids)) = Len(StartQuids)
  /\ WriterOf \in [Writers -> Members] /\ CanDo \in [Members -> SUBSET Types]
  /\ MetaChoices \subseteq SUBSET Members
  /\ NoCaps \notin Types /\ NoPath \notin Writers
  /\ ParentOf \in [Props -> Props \cup {NoParent}] /\ NoParent \notin Props
  /\ StaticProps \subseteq Props /\ IsFiniteSet(StaticProps) /\ MaxProps \in [Members -> Nat]

VARIABLES
  writers,        \* the writers in the trees of the members: path -> caps
  connects_to, connected_to, \* of the specification of each member
  connected_shms, \* connected_shms_: <<member, path>>
  meta_first,     \* the members whose first follower is meta, by their specification
  conn,           \* what the first follower of each other member is connected to
  generated,      \* <<member, path>>: the connected followers made from a meta one
  exposed,        \* the writers in the tree of the bundle
  props, counter, \* PBag of each member: name -> id, and the last id
  mirrors,        \* PBag of the bundle: <<member, name>> -> id in the member
  started,        \* __started_ of the bundle
  running,        \* the members whose __started_ is set
  quitting,       \* quitting_
  (* history *)
  regular,        \* members whose writers came one at a time, see Irregular
  refused         \* members that refused the last disconnection of their follower

shmVars == <<writers, connects_to, connected_to, connected_shms, meta_first, conn, generated,
             exposed, regular, refused>>
propVars == <<props, counter, mirrors>>
startVars == <<started, running>>
vars == <<shmVars, propVars, startVars, quitting>>

-----------------------------------------------------------------------------
(* Properties.                                                             *)

Displayed(m, p) == <<m, p>> \notin Hidden

\* mirror_property_from: is the parent among the properties of the bundle?
\* The handler looks for the group under the member's name, make_quiddities
\* under the name of the group, which only it creates.
ParentFound(m, p, known, byGroup) ==
  IF ParentOf[p] = NoParent
    THEN m \in TopLevel \/ byGroup \/ m \notin Grouped
    ELSE <<m, ParentOf[p]>> \in known /\ ~(byGroup /\ m \in Grouped)

\* make_quiddities mirrors the groups first
StaticMirrors ==
  LET shown == {mp \in Members \X StaticProps : Displayed(mp[1], mp[2])}
      groups == {mp \in shown : ParentOf[mp[2]] = NoParent}
  IN  {mp \in shown : ParentFound(mp[1], mp[2], groups, TRUE)}

StaticIds == CHOOSE f \in [StaticProps -> 1..Cardinality(StaticProps)] : IsInjective(f)

Init ==
  /\ writers = << >> /\ connected_shms = {} /\ exposed = {}
  /\ connects_to = PipedTo /\ connected_to = [m \in Members |-> {}]
  /\ meta_first \in MetaChoices
  /\ conn = [m \in Members |-> NoPath] /\ generated = {}
  /\ props = [m \in Members |-> StaticIds]
  /\ counter = [m \in Members |-> Cardinality(StaticProps)]
  /\ mirrors = [mp \in StaticMirrors |-> StaticIds[mp[2]]]
  /\ started = FALSE /\ running = {} /\ quitting = FALSE
  /\ regular = Members /\ refused = {}

\* PBag::push_parented of a member, and on_tree_grafted for the new property
push(m, p) ==
  /\ ~quitting /\ p \notin DOMAIN props[m] /\ counter[m] < MaxProps[m]
  /\ ParentOf[p] # NoParent => ParentOf[p] \in DOMAIN props[m]
  /\ counter' = [counter EXCEPT ![m] = @ + 1]
  /\ props' = [props EXCEPT ![m] = [q \in DOMAIN @ \cup {p} |->
                                      IF q = p THEN counter[m] + 1 ELSE @[q]]]
  /\ mirrors' =
       IF Displayed(m, p) /\ <<m, p>> \notin DOMAIN mirrors
            /\ ParentFound(m, p, DOMAIN mirrors, FALSE)
         THEN [mp \in DOMAIN mirrors \cup {<<m, p>>} |->
                 IF mp = <<m, p>> THEN counter[m] + 1 ELSE mirrors[mp]]
         ELSE mirrors
  /\ UNCHANGED <<shmVars, startVars, quitting>>

\* (mutant) the bundle keeps what it mirrors
MirrorsKept(m, p) == mirrors
\* on_tree_pruned for a property
MirrorsWithout(m, p) ==
  IF Displayed(m, p) THEN Restrict(mirrors, DOMAIN mirrors \ {<<m, p>>}) ELSE mirrors

\* PBag::remove of a member: signalled before the property is erased
remove(m, p) ==
  /\ ~quitting /\ p \in DOMAIN props[m]
  /\ mirrors' = MirrorsWithout(m, p)
  /\ props' = [props EXCEPT ![m] = Restrict(@, DOMAIN @ \ {p})]
  /\ UNCHANGED <<counter, shmVars, startVars, quitting>>

-----------------------------------------------------------------------------
(* Writers.                                                                *)

\* Two writers of the member at once, one that goes before it had caps, or
\* one that a member piped after it does not read or fails to connect to.
Irregular(m, w) == \E v \in DOMAIN writers : v # w /\ WriterOf[v] = m

\* A writer's branch appears, without a signal.
MakeWriter(w) ==
  /\ ~quitting /\ w \notin DOMAIN writers
  /\ writers' = [v \in DOMAIN writers \cup {w} |-> IF v = w THEN NoCaps ELSE writers[v]]
  /\ regular' = IF Irregular(WriterOf[w], w) THEN regular \ {WriterOf[w]} ELSE regular
  /\ UNCHANGED <<connects_to, connected_to, connected_shms, meta_first, conn, generated,
                 exposed, refused, propVars, startVars, quitting>>

\* std::swap of the two lists
SwapLists(m) ==
  /\ connects_to' = [connects_to EXCEPT ![m] = connected_to[m]]
  /\ connected_to' = [connected_to EXCEPT ![m] = connects_to[m]]

\* connect_raw with the first follower of the members in ok, of which those that are
\* meta have a follower generated for the connection.
Connected(ok, w) ==
  /\ conn' = [s \in Members |-> IF s \in ok \ meta_first THEN w ELSE conn[s]]
  /\ generated' = generated \cup ((ok \cap meta_first) \X {w})
  /\ refused' = refused \ ok

\* on_tree_grafted for a writer: it is signalled with its caps, and then
\* with each update of its statistics.
Grafted(w, caps) ==
  LET m == WriterOf[w]
      reads == {s \in connects_to[m] : caps \in CanDo[s]}
  IN  /\ IF connects_to[m] # {} /\ caps # NoCaps
           THEN /\ SwapLists(m)
                /\ connected_shms' = connected_shms \cup (reads \X {w})
                /\ \E ok \in SUBSET reads :
                     /\ Connected(ok, w)
                     /\ regular' = IF ok = connects_to[m] THEN regular ELSE regular \ {m}
           ELSE UNCHANGED <<connects_to, connected_to, connected_shms, conn, generated,
                            regular, refused>>
      /\ exposed' = IF m \in Exposed THEN exposed \cup {w} ELSE exposed

CapsKnown(w, caps) ==
  /\ ~quitting /\ w \in DOMAIN writers /\ writers[w] = NoCaps
  /\ writers' = [writers EXCEPT ![w] = caps]
  /\ Grafted(w, caps)
  /\ UNCHANGED <<meta_first, propVars, startVars, quitting>>

StatGrafted(w) ==
  /\ ~quitting /\ w \in DOMAIN writers
  /\ Grafted(w, writers[w])
  /\ UNCHANGED <<writers, meta_first, propVars, startVars, quitting>>

\* The members whose first follower is asked to disconnect: those recorded with the
\* writer, unless the bundle is being destroyed.  The callback of a meta follower has
\* nothing to disconnect, and the followers made from it are not asked.
ToDisconnect(w) ==
  IF quitting THEN {} ELSE {s \in Members \ meta_first : <<s, w>> \in connected_shms}

\* (mutant) only the record of the connection goes
StillConnected(w, kept) == conn
\* the members in kept refuse
DisconnectedFrom(w, kept) ==
  [s \in Members |-> IF s \in ToDisconnect(w) \ kept THEN NoPath ELSE conn[s]]

\* the branch of a writer is pruned: on_tree_pruned
WriterPruned(w) ==
  LET m == WriterOf[w] IN
  /\ w \in DOMAIN writers
  /\ writers' = Restrict(writers, DOMAIN writers \ {w})
  /\ connected_shms' = {c \in connected_shms : c[2] # w}
  /\ exposed' = IF m \in Exposed THEN exposed \ {w} ELSE exposed
  /\ SwapLists(m)
  /\ \E kept \in SUBSET (ToDisconnect(w) \cap Refusing) :
       /\ conn' = DisconnectedFrom(w, kept)
       /\ refused' = (refused \ ToDisconnect(w)) \cup kept
  /\ regular' = IF writers[w] = NoCaps THEN regular \ {m} ELSE regular
  /\ UNCHANGED <<meta_first, generated, propVars, startVars, quitting>>

-----------------------------------------------------------------------------
(* Start, stop and the destructor.                                         *)

\* The property "started" of the bundle (Startable): start and stop set that
\* of the members in order, up to the first that refuses.  A member already
\* as asked accepts.
SetStarted(val) ==
  /\ ~quitting
  /\ IF started = val THEN UNCHANGED startVars
     ELSE \E n \in 0..Len(StartQuids) :
            LET done == {StartQuids[i] : i \in 1..n} IN
            /\ n < Len(StartQuids) => (StartQuids[n + 1] \in running) # val
            /\ running' = IF val THEN running \cup done ELSE running \ done
            /\ started' = IF n = Len(StartQuids) THEN val ELSE started
  /\ UNCHANGED <<shmVars, propVars, quitting>>

\* ~Bundle, before it has stopped to listen
Quit == ~quitting /\ quitting' = TRUE /\ UNCHANGED <<shmVars, propVars, startVars>>

Next ==
  \/ \E m \in Members, p \in Props : push(m, p) \/ remove(m, p)
  \/ \E w \in Writers : MakeWriter(w) \/ StatGrafted(w) \/ WriterPruned(w)
  \/ \E w \in Writers, caps \in Types : CapsKnown(w, caps)
  \/ \E val \in BOOLEAN : SetStarted(val)
  \/ Quit

Spec == Init /\ [][Next]_vars

-----------------------------------------------------------------------------
(* Properties.                                                             *)

\* the members that s is piped after
PipedAfter(s) == {m \in Members : s \in PipedTo[m]}

\* a follower of s is connected to w
Follows(s, w) == IF s \in meta_first THEN <<s, w>> \in generated ELSE conn[s] = w

\* bundle.cpp:225, :366: whatever writers come and go, the first follower of a
\* member, unless it has refused to disconnect, is connected by the bundle only
\* to a writer that exists, what the bundle recorded is what it connected, and
\* it shows no writer that is gone.  As long as the writers of a member come one
\* at a time and are read by all members piped after it, these follow the writer
\* from its caps to its end, but for those piped after another member too: only
\* one of the two can have the follower.  What a meta follower has generated is
\* outside of the first promise: nothing disconnects it (bundle.cpp:404).
SinksFollowWriters ==
  ~quitting =>
    /\ \A s \in Members \ refused : conn[s] # NoPath =>
         conn[s] \in DOMAIN writers /\ <<s, conn[s]>> \in connected_shms
    /\ \A w \in DOMAIN writers : LET m == WriterOf[w] IN
         m \in regular /\ writers[w] # NoCaps =>
           \A s \in PipedTo[m] : PipedAfter(s) = {m} => Follows(s, w)
    /\ \A m \in regular :
         connects_to[m] = PipedTo[m] \/ \E w \in DOMAIN writers : WriterOf[w] = m
    /\ exposed \subseteq DOMAIN writers

\* pbag.cpp:656, bundle.cpp:315: the bundle holds pointers into the property
\* bags of its members.  Each points to the property that the member has
\* under that name, also after a removal and a new installation, and every
\* displayed property without a parent, of a member without a group, has one.
MirrorsAgree ==
  /\ \A mp \in DOMAIN mirrors :
       mp[2] \in DOMAIN props[mp[1]] /\ props[mp[1]][mp[2]] = mirrors[mp]
  /\ \A m \in Members \ Grouped : \A p \in DOMAIN props[m] :
       Displayed(m, p) /\ ParentOf[p] = NoParent => <<m, p>> \in DOMAIN mirrors

\* doc/writing-bundles.md:103 on <add_to_start: "their `started` state will be
\* entirely dependant on the `started` property state of the bundle".  False
\* after a partial start: bundle.cpp:414 returns at the first member that
\* fails, and startable.cpp:39 then takes the bundle for stopped.
StartedTogether ==
  \A i \in 1..Len(StartQuids) : (StartQuids[i] \in running) = started
=============================================================================
