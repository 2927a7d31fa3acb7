--------------------------------- MODULE Claw ---------------------------------
(***************************************************************************)
(* quiddity/claw: the shmdata followers and writers of the quiddities and  *)
(* the connections between them.  Each quiddity has a connection           *)
(* specification (connection-spec.cpp) with a side for its followers and   *)
(* one for its writers; claw.cpp connects and disconnects.                 *)
(*                                                                         *)
(* The callbacks of the quiddity, on_connect_cb_ and on_disconnect_cb_,    *)
(* are external: they succeed or fail, and when they succeed the quiddity  *)
(* starts or stops following the path it was given (following).            *)
(* A label stands for itself; the label a meta follower or writer          *)
(* generates is a pair of the meta label and the new identifier.           *)
(* The other calls are refused, and change nothing, for an identifier that *)
(* is not allocated or when there are no more identifiers: those of what   *)
(* is deallocated are not released.                                        *)
(***************************************************************************)
EXTENDS Ids

CONSTANTS Quids,          \* the quiddities
          FollowerSpecs,  \* per quiddity, the "follower" arrays it may have:
          WriterSpecs,    \*   sequences of records [label, can_do]
          MetaLabels,     \* the labels with a '%'
          NewLabels,      \* labels given to add_writer_to_meta
          NoLabel,        \* ... an empty one: the label is generated
          TypeLists,      \* lists of types given to the replace methods
          All,            \* the type "all"
          RawPaths        \* paths of shmdata outside of switcher

\* An array is a sequence.  A generated label has no '%' left, nor have those
\* that are given.  The paths of writers have a form of their own.
ASSUME ClawAssumption ==
  /\ \A q \in Quids : \A s \in FollowerSpecs[q] \cup WriterSpecs[q] :
       Len(s) \in Nat /\ s = [i \in 1..Len(s) |-> s[i]]
  /\ \A m \in MetaLabels, i \in 1..IdMax : <<m, i>> \notin MetaLabels
  /\ NewLabels \cap MetaLabels = {} /\ NoLabel \notin NewLabels
  /\ RawPaths \cap (Quids \X (1..IdMax)) = {}

VARIABLES
  follower,   \* per quiddity, the side of its followers
  writer,     \* ... and of its writers
  shmpaths,   \* follower_shmpaths_
  following,  \* what the callbacks have made the quiddity follow
  trying      \* the followers try_connect has still to try

vars == <<follower, writer, shmpaths, following, trying>>

NotTrying == [quid |-> "none", target |-> "none", sfids |-> <<>>]

-----------------------------------------------------------------------------
(* ConnectionSpec.  A side is a record of                                  *)
(*   gen      the generator of identifiers                                 *)
(*   labels   follower_ids_ or writer_ids_                                 *)
(*   can_do   follower_can_do_ or writer_can_do_                           *)
(*   dynamic  dynamic_sfids_ or dynamic_swids_                             *)
(*   tree     the branch "follower" or "writer" of the tree: the entries   *)
(*            of the specification have their index as key, the dynamic    *)
(*            ones their identifier.                                       *)

Set(f, k, v) == [x \in DOMAIN f \cup {k} |-> IF x = k THEN v ELSE f[x]]
Erase(f, k) == [x \in DOMAIN f \ {k} |-> f[x]]

\* std::map::emplace leaves an existing entry as it is
Emplace(f, k, v) == IF k \in DOMAIN f THEN f ELSE Set(f, k, v)

\* the side as the constructor builds it from an array
Parse(spec) ==
  LET n == Len(spec) IN
  [gen |-> [ids |-> [i \in 1..n |-> i], cur |-> n],
   labels |-> [i \in 1..n |-> spec[i].label],
   can_do |-> [i \in 1..n |-> spec[i].can_do],
   dynamic |-> {},
   tree |-> [k \in 0..(n - 1) |->
               [id |-> k + 1, can_do |-> spec[k + 1].can_do]]]

\* the constructor accepts an array: there are identifiers for its entries and
\* std::unique, which compares neighbours, finds no label twice
Accepted(spec) ==
  /\ Len(spec) <= kMaxNumOfIds
  /\ \A i \in 1..(Len(spec) - 1) : spec[i].label # spec[i + 1].label

IsMeta(side, id) == id \in DOMAIN side.labels /\ side.labels[id] \in MetaLabels

\* allocate_sfid_from_meta, allocate_swid_from_meta: the new entry takes the
\* types of the meta one; shown is what the tree says of them.
AllocateFromMeta(side, meta, label, shown) ==
  LET id == allocate_id(side.gen) IN
  [gen |-> AfterAllocate(side.gen),
   labels |-> Emplace(side.labels, id,
                      IF label = NoLabel THEN <<side.labels[meta], id>>
                                         ELSE label),
   can_do |-> Emplace(side.can_do, id, side.can_do[meta]),
   dynamic |-> side.dynamic \cup {id},
   tree |-> Set(side.tree, id, [id |-> id, can_do |-> shown])]

\* (mutant) the identifier is given again
GivenAgain(side, id) == [ids |-> Front(side.gen.ids), cur |-> side.gen.cur - 1]
\* the generator keeps the identifier of what is deallocated
GenAfterDeallocate(side, id) == side.gen

\* (mutant) the tree keeps the entry
NotPruned(side, id) == side.tree
\* the entry with the identifier as key is pruned
TreeAfterPrune(side, id) == Erase(side.tree, id)

\* deallocate_sfid_from_meta, deallocate_swid_from_meta
Deallocate(side, id) ==
  IF id \notin side.dynamic THEN side
  ELSE [gen |-> GenAfterDeallocate(side, id),
        labels |-> Erase(side.labels, id),
        can_do |-> Erase(side.can_do, id),
        dynamic |-> side.dynamic \ {id},
        tree |-> TreeAfterPrune(side, id)]

\* replace_follower_can_do, replace_writer_can_do: the index of the new array
\* is never incremented, so that its last entry is the only one.
ReplaceCanDo(side, id, types) ==
  [gen |-> side.gen,
   labels |-> side.labels,
   can_do |-> Set(side.can_do, id, types),
   dynamic |-> side.dynamic,
   tree |-> [k \in DOMAIN side.tree |->
               IF side.tree[k].id = id
                 THEN [id |-> id, can_do |-> <<Last(types)>>]
                 ELSE side.tree[k]]]

-----------------------------------------------------------------------------
(* Compatibility of types.                                                 *)

\* gst_caps_can_intersect, for caps that are names
CapsIntersect(a, b) == a = b

\* sfid_can_do_shmtype, swid_can_do_shmtype
CanDoType(side, id, type) ==
  \/ type = All
  \/ /\ id \in DOMAIN side.can_do
     /\ \E t \in Range(side.can_do[id]) : t = All \/ CapsIntersect(t, type)

get_compatible_swids(side, type) ==
  {id \in DOMAIN side.labels : CanDoType(side, id, type) /\ ~IsMeta(side, id)}

\* The writer connect_quid connects with: for the first type of the follower
\* that some writer can do, the first such writer.
FirstCompatible(types, side) ==
  LET able == {i \in DOMAIN types : get_compatible_swids(side, types[i]) # {}}
  IN  IF able = {} THEN kInvalid
      ELSE Min(get_compatible_swids(side, types[Min(able)]))

\* get_writer_shmpath is not empty
HasPath(side, swid) == swid \in DOMAIN side.labels /\ ~IsMeta(side, swid)

-----------------------------------------------------------------------------
Init ==
  /\ \E f \in [Quids -> UNION {FollowerSpecs[q] : q \in Quids}],
        w \in [Quids -> UNION {WriterSpecs[q] : q \in Quids}] :
       /\ \A q \in Quids : /\ f[q] \in FollowerSpecs[q]
                           /\ w[q] \in WriterSpecs[q]
                           /\ Accepted(f[q]) /\ Accepted(w[q])
       /\ follower = [q \in Quids |-> Parse(f[q])]
       /\ writer = [q \in Quids |-> Parse(w[q])]
  /\ shmpaths = [q \in Quids |-> << >>]
  /\ following = [q \in Quids |-> << >>]
  /\ trying = NotTrying

\* (mutant) the follower allocated for nothing is kept
KeepAllocated(side, id) == side

\* connect_raw: the side when the callback has failed
AfterFailedConnect(side, id) == Deallocate(side, id)

\* What is_meta_follower may answer: it compares the iterator it found with the
\* end of writer_ids_, the wrong map, so that for an identifier without follower
\* both the comparison and what is read next are undefined.
is_meta_follower(side, sfid) ==
  IF sfid \in DOMAIN side.labels THEN {IsMeta(side, sfid)} ELSE BOOLEAN

\* connect_raw for a follower that is allocated: a meta one allocates the
\* follower to connect; the callback decides.
ConnectFollower(q, sfid, path, ok, meta) ==
  LET id == IF meta THEN allocate_id(follower[q].gen) ELSE sfid
      side == IF meta THEN AllocateFromMeta(follower[q], sfid, NoLabel, <<>>)
                      ELSE follower[q]
  IN  /\ IF ok
           THEN /\ follower' = [follower EXCEPT ![q] = side]
                /\ shmpaths' = [shmpaths EXCEPT ![q] = Emplace(@, id, path)]
                /\ following' = [following EXCEPT ![q] = Set(@, id, path)]
           ELSE /\ follower' = [follower EXCEPT ![q] =
                     IF meta THEN AfterFailedConnect(side, id) ELSE side]
                /\ UNCHANGED <<shmpaths, following>>
      /\ UNCHANGED writer

\* connect_raw: nothing without a follower, which allocate_sfid_from_meta or
\* is_allocated_follower finds out, nor without an identifier to allocate.
connect_raw(q, sfid, path, ok) ==
  \E meta \in is_meta_follower(follower[q], sfid) :
    IF sfid \in DOMAIN follower[q].labels /\ ~(meta /\ Full(follower[q].gen))
      THEN ConnectFollower(q, sfid, path, ok, meta)
      ELSE UNCHANGED <<follower, writer, shmpaths, following>>

ConnectRaw(q, sfid, path, ok) ==
  /\ trying = NotTrying
  /\ connect_raw(q, sfid, path, ok)
  /\ UNCHANGED trying

\* connect: with a writer of a quiddity
connect(q, sfid, target, swid, ok) ==
  /\ trying = NotTrying
  /\ HasPath(writer[target], swid)
  /\ connect_raw(q, sfid, <<target, swid>>, ok)
  /\ UNCHANGED trying

\* connect_quid, for a follower that is allocated
WriterFor(q, sfid, target) ==
  FirstCompatible(follower[q].can_do[sfid], writer[target])

CanConnectQuid(q, sfid, target) ==
  /\ WriterFor(q, sfid, target) # kInvalid
  /\ HasPath(writer[target], WriterFor(q, sfid, target))
  /\ ~(IsMeta(follower[q], sfid) /\ Full(follower[q].gen))

ConnectQuid(q, sfid, target, ok) ==
  IF CanConnectQuid(q, sfid, target)
    THEN connect_raw(q, sfid, <<target, WriterFor(q, sfid, target)>>, ok)
    ELSE UNCHANGED <<follower, writer, shmpaths, following>>

connect_quid(q, sfid, target, ok) ==
  /\ trying = NotTrying
  /\ sfid \in DOMAIN follower[q].labels
  /\ ConnectQuid(q, sfid, target, ok)
  /\ UNCHANGED trying

\* try_connect goes through a copy of the identifiers until one connects.
try_connect(q, target) ==
  /\ trying = NotTrying
  /\ DOMAIN follower[q].labels # {}
  /\ trying' = [quid |-> q, target |-> target,
                sfids |-> SetToSortSeq(DOMAIN follower[q].labels,
                                       LAMBDA x, y : x < y)]
  /\ UNCHANGED <<follower, writer, shmpaths, following>>

\* the loop of try_connect, the callback succeeding (ok) or not
TryNext(ok) ==
  /\ trying # NotTrying
  /\ LET q == trying.quid
         sfid == Head(trying.sfids)
         connected == ok /\ CanConnectQuid(q, sfid, trying.target)
     IN /\ ConnectQuid(q, sfid, trying.target, ok)
        /\ trying' = IF connected \/ Len(trying.sfids) = 1
                       THEN NotTrying
                       ELSE [quid |-> q, target |-> trying.target,
                             sfids |-> Tail(trying.sfids)]

\* (mutant) the follower stays in the specification
StaysAllocated(side, id) == side
\* disconnect: the side when the callback has succeeded
AfterDisconnect(side, id) == Deallocate(side, id)

disconnect(q, sfid, ok) ==
  /\ trying = NotTrying
  /\ sfid \in DOMAIN follower[q].labels
  /\ ok
  /\ follower' = [follower EXCEPT ![q] = AfterDisconnect(@, sfid)]
  /\ shmpaths' = [shmpaths EXCEPT ![q] = Erase(@, sfid)]
  /\ following' = [following EXCEPT ![q] = Erase(@, sfid)]
  /\ UNCHANGED <<writer, trying>>

\* add_writer_to_meta, with the can_dos of the specification of the writer
add_writer_to_meta(q, meta, label, can_dos) ==
  /\ trying = NotTrying
  /\ IsMeta(writer[q], meta)
  /\ ~Full(writer[q].gen)
  /\ writer' = [writer EXCEPT ![q] =
       AllocateFromMeta(@, meta, label,
                        IF can_dos = <<>> THEN @.can_do[meta] ELSE can_dos)]
  /\ UNCHANGED <<follower, shmpaths, following, trying>>

remove_writer_from_meta(q, swid) ==
  /\ trying = NotTrying
  /\ swid \in writer[q].dynamic
  /\ writer' = [writer EXCEPT ![q] = Deallocate(@, swid)]
  /\ UNCHANGED <<follower, shmpaths, following, trying>>

replace_follower_can_do(q, sfid, types) ==
  /\ trying = NotTrying
  /\ types # <<>> /\ sfid \in DOMAIN follower[q].labels
  /\ follower' = [follower EXCEPT ![q] = ReplaceCanDo(@, sfid, types)]
  /\ UNCHANGED <<writer, shmpaths, following, trying>>

replace_writer_can_do(q, swid, types) ==
  /\ trying = NotTrying
  /\ types # <<>> /\ swid \in DOMAIN writer[q].labels
  /\ writer' = [writer EXCEPT ![q] = ReplaceCanDo(@, swid, types)]
  /\ UNCHANGED <<follower, shmpaths, following, trying>>

-----------------------------------------------------------------------------
Sids == 1..IdMax

Next ==
  \/ \E q \in Quids, sfid \in Sids, ok \in BOOLEAN :
       \/ \E path \in RawPaths : ConnectRaw(q, sfid, path, ok)
       \/ \E target \in Quids, swid \in Sids : connect(q, sfid, target, swid, ok)
       \/ \E target \in Quids : connect_quid(q, sfid, target, ok)
       \/ disconnect(q, sfid, ok)
  \/ \E q, target \in Quids : try_connect(q, target)
  \/ \E ok \in BOOLEAN : TryNext(ok)
  \/ \E q \in Quids, id \in Sids :
       \/ \E label \in NewLabels \cup {NoLabel}, types \in TypeLists :
            add_writer_to_meta(q, id, label, types)
       \/ remove_writer_from_meta(q, id)
       \/ \E types \in TypeLists : \/ replace_follower_can_do(q, id, types)
                                   \/ replace_writer_can_do(q, id, types)

Spec == Init /\ [][Next]_vars

-----------------------------------------------------------------------------
(* Properties.                                                             *)

Paths == RawPaths \cup (Quids \X Sids)

\* No entry of a side has an identifier the generator is still to give:
\* emplace would keep the old entry under the new identifier.
SideOK(side) ==
  /\ side.gen.cur \in 0..IdMax
  /\ DOMAIN side.labels \subseteq 1..side.gen.cur
  /\ side.dynamic \subseteq 1..side.gen.cur

\* The variables keep their types.
TypeOK ==
  /\ \A q \in Quids :
       /\ SideOK(follower[q]) /\ SideOK(writer[q])
       /\ DOMAIN shmpaths[q] \subseteq Sids /\ Range(shmpaths[q]) \subseteq Paths
       /\ DOMAIN following[q] \subseteq Sids /\ Range(following[q]) \subseteq Paths
  /\ trying # NotTrying => trying.sfids # <<>> /\ Range(trying.sfids) \subseteq Sids

\* The maps of a side and its tree, which clients read as JSON, list the same
\* identifiers, each once (connection-spec.cpp updates them one by one).
SideAgrees(side) ==
  /\ DOMAIN side.can_do = DOMAIN side.labels
  /\ {side.tree[k].id : k \in DOMAIN side.tree} = DOMAIN side.labels
  /\ IsInjective([k \in DOMAIN side.tree |-> side.tree[k].id])
  /\ \A id \in side.dynamic : ~IsMeta(side, id) /\ id \in DOMAIN side.tree

SpecAgrees == \A q \in Quids : SideAgrees(follower[q]) /\ SideAgrees(writer[q])

\* A follower made from a meta follower exists exactly as long as it is
\* connected, whatever the callbacks answer, and the path of a follower is
\* known exactly when the quiddity follows one.
DynamicConnected ==
  \A q \in Quids :
    /\ DOMAIN shmpaths[q] = DOMAIN following[q]
    /\ follower[q].dynamic \subseteq DOMAIN following[q]
    /\ DOMAIN following[q] \subseteq DOMAIN follower[q].labels
    /\ \A s \in DOMAIN following[q] : ~IsMeta(follower[q], s)

\* A writer made from a meta writer has no follower when it is made: the path
\* of a removed writer, which followers may still follow, is not used again.
NewWriterUnfollowed ==
  [][\A q \in Quids :
       \A swid \in DOMAIN writer'[q].labels \ DOMAIN writer[q].labels :
         \A r \in Quids :
           <<q, swid>> \notin Range(following[r]) \cup Range(shmpaths[r])]_vars

\* The attempts of try_connect that fail leave no trace but the identifiers
\* they took: the followers and the connections are as before.
Content(side) == <<side.labels, side.can_do, side.dynamic, side.tree>>

FailedTryLeavesNoTrace ==
  [][trying # NotTrying /\ trying' # NotTrying
       => /\ \A q \in Quids : Content(follower'[q]) = Content(follower[q])
          /\ UNCHANGED <<writer, shmpaths, following>>]_vars
=============================================================================
