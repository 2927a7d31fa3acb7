-------------------------- MODULE ShmdataTree_proofs --------------------------
(***************************************************************************)
(* What the tree tells of a shmdata, proved for every kind of owner, every *)
(* set of types and every number of lives.                                 *)
(***************************************************************************)
EXTENDS ShmdataTree, TLAPS

-----------------------------------------------------------------------------
(* The inductive invariant, one conjunct per idea.                         *)

Branches == [caps : Types \cup {NoCaps, "absent"}, stat : BOOLEAN]
Untyped == {NoCaps, "absent"}
Making == {"prune", "template", "regraft", "ready"}
Places ==
  {"idle", "live", "joined", "unsubscribe", "task", "pipeliner", "pipe", "loop"} \cup Making

\* The types of the variables.
Shapes ==
  /\ TaskTypeOK
  /\ kind \in Kinds /\ lives \in 0 .. MaxLives
  /\ owner \in Places /\ reader \in {"off", "idle"} \cup Making
  /\ arrived \in Types \cup {NoCaps} /\ caps \in Types \cup {NoCaps}
  /\ branch \in Branches /\ kept \in [{"owner", "reader"} -> Branches]
  /\ idle \subseteq {"watch", "play", "delete"}
  /\ pipe \in {"null", "playing", "deleted"} /\ watch_added \in BOOLEAN

\* Which object passes where, and when its reader may call back.
Courses ==
  /\ owner \in Making => kind # "on_connect"
  /\ owner = "ready" => kind # "follower"
  /\ owner = "joined" => kind \in Followers
  /\ owner \in {"pipeliner", "pipe", "loop"} => kind = "source"
  /\ reader \in Making => arrived \in Types
  /\ reader \in {"prune", "template", "regraft"} => kind = "on_connect"
  /\ kind = "writer" => reader = "off"
  /\ owner \in {"joined", "task", "pipeliner", "pipe", "loop", "idle"} => reader = "off"
  /\ owner = "unsubscribe" /\ kind \in Followers => reader = "off"

\* A source has no caps before its pipeline plays, and that is played last.
NotYetPlayed ==
  kind = "source" /\ owner \in {"idle"} \cup Making =>
    pipe # "playing" /\ "play" \notin idle /\ (owner # "idle" => caps = NoCaps /\ reader = "idle")

\* initialize_tree holds a branch only between its prune and its regraft.
HeldOnly ==
  /\ owner \notin {"template", "regraft"} => kept["owner"] = NoBranch
  /\ reader \notin {"template", "regraft"} => kept["reader"] = NoBranch

\* The type is in the branch, or in what the reader holds of it.
TypeIsSomewhere ==
  owner \in {"live", "joined"} /\ kind # "follower" /\ caps # NoCaps =>
    IF reader \in {"template", "regraft"} THEN kept["reader"].caps = caps
    ELSE branch.caps = caps

\* A follower that was not connected in this life has put no type anywhere.
NoTypeBefore ==
  kind \in Followers /\ caps = NoCaps =>
    /\ branch.caps \in Untyped
    /\ kept["owner"].caps \in Untyped /\ kept["reader"].caps \in Untyped

\* Nothing puts the type back after the destructor has pruned the branch.
PrunedForGood ==
  owner \in {"unsubscribe", "task", "idle"} /\ kind # "source" => branch.caps \in Untyped

\* The task is destroyed as a member, and its thread has ended when it is.
TaskEnds ==
  /\ owner \in Making \cup {"live", "joined", "unsubscribe"} => dtor = "none"
  /\ owner \in {"pipeliner", "pipe", "loop"} => dtor = "done"
  /\ owner = "idle" => dtor = "done" \/ ticker = "none"
  /\ dtor = "done" => ticker = "ended"

IInv ==
  /\ Shapes /\ Courses /\ NotYetPlayed /\ HeldOnly /\ TypeIsSomewhere
  /\ NoTypeBefore /\ PrunedForGood /\ TaskEnds

\* A destroyed object has no thread left that could write to the tree: its
\* task has ended and its callbacks are disconnected.
NoThreadLeft == owner = "idle" => ticker \in {"none", "ended"} /\ reader = "off"

USE KindsAssumption, TypesAssumption
    DEF AllKinds, taskVars, pipeVars, NoCaps, NoBranch, Template, Followers, Untyped, Making

-----------------------------------------------------------------------------
(* The branch is a record whose caps and statistics are written apart.     *)

\* Statistics leave the type, and a type leaves the statistics.
LEMMA Grafts ==
  ASSUME NEW b \in Branches, NEW c \in Types \cup {NoCaps}
  PROVE  /\ [b EXCEPT !.stat = TRUE] \in Branches
         /\ [b EXCEPT !.stat = TRUE].caps = b.caps
         /\ [b EXCEPT !.caps = c] \in Branches
         /\ [b EXCEPT !.caps = c].caps = c
BY DEF Branches

\* What initialize_tree grafts again is the type it had pruned, if any.
LEMMA RegraftedCaps ==
  ASSUME NEW t \in {"owner", "reader"}, Shapes
  PROVE  /\ Regrafted(t) \in Branches
         /\ Regrafted(t).caps \in {branch.caps, kept[t].caps}
         /\ kept[t].caps # "absent" => Regrafted(t).caps = kept[t].caps
<1>1. kept[t] \in Branches /\ branch \in Branches
  BY DEF Shapes
<1>2. QED
  BY <1>1 DEF Regrafted, Branches

\* A step of initialize_tree changes the branch and what its caller holds.
LEMMA InitTreeShapes ==
  ASSUME Shapes, NEW t \in {"owner", "reader"}, NEW place, NEW next,
         InitTree(t, place, next)
  PROVE  /\ branch' \in Branches /\ kept' \in [{"owner", "reader"} -> Branches]
         /\ \A u \in {"owner", "reader"} \ {t} : kept'[u] = kept[u]
         /\ <<place, next>> \in {<<"prune", "template">>, <<"template", "regraft">>, <<"regraft", "ready">>}
<1>1. NoBranch \in Branches /\ Template \in Branches /\ Regrafted(t) \in Branches
  BY RegraftedCaps DEF Branches
<1>2. QED
  BY <1>1 DEF InitTree, Shapes

\* initialize_tree makes no type up.
LEMMA InitTreeUntyped ==
  ASSUME Shapes, NEW t \in {"owner", "reader"}, NEW place, NEW next,
         InitTree(t, place, next), branch.caps \in Untyped,
         kept["owner"].caps \in Untyped, kept["reader"].caps \in Untyped
  PROVE  /\ branch'.caps \in Untyped
         /\ kept'["owner"].caps \in Untyped /\ kept'["reader"].caps \in Untyped
<1>1. Regrafted(t).caps \in Untyped
  BY RegraftedCaps
<1>2. QED
  BY <1>1 DEF InitTree, Shapes

-----------------------------------------------------------------------------
(* The induction step.                                                     *)

\* Every step of the owner, its reader, its task and its loop preserves the
\* invariant.
LEMMA Step == IInv /\ [Next]_vars => IInv'
<1> SUFFICES ASSUME IInv, [Next]_vars PROVE IInv'
  OBVIOUS
<1>0. /\ Shapes /\ Courses /\ NotYetPlayed /\ HeldOnly /\ TypeIsSomewhere
      /\ NoTypeBefore /\ PrunedForGood /\ TaskEnds
  BY DEF IInv
<1>1. CASE Make
  <2>1. caps' \in Types \cup {NoCaps} /\ lives' \in 0 .. MaxLives
    BY <1>0, <1>1 DEF Make, MakeTask, Shapes
  <2>2. Shapes'
    BY <1>0, <1>1, <2>1 DEF Make, MakeTask, Shapes, Places, TaskTypeOK
  <2>3. Courses'
    BY <1>0, <1>1 DEF Make, MakeTask, Courses, Places, Shapes
  <2>4. NotYetPlayed'
    BY <1>0, <1>1 DEF Make, MakeTask, NotYetPlayed
  <2>5. HeldOnly'
    BY <1>0, <1>1 DEF Make, MakeTask, HeldOnly, Courses
  <2>6. TypeIsSomewhere'
    BY <1>0, <1>1 DEF Make, MakeTask, TypeIsSomewhere
  <2>7. NoTypeBefore'
    BY <1>0, <1>1 DEF Make, MakeTask, Courses, HeldOnly, PrunedForGood,
       NoTypeBefore
  <2>8. TaskEnds'
    BY <1>0, <1>1 DEF Make, MakeTask, TaskEnds
  <2>9. PrunedForGood'
    BY <1>0, <1>1 DEF Make, MakeTask, PrunedForGood
  <2>10. QED
    BY <2>1, <2>2, <2>3, <2>4, <2>5, <2>6, <2>7, <2>8, <2>9 DEF IInv
<1>2. ASSUME NEW next \in {"template", "regraft", "ready"}, OwnerInitTree(next) PROVE IInv'
  <2>1. Shapes'
    BY <1>0, <1>2, InitTreeShapes DEF OwnerInitTree, InitTree, Shapes, Places,
       TaskTypeOK
  <2>2. Courses'
    BY <1>0, <1>2 DEF OwnerInitTree, InitTree, Courses
  <2>3. NotYetPlayed'
    BY <1>0, <1>2 DEF OwnerInitTree, InitTree, NotYetPlayed
  <2>4. HeldOnly'
    BY <1>0, <1>2, InitTreeShapes DEF OwnerInitTree, InitTree, HeldOnly, Shapes
  <2>5. TypeIsSomewhere'
    BY <1>0, <1>2 DEF OwnerInitTree, InitTree, TypeIsSomewhere
  <2>6. NoTypeBefore'
    BY <1>0, <1>2, InitTreeUntyped DEF OwnerInitTree, NoTypeBefore
  <2>7. (PrunedForGood /\ TaskEnds)'
    BY <1>0, <1>2 DEF OwnerInitTree, InitTree, PrunedForGood, TaskEnds
  <2>8. QED
    BY <2>1, <2>2, <2>3, <2>4, <2>5, <2>6, <2>7 DEF IInv
<1>3. CASE GraftOwnCaps
  <2>1. branch' \in Branches
    BY <1>0, <1>3, Grafts DEF GraftOwnCaps, Shapes
  <2>2. Shapes'
    BY <1>0, <1>3, <2>1 DEF GraftOwnCaps, Shapes, Places, TaskTypeOK
  <2>3. TypeIsSomewhere'
    BY <1>0, <1>3, Grafts DEF GraftOwnCaps, Shapes, Courses, TypeIsSomewhere
  <2>4. (Courses /\ NotYetPlayed /\ HeldOnly /\ NoTypeBefore /\ PrunedForGood /\ TaskEnds)'
    BY <1>0, <1>3 DEF GraftOwnCaps, Courses, NotYetPlayed, HeldOnly,
       NoTypeBefore, PrunedForGood, TaskEnds
  <2>5. QED
    BY <2>1, <2>2, <2>3, <2>4 DEF IInv
<1>4. CASE Play
  <2>1. Shapes'
    BY <1>0, <1>4 DEF Play, Shapes, Places, TaskTypeOK
  <2>2. NotYetPlayed'
    BY <1>0, <1>4 DEF Play, NotYetPlayed
  <2>3. TypeIsSomewhere'
    BY <1>0, <1>4 DEF Play, NotYetPlayed, TypeIsSomewhere
  <2>4. (Courses /\ HeldOnly /\ NoTypeBefore /\ PrunedForGood /\ TaskEnds)'
    BY <1>0, <1>4 DEF Play, Courses, HeldOnly, NoTypeBefore, PrunedForGood,
       TaskEnds
  <2>5. QED
    BY <2>1, <2>2, <2>3, <2>4 DEF IInv
<1>5. CASE JoinReader
  <2>1. Shapes'
    BY <1>0, <1>5 DEF JoinReader, Shapes, Places, TaskTypeOK
  <2>2. Courses'
    BY <1>0, <1>5 DEF JoinReader, Courses
  <2>3. HeldOnly'
    BY <1>0, <1>5 DEF JoinReader, HeldOnly
  <2>4. TypeIsSomewhere'
    BY <1>0, <1>5 DEF JoinReader, TypeIsSomewhere
  <2>5. (NotYetPlayed /\ NoTypeBefore /\ PrunedForGood /\ TaskEnds)'
    BY <1>0, <1>5 DEF JoinReader, NotYetPlayed, NoTypeBefore, PrunedForGood,
       TaskEnds
  <2>6. QED
    BY <2>1, <2>2, <2>3, <2>4, <2>5 DEF IInv
<1>6. CASE Prune
  <2>1. NoBranch \in Branches
    BY DEF Branches
  <2>2. Shapes'
    BY <1>0, <1>6, <2>1 DEF Prune, AfterPrune, Shapes, Places, TaskTypeOK
  <2>3. Courses'
    BY <1>0, <1>6 DEF Prune, AfterPrune, Courses
  <2>4. NoTypeBefore'
    BY <1>0, <1>6 DEF Prune, AfterPrune, NoTypeBefore
  <2>5. PrunedForGood'
    BY <1>0, <1>6 DEF Prune, AfterPrune, NoTypeBefore, PrunedForGood
  <2>6. (NotYetPlayed /\ HeldOnly /\ TypeIsSomewhere /\ TaskEnds)'
    BY <1>0, <1>6 DEF Prune, AfterPrune, NotYetPlayed, HeldOnly,
       TypeIsSomewhere, TaskEnds
  <2>7. QED
    BY <2>1, <2>2, <2>3, <2>4, <2>5, <2>6 DEF IInv
<1>7. CASE Unsubscribe
  <2>1. Shapes'
    BY <1>0, <1>7 DEF Unsubscribe, Cancel, Shapes, Places, TaskTypeOK
  <2>2. Courses'
    BY <1>0, <1>7 DEF Unsubscribe, Cancel, Courses
  <2>3. HeldOnly'
    BY <1>0, <1>7 DEF Unsubscribe, Cancel, HeldOnly
  <2>4. TaskEnds'
    BY <1>0, <1>7 DEF Unsubscribe, Cancel, TaskEnds
  <2>5. (NotYetPlayed /\ TypeIsSomewhere /\ NoTypeBefore /\ PrunedForGood)'
    BY <1>0, <1>7 DEF Unsubscribe, Cancel, NotYetPlayed, TypeIsSomewhere,
       NoTypeBefore, PrunedForGood
  <2>6. QED
    BY <2>1, <2>2, <2>3, <2>4, <2>5 DEF IInv
<1>8. CASE TaskDestroyed
  <2>1. Shapes'
    BY <1>0, <1>8 DEF TaskDestroyed, Notify, Join, Shapes, Places, TaskTypeOK
  <2>2. Courses'
    BY <1>0, <1>8 DEF TaskDestroyed, Notify, Join, Courses
  <2>3. TaskEnds'
    BY <1>0, <1>8 DEF TaskDestroyed, Notify, Join, TaskEnds, TaskTypeOK, Shapes
  <2>4. (NotYetPlayed /\ HeldOnly /\ TypeIsSomewhere /\ NoTypeBefore /\ PrunedForGood)'
    BY <1>0, <1>8 DEF TaskDestroyed, Notify, Join, NotYetPlayed, HeldOnly,
       TypeIsSomewhere, NoTypeBefore, PrunedForGood
  <2>5. QED
    BY <2>1, <2>2, <2>3, <2>4 DEF IInv
<1>9. CASE PipelinerDestroyed
  <2>1. Shapes'
    BY <1>0, <1>9 DEF PipelinerDestroyed, Shapes, Places, TaskTypeOK
  <2>2. (Courses /\ NotYetPlayed /\ HeldOnly /\ TypeIsSomewhere /\ NoTypeBefore /\ PrunedForGood /\ TaskEnds)'
    BY <1>0, <1>9 DEF PipelinerDestroyed, Courses, NotYetPlayed, HeldOnly,
       TypeIsSomewhere, NoTypeBefore, PrunedForGood, TaskEnds
  <2>3. QED
    BY <2>1, <2>2 DEF IInv
<1>10. CASE PipeDestroyed
  <2>1. Shapes'
    BY <1>0, <1>10 DEF PipeDestroyed, Shapes, Places, TaskTypeOK
  <2>2. (Courses /\ NotYetPlayed /\ HeldOnly /\ TypeIsSomewhere /\ NoTypeBefore /\ PrunedForGood /\ TaskEnds)'
    BY <1>0, <1>10 DEF PipeDestroyed, Courses, NotYetPlayed, HeldOnly,
       TypeIsSomewhere, NoTypeBefore, PrunedForGood, TaskEnds
  <2>3. QED
    BY <2>1, <2>2 DEF IInv
<1>11. CASE LoopJoined
  <2>1. Shapes'
    BY <1>0, <1>11 DEF LoopJoined, Shapes, Places, TaskTypeOK
  <2>2. (Courses /\ NotYetPlayed /\ HeldOnly /\ TypeIsSomewhere /\ NoTypeBefore /\ PrunedForGood /\ TaskEnds)'
    BY <1>0, <1>11 DEF LoopJoined, Courses, NotYetPlayed, HeldOnly,
       TypeIsSomewhere, NoTypeBefore, PrunedForGood, TaskEnds
  <2>3. QED
    BY <2>1, <2>2 DEF IInv
<1>12. ASSUME NEW type \in Types, Called(type) PROVE IInv'
  <2>1. Shapes'
    BY <1>0, <1>12 DEF Called, Shapes, Places, TaskTypeOK
  <2>2. Courses'
    BY <1>0, <1>12 DEF Called, Courses
  <2>3. HeldOnly'
    BY <1>0, <1>12 DEF Called, HeldOnly
  <2>4. NotYetPlayed'
    BY <1>0, <1>12 DEF Called, NotYetPlayed
  <2>5. TypeIsSomewhere'
    BY <1>0, <1>12 DEF Called, TypeIsSomewhere
  <2>6. (NoTypeBefore /\ PrunedForGood /\ TaskEnds)'
    BY <1>0, <1>12 DEF Called, NoTypeBefore, PrunedForGood, TaskEnds
  <2>7. QED
    BY <2>1, <2>2, <2>3, <2>4, <2>5, <2>6 DEF IInv
<1>13. ASSUME NEW next \in {"template", "regraft", "ready"}, ReaderInitTree(next) PROVE IInv'
  <2>1. Shapes'
    BY <1>0, <1>13, InitTreeShapes DEF ReaderInitTree, InitTree, Shapes, Places,
       TaskTypeOK
  <2>2. Courses'
    BY <1>0, <1>13 DEF ReaderInitTree, InitTree, Courses
  <2>3. HeldOnly'
    BY <1>0, <1>13, InitTreeShapes DEF ReaderInitTree, InitTree, HeldOnly,
       Shapes
  <2>4. TypeIsSomewhere'
    BY <1>0, <1>13, RegraftedCaps DEF ReaderInitTree, InitTree, TypeIsSomewhere,
       Shapes
  <2>5. NoTypeBefore'
    BY <1>0, <1>13, InitTreeUntyped DEF ReaderInitTree, NoTypeBefore
  <2>6. PrunedForGood'
    BY <1>0, <1>13 DEF ReaderInitTree, InitTree, Courses, PrunedForGood
  <2>7. (NotYetPlayed /\ TaskEnds)'
    BY <1>0, <1>13 DEF ReaderInitTree, InitTree, NotYetPlayed, TaskEnds
  <2>8. QED
    BY <2>1, <2>2, <2>3, <2>4, <2>5, <2>6, <2>7 DEF IInv
<1>14. CASE GraftCaps
  <2>1. branch' \in Branches
    BY <1>0, <1>14, Grafts DEF GraftCaps, Shapes
  <2>2. Shapes'
    BY <1>0, <1>14, <2>1 DEF GraftCaps, Shapes, Places, TaskTypeOK
  <2>3. Courses'
    BY <1>0, <1>14 DEF GraftCaps, Courses
  <2>4. NotYetPlayed'
    BY <1>0, <1>14 DEF GraftCaps, NotYetPlayed, Courses
  <2>5. HeldOnly'
    BY <1>0, <1>14 DEF GraftCaps, HeldOnly
  <2>6. TypeIsSomewhere'
    BY <1>0, <1>14, Grafts DEF GraftCaps, TypeIsSomewhere, Shapes
  <2>7. NoTypeBefore'
    BY <1>0, <1>14 DEF GraftCaps, Courses, NoTypeBefore
  <2>8. PrunedForGood'
    BY <1>0, <1>14 DEF GraftCaps, Courses, PrunedForGood, Followers, Shapes
  <2>9. TaskEnds'
    BY <1>0, <1>14 DEF GraftCaps, TaskEnds
  <2>10. QED
    BY <2>1, <2>2, <2>3, <2>4, <2>5, <2>6, <2>7, <2>8, <2>9 DEF IInv
<1>15. CASE Tick
  <2>1. branch' \in Branches
    BY <1>0, <1>15, Grafts DEF Tick, TaskReturns, Shapes
  <2>2. Shapes'
    BY <1>0, <1>15, <2>1 DEF Tick, TaskReturns, Shapes, Places, TaskTypeOK
  <2>3. branch'.caps = branch.caps
    BY <1>0, <1>15, Grafts DEF Tick, TaskReturns, Shapes
  <2>4. (TypeIsSomewhere /\ NoTypeBefore /\ PrunedForGood)'
    BY <1>0, <1>15, <2>3 DEF Tick, TaskReturns, TypeIsSomewhere, NoTypeBefore,
       PrunedForGood
  <2>5. TaskEnds'
    BY <1>0, <1>15 DEF Tick, TaskReturns, TaskEnds
  <2>6. (Courses /\ NotYetPlayed /\ HeldOnly)'
    BY <1>0, <1>15 DEF Tick, TaskReturns, Courses, NotYetPlayed, HeldOnly
  <2>7. QED
    BY <2>1, <2>2, <2>3, <2>4, <2>5, <2>6 DEF IInv
<1>16. CASE TaskThread
  <2>1. Shapes'
    BY <1>0, <1>16 DEF TaskThread, CheckCanceled, LockCv, BeginWait, Shapes,
       Places, TaskTypeOK
  <2>2. TaskEnds'
    BY <1>0, <1>16 DEF TaskThread, CheckCanceled, LockCv, BeginWait, TaskEnds
  <2>3. (Courses /\ NotYetPlayed /\ HeldOnly /\ TypeIsSomewhere /\ NoTypeBefore /\ PrunedForGood)'
    BY <1>0, <1>16 DEF TaskThread, CheckCanceled, LockCv, BeginWait, Courses,
       NotYetPlayed, HeldOnly, TypeIsSomewhere, NoTypeBefore, PrunedForGood
  <2>4. QED
    BY <2>1, <2>2, <2>3 DEF IInv
<1>17. CASE NextPeriod
  <2>1. Shapes'
    BY <1>0, <1>17 DEF NextPeriod, PeriodOver, Shapes, Places, TaskTypeOK
  <2>2. TaskEnds'
    BY <1>0, <1>17 DEF NextPeriod, PeriodOver, TaskEnds
  <2>3. (Courses /\ NotYetPlayed /\ HeldOnly /\ TypeIsSomewhere /\ NoTypeBefore /\ PrunedForGood)'
    BY <1>0, <1>17 DEF NextPeriod, PeriodOver, Courses, NotYetPlayed, HeldOnly,
       TypeIsSomewhere, NoTypeBefore, PrunedForGood
  <2>4. QED
    BY <2>1, <2>2, <2>3 DEF IInv
<1>18. ASSUME NEW src \in {"watch", "play", "delete"}, Dispatch(src) PROVE IInv'
  <2>1. idle' \subseteq idle /\ pipe' \in {"null", "playing", "deleted"} /\ watch_added' \in BOOLEAN
    BY <1>0, <1>18 DEF Dispatch, Shapes
  <2>2. Shapes'
    BY <1>0, <1>18, <2>1 DEF Dispatch, Shapes, Places, TaskTypeOK
  <2>3. NotYetPlayed'
    BY <1>0, <1>18 DEF Dispatch, NotYetPlayed
  <2>4. (Courses /\ HeldOnly /\ TypeIsSomewhere /\ NoTypeBefore /\ PrunedForGood /\ TaskEnds)'
    BY <1>0, <1>18 DEF Dispatch, Courses, HeldOnly, TypeIsSomewhere,
       NoTypeBefore, PrunedForGood, TaskEnds
  <2>5. QED
    BY <2>1, <2>2, <2>3, <2>4 DEF IInv
<1>19. CASE UNCHANGED vars
  BY <1>0, <1>19 DEF vars, IInv, TaskTypeOK, Shapes, Courses, NotYetPlayed,
     HeldOnly, TypeIsSomewhere, NoTypeBefore, PrunedForGood, TaskEnds
<1> QED
  BY <1>1, <1>2, <1>3, <1>4, <1>5, <1>6, <1>7, <1>8, <1>9, <1>10, <1>11, <1>12,
     <1>13, <1>14, <1>15, <1>16, <1>17, <1>18, <1>19 DEF Next, OwnerNext,
     ReaderNext, LoopNext

\* The invariant holds at first.
LEMMA Initially == Init => IInv
<1> SUFFICES ASSUME Init PROVE IInv
  OBVIOUS
<1>1. Shapes
  <2>1. TaskTypeOK
    BY DEF Init, NoTask, TaskTypeOK
  <2>2. NoBranch \in Branches
    BY DEF Branches
  <2>3. lives \in 0 .. MaxLives
    BY DEF Init
  <2>4. QED
    BY <2>1, <2>2, <2>3 DEF Init, Shapes, Places
<1>2. QED
  BY <1>1 DEF Init, NoTask, IInv, Courses, NotYetPlayed, HeldOnly, TypeIsSomewhere,
              NoTypeBefore, PrunedForGood, TaskEnds

-----------------------------------------------------------------------------
(* The theorems.                                                           *)

\* The inductive invariant is one.
THEOREM Invariance == Spec => []IInv
BY Initially, Step, PTL DEF Spec

\* While the object lives and no callback runs, the branch shows the type of
\* the stream, whatever a former life left and however the statistics, the
\* callbacks and initialize_tree interleave (follower.cpp:50).
THEOREM CapsAlwaysShown == Spec => []CapsShown
<1>1. IInv => CapsShown
  BY DEF IInv, TypeIsSomewhere, CapsShown
<1>2. QED
  BY <1>1, Invariance, PTL

\* What a destroyed follower or writer leaves tells of no type, although the
\* destructor of a follower prunes only sometimes and its task may still write
\* statistics after it (follower.cpp:57).
THEOREM NoTypeIsLeft == Spec => []LeavesNoType
<1>1. IInv => LeavesNoType
  BY DEF IInv, PrunedForGood, LeavesNoType
<1>2. QED
  BY <1>1, Invariance, PTL

\* When the owner has destroyed the object no thread of it is left: the task
\* has ended (periodic-task.hpp:43) and the callbacks are disconnected.
THEOREM NoThreadIsLeft == Spec => []NoThreadLeft
<1>1. IInv => NoThreadLeft
  BY DEF IInv, Courses, TaskEnds, NoThreadLeft
<1>2. QED
  BY <1>1, Invariance, PTL
=============================================================================
