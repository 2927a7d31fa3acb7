--------------------------------- MODULE Ids ---------------------------------
(***************************************************************************)
(* utils/ids.cpp: a list of unique identifiers.  The container of          *)
(* quiddities and the connection specification of each quiddity take their *)
(* identifiers from one.  The state of an instance is the vector ids_ and  *)
(* the last identifier given, cur_id_.                                     *)
(***************************************************************************)
EXTENDS Naturals, Sequences, SequencesExt

CONSTANT IdMax      \* std::numeric_limits<id_t>::max()

ASSUME IdMaxAssumption == IdMax \in Nat /\ IdMax >= 2

kInvalid == 0
kMaxNumOfIds == IdMax - 1

NoIds == [ids |-> <<>>, cur |-> kInvalid]

Allocated(s) == Range(s.ids)

Free(s) == (1..IdMax) \ Allocated(s)

\* (mutant) the search restarts from 1
FirstFree(s) == Min(Free(s))

\* The loop of allocate_id: the first identifier that is not in ids_, after
\* cur_id_ and then, past the largest one, from 1.
NextFree(s) ==
  LET after == {i \in Free(s) : i > s.cur}
  IN  IF after # {} THEN Min(after) ELSE Min(Free(s))

Full(s) == Len(s.ids) = kMaxNumOfIds

\* (mutant) the counter is not moved
LastGiven(s) == s.cur

\* allocate_id: the value it returns and the state it leaves.
allocate_id(s) == IF Full(s) THEN kInvalid ELSE NextFree(s)
AfterAllocate(s) ==
  IF Full(s) THEN s
  ELSE [ids |-> Append(s.ids, NextFree(s)), cur |-> NextFree(s)]

\* release_last_allocated_id: erases the last element of the vector.
AfterReleaseLast(s) == [s EXCEPT !.ids = Front(@)]

\* release_id: its result is "was it allocated".
is_allocated(s, id) == id \in Allocated(s)
AfterRelease(s, id) == [s EXCEPT !.ids = RemoveFirst(@, id)]
=============================================================================
