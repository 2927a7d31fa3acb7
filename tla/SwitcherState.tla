---------------------------- MODULE SwitcherState ----------------------------
(***************************************************************************)
(* switcher.cpp and session/session.cpp: the state of a switcher, its      *)
(* reset, its save and its load, from the files of the session.  Trees are *)
(* functions from nicknames; a quiddity has one property besides           *)
(* "started", and user data.  Each call runs in the user's thread and is   *)
(* one step.                                                               *)
(***************************************************************************)
EXTENDS Ids, FiniteSets

CONSTANTS
  Nicks, Kinds,
  Values, Default,   \* of the property, and the one it is created with
  Stems,             \* session file names without their extension
  NoState,           \* content that does not parse
  MaxIds,            \* bound: creations that get an identifier
  MaxEdits           \* bound: changes of quiddities by the user

ASSUME StateAssumption ==
  /\ Default \in Values /\ NoState \notin Values
  /\ MaxIds \in Nat /\ MaxIds < kMaxNumOfIds /\ MaxEdits \in Nat

VARIABLES
  ids,          \* ids_ of the container
  quids,        \* quiddities_: id -> quiddity
  at_reset,     \* quiddities_at_reset_
  files,        \* the session directory: stem -> state
  edits,        \* how many changes the user made
  (* history *)
  old           \* the quiddities that existed at the last reset

stateVars == <<ids, quids, at_reset, files, edits, old>>

\* Names given to the session: a stem and its extension, .json or none, or
\* another one.
Names == Stems \X {"json", "other"}

\* a quiddity as its constructor leaves it
NewQuid(n, k) == [nick |-> n, kind |-> k, value |-> Default, saved |-> TRUE,
                  started |-> FALSE, user |-> FALSE]

StateInit ==
  /\ ids = NoIds /\ quids = << >> /\ at_reset = {} /\ files = << >>
  /\ edits = 0 /\ old = {}

-----------------------------------------------------------------------------
(* What the user does with quiddities.                                     *)

Nicknames == {quids[i].nick : i \in DOMAIN quids}

\* an identifier is used up also when the nickname is unavailable
create(n, k) ==
  /\ ids.cur < MaxIds
  /\ IF n \in Nicknames
       THEN ids' = AfterReleaseLast(AfterAllocate(ids)) /\ UNCHANGED quids
       ELSE /\ ids' = AfterAllocate(ids)
            /\ quids' = [i \in DOMAIN quids \cup {allocate_id(ids)} |->
                           IF i = allocate_id(ids) THEN NewQuid(n, k) ELSE quids[i]]
  /\ UNCHANGED <<at_reset, files, edits, old>>

\* Below MaxIds the identifiers are given in order: so they stand in ids_,
\* and the ones that are left when others are erased do too.
InOrder(S) == {s \in SetToSeqs(S) : \A j, k \in DOMAIN s : j < k => s[j] < s[k]}

Without(S) ==
  /\ quids' = Restrict(quids, DOMAIN quids \ S)
  /\ \E rest \in InOrder(Allocated(ids) \ S) : ids' = [ids EXCEPT !.ids = rest]

remove(i) ==
  /\ i \in DOMAIN quids /\ Without({i})
  /\ old' = old \ {i}
  /\ UNCHANGED <<at_reset, files, edits>>

\* set_nickname, which takes a nickname in use too, a property set, started
\* or not, toggle_property_saving, and a graft in the user data
Edits(q) ==
       {[q EXCEPT !.nick = n] : n \in Nicks}
  \cup {[q EXCEPT !.value = v] : v \in Values}
  \cup {[q EXCEPT !.started = ~@], [q EXCEPT !.saved = ~@], [q EXCEPT !.user = TRUE]}

Edit(i) ==
  /\ edits < MaxEdits /\ edits' = edits + 1
  /\ \E q \in Edits(quids[i]) : q # quids[i] /\ quids' = [quids EXCEPT ![i] = q]
  /\ UNCHANGED <<ids, at_reset, files, old>>

-----------------------------------------------------------------------------
(* Switcher.                                                               *)

reset_state(clear) ==
  /\ IF clear THEN Without(DOMAIN quids \ at_reset) ELSE UNCHANGED <<ids, quids>>
  /\ at_reset' = Allocated(ids') /\ old' = DOMAIN quids'
  /\ UNCHANGED <<files, edits>>

\* The last of the quiddities of S with nickname n: a graft at the path of
\* another replaces it.
LastOf(qs, S, n) == qs[Max({i \in S : qs[i].nick = n})]
NicksOf(qs, S) == {qs[i].nick : i \in S}

\* get_state: "readers" is always empty, no quiddity has "connect-quid"
get_state(qs, base) ==
  LET all == DOMAIN qs
      created == all \ base
      savers == {i \in all : qs[i].saved}
      users == {i \in all : qs[i].user}
  IN  [quiddities |-> [n \in NicksOf(qs, created) |-> LastOf(qs, created, n).kind],
       properties |-> [n \in NicksOf(qs, savers) |-> LastOf(qs, savers, n).value],
       started |-> [n \in NicksOf(qs, all) |-> LastOf(qs, all, n).started],
       userdata |-> NicksOf(qs, users)]

\* (mutant) the started state is not loaded
NotStarted(q, s, refused) ==
  [q EXCEPT !.value = IF "value" \notin refused /\ q.nick \in DOMAIN s.properties
                        THEN s.properties[q.nick] ELSE @,
            !.user = @ \/ q.nick \in s.userdata]
\* What load_state does with the quiddity found under a nickname: properties,
\* "started" last, and user data.  A value that is refused is skipped.
Loaded(q, s, refused) ==
  [q EXCEPT !.value = IF "value" \notin refused /\ q.nick \in DOMAIN s.properties
                        THEN s.properties[q.nick] ELSE @,
            !.started = IF "started" \notin refused /\ q.nick \in DOMAIN s.started
                          THEN s.started[q.nick] ELSE @,
            !.user = @ \/ q.nick \in s.userdata]

\* Properties that refuse their value, by quiddity: at most one per load.
NoRefusal == [i \in 1..MaxIds |-> {}]
Refusals == {[NoRefusal EXCEPT ![i] = S] :
               i \in 1..MaxIds, S \in {{}, {"value"}, {"started"}}}

\* load_state(s): a creation is tried for each quiddity of s, in any order,
\* and uses up an identifier; it fails if the nickname is taken, or (failed)
\* if the constructor fails.  Then each nickname of s is looked up in an
\* unordered map.
load_state(s, failed, refused) ==
  LET all == DOMAIN s.quiddities
      made == all \ (Nicknames \cup failed)
      last == ids.cur + Cardinality(all)
  IN  /\ last <= MaxIds
      /\ failed \subseteq all \ Nicknames
      /\ \E tried \in Bijection((ids.cur + 1)..last, all) :
           LET new == {i \in DOMAIN tried : tried[i] \in made}
               qs == [i \in DOMAIN quids \cup new |->
                        IF i \in new THEN NewQuid(tried[i], s.quiddities[tried[i]])
                                     ELSE quids[i]]
           IN  /\ \E more \in InOrder(new) :
                    ids' = [ids |-> ids.ids \o more, cur |-> last]
               /\ \E found \in [NicksOf(qs, DOMAIN qs) -> DOMAIN qs] :
                    /\ \A n \in DOMAIN found : qs[found[n]].nick = n
                    /\ quids' = [i \in DOMAIN qs |->
                                   IF i = found[qs[i].nick]
                                     THEN Loaded(qs[i], s, refused[i])
                                     ELSE qs[i]]
      /\ UNCHANGED <<at_reset, files, edits, old>>

-----------------------------------------------------------------------------
(* Session.                                                                *)

\* Any name is reduced to its stem, with .json.
FileOf(name) == name[1]

\* remove compares the names of the files with the name given, with and
\* without .json, so that it does not find a name with another extension.
Removable(name) == name[2] # "other"

Put(f, content) ==
  files' = [g \in DOMAIN files \cup {f} |-> IF g = f THEN content ELSE files[g]]

save_as(name) ==
  /\ Put(FileOf(name), get_state(quids, at_reset))
  /\ UNCHANGED <<ids, quids, at_reset, edits, old>>

copy(src, dst) ==
  /\ FileOf(src) \in DOMAIN files /\ Put(FileOf(dst), files[FileOf(src)])
  /\ UNCHANGED <<ids, quids, at_reset, edits, old>>

\* write: a content that the user made, which need not parse
write(name) ==
  /\ Put(FileOf(name), NoState)
  /\ UNCHANGED <<ids, quids, at_reset, edits, old>>

removeFile(name) ==
  /\ Removable(name) /\ FileOf(name) \in DOMAIN files
  /\ files' = Restrict(files, DOMAIN files \ {FileOf(name)})
  /\ UNCHANGED <<ids, quids, at_reset, edits, old>>

\* load: of a content that does not parse it returns FALSE
load(name, failed, refused) ==
  /\ FileOf(name) \in DOMAIN files /\ files[FileOf(name)] # NoState
  /\ load_state(files[FileOf(name)], failed, refused)

StateNext ==
  \/ \E n \in Nicks, k \in Kinds : create(n, k)
  \/ \E i \in DOMAIN quids : remove(i) \/ Edit(i)
  \/ \E clear \in BOOLEAN : reset_state(clear)
  \/ \E name \in Names : save_as(name) \/ write(name) \/ removeFile(name)
  \/ \E src, dst \in Names : copy(src, dst)
  \/ \E name \in Names, failed \in SUBSET Nicks, refused \in Refusals :
       load(name, failed, refused)

StateSpec == StateInit /\ [][StateNext]_stateVars

-----------------------------------------------------------------------------
(* Properties.                                                             *)

\* switcher.cpp:82: quiddities_at_reset_ keeps the identifiers of quiddities
\* that are removed later.  They never stand for another quiddity: exactly
\* the quiddities made since the last reset, by hand or by a load, are saved
\* with their kind and cleared by the next reset.
CreatedIsSaved ==
  /\ DOMAIN quids \cap at_reset = old
  /\ DOMAIN get_state(quids, at_reset).quiddities =
       NicksOf(quids, DOMAIN quids \ old)

\* The nicknames of a state that were not in use before it is loaded.
Fresh(s) == DOMAIN s.quiddities \ Nicknames

\* switcher.cpp:94, :232: a load in which nothing fails brings the switcher
\* to a state that would be saved with the same kinds, values, started states
\* and user data for all quiddities whose nicknames were free; whatever the
\* nicknames that were in use, also twice, when the state was saved and now.
LoadRestores ==
  [][\A f \in DOMAIN files :
       (files[f] # NoState /\ load_state(files[f], {}, NoRefusal)) =>
         LET s == files[f]
             t == get_state(quids', at_reset')
         IN  \A n \in Fresh(s) :
               /\ n \in DOMAIN t.quiddities /\ t.quiddities[n] = s.quiddities[n]
               /\ n \in DOMAIN s.properties => t.properties[n] = s.properties[n]
               /\ t.started[n] = s.started[n]
               /\ n \in s.userdata <=> n \in t.userdata]_stateVars
=============================================================================
