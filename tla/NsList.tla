------------------------------- MODULE NsList -------------------------------
(***************************************************************************)
(* mbed-client-libservice/ns_list.h: intrusive doubly linked lists, and    *)
(* the four loops over them, whose body is client code that may change     *)
(* the lists.                                                              *)
(*                                                                         *)
(* A void ** always points to a list's first_entry or to an entry's next,  *)
(* so it is named by that list or entry, and both kinds of cell are one    *)
(* function: next[l] is l->first_entry, next[e] the next field of e.       *)
(* NS_LIST_ENTRY_, the way back from the address of a next field to its    *)
(* entry, is then the identity.  An entry has one link field; offsets and  *)
(* types are left out.                                                     *)
(*                                                                         *)
(* An operator X_Suffix before an operator X is a faulty variant of X, the *)
(* way a slip in the code would change it; no action uses it.              *)
(***************************************************************************)
EXTENDS Integers, SequencesExt

CONSTANTS
    List, Entry,
    NULL,
    NS_LIST_POISON   \* the value of the links of an entry that was removed

Cell == List \cup Entry
Loops == {"foreach", "foreach_safe", "foreach_reverse", "foreach_reverse_safe"}
Safe == {"foreach_safe", "foreach_reverse_safe"}
Forward == {"foreach", "foreach_safe"}

ASSUME ListAssumption ==
    /\ List \cap Entry = {}
    /\ {NULL, NS_LIST_POISON} \cap Cell = {}
    /\ NULL # NS_LIST_POISON
    /\ IsFiniteSet(Entry)

VARIABLES
    next,           \* first_entry of each list, next of each entry
    prev,           \* of each entry: the cell that points to it
    last_nextptr,   \* of each list: the cell that holds its final NULL
    owner,          \* auxiliary: the list an entry was put on, or NULL
    op,             \* auxiliary: the last operation
    loop,           \* the running loop: its kind, list, e and _next##e
    stayed,         \* auxiliary: on the list since the loop began
    visited         \* auxiliary: those of stayed the loop came to, in order

links == <<next, prev, last_nextptr>>
iteration == <<loop, stayed, visited>>
vars == <<links, owner, op, iteration>>

NoLoop == [kind |-> "none", list |-> NULL, e |-> NULL, saved |-> NULL]

-----------------------------------------------------------------------------
(* Navigation *)

ns_list_get_first(l) == next[l]
ns_list_is_empty(l) == next[l] = NULL
ns_list_get_next(e) == next[e]

get_previous_Unchecked(l, e) == prev[e]

ns_list_get_previous(l, e) == IF e = next[l] THEN NULL ELSE prev[e]

ns_list_get_last(l) == IF next[l] = NULL THEN NULL ELSE last_nextptr[l]

\* The entries met from the first on until NULL, as ns_list_count_ counts
\* them; a walk that does not end stops after one more than all entries.
Contents(l) ==
    LET bound == Cardinality(Entry) + 1
        at[n \in 1..bound] ==
            IF n = 1 THEN ns_list_get_first(l)
            ELSE IF at[n - 1] \in Entry THEN ns_list_get_next(at[n - 1]) ELSE NULL
        met == {n \in 1..bound : at[n] # NULL}
    IN  [n \in 1..Cardinality(met) |-> at[n]]

ns_list_count(l) == Len(Contents(l))

-----------------------------------------------------------------------------
(* What the client sees to: entries it adds are on no list, entries it      *)
(* names are on the list it names, and the entry a running loop is still    *)
(* going to use stays on its list.                                         *)

On(l) == {e \in Entry : owner[e] = l}
Detached == {e \in Entry : owner[e] = NULL}

\* The entry a loop reads after its body has run, or NULL.
Needed == IF loop.kind \in Safe THEN loop.saved ELSE loop.e

Leaves(S) == Needed \notin S

\* S leaves the list of the loop, or comes to another list.
Forgets(S) ==
    /\ stayed' = stayed \ S
    /\ UNCHANGED <<loop, visited>>

Did(name, l, at, e) == op' = [name |-> name, list |-> l, at |-> at, entry |-> e]

-----------------------------------------------------------------------------
(* Operations *)

ns_list_init(l) ==
    /\ Leaves(On(l))
    /\ next' = [next EXCEPT ![l] = NULL]
    /\ last_nextptr' = [last_nextptr EXCEPT ![l] = l]
    /\ owner' = [e \in Entry |-> IF owner[e] = l THEN NULL ELSE owner[e]]
    /\ Did("init", l, NULL, NULL)
    /\ Forgets(On(l))
    /\ UNCHANGED prev

ns_list_link_init(e) ==
    /\ e \in Detached
    /\ next' = [next EXCEPT ![e] = NS_LIST_POISON]
    /\ prev' = [prev EXCEPT ![e] = NS_LIST_POISON]
    /\ UNCHANGED <<last_nextptr, owner, op, iteration>>

\* The cell before nx, which is nx's prev or the list's last_nextptr, is c.
PrecededBy_OnlyPrev(p, l, nx, c) ==
    /\ prev' = IF nx # NULL THEN [p EXCEPT ![nx] = c] ELSE p
    /\ UNCHANGED last_nextptr

PrecededBy(p, l, nx, c) ==
    /\ prev' = IF nx # NULL THEN [p EXCEPT ![nx] = c] ELSE p
    /\ last_nextptr' = IF nx # NULL THEN last_nextptr
                       ELSE [last_nextptr EXCEPT ![l] = c]

Joins(l, e) == owner' = [owner EXCEPT ![e] = l] /\ UNCHANGED iteration

\* Entry e behind cell c of list l.
AddBehind(l, c, e) ==
    /\ e \in Detached
    /\ PrecededBy([prev EXCEPT ![e] = c], l, next[c], e)
    /\ next' = [next EXCEPT ![e] = next[c], ![c] = e]
    /\ Joins(l, e)

ns_list_add_to_start(l, e) ==
    AddBehind(l, l, e) /\ Did("add_to_start", l, NULL, e)

ns_list_add_after(l, current, e) ==
    /\ current \in On(l)
    /\ AddBehind(l, current, e)
    /\ Did("add_after", l, current, e)

ns_list_add_before(l, current, e) ==
    /\ current \in On(l) /\ e \in Detached
    /\ next' = [next EXCEPT ![e] = current, ![prev[current]] = e]
    /\ prev' = [prev EXCEPT ![e] = prev[current], ![current] = e]
    /\ Joins(l, e)
    /\ Did("add_before", l, current, e)
    /\ UNCHANGED last_nextptr

ns_list_add_to_end(l, e) ==
    /\ e \in Detached
    /\ next' = [next EXCEPT ![e] = NULL, ![last_nextptr[l]] = e]
    /\ prev' = [prev EXCEPT ![e] = last_nextptr[l]]
    /\ last_nextptr' = [last_nextptr EXCEPT ![l] = e]
    /\ Joins(l, e)
    /\ Did("add_to_end", l, NULL, e)

ns_list_remove(l, e) ==
    /\ e \in On(l) /\ Leaves({e})
    /\ PrecededBy([prev EXCEPT ![e] = NS_LIST_POISON], l, next[e], prev[e])
    /\ next' = [next EXCEPT ![prev[e]] = next[e], ![e] = NS_LIST_POISON]
    /\ owner' = [owner EXCEPT ![e] = NULL]
    /\ Did("remove", l, NULL, e)
    /\ Forgets({e})

ns_list_replace(l, current, e) ==
    /\ current \in On(l) /\ e \in Detached /\ Leaves({current})
    /\ PrecededBy([prev EXCEPT ![e] = prev[current], ![current] = NS_LIST_POISON],
                  l, next[current], e)
    /\ next' = [next EXCEPT ![e] = next[current], ![prev[current]] = e,
                            ![current] = NS_LIST_POISON]
    /\ owner' = [owner EXCEPT ![e] = l, ![current] = NULL]
    /\ Did("replace", l, current, e)
    /\ Forgets({current})

\* All of src behind dst, when there is anything.
concatenate_TailKept(dst, src) ==
    LET first == next[src]
    IN  /\ next' = [next EXCEPT ![last_nextptr[dst]] = first, ![src] = NULL]
        /\ prev' = [prev EXCEPT ![first] = last_nextptr[dst]]
        /\ last_nextptr' = [last_nextptr EXCEPT ![src] = src]

Splice(dst, src) ==
    LET first == next[src]
    IN  /\ next' = [next EXCEPT ![last_nextptr[dst]] = first, ![src] = NULL]
        /\ prev' = [prev EXCEPT ![first] = last_nextptr[dst]]
        /\ last_nextptr' = [last_nextptr EXCEPT ![dst] = last_nextptr[src],
                                                ![src] = src]

ns_list_concatenate(dst, src) ==
    /\ dst # src /\ Leaves(On(src))
    /\ IF ns_list_is_empty(src) THEN UNCHANGED links ELSE Splice(dst, src)
    /\ owner' = [e \in Entry |-> IF owner[e] = src THEN dst ELSE owner[e]]
    /\ Did("concatenate", dst, src, NULL)
    /\ Forgets(On(src))

-----------------------------------------------------------------------------
(* The loops: ns_list_foreach and its three variants *)

Step(kind, l, e) == IF kind \in Forward THEN ns_list_get_next(e)
                    ELSE ns_list_get_previous(l, e)

ComeTo_SavesNext(kind, l, e) ==
    loop' = [kind |-> kind, list |-> l, e |-> e,
             saved |-> IF kind \in Safe /\ e # NULL THEN ns_list_get_next(e) ELSE NULL]

\* The loop's body runs with entry e, or the loop is over.
ComeTo(kind, l, e) ==
    loop' = [kind |-> kind, list |-> l, e |-> e,
             saved |-> IF kind \in Safe /\ e # NULL THEN Step(kind, l, e) ELSE NULL]

LoopBegins(kind, l) ==
    LET e == IF kind \in Forward THEN ns_list_get_first(l) ELSE ns_list_get_last(l)
    IN  /\ loop = NoLoop
        /\ ComeTo(kind, l, e)
        /\ stayed' = On(l)
        /\ visited' = IF e = NULL THEN << >> ELSE <<e>>
        /\ UNCHANGED <<links, owner, op>>

\* Where the loop goes on after its body: the safe loops remembered it.
Following(k) == IF k.kind \in Safe THEN k.saved ELSE Step(k.kind, k.list, k.e)

LoopGoesOn ==
    LET e == Following(loop)
    IN  /\ loop.e # NULL
        /\ ComeTo(loop.kind, loop.list, e)
        /\ visited' = IF e \in stayed THEN Append(visited, e) ELSE visited
        /\ UNCHANGED <<links, owner, op, stayed>>

LoopEnds ==
    /\ loop.kind # "none" /\ loop.e = NULL
    /\ loop' = NoLoop
    /\ stayed' = {}
    /\ visited' = << >>
    /\ UNCHANGED <<links, owner, op>>

-----------------------------------------------------------------------------
Init ==
    /\ next = [c \in Cell |-> IF c \in List THEN NULL ELSE NS_LIST_POISON]
    /\ prev = [e \in Entry |-> NS_LIST_POISON]
    /\ last_nextptr = [l \in List |-> l]
    /\ owner = [e \in Entry |-> NULL]
    /\ op = [name |-> "none", list |-> NULL, at |-> NULL, entry |-> NULL]
    /\ loop = NoLoop
    /\ stayed = {}
    /\ visited = << >>

Operation ==
    \/ \E l \in List : ns_list_init(l)
    \/ \E e \in Entry : ns_list_link_init(e)
    \/ \E l \in List, e \in Entry :
          \/ ns_list_add_to_start(l, e)
          \/ ns_list_add_to_end(l, e)
          \/ ns_list_remove(l, e)
          \/ \E current \in Entry :
                \/ ns_list_add_before(l, current, e)
                \/ ns_list_add_after(l, current, e)
                \/ ns_list_replace(l, current, e)
    \/ \E dst, src \in List : ns_list_concatenate(dst, src)

Iterate ==
    \/ \E kind \in Loops, l \in List : LoopBegins(kind, l)
    \/ LoopGoesOn
    \/ LoopEnds

Next == Operation \/ Iterate

Spec == Init /\ [][Next]_vars

-----------------------------------------------------------------------------
(* Properties *)

\* Every link holds an entry, the address of a cell, NULL or the poison; a
\* loop never has the poison.
TypeOK ==
    /\ next \in [Cell -> Entry \cup {NULL, NS_LIST_POISON}]
    /\ prev \in [Entry -> Cell \cup {NS_LIST_POISON}]
    /\ last_nextptr \in [List -> Cell]
    /\ owner \in [Entry -> List \cup {NULL}]
    /\ loop \in [kind : Loops \cup {"none"}, list : List \cup {NULL},
                 e : Entry \cup {NULL}, saved : Entry \cup {NULL}]
    /\ stayed \subseteq Entry
    /\ visited \in Seq(Entry)

\* The cell before position i + 1 of a list whose entries are s.
CellAt(l, s, i) == IF i = 0 THEN l ELSE s[i]

\* The links of list l spell out s: s has every entry of the list once, each
\* entry and the cell before it point to each other, and the last cell has
\* NULL and is the one last_nextptr names.
Spells(l, s) ==
    /\ Range(s) = On(l) /\ IsInjective(s)
    /\ \A i \in DOMAIN s : /\ next[CellAt(l, s, i - 1)] = s[i]
                           /\ prev[s[i]] = CellAt(l, s, i - 1)
    /\ next[CellAt(l, s, Len(s))] = NULL
    /\ last_nextptr[l] = CellAt(l, s, Len(s))

\* Every list can be walked both ways, from its head along next and from
\* last_nextptr along prev, and both walks meet exactly the entries that were
\* put on it: no ring, no entry lost, and none that was removed or moved.
WellLinked == \A l \in List : Spells(l, Contents(l))

\* The entries a loop still counts on are on its list: where it will go on,
\* and the ones that stayed.
LoopOnList ==
    IF loop.kind = "none" THEN loop = NoLoop
    ELSE /\ loop.list \in List
         /\ Needed \in On(loop.list) \cup {NULL}
         /\ stayed \subseteq On(loop.list)

\* A loop of that kind over the entries s leads from entry a to entry b.
Leads(kind, s, a, b) ==
    \E i, j \in DOMAIN s :
        s[i] = a /\ s[j] = b /\ IF kind \in Forward THEN i < j ELSE j < i

\* The running loop, over the entries s, is past entry e.
Passed(s, e) ==
    \/ Needed = NULL
    \/ Leads(loop.kind, s, e, Needed)
    \/ loop.kind \notin Safe /\ e = Needed

\* The positions of the loop's visits to entries that stayed on its list.
Seen == {k \in DOMAIN visited : visited[k] \in stayed}

\* Of the entries that stayed, the loop has visited those it is past, in the
\* order in which the list has them; a loop that is over has nowhere to go on.
VisitInv ==
    loop.kind # "none" =>
        LET s == Contents(loop.list)
        IN  /\ \A j, k \in Seen :
                  j < k => Leads(loop.kind, s, visited[j], visited[k])
            /\ \A e \in stayed : e \in Range(visited) <=> Passed(s, e)
            /\ loop.e = NULL => Needed = NULL

\* The types, the links and the loop's hold on its list.
LinkInv == TypeOK /\ WellLinked /\ LoopOnList

\* What every step keeps.
IInv == LinkInv /\ VisitInv

Abstract == INSTANCE AbstractList WITH content <- [l \in List |-> Contents(l)]

\* Followed from the head, the links spell out the sequence that ns_list.h
\* documents for every operation, whatever order the operations come in: the
\* lists implement AbstractList.
ImplementsList == Abstract!ListSpec

\* ns_list.h:478-560: while the body of a loop adds and removes entries, as
\* its kind of loop permits, the loop comes to the entries that stay on the
\* list in list order, each once and none left out, and to all of them before
\* it ends; when nothing joined the list, their number is what ns_list_count
\* tells.
VisitsInOrder ==
    loop.kind # "none" =>
        LET s == Contents(loop.list)
        IN  /\ \A j, k \in Seen :
                  j < k => Leads(loop.kind, s, visited[j], visited[k])
            /\ \A k \in Seen, e \in stayed :
                  Leads(loop.kind, s, e, visited[k]) => e \in Range(visited)
            /\ loop.e = NULL => stayed \subseteq Range(visited)
            /\ loop.e = NULL /\ stayed = On(loop.list) =>
                   /\ Cardinality(Seen) = ns_list_count(loop.list)
                   /\ Seen = {} <=> ns_list_is_empty(loop.list)
=============================================================================
