---------------------------- MODULE AbstractList ----------------------------
(***************************************************************************)
(* What ns_list.h documents, free of links: every list is a sequence of    *)
(* entries, an entry is on one list at most, and each operation does to    *)
(* the sequences what its name says.  op is the last operation.            *)
(***************************************************************************)
EXTENDS SequencesExt

CONSTANTS List, Entry, NULL

VARIABLES content, op

listVars == <<content, op>>

Detached(e) == \A l \in List : e \notin Range(content[l])
Position(l, e) == CHOOSE i \in DOMAIN content[l] : content[l][i] = e

Did(name, l, at, e) == op' = [name |-> name, list |-> l, at |-> at, entry |-> e]
Becomes(l, s) == content' = [content EXCEPT ![l] = s]

ListInit ==
    /\ content = [l \in List |-> << >>]
    /\ op = [name |-> "none", list |-> NULL, at |-> NULL, entry |-> NULL]

Clear(l) == Did("init", l, NULL, NULL) /\ Becomes(l, << >>)

\* A new entry, at either end.
Add(l, e) ==
    \/ /\ Did("add_to_start", l, NULL, e)
       /\ Detached(e) /\ Becomes(l, <<e>> \o content[l])
    \/ /\ Did("add_to_end", l, NULL, e)
       /\ Detached(e) /\ Becomes(l, Append(content[l], e))

\* A new entry, next to the entry at or in its place.
Fits(l, at, e) == at \in Range(content[l]) /\ Detached(e)

AddAt(l, at, e) ==
    LET i == Position(l, at)
    IN  \/ /\ Did("add_before", l, at, e)
           /\ Fits(l, at, e) /\ Becomes(l, InsertAt(content[l], i, e))
        \/ /\ Did("add_after", l, at, e)
           /\ Fits(l, at, e) /\ Becomes(l, InsertAt(content[l], i + 1, e))
        \/ /\ Did("replace", l, at, e)
           /\ Fits(l, at, e) /\ Becomes(l, ReplaceAt(content[l], i, e))

Drop(l, e) ==
    /\ Did("remove", l, NULL, e)
    /\ e \in Range(content[l])
    /\ Becomes(l, RemoveAt(content[l], Position(l, e)))

Concatenate(dst, src) ==
    /\ dst # src
    /\ Did("concatenate", dst, src, NULL)
    /\ content' = [content EXCEPT ![dst] = @ \o content[src], ![src] = << >>]

ListNext ==
    \/ \E l \in List : Clear(l)
    \/ \E l \in List, e \in Entry :
          \/ Add(l, e)
          \/ \E at \in Entry : AddAt(l, at, e)
          \/ Drop(l, e)
    \/ \E dst, src \in List : Concatenate(dst, src)

ListSpec == ListInit /\ [][ListNext]_listVars
=============================================================================
