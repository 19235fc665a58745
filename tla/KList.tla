------------------------------- MODULE KList -------------------------------
(***************************************************************************)
(* The kernel's doubly linked lists (include/linux/list.h), as sequences.  *)
(*                                                                         *)
(* A list is the sequence of the entries met from head->next onwards.      *)
(* Every list of this project is changed only under the spinlock of the    *)
(* structure that owns it, so the four pointer writes of __list_add() and  *)
(* the two of __list_del() are never seen half done, and one operator      *)
(* stands for each of them.                                                *)
(***************************************************************************)
EXTENDS Naturals, Sequences

(* The entries on list q. *)
Entries(q) == {q[i] : i \in 1..Len(q)}

(* An entry is linked at most once: __list_add() of an entry that is       *)
(* already linked corrupts the list, so every user keeps this true.        *)
LinkedOnce(q) == \A i, j \in 1..Len(q) : q[i] = q[j] => i = j

list_empty(q) == q = <<>>

list_first_entry(q) == q[1]

list_is_last(e, q) == q # <<>> /\ q[Len(q)] = e

list_add(e, q) == [i \in 1..(Len(q) + 1) |-> IF i = 1 THEN e ELSE q[i - 1]]

list_add_tail(e, q) == Append(q, e)

(* list_del() of an entry that is linked: its neighbours are joined. *)
list_del(e, q) ==
  LET k == CHOOSE i \in 1..Len(q) : q[i] = e
  IN  [i \in 1..(Len(q) - 1) |-> IF i < k THEN q[i] ELSE q[i + 1]]

=============================================================================
