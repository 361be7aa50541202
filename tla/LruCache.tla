------------------------------ MODULE LruCache ------------------------------
(***************************************************************************)
(* What snapshot.LocalCache promises of its index: entries in order of     *)
(* use, never more than MaxBytes of them, and room made by dropping the    *)
(* least recently used ones, no more of them than it takes.  Get and       *)
(* Insert are single steps here; module LocalCache implements this.        *)
(***************************************************************************)
EXTENDS Integers, Sequences, SequencesExt, Functions

CONSTANTS Key, MaxBytes
VARIABLE lru      \* the entries [key, size], the most recently used first

Weight(q) == SumFunction([i \in DOMAIN q |-> q[i].size])

(* The place of k's entry, and the index with e at the front of the rest.  *)
Of(k) == {i \in DOMAIN lru : lru[i].key = k}
Without(k) == IF Of(k) = {} THEN lru ELSE RemoveAt(lru, CHOOSE i \in Of(k) : TRUE)
ToTop(e) == <<e>> \o Without(e.key)

Init == lru = <<>>

(* Get of an entry that is there.                                          *)
Touch(k) ==
  \E i \in Of(k) : lru' = ToTop(lru[i])

(* Insert, of a new entry or of one that is there, perhaps of another      *)
(* size: what remains is the longest prefix that is within the budget.     *)
Enter(k, n) ==
  LET q == ToTop([key |-> k, size |-> n]) IN
  \E m \in 1 .. Len(q) :
    /\ lru' = SubSeq(q, 1, m)
    /\ Weight(lru') <= MaxBytes
    /\ m < Len(q) => Weight(SubSeq(q, 1, m + 1)) > MaxBytes

Next == \E k \in Key : Touch(k) \/ \E n \in 0 .. MaxBytes : Enter(k, n)

Spec == Init /\ [][Next]_lru
=============================================================================
