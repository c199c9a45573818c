----------------------------- MODULE ValueSort -----------------------------
(***************************************************************************)
(* slices.SortFunc as bus/watch.go uses it on attached values.  A short    *)
(* list is sorted by insertion: an element moves left while it compares    *)
(* less than its left neighbour.                                           *)
(***************************************************************************)
EXTENDS Integers, Sequences, SequencesExt

CONSTANT IdModulus   \* 2^32 in the code: value ids are uint32

ASSUME IdModulusAssumption == IdModulus \in Nat \ {0}

\* int(a.GetValueID() - b.GetValueID()): the difference wraps around before
\* it is converted to an int, which has room for all of it.
IdDiff(a, b) == (a - b) % IdModulus

\* where x comes to rest: right of the last element it is not less than
Rest(s, x) == {j \in 0..Len(s) :
  /\ j = 0 \/ ~(IdDiff(x, s[j]) < 0)
  /\ \A k \in (j + 1)..Len(s) : IdDiff(x, s[k]) < 0}

Insert(s, x) == InsertAt(s, (CHOOSE j \in Rest(s, x) : TRUE) + 1, x)

SortFunc(s) ==
  LET sorted[i \in 0..Len(s)] == IF i = 0 THEN <<>> ELSE Insert(sorted[i - 1], s[i])
  IN  sorted[Len(s)]

=============================================================================
