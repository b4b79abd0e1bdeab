------------------------------- MODULE Lists -------------------------------
(***************************************************************************)
(* What the code writes as some, find, filter and Math.max: whether a list *)
(* has an element, the first one there is, all of them, and the largest ID *)
(* in use.                                                                 *)
(***************************************************************************)
EXTENDS Naturals, Sequences, SequencesExt

Has(s, P(_)) == \E n \in DOMAIN s : P(s[n])
FirstOf(s, P(_)) == s[SelectInSeq(s, P)]

Largest(s) == LET ids == {s[n].id : n \in DOMAIN s}
              IN  CHOOSE m \in ids \cup {0} : \A i \in ids : m >= i

\* The elements of a sequence that are in a set: SelectSeq, as a recursion
\* that can be unfolded in a proof.
Only(s, S) ==
    LET only[n \in 0..Len(s)] ==
            IF n = 0 THEN <<>>
            ELSE IF s[n] \in S THEN Append(only[n - 1], s[n]) ELSE only[n - 1]
    IN  only[Len(s)]
Where(s, P(_)) == Only(s, {x \in ToSet(s) : P(x)})
=============================================================================
