------------------------------- MODULE Dicts -------------------------------
(* The keys of a Python dict, in insertion order.                          *)
EXTENDS Naturals, Sequences

Contains(q, e) == \E i \in DOMAIN q : q[i] = e
Position(q, e) == CHOOSE i \in DOMAIN q : q[i] = e

\* dict.pop(e, None)
Without(q, e)  ==
  IF Contains(q, e)
    THEN SubSeq(q, 1, Position(q, e) - 1) \o SubSeq(q, Position(q, e) + 1, Len(q))
    ELSE q

\* d[e] = ...: an existing key keeps its place
With(q, e) == IF Contains(q, e) THEN q ELSE Append(q, e)
=============================================================================
