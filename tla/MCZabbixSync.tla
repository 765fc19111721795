---------------------------- MODULE MCZabbixSync ----------------------------
(* An instance of ZabbixSync small enough for TLC: the code c1 binds h1 until a synchronisation writes  *)
(* another one there, the code c2 binds h2 for good.                                                    *)
EXTENDS ZabbixSync, TLC
CONSTANTS u1, u2, h1, h2, c1, c2

TwoSources == <<{h1}, {h2}>>
Names == {c1} \X Host
OwnTags == [h \in Host |-> [unit |-> None, code |-> IF h = h2 THEN c2 ELSE None]]
CodedAtFirst == {<<c1, h1>>}
Interchangeable == Permutations(Job) \cup Permutations(Editor)

\* Bound: either the equipment moves while codes and links stay, or codes and links change while there
\* is none.  The first is followed while no synchronisations cross, no update is late and one of the
\* units is heard; a unit nobody hears of, in the second, while there are no links and the same holds.
Focus ==
    IF \E e \in Equipment : Holders(e) # {}
    THEN had = {<<u1, c1>>, <<u2, c2>>} /\ linked = {} /\ late = {} /\ crossed = {} /\ unheard # Unit
    ELSE unheard = {} \/ (linked = {} /\ late = {} /\ crossed = {})
=============================================================================
