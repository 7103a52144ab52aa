-------------------------- MODULE MCTranslationTurn --------------------------
EXTENDS TranslationTurnOrder, TLC
CONSTANTS p1, p2, p3, p4, self, peer
OneChannel == [p \in Parents |-> self]
TwoChannels == [p \in Parents |-> IF p = p4 THEN peer ELSE self]
Singles == [p \in Parents |-> IF p = p4 THEN 0 ELSE 1]
SameParents == Permutations({p1, p2, p3})
Mixed == [p \in Parents |-> IF p = p2 THEN 2 ELSE IF p = p4 THEN 0 ELSE 1]
SameTwo == Permutations({p1, p2})
=============================================================================
