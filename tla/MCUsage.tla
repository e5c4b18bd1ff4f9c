------------------------------ MODULE MCUsage ------------------------------
EXTENDS Usage, TLC

Symmetry == Permutations(Conns)

Lim(n) == [minute |-> n, hour |-> n + 1, day |-> n + 1]

MCRoleValues == {[limits |-> Lim(2), admin |-> TRUE,  bypass |-> FALSE],
                 [limits |-> Lim(1), admin |-> FALSE, bypass |-> TRUE]}
MCUserLimitsSets == {Lim(2)}
MCDefaultLimits == Lim(1)
=============================================================================
