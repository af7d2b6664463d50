--------------------------- MODULE MCSessionChild ---------------------------
EXTENDS SessionChildProperties, TLC
CONSTANTS g1, g2, l1, l2
Symmetry == Permutations({g1, g2}) \cup Permutations({l1, l2})

\* No guard reads what the parent was told, and the settle time of a visit only
\* decides whether presence_inside is announced: a run none of whose properties
\* speaks of these need not tell apart states that differ in nothing else.
ButReports == <<lockVars, request, bus, linkVars, links, tap, authVars, vcsec,
                idle, fired, presenceVars, loopVars>>
=============================================================================
