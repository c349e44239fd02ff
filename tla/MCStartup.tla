------------------------------ MODULE MCStartup ------------------------------
EXTENDS Startup, TLC

\* Every version, a new file, one older than any that is supported, and one of the
\* current version with the index of an older build.
AllOrigins == {Database(v) : v \in {NoMeta} \union 2..Current} \union {Obsolete, Narrow}
OldOrigins == {Database(v) : v \in 2..3}

Symmetry == Permutations(Serves)
=============================================================================
