--------------------------- MODULE MC_F2fsVictim ---------------------------
EXTENDS F2fsVictim

\* segment mtimes: three ages, each section's two segments alike
MCMtime == [s \in 0..5 |-> s \div 2]
MCMtime4 == [s \in 0..3 |-> s]
====
