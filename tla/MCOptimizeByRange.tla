-------------------------- MODULE MCOptimizeByRange -------------------------
EXTENDS OptimizeByRange, MCRangeAnalysis

\* for each position of the entry function, the registers that every way to
\* it from further up defines; the ways back up of these modules' loops bring
\* no fewer
AvailableIn(m) ==
    LET f == m.body[m.entry]
        there[k \in DOMAIN f.code] ==
            LET coming == {there[p] \cup DefinedBy(f.code[p]) :
                              p \in {q \in 1 .. k - 1 : k \in Successors(f.code, q)}}
            IN  IF k = 1 THEN {f.params[j] : j \in DOMAIN f.params}
                ELSE {r \in UNION coming : \A c \in coming : r \in c}
    IN  there

\* the modules without calls and stores are what the proofs suppose
ASSUME FollowedModules ==
    \A m \in Straight \cup Diamond \cup Loop \cup Equality \cup Inverting :
        \E avail \in {AvailableIn(m)} : SelfContained(m, avail)
=============================================================================
