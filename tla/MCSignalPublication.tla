------------------------ MODULE MCSignalPublication -------------------------
(***************************************************************************)
(* Instances of SignalPublication for TLC: one strategy, two tickers.      *)
(***************************************************************************)
EXTENDS SignalPublicationInvariant

CONSTANTS s1, a, b

\* The same data, scored the same way or with other sentiment for b.
Scored(m, vb, tickers) ==
    [manifest |-> m, ver |-> [t \in {a, b} |-> IF t = b THEN vb ELSE 1],
     cands |-> {s1} \X tickers]

\* The scores of a retry may differ, so may its candidates, or the prices.
Repeated == {Scored("m1", 1, {a, b}), Scored("m1", 2, {a, b}),
             Scored("m1", 1, {a}), Scored("m2", 1, {a, b})}
=============================================================================
