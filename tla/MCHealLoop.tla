---------------------------- MODULE MCHealLoop ----------------------------
(* Small instances of HealLoop.                                            *)
EXTENDS HealLoop

CONSTANTS f1, x, y

OneFile == {f1}
TwoEdits == {"one", "two"}

Lines == {x, y}

\* Up to three lines, a line possibly twice: 1, 1, 2, 2 and 3 errors.
FiveOutputs ==
    {e \in [Lines -> 0..2] : NumErrors(e) \in 1..3} \ {[l \in Lines |-> IF l = y THEN 2 ELSE 0],
                                                       [l \in Lines |-> IF l = y THEN 2 ELSE 1]}
=============================================================================
