----------------------------- MODULE MCDpdLine -----------------------------
EXTENDS DpdLine, TLC

\* The corrector is replaced inside the first gas day; an operator finds out that it
\* was replaced an hour later.
FirstLine == <<[device |-> 1, from |-> 1, until |-> Forever], [device |-> 2, from |-> 2, until |-> Forever]>>
Corrected == <<[device |-> 1, from |-> 1, until |-> Forever], [device |-> 2, from |-> 3, until |-> Forever]>>
MCHistories == {FirstLine, Corrected}
Alike == Permutations(Workers)
MCRanges == {<<0, 0>>, <<1, 1>>}
=============================================================================
