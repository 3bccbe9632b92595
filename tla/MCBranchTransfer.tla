------------------------ MODULE MCBranchTransfer ------------------------
(* A branch on its own server, and a central one where it was typed in by hand. *)
EXTENDS BranchTransfer

CONSTANTS site, central, d1, d2

\* Two calculators, a line of each, one route for each line, and two points of one name.
Site ==
  [branch |-> <<0, 1>> :> [uid |-> 1, name |-> 1],
   lumg   |-> <<0, 1>> :> [branch |-> <<0, 1>>, name |-> 1] @@ <<0, 2>> :> [branch |-> <<0, 1>>, name |-> 2],
   code   |-> 7 :> <<0, 1>>,
   calc   |-> <<0, 1, 1>> :> [lumg |-> <<0, 1>>, address |-> 1, name |-> 1] @@
              <<0, 1, 2>> :> [lumg |-> <<0, 1>>, address |-> 2, name |-> 2],
   line   |-> <<0, 1, 1, 1>> :> [calc |-> <<0, 1, 1>>, no |-> 1] @@ <<0, 1, 2, 1>> :> [calc |-> <<0, 1, 2>>, no |-> 1],
   dpd    |-> <<0, 1>> :> [branch |-> <<0, 1>>, name |-> 1, lumg |-> <<0, 2>>, history |-> 1 :> d1],
   ring   |-> <<0, 1>> :> [branch |-> <<0, 1>>, name |-> 1, members |-> {<<0, 1, 1, 1>>, <<0, 1>>}],
   route  |-> <<0, 1>> :> [branch |-> <<0, 1>>, number |-> 1] @@ <<0, 2>> :> [branch |-> <<0, 1>>, number |-> 2],
   member |-> <<0, 1, 1, 1>> :> <<0, 1>> @@ <<0, 1, 2, 1>> :> <<0, 2>>,
   point  |-> <<0, 1>> :> [branch |-> <<0, 1>>, name |-> 1, line |-> <<0, 1, 1, 1>>, history |-> 1 :> d1] @@
              <<0, 2>> :> [branch |-> <<0, 1>>, name |-> 1, line |-> Null, history |-> 1 :> d2]]

\* The branch with one calculator and one point, and another branch that has the code.
Central ==
  [branch |-> <<0, 1>> :> [uid |-> 2, name |-> 1] @@ <<0, 2>> :> [uid |-> 3, name |-> 2],
   lumg   |-> <<0, 1>> :> [branch |-> <<0, 1>>, name |-> 1] @@ <<0, 2>> :> [branch |-> <<0, 2>>, name |-> 1],
   code   |-> 7 :> <<0, 2>>,
   calc   |-> <<0, 1, 1>> :> [lumg |-> <<0, 1>>, address |-> 1, name |-> 2] @@
              <<0, 2, 1>> :> [lumg |-> <<0, 2>>, address |-> 1, name |-> 1],
   line   |-> <<0, 1, 1, 1>> :> [calc |-> <<0, 1, 1>>, no |-> 1] @@ <<0, 2, 1, 1>> :> [calc |-> <<0, 2, 1>>, no |-> 1],
   dpd    |-> <<0, 2>> :> [branch |-> <<0, 2>>, name |-> 1, lumg |-> <<0, 2>>, history |-> 1 :> d2],
   ring   |-> <<0, 2>> :> [branch |-> <<0, 2>>, name |-> 1, members |-> {<<0, 2, 1, 1>>}],
   route  |-> <<0, 2>> :> [branch |-> <<0, 2>>, number |-> 1],
   member |-> <<0, 2, 1, 1>> :> <<0, 2>>,
   point  |-> <<0, 1>> :> [branch |-> <<0, 1>>, name |-> 1, line |-> <<0, 1, 1, 1>>, history |-> 2 :> d1]]

MCStart == [s \in Servers |-> IF s = site THEN Site ELSE Central]
MCHistories == {1 :> d1, 2 :> d1, 1 :> d1 @@ 2 :> d2}
=========================================================================
