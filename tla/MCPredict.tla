----------------------------- MODULE MCPredict -----------------------------
(***************************************************************************)
(* The prediction engine on a screen of two rows and three columns.         *)
(***************************************************************************)
EXTENDS Predict

Row(cells) == [j \in 0 .. Len(cells) - 1 |-> cells[j + 1]]

MCScreens ==
    {[rows |-> 2, cols |-> 3, row |-> 0, col |-> 0,
      cell |-> [r \in 0 .. 1 |-> IF r = 0 THEN Row(<<" ", "x", " ">>)
                                 ELSE Row(<<" ", " ", " ">>)]]}

MCSettings ==
    {<<"adaptive", FALSE>>, <<"experimental", TRUE>>}

MCGlyphs == <<"a", "b", "c">>

MCKeys == {<<"CR">>, <<"DEL">>, <<"ESC", "[", "D">>}

=============================================================================
