----------------------------- MODULE MCFrontEnd -----------------------------
(* A view of two rows and three keys, two touches and a small output.         *)
EXTENDS FrontEnd

K(w) == [width |-> w, logo |-> FALSE]
View == << <<K(58), K(24)>>, <<K(24), [width |-> 58, logo |-> TRUE]>> >>

\* Off a key's middle towards its narrow neighbour, near its edge and in its corner;
\* the two narrow keys.
Spots == {<<49 * 4, 32 * 4>>, <<46 * 4, 32 * 4>>, <<58 * 4, 36 * 4>>, <<7 * 4, 7 * 4>>,
          <<82 * 4, 30 * 4>>, <<16 * 4, 90 * 4>>}

Start == <<2, 2>>
Wider == {<<2, 2>>, <<3, 3>>}
Corners == {<<9, -1>>, <<1, 9>>}
Modes == {<<4, 4>>, <<3, 3>>}

Rest == [hands |-> 0, window |-> 0, touches |-> {}, points |-> {}, mouse |-> FALSE,
         learning |-> {"on"}, outputs |-> {<<4, 4>>}]

\* Two fingers; one finger that teaches; a mouse; the window.
Cases ==
    {[Rest EXCEPT !.hands = 4, !.touches = {1, 2}, !.learning = {"on", "off"},
                  !.points = {<<46 * 4, 32 * 4>>, <<82 * 4, 30 * 4>>, <<7 * 4, 7 * 4>>}],
     [Rest EXCEPT !.hands = 5, !.touches = {1}, !.learning = {"on", "frozen"}, !.points = Spots],
     [Rest EXCEPT !.hands = 4, !.mouse = TRUE,
                  !.points = {<<46 * 4, 32 * 4>>, <<7 * 4, 7 * 4>>}],
     [Rest EXCEPT !.window = 3, !.hands = 1, !.touches = {1}, !.points = {<<46 * 4, 32 * 4>>},
                  !.outputs = {<<>>} \cup Modes]}
=============================================================================
