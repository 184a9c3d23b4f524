------------------------------ MODULE MCFrames ------------------------------
(* Frames on small bodies: an empty one, two objects, one of them with a   *)
(* marker in a string, and two heartbeats.                                 *)
EXTENDS Frames

MCBodies == {<<>>, <<"{", "a", "}">>, <<"{", "~", "m", "~", "}">>,
             <<"~", "h", "~", "4">>, <<"~", "h", "~", "2">>}

MCOffs == -2 .. 3
=============================================================================
