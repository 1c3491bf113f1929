------------------------------ MODULE MCCueStyle -------------------------------
(* Values for the run of CueStyle: a font, two sizes and a colour. *)
EXTENDS CueStyle, TLC

CONSTANTS serif, small, large, gold

MCValues == ("family" :> {serif}) @@ ("size" :> {small, large}) @@ ("color" :> {gold})
              @@ ("visible" :> BOOLEAN)
=============================================================================
