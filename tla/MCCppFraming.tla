----------------------------- MODULE MCCppFraming -----------------------------
(***************************************************************************)
(* CppFraming with an unsigned int of 13 bits.  The products of the rates  *)
(* reach from below one byte per frame, over whole and half samples, to    *)
(* behind the largest unsigned int; the lengths lie around the multiples   *)
(* of the frame size and around the largest int.                           *)
(***************************************************************************)
EXTENDS CppFraming

MCWord == 8192

\* Frames of 0, 0, 1, 2, 3, 4, 6, 7, 8, 0 and 1 bytes.
MCRates == {0, 49, 50, 149, 150, 200, 300, 350, 400, 410, 470}

MCInputs ==
    (MCRates \X ((0 .. 8) \cup {11, 12, 13}))
        \cup ({300, 350, 400} \X ((4094 .. 4098) \cup {4103}))
===============================================================================
