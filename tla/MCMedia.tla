------------------------------- MODULE MCMedia -------------------------------
(***************************************************************************)
(* Instance of Media for TLC: a key that needs trimming, one that does not *)
(* and a blank one.                                                        *)
(***************************************************************************)
EXTENDS Media, TLC

MCTrimmed == ("a.png" :> "a.png") @@ (" a.png " :> "a.png") @@ ("  " :> "")
=============================================================================
