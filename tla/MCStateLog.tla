----------------------------- MODULE MCStateLog -----------------------------
(***************************************************************************)
(* StateLog on small instances.                                            *)
(***************************************************************************)
EXTENDS StateLog, TLC

\* One format with two subrecords; two formats with one each.
OneFormat == (0 :> 2)
OneSmallFormat == (0 :> 1)
TwoFormats == (0 :> 1) @@ (1 :> 1)
=============================================================================
