----------------------------- MODULE MCCelery -----------------------------
(***************************************************************************)
(* One evidence and one registry uuid for TLC.                             *)
(***************************************************************************)
EXTENDS CelerySystem, TLC

CONSTANTS e1, a1, kA

MCKeyOfSingle == a1 :> kA
MCContentOfOne == e1 :> "text1"
MCOneKey == {{}, {kA}}
=============================================================================
