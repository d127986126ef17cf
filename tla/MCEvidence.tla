----------------------------- MODULE MCEvidence -----------------------------
(***************************************************************************)
(* Small instances of EvidenceSystem: one or two evidences, one to three   *)
(* registry uuids for the keys kA and kB.                                  *)
(***************************************************************************)
EXTENDS EvidenceSystem, TLC

CONSTANTS e1, e2, a1, a2, b1, kA, kB

\* a1 and a2 are two uuids a registry row of key kA may get.
MCKeyOf == (a1 :> kA) @@ (a2 :> kA) @@ (b1 :> kB)
MCKeyOfAlone == (a1 :> kA) @@ (a2 :> kA)

MCKeyOfSingle == (a1 :> kA)
MCKeyOfTwo == (a1 :> kA) @@ (b1 :> kB)

MCContentOf == (e1 :> "text1") @@ (e2 :> "text2")
MCContentOfOne == (e1 :> "text1")

\* What the texts may mention.
MCOneKey == {{}, {kA}}
MCTwoKeys == {{}, {kA}, {kA, kB}}
=============================================================================
