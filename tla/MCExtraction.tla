---------------------------- MODULE MCExtraction ----------------------------
(***************************************************************************)
(* Small texts for Extraction: lines of one to twelve characters.           *)
(***************************************************************************)
EXTENDS Extraction

\* One line or several, shorter than two chunks of four characters or longer.
MCTexts == {<<3>>, <<12>>, <<2, 4>>, <<1, 3, 6>>, <<3, 5, 6, 9>>}
=============================================================================
