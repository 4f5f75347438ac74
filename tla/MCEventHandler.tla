--------------------------- MODULE MCEventHandler ---------------------------
(* EventHandler with both shift keys, a letter, a code without a key and a   *)
(* mouse button.                                                             *)
EXTENDS EventHandler

CONSTANTS A, Shift, MouseLeft, LetterCode, OtherCode, OtherName

Mappings == LetterCode :> A @@ LShift :> Shift

(* No file; a line with an unknown name; two keys swapped; two keys taken    *)
(* for one; a key remapped twice.                                            *)
RemapFiles == {
  <<>>,
  << <<A, OtherName>>, <<OtherName, A>> >>,
  << <<A, MouseLeft>>, <<MouseLeft, A>> >>,
  << <<A, Shift>> >>,
  << <<Shift, A>>, <<Shift, MouseLeft>> >> }
=============================================================================
