------------------------------ MODULE MCImport ------------------------------
(***************************************************************************)
(* Three texts, one with a secret in both its lines, one to be skipped;   *)
(* three or four entries in two seconds of four milliseconds; sniff looks  *)
(* at two lines.                                                           *)
(***************************************************************************)
EXTENDS ImportProperties

MCShell == {"bash", "zsh", "fish"}
MCText == {"x", "secret", "key"}
MCSettings == {{}} \cup {{c} : c \in Condition}

\* Four, for an undated entry between two dated and a change around them.
MCMaxEntries == [s \in MCSettings |-> IF s = {} THEN 4 ELSE 3]
=============================================================================
