---------------------------- MODULE MCLineEditor ----------------------------
(* LineEditor for TLC.                                                      *)
EXTENDS LineEditor

\* Two words that agree in the shorter one.  From one character, the shorter one
\* fits in a buffer that has not grown; the longer one does not.
MCWords == {<<Colon, Colon>>, <<Colon, Colon, Colon, Colon>>}
MCTrail == <<>>
=============================================================================
