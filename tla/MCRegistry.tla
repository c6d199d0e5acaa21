----------------------------- MODULE MCRegistry -----------------------------
(* Registry for TLC: a plugin that has everything, one that has a driver,   *)
(* both of which may fail, and the one for scripts.                         *)
EXTENDS Registry

CONSTANTS all, other, load, own

MCPlugin == {all, other, Python}
MCCommand == {load, own}
MCCommandList ==
  [p \in MCPlugin \cup {Core} |->
     CASE p = Core -> {load} [] p = all -> {own} [] OTHER -> {}]
MCHasStrings == {all}
MCHasDriver == {all, other}
MCHasHook == {all}
MCCanFail == {all, other}
=============================================================================
