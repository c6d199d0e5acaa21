----------------------------- MODULE MCWindows -----------------------------
(* Windows for TLC: a channel on each of two servers.                       *)
EXTENDS Windows

CONSTANTS a, b, here, there

MCChannel == {here, there}
MCServer == {a, b}
MCServerOf == [c \in MCChannel |-> IF c = there THEN b ELSE a]
=============================================================================
