--------------------------- MODULE MCSharedOutput ---------------------------
(* Three jobs, two of which fetch the same file and one a shorter one.     *)
EXTENDS SharedOutput

CONSTANTS j1, j2, j3, a, b, c

MCBytes  == {Zero, a, b, c}
MCSource == (j1 :> <<Data(a), Data(b), Data(a)>>) @@
            (j2 :> <<Data(a), Data(b), Data(a)>>) @@
            (j3 :> <<Data(c), Data(c)>>)
=============================================================================
