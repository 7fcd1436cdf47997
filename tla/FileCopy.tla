------------------------------ MODULE FileCopy ------------------------------
(***************************************************************************)
(* What a transfer promises to whoever asked for it, with no connection,   *)
(* no buffers and no messages: a file of wanted units is copied, its       *)
(* destination emptied first and then extended in order, and the result is *)
(* called "ok" only if nothing is missing.                                 *)
(***************************************************************************)
EXTENDS FileControl

VARIABLES
    phase,    \* "asking", "copying", then "ok" or "failed"
    from,     \* the file that is copied, NoFile until it has been opened
    to,       \* the destination
    wanted    \* how many units were asked for

fcvars == <<phase, from, to, wanted>>

Contents == fread(from.data, 0, wanted)

CopyInit ==
    /\ phase = "asking"
    /\ from = NoFile
    /\ to \in FileOf(Unit)
    /\ wanted \in Nat

(* The source is opened at most once, before any of it is copied.          *)
OpenSource ==
    /\ ~from.here /\ from' \in {f \in FileOf(DataUnit) : f.here}
    /\ phase = "copying" => to.data = << >>
    /\ UNCHANGED <<phase, to, wanted>>

Begin ==
    /\ phase = "asking" /\ phase' = "copying"
    /\ to' = fopenTruncate
    /\ UNCHANGED <<from, wanted>>

Extend ==
    /\ phase = "copying" /\ from.here
    /\ to'.here
    /\ IsPrefix(to.data, to'.data) /\ IsPrefix(to'.data, Contents)
    /\ UNCHANGED <<phase, from, wanted>>

Finish ==
    /\ phase = "copying" /\ phase' = "ok"
    /\ to.data = Contents
    /\ UNCHANGED <<from, to, wanted>>

(* A job that fails keeps what it has stored, or the beginning of it.      *)
Fail ==
    /\ phase \in {"asking", "copying"} /\ phase' = "failed"
    /\ IF phase = "asking"
       THEN to' = to
       ELSE to'.here /\ IsPrefix(to'.data, to.data)
    /\ UNCHANGED <<from, wanted>>

CopyNext == OpenSource \/ Begin \/ Extend \/ Finish \/ Fail

CopySpec == CopyInit /\ [][CopyNext]_fcvars
=============================================================================
