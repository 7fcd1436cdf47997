---------------------------- MODULE SharedOutput ----------------------------
(***************************************************************************)
(* Step 10 of several jobs whose requests name the same output path, as    *)
(* when the API server repeats a request that is still being served.  Each *)
(* job opens the path "wb+", which empties the one file behind it under    *)
(* the jobs that have it open already, and goes on writing at its own      *)
(* offset through its own stdio buffer.  Nothing in the code keeps the     *)
(* jobs apart: this module says what is left of the file.                  *)
(*                                                                         *)
(* A job receives the contents of its source in order, or only the         *)
(* beginning of it (FileTransfer says when); its dFileSize is their size.  *)
(***************************************************************************)
EXTENDS FileControl

CONSTANTS
    Job,            \* the jobs that write to this path
    NoJob,          \* none of them
    Source,         \* what each of them fetches
    FILE_BUF_SIZE   \* units in the transfer buffer

ASSUME SharedOutputAssumption ==
    /\ NoJob \notin Job
    /\ Source \in [Job -> Seq(DataUnit)]
    /\ FILE_BUF_SIZE \in Nat \ {0}

VARIABLES
    jpc,     \* what each job is doing
    got,     \* units that it has received and given to fwrite
    put,     \* units of these that stdio has written: the offset in the file
    out,     \* the contents of the file
    last,    \* the job that was the last to open it
    rivals   \* the jobs that had it open when the last one opened it

vars == <<jpc, got, put, out, last, rivals>>

(* What each variable holds; no job receives more than it asked for or     *)
(* writes what it has not received.                                        *)
TypeOK ==
    /\ jpc \in [Job -> {"asking", "copying", "ok", "failed"}]
    /\ got \in [Job -> Nat] /\ put \in [Job -> Nat]
    /\ \A j \in Job : put[j] <= got[j] /\ got[j] <= Len(Source[j])
    /\ out \in Seq(DataUnit)
    /\ last \in Job \cup {NoJob}
    /\ rivals \subseteq Job

Init ==
    /\ jpc = [j \in Job |-> "asking"]
    /\ got = [j \in Job |-> 0] /\ put = [j \in Job |-> 0]
    /\ out = << >>
    /\ last = NoJob
    /\ rivals = {}

Larger(m, n) == IF m >= n THEN m ELSE n

(* write(2) of units at an offset: the file grows if it has to, and what   *)
(* nobody has written reads as zeros.                                      *)
pwrite(data, seek, units) ==
    IF units = << >> THEN data
    ELSE [p \in 1 .. Larger(Len(data), seek + Len(units)) |->
             IF p > seek /\ p <= seek + Len(units) THEN units[p - seek]
             ELSE IF p <= Len(data) THEN data[p] ELSE ZeroUnit]

Copying == {j \in Job : jpc[j] = "copying"}

-----------------------------------------------------------------------------
(* Mutant: the file is opened "rb+".                                       *)
FILE_TRANSFER_Open_Keeps(j) ==
    /\ jpc[j] = "asking" /\ jpc' = [jpc EXCEPT ![j] = "copying"]
    /\ last' = j /\ rivals' = Copying
    /\ UNCHANGED <<got, put, out>>

(* fopen64(path, "wb+") and the seek to offset 0.                          *)
FILE_TRANSFER_Open(j) ==
    /\ jpc[j] = "asking" /\ jpc' = [jpc EXCEPT ![j] = "copying"]
    /\ out' = fopenTruncate.data
    /\ last' = j /\ rivals' = Copying
    /\ UNCHANGED <<got, put>>

(* Mutant: a turn always asks for a whole buffer.                          *)
FILE_TRANSFER_Receive_WholeBuffer(j) ==
    /\ jpc[j] = "copying" /\ got[j] < Len(Source[j])
    /\ \E n \in 1 .. FILE_BUF_SIZE : got' = [got EXCEPT ![j] = @ + n]
    /\ UNCHANGED <<jpc, put, out, last, rivals>>

(* A turn of the loop: a read, whole or short, and fwrite.                 *)
FILE_TRANSFER_Receive(j) ==
    /\ jpc[j] = "copying"
    /\ \E n \in 1 .. Lesser(FILE_BUF_SIZE, Len(Source[j]) - got[j]) :
          got' = [got EXCEPT ![j] = @ + n]
    /\ UNCHANGED <<jpc, put, out, last, rivals>>

(* stdio writes the first n units of what it has buffered.                 *)
Flush(j, n) ==
    /\ put' = [put EXCEPT ![j] = @ + n]
    /\ out' = pwrite(out, put[j], SubSeq(Source[j], put[j] + 1, put[j] + n))

(* The buffer of stdio is full, or bypassed.                               *)
fwrite_Flush(j) ==
    /\ jpc[j] = "copying"
    /\ \E n \in 1 .. got[j] - put[j] : Flush(j, n)
    /\ UNCHANGED <<jpc, got, last, rivals>>

(* Mutant: the file is not closed, and the buffer stays where it is.       *)
FILE_TRANSFER_Close_NotClosed(j) ==
    /\ jpc[j] = "copying"
    /\ \E res \in {"ok", "failed"} :
          /\ res = "ok" <=> got[j] = Len(Source[j])
          /\ jpc' = [jpc EXCEPT ![j] = res]
    /\ UNCHANGED <<got, put, out, last, rivals>>

(* The end of the loop, after the last unit or a read that failed: fclose  *)
(* writes the rest of the buffer.                                          *)
FILE_TRANSFER_Close(j) ==
    /\ jpc[j] = "copying"
    /\ \E res \in {"ok", "failed"} :
          /\ res = "ok" <=> got[j] = Len(Source[j])
          /\ jpc' = [jpc EXCEPT ![j] = res]
    /\ Flush(j, got[j] - put[j])
    /\ UNCHANGED <<got, last, rivals>>

(* The process of some jobs dies: what stdio had buffered is lost.         *)
Killed ==
    /\ \E js \in SUBSET Copying \ {{}} :
          jpc' = [j \in Job |-> IF j \in js THEN "failed" ELSE jpc[j]]
    /\ UNCHANGED <<got, put, out, last, rivals>>

Next ==
    \/ \E j \in Job :
          \/ FILE_TRANSFER_Open(j) \/ FILE_TRANSFER_Receive(j)
          \/ fwrite_Flush(j) \/ FILE_TRANSFER_Close(j)
    \/ Killed

Spec == Init /\ [][Next]_vars
-----------------------------------------------------------------------------
(* Those who may still write after the last job has opened the file, and   *)
(* whether it matters.                                                     *)
RivalsAgree == \A j \in rivals : Source[j] = Source[last]

(* The job that opens the file last decides: what it has written stays,    *)
(* and once it has ended well the file is what it fetched, whatever the    *)
(* jobs it has overtaken did before and do afterwards, fail or be killed,  *)
(* provided that they were fetching the same.                              *)
LastOkMeansComplete ==
    last # NoJob /\ RivalsAgree =>
        /\ Len(out) >= put[last]
        /\ \A p \in 1 .. put[last] : out[p] = Source[last][p]
        /\ jpc[last] = "ok" => out = Source[last]

(* In the order of the openings, only what overlaps mixes: each piece of   *)
(* the file is a hole or comes, at its own place, from the last job or     *)
(* from one that had the file open when that one opened it.                *)
NothingOlderSurvives ==
    \A p \in DOMAIN out :
        \/ out[p] = ZeroUnit
        \/ \E j \in rivals \cup {last} :
              p <= put[j] /\ out[p] = Source[j][p]
=============================================================================
