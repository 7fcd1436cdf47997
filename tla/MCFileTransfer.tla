--------------------------- MODULE MCFileTransfer ---------------------------
(***************************************************************************)
(* Small instances of FileTransfer.  A file holds at most four units, all  *)
(* different, so that a lost, repeated or reordered unit shows.            *)
(***************************************************************************)
EXTENDS FileTransfer

MCBytes == 0 .. 4

MCFile(bytes) ==
    [here |-> TRUE, data |-> [i \in DOMAIN bytes |-> Data(bytes[i])]]

(* The file that the request describes, of 3 units.                        *)
Whole == MCFile(<<1, 2, 3>>)
Empty == MCFile(<< >>)
Short == MCFile(<<4, 1>>)
Long  == MCFile(<<1, 2, 3, 4>>)

(* Output files of earlier attempts: none, an incomplete one, a longer one.*)
Part   == MCFile(<<1>>)
Longer == MCFile(<<4, 4, 4, 4>>)

MCOldFiles      == {NoFile, Part, Longer}
MCPresentFiles  == {Whole, Long, Short}
MCAnyFiles      == {NoFile, Empty, Whole, Short, Long}
MCChangingFiles == {NoFile, Whole, Short}
MCRefusedFiles  == {NoFile, Empty}
MCEmptyFiles    == {Empty}
MCWholeFiles    == {Whole}
MCOld           == {NoFile, Longer}
MCSmallOldFiles == {NoFile, Part}

MCAllFaults == FaultKinds \ {"split_header"}
=============================================================================
