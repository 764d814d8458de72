---------------------------- MODULE ResultStore ----------------------------
(***************************************************************************)
(* What the specification's ResultStore promises (spec 4.4): one results   *)
(* file that is absent, or created, then given its header line once, then *)
(* only ever extended by whole rows; only remove() takes rows away, and it *)
(* takes the whole file. Nothing here is code: the Sweep module, which     *)
(* models the scripts, is checked to implement this specification.         *)
(***************************************************************************)
EXTENDS Naturals, Sequences

CONSTANTS
    Header,   \* the header line init_file writes
    IsRow(_), \* the lines that are rows of this header's schema
    Absent    \* no file

VARIABLE file   \* the durable content of the file: Absent or its lines

(* remove(path): idempotent delete.                                        *)
Remove ==
    file' = Absent

(* init(path, header), first half: the file is created, still empty.       *)
Create ==
    /\ file = Absent
    /\ file' = <<>>

(* init(path, header), second half: the header is the first line.          *)
WriteHeader ==
    /\ file = <<>>
    /\ file' = <<Header>>

(* init(path, header) with nothing between its halves.                    *)
Initialise ==
    /\ file = Absent
    /\ file' = <<Header>>

(* append(record), once or more: whole rows of the header's schema after   *)
(* the header and the earlier rows, which stay as they were.               *)
AppendRows ==
    /\ file \notin {Absent, <<>>}
    /\ file' # Absent
    /\ Len(file') > Len(file)
    /\ SubSeq(file', 1, Len(file)) = file
    /\ \A i \in Len(file) + 1 .. Len(file') : IsRow(file'[i])

Init == file = Absent

Next ==
    \/ Remove
    \/ Create
    \/ WriteHeader
    \/ Initialise
    \/ AppendRows

Spec == Init /\ [][Next]_file
=============================================================================
