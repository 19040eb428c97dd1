------------------------------- MODULE Layout --------------------------------
(***************************************************************************)
(* The list of files of a share and the numbering of its pieces, as pure   *)
(* operators: Manifest::from_disk, validate, Layout (manifest.rs), the     *)
(* byte ranges LocalShare reads (local.rs) and the bit packing of bitfields*)
(* (protocol.rs).                                                          *)
(*                                                                         *)
(* A path is a sequence of names below the chosen file or folder, a folder *)
(* is the set of the paths of its files.                                   *)
(***************************************************************************)
EXTENDS Integers, Sequences, FiniteSets, FiniteSetsExt

CONSTANTS
    Fold,      \* lower case, of every name
    BadName,   \* names some system cannot have (name_problem)
    MaxFiles,  \* as many files as MAX_MANIFEST_BYTES has room for
    Block      \* BLOCK_SIZE

Name == DOMAIN Fold

ASSUME LayoutAssumption ==
    /\ Fold \in [Name -> Name]
    /\ BadName \subseteq Name
    /\ MaxFiles \in Nat
    /\ Block \in Nat \ {0}

-----------------------------------------------------------------------------
(* Which lists of files are shared, and which are accepted.                *)

Names(path) == {path[i] : i \in DOMAIN path}
Lower(path) == [i \in DOMAIN path |-> Fold[path[i]]]

\* No two files collide where upper and lower case are the same.
Distinct(paths) == \A p, q \in paths : Lower(p) = Lower(q) => p = q

\* from_disk shares a folder under its own name or a label, or fails.
Shareable(name, folder) ==
    /\ name \notin BadName
    /\ \A p \in folder : Names(p) \cap BadName = {}
    /\ Distinct(folder)

FromDisk(name, folder) == [name |-> name, paths |-> {<<name>> \o p : p \in folder}]

\* validate: what a downloader accepts.
Validate(m) ==
    /\ \A p \in m.paths : p # <<>> /\ p[1] = m.name
    /\ \A p \in m.paths : Names(p) \cap BadName = {}
    /\ Distinct(m.paths)

\* A downloader takes no manifest that is larger; nobody asks the sharer.
Fits(m) == Cardinality(m.paths) <= MaxFiles

-----------------------------------------------------------------------------
(* Pieces. Files and pieces are numbered as in the code, pieces from 0;    *)
(* sizes[f] is the size of file number f - 1.                              *)

Pieces(size) == (size + Block - 1) \div Block

FirstPiece(sizes) ==
    LET first[f \in DOMAIN sizes] == IF f = 1 THEN 0 ELSE first[f - 1] + Pieces(sizes[f - 1])
    IN  first

TotalPieces(sizes) == MapThenSumSet(LAMBDA f : Pieces(sizes[f]), DOMAIN sizes)

\* (mutant: the last file that begins before the piece)
LocateBefore(sizes, piece) ==
    LET first == FirstPiece(sizes)
        file  == Max({1} \cup {f \in DOMAIN sizes : first[f] < piece})
        start == (piece - first[file]) * Block
    IN  [file |-> file, start |-> start, end |-> Min({start + Block, sizes[file]})]

\* The last file that begins at or before the piece, or, should that one be
\* empty, the last one before it that is not.
Locate(sizes, piece) ==
    LET first   == FirstPiece(sizes)
        last    == Cardinality({f \in DOMAIN sizes : first[f] <= piece})
        nonzero == {f \in 1 .. last : sizes[f] > 0}
        file    == IF nonzero = {} THEN last ELSE Max(nonzero)
        start   == (piece - first[file]) * Block
    IN  [file |-> file, start |-> start, end |-> Min({start + Block, sizes[file]})]

PiecesOf(sizes, f) ==
    LET first == FirstPiece(sizes)[f] IN first .. first + Pieces(sizes[f]) - 1

\* read_range: how many of `len` bytes from `offset` on exist ...
ReadLen(size, offset, len) == Min({len, Max({size - offset, 0})})

\* ... and the pieces of file f read_at opens to get them.
PiecesRead(sizes, f, offset, len) ==
    {FirstPiece(sizes)[f] + (pos \div Block) :
        pos \in offset .. offset + ReadLen(sizes[f], offset, len) - 1}

-----------------------------------------------------------------------------
(* Bitfields: a byte is the set of the bits that are set in it.            *)

ByteBits == 8

PackBits(have, total) ==
    [b \in 1 .. (total + ByteBits - 1) \div ByteBits |->
        {i % ByteBits : i \in {j \in have : j \div ByteBits = b - 1}}]

\* Missing bytes count as "don't have".
UnpackBits(bytes, total) ==
    {i \in 0 .. total - 1 :
        i \div ByteBits + 1 \in DOMAIN bytes /\ i % ByteBits \in bytes[i \div ByteBits + 1]}
=============================================================================
