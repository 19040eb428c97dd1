-------------------------------- MODULE Pieces --------------------------------
(***************************************************************************)
(* The pieces of one file of a download, on disk and in memory: the plain  *)
(* or encrypted data file (storage.rs), the outboard that proves pieces    *)
(* (chunker.rs), LocalShare.have (local.rs), the outboard saved in the     *)
(* store, and the run of the download that lays the file out, restores it, *)
(* stores pieces from several blocking tasks at a time, saves, verifies    *)
(* and completes (download.rs). The process may be killed, and the machine *)
(* may lose power, between any two steps.                                  *)
(*                                                                         *)
(* A piece that was not written whole reads as zeros (in a plain file, as  *)
(* a mix of zeros and its content), so it passes for its content only if   *)
(* that is zeros. The file is one the download made.                       *)
(***************************************************************************)
EXTENDS Naturals, FiniteSets

CONSTANTS
    Piece,
    NoPiece,
    Zeros,    \* sets of pieces whose content may be zeros
    Tree,     \* inner nodes of the hash tree, each the set of pieces under it
    Task,     \* blocking tasks that may store at once
    Crashes   \* "none", "kill" or "power loss" (nothing is ever synced)

ASSUME PiecesAssumption ==
    /\ NoPiece \notin Piece
    /\ Zeros \subseteq SUBSET Piece
    /\ Tree \subseteq {n \in SUBSET Piece : Cardinality(n) > 1}
    /\ Cardinality(Piece) > 1 => Piece \in Tree
    /\ \A m, n \in Tree : m \subseteq n \/ n \subseteq m \/ m \cap n = {}
    /\ Crashes \in {"none", "kill", "power_loss"}

VARIABLES
    \* the file, fixed
    encrypted, \* FileData::Encrypted
    zeros,     \* the pieces whose content is zeros
    \* on disk
    header,    \* "none": no file; "good"; "bad": long enough, but not our header
    slot,      \* each piece: "absent", "whole", or an "overwritten" whole one
    saved,     \* the PROGRESS record: nodes of the saved outboard, or Nothing
    \* in memory
    phase,     \* where the run of the download is
    outboard,  \* the nodes of LocalFile.outboard whose hashes are known
    have,      \* LocalShare.have
    writer,    \* LocalFile.writer: whether the file is kept open
    pc,        \* how far each task is in store_piece
    on,        \* the piece it stores, or NoPiece
    \* history
    got        \* "written" by this download, "saved" if had at a save since

file == <<encrypted, zeros>>
share == <<outboard, have>>
tasks == <<pc, on>>
vars == <<file, header, slot, saved, phase, share, writer, tasks, got>>

Nothing == {{}}   \* no record: not a set of nodes
Phase == {"down", "laid_out", "running", "verifying", "verified", "recorded", "complete"}

\* A "stale" task stores for a LocalShare that its run has left behind.
PC == {"idle", "checked", "writing", "written", "proved", "stale_checked", "stale_writing"}
AtLock == {"checked", "stale_checked"}
Writing == {"writing", "stale_writing"}

PiecesInit ==
    /\ encrypted \in BOOLEAN
    /\ zeros \in Zeros
    /\ header = "none"
    /\ slot = [p \in Piece |-> "absent"]
    /\ saved = Nothing
    /\ phase = "down"
    /\ outboard = {} /\ have = {} /\ writer = FALSE
    /\ pc = [w \in Task |-> "idle"]
    /\ on = [w \in Task |-> NoPiece]
    /\ got = [p \in Piece |-> "no"]

-----------------------------------------------------------------------------
(* Reading pieces and proving them.                                        *)

\* The inner nodes on the way from the root to p: what its proof contains.
ProofNodes(p) == {n \in Tree : p \in n}

\* Written, and decrypts with our key.
BlockWritten(p) == slot[p] = "whole"

\* Read from zeros where nothing usable is, it has the right hash ...
Valid(p) == BlockWritten(p) \/ p \in zeros
\* ... and read strictly.
StrictlyValid(p) == IF encrypted THEN BlockWritten(p) ELSE Valid(p)

\* encode_range: each hash on the way is checked, then the data.
CanEncode(p) == ProofNodes(p) \subseteq outboard /\ Valid(p)

\* The header is read whenever an encrypted file is opened.
CanOpen == encrypted => header = "good"

-----------------------------------------------------------------------------
(* Storing a piece. Tasks are started by the workers of the engine, and    *)
(* end only by themselves or with the process.                             *)

\* store_piece, up to the lock of the writer.
Store(w, p) ==
    /\ phase = "running"
    /\ pc[w] = "idle"
    /\ p \notin have
    /\ pc' = [pc EXCEPT ![w] = "checked"]
    /\ on' = [on EXCEPT ![w] = p]
    /\ UNCHANGED <<file, header, slot, saved, phase, share, writer, got>>

\* The task ends.
End(w) ==
    /\ pc' = [pc EXCEPT ![w] = "idle"]
    /\ on' = [on EXCEPT ![w] = NoPiece]

\* The writer's mutex; tasks of two LocalShares of the file have two, and are
\* kept apart by the system's lock on the file while it is written.
LockFree == \A w \in Task : pc[w] \notin Writing

\* The file is opened if need be, the proof and the data are right, and
\* write_block starts: sealing a piece again destroys the old copy first, while
\* the bytes of a plain one do not change.
BeginWrite(w) ==
    /\ pc[w] \in AtLock
    /\ LockFree
    /\ CanOpen
    /\ writer' = (writer \/ pc[w] = "checked")
    /\ slot' = [slot EXCEPT ![on[w]] =
                   IF encrypted /\ @ = "whole" THEN "overwritten" ELSE @]
    /\ pc' = [pc EXCEPT ![w] = IF @ = "checked" THEN "writing" ELSE "stale_writing"]
    /\ UNCHANGED <<file, header, saved, phase, share, on, got>>

\* The file does not open, or decode_ranges finds a wrong hash before it has
\* written anything.
Refuse(w) ==
    /\ pc[w] \in AtLock
    /\ LockFree
    /\ writer' = (writer \/ (CanOpen /\ pc[w] = "checked"))
    /\ End(w)
    /\ UNCHANGED <<file, header, slot, saved, phase, share, got>>

\* The disk fails while the piece is written.
WriteFails(w) ==
    /\ pc[w] \in Writing
    /\ End(w)
    /\ UNCHANGED <<file, header, slot, saved, phase, share, writer, got>>

\* The write is done. For a LocalShare nobody uses the rest does not matter.
EndWrite(w) ==
    /\ pc[w] \in Writing
    /\ slot' = [slot EXCEPT ![on[w]] = "whole"]
    /\ got' = [got EXCEPT ![on[w]] = IF @ = "no" THEN "written" ELSE @]
    /\ IF pc[w] = "writing"
       THEN pc' = [pc EXCEPT ![w] = "written"] /\ UNCHANGED on
       ELSE End(w)
    /\ UNCHANGED <<file, header, saved, phase, share, writer>>

\* (mutant: only the node next to the piece is merged)
ApplyLowest(w) ==
    /\ pc[w] = "written"
    /\ outboard' = outboard \cup
          {n \in ProofNodes(on[w]) : \A m \in ProofNodes(on[w]) : n \subseteq m}
    /\ pc' = [pc EXCEPT ![w] = "proved"]
    /\ UNCHANGED <<file, header, slot, saved, phase, have, writer, on, got>>

\* apply_proof merges the nodes under the outboard's lock.
ApplyProof(w) ==
    /\ pc[w] = "written"
    /\ outboard' = outboard \cup ProofNodes(on[w])
    /\ pc' = [pc EXCEPT ![w] = "proved"]
    /\ UNCHANGED <<file, header, slot, saved, phase, have, writer, on, got>>

\* mark_have.
MarkHave(w) ==
    /\ pc[w] = "proved"
    /\ have' = have \cup {on[w]}
    /\ End(w)
    /\ UNCHANGED <<file, header, slot, saved, phase, outboard, writer, got>>

-----------------------------------------------------------------------------
(* The run of the download.                                                *)

\* (mutant: what its tasks store is cleared while they go on)
LeaveWithTasks ==
    /\ phase' = "down"
    /\ outboard' = {} /\ have' = {} /\ writer' = FALSE
    /\ on' = [w \in Task |-> NoPiece]
    /\ UNCHANGED pc

\* The run ends and lets go of its LocalShare, but not of tasks that store.
Leave ==
    /\ phase' = "down"
    /\ outboard' = {} /\ have' = {} /\ writer' = FALSE
    /\ pc' = [w \in Task |->
                CASE pc[w] \in AtLock -> "stale_checked"
                  [] pc[w] \in Writing -> "stale_writing"
                  [] OTHER -> "idle"]
    /\ on' = [w \in Task |-> IF pc[w] \in AtLock \cup Writing THEN on[w] ELSE NoPiece]

\* for_download: a plain file that is all there counts as downloaded, and
\* preallocate keeps an encrypted one that is at least as long as the header.
\* (Killed half way, it leaves an empty file, or one whose pieces are missing.)
LayOut ==
    /\ phase = "down"
    /\ IF ~encrypted /\ header = "good" /\ \A p \in Piece : Valid(p)
       THEN have' = Piece /\ outboard' = Tree
       ELSE UNCHANGED share
    /\ header' = IF header = "none" THEN "good" ELSE header
    /\ phase' = "laid_out"
    /\ UNCHANGED <<file, slot, saved, writer, tasks, got>>

\* (mutant: zeros that pass the hash check are taken for a written piece)
RestorableUnwritten(nodes) == {p \in Piece : ProofNodes(p) \subseteq nodes /\ Valid(p)}

\* What restore_progress finds, given the saved outboard.
Restorable(nodes) ==
    {p \in Piece : ProofNodes(p) \subseteq nodes /\ Valid(p) /\ (encrypted => BlockWritten(p))}

\* load_progress and restore_progress.
Restore ==
    /\ phase = "laid_out"
    /\ saved # Nothing /\ have # Piece
    /\ CanOpen
    /\ outboard' = saved
    /\ have' = have \cup Restorable(saved)
    /\ phase' = "running"
    /\ UNCHANGED <<file, header, slot, saved, writer, tasks, got>>

NothingToRestore ==
    /\ phase = "laid_out"
    /\ saved = Nothing \/ have = Piece
    /\ phase' = "running"
    /\ UNCHANGED <<file, header, slot, saved, share, writer, tasks, got>>

\* A file that does not open fails the download.
RestoreFails ==
    /\ phase = "laid_out"
    /\ saved # Nothing /\ have # Piece
    /\ ~CanOpen
    /\ Leave
    /\ UNCHANGED <<file, header, slot, saved, got>>

\* save_progress, as a transaction of the store.
Saving ==
    /\ saved' = outboard
    /\ got' = [p \in Piece |-> IF p \in have THEN "saved" ELSE got[p]]

SaveTick ==
    /\ phase = "running"
    /\ Saving
    /\ UNCHANGED <<file, header, slot, phase, share, writer, tasks>>

Cancel ==
    /\ phase = "running"
    /\ Saving
    /\ Leave
    /\ UNCHANGED <<file, header, slot>>

\* Every piece is here: the loop ends and release_writers waits for the lock.
Finish ==
    /\ phase = "running"
    /\ have = Piece
    /\ \A w \in Task : pc[w] # "writing"
    /\ writer' = FALSE
    /\ phase' = "verifying"
    /\ UNCHANGED <<file, header, slot, saved, share, tasks, got>>

\* verify reads the whole file strictly (in one step: only a piece that is
\* being sealed again can change under it).
Verify ==
    /\ phase = "verifying"
    /\ \A p \in Piece : StrictlyValid(p)
    /\ phase' = "verified"
    /\ UNCHANGED <<file, header, slot, saved, share, writer, tasks, got>>

VerifyFails ==
    /\ phase = "verifying"
    /\ \E p \in Piece : ~StrictlyValid(p)
    /\ Leave
    /\ UNCHANGED <<file, header, slot, saved, got>>

SaveFinal ==
    /\ phase = "verified"
    /\ Saving
    /\ phase' = "recorded"
    /\ UNCHANGED <<file, header, slot, share, writer, tasks>>

\* mark_complete removes the records of the download.
MarkComplete ==
    /\ phase = "recorded"
    /\ saved' = Nothing
    /\ got' = [p \in Piece |-> "no"]
    /\ phase' = "complete"
    /\ UNCHANGED <<file, header, slot, share, writer, tasks>>

\* The handle of a finished download goes; it may be downloaded again.
DropHandle ==
    /\ phase = "complete"
    /\ Leave
    /\ UNCHANGED <<file, header, slot, saved, got>>

-----------------------------------------------------------------------------
(* The process ends without warning.                                       *)

\* What a crash may leave of the pieces, if it keeps at least those in kept.
Left(kept, s) ==
    /\ s \in [Piece -> {"absent", "whole"}]
    /\ \A p \in Piece :
          /\ p \in kept => s[p] = "whole"
          /\ s[p] = "whole" => BlockWritten(p) \/ \E w \in Task : on[w] = p /\ pc[w] \in Writing

Crash(kept, headers) ==
    /\ \E h \in headers, s \in [Piece -> {"absent", "whole"}] :
          /\ Left(kept, s)
          /\ h # "good" => \A p \in Piece : s[p] = "absent"
          /\ header' = h
          /\ slot' = s
          /\ got' = [p \in Piece |-> IF s[p] = "whole" THEN got[p] ELSE "no"]
    /\ phase' = "down"
    /\ outboard' = {} /\ have' = {} /\ writer' = FALSE
    /\ pc' = [w \in Task |-> "idle"]
    /\ on' = [w \in Task |-> NoPiece]
    /\ UNCHANGED <<file, saved>>

\* A process that is killed loses only the pieces it is writing.
Kill ==
    /\ Crashes # "none"
    /\ Crash({p \in Piece : BlockWritten(p)}, {header})

\* Without power whatever was not synced may be lost, even the header.
LosePower ==
    /\ Crashes = "power_loss"
    /\ Crash({}, IF header = "none" THEN {"none"}
                 ELSE IF encrypted THEN {header, "none", "bad"} ELSE {header, "none"})

-----------------------------------------------------------------------------

\* A step of a task that stores, and of the run, when nothing goes wrong: also
\* not that verify meets a piece that a second task is sealing again.
Storing(w) == BeginWrite(w) \/ EndWrite(w) \/ ApplyProof(w) \/ MarkHave(w)
Running == LayOut \/ Restore \/ NothingToRestore \/ Finish \/ Verify \/ SaveFinal \/ MarkComplete
Undisturbed ==
    \/ \E w \in Task : Storing(w) \/ \E p \in Piece : Store(w, p)
    \/ Running
    \/ SaveTick
    \/ VerifyFails /\ \A p \in Piece : slot[p] # "overwritten"

PiecesNext ==
    \/ \E w \in Task, p \in Piece : Store(w, p)
    \/ \E w \in Task : BeginWrite(w) \/ Refuse(w) \/ WriteFails(w) \/ EndWrite(w)
                       \/ ApplyProof(w) \/ MarkHave(w)
    \/ LayOut \/ Restore \/ NothingToRestore \/ RestoreFails
    \/ SaveTick \/ Cancel \/ Finish \/ Verify \/ VerifyFails \/ SaveFinal
    \/ MarkComplete \/ DropHandle
    \/ Kill \/ LosePower

PiecesSpec == PiecesInit /\ [][PiecesNext]_vars

\* The download is started again after it ended, the run and the tasks go on,
\* and a piece that is missing arrives in the end.
FairPiecesSpec ==
    /\ PiecesSpec
    /\ WF_vars(Running) /\ WF_vars(VerifyFails)
    /\ \A w \in Task : WF_vars(Storing(w))
    /\ \A p \in Piece : SF_vars(\E w \in Task : Store(w, p))

-----------------------------------------------------------------------------
(* Properties.                                                             *)

PiecesTypeOK ==
    /\ encrypted \in BOOLEAN /\ zeros \subseteq Piece
    /\ header \in {"none", "good", "bad"}
    /\ slot \in [Piece -> {"absent", "whole", "overwritten"}]
    /\ saved \in (SUBSET Tree) \cup {Nothing}
    /\ phase \in Phase
    /\ outboard \subseteq Tree /\ have \subseteq Piece /\ writer \in BOOLEAN
    /\ pc \in [Task -> PC] /\ on \in [Task -> Piece \cup {NoPiece}]
    /\ got \in [Piece -> {"no", "written", "saved"}]

\* A piece this node says it has can be served with its proof and is read back
\* by verify, read_range and export_file: also after a crash that kept the
\* saved outboard and lost data, and when its content is zeros. The exception
\* is a copy that a second task is sealing again, or failed to.
HaveIsBacked ==
    \A p \in have :
        \/ CanEncode(p) /\ StrictlyValid(p)
        \/ ProofNodes(p) \subseteq outboard /\ slot[p] = "overwritten"

\* A saved piece is not fetched again: what was had at a save and is still on
\* disk is restored, from a snapshot of the outboard taken while other pieces
\* were between their write, their proof and `have`.
SavedIsRestored ==
    [][phase = "laid_out" /\ phase' = "running" =>
          \A p \in Piece : got[p] = "saved" /\ slot[p] = "whole" => p \in have']_vars

\* However often it crashed or was cancelled, a download that is not disturbed
\* any more completes: no piece that is missing is taken for one that is there,
\* which verify would reject each time. (A header lost with the power stays bad.)
DownloadCompletes ==
    <>[][Undisturbed]_vars => <>(phase = "complete" \/ header = "bad")

\* "Nothing is downloaded twice" (src/README.md:173): a piece that was written
\* and is still there is restored. Not so: Cancel saves before the tasks that
\* still store are done.
NothingTwice ==
    [][phase = "laid_out" /\ phase' = "running" =>
          \A p \in Piece : got[p] # "no" /\ slot[p] = "whole" => p \in have']_vars
=============================================================================
