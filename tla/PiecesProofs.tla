---------------------------- MODULE PiecesProofs ----------------------------
(***************************************************************************)
(* What a download says it has is on disk and provable, and what it saved  *)
(* it restores, for all files, hash trees, tasks and crashes of Pieces.    *)
(***************************************************************************)
EXTENDS Pieces, FiniteSetTheorems, TLAPS

\* Written whole at some time, and since then at most being sealed again.
Stored(p) == slot[p] \in {"whole", "overwritten"}

Before == {"down", "laid_out"}

\* A task that is not stale works for a run that is past its layout, on a piece
\* that it has stored and proved when it says so.
TaskInv(w) ==
    /\ pc[w] # "idle" => on[w] \in Piece
    /\ pc[w] \in {"checked", "writing", "written", "proved"} => phase \notin Before
    /\ pc[w] \in {"written", "proved"} => Stored(on[w])
    /\ pc[w] = "proved" => ProofNodes(on[w]) \subseteq outboard

TasksInv == \A w \in Task : TaskInv(w)

\* A piece that is had is stored and proved; before its restoration a run has
\* nothing, or the whole of a plain file that was there.
ShareInv ==
    /\ \A p \in have :
          /\ ProofNodes(p) \subseteq outboard
          /\ Stored(p) \/ (~encrypted /\ p \in zeros)
    /\ phase = "down" => have = {}
    /\ phase = "laid_out" => have = {} \/ (have = Piece /\ outboard = Tree)

PlainInv == ~encrypted => \A p \in Piece : slot[p] # "overwritten"

\* The record proves every piece that was had when it was saved, and so does
\* the outboard of a run that has restored it.
RecordInv ==
    \A p \in Piece : got[p] = "saved" =>
        /\ saved # Nothing /\ ProofNodes(p) \subseteq saved
        /\ phase \notin Before => ProofNodes(p) \subseteq outboard

PiecesInv == PiecesTypeOK /\ TasksInv /\ ShareInv /\ PlainInv /\ RecordInv

\* No record is not a record of no nodes.
LEMMA RecordIsNodes ==
    ASSUME NEW nodes \in SUBSET Tree
    PROVE  nodes # Nothing
  <1>1. {} \notin Tree
    BY FS_EmptySet, PiecesAssumption
  <1> QED
    BY <1>1 DEF Nothing

LEMMA StartInv ==
    ASSUME PiecesInit
    PROVE  PiecesInv
  <1>1. PiecesTypeOK
    <2>1. zeros \subseteq Piece
      BY PiecesAssumption DEF PiecesInit
    <2>2. saved \in (SUBSET Tree) \cup {Nothing} /\ outboard \subseteq Tree
      BY DEF PiecesInit
    <2> QED
      BY <2>1, <2>2 DEF PiecesInit, PiecesTypeOK, Phase, PC
  <1>2. TasksInv /\ ShareInv /\ PlainInv /\ RecordInv
    BY DEF PiecesInit, TasksInv, TaskInv, ShareInv, PlainInv, RecordInv
  <1> QED
    BY <1>1, <1>2 DEF PiecesInv

\* The steps of a task before it has written ...
LEMMA BeginInv ==
    ASSUME PiecesInv, NEW w \in Task,
           (\E p \in Piece : Store(w, p)) \/ BeginWrite(w) \/ Refuse(w) \/ WriteFails(w)
    PROVE  PiecesInv'
  <1> USE DEF PiecesInv, PiecesTypeOK, TasksInv, TaskInv, ShareInv, PlainInv, RecordInv, Stored,
              ProofNodes, PC, Phase, Before, file, share
  <1>1. ASSUME NEW p \in Piece, Store(w, p)
        PROVE  PiecesInv'
    BY <1>1 DEF Store
  <1>2. CASE BeginWrite(w)
    BY <1>2 DEF BeginWrite, AtLock
  <1>3. CASE Refuse(w)
    BY <1>3 DEF Refuse, AtLock, End
  <1>4. CASE WriteFails(w)
    BY <1>4 DEF WriteFails, Writing, End
  <1> QED
    BY <1>1, <1>2, <1>3, <1>4

\* ... and after.
LEMMA WrittenInv ==
    ASSUME PiecesInv, NEW w \in Task, EndWrite(w) \/ ApplyProof(w) \/ MarkHave(w)
    PROVE  PiecesInv'
  <1> USE DEF PiecesInv, PiecesTypeOK, TasksInv, TaskInv, ShareInv, PlainInv, RecordInv, Stored,
              ProofNodes, PC, Phase, Before, file, share
  <1>1. CASE EndWrite(w)
    BY <1>1 DEF EndWrite, Writing, End
  <1>2. CASE ApplyProof(w)
    BY <1>2 DEF ApplyProof
  <1>3. CASE MarkHave(w)
    BY <1>3 DEF MarkHave, End
  <1> QED
    BY <1>1, <1>2, <1>3

\* A run that ends keeps the records, and leaves only tasks that were writing.
LEMMA LeaveInv ==
    ASSUME PiecesInv, Leave, UNCHANGED <<file, slot>>,
           header' \in {"none", "good", "bad"},
           \/ UNCHANGED <<saved, got>>
           \/ Saving /\ phase \notin Before
    PROVE  PiecesInv'
  <1> USE DEF PiecesInv, PiecesTypeOK
  <1>1. pc' \in [Task -> {"idle", "stale_checked", "stale_writing"}]
    BY DEF Leave
  <1>2. ASSUME NEW w \in Task
        PROVE  on'[w] \in Piece \cup {NoPiece} /\ (pc'[w] # "idle" => on'[w] \in Piece)
    BY DEF Leave, TasksInv, TaskInv, AtLock, Writing
  <1>3. on' \in [Task -> Piece \cup {NoPiece}]
    BY <1>2 DEF Leave
  <1>4. TasksInv'
    BY <1>1, <1>2 DEF TasksInv, TaskInv
  <1>5. ShareInv' /\ PlainInv'
    BY DEF Leave, ShareInv, PlainInv, file
  <1>6. saved' \in (SUBSET Tree) \cup {Nothing} /\ got' \in [Piece -> {"no", "written", "saved"}]
    BY DEF Saving
  <1>7. RecordInv'
    <2>1. CASE UNCHANGED <<saved, got>>
      BY <2>1 DEF RecordInv, ProofNodes, Leave, Before
    <2>2. CASE Saving /\ phase \notin Before
      <3>1. ASSUME NEW p \in Piece, got'[p] = "saved"
            PROVE  ProofNodes(p) \subseteq outboard
        BY <2>2, <3>1 DEF Saving, RecordInv, ShareInv
      <3>2. saved' = outboard /\ outboard # Nothing
        BY <2>2, RecordIsNodes DEF Saving
      <3> QED
        BY <3>1, <3>2 DEF RecordInv, ProofNodes, Leave, Before
    <2> QED
      BY <2>1, <2>2
  <1>8. PiecesTypeOK'
    BY <1>1, <1>3, <1>6 DEF Leave, file, PC, Phase
  <1> QED
    BY <1>4, <1>5, <1>7, <1>8

\* The run of the download up to the first piece it stores.
LEMMA LayOutInv ==
    ASSUME PiecesInv, LayOut \/ Restore \/ NothingToRestore
    PROVE  PiecesInv'
  <1> USE DEF PiecesInv, PiecesTypeOK, TasksInv, TaskInv, ShareInv, PlainInv, RecordInv, Stored,
              ProofNodes, PC, Phase, Before, file, share, tasks
  <1>1. CASE LayOut
    BY <1>1 DEF LayOut, Valid, BlockWritten
  <1>2. CASE Restore
    <2>1. have = {} /\ saved \in SUBSET Tree
      BY <1>2 DEF Restore
    <2>2. ASSUME NEW p \in have'
          PROVE  /\ p \in Piece /\ ProofNodes(p) \subseteq outboard'
                 /\ Stored(p) \/ (~encrypted /\ p \in zeros)
      BY <1>2, <2>1, <2>2 DEF Restore, Restorable, Valid, BlockWritten
    <2>3. PiecesTypeOK' /\ PlainInv' /\ TasksInv'
      BY <1>2, <2>1, <2>2 DEF Restore
    <2>4. ShareInv' /\ RecordInv'
      BY <1>2, <2>1, <2>2 DEF Restore
    <2> QED
      BY <2>3, <2>4
  <1>3. CASE NothingToRestore
    BY <1>3 DEF NothingToRestore
  <1> QED
    BY <1>1, <1>2, <1>3

\* A save while the run goes on.
LEMMA SaveInv ==
    ASSUME PiecesInv, SaveTick \/ SaveFinal
    PROVE  PiecesInv'
  <1> USE DEF PiecesInv, PiecesTypeOK, file, share, tasks
  <1>1. /\ Saving /\ phase \notin Before /\ phase' \in Phase \ Before
        /\ UNCHANGED <<file, header, slot, share, writer, tasks>>
    BY DEF SaveTick, SaveFinal, Before, Phase
  <1>2. saved' \in SUBSET Tree /\ got' \in [Piece -> {"no", "written", "saved"}]
    BY <1>1 DEF Saving
  <1>3. saved' = outboard /\ outboard # Nothing
    BY <1>1, RecordIsNodes DEF Saving
  <1>4. ASSUME NEW p \in Piece, got'[p] = "saved"
        PROVE  ProofNodes(p) \subseteq outboard
    BY <1>1, <1>4 DEF Saving, RecordInv, ShareInv
  <1>5. RecordInv'
    BY <1>1, <1>3, <1>4 DEF RecordInv, ProofNodes
  <1>6. PiecesTypeOK'
    BY <1>1, <1>2
  <1>7. TasksInv' /\ ShareInv' /\ PlainInv'
    BY <1>1 DEF TasksInv, TaskInv, ShareInv, PlainInv, Stored, ProofNodes, Before
  <1> QED
    BY <1>5, <1>6, <1>7

\* The end of a run.
LEMMA EndInv ==
    ASSUME PiecesInv, Finish \/ Verify \/ MarkComplete
    PROVE  PiecesInv'
  <1> USE DEF PiecesInv, PiecesTypeOK, TasksInv, TaskInv, ShareInv, PlainInv, RecordInv, Stored,
              ProofNodes, PC, Phase, Before, file, share, tasks
  <1>1. CASE Finish
    BY <1>1 DEF Finish
  <1>2. CASE Verify
    BY <1>2 DEF Verify
  <1>3. CASE MarkComplete
    <2>1. \A p \in Piece : got'[p] = "no"
      BY <1>3 DEF MarkComplete
    <2>2. PiecesTypeOK'
      BY <1>3 DEF MarkComplete
    <2>3. TasksInv' /\ ShareInv' /\ PlainInv'
      BY <1>3 DEF MarkComplete
    <2> QED
      BY <2>1, <2>2, <2>3
  <1> QED
    BY <1>1, <1>2, <1>3

\* A crash clears what was in memory and leaves some of the disk.
LEMMA CrashInv ==
    ASSUME PiecesInv, Kill \/ LosePower
    PROVE  PiecesInv'
  <1> USE DEF PiecesInv, PiecesTypeOK
  <1>1. PICK kept \in SUBSET Piece, headers \in SUBSET {"none", "good", "bad"} :
            Crash(kept, headers)
    <2>1. CASE Kill
      BY <2>1 DEF Kill
    <2>2. CASE LosePower
      BY <2>2 DEF LosePower
    <2> QED
      BY <2>1, <2>2
  <1>2. /\ phase' = "down"
        /\ outboard' = {} /\ have' = {} /\ writer' = FALSE
        /\ pc' = [w \in Task |-> "idle"]
        /\ on' = [w \in Task |-> NoPiece]
        /\ UNCHANGED <<file, saved>>
    BY <1>1 DEF Crash
  <1>3. PICK h \in headers, s \in [Piece -> {"absent", "whole"}] :
            /\ header' = h
            /\ slot' = s
            /\ got' = [p \in Piece |-> IF s[p] = "whole" THEN got[p] ELSE "no"]
    BY <1>1 DEF Crash
  <1>4. PiecesTypeOK'
    BY <1>2, <1>3 DEF file, PC, Phase
  <1>5. TasksInv' /\ ShareInv' /\ PlainInv'
    BY <1>2, <1>3 DEF TasksInv, TaskInv, ShareInv, PlainInv
  <1>6. RecordInv'
    BY <1>2, <1>3 DEF RecordInv, ProofNodes, Before
  <1> QED
    BY <1>4, <1>5, <1>6

LEMMA NextInv ==
    ASSUME PiecesInv, [PiecesNext]_vars
    PROVE  PiecesInv'
  <1>1. CASE UNCHANGED vars
    BY <1>1
    DEF vars, file, share, tasks, PiecesInv, PiecesTypeOK, TasksInv, TaskInv, ShareInv, PlainInv,
        RecordInv, Stored, ProofNodes
  <1>2. CASE RestoreFails \/ Cancel \/ VerifyFails \/ DropHandle
    <2>1. Leave /\ UNCHANGED <<file, header, slot>> /\ header \in {"none", "good", "bad"}
      BY <1>2 DEF RestoreFails, Cancel, VerifyFails, DropHandle, PiecesInv, PiecesTypeOK
    <2>2. UNCHANGED <<saved, got>> \/ (Saving /\ phase \notin Before)
      BY <1>2 DEF RestoreFails, Cancel, VerifyFails, DropHandle, Before
    <2> QED
      BY <2>1, <2>2, LeaveInv
  <1> QED
    BY <1>1, <1>2, BeginInv, WrittenInv, LayOutInv, SaveInv, EndInv, CrashInv DEF PiecesNext

\* The strengthening holds in every reachable state.
THEOREM PiecesInvariant == PiecesSpec => []PiecesInv
  BY StartInv, NextInv, PTL DEF PiecesSpec

\* Runs, blocking tasks and crashes leave every field in its type: the outboard and
\* its saved copy stay parts of the tree, and a task works on a piece of the file.
THEOREM PiecesTypes == PiecesSpec => []PiecesTypeOK
  <1>1. PiecesInv => PiecesTypeOK
    BY DEF PiecesInv
  <1> QED
    BY <1>1, PiecesInvariant, PTL

LEMMA InvBacked ==
    ASSUME PiecesInv
    PROVE  HaveIsBacked
  <1>1. ASSUME NEW p \in have
        PROVE  \/ CanEncode(p) /\ StrictlyValid(p)
               \/ ProofNodes(p) \subseteq outboard /\ slot[p] = "overwritten"
    <2>1. ProofNodes(p) \subseteq outboard /\ p \in Piece
      BY DEF PiecesInv, ShareInv, PiecesTypeOK
    <2>2. CASE slot[p] = "overwritten"
      BY <2>1, <2>2
    <2>3. CASE slot[p] # "overwritten"
      BY <2>1, <2>3
      DEF PiecesInv, ShareInv, Stored, CanEncode, StrictlyValid, Valid, BlockWritten
    <2> QED
      BY <2>2, <2>3
  <1> QED
    BY <1>1 DEF HaveIsBacked

\* Whatever crashed or failed, a piece in LocalShare.have is read back and proved
\* (local.rs, chunker.rs), or is a copy that a second task is sealing again.
THEOREM PiecesHaveIsBacked == PiecesSpec => []HaveIsBacked
  BY PiecesInvariant, InvBacked, PTL

\* A run that begins to fetch has every piece that was had at a save and is still
\* on disk (restore_progress, local.rs).
LEMMA RestoresSaved ==
    ASSUME PiecesInv, PiecesNext, phase = "laid_out", phase' = "running",
           NEW p \in Piece, got[p] = "saved", slot[p] = "whole"
    PROVE  p \in have'
  <1>1. saved # Nothing /\ ProofNodes(p) \subseteq saved
    BY DEF PiecesInv, RecordInv
  <1>2. Restore \/ NothingToRestore
    BY DEF PiecesNext, Store, BeginWrite, Refuse, WriteFails, EndWrite, ApplyProof, MarkHave,
           LayOut, RestoreFails, Leave, SaveTick, Cancel, Finish, Verify, VerifyFails,
           SaveFinal, MarkComplete, DropHandle, Kill, LosePower, Crash
  <1>3. CASE Restore
    BY <1>1, <1>3 DEF Restore, Restorable, Valid, BlockWritten
  <1>4. CASE NothingToRestore
    BY <1>1, <1>4 DEF NothingToRestore, share
  <1> QED
    BY <1>2, <1>3, <1>4

\* What was had at a save and is still on disk is not fetched again.
THEOREM PiecesSavedIsRestored == PiecesSpec => SavedIsRestored
  <1>1. ASSUME PiecesInv, [PiecesNext]_vars
        PROVE  [phase = "laid_out" /\ phase' = "running" =>
                   \A p \in Piece : got[p] = "saved" /\ slot[p] = "whole" => p \in have']_vars
    BY <1>1, RestoresSaved
  <1> QED
    BY <1>1, PiecesInvariant, PTL DEF PiecesSpec, SavedIsRestored
=============================================================================
