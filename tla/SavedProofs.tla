---------------------------- MODULE SavedProofs -----------------------------
(***************************************************************************)
(* The data dir is either sealed with one key or plain, and stays open to  *)
(* whoever wrote its records, for all keys, calls and allowlists. What it  *)
(* keeps about a share stays in agreement with the calls that work on it:  *)
(* the types for any interleaving of calls, and what Client promises about *)
(* saved transfers, forgotten shares, allowlists and finished downloads    *)
(* when transfers of the share come one after the other, wherever they are *)
(* when it is forgotten.                                                   *)
(***************************************************************************)
EXTENDS Saved, TLAPS

-----------------------------------------------------------------------------
(* The data dir.                                                           *)


\* What DataDir and Saved keep true between them. A key has its mark before the
\* first record is sealed with it, and its fingerprint before the mark; a
\* process that is up has the key of the dir; calls are made only then.
MarksInOrder ==
    /\ format => fingerprint # NoKey
    /\ sealers # {} /\ fingerprint # NoKey => format
    /\ sealers \subseteq {fingerprint}

KeyOfDir ==
    /\ boot \in {"fingerprint", "format"} => key # NoKey /\ sealers = {} /\ ~format
    /\ boot = "fingerprint" => fingerprint \in {NoKey, key}
    /\ boot \in {"format", "node", "up"} => fingerprint = key
    /\ boot \in {"node", "up"} /\ key # NoKey => format

CallsWhenUp == boot # "up" => \A c \in Call : pc[c] = "idle"

DirInv == DirTypeOK /\ MarksInOrder /\ KeyOfDir /\ CallsWhenUp

\* A transaction seals with the key of the process; any other step leaves the
\* keys that records are sealed with alone, or there are no records left.
LEMMA SealEffect ==
    ASSUME Seal
    PROVE  \/ sealers' = {}
           \/ sealers' = sealers
           \/ sealers' = sealers \cup {key} /\ <<records, nodeKeys>>' # <<records, nodeKeys>>
  BY DEF Seal

\* Nothing but the start of the process moves while it is not up.
LEMMA NoCallsBefore ==
    ASSUME CallsWhenUp, boot # "up", NEW c \in Call
    PROVE  /\ ~CallStep(c)
           /\ \A t \in Call : ~SetAllowedPeers(c, t)
  <1>1. pc[c] = "idle"
    BY DEF CallsWhenUp
  <1>2. ~Unused(c) /\ ~ \E others \in {{"idle"}, {"idle"} \cup Transferring} :
                          MayBegin(c, others)
    BY DEF MayBegin, Unused
  <1>3. ~Seed(c) /\ ~ResumeSeed(c) /\ ~Download(c) /\ ~Forget(c) /\ ~RemoveShare(c)
    BY <1>2 DEF Seed, ResumeSeed, Download, Forget, RemoveShare
  <1>4. \A t \in Call : ~SetAllowedPeers(c, t)
    BY <1>2 DEF SetAllowedPeers
  <1>5. /\ ~LoadAllowed(c) /\ ~RememberAllowed(c) /\ ~RememberDownload(c) /\ ~Register(c)
        /\ ~RememberKinds(c) /\ ~RememberSeed(c) /\ ~SaveProgress(c) /\ ~Cancel(c)
    BY <1>1 DEF LoadAllowed, RememberAllowed, RememberDownload, Register, RememberKinds,
                RememberSeed, SaveProgress, Cancel
  <1>6. /\ ~Complete(c) /\ ~MarkComplete(c) /\ ~Finished(c) /\ ~SetSaved(c) /\ ~SetLive(c)
        /\ ~ForgetSeed(c) /\ ~ForgetDownloads(c) /\ ~Drop(c)
    BY <1>1 DEF Complete, MarkComplete, Finished, SetSaved, SetLive, ForgetSeed,
                ForgetDownloads, Drop
  <1> QED
    BY <1>3, <1>4, <1>5, <1>6 DEF CallStep

LEMMA DirInvInit ==
    ASSUME SavedInit
    PROVE  DirInv
  BY DEF SavedInit, DirInit, DirInv, DirTypeOK, MarksInOrder, KeyOfDir, CallsWhenUp

\* A call: the dir's marks stay, and what it seals is under the dir's key.
LEMMA CallInv ==
    ASSUME DirInv, Seal, UNCHANGED dirVars,
           NEW c \in Call, CallStep(c) \/ \E t \in Call : SetAllowedPeers(c, t)
    PROVE  DirInv'
  <1>1. boot = "up"
    BY NoCallsBefore DEF DirInv
  <1>2. fingerprint = key /\ (key # NoKey => format)
    BY <1>1 DEF DirInv, KeyOfDir
  <1>3. sealers' \subseteq {key}
    BY <1>2, SealEffect DEF DirInv, MarksInOrder
  <1> QED
    BY <1>1, <1>2, <1>3
    DEF DirInv, DirTypeOK, MarksInOrder, KeyOfDir, CallsWhenUp, dirVars

LEMMA OpenInv ==
    ASSUME DirInv, NEW k \in Key \cup {NoKey}, Open(k), sealers' \in {sealers, {}}
    PROVE  DirTypeOK' /\ MarksInOrder' /\ KeyOfDir' /\ boot' # "up"
  <1> USE DEF DirInv, DirTypeOK, MarksInOrder, KeyOfDir, Open, Boot
  <1>1. CASE k = NoKey
    BY <1>1 DEF Refuses, SetsUp
  <1>2. CASE k # NoKey /\ format
    BY <1>2 DEF Refuses, SetsUp
  <1>3. CASE k # NoKey /\ ~format
    BY <1>3 DEF Refuses, SetsUp
  <1> QED
    BY <1>1, <1>2, <1>3

LEMMA MarkInv ==
    ASSUME DirInv, Mark, sealers' \in {sealers, {}}
    PROVE  DirTypeOK' /\ MarksInOrder' /\ KeyOfDir' /\ boot' # "up"
  <1> USE DEF DirInv, DirTypeOK, MarksInOrder, KeyOfDir, Mark, Boot
  <1>1. CASE boot = "fingerprint"
    BY <1>1
  <1>2. CASE boot = "format"
    BY <1>2
  <1> QED
    BY <1>1, <1>2

LEMMA BindInv ==
    ASSUME DirInv, Bind, sealers' \in {sealers, {}, sealers \cup {key}}
    PROVE  DirTypeOK' /\ MarksInOrder' /\ KeyOfDir' /\ boot' = "up"
  BY DEF DirInv, DirTypeOK, MarksInOrder, KeyOfDir, Bind, Boot

\* The start of a process: the records are as they were, but for the node key.
LEMMA StartInv ==
    ASSUME DirInv, Start, Seal
    PROVE  DirInv'
  <1>1. UNCHANGED records /\ UNCHANGED pc
    BY DEF Start
  <1>2. boot # "up"
    BY DEF Start, DirStep, Mark, Bind, Open
  <1>3. CallsWhenUp'
    BY <1>1, <1>2 DEF DirInv, CallsWhenUp
  <1>4. sealers' \in {sealers, {}, sealers \cup {key}}
    BY SealEffect
  <1>5. CASE Mark
    <2>1. sealers' \in {sealers, {}}
      BY <1>1, <1>5, SealEffect DEF Mark
    <2> QED
      BY <1>3, <1>5, <2>1, MarkInv DEF DirInv
  <1>6. CASE Bind
    BY <1>3, <1>4, <1>6, BindInv DEF DirInv
  <1>7. CASE \E k \in Key \cup {NoKey} : Open(k)
    <2>1. PICK k \in Key \cup {NoKey} : Open(k)
      BY <1>7
    <2>2. sealers' \in {sealers, {}}
      BY <1>1, <2>1, SealEffect DEF Open
    <2> QED
      BY <1>3, <2>1, <2>2, OpenInv DEF DirInv
  <1> QED
    BY <1>5, <1>6, <1>7 DEF Start, DirStep

LEMMA CrashInv ==
    ASSUME DirInv, Crash, Seal
    PROVE  DirInv'
  <1>1. sealers' \in {sealers, {}}
    BY SealEffect DEF Crash
  <1>2. DirTypeOK' /\ MarksInOrder' /\ KeyOfDir'
    BY <1>1 DEF DirInv, DirTypeOK, MarksInOrder, KeyOfDir, Crash, Boot
  <1>3. CallsWhenUp'
    BY DEF Crash, CallsWhenUp
  <1> QED
    BY <1>2, <1>3 DEF DirInv

LEMMA DirInvNext ==
    ASSUME DirInv, [SavedNext]_vars
    PROVE  DirInv'
  <1>1. CASE UNCHANGED vars
    BY <1>1 DEF DirInv, DirTypeOK, MarksInOrder, KeyOfDir, CallsWhenUp, vars, dirVars
  <1>2. CASE SavedNext
    <2>1. Seal
      BY <1>2 DEF SavedNext
    <2>2. CASE /\ UNCHANGED dirVars
               /\ \/ \E c \in Call : CallStep(c)
                  \/ \E c, t \in Call : SetAllowedPeers(c, t)
      BY <2>1, <2>2, CallInv
    <2>3. CASE Start
      BY <2>1, <2>3, StartInv
    <2>4. CASE Crash
      BY <2>1, <2>4, CrashInv
    <2> QED
      BY <1>2, <2>2, <2>3, <2>4 DEF SavedNext
  <1> QED
    BY <1>1, <1>2

\* The strengthening holds in every reachable state.
THEOREM DirInvariant == SavedSpec => []DirInv
  BY DirInvInit, DirInvNext, PTL DEF SavedSpec

LEMMA DirInvOpens ==
    ASSUME DirInv
    PROVE  RecordsOpen
  BY DataDirAssumption
  DEF DirInv, DirTypeOK, MarksInOrder, KeyOfDir, RecordsOpen, Refuses

\* "A database is either sealed or plain, never a mix" (store.rs:19): whoever
\* wrote records is let in by check_format, wherever the process stopped, and
\* a process that is up can read every record.
THEOREM SavedRecordsOpen == SavedSpec => []RecordsOpen
  BY DirInvariant, DirInvOpens, PTL

-----------------------------------------------------------------------------
(* Any calls, overlapping or not.                                          *)

\* A call whose LocalShare is listed has not ended; a download is listed only
\* when it will be served, so that it ends in a handle that owns the listing.
Listed == {"kinds", "seeds", "seeding", "running", "mark", "finished"}

ListedRuns ==
    \A c \in Call : registry = c /\ registry # Nothing =>
        /\ pc[c] \in Listed
        /\ pc[c] \in {"running", "mark", "finished"} => reseed

\* SavedTypeOK without the data dir, and what its last conjunct needs.
CallTypes ==
    /\ seeds \in Kind \cup {Nothing}
    /\ kinds \in Kind \cup {Nothing}
    /\ access \in List
    /\ download \in BOOLEAN /\ progress \in BOOLEAN
    /\ fetched \in BOOLEAN /\ abandoned \in BOOLEAN /\ reseed \in BOOLEAN
    /\ forgot \in {"no", "begun", "done"}
    /\ outlived \in {"no", "recording", "awaited"}
    /\ registry \in Call \cup {Nothing}
    /\ pc \in [Call -> PC]
    /\ allowed \in [Call -> List]
    /\ kind \in [Call -> Kind]
    /\ target \in [Call -> Call]

TypesInv == CallTypes /\ ListedRuns

LEMMA TypesInit ==
    ASSUME SavedInit
    PROVE  TypesInv
  BY SavedAssumption
  DEF SavedInit, TypesInv, CallTypes, ListedRuns, Kind, PC, Nothing

\* A call that begins has nothing listed yet.
LEMMA BeginTypes ==
    ASSUME TypesInv, NEW c \in Call,
           \/ Seed(c) \/ ResumeSeed(c) \/ Download(c) \/ Forget(c) \/ RemoveShare(c)
           \/ \E t \in Call : SetAllowedPeers(c, t)
    PROVE  TypesInv'
  <1> USE DEF TypesInv, CallTypes, ListedRuns, Listed, MayBegin, Unused, Wanted, Goto, records,
              past, objects, forgotten, PC
  <1>1. CASE Seed(c)
    <2>1. PICK l \in List : allowed' = [allowed EXCEPT ![c] = l]
      BY <1>1 DEF Seed
    <2>2. PICK k \in Kind : kind' = [kind EXCEPT ![c] = k]
      BY <1>1 DEF Seed, SeedKind, Kind
    <2> QED
      BY <1>1, <2>1, <2>2 DEF Seed
  <1>2. CASE ResumeSeed(c)
    BY <1>2 DEF ResumeSeed
  <1>3. CASE Download(c)
    <2>1. PICK l \in List : allowed' = [allowed EXCEPT ![c] = l]
      BY <1>3 DEF Download
    <2> QED
      BY <1>3, <2>1 DEF Download, DownloadKind, Kind
  <1>4. CASE Forget(c)
    BY <1>4 DEF Forget
  <1>5. CASE RemoveShare(c)
    BY <1>5 DEF RemoveShare
  <1>6. CASE \E t \in Call : SetAllowedPeers(c, t)
    <2>1. PICK t \in Call : SetAllowedPeers(c, t)
      BY <1>6
    <2>2. PICK l \in List : allowed' = [allowed EXCEPT ![c] = l]
      BY <2>1 DEF SetAllowedPeers
    <2> QED
      BY <2>1, <2>2 DEF SetAllowedPeers
  <1> QED
    BY <1>1, <1>2, <1>3, <1>4, <1>5, <1>6

\* A transaction or another step of a call.
LEMMA StepTypes ==
    ASSUME TypesInv, NEW c \in Call, CallStep(c)
    PROVE  TypesInv'
  <1> USE DEF TypesInv, CallTypes, ListedRuns, Listed, Goto, records, past, objects, forgotten, PC
  <1>1. CASE \/ Seed(c) \/ ResumeSeed(c) \/ Download(c) \/ Forget(c) \/ RemoveShare(c)
    BY <1>1, BeginTypes
  <1>2. CASE LoadAllowed(c)
    BY <1>2 DEF LoadAllowed
  <1>3. CASE RememberAllowed(c)
    BY <1>3 DEF RememberAllowed
  <1>4. CASE RememberDownload(c)
    BY <1>4 DEF RememberDownload
  <1>5. CASE Register(c)
    BY <1>5 DEF Register
  <1>6. CASE RememberKinds(c)
    BY <1>6 DEF RememberKinds
  <1>7. CASE RememberSeed(c)
    BY <1>7 DEF RememberSeed
  <1>8. CASE SaveProgress(c)
    BY <1>8 DEF SaveProgress
  <1>9. CASE Cancel(c)
    BY <1>9 DEF Cancel, Unregister
  <1>10. CASE Complete(c)
    BY <1>10 DEF Complete
  <1>11. CASE MarkComplete(c)
    BY <1>11 DEF MarkComplete
  <1>12. CASE Finished(c)
    BY <1>12 DEF Finished
  <1>13. CASE SetSaved(c)
    BY <1>13 DEF SetSaved
  <1>14. CASE SetLive(c)
    BY <1>14 DEF SetLive
  <1>15. CASE ForgetSeed(c)
    BY <1>15, SavedAssumption DEF ForgetSeed
  <1>16. CASE ForgetDownloads(c)
    BY <1>16 DEF ForgetDownloads
  <1>17. CASE Drop(c)
    BY <1>17 DEF Drop, Unregister
  <1> QED
    BY <1>1, <1>2, <1>3, <1>4, <1>5, <1>6, <1>7, <1>8, <1>9, <1>10, <1>11, <1>12, <1>13,
       <1>14, <1>15, <1>16, <1>17
    DEF CallStep

\* The process stops or starts.
LEMMA ProcessTypes ==
    ASSUME TypesInv, CallsWhenUp, Start \/ Crash
    PROVE  TypesInv'
  <1> USE DEF TypesInv, CallTypes, ListedRuns, records, past, objects, forgotten, PC
  <1>1. CASE Start
    <2>1. boot # "up"
      BY <1>1 DEF Start, DirStep, Mark, Bind, Open
    <2>2. registry = Nothing
      BY <2>1 DEF CallsWhenUp, Listed
    <2> QED
      BY <1>1, <2>2 DEF Start
  <1>2. CASE Crash
    BY <1>2 DEF Crash
  <1> QED
    BY <1>1, <1>2

LEMMA TypesNext ==
    ASSUME TypesInv, DirInv, [SavedNext]_vars
    PROVE  TypesInv'
  <1>1. CASE UNCHANGED vars
    BY <1>1
    DEF vars, records, past, objects, forgotten, TypesInv, CallTypes, ListedRuns
  <1>2. CASE \E c \in Call : CallStep(c) \/ \E t \in Call : SetAllowedPeers(c, t)
    BY <1>2, BeginTypes, StepTypes
  <1>3. CASE Start \/ Crash
    BY <1>3, ProcessTypes DEF DirInv
  <1> QED
    BY <1>1, <1>2, <1>3 DEF SavedNext

\* Whatever calls overlap, what is listed belongs to a call that has not ended.
THEOREM CallInvariant == SavedSpec => []TypesInv
  BY TypesInit, TypesNext, DirInvariant, PTL DEF SavedSpec

LEMMA TypesAreTypes ==
    ASSUME DirInv, TypesInv
    PROVE  SavedTypeOK
  <1>1. registry # Nothing => pc[registry] # "idle"
    BY DEF TypesInv, CallTypes, ListedRuns, Listed
  <1> QED
    BY <1>1 DEF SavedTypeOK, TypesInv, CallTypes, DirInv

\* Every record holds a value of its kind, every call is at a step of its own, and
\* an object that is listed belongs to a call that has not ended (registration.rs:
\* the Registration is dropped with its owner), whatever calls overlap.
THEOREM SavedTypes == SavedSpec => []SavedTypeOK
  BY CallInvariant, DirInvariant, TypesAreTypes, PTL

-----------------------------------------------------------------------------
(* Transfers of the share one after the other, forget and remove at any     *)
(* step of them, with crashes and errors anywhere.                         *)

\* set_allowed_peers, beside the handle of a seed; forget and remove.
Setting == {"set", "set_live"}
Forgetting == {"forget", "forget_downloads"}

\* The steps of a seed, a download or a resume, up to its handle.
Pipeline == PC \ ({"idle", "seeding"} \cup Setting \cup Forgetting)

\* A complete download whose record as a seed is still to be written.
Keeping == {"finished", "kinds", "seeds", "keep_kinds", "keep_seeds"}

\* At most one transfer is under way or served, and beside its handle at most one
\* set_allowed_peers; forget and remove may be beside anything.
Alone ==
    \A c, d \in Call :
        c # d /\ pc[c] \notin {"idle"} \cup Forgetting /\ pc[d] \notin {"idle"} \cup Forgetting =>
            \/ pc[c] \in Setting /\ pc[d] = "seeding"
            \/ pc[d] \in Setting /\ pc[c] = "seeding"

\* How the records and the object of a call agree at each of its steps, as long as
\* nobody forgets the share.
InTurn(c) ==
    /\ pc[c] \in {"download_allow", "download_list", "running", "mark"} /\ forgot = "no" =>
          download
    /\ pc[c] \in Keeping \cup {"seed_list", "download_list", "running", "mark"}
          /\ forgot = "no" => allowed[c] = access
    /\ pc[c] \in {"mark", "finished"} /\ fetched => reseed \/ Encrypted \/ seeds # Nothing
    /\ pc[c] = "seeding" /\ forgot = "no" => seeds # Nothing
    /\ pc[c] = "seeding" /\ forgot = "no" /\ (\A d \in Call : pc[d] # "set_live") =>
          allowed[c] = access
    /\ pc[c] \in Setting => pc[target[c]] = "seeding"
    /\ pc[c] = "set_live" /\ forgot = "no" => allowed[c] = access
    /\ pc[c] = "forget_downloads" => forgot # "no"

CallsInTurn == \A c \in Call : InTurn(c)

\* What was forgotten is gone, and no call that goes on will write it again, unless
\* `outlived` says so.
ForgottenAll ==
    forgot # "no" =>
        /\ ~fetched
        /\ outlived = "no" =>
              /\ seeds = Nothing
              /\ forgot = "done" => ~download
              /\ \A c \in Call : pc[c] \notin Recording

Kept == fetched /\ ~abandoned =>
    \/ seeds # Nothing \/ download
    \/ \E c \in Call : pc[c] \in Keeping

OrderInv == Alone /\ CallsInTurn /\ ForgottenAll /\ Kept

OnlyForgets(c) == \A d \in Call : d # c => pc[d] \in {"idle"} \cup Forgetting

LEMMA OrderInit ==
    ASSUME SavedInit
    PROVE  OrderInv
  BY DEF SavedInit, OrderInv, Alone, CallsInTurn, InTurn, ForgottenAll, Kept, Keeping, Setting,
         Forgetting

\* Beside a call on its way to a handle there are at most calls that forget.
LEMMA PipelineAlone ==
    ASSUME CallTypes, Alone, NEW c \in Call, pc[c] \in Pipeline
    PROVE  OnlyForgets(c)
  BY DEF CallTypes, Alone, Pipeline, Setting, Forgetting, OnlyForgets

\* A step of the only transfer under way: it is enough to look at that call.
LEMMA OnlyCall ==
    ASSUME CallTypes, NEW c \in Call, NEW at \in PC, OnlyForgets(c),
           pc' = [pc EXCEPT ![c] = at], InTurn(c)',
           \A d \in Call : d # c /\ pc[d] = "forget_downloads" => forgot' # "no"
    PROVE  Alone' /\ CallsInTurn'
  <1>1. \A d \in Call : d # c => pc'[d] = pc[d]
    BY DEF CallTypes
  <1>2. Alone'
    BY <1>1 DEF Alone, OnlyForgets
  <1>3. ASSUME NEW d \in Call, d # c
        PROVE  InTurn(d)'
    <2>1. pc'[d] \in {"idle", "forget", "forget_downloads"}
      BY <1>1, <1>3 DEF OnlyForgets, Forgetting
    <2>2. pc'[d] = "forget_downloads" => forgot' # "no"
      BY <1>1, <1>3
    <2> QED
      BY <2>1, <2>2 DEF InTurn, Keeping, Setting
  <1> QED
    BY <1>2, <1>3 DEF CallsInTurn

\* What the record of a complete download rests on when one transfer is under way.
LEMMA KeptAlone ==
    ASSUME CallTypes, Kept, NEW c \in Call, OnlyForgets(c), fetched, ~abandoned,
           seeds = Nothing, ~download
    PROVE  pc[c] \in Keeping
  BY DEF CallTypes, Kept, OnlyForgets, Keeping, Forgetting

\* A seed, a download or a resume begins when nothing else is under way.
LEMMA BeginInOrder ==
    ASSUME Overlap = FALSE, TypesInv, OrderInv, NEW c \in Call,
           Seed(c) \/ ResumeSeed(c) \/ Download(c)
    PROVE  OrderInv'
  <1>1. /\ MayBegin(c, {"idle"})
        /\ forgot' = "no"
        /\ UNCHANGED <<records, past>>
    BY DEF Seed, ResumeSeed, Download, Wanted
  <1>2. \A d \in Call : pc[d] = "idle"
    BY <1>1 DEF MayBegin
  <1>3. PICK at \in {"seed_allow", "load", "remember"} : pc' = [pc EXCEPT ![c] = at]
    BY DEF Seed, ResumeSeed, Download, Goto
  <1>4. pc'[c] \in {"seed_allow", "load", "remember"}
    BY <1>3 DEF TypesInv, CallTypes
  <1>5. InTurn(c)'
    BY <1>4 DEF InTurn, Keeping, Setting
  <1>6. Alone' /\ CallsInTurn'
    BY <1>2, <1>3, <1>5, OnlyCall DEF OnlyForgets, TypesInv, PC
  <1>7. ForgottenAll'
    BY <1>1 DEF ForgottenAll
  <1>8. Kept'
    BY <1>1, <1>2 DEF OrderInv, Kept, records, past, Keeping
  <1> QED
    BY <1>6, <1>7, <1>8 DEF OrderInv

\* The steps in between. Each is the step of the only transfer under way.
LEMMA PipelineInOrder ==
    ASSUME TypesInv, OrderInv, UNCHANGED key, NEW c \in Call,
           \/ LoadAllowed(c) \/ RememberAllowed(c) \/ RememberDownload(c) \/ Register(c)
           \/ RememberKinds(c) \/ RememberSeed(c) \/ SaveProgress(c) \/ Cancel(c)
           \/ Complete(c) \/ MarkComplete(c) \/ Finished(c)
    PROVE  OrderInv'
  <1> DEFINE KeptHere == fetched /\ ~abandoned =>
                            seeds # Nothing \/ download \/ pc[c] \in Keeping
  <1> DEFINE ForgottenHere ==
                forgot # "no" =>
                    /\ ~fetched
                    /\ outlived = "no" =>
                          /\ seeds = Nothing
                          /\ forgot = "done" => ~download
                          /\ pc[c] \notin Recording
  <1> DEFINE Here == InTurn(c)' /\ ForgottenHere' /\ KeptHere'
  <1> USE DEF Goto, records, past, objects, forgotten
  <1>1. pc[c] \in Pipeline
    BY DEF LoadAllowed, RememberAllowed, RememberDownload, Register, RememberKinds, RememberSeed,
           SaveProgress, Cancel, Complete, MarkComplete, Finished, Pipeline, PC, Setting,
           Forgetting
  <1>2. OnlyForgets(c)
    BY <1>1, PipelineAlone DEF TypesInv, OrderInv
  <1>3. InTurn(c) /\ ForgottenHere
    BY DEF OrderInv, CallsInTurn, ForgottenAll
  <1>4. KeptHere
    BY <1>2, KeptAlone DEF TypesInv, OrderInv
  <1>5. PICK at \in PC : pc' = [pc EXCEPT ![c] = at]
    BY DEF LoadAllowed, RememberAllowed, RememberDownload, Register, RememberKinds, RememberSeed,
           SaveProgress, Cancel, Complete, MarkComplete, Finished, PC, TypesInv, CallTypes
  <1> HIDE DEF Goto
  <1>6. pc'[c] = at /\ UNCHANGED forgot
    BY <1>5 DEF LoadAllowed, RememberAllowed, RememberDownload, Register, RememberKinds,
                RememberSeed, SaveProgress, Cancel, Complete, MarkComplete, Finished, TypesInv,
                CallTypes
  <1>7. Here
    <2> USE <1>1, <1>3, <1>4, <1>5, <1>6
        DEF InTurn, Keeping, Recording, Setting, TypesInv, CallTypes, Goto, Encrypted
    <2>1. CASE LoadAllowed(c)
      BY <2>1 DEF LoadAllowed
    <2>2. CASE RememberAllowed(c)
      <3>1. CASE pc[c] = "seed_allow"
        BY <2>2, <3>1 DEF RememberAllowed
      <3>2. CASE pc[c] = "download_allow"
        BY <2>2, <3>2 DEF RememberAllowed
      <3> QED
        BY <2>2, <3>1, <3>2 DEF RememberAllowed
    <2>3. CASE RememberDownload(c)
      BY <2>3 DEF RememberDownload
    <2>4. CASE Register(c)
      <3>1. UNCHANGED <<seeds, access, download, fetched, abandoned, reseed, allowed, target,
                        forgot, outlived>>
        BY <2>4 DEF Register
      <3>2. CASE pc'[c] = "idle"
        BY <2>4, <3>1, <3>2 DEF Register
      <3>3. CASE pc[c] = "seed_list" /\ pc'[c] = "kinds"
        BY <3>1, <3>3
      <3>4. CASE pc[c] = "download_list" /\ pc'[c] = "running"
        BY <3>1, <3>4
      <3> QED
        BY <2>4, <3>2, <3>3, <3>4 DEF Register
    <2>5. CASE RememberKinds(c)
      BY <2>5 DEF RememberKinds
    <2>6. CASE RememberSeed(c)
      BY <2>6 DEF RememberSeed, Kind, Nothing
    <2>7. CASE SaveProgress(c)
      BY <2>7 DEF SaveProgress
    <2>8. CASE Cancel(c)
      BY <2>8 DEF Cancel
    <2>9. CASE Complete(c)
      BY <2>9 DEF Complete
    <2>10. CASE MarkComplete(c)
      BY <2>10 DEF MarkComplete
    <2>11. CASE Finished(c)
      <3>1. UNCHANGED <<seeds, access, download, fetched, abandoned, reseed, allowed, target,
                        forgot>>
        BY <2>11 DEF Finished
      <3>2. CASE at \in {"kinds", "keep_kinds"}
        BY <2>11, <3>1, <3>2 DEF Finished
      <3>3. CASE at = "idle" /\ ~reseed /\ ~Encrypted
        BY <2>11, <3>1, <3>3 DEF Finished
      <3> QED
        BY <2>11, <3>2, <3>3 DEF Finished
    <2> QED
      BY <2>1, <2>2, <2>3, <2>4, <2>5, <2>6, <2>7, <2>8, <2>9, <2>10, <2>11
  <1>8. Alone' /\ CallsInTurn'
    <2>1. \A d \in Call : pc[d] = "forget_downloads" => forgot # "no"
      BY DEF OrderInv, CallsInTurn, InTurn
    <2> QED
      BY <1>2, <1>5, <1>6, <1>7, <2>1, OnlyCall DEF TypesInv
  <1>9. ForgottenAll'
    <2>1. \A d \in Call : d # c => pc'[d] \notin Recording
      BY <1>2, <1>5 DEF OnlyForgets, Forgetting, Recording, TypesInv, CallTypes
    <2> QED
      BY <1>7, <2>1 DEF ForgottenAll
  <1>10. Kept'
    BY <1>7 DEF Kept
  <1> QED
    BY <1>8, <1>9, <1>10 DEF OrderInv

\* Beside set_allowed_peers there are at most the handle of a seed and calls that forget.
Beside(c) == \A d \in Call : d # c => pc[d] \in {"idle", "seeding"} \cup Forgetting

LEMMA SettingBeside ==
    ASSUME CallTypes, Alone, NEW c \in Call, pc[c] \in Setting
    PROVE  Beside(c)
  BY DEF CallTypes, Alone, Setting, Forgetting, Beside

\* A step of set_allowed_peers. A handle beside it is all that needs a look.
LEMMA SettingCall ==
    ASSUME CallTypes, Alone, CallsInTurn, NEW c \in Call, NEW at \in Setting \cup {"idle"},
           pc[c] \in Setting \cup {"idle"}, Beside(c), pc' = [pc EXCEPT ![c] = at],
           UNCHANGED forgot, InTurn(c)',
           \A d \in Call : d # c /\ pc[d] = "seeding" /\ forgot = "no" =>
              seeds' # Nothing /\ (at # "set_live" => allowed'[d] = access')
    PROVE  Alone' /\ CallsInTurn'
  <1>1. pc'[c] = at /\ \A d \in Call : d # c => pc'[d] = pc[d]
    BY DEF CallTypes
  <1>2. Alone'
    BY <1>1 DEF Alone, Beside, Setting, Forgetting
  <1>3. ASSUME NEW d \in Call, d # c
        PROVE  InTurn(d)'
    <2>1. pc'[d] \in {"idle", "seeding", "forget", "forget_downloads"}
      BY <1>1, <1>3 DEF Beside, Forgetting
    <2>2. (\A e \in Call : pc'[e] # "set_live") => at # "set_live"
      BY <1>1
    <2>3. pc'[d] = "forget_downloads" => forgot' # "no"
      BY <1>1, <1>3 DEF CallsInTurn, InTurn
    <2> QED
      BY <1>1, <1>3, <2>1, <2>2, <2>3 DEF InTurn, Keeping, Setting
  <1> QED
    BY <1>2, <1>3 DEF CallsInTurn

\* set_allowed_peers begins beside the handle it is called on.
LEMMA SetBegins ==
    ASSUME Overlap = FALSE, TypesInv, OrderInv, NEW c \in Call, NEW t \in Call,
           SetAllowedPeers(c, t)
    PROVE  OrderInv'
  <1> USE DEF TypesInv, CallTypes
  <1>1. /\ pc' = [pc EXCEPT ![c] = "set"] /\ pc[c] = "idle" /\ pc[t] = "seeding"
        /\ target' = [target EXCEPT ![c] = t]
        /\ UNCHANGED <<seeds, access, download, past, forgot, outlived>>
        /\ \A d \in Call : d # c => allowed'[d] = allowed[d]
    BY DEF SetAllowedPeers, MayBegin, Unused, Goto, records, forgotten
  <1>2. Beside(c)
    BY <1>1 DEF OrderInv, Alone, Setting, Forgetting, Beside, SetAllowedPeers, MayBegin,
                Transferring
  <1>3. InTurn(c)'
    BY <1>1 DEF InTurn, Keeping, Setting
  <1>4. \A d \in Call : pc[d] # "set_live"
    BY <1>1, <1>2 DEF Beside, Forgetting
  <1>5. ASSUME NEW d \in Call, d # c, pc[d] = "seeding", forgot = "no"
        PROVE  seeds' # Nothing /\ allowed'[d] = access'
    BY <1>1, <1>4, <1>5 DEF OrderInv, CallsInTurn, InTurn
  <1>6. Alone' /\ CallsInTurn'
    BY <1>1, <1>2, <1>3, <1>5, SettingCall DEF OrderInv, Setting
  <1>7. ForgottenAll' /\ Kept'
    BY <1>1 DEF OrderInv, ForgottenAll, Kept, past, Keeping, Recording
  <1> QED
    BY <1>6, <1>7 DEF OrderInv

\* ... and saves the list before the object enforces it.
LEMMA SetInOrder ==
    ASSUME TypesInv, OrderInv, NEW c \in Call, SetSaved(c) \/ SetLive(c)
    PROVE  OrderInv'
  <1> USE DEF TypesInv, CallTypes
  <1>1. Beside(c) /\ InTurn(c)
    BY SettingBeside DEF OrderInv, CallsInTurn, Setting, SetSaved, SetLive
  <1>2. UNCHANGED <<seeds, download, past, forgot, outlived, target>>
    BY DEF SetSaved, SetLive, records, objects, forgotten
  <1>3. CASE SetSaved(c)
    <2>1. /\ pc[c] = "set" /\ pc' = [pc EXCEPT ![c] = "set_live"]
          /\ access' = allowed[c] /\ UNCHANGED allowed
      BY <1>3 DEF SetSaved, Goto, objects
    <2>2. InTurn(c)'
      BY <1>1, <1>2, <2>1 DEF InTurn, Keeping, Setting
    <2>3. \A d \in Call : d # c /\ pc[d] = "seeding" /\ forgot = "no" => seeds' # Nothing
      BY <1>2 DEF OrderInv, CallsInTurn, InTurn
    <2>4. Alone' /\ CallsInTurn'
      BY <1>1, <1>2, <2>1, <2>2, <2>3, SettingCall DEF OrderInv, Setting
    <2>5. ForgottenAll' /\ Kept'
      BY <1>2, <2>1 DEF OrderInv, ForgottenAll, Kept, past, Keeping, Recording
    <2> QED
      BY <2>4, <2>5 DEF OrderInv
  <1>4. CASE SetLive(c)
    <2>1. /\ pc[c] = "set_live" /\ pc' = [pc EXCEPT ![c] = "idle"]
          /\ allowed' = [allowed EXCEPT ![target[c]] = allowed[c]] /\ UNCHANGED access
      BY <1>4 DEF SetLive, Goto, records
    <2>2. /\ pc[target[c]] = "seeding" /\ target[c] \in Call
          /\ forgot = "no" => allowed[c] = access
      BY <1>1, <2>1 DEF InTurn, Setting
    <2>3. InTurn(c)'
      BY <2>1 DEF InTurn, Keeping, Setting
    <2>4. ASSUME NEW d \in Call, d # c, pc[d] = "seeding", forgot = "no"
          PROVE  seeds' # Nothing /\ allowed'[d] = access'
      <3>1. d = target[c]
        BY <1>1, <2>1, <2>2, <2>4 DEF OrderInv, Alone, Setting, Forgetting
      <3> QED
        BY <1>2, <2>1, <2>2, <2>4, <3>1 DEF OrderInv, CallsInTurn, InTurn
    <2>5. Alone' /\ CallsInTurn'
      BY <1>1, <1>2, <2>1, <2>3, <2>4, SettingCall DEF OrderInv, Setting
    <2>6. ForgottenAll' /\ Kept'
      BY <1>2, <2>1 DEF OrderInv, ForgottenAll, Kept, past, Keeping, Recording
    <2> QED
      BY <2>5, <2>6 DEF OrderInv
  <1> QED
    BY <1>3, <1>4

\* forget and remove begin at any time.
LEMMA ForgetBegins ==
    ASSUME TypesInv, OrderInv, UNCHANGED key, NEW c \in Call, Forget(c) \/ RemoveShare(c)
    PROVE  OrderInv'
  <1> USE DEF TypesInv, CallTypes
  <1>1. /\ pc[c] = "idle" /\ pc'[c] = "forget"
        /\ \A d \in Call : d # c => pc'[d] = pc[d]
        /\ UNCHANGED <<seeds, access, download, fetched, abandoned, reseed, allowed, target,
                       forgot, outlived>>
    BY DEF Forget, RemoveShare, Unused, Goto, records, past, objects, forgotten
  <1>2. Alone'
    BY <1>1 DEF OrderInv, Alone, Forgetting
  <1>3. ASSUME NEW d \in Call
        PROVE  InTurn(d)'
    <2>1. CASE d = c
      BY <1>1, <2>1 DEF InTurn, Keeping, Setting
    <2>2. CASE d # c
      <3>1. InTurn(d) /\ pc'[d] = pc[d]
        BY <1>1, <2>2 DEF OrderInv, CallsInTurn
      <3>2. (\A e \in Call : pc'[e] # "set_live") => \A e \in Call : pc[e] # "set_live"
        BY <1>1
      <3>3. pc[target[d]] = "seeding" => pc'[target'[d]] = "seeding"
        BY <1>1
      <3> QED
        BY <1>1, <3>1, <3>2, <3>3 DEF InTurn, Encrypted
    <2> QED
      BY <2>1, <2>2
  <1>4. ForgottenAll'
    BY <1>1 DEF OrderInv, ForgottenAll, Recording
  <1>5. Kept'
    BY <1>1 DEF OrderInv, Kept, Keeping
  <1> QED
    BY <1>2, <1>3, <1>4, <1>5 DEF OrderInv, CallsInTurn

\* A step of forget or remove: what the calls beside it rely on ends here, but for the
\* handle that set_allowed_peers borrows.
LEMMA ForgetCall ==
    ASSUME TypesInv, OrderInv, NEW c \in Call, pc[c] \in Forgetting,
           NEW at \in {"idle", "forget_downloads"}, pc' = [pc EXCEPT ![c] = at],
           UNCHANGED target, forgot' # "no", ~fetched'
    PROVE  Alone' /\ CallsInTurn'
  <1> USE DEF TypesInv, CallTypes
  <1>1. pc'[c] = at /\ \A d \in Call : d # c => pc'[d] = pc[d]
    OBVIOUS
  <1>2. Alone'
    BY <1>1 DEF OrderInv, Alone, Forgetting
  <1>3. ASSUME NEW d \in Call, pc'[d] \in Setting
        PROVE  pc'[target'[d]] = "seeding"
    <2>1. d # c /\ pc[d] \in Setting
      BY <1>1, <1>3 DEF Setting
    <2>2. pc[target[d]] = "seeding" /\ target[d] \in Call
      BY <2>1 DEF OrderInv, CallsInTurn, InTurn
    <2> QED
      BY <1>1, <2>2 DEF Forgetting
  <1> QED
    BY <1>2, <1>3 DEF CallsInTurn, InTurn

LEMMA ForgetInOrder ==
    ASSUME TypesInv, OrderInv, NEW c \in Call, ForgetSeed(c) \/ ForgetDownloads(c)
    PROVE  OrderInv'
  <1> USE DEF TypesInv, CallTypes
  <1>1. CASE ForgetSeed(c)
    <2>1. /\ pc[c] = "forget" /\ pc' = [pc EXCEPT ![c] = "forget_downloads"]
          /\ seeds' = Nothing /\ forgot' = "begun" /\ fetched' = FALSE
          /\ outlived' = IF \E d \in Call : pc[d] \in Recording THEN "recording" ELSE "no"
          /\ UNCHANGED target
      BY <1>1 DEF ForgetSeed, Goto, objects
    <2>2. Alone' /\ CallsInTurn'
      BY <2>1, ForgetCall DEF Forgetting
    <2>3. ForgottenAll'
      <3>1. outlived' = "no" => \A d \in Call : pc'[d] \notin Recording
        BY <2>1 DEF Recording
      <3> QED
        BY <2>1, <3>1 DEF ForgottenAll
    <2>4. Kept'
      BY <2>1 DEF Kept
    <2> QED
      BY <2>2, <2>3, <2>4 DEF OrderInv
  <1>2. CASE ForgetDownloads(c)
    <2>1. /\ pc[c] = "forget_downloads" /\ pc' = [pc EXCEPT ![c] = "idle"]
          /\ download' = FALSE /\ forgot' = "done"
          /\ UNCHANGED <<seeds, fetched, target, outlived>>
      BY <1>2 DEF ForgetDownloads, Goto, past, objects
    <2>2. forgot # "no" /\ ~fetched
      BY <2>1 DEF OrderInv, CallsInTurn, InTurn, ForgottenAll
    <2>3. Alone' /\ CallsInTurn'
      BY <2>1, <2>2, ForgetCall DEF Forgetting
    <2>4. ForgottenAll'
      BY <2>1, <2>2 DEF OrderInv, ForgottenAll, Recording
    <2>5. Kept'
      BY <2>1, <2>2 DEF Kept
    <2> QED
      BY <2>3, <2>4, <2>5 DEF OrderInv
  <1> QED
    BY <1>1, <1>2

\* A call that ends with an error, or a handle that is dropped.
LEMMA DropInOrder ==
    ASSUME TypesInv, OrderInv, UNCHANGED key, NEW c \in Call, Drop(c)
    PROVE  OrderInv'
  <1> USE DEF TypesInv, CallTypes
  <1>1. /\ pc[c] # "set_live" /\ pc' = [pc EXCEPT ![c] = "idle"]
        /\ \A d \in Call : pc[d] \in {"set", "set_live"} => target[d] # c
        /\ abandoned' = (abandoned \/ Loses(c))
        /\ UNCHANGED <<seeds, access, download, fetched, reseed, allowed, target, forgot,
                       outlived>>
    BY DEF Drop, Goto, records, objects, forgotten
  <1>2. pc'[c] = "idle" /\ \A d \in Call : d # c => pc'[d] = pc[d]
    BY <1>1
  <1>3. Alone'
    BY <1>2 DEF OrderInv, Alone
  <1>4. ASSUME NEW d \in Call
        PROVE  InTurn(d)'
    <2>1. CASE d = c
      BY <1>2, <2>1 DEF InTurn, Keeping, Setting
    <2>2. CASE d # c
      <3>1. InTurn(d) /\ pc'[d] = pc[d]
        BY <1>2, <2>2 DEF OrderInv, CallsInTurn
      <3>2. (\A e \in Call : pc'[e] # "set_live") => \A e \in Call : pc[e] # "set_live"
        BY <1>1, <1>2
      <3>3. pc[d] \in Setting => pc'[target'[d]] = pc[target[d]]
        BY <1>1, <1>2 DEF Setting
      <3> QED
        BY <1>1, <3>1, <3>2, <3>3 DEF InTurn, Encrypted
    <2> QED
      BY <2>1, <2>2
  <1>5. Kept'
    BY <1>1, <1>2 DEF OrderInv, Kept, Loses, Keeping
  <1>6. ForgottenAll'
    BY <1>1, <1>2 DEF OrderInv, ForgottenAll, Recording
  <1> QED
    BY <1>3, <1>4, <1>5, <1>6 DEF OrderInv, CallsInTurn

\* The process stops or starts: no call is under way then.
LEMMA ProcessInOrder ==
    ASSUME TypesInv, OrderInv, CallsWhenUp, Start \/ Crash
    PROVE  OrderInv'
  <1> USE DEF TypesInv, CallTypes
  <1>1. \A c \in Call : pc'[c] = "idle"
    <2>1. CASE Start
      BY <2>1 DEF Start, DirStep, Mark, Bind, Open, CallsWhenUp
    <2>2. CASE Crash
      BY <2>2 DEF Crash
    <2> QED
      BY <2>1, <2>2
  <1>2. UNCHANGED <<seeds, download, fetched, forgot, outlived>>
    BY DEF Start, Crash, records, past, forgotten
  <1>3. Alone' /\ CallsInTurn'
    BY <1>1 DEF Alone, CallsInTurn, InTurn, Keeping, Setting
  <1>4. ForgottenAll'
    BY <1>1, <1>2 DEF OrderInv, ForgottenAll, Recording
  <1>5. Kept'
    <2>1. CASE Start
      <3>1. \A c \in Call : pc[c] = "idle"
        BY <1>1, <2>1 DEF Start
      <3> QED
        BY <1>2, <2>1, <3>1 DEF Start, past, OrderInv, Kept, Keeping
    <2>2. CASE Crash
      <3>1. SUFFICES ASSUME fetched, ~abandoned', seeds = Nothing, ~download
                     PROVE  FALSE
        BY <1>2 DEF Kept
      <3>2. ~abandoned /\ \A c \in Call : ~Loses(c)
        BY <2>2, <3>1 DEF Crash
      <3>3. \A c \in Call : pc[c] \notin Keeping
        BY <3>1, <3>2 DEF Loses, Keeping
      <3> QED
        BY <3>1, <3>2, <3>3 DEF OrderInv, Kept
    <2> QED
      BY <2>1, <2>2
  <1> QED
    BY <1>3, <1>4, <1>5 DEF OrderInv

LEMMA OrderNext ==
    ASSUME Overlap = FALSE, TypesInv, DirInv, OrderInv, [SavedNext]_vars
    PROVE  OrderInv'
  <1>1. CASE UNCHANGED vars
    BY <1>1
    DEF vars, dirVars, records, past, objects, forgotten, OrderInv, Alone, CallsInTurn, InTurn,
        ForgottenAll, Kept, Encrypted
  <1>2. ASSUME NEW c \in Call, CallStep(c), UNCHANGED dirVars
        PROVE  OrderInv'
    <2>1. UNCHANGED key
      BY <1>2 DEF dirVars
    <2> QED
      BY <1>2, <2>1, BeginInOrder, PipelineInOrder, SetInOrder, ForgetBegins, ForgetInOrder,
         DropInOrder
      DEF CallStep
  <1>3. ASSUME NEW c \in Call, NEW t \in Call, SetAllowedPeers(c, t)
        PROVE  OrderInv'
    BY <1>3, SetBegins
  <1>4. CASE Start \/ Crash
    BY <1>4, ProcessInOrder DEF DirInv
  <1> QED
    BY <1>1, <1>2, <1>3, <1>4 DEF SavedNext

\* With one transfer of the share at a time, its records and its object agree at each
\* step of its calls (client.rs: seed_with, download_with, resume, set_allowed_peers),
\* and what forget or remove takes away at any of these steps stays away but for the
\* transfers that `outlived` names.
THEOREM OrderInvariant ==
    ASSUME Overlap = FALSE
    PROVE  SavedSpec => []OrderInv
  BY OrderInit, OrderNext, CallInvariant, DirInvariant, PTL DEF SavedSpec

LEMMA InOrder ==
    ASSUME OrderInv
    PROVE  TransfersAreSaved /\ ForgottenStaysForgotten /\ AllowlistIsSaved /\ FetchedIsFindable
  <1>1. TransfersAreSaved
    BY DEF OrderInv, CallsInTurn, InTurn, TransfersAreSaved
  <1>2. ForgottenStaysForgotten
    BY DEF OrderInv, ForgottenAll, ForgottenStaysForgotten, Offered
  <1>3. AllowlistIsSaved
    <2>1. SUFFICES ASSUME Quiet, outlived = "no", NEW c \in Call, pc[c] = "seeding",
                          seeds # Nothing
                   PROVE  allowed[c] = access
      BY DEF AllowlistIsSaved
    <2>2. forgot = "no"
      BY <2>1 DEF OrderInv, ForgottenAll
    <2>3. \A d \in Call : pc[d] # "set_live"
      BY <2>1 DEF Quiet, Transferring
    <2> QED
      BY <2>1, <2>2, <2>3 DEF OrderInv, CallsInTurn, InTurn
  <1>4. FetchedIsFindable
    BY DEF OrderInv, Kept, Keeping, FetchedIsFindable, Quiet, Transferring, Offered
  <1> QED
    BY <1>1, <1>2, <1>3, <1>4

\* Whatever a client shares or downloads, and has not forgotten, is in its data dir
\* once the call that began it has returned (client.rs:625).
THEOREM SavedTransfersAreSaved ==
    ASSUME Overlap = FALSE
    PROVE  SavedSpec => []TransfersAreSaved
  BY OrderInvariant, InOrder, PTL

\* What forget or remove took away, in two transactions and at any step of a transfer,
\* is not offered again (client.rs:716) by a record or a handle that outlived it, nor by
\* a download that ran then, unless that one is awaited to its end.
THEOREM SavedForgottenStaysForgotten ==
    ASSUME Overlap = FALSE
    PROVE  SavedSpec => []ForgottenStaysForgotten
  BY OrderInvariant, InOrder, PTL

\* The list a handle enforces is the list that resume brings back (client.rs:795),
\* through set_allowed_peers, errors and restarts, unless a download outlived its
\* forgetting.
THEOREM SavedAllowlistIsSaved ==
    ASSUME Overlap = FALSE
    PROVE  SavedSpec => []AllowlistIsSaved
  BY OrderInvariant, InOrder, PTL

\* A finished download "only exists inside the store" (client.rs:890) and stays
\* findable, unless the process stopped between mark_complete and remember_seed.
THEOREM SavedFetchedIsFindable ==
    ASSUME Overlap = FALSE
    PROVE  SavedSpec => []FetchedIsFindable
  BY OrderInvariant, InOrder, PTL
=============================================================================
