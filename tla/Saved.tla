------------------------------- MODULE Saved --------------------------------
(***************************************************************************)
(* What a client keeps about one share in its data dir, and the calls that *)
(* change it: seed, download, resume, set_allowed_peers, forget and remove *)
(* (client.rs), the records of store.rs, the registry (registration.rs)    *)
(* and the saves of a download (download.rs).                              *)
(*                                                                         *)
(* Each write to the store is a transaction of its own; a call makes       *)
(* several, and the process may crash between any two. A slot of Call      *)
(* stands for one API call and, when it succeeds, for the handle it        *)
(* returns, with the LocalShare the handle owns.                           *)
(***************************************************************************)
EXTENDS DataDir

CONSTANTS
    Call,       \* API calls and handles that may exist at once
    List,       \* allowlists, Anyone (no list) among them
    Anyone,
    Overlap     \* whether a transfer of the share, or set_allowed_peers, may begin
                \* while another call about it is not finished or a transfer goes on

ASSUME SavedAssumption ==
    /\ Anyone \in List
    /\ Overlap \in BOOLEAN

VARIABLES
    \* on disk
    seeds,     \* SEEDS: how its files are kept, or Nothing
    kinds,     \* KINDS: the same as recorded there, or Nothing
    access,    \* ACCESS: the saved allowlist
    download,  \* DOWNLOADS: whether the download is recorded
    progress,  \* PROGRESS: whether its outboards are saved
    \* in memory
    reseed,    \* the client's setting: downloads are served from their start
    registry,  \* the call whose LocalShare is listed, or Nothing
    pc,        \* how far each call is
    allowed,   \* LocalShare.allowed of each call (or its argument)
    kind,      \* how the files of its LocalShare are kept
    target,    \* the handle set_allowed_peers is called on
    \* history
    fetched,   \* a download was completed that is recorded as a seed in the end
               \* (served or kept in the store), and the share not forgotten since
               \* it began,
    abandoned, \* and it was dropped before that
    forgot,    \* whether forgetting has begun or is done, since a transfer began last
    outlived   \* which transfer outlived it: one that was about to record itself, or
               \* one that was recorded, went on, and has been awaited since

records == <<seeds, kinds, access, download, progress>>
objects == <<reseed, allowed, kind, target>>
past == <<fetched, abandoned>>
forgotten == <<forgot, outlived>>
vars == <<dirVars, sealers, records, past, registry, pc, objects, forgotten>>

Nothing == "nothing"

\* Files served where they are, or encrypted copies in the store.
Kind == {"in_place", "copy"}
Encrypted == key # NoKey
SeedKind == IF Encrypted THEN Kind ELSE {"in_place"}
DownloadKind == IF Encrypted THEN "copy" ELSE "in_place"

PC == {"idle", "seed_allow", "load", "remember", "download_allow", "seed_list",
       "download_list", "kinds", "seeds", "keep_kinds", "keep_seeds", "running", "mark",
       "finished", "seeding", "set", "set_live", "forget", "forget_downloads"}
Transferring == {"seeding", "running"}

\* Before or at a transaction that writes the share into SEEDS or DOWNLOADS.
Recording == {"seed_allow", "seed_list", "load", "remember",
              "kinds", "seeds", "keep_kinds", "keep_seeds"}

SavedInit ==
    /\ seeds = Nothing /\ kinds = Nothing /\ access = Anyone
    /\ DirInit
    /\ download = FALSE /\ progress = FALSE
    /\ fetched = FALSE /\ abandoned = FALSE
    /\ reseed \in BOOLEAN
    /\ registry = Nothing
    /\ pc = [c \in Call |-> "idle"]
    /\ allowed = [c \in Call |-> Anyone]
    /\ kind = [c \in Call |-> "in_place"]
    /\ target = [c \in Call |-> c]
    /\ forgot = "no" /\ outlived = "no"

Goto(c, at) == pc' = [pc EXCEPT ![c] = at]

\* (mutant: a dropped Registration that stays listed)
UnregisterNever(c) == registry' = registry

\* A Registration is dropped with its owner: unlisted if it is still ours.
Unregister(c) == registry' = IF registry = c THEN Nothing ELSE registry

Unused(c) == boot = "up" /\ pc[c] = "idle"

\* Whether c may begin while the others are where they are.
MayBegin(c, others) ==
    /\ Unused(c)
    /\ Overlap \/ \A d \in Call : pc[d] \in others

\* The share is wanted again.
Wanted == forgot' = "no" /\ outlived' = "no"

-----------------------------------------------------------------------------
(* Calls begin.                                                            *)

\* seed_with and seed_reader: the content is hashed or copied, then
\* finish_seed sets the allowlist of the new object.
Seed(c) ==
    /\ MayBegin(c, {"idle"})
    /\ \E l \in List : allowed' = [allowed EXCEPT ![c] = l]
    /\ \E k \in SeedKind : kind' = [kind EXCEPT ![c] = k]
    /\ Wanted
    /\ Goto(c, "seed_allow")
    /\ UNCHANGED <<records, past, registry, reseed, target>>

\* resume of a seed: load_seed reads SEEDS and KINDS (older records have no
\* KINDS: the files are looked at) ...
ResumeSeed(c) ==
    /\ MayBegin(c, {"idle"})
    /\ seeds # Nothing
    /\ kind' = [kind EXCEPT ![c] = IF kinds = Nothing THEN seeds ELSE kinds]
    /\ Wanted
    /\ Goto(c, "load")
    /\ UNCHANGED <<records, past, registry, reseed, allowed, target>>

\* ... checks the files, and takes the allowlist from ACCESS.
LoadAllowed(c) ==
    /\ pc[c] = "load"
    /\ allowed' = [allowed EXCEPT ![c] = access]
    /\ Goto(c, "seed_list")
    /\ UNCHANGED <<records, past, registry, reseed, kind, target, forgotten>>

\* download_with, and resume of a download with the saved allowlist.
Download(c) ==
    /\ MayBegin(c, {"idle"})
    /\ \E l \in List \cup (IF download THEN {access} ELSE {}) :
          allowed' = [allowed EXCEPT ![c] = l]
    /\ kind' = [kind EXCEPT ![c] = DownloadKind]
    /\ Wanted
    /\ Goto(c, "remember")
    /\ UNCHANGED <<records, past, registry, reseed, target>>

\* set_allowed_peers(l) on the handle t.
SetAllowedPeers(c, t) ==
    /\ MayBegin(c, {"idle"} \cup Transferring)
    /\ pc[t] = "seeding"
    /\ \E l \in List : allowed' = [allowed EXCEPT ![c] = l]
    /\ target' = [target EXCEPT ![c] = t]
    /\ Goto(c, "set")
    /\ UNCHANGED <<records, past, registry, reseed, kind, forgotten>>

\* forget "doesn't ... stop a running transfer" (client.rs:717), and waits for none:
\* it may come at any step of one, and so may remove.
Forget(c) ==
    /\ Unused(c)
    /\ Goto(c, "forget")
    /\ UNCHANGED <<records, past, registry, objects, forgotten>>

\* remove first takes whatever is listed off the registry. (The data files it
\* deletes in the end are not modelled here.)
RemoveShare(c) ==
    /\ Unused(c)
    /\ registry' = Nothing
    /\ Goto(c, "forget")
    /\ UNCHANGED <<records, past, objects, forgotten>>

-----------------------------------------------------------------------------
(* Their transactions and other steps.                                     *)

\* (mutant: no list, nothing to write)
RememberSomeAllowed(c) ==
    /\ \/ pc[c] = "seed_allow" /\ Goto(c, "seed_list")
       \/ pc[c] = "download_allow" /\ Goto(c, "download_list")
    /\ access' = IF allowed[c] = Anyone THEN access ELSE allowed[c]
    /\ UNCHANGED <<seeds, kinds, download, progress, past, registry, objects, forgotten>>

\* remember_allowed of a new seed or download, before it is listed.
RememberAllowed(c) ==
    /\ \/ pc[c] = "seed_allow" /\ Goto(c, "seed_list")
       \/ pc[c] = "download_allow" /\ Goto(c, "download_list")
    /\ access' = allowed[c]
    /\ UNCHANGED <<seeds, kinds, download, progress, past, registry, objects, forgotten>>

RememberDownload(c) ==
    /\ pc[c] = "remember"
    /\ download' = TRUE
    /\ Goto(c, "download_allow")
    /\ UNCHANGED <<seeds, kinds, access, progress, past, registry, objects, forgotten>>

\* Registration::new: AlreadySharing if an object of the id is listed. A
\* download without reseeding is not listed at all.
Register(c) ==
    /\ pc[c] \in {"seed_list", "download_list"}
    /\ LET listed == pc[c] = "seed_list" \/ reseed
           started == IF pc[c] = "seed_list" THEN "kinds" ELSE "running"
       IN  IF listed /\ registry # Nothing
           THEN Goto(c, "idle") /\ UNCHANGED registry
           ELSE /\ Goto(c, started)
                /\ registry' = IF listed THEN c ELSE registry
    /\ UNCHANGED <<records, past, objects, forgotten>>

\* remember_seed: KINDS, then SEEDS; then the handle is returned. A finished
\* download that is not served is only recorded.
RememberKinds(c) ==
    /\ \/ pc[c] = "kinds" /\ Goto(c, "seeds")
       \/ pc[c] = "keep_kinds" /\ Goto(c, "keep_seeds")
    /\ kinds' = kind[c]
    /\ UNCHANGED <<seeds, access, download, progress, past, registry, objects, forgotten>>

\* (mutant: KINDS is written and SEEDS is not)
RememberKindsOnly(c) ==
    /\ \/ pc[c] = "seeds" /\ Goto(c, "seeding")
       \/ pc[c] = "keep_seeds" /\ Goto(c, "idle")
    /\ UNCHANGED <<records, past, registry, objects, forgotten>>

RememberSeed(c) ==
    /\ \/ pc[c] = "seeds" /\ Goto(c, "seeding")
       \/ pc[c] = "keep_seeds" /\ Goto(c, "idle")
    /\ seeds' = kind[c]
    /\ UNCHANGED <<kinds, access, download, progress, past, registry, objects, forgotten>>

\* save_tick of a running download.
SaveProgress(c) ==
    /\ pc[c] = "running"
    /\ progress' = TRUE
    /\ UNCHANGED <<seeds, kinds, access, download, past, registry, pc, objects, forgotten>>

\* The download is cancelled, or its handle dropped while it runs.
Cancel(c) ==
    /\ pc[c] = "running"
    /\ progress' = TRUE
    /\ Unregister(c)
    /\ Goto(c, "idle")
    /\ UNCHANGED <<seeds, kinds, access, download, past, objects, forgotten>>

\* Every piece is here and verified: a last save_progress, then mark_complete.
Complete(c) ==
    /\ pc[c] = "running"
    /\ fetched' = (forgot = "no" /\ (reseed \/ Encrypted \/ seeds # Nothing))
    /\ abandoned' = FALSE
    /\ progress' = TRUE
    /\ Goto(c, "mark")
    /\ UNCHANGED <<seeds, kinds, access, download, registry, objects, forgotten>>

MarkComplete(c) ==
    /\ pc[c] = "mark"
    /\ download' = FALSE /\ progress' = FALSE
    /\ Goto(c, "finished")
    /\ UNCHANGED <<seeds, kinds, access, past, registry, objects, forgotten>>

\* The caller awaits DownloadHandle::finished.
Finished(c) ==
    /\ pc[c] = "finished"
    /\ Goto(c, IF reseed THEN "kinds" ELSE IF Encrypted THEN "keep_kinds" ELSE "idle")
    /\ outlived' = IF forgot = "no" \/ outlived # "no" \/ ~(reseed \/ Encrypted) THEN outlived
                   ELSE IF forgot = "done" THEN "awaited" ELSE "recording"
    /\ UNCHANGED <<records, past, registry, objects, forgot>>

\* remember_allowed of set_allowed_peers, then LocalShare::set_allowed.
SetSaved(c) ==
    /\ pc[c] = "set"
    /\ access' = allowed[c]
    /\ Goto(c, "set_live")
    /\ UNCHANGED <<seeds, kinds, download, progress, past, registry, objects, forgotten>>

SetLive(c) ==
    /\ pc[c] = "set_live"
    /\ allowed' = [allowed EXCEPT ![target[c]] = allowed[c]]
    /\ Goto(c, "idle")
    /\ UNCHANGED <<records, past, registry, reseed, kind, target, forgotten>>

\* Store::forget, for forget and remove: one transaction over three tables,
\* then one for every record found in DOWNLOADS.
ForgetSeed(c) ==
    /\ pc[c] = "forget"
    /\ Goto(c, "forget_downloads")
    /\ seeds' = Nothing /\ kinds' = Nothing /\ access' = Anyone
    /\ forgot' = "begun"
    /\ outlived' = IF \E d \in Call : pc[d] \in Recording THEN "recording" ELSE "no"
    /\ fetched' = FALSE /\ abandoned' = FALSE
    /\ UNCHANGED <<download, progress, registry, objects>>

\* (mutant: the downloads' records are overlooked)
ForgetProgressOnly(c) ==
    /\ pc[c] = "forget_downloads"
    /\ progress' = (progress /\ ~download)
    /\ forgot' = "done"
    /\ Goto(c, "idle")
    /\ UNCHANGED <<seeds, kinds, access, download, past, registry, objects, outlived>>

ForgetDownloads(c) ==
    /\ pc[c] = "forget_downloads"
    /\ download' = FALSE
    /\ progress' = (progress /\ ~download)
    /\ forgot' = "done"
    /\ Goto(c, "idle")
    /\ UNCHANGED <<seeds, kinds, access, past, registry, objects, outlived>>

\* Ending c here leaves a complete download without any record.
Loses(c) ==
    /\ fetched /\ seeds = Nothing /\ ~download
    /\ pc[c] \in {"finished", "kinds", "seeds", "keep_kinds", "keep_seeds"}

\* A call ends with an error, or a handle is dropped (also the handle of a
\* download that has ended and was never awaited); not while set_allowed_peers
\* borrows it.
Drop(c) ==
    /\ pc[c] \notin {"idle", "set_live"}
    /\ \A d \in Call : pc[d] \in {"set", "set_live"} => target[d] # c
    /\ Unregister(c)
    /\ Goto(c, "idle")
    /\ abandoned' = (abandoned \/ Loses(c))
    /\ UNCHANGED <<records, fetched, objects, forgotten>>

\* The process stops at any point.
Crash ==
    /\ boot # "down" /\ Boot("down")
    /\ registry' = Nothing
    /\ pc' = [c \in Call |-> "idle"]
    /\ abandoned' = (abandoned \/ \E c \in Call : Loses(c))
    /\ UNCHANGED <<format, fingerprint, nodeKeys, key, records, fetched, objects, forgotten>>

\* It starts again with what is on disk, and perhaps other settings.
Start ==
    /\ DirStep
    /\ reseed' \in IF boot = "down" THEN BOOLEAN ELSE {reseed}
    /\ UNCHANGED <<records, past, registry, pc, allowed, kind, target, forgotten>>

\* Every record that is written is sealed with the key of the process.
Seal ==
    sealers' = IF nodeKeys' = {} /\ records' = <<Nothing, Nothing, Anyone, FALSE, FALSE>> THEN {}
               ELSE IF <<records, nodeKeys>>' = <<records, nodeKeys>> THEN sealers
               ELSE sealers \cup {key}

CallStep(c) ==
    \/ Seed(c) \/ ResumeSeed(c) \/ LoadAllowed(c) \/ Download(c) \/ Forget(c)
    \/ RemoveShare(c) \/ RememberAllowed(c) \/ RememberDownload(c) \/ Register(c)
    \/ RememberKinds(c) \/ RememberSeed(c) \/ SaveProgress(c) \/ Cancel(c)
    \/ Complete(c) \/ MarkComplete(c) \/ Finished(c) \/ SetSaved(c) \/ SetLive(c)
    \/ ForgetSeed(c) \/ ForgetDownloads(c) \/ Drop(c)

SavedNext ==
    /\ \/ /\ \/ \E c \in Call : CallStep(c)
             \/ \E c, t \in Call : SetAllowedPeers(c, t)
          /\ UNCHANGED dirVars
       \/ Start
       \/ Crash
    /\ Seal

SavedSpec == SavedInit /\ [][SavedNext]_vars

-----------------------------------------------------------------------------
(* Properties.                                                             *)

SavedTypeOK ==
    /\ DirTypeOK
    /\ seeds \in Kind \cup {Nothing}
    /\ kinds \in Kind \cup {Nothing}
    /\ access \in List
    /\ {download, progress, fetched, abandoned, reseed} \subseteq BOOLEAN
    /\ forgot \in {"no", "begun", "done"}
    /\ outlived \in {"no", "recording", "awaited"}
    /\ registry \in Call \cup {Nothing}
    /\ pc \in [Call -> PC]
    /\ allowed \in [Call -> List]
    /\ kind \in [Call -> Kind]
    /\ target \in [Call -> Call]
    /\ registry # Nothing => pc[registry] # "idle"

\* No call is in the middle of its steps.
Quiet == \A c \in Call : pc[c] \in {"idle"} \cup Transferring

\* What Client::saved lists.
Offered == seeds # Nothing \/ download

\* A transfer that goes on and was not forgotten is on disk: after a crash at
\* any moment `saved` offers it (client.rs:625).
TransfersAreSaved ==
    Quiet /\ forgot = "no" =>
        \A c \in Call :
            /\ pc[c] = "seeding" => seeds # Nothing
            /\ pc[c] = "running" => download

\* "Remove a share from saved state, so it isn't offered by Client::saved again.
\* Doesn't ... stop a running transfer." (client.rs:716): once forget or remove has
\* returned, the share is not offered until a transfer of it begins. A call that was
\* still about to record its transfer is not held to it; a transfer that goes on is.
ForgottenIsNotOffered ==
    Quiet /\ forgot = "done" /\ outlived # "recording" => ~Offered

\* What the code keeps of that: a running download that was forgotten is not offered
\* either, whether it goes on, saves, completes, is cancelled or dropped or meets a
\* crash, unless it is awaited to its end (client.rs:873, 892).
ForgottenStaysForgotten ==
    Quiet /\ forgot = "done" /\ outlived = "no" => ~Offered

\* "Change who may download ... Saved with the share." (client.rs:795): the
\* allowlist saved for a seed is the one its handle enforces, so that resume
\* brings it back, unless the record outlived its forgetting (ForgetSeed removed
\* the list).
AllowlistIsSaved ==
    Quiet /\ outlived = "no" =>
        \A c \in Call : pc[c] = "seeding" /\ seeds # Nothing => allowed[c] = access

\* A download that is complete "only exists inside the store: keep it findable"
\* (client.rs:890): unless its handle is dropped, or the process stops, between
\* mark_complete and remember_seed, `saved` offers it until it is forgotten.
FetchedIsFindable == Quiet /\ fetched /\ ~abandoned => Offered

\* A saved seed loads with the kind of files it was saved with.
SavedSeedLoads == Quiet /\ seeds # Nothing => kinds \in {Nothing, seeds}
=============================================================================
