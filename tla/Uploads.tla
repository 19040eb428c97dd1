------------------------------- MODULE Uploads -------------------------------
(***************************************************************************)
(* Answering requests for a piece: serve_stream and serve_piece            *)
(* (handler.rs), the token bucket of limits.rs, and the note LocalShare    *)
(* makes when the file it serves in place has changed (local.rs).          *)
(*                                                                         *)
(* A request is looked up, waits in the FIFO queue of the semaphore for an *)
(* upload slot, is paced by the rate limiter while it holds the slot, has  *)
(* its piece read and proved by a blocking thread, gives the slot back and *)
(* writes its answer. It is aborted at any await when its connection ends; *)
(* the blocking thread then goes on for nothing.                           *)
(*                                                                         *)
(* Time is a number of ticks. What only waits for a processor takes none:  *)
(* a tick passes when every timer that is due has fired.                   *)
(***************************************************************************)
EXTENDS Integers, Sequences, FiniteSets

CONSTANTS
    Req,       \* streams that ask for a piece over the time modelled
    Peer,
    From,      \* the remote peer of each stream
    Slots,     \* max_concurrent_uploads
    SlotWait,  \* UPLOAD_SLOT_WAIT, in ticks
    PieceLen,  \* bytes of a piece, in a unit of choice
    Fill,      \* bytes the limiter grants in a tick
    Burst      \* and in a second: the most it saves up

ASSUME UploadsAssumption ==
    /\ IsFiniteSet(Req)
    /\ From \in [Req -> Peer]
    /\ {Slots, SlotWait, PieceLen, Fill, Burst} \subseteq Nat \ {0}

VARIABLES
    admitted,  \* the peers `lookup` finds the share for
    metered,   \* whether an upload limit is set
    pc,        \* where each request is
    answer,    \* the response it writes
    read,      \* what the blocking thread made of the piece
    queue,     \* requests waiting for a slot, in order
    free,      \* slots nobody holds
    tokens,    \* of the limiter
    pause,     \* ticks a paced request still sleeps
    age,       \* ticks since a waiting request was looked up
    excess,    \* history: bytes let through beyond the rate (see RateKept)
    file,      \* the bytes and modified time of the file on disk
    stamp,     \* its size and modified time when sharing started
    reports    \* SharedFileChanged events

limitVars == <<tokens, pause, excess>>
fileVars == <<file, stamp, reports>>
slotVars == <<queue, free>>
requestVars == <<pc, answer, read, age>>
vars == <<admitted, metered, requestVars, slotVars, limitVars, fileVars>>

PC == {"idle", "queued", "granted", "pause", "encode", "encoded", "write", "done"}
Answer == {"none", "NotFound", "DontHave", "Busy", "Piece"}

\* "restored": the bytes of old under a new modified time.
File == {"original", "changed", "restored"}
Genuine == {"original", "restored"}

\* The stamp is taken after the file was hashed: a change in between is in it.
UploadsInit ==
    /\ admitted = Peer
    /\ metered \in BOOLEAN
    /\ pc = [r \in Req |-> "idle"]
    /\ answer = [r \in Req |-> "none"]
    /\ read = [r \in Req |-> "none"]
    /\ queue = <<>>
    /\ free = Slots
    /\ tokens = Burst
    /\ pause = [r \in Req |-> 0]
    /\ age = [r \in Req |-> 0]
    /\ excess = 0
    /\ file \in {"original", "changed"}
    /\ stamp = file
    /\ reports = 0

Lesser(a, b) == IF a < b THEN a ELSE b
Greater(a, b) == IF a > b THEN a ELSE b

\* Requests that hold a slot.
Holding == {r \in Req : pc[r] \in {"granted", "pause", "encode", "encoded"}}

\* serve_stream writes the response.
Reply(p, r, a) ==
    /\ pc' = [p EXCEPT ![r] = "write"]
    /\ answer' = [answer EXCEPT ![r] = a]

-----------------------------------------------------------------------------
(* The outside: the registry and the allowlist change, the file changes.   *)

\* register, drop and remove of the share, set_allowed.
Admit ==
    /\ \E peers \in SUBSET Peer : peers # admitted /\ admitted' = peers
    /\ UNCHANGED <<metered, requestVars, slotVars, limitVars, fileVars>>

ChangeFile ==
    /\ \/ file = "original" /\ file' = "changed"
       \/ file = "changed" /\ file' = "restored"
    /\ UNCHANGED <<admitted, metered, requestVars, slotVars, limitVars, stamp, reports>>

-----------------------------------------------------------------------------
(* The way of one request.                                                 *)

\* The piece is unknown or not here; the share may be a download.
Refuse(r) ==
    /\ pc[r] = "idle"
    /\ Reply(pc, r, IF From[r] \in admitted THEN "DontHave" ELSE "NotFound")
    /\ UNCHANGED <<admitted, metered, read, age, slotVars, limitVars, fileVars>>

\* The share holds it: a slot at once if one is free and nobody waits, or the
\* end of the queue.
Enter(r) ==
    /\ pc[r] = "idle"
    /\ From[r] \in admitted
    /\ \/ /\ free > 0
          /\ pc' = [pc EXCEPT ![r] = "granted"]
          /\ free' = free - 1
          /\ UNCHANGED queue
       \/ /\ free = 0
          /\ pc' = [pc EXCEPT ![r] = "queued"]
          /\ queue' = Append(queue, r)
          /\ UNCHANGED free
    /\ UNCHANGED <<admitted, metered, answer, read, age, limitVars, fileVars>>

\* (mutant: the request at the head of the queue is not woken)
GiveBackQuietly(p) ==
    /\ free' = free + 1
    /\ pc' = p
    /\ UNCHANGED queue

\* A slot is given back: to the request that waits longest, if one does.
GiveBack(p) ==
    \/ /\ queue = <<>>
       /\ free' = free + 1
       /\ pc' = p
       /\ UNCHANGED queue
    \/ /\ queue # <<>>
       /\ pc' = [p EXCEPT ![Head(queue)] = "granted"]
       /\ queue' = Tail(queue)
       /\ UNCHANGED free

\* The place of r in the queue is closed up.
Without(r) ==
    LET i == CHOOSE i \in DOMAIN queue : queue[i] = r
    IN  SubSeq(queue, 1, i - 1) \o SubSeq(queue, i + 1, Len(queue))

\* UPLOAD_SLOT_WAIT is over.
TimeOut(r) ==
    /\ pc[r] = "queued"
    /\ age[r] >= SlotWait
    /\ queue' = Without(r)
    /\ Reply(pc, r, "Busy")
    /\ age' = [age EXCEPT ![r] = 0]
    /\ UNCHANGED <<admitted, metered, read, free, limitVars, fileVars>>

\* Ticks until a debt is paid.
Wait(t) == IF t >= 0 THEN 0 ELSE (Fill - 1 - t) \div Fill

\* (mutant: the debt is slept off with the lock of the bucket held)
AcquireLocked(r) ==
    /\ pc[r] = "granted"
    /\ metered
    /\ tokens' = tokens - PieceLen
    /\ \E q \in Req : /\ \A o \in Req : pause[q] >= pause[o]
                      /\ pause' = [pause EXCEPT ![r] = pause[q] + Wait(tokens')]
    /\ pc' = [pc EXCEPT ![r] = "pause"]
    /\ UNCHANGED <<admitted, metered, answer, read, age, excess, slotVars, fileVars>>

\* acquire takes the bytes, into debt if need be, and sleeps the debt off.
Acquire(r) ==
    /\ pc[r] = "granted"
    /\ metered
    /\ tokens' = tokens - PieceLen
    /\ pause' = [pause EXCEPT ![r] = Wait(tokens')]
    /\ pc' = [pc EXCEPT ![r] = "pause"]
    /\ UNCHANGED <<admitted, metered, answer, read, age, excess, slotVars, fileVars>>

\* (mutant: paced until nobody is in debt, not until the own debt is paid)
BeginWhenSolvent(r) ==
    /\ \/ pc[r] = "granted" /\ ~metered
       \/ pc[r] = "pause" /\ tokens >= 0
    /\ pc' = [pc EXCEPT ![r] = "encode"]
    /\ age' = [age EXCEPT ![r] = 0]
    /\ excess' = IF metered THEN excess + PieceLen ELSE 0
    /\ UNCHANGED <<admitted, metered, answer, read, tokens, pause, slotVars, fileVars>>

\* Through the limiter: the blocking thread starts. Without a limit this
\* follows the slot.
Begin(r) ==
    /\ \/ pc[r] = "granted" /\ ~metered
       \/ pc[r] = "pause" /\ pause[r] = 0
    /\ pc' = [pc EXCEPT ![r] = "encode"]
    /\ age' = [age EXCEPT ![r] = 0]
    /\ excess' = IF metered THEN excess + PieceLen ELSE 0
    /\ UNCHANGED <<admitted, metered, answer, read, tokens, pause, slotVars, fileVars>>

\* encode_piece: what is read is hashed against the outboard on the way.
Encode(r) ==
    /\ pc[r] = "encode"
    /\ pc' = [pc EXCEPT ![r] = "encoded"]
    /\ read' = [read EXCEPT ![r] = IF file \in Genuine THEN "proved" ELSE "failed"]
    /\ UNCHANGED <<admitted, metered, answer, age, slotVars, limitVars, fileVars>>

\* (mutant: nobody remembers that the change was reported)
NoteAgain == reports' = IF file # stamp THEN reports + 1 ELSE reports

\* note_serve_failure: once per file, when it is not the file it was.
Note == reports' = IF file # stamp /\ reports = 0 THEN 1 ELSE reports

\* The permit is dropped when serve_piece returns, before the response is
\* written.
Return(r) ==
    /\ pc[r] = "encoded"
    /\ \/ /\ read[r] = "proved"
          /\ answer' = [answer EXCEPT ![r] = "Piece"]
          /\ UNCHANGED reports
       \/ /\ read[r] = "failed"
          /\ answer' = [answer EXCEPT ![r] = "DontHave"]
          /\ Note
    /\ GiveBack([pc EXCEPT ![r] = "write"])
    /\ UNCHANGED <<admitted, metered, read, age, limitVars, file, stamp>>

\* The peer has read the response, or reset the stream.
Written(r) ==
    /\ pc[r] = "write"
    /\ pc' = [pc EXCEPT ![r] = "done"]
    /\ answer' = [answer EXCEPT ![r] = "none"]
    /\ read' = [read EXCEPT ![r] = "none"]
    /\ UNCHANGED <<admitted, metered, age, slotVars, limitVars, fileVars>>

\* (mutant: a request that leaves the queue gives a slot back)
AbortReleases(r) ==
    /\ pc[r] \in {"queued", "granted", "pause", "encode", "encoded"}
    /\ free' = free + 1
    /\ queue' = IF pc[r] = "queued" THEN Without(r) ELSE queue
    /\ pc' = [pc EXCEPT ![r] = "done"]
    /\ read' = [read EXCEPT ![r] = "none"]
    /\ age' = [age EXCEPT ![r] = 0]
    /\ pause' = [pause EXCEPT ![r] = 0]
    /\ UNCHANGED <<admitted, metered, answer, tokens, excess, fileVars>>

\* The connection ends: accept's JoinSet is dropped and with it every stream.
\* The debt of a paced request stays.
Abort(r) ==
    /\ pc[r] \in {"queued", "granted", "pause", "encode", "encoded"}
    /\ \/ /\ pc[r] = "queued"
          /\ queue' = Without(r)
          /\ pc' = [pc EXCEPT ![r] = "done"]
          /\ UNCHANGED free
       \/ /\ pc[r] # "queued"
          /\ GiveBack([pc EXCEPT ![r] = "done"])
    /\ read' = [read EXCEPT ![r] = "none"]
    /\ age' = [age EXCEPT ![r] = 0]
    /\ pause' = [pause EXCEPT ![r] = 0]
    /\ UNCHANGED <<admitted, metered, answer, tokens, excess, fileVars>>

-----------------------------------------------------------------------------
(* Time.                                                                   *)

Waiting == {r \in Req : pc[r] \in {"queued", "pause"}}

\* Timers that are due fire first.
NothingDue ==
    \A r \in Req :
        /\ pc[r] # "granted"
        /\ pc[r] = "queued" => age[r] < SlotWait
        /\ pc[r] = "pause" => pause[r] > 0

\* (mutant: what accrues is not capped)
TickUncapped ==
    /\ NothingDue
    /\ tokens' = tokens + Fill
    /\ excess' = Greater(excess - Fill, 0)
    /\ pause' = [r \in Req |-> Greater(pause[r] - 1, 0)]
    /\ age' = [r \in Req |-> IF r \in Waiting THEN age[r] + 1 ELSE age[r]]
    /\ UNCHANGED <<admitted, metered, pc, answer, read, slotVars, fileVars>>

\* The code adds what has accrued since the last call when it is called next;
\* as nothing is taken in between, adding it tick by tick is the same.
Tick ==
    /\ NothingDue
    /\ tokens' = Lesser(tokens + Fill, Burst)
    /\ excess' = Greater(excess - Fill, 0)
    /\ pause' = [r \in Req |-> Greater(pause[r] - 1, 0)]
    /\ age' = [r \in Req |-> IF r \in Waiting THEN age[r] + 1 ELSE age[r]]
    /\ UNCHANGED <<admitted, metered, pc, answer, read, slotVars, fileVars>>

Step(r) ==
    \/ Refuse(r) \/ Enter(r) \/ TimeOut(r) \/ Acquire(r) \/ Begin(r)
    \/ Encode(r) \/ Return(r) \/ Written(r) \/ Abort(r)

UploadsNext == Admit \/ ChangeFile \/ Tick \/ \E r \in Req : Step(r)

UploadsSpec == UploadsInit /\ [][UploadsNext]_vars

\* Timers fire, threads end, time passes. Nobody has to read an answer.
FairUploadsSpec ==
    /\ UploadsSpec
    /\ WF_vars(Tick)
    /\ \A r \in Req :
          WF_vars(TimeOut(r)) /\ WF_vars(Acquire(r)) /\ WF_vars(Begin(r))
          /\ WF_vars(Encode(r)) /\ WF_vars(Return(r))

-----------------------------------------------------------------------------
(* Properties.                                                             *)

UploadsTypeOK ==
    /\ admitted \subseteq Peer
    /\ metered \in BOOLEAN
    /\ pc \in [Req -> PC]
    /\ answer \in [Req -> Answer]
    /\ read \in [Req -> {"none", "proved", "failed"}]
    /\ queue \in Seq(Req)
    /\ free \in 0 .. Slots
    /\ tokens \in Int /\ tokens <= Burst
    /\ pause \in [Req -> Nat]
    /\ age \in [Req -> Nat]
    /\ excess \in Nat
    /\ file \in File
    /\ stamp \in File
    /\ reports \in {0, 1}

\* No slot is lost or given twice, whoever times out or goes away, and none is
\* free while a request waits: a peer is told Busy only when all are taken.
SlotsConserved ==
    /\ free + Cardinality(Holding) = Slots
    /\ queue # <<>> => free = 0
    /\ {queue[i] : i \in DOMAIN queue} = {r \in Req : pc[r] = "queued"}
    /\ \A i, j \in DOMAIN queue : queue[i] = queue[j] => i = j

\* The limiter "allows bursts of up to one second's worth, then paces callers
\* to `bytes_per_sec` on average" (limits.rs:5), also when callers run up a
\* debt together or leave it behind: in any stretch of time it lets through no
\* more than its rate and one burst, or one piece where a piece is larger.
\* `excess` is the largest such surplus over all stretches that end now.
RateKept == excess <= Greater(Burst, PieceLen) + Fill - 1

\* has, the registration and the allowlist are checked before the waits
\* (handler.rs:98). A piece is read at most one UPLOAD_SLOT_WAIT after them,
\* plus the time to pay for every piece the limiter was ever asked for.
StalenessBounded ==
    \A r \in Waiting :
        age[r] + pause[r] <= SlotWait + Wait(Burst - Cardinality(Req) * PieceLen)

\* Whoever is refused a piece because the file changed while it was shared,
\* and is still changed, finds the change reported, once (event.rs:54); also
\* when several threads fail together.
ChangeIsReported ==
    \A r \in Req :
        /\ pc[r] = "write" /\ read[r] = "failed"
        /\ file = "changed" /\ stamp = "original"
        => reports = 1

\* A request that waits for a slot, for its turn or for its bytes is answered,
\* or its connection ends.
RequestsAnswered ==
    \A r \in Req : pc[r] \notin {"idle", "done"} ~> pc[r] \in {"write", "done"}

\* "Most pieces uploaded at once across all peers" (client.rs:121): pieces on
\* their way to a peer, or being prepared for one.
UploadsWithinSlots ==
    Cardinality(Holding \cup {r \in Req : pc[r] = "write" /\ answer[r] = "Piece"}) <= Slots
=============================================================================
