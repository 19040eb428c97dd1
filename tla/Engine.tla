------------------------------- MODULE Engine -------------------------------
(***************************************************************************)
(* The download engine: crates/chorrent/src/download.rs from the moment    *)
(* the files are laid out (run, "3. Swarm until every piece is here") to   *)
(* the outcome. It drives the actions of Scheduler.tla.                    *)
(*                                                                         *)
(* Tasks that interleave: the main loop of run, one run_peer task per      *)
(* connection, its workers, and the blocking store_piece calls the workers *)
(* spawn. A lock of the code is held only inside one action. Aborting a    *)
(* task (a JoinSet is dropped) stops it at its next await, but never stops *)
(* a blocking store it started.                                            *)
(*                                                                         *)
(* The wake-up notifications are left out: a worker that finds nothing to  *)
(* do also looks again every second, so a wake-up only shortens a wait.    *)
(***************************************************************************)
EXTENDS Scheduler

CONSTANTS
    Conn,            \* the connections the download ever uses
    PeerOf,          \* the remote peer of each connection
    First,           \* first_conn: the connection the manifest came over
    Worker,          \* request workers of one connection, at most
    InitialRequests, \* REQUESTS_PER_PEER: how many of them start at once
    MaxStrikes,      \* MAX_STRIKES
    MaxPeers,        \* MAX_PEERS: connections dialed or in use
    Gossip,          \* whether the swarm keeps reporting peers
    LatePolls,       \* whether an aborted task can be in the middle of a poll
                     \* on another thread (a multi-threaded runtime)
    Seeder           \* peers that hold all pieces, answer every request with
                     \* good data and stay

ASSUME EngineAssumption ==
    /\ PeerOf \in [Conn -> Peer]
    /\ First \in Conn
    /\ IsFiniteSet(Worker)
    /\ InitialRequests \in 1 .. Cardinality(Worker)
    /\ MaxStrikes \in Nat \ {0}
    /\ MaxPeers \in Nat \ {0}
    /\ Gossip \in BOOLEAN
    /\ LatePolls \in BOOLEAN
    /\ Seeder \subseteq Peer

NoPiece == -1

VARIABLES
    phase,      \* where run is: at the condition of its loop, in the loop's
                \* select, verifying, or at its outcome
    found,      \* peers waiting in the channel found_rx
    tried,      \* the keys of tracker.last_attempt
    connected,  \* Engine.connected
    conn,       \* where the run_peer task of each connection is
    strikes,    \* strikes of each connection
    pc,         \* where each worker is
    on,         \* the piece each worker is busy with
    late,       \* workers aborted in the middle of a poll
    store,      \* the blocking store_piece call each worker started last
    have        \* LocalShare.have

peerVars == <<found, tried, connected, conn>>
workVars == <<strikes, pc, on, late, store>>
vars == <<schedVars, phase, peerVars, workVars, have>>

\* dialing: connecting; connected: run_peer begins; subscribing: past the
\* `connected` guard, waiting for the first bitfield; driving: workers run;
\* leaving: drive_peer returned; forgotten: the scheduler has dropped it.
ConnState == {"unused", "dialing", "connected", "subscribing", "driving",
              "leaving", "forgotten"}
WorkerState == {"none", "top", "asked", "storing"}
NoStore == [at |-> "none", piece |-> NoPiece, good |-> FALSE]
Stores == [at : {"begun", "writing", "ok", "bad"}, piece : Piece, good : BOOLEAN]

EngineTypeOK ==
    /\ SchedTypeOK
    /\ phase \in {"checking", "selecting", "verifying", "completed", "cancelled", "failed"}
    /\ found \subseteq Peer
    /\ tried \subseteq Peer
    /\ connected \subseteq Peer
    /\ conn \in [Conn -> ConnState]
    /\ strikes \in [Conn -> Nat]
    /\ pc \in [Conn -> [Worker -> WorkerState]]
    /\ on \in [Conn -> [Worker -> Piece \cup {NoPiece}]]
    /\ late \subseteq Conn \X Worker
    /\ store \in [Conn -> [Worker -> Stores \cup {NoStore}]]
    /\ have \subseteq Piece

-----------------------------------------------------------------------------
\* The share is restored, first_conn is handed to run_peer, and every other
\* candidate is put back into the channel.
EngineInit ==
    /\ have \in SUBSET Piece
    /\ SchedInit(have)
    /\ phase = "checking"
    /\ found \in SUBSET (Peer \ {PeerOf[First]})
    /\ tried = {}
    /\ connected = {}
    /\ conn = [c \in Conn |-> IF c = First THEN "connected" ELSE "unused"]
    /\ strikes = [c \in Conn |-> 0]
    /\ pc = [c \in Conn |-> [w \in Worker |-> "none"]]
    /\ on = [c \in Conn |-> [w \in Worker |-> NoPiece]]
    /\ late = {}
    /\ store = [c \in Conn |-> [w \in Worker |-> NoStore]]

\* Workers that may be running rather than waiting: at the top of the loop, or
\* with what they waited for just arrived.
InPoll(c, w) ==
    \/ pc[c][w] \in {"top", "asked"}
    \/ pc[c][w] = "storing" /\ store[c][w].at \in {"ok", "bad"}

\* Dropping a JoinSet of workers: those of C stop at their next await. With
\* several threads any of them may first finish the poll it is in.
AbortWorkers(C) ==
    \E L \in SUBSET {cw \in C \X Worker : LatePolls /\ InPoll(cw[1], cw[2])} :
        /\ late' = late \cup L
        /\ pc' = [c \in Conn |-> [w \in Worker |->
                     IF c \in C /\ <<c, w>> \notin L \cup late
                     THEN "none" ELSE pc[c][w]]]
        /\ on' = [c \in Conn |-> [w \in Worker |->
                     IF c \in C /\ <<c, w>> \notin L \cup late
                     THEN NoPiece ELSE on[c][w]]]

-----------------------------------------------------------------------------
\* The main loop of run.

\* Gossip reports a peer (again); the channel holds it until the loop looks.
Discover(k) ==
    /\ Gossip
    /\ phase \in {"checking", "selecting"}
    /\ k \notin found
    /\ found' = found \cup {k}
    /\ UNCHANGED <<schedVars, phase, tried, connected, conn, workVars, have>>

InUse == {c \in Conn : conn[c] # "unused"}

\* A connection that can stand for a new one: nothing of the last is left.
Free(c) ==
    /\ conn[c] = "unused"
    /\ \A w \in Worker : pc[c][w] = "none" /\ store[c][w] = NoStore

\* The condition of the loop. When all pieces are here the loop ends, and
\* drop(peers) aborts every run_peer task and with it its workers.
Check ==
    /\ phase = "checking"
    /\ IF is_done
       THEN /\ phase' = "verifying"
            /\ AbortWorkers(Conn)
            /\ conn' = [c \in Conn |-> "unused"]
       ELSE /\ phase' = "selecting"
            /\ UNCHANGED <<pc, on, late, conn>>
    /\ UNCHANGED <<schedVars, found, tried, connected, strikes, store, have>>

\* finished.notified or the save tick: look at the condition again.
Tick ==
    /\ phase = "selecting"
    /\ phase' = "checking"
    /\ UNCHANGED <<schedVars, peerVars, workVars, have>>

\* found_rx.recv: an address is dropped when enough peers are in use, when the
\* peer is connected, or when should_try dialed it less than 20 seconds ago.
TakeFound(k) ==
    /\ phase = "selecting"
    /\ k \in found
    /\ found' = found \ {k}
    /\ \/ /\ Cardinality(InUse) >= MaxPeers \/ k \in connected \/ k \in tried
          /\ UNCHANGED <<tried, conn>>
       \/ /\ Cardinality(InUse) < MaxPeers /\ k \notin connected
          /\ tried' = tried \cup {k}
          /\ \E c \in Conn : /\ PeerOf[c] = k /\ Free(c)
                             /\ conn' = [conn EXCEPT ![c] = "dialing"]
    /\ phase' = "checking"
    /\ UNCHANGED <<schedVars, connected, workVars, have>>

\* Cancelled: run returns, and dropping its locals aborts the same tasks.
Cancel ==
    /\ phase = "selecting"
    /\ phase' = "cancelled"
    /\ AbortWorkers(Conn)
    /\ conn' = [c \in Conn |-> "unused"]
    /\ UNCHANGED <<schedVars, found, tried, connected, strikes, store, have>>

\* share.verify(): every piece is checked against its hash once more; it fails
\* only if a file was changed underneath.
Verify ==
    /\ phase = "verifying"
    /\ phase' \in {"completed", "failed"}
    /\ UNCHANGED <<schedVars, peerVars, workVars, have>>

-----------------------------------------------------------------------------
\* run_peer and drive_peer.

DialFails(c) ==
    /\ conn[c] = "dialing"
    /\ conn' = [conn EXCEPT ![c] = "unused"]
    /\ UNCHANGED <<schedVars, phase, found, tried, connected, workVars, have>>

DialSucceeds(c) ==
    /\ conn[c] = "dialing"
    /\ conn' = [conn EXCEPT ![c] = "connected"]
    /\ UNCHANGED <<schedVars, phase, found, tried, connected, workVars, have>>

\* The guard at the top of run_peer: one connection per peer.
Guard(c) ==
    /\ conn[c] = "connected"
    /\ IF PeerOf[c] \in connected
       THEN conn' = [conn EXCEPT ![c] = "unused"] /\ UNCHANGED connected
       ELSE /\ conn' = [conn EXCEPT ![c] = "subscribing"]
            /\ connected' = connected \cup {PeerOf[c]}
    /\ UNCHANGED <<schedVars, phase, found, tried, workVars, have>>

\* What a peer may claim to hold.
Claims(k) == IF k \in Seeder THEN {Piece} ELSE SUBSET Piece

\* The first bitfield: tell the scheduler and start the workers.
Subscribed(c) ==
    /\ conn[c] = "subscribing"
    /\ \E b \in Claims(PeerOf[c]) : AddPeer(PeerOf[c], b)
    /\ conn' = [conn EXCEPT ![c] = "driving"]
    /\ strikes' = [strikes EXCEPT ![c] = 0]
    /\ \E W \in SUBSET Worker :
          /\ Cardinality(W) = InitialRequests
          /\ pc' = [pc EXCEPT ![c] = [w \in Worker |-> IF w \in W THEN "top" ELSE "none"]]
    /\ UNCHANGED <<phase, found, tried, connected, on, late, store, have>>

\* The subscription fails: drive_peer returns before anything was shared.
SubscribeFails(c) ==
    /\ conn[c] = "subscribing"
    /\ PeerOf[c] \notin Seeder
    /\ conn' = [conn EXCEPT ![c] = "leaving"]
    /\ UNCHANGED <<schedVars, phase, found, tried, connected, workVars, have>>

\* `updates`: the peer verified another piece.
HaveArrives(c) ==
    /\ conn[c] = "driving"
    /\ \E i \in Piece : SetPeerHas(PeerOf[c], i)
    /\ UNCHANGED <<phase, peerVars, workVars, have>>

\* `updates`: the peer's side fell behind and sent its whole bitfield again.
BitfieldArrives(c) ==
    /\ conn[c] = "driving"
    /\ \E b \in Claims(PeerOf[c]) : AddPeer(PeerOf[c], b)
    /\ UNCHANGED <<phase, peerVars, workVars, have>>

\* The resize tick starts more workers on a distant connection.
Resize(c) ==
    /\ conn[c] = "driving"
    /\ ~is_done /\ strikes[c] < MaxStrikes
    /\ \E w \in Worker : /\ pc[c][w] = "none" /\ store[c][w] = NoStore
                         /\ pc' = [pc EXCEPT ![c][w] = "top"]
    /\ UNCHANGED <<schedVars, phase, peerVars, strikes, on, late, store, have>>

\* Mutant: `connected` is released before the scheduler forgets the peer.
LeaveReleases(c) ==
    /\ conn[c] = "driving"
    /\ \/ PeerOf[c] \notin Seeder
       \/ \A w \in Worker : pc[c][w] = "none"
    /\ AbortWorkers({c})
    /\ conn' = [conn EXCEPT ![c] = "leaving"]
    /\ connected' = connected \ {PeerOf[c]}
    /\ UNCHANGED <<schedVars, phase, found, tried, strikes, store, have>>

\* drive_peer returns: the peer hung up (`updates` ends), or no worker is left.
Leave(c) ==
    /\ conn[c] = "driving"
    /\ \/ PeerOf[c] \notin Seeder
       \/ \A w \in Worker : pc[c][w] = "none"
    /\ AbortWorkers({c})
    /\ conn' = [conn EXCEPT ![c] = "leaving"]
    /\ UNCHANGED <<schedVars, phase, found, tried, connected, strikes, store, have>>

\* Mutant: the scheduler is not told that the peer is gone.
ForgetNothing(c) ==
    /\ conn[c] = "leaving"
    /\ conn' = [conn EXCEPT ![c] = "forgotten"]
    /\ UNCHANGED <<schedVars, phase, found, tried, connected, workVars, have>>

\* The tail of run_peer: first the scheduler forgets the peer...
Forget(c) ==
    /\ conn[c] = "leaving"
    /\ RemovePeer(PeerOf[c])
    /\ conn' = [conn EXCEPT ![c] = "forgotten"]
    /\ UNCHANGED <<phase, found, tried, connected, workVars, have>>

\* ... and only then may another connection to the same peer begin.
Release(c) ==
    /\ conn[c] = "forgotten"
    /\ connected' = connected \ {PeerOf[c]}
    /\ conn' = [conn EXCEPT ![c] = "unused"]
    /\ UNCHANGED <<schedVars, phase, found, tried, workVars, have>>

-----------------------------------------------------------------------------
\* The worker loop. A worker that was aborted in the middle of a poll stops
\* where it would have awaited next.
Goes(c, w, to, i) ==
    /\ pc' = [pc EXCEPT ![c][w] = IF <<c, w>> \in late THEN "none" ELSE to]
    /\ on' = [on EXCEPT ![c][w] = IF <<c, w>> \in late THEN NoPiece ELSE i]
    /\ late' = late \ {<<c, w>>}

Strike(c) == strikes' = [strikes EXCEPT ![c] = @ + 1]

WorkerStops(c, w) ==
    /\ pc[c][w] = "top"
    /\ is_done \/ strikes[c] >= MaxStrikes
    /\ Goes(c, w, "none", NoPiece)
    /\ UNCHANGED <<schedVars, phase, peerVars, strikes, store, have>>

\* Pick a piece and send the request.
Ask(c, w) ==
    /\ pc[c][w] = "top"
    /\ ~is_done /\ strikes[c] < MaxStrikes
    /\ \E i \in Piece : Pick(PeerOf[c], i) /\ Goes(c, w, "asked", i)
    /\ UNCHANGED <<phase, peerVars, strikes, store, have>>

\* A worker aborted at the top finds nothing to pick, or never looks.
LateNothing(c, w) ==
    /\ <<c, w>> \in late
    /\ Goes(c, w, "none", NoPiece)
    /\ UNCHANGED <<schedVars, phase, peerVars, strikes, store, have>>

\* A piece arrives, good or bad: a blocking task checks and stores it.
PieceArrives(c, w) ==
    /\ pc[c][w] = "asked"
    /\ \E good \in (IF PeerOf[c] \in Seeder THEN {TRUE} ELSE BOOLEAN) :
          store' = [store EXCEPT ![c][w] =
                       [at |-> "begun", piece |-> on[c][w], good |-> good]]
    /\ Goes(c, w, "storing", on[c][w])
    /\ UNCHANGED <<schedVars, phase, peerVars, strikes, have>>

GiveBack(c, w, lacks) ==
    /\ Failed(on[c][w], PeerOf[c], lacks)
    /\ Goes(c, w, "top", NoPiece)

\* Response::DontHave
DontHave(c, w) ==
    /\ pc[c][w] = "asked" /\ PeerOf[c] \notin Seeder
    /\ GiveBack(c, w, TRUE)
    /\ UNCHANGED <<phase, peerVars, strikes, store, have>>

\* Response::Busy
Busy(c, w) ==
    /\ pc[c][w] = "asked" /\ PeerOf[c] \notin Seeder
    /\ GiveBack(c, w, FALSE)
    /\ UNCHANGED <<phase, peerVars, strikes, store, have>>

\* Response::NotFound: the peer stopped sharing this.
NotFound(c, w) ==
    /\ pc[c][w] = "asked" /\ PeerOf[c] \notin Seeder
    /\ strikes' = [strikes EXCEPT ![c] = MaxStrikes]
    /\ GiveBack(c, w, FALSE)
    /\ UNCHANGED <<phase, peerVars, store, have>>

\* No usable answer, or none within REQUEST_TIMEOUT.
RequestFails(c, w) ==
    /\ pc[c][w] = "asked" /\ PeerOf[c] \notin Seeder
    /\ Strike(c)
    /\ GiveBack(c, w, FALSE)
    /\ UNCHANGED <<phase, peerVars, store, have>>

\* store_piece begins: a piece we have meanwhile is not even looked at.
StoreBegins(c, w) ==
    /\ store[c][w].at = "begun"
    /\ store' = [store EXCEPT ![c][w].at =
                    IF store[c][w].piece \in have THEN "ok" ELSE "writing"]
    /\ UNCHANGED <<schedVars, phase, peerVars, strikes, pc, on, late, have>>

\* ... decode, write, apply the proof, mark_have; bad data marks nothing.
StoreEnds(c, w) ==
    /\ store[c][w].at = "writing"
    /\ IF store[c][w].good
       THEN /\ have' = have \cup {store[c][w].piece}
            /\ store' = [store EXCEPT ![c][w].at = "ok"]
       ELSE /\ store' = [store EXCEPT ![c][w].at = "bad"]
            /\ UNCHANGED have
    /\ UNCHANGED <<schedVars, phase, peerVars, strikes, pc, on, late>>

\* The worker was aborted while its store ran: nobody reads the result.
StoreOrphaned(c, w) ==
    /\ store[c][w].at \in {"ok", "bad"} /\ pc[c][w] # "storing"
    /\ store' = [store EXCEPT ![c][w] = NoStore]
    /\ UNCHANGED <<schedVars, phase, peerVars, strikes, pc, on, late, have>>

\* The worker learns the piece is stored.
Stored(c, w) ==
    /\ pc[c][w] = "storing" /\ store[c][w].at = "ok"
    /\ strikes' = [strikes EXCEPT ![c] = 0]
    /\ Complete(on[c][w])
    /\ Goes(c, w, "top", NoPiece)
    /\ store' = [store EXCEPT ![c][w] = NoStore]
    /\ UNCHANGED <<phase, peerVars, have>>

\* The worker learns the data was bad: "never ask this peer for this piece
\* again".
BadData(c, w) ==
    /\ pc[c][w] = "storing" /\ store[c][w].at = "bad"
    /\ Strike(c)
    /\ GiveBack(c, w, TRUE)
    /\ store' = [store EXCEPT ![c][w] = NoStore]
    /\ UNCHANGED <<phase, peerVars, have>>

-----------------------------------------------------------------------------
Ended == phase \in {"completed", "cancelled", "failed"}

\* Everything that can happen is over.
Terminated ==
    /\ Ended
    /\ \A c \in Conn, w \in Worker : pc[c][w] = "none" /\ store[c][w] = NoStore
    /\ UNCHANGED vars

WorkerStep(c, w) ==
    \/ WorkerStops(c, w) \/ Ask(c, w) \/ LateNothing(c, w)
    \/ PieceArrives(c, w) \/ DontHave(c, w) \/ Busy(c, w) \/ NotFound(c, w)
    \/ RequestFails(c, w) \/ Stored(c, w) \/ BadData(c, w)

StoreStep(c, w) == StoreBegins(c, w) \/ StoreEnds(c, w) \/ StoreOrphaned(c, w)

ConnStep(c) ==
    \/ DialFails(c) \/ DialSucceeds(c) \/ Guard(c) \/ Subscribed(c)
    \/ SubscribeFails(c) \/ HaveArrives(c) \/ BitfieldArrives(c) \/ Resize(c)
    \/ Leave(c) \/ Forget(c) \/ Release(c)

LoopStep == Check \/ Tick \/ Cancel \/ Verify \/ \E k \in Peer : Discover(k) \/ TakeFound(k)

EngineNext ==
    \/ LoopStep
    \/ \E c \in Conn : ConnStep(c) \/ \E w \in Worker : WorkerStep(c, w) \/ StoreStep(c, w)
    \/ Terminated

EngineSpec == EngineInit /\ [][EngineNext]_vars

\* Fairness. A peer may hang up, stay silent, or never answer a dial, so none of
\* that is fair; what the program itself does is: its loop runs, a request is
\* answered or times out (REQUEST_TIMEOUT), a blocking store ends, an idle
\* worker looks again every second, and a connection without workers is left.
Answer(c, w) ==
    PieceArrives(c, w) \/ DontHave(c, w) \/ Busy(c, w) \/ NotFound(c, w) \/ RequestFails(c, w)

Fairness ==
    /\ WF_vars(Check) /\ WF_vars(Tick) /\ WF_vars(Verify)
    /\ \A c \in Conn :
          /\ WF_vars(Guard(c)) /\ WF_vars(Forget(c)) /\ WF_vars(Release(c))
          /\ WF_vars(Subscribed(c) \/ SubscribeFails(c))
          /\ WF_vars((\A w \in Worker : pc[c][w] = "none") /\ Leave(c))
          /\ \A w \in Worker :
                /\ WF_vars(WorkerStops(c, w)) /\ WF_vars(Ask(c, w))
                /\ WF_vars(Answer(c, w)) /\ WF_vars(StoreStep(c, w))
                /\ WF_vars(Stored(c, w) \/ BadData(c, w))
                /\ WF_vars(LateNothing(c, w))

FairEngineSpec == EngineSpec /\ Fairness

-----------------------------------------------------------------------------
Running == phase \in {"checking", "selecting"}

InRunPeer(c) == conn[c] \in {"subscribing", "driving", "leaving", "forgotten"}

\* run_peer holds its `connected` entry until the scheduler has forgotten the
\* peer, so a second connection to it can never have its requests wiped by the
\* tail of the first, and the scheduler knows a peer only while one connection
\* drives it.
OneConnectionPerPeer ==
    Running =>
        \A k \in Peer :
            /\ Cardinality({c \in Conn : PeerOf[c] = k /\ InRunPeer(c)})
                  = Count(k \in connected)
            /\ k \in known =>
                  \E c \in Conn : PeerOf[c] = k /\ conn[c] \in {"driving", "leaving"}

\* Every entry of an InFlight list is a request in progress: some worker of that
\* peer is busy with the piece, or the peer is about to be forgotten. An entry
\* without one would keep the peer from ever being asked for the piece again.
RequestsBacked ==
    Running =>
        \A i \in Piece : \A k \in by[i] :
            \E c \in Conn :
                /\ PeerOf[c] = k
                /\ \/ conn[c] = "leaving"
                   \/ conn[c] = "driving" /\ \E w \in Worker : on[c][w] = i

\* The scheduler and the share never disagree the dangerous way round: a piece
\* counted as Done is on disk and verified, whatever was aborted meanwhile.
DoneIsStored == InState("Done") \subseteq have

\* The engine does what Transfer.tla promises.
T == INSTANCE Transfer WITH
        stored <- have,
        verified <- InState("Done"),
        outcome <- IF Ended THEN phase ELSE "running"

TransferSpec == T!Spec

\* As long as one peer that has everything stays, the download ends, whatever
\* the other peers announce, refuse, corrupt or leave unanswered.
SeederFinishes == <>Ended

\* ENDGAME_DUPLICATES, "Maximum peers asked for the same piece at once during
\* endgame" (scheduler.rs:13): the peers a worker is waiting for, for one piece
\* that is not here yet.
AskedPeers(i) ==
    {PeerOf[c] : c \in {d \in Conn : \E w \in Worker : pc[d][w] = "asked" /\ on[d][w] = i}}

EndgameLimit ==
    Running => \A i \in Piece :
        i \notin have => Cardinality(AskedPeers(i)) <= EndgameDuplicates

\* "Swarm until every piece is here" (download.rs:237): once every piece is on
\* disk the download ends.
EveryPieceHereEnds == have = Piece ~> Ended

\* Event::PieceFailed, "it will be retried" (event.rs:50): a piece whose data
\* was bad is asked for again, or arrives, or the download ends, unless the
\* connection it came over is given up.
FailedIsRetried ==
    \A i \in Piece, c \in Conn :
        (\E w \in Worker : pc[c][w] = "storing" /\ on[c][w] = i /\ store[c][w].at = "bad")
          ~> \/ \E d \in Conn, w \in Worker : pc[d][w] = "asked" /\ on[d][w] = i
             \/ i \in have \/ Ended \/ conn[c] # "driving"
=============================================================================
