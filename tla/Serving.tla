------------------------------ MODULE Serving -------------------------------
(***************************************************************************)
(* How one share is listed for other peers and how they follow its         *)
(* progress: registration.rs, LocalShare::mark_have (local.rs) and         *)
(* serve_subscription (handler.rs), with the subscriber's side of the      *)
(* stream (the updates loop of drive_peer, download.rs).                   *)
(*                                                                         *)
(* Every LocalShare object here has the same share id: a share that is     *)
(* stopped and started again is a new object, and handlers of the old one  *)
(* may still run. Pieces are stored by threads that write `have` first and *)
(* send on have_tx afterwards. have_tx is a broadcast channel that keeps   *)
(* its last Capacity messages: a receiver that falls behind further gets   *)
(* Lagged and goes on with the oldest message kept.                        *)
(***************************************************************************)
EXTENDS Naturals, Sequences, FiniteSets, SequencesExt

CONSTANTS
    Obj,       \* LocalShare objects, all of one share id
    Piece,     \* pieces of the share
    Restored,  \* sets of pieces an object may start with
    Sub,       \* Subscribe streams accepted over the time modelled
    Capacity,  \* of have_tx
    Window     \* messages a stream takes before write_frame has to wait

Unlisted == "unlisted"

ASSUME ServingAssumption ==
    /\ Unlisted \notin Obj
    /\ IsFiniteSet(Piece)
    /\ Restored \subseteq SUBSET Piece
    /\ Capacity \in Nat \ {0}
    /\ Window \in Nat \ {0}

VARIABLES
    registry,    \* the object listed under the share id, or Unlisted
    handle,      \* the Registration of each object: not made yet, held, gone
    have,        \* LocalShare.have of each object
    marking,     \* pieces in `have` whose message is still to be sent
    sent,        \* the messages have_tx of each object has taken
    pc,          \* where the task serving each stream is
    obj,         \* the object a stream serves
    next,        \* the message of have_tx its receiver takes next
    writing,     \* the frame it is writing
    stream,      \* frames the subscriber has not read
    known        \* what the subscriber believes the object holds

listVars == <<registry, handle>>
storeVars == <<have, marking, sent>>
serveVars == <<pc, obj, next, writing, stream, known>>
vars == <<listVars, storeVars, serveVars>>

\* Frames of the stream: the whole bitfield, or one piece more.
Bitfield(s) == [frame |-> "Bitfield", bits |-> s]
Have(p) == [frame |-> "Have", bits |-> {p}]
Frame == [frame : {"Bitfield", "Have"}, bits : SUBSET Piece]

ServingInit ==
    /\ registry = Unlisted
    /\ handle = [o \in Obj |-> "none"]
    /\ have = [o \in Obj |-> {}]
    /\ marking = [o \in Obj |-> {}]
    /\ sent = [o \in Obj |-> <<>>]
    /\ pc = [s \in Sub |-> "idle"]
    /\ obj = [s \in Sub |-> Unlisted]
    /\ next = [s \in Sub |-> 1]
    /\ writing = [s \in Sub |-> {}]
    /\ stream = [s \in Sub |-> <<>>]
    /\ known = [s \in Sub |-> {}]

-----------------------------------------------------------------------------
(* The registry.                                                           *)

\* Registration::new, with the pieces a seed, a restored or a new download
\* starts with. Only one object per id is listed; another one is refused.
Register(o) ==
    /\ handle[o] = "none"
    /\ \E pieces \in Restored : have' = [have EXCEPT ![o] = pieces]
    /\ IF registry = Unlisted
       THEN registry' = o /\ handle' = [handle EXCEPT ![o] = "held"]
       ELSE handle' = [handle EXCEPT ![o] = "gone"] /\ UNCHANGED registry
    /\ UNCHANGED <<marking, sent, serveVars>>

\* (mutant: a drop that does not compare the objects)
DropUnlistsAny(o) ==
    /\ handle[o] = "held"
    /\ handle' = [handle EXCEPT ![o] = "gone"]
    /\ registry' = Unlisted
    /\ UNCHANGED <<storeVars, serveVars>>

\* Registration::drop: unlists the object unless another one is listed now.
DropRegistration(o) ==
    /\ handle[o] = "held"
    /\ handle' = [handle EXCEPT ![o] = "gone"]
    /\ registry' = IF registry = o THEN Unlisted ELSE registry
    /\ UNCHANGED <<storeVars, serveVars>>

\* Client::remove takes whatever is listed under the id off the registry.
RemoveShare ==
    /\ registry # Unlisted
    /\ registry' = Unlisted
    /\ UNCHANGED <<handle, storeVars, serveVars>>

-----------------------------------------------------------------------------
(* Pieces arriving, also after the share is no longer listed: a blocking   *)
(* store_piece goes on. Only what a handler can see is modelled: pieces    *)
(* stored before somebody subscribes count as part of what the object      *)
(* starts with.                                                            *)

\* The streams that hold a receiver of the object's have_tx.
Receivers(o) == {s \in Sub : obj[s] = o /\ pc[s] \in {"snapshot", "write", "select"}}

MarkHave(o, p) ==
    /\ Receivers(o) # {}
    /\ p \notin have[o]
    /\ have' = [have EXCEPT ![o] = @ \cup {p}]
    /\ marking' = [marking EXCEPT ![o] = @ \cup {p}]
    /\ UNCHANGED <<listVars, sent, serveVars>>

\* (mutant: `newly` read the wrong way round)
SendNothing(o, p) ==
    /\ p \in marking[o]
    /\ marking' = [marking EXCEPT ![o] = @ \ {p}]
    /\ UNCHANGED <<listVars, have, sent, serveVars>>

\* A broadcast without receivers is not kept.
SendHave(o, p) ==
    /\ p \in marking[o]
    /\ marking' = [marking EXCEPT ![o] = @ \ {p}]
    /\ sent' = IF Receivers(o) = {} THEN sent ELSE [sent EXCEPT ![o] = Append(@, p)]
    /\ UNCHANGED <<listVars, have, serveVars>>

-----------------------------------------------------------------------------
(* Serving one stream.                                                     *)

\* serve_stream looks the share up, serve_subscription subscribes to have_tx.
Subscribe(s) ==
    /\ pc[s] = "idle"
    /\ registry # Unlisted
    /\ obj' = [obj EXCEPT ![s] = registry]
    /\ next' = [next EXCEPT ![s] = Len(sent[registry]) + 1]
    /\ pc' = [pc EXCEPT ![s] = "snapshot"]
    /\ UNCHANGED <<listVars, storeVars, writing, stream, known>>

\* (mutant: the bitfield of the day the share was listed)
SnapshotCached(s) ==
    /\ pc[s] = "snapshot"
    /\ LET o == obj[s]
       IN  writing' = [writing EXCEPT
               ![s] = {Bitfield(have[o] \ (marking[o] \cup ToSet(sent[o])))}]
    /\ pc' = [pc EXCEPT ![s] = "write"]
    /\ UNCHANGED <<listVars, storeVars, obj, next, stream, known>>

\* packed_bitfield: the first frame, and again after falling behind.
Snapshot(s) ==
    /\ pc[s] = "snapshot"
    /\ writing' = [writing EXCEPT ![s] = {Bitfield(have[obj[s]])}]
    /\ pc' = [pc EXCEPT ![s] = "write"]
    /\ UNCHANGED <<listVars, storeVars, obj, next, stream, known>>

\* (mutant: a frame that is written and kept)
WriteKeepsFrame(s) ==
    /\ pc[s] = "write"
    /\ Len(stream[s]) < Window
    /\ \E f \in writing[s] : stream' = [stream EXCEPT ![s] = Append(@, f)]
    /\ pc' = [pc EXCEPT ![s] = "select"]
    /\ UNCHANGED <<listVars, storeVars, obj, next, writing, known>>

\* write_frame succeeds once the stream has room.
Write(s) ==
    /\ pc[s] = "write"
    /\ Len(stream[s]) < Window
    /\ \E f \in writing[s] : stream' = [stream EXCEPT ![s] = Append(@, f)]
    /\ writing' = [writing EXCEPT ![s] = {}]
    /\ pc' = [pc EXCEPT ![s] = "select"]
    /\ UNCHANGED <<listVars, storeVars, obj, next, known>>

\* The oldest message have_tx still keeps.
Oldest(o) == IF Len(sent[o]) > Capacity THEN Len(sent[o]) - Capacity + 1 ELSE 1

\* updates.recv() answers with the next message ...
Receive(s) ==
    /\ pc[s] = "select"
    /\ next[s] \in Oldest(obj[s]) .. Len(sent[obj[s]])
    /\ writing' = [writing EXCEPT ![s] = {Have(sent[obj[s]][next[s]])}]
    /\ next' = [next EXCEPT ![s] = @ + 1]
    /\ pc' = [pc EXCEPT ![s] = "write"]
    /\ UNCHANGED <<listVars, storeVars, obj, stream, known>>

\* (mutant: a receiver that shrugs Lagged off)
LaggedIgnored(s) ==
    /\ pc[s] = "select"
    /\ next[s] < Oldest(obj[s])
    /\ next' = [next EXCEPT ![s] = Oldest(obj[s])]
    /\ UNCHANGED <<listVars, storeVars, pc, obj, writing, stream, known>>

\* ... or with Lagged, and everything is sent again.
Lagged(s) ==
    /\ pc[s] = "select"
    /\ next[s] < Oldest(obj[s])
    /\ next' = [next EXCEPT ![s] = Oldest(obj[s])]
    /\ pc' = [pc EXCEPT ![s] = "snapshot"]
    /\ UNCHANGED <<listVars, storeVars, obj, writing, stream, known>>

\* (mutant: a check that only asks whether the id is listed)
CheckById(s) ==
    /\ pc[s] = "select"
    /\ registry = Unlisted
    /\ pc' = [pc EXCEPT ![s] = "finished"]
    /\ UNCHANGED <<listVars, storeVars, obj, next, writing, stream, known>>

\* The check every five seconds: still_registered compares the object.
Check(s) ==
    /\ pc[s] = "select"
    /\ registry # obj[s]
    /\ pc' = [pc EXCEPT ![s] = "finished"]
    /\ UNCHANGED <<listVars, storeVars, obj, next, writing, stream, known>>

\* The connection ends: the task is aborted, the subscriber forgets the peer.
Disconnect(s) ==
    /\ pc[s] \in {"snapshot", "write", "select", "finished"}
    /\ pc' = [pc EXCEPT ![s] = "gone"]
    /\ writing' = [writing EXCEPT ![s] = {}]
    /\ stream' = [stream EXCEPT ![s] = <<>>]
    /\ known' = [known EXCEPT ![s] = {}]
    /\ UNCHANGED <<listVars, storeVars, obj, next>>

\* What a frame makes of the subscriber's picture: add_peer replaces it,
\* set_peer_has adds to it.
Learn(bits, f) == IF f.frame = "Bitfield" THEN f.bits ELSE bits \cup f.bits

\* The subscriber reads the next frame.
Read(s) ==
    /\ stream[s] # <<>>
    /\ known' = [known EXCEPT ![s] = Learn(@, Head(stream[s]))]
    /\ stream' = [stream EXCEPT ![s] = Tail(@)]
    /\ UNCHANGED <<listVars, storeVars, pc, obj, next, writing>>

ServingNext ==
    \/ RemoveShare
    \/ \E o \in Obj : Register(o) \/ DropRegistration(o)
    \/ \E o \in Obj, p \in Piece : MarkHave(o, p) \/ SendHave(o, p)
    \/ \E s \in Sub :
          \/ Subscribe(s) \/ Snapshot(s) \/ Write(s) \/ Receive(s) \/ Lagged(s)
          \/ Check(s) \/ Disconnect(s) \/ Read(s)

ServingSpec == ServingInit /\ [][ServingNext]_vars

\* Threads that began to mark a piece go on, the handler of a stream runs, and
\* a subscriber that stays reads its stream.
FairServingSpec ==
    /\ ServingSpec
    /\ \A o \in Obj, p \in Piece : WF_vars(SendHave(o, p))
    /\ \A s \in Sub :
          /\ WF_vars(Snapshot(s))
          /\ WF_vars(Write(s))
          /\ WF_vars(Receive(s) \/ Lagged(s))
          /\ WF_vars(Check(s))
          /\ WF_vars(Read(s))

-----------------------------------------------------------------------------
(* Properties.                                                             *)

ServingTypeOK ==
    /\ registry \in Obj \cup {Unlisted}
    /\ handle \in [Obj -> {"none", "held", "gone"}]
    /\ have \in [Obj -> SUBSET Piece]
    /\ marking \in [Obj -> SUBSET Piece]
    /\ \A o \in Obj : sent[o] \in Seq(Piece)
    /\ pc \in [Sub -> {"idle", "snapshot", "write", "select", "finished", "gone"}]
    /\ obj \in [Sub -> Obj \cup {Unlisted}]
    /\ next \in [Sub -> Nat \ {0}]
    /\ \A s \in Sub : /\ writing[s] \subseteq Frame
                      /\ Cardinality(writing[s]) = (IF pc[s] = "write" THEN 1 ELSE 0)
                      /\ stream[s] \in Seq(Frame) /\ Len(stream[s]) <= Window
    /\ known \in [Sub -> SUBSET Piece]

\* The frames on their way, those written and the one being written, each with
\* its place.
Pending(s) ==
    {<<k, stream[s][k]>> : k \in 1 .. Len(stream[s])}
        \cup {<<Len(stream[s]) + 1, f>> : f \in writing[s]}

\* The pieces no bitfield after place k takes away again.
Stays(s, k) ==
    {p \in Piece : \A q \in Pending(s) :
        q[1] > k /\ q[2].frame = "Bitfield" => p \in q[2].bits}

\* What the subscriber will believe once it has read every frame written or
\* being written.
Told(s) ==
    (known[s] \cap Stays(s, 0)) \cup UNION {q[2].bits \cap Stays(s, q[1]) : q \in Pending(s)}

\* "before the snapshot, so nothing is missed" (handler.rs:134): whenever the
\* handler waits for updates, every piece the share holds is told, still to be
\* received, or still to be sent; or the receiver is about to learn that it
\* fell behind.
NothingMissed ==
    \A s \in Sub :
        pc[s] = "select" /\ next[s] >= Oldest(obj[s]) =>
            have[obj[s]] \subseteq
                Told(s) \cup marking[obj[s]]
                \cup {sent[obj[s]][k] : k \in next[s] .. Len(sent[obj[s]])}

\* A subscriber never unlearns a piece while it follows the stream, although
\* bitfields replace what single messages told it: a bitfield written after a
\* message contains its piece (mark_have writes `have` before it sends).
NeverUnlearned ==
    [][\A s \in Sub : pc'[s] # "gone" => known[s] \subseteq known'[s]]_vars

\* Dropping a handle never stops a share that was started after it under the
\* same id (registration.rs:32): only `remove` unlists an object whose own
\* Registration is still held.
OnlyOwnUnlisted ==
    [][\A o \in Obj : registry = o /\ registry' # o => handle'[o] # "held" \/ RemoveShare]_vars

\* Every piece the share holds reaches every subscriber that stays, also
\* through overruns of the channel, as long as the share stays listed.
SubscribersLearn ==
    \A s \in Sub, p \in Piece, o \in Obj :
        (obj[s] = o /\ p \in have[o]) ~> (p \in known[s] \/ registry # o \/ pc[s] = "gone")

\* "until the peer goes away or this share stops being served"
\* (handler.rs:132): streams of an object that is no longer listed end, also
\* when the same share is listed anew.
UnlistedStreamsEnd ==
    \A s \in Sub : (obj[s] # Unlisted /\ registry # obj[s]) ~> (pc[s] \in {"finished", "gone"})
=============================================================================
