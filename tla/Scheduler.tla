------------------------------ MODULE Scheduler ------------------------------
(***************************************************************************)
(* The piece scheduler of a download: crates/chorrent/src/scheduler.rs.    *)
(* Every operation runs under the engine's one `sched` mutex, so each is   *)
(* one atomic action here.                                                 *)
(*                                                                         *)
(* This module is the scheduler alone, driven by any legal sequence of     *)
(* calls; Engine.tla drives the same actions from its workers.             *)
(***************************************************************************)
EXTENDS Integers, FiniteSets

CONSTANTS
    Peer,              \* the endpoint ids that ever connect
    N,                 \* pieces of the share
    UrgentWindow,      \* urgent_window: pieces fetched strictly in order
    RarestSample,      \* RAREST_SAMPLE: candidates rarest-first looks at
    EndgameDuplicates  \* ENDGAME_DUPLICATES: peers asked for one piece at once

ASSUME SchedulerAssumption ==
    /\ IsFiniteSet(Peer)
    /\ N \in Nat
    /\ UrgentWindow \in Nat
    /\ RarestSample \in Nat \ {0}
    /\ EndgameDuplicates \in Nat \ {0}

Piece == 0 .. N - 1

VARIABLES
    pieces,         \* pieces: what is known of each piece
    by,             \* the peers inside InFlight(by); {} in the other states
    availability,   \* availability: how many connected peers hold each piece
    known,          \* the keys of the map `peers`
    bits,           \* its values: the pieces each known peer holds
    first_not_done, \* first_not_done: every piece before it is Done
    missing,        \* missing: how many pieces are Missing
    done            \* done: how many pieces are Done

schedVars == <<pieces, by, availability, known, bits, first_not_done, missing, done>>

\* A piece is Missing, InFlight(by) or Done; the vector `by` never repeats a
\* peer (pick tests `contains`), so it is a set here.
PieceState == {"Missing", "InFlight", "Done"}

SchedTypeOK ==
    /\ pieces \in [Piece -> PieceState]
    /\ by \in [Piece -> SUBSET Peer]
    /\ availability \in [Piece -> Int]
    /\ known \in SUBSET Peer
    /\ bits \in [Peer -> SUBSET Piece]
    /\ first_not_done \in 0 .. N
    /\ missing \in Int
    /\ done \in Int

InState(s) == {i \in Piece : pieces[i] = s}

\* advance_playhead: the first piece from `start` on that is not Done in `pcs`.
IsPlayhead(j, start, pcs) ==
    /\ j \in start .. N
    /\ \A i \in start .. j - 1 : pcs[i] = "Done"
    /\ j < N => pcs[j] # "Done"

-----------------------------------------------------------------------------
\* Scheduler::new, for the pieces already on disk.
SchedInit(have) ==
    /\ pieces = [i \in Piece |-> IF i \in have THEN "Done" ELSE "Missing"]
    /\ by = [i \in Piece |-> {}]
    /\ availability = [i \in Piece |-> 0]
    /\ known = {}
    /\ bits = [k \in Peer |-> {}]
    /\ done = Cardinality(have)
    /\ missing = N - Cardinality(have)
    /\ first_not_done \in {j \in 0 .. N : IsPlayhead(j, 0, pieces)}

\* Mutant: the download counts as done when nothing is left to ask for.
is_done_asked == missing <= 0

is_done == done = N

\* drop_request(i, k) for every i of S: an entry that empties makes its piece
\* Missing again.
Released(S, k) == {i \in S : pieces[i] = "InFlight" /\ by[i] \ {k} = {}}

\* Mutant: the piece is put back without counting it.
DropRequestsUncounted(S, k) ==
    /\ by' = [i \in Piece |-> IF i \in S THEN by[i] \ {k} ELSE by[i]]
    /\ pieces' = [i \in Piece |-> IF i \in Released(S, k) THEN "Missing" ELSE pieces[i]]
    /\ UNCHANGED missing

\* Mutant: any piece nobody fetches is put back, a Done one too.
DropRequestsAnyState(S, k) ==
    /\ by' = [i \in Piece |-> IF i \in S THEN by[i] \ {k} ELSE by[i]]
    /\ pieces' = [i \in Piece |-> IF i \in S /\ by[i] \ {k} = {} THEN "Missing" ELSE pieces[i]]
    /\ missing' = missing + Cardinality(Released(S, k))

DropRequests(S, k) ==
    /\ by' = [i \in Piece |-> IF i \in S THEN by[i] \ {k} ELSE by[i]]
    /\ pieces' = [i \in Piece |-> IF i \in Released(S, k) THEN "Missing" ELSE pieces[i]]
    /\ missing' = missing + Cardinality(Released(S, k))

Count(b) == IF b THEN 1 ELSE 0

\* remove_peer: returns at once for a peer it does not know.
RemovePeer(k) ==
    IF k \in known
    THEN /\ DropRequests(Piece, k)
         /\ availability' = [i \in Piece |-> availability[i] - Count(i \in bits[k])]
         /\ known' = known \ {k}
         /\ bits' = [bits EXCEPT ![k] = {}]
         /\ UNCHANGED <<first_not_done, done>>
    ELSE UNCHANGED schedVars

\* Mutant: a repeated bitfield does not forget the peer's requests.
AddPeerKeepsRequests(k, have) ==
    /\ availability' = [i \in Piece |->
           availability[i] - Count(k \in known /\ i \in bits[k]) + Count(i \in have)]
    /\ known' = known \cup {k}
    /\ bits' = [bits EXCEPT ![k] = have]
    /\ UNCHANGED <<pieces, by, missing, first_not_done, done>>

\* add_peer: remove_peer first, so a repeated bitfield also forgets what this
\* peer is fetching; then count and store the new bits.
AddPeer(k, have) ==
    /\ DropRequests(IF k \in known THEN Piece ELSE {}, k)
    /\ availability' = [i \in Piece |->
           availability[i] - Count(k \in known /\ i \in bits[k]) + Count(i \in have)]
    /\ known' = known \cup {k}
    /\ bits' = [bits EXCEPT ![k] = have]
    /\ UNCHANGED <<first_not_done, done>>

\* set_peer_has: a `Have` message; ignored from an unknown peer and when known.
SetPeerHas(k, i) ==
    IF k \in known /\ i \notin bits[k]
    THEN /\ bits' = [bits EXCEPT ![k] = @ \cup {i}]
         /\ availability' = [availability EXCEPT ![i] = @ + 1]
         /\ UNCHANGED <<pieces, by, known, first_not_done, missing, done>>
    ELSE UNCHANGED schedVars

-----------------------------------------------------------------------------
\* pick: the three rules, in order.
Wanted(k) == {i \in bits[k] : pieces[i] = "Missing"}

Lowest(S) == {i \in S : \A j \in S : i <= j}

\* 1. Urgent window, strictly in order.
Urgent(k) ==
    {i \in Wanted(k) : first_not_done <= i /\ i < first_not_done + UrgentWindow}

\* 2. Rarest first. The scan runs (start..total).chain(0..start) and stops
\* after RAREST_SAMPLE candidates or at the first that at most one peer holds.
ScanPos(i) == IF i >= first_not_done THEN i - first_not_done
                                     ELSE i - first_not_done + N

ScannedBefore(k, i) == {j \in Wanted(k) : ScanPos(j) < ScanPos(i)}

\* Mutant: the scan stops at a piece that two peers hold.
SampledTooShort(k) ==
    {i \in Wanted(k) : /\ Cardinality(ScannedBefore(k, i)) < RarestSample
                       /\ \A j \in ScannedBefore(k, i) : availability[j] > 2}

Sampled(k) ==
    {i \in Wanted(k) : /\ Cardinality(ScannedBefore(k, i)) < RarestSample
                       /\ \A j \in ScannedBefore(k, i) : availability[j] > 1}

Rarest(k) ==
    {i \in Sampled(k) : \A j \in Sampled(k) :
        \/ availability[i] < availability[j]
        \/ availability[i] = availability[j] /\ ScanPos(i) <= ScanPos(j)}

\* 3. Endgame: help with pieces others are already fetching.
Helpable(k) ==
    {i \in bits[k] : /\ i >= first_not_done
                     /\ pieces[i] = "InFlight"
                     /\ Cardinality(by[i]) < EndgameDuplicates
                     /\ k \notin by[i]}

LeastAsked(k) ==
    {i \in Helpable(k) : \A j \in Helpable(k) :
        \/ Cardinality(by[i]) < Cardinality(by[j])
        \/ Cardinality(by[i]) = Cardinality(by[j]) /\ i <= j}

\* Mutant: a piece in flight is helped with although others are Missing.
PicksHelpEarly(k) ==
    IF k \notin known THEN {}
    ELSE IF Urgent(k) # {} THEN Lowest(Urgent(k))
    ELSE IF Rarest(k) # {} THEN Rarest(k)
    ELSE LeastAsked(k)

\* Mutant: no endgame.
PicksNoEndgame(k) ==
    IF k \notin known THEN {}
    ELSE IF Urgent(k) # {} THEN Lowest(Urgent(k))
    ELSE IF missing > 0 THEN Rarest(k)
    ELSE {}

\* What pick would choose for k: one piece, or none.
Picks(k) ==
    IF k \notin known THEN {}
    ELSE IF Urgent(k) # {} THEN Lowest(Urgent(k))
    ELSE IF missing > 0 THEN Rarest(k)
    ELSE LeastAsked(k)

\* pick that returns Some(i).
Pick(k, i) ==
    /\ i \in Picks(k)
    /\ pieces' = [pieces EXCEPT ![i] = "InFlight"]
    /\ by' = [by EXCEPT ![i] = @ \cup {k}]
    /\ missing' = missing - Count(pieces[i] = "Missing")
    /\ UNCHANGED <<availability, known, bits, first_not_done, done>>

-----------------------------------------------------------------------------
\* Mutant: every completion moves the playhead by one.
CompleteCountsPlayhead(i) ==
    /\ pieces' = [pieces EXCEPT ![i] = "Done"]
    /\ by' = [by EXCEPT ![i] = {}]
    /\ missing' = missing - Count(pieces[i] = "Missing")
    /\ done' = done + Count(pieces[i] # "Done")
    /\ first_not_done' = first_not_done + 1
    /\ UNCHANGED <<availability, known, bits>>

\* Mutant: the playhead moves past the completed piece only.
CompleteOneStep(i) ==
    /\ pieces' = [pieces EXCEPT ![i] = "Done"]
    /\ by' = [by EXCEPT ![i] = {}]
    /\ missing' = missing - Count(pieces[i] = "Missing")
    /\ done' = done + Count(pieces[i] # "Done")
    /\ first_not_done' = first_not_done + Count(first_not_done = i)
    /\ UNCHANGED <<availability, known, bits>>

\* complete: the piece is verified and stored, whoever it was asked from.
Complete(i) ==
    /\ pieces' = [pieces EXCEPT ![i] = "Done"]
    /\ by' = [by EXCEPT ![i] = {}]
    /\ missing' = missing - Count(pieces[i] = "Missing")
    /\ done' = done + Count(pieces[i] # "Done")
    /\ IF pieces[i] = "Done"
       THEN UNCHANGED first_not_done
       ELSE first_not_done' \in {j \in first_not_done .. N :
                                    IsPlayhead(j, first_not_done, pieces')}
    /\ UNCHANGED <<availability, known, bits>>

\* Mutant: a second refusal of one piece is counted again.
FailedUnguarded(i, k, lacks) ==
    /\ DropRequests({i}, k)
    /\ IF lacks /\ k \in known
       THEN /\ bits' = [bits EXCEPT ![k] = @ \ {i}]
            /\ availability' = [availability EXCEPT ![i] = @ - 1]
       ELSE UNCHANGED <<bits, availability>>
    /\ UNCHANGED <<known, first_not_done, done>>

\* failed: give a request back; `lacks` when the peer said it does not have
\* the piece or sent bad data for it.
Failed(i, k, lacks) ==
    /\ DropRequests({i}, k)
    /\ IF lacks /\ k \in known /\ i \in bits[k]
       THEN /\ bits' = [bits EXCEPT ![k] = @ \ {i}]
            /\ availability' = [availability EXCEPT ![i] = @ - 1]
       ELSE UNCHANGED <<bits, availability>>
    /\ UNCHANGED <<known, first_not_done, done>>

-----------------------------------------------------------------------------
Init == \E have \in SUBSET Piece : SchedInit(have)

\* Any caller may call anything: a late worker may fail or complete a piece
\* long after the scheduler gave that piece to somebody else.
Next ==
    \E k \in Peer :
        \/ RemovePeer(k)
        \/ \E have \in SUBSET Piece : AddPeer(k, have)
        \/ \E i \in Piece :
              \/ SetPeerHas(k, i)
              \/ Pick(k, i)
              \/ Complete(i)
              \/ \E lacks \in BOOLEAN : Failed(i, k, lacks)

Spec == Init /\ [][Next]_schedVars

-----------------------------------------------------------------------------
Holders(i) == {k \in known : i \in bits[k]}

\* The three cached counters of the struct agree with what they count. The
\* subtractions of the code are unsigned, so this is also what keeps them from
\* wrapping, and pick's rules 2 and 3 read `missing` and `availability`.
CountersExact ==
    /\ missing = Cardinality(InState("Missing"))
    /\ done = Cardinality(InState("Done"))
    /\ \A i \in Piece : availability[i] = Cardinality(Holders(i))

\* first_not_done ("Every piece before this one is Done") is exactly the first
\* piece that is not Done: rules 1 and 3 of pick never look before it.
PlayheadExact ==
    /\ \A i \in Piece : i < first_not_done => pieces[i] = "Done"
    /\ first_not_done < N => pieces[first_not_done] # "Done"

\* A piece is InFlight exactly while some peer fetches it, only peers that are
\* connected and hold the piece fetch it (remove_peer, a repeated bitfield and
\* failed() leave no stale entry behind), and endgame keeps its limit.
RequestsSound ==
    \A i \in Piece :
        /\ by[i] # {} <=> pieces[i] = "InFlight"
        /\ by[i] \subseteq Holders(i)
        /\ Cardinality(by[i]) <= EndgameDuplicates

\* An idle peer is left idle only when there is nothing for it: pick finds a
\* Missing piece the peer holds whenever there is one, and in endgame, with
\* nothing Missing, a piece the peer can help with ("so one slow peer can't
\* stall the finish", scheduler.rs:7-8). And a pick is deterministic.
PickFindsWork ==
    \A k \in known :
        /\ Cardinality(Picks(k)) <= 1
        /\ Wanted(k) # {} => Picks(k) \cap Wanted(k) # {}
        /\ (/\ InState("Missing") = {}
            /\ \E i \in bits[k] : /\ pieces[i] = "InFlight"
                                  /\ k \notin by[i]
                                  /\ Cardinality(by[i]) < EndgameDuplicates)
              => Picks(k) # {}

\* The pieces rarest-first should consider for k: its first RAREST_SAMPLE
\* wanted ones in index order.
Candidates(k) ==
    {i \in Wanted(k) : Cardinality({j \in Wanted(k) : j < i}) < RarestSample}

\* Outside the urgent window a fresh pick is the rarest candidate by the true
\* number of connected holders, the lowest index among equals, although the
\* scan stops early at a piece with at most one counted holder.
PicksRarest ==
    \A k \in known : \A i \in Picks(k) :
        pieces[i] = "Missing" /\ i >= first_not_done + UrgentWindow =>
            /\ i \in Candidates(k)
            /\ \A j \in Candidates(k) :
                  \/ Cardinality(Holders(i)) < Cardinality(Holders(j))
                  \/ Cardinality(Holders(i)) = Cardinality(Holders(j)) /\ i <= j

\* A verified piece is never asked for again: no late failure, departing peer
\* or repeated bitfield takes a piece out of Done.
DoneStaysDone == [][\A i \in Piece : pieces[i] = "Done" => pieces'[i] = "Done"]_schedVars

\* A second peer is put on a piece only in endgame, when no piece at all is
\* waiting for its first request.
DuplicatesOnlyInEndgame ==
    [][\A i \in Piece :
          by[i] # {} /\ by'[i] \ by[i] # {} => InState("Missing") = {}]_schedVars
=============================================================================
