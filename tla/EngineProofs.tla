----------------------------- MODULE EngineProofs -----------------------------
(***************************************************************************)
(* Proofs about Engine.tla, for any peers, connections, workers, limits    *)
(* and any number of pieces: the engine calls the scheduler as Scheduler   *)
(* allows, implements Transfer, and keeps what both rely on.               *)
(***************************************************************************)
EXTENDS Engine, SchedulerProofs

-----------------------------------------------------------------------------
(* The inductive invariant.                                                *)

\* A worker is busy with a piece exactly while it asks for it or stores it, and
\* the store it waits for is the one of that piece. A connection that has not
\* begun to drive its peer has no workers and no stores of an earlier life.
InOrder(c, w) ==
    /\ pc[c][w] \in {"none", "top"} => on[c][w] = NoPiece
    /\ pc[c][w] \in {"asked", "storing"} => on[c][w] \in Piece
    /\ pc[c][w] \in {"top", "asked"} => store[c][w] = NoStore
    /\ pc[c][w] = "storing" => store[c][w] \in Stores /\ store[c][w].piece = on[c][w]
    /\ conn[c] \in {"dialing", "connected", "subscribing"} =>
          pc[c][w] = "none" /\ store[c][w] = NoStore

WorkersInOrder == \A c \in Conn, w \in Worker : InOrder(c, w)

\* A store that ended well has its piece in the share.
StoredIsHad ==
    \A c \in Conn, w \in Worker : store[c][w].at = "ok" => store[c][w].piece \in have

\* The loop is left for `verify` only with every piece.
AllHere == phase = "verifying" => InState("Done") = Piece

\* `connected` lists the peers of the run_peer tasks that are past their guard,
\* one task for each; the scheduler knows a peer only while such a task drives
\* it or has not yet told the scheduler that it is gone.
ConnectionsPaired ==
    Running =>
        /\ \A c, d \in Conn : InRunPeer(c) /\ InRunPeer(d) /\ PeerOf[c] = PeerOf[d] => c = d
        /\ \A k \in Peer : k \in connected <=> \E c \in Conn : PeerOf[c] = k /\ InRunPeer(c)
        /\ \A k \in known : \E c \in Conn : PeerOf[c] = k /\ conn[c] \in {"driving", "leaving"}

EngineInv ==
    /\ SchedInv
    /\ EngineTypeOK
    /\ WorkersInOrder
    /\ StoredIsHad
    /\ DoneIsStored
    /\ AllHere
    /\ ConnectionsPaired

-----------------------------------------------------------------------------
(* The engine as a caller of the scheduler.                                *)

LEMMA EngineStarts ==
  ASSUME EngineInit
  PROVE  EngineInv /\ Init
<1>1. have \in SUBSET Piece /\ SchedInit(have)
  BY DEF EngineInit
<1>2. SchedInv /\ Init
  BY <1>1, InitSchedInv DEF Init
<1>3. EngineTypeOK
  BY <1>2, EngineAssumption
  DEF EngineInit, EngineTypeOK, SchedInv, ConnState, WorkerState
<1>4. WorkersInOrder /\ StoredIsHad /\ AllHere
  BY DEF EngineInit, WorkersInOrder, InOrder, StoredIsHad, AllHere, NoStore
<1>5. DoneIsStored
  BY <1>1 DEF DoneIsStored, SchedInit, InState
<1>6. ConnectionsPaired
  BY <1>1 DEF EngineInit, SchedInit, ConnectionsPaired, InRunPeer
<1>. QED BY <1>2, <1>3, <1>4, <1>5, <1>6 DEF EngineInv

\* Every step of the engine is a legal call of the scheduler, or none.
LEMMA SchedulerCalled ==
  ASSUME EngineInv, [EngineNext]_vars
  PROVE  [Next]_schedVars
<1>. USE EngineAssumption
<1>1. ASSUME NEW c \in Conn, NEW w \in Worker, WorkerStep(c, w)
      PROVE  [Next]_schedVars
  <2>1. PeerOf[c] \in Peer
    OBVIOUS
  <2>2. pc[c][w] \in {"asked", "storing"} => on[c][w] \in Piece
    BY DEF EngineInv, WorkersInOrder, InOrder
  <2>3. CASE Ask(c, w)
    BY <2>1, <2>3 DEF Ask, Next
  <2>4. CASE \E lacks \in BOOLEAN : on[c][w] \in Piece /\ Failed(on[c][w], PeerOf[c], lacks)
    BY <2>1, <2>4 DEF Next
  <2>5. CASE Stored(c, w)
    BY <2>1, <2>2, <2>5 DEF Stored, Next
  <2>6. CASE UNCHANGED schedVars
    BY <2>6
  <2>. QED BY <1>1, <2>2, <2>3, <2>4, <2>5, <2>6
           DEF WorkerStep, WorkerStops, LateNothing, PieceArrives, DontHave, Busy,
               NotFound, RequestFails, BadData, GiveBack
<1>2. ASSUME NEW c \in Conn, ConnStep(c)
      PROVE  [Next]_schedVars
  <2>1. PeerOf[c] \in Peer /\ Claims(PeerOf[c]) \subseteq SUBSET Piece
    BY DEF Claims
  <2>2. CASE \E b \in Claims(PeerOf[c]) : AddPeer(PeerOf[c], b)
    BY <2>1, <2>2 DEF Next
  <2>3. CASE \E i \in Piece : SetPeerHas(PeerOf[c], i)
    BY <2>1, <2>3 DEF Next
  <2>4. CASE RemovePeer(PeerOf[c])
    BY <2>1, <2>4 DEF Next
  <2>5. CASE UNCHANGED schedVars
    BY <2>5
  <2>. QED BY <1>2, <2>2, <2>3, <2>4, <2>5
           DEF ConnStep, DialFails, DialSucceeds, Guard, Subscribed, SubscribeFails,
               HaveArrives, BitfieldArrives, Resize, Leave, Forget, Release
<1>3. ASSUME NEW c \in Conn, NEW w \in Worker, StoreStep(c, w)
      PROVE  UNCHANGED schedVars
  BY <1>3 DEF StoreStep, StoreBegins, StoreEnds, StoreOrphaned
<1>4. CASE LoopStep
  BY <1>4 DEF LoopStep, Check, Tick, Cancel, Verify, Discover, TakeFound
<1>5. CASE UNCHANGED vars
  BY <1>5 DEF vars
<1>. QED BY <1>1, <1>2, <1>3, <1>4, <1>5 DEF EngineNext, Terminated

-----------------------------------------------------------------------------
(* Types, and workers in order.                                            *)

\* Aborting workers leaves each of them as it is or at its end.
LEMMA AbortEffect ==
  ASSUME EngineTypeOK, NEW C \in SUBSET Conn, AbortWorkers(C)
  PROVE  /\ late' \subseteq Conn \X Worker
         /\ pc' \in [Conn -> [Worker -> WorkerState]]
         /\ on' \in [Conn -> [Worker -> Piece \cup {NoPiece}]]
         /\ \A c \in Conn, w \in Worker :
               \/ pc'[c][w] = pc[c][w] /\ on'[c][w] = on[c][w]
               \/ pc'[c][w] = "none" /\ on'[c][w] = NoPiece
<1>1. PICK L \in SUBSET {cw \in C \X Worker : LatePolls /\ InPoll(cw[1], cw[2])} :
         /\ late' = late \cup L
         /\ pc' = [c \in Conn |-> [w \in Worker |->
                     IF c \in C /\ <<c, w>> \notin L \cup late
                     THEN "none" ELSE pc[c][w]]]
         /\ on' = [c \in Conn |-> [w \in Worker |->
                     IF c \in C /\ <<c, w>> \notin L \cup late
                     THEN NoPiece ELSE on[c][w]]]
  BY DEF AbortWorkers
<1>2. L \subseteq Conn \X Worker
  BY <1>1
<1>. QED BY <1>1, <1>2 DEF EngineTypeOK, WorkerState

\* A worker goes on, or stops where it was aborted.
LEMMA GoesEffect ==
  ASSUME EngineTypeOK, NEW c \in Conn, NEW w \in Worker,
         NEW to \in WorkerState, NEW i \in Piece \cup {NoPiece}, Goes(c, w, to, i)
  PROVE  /\ late' \subseteq Conn \X Worker
         /\ pc' \in [Conn -> [Worker -> WorkerState]]
         /\ on' \in [Conn -> [Worker -> Piece \cup {NoPiece}]]
         /\ \A d \in Conn, v \in Worker :
               d # c \/ v # w => pc'[d][v] = pc[d][v] /\ on'[d][v] = on[d][v]
         /\ \/ pc'[c][w] = to /\ on'[c][w] = i
            \/ pc'[c][w] = "none" /\ on'[c][w] = NoPiece
BY DEF Goes, EngineTypeOK, WorkerState

\* One entry of a table by connection and worker changes.
LEMMA EntrySet ==
  ASSUME NEW S, NEW f \in [Conn -> [Worker -> S]],
         NEW c \in Conn, NEW w \in Worker, NEW x \in S,
         NEW g, g = [f EXCEPT ![c][w] = x]
  PROVE  /\ g \in [Conn -> [Worker -> S]]
         /\ g[c][w] = x
         /\ \A d \in Conn, v \in Worker : d # c \/ v # w => g[d][v] = f[d][v]
OBVIOUS

\* What the other steps of a worker leave alone.
OthersKept(c, w) ==
    \A d \in Conn, v \in Worker :
        d # c \/ v # w =>
            pc'[d][v] = pc[d][v] /\ on'[d][v] = on[d][v] /\ store'[d][v] = store[d][v]

\* A step of a worker changes nothing of any other worker and no connection,
\* and leaves this worker in order.
LEMMA WorkerEffect ==
  ASSUME EngineInv, NEW c \in Conn, NEW w \in Worker, WorkerStep(c, w)
  PROVE  /\ late' \subseteq Conn \X Worker
         /\ pc' \in [Conn -> [Worker -> WorkerState]]
         /\ on' \in [Conn -> [Worker -> Piece \cup {NoPiece}]]
         /\ store' \in [Conn -> [Worker -> Stores \cup {NoStore}]]
         /\ strikes' \in [Conn -> Nat]
         /\ OthersKept(c, w)
         /\ InOrder(c, w)'
         /\ store'[c][w].at = "ok" => store'[c][w] = store[c][w]
         /\ UNCHANGED <<phase, peerVars, have>>
<1>1. EngineTypeOK
  BY DEF EngineInv
<1>2. /\ store \in [Conn -> [Worker -> Stores \cup {NoStore}]]
      /\ strikes \in [Conn -> Nat]
      /\ NoStore \in Stores \cup {NoStore}
      /\ pc[c][w] \in WorkerState
      /\ store[c][w] \in Stores \cup {NoStore}
  BY <1>1 DEF EngineTypeOK
<1>3. InOrder(c, w)
  BY DEF EngineInv, WorkersInOrder
<1>4. MaxStrikes \in Nat
  BY EngineAssumption
<1>5. /\ {"none", "top", "asked", "storing"} = WorkerState
      /\ NoPiece \in Piece \cup {NoPiece}
  BY DEF WorkerState
\* Where the worker goes.
<1>. DEFINE Struck(n) == [strikes EXCEPT ![c] = n]
<1>6. /\ Struck(0) \in [Conn -> Nat]
       /\ Struck(MaxStrikes) \in [Conn -> Nat]
       /\ Struck(strikes[c] + 1) \in [Conn -> Nat]
  BY <1>2, <1>4
<1>7. ASSUME NEW to \in WorkerState, NEW i \in Piece \cup {NoPiece}, Goes(c, w, to, i)
      PROVE  /\ late' \subseteq Conn \X Worker
             /\ pc' \in [Conn -> [Worker -> WorkerState]]
             /\ on' \in [Conn -> [Worker -> Piece \cup {NoPiece}]]
             /\ \A d \in Conn, v \in Worker :
                   d # c \/ v # w => pc'[d][v] = pc[d][v] /\ on'[d][v] = on[d][v]
             /\ \/ pc'[c][w] = to /\ on'[c][w] = i
                \/ pc'[c][w] = "none" /\ on'[c][w] = NoPiece
  BY <1>1, <1>7, GoesEffect
<1>8. CASE \/ WorkerStops(c, w) \/ LateNothing(c, w)
           \/ DontHave(c, w) \/ Busy(c, w) \/ NotFound(c, w) \/ RequestFails(c, w)
  <2>1. /\ \/ Goes(c, w, "none", NoPiece)
           \/ Goes(c, w, "top", NoPiece) /\ pc[c][w] = "asked"
        /\ UNCHANGED <<store, phase, peerVars, have>>
    BY <1>8 DEF WorkerStops, LateNothing, DontHave, Busy, NotFound, RequestFails, GiveBack
  <2>2. strikes' \in [Conn -> Nat]
    <3>1. strikes' \in {strikes, Struck(MaxStrikes), Struck(strikes[c] + 1)}
      BY <1>8 DEF WorkerStops, LateNothing, DontHave, Busy, NotFound, RequestFails, Strike
    <3>. QED BY <1>2, <1>6, <3>1
  <2>3. PICK to \in {"none", "top"} :
           /\ Goes(c, w, to, NoPiece)
           /\ to = "top" => pc[c][w] = "asked"
    BY <2>1
  <2>4. to \in WorkerState
    BY <1>5
  <2>5. conn' = conn
    BY <2>1 DEF peerVars
  <2>6. /\ late' \subseteq Conn \X Worker
        /\ pc' \in [Conn -> [Worker -> WorkerState]]
        /\ on' \in [Conn -> [Worker -> Piece \cup {NoPiece}]]
        /\ \A d \in Conn, v \in Worker :
              d # c \/ v # w => pc'[d][v] = pc[d][v] /\ on'[d][v] = on[d][v]
        /\ pc'[c][w] \in {to, "none"} /\ on'[c][w] = NoPiece
    BY <1>5, <1>7, <2>3, <2>4
  <2>7. InOrder(c, w)'
    BY <1>3, <2>1, <2>3, <2>5, <2>6 DEF InOrder
  <2>. QED BY <1>2, <2>1, <2>2, <2>6, <2>7 DEF OthersKept
<1>9. CASE Ask(c, w)
  <2>1. PICK i \in Piece : Goes(c, w, "asked", i)
    BY <1>9 DEF Ask
  <2>2. UNCHANGED <<strikes, store, phase, peerVars, have>> /\ pc[c][w] = "top"
    BY <1>9 DEF Ask
  <2>3. conn' = conn
    BY <2>2 DEF peerVars
  <2>4. /\ late' \subseteq Conn \X Worker
        /\ pc' \in [Conn -> [Worker -> WorkerState]]
        /\ on' \in [Conn -> [Worker -> Piece \cup {NoPiece}]]
        /\ \A d \in Conn, v \in Worker :
              d # c \/ v # w => pc'[d][v] = pc[d][v] /\ on'[d][v] = on[d][v]
        /\ \/ pc'[c][w] = "asked" /\ on'[c][w] = i
           \/ pc'[c][w] = "none" /\ on'[c][w] = NoPiece
    BY <1>5, <1>7, <2>1
  <2>5. InOrder(c, w)'
    BY <1>3, <2>2, <2>3, <2>4 DEF InOrder
  <2>. QED BY <1>2, <2>2, <2>4, <2>5 DEF OthersKept
<1>10. CASE PieceArrives(c, w)
  <2>1. PICK good \in BOOLEAN :
           store' = [store EXCEPT ![c][w] =
                        [at |-> "begun", piece |-> on[c][w], good |-> good]]
    BY <1>10 DEF PieceArrives
  <2>2. /\ Goes(c, w, "storing", on[c][w]) /\ pc[c][w] = "asked"
        /\ UNCHANGED <<strikes, phase, peerVars, have>>
    BY <1>10 DEF PieceArrives
  <2>3. on[c][w] \in Piece
    BY <1>3, <2>2 DEF InOrder
  <2>4. conn' = conn
    BY <2>2 DEF peerVars
  <2>. DEFINE s == [at |-> "begun", piece |-> on[c][w], good |-> good]
  <2>5. s \in Stores /\ s.piece = on[c][w] /\ s.at # "ok"
    BY <2>3 DEF Stores
  <2>6. /\ store' \in [Conn -> [Worker -> Stores \cup {NoStore}]]
        /\ store'[c][w] = s
        /\ \A d \in Conn, v \in Worker : d # c \/ v # w => store'[d][v] = store[d][v]
    <3>. HIDE DEF s
    <3>. QED BY <1>2, <2>1, <2>5, EntrySet DEF s
  <2>7. /\ late' \subseteq Conn \X Worker
        /\ pc' \in [Conn -> [Worker -> WorkerState]]
        /\ on' \in [Conn -> [Worker -> Piece \cup {NoPiece}]]
        /\ \A d \in Conn, v \in Worker :
              d # c \/ v # w => pc'[d][v] = pc[d][v] /\ on'[d][v] = on[d][v]
        /\ \/ pc'[c][w] = "storing" /\ on'[c][w] = on[c][w]
           \/ pc'[c][w] = "none" /\ on'[c][w] = NoPiece
    BY <1>5, <1>7, <2>2, <2>3
  <2>8. InOrder(c, w)'
    <3>. HIDE DEF s
    <3>. QED BY <1>3, <2>2, <2>3, <2>4, <2>5, <2>6, <2>7 DEF InOrder
  <2>9. store'[c][w].at # "ok"
    BY <2>5, <2>6
  <2>. QED BY <1>2, <2>2, <2>6, <2>7, <2>8, <2>9 DEF OthersKept
<1>11. CASE Stored(c, w) \/ BadData(c, w)
  <2>1. /\ Goes(c, w, "top", NoPiece) /\ pc[c][w] = "storing"
        /\ store' = [store EXCEPT ![c][w] = NoStore]
        /\ UNCHANGED <<phase, peerVars, have>>
    BY <1>11 DEF Stored, BadData, GiveBack
  <2>2. strikes' \in [Conn -> Nat]
    <3>1. strikes' \in {Struck(0), Struck(strikes[c] + 1)}
      BY <1>11 DEF Stored, BadData, Strike
    <3>. QED BY <1>6, <3>1
  <2>3. conn' = conn
    BY <2>1 DEF peerVars
  <2>4. /\ store' \in [Conn -> [Worker -> Stores \cup {NoStore}]]
        /\ store'[c][w] = NoStore
        /\ \A d \in Conn, v \in Worker : d # c \/ v # w => store'[d][v] = store[d][v]
    BY <1>2, <2>1, EntrySet
  <2>5. /\ late' \subseteq Conn \X Worker
        /\ pc' \in [Conn -> [Worker -> WorkerState]]
        /\ on' \in [Conn -> [Worker -> Piece \cup {NoPiece}]]
        /\ \A d \in Conn, v \in Worker :
              d # c \/ v # w => pc'[d][v] = pc[d][v] /\ on'[d][v] = on[d][v]
        /\ pc'[c][w] \in {"top", "none"} /\ on'[c][w] = NoPiece
    BY <1>5, <1>7, <2>1
  <2>6. InOrder(c, w)'
    BY <1>3, <2>1, <2>3, <2>4, <2>5 DEF InOrder
  <2>7. store'[c][w].at # "ok"
    BY <2>4 DEF NoStore
  <2>. QED BY <1>2, <2>1, <2>2, <2>4, <2>5, <2>6, <2>7 DEF OthersKept
<1>. QED BY <1>8, <1>9, <1>10, <1>11 DEF WorkerStep

\* A store call that runs on changes nothing but itself and the share.
LEMMA StoreEffect ==
  ASSUME EngineInv, NEW c \in Conn, NEW w \in Worker, StoreStep(c, w)
  PROVE  /\ store' \in [Conn -> [Worker -> Stores \cup {NoStore}]]
         /\ have' \subseteq Piece /\ have \subseteq have'
         /\ OthersKept(c, w)
         /\ InOrder(c, w)'
         /\ store'[c][w].at = "ok" => store'[c][w].piece \in have'
         /\ \/ have' = have
            \/ \E i \in Piece : i \notin have /\ have' = have \cup {i}
         /\ UNCHANGED <<schedVars, phase, peerVars, strikes, pc, on, late>>
<1>1. /\ store \in [Conn -> [Worker -> Stores \cup {NoStore}]]
      /\ have \subseteq Piece
      /\ store[c][w] \in Stores \cup {NoStore}
      /\ pc[c][w] \in WorkerState
  BY DEF EngineInv, EngineTypeOK
<1>2. InOrder(c, w)
  BY DEF EngineInv, WorkersInOrder
<1>3. store[c][w].at = "ok" => store[c][w].piece \in have
  BY DEF EngineInv, StoredIsHad
<1>4. UNCHANGED <<schedVars, phase, peerVars, strikes, pc, on, late>>
  BY DEF StoreStep, StoreBegins, StoreEnds, StoreOrphaned
<1>5. conn' = conn /\ pc' = pc /\ on' = on
  BY <1>4 DEF peerVars
<1>6. NoStore.at = "none" /\ NoStore \in Stores \cup {NoStore}
  BY DEF NoStore
<1>. DEFINE At(a) == [store[c][w] EXCEPT !.at = a]
<1>7. CASE StoreOrphaned(c, w)
  <2>1. /\ store[c][w].at \in {"ok", "bad"} /\ pc[c][w] # "storing"
        /\ store' = [store EXCEPT ![c][w] = NoStore]
        /\ have' = have
    BY <1>7 DEF StoreOrphaned
  <2>2. /\ store' \in [Conn -> [Worker -> Stores \cup {NoStore}]]
        /\ store'[c][w] = NoStore
        /\ \A d \in Conn, v \in Worker : d # c \/ v # w => store'[d][v] = store[d][v]
    BY <1>1, <1>6, <2>1, EntrySet
  <2>3. InOrder(c, w)'
    BY <1>2, <1>5, <2>1, <2>2 DEF InOrder
  <2>. QED BY <1>1, <1>4, <1>5, <1>6, <2>1, <2>2, <2>3 DEF OthersKept
<1>8. CASE StoreBegins(c, w) \/ StoreEnds(c, w)
  <2>1. store[c][w].at \in {"begun", "writing"}
    BY <1>8 DEF StoreBegins, StoreEnds
  <2>2. store[c][w] \in Stores
    BY <1>1, <1>6, <2>1
  <2>3. PICK a \in {"writing", "ok", "bad"} : store' = [store EXCEPT ![c][w].at = a]
    BY <1>8 DEF StoreBegins, StoreEnds
  <2>4. store' = [store EXCEPT ![c][w] = At(a)]
    BY <2>3
  <2>5. At(a) \in Stores /\ At(a).at = a /\ At(a).piece = store[c][w].piece
    BY <2>2 DEF Stores
  <2>6. /\ store' \in [Conn -> [Worker -> Stores \cup {NoStore}]]
        /\ store'[c][w] = At(a)
        /\ \A d \in Conn, v \in Worker : d # c \/ v # w => store'[d][v] = store[d][v]
    <3>. HIDE DEF At
    <3>. QED BY <1>1, <2>4, <2>5, EntrySet
  <2>7. store'[c][w].at = a /\ store'[c][w].piece = store[c][w].piece
    BY <2>5, <2>6
  <2>8. /\ have' = have \/ have' = have \cup {store[c][w].piece}
        /\ a = "ok" => store[c][w].piece \in have'
    <3>1. CASE StoreBegins(c, w)
      <4>1. /\ store' = [store EXCEPT ![c][w].at =
                           IF store[c][w].piece \in have THEN "ok" ELSE "writing"]
            /\ have' = have
        BY <3>1 DEF StoreBegins
      <4>2. store'[c][w].at = IF store[c][w].piece \in have THEN "ok" ELSE "writing"
        BY <1>1, <4>1, <2>2 DEF Stores
      <4>. QED BY <2>7, <4>1, <4>2
    <3>2. CASE StoreEnds(c, w)
      <4>1. CASE store[c][w].good
        BY <3>2, <4>1 DEF StoreEnds
      <4>2. CASE ~store[c][w].good
        <5>1. have' = have /\ store' = [store EXCEPT ![c][w].at = "bad"]
          BY <3>2, <4>2 DEF StoreEnds
        <5>2. store'[c][w].at = "bad"
          BY <1>1, <2>2, <5>1 DEF Stores
        <5>. QED BY <2>7, <5>1, <5>2
      <4>. QED BY <4>1, <4>2
    <3>. QED BY <1>8, <3>1, <3>2
  <2>9. store[c][w].piece \in Piece
    BY <2>2 DEF Stores
  <2>10. InOrder(c, w)'
    <3>. HIDE DEF At
    <3>1. pc[c][w] \notin {"top", "asked"}
      BY <1>2, <1>6, <2>1 DEF InOrder
    <3>2. conn[c] \notin {"dialing", "connected", "subscribing"}
      BY <1>2, <1>6, <2>1 DEF InOrder
    <3>. QED BY <1>2, <1>5, <2>5, <2>6, <2>7, <3>1, <3>2 DEF InOrder
  <2>11. \/ have' = have
         \/ \E i \in Piece : i \notin have /\ have' = have \cup {i}
    BY <2>8, <2>9
  <2>. QED BY <1>1, <1>4, <1>5, <2>6, <2>7, <2>8, <2>9, <2>10, <2>11 DEF OthersKept
<1>. QED BY <1>7, <1>8 DEF StoreStep

\* A step of a connection leaves the share alone and every worker in order.
LEMMA ConnEffect ==
  ASSUME EngineInv, NEW c \in Conn, ConnStep(c)
  PROVE  /\ connected' \subseteq Peer
         /\ conn' \in [Conn -> ConnState]
         /\ late' \subseteq Conn \X Worker
         /\ pc' \in [Conn -> [Worker -> WorkerState]]
         /\ on' \in [Conn -> [Worker -> Piece \cup {NoPiece}]]
         /\ strikes' \in [Conn -> Nat]
         /\ WorkersInOrder'
         /\ UNCHANGED <<phase, found, tried, store, have>>
<1>1. EngineTypeOK
  BY DEF EngineInv
<1>2. /\ connected \subseteq Peer
      /\ conn \in [Conn -> ConnState]
      /\ late \subseteq Conn \X Worker
      /\ pc \in [Conn -> [Worker -> WorkerState]]
      /\ on \in [Conn -> [Worker -> Piece \cup {NoPiece}]]
      /\ strikes \in [Conn -> Nat]
  BY <1>1 DEF EngineTypeOK
<1>3. \A d \in Conn, w \in Worker : InOrder(d, w)
  BY DEF EngineInv, WorkersInOrder
<1>4. PeerOf[c] \in Peer
  BY EngineAssumption
<1>5. UNCHANGED <<phase, found, tried, store, have>>
  BY DEF ConnStep, DialFails, DialSucceeds, Guard, Subscribed, SubscribeFails,
         HaveArrives, BitfieldArrives, Resize, Leave, Forget, Release, peerVars, workVars
<1>. DEFINE To(s) == [conn EXCEPT ![c] = s]
<1>6. \A s \in ConnState : /\ To(s) \in [Conn -> ConnState]
                           /\ To(s)[c] = s
                           /\ \A d \in Conn : d # c => To(s)[d] = conn[d]
  BY <1>2
<1>7. CASE UNCHANGED <<strikes, pc, on, late>>
  <2>1. /\ connected' \subseteq Peer
        /\ \/ conn' = conn
           \/ \E s \in {"unused", "leaving", "forgotten"} : conn' = To(s)
           \/ conn[c] \in {"dialing", "connected"} /\ \E s \in ConnState : conn' = To(s)
           \/ conn[c] = "subscribing" /\ conn' = To("driving")
    BY <1>2, <1>4
    DEF ConnStep, DialFails, DialSucceeds, Guard, Subscribed, SubscribeFails, HaveArrives,
        BitfieldArrives, Resize, Leave, Forget, Release, peerVars, workVars, ConnState
  <2>2. /\ {"unused", "leaving", "forgotten", "driving"} \subseteq ConnState
    BY DEF ConnState
  <2>3. conn' \in [Conn -> ConnState]
    <3>. HIDE DEF To
    <3>. QED BY <1>2, <1>6, <2>1, <2>2, ZenonT(30)
  <2>4. ASSUME NEW d \in Conn, NEW w \in Worker
        PROVE  InOrder(d, w)'
    <3>1. conn'[d] \in {"dialing", "connected", "subscribing"} =>
             conn[d] \in {"dialing", "connected", "subscribing"}
      <4>. HIDE DEF To
      <4>. QED BY <1>6, <2>1, <2>2
    <3>2. InOrder(d, w)
      BY <1>3
    <3>. QED BY <1>5, <1>7, <3>1, <3>2 DEF InOrder
  <2>. QED BY <1>2, <1>5, <1>7, <2>1, <2>3, <2>4 DEF WorkersInOrder
<1>8. CASE Subscribed(c)
  <2>1. PICK W \in SUBSET Worker :
           pc' = [pc EXCEPT ![c] = [w \in Worker |-> IF w \in W THEN "top" ELSE "none"]]
    BY <1>8 DEF Subscribed
  <2>2. /\ conn[c] = "subscribing" /\ conn' = To("driving")
        /\ strikes' = [strikes EXCEPT ![c] = 0]
        /\ UNCHANGED <<connected, on, late>>
    BY <1>8 DEF Subscribed
  <2>3. /\ pc' \in [Conn -> [Worker -> WorkerState]]
        /\ \A d \in Conn, w \in Worker :
              /\ d # c => pc'[d][w] = pc[d][w]
              /\ d = c => pc'[d][w] \in {"top", "none"}
    BY <1>2, <2>1 DEF WorkerState
  <2>4. strikes' \in [Conn -> Nat]
    BY <1>2, <2>2
  <2>5. "driving" \in ConnState
    BY DEF ConnState
  <2>6. /\ conn' \in [Conn -> ConnState]
        /\ conn'[c] = "driving"
        /\ \A d \in Conn : d # c => conn'[d] = conn[d]
    <3>. HIDE DEF To
    <3>. QED BY <1>6, <2>2, <2>5
  <2>7. ASSUME NEW d \in Conn, NEW w \in Worker
        PROVE  InOrder(d, w)'
    BY <1>3, <1>5, <2>2, <2>3, <2>6 DEF InOrder
  <2>. QED BY <1>2, <1>5, <2>2, <2>3, <2>4, <2>6, <2>7 DEF WorkersInOrder
<1>9. CASE Resize(c)
  <2>1. PICK w \in Worker : /\ pc[c][w] = "none" /\ store[c][w] = NoStore
                            /\ pc' = [pc EXCEPT ![c][w] = "top"]
    BY <1>9 DEF Resize
  <2>2. conn[c] = "driving" /\ UNCHANGED <<connected, conn, strikes, on, late>>
    BY <1>9 DEF Resize, peerVars
  <2>3. "top" \in WorkerState
    BY DEF WorkerState
  <2>4. /\ pc' \in [Conn -> [Worker -> WorkerState]]
        /\ pc'[c][w] = "top"
        /\ \A d \in Conn, v \in Worker : d # c \/ v # w => pc'[d][v] = pc[d][v]
    BY <1>2, <2>1, <2>3, EntrySet
  <2>5. ASSUME NEW d \in Conn, NEW v \in Worker
        PROVE  InOrder(d, v)'
    BY <1>3, <1>5, <2>1, <2>2, <2>4 DEF InOrder
  <2>. QED BY <1>2, <1>5, <2>2, <2>4, <2>5 DEF WorkersInOrder
<1>10. CASE Leave(c)
  <2>1. /\ AbortWorkers({c}) /\ conn' = To("leaving")
        /\ UNCHANGED <<connected, strikes>>
    BY <1>10 DEF Leave
  <2>2. /\ late' \subseteq Conn \X Worker
        /\ pc' \in [Conn -> [Worker -> WorkerState]]
        /\ on' \in [Conn -> [Worker -> Piece \cup {NoPiece}]]
        /\ \A d \in Conn, w \in Worker :
              \/ pc'[d][w] = pc[d][w] /\ on'[d][w] = on[d][w]
              \/ pc'[d][w] = "none" /\ on'[d][w] = NoPiece
    BY <1>1, <2>1, AbortEffect
  <2>3. "leaving" \in ConnState
    BY DEF ConnState
  <2>4. /\ conn' \in [Conn -> ConnState]
        /\ conn'[c] = "leaving"
        /\ \A d \in Conn : d # c => conn'[d] = conn[d]
    <3>. HIDE DEF To
    <3>. QED BY <1>6, <2>1, <2>3
  <2>5. ASSUME NEW d \in Conn, NEW w \in Worker
        PROVE  InOrder(d, w)'
    <3>1. InOrder(d, w) /\ store'[d][w] = store[d][w]
      BY <1>3, <1>5
    <3>2. conn'[d] \in {"dialing", "connected", "subscribing"} => conn[d] = conn'[d]
      BY <2>4
    <3>3. CASE pc'[d][w] = pc[d][w] /\ on'[d][w] = on[d][w]
      BY <3>1, <3>2, <3>3 DEF InOrder
    <3>4. CASE pc'[d][w] = "none" /\ on'[d][w] = NoPiece
      BY <3>1, <3>2, <3>4 DEF InOrder
    <3>. QED BY <2>2, <3>3, <3>4
  <2>. QED BY <1>2, <1>5, <2>1, <2>2, <2>4, <2>5 DEF WorkersInOrder
<1>11. \/ UNCHANGED <<strikes, pc, on, late>>
       \/ Subscribed(c) \/ Resize(c) \/ Leave(c)
  BY DEF ConnStep, DialFails, DialSucceeds, Guard, SubscribeFails,
         HaveArrives, BitfieldArrives, Forget, Release, workVars
<1>. QED BY <1>7, <1>8, <1>9, <1>10, <1>11

\* A step of the main loop leaves the share and the stores alone.
LEMMA LoopEffect ==
  ASSUME EngineInv, LoopStep
  PROVE  /\ phase' \in {"checking", "selecting", "verifying", "completed", "cancelled", "failed"}
         /\ found' \subseteq Peer
         /\ tried' \subseteq Peer
         /\ conn' \in [Conn -> ConnState]
         /\ late' \subseteq Conn \X Worker
         /\ pc' \in [Conn -> [Worker -> WorkerState]]
         /\ on' \in [Conn -> [Worker -> Piece \cup {NoPiece}]]
         /\ WorkersInOrder'
         /\ UNCHANGED <<schedVars, connected, strikes, store, have>>
<1>1. EngineTypeOK
  BY DEF EngineInv
<1>2. /\ phase \in {"checking", "selecting", "verifying", "completed", "cancelled", "failed"}
      /\ found \subseteq Peer /\ tried \subseteq Peer
      /\ conn \in [Conn -> ConnState]
      /\ late \subseteq Conn \X Worker
      /\ pc \in [Conn -> [Worker -> WorkerState]]
      /\ on \in [Conn -> [Worker -> Piece \cup {NoPiece}]]
  BY <1>1 DEF EngineTypeOK
<1>3. \A d \in Conn, w \in Worker : InOrder(d, w)
  BY DEF EngineInv, WorkersInOrder
<1>4. UNCHANGED <<schedVars, connected, strikes, store, have>>
  BY DEF LoopStep, Check, Tick, Cancel, Verify, Discover, TakeFound, peerVars, workVars
<1>5. /\ phase' \in {"checking", "selecting", "verifying", "completed", "cancelled", "failed"}
      /\ found' \subseteq Peer /\ tried' \subseteq Peer
  BY <1>2 DEF LoopStep, Check, Tick, Cancel, Verify, Discover, TakeFound, peerVars
<1>6. CASE AbortWorkers(Conn) /\ conn' = [c \in Conn |-> "unused"]
  <2>1. /\ late' \subseteq Conn \X Worker
        /\ pc' \in [Conn -> [Worker -> WorkerState]]
        /\ on' \in [Conn -> [Worker -> Piece \cup {NoPiece}]]
        /\ \A d \in Conn, w \in Worker :
              \/ pc'[d][w] = pc[d][w] /\ on'[d][w] = on[d][w]
              \/ pc'[d][w] = "none" /\ on'[d][w] = NoPiece
    BY <1>1, <1>6, AbortEffect
  <2>2. conn' \in [Conn -> ConnState] /\ \A d \in Conn : conn'[d] = "unused"
    BY <1>6 DEF ConnState
  <2>3. ASSUME NEW d \in Conn, NEW w \in Worker
        PROVE  InOrder(d, w)'
    BY <1>3, <1>4, <2>1, <2>2 DEF InOrder
  <2>. QED BY <1>4, <1>5, <2>1, <2>2, <2>3 DEF WorkersInOrder
<1>7. CASE /\ UNCHANGED <<pc, on, late>>
           /\ \/ conn' = conn
              \/ \E c \in Conn : Free(c) /\ conn' = [conn EXCEPT ![c] = "dialing"]
  <2>1. /\ conn' \in [Conn -> ConnState]
        /\ \A d \in Conn : \/ conn'[d] = conn[d]
                           \/ \A w \in Worker : pc[d][w] = "none" /\ store[d][w] = NoStore
    BY <1>2, <1>7 DEF Free, ConnState
  <2>2. ASSUME NEW d \in Conn, NEW w \in Worker
        PROVE  InOrder(d, w)'
    BY <1>3, <1>4, <1>7, <2>1 DEF InOrder
  <2>. QED BY <1>2, <1>4, <1>5, <1>7, <2>1, <2>2 DEF WorkersInOrder
<1>8. \/ AbortWorkers(Conn) /\ conn' = [c \in Conn |-> "unused"]
      \/ /\ UNCHANGED <<pc, on, late>>
         /\ \/ conn' = conn
            \/ \E c \in Conn : Free(c) /\ conn' = [conn EXCEPT ![c] = "dialing"]
  BY DEF LoopStep, Check, Tick, Cancel, Verify, Discover, TakeFound, peerVars, workVars
<1>. QED BY <1>6, <1>7, <1>8

LEMMA TypeKept ==
  ASSUME EngineInv, [EngineNext]_vars, SchedTypeOK'
  PROVE  EngineTypeOK' /\ WorkersInOrder'
<1>1. EngineTypeOK /\ WorkersInOrder
  BY DEF EngineInv
<1>2. ASSUME NEW c \in Conn, NEW w \in Worker, OthersKept(c, w), InOrder(c, w)', conn' = conn
      PROVE  WorkersInOrder'
  BY <1>1, <1>2 DEF OthersKept, WorkersInOrder, InOrder
<1>3. CASE LoopStep
  BY <1>1, <1>3, LoopEffect DEF EngineTypeOK
<1>4. ASSUME NEW c \in Conn, ConnStep(c)
      PROVE  EngineTypeOK' /\ WorkersInOrder'
  BY <1>1, <1>4, ConnEffect DEF EngineTypeOK
<1>5. ASSUME NEW c \in Conn, NEW w \in Worker, WorkerStep(c, w)
      PROVE  EngineTypeOK' /\ WorkersInOrder'
  BY <1>1, <1>2, <1>5, WorkerEffect DEF EngineTypeOK, peerVars
<1>6. ASSUME NEW c \in Conn, NEW w \in Worker, StoreStep(c, w)
      PROVE  EngineTypeOK' /\ WorkersInOrder'
  BY <1>1, <1>2, <1>6, StoreEffect DEF EngineTypeOK, peerVars
<1>7. CASE UNCHANGED vars
  BY <1>1, <1>7
  DEF vars, peerVars, workVars, EngineTypeOK, WorkersInOrder, InOrder
<1>. QED BY <1>3, <1>4, <1>5, <1>6, <1>7 DEF EngineNext, Terminated

-----------------------------------------------------------------------------
(* What is Done, and what is in the share.                                 *)

\* Only `complete` makes a piece Done, and nothing makes it anything else.
LEMMA DoneKept ==
  ASSUME SchedInv, NEW k \in Peer,
         \/ RemovePeer(k)
         \/ \E b \in SUBSET Piece : AddPeer(k, b)
         \/ \E i \in Piece : \/ SetPeerHas(k, i) \/ Pick(k, i)
                             \/ \E lacks \in BOOLEAN : Failed(i, k, lacks)
         \/ UNCHANGED schedVars
  PROVE  InState("Done")' = InState("Done")
<1>1. SchedTypeOK
  BY DEF SchedInv
<1>2. CASE pieces' = pieces
  BY <1>2 DEF InState
<1>3. CASE \E S \in SUBSET Piece : DropRequests(S, k)
  BY <1>3, DropRequestsEffect
<1>4. ASSUME NEW i \in Piece, Pick(k, i)
      PROVE  InState("Done")' = InState("Done")
  <2>1. pieces[i] # "Done"
    BY <1>4, PicksSound DEF Pick
  <2>2. pieces' = [pieces EXCEPT ![i] = "InFlight"]
    BY <1>4 DEF Pick
  <2>. QED BY <1>1, <2>1, <2>2 DEF InState, SchedTypeOK
<1>5. \A i \in Piece : {i} \in SUBSET Piece
  OBVIOUS
<1>. QED BY <1>2, <1>3, <1>4, <1>5
         DEF RemovePeer, AddPeer, SetPeerHas, Failed, schedVars

LEMMA DoneGrows ==
  ASSUME SchedInv, NEW i \in Piece, Complete(i)
  PROVE  InState("Done")' = InState("Done") \cup {i}
BY DEF Complete, SchedInv, SchedTypeOK, InState

\* A piece becomes Done only when a worker learns that it is stored.
LEMMA DoneEffect ==
  ASSUME EngineInv, [EngineNext]_vars
  PROVE  \/ InState("Done")' = InState("Done")
         \/ \E c \in Conn, w \in Worker :
               /\ Stored(c, w) /\ on[c][w] \in have
               /\ InState("Done")' = InState("Done") \cup {on[c][w]}
<1>. USE EngineAssumption
<1>1. SchedInv
  BY DEF EngineInv
<1>2. ASSUME NEW c \in Conn, NEW w \in Worker, WorkerStep(c, w), ~Stored(c, w)
      PROVE  InState("Done")' = InState("Done")
  <2>1. PeerOf[c] \in Peer
    OBVIOUS
  <2>2. pc[c][w] \in {"asked", "storing"} => on[c][w] \in Piece
    BY DEF EngineInv, WorkersInOrder, InOrder
  <2>3. CASE Ask(c, w)
    BY <1>1, <2>1, <2>3, DoneKept DEF Ask
  <2>4. CASE \E lacks \in BOOLEAN : on[c][w] \in Piece /\ Failed(on[c][w], PeerOf[c], lacks)
    BY <1>1, <2>1, <2>4, DoneKept
  <2>5. CASE UNCHANGED schedVars
    BY <1>1, <2>1, <2>5, DoneKept
  <2>. QED BY <1>2, <2>2, <2>3, <2>4, <2>5
           DEF WorkerStep, WorkerStops, LateNothing, PieceArrives, DontHave, Busy,
               NotFound, RequestFails, BadData, GiveBack
<1>3. ASSUME NEW c \in Conn, NEW w \in Worker, Stored(c, w)
      PROVE  /\ on[c][w] \in have
             /\ InState("Done")' = InState("Done") \cup {on[c][w]}
  <2>1. /\ pc[c][w] = "storing" /\ store[c][w].at = "ok"
        /\ Complete(on[c][w])
    BY <1>3 DEF Stored
  <2>2. on[c][w] \in Piece /\ store[c][w].piece = on[c][w]
    BY <2>1 DEF EngineInv, WorkersInOrder, InOrder
  <2>3. on[c][w] \in have
    BY <2>1, <2>2 DEF EngineInv, StoredIsHad
  <2>. QED BY <1>1, <2>1, <2>2, <2>3, DoneGrows
<1>4. ASSUME NEW c \in Conn, ConnStep(c)
      PROVE  InState("Done")' = InState("Done")
  <2>1. PeerOf[c] \in Peer /\ Claims(PeerOf[c]) \subseteq SUBSET Piece
    BY DEF Claims
  <2>2. CASE \E b \in Claims(PeerOf[c]) : AddPeer(PeerOf[c], b)
    BY <1>1, <2>1, <2>2, DoneKept
  <2>3. CASE \E i \in Piece : SetPeerHas(PeerOf[c], i)
    BY <1>1, <2>1, <2>3, DoneKept
  <2>4. CASE RemovePeer(PeerOf[c])
    BY <1>1, <2>1, <2>4, DoneKept
  <2>5. CASE UNCHANGED schedVars
    BY <1>1, <2>1, <2>5, DoneKept
  <2>. QED BY <1>4, <2>2, <2>3, <2>4, <2>5
           DEF ConnStep, DialFails, DialSucceeds, Guard, Subscribed, SubscribeFails,
               HaveArrives, BitfieldArrives, Resize, Leave, Forget, Release
<1>5. ASSUME UNCHANGED schedVars
      PROVE  InState("Done")' = InState("Done")
  BY <1>5 DEF schedVars, InState
<1>6. CASE UNCHANGED vars
  BY <1>5, <1>6 DEF vars
<1>. QED BY <1>2, <1>3, <1>4, <1>5, <1>6, LoopEffect, StoreEffect
         DEF EngineNext, Terminated

LEMMA SharesKept ==
  ASSUME EngineInv, [EngineNext]_vars
  PROVE  StoredIsHad' /\ DoneIsStored' /\ have \subseteq have'
<1>1. StoredIsHad /\ DoneIsStored
  BY DEF EngineInv
<1>2. ASSUME NEW c \in Conn, NEW w \in Worker, OthersKept(c, w), have \subseteq have',
             store'[c][w].at = "ok" => store'[c][w].piece \in have'
      PROVE  StoredIsHad'
  BY <1>1, <1>2 DEF OthersKept, StoredIsHad
<1>3. StoredIsHad' /\ have \subseteq have'
  <2>1. CASE LoopStep \/ \E c \in Conn : ConnStep(c)
    <3>1. UNCHANGED <<store, have>>
      BY <2>1, LoopEffect, ConnEffect
    <3>. QED BY <1>1, <3>1 DEF StoredIsHad
  <2>2. ASSUME NEW c \in Conn, NEW w \in Worker, WorkerStep(c, w)
        PROVE  StoredIsHad' /\ have \subseteq have'
    <3>1. /\ OthersKept(c, w) /\ have' = have
          /\ store'[c][w].at = "ok" => store'[c][w] = store[c][w]
      BY <2>2, WorkerEffect
    <3>. QED BY <1>1, <1>2, <3>1 DEF StoredIsHad
  <2>3. ASSUME NEW c \in Conn, NEW w \in Worker, StoreStep(c, w)
        PROVE  StoredIsHad' /\ have \subseteq have'
    BY <1>2, <2>3, StoreEffect
  <2>4. CASE UNCHANGED vars
    BY <1>1, <2>4 DEF vars, workVars, StoredIsHad
  <2>. QED BY <2>1, <2>2, <2>3, <2>4 DEF EngineNext, Terminated
<1>. QED BY <1>1, <1>3, DoneEffect DEF DoneIsStored

LEMMA AllHereKept ==
  ASSUME EngineInv, [EngineNext]_vars, SchedInv'
  PROVE  AllHere'
<1>1. SchedInv /\ AllHere
  BY DEF EngineInv
<1>2. InState("Done") \subseteq InState("Done")'
  BY DoneEffect
<1>3. InState("Done")' \subseteq Piece
  BY DEF InState
<1>4. CASE phase = "verifying"
  BY <1>1, <1>2, <1>3, <1>4 DEF AllHere
<1>5. CASE phase # "verifying" /\ phase' = "verifying"
  <2>1. Check /\ is_done
    <3>1. ~ UNCHANGED phase
      BY <1>5
    <3>2. ~ UNCHANGED vars
      BY <3>1 DEF vars
    <3>3. LoopStep
      BY <3>1, <3>2, ConnEffect, WorkerEffect, StoreEffect DEF EngineNext, Terminated
    <3>. QED BY <1>5, <3>3 DEF LoopStep, Check, Tick, Cancel, Verify, Discover, TakeFound
  <2>2. Cardinality(InState("Done")) = N
    BY <1>1, <2>1 DEF SchedInv, CountersExact, is_done
  <2>3. InState("Done") \subseteq Piece
    BY DEF InState
  <2>4. InState("Done") = Piece
    <3>1. IsFiniteSet(Piece) /\ Cardinality(Piece) = N
      BY FinitePieces
    <3>2. IsFiniteSet(InState("Done"))
      BY FinitePieces, <2>3
    <3>. QED BY <2>2, <2>3, <3>1, <3>2, FS_Subset
  <2>. QED BY <1>2, <1>3, <2>4 DEF AllHere
<1>. QED BY <1>4, <1>5 DEF AllHere

-----------------------------------------------------------------------------
(* One connection per peer.                                                *)

\* The steps that keep every run_peer task on its side of the guard.
LEMMA PairingKept ==
  ASSUME ConnectionsPaired, Running, connected' = connected, known' \subseteq known,
         \A d \in Conn : InRunPeer(d)' <=> InRunPeer(d),
         \A d \in Conn : conn[d] \in {"driving", "leaving"} /\ PeerOf[d] \in known' =>
                            conn'[d] \in {"driving", "leaving"}
  PROVE  ConnectionsPaired'
BY DEF ConnectionsPaired

LEMMA WorkersKeepKnown ==
  ASSUME NEW c \in Conn, NEW w \in Worker, WorkerStep(c, w)
  PROVE  known' = known
BY DEF WorkerStep, WorkerStops, LateNothing, PieceArrives, DontHave, Busy, NotFound,
       RequestFails, Stored, BadData, GiveBack, Ask, Pick, Complete, Failed, schedVars

LEMMA ConnStepPaired ==
  ASSUME EngineInv, Running, NEW c \in Conn, ConnStep(c)
  PROVE  ConnectionsPaired'
<1>1. ConnectionsPaired
  BY DEF EngineInv
<1>2. conn \in [Conn -> ConnState] /\ known \in SUBSET Peer
  BY DEF EngineInv, EngineTypeOK, SchedTypeOK
<1>. DEFINE k == PeerOf[c]
<1>3. k \in Peer
  BY EngineAssumption
<1>4. /\ \A d, e \in Conn : InRunPeer(d) /\ InRunPeer(e) /\ PeerOf[d] = PeerOf[e] => d = e
      /\ \A q \in Peer : q \in connected <=> \E d \in Conn : PeerOf[d] = q /\ InRunPeer(d)
      /\ \A q \in known : \E d \in Conn : PeerOf[d] = q /\ conn[d] \in {"driving", "leaving"}
  BY <1>1 DEF ConnectionsPaired
<1>5. ASSUME NEW s, conn' = [conn EXCEPT ![c] = s]
      PROVE  conn'[c] = s /\ \A d \in Conn : d # c => conn'[d] = conn[d]
  BY <1>2, <1>5
<1>6. CASE DialFails(c) \/ DialSucceeds(c) \/ (Guard(c) /\ k \in connected) \/ SubscribeFails(c)
  <2>1. PICK s \in {"unused", "connected", "leaving"} : conn' = [conn EXCEPT ![c] = s]
    BY <1>6 DEF DialFails, DialSucceeds, Guard, SubscribeFails
  <2>2. /\ known' = known /\ connected' = connected
        /\ conn[c] \in {"dialing", "connected", "subscribing"}
        /\ conn[c] = "subscribing" <=> s = "leaving"
    BY <1>2, <1>6, <2>1, <1>5 DEF DialFails, DialSucceeds, Guard, SubscribeFails, schedVars
  <2>3. \A d \in Conn : InRunPeer(d)' <=> InRunPeer(d)
    BY <1>5, <2>1, <2>2 DEF InRunPeer
  <2>4. \A d \in Conn : conn[d] \in {"driving", "leaving"} => conn'[d] = conn[d]
    BY <1>5, <2>1, <2>2
  <2>. QED BY <1>1, <2>2, <2>3, <2>4, PairingKept
<1>7. CASE Guard(c) /\ k \notin connected
  <2>1. /\ conn[c] = "connected"
        /\ conn' = [conn EXCEPT ![c] = "subscribing"]
        /\ connected' = connected \cup {k} /\ known' = known
    BY <1>7 DEF Guard, schedVars
  <2>2. /\ InRunPeer(c)' /\ ~InRunPeer(c)
        /\ \A d \in Conn : d # c => (InRunPeer(d)' <=> InRunPeer(d))
    BY <1>5, <2>1 DEF InRunPeer
  <2>3. \A d \in Conn : InRunPeer(d) => PeerOf[d] # k
    BY <1>3, <1>4, <1>7
  <2>4. \A d, e \in Conn : InRunPeer(d)' /\ InRunPeer(e)' /\ PeerOf[d] = PeerOf[e] => d = e
    BY <1>4, <2>2, <2>3
  <2>5. \A q \in Peer : q \in connected' <=> \E d \in Conn : PeerOf[d] = q /\ InRunPeer(d)'
    BY <1>3, <1>4, <2>1, <2>2
  <2>6. \A q \in known' : \E d \in Conn : PeerOf[d] = q /\ conn'[d] \in {"driving", "leaving"}
    BY <1>4, <1>5, <2>1
  <2>. QED BY <2>4, <2>5, <2>6 DEF ConnectionsPaired
<1>8. CASE Subscribed(c) \/ HaveArrives(c) \/ BitfieldArrives(c)
  <2>1. /\ conn[c] \in {"subscribing", "driving"}
        /\ conn'[c] = "driving" /\ \A d \in Conn : d # c => conn'[d] = conn[d]
        /\ connected' = connected /\ known' \subseteq known \cup {k}
    BY <1>5, <1>8 DEF Subscribed, HaveArrives, BitfieldArrives, AddPeer, SetPeerHas, peerVars,
                      schedVars
  <2>2. \A d \in Conn : InRunPeer(d)' <=> InRunPeer(d)
    BY <2>1 DEF InRunPeer
  <2>3. \A q \in known' : \E d \in Conn : PeerOf[d] = q /\ conn'[d] \in {"driving", "leaving"}
    <3>. TAKE q \in known'
    <3>1. CASE q = k
      BY <2>1, <3>1
    <3>2. CASE q # k
      <4>1. PICK d \in Conn : PeerOf[d] = q /\ conn[d] \in {"driving", "leaving"}
        BY <1>4, <2>1, <3>2
      <4>. QED BY <2>1, <3>2, <4>1
    <3>. QED BY <3>1, <3>2
  <2>. QED BY <1>4, <2>1, <2>2, <2>3 DEF ConnectionsPaired
<1>9. CASE Leave(c) \/ Resize(c)
  <2>1. /\ conn[c] = "driving" /\ conn'[c] \in {"driving", "leaving"}
        /\ \A d \in Conn : d # c => conn'[d] = conn[d]
        /\ known' = known /\ connected' = connected
    BY <1>5, <1>9 DEF Leave, Resize, schedVars, peerVars
  <2>2. \A d \in Conn : InRunPeer(d)' <=> InRunPeer(d)
    BY <2>1 DEF InRunPeer
  <2>. QED BY <1>1, <2>1, <2>2, PairingKept
<1>10. CASE Forget(c)
  <2>1. /\ conn[c] = "leaving" /\ conn'[c] = "forgotten"
        /\ \A d \in Conn : d # c => conn'[d] = conn[d]
        /\ connected' = connected /\ known' = known \ {k}
    BY <1>5, <1>10 DEF Forget, RemovePeer, schedVars
  <2>2. \A d \in Conn : InRunPeer(d)' <=> InRunPeer(d)
    BY <2>1 DEF InRunPeer
  <2>. QED BY <1>1, <2>1, <2>2, PairingKept
<1>11. CASE Release(c)
  <2>1. /\ conn[c] = "forgotten" /\ conn'[c] = "unused"
        /\ \A d \in Conn : d # c => conn'[d] = conn[d]
        /\ connected' = connected \ {k} /\ known' = known
    BY <1>5, <1>11 DEF Release, schedVars
  <2>2. /\ InRunPeer(c) /\ ~InRunPeer(c)'
        /\ \A d \in Conn : d # c => (InRunPeer(d)' <=> InRunPeer(d))
    BY <2>1 DEF InRunPeer
  <2>3. \A q \in Peer : q \in connected' <=> \E d \in Conn : PeerOf[d] = q /\ InRunPeer(d)'
    BY <1>4, <2>1, <2>2
  <2>4. \A d, e \in Conn : InRunPeer(d)' /\ InRunPeer(e)' /\ PeerOf[d] = PeerOf[e] => d = e
    BY <1>4, <2>2
  <2>5. \A q \in known' : \E d \in Conn : PeerOf[d] = q /\ conn'[d] \in {"driving", "leaving"}
    BY <1>4, <2>1
  <2>. QED BY <2>3, <2>4, <2>5 DEF ConnectionsPaired
<1>. QED BY <1>6, <1>7, <1>8, <1>9, <1>10, <1>11 DEF ConnStep

LEMMA PairedKept ==
  ASSUME EngineInv, [EngineNext]_vars
  PROVE  ConnectionsPaired'
<1>1. ConnectionsPaired /\ conn \in [Conn -> ConnState]
  BY DEF EngineInv, EngineTypeOK
<1>2. CASE ~Running'
  BY <1>2 DEF ConnectionsPaired
<1>3. CASE Running' /\ LoopStep
  <2>1. Running /\ UNCHANGED <<schedVars, connected>>
    BY <1>3, LoopEffect
    DEF Running, LoopStep, Check, Tick, Cancel, Verify, Discover, TakeFound
  <2>2. \/ conn' = conn
        \/ \E c \in Conn : conn[c] = "unused" /\ conn' = [conn EXCEPT ![c] = "dialing"]
    BY <1>3 DEF Running, LoopStep, Check, Tick, Cancel, Verify, Discover, TakeFound, Free,
                peerVars
  <2>3. \A d \in Conn : \/ conn'[d] = conn[d]
                        \/ conn[d] = "unused" /\ conn'[d] = "dialing"
    BY <1>1, <2>2
  <2>4. known' = known /\ connected' = connected
    BY <2>1 DEF schedVars
  <2>5. \A d \in Conn : InRunPeer(d)' <=> InRunPeer(d)
    BY <2>3 DEF InRunPeer
  <2>. QED BY <1>1, <2>1, <2>3, <2>4, <2>5, PairingKept
<1>4. ASSUME Running', NEW c \in Conn, ConnStep(c)
      PROVE  ConnectionsPaired'
  BY <1>4, ConnEffect, ConnStepPaired DEF Running
<1>5. ASSUME Running', known' = known, UNCHANGED <<phase, peerVars>>
      PROVE  ConnectionsPaired'
  BY <1>1, <1>5 DEF Running, peerVars, ConnectionsPaired, InRunPeer
<1>6. ASSUME Running', NEW c \in Conn, NEW w \in Worker, WorkerStep(c, w) \/ StoreStep(c, w)
      PROVE  ConnectionsPaired'
  BY <1>5, <1>6, WorkerEffect, StoreEffect, WorkersKeepKnown DEF schedVars
<1>7. CASE Running' /\ UNCHANGED vars
  BY <1>5, <1>7 DEF vars, schedVars
<1>. QED BY <1>2, <1>3, <1>4, <1>6, <1>7 DEF EngineNext, Terminated

-----------------------------------------------------------------------------
(* The theorems.                                                           *)

LEMMA EngineInvKept ==
  ASSUME EngineInv, [EngineNext]_vars
  PROVE  EngineInv'
<1>1. SchedInv'
  BY SchedulerCalled, NextSchedInv DEF EngineInv
<1>2. SchedTypeOK'
  BY <1>1 DEF SchedInv
<1>. QED BY <1>1, <1>2, TypeKept, SharesKept, AllHereKept, PairedKept DEF EngineInv

\* The engine keeps its scheduler, its workers, its share and its connections
\* in step, however its tasks interleave and wherever they are aborted
\* (download.rs, run and run_peer).
THEOREM EngineInvariant == EngineSpec => []EngineInv
<1>1. EngineInit => EngineInv
  BY EngineStarts
<1>2. EngineInv /\ [EngineNext]_vars => EngineInv'
  BY EngineInvKept
<1>. QED BY <1>1, <1>2, PTL DEF EngineSpec

\* The types of the engine's state: a worker is where its loop can be, with a
\* piece of this share or none (download.rs, Engine and worker).
THEOREM EngineTypes == EngineSpec => []EngineTypeOK
<1>1. EngineInv => EngineTypeOK
  BY DEF EngineInv
<1>. QED BY <1>1, EngineInvariant, PTL

\* A connection to a peer that is already driven is dropped at the guard of
\* run_peer, and the entry that guards it is released only after the scheduler
\* has forgotten the peer.
THEOREM EngineOneConnectionPerPeer == EngineSpec => []OneConnectionPerPeer
<1>1. ASSUME EngineInv, Running, NEW k \in Peer
      PROVE  /\ Cardinality({c \in Conn : PeerOf[c] = k /\ InRunPeer(c)})
                   = Count(k \in connected)
             /\ k \in known =>
                   \E c \in Conn : PeerOf[c] = k /\ conn[c] \in {"driving", "leaving"}
  <2>. DEFINE S == {c \in Conn : PeerOf[c] = k /\ InRunPeer(c)}
  <2>1. /\ \A c, d \in S : c = d
        /\ k \in connected <=> S # {}
        /\ k \in known =>
              \E c \in Conn : PeerOf[c] = k /\ conn[c] \in {"driving", "leaving"}
    BY <1>1 DEF EngineInv, ConnectionsPaired
  <2>2. CASE S = {}
    <3>. HIDE DEF S
    <3>. QED BY <2>1, <2>2, FS_EmptySet DEF Count, S
  <2>3. CASE S # {}
    <3>1. PICK c \in S : TRUE
      BY <2>3
    <3>2. S = {c}
      BY <2>1, <3>1
    <3>3. Cardinality(S) = 1
      BY <3>2, FS_Singleton
    <3>. QED BY <2>1, <2>3, <3>3 DEF Count
  <2>. QED BY <2>2, <2>3
<1>2. EngineInv => OneConnectionPerPeer
  BY <1>1 DEF OneConnectionPerPeer
<1>. QED BY <1>2, EngineInvariant, PTL

\* A piece the scheduler counts as Done is verified and on disk, whatever was
\* aborted between the store and `complete` (download.rs, worker).
THEOREM EngineDoneIsStored == EngineSpec => []DoneIsStored
<1>1. EngineInv => DoneIsStored
  BY DEF EngineInv
<1>. QED BY <1>1, EngineInvariant, PTL

\* The engine drives the scheduler only as Scheduler.tla allows, so what is
\* proved of that module holds inside a download.
THEOREM EngineCallsScheduler == EngineSpec => Spec
<1>1. EngineInit => Init
  BY EngineStarts
<1>2. EngineInv /\ [EngineNext]_vars => [Next]_schedVars
  BY SchedulerCalled
<1>. QED BY <1>1, <1>2, EngineInvariant, PTL DEF EngineSpec, Spec

\* A download keeps the promise of Transfer.tla: a piece is reported verified
\* only after it is stored, it succeeds only with every piece reported, and it
\* ends once (download.rs, run).
THEOREM EngineImplementsTransfer == EngineSpec => TransferSpec
<1>1. EngineInit => T!Init
  <2>. SUFFICES ASSUME EngineInit PROVE T!Init
    OBVIOUS
  <2>1. have \in SUBSET Piece /\ phase = "checking" /\ SchedInit(have)
    BY DEF EngineInit
  <2>2. InState("Done") = have
    BY <2>1 DEF SchedInit, InState
  <2>. QED BY <2>1, <2>2 DEF T!Init, T!Piece, Piece, Ended
<1>2. EngineInv /\ [EngineNext]_vars => [T!Next]_(T!vars)
  <2>. SUFFICES ASSUME EngineInv, [EngineNext]_vars
                PROVE  [T!Next]_(T!vars)
    OBVIOUS
  <2>. DEFINE O == IF Ended THEN phase ELSE "running"
  <2>1. ASSUME UNCHANGED <<phase, have>>
        PROVE  [T!Next]_(T!vars)
    <3>1. O' = O
      BY <2>1 DEF Ended
    <3>2. CASE InState("Done")' = InState("Done")
      BY <2>1, <3>1, <3>2 DEF T!vars
    <3>3. ASSUME NEW c \in Conn, NEW w \in Worker, on[c][w] \in have,
                 InState("Done")' = InState("Done") \cup {on[c][w]}
          PROVE  [T!Next]_(T!vars)
      <4>1. on[c][w] \in Piece
        BY <3>3 DEF EngineInv, EngineTypeOK
      <4>2. CASE on[c][w] \in InState("Done")
        BY <2>1, <3>1, <3>3, <4>2 DEF T!vars
      <4>3. CASE on[c][w] \notin InState("Done")
        <5>1. T!Report(on[c][w])
          BY <2>1, <3>1, <3>3, <4>3 DEF T!Report
        <5>. QED BY <4>1, <5>1 DEF T!Next, T!Piece, Piece
      <4>. QED BY <4>2, <4>3
    <3>. QED BY <3>2, <3>3, DoneEffect
  <2>2. ASSUME NEW c \in Conn, NEW w \in Worker, StoreStep(c, w)
        PROVE  [T!Next]_(T!vars)
    <3>1. UNCHANGED <<schedVars, phase>>
      BY <2>2, StoreEffect
    <3>2. O' = O /\ InState("Done")' = InState("Done")
      BY <3>1 DEF Ended, InState, schedVars
    <3>3. CASE have' = have
      BY <2>1, <3>1, <3>3
    <3>4. ASSUME NEW i \in Piece, i \notin have, have' = have \cup {i}
          PROVE  [T!Next]_(T!vars)
      <4>1. T!Store(i)
        BY <3>2, <3>4 DEF T!Store
      <4>. QED BY <4>1 DEF T!Next, T!Piece, Piece
    <3>. QED BY <2>2, <3>3, <3>4, StoreEffect
  <2>3. CASE LoopStep
    <3>1. UNCHANGED <<schedVars, have>>
      BY <2>3, LoopEffect
    <3>2. InState("Done")' = InState("Done")
      BY <3>1 DEF InState, schedVars
    <3>3. CASE ~Ended /\ ~Ended'
      BY <3>1, <3>2, <3>3 DEF T!vars
    <3>4. CASE Cancel
      <4>1. O = "running" /\ O' = "cancelled"
        BY <3>4 DEF Cancel, Ended
      <4>2. T!Cancel
        BY <3>1, <3>2, <4>1 DEF T!Cancel
      <4>. QED BY <4>2 DEF T!Next
    <3>5. CASE Verify
      <4>1. O = "running" /\ O' \in {"completed", "failed"} /\ phase = "verifying"
        BY <3>5 DEF Verify, Ended
      <4>2. InState("Done") = Piece
        BY <4>1 DEF EngineInv, AllHere
      <4>3. T!Finish
        BY <3>1, <3>2, <4>1, <4>2 DEF T!Finish, T!Piece, Piece
      <4>. QED BY <4>3 DEF T!Next
    <3>. QED BY <2>3, <3>3, <3>4, <3>5
             DEF LoopStep, Check, Tick, Discover, TakeFound, Ended
  <2>4. CASE \E c \in Conn : ConnStep(c)
    BY <2>1, <2>4, ConnEffect
  <2>5. CASE \E c \in Conn, w \in Worker : WorkerStep(c, w)
    BY <2>1, <2>5, WorkerEffect
  <2>6. CASE UNCHANGED vars
    BY <2>1, <2>6 DEF vars
  <2>. QED BY <2>2, <2>3, <2>4, <2>5, <2>6 DEF EngineNext, Terminated
<1>. QED BY <1>1, <1>2, EngineInvariant, PTL DEF EngineSpec, TransferSpec, T!Spec

-----------------------------------------------------------------------------
(* No request without its worker, on a runtime that never drops a task in  *)
(* the middle of a poll.                                                   *)

\* Only a connection that drives its peer has workers that go on.
WorkersDrive ==
    /\ late = {}
    /\ \A c \in Conn, w \in Worker : pc[c][w] # "none" => conn[c] = "driving"

BackedInv == EngineInv /\ WorkersDrive /\ RequestsBacked

\* Some worker of k, or its farewell, stands behind the entry of k for i.
Backed(i, k) ==
    \E c \in Conn :
        /\ PeerOf[c] = k
        /\ \/ conn[c] = "leaving"
           \/ conn[c] = "driving" /\ \E w \in Worker : on[c][w] = i

LEMMA AbortAll ==
  ASSUME LatePolls = FALSE, EngineTypeOK, late = {}, NEW C \in SUBSET Conn, AbortWorkers(C)
  PROVE  /\ late' = {}
         /\ \A c \in Conn, w \in Worker :
               /\ c \in C => pc'[c][w] = "none"
               /\ c \notin C => pc'[c][w] = pc[c][w] /\ on'[c][w] = on[c][w]
<1>1. PICK L \in SUBSET {cw \in C \X Worker : LatePolls /\ InPoll(cw[1], cw[2])} :
         /\ late' = late \cup L
         /\ pc' = [c \in Conn |-> [w \in Worker |->
                     IF c \in C /\ <<c, w>> \notin L \cup late
                     THEN "none" ELSE pc[c][w]]]
         /\ on' = [c \in Conn |-> [w \in Worker |->
                     IF c \in C /\ <<c, w>> \notin L \cup late
                     THEN NoPiece ELSE on[c][w]]]
  BY DEF AbortWorkers
<1>2. L = {}
  BY <1>1
<1>. QED BY <1>1, <1>2

LEMMA GoesOn ==
  ASSUME EngineTypeOK, late = {}, NEW c \in Conn, NEW w \in Worker, NEW to, NEW i,
         Goes(c, w, to, i)
  PROVE  /\ late' = {}
         /\ pc'[c][w] = to /\ on'[c][w] = i
         /\ \A d \in Conn, v \in Worker :
               d # c \/ v # w => pc'[d][v] = pc[d][v] /\ on'[d][v] = on[d][v]
BY DEF Goes, EngineTypeOK

LEMMA WorkersDriveKept ==
  ASSUME LatePolls = FALSE, EngineInv, WorkersDrive, [EngineNext]_vars
  PROVE  WorkersDrive'
<1>1. EngineTypeOK /\ late = {}
  BY DEF EngineInv, WorkersDrive
<1>2. /\ conn \in [Conn -> ConnState]
      /\ pc \in [Conn -> [Worker -> WorkerState]]
      /\ \A c \in Conn, w \in Worker : pc[c][w] # "none" => conn[c] = "driving"
  BY <1>1 DEF EngineTypeOK, WorkersDrive
<1>3. CASE UNCHANGED <<pc, late, conn>>
  BY <1>3 DEF WorkersDrive
<1>4. CASE AbortWorkers(Conn)
  <2>1. late' = {} /\ \A c \in Conn, w \in Worker : pc'[c][w] = "none"
    <3>1. Conn \in SUBSET Conn
      OBVIOUS
    <3>. QED BY <1>1, <1>4, <3>1, AbortAll
  <2>. QED BY <2>1 DEF WorkersDrive
<1>5. CASE \E c \in Conn : /\ UNCHANGED <<pc, late>> /\ conn[c] # "driving"
                           /\ \E s \in ConnState : conn' = [conn EXCEPT ![c] = s]
  <2>1. \A d \in Conn : conn[d] = "driving" => conn'[d] = "driving"
    BY <1>2, <1>5
  <2>. QED BY <1>2, <1>5, <2>1 DEF WorkersDrive
<1>6. ASSUME NEW c \in Conn, Subscribed(c) \/ Resize(c)
      PROVE  WorkersDrive'
  <2>1. /\ conn'[c] = "driving" /\ late' = late
        /\ \A d \in Conn : d # c => conn'[d] = conn[d]
    BY <1>2, <1>6 DEF Subscribed, Resize, peerVars
  <2>2. \A d \in Conn, w \in Worker : d # c => pc'[d][w] = pc[d][w]
    BY <1>2, <1>6 DEF Subscribed, Resize
  <2>. QED BY <1>1, <1>2, <2>1, <2>2 DEF WorkersDrive
<1>7. ASSUME NEW c \in Conn, Leave(c)
      PROVE  WorkersDrive'
  <2>1. AbortWorkers({c}) /\ conn' = [conn EXCEPT ![c] = "leaving"]
    BY <1>7 DEF Leave
  <2>2. /\ late' = {}
        /\ \A d \in Conn, w \in Worker :
              /\ d \in {c} => pc'[d][w] = "none"
              /\ d \notin {c} => pc'[d][w] = pc[d][w]
    BY <1>1, <2>1, AbortAll
  <2>3. \A d \in Conn : d # c => conn'[d] = conn[d]
    BY <1>2, <2>1
  <2>. QED BY <1>2, <2>2, <2>3 DEF WorkersDrive
<1>8. ASSUME NEW c \in Conn, NEW w \in Worker, WorkerStep(c, w)
      PROVE  WorkersDrive'
  <2>1. /\ pc[c][w] # "none"
        /\ \E to, i : Goes(c, w, to, i)
    BY <1>1, <1>8 DEF WorkerStep, WorkerStops, LateNothing, PieceArrives, DontHave, Busy,
                      NotFound, RequestFails, Stored, BadData, GiveBack, Ask
  <2>2. conn' = conn
    BY <1>8, WorkerEffect DEF peerVars
  <2>3. /\ late' = {}
        /\ \A d \in Conn, v \in Worker : d # c \/ v # w => pc'[d][v] = pc[d][v]
    BY <1>1, <2>1, GoesOn
  <2>. QED BY <1>2, <2>1, <2>2, <2>3 DEF WorkersDrive
<1>9. CASE LoopStep
  <2>1. \/ AbortWorkers(Conn)
        \/ UNCHANGED <<pc, late, conn>>
        \/ UNCHANGED <<pc, late>> /\ \E c \in Conn : /\ conn[c] = "unused"
                                                     /\ conn' = [conn EXCEPT ![c] = "dialing"]
    BY <1>9 DEF LoopStep, Check, Tick, Cancel, Verify, Discover, TakeFound, Free, peerVars,
                workVars
  <2>. QED BY <1>3, <1>4, <1>5, <2>1 DEF ConnState
<1>10. ASSUME NEW c \in Conn, ConnStep(c)
       PROVE  WorkersDrive'
  <2>1. \/ Subscribed(c) \/ Resize(c) \/ Leave(c)
        \/ UNCHANGED <<pc, late, conn>>
        \/ /\ UNCHANGED <<pc, late>> /\ conn[c] # "driving"
           /\ \E s \in ConnState : conn' = [conn EXCEPT ![c] = s]
    BY <1>10 DEF ConnStep, DialFails, DialSucceeds, Guard, SubscribeFails, HaveArrives,
                 BitfieldArrives, Forget, Release, peerVars, workVars, ConnState
  <2>. QED BY <1>3, <1>5, <1>6, <1>7, <2>1
<1>11. ASSUME NEW c \in Conn, NEW w \in Worker, StoreStep(c, w)
       PROVE  WorkersDrive'
  BY <1>3, <1>11, StoreEffect DEF peerVars
<1>12. CASE UNCHANGED vars
  BY <1>3, <1>12 DEF vars, peerVars, workVars
<1>. QED BY <1>8, <1>9, <1>10, <1>11, <1>12 DEF EngineNext, Terminated

\* Requests are only dropped, and what backs those that stay stays.
LEMMA BackingKept ==
  ASSUME EngineInv, RequestsBacked, Running,
         by' \in [Piece -> SUBSET Peer],
         \A i \in Piece : by'[i] \subseteq by[i],
         \A i \in Piece : \A k \in by'[i] : Backed(i, k) => Backed(i, k)'
  PROVE  RequestsBacked'
BY DEF RequestsBacked, Backed

LEMMA ConnBacked ==
  ASSUME LatePolls = FALSE, BackedInv, Running, NEW c \in Conn, ConnStep(c)
  PROVE  RequestsBacked'
<1>1. EngineInv /\ RequestsBacked /\ EngineTypeOK /\ late = {} /\ SchedInv
  BY DEF BackedInv, EngineInv, WorkersDrive
<1>2. /\ conn \in [Conn -> ConnState] /\ by \in [Piece -> SUBSET Peer]
      /\ \A i \in Piece : by[i] \subseteq known
  BY <1>1 DEF EngineTypeOK, SchedInv, SchedTypeOK, RequestsSound, Holders
<1>. DEFINE k == PeerOf[c]
<1>3. k \in Peer /\ Claims(k) \subseteq SUBSET Piece
  BY EngineAssumption DEF Claims
\* What becomes of the requests.
<1>4. /\ by' \in [Piece -> SUBSET Peer]
      /\ \A i \in Piece : by'[i] \subseteq by[i]
      /\ Forget(c) => \A i \in Piece : k \notin by'[i]
  <2>1. CASE by' = by /\ ~Forget(c)
    BY <1>2, <2>1
  <2>2. CASE DropRequests(Piece, k)
    BY <1>1, <1>3, <2>2, DropRequestsEffect
  <2>3. CASE DropRequests({}, k) /\ ~Forget(c)
    BY <1>1, <1>3, <2>3, DropRequestsEffect
  <2>4. CASE by' = by /\ k \notin known
    BY <1>2, <2>4
  <2>. QED BY <2>1, <2>2, <2>3, <2>4
           DEF ConnStep, DialFails, DialSucceeds, Guard, Subscribed, SubscribeFails,
               HaveArrives, BitfieldArrives, Resize, Leave, Forget, Release, RemovePeer,
               AddPeer, SetPeerHas, schedVars
\* What becomes of the workers and the connections.
<1>5. \A d \in Conn, w \in Worker : d # c \/ ~Leave(c) => on'[d][w] = on[d][w]
  <2>1. CASE Leave(c)
    <3>1. AbortWorkers({c})
      BY <2>1 DEF Leave
    <3>2. {c} \in SUBSET Conn
      OBVIOUS
    <3>3. \A d \in Conn, w \in Worker : d \notin {c} => on'[d][w] = on[d][w]
      BY <1>1, <3>1, <3>2, AbortAll
    <3>. QED BY <2>1, <3>3
  <2>2. CASE ~Leave(c)
    BY <2>2 DEF ConnStep, DialFails, DialSucceeds, Guard, Subscribed, SubscribeFails,
               HaveArrives, BitfieldArrives, Resize, Forget, Release, workVars
  <2>. QED BY <2>1, <2>2
<1>6. /\ \A d \in Conn : d # c => conn'[d] = conn[d]
      /\ conn[c] = "driving" /\ ~Leave(c) => conn'[c] = "driving"
      /\ Leave(c) => conn'[c] = "leaving"
      /\ conn[c] = "leaving" => Forget(c)
  <2>1. \/ conn' = conn /\ conn[c] = "driving" /\ ~Leave(c)
        \/ conn[c] \in {"dialing", "connected", "subscribing", "forgotten"} /\ ~Leave(c)
           /\ \E s \in ConnState : conn' = [conn EXCEPT ![c] = s]
        \/ conn[c] = "leaving" /\ Forget(c) /\ ~Leave(c)
           /\ \E s \in ConnState : conn' = [conn EXCEPT ![c] = s]
        \/ Leave(c) /\ conn[c] = "driving" /\ conn' = [conn EXCEPT ![c] = "leaving"]
    BY DEF ConnStep, DialFails, DialSucceeds, Guard, Subscribed, SubscribeFails,
           HaveArrives, BitfieldArrives, Resize, Leave, Forget, Release, peerVars, ConnState
  <2>. QED BY <1>2, <2>1
<1>7. ASSUME NEW i \in Piece, NEW q \in by'[i], Backed(i, q)
      PROVE  Backed(i, q)'
  <2>1. PICK d \in Conn : /\ PeerOf[d] = q
                          /\ \/ conn[d] = "leaving"
                             \/ conn[d] = "driving" /\ \E w \in Worker : on[d][w] = i
    BY <1>7 DEF Backed
  <2>2. CASE d # c
    BY <1>5, <1>6, <2>1, <2>2 DEF Backed
  <2>3. CASE d = c
    <3>1. ~Forget(c)
      BY <1>4, <2>1, <2>3
    <3>. QED BY <1>5, <1>6, <2>1, <2>3, <3>1 DEF Backed
  <2>. QED BY <2>2, <2>3
<1>. QED BY <1>1, <1>4, <1>7, BackingKept

LEMMA WorkerBacked ==
  ASSUME BackedInv, Running, NEW c \in Conn, NEW w \in Worker, WorkerStep(c, w)
  PROVE  RequestsBacked'
<1>1. EngineInv /\ RequestsBacked /\ EngineTypeOK /\ late = {} /\ SchedInv
  BY DEF BackedInv, EngineInv, WorkersDrive
<1>2. /\ by \in [Piece -> SUBSET Peer] /\ bits \in [Peer -> SUBSET Piece]
      /\ pc[c][w] # "none" => conn[c] = "driving"
      /\ pc[c][w] \in {"none", "top"} => on[c][w] = NoPiece
      /\ pc[c][w] \in {"asked", "storing"} => on[c][w] \in Piece
      /\ NoPiece \notin Piece
  BY <1>1 DEF EngineTypeOK, SchedTypeOK, BackedInv, WorkersDrive, EngineInv, WorkersInOrder,
              InOrder, NoPiece, Piece
<1>. DEFINE k == PeerOf[c]
<1>3. k \in Peer
  BY EngineAssumption
<1>4. conn' = conn /\ phase' = phase
  BY <1>1, WorkerEffect DEF peerVars
\* It stays backed whatever a worker keeps or takes up.
<1>5. ASSUME NEW i \in Piece, NEW q \in Peer, Backed(i, q), q # k \/ on[c][w] # i,
             \A d \in Conn, v \in Worker : d # c \/ v # w => on'[d][v] = on[d][v]
      PROVE  Backed(i, q)'
  <2>1. PICK d \in Conn : /\ PeerOf[d] = q
                          /\ \/ conn[d] = "leaving"
                             \/ conn[d] = "driving" /\ \E v \in Worker : on[d][v] = i
    BY <1>5 DEF Backed
  <2>2. CASE conn[d] = "leaving"
    BY <1>4, <2>1, <2>2 DEF Backed
  <2>3. CASE conn[d] = "driving" /\ \E v \in Worker : on[d][v] = i
    <3>1. PICK v \in Worker : on[d][v] = i
      BY <2>3
    <3>2. d # c \/ v # w
      BY <1>5, <2>1, <3>1
    <3>3. on'[d][v] = i
      BY <1>5, <3>1, <3>2
    <3>. QED BY <1>4, <2>1, <2>3, <3>3 DEF Backed
  <2>. QED BY <2>1, <2>2, <2>3
<1>6. ASSUME NEW i \in Piece, NEW q \in by[i]
      PROVE  Backed(i, q)
  BY <1>1, <1>6 DEF RequestsBacked, Backed
<1>7. CASE WorkerStops(c, w) \/ LateNothing(c, w)
  <2>1. /\ pc[c][w] = "top" /\ Goes(c, w, "none", NoPiece) /\ by' = by
    BY <1>1, <1>7 DEF WorkerStops, LateNothing, schedVars
  <2>2. \A d \in Conn, v \in Worker : d # c \/ v # w => on'[d][v] = on[d][v]
    BY <1>1, <2>1, GoesOn
  <2>. QED BY <1>2, <1>5, <1>6, <2>1, <2>2 DEF RequestsBacked, Backed
<1>8. CASE PieceArrives(c, w)
  <2>1. Goes(c, w, "storing", on[c][w]) /\ by' = by
    BY <1>8 DEF PieceArrives, schedVars
  <2>2. \A d \in Conn, v \in Worker : on'[d][v] = on[d][v]
    BY <1>1, <2>1, GoesOn
  <2>. QED BY <1>1, <1>4, <2>1, <2>2 DEF RequestsBacked, Running
<1>9. CASE Ask(c, w)
  <2>1. PICK i \in Piece : Pick(k, i) /\ Goes(c, w, "asked", i)
    BY <1>9 DEF Ask
  <2>2. pc[c][w] = "top" /\ on[c][w] = NoPiece /\ conn[c] = "driving"
    BY <1>2, <1>9 DEF Ask
  <2>3. /\ on'[c][w] = i
        /\ \A d \in Conn, v \in Worker : d # c \/ v # w => on'[d][v] = on[d][v]
    BY <1>1, <2>1, GoesOn
  <2>4. \A j \in Piece : by'[j] \subseteq IF j = i THEN by[j] \cup {k} ELSE by[j]
    BY <1>2, <2>1 DEF Pick
  <2>5. Backed(i, k)'
    BY <1>4, <2>2, <2>3 DEF Backed
  <2>6. ASSUME NEW j \in Piece, NEW q \in by'[j]
        PROVE  Backed(j, q)'
    <3>1. CASE j = i /\ q = k
      BY <2>5, <3>1
    <3>2. CASE q \in by[j]
      BY <1>2, <1>5, <1>6, <2>2, <2>3, <3>2
    <3>. QED BY <2>4, <3>1, <3>2
  <2>. QED BY <2>6 DEF RequestsBacked, Backed
<1>10. CASE DontHave(c, w) \/ Busy(c, w) \/ NotFound(c, w) \/ RequestFails(c, w) \/ BadData(c, w)
  <2>1. PICK lacks \in BOOLEAN : Failed(on[c][w], k, lacks) /\ Goes(c, w, "top", NoPiece)
    BY <1>10 DEF DontHave, Busy, NotFound, RequestFails, BadData, GiveBack
  <2>2. on[c][w] \in Piece
    BY <1>2, <1>10 DEF DontHave, Busy, NotFound, RequestFails, BadData
  <2>3. by' = [i \in Piece |-> IF i \in {on[c][w]} THEN by[i] \ {k} ELSE by[i]]
    BY <2>1 DEF Failed, DropRequests
  <2>4. \A d \in Conn, v \in Worker : d # c \/ v # w => on'[d][v] = on[d][v]
    BY <1>1, <2>1, GoesOn
  <2>5. ASSUME NEW j \in Piece, NEW q \in by'[j]
        PROVE  Backed(j, q)'
    <3>1. q \in by[j] /\ (q # k \/ on[c][w] # j)
      BY <2>3
    <3>. QED BY <1>2, <1>5, <1>6, <2>4, <3>1
  <2>. QED BY <2>5 DEF RequestsBacked, Backed
<1>11. CASE Stored(c, w)
  <2>1. Complete(on[c][w]) /\ Goes(c, w, "top", NoPiece) /\ on[c][w] \in Piece
    BY <1>2, <1>11 DEF Stored
  <2>2. by' = [by EXCEPT ![on[c][w]] = {}]
    BY <2>1 DEF Complete
  <2>3. \A d \in Conn, v \in Worker : d # c \/ v # w => on'[d][v] = on[d][v]
    BY <1>1, <2>1, GoesOn
  <2>4. ASSUME NEW j \in Piece, NEW q \in by'[j]
        PROVE  Backed(j, q)'
    <3>1. q \in by[j] /\ on[c][w] # j
      BY <1>2, <2>1, <2>2
    <3>. QED BY <1>2, <1>5, <1>6, <2>3, <3>1
  <2>. QED BY <2>4 DEF RequestsBacked, Backed
<1>. QED BY <1>7, <1>8, <1>9, <1>10, <1>11 DEF WorkerStep

LEMMA RequestsBackedKept ==
  ASSUME LatePolls = FALSE, BackedInv, [EngineNext]_vars
  PROVE  RequestsBacked'
<1>1. EngineInv /\ RequestsBacked /\ EngineTypeOK
  BY DEF BackedInv, EngineInv
<1>2. CASE ~Running'
  BY <1>2 DEF RequestsBacked
<1>3. ASSUME Running, UNCHANGED <<schedVars, on>>,
             \A c \in Conn : conn'[c] = conn[c] \/ conn[c] = "unused"
      PROVE  RequestsBacked'
  <2>1. by' = by
    BY <1>3 DEF schedVars
  <2>2. \A i \in Piece, k \in Peer : Backed(i, k) => Backed(i, k)'
    BY <1>3 DEF Backed
  <2>3. by \in [Piece -> SUBSET Peer]
    BY <1>1 DEF EngineTypeOK, SchedTypeOK
  <2>. QED BY <1>1, <1>3, <2>1, <2>2, <2>3, BackingKept
<1>4. CASE Running' /\ LoopStep
  <2>1. Running /\ UNCHANGED <<schedVars, on>>
    BY <1>4, LoopEffect
    DEF Running, LoopStep, Check, Tick, Cancel, Verify, Discover, TakeFound, workVars
  <2>2. \/ conn' = conn
        \/ \E c \in Conn : conn[c] = "unused" /\ conn' = [conn EXCEPT ![c] = "dialing"]
    BY <1>4 DEF Running, LoopStep, Check, Tick, Cancel, Verify, Discover, TakeFound, Free,
                peerVars
  <2>3. conn \in [Conn -> ConnState]
    BY <1>1 DEF EngineTypeOK
  <2>4. \A c \in Conn : conn'[c] = conn[c] \/ conn[c] = "unused"
    BY <2>2, <2>3
  <2>. QED BY <1>3, <2>1, <2>4
<1>5. ASSUME Running', NEW c \in Conn, ConnStep(c)
      PROVE  RequestsBacked'
  BY <1>1, <1>5, ConnEffect, ConnBacked DEF Running
<1>6. ASSUME Running', NEW c \in Conn, NEW w \in Worker, WorkerStep(c, w)
      PROVE  RequestsBacked'
  BY <1>1, <1>6, WorkerEffect, WorkerBacked DEF Running
<1>7. ASSUME Running', NEW c \in Conn, NEW w \in Worker, StoreStep(c, w)
      PROVE  RequestsBacked'
  BY <1>1, <1>3, <1>7, StoreEffect DEF Running, peerVars
<1>8. CASE Running' /\ UNCHANGED vars
  BY <1>3, <1>8 DEF vars, peerVars, workVars, Running
<1>. QED BY <1>2, <1>4, <1>5, <1>6, <1>7, <1>8 DEF EngineNext, Terminated

\* A peer is never shut out from a piece by a request nobody is waiting for any
\* more, on a runtime of one thread (download.rs, worker and drive_peer; with
\* more threads an aborted task may finish its poll, and this is not so).
THEOREM EngineRequestsBacked ==
  ASSUME LatePolls = FALSE
  PROVE  EngineSpec => []RequestsBacked
<1>1. EngineInit => BackedInv
  <2>. SUFFICES ASSUME EngineInit PROVE BackedInv
    OBVIOUS
  <2>1. EngineInv
    BY EngineStarts
  <2>2. WorkersDrive
    BY DEF EngineInit, WorkersDrive
  <2>3. RequestsBacked
    BY DEF EngineInit, SchedInit, RequestsBacked
  <2>. QED BY <2>1, <2>2, <2>3 DEF BackedInv
<1>2. BackedInv /\ [EngineNext]_vars => BackedInv'
  BY EngineInvKept, WorkersDriveKept, RequestsBackedKept DEF BackedInv
<1>3. BackedInv => RequestsBacked
  BY DEF BackedInv
<1>. QED BY <1>1, <1>2, <1>3, PTL DEF EngineSpec
=============================================================================
