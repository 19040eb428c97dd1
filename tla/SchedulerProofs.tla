--------------------------- MODULE SchedulerProofs ---------------------------
(***************************************************************************)
(* Proofs about Scheduler.tla, for any finite set of peers, any number of  *)
(* pieces and any window, sample and endgame limit.                        *)
(*                                                                         *)
(* SchedInv, the conjunction of the type invariant with the exactness of   *)
(* the counters, of the playhead and of the request lists, is inductive:   *)
(* the counters are exact after drop_request only because an entry is      *)
(* InFlight exactly while its list is not empty, and the request lists     *)
(* stay sound only because bits and availability change together.          *)
(***************************************************************************)
EXTENDS Scheduler, FiniteSetTheorems, WellFoundedInduction, TLAPS

SchedInv == SchedTypeOK /\ CountersExact /\ PlayheadExact /\ RequestsSound

-----------------------------------------------------------------------------
(* Facts about sets and numbers.                                           *)

\* Every non-empty set of naturals has a least element.
LEMMA LeastNat ==
  ASSUME NEW S \in SUBSET Nat, S # {}
  PROVE  \E i \in S : \A j \in S : i <= j
<1>. DEFINE Upto(n) == 0 .. n
            T == {Upto(n) : n \in S}
<1>1. T \subseteq FiniteSubsetsOf(Nat) /\ T # {}
  <2>1. \A n \in S : IsFiniteSet(Upto(n)) /\ Upto(n) \subseteq Nat
    BY FS_Interval
  <2>. QED BY <2>1 DEF FiniteSubsetsOf
<1>2. PICK u \in T : \A v \in T : ~ (<<v, u>> \in StrictSubsetOrdering(Nat))
  <2>1. IsWellFoundedOn(StrictSubsetOrdering(Nat), FiniteSubsetsOf(Nat))
    BY FS_StrictSubsetOrderingWellFounded
  <2>. HIDE DEF T
  <2>. QED BY <1>1, <2>1, WFMin
<1>3. PICK m \in S : u = Upto(m)
  OBVIOUS
<1>4. ASSUME NEW j \in S PROVE m <= j
  <2>1. SUFFICES ASSUME j < m PROVE FALSE
    OBVIOUS
  <2>2. Upto(j) \subseteq Upto(m) /\ Upto(j) # Upto(m)
    <3>1. m \in Upto(m) /\ m \notin Upto(j)
      BY <2>1
    <3>. QED BY <2>1, <3>1
  <2>3. Upto(j) \in T /\ Upto(j) \in SUBSET Nat /\ u \in SUBSET Nat
    BY <1>3
  <2>4. <<Upto(j), u>> \in StrictSubsetOrdering(Nat)
    <3>. HIDE DEF Upto
    <3>. QED BY <2>2, <2>3, <1>3 DEF StrictSubsetOrdering
  <2>. QED BY <1>2, <2>3, <2>4
<1>. QED BY <1>4

\* Cardinality adds up over disjoint finite sets.
LEMMA DisjointUnion ==
  ASSUME NEW S, NEW T, IsFiniteSet(S), IsFiniteSet(T), S \cap T = {}
  PROVE  /\ IsFiniteSet(S \cup T)
         /\ Cardinality(S \cup T) = Cardinality(S) + Cardinality(T)
<1>1. Cardinality(S) \in Nat /\ Cardinality(T) \in Nat
  BY FS_CardinalityType
<1>. QED BY <1>1, FS_Union, FS_EmptySet

\* A number between two others is in the interval up to the larger.
LEMMA InInterval ==
  ASSUME NEW a \in Int, NEW b \in Int, NEW j \in Int, j < b, ~ (j < a)
  PROVE  j \in a .. b - 1
OBVIOUS

\* Adding an element grows a finite set by at most one.
LEMMA GrowsByOne ==
  ASSUME NEW S, NEW x, IsFiniteSet(S)
  PROVE  /\ Cardinality(S) \in Nat /\ Cardinality(S \cup {x}) \in Nat
         /\ Cardinality(S \cup {x}) <= Cardinality(S) + 1
<1>1. IsFiniteSet(S \cup {x}) /\ Cardinality(S) \in Nat
  BY FS_AddElement, FS_CardinalityType
<1>2. Cardinality(S \cup {x}) \in Nat
  BY <1>1, FS_CardinalityType
<1>3. \/ Cardinality(S \cup {x}) = Cardinality(S)
      \/ Cardinality(S \cup {x}) = Cardinality(S) + 1
  BY FS_AddElement
<1>. QED BY <1>1, <1>2, <1>3

\* Sets of pieces and sets of peers are finite.
LEMMA FinitePieces ==
  /\ Piece \in SUBSET Nat
  /\ \A S \in SUBSET Piece : IsFiniteSet(S) /\ Cardinality(S) \in Nat
  /\ Cardinality(Piece) = N
<1>1. Piece \in SUBSET Nat
  BY SchedulerAssumption DEF Piece
<1>2. IsFiniteSet(Piece) /\ Cardinality(Piece) = N
  BY SchedulerAssumption, FS_Interval DEF Piece
<1>. QED BY <1>1, <1>2, FS_Subset, FS_CardinalityType

LEMMA FinitePeers ==
  \A S \in SUBSET Peer : IsFiniteSet(S) /\ Cardinality(S) \in Nat
BY SchedulerAssumption, FS_Subset, FS_CardinalityType

-----------------------------------------------------------------------------
\* Scheduler::new starts from a state that satisfies the invariant.
LEMMA InitSchedInv ==
  ASSUME NEW have \in SUBSET Piece, SchedInit(have)
  PROVE  SchedInv
<1>1. have \subseteq Piece /\ IsFiniteSet(have) /\ Cardinality(have) \in Nat
  BY FinitePieces
<1>2. SchedTypeOK
  BY <1>1, SchedulerAssumption DEF SchedInit, SchedTypeOK, PieceState
<1>3. InState("Done") = have /\ InState("Missing") = Piece \ have
  BY DEF SchedInit, InState
<1>4. Cardinality(Piece \ have) = N - Cardinality(have)
  <2>1. (Piece \ have) \cup have = Piece /\ (Piece \ have) \cap have = {}
    OBVIOUS
  <2>2. IsFiniteSet(Piece \ have) /\ Cardinality(Piece \ have) \in Nat
    BY FinitePieces
  <2>. QED BY <1>1, <2>1, <2>2, FinitePieces, DisjointUnion, SchedulerAssumption
<1>5. CountersExact
  <2>1. \A i \in Piece : Holders(i) = {}
    BY DEF SchedInit, Holders
  <2>2. missing = Cardinality(InState("Missing")) /\ done = Cardinality(InState("Done"))
    BY <1>3, <1>4 DEF SchedInit
  <2>3. \A i \in Piece : availability[i] = 0
    BY DEF SchedInit
  <2>4. Cardinality({}) = 0
    BY FS_EmptySet
  <2>. QED BY <2>1, <2>2, <2>3, <2>4 DEF CountersExact
<1>6. PlayheadExact
  <2>1. first_not_done \in 0 .. N /\ IsPlayhead(first_not_done, 0, pieces)
    BY DEF SchedInit, IsPlayhead
  <2>. QED BY <2>1, SchedulerAssumption DEF PlayheadExact, IsPlayhead, Piece
<1>7. RequestsSound
  BY FS_EmptySet, SchedulerAssumption DEF SchedInit, RequestsSound
<1>. QED BY <1>2, <1>5, <1>6, <1>7 DEF SchedInv

\* What drop_request does to the pieces, whoever calls it.
LEMMA DropRequestsEffect ==
  ASSUME SchedInv, NEW S \in SUBSET Piece, NEW k \in Peer, DropRequests(S, k)
  PROVE  /\ pieces' \in [Piece -> PieceState]
         /\ by' \in [Piece -> SUBSET Peer]
         /\ missing' \in Int
         /\ missing' = Cardinality(InState("Missing")')
         /\ InState("Done")' = InState("Done")
         /\ \A i \in Piece : /\ by'[i] # {} <=> pieces'[i] = "InFlight"
                             /\ by'[i] \subseteq by[i]
                             /\ i \in S => k \notin by'[i]
                             /\ Cardinality(by'[i]) <= EndgameDuplicates
<1>. DEFINE R == Released(S, k)
<1>1. pieces \in [Piece -> PieceState] /\ by \in [Piece -> SUBSET Peer]
  BY DEF SchedInv, SchedTypeOK
<1>2. R \in SUBSET Piece /\ R \cap InState("Missing") = {}
  BY DEF Released, InState
<1>3. /\ pieces' \in [Piece -> PieceState]
      /\ by' \in [Piece -> SUBSET Peer]
      /\ InState("Done")' = InState("Done")
      /\ InState("Missing")' = InState("Missing") \cup R
  BY <1>1 DEF DropRequests, Released, InState, PieceState
<1>4. missing' = Cardinality(InState("Missing")') /\ missing' \in Int
  <2>1. InState("Missing") \in SUBSET Piece
    BY DEF InState
  <2>2. missing = Cardinality(InState("Missing"))
    BY DEF SchedInv, CountersExact
  <2>3. missing' = missing + Cardinality(R)
    BY DEF DropRequests
  <2>. QED BY <1>2, <1>3, <2>1, <2>2, <2>3, FinitePieces, DisjointUnion
<1>5. ASSUME NEW i \in Piece
      PROVE  /\ by'[i] # {} <=> pieces'[i] = "InFlight"
             /\ by'[i] \subseteq by[i]
             /\ i \in S => k \notin by'[i]
             /\ Cardinality(by'[i]) <= EndgameDuplicates
  <2>1. by[i] # {} <=> pieces[i] = "InFlight"
    BY DEF SchedInv, RequestsSound
  <2>2. by'[i] \subseteq by[i] /\ (i \in S => k \notin by'[i])
    BY <1>1 DEF DropRequests
  <2>3. by'[i] # {} <=> pieces'[i] = "InFlight"
    BY <1>1, <2>1 DEF DropRequests, Released
  <2>4. Cardinality(by'[i]) <= EndgameDuplicates
    <3>1. by[i] \in SUBSET Peer /\ Cardinality(by[i]) <= EndgameDuplicates
      BY <1>1 DEF SchedInv, RequestsSound
    <3>2. Cardinality(by'[i]) <= Cardinality(by[i])
      BY <2>2, <3>1, FinitePeers, FS_Subset
    <3>. QED BY <2>2, <3>1, <3>2, FinitePeers, SchedulerAssumption
  <2>. QED BY <2>2, <2>3, <2>4
<1>. QED BY <1>3, <1>4, <1>5

\* The playhead stays exact while no piece enters or leaves Done.
LEMMA PlayheadKept ==
  ASSUME SchedInv, pieces' \in [Piece -> PieceState],
         InState("Done")' = InState("Done"), first_not_done' = first_not_done
  PROVE  PlayheadExact'
<1>1. \A i \in Piece : pieces'[i] = "Done" <=> pieces[i] = "Done"
  BY DEF InState
<1>2. first_not_done \in 0 .. N /\ (first_not_done < N => first_not_done \in Piece)
  BY SchedulerAssumption DEF SchedInv, SchedTypeOK, Piece
<1>. QED BY <1>1, <1>2 DEF SchedInv, PlayheadExact

\* The holders of every piece, after a peer's bits become `have`.
LEMMA HoldersCount ==
  ASSUME SchedInv, NEW k \in Peer, NEW i \in Piece, NEW have,
         Holders(i)' = IF i \in have THEN Holders(i) \cup {k} ELSE Holders(i) \ {k}
  PROVE  Cardinality(Holders(i)') =
            availability[i] - Count(k \in Holders(i)) + Count(i \in have)
<1>1. Holders(i) \in SUBSET Peer
  BY DEF SchedInv, SchedTypeOK, Holders
<1>2. IsFiniteSet(Holders(i)) /\ Cardinality(Holders(i)) \in Nat
  BY <1>1, FinitePeers
<1>3. availability[i] = Cardinality(Holders(i))
  BY DEF SchedInv, CountersExact
<1>. DEFINE H == Holders(i)
<1>4. Cardinality(H \cup {k}) = IF k \in H THEN Cardinality(H) ELSE Cardinality(H) + 1
  BY <1>2, FS_AddElement
<1>5. Cardinality(H \ {k}) = IF k \in H THEN Cardinality(H) - 1 ELSE Cardinality(H)
  BY <1>2, FS_RemoveElement
<1>. HIDE DEF H
<1>6. CASE i \in have
  <2>1. Holders(i)' = H \cup {k}
    BY <1>6 DEF H
  <2>. QED BY <1>2, <1>3, <1>4, <1>6, <2>1 DEF Count, H
<1>7. CASE i \notin have
  <2>1. Holders(i)' = H \ {k}
    BY <1>7 DEF H
  <2>. QED BY <1>2, <1>3, <1>5, <1>7, <2>1 DEF Count, H
<1>. QED BY <1>6, <1>7

LEMMA StutterInv ==
  ASSUME SchedInv, UNCHANGED schedVars
  PROVE  SchedInv'
BY DEF schedVars, SchedInv, SchedTypeOK, CountersExact, PlayheadExact,
       RequestsSound, InState, Holders

LEMMA RemovePeerInv ==
  ASSUME SchedInv, NEW k \in Peer, RemovePeer(k)
  PROVE  SchedInv'
<1>1. CASE k \notin known
  BY <1>1, StutterInv DEF RemovePeer
<1>2. CASE k \in known
  <2>1. DropRequests(Piece, k)
    BY <1>2 DEF RemovePeer
  <2>2. /\ availability' = [i \in Piece |-> availability[i] - Count(i \in bits[k])]
        /\ known' = known \ {k}
        /\ bits' = [bits EXCEPT ![k] = {}]
        /\ UNCHANGED <<first_not_done, done>>
    BY <1>2 DEF RemovePeer
  <2>3. SchedTypeOK
    BY DEF SchedInv
  <2>4. \A i \in Piece : availability[i] - Count(i \in bits[k]) \in Int
    BY <2>3 DEF SchedTypeOK, Count
  <2>5. SchedTypeOK'
    BY <2>1, <2>2, <2>3, <2>4, DropRequestsEffect DEF SchedTypeOK
  <2>6. ASSUME NEW i \in Piece
        PROVE  /\ availability'[i] = Cardinality(Holders(i)')
               /\ Holders(i)' = Holders(i) \ {k}
    <3>1. Holders(i)' = Holders(i) \ {k}
      BY <2>2, <2>3 DEF Holders, SchedTypeOK
    <3>2. Cardinality(Holders(i)') = availability[i] - Count(k \in Holders(i)) + Count(i \in {})
      BY <3>1, HoldersCount
    <3>3. (k \in Holders(i)) = (i \in bits[k])
      BY <1>2 DEF Holders
    <3>4. availability'[i] = availability[i] - Count(i \in bits[k])
      BY <2>2
    <3>. QED BY <2>3, <3>1, <3>2, <3>3, <3>4 DEF Count, SchedTypeOK
  <2>7. CountersExact'
    BY <2>1, <2>2, <2>6, DropRequestsEffect DEF SchedInv, CountersExact
  <2>8. PlayheadExact'
    BY <2>1, <2>2, DropRequestsEffect, PlayheadKept
  <2>9. RequestsSound'
    <3>1. ASSUME NEW i \in Piece PROVE by'[i] \subseteq Holders(i)'
      <4>1. by[i] \subseteq Holders(i)
        BY DEF SchedInv, RequestsSound
      <4>2. by'[i] \subseteq by[i] /\ k \notin by'[i]
        BY <2>1, DropRequestsEffect
      <4>. QED BY <2>6, <4>1, <4>2
    <3>. QED BY <2>1, <3>1, DropRequestsEffect DEF RequestsSound
  <2>. QED BY <2>5, <2>7, <2>8, <2>9 DEF SchedInv
<1>. QED BY <1>1, <1>2

LEMMA AddPeerInv ==
  ASSUME SchedInv, NEW k \in Peer, NEW have \in SUBSET Piece, AddPeer(k, have)
  PROVE  SchedInv'
<1>. DEFINE S == IF k \in known THEN Piece ELSE {}
<1>1. S \in SUBSET Piece /\ DropRequests(S, k)
  BY DEF AddPeer
<1>2. /\ availability' = [i \in Piece |->
            availability[i] - Count(k \in known /\ i \in bits[k]) + Count(i \in have)]
      /\ known' = known \cup {k}
      /\ bits' = [bits EXCEPT ![k] = have]
      /\ UNCHANGED <<first_not_done, done>>
  BY DEF AddPeer
<1>3. SchedTypeOK
  BY DEF SchedInv
<1>. HIDE DEF S
<1>4. ASSUME NEW i \in Piece
      PROVE  /\ availability'[i] = Cardinality(Holders(i)')
             /\ availability'[i] \in Int
             /\ Holders(i) \ {k} \subseteq Holders(i)'
  <2>1. Holders(i)' = IF i \in have THEN Holders(i) \cup {k} ELSE Holders(i) \ {k}
    <3>1. \A q \in Peer : q \in Holders(i)' <=>
             IF q = k THEN i \in have ELSE q \in Holders(i)
      BY <1>2, <1>3 DEF Holders, SchedTypeOK
    <3>2. Holders(i) \subseteq Peer /\ Holders(i)' \subseteq Peer
      BY <1>2, <1>3 DEF Holders, SchedTypeOK
    <3>. QED BY <3>1, <3>2
  <2>2. Cardinality(Holders(i)') =
           availability[i] - Count(k \in Holders(i)) + Count(i \in have)
    BY <2>1, HoldersCount
  <2>3. (k \in Holders(i)) = (k \in known /\ i \in bits[k])
    BY DEF Holders
  <2>4. availability'[i] =
           availability[i] - Count(k \in known /\ i \in bits[k]) + Count(i \in have)
    BY <1>2
  <2>. QED BY <1>3, <2>1, <2>2, <2>3, <2>4 DEF Count, SchedTypeOK
<1>5. SchedTypeOK'
  <2>1. availability' \in [Piece -> Int]
    BY <1>2, <1>4
  <2>. QED BY <1>1, <1>2, <1>3, <2>1, DropRequestsEffect DEF SchedTypeOK
<1>6. CountersExact'
  BY <1>1, <1>2, <1>4, DropRequestsEffect DEF SchedInv, CountersExact
<1>7. PlayheadExact'
  BY <1>1, <1>2, DropRequestsEffect, PlayheadKept
<1>8. RequestsSound'
  <2>1. ASSUME NEW i \in Piece PROVE by'[i] \subseteq Holders(i)'
    <3>1. by[i] \subseteq Holders(i)
      BY DEF SchedInv, RequestsSound
    <3>2. k \notin by'[i]
      <4>1. CASE k \in known
        BY <1>1, <4>1, DropRequestsEffect DEF S
      <4>2. CASE k \notin known
        BY <1>1, <3>1, <4>2, DropRequestsEffect DEF Holders
      <4>. QED BY <4>1, <4>2
    <3>3. by'[i] \subseteq by[i]
      BY <1>1, DropRequestsEffect
    <3>. QED BY <1>4, <3>1, <3>2, <3>3
  <2>. QED BY <1>1, <2>1, DropRequestsEffect DEF RequestsSound
<1>. QED BY <1>5, <1>6, <1>7, <1>8 DEF SchedInv

LEMMA SetPeerHasInv ==
  ASSUME SchedInv, NEW k \in Peer, NEW i \in Piece, SetPeerHas(k, i)
  PROVE  SchedInv'
<1>1. SchedTypeOK
  BY DEF SchedInv
<1>2. CASE ~ (k \in known /\ i \notin bits[k])
  BY <1>2, StutterInv DEF SetPeerHas
<1>3. CASE k \in known /\ i \notin bits[k]
  <2>1. /\ bits' = [bits EXCEPT ![k] = @ \cup {i}]
        /\ availability' = [availability EXCEPT ![i] = @ + 1]
        /\ UNCHANGED <<pieces, by, known, first_not_done, missing, done>>
    BY <1>3 DEF SetPeerHas
  <2>2. SchedTypeOK'
    BY <1>1, <2>1 DEF SchedTypeOK
  <2>3. \A j \in Piece : Holders(j)' = IF j = i THEN Holders(j) \cup {k} ELSE Holders(j)
    BY <1>1, <1>3, <2>1 DEF SchedTypeOK, Holders
  <2>4. Cardinality(Holders(i)') = availability[i] + 1
    <3>1. Cardinality(Holders(i)') =
             availability[i] - Count(k \in Holders(i)) + Count(i \in {i})
      BY <2>3, HoldersCount
    <3>2. k \notin Holders(i)
      BY <1>3 DEF Holders
    <3>. QED BY <1>1, <3>1, <3>2 DEF Count, SchedTypeOK
  <2>5. \A j \in Piece : availability'[j] = Cardinality(Holders(j)')
    BY <1>1, <2>1, <2>3, <2>4 DEF SchedInv, SchedTypeOK, CountersExact
  <2>6. CountersExact'
    BY <2>1, <2>5 DEF SchedInv, CountersExact, InState
  <2>7. PlayheadExact' /\ RequestsSound'
    BY <2>1, <2>3 DEF SchedInv, PlayheadExact, RequestsSound
  <2>. QED BY <2>2, <2>6, <2>7 DEF SchedInv
<1>. QED BY <1>2, <1>3

\* What pick may choose: a piece the peer holds that is Missing, or, in
\* endgame, one in flight that the peer is not fetching yet.
LEMMA PicksSound ==
  ASSUME SchedInv, NEW k \in Peer, NEW i \in Picks(k)
  PROVE  /\ k \in known /\ i \in Piece /\ i \in bits[k]
         /\ pieces[i] # "Done"
         /\ pieces[i] = "InFlight" => /\ Cardinality(by[i]) < EndgameDuplicates
                                      /\ k \notin by[i]
                                      /\ InState("Missing") = {}
<1>1. SchedTypeOK
  BY DEF SchedInv
<1>2. k \in known /\ bits[k] \subseteq Piece
  BY <1>1 DEF Picks, SchedTypeOK
<1>3. CASE Urgent(k) # {} \/ missing > 0
  <2>1. i \in Wanted(k)
    BY <1>2, <1>3 DEF Picks, Lowest, Urgent, Rarest, Sampled
  <2>. QED BY <1>2, <2>1 DEF Wanted
<1>4. CASE Urgent(k) = {} /\ ~ (missing > 0)
  <2>1. i \in Helpable(k)
    BY <1>2, <1>4 DEF Picks, LeastAsked
  <2>2. InState("Missing") = {}
    <3>1. InState("Missing") \in SUBSET Piece
      BY DEF InState
    <3>2. Cardinality(InState("Missing")) = 0
      BY <1>4, <3>1, FinitePieces DEF SchedInv, CountersExact
    <3>. QED BY <3>1, <3>2, FinitePieces, FS_EmptySet
  <2>. QED BY <1>2, <2>1, <2>2 DEF Helpable
<1>. QED BY <1>3, <1>4

LEMMA PickInv ==
  ASSUME SchedInv, NEW k \in Peer, NEW i \in Piece, Pick(k, i)
  PROVE  SchedInv'
<1>1. SchedTypeOK
  BY DEF SchedInv
<1>2. /\ k \in known /\ i \in bits[k] /\ pieces[i] # "Done"
      /\ pieces[i] = "InFlight" => Cardinality(by[i]) < EndgameDuplicates
  BY PicksSound DEF Pick
<1>3. /\ pieces' = [pieces EXCEPT ![i] = "InFlight"]
      /\ by' = [by EXCEPT ![i] = @ \cup {k}]
      /\ missing' = missing - Count(pieces[i] = "Missing")
      /\ UNCHANGED <<availability, known, bits, first_not_done, done>>
  BY DEF Pick
<1>4. SchedTypeOK'
  BY <1>1, <1>3 DEF SchedTypeOK, PieceState, Count
<1>5. /\ InState("Missing")' = InState("Missing") \ {i}
      /\ InState("Done")' = InState("Done")
  BY <1>1, <1>2, <1>3 DEF SchedTypeOK, InState
<1>6. missing' = Cardinality(InState("Missing")')
  <2>1. IsFiniteSet(InState("Missing")) /\ Cardinality(InState("Missing")) \in Nat
    BY FinitePieces DEF InState
  <2>2. missing = Cardinality(InState("Missing"))
    BY DEF SchedInv, CountersExact
  <2>3. i \in InState("Missing") <=> pieces[i] = "Missing"
    BY DEF InState
  <2>. QED BY <1>3, <1>5, <2>1, <2>2, <2>3, FS_RemoveElement DEF Count
<1>7. \A j \in Piece : Holders(j)' = Holders(j)
  BY <1>3 DEF Holders
<1>8. CountersExact'
  BY <1>3, <1>5, <1>6, <1>7 DEF SchedInv, CountersExact
<1>9. PlayheadExact'
  BY <1>3, <1>4, <1>5, PlayheadKept DEF SchedTypeOK
<1>10. RequestsSound'
  <2>1. ASSUME NEW j \in Piece
        PROVE  /\ by'[j] # {} <=> pieces'[j] = "InFlight"
               /\ by'[j] \subseteq Holders(j)'
               /\ Cardinality(by'[j]) <= EndgameDuplicates
    <3>1. /\ by[j] # {} <=> pieces[j] = "InFlight"
          /\ by[j] \subseteq Holders(j)
          /\ Cardinality(by[j]) <= EndgameDuplicates
          /\ by[j] \in SUBSET Peer
      BY <1>1 DEF SchedInv, SchedTypeOK, RequestsSound
    <3>2. CASE j # i
      BY <1>1, <1>3, <1>7, <3>1, <3>2 DEF SchedTypeOK
    <3>3. CASE j = i
      <4>1. by'[i] = by[i] \cup {k} /\ pieces'[i] = "InFlight"
        BY <1>1, <1>3 DEF SchedTypeOK
      <4>2. k \in Holders(i)
        BY <1>2 DEF Holders
      <4>3. Cardinality(by[i]) < EndgameDuplicates
        BY <1>1, <1>2, <3>1, <3>3, FS_EmptySet, SchedulerAssumption
           DEF SchedTypeOK, PieceState
      <4>4. IsFiniteSet(by[i]) /\ Cardinality(by[i]) \in Nat
        BY <3>1, <3>3, FinitePeers
      <4>5. Cardinality(by[i] \cup {k}) <= EndgameDuplicates
        <5>1. /\ Cardinality(by[i] \cup {k}) \in Nat
              /\ Cardinality(by[i] \cup {k}) <= Cardinality(by[i]) + 1
          BY <4>4, GrowsByOne
        <5>. QED BY <4>3, <4>4, <5>1, SchedulerAssumption
      <4>. QED BY <1>7, <3>1, <3>3, <4>1, <4>2, <4>5
    <3>. QED BY <3>2, <3>3
  <2>. QED BY <2>1 DEF RequestsSound
<1>. QED BY <1>4, <1>8, <1>9, <1>10 DEF SchedInv

LEMMA CompleteInv ==
  ASSUME SchedInv, NEW i \in Piece, Complete(i)
  PROVE  SchedInv'
<1>1. SchedTypeOK /\ first_not_done \in Nat /\ N \in Nat /\ i \in Nat
  BY SchedulerAssumption, FinitePieces DEF SchedInv, SchedTypeOK
<1>2. /\ pieces' = [pieces EXCEPT ![i] = "Done"]
      /\ by' = [by EXCEPT ![i] = {}]
      /\ missing' = missing - Count(pieces[i] = "Missing")
      /\ done' = done + Count(pieces[i] # "Done")
      /\ UNCHANGED <<availability, known, bits>>
  BY DEF Complete
<1>3. pieces' \in [Piece -> PieceState] /\ by' \in [Piece -> SUBSET Peer]
  BY <1>1, <1>2 DEF SchedTypeOK, PieceState
<1>4. CASE pieces[i] = "Done"
  <2>1. pieces' = pieces /\ first_not_done' = first_not_done
    BY <1>1, <1>2, <1>4 DEF Complete, SchedTypeOK
  <2>2. by' = by
    BY <1>1, <1>2, <1>4 DEF SchedInv, SchedTypeOK, RequestsSound
  <2>3. missing' = missing /\ done' = done
    BY <1>1, <1>2, <1>4 DEF SchedTypeOK, Count
  <2>. QED BY <1>2, <2>1, <2>2, <2>3, StutterInv DEF schedVars
<1>5. CASE pieces[i] # "Done"
  <2>1. /\ first_not_done' \in first_not_done .. N
        /\ IsPlayhead(first_not_done', first_not_done, pieces')
    BY <1>5 DEF Complete
  <2>2. SchedTypeOK'
    <3>1. first_not_done' \in 0 .. N
      BY <1>1, <2>1
    <3>2. missing' \in Int /\ done' \in Int
      BY <1>1, <1>2 DEF SchedTypeOK, Count
    <3>. QED BY <1>1, <1>2, <1>3, <3>1, <3>2 DEF SchedTypeOK
  <2>3. /\ InState("Missing")' = InState("Missing") \ {i}
        /\ InState("Done")' = InState("Done") \cup {i}
        /\ i \notin InState("Done")
        /\ i \in InState("Missing") <=> pieces[i] = "Missing"
    BY <1>1, <1>2, <1>5 DEF SchedTypeOK, InState
  <2>4. CountersExact'
    <3>1. \A s \in {"Missing", "Done"} :
             IsFiniteSet(InState(s)) /\ Cardinality(InState(s)) \in Nat
      BY FinitePieces DEF InState
    <3>2. missing = Cardinality(InState("Missing")) /\ done = Cardinality(InState("Done"))
      BY DEF SchedInv, CountersExact
    <3>3. missing' = Cardinality(InState("Missing")')
      BY <1>2, <2>3, <3>1, <3>2, FS_RemoveElement DEF Count
    <3>4. done' = Cardinality(InState("Done")')
      BY <1>2, <1>5, <2>3, <3>1, <3>2, FS_AddElement DEF Count
    <3>5. \A j \in Piece : availability'[j] = Cardinality(Holders(j)')
      BY <1>2 DEF SchedInv, CountersExact, Holders
    <3>. QED BY <3>3, <3>4, <3>5 DEF CountersExact
  <2>5. PlayheadExact'
    <3>1. ASSUME NEW j \in Piece, j < first_not_done' PROVE pieces'[j] = "Done"
      <4>1. j \in Nat
        BY FinitePieces
      <4>2. CASE j < first_not_done
        BY <1>1, <1>2, <4>2 DEF SchedInv, PlayheadExact, SchedTypeOK
      <4>3. CASE ~ (j < first_not_done)
        <5>1. j \in first_not_done .. first_not_done' - 1
          <6>1. first_not_done' \in Int /\ first_not_done \in Int /\ j \in Int
            BY <1>1, <2>1, <4>1
          <6>. QED BY <3>1, <4>3, <6>1, InInterval
        <5>. QED BY <2>1, <5>1 DEF IsPlayhead
      <4>. QED BY <4>2, <4>3
    <3>2. first_not_done' < N => pieces'[first_not_done'] # "Done"
      BY <2>1 DEF IsPlayhead
    <3>. QED BY <3>1, <3>2 DEF PlayheadExact
  <2>6. RequestsSound'
    <3>1. \A j \in Piece : Holders(j)' = Holders(j)
      BY <1>2 DEF Holders
    <3>2. Cardinality({}) <= EndgameDuplicates
      BY FS_EmptySet, SchedulerAssumption
    <3>. QED BY <1>1, <1>2, <3>1, <3>2 DEF SchedInv, SchedTypeOK, RequestsSound
  <2>. QED BY <2>2, <2>4, <2>5, <2>6 DEF SchedInv
<1>. QED BY <1>4, <1>5

LEMMA FailedInv ==
  ASSUME SchedInv, NEW k \in Peer, NEW i \in Piece, NEW lacks \in BOOLEAN,
         Failed(i, k, lacks)
  PROVE  SchedInv'
<1>1. SchedTypeOK
  BY DEF SchedInv
<1>2. DropRequests({i}, k) /\ UNCHANGED <<known, first_not_done, done>>
  BY DEF Failed
<1>3. {i} \in SUBSET Piece
  OBVIOUS
<1>4. PlayheadExact'
  BY <1>2, <1>3, DropRequestsEffect, PlayheadKept
<1>5. CASE lacks /\ k \in known /\ i \in bits[k]
  <2>1. /\ bits' = [bits EXCEPT ![k] = @ \ {i}]
        /\ availability' = [availability EXCEPT ![i] = @ - 1]
    BY <1>5 DEF Failed
  <2>2. \A j \in Piece : Holders(j)' = IF j = i THEN Holders(j) \ {k} ELSE Holders(j)
    BY <1>1, <1>2, <2>1 DEF SchedTypeOK, Holders
  <2>3. Cardinality(Holders(i)') = availability[i] - 1
    <3>1. Cardinality(Holders(i)') =
             availability[i] - Count(k \in Holders(i)) + Count(i \in {})
      BY <2>2, HoldersCount
    <3>2. k \in Holders(i)
      BY <1>5 DEF Holders
    <3>. QED BY <1>1, <3>1, <3>2 DEF Count, SchedTypeOK
  <2>4. \A j \in Piece : availability'[j] = Cardinality(Holders(j)')
    BY <1>1, <2>1, <2>2, <2>3 DEF SchedInv, SchedTypeOK, CountersExact
  <2>5. CountersExact'
    BY <1>2, <1>3, <2>4, DropRequestsEffect DEF SchedInv, CountersExact
  <2>6. SchedTypeOK'
    <3>1. bits' \in [Peer -> SUBSET Piece] /\ availability' \in [Piece -> Int]
      BY <1>1, <2>1 DEF SchedTypeOK
    <3>. QED BY <1>1, <1>2, <1>3, <3>1, DropRequestsEffect DEF SchedTypeOK
  <2>7. RequestsSound'
    <3>1. ASSUME NEW j \in Piece PROVE by'[j] \subseteq Holders(j)'
      <4>1. by[j] \subseteq Holders(j)
        BY DEF SchedInv, RequestsSound
      <4>2. by'[j] \subseteq by[j] /\ (j = i => k \notin by'[j])
        BY <1>2, <1>3, DropRequestsEffect
      <4>. QED BY <2>2, <4>1, <4>2
    <3>. QED BY <1>2, <1>3, <3>1, DropRequestsEffect DEF RequestsSound
  <2>. QED BY <1>4, <2>5, <2>6, <2>7 DEF SchedInv
<1>6. CASE ~ (lacks /\ k \in known /\ i \in bits[k])
  <2>1. UNCHANGED <<bits, availability>>
    BY <1>6 DEF Failed
  <2>2. \A j \in Piece : Holders(j)' = Holders(j)
    BY <1>2, <2>1 DEF Holders
  <2>3. CountersExact'
    BY <1>2, <1>3, <2>1, <2>2, DropRequestsEffect DEF SchedInv, CountersExact
  <2>4. SchedTypeOK'
    BY <1>1, <1>2, <1>3, <2>1, DropRequestsEffect DEF SchedTypeOK
  <2>5. RequestsSound'
    <3>1. \A j \in Piece : by[j] \subseteq Holders(j)
      BY DEF SchedInv, RequestsSound
    <3>2. \A j \in Piece : by'[j] \subseteq by[j]
      BY <1>2, <1>3, DropRequestsEffect
    <3>3. \A j \in Piece : by'[j] \subseteq Holders(j)'
      BY <2>2, <3>1, <3>2
    <3>. QED BY <1>2, <1>3, <3>3, DropRequestsEffect DEF RequestsSound
  <2>. QED BY <1>4, <2>3, <2>4, <2>5 DEF SchedInv
<1>. QED BY <1>5, <1>6

LEMMA NextSchedInv ==
  ASSUME SchedInv, [Next]_schedVars
  PROVE  SchedInv'
<1>1. CASE Next
  <2>1. PICK k \in Peer :
          \/ RemovePeer(k)
          \/ \E have \in SUBSET Piece : AddPeer(k, have)
          \/ \E i \in Piece : \/ SetPeerHas(k, i)
                              \/ Pick(k, i)
                              \/ Complete(i)
                              \/ \E lacks \in BOOLEAN : Failed(i, k, lacks)
    BY <1>1 DEF Next
  <2>. QED BY <2>1, RemovePeerInv, AddPeerInv, SetPeerHasInv, PickInv,
              CompleteInv, FailedInv
<1>2. CASE UNCHANGED schedVars
  BY <1>2, StutterInv
<1>. QED BY <1>1, <1>2

-----------------------------------------------------------------------------
(* The theorems.                                                           *)

\* The inductive invariant: whatever order the workers, the update loop and
\* departing peers call the scheduler in, its types, counters, playhead and
\* request lists stay right.
THEOREM SchedulerInvariant == Spec => []SchedInv
<1>1. Init => SchedInv
  BY InitSchedInv DEF Init
<1>2. SchedInv /\ [Next]_schedVars => SchedInv'
  BY NextSchedInv
<1>. QED BY <1>1, <1>2, PTL DEF Spec

\* The type invariant: every field of the struct keeps its type.
THEOREM SchedulerTypeOK == Spec => []SchedTypeOK
<1>1. SchedInv => SchedTypeOK
  BY DEF SchedInv
<1>. QED BY <1>1, SchedulerInvariant, PTL

\* The counters `missing`, `done` and `availability` always equal what they
\* count: none of the unsigned subtractions of scheduler.rs can wrap.
THEOREM SchedulerCountersExact == Spec => []CountersExact
<1>1. SchedInv => CountersExact
  BY DEF SchedInv
<1>. QED BY <1>1, SchedulerInvariant, PTL

\* first_not_done is always the first piece that is not Done.
THEOREM SchedulerPlayheadExact == Spec => []PlayheadExact
<1>1. SchedInv => PlayheadExact
  BY DEF SchedInv
<1>. QED BY <1>1, SchedulerInvariant, PTL

\* A piece is InFlight exactly while connected peers that hold it fetch it,
\* and never more of them than ENDGAME_DUPLICATES.
THEOREM SchedulerRequestsSound == Spec => []RequestsSound
<1>1. SchedInv => RequestsSound
  BY DEF SchedInv
<1>. QED BY <1>1, SchedulerInvariant, PTL

\* What one call may do to a piece that is Done or already asked for.
LEMMA StepEffect ==
  ASSUME SchedInv, [Next]_schedVars, NEW i \in Piece
  PROVE  /\ pieces[i] = "Done" => pieces'[i] = "Done"
         /\ by[i] # {} /\ by'[i] \ by[i] # {} => InState("Missing") = {}
<1>. USE DEF Count
<1>1. /\ pieces \in [Piece -> PieceState] /\ by \in [Piece -> SUBSET Peer]
      /\ by[i] # {} <=> pieces[i] = "InFlight"
  BY DEF SchedInv, SchedTypeOK, RequestsSound
<1>2. ASSUME NEW k \in Peer, NEW S \in SUBSET Piece, DropRequests(S, k)
      PROVE  /\ pieces[i] = "Done" => pieces'[i] = "Done"
             /\ by'[i] \ by[i] = {}
  BY <1>1, <1>2 DEF DropRequests, Released
<1>3. CASE Next
  <2>1. PICK k \in Peer :
          \/ RemovePeer(k)
          \/ \E have \in SUBSET Piece : AddPeer(k, have)
          \/ \E j \in Piece : \/ SetPeerHas(k, j)
                              \/ Pick(k, j)
                              \/ Complete(j)
                              \/ \E lacks \in BOOLEAN : Failed(j, k, lacks)
    BY <1>3 DEF Next
  <2>2. CASE RemovePeer(k)
    <3>1. DropRequests(Piece, k) \/ UNCHANGED schedVars
      BY <2>2 DEF RemovePeer
    <3>. QED BY <1>2, <3>1 DEF schedVars
  <2>3. CASE \E have \in SUBSET Piece : AddPeer(k, have)
    <3>1. \E S \in SUBSET Piece : DropRequests(S, k)
      BY <2>3 DEF AddPeer
    <3>. QED BY <1>2, <3>1
  <2>4. CASE \E j \in Piece : SetPeerHas(k, j)
    BY <2>4 DEF SetPeerHas, schedVars
  <2>5. ASSUME NEW j \in Piece, Pick(k, j)
        PROVE  /\ pieces[i] = "Done" => pieces'[i] = "Done"
               /\ by[i] # {} /\ by'[i] \ by[i] # {} => InState("Missing") = {}
    <3>1. /\ pieces[j] # "Done"
          /\ pieces[j] = "InFlight" => InState("Missing") = {}
      BY <2>5, PicksSound DEF Pick
    <3>. QED BY <1>1, <2>5, <3>1 DEF Pick, PieceState
  <2>6. CASE \E j \in Piece : Complete(j)
    BY <1>1, <2>6 DEF Complete
  <2>7. CASE \E j \in Piece, lacks \in BOOLEAN : Failed(j, k, lacks)
    <3>1. \E j \in Piece : DropRequests({j}, k)
      BY <2>7 DEF Failed
    <3>2. PICK j \in Piece : DropRequests({j}, k)
      BY <3>1
    <3>3. {j} \in SUBSET Piece
      OBVIOUS
    <3>. QED BY <1>2, <3>2, <3>3
  <2>. QED BY <2>1, <2>2, <2>3, <2>4, <2>5, <2>6, <2>7
<1>4. CASE UNCHANGED schedVars
  BY <1>4 DEF schedVars
<1>. QED BY <1>3, <1>4

\* A verified piece is never asked for again.
THEOREM SchedulerDoneStaysDone == Spec => DoneStaysDone
<1>1. SchedInv /\ [Next]_schedVars =>
        [\A i \in Piece : pieces[i] = "Done" => pieces'[i] = "Done"]_schedVars
  BY StepEffect
<1>. QED BY <1>1, SchedulerInvariant, PTL DEF Spec, DoneStaysDone

\* A second peer is put on a piece only when no piece at all is Missing.
THEOREM SchedulerDuplicatesOnlyInEndgame == Spec => DuplicatesOnlyInEndgame
<1>1. SchedInv /\ [Next]_schedVars =>
        [\A i \in Piece :
           by[i] # {} /\ by'[i] \ by[i] # {} => InState("Missing") = {}]_schedVars
  BY StepEffect
<1>. QED BY <1>1, SchedulerInvariant, PTL DEF Spec, DuplicatesOnlyInEndgame

-----------------------------------------------------------------------------
(* What pick chooses.                                                      *)

\* Among the members of a set there is one of the least rank, and among those
\* one that comes first.
LEMMA LeastInRank ==
  ASSUME NEW S, S # {}, NEW rank \in [S -> Nat], NEW place \in [S -> Nat]
  PROVE  \E i \in S : \A j \in S :
            \/ rank[i] < rank[j]
            \/ rank[i] = rank[j] /\ place[i] <= place[j]
<1>1. PICK r \in {rank[i] : i \in S} : \A q \in {rank[i] : i \in S} : r <= q
  <2>1. {rank[i] : i \in S} \in SUBSET Nat /\ {rank[i] : i \in S} # {}
    OBVIOUS
  <2>. QED BY <2>1, LeastNat
<1>. DEFINE Least == {i \in S : rank[i] = r}
<1>2. PICK p \in {place[i] : i \in Least} : \A q \in {place[i] : i \in Least} : p <= q
  <2>1. {place[i] : i \in Least} \in SUBSET Nat /\ {place[i] : i \in Least} # {}
    OBVIOUS
  <2>. QED BY <2>1, LeastNat
<1>3. PICK i \in Least : place[i] = p
  OBVIOUS
<1>4. ASSUME NEW j \in S
      PROVE  \/ rank[i] < rank[j]
             \/ rank[i] = rank[j] /\ place[i] <= place[j]
  <2>1. rank[i] = r /\ r <= rank[j] /\ r \in Nat /\ rank[j] \in Nat
    BY <1>1, <1>3
  <2>2. CASE rank[j] = r
    BY <1>2, <1>3, <2>1, <2>2
  <2>3. CASE rank[j] # r
    BY <2>1, <2>3
  <2>. QED BY <2>2, <2>3
<1>. QED BY <1>3, <1>4

\* A set whose members are all equal has at most one.
LEMMA AtMostOne ==
  ASSUME NEW S, \A a, b \in S : a = b
  PROVE  Cardinality(S) <= 1
<1>1. CASE S = {}
  BY <1>1, FS_EmptySet
<1>2. CASE S # {}
  <2>1. \E x : S = {x}
    BY <1>2
  <2>. QED BY <2>1, FS_Singleton
<1>. QED BY <1>1, <1>2

\* A piece that is not Done is not before the playhead, so rule 2 scans what a
\* peer could deliver in index order; the peer itself holds each such piece.
LEMMA WantedFacts ==
  ASSUME SchedInv, NEW k \in known
  PROVE  /\ k \in Peer /\ bits[k] \in SUBSET Piece /\ Wanted(k) \in SUBSET Piece
         /\ first_not_done \in Nat
         /\ \A i \in Piece : /\ i \in Nat
                             /\ availability[i] \in Nat
                             /\ pieces[i] # "Done" => first_not_done <= i
         /\ \A i \in Wanted(k) : /\ pieces[i] = "Missing"
                                 /\ ScanPos(i) = i - first_not_done
                                 /\ ScanPos(i) \in Nat
                                 /\ availability[i] >= 1
<1>1. /\ k \in Peer /\ bits[k] \in SUBSET Piece /\ Wanted(k) \in SUBSET Piece
      /\ first_not_done \in Nat
  BY SchedulerAssumption DEF SchedInv, SchedTypeOK, Wanted
<1>2. ASSUME NEW i \in Piece
      PROVE  /\ i \in Nat
             /\ availability[i] = Cardinality(Holders(i))
             /\ IsFiniteSet(Holders(i)) /\ Cardinality(Holders(i)) \in Nat
             /\ pieces[i] # "Done" => first_not_done <= i
  <2>1. i \in Nat
    BY FinitePieces
  <2>2. Holders(i) \in SUBSET Peer
    BY DEF SchedInv, SchedTypeOK, Holders
  <2>3. availability[i] = Cardinality(Holders(i))
    BY DEF SchedInv, CountersExact
  <2>4. pieces[i] # "Done" => ~ (i < first_not_done)
    BY DEF SchedInv, PlayheadExact
  <2>. QED BY <1>1, <2>1, <2>2, <2>3, <2>4, FinitePeers
<1>3. ASSUME NEW i \in Wanted(k)
      PROVE  /\ pieces[i] = "Missing"
             /\ ScanPos(i) = i - first_not_done
             /\ ScanPos(i) \in Nat
             /\ availability[i] >= 1
  <2>1. i \in Piece /\ pieces[i] = "Missing" /\ i \in bits[k]
    BY <1>1 DEF Wanted
  <2>2. first_not_done <= i
    BY <1>2, <2>1
  <2>3. k \in Holders(i)
    BY <2>1 DEF Holders
  <2>4. Cardinality(Holders(i)) # 0
    BY <1>2, <2>1, <2>3, FS_EmptySet
  <2>. QED BY <1>1, <1>2, <2>1, <2>2, <2>4 DEF ScanPos
<1>. QED BY <1>1, <1>2, <1>3

\* Rule 2 looks at some candidate whenever there is one, and what it looks at
\* has a first choice.
LEMMA RarestFinds ==
  ASSUME SchedInv, NEW k \in known, Wanted(k) # {}
  PROVE  Rarest(k) # {}
<1>. DEFINE W == Wanted(k)
            V == Sampled(k)
<1>1. PICK i \in W : \A j \in W : ScanPos(i) <= ScanPos(j)
  <2>. DEFINE P == {ScanPos(j) : j \in W}
  <2>1. P \in SUBSET Nat /\ P # {}
    BY WantedFacts
  <2>2. PICK p \in P : \A q \in P : p <= q
    BY <2>1, LeastNat
  <2>. QED BY <2>2
<1>2. ScannedBefore(k, i) = {}
  BY <1>1, WantedFacts DEF ScannedBefore
<1>3. i \in V
  BY <1>2, FS_EmptySet, SchedulerAssumption DEF Sampled
<1>4. V \subseteq W
  BY DEF Sampled
<1>. DEFINE held == [j \in V |-> availability[j]]
            place == [j \in V |-> ScanPos(j)]
<1>5. held \in [V -> Nat] /\ place \in [V -> Nat]
  BY <1>4, WantedFacts
<1>6. \E j \in V : \A l \in V :
         \/ held[j] < held[l]
         \/ held[j] = held[l] /\ place[j] <= place[l]
  <2>. HIDE DEF V, held, place
  <2>. QED BY <1>3, <1>5, LeastInRank
<1>7. \E j \in V : \A l \in V :
         \/ availability[j] < availability[l]
         \/ availability[j] = availability[l] /\ ScanPos(j) <= ScanPos(l)
  <2>. HIDE DEF V
  <2>. QED BY <1>6
<1>. QED BY <1>7 DEF Rarest

LEMMA EndgameFinds ==
  ASSUME SchedInv, NEW k \in known, Helpable(k) # {}
  PROVE  LeastAsked(k) # {}
<1>. DEFINE V == Helpable(k)
<1>1. V \in SUBSET Piece /\ V \subseteq Nat /\ V # {}
  BY WantedFacts DEF Helpable
<1>2. \A j \in V : Cardinality(by[j]) \in Nat
  <2>1. \A j \in V : by[j] \in SUBSET Peer
    BY <1>1 DEF SchedInv, SchedTypeOK
  <2>. QED BY <2>1, FinitePeers
<1>. DEFINE asked == [j \in V |-> Cardinality(by[j])]
            index == [j \in V |-> j]
<1>3. asked \in [V -> Nat] /\ index \in [V -> Nat]
  BY <1>1, <1>2
<1>4. \E i \in V : \A j \in V :
         \/ asked[i] < asked[j]
         \/ asked[i] = asked[j] /\ index[i] <= index[j]
  <2>. HIDE DEF V, asked, index
  <2>. QED BY <1>1, <1>3, LeastInRank, ZenonT(30)
<1>5. \E i \in V : \A j \in V :
         \/ Cardinality(by[i]) < Cardinality(by[j])
         \/ Cardinality(by[i]) = Cardinality(by[j]) /\ i <= j
  <2>. HIDE DEF V
  <2>. QED BY <1>4
<1>. QED BY <1>5 DEF LeastAsked

\* Each rule has one first choice.
LEMMA PickIsOne ==
  ASSUME SchedInv, NEW k \in known
  PROVE  Cardinality(Picks(k)) <= 1
<1>1. \A a, b \in Lowest(Urgent(k)) : a = b
  <2>1. Urgent(k) \subseteq Nat
    BY WantedFacts DEF Urgent
  <2>. QED BY <2>1 DEF Lowest
<1>2. \A a, b \in Rarest(k) : a = b
  <2>1. \A a \in Sampled(k) : /\ a \in Nat /\ availability[a] \in Nat
                              /\ ScanPos(a) = a - first_not_done
    BY WantedFacts DEF Sampled
  <2>2. first_not_done \in Nat
    BY WantedFacts
  <2>. QED BY <2>1, <2>2 DEF Rarest
<1>3. \A a, b \in LeastAsked(k) : a = b
  <2>1. \A a \in Helpable(k) : a \in Nat /\ by[a] \in SUBSET Peer
    BY WantedFacts DEF Helpable, SchedInv, SchedTypeOK
  <2>2. \A a \in Helpable(k) : a \in Nat /\ Cardinality(by[a]) \in Nat
    BY <2>1, FinitePeers
  <2>. QED BY <2>2 DEF LeastAsked
<1>4. \A a, b \in Picks(k) : a = b
  BY <1>1, <1>2, <1>3 DEF Picks
<1>. QED BY <1>4, AtMostOne

LEMMA PickFinds ==
  ASSUME SchedInv, NEW k \in known
  PROVE  /\ Wanted(k) # {} => Picks(k) \cap Wanted(k) # {}
         /\ InState("Missing") = {} /\ Helpable(k) # {} => Picks(k) # {}
<1>1. /\ InState("Missing") \in SUBSET Piece
      /\ missing = Cardinality(InState("Missing"))
  BY DEF InState, SchedInv, CountersExact
<1>2. ASSUME Urgent(k) # {}
      PROVE  Lowest(Urgent(k)) # {} /\ Lowest(Urgent(k)) \subseteq Wanted(k)
  <2>1. Urgent(k) \in SUBSET Nat /\ Urgent(k) \subseteq Wanted(k)
    BY WantedFacts DEF Urgent
  <2>2. PICK i \in Urgent(k) : \A j \in Urgent(k) : i <= j
    BY <1>2, <2>1, LeastNat
  <2>. QED BY <2>1, <2>2 DEF Lowest
<1>3. ASSUME Wanted(k) # {}, Urgent(k) = {}
      PROVE  Picks(k) \cap Wanted(k) # {}
  <2>1. Wanted(k) \subseteq InState("Missing")
    BY WantedFacts DEF InState
  <2>2. missing > 0
    <3>1. IsFiniteSet(InState("Missing")) /\ Cardinality(InState("Missing")) \in Nat
      BY <1>1, FinitePieces
    <3>2. Cardinality(InState("Missing")) # 0
      BY <1>3, <2>1, <3>1, FS_EmptySet
    <3>. QED BY <1>1, <3>1, <3>2
  <2>3. Picks(k) = Rarest(k)
    BY <1>3, <2>2 DEF Picks
  <2>4. Rarest(k) \subseteq Wanted(k)
    BY DEF Rarest, Sampled
  <2>. QED BY <1>3, <2>3, <2>4, RarestFinds
<1>4. ASSUME InState("Missing") = {}, Helpable(k) # {}
      PROVE  Picks(k) # {}
  <2>1. Wanted(k) = {}
    BY <1>4, WantedFacts DEF InState
  <2>2. Urgent(k) = {} /\ ~ (missing > 0)
    BY <1>1, <1>4, <2>1, FS_EmptySet DEF Urgent
  <2>3. Picks(k) = LeastAsked(k)
    BY <2>2 DEF Picks
  <2>. QED BY <1>4, <2>3, EndgameFinds
<1>5. ASSUME Urgent(k) # {}
      PROVE  Picks(k) \cap Wanted(k) # {}
  BY <1>2, <1>5 DEF Picks
<1>. QED BY <1>3, <1>4, <1>5

\* No peer is left idle while there is something for it to do: pick returns a
\* Missing piece the peer holds whenever there is one, helps in endgame
\* whenever it can, and has exactly one choice.
THEOREM SchedulerPickFindsWork == Spec => []PickFindsWork
<1>1. ASSUME SchedInv, NEW k \in known, NEW i \in bits[k],
             pieces[i] = "InFlight", k \notin by[i],
             Cardinality(by[i]) < EndgameDuplicates
      PROVE  Helpable(k) # {}
  <2>1. i \in Piece /\ first_not_done <= i
    BY <1>1, WantedFacts
  <2>2. first_not_done \in Nat /\ i \in Nat
    BY <1>1, <2>1, WantedFacts
  <2>. QED BY <1>1, <2>1, <2>2 DEF Helpable
<1>2. SchedInv => PickFindsWork
  BY <1>1, PickIsOne, PickFinds DEF PickFindsWork
<1>. QED BY <1>2, SchedulerInvariant, PTL

\* The early stop of the scan is harmless: the piece it stops at has one
\* holder, the peer itself, and nothing the peer holds can have fewer.
LEMMA RarestIsRarest ==
  ASSUME SchedInv, NEW k \in known, NEW i \in Rarest(k), NEW j \in Candidates(k)
  PROVE  /\ i \in Candidates(k)
         /\ \/ availability[i] < availability[j]
            \/ availability[i] = availability[j] /\ i <= j
<1>1. /\ Wanted(k) \in SUBSET Piece /\ first_not_done \in Nat
      /\ \A l \in Wanted(k) : /\ l \in Nat /\ availability[l] \in Nat
                              /\ ScanPos(l) = l - first_not_done
                              /\ availability[l] >= 1
  BY WantedFacts
<1>2. \A l \in Wanted(k) : ScannedBefore(k, l) = {m \in Wanted(k) : m < l}
  BY <1>1 DEF ScannedBefore
<1>3. i \in Sampled(k) /\ i \in Wanted(k) /\ j \in Wanted(k)
  BY DEF Rarest, Sampled, Candidates
<1>4. i \in Candidates(k)
  BY <1>2, <1>3 DEF Candidates, Sampled
<1>5. CASE j \in Sampled(k)
  BY <1>1, <1>3, <1>4, <1>5 DEF Rarest
<1>6. CASE j \notin Sampled(k)
  <2>. DEFINE Stops == {l \in Wanted(k) : l < j /\ availability[l] <= 1}
  <2>1. Cardinality(ScannedBefore(k, j)) < RarestSample
    BY <1>2, <1>3 DEF Candidates
  <2>2. Stops # {}
    BY <1>1, <1>2, <1>3, <1>6, <2>1 DEF Sampled
  <2>3. PICK l \in Stops : \A m \in Stops : l <= m
    <3>1. Stops \in SUBSET Nat
      BY <1>1
    <3>. HIDE DEF Stops
    <3>. QED BY <2>2, <3>1, LeastNat
  <2>4. l \in Sampled(k)
    <3>1. ScannedBefore(k, l) \subseteq ScannedBefore(k, j)
      BY <1>1, <1>2, <1>3, <2>3
    <3>2. ScannedBefore(k, j) \in SUBSET Piece
      BY <1>1, <1>2, <1>3
    <3>3. /\ IsFiniteSet(ScannedBefore(k, j)) /\ Cardinality(ScannedBefore(k, j)) \in Nat
          /\ Cardinality(ScannedBefore(k, l)) \in Nat
      BY <3>1, <3>2, FinitePieces
    <3>4. Cardinality(ScannedBefore(k, l)) <= Cardinality(ScannedBefore(k, j))
      BY <3>1, <3>3, FS_Subset
    <3>5. Cardinality(ScannedBefore(k, l)) < RarestSample
      BY <2>1, <3>3, <3>4, SchedulerAssumption
    <3>6. \A m \in ScannedBefore(k, l) : availability[m] > 1
      BY <1>1, <1>2, <1>3, <2>3
    <3>. QED BY <2>3, <3>5, <3>6 DEF Sampled
  <2>5. \/ availability[i] < availability[l]
        \/ availability[i] = availability[l] /\ ScanPos(i) <= ScanPos(l)
    BY <2>4 DEF Rarest
  <2>6. availability[l] <= 1 /\ l < j /\ l \in Wanted(k)
    BY <2>3
  <2>. HIDE DEF Stops
  <2>. QED BY <1>1, <1>3, <1>4, <2>5, <2>6
<1>. QED BY <1>4, <1>5, <1>6

\* Outside the urgent window a fresh pick is the rarest of the peer's first
\* RAREST_SAMPLE wanted pieces, by the true number of connected holders, and
\* the lowest index among equals.
THEOREM SchedulerPicksRarest == Spec => []PicksRarest
<1>1. ASSUME SchedInv, NEW k \in known, NEW i \in Picks(k),
             pieces[i] = "Missing", i >= first_not_done + UrgentWindow
      PROVE  i \in Rarest(k)
  <2>1. i \notin Lowest(Urgent(k))
    <3>1. \A l \in Urgent(k) : l \in Nat /\ l < first_not_done + UrgentWindow
      BY WantedFacts, <1>1 DEF Urgent
    <3>. QED BY <1>1, <3>1, WantedFacts, SchedulerAssumption DEF Lowest
  <2>2. i \notin LeastAsked(k)
    BY <1>1 DEF LeastAsked, Helpable
  <2>. QED BY <1>1, <2>1, <2>2 DEF Picks
<1>2. ASSUME SchedInv, NEW k \in known, NEW i \in Rarest(k)
      PROVE  /\ i \in Candidates(k)
             /\ \A j \in Candidates(k) :
                   \/ Cardinality(Holders(i)) < Cardinality(Holders(j))
                   \/ Cardinality(Holders(i)) = Cardinality(Holders(j)) /\ i <= j
  <2>1. \A j \in Wanted(k) : availability[j] = Cardinality(Holders(j))
    BY <1>2, WantedFacts DEF SchedInv, CountersExact
  <2>2. i \in Wanted(k) /\ Candidates(k) \subseteq Wanted(k)
    BY DEF Rarest, Sampled, Candidates
  <2>3. i \in Candidates(k)
    <3>1. ScannedBefore(k, i) = {m \in Wanted(k) : m < i}
      <4>1. /\ first_not_done \in Nat
            /\ \A l \in Wanted(k) : l \in Nat /\ ScanPos(l) = l - first_not_done
        BY <1>2, WantedFacts
      <4>. QED BY <2>2, <4>1 DEF ScannedBefore
    <3>. QED BY <2>2, <3>1 DEF Rarest, Sampled, Candidates
  <2>. QED BY <1>2, <2>1, <2>2, <2>3, RarestIsRarest
<1>3. SchedInv => PicksRarest
  BY <1>1, <1>2 DEF PicksRarest
<1>. QED BY <1>3, SchedulerInvariant, PTL
=============================================================================
