---------------------------- MODULE UploadsProofs ----------------------------
(***************************************************************************)
(* The slots, the queue, the limiter and the reports of Uploads, for all   *)
(* requests, peers, numbers of slots, waits, rates, bursts and pieces.     *)
(***************************************************************************)
EXTENDS Uploads, FiniteSetTheorems, SequenceTheorems, TLAPS

-----------------------------------------------------------------------------
(* The inductive invariant, in five parts.                                 *)

\* UploadsTypeOK but for the queue and the free slots, whose types are in SlotsInv.
RestTypes ==
    /\ admitted \subseteq Peer
    /\ metered \in BOOLEAN
    /\ pc \in [Req -> PC]
    /\ answer \in [Req -> Answer]
    /\ read \in [Req -> {"none", "proved", "failed"}]
    /\ tokens \in Int /\ tokens <= Burst
    /\ pause \in [Req -> Nat]
    /\ age \in [Req -> Nat]
    /\ excess \in Nat
    /\ file \in File
    /\ stamp \in File
    /\ reports \in {0, 1}

Queued == {r \in Req : pc[r] = "queued"}

\* What each request holds agrees with the queue and with the free slots.
SlotsInv ==
    /\ queue \in Seq(Req)
    /\ free \in Nat
    /\ SlotsConserved

\* A request has read the file only when the blocking thread is done with it.
ReportsInv ==
    \A r \in Req :
        /\ read[r] = "failed" => pc[r] \in {"encoded", "write"} /\ file # "original"
        /\ pc[r] = "write" /\ read[r] = "failed" /\ stamp = "original" => reports = 1

Paced == {r \in Req : pc[r] = "pause"}
Charged == {r \in Req : pc[r] \notin {"idle", "queued", "granted"}}

\* How long a request has waited, and how deep the debt can be.
AgeInv ==
    /\ tokens >= Burst - Cardinality(Charged) * PieceLen
    /\ \A r \in Req :
          /\ pc[r] # "pause" => pause[r] = 0
          /\ pc[r] \in {"queued", "granted"} => age[r] <= SlotWait
          /\ pc[r] \in {"idle", "encode", "encoded", "write", "done"} => age[r] = 0
          /\ pc[r] = "pause" =>
                age[r] + pause[r] <= SlotWait + Wait(Burst - Cardinality(Req) * PieceLen)

\* Paced requests that sleep longer than j ticks, and among them no longer than k.
Beyond(j) == {r \in Paced : pause[r] > j}
Between(j, k) == {r \in Paced : pause[r] > j /\ pause[r] <= k}
Within(k) == {r \in Paced : pause[r] <= k}

Most == Greater(Burst, PieceLen) + Fill - 1

\* The bytes granted and not yet sent are a debt, paid at the rate: requests are
\* let through one piece's time apart, and so are those that still sleep.
RateInv ==
    /\ excess + Cardinality(Paced) * PieceLen <= Most - tokens
    /\ \A j \in Nat :
          /\ Beyond(j) # {} =>
                Cardinality(Beyond(j)) * PieceLen <= PieceLen - 1 - tokens - j * Fill
          /\ excess + Cardinality(Within(j)) * PieceLen <= Most + j * Fill
    /\ \A j, k \in Nat :
          j < k => Cardinality(Between(j, k)) * PieceLen <= PieceLen - 1 + (k - j) * Fill

UploadsInv == RestTypes /\ SlotsInv /\ ReportsInv /\ AgeInv /\ RateInv

LEMMA Numbers ==
    /\ Slots \in Nat \ {0} /\ SlotWait \in Nat \ {0}
    /\ PieceLen \in Nat \ {0} /\ Fill \in Nat \ {0} /\ Burst \in Nat \ {0}
  BY UploadsAssumption

LEMMA FiniteRequests ==
    ASSUME NEW S \in SUBSET Req
    PROVE  IsFiniteSet(S) /\ Cardinality(S) \in Nat
  BY UploadsAssumption, FS_Subset, FS_CardinalityType

-----------------------------------------------------------------------------
(* The queue of the semaphore and the slots.                               *)

Members(s) == {s[i] : i \in DOMAIN s}
Once(s) == \A i, j \in DOMAIN s : s[i] = s[j] => i = j

LEMMA Joins ==
    ASSUME NEW s \in Seq(Req), Once(s), NEW r \in Req \ Members(s)
    PROVE  /\ Append(s, r) \in Seq(Req)
           /\ Members(Append(s, r)) = Members(s) \cup {r}
           /\ Once(Append(s, r))
  <1> DEFINE t == Append(s, r)
  <1>1. t \in Seq(Req) /\ Len(t) = Len(s) + 1 /\ t[Len(s) + 1] = r
        /\ \A i \in 1 .. Len(s) : t[i] = s[i]
    BY AppendProperties
  <1>2. DOMAIN s = 1 .. Len(s) /\ DOMAIN t = 1 .. Len(s) + 1 /\ Len(s) \in Nat
    BY <1>1, LenProperties
  <1> HIDE DEF t
  <1>3. Members(t) = Members(s) \cup {r}
    BY <1>1, <1>2 DEF Members
  <1>4. Once(t)
    BY <1>1, <1>2 DEF Members, Once
  <1> QED
    BY <1>1, <1>3, <1>4 DEF t

LEMMA Serves ==
    ASSUME NEW s \in Seq(Req), Once(s), s # <<>>
    PROVE  /\ Tail(s) \in Seq(Req)
           /\ Head(s) \in Members(s) /\ Head(s) \in Req
           /\ Members(Tail(s)) = Members(s) \ {Head(s)}
           /\ Once(Tail(s))
  <1> DEFINE t == Tail(s)
  <1>1. t \in Seq(Req) /\ Len(t) = Len(s) - 1 /\ \A i \in 1 .. Len(t) : t[i] = s[i + 1]
    BY HeadTailProperties
  <1>2. DOMAIN s = 1 .. Len(s) /\ DOMAIN t = 1 .. Len(s) - 1 /\ Len(s) \in Nat \ {0}
    BY <1>1, LenProperties, EmptySeq
  <1>3. Head(s) = s[1] /\ Head(s) \in Req
    BY HeadTailProperties
  <1> HIDE DEF t
  <1>4. Head(s) \in Members(s)
    BY <1>2, <1>3 DEF Members
  <1>5. ASSUME NEW x
        PROVE  x \in Members(t) <=> x \in Members(s) /\ x # Head(s)
    <2>1. ASSUME x \in Members(t)
          PROVE  x \in Members(s) /\ x # Head(s)
      <3>1. PICK i \in 1 .. Len(s) - 1 : x = t[i]
        BY <1>2, <2>1 DEF Members
      <3>2. i + 1 \in DOMAIN s /\ x = s[i + 1] /\ i + 1 # 1
        BY <1>1, <1>2, <3>1
      <3> QED
        BY <1>2, <1>3, <3>2, SMTT(30) DEF Members, Once
    <2>2. ASSUME x \in Members(s), x # Head(s)
          PROVE  x \in Members(t)
      <3>1. PICK i \in 1 .. Len(s) : x = s[i] /\ i # 1
        BY <1>2, <1>3, <2>2 DEF Members
      <3>2. i - 1 \in DOMAIN t /\ x = t[i - 1]
        BY <1>1, <1>2, <3>1
      <3> QED
        BY <3>2 DEF Members
    <2> QED
      BY <2>1, <2>2
  <1>6. Once(t)
    BY <1>1, <1>2, SMTT(30) DEF Once
  <1> QED
    BY <1>1, <1>3, <1>4, <1>5, <1>6 DEF t

LEMMA GoesAway ==
    ASSUME NEW s \in Seq(Req), Once(s), NEW i \in DOMAIN s
    PROVE  LET t == SubSeq(s, 1, i - 1) \o SubSeq(s, i + 1, Len(s))
           IN  /\ t \in Seq(Req)
               /\ Members(t) = Members(s) \ {s[i]}
               /\ Once(t)
  <1> DEFINE a == SubSeq(s, 1, i - 1)
             b == SubSeq(s, i + 1, Len(s))
             t == a \o b
             at(k) == IF k < i THEN k ELSE k + 1
  <1>1. DOMAIN s = 1 .. Len(s) /\ Len(s) \in Nat /\ i \in 1 .. Len(s)
        /\ \A k \in 1 .. Len(s) : s[k] \in Req
    BY LenProperties, ElementOfSeq
  <1>2. a \in Seq(Req) /\ Len(a) = i - 1 /\ \A k \in 1 .. i - 1 : a[k] = s[k]
    BY <1>1, SubSeqProperties
  <1>3. b \in Seq(Req) /\ Len(b) = Len(s) - i /\ \A k \in 1 .. Len(s) - i : b[k] = s[i + k]
    BY <1>1, SubSeqProperties
  <1> HIDE DEF a, b
  <1>4. t \in Seq(Req) /\ Len(t) = Len(s) - 1 /\ DOMAIN t = 1 .. Len(s) - 1
    <2>1. t \in Seq(Req) /\ Len(t) = Len(a) + Len(b)
      BY <1>2, <1>3, ConcatProperties
    <2>2. DOMAIN t = 1 .. Len(t)
      BY <2>1, LenProperties
    <2> QED
      BY <1>1, <1>2, <1>3, <2>1, <2>2
  <1>5. ASSUME NEW k \in 1 .. Len(s) - 1
        PROVE  t[k] = s[at(k)] /\ at(k) \in DOMAIN s /\ at(k) # i
    <2>1. t[k] = IF k <= Len(a) THEN a[k] ELSE b[k - Len(a)]
      <3>1. k \in 1 .. Len(a) + Len(b)
        BY <1>1, <1>2, <1>3, SMTT(30)
      <3> QED
        BY <1>2, <1>3, <3>1, ConcatProperties, SMTT(30)
    <2>2. CASE k < i
      BY <1>1, <1>2, <2>1, <2>2
    <2>3. CASE ~(k < i)
      <3>1. k - (i - 1) \in 1 .. Len(s) - i /\ i + (k - (i - 1)) = k + 1
        BY <1>1, <2>3
      <3>2. t[k] = b[k - (i - 1)]
        BY <1>1, <1>2, <2>1, <2>3
      <3>3. b[k - (i - 1)] = s[i + (k - (i - 1))]
        BY <1>3, <3>1
      <3> QED
        BY <1>1, <2>3, <3>1, <3>2, <3>3
    <2> QED
      BY <2>2, <2>3
  <1> HIDE DEF t
  <1>6. ASSUME NEW x
        PROVE  x \in Members(t) <=> x \in Members(s) /\ x # s[i]
    <2>1. ASSUME x \in Members(t)
          PROVE  x \in Members(s) /\ x # s[i]
      <3>1. PICK k \in 1 .. Len(s) - 1 : x = t[k]
        BY <1>4, <2>1 DEF Members
      <3> QED
        BY <1>5, <3>1 DEF Members, Once
    <2>2. ASSUME x \in Members(s), x # s[i]
          PROVE  x \in Members(t)
      <3>1. PICK k \in 1 .. Len(s) : x = s[k] /\ k # i
        BY <1>1, <2>2 DEF Members
      <3>2. CASE k < i
        BY <1>1, <1>4, <1>5, <3>1, <3>2, SMTT(30) DEF Members
      <3>3. CASE k > i
        <4>1. k - 1 \in 1 .. Len(s) - 1 /\ at(k - 1) = k
          BY <1>1, <3>1, <3>3
        <4> QED
          BY <1>4, <1>5, <3>1, <4>1 DEF Members
      <3> QED
        BY <1>1, <3>1, <3>2, <3>3
    <2> QED
      BY <2>1, <2>2
  <1>7. Once(t)
    <2>1. ASSUME NEW k \in 1 .. Len(s) - 1, NEW l \in 1 .. Len(s) - 1, t[k] = t[l]
          PROVE  k = l
      <3>1. at(k) = at(l)
        BY <1>5, <2>1 DEF Once
      <3> QED
        BY <1>1, <3>1
    <2> QED
      BY <1>4, <2>1 DEF Once
  <1> QED
    BY <1>4, <1>6, <1>7 DEF t, a, b

PCType == pc \in [Req -> PC]

LEMMA SlotsKept ==
    ASSUME SlotsInv, UNCHANGED slotVars, Holding' = Holding, Queued' = Queued
    PROVE  SlotsInv'
  BY DEF SlotsInv, SlotsConserved, slotVars, Queued

\* A request enters with a slot or at the end of the queue.
LEMMA SlotsEnter ==
    ASSUME SlotsInv, PCType, NEW r \in Req, Enter(r)
    PROVE  SlotsInv'
  <1> USE DEF PCType
  <1>1. pc[r] = "idle"
    BY DEF Enter
  <1>2. CASE free > 0 /\ pc' = [pc EXCEPT ![r] = "granted"] /\ free' = free - 1 /\ UNCHANGED queue
    <2>1. Holding' = Holding \cup {r} /\ r \notin Holding /\ Queued' = Queued
      BY <1>1, <1>2 DEF Holding, Queued
    <2>2. Cardinality(Holding') = Cardinality(Holding) + 1 /\ Cardinality(Holding) \in Nat
      BY <2>1, FiniteRequests, FS_AddElement DEF Holding
    <2> QED
      BY <1>2, <2>1, <2>2, Numbers DEF SlotsInv, SlotsConserved, Queued
  <1>3. CASE /\ free = 0 /\ pc' = [pc EXCEPT ![r] = "queued"]
             /\ queue' = Append(queue, r) /\ UNCHANGED free
    <2>1. Holding' = Holding /\ Queued' = Queued \cup {r} /\ r \notin Queued
      BY <1>1, <1>3 DEF Holding, Queued
    <2>2. Members(queue) = Queued /\ Once(queue) /\ queue \in Seq(Req)
      BY DEF SlotsInv, SlotsConserved, Members, Once, Queued
    <2>3. queue' \in Seq(Req) /\ Members(queue') = Queued' /\ Once(queue')
      BY <1>3, <2>1, <2>2, Joins
    <2> QED
      BY <1>3, <2>1, <2>3 DEF SlotsInv, SlotsConserved, Members, Once, Queued
  <1> QED
    BY <1>2, <1>3 DEF Enter

\* A request leaves the queue.
LEMMA SlotsLeave ==
    ASSUME SlotsInv, PCType, NEW r \in Req, pc[r] = "queued", NEW at \in {"write", "done"},
           queue' = Without(r), pc' = [pc EXCEPT ![r] = at], UNCHANGED free
    PROVE  SlotsInv'
  <1> USE DEF PCType
  <1>1. Members(queue) = Queued /\ Once(queue) /\ queue \in Seq(Req)
    BY DEF SlotsInv, SlotsConserved, Members, Once, Queued
  <1> DEFINE i == CHOOSE i \in DOMAIN queue : queue[i] = r
  <1>2. i \in DOMAIN queue /\ queue[i] = r
    BY <1>1 DEF Members, Queued
  <1>3. Holding' = Holding /\ Queued' = Queued \ {r}
    BY DEF Holding, Queued
  <1>4. queue' = SubSeq(queue, 1, i - 1) \o SubSeq(queue, i + 1, Len(queue))
    BY DEF Without
  <1> HIDE DEF i
  <1>5. queue' \in Seq(Req) /\ Members(queue') = Queued' /\ Once(queue')
    BY <1>1, <1>2, <1>3, <1>4, GoesAway
  <1>6. queue # <<>>
    BY <1>2
  <1> QED
    BY <1>3, <1>5, <1>6 DEF SlotsInv, SlotsConserved, Members, Once, Queued

\* A slot is given back, and perhaps on to the head of the queue.
LEMMA SlotsReturn ==
    ASSUME SlotsInv, PCType, NEW r \in Holding, NEW at \in {"write", "done"},
           GiveBack([pc EXCEPT ![r] = at])
    PROVE  SlotsInv'
  <1> USE DEF PCType
  <1>1. r \in Req /\ pc[r] # "queued" /\ Holding \in SUBSET Req
    BY DEF Holding
  <1>2. /\ IsFiniteSet(Holding) /\ Cardinality(Holding) \in Nat
        /\ IsFiniteSet(Holding \ {r}) /\ Cardinality(Holding \ {r}) = Cardinality(Holding) - 1
    BY <1>1, FiniteRequests, FS_RemoveElement
  <1>3. Members(queue) = Queued /\ Once(queue) /\ queue \in Seq(Req)
    BY DEF SlotsInv, SlotsConserved, Members, Once, Queued
  <1>4. CASE queue = <<>>
    <2>1. free' = free + 1 /\ pc' = [pc EXCEPT ![r] = at] /\ UNCHANGED queue
      BY <1>4 DEF GiveBack
    <2>2. Holding' = Holding \ {r} /\ Queued' = Queued
      BY <1>1, <2>1 DEF Holding, Queued
    <2> QED
      BY <1>2, <1>4, <2>1, <2>2, Numbers DEF SlotsInv, SlotsConserved, Queued
  <1>5. CASE queue # <<>>
    <2> DEFINE h == Head(queue)
    <2>1. /\ pc' = [[pc EXCEPT ![r] = at] EXCEPT ![h] = "granted"]
          /\ queue' = Tail(queue) /\ UNCHANGED free
      BY <1>5 DEF GiveBack
    <2>2. /\ h \in Req /\ pc[h] = "queued" /\ h # r /\ queue' \in Seq(Req)
          /\ Members(queue') = Queued \ {h} /\ Once(queue')
      BY <1>1, <1>3, <1>5, <2>1, Serves DEF Queued
    <2> HIDE DEF h
    <2>3. Holding' = (Holding \ {r}) \cup {h} /\ h \notin Holding /\ Queued' = Queued \ {h}
      BY <1>1, <2>1, <2>2 DEF Holding, Queued
    <2>4. Cardinality(Holding') = Cardinality(Holding)
      <3>1. h \notin Holding \ {r}
        BY <2>3
      <3>2. Cardinality((Holding \ {r}) \cup {h}) = Cardinality(Holding \ {r}) + 1
        BY <1>2, <3>1, FS_AddElement
      <3> QED
        BY <1>2, <2>3, <3>2
    <2>5. free' = 0
      BY <1>5, <2>1 DEF SlotsInv, SlotsConserved
    <2> QED
      BY <2>1, <2>2, <2>3, <2>4, <2>5 DEF SlotsInv, SlotsConserved, Members, Once, Queued
  <1> QED
    BY <1>4, <1>5

\* What giving a slot back does to the requests.
LEMMA GiveBackMoves ==
    ASSUME SlotsInv, PCType, NEW r \in Holding, NEW at \in {"write", "done"},
           GiveBack([pc EXCEPT ![r] = at])
    PROVE  /\ PCType'
           /\ pc'[r] = at
           /\ \A q \in Req : q # r =>
                 pc'[q] = pc[q] \/ (pc[q] = "queued" /\ pc'[q] = "granted")
  <1> USE DEF PCType
  <1>1. r \in Req /\ pc[r] # "queued"
    BY DEF Holding
  <1>2. CASE queue = <<>>
    BY <1>1, <1>2 DEF GiveBack, PC
  <1>3. CASE queue # <<>>
    <2>1. Members(queue) = Queued /\ Once(queue) /\ queue \in Seq(Req)
      BY DEF SlotsInv, SlotsConserved, Members, Once, Queued
    <2>2. Head(queue) \in Req /\ pc[Head(queue)] = "queued"
      BY <1>3, <2>1, Serves DEF Queued
    <2>3. pc' = [[pc EXCEPT ![r] = at] EXCEPT ![Head(queue)] = "granted"]
      BY <1>3 DEF GiveBack
    <2> QED
      BY <1>1, <2>2, <2>3 DEF PC
  <1> QED
    BY <1>2, <1>3

-----------------------------------------------------------------------------
(* The limiter: its debt, and the time it takes to pay it.                 *)

LEMMA Division ==
    ASSUME NEW a \in Int, NEW f \in Int, f > 0
    PROVE  /\ a \div f \in Int
           /\ (a \div f) * f <= a
           /\ a < (a \div f) * f + f
  <1>1. a < ((a \div f) + 1) * f
    BY Z3
  <1>2. \A q \in Int : (q + 1) * f = q * f + f
    BY Z3
  <1>3. a \div f \in Int /\ (a \div f) * f <= a
    BY Z3
  <1> QED
    BY <1>1, <1>2, <1>3

LEMMA Times ==
    ASSUME NEW n \in Nat
    PROVE  /\ \A a, b \in Int : a <= b => a * n <= b * n
           /\ \A a \in Int : a * n \in Int /\ (a + 1) * n = a * n + n /\ (a - 1) * n = a * n - n
  BY Z3

\* Wait(t) ticks pay the debt, and one less does not.
LEMMA WaitPays ==
    ASSUME NEW t \in Int
    PROVE  /\ Wait(t) \in Nat
           /\ Wait(t) * Fill >= 0 - t
           /\ Wait(t) > 0 => (Wait(t) - 1) * Fill < 0 - t
  <1>1. Fill \in Nat \ {0}
    BY Numbers
  <1>2. CASE t >= 0
    BY <1>1, <1>2 DEF Wait
  <1>3. CASE t < 0
    <2> DEFINE w == (Fill - 1 - t) \div Fill
    <2>1. w \in Int /\ w * Fill <= Fill - 1 - t /\ Fill - 1 - t < w * Fill + Fill
      BY <1>1, <1>3, Division
    <2>2. Wait(t) = w
      BY <1>3 DEF Wait
    <2> HIDE DEF w
    <2>3. (w - 1) * Fill = w * Fill - Fill /\ w * Fill \in Int /\ (w <= 0 => w * Fill <= 0 * Fill)
      BY <1>1, <2>1, Times
    <2> QED
      BY <1>1, <1>3, <2>1, <2>2, <2>3
  <1> QED
    BY <1>2, <1>3

\* Who owes more waits longer.
LEMMA WaitGrows ==
    ASSUME NEW t \in Int, NEW u \in Int, u <= t
    PROVE  Wait(t) <= Wait(u)
  <1>1. /\ Wait(t) \in Nat /\ (Wait(t) > 0 => (Wait(t) - 1) * Fill < 0 - t)
        /\ Wait(u) \in Nat /\ Wait(u) * Fill >= 0 - u
    BY WaitPays
  <1>2. SUFFICES ASSUME Wait(u) <= Wait(t) - 1
                 PROVE  FALSE
    BY <1>1
  <1>3. /\ Wait(u) * Fill <= (Wait(t) - 1) * Fill
        /\ Wait(u) * Fill \in Int /\ (Wait(t) - 1) * Fill \in Int
    BY <1>1, <1>2, Numbers, Times
  <1> QED
    BY <1>1, <1>2, <1>3

\* Numbers of a limiter, whose requests sleep.
RateTypes ==
    /\ pc \in [Req -> PC] /\ pause \in [Req -> Nat]
    /\ tokens \in Int /\ tokens <= Burst /\ excess \in Nat

LEMMA PacedSets ==
    /\ Cardinality(Paced) \in Nat /\ IsFiniteSet(Paced)
    /\ \A j, k \in Nat :
          /\ Cardinality(Beyond(j)) \in Nat /\ IsFiniteSet(Beyond(j))
          /\ Cardinality(Within(j)) \in Nat /\ IsFiniteSet(Within(j))
          /\ Cardinality(Between(j, k)) \in Nat /\ IsFiniteSet(Between(j, k))
  BY FiniteRequests DEF Paced, Beyond, Within, Between

LEMMA MostIs ==
    /\ Most \in Nat /\ Most >= Burst + Fill - 1 /\ Most >= PieceLen + Fill - 1
  BY Numbers DEF Most, Greater

\* A smaller set of requests is a smaller number of bytes.
LEMMA FewerBytes ==
    ASSUME NEW S, IsFiniteSet(S), NEW T \in SUBSET S
    PROVE  /\ Cardinality(T) \in Nat /\ Cardinality(S) \in Nat
           /\ Cardinality(T) * PieceLen \in Nat /\ Cardinality(S) * PieceLen \in Nat
           /\ Cardinality(T) * PieceLen <= Cardinality(S) * PieceLen
  <1>1. /\ Cardinality(T) \in Nat /\ Cardinality(S) \in Nat
        /\ Cardinality(T) <= Cardinality(S)
    BY FS_Subset, FS_CardinalityType
  <1>2. PieceLen \in Nat
    BY Numbers
  <1>3. \A a, b \in Nat : a * b \in Nat
    OBVIOUS
  <1> QED
    BY <1>1, <1>2, <1>3, Times

\* One more request is a piece more.
LEMMA MoreBytes ==
    ASSUME NEW S, IsFiniteSet(S), NEW r, r \notin S
    PROVE  /\ Cardinality(S) * PieceLen \in Nat
           /\ Cardinality(S \cup {r}) * PieceLen = Cardinality(S) * PieceLen + PieceLen
  <1>1. Cardinality(S) \in Nat /\ Cardinality(S \cup {r}) = Cardinality(S) + 1
    BY FS_AddElement, FS_CardinalityType
  <1>2. PieceLen \in Nat
    BY Numbers
  <1>3. \A a, b \in Nat : a * b \in Nat
    OBVIOUS
  <1> QED
    BY <1>1, <1>2, <1>3, Times

\* Requests stop to sleep, or none does; nothing more is let through.
LEMMA RateEases ==
    ASSUME RateTypes, RateInv, excess' \in Nat, excess' <= excess, tokens' = tokens,
           Paced' \subseteq Paced, \A r \in Paced' : pause'[r] = pause[r]
    PROVE  RateInv'
  <1>1. Cardinality(Paced') * PieceLen <= Cardinality(Paced) * PieceLen
        /\ Cardinality(Paced') * PieceLen \in Nat /\ Cardinality(Paced) * PieceLen \in Nat
    BY PacedSets, FewerBytes
  <1>2. excess' + Cardinality(Paced') * PieceLen <= Most - tokens'
    BY <1>1, MostIs DEF RateInv, RateTypes
  <1>3. ASSUME NEW j \in Nat, Beyond(j)' # {}
        PROVE  Cardinality(Beyond(j)') * PieceLen <= PieceLen - 1 - tokens' - j * Fill
    <2>1. Beyond(j)' \subseteq Beyond(j) /\ Beyond(j) # {}
      BY <1>3 DEF Beyond
    <2>2. Cardinality(Beyond(j)) * PieceLen <= PieceLen - 1 - tokens - j * Fill
      BY <2>1 DEF RateInv
    <2>3. Cardinality(Beyond(j)') * PieceLen <= Cardinality(Beyond(j)) * PieceLen
          /\ Cardinality(Beyond(j)') * PieceLen \in Nat /\ Cardinality(Beyond(j)) * PieceLen \in Nat
      BY <2>1, PacedSets, FewerBytes
    <2>4. j * Fill \in Int /\ PieceLen \in Int
      BY Numbers, Times
    <2> QED
      BY <2>2, <2>3, <2>4 DEF RateTypes
  <1>4. ASSUME NEW j \in Nat
        PROVE  excess' + Cardinality(Within(j)') * PieceLen <= Most + j * Fill
    <2>1. Within(j)' \subseteq Within(j)
      BY DEF Within
    <2>2. Cardinality(Within(j)') * PieceLen <= Cardinality(Within(j)) * PieceLen
          /\ Cardinality(Within(j)') * PieceLen \in Nat /\ Cardinality(Within(j)) * PieceLen \in Nat
      BY <2>1, PacedSets, FewerBytes
    <2>3. j * Fill \in Int
      BY Numbers, Times
    <2> QED
      BY <2>2, <2>3, MostIs DEF RateInv, RateTypes
  <1>5. ASSUME NEW j \in Nat, NEW k \in Nat, j < k
        PROVE  Cardinality(Between(j, k)') * PieceLen <= PieceLen - 1 + (k - j) * Fill
    <2>1. Between(j, k)' \subseteq Between(j, k)
      BY DEF Between
    <2>2. Cardinality(Between(j, k)') * PieceLen <= Cardinality(Between(j, k)) * PieceLen
          /\ Cardinality(Between(j, k)') * PieceLen \in Nat
          /\ Cardinality(Between(j, k)) * PieceLen \in Nat
      BY <2>1, PacedSets, FewerBytes
    <2>3. Cardinality(Between(j, k)) * PieceLen <= PieceLen - 1 + (k - j) * Fill
      BY <1>5 DEF RateInv
    <2>4. (k - j) * Fill \in Int /\ PieceLen \in Int
      BY Numbers, Times
    <2> QED
      BY <2>2, <2>3, <2>4
  <1> QED
    BY <1>2, <1>3, <1>4, <1>5 DEF RateInv

\* A request that has slept enough is let through: its bytes were in the debt.
LEMMA RateBegins ==
    ASSUME RateTypes, RateInv, NEW r \in Paced, pause[r] = 0, Paced' = Paced \ {r},
           excess' = excess + PieceLen, UNCHANGED <<tokens, pause>>
    PROVE  RateInv'
  <1> USE DEF RateTypes
  <1>1. PieceLen \in Nat /\ Most \in Nat /\ \A j \in Nat : j * Fill \in Int
    BY Numbers, MostIs, Times
  <1>2. ASSUME NEW S, IsFiniteSet(S), r \in S
        PROVE  /\ Cardinality(S \ {r}) * PieceLen \in Nat
               /\ Cardinality(S) * PieceLen = Cardinality(S \ {r}) * PieceLen + PieceLen
    <2>1. IsFiniteSet(S \ {r}) /\ (S \ {r}) \cup {r} = S
      BY <1>2, FS_RemoveElement
    <2> QED
      BY <2>1, MoreBytes
  <1>3. excess' + Cardinality(Paced') * PieceLen <= Most - tokens'
    <2>1. /\ Cardinality(Paced') * PieceLen \in Nat
          /\ Cardinality(Paced) * PieceLen = Cardinality(Paced') * PieceLen + PieceLen
      BY <1>2, PacedSets
    <2> QED
      BY <1>1, <2>1 DEF RateInv
  <1>4. ASSUME NEW j \in Nat
        PROVE  /\ Beyond(j)' = Beyond(j)
               /\ \A k \in Nat : Between(j, k)' = Between(j, k)
               /\ Within(j)' = Within(j) \ {r} /\ r \in Within(j)
    BY <1>1 DEF Beyond, Between, Within, Paced
  <1>5. ASSUME NEW j \in Nat
        PROVE  excess' + Cardinality(Within(j)') * PieceLen <= Most + j * Fill
    <2>1. /\ Cardinality(Within(j)') * PieceLen \in Nat
          /\ Cardinality(Within(j)) * PieceLen = Cardinality(Within(j)') * PieceLen + PieceLen
      BY <1>2, <1>4, PacedSets
    <2> QED
      BY <1>1, <2>1 DEF RateInv
  <1> QED
    BY <1>3, <1>4, <1>5 DEF RateInv

\* A request takes its bytes and sleeps until the debt is paid.
LEMMA RateCharges ==
    ASSUME RateTypes, RateInv, NEW r \in Req \ Paced, Paced' = Paced \cup {r},
           tokens' = tokens - PieceLen, pause' = [pause EXCEPT ![r] = Wait(tokens')],
           excess' = excess
    PROVE  RateInv'
  <1> DEFINE w == Wait(tokens - PieceLen)
  <1> USE DEF RateTypes
  <1>1. /\ PieceLen \in Nat \ {0} /\ Fill \in Nat \ {0} /\ Most \in Nat
        /\ \A j \in Int : j * Fill \in Int
    BY Numbers, MostIs, Times
  <1>2. /\ w \in Nat
        /\ w * Fill >= 0 - tokens'
        /\ w > 0 => (w - 1) * Fill < 0 - tokens'
    BY <1>1, WaitPays
  <1>3. pause'[r] = w /\ \A q \in Paced : pause'[q] = pause[q] /\ q # r /\ pause[q] \in Nat
    BY DEF Paced
  <1>4. \A a, b \in Int : a <= b => a * Fill <= b * Fill
    BY <1>1, Times
  <1> HIDE DEF w
  <1>5. excess' + Cardinality(Paced') * PieceLen <= Most - tokens'
    <2>1. /\ Cardinality(Paced) * PieceLen \in Nat
          /\ Cardinality(Paced') * PieceLen = Cardinality(Paced) * PieceLen + PieceLen
      BY PacedSets, MoreBytes
    <2> QED
      BY <1>1, <2>1 DEF RateInv
  <1>6. ASSUME NEW j \in Nat, Beyond(j)' # {}
        PROVE  Cardinality(Beyond(j)') * PieceLen <= PieceLen - 1 - tokens' - j * Fill
    <2>1. Cardinality(Beyond(j)) * PieceLen \in Nat /\ IsFiniteSet(Beyond(j))
      BY PacedSets, FewerBytes
    <2>2. CASE w <= j
      <3>1. Beyond(j)' = Beyond(j)
        BY <1>2, <1>3, <2>2 DEF Beyond
      <3> QED
        BY <1>1, <1>6, <2>1, <3>1 DEF RateInv
    <2>3. CASE w > j
      <3>1. Beyond(j)' = Beyond(j) \cup {r} /\ r \notin Beyond(j)
        BY <1>2, <1>3, <2>3 DEF Beyond
      <3>2. Cardinality(Beyond(j)') * PieceLen = Cardinality(Beyond(j)) * PieceLen + PieceLen
        BY <2>1, <3>1, MoreBytes
      <3>3. j * Fill < 0 - tokens'
        <4>1. j * Fill <= (w - 1) * Fill
          BY <1>2, <1>4, <2>3
        <4> QED
          BY <1>1, <1>2, <2>3, <4>1
      <3>4. CASE Beyond(j) = {}
        <4>1. Cardinality(Beyond(j)) * PieceLen = 0
          BY <1>1, <3>4, FS_EmptySet
        <4> QED
          BY <1>1, <3>2, <3>3, <4>1
      <3>5. CASE Beyond(j) # {}
        BY <1>1, <2>1, <3>2, <3>5 DEF RateInv
      <3> QED
        BY <3>4, <3>5
    <2> QED
      BY <1>2, <2>2, <2>3
  <1>7. ASSUME NEW j \in Nat
        PROVE  excess' + Cardinality(Within(j)') * PieceLen <= Most + j * Fill
    <2>1. Cardinality(Within(j)) * PieceLen \in Nat /\ IsFiniteSet(Within(j))
      BY PacedSets, FewerBytes
    <2>2. CASE w <= j
      <3>1. Within(j)' \subseteq Paced'
        BY DEF Within
      <3>2. /\ Cardinality(Within(j)') * PieceLen <= Cardinality(Paced') * PieceLen
            /\ Cardinality(Within(j)') * PieceLen \in Nat
            /\ Cardinality(Paced') * PieceLen \in Nat
        BY <3>1, PacedSets, FS_AddElement, FewerBytes
      <3>3. w * Fill <= j * Fill
        BY <1>2, <1>4, <2>2
      <3> QED
        BY <1>1, <1>2, <1>5, <3>2, <3>3
    <2>3. CASE w > j
      <3>1. Within(j)' = Within(j)
        BY <1>2, <1>3, <2>3 DEF Within
      <3> QED
        BY <3>1 DEF RateInv
    <2> QED
      BY <1>2, <2>2, <2>3
  <1>8. ASSUME NEW j \in Nat, NEW k \in Nat, j < k
        PROVE  Cardinality(Between(j, k)') * PieceLen <= PieceLen - 1 + (k - j) * Fill
    <2>1. Cardinality(Between(j, k)) * PieceLen \in Nat /\ IsFiniteSet(Between(j, k))
      BY PacedSets, FewerBytes
    <2>2. CASE j < w /\ w <= k
      <3>1. Between(j, k)' \subseteq Beyond(j)' /\ r \in Beyond(j)'
        BY <1>3, <2>2 DEF Between, Beyond
      <3>2. Beyond(j)' \subseteq Paced'
        BY DEF Beyond
      <3>3. IsFiniteSet(Beyond(j)')
        BY <3>2, PacedSets, FS_AddElement, FS_Subset
      <3>4. /\ Cardinality(Between(j, k)') * PieceLen <= Cardinality(Beyond(j)') * PieceLen
            /\ Cardinality(Between(j, k)') * PieceLen \in Nat
            /\ Cardinality(Beyond(j)') * PieceLen \in Nat
        BY <3>1, <3>3, FewerBytes
      <3>5. Cardinality(Beyond(j)') * PieceLen <= PieceLen - 1 - tokens' - j * Fill
        BY <1>6, <3>1
      <3>6. w * Fill <= k * Fill
        BY <1>2, <1>4, <2>2
      <3>7. (k - j) * Fill = k * Fill - j * Fill
        BY <1>1, Z3
      <3> QED
        BY <1>1, <1>2, <3>4, <3>5, <3>6, <3>7
    <2>3. CASE ~(j < w /\ w <= k)
      <3>1. Between(j, k)' = Between(j, k)
        BY <1>2, <1>3, <2>3 DEF Between
      <3> QED
        BY <1>8, <3>1 DEF RateInv
    <2> QED
      BY <2>2, <2>3
  <1> QED
    BY <1>5, <1>6, <1>7, <1>8 DEF RateInv

\* A tick pays at the rate; whoever sleeps has a tick less to sleep.
LEMMA RateTicks ==
    ASSUME RateTypes, RateInv, Tick
    PROVE  RateInv'
  <1> USE DEF RateTypes
  <1>1. /\ PieceLen \in Nat \ {0} /\ Fill \in Nat \ {0} /\ Burst \in Nat
        /\ Most \in Nat /\ Most >= Burst + Fill - 1 /\ Most >= PieceLen + Fill - 1
        /\ \A j \in Int : j * Fill \in Int /\ (j + 1) * Fill = j * Fill + Fill
    BY Numbers, MostIs, Times
  <1>2. /\ tokens' \in Int /\ tokens' <= Burst /\ tokens' <= tokens + Fill
        /\ excess' \in Nat /\ (excess' = 0 \/ excess' = excess - Fill)
    BY <1>1 DEF Tick, Lesser, Greater
  <1>3. Paced' = Paced /\ \A r \in Paced : pause[r] > 0 /\ pause'[r] = pause[r] - 1
    BY DEF Tick, NothingDue, Paced, Greater
  <1>4. ASSUME NEW j \in Nat
        PROVE  /\ Beyond(j)' = Beyond(j + 1)
               /\ Within(j)' = Within(j + 1) /\ Within(j)' = Between(0, j + 1)
               /\ \A k \in Nat : Between(j, k)' = Between(j + 1, k + 1)
    BY <1>3 DEF Beyond, Within, Between, Paced
  <1>5. ASSUME NEW j \in Nat, Beyond(j)' # {}
        PROVE  Cardinality(Beyond(j)') * PieceLen <= PieceLen - 1 - tokens' - j * Fill
    <2>1. Cardinality(Beyond(j)') * PieceLen <= PieceLen - 1 - tokens - (j + 1) * Fill
      BY <1>4, <1>5 DEF RateInv
    <2>2. Cardinality(Beyond(j + 1)) * PieceLen \in Nat
      <3>1. j + 1 \in Nat
        OBVIOUS
      <3>2. IsFiniteSet(Beyond(j + 1))
        BY <3>1, PacedSets
      <3> QED
        BY <3>2, FewerBytes
    <2> QED
      BY <1>1, <1>2, <1>4, <2>1, <2>2
  <1>6. ASSUME NEW j \in Nat
        PROVE  excess' + Cardinality(Within(j)') * PieceLen <= Most + j * Fill
    <2>1. Cardinality(Within(j + 1)) * PieceLen \in Nat
      <3>1. j + 1 \in Nat
        OBVIOUS
      <3>2. IsFiniteSet(Within(j + 1))
        BY <3>1, PacedSets
      <3> QED
        BY <3>2, FewerBytes
    <2>2. CASE excess' = excess - Fill
      <3>1. excess + Cardinality(Within(j + 1)) * PieceLen <= Most + (j + 1) * Fill
        BY DEF RateInv
      <3> QED
        BY <1>1, <1>2, <1>4, <2>1, <2>2, <3>1
    <2>3. CASE excess' = 0
      <3>1. Cardinality(Between(0, j + 1)) * PieceLen <= PieceLen - 1 + ((j + 1) - 0) * Fill
        BY DEF RateInv
      <3>2. Cardinality(Within(j)') * PieceLen <= PieceLen - 1 + j * Fill + Fill
        BY <1>1, <1>4, <3>1
      <3> QED
        BY <1>1, <1>4, <2>1, <2>3, <3>2
    <2> QED
      BY <1>2, <2>2, <2>3
  <1>7. ASSUME NEW j \in Nat, NEW k \in Nat, j < k
        PROVE  Cardinality(Between(j, k)') * PieceLen <= PieceLen - 1 + (k - j) * Fill
    <2>1. Cardinality(Between(j + 1, k + 1)) * PieceLen
             <= PieceLen - 1 + ((k + 1) - (j + 1)) * Fill
      BY <1>7 DEF RateInv
    <2>2. (k + 1) - (j + 1) = k - j
      OBVIOUS
    <2> QED
      BY <1>4, <2>1, <2>2
  <1>8. excess' + Cardinality(Paced') * PieceLen <= Most - tokens'
    <2>1. Cardinality(Paced) * PieceLen \in Nat /\ Beyond(0) = Paced
      BY <1>3, PacedSets, FewerBytes DEF Beyond, Paced
    <2>2. CASE excess' = excess - Fill
      <3>1. excess + Cardinality(Paced) * PieceLen <= Most - tokens
        BY DEF RateInv
      <3> QED
        BY <1>1, <1>2, <1>3, <2>1, <2>2, <3>1
    <2>3. CASE excess' = 0 /\ Paced # {}
      <3>1. Cardinality(Paced) * PieceLen <= PieceLen - 1 - tokens - 0 * Fill
        BY <2>1, <2>3 DEF RateInv
      <3> QED
        BY <1>1, <1>2, <1>3, <2>1, <2>3, <3>1
    <2>4. CASE excess' = 0 /\ Paced = {}
      <3>1. Cardinality(Paced) * PieceLen = 0
        BY <1>1, <2>4, FS_EmptySet
      <3> QED
        BY <1>1, <1>2, <1>3, <2>4, <3>1
    <2> QED
      BY <1>2, <2>2, <2>3, <2>4
  <1> QED
    BY <1>5, <1>6, <1>7, <1>8 DEF RateInv

-----------------------------------------------------------------------------
(* The steps.                                                              *)

LEMMA InitInv ==
    ASSUME UploadsInit
    PROVE  UploadsInv
  <1> USE DEF UploadsInit
  <1>1. RestTypes
    BY Numbers DEF RestTypes, PC, Answer, File
  <1>2. Holding = {} /\ Queued = {} /\ Paced = {} /\ Charged = {}
    BY DEF Holding, Queued, Paced, Charged
  <1>3. Cardinality({}) = 0 /\ \A n \in Nat : Cardinality({}) * n = 0
    BY FS_EmptySet
  <1>4. SlotsInv
    <2>1. DOMAIN queue = {} /\ queue \in Seq(Req)
      OBVIOUS
    <2>2. free + Cardinality(Holding) = Slots /\ free \in Nat
      BY <1>2, <1>3, Numbers
    <2>3. {queue[i] : i \in DOMAIN queue} = {r \in Req : pc[r] = "queued"}
      BY <1>2, <2>1 DEF Queued
    <2> QED
      BY <2>1, <2>2, <2>3 DEF SlotsInv, SlotsConserved
  <1>5. ReportsInv
    BY DEF ReportsInv
  <1>6. AgeInv
    <2>1. tokens >= Burst - Cardinality(Charged) * PieceLen
      BY <1>2, <1>3, Numbers
    <2> QED
      BY <2>1, Numbers DEF AgeInv
  <1>7. RateInv
    <2>1. \A j, k \in Nat : Beyond(j) = {} /\ Within(j) = {} /\ Between(j, k) = {}
      BY <1>2 DEF Beyond, Within, Between
    <2>2. \A j \in Nat : j * Fill \in Nat
      BY Numbers
    <2>3. \A j, k \in Nat : j < k => (k - j) * Fill \in Nat
      BY Numbers
    <2>4. excess + Cardinality(Paced) * PieceLen <= Most - tokens
      BY <1>2, <1>3, MostIs, Numbers
    <2>5. ASSUME NEW j \in Nat
          PROVE  excess + Cardinality(Within(j)) * PieceLen <= Most + j * Fill
      <3>1. Cardinality(Within(j)) * PieceLen = 0 /\ j * Fill \in Nat
        BY <1>3, <2>1, <2>2, Numbers
      <3> QED
        BY <3>1, MostIs
    <2>6. ASSUME NEW j \in Nat, NEW k \in Nat, j < k
          PROVE  Cardinality(Between(j, k)) * PieceLen <= PieceLen - 1 + (k - j) * Fill
      <3>1. Cardinality(Between(j, k)) * PieceLen = 0
        BY <1>3, <2>1, Numbers
      <3> QED
        BY <2>3, <2>6, <3>1, Numbers
    <2> QED
      BY <2>1, <2>4, <2>5, <2>6 DEF RateInv
  <1> QED
    BY <1>1, <1>4, <1>5, <1>6, <1>7 DEF UploadsInv

\* The debt is at most what was ever asked for.
LEMMA DebtBounded ==
    ASSUME RestTypes, AgeInv, Charged \subseteq Charged', tokens' \in Int, tokens' >= tokens
    PROVE  tokens' >= Burst - Cardinality(Charged') * PieceLen
  <1>1. IsFiniteSet(Charged')
    BY FiniteRequests DEF Charged
  <1>2. /\ Cardinality(Charged) * PieceLen <= Cardinality(Charged') * PieceLen
        /\ Cardinality(Charged) * PieceLen \in Nat /\ Cardinality(Charged') * PieceLen \in Nat
    BY <1>1, FewerBytes
  <1> QED
    BY <1>2, Numbers DEF RestTypes, AgeInv

LEMMA OutsideInv ==
    ASSUME UploadsInv, Admit \/ ChangeFile
    PROVE  UploadsInv'
  <1> USE DEF UploadsInv
  <1>1. /\ UNCHANGED <<metered, requestVars, slotVars, limitVars, stamp, reports>>
        /\ admitted' \subseteq Peer /\ file' \in File /\ (file # "original" => file' # "original")
    BY DEF Admit, ChangeFile, RestTypes, File, fileVars
  <1>2. UNCHANGED <<pc, answer, read, age, tokens, pause, excess, queue, free>>
    BY <1>1 DEF requestVars, slotVars, limitVars
  <1>3. RestTypes'
    BY <1>1, <1>2 DEF RestTypes
  <1>4. SlotsInv'
    BY <1>2 DEF SlotsInv, SlotsConserved, Holding
  <1>5. ReportsInv'
    BY <1>1, <1>2 DEF ReportsInv
  <1>6. AgeInv' /\ RateInv'
    BY <1>2 DEF AgeInv, RateInv, Charged, Paced, Beyond, Within, Between
  <1> QED
    BY <1>3, <1>4, <1>5, <1>6

\* A request that does not have a slot: found, refused or told Busy.
LEMMA QueueInv ==
    ASSUME UploadsInv, NEW r \in Req, Refuse(r) \/ Enter(r) \/ TimeOut(r)
    PROVE  UploadsInv'
  <1> USE DEF UploadsInv
  <1>1. /\ pc[r] \in {"idle", "queued"}
        /\ \E at \in {"granted", "queued", "write"} :
              pc' = [pc EXCEPT ![r] = at] /\ (at # "write" => pc[r] = "idle")
        /\ UNCHANGED <<admitted, metered, read, limitVars, fileVars>>
    BY DEF Refuse, Enter, TimeOut, Reply
  <1>2. PICK at \in {"granted", "queued", "write"} :
            pc' = [pc EXCEPT ![r] = at] /\ (at # "write" => pc[r] = "idle")
    BY <1>1
  <1>3. pc'[r] = at /\ \A q \in Req : q # r => pc'[q] = pc[q]
    BY <1>2 DEF RestTypes
  <1>4. \/ age' = age /\ pc[r] = "idle"
        \/ at = "write" /\ age' = [age EXCEPT ![r] = 0]
    <2>1. CASE Refuse(r) \/ Enter(r)
      BY <2>1 DEF Refuse, Enter
    <2>2. CASE TimeOut(r)
      <3>1. pc'[r] = "write" /\ age' = [age EXCEPT ![r] = 0]
        BY <2>2 DEF TimeOut, Reply, RestTypes
      <3> QED
        BY <1>3, <3>1
    <2> QED
      BY <2>1, <2>2
  <1>5. answer' \in [Req -> Answer]
    BY DEF Refuse, Enter, TimeOut, Reply, RestTypes, Answer
  <1>6. RestTypes'
    <2>1. pc' \in [Req -> PC] /\ age' \in [Req -> Nat]
      BY <1>2, <1>4 DEF RestTypes, PC
    <2> QED
      BY <1>1, <1>5, <2>1 DEF RestTypes, limitVars, fileVars
  <1>7. SlotsInv'
    <2>1. CASE Refuse(r)
      <3>1. Holding' = Holding /\ Queued' = Queued /\ UNCHANGED slotVars
        BY <2>1 DEF Refuse, Reply, Holding, Queued, RestTypes
      <3> QED
        BY <3>1, SlotsKept
    <2>2. CASE Enter(r)
      BY <2>2, SlotsEnter DEF RestTypes, PCType
    <2>3. CASE TimeOut(r)
      BY <2>3, SlotsLeave DEF TimeOut, Reply, RestTypes, PCType
    <2> QED
      BY <2>1, <2>2, <2>3
  <1>8. ReportsInv'
    BY <1>1, <1>2, <1>3 DEF ReportsInv, fileVars
  <1>9. Charged \subseteq Charged' /\ Paced' = Paced
    BY <1>1, <1>2, <1>3 DEF Charged, Paced
  <1>10. AgeInv'
    <2>1. tokens' >= Burst - Cardinality(Charged') * PieceLen
      BY <1>1, <1>6, <1>9, DebtBounded DEF RestTypes, limitVars
    <2>2. ASSUME NEW q \in Req
          PROVE  /\ pc'[q] # "pause" => pause'[q] = 0
                 /\ pc'[q] \in {"queued", "granted"} => age'[q] <= SlotWait
                 /\ pc'[q] \in {"idle", "encode", "encoded", "write", "done"} => age'[q] = 0
                 /\ pc'[q] = "pause" => q # r /\ pc[q] = "pause" /\ age'[q] = age[q]
      <3>1. CASE q = r
        <4>1. pause'[r] = 0
          BY <1>1 DEF AgeInv, limitVars
        <4>2. CASE at = "write"
          BY <1>3, <1>4, <3>1, <4>1, <4>2 DEF AgeInv, RestTypes
        <4>3. CASE at # "write"
          BY <1>2, <1>3, <1>4, <3>1, <4>1, <4>3, Numbers DEF AgeInv
        <4> QED
          BY <4>2, <4>3
      <3>2. CASE q # r
        BY <1>1, <1>3, <1>4, <3>2 DEF AgeInv, limitVars, RestTypes
      <3> QED
        BY <3>1, <3>2
    <2> QED
      BY <1>1, <2>1, <2>2 DEF AgeInv, limitVars
  <1>11. RateInv'
    BY <1>1, <1>9, RateEases DEF RateTypes, RestTypes, limitVars
  <1> QED
    BY <1>6, <1>7, <1>8, <1>10, <1>11

\* The limiter charges a request for its piece.
LEMMA AcquireInv ==
    ASSUME UploadsInv, NEW r \in Req, Acquire(r)
    PROVE  UploadsInv'
  <1> USE DEF UploadsInv
  <1> DEFINE deepest == Burst - Cardinality(Req) * PieceLen
  <1>1. /\ pc[r] = "granted" /\ pc' = [pc EXCEPT ![r] = "pause"]
        /\ tokens' = tokens - PieceLen /\ pause' = [pause EXCEPT ![r] = Wait(tokens')]
        /\ UNCHANGED <<admitted, metered, answer, read, age, excess, slotVars, fileVars>>
    BY DEF Acquire
  <1>2. pc'[r] = "pause" /\ \A q \in Req : q # r => pc'[q] = pc[q] /\ pause'[q] = pause[q]
    BY <1>1 DEF RestTypes
  <1>3. tokens' \in Int /\ tokens' <= Burst /\ Wait(tokens') \in Nat /\ pause'[r] = Wait(tokens')
    BY <1>1, Numbers, WaitPays DEF RestTypes
  <1>4. RestTypes'
    BY <1>1, <1>3 DEF RestTypes, PC, fileVars
  <1>5. SlotsInv'
    <2>1. Holding' = Holding /\ Queued' = Queued
      BY <1>1, <1>2 DEF Holding, Queued
    <2> QED
      BY <1>1, <2>1, SlotsKept
  <1>6. ReportsInv'
    BY <1>1, <1>2 DEF ReportsInv, fileVars
  <1>7. Charged' = Charged \cup {r} /\ r \notin Charged
    BY <1>1, <1>2 DEF Charged
  <1>8. tokens' >= Burst - Cardinality(Charged') * PieceLen
    <2>1. IsFiniteSet(Charged)
      BY FiniteRequests DEF Charged
    <2>2. /\ Cardinality(Charged) * PieceLen \in Nat
          /\ Cardinality(Charged') * PieceLen = Cardinality(Charged) * PieceLen + PieceLen
      BY <1>7, <2>1, MoreBytes
    <2> QED
      BY <1>1, <2>2, Numbers DEF AgeInv, RestTypes
  <1>9. Wait(tokens') <= Wait(deepest) /\ Wait(deepest) \in Nat
    <2>1. /\ Cardinality(Charged') * PieceLen <= Cardinality(Req) * PieceLen
          /\ Cardinality(Charged') * PieceLen \in Nat /\ Cardinality(Req) * PieceLen \in Nat
      BY UploadsAssumption, FewerBytes DEF Charged
    <2>2. deepest \in Int /\ deepest <= tokens'
      BY <1>3, <1>8, <2>1, Numbers
    <2> QED
      BY <1>3, <2>2, WaitGrows, WaitPays
  <1> HIDE DEF deepest
  <1>10. AgeInv'
    <2>1. ASSUME NEW q \in Req
          PROVE  /\ pc'[q] # "pause" => pause'[q] = 0
                 /\ pc'[q] \in {"queued", "granted"} => age'[q] <= SlotWait
                 /\ pc'[q] \in {"idle", "encode", "encoded", "write", "done"} => age'[q] = 0
                 /\ pc'[q] = "pause" => age'[q] + pause'[q] <= SlotWait + Wait(deepest)
      <3>1. CASE q = r
        BY <1>1, <1>2, <1>3, <1>9, <3>1, Numbers DEF AgeInv, RestTypes
      <3>2. CASE q # r
        BY <1>1, <1>2, <3>2 DEF AgeInv, deepest
      <3> QED
        BY <3>1, <3>2
    <2> QED
      BY <1>8, <2>1 DEF AgeInv, deepest
  <1>11. RateInv'
    <2>1. Paced' = Paced \cup {r} /\ r \notin Paced
      BY <1>1, <1>2 DEF Paced
    <2> QED
      BY <1>1, <2>1, RateCharges DEF RateTypes, RestTypes
  <1> QED
    BY <1>4, <1>5, <1>6, <1>10, <1>11

\* A paced request is let through, or there is no limit.
LEMMA BeginInv ==
    ASSUME UploadsInv, NEW r \in Req, Begin(r)
    PROVE  UploadsInv'
  <1> USE DEF UploadsInv
  <1>1. /\ pc[r] \in {"granted", "pause"} /\ pc' = [pc EXCEPT ![r] = "encode"]
        /\ pause[r] = 0 /\ age' = [age EXCEPT ![r] = 0]
        /\ UNCHANGED <<admitted, metered, answer, read, tokens, pause, slotVars, fileVars>>
    BY DEF Begin, AgeInv
  <1>2. pc'[r] = "encode" /\ \A q \in Req : q # r => pc'[q] = pc[q]
    BY <1>1 DEF RestTypes
  <1>3. \/ excess' = 0
        \/ pc[r] = "pause" /\ excess' = excess + PieceLen
    BY DEF Begin
  <1>4. RestTypes'
    <2>1. excess' \in Nat
      BY <1>3, Numbers DEF RestTypes
    <2>2. pc' \in [Req -> PC] /\ age' \in [Req -> Nat]
      BY <1>1 DEF RestTypes, PC
    <2> QED
      BY <1>1, <2>1, <2>2 DEF RestTypes, fileVars
  <1>5. SlotsInv'
    <2>1. Holding' = Holding /\ Queued' = Queued
      BY <1>1, <1>2 DEF Holding, Queued
    <2> QED
      BY <1>1, <2>1, SlotsKept
  <1>6. ReportsInv'
    BY <1>1, <1>2 DEF ReportsInv, fileVars
  <1>7. AgeInv'
    <2>1. Charged \subseteq Charged'
      BY <1>2 DEF Charged
    <2>2. tokens' >= Burst - Cardinality(Charged') * PieceLen
      BY <1>1, <2>1, DebtBounded DEF RestTypes
    <2>3. \A q \in Req : q # r => age'[q] = age[q]
      BY <1>1 DEF RestTypes
    <2>4. age'[r] = 0
      BY <1>1 DEF RestTypes
    <2> QED
      BY <1>1, <1>2, <2>2, <2>3, <2>4 DEF AgeInv
  <1>8. RateInv'
    <2>1. Paced' = Paced \ {r}
      BY <1>2 DEF Paced
    <2>2. CASE excess' = 0
      <3>1. excess' <= excess /\ Paced' \subseteq Paced
        BY <2>1, <2>2 DEF RestTypes
      <3> QED
        BY <1>1, <2>2, <3>1, RateEases DEF RateTypes, RestTypes
    <2>3. CASE pc[r] = "pause" /\ excess' = excess + PieceLen
      <3>1. r \in Paced
        BY <2>3 DEF Paced
      <3> QED
        BY <1>1, <2>1, <2>3, <3>1, RateBegins DEF RateTypes, RestTypes
    <2> QED
      BY <1>3, <2>2, <2>3
  <1> QED
    BY <1>4, <1>5, <1>6, <1>7, <1>8

\* The blocking thread reads the piece; the answer is written.
LEMMA ReadInv ==
    ASSUME UploadsInv, NEW r \in Req, Encode(r) \/ Written(r)
    PROVE  UploadsInv'
  <1> USE DEF UploadsInv
  <1>1. /\ UNCHANGED <<admitted, metered, age, slotVars, limitVars, fileVars>>
        /\ \/ pc[r] = "encode" /\ pc' = [pc EXCEPT ![r] = "encoded"]
           \/ pc[r] = "write" /\ pc' = [pc EXCEPT ![r] = "done"]
    BY DEF Encode, Written
  <1>2. /\ answer' \in [Req -> Answer] /\ read' \in [Req -> {"none", "proved", "failed"}]
        /\ pc' \in [Req -> PC]
    BY <1>1 DEF Encode, Written, RestTypes, Answer, PC
  <1>3. \A q \in Req : q # r => pc'[q] = pc[q] /\ read'[q] = read[q]
    BY DEF Encode, Written, RestTypes
  <1>4. /\ pc[r] = "encode" => pc'[r] = "encoded"
        /\ pc[r] = "write" => pc'[r] = "done"
        /\ read'[r] = "failed" => pc'[r] = "encoded" /\ file # "original"
    BY DEF Encode, Written, RestTypes, Genuine
  <1>5. RestTypes'
    BY <1>1, <1>2 DEF RestTypes, limitVars, fileVars
  <1>6. SlotsInv'
    <2>1. Holding' = Holding /\ Queued' = Queued
      BY <1>1, <1>3, <1>4 DEF Holding, Queued
    <2> QED
      BY <1>1, <2>1, SlotsKept
  <1>7. ReportsInv'
    BY <1>1, <1>3, <1>4 DEF ReportsInv, fileVars
  <1>8. Charged' = Charged /\ Paced' = Paced
    BY <1>1, <1>3, <1>4 DEF Charged, Paced
  <1>9. AgeInv'
    BY <1>1, <1>3, <1>4, <1>8 DEF AgeInv, limitVars
  <1>10. RateInv'
    BY <1>1, <1>8, RateEases DEF RateTypes, RestTypes, limitVars
  <1> QED
    BY <1>5, <1>6, <1>7, <1>9, <1>10

\* serve_piece returns: the slot goes on to the request that waits longest.
LEMMA ReturnInv ==
    ASSUME UploadsInv, NEW r \in Req, Return(r)
    PROVE  UploadsInv'
  <1> USE DEF UploadsInv
  <1>1. /\ pc[r] = "encoded" /\ GiveBack([pc EXCEPT ![r] = "write"])
        /\ answer' \in [Req -> Answer]
        /\ reports' \in {0, 1} /\ (reports = 1 => reports' = 1)
        /\ read[r] = "failed" /\ file # stamp => reports' = 1
        /\ UNCHANGED <<admitted, metered, read, age, limitVars, file, stamp>>
    BY DEF Return, Note, RestTypes, Answer
  <1>2. r \in Holding
    BY <1>1 DEF Holding
  <1>3. /\ pc' \in [Req -> PC] /\ pc'[r] = "write"
        /\ \A q \in Req : q # r => pc'[q] = pc[q] \/ (pc[q] = "queued" /\ pc'[q] = "granted")
    BY <1>1, <1>2, GiveBackMoves DEF PCType, RestTypes
  <1>4. RestTypes'
    BY <1>1, <1>3 DEF RestTypes, limitVars
  <1>5. SlotsInv'
    BY <1>1, <1>2, SlotsReturn DEF PCType, RestTypes
  <1>6. ReportsInv'
    BY <1>1, <1>3 DEF ReportsInv
  <1>7. Charged' = Charged /\ Paced' = Paced
    BY <1>1, <1>3 DEF Charged, Paced
  <1>8. AgeInv'
    BY <1>1, <1>3, <1>7 DEF AgeInv, limitVars
  <1>9. RateInv'
    BY <1>1, <1>7, RateEases DEF RateTypes, RestTypes, limitVars
  <1> QED
    BY <1>4, <1>5, <1>6, <1>8, <1>9

\* The connection ends: the request leaves the queue, or its slot goes on.
LEMMA AbortInv ==
    ASSUME UploadsInv, NEW r \in Req, Abort(r)
    PROVE  UploadsInv'
  <1> USE DEF UploadsInv
  <1>1. /\ pc[r] \in {"queued", "granted", "pause", "encode", "encoded"}
        /\ read' = [read EXCEPT ![r] = "none"] /\ age' = [age EXCEPT ![r] = 0]
        /\ pause' = [pause EXCEPT ![r] = 0]
        /\ UNCHANGED <<admitted, metered, answer, tokens, excess, fileVars>>
    BY DEF Abort
  <1>2. /\ SlotsInv' /\ pc' \in [Req -> PC] /\ pc'[r] = "done"
        /\ \A q \in Req : q # r => pc'[q] = pc[q] \/ (pc[q] = "queued" /\ pc'[q] = "granted")
    <2>1. CASE pc[r] = "queued"
      <3>1. queue' = Without(r) /\ pc' = [pc EXCEPT ![r] = "done"] /\ UNCHANGED free
        BY <2>1 DEF Abort
      <3>2. SlotsInv'
        BY <2>1, <3>1, SlotsLeave DEF PCType, RestTypes
      <3> QED
        BY <3>1, <3>2 DEF RestTypes, PC
    <2>2. CASE pc[r] # "queued"
      <3>1. r \in Holding /\ GiveBack([pc EXCEPT ![r] = "done"])
        BY <1>1, <2>2 DEF Abort, Holding
      <3> QED
        BY <3>1, SlotsReturn, GiveBackMoves DEF PCType, RestTypes
    <2> QED
      BY <2>1, <2>2
  <1>3. RestTypes'
    BY <1>1, <1>2 DEF RestTypes, fileVars
  <1>4. /\ read'[r] = "none" /\ age'[r] = 0 /\ pause'[r] = 0
        /\ \A q \in Req : q # r => read'[q] = read[q] /\ age'[q] = age[q] /\ pause'[q] = pause[q]
    BY <1>1 DEF RestTypes
  <1>5. ReportsInv'
    BY <1>1, <1>2, <1>4 DEF ReportsInv, fileVars
  <1>6. Charged \subseteq Charged' /\ Paced' \subseteq Paced /\ r \notin Paced'
    BY <1>1, <1>2 DEF Charged, Paced
  <1>7. AgeInv'
    <2>1. tokens' >= Burst - Cardinality(Charged') * PieceLen
      BY <1>1, <1>6, DebtBounded DEF RestTypes
    <2> QED
      BY <1>2, <1>4, <2>1 DEF AgeInv
  <1>8. RateInv'
    <2>1. \A q \in Paced' : pause'[q] = pause[q]
      BY <1>4, <1>6 DEF Paced
    <2> QED
      BY <1>1, <1>6, <2>1, RateEases DEF RateTypes, RestTypes
  <1> QED
    BY <1>2, <1>3, <1>5, <1>7, <1>8

\* A tick passes when nothing is due.
LEMMA TickInv ==
    ASSUME UploadsInv, Tick
    PROVE  UploadsInv'
  <1> USE DEF UploadsInv
  <1>1. /\ UNCHANGED <<admitted, metered, pc, answer, read, slotVars, fileVars>>
        /\ NothingDue
    BY DEF Tick
  <1>2. tokens' \in Int /\ tokens' <= Burst /\ tokens' >= tokens /\ excess' \in Nat
    BY Numbers DEF Tick, Lesser, Greater, RestTypes
  <1>3. ASSUME NEW q \in Req
        PROVE  /\ pause'[q] \in Nat /\ age'[q] \in Nat
               /\ pause'[q] = IF pause[q] > 0 THEN pause[q] - 1 ELSE 0
               /\ age'[q] = IF pc[q] \in {"queued", "pause"} THEN age[q] + 1 ELSE age[q]
    BY DEF Tick, Greater, Waiting, RestTypes
  <1>4. pause' \in [Req -> Nat] /\ age' \in [Req -> Nat]
    BY <1>3 DEF Tick
  <1>5. RestTypes'
    BY <1>1, <1>2, <1>4 DEF RestTypes, fileVars
  <1>6. SlotsInv'
    <2>1. Holding' = Holding /\ Queued' = Queued
      BY <1>1 DEF Holding, Queued
    <2> QED
      BY <1>1, <2>1, SlotsKept
  <1>7. ReportsInv'
    BY <1>1 DEF ReportsInv, fileVars
  <1>8. AgeInv'
    <2>1. tokens' >= Burst - Cardinality(Charged') * PieceLen
      BY <1>1, <1>2, DebtBounded DEF RestTypes, Charged
    <2>2. ASSUME NEW q \in Req
          PROVE  /\ pc[q] # "pause" => pause'[q] = 0
                 /\ pc[q] \in {"queued", "granted"} => age'[q] <= SlotWait
                 /\ pc[q] \in {"idle", "encode", "encoded", "write", "done"} => age'[q] = 0
                 /\ pc[q] = "pause" => age'[q] + pause'[q] = age[q] + pause[q]
      BY <1>1, <1>3, Numbers DEF AgeInv, NothingDue, RestTypes
    <2> QED
      BY <1>1, <2>1, <2>2 DEF AgeInv
  <1>9. RateInv'
    BY RateTicks DEF RateTypes, RestTypes
  <1> QED
    BY <1>5, <1>6, <1>7, <1>8, <1>9

LEMMA NextInv ==
    ASSUME UploadsInv, [UploadsNext]_vars
    PROVE  UploadsInv'
  <1>1. CASE UNCHANGED vars
    <2>1. UNCHANGED <<admitted, metered, pc, answer, read, age, queue, free, tokens, pause, excess,
                      file, stamp, reports>>
      BY <1>1 DEF vars, requestVars, slotVars, limitVars, fileVars
    <2>2. RestTypes' /\ ReportsInv'
      BY <2>1 DEF UploadsInv, RestTypes, ReportsInv
    <2>3. SlotsInv'
      BY <2>1 DEF UploadsInv, SlotsInv, SlotsConserved, Holding
    <2>4. AgeInv' /\ RateInv'
      BY <2>1 DEF UploadsInv, AgeInv, Charged, RateInv, Paced, Beyond, Within, Between
    <2> QED
      BY <2>2, <2>3, <2>4 DEF UploadsInv
  <1>2. CASE UploadsNext
    BY <1>2, OutsideInv, TickInv, QueueInv, AcquireInv, BeginInv, ReadInv, ReturnInv, AbortInv
    DEF UploadsNext, Step
  <1> QED
    BY <1>1, <1>2

\* The strengthening holds in every reachable state.
THEOREM UploadsInvariant == UploadsSpec => []UploadsInv
  BY InitInv, NextInv, PTL DEF UploadsSpec

LEMMA InvSays ==
    ASSUME UploadsInv
    PROVE  UploadsTypeOK /\ SlotsConserved /\ RateKept /\ StalenessBounded /\ ChangeIsReported
  <1> USE DEF UploadsInv
  <1>1. SlotsConserved /\ queue \in Seq(Req) /\ free \in Nat
    BY DEF SlotsInv
  <1>2. UploadsTypeOK
    <2>1. Cardinality(Holding) \in Nat
      BY FiniteRequests DEF Holding
    <2>2. free \in 0 .. Slots
      BY <1>1, <2>1, Numbers DEF SlotsConserved
    <2> QED
      BY <1>1, <2>2 DEF RestTypes, UploadsTypeOK
  <1>3. RateKept
    <2>1. excess + Cardinality(Within(0)) * PieceLen <= Most + 0 * Fill
      BY DEF RateInv
    <2>2. IsFiniteSet(Within(0))
      BY PacedSets
    <2>3. Cardinality(Within(0)) * PieceLen \in Nat
      BY <2>2, FewerBytes
    <2> QED
      BY <2>1, <2>3, MostIs, Numbers DEF RateKept, Most, RestTypes
  <1>4. StalenessBounded
    <2> DEFINE deepest == Burst - Cardinality(Req) * PieceLen
    <2>1. Cardinality(Req) * PieceLen \in Nat
      BY UploadsAssumption, FewerBytes
    <2>2. Wait(deepest) \in Nat
      BY <2>1, Numbers, WaitPays
    <2> QED
      BY <2>2, Numbers DEF AgeInv, StalenessBounded, Waiting, RestTypes
  <1>5. ChangeIsReported
    BY DEF ReportsInv, ChangeIsReported
  <1> QED
    BY <1>1, <1>2, <1>3, <1>4, <1>5

\* Every request, slot and number of the limiter is what it can be.
THEOREM UploadsTypes == UploadsSpec => []UploadsTypeOK
  BY UploadsInvariant, InvSays, PTL

\* No slot of the semaphore is lost or given twice, and none is free while a
\* request waits, through timeouts and connections that end (handler.rs).
THEOREM UploadsSlotsConserved == UploadsSpec => []SlotsConserved
  BY UploadsInvariant, InvSays, PTL

\* The limiter keeps its rate (limits.rs:5): over any stretch of time it lets
\* through no more than that and one burst, or one piece, whatever callers run up
\* debts together or leave them behind.
THEOREM UploadsRateKept == UploadsSpec => []RateKept
  BY UploadsInvariant, InvSays, PTL

\* A piece is read at most so long after its peer was admitted (handler.rs:98).
THEOREM UploadsStalenessBounded == UploadsSpec => []StalenessBounded
  BY UploadsInvariant, InvSays, PTL

\* Whoever is refused a piece of a file that changed finds the change reported
\* (event.rs:54), once.
THEOREM UploadsChangeIsReported == UploadsSpec => []ChangeIsReported
  BY UploadsInvariant, InvSays, PTL
=============================================================================
