---------------------------- MODULE JoiningProofs ----------------------------
(***************************************************************************)
(* Proofs about Joining: types, whose turn it is, when the task ends, why  *)
(* it fails, and the layout of the files it downloads.                     *)
(***************************************************************************)
EXTENDS Joining, FiniteSetTheorems, SequenceTheorems, TLAPS

\* Instances of Folding for the folds of Joining.
Other == INSTANCE Folding WITH Op <- LAMBDA p, r, k : IF k.id = p THEN r ELSE Append(r, k)
New   == INSTANCE Folding WITH Op <- LAMBDA c, s, addr : AppendNew(s, addr)
Code  == INSTANCE Folding WITH Op <- LAMBDA c, s, other : Merge(s, other)
Send  == INSTANCE Folding WITH Op <- LAMBDA c, channel, addr : TrySend(channel, addr)
Know  == INSTANCE Folding WITH Op <- LAMBDA c, s, addr : AddCandidate(s, addr)

\* And for the functions of Layout that are defined by the file before.
First == INSTANCE Folding WITH Op <- LAMBDA c, x, i : x + Pieces(c[i - 1])
Flat  == INSTANCE Folding WITH Op <- LAMBDA c, x, i : x \o c[i]

AnyAddress == [id : Peer, current : BOOLEAN]

Channels == {s \in Seq(AnyAddress) : Len(s) <= ChannelCap}

\* Lists of candidates: never us, nobody twice.
Rosters ==
    {s \in Seq([id : Peer \ {Me}, current : BOOLEAN]) :
        \A i, j \in DOMAIN s : s[i].id = s[j].id => i = j}

LEMMA OthersType ==
    ASSUME NEW A, NEW s \in Seq(A), NEW p
    PROVE  Others(s, p) \in Seq(A)
<1>1. \A x \in Seq(A), y \in A : (IF y.id = p THEN x ELSE Append(x, y)) \in Seq(A)
  OBVIOUS
<1>2. <<>> \in Seq(A)
  OBVIOUS
<1>3. Other!Folded(p, <<>>, s) \in Seq(A)
  BY <1>1, <1>2, Other!FoldKeeps
<1>. QED
  BY <1>3 DEF Others, Other!Folded, Other!MapThenFoldSet, Other!Max,
              FoldLeft, MapThenFoldSet, Max

LEMMA MergeType ==
    ASSUME NEW A, NEW s \in Seq(A), NEW other \in Seq(A)
    PROVE  Merge(s, other) \in Seq(A)
<1>1. \A x \in Seq(A), y \in A : AppendNew(x, y) \in Seq(A)
  BY DEF AppendNew
<1>2. New!Folded({}, s, other) \in Seq(A)
  BY <1>1, New!FoldKeeps
<1>. QED
  BY <1>2 DEF Merge, New!Folded, New!MapThenFoldSet, New!Max,
              FoldLeft, MapThenFoldSet, Max

LEMMA GivenType ==
    ASSUME NEW A, NEW codes \in Seq(Seq(A)), codes # <<>>
    PROVE  Given(codes) \in Seq(A)
<1>1. \A x \in Seq(A), y \in Seq(A) : Merge(x, y) \in Seq(A)
  BY MergeType
<1>2. Head(codes) \in Seq(A) /\ Tail(codes) \in Seq(Seq(A))
  OBVIOUS
<1>3. Code!Folded({}, Head(codes), Tail(codes)) \in Seq(A)
  BY <1>1, <1>2, Code!FoldKeeps
<1>. QED
  BY <1>3 DEF Given, Code!Folded, Code!MapThenFoldSet, Code!Max,
              FoldLeft, MapThenFoldSet, Max

LEMMA OneSendType ==
    ASSUME NEW channel \in Channels, NEW addr \in AnyAddress
    PROVE  TrySend(channel, addr) \in Channels
BY JoiningAssumption DEF TrySend, Channels

LEMMA SendType ==
    ASSUME NEW channel \in Channels, NEW s \in Seq(AnyAddress)
    PROVE  FoldLeft(TrySend, channel, s) \in Channels
<1>1. \A x \in Channels, y \in AnyAddress : TrySend(x, y) \in Channels
  BY OneSendType
<1>2. Send!Folded({}, channel, s) \in Channels
  BY <1>1, Send!FoldKeeps
<1>. QED
  BY <1>2 DEF Send!Folded, Send!MapThenFoldSet, Send!Max,
              FoldLeft, MapThenFoldSet, Max

LEMMA AddType ==
    ASSUME NEW s \in Rosters, NEW addr \in AnyAddress
    PROVE  AddCandidate(s, addr) \in Rosters
<1>1. CASE addr.id = Me \/ Lists(s, addr.id)
  BY <1>1 DEF AddCandidate, AppendNew
<1>2. CASE ~(addr.id = Me \/ Lists(s, addr.id))
  <2>1. AddCandidate(s, addr) = Append(s, addr)
    BY <1>2 DEF AddCandidate, AppendNew
  <2>2. addr \in [id : Peer \ {Me}, current : BOOLEAN]
    BY <1>2 DEF AnyAddress
  <2>3. Append(s, addr) \in Seq([id : Peer \ {Me}, current : BOOLEAN])
    BY <2>2 DEF Rosters
  <2>4. \A i \in DOMAIN s : s[i].id # addr.id
    BY <1>2 DEF Lists
  <2>5. \A i, j \in DOMAIN Append(s, addr) :
           Append(s, addr)[i].id = Append(s, addr)[j].id => i = j
    BY <2>2, <2>4 DEF Rosters
  <2>. QED BY <2>1, <2>3, <2>5 DEF Rosters
<1>. QED BY <1>1, <1>2

LEMMA KnowType ==
    ASSUME NEW s \in Rosters, NEW channel \in Seq(AnyAddress)
    PROVE  FoldLeft(AddCandidate, s, channel) \in Rosters
<1>1. \A x \in Rosters, y \in AnyAddress : AddCandidate(x, y) \in Rosters
  BY AddType
<1>2. Know!Folded({}, s, channel) \in Rosters
  BY <1>1, Know!FoldKeeps
<1>. QED
  BY <1>2 DEF Know!Folded, Know!MapThenFoldSet, Know!Max,
              FoldLeft, MapThenFoldSet, Max

LEMMA MinOfTwo ==
    ASSUME NEW a \in Nat, NEW b \in Nat
    PROVE  Min({a, b}) \in {a, b} /\ Min({a, b}) <= a /\ Min({a, b}) <= b
<1>1. \E x \in {a, b} : \A y \in {a, b} : x <= y
  OBVIOUS
<1>2. Min({a, b}) = CHOOSE x \in {a, b} : \A y \in {a, b} : x <= y
  BY DEF Min
<1>. QED BY <1>1, <1>2

LEMMA MaxOfZero ==
    ASSUME NEW a \in Nat
    PROVE  Max({a - 1, 0}) = IF a = 0 THEN 0 ELSE a - 1
<1>1. Max({a - 1, 0}) = CHOOSE x \in {a - 1, 0} : \A y \in {a - 1, 0} : x >= y
  BY DEF Max
<1>. QED BY <1>1

LEMMA LongestBound ==
    ASSUME NEW tries \in Nat
    PROVE  Longest(tries) \in Nat /\ Longest(tries) <= ConnectTimeout
<1>1. FirstAttempt \in Nat /\ ConnectTimeout \in Nat
  BY JoiningAssumption
<1>2. Min({tries, 4}) \in 0 .. 4
  BY MinOfTwo
<1>3. FirstAttempt * 2 ^ Min({tries, 4}) \in Nat
  <2>1. \A k \in 0 .. 4 : 2 ^ k \in Nat
    <3>1. /\ 2 ^ 0 \in Nat /\ 2 ^ 1 \in Nat /\ 2 ^ 2 \in Nat /\ 2 ^ 3 \in Nat
          /\ 2 ^ 4 \in Nat
      BY Z3
    <3>2. 0 .. 4 = {0, 1, 2, 3, 4}
      OBVIOUS
    <3>. QED BY <3>1, <3>2
  <2>2. PICK f \in Nat : f = 2 ^ Min({tries, 4})
    BY <1>2, <2>1
  <2>3. FirstAttempt * f \in Nat
    BY <1>1, Z3
  <2>. QED BY <2>2, <2>3
<1> DEFINE b == FirstAttempt * 2 ^ Min({tries, 4})
<1>4. Longest(tries) = Min({b, ConnectTimeout})
  BY DEF Longest
<1> HIDE DEF b
<1>5. b \in Nat
  BY <1>3 DEF b
<1>6. Min({b, ConnectTimeout}) \in {b, ConnectTimeout} /\ Min({b, ConnectTimeout}) <= ConnectTimeout
  BY <1>1, <1>5, MinOfTwo
<1>. QED BY <1>1, <1>4, <1>5, <1>6

LEMMA LimitBound ==
    ASSUME NEW tries \in Nat, left \in Nat
    PROVE  /\ Limit(tries) \in Nat /\ Limit(tries) <= left
           /\ Limit(tries) <= ConnectTimeout
           /\ Limit(tries) \in {Longest(tries), left}
<1>1. Longest(tries) \in Nat /\ Longest(tries) <= ConnectTimeout /\ ConnectTimeout \in Nat
  BY LongestBound, JoiningAssumption
<1> DEFINE b == Longest(tries)
           m == Min({b, left})
<1>2. Limit(tries) = m
  BY DEF Limit
<1> HIDE DEF b
<1>3. m \in {b, left} /\ m <= b /\ m <= left
  BY <1>1, MinOfTwo DEF b
<1> HIDE DEF m
<1>4. m \in Nat /\ m <= left /\ m <= ConnectTimeout /\ m \in {b, left}
  BY <1>1, <1>3 DEF b
<1>. QED BY <1>2, <1>4 DEF b

-----------------------------------------------------------------------------
(* The invariant.                                                          *)

\* Waits end with the deadline, but for the request of an attempt that began in
\* time.
TimeInv ==
    /\ left > 0 => over = 0
    /\ phase = "dial" => over = 0
    /\ phase \in {"dial", "pause"} => timer <= left
    /\ phase = "ask" => timer + over <= RequestTimeout
    /\ over <= RequestTimeout

\* The latest attempts, as many as there are candidates, went around the list
\* up to the one before `next`.
Recent == 1 .. Min({turns, Len(candidates)})

TurnInv ==
    /\ tried = {candidates[((next - j) % Len(candidates)) + 1].id : j \in Recent}
    /\ turns <= next
    /\ TurnsRotate

JoiningInv == JoiningTypeOK /\ TimeInv /\ TurnInv

\* Each numbers a candidate.
LEMMA TurnInRange ==
    ASSUME NEW n \in Nat, n > 0, NEW k \in Int
    PROVE  (k % n) + 1 \in 1 .. n
BY Z3

\* Division with remainder, and that it has one result.
LEMMA Division ==
    ASSUME NEW n \in Nat, n > 0, NEW k \in Int
    PROVE  \E q \in Int : k = n * q + (k % n) /\ k % n \in 0 .. n - 1
<1>1. k \div n \in Int /\ k % n \in 0 .. n - 1
  BY Z3
<1>2. k = n * (k \div n) + (k % n)
  BY SMT
<1>. QED BY <1>1, <1>2

LEMMA OneDivision ==
    ASSUME NEW n \in Nat, n > 0, NEW a \in Int, NEW b \in Int,
           NEW r \in 0 .. n - 1, NEW s \in 0 .. n - 1, n * a + r = n * b + s
    PROVE  a = b /\ r = s
<1>1. n * (a - b) = s - r
  BY Z3
<1>2. CASE a - b >= 1
  <2>1. n * (a - b) >= n
    BY <1>2, Z3
  <2>. QED BY <1>1, <2>1
<1>3. CASE a - b <= -1
  <2>1. n * (a - b) <= -n
    BY <1>3, Z3
  <2>. QED BY <1>1, <2>1
<1>4. a = b
  BY <1>2, <1>3
<1>5. n * (a - b) = 0
  BY <1>4
<1>. QED BY <1>1, <1>4, <1>5

\* n turns earlier it was the same one's turn, less than n turns earlier it was
\* another one's.
LEMMA TurnAgain ==
    ASSUME NEW n \in Nat, n > 0, NEW k \in Int
    PROVE  (k - n) % n = k % n
<1> DEFINE r == k % n
           s == (k - n) % n
<1>1. PICK q \in Int : k = n * q + r /\ r \in 0 .. n - 1
  BY Division
<1>2. PICK p \in Int : k - n = n * p + s /\ s \in 0 .. n - 1
  BY Division
<1> HIDE DEF r, s
<1>3. n * (q - 1) + r = n * p + s
  <2>1. n * (q - 1) = n * q - n
    BY Z3
  <2>. QED BY <1>1, <1>2, <2>1
<1>4. r = s
  BY <1>1, <1>2, <1>3, OneDivision
<1>. QED BY <1>4 DEF r, s

LEMMA TurnOfAnother ==
    ASSUME NEW n \in Nat, n > 0, NEW k \in Int, NEW j \in 1 .. n - 1
    PROVE  (k - j) % n # k % n
<1> DEFINE r == k % n
           s == (k - j) % n
<1>1. PICK q \in Int : k = n * q + r /\ r \in 0 .. n - 1
  BY Division
<1>2. PICK p \in Int : k - j = n * p + s /\ s \in 0 .. n - 1
  <2>1. k - j \in Int
    OBVIOUS
  <2>. QED BY <2>1, Division
<1> SUFFICES ASSUME s = r PROVE FALSE
  OBVIOUS
<1> HIDE DEF r, s
<1>3. n * q + 0 = n * p + j
  BY <1>1, <1>2
<1>4. 0 = j
  BY <1>3, OneDivision
<1>. QED BY <1>4

LEMMA SeqMonotone ==
    ASSUME NEW A, NEW B, A \subseteq B, NEW s \in Seq(A)
    PROVE  s \in Seq(B)
<1>1. \A i \in 1 .. Len(s) : s[i] \in B
  OBVIOUS
<1>2. s = [i \in 1 .. Len(s) |-> s[i]] /\ Len(s) \in Nat
  OBVIOUS
<1>. QED BY <1>1, <1>2

LEMMA InitInv == JoiningInit => JoiningInv
<1> SUFFICES ASSUME JoiningInit PROVE JoiningInv
  OBVIOUS
<1>1. code \in Seq(Address)
  <2>1. PICK x \in Address, y \in Address, z \in Address :
          code = Given(<<ShareCode(x, <<y>>), ShareCode(z, <<>>)>>)
    BY DEF JoiningInit
  <2>2. \A a \in Address, known \in Seq(Address) : ShareCode(a, known) \in Seq(Address)
    <3> SUFFICES ASSUME NEW a \in Address, NEW known \in Seq(Address)
                 PROVE  ShareCode(a, known) \in Seq(Address)
      OBVIOUS
    <3>1. Others(known, a.id) \in Seq(Address)
      BY OthersType
    <3>. QED BY <3>1 DEF ShareCode
  <2>3. <<y>> \in Seq(Address) /\ <<>> \in Seq(Address)
    OBVIOUS
  <2>4. ShareCode(x, <<y>>) \in Seq(Address) /\ ShareCode(z, <<>>) \in Seq(Address)
    BY <2>2, <2>3
  <2>5. ASSUME NEW S, NEW c \in S, NEW d \in S PROVE <<c, d>> \in Seq(S) /\ <<c, d>> # <<>>
    OBVIOUS
  <2>6. /\ <<ShareCode(x, <<y>>), ShareCode(z, <<>>)>> \in Seq(Seq(Address))
        /\ <<ShareCode(x, <<y>>), ShareCode(z, <<>>)>> # <<>>
    <3> DEFINE b == ShareCode(x, <<y>>)
               d == ShareCode(z, <<>>)
    <3>1. b \in Seq(Address) /\ d \in Seq(Address)
      BY <2>4
    <3> HIDE DEF b, d
    <3>2. <<b, d>> \in Seq(Seq(Address)) /\ <<b, d>> # <<>>
      BY <3>1, <2>5
    <3>. QED BY <3>2 DEF b, d
  <2>. QED BY <2>1, <2>6, GivenType
<1>2. found \in Channels
  <2>1. code \in Seq(AnyAddress)
    <3>1. Address \subseteq AnyAddress
      BY JoiningAssumption DEF AnyAddress
    <3>. QED BY <1>1, <3>1, SeqMonotone
  <2>2. <<>> \in Channels
    BY JoiningAssumption DEF Channels
  <2>3. FoldLeft(TrySend, <<>>, code) \in Channels
    BY <2>1, <2>2, SendType
  <2>4. found = FoldLeft(TrySend, <<>>, code)
    BY Zenon DEF JoiningInit
  <2>. QED BY <2>3, <2>4
<1>3. JoiningTypeOK
  <2>1. AddressOf(Me, TRUE) \in AnyAddress
    BY JoiningAssumption DEF AddressOf, AnyAddress
  <2>2. candidates = <<>> /\ left = Deadline /\ Deadline \in Nat
    BY JoiningAssumption DEF JoiningInit
  <2>3. /\ share \in Shares /\ honest \in BOOLEAN /\ phase = "look" /\ candidates = <<>>
        /\ next = 0 /\ attempts = [p \in Peer |-> 0] /\ target = AddressOf(Me, TRUE)
        /\ sure = FALSE /\ timer = 0 /\ left = Deadline /\ sizes = <<>>
        /\ stalled = FALSE /\ over = 0 /\ turns = 0 /\ tried = {}
    BY DEF JoiningInit
  <2>4. <<>> \in Seq(Size) /\ <<>> \in Rosters
    BY DEF Rosters
  <2>5. attempts \in [Peer -> Nat] /\ left \in 0 .. Deadline
    BY <2>2, <2>3
  <2>6. /\ candidates \in Seq([id : Peer \ {Me}, current : BOOLEAN])
        /\ \A i, j \in DOMAIN candidates : candidates[i].id = candidates[j].id => i = j
    BY <2>3, <2>4 DEF Rosters
  <2>7. sizes \in Seq(Size) /\ target \in AnyAddress /\ phase \in Phase
    BY <2>1, <2>3, <2>4 DEF Phase
  <2>. QED BY <1>1, <1>2, <2>3, <2>5, <2>6, <2>7
           DEF JoiningTypeOK, Channels, AnyAddress, Phase, Final
<1>4. TimeInv
  BY JoiningAssumption DEF JoiningInit, TimeInv
<1>5. TurnInv
  <2>1. turns = 0 /\ candidates = <<>> /\ tried = {} /\ next = 0 /\ Len(candidates) = 0
    BY DEF JoiningInit
  <2>2. Min({turns, Len(candidates)}) = 0
    BY <2>1, MinOfTwo
  <2>3. Recent = {}
    BY <2>2 DEF Recent
  <2>. QED BY <2>1, <2>2, <2>3, FS_EmptySet DEF TurnInv, TurnsRotate
<1>. QED BY <1>3, <1>4, <1>5 DEF JoiningInv

\* What most actions leave alone.
LEMMA TurnsKept ==
    ASSUME JoiningInv, UNCHANGED <<candidates, next, turns, tried>>
    PROVE  TurnInv'
BY DEF JoiningInv, TurnInv, TurnsRotate, Recent

LEMMA TimeKept ==
    ASSUME JoiningInv, UNCHANGED <<left, over>>,
           phase' \in {"look", "empty"} \cup Final
    PROVE  TimeInv'
BY DEF JoiningInv, TimeInv, Final

LEMMA LookInv == JoiningInv /\ Look => JoiningInv'
<1> SUFFICES ASSUME JoiningInv, Look PROVE JoiningInv'
  OBVIOUS
<1> DEFINE n == Len(candidates')
           at == (next % n) + 1
           addr == candidates'[at]
           kept == IF candidates' = candidates THEN turns ELSE 0
           seen == IF candidates' = candidates THEN tried ELSE {}
<1>1. JoiningTypeOK /\ TimeInv /\ TurnInv
  BY DEF JoiningInv
<1>2. /\ found' = <<>>
      /\ candidates' = FoldLeft(AddCandidate, candidates, found)
      /\ UNCHANGED <<codeVars, left, sizes, stalled, over>>
  BY DEF Look
<1>3. \/ /\ candidates' = <<>> \/ left = 0
         /\ phase' \in {"empty", "failed"} /\ timer' = 0
         /\ turns' = kept /\ tried' = seen
         /\ UNCHANGED <<next, attempts, target, sure>>
      \/ /\ candidates' # <<>> /\ left > 0
         /\ next' = next + 1
         /\ attempts' = [attempts EXCEPT ![addr.id] = @ + 1]
         /\ target' = addr
         /\ phase' = "dial" /\ timer' = Limit(attempts[addr.id])
         /\ sure' \in BOOLEAN
         /\ turns' = kept + 1 /\ tried' = seen \cup {addr.id}
  BY DEF Look, Goto
<1>4. candidates' \in Rosters
  <2>1. candidates \in Rosters /\ found \in Seq(AnyAddress)
    BY <1>1 DEF JoiningTypeOK, Rosters, AnyAddress
  <2>. QED BY <1>2, <2>1, KnowType
<1>5. n \in Nat /\ next \in Nat /\ turns \in Nat /\ left \in Nat /\ tried \subseteq Peer
  BY <1>1, <1>4, JoiningAssumption DEF JoiningTypeOK, Rosters
<1>6. candidates' # <<>> =>
        /\ n > 0 /\ at \in 1 .. n
        /\ addr \in [id : Peer \ {Me}, current : BOOLEAN]
  <2> SUFFICES ASSUME candidates' # <<>>
               PROVE  /\ n > 0 /\ at \in 1 .. n
                      /\ addr \in [id : Peer \ {Me}, current : BOOLEAN]
    OBVIOUS
  <2>1. n > 0
    BY <1>4 DEF Rosters
  <2>2. at \in 1 .. n
    BY <1>5, <2>1, TurnInRange
  <2>3. candidates' \in Seq([id : Peer \ {Me}, current : BOOLEAN])
    BY <1>4 DEF Rosters
  <2>4. \A i \in 1 .. n : candidates'[i] \in [id : Peer \ {Me}, current : BOOLEAN]
    BY <2>3, ElementOfSeq
  <2> HIDE DEF at, n
  <2>. QED BY <2>1, <2>2, <2>4
<1>7. JoiningTypeOK'
  <2>1. candidates' \in Seq([id : Peer \ {Me}, current : BOOLEAN])
        /\ \A i, j \in DOMAIN candidates' : candidates'[i].id = candidates'[j].id => i = j
    BY <1>4 DEF Rosters
  <2>2. found' = <<>> /\ <<>> \in Seq([id : Peer, current : BOOLEAN]) /\ Len(<<>>) <= ChannelCap
    BY <1>2, JoiningAssumption
  <2>3. /\ phase' \in Phase /\ next' \in Nat /\ attempts' \in [Peer -> Nat]
        /\ target' \in [id : Peer, current : BOOLEAN] /\ sure' \in BOOLEAN /\ timer' \in Nat
        /\ turns' \in Nat /\ tried' \subseteq Peer
    <3>1. CASE candidates' # <<>> /\ left > 0 /\ phase' = "dial"
      <4>1. addr.id \in Peer /\ addr \in [id : Peer, current : BOOLEAN]
        BY <1>6, <3>1
      <4>2. attempts[addr.id] \in Nat /\ attempts \in [Peer -> Nat]
        BY <1>1, <4>1 DEF JoiningTypeOK
      <4>3. Limit(attempts[addr.id]) \in Nat
        BY <1>5, <4>2, LimitBound
      <4> HIDE DEF addr
      <4>. QED BY <1>3, <1>5, <3>1, <4>1, <4>2, <4>3 DEF Phase
    <3>2. CASE phase' \in {"empty", "failed"}
      BY <1>1, <1>3, <1>5, <3>2 DEF JoiningTypeOK, Phase, Final
    <3>. QED BY <1>3, <3>1, <3>2
  <2>. QED BY <1>1, <1>2, <2>1, <2>2, <2>3 DEF JoiningTypeOK, codeVars
<1>8. TimeInv'
  <2>1. CASE phase' = "dial" /\ candidates' # <<>> /\ left > 0
    <3>1. timer' <= left
      <4>1. attempts[addr.id] \in Nat
        BY <1>1, <1>6, <2>1 DEF JoiningTypeOK
      <4>2. timer' = Limit(attempts[addr.id])
        BY <1>3, <2>1
      <4>. QED BY <1>5, <4>1, <4>2, LimitBound
    <3>. QED BY <1>1, <1>2, <2>1, <3>1 DEF TimeInv
  <2>2. CASE phase' \in {"empty", "failed"}
    BY <1>1, <1>2, <2>2 DEF TimeInv
  <2>. QED BY <1>3, <2>1, <2>2
<1>9. TurnInv'
  <2> DEFINE Id(k) == candidates'[(k % n) + 1].id
             m == Min({kept, n})
             Latest(k, r) == {Id(k - j) : j \in 1 .. r}
  <2>1. kept \in Nat /\ m \in 0 .. n /\ m <= kept /\ m \in {kept, n}
    <3>1. kept \in Nat
      BY <1>5
    <3> HIDE DEF kept, n
    <3>. QED BY <1>5, <3>1, MinOfTwo
  <2>2. kept <= next /\ seen = Latest(next, m) /\ Cardinality(seen) = m /\ IsFiniteSet(seen)
    <3>1. CASE candidates' = candidates
      <4>1. kept = turns /\ seen = tried /\ n = Len(candidates)
        BY <3>1
      <4>2. /\ tried = {candidates[((next - j) % Len(candidates)) + 1].id :
                          j \in 1 .. Min({turns, Len(candidates)})}
            /\ turns <= next /\ Cardinality(tried) = Min({turns, Len(candidates)})
        BY <1>1 DEF TurnInv, TurnsRotate, Recent
      <4>3. tried = Latest(next, m)
        BY <3>1, <4>2
      <4>4. Cardinality(seen) = m /\ kept <= next
        BY <3>1, <4>2
      <4>5. IsFiniteSet(seen)
        <5> DEFINE f == [j \in 1 .. m |-> Id(next - j)]
        <5>1. f \in Surjection(1 .. m, Latest(next, m))
          <6> HIDE DEF m, Id
          <6>. QED BY DEF Surjection
        <5>2. IsFiniteSet(1 .. m)
          BY <2>1, FS_Interval
        <5> HIDE DEF f, Latest
        <5>. QED BY <4>1, <4>3, <5>1, <5>2, FS_Surjection
      <4>. QED BY <4>1, <4>3, <4>4, <4>5
    <3>2. CASE candidates' # candidates
      <4>1. m = 0 /\ kept = 0 /\ seen = {}
        BY <2>1, <3>2
      <4>2. Latest(next, 0) = {}
        OBVIOUS
      <4> HIDE DEF kept, seen, m, Latest
      <4>. QED BY <1>5, <4>1, <4>2, FS_EmptySet
    <3>. QED BY <3>1, <3>2
  <2>3. CASE turns' = kept /\ tried' = seen /\ next' = next
    BY <2>2, <2>3 DEF TurnInv, TurnsRotate, Recent
  <2>4. CASE /\ candidates' # <<>>
             /\ next' = next + 1 /\ turns' = kept + 1 /\ tried' = seen \cup {addr.id}
    <3> DEFINE mm == Min({kept + 1, n})
    <3>1. addr.id = Id(next) /\ n > 0 /\ n \in Nat
      BY <1>5, <1>6, <2>4
    <3>2. Id(next - n) = Id(next)
      BY <1>5, <3>1, TurnAgain
    <3>3. \A j \in 1 .. n - 1 : Id(next - j) # Id(next)
      <4> SUFFICES ASSUME NEW j \in 1 .. n - 1 PROVE Id(next - j) # Id(next)
        OBVIOUS
      <4>1. (next - j) % n # next % n
        BY <1>5, <3>1, TurnOfAnother
      <4>2. ((next - j) % n) + 1 \in 1 .. n /\ (next % n) + 1 \in 1 .. n
        BY <1>5, <3>1, TurnInRange
      <4>3. \A a, b \in 1 .. n : candidates'[a].id = candidates'[b].id => a = b
        BY <1>4 DEF Rosters
      <4> DEFINE a == (next - j) % n
                 b == next % n
      <4> HIDE DEF a, b, n
      <4>4. a # b /\ a + 1 \in 1 .. n /\ b + 1 \in 1 .. n /\ a \in Int /\ b \in Int
        <5>1. a \in 0 .. n - 1 /\ b \in 0 .. n - 1
          BY <1>5, <3>1, Division DEF a, b
        <5>2. a # b
          BY <4>1 DEF a, b
        <5>. QED BY <3>1, <5>1, <5>2
      <4>5. candidates'[a + 1].id # candidates'[b + 1].id
        BY <4>3, <4>4
      <4>. QED BY <4>5 DEF a, b
    <3>4. \/ kept < n /\ m = kept /\ mm = m + 1
          \/ kept >= n /\ m = n /\ mm = n
      <4>1. kept + 1 \in Nat
        BY <2>1
      <4>2. mm \in {kept + 1, n} /\ mm <= kept + 1 /\ mm <= n
        BY <3>1, <4>1, MinOfTwo
      <4>3. m \in {kept, n} /\ m <= kept /\ m <= n /\ kept \in Nat
        BY <2>1
      <4> HIDE DEF m, mm, kept, n
      <4>. QED BY <3>1, <4>2, <4>3
    <3>5. Latest(next + 1, mm) = seen \cup {addr.id}
      <4> HIDE DEF m, mm, kept, n, Id, addr, seen
      <4>1. ASSUME NEW j \in 1 .. mm PROVE Id((next + 1) - j) \in Latest(next, m) \cup {Id(next)}
        <5>1. CASE j = 1
          BY <1>5, <5>1
        <5>2. CASE j # 1
          <6>1. j - 1 \in 1 .. m /\ (next + 1) - j = next - (j - 1)
            BY <1>5, <2>1, <3>1, <3>4, <5>2
          <6>. QED BY <6>1
        <5>. QED BY <5>1, <5>2
      <4>2. Id(next) \in Latest(next + 1, mm)
        <5>1. 1 \in 1 .. mm /\ (next + 1) - 1 = next
          BY <1>5, <2>1, <3>1, <3>4
        <5>2. Id((next + 1) - 1) \in Latest(next + 1, mm)
          BY <5>1, Zenon
        <5>. QED BY <5>1, <5>2, Zenon
      <4>3. ASSUME NEW j \in 1 .. m PROVE Id(next - j) \in Latest(next + 1, mm)
        <5>1. CASE j = n
          BY <3>2, <4>2, <5>1
        <5>2. CASE j # n
          <6>1. j + 1 \in 1 .. mm /\ next - j = (next + 1) - (j + 1)
            BY <1>5, <2>1, <3>1, <3>4, <5>2
          <6>2. Id((next + 1) - (j + 1)) \in Latest(next + 1, mm)
            BY <6>1, Zenon
          <6>. QED BY <6>1, <6>2, Zenon
        <5>. QED BY <5>1, <5>2
      <4>4. Latest(next + 1, mm) \subseteq Latest(next, m) \cup {Id(next)}
        BY <4>1
      <4>5. Latest(next, m) \subseteq Latest(next + 1, mm)
        BY <4>3
      <4>6. seen = Latest(next, m) /\ addr.id = Id(next)
        BY <2>2, <3>1
      <4> HIDE DEF Latest
      <4>. QED BY <4>2, <4>4, <4>5, <4>6
    <3>6. Cardinality(seen \cup {addr.id}) = mm
      <4> HIDE DEF m, mm, kept, n, Id, addr, seen
      <4>1. CASE kept < n
        <5>1. Id(next) \notin seen
          <6>1. \A j \in 1 .. m : j \in 1 .. n - 1
            BY <2>1, <3>1, <3>4, <4>1
          <6>. QED BY <2>2, <3>3, <6>1
        <5>2. Cardinality(seen \cup {addr.id}) = Cardinality(seen) + 1
          BY <2>2, <3>1, <5>1, FS_AddElement
        <5>. QED BY <2>1, <2>2, <3>1, <3>4, <4>1, <5>2
      <4>2. CASE kept >= n
        <5>1. Id(next) \in seen
          <6>1. n \in 1 .. m
            BY <2>1, <3>1, <3>4, <4>2
          <6>. QED BY <2>2, <3>2, <6>1
        <5>2. seen \cup {addr.id} = seen
          BY <3>1, <5>1
        <5>. QED BY <2>1, <2>2, <3>1, <3>4, <4>2, <5>2
      <4>. QED BY <2>1, <3>1, <4>1, <4>2
    <3>7. Min({turns', n}) = mm
      BY <2>4
    <3>8. tried' = Latest(next', mm) /\ Cardinality(tried') = mm
      BY <2>4, <3>5, <3>6
    <3>9. turns' <= next'
      <4> HIDE DEF kept
      <4>. QED BY <1>5, <2>1, <2>2, <2>4
    <3>. QED BY <3>7, <3>8, <3>9 DEF TurnInv, TurnsRotate, Recent
  <2>. QED BY <1>3, <2>3, <2>4
<1>. QED BY <1>7, <1>8, <1>9 DEF JoiningInv

LEMMA HearInv == JoiningInv /\ Hear => JoiningInv'
<1> SUFFICES ASSUME JoiningInv, Hear PROVE JoiningInv'
  OBVIOUS
<1>1. JoiningTypeOK /\ TimeInv
  BY DEF JoiningInv
<1>2. candidates' \in Rosters
  <2>1. Head(found) \in AnyAddress
    <3>1. found \in Seq(AnyAddress) /\ found # <<>>
      BY <1>1 DEF Hear, JoiningTypeOK, AnyAddress
    <3>. QED BY <3>1
  <2>2. candidates \in Rosters
    BY <1>1 DEF JoiningTypeOK, Rosters
  <2>. QED BY <2>1, <2>2, AddType DEF Hear
<1>3. JoiningTypeOK'
  <2>1. /\ candidates' \in Seq([id : Peer \ {Me}, current : BOOLEAN])
        /\ \A i, j \in DOMAIN candidates' : candidates'[i].id = candidates'[j].id => i = j
    BY <1>2 DEF Rosters
  <2>2. found' \in Seq([id : Peer, current : BOOLEAN]) /\ Len(found') <= ChannelCap
    <3>1. found \in Seq([id : Peer, current : BOOLEAN]) /\ Len(found) <= ChannelCap
      BY <1>1 DEF JoiningTypeOK
    <3>2. found # <<>> /\ found' = Tail(found) /\ ChannelCap \in Nat
      BY JoiningAssumption DEF Hear
    <3>. QED BY <3>1, <3>2
  <2>. QED BY <1>1, <2>1, <2>2 DEF Hear, Goto, JoiningTypeOK, codeVars, Phase, Final
<1>4. TimeInv'
  BY TimeKept DEF Hear, Goto
<1>5. TurnInv'
  <2>1. turns' = 0 /\ tried' = {} /\ next' = next /\ next \in Nat
    BY <1>1 DEF Hear, JoiningTypeOK
  <2>2. Len(candidates') \in Nat
    BY <1>2 DEF Rosters
  <2>3. Min({turns', Len(candidates')}) = 0
    BY <2>1, <2>2, MinOfTwo
  <2>4. Recent' = {}
    BY <2>3 DEF Recent
  <2>. QED BY <2>1, <2>3, <2>4, FS_EmptySet DEF TurnInv, TurnsRotate
<1>. QED BY <1>3, <1>4, <1>5 DEF JoiningInv

LEMMA ReceivedInv == JoiningInv /\ Received => JoiningInv'
<1> SUFFICES ASSUME JoiningInv, Received PROVE JoiningInv'
  OBVIOUS
<1>1. JoiningTypeOK /\ TimeInv
  BY DEF JoiningInv
<1>2. found' \in Channels
  <2>1. Others(candidates, target.id) \in Seq([id : Peer \ {Me}, current : BOOLEAN])
    BY <1>1, OthersType DEF JoiningTypeOK
  <2>2. [id : Peer \ {Me}, current : BOOLEAN] \subseteq AnyAddress
    BY DEF AnyAddress
  <2>3. Others(candidates, target.id) \in Seq(AnyAddress)
    BY <2>1, <2>2, SeqMonotone
  <2>4. found \in Channels
    BY <1>1 DEF JoiningTypeOK, Channels, AnyAddress
  <2>5. FoldLeft(TrySend, found, Others(candidates, target.id)) \in Channels
    BY <2>3, <2>4, SendType
  <2>. QED BY <2>5 DEF Received, PassOn
<1>3. sizes' \in Seq(Size)
  <2>1. PICK f \in {g \in Folder : Shareable(RootName, g)} : share = FromDisk(RootName, f)
    BY <1>1 DEF JoiningTypeOK, Shares
  <2>2. IsFiniteSet(share.paths)
    <3> DEFINE Path(p) == <<RootName>> \o p
               g == [p \in f |-> Path(p)]
    <3>1. share.paths = {Path(p) : p \in f}
      BY <2>1 DEF FromDisk
    <3>2. IsFiniteSet(f)
      BY <2>1, JoiningAssumption
    <3>3. g \in Surjection(f, share.paths)
      <4> HIDE DEF Path
      <4>. QED BY <3>1 DEF Surjection
    <3> HIDE DEF g
    <3>. QED BY <3>2, <3>3, FS_Surjection
  <2>3. Cardinality(share.paths) \in Nat
    BY <2>2, FS_CardinalityType
  <2>. QED BY <2>3 DEF Received
<1>4. JoiningTypeOK'
  <2>1. candidates' = <<>> /\ next' = 0 /\ attempts' = [p \in Peer |-> 0]
    BY DEF Received
  <2>2. /\ <<>> \in Seq([id : Peer \ {Me}, current : BOOLEAN])
        /\ attempts' \in [Peer -> Nat]
        /\ \A i, j \in DOMAIN candidates' : candidates'[i].id = candidates'[j].id => i = j
    BY <2>1
  <2>3. found' \in Seq([id : Peer, current : BOOLEAN]) /\ Len(found') <= ChannelCap
    BY <1>2 DEF Channels, AnyAddress
  <2>4. /\ phase' = "found" /\ timer' = 0 /\ turns' = 0 /\ tried' = {}
        /\ UNCHANGED <<share, honest, code, target, sure, left, stalled, over>>
    BY DEF Received, Goto, codeVars
  <2>5. "found" \in Phase
    BY DEF Phase, Final
  <2>. QED BY <1>1, <1>3, <2>1, <2>2, <2>3, <2>4, <2>5 DEF JoiningTypeOK
<1>5. TimeInv'
  BY TimeKept DEF Received, Goto, Final
<1>6. TurnInv'
  <2>1. turns' = 0 /\ tried' = {} /\ next' = 0 /\ candidates' = <<>> /\ Len(candidates') = 0
    BY DEF Received
  <2>2. Min({turns', Len(candidates')}) = 0
    BY <2>1, MinOfTwo
  <2>3. Recent' = {}
    BY <2>2 DEF Recent
  <2>. QED BY <2>1, <2>2, <2>3, FS_EmptySet DEF TurnInv, TurnsRotate
<1>. QED BY <1>4, <1>5, <1>6 DEF JoiningInv

\* The pause ends with the deadline at the latest.
LEMMA RestBound ==
    ASSUME left \in Nat, Rest
    PROVE  phase' = "pause" /\ timer' \in Nat /\ timer' <= left
<1>1. Breath \in Nat
  BY JoiningAssumption
<1>. QED BY <1>1, MinOfTwo DEF Rest, Goto

\* The steps that neither try a candidate nor hear of one.
LEMMA QuietInv ==
    ASSUME JoiningInv,
           UNCHANGED <<codeVars, candidates, next, attempts, target, sure, sizes, pastVars>>,
           found' \in Channels, phase' \in Phase, timer' \in Nat, left' \in 0 .. Deadline,
           stalled' \in BOOLEAN, over' \in Nat, TimeInv'
    PROVE  JoiningInv'
<1>1. TurnInv'
  BY TurnsKept DEF pastVars
<1>2. JoiningTypeOK'
  <2>1. JoiningTypeOK
    BY DEF JoiningInv
  <2>2. found' \in Seq([id : Peer, current : BOOLEAN]) /\ Len(found') <= ChannelCap
    BY DEF Channels, AnyAddress
  <2>. QED BY <2>1, <2>2 DEF JoiningTypeOK, codeVars, pastVars
<1>. QED BY <1>1, <1>2 DEF JoiningInv

LEMMA NextInv == JoiningInv /\ [JoiningNext]_vars => JoiningInv'
<1> SUFFICES ASSUME JoiningInv, [JoiningNext]_vars PROVE JoiningInv'
  OBVIOUS
<1>1. JoiningTypeOK /\ TimeInv
  BY DEF JoiningInv
<1>2. /\ found \in Channels /\ phase \in Phase /\ timer \in Nat /\ left \in 0 .. Deadline
      /\ left \in Nat /\ Deadline \in Nat /\ stalled \in BOOLEAN /\ over \in Nat
      /\ RequestTimeout \in Nat
  BY <1>1, JoiningAssumption DEF JoiningTypeOK, Channels, AnyAddress
<1>3. CASE Look
  BY <1>3, LookInv
<1>4. CASE Hear
  BY <1>4, HearInv
<1>5. CASE GiveUp
  <2>1. TimeInv'
    BY <1>5, TimeKept DEF GiveUp, Goto, Final
  <2>. QED BY <1>2, <1>5, <2>1, QuietInv DEF GiveUp, Goto, Phase, Final
<1>6. CASE Connected
  <2>1. TimeInv'
    BY <1>1, <1>2, <1>6 DEF Connected, Goto, TimeInv
  <2>. QED BY <1>2, <1>6, <2>1, QuietInv DEF Connected, Goto, Phase
<1>7. CASE DialFails
  <2>1. phase' = "pause" /\ timer' \in Nat /\ timer' <= left
    BY <1>2, <1>7, RestBound DEF DialFails
  <2>2. TimeInv'
    BY <1>1, <1>2, <1>7, <2>1 DEF DialFails, TimeInv
  <2>. QED BY <1>2, <1>7, <2>1, <2>2, QuietInv DEF DialFails, Phase
<1>8. CASE Received
  BY <1>8, ReceivedInv
<1>9. CASE NotReceived
  <2>1. phase' = "pause" /\ timer' \in Nat /\ timer' <= left
    BY <1>2, <1>9, RestBound DEF NotReceived
  <2>2. TimeInv'
    BY <1>1, <1>2, <1>9, <2>1 DEF NotReceived, TimeInv
  <2>. QED BY <1>2, <1>9, <2>1, <2>2, QuietInv DEF NotReceived, Phase
<1>10. CASE Rested
  <2>1. TimeInv'
    BY <1>10, TimeKept DEF Rested, Goto
  <2>. QED BY <1>2, <1>10, <2>1, QuietInv DEF Rested, Goto, Phase
<1>11. CASE Cancel
  <2>1. TimeInv'
    BY <1>11, TimeKept DEF Cancel, Goto, Final
  <2>. QED BY <1>2, <1>11, <2>1, QuietInv DEF Cancel, Goto, Phase, Final
<1>12. CASE Tick
  <2>1. /\ left' = (IF left = 0 THEN 0 ELSE left - 1)
        /\ timer' = (IF timer = 0 THEN 0 ELSE timer - 1)
        /\ over' = (IF left = 0 THEN over + 1 ELSE 0)
        /\ stalled' \in BOOLEAN /\ phase' = phase /\ found' = found
        /\ \/ phase \in {"dial", "ask", "pause"} /\ timer > 0
           \/ phase = "empty" /\ left > 0
    BY <1>2, <1>12, MaxOfZero DEF Tick
  <2>2. TimeInv'
    BY <1>1, <1>2, <2>1 DEF TimeInv
  <2>. QED BY <1>2, <1>12, <2>1, <2>2, QuietInv DEF Tick
<1>13. ASSUME NEW p \in Announcing, Announce(p) PROVE JoiningInv'
  <2>1. found' \in Channels
    <3>1. AddressOf(p, TRUE) \in AnyAddress
      BY JoiningAssumption DEF AddressOf, AnyAddress
    <3>2. found' = TrySend(found, AddressOf(p, TRUE))
      BY <1>13 DEF Announce
    <3>. QED BY <1>2, <3>1, <3>2, OneSendType
  <2>2. TimeInv'
    BY <1>1, <1>13 DEF Announce, TimeInv
  <2>. QED BY <1>2, <1>13, <2>1, <2>2, QuietInv DEF Announce
<1>14. CASE UNCHANGED vars
  <2>1. TimeInv'
    BY <1>1, <1>14 DEF vars, TimeInv
  <2>. QED BY <1>2, <1>14, <2>1, QuietInv DEF vars
<1>. QED BY <1>3, <1>4, <1>5, <1>6, <1>7, <1>8, <1>9, <1>10, <1>11, <1>12, <1>13, <1>14
         DEF JoiningNext

-----------------------------------------------------------------------------
(* The layout of the files.                                                *)

LEMMA Quotient ==
    ASSUME NEW a \in Nat, NEW b \in Nat \ {0}
    PROVE  /\ a \div b \in Nat
           /\ b * (a \div b) <= a /\ a < b * (a \div b) + b
OBVIOUS

LEMMA Below ==
    ASSUME NEW b \in Nat \ {0}, NEW p \in Nat, NEW q \in Nat, b * p < b * q
    PROVE  p < q
OBVIOUS

\* The pieces of a file hold its bytes, and each holds one.
LEMMA PiecesFacts ==
    ASSUME NEW size \in Nat
    PROVE  /\ Pieces(size) \in Nat
           /\ size > 0 <=> Pieces(size) > 0
           /\ \A pos \in 0 .. size - 1 : pos \div Block \in 0 .. Pieces(size) - 1
<1>1. Block \in Nat \ {0}
  BY LayoutAssumption
<1>2. (size + Block) - 1 \in Nat /\ size + Block - 1 = (size + Block) - 1
  BY <1>1
<1> DEFINE q == Pieces(size)
<1>3. q \in Nat /\ Block * q <= (size + Block) - 1 /\ (size + Block) - 1 < Block * q + Block
  BY <1>1, <1>2, Quotient DEF Pieces
<1> HIDE DEF q
<1>4. size > 0 <=> q > 0
  <2>1. CASE q = 0
    <3>1. Block * q = 0
      BY <1>1, <2>1
    <3>. QED BY <1>1, <1>3, <2>1, <3>1
  <2>2. CASE q > 0
    <3>1. Block * q >= Block
      BY <1>1, <1>3, <2>2
    <3>2. Block * q \in Nat
      BY <1>1, <1>3
    <3>. QED BY <1>1, <1>3, <2>2, <3>1, <3>2
  <2>. QED BY <1>3, <2>1, <2>2
<1>5. ASSUME NEW pos \in 0 .. size - 1
      PROVE  pos \div Block \in 0 .. q - 1
  <2> DEFINE d == pos \div Block
  <2>1. d \in Nat /\ Block * d <= pos
    BY <1>1, Quotient
  <2> HIDE DEF d
  <2>2. Block * d \in Nat /\ Block * q \in Nat
    BY <1>1, <1>3, <2>1
  <2>3. Block * d < Block * q
    BY <1>1, <1>3, <2>1, <2>2
  <2>4. d < q
    BY <1>1, <1>3, <2>1, <2>3, Below
  <2>. QED BY <1>3, <2>1, <2>4 DEF d
<1>. QED BY <1>3, <1>4, <1>5 DEF q

LEMMA PiecesCount ==
    ASSUME NEW s \in Seq(Nat), NEW f \in 1 .. Len(s)
    PROVE  s[f] \in Nat /\ Pieces(s[f]) \in Nat
<1>1. s[f] \in Nat
  OBVIOUS
<1>. QED BY <1>1, PiecesFacts, Zenon

LEMMA FirstPieceDef ==
    ASSUME NEW s \in Seq(Nat)
    PROVE  /\ FirstPiece(s) \in [1 .. Len(s) -> Nat]
           /\ \A f \in 1 .. Len(s) :
                 FirstPiece(s)[f] =
                    IF f = 1 THEN 0 ELSE FirstPiece(s)[f - 1] + Pieces(s[f - 1])
<1> DEFINE n == Len(s)
<1>1. DOMAIN s = 1 .. n /\ n \in Nat
  OBVIOUS
<1>2. FirstPiece(s) = First!Chain(s, 0, n)
  BY <1>1, Zenon DEF FirstPiece, First!Chain
<1>3. /\ First!Chain(s, 0, n) \in [1 .. n -> Nat]
      /\ \A f \in 1 .. n :
            First!Chain(s, 0, n)[f] =
               IF f = 1 THEN 0 ELSE First!Chain(s, 0, n)[f - 1] + Pieces(s[f - 1])
  <2>1. ASSUME NEW x \in Nat, NEW i \in 2 .. n PROVE x + Pieces(s[i - 1]) \in Nat
    <3>1. i - 1 \in 1 .. n
      BY <1>1, <2>1
    <3>2. Pieces(s[i - 1]) \in Nat
      BY <3>1, PiecesCount
    <3>. QED BY <3>2
  <2> DEFINE X == Nat
             zero == 0
  <2>2. zero \in X /\ n \in Nat /\ \A x \in X, i \in 2 .. n : x + Pieces(s[i - 1]) \in X
    BY <1>1, <2>1
  <2> HIDE DEF n, X, zero
  <2>3. /\ First!Chain(s, zero, n) \in [1 .. n -> X]
        /\ \A f \in 1 .. n :
              First!Chain(s, zero, n)[f] =
                 IF f = 1 THEN zero ELSE First!Chain(s, zero, n)[f - 1] + Pieces(s[f - 1])
    BY <2>2, First!ChainDef
  <2>. QED BY <2>3 DEF X, zero
<1>. QED BY <1>2, <1>3

\* The pieces of a file lie before those of the next one.
LEMMA FilesInOrder ==
    ASSUME NEW s \in Seq(Nat)
    PROVE  \A f, g \in 1 .. Len(s) :
              f < g => FirstPiece(s)[f] + Pieces(s[f]) <= FirstPiece(s)[g]
<1> DEFINE n == Len(s)
           first == FirstPiece(s)
           G == {k \in 0 .. n : \A f \in 1 .. n, g \in 1 .. k :
                    f < g => first[f] + Pieces(s[f]) <= first[g]}
<1>1. n \in Nat /\ first \in [1 .. n -> Nat]
  BY FirstPieceDef
<1>2. \A f \in 1 .. n : s[f] \in Nat /\ Pieces(s[f]) \in Nat
  BY PiecesCount
<1>3. 0 \in G
  BY <1>1
<1>4. ASSUME NEW k \in 0 .. n - 1, k \in G PROVE k + 1 \in G
  <2>1. ASSUME NEW f \in 1 .. n, f < k + 1 PROVE first[f] + Pieces(s[f]) <= first[k + 1]
    <3>1. k \in 1 .. n /\ k + 1 \in 1 .. n /\ k + 1 # 1 /\ (k + 1) - 1 = k
      BY <1>1, <2>1
    <3>2. first[k + 1] = first[k] + Pieces(s[k])
      BY <3>1, FirstPieceDef
    <3>3. f = k \/ first[f] + Pieces(s[f]) <= first[k]
      BY <1>4, <2>1, <3>1
    <3>4. first[f] \in Nat /\ first[k] \in Nat /\ Pieces(s[k]) \in Nat /\ Pieces(s[f]) \in Nat
      BY <1>1, <1>2, <3>1
    <3> HIDE DEF first, G
    <3>. QED BY <3>2, <3>3, <3>4
  <2> DEFINE Before(f, g) == first[f] + Pieces(s[f]) <= first[g]
  <2>2. ASSUME NEW f \in 1 .. n, NEW g \in 1 .. k + 1, f < g
        PROVE  Before(f, g)
    <3>1. g \in 1 .. k => Before(f, g)
      BY <1>4, <2>2
    <3>2. f < k + 1 => Before(f, k + 1)
      BY <2>1
    <3>3. g \in 1 .. k \/ g = k + 1
      OBVIOUS
    <3> HIDE DEF Before
    <3>. QED BY <2>2, <3>1, <3>2, <3>3, Zenon
  <2>. QED BY <1>1, <2>2
<1>5. n \in G
  <2> HIDE DEF G
  <2>. QED BY <1>1, <1>3, <1>4, First!CountUp
<1>. QED BY <1>1, <1>5

\* The sum of the pieces of all files is what lies before the end of the last.
LEMMA PiecesAddUp ==
    ASSUME NEW s \in Seq(Nat)
    PROVE  TotalPieces(s) =
              IF Len(s) = 0 THEN 0 ELSE FirstPiece(s)[Len(s)] + Pieces(s[Len(s)])
<1> DEFINE n == Len(s)
           first == FirstPiece(s)
           P == [f \in 1 .. n |-> Pieces(s[f])]
           pick == [S \in SUBSET (1 .. n) |-> CHOOSE x \in S : TRUE]
           op == [p \in Nat \X Nat |-> p[2] + p[1]]
           Step(h, S) == IF S = {} THEN 0
                         ELSE Pieces(s[CHOOSE x \in S : TRUE]) + h[S \ {CHOOSE x \in S : TRUE}]
           sum == CHOOSE h : h = [S \in SUBSET (1 .. n) |-> Step(h, S)]
<1>1. n \in Nat /\ DOMAIN s = 1 .. n /\ \A f \in 1 .. n : s[f] \in Nat
  OBVIOUS
<1>2. P \in [1 .. n -> Nat]
  BY <1>1, PiecesCount
<1>3. \A S \in SUBSET (1 .. n) : S # {} => pick[S] \in S
  OBVIOUS
<1>4. op \in [Nat \X Nat -> Nat]
  OBVIOUS
<1>5. PICK h : First!FoldsOver(Nat, n, P, 0, op, pick, h)
  <2> HIDE DEF n, P, pick, op
  <2>. QED BY <1>1, <1>2, <1>3, <1>4, First!FoldExists
<1>6. h \in [SUBSET (1 .. n) -> Nat]
  BY <1>5 DEF First!FoldsOver
<1>7. h = [S \in SUBSET (1 .. n) |-> Step(h, S)]
  <2>1. ASSUME NEW S \in SUBSET (1 .. n), S # {}
        PROVE  op[<<h[S \ {pick[S]}], P[pick[S]]>>] = Step(h, S)
    <3>1. pick[S] = (CHOOSE x \in S : TRUE) /\ pick[S] \in S
      BY <2>1
    <3> DEFINE y == pick[S]
    <3> HIDE DEF pick, op
    <3>2. h[S \ {y}] \in Nat /\ P[y] \in Nat /\ P[y] = Pieces(s[y])
      BY <1>2, <1>6, <3>1
    <3>3. op[<<h[S \ {y}], P[y]>>] = P[y] + h[S \ {y}]
      BY <3>2 DEF op
    <3>. QED BY <2>1, <3>1, <3>2, <3>3
  <2> HIDE DEF P, pick, op, Step
  <2>2. \A S \in SUBSET (1 .. n) :
           (IF S = {} THEN 0 ELSE op[<<h[S \ {pick[S]}], P[pick[S]]>>]) = Step(h, S)
    BY <2>1 DEF Step
  <2>. QED BY <1>5, <2>2 DEF First!FoldsOver
<1>8. sum = [S \in SUBSET (1 .. n) |-> Step(sum, S)]
  <2> HIDE DEF Step
  <2>. QED BY <1>7, Zenon
<1>9. TotalPieces(s) = sum[1 .. n]
  BY <1>1, Zenon DEF TotalPieces, MapThenSumSet, MapThenFoldSet
<1>10. /\ sum[{}] = 0
       /\ \A S \in SUBSET (1 .. n) : S # {} => sum[S] = P[pick[S]] + sum[S \ {pick[S]}]
  <2> HIDE DEF sum
  <2>1. sum[{}] = 0
    BY <1>8
  <2>2. ASSUME NEW S \in SUBSET (1 .. n), S # {}
        PROVE  sum[S] = P[pick[S]] + sum[S \ {pick[S]}]
    <3>1. sum[S] = Step(sum, S) /\ pick[S] = (CHOOSE x \in S : TRUE) /\ pick[S] \in 1 .. n
      BY <1>8, <2>2
    <3> HIDE DEF pick
    <3>. QED BY <2>2, <3>1
  <2>. QED BY <2>1, <2>2
<1>11. sum \in [SUBSET (1 .. n) -> Nat]
  <2>1. \A S \in SUBSET (1 .. n) : S # {} /\ sum[S \ {pick[S]}] \in Nat => sum[S] \in Nat
    <3> SUFFICES ASSUME NEW S \in SUBSET (1 .. n), S # {}, sum[S \ {pick[S]}] \in Nat
                 PROVE  sum[S] \in Nat
      OBVIOUS
    <3>1. P[pick[S]] \in Nat /\ sum[S] = P[pick[S]] + sum[S \ {pick[S]}]
      <4> HIDE DEF sum, P, pick
      <4>. QED BY <1>2, <1>3, <1>10
    <3> HIDE DEF sum, P, pick
    <3>. QED BY <3>1
  <2> HIDE DEF sum, P, pick, Step
  <2>2. \A S \in SUBSET (1 .. n) : sum[S] \in Nat
    BY <1>1, <1>3, <1>10, <2>1, First!SumStays, 0 \in Nat
  <2>. QED BY <1>8, <2>2
<1>12. \A S \in SUBSET (1 .. n), y \in 1 .. n : y \in S => sum[S] = P[y] + sum[S \ {y}]
  <2> HIDE DEF n, sum, P, pick
  <2>1. First!IsSum(n, P, sum)
    BY <1>2, <1>3, <1>10, <1>11 DEF First!IsSum
  <2>2. n \in Nat
    BY <1>1
  <2>3. First!AnyFirst(n, P, sum)
    BY <2>1, <2>2, First!AnyTermFirst
  <2>. QED BY <2>3 DEF First!AnyFirst
<1> DEFINE G == {k \in 0 .. n : k = 0 \/ sum[1 .. k] = first[k] + P[k]}
<1>13. 0 \in G
  BY <1>1
<1>14. ASSUME NEW k \in 0 .. n - 1, k \in G PROVE k + 1 \in G
  <2>1. /\ k + 1 \in 1 .. n /\ (k + 1) - 1 = k
        /\ 1 .. k + 1 \in SUBSET (1 .. n) /\ k + 1 \in 1 .. k + 1
        /\ (1 .. k + 1) \ {k + 1} = 1 .. k
    BY <1>1
  <2>2. sum[1 .. k + 1] = P[k + 1] + sum[1 .. k]
    <3> HIDE DEF sum, P
    <3>. QED BY <1>12, <2>1, Zenon
  <2>3. /\ first \in [1 .. n -> Nat]
        /\ first[k + 1] = IF k + 1 = 1 THEN 0 ELSE first[k] + Pieces(s[k])
    BY <2>1, FirstPieceDef
  <2>4. k # 0 => P[k] = Pieces(s[k])
    BY <2>1
  <2> HIDE DEF sum, first, P
  <2>5. sum[1 .. k + 1] = first[k + 1] + P[k + 1]
    <3>1. CASE k = 0
      <4>1. 1 .. k = {} /\ k + 1 = 1
        BY <3>1
      <4>2. sum[1 .. k] = 0
        BY <1>10, <4>1
      <4>3. first[k + 1] = 0 /\ P[k + 1] \in Nat
        BY <1>2, <2>1, <2>3, <4>1
      <4>. QED BY <2>2, <4>2, <4>3
    <3>2. CASE k # 0
      <4>1. sum[1 .. k] = first[k] + P[k]
        BY <1>14, <3>2
      <4>2. k \in 1 .. n
        BY <1>1, <3>2
      <4>3. first[k] \in Nat /\ P[k] \in Nat /\ P[k + 1] \in Nat
        BY <1>2, <2>1, <2>3, <4>2
      <4>. QED BY <2>2, <2>3, <2>4, <3>2, <4>1, <4>3
    <3>. QED BY <3>1, <3>2
  <2>. QED BY <2>1, <2>5
<1>15. n \in G
  <2> HIDE DEF G
  <2>. QED BY <1>1, <1>13, <1>14, First!CountUp
<1>. QED
  <2>1. n # 0 => P[n] = Pieces(s[n])
    BY <1>1
  <2> HIDE DEF sum, P
  <2>2. n # 0 => sum[1 .. n] = first[n] + P[n]
    BY <1>1, <1>15
  <2>3. n = 0 => 1 .. n = {}
    OBVIOUS
  <2>. QED BY <1>9, <1>10, <2>1, <2>2, <2>3

BlockRecord == [file : Nat, start : Nat, end : Nat]

LEMMA BlocksType ==
    ASSUME sizes \in Seq(Nat), NEW f \in 1 .. Len(sizes)
    PROVE  /\ Blocks(f) \in Seq(BlockRecord)
           /\ Len(Blocks(f)) = Pieces(sizes[f])
           /\ \A k \in 1 .. Pieces(sizes[f]) :
                 Blocks(f)[k] = [file |-> f, start |-> (k - 1) * Block,
                                 end |-> Min({k * Block, sizes[f]})]
<1>1. Block \in Nat \ {0} /\ sizes[f] \in Nat /\ Pieces(sizes[f]) \in Nat /\ f \in Nat
  BY LayoutAssumption, PiecesCount
<1> DEFINE n == Pieces(sizes[f])
<1>2. \A k \in 1 .. n : /\ (k - 1) * Block \in Nat /\ k * Block \in Nat
  BY <1>1
<1>3. \A k \in 1 .. n : Min({k * Block, sizes[f]}) \in Nat
  <2> SUFFICES ASSUME NEW k \in 1 .. n PROVE Min({k * Block, sizes[f]}) \in Nat
    OBVIOUS
  <2>1. k * Block \in Nat
    BY <1>2
  <2> DEFINE b == k * Block
  <2> HIDE DEF b
  <2>2. b \in Nat
    BY <2>1 DEF b
  <2>3. Min({b, sizes[f]}) \in Nat
    BY <1>1, <2>2, MinOfTwo
  <2>. QED BY <2>3 DEF b
<1> DEFINE B(k) == [file |-> f, start |-> (k - 1) * Block, end |-> Min({k * Block, sizes[f]})]
<1>4. \A k \in 1 .. n : B(k) \in BlockRecord
  BY <1>1, <1>2, <1>3 DEF BlockRecord
<1>5. Blocks(f) = [k \in 1 .. n |-> B(k)]
  BY DEF Blocks
<1> HIDE DEF B, n
<1>6. n \in Nat
  BY <1>1 DEF n
<1>7. Blocks(f) \in Seq(BlockRecord) /\ Len(Blocks(f)) = n /\ \A k \in 1 .. n : Blocks(f)[k] = B(k)
  BY <1>4, <1>5, <1>6
<1>. QED BY <1>7 DEF B, n

\* Where the pieces of a file are in the list of all pieces.
LEMMA BlocksInOrder ==
    ASSUME sizes \in Seq(Nat), sizes # <<>>
    PROVE  /\ AllBlocks \in Seq(BlockRecord)
           /\ Len(AllBlocks) = FirstPiece(sizes)[Len(sizes)] + Pieces(sizes[Len(sizes)])
           /\ \A f \in 1 .. Len(sizes) : \A j \in 1 .. Pieces(sizes[f]) :
                 AllBlocks[FirstPiece(sizes)[f] + j] = Blocks(f)[j]
<1> DEFINE n == Len(sizes)
           first == FirstPiece(sizes)
           seqs == [f \in 1 .. n |-> Blocks(f)]
           h == Flat!Chain(seqs, seqs[1], n)
           X == Seq(BlockRecord)
<1>1. n \in Nat /\ n >= 1 /\ DOMAIN sizes = 1 .. n
  OBVIOUS
<1>2. \A f \in 1 .. n : Blocks(f) \in X
  BY BlocksType
<1>3. Len(seqs) = n /\ \A f \in 1 .. n : seqs[f] = Blocks(f) /\ seqs[f] \in X
  <2>1. seqs \in Seq(X)
    BY <1>1, <1>2
  <2>. QED BY <1>1, <1>2, <2>1
<1>4. AllBlocks = h[n]
  <2>1. AllBlocks = FlattenSeq(seqs)
    BY <1>1 DEF AllBlocks
  <2> HIDE DEF seqs
  <2>2. Len(seqs) = n /\ Len(seqs) # 0
    BY <1>1, <1>3
  <2>. QED BY <2>1, <2>2, Zenon DEF FlattenSeq, Flat!Chain
<1>5. /\ h \in [1 .. n -> X]
      /\ \A i \in 1 .. n : h[i] = IF i = 1 THEN seqs[1] ELSE h[i - 1] \o seqs[i]
  <2>1. \A x \in X, i \in 2 .. n : x \o seqs[i] \in X
    <3> SUFFICES ASSUME NEW x \in X, NEW i \in 2 .. n PROVE x \o seqs[i] \in X
      OBVIOUS
    <3>1. seqs[i] \in X
      BY <1>3
    <3> HIDE DEF seqs
    <3>. QED BY <3>1
  <2>2. seqs[1] \in X /\ n \in Nat
    BY <1>1, <1>3
  <2> HIDE DEF n, seqs, X
  <2>. QED BY <2>1, <2>2, Flat!ChainDef
<1> HIDE DEF h, seqs
<1> DEFINE Placed(k) ==
              /\ Len(h[k]) = first[k] + Pieces(sizes[k])
              /\ \A f \in 1 .. k : \A j \in 1 .. Pieces(sizes[f]) :
                    h[k][first[f] + j] = Blocks(f)[j]
           G == {k \in 0 .. n : k = 0 \/ Placed(k)}
<1>6. 0 \in G
  BY <1>1
<1>7. ASSUME NEW k \in 0 .. n - 1, k \in G PROVE k + 1 \in G
  <2> DEFINE m == k + 1
  <2>1. m \in 1 .. n /\ m - 1 = k /\ k + 1 = m
    BY <1>1
  <2> HIDE DEF m
  <2>2. /\ first \in [1 .. n -> Nat]
        /\ first[m] = IF m = 1 THEN 0 ELSE first[k] + Pieces(sizes[k])
    BY <2>1, FirstPieceDef
  <2>3. /\ seqs[m] = Blocks(m) /\ Blocks(m) \in X
        /\ Len(Blocks(m)) = Pieces(sizes[m]) /\ Pieces(sizes[m]) \in Nat
    BY <1>3, <2>1, BlocksType, PiecesCount
  <2>4. h[m] = IF m = 1 THEN seqs[1] ELSE h[k] \o seqs[m]
    BY <1>5, <2>1
  <2> HIDE DEF first
  <2>5. ASSUME k = 0 PROVE Placed(m)
    <3>1. m = 1 /\ first[m] = 0 /\ h[m] = Blocks(m)
      BY <2>1, <2>2, <2>3, <2>4, <2>5
    <3>2. \A f \in 1 .. m : f = m
      BY <3>1
    <3>3. \A j \in 1 .. Pieces(sizes[m]) : h[m][first[m] + j] = Blocks(m)[j]
      BY <2>3, <3>1
    <3>4. Len(h[m]) = first[m] + Pieces(sizes[m])
      BY <2>3, <3>1
    <3>. QED BY <3>2, <3>3, <3>4
  <2>6. ASSUME k # 0 PROVE Placed(m)
    <3>1. k \in 1 .. n /\ h[k] \in X
      BY <1>1, <1>5, <2>6
    <3>2. /\ Len(h[k]) = first[m]
          /\ first[m] \in Nat
          /\ \A f \in 1 .. k : \A j \in 1 .. Pieces(sizes[f]) :
                h[k][first[f] + j] = Blocks(f)[j]
      BY <1>7, <2>1, <2>2, <2>6
    <3>3. h[m] = h[k] \o Blocks(m)
      <4>1. m # 1
        BY <2>1, <2>6
      <4>. QED BY <2>3, <2>4, <4>1, Zenon
    <3>4. /\ Len(h[m]) = first[m] + Pieces(sizes[m])
          /\ \A i \in 1 .. first[m] + Pieces(sizes[m]) :
                h[m][i] = IF i <= first[m] THEN h[k][i] ELSE Blocks(m)[i - first[m]]
      <4> DEFINE x == h[k]
                 y == Blocks(m)
      <4>1. x \in Seq(BlockRecord) /\ y \in Seq(BlockRecord)
        BY <2>3, <3>1
      <4>2. Len(x) = first[m] /\ Len(y) = Pieces(sizes[m]) /\ h[m] = x \o y
        BY <2>3, <3>2, <3>3
      <4> HIDE DEF x, y
      <4>3. /\ Len(x \o y) = Len(x) + Len(y)
            /\ \A i \in 1 .. Len(x) + Len(y) :
                  (x \o y)[i] = IF i <= Len(x) THEN x[i] ELSE y[i - Len(x)]
        BY <4>1, ConcatProperties
      <4>. QED BY <4>2, <4>3, Zenon DEF x, y
    <3>5. ASSUME NEW f \in 1 .. m, NEW j \in 1 .. Pieces(sizes[f])
          PROVE  h[m][first[f] + j] = Blocks(f)[j]
      <4> DEFINE q == Pieces(sizes[f])
      <4>1. f \in 1 .. n
        BY <1>1, <2>1
      <4>2. q \in Nat /\ first[f] \in Nat
        BY <2>2, <4>1, PiecesCount
      <4>3. CASE f = m
        <5>1. first[m] + j \in 1 .. first[m] + Pieces(sizes[m]) /\ ~ (first[m] + j <= first[m])
              /\ (first[m] + j) - first[m] = j
          BY <2>3, <3>2, <4>3
        <5>. QED BY <3>4, <4>3, <5>1
      <4>4. CASE f # m
        <5>1. f \in 1 .. k /\ f < m
          BY <1>1, <2>1, <4>4
        <5>2. first[f] + q <= first[m]
          BY <2>1, <4>1, <5>1, FilesInOrder DEF first
        <5> DEFINE i == first[f] + j
        <5>3. j \in Nat /\ j >= 1 /\ j <= q
          BY <4>2
        <5>4. i \in 1 .. first[m] + Pieces(sizes[m]) /\ i <= first[m]
          <6> DEFINE e == Pieces(sizes[m])
                     a == first[f]
                     b == first[m]
          <6>1. e \in Nat /\ a \in Nat /\ b \in Nat /\ q \in Nat /\ a + q <= b
            BY <2>3, <3>2, <4>2, <5>2
          <6> HIDE DEF q, e, a, b
          <6>2. a + j \in 1 .. b + e /\ a + j <= b
            BY <5>3, <6>1
          <6>. QED BY <6>2 DEF a, b, e
        <5>5. h[k][i] = Blocks(f)[j]
          BY <3>2, <5>1, Zenon
        <5> HIDE DEF i
        <5>6. h[m][i] = h[k][i]
          BY <3>4, <5>4, Zenon
        <5>. QED BY <5>5, <5>6 DEF i
      <4>. QED BY <4>3, <4>4
    <3>. QED BY <3>4, <3>5
  <2> HIDE DEF Placed
  <2>7. m \in G
    BY <1>1, <2>1, <2>5, <2>6
  <2>. QED BY <2>1, <2>7
<1>8. n \in G
  <2> HIDE DEF G
  <2>. QED BY <1>1, <1>6, <1>7, First!CountUp
<1>. QED BY <1>1, <1>4, <1>5, <1>8

\* Every piece is one of some file ...
LEMMA PieceOfFile ==
    ASSUME NEW s \in Seq(Nat), s # <<>>,
           NEW p \in 1 .. FirstPiece(s)[Len(s)] + Pieces(s[Len(s)])
    PROVE  \E f \in 1 .. Len(s) : \E j \in 1 .. Pieces(s[f]) : p = FirstPiece(s)[f] + j
<1> DEFINE n == Len(s)
           first == FirstPiece(s)
           P == [f \in 1 .. n |-> Pieces(s[f])]
           S == {f \in 1 .. n : p <= first[f] + P[f]}
<1>1. n \in Nat /\ n \in 1 .. n
  OBVIOUS
<1>2. first \in [1 .. n -> Nat] /\ P \in [1 .. n -> Nat]
  BY FirstPieceDef, PiecesCount
<1>3. \A f \in 1 .. n : first[f] = IF f = 1 THEN 0 ELSE first[f - 1] + P[f - 1]
  <2> SUFFICES ASSUME NEW f \in 1 .. n
               PROVE  first[f] = IF f = 1 THEN 0 ELSE first[f - 1] + P[f - 1]
    OBVIOUS
  <2>1. f # 1 => P[f - 1] = Pieces(s[f - 1])
    OBVIOUS
  <2>. QED BY <2>1, FirstPieceDef
<1>4. p \in 1 .. first[n] + P[n]
  OBVIOUS
<1>5. \A f \in 1 .. n : P[f] = Pieces(s[f])
  OBVIOUS
<1> HIDE DEF first, P, n
<1>6. n \in S /\ S \in SUBSET Nat
  BY <1>1, <1>4
<1>7. PICK f \in S : \A g \in S : f <= g
  <2> HIDE DEF S
  <2>1. S # {}
    BY <1>6
  <2>. QED BY <1>6, <2>1, First!LeastNumber
<1>8. p \in Nat /\ p >= 1 /\ f \in 1 .. n /\ p <= first[f] + P[f] /\ first[f] \in Nat /\ P[f] \in Nat
  <2>1. first[n] \in Nat /\ P[n] \in Nat
    BY <1>1, <1>2
  <2>. QED BY <1>2, <1>4, <2>1
<1>9. p > first[f]
  <2>1. CASE f = 1
    BY <1>3, <1>8, <2>1
  <2>2. CASE f # 1
    <3>1. f - 1 \in 1 .. n /\ ~ (f - 1 \in S)
      BY <1>1, <1>7, <1>8, <2>2
    <3>2. first[f - 1] \in Nat /\ P[f - 1] \in Nat /\ first[f] = first[f - 1] + P[f - 1]
      BY <1>2, <1>3, <1>8, <2>2, <3>1
    <3>. QED BY <1>8, <3>1, <3>2
  <2>. QED BY <2>1, <2>2
<1>10. p - first[f] \in 1 .. P[f] /\ p = first[f] + (p - first[f])
  <2> DEFINE a == first[f]
             b == P[f]
  <2>1. a \in Nat /\ b \in Nat /\ p <= a + b /\ p > a
    BY <1>8, <1>9
  <2> HIDE DEF a, b
  <2>2. p - a \in 1 .. b /\ p = a + (p - a)
    BY <1>8, <2>1
  <2>. QED BY <2>2 DEF a, b
<1>. QED BY <1>5, <1>8, <1>10 DEF n, first

\* ... and locate finds that file, and the bytes of the piece in it.
LEMMA Located ==
    ASSUME NEW s \in Seq(Nat), NEW f \in 1 .. Len(s), NEW j \in 1 .. Pieces(s[f])
    PROVE  Locate(s, (FirstPiece(s)[f] + j) - 1) =
              [file |-> f, start |-> (j - 1) * Block, end |-> Min({j * Block, s[f]})]
<1> DEFINE n == Len(s)
           first == FirstPiece(s)
           P == [g \in 1 .. n |-> Pieces(s[g])]
           piece == (first[f] + j) - 1
           begun == {g \in 1 .. n : first[g] <= piece}
           nonzero == {g \in 1 .. f : s[g] > 0}
<1>1. n \in Nat /\ f \in 1 .. n /\ DOMAIN s = 1 .. n
  OBVIOUS
<1>2. first \in [1 .. n -> Nat] /\ P \in [1 .. n -> Nat] /\ P[f] = Pieces(s[f])
  BY FirstPieceDef, PiecesCount
<1>3. \A g, k \in 1 .. n : g < k => first[g] + P[g] <= first[k]
  <2> SUFFICES ASSUME NEW g \in 1 .. n, NEW k \in 1 .. n, g < k
               PROVE  first[g] + P[g] <= first[k]
    OBVIOUS
  <2>. QED BY FilesInOrder
<1>4. j \in Nat /\ j >= 1 /\ j <= P[f]
  <2>1. P[f] = Pieces(s[f]) /\ P[f] \in Nat
    BY <1>1, <1>2
  <2>. QED BY <2>1
<1>5. begun = 1 .. f
  <2> HIDE DEF n, first, P
  <2>1. first[f] \in Nat /\ P[f] \in Nat
    BY <1>1, <1>2
  <2>2. ASSUME NEW g \in 1 .. n PROVE first[g] <= piece <=> g <= f
    <3>1. first[g] \in Nat /\ P[g] \in Nat
      BY <1>2
    <3>2. CASE g < f
      BY <1>1, <1>3, <1>4, <2>1, <3>1, <3>2
    <3>3. CASE g = f
      BY <1>4, <2>1, <3>3, <1>1
    <3>4. CASE f < g
      BY <1>1, <1>3, <1>4, <2>1, <3>1, <3>4
    <3>. QED BY <1>1, <3>2, <3>3, <3>4
  <2>. QED BY <1>1, <2>2
<1>6. Cardinality(begun) = f
  <2>1. f \in Int /\ 1 \in Int /\ ~ (1 > f) /\ (f - 1) + 1 = f
    BY <1>1
  <2> HIDE DEF begun
  <2>. QED BY <1>5, <2>1, FS_Interval
<1>7. f \in nonzero /\ Max(nonzero) = f
  <2>1. s[f] > 0
    <3>1. Pieces(s[f]) > 0
      BY <1>1, <1>2, <1>4
    <3>. QED BY <1>1, <3>1, PiecesFacts
  <2>2. f \in nonzero /\ nonzero \in SUBSET (0 .. f) /\ f \in Nat
    BY <1>1, <2>1
  <2>3. \A g \in nonzero : g \in Nat /\ g <= f
    BY <1>1
  <2> HIDE DEF nonzero
  <2>4. Max(nonzero) \in nonzero /\ \A y \in nonzero : Max(nonzero) >= y
    <3>1. nonzero # {}
      BY <2>2
    <3>2. First!Max(nonzero) \in nonzero /\ \A y \in nonzero : First!Max(nonzero) >= y
      BY <2>2, <3>1, First!MaxIsIn
    <3>. QED BY <3>2 DEF First!Max, Max
  <2> DEFINE x == Max(nonzero)
  <2>5. x \in nonzero /\ x >= f
    BY <2>2, <2>4
  <2> HIDE DEF x
  <2>6. x = f
    BY <2>2, <2>3, <2>5
  <2>. QED BY <2>2, <2>6 DEF x
<1>8. piece - first[f] = j - 1
  <2>1. first[f] \in Nat
    BY <1>1, <1>2
  <2> HIDE DEF first
  <2>. QED BY <1>4, <2>1
<1>9. (j - 1) * Block + Block = j * Block
  BY <1>4, LayoutAssumption
<1>10. Locate(s, piece) =
          [file |-> f, start |-> (piece - first[f]) * Block,
           end |-> Min({(piece - first[f]) * Block + Block, s[f]})]
  <2> DEFINE Bytes(file) == [file |-> file, start |-> (piece - first[file]) * Block,
                             end |-> Min({(piece - first[file]) * Block + Block, s[file]})]
             Here(S, last) == Bytes(IF S = {} THEN last ELSE Max(S))
             UpTo(last) == Here({g \in 1 .. last : s[g] > 0}, last)
  <2>1. Locate(s, piece) = UpTo(Cardinality({g \in DOMAIN s : first[g] <= piece}))
    <3> HIDE DEF first, piece
    <3>. QED BY Zenon DEF Locate, first
  <2>2. {g \in DOMAIN s : first[g] <= piece} = begun
    BY <1>1
  <2>3. UpTo(f) = Here(nonzero, f)
    OBVIOUS
  <2> HIDE DEF begun, nonzero, piece, first, UpTo, Bytes
  <2>4. Locate(s, piece) = UpTo(f)
    BY <1>6, <2>1, <2>2, Zenon
  <2>5. nonzero # {}
    BY <1>7
  <2>6. Here(nonzero, f) = Bytes(f)
    BY <1>7, <2>5, Zenon
  <2>. QED BY <2>3, <2>4, <2>6, Zenon DEF Bytes
<1>. QED BY <1>8, <1>9, <1>10, Zenon

LEMMA AllLocated == sizes \in Seq(Nat) => LocateExact
<1> SUFFICES ASSUME sizes \in Seq(Nat) PROVE LocateExact
  OBVIOUS
<1> DEFINE n == Len(sizes)
           first == FirstPiece(sizes)
<1>1. n \in Nat /\ DOMAIN sizes = 1 .. n
  OBVIOUS
<1>2. CASE n = 0
  <2>1. AllBlocks = <<>>
    <3> DEFINE seqs == [f \in DOMAIN sizes |-> Blocks(f)]
    <3>1. DOMAIN sizes = 1 .. 0
      BY <1>1, <1>2
    <3>2. seqs = <<>> /\ Len(seqs) = 0
      BY <3>1
    <3> HIDE DEF seqs
    <3>. QED BY <3>2 DEF AllBlocks, FlattenSeq, seqs
  <2>2. TotalPieces(sizes) = 0
    BY <1>2, PiecesAddUp
  <2>3. Len(AllBlocks) = 0
    BY <2>1
  <2>4. \A p \in 1 .. Len(AllBlocks) : FALSE
    BY <2>3
  <2>5. \A f \in DOMAIN sizes : FALSE
    BY <1>1, <1>2
  <2>. QED BY <2>2, <2>3, <2>4, <2>5, Zenon DEF LocateExact
<1>3. CASE n # 0
  <2>0. sizes # <<>>
    BY <1>3
  <2>1. /\ AllBlocks \in Seq(BlockRecord)
        /\ Len(AllBlocks) = first[n] + Pieces(sizes[n])
        /\ \A f \in 1 .. n : \A j \in 1 .. Pieces(sizes[f]) :
              AllBlocks[first[f] + j] = Blocks(f)[j]
    BY <2>0, BlocksInOrder
  <2>2. TotalPieces(sizes) = Len(AllBlocks)
    BY <1>3, <2>1, PiecesAddUp
  <2>3. \A p \in 1 .. Len(AllBlocks) : \E f \in 1 .. n : \E j \in 1 .. Pieces(sizes[f]) :
           p = first[f] + j
    BY <2>0, <2>1, PieceOfFile
  <2>4. /\ first \in [1 .. n -> Nat]
        /\ \A f \in 1 .. n : Pieces(sizes[f]) \in Nat
    BY FirstPieceDef, PiecesCount
  <2>5. ASSUME NEW f \in 1 .. n, NEW j \in 1 .. Pieces(sizes[f])
        PROVE  /\ Blocks(f)[j] = [file |-> f, start |-> (j - 1) * Block,
                                  end |-> Min({j * Block, sizes[f]})]
               /\ Blocks(f)[j].file = f
    <3>1. Blocks(f)[j] = [file |-> f, start |-> (j - 1) * Block,
                          end |-> Min({j * Block, sizes[f]})]
      BY BlocksType
    <3>. QED BY <3>1
  <2>6. ASSUME NEW p \in 1 .. Len(AllBlocks)
        PROVE  Locate(sizes, p - 1) = AllBlocks[p]
    <3>1. PICK f \in 1 .. n : \E j \in 1 .. Pieces(sizes[f]) : p = first[f] + j
      BY <2>3
    <3>2. PICK j \in 1 .. Pieces(sizes[f]) : p = first[f] + j
      BY <3>1
    <3>3. Locate(sizes, (first[f] + j) - 1) =
             [file |-> f, start |-> (j - 1) * Block, end |-> Min({j * Block, sizes[f]})]
      BY Located
    <3>4. AllBlocks[first[f] + j] = Blocks(f)[j]
      BY <2>1
    <3> HIDE DEF first
    <3>. QED BY <2>5, <3>2, <3>3, <3>4, Zenon
  <2>7. ASSUME NEW f \in 1 .. n
        PROVE  PiecesOf(sizes, f) =
                  {p - 1 : p \in {q \in DOMAIN AllBlocks : AllBlocks[q].file = f}}
    <3> DEFINE mine == {q \in DOMAIN AllBlocks : AllBlocks[q].file = f}
               a == first[f]
               b == Pieces(sizes[f])
    <3>1. a \in Nat /\ b \in Nat
      BY <2>4
    <3>2. /\ DOMAIN AllBlocks = 1 .. Len(AllBlocks)
          /\ a + b <= Len(AllBlocks) /\ Len(AllBlocks) \in Nat
      <4>1. DOMAIN AllBlocks = 1 .. Len(AllBlocks) /\ Len(AllBlocks) \in Nat
        BY <2>1
      <4> DEFINE c == first[n]
                 d == Pieces(sizes[n])
      <4>2. n \in 1 .. n /\ c \in Nat /\ d \in Nat
        BY <1>1, <1>3, <2>4
      <4>3. f = n \/ a + b <= c
        <5>1. f = n \/ f < n
          <6>1. f \in 1 .. n /\ n \in Nat
            OBVIOUS
          <6> HIDE DEF n
          <6>. QED BY <6>1
        <5>. QED BY <4>2, <5>1, FilesInOrder
      <4>4. f = n => a = c /\ b = d
        OBVIOUS
      <4>5. Len(AllBlocks) = c + d
        BY <2>1
      <4> HIDE DEF a, b, c, d
      <4>. QED BY <3>1, <4>1, <4>2, <4>3, <4>4, <4>5
    <3>3. ASSUME NEW x \in a .. (a + b) - 1 PROVE x + 1 \in mine /\ (x + 1) - 1 = x
      <4> DEFINE j == (x + 1) - a
      <4> HIDE DEF a, b
      <4>1. j \in 1 .. b /\ a + j = x + 1 /\ x + 1 \in 1 .. Len(AllBlocks) /\ (x + 1) - 1 = x
        BY <3>1, <3>2
      <4> HIDE DEF j
      <4>2. j \in 1 .. Pieces(sizes[f]) /\ first[f] + j = x + 1
        BY <4>1 DEF a, b
      <4>3. AllBlocks[x + 1] = Blocks(f)[j] /\ Blocks(f)[j].file = f
        <5>1. AllBlocks[first[f] + j] = Blocks(f)[j]
          BY <2>1, <4>2
        <5>2. Blocks(f)[j].file = f
          BY <2>5, <4>2
        <5>. QED BY <4>2, <5>1, <5>2
      <4>. QED BY <3>2, <4>1, <4>3
    <3>4. ASSUME NEW q \in mine PROVE q - 1 \in a .. (a + b) - 1
      <4>1. q \in 1 .. Len(AllBlocks) /\ AllBlocks[q].file = f
        BY <3>2
      <4>2. PICK g \in 1 .. n : \E j \in 1 .. Pieces(sizes[g]) : q = first[g] + j
        BY <2>3, <4>1
      <4>3. PICK j \in 1 .. Pieces(sizes[g]) : q = first[g] + j
        BY <4>2
      <4>4. g = f
        <5>1. AllBlocks[q] = Blocks(g)[j]
          BY <2>1, <4>3
        <5>2. Blocks(g)[j].file = g
          BY <2>5
        <5>. QED BY <4>1, <5>1, <5>2
      <4>5. j \in 1 .. b /\ q = a + j
        BY <4>3, <4>4
      <4> HIDE DEF a, b
      <4>. QED BY <3>1, <4>5
    <3>5. PiecesOf(sizes, f) = a .. (a + b) - 1
      <4>1. PiecesOf(sizes, f) = a .. a + b - 1
        BY DEF PiecesOf
      <4> HIDE DEF a, b
      <4>2. a + b - 1 = (a + b) - 1
        BY <3>1
      <4>. QED BY <4>1, <4>2
    <3> HIDE DEF mine, a, b
    <3>6. a .. (a + b) - 1 = {p - 1 : p \in mine}
      BY <3>3, <3>4
    <3>. QED BY <3>5, <3>6 DEF mine
  <2>8. \A f \in DOMAIN sizes :
           PiecesOf(sizes, f) = {p - 1 : p \in {q \in DOMAIN AllBlocks : AllBlocks[q].file = f}}
    BY <1>1, <2>7
  <2>. QED BY <2>2, <2>6, <2>8, Zenon DEF LocateExact
<1>. QED BY <1>2, <1>3

LEMMA ReadLenBound ==
    ASSUME NEW size \in Nat, NEW offset \in Nat, NEW len \in Nat
    PROVE  /\ ReadLen(size, offset, len) \in Nat
           /\ ReadLen(size, offset, len) > 0 => offset + ReadLen(size, offset, len) <= size
<1> DEFINE x == Max({size - offset, 0})
<1>1. x \in Nat /\ (x > 0 => x = size - offset)
  <2>1. x = CHOOSE z \in {size - offset, 0} : \A y \in {size - offset, 0} : z >= y
    BY DEF Max
  <2>. QED BY <2>1
<1>2. ReadLen(size, offset, len) = Min({len, x})
  BY DEF ReadLen
<1> HIDE DEF x
<1>3. Min({len, x}) \in {len, x} /\ Min({len, x}) <= x
  BY <1>1, MinOfTwo
<1> DEFINE r == Min({len, x})
<1>4. r \in Nat /\ r <= x
  BY <1>1, <1>3
<1> HIDE DEF r
<1>5. r > 0 => offset + r <= size
  BY <1>1, <1>4
<1>. QED BY <1>2, <1>4, <1>5 DEF r

LEMMA AllHeld == sizes \in Seq(Nat) => ReadsAreHeld
<1> SUFFICES ASSUME sizes \in Seq(Nat), NEW f \in DOMAIN sizes,
                    NEW offset \in 0 .. sizes[f] + 1, NEW len \in 0 .. sizes[f] + 1,
                    NEW pos \in offset .. offset + ReadLen(sizes[f], offset, len) - 1
             PROVE  FirstPiece(sizes)[f] + (pos \div Block) \in PiecesOf(sizes, f)
  BY DEF ReadsAreHeld, PiecesRead
<1> DEFINE size == sizes[f]
           r == ReadLen(size, offset, len)
           a == FirstPiece(sizes)[f]
           d == pos \div Block
<1>1. f \in 1 .. Len(sizes) /\ size \in Nat /\ a \in Nat /\ Pieces(size) \in Nat
  BY PiecesCount, FirstPieceDef
<1>2. offset \in Nat /\ len \in Nat
  BY <1>1
<1>3. r \in Nat /\ (r > 0 => offset + r <= size)
  BY <1>1, <1>2, ReadLenBound
<1>4. pos \in offset .. (offset + r) - 1
  <2>1. offset + r - 1 = (offset + r) - 1
    BY <1>2, <1>3
  <2>. QED BY <2>1
<1> HIDE DEF r
<1>5. pos \in 0 .. size - 1
  BY <1>1, <1>2, <1>3, <1>4
<1>6. d \in 0 .. Pieces(size) - 1
  BY <1>1, <1>5, PiecesFacts
<1> DEFINE b == Pieces(size)
<1>7. PiecesOf(sizes, f) = a .. a + b - 1
  BY DEF PiecesOf
<1>8. b \in Nat /\ d \in 0 .. b - 1
  BY <1>1, <1>6
<1> HIDE DEF a, b, d
<1>9. a + d \in a .. a + b - 1
  BY <1>1, <1>8
<1>. QED BY <1>7, <1>9 DEF a, d

LEMMA BitsOf ==
    ASSUME NEW total \in Nat, NEW have \in SUBSET (0 .. total - 1)
    PROVE  UnpackBits(PackBits(have, total), total) = have
<1> DEFINE bytes == PackBits(have, total)
<1>1. bytes = [b \in 1 .. ((total + 8) - 1) \div 8 |->
                  {i % 8 : i \in {j \in have : j \div 8 = b - 1}}]
  <2>1. total + 8 - 1 = (total + 8) - 1
    OBVIOUS
  <2>. QED BY <2>1, Zenon DEF PackBits, ByteBits
<1>2. ASSUME NEW i \in 0 .. total - 1
      PROVE  (i \div 8) + 1 \in DOMAIN bytes /\ (i % 8 \in bytes[(i \div 8) + 1] <=> i \in have)
  <2> DEFINE b == (i \div 8) + 1
  <2>1. b \in 1 .. ((total + 8) - 1) \div 8 /\ b - 1 = i \div 8
    OBVIOUS
  <2>2. bytes[b] = {j % 8 : j \in {k \in have : k \div 8 = i \div 8}}
    <3> HIDE DEF b, bytes
    <3>. QED BY <1>1, <2>1
  <2>3. ASSUME NEW j \in have, j \div 8 = i \div 8, i % 8 = j % 8 PROVE i = j
    <3>1. j \in Nat /\ i \in Nat
      OBVIOUS
    <3>2. i = 8 * (i \div 8) + (i % 8) /\ j = 8 * (j \div 8) + (j % 8)
      BY <3>1
    <3>. QED BY <2>3, <3>2
  <2> HIDE DEF b, bytes
  <2>4. b \in DOMAIN bytes
    BY <1>1, <2>1
  <2>5. i % 8 \in bytes[b] <=> i \in have
    BY <2>2, <2>3
  <2>. QED BY <2>4, <2>5 DEF b
<1> HIDE DEF bytes
<1>3. UnpackBits(bytes, total) =
         {i \in 0 .. total - 1 :
             (i \div 8) + 1 \in DOMAIN bytes /\ i % 8 \in bytes[(i \div 8) + 1]}
  BY Zenon DEF UnpackBits, ByteBits
<1>4. UnpackBits(bytes, total) = have
  BY <1>2, <1>3
<1>. QED BY <1>4 DEF bytes

LEMMA AllBits == sizes \in Seq(Nat) => BitsRoundTrip
<1> SUFFICES ASSUME sizes \in Seq(Nat) PROVE BitsRoundTrip
  OBVIOUS
<1> DEFINE total == TotalPieces(sizes)
<1>1. total \in Nat
  <2>1. total = IF Len(sizes) = 0 THEN 0
                ELSE FirstPiece(sizes)[Len(sizes)] + Pieces(sizes[Len(sizes)])
    BY PiecesAddUp
  <2>2. ASSUME Len(sizes) # 0
        PROVE  FirstPiece(sizes)[Len(sizes)] \in Nat /\ Pieces(sizes[Len(sizes)]) \in Nat
    <3>1. Len(sizes) \in 1 .. Len(sizes)
      BY <2>2
    <3>. QED BY <3>1, FirstPieceDef, PiecesCount
  <2>. QED BY <2>1, <2>2
<1> HIDE DEF total
<1>2. UnpackBits(<<>>, total) = {}
  BY DEF UnpackBits
<1>3. \A have \in SUBSET (0 .. total - 1) : UnpackBits(PackBits(have, total), total) = have
  BY <1>1, BitsOf
<1>. QED BY <1>2, <1>3 DEF BitsRoundTrip, total

-----------------------------------------------------------------------------
(* Why a download fails. A good peer the code lists becomes a candidate    *)
(* and gets its turns, each attempt takes a bounded time, and so the deadline *)
(* leaves time for the dial that is long enough for it.                    *)

Busy == {"look", "dial", "ask", "pause"}
AttemptBound == ConnectTimeout + Breath

\* A good peer that the code lists where it is.
Listed(g) ==
    /\ g \in Good \ {Me}
    /\ \E i \in DOMAIN code : code[i] = AddressOf(g, TRUE)
    /\ Len(code) <= ChannelCap /\ IsFiniteSet(Announcing)

Current(s, g) == \A i \in DOMAIN s : s[i].id = g => s[i].current

\* Before the first look at the list.
Fresh ==
    /\ phase = "look" /\ candidates = <<>>
    /\ next = 0 /\ attempts = [p \in Peer |-> 0] /\ left = Deadline
    /\ Ids(code) \subseteq Ids(found)

\* Whom the task may know: g at its current address only, and after the first
\* look everybody the code lists.
Learned(g) ==
    /\ phase # "empty"
    /\ phase \in Busy =>
          /\ Ids(found) \subseteq Ids(code) \cup Announcing
          /\ Ids(candidates) \subseteq Heard
          /\ Current(found, g) /\ Current(candidates, g)
          /\ Fresh \/ Ids(code) \ {Me} \subseteq Ids(candidates)

\* Candidates the code does not list.
Met == Cardinality(Ids(candidates) \ Ids(code))

\* How many attempts are made before the one on the peer at position j.
Ahead(n, j, k) == ((j - 1) - k) % n

\* The attempts so far and those up to g's turn: a round for each on g, and a
\* part of one for the first list and each that grew.
WaitBound(g) ==
    \A j \in DOMAIN candidates :
        candidates[j].id = g =>
            next + Ahead(Len(candidates), j, next) <=
                Cardinality(Heard) * attempts[g] + (Cardinality(Heard) - 1) * (Met + 1)

\* Each attempt takes the dial and the pause at most.
TimeUsed ==
    /\ phase = "look" => Deadline <= left + next * AttemptBound
    /\ phase = "dial" =>
          next > 0 /\ Deadline + timer <= left + (next - 1) * AttemptBound + ConnectTimeout
    /\ phase = "ask" =>
          next > 0 /\ Deadline <= left + (next - 1) * AttemptBound + ConnectTimeout
    /\ phase = "pause" => next > 0 /\ Deadline + timer <= left + next * AttemptBound

\* A task that dials g for the time with number k at the latest does not fail.
Reached(g, k) ==
    /\ phase # "failed"
    /\ phase \in {"look", "pause"} => attempts[g] <= k
    /\ phase = "dial" => attempts[g] <= k \/ sure
    /\ phase = "ask" => attempts[g] <= k \/ target.id \in Good

\* So goes the search for g, unless a peer lets a request wait.
InSearch(g) ==
    /\ Learned(g)
    /\ stalled \/ /\ phase \in Busy => TimeUsed /\ WaitBound(g)
                  /\ \A k \in 0 .. 4 :
                        EnoughFor(k) /\ honest /\ Fits(share) => Reached(g, k)

SearchInv ==
    /\ phase = "dial" /\ sure => target.id \in Good
    /\ \A g \in Peer : Listed(g) => InSearch(g)

-----------------------------------------------------------------------------
(* Lists of addresses.                                                     *)

LEMMA IdsOf ==
    ASSUME NEW A, NEW s \in Seq(A)
    PROVE  /\ \A i \in 1 .. Len(s) : s[i].id \in Ids(s)
           /\ \A p : Lists(s, p) <=> p \in Ids(s)
           /\ \A e \in A : Ids(Append(s, e)) = Ids(s) \cup {e.id}
           /\ IsFiniteSet(Ids(s))
<1>1. DOMAIN s = 1 .. Len(s) /\ Len(s) \in Nat
  OBVIOUS
<1>2. ASSUME NEW e \in A PROVE Ids(Append(s, e)) = Ids(s) \cup {e.id}
  <2> DEFINE t == Append(s, e)
  <2>1. /\ DOMAIN t = 1 .. Len(s) + 1
        /\ \A i \in 1 .. Len(s) : t[i] = s[i]
        /\ t[Len(s) + 1] = e
    BY <1>1
  <2> HIDE DEF t
  <2>2. Ids(t) = {t[i].id : i \in 1 .. Len(s) + 1} /\ Ids(s) = {s[i].id : i \in 1 .. Len(s)}
    BY <1>1, <2>1 DEF Ids
  <2>3. \A i \in 1 .. Len(s) + 1 : i \in 1 .. Len(s) \/ i = Len(s) + 1
    BY <1>1
  <2>4. \A i \in 1 .. Len(s) : i \in 1 .. Len(s) + 1
    BY <1>1
  <2>5. Len(s) + 1 \in 1 .. Len(s) + 1
    BY <1>1
  <2>6. Ids(t) \subseteq Ids(s) \cup {e.id}
    BY <2>1, <2>2, <2>3
  <2>7. Ids(s) \subseteq Ids(t)
    BY <2>1, <2>2, <2>4
  <2>8. e.id \in Ids(t)
    BY <2>1, <2>2, <2>5
  <2>9. Ids(t) = Ids(s) \cup {e.id}
    BY <2>6, <2>7, <2>8
  <2>. QED BY <2>9 DEF t
<1>3. IsFiniteSet(Ids(s))
  <2>1. IsFiniteSet(1 .. Len(s))
    BY <1>1, FS_Interval
  <2> DEFINE f == [i \in 1 .. Len(s) |-> s[i].id]
  <2>2. f \in Surjection(1 .. Len(s), Ids(s))
    BY <1>1 DEF Surjection, Ids
  <2> HIDE DEF f
  <2>. QED BY <2>1, <2>2, FS_Surjection
<1>. QED BY <1>1, <1>2, <1>3 DEF Ids, Lists

\* A list with nobody twice is as long as it has members.
LEMMA IdsCount ==
    ASSUME NEW s \in Rosters
    PROVE  Cardinality(Ids(s)) = Len(s)
<1>1. DOMAIN s = 1 .. Len(s) /\ Len(s) \in Nat
      /\ \A i, j \in 1 .. Len(s) : s[i].id = s[j].id => i = j
  BY DEF Rosters
<1> DEFINE f == [i \in 1 .. Len(s) |-> s[i].id]
<1>2. f \in Bijection(1 .. Len(s), Ids(s))
  BY <1>1 DEF Bijection, Injection, IsInjective, Surjection, Ids
<1> HIDE DEF f
<1>3. IsFiniteSet(1 .. Len(s)) /\ Cardinality(1 .. Len(s)) = Len(s)
  BY <1>1, FS_Interval
<1>4. ExistsBijection(1 .. Len(s), Ids(s))
  BY <1>2 DEF ExistsBijection
<1>. QED BY <1>3, <1>4, FS_Bijection

\* The head of the loop: nobody is lost, the peers of the channel are added, and
\* who else is there was heard.
Added(s, r, channel, k) ==
    /\ r \in Rosters
    /\ Ids(s) \subseteq Ids(r)
    /\ Ids(r) \subseteq Ids(s) \cup Ids(channel)
    /\ \A i \in 1 .. k : channel[i].id = Me \/ channel[i].id \in Ids(r)
    /\ r = s \/ Ids(r) # Ids(s)
    /\ \A g : Current(s, g) /\ Current(channel, g) => Current(r, g)

LEMMA OneMore ==
    ASSUME NEW s \in Rosters, NEW r, NEW channel \in Seq(AnyAddress),
           NEW k \in 0 .. Len(channel) - 1, Added(s, r, channel, k)
    PROVE  Added(s, AddCandidate(r, channel[k + 1]), channel, k + 1)
<1> DEFINE e == channel[k + 1]
           t == AddCandidate(r, e)
<1>1. /\ Len(channel) \in Nat /\ k + 1 \in 1 .. Len(channel)
      /\ DOMAIN channel = 1 .. Len(channel)
  OBVIOUS
<1>2. e \in AnyAddress
  BY <1>1
<1>3. r \in Rosters /\ t \in Rosters
  BY <1>2, AddType DEF Added
<1>4. e.id \in Ids(channel)
  BY <1>1, IdsOf
<1>5. \A i \in 1 .. k + 1 : i \in 1 .. k \/ i = k + 1
  OBVIOUS
<1>6. CASE e.id = Me \/ e.id \in Ids(r)
  <2>1. r \in Seq([id : Peer \ {Me}, current : BOOLEAN])
    BY <1>3 DEF Rosters
  <2>2. Lists(r, e.id) <=> e.id \in Ids(r)
    BY <2>1, IdsOf
  <2>3. t = r
    BY <1>6, <2>2 DEF AddCandidate, AppendNew
  <2> HIDE DEF t, e
  <2>4. \A i \in 1 .. k + 1 : channel[i].id = Me \/ channel[i].id \in Ids(r)
    BY <1>5, <1>6 DEF Added, e
  <2>5. Added(s, t, channel, k + 1)
    BY <2>3, <2>4, Zenon DEF Added
  <2>. QED BY <2>5 DEF t, e
<1>7. CASE ~ (e.id = Me \/ e.id \in Ids(r))
  <2> DEFINE A == [id : Peer \ {Me}, current : BOOLEAN]
  <2>1. r \in Seq(A) /\ e \in A
    BY <1>2, <1>3, <1>7 DEF Rosters, AnyAddress
  <2>2. t = Append(r, e)
    <3>1. ~ Lists(r, e.id)
      BY <1>7, <2>1, IdsOf
    <3>. QED BY <1>7, <3>1 DEF AddCandidate, AppendNew
  <2>3. Ids(t) = Ids(r) \cup {e.id}
    <3> HIDE DEF A, e, t
    <3>1. Ids(Append(r, e)) = Ids(r) \cup {e.id}
      BY <2>1, IdsOf
    <3>. QED BY <2>2, <3>1
  <2>4. ASSUME NEW g, Current(s, g), Current(channel, g) PROVE Current(t, g)
    <3>1. Current(r, g)
      BY <2>4 DEF Added
    <3>2. e.id = g => e.current
      BY <1>1, <2>4 DEF Current
    <3> HIDE DEF e, A
    <3>3. \A i \in DOMAIN Append(r, e) : (i \in DOMAIN r /\ Append(r, e)[i] = r[i]) \/ Append(r, e)[i] = e
      BY <2>1
    <3>. QED BY <2>2, <3>1, <3>2, <3>3 DEF Current
  <2> HIDE DEF t, e, A
  <2>5. \A i \in 1 .. k + 1 : channel[i].id = Me \/ channel[i].id \in Ids(t)
    BY <1>5, <2>3 DEF Added, e
  <2>6. Ids(s) \subseteq Ids(t) /\ Ids(t) \subseteq Ids(s) \cup Ids(channel) /\ Ids(t) # Ids(s)
    BY <1>4, <1>7, <2>3 DEF Added
  <2>7. Added(s, t, channel, k + 1)
    BY <1>3, <2>4, <2>5, <2>6 DEF Added
  <2>. QED BY <2>7 DEF t, e
<1>. QED BY <1>6, <1>7

LEMMA AllAdded ==
    ASSUME NEW s \in Rosters, NEW channel \in Seq(AnyAddress)
    PROVE  Added(s, FoldLeft(AddCandidate, s, channel), channel, Len(channel))
<1> DEFINE n == Len(channel)
           r == FoldLeft(AddCandidate, s, channel)
<1>1. \A x \in Rosters, y \in AnyAddress : AddCandidate(x, y) \in Rosters
  BY AddType
<1>2. PICK v : Know!IsRun({}, Rosters, s, channel, v)
  BY <1>1, Know!FoldRun
<1>3. /\ v \in [0 .. n -> Rosters] /\ v[0] = s
      /\ \A i \in 1 .. n : v[i] = AddCandidate(v[i - 1], channel[i])
      /\ Know!Folded({}, s, channel) = v[n]
  BY <1>2, Zenon DEF Know!IsRun
<1>4. r = v[n]
  BY <1>3 DEF Know!Folded, Know!MapThenFoldSet, Know!Max,
              FoldLeft, MapThenFoldSet, Max
<1> HIDE DEF r
<1> DEFINE G == {k \in 0 .. n : Added(s, v[k], channel, k)}
<1>5. n \in Nat
  OBVIOUS
<1>6. 0 \in G
  <2>1. \A i \in 1 .. 0 : FALSE
    OBVIOUS
  <2>2. Added(s, s, channel, 0)
    BY <2>1 DEF Added
  <2>. QED BY <1>3, <1>5, <2>2
<1>7. ASSUME NEW k \in 0 .. n - 1, k \in G PROVE k + 1 \in G
  <2>1. k + 1 \in 1 .. n /\ (k + 1) - 1 = k
    BY <1>5
  <2>2. v[k + 1] = AddCandidate(v[k], channel[k + 1])
    BY <1>3, <2>1
  <2>3. Added(s, v[k + 1], channel, k + 1)
    BY <1>7, <2>2, OneMore
  <2>. QED BY <2>1, <2>3
<1>8. n \in G
  <2> HIDE DEF G
  <2>. QED BY <1>5, <1>6, <1>7, First!CountUp
<1>. QED BY <1>4, <1>8 DEF r

-----------------------------------------------------------------------------
(* Whose turn it is, in numbers.                                           *)

\* Each attempt brings the turn one closer, until it is there.
LEMMA TurnComes ==
    ASSUME NEW n \in Nat, n > 0, NEW j \in 1 .. n, NEW k \in Nat
    PROVE  /\ Ahead(n, j, k) \in 0 .. n - 1
           /\ Ahead(n, j, k + 1) \in 0 .. n - 1
           /\ Ahead(n, j, k) = 0 <=> (k % n) + 1 = j
           /\ Ahead(n, j, k) > 0 => Ahead(n, j, k + 1) = Ahead(n, j, k) - 1
<1> DEFINE a == Ahead(n, j, k)
           b == Ahead(n, j, k + 1)
           r == k % n
<1>1. (j - 1) - k \in Int /\ (j - 1) - (k + 1) \in Int /\ k \in Int
  OBVIOUS
<1>2. PICK q \in Int : (j - 1) - k = n * q + a /\ a \in 0 .. n - 1
  BY <1>1, Division DEF Ahead
<1>3. PICK p \in Int : (j - 1) - (k + 1) = n * p + b /\ b \in 0 .. n - 1
  BY <1>1, Division DEF Ahead
<1>4. PICK h \in Int : k = n * h + r /\ r \in 0 .. n - 1
  BY <1>1, Division
<1> HIDE DEF a, b, r
<1>5. ASSUME a = 0 PROVE r = j - 1
  <2>1. n * 0 + (j - 1) = n * (q + h) + r
    <3>1. n * (q + h) = n * q + n * h
      BY Z3
    <3>. QED BY <1>2, <1>4, <1>5, <3>1
  <2>2. j - 1 \in 0 .. n - 1 /\ q + h \in Int
    OBVIOUS
  <2>. QED BY <1>4, <2>1, <2>2, OneDivision
<1>6. ASSUME r = j - 1 PROVE a = 0
  <2>1. n * q + a = n * (-h) + 0
    <3>1. n * (-h) = -(n * h)
      BY Z3
    <3>. QED BY <1>2, <1>4, <1>6, <3>1
  <2>2. 0 \in 0 .. n - 1 /\ -h \in Int
    OBVIOUS
  <2>. QED BY <1>2, <2>1, <2>2, OneDivision
<1>7. ASSUME a > 0 PROVE b = a - 1
  <2>1. n * q + (a - 1) = n * p + b
    BY <1>2, <1>3
  <2>2. a - 1 \in 0 .. n - 1
    BY <1>2, <1>7
  <2>. QED BY <1>3, <2>1, <2>2, OneDivision
<1>8. r + 1 = j <=> r = j - 1
  BY <1>4
<1>9. (a \in 0 .. n - 1) /\ (b \in 0 .. n - 1) /\ (a = 0 <=> r + 1 = j) /\ (a > 0 => b = a - 1)
  BY <1>2, <1>3, <1>5, <1>6, <1>7, <1>8
<1>. QED BY <1>9 DEF a, b, r

LEMMA MoreTimes ==
    ASSUME NEW a \in Nat, NEW b \in Nat, NEW c \in Nat, a <= b
    PROVE  c * a <= c * b /\ a * c <= b * c /\ c * a \in Nat /\ c * b \in Nat
BY Z3

\* Every attempt before g's turn fits before the deadline, and so does g's.
LEMMA InTime ==
    ASSUME NEW needs \in Nat, NEW l \in Nat, NEW n \in Nat, NEW before \in Nat,
           NEW bound \in Nat, NEW all \in Nat,
           n <= before, all <= l + n * bound, needs + before * bound <= all
    PROVE  needs <= l
<1>1. n * bound <= before * bound /\ n * bound \in Nat /\ before * bound \in Nat
  BY MoreTimes
<1> DEFINE x == n * bound
           y == before * bound
<1>2. x <= y /\ x \in Nat /\ y \in Nat /\ all <= l + x /\ needs + y <= all
  BY <1>1
<1> HIDE DEF x, y
<1>. QED BY <1>2

\* A good peer's turn, when the list that has n now grew or not: m is how many
\* there may be, f how many of them were met before, h how many now, t how often
\* the peer was dialed, k whose turn it is and a how far away the peer is.
LEMMA WaitOfOne ==
    ASSUME NEW m \in Nat, m > 0, NEW f \in Nat, NEW h \in Nat, NEW t \in Nat, NEW k \in Nat,
           NEW a \in Nat, a <= m - 1, f < h, k <= m * t + (m - 1) * (f + 1)
    PROVE  k + a <= m * t + (m - 1) * (h + 1)
<1>1. m - 1 \in Nat /\ f + 2 \in Nat /\ h + 1 \in Nat /\ f + 2 <= h + 1
  OBVIOUS
<1> DEFINE w == m - 1
           x == w * (f + 1)
           y == w * (h + 1)
           z == m * t
<1>2. w * (f + 2) <= y /\ y \in Nat
  BY <1>1, MoreTimes
<1>3. w * (f + 2) = x + w /\ x \in Nat /\ z \in Nat /\ w \in Nat
  <2>1. w \in Nat
    BY <1>1
  <2> HIDE DEF w
  <2>. QED BY <2>1, Z3
<1>4. a <= w /\ k <= z + x
  OBVIOUS
<1> HIDE DEF w, x, y, z
<1>5. k + a <= z + y
  BY <1>2, <1>3, <1>4
<1>. QED BY <1>5 DEF w, y, z

LEMMA FirstWait ==
    ASSUME NEW m \in Nat, m > 0, NEW h \in Nat, NEW a \in Nat, a <= m - 1
    PROVE  0 + a <= m * 0 + (m - 1) * (h + 1)
<1> DEFINE w == m - 1
<1>1. w \in Nat /\ 1 \in Nat /\ h + 1 \in Nat /\ 1 <= h + 1 /\ a <= w
  OBVIOUS
<1>2. w * 1 <= w * (h + 1) /\ w * (h + 1) \in Nat
  <2> HIDE DEF w
  <2>. QED BY <1>1, MoreTimes
<1>3. w * 1 = w /\ m * 0 = 0
  <2> HIDE DEF w
  <2>. QED BY <1>1, Z3
<1> DEFINE y == w * (h + 1)
           z == w * 1
<1> HIDE DEF w, y, z
<1>4. a <= y
  BY <1>1, <1>2, <1>3 DEF y, z
<1>. QED BY <1>1, <1>2, <1>3, <1>4 DEF y, w

\* After a turn, the next one is a round away.
LEMMA NextTurn ==
    ASSUME NEW m \in Nat, m > 0, NEW t \in Nat, NEW r \in Nat, NEW k \in Nat, NEW a \in Nat,
           a <= m - 1, k <= m * t + r
    PROVE  (k + 1) + a <= m * (t + 1) + r
<1> DEFINE z == m * t
<1>1. m * (t + 1) = z + m /\ z \in Nat
  BY Z3
<1> HIDE DEF z
<1>2. (k + 1) + a <= (z + m) + r
  BY <1>1 DEF z
<1>. QED BY <1>1, <1>2

-----------------------------------------------------------------------------
(* The head of the loop.                                                   *)

LEMMA PeersFinite ==
    ASSUME JoiningTypeOK, IsFiniteSet(Announcing)
    PROVE  /\ IsFiniteSet(Ids(code)) /\ IsFiniteSet(Heard) /\ IsFiniteSet(Newcomers)
           /\ Cardinality(Heard) \in Nat /\ Cardinality(Newcomers) \in Nat
<1>1. IsFiniteSet(Ids(code))
  BY IdsOf DEF JoiningTypeOK
<1>2. IsFiniteSet(Ids(code) \cup Announcing)
  BY <1>1, FS_Union
<1>3. IsFiniteSet(Heard) /\ IsFiniteSet(Newcomers)
  <2>1. Heard \subseteq Ids(code) \cup Announcing /\ Newcomers \subseteq Ids(code) \cup Announcing
    BY DEF Heard, Newcomers
  <2>. QED BY <1>2, <2>1, FS_Subset
<1>. QED BY <1>1, <1>3, FS_CardinalityType

LEMMA MetBound ==
    ASSUME JoiningTypeOK, IsFiniteSet(Announcing), NEW P, P \subseteq Heard
    PROVE  /\ IsFiniteSet(P) /\ Cardinality(P) \in Nat /\ Cardinality(P) <= Cardinality(Heard)
           /\ Cardinality(P \ Ids(code)) \in Nat
           /\ Cardinality(P \ Ids(code)) <= Cardinality(Newcomers)
<1>1. IsFiniteSet(Heard) /\ IsFiniteSet(Newcomers)
  BY PeersFinite
<1>2. IsFiniteSet(P) /\ Cardinality(P) <= Cardinality(Heard)
  BY <1>1, FS_Subset
<1>3. P \ Ids(code) \subseteq Newcomers
  BY DEF Newcomers
<1>4. /\ IsFiniteSet(P \ Ids(code))
      /\ Cardinality(P \ Ids(code)) <= Cardinality(Newcomers)
  BY <1>1, <1>3, FS_Subset
<1>. QED BY <1>2, <1>4, FS_CardinalityType

\* What the head of the loop knows of the candidates.
LEMMA LookLearns ==
    ASSUME JoiningTypeOK, Look, NEW g, Listed(g), Learned(g)
    PROVE  /\ candidates' \in Rosters /\ candidates \in Rosters
           /\ Ids(code) \ {Me} \subseteq Ids(candidates')
           /\ Ids(candidates') \subseteq Heard
           /\ Current(candidates', g)
           /\ candidates # <<>> \/ ~Fresh =>
                 candidates' = candidates \/ Met < Cardinality(Ids(candidates') \ Ids(code))
<1>1. candidates \in Rosters /\ found \in Seq(AnyAddress)
  BY DEF JoiningTypeOK, Rosters, AnyAddress
<1>2. /\ phase = "look" /\ "look" \in Busy
      /\ candidates' = FoldLeft(AddCandidate, candidates, found)
  BY DEF Look, Busy
<1>3. Added(candidates, candidates', found, Len(found))
  BY <1>1, <1>2, AllAdded
<1>4. /\ Ids(found) \subseteq Ids(code) \cup Announcing
      /\ Ids(candidates) \subseteq Heard
      /\ Current(found, g) /\ Current(candidates, g)
      /\ Fresh \/ Ids(code) \ {Me} \subseteq Ids(candidates)
  BY <1>2 DEF Learned
<1>5. candidates' \in Rosters
  BY <1>3 DEF Added
<1>6. Me \notin Ids(candidates')
  <2> DEFINE A == [id : Peer \ {Me}, current : BOOLEAN]
  <2>1. candidates' \in Seq(A)
    BY <1>5 DEF Rosters
  <2>2. \A e \in A : e.id # Me
    OBVIOUS
  <2> HIDE DEF A
  <2>3. \A i \in DOMAIN candidates' : candidates'[i].id # Me
    BY <2>1, <2>2
  <2>. QED BY <2>3 DEF Ids
<1>7. Ids(candidates') \subseteq Heard
  BY <1>3, <1>4, <1>6 DEF Added, Heard
<1>8. Ids(code) \ {Me} \subseteq Ids(candidates')
  <2>1. CASE Fresh
    <3>1. Ids(code) \subseteq Ids(found)
      BY <2>1 DEF Fresh
    <3>2. \A i \in DOMAIN found : i \in 1 .. Len(found)
      BY <1>1
    <3>3. Ids(found) \subseteq {Me} \cup Ids(candidates')
      BY <1>3, <3>2 DEF Added, Ids
    <3>. QED BY <3>1, <3>3
  <2>2. CASE Ids(code) \ {Me} \subseteq Ids(candidates)
    BY <1>3, <2>2 DEF Added
  <2>. QED BY <1>4, <2>1, <2>2
<1>9. Current(candidates', g)
  BY <1>3, <1>4 DEF Added
<1>10. ASSUME candidates # <<>> \/ ~Fresh, candidates' # candidates
       PROVE  Met < Cardinality(Ids(candidates') \ Ids(code))
  <2>1. Ids(code) \ {Me} \subseteq Ids(candidates)
    BY <1>4, <1>10 DEF Fresh
  <2>2. Ids(candidates) \subseteq Ids(candidates') /\ Ids(candidates') # Ids(candidates)
    BY <1>3, <1>10 DEF Added
  <2>3. PICK p \in Ids(candidates') : p \notin Ids(candidates)
    BY <2>2
  <2> DEFINE A == Ids(candidates) \ Ids(code)
             B == Ids(candidates') \ Ids(code)
  <2>4. A \subseteq B /\ p \in B /\ p \notin A
    BY <1>6, <2>1, <2>2, <2>3
  <2>5. IsFiniteSet(B)
    <3>1. IsFiniteSet(Ids(candidates'))
      BY <1>5, IdsOf DEF Rosters
    <3>. QED BY <3>1, FS_Difference
  <2>6. Cardinality(A) <= Cardinality(B) /\ Cardinality(A) # Cardinality(B)
        /\ Cardinality(A) \in Nat /\ Cardinality(B) \in Nat
    <3> HIDE DEF A, B
    <3>. QED BY <2>4, <2>5, FS_Subset, FS_CardinalityType
  <2>. QED BY <2>6 DEF Met
<1>. QED BY <1>1, <1>5, <1>7, <1>8, <1>9, <1>10

\* The attempts up to g's turn, on the list the head of the loop makes.
LEMMA LookWaits ==
    ASSUME JoiningTypeOK, Look, NEW g \in Peer, Listed(g), Learned(g), WaitBound(g),
           NEW j \in DOMAIN candidates', candidates'[j].id = g
    PROVE  LET m == Cardinality(Heard)
               n == Len(candidates')
               h == Cardinality(Ids(candidates') \ Ids(code))
           IN  /\ n \in Nat /\ n > 0 /\ j \in 1 .. n
               /\ m \in Nat /\ n <= m /\ h \in Nat /\ h <= Cardinality(Newcomers)
               /\ Ahead(n, j, next) \in 0 .. n - 1
               /\ next + Ahead(n, j, next) <= m * attempts[g] + (m - 1) * (h + 1)
<1> DEFINE m == Cardinality(Heard)
           n == Len(candidates')
           h == Cardinality(Ids(candidates') \ Ids(code))
           f == Met
           a == Ahead(n, j, next)
           t == attempts[g]
<1>1. /\ candidates' \in Rosters /\ candidates \in Rosters
      /\ Ids(code) \ {Me} \subseteq Ids(candidates')
      /\ Ids(candidates') \subseteq Heard
      /\ candidates # <<>> \/ ~Fresh => candidates' = candidates \/ f < h
  BY LookLearns
<1>2. n \in Nat /\ n > 0 /\ j \in 1 .. n
  BY <1>1 DEF Rosters
<1>3. m \in Nat /\ n <= m /\ h \in Nat /\ h <= Cardinality(Newcomers)
  <2>1. IsFiniteSet(Announcing)
    BY DEF Listed
  <2>2. Cardinality(Ids(candidates')) = n
    BY <1>1, IdsCount
  <2>3. m \in Nat
    BY <2>1, PeersFinite
  <2>4. /\ Cardinality(Ids(candidates')) <= m
        /\ h \in Nat /\ h <= Cardinality(Newcomers)
    BY <1>1, <2>1, MetBound
  <2>. QED BY <2>2, <2>3, <2>4
<1>4. next \in Nat /\ t \in Nat
  BY DEF JoiningTypeOK
<1>5. a \in 0 .. n - 1
  BY <1>2, <1>4, TurnComes
<1>6. phase = "look" /\ "look" \in Busy
  BY DEF Look, Busy
<1>7. CASE Fresh /\ candidates = <<>>
  <2>1. next = 0 /\ t = 0
    BY <1>7 DEF Fresh
  <2>2. a <= m - 1 /\ a \in Nat /\ m > 0
    BY <1>2, <1>3, <1>5
  <2>3. 0 + a <= m * 0 + (m - 1) * (h + 1)
    <3> HIDE DEF a, m, h
    <3>. QED BY <1>3, <2>2, FirstWait
  <2>. QED BY <1>2, <1>3, <1>5, <2>1, <2>3
<1>8. CASE ~ (Fresh /\ candidates = <<>>) /\ candidates' = candidates
  <2>1. h = f
    BY <1>8 DEF Met
  <2>2. next + a <= m * t + (m - 1) * (f + 1)
    BY <1>8 DEF WaitBound
  <2>. QED BY <1>2, <1>3, <1>5, <2>1, <2>2
<1>9. CASE ~ (Fresh /\ candidates = <<>>) /\ candidates' # candidates
  <2>1. f < h
    BY <1>1, <1>9 DEF Fresh
  <2>2. Ids(code) \ {Me} \subseteq Ids(candidates)
    BY <1>6, <1>9 DEF Learned, Fresh
  <2>3. g \in Ids(candidates)
    <3>1. g \in Ids(code) /\ g # Me
      BY DEF Listed, Ids, AddressOf
    <3>. QED BY <2>2, <3>1
  <2>4. PICK i \in DOMAIN candidates : candidates[i].id = g
    BY <2>3 DEF Ids
  <2> DEFINE b == Ahead(Len(candidates), i, next)
  <2>5. next + b <= m * t + (m - 1) * (f + 1)
    BY <2>4 DEF WaitBound
  <2>6. b \in Nat
    <3> DEFINE c == Len(candidates)
    <3>1. c \in Nat /\ c > 0 /\ i \in 1 .. c
      BY <1>1 DEF Rosters
    <3> HIDE DEF c
    <3>2. Ahead(c, i, next) \in 0 .. c - 1
      BY <1>4, <3>1, TurnComes
    <3>3. Ahead(c, i, next) \in Nat
      BY <3>1, <3>2
    <3>. QED BY <3>3 DEF c
  <2>7. f \in Nat
    <3>1. IsFiniteSet(Ids(candidates))
      BY <1>1, IdsOf DEF Rosters
    <3>2. IsFiniteSet(Ids(candidates) \ Ids(code))
      BY <3>1, FS_Difference
    <3>. QED BY <3>2, FS_CardinalityType DEF Met
  <2>8. m * t + (m - 1) * (f + 1) \in Nat /\ m > 0
    <3>1. m > 0 /\ m - 1 \in Nat /\ f + 1 \in Nat
      BY <1>2, <1>3, <2>7
    <3>2. m * t \in Nat /\ (m - 1) * (f + 1) \in Nat
      BY <1>3, <1>4, <3>1, MoreTimes
    <3>. QED BY <3>1, <3>2
  <2> DEFINE r == m * t + (m - 1) * (f + 1)
  <2>9. next <= r
    <3> HIDE DEF b, r
    <3>. QED BY <1>4, <2>5, <2>6, <2>8 DEF r
  <2>10. a \in Nat /\ a <= m - 1
    BY <1>2, <1>3, <1>5
  <2>11. next + a <= m * t + (m - 1) * (h + 1)
    <3> HIDE DEF a, m, h, t, f
    <3>. QED BY <1>3, <1>4, <2>1, <2>7, <2>8, <2>9, <2>10, WaitOfOne
  <2>. QED BY <1>2, <1>3, <1>5, <2>11
<1>. QED BY <1>7, <1>8, <1>9

\* At the head of the loop it is not too late for g's next dial.
LEMMA LookInTime ==
    ASSUME JoiningTypeOK, Look, NEW g \in Peer, Listed(g), Learned(g), WaitBound(g), TimeUsed,
           NEW k \in 0 .. 4, EnoughFor(k), attempts[g] <= k
    PROVE  Needs <= left
<1> DEFINE m == Cardinality(Heard)
           c == Cardinality(Newcomers)
           before == m * k + (m - 1) * (c + 1)
           t == attempts[g]
           h == Cardinality(Ids(candidates') \ Ids(code))
<1>1. PICK j \in DOMAIN candidates' : candidates'[j].id = g
  <2>1. Ids(code) \ {Me} \subseteq Ids(candidates')
    BY LookLearns
  <2>2. g \in Ids(code) /\ g # Me
    BY DEF Listed, Ids, AddressOf
  <2>3. g \in Ids(candidates')
    BY <2>1, <2>2
  <2>. QED BY <2>3 DEF Ids
<1> DEFINE a == Ahead(Len(candidates'), j, next)
           last == Len(candidates') - 1
<1>2. /\ m \in Nat /\ last \in Nat /\ last + 1 <= m /\ h \in Nat /\ h <= c
      /\ a \in 0 .. last
      /\ next + a <= m * t + (m - 1) * (h + 1)
  <2> DEFINE n == Len(candidates')
  <2>1. /\ n \in Nat /\ n > 0 /\ j \in 1 .. n
        /\ m \in Nat /\ n <= m /\ h \in Nat /\ h <= c
        /\ Ahead(n, j, next) \in 0 .. n - 1
        /\ next + Ahead(n, j, next) <= m * t + (m - 1) * (h + 1)
    BY <1>1, LookWaits, Zenon
  <2>2. n - 1 \in Nat /\ (n - 1) + 1 <= m
    BY <2>1
  <2>. QED BY <2>1, <2>2
<1>3. c \in Nat
  BY PeersFinite DEF Listed
<1>4. next \in Nat /\ t \in Nat /\ left \in Nat /\ Deadline \in Nat /\ Needs \in Nat
  BY JoiningAssumption DEF JoiningTypeOK
<1>5. next <= before /\ before \in Nat
  <2>1. m * t <= m * k /\ m * t \in Nat /\ m * k \in Nat
    <3>1. m \in Nat /\ t \in Nat /\ k \in Nat /\ t <= k
      BY <1>2, <1>4
    <3> HIDE DEF m, t
    <3>. QED BY <3>1, MoreTimes
  <2>2. (m - 1) * (h + 1) <= (m - 1) * (c + 1)
        /\ (m - 1) * (h + 1) \in Nat /\ (m - 1) * (c + 1) \in Nat
    <3> DEFINE w == m - 1
               x == h + 1
               y == c + 1
    <3>1. w \in Nat /\ x \in Nat /\ y \in Nat /\ x <= y
      BY <1>2, <1>3
    <3> HIDE DEF w, x, y
    <3>2. w * x <= w * y /\ w * x \in Nat /\ w * y \in Nat
      BY <3>1, MoreTimes
    <3>. QED BY <3>2 DEF w, x, y
  <2>3. a \in Nat
    BY <1>2
  <2> DEFINE p == m * t
             q == m * k
             u == (m - 1) * (h + 1)
             v == (m - 1) * (c + 1)
  <2>4. next + a <= p + u /\ before = q + v
    BY <1>2
  <2>5. p <= q /\ p \in Nat /\ q \in Nat /\ u <= v /\ u \in Nat /\ v \in Nat
    BY <2>1, <2>2
  <2> HIDE DEF p, q, u, v, a, before
  <2>. QED BY <1>4, <2>3, <2>4, <2>5
<1>6. Deadline <= left + next * AttemptBound
  BY DEF TimeUsed, Look
<1>7. Needs + before * AttemptBound <= Deadline
  BY DEF EnoughFor, AttemptBound
<1>8. AttemptBound \in Nat
  BY JoiningAssumption DEF AttemptBound
<1> HIDE DEF before
<1>. QED BY <1>4, <1>5, <1>6, <1>7, <1>8, InTime

\* Time that is used at the head of the loop.
LEMMA LookTime ==
    ASSUME JoiningTypeOK, Look, TimeUsed, phase' = "dial", next' = next + 1,
           timer' \in Nat, timer' <= ConnectTimeout
    PROVE  TimeUsed'
<1>1. next \in Nat /\ left \in Nat /\ left' = left /\ Deadline \in Nat /\ ConnectTimeout \in Nat
  BY JoiningAssumption DEF JoiningTypeOK, Look
<1>2. AttemptBound \in Nat
  BY JoiningAssumption DEF AttemptBound
<1>3. Deadline <= left + next * AttemptBound
  BY DEF TimeUsed, Look
<1>4. (next + 1) - 1 = next
  BY <1>1
<1> DEFINE x == next * AttemptBound
<1>5. x \in Nat
  BY <1>1, <1>2, MoreTimes
<1>6. ((next + 1) - 1) * AttemptBound = x
  BY <1>4
<1>7. Deadline + timer' <= left' + x + ConnectTimeout
  <2>1. Deadline <= left + x
    BY <1>3
  <2> DEFINE t == timer'
  <2>2. t \in Nat /\ t <= ConnectTimeout /\ left' = left
    BY <1>1
  <2> HIDE DEF x, t
  <2>3. Deadline + t <= left + x + ConnectTimeout
    BY <1>1, <1>5, <2>1, <2>2
  <2>. QED BY <2>2, <2>3 DEF t
<1>8. next' > 0 /\ (next' - 1) * AttemptBound = x
  BY <1>1, <1>6
<1> HIDE DEF x
<1>. QED BY <1>7, <1>8 DEF TimeUsed

LEMMA CodeKept ==
    ASSUME UNCHANGED codeVars
    PROVE  /\ \A g : Listed(g)' <=> Listed(g)
           /\ \A k : EnoughFor(k)' <=> EnoughFor(k)
           /\ Heard' = Heard /\ Ids(code)' = Ids(code)
           /\ honest' = honest /\ (Fits(share)' <=> Fits(share))
           /\ code' = code
<1>1. code' = code /\ honest' = honest /\ share' = share
  BY DEF codeVars
<1>. QED BY <1>1 DEF Listed, EnoughFor, Heard, Newcomers, Ids, Fits

\* The head of the loop dials somebody.
LEMMA LookDials ==
    ASSUME JoiningTypeOK, Look, NEW g \in Peer, Listed(g), Learned(g), WaitBound(g),
           phase' = "dial"
    PROVE  /\ WaitBound(g)'
           /\ attempts'[g] = attempts[g] \/
                 /\ attempts'[g] = attempts[g] + 1
                 /\ timer' = Limit(attempts[g])
                 /\ sure' = (timer' >= Needs)
<1> DEFINE n == Len(candidates')
           at == (next % n) + 1
           addr == candidates'[at]
           m == Cardinality(Heard)
           h == Cardinality(Ids(candidates') \ Ids(code))
           t == attempts[g]
<1>1. /\ next' = next + 1
      /\ attempts' = [attempts EXCEPT ![addr.id] = @ + 1]
      /\ timer' = Limit(attempts[addr.id])
      /\ sure' = (addr.id \in Good /\ addr.current /\ timer' >= Needs)
      /\ UNCHANGED codeVars
  BY DEF Look, Goto
<1>2. /\ candidates' \in Rosters
      /\ Ids(code) \ {Me} \subseteq Ids(candidates')
      /\ Current(candidates', g)
  BY LookLearns
<1>3. PICK j \in DOMAIN candidates' : candidates'[j].id = g
  <2>1. g \in Ids(code) /\ g # Me
    BY DEF Listed, Ids, AddressOf
  <2>2. g \in Ids(candidates')
    BY <1>2, <2>1
  <2>. QED BY <2>2 DEF Ids
<1>4. /\ n \in Nat /\ n > 0 /\ j \in 1 .. n
      /\ m \in Nat /\ n <= m /\ h \in Nat
      /\ Ahead(n, j, next) \in 0 .. n - 1
      /\ next + Ahead(n, j, next) <= m * t + (m - 1) * (h + 1)
  BY <1>3, LookWaits, Zenon
<1>5. next \in Nat /\ attempts \in [Peer -> Nat] /\ t \in Nat
  BY DEF JoiningTypeOK
<1>6. at \in 1 .. n
  BY <1>4, <1>5, TurnInRange
<1>7. /\ DOMAIN candidates' = 1 .. n
      /\ \A i, l \in 1 .. n : candidates'[i].id = candidates'[l].id => i = l
  BY <1>2 DEF Rosters
<1>8. addr.id = g <=> at = j
  <2> HIDE DEF at, n
  <2>. QED BY <1>3, <1>6, <1>7
<1>9. attempts'[g] = IF addr.id = g THEN t + 1 ELSE t
  <2> HIDE DEF addr
  <2>. QED BY <1>1, <1>5
<1>10. ASSUME addr.id = g PROVE addr.id \in Good /\ addr.current
  <2>1. at \in DOMAIN candidates'
    BY <1>6, <1>7
  <2> HIDE DEF at
  <2>. QED BY <1>2, <1>10, <2>1 DEF Current, Listed
<1>11. \/ attempts'[g] = t
       \/ attempts'[g] = t + 1 /\ timer' = Limit(t) /\ sure' = (timer' >= Needs)
  <2> HIDE DEF addr
  <2>1. CASE addr.id = g
    BY <1>1, <1>9, <1>10, <2>1
  <2>2. CASE addr.id # g
    BY <1>9, <2>2
  <2>. QED BY <2>1, <2>2
<1>12. WaitBound(g)'
  <2> DEFINE a == Ahead(n, j, next)
             b == Ahead(n, j, next + 1)
             r == (m - 1) * (h + 1)
             u == attempts'[g]
  <2>1. a \in 0 .. n - 1 /\ b \in 0 .. n - 1 /\ (a = 0 <=> at = j) /\ (a > 0 => b = a - 1)
    <3> HIDE DEF n
    <3>1. n \in Nat /\ n > 0 /\ j \in 1 .. n /\ next \in Nat
      BY <1>4, <1>5
    <3> HIDE DEF a, b, at
    <3>. QED BY <3>1, TurnComes, Zenon DEF a, b, at
  <2>2. next + a <= m * t + r
    BY <1>4
  <2>3. r \in Nat /\ m > 0
    <3>1. m - 1 \in Nat /\ h + 1 \in Nat /\ m > 0
      BY <1>4
    <3> HIDE DEF m, h
    <3>. QED BY <3>1, MoreTimes
  <2>4. u = IF a = 0 THEN t + 1 ELSE t
    <3> HIDE DEF a, at, t, u, addr
    <3>. QED BY <1>8, <1>9, <2>1 DEF u
  <2>5. (next + 1) + b <= m * u + r
    <3>1. CASE a = 0
      <4>1. b \in Nat /\ b <= m - 1
        BY <1>4, <2>1
      <4>2. next <= m * t + r /\ u = t + 1
        BY <1>5, <2>2, <2>4, <3>1
      <4> HIDE DEF m, t, r, b, u
      <4>. QED BY <1>4, <1>5, <2>3, <4>1, <4>2, NextTurn
    <3>2. CASE a # 0
      <4>1. (next + 1) + b = next + a /\ u = t
        <5>1. a > 0 /\ a \in Nat /\ b = a - 1
          BY <2>1, <3>2
        <5> HIDE DEF a, b, u, t
        <5>. QED BY <1>5, <2>4, <5>1
      <4> HIDE DEF m, t, r, b, u, a
      <4>. QED BY <2>2, <4>1
    <3>. QED BY <3>1, <3>2
  <2>6. Met' = h /\ Cardinality(Heard)' = m /\ next' = next + 1
    <3>1. Heard' = Heard /\ Ids(code)' = Ids(code)
      BY <1>1, CodeKept
    <3>2. Ids(candidates)' = Ids(candidates')
      BY DEF Ids
    <3>. QED BY <1>1, <3>1, <3>2 DEF Met
  <2>7. ASSUME NEW i \in DOMAIN candidates', candidates'[i].id = g PROVE i = j
    BY <1>3, <1>7, <2>7
  <2> HIDE DEF m, h, n
  <2>. QED BY <2>5, <2>6, <2>7 DEF WaitBound, n
<1>. QED BY <1>11, <1>12

LEMMA LookSearch ==
    ASSUME JoiningInv, SearchInv, Look
    PROVE  SearchInv'
<1>1. /\ JoiningTypeOK /\ JoiningTypeOK'
      /\ left \in Nat /\ Deadline \in Nat /\ ConnectTimeout \in Nat /\ Needs \in Nat \ {0}
  <2>1. JoiningTypeOK /\ JoiningTypeOK'
    BY LookInv DEF JoiningInv
  <2>2. Deadline \in Nat /\ ConnectTimeout \in Nat /\ Needs \in Nat \ {0}
    BY JoiningAssumption
  <2>3. left \in Nat
    BY <2>1, <2>2 DEF JoiningTypeOK
  <2>. QED BY <2>1, <2>2, <2>3
<1>2. phase = "look" /\ found' = <<>> /\ UNCHANGED <<codeVars, left, stalled>>
  BY DEF Look
<1>3. \/ candidates' = <<>> /\ phase' = "empty"
      \/ candidates' # <<>> /\ left = 0 /\ phase' = "failed"
      \/ candidates' # <<>> /\ left > 0 /\ phase' = "dial" /\ next' = next + 1
         /\ timer' = Limit(attempts[target'.id]) /\ (sure' => target'.id \in Good)
  BY DEF Look, Goto
<1>4. phase' = "dial" /\ sure' => target'.id \in Good
  BY <1>3
<1>5. ASSUME NEW g \in Peer, Listed(g)' PROVE InSearch(g)'
  <2>1. Listed(g) /\ Learned(g)
    BY <1>2, <1>5, CodeKept DEF SearchInv, InSearch
  <2>2. /\ candidates' \in Rosters
        /\ Ids(code) \ {Me} \subseteq Ids(candidates')
        /\ Ids(candidates') \subseteq Heard
        /\ Current(candidates', g)
    BY <1>1, <2>1, LookLearns
  <2>3. candidates' # <<>>
    <3>1. g \in Ids(code) /\ g # Me
      BY <2>1 DEF Listed, Ids, AddressOf
    <3>2. g \in Ids(candidates')
      BY <2>2, <3>1
    <3>. QED BY <3>2 DEF Ids
  <2>4. Learned(g)'
    <3>1. phase' # "empty"
      BY <1>3, <2>3
    <3>2. Ids(found)' = {} /\ Current(found, g)'
      <4>1. found' = <<>> /\ DOMAIN <<>> = {}
        BY <1>2
      <4>. QED BY <4>1 DEF Ids, Current
    <3>3. Ids(candidates)' \subseteq Heard' /\ Current(candidates, g)'
          /\ Ids(code)' \ {Me} \subseteq Ids(candidates)'
      <4>1. Heard' = Heard /\ Ids(code)' = Ids(code)
        BY <1>2, CodeKept
      <4>2. Ids(candidates)' = Ids(candidates') /\ (Current(candidates, g)' <=> Current(candidates', g))
        BY DEF Ids, Current
      <4>. QED BY <2>2, <4>1, <4>2
    <3>. QED BY <3>1, <3>2, <3>3 DEF Learned
  <2>5. ASSUME ~ stalled
        PROVE  /\ phase' \in Busy => TimeUsed' /\ WaitBound(g)'
               /\ \A k \in 0 .. 4 : EnoughFor(k) /\ honest /\ Fits(share) => Reached(g, k)'
    <3>1. TimeUsed /\ WaitBound(g)
      BY <1>2, <2>1, <2>5 DEF SearchInv, InSearch, Busy
    <3>2. ASSUME NEW k \in 0 .. 4, EnoughFor(k), honest, Fits(share)
          PROVE  attempts[g] <= k /\ Needs <= left
      <4>1. Reached(g, k)
        BY <2>1, <2>5, <3>2 DEF SearchInv, InSearch
      <4>2. attempts[g] <= k
        BY <1>2, <4>1 DEF Reached
      <4>. QED BY <1>1, <2>1, <3>1, <3>2, <4>2, LookInTime
    <3>3. CASE left = 0
      <4>1. phase' = "failed" /\ phase' \notin Busy
        BY <1>3, <2>3, <3>3 DEF Busy
      <4>2. \A k \in 0 .. 4 : ~ (EnoughFor(k) /\ honest /\ Fits(share))
        BY <1>1, <3>2, <3>3
      <4>. QED BY <4>1, <4>2
    <3>4. CASE left > 0
      <4>1. phase' = "dial" /\ next' = next + 1
        BY <1>3, <2>3, <3>4
      <4>2. timer' \in Nat /\ timer' <= ConnectTimeout
        <5> DEFINE t == attempts[target'.id]
        <5>1. timer' = Limit(t)
          BY <1>3, <2>3, <3>4
        <5>2. t \in Nat
          BY <1>1 DEF JoiningTypeOK
        <5> HIDE DEF t
        <5>3. Limit(t) \in Nat /\ Limit(t) <= ConnectTimeout
          BY <1>1, <5>2, LimitBound
        <5>. QED BY <5>1, <5>3
      <4>3. TimeUsed'
        BY <1>1, <3>1, <4>1, <4>2, LookTime
      <4>4. /\ WaitBound(g)'
            /\ attempts'[g] = attempts[g] \/
                  /\ attempts'[g] = attempts[g] + 1
                  /\ timer' = Limit(attempts[g])
                  /\ sure' = (timer' >= Needs)
        BY <1>1, <2>1, <3>1, <4>1, LookDials
      <4>5. ASSUME NEW k \in 0 .. 4, EnoughFor(k), honest, Fits(share)
            PROVE  Reached(g, k)'
        <5>1. attempts[g] <= k /\ Needs <= left
          BY <3>2, <4>5
        <5>2. attempts[g] \in Nat /\ attempts'[g] \in Nat
          <6>1. attempts[g] \in Nat
            BY <1>1 DEF JoiningTypeOK
          <6>. QED BY <4>4, <6>1
        <5>3. attempts'[g] <= k \/ sure'
          <6> SUFFICES ASSUME attempts'[g] > k PROVE sure'
            BY <5>2
          <6>1. attempts[g] = k /\ attempts'[g] = attempts[g] + 1
            BY <4>4, <5>1, <5>2
          <6>2. timer' = Limit(k) /\ sure' = (timer' >= Needs)
            BY <4>4, <5>2, <6>1
          <6>3. Limit(k) \in {Longest(k), left} /\ k \in Nat
            BY <1>1, LimitBound
          <6>4. Needs <= Longest(k)
            BY <4>5 DEF EnoughFor
          <6>5. timer' >= Needs
            <7>1. Longest(k) \in Nat
              BY <6>3, LongestBound
            <7> DEFINE l == Longest(k)
            <7>2. (timer' = l \/ timer' = left) /\ Needs <= l /\ l \in Nat
              BY <6>2, <6>3, <6>4, <7>1
            <7> HIDE DEF l
            <7>. QED BY <1>1, <5>1, <7>2
          <6>. QED BY <6>2, <6>5
        <5>. QED BY <4>1, <5>3 DEF Reached
      <4>. QED BY <4>3, <4>4, <4>5
    <3>. QED BY <1>1, <3>3, <3>4
  <2>6. \A k : (EnoughFor(k)' <=> EnoughFor(k)) /\ honest' = honest /\ (Fits(share)' <=> Fits(share))
    BY <1>2, CodeKept
  <2>. QED BY <1>2, <2>4, <2>5, <2>6 DEF InSearch
<1>. QED BY <1>4, <1>5 DEF SearchInv

-----------------------------------------------------------------------------
(* The other steps.                                                        *)

\* What is shared is what a downloader accepts.
LEMMA SharesValid ==
    ASSUME NEW m \in Shares
    PROVE  Validate(m)
<1>1. PICK f \in Folder : Shareable(RootName, f) /\ m = FromDisk(RootName, f)
  BY DEF Shares
<1>2. f \subseteq Seq(Name) /\ RootName \in Name
  BY <1>1, JoiningAssumption
<1> DEFINE at(p) == <<RootName>> \o p
<1>3. ASSUME NEW p \in f
      PROVE  /\ Len(p) \in Nat /\ DOMAIN p = 1 .. Len(p) /\ DOMAIN at(p) = 1 .. Len(p) + 1
             /\ at(p)[1] = RootName /\ \A i \in 1 .. Len(p) : at(p)[i + 1] = p[i]
             /\ \A i \in 1 .. Len(p) + 1 : i = 1 \/ (i - 1 \in 1 .. Len(p) /\ at(p)[i] = p[i - 1])
  <2> DEFINE s == <<RootName>>
             n == Len(p)
             t == s \o p
  <2>1. p \in Seq(Name) /\ s \in Seq(Name) /\ Len(s) = 1 /\ s[1] = RootName
    BY <1>2
  <2>2. n \in Nat /\ DOMAIN p = 1 .. n
    BY <2>1
  <2> HIDE DEF s
  <2>3. /\ t \in Seq(Name) /\ Len(t) = Len(s) + n
        /\ \A i \in 1 .. Len(s) + n : t[i] = IF i <= Len(s) THEN s[i] ELSE p[i - Len(s)]
    <3> HIDE DEF n
    <3>1. p \in Seq(Name) /\ s \in Seq(Name)
      BY <2>1
    <3>. QED BY <3>1, ConcatProperties, Zenon DEF n
  <2> HIDE DEF n, t
  <2>4. DOMAIN t = 1 .. n + 1
    BY <2>1, <2>2, <2>3
  <2>5. t[1] = RootName
    BY <2>1, <2>2, <2>3
  <2>6. ASSUME NEW i \in 1 .. n PROVE t[i + 1] = p[i]
    <3>1. i + 1 \in 1 .. Len(s) + n /\ ~ (i + 1 <= Len(s)) /\ (i + 1) - Len(s) = i
      BY <2>1, <2>2
    <3>. QED BY <2>3, <3>1
  <2>7. \A i \in 1 .. n + 1 : i = 1 \/ (i - 1 \in 1 .. n /\ t[i] = p[i - 1])
    BY <2>1, <2>2, <2>3
  <2>. QED BY <2>2, <2>4, <2>5, <2>6, <2>7 DEF n, t, s
<1>4. m.name = RootName /\ m.paths = {at(p) : p \in f}
  BY <1>1 DEF FromDisk
<1>5. \A p \in f : at(p) # <<>> /\ at(p)[1] = RootName
  <2>1. ASSUME NEW p \in f PROVE 1 \in DOMAIN at(p) /\ at(p)[1] = RootName
    BY <1>3
  <2>2. \A s : 1 \in DOMAIN s => s # <<>>
    OBVIOUS
  <2>. QED BY <2>1, <2>2
<1>6. ASSUME NEW p \in f PROVE Names(at(p)) \cap BadName = {}
  <2> DEFINE s == at(p)
  <2>1. Names(p) \cap BadName = {} /\ RootName \notin BadName
    BY <1>1 DEF Shareable
  <2>2. \A i \in 1 .. Len(p) : p[i] \notin BadName
    BY <1>3, <2>1 DEF Names
  <2>3. /\ DOMAIN s = 1 .. Len(p) + 1 /\ s[1] = RootName
        /\ \A i \in 1 .. Len(p) + 1 : i = 1 \/ (i - 1 \in 1 .. Len(p) /\ s[i] = p[i - 1])
    BY <1>3
  <2> HIDE DEF s
  <2>4. \A i \in DOMAIN s : s[i] \notin BadName
    BY <2>1, <2>2, <2>3
  <2>5. Names(s) \cap BadName = {}
    BY <2>4 DEF Names
  <2>. QED BY <2>5 DEF s
<1>7. ASSUME NEW p \in f, NEW q \in f, Lower(at(p)) = Lower(at(q)) PROVE p = q
  <2> DEFINE s == at(p)
             r == at(q)
  <2>1. /\ Len(p) \in Nat /\ DOMAIN p = 1 .. Len(p) /\ DOMAIN s = 1 .. Len(p) + 1
        /\ \A i \in 1 .. Len(p) : s[i + 1] = p[i]
    BY <1>3
  <2>2. /\ Len(q) \in Nat /\ DOMAIN q = 1 .. Len(q) /\ DOMAIN r = 1 .. Len(q) + 1
        /\ \A i \in 1 .. Len(q) : r[i + 1] = q[i]
    BY <1>3
  <2>3. Lower(s) = Lower(r)
    BY <1>7
  <2> HIDE DEF s, r
  <2>4. DOMAIN s = DOMAIN r /\ \A i \in DOMAIN s : Fold[s[i]] = Fold[r[i]]
    <3>1. DOMAIN Lower(s) = DOMAIN s /\ DOMAIN Lower(r) = DOMAIN r
      BY DEF Lower
    <3>2. \A i \in DOMAIN s : Lower(s)[i] = Fold[s[i]]
      BY DEF Lower
    <3>3. \A i \in DOMAIN r : Lower(r)[i] = Fold[r[i]]
      BY DEF Lower
    <3>. QED BY <2>3, <3>1, <3>2, <3>3
  <2>5. Len(p) = Len(q)
    <3> DEFINE a == Len(p) + 1
               b == Len(q) + 1
    <3>1. 1 .. a = 1 .. b /\ a \in Nat /\ b \in Nat /\ a > 0 /\ b > 0
      BY <2>1, <2>2, <2>4
    <3>2. a \in 1 .. b /\ b \in 1 .. a
      BY <3>1
    <3>3. a = b
      BY <3>2
    <3>4. Len(p) = a - 1 /\ Len(q) = b - 1
      BY <2>1, <2>2
    <3> HIDE DEF a, b
    <3>. QED BY <3>3, <3>4
  <2>6. \A i \in 1 .. Len(p) : Fold[p[i]] = Fold[q[i]]
    <3>1. \A i \in 1 .. Len(p) : i + 1 \in 1 .. Len(p) + 1
      BY <2>1
    <3>. QED BY <2>1, <2>2, <2>4, <2>5, <3>1
  <2>7. Lower(p) = Lower(q)
    <3>1. Lower(p) = [i \in 1 .. Len(p) |-> Fold[p[i]]] /\ Lower(q) = [i \in 1 .. Len(p) |-> Fold[q[i]]]
      BY <2>1, <2>2, <2>5 DEF Lower
    <3> DEFINE F(i) == Fold[p[i]]
               G(i) == Fold[q[i]]
    <3>2. Lower(p) = [i \in 1 .. Len(p) |-> F(i)] /\ Lower(q) = [i \in 1 .. Len(p) |-> G(i)]
      BY <3>1
    <3>3. \A i \in 1 .. Len(p) : F(i) = G(i)
      BY <2>6
    <3> HIDE DEF F, G
    <3>. QED BY <3>2, <3>3
  <2>. QED BY <1>1, <2>7 DEF Shareable, Distinct
<1>8. Distinct(m.paths)
  <2> HIDE DEF at
  <2>. QED BY <1>4, <1>7 DEF Distinct
<1> HIDE DEF at
<1>. QED BY <1>4, <1>5, <1>6, <1>8 DEF Validate

\* Steps that end the task, and steps while nobody is known.
LEMMA EndedSearch ==
    ASSUME SearchInv, UNCHANGED codeVars,
           (phase = "empty" /\ phase' # "dial") \/ phase' \in {"found", "cancelled"}
    PROVE  SearchInv'
<1>1. phase' # "dial"
  OBVIOUS
<1>2. ASSUME NEW g \in Peer, Listed(g)' PROVE InSearch(g)'
  <2>1. InSearch(g)
    BY <1>2, CodeKept DEF SearchInv
  <2>2. phase # "empty"
    BY <2>1 DEF InSearch, Learned
  <2>3. phase' \in {"found", "cancelled"} /\ phase' \notin Busy
    BY <2>2 DEF Busy
  <2>. QED BY <2>3 DEF InSearch, Learned, Reached
<1>. QED BY <1>1, <1>2 DEF SearchInv

\* Steps that leave the candidates and their attempts alone.
MayHear(channel, g) ==
    /\ Ids(found) \subseteq Ids(channel)
    /\ Ids(channel) \subseteq Ids(code) \cup Announcing
    /\ Current(found, g) => Current(channel, g)

LEMMA QuietSearch ==
    ASSUME SearchInv, UNCHANGED <<codeVars, candidates, next, attempts, target, sure>>,
           phase \in Busy, phase' \in Busy,
           phase = "look" => UNCHANGED <<phase, left>>,
           phase' = "dial" => phase = "dial",
           stalled => stalled',
           TimeUsed => stalled' \/ TimeUsed',
           \A g \in Peer : Listed(g) => found' = found \/ MayHear(found', g),
           honest /\ Fits(share) =>
               \A g \in Peer, k \in 0 .. 4 : Reached(g, k) => stalled' \/ Reached(g, k)'
    PROVE  SearchInv'
<1>1. phase' = "dial" /\ sure' => target'.id \in Good
  BY DEF SearchInv
<1>2. ASSUME NEW g \in Peer, Listed(g)' PROVE InSearch(g)'
  <2>1. Listed(g) /\ InSearch(g)
    BY <1>2, CodeKept DEF SearchInv
  <2>2. /\ Heard' = Heard /\ Ids(code)' = Ids(code) /\ code' = code
        /\ honest' = honest /\ (Fits(share)' <=> Fits(share))
        /\ \A k : EnoughFor(k)' <=> EnoughFor(k)
    BY CodeKept
  <2>3. Ids(candidates)' = Ids(candidates) /\ (Current(candidates, g)' <=> Current(candidates, g))
    BY DEF Ids, Current
  <2>4. Ids(found)' = Ids(found') /\ (Current(found, g)' <=> Current(found', g))
    BY DEF Ids, Current
  <2>5. Learned(g)'
    <3>1. /\ Ids(found) \subseteq Ids(code) \cup Announcing
          /\ Ids(candidates) \subseteq Heard
          /\ Current(found, g) /\ Current(candidates, g)
          /\ Fresh \/ Ids(code) \ {Me} \subseteq Ids(candidates)
      BY <2>1 DEF InSearch, Learned
    <3>2. /\ Ids(found) \subseteq Ids(found')
          /\ Ids(found') \subseteq Ids(code) \cup Announcing
          /\ Current(found', g)
      BY <2>1, <3>1 DEF MayHear
    <3>3. ASSUME Fresh PROVE Fresh'
      BY <2>2, <2>4, <3>2, <3>3 DEF Fresh
    <3>4. phase' # "empty"
      BY DEF Busy
    <3>. QED BY <2>2, <2>3, <2>4, <3>1, <3>2, <3>3, <3>4 DEF Learned
  <2>6. WaitBound(g) => WaitBound(g)'
    <3>1. Met' = Met
      BY <2>2, <2>3 DEF Met
    <3>. QED BY <2>2, <3>1 DEF WaitBound
  <2>7. ASSUME ~ stalled' PROVE TimeUsed' /\ WaitBound(g)'
    BY <2>1, <2>6, <2>7 DEF InSearch
  <2>8. ASSUME ~ stalled', NEW k \in 0 .. 4, EnoughFor(k), honest, Fits(share)
        PROVE  Reached(g, k)'
    BY <2>1, <2>8 DEF InSearch
  <2>. QED BY <2>2, <2>5, <2>7, <2>8 DEF InSearch
<1>. QED BY <1>1, <1>2 DEF SearchInv

\* Time that is used while the task waits.
LEMMA WaitTime ==
    ASSUME JoiningTypeOK, TimeUsed, next' = next, left' = left
    PROVE  /\ phase = "dial" /\ phase' = "ask" => TimeUsed'
           /\ phase \in {"dial", "ask"} /\ Rest => TimeUsed'
           /\ phase = "pause" /\ timer = 0 /\ phase' = "look" => TimeUsed'
<1> DEFINE x == (next - 1) * AttemptBound
           y == next * AttemptBound
<1>1. /\ next \in Nat /\ left \in Nat /\ timer \in Nat
      /\ Deadline \in Nat /\ ConnectTimeout \in Nat /\ Breath \in Nat
  BY JoiningAssumption DEF JoiningTypeOK
<1>2. AttemptBound = ConnectTimeout + Breath /\ AttemptBound \in Nat
  BY <1>1 DEF AttemptBound
<1>3. next > 0 => x \in Nat /\ y = x + AttemptBound
  <2>1. ASSUME NEW a \in Nat, NEW b \in Nat, a > 0
        PROVE  (a - 1) * b \in Nat /\ a * b = (a - 1) * b + b
    <3>1. a - 1 \in Nat
      BY <2>1
    <3>2. (a - 1) * b \in Nat
      BY <3>1, MoreTimes
    <3>3. a * b = (a - 1) * b + b
      BY Z3
    <3>. QED BY <3>2, <3>3
  <2>. QED BY <1>1, <1>2, <2>1
<1>4. /\ phase = "dial" => next > 0 /\ Deadline + timer <= left + x + ConnectTimeout
      /\ phase = "ask" => next > 0 /\ Deadline <= left + x + ConnectTimeout
      /\ phase = "pause" => next > 0 /\ Deadline + timer <= left + y
  BY DEF TimeUsed
<1>5. /\ TimeUsed' <=> /\ phase' = "look" => Deadline <= left + y
                       /\ phase' = "dial" =>
                             next > 0 /\ Deadline + timer' <= left + x + ConnectTimeout
                       /\ phase' = "ask" => next > 0 /\ Deadline <= left + x + ConnectTimeout
                       /\ phase' = "pause" => next > 0 /\ Deadline + timer' <= left + y
  BY DEF TimeUsed
<1> HIDE DEF x, y
<1>6. ASSUME phase = "dial", phase' = "ask" PROVE TimeUsed'
  BY <1>1, <1>3, <1>4, <1>5, <1>6
<1>7. ASSUME phase \in {"dial", "ask"}, Rest PROVE TimeUsed'
  <2> DEFINE r == Min({Breath, left})
  <2>1. phase' = "pause" /\ timer' = r
    BY <1>7 DEF Rest, Goto
  <2>2. r \in Nat /\ r <= Breath
    <3>1. r \in {Breath, left} /\ r <= Breath
      BY <1>1, MinOfTwo
    <3> HIDE DEF r
    <3>. QED BY <1>1, <3>1
  <2> HIDE DEF r
  <2>3. next > 0 /\ Deadline <= left + x + ConnectTimeout
    BY <1>1, <1>3, <1>4, <1>7
  <2>4. Deadline + r <= left + y
    BY <1>1, <1>2, <1>3, <2>2, <2>3
  <2>. QED BY <1>5, <2>1, <2>3, <2>4
<1>8. ASSUME phase = "pause", timer = 0, phase' = "look" PROVE TimeUsed'
  BY <1>1, <1>4, <1>5, <1>8
<1>. QED BY <1>6, <1>7, <1>8

LEMMA TickTime ==
    ASSUME JoiningTypeOK, TimeUsed, Tick, phase \in Busy, phase # "ask"
    PROVE  TimeUsed'
<1> DEFINE x == (next - 1) * AttemptBound
           y == next * AttemptBound
<1>1. /\ next \in Nat /\ left \in Nat /\ timer \in Nat
      /\ Deadline \in Nat /\ ConnectTimeout \in Nat /\ Breath \in Nat
  BY JoiningAssumption DEF JoiningTypeOK
<1>2. AttemptBound \in Nat
  BY <1>1 DEF AttemptBound
<1>3. /\ phase \in {"dial", "pause"} /\ timer > 0 /\ phase' = phase /\ next' = next
      /\ left' = (IF left = 0 THEN 0 ELSE left - 1)
      /\ timer' = (IF timer = 0 THEN 0 ELSE timer - 1)
  BY <1>1, MaxOfZero DEF Tick, Busy
<1>4. next > 0 => x \in Nat /\ y \in Nat
  <2>1. next > 0 => next - 1 \in Nat
    BY <1>1
  <2>2. y \in Nat
    BY <1>1, <1>2, MoreTimes
  <2>3. next - 1 \in Nat => x \in Nat
    BY <1>2, MoreTimes
  <2>. QED BY <2>1, <2>2, <2>3
<1>5. /\ phase = "dial" => next > 0 /\ Deadline + timer <= left + x + ConnectTimeout
      /\ phase = "pause" => next > 0 /\ Deadline + timer <= left + y
  BY DEF TimeUsed
<1>6. /\ phase = "dial" /\ next > 0 /\ Deadline + timer' <= left' + x + ConnectTimeout => TimeUsed'
      /\ phase = "pause" /\ next > 0 /\ Deadline + timer' <= left' + y => TimeUsed'
  BY <1>3 DEF TimeUsed
<1> HIDE DEF x, y
<1>7. CASE phase = "dial"
  <2>1. Deadline + timer' <= left' + x + ConnectTimeout
    BY <1>1, <1>3, <1>4, <1>5, <1>7
  <2>. QED BY <1>5, <1>6, <1>7, <2>1
<1>8. CASE phase = "pause"
  <2>1. Deadline + timer' <= left' + y
    BY <1>1, <1>3, <1>4, <1>5, <1>8
  <2>. QED BY <1>5, <1>6, <1>8, <2>1
<1>. QED BY <1>3, <1>7, <1>8

LEMMA AnnounceSearch ==
    ASSUME JoiningTypeOK, SearchInv, NEW p \in Announcing, Announce(p), phase \in Busy
    PROVE  SearchInv'
<1> DEFINE e == AddressOf(p, TRUE)
<1>1. found \in Seq(AnyAddress) /\ e \in AnyAddress /\ e.id = p /\ e.current
  BY JoiningAssumption DEF JoiningTypeOK, AnyAddress, AddressOf
<1>2. found' = found \/ found' = Append(found, e)
  BY DEF Announce, TrySend
<1> HIDE DEF e
<1>3. ASSUME NEW g \in Peer, Listed(g) PROVE found' = found \/ MayHear(found', g)
  <2> SUFFICES ASSUME found' = Append(found, e) PROVE MayHear(found', g)
    BY <1>2
  <2>1. Ids(found') = Ids(found) \cup {p}
    BY <1>1, IdsOf
  <2>2. Ids(found) \subseteq Ids(code) \cup Announcing
    BY <1>3 DEF SearchInv, InSearch, Learned
  <2>3. ASSUME Current(found, g) PROVE Current(found', g)
    <3>1. \A i \in DOMAIN Append(found, e) :
             \/ i \in DOMAIN found /\ Append(found, e)[i] = found[i]
             \/ Append(found, e)[i] = e
      BY <1>1
    <3>. QED BY <1>1, <2>3, <3>1 DEF Current
  <2>. QED BY <2>1, <2>2, <2>3 DEF MayHear
<1>4. /\ UNCHANGED <<codeVars, phase, candidates, next, attempts, target, sure, timer, left,
                     stalled>>
  BY DEF Announce
<1>5. TimeUsed => TimeUsed'
  BY <1>4 DEF TimeUsed
<1>6. \A g \in Peer, k \in 0 .. 4 : Reached(g, k) => Reached(g, k)'
  BY <1>4 DEF Reached
<1>. QED BY <1>3, <1>4, <1>5, <1>6, QuietSearch

LEMMA SearchNext == JoiningInv /\ SearchInv /\ [JoiningNext]_vars => SearchInv'
<1> SUFFICES ASSUME JoiningInv, SearchInv, [JoiningNext]_vars PROVE SearchInv'
  OBVIOUS
<1>1. JoiningTypeOK /\ timer \in Nat
  BY DEF JoiningInv, JoiningTypeOK
<1>2. /\ \A q \in {"dial", "ask", "pause", "look"} : q \in Busy
      /\ \A q \in Phase : q \in Busy \/ q = "empty" \/ q \in Final
      /\ phase \in Phase
  BY <1>1 DEF Busy, Phase, JoiningTypeOK
<1>3. CASE Look
  BY <1>3, LookSearch
<1>4. CASE Hear
  BY <1>4, EndedSearch DEF Hear, Goto
<1>5. CASE GiveUp
  BY <1>5, EndedSearch DEF GiveUp, Goto
<1>6. CASE Connected
  <2>1. /\ phase = "dial" /\ phase' = "ask"
        /\ UNCHANGED <<codeVars, found, candidates, next, attempts, target, sure, left, stalled>>
    BY <1>6 DEF Connected, Goto
  <2>2. TimeUsed => TimeUsed'
    BY <1>1, <2>1, WaitTime
  <2>3. \A g \in Peer, k \in 0 .. 4 : Reached(g, k) => Reached(g, k)'
    BY <2>1 DEF Reached, SearchInv
  <2>. QED BY <1>2, <2>1, <2>2, <2>3, QuietSearch
<1>7. CASE DialFails
  <2>1. /\ phase = "dial" /\ phase' = "pause" /\ ~ sure /\ Rest
        /\ UNCHANGED <<codeVars, found, candidates, next, attempts, target, sure, left, stalled>>
    BY <1>7 DEF DialFails, Rest, Goto
  <2>2. TimeUsed => TimeUsed'
    BY <1>1, <2>1, WaitTime
  <2>3. \A g \in Peer, k \in 0 .. 4 : Reached(g, k) => Reached(g, k)'
    BY <2>1 DEF Reached
  <2>. QED BY <1>2, <2>1, <2>2, <2>3, QuietSearch
<1>8. CASE Received
  BY <1>8, EndedSearch DEF Received, Goto
<1>9. CASE NotReceived
  <2>1. /\ phase = "ask" /\ phase' = "pause" /\ Rest
        /\ target.id \in Good => ~ Acceptable
        /\ UNCHANGED <<codeVars, found, candidates, next, attempts, target, sure, left, stalled>>
    BY <1>9 DEF NotReceived, Rest, Goto
  <2>2. TimeUsed => TimeUsed'
    BY <1>1, <2>1, WaitTime
  <2>3. Validate(share)
    BY <1>1, SharesValid DEF JoiningTypeOK
  <2>4. honest /\ Fits(share) =>
           \A g \in Peer, k \in 0 .. 4 : Reached(g, k) => Reached(g, k)'
    BY <2>1, <2>3 DEF Reached, Acceptable
  <2>. QED BY <1>2, <2>1, <2>2, <2>4, QuietSearch
<1>10. CASE Rested
  <2>1. /\ phase = "pause" /\ phase' = "look" /\ timer = 0
        /\ UNCHANGED <<codeVars, found, candidates, next, attempts, target, sure, left, stalled>>
    BY <1>10 DEF Rested, Goto
  <2>2. TimeUsed => TimeUsed'
    BY <1>1, <2>1, WaitTime
  <2>3. \A g \in Peer, k \in 0 .. 4 : Reached(g, k) => Reached(g, k)'
    BY <2>1 DEF Reached
  <2>. QED BY <1>2, <2>1, <2>2, <2>3, QuietSearch
<1>11. CASE Cancel
  BY <1>11, EndedSearch DEF Cancel, Goto
<1>12. CASE Tick
  <2>1. /\ UNCHANGED <<codeVars, phase, found, candidates, next, attempts, target, sure>>
        /\ stalled' = (stalled \/ phase = "ask")
        /\ phase \in {"dial", "ask", "pause", "empty"}
    BY <1>12 DEF Tick
  <2>2. CASE phase = "empty"
    BY <2>1, <2>2, EndedSearch
  <2>3. CASE phase # "empty"
    <3>1. phase \in Busy /\ phase' \in Busy /\ phase # "look"
      BY <1>2, <2>1, <2>3
    <3>2. TimeUsed => stalled' \/ TimeUsed'
      <4>1. CASE phase = "ask"
        BY <2>1, <4>1
      <4>2. CASE phase # "ask"
        BY <1>1, <1>12, <3>1, <4>2, TickTime
      <4>. QED BY <4>1, <4>2
    <3>3. \A g \in Peer, k \in 0 .. 4 : Reached(g, k) => Reached(g, k)'
      BY <2>1 DEF Reached
    <3>4. stalled => stalled'
      BY <2>1
    <3>. QED BY <2>1, <3>1, <3>2, <3>3, <3>4, QuietSearch
  <2>. QED BY <2>2, <2>3
<1>13. ASSUME NEW p \in Announcing, Announce(p) PROVE SearchInv'
  <2>1. phase \notin Final /\ UNCHANGED <<codeVars, phase>>
    BY <1>13 DEF Announce
  <2>2. CASE phase = "empty"
    BY <2>1, <2>2, EndedSearch
  <2>3. CASE phase \in Busy
    BY <1>1, <1>13, <2>3, AnnounceSearch
  <2>. QED BY <1>2, <2>1, <2>2, <2>3
<1>14. CASE UNCHANGED vars
  <2>1. UNCHANGED <<codeVars, phase, found, candidates, next, attempts, target, sure, timer, left,
                    stalled>>
    BY <1>14 DEF vars
  <2>2. TimeUsed => TimeUsed'
    BY <2>1 DEF TimeUsed
  <2>3. \A g, k : Reached(g, k) => Reached(g, k)'
    BY <2>1 DEF Reached
  <2>4. CASE phase \in Busy
    BY <2>1, <2>2, <2>3, <2>4, QuietSearch
  <2>5. CASE phase = "empty"
    BY <2>1, <2>5, EndedSearch
  <2>6. CASE phase \in Final
    <3>1. phase' \in Final /\ phase' \notin Busy /\ phase' # "dial" /\ phase' # "empty"
      BY <2>1, <2>6 DEF Final, Busy
    <3>2. ASSUME NEW g \in Peer, Listed(g)' PROVE InSearch(g)'
      <4>1. InSearch(g)
        BY <2>1, <3>2, CodeKept DEF SearchInv
      <4>2. /\ honest' = honest /\ (Fits(share)' <=> Fits(share))
            /\ \A k : EnoughFor(k)' <=> EnoughFor(k)
        BY <2>1, CodeKept
      <4>. QED BY <2>1, <2>3, <3>1, <4>1, <4>2 DEF InSearch, Learned
    <3>. QED BY <3>1, <3>2 DEF SearchInv
  <2>. QED BY <1>2, <2>4, <2>5, <2>6
<1>. QED BY <1>3, <1>4, <1>5, <1>6, <1>7, <1>8, <1>9, <1>10, <1>11, <1>12, <1>13, <1>14
         DEF JoiningNext

-----------------------------------------------------------------------------
(* The start and the end.                                                  *)

\* At the start the task has heard of everybody the code lists.
Unique(s) == \A i, j \in DOMAIN s : s[i].id = s[j].id => i = j
Codes == {s \in Seq(Address) : Unique(s)}

LEMMA CodeUnique == JoiningInit => code \in Codes
<1> SUFFICES ASSUME JoiningInit PROVE code \in Codes
  OBVIOUS
<1>1. PICK x \in Address, y \in Address, z \in Address :
        code = Given(<<ShareCode(x, <<y>>), ShareCode(z, <<>>)>>)
  BY DEF JoiningInit
<1>2. ASSUME NEW p PROVE Others(<<>>, p) = <<>> /\ Others(<<y>>, p) = (IF y.id = p THEN <<>> ELSE <<y>>)
  <2>1. \A r \in Seq(Address), k \in Address :
           (IF k.id = p THEN r ELSE Append(r, k)) \in Seq(Address)
    OBVIOUS
  <2> DEFINE X == Seq(Address)
             none == <<>>
             one == <<y>>
  <2>2. none \in X /\ one \in X /\ Len(none) = 0 /\ Len(one) = 1 /\ one[1] = y /\ Append(none, y) = one
    OBVIOUS
  <2>3. PICK v : Other!IsRun(p, X, <<>>, none, v)
    <3> HIDE DEF none
    <3>. QED BY <2>1, <2>2, Other!FoldRun DEF none
  <2>4. PICK w : Other!IsRun(p, X, <<>>, one, w)
    <3> HIDE DEF one
    <3>. QED BY <2>1, <2>2, Other!FoldRun DEF none
  <2>5. v[0] = <<>> /\ Other!Folded(p, <<>>, none) = v[0]
    BY <2>2, <2>3 DEF Other!IsRun
  <2>6. w[0] = <<>> /\ Other!Folded(p, <<>>, one) = w[1]
        /\ w[1] = IF y.id = p THEN w[0] ELSE Append(w[0], y)
    <3>1. /\ w[0] = <<>> /\ Other!Folded(p, <<>>, one) = w[Len(one)]
          /\ \A i \in 1 .. Len(one) : w[i] = IF one[i].id = p THEN w[i - 1] ELSE Append(w[i - 1], one[i])
      BY <2>4 DEF Other!IsRun
    <3> HIDE DEF one
    <3>2. 1 \in 1 .. Len(one) /\ 1 - 1 = 0
      BY <2>2
    <3>. QED BY <2>2, <3>1, <3>2
  <2>7. \A s : Others(s, p) = Other!Folded(p, <<>>, s)
    BY DEF Others, Other!Folded, Other!MapThenFoldSet, Other!Max,
           FoldLeft, MapThenFoldSet, Max
  <2>. QED BY <2>2, <2>5, <2>6, <2>7
<1>3. ASSUME NEW s \in Codes, NEW e \in Address PROVE AppendNew(s, e) \in Codes
  <2>1. CASE Lists(s, e.id)
    BY <2>1 DEF AppendNew
  <2>2. CASE ~ Lists(s, e.id)
    <3>1. AppendNew(s, e) = Append(s, e)
      BY <2>2 DEF AppendNew
    <3>2. \A i \in DOMAIN s : s[i].id # e.id
      BY <2>2 DEF Lists
    <3>3. Append(s, e) \in Seq(Address)
      BY DEF Codes
    <3>4. Unique(Append(s, e))
      BY <3>2 DEF Codes, Unique
    <3>. QED BY <3>1, <3>3, <3>4 DEF Codes
  <2>. QED BY <2>1, <2>2
<1>4. ShareCode(x, <<y>>) \in Codes /\ ShareCode(z, <<>>) \in Codes
  <2>1. ShareCode(z, <<>>) = <<z>>
    <3>1. ShareCode(z, <<>>) = <<z>> \o <<>>
      BY <1>2 DEF ShareCode
    <3>2. <<z>> \in Seq(Address)
      OBVIOUS
    <3>. QED BY <3>1, <3>2, ConcatEmptySeq
  <2>2. ShareCode(x, <<y>>) = (IF y.id = x.id THEN <<x>> ELSE Append(<<x>>, y))
    <3>1. ShareCode(x, <<y>>) = <<x>> \o (IF y.id = x.id THEN <<>> ELSE <<y>>)
      BY <1>2 DEF ShareCode
    <3>2. <<x>> \in Seq(Address)
      OBVIOUS
    <3>3. <<x>> \o <<>> = <<x>>
      BY <3>2, ConcatEmptySeq
    <3>4. <<x>> \o <<y>> = Append(<<x>>, y)
      BY <3>2, AppendIsConcat
    <3>. QED BY <3>1, <3>3, <3>4
  <2>3. <<z>> \in Codes /\ <<x>> \in Codes
    BY DEF Codes, Unique
  <2>4. y.id # x.id => Append(<<x>>, y) \in Codes
    <3>1. <<x>> \in Codes
      BY <2>3
    <3>2. Lists(<<x>>, y.id) <=> y.id = x.id
      BY DEF Lists
    <3>. QED BY <1>3, <3>1, <3>2 DEF AppendNew
  <2>. QED BY <2>1, <2>2, <2>3, <2>4
<1>5. ASSUME NEW s \in Codes, NEW other \in Codes PROVE Merge(s, other) \in Codes
  <2>1. other \in Seq(Address)
    BY DEF Codes
  <2>2. New!Folded({}, s, other) \in Codes
    BY <1>3, <2>1, New!FoldKeeps
  <2>. QED
    BY <2>2 DEF Merge, New!Folded, New!MapThenFoldSet, New!Max,
                FoldLeft, MapThenFoldSet, Max
<1> DEFINE b == ShareCode(x, <<y>>)
           d == ShareCode(z, <<>>)
<1>6. Given(<<b, d>>) \in Codes
  <2>1. b \in Codes /\ d \in Codes
    BY <1>4
  <2> HIDE DEF b, d
  <2>2. <<b, d>> \in Seq(Codes) /\ Head(<<b, d>>) \in Codes /\ Tail(<<b, d>>) \in Seq(Codes)
    BY <2>1
  <2> DEFINE t == <<b, d>>
  <2> HIDE DEF t
  <2>3. Code!Folded({}, Head(t), Tail(t)) \in Codes
    BY <1>5, <2>2, Code!FoldKeeps DEF t
  <2>4. Given(t) \in Codes
    BY <2>3 DEF Given, Code!Folded, Code!MapThenFoldSet, Code!Max,
                FoldLeft, MapThenFoldSet, Max
  <2>. QED BY <2>4 DEF t
<1>. QED BY <1>1, <1>6

LEMMA AllSent ==
    ASSUME NEW s \in Seq(AnyAddress), Len(s) <= ChannelCap
    PROVE  FoldLeft(TrySend, <<>>, s) = s
<1> DEFINE n == Len(s)
           r == FoldLeft(TrySend, <<>>, s)
<1>1. n \in Nat /\ DOMAIN s = 1 .. n /\ ChannelCap \in Nat
  BY JoiningAssumption
<1>2. \A x \in Channels, y \in AnyAddress : TrySend(x, y) \in Channels
  BY OneSendType
<1>3. <<>> \in Channels
  BY <1>1 DEF Channels
<1>4. PICK v : Send!IsRun({}, Channels, <<>>, s, v)
  BY <1>2, <1>3, Send!FoldRun
<1>5. /\ v \in [0 .. n -> Channels] /\ v[0] = <<>>
      /\ \A i \in 1 .. n : v[i] = TrySend(v[i - 1], s[i])
      /\ Send!Folded({}, <<>>, s) = v[n]
  BY <1>4, Zenon DEF Send!IsRun
<1>6. r = v[n]
  BY <1>5 DEF Send!Folded, Send!MapThenFoldSet, Send!Max,
              FoldLeft, MapThenFoldSet, Max
<1> HIDE DEF r
<1> DEFINE G == {k \in 0 .. n : Len(v[k]) = k /\ \A i \in 1 .. k : v[k][i] = s[i]}
<1>7. 0 \in G
  BY <1>1, <1>5
<1>8. ASSUME NEW k \in 0 .. n - 1, k \in G PROVE k + 1 \in G
  <2>1. k + 1 \in 1 .. n /\ (k + 1) - 1 = k /\ k \in 0 .. n /\ k < ChannelCap
    BY <1>1
  <2>2. v[k] \in Seq(AnyAddress) /\ Len(v[k]) = k /\ \A i \in 1 .. k : v[k][i] = s[i]
    BY <1>5, <1>8, <2>1 DEF Channels
  <2> DEFINE c == v[k]
             e == s[k + 1]
  <2>3. v[k + 1] = Append(c, e)
    <3>1. v[k + 1] = TrySend(c, e)
      BY <1>5, <2>1
    <3>. QED BY <2>1, <2>2, <3>1 DEF TrySend
  <2> HIDE DEF c, e
  <2>4. /\ Len(Append(c, e)) = k + 1 /\ Append(c, e)[k + 1] = e
        /\ \A i \in 1 .. k : Append(c, e)[i] = c[i]
    BY <2>2 DEF c
  <2>5. ASSUME NEW i \in 1 .. k + 1 PROVE v[k + 1][i] = s[i]
    <3>1. i \in 1 .. k \/ i = k + 1
      OBVIOUS
    <3>. QED BY <2>2, <2>3, <2>4, <3>1 DEF c, e
  <2>. QED BY <2>1, <2>3, <2>4, <2>5
<1>9. n \in G
  <2> HIDE DEF G
  <2>. QED BY <1>1, <1>7, <1>8, First!CountUp
<1>10. r \in Seq(AnyAddress) /\ Len(r) = n /\ \A i \in 1 .. n : r[i] = s[i]
  <2>1. n \in 0 .. n
    BY <1>1
  <2>. QED BY <1>5, <1>6, <1>9, <2>1 DEF Channels
<1>11. r = s
  BY <1>1, <1>10
<1>. QED BY <1>11 DEF r

LEMMA SearchInit == JoiningInit => SearchInv
<1> SUFFICES ASSUME JoiningInit PROVE SearchInv
  OBVIOUS
<1>1. /\ phase = "look" /\ candidates = <<>> /\ next = 0 /\ attempts = [p \in Peer |-> 0]
      /\ left = Deadline /\ found = FoldLeft(TrySend, <<>>, code)
  BY Zenon DEF JoiningInit
<1>2. code \in Seq(AnyAddress) /\ Unique(code)
  <2>1. code \in Codes
    BY CodeUnique
  <2>2. Address \subseteq AnyAddress
    BY JoiningAssumption DEF AnyAddress
  <2>. QED BY <2>1, <2>2, SeqMonotone DEF Codes
<1>3. DOMAIN candidates = {} /\ Ids(candidates) = {}
  BY <1>1 DEF Ids
<1>4. ASSUME NEW g \in Peer, Listed(g) PROVE InSearch(g)
  <2>1. found = code
    BY <1>1, <1>2, <1>4, AllSent DEF Listed
  <2>2. Current(found, g)
    <3>1. PICK i \in DOMAIN code : code[i] = AddressOf(g, TRUE)
      BY <1>4 DEF Listed
    <3>2. code[i].id = g /\ code[i].current
      BY <3>1 DEF AddressOf
    <3>3. \A j \in DOMAIN code : code[j].id = g => j = i
      BY <1>2, <3>2 DEF Unique
    <3>. QED BY <2>1, <3>2, <3>3 DEF Current
  <2>3. Current(candidates, g)
    BY <1>3 DEF Current
  <2>4. Fresh
    BY <1>1, <2>1 DEF Fresh
  <2>5. Learned(g)
    BY <1>1, <1>3, <2>1, <2>2, <2>3, <2>4 DEF Learned
  <2>6. WaitBound(g)
    BY <1>3 DEF WaitBound
  <2>7. TimeUsed
    <3>1. AttemptBound \in Nat /\ Deadline \in Nat
      BY JoiningAssumption DEF AttemptBound
    <3>2. 0 * AttemptBound = 0
      BY <3>1, Z3
    <3>. QED BY <1>1, <3>1, <3>2 DEF TimeUsed
  <2>8. \A k \in 0 .. 4 : Reached(g, k)
    BY <1>1 DEF Reached
  <2>. QED BY <2>5, <2>6, <2>7, <2>8 DEF InSearch
<1>5. phase # "dial"
  BY <1>1
<1>. QED BY <1>4, <1>5 DEF SearchInv

LEMMA SearchEnds == JoiningInv /\ SearchInv => FailedHonestly
<1> SUFFICES ASSUME JoiningInv, SearchInv, phase = "failed", ~ stalled, GoodListed, honest,
                    Fits(share), EnoughTime
             PROVE  FALSE
  BY DEF FailedHonestly
<1>1. PICK i \in DOMAIN code : code[i].id \in Good \ {Me} /\ code[i].current
  BY DEF GoodListed
<1>2. PICK k \in 0 .. 4 : EnoughFor(k)
  BY DEF EnoughTime
<1> DEFINE g == code[i].id
<1>3. code[i] = AddressOf(g, TRUE) /\ g \in Peer
  <2>1. Address \subseteq AnyAddress
    BY JoiningAssumption DEF AnyAddress
  <2>2. code[i] \in AnyAddress
    BY <1>1, <2>1 DEF JoiningInv, JoiningTypeOK
  <2>. QED BY <1>1, <2>2 DEF AnyAddress, AddressOf
<1>4. Listed(g)
  BY <1>1, <1>3 DEF Listed, EnoughTime
<1> HIDE DEF g
<1>5. InSearch(g)
  BY <1>3, <1>4 DEF SearchInv
<1>6. Reached(g, k)
  BY <1>2, <1>5 DEF InSearch
<1>. QED BY <1>6 DEF Reached

-----------------------------------------------------------------------------
(* The theorems.                                                           *)

\* The inductive invariant holds in every reachable state.
THEOREM JoiningInvariant == JoiningSpec => []JoiningInv
<1>1. JoiningInit => JoiningInv
  BY InitInv
<1>2. JoiningInv /\ [JoiningNext]_vars => JoiningInv'
  BY NextInv
<1>. QED BY <1>1, <1>2, PTL DEF JoiningSpec

\* Every variable of the manifest phase keeps its type: candidates never lists us
\* or a peer twice, and the channel never exceeds its bound.
THEOREM JoiningTypes == JoiningSpec => []JoiningTypeOK
<1>1. JoiningInv => JoiningTypeOK
  BY DEF JoiningInv
<1>. QED BY <1>1, JoiningInvariant, PTL

\* `next % candidates.len()` passes no candidate over.
THEOREM JoiningTurnsRotate == JoiningSpec => []TurnsRotate
<1>1. JoiningInv => TurnsRotate
  BY DEF JoiningInv, TurnInv
<1>. QED BY <1>1, JoiningInvariant, PTL

\* The task is over, at the latest, REQUEST_TIMEOUT after the deadline.
THEOREM JoiningEndsInTime == JoiningSpec => []EndsInTime
<1>1. JoiningInv => EndsInTime
  BY DEF JoiningInv, TimeInv, EndsInTime
<1>. QED BY <1>1, JoiningInvariant, PTL

\* What manifest.rs computes of any list of sizes agrees with the definition of
\* a piece: locate and total_pieces find the pieces of all files in order, a read
\* of a file needs its own pieces only, and a bitfield loses no bit.
THEOREM JoiningLayoutSound == JoiningSpec => []LayoutSound
<1>1. JoiningInv => LayoutSound
  <2>1. JoiningTypeOK => sizes \in Seq(Nat)
    <3>1. Size \subseteq Nat
      BY JoiningAssumption
    <3>. QED BY <3>1, SeqMonotone DEF JoiningTypeOK
  <2>. QED BY <2>1, AllLocated, AllHeld, AllBits DEF JoiningInv, LayoutSound
<1>. QED BY <1>1, JoiningInvariant, PTL

\* A download fails with NoPeersFound only for one of the reasons FailedHonestly
\* names.
THEOREM JoiningFailedHonestly == JoiningSpec => []FailedHonestly
<1>1. JoiningInit => JoiningInv /\ SearchInv
  BY InitInv, SearchInit
<1>2. (JoiningInv /\ SearchInv) /\ [JoiningNext]_vars => (JoiningInv /\ SearchInv)'
  BY NextInv, SearchNext
<1>3. JoiningInv /\ SearchInv => FailedHonestly
  BY SearchEnds
<1>. QED BY <1>1, <1>2, <1>3, PTL DEF JoiningSpec
=============================================================================
