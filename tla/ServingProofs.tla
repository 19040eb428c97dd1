---------------------------- MODULE ServingProofs -----------------------------
(***************************************************************************)
(* Proofs about Serving.tla, for any objects, pieces and subscribers and   *)
(* any capacity of the channel and the stream: no piece is missed between  *)
(* the subscription and the snapshot, and no frame takes one away.         *)
(***************************************************************************)
EXTENDS Serving, FiniteSetTheorems, TLAPS

-----------------------------------------------------------------------------
(* The inductive invariant.                                                *)

ServingTypes ==
    /\ registry \in Obj \cup {Unlisted}
    /\ handle \in [Obj -> {"none", "held", "gone"}]
    /\ have \in [Obj -> SUBSET Piece]
    /\ marking \in [Obj -> SUBSET Piece]
    /\ sent \in [Obj -> Seq(Piece)]
    /\ pc \in [Sub -> {"idle", "snapshot", "write", "select", "finished", "gone"}]
    /\ obj \in [Sub -> Obj \cup {Unlisted}]
    /\ next \in [Sub -> Nat \ {0}]
    /\ writing \in [Sub -> SUBSET Frame]
    /\ stream \in [Sub -> Seq(Frame)]
    /\ known \in [Sub -> SUBSET Piece]

\* A stream serves an object from its first step on, and holds one frame
\* exactly while it writes.
InShape(s) ==
    /\ pc[s] = "idle" <=> obj[s] = Unlisted
    /\ pc[s] = "idle" => known[s] = {} /\ stream[s] = <<>>
    /\ pc[s] # "write" => writing[s] = {}
    /\ pc[s] = "write" => \E f \in Frame : writing[s] = {f}
    /\ Len(stream[s]) <= Window

\* Only a registered object is served, marked or sent about, and only pieces it
\* has are sent.
ListedFirst(o) ==
    /\ registry = o => handle[o] # "none"
    /\ \A s \in Sub : obj[s] = o => handle[o] # "none" /\ next[s] <= Len(sent[o]) + 1
    /\ handle[o] = "none" => marking[o] = {} /\ sent[o] = <<>>
    /\ marking[o] \subseteq have[o]
    /\ \A k \in 1 .. Len(sent[o]) : sent[o][k] \in have[o]

\* Frame f is on its way to the subscriber at place k.
OnWay(s, k, f) ==
    \/ k \in 1 .. Len(stream[s]) /\ f = stream[s][k]
    \/ k = Len(stream[s]) + 1 /\ f \in writing[s]

\* Everything told is true, and a bitfield repeats all that was told before it.
NothingErased(s) ==
    /\ pc[s] # "idle" => known[s] \subseteq have[obj[s]]
    /\ \A k \in Nat, f \in Frame :
          OnWay(s, k, f) =>
              /\ f.bits \subseteq have[obj[s]]
              /\ f.frame = "Bitfield" =>
                    /\ known[s] \subseteq f.bits
                    /\ \A j \in Nat, g \in Frame :
                          OnWay(s, j, g) /\ j < k => g.bits \subseteq f.bits

\* Piece p is known to the subscriber or on its way.
Reaches(s, p) == p \in known[s] \/ \E k \in Nat, f \in Frame : OnWay(s, k, f) /\ p \in f.bits

AllOnTheWay(s) ==
    pc[s] \in {"write", "select"} /\ next[s] >= Oldest(obj[s]) =>
        \A p \in have[obj[s]] :
            \/ Reaches(s, p)
            \/ p \in marking[obj[s]]
            \/ \E k \in next[s] .. Len(sent[obj[s]]) : sent[obj[s]][k] = p

ServingInv ==
    /\ ServingTypes
    /\ \A o \in Obj : ListedFirst(o)
    /\ \A s \in Sub : InShape(s) /\ NothingErased(s) /\ AllOnTheWay(s)

-----------------------------------------------------------------------------
(* Steps that leave a stream alone.                                        *)

SameStream(s) ==
    /\ pc'[s] = pc[s] /\ obj'[s] = obj[s] /\ next'[s] = next[s]
    /\ writing'[s] = writing[s] /\ stream'[s] = stream[s] /\ known'[s] = known[s]

LEMMA SameOnWay ==
  ASSUME NEW s \in Sub, writing'[s] = writing[s], stream'[s] = stream[s], known'[s] = known[s]
  PROVE  /\ \A k, f : OnWay(s, k, f)' <=> OnWay(s, k, f)
         /\ \A p : Reaches(s, p)' <=> Reaches(s, p)
BY DEF OnWay, Reaches

\* Nothing an object had is lost, and what it is still to send it keeps.
LEMMA StreamKept ==
  ASSUME ServingInv, NEW s \in Sub, SameStream(s),
         obj[s] \in Obj =>
            /\ have[obj[s]] \subseteq have'[obj[s]]
            /\ pc[s] \in {"write", "select"} =>
                  /\ next[s] >= Oldest(obj[s])' => next[s] >= Oldest(obj[s])
                  /\ \A p \in have'[obj[s]] :
                        \/ p \in have[obj[s]] \ marking[obj[s]]
                        \/ p \in marking'[obj[s]]
                        \/ \E k \in next[s] .. Len(sent'[obj[s]]) : sent'[obj[s]][k] = p
                  /\ \A k \in next[s] .. Len(sent[obj[s]]) :
                        k \in next[s] .. Len(sent'[obj[s]]) /\ sent'[obj[s]][k] = sent[obj[s]][k]
  PROVE  InShape(s)' /\ NothingErased(s)' /\ AllOnTheWay(s)'
<1>1. InShape(s) /\ NothingErased(s) /\ AllOnTheWay(s)
  BY DEF ServingInv
<1>2. obj[s] \in Obj \cup {Unlisted}
  BY DEF ServingInv, ServingTypes
<1>3. /\ \A k, f : OnWay(s, k, f)' <=> OnWay(s, k, f)
      /\ \A p : Reaches(s, p)' <=> Reaches(s, p)
  BY SameOnWay DEF SameStream
<1>4. InShape(s)'
  BY <1>1 DEF InShape, SameStream
<1>5. CASE obj[s] = Unlisted
  <2>1. pc[s] = "idle" /\ stream[s] = <<>> /\ writing[s] = {}
    BY <1>1, <1>5 DEF InShape
  <2>2. \A k \in Nat, f \in Frame : ~ OnWay(s, k, f)
    BY <2>1 DEF OnWay
  <2>. QED BY <1>3, <1>4, <2>1, <2>2 DEF NothingErased, AllOnTheWay, SameStream
<1>6. CASE obj[s] \in Obj
  <2>1. NothingErased(s)'
    BY <1>1, <1>3, <1>6 DEF NothingErased, SameStream
  <2>2. AllOnTheWay(s)'
    <3>. SUFFICES ASSUME pc[s] \in {"write", "select"}, next[s] >= Oldest(obj[s])',
                         NEW p \in have'[obj[s]]
                  PROVE  \/ Reaches(s, p)
                         \/ p \in marking'[obj[s]]
                         \/ \E k \in next[s] .. Len(sent'[obj[s]]) : sent'[obj[s]][k] = p
      BY <1>3 DEF AllOnTheWay, SameStream, Oldest
    <3>1. next[s] >= Oldest(obj[s])
      BY <1>6
    <3>. QED BY <1>1, <1>6, <3>1 DEF AllOnTheWay
  <2>. QED BY <1>4, <2>1, <2>2
<1>. QED BY <1>2, <1>5, <1>6

\* Steps that touch no object.
LEMMA QuietStream ==
  ASSUME ServingInv, NEW s \in Sub, SameStream(s), UNCHANGED storeVars
  PROVE  InShape(s)' /\ NothingErased(s)' /\ AllOnTheWay(s)'
<1>1. /\ have' = have /\ marking' = marking /\ sent' = sent
  BY DEF storeVars
<1>2. Oldest(obj[s])' = Oldest(obj[s])
  BY <1>1 DEF Oldest, SameStream
<1>3. obj[s] \in Obj => have[obj[s]] \subseteq have'[obj[s]]
  BY <1>1
<1>4. ASSUME obj[s] \in Obj, pc[s] \in {"write", "select"}, NEW p \in have'[obj[s]]
      PROVE  \/ p \in have[obj[s]] \ marking[obj[s]]
             \/ p \in marking'[obj[s]]
             \/ \E k \in next[s] .. Len(sent'[obj[s]]) : sent'[obj[s]][k] = p
  BY <1>1, <1>4
<1>. QED BY <1>1, <1>2, <1>3, <1>4, StreamKept

\* The registry and the stores as one stream sees them after its own step.
LEMMA ServeStep ==
  ASSUME ServingInv, NEW s \in Sub,
         UNCHANGED <<listVars, storeVars>>,
         pc' \in [Sub -> {"idle", "snapshot", "write", "select", "finished", "gone"}],
         obj' \in [Sub -> Obj \cup {Unlisted}],
         next' \in [Sub -> Nat \ {0}],
         writing' \in [Sub -> SUBSET Frame],
         stream' \in [Sub -> Seq(Frame)],
         known' \in [Sub -> SUBSET Piece],
         \A t \in Sub : t # s => SameStream(t),
         obj'[s] = obj[s] \/ obj'[s] = registry,
         obj'[s] \in Obj => next'[s] <= Len(sent[obj'[s]]) + 1,
         InShape(s)', NothingErased(s)', AllOnTheWay(s)'
  PROVE  ServingInv'
<1>1. /\ registry' = registry /\ handle' = handle
      /\ have' = have /\ marking' = marking /\ sent' = sent
  BY DEF listVars, storeVars
<1>2. ServingTypes'
  BY <1>1 DEF ServingInv, ServingTypes
<1>3. ASSUME NEW o \in Obj
      PROVE  ListedFirst(o)'
  <2>1. ListedFirst(o)
    BY DEF ServingInv
  <2>2. ASSUME NEW t \in Sub, obj'[t] = o
        PROVE  handle[o] # "none" /\ next'[t] <= Len(sent[o]) + 1
    <3>1. CASE t = s
      <4>1. handle[o] # "none"
        BY <2>1, <2>2, <3>1 DEF ListedFirst
      <4>. QED BY <2>2, <3>1, <4>1
    <3>2. CASE t # s
      <4>1. obj[t] = o /\ next'[t] = next[t]
        BY <2>2, <3>2 DEF SameStream
      <4>. QED BY <2>1, <4>1 DEF ListedFirst
    <3>. QED BY <3>1, <3>2
  <2>. QED BY <1>1, <2>1, <2>2 DEF ListedFirst
<1>4. \A t \in Sub : InShape(t)' /\ NothingErased(t)' /\ AllOnTheWay(t)'
  BY QuietStream
<1>. QED BY <1>2, <1>3, <1>4 DEF ServingInv

-----------------------------------------------------------------------------
(* The steps of a stream.                                                  *)

LEMMA FrameFacts ==
  /\ \A S \in SUBSET Piece : /\ Bitfield(S) \in Frame
                             /\ Bitfield(S).frame = "Bitfield" /\ Bitfield(S).bits = S
  /\ \A p \in Piece : /\ Have(p) \in Frame
                      /\ Have(p).frame # "Bitfield" /\ Have(p).bits = {p}
  /\ \A f \in Frame : f.bits \in SUBSET Piece
BY DEF Bitfield, Have, Frame

LEMMA StreamFacts ==
  ASSUME ServingInv, NEW s \in Sub
  PROVE  /\ stream[s] \in Seq(Frame) /\ Len(stream[s]) \in Nat
         /\ writing[s] \in SUBSET Frame /\ known[s] \in SUBSET Piece
         /\ next[s] \in Nat \ {0}
         /\ obj[s] \in Obj \cup {Unlisted}
         /\ obj[s] \in Obj => /\ have[obj[s]] \in SUBSET Piece
                              /\ Len(sent[obj[s]]) \in Nat
                              /\ sent[obj[s]] \in Seq(Piece)
                              /\ Oldest(obj[s]) \in 1 .. Len(sent[obj[s]]) + 1
                              /\ next[s] <= Len(sent[obj[s]]) + 1
         /\ InShape(s) /\ NothingErased(s) /\ AllOnTheWay(s)
<1>1. /\ stream[s] \in Seq(Frame) /\ Len(stream[s]) \in Nat
      /\ writing[s] \in SUBSET Frame /\ known[s] \in SUBSET Piece
      /\ next[s] \in Nat \ {0}
      /\ obj[s] \in Obj \cup {Unlisted}
      /\ InShape(s) /\ NothingErased(s) /\ AllOnTheWay(s)
  BY DEF ServingInv, ServingTypes
<1>2. ASSUME obj[s] \in Obj
      PROVE  /\ have[obj[s]] \in SUBSET Piece
             /\ Len(sent[obj[s]]) \in Nat
             /\ sent[obj[s]] \in Seq(Piece)
             /\ Oldest(obj[s]) \in 1 .. Len(sent[obj[s]]) + 1
             /\ next[s] <= Len(sent[obj[s]]) + 1
  <2>1. sent[obj[s]] \in Seq(Piece) /\ Len(sent[obj[s]]) \in Nat
        /\ have[obj[s]] \in SUBSET Piece
    BY <1>2 DEF ServingInv, ServingTypes
  <2>2. Oldest(obj[s]) \in 1 .. Len(sent[obj[s]]) + 1
    BY <2>1, ServingAssumption DEF Oldest
  <2>. QED BY <1>2, <2>1, <2>2 DEF ServingInv, ListedFirst
<1>. QED BY <1>1, <1>2

\* A new frame joins those on their way at the end.
LEMMA FrameJoins ==
  ASSUME ServingInv, NEW s \in Sub, NEW f \in Frame, writing[s] = {},
         writing'[s] = {f}, stream'[s] = stream[s]
  PROVE  \A k \in Nat, g \in Frame :
            OnWay(s, k, g)' <=> OnWay(s, k, g) \/ (k = Len(stream[s]) + 1 /\ g = f)
BY DEF OnWay

LEMMA SubscribeInv ==
  ASSUME ServingInv, NEW s \in Sub, Subscribe(s)
  PROVE  ServingInv'
<1>1. ServingTypes /\ InShape(s) /\ ListedFirst(registry)
  BY DEF Subscribe, ServingInv, ServingTypes
<1>2. /\ registry \in Obj /\ Len(sent[registry]) \in Nat
      /\ known[s] = {} /\ stream[s] = <<>> /\ writing[s] = {}
  BY <1>1 DEF Subscribe, ServingTypes, InShape
<1>3. /\ UNCHANGED <<listVars, storeVars, writing, stream, known>>
      /\ pc' = [pc EXCEPT ![s] = "snapshot"]
      /\ obj' = [obj EXCEPT ![s] = registry]
      /\ next' = [next EXCEPT ![s] = Len(sent[registry]) + 1]
  BY DEF Subscribe
<1>4. /\ pc'[s] = "snapshot" /\ obj'[s] = registry /\ next'[s] = Len(sent[registry]) + 1
      /\ pc' \in [Sub -> {"idle", "snapshot", "write", "select", "finished", "gone"}]
      /\ obj' \in [Sub -> Obj \cup {Unlisted}]
      /\ next' \in [Sub -> Nat \ {0}]
  BY <1>1, <1>2, <1>3 DEF ServingTypes
<1>5. \A t \in Sub : t # s => SameStream(t)
  BY <1>1, <1>3 DEF SameStream, ServingTypes
<1>6. registry # Unlisted
  BY DEF Subscribe
<1>7. InShape(s)'
  BY <1>1, <1>2, <1>3, <1>4, <1>6 DEF InShape
<1>8. NothingErased(s)' /\ AllOnTheWay(s)'
  <2>1. \A k, f : ~ OnWay(s, k, f)'
    BY <1>2, <1>3 DEF OnWay
  <2>. QED BY <1>2, <1>3, <1>4, <2>1 DEF NothingErased, AllOnTheWay
<1>9. /\ writing' \in [Sub -> SUBSET Frame]
      /\ stream' \in [Sub -> Seq(Frame)]
      /\ known' \in [Sub -> SUBSET Piece]
  BY <1>1, <1>3 DEF ServingTypes
<1>10. obj'[s] \in Obj => next'[s] <= Len(sent[obj'[s]]) + 1
  BY <1>2, <1>4
<1>11. UNCHANGED <<listVars, storeVars>>
  BY <1>3
<1>. QED BY <1>4, <1>5, <1>7, <1>8, <1>9, <1>10, <1>11, ServeStep

LEMMA SnapshotInv ==
  ASSUME ServingInv, NEW s \in Sub, Snapshot(s)
  PROVE  ServingInv'
<1>1. ServingTypes
  BY DEF ServingInv
<1>. DEFINE o == obj[s]
<1>0. PICK f : f = Bitfield(have[obj[s]])
  OBVIOUS
<1>2. /\ UNCHANGED <<listVars, storeVars, obj, next, stream, known>>
      /\ pc[s] = "snapshot" /\ pc' = [pc EXCEPT ![s] = "write"]
      /\ writing' = [writing EXCEPT ![s] = {f}]
  BY <1>0 DEF Snapshot
<1>3. o \in Obj /\ writing[s] = {}
  BY <1>2, StreamFacts DEF InShape
<1>4. f \in Frame /\ f.frame = "Bitfield" /\ f.bits = have[o]
  BY <1>0, <1>3, StreamFacts, FrameFacts
<1>5. /\ pc'[s] = "write" /\ writing'[s] = {f}
      /\ pc' \in [Sub -> {"idle", "snapshot", "write", "select", "finished", "gone"}]
      /\ writing' \in [Sub -> SUBSET Frame]
      /\ \A t \in Sub : t # s => SameStream(t)
  BY <1>1, <1>2, <1>4 DEF ServingTypes, SameStream
<1>6. InShape(s)'
  BY <1>2, <1>4, <1>5, StreamFacts DEF InShape
<1>7. \A k \in Nat, g \in Frame :
         OnWay(s, k, g)' <=> OnWay(s, k, g) \/ (k = Len(stream[s]) + 1 /\ g = f)
  BY <1>2, <1>3, <1>4, <1>5, FrameJoins
<1>8. \A k \in Nat, g \in Frame : OnWay(s, k, g) => k <= Len(stream[s])
  BY <1>3, StreamFacts DEF OnWay
<1>9. have' = have
  BY <1>2 DEF storeVars
<1>10. NothingErased(s)'
  <2>1. known[s] \subseteq have[o]
    BY <1>2, StreamFacts DEF NothingErased
  <2>2. ASSUME NEW k \in Nat, NEW g \in Frame, OnWay(s, k, g)'
        PROVE  /\ g.bits \subseteq have[o]
               /\ g.frame = "Bitfield" =>
                     /\ known[s] \subseteq g.bits
                     /\ \A j \in Nat, h \in Frame :
                           OnWay(s, j, h)' /\ j < k => h.bits \subseteq g.bits
    <3>1. CASE OnWay(s, k, g)
      <4>1. \A j \in Nat, h \in Frame : OnWay(s, j, h)' /\ j < k => OnWay(s, j, h)
        BY <1>7, <1>8, <3>1, StreamFacts
      <4>. QED BY <3>1, <4>1, StreamFacts DEF NothingErased
    <3>2. CASE k = Len(stream[s]) + 1 /\ g = f
      <4>1. \A j \in Nat, h \in Frame : OnWay(s, j, h)' /\ j < k => OnWay(s, j, h)
        BY <1>7, <3>2, StreamFacts
      <4>. QED BY <1>4, <2>1, <3>2, <4>1, StreamFacts DEF NothingErased
    <3>. QED BY <1>7, <2>2, <3>1, <3>2
  <2>. QED BY <1>2, <1>9, <2>1, <2>2 DEF NothingErased
<1>11. AllOnTheWay(s)'
  <2>1. PICK n \in Nat : n = Len(stream[s]) + 1
    BY StreamFacts
  <2>2. OnWay(s, n, f)'
    BY <1>4, <1>7, <2>1
  <2>3. ASSUME NEW p \in have[o]
        PROVE  Reaches(s, p)'
    BY <1>4, <2>2, <2>3 DEF Reaches
  <2>. QED BY <1>2, <1>9, <2>3 DEF AllOnTheWay
<1>12. /\ obj' \in [Sub -> Obj \cup {Unlisted}]
       /\ next' \in [Sub -> Nat \ {0}]
       /\ stream' \in [Sub -> Seq(Frame)]
       /\ known' \in [Sub -> SUBSET Piece]
  BY <1>1, <1>2 DEF ServingTypes
<1>13. obj'[s] \in Obj => next'[s] <= Len(sent[obj'[s]]) + 1
  BY <1>2, StreamFacts
<1>. QED BY <1>2, <1>5, <1>6, <1>10, <1>11, <1>12, <1>13, ServeStep

LEMMA WriteInv ==
  ASSUME ServingInv, NEW s \in Sub, Write(s)
  PROVE  ServingInv'
<1>1. ServingTypes
  BY DEF ServingInv
<1>2. PICK f \in Frame : writing[s] = {f}
  BY StreamFacts DEF Write, InShape
<1>3. /\ UNCHANGED <<listVars, storeVars, obj, next, known>>
      /\ pc[s] = "write" /\ pc' = [pc EXCEPT ![s] = "select"]
      /\ writing' = [writing EXCEPT ![s] = {}]
      /\ stream' = [stream EXCEPT ![s] = Append(@, f)]
      /\ Len(stream[s]) < Window
  BY <1>2 DEF Write
<1>4. PICK q \in Seq(Frame), n \in Nat : q = stream[s] /\ n = Len(q)
  BY StreamFacts
<1>5. Append(q, f) \in Seq(Frame) /\ Len(Append(q, f)) = n + 1
      /\ \A k \in 1 .. n : Append(q, f)[k] = q[k]
      /\ Append(q, f)[n + 1] = f
  BY <1>4
<1>6. /\ pc'[s] = "select" /\ writing'[s] = {} /\ stream'[s] = Append(q, f)
      /\ pc' \in [Sub -> {"idle", "snapshot", "write", "select", "finished", "gone"}]
      /\ writing' \in [Sub -> SUBSET Frame]
      /\ stream' \in [Sub -> Seq(Frame)]
      /\ \A t \in Sub : t # s => SameStream(t)
  BY <1>1, <1>3, <1>4, <1>5 DEF ServingTypes, SameStream
<1>7. obj[s] \in Obj
  BY <1>3, StreamFacts DEF InShape
<1>8. InShape(s)'
  BY <1>3, <1>4, <1>5, <1>6, <1>7, StreamFacts, ServingAssumption DEF InShape
<1>9. \A k \in Nat, g \in Frame : OnWay(s, k, g)' <=> OnWay(s, k, g)
  <2>. TAKE k \in Nat, g \in Frame
  <2>1. OnWay(s, k, g) <=> (k \in 1 .. n /\ g = q[k]) \/ (k = n + 1 /\ g = f)
    BY <1>2, <1>4 DEF OnWay
  <2>2. OnWay(s, k, g)' <=> k \in 1 .. n + 1 /\ g = Append(q, f)[k]
    BY <1>5, <1>6 DEF OnWay
  <2>. QED BY <1>5, <2>1, <2>2
<1>10. have' = have /\ marking' = marking /\ sent' = sent
  BY <1>3 DEF storeVars
<1>11. NothingErased(s)'
  BY <1>3, <1>6, <1>9, <1>10, StreamFacts DEF NothingErased
<1>12. AllOnTheWay(s)'
  <2>1. \A p : Reaches(s, p)' <=> Reaches(s, p)
    BY <1>3, <1>9 DEF Reaches
  <2>2. Oldest(obj[s])' = Oldest(obj[s])
    BY <1>3, <1>10 DEF Oldest
  <2>3. AllOnTheWay(s)
    BY StreamFacts
  <2>. QED BY <1>3, <1>6, <1>10, <2>1, <2>2, <2>3 DEF AllOnTheWay
<1>13. /\ obj' \in [Sub -> Obj \cup {Unlisted}]
       /\ next' \in [Sub -> Nat \ {0}]
       /\ known' \in [Sub -> SUBSET Piece]
       /\ obj'[s] = obj[s]
       /\ obj'[s] \in Obj => next'[s] <= Len(sent[obj'[s]]) + 1
       /\ UNCHANGED <<listVars, storeVars>>
  BY <1>1, <1>3, StreamFacts DEF ServingTypes
<1>. QED BY <1>6, <1>8, <1>11, <1>12, <1>13, ServeStep

LEMMA ReceiveInv ==
  ASSUME ServingInv, NEW s \in Sub, Receive(s)
  PROVE  ServingInv'
<1>1. ServingTypes
  BY DEF ServingInv
<1>2. PICK o : o = obj[s]
  OBVIOUS
<1>3. o \in Obj /\ writing[s] = {} /\ pc[s] = "select"
  BY <1>2, StreamFacts DEF Receive, InShape
<1>4. PICK m \in Nat \ {0} : m = next[s] /\ m \in Oldest(o) .. Len(sent[o])
  BY <1>2, StreamFacts DEF Receive
<1>5. PICK p : p = sent[o][m]
  OBVIOUS
<1>6. m \in 1 .. Len(sent[o]) /\ p \in Piece /\ p \in have[o]
  <2>1. sent[o] \in Seq(Piece) /\ Len(sent[o]) \in Nat /\ Oldest(o) \in 1 .. Len(sent[o]) + 1
    BY <1>2, <1>3, StreamFacts
  <2>2. m \in 1 .. Len(sent[o])
    BY <1>4, <2>1
  <2>3. p \in have[o]
    BY <1>3, <1>5, <2>2 DEF ServingInv, ListedFirst
  <2>. QED BY <1>5, <2>1, <2>2, <2>3
<1>7. PICK f \in Frame : f = Have(p) /\ f.frame # "Bitfield" /\ f.bits = {p}
  BY <1>6, FrameFacts
<1>8. /\ UNCHANGED <<listVars, storeVars, obj, stream, known>>
      /\ pc' = [pc EXCEPT ![s] = "write"]
      /\ writing' = [writing EXCEPT ![s] = {f}]
      /\ next' = [next EXCEPT ![s] = m + 1]
  BY <1>2, <1>4, <1>5, <1>7 DEF Receive
<1>9. /\ pc'[s] = "write" /\ writing'[s] = {f} /\ next'[s] = m + 1
      /\ pc' \in [Sub -> {"idle", "snapshot", "write", "select", "finished", "gone"}]
      /\ writing' \in [Sub -> SUBSET Frame]
      /\ next' \in [Sub -> Nat \ {0}]
      /\ \A t \in Sub : t # s => SameStream(t)
  BY <1>1, <1>4, <1>8 DEF ServingTypes, SameStream
<1>10. InShape(s)'
  BY <1>3, <1>8, <1>9, StreamFacts DEF InShape
<1>11. \A k \in Nat, g \in Frame :
          OnWay(s, k, g)' <=> OnWay(s, k, g) \/ (k = Len(stream[s]) + 1 /\ g = f)
  BY <1>3, <1>8, <1>9, FrameJoins
<1>12. have' = have /\ marking' = marking /\ sent' = sent
  BY <1>8 DEF storeVars
<1>13. NothingErased(s)'
  <2>1. known[s] \subseteq have[o]
    BY <1>2, <1>3, StreamFacts DEF NothingErased
  <2>2. ASSUME NEW k \in Nat, NEW g \in Frame, OnWay(s, k, g)'
        PROVE  /\ g.bits \subseteq have[o]
               /\ g.frame = "Bitfield" =>
                     /\ known[s] \subseteq g.bits
                     /\ \A j \in Nat, h \in Frame :
                           OnWay(s, j, h)' /\ j < k => h.bits \subseteq g.bits
    <3>1. CASE OnWay(s, k, g)
      <4>1. k <= Len(stream[s])
        BY <1>3, <3>1, StreamFacts DEF OnWay
      <4>2. \A j \in Nat, h \in Frame : OnWay(s, j, h)' /\ j < k => OnWay(s, j, h)
        BY <1>11, <4>1, StreamFacts
      <4>. QED BY <1>2, <3>1, <4>2, StreamFacts DEF NothingErased
    <3>2. CASE g = f
      BY <1>6, <1>7, <3>2
    <3>. QED BY <1>11, <2>2, <3>1, <3>2
  <2>. QED BY <1>2, <1>8, <1>12, <2>1, <2>2 DEF NothingErased
<1>14. AllOnTheWay(s)'
  <2>1. PICK n \in Nat : n = Len(stream[s]) + 1
    BY StreamFacts
  <2>2. OnWay(s, n, f)'
    BY <1>11, <2>1
  <2>3. Reaches(s, p)'
    BY <1>7, <2>2 DEF Reaches
  <2>4. \A q : Reaches(s, q) => Reaches(s, q)'
    BY <1>8, <1>11 DEF Reaches
  <2>5. ASSUME NEW q \in have[o]
        PROVE  \/ Reaches(s, q)'
               \/ q \in marking[o]
               \/ \E k \in m + 1 .. Len(sent[o]) : sent[o][k] = q
    <3>1. \/ Reaches(s, q)
          \/ q \in marking[o]
          \/ \E k \in m .. Len(sent[o]) : sent[o][k] = q
      BY <1>2, <1>3, <1>4, StreamFacts DEF AllOnTheWay
    <3>2. ASSUME NEW k \in m .. Len(sent[o]), sent[o][k] = q, k # m
          PROVE  k \in m + 1 .. Len(sent[o])
      BY <1>6, <3>2
    <3>. QED BY <1>5, <2>3, <2>4, <3>1, <3>2
  <2>. QED BY <1>2, <1>8, <1>9, <1>12, <2>5 DEF AllOnTheWay
<1>15. /\ obj' \in [Sub -> Obj \cup {Unlisted}]
       /\ stream' \in [Sub -> Seq(Frame)]
       /\ known' \in [Sub -> SUBSET Piece]
       /\ obj'[s] = obj[s]
       /\ UNCHANGED <<listVars, storeVars>>
  BY <1>1, <1>8 DEF ServingTypes
<1>16. next'[s] <= Len(sent[obj'[s]]) + 1
  BY <1>2, <1>3, <1>6, <1>9, <1>15, StreamFacts
<1>. QED BY <1>9, <1>10, <1>13, <1>14, <1>15, <1>16, ServeStep

LEMMA LaggedInv ==
  ASSUME ServingInv, NEW s \in Sub, Lagged(s)
  PROVE  ServingInv'
<1>1. ServingTypes
  BY DEF ServingInv
<1>2. PICK m : m = Oldest(obj[s])
  OBVIOUS
<1>3. obj[s] \in Obj /\ pc[s] = "select" /\ writing[s] = {}
  BY StreamFacts DEF Lagged, InShape
<1>4. m \in 1 .. Len(sent[obj[s]]) + 1 /\ Len(sent[obj[s]]) \in Nat
  BY <1>2, <1>3, StreamFacts
<1>5. /\ UNCHANGED <<listVars, storeVars, obj, writing, stream, known>>
      /\ pc' = [pc EXCEPT ![s] = "snapshot"]
      /\ next' = [next EXCEPT ![s] = m]
  BY <1>2 DEF Lagged
<1>6. /\ pc'[s] = "snapshot" /\ next'[s] = m
      /\ pc' \in [Sub -> {"idle", "snapshot", "write", "select", "finished", "gone"}]
      /\ next' \in [Sub -> Nat \ {0}]
      /\ \A t \in Sub : t # s => SameStream(t)
  BY <1>1, <1>4, <1>5 DEF ServingTypes, SameStream
<1>7. InShape(s)'
  BY <1>3, <1>5, <1>6, StreamFacts DEF InShape
<1>8. NothingErased(s)' /\ AllOnTheWay(s)'
  <2>1. \A k, f : OnWay(s, k, f)' <=> OnWay(s, k, f)
    BY <1>5 DEF OnWay
  <2>2. have' = have
    BY <1>5 DEF storeVars
  <2>. QED BY <1>3, <1>5, <1>6, <2>1, <2>2, StreamFacts DEF NothingErased, AllOnTheWay
<1>9. /\ obj' \in [Sub -> Obj \cup {Unlisted}]
      /\ writing' \in [Sub -> SUBSET Frame]
      /\ stream' \in [Sub -> Seq(Frame)]
      /\ known' \in [Sub -> SUBSET Piece]
      /\ obj'[s] = obj[s]
      /\ next'[s] <= Len(sent[obj'[s]]) + 1
      /\ UNCHANGED <<listVars, storeVars>>
  BY <1>1, <1>4, <1>5, <1>6 DEF ServingTypes
<1>. QED BY <1>6, <1>7, <1>8, <1>9, ServeStep

LEMMA CheckInv ==
  ASSUME ServingInv, NEW s \in Sub, Check(s)
  PROVE  ServingInv'
<1>1. ServingTypes
  BY DEF ServingInv
<1>2. /\ UNCHANGED <<listVars, storeVars, obj, next, writing, stream, known>>
      /\ pc[s] = "select" /\ pc' = [pc EXCEPT ![s] = "finished"]
  BY DEF Check
<1>3. /\ pc'[s] = "finished"
      /\ pc' \in [Sub -> {"idle", "snapshot", "write", "select", "finished", "gone"}]
      /\ \A t \in Sub : t # s => SameStream(t)
  BY <1>1, <1>2 DEF ServingTypes, SameStream
<1>4. InShape(s)'
  BY <1>2, <1>3, StreamFacts DEF InShape
<1>5. NothingErased(s)' /\ AllOnTheWay(s)'
  <2>1. \A k, f : OnWay(s, k, f)' <=> OnWay(s, k, f)
    BY <1>2 DEF OnWay
  <2>2. have' = have
    BY <1>2 DEF storeVars
  <2>. QED BY <1>2, <1>3, <2>1, <2>2, StreamFacts DEF NothingErased, AllOnTheWay
<1>6. /\ obj' \in [Sub -> Obj \cup {Unlisted}]
      /\ next' \in [Sub -> Nat \ {0}]
      /\ writing' \in [Sub -> SUBSET Frame]
      /\ stream' \in [Sub -> Seq(Frame)]
      /\ known' \in [Sub -> SUBSET Piece]
      /\ obj'[s] = obj[s]
      /\ obj'[s] \in Obj => next'[s] <= Len(sent[obj'[s]]) + 1
      /\ UNCHANGED <<listVars, storeVars>>
  BY <1>1, <1>2, StreamFacts DEF ServingTypes
<1>. QED BY <1>3, <1>4, <1>5, <1>6, ServeStep

LEMMA DisconnectInv ==
  ASSUME ServingInv, NEW s \in Sub, Disconnect(s)
  PROVE  ServingInv'
<1>1. ServingTypes
  BY DEF ServingInv
<1>2. /\ UNCHANGED <<listVars, storeVars, obj, next>>
      /\ pc[s] # "idle"
      /\ pc' = [pc EXCEPT ![s] = "gone"]
      /\ writing' = [writing EXCEPT ![s] = {}]
      /\ stream' = [stream EXCEPT ![s] = <<>>]
      /\ known' = [known EXCEPT ![s] = {}]
  BY DEF Disconnect
<1>3. /\ pc'[s] = "gone" /\ writing'[s] = {} /\ stream'[s] = <<>> /\ known'[s] = {}
      /\ pc' \in [Sub -> {"idle", "snapshot", "write", "select", "finished", "gone"}]
      /\ writing' \in [Sub -> SUBSET Frame]
      /\ stream' \in [Sub -> Seq(Frame)]
      /\ known' \in [Sub -> SUBSET Piece]
      /\ \A t \in Sub : t # s => SameStream(t)
  BY <1>1, <1>2 DEF ServingTypes, SameStream
<1>4. InShape(s)'
  BY <1>2, <1>3, StreamFacts, ServingAssumption DEF InShape
<1>5. NothingErased(s)' /\ AllOnTheWay(s)'
  <2>1. \A k, f : ~ OnWay(s, k, f)'
    BY <1>3 DEF OnWay
  <2>. QED BY <1>3, <2>1 DEF NothingErased, AllOnTheWay
<1>6. /\ obj' \in [Sub -> Obj \cup {Unlisted}]
      /\ next' \in [Sub -> Nat \ {0}]
      /\ obj'[s] = obj[s]
      /\ obj'[s] \in Obj => next'[s] <= Len(sent[obj'[s]]) + 1
      /\ UNCHANGED <<listVars, storeVars>>
  BY <1>1, <1>2, StreamFacts DEF ServingTypes
<1>. QED BY <1>3, <1>4, <1>5, <1>6, ServeStep

\* What the subscriber makes of a frame it reads: it learns, and forgets
\* nothing.
LEMMA ReadEffect ==
  ASSUME ServingInv, NEW s \in Sub, Read(s)
  PROVE  \E f \in Frame :
            /\ OnWay(s, 1, f)
            /\ known'[s] = known[s] \cup f.bits
            /\ \A k \in Nat, g \in Frame : OnWay(s, k, g)' => OnWay(s, k + 1, g)
            /\ \A k \in Nat, g \in Frame :
                  OnWay(s, k, g) =>
                      \/ k = 1 /\ g = f
                      \/ \E j \in Nat : k = j + 1 /\ OnWay(s, j, g)'
            /\ \A k \in Nat, g \in Frame : OnWay(s, k, g)' => k >= 1
<1>1. ServingTypes
  BY DEF ServingInv
<1>2. PICK q \in Seq(Frame), n \in Nat : q = stream[s] /\ n = Len(q) /\ q # <<>>
  BY StreamFacts DEF Read
<1>3. PICK f \in Frame : f = Head(q) /\ f = q[1]
  BY <1>2
<1>4. /\ n >= 1 /\ Tail(q) \in Seq(Frame) /\ Len(Tail(q)) = n - 1
      /\ \A k \in 1 .. n - 1 : Tail(q)[k] = q[k + 1]
  BY <1>2
<1>5. /\ known' = [known EXCEPT ![s] = Learn(@, f)]
      /\ stream' = [stream EXCEPT ![s] = Tail(q)]
      /\ writing' = writing
  BY <1>2, <1>3 DEF Read
<1>6. stream'[s] = Tail(q) /\ known'[s] = Learn(known[s], f)
  BY <1>1, <1>5 DEF ServingTypes
<1>7. OnWay(s, 1, f)
  BY <1>2, <1>3, <1>4 DEF OnWay
<1>8. known'[s] = known[s] \cup f.bits
  <2>1. f.frame = "Bitfield" => known[s] \subseteq f.bits
    BY <1>7, StreamFacts DEF NothingErased
  <2>. QED BY <1>6, <2>1 DEF Learn
<1>9. \A k \in Nat : \A g :
         OnWay(s, k, g) <=> (k \in 1 .. n /\ g = q[k]) \/ (k = n + 1 /\ g \in writing[s])
  BY <1>2 DEF OnWay
<1>10. \A k \in Nat : \A g :
          OnWay(s, k, g)' <=> (k \in 1 .. n - 1 /\ g = q[k + 1]) \/ (k = n /\ g \in writing[s])
  <2>. TAKE k \in Nat
  <2>. TAKE g
  <2>1. OnWay(s, k, g)' <=>
           \/ k \in 1 .. Len(Tail(q)) /\ g = Tail(q)[k]
           \/ k = Len(Tail(q)) + 1 /\ g \in writing[s]
    BY <1>5, <1>6 DEF OnWay
  <2>. QED BY <1>4, <2>1
<1>11. ASSUME NEW k \in Nat, NEW g \in Frame, OnWay(s, k, g)
       PROVE  \/ k = 1 /\ g = f
              \/ \E j \in Nat : k = j + 1 /\ OnWay(s, j, g)'
  <2>2. CASE k = 1 /\ n >= 1
    BY <1>3, <1>9, <1>11, <2>2
  <2>3. CASE k # 1
    <3>1. PICK j \in Nat : k = j + 1
      BY <1>9, <1>11
    <3>2. OnWay(s, j, g)'
      BY <1>2, <1>9, <1>10, <1>11, <2>3, <3>1
    <3>. QED BY <3>1, <3>2
  <2>. QED BY <1>4, <2>2, <2>3
<1>12. ASSUME NEW k \in Nat, NEW g \in Frame, OnWay(s, k, g)'
       PROVE  OnWay(s, k + 1, g) /\ k >= 1
  BY <1>4, <1>9, <1>10, <1>12
<1>. QED BY <1>7, <1>8, <1>11, <1>12

LEMMA ReadInv ==
  ASSUME ServingInv, NEW s \in Sub, Read(s)
  PROVE  ServingInv'
<1>1. ServingTypes
  BY DEF ServingInv
<1>2. PICK f \in Frame :
            /\ OnWay(s, 1, f)
            /\ known'[s] = known[s] \cup f.bits
            /\ \A k \in Nat, g \in Frame : OnWay(s, k, g)' => OnWay(s, k + 1, g)
            /\ \A k \in Nat, g \in Frame :
                  OnWay(s, k, g) =>
                      \/ k = 1 /\ g = f
                      \/ \E j \in Nat : k = j + 1 /\ OnWay(s, j, g)'
            /\ \A k \in Nat, g \in Frame : OnWay(s, k, g)' => k >= 1
  BY ReadEffect
<1>3. /\ UNCHANGED <<listVars, storeVars, pc, obj, next, writing>>
      /\ stream[s] # <<>>
      /\ stream' = [stream EXCEPT ![s] = Tail(@)]
      /\ known' = [known EXCEPT ![s] = Learn(@, Head(stream[s]))]
  BY DEF Read
<1>4. f.bits \in SUBSET Piece
  BY FrameFacts
<1>5. /\ Tail(stream[s]) \in Seq(Frame) /\ Len(Tail(stream[s])) <= Window
  BY <1>3, StreamFacts, ServingAssumption DEF InShape
<1>6. /\ stream'[s] = Tail(stream[s])
      /\ stream' \in [Sub -> Seq(Frame)]
      /\ \A t \in Sub : t # s => stream'[t] = stream[t]
  BY <1>1, <1>3, <1>5 DEF ServingTypes
<1>7. /\ known' \in [Sub -> SUBSET Piece]
      /\ \A t \in Sub : t # s => known'[t] = known[t]
  <2>1. PICK L : known' = [known EXCEPT ![s] = L]
    BY <1>3
  <2>2. L = known[s] \cup f.bits
    BY <1>1, <1>2, <2>1 DEF ServingTypes
  <2>. QED BY <1>1, <1>4, <2>1, <2>2 DEF ServingTypes
<1>8. \A t \in Sub : t # s => SameStream(t)
  BY <1>3, <1>6, <1>7 DEF SameStream
<1>9. pc[s] # "idle" /\ obj[s] \in Obj
  BY <1>3, StreamFacts DEF InShape
<1>10. InShape(s)'
  BY <1>3, <1>5, <1>6, <1>9, StreamFacts DEF InShape
<1>11. have' = have /\ marking' = marking /\ sent' = sent
  BY <1>3 DEF storeVars
<1>12. NothingErased(s)'
  <2>1. /\ known[s] \subseteq have[obj[s]] /\ f.bits \subseteq have[obj[s]]
    BY <1>2, <1>9, StreamFacts DEF NothingErased
  <2>2. ASSUME NEW k \in Nat, NEW g \in Frame, OnWay(s, k, g)'
        PROVE  /\ g.bits \subseteq have[obj[s]]
               /\ g.frame = "Bitfield" =>
                     /\ known'[s] \subseteq g.bits
                     /\ \A j \in Nat, h \in Frame :
                           OnWay(s, j, h)' /\ j < k => h.bits \subseteq g.bits
    <3>1. OnWay(s, k + 1, g) /\ k + 1 \in Nat /\ 1 < k + 1
      BY <1>2, <2>2
    <3>2. /\ g.bits \subseteq have[obj[s]]
          /\ g.frame = "Bitfield" =>
                /\ known[s] \subseteq g.bits
                /\ \A j \in Nat, h \in Frame : OnWay(s, j, h) /\ j < k + 1 => h.bits \subseteq g.bits
      BY <3>1, StreamFacts DEF NothingErased
    <3>3. g.frame = "Bitfield" => known'[s] \subseteq g.bits
      BY <1>2, <3>1, <3>2
    <3>4. ASSUME NEW j \in Nat, NEW h \in Frame, OnWay(s, j, h)', j < k, g.frame = "Bitfield"
          PROVE  h.bits \subseteq g.bits
      <4>1. OnWay(s, j + 1, h) /\ j + 1 \in Nat /\ j + 1 < k + 1
        BY <1>2, <3>4
      <4>. QED BY <3>2, <3>4, <4>1
    <3>. QED BY <3>2, <3>3, <3>4
  <2>. QED BY <1>2, <1>3, <1>11, <2>1, <2>2 DEF NothingErased
<1>13. AllOnTheWay(s)'
  <2>1. \A p : Reaches(s, p) => Reaches(s, p)'
    BY <1>2 DEF Reaches
  <2>2. Oldest(obj[s])' = Oldest(obj[s])
    BY <1>3, <1>11 DEF Oldest
  <2>3. AllOnTheWay(s)
    BY StreamFacts
  <2>. QED BY <1>3, <1>11, <2>1, <2>2, <2>3 DEF AllOnTheWay
<1>14. /\ pc' \in [Sub -> {"idle", "snapshot", "write", "select", "finished", "gone"}]
       /\ obj' \in [Sub -> Obj \cup {Unlisted}]
       /\ next' \in [Sub -> Nat \ {0}]
       /\ writing' \in [Sub -> SUBSET Frame]
       /\ obj'[s] = obj[s]
       /\ obj'[s] \in Obj => next'[s] <= Len(sent[obj'[s]]) + 1
       /\ UNCHANGED <<listVars, storeVars>>
  BY <1>1, <1>3, StreamFacts DEF ServingTypes
<1>. QED BY <1>6, <1>7, <1>8, <1>10, <1>12, <1>13, <1>14, ServeStep

-----------------------------------------------------------------------------
(* The steps of the registry and of the stores.                            *)

\* No stream moves; one object's store may.
LEMMA StoreStep ==
  ASSUME ServingInv, UNCHANGED serveVars,
         registry' \in Obj \cup {Unlisted},
         handle' \in [Obj -> {"none", "held", "gone"}],
         have' \in [Obj -> SUBSET Piece],
         marking' \in [Obj -> SUBSET Piece],
         sent' \in [Obj -> Seq(Piece)],
         \A o \in Obj :
            /\ registry' = o => handle'[o] # "none"
            /\ handle[o] # "none" => handle'[o] # "none"
            /\ handle'[o] = "none" => marking'[o] = {} /\ sent'[o] = <<>>
            /\ marking'[o] \subseteq have'[o]
            /\ \A k \in 1 .. Len(sent'[o]) : sent'[o][k] \in have'[o]
            /\ Len(sent[o]) <= Len(sent'[o]),
         \A s \in Sub : InShape(s)' /\ NothingErased(s)' /\ AllOnTheWay(s)'
  PROVE  ServingInv'
<1>1. /\ pc' = pc /\ obj' = obj /\ next' = next
      /\ writing' = writing /\ stream' = stream /\ known' = known
  BY DEF serveVars
<1>2. ServingTypes'
  BY <1>1 DEF ServingInv, ServingTypes
<1>3. ASSUME NEW o \in Obj
      PROVE  ListedFirst(o)'
  <2>1. ListedFirst(o)
    BY DEF ServingInv
  <2>2. Len(sent[o]) \in Nat /\ Len(sent'[o]) \in Nat /\ Len(sent[o]) <= Len(sent'[o])
    BY DEF ServingInv, ServingTypes
  <2>3. \A s \in Sub : obj[s] = o => next[s] <= Len(sent'[o]) + 1
    <3>1. \A s \in Sub : next[s] \in Nat
      BY DEF ServingInv, ServingTypes
    <3>. QED BY <2>1, <2>2, <3>1 DEF ListedFirst
  <2>. QED BY <1>1, <2>1, <2>3 DEF ListedFirst
<1>. QED BY <1>2, <1>3 DEF ServingInv

LEMMA ListInv ==
  ASSUME ServingInv, RemoveShare \/ \E o \in Obj : DropRegistration(o)
  PROVE  ServingInv'
<1>1. ServingTypes /\ \A o \in Obj : ListedFirst(o)
  BY DEF ServingInv
<1>2. UNCHANGED <<storeVars, serveVars>>
  BY DEF RemoveShare, DropRegistration
<1>3. /\ have' = have /\ marking' = marking /\ sent' = sent
      /\ \A s \in Sub : SameStream(s)
  BY <1>2 DEF storeVars, serveVars, SameStream
<1>4. /\ registry' \in {registry, Unlisted}
      /\ handle' \in [Obj -> {"none", "held", "gone"}]
      /\ \A o \in Obj : (handle'[o] = "none") <=> (handle[o] = "none")
  BY <1>1 DEF RemoveShare, DropRegistration, ServingTypes
<1>5. ASSUME NEW o \in Obj
      PROVE  /\ registry' = o => handle'[o] # "none"
             /\ handle[o] # "none" => handle'[o] # "none"
             /\ handle'[o] = "none" => marking'[o] = {} /\ sent'[o] = <<>>
             /\ marking'[o] \subseteq have'[o]
             /\ \A k \in 1 .. Len(sent'[o]) : sent'[o][k] \in have'[o]
             /\ Len(sent[o]) <= Len(sent'[o])
  <2>1. Len(sent[o]) \in Nat
    BY <1>1 DEF ServingTypes
  <2>. QED BY <1>1, <1>3, <1>4, <2>1, ServingAssumption DEF ListedFirst
<1>6. \A s \in Sub : InShape(s)' /\ NothingErased(s)' /\ AllOnTheWay(s)'
  BY <1>2, <1>3, QuietStream
<1>7. /\ registry' \in Obj \cup {Unlisted}
      /\ have' \in [Obj -> SUBSET Piece]
      /\ marking' \in [Obj -> SUBSET Piece]
      /\ sent' \in [Obj -> Seq(Piece)]
  BY <1>1, <1>3, <1>4 DEF ServingTypes
<1>. QED BY <1>2, <1>4, <1>5, <1>6, <1>7, StoreStep

LEMMA RegisterInv ==
  ASSUME ServingInv, NEW o \in Obj, Register(o)
  PROVE  ServingInv'
<1>1. ServingTypes /\ \A q \in Obj : ListedFirst(q)
  BY DEF ServingInv
<1>2. PICK P \in Restored : have' = [have EXCEPT ![o] = P]
  BY DEF Register
<1>3. P \in SUBSET Piece
  BY ServingAssumption
<1>4. /\ handle[o] = "none"
      /\ \/ registry' = o /\ handle' = [handle EXCEPT ![o] = "held"]
         \/ registry' = registry /\ handle' = [handle EXCEPT ![o] = "gone"]
      /\ UNCHANGED <<marking, sent, serveVars>>
  BY DEF Register
<1>5. /\ registry' \in Obj \cup {Unlisted}
      /\ handle' \in [Obj -> {"none", "held", "gone"}]
      /\ handle'[o] # "none" /\ \A q \in Obj : q # o => handle'[q] = handle[q]
      /\ have' \in [Obj -> SUBSET Piece]
      /\ have'[o] = P /\ \A q \in Obj : q # o => have'[q] = have[q]
      /\ marking' \in [Obj -> SUBSET Piece]
      /\ sent' \in [Obj -> Seq(Piece)]
  BY <1>1, <1>2, <1>3, <1>4 DEF ServingTypes
<1>6. /\ marking[o] = {} /\ sent[o] = <<>>
      /\ \A s \in Sub : obj[s] # o
  BY <1>1, <1>4 DEF ListedFirst
<1>7. ASSUME NEW q \in Obj
      PROVE  /\ registry' = q => handle'[q] # "none"
             /\ handle[q] # "none" => handle'[q] # "none"
             /\ handle'[q] = "none" => marking'[q] = {} /\ sent'[q] = <<>>
             /\ marking'[q] \subseteq have'[q]
             /\ \A k \in 1 .. Len(sent'[q]) : sent'[q][k] \in have'[q]
             /\ Len(sent[q]) <= Len(sent'[q])
  <2>1. Len(sent[q]) \in Nat
    BY <1>1 DEF ServingTypes
  <2>2. CASE q = o
    BY <1>4, <1>5, <1>6, <2>1, <2>2
  <2>3. CASE q # o
    <3>1. ListedFirst(q)
      BY <1>1
    <3>2. registry' = q => registry = q
      BY <1>4, <2>3
    <3>3. have'[q] = have[q] /\ marking'[q] = marking[q] /\ sent'[q] = sent[q]
          /\ handle'[q] = handle[q]
      BY <1>4, <1>5, <2>3
    <3>. QED BY <2>1, <3>1, <3>2, <3>3 DEF ListedFirst
  <2>. QED BY <2>2, <2>3
<1>8. ASSUME NEW s \in Sub
      PROVE  InShape(s)' /\ NothingErased(s)' /\ AllOnTheWay(s)'
  <2>1. SameStream(s)
    BY <1>4 DEF SameStream, serveVars
  <2>2. Oldest(obj[s])' = Oldest(obj[s]) /\ marking' = marking /\ sent' = sent
    BY <1>4 DEF Oldest, serveVars
  <2>3. obj[s] \in Obj => have'[obj[s]] = have[obj[s]]
    BY <1>5, <1>6
  <2>. QED BY <2>1, <2>2, <2>3, StreamKept
<1>. QED BY <1>4, <1>5, <1>7, <1>8, StoreStep

LEMMA MarkHaveInv ==
  ASSUME ServingInv, NEW o \in Obj, NEW p \in Piece, MarkHave(o, p)
  PROVE  ServingInv'
<1>1. ServingTypes /\ \A q \in Obj : ListedFirst(q)
  BY DEF ServingInv
<1>2. /\ have' = [have EXCEPT ![o] = @ \cup {p}]
      /\ marking' = [marking EXCEPT ![o] = @ \cup {p}]
      /\ UNCHANGED <<listVars, sent, serveVars>>
      /\ \E s \in Sub : obj[s] = o
  BY DEF MarkHave, Receivers
<1>3. /\ registry' = registry /\ handle' = handle /\ sent' = sent
      /\ have' \in [Obj -> SUBSET Piece]
      /\ have'[o] = have[o] \cup {p} /\ \A q \in Obj : q # o => have'[q] = have[q]
      /\ marking' \in [Obj -> SUBSET Piece]
      /\ marking'[o] = marking[o] \cup {p} /\ \A q \in Obj : q # o => marking'[q] = marking[q]
  BY <1>1, <1>2 DEF ServingTypes, listVars
<1>4. handle[o] # "none"
  BY <1>1, <1>2 DEF ListedFirst
<1>5. ASSUME NEW q \in Obj
      PROVE  /\ registry' = q => handle'[q] # "none"
             /\ handle[q] # "none" => handle'[q] # "none"
             /\ handle'[q] = "none" => marking'[q] = {} /\ sent'[q] = <<>>
             /\ marking'[q] \subseteq have'[q]
             /\ \A k \in 1 .. Len(sent'[q]) : sent'[q][k] \in have'[q]
             /\ Len(sent[q]) <= Len(sent'[q])
  <2>1. Len(sent[q]) \in Nat
    BY <1>1 DEF ServingTypes
  <2>2. CASE q = o
    BY <1>1, <1>3, <1>4, <2>1, <2>2 DEF ListedFirst
  <2>3. CASE q # o
    BY <1>1, <1>3, <2>1, <2>3 DEF ListedFirst
  <2>. QED BY <2>2, <2>3
<1>6. ASSUME NEW s \in Sub
      PROVE  InShape(s)' /\ NothingErased(s)' /\ AllOnTheWay(s)'
  <2>1. SameStream(s)
    BY <1>2 DEF SameStream, serveVars
  <2>2. Oldest(obj[s])' = Oldest(obj[s])
    BY <1>3, <2>1 DEF Oldest, SameStream
  <2>3. obj[s] \in Obj =>
           /\ have[obj[s]] \subseteq have'[obj[s]]
           /\ \A x \in have'[obj[s]] : x \in have[obj[s]] \ marking[obj[s]] \/ x \in marking'[obj[s]]
    BY <1>3
  <2>. QED BY <1>3, <2>1, <2>2, <2>3, StreamKept
<1>7. registry' \in Obj \cup {Unlisted} /\ handle' \in [Obj -> {"none", "held", "gone"}]
      /\ sent' \in [Obj -> Seq(Piece)]
  BY <1>1, <1>3 DEF ServingTypes
<1>. QED BY <1>2, <1>3, <1>5, <1>6, <1>7, StoreStep

LEMMA SendHaveInv ==
  ASSUME ServingInv, NEW o \in Obj, NEW p \in Piece, SendHave(o, p)
  PROVE  ServingInv'
<1>1. ServingTypes /\ \A q \in Obj : ListedFirst(q)
  BY DEF ServingInv
<1>2. /\ p \in marking[o]
      /\ marking' = [marking EXCEPT ![o] = @ \ {p}]
      /\ UNCHANGED <<listVars, have, serveVars>>
  BY DEF SendHave
<1>3. PICK q \in Seq(Piece), n \in Nat : q = sent[o] /\ n = Len(q)
  BY <1>1 DEF ServingTypes
<1>4. /\ Append(q, p) \in Seq(Piece) /\ Len(Append(q, p)) = n + 1
      /\ \A k \in 1 .. n : Append(q, p)[k] = q[k]
      /\ Append(q, p)[n + 1] = p
  BY <1>3
<1>5. \/ Receivers(o) = {} /\ sent' = sent
      \/ Receivers(o) # {} /\ sent' = [sent EXCEPT ![o] = Append(q, p)]
  BY <1>3 DEF SendHave
<1>6. /\ registry' = registry /\ handle' = handle /\ have' = have
      /\ marking' \in [Obj -> SUBSET Piece]
      /\ marking'[o] = marking[o] \ {p} /\ \A x \in Obj : x # o => marking'[x] = marking[x]
      /\ sent' \in [Obj -> Seq(Piece)]
      /\ \A x \in Obj : x # o => sent'[x] = sent[x]
      /\ \/ Receivers(o) = {} /\ sent'[o] = q
         \/ Receivers(o) # {} /\ sent'[o] = Append(q, p)
  BY <1>1, <1>2, <1>3, <1>4, <1>5, ZenonT(30) DEF ServingTypes, listVars
<1>7. handle[o] # "none" /\ p \in have[o]
  BY <1>1, <1>2 DEF ListedFirst
<1>8. ASSUME NEW x \in Obj
      PROVE  /\ registry' = x => handle'[x] # "none"
             /\ handle[x] # "none" => handle'[x] # "none"
             /\ handle'[x] = "none" => marking'[x] = {} /\ sent'[x] = <<>>
             /\ marking'[x] \subseteq have'[x]
             /\ \A k \in 1 .. Len(sent'[x]) : sent'[x][k] \in have'[x]
             /\ Len(sent[x]) <= Len(sent'[x])
  <2>1. Len(sent[x]) \in Nat
    BY <1>1 DEF ServingTypes
  <2>2. CASE x = o
    <3>1. ListedFirst(o)
      BY <1>1
    <3>2. \A k \in 1 .. n : q[k] \in have[o]
      BY <1>3, <3>1 DEF ListedFirst
    <3>3. \A k \in 1 .. Len(sent'[o]) : sent'[o][k] \in have'[o]
      <4>1. CASE sent'[o] = q
        BY <1>3, <1>6, <3>2, <4>1
      <4>2. CASE sent'[o] = Append(q, p)
        <5>. SUFFICES ASSUME NEW k \in 1 .. n + 1 PROVE Append(q, p)[k] \in have[o]
          BY <1>4, <1>6, <4>2
        <5>. QED BY <1>4, <1>7, <3>2
      <4>. QED BY <1>6, <4>1, <4>2
    <3>4. Len(sent[o]) <= Len(sent'[o])
      BY <1>3, <1>4, <1>6
    <3>. QED BY <1>6, <1>7, <2>2, <3>1, <3>3, <3>4 DEF ListedFirst
  <2>3. CASE x # o
    <3>1. ListedFirst(x)
      BY <1>1
    <3>2. /\ registry' = registry /\ handle' = handle /\ have' = have
          /\ marking'[x] = marking[x] /\ sent'[x] = sent[x]
      BY <1>6, <2>3
    <3>. QED BY <2>1, <3>1, <3>2 DEF ListedFirst
  <2>. QED BY <2>2, <2>3
<1>9. ASSUME NEW s \in Sub
      PROVE  InShape(s)' /\ NothingErased(s)' /\ AllOnTheWay(s)'
  <2>1. SameStream(s)
    BY <1>2 DEF SameStream, serveVars
  <2>2. CASE obj[s] # o
    <3>1. obj[s] \in Obj => /\ sent'[obj[s]] = sent[obj[s]] /\ marking'[obj[s]] = marking[obj[s]]
                            /\ Oldest(obj[s])' = Oldest(obj[s])
      BY <1>6, <2>1, <2>2 DEF Oldest, SameStream
    <3>. QED BY <1>6, <2>1, <2>2, <3>1, StreamKept
  <2>3. CASE obj[s] = o /\ pc[s] \notin {"write", "select"}
    BY <1>6, <2>1, <2>3, StreamKept
  <2>4. CASE obj[s] = o /\ pc[s] \in {"write", "select"}
    <3>1. sent'[o] = Append(q, p)
      BY <1>6, <2>4 DEF Receivers
    <3>2. next[s] \in Nat \ {0} /\ next[s] <= n + 1
      BY <1>3, <2>4, StreamFacts
    <3>3. next[s] >= Oldest(obj[s])' => next[s] >= Oldest(obj[s])
      BY <1>3, <1>4, <2>1, <2>4, <3>1, <3>2, ServingAssumption DEF Oldest, SameStream
    <3>4. ASSUME NEW x \in have'[o]
          PROVE  \/ x \in have[o] \ marking[o]
                 \/ x \in marking'[o]
                 \/ \E k \in next[s] .. Len(sent'[o]) : sent'[o][k] = x
      <4>1. n + 1 \in next[s] .. Len(sent'[o]) /\ sent'[o][n + 1] = p
        BY <1>4, <3>1, <3>2
      <4>. QED BY <1>6, <4>1
    <3>5. ASSUME NEW k \in next[s] .. Len(sent[o])
          PROVE  k \in next[s] .. Len(sent'[o]) /\ sent'[o][k] = sent[o][k]
      <4>1. k \in 1 .. n
        BY <1>3, <3>2
      <4>. QED BY <1>3, <1>4, <3>1, <3>2, <4>1
    <3>. QED BY <1>6, <2>1, <2>4, <3>3, <3>4, <3>5, StreamKept
  <2>. QED BY <2>2, <2>3, <2>4
<1>10. registry' \in Obj \cup {Unlisted} /\ handle' \in [Obj -> {"none", "held", "gone"}]
       /\ have' \in [Obj -> SUBSET Piece]
  BY <1>1, <1>6 DEF ServingTypes
<1>. QED BY <1>2, <1>6, <1>8, <1>9, <1>10, StoreStep

-----------------------------------------------------------------------------
(* The theorems.                                                           *)

LEMMA ServingStarts ==
  ASSUME ServingInit
  PROVE  ServingInv
<1>1. ServingTypes
  BY DEF ServingInit, ServingTypes, Frame
<1>2. \A o \in Obj : ListedFirst(o)
  BY ServingAssumption DEF ServingInit, ListedFirst
<1>3. ASSUME NEW s \in Sub
      PROVE  InShape(s) /\ NothingErased(s) /\ AllOnTheWay(s)
  <2>1. \A k, f : ~ OnWay(s, k, f)
    BY DEF ServingInit, OnWay
  <2>. QED BY <2>1, ServingAssumption DEF ServingInit, InShape, NothingErased, AllOnTheWay
<1>. QED BY <1>1, <1>2, <1>3 DEF ServingInv

LEMMA ServingInvKept ==
  ASSUME ServingInv, [ServingNext]_vars
  PROVE  ServingInv'
<1>1. CASE UNCHANGED vars
  <2>1. UNCHANGED <<listVars, storeVars, serveVars>>
    BY <1>1 DEF vars
  <2>2. \A s \in Sub : InShape(s)' /\ NothingErased(s)' /\ AllOnTheWay(s)'
    BY <2>1, QuietStream DEF serveVars, SameStream
  <2>3. ServingTypes'
    BY <2>1 DEF ServingInv, ServingTypes, listVars, storeVars, serveVars
  <2>4. \A o \in Obj : ListedFirst(o)'
    BY <2>1 DEF ServingInv, ListedFirst, listVars, storeVars, serveVars
  <2>. QED BY <2>2, <2>3, <2>4 DEF ServingInv
<1>. QED BY <1>1, ListInv, RegisterInv, MarkHaveInv, SendHaveInv, SubscribeInv, SnapshotInv,
            WriteInv, ReceiveInv, LaggedInv, CheckInv, DisconnectInv, ReadInv DEF ServingNext

\* The registry, the channel and the streams stay in step (registration.rs,
\* local.rs and handler.rs).
THEOREM ServingInvariant == ServingSpec => []ServingInv
<1>1. ServingInit => ServingInv
  BY ServingStarts
<1>2. ServingInv /\ [ServingNext]_vars => ServingInv'
  BY ServingInvKept
<1>. QED BY <1>1, <1>2, PTL DEF ServingSpec

\* The types of the state, and that a handler holds one frame exactly while it
\* writes it (handler.rs, serve_subscription).
THEOREM ServingTypeCorrect == ServingSpec => []ServingTypeOK
<1>1. ASSUME ServingInv, NEW s \in Sub
      PROVE  Cardinality(writing[s]) = (IF pc[s] = "write" THEN 1 ELSE 0)
  <2>1. InShape(s)
    BY <1>1, StreamFacts
  <2>2. CASE pc[s] = "write"
    <3>1. PICK f \in Frame : writing[s] = {f}
      BY <2>1, <2>2 DEF InShape
    <3>2. Cardinality({f}) = 1
      BY FS_Singleton
    <3>. QED BY <2>2, <3>1, <3>2
  <2>3. CASE pc[s] # "write"
    <3>1. writing[s] = {}
      BY <2>1, <2>3 DEF InShape
    <3>2. Cardinality({}) = 0
      BY FS_EmptySet
    <3>. QED BY <2>3, <3>1, <3>2
  <2>. QED BY <2>2, <2>3
<1>2. ServingInv => ServingTypeOK
  BY <1>1 DEF ServingInv, ServingTypes, ServingTypeOK, InShape
<1>. QED BY <1>2, ServingInvariant, PTL

\* "before the snapshot, so nothing is missed" (handler.rs, serve_subscription):
\* every piece of the share is told, still to be received or still to be sent,
\* whatever the capacity of the channel.
THEOREM ServingNothingMissed == ServingSpec => []NothingMissed
<1>1. ASSUME ServingInv, NEW s \in Sub, pc[s] = "select", NEW p, Reaches(s, p)
      PROVE  p \in Told(s)
  <2>1. obj[s] \in Obj /\ have[obj[s]] \in SUBSET Piece /\ known[s] \subseteq have[obj[s]]
    BY <1>1, StreamFacts DEF InShape, NothingErased
  <2>2. ASSUME NEW q \in Pending(s)
        PROVE  \E k \in Nat, f \in Frame : q = <<k, f>> /\ OnWay(s, k, f)
    BY <1>1, <2>2, StreamFacts DEF Pending, OnWay
  <2>3. \A k \in Nat, f \in Frame : OnWay(s, k, f) => <<k, f>> \in Pending(s)
    BY DEF Pending, OnWay
  <2>4. CASE p \in known[s]
    <3>1. p \in Stays(s, 0)
      BY <1>1, <2>1, <2>2, <2>4, StreamFacts DEF Stays, NothingErased
    <3>. QED BY <2>4, <3>1 DEF Told
  <2>5. ASSUME NEW k \in Nat, NEW f \in Frame, OnWay(s, k, f), p \in f.bits
        PROVE  p \in Told(s)
    <3>1. p \in Piece
      BY <2>5, FrameFacts
    <3>2. \A j \in Nat, g \in Frame :
             OnWay(s, j, g) /\ j > k /\ g.frame = "Bitfield" => p \in g.bits
      BY <1>1, <2>5, StreamFacts DEF NothingErased
    <3>3. p \in Stays(s, k)
      BY <2>2, <3>1, <3>2 DEF Stays
    <3>4. <<k, f>> \in Pending(s)
      BY <2>3, <2>5
    <3>. QED BY <2>5, <3>3, <3>4 DEF Told
  <2>. QED BY <1>1, <2>4, <2>5 DEF Reaches
<1>2. ASSUME ServingInv PROVE NothingMissed
  BY <1>1, <1>2 DEF ServingInv, AllOnTheWay, NothingMissed
<1>. QED BY <1>2, ServingInvariant, PTL

\* A bitfield sent again never takes a piece away from a subscriber that follows
\* the stream (local.rs, mark_have: `have` is written before the message is
\* sent).
THEOREM ServingNeverUnlearned == ServingSpec => NeverUnlearned
<1>1. ASSUME ServingInv, [ServingNext]_vars, NEW s \in Sub, pc'[s] # "gone"
      PROVE  known[s] \subseteq known'[s]
  <2>1. known \in [Sub -> SUBSET Piece] /\ pc \in [Sub -> {"idle", "snapshot", "write", "select", "finished", "gone"}]
    BY <1>1 DEF ServingInv, ServingTypes
  <2>2. CASE known' = known
    BY <2>2
  <2>3. ASSUME NEW t \in Sub, Read(t)
        PROVE  known[s] \subseteq known'[s]
    <3>1. CASE t = s
      BY <1>1, <2>3, <3>1, ReadEffect
    <3>2. CASE t # s
      <4>1. PICK L : known' = [known EXCEPT ![t] = L]
        BY <2>3 DEF Read
      <4>. QED BY <2>1, <3>2, <4>1
    <3>. QED BY <3>1, <3>2
  <2>4. ASSUME NEW t \in Sub, Disconnect(t)
        PROVE  known[s] \subseteq known'[s]
    BY <1>1, <2>1, <2>4 DEF Disconnect
  <2>. QED BY <1>1, <2>2, <2>3, <2>4
           DEF ServingNext, RemoveShare, Register, DropRegistration, MarkHave, SendHave,
               Subscribe, Snapshot, Write, Receive, Lagged, Check, listVars, serveVars, vars
<1>2. ServingInv /\ [ServingNext]_vars =>
         [\A s \in Sub : pc'[s] # "gone" => known[s] \subseteq known'[s]]_vars
  BY <1>1
<1>. QED BY <1>2, ServingInvariant, PTL DEF ServingSpec, NeverUnlearned

\* Dropping a Registration unlists its own object only, never one that was
\* listed after it under the same id (registration.rs, drop).
THEOREM ServingOnlyOwnUnlisted == ServingSpec => OnlyOwnUnlisted
<1>1. ASSUME ServingInv, [ServingNext]_vars, NEW o \in Obj, registry = o, registry' # o
      PROVE  handle'[o] # "held" \/ RemoveShare
  <2>1. ~ UNCHANGED registry
    BY <1>1
  <2>2. registry # Unlisted /\ handle \in [Obj -> {"none", "held", "gone"}]
    BY <1>1, ServingAssumption DEF ServingInv, ServingTypes
  <2>3. ASSUME NEW q \in Obj, DropRegistration(q)
        PROVE  handle'[o] # "held"
    BY <1>1, <2>1, <2>2, <2>3 DEF DropRegistration
  <2>. QED BY <1>1, <2>1, <2>2, <2>3
           DEF ServingNext, Register, MarkHave, SendHave,
               Subscribe, Snapshot, Write, Receive, Lagged, Check, Disconnect, Read,
               listVars, vars
<1>2. ServingInv /\ [ServingNext]_vars =>
         [\A o \in Obj : registry = o /\ registry' # o => handle'[o] # "held" \/ RemoveShare]_vars
  BY <1>1
<1>. QED BY <1>2, ServingInvariant, PTL DEF ServingSpec, OnlyOwnUnlisted
=============================================================================
