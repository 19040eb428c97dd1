------------------------------- MODULE Joining -------------------------------
(***************************************************************************)
(* How a download finds its first peer: the manifest phase of run,         *)
(* fetch_manifest and PeerTracker::add_candidate (download.rs), with the   *)
(* addresses a share code lists (share.rs, client.rs) and those the swarm  *)
(* announces (discovery.rs), up to the layout of the files the manifest    *)
(* lists (Layout.tla).                                                     *)
(*                                                                         *)
(* The phase is one task; what interleaves with it are announcements, the  *)
(* caller's cancel, the peers and time. Time is a number of ticks, and a   *)
(* tick passes only when the task waits for it.                            *)
(***************************************************************************)
EXTENDS Layout, SequencesExt

CONSTANTS
    Peer,            \* ids; the peers of the swarm
    Me,              \* ours
    Address,         \* addresses share codes may list
    Folder,          \* what may be shared: names below the root
    RootName,        \* the root's own name, or a label
    Size,            \* of files
    Announcing,      \* peers the swarm announces
    Good,            \* peers that serve the share, and answer at once when
    Needs,           \* they are dialed where they are for this many ticks
    ChannelCap,      \* of found_rx
    Deadline,        \* discovery_timeout
    FirstAttempt,    \* FIRST_ATTEMPT
    ConnectTimeout,  \* CONNECT_TIMEOUT
    RequestTimeout,  \* REQUEST_TIMEOUT
    Breath           \* the pause of 500 ms

ASSUME JoiningAssumption ==
    /\ Me \in Peer
    /\ Address \subseteq [id : Peer, current : BOOLEAN]
    /\ Announcing \subseteq Peer
    /\ Good \subseteq Peer
    /\ \A f \in Folder : f \subseteq Seq(Name) /\ IsFiniteSet(f)
    /\ RootName \in Name
    /\ Size \subseteq Nat
    /\ {Needs, ChannelCap, Deadline, FirstAttempt, ConnectTimeout, RequestTimeout, Breath}
           \subseteq Nat \ {0}

VARIABLES
    share,       \* the manifest behind the share code
    honest,      \* whether the code states its name and size
    code,        \* the peers the code lists
    phase,       \* where the task is
    found,       \* the channel found_rx
    candidates,  \* peers to ask, in turn
    next,        \* whose turn it is
    attempts,    \* how often each peer was dialed
    target,      \* the address being tried
    sure,        \* this attempt reaches a good peer and is long enough for it
    timer,       \* ticks until the wait the task is in runs out
    left,        \* ticks until the deadline
    sizes,       \* of the files that were laid out
    stalled,     \* history: some peer let a request wait
    over,        \* history: ticks since the deadline
    turns,       \* history: attempts since the last candidate was added,
    tried        \* and whom they went to

codeVars == <<share, honest, code>>
pastVars == <<turns, tried>>
vars == <<codeVars, phase, found, candidates, next, attempts, target, sure, timer, left,
          sizes, stalled, over, pastVars>>

Final == {"found", "failed", "cancelled"}
Phase == {"look", "empty", "dial", "ask", "pause"} \cup Final

AddressOf(p, c) == [id |-> p, current |-> c]

\* Peers are told apart by id. An address that is not current reaches its peer
\* only by luck (a lookup by id).
Lists(s, p) == \E i \in DOMAIN s : s[i].id = p

-----------------------------------------------------------------------------
(* Share codes.                                                            *)

\* The addresses of s that are not p's.
Others(s, p) == FoldLeft(LAMBDA r, k : IF k.id = p THEN r ELSE Append(r, k), <<>>, s)

\* SeedHandle::share_code: our address, then the other seeders we know of.
ShareCode(addr, known) == <<addr>> \o Others(known, addr.id)

AppendNew(s, addr) == IF Lists(s, addr.id) THEN s ELSE Append(s, addr)

\* ShareCode::merge.
Merge(s, other) == FoldLeft(AppendNew, s, other)

\* The codes a user gives, for one download.
Given(codes) == FoldLeft(Merge, Head(codes), Tail(codes))

\* Only what from_disk shares has a code.
Shares == {FromDisk(RootName, f) : f \in {g \in Folder : Shareable(RootName, g)}}

\* try_send drops an address when the channel is full.
TrySend(channel, addr) ==
    IF Len(channel) < ChannelCap THEN Append(channel, addr) ELSE channel

JoiningInit ==
    /\ share \in Shares
    /\ honest \in BOOLEAN
    /\ \E x, y, z \in Address : code = Given(<<ShareCode(x, <<y>>), ShareCode(z, <<>>)>>)
    /\ phase = "look"
    /\ found = FoldLeft(TrySend, <<>>, code)
    /\ candidates = <<>>
    /\ next = 0
    /\ attempts = [p \in Peer |-> 0]
    /\ target = AddressOf(Me, TRUE)
    /\ sure = FALSE
    /\ timer = 0
    /\ left = Deadline
    /\ sizes = <<>>
    /\ stalled = FALSE
    /\ over = 0
    /\ turns = 0
    /\ tried = {}

Goto(p, ticks) == phase' = p /\ timer' = ticks

\* (mutant: an address heard later is another candidate)
AddCandidateTwice(s, addr) ==
    IF addr.id = Me \/ addr \in ToSet(s) THEN s ELSE Append(s, addr)

\* add_candidate: once per peer, at the address heard first.
AddCandidate(s, addr) == IF addr.id = Me THEN s ELSE AppendNew(s, addr)

-----------------------------------------------------------------------------
(* The loop.                                                               *)

\* Short first tries, longer later ones ...
Longest(tries) == Min({FirstAttempt * 2 ^ Min({tries, 4}), ConnectTimeout})

\* (mutant: a dial may go beyond the deadline)
LimitFull(tries) == Longest(tries)

\* (mutant: the tries get no longer)
LimitConstant(tries) == Min({FirstAttempt, left})

\* ... never beyond the deadline.
Limit(tries) == Min({Longest(tries), left})

\* (mutant: the turn is not passed on)
LookSame ==
    /\ phase = "look"
    /\ found' = <<>>
    /\ candidates' = FoldLeft(AddCandidate, candidates, found)
    /\ LET addr == candidates'[(next % Len(candidates')) + 1]
           kept == IF candidates' = candidates THEN turns ELSE 0
           seen == IF candidates' = candidates THEN tried ELSE {}
       IN  \/ /\ candidates' = <<>> \/ left = 0
              /\ Goto(IF candidates' = <<>> THEN "empty" ELSE "failed", 0)
              /\ turns' = kept /\ tried' = seen
              /\ UNCHANGED <<next, attempts, target, sure>>
           \/ /\ candidates' # <<>> /\ left > 0
              /\ attempts' = [attempts EXCEPT ![addr.id] = @ + 1]
              /\ target' = addr
              /\ Goto("dial", Limit(attempts[addr.id]))
              /\ sure' = (addr.id \in Good /\ addr.current /\ timer' >= Needs)
              /\ turns' = kept + 1 /\ tried' = seen \cup {addr.id}
              /\ UNCHANGED next
    /\ UNCHANGED <<codeVars, left, sizes, stalled, over>>

\* The head of the loop: everything heard is added, then the next candidate is
\* dialed if there is one and the deadline is not over.
Look ==
    /\ phase = "look"
    /\ found' = <<>>
    /\ candidates' = FoldLeft(AddCandidate, candidates, found)
    /\ LET addr == candidates'[(next % Len(candidates')) + 1]
           kept == IF candidates' = candidates THEN turns ELSE 0
           seen == IF candidates' = candidates THEN tried ELSE {}
       IN  \/ /\ candidates' = <<>> \/ left = 0
              /\ Goto(IF candidates' = <<>> THEN "empty" ELSE "failed", 0)
              /\ turns' = kept /\ tried' = seen
              /\ UNCHANGED <<next, attempts, target, sure>>
           \/ /\ candidates' # <<>> /\ left > 0
              /\ next' = next + 1
              /\ attempts' = [attempts EXCEPT ![addr.id] = @ + 1]
              /\ target' = addr
              /\ Goto("dial", Limit(attempts[addr.id]))
              /\ sure' = (addr.id \in Good /\ addr.current /\ timer' >= Needs)
              /\ turns' = kept + 1 /\ tried' = seen \cup {addr.id}
    /\ UNCHANGED <<codeVars, left, sizes, stalled, over>>

\* Nobody is known: wait for somebody to announce itself ...
Hear ==
    /\ phase = "empty"
    /\ found # <<>>
    /\ candidates' = AddCandidate(candidates, Head(found))
    /\ found' = Tail(found)
    /\ Goto("look", 0)
    /\ turns' = 0 /\ tried' = {}
    /\ UNCHANGED <<codeVars, next, attempts, target, sure, left, sizes, stalled, over>>

\* ... until the deadline.
GiveUp ==
    /\ phase = "empty"
    /\ found = <<>> /\ left = 0
    /\ Goto("failed", 0)
    /\ UNCHANGED <<codeVars, found, candidates, next, attempts, target, sure, left, sizes,
                   stalled, over, pastVars>>

Connected ==
    /\ phase = "dial"
    /\ Goto("ask", RequestTimeout)
    /\ UNCHANGED <<codeVars, found, candidates, next, attempts, target, sure, left, sizes,
                   stalled, over, pastVars>>

\* The pause after an attempt, not beyond the deadline.
Rest == Goto("pause", Min({Breath, left}))

\* The dial fails, or its limit is over.
DialFails ==
    /\ phase = "dial"
    /\ ~sure
    /\ Rest
    /\ UNCHANGED <<codeVars, found, candidates, next, attempts, target, sure, left, sizes,
                   stalled, over, pastVars>>

\* fetch_manifest takes a manifest with the id of the code, not too large, that
\* is valid and has the name and size the code states.
Acceptable == Fits(share) /\ Validate(share) /\ honest

\* The other candidates will be downloaded from too.
PassOn(channel) == FoldLeft(TrySend, channel, Others(candidates, target.id))

\* The peer sends the manifest; its files are laid out. The loop and its
\* variables are left.
Received ==
    /\ phase = "ask"
    /\ Acceptable
    /\ \E s \in [1 .. Cardinality(share.paths) -> Size] : sizes' = s
    /\ found' = PassOn(found)
    /\ candidates' = <<>> /\ next' = 0 /\ attempts' = [p \in Peer |-> 0]
    /\ turns' = 0 /\ tried' = {}
    /\ Goto("found", 0)
    /\ UNCHANGED <<codeVars, target, sure, left, stalled, over>>

\* It does not serve the share to us, sends another manifest, goes away, or
\* lets REQUEST_TIMEOUT pass.
NotReceived ==
    /\ phase = "ask"
    /\ target.id \in Good => ~Acceptable
    /\ Rest
    /\ UNCHANGED <<codeVars, found, candidates, next, attempts, target, sure, left, sizes,
                   stalled, over, pastVars>>

Rested ==
    /\ phase = "pause"
    /\ timer = 0
    /\ Goto("look", 0)
    /\ UNCHANGED <<codeVars, found, candidates, next, attempts, target, sure, left, sizes,
                   stalled, over, pastVars>>

-----------------------------------------------------------------------------
(* The outside.                                                            *)

\* keep hears an announcement and passes the address on.
Announce(p) ==
    /\ phase \notin Final
    /\ found' = TrySend(found, AddressOf(p, TRUE))
    /\ UNCHANGED <<codeVars, phase, candidates, next, attempts, target, sure, timer, left,
                   sizes, stalled, over, pastVars>>

\* cancel(), or the handle is dropped. Every wait of the task ends with it.
Cancel ==
    /\ phase \in {"empty", "dial", "ask", "pause"}
    /\ Goto("cancelled", 0)
    /\ UNCHANGED <<codeVars, found, candidates, next, attempts, target, sure, left, sizes,
                   stalled, over, pastVars>>

\* Time passes while the task waits.
Tick ==
    /\ \/ phase \in {"dial", "ask", "pause"} /\ timer > 0
       \/ phase = "empty" /\ left > 0 /\ found = <<>>
    /\ ~(phase = "ask" /\ target.id \in Good)
    /\ left' = Max({left - 1, 0})
    /\ timer' = Max({timer - 1, 0})
    /\ over' = IF left = 0 THEN over + 1 ELSE 0
    /\ stalled' = (stalled \/ phase = "ask")
    /\ UNCHANGED <<codeVars, phase, found, candidates, next, attempts, target, sure, sizes,
                   pastVars>>

JoiningNext ==
    \/ Look \/ Hear \/ GiveUp \/ Connected \/ DialFails \/ Received \/ NotReceived
    \/ Rested \/ Cancel \/ Tick
    \/ \E p \in Announcing : Announce(p)

JoiningSpec == JoiningInit /\ [][JoiningNext]_vars

-----------------------------------------------------------------------------
(* Properties.                                                             *)

JoiningTypeOK ==
    /\ share \in Shares
    /\ honest \in BOOLEAN
    /\ code \in Seq(Address)
    /\ phase \in Phase
    /\ found \in Seq([id : Peer, current : BOOLEAN]) /\ Len(found) <= ChannelCap
    /\ candidates \in Seq([id : Peer \ {Me}, current : BOOLEAN])
    /\ \A i, j \in DOMAIN candidates : candidates[i].id = candidates[j].id => i = j
    /\ next \in Nat
    /\ attempts \in [Peer -> Nat]
    /\ target \in [id : Peer, current : BOOLEAN]
    /\ sure \in BOOLEAN
    /\ timer \in Nat
    /\ left \in 0 .. Deadline
    /\ sizes \in Seq(Size)
    /\ {stalled} \subseteq BOOLEAN
    /\ over \in Nat
    /\ turns \in Nat
    /\ tried \subseteq Peer

\* `next % candidates.len()` (download.rs:136) passes no candidate over: since
\* the list grew last, the attempts went to as many peers as there were
\* attempts, until everyone had a turn.
TurnsRotate == Cardinality(tried) = Min({turns, Len(candidates)})

\* "How long a download looks for a first peer before failing" (client.rs:138):
\* the dials and pauses respect the deadline, only the request of the last
\* attempt may go on for its own timeout.
EndsInTime == over <= RequestTimeout

\* Whether the code lists a good peer where it is.
GoodListed ==
    \E i \in DOMAIN code : code[i].id \in Good \ {Me} /\ code[i].current

Ids(s) == {s[i].id : i \in DOMAIN s}

\* Who may become a candidate, and who of them is not listed.
Heard == (Ids(code) \cup Announcing) \ {Me}
Newcomers == Heard \ Ids(code)

\* Dial number k, from 0, of a good peer is long enough, and the deadline has
\* room for every attempt before it: k rounds of all candidates, and, for the
\* first list and each newcomer that changes it, a round to the good peer's turn.
EnoughFor(k) ==
    /\ Needs <= Longest(k)
    /\ LET m == Cardinality(Heard)
           before == m * k + (m - 1) * (Cardinality(Newcomers) + 1)
       IN  Needs + before * (ConnectTimeout + Breath) <= Deadline

EnoughTime ==
    /\ Len(code) <= ChannelCap
    /\ IsFiniteSet(Announcing)
    /\ \E k \in 0 .. 4 : EnoughFor(k)

\* NoPeersFound has a reason: a peer let the request for the manifest wait (see
\* EveryPeerTried), no good peer is listed at its current address (a better
\* address heard later is not taken), the code misstates the share, the manifest
\* is larger than a downloader takes, or the time is too short for the number of
\* peers.
FailedHonestly ==
    phase = "failed" =>
        stalled \/ ~GoodListed \/ ~honest \/ ~Fits(share) \/ ~EnoughTime

\* The numbering of the pieces against its definition: piece by piece, file by
\* file, every byte belongs to one piece. Empty files have none.
Blocks(f) ==
    [k \in 1 .. Pieces(sizes[f]) |->
        [file |-> f, start |-> (k - 1) * Block, end |-> Min({k * Block, sizes[f]})]]

AllBlocks == FlattenSeq([f \in DOMAIN sizes |-> Blocks(f)])

LocateExact ==
    /\ TotalPieces(sizes) = Len(AllBlocks)
    /\ \A p \in 1 .. Len(AllBlocks) : Locate(sizes, p - 1) = AllBlocks[p]
    /\ \A f \in DOMAIN sizes :
          PiecesOf(sizes, f) = {p - 1 : p \in {q \in DOMAIN AllBlocks : AllBlocks[q].file = f}}

\* A file whose pieces are all here is read from those pieces only.
ReadsAreHeld ==
    \A f \in DOMAIN sizes : \A offset, len \in 0 .. sizes[f] + 1 :
        PiecesRead(sizes, f, offset, len) \subseteq PiecesOf(sizes, f)

\* A bitfield says what the sender holds, and nothing where it is cut short.
BitsRoundTrip ==
    LET total == TotalPieces(sizes)
    IN  \A have \in SUBSET (0 .. total - 1) :
            /\ UnpackBits(PackBits(have, total), total) = have
            /\ UnpackBits(<<>>, total) = {}

\* What manifest.rs computes of any list of sizes is what the rest of the code
\* takes it for: pieces, files, bytes and bits name the same things.
LayoutSound == phase = "found" => LocateExact /\ ReadsAreHeld /\ BitsRoundTrip

\* "Keep retrying every known peer until the deadline ... a single stalled
\* attempt mustn't sink the download" (download.rs:112): a download that fails
\* has tried every peer the code lists.
EveryPeerTried ==
    phase = "failed" => \A i \in DOMAIN code : code[i].id # Me => attempts[code[i].id] > 0
=============================================================================
