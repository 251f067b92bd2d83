----------------------- MODULE StationClientPlcProofs -----------------------
(***************************************************************************)
(* The reception of a main barcode, and of a code, from the PLC of a line  *)
(* (StationClient): the code a snapshot confirms is that of the part whose *)
(* end raised the counter.                                                 *)
(*                                                                         *)
(* The invariant follows the counter from the window's baseline through    *)
(* the snapshots in the queue and the read under way to the line: wherever *)
(* the count rises on that way, the code read with it belongs to the part  *)
(* that raised it.                                                         *)
(***************************************************************************)
EXTENDS StationClientProofs

\* The worker may still read the line.
Polling(s) == s.plc.pc \in {"starting", "idle", "counted"}

\* A snapshot with a count above b shows the part whose end raised the counter.
Follows(p, b) == p.count > b => p.code = p.of /\ p.of # None

\* A line that has counted on from b still shows the part it finished, and nobody has
\* read the count.
LineFrom(l, b) ==
    l.count > b => l.finished /\ ~l.seen /\ l.code = l.of /\ l.of # None

\* And what the worker is reading will follow a snapshot with count b.
Onward(s, l, b) ==
    /\ LineFrom(l, b)
    /\ s.plc.pc = "counted" /\ s.plc.count > b =>
          l.finished /\ ~l.seen /\ l.code = s.plc.of /\ s.plc.of # None

\* The snapshots in the queue follow each other, and what is read next the last of them.
Queue(s, l) ==
    /\ \A i \in 1..(Len(s.snaps) - 1) : Follows(s.snaps[i + 1], s.snaps[i].count)
    /\ s.snaps # <<>> => Onward(s, l, s.snaps[Len(s.snaps)].count)
    /\ s.plc.pc = "counted" => LineFrom(l, s.plc.count)

\* The next snapshot follows the baseline.
FromBase(s, l) ==
    s.a.base # None =>
        /\ s.snaps # <<>> => Follows(s.snaps[1], s.a.base)
        /\ s.snaps = <<>> /\ Polling(s) => Onward(s, l, s.a.base)

\* What waits to be confirmed is the code that was shown last.
Waits(a) == a.waiting => a.base # None /\ a.pending = a.last

\* A worker polls for the step in hand, unless it is stale.
Chain(s, l) ==
    /\ Queue(s, l)
    /\ Waits(s.a)
    /\ s.plc.pc # "off" /\ ~s.plc.stale => Receiving(s.a)
    /\ Receiving(s.a) /\ ~s.plc.stale => FromBase(s, l)

\* What a prompt makes a chain of, whatever the step.
Carries(s, l) ==
    /\ Queue(s, l)
    /\ Waits(s.a)
    /\ s.plc.pc # "off" /\ ~s.plc.stale => FromBase(s, l)

LineShows == ~line.finished => line.code # None

PInv == Chain(Client, line) /\ LineShows

-----------------------------------------------------------------------------
(* Chains and the helpers of the window.                                    *)

LEMMA Counts ==
    /\ MaxCount \in Nat /\ None \notin 0..MaxCount /\ 0..MaxCount \subseteq Nat
BY StationClientAssumption

LEMMA SnapsAt ==
    ASSUME NEW s \in Clients
    PROVE  /\ Len(s.snaps) \in Nat /\ s.snaps # <<>> => Len(s.snaps) > 0
           /\ \A i \in 1..Len(s.snaps) :
                 s.snaps[i] \in Snap /\ s.snaps[i].count \in 0..MaxCount
<1>1. s.snaps \in Seq(Snap)
    BY ClientFields
<1>2. Len(s.snaps) \in Nat /\ s.snaps # <<>> => Len(s.snaps) > 0
    BY <1>1, LenProperties, EmptySeq
<1>3. \A i \in 1..Len(s.snaps) : s.snaps[i] \in Snap
    BY <1>1, ElementOfSeq
<1>4. QED
    BY <1>1, <1>2, <1>3, LenProperties DEF Snap

\* Without a worker and without snapshots there is nothing to follow.
Quiet(s) == s.plc.pc = "off" /\ s.snaps = <<>>

LEMMA QuietChain ==
    ASSUME NEW s \in Clients, NEW l, Quiet(s), Waits(s.a)
    PROVE  Chain(s, l)
<1>1. Len(s.snaps) = 0
    BY DEF Quiet
<1>2. \A i \in 1..(Len(s.snaps) - 1) : FALSE
    BY <1>1
<1>3. QED
    BY <1>2 DEF Quiet, Chain, Queue, FromBase, Polling

LEMMA ChainCarries ==
    ASSUME NEW s, NEW l, Chain(s, l)
    PROVE  Carries(s, l)
BY DEF Chain, Carries

\* The same worker, the same snapshots and the same codes remembered.
Kin(s, n) ==
    /\ n.plc = s.plc /\ n.snaps = s.snaps
    /\ n.a.base = s.a.base /\ n.a.last = s.a.last
    /\ n.a.pending = s.a.pending /\ n.a.waiting = s.a.waiting

LEMMA KinCarries ==
    ASSUME NEW s, NEW n, NEW l, Kin(s, n), Carries(s, l)
    PROVE  Carries(n, l)
<1>1. Queue(n, l)
    BY DEF Kin, Carries, Queue, Onward
<1>2. Waits(n.a)
    BY DEF Kin, Carries, Waits
<1>3. FromBase(s, l) => FromBase(n, l)
    BY DEF Kin, FromBase, Polling, Onward
<1>4. QED
    BY <1>1, <1>2, <1>3 DEF Kin, Carries

LEMMA KinChain ==
    ASSUME NEW s, NEW n, NEW l, Kin(s, n), Type(n.a) = Type(s.a), Chain(s, l)
    PROVE  Chain(n, l)
<1>1. Carries(n, l)
    BY ChainCarries, KinCarries
<1>2. FromBase(s, l) => FromBase(n, l)
    BY DEF Kin, FromBase, Polling, Onward
<1>3. QED
    BY <1>1, <1>2 DEF Kin, Chain, Carries, Receiving

LEMMA StopPlcQuiet ==
    ASSUME NEW s \in Clients
    PROVE  Quiet(StopPlc(s)) /\ StopPlc(s) \in Clients /\ StopPlc(s).a = s.a
<1>1. StopPlc(s).plc.pc = "off" /\ StopPlc(s).snaps = <<>>
    BY ClientFields DEF StopPlc, Clients, Plc
<1>2. QED
    BY <1>1, StopPlcGood DEF Quiet

\* The magnet worker is not part of a chain.
LEMMA MagnetKin ==
    ASSUME NEW s \in Clients
    PROVE  /\ StopMagnet(s) \in Clients /\ Kin(s, StopMagnet(s)) /\ StopMagnet(s).a = s.a
           /\ StartMagnet(s) \in Clients /\ Kin(s, StartMagnet(s)) /\ StartMagnet(s).a = s.a
<1>1. StopMagnet(s) \in Clients /\ StopMagnet(s).a = s.a
    BY StopMagnetGood
<1>2. /\ StartMagnet(s) \in Clients /\ StartMagnet(s).a = s.a
      /\ StartMagnet(s).plc = s.plc /\ StartMagnet(s).snaps = s.snaps
    BY StartMagnetGood
<1>3. StopMagnet(s).plc = s.plc /\ StopMagnet(s).snaps = s.snaps
    BY DEF StopMagnet, Clients
<1>4. QED
    BY <1>1, <1>2, <1>3 DEF Kin

\* A worker that is started forgets the baseline; one that polls goes on.
LEMMA StartPlcChain ==
    ASSUME NEW s \in Clients, NEW l, Receiving(s.a), Carries(s, l)
    PROVE  Chain(StartPlc(s), l)
<1>1. CASE s.plc.pc # "off"
    BY <1>1 DEF StartPlc, Chain, Carries
<1>2. CASE s.plc.pc = "off"
    <2> DEFINE q == [s.plc EXCEPT !.pc = "starting", !.stale = FALSE]
               b == [s.a EXCEPT !.base = None, !.last = None, !.pending = None,
                                !.waiting = FALSE]
               n == [s EXCEPT !.plc = q, !.a = b]
    <2>1. StartPlc(s) = n
        BY <1>2 DEF StartPlc, Clients, Plc, Window, App
    <2>2. n.plc = q /\ n.a = b /\ n.snaps = s.snaps
        BY DEF Clients
    <2>3. q.pc = "starting" /\ ~q.stale
        BY ClientFields DEF Plc
    <2>4. b.base = None /\ ~b.waiting /\ b.steps = s.a.steps /\ b.index = s.a.index
        BY ClientFields DEF App
    <2> HIDE DEF n, q, b
    <2>5. Queue(n, l)
        BY <1>2, <2>2, <2>3 DEF Carries, Queue, Onward
    <2>6. Receiving(n.a)
        BY <2>2, <2>4 DEF Receiving, Type
    <2>7. QED
        BY <2>1, <2>2, <2>3, <2>4, <2>5, <2>6 DEF Chain, Waits, FromBase
<1>3. QED
    BY <1>1, <1>2

LEMMA PromptStepChain ==
    ASSUME NEW s \in Clients, NEW l, Carries(s, l)
    PROVE  Chain(PromptStep(s), l)
<1>1. Waits(s.a)
    BY DEF Carries
<1>2. Chain(StopMagnet(StopPlc(s)), l) /\ Chain(StartMagnet(StopPlc(s)), l)
    <2>1. StopPlc(s) \in Clients /\ Chain(StopPlc(s), l)
        BY <1>1, StopPlcQuiet, QuietChain
    <2>2. QED
        BY <2>1, MagnetKin, KinChain
<1>3. CASE Receiving(s.a)
    <2>1. StopMagnet(s) \in Clients /\ Carries(StopMagnet(s), l) /\ Receiving(StopMagnet(s).a)
        BY <1>3, MagnetKin, KinCarries
    <2>2. Chain(StartPlc(StopMagnet(s)), l)
        BY <2>1, StartPlcChain
    <2>3. QED
        BY <1>2, <1>3, <2>2 DEF PromptStep
<1>4. CASE ~Receiving(s.a)
    BY <1>2, <1>4 DEF PromptStep
<1>5. QED
    BY <1>3, <1>4

\* A window that is not enabled does nothing, and has no worker.
LEMMA PromptChain ==
    ASSUME NEW s \in Clients, NEW l, Carries(s, l), enabled \/ Quiet(s)
    PROVE  Chain(Prompt(s), l)
BY PromptStepChain, QuietChain DEF Prompt, Carries

LEMMA MovedKin ==
    ASSUME NEW s \in Clients, NEW i \in DOMAIN s.a.steps,
           NEW d \in SUBSET DOMAIN s.a.steps, NEW o \in BOOLEAN
    PROVE  LET n == [s EXCEPT !.a = Moved(s.a, i, d, o)]
           IN  n \in Clients /\ Kin(s, n)
<1> DEFINE b == Moved(s.a, i, d, o)
           n == [s EXCEPT !.a = b]
<1>1. s.a \in Window
    BY ClientFields
<1>2. b \in Window
    BY <1>1, WindowMoved
<1>3. /\ b.base = s.a.base /\ b.last = s.a.last
      /\ b.pending = s.a.pending /\ b.waiting = s.a.waiting
    BY <1>1 DEF Moved, Window, App
<1> HIDE DEF b
<1>4. n \in Clients /\ n.a = b /\ n.plc = s.plc /\ n.snaps = s.snaps
    BY <1>2 DEF Clients
<1>5. QED
    BY <1>3, <1>4 DEF Kin, b

LEMMA RenewedKin ==
    ASSUME NEW s \in Clients
    PROVE  Renewed(s) \in Clients /\ Kin(s, Renewed(s))
<1> DEFINE b == [s.a EXCEPT !.index = 1, !.done = {}, !.code = None, !.known = FALSE,
                            !.stray = s.a.due > 0]
<1>1. Renewed(s).a = b /\ Renewed(s).plc = s.plc /\ Renewed(s).snaps = s.snaps
    BY DEF Renewed, Clients
<1>2. /\ b.base = s.a.base /\ b.last = s.a.last
      /\ b.pending = s.a.pending /\ b.waiting = s.a.waiting
    BY ClientFields DEF App
<1>3. QED
    BY <1>1, <1>2, RenewedGood DEF Kin

LEMMA CompletedKin ==
    ASSUME NEW s \in Clients
    PROVE  Completed(s) \in Clients /\ Kin(s, Completed(s))
<1> DEFINE b == [s.a EXCEPT !.left = DOMAIN s.a.steps \ s.a.done, !.excused = s.a.stray]
<1>1. Completed(s).a = b /\ Completed(s).plc = s.plc /\ Completed(s).snaps = s.snaps
    BY ClientFields DEF Completed, Clients, App
<1>2. /\ b.base = s.a.base /\ b.last = s.a.last
      /\ b.pending = s.a.pending /\ b.waiting = s.a.waiting
    BY ClientFields DEF App
<1>3. QED
    BY <1>1, <1>2, CompletedGood DEF Kin

LEMMA DoneKin ==
    ASSUME NEW s \in Clients
    PROVE  /\ Done(s) \in Clients /\ Kin(s, Done(s)) /\ Type(Done(s).a) = Type(s.a)
<1> DEFINE b == [Overtaken(s.a) EXCEPT !.done = @ \cup {s.a.index}]
<1>1. Done(s).a = b /\ Done(s).plc = s.plc /\ Done(s).snaps = s.snaps
    BY DEF Done, Clients
<1>2. /\ b.base = s.a.base /\ b.last = s.a.last
      /\ b.pending = s.a.pending /\ b.waiting = s.a.waiting
      /\ b.steps = s.a.steps /\ b.index = s.a.index
    BY ClientFields DEF App, Overtaken
<1>3. QED
    BY <1>1, <1>2, DoneGood DEF Kin, Type

\* An advance, refused or not, keeps the chain.
LEMMA AdvanceChain ==
    ASSUME NEW s \in Clients, NEW l, Chain(s, l), NEW accepted \in BOOLEAN
    PROVE  Chain(Advance(s, accepted), l)
<1>1. Carries(s, l)
    BY ChainCarries
<1>2. CASE enabled /\ s.a.index < Len(s.a.steps)
    <2>1. /\ s.a.index + 1 \in DOMAIN s.a.steps /\ s.a.done \in SUBSET DOMAIN s.a.steps
          /\ s.a.stray \in BOOLEAN
        BY <1>2, ClientFields, LayoutFacts DEF App
    <2> DEFINE n == [s EXCEPT !.a = Moved(s.a, s.a.index + 1, s.a.done, s.a.stray)]
    <2>2. n \in Clients /\ Kin(s, n)
        BY <2>1, MovedKin
    <2>3. Advance(s, accepted) = Prompt(n)
        BY <1>2, ClientFields DEF Advance, Clients, App, Moved
    <2> HIDE DEF n
    <2>4. QED
        BY <1>1, <1>2, <2>2, <2>3, KinCarries, PromptChain
<1>3. CASE enabled /\ ~(s.a.index < Len(s.a.steps)) /\ accepted /\ s.a.code # None
    <2>1. Completed(s) \in Clients /\ Carries(Completed(s), l)
        BY <1>1, CompletedKin, KinCarries
    <2>2. Renewed(Completed(s)) \in Clients /\ Carries(Renewed(Completed(s)), l)
        BY <2>1, RenewedKin, KinCarries
    <2>3. QED
        BY <1>3, <2>2, PromptChain DEF Advance
<1>4. CASE ~enabled \/ (~(s.a.index < Len(s.a.steps)) /\ ~(accepted /\ s.a.code # None))
    BY <1>4 DEF Advance
<1>5. QED
    BY <1>2, <1>3, <1>4

-----------------------------------------------------------------------------
(* A snapshot is taken.                                                     *)

LEMMA TailAt ==
    ASSUME NEW s \in Clients, s.snaps # <<>>
    PROVE  /\ Head(s.snaps) = s.snaps[1] /\ Head(s.snaps) \in Snap
           /\ Tail(s.snaps) \in Seq(Snap) /\ Len(Tail(s.snaps)) = Len(s.snaps) - 1
           /\ \A i \in 1..(Len(s.snaps) - 1) : Tail(s.snaps)[i] = s.snaps[i + 1]
           /\ Tail(s.snaps) = <<>> <=> Len(s.snaps) = 1
<1>1. s.snaps \in Seq(Snap) /\ Len(s.snaps) \in Nat
    BY ClientFields, SnapsAt
<1>2. /\ Head(s.snaps) = s.snaps[1] /\ Head(s.snaps) \in Snap
      /\ Tail(s.snaps) \in Seq(Snap) /\ Len(Tail(s.snaps)) = Len(s.snaps) - 1
      /\ \A i \in 1..Len(Tail(s.snaps)) : Tail(s.snaps)[i] = s.snaps[i + 1]
    BY <1>1, HeadTailProperties
<1>3. Tail(s.snaps) = <<>> <=> Len(s.snaps) = 1
    <2> DEFINE t == Tail(s.snaps)
    <2>1. t \in Seq(Snap) /\ Len(t) = Len(s.snaps) - 1
        BY <1>2
    <2> HIDE DEF t
    <2>2. t = <<>> <=> Len(t) = 0
        BY <2>1, EmptySeq
    <2>3. QED
        BY <1>1, <2>1, <2>2 DEF t
<1>4. QED
    BY <1>1, <1>2, <1>3

LEMMA TailQueue ==
    ASSUME NEW s \in Clients, NEW l, Queue(s, l), s.snaps # <<>>,
           NEW n, n.plc = s.plc, n.snaps = Tail(s.snaps)
    PROVE  Queue(n, l)
<1>1. Len(s.snaps) \in Nat /\ Len(n.snaps) = Len(s.snaps) - 1
    BY SnapsAt, TailAt
<1>2. \A i \in 1..(Len(s.snaps) - 1) : n.snaps[i] = s.snaps[i + 1]
    BY TailAt
<1>3. \A i \in 1..(Len(n.snaps) - 1) : Follows(n.snaps[i + 1], n.snaps[i].count)
    <2> SUFFICES ASSUME NEW i \in 1..(Len(n.snaps) - 1)
                 PROVE  Follows(n.snaps[i + 1], n.snaps[i].count)
        OBVIOUS
    <2>1. i + 1 \in 1..(Len(s.snaps) - 1) /\ i \in 1..(Len(s.snaps) - 1)
        BY <1>1
    <2>2. n.snaps[i] = s.snaps[i + 1] /\ n.snaps[i + 1] = s.snaps[(i + 1) + 1]
        BY <1>2, <2>1
    <2>3. Follows(s.snaps[(i + 1) + 1], s.snaps[i + 1].count)
        BY <2>1 DEF Queue
    <2>4. QED
        BY <2>2, <2>3
<1>4. n.snaps # <<>> => n.snaps[Len(n.snaps)] = s.snaps[Len(s.snaps)]
    <2> SUFFICES ASSUME n.snaps # <<>> PROVE n.snaps[Len(n.snaps)] = s.snaps[Len(s.snaps)]
        OBVIOUS
    <2>1. Len(s.snaps) # 1 /\ Len(s.snaps) > 0
        BY TailAt, SnapsAt
    <2>2. Len(n.snaps) \in 1..(Len(s.snaps) - 1) /\ Len(n.snaps) + 1 = Len(s.snaps)
        BY <1>1, <2>1
    <2>3. QED
        BY <1>2, <2>2
<1>5. n.snaps # <<>> => Onward(n, l, n.snaps[Len(n.snaps)].count)
    BY <1>4 DEF Queue, Onward
<1>6. QED
    BY <1>3, <1>5 DEF Queue

\* A baseline at the snapshot that was taken.
LEMMA TakenChain ==
    ASSUME NEW s \in Clients, NEW l, Chain(s, l), s.snaps # <<>>,
           NEW n, n.plc = s.plc, n.snaps = Tail(s.snaps), Type(n.a) = Type(s.a),
           Waits(n.a), Receiving(s.a) => n.a.base = Head(s.snaps).count
    PROVE  Chain(n, l)
<1>1. Queue(s, l) /\ Queue(n, l)
    BY TailQueue DEF Chain
<1>2. Receiving(n.a) = Receiving(s.a)
    BY DEF Receiving
<1>3. ASSUME n.a.base = Head(s.snaps).count
      PROVE  FromBase(n, l)
    <2>1. n.a.base = s.snaps[1].count /\ Len(s.snaps) \in Nat /\ Len(s.snaps) > 0
        BY <1>3, TailAt, SnapsAt
    <2>2. CASE n.snaps # <<>>
        <3>1. 1 \in 1..(Len(s.snaps) - 1)
            BY <2>1, <2>2, TailAt
        <3>2. n.snaps[1] = s.snaps[1 + 1]
            BY <3>1, TailAt
        <3>3. Follows(s.snaps[1 + 1], s.snaps[1].count)
            BY <1>1, <3>1 DEF Queue
        <3>4. QED
            BY <2>1, <2>2, <3>2, <3>3 DEF FromBase
    <2>3. CASE n.snaps = <<>>
        <3>1. Len(s.snaps) = 1
            BY <2>3, TailAt
        <3>2. Onward(s, l, s.snaps[1].count)
            BY <1>1, <3>1 DEF Queue
        <3>3. QED
            BY <2>1, <2>3, <3>2 DEF FromBase, Onward
    <2>4. QED
        BY <2>2, <2>3
<1>4. QED
    BY <1>1, <1>2, <1>3 DEF Chain

\* A snapshot becomes the baseline, and what waits is what was shown last.
LEMMA RebasedWaits ==
    ASSUME NEW a \in Window, NEW p \in Snap, Waits(a)
    PROVE  LET b == Rebased(a, p)
           IN  /\ b \in Window /\ b.base = p.count /\ Waits(b)
               /\ b.steps = a.steps /\ b.index = a.index
<1> DEFINE k == Looked(a, p)
<1>1. a \in App /\ k \in Window /\ k \in App
    BY LookedGood DEF Window
<1>2. p.count # None
    BY Counts DEF Snap
<1>3. /\ k.base = a.base /\ k.steps = a.steps /\ k.index = a.index
      /\ k.waiting /\ a.base # None => k.pending = k.last
    BY <1>1 DEF Looked, App, Waits
<1> HIDE DEF k
<1>4. CASE a.base = None
    BY <1>1, <1>2, <1>4, RebasedGood DEF Rebased, App, Waits
<1>5. CASE a.base # None /\ p.count < a.base
    <2> DEFINE b == [k EXCEPT !.base = p.count, !.pending = None, !.waiting = FALSE]
    <2>1. Rebased(a, p) = b
        BY <1>5 DEF Rebased, k
    <2>2. b.base = p.count /\ ~b.waiting /\ b.steps = a.steps /\ b.index = a.index
        BY <1>1, <1>3 DEF App
    <2>3. QED
        BY <2>1, <2>2, RebasedGood DEF Waits
<1>6. CASE a.base # None /\ ~(p.count < a.base)
    <2> DEFINE b == [k EXCEPT !.base = p.count]
    <2>1. Rebased(a, p) = b
        BY <1>6 DEF Rebased, k
    <2>2. /\ b.base = p.count /\ b.steps = a.steps /\ b.index = a.index
          /\ b.waiting = k.waiting /\ b.pending = k.pending /\ b.last = k.last
        BY <1>1, <1>3 DEF App
    <2>3. QED
        BY <1>2, <1>3, <1>6, <2>1, <2>2, RebasedGood DEF Waits
<1>7. QED
    BY <1>4, <1>5, <1>6

\* A code that completes the step stops the worker; one that does not keeps the baseline.
LEMMA ReceivedChain ==
    ASSUME NEW s \in Clients, NEW l, Chain(s, l), NEW code \in Code \cup {None},
           NEW passes \in BOOLEAN, NEW accepted \in BOOLEAN
    PROVE  Chain(Received(s, code, passes, accepted), l)
<1> DEFINE main == Type(s.a) = "plcmain"
           fits == IF main THEN passes ELSE s.a.code = code
           c == [s.a EXCEPT !.pending = None, !.waiting = FALSE]
           m == [c EXCEPT !.code = code, !.known = TRUE]
           taken == IF main THEN m ELSE c
           b == [c EXCEPT !.last = None]
           r == [s EXCEPT !.a = taken]
           n == [s EXCEPT !.a = b]
<1>1. Received(s, code, passes, accepted)
      = IF fits THEN Advance(StopPlc(Done(r)), accepted) ELSE n
    BY DEF Received
<1>2. s.a \in Window /\ TRUE \in BOOLEAN /\ FALSE \in BOOLEAN
    BY ClientFields
<1>3. c \in Window /\ ~c.waiting /\ c.base = s.a.base /\ Type(c) = Type(s.a)
    BY <1>2 DEF Window, App, Type
<1>4. m \in Window /\ ~m.waiting
    BY <1>2 DEF Window, App
<1>5. b \in Window /\ ~b.waiting /\ b.base = s.a.base /\ Type(b) = Type(s.a)
    BY <1>2 DEF Window, App, Type
<1>6. taken \in Window /\ ~taken.waiting
    BY <1>3, <1>4
<1> HIDE DEF fits, taken, b
<1>7. Chain(n, l)
    <2>1. n.a = b /\ n.plc = s.plc /\ n.snaps = s.snaps
        BY DEF Clients
    <2>2. Queue(n, l)
        BY <2>1 DEF Chain, Queue, Onward
    <2>3. FromBase(s, l) => FromBase(n, l)
        BY <1>5, <2>1 DEF FromBase, Polling, Onward
    <2>4. QED
        BY <1>5, <2>1, <2>2, <2>3 DEF Chain, Waits, Receiving
<1>8. Chain(Advance(StopPlc(Done(r)), accepted), l)
    <2>1. r \in Clients /\ r.a = taken
        BY <1>6 DEF Clients
    <2> HIDE DEF r
    <2>2. Done(r) \in Clients /\ ~Done(r).a.waiting
        BY <1>6, <2>1, DoneKin DEF Kin
    <2>3. StopPlc(Done(r)) \in Clients /\ Chain(StopPlc(Done(r)), l)
        BY <2>2, StopPlcQuiet, QuietChain DEF Waits
    <2>4. QED
        BY <2>3, AdvanceChain
<1>9. QED
    BY <1>1, <1>7, <1>8

-----------------------------------------------------------------------------
(* The steps of the window.                                                 *)

\* The window does what leaves a chain, and the line stays as it is.
LEMMA DoesChain ==
    ASSUME PInv, NEW s, Chain(s, line), Does(s), line' = line
    PROVE  PInv'
<1> DEFINE n == Client'
           l == line
<1>1. Kin(s, n) /\ Type(n.a) = Type(s.a)
    BY DEF Kin, Client, Does
<1> HIDE DEF n, l
<1>2. Chain(n, l)
    BY <1>1, KinChain DEF l
<1>3. Chain(Client', line')
    BY <1>2 DEF n, l
<1>4. LineShows'
    BY DEF PInv, LineShows
<1>5. QED
    BY <1>3, <1>4 DEF PInv

\* Neither the worker nor what the window remembers of its snapshots changes.
LEMMA KinStep ==
    ASSUME PInv, UNCHANGED <<plc, snaps, line>>, Type(app') = Type(app),
           app'.base = app.base, app'.last = app.last,
           app'.pending = app.pending, app'.waiting = app.waiting
    PROVE  PInv'
<1> DEFINE s == Client
           n == Client'
           l == line
<1>1. Kin(s, n) /\ Type(n.a) = Type(s.a)
    BY DEF Kin, Client
<1>2. Chain(s, l)
    BY DEF PInv
<1> HIDE DEF s, n, l
<1>3. Chain(n, l)
    BY <1>1, <1>2, KinChain
<1>4. Chain(Client', line')
    BY <1>3 DEF n, l
<1>5. LineShows'
    BY DEF PInv, LineShows
<1>6. QED
    BY <1>4, <1>5 DEF PInv

LEMMA ClientChain ==
    ASSUME IInv, PInv
    PROVE  /\ Client \in Clients /\ Chain(Client, line) /\ Carries(Client, line)
           /\ Client.a = app /\ Client.plc = plc /\ Client.snaps = snaps
BY ClientNow, ChainCarries DEF PInv

LEMMA QuietStill ==
    ASSUME IInv, Still
    PROVE  enabled \/ Quiet(Client)
BY ClientNow DEF Still, DisabledStandsStill, Quiet

LEMMA OnSnapshotChain == IInv /\ Still /\ PInv /\ OnSnapshot => PInv'
<1> SUFFICES ASSUME IInv, Still, PInv, OnSnapshot PROVE PInv'
    OBVIOUS
<1> DEFINE p == Head(snaps)
           s == [Client EXCEPT !.snaps = Tail(snaps)]
           b == Rebased(app, p)
           read == [s EXCEPT !.a = b]
           code == Confirmed(app, p)
<1>1. snaps # <<>> /\ Client.snaps # <<>> /\ enabled
    BY ClientNow DEF OnSnapshot, Still, DisabledStandsStill
<1>2. p \in Snap /\ Tail(snaps) \in Seq(Snap) /\ p = Head(Client.snaps)
    BY <1>1, ClientNow, TailAt
<1>3. s \in Clients /\ s.a = app /\ s.plc = plc /\ s.snaps = Tail(snaps)
    BY <1>2, ClientNow DEF Clients
<1>4. [Client EXCEPT !.snaps = Tail(@)] = s /\ [s EXCEPT !.a = Rebased(@, p)] = read
    BY <1>3, ClientNow DEF Clients
<1>5. \/ Does(s) /\ ~Receiving(app)
      \/ Does(read)
      \/ \E passes, accepted \in BOOLEAN : Does(Received(read, code, passes, accepted))
    BY <1>1, <1>4 DEF OnSnapshot
<1>6. code \in Code \cup {None}
    BY <1>2, ClientNow, ConfirmedType
<1>7. b \in Window /\ b.base = p.count /\ Waits(b) /\ Type(b) = Type(app)
    BY <1>2, ClientNow, ClientChain, RebasedWaits DEF Chain, Type
<1> HIDE DEF b, code
<1>8. read \in Clients /\ read.a = b /\ read.plc = plc /\ read.snaps = Tail(snaps)
    BY <1>3, <1>7 DEF Clients
<1> HIDE DEF s, read
<1>9. Chain(read, line)
    BY <1>1, <1>2, <1>7, <1>8, ClientChain, TakenChain
<1>10. ~Receiving(app) => Chain(s, line)
    <2>1. Waits(app)
        BY ClientChain DEF Chain
    <2>2. QED
        BY <1>1, <1>3, <2>1, ClientChain, TakenChain
<1>11. line' = line
    BY DEF OnSnapshot
<1>12. CASE Does(s) /\ ~Receiving(app)
    BY <1>10, <1>11, <1>12, DoesChain
<1>13. CASE Does(read)
    BY <1>9, <1>11, <1>13, DoesChain
<1>14. ASSUME NEW passes \in BOOLEAN, NEW accepted \in BOOLEAN,
              Does(Received(read, code, passes, accepted))
       PROVE  PInv'
    <2>1. Chain(Received(read, code, passes, accepted), line)
        BY <1>6, <1>8, <1>9, ReceivedChain
    <2>2. QED
        BY <1>11, <1>14, <2>1, DoesChain
<1>15. QED
    BY <1>5, <1>12, <1>13, <1>14

LEMMA OnMagnetChain == IInv /\ PInv /\ OnMagnet => PInv'
<1> SUFFICES ASSUME IInv, PInv, OnMagnet PROVE PInv'
    OBVIOUS
<1> DEFINE s == [Client EXCEPT !.events = Tail(events)]
           d == Done(s)
           n == [d EXCEPT !.a.due = @ + 1]
<1>1. events \in Seq(Event) /\ events # <<>>
    BY ClientNow DEF OnMagnet
<1>2. Tail(events) \in Seq(Event)
    BY <1>1, HeadTailProperties
<1>3. s \in Clients /\ s.a = app /\ s.plc = plc /\ s.snaps = snaps
    BY <1>2, ClientNow DEF Clients
<1>4. [Client EXCEPT !.events = Tail(@)] = s
    BY ClientNow DEF Clients
<1>5. Does(s) \/ Does(n)
    BY <1>4 DEF OnMagnet, Measured
<1>6. Kin(Client, s) /\ Type(s.a) = Type(Client.a)
    BY <1>3, ClientChain DEF Kin
<1> HIDE DEF s
<1>7. d \in Clients /\ Kin(s, d) /\ Type(d.a) = Type(s.a)
    BY <1>3, DoneKin
<1> HIDE DEF d
<1>8. Kin(d, n) /\ Type(n.a) = Type(d.a)
    BY <1>7, ClientFields DEF Kin, Clients, App, Type
<1> HIDE DEF n
<1>9. Chain(s, line) /\ Chain(n, line)
    <2> DEFINE c == Client
               l == line
    <2>1. Chain(c, l) /\ Kin(c, s) /\ Type(s.a) = Type(c.a)
        BY <1>6, ClientChain
    <2> HIDE DEF c, l
    <2>2. Chain(s, l)
        BY <2>1, KinChain
    <2>3. Chain(d, l)
        BY <1>7, <2>2, KinChain
    <2>4. Chain(n, l)
        BY <1>8, <2>3, KinChain
    <2>5. QED
        BY <2>2, <2>4 DEF l
<1>10. line' = line
    BY DEF OnMagnet
<1>11. QED
    BY <1>5, <1>9, <1>10, DoesChain

\* A window whose fields change, but none that a chain looks at.
LEMMA WindowChain ==
    ASSUME IInv, PInv, NEW b \in Window, Type(b) = Type(app),
           b.base = app.base, b.last = app.last,
           b.pending = app.pending, b.waiting = app.waiting
    PROVE  LET s == [Client EXCEPT !.a = b]
           IN  s \in Clients /\ s.a = b /\ Chain(s, line)
<1> DEFINE c == Client
           l == line
           s == [c EXCEPT !.a = b]
<1>1. s \in Clients /\ s.a = b /\ s.plc = c.plc /\ s.snaps = c.snaps
    BY ClientNow DEF Clients
<1>2. Kin(c, s) /\ Type(s.a) = Type(c.a) /\ Chain(c, l)
    BY <1>1, ClientChain DEF Kin
<1> HIDE DEF c, s, l
<1>3. Chain(s, l)
    BY <1>2, KinChain
<1>4. QED
    BY <1>1, <1>3 DEF c, s, l

LEMMA LateAdvanceChain == IInv /\ PInv /\ LateAdvance => PInv'
<1> SUFFICES ASSUME IInv, PInv, LateAdvance PROVE PInv'
    OBVIOUS
<1> DEFINE b == [app EXCEPT !.due = @ - 1]
           s == [Client EXCEPT !.a = b]
<1>1. PICK accepted \in BOOLEAN : Does(Advance([Client EXCEPT !.a.due = @ - 1], accepted))
    BY DEF LateAdvance
<1>2. [Client EXCEPT !.a.due = @ - 1] = s
    BY ClientNow DEF Clients
<1>3. app \in Window /\ app.due \in Nat /\ app.due > 0 /\ app.due - 1 \in 0..QueueBound
    BY ClientNow, StationClientAssumption DEF LateAdvance
<1>4. /\ b \in Window /\ Type(b) = Type(app) /\ b.base = app.base /\ b.last = app.last
      /\ b.pending = app.pending /\ b.waiting = app.waiting
    BY <1>3 DEF Window, App, Type
<1> HIDE DEF b
<1>5. s \in Clients /\ Chain(s, line)
    BY <1>4, WindowChain
<1> HIDE DEF s
<1>6. Chain(Advance(s, accepted), line) /\ line' = line
    BY <1>5, AdvanceChain DEF LateAdvance
<1>7. QED
    BY <1>1, <1>2, <1>6, DoesChain

\* A code that completes the step.
LEMMA CompletesChain ==
    ASSUME IInv, PInv, NEW code \in Code \cup {None}, NEW known \in BOOLEAN,
           NEW accepted \in BOOLEAN
    PROVE  Chain(Advance(Done([Client EXCEPT !.a = [app EXCEPT !.code = code,
                                                              !.known = known]]), accepted),
                 line)
<1> DEFINE b == [app EXCEPT !.code = code, !.known = known]
           s == [Client EXCEPT !.a = b]
<1>1. /\ b \in Window /\ Type(b) = Type(app) /\ b.base = app.base /\ b.last = app.last
      /\ b.pending = app.pending /\ b.waiting = app.waiting
    BY ClientNow DEF Window, App, Type
<1> HIDE DEF b
<1>2. s \in Clients /\ Chain(s, line)
    BY <1>1, WindowChain
<1> HIDE DEF s
<1>3. Done(s) \in Clients /\ Chain(Done(s), line)
    BY <1>2, DoneKin, KinChain
<1>4. Chain(Advance(Done(s), accepted), line)
    BY <1>3, AdvanceChain
<1>5. QED
    BY <1>4 DEF s, b

LEMMA ScanChain == IInv /\ PInv /\ Scan => PInv'
<1> SUFFICES ASSUME IInv, PInv, Scan PROVE PInv'
    OBVIOUS
<1>1. PICK code \in (IF Type(app) = "main" THEN Code ELSE {app.code}), accepted \in BOOLEAN :
         Does(Advance(Done([Client EXCEPT !.a.code = code,
                                          !.a.known = @ \/ Type(app) = "main"]), accepted))
    BY DEF Scan
<1> DEFINE known == app.known \/ Type(app) = "main"
           b == [app EXCEPT !.code = code, !.known = known]
<1>2. known \in BOOLEAN /\ code \in Code \cup {None}
    BY ClientNow DEF App
<1>3. [Client EXCEPT !.a.code = code, !.a.known = @ \/ Type(app) = "main"]
      = [Client EXCEPT !.a = b]
    BY ClientNow DEF Clients, Window, App
<1> HIDE DEF known
<1>4. Chain(Advance(Done([Client EXCEPT !.a = b]), accepted), line)
    BY <1>2, CompletesChain
<1>5. line' = line
    BY DEF Scan
<1> HIDE DEF b
<1>6. QED
    BY <1>1, <1>3, <1>4, <1>5, DoesChain

LEMMA DegradedScanChain == IInv /\ PInv /\ DegradedScan => PInv'
<1> SUFFICES ASSUME IInv, PInv, DegradedScan PROVE PInv'
    OBVIOUS
<1>1. PICK named \in Code \cup {None}, accepted \in BOOLEAN :
         Does(Advance(Done([Client EXCEPT !.a.code = named]), accepted))
    <2>1. PICK code \in Code, accepted \in BOOLEAN :
             LET named == IF Type(app) \in {"main", "plcmain"} \/ app.code = None
                          THEN code ELSE app.code
             IN  Does(Advance(Done([Client EXCEPT !.a.code = named]), accepted))
        BY DEF DegradedScan
    <2> DEFINE named == IF Type(app) \in {"main", "plcmain"} \/ app.code = None
                        THEN code ELSE app.code
    <2>2. named \in Code \cup {None}
        BY ClientNow DEF App
    <2>3. Does(Advance(Done([Client EXCEPT !.a.code = named]), accepted))
        BY <2>1
    <2> HIDE DEF named
    <2>4. QED
        BY <2>2, <2>3
<1> DEFINE b == [app EXCEPT !.code = named, !.known = app.known]
<1>2. app.known \in BOOLEAN
    BY ClientNow DEF App
<1>3. [Client EXCEPT !.a.code = named] = [Client EXCEPT !.a = b]
    BY ClientNow DEF Clients, Window, App
<1>4. Chain(Advance(Done([Client EXCEPT !.a = b]), accepted), line)
    BY <1>2, CompletesChain
<1>5. line' = line
    BY DEF DegradedScan
<1> HIDE DEF b
<1>6. QED
    BY <1>1, <1>3, <1>4, <1>5, DoesChain

LEMMA FlagsChain ==
    IInv /\ PInv /\ (EnterCancel \/ LeaveCancel \/ DegradedOff) => PInv'
<1> SUFFICES ASSUME IInv, PInv, EnterCancel \/ LeaveCancel \/ DegradedOff PROVE PInv'
    OBVIOUS
<1>1. /\ Type(app') = Type(app) /\ app'.base = app.base /\ app'.last = app.last
      /\ app'.pending = app.pending /\ app'.waiting = app.waiting
    BY ClientNow DEF EnterCancel, LeaveCancel, DegradedOff, App, Type
<1>2. UNCHANGED <<plc, snaps, line>>
    BY DEF EnterCancel, LeaveCancel, DegradedOff
<1>3. QED
    BY <1>1, <1>2, KinStep

\* A worker left polling is stale, and nothing it sends counts until it is stopped.
LEMMA CancelPartChain == IInv /\ PInv /\ CancelPart => PInv'
<1> SUFFICES ASSUME IInv, PInv, CancelPart PROVE PInv'
    OBVIOUS
<1>1. PICK i \in DOMAIN app.steps :
         /\ app.steps[i] = "part"
         /\ app' = [app EXCEPT !.index = i, !.done = @ \ {i}, !.cancelling = FALSE,
                               !.stray = @ \/ app.due > 0 \/ i > app.index]
    BY DEF CancelPart
<1>2. /\ app'.waiting = app.waiting /\ app'.base = app.base
      /\ app'.pending = app.pending /\ app'.last = app.last /\ ~Receiving(app')
    BY <1>1, ClientNow DEF App, Receiving, Type
<1>3. /\ plc'.pc = plc.pc /\ plc'.count = plc.count /\ plc'.of = plc.of
      /\ plc.pc # "off" => plc'.stale
    <2> DEFINE e == plc.stale \/ plc.pc # "off"
    <2>1. plc' = [plc EXCEPT !.stale = e]
        BY ClientNow DEF CancelPart, Plc
    <2>2. plc.pc # "off" => e
        OBVIOUS
    <2> HIDE DEF e
    <2>3. QED
        BY <2>1, <2>2, ClientNow DEF Plc
<1>4. snaps' = snaps /\ line' = line
    BY DEF CancelPart
<1>5. Queue(Client', line')
    <2> DEFINE c == Client
               n == Client'
               l == line
    <2>1. /\ n.plc.pc = c.plc.pc /\ n.plc.count = c.plc.count /\ n.plc.of = c.plc.of
          /\ n.snaps = c.snaps /\ Queue(c, l)
        BY <1>3, <1>4 DEF Client, PInv, Chain
    <2> HIDE DEF c, n, l
    <2>2. Queue(n, l)
        BY <2>1 DEF Queue, Onward
    <2>3. QED
        BY <1>4, <2>2 DEF n, l
<1>6. Waits(app')
    BY <1>2, ClientChain DEF Chain, Waits
<1>7. Client'.a = app' /\ Client'.plc = plc'
    BY DEF Client
<1>8. Chain(Client', line')
    BY <1>2, <1>3, <1>5, <1>6, <1>7 DEF Chain
<1>9. LineShows'
    BY <1>4 DEF PInv, LineShows
<1>10. QED
    BY <1>8, <1>9 DEF PInv

\* The next product is prompted; a window without its station has no worker.
LEMMA RenewedChain ==
    ASSUME NEW s \in Clients, NEW l, Chain(s, l), enabled \/ Quiet(s)
    PROVE  Chain(Prompt(Renewed(s)), l)
<1>1. Renewed(s) \in Clients /\ Kin(s, Renewed(s))
    BY RenewedKin
<1>2. Carries(Renewed(s), l) /\ (enabled \/ Quiet(Renewed(s)))
    BY <1>1, ChainCarries, KinCarries DEF Kin, Quiet
<1>3. QED
    BY <1>1, <1>2, PromptChain

LEMMA CancelMainChain == IInv /\ PInv /\ CancelMain => PInv'
<1> SUFFICES ASSUME IInv, PInv, CancelMain PROVE PInv'
    OBVIOUS
<1> DEFINE b == [app EXCEPT !.cancelling = FALSE]
           s == [Client EXCEPT !.a = b]
<1>1. [Client EXCEPT !.a.cancelling = FALSE] = s
    BY ClientNow DEF Clients
<1>2. /\ b \in Window /\ Type(b) = Type(app) /\ b.base = app.base /\ b.last = app.last
      /\ b.pending = app.pending /\ b.waiting = app.waiting
    BY ClientNow DEF Window, App, Type
<1> HIDE DEF b
<1>3. s \in Clients /\ Chain(s, line)
    BY <1>2, WindowChain
<1> HIDE DEF s
<1>4. Chain(Prompt(Renewed(s)), line)
    BY <1>3, RenewedChain DEF CancelMain
<1>5. Does(Prompt(Renewed(s))) /\ line' = line
    BY <1>1 DEF CancelMain
<1>6. QED
    BY <1>4, <1>5, DoesChain

LEMMA ResetChain == IInv /\ Still /\ PInv /\ Reset => PInv'
<1> SUFFICES ASSUME IInv, Still, PInv, Reset PROVE PInv'
    OBVIOUS
<1>1. Chain(Prompt(Renewed(Client)), line)
    BY ClientChain, QuietStill, RenewedChain
<1>2. Does(Prompt(Renewed(Client))) /\ line' = line
    BY DEF Reset
<1>3. QED
    BY <1>1, <1>2, DoesChain

LEMMA DegradedOnChain == IInv /\ PInv /\ DegradedOn => PInv'
<1> SUFFICES ASSUME IInv, PInv, DegradedOn PROVE PInv'
    OBVIOUS
<1> DEFINE b == [app EXCEPT !.degraded = TRUE]
           s == [Client EXCEPT !.a = b]
<1>1. [Client EXCEPT !.a.degraded = TRUE] = s
    BY ClientNow DEF Clients
<1>2. /\ b \in Window /\ Type(b) = Type(app) /\ b.base = app.base /\ b.last = app.last
      /\ b.pending = app.pending /\ b.waiting = app.waiting
    BY ClientNow DEF Window, App, Type
<1> HIDE DEF b
<1>3. s \in Clients /\ Chain(s, line)
    BY <1>2, WindowChain
<1> HIDE DEF s
<1>4. StopPlc(s) \in Clients /\ Chain(StopPlc(s), line)
    BY <1>3, StopPlcQuiet, QuietChain DEF Chain
<1>5. Chain(StopMagnet(StopPlc(s)), line)
    BY <1>4, MagnetKin, KinChain
<1>6. Does(StopMagnet(StopPlc(s))) /\ line' = line
    BY <1>1 DEF DegradedOn
<1>7. QED
    BY <1>5, <1>6, DoesChain

LEMMA PromptDueChain == IInv /\ Still /\ PInv /\ PromptDue => PInv'
<1> SUFFICES ASSUME IInv, Still, PInv, PromptDue PROVE PInv'
    OBVIOUS
<1> DEFINE b == [app EXCEPT !.prompt = FALSE]
           s == [Client EXCEPT !.a = b]
<1>1. [Client EXCEPT !.a.prompt = FALSE] = s
    BY ClientNow DEF Clients
<1>2. /\ b \in Window /\ Type(b) = Type(app) /\ b.base = app.base /\ b.last = app.last
      /\ b.pending = app.pending /\ b.waiting = app.waiting
    BY ClientNow DEF Window, App, Type
<1> HIDE DEF b
<1>3. s \in Clients /\ Chain(s, line)
    BY <1>2, WindowChain
<1>4. s.plc = plc /\ s.snaps = snaps
    BY ClientNow DEF Clients
<1>5. enabled \/ Quiet(s)
    BY <1>4, QuietStill, ClientNow DEF Quiet
<1> HIDE DEF s
<1>6. Chain(Prompt(s), line)
    BY <1>3, <1>5, ChainCarries, PromptChain
<1>7. Does(Prompt(s)) /\ line' = line
    BY <1>1 DEF PromptDue
<1>8. QED
    BY <1>6, <1>7, DoesChain

\* A window that is switched has nothing to follow.
LEMMA SwitchStationChain == IInv /\ PInv /\ SwitchStation => PInv'
<1> SUFFICES ASSUME IInv, PInv, SwitchStation PROVE PInv'
    OBVIOUS
<1>1. PICK steps \in Elsewhere, ends \in Station :
         Does(IF ends = "held" THEN PromptStep(Switched(steps)) ELSE Switched(steps))
    BY DEF SwitchStation
<1>2. steps \in Layouts
    BY StationClientAssumption
<1> DEFINE k == StopMagnet(StopPlc(Client))
           r == Renewed(k)
           s == Switched(steps)
<1>3. s \in Clients /\ Quiet(s)
    BY <1>2, SwitchedGood DEF Good, Quiet
<1>4. k \in Clients /\ k.a = app
    BY ClientNow, StopPlcGood, StopMagnetGood
<1>5. s = [r EXCEPT !.a = [r.a EXCEPT !.steps = steps]]
    BY DEF Switched
<1> HIDE DEF k
<1>6. r \in Clients /\ Kin(k, r)
    BY <1>4, RenewedKin
<1> HIDE DEF r
<1>7. /\ s.a.base = r.a.base /\ s.a.last = r.a.last
      /\ s.a.pending = r.a.pending /\ s.a.waiting = r.a.waiting
    BY <1>5, <1>6, ClientFields DEF Clients, App
<1> HIDE DEF s
<1>8. Waits(s.a)
    BY <1>4, <1>6, <1>7, ClientChain DEF Kin, Chain, Waits
<1>9. Chain(s, line) /\ Chain(PromptStep(s), line)
    BY <1>3, <1>8, QuietChain, ChainCarries, PromptStepChain
<1>10. line' = line
    BY DEF SwitchStation
<1>11. QED
    BY <1>1, <1>9, <1>10, DoesChain DEF s

LEMMA TakeStationChain == IInv /\ PInv /\ TakeStation => PInv'
<1> SUFFICES ASSUME IInv, PInv, TakeStation PROVE PInv'
    OBVIOUS
<1>1. Chain(PromptStep(Client), line)
    BY ClientChain, PromptStepChain
<1>2. Does(PromptStep(Client)) /\ line' = line
    BY DEF TakeStation
<1>3. QED
    BY <1>1, <1>2, DoesChain

-----------------------------------------------------------------------------
(* The steps of the worker and of the line.                                 *)

\* The window and the snapshots stay, and whatever followed a count still does.
LEMMA OnwardChain ==
    ASSUME NEW s \in Clients, NEW l, Chain(s, l), NEW n, NEW k,
           n.a = s.a, n.snaps = s.snaps, n.plc.stale = s.plc.stale,
           n.plc.pc # "off" => s.plc.pc # "off", Polling(n) => Polling(s),
           \A b \in 0..MaxCount : Polling(s) \/ s.snaps # <<>> =>
                                     (Onward(s, l, b) => Onward(n, k, b)),
           n.plc.pc = "counted" => LineFrom(k, n.plc.count)
    PROVE  Chain(n, k)
<1>1. Len(s.snaps) \in Nat /\ (s.snaps # <<>> => Len(s.snaps) \in 1..Len(s.snaps))
    BY SnapsAt
<1>2. s.snaps # <<>> => s.snaps[Len(s.snaps)].count \in 0..MaxCount
    BY <1>1, SnapsAt
<1>3. Queue(n, k)
    BY <1>2 DEF Chain, Queue
<1>4. s.a.base # None => s.a.base \in 0..MaxCount
    BY ClientFields DEF App
<1>5. FromBase(s, l) => FromBase(n, k)
    BY <1>4 DEF FromBase
<1>6. QED
    BY <1>3, <1>5 DEF Chain, Waits

LEMMA OnwardStep ==
    ASSUME IInv, PInv, UNCHANGED <<app, snaps>>, plc'.stale = plc.stale,
           plc'.pc # "off" => plc.pc # "off",
           plc'.pc \in {"starting", "idle", "counted"} =>
              plc.pc \in {"starting", "idle", "counted"},
           \A b \in 0..MaxCount :
              plc.pc \in {"starting", "idle", "counted"} \/ snaps # <<>> =>
                 (Onward(Client, line, b) => Onward(Client, line, b)'),
           plc'.pc = "counted" => LineFrom(line', plc'.count)
    PROVE  Chain(Client, line)'
<1> DEFINE s == Client
           n == Client'
           l == line
           k == line'
<1>1. s \in Clients /\ Chain(s, l)
    BY ClientChain
<1>2. /\ n.a = s.a /\ n.snaps = s.snaps /\ n.plc.stale = s.plc.stale
      /\ n.plc.pc # "off" => s.plc.pc # "off"
      /\ Polling(n) => Polling(s)
      /\ n.plc.pc = "counted" => LineFrom(k, n.plc.count)
    BY DEF Client, Polling
<1>3. ASSUME NEW b \in 0..MaxCount
      PROVE  Polling(s) \/ s.snaps # <<>> => (Onward(s, l, b) => Onward(n, k, b))
    <2>1. Onward(Client, line, b)' = Onward(n, k, b)
        OBVIOUS
    <2>2. QED
        BY <2>1 DEF Client, Polling
<1> HIDE DEF s, n, l, k
<1>4. Chain(n, k)
    BY <1>1, <1>2, <1>3, OnwardChain
<1>5. QED
    BY <1>4 DEF n, k

LEMMA OldThreadEndsChain == IInv /\ PInv /\ OldThreadEnds => PInv'
<1> SUFFICES ASSUME IInv, PInv, OldThreadEnds PROVE PInv'
    OBVIOUS
<1>1. plc'.pc = "off" /\ plc'.stale = plc.stale /\ UNCHANGED <<app, snaps, line>>
    BY ClientNow DEF OldThreadEnds, Plc
<1>2. \A b \in 0..MaxCount : Onward(Client, line, b) => Onward(Client, line, b)'
    BY <1>1 DEF Onward, LineFrom, Client
<1>3. Chain(Client, line)'
    BY <1>1, <1>2, OnwardStep
<1>4. QED
    BY <1>1, <1>3 DEF PInv, LineShows

LEMMA WindowStepChain == IInv /\ Still /\ PInv /\ WindowStep => PInv'
BY OnSnapshotChain, OldThreadEndsChain, OnMagnetChain, LateAdvanceChain, ScanChain,
   DegradedScanChain, FlagsChain, CancelPartChain, CancelMainChain, ResetChain,
   DegradedOnChain, PromptDueChain
   DEF WindowStep

\* The counter is read: no count is above the one the line has.
LEMMA ReadCountChain == IInv /\ PInv /\ ReadCount => PInv'
<1> SUFFICES ASSUME IInv, PInv, ReadCount PROVE PInv'
    OBVIOUS
<1>1. /\ plc.pc = "idle" /\ plc'.pc = "counted" /\ plc'.stale = plc.stale
      /\ plc'.count = line.count /\ plc'.of = line.of /\ UNCHANGED <<app, snaps, line>>
    BY ClientNow DEF ReadCount, Plc
<1>2. line.count \in Nat
    BY Counts DEF IInv, Line
<1>3. \A b \in 0..MaxCount : Onward(Client, line, b) => Onward(Client, line, b)'
    BY <1>1 DEF Onward, LineFrom, Client
<1>4. LineFrom(line', plc'.count)
    BY <1>1, <1>2 DEF LineFrom
<1>5. Chain(Client, line)'
    BY <1>1, <1>3, <1>4, OnwardStep
<1>6. QED
    BY <1>1, <1>5 DEF PInv, LineShows

\* The code is read: the snapshot follows the last one, or the baseline.
LEMMA ReadCodeChain == IInv /\ PInv /\ ReadCode => PInv'
<1> SUFFICES ASSUME IInv, PInv, ReadCode PROVE PInv'
    OBVIOUS
<1> DEFINE p == [count |-> plc.count, code |-> line.code, of |-> plc.of]
           s == Client
           n == Client'
           l == line
           k == line'
<1>1. /\ plc.pc = "counted" /\ plc'.pc = "idle" /\ plc'.stale = plc.stale
      /\ snaps' = Append(snaps, p) /\ app' = app
    BY ClientNow DEF ReadCode, Plc
<1>2. /\ k.count = l.count /\ k.code = l.code /\ k.finished = l.finished /\ k.of = l.of
      /\ k.seen <=> l.seen \/ plc.count = l.count
    BY DEF ReadCode, IInv, Line
<1>3. p \in Snap /\ plc.count \in Nat /\ l.count \in Nat
    BY Counts, ClientNow DEF Snap, Plc, Line, IInv
<1>4. s \in Clients /\ Chain(s, l) /\ s.a = app /\ s.plc = plc /\ s.snaps = snaps
    BY ClientChain
<1>5. n.a = app /\ n.plc = plc' /\ n.snaps = snaps'
    <2>1. Client'.a = app' /\ Client'.plc = plc' /\ Client'.snaps = snaps'
        BY DEF Client
    <2>2. QED
        BY <1>1, <2>1
<1>6. /\ snaps \in Seq(Snap) /\ Len(snaps) \in Nat /\ snaps' # <<>>
      /\ Len(snaps') = Len(snaps) + 1
      /\ \A i \in 1..Len(snaps) : snaps'[i] = snaps[i]
      /\ snaps'[Len(snaps) + 1] = p
    <2>1. snaps \in Seq(Snap) /\ Len(snaps) \in Nat
        BY ClientNow, LenProperties
    <2> HIDE DEF p
    <2>2. Append(snaps, p) \in Seq(Snap) /\ Append(snaps, p) # <<>>
          /\ Len(Append(snaps, p)) = Len(snaps) + 1
          /\ \A i \in 1..Len(snaps) : Append(snaps, p)[i] = snaps[i]
          /\ Append(snaps, p)[Len(snaps) + 1] = p
        BY <1>3, <2>1, AppendProperties
    <2>3. QED
        BY <1>1, <2>1, <2>2
<1>7. ASSUME NEW b, Onward(s, l, b)
      PROVE  Follows(p, b)
    BY <1>1, <1>4, <1>7 DEF Onward, Follows
<1>8. Queue(s, l) /\ LineFrom(l, plc.count)
    BY <1>1, <1>4 DEF Chain, Queue
<1>9. Onward(n, k, p.count)
    BY <1>1, <1>2, <1>3, <1>5, <1>8 DEF Onward, LineFrom
<1> HIDE DEF p, s, n, l, k
<1>10. Queue(n, k)
    <2>1. ASSUME NEW i \in 1..(Len(snaps') - 1)
          PROVE  Follows(snaps'[i + 1], snaps'[i].count)
        <3>1. CASE i < Len(snaps)
            <4>1. i \in 1..(Len(snaps) - 1) /\ i \in 1..Len(snaps) /\ i + 1 \in 1..Len(snaps)
                BY <1>6, <3>1
            <4>2. Follows(snaps[i + 1], snaps[i].count)
                BY <1>4, <1>8, <4>1 DEF Queue
            <4>3. QED
                BY <1>6, <4>1, <4>2
        <3>2. CASE i = Len(snaps)
            <4>1. Len(snaps) > 0 /\ snaps # <<>> /\ i \in 1..Len(snaps)
                BY <1>6, <3>2, EmptySeq
            <4>2. Onward(s, l, snaps[i].count)
                BY <1>4, <1>8, <3>2, <4>1 DEF Queue
            <4>3. Follows(p, snaps[i].count)
                BY <1>7, <4>2
            <4>4. QED
                BY <1>6, <3>2, <4>1, <4>3
        <3>3. QED
            BY <1>6, <3>1, <3>2
    <2>2. Onward(n, k, snaps'[Len(snaps')].count)
        BY <1>6, <1>9
    <2>3. QED
        BY <1>1, <1>5, <2>1, <2>2 DEF Queue
<1>11. FromBase(s, l) => FromBase(n, k)
    <2> SUFFICES ASSUME FromBase(s, l), app.base # None
                 PROVE  Follows(snaps'[1], app.base)
        BY <1>5, <1>6 DEF FromBase
    <2>1. CASE snaps # <<>>
        <3>1. Len(snaps) > 0 /\ 1 \in 1..Len(snaps)
            BY <1>6, <2>1, EmptySeq
        <3>2. QED
            BY <1>4, <1>6, <2>1, <3>1 DEF FromBase
    <2>2. CASE snaps = <<>>
        <3>1. Onward(s, l, app.base)
            BY <1>1, <1>4, <2>2 DEF FromBase, Polling
        <3>2. Len(snaps) = 0
            BY <2>2
        <3>3. QED
            BY <1>6, <1>7, <3>1, <3>2
    <2>3. QED
        BY <2>1, <2>2
<1>12. Chain(n, k)
    BY <1>1, <1>4, <1>5, <1>10, <1>11 DEF Chain
<1>13. LineShows'
    BY <1>2 DEF PInv, LineShows, k, l
<1>14. QED
    BY <1>12, <1>13 DEF PInv, n, k

LEMMA PlcStepChain == IInv /\ PInv /\ PlcStep => PInv'
<1> SUFFICES ASSUME IInv, PInv, PlcStart \/ ReadFails PROVE PInv'
    BY ReadCountChain, ReadCodeChain DEF PlcStep
<1>1. /\ plc.pc \in {"starting", "idle", "counted"} /\ plc'.pc \in {"idle", "dead"}
      /\ plc'.stale = plc.stale /\ UNCHANGED <<app, snaps, line>>
    BY ClientNow DEF PlcStart, ReadFails, Plc
<1>2. \A b \in 0..MaxCount : Onward(Client, line, b) => Onward(Client, line, b)'
    BY <1>1 DEF Onward, LineFrom, Client
<1>3. Chain(Client, line)'
    BY <1>1, <1>2, OnwardStep
<1>4. QED
    BY <1>1, <1>3 DEF PInv, LineShows

\* The line shows the next code once its last count was read, or nobody reads; it counts
\* on from no part but the one it shows.
LEMMA ShopStepChain == IInv /\ PInv /\ ShopStep => PInv'
<1> SUFFICES ASSUME IInv, PInv, ShopStep PROVE PInv'
    OBVIOUS
<1>1. /\ UNCHANGED <<app, plc, snaps>> /\ line \in Line /\ line.count \in Nat
      /\ plc.count \in 0..MaxCount /\ 0..MaxCount \subseteq Nat
    BY Counts, ClientNow DEF ShopStep, Load, Finish, Restart, RigStep, IInv, Line, Plc
<1>2. plc.pc = "counted" => LineFrom(line, plc.count)
    BY ClientChain DEF Chain, Queue
<1>3. CASE Load
    <2>1. PICK code \in Code \cup {None} :
             line' = [line EXCEPT !.code = code, !.finished = code = None]
        BY <1>3 DEF Load
    <2>2. /\ line'.count = line.count /\ line'.seen = line.seen /\ line'.of = line.of
          /\ ~line'.finished => line'.code # None
        BY <1>1, <2>1 DEF Line
    <2>3. line.seen \/ (plc.pc \in {"off", "dead"} /\ snaps = <<>>)
        BY <1>3 DEF Load
    <2>4. \A b \in 0..MaxCount :
             line.seen => (Onward(Client, line, b) => Onward(Client, line, b)')
        BY <1>1, <2>2 DEF Onward, LineFrom, Client
    <2>5. plc'.pc = "counted" => LineFrom(line', plc'.count)
        BY <1>1, <1>2, <2>2, <2>3 DEF LineFrom
    <2>6. Chain(Client, line)'
        BY <1>1, <2>3, <2>4, <2>5, OnwardStep
    <2>7. QED
        BY <2>2, <2>6 DEF PInv, LineShows
<1>4. CASE Finish
    <2>1. /\ line'.finished /\ ~line'.seen /\ line'.code = line.code /\ line'.of = line.code
          /\ line.code # None /\ ~line.finished
        BY <1>1, <1>4 DEF Finish, Line, PInv, LineShows
    <2>2. \A b : LineFrom(line', b)
        BY <2>1 DEF LineFrom
    <2>3. \A b \in 0..MaxCount : Onward(Client, line, b) => Onward(Client, line, b)'
        BY <1>1, <2>1, <2>2 DEF Onward, Client
    <2>4. Chain(Client, line)'
        BY <1>1, <2>2, <2>3, OnwardStep
    <2>5. QED
        BY <2>1, <2>4 DEF PInv, LineShows
<1>5. CASE Restart
    <2>1. /\ line'.count = 0 /\ ~line'.seen /\ line'.finished = line.finished
          /\ line'.code = line.code /\ line'.of = line.of
        BY <1>1, <1>5, Counts DEF Restart, Line
    <2>2. \A b \in 0..MaxCount : LineFrom(line', b)
        BY <1>1, <2>1 DEF LineFrom
    <2>3. \A b \in 0..MaxCount : Onward(Client, line, b) => Onward(Client, line, b)'
        BY <1>1, <2>1, <2>2 DEF Onward, Client
    <2>4. Chain(Client, line)'
        BY <1>1, <2>2, <2>3, OnwardStep
    <2>5. QED
        BY <2>1, <2>4 DEF PInv, LineShows
<1>6. CASE RigStep
    BY <1>1, <1>6, KinStep DEF RigStep
<1>7. QED
    BY <1>3, <1>4, <1>5, <1>6 DEF ShopStep

LEMMA MagnetStepChain == IInv /\ PInv /\ MagnetStep => PInv'
<1> SUFFICES ASSUME IInv, PInv, MagnetStep PROVE PInv'
    OBVIOUS
<1>1. UNCHANGED <<app, plc, snaps, line>>
    BY DEF MagnetStep, MagnetConnect, WriteReady, SeesClamped, WriteScrewed, SeesMeasured,
           ReadBlock, MagnetNg, WriteDone, MagnetFails, Goes, Ends
<1>2. QED
    BY <1>1, KinStep

-----------------------------------------------------------------------------
(* The invariant and what it implies.                                       *)

LEMMA InitChain == Init => PInv
<1> SUFFICES ASSUME Init PROVE PInv
    OBVIOUS
<1>1. Client \in Clients
    BY InitGood DEF IInv, Good
<1>2. Quiet(Client) /\ Waits(Client.a) /\ LineShows
    BY DEF Init, Client, Quiet, Waits, LineShows
<1>3. QED
    BY <1>1, <1>2, QuietChain DEF PInv

THEOREM PlcInvariant == Spec => [](IInv /\ Still /\ PInv)
<1>1. IInv /\ Still /\ PInv /\ [Next]_vars => PInv'
    <2>1. CASE (WindowStep \/ PlcStep \/ MagnetStep \/ ShopStep) /\ UNCHANGED station
        BY <2>1, WindowStepChain, PlcStepChain, MagnetStepChain, ShopStepChain
    <2>2. CASE SwitchStation
        BY <2>2, SwitchStationChain
    <2>3. CASE TakeStation
        BY <2>3, TakeStationChain
    <2>4. CASE UNCHANGED vars
        BY <2>4, KinStep DEF vars
    <2>5. QED
        BY <2>1, <2>2, <2>3, <2>4 DEF Next
<1>2. QED
    BY <1>1, InitChain, Invariant, PTL DEF Spec

\* The barcode a snapshot confirms is that of the part whose end raised the counter, for
\* any layouts and codes, however restarts of the counter, of the worker and of the step,
\* cancellations and switches of station meet, unless the worker was left polling when a
\* part was cancelled (on_plc_snapshot; the line waits for its last count to be read).
THEOREM ConfirmsRightPart == Spec => []ConfirmsFinishedPart
<1>1. IInv /\ PInv => ConfirmsFinishedPart
    <2> SUFFICES ASSUME IInv, PInv, snaps # <<>>, Receiving(app), ~plc.stale,
                        Confirms(app, Head(snaps))
                 PROVE  Confirmed(app, Head(snaps)) = Head(snaps).of
        BY DEF ConfirmsFinishedPart, Confirmed
    <2> DEFINE p == Head(snaps)
    <2>1. p = snaps[1] /\ p \in Snap
        BY ClientNow, TailAt
    <2>2. app.base # None /\ p.count > app.base
        BY DEF Confirms
    <2>3. Follows(p, app.base)
        BY <2>1, <2>2, ClientChain DEF Chain, FromBase
    <2>4. p.code = p.of /\ p.of # None
        BY <2>2, <2>3 DEF Follows
    <2>5. Waits(app)
        BY ClientChain DEF Chain
    <2> HIDE DEF p
    <2>6. CASE p.code = app.last
        <3>1. app.waiting /\ app.pending = app.last
            BY <2>5, <2>6 DEF Waits, Confirms, Looked, p
        <3>2. QED
            BY <2>4, <2>6, <3>1 DEF Confirmed, Looked, p
    <2>7. CASE p.code # app.last
        <3>1. Looked(app, p).pending = p.code
            BY <2>4, <2>7, ClientNow DEF Looked, App
        <3>2. QED
            BY <2>4, <3>1 DEF Confirmed, p
    <2>8. QED
        BY <2>6, <2>7
<1>2. QED
    BY <1>1, PlcInvariant, PTL
=============================================================================
