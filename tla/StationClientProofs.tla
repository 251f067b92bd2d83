------------------------- MODULE StationClientProofs -------------------------
(***************************************************************************)
(* Theorems of StationClient: its types, that a product is completed with  *)
(* every step done unless an advance went astray, whose the magnet results *)
(* are, and that a window switched to a station it does not have drives    *)
(* nothing.                                                                *)
(***************************************************************************)
EXTENDS StationClient, SequenceTheorems, TLAPS

\* The windows: every type, and an index among the steps.
Window == {a \in App : a.index \in DOMAIN a.steps /\ a.done \subseteq DOMAIN a.steps}

Clients == [a: Window, plc: Plc, snaps: Seq(Snap), magnet: Magnet, events: Seq(Event)]

\* Unless the product has gone astray, every step before the current one is done, and
\* an advance is due only once, of a step that is done.
Straight(a) ==
    ~a.stray => /\ \A i \in 1..(a.index - 1) : i \in a.done
                /\ a.due > 0 => a.due = 1 /\ a.index \in a.done

\* The window may leave its step.
Leaves(a) == ~a.stray => a.due = 0 /\ a.index \in a.done

Whole(a) == a.left # {} => a.excused

\* What the magnet worker does, and has answered, is for the product in hand, or was
\* found by the prompt of a station that begins with a measurement.
Own(s) ==
    /\ s.magnet.pc # "off" => Fits(s.a, s.magnet.whose)
    /\ \A i \in DOMAIN s.events : Fits(s.a, s.events[i].whose)

Good(s) == s \in Clients /\ Straight(s.a) /\ Whole(s.a) /\ Own(s)

IInv == Good(Client) /\ line \in Line /\ rig \in Rig /\ used \in 0..Disturbances

Still == station \in Station /\ DisabledStandsStill

-----------------------------------------------------------------------------
(* The helpers keep a client good.                                          *)

\* A layout has a first step.
LEMMA LayoutFacts ==
    ASSUME NEW l \in Layouts
    PROVE  /\ l \in Seq({"main", "part", "plcmain", "plc", "magnet"})
           /\ Len(l) \in Nat /\ Len(l) > 0 /\ DOMAIN l = 1..Len(l)
BY StationClientAssumption

LEMMA NoSignals ==
    /\ <<>> \in Seq(Snap) /\ <<>> \in Seq(Event)
    /\ DOMAIN <<>> = {}
BY EmptySeq

LEMMA ClientFields ==
    ASSUME NEW s \in Clients
    PROVE  /\ s.a \in Window /\ s.a \in App /\ s.plc \in Plc /\ s.magnet \in Magnet
           /\ s.snaps \in Seq(Snap) /\ s.events \in Seq(Event)
           /\ s.a.steps \in Layouts /\ s.a.due \in 0..QueueBound /\ s.a.due \in Nat
           /\ s.a.index \in DOMAIN s.a.steps /\ s.a.index \in Nat \ {0}
           /\ s.a.done \subseteq DOMAIN s.a.steps
BY StationClientAssumption DEF Clients, Window, App

LEMMA StopPlcGood ==
    ASSUME NEW s \in Clients
    PROVE  /\ StopPlc(s) \in Clients /\ StopPlc(s).a = s.a
           /\ StopPlc(s).magnet = s.magnet /\ StopPlc(s).events = s.events
<1> DEFINE o == s.plc.ending \/ s.plc.pc # "off"
           q == [s.plc EXCEPT !.pc = "off", !.stale = FALSE, !.ending = o]
<1>1. q \in Plc
    <2>1. o \in BOOLEAN /\ FALSE \in BOOLEAN
        BY ClientFields DEF Plc
    <2> HIDE DEF o
    <2>2. QED
        BY <2>1, ClientFields DEF Plc
<1>2. StopPlc(s) = [s EXCEPT !.plc = q, !.snaps = <<>>]
    BY DEF StopPlc
<1>3. QED
    BY <1>1, <1>2, NoSignals DEF Clients

LEMMA StartPlcGood ==
    ASSUME NEW s \in Clients
    PROVE  /\ StartPlc(s) \in Clients /\ StartPlc(s).a.steps = s.a.steps
           /\ StartPlc(s).magnet = s.magnet /\ StartPlc(s).events = s.events
           /\ Straight(s.a) => Straight(StartPlc(s).a)
           /\ Whole(s.a) => Whole(StartPlc(s).a)
<1> DEFINE q == [s.plc EXCEPT !.pc = "starting", !.stale = FALSE]
           b == [s.a EXCEPT !.base = None, !.last = None, !.pending = None, !.waiting = FALSE]
<1>1. q \in Plc
    BY ClientFields DEF Plc
<1>2. /\ b \in Window
      /\ b.index = s.a.index /\ b.done = s.a.done /\ b.due = s.a.due /\ b.stray = s.a.stray
      /\ b.left = s.a.left /\ b.excused = s.a.excused /\ b.steps = s.a.steps
    BY ClientFields, ZenonT(40) DEF Window, App
<1>3. CASE s.plc.pc = "off"
    <2>1. StartPlc(s) = [s EXCEPT !.plc = q, !.a = b]
        BY <1>3 DEF StartPlc, Clients, Plc, Window, App
    <2>2. StartPlc(s) \in Clients /\ StartPlc(s).a = b
          /\ StartPlc(s).magnet = s.magnet /\ StartPlc(s).events = s.events
        BY <1>1, <1>2, <2>1 DEF Clients
    <2>3. QED
        BY <1>2, <2>2 DEF Straight, Whole
<1>4. CASE s.plc.pc # "off"
    BY <1>4 DEF StartPlc
<1>5. QED
    BY <1>3, <1>4

LEMMA StopMagnetGood ==
    ASSUME NEW s \in Clients
    PROVE  StopMagnet(s) \in Clients /\ StopMagnet(s).a = s.a /\ Own(StopMagnet(s))
<1> DEFINE k == [s.magnet EXCEPT !.pc = "off"]
<1>1. k \in Magnet /\ k.pc = "off"
    BY ClientFields DEF Magnet
<1>2. StopMagnet(s) = [s EXCEPT !.magnet = k, !.events = <<>>]
    BY DEF StopMagnet, Clients, Magnet
<1>3. /\ StopMagnet(s) \in Clients /\ StopMagnet(s).a = s.a
      /\ StopMagnet(s).magnet = k /\ StopMagnet(s).events = <<>>
    BY <1>1, <1>2, NoSignals DEF Clients
<1>4. QED
    BY <1>1, <1>3, NoSignals DEF Own

\* A record begun for some product, as the prompt of a first step finds it.
LEMMA KeptRecord ==
    /\ \A k \in Magnet : Kept(k) \in Magnet /\ Kept(k).whose \in {"own", "kept"}
    /\ \A e \in Event : Kept(e) \in Event /\ Kept(e).whose \in {"own", "kept"}
BY DEF Kept, Magnet, Event, Whose

LEMMA FoundGood ==
    ASSUME NEW s \in Clients
    PROVE  /\ Found(s) \in Clients /\ Found(s).a = s.a
           /\ Found(s).plc = s.plc /\ Found(s).snaps = s.snaps
           /\ Type(s.a) = "magnet" /\ (Own(s) \/ s.a.index = 1) => Own(Found(s))
<1>1. s.a.index \in Nat \ {0}
    BY ClientFields
<1>2. CASE s.a.index > 1
    BY <1>2 DEF Found
<1>3. CASE s.a.index = 1
    <2> DEFINE k == Kept(s.magnet)
               e == [i \in DOMAIN s.events |-> Kept(s.events[i])]
    <2>1. k \in Magnet /\ k.whose \in {"own", "kept"}
        BY ClientFields, KeptRecord
    <2>2. s.events \in Seq(Event)
        BY ClientFields
    <2>3. Len(s.events) \in Nat /\ DOMAIN s.events = 1..Len(s.events)
        BY <2>2, LenProperties
    <2>4. \A i \in 1..Len(s.events) : s.events[i] \in Event
        BY <2>2, ElementOfSeq
    <2>5. \A i \in 1..Len(s.events) :
             Kept(s.events[i]) \in Event /\ Kept(s.events[i]).whose \in {"own", "kept"}
        BY <2>4, KeptRecord
    <2>6. e \in [1..Len(s.events) -> Event]
          /\ \A i \in DOMAIN e : e[i].whose \in {"own", "kept"}
        BY <2>3, <2>5
    <2>7. e \in Seq(Event)
        BY <2>3, <2>6, SeqDef
    <2>8. Found(s) = [s EXCEPT !.magnet = k, !.events = e]
        BY <1>3 DEF Found, Clients
    <2> HIDE DEF k, e
    <2>9. /\ Found(s) \in Clients /\ Found(s).a = s.a
          /\ Found(s).plc = s.plc /\ Found(s).snaps = s.snaps
          /\ Found(s).magnet = k /\ Found(s).events = e
        BY <2>1, <2>7, <2>8 DEF Clients
    <2>10. Type(s.a) = "magnet" => s.a.steps[1] = "magnet"
        BY <1>3 DEF Type
    <2>11. QED
        BY <2>1, <2>6, <2>9, <2>10 DEF Own, Fits
<1>4. QED
    BY <1>1, <1>2, <1>3

\* What a magnet step starts or leaves at work is its own, or was found at a first step.
LEMMA StartMagnetGood ==
    ASSUME NEW s \in Clients
    PROVE  /\ StartMagnet(s) \in Clients /\ StartMagnet(s).a = s.a
           /\ StartMagnet(s).plc = s.plc /\ StartMagnet(s).snaps = s.snaps
           /\ Type(s.a) = "magnet" /\ (Own(s) \/ s.a.index = 1) => Own(StartMagnet(s))
<1> DEFINE f == Found(s)
           k == [pc |-> "connect", whose |-> "own"]
           n == [f EXCEPT !.magnet = k]
<1>1. /\ f \in Clients /\ f.a = s.a /\ f.plc = s.plc /\ f.snaps = s.snaps
      /\ Type(s.a) = "magnet" /\ (Own(s) \/ s.a.index = 1) => Own(f)
    BY FoundGood
<1>2. StartMagnet(s) = f \/ StartMagnet(s) = n
    BY DEF StartMagnet
<1>3. k \in Magnet /\ k.whose = "own"
    BY DEF Magnet, Whose
<1> HIDE DEF f, k
<1>4. /\ n \in Clients /\ n.a = s.a /\ n.plc = s.plc /\ n.snaps = s.snaps
      /\ n.magnet = k /\ n.events = f.events
    BY <1>1, <1>3 DEF Clients
<1> HIDE DEF n
<1>5. Own(f) => Own(n)
    BY <1>1, <1>3, <1>4 DEF Own, Fits
<1>6. QED
    BY <1>1, <1>2, <1>4, <1>5

\* A prompt keeps a client good, and at a first step it makes good one that is not.
LEMMA PromptStepGood ==
    ASSUME NEW s \in Clients, Straight(s.a), Whole(s.a), Own(s) \/ s.a.index = 1
    PROVE  Good(PromptStep(s))
<1>1. CASE s.a.degraded
    BY <1>1, StopPlcGood, StopMagnetGood DEF PromptStep, Good
<1>2. CASE ~s.a.degraded /\ Receiving(s.a)
    <2>1. StopMagnet(s) \in Clients /\ StopMagnet(s).a = s.a /\ Own(StopMagnet(s))
        BY StopMagnetGood
    <2>2. PromptStep(s) = StartPlc(StopMagnet(s))
        BY <1>2 DEF PromptStep
    <2>3. QED
        BY <2>1, <2>2, StartPlcGood DEF Good, Own, Fits
<1>3. CASE ~s.a.degraded /\ ~Receiving(s.a) /\ Type(s.a) = "magnet"
    <2>1. /\ StopPlc(s) \in Clients /\ StopPlc(s).a = s.a
          /\ Own(StopPlc(s)) \/ StopPlc(s).a.index = 1
        BY StopPlcGood DEF Own
    <2>2. QED
        BY <1>3, <2>1, StartMagnetGood DEF PromptStep, Good
<1>4. CASE ~s.a.degraded /\ ~Receiving(s.a) /\ Type(s.a) # "magnet"
    BY <1>4, StopPlcGood, StopMagnetGood DEF PromptStep, Good
<1>5. QED
    BY <1>1, <1>2, <1>3, <1>4

\* A window without its station is not prompted.
LEMMA PromptGood ==
    ASSUME NEW s \in Clients, Straight(s.a), Whole(s.a), Own(s) \/ (s.a.index = 1 /\ enabled)
    PROVE  Good(Prompt(s))
<1>1. CASE enabled
    BY <1>1, PromptStepGood DEF Prompt
<1>2. CASE ~enabled
    BY <1>2 DEF Prompt, Good
<1>3. QED
    BY <1>1, <1>2

\* A window that stands at another step, with other steps done.
Moved(a, i, d, o) == [a EXCEPT !.index = i, !.done = d, !.stray = o]

LEMMA WindowMoved ==
    ASSUME NEW a \in Window, NEW i \in DOMAIN a.steps, NEW d \in SUBSET DOMAIN a.steps,
           NEW o \in BOOLEAN
    PROVE  LET b == Moved(a, i, d, o)
           IN  /\ b \in Window /\ b.steps = a.steps /\ b.index = i /\ b.done = d
               /\ b.due = a.due /\ b.stray = o /\ b.left = a.left /\ b.excused = a.excused
<1> DEFINE b == Moved(a, i, d, o)
<1>1. a \in App /\ a.steps \in Layouts
    BY DEF Window, App
<1>2. DOMAIN a.steps \subseteq Nat \ {0}
    BY <1>1, LayoutFacts
<1>3. i \in Nat \ {0} /\ d \in SUBSET Nat
    BY <1>2
<1>4. b \in App /\ b.steps = a.steps /\ b.index = i /\ b.done = d
    BY <1>1, <1>3 DEF App, Moved
<1>5. b \in Window
    BY <1>4 DEF Window
<1>6. b.due = a.due /\ b.stray = o /\ b.left = a.left /\ b.excused = a.excused
    BY <1>1 DEF App, Moved
<1>7. QED
    BY <1>4, <1>5, <1>6

LEMMA RenewedGood ==
    ASSUME NEW s \in Clients
    PROVE  /\ Renewed(s) \in Clients /\ Renewed(s).a.index = 1
           /\ Straight(Renewed(s).a)
           /\ Whole(s.a) => Whole(Renewed(s).a)
<1> DEFINE b == [s.a EXCEPT !.index = 1, !.done = {}, !.code = None, !.known = FALSE,
                            !.stray = s.a.due > 0]
           e == [i \in DOMAIN s.events |-> [s.events[i] EXCEPT !.whose = "earlier"]]
<1> DEFINE c == [s.a EXCEPT !.code = None, !.known = FALSE]
<1>0. c \in Window /\ c.steps = s.a.steps /\ c.due = s.a.due /\ c.left = s.a.left
      /\ c.excused = s.a.excused
    <2>1. FALSE \in BOOLEAN /\ None \in Code \cup {None}
        OBVIOUS
    <2>2. /\ c \in App /\ c.steps = s.a.steps /\ c.index = s.a.index /\ c.done = s.a.done
          /\ c.due = s.a.due /\ c.left = s.a.left /\ c.excused = s.a.excused
        BY <2>1, ClientFields DEF App
    <2>3. QED
        BY <2>2, ClientFields DEF Window
<1> DEFINE o == s.a.due > 0
<1>1. o \in BOOLEAN
    BY ClientFields
<1>a. b = Moved(c, 1, {}, o)
    BY ClientFields DEF App, Moved
<1>o. ~o => s.a.due = 0
    BY ClientFields
<1>b. 1 \in DOMAIN c.steps /\ {} \in SUBSET DOMAIN c.steps
    BY <1>0, ClientFields, LayoutFacts
<1> HIDE DEF b, c, o
<1>c. /\ b \in Window /\ b.index = 1 /\ b.stray = o /\ b.due = s.a.due /\ b.left = s.a.left
      /\ b.excused = s.a.excused
    BY <1>0, <1>1, <1>a, <1>b, WindowMoved
<1>2. e \in Seq(Event)
    <2>1. s.events \in Seq(Event)
        BY DEF Clients
    <2>2. Len(s.events) \in Nat /\ DOMAIN s.events = 1..Len(s.events)
        BY <2>1, LenProperties
    <2>3. \A i \in 1..Len(s.events) : [s.events[i] EXCEPT !.whose = "earlier"] \in Event
        <3>1. \A i \in 1..Len(s.events) : s.events[i] \in Event
            BY <2>1, ElementOfSeq
        <3>2. QED
            BY <3>1 DEF Event, Whose
    <2>4. e \in [1..Len(s.events) -> Event]
        BY <2>2, <2>3
    <2>5. QED
        BY <2>2, <2>4, SeqDef
<1>3. Renewed(s) = [s EXCEPT !.a = b, !.magnet.whose = "earlier", !.events = e]
    BY DEF Renewed, b
<1>4. Renewed(s) \in Clients /\ Renewed(s).a = b
    <2>1. s.magnet \in Magnet
        BY DEF Clients
    <2>2. [s.magnet EXCEPT !.whose = "earlier"] \in Magnet
        BY <2>1 DEF Magnet, Whose
    <2>3. QED
        BY <1>c, <1>2, <1>3, <2>2 DEF Clients
<1>6. s.a.due \in Nat
    BY ClientFields
<1>7. QED
    BY <1>4, <1>c, <1>o, <1>6 DEF Straight, Whole

LEMMA CompletedGood ==
    ASSUME NEW s \in Clients
    PROVE  /\ Completed(s) \in Clients
           /\ Straight(s.a) /\ Leaves(s.a) /\ s.a.index = Len(s.a.steps)
                => Whole(Completed(s).a)
<1> DEFINE b == [s.a EXCEPT !.left = DOMAIN s.a.steps \ s.a.done, !.excused = s.a.stray]
<1>1. DOMAIN s.a.steps = 1..Len(s.a.steps) /\ Len(s.a.steps) \in Nat
    BY ClientFields, LayoutFacts
<1>2. b \in Window /\ b.left = DOMAIN s.a.steps \ s.a.done /\ b.excused = s.a.stray
    <2>1. DOMAIN s.a.steps \ s.a.done \in SUBSET Nat
        BY <1>1
    <2>2. b \in App /\ b.steps = s.a.steps /\ b.index = s.a.index /\ b.done = s.a.done
          /\ b.left = DOMAIN s.a.steps \ s.a.done /\ b.excused = s.a.stray
        BY <2>1, ClientFields DEF App
    <2>3. QED
        BY <2>2, ClientFields DEF Window
<1>3. Completed(s) \in Clients /\ Completed(s).a = b
    BY <1>2 DEF Completed, Clients
<1>4. Straight(s.a) /\ Leaves(s.a) /\ s.a.index = Len(s.a.steps) /\ ~s.a.stray
        => DOMAIN s.a.steps \subseteq s.a.done
    BY <1>1, ClientFields DEF Straight, Leaves
<1>5. QED
    BY <1>2, <1>3, <1>4 DEF Whole

\* The window leaves a step that is done, with no advance due.
LEMMA AdvanceGood ==
    ASSUME NEW s \in Clients, Good(s), Leaves(s.a), NEW accepted \in BOOLEAN
    PROVE  Good(Advance(s, accepted))
<1>1. DOMAIN s.a.steps = 1..Len(s.a.steps) /\ Len(s.a.steps) \in Nat
    BY ClientFields, LayoutFacts
<1>0. CASE ~enabled
    BY <1>0 DEF Advance
<1>2. CASE enabled /\ s.a.index < Len(s.a.steps)
    <2> DEFINE b == [s.a EXCEPT !.index = @ + 1]
               n == [s EXCEPT !.a = b]
    <2>1. b \in Window /\ b.index = s.a.index + 1 /\ b.done = s.a.done /\ b.due = s.a.due
          /\ b.stray = s.a.stray /\ b.left = s.a.left /\ b.excused = s.a.excused
          /\ b.steps = s.a.steps
        <3>0. s.a \in Window
            BY ClientFields
        <3>1. s.a.index + 1 \in DOMAIN s.a.steps /\ s.a.done \in SUBSET DOMAIN s.a.steps
              /\ s.a.stray \in BOOLEAN
            BY <1>1, <1>2, ClientFields DEF App
        <3>2. b = Moved(s.a, s.a.index + 1, s.a.done, s.a.stray)
            BY ClientFields DEF App, Moved
        <3> HIDE DEF b
        <3>3. QED
            BY <3>0, <3>1, <3>2, WindowMoved
    <2>2. n \in Clients /\ n.a = b /\ n.magnet = s.magnet /\ n.events = s.events
        BY <2>1 DEF Clients
    <2>3. Straight(b) /\ Whole(b)
        BY <2>1, ClientFields DEF Good, Leaves, Straight, Whole
    <2>4. Own(n)
        BY <2>1, <2>2 DEF Good, Own, Fits
    <2>5. Advance(s, accepted) = Prompt(n)
        BY <1>2 DEF Advance, Clients
    <2> HIDE DEF n, b
    <2>6. QED
        BY <2>2, <2>3, <2>4, <2>5, PromptGood
<1>3. CASE enabled /\ ~(s.a.index < Len(s.a.steps)) /\ accepted /\ s.a.code # None
    <2>1. s.a.index = Len(s.a.steps)
        BY <1>1, <1>3, ClientFields
    <2>2. Completed(s) \in Clients /\ Whole(Completed(s).a)
        BY <2>1, CompletedGood DEF Good
    <2>3. Good(Prompt(Renewed(Completed(s))))
        BY <1>3, <2>2, RenewedGood, PromptGood
    <2>4. QED
        BY <1>3, <2>3 DEF Advance
<1>4. CASE enabled /\ ~(s.a.index < Len(s.a.steps)) /\ ~(accepted /\ s.a.code # None)
    BY <1>4 DEF Advance
<1>5. QED
    BY <1>0, <1>2, <1>3, <1>4

\* A step done may be left.
LEMMA DoneGood ==
    ASSUME NEW s \in Clients
    PROVE  /\ Done(s) \in Clients /\ Done(s).a.due = s.a.due
           /\ Good(s) => Good(Done(s)) /\ Leaves(Done(s).a)
<1> DEFINE b == [Overtaken(s.a) EXCEPT !.done = @ \cup {s.a.index}]
<1> DEFINE o == s.a.stray \/ s.a.due > 0
<1>1. o \in BOOLEAN
    BY ClientFields
<1>0. s.a \in Window /\ s.a.index \in DOMAIN s.a.steps
      /\ s.a.done \cup {s.a.index} \in SUBSET DOMAIN s.a.steps
    BY ClientFields
<1>2. b = Moved(s.a, s.a.index, s.a.done \cup {s.a.index}, o)
    BY ClientFields DEF App, Moved, Overtaken
<1>4. Done(s) = [s EXCEPT !.a = b]
    BY DEF Done
<1>o. ~o => s.a.due = 0 /\ ~s.a.stray
    BY ClientFields
<1> HIDE DEF b, o
<1>3. /\ b \in Window
      /\ b.index = s.a.index /\ b.done = s.a.done \cup {s.a.index} /\ b.due = s.a.due
      /\ b.stray = o /\ b.left = s.a.left /\ b.excused = s.a.excused
      /\ b.steps = s.a.steps
    BY <1>0, <1>1, <1>2, WindowMoved
<1>5. /\ Done(s) \in Clients /\ Done(s).a = b
      /\ Done(s).magnet = s.magnet /\ Done(s).events = s.events
    BY <1>3, <1>4 DEF Clients
<1>6. Leaves(b)
    BY <1>3, <1>o DEF Leaves
<1>7. Good(s) => Straight(b) /\ Whole(b)
    BY <1>3, <1>o, ClientFields DEF Good, Straight, Whole
<1>8. Good(s) => Own(Done(s))
    BY <1>3, <1>5 DEF Good, Own, Fits
<1>9. QED
    BY <1>3, <1>5, <1>6, <1>7, <1>8 DEF Good

\* What keeps the steps, the index, those done, the advances due and the histories.
Akin(a, b) ==
    /\ b.steps = a.steps /\ b.index = a.index /\ b.done = a.done /\ b.due = a.due /\ b.stray = a.stray
    /\ b.left = a.left /\ b.excused = a.excused

LEMMA AkinGood ==
    ASSUME NEW s \in Clients, Good(s), NEW b \in Window, Akin(s.a, b)
    PROVE  Good([s EXCEPT !.a = b])
<1> DEFINE n == [s EXCEPT !.a = b]
<1>1. n \in Clients /\ n.a = b /\ n.magnet = s.magnet /\ n.events = s.events
    BY DEF Clients
<1> HIDE DEF n
<1>2. Straight(b) /\ Whole(b)
    BY DEF Good, Straight, Whole, Akin
<1>3. QED
    BY <1>1, <1>2 DEF Good, Own, Fits, Akin, n

LEMMA StopPlcKeeps ==
    ASSUME NEW s \in Clients, Good(s)
    PROVE  Good(StopPlc(s)) /\ StopPlc(s) \in Clients /\ StopPlc(s).a = s.a
BY StopPlcGood DEF Good, Own

\* A step of the window makes the client what the handler returned.
LEMMA DoesClient ==
    ASSUME NEW s \in Clients, Does(s)
    PROVE  Client' = s
BY DEF Does, Client, Clients

LEMMA LookedGood ==
    ASSUME NEW a \in Window, NEW p \in Snap
    PROVE  Looked(a, p) \in Window /\ Akin(a, Looked(a, p))
<1> DEFINE b == [a EXCEPT !.pending = p.code, !.waiting = TRUE, !.last = p.code]
<1>1. p.code \in Code \cup {None} /\ TRUE \in BOOLEAN
    BY DEF Snap
<1>2. b \in Window /\ Akin(a, b)
    BY <1>1 DEF Window, App, Akin
<1>3. QED
    BY <1>2 DEF Looked, Akin

LEMMA RebasedGood ==
    ASSUME NEW a \in Window, NEW p \in Snap
    PROVE  Rebased(a, p) \in Window /\ Akin(a, Rebased(a, p))
<1> DEFINE k == Looked(a, p)
<1>1. p.code \in Code \cup {None} /\ p.count \in 0..MaxCount /\ FALSE \in BOOLEAN
    BY DEF Snap
<1>2. k \in Window /\ Akin(a, k)
    BY LookedGood
<1> HIDE DEF k
<1>3. [a EXCEPT !.base = p.count, !.last = p.code] \in Window
      /\ Akin(a, [a EXCEPT !.base = p.count, !.last = p.code])
    BY <1>1 DEF Window, App, Akin
<1>4. [k EXCEPT !.base = p.count, !.pending = None, !.waiting = FALSE] \in Window
      /\ Akin(k, [k EXCEPT !.base = p.count, !.pending = None, !.waiting = FALSE])
    BY <1>1, <1>2 DEF Window, App, Akin
<1>5. [k EXCEPT !.base = p.count] \in Window /\ Akin(k, [k EXCEPT !.base = p.count])
    BY <1>1, <1>2 DEF Window, App, Akin
<1>6. QED
    BY <1>2, <1>3, <1>4, <1>5 DEF Rebased, Akin, k

LEMMA ConfirmedType ==
    ASSUME NEW a \in Window, NEW p \in Snap
    PROVE  Confirmed(a, p) \in Code \cup {None}
BY LookedGood DEF Confirmed, Window, App

LEMMA ReceivedGood ==
    ASSUME NEW s \in Clients, Good(s), NEW code \in Code \cup {None},
           NEW passes \in BOOLEAN, NEW accepted \in BOOLEAN
    PROVE  Good(Received(s, code, passes, accepted))
<1> DEFINE main == Type(s.a) = "plcmain"
           fits == IF main THEN passes ELSE s.a.code = code
           c == [s.a EXCEPT !.pending = None, !.waiting = FALSE]
           m == [c EXCEPT !.code = code, !.known = TRUE]
           taken == IF main THEN m ELSE c
           l == [c EXCEPT !.last = None]
<1>1. s.a \in Window /\ s.a \in App /\ TRUE \in BOOLEAN /\ FALSE \in BOOLEAN
    BY ClientFields
<1>2. c \in Window /\ Akin(s.a, c)
    BY <1>1 DEF Window, App, Akin
<1>3. m \in Window /\ Akin(s.a, m)
    BY <1>1 DEF Window, App, Akin
<1>4. l \in Window /\ Akin(s.a, l)
    BY <1>1 DEF Window, App, Akin
<1>5. taken \in Window /\ Akin(s.a, taken)
    BY <1>2, <1>3
<1>6. Received(s, code, passes, accepted)
      = IF fits THEN Advance(StopPlc(Done([s EXCEPT !.a = taken])), accepted)
        ELSE [s EXCEPT !.a = l]
    BY DEF Received
<1> HIDE DEF l, taken, fits
<1>7. Good([s EXCEPT !.a = taken]) /\ Good([s EXCEPT !.a = l])
    BY <1>4, <1>5, AkinGood
<1> DEFINE r == [s EXCEPT !.a = taken]
<1>8. r \in Clients
    BY <1>7 DEF Good
<1>9. Good(Advance(StopPlc(Done(r)), accepted))
    <2> HIDE DEF r
    <2>1. Done(r) \in Clients /\ Good(Done(r)) /\ Leaves(Done(r).a)
        <3>1. Good(r)
            BY <1>7 DEF r
        <3>2. QED
            BY <1>8, <3>1, DoneGood
    <2>2. /\ StopPlc(Done(r)) \in Clients /\ Good(StopPlc(Done(r)))
          /\ Leaves(StopPlc(Done(r)).a)
        BY <2>1, StopPlcKeeps
    <2>3. QED
        BY <2>2, AdvanceGood
<1>10. QED
    BY <1>6, <1>7, <1>9

-----------------------------------------------------------------------------
(* Steps, by what they change.                                              *)

LEMMA ClientNow ==
    ASSUME IInv
    PROVE  /\ Client \in Clients /\ Good(Client)
           /\ Client.a = app /\ Client.plc = plc /\ Client.snaps = snaps
           /\ Client.magnet = magnet /\ Client.events = events
           /\ app \in Window /\ app \in App /\ plc \in Plc /\ magnet \in Magnet
           /\ snaps \in Seq(Snap) /\ events \in Seq(Event)
           /\ app.due \in 0..QueueBound /\ app.due \in Nat
           /\ app.steps \in Layouts /\ app.index \in DOMAIN app.steps
           /\ app.done \subseteq DOMAIN app.steps
<1>1. Client \in Clients /\ Good(Client)
    BY DEF IInv, Good
<1>2. /\ Client.a = app /\ Client.plc = plc /\ Client.snaps = snaps
      /\ Client.magnet = magnet /\ Client.events = events
    BY DEF Client
<1>3. QED
    BY <1>1, <1>2, ClientFields

\* The window has made its client good.
LEMMA DoesGood ==
    ASSUME IInv, NEW s, Good(s), Does(s), line' = line, rig' = rig,
           used' \in 0..Disturbances
    PROVE  IInv'
<1>1. Client' = s
    BY DoesClient DEF Good
<1>2. Good(Client')
    BY <1>1
<1>3. QED
    BY <1>2 DEF IInv, Good, Straight, Whole, Own

\* What a disturbance leaves of their bound.
LEMMA DisturbType ==
    ASSUME IInv, NEW n \in Nat, Disturb(n)
    PROVE  used' \in 0..Disturbances
BY StationClientAssumption DEF IInv, Disturb

LEMMA RefusalType ==
    ASSUME IInv, NEW accepted \in BOOLEAN, Refusal(accepted)
    PROVE  used' \in 0..Disturbances
BY StationClientAssumption DEF IInv, Refusal, Disturb

\* The polling worker, the line and the rig.
LEMMA PolledGood ==
    ASSUME IInv, plc' \in Plc, snaps' \in Seq(Snap), line' \in Line, rig' \in Rig,
           UNCHANGED <<app, magnet, events, used>>
    PROVE  IInv'
<1>1. Client' \in Clients
    BY ClientNow DEF Client, Clients
<1>2. Straight(app) /\ Whole(app) /\ Own(Client)
    BY ClientNow DEF Good
<1>3. Own(Client')
    BY <1>2 DEF Own, Client
<1>4. Straight(Client'.a) /\ Whole(Client'.a)
    BY <1>2 DEF Client
<1>5. QED
    BY <1>1, <1>3, <1>4 DEF IInv, Good, Straight, Whole, Own, Clients

\* The magnet worker.
LEMMA MagnetGood ==
    ASSUME IInv, magnet' \in Magnet, magnet'.pc # "off" => Fits(app, magnet'.whose),
           events' \in Seq(Event), \A i \in DOMAIN events' : Fits(app, events'[i].whose),
           rig' \in Rig, UNCHANGED <<app, plc, snaps, line, used>>
    PROVE  IInv'
<1>1. Client' \in Clients
    BY ClientNow DEF Client, Clients
<1>2. Straight(app) /\ Whole(app)
    BY ClientNow DEF Good
<1>3. Own(Client')
    BY DEF Own, Client
<1>4. Straight(Client'.a) /\ Whole(Client'.a)
    BY <1>2 DEF Client
<1>5. QED
    BY <1>1, <1>3, <1>4 DEF IInv, Good, Straight, Whole, Own, Clients

\* The window changes nothing but what the histories do not look at.
LEMMA AkinStep ==
    ASSUME IInv, app' \in Window, Akin(app, app'), used' \in 0..Disturbances,
           UNCHANGED <<plc, snaps, magnet, events, line, rig>>
    PROVE  IInv'
<1> DEFINE b == app'
<1>1. Good([Client EXCEPT !.a = b])
    BY ClientNow, AkinGood
<1>2. Does([Client EXCEPT !.a = b])
    BY ClientNow DEF Does, Client
<1>3. QED
    BY <1>1, <1>2, DoesGood

-----------------------------------------------------------------------------
(* The steps of the window, one by one.                                     *)

LEMMA OnSnapshotGood == IInv /\ OnSnapshot => IInv'
<1> SUFFICES ASSUME IInv, OnSnapshot PROVE IInv'
    OBVIOUS
<1> DEFINE p == Head(snaps)
           s == [Client EXCEPT !.snaps = Tail(snaps)]
           b == Rebased(app, p)
           read == [s EXCEPT !.a = b]
<1>1. snaps \in Seq(Snap) /\ snaps # <<>>
    BY ClientNow DEF OnSnapshot
<1>2. p \in Snap /\ Tail(snaps) \in Seq(Snap)
    BY <1>1, HeadTailProperties
<1>3. s \in Clients /\ s.a = app /\ Good(s)
    <2>1. /\ s \in Clients /\ s.a = app /\ s.magnet = Client.magnet
          /\ s.events = Client.events
        BY <1>2, ClientNow DEF Clients
    <2>2. QED
        BY <2>1, ClientNow DEF Good, Own
<1>4. b \in Window /\ Akin(app, b) /\ app \in Window
    BY <1>2, ClientNow, RebasedGood
<1>5. line' = line /\ rig' = rig
    BY DEF OnSnapshot
<1>6. [Client EXCEPT !.snaps = Tail(@)] = s /\ [s EXCEPT !.a = Rebased(@, p)] = read
    BY <1>3, ClientNow DEF Clients
<1> DEFINE code == Confirmed(app, p)
<1>7. code \in Code \cup {None}
    BY <1>2, <1>4, ConfirmedType
<1>8. \/ Does(s) /\ used' = used
      \/ Does(read) /\ used' = used
      \/ \E passes, accepted \in BOOLEAN :
            /\ Disturb((IF passes THEN 0 ELSE 1) + (IF accepted THEN 0 ELSE 1))
            /\ Does(Received(read, code, passes, accepted))
    BY <1>6 DEF OnSnapshot
<1> HIDE DEF s, b, p, code
<1>9. read \in Clients /\ Good(read)
    <2>1. Good(read)
        BY <1>3, <1>4, AkinGood
    <2>2. QED
        BY <2>1 DEF Good
<1> HIDE DEF read
<1>10. used \in 0..Disturbances
    BY DEF IInv
<1>11. CASE Does(s) /\ used' = used
    BY <1>3, <1>5, <1>10, <1>11, DoesGood
<1>12. CASE Does(read) /\ used' = used
    BY <1>9, <1>5, <1>10, <1>12, DoesGood
<1>13. ASSUME NEW passes \in BOOLEAN, NEW accepted \in BOOLEAN,
              Disturb((IF passes THEN 0 ELSE 1) + (IF accepted THEN 0 ELSE 1)),
              Does(Received(read, code, passes, accepted))
       PROVE  IInv'
    <2>1. (IF passes THEN 0 ELSE 1) + (IF accepted THEN 0 ELSE 1) \in Nat
        OBVIOUS
    <2>2. used' \in 0..Disturbances
        BY <1>13, <2>1, DisturbType
    <2>3. Good(Received(read, code, passes, accepted))
        BY <1>7, <1>9, ReceivedGood
    <2>4. QED
        BY <1>5, <1>13, <2>2, <2>3, DoesGood
<1>14. QED
    BY <1>8, <1>11, <1>12, <1>13

LEMMA OldThreadEndsGood == IInv /\ OldThreadEnds => IInv'
<1> SUFFICES ASSUME IInv, OldThreadEnds PROVE IInv'
    OBVIOUS
<1>1. plc' \in Plc
    BY ClientNow DEF OldThreadEnds, Plc
<1>2. snaps' \in Seq(Snap) /\ line' \in Line /\ rig' \in Rig
    BY ClientNow DEF OldThreadEnds, IInv
<1>3. QED
    BY <1>1, <1>2, PolledGood DEF OldThreadEnds

LEMMA OnMagnetGood == IInv /\ OnMagnet => IInv'
<1> SUFFICES ASSUME IInv, OnMagnet PROVE IInv'
    OBVIOUS
<1> DEFINE s == [Client EXCEPT !.events = Tail(events)]
<1>1. events \in Seq(Event) /\ events # <<>> /\ app.due < QueueBound
    BY ClientNow DEF OnMagnet
<1>2. s \in Clients /\ s.a = app /\ Good(s)
    <2>1. /\ Tail(events) \in Seq(Event) /\ Len(Tail(events)) = Len(events) - 1
          /\ \A i \in 1..Len(Tail(events)) : Tail(events)[i] = events[i + 1]
          /\ Len(events) \in Nat
        BY <1>1, HeadTailProperties, LenProperties
    <2>2. \A i \in DOMAIN events : Fits(app, events[i].whose)
        BY ClientNow DEF Good, Own
    <2>3. DOMAIN events = 1..Len(events) /\ DOMAIN Tail(events) = 1..Len(Tail(events))
        BY <1>1, <2>1, LenProperties
    <2>4. \A i \in DOMAIN Tail(events) : Fits(app, Tail(events)[i].whose)
        BY <2>1, <2>2, <2>3
    <2>5. /\ s \in Clients /\ s.a = app /\ s.magnet = Client.magnet
          /\ s.events = Tail(events)
        BY <2>1, ClientNow DEF Clients
    <2>6. QED
        BY <2>4, <2>5, ClientNow DEF Good, Own
<1>3. [Client EXCEPT !.events = Tail(@)] = s
    BY ClientNow DEF Clients
<1> DEFINE d == Done(s)
           b == [d.a EXCEPT !.due = @ + 1]
           n == [d EXCEPT !.a.due = @ + 1]
<1>4. \/ Does(s)
      \/ Does(n)
    BY <1>3 DEF OnMagnet, Measured
<1> HIDE DEF s
<1>5. d \in Clients /\ Good(d) /\ Leaves(d.a) /\ d.a.due = app.due
    BY <1>2, DoneGood
<1>6. Good(n)
    <2> HIDE DEF d
    <2>1. d.a \in Window /\ d.a \in App /\ d.a.due \in Nat /\ d.a.due + 1 \in 0..QueueBound
        BY <1>1, <1>5, ClientFields, ClientNow, StationClientAssumption
    <2>2. /\ b \in Window /\ b.index = d.a.index /\ b.done = d.a.done
          /\ b.due = d.a.due + 1 /\ b.stray = d.a.stray /\ b.left = d.a.left
          /\ b.excused = d.a.excused /\ b.steps = d.a.steps
        BY <2>1 DEF Window, App
    <2>3. n \in Clients /\ n.a = b /\ n.magnet = d.magnet /\ n.events = d.events
        BY <1>5, <2>2 DEF Clients
    <2> HIDE DEF n, b
    <2>4. Straight(b) /\ Whole(b)
        BY <1>5, <2>1, <2>2 DEF Good, Straight, Whole, Leaves
    <2>5. QED
        BY <1>5, <2>2, <2>3, <2>4 DEF Good, Own, Fits
<1>7. line' = line /\ rig' = rig /\ used' \in 0..Disturbances
    BY DEF OnMagnet, IInv
<1> HIDE DEF n
<1>8. QED
    BY <1>2, <1>4, <1>6, <1>7, DoesGood

LEMMA LateAdvanceGood == IInv /\ LateAdvance => IInv'
<1> SUFFICES ASSUME IInv, LateAdvance PROVE IInv'
    OBVIOUS
<1> DEFINE b == [app EXCEPT !.due = @ - 1]
           s == [Client EXCEPT !.a = b]
<1>1. PICK accepted \in BOOLEAN :
         Refusal(accepted) /\ Does(Advance([Client EXCEPT !.a.due = @ - 1], accepted))
    BY DEF LateAdvance
<1>2. [Client EXCEPT !.a.due = @ - 1] = s
    BY ClientNow DEF Clients
<1>3. app \in Window /\ app.due \in Nat /\ app.due > 0 /\ app.due - 1 \in 0..QueueBound
    BY ClientNow, StationClientAssumption DEF LateAdvance
<1>4. /\ b \in Window /\ b.index = app.index /\ b.done = app.done /\ b.due = app.due - 1
      /\ b.stray = app.stray /\ b.left = app.left /\ b.excused = app.excused
      /\ b.steps = app.steps
    BY <1>3 DEF Window, App
<1>5. s \in Clients /\ s.a = b /\ s.magnet = Client.magnet /\ s.events = Client.events
    BY <1>4, ClientNow DEF Clients
<1> HIDE DEF b, s
<1>6. Straight(b) /\ Leaves(b) /\ Whole(b)
    BY <1>3, <1>4, ClientNow DEF Good, Straight, Leaves, Whole
<1>7. Good(s) /\ Leaves(s.a)
    BY <1>4, <1>5, <1>6, ClientNow DEF Good, Own, Fits
<1>8. Good(Advance(s, accepted))
    BY <1>5, <1>7, AdvanceGood
<1>9. line' = line /\ rig' = rig /\ used' \in 0..Disturbances
    BY <1>1, RefusalType DEF LateAdvance
<1>10. QED
    BY <1>1, <1>2, <1>8, <1>9, DoesGood

\* A code that completes the step, whatever it names the product.
LEMMA CompletesGood ==
    ASSUME IInv, NEW code \in Code \cup {None}, NEW known \in BOOLEAN,
           NEW accepted \in BOOLEAN
    PROVE  Good(Advance(Done([Client EXCEPT !.a = [app EXCEPT !.code = code,
                                                             !.known = known]]), accepted))
<1> DEFINE b == [app EXCEPT !.code = code, !.known = known]
           s == [Client EXCEPT !.a = b]
<1>1. b \in Window /\ Akin(app, b)
    BY ClientNow DEF Window, App, Akin
<1> HIDE DEF b
<1>2. Good(s)
    BY <1>1, ClientNow, AkinGood
<1> HIDE DEF s
<1>3. Done(s) \in Clients /\ Good(Done(s)) /\ Leaves(Done(s).a)
    BY <1>2, DoneGood DEF Good
<1>4. Good(Advance(Done(s), accepted))
    BY <1>3, AdvanceGood
<1>5. QED
    BY <1>4 DEF s, b

LEMMA ScanGood == IInv /\ Scan => IInv'
<1> SUFFICES ASSUME IInv, Scan PROVE IInv'
    OBVIOUS
<1>1. PICK code \in (IF Type(app) = "main" THEN Code ELSE {app.code}), accepted \in BOOLEAN :
         /\ Refusal(accepted)
         /\ Does(Advance(Done([Client EXCEPT !.a.code = code,
                                             !.a.known = @ \/ Type(app) = "main"]), accepted))
    BY DEF Scan
<1> DEFINE known == app.known \/ Type(app) = "main"
           b == [app EXCEPT !.code = code, !.known = known]
<1>2. known \in BOOLEAN
    OBVIOUS
<1>3. code \in Code \cup {None}
    BY ClientNow DEF App
<1>4. [Client EXCEPT !.a.code = code, !.a.known = @ \/ Type(app) = "main"]
      = [Client EXCEPT !.a = b]
    BY ClientNow DEF Clients, Window, App
<1> HIDE DEF known
<1>5. Good(Advance(Done([Client EXCEPT !.a = b]), accepted))
    BY <1>2, <1>3, CompletesGood
<1>6. line' = line /\ rig' = rig /\ used' \in 0..Disturbances
    BY <1>1, RefusalType DEF Scan
<1> HIDE DEF b
<1>7. QED
    BY <1>1, <1>4, <1>5, <1>6, DoesGood

LEMMA DegradedScanGood == IInv /\ DegradedScan => IInv'
<1> SUFFICES ASSUME IInv, DegradedScan PROVE IInv'
    OBVIOUS
<1>1. PICK named \in Code \cup {None}, accepted \in BOOLEAN :
         /\ Refusal(accepted)
         /\ Does(Advance(Done([Client EXCEPT !.a.code = named]), accepted))
    <2>1. PICK code \in Code, accepted \in BOOLEAN :
             /\ Refusal(accepted)
             /\ LET named == IF Type(app) \in {"main", "plcmain"} \/ app.code = None
                             THEN code ELSE app.code
                IN  Does(Advance(Done([Client EXCEPT !.a.code = named]), accepted))
        BY DEF DegradedScan
    <2> DEFINE named == IF Type(app) \in {"main", "plcmain"} \/ app.code = None
                        THEN code ELSE app.code
    <2>2. named \in Code \cup {None}
        BY ClientNow DEF App
    <2> HIDE DEF named
    <2>3. Refusal(accepted) /\ Does(Advance(Done([Client EXCEPT !.a.code = named]), accepted))
        BY <2>1 DEF named
    <2>4. QED
        BY <2>2, <2>3
<1> DEFINE b == [app EXCEPT !.code = named, !.known = app.known]
<1>2. app.known \in BOOLEAN
    BY ClientNow DEF App
<1>3. [Client EXCEPT !.a.code = named] = [Client EXCEPT !.a = b]
    BY ClientNow DEF Clients, Window, App
<1>4. Good(Advance(Done([Client EXCEPT !.a = b]), accepted))
    BY <1>2, CompletesGood
<1>5. line' = line /\ rig' = rig /\ used' \in 0..Disturbances
    BY <1>1, RefusalType DEF DegradedScan
<1> HIDE DEF b
<1>6. QED
    BY <1>1, <1>3, <1>4, <1>5, DoesGood

LEMMA EnterCancelGood == IInv /\ EnterCancel => IInv'
<1> SUFFICES ASSUME IInv, EnterCancel PROVE IInv'
    OBVIOUS
<1>1. app' \in Window /\ Akin(app, app')
    BY ClientNow DEF EnterCancel, Window, App, Akin
<1>2. used' \in 0..Disturbances
    BY DisturbType DEF EnterCancel
<1>3. QED
    BY <1>1, <1>2, AkinStep DEF EnterCancel

LEMMA LeaveCancelGood == IInv /\ LeaveCancel => IInv'
<1> SUFFICES ASSUME IInv, LeaveCancel PROVE IInv'
    OBVIOUS
<1>1. app' \in Window /\ Akin(app, app')
    BY ClientNow DEF LeaveCancel, Window, App, Akin
<1>2. used' \in 0..Disturbances
    BY DEF LeaveCancel, IInv
<1>3. QED
    BY <1>1, <1>2, AkinStep DEF LeaveCancel

LEMMA DegradedOffGood == IInv /\ DegradedOff => IInv'
<1> SUFFICES ASSUME IInv, DegradedOff PROVE IInv'
    OBVIOUS
<1>1. app' \in Window /\ Akin(app, app')
    BY ClientNow DEF DegradedOff, Window, App, Akin
<1>2. used' \in 0..Disturbances
    BY DEF DegradedOff, IInv
<1>3. QED
    BY <1>1, <1>2, AkinStep DEF DegradedOff

\* The window goes back, with the steps before its new one still done.
LEMMA CancelPartGood == IInv /\ CancelPart => IInv'
<1> SUFFICES ASSUME IInv, CancelPart PROVE IInv'
    OBVIOUS
<1>1. PICK i \in DOMAIN app.steps :
         app' = [app EXCEPT !.index = i, !.done = @ \ {i}, !.cancelling = FALSE,
                            !.stray = @ \/ app.due > 0 \/ i > app.index]
    BY DEF CancelPart
<1> DEFINE o == app.stray \/ app.due > 0 \/ i > app.index
           e == plc.stale \/ plc.pc # "off"
           q == [plc EXCEPT !.stale = e]
           d == app.done \ {i}
           c == [app EXCEPT !.cancelling = FALSE]
           b == Moved(c, i, d, o)
           s == [Client EXCEPT !.a = b, !.plc = q]
<1>2. DOMAIN app.steps = 1..Len(app.steps) /\ Len(app.steps) \in Nat
    BY ClientNow, LayoutFacts
<1>3. i \in Nat /\ app.index \in Nat /\ app.due \in Nat
    BY <1>2, ClientNow
<1>4. o \in BOOLEAN
    OBVIOUS
<1>5. ~o => ~app.stray /\ app.due = 0 /\ i <= app.index
    BY <1>3
<1>6. c \in Window /\ c.steps = app.steps /\ c.due = app.due /\ c.left = app.left
      /\ c.excused = app.excused
    BY ClientNow DEF Window, App
<1>7. d \in SUBSET DOMAIN c.steps
    BY <1>6, ClientNow
<1>8. app' = b
    BY <1>1, ClientNow DEF Moved, Window, App
<1>e. plc' = q
    BY ClientNow DEF CancelPart, Plc
<1>q. q \in Plc
    <2>1. e \in BOOLEAN
        BY ClientNow DEF Plc
    <2> HIDE DEF e
    <2>2. QED
        BY <2>1, ClientNow DEF Plc
<1> HIDE DEF o, c, q
<1>9. /\ b \in Window /\ b.index = i /\ b.done = d /\ b.due = app.due /\ b.stray = o
      /\ b.left = app.left /\ b.excused = app.excused /\ b.steps = app.steps
    BY <1>4, <1>6, <1>7, WindowMoved
<1> HIDE DEF b
<1>10. Straight(b) /\ Whole(b)
    BY <1>3, <1>5, <1>9, ClientNow DEF Good, Straight, Whole
<1>11. s \in Clients /\ s.a = b /\ s.magnet = Client.magnet /\ s.events = Client.events
    BY <1>9, <1>q, ClientNow DEF Clients
<1>12. Good(s)
    BY <1>9, <1>10, <1>11, ClientNow DEF Good, Own, Fits
<1>13. Does(s)
    BY <1>8, <1>e, ClientNow DEF Does, Client, CancelPart
<1>14. line' = line /\ rig' = rig /\ used' \in 0..Disturbances
    BY DEF CancelPart, IInv
<1> HIDE DEF s
<1>15. QED
    BY <1>12, <1>13, <1>14, DoesGood

LEMMA CancelMainGood == IInv /\ CancelMain => IInv'
<1> SUFFICES ASSUME IInv, CancelMain PROVE IInv'
    OBVIOUS
<1> DEFINE b == [app EXCEPT !.cancelling = FALSE]
           s == [Client EXCEPT !.a = b]
<1>1. [Client EXCEPT !.a.cancelling = FALSE] = s
    BY ClientNow DEF Clients
<1>2. b \in Window /\ Akin(app, b)
    BY ClientNow DEF Window, App, Akin
<1>3. Good(s)
    BY <1>2, ClientNow, AkinGood
<1> HIDE DEF s
<1>4. Good(Prompt(Renewed(s)))
    BY <1>3, RenewedGood, PromptGood DEF Good, CancelMain
<1>5. Does(Prompt(Renewed(s))) /\ line' = line /\ rig' = rig /\ used' \in 0..Disturbances
    BY <1>1 DEF CancelMain, IInv
<1>6. QED
    BY <1>4, <1>5, DoesGood

\* A renewed window without its station has no worker whose product is another.
LEMMA StillRenewed ==
    ASSUME IInv, Still, ~enabled
    PROVE  Own(Renewed(Client))
<1>1. Client.magnet.pc = "off" /\ Client.events = <<>> /\ Client \in Clients
    BY ClientNow DEF Still, DisabledStandsStill, Client
<1>2. Renewed(Client).magnet.pc = "off" /\ DOMAIN Renewed(Client).events = {}
    BY <1>1, NoSignals DEF Renewed, Clients, Magnet
<1>3. QED
    BY <1>2 DEF Own

LEMMA ResetGood == IInv /\ Still /\ Reset => IInv'
<1> SUFFICES ASSUME IInv, Still, Reset PROVE IInv'
    OBVIOUS
<1>0. enabled \/ Own(Renewed(Client))
    BY StillRenewed
<1>1. Good(Prompt(Renewed(Client)))
    BY <1>0, ClientNow, RenewedGood, PromptGood DEF Good
<1>2. Does(Prompt(Renewed(Client))) /\ line' = line /\ rig' = rig
      /\ used' \in 0..Disturbances
    BY DisturbType DEF Reset
<1>3. QED
    BY <1>1, <1>2, DoesGood

LEMMA DegradedOnGood == IInv /\ DegradedOn => IInv'
<1> SUFFICES ASSUME IInv, DegradedOn PROVE IInv'
    OBVIOUS
<1> DEFINE b == [app EXCEPT !.degraded = TRUE]
           s == [Client EXCEPT !.a = b]
<1>1. [Client EXCEPT !.a.degraded = TRUE] = s
    BY ClientNow DEF Clients
<1>2. b \in Window /\ Akin(app, b)
    BY ClientNow DEF Window, App, Akin
<1>3. Good(s)
    BY <1>2, ClientNow, AkinGood
<1> HIDE DEF s
<1>4. Good(StopPlc(s)) /\ StopPlc(s) \in Clients
    BY <1>3, StopPlcKeeps DEF Good
<1>5. Good(StopMagnet(StopPlc(s)))
    BY <1>4, StopMagnetGood DEF Good
<1>6. Does(StopMagnet(StopPlc(s))) /\ line' = line /\ rig' = rig
      /\ used' \in 0..Disturbances
    BY <1>1, DisturbType DEF DegradedOn
<1>7. QED
    BY <1>5, <1>6, DoesGood

LEMMA PromptDueGood == IInv /\ PromptDue => IInv'
<1> SUFFICES ASSUME IInv, PromptDue PROVE IInv'
    OBVIOUS
<1> DEFINE b == [app EXCEPT !.prompt = FALSE]
           s == [Client EXCEPT !.a = b]
<1>1. [Client EXCEPT !.a.prompt = FALSE] = s
    BY ClientNow DEF Clients
<1>2. b \in Window /\ Akin(app, b)
    BY ClientNow DEF Window, App, Akin
<1>3. Good(s)
    BY <1>2, ClientNow, AkinGood
<1> HIDE DEF s
<1>4. Good(Prompt(s))
    BY <1>3, PromptGood DEF Good
<1>5. Does(Prompt(s)) /\ line' = line /\ rig' = rig /\ used' \in 0..Disturbances
    BY <1>1 DEF PromptDue, IInv
<1>6. QED
    BY <1>4, <1>5, DoesGood

-----------------------------------------------------------------------------
(* The steps of the workers, of the line and of the rig.                    *)

LEMMA RigCleared == Cleared \in Rig
BY DEF Cleared, Rig

LEMMA PlcStepGood == IInv /\ PlcStep => IInv'
<1> SUFFICES ASSUME IInv, PlcStep PROVE IInv'
    OBVIOUS
<1>1. line \in Line /\ rig \in Rig
    BY DEF IInv
<1>2. CASE PlcStart
    <2>1. plc' \in Plc
        BY <1>2, ClientNow DEF PlcStart, Plc
    <2>2. QED
        BY <1>1, <1>2, <2>1, ClientNow, PolledGood DEF PlcStart
<1>3. CASE ReadCount
    <2>1. plc' \in Plc
        BY <1>1, <1>3, ClientNow DEF ReadCount, Plc, Line
    <2>2. QED
        BY <1>1, <1>3, <2>1, ClientNow, PolledGood DEF ReadCount
<1>4. CASE ReadCode
    <2> DEFINE p == [count |-> plc.count, code |-> line.code, of |-> plc.of]
    <2>1. plc' \in Plc
        BY <1>4, ClientNow DEF ReadCode, Plc
    <2>2. p \in Snap
        BY <1>1, ClientNow DEF Snap, Plc, Line
    <2>3. snaps' \in Seq(Snap)
        <3> HIDE DEF p
        <3>1. Append(snaps, p) \in Seq(Snap)
            BY <2>2, ClientNow, AppendProperties
        <3>2. QED
            BY <1>4, <3>1 DEF ReadCode, p
    <2>4. line' \in Line
        BY <1>1, <1>4 DEF ReadCode, Line
    <2>5. QED
        BY <1>1, <1>4, <2>1, <2>3, <2>4, PolledGood DEF ReadCode
<1>5. CASE ReadFails
    <2>1. plc' \in Plc
        BY <1>5, ClientNow DEF ReadFails, Plc
    <2>2. QED
        BY <1>1, <1>5, <2>1, ClientNow, PolledGood DEF ReadFails
<1>6. QED
    BY <1>2, <1>3, <1>4, <1>5 DEF PlcStep

\* A step within the sequence.
LEMMA GoesGood ==
    ASSUME IInv, NEW from \in {"connect", "ready", "clamp", "screwed", "measure", "read"},
           NEW to \in {"ready", "clamp", "screwed", "measure", "read", "finish"},
           NEW there, NEW then \in Rig, Goes(from, to, there, then)
    PROVE  IInv'
<1>1. magnet' \in Magnet /\ magnet'.whose = magnet.whose /\ magnet.pc # "off"
    BY ClientNow DEF Goes, Magnet
<1>2. Fits(app, magnet.whose) /\ \A i \in DOMAIN events : Fits(app, events[i].whose)
    BY <1>1, ClientNow DEF Good, Own
<1>3. QED
    BY <1>1, <1>2, ClientNow, MagnetGood DEF Goes

\* The worker answers for the product it measured.
LEMMA EndsGood ==
    ASSUME IInv, magnet.pc # "off", NEW result \in {"ok", "ng", "error"}, Ends(result),
           rig' \in Rig
    PROVE  IInv'
<1> DEFINE e == [result |-> result, whose |-> magnet.whose]
<1>1. magnet.whose \in Whose /\ magnet' \in Magnet /\ magnet'.pc = "off"
    BY ClientNow DEF Ends, Magnet
<1>2. e \in Event
    BY <1>1 DEF Event
<1>3. Fits(app, e.whose) /\ \A i \in DOMAIN events : Fits(app, events[i].whose)
    BY ClientNow DEF Good, Own
<1>4. events' = Append(events, e) /\ events \in Seq(Event)
    BY ClientNow DEF Ends
<1> HIDE DEF e
<1>5. /\ Append(events, e) \in Seq(Event) /\ Len(events) \in Nat
      /\ DOMAIN events = 1..Len(events) /\ DOMAIN events' = 1..(Len(events) + 1)
      /\ \A i \in 1..Len(events) : events'[i] = events[i]
      /\ events'[Len(events) + 1] = e
    BY <1>2, <1>4, AppendProperties, LenProperties
<1>6. \A i \in DOMAIN events' : Fits(app, events'[i].whose)
    BY <1>3, <1>5
<1>7. QED
    BY <1>1, <1>4, <1>5, <1>6, MagnetGood DEF Ends

LEMMA MagnetStepGood == IInv /\ MagnetStep => IInv'
<1> SUFFICES ASSUME IInv, MagnetStep PROVE IInv'
    OBVIOUS
<1>1. rig \in Rig
    BY DEF IInv
<1>2. [rig EXCEPT !.ready = TRUE] \in Rig /\ [rig EXCEPT !.screwed = TRUE] \in Rig
    BY <1>1 DEF Rig
<1>3. CASE MagnetConnect \/ WriteReady \/ SeesClamped
    BY <1>1, <1>2, <1>3, GoesGood DEF MagnetConnect, WriteReady, SeesClamped
<1>4. CASE WriteScrewed \/ SeesMeasured \/ ReadBlock
    BY <1>1, <1>2, <1>4, GoesGood DEF WriteScrewed, SeesMeasured, ReadBlock
<1>5. CASE MagnetNg \/ MagnetFails
    BY <1>1, <1>5, EndsGood DEF MagnetNg, MagnetFails
<1>6. CASE WriteDone
    BY <1>6, EndsGood, RigCleared DEF WriteDone
<1>7. QED
    BY <1>3, <1>4, <1>5, <1>6 DEF MagnetStep

LEMMA ShopStepGood == IInv /\ ShopStep => IInv'
<1> SUFFICES ASSUME IInv, ShopStep PROVE IInv'
    OBVIOUS
<1>1. line \in Line /\ rig \in Rig
    BY DEF IInv
<1>2. MaxCount \in Nat
    BY StationClientAssumption
<1>3. CASE Load
    <2>1. PICK code \in Code \cup {None} :
             line' = [line EXCEPT !.code = code, !.finished = code = None]
        BY <1>3 DEF Load
    <2> DEFINE f == code = None
    <2>2. f \in BOOLEAN
        OBVIOUS
    <2>3. line' = [line EXCEPT !.code = code, !.finished = f]
        BY <2>1
    <2> HIDE DEF f
    <2>4. line' \in Line
        BY <1>1, <2>2, <2>3 DEF Line
    <2>5. QED
        BY <1>1, <1>3, <2>4, ClientNow, PolledGood DEF Load
<1>4. CASE Finish
    <2> DEFINE n == line.count + 1
    <2>1. /\ n \in 0..MaxCount /\ line.code \in Code \cup {None}
          /\ TRUE \in BOOLEAN /\ FALSE \in BOOLEAN
        BY <1>1, <1>2, <1>4 DEF Finish, Line
    <2>2. line' = [line EXCEPT !.count = n, !.finished = TRUE, !.seen = FALSE, !.of = line.code]
        BY <1>1, <1>4 DEF Finish, Line
    <2> HIDE DEF n
    <2>3. line' \in Line
        BY <1>1, <2>1, <2>2 DEF Line
    <2>4. QED
        BY <1>1, <1>4, <2>3, ClientNow, PolledGood DEF Finish
<1>5. CASE Restart
    <2>1. 0 \in 0..MaxCount /\ FALSE \in BOOLEAN
        BY <1>2
    <2>2. line' = [line EXCEPT !.count = 0, !.seen = FALSE]
        BY <1>5 DEF Restart
    <2>3. line' \in Line
        BY <1>1, <2>1, <2>2 DEF Line
    <2>4. QED
        BY <1>1, <1>5, <2>3, ClientNow, PolledGood DEF Restart
<1>6. CASE RigStep
    <2>1. rig' \in Rig
        BY <1>1, <1>6, RigCleared DEF RigStep, Rig
    <2>2. QED
        BY <1>1, <1>6, <2>1, ClientNow, PolledGood DEF RigStep
<1>7. QED
    BY <1>3, <1>4, <1>5, <1>6 DEF ShopStep

-----------------------------------------------------------------------------
(* The invariant and what it implies.                                       *)

LEMMA InitGood == Init => IInv /\ Still
<1> SUFFICES ASSUME Init PROVE IInv /\ Still
    OBVIOUS
<1>1. PICK steps \in Layouts :
          app = [steps |-> steps, index |-> 1, done |-> {}, code |-> None, known |-> FALSE,
                 degraded |-> FALSE, cancelling |-> FALSE,
                 base |-> None, last |-> None, pending |-> None, waiting |-> FALSE,
                 due |-> 0, prompt |-> TRUE, stray |-> FALSE,
                 left |-> {}, excused |-> FALSE]
    BY DEF Init
<1>2. 1 \in DOMAIN steps
    BY LayoutFacts
<1>3. MaxCount \in Nat /\ Disturbances \in Nat /\ QueueBound \in Nat
    BY StationClientAssumption
<1>4. app \in Window
    BY <1>1, <1>2, <1>3 DEF Window, App
<1>5. plc \in Plc /\ magnet \in Magnet
    BY <1>3 DEF Init, Plc, Magnet, Whose
<1>6. line \in Line /\ rig \in Rig /\ used \in 0..Disturbances
    BY <1>3, RigCleared DEF Init, Line
<1>7. snaps = <<>> /\ events = <<>> /\ magnet.pc = "off"
    BY DEF Init
<1>8. Client \in Clients
    BY <1>4, <1>5, <1>7, NoSignals DEF Client, Clients
<1>9. Straight(app) /\ Whole(app)
    BY <1>1 DEF Straight, Whole
<1>10. Own(Client)
    BY <1>7, NoSignals DEF Own, Client
<1>11. Still
    BY DEF Init, Still, Station, DisabledStandsStill, enabled
<1>12. QED
    BY <1>6, <1>8, <1>9, <1>10, <1>11 DEF IInv, Good, Client

LEMMA WindowStepGood == IInv /\ Still /\ WindowStep => IInv'
BY OnSnapshotGood, OldThreadEndsGood, OnMagnetGood, LateAdvanceGood, ScanGood,
   DegradedScanGood, EnterCancelGood, LeaveCancelGood, CancelPartGood, CancelMainGood,
   ResetGood, DegradedOnGood, DegradedOffGood, PromptDueGood
   DEF WindowStep

LEMMA IdleGood == IInv /\ Still /\ UNCHANGED vars => IInv' /\ Still'
BY DEF vars, IInv, Good, Client, Clients, Straight, Whole, Own, Still, DisabledStandsStill,
   enabled

\* A step that leaves the station as it is starts nothing in a window that has none.
LEMMA StaysStill ==
    ASSUME IInv, Still, UNCHANGED station, WindowStep \/ PlcStep \/ MagnetStep \/ ShopStep
    PROVE  Still'
<1> SUFFICES ASSUME ~enabled
             PROVE  /\ plc'.pc = "off" /\ magnet'.pc = "off"
                    /\ snaps' = <<>> /\ events' = <<>>
    BY DEF Still, DisabledStandsStill, enabled
<1>1. plc.pc = "off" /\ magnet.pc = "off" /\ snaps = <<>> /\ events = <<>>
    BY DEF Still, DisabledStandsStill
<1>2. plc \in Plc /\ magnet \in Magnet /\ app \in Window
    BY ClientNow
<1>3. CASE LateAdvance
    <2>1. \E accepted \in BOOLEAN : Does([Client EXCEPT !.a.due = @ - 1])
        BY <1>3 DEF LateAdvance, Advance
    <2>2. QED
        BY <1>1, <2>1 DEF Does, Client
<1>4. CASE PromptDue
    <2>1. Does([Client EXCEPT !.a.prompt = FALSE])
        BY <1>4 DEF PromptDue, Prompt
    <2>2. QED
        BY <1>1, <2>1 DEF Does, Client
<1>5. CASE Reset
    <2>1. Does(Renewed(Client))
        BY <1>5 DEF Reset, Prompt
    <2>2. /\ Renewed(Client).plc = plc /\ Renewed(Client).snaps = snaps
          /\ Renewed(Client).magnet.pc = "off"
          /\ Renewed(Client).events = [i \in DOMAIN events |-> [events[i] EXCEPT !.whose = "earlier"]]
        BY <1>1, <1>2 DEF Renewed, Client, Magnet
    <2>3. [i \in DOMAIN <<>> |-> [<<>>[i] EXCEPT !.whose = "earlier"]] = <<>>
        OBVIOUS
    <2>4. QED
        BY <1>1, <2>1, <2>2, <2>3 DEF Does
<1>6. CASE DegradedOn
    BY <1>1, <1>2, <1>6 DEF DegradedOn, Does, StopMagnet, StopPlc, Client, Magnet, Plc
<1>7. CASE OldThreadEnds \/ EnterCancel \/ LeaveCancel \/ DegradedOff
    BY <1>1, <1>2, <1>7 DEF OldThreadEnds, EnterCancel, LeaveCancel, DegradedOff, Plc
<1>8. ~(OnSnapshot \/ OnMagnet \/ Scan \/ DegradedScan \/ CancelPart \/ CancelMain)
    BY <1>1 DEF OnSnapshot, OnMagnet, Scan, DegradedScan, CancelPart, CancelMain
<1>9. ~PlcStep
    BY <1>1 DEF PlcStep, PlcStart, ReadCount, ReadCode, ReadFails
<1>10. ~MagnetStep
    BY <1>1 DEF MagnetStep, MagnetConnect, WriteReady, SeesClamped, WriteScrewed, SeesMeasured,
                ReadBlock, MagnetNg, WriteDone, MagnetFails, Goes
<1>11. CASE ShopStep
    BY <1>1, <1>11 DEF ShopStep, Load, Finish, Restart, RigStep
<1>12. QED
    BY <1>3, <1>4, <1>5, <1>6, <1>7, <1>8, <1>9, <1>10, <1>11 DEF WindowStep

\* A window that is stopped and renewed is good, and nothing of it is driven.
LEMMA SwitchedGood ==
    ASSUME IInv, NEW steps \in Layouts
    PROVE  LET s == Switched(steps)
           IN  /\ Good(s) /\ s.plc.pc = "off" /\ s.magnet.pc = "off"
               /\ s.snaps = <<>> /\ s.events = <<>>
<1> DEFINE p == StopPlc(Client)
           q == StopMagnet(p)
           r == Renewed(q)
<1>1. p \in Clients /\ p.a = app /\ p.plc.pc = "off" /\ p.snaps = <<>>
    BY ClientNow, StopPlcGood DEF StopPlc, Clients, Plc, Client
<1>2. /\ q \in Clients /\ q.a = app /\ q.plc.pc = "off" /\ q.snaps = <<>>
      /\ q.magnet.pc = "off" /\ q.events = <<>>
    BY <1>1, StopMagnetGood DEF StopMagnet, Clients, Magnet
<1> HIDE DEF p, q
<1>3. r \in Clients /\ r.a.index = 1 /\ Straight(r.a) /\ Whole(r.a)
    BY <1>2, ClientNow, RenewedGood DEF Good
<1>4. r.plc.pc = "off" /\ r.snaps = <<>> /\ r.magnet.pc = "off" /\ r.a.done = {}
    BY <1>2 DEF Renewed, Clients, Magnet, Window, App
<1>5. r.events = <<>>
    <2>1. r.events = [i \in DOMAIN q.events |-> [q.events[i] EXCEPT !.whose = "earlier"]]
        BY <1>2 DEF Renewed, Clients
    <2>2. [i \in DOMAIN <<>> |-> [<<>>[i] EXCEPT !.whose = "earlier"]] = <<>>
        OBVIOUS
    <2>3. QED
        BY <1>2, <2>1, <2>2
<1> HIDE DEF r
<1> DEFINE b == [r.a EXCEPT !.steps = steps]
           s == [r EXCEPT !.a = b]
<1>6. Switched(steps) = s
    BY <1>3 DEF Switched, Clients, p, q, r
<1>7. /\ b \in Window /\ b.index = r.a.index /\ b.done = {} /\ b.due = r.a.due
      /\ b.stray = r.a.stray /\ b.left = r.a.left /\ b.excused = r.a.excused
    <2>1. /\ b \in App /\ b.steps = steps /\ b.index = 1 /\ b.done = {}
          /\ b.index = r.a.index /\ b.due = r.a.due
          /\ b.stray = r.a.stray /\ b.left = r.a.left /\ b.excused = r.a.excused
        BY <1>3, <1>4, ClientFields DEF App
    <2>2. 1 \in DOMAIN steps
        BY LayoutFacts
    <2>3. QED
        BY <2>1, <2>2 DEF Window
<1>8. /\ s \in Clients /\ s.a = b /\ s.plc = r.plc /\ s.snaps = r.snaps
      /\ s.magnet = r.magnet /\ s.events = r.events
    BY <1>3, <1>7 DEF Clients
<1> HIDE DEF b, s
<1>9. Straight(b) /\ Whole(b)
    BY <1>3, <1>4, <1>7 DEF Straight, Whole
<1>10. Own(s)
    BY <1>4, <1>5, <1>8, NoSignals DEF Own
<1>11. QED
    BY <1>4, <1>5, <1>6, <1>8, <1>9, <1>10 DEF Good

LEMMA SwitchStationGood == IInv /\ Still /\ SwitchStation => IInv' /\ Still'
<1> SUFFICES ASSUME IInv, Still, SwitchStation PROVE IInv' /\ Still'
    OBVIOUS
<1>1. PICK steps \in Elsewhere, ends \in Station :
         /\ station' = ends
         /\ Does(IF ends = "held" THEN PromptStep(Switched(steps)) ELSE Switched(steps))
    BY DEF SwitchStation
<1>2. line' = line /\ rig' = rig /\ used' \in 0..Disturbances
    BY DisturbType DEF SwitchStation
<1>s. steps \in Layouts
    BY StationClientAssumption
<1>3. CASE ends = "held"
    <2>1. Good(PromptStep(Switched(steps)))
        BY <1>s, SwitchedGood, PromptStepGood DEF Good
    <2>2. IInv'
        BY <1>1, <1>2, <1>3, <2>1, DoesGood
    <2>3. QED
        BY <1>1, <1>3, <2>2 DEF Still, DisabledStandsStill, enabled, Station
<1>4. CASE ends # "held"
    <2>1. Does(Switched(steps)) /\ Good(Switched(steps))
        BY <1>1, <1>4, <1>s, SwitchedGood
    <2>2. IInv'
        BY <1>2, <2>1, DoesGood
    <2>3. plc'.pc = "off" /\ magnet'.pc = "off" /\ snaps' = <<>> /\ events' = <<>>
        BY <1>s, <2>1, SwitchedGood DEF Does
    <2>4. QED
        BY <1>1, <2>2, <2>3 DEF Still, DisabledStandsStill
<1>5. QED
    BY <1>3, <1>4

LEMMA TakeStationGood == IInv /\ Still /\ TakeStation => IInv' /\ Still'
<1> SUFFICES ASSUME IInv, Still, TakeStation PROVE IInv' /\ Still'
    OBVIOUS
<1>1. Good(PromptStep(Client))
    BY ClientNow, PromptStepGood DEF Good
<1>2. Does(PromptStep(Client)) /\ line' = line /\ rig' = rig /\ used' \in 0..Disturbances
    BY DEF TakeStation, IInv
<1>3. IInv'
    BY <1>1, <1>2, DoesGood
<1>4. QED
    BY <1>3 DEF TakeStation, Still, DisabledStandsStill, enabled, Station

\* The inductive invariant holds of every behaviour.
THEOREM Invariant == Spec => [](IInv /\ Still)
<1>1. IInv /\ Still /\ [Next]_vars => IInv' /\ Still'
    <2>1. CASE (WindowStep \/ PlcStep \/ MagnetStep \/ ShopStep) /\ UNCHANGED station
        BY <2>1, WindowStepGood, PlcStepGood, MagnetStepGood, ShopStepGood, StaysStill
    <2>2. CASE SwitchStation
        BY <2>2, SwitchStationGood
    <2>3. CASE TakeStation
        BY <2>3, TakeStationGood
    <2>4. CASE UNCHANGED vars
        BY <2>4, IdleGood
    <2>5. QED
        BY <2>1, <2>2, <2>3, <2>4 DEF Next
<1>2. QED
    BY <1>1, InitGood, PTL DEF Spec

\* Every type, and a current step among the steps of the station, whatever the window's
\* handlers, the two workers and the operator do (window.py).
THEOREM TypeCorrect == Spec => []TypeOK
<1>1. IInv /\ Still => TypeOK
    BY ClientNow DEF TypeOK, IInv, Window, Still
<1>2. QED
    BY <1>1, Invariant, PTL

\* A station completes a product with no step undone, unless a scheduled advance came to
\* a step it was not scheduled for or a cancellation moved the window ahead (advance_step).
THEOREM StepsDone == Spec => []NoStepSkipped
<1>1. IInv => NoStepSkipped
    BY DEF IInv, Good, Client, Whole, NoStepSkipped
<1>2. QED
    BY <1>1, Invariant, PTL

\* A result taken at a magnet step was begun for the product in hand, at every station that
\* does not begin with a measurement; at one that does, a result begun for an earlier
\* product is taken only from the worker that the prompt of its first step found
\* (prompt_current_step_start, start_plc_magnet_worker, on_plc_magnet_completed).
THEOREM MagnetsOwn == Spec => []OwnMagnet
<1>1. IInv => OwnMagnet
    <2> SUFFICES ASSUME IInv, events # <<>> PROVE Fits(app, Head(events).whose)
        BY DEF OwnMagnet
    <2>1. events \in Seq(Event) /\ \A i \in DOMAIN events : Fits(app, events[i].whose)
        BY ClientNow DEF Good, Own
    <2>2. 1 \in DOMAIN events /\ Head(events) = events[1]
        BY <2>1, HeadTailProperties, LenProperties, EmptySeq
    <2>3. QED
        BY <2>1, <2>2
<1>2. QED
    BY <1>1, Invariant, PTL

\* A window whose station was switched without the new steps or the lease reads no PLC and
\* drives no rig, for any layouts and however many disturbances (switch_station).
THEOREM NothingDriven == Spec => []DisabledStandsStill
<1>1. Still => DisabledStandsStill
    BY DEF Still
<1>2. QED
    BY <1>1, Invariant, PTL
=============================================================================
