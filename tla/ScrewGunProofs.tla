---------------------------- MODULE ScrewGunProofs ----------------------------
(***************************************************************************)
(* Theorems of ScrewGun: its types, that the gun never credits a product   *)
(* with more screws than were tightened, and that the lock the window      *)
(* remembers is the lock of the gun.                                       *)
(*                                                                         *)
(* For the count, what the worker has read and may still read is one       *)
(* sequence of looks at the trigger.  A stretch of it in which the trigger *)
(* is never seen low is counted once at most, and not at all while the     *)
(* window waits for the trigger to be read low: the stretches in which an  *)
(* OK may be found are no more than the OK results not counted yet.        *)
(*                                                                         *)
(* For the lock, the calls in the queue tell what will be written last.    *)
(***************************************************************************)
EXTENDS ScrewGun, SequenceTheorems, FiniteSetTheorems, TLAPS

\* A report that saw the trigger low; one that saw it high, with an OK.
Low(r) == r.kind = "poll" /\ ~r.trigger
ShowsOk(r) == r.kind = "poll" /\ r.trigger /\ r.status = "ok"

\* No report from m to n saw the trigger low.
High(rs, m, n) == \A k \in m..n : ~Low(rs[k])

\* The stretches, each by the place before it, in which the window may find an OK: those
\* that begin with the reports rs or go on in them.  The first is none while the window is
\* blocked, and the last shows an OK if the tail does.
Claims(rs, blocked, tail) ==
    {p \in 0..Len(rs) :
        /\ p = 0 => ~blocked
        /\ p > 0 => Low(rs[p])
        /\ \/ \E i \in (p + 1)..Len(rs) : ShowsOk(rs[i]) /\ High(rs, p + 1, i)
           \/ tail /\ High(rs, p + 1, Len(rs))}

\* The window counts nothing before it has seen the trigger low.
Blocked(a) == a.running /\ (a.rearming \/ (a.waiting /\ ~a.ng /\ Screwing(a)))

Shown == gun.trigger /\ gun.status = "ok"

\* A poll under way has seen the trigger low: what it sees next is a stretch of its own.
Lowered == worker.pc # "idle" /\ ~worker.trigger

One(b) == IF b THEN 1 ELSE 0

\* The OK results that may still be counted are no more than those not counted yet.
Owed(rs, blocked, shown, lowered) ==
    Cardinality(Claims(rs, blocked, shown /\ ~lowered)) + One(shown /\ lowered)

Covered == Owed(reports, Blocked(app), Shown, Lowered) <= uncounted

\* The trigger is not cleared under a poll.
PollHigh == worker.pc # "idle" /\ worker.trigger => gun.trigger

-----------------------------------------------------------------------------
(* Claims.                                                                  *)

LEMMA Within ==
    ASSUME NEW S, IsFiniteSet(S), NEW T, T \subseteq S
    PROVE  /\ Cardinality(S) \in Nat /\ Cardinality(T) \in Nat
           /\ IsFiniteSet(T) /\ Cardinality(T) <= Cardinality(S)
<1>1. T \in SUBSET S
    OBVIOUS
<1>2. IsFiniteSet(T) /\ Cardinality(T) <= Cardinality(S)
    BY <1>1, FS_Subset
<1>3. QED
    BY <1>2, FS_CardinalityType

LEMMA WithinOne ==
    ASSUME NEW S, IsFiniteSet(S), NEW x, NEW T, T \subseteq S \cup {x}
    PROVE  /\ Cardinality(S) \in Nat /\ Cardinality(T) \in Nat
           /\ IsFiniteSet(T) /\ Cardinality(T) <= Cardinality(S) + 1
<1> DEFINE U == S \cup {x}
<1>1. IsFiniteSet(U) /\ Cardinality(U) = IF x \in S THEN Cardinality(S) ELSE Cardinality(S) + 1
    BY FS_AddElement
<1>2. Cardinality(S) \in Nat
    BY FS_CardinalityType
<1> HIDE DEF U
<1>3. IsFiniteSet(T) /\ Cardinality(T) <= Cardinality(U) /\ Cardinality(T) \in Nat
    <2>1. T \subseteq U
        BY DEF U
    <2>2. QED
        BY <1>1, <2>1, Within
<1>4. QED
    BY <1>1, <1>2, <1>3

LEMMA ClaimsFinite ==
    ASSUME NEW rs \in Seq(Report), NEW b, NEW t
    PROVE  /\ Len(rs) \in Nat
           /\ Claims(rs, b, t) \in SUBSET (0..Len(rs))
           /\ IsFiniteSet(Claims(rs, b, t)) /\ Cardinality(Claims(rs, b, t)) \in Nat
<1>1. Len(rs) \in Nat
    BY LenProperties
<1>2. IsFiniteSet(0..Len(rs))
    BY <1>1, FS_Interval
<1>3. Claims(rs, b, t) \in SUBSET (0..Len(rs))
    BY DEF Claims
<1>4. QED
    BY <1>1, <1>2, <1>3, FS_Subset, FS_CardinalityType

LEMMA ClaimsWithin ==
    ASSUME NEW rs \in Seq(Report), NEW qs \in Seq(Report), NEW b, NEW t, NEW c, NEW u,
           Claims(qs, c, u) \subseteq Claims(rs, b, t)
    PROVE  Cardinality(Claims(qs, c, u)) <= Cardinality(Claims(rs, b, t))
BY ClaimsFinite, FS_Subset

\* A window that is blocked, or a tail that shows no OK, claims no more.
LEMMA ClaimsMono ==
    ASSUME NEW rs \in Seq(Report), NEW b, NEW t, NEW c, NEW u, b => c, u => t
    PROVE  Cardinality(Claims(rs, c, u)) <= Cardinality(Claims(rs, b, t))
<1>1. Claims(rs, c, u) \subseteq Claims(rs, b, t)
    BY DEF Claims
<1>2. QED
    BY <1>1, ClaimsWithin

\* An OK at the tail is one claim more.
LEMMA TailClaims ==
    ASSUME NEW rs \in Seq(Report), NEW b
    PROVE  Cardinality(Claims(rs, b, TRUE)) <= Cardinality(Claims(rs, b, FALSE)) + 1
<1> DEFINE S == Claims(rs, b, FALSE)
           T == Claims(rs, b, TRUE)
<1>1. Len(rs) \in Nat /\ IsFiniteSet(S) /\ IsFiniteSet(T) /\ Cardinality(S) \in Nat
    BY ClaimsFinite
<1>2. ASSUME NEW p \in T \ S, NEW q \in T \ S PROVE p = q
    <2>1. /\ p \in 0..Len(rs) /\ q \in 0..Len(rs)
          /\ p > 0 => Low(rs[p])
          /\ q > 0 => Low(rs[q])
          /\ High(rs, p + 1, Len(rs)) /\ High(rs, q + 1, Len(rs))
        BY DEF Claims
    <2>2. ~(p < q)
        <3> SUFFICES ASSUME p < q PROVE FALSE
            OBVIOUS
        <3>1. q \in (p + 1)..Len(rs) /\ q > 0
            BY <1>1, <2>1
        <3>2. QED
            BY <2>1, <3>1 DEF High
    <2>3. ~(q < p)
        <3> SUFFICES ASSUME q < p PROVE FALSE
            OBVIOUS
        <3>1. p \in (q + 1)..Len(rs) /\ p > 0
            BY <1>1, <2>1
        <3>2. QED
            BY <2>1, <3>1 DEF High
    <2>4. QED
        BY <1>1, <2>1, <2>2, <2>3
<1> HIDE DEF S, T
<1>3. CASE T \subseteq S
    <2>1. Cardinality(T) <= Cardinality(S) /\ Cardinality(T) \in Nat
        BY <1>1, <1>3, Within
    <2>2. Cardinality(T) <= Cardinality(S) + 1
        BY <1>1, <2>1
    <2>3. QED
        BY <2>2 DEF S, T
<1>4. CASE ~(T \subseteq S)
    <2>1. PICK p \in T : p \notin S
        BY <1>4
    <2>2. T \subseteq S \cup {p}
        BY <1>2, <2>1
    <2>3. Cardinality(T) <= Cardinality(S) + 1
        BY <1>1, <2>2, WithinOne
    <2>4. QED
        BY <2>3 DEF S, T
<1>5. QED
    BY <1>3, <1>4

LEMMA AppendAt ==
    ASSUME NEW S, NEW cs \in Seq(S), NEW c \in S
    PROVE  LET ds == Append(cs, c)
           IN  /\ ds \in Seq(S) /\ Len(cs) \in Nat /\ Len(ds) = Len(cs) + 1 /\ ds # <<>>
               /\ \A i \in 1..Len(cs) : ds[i] = cs[i]
               /\ ds[Len(cs) + 1] = c
BY AppendProperties, LenProperties

LEMMA TailAt ==
    ASSUME NEW S, NEW cs \in Seq(S), cs # <<>>
    PROVE  /\ Head(cs) = cs[1] /\ Head(cs) \in S /\ Tail(cs) \in Seq(S)
           /\ Len(cs) \in Nat \ {0} /\ Len(Tail(cs)) = Len(cs) - 1
           /\ \A i \in 1..(Len(cs) - 1) : Tail(cs)[i] = cs[i + 1]
BY HeadTailProperties, LenProperties, EmptySeq

\* A report that did not see the trigger low, and shows an OK only if the tail does.
LEMMA ReportClaims ==
    ASSUME NEW rs \in Seq(Report), NEW e \in Report, NEW b, NEW t,
           ~Low(e), ShowsOk(e) => t
    PROVE  Cardinality(Claims(Append(rs, e), b, t)) <= Cardinality(Claims(rs, b, t))
<1> DEFINE qs == Append(rs, e)
           n == Len(rs)
<1>1. /\ qs \in Seq(Report) /\ n \in Nat /\ Len(qs) = n + 1
      /\ \A i \in 1..n : qs[i] = rs[i]
      /\ qs[n + 1] = e
    BY AppendAt
<1> HIDE DEF qs
<1>2. ASSUME NEW p \in Claims(qs, b, t)
      PROVE  p \in Claims(rs, b, t)
    <2>1. /\ p \in 0..(n + 1) /\ (p = 0 => ~b) /\ (p > 0 => Low(qs[p]))
          /\ \/ \E i \in (p + 1)..(n + 1) : ShowsOk(qs[i]) /\ High(qs, p + 1, i)
             \/ t /\ High(qs, p + 1, n + 1)
        BY <1>1 DEF Claims
    <2>2. p \in 0..n /\ (p > 0 => Low(rs[p]))
        BY <1>1, <2>1
    <2>3. ASSUME NEW i \in (p + 1)..n, High(qs, p + 1, i)
          PROVE  High(rs, p + 1, i)
        BY <1>1, <2>2, <2>3 DEF High
    <2>4. CASE High(qs, p + 1, n + 1) /\ t
        <3>1. High(rs, p + 1, n)
            BY <1>1, <2>2, <2>4 DEF High
        <3>2. QED
            BY <2>1, <2>2, <2>4, <3>1 DEF Claims
    <2>5. CASE \E i \in (p + 1)..(n + 1) : ShowsOk(qs[i]) /\ High(qs, p + 1, i)
        <3>1. PICK i \in (p + 1)..(n + 1) : ShowsOk(qs[i]) /\ High(qs, p + 1, i)
            BY <2>5
        <3>2. CASE i = n + 1
            BY <1>1, <2>4, <3>1, <3>2
        <3>3. CASE i # n + 1
            <4>1. i \in (p + 1)..n /\ i \in 1..n
                BY <1>1, <2>2, <3>1, <3>3
            <4>2. ShowsOk(rs[i]) /\ High(rs, p + 1, i)
                BY <1>1, <2>3, <3>1, <4>1
            <4>3. QED
                BY <2>1, <2>2, <4>1, <4>2 DEF Claims
        <3>4. QED
            BY <3>2, <3>3
    <2>6. QED
        BY <2>1, <2>4, <2>5
<1>3. QED
    BY <1>1, <1>2, ClaimsWithin DEF qs

\* A report that saw the trigger low begins a stretch of its own.
LEMMA LowClaims ==
    ASSUME NEW rs \in Seq(Report), NEW e \in Report, NEW b, NEW t, Low(e)
    PROVE  Cardinality(Claims(Append(rs, e), b, t))
           <= Cardinality(Claims(rs, b, FALSE)) + One(t)
<1> DEFINE qs == Append(rs, e)
           n == Len(rs)
           S == Claims(rs, b, FALSE)
<1>1. /\ qs \in Seq(Report) /\ n \in Nat /\ Len(qs) = n + 1
      /\ \A i \in 1..n : qs[i] = rs[i]
      /\ qs[n + 1] = e
    BY AppendAt
<1> HIDE DEF qs
<1>2. ASSUME NEW p \in Claims(qs, b, t)
      PROVE  p \in S \/ (p = n + 1 /\ t)
    <2>1. /\ p \in 0..(n + 1) /\ (p = 0 => ~b) /\ (p > 0 => Low(qs[p]))
          /\ \/ \E i \in (p + 1)..(n + 1) : ShowsOk(qs[i]) /\ High(qs, p + 1, i)
             \/ t /\ High(qs, p + 1, n + 1)
        BY <1>1 DEF Claims
    <2>2. ~ShowsOk(qs[n + 1])
        BY <1>1 DEF ShowsOk, Low
    <2>3. CASE p = n + 1
        <3>1. \A i \in (p + 1)..(n + 1) : FALSE
            BY <1>1, <2>3
        <3>2. QED
            BY <2>1, <2>3, <3>1
    <2>4. CASE p # n + 1
        <3>1. p \in 0..n /\ (p > 0 => Low(rs[p])) /\ ~High(qs, p + 1, n + 1)
            BY <1>1, <2>1, <2>4 DEF High
        <3>2. PICK i \in (p + 1)..(n + 1) : ShowsOk(qs[i]) /\ High(qs, p + 1, i)
            BY <2>1, <3>1
        <3>3. i \in (p + 1)..n /\ i \in 1..n
            BY <1>1, <2>2, <3>1, <3>2
        <3>4. ShowsOk(rs[i]) /\ High(rs, p + 1, i)
            BY <1>1, <3>1, <3>2, <3>3 DEF High
        <3>5. QED
            BY <2>1, <3>1, <3>3, <3>4 DEF Claims
    <2>5. QED
        BY <2>3, <2>4
<1>3. IsFiniteSet(S) /\ Cardinality(S) \in Nat
    BY ClaimsFinite
<1> DEFINE T == Claims(qs, b, t)
<1>4. T \subseteq (IF t THEN S \cup {n + 1} ELSE S)
    BY <1>2
<1> HIDE DEF S, T
<1>5. CASE t
    <2>1. Cardinality(T) <= Cardinality(S) + 1
        BY <1>3, <1>4, <1>5, WithinOne
    <2>2. QED
        BY <1>5, <2>1 DEF S, T, qs, One
<1>6. CASE ~t
    <2>1. Cardinality(T) <= Cardinality(S) + 0
        <3>1. T \subseteq S
            BY <1>4, <1>6
        <3>2. Cardinality(T) <= Cardinality(S) /\ Cardinality(T) \in Nat
            BY <1>3, <3>1, Within
        <3>3. QED
            BY <1>3, <3>2
    <2>2. QED
        BY <1>6, <2>1 DEF S, T, qs, One
<1>7. QED
    BY <1>5, <1>6

LEMMA OneToOne ==
    ASSUME NEW S, IsFiniteSet(S), NEW T, NEW f \in [T -> S],
           \A p, q \in T : f[p] = f[q] => p = q
    PROVE  /\ Cardinality(S) \in Nat /\ Cardinality(T) \in Nat
           /\ Cardinality(T) <= Cardinality(S)
<1>1. f \in Injection(T, S)
    BY DEF Injection, IsInjective
<1>2. IsFiniteSet(T) /\ Cardinality(T) <= Cardinality(S)
    BY <1>1, FS_Injection
<1>3. QED
    BY <1>2, FS_CardinalityType

\* The place of a stretch before the first report was taken.
Before(rs, p) == IF p = 0 /\ ~Low(rs[1]) THEN 0 ELSE p + 1

LEMMA BeforeClaims ==
    ASSUME NEW rs \in Seq(Report), rs # <<>>, NEW b, NEW t, NEW c,
           Low(rs[1]) \/ (b => c), NEW p \in Claims(Tail(rs), c, t)
    PROVE  Before(rs, p) \in Claims(rs, b, t) /\ p \in Nat
<1> DEFINE qs == Tail(rs)
           n == Len(rs)
           q == Before(rs, p)
<1>1. /\ n \in Nat \ {0} /\ Len(qs) = n - 1
      /\ \A i \in 1..(n - 1) : qs[i] = rs[i + 1]
    BY TailAt
<1> HIDE DEF qs
<1>2. /\ p \in 0..(n - 1) /\ (p = 0 => ~c) /\ (p > 0 => Low(qs[p]))
      /\ \/ \E i \in (p + 1)..(n - 1) : ShowsOk(qs[i]) /\ High(qs, p + 1, i)
         \/ t /\ High(qs, p + 1, n - 1)
    BY <1>1 DEF Claims, qs
<1>3. /\ q \in 0..n /\ (q = 0 => ~b) /\ (q > 0 => Low(rs[q]))
    <2>1. CASE p = 0 /\ ~Low(rs[1])
        BY <1>1, <1>2, <2>1 DEF Before
    <2>2. CASE p = 0 /\ Low(rs[1])
        BY <1>1, <2>2 DEF Before
    <2>3. CASE p # 0
        <3>1. p \in 1..(n - 1) /\ q = p + 1
            BY <1>1, <1>2, <2>3 DEF Before
        <3>2. QED
            BY <1>1, <1>2, <3>1
    <2>4. QED
        BY <2>1, <2>2, <2>3
<1>4. ASSUME NEW i \in p..(n - 1), High(qs, p + 1, i)
      PROVE  High(rs, q + 1, i + 1)
    <2> SUFFICES ASSUME NEW k \in (q + 1)..(i + 1) PROVE ~Low(rs[k])
        BY DEF High
    <2>1. CASE k = 1
        BY <1>2, <2>1 DEF Before
    <2>2. CASE k # 1
        <3>1. k - 1 \in (p + 1)..i /\ k - 1 \in 1..(n - 1) /\ (k - 1) + 1 = k
            BY <1>1, <1>2, <2>2 DEF Before
        <3>2. QED
            BY <1>1, <1>4, <3>1 DEF High
    <2>3. QED
        BY <2>1, <2>2
<1>5. CASE t /\ High(qs, p + 1, n - 1)
    <2>1. High(rs, q + 1, (n - 1) + 1)
        BY <1>1, <1>2, <1>4, <1>5
    <2>2. QED
        BY <1>1, <1>2, <1>3, <1>5, <2>1 DEF Claims
<1>6. CASE \E i \in (p + 1)..(n - 1) : ShowsOk(qs[i]) /\ High(qs, p + 1, i)
    <2>1. PICK i \in (p + 1)..(n - 1) : ShowsOk(qs[i]) /\ High(qs, p + 1, i)
        BY <1>6
    <2>2. i + 1 \in (q + 1)..n /\ i \in 1..(n - 1) /\ i \in p..(n - 1)
        BY <1>1, <1>2, <2>1 DEF Before
    <2>3. ShowsOk(rs[i + 1]) /\ High(rs, q + 1, i + 1)
        BY <1>1, <1>4, <2>1, <2>2
    <2>4. QED
        BY <1>2, <1>3, <2>2, <2>3 DEF Claims
<1>7. QED
    BY <1>2, <1>5, <1>6

LEMMA BeforeOneToOne ==
    ASSUME NEW rs, NEW p \in Nat, NEW q \in Nat, Before(rs, p) = Before(rs, q)
    PROVE  p = q
BY DEF Before

\* A report is taken: one that saw the trigger low may unblock the window.
LEMMA TakenClaims ==
    ASSUME NEW rs \in Seq(Report), rs # <<>>, NEW b, NEW t, NEW c,
           Low(Head(rs)) \/ (b => c)
    PROVE  Cardinality(Claims(Tail(rs), c, t)) <= Cardinality(Claims(rs, b, t))
<1> DEFINE S == Claims(rs, b, t)
           T == Claims(Tail(rs), c, t)
           f == [p \in T |-> Before(rs, p)]
<1>1. Head(rs) = rs[1]
    BY TailAt
<1>2. IsFiniteSet(S)
    BY ClaimsFinite
<1>3. \A p \in T : Before(rs, p) \in S /\ p \in Nat
    BY <1>1, BeforeClaims
<1> HIDE DEF S, T
<1>4. f \in [T -> S] /\ \A p, q \in T : f[p] = f[q] => p = q
    BY <1>3, BeforeOneToOne
<1> HIDE DEF f
<1>5. QED
    BY <1>2, <1>4, OneToOne DEF S, T

\* A report that is counted uses its claim up, and blocks the window.
LEMMA CountedClaims ==
    ASSUME NEW rs \in Seq(Report), rs # <<>>, NEW b, NEW t, NEW c,
           ~Low(Head(rs)), ShowsOk(Head(rs)), ~b, c
    PROVE  Cardinality(Claims(Tail(rs), c, t)) + 1 <= Cardinality(Claims(rs, b, t))
<1> DEFINE S == Claims(rs, b, t)
           T == Claims(Tail(rs), c, t)
           R == S \ {0}
           f == [p \in T |-> Before(rs, p)]
<1>1. Head(rs) = rs[1] /\ Len(rs) \in Nat \ {0}
    BY TailAt
<1>2. IsFiniteSet(S) /\ Cardinality(S) \in Nat
    BY ClaimsFinite
<1>3. \A p \in T : Before(rs, p) \in S /\ p \in Nat
    BY BeforeClaims
<1>4. \A p \in T : p # 0
    BY DEF Claims
<1>5. 0 \in S
    <2>1. 1 \in (0 + 1)..Len(rs) /\ ShowsOk(rs[1]) /\ High(rs, 0 + 1, 1)
        BY <1>1 DEF High
    <2>2. QED
        BY <1>1, <2>1 DEF Claims
<1> HIDE DEF S, T
<1>6. f \in [T -> R] /\ \A p, q \in T : f[p] = f[q] => p = q
    <2>1. \A p \in T : Before(rs, p) # 0
        BY <1>3, <1>4 DEF Before
    <2>2. QED
        BY <1>3, <2>1, BeforeOneToOne
<1> HIDE DEF f
<1>7. IsFiniteSet(R) /\ Cardinality(R) = Cardinality(S) - 1
    BY <1>2, <1>5, FS_RemoveElement
<1> HIDE DEF R
<1>8. Cardinality(T) <= Cardinality(R) /\ Cardinality(T) \in Nat
    BY <1>6, <1>7, OneToOne
<1>9. Cardinality(T) + 1 <= Cardinality(S)
    BY <1>2, <1>7, <1>8
<1>10. QED
    BY <1>9 DEF S, T

\* Without reports there is the tail.
LEMMA EmptyClaims ==
    ASSUME NEW b, NEW t
    PROVE  Cardinality(Claims(<<>>, b, t)) <= One(t)
<1> DEFINE T == Claims(<<>>, b, t)
<1>1. Len(<<>>) = 0
    OBVIOUS
<1>2. T \subseteq (IF t THEN {} \cup {0} ELSE {})
    BY <1>1 DEF Claims
<1>3. IsFiniteSet({}) /\ Cardinality({}) = 0
    BY FS_EmptySet
<1>4. Cardinality(T) <= One(t)
    <2> HIDE DEF T
    <2>1. CASE t
        <3>1. Cardinality(T) \in Nat /\ Cardinality(T) <= Cardinality({}) + 1
            BY <1>2, <1>3, <2>1, WithinOne
        <3>2. One(t) = 1
            BY <2>1 DEF One
        <3>3. QED
            BY <1>3, <3>1, <3>2
    <2>2. CASE ~t
        <3>1. T = {}
            BY <1>2, <2>2
        <3>2. One(t) = 0
            BY <2>2 DEF One
        <3>3. QED
            BY <1>3, <3>1, <3>2
    <2>3. QED
        BY <2>1, <2>2
<1>5. QED
    BY <1>4

-----------------------------------------------------------------------------
(* Calls.                                                                   *)

LockCalls == {"lock", "unlock", "bypass_on"}

\* Once cs are done a gun that is locked, or not, is locked if l and not otherwise.
WillBe(cs, locked, l) ==
    /\ \A i \in 1..Len(cs) :
          cs[i] \in LockCalls /\ (\A j \in (i + 1)..Len(cs) : cs[j] \notin LockCalls)
          => (cs[i] = "lock" <=> l)
    /\ (\A i \in 1..Len(cs) : cs[i] \notin LockCalls) => (locked <=> l)

\* What the window may post in a step besides the bypass and the stop.
Grows(cs, ds) ==
    /\ Len(cs) <= Len(ds)
    /\ \A i \in 1..Len(cs) : ds[i] = cs[i]
    /\ \A i \in (Len(cs) + 1)..Len(ds) : ds[i] \in {"clear", "lock", "unlock"}

LEMMA AppendKeeps ==
    ASSUME NEW cs \in Seq(Call), NEW c \in Call \ LockCalls, NEW g, NEW l, WillBe(cs, g, l)
    PROVE  WillBe(Append(cs, c), g, l)
<1> DEFINE ds == Append(cs, c)
<1>1. /\ Len(cs) \in Nat /\ Len(ds) = Len(cs) + 1
      /\ \A i \in 1..Len(cs) : ds[i] = cs[i]
      /\ ds[Len(cs) + 1] = c
    BY AppendAt
<1> HIDE DEF ds
<1>2. ASSUME NEW i \in 1..Len(ds), ds[i] \in LockCalls,
             \A j \in (i + 1)..Len(ds) : ds[j] \notin LockCalls
      PROVE  ds[i] = "lock" <=> l
    <2>1. i \in 1..Len(cs)
        BY <1>1, <1>2
    <2>2. cs[i] \in LockCalls /\ \A j \in (i + 1)..Len(cs) : cs[j] \notin LockCalls
        BY <1>1, <1>2, <2>1
    <2>3. cs[i] = "lock" <=> l
        BY <2>1, <2>2 DEF WillBe
    <2>4. QED
        BY <1>1, <2>1, <2>3
<1>3. ASSUME \A i \in 1..Len(ds) : ds[i] \notin LockCalls
      PROVE  g <=> l
    <2>1. \A i \in 1..Len(cs) : cs[i] \notin LockCalls
        BY <1>1, <1>3
    <2>2. QED
        BY <2>1 DEF WillBe
<1>4. WillBe(ds, g, l)
    BY <1>2, <1>3 DEF WillBe
<1>5. QED
    BY <1>4 DEF ds

LEMMA AppendLocks ==
    ASSUME NEW cs \in Seq(Call), NEW c \in {"lock", "unlock"}, NEW g
    PROVE  WillBe(Append(cs, c), g, c = "lock")
<1> DEFINE ds == Append(cs, c)
<1>1. /\ Len(cs) \in Nat /\ Len(ds) = Len(cs) + 1
      /\ ds[Len(cs) + 1] = c
    BY AppendAt DEF Call
<1> HIDE DEF ds
<1>2. ds[Len(ds)] \in LockCalls /\ Len(ds) \in 1..Len(ds)
    BY <1>1 DEF LockCalls
<1>3. ASSUME NEW i \in 1..Len(ds), ds[i] \in LockCalls,
             \A j \in (i + 1)..Len(ds) : ds[j] \notin LockCalls
      PROVE  ds[i] = "lock" <=> c = "lock"
    <2>1. i = Len(ds)
        <3>1. Len(ds) \notin (i + 1)..Len(ds)
            BY <1>2, <1>3
        <3>2. QED
            BY <1>1, <1>3, <3>1
    <2>2. QED
        BY <1>1, <2>1
<1>4. WillBe(ds, g, c = "lock")
    BY <1>2, <1>3 DEF WillBe
<1>5. QED
    BY <1>4 DEF ds

\* A call is written: h is whether the gun is locked then.
LEMMA TailWillBe ==
    ASSUME NEW cs \in Seq(Call), cs # <<>>, NEW g, NEW h, NEW l \in BOOLEAN,
           WillBe(cs, g, l), Head(cs) \in {"clear", "lock", "unlock"},
           Head(cs) = "clear" => (h <=> g),
           Head(cs) # "clear" => (h <=> Head(cs) = "lock")
    PROVE  WillBe(Tail(cs), h, l)
<1> DEFINE ds == Tail(cs)
           n == Len(cs)
<1>1. /\ n \in Nat \ {0} /\ Len(ds) = n - 1 /\ Head(cs) = cs[1]
      /\ \A i \in 1..(n - 1) : ds[i] = cs[i + 1]
    BY TailAt
<1>2. WillBe(cs, g, l)
    OBVIOUS
<1> HIDE DEF ds
<1>3. ASSUME NEW i \in 1..Len(ds), ds[i] \in LockCalls,
             \A j \in (i + 1)..Len(ds) : ds[j] \notin LockCalls
      PROVE  ds[i] = "lock" <=> l
    <2>1. i + 1 \in 1..n /\ ds[i] = cs[i + 1]
        BY <1>1, <1>3
    <2>2. ASSUME NEW j \in (i + 1 + 1)..n PROVE cs[j] \notin LockCalls
        <3>1. j - 1 \in (i + 1)..Len(ds) /\ j - 1 \in 1..(n - 1)
            BY <1>1, <1>3, <2>2
        <3>2. ds[j - 1] = cs[j - 1 + 1] /\ j - 1 + 1 = j
            BY <1>1, <2>2, <3>1
        <3>3. QED
            BY <1>3, <3>1, <3>2
    <2>3. cs[i + 1] = "lock" <=> l
        BY <1>2, <1>3, <2>1, <2>2 DEF WillBe
    <2>4. QED
        BY <2>1, <2>3
<1>4. ASSUME \A i \in 1..Len(ds) : ds[i] \notin LockCalls
      PROVE  h <=> l
    <2>1. ASSUME NEW j \in 2..n PROVE cs[j] \notin LockCalls
        <3>1. j - 1 \in 1..Len(ds) /\ ds[j - 1] = cs[j - 1 + 1] /\ j - 1 + 1 = j
            BY <1>1, <2>1
        <3>2. QED
            BY <1>4, <3>1
    <2>2. CASE Head(cs) = "clear"
        <3>1. \A i \in 1..n : cs[i] \notin LockCalls
            BY <1>1, <2>1, <2>2 DEF LockCalls
        <3>2. QED
            BY <1>2, <2>2, <3>1 DEF WillBe
    <2>3. CASE Head(cs) # "clear"
        <3>1. cs[1] \in LockCalls /\ 1 \in 1..n
            BY <1>1, <2>3 DEF LockCalls
        <3>2. \A j \in (1 + 1)..n : cs[j] \notin LockCalls
            BY <2>1
        <3>3. cs[1] = "lock" <=> l
            BY <1>2, <3>1, <3>2 DEF WillBe
        <3>4. QED
            BY <1>1, <2>3, <3>3
    <2>4. QED
        BY <2>2, <2>3
<1>5. WillBe(ds, h, l)
    BY <1>3, <1>4 DEF WillBe
<1>6. QED
    BY <1>5 DEF ds

LEMMA GrowsTrans ==
    ASSUME NEW cs \in Seq(Call), NEW ds \in Seq(Call), NEW es \in Seq(Call),
           Grows(cs, ds), Grows(ds, es)
    PROVE  Grows(cs, es)
<1>1. Len(cs) \in Nat /\ Len(ds) \in Nat /\ Len(es) \in Nat
    BY LenProperties
<1>2. ASSUME NEW i \in (Len(cs) + 1)..Len(es)
      PROVE  es[i] \in {"clear", "lock", "unlock"}
    <2>1. CASE i \in 1..Len(ds)
        <3>1. es[i] = ds[i] /\ i \in (Len(cs) + 1)..Len(ds)
            BY <1>1, <1>2, <2>1 DEF Grows
        <3>2. QED
            BY <3>1 DEF Grows
    <2>2. CASE i \notin 1..Len(ds)
        <3>1. i \in (Len(ds) + 1)..Len(es)
            BY <1>1, <1>2, <2>2
        <3>2. QED
            BY <3>1 DEF Grows
    <2>3. QED
        BY <2>1, <2>2
<1>3. QED
    BY <1>1, <1>2 DEF Grows

-----------------------------------------------------------------------------
(* The window and what it posts.                                            *)

Pairs == [a : App, out : Seq(Call)]

Knows(s, g) == s.a.lockState # "none" => WillBe(s.out, g, s.a.lockState = "locked")

\* An NG keeps the gun locked.
Held(a) == a.ng => a.lockState = "locked"

\* What every step of the window from s to t does that neither ends the worker nor
\* changes the mode; and what it keeps of the lock.
Moves(s, t) ==
    /\ t.a.degraded = s.a.degraded /\ t.a.stopping = s.a.stopping
    /\ s.a.running => t.a.running
    /\ ~t.a.running => t.out = s.out
    /\ Grows(s.out, t.out)

Acts(s, t) ==
    /\ Moves(s, t)
    /\ \A g \in BOOLEAN : Knows(s, g) => Knows(t, g)
    /\ s.a.running /\ Held(s.a) => Held(t.a)

\* Only the lock, what was read of the gun and what is awaited of it change.
Still(s, t) ==
    /\ t.a.running = s.a.running /\ t.a.rearming = s.a.rearming
    /\ t.a.waiting = s.a.waiting /\ t.a.ng = s.a.ng
    /\ t.a.step = s.a.step /\ t.a.count = s.a.count

LEMMA ActsTrans ==
    ASSUME NEW s \in Pairs, NEW t \in Pairs, NEW u \in Pairs, Acts(s, t), Acts(t, u)
    PROVE  Acts(s, u)
<1>1. Grows(s.out, u.out)
    BY GrowsTrans DEF Moves, Acts, Pairs
<1>2. ~u.a.running => u.out = s.out
    BY DEF Moves, Acts, Pairs, App
<1>3. s.a.running /\ Held(s.a) => Held(u.a)
    BY DEF Moves, Acts
<1>4. QED
    BY <1>1, <1>2, <1>3 DEF Moves, Acts

\* The fields a step leaves alone when it posts nothing.
LEMMA Quiet ==
    ASSUME NEW s \in Pairs, NEW t \in Pairs, t.out = s.out,
           t.a.degraded = s.a.degraded, t.a.stopping = s.a.stopping,
           s.a.running => t.a.running, t.a.lockState = s.a.lockState,
           s.a.running /\ t.a.ng => s.a.ng
    PROVE  Acts(s, t)
<1>1. Grows(s.out, t.out)
    BY LenProperties DEF Grows, Pairs
<1>2. QED
    BY <1>1 DEF Moves, Acts, Knows, Held

LEMMA PairType ==
    ASSUME NEW s \in Pairs
    PROVE  /\ s.a \in App /\ s.out \in Seq(Call)
           /\ \A c \in Call : Append(s.out, c) \in Seq(Call)
BY AppendAt DEF Pairs

LEMMA GrowsByOne ==
    ASSUME NEW cs \in Seq(Call), NEW c \in {"clear", "lock", "unlock"}
    PROVE  /\ Append(cs, c) \in Seq(Call) /\ Grows(cs, Append(cs, c))
<1>1. c \in Call
    BY DEF Call
<1>2. QED
    BY <1>1, AppendAt DEF Grows

LEMMA ResetTriggerActs ==
    ASSUME NEW s \in Pairs
    PROVE  /\ ResetTrigger(s) \in Pairs /\ Acts(s, ResetTrigger(s))
           /\ Still(s, ResetTrigger(s)) /\ ResetTrigger(s).a = s.a
<1> DEFINE t == ResetTrigger(s)
<1>1. CASE s.a.running
    <2>1. t = [s EXCEPT !.out = Append(@, "clear")]
        BY <1>1 DEF ResetTrigger, Post
    <2>2. t.a = s.a /\ t.out = Append(s.out, "clear")
        BY <2>1 DEF Pairs
    <2>3. t \in Pairs /\ Grows(s.out, t.out)
        BY <2>1, <2>2, GrowsByOne, PairType DEF Pairs
    <2>4. ASSUME NEW g \in BOOLEAN, Knows(s, g) PROVE Knows(t, g)
        <3>1. "clear" \in Call \ LockCalls
            BY DEF Call, LockCalls
        <3>2. QED
            BY <2>2, <2>4, <3>1, AppendKeeps, PairType DEF Knows
    <2>5. QED
        BY <1>1, <2>2, <2>3, <2>4 DEF Moves, Moves, Acts, Still, Held
<1>2. CASE ~s.a.running
    <2>1. t = s
        BY <1>2 DEF ResetTrigger, Post
    <2>2. QED
        BY <2>1, Quiet DEF Still
<1>3. QED
    BY <1>1, <1>2

\* Locking, or unlocking while nothing forbids it: w is the call.
LEMMA LockWrites ==
    ASSUME NEW s \in Pairs, s.a.running, NEW w \in {"lock", "unlock"},
           w = "unlock" => ~s.a.ng,
           NEW l, l = (IF w = "lock" THEN "locked" ELSE "unlocked"),
           NEW t \in Pairs, t.a = [s.a EXCEPT !.lockState = l], t.out = Append(s.out, w)
    PROVE  Acts(s, t) /\ Still(s, t) /\ t.a.lockState = l
<1>1. s.a \in App /\ s.out \in Seq(Call)
    BY PairType
<1>2. Grows(s.out, t.out)
    BY <1>1, GrowsByOne
<1>3. /\ Still(s, t) /\ t.a.lockState = l
      /\ t.a.degraded = s.a.degraded /\ t.a.stopping = s.a.stopping
    BY <1>1 DEF Still, App
<1>4. ASSUME NEW g \in BOOLEAN PROVE Knows(t, g)
    <2>1. WillBe(Append(s.out, w), g, w = "lock")
        BY <1>1, AppendLocks
    <2>2. CASE w = "lock"
        <3>1. WillBe(t.out, g, TRUE) /\ t.a.lockState = "locked"
            BY <1>3, <2>1, <2>2
        <3>2. QED
            BY <3>1 DEF Knows
    <2>3. CASE w = "unlock"
        <3>1. WillBe(t.out, g, FALSE) /\ t.a.lockState = "unlocked"
            BY <1>3, <2>1, <2>3
        <3>2. QED
            BY <3>1 DEF Knows
    <2>4. QED
        BY <2>2, <2>3
<1>5. s.a.running /\ Held(s.a) => Held(t.a)
    BY <1>3 DEF Held, Still
<1>6. QED
    BY <1>2, <1>3, <1>4, <1>5 DEF Moves, Moves, Acts, Still

LEMMA LockPosts ==
    ASSUME NEW s \in Pairs, s.a.running, NEW w \in {"lock", "unlock"},
           NEW l \in {"locked", "unlocked"}
    PROVE  LET t == Post([s EXCEPT !.a.lockState = l], w)
           IN  /\ t \in Pairs
               /\ t.a = [s.a EXCEPT !.lockState = l] /\ t.out = Append(s.out, w)
<1> DEFINE u == [s EXCEPT !.a.lockState = l]
<1>1. u.a = [s.a EXCEPT !.lockState = l] /\ u.out = s.out /\ u \in Pairs
    BY DEF Pairs, App
<1>2. u.a.running
    BY <1>1 DEF Pairs, App
<1>3. Post(u, w) = [u EXCEPT !.out = Append(@, w)]
    BY <1>2 DEF Post
<1> HIDE DEF u
<1>4. [u EXCEPT !.out = Append(@, w)] = [a |-> u.a, out |-> Append(u.out, w)]
    <2>1. u = [a |-> u.a, out |-> u.out]
        BY <1>1 DEF Pairs
    <2>2. QED
        BY <2>1
<1>5. u.a \in App /\ Append(u.out, w) \in Seq(Call)
    BY <1>1, PairType, GrowsByOne
<1>6. Post(u, w) \in Pairs /\ Post(u, w).a = u.a /\ Post(u, w).out = Append(u.out, w)
    <2>1. Post(u, w) = [a |-> u.a, out |-> Append(u.out, w)]
        BY <1>3, <1>4
    <2>2. QED
        BY <1>5, <2>1 DEF Pairs
<1>7. QED
    BY <1>1, <1>6 DEF u

LEMMA LockToolActs ==
    ASSUME NEW s \in Pairs
    PROVE  /\ LockTool(s) \in Pairs /\ Acts(s, LockTool(s)) /\ Still(s, LockTool(s))
           /\ s.a.running => LockTool(s).a.lockState = "locked"
<1> DEFINE t == LockTool(s)
<1>1. CASE s.a.lockState = "locked" \/ ~s.a.running
    <2>1. t = s
        BY <1>1 DEF LockTool
    <2>2. QED
        BY <1>1, <2>1, Quiet DEF Still
<1>2. CASE ~(s.a.lockState = "locked" \/ ~s.a.running)
    <2>1. t = Post([s EXCEPT !.a.lockState = "locked"], "lock")
        BY <1>2 DEF LockTool
    <2>2. t \in Pairs /\ t.a = [s.a EXCEPT !.lockState = "locked"] /\ t.out = Append(s.out, "lock")
        BY <1>2, <2>1, LockPosts
    <2>3. Acts(s, t) /\ Still(s, t) /\ t.a.lockState = "locked"
        <3> HIDE DEF t
        <3>1. QED
            BY <1>2, <2>2, LockWrites
    <2>4. QED
        BY <2>2, <2>3
<1>3. QED
    BY <1>1, <1>2

LEMMA UnlockToolActs ==
    ASSUME NEW s \in Pairs
    PROVE  UnlockTool(s) \in Pairs /\ Acts(s, UnlockTool(s)) /\ Still(s, UnlockTool(s))
<1> DEFINE t == UnlockTool(s)
<1>1. CASE s.a.degraded
    <2>1. t = s
        BY <1>1 DEF UnlockTool
    <2>2. QED
        BY <2>1, Quiet DEF Still
<1>2. CASE ~s.a.degraded /\ (Reversed(s.a) \/ s.a.ng)
    <2>1. t = LockTool(s)
        BY <1>2 DEF UnlockTool
    <2>2. QED
        BY <2>1, LockToolActs
<1>3. CASE /\ ~s.a.degraded /\ ~(Reversed(s.a) \/ s.a.ng)
           /\ s.a.lockState = "unlocked" \/ ~s.a.running
    <2>1. t = s
        BY <1>3 DEF UnlockTool
    <2>2. QED
        BY <2>1, Quiet DEF Still
<1>4. CASE /\ ~s.a.degraded /\ ~(Reversed(s.a) \/ s.a.ng)
           /\ ~(s.a.lockState = "unlocked" \/ ~s.a.running)
    <2>1. t = Post([s EXCEPT !.a.lockState = "unlocked"], "unlock")
        BY <1>4 DEF UnlockTool
    <2>2. t \in Pairs /\ t.a = [s.a EXCEPT !.lockState = "unlocked"] /\ t.out = Append(s.out, "unlock")
        BY <1>4, <2>1, LockPosts
    <2>3. Acts(s, t) /\ Still(s, t)
        <3> HIDE DEF t
        <3>1. QED
            BY <1>4, <2>2, LockWrites
    <2>4. QED
        BY <2>2, <2>3
<1>5. QED
    BY <1>1, <1>2, <1>3, <1>4

LEMMA UnlockOrLockActs ==
    ASSUME NEW s \in Pairs
    PROVE  /\ UnlockOrLock(s) \in Pairs
           /\ Acts(s, UnlockOrLock(s)) /\ Still(s, UnlockOrLock(s))
           /\ s.a.running /\ s.a.ng => UnlockOrLock(s).a.lockState = "locked"
<1>1. CASE Permitted(s.a)
    <2>1. UnlockOrLock(s) = UnlockTool(s) /\ ~s.a.ng
        BY <1>1 DEF UnlockOrLock, Permitted
    <2>2. QED
        BY <2>1, UnlockToolActs
<1>2. CASE ~Permitted(s.a)
    <2>1. UnlockOrLock(s) = LockTool(s)
        BY <1>2 DEF UnlockOrLock
    <2>2. QED
        BY <2>1, LockToolActs
<1>3. QED
    BY <1>1, <1>2

-----------------------------------------------------------------------------
(* What the window makes of a poll.                                         *)

\* A step that counts nothing, and one that also leaves the window blocked if it was.
Follows(s, t) ==
    /\ t \in Pairs /\ Acts(s, t)
    /\ t.a.step = s.a.step /\ t.a.count = s.a.count

Waits(s, t) ==
    /\ Follows(s, t)
    /\ t.a.running = s.a.running /\ t.a.rearming = s.a.rearming /\ t.a.ng = s.a.ng
    /\ s.a.waiting => t.a.waiting

LEMMA FollowsTrans ==
    ASSUME NEW s \in Pairs, NEW t, NEW u, Follows(s, t), Follows(t, u)
    PROVE  Follows(s, u)
BY ActsTrans DEF Follows

LEMMA WaitsTrans ==
    ASSUME NEW s \in Pairs, NEW t, NEW u, Waits(s, t), Waits(t, u)
    PROVE  Waits(s, u)
BY FollowsTrans DEF Waits

LEMMA WaitsSelf ==
    ASSUME NEW s \in Pairs
    PROVE  Waits(s, s)
BY Quiet DEF Waits, Follows

LEMMA LockWaits ==
    ASSUME NEW s \in Pairs
    PROVE  /\ Waits(s, ResetTrigger(s)) /\ Waits(s, LockTool(s))
           /\ Waits(s, UnlockTool(s)) /\ Waits(s, UnlockOrLock(s))
BY ResetTriggerActs, LockToolActs, UnlockToolActs, UnlockOrLockActs DEF Waits, Follows, Still

\* The window changes only what it knows of the gun and what it awaits of it.
LEMMA Reads ==
    ASSUME NEW s \in Pairs, NEW t \in Pairs, t.out = s.out,
           t.a.running = s.a.running, t.a.stopping = s.a.stopping,
           t.a.degraded = s.a.degraded, t.a.ng = s.a.ng, t.a.lockState = s.a.lockState,
           t.a.step = s.a.step, t.a.count = s.a.count
    PROVE  /\ Follows(s, t)
           /\ (s.a.waiting => t.a.waiting) /\ t.a.rearming = s.a.rearming => Waits(s, t)
BY Quiet DEF Follows, Waits

LEMMA Made ==
    ASSUME NEW s \in Pairs, NEW b \in App
    PROVE  LET t == [s EXCEPT !.a = b] IN t \in Pairs /\ t.a = b /\ t.out = s.out
BY DEF Pairs

LEMMA Reading ==
    ASSUME NEW s \in Pairs, NEW b \in App,
           b.running = s.a.running, b.stopping = s.a.stopping,
           b.degraded = s.a.degraded, b.ng = s.a.ng, b.lockState = s.a.lockState,
           b.step = s.a.step, b.count = s.a.count
    PROVE  LET t == [s EXCEPT !.a = b]
           IN  /\ t \in Pairs /\ t.a = b /\ Follows(s, t)
               /\ (s.a.waiting => b.waiting) /\ b.rearming = s.a.rearming => Waits(s, t)
<1> DEFINE t == [s EXCEPT !.a = b]
<1>1. t \in Pairs /\ t.a = b /\ t.out = s.out
    BY Made
<1> HIDE DEF t
<1>2. QED
    BY <1>1, Reads DEF t

LEMMA ReadBackFollows ==
    ASSUME NEW s \in Pairs
    PROVE  Follows(s, ReadBack(s)) /\ ReadBack(s).a.rearming = s.a.rearming
<1> DEFINE b == [s.a EXCEPT !.waiting = FALSE, !.pending = FALSE]
           t == [s EXCEPT !.a.waiting = FALSE, !.a.pending = FALSE]
<1>1. t = [s EXCEPT !.a = b]
    BY DEF Pairs
<1>2. s.a \in App
    BY PairType
<1>3. b \in App
    BY <1>2 DEF App
<1>4. /\ b.running = s.a.running /\ b.stopping = s.a.stopping
      /\ b.degraded = s.a.degraded /\ b.ng = s.a.ng /\ b.lockState = s.a.lockState
      /\ b.step = s.a.step /\ b.count = s.a.count
    BY <1>2 DEF App
<1>5. /\ b.rearming = s.a.rearming /\ b.waiting = FALSE
    BY <1>2 DEF App
<1> HIDE DEF b
<1>6. QED
    BY <1>1, <1>3, <1>4, <1>5, Reading DEF ReadBack

LEMMA Awaiting ==
    ASSUME NEW s \in Pairs
    PROVE  Waits(s, [s EXCEPT !.a.waiting = TRUE]) /\ [s EXCEPT !.a.waiting = TRUE].a.waiting
<1> DEFINE b == [s.a EXCEPT !.waiting = TRUE]
           t == [s EXCEPT !.a.waiting = TRUE]
<1>1. t = [s EXCEPT !.a = b]
    BY DEF Pairs
<1>2. s.a \in App
    BY PairType
<1>3. b \in App
    BY <1>2 DEF App
<1>4. /\ b.running = s.a.running /\ b.stopping = s.a.stopping
      /\ b.degraded = s.a.degraded /\ b.ng = s.a.ng /\ b.lockState = s.a.lockState
      /\ b.step = s.a.step /\ b.count = s.a.count
    BY <1>2 DEF App
<1>5. /\ b.rearming = s.a.rearming /\ b.waiting = TRUE
    BY <1>2 DEF App
<1> HIDE DEF b
<1>6. QED
    BY <1>1, <1>3, <1>4, <1>5, Reading

LEMMA Pending ==
    ASSUME NEW s \in Pairs, NEW c \in BOOLEAN
    PROVE  LET t == [s EXCEPT !.a.pending = c] IN Waits(s, t) /\ t.a.waiting = s.a.waiting
<1> DEFINE b == [s.a EXCEPT !.pending = c]
           t == [s EXCEPT !.a.pending = c]
<1>1. t = [s EXCEPT !.a = b]
    BY DEF Pairs
<1>2. s.a \in App
    BY PairType
<1>3. b \in App
    BY <1>2 DEF App
<1>4. /\ b.running = s.a.running /\ b.stopping = s.a.stopping
      /\ b.degraded = s.a.degraded /\ b.ng = s.a.ng /\ b.lockState = s.a.lockState
      /\ b.step = s.a.step /\ b.count = s.a.count
    BY <1>2 DEF App
<1>5. /\ b.waiting = s.a.waiting /\ b.rearming = s.a.rearming
    BY <1>2 DEF App
<1> HIDE DEF b, t
<1>6. t.a = b /\ Waits(s, t)
    BY <1>1, <1>3, <1>4, <1>5, Reading
<1>7. QED
    BY <1>5, <1>6 DEF t

LEMMA Rearming ==
    ASSUME NEW s \in Pairs
    PROVE  Follows(s, [s EXCEPT !.a.rearming = FALSE])
<1> DEFINE b == [s.a EXCEPT !.rearming = FALSE]
           t == [s EXCEPT !.a.rearming = FALSE]
<1>1. t = [s EXCEPT !.a = b]
    BY DEF Pairs
<1>2. s.a \in App
    BY PairType
<1>3. b \in App
    BY <1>2 DEF App
<1>4. /\ b.running = s.a.running /\ b.stopping = s.a.stopping
      /\ b.degraded = s.a.degraded /\ b.ng = s.a.ng /\ b.lockState = s.a.lockState
      /\ b.step = s.a.step /\ b.count = s.a.count
    BY <1>2 DEF App
<1>5. /\ b.waiting = s.a.waiting /\ b.rearming = FALSE
    BY <1>2 DEF App
<1> HIDE DEF b
<1>6. QED
    BY <1>1, <1>3, <1>4, <1>5, Reading

LEMMA RearmingDone ==
    ASSUME NEW s \in Pairs
    PROVE  Follows(s, [s EXCEPT !.a.rearming = FALSE, !.a.waiting = FALSE])
<1> DEFINE b == [s.a EXCEPT !.rearming = FALSE, !.waiting = FALSE]
           t == [s EXCEPT !.a.rearming = FALSE, !.a.waiting = FALSE]
<1>1. t = [s EXCEPT !.a = b]
    BY DEF Pairs
<1>2. s.a \in App
    BY PairType
<1>3. b \in App
    BY <1>2 DEF App
<1>4. /\ b.running = s.a.running /\ b.stopping = s.a.stopping
      /\ b.degraded = s.a.degraded /\ b.ng = s.a.ng /\ b.lockState = s.a.lockState
      /\ b.step = s.a.step /\ b.count = s.a.count
    BY <1>2 DEF App
<1>5. /\ b.rearming = FALSE /\ b.waiting = FALSE
    BY <1>2 DEF App
<1> HIDE DEF b
<1>6. QED
    BY <1>1, <1>3, <1>4, <1>5, Reading

LEMMA Turning ==
    ASSUME NEW s \in Pairs, NEW d \in Direction, NEW e \in BOOLEAN
    PROVE  Waits(s, [s EXCEPT !.a.direction = d, !.a.reverseLock = e])
<1> DEFINE b == [s.a EXCEPT !.direction = d, !.reverseLock = e]
           t == [s EXCEPT !.a.direction = d, !.a.reverseLock = e]
<1>1. t = [s EXCEPT !.a = b]
    BY DEF Pairs
<1>2. s.a \in App
    BY PairType
<1>3. b \in App
    BY <1>2 DEF App, Direction
<1>4. /\ b.running = s.a.running /\ b.stopping = s.a.stopping
      /\ b.degraded = s.a.degraded /\ b.ng = s.a.ng /\ b.lockState = s.a.lockState
      /\ b.step = s.a.step /\ b.count = s.a.count
    BY <1>2 DEF App
<1>5. /\ b.waiting = s.a.waiting /\ b.rearming = s.a.rearming
    BY <1>2 DEF App
<1> HIDE DEF b
<1>6. QED
    BY <1>1, <1>3, <1>4, <1>5, Reading

LEMMA CandidateWaits ==
    ASSUME NEW s \in Pairs, NEW d \in Direction
    PROVE  Waits(s, Candidate(s, d))
<1> DEFINE n == IF d # s.a.candidate THEN 1
                ELSE IF s.a.reads < StableReads THEN s.a.reads + 1 ELSE s.a.reads
           b == [s.a EXCEPT !.candidate = d, !.reads = n]
<1>1. s.a \in App
    BY PairType
<1>2. Candidate(s, d) = [s EXCEPT !.a = b]
    BY DEF Candidate, Pairs
<1>3. n \in 0..StableReads
    BY <1>1, ScrewGunAssumption DEF App
<1> HIDE DEF n
<1>4. b \in App
    BY <1>1, <1>3 DEF App
<1>5. /\ b.running = s.a.running /\ b.stopping = s.a.stopping
      /\ b.degraded = s.a.degraded /\ b.ng = s.a.ng /\ b.lockState = s.a.lockState
      /\ b.step = s.a.step /\ b.count = s.a.count
      /\ b.waiting = s.a.waiting /\ b.rearming = s.a.rearming
    BY <1>1 DEF App
<1> HIDE DEF b
<1>6. QED
    BY <1>2, <1>4, <1>5, Reading

LEMMA ClearActiveWaits ==
    ASSUME NEW s \in Pairs
    PROVE  Waits(s, ClearActive(s)) /\ ClearActive(s).a.waiting
<1> DEFINE u == [s EXCEPT !.a.waiting = TRUE]
<1>1. Waits(s, u) /\ u.a.waiting /\ u \in Pairs
    BY Awaiting DEF Waits, Follows
<1> HIDE DEF u
<1>2. Waits(u, ResetTrigger(u)) /\ ResetTrigger(u).a = u.a
    BY <1>1, LockWaits, ResetTriggerActs
<1>3. Waits(s, ResetTrigger(u)) /\ ResetTrigger(u).a.waiting
    BY <1>1, <1>2, WaitsTrans
<1>4. QED
    BY <1>3 DEF u, ClearActive

LEMMA WaitWaits ==
    ASSUME NEW s \in Pairs, NEW late \in BOOLEAN
    PROVE  Waits(s, Wait(s, late))
<1>1. CASE ~s.a.pending
    BY <1>1, Pending DEF Wait
<1>2. CASE s.a.pending /\ late
    <2> DEFINE u == [s EXCEPT !.a.pending = FALSE]
    <2>1. Waits(s, u) /\ u \in Pairs
        BY Pending DEF Waits, Follows
    <2>2. Wait(s, late) = ClearActive(u)
        BY <1>2 DEF Wait
    <2> HIDE DEF u
    <2>3. QED
        BY <2>1, <2>2, ClearActiveWaits, WaitsTrans
<1>3. CASE s.a.pending /\ ~late
    BY <1>3, WaitsSelf DEF Wait
<1>4. QED
    BY <1>1, <1>2, <1>3

LEMMA TurnedWaits ==
    ASSUME NEW s \in Pairs, NEW d \in Direction
    PROVE  Waits(s, Turned(s, d))
<1> DEFINE u == [s EXCEPT !.a.direction = d, !.a.reverseLock = d = "reverse"]
<1>1. Waits(s, u) /\ u \in Pairs
    <2>1. (d = "reverse") \in BOOLEAN
        OBVIOUS
    <2>2. QED
        BY <2>1, Turning DEF Waits, Follows
<1>2. Turned(s, d) \in {LockTool(u), u, UnlockOrLock(u), UnlockTool(u)}
    BY DEF Turned
<1> HIDE DEF u
<1>3. \A t \in {LockTool(u), u, UnlockOrLock(u), UnlockTool(u)} : Waits(u, t)
    BY <1>1, LockWaits, WaitsSelf
<1>4. QED
    BY <1>1, <1>2, <1>3, WaitsTrans

LEMMA RearmedFollows ==
    ASSUME NEW s \in Pairs
    PROVE  Follows(s, Rearmed(s))
<1> DEFINE u == [s EXCEPT !.a.rearming = FALSE, !.a.waiting = FALSE]
<1>1. Follows(s, u) /\ u \in Pairs
    BY RearmingDone DEF Follows
<1>2. Rearmed(s) = UnlockOrLock(u)
    BY DEF Rearmed
<1> HIDE DEF u
<1>3. Follows(u, UnlockOrLock(u))
    BY <1>1, LockWaits DEF Waits
<1>4. QED
    BY <1>1, <1>2, <1>3, FollowsTrans

LEMMA RefusedWaits ==
    ASSUME NEW s \in Pairs, NEW trigger \in BOOLEAN
    PROVE  Waits(s, Refused(s, trigger))
<1> DEFINE u == IF trigger THEN ClearActive(s) ELSE s
<1>1. Waits(s, u) /\ u \in Pairs
    BY ClearActiveWaits, WaitsSelf DEF Waits, Follows
<1>2. Refused(s, trigger) = LockTool(u)
    BY DEF Refused
<1> HIDE DEF u
<1>3. QED
    BY <1>1, <1>2, LockWaits, WaitsTrans

LEMMA ReverseWaits ==
    ASSUME NEW s \in Pairs, NEW r, r.trigger \in BOOLEAN
    PROVE  Waits(s, Reverse(s, r))
<1> DEFINE u == IF r.trigger THEN ClearActive(s) ELSE s
           c == s.a.pending /\ ~r.trigger
<1>1. Waits(s, u) /\ u \in Pairs
    BY ClearActiveWaits, WaitsSelf DEF Waits, Follows
<1>2. Reverse(s, r) = [u EXCEPT !.a.pending = c]
    BY DEF Reverse
<1>3. c \in BOOLEAN
    BY PairType DEF App
<1> HIDE DEF u, c
<1>4. Waits(u, [u EXCEPT !.a.pending = c])
    BY <1>1, <1>3, Pending
<1>5. QED
    BY <1>1, <1>2, <1>4, WaitsTrans

\* The trigger is high: nothing is counted and the window stays blocked; or an OK is
\* counted, by a window that was not blocked and is then.
Outcome(s, t, status) ==
    \/ Waits(s, t)
    \/ /\ t \in Pairs /\ Acts(s, t) /\ t.a.step = s.a.step
       /\ ~Blocked(s.a)
       /\ \/ t.a.count = s.a.count
          \/ /\ status = "ok"
             /\ s.a.running => Blocked(t.a)
             /\ t.a.count[s.a.step] = s.a.count[s.a.step] + 1

LEMMA WaitsOutcome ==
    ASSUME NEW s \in Pairs, NEW t, NEW u, NEW status, Waits(s, t), Outcome(t, u, status)
    PROVE  Outcome(s, u, status)
<1>1. CASE Waits(t, u)
    BY <1>1, WaitsTrans DEF Outcome
<1>2. CASE ~Waits(t, u)
    <2>1. Acts(s, u)
        BY <1>2, ActsTrans DEF Outcome, Waits, Follows
    <2>2. Blocked(s.a) => Blocked(t.a)
        BY DEF Waits, Follows, Blocked, Screwing
    <2>3. QED
        BY <1>2, <2>1, <2>2 DEF Outcome, Waits, Follows
<1>3. QED
    BY <1>1, <1>2

LEMMA CountedActs ==
    ASSUME NEW s \in Pairs
    PROVE  LET t == Counted(s)
           IN  /\ t \in Pairs /\ Acts(s, t)
               /\ t.a.running = s.a.running /\ t.a.rearming = s.a.rearming
               /\ t.a.waiting = s.a.waiting /\ t.a.ng = s.a.ng /\ t.a.step = s.a.step
               /\ ~Full(s.a) => t.a.count[s.a.step] = s.a.count[s.a.step] + 1
<1> DEFINE n == s.a.count[s.a.step]
           m == IF n < Required THEN n + 1 ELSE n
           c == [s.a.count EXCEPT ![s.a.step] = m]
           a == [s.a EXCEPT !.count = c]
           b == IF Full(a) THEN [a EXCEPT !.due = @ \cup {"finish"}] ELSE a
<1>1. s.a \in App
    BY PairType
<1>2. s.a.step \in DOMAIN Steps /\ s.a.count \in [DOMAIN Steps -> 0..Required]
      /\ s.a.due \in SUBSET {"prompt", "finish"}
    BY <1>1 DEF App
<1>3. n \in 0..Required
    BY <1>2
<1>4. m \in 0..Required
    BY <1>3, ScrewGunAssumption
<1>5. c \in [DOMAIN Steps -> 0..Required] /\ c[s.a.step] = m
    BY <1>2, <1>4
<1>6. Counted(s) = [s EXCEPT !.a = b]
    <2>1. [s.a EXCEPT !.count[s.a.step] = IF @ < Required THEN @ + 1 ELSE @] = a
        BY <1>1 DEF App
    <2>2. QED
        BY <2>1 DEF Counted
<1>7. ~Full(s.a) => m = n + 1
    BY <1>3, ScrewGunAssumption DEF Full
<1> HIDE DEF n, m, c
<1>8. a \in App
    BY <1>1, <1>5 DEF App
<1>9. /\ a.running = s.a.running /\ a.rearming = s.a.rearming
      /\ a.waiting = s.a.waiting /\ a.ng = s.a.ng /\ a.step = s.a.step
      /\ a.degraded = s.a.degraded /\ a.stopping = s.a.stopping
      /\ a.lockState = s.a.lockState /\ a.count = c
    BY <1>1 DEF App
<1> HIDE DEF a
<1>10. /\ b \in App
       /\ b.running = a.running /\ b.rearming = a.rearming
       /\ b.waiting = a.waiting /\ b.ng = a.ng /\ b.step = a.step
       /\ b.degraded = a.degraded /\ b.stopping = a.stopping
       /\ b.lockState = a.lockState /\ b.count = a.count
    <2>1. a.due \cup {"finish"} \in SUBSET {"prompt", "finish"}
        BY <1>8 DEF App
    <2>2. CASE Full(a)
        <3> DEFINE d == a.due \cup {"finish"}
        <3>1. b = [a EXCEPT !.due = d]
            BY <1>8, <2>2 DEF App
        <3> HIDE DEF d, b
        <3>2. d \in SUBSET {"prompt", "finish"}
            BY <2>1 DEF d
        <3>3. QED
            BY <1>8, <3>1, <3>2 DEF App
    <2>3. CASE ~Full(a)
        BY <1>8, <2>3
    <2>4. QED
        BY <2>2, <2>3
<1> HIDE DEF b
<1>11. Counted(s) \in Pairs /\ Counted(s).a = b /\ Counted(s).out = s.out
    BY <1>6, <1>10, Made
<1>12. Acts(s, Counted(s))
    BY <1>9, <1>10, <1>11, Quiet
<1>13. c[s.a.step] = m /\ n = s.a.count[s.a.step]
    BY <1>5 DEF n
<1>14. QED
    BY <1>7, <1>9, <1>10, <1>11, <1>12, <1>13

LEMMA OkResultOutcome ==
    ASSUME NEW s \in Pairs, ~Blocked(s.a), ~Full(s.a), Screwing(s.a), ~s.a.ng
    PROVE  Outcome(s, OkResult(s), "ok")
<1> DEFINE u == Counted(s)
           v == ClearActive(u)
           t == OkResult(s)
<1>1. /\ u \in Pairs /\ Acts(s, u)
      /\ u.a.running = s.a.running /\ u.a.rearming = s.a.rearming
      /\ u.a.waiting = s.a.waiting /\ u.a.ng = s.a.ng /\ u.a.step = s.a.step
      /\ u.a.count[s.a.step] = s.a.count[s.a.step] + 1
    BY CountedActs
<1> HIDE DEF u
<1>2. Waits(u, v) /\ v.a.waiting /\ v \in Pairs
    BY <1>1, ClearActiveWaits DEF Waits, Follows
<1>3. t \in {LockTool(v), v}
    BY DEF OkResult, u
<1> HIDE DEF v, t
<1>4. Waits(v, t)
    BY <1>2, <1>3, LockWaits, WaitsSelf
<1>5. Waits(u, t) /\ t.a.waiting
    <2>1. t.a.waiting
        BY <1>2, <1>4 DEF Waits
    <2>2. QED
        BY <1>1, <1>2, <1>4, <2>1, WaitsTrans
<1>6. Acts(s, t) /\ t \in Pairs
    BY <1>1, <1>5, ActsTrans DEF Waits, Follows
<1>7. /\ t.a.running = s.a.running /\ t.a.ng = s.a.ng /\ t.a.step = s.a.step
      /\ t.a.count[s.a.step] = s.a.count[s.a.step] + 1
    BY <1>1, <1>5 DEF Waits, Follows
<1>8. s.a.running => Blocked(t.a)
    BY <1>5, <1>7 DEF Blocked, Screwing
<1>9. Outcome(s, t, "ok")
    BY <1>6, <1>7, <1>8 DEF Outcome
<1>10. QED
    BY <1>9 DEF t

LEMMA NgResultOutcome ==
    ASSUME NEW s \in Pairs, ~Blocked(s.a)
    PROVE  Outcome(s, NgResult(s), "ng")
<1> DEFINE b == [s.a EXCEPT !.ng = TRUE]
           u == [s EXCEPT !.a = b]
           v == LockTool(u)
           t == ClearActive(v)
<1>1. s.a \in App
    BY PairType
<1>2. /\ b \in App
      /\ b.running = s.a.running /\ b.degraded = s.a.degraded /\ b.stopping = s.a.stopping
      /\ b.lockState = s.a.lockState /\ b.step = s.a.step /\ b.count = s.a.count
    BY <1>1 DEF App
<1>3. NgResult(s) = t
    <2>1. [s EXCEPT !.a.ng = TRUE] = u
        BY DEF Pairs
    <2>2. QED
        BY <2>1 DEF NgResult
<1> HIDE DEF b
<1>4. u \in Pairs /\ u.a = b /\ u.out = s.out
    BY <1>2, Made
<1> HIDE DEF u
<1>5. /\ v \in Pairs /\ Acts(u, v) /\ Waits(u, v)
      /\ u.a.running => v.a.lockState = "locked"
    BY <1>4, LockToolActs, LockWaits
<1> HIDE DEF v
<1>6. t \in Pairs /\ Waits(v, t)
    BY <1>5, ClearActiveWaits DEF Waits, Follows
<1> HIDE DEF t
<1>7. Acts(u, t) /\ Waits(u, t)
    BY <1>4, <1>5, <1>6, WaitsTrans DEF Waits, Follows
<1>8. s.a.running => Held(t.a)
    <2>1. s.a.running => v.a.running /\ v.a.lockState = "locked" /\ Held(v.a)
        BY <1>2, <1>4, <1>5 DEF Held, Moves, Acts
    <2>2. QED
        BY <1>6, <2>1 DEF Waits, Follows, Moves, Acts
<1>9. \A g \in BOOLEAN : Knows(s, g) => Knows(t, g)
    <2>1. ASSUME NEW g \in BOOLEAN, Knows(s, g) PROVE Knows(u, g)
        BY <1>2, <1>4, <2>1 DEF Knows
    <2>2. QED
        BY <1>7, <2>1 DEF Moves, Acts
<1>10. Acts(s, t)
    BY <1>2, <1>4, <1>7, <1>8, <1>9 DEF Moves, Acts
<1>11. t.a.step = s.a.step /\ t.a.count = s.a.count
    BY <1>2, <1>4, <1>7 DEF Waits, Follows
<1>12. Outcome(s, t, "ng")
    BY <1>6, <1>10, <1>11 DEF Outcome
<1>13. QED
    BY <1>3, <1>12

LEMMA ResultOutcome ==
    ASSUME NEW s \in Pairs, NEW status \in Status, NEW late \in BOOLEAN,
           Screwing(s.a), ~s.a.ng, ~s.a.rearming
    PROVE  Outcome(s, Result(s, status, late), status)
<1> DEFINE u == [s EXCEPT !.a.pending = FALSE]
           t == Result(s, status, late)
<1>1. Waits(s, u) /\ u \in Pairs /\ u.a.waiting = s.a.waiting
    BY Pending DEF Waits, Follows
<1> HIDE DEF u
<1>2. CASE s.a.waiting
    BY <1>2, LockWaits DEF Result, Outcome
<1>3. CASE ~s.a.waiting /\ Full(s.a)
    <2>1. t = LockTool(ClearActive(s))
        BY <1>3 DEF Result
    <2>2. Waits(s, ClearActive(s)) /\ ClearActive(s) \in Pairs
        BY ClearActiveWaits DEF Waits, Follows
    <2>3. Waits(s, t)
        BY <2>1, <2>2, LockWaits, WaitsTrans
    <2>4. QED
        BY <2>3 DEF Outcome
<1>4. CASE ~s.a.waiting /\ ~Full(s.a) /\ status \notin Final
    <2>1. t = Wait(s, late)
        BY <1>4 DEF Result
    <2>2. QED
        BY <2>1, WaitWaits DEF Outcome
<1>5. CASE ~s.a.waiting /\ ~Full(s.a) /\ status \in Final
    <2>1. ~Blocked(u.a) /\ ~Full(u.a) /\ Screwing(u.a) /\ ~u.a.ng
        BY <1>1, <1>5 DEF Blocked, Full, Screwing, Waits, Follows
    <2>2. CASE status = "ok"
        <3>1. t = OkResult(u)
            BY <1>5, <2>2 DEF Result, u
        <3>2. QED
            BY <1>1, <2>1, <2>2, <3>1, OkResultOutcome, WaitsOutcome
    <2>3. CASE status # "ok"
        <3>1. t = NgResult(u) /\ status = "ng"
            BY <1>5, <2>3 DEF Result, u, Final
        <3>2. QED
            BY <1>1, <2>1, <3>1, NgResultOutcome, WaitsOutcome
    <2>4. QED
        BY <2>2, <2>3
<1>6. QED
    BY <1>2, <1>3, <1>4, <1>5

Poll == [kind : {"poll"}, trigger : BOOLEAN, direction : Direction, status : Status]

LEMMA ForwardHigh ==
    ASSUME NEW s \in Pairs, NEW r \in Poll, NEW late \in BOOLEAN, r.trigger
    PROVE  Outcome(s, Forward(s, r, late), r.status)
<1>1. r.status \in Status
    BY DEF Poll
<1>2. CASE ~Screwing(s.a) \/ s.a.ng
    <2>1. Forward(s, r, late) = Refused(s, r.trigger)
        BY <1>2 DEF Forward
    <2>2. QED
        BY <2>1, RefusedWaits DEF Outcome
<1>3. CASE ~(~Screwing(s.a) \/ s.a.ng) /\ s.a.rearming
    <2>1. Forward(s, r, late) = ResetTrigger(s)
        BY <1>3 DEF Forward
    <2>2. QED
        BY <2>1, LockWaits DEF Outcome
<1>4. CASE ~(~Screwing(s.a) \/ s.a.ng) /\ ~s.a.rearming
    <2>1. Forward(s, r, late) = Result(s, r.status, late)
        BY <1>4 DEF Forward
    <2>2. QED
        BY <1>1, <1>4, <2>1, ResultOutcome
<1>5. QED
    BY <1>2, <1>3, <1>4

LEMMA ForwardLow ==
    ASSUME NEW s \in Pairs, NEW r \in Poll, NEW late \in BOOLEAN, ~r.trigger
    PROVE  Follows(s, Forward(s, r, late))
<1> DEFINE u == ReadBack(s)
<1>1. Follows(s, u) /\ u \in Pairs
    BY ReadBackFollows DEF Follows
<1>2. Forward(s, r, late) \in {Refused(s, r.trigger), Rearmed(s), UnlockTool(u), u}
    BY DEF Forward
<1> HIDE DEF u
<1>3. Follows(u, UnlockTool(u))
    BY <1>1, LockWaits DEF Waits
<1>4. Follows(s, UnlockTool(u))
    BY <1>1, <1>3, FollowsTrans
<1>5. Follows(s, Refused(s, r.trigger))
    BY RefusedWaits DEF Waits, Poll
<1>6. QED
    BY <1>1, <1>2, <1>4, <1>5, RearmedFollows

LEMMA RunningLow ==
    ASSUME NEW s \in Pairs, NEW r \in Poll, NEW late \in BOOLEAN, ~r.trigger
    PROVE  Follows(s, Running(s, r, late))
<1> DEFINE u == ReadBack(s)
           v == [u EXCEPT !.a.rearming = FALSE]
           w == UnlockOrLock(v)
<1>1. Follows(s, u) /\ u \in Pairs
    BY ReadBackFollows DEF Follows
<1>2. Running(s, r, late) \in {w, u}
    BY DEF Running
<1> HIDE DEF u
<1>3. Follows(u, v) /\ v \in Pairs
    BY <1>1, Rearming DEF Follows
<1> HIDE DEF v
<1>4. Follows(v, w)
    BY <1>3, LockWaits DEF Waits
<1> HIDE DEF w
<1>5. Follows(s, w)
    <2>1. Follows(u, w)
        BY <1>1, <1>3, <1>4, FollowsTrans
    <2>2. QED
        BY <1>1, <2>1, FollowsTrans
<1>6. QED
    BY <1>1, <1>2, <1>5

\* A poll as a whole.
LEMMA PolledActs ==
    ASSUME NEW s \in Pairs, NEW r \in Poll, NEW late \in BOOLEAN
    PROVE  /\ r.trigger => Outcome(s, Polled(s, r, late), r.status)
           /\ ~r.trigger => Follows(s, Polled(s, r, late))
<1> DEFINE t == Polled(s, r, late)
           read == Candidate(s, r.direction)
           changed == s.a.direction # r.direction
           turned == IF changed THEN Turned(read, r.direction) ELSE read
           back == IF changed /\ ~r.trigger THEN ReadBack(turned) ELSE turned
<1>1. r.direction \in Direction /\ r.trigger \in BOOLEAN
    BY DEF Poll
<1>2. Waits(s, read) /\ read \in Pairs
    BY <1>1, CandidateWaits DEF Waits, Follows
<1>3. t = IF s.a.degraded THEN s
          ELSE IF read.a.reads < StableReads THEN read
          ELSE IF r.direction = "reverse" THEN Reverse(turned, r)
          ELSE IF r.direction = "running" THEN Running(turned, r, late)
          ELSE IF changed /\ ~r.trigger /\ ~s.a.rearming THEN back
          ELSE Forward(back, r, late)
    BY DEF Polled
<1> HIDE DEF t, read
<1>4. Waits(s, turned) /\ turned \in Pairs
    <2>1. CASE changed
        <3>1. Waits(read, Turned(read, r.direction))
            BY <1>1, <1>2, TurnedWaits
        <3>2. Waits(s, Turned(read, r.direction))
            BY <1>2, <3>1, WaitsTrans
        <3>3. QED
            BY <2>1, <3>2 DEF Waits, Follows
    <2>2. CASE ~changed
        BY <1>2, <2>2
    <2>3. QED
        BY <2>1, <2>2
<1> HIDE DEF turned
<1>5. Waits(turned, Reverse(turned, r))
    BY <1>1, <1>4, ReverseWaits
<1>6. Waits(s, Reverse(turned, r)) /\ Waits(s, s)
    BY <1>4, <1>5, WaitsTrans, WaitsSelf
<1>7. CASE r.trigger
    <2>1. back = turned
        BY <1>7
    <2>2. Waits(s, Running(turned, r, late))
        <3>1. Running(turned, r, late) = Wait(turned, late)
            BY <1>7 DEF Running
        <3>2. QED
            BY <1>4, <3>1, WaitWaits, WaitsTrans
    <2>3. Outcome(s, Forward(turned, r, late), r.status)
        BY <1>4, <1>7, ForwardHigh, WaitsOutcome
    <2>4. \/ Waits(s, t)
          \/ t = Forward(turned, r, late)
        BY <1>2, <1>3, <1>6, <1>7, <2>1, <2>2
    <2>5. QED
        BY <1>7, <2>3, <2>4 DEF t, Outcome
<1>8. CASE ~r.trigger
    <2>1. Follows(s, back) /\ back \in Pairs
        <3>1. CASE changed
            <4>1. Follows(turned, ReadBack(turned))
                BY <1>4, ReadBackFollows
            <4>2. Follows(s, ReadBack(turned))
                BY <1>4, <4>1, FollowsTrans DEF Waits
            <4>3. QED
                BY <1>8, <3>1, <4>2 DEF Follows
        <3>2. CASE ~changed
            BY <1>4, <3>2 DEF Waits
        <3>3. QED
            BY <3>1, <3>2
    <2> HIDE DEF back
    <2>2. Follows(s, Running(turned, r, late))
        BY <1>4, <1>8, RunningLow, FollowsTrans DEF Waits
    <2>3. Follows(s, Forward(back, r, late))
        BY <1>8, <2>1, ForwardLow, FollowsTrans
    <2>4. Follows(s, Reverse(turned, r)) /\ Follows(s, s) /\ Follows(s, read)
        BY <1>2, <1>6 DEF Waits
    <2>5. QED
        BY <1>3, <1>8, <2>1, <2>2, <2>3, <2>4 DEF t
<1>9. QED
    BY <1>1, <1>7, <1>8

-----------------------------------------------------------------------------
(* The other steps of the window.                                           *)

\* In degraded mode the worker is asked to stop.
Halts(s, t) ==
    /\ s.a.degraded /\ s.a.running
    /\ t.a.degraded /\ t.a.running /\ t.a.stopping
    /\ t.out = Append(s.out, "stop")

Legal(s, t) == t \in Pairs /\ (Acts(s, t) \/ Halts(s, t))

LEMMA ActsLegal ==
    ASSUME NEW s \in Pairs, NEW t \in Pairs, NEW u, Acts(s, t), Legal(t, u),
           t.out = s.out, t.a.running = s.a.running
    PROVE  Legal(s, u)
<1>1. CASE Acts(t, u)
    BY <1>1, ActsTrans DEF Legal
<1>2. CASE Halts(t, u)
    BY <1>2 DEF Legal, Halts, Moves, Acts
<1>3. QED
    BY <1>1, <1>2 DEF Legal

\* The window stays blocked by a reconnection.
Rearms(s, t) == s.a.running /\ s.a.rearming => t.a.running /\ t.a.rearming

StepStart(s, t) ==
    /\ Legal(s, t) /\ Rearms(s, t)
    /\ Blocked(s.a) => Blocked(t.a)

LEMMA PromptStarts ==
    ASSUME NEW s \in Pairs
    PROVE  StepStart(s, Prompt(s))
<1> DEFINE t == Prompt(s)
<1>1. s.a \in App /\ s.out \in Seq(Call)
    BY PairType
<1>2. CASE s.a.degraded /\ s.a.running
    <2> DEFINE b == [s.a EXCEPT !.stopping = TRUE]
    <2>1. t = [a |-> b, out |-> Append(s.out, "stop")]
        <3>1. Post(s, "stop") = [s EXCEPT !.out = Append(@, "stop")]
            BY <1>2 DEF Post
        <3>2. t = [Post(s, "stop") EXCEPT !.a.stopping = TRUE]
            BY <1>2 DEF Prompt
        <3>3. s = [a |-> s.a, out |-> s.out]
            BY DEF Pairs
        <3>4. QED
            BY <3>1, <3>2, <3>3
    <2>2. b \in App /\ b.degraded /\ b.running /\ b.stopping
          /\ b.rearming = s.a.rearming /\ b.waiting = s.a.waiting /\ b.ng = s.a.ng
          /\ b.step = s.a.step
        BY <1>1, <1>2 DEF App
    <2>3. Append(s.out, "stop") \in Seq(Call)
        BY PairType DEF Call
    <2> HIDE DEF b, t
    <2>4. t \in Pairs /\ t.a = b /\ t.out = Append(s.out, "stop")
        BY <2>1, <2>2, <2>3 DEF Pairs
    <2>5. Legal(s, t)
        BY <1>2, <2>2, <2>4 DEF Legal, Halts
    <2>6. QED
        BY <1>2, <2>2, <2>4, <2>5 DEF t, StepStart, Rearms, Blocked, Screwing
<1>3. CASE s.a.degraded /\ ~s.a.running
    <2>1. t = s
        BY <1>3 DEF Prompt
    <2>2. QED
        BY <2>1, Quiet DEF StepStart, Legal, Rearms
<1>4. CASE ~s.a.degraded
    <2> DEFINE b == [s.a EXCEPT !.running = TRUE]
               on == Started(s)
               re == ResetTrigger(on)
    <2>1. on = [s EXCEPT !.a = b]
        BY DEF Started, Pairs
    <2>2. /\ b \in App /\ b.running /\ b.degraded = s.a.degraded
          /\ b.stopping = s.a.stopping
          /\ b.lockState = s.a.lockState
          /\ b.rearming = s.a.rearming /\ b.waiting = s.a.waiting /\ b.ng = s.a.ng
          /\ b.step = s.a.step
        BY <1>1 DEF App
    <2> HIDE DEF b, on
    <2>3. on \in Pairs /\ on.a = b /\ on.out = s.out
        BY <2>1, <2>2, Made
    <2>4. Acts(s, on)
        BY <2>2, <2>3, Quiet
    <2>5. t \in {LockTool(on), UnlockTool(re)}
        BY <1>4 DEF Prompt, on
    <2>6. Waits(on, re) /\ re \in Pairs
        BY <2>3, LockWaits DEF Waits, Follows
    <2> HIDE DEF re, t
    <2>7. Waits(on, UnlockTool(re))
        BY <2>3, <2>6, LockWaits, WaitsTrans
    <2>8. Waits(on, t)
        BY <2>3, <2>5, <2>7, LockWaits
    <2>9. Acts(s, t) /\ t \in Pairs
        BY <2>3, <2>4, <2>8, ActsTrans DEF Waits, Follows
    <2>10. QED
        BY <2>2, <2>3, <2>8, <2>9
           DEF t, StepStart, Legal, Rearms, Blocked, Screwing, Waits, Follows
<1>5. QED
    BY <1>1, <1>2, <1>3, <1>4 DEF App

\* The step or the product the window starts with, before it prompts.
LEMMA StepStarts ==
    ASSUME NEW s \in Pairs, NEW b \in App, NEW u, u = [s EXCEPT !.a = b],
           b.running = s.a.running, b.degraded = s.a.degraded,
           b.stopping = s.a.stopping, b.lockState = s.a.lockState,
           b.ng => s.a.ng,
           s.a.running /\ s.a.rearming => b.rearming
    PROVE  /\ Legal(s, Prompt(u)) /\ Rearms(s, Prompt(u))
           /\ Blocked(u.a) => Blocked(Prompt(u).a)
           /\ u.a = b
<1>1. u \in Pairs /\ u.a = b /\ u.out = s.out
    BY Made
<1>2. Acts(s, u)
    BY <1>1, Quiet
<1>3. StepStart(u, Prompt(u))
    BY <1>1, PromptStarts
<1>4. Legal(s, Prompt(u))
    BY <1>1, <1>2, <1>3, ActsLegal DEF StepStart
<1>5. QED
    BY <1>1, <1>3, <1>4 DEF StepStart, Rearms

LEMMA RenewedType ==
    ASSUME NEW a \in App
    PROVE  LET b == Renewed(a)
           IN  /\ b \in App /\ ~b.ng
               /\ b.running = a.running /\ b.degraded = a.degraded
               /\ b.stopping = a.stopping /\ b.lockState = a.lockState
               /\ b.rearming = a.rearming
<1> DEFINE z == [i \in DOMAIN Steps |-> 0]
           b == [a EXCEPT !.step = 1, !.count = z, !.waiting = FALSE,
                          !.ng = FALSE, !.reverseLock = FALSE, !.pending = FALSE]
<1>1. 1 \in DOMAIN Steps /\ z \in [DOMAIN Steps -> 0..Required]
    BY ScrewGunAssumption
<1>2. Renewed(a) = b
    BY DEF Renewed
<1> HIDE DEF z
<1>3. /\ b \in App /\ ~b.ng
      /\ b.running = a.running /\ b.degraded = a.degraded
      /\ b.stopping = a.stopping /\ b.lockState = a.lockState
      /\ b.rearming = a.rearming
    BY <1>1 DEF App
<1> HIDE DEF b
<1>4. QED
    BY <1>2, <1>3

\* A step begun in any way keeps the block of a reconnection.
LEMMA AdvanceStarts ==
    ASSUME NEW s \in Pairs, NEW accepted \in BOOLEAN
    PROVE  Legal(s, Advance(s, accepted)) /\ Rearms(s, Advance(s, accepted))
<1>1. s.a \in App
    BY PairType
<1>2. CASE s.a.step < Len(Steps)
    <2> DEFINE b == [s.a EXCEPT !.step = s.a.step + 1]
               u == [s EXCEPT !.a = b]
    <2>1. [s EXCEPT !.a.step = @ + 1] = u
        BY DEF Pairs
    <2>2. s.a.step + 1 \in DOMAIN Steps
        BY <1>1, <1>2, ScrewGunAssumption DEF App
    <2>3. /\ b \in App /\ b.running = s.a.running /\ b.degraded = s.a.degraded
          /\ b.stopping = s.a.stopping /\ b.lockState = s.a.lockState /\ b.ng = s.a.ng
          /\ b.rearming = s.a.rearming
        BY <1>1, <2>2 DEF App
    <2>4. Advance(s, accepted) = Prompt(u)
        BY <1>2, <2>1 DEF Advance
    <2> HIDE DEF b
    <2>5. QED
        BY <2>3, <2>4, StepStarts
<1>3. CASE ~(s.a.step < Len(Steps)) /\ accepted
    <2> DEFINE b == Renewed(s.a)
               u == [s EXCEPT !.a = b]
    <2>1. Advance(s, accepted) = Prompt(u)
        BY <1>3 DEF Advance
    <2>2. /\ b \in App /\ ~b.ng
          /\ b.running = s.a.running /\ b.degraded = s.a.degraded
          /\ b.stopping = s.a.stopping /\ b.lockState = s.a.lockState
          /\ b.rearming = s.a.rearming
        BY <1>1, RenewedType
    <2> HIDE DEF b
    <2>3. QED
        BY <2>1, <2>2, StepStarts
<1>4. CASE ~(s.a.step < Len(Steps)) /\ ~accepted
    <2>1. Advance(s, accepted) = s
        BY <1>4 DEF Advance
    <2>2. QED
        BY <2>1, Quiet DEF Legal, Rearms
<1>5. QED
    BY <1>2, <1>3, <1>4

-----------------------------------------------------------------------------
(* The invariant.                                                           *)

\* Without a worker nothing waits for one.
Idle == ~app.running => calls = <<>> /\ reports = <<>> /\ worker = Off

\* A worker is asked to stop once, in degraded mode, and nothing is posted after that.
Stops ==
    /\ app.stopping => app.running /\ app.degraded
    /\ \A i \in 1..Len(calls) : calls[i] = "stop" => i = Len(calls) /\ app.stopping

\* Out of degraded mode a bypass that the worker has still to enter, or the window to
\* hear of, is followed by its end.
BypassesEnd ==
    ~app.degraded =>
       /\ \A i \in 1..Len(calls) :
             calls[i] = "bypass_on" => \E j \in (i + 1)..Len(calls) : calls[j] = "bypass_off"
       /\ \A i \in 1..Len(reports) :
             reports[i].kind = "bypass_on" =>
                \/ \E j \in (i + 1)..Len(reports) : reports[j].kind = "bypass_off"
                \/ \E j \in 1..Len(calls) : calls[j] = "bypass_off"

LastState == worker.linked /\ states # <<>> => states[Len(states)] = "connected"

NoneOf(kind) ==
    /\ \A i \in 1..Len(calls) : calls[i] # kind
    /\ \A i \in 1..Len(reports) : reports[i].kind # kind

\* The window knows what the lock will be, unless a bypass has still to end.
Known ==
    app.running /\ worker.linked /\ ~app.degraded /\ states = <<>> /\ NoneOf("bypass_off")
    => Knows(Window, gun.locked) /\ Held(app)

IInv == TypeOK /\ Idle /\ Stops /\ BypassesEnd /\ LastState /\ Known

LEMMA WindowType ==
    ASSUME TypeOK
    PROVE  Window \in Pairs /\ Window.a = app /\ Window.out = calls
BY DEF TypeOK, Window, Pairs

\* What a step of the window does to the queue of reports.
Taken == reports' = reports \/ (reports # <<>> /\ reports' = Tail(reports))

LEMMA TakenReports ==
    ASSUME reports \in Seq(Report), Taken
    PROVE  /\ reports' \in Seq(Report) /\ Len(reports) \in Nat /\ Len(reports') \in Nat
           /\ \E d \in {0, 1} :
                 /\ Len(reports') = Len(reports) - d
                 /\ \A i \in 1..Len(reports') : reports'[i] = reports[i + d]
                 /\ d = 1 => Len(reports) > 0 /\ Head(reports) = reports[1]
<1>1. CASE reports' = reports
    <2>1. Len(reports) \in Nat
        BY LenProperties
    <2>2. Len(reports') = Len(reports) - 0 /\ \A i \in 1..Len(reports) : i + 0 = i
        BY <1>1, <2>1
    <2>3. QED
        BY <1>1, <2>1, <2>2
<1>2. CASE reports # <<>> /\ reports' = Tail(reports)
    <2>1. /\ Head(reports) = reports[1] /\ Tail(reports) \in Seq(Report)
          /\ Len(reports) \in Nat \ {0} /\ Len(Tail(reports)) = Len(reports) - 1
          /\ \A i \in 1..(Len(reports) - 1) : Tail(reports)[i] = reports[i + 1]
        BY <1>2, TailAt
    <2>2. /\ Len(reports') = Len(reports) - 1 /\ Len(reports') \in Nat
          /\ \A i \in 1..Len(reports') : reports'[i] = reports[i + 1]
          /\ Len(reports) > 0
        BY <1>2, <2>1
    <2>3. QED
        BY <1>2, <2>1, <2>2
<1>3. QED
    BY <1>1, <1>2 DEF Taken

\* Any step of the window but the changes of mode keeps these.
Plain(t) ==
    /\ t \in Pairs /\ app' = t.a /\ calls' = t.out
    /\ Moves(Window, t) \/ Halts(Window, t)
    /\ ~app.stopping /\ gun' = gun /\ worker' = worker /\ Taken
    /\ uncounted' \in Int /\ used' \in 0..Disturbances

LEMMA PlainCalls ==
    ASSUME IInv, NEW t, Plain(t)
    PROVE  /\ Len(calls) \in Nat /\ Len(calls') \in Nat /\ Len(calls) <= Len(calls')
           /\ \A i \in 1..Len(calls) : calls'[i] = calls[i]
           /\ \A i \in (Len(calls) + 1)..Len(calls') :
                 \/ calls'[i] \in {"clear", "lock", "unlock"}
                 \/ calls'[i] = "stop" /\ i = Len(calls') /\ Halts(Window, t)
<1>1. Window.out = calls /\ calls \in Seq(Call) /\ calls' \in Seq(Call)
    BY WindowType DEF IInv, TypeOK, Plain, Pairs
<1>2. CASE Moves(Window, t)
    BY <1>1, <1>2, LenProperties DEF Moves, Grows, Plain
<1>3. CASE Halts(Window, t)
    <2>1. calls' = Append(calls, "stop")
        BY <1>1, <1>3 DEF Halts, Plain
    <2>2. /\ Len(calls) \in Nat /\ Len(Append(calls, "stop")) = Len(calls) + 1
          /\ \A i \in 1..Len(calls) : Append(calls, "stop")[i] = calls[i]
          /\ Append(calls, "stop")[Len(calls) + 1] = "stop"
        BY <1>1, AppendAt DEF Call
    <2>3. QED
        BY <1>3, <2>1, <2>2
<1>4. QED
    BY <1>2, <1>3 DEF Plain

LEMMA PlainKeeps ==
    ASSUME IInv, NEW t, Plain(t), states' = states \/ (states # <<>> /\ states' = Tail(states))
    PROVE  TypeOK' /\ Idle' /\ Stops' /\ BypassesEnd' /\ LastState'
<1>1. /\ Window \in Pairs /\ Window.a = app /\ Window.out = calls
      /\ t \in Pairs /\ app' = t.a /\ calls' = t.out
    BY WindowType DEF IInv, Plain
<1>2. /\ Len(calls) \in Nat /\ Len(calls') \in Nat /\ Len(calls) <= Len(calls')
      /\ \A i \in 1..Len(calls) : calls'[i] = calls[i]
      /\ \A i \in (Len(calls) + 1)..Len(calls') :
            \/ calls'[i] \in {"clear", "lock", "unlock"}
            \/ calls'[i] = "stop" /\ i = Len(calls') /\ Halts(Window, t)
    BY PlainCalls
<1>3. PICK d \in {0, 1} :
            /\ Len(reports') = Len(reports) - d
            /\ \A i \in 1..Len(reports') : reports'[i] = reports[i + d]
            /\ d = 1 => Len(reports) > 0 /\ Head(reports) = reports[1]
    BY TakenReports DEF IInv, TypeOK, Plain
<1>4. reports' \in Seq(Report) /\ Len(reports) \in Nat /\ Len(reports') \in Nat
    BY TakenReports DEF IInv, TypeOK, Plain
<1>5. /\ states' \in Seq({"reconnecting", "connected"})
      /\ LastState'
    <2>1. CASE states' = states
        BY <2>1 DEF IInv, TypeOK, LastState, Plain
    <2>2. CASE states # <<>> /\ states' = Tail(states)
        <3>1. /\ Tail(states) \in Seq({"reconnecting", "connected"})
              /\ Len(states) \in Nat \ {0} /\ Len(Tail(states)) = Len(states) - 1
              /\ \A i \in 1..(Len(states) - 1) : Tail(states)[i] = states[i + 1]
            BY <2>2, TailAt DEF IInv, TypeOK
        <3>2. CASE states' # <<>>
            <4>1. Len(Tail(states)) # 0
                BY <2>2, <3>1, <3>2, EmptySeq
            <4>2. Tail(states)[Len(states) - 1] = states[Len(states)]
                BY <3>1, <4>1
            <4>3. QED
                BY <2>2, <3>1, <4>2 DEF IInv, LastState, Plain
        <3>3. CASE states' = <<>>
            BY <2>2, <3>1, <3>3 DEF LastState
        <3>4. QED
            BY <3>2, <3>3
    <2>3. QED
        BY <2>1, <2>2
<1>6. TypeOK'
    BY <1>1, <1>4, <1>5 DEF IInv, TypeOK, Plain, Pairs
<1>7. Idle'
    <2>1. CASE Moves(Window, t)
        <3> SUFFICES ASSUME ~app'.running
                     PROVE  calls' = <<>> /\ reports' = <<>> /\ worker' = Off
            BY DEF Idle
        <3>1. ~app.running /\ calls' = calls
            BY <1>1, <2>1 DEF Moves
        <3>2. calls = <<>> /\ reports = <<>> /\ worker = Off
            BY <3>1 DEF IInv, Idle
        <3>3. QED
            BY <3>1, <3>2 DEF Plain, Taken
    <2>2. CASE Halts(Window, t)
        BY <1>1, <2>2 DEF Halts, Idle
    <2>3. QED
        BY <2>1, <2>2 DEF Plain
<1>8. Stops'
    <2>1. ASSUME NEW i \in 1..Len(calls'), calls'[i] = "stop"
          PROVE  i = Len(calls') /\ app'.stopping
        <3>1. i \notin 1..Len(calls)
            BY <1>2, <2>1 DEF IInv, Stops, Plain
        <3>2. i \in (Len(calls) + 1)..Len(calls')
            BY <1>2, <2>1, <3>1
        <3>3. i = Len(calls') /\ Halts(Window, t)
            BY <1>2, <2>1, <3>2
        <3>4. QED
            BY <1>1, <3>3 DEF Halts
    <2>2. app'.stopping => app'.running /\ app'.degraded
        BY <1>1 DEF Plain, Moves, Halts
    <2>3. QED
        BY <2>1, <2>2 DEF Stops
<1>9. BypassesEnd'
    <2> SUFFICES ASSUME ~app'.degraded
                 PROVE  /\ \A i \in 1..Len(calls') :
                              calls'[i] = "bypass_on" =>
                                 \E j \in (i + 1)..Len(calls') : calls'[j] = "bypass_off"
                        /\ \A i \in 1..Len(reports') :
                              reports'[i].kind = "bypass_on" =>
                                 \/ \E j \in (i + 1)..Len(reports') :
                                       reports'[j].kind = "bypass_off"
                                 \/ \E j \in 1..Len(calls') : calls'[j] = "bypass_off"
        BY DEF BypassesEnd
    <2>1. ~app.degraded /\ Moves(Window, t)
        BY <1>1 DEF Plain, Moves, Halts
    <2>2. /\ \A i \in 1..Len(calls) :
                calls[i] = "bypass_on" =>
                   \E j \in (i + 1)..Len(calls) : calls[j] = "bypass_off"
          /\ \A i \in 1..Len(reports) :
                reports[i].kind = "bypass_on" =>
                   \/ \E j \in (i + 1)..Len(reports) : reports[j].kind = "bypass_off"
                   \/ \E j \in 1..Len(calls) : calls[j] = "bypass_off"
        BY <2>1 DEF IInv, BypassesEnd
    <2>3. ASSUME NEW i \in 1..Len(calls'), calls'[i] = "bypass_on"
          PROVE  \E j \in (i + 1)..Len(calls') : calls'[j] = "bypass_off"
        <3>1. i \in 1..Len(calls) /\ calls[i] = "bypass_on"
            BY <1>2, <2>3
        <3>2. PICK j \in (i + 1)..Len(calls) : calls[j] = "bypass_off"
            BY <2>2, <3>1
        <3>3. j \in (i + 1)..Len(calls') /\ calls'[j] = "bypass_off"
            BY <1>2, <3>1, <3>2
        <3>4. QED
            BY <3>3
    <2>4. ASSUME NEW i \in 1..Len(reports'), reports'[i].kind = "bypass_on"
          PROVE  \/ \E j \in (i + 1)..Len(reports') : reports'[j].kind = "bypass_off"
                 \/ \E j \in 1..Len(calls') : calls'[j] = "bypass_off"
        <3>1. i + d \in 1..Len(reports) /\ reports[i + d].kind = "bypass_on"
            BY <1>3, <1>4, <2>4
        <3>2. CASE \E j \in (i + d + 1)..Len(reports) : reports[j].kind = "bypass_off"
            <4>1. PICK j \in (i + d + 1)..Len(reports) : reports[j].kind = "bypass_off"
                BY <3>2
            <4>2. j - d \in (i + 1)..Len(reports') /\ j - d \in 1..Len(reports')
                  /\ j - d + d = j
                BY <1>3, <1>4, <2>4, <4>1
            <4>3. reports'[j - d].kind = "bypass_off"
                BY <1>3, <4>1, <4>2
            <4>4. QED
                BY <4>2, <4>3
        <3>3. CASE \E j \in 1..Len(calls) : calls[j] = "bypass_off"
            <4>1. PICK j \in 1..Len(calls) : calls[j] = "bypass_off"
                BY <3>3
            <4>2. j \in 1..Len(calls') /\ calls'[j] = "bypass_off"
                BY <1>2, <4>1
            <4>3. QED
                BY <4>2
        <3>4. QED
            BY <2>2, <3>1, <3>2, <3>3
    <2>5. QED
        BY <2>3, <2>4
<1>10. QED
    BY <1>5, <1>6, <1>7, <1>8, <1>9

LEMMA PlainKnown ==
    ASSUME IInv, NEW t, Plain(t), Acts(Window, t) \/ Halts(Window, t), states' = states,
           reports' = reports \/ Head(reports).kind # "bypass_off"
    PROVE  Known'
<1> SUFFICES ASSUME app'.running, worker'.linked, ~app'.degraded, states' = <<>>,
                    NoneOf("bypass_off")'
             PROVE  Knows(Window, gun.locked)' /\ Held(app)'
    BY DEF Known
<1>1. /\ Window \in Pairs /\ Window.a = app /\ Window.out = calls
      /\ app' = t.a /\ calls' = t.out /\ gun' = gun /\ worker' = worker
    BY WindowType DEF IInv, Plain
<1>2. Acts(Window, t)
    BY <1>1 DEF Halts
<1>3. ~app.degraded
    BY <1>1, <1>2 DEF Acts, Moves
<1>4. app.running
    <2>1. CASE ~app.running
        <3>1. worker = Off
            BY <2>1 DEF IInv, Idle
        <3>2. QED
            BY <1>1, <3>1 DEF Off
    <2>2. QED
        BY <2>1
<1>5. NoneOf("bypass_off")
    <2>1. /\ Len(calls) \in Nat /\ Len(calls') \in Nat /\ Len(calls) <= Len(calls')
          /\ \A i \in 1..Len(calls) : calls'[i] = calls[i]
        BY PlainCalls
    <2>2. ASSUME NEW i \in 1..Len(calls) PROVE calls[i] # "bypass_off"
        BY <2>1, <2>2 DEF NoneOf
    <2>3. PICK d \in {0, 1} :
                /\ Len(reports') = Len(reports) - d
                /\ \A i \in 1..Len(reports') : reports'[i] = reports[i + d]
                /\ d = 1 => Len(reports) > 0 /\ Head(reports) = reports[1]
        BY TakenReports DEF IInv, TypeOK, Plain
    <2>4. Len(reports) \in Nat /\ Len(reports') \in Nat
        BY TakenReports DEF IInv, TypeOK, Plain
    <2>5. ASSUME NEW i \in 1..Len(reports) PROVE reports[i].kind # "bypass_off"
        <3>1. CASE d = 1 /\ i = 1
            <4>1. reports' # reports
                BY <2>3, <2>4, <3>1
            <4>2. QED
                BY <2>3, <3>1, <4>1
        <3>2. CASE ~(d = 1 /\ i = 1)
            <4>1. i - d \in 1..Len(reports') /\ i - d + d = i
                BY <2>3, <2>4, <2>5, <3>2
            <4>2. reports'[i - d] = reports[i - d + d]
                BY <2>3, <4>1
            <4>3. QED
                BY <4>1, <4>2 DEF NoneOf
        <3>3. QED
            BY <3>1, <3>2
    <2>6. QED
        BY <2>2, <2>5 DEF NoneOf
<1>6. Knows(Window, gun.locked) /\ Held(app)
    BY <1>1, <1>3, <1>4, <1>5 DEF IInv, Known
<1>7. gun.locked \in BOOLEAN
    BY DEF IInv, TypeOK, Gun
<1>8. Knows(t, gun.locked) /\ Held(t.a)
    BY <1>1, <1>2, <1>4, <1>6, <1>7 DEF Acts
<1>9. QED
    BY <1>1, <1>8 DEF Knows, Window

\* A step of the window that takes no report and no state, and does not unblock it.
Steady ==
    \E t : /\ Plain(t) /\ (Acts(Window, t) \/ Halts(Window, t))
           /\ states' = states /\ reports' = reports /\ uncounted' = uncounted
           /\ Blocked(app) => Blocked(app')

LEMMA SteadyKeeps ==
    ASSUME IInv, Steady
    PROVE  IInv'
<1>1. PICK t : /\ Plain(t) /\ (Acts(Window, t) \/ Halts(Window, t))
               /\ states' = states /\ reports' = reports
    BY DEF Steady
<1>2. QED
    BY <1>1, PlainKeeps, PlainKnown DEF IInv

LEMMA MakeSteady ==
    ASSUME TypeOK, ~app.stopping, NEW t, Legal(Window, t), Does(t),
           gun' = gun, worker' = worker, states' = states, reports' = reports,
           uncounted' = uncounted, used' \in 0..Disturbances,
           Blocked(app) => Blocked(t.a)
    PROVE  Steady
<1>1. Acts(Window, t) => Moves(Window, t)
    BY DEF Acts
<1>2. QED
    BY <1>1 DEF TypeOK, Steady, Plain, Does, Legal, Taken

LEMMA Disturbed ==
    ASSUME TypeOK, NEW n \in {0, 1}, Disturb(n)
    PROVE  used' \in 0..Disturbances
BY ScrewGunAssumption DEF TypeOK, Disturb

LEMMA ScanSteady ==
    ASSUME TypeOK, Scan
    PROVE  Steady
<1>1. PICK accepted \in BOOLEAN : /\ Disturb(IF accepted THEN 0 ELSE 1)
                                  /\ Does(Advance(Window, accepted))
    BY DEF Scan
<1>2. PICK t : t = Advance(Window, accepted)
    OBVIOUS
<1>3. Window \in Pairs /\ Window.a = app
    BY WindowType
<1>4. Legal(Window, t) /\ Rearms(Window, t)
    BY <1>2, <1>3, AdvanceStarts
<1>5. Blocked(app) => Blocked(t.a)
    BY <1>3, <1>4 DEF Scan, Blocked, Rearms
<1>6. used' \in 0..Disturbances
    BY <1>1, Disturbed
<1>7. Does(t)
    BY <1>1, <1>2 DEF Does
<1>8. QED
    BY <1>4, <1>5, <1>6, <1>7, MakeSteady DEF Scan

\* A callback that was due is called.
LEMMA NotDue ==
    ASSUME NEW s \in Pairs, NEW name
    PROVE  LET t == [s EXCEPT !.a.due = @ \ {name}]
           IN  /\ t \in Pairs /\ Acts(s, t) /\ t.out = s.out
               /\ t.a.running = s.a.running /\ t.a.rearming = s.a.rearming
               /\ t.a.waiting = s.a.waiting /\ t.a.ng = s.a.ng /\ t.a.step = s.a.step
<1> DEFINE b == [s.a EXCEPT !.due = @ \ {name}]
           t == [s EXCEPT !.a.due = @ \ {name}]
<1>1. s.a \in App
    BY PairType
<1>2. t = [s EXCEPT !.a = b]
    BY DEF Pairs
<1>3. /\ b \in App /\ b.running = s.a.running /\ b.rearming = s.a.rearming
      /\ b.waiting = s.a.waiting /\ b.ng = s.a.ng /\ b.step = s.a.step
      /\ b.degraded = s.a.degraded /\ b.stopping = s.a.stopping
      /\ b.lockState = s.a.lockState
    BY <1>1 DEF App
<1> HIDE DEF b, t
<1>4. t \in Pairs /\ t.a = b /\ t.out = s.out
    BY <1>2, <1>3, Made
<1>5. Acts(s, t)
    BY <1>3, <1>4, Quiet
<1>6. QED
    BY <1>3, <1>4, <1>5 DEF t

LEMMA FinishSteady ==
    ASSUME TypeOK, Finish
    PROVE  Steady
<1>1. Window \in Pairs /\ Window.a = app
    BY WindowType
<1>2. PICK done : done = [Window EXCEPT !.a.due = @ \ {"finish"}]
    OBVIOUS
<1>3. /\ done \in Pairs /\ Acts(Window, done) /\ done.out = Window.out
      /\ done.a.running = app.running /\ done.a.rearming = app.rearming
      /\ done.a.waiting = app.waiting /\ done.a.ng = app.ng /\ done.a.step = app.step
    <2>1. PICK s \in Pairs : s = Window
        BY <1>1
    <2>2. done = [s EXCEPT !.a.due = @ \ {"finish"}]
        BY <1>2, <2>1
    <2>3. QED
        BY <1>1, <2>1, <2>2, NotDue
<1>4. /\ ~app.stopping /\ gun' = gun /\ worker' = worker /\ states' = states
      /\ reports' = reports /\ uncounted' = uncounted
    BY DEF Finish
<1>5. CASE Does(done) /\ UNCHANGED used
    <2>1. Legal(Window, done)
        BY <1>3 DEF Legal
    <2>2. Blocked(app) => Blocked(done.a)
        BY <1>3 DEF Blocked, Screwing
    <2>3. used' \in 0..Disturbances
        BY <1>5 DEF TypeOK
    <2>4. QED
        BY <1>4, <1>5, <2>1, <2>2, <2>3, MakeSteady
<1>6. CASE Does(ResetTrigger(Window)) /\ UNCHANGED used
    <2>1. PICK t : t = ResetTrigger(Window)
        OBVIOUS
    <2>2. Legal(Window, t) /\ t.a = app
        BY <1>1, <2>1, ResetTriggerActs DEF Legal
    <2>3. used' \in 0..Disturbances /\ Does(t)
        BY <1>6, <2>1 DEF TypeOK, Does
    <2>4. QED
        BY <1>4, <2>2, <2>3, MakeSteady
<1>7. CASE /\ ~app.waiting
           /\ \E accepted \in BOOLEAN : /\ Disturb(IF accepted THEN 0 ELSE 1)
                                        /\ Does(Advance(done, accepted))
    <2>1. PICK accepted \in BOOLEAN : /\ Disturb(IF accepted THEN 0 ELSE 1)
                                      /\ Does(Advance(done, accepted))
        BY <1>7
    <2>2. PICK t : t = Advance(done, accepted)
        OBVIOUS
    <2>3. Legal(done, t) /\ Rearms(done, t)
        BY <1>3, <2>2, AdvanceStarts
    <2>4. Legal(Window, t)
        BY <1>1, <1>3, <2>3, ActsLegal
    <2>5. Blocked(app) => Blocked(t.a)
        BY <1>3, <1>7, <2>3 DEF Blocked, Rearms
    <2>6. used' \in 0..Disturbances
        BY <2>1, Disturbed
    <2>7. Does(t)
        BY <2>1, <2>2 DEF Does
    <2>8. QED
        BY <1>4, <2>4, <2>5, <2>6, <2>7, MakeSteady
<1>8. QED
    BY <1>2, <1>5, <1>6, <1>7 DEF Finish

LEMMA PromptSteady ==
    ASSUME TypeOK, PromptDue
    PROVE  Steady
<1>1. Window \in Pairs /\ Window.a = app
    BY WindowType
<1>2. PICK done : done = [Window EXCEPT !.a.due = @ \ {"prompt"}]
    OBVIOUS
<1>3. /\ done \in Pairs /\ Acts(Window, done) /\ done.out = Window.out
      /\ done.a.running = app.running /\ done.a.rearming = app.rearming
      /\ done.a.waiting = app.waiting /\ done.a.ng = app.ng /\ done.a.step = app.step
    <2>1. PICK s \in Pairs : s = Window
        BY <1>1
    <2>2. done = [s EXCEPT !.a.due = @ \ {"prompt"}]
        BY <1>2, <2>1
    <2>3. QED
        BY <1>1, <2>1, <2>2, NotDue
<1>4. PICK t : t = Prompt(done)
    OBVIOUS
<1>5. StepStart(done, t)
    BY <1>3, <1>4, PromptStarts
<1>6. Legal(Window, t)
    BY <1>1, <1>3, <1>5, ActsLegal DEF StepStart
<1>7. Blocked(app) => Blocked(t.a)
    BY <1>3, <1>5 DEF StepStart, Blocked, Screwing
<1>8. Does(t)
    BY <1>2, <1>4 DEF PromptDue, Does
<1>9. QED
    BY <1>6, <1>7, <1>8, MakeSteady DEF PromptDue, TypeOK

LEMMA ManualOkSteady ==
    ASSUME TypeOK, ManualOk
    PROVE  Steady
<1>1. Window \in Pairs /\ Window.a = app
    BY WindowType
<1>2. PICK c : c = Counted(Window)
    OBVIOUS
<1>3. /\ c \in Pairs /\ Acts(Window, c)
      /\ c.a.running = app.running /\ c.a.rearming = app.rearming
      /\ c.a.waiting = app.waiting /\ c.a.ng = app.ng /\ c.a.step = app.step
    BY <1>1, <1>2, CountedActs
<1>4. PICK t : t = IF Full(c.a) THEN ResetTrigger(LockTool(c)) ELSE c
    OBVIOUS
<1>5. Waits(c, t)
    <2>1. Waits(c, LockTool(c)) /\ LockTool(c) \in Pairs
        BY <1>3, LockWaits DEF Waits, Follows
    <2>2. Waits(c, ResetTrigger(LockTool(c)))
        BY <1>3, <2>1, LockWaits, WaitsTrans
    <2>3. QED
        BY <1>3, <1>4, <2>2, WaitsSelf
<1>6. Legal(Window, t)
    BY <1>1, <1>3, <1>5, ActsTrans DEF Legal, Waits, Follows
<1>7. Blocked(app) => Blocked(t.a)
    BY <1>3, <1>5 DEF Blocked, Screwing, Waits, Follows
<1>8. Does(t) /\ Disturb(1)
    BY <1>2, <1>4 DEF ManualOk, Does
<1>9. used' \in 0..Disturbances
    BY <1>8, Disturbed
<1>10. QED
    BY <1>6, <1>7, <1>8, <1>9, MakeSteady DEF ManualOk

LEMMA AdminUnlockSteady ==
    ASSUME TypeOK, AdminUnlock
    PROVE  Steady
<1>1. Window \in Pairs /\ Window.a = app
    BY WindowType
<1>2. used' \in 0..Disturbances
    BY DEF AdminUnlock, TypeOK
<1>3. CASE Does(LockTool(Window))
    <2>1. PICK t : t = LockTool(Window)
        OBVIOUS
    <2>2. Waits(Window, t) /\ Does(t)
        BY <1>1, <1>3, <2>1, LockWaits DEF Does
    <2>3. Legal(Window, t) /\ (Blocked(app) => Blocked(t.a))
        BY <1>1, <2>2 DEF Legal, Blocked, Screwing, Waits, Follows
    <2>4. QED
        BY <1>2, <2>2, <2>3, MakeSteady DEF AdminUnlock
<1>4. CASE Does(UnlockOrLock(ResetTrigger(
                    [Window EXCEPT !.a.ng = FALSE, !.a.waiting = FALSE])))
    <2>1. PICK s \in Pairs : s = Window
        BY <1>1
    <2> DEFINE b == [s.a EXCEPT !.ng = FALSE, !.waiting = FALSE]
    <2>2. PICK u : u = [s EXCEPT !.a = b]
        OBVIOUS
    <2>3. [Window EXCEPT !.a.ng = FALSE, !.a.waiting = FALSE] = u
        BY <2>1, <2>2 DEF Pairs
    <2>4. /\ b \in App /\ b.running = s.a.running /\ b.rearming = s.a.rearming
          /\ ~b.ng /\ b.degraded = s.a.degraded /\ b.stopping = s.a.stopping
          /\ b.lockState = s.a.lockState
        BY PairType DEF App
    <2> HIDE DEF b
    <2>5. u \in Pairs /\ u.a = b /\ u.out = s.out
        BY <2>2, <2>4, Made
    <2>6. Acts(s, u)
        BY <2>4, <2>5, Quiet
    <2>7. PICK t : t = UnlockOrLock(ResetTrigger(u))
        OBVIOUS
    <2>8. Waits(u, t)
        <3>1. Waits(u, ResetTrigger(u)) /\ ResetTrigger(u) \in Pairs
            BY <2>5, LockWaits DEF Waits, Follows
        <3>2. Waits(ResetTrigger(u), t)
            BY <2>7, <3>1, LockWaits
        <3>3. QED
            BY <2>5, <3>1, <3>2, WaitsTrans
    <2>9. Legal(s, t)
        BY <2>5, <2>6, <2>8, ActsTrans DEF Legal, Waits, Follows
    <2>10. Blocked(app) => Blocked(t.a)
        BY <1>1, <2>1, <2>4, <2>5, <2>8 DEF AdminUnlock, Blocked, Waits, Follows
    <2>11. Legal(Window, t) /\ Does(t)
        BY <1>4, <2>1, <2>3, <2>7, <2>9 DEF Does
    <2>12. QED
        BY <1>2, <2>10, <2>11, MakeSteady DEF AdminUnlock
<1>5. QED
    BY <1>3, <1>4 DEF AdminUnlock

LEMMA ResetSteady ==
    ASSUME TypeOK, Reset
    PROVE  Steady
<1>1. Window \in Pairs /\ Window.a = app
    BY WindowType
<1>2. PICK s \in Pairs : s = Window
    BY <1>1
<1> DEFINE c == Renewed(s.a)
           b == [c EXCEPT !.rearming = s.a.running, !.direction = "none",
                          !.candidate = "none", !.reads = 0]
<1>3. s.a \in App /\ s.a = app
    BY <1>1, <1>2, PairType
<1>4. /\ c \in App /\ ~c.ng
      /\ c.running = s.a.running /\ c.degraded = s.a.degraded
      /\ c.stopping = s.a.stopping /\ c.lockState = s.a.lockState
    BY <1>3, RenewedType
<1> HIDE DEF c
<1>5. /\ b \in App /\ ~b.ng
      /\ b.running = s.a.running /\ b.degraded = s.a.degraded
      /\ b.stopping = s.a.stopping /\ b.lockState = s.a.lockState
      /\ b.rearming = s.a.running
    <2>1. 0 \in 0..StableReads /\ s.a.running \in BOOLEAN
        BY <1>3, ScrewGunAssumption DEF App
    <2>2. QED
        BY <1>4, <2>1 DEF App
<1> HIDE DEF b
<1>6. PICK u : u = [s EXCEPT !.a = b]
    OBVIOUS
<1>7. PICK t : t = Prompt(u)
    OBVIOUS
<1>8. /\ Legal(s, t) /\ u.a = b
      /\ Blocked(u.a) => Blocked(t.a)
    BY <1>5, <1>6, <1>7, StepStarts
<1>9. Blocked(app) => Blocked(t.a)
    BY <1>3, <1>5, <1>8 DEF Blocked
<1>10. Does(t)
    BY <1>2, <1>3, <1>6, <1>7 DEF Reset, Does, b, c, Window
<1>11. used' \in 0..Disturbances
    BY Disturbed DEF Reset
<1>12. QED
    BY <1>2, <1>8, <1>9, <1>10, <1>11, MakeSteady DEF Reset

LEMMA Posted ==
    ASSUME NEW s \in Pairs, NEW c \in Call
    PROVE  LET t == Post(s, c)
           IN  /\ t \in Pairs /\ t.a = s.a
               /\ s.a.running => t.out = Append(s.out, c)
               /\ ~s.a.running => t.out = s.out
<1>1. Append(s.out, c) \in Seq(Call)
    BY PairType
<1>2. CASE s.a.running
    <2>1. s = [a |-> s.a, out |-> s.out]
        BY DEF Pairs
    <2>2. [s EXCEPT !.out = Append(@, c)] = [a |-> s.a, out |-> Append(s.out, c)]
        BY <2>1
    <2>3. Post(s, c) = [s EXCEPT !.out = Append(@, c)]
        BY <1>2 DEF Post
    <2>4. QED
        BY <1>1, <1>2, <2>2, <2>3, PairType DEF Pairs
<1>3. CASE ~s.a.running
    BY <1>3 DEF Post
<1>4. QED
    BY <1>2, <1>3

\* The calls of a change of mode.
LEMMA ModeCalls ==
    ASSUME IInv, ~app.stopping, NEW c \in {"bypass_on", "bypass_off"},
           calls' = IF app.running THEN Append(calls, c) ELSE calls
    PROVE  /\ calls' \in Seq(Call) /\ Len(calls) \in Nat /\ Len(calls) <= Len(calls')
           /\ app.running => Len(calls') = Len(calls) + 1 /\ calls'[Len(calls')] = c
           /\ \A i \in 1..Len(calls) : calls'[i] = calls[i]
           /\ \A i \in 1..Len(calls') : calls'[i] # "stop"
<1>1. calls \in Seq(Call) /\ Len(calls) \in Nat /\ c \in Call
    BY LenProperties DEF IInv, TypeOK, Call
<1>2. \A i \in 1..Len(calls) : calls[i] # "stop"
    BY DEF IInv, Stops
<1>3. CASE app.running
    <2>1. /\ calls' = Append(calls, c) /\ calls' \in Seq(Call) /\ Len(calls') = Len(calls) + 1
          /\ \A i \in 1..Len(calls) : calls'[i] = calls[i]
          /\ calls'[Len(calls) + 1] = c
        BY <1>1, <1>3, AppendAt
    <2>2. ASSUME NEW i \in 1..Len(calls') PROVE calls'[i] # "stop"
        <3>1. i \in 1..Len(calls) \/ i = Len(calls) + 1
            BY <1>1, <2>1, <2>2
        <3>2. QED
            BY <1>2, <2>1, <3>1
    <2>3. QED
        BY <1>1, <1>3, <2>1, <2>2
<1>4. CASE ~app.running
    BY <1>1, <1>2, <1>4
<1>5. QED
    BY <1>3, <1>4

LEMMA DegradedOnKeeps ==
    ASSUME IInv, DegradedOn
    PROVE  /\ IInv'
           /\ Blocked(app) => Blocked(app')
<1>1. PICK s \in Pairs : s = Window
    BY WindowType DEF IInv
<1> DEFINE b == [s.a EXCEPT !.degraded = TRUE]
<1>2. PICK u : u = [s EXCEPT !.a = b]
    OBVIOUS
<1>3. s.a = app /\ s.out = calls /\ s.a \in App
    BY <1>1, WindowType, PairType DEF IInv
<1>4. /\ b \in App /\ b.degraded /\ b.running = s.a.running /\ b.stopping = s.a.stopping
      /\ b.rearming = s.a.rearming /\ b.waiting = s.a.waiting /\ b.ng = s.a.ng
      /\ b.step = s.a.step
    BY <1>3 DEF App
<1>5. [Window EXCEPT !.a.degraded = TRUE] = u
    BY <1>1, <1>2 DEF Pairs
<1> HIDE DEF b
<1>6. u \in Pairs /\ u.a = b /\ u.out = s.out
    BY <1>2, <1>4, Made
<1>7. app' = b /\ calls' = IF app.running THEN Append(calls, "bypass_on") ELSE calls
    <2>1. PICK v : v = Post(u, "bypass_on")
        OBVIOUS
    <2>2. /\ v \in Pairs /\ v.a = b
          /\ v.out = IF app.running THEN Append(calls, "bypass_on") ELSE calls
        <3>1. "bypass_on" \in Call /\ u.a = b /\ u.out = calls
            BY <1>3, <1>6 DEF Call
        <3>2. /\ v \in Pairs /\ v.a = u.a
              /\ u.a.running => v.out = Append(u.out, "bypass_on")
              /\ ~u.a.running => v.out = u.out
            BY <1>6, <2>1, <3>1, Posted
        <3>3. u.a.running = app.running
            BY <1>3, <1>4, <3>1
        <3>4. QED
            BY <3>1, <3>2, <3>3
    <2>3. app' = v.a /\ calls' = v.out
        BY <1>5, <2>1 DEF DegradedOn, Does
    <2>4. QED
        BY <2>2, <2>3
<1>8. /\ ~app.stopping /\ gun' = gun /\ worker' = worker /\ states' = states
      /\ reports' = reports /\ uncounted' = uncounted
    BY DEF DegradedOn
<1>9. used' \in 0..Disturbances
    BY Disturbed DEF DegradedOn, IInv
<1>10. /\ calls' \in Seq(Call)
       /\ \A i \in 1..Len(calls') : calls'[i] # "stop"
    BY <1>7, <1>8, ModeCalls
<1>11. TypeOK'
    BY <1>4, <1>7, <1>8, <1>9, <1>10 DEF IInv, TypeOK
<1>12. Idle'
    BY <1>3, <1>4, <1>7, <1>8 DEF IInv, Idle
<1>13. Stops' /\ BypassesEnd' /\ LastState' /\ Known'
    BY <1>3, <1>4, <1>7, <1>8, <1>10 DEF IInv, Stops, BypassesEnd, LastState, Known
<1>14. Blocked(app) => Blocked(app')
    BY <1>3, <1>4, <1>7 DEF Blocked, Screwing
<1>15. QED
    BY <1>11, <1>12, <1>13, <1>14 DEF IInv

LEMMA DegradedOffKeeps ==
    ASSUME IInv, DegradedOff
    PROVE  /\ IInv'
           /\ Blocked(app) => Blocked(app')
<1>1. PICK s \in Pairs : s = Window
    BY WindowType DEF IInv
<1> DEFINE b == [s.a EXCEPT !.degraded = FALSE, !.due = @ \cup {"prompt"}]
           c == [b EXCEPT !.running = TRUE]
<1>2. PICK u : u = [s EXCEPT !.a = b]
    OBVIOUS
<1>3. s.a = app /\ s.out = calls /\ s.a \in App
    BY <1>1, WindowType, PairType DEF IInv
<1>4. /\ b \in App /\ ~b.degraded /\ b.running = s.a.running /\ b.stopping = s.a.stopping
      /\ b.rearming = s.a.rearming /\ b.waiting = s.a.waiting /\ b.ng = s.a.ng
      /\ b.step = s.a.step
    BY <1>3 DEF App
<1>5. [Window EXCEPT !.a.degraded = FALSE, !.a.due = @ \cup {"prompt"}] = u
    BY <1>1, <1>2 DEF Pairs
<1> HIDE DEF b
<1>6. /\ c \in App /\ ~c.degraded /\ c.running /\ c.stopping = s.a.stopping
      /\ c.rearming = s.a.rearming /\ c.waiting = s.a.waiting /\ c.ng = s.a.ng
      /\ c.step = s.a.step
    BY <1>4 DEF App
<1>7. u \in Pairs /\ u.a = b /\ u.out = s.out
    BY <1>2, <1>4, Made
<1>8. app' = c /\ calls' = IF app.running THEN Append(calls, "bypass_off") ELSE calls
    <2>1. PICK v : v = Post(u, "bypass_off")
        OBVIOUS
    <2>2. /\ v \in Pairs /\ v.a = b
          /\ v.out = IF app.running THEN Append(calls, "bypass_off") ELSE calls
        BY <1>3, <1>4, <1>7, <2>1, Posted DEF Call
    <2>3. app' = Started(v).a /\ calls' = Started(v).out
        BY <1>5, <2>1 DEF DegradedOff, Does
    <2>4. Started(v) = [v EXCEPT !.a = c]
        BY <2>2 DEF Started, Pairs
    <2> HIDE DEF c
    <2>5. Started(v).a = c /\ Started(v).out = v.out
        BY <1>6, <2>2, <2>4, Made
    <2>6. QED
        BY <2>2, <2>3, <2>5
<1> HIDE DEF c
<1>9. /\ ~app.stopping /\ gun' = gun /\ worker' = worker /\ states' = states
      /\ reports' = reports /\ uncounted' = uncounted /\ used' = used
    BY DEF DegradedOff
<1>10. /\ calls' \in Seq(Call) /\ Len(calls) \in Nat /\ Len(calls) <= Len(calls')
       /\ app.running => Len(calls') = Len(calls) + 1 /\ calls'[Len(calls')] = "bypass_off"
       /\ \A i \in 1..Len(calls) : calls'[i] = calls[i]
       /\ \A i \in 1..Len(calls') : calls'[i] # "stop"
    BY <1>8, <1>9, ModeCalls
<1>11. TypeOK'
    BY <1>6, <1>8, <1>9, <1>10 DEF IInv, TypeOK
<1>12. Idle' /\ Stops' /\ LastState'
    BY <1>3, <1>6, <1>8, <1>9, <1>10 DEF IInv, Idle, Stops, LastState
<1>13. BypassesEnd' /\ Known'
    <2>1. CASE app.running
        <3>1. Len(calls') \in 1..Len(calls') /\ calls'[Len(calls')] = "bypass_off"
            BY <1>10, <2>1
        <3>2. ASSUME NEW i \in 1..Len(calls'), calls'[i] = "bypass_on"
              PROVE  Len(calls') \in (i + 1)..Len(calls')
            <4>1. i # Len(calls')
                BY <3>1, <3>2
            <4>2. QED
                BY <3>1, <3>2, <4>1
        <3>3. BypassesEnd'
            BY <3>1, <3>2 DEF BypassesEnd
        <3>4. ~NoneOf("bypass_off")'
            BY <3>1 DEF NoneOf
        <3>5. QED
            BY <3>3, <3>4 DEF Known
    <2>2. CASE ~app.running
        <3>1. calls = <<>> /\ reports = <<>> /\ worker = Off
            BY <2>2 DEF IInv, Idle
        <3>2. Len(calls') = 0 /\ Len(reports') = 0 /\ ~worker'.linked
            BY <1>8, <1>9, <2>2, <3>1 DEF Off
        <3>3. QED
            BY <3>2 DEF BypassesEnd, Known
    <2>3. QED
        BY <2>1, <2>2
<1>14. Blocked(app) => Blocked(app')
    BY <1>3, <1>6, <1>8 DEF Blocked, Screwing
<1>15. QED
    BY <1>11, <1>12, <1>13, <1>14 DEF IInv

-----------------------------------------------------------------------------
(* What the window is told.                                                 *)

LEMMA MovesTrans ==
    ASSUME NEW s \in Pairs, NEW t \in Pairs, NEW u \in Pairs, Moves(s, t), Moves(t, u)
    PROVE  Moves(s, u)
<1>1. Grows(s.out, u.out)
    BY GrowsTrans DEF Moves, Pairs
<1>2. ~u.a.running => u.out = s.out
    BY DEF Moves, Pairs, App
<1>3. QED
    BY <1>1, <1>2 DEF Moves

\* The window no longer knows the lock, or is told of it.
LEMMA Forgets ==
    ASSUME NEW s \in Pairs, NEW l \in {"none", "unlocked"}
    PROVE  LET t == [s EXCEPT !.a.lockState = l]
           IN  /\ t \in Pairs /\ Moves(s, t) /\ Still(s, t)
               /\ t.a.lockState = l /\ t.a.degraded = s.a.degraded
<1> DEFINE b == [s.a EXCEPT !.lockState = l]
           t == [s EXCEPT !.a.lockState = l]
<1>1. s.a \in App
    BY PairType
<1>2. t = [s EXCEPT !.a = b]
    BY DEF Pairs
<1>3. /\ b \in App /\ b.running = s.a.running /\ b.rearming = s.a.rearming
      /\ b.waiting = s.a.waiting /\ b.ng = s.a.ng /\ b.step = s.a.step
      /\ b.count = s.a.count /\ b.lockState = l
      /\ b.degraded = s.a.degraded /\ b.stopping = s.a.stopping
    BY <1>1 DEF App
<1> HIDE DEF b, t
<1>4. t \in Pairs /\ t.a = b /\ t.out = s.out
    BY <1>2, <1>3, Made
<1>5. Grows(s.out, t.out)
    BY <1>4, LenProperties DEF Grows, Pairs
<1>6. QED
    BY <1>3, <1>4, <1>5 DEF t, Moves, Still

\* A report is handled: the stretch it belongs to is not claimed twice.
Claimed ==
    LET r == Head(reports)
    IN  \/ /\ Low(r) \/ (Blocked(app) => Blocked(app'))
           /\ uncounted' = uncounted
        \/ /\ ~Low(r) /\ ShowsOk(r) /\ ~Blocked(app) /\ Blocked(app')
           /\ uncounted' = uncounted - 1

LEMMA ReportTaken ==
    ASSUME IInv, NEW late \in BOOLEAN, OnReport(late), NEW t, t \in Pairs, Does(t),
           Moves(Window, t)
    PROVE  Plain(t) /\ states' = states /\ app.running
<1>1. Taken /\ ~app.stopping /\ gun' = gun /\ worker' = worker /\ states' = states
      /\ used' = used /\ reports # <<>>
    BY DEF OnReport, Taken
<1>2. app.running
    BY <1>1 DEF IInv, Idle
<1>3. app \in App /\ t.a \in App /\ app' = t.a
    BY PairType DEF IInv, TypeOK, Does
<1>4. /\ app.step \in DOMAIN Steps
      /\ app.count \in [DOMAIN Steps -> 0..Required]
      /\ app'.count \in [DOMAIN Steps -> 0..Required]
    BY <1>3 DEF App
<1>5. app.count[app.step] \in Int /\ app'.count[app.step] \in Int
    BY <1>4, ScrewGunAssumption
<1>6. uncounted' \in Int
    BY <1>5 DEF OnReport, IInv, TypeOK
<1>7. QED
    BY <1>1, <1>2, <1>6 DEF Plain, Does, IInv, TypeOK

\* Nothing is counted.
LEMMA NotCounted ==
    ASSUME TypeOK, NEW late \in BOOLEAN, OnReport(late), app'.count = app.count
    PROVE  uncounted' = uncounted
<1>1. /\ app.step \in DOMAIN Steps
      /\ app.count \in [DOMAIN Steps -> 0..Required]
    BY DEF TypeOK, App
<1>2. app.count[app.step] \in Int
    BY <1>1, ScrewGunAssumption
<1>3. QED
    BY <1>2 DEF OnReport, TypeOK

LEMMA PollTaken ==
    ASSUME IInv, NEW late \in BOOLEAN, OnReport(late), Head(reports).kind = "poll"
    PROVE  IInv' /\ Claimed
<1>1. PICK s \in Pairs : s = Window
    BY WindowType DEF IInv
<1>2. PICK r : r = Head(reports)
    OBVIOUS
<1>3. r \in Poll
    <2>1. r \in Report
        BY <1>2, TailAt DEF IInv, TypeOK, OnReport
    <2>2. QED
        BY <1>2, <2>1 DEF Report, Poll
<1>4. PICK t : t = Polled(s, r, late)
    OBVIOUS
<1>5. Does(t)
    BY <1>1, <1>2, <1>4 DEF OnReport, Does
<1>6. /\ r.trigger => Outcome(s, t, r.status)
      /\ ~r.trigger => Follows(s, t)
    BY <1>3, <1>4, PolledActs
<1>7. t \in Pairs /\ Acts(s, t) /\ t.a.step = s.a.step
    BY <1>6 DEF Outcome, Waits, Follows
<1>8. Plain(t) /\ states' = states /\ app.running
    BY <1>1, <1>5, <1>7, ReportTaken DEF Acts
<1>9. IInv'
    BY <1>1, <1>7, <1>8, PlainKeeps, PlainKnown DEF IInv
<1>10. s.a = app /\ t.a = app'
    BY <1>1, <1>5, WindowType DEF IInv, Does
<1>11. Claimed
    <2>1. CASE ~r.trigger
        <3>1. app'.count = app.count
            BY <1>6, <1>10, <2>1 DEF Follows
        <3>2. uncounted' = uncounted
            BY <3>1, NotCounted DEF IInv
        <3>3. QED
            BY <1>2, <2>1, <3>2 DEF Claimed, Low
    <2>2. CASE r.trigger /\ (Waits(s, t) \/ (~Blocked(app) /\ app'.count = app.count))
        <3>1. app'.count = app.count
            BY <1>10, <2>2 DEF Waits, Follows
        <3>2. uncounted' = uncounted
            BY <3>1, NotCounted DEF IInv
        <3>3. Blocked(app) => Blocked(app')
            BY <1>7, <1>10, <2>2 DEF Waits, Follows, Blocked, Screwing
        <3>4. QED
            BY <3>2, <3>3 DEF Claimed
    <2>3. CASE /\ r.trigger /\ r.status = "ok" /\ ~Blocked(app)
               /\ app.running => Blocked(app')
               /\ app'.count[app.step] = app.count[app.step] + 1
        <3>1. app.count[app.step] \in Int
            <4>1. /\ app.step \in DOMAIN Steps
                  /\ app.count \in [DOMAIN Steps -> 0..Required]
                BY DEF IInv, TypeOK, App
            <4>2. QED
                BY <4>1, ScrewGunAssumption
        <3>2. uncounted' = uncounted - 1
            BY <2>3, <3>1 DEF OnReport, IInv, TypeOK
        <3>3. QED
            BY <1>2, <1>8, <2>3, <3>2 DEF Claimed, Low, ShowsOk
    <2>4. QED
        BY <1>6, <1>10, <2>1, <2>2, <2>3 DEF Outcome
<1>12. QED
    BY <1>9, <1>11

LEMMA AnswerTaken ==
    ASSUME IInv, NEW late \in BOOLEAN, OnReport(late), Head(reports).kind # "poll"
    PROVE  IInv' /\ Claimed
<1>1. PICK s \in Pairs : s = Window
    BY WindowType DEF IInv
<1>2. PICK kind : kind = Head(reports).kind
    OBVIOUS
<1>3. kind \in {"cleared", "bypass_on", "bypass_off"}
    <2>1. Head(reports) \in Report
        BY TailAt DEF IInv, TypeOK, OnReport
    <2>2. QED
        BY <1>2, <2>1 DEF Report
<1>4. PICK t : t = Answered(s, kind)
    OBVIOUS
<1>5. Does(t)
    BY <1>1, <1>2, <1>4 DEF OnReport, Does
<1>6. s.a = app /\ s.out = calls /\ t.a = app' /\ t.out = calls'
    BY <1>1, <1>5, WindowType DEF IInv, Does
<1>7. ASSUME t \in Pairs, Moves(s, t), app'.count = app.count,
             Blocked(app) => Blocked(app'), Known'
      PROVE  IInv' /\ Claimed
    <2>1. Plain(t) /\ states' = states
        BY <1>1, <1>5, <1>7, ReportTaken
    <2>2. uncounted' = uncounted
        BY <1>7, NotCounted DEF IInv
    <2>3. QED
        BY <1>7, <2>1, <2>2, PlainKeeps DEF IInv, Claimed
<1>8. app.running /\ reports # <<>> /\ reports' = Tail(reports)
    BY DEF OnReport, IInv, Idle
<1>9. CASE kind = "cleared"
    <2>1. t = [s EXCEPT !.a.waiting = TRUE]
        BY <1>4, <1>9 DEF Answered, WriteAnswered
    <2>2. Waits(s, t)
        BY <2>1, Awaiting
    <2>3. t \in Pairs /\ Acts(s, t) /\ Moves(s, t) /\ app'.count = app.count
          /\ (Blocked(app) => Blocked(app'))
        BY <1>6, <2>2 DEF Waits, Follows, Acts, Blocked, Screwing
    <2>4. Plain(t) /\ states' = states
        BY <1>1, <1>5, <2>3, ReportTaken
    <2>5. Known'
        BY <1>1, <1>2, <1>9, <2>3, <2>4, PlainKnown
    <2>6. QED
        BY <1>7, <2>3, <2>5
<1>10. CASE kind = "bypass_on"
    <2>1. t = [s EXCEPT !.a.lockState = "unlocked"]
        BY <1>4, <1>10 DEF Answered
    <2>2. t \in Pairs /\ Moves(s, t) /\ Still(s, t)
        BY <2>1, Forgets
    <2>3. app'.count = app.count /\ (Blocked(app) => Blocked(app'))
        BY <1>6, <2>2 DEF Still, Blocked, Screwing
    <2>4. Plain(t)
        BY <1>1, <1>5, <2>2, ReportTaken
    <2>5. Known'
        <3> SUFFICES ASSUME ~app'.degraded, NoneOf("bypass_off")'
                     PROVE  FALSE
            BY DEF Known
        <3>1. ~app.degraded
            BY <1>6, <2>2 DEF Moves
        <3>2. /\ Head(reports) = reports[1] /\ Len(reports) \in Nat \ {0}
              /\ Len(reports') = Len(reports) - 1
              /\ \A i \in 1..(Len(reports) - 1) : reports'[i] = reports[i + 1]
            BY <1>8, TailAt DEF IInv, TypeOK
        <3>3. \/ \E j \in (1 + 1)..Len(reports) : reports[j].kind = "bypass_off"
              \/ \E j \in 1..Len(calls) : calls[j] = "bypass_off"
            BY <1>2, <1>10, <3>1, <3>2 DEF IInv, BypassesEnd
        <3>4. CASE \E j \in (1 + 1)..Len(reports) : reports[j].kind = "bypass_off"
            <4>1. PICK j \in (1 + 1)..Len(reports) : reports[j].kind = "bypass_off"
                BY <3>4
            <4>2. j - 1 \in 1..Len(reports') /\ j - 1 \in 1..(Len(reports) - 1)
                  /\ j - 1 + 1 = j
                BY <3>2, <4>1
            <4>3. reports'[j - 1].kind = "bypass_off"
                BY <3>2, <4>1, <4>2
            <4>4. QED
                BY <4>2, <4>3 DEF NoneOf
        <3>5. CASE \E j \in 1..Len(calls) : calls[j] = "bypass_off"
            <4>1. PICK j \in 1..Len(calls) : calls[j] = "bypass_off"
                BY <3>5
            <4>2. j \in 1..Len(calls') /\ calls'[j] = "bypass_off"
                BY <2>4, <4>1, PlainCalls
            <4>3. QED
                BY <4>2 DEF NoneOf
        <3>6. QED
            BY <3>3, <3>4, <3>5
    <2>6. QED
        BY <1>7, <2>2, <2>3, <2>5
<1>11. CASE kind = "bypass_off"
    <2>1. PICK free : free = [s EXCEPT !.a.lockState = "none"]
        OBVIOUS
    <2>2. /\ free \in Pairs /\ Moves(s, free) /\ Still(s, free)
          /\ free.a.lockState = "none" /\ free.a.degraded = s.a.degraded
        BY <2>1, Forgets
    <2>3. t = IF s.a.degraded THEN free ELSE UnlockOrLock(ResetTrigger(free))
        BY <1>4, <1>11, <2>1 DEF Answered
    <2>4. /\ ResetTrigger(free) \in Pairs /\ Waits(free, ResetTrigger(free))
          /\ ResetTrigger(free).a = free.a
        BY <2>2, ResetTriggerActs, LockWaits
    <2>5. Waits(free, t)
        <3>1. Waits(free, UnlockOrLock(ResetTrigger(free)))
            BY <2>2, <2>4, LockWaits, WaitsTrans
        <3>2. QED
            BY <2>2, <2>3, <3>1, WaitsSelf
    <2>6. t \in Pairs /\ Moves(s, t)
        BY <2>2, <2>5, MovesTrans DEF Waits, Follows, Acts
    <2>7. app'.count = app.count /\ (Blocked(app) => Blocked(app'))
        BY <1>6, <2>2, <2>5 DEF Still, Waits, Follows, Blocked, Screwing
    <2>8. Plain(t)
        BY <1>1, <1>5, <2>6, ReportTaken
    <2>9. Known'
        <3> SUFFICES ASSUME ~app'.degraded
                     PROVE  Knows(Window, gun.locked)' /\ Held(app)'
            BY DEF Known
        <3>1. ~s.a.degraded
            BY <1>6, <2>6 DEF Moves
        <3>2. Knows(t, gun.locked)
            <4>1. Knows(free, gun.locked)
                BY <2>2 DEF Knows
            <4>2. gun.locked \in BOOLEAN
                BY DEF IInv, TypeOK, Gun
            <4>3. QED
                BY <2>5, <4>1, <4>2 DEF Waits, Follows, Acts
        <3>3. Held(t.a)
            <4> SUFFICES ASSUME t.a.ng PROVE t.a.lockState = "locked"
                BY DEF Held
            <4>1. free.a.ng /\ free.a.running
                BY <1>6, <1>8, <2>2, <2>5 DEF Still, Waits
            <4>2. t = UnlockOrLock(ResetTrigger(free))
                BY <2>3, <3>1
            <4>3. QED
                BY <2>4, <4>1, <4>2, UnlockOrLockActs
        <3>4. gun' = gun
            BY <2>8 DEF Plain
        <3>5. QED
            BY <1>6, <3>2, <3>3, <3>4 DEF Knows, Window
    <2>10. QED
        BY <1>7, <2>6, <2>7, <2>9
<1>12. QED
    BY <1>3, <1>9, <1>10, <1>11

LEMMA OnStateKeeps ==
    ASSUME IInv, OnState
    PROVE  /\ IInv'
           /\ Blocked(app) => Blocked(app')
<1>1. PICK s \in Pairs : s = Window
    BY WindowType DEF IInv
<1>2. PICK t : t = IF Head(states) = "connected" THEN Connected(s) ELSE Reconnecting(s)
    OBVIOUS
<1>3. Does(t)
    BY <1>1, <1>2 DEF OnState, Does
<1>4. s.a = app /\ s.out = calls /\ t.a = app' /\ t.out = calls'
    BY <1>1, <1>3, WindowType DEF IInv, Does
<1>5. /\ ~app.stopping /\ gun' = gun /\ worker' = worker /\ reports' = reports
      /\ uncounted' = uncounted /\ used' = used
      /\ states # <<>> /\ states' = Tail(states)
    BY DEF OnState
<1>6. /\ t \in Pairs /\ Moves(s, t) /\ (Blocked(app) => Blocked(app'))
      /\ Head(states) = "connected" /\ app'.running =>
            /\ t.a.lockState = "locked"
            /\ \A g \in BOOLEAN : Knows(t, g)
    <2>1. CASE Head(states) = "connected"
        <3> DEFINE b == [s.a EXCEPT !.lockState = "none", !.rearming = TRUE,
                                    !.waiting = TRUE, !.direction = "none",
                                    !.candidate = "none", !.reads = 0,
                                    !.reverseLock = FALSE]
        <3>1. PICK u : u = [s EXCEPT !.a = b]
            OBVIOUS
        <3>2. /\ b \in App /\ b.running = s.a.running /\ b.rearming
              /\ b.degraded = s.a.degraded /\ b.stopping = s.a.stopping
              /\ b.lockState = "none"
            <4>1. s.a \in App /\ 0 \in 0..StableReads
                BY PairType, ScrewGunAssumption
            <4>2. QED
                BY <4>1 DEF App
        <3>3. t = LockTool(ResetTrigger(u))
            BY <1>2, <2>1, <3>1 DEF Connected, Pairs
        <3> HIDE DEF b
        <3>4. u \in Pairs /\ u.a = b /\ u.out = s.out
            BY <3>1, <3>2, Made
        <3>5. /\ ResetTrigger(u) \in Pairs /\ Waits(u, ResetTrigger(u))
              /\ ResetTrigger(u).a = u.a
            BY <3>4, ResetTriggerActs, LockWaits
        <3>6. Waits(u, t) /\ (u.a.running => t.a.lockState = "locked")
            BY <3>3, <3>4, <3>5, LockToolActs, LockWaits, WaitsTrans
        <3>7. Moves(s, u)
            <4>1. Grows(s.out, u.out)
                BY <3>4, LenProperties DEF Grows, Pairs
            <4>2. QED
                BY <3>2, <3>4, <4>1 DEF Moves
        <3>8. t \in Pairs /\ Moves(s, t)
            BY <3>4, <3>6, <3>7, MovesTrans DEF Waits, Follows, Acts
        <3>9. Blocked(app) => Blocked(app')
            BY <1>4, <3>2, <3>4, <3>6 DEF Blocked, Waits
        <3>10. \A g \in BOOLEAN : Knows(t, g)
            <4>1. \A g \in BOOLEAN : Knows(u, g)
                BY <3>2, <3>4 DEF Knows
            <4>2. QED
                BY <3>6, <4>1 DEF Waits, Follows, Acts
        <3>11. app'.running => t.a.lockState = "locked"
            BY <1>4, <3>4, <3>6 DEF Waits
        <3>12. QED
            BY <3>8, <3>9, <3>10, <3>11
    <2>2. CASE Head(states) # "connected"
        <3>1. t = [s EXCEPT !.a.lockState = "none"]
            BY <1>2, <2>2 DEF Reconnecting
        <3>2. t \in Pairs /\ Moves(s, t) /\ Still(s, t)
            BY <3>1, Forgets
        <3>3. QED
            BY <1>4, <2>2, <3>2 DEF Still, Blocked, Screwing
    <2>3. QED
        BY <2>1, <2>2
<1>7. Plain(t)
    BY <1>1, <1>3, <1>5, <1>6 DEF Plain, Does, Taken, IInv, TypeOK
<1>8. Known'
    <2> SUFFICES ASSUME app'.running, worker'.linked, states' = <<>>
                 PROVE  Knows(Window, gun.locked)' /\ Held(app)'
        BY DEF Known
    <2>1. PICK rest \in Seq({"reconnecting", "connected"}) :
                /\ Len(states) \in Nat \ {0} /\ Len(rest) = Len(states) - 1
                /\ Head(states) = states[1] /\ rest = <<>>
        BY <1>5, TailAt DEF IInv, TypeOK
    <2>2. Len(states) = 1
        <3>1. Len(rest) = 0
            BY <2>1, EmptySeq
        <3>2. QED
            BY <2>1, <3>1
    <2>3. Head(states) = "connected"
        BY <1>5, <2>1, <2>2 DEF IInv, LastState
    <2>4. t.a.lockState = "locked" /\ Knows(t, gun.locked)
        BY <1>6, <2>3 DEF IInv, TypeOK, Gun
    <2>5. QED
        BY <1>4, <1>5, <2>4 DEF Knows, Held, Window
<1>9. TypeOK' /\ Idle' /\ Stops' /\ BypassesEnd' /\ LastState'
    BY <1>5, <1>7, PlainKeeps
<1>10. QED
    BY <1>6, <1>8, <1>9 DEF IInv

-----------------------------------------------------------------------------
(* The worker and the gun.                                                  *)

\* Signals of a connection, and a state after them, keep the last one true.
LEMMA LastOf ==
    ASSUME states \in Seq({"reconnecting", "connected"})
    PROVE  /\ states \o ConnectSignals \in Seq({"reconnecting", "connected"})
           /\ states \o ConnectSignals # <<>> =>
                 \/ worker.linked /\ states # <<>> /\ states \o ConnectSignals = states
                 \/ (states \o ConnectSignals)[Len(states \o ConnectSignals)] = "connected"
           /\ states \o ConnectSignals = <<>> => worker.linked /\ states = <<>>
<1>1. Len(states) \in Nat
    BY LenProperties
<1>2. CASE worker.linked
    <2>1. ConnectSignals = <<>>
        BY <1>2 DEF ConnectSignals
    <2>2. states \o ConnectSignals = states
        BY <2>1, ConcatEmptySeq
    <2>3. QED
        BY <1>2, <2>2
<1>3. CASE ~worker.linked
    <2> DEFINE two == <<"reconnecting", "connected">>
    <2>1. ConnectSignals = two
        BY <1>3 DEF ConnectSignals
    <2>2. two \in Seq({"reconnecting", "connected"}) /\ Len(two) = 2 /\ two[2] = "connected"
        OBVIOUS
    <2> HIDE DEF two
    <2>3. /\ states \o two \in Seq({"reconnecting", "connected"})
          /\ Len(states \o two) = Len(states) + 2
          /\ (states \o two)[Len(states) + 2] = two[2]
        <3>1. \A i \in 1..(Len(states) + Len(two)) :
                 (states \o two)[i] = IF i <= Len(states) THEN states[i]
                                      ELSE two[i - Len(states)]
            BY <2>2, ConcatProperties
        <3>2. /\ states \o two \in Seq({"reconnecting", "connected"})
              /\ Len(states \o two) = Len(states) + Len(two)
            BY <2>2, ConcatProperties
        <3>3. Len(states) + 2 \in 1..(Len(states) + Len(two))
              /\ ~(Len(states) + 2 <= Len(states)) /\ Len(states) + 2 - Len(states) = 2
            BY <1>1, <2>2
        <3>4. QED
            BY <2>2, <3>1, <3>2, <3>3
    <2>4. states \o two # <<>>
        BY <1>1, <2>3
    <2>5. QED
        BY <2>1, <2>2, <2>3, <2>4
<1>4. QED
    BY <1>2, <1>3

LEMMA StatesMore ==
    ASSUME NEW ss \in Seq({"reconnecting", "connected"})
    PROVE  /\ Append(ss, "reconnecting") \in Seq({"reconnecting", "connected"})
           /\ ss \o <<"reconnecting">> = Append(ss, "reconnecting")
BY AppendProperties, ConcatProperties

\* A poll goes on: the queues of calls and the window are left alone.
LEMMA PollTriggerKeeps ==
    ASSUME IInv, PollTrigger
    PROVE  IInv'
<1>1. /\ app' = app /\ calls' = calls /\ reports' = reports /\ gun' = gun
      /\ uncounted' = uncounted /\ used' = used /\ app.running
      /\ worker'.linked /\ worker' \in Worker /\ states' = states \o ConnectSignals
    BY DEF PollTrigger, Linked, IInv, TypeOK, Worker, Gun
<1>2. states \in Seq({"reconnecting", "connected"})
    BY DEF IInv, TypeOK
<1>3. TypeOK'
    BY <1>1, <1>2, LastOf DEF IInv, TypeOK
<1>4. Idle' /\ Stops' /\ BypassesEnd'
    BY <1>1 DEF IInv, Idle, Stops, BypassesEnd
<1>5. LastState'
    BY <1>1, <1>2, LastOf DEF IInv, LastState
<1>6. Known'
    <2> SUFFICES ASSUME ~app'.degraded, states' = <<>>, NoneOf("bypass_off")'
                 PROVE  Knows(Window, gun.locked)' /\ Held(app)'
        BY DEF Known
    <2>1. worker.linked /\ states = <<>> /\ NoneOf("bypass_off")
        BY <1>1, <1>2, LastOf DEF NoneOf
    <2>2. Knows(Window, gun.locked) /\ Held(app)
        BY <1>1, <2>1 DEF IInv, Known
    <2>3. QED
        BY <1>1, <2>2 DEF Knows, Window
<1>7. QED
    BY <1>3, <1>4, <1>5, <1>6 DEF IInv

LEMMA PollDirectionKeeps ==
    ASSUME IInv, PollDirection
    PROVE  IInv'
<1>1. /\ app' = app /\ calls' = calls /\ reports' = reports /\ gun' = gun /\ states' = states
      /\ uncounted' = uncounted /\ used' = used
      /\ worker'.linked = worker.linked /\ worker' \in Worker
      /\ worker.pc = "trigger"
    BY DEF PollDirection, IInv, TypeOK, Worker, Gun
<1>2. app.running
    BY <1>1 DEF IInv, Idle, Off
<1>3. TypeOK' /\ Idle' /\ Stops' /\ BypassesEnd' /\ LastState'
    BY <1>1, <1>2 DEF IInv, TypeOK, Idle, Stops, BypassesEnd, LastState
<1>4. Known'
    BY <1>1 DEF IInv, Known, NoneOf, Knows, Window
<1>5. QED
    BY <1>3, <1>4 DEF IInv

\* A report is added, and the worker's calls and state are left alone.
LEMMA ReportAdded ==
    ASSUME IInv, NEW e \in Report, reports' = Append(reports, e), e.kind = "poll",
           calls' = calls, app' = app
    PROVE  /\ reports' \in Seq(Report) /\ BypassesEnd'
           /\ NoneOf("bypass_off")' => NoneOf("bypass_off")
<1>1. /\ reports' \in Seq(Report) /\ Len(reports) \in Nat /\ Len(reports') = Len(reports) + 1
      /\ \A i \in 1..Len(reports) : reports'[i] = reports[i]
      /\ reports'[Len(reports) + 1] = e
    BY AppendAt DEF IInv, TypeOK
<1>2. BypassesEnd'
    <2> SUFFICES ASSUME ~app.degraded, NEW i \in 1..Len(reports'),
                        reports'[i].kind = "bypass_on"
                 PROVE  \/ \E j \in (i + 1)..Len(reports') : reports'[j].kind = "bypass_off"
                        \/ \E j \in 1..Len(calls) : calls[j] = "bypass_off"
        BY DEF IInv, BypassesEnd
    <2>1. i \in 1..Len(reports) /\ reports[i].kind = "bypass_on"
        BY <1>1
    <2>2. CASE \E j \in (i + 1)..Len(reports) : reports[j].kind = "bypass_off"
        <3>1. PICK j \in (i + 1)..Len(reports) : reports[j].kind = "bypass_off"
            BY <2>2
        <3>2. j \in 1..Len(reports) /\ j \in (i + 1)..Len(reports')
            BY <1>1, <2>1, <3>1
        <3>3. QED
            BY <1>1, <3>1, <3>2
    <2>3. QED
        BY <2>1, <2>2 DEF IInv, BypassesEnd
<1>3. ASSUME NoneOf("bypass_off")' PROVE NoneOf("bypass_off")
    BY <1>1, <1>3 DEF NoneOf
<1>4. QED
    BY <1>1, <1>2, <1>3

LEMMA PollStatusKeeps ==
    ASSUME IInv, PollStatus
    PROVE  IInv'
<1>1. PICK e : e = [kind |-> "poll", trigger |-> worker.trigger,
                    direction |-> worker.direction,
                    status |-> IF worker.trigger THEN gun.status ELSE "open"]
    OBVIOUS
<1>2. e \in Report /\ e.kind = "poll"
    <2>1. /\ worker.trigger \in BOOLEAN /\ worker.direction \in Direction
          /\ gun.status \in Status
        BY DEF IInv, TypeOK, Worker, Gun
    <2>2. (IF worker.trigger THEN gun.status ELSE "open") \in Status
        BY <2>1 DEF Status
    <2>3. QED
        BY <1>1, <2>1, <2>2 DEF Report
<1>3. /\ app' = app /\ calls' = calls /\ reports' = Append(reports, e) /\ gun' = gun
      /\ states' = states /\ uncounted' = uncounted /\ used' = used
      /\ worker'.linked = worker.linked /\ worker' \in Worker
      /\ worker.pc = "direction"
    BY <1>1 DEF PollStatus, IInv, TypeOK, Worker, Direction
<1>4. app.running
    BY <1>3 DEF IInv, Idle, Off
<1>5. /\ reports' \in Seq(Report) /\ BypassesEnd'
      /\ NoneOf("bypass_off")' => NoneOf("bypass_off")
    BY <1>2, <1>3, ReportAdded
<1>6. TypeOK' /\ Idle' /\ Stops' /\ LastState'
    BY <1>3, <1>4, <1>5 DEF IInv, TypeOK, Idle, Stops, LastState
<1>7. Known'
    <2> SUFFICES ASSUME app'.running, worker'.linked, ~app'.degraded, states' = <<>>,
                        NoneOf("bypass_off")'
                 PROVE  Knows(Window, gun.locked)' /\ Held(app)'
        BY DEF Known
    <2>1. Knows(Window, gun.locked) /\ Held(app)
        BY <1>3, <1>5 DEF IInv, Known
    <2>2. QED
        BY <1>3, <2>1 DEF Knows, Window
<1>8. QED
    BY <1>5, <1>6, <1>7 DEF IInv

LEMMA PollFailsKeeps ==
    ASSUME IInv, PollFails
    PROVE  IInv'
<1>1. /\ app' = app /\ calls' = calls /\ reports' = reports /\ gun' = gun
      /\ uncounted' = uncounted /\ app.running
      /\ ~worker'.linked /\ worker' \in Worker
      /\ states' = Append(states, "reconnecting")
    BY DEF PollFails, Unlinked, IInv, TypeOK, Worker, Direction
<1>2. used' \in 0..Disturbances
    BY Disturbed DEF PollFails, IInv
<1>3. TypeOK'
    BY <1>1, <1>2, StatesMore DEF IInv, TypeOK
<1>4. Idle' /\ Stops' /\ BypassesEnd' /\ LastState' /\ Known'
    BY <1>1 DEF IInv, Idle, Stops, BypassesEnd, LastState, Known
<1>5. QED
    BY <1>3, <1>4 DEF IInv

\* A call is taken: what the calls and the reports are then.
LEMMA CallTaken ==
    ASSUME IInv, NEW kinds, Takes(kinds), app' = app,
           \/ reports' = reports /\ Head(calls) # "bypass_off"
           \/ \E e \in Report :
                 /\ reports' = Append(reports, e)
                 /\ e.kind = "bypass_on" => Head(calls) = "bypass_on"
                 /\ Head(calls) = "bypass_off" => e.kind = "bypass_off"
    PROVE  /\ calls' \in Seq(Call) /\ reports' \in Seq(Report)
           /\ Head(calls) \in Call /\ Head(calls) \in kinds /\ calls # <<>>
           /\ Idle' /\ Stops' /\ BypassesEnd'
           /\ NoneOf("bypass_off")' => NoneOf("bypass_off")
           /\ Head(calls) = "bypass_on" /\ ~app.degraded => ~NoneOf("bypass_off")'
<1>1. /\ calls # <<>> /\ calls' = Tail(calls) /\ app.running /\ Head(calls) \in kinds
    BY DEF Takes
<1>2. /\ calls' \in Seq(Call) /\ Head(calls) = calls[1] /\ Head(calls) \in Call
      /\ Len(calls) \in Nat \ {0} /\ Len(calls') = Len(calls) - 1
      /\ \A i \in 1..(Len(calls) - 1) : calls'[i] = calls[i + 1]
    BY <1>1, TailAt DEF IInv, TypeOK
<1>3. /\ reports' \in Seq(Report) /\ Len(reports) \in Nat
      /\ \A i \in 1..Len(reports) : reports'[i] = reports[i]
      /\ \/ Len(reports') = Len(reports) /\ Head(calls) # "bypass_off"
         \/ /\ Len(reports') = Len(reports) + 1
            /\ reports'[Len(reports) + 1].kind = "bypass_on" => Head(calls) = "bypass_on"
            /\ Head(calls) = "bypass_off" => reports'[Len(reports) + 1].kind = "bypass_off"
    <2>1. Len(reports) \in Nat
        BY LenProperties DEF IInv, TypeOK
    <2>2. CASE reports' = reports /\ Head(calls) # "bypass_off"
        BY <2>1, <2>2 DEF IInv, TypeOK
    <2>3. CASE \E e \in Report :
                  /\ reports' = Append(reports, e)
                  /\ e.kind = "bypass_on" => Head(calls) = "bypass_on"
                  /\ Head(calls) = "bypass_off" => e.kind = "bypass_off"
        <3>1. PICK e \in Report :
                  /\ reports' = Append(reports, e)
                  /\ e.kind = "bypass_on" => Head(calls) = "bypass_on"
                  /\ Head(calls) = "bypass_off" => e.kind = "bypass_off"
            BY <2>3
        <3>2. /\ reports' \in Seq(Report) /\ Len(reports') = Len(reports) + 1
              /\ \A i \in 1..Len(reports) : reports'[i] = reports[i]
              /\ reports'[Len(reports) + 1] = e
            BY <3>1, AppendAt DEF IInv, TypeOK
        <3>3. QED
            BY <2>1, <3>1, <3>2
    <2>4. QED
        BY <2>2, <2>3
<1>4. Idle'
    BY <1>1 DEF Idle
<1>5. Stops'
    <2>1. ASSUME NEW i \in 1..Len(calls'), calls'[i] = "stop"
          PROVE  i = Len(calls') /\ app.stopping
        <3>1. i + 1 \in 1..Len(calls) /\ calls[i + 1] = "stop"
            BY <1>2, <2>1
        <3>2. i + 1 = Len(calls) /\ app.stopping
            BY <3>1 DEF IInv, Stops
        <3>3. QED
            BY <1>2, <2>1, <3>2
    <2>2. QED
        BY <2>1 DEF IInv, Stops
<1>6. ASSUME NEW j \in 2..Len(calls), calls[j] = "bypass_off"
      PROVE  /\ j - 1 \in 1..Len(calls') /\ calls'[j - 1] = "bypass_off"
    <2>1. j - 1 \in 1..(Len(calls) - 1) /\ j - 1 + 1 = j
        BY <1>2, <1>6
    <2>2. calls'[j - 1] = calls[j - 1 + 1]
        BY <1>2, <2>1
    <2>3. QED
        BY <1>2, <1>6, <2>1, <2>2
<1>7. ASSUME ~app.degraded, Head(calls) = "bypass_on"
      PROVE  \E j \in 1..Len(calls') : calls'[j] = "bypass_off"
    <2>1. 1 \in 1..Len(calls) /\ calls[1] = "bypass_on"
        BY <1>2, <1>7
    <2>2. PICK j \in (1 + 1)..Len(calls) : calls[j] = "bypass_off"
        BY <1>7, <2>1 DEF IInv, BypassesEnd
    <2>3. j \in 2..Len(calls)
        BY <2>2
    <2>4. QED
        BY <1>6, <2>2, <2>3
<1>8. BypassesEnd'
    <2> SUFFICES ASSUME ~app.degraded
                 PROVE  /\ \A i \in 1..Len(calls') :
                              calls'[i] = "bypass_on" =>
                                 \E j \in (i + 1)..Len(calls') : calls'[j] = "bypass_off"
                        /\ \A i \in 1..Len(reports') :
                              reports'[i].kind = "bypass_on" =>
                                 \/ \E j \in (i + 1)..Len(reports') :
                                       reports'[j].kind = "bypass_off"
                                 \/ \E j \in 1..Len(calls') : calls'[j] = "bypass_off"
        BY DEF BypassesEnd
    <2>1. ASSUME NEW i \in 1..Len(calls'), calls'[i] = "bypass_on"
          PROVE  \E j \in (i + 1)..Len(calls') : calls'[j] = "bypass_off"
        <3>1. i + 1 \in 1..Len(calls) /\ calls[i + 1] = "bypass_on"
            BY <1>2, <2>1
        <3>2. PICK j \in (i + 1 + 1)..Len(calls) : calls[j] = "bypass_off"
            BY <3>1 DEF IInv, BypassesEnd
        <3>3. j \in 2..Len(calls) /\ j - 1 \in (i + 1)..Len(calls')
            BY <1>2, <2>1, <3>2
        <3>4. QED
            BY <1>6, <3>2, <3>3
    <2>2. ASSUME NEW i \in 1..Len(reports'), reports'[i].kind = "bypass_on"
          PROVE  \/ \E j \in (i + 1)..Len(reports') : reports'[j].kind = "bypass_off"
                 \/ \E j \in 1..Len(calls') : calls'[j] = "bypass_off"
        <3>1. CASE i \in 1..Len(reports)
            <4>1. reports[i].kind = "bypass_on"
                BY <1>3, <2>2, <3>1
            <4>2. \/ \E j \in (i + 1)..Len(reports) : reports[j].kind = "bypass_off"
                  \/ \E j \in 1..Len(calls) : calls[j] = "bypass_off"
                BY <3>1, <4>1 DEF IInv, BypassesEnd
            <4>3. CASE \E j \in (i + 1)..Len(reports) : reports[j].kind = "bypass_off"
                <5>1. PICK j \in (i + 1)..Len(reports) : reports[j].kind = "bypass_off"
                    BY <4>3
                <5>2. j \in 1..Len(reports) /\ j \in (i + 1)..Len(reports')
                    BY <1>3, <3>1, <5>1
                <5>3. QED
                    BY <1>3, <5>1, <5>2
            <4>4. CASE \E j \in 1..Len(calls) : calls[j] = "bypass_off"
                <5>1. PICK j \in 1..Len(calls) : calls[j] = "bypass_off"
                    BY <4>4
                <5>2. CASE j = 1
                    <6>1. Head(calls) = "bypass_off"
                        BY <1>2, <5>1, <5>2
                    <6>2. /\ Len(reports) + 1 \in (i + 1)..Len(reports')
                          /\ reports'[Len(reports) + 1].kind = "bypass_off"
                        BY <1>3, <3>1, <6>1
                    <6>3. QED
                        BY <6>2
                <5>3. CASE j # 1
                    <6>1. j \in 2..Len(calls)
                        BY <5>1, <5>3
                    <6>2. QED
                        BY <1>6, <5>1, <6>1
                <5>4. QED
                    BY <5>2, <5>3
            <4>5. QED
                BY <4>2, <4>3, <4>4
        <3>2. CASE i \notin 1..Len(reports)
            <4>1. i = Len(reports) + 1 /\ Len(reports') = Len(reports) + 1
                BY <1>3, <2>2, <3>2
            <4>2. Head(calls) = "bypass_on"
                BY <1>3, <2>2, <4>1
            <4>3. QED
                BY <1>7, <4>2
        <3>3. QED
            BY <3>1, <3>2
    <2>3. QED
        BY <2>1, <2>2
<1>9. ASSUME NoneOf("bypass_off")' PROVE NoneOf("bypass_off")
    <2>1. ASSUME NEW i \in 1..Len(calls) PROVE calls[i] # "bypass_off"
        <3>1. CASE i = 1
            <4>1. CASE Head(calls) = "bypass_off"
                <5>1. Len(reports) + 1 \in 1..Len(reports')
                      /\ reports'[Len(reports) + 1].kind = "bypass_off"
                    BY <1>3, <4>1
                <5>2. QED
                    BY <1>9, <5>1 DEF NoneOf
            <4>2. QED
                BY <1>2, <3>1, <4>1
        <3>2. CASE i # 1
            <4>1. i \in 2..Len(calls)
                BY <2>1, <3>2
            <4>2. QED
                BY <1>6, <1>9, <4>1 DEF NoneOf
        <3>3. QED
            BY <3>1, <3>2
    <2>2. ASSUME NEW i \in 1..Len(reports) PROVE reports[i].kind # "bypass_off"
        <3>1. i \in 1..Len(reports') /\ reports'[i] = reports[i]
            BY <1>3, <2>2
        <3>2. QED
            BY <1>9, <3>1 DEF NoneOf
    <2>3. QED
        BY <2>1, <2>2 DEF NoneOf
<1>10. QED
    BY <1>1, <1>2, <1>3, <1>4, <1>5, <1>7, <1>8, <1>9 DEF NoneOf

LEMMA WriteReports ==
    ASSUME IInv, calls # <<>>, Head(calls) \in {"clear", "lock", "unlock"},
           reports' = reports \o WriteReport
    PROVE  \/ reports' = reports /\ Head(calls) # "bypass_off"
           \/ \E e \in Report :
                 /\ reports' = Append(reports, e)
                 /\ e.kind = "bypass_on" => Head(calls) = "bypass_on"
                 /\ Head(calls) = "bypass_off" => e.kind = "bypass_off"
<1>1. reports \in Seq(Report)
    BY DEF IInv, TypeOK
<1>2. CASE Head(calls) = "clear"
    <2>1. PICK e : e = [kind |-> "cleared"]
        OBVIOUS
    <2>2. e \in Report /\ e.kind = "cleared"
        BY <2>1 DEF Report
    <2>3. reports' = reports \o <<e>>
        BY <1>2, <2>1 DEF WriteReport
    <2>4. reports \o <<e>> = Append(reports, e)
        BY <1>1, <2>2, AppendIsConcat
    <2>5. QED
        BY <1>2, <2>2, <2>3, <2>4
<1>3. CASE Head(calls) # "clear"
    BY <1>1, <1>3, ConcatEmptySeq DEF WriteReport
<1>4. QED
    BY <1>2, <1>3

LEMMA WrittenType ==
    ASSUME gun \in Gun, NEW call \in {"clear", "lock", "unlock", "bypass_on"}
    PROVE  /\ Written(call) \in Gun
           /\ call = "clear" => Written(call).locked = gun.locked
           /\ call # "clear" => (Written(call).locked <=> call = "lock")
           /\ Written(call).status = gun.status
           /\ Written(call).trigger => gun.trigger
BY DEF Written, Gun

LEMMA WriteKeeps ==
    ASSUME IInv, Write
    PROVE  IInv'
<1>1. /\ Takes({"clear", "lock", "unlock"}) /\ app' = app /\ gun' = Written(Head(calls))
      /\ reports' = reports \o WriteReport /\ uncounted' = uncounted /\ used' = used
      /\ calls' = Tail(calls)
      /\ worker' = Linked /\ states' = states \o ConnectSignals
    BY DEF Write, Takes
<1>2. calls # <<>> /\ Head(calls) \in {"clear", "lock", "unlock"}
    BY <1>1 DEF Takes
<1>3. /\ calls' \in Seq(Call) /\ reports' \in Seq(Report)
      /\ Idle' /\ Stops' /\ BypassesEnd'
      /\ NoneOf("bypass_off")' => NoneOf("bypass_off")
    BY <1>1, <1>2, WriteReports, CallTaken
<1>4. states \in Seq({"reconnecting", "connected"}) /\ gun \in Gun
    BY DEF IInv, TypeOK
<1>5. /\ gun' \in Gun
      /\ Head(calls) = "clear" => gun'.locked = gun.locked
      /\ Head(calls) # "clear" => (gun'.locked <=> Head(calls) = "lock")
    BY <1>1, <1>2, <1>4, WrittenType
<1>6. worker' \in Worker /\ worker'.linked
    BY <1>1 DEF Linked, IInv, TypeOK, Worker
<1>7. TypeOK'
    BY <1>1, <1>3, <1>4, <1>5, <1>6, LastOf DEF IInv, TypeOK
<1>8. LastState'
    BY <1>1, <1>4, LastOf DEF IInv, LastState
<1>9. Known'
    <2> SUFFICES ASSUME app'.running, ~app'.degraded, states' = <<>>, NoneOf("bypass_off")'
                 PROVE  Knows(Window, gun.locked)' /\ Held(app)'
        BY DEF Known
    <2>1. worker.linked /\ states = <<>> /\ NoneOf("bypass_off")
        BY <1>1, <1>3, <1>4, LastOf
    <2>2. Knows(Window, gun.locked) /\ Held(app)
        BY <1>1, <2>1 DEF IInv, Known
    <2>3. ASSUME app.lockState # "none"
          PROVE  WillBe(calls', gun'.locked, app.lockState = "locked")
        <3>1. WillBe(calls, gun.locked, app.lockState = "locked")
            BY <2>2, <2>3 DEF Knows, Window
        <3>2. calls \in Seq(Call) /\ (app.lockState = "locked") \in BOOLEAN
              /\ gun.locked \in BOOLEAN /\ gun'.locked \in BOOLEAN
            BY <1>5 DEF IInv, TypeOK, Gun
        <3>3. PICK l \in BOOLEAN : l = (app.lockState = "locked")
            BY <3>2
        <3>4. PICK h \in BOOLEAN : h = gun'.locked
            BY <3>2
        <3>5. WillBe(Tail(calls), h, l)
            BY <1>2, <1>5, <3>1, <3>2, <3>3, <3>4, TailWillBe
        <3>6. QED
            BY <1>1, <3>3, <3>4, <3>5
    <2>4. QED
        BY <1>1, <2>2, <2>3 DEF Knows, Window
<1>10. QED
    BY <1>3, <1>7, <1>8, <1>9 DEF IInv

\* The link is lost with the call: nothing is known of the lock.
LEMMA WriteFailsKeeps ==
    ASSUME IInv, WriteFails
    PROVE  IInv'
<1>1. /\ Takes({"clear", "lock", "unlock"}) /\ app' = app
      /\ gun' \in {gun, Written(Head(calls))}
      /\ reports' = reports \o WriteReport /\ uncounted' = uncounted
      /\ worker' = Unlinked
      /\ states' = states \o ConnectSignals \o <<"reconnecting">>
    BY DEF WriteFails
<1>2. calls # <<>> /\ Head(calls) \in {"clear", "lock", "unlock"}
    BY <1>1 DEF Takes
<1>3. /\ calls' \in Seq(Call) /\ reports' \in Seq(Report)
      /\ Idle' /\ Stops' /\ BypassesEnd'
    BY <1>1, <1>2, WriteReports, CallTaken
<1>4. states \in Seq({"reconnecting", "connected"}) /\ gun \in Gun
    BY DEF IInv, TypeOK
<1>5. gun' \in Gun
    BY <1>1, <1>2, <1>4, WrittenType
<1>6. worker' \in Worker /\ ~worker'.linked
    BY <1>1 DEF Unlinked, IInv, TypeOK, Worker
<1>7. states' \in Seq({"reconnecting", "connected"})
    <2>1. states \o ConnectSignals \in Seq({"reconnecting", "connected"})
        BY <1>4, LastOf
    <2>2. QED
        BY <1>1, <2>1, StatesMore
<1>8. used' \in 0..Disturbances
    BY Disturbed DEF WriteFails, IInv
<1>9. TypeOK'
    BY <1>1, <1>3, <1>5, <1>6, <1>7, <1>8 DEF IInv, TypeOK
<1>10. LastState' /\ Known'
    BY <1>6 DEF LastState, Known
<1>11. QED
    BY <1>3, <1>9, <1>10 DEF IInv

LEMMA WriteDroppedKeeps ==
    ASSUME IInv, WriteDropped
    PROVE  IInv'
<1>1. /\ Takes({"clear", "lock", "unlock"}) /\ app' = app /\ gun' = gun /\ states' = states
      /\ reports' = reports \o WriteReport /\ uncounted' = uncounted /\ used' = used
      /\ worker' = worker /\ ~worker.linked
    BY DEF WriteDropped
<1>2. calls # <<>> /\ Head(calls) \in {"clear", "lock", "unlock"}
    BY <1>1 DEF Takes
<1>3. /\ calls' \in Seq(Call) /\ reports' \in Seq(Report)
      /\ Idle' /\ Stops' /\ BypassesEnd'
    BY <1>1, <1>2, WriteReports, CallTaken
<1>4. TypeOK' /\ LastState' /\ Known'
    BY <1>1, <1>3 DEF IInv, TypeOK, LastState, Known
<1>5. QED
    BY <1>3, <1>4 DEF IInv

LEMMA BypassOnKeeps ==
    ASSUME IInv, BypassOn
    PROVE  IInv'
<1>1. /\ Takes({"bypass_on"}) /\ app' = app /\ uncounted' = uncounted /\ used' = used
    BY DEF BypassOn
<1>2. Head(calls) = "bypass_on" /\ calls # <<>>
    BY <1>1 DEF Takes
<1>3. states \in Seq({"reconnecting", "connected"}) /\ gun \in Gun /\ worker \in Worker
      /\ reports \in Seq(Report)
    BY DEF IInv, TypeOK
<1>4. /\ states \o ConnectSignals \in Seq({"reconnecting", "connected"})
      /\ Append(states, "reconnecting") \in Seq({"reconnecting", "connected"})
      /\ Written("bypass_on") \in Gun
    BY <1>3, LastOf, StatesMore, WrittenType
<1>5. CASE /\ gun' = Written("bypass_on")
           /\ worker' = [Linked EXCEPT !.bypass = TRUE]
           /\ states' = states \o ConnectSignals
           /\ reports' = Append(reports, [kind |-> "bypass_on"])
    <2>1. PICK e : e = [kind |-> "bypass_on"]
        OBVIOUS
    <2>2. e \in Report /\ reports' = Append(reports, e) /\ e.kind = "bypass_on"
        BY <1>5, <2>1 DEF Report
    <2>3. /\ calls' \in Seq(Call) /\ reports' \in Seq(Report)
          /\ Idle' /\ Stops' /\ BypassesEnd'
          /\ ~app.degraded => ~NoneOf("bypass_off")'
        BY <1>1, <1>2, <2>2, CallTaken
    <2>4. worker' \in Worker /\ worker'.linked
        BY <1>3, <1>5 DEF Linked, Worker
    <2>5. TypeOK'
        BY <1>1, <1>4, <1>5, <2>3, <2>4 DEF IInv, TypeOK
    <2>6. LastState'
        BY <1>3, <1>5, LastOf DEF IInv, LastState
    <2>7. Known'
        BY <1>1, <2>3 DEF Known
    <2>8. QED
        BY <2>3, <2>5, <2>6, <2>7 DEF IInv
<1>6. CASE /\ gun' \in {gun, Written("bypass_on")} /\ reports' = reports
           /\ worker' \in {[worker EXCEPT !.bypass = TRUE, !.linked = FALSE,
                                          !.failed = FALSE],
                           [Unlinked EXCEPT !.bypass = TRUE]}
           /\ states' \in {states \o ConnectSignals, Append(states, "reconnecting"), states}
    <2>1. /\ calls' \in Seq(Call) /\ Idle' /\ Stops' /\ BypassesEnd'
        BY <1>1, <1>2, <1>6, CallTaken
    <2>2. worker' \in Worker /\ ~worker'.linked
        BY <1>3, <1>6 DEF Unlinked, Worker
    <2>3. TypeOK'
        BY <1>1, <1>3, <1>4, <1>6, <2>1, <2>2 DEF IInv, TypeOK
    <2>4. LastState' /\ Known'
        BY <2>2 DEF LastState, Known
    <2>5. QED
        BY <2>1, <2>3, <2>4 DEF IInv
<1>7. QED
    BY <1>5, <1>6 DEF BypassOn

LEMMA BypassOffKeeps ==
    ASSUME IInv, BypassOff
    PROVE  IInv'
<1>1. PICK e : e = [kind |-> "bypass_off"]
    OBVIOUS
<1>2. /\ Takes({"bypass_off"}) /\ app' = app /\ gun' = gun /\ states' = states
      /\ reports' = Append(reports, e) /\ uncounted' = uncounted /\ used' = used
      /\ worker' = [worker EXCEPT !.bypass = FALSE]
    BY <1>1 DEF BypassOff
<1>3. e \in Report /\ e.kind = "bypass_off"
    BY <1>1 DEF Report
<1>4. /\ calls' \in Seq(Call) /\ reports' \in Seq(Report)
      /\ Idle' /\ Stops' /\ BypassesEnd'
    BY <1>2, <1>3, CallTaken
<1>5. worker' \in Worker /\ worker'.linked = worker.linked
    BY <1>2 DEF IInv, TypeOK, Worker
<1>6. TypeOK' /\ LastState'
    BY <1>2, <1>4, <1>5 DEF IInv, TypeOK, LastState
<1>7. Known'
    <2>1. /\ Len(reports) \in Nat /\ Len(reports') = Len(reports) + 1
          /\ reports'[Len(reports) + 1] = e
        BY <1>2, <1>3, AppendAt DEF IInv, TypeOK
    <2>2. Len(reports) + 1 \in 1..Len(reports')
        BY <2>1
    <2>3. ~NoneOf("bypass_off")'
        BY <1>3, <2>1, <2>2 DEF NoneOf
    <2>4. QED
        BY <2>3 DEF Known
<1>8. QED
    BY <1>4, <1>6, <1>7 DEF IInv

LEMMA StopKeeps ==
    ASSUME IInv, Stop
    PROVE  IInv'
<1>1. /\ Takes({"stop"}) /\ app' = CleanedUp(app) /\ worker' = Off /\ reports' = <<>>
      /\ uncounted' = (IF gun.trigger /\ uncounted < 1 THEN 1 ELSE uncounted)
      /\ gun' = gun /\ states' = states /\ used' = used
    BY DEF Stop
<1>2. calls # <<>> /\ Head(calls) = "stop" /\ calls' = Tail(calls)
    BY <1>1 DEF Takes
<1>3. /\ calls' \in Seq(Call) /\ Head(calls) = calls[1]
      /\ Len(calls) \in Nat \ {0} /\ Len(calls') = Len(calls) - 1
    BY <1>2, TailAt DEF IInv, TypeOK
<1>4. Len(calls) = 1
    <2>1. 1 \in 1..Len(calls) /\ calls[1] = "stop"
        BY <1>2, <1>3
    <2>2. QED
        BY <2>1 DEF IInv, Stops
<1>5. calls' = <<>>
    <2>1. Len(calls') = 0
        BY <1>3, <1>4
    <2>2. QED
        BY <1>3, <2>1, EmptySeq
<1>6. app' \in App /\ ~app'.running /\ ~app'.stopping
    <2>1. 0 \in 0..StableReads
        BY ScrewGunAssumption
    <2>2. QED
        BY <1>1, <2>1 DEF CleanedUp, IInv, TypeOK, App
<1>7. worker' \in Worker /\ ~worker'.linked
    BY <1>1 DEF Off, Worker, Direction
<1>8. TypeOK'
    BY <1>1, <1>3, <1>6, <1>7 DEF IInv, TypeOK
<1>9. Len(calls') = 0 /\ Len(reports') = 0
    BY <1>1, <1>5
<1>10. Idle' /\ Stops' /\ BypassesEnd' /\ LastState' /\ Known'
    BY <1>1, <1>5, <1>6, <1>7, <1>9 DEF Idle, Stops, BypassesEnd, LastState, Known
<1>11. QED
    BY <1>8, <1>10 DEF IInv

LEMMA GunStepKeeps ==
    ASSUME IInv, GunStep
    PROVE  IInv'
<1>1. /\ app' = app /\ calls' = calls /\ reports' = reports /\ states' = states
      /\ worker' = worker
    BY DEF GunStep, Begin, End, TurnLever, Loosen
<1>2. gun' \in Gun /\ gun'.locked = gun.locked
    <2>1. gun \in Gun
        BY DEF IInv, TypeOK
    <2>2. CASE Begin
        <3>1. PICK raised \in Raises, d \in Shows :
                gun' = [gun EXCEPT !.status = "open", !.direction = d,
                                   !.trigger = @ \/ raised,
                                   !.cycle = IF raised THEN "raised" ELSE "unraised"]
            BY <2>2 DEF Begin
        <3>2. raised \in BOOLEAN /\ d \in Direction /\ gun.trigger \in BOOLEAN
            BY <2>1, ScrewGunAssumption DEF Direction, Gun
        <3> DEFINE o == gun.trigger \/ raised
        <3>3. o \in BOOLEAN
            BY <3>2
        <3>4. gun' = [gun EXCEPT !.status = "open", !.direction = d, !.trigger = o,
                                 !.cycle = IF raised THEN "raised" ELSE "unraised"]
            BY <2>1, <3>1 DEF Gun
        <3> HIDE DEF o
        <3>5. QED
            BY <2>1, <3>2, <3>3, <3>4 DEF Gun, Status
    <2>3. CASE End
        <3>1. PICK result \in Final :
                gun' = [gun EXCEPT !.status = result, !.direction = "forward",
                                   !.cycle = "none",
                                   !.trigger = @ \/ gun.cycle = "unraised"]
            BY <2>3 DEF End
        <3> DEFINE o == gun.trigger \/ gun.cycle = "unraised"
        <3>2. o \in BOOLEAN
            BY <2>1 DEF Gun
        <3>3. gun' = [gun EXCEPT !.status = result, !.direction = "forward",
                                 !.cycle = "none", !.trigger = o]
            BY <2>1, <3>1 DEF Gun
        <3> HIDE DEF o
        <3>4. QED
            BY <2>1, <3>2, <3>3 DEF Gun, Status, Direction
    <2>4. CASE TurnLever \/ Loosen
        BY <2>1, <2>4 DEF TurnLever, Loosen, Gun, Status, Direction
    <2>5. QED
        BY <2>2, <2>3, <2>4 DEF GunStep
<1>3. uncounted' \in Int
    <2>1. uncounted \in Int
        BY DEF IInv, TypeOK
    <2>2. CASE End
        <3>1. PICK result \in Final :
                uncounted' = uncounted + (IF result = "ok" THEN 1 ELSE 0)
            BY <2>2 DEF End
        <3>2. QED
            BY <2>1, <3>1
    <2>3. CASE Begin \/ TurnLever \/ Loosen
        BY <2>1, <2>3 DEF Begin, TurnLever, Loosen
    <2>4. QED
        BY <2>2, <2>3 DEF GunStep
<1>4. used' \in 0..Disturbances
    BY Disturbed DEF GunStep, Begin, End, TurnLever, Loosen, IInv, TypeOK
<1>5. TypeOK' /\ Idle' /\ Stops' /\ BypassesEnd' /\ LastState'
    BY <1>1, <1>2, <1>3, <1>4 DEF IInv, TypeOK, Idle, Stops, BypassesEnd, LastState
<1>6. Known'
    BY <1>1, <1>2 DEF IInv, Known, NoneOf, Knows, Window
<1>7. QED
    BY <1>5, <1>6 DEF IInv

LEMMA InitKeeps ==
    ASSUME Init
    PROVE  IInv
<1>1. calls = <<"lock">> /\ reports = <<>> /\ states = <<>>
    BY DEF Init
<1>2. Len(calls) = 1 /\ calls[1] = "lock" /\ Len(reports) = 0
    BY <1>1
<1>3. calls \in Seq(Call) /\ reports \in Seq(Report)
      /\ states \in Seq({"reconnecting", "connected"})
    BY <1>1 DEF Call
<1>4. app \in App
    <2> DEFINE z == [i \in DOMAIN Steps |-> 0]
    <2>1. 1 \in DOMAIN Steps /\ z \in [DOMAIN Steps -> 0..Required]
          /\ 0 \in 0..StableReads
        BY ScrewGunAssumption
    <2>2. app = [running |-> TRUE, stopping |-> FALSE, degraded |-> FALSE,
                 waiting |-> FALSE, pending |-> FALSE, rearming |-> FALSE, ng |-> FALSE,
                 reverseLock |-> FALSE, lockState |-> "locked", direction |-> "none",
                 candidate |-> "none", reads |-> 0, step |-> 1, count |-> z, due |-> {}]
        BY DEF Init
    <2> HIDE DEF z
    <2>3. QED
        BY <2>1, <2>2 DEF App
<1>5. TypeOK
    BY <1>3, <1>4, ScrewGunAssumption
       DEF Init, TypeOK, Gun, Worker, Off, Status, Final, Direction
<1>6. Idle /\ Stops /\ BypassesEnd /\ LastState /\ Known
    BY <1>2 DEF Init, Off, Idle, Stops, BypassesEnd, LastState, Known
<1>7. QED
    BY <1>5, <1>6 DEF IInv

LEMMA StutterKeeps ==
    ASSUME IInv, UNCHANGED vars
    PROVE  IInv'
BY DEF vars, IInv, TypeOK, Idle, Stops, BypassesEnd, LastState, Known, NoneOf, Knows, Held,
       Window

LEMMA StepKeeps ==
    ASSUME IInv, [Next]_vars
    PROVE  IInv'
<1>1. CASE WindowStep
    <2>1. CASE \E late \in BOOLEAN : OnReport(late)
        <3>1. PICK late \in BOOLEAN : OnReport(late)
            BY <2>1
        <3>2. QED
            BY <3>1, PollTaken, AnswerTaken
    <2>2. CASE Scan \/ Finish \/ ManualOk \/ AdminUnlock \/ PromptDue \/ Reset
        <3>1. Steady
            BY <2>2, ScanSteady, FinishSteady, ManualOkSteady, AdminUnlockSteady,
               PromptSteady, ResetSteady DEF IInv
        <3>2. QED
            BY <3>1, SteadyKeeps
    <2>3. QED
        BY <1>1, <2>1, <2>2, OnStateKeeps, DegradedOnKeeps, DegradedOffKeeps
           DEF WindowStep
<1>2. CASE WorkerStep
    BY <1>2, PollTriggerKeeps, PollDirectionKeeps, PollStatusKeeps, PollFailsKeeps,
       WriteKeeps, WriteFailsKeeps, WriteDroppedKeeps, BypassOnKeeps, BypassOffKeeps,
       StopKeeps
       DEF WorkerStep
<1>3. CASE GunStep
    BY <1>3, GunStepKeeps
<1>4. CASE UNCHANGED vars
    BY <1>4, StutterKeeps
<1>5. QED
    BY <1>1, <1>2, <1>3, <1>4 DEF Next

THEOREM Invariant == Spec => []IInv
<1>1. Init => IInv
    BY InitKeeps
<1>2. IInv /\ [Next]_vars => IInv'
    BY StepKeeps
<1>3. QED
    BY <1>1, <1>2, PTL DEF Spec

\* The types of the gun, of the worker, of the window and of their queues.
THEOREM TypeCorrect == Spec => []TypeOK
<1>1. IInv => TypeOK
    BY DEF IInv
<1>2. QED
    BY <1>1, Invariant, PTL

\* However polls, writes, losses of the link, degraded work and NGs interleave, once
\* nothing is under way the lock the window remembers is the lock of the gun, and an NG
\* keeps the gun locked.
THEOREM WindowKnowsLock == Spec => []LockIsKnown
<1>1. IInv => LockIsKnown
    <2> SUFFICES ASSUME IInv, Settled
                 PROVE  /\ app.lockState # "none" => (app.lockState = "locked" <=> gun.locked)
                        /\ app.ng => gun.locked
        BY DEF LockIsKnown
    <2>1. Len(calls) = 0
        BY DEF Settled
    <2>2. NoneOf("bypass_off")
        BY <2>1 DEF Settled, NoneOf
    <2>3. Knows(Window, gun.locked) /\ Held(app)
        BY <2>2 DEF IInv, Known, Settled
    <2>4. ASSUME app.lockState # "none"
          PROVE  gun.locked <=> app.lockState = "locked"
        <3>1. WillBe(calls, gun.locked, app.lockState = "locked")
            BY <2>3, <2>4 DEF Knows, Window
        <3>2. QED
            BY <2>1, <3>1 DEF WillBe
    <2>5. app.ng => gun.locked
        BY <2>3, <2>4 DEF Held
    <2>6. QED
        BY <2>4, <2>5
<1>2. QED
    BY <1>1, Invariant, PTL

-----------------------------------------------------------------------------
(* What is owed to the product.                                             *)

LEMMA OwedIs ==
    ASSUME NEW rs \in Seq(Report), NEW b, NEW s \in BOOLEAN, NEW l \in BOOLEAN
    PROVE  /\ Owed(rs, b, s, l) \in Nat
           /\ Cardinality(Claims(rs, b, TRUE)) \in Nat
           /\ Cardinality(Claims(rs, b, FALSE)) \in Nat
           /\ Owed(rs, b, s, l) = IF ~s THEN Cardinality(Claims(rs, b, FALSE))
                                  ELSE IF ~l THEN Cardinality(Claims(rs, b, TRUE))
                                  ELSE Cardinality(Claims(rs, b, FALSE)) + 1
<1> DEFINE T == Cardinality(Claims(rs, b, TRUE))
           F == Cardinality(Claims(rs, b, FALSE))
           o == Owed(rs, b, s, l)
<1>1. T \in Nat /\ F \in Nat
    BY ClaimsFinite
<1>2. One(FALSE) = 0 /\ One(TRUE) = 1
    BY DEF One
<1>3. ~s => o = F + 0
    <2>1. ASSUME ~s
          PROVE  (s /\ ~l) = FALSE /\ (s /\ l) = FALSE
        BY <2>1
    <2>2. QED
        BY <1>2, <2>1 DEF Owed
<1>4. s /\ ~l => o = T + 0
    <2>1. ASSUME s, ~l
          PROVE  (s /\ ~l) = TRUE /\ (s /\ l) = FALSE
        BY <2>1
    <2>2. QED
        BY <1>2, <2>1 DEF Owed
<1>5. s /\ l => o = F + 1
    <2>1. ASSUME s, l
          PROVE  (s /\ ~l) = FALSE /\ (s /\ l) = TRUE
        BY <2>1
    <2>2. QED
        BY <1>2, <2>1 DEF Owed
<1> HIDE DEF T, F, o
<1>6. o \in Nat /\ o = IF ~s THEN F ELSE IF ~l THEN T ELSE F + 1
    BY <1>1, <1>3, <1>4, <1>5
<1>7. QED
    BY <1>1, <1>6 DEF T, F, o

\* A window that is blocked, or a gun that shows no OK, is owed no more.
LEMMA OwedMono ==
    ASSUME NEW rs \in Seq(Report), NEW b, NEW c, b => c,
           NEW s \in BOOLEAN, NEW u \in BOOLEAN, u => s, NEW l \in BOOLEAN
    PROVE  Owed(rs, c, u, l) <= Owed(rs, b, s, l)
<1> DEFINE bt == Cardinality(Claims(rs, b, TRUE))
           bf == Cardinality(Claims(rs, b, FALSE))
           ct == Cardinality(Claims(rs, c, TRUE))
           cf == Cardinality(Claims(rs, c, FALSE))
           old == Owed(rs, b, s, l)
           new == Owed(rs, c, u, l)
<1>1. /\ bt \in Nat /\ bf \in Nat /\ ct \in Nat /\ cf \in Nat
      /\ old = IF ~s THEN bf ELSE IF ~l THEN bt ELSE bf + 1
      /\ new = IF ~u THEN cf ELSE IF ~l THEN ct ELSE cf + 1
    BY OwedIs
<1>2. ct <= bt /\ cf <= bf /\ cf <= bt
    BY ClaimsMono
<1> HIDE DEF bt, bf, ct, cf, old, new
<1>3. new <= old
    BY <1>1, <1>2
<1>4. QED
    BY <1>3 DEF old, new

\* A poll that had seen the trigger low is given up.
LEMMA OwedGivenUp ==
    ASSUME NEW rs \in Seq(Report), NEW b, NEW s \in BOOLEAN, NEW l \in BOOLEAN
    PROVE  Owed(rs, b, s, FALSE) <= Owed(rs, b, s, l)
<1> DEFINE bt == Cardinality(Claims(rs, b, TRUE))
           bf == Cardinality(Claims(rs, b, FALSE))
           old == Owed(rs, b, s, l)
           new == Owed(rs, b, s, FALSE)
<1>1. /\ bt \in Nat /\ bf \in Nat
      /\ old = IF ~s THEN bf ELSE IF ~l THEN bt ELSE bf + 1
      /\ new = IF ~s THEN bf ELSE bt
    BY OwedIs
<1>2. bt <= bf + 1
    BY TailClaims
<1> HIDE DEF bt, bf, old, new
<1>3. new <= old
    BY <1>1, <1>2
<1>4. QED
    BY <1>3 DEF old, new

\* The gun ends a cycle with an OK.
LEMMA OwedOk ==
    ASSUME NEW rs \in Seq(Report), NEW b, NEW s \in BOOLEAN, NEW l \in BOOLEAN
    PROVE  Owed(rs, b, TRUE, l) <= Owed(rs, b, s, l) + 1
<1> DEFINE bt == Cardinality(Claims(rs, b, TRUE))
           bf == Cardinality(Claims(rs, b, FALSE))
           old == Owed(rs, b, s, l)
           new == Owed(rs, b, TRUE, l)
<1>1. /\ bt \in Nat /\ bf \in Nat
      /\ old = IF ~s THEN bf ELSE IF ~l THEN bt ELSE bf + 1
      /\ new = IF ~l THEN bt ELSE bf + 1
    BY OwedIs
<1>2. bt <= bf + 1 /\ bf <= bt
    BY TailClaims, ClaimsMono
<1> HIDE DEF bt, bf, old, new
<1>3. new <= old + 1
    BY <1>1, <1>2
<1>4. QED
    BY <1>3 DEF old, new

\* A report is added: of a poll that saw the trigger high, or of something else.
LEMMA OwedReport ==
    ASSUME NEW rs \in Seq(Report), NEW e \in Report, NEW b, NEW s \in BOOLEAN,
           ~Low(e), ShowsOk(e) => s
    PROVE  Owed(Append(rs, e), b, s, FALSE) <= Owed(rs, b, s, FALSE)
<1> DEFINE bt == Cardinality(Claims(rs, b, TRUE))
           bf == Cardinality(Claims(rs, b, FALSE))
           ct == Cardinality(Claims(Append(rs, e), b, TRUE))
           cf == Cardinality(Claims(Append(rs, e), b, FALSE))
           old == Owed(rs, b, s, FALSE)
           new == Owed(Append(rs, e), b, s, FALSE)
<1>1. Append(rs, e) \in Seq(Report)
    BY AppendAt
<1>2. /\ bt \in Nat /\ bf \in Nat /\ ct \in Nat /\ cf \in Nat
      /\ old = IF ~s THEN bf ELSE bt
      /\ new = IF ~s THEN cf ELSE ct
    BY <1>1, OwedIs
<1>3. /\ s => ct <= bt
      /\ ~s => cf <= bf
    BY ReportClaims
<1> HIDE DEF bt, bf, ct, cf, old, new
<1>4. new <= old
    BY <1>2, <1>3
<1>5. QED
    BY <1>4 DEF old, new

LEMMA LeqTrans ==
    ASSUME NEW x \in Nat, NEW y \in Nat, NEW z \in Int, x <= y, y <= z
    PROVE  x <= z
OBVIOUS

\* A report is added, of a poll that saw the trigger low.
LEMMA OwedLow ==
    ASSUME NEW rs \in Seq(Report), NEW e \in Report, NEW b, NEW s \in BOOLEAN, Low(e)
    PROVE  Owed(Append(rs, e), b, s, FALSE) <= Owed(rs, b, s, TRUE)
<1> DEFINE bf == Cardinality(Claims(rs, b, FALSE))
           ct == Cardinality(Claims(Append(rs, e), b, TRUE))
           cf == Cardinality(Claims(Append(rs, e), b, FALSE))
           old == Owed(rs, b, s, TRUE)
           new == Owed(Append(rs, e), b, s, FALSE)
<1>1. Append(rs, e) \in Seq(Report)
    BY AppendAt
<1>2. /\ bf \in Nat /\ ct \in Nat /\ cf \in Nat
      /\ old = IF ~s THEN bf ELSE bf + 1
      /\ new = IF ~s THEN cf ELSE ct
    BY <1>1, OwedIs
<1>3. ct <= bf + 1 /\ cf <= bf + 0
    <2>1. One(TRUE) = 1 /\ One(FALSE) = 0
        BY DEF One
    <2>2. QED
        BY <2>1, LowClaims
<1> HIDE DEF bf, ct, cf, old, new
<1>4. new <= old
    BY <1>2, <1>3
<1>5. QED
    BY <1>4 DEF old, new

\* A report is taken that counts nothing.
LEMMA OwedTaken ==
    ASSUME NEW rs \in Seq(Report), rs # <<>>, NEW b, NEW c,
           NEW s \in BOOLEAN, NEW l \in BOOLEAN, Low(Head(rs)) \/ (b => c)
    PROVE  Owed(Tail(rs), c, s, l) <= Owed(rs, b, s, l)
<1> DEFINE bt == Cardinality(Claims(rs, b, TRUE))
           bf == Cardinality(Claims(rs, b, FALSE))
           ct == Cardinality(Claims(Tail(rs), c, TRUE))
           cf == Cardinality(Claims(Tail(rs), c, FALSE))
           old == Owed(rs, b, s, l)
           new == Owed(Tail(rs), c, s, l)
<1>1. Tail(rs) \in Seq(Report)
    BY TailAt
<1>2. /\ bt \in Nat /\ bf \in Nat /\ ct \in Nat /\ cf \in Nat
      /\ old = IF ~s THEN bf ELSE IF ~l THEN bt ELSE bf + 1
      /\ new = IF ~s THEN cf ELSE IF ~l THEN ct ELSE cf + 1
    BY <1>1, OwedIs
<1>3. ct <= bt /\ cf <= bf
    BY TakenClaims
<1> HIDE DEF bt, bf, ct, cf, old, new
<1>4. new <= old
    BY <1>2, <1>3
<1>5. QED
    BY <1>4 DEF old, new

\* A report is taken that is counted: what follows it is owed one less.
LEMMA OwedCounted ==
    ASSUME NEW rs \in Seq(Report), rs # <<>>, NEW b, NEW c,
           NEW s \in BOOLEAN, NEW l \in BOOLEAN, 
           ~Low(Head(rs)), ShowsOk(Head(rs)), ~b, c
    PROVE  Owed(Tail(rs), c, s, l) + 1 <= Owed(rs, b, s, l)
<1> DEFINE bt == Cardinality(Claims(rs, b, TRUE))
           bf == Cardinality(Claims(rs, b, FALSE))
           ct == Cardinality(Claims(Tail(rs), c, TRUE))
           cf == Cardinality(Claims(Tail(rs), c, FALSE))
           old == Owed(rs, b, s, l)
           new == Owed(Tail(rs), c, s, l)
<1>1. Tail(rs) \in Seq(Report)
    BY TailAt
<1>2. /\ bt \in Nat /\ bf \in Nat /\ ct \in Nat /\ cf \in Nat
      /\ old = IF ~s THEN bf ELSE IF ~l THEN bt ELSE bf + 1
      /\ new = IF ~s THEN cf ELSE IF ~l THEN ct ELSE cf + 1
    BY <1>1, OwedIs
<1>3. ct + 1 <= bt /\ cf + 1 <= bf
    BY CountedClaims
<1> HIDE DEF bt, bf, ct, cf, old, new
<1>4. new + 1 <= old
    BY <1>2, <1>3
<1>5. QED
    BY <1>4 DEF old, new

\* Nothing is reported yet.
LEMMA OwedEmpty ==
    ASSUME NEW b, NEW s \in BOOLEAN
    PROVE  Owed(<<>>, b, s, FALSE) <= One(s)
<1> DEFINE t == Cardinality(Claims(<<>>, b, TRUE))
           f == Cardinality(Claims(<<>>, b, FALSE))
           o == Owed(<<>>, b, s, FALSE)
<1>1. t \in Nat /\ f \in Nat /\ o = IF ~s THEN f ELSE t
    BY OwedIs, EmptySeq
<1>2. t <= One(TRUE) /\ f <= One(FALSE)
    BY EmptyClaims
<1>3. One(TRUE) = 1 /\ One(FALSE) = 0
    BY DEF One
<1>4. s => s = TRUE
    OBVIOUS
<1>5. ~s => s = FALSE
    OBVIOUS
<1> HIDE DEF t, f, o
<1>6. o <= One(s)
    BY <1>1, <1>2, <1>3, <1>4, <1>5
<1>7. QED
    BY <1>6 DEF o

-----------------------------------------------------------------------------
(* The count is covered.                                                    *)

CInv == PollHigh /\ Covered

LEMMA CoverTypes ==
    ASSUME TypeOK
    PROVE  /\ reports \in Seq(Report) /\ uncounted \in Int
           /\ Shown \in BOOLEAN /\ Lowered \in BOOLEAN
           /\ Owed(reports, Blocked(app), Shown, Lowered) \in Nat
<1>1. reports \in Seq(Report) /\ Shown \in BOOLEAN /\ Lowered \in BOOLEAN
    BY DEF TypeOK, Shown, Lowered
<1>2. QED
    BY <1>1, OwedIs DEF TypeOK

\* Steps that tell the window nothing and leave the gun as it shows.
LEMMA QuietCovers ==
    ASSUME TypeOK, CInv, reports' = reports, uncounted' = uncounted,
           Blocked(app) => Blocked(app'), Shown' \in BOOLEAN, Shown' => Shown,
           Lowered' = Lowered, PollHigh'
    PROVE  CInv'
<1>1. Owed(reports, Blocked(app'), Shown', Lowered)
      <= Owed(reports, Blocked(app), Shown, Lowered)
    BY CoverTypes, OwedMono
<1>2. Owed(reports, Blocked(app'), Shown', Lowered) \in Nat
    BY CoverTypes, OwedIs
<1>3. Owed(reports, Blocked(app'), Shown', Lowered) <= uncounted
    BY <1>1, <1>2, CoverTypes DEF CInv, Covered
<1>4. Blocked(app)' = Blocked(app')
    BY DEF Blocked, Screwing
<1>5. QED
    BY <1>3, <1>4 DEF CInv, Covered

LEMMA WindowCovers ==
    ASSUME TypeOK, CInv, gun' = gun, worker' = worker, reports' = reports,
           uncounted' = uncounted, Blocked(app) => Blocked(app')
    PROVE  CInv'
<1>1. Shown' = Shown /\ Lowered' = Lowered /\ Shown \in BOOLEAN /\ PollHigh'
    BY CoverTypes DEF Shown, Lowered, PollHigh, CInv
<1>2. QED
    BY <1>1, QuietCovers

LEMMA ReportCovers ==
    ASSUME IInv, CInv, NEW late \in BOOLEAN, OnReport(late)
    PROVE  CInv'
<1>1. Claimed /\ TypeOK'
    BY PollTaken, AnswerTaken DEF IInv
<1>2. /\ reports # <<>> /\ reports' = Tail(reports) /\ gun' = gun /\ worker' = worker
    BY DEF OnReport
<1>3. /\ reports \in Seq(Report) /\ uncounted \in Int
      /\ Shown \in BOOLEAN /\ Lowered \in BOOLEAN
      /\ Owed(reports, Blocked(app), Shown, Lowered) \in Nat
    BY CoverTypes DEF IInv
<1>4. Shown' = Shown /\ Lowered' = Lowered /\ PollHigh'
    BY <1>2 DEF Shown, Lowered, PollHigh, CInv
<1>5. Owed(Tail(reports), Blocked(app'), Shown, Lowered) \in Nat
    BY <1>2, <1>3, OwedIs, TailAt
<1>6. Owed(Tail(reports), Blocked(app'), Shown, Lowered) <= uncounted'
    <2>1. CASE /\ Low(Head(reports)) \/ (Blocked(app) => Blocked(app'))
               /\ uncounted' = uncounted
        <3>1. Owed(Tail(reports), Blocked(app'), Shown, Lowered)
              <= Owed(reports, Blocked(app), Shown, Lowered)
            BY <1>2, <1>3, <2>1, OwedTaken
        <3>2. QED
            BY <1>3, <1>5, <2>1, <3>1 DEF CInv, Covered
    <2>2. CASE /\ ~Low(Head(reports)) /\ ShowsOk(Head(reports))
               /\ ~Blocked(app) /\ Blocked(app')
               /\ uncounted' = uncounted - 1
        <3> DEFINE new == Owed(Tail(reports), Blocked(app'), Shown, Lowered)
                   old == Owed(reports, Blocked(app), Shown, Lowered)
        <3>1. new + 1 <= old
            BY <1>2, <1>3, <2>2, OwedCounted
        <3>2. old <= uncounted
            BY DEF CInv, Covered
        <3>3. new \in Nat /\ old \in Nat
            BY <1>3, <1>5
        <3> HIDE DEF new, old
        <3>4. new <= uncounted - 1
            BY <1>3, <3>1, <3>2, <3>3
        <3>5. QED
            BY <2>2, <3>4 DEF new
    <2>3. QED
        BY <1>1, <2>1, <2>2 DEF Claimed
<1>7. Blocked(app)' = Blocked(app')
    BY DEF Blocked, Screwing
<1>8. QED
    BY <1>2, <1>4, <1>6, <1>7 DEF CInv, Covered

\* Blocked(app') is what Blocked is of the next window.
LEMMA NextBlocked == Blocked(app)' = Blocked(app')
BY DEF Blocked, Screwing

LEMMA SteadyCovers ==
    ASSUME IInv, CInv, Steady
    PROVE  CInv'
<1>1. /\ gun' = gun /\ worker' = worker /\ reports' = reports /\ uncounted' = uncounted
      /\ Blocked(app) => Blocked(app')
    BY DEF Steady, Plain
<1>2. QED
    BY <1>1, WindowCovers DEF IInv

\* A poll begins: what it sees of the trigger is what the gun shows.
LEMMA PollTriggerCovers ==
    ASSUME IInv, CInv, PollTrigger
    PROVE  CInv'
<1>1. /\ app' = app /\ reports' = reports /\ gun' = gun /\ uncounted' = uncounted
      /\ worker.pc = "idle"
      /\ worker'.pc = "trigger" /\ worker'.trigger = gun.trigger
    BY DEF PollTrigger, Linked, IInv, TypeOK, Worker
<1>2. /\ Shown' = Shown /\ Lowered = FALSE /\ Lowered' = (~gun.trigger) /\ PollHigh'
    BY <1>1 DEF Shown, Lowered, PollHigh
<1>3. Shown \in BOOLEAN /\ Lowered' \in BOOLEAN /\ reports \in Seq(Report)
    BY <1>2, CoverTypes DEF IInv, TypeOK, Gun
<1>4. Owed(reports, Blocked(app), Shown, Lowered') <= uncounted
    <2>1. Owed(reports, Blocked(app), Shown, FALSE) <= uncounted
        BY <1>2 DEF CInv, Covered
    <2>2. CASE gun.trigger
        <3>1. Lowered' = FALSE
            BY <1>2, <2>2
        <3>2. QED
            BY <2>1, <3>1
    <2>3. CASE ~gun.trigger
        <3>1. Shown = FALSE
            BY <2>3 DEF Shown
        <3>2. PICK l \in BOOLEAN : l = Lowered'
            BY <1>3
        <3>3. Owed(reports, Blocked(app), Shown, l) = Owed(reports, Blocked(app), Shown, FALSE)
            BY <1>3, <3>1, OwedIs
        <3>4. QED
            BY <2>1, <3>2, <3>3
    <2>4. QED
        BY <2>2, <2>3
<1>5. QED
    BY <1>1, <1>2, <1>4, NextBlocked DEF CInv, Covered

LEMMA PollDirectionCovers ==
    ASSUME IInv, CInv, PollDirection
    PROVE  CInv'
<1>1. /\ app' = app /\ reports' = reports /\ gun' = gun /\ uncounted' = uncounted
      /\ worker.pc = "trigger"
      /\ worker'.pc = "direction" /\ worker'.trigger = worker.trigger
    BY DEF PollDirection, IInv, TypeOK, Worker
<1>2. Shown' = Shown /\ Lowered' = Lowered /\ PollHigh' /\ Shown \in BOOLEAN
    BY <1>1, CoverTypes DEF Shown, Lowered, PollHigh, CInv, IInv
<1>3. QED
    BY <1>1, <1>2, QuietCovers DEF IInv

\* A poll ends.  What it found to be OK the gun still shows: while the worker polls nobody
\* lowers the trigger.
LEMMA PollStatusCovers ==
    ASSUME IInv, CInv, PollStatus
    PROVE  CInv'
<1>1. PICK e : e = [kind |-> "poll", trigger |-> worker.trigger,
                    direction |-> worker.direction,
                    status |-> IF worker.trigger THEN gun.status ELSE "open"]
    OBVIOUS
<1>2. /\ worker.trigger \in BOOLEAN /\ worker.direction \in Direction
      /\ gun.status \in Status
    BY DEF IInv, TypeOK, Worker, Gun
<1>3. e \in Report
    <2>1. (IF worker.trigger THEN gun.status ELSE "open") \in Status
        BY <1>2 DEF Status
    <2>2. QED
        BY <1>1, <1>2, <2>1 DEF Report
<1>4. /\ e.kind = "poll" /\ e.trigger = worker.trigger
      /\ worker.trigger => e.status = gun.status
    BY <1>1
<1>5. /\ app' = app /\ reports' = Append(reports, e) /\ gun' = gun
      /\ uncounted' = uncounted /\ worker'.pc = "idle" /\ worker.pc = "direction"
    BY <1>1 DEF PollStatus, IInv, TypeOK, Worker
<1>6. Shown' = Shown /\ Lowered' = FALSE /\ Lowered = (~worker.trigger) /\ PollHigh'
    BY <1>5 DEF Shown, Lowered, PollHigh
<1>7. reports \in Seq(Report) /\ Shown \in BOOLEAN /\ uncounted \in Int
    BY CoverTypes DEF IInv
<1>8. PICK b : b = Blocked(app)
    OBVIOUS
<1>9. Owed(reports, b, Shown, Lowered) <= uncounted
    BY <1>8 DEF CInv, Covered
<1>10. Owed(Append(reports, e), b, Shown, FALSE) <= uncounted
    <2>1. Owed(Append(reports, e), b, Shown, FALSE) \in Nat
        BY <1>3, <1>7, AppendAt, OwedIs
    <2>2. CASE worker.trigger
        <3>1. ~Low(e) /\ (ShowsOk(e) => Shown) /\ Lowered = FALSE
            BY <1>4, <1>5, <1>6, <2>2 DEF Low, ShowsOk, Shown, CInv, PollHigh
        <3>2. Owed(Append(reports, e), b, Shown, FALSE) <= Owed(reports, b, Shown, FALSE)
            BY <1>3, <1>7, <3>1, OwedReport
        <3>3. Owed(reports, b, Shown, FALSE) \in Nat
            BY <1>7, OwedIs
        <3>4. Owed(reports, b, Shown, FALSE) <= uncounted
            BY <1>9, <3>1
        <3>5. QED
            BY <1>7, <2>1, <3>2, <3>3, <3>4, LeqTrans
    <2>3. CASE ~worker.trigger
        <3>1. Low(e) /\ Lowered = TRUE
            BY <1>4, <1>6, <2>3 DEF Low
        <3>2. Owed(Append(reports, e), b, Shown, FALSE) <= Owed(reports, b, Shown, TRUE)
            BY <1>3, <1>7, <3>1, OwedLow
        <3>3. Owed(reports, b, Shown, TRUE) \in Nat
            BY <1>7, OwedIs
        <3>4. Owed(reports, b, Shown, TRUE) <= uncounted
            BY <1>9, <3>1
        <3>5. QED
            BY <1>7, <2>1, <3>2, <3>3, <3>4, LeqTrans
    <2>4. QED
        BY <2>2, <2>3
<1>11. QED
    BY <1>5, <1>6, <1>8, <1>10, NextBlocked DEF CInv, Covered

LEMMA PollFailsCovers ==
    ASSUME IInv, CInv, PollFails
    PROVE  CInv'
<1>1. /\ app' = app /\ reports' = reports /\ gun' = gun /\ uncounted' = uncounted
      /\ worker'.pc = "idle"
    BY DEF PollFails, Unlinked, IInv, TypeOK, Worker
<1>2. Shown' = Shown /\ Lowered' = FALSE /\ PollHigh'
    BY <1>1 DEF Shown, Lowered, PollHigh
<1>3. PICK b : b = Blocked(app)
    OBVIOUS
<1>4. /\ reports \in Seq(Report) /\ Shown \in BOOLEAN /\ Lowered \in BOOLEAN
      /\ uncounted \in Int
    BY CoverTypes DEF IInv
<1>5. Owed(reports, b, Shown, FALSE) <= uncounted
    <2>1. Owed(reports, b, Shown, FALSE) <= Owed(reports, b, Shown, Lowered)
        BY <1>4, OwedGivenUp
    <2>2. Owed(reports, b, Shown, FALSE) \in Nat /\ Owed(reports, b, Shown, Lowered) \in Nat
        BY <1>4, OwedIs
    <2>3. Owed(reports, b, Shown, Lowered) <= uncounted
        BY <1>3 DEF CInv, Covered
    <2>4. QED
        BY <1>4, <2>1, <2>2, <2>3, LeqTrans
<1>6. QED
    BY <1>1, <1>2, <1>3, <1>5, NextBlocked DEF CInv, Covered

\* A call is taken between two polls: the trigger is not raised by it, and what is
\* reported of it is no poll.
LEMMA CallCovers ==
    ASSUME TypeOK, TypeOK', CInv, worker.pc = "idle", worker'.pc = "idle", app' = app,
           uncounted' = uncounted, Shown' => Shown,
           \/ reports' = reports
           \/ \E e \in Report : reports' = Append(reports, e) /\ e.kind # "poll"
    PROVE  CInv'
<1>1. Lowered = FALSE /\ Lowered' = FALSE /\ PollHigh'
    BY DEF Lowered, PollHigh
<1>2. /\ reports \in Seq(Report) /\ Shown \in BOOLEAN /\ uncounted \in Int
    BY CoverTypes
<1>3. Shown' \in BOOLEAN
    BY DEF Shown
<1>4. PICK b : b = Blocked(app)
    OBVIOUS
<1>5. PICK u \in BOOLEAN : u = Shown'
    BY <1>3
<1>6. /\ Owed(reports, b, u, FALSE) \in Nat /\ Owed(reports, b, Shown, FALSE) \in Nat
      /\ Owed(reports, b, u, FALSE) <= Owed(reports, b, Shown, FALSE)
      /\ Owed(reports, b, Shown, FALSE) <= uncounted
    <2>1. u => Shown
        BY <1>5
    <2>2. QED
        BY <1>1, <1>2, <1>4, <2>1, OwedMono, OwedIs DEF CInv, Covered
<1>7. Owed(reports', b, u, FALSE) <= uncounted
    <2>1. Owed(reports, b, u, FALSE) <= uncounted
        BY <1>2, <1>6, LeqTrans
    <2>2. CASE reports' = reports
        BY <2>1, <2>2
    <2>3. CASE \E e \in Report : reports' = Append(reports, e) /\ e.kind # "poll"
        <3>1. PICK e \in Report : reports' = Append(reports, e) /\ e.kind # "poll"
            BY <2>3
        <3>2. ~Low(e) /\ ~ShowsOk(e)
            BY <3>1 DEF Low, ShowsOk
        <3>3. Owed(Append(reports, e), b, u, FALSE) <= Owed(reports, b, u, FALSE)
            BY <1>2, <3>2, OwedReport
        <3>4. Owed(Append(reports, e), b, u, FALSE) \in Nat
            BY <1>2, AppendAt, OwedIs
        <3>5. Owed(Append(reports, e), b, u, FALSE) <= uncounted
            BY <1>2, <1>6, <2>1, <3>3, <3>4, LeqTrans
        <3>6. QED
            BY <3>1, <3>5
    <2>4. QED
        BY <2>2, <2>3
<1>8. QED
    BY <1>1, <1>4, <1>5, <1>7, NextBlocked DEF CInv, Covered

LEMMA WriteReportIs ==
    ASSUME IInv, reports' = reports \o WriteReport
    PROVE  \/ reports' = reports
           \/ \E e \in Report : reports' = Append(reports, e) /\ e.kind # "poll"
<1>1. reports \in Seq(Report)
    BY DEF IInv, TypeOK
<1>2. CASE Head(calls) = "clear"
    <2>1. PICK e : e = [kind |-> "cleared"]
        OBVIOUS
    <2>2. e \in Report /\ e.kind = "cleared"
        BY <2>1 DEF Report
    <2>3. reports' = reports \o <<e>>
        BY <1>2, <2>1 DEF WriteReport
    <2>4. reports \o <<e>> = Append(reports, e)
        BY <1>1, <2>2, AppendIsConcat
    <2>5. QED
        BY <2>2, <2>3, <2>4
<1>3. CASE Head(calls) # "clear"
    BY <1>1, <1>3, ConcatEmptySeq DEF WriteReport
<1>4. QED
    BY <1>2, <1>3

LEMMA WrittenShows ==
    ASSUME IInv, NEW call \in {"clear", "lock", "unlock", "bypass_on"},
           gun' \in {gun, Written(call)}
    PROVE  Shown' => Shown
BY WrittenType DEF IInv, TypeOK, Shown

LEMMA WritesCover ==
    ASSUME IInv, CInv, Write \/ WriteFails \/ WriteDropped
    PROVE  CInv'
<1>1. TypeOK /\ TypeOK'
    BY WriteKeeps, WriteFailsKeeps, WriteDroppedKeeps DEF IInv
<1>2. /\ Takes({"clear", "lock", "unlock"}) /\ app' = app /\ uncounted' = uncounted
      /\ gun' \in {gun, Written(Head(calls))} /\ reports' = reports \o WriteReport
    BY DEF Write, WriteFails, WriteDropped
<1>3. worker.pc = "idle" /\ Head(calls) \in {"clear", "lock", "unlock"}
    BY <1>2 DEF Takes
<1>4. worker'.pc = "idle"
    BY <1>3 DEF Write, WriteFails, WriteDropped, Linked, Unlinked, IInv, TypeOK, Worker
<1>5. Shown' => Shown
    BY <1>2, <1>3, WrittenShows
<1>6. QED
    BY <1>1, <1>2, <1>3, <1>4, <1>5, WriteReportIs, CallCovers

LEMMA BypassOnCovers ==
    ASSUME IInv, CInv, BypassOn
    PROVE  CInv'
<1>1. TypeOK /\ TypeOK'
    BY BypassOnKeeps DEF IInv
<1>2. /\ worker.pc = "idle" /\ app' = app /\ uncounted' = uncounted
      /\ gun' \in {gun, Written("bypass_on")}
    BY DEF BypassOn, Takes
<1>3. worker'.pc = "idle"
    BY <1>2 DEF BypassOn, Linked, Unlinked, IInv, TypeOK, Worker
<1>4. Shown' => Shown
    BY <1>2, WrittenShows
<1>5. PICK e : e = [kind |-> "bypass_on"]
    OBVIOUS
<1>6. e \in Report /\ e.kind # "poll"
    BY <1>5 DEF Report
<1>7. reports' = reports \/ reports' = Append(reports, e)
    BY <1>5 DEF BypassOn
<1>8. QED
    BY <1>1, <1>2, <1>3, <1>4, <1>6, <1>7, CallCovers

LEMMA BypassOffCovers ==
    ASSUME IInv, CInv, BypassOff
    PROVE  CInv'
<1>1. TypeOK /\ TypeOK'
    BY BypassOffKeeps DEF IInv
<1>2. PICK e : e = [kind |-> "bypass_off"]
    OBVIOUS
<1>3. /\ worker.pc = "idle" /\ app' = app /\ uncounted' = uncounted /\ gun' = gun
      /\ reports' = Append(reports, e)
    BY <1>2 DEF BypassOff, Takes
<1>4. worker'.pc = "idle"
    BY <1>3 DEF BypassOff, IInv, TypeOK, Worker
<1>5. Shown' => Shown
    BY <1>3 DEF Shown
<1>6. e \in Report /\ e.kind # "poll"
    BY <1>2 DEF Report
<1>7. QED
    BY <1>1, <1>3, <1>4, <1>5, <1>6, CallCovers

\* What the worker reported is dropped with it: at most the OK the gun shows is owed.
LEMMA StopCovers ==
    ASSUME IInv, CInv, Stop
    PROVE  CInv'
<1>1. /\ reports' = <<>> /\ gun' = gun /\ worker'.pc = "idle"
      /\ uncounted' = IF gun.trigger /\ uncounted < 1 THEN 1 ELSE uncounted
    BY DEF Stop, Off
<1>2. Shown' = Shown /\ Lowered' = FALSE /\ PollHigh'
    BY <1>1 DEF Shown, Lowered, PollHigh
<1>3. /\ Shown \in BOOLEAN /\ uncounted \in Int
      /\ Owed(reports, Blocked(app), Shown, Lowered) \in Nat
    BY CoverTypes DEF IInv
<1>4. One(Shown) \in Nat /\ One(Shown) <= uncounted'
    <2>1. 0 <= uncounted
        <3> DEFINE o == Owed(reports, Blocked(app), Shown, Lowered)
        <3>1. o \in Nat /\ o <= uncounted
            BY <1>3 DEF CInv, Covered
        <3> HIDE DEF o
        <3>2. QED
            BY <1>3, <3>1
    <2>2. CASE Shown
        <3>1. One(Shown) = 1
            BY <2>2 DEF One
        <3>2. gun.trigger
            BY <2>2 DEF Shown
        <3>3. 1 <= uncounted'
            BY <1>1, <1>3, <3>2
        <3>4. QED
            BY <3>1, <3>3
    <2>3. CASE ~Shown
        <3>1. One(Shown) = 0
            BY <2>3 DEF One
        <3>2. 0 <= uncounted'
            BY <1>1, <1>3, <2>1
        <3>3. QED
            BY <3>1, <3>2
    <2>4. QED
        BY <2>2, <2>3
<1>5. uncounted' \in Int
    BY <1>1, <1>3
<1>6. PICK b : b = Blocked(app')
    OBVIOUS
<1>7. Owed(<<>>, b, Shown, FALSE) <= uncounted'
    <2>1. Owed(<<>>, b, Shown, FALSE) <= One(Shown)
        BY <1>3, OwedEmpty
    <2>2. Owed(<<>>, b, Shown, FALSE) \in Nat
        BY <1>3, EmptySeq, OwedIs
    <2>3. QED
        BY <1>4, <1>5, <2>1, <2>2, LeqTrans
<1>8. QED
    BY <1>1, <1>2, <1>6, <1>7, NextBlocked DEF CInv, Covered

\* Only the end of a cycle makes the gun show an OK, and it counts one more.
LEMMA GunStepCovers ==
    ASSUME IInv, CInv, GunStep
    PROVE  CInv'
<1>1. /\ app' = app /\ reports' = reports /\ worker' = worker /\ gun \in Gun
    BY DEF GunStep, Begin, End, TurnLever, Loosen, IInv, TypeOK
<1>2. Lowered' = Lowered
    BY <1>1 DEF Lowered
<1>3. gun.trigger => gun'.trigger
    BY <1>1 DEF GunStep, Begin, End, TurnLever, Loosen, Gun
<1>4. PollHigh'
    BY <1>1, <1>3 DEF PollHigh, CInv
<1>5. Shown' \in BOOLEAN
    BY DEF Shown
<1>6. CASE uncounted' = uncounted /\ (Shown' => Shown)
    BY <1>1, <1>2, <1>4, <1>5, <1>6, QuietCovers DEF IInv
<1>7. CASE uncounted' = uncounted + 1
    <2>1. PICK b : b = Blocked(app)
        OBVIOUS
    <2>9. PICK u \in BOOLEAN : u = Shown'
        BY <1>5
    <2>2. /\ reports \in Seq(Report) /\ Shown \in BOOLEAN /\ Lowered \in BOOLEAN
          /\ uncounted \in Int
        BY CoverTypes DEF IInv
    <2> DEFINE old == Owed(reports, b, Shown, Lowered)
               most == Owed(reports, b, TRUE, Lowered)
               new == Owed(reports, b, u, Lowered)
    <2>3. old \in Nat /\ new \in Nat /\ most \in Nat
        BY <2>2, OwedIs
    <2>4. most <= old + 1 /\ new <= most
        BY <2>2, OwedOk, OwedMono
    <2>5. old <= uncounted
        BY <2>1 DEF CInv, Covered
    <2> HIDE DEF old, most, new
    <2>6. new <= uncounted + 1
        BY <2>2, <2>3, <2>4, <2>5
    <2>7. new <= uncounted'
        BY <1>7, <2>6
    <2>8. QED
        BY <1>1, <1>2, <1>4, <2>1, <2>9, <2>7, NextBlocked DEF CInv, Covered, new
<1>8. \/ uncounted' = uncounted /\ (Shown' => Shown)
      \/ uncounted' = uncounted + 1
    <2>1. CASE Begin \/ Loosen
        <3>1. gun'.status = "open" /\ uncounted' = uncounted
            BY <1>1, <2>1 DEF Begin, Loosen, Gun
        <3>2. QED
            BY <3>1 DEF Shown
    <2>2. CASE TurnLever
        <3>1. gun'.status = gun.status /\ gun'.trigger = gun.trigger /\ uncounted' = uncounted
            BY <1>1, <2>2 DEF TurnLever, Gun
        <3>2. QED
            BY <3>1 DEF Shown
    <2>3. CASE End
        <3>1. PICK result \in Final :
                /\ gun' = [gun EXCEPT !.status = result, !.direction = "forward",
                                      !.cycle = "none",
                                      !.trigger = @ \/ gun.cycle = "unraised"]
                /\ uncounted' = uncounted + (IF result = "ok" THEN 1 ELSE 0)
            BY <2>3 DEF End
        <3>2. gun'.status = result
            BY <1>1, <3>1 DEF Gun
        <3>3. uncounted \in Int
            BY DEF IInv, TypeOK
        <3>4. CASE result = "ok"
            BY <3>1, <3>4
        <3>5. CASE result = "ng"
            BY <3>1, <3>2, <3>3, <3>5 DEF Shown
        <3>6. QED
            BY <3>4, <3>5 DEF Final
    <2>4. QED
        BY <2>1, <2>2, <2>3 DEF GunStep
<1>9. QED
    BY <1>6, <1>7, <1>8

LEMMA CInit ==
    ASSUME Init
    PROVE  CInv
<1>1. reports = <<>> /\ uncounted = 0 /\ Shown = FALSE /\ Lowered = FALSE /\ PollHigh
    BY DEF Init, Off, Shown, Lowered, PollHigh
<1>2. PICK b : b = Blocked(app)
    OBVIOUS
<1>3. Owed(<<>>, b, FALSE, FALSE) <= One(FALSE)
    BY OwedEmpty
<1>4. One(FALSE) = 0
    BY DEF One
<1>5. QED
    BY <1>1, <1>2, <1>3, <1>4 DEF CInv, Covered

LEMMA StepCovers ==
    ASSUME IInv, CInv, [Next]_vars
    PROVE  CInv'
<1>1. CASE WindowStep
    <2>1. CASE \E late \in BOOLEAN : OnReport(late)
        BY <2>1, ReportCovers
    <2>2. CASE Scan \/ Finish \/ ManualOk \/ AdminUnlock \/ PromptDue \/ Reset
        <3>1. Steady
            BY <2>2, ScanSteady, FinishSteady, ManualOkSteady, AdminUnlockSteady,
               PromptSteady, ResetSteady DEF IInv
        <3>2. QED
            BY <3>1, SteadyCovers
    <2>3. CASE OnState \/ DegradedOn \/ DegradedOff
        <3>1. Blocked(app) => Blocked(app')
            BY <2>3, OnStateKeeps, DegradedOnKeeps, DegradedOffKeeps
        <3>2. /\ gun' = gun /\ worker' = worker /\ reports' = reports
              /\ uncounted' = uncounted
            BY <2>3 DEF OnState, DegradedOn, DegradedOff
        <3>3. QED
            BY <3>1, <3>2, WindowCovers DEF IInv
    <2>4. QED
        BY <1>1, <2>1, <2>2, <2>3 DEF WindowStep
<1>2. CASE WorkerStep
    BY <1>2, PollTriggerCovers, PollDirectionCovers, PollStatusCovers, PollFailsCovers,
       WritesCover, BypassOnCovers, BypassOffCovers, StopCovers
       DEF WorkerStep
<1>3. CASE GunStep
    BY <1>3, GunStepCovers
<1>4. CASE UNCHANGED vars
    <2>1. /\ gun' = gun /\ worker' = worker /\ reports' = reports
          /\ uncounted' = uncounted /\ app' = app
        BY <1>4 DEF vars
    <2>2. QED
        BY <2>1, WindowCovers DEF IInv
<1>5. QED
    BY <1>1, <1>2, <1>3, <1>4 DEF Next

\* However polls, clears, losses of the link, stops of the worker and cycles of the gun
\* interleave, the window has never counted more OK results of the gun than it has ended
\* cycles with OK; a trigger that a stopped worker leaves raised may stand for one more.
THEOREM CountsOnlyTightened == Spec => []NoPhantomCount
<1>1. Init => CInv
    BY CInit
<1>2. IInv /\ CInv /\ [Next]_vars => CInv'
    BY StepCovers
<1>3. IInv /\ CInv => NoPhantomCount
    <2> SUFFICES ASSUME IInv, CInv
                 PROVE  NoPhantomCount
        OBVIOUS
    <2> DEFINE o == Owed(reports, Blocked(app), Shown, Lowered)
    <2>1. o \in Nat /\ o <= uncounted /\ uncounted \in Int
        BY CoverTypes DEF IInv, CInv, Covered
    <2> HIDE DEF o
    <2>2. QED
        BY <2>1 DEF NoPhantomCount
<1>4. QED
    BY <1>1, <1>2, <1>3, Invariant, PTL DEF Spec
=============================================================================
