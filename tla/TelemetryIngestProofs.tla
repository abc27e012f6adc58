------------------------- MODULE TelemetryIngestProofs -------------------------
(******************************************************************************)
(* Theorems about TelemetryIngest, for every value of its constants: what the *)
(* rate limiter grants, what the ring of reports shows and what the           *)
(* breakdowns count.                                                          *)
(*                                                                            *)
(* Facts about the limiter's filter hold by induction on the number of        *)
(* attempts it is given, in the form of a least counterexample: LeastNat.     *)
(******************************************************************************)
EXTENDS TelemetryIngest, FiniteSetTheorems, SequenceTheorems,
        WellFoundedInduction, TLAPS

\* A set of numbers that is not empty has a least element.
LEMMA LeastNat ==
    ASSUME NEW T \in SUBSET Nat, T # {}
    PROVE  \E n \in T : \A m \in T : n <= m
<1>1. PICK n \in T : \A y \in T : ~(<<y, n>> \in OpToRel(<, Nat))
    BY NatLessThanWellFounded, WFMin
<1>2. \A y \in T : ~(y < n)
    BY <1>1 DEF OpToRel
<1> QED
    BY <1>2

\* Of a set of sequences without the empty one, the shortest extend others.
LEMMA FirstAppend ==
    ASSUME NEW S, NEW T \in SUBSET Seq(S), T # {}, <<>> \notin T
    PROVE  \E s \in Seq(S), e \in S : s \notin T /\ Append(s, e) \in T
<1> DEFINE lengths == {n \in Nat : \E s \in T : Len(s) = n}
<1>1. lengths # {}
    BY LenProperties
<1>2. PICK n \in lengths : \A m \in lengths : n <= m
    BY <1>1, LeastNat
<1>3. PICK t \in T : Len(t) = n
    BY <1>2
<1>4. t # <<>>
    BY <1>3
<1>5. PICK s \in Seq(S), e \in S : t = Append(s, e)
    BY <1>4, SequenceEmptyOrAppend
<1>6. Len(s) \in Nat /\ Len(t) = Len(s) + 1
    BY <1>5, LenProperties, AppendProperties
<1>7. s \notin T
    BY <1>2, <1>3, <1>6
<1> QED
    BY <1>3, <1>5, <1>7

--------------------------------------------------------------------------------
(* The limiter's filter.                                                      *)

\* What the loop of the filter has kept after each of the first n attempts.
Kept(f, ages, n) ==
    f = [i \in 0 .. n |-> IF i = 0 THEN <<>>
                          ELSE IF ages[i] < Window THEN Append(f[i - 1], ages[i])
                          ELSE f[i - 1]]

\* The loop can be run to any point.
LEMMA KeptExists ==
    ASSUME NEW ages, NEW n \in Nat
    PROVE  \E f : Kept(f, ages, n)
<1> DEFINE T == {k \in Nat : ~ \E f : Kept(f, ages, k)}
<1>1. SUFFICES ASSUME T # {} PROVE FALSE
    OBVIOUS
<1>2. PICK k \in T : \A m \in T : k <= m
    BY <1>1, LeastNat
<1>3. k # 0
    <2>1. Kept([i \in 0 .. 0 |-> <<>>], ages, 0)
        BY DEF Kept
    <2> QED
        BY <2>1
<1>4. k - 1 \in Nat /\ k - 1 \notin T
    BY <1>2, <1>3
<1>5. PICK f : Kept(f, ages, k - 1)
    BY <1>4
<1> DEFINE last == IF ages[k] < Window THEN Append(f[k - 1], ages[k])
                   ELSE f[k - 1]
           g == [i \in 0 .. k |-> IF i = k THEN last ELSE f[i]]
<1>6. \A i \in 0 .. k : g[i] =
            (IF i = 0 THEN <<>>
             ELSE IF ages[i] < Window THEN Append(g[i - 1], ages[i])
             ELSE g[i - 1])
    <2> TAKE i \in 0 .. k
    <2>1. CASE i = k
        BY <2>1, <1>3
    <2>2. CASE i # k
        <3>1. i \in 0 .. k - 1 /\ g[i] = f[i] /\ (i # 0 => g[i - 1] = f[i - 1])
            BY <2>2
        <3> HIDE DEF g, last
        <3> QED
            BY <3>1, <1>5 DEF Kept
    <2> QED
        BY <2>1, <2>2
<1>7. g = [i \in 0 .. k |-> g[i]]
    OBVIOUS
<1>8. Kept(g, ages, k)
    <2> HIDE DEF g
    <2> QED
        BY <1>6, <1>7 DEF Kept
<1> QED
    BY <1>8, <1>2

\* Two runs of the loop over the same attempts keep the same.
LEMMA KeptAgrees ==
    ASSUME NEW s, NEW t, NEW f, NEW g, NEW n \in Nat, NEW m \in Nat, n <= m,
           Kept(f, s, n), Kept(g, t, m), \A i \in 1 .. n : s[i] = t[i]
    PROVE  f[n] = g[n]
<1> DEFINE T == {i \in Nat : i <= n /\ f[i] # g[i]}
<1>1. SUFFICES ASSUME T # {} PROVE FALSE
    OBVIOUS
<1>2. PICK i \in T : \A j \in T : i <= j
    BY <1>1, LeastNat
<1>3. i # 0
    BY <1>2 DEF Kept
<1>4. f[i - 1] = g[i - 1]
    BY <1>2, <1>3
<1>5. i \in 0 .. n /\ i \in 0 .. m /\ s[i] = t[i]
    BY <1>2, <1>3
<1>6. f[i] = IF s[i] < Window THEN Append(f[i - 1], s[i]) ELSE f[i - 1]
    BY <1>3, <1>5 DEF Kept
<1>7. g[i] = IF t[i] < Window THEN Append(g[i - 1], t[i]) ELSE g[i - 1]
    BY <1>3, <1>5 DEF Kept
<1> QED
    BY <1>2, <1>4, <1>5, <1>6, <1>7

\* The filter keeps what the loop has kept in the end.
LEMMA RecentIsKept ==
    ASSUME NEW ages, Len(ages) \in Nat
    PROVE  \E f : Kept(f, ages, Len(ages)) /\ Recent(ages) = f[Len(ages)]
<1> DEFINE F == CHOOSE f : Kept(f, ages, Len(ages))
<1>1. Kept(F, ages, Len(ages))
    BY KeptExists
<1>2. Recent(ages) = F[Len(ages)]
    BY DEF Recent, Kept
<1> QED
    BY <1>1, <1>2

\* Nothing is kept of nothing.
LEMMA RecentEmpty == Recent(<<>>) = <<>>
<1>1. Len(<<>>) = 0
    BY EmptySeq
<1> QED
    BY <1>1, RecentIsKept DEF Kept

\* An attempt is looked at after those before it.
LEMMA RecentAppend ==
    ASSUME NEW s \in Seq(Nat), NEW e \in Nat
    PROVE  Recent(Append(s, e)) =
              IF e < Window THEN Append(Recent(s), e) ELSE Recent(s)
<1> DEFINE t == Append(s, e)
<1>1. /\ Len(s) \in Nat /\ Len(t) = Len(s) + 1
      /\ \A i \in 1 .. Len(s) : s[i] = t[i]
      /\ t[Len(s) + 1] = e
    BY LenProperties, AppendProperties
<1>2. PICK f : Kept(f, s, Len(s)) /\ Recent(s) = f[Len(s)]
    BY <1>1, RecentIsKept
<1> HIDE DEF t
<1>3. PICK g : Kept(g, t, Len(t)) /\ Recent(t) = g[Len(t)]
    BY <1>1, RecentIsKept
<1>4. f[Len(s)] = g[Len(s)]
    BY <1>1, <1>2, <1>3, KeptAgrees
<1>5. g[Len(t)] = IF e < Window THEN Append(g[Len(s)], e) ELSE g[Len(s)]
    <2>1. Len(t) \in 0 .. Len(t) /\ Len(t) # 0 /\ Len(t) - 1 = Len(s)
        BY <1>1
    <2>2. g[Len(t)] = IF t[Len(t)] < Window
                      THEN Append(g[Len(t) - 1], t[Len(t)]) ELSE g[Len(t) - 1]
        BY <2>1, <1>3 DEF Kept
    <2> QED
        BY <2>1, <2>2, <1>1
<1> QED
    BY <1>2, <1>3, <1>4, <1>5 DEF t

\* Only recent attempts are kept, and no more than there were.
LEMMA RecentType ==
    ASSUME NEW s \in Seq(Nat)
    PROVE  /\ Recent(s) \in Seq(0 .. Window - 1)
           /\ Len(Recent(s)) <= Len(s)
<1> DEFINE Holds(x) == /\ Recent(x) \in Seq(0 .. Window - 1)
                       /\ Len(Recent(x)) <= Len(x)
           T == {x \in Seq(Nat) : ~Holds(x)}
<1>1. SUFFICES ASSUME T # {} PROVE FALSE
    OBVIOUS
<1>2. <<>> \notin T
    <2>1. <<>> \in Seq(0 .. Window - 1) /\ Len(<<>>) = 0
        BY EmptySeq
    <2>2. Recent(<<>>) \in Seq(0 .. Window - 1) /\ Len(Recent(<<>>)) = 0
        BY <2>1, RecentEmpty, Zenon
    <2>3. Len(Recent(<<>>)) <= Len(<<>>)
        BY <2>1, <2>2
    <2>4. Holds(<<>>)
        BY <2>2, <2>3, Zenon
    <2> QED
        BY <2>4
<1>3. PICK t \in Seq(Nat), e \in Nat : t \notin T /\ Append(t, e) \in T
    BY <1>1, <1>2, FirstAppend
<1>4. Holds(t)
    BY <1>3
<1>5. Len(t) \in Nat /\ Len(Recent(t)) \in Nat /\ Len(Append(t, e)) = Len(t) + 1
    BY <1>4, LenProperties, AppendProperties
<1>6. Holds(Append(t, e))
    <2>1. CASE e < Window
        <3>1. Window \in Nat /\ e \in 0 .. Window - 1
            BY <2>1, LimiterAssumption
        <3>2. Recent(Append(t, e)) = Append(Recent(t), e)
            BY <2>1, RecentAppend
        <3>3. /\ Append(Recent(t), e) \in Seq(0 .. Window - 1)
              /\ Len(Append(Recent(t), e)) = Len(Recent(t)) + 1
            BY <3>1, <1>4, AppendProperties
        <3> QED
            BY <3>2, <3>3, <1>4, <1>5
    <2>2. CASE ~(e < Window)
        <3>1. Recent(Append(t, e)) = Recent(t)
            BY <2>2, RecentAppend
        <3> QED
            BY <3>1, <1>4, <1>5
    <2> QED
        BY <2>1, <2>2
<1> QED
    BY <1>3, <1>6

\* Nothing more is filtered out of recent attempts.
LEMMA RecentStays ==
    ASSUME NEW s \in Seq(0 .. Window - 1)
    PROVE  Recent(s) = s
<1> DEFINE R == 0 .. Window - 1
           T == {x \in Seq(R) : Recent(x) # x}
<1>1. SUFFICES ASSUME T # {} PROVE FALSE
    OBVIOUS
<1>2. <<>> \notin T
    BY RecentEmpty
<1>3. PICK t \in Seq(R), e \in R : t \notin T /\ Append(t, e) \in T
    <2> HIDE DEF R
    <2> QED
        BY <1>1, <1>2, FirstAppend
<1>4. t \in Seq(Nat) /\ e \in Nat /\ e < Window
    <2>1. Window \in Nat /\ R \subseteq Nat
        BY LimiterAssumption
    <2> QED
        BY <2>1, SeqMonotonic
<1>5. Recent(Append(t, e)) = Append(Recent(t), e)
    BY <1>4, RecentAppend
<1> QED
    BY <1>3, <1>5

\* Ages stay ages.
LEMMA OlderType ==
    ASSUME NEW s \in Seq(0 .. Window)
    PROVE  /\ Older(s) \in Seq(0 .. Window)
           /\ Len(Older(s)) = Len(s)
           /\ \A i \in 1 .. Len(s) :
                 Older(s)[i] = IF s[i] < Window THEN s[i] + 1 ELSE Window
<1> DEFINE R == 0 .. Window
           Next(age) == IF age < Window THEN age + 1 ELSE Window
<1>1. \A age \in R : Next(age) \in R
    BY LimiterAssumption
<1>2. Len(s) \in Nat /\ s \in [1 .. Len(s) -> R] /\ DOMAIN s = 1 .. Len(s)
    BY LenProperties
<1>3. Older(s) = [i \in 1 .. Len(s) |-> Next(s[i])]
    BY <1>2 DEF Older
<1> HIDE DEF R, Next
<1>4. \A i \in 1 .. Len(s) : Next(s[i]) \in R
    BY <1>1, <1>2
<1>5. Older(s) \in Seq(R) /\ Len(Older(s)) = Len(s)
    BY <1>2, <1>3, <1>4
<1> QED
    BY <1>3, <1>5 DEF R, Next

\* Each attempt grows older by itself.
LEMMA OlderAppend ==
    ASSUME NEW s \in Seq(0 .. Window), NEW e \in 0 .. Window
    PROVE  Older(Append(s, e)) =
              Append(Older(s), IF e < Window THEN e + 1 ELSE Window)
<1> DEFINE R == 0 .. Window
           e1 == IF e < Window THEN e + 1 ELSE Window
<1>1. e1 \in R
    BY LimiterAssumption
<1>2. /\ Append(s, e) \in Seq(R) /\ Len(Append(s, e)) = Len(s) + 1
      /\ Append(s, e)[Len(s) + 1] = e
      /\ \A i \in 1 .. Len(s) : Append(s, e)[i] = s[i]
      /\ Len(s) \in Nat
    BY AppendProperties, LenProperties
<1>3. /\ Older(Append(s, e)) \in Seq(R)
      /\ Len(Older(Append(s, e))) = Len(s) + 1
      /\ \A i \in 1 .. Len(s) + 1 :
            Older(Append(s, e))[i] = IF Append(s, e)[i] < Window
                                     THEN Append(s, e)[i] + 1 ELSE Window
    BY <1>2, OlderType
<1>4. /\ Older(s) \in Seq(R) /\ Len(Older(s)) = Len(s)
      /\ \A i \in 1 .. Len(s) :
            Older(s)[i] = IF s[i] < Window THEN s[i] + 1 ELSE Window
    BY OlderType
<1> HIDE DEF R
<1>5. /\ Append(Older(s), e1) \in Seq(R)
      /\ Len(Append(Older(s), e1)) = Len(s) + 1
      /\ \A i \in 1 .. Len(s) : Append(Older(s), e1)[i] = Older(s)[i]
      /\ Append(Older(s), e1)[Len(s) + 1] = e1
    BY <1>1, <1>4, AppendProperties
<1>6. \A i \in 1 .. Len(s) + 1 : Older(Append(s, e))[i] = Append(Older(s), e1)[i]
    <2> TAKE i \in 1 .. Len(s) + 1
    <2>1. i = Len(s) + 1 \/ i \in 1 .. Len(s)
        BY <1>2
    <2>2. CASE i = Len(s) + 1
        BY <2>2, <1>2, <1>3, <1>5
    <2>3. CASE i \in 1 .. Len(s)
        BY <2>3, <1>2, <1>3, <1>4, <1>5
    <2> QED
        BY <2>1, <2>2, <2>3
<1> QED
    BY <1>3, <1>5, <1>6, SeqEqual

\* What has not been kept does not become recent by growing older.
LEMMA RecentOlder ==
    ASSUME NEW s \in Seq(0 .. Window)
    PROVE  /\ Older(s) \in Seq(0 .. Window)
           /\ Recent(Older(s)) = Recent(Older(Recent(s)))
<1> DEFINE R == 0 .. Window
           Holds(x) == /\ Older(x) \in Seq(R)
                       /\ Recent(Older(x)) = Recent(Older(Recent(x)))
           T == {x \in Seq(R) : ~Holds(x)}
<1>0. Window \in Nat \ {0} /\ R \subseteq Nat /\ 0 .. Window - 1 \subseteq R
    BY LimiterAssumption
<1>1. SUFFICES ASSUME T # {} PROVE FALSE
    OBVIOUS
<1>2. <<>> \notin T
    <2>1. Older(<<>>) = <<>>
        BY DEF Older
    <2> QED
        BY <2>1, RecentEmpty, EmptySeq
<1>3. PICK t \in Seq(R), e \in R : t \notin T /\ Append(t, e) \in T
    <2> HIDE DEF R, Holds
    <2> QED
        BY <1>1, <1>2, FirstAppend
<1>4. Holds(t)
    BY <1>3
<1> DEFINE e1 == IF e < Window THEN e + 1 ELSE Window
<1>5. t \in Seq(Nat) /\ e \in Nat /\ e1 \in R /\ e1 \in Nat
    BY <1>0, SeqMonotonic
<1>6. Older(Append(t, e)) = Append(Older(t), e1)
    BY OlderAppend, <1>0
<1>7. Recent(t) \in Seq(R) /\ Recent(t) \in Seq(Nat)
    BY <1>0, <1>5, RecentType, SeqMonotonic
<1>8. Older(t) \in Seq(Nat) /\ Older(Recent(t)) \in Seq(Nat)
    <2>1. Older(Recent(t)) \in Seq(R)
        BY <1>7, OlderType
    <2> QED
        BY <1>0, <1>4, <2>1, SeqMonotonic
<1>9. Holds(Append(t, e))
    <2>1. Older(Append(t, e)) \in Seq(R)
        BY <1>4, <1>5, <1>6, AppendProperties
    <2>2. CASE e < Window
        <3>1. Recent(Append(t, e)) = Append(Recent(t), e)
            BY <2>2, <1>5, RecentAppend
        <3>2. Older(Append(Recent(t), e)) = Append(Older(Recent(t)), e1)
            BY <1>0, <1>7, OlderAppend
        <3>3. Recent(Append(Older(t), e1)) =
                  IF e1 < Window THEN Append(Recent(Older(t)), e1)
                  ELSE Recent(Older(t))
            BY <1>5, <1>8, RecentAppend
        <3>4. Recent(Append(Older(Recent(t)), e1)) =
                  IF e1 < Window THEN Append(Recent(Older(Recent(t))), e1)
                  ELSE Recent(Older(Recent(t)))
            BY <1>5, <1>8, RecentAppend
        <3> HIDE DEF e1
        <3> QED
            BY <2>1, <3>1, <3>2, <3>3, <3>4, <1>4, <1>6
    <2>3. CASE ~(e < Window)
        <3>1. Recent(Append(t, e)) = Recent(t)
            BY <2>3, <1>5, RecentAppend
        <3>2. e1 = Window /\ ~(e1 < Window)
            BY <2>3, <1>0
        <3>3. Recent(Append(Older(t), e1)) = Recent(Older(t))
            BY <3>2, <1>5, <1>8, RecentAppend
        <3> QED
            BY <2>1, <3>1, <3>3, <1>4, <1>6
    <2> QED
        BY <2>2, <2>3
<1> QED
    BY <1>3, <1>9

--------------------------------------------------------------------------------
(* The limiter.                                                               *)

LimiterInv == LimiterTypeOK /\ WindowBound

\* Nothing has been granted.
LEMMA LimiterInvInit == LimiterInit => LimiterInv
<1> SUFFICES ASSUME LimiterInit PROVE LimiterInv
    OBVIOUS
<1>1. LimiterTypeOK
    BY EmptySeq DEF LimiterInit, LimiterTypeOK
<1>2. WindowBound
    <2>1. Len(<<>>) <= MaxAttempts
        BY EmptySeq, LimiterAssumption
    <2>2. \A ip \in Addresses : attempts[ip] = <<>> /\ grants[ip] = <<>>
        BY DEF LimiterInit
    <2> QED
        BY <2>1, <2>2, RecentEmpty DEF WindowBound
<1> QED
    BY <1>1, <1>2 DEF LimiterInv

\* What the filter returns of an address's attempts, in states of the limiter.
LEMMA LimiterFacts ==
    ASSUME LimiterInv, NEW ip \in Addresses
    PROVE  /\ attempts[ip] \in Seq(0 .. Window) /\ attempts[ip] \in Seq(Nat)
           /\ grants[ip] \in Seq(0 .. Window - 1) /\ grants[ip] \in Seq(0 .. Window)
           /\ Recent(attempts[ip]) = grants[ip]
           /\ Recent(grants[ip]) = grants[ip]
           /\ Len(grants[ip]) \in Nat /\ Len(grants[ip]) <= MaxAttempts
<1>1. 0 .. Window \subseteq Nat /\ 0 .. Window - 1 \subseteq 0 .. Window
    BY LimiterAssumption
<1>2. attempts[ip] \in Seq(0 .. Window) /\ grants[ip] \in Seq(0 .. Window - 1)
    BY DEF LimiterInv, LimiterTypeOK
<1>3. attempts[ip] \in Seq(Nat) /\ grants[ip] \in Seq(0 .. Window)
    BY <1>1, <1>2, SeqMonotonic
<1>4. Recent(grants[ip]) = grants[ip] /\ Len(grants[ip]) \in Nat
    BY <1>2, RecentStays, LenProperties
<1> QED
    BY <1>2, <1>3, <1>4 DEF LimiterInv, WindowBound

\* What each operation makes of an address's attempts and grants.
LEMMA LimiterStep ==
    ASSUME LimiterInv,
           \/ Tick
           \/ Cleanup
           \/ \E ip \in Addresses : Grant(ip)
           \/ \E ip \in Addresses : Refuse(ip)
           \/ UNCHANGED limiterVars
    PROVE  LimiterInv'
<1>0. Window \in Nat \ {0} /\ MaxAttempts \in Nat \ {0}
    BY LimiterAssumption
<1> DEFINE Good(as, gs) == /\ as \in Seq(0 .. Window)
                           /\ gs \in Seq(0 .. Window - 1)
                           /\ Len(gs) <= MaxAttempts
                           /\ Recent(as) = gs
<1>1. SUFFICES /\ attempts' = [ip \in Addresses |-> attempts'[ip]]
               /\ grants' = [ip \in Addresses |-> grants'[ip]]
               /\ \A ip \in Addresses : Good(attempts'[ip], grants'[ip])
    <2> HIDE DEF Recent
    <2> QED
        BY DEF LimiterInv, LimiterTypeOK, WindowBound
<1>a. /\ attempts = [ip \in Addresses |-> attempts[ip]]
      /\ grants = [ip \in Addresses |-> grants[ip]]
      /\ \A ip \in Addresses : Good(attempts[ip], grants[ip])
    BY LimiterFacts DEF LimiterInv, LimiterTypeOK
<1>b. \A ip \in Addresses : Good(Recent(attempts[ip]), grants[ip])
    <2> TAKE ip \in Addresses
    <2>1. Recent(attempts[ip]) = grants[ip]
        BY LimiterFacts
    <2>2. Good(grants[ip], grants[ip])
        BY LimiterFacts
    <2> QED
        BY <2>1, <2>2
<1>2. CASE Tick
    <2>1. ASSUME NEW ip \in Addresses
          PROVE  Good(Older(attempts[ip]), Recent(Older(grants[ip])))
        <3>1. /\ Older(attempts[ip]) \in Seq(0 .. Window)
              /\ Recent(Older(attempts[ip])) = Recent(Older(grants[ip]))
            BY LimiterFacts, RecentOlder
        <3>2. /\ Older(grants[ip]) \in Seq(0 .. Window)
              /\ Len(Older(grants[ip])) = Len(grants[ip])
            BY LimiterFacts, OlderType
        <3>3. Older(grants[ip]) \in Seq(Nat)
            BY <1>0, <3>2, SeqMonotonic
        <3>4. /\ Recent(Older(grants[ip])) \in Seq(0 .. Window - 1)
              /\ Len(Recent(Older(grants[ip]))) <= Len(grants[ip])
            BY <3>2, <3>3, RecentType
        <3>5. /\ Len(Recent(Older(grants[ip]))) \in Nat
              /\ Len(grants[ip]) \in Nat /\ Len(grants[ip]) <= MaxAttempts
            BY <3>4, LenProperties, LimiterFacts
        <3> QED
            BY <1>0, <3>1, <3>4, <3>5
    <2> HIDE DEF Good
    <2> QED
        BY <1>2, <2>1 DEF Tick
<1>3. CASE Cleanup
    <2> HIDE DEF Good
    <2> QED
        BY <1>3, <1>a, <1>b DEF Cleanup
<1>4. ASSUME NEW ip \in Addresses, Grant(ip)
      PROVE  /\ attempts' = [a \in Addresses |-> attempts'[a]]
             /\ grants' = [a \in Addresses |-> grants'[a]]
             /\ \A a \in Addresses : Good(attempts'[a], grants'[a])
    <2>1. Recent(attempts[ip]) = grants[ip] /\ Len(grants[ip]) < MaxAttempts
        BY <1>4, LimiterFacts DEF Grant
    <2>2. /\ attempts' = [attempts EXCEPT ![ip] = Append(grants[ip], 0)]
          /\ grants' = [grants EXCEPT ![ip] = Append(grants[ip], 0)]
        BY <1>4, <2>1 DEF Grant
    <2>3. /\ grants[ip] \in Seq(0 .. Window - 1) /\ grants[ip] \in Seq(0 .. Window)
          /\ grants[ip] \in Seq(Nat) /\ Len(grants[ip]) \in Nat
          /\ Recent(grants[ip]) = grants[ip]
        BY <1>0, LimiterFacts, SeqMonotonic
    <2>4. /\ Append(grants[ip], 0) \in Seq(0 .. Window)
          /\ Append(grants[ip], 0) \in Seq(0 .. Window - 1)
          /\ Len(Append(grants[ip], 0)) = Len(grants[ip]) + 1
        BY <1>0, <2>3, AppendProperties
    <2>5. Recent(Append(grants[ip], 0)) = Append(grants[ip], 0)
        BY <1>0, <2>3, RecentAppend
    <2>6. Good(Append(grants[ip], 0), Append(grants[ip], 0))
        BY <1>0, <2>1, <2>3, <2>4, <2>5
    <2> HIDE DEF Good
    <2> QED
        BY <1>a, <2>2, <2>6
<1>5. ASSUME NEW ip \in Addresses, Refuse(ip)
      PROVE  /\ attempts' = [a \in Addresses |-> attempts'[a]]
             /\ grants' = [a \in Addresses |-> grants'[a]]
             /\ \A a \in Addresses : Good(attempts'[a], grants'[a])
    <2> HIDE DEF Good
    <2> QED
        BY <1>5, <1>a, <1>b DEF Refuse
<1>6. CASE UNCHANGED limiterVars
    <2> HIDE DEF Good
    <2> QED
        BY <1>6, <1>a DEF limiterVars
<1> HIDE DEF Good
<1> QED
    BY <1>2, <1>3, <1>4, <1>5, <1>6

\* No address is granted more than MaxAttempts requests in any window, and what
\* the limiter counts against it is exactly what it was granted in that window.
THEOREM NoMoreThanMaxAttempts == IngestSpec => []WindowBound
<1>1. IngestInit => LimiterInv
    BY LimiterInvInit DEF IngestInit
<1>2. LimiterInv /\ [IngestNext]_ingestVars => LimiterInv'
    <2> SUFFICES ASSUME LimiterInv, [IngestNext]_ingestVars PROVE LimiterInv'
        OBVIOUS
    <2>1. \/ Tick
          \/ Cleanup
          \/ \E ip \in Addresses : Grant(ip)
          \/ \E ip \in Addresses : Refuse(ip)
          \/ UNCHANGED limiterVars
        BY DEF IngestNext, Admit, TurnAway, Malformed, Report, IngestTick,
               IngestCleanup, ingestVars
    <2> QED
        BY <2>1, LimiterStep
<1>3. LimiterInv => WindowBound
    BY DEF LimiterInv
<1> QED
    BY <1>1, <1>2, <1>3, PTL DEF IngestSpec

--------------------------------------------------------------------------------
(* The ring of reports.                                                       *)

\* What normalize makes of the reports that arrive.
Reports == {Normalize(r) : r \in Inputs}

InflightInv == inflight \in [Handlers -> Inputs \cup {NIL}]

\* Which of the reports recorded a slot of the ring holds.
Slot(j) ==
    IF total < RingCapacity THEN j
    ELSE IF j > ringNext THEN total - RingCapacity + (j - ringNext)
    ELSE total - ringNext + j

RingInv ==
    /\ recorded \in Seq(Reports)
    /\ ring \in Seq(Reports)
    /\ total = Len(recorded)
    /\ Len(ring) = Least(total, RingCapacity)
    /\ ringNext \in 0 .. RingCapacity - 1
    /\ total < RingCapacity => ringNext = 0
    /\ \A j \in 1 .. Len(ring) : ring[j] = recorded[Slot(j)]

\* The next slot is the following one, or the first after the last.
LEMMA NextSlot ==
    ASSUME NEW n \in 0 .. RingCapacity - 1
    PROVE  (n + 1) % RingCapacity = IF n + 1 = RingCapacity THEN 0 ELSE n + 1
BY TelemetryAssumption

\* An empty ring holds the reports recorded.
LEMMA RingInvInit == TelemetryInit => RingInv
BY EmptySeq, TelemetryAssumption DEF TelemetryInit, RingInv, Least

\* A report goes to the slot of the oldest one.
LEMMA RingInvRecord ==
    ASSUME RingInv, NEW r \in Reports, Record(r)
    PROVE  RingInv'
<1>0. RingCapacity \in Nat \ {0}
    BY TelemetryAssumption
<1>1. /\ total \in Nat /\ total' = total + 1 /\ total = Len(recorded)
      /\ recorded' = Append(recorded, r) /\ recorded' \in Seq(Reports)
      /\ total' = Len(recorded')
      /\ \A i \in 1 .. total : recorded'[i] = recorded[i]
      /\ recorded'[total + 1] = r
    <2> HIDE DEF Reports
    <2> QED
        BY LenProperties, AppendProperties DEF RingInv, Record
<1>2. CASE Len(ring) < RingCapacity
    <2>1. /\ ring' = Append(ring, r) /\ ringNext' = ringNext
          /\ Len(ring) = total /\ total < RingCapacity /\ ringNext = 0
        BY <1>0, <1>1, <1>2 DEF Record, Store, RingInv, Least
    <2>2. /\ ring' \in Seq(Reports) /\ Len(ring') = total + 1
          /\ \A j \in 1 .. total : ring'[j] = ring[j]
          /\ ring'[total + 1] = r
        <3> HIDE DEF Reports
        <3> QED
            BY <2>1, AppendProperties DEF RingInv
    <2>3. \A j \in 1 .. total : ring[j] = recorded[j]
        BY <2>1 DEF RingInv, Slot
    <2>4. Len(ring') = Least(total', RingCapacity)
        BY <1>0, <1>1, <2>1, <2>2 DEF Least
    <2>5. ASSUME NEW j \in 1 .. total + 1
          PROVE  ring'[j] = recorded'[j] /\ Slot(j)' = j
        <3>1. Slot(j)' = j
            BY <1>0, <1>1, <2>1 DEF Slot
        <3>2. j = total + 1 \/ j \in 1 .. total
            BY <1>1
        <3> QED
            BY <3>1, <3>2, <1>1, <2>2, <2>3
    <2> HIDE DEF Reports, Slot
    <2> QED
        BY <1>0, <1>1, <2>1, <2>2, <2>4, <2>5 DEF RingInv
<1>3. CASE ~(Len(ring) < RingCapacity)
    <2> DEFINE n == ringNext
    <2>1. /\ ring' = [ring EXCEPT ![n + 1] = r]
          /\ ringNext' = (n + 1) % RingCapacity
          /\ Len(ring) = RingCapacity /\ total >= RingCapacity
          /\ n \in 0 .. RingCapacity - 1 /\ n + 1 \in 1 .. Len(ring)
        BY <1>0, <1>1, <1>3 DEF Record, Store, RingInv, Least
    <2>2. ringNext' = IF n + 1 = RingCapacity THEN 0 ELSE n + 1
        BY <2>1, NextSlot
    <2>3. /\ ring' \in Seq(Reports) /\ Len(ring') = RingCapacity
          /\ \A j \in 1 .. RingCapacity :
                ring'[j] = IF j = n + 1 THEN r ELSE ring[j]
        <3> HIDE DEF Reports
        <3> QED
            BY <2>1, ExceptSeq DEF RingInv
    <2>4. \A j \in 1 .. RingCapacity :
              ring[j] = recorded[IF j > n THEN total - RingCapacity + (j - n)
                                 ELSE total - n + j]
        BY <1>1, <2>1 DEF RingInv, Slot
    <2>5. ASSUME NEW j \in 1 .. RingCapacity
          PROVE  ring'[j] = recorded'[Slot(j)']
        <3>1. CASE j = n + 1
            <4>1. Slot(j)' = total + 1
                BY <3>1, <1>0, <1>1, <2>1, <2>2 DEF Slot
            <4> QED
                BY <3>1, <4>1, <1>1, <2>3
        <3>2. CASE j > n + 1
            <4>1. /\ Slot(j)' = total - RingCapacity + (j - n)
                  /\ total - RingCapacity + (j - n) \in 1 .. total
                BY <3>2, <1>0, <1>1, <2>1, <2>2 DEF Slot
            <4> QED
                BY <3>2, <4>1, <1>1, <2>1, <2>3, <2>4
        <3>3. CASE j <= n
            <4>0. /\ RingCapacity \in Nat \ {0} /\ total \in Nat /\ total' = total + 1
                  /\ n \in 0 .. RingCapacity - 1 /\ total >= RingCapacity
                  /\ ~(total' < RingCapacity) /\ j \in 1 .. RingCapacity
                BY <1>0, <1>1, <2>1
            <4>1. total - n + j \in 1 .. total /\ j # n + 1 /\ ~(j > n)
                BY <3>3, <4>0
            <4>2. CASE n + 1 = RingCapacity
                <5>1. ringNext' = 0 /\ j > 0
                    BY <4>2, <2>2, <4>0
                <5>2. Slot(j)' = total + 1 - RingCapacity + (j - 0)
                    BY <5>1, <4>0 DEF Slot
                <5>3. Slot(j)' = total - n + j
                    BY <4>2, <5>2, <4>0
                <5> QED
                    BY <4>1, <5>3, <1>1, <2>3, <2>4
            <4>3. CASE n + 1 # RingCapacity
                <5>1. ringNext' = n + 1 /\ ~(j > n + 1)
                    BY <4>1, <4>3, <2>2, <4>0
                <5>2. Slot(j)' = total + 1 - (n + 1) + j
                    BY <5>1, <4>0 DEF Slot
                <5>3. Slot(j)' = total - n + j
                    BY <5>2, <4>0
                <5> QED
                    BY <4>1, <5>3, <1>1, <2>3, <2>4
            <4> QED
                BY <4>2, <4>3
        <3> QED
            BY <2>1, <3>1, <3>2, <3>3
    <2>6. /\ Len(ring') = Least(total', RingCapacity)
          /\ ringNext' \in 0 .. RingCapacity - 1
          /\ ~(total' < RingCapacity)
        BY <1>0, <1>1, <2>1, <2>2, <2>3 DEF Least
    <2> HIDE DEF Reports, Slot
    <2> QED
        BY <1>1, <2>3, <2>5, <2>6 DEF RingInv
<1> QED
    BY <1>2, <1>3

\* In the order of snapshot, the ring holds the latest reports, newest first.
LEMMA RingSnapshot == RingInv => SnapshotIsLatest
<1> SUFFICES ASSUME RingInv PROVE SnapshotIsLatest
    OBVIOUS
<1> DEFINE n == ringNext
           chron == IF Len(ring) < RingCapacity THEN ring
                    ELSE SubSeq(ring, n + 1, Len(ring)) \o SubSeq(ring, 1, n)
<1>0. RingCapacity \in Nat \ {0}
    BY TelemetryAssumption
<1>1. /\ total \in Nat /\ Len(ring) \in Nat /\ DOMAIN ring = 1 .. Len(ring)
      /\ n \in 0 .. RingCapacity - 1 /\ Len(ring) = Least(total, RingCapacity)
    <2> HIDE DEF Reports
    <2> QED
        BY LenProperties DEF RingInv
<1>2. /\ Len(chron) = Least(total, RingCapacity)
      /\ DOMAIN chron = 1 .. Len(chron)
      /\ \A k \in 1 .. Len(chron) :
            chron[k] = recorded[total - Least(total, RingCapacity) + k]
    <2>1. CASE Len(ring) < RingCapacity
        <3>1. Least(total, RingCapacity) = total /\ total < RingCapacity
            BY <1>0, <1>1, <2>1 DEF Least
        <3>2. \A k \in 1 .. total : ring[k] = recorded[k]
            BY <1>1, <3>1 DEF RingInv, Slot
        <3>3. \A k \in 1 .. total : total - total + k = k
            BY <1>1
        <3> QED
            BY <1>1, <2>1, <3>1, <3>2, <3>3
    <2>2. CASE ~(Len(ring) < RingCapacity)
        <3> DEFINE older == SubSeq(ring, n + 1, Len(ring))
                   newer == SubSeq(ring, 1, n)
        <3>1. Len(ring) = RingCapacity /\ total >= RingCapacity
              /\ Least(total, RingCapacity) = RingCapacity
            BY <1>0, <1>1, <2>2 DEF Least
        <3>2. \A j \in 1 .. RingCapacity : ring[j] \in Reports
            <4> HIDE DEF Reports
            <4> QED
                BY <3>1, ElementOfSeq DEF RingInv
        <3>3. /\ older \in Seq(Reports)
              /\ Len(older) = RingCapacity - n
              /\ \A k \in 1 .. RingCapacity - n : older[k] = ring[n + k]
            <4> HIDE DEF Reports
            <4>1. /\ n + 1 \in Int /\ RingCapacity \in Int /\ n + 1 <= RingCapacity
                  /\ \A j \in n + 1 .. RingCapacity : ring[j] \in Reports
                  /\ RingCapacity - (n + 1) + 1 = RingCapacity - n
                BY <1>0, <1>1, <3>2
            <4>2. /\ older \in Seq(Reports)
                  /\ Len(older) = RingCapacity - (n + 1) + 1
                  /\ \A k \in 1 .. RingCapacity - (n + 1) + 1 :
                        older[k] = ring[n + 1 + k - 1]
                BY <3>1, <4>1, SubSeqProperties
            <4> QED
                BY <1>0, <1>1, <4>1, <4>2
        <3>4. /\ newer \in Seq(Reports) /\ Len(newer) = n
              /\ \A k \in 1 .. n : newer[k] = ring[k]
            <4> HIDE DEF Reports
            <4>1. /\ n \in Int /\ \A j \in 1 .. n : ring[j] \in Reports
                BY <1>0, <1>1, <3>2
            <4>2. /\ newer \in Seq(Reports)
                  /\ Len(newer) = IF 1 <= n THEN n - 1 + 1 ELSE 0
                  /\ \A k \in 1 .. n - 1 + 1 : newer[k] = ring[1 + k - 1]
                BY <4>1, SubSeqProperties
            <4> QED
                BY <1>0, <1>1, <4>2
        <3> HIDE DEF older, newer
        <3>5. /\ older \o newer \in Seq(Reports)
              /\ Len(older \o newer) = RingCapacity
              /\ \A k \in 1 .. RingCapacity :
                    (older \o newer)[k] = IF k <= RingCapacity - n THEN older[k]
                                         ELSE newer[k - (RingCapacity - n)]
            <4> HIDE DEF Reports
            <4>1. RingCapacity - n + n = RingCapacity
                BY <1>0, <1>1
            <4>2. /\ older \o newer \in Seq(Reports)
                  /\ Len(older \o newer) = Len(older) + Len(newer)
                  /\ \A k \in 1 .. Len(older) + Len(newer) :
                        (older \o newer)[k] = IF k <= Len(older) THEN older[k]
                                             ELSE newer[k - Len(older)]
                BY <3>3, <3>4, ConcatProperties
            <4>3. Len(older) = RingCapacity - n /\ Len(newer) = n
                BY <3>3, <3>4
            <4> QED
                BY <4>1, <4>2, <4>3, Zenon
        <3>6. chron = older \o newer
            BY <2>2 DEF older, newer
        <3>7. ASSUME NEW k \in 1 .. RingCapacity
              PROVE  (older \o newer)[k] = recorded[total - RingCapacity + k]
            <4>1. \A j \in 1 .. RingCapacity :
                      ring[j] = recorded[IF j > n
                                         THEN total - RingCapacity + (j - n)
                                         ELSE total - n + j]
                BY <1>0, <1>1, <3>1 DEF RingInv, Slot
            <4>2. CASE k <= RingCapacity - n
                <5> DEFINE j == n + k
                <5>1. /\ j \in 1 .. RingCapacity /\ j > n
                      /\ total - RingCapacity + (j - n) = total - RingCapacity + k
                      /\ k \in 1 .. RingCapacity - n
                    BY <4>2, <1>0, <1>1
                <5>2. (older \o newer)[k] = ring[j]
                    BY <4>2, <5>1, <3>3, <3>5
                <5> HIDE DEF j
                <5>3. ring[j] = recorded[total - RingCapacity + (j - n)]
                    BY <4>1, <5>1
                <5> QED
                    BY <5>1, <5>2, <5>3
            <4>3. CASE ~(k <= RingCapacity - n)
                <5> DEFINE j == k - (RingCapacity - n)
                <5>1. /\ j \in 1 .. n /\ j \in 1 .. RingCapacity /\ ~(j > n)
                      /\ total - n + j = total - RingCapacity + k
                    BY <4>3, <1>0, <1>1
                <5> QED
                    BY <4>1, <4>3, <5>1, <3>4, <3>5
            <4> QED
                BY <4>2, <4>3
        <3>8. DOMAIN (older \o newer) = 1 .. RingCapacity
            <4> HIDE DEF Reports
            <4> QED
                BY <3>5, LenProperties
        <3> QED
            BY <3>1, <3>5, <3>6, <3>7, <3>8
    <2> QED
        BY <2>1, <2>2
<1> HIDE DEF chron
<1> DEFINE m == Least(total, RingCapacity)
<1>3. m \in Nat /\ m <= total
    BY <1>0, <1>1 DEF Least
<1>4. Snapshot = [i \in DOMAIN chron |-> chron[Len(chron) + 1 - i]]
    BY DEF Snapshot, chron
<1>5. ASSUME NEW i \in 1 .. m
      PROVE  chron[m + 1 - i] = recorded[total + 1 - i]
    <2>1. m + 1 - i \in 1 .. m /\ total - m + (m + 1 - i) = total + 1 - i
        BY <1>1, <1>3
    <2> QED
        BY <1>2, <2>1
<1> QED
    BY <1>2, <1>4, <1>5 DEF SnapshotIsLatest

--------------------------------------------------------------------------------
(* The breakdowns.                                                            *)

\* How many of the reports s a breakdown counts for each value.
CountsExact(f) ==
    /\ DOMAIN counts[f] = {recorded[i][f] : i \in 1 .. Len(recorded)}
    /\ DOMAIN counts[f] \subseteq Whitelist[f]
    /\ \A v \in DOMAIN counts[f] :
          counts[f][v] = Cardinality({i \in 1 .. Len(recorded) :
                                        recorded[i][f] = v})

\* Every field that is counted knows the word for what is not on its list.
LEMMA UnknownListed ==
    \A f \in Counted : f \in DOMAIN Whitelist /\ "unknown" \in Whitelist[f]
BY DEF Counted, Whitelist, CandidateTypes

\* A normalized report has words of the whitelists.
LEMMA ReportWords ==
    ASSUME NEW r \in Reports, NEW f \in Counted
    PROVE  r[f] \in Whitelist[f]
<1>1. PICK raw \in Inputs : r = Normalize(raw)
    BY DEF Reports
<1>2. r[f] = FoldEnum(raw[f], f)
    BY <1>1, UnknownListed DEF Normalize
<1> QED
    BY <1>2, UnknownListed DEF FoldEnum

\* The indices of the reports with a value are finitely many.
LEMMA IndicesFinite ==
    ASSUME NEW n \in Nat, NEW P
    PROVE  /\ IsFiniteSet({i \in 1 .. n : i \in P})
           /\ Cardinality({i \in 1 .. n : i \in P}) \in Nat
<1>1. IsFiniteSet(1 .. n)
    BY FS_Interval
<1> QED
    BY <1>1, FS_Subset, FS_CardinalityType

\* Recording a report counts it, under its value, and nothing else.
LEMMA CountsExactRecord ==
    ASSUME RingInv, NEW r \in Reports, Record(r), NEW f \in Counted, CountsExact(f)
    PROVE  CountsExact(f)'
<1> DEFINE n == Len(recorded)
           w == r[f]
           m == counts[f]
           Of(s, k, v) == {i \in 1 .. k : s[i][f] = v}
<1>1. /\ n \in Nat /\ Len(recorded') = n + 1 /\ recorded'[n + 1] = r
      /\ \A i \in 1 .. n : recorded'[i] = recorded[i]
    <2> HIDE DEF Reports
    <2> QED
        BY LenProperties, AppendProperties DEF RingInv, Record
<1>2. counts'[f] = CountedOnce(m, w)
    BY DEF Record
<1>3. 1 .. n + 1 = (1 .. n) \cup {n + 1} /\ n + 1 \notin 1 .. n
    BY <1>1
<1> HIDE DEF n
<1>4. /\ DOMAIN m = {recorded[i][f] : i \in 1 .. n}
      /\ DOMAIN m \subseteq Whitelist[f]
      /\ \A v \in DOMAIN m : m[v] = Cardinality(Of(recorded, n, v))
    BY DEF CountsExact, n
<1>5. DOMAIN counts'[f] = DOMAIN m \cup {w}
    BY <1>2 DEF CountedOnce
<1>6. DOMAIN counts'[f] = {recorded'[i][f] : i \in 1 .. n + 1}
    BY <1>1, <1>3, <1>4, <1>5
<1>7. DOMAIN counts'[f] \subseteq Whitelist[f]
    BY <1>4, <1>5, ReportWords
<1>8. ASSUME NEW v \in DOMAIN counts'[f]
      PROVE  counts'[f][v] = Cardinality(Of(recorded', n + 1, v))
    <2>1. counts'[f][v] = (IF v \in DOMAIN m THEN m[v] ELSE 0)
                            + (IF v = w THEN 1 ELSE 0)
        BY <1>2, <1>5, <1>8 DEF CountedOnce
    <2>2. /\ IsFiniteSet(Of(recorded, n, v))
          /\ Cardinality(Of(recorded, n, v)) \in Nat
        <3>1. Of(recorded, n, v) = {i \in 1 .. n : i \in Of(recorded, n, v)}
            OBVIOUS
        <3> QED
            BY <3>1, <1>1, IndicesFinite
    <2>3. (IF v \in DOMAIN m THEN m[v] ELSE 0) = Cardinality(Of(recorded, n, v))
        <3>1. CASE v \in DOMAIN m
            BY <3>1, <1>4
        <3>2. CASE v \notin DOMAIN m
            <4>1. Of(recorded, n, v) = {}
                BY <3>2, <1>4
            <4> QED
                BY <3>2, <4>1, FS_EmptySet
        <3> QED
            BY <3>1, <3>2
    <2>4. CASE v = w
        <3>1. Of(recorded', n + 1, v) = Of(recorded, n, v) \cup {n + 1}
            BY <2>4, <1>1, <1>3
        <3>2. n + 1 \notin Of(recorded, n, v)
            BY <1>3
        <3>3. Cardinality(Of(recorded', n + 1, v))
                = Cardinality(Of(recorded, n, v)) + 1
            BY <2>2, <3>1, <3>2, FS_AddElement
        <3> HIDE DEF m, w, Of
        <3> QED
            BY <2>1, <2>3, <2>4, <3>3
    <2>5. CASE v # w
        <3>1. Of(recorded', n + 1, v) = Of(recorded, n, v)
            BY <2>5, <1>1, <1>3
        <3> HIDE DEF m, w, Of
        <3> QED
            BY <2>1, <2>2, <2>3, <2>5, <3>1
    <2> QED
        BY <2>4, <2>5
<1> QED
    BY <1>1, <1>6, <1>7, <1>8 DEF CountsExact

--------------------------------------------------------------------------------
(* The results.                                                               *)

IngestInv == InflightInv /\ RingInv /\ \A f \in Counted : CountsExact(f)

\* Nothing has been recorded.
LEMMA IngestInvInit == IngestInit => IngestInv
<1> SUFFICES ASSUME IngestInit PROVE IngestInv
    OBVIOUS
<1>1. InflightInv /\ RingInv
    BY RingInvInit DEF IngestInit, InflightInv
<1>2. ASSUME NEW f \in Counted PROVE CountsExact(f)
    <2>1. counts[f] = <<>> /\ recorded = <<>>
        BY DEF IngestInit, TelemetryInit
    <2>2. Len(recorded) = 0 /\ DOMAIN counts[f] = {} /\ 1 .. 0 = {}
        BY <2>1, EmptySeq
    <2> QED
        BY <2>2 DEF CountsExact
<1> QED
    BY <1>1, <1>2 DEF IngestInv

\* Handlers record reports that arrived, one at a time.
LEMMA IngestInvStep == IngestInv /\ [IngestNext]_ingestVars => IngestInv'
<1> SUFFICES ASSUME IngestInv, [IngestNext]_ingestVars PROVE IngestInv'
    OBVIOUS
<1>1. InflightInv'
    BY DEF IngestInv, InflightInv, IngestNext, ingestVars, Admit, TurnAway,
           Malformed, Report, IngestTick, IngestCleanup
<1>2. CASE UNCHANGED telemetryVars
    BY <1>1, <1>2 DEF telemetryVars, IngestInv, RingInv, Slot, CountsExact
<1>3. ASSUME NEW h \in Handlers, Report(h)
      PROVE  RingInv' /\ \A f \in Counted : CountsExact(f)'
    <2>1. PICK r \in Reports : Record(r)
        BY <1>3 DEF Report, Reports, IngestInv, InflightInv
    <2> QED
        BY <2>1, RingInvRecord, CountsExactRecord DEF IngestInv
<1>4. \/ UNCHANGED telemetryVars
      \/ \E h \in Handlers : Report(h)
    BY DEF IngestNext, ingestVars, Admit, TurnAway, Malformed, IngestTick,
           IngestCleanup
<1>5. CASE \E h \in Handlers : Report(h)
    BY <1>1, <1>3, <1>5 DEF IngestInv
<1> QED
    BY <1>2, <1>4, <1>5

\* The telemetry invariant holds in every reachable state.
LEMMA IngestInvariant == IngestSpec => []IngestInv
BY IngestInvInit, IngestInvStep, PTL DEF IngestSpec

\* The admin's snapshot shows exactly the latest reports, newest first, for every
\* capacity of the ring and however often it has wrapped.
THEOREM RingShowsLatest == IngestSpec => []SnapshotIsLatest
<1>1. IngestInv => SnapshotIsLatest
    BY RingSnapshot DEF IngestInv
<1> QED
    BY <1>1, IngestInvariant, PTL

\* Every report is counted once in each breakdown under a word of the field's
\* whitelist, whatever words reports arrive with.
THEOREM EveryReportCounted == IngestSpec => []BreakdownsAgree
<1>1. IngestInv => BreakdownsAgree
    BY DEF IngestInv, RingInv, CountsExact, BreakdownsAgree
<1> QED
    BY <1>1, IngestInvariant, PTL
================================================================================
