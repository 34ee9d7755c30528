----------------------------- MODULE SignalProofs -----------------------------
(***************************************************************************)
(* The safety properties of Signal hold for any slots, handles and depth   *)
(* of nested emissions.  They rest on what the vector, the owner pointers  *)
(* and the emissions have to do with each other: a callback has its owner  *)
(* exactly as long as the vector of a signal that exists has it, once; an  *)
(* emission has nothing to do that was made after it began.                *)
(***************************************************************************)
EXTENDS Signal, SequenceTheorems, TLAPS

-----------------------------------------------------------------------------
(***************************************************************************)
(* Sequences                                                               *)
(***************************************************************************)

\* A sequence repeats nothing.
NoRepeats(s) == \A i, j \in DOMAIN s : s[i] = s[j] => i = j

LEMMA ToSetOfEmpty == ToSet(<<>>) = {} /\ NoRepeats(<<>>)
BY DEF ToSet, NoRepeats

\* What is in a sequence when something is appended.
LEMMA ToSetOfAppend ==
  ASSUME NEW S, NEW s \in Seq(S), NEW e \in S
  PROVE  /\ Append(s, e) \in Seq(S)
         /\ ToSet(Append(s, e)) = ToSet(s) \cup {e}
         /\ NoRepeats(s) /\ e \notin ToSet(s) => NoRepeats(Append(s, e))
         /\ \A x, y : Before(s, x, y) => Before(Append(s, e), x, y)
<1>1. /\ Append(s, e) \in Seq(S) /\ Len(Append(s, e)) = Len(s) + 1
      /\ \A i \in 1 .. Len(s) : Append(s, e)[i] = s[i]
      /\ Append(s, e)[Len(s) + 1] = e
      /\ Len(s) \in Nat
  OBVIOUS
<1>2. DOMAIN s = 1 .. Len(s) /\ DOMAIN Append(s, e) = 1 .. Len(s) + 1
  BY <1>1
<1>3. ToSet(Append(s, e)) \subseteq ToSet(s) \cup {e}
  BY <1>1, <1>2 DEF ToSet
<1>4. ToSet(s) \cup {e} \subseteq ToSet(Append(s, e))
  BY <1>1, <1>2 DEF ToSet
<1>5. NoRepeats(s) /\ e \notin ToSet(s) => NoRepeats(Append(s, e))
  BY <1>1, <1>2 DEF NoRepeats, ToSet
<1>6. \A x, y : Before(s, x, y) => Before(Append(s, e), x, y)
  BY <1>1, <1>2 DEF Before
<1> QED
  BY <1>1, <1>3, <1>4, <1>5, <1>6

\* What is in a sequence and in its tail.
LEMMA ToSetOfTail ==
  ASSUME NEW S, NEW s \in Seq(S), s # <<>>
  PROVE  /\ Tail(s) \in Seq(S) /\ ToSet(Tail(s)) \subseteq ToSet(s)
         /\ Head(s) \in S /\ Head(s) \in ToSet(s)
         /\ \A x \in ToSet(s) : x = Head(s) \/ x \in ToSet(Tail(s))
<1>1. /\ Tail(s) \in Seq(S) /\ Len(Tail(s)) = Len(s) - 1 /\ Len(s) \in Nat \ {0}
      /\ Head(s) = s[1] /\ Head(s) \in S
      /\ \A i \in 1 .. Len(s) - 1 : Tail(s)[i] = s[i + 1]
      /\ DOMAIN s = 1 .. Len(s) /\ DOMAIN Tail(s) = 1 .. Len(s) - 1
  BY HeadTailProperties, EmptySeq, LenProperties
<1>2. ToSet(Tail(s)) \subseteq ToSet(s) /\ Head(s) \in ToSet(s)
  BY <1>1 DEF ToSet
<1>3. \A i \in 1 .. Len(s) : i # 1 => i - 1 \in 1 .. Len(s) - 1 /\ Tail(s)[i - 1] = s[i]
  <2> SUFFICES ASSUME NEW i \in 1 .. Len(s), i # 1
               PROVE  i - 1 \in 1 .. Len(s) - 1 /\ Tail(s)[i - 1] = s[i]
    OBVIOUS
  <2>1. i - 1 \in 1 .. Len(s) - 1 /\ (i - 1) + 1 = i
    BY <1>1
  <2> QED
    BY <1>1, <2>1
<1>4. ASSUME NEW x \in ToSet(s), x # Head(s) PROVE x \in ToSet(Tail(s))
  <2>1. PICK i \in 1 .. Len(s) : s[i] = x /\ i # 1
    BY <1>1, <1>4 DEF ToSet
  <2> QED
    BY <1>1, <1>3, <2>1 DEF ToSet
<1> QED
  BY <1>1, <1>2, <1>4

\* What RemoveAt() leaves.
LEMMA RemoveAtProperties ==
  ASSUME NEW S, NEW s \in Seq(S), NEW k \in 1 .. Len(s)
  PROVE  /\ RemoveAt(s, k) \in Seq(S)
         /\ Len(RemoveAt(s, k)) = Len(s) - 1
         /\ \A i \in 1 .. Len(s) - 1 : RemoveAt(s, k)[i] = IF i < k THEN s[i] ELSE s[i + 1]
<1> DEFINE a == SubSeq(s, 1, k - 1)
           b == SubSeq(s, k + 1, Len(s))
<1>1. Len(s) \in Nat /\ \A i \in 1 .. Len(s) : s[i] \in S
  BY LenProperties, ElementOfSeq
<1>2. /\ a \in Seq(S) /\ Len(a) = k - 1
      /\ \A i \in 1 .. k - 1 : a[i] = s[i]
  BY <1>1, SubSeqProperties
<1>3. /\ b \in Seq(S) /\ Len(b) = Len(s) - k
      /\ \A i \in 1 .. Len(s) - k : b[i] = s[k + i]
  <2>1. \A i \in k + 1 .. Len(s) : s[i] \in S
    BY <1>1
  <2>2. /\ b \in Seq(S)
        /\ Len(b) = IF k + 1 <= Len(s) THEN Len(s) - (k + 1) + 1 ELSE 0
        /\ \A i \in 1 .. Len(s) - (k + 1) + 1 : b[i] = s[(k + 1) + i - 1]
    BY <1>1, <2>1, SubSeqProperties
  <2> QED
    BY <1>1, <2>2
<1> HIDE DEF a, b
<1>4. /\ a \o b \in Seq(S)
      /\ Len(a \o b) = Len(a) + Len(b)
      /\ \A i \in 1 .. Len(a) + Len(b) :
           (a \o b)[i] = IF i <= Len(a) THEN a[i] ELSE b[i - Len(a)]
  BY <1>2, <1>3, ConcatProperties
<1>5. RemoveAt(s, k) = a \o b
  BY DEF RemoveAt, a, b
<1>6. Len(a \o b) = Len(s) - 1
  BY <1>1, <1>2, <1>3, <1>4
<1>7. ASSUME NEW i \in 1 .. Len(s) - 1
      PROVE  (a \o b)[i] = IF i < k THEN s[i] ELSE s[i + 1]
  <2>1. i \in 1 .. Len(a) + Len(b)
    BY <1>1, <1>2, <1>3
  <2>2. CASE i < k
    BY <1>1, <1>2, <1>4, <2>1, <2>2
  <2>3. CASE ~(i < k)
    <3>1. /\ ~(i <= Len(a)) /\ i - Len(a) \in 1 .. Len(s) - k
          /\ k + (i - Len(a)) = i + 1
      BY <1>1, <1>2, <2>3
    <3>2. b[i - Len(a)] = s[i + 1]
      BY <1>3, <3>1
    <3> QED
      BY <1>4, <2>1, <2>3, <3>1, <3>2
  <2> QED
    BY <2>2, <2>3
<1> QED
  BY <1>4, <1>5, <1>6, <1>7

\* An element that is in a sequence once is not there after its removal, and
\* everything else is, once if it was.
LEMMA RemovedOnce ==
  ASSUME NEW S, NEW s \in Seq(S), NoRepeats(s), NEW k \in 1 .. Len(s)
  PROVE  /\ NoRepeats(RemoveAt(s, k))
         /\ ToSet(RemoveAt(s, k)) = ToSet(s) \ {s[k]}
<1> DEFINE r == RemoveAt(s, k)
<1>1. /\ Len(s) \in Nat /\ DOMAIN s = 1 .. Len(s) /\ DOMAIN r = 1 .. Len(s) - 1
      /\ \A i \in 1 .. Len(s) - 1 : r[i] = IF i < k THEN s[i] ELSE s[i + 1]
  BY RemoveAtProperties, LenProperties
<1> HIDE DEF r
<1>2. NoRepeats(r)
  <2> SUFFICES ASSUME NEW i \in 1 .. Len(s) - 1, NEW j \in 1 .. Len(s) - 1, r[i] = r[j]
               PROVE  i = j
    BY <1>1 DEF NoRepeats
  <2> DEFINE at(n) == IF n < k THEN n ELSE n + 1
  <2>1. /\ at(i) \in 1 .. Len(s) /\ at(j) \in 1 .. Len(s)
        /\ r[i] = s[at(i)] /\ r[j] = s[at(j)]
    BY <1>1
  <2>2. at(i) = at(j)
    BY <1>1, <2>1 DEF NoRepeats
  <2> QED
    BY <1>1, <2>2
<1>3. ToSet(r) \subseteq ToSet(s) \ {s[k]}
  BY <1>1 DEF NoRepeats, ToSet
<1>4. ASSUME NEW i \in 1 .. Len(s), i # k
      PROVE  \E j \in 1 .. Len(s) - 1 : r[j] = s[i]
  <2>1. CASE i < k
    BY <1>1, <2>1
  <2>2. CASE i > k
    <3>1. i - 1 \in 1 .. Len(s) - 1 /\ r[i - 1] = s[i]
      BY <1>1, <2>2
    <3> QED
      BY <3>1
  <2> QED
    BY <1>4, <2>1, <2>2
<1>5. ToSet(s) \ {s[k]} \subseteq ToSet(r)
  <2> SUFFICES ASSUME NEW i \in 1 .. Len(s), s[i] # s[k] PROVE s[i] \in ToSet(r)
    BY <1>1 DEF ToSet
  <2>1. PICK j \in 1 .. Len(s) - 1 : r[j] = s[i]
    BY <1>4
  <2> QED
    BY <1>1, <2>1 DEF ToSet
<1> QED
  BY <1>2, <1>3, <1>5 DEF r

\* The order of what is left after a removal is that of before.
LEMMA RemovedInOrder ==
  ASSUME NEW S, NEW s \in Seq(S), NEW k \in 1 .. Len(s), NEW x, NEW y
  PROVE  /\ Before(RemoveAt(s, k), x, y) => Before(s, x, y)
         /\ x # s[k] /\ y # s[k] /\ Before(s, x, y) => Before(RemoveAt(s, k), x, y)
<1> DEFINE r == RemoveAt(s, k)
<1>1. /\ Len(s) \in Nat /\ DOMAIN s = 1 .. Len(s) /\ DOMAIN r = 1 .. Len(s) - 1
      /\ \A i \in 1 .. Len(s) - 1 : r[i] = IF i < k THEN s[i] ELSE s[i + 1]
  BY RemoveAtProperties, LenProperties
<1> HIDE DEF r
<1>2. ASSUME Before(r, x, y) PROVE Before(s, x, y)
  <2>1. PICK i \in 1 .. Len(s) - 1, j \in 1 .. Len(s) - 1 : i < j /\ r[i] = x /\ r[j] = y
    BY <1>1, <1>2 DEF Before
  <2> DEFINE at(n) == IF n < k THEN n ELSE n + 1
  <2>2. /\ at(i) \in 1 .. Len(s) /\ at(j) \in 1 .. Len(s) /\ at(i) < at(j)
        /\ s[at(i)] = x /\ s[at(j)] = y
    BY <1>1, <2>1
  <2> QED
    BY <1>1, <2>2 DEF Before
<1>3. ASSUME x # s[k], y # s[k], Before(s, x, y) PROVE Before(r, x, y)
  <2>1. PICK i \in 1 .. Len(s), j \in 1 .. Len(s) : i < j /\ s[i] = x /\ s[j] = y
    BY <1>1, <1>3 DEF Before
  <2> DEFINE to(n) == IF n < k THEN n ELSE n - 1
  <2>2. i # k /\ j # k
    BY <1>3, <2>1
  <2>3. to(i) \in 1 .. Len(s) - 1 /\ to(j) \in 1 .. Len(s) - 1 /\ to(i) < to(j)
    BY <1>1, <2>1, <2>2
  <2>4. ASSUME NEW n \in 1 .. Len(s), n # k PROVE r[to(n)] = s[n]
    <3>1. CASE n < k
      BY <1>1, <3>1
    <3>2. CASE n > k
      <4>1. n - 1 \in 1 .. Len(s) - 1 /\ ~(n - 1 < k) /\ (n - 1) + 1 = n /\ ~(n < k)
        BY <1>1, <3>2
      <4> QED
        BY <1>1, <4>1
    <3> QED
      BY <2>4, <3>1, <3>2
  <2>5. r[to(i)] = x /\ r[to(j)] = y
    BY <2>1, <2>2, <2>4
  <2> QED
    BY <1>1, <2>3, <2>5 DEF Before
<1> QED
  BY <1>2, <1>3 DEF r

\* What is in two sequences, one after the other.
LEMMA ToSetOfConcat ==
  ASSUME NEW S, NEW s \in Seq(S), NEW t \in Seq(S)
  PROVE  ToSet(s \o t) = ToSet(s) \cup ToSet(t)
<1> DEFINE c == s \o t
<1>1. /\ Len(s) \in Nat /\ Len(t) \in Nat
      /\ DOMAIN s = 1 .. Len(s) /\ DOMAIN t = 1 .. Len(t)
      /\ DOMAIN c = 1 .. Len(s) + Len(t)
      /\ \A i \in 1 .. Len(s) + Len(t) : c[i] = IF i <= Len(s) THEN s[i] ELSE t[i - Len(s)]
  BY ConcatProperties, LenProperties
<1> HIDE DEF c
<1>2. ToSet(c) \subseteq ToSet(s) \cup ToSet(t)
  BY <1>1 DEF ToSet
<1>3. ToSet(s) \subseteq ToSet(c)
  BY <1>1 DEF ToSet
<1>4. ASSUME NEW i \in 1 .. Len(t) PROVE t[i] \in ToSet(c)
  <2>1. Len(s) + i \in 1 .. Len(s) + Len(t) /\ ~(Len(s) + i <= Len(s)) /\ Len(s) + i - Len(s) = i
    BY <1>1
  <2>2. c[Len(s) + i] = t[i]
    BY <1>1, <2>1
  <2> QED
    BY <1>1, <2>1, <2>2 DEF ToSet
<1> QED
  BY <1>1, <1>2, <1>3, <1>4 DEF ToSet, c

\* The head of the second sequence may go to the end of the first ...
LEMMA HeadMoves ==
  ASSUME NEW S, NEW s \in Seq(S), NEW t \in Seq(S), t # <<>>
  PROVE  Append(s, Head(t)) \o Tail(t) = s \o t
<1> DEFINE c == Append(s, Head(t)) \o Tail(t)
<1>1. /\ Head(t) = t[1] /\ Head(t) \in S /\ Tail(t) \in Seq(S) /\ Len(Tail(t)) = Len(t) - 1
      /\ \A i \in 1 .. Len(t) - 1 : Tail(t)[i] = t[i + 1]
      /\ Len(s) \in Nat /\ Len(t) \in Nat \ {0}
  BY HeadTailProperties, EmptySeq, LenProperties
<1>2. /\ Append(s, Head(t)) \in Seq(S) /\ Len(Append(s, Head(t))) = Len(s) + 1
      /\ \A i \in 1 .. Len(s) : Append(s, Head(t))[i] = s[i]
      /\ Append(s, Head(t))[Len(s) + 1] = Head(t)
  BY <1>1
<1>3. /\ c \in Seq(S) /\ Len(c) = Len(s) + Len(t)
      /\ \A i \in 1 .. Len(s) + Len(t) :
           c[i] = IF i <= Len(s) + 1 THEN Append(s, Head(t))[i] ELSE Tail(t)[i - (Len(s) + 1)]
  BY <1>1, <1>2, ConcatProperties
<1>4. /\ s \o t \in Seq(S) /\ Len(s \o t) = Len(s) + Len(t)
      /\ \A i \in 1 .. Len(s) + Len(t) :
           (s \o t)[i] = IF i <= Len(s) THEN s[i] ELSE t[i - Len(s)]
  BY ConcatProperties
<1> HIDE DEF c
<1>5. ASSUME NEW i \in 1 .. Len(s) + Len(t) PROVE c[i] = (s \o t)[i]
  <2>1. CASE i <= Len(s)
    BY <1>1, <1>2, <1>3, <1>4, <2>1
  <2>2. CASE i = Len(s) + 1
    BY <1>1, <1>2, <1>3, <1>4, <2>2
  <2>3. CASE i > Len(s) + 1
    <3>1. /\ i - (Len(s) + 1) \in 1 .. Len(t) - 1
          /\ (i - (Len(s) + 1)) + 1 = i - Len(s)
          /\ ~(i <= Len(s)) /\ ~(i <= Len(s) + 1)
      BY <1>1, <2>3
    <3>2. Tail(t)[i - (Len(s) + 1)] = t[i - Len(s)]
      BY <1>1, <3>1
    <3> QED
      BY <1>3, <1>4, <3>1, <3>2
  <2> QED
    BY <1>1, <2>1, <2>2, <2>3
<1> QED
  BY <1>3, <1>4, <1>5, SeqEqual DEF c

\* ... or be removed.
LEMMA HeadGoes ==
  ASSUME NEW S, NEW s \in Seq(S), NEW t \in Seq(S), t # <<>>
  PROVE  /\ Len(s) + 1 \in 1 .. Len(s \o t) /\ (s \o t)[Len(s) + 1] = Head(t)
         /\ s \o Tail(t) = RemoveAt(s \o t, Len(s) + 1)
<1> DEFINE k == Len(s) + 1
           r == RemoveAt(s \o t, k)
           c == s \o Tail(t)
<1>1. /\ Head(t) = t[1] /\ Tail(t) \in Seq(S) /\ Len(Tail(t)) = Len(t) - 1
      /\ \A i \in 1 .. Len(t) - 1 : Tail(t)[i] = t[i + 1]
      /\ Len(s) \in Nat /\ Len(t) \in Nat \ {0}
  BY HeadTailProperties, EmptySeq, LenProperties
<1>2. /\ s \o t \in Seq(S) /\ Len(s \o t) = Len(s) + Len(t)
      /\ \A i \in 1 .. Len(s) + Len(t) :
           (s \o t)[i] = IF i <= Len(s) THEN s[i] ELSE t[i - Len(s)]
  BY ConcatProperties
<1>3. k \in 1 .. Len(s \o t) /\ (s \o t)[k] = Head(t)
  BY <1>1, <1>2
<1>4. /\ r \in Seq(S) /\ Len(r) = Len(s) + Len(t) - 1
      /\ \A i \in 1 .. Len(s) + Len(t) - 1 :
           r[i] = IF i < k THEN (s \o t)[i] ELSE (s \o t)[i + 1]
  <2> HIDE DEF k
  <2>1. /\ r \in Seq(S) /\ Len(r) = Len(s \o t) - 1
        /\ \A i \in 1 .. Len(s \o t) - 1 :
             r[i] = IF i < k THEN (s \o t)[i] ELSE (s \o t)[i + 1]
    BY <1>2, <1>3, RemoveAtProperties
  <2> QED
    BY <1>2, <2>1
<1>5. /\ c \in Seq(S) /\ Len(c) = Len(s) + Len(t) - 1
      /\ \A i \in 1 .. Len(s) + Len(t) - 1 :
           c[i] = IF i <= Len(s) THEN s[i] ELSE Tail(t)[i - Len(s)]
  BY <1>1, ConcatProperties
<1> HIDE DEF c, r
<1>6. ASSUME NEW i \in 1 .. Len(s) + Len(t) - 1 PROVE c[i] = r[i]
  <2>1. CASE i <= Len(s)
    BY <1>1, <1>2, <1>4, <1>5, <2>1
  <2>2. CASE ~(i <= Len(s))
    <3>1. /\ i - Len(s) \in 1 .. Len(t) - 1 /\ (i - Len(s)) + 1 = (i + 1) - Len(s)
          /\ ~(i < k) /\ i + 1 \in 1 .. Len(s) + Len(t) /\ ~(i + 1 <= Len(s))
      BY <1>1, <2>2
    <3>2. c[i] = t[(i + 1) - Len(s)]
      BY <1>1, <1>5, <2>2, <3>1
    <3>3. r[i] = t[(i + 1) - Len(s)]
      BY <1>2, <1>4, <3>1
    <3> QED
      BY <3>2, <3>3
  <2> QED
    BY <2>1, <2>2
<1>7. c = r
  BY <1>4, <1>5, <1>6, SeqEqual
<1> QED
  BY <1>3, <1>7 DEF c, r

-----------------------------------------------------------------------------
(***************************************************************************)
(* The invariant                                                           *)
(***************************************************************************)

\* What an emission called and what it has to do, the slots that are gone
\* left out.
Plan(f) == f.called \o f.todo

\* An emission only has slots that were made before it began, each of them
\* once; all of those that are still connected are among them, in their order.
FrameOK(f) ==
  /\ ToSet(f.called) \subseteq f.known /\ ToSet(f.todo) \subseteq f.known
  /\ f.known \subseteq made
  /\ NoRepeats(Plan(f))
  /\ alive => /\ ToSet(cb) \cap f.known \subseteq ToSet(Plan(f))
              /\ \A s, t \in ToSet(cb) : Before(Plan(f), s, t) => Before(cb, s, t)

FramesOK == \A i \in DOMAIN frames : FrameOK(frames[i])

\* The vector has a callback once, and a signal that exists every callback that
\* has an owner.
VectorOK ==
  /\ NoRepeats(cb)
  /\ alive => owner \subseteq ToSet(cb)
  /\ ~alive => cb = <<>>

\* The vector has no slot an auto_connection of which is gone.
BoundsKept == \A s \in made : AutoHandles \cap handles[s] # AutoHandles => s \notin ToSet(cb)

\* The inductive invariant.
SignalInv ==
  /\ TypeOK
  /\ VectorOK
  /\ FramesOK
  /\ BoundsKept

-----------------------------------------------------------------------------

LEMMA InitSignalInv == Init => SignalInv
<1> SUFFICES ASSUME Init PROVE SignalInv
  OBVIOUS
<1>1. TypeOK
  BY ToSetOfEmpty, MaxDepthAssumption DEF Init, TypeOK, Faults
<1>2. VectorOK /\ FramesOK /\ BoundsKept
  BY ToSetOfEmpty DEF Init, VectorOK, FramesOK, BoundsKept
<1> QED
  BY <1>1, <1>2 DEF SignalInv

\* What the sequences of an emission are.
LEMMA FrameSequences ==
  ASSUME TypeOK, NEW i \in DOMAIN frames
  PROVE  /\ frames[i] \in Frame
         /\ frames[i].called \in Seq(Slots) /\ frames[i].todo \in Seq(Slots)
         /\ Plan(frames[i]) \in Seq(Slots)
         /\ ToSet(Plan(frames[i])) = ToSet(frames[i].called) \cup ToSet(frames[i].todo)
<1>1. frames[i] \in Frame
  BY DEF TypeOK
<1>2. frames[i].called \in Seq(Slots) /\ frames[i].todo \in Seq(Slots)
  BY <1>1 DEF Frame
<1> QED
  BY <1>1, <1>2, ConcatProperties, ToSetOfConcat DEF Plan

\* The vector changes under the emissions.  They need not know, as long as the
\* slots they may have to do keep their order, and come from nowhere.
LEMMA VectorChanges ==
  ASSUME SignalInv, UNCHANGED frames, made \subseteq made',
         alive' => /\ alive
                   /\ ToSet(cb') \cap made \subseteq ToSet(cb)
                   /\ \A s, t \in ToSet(cb') : Before(cb, s, t) => Before(cb', s, t)
  PROVE  FramesOK'
<1> SUFFICES ASSUME NEW i \in DOMAIN frames PROVE FrameOK(frames[i])'
  BY DEF FramesOK
<1>1. FrameOK(frames[i])
  BY DEF SignalInv, FramesOK
<1>2. ToSet(Plan(frames[i])) \subseteq made
  BY <1>1, FrameSequences DEF SignalInv, FrameOK
<1>3. \A s, t : Before(Plan(frames[i]), s, t) =>
                  s \in ToSet(Plan(frames[i])) /\ t \in ToSet(Plan(frames[i]))
  BY DEF Before, ToSet
<1>4. ASSUME alive'
      PROVE  /\ ToSet(cb') \cap frames[i].known \subseteq ToSet(Plan(frames[i]))
             /\ \A s, t \in ToSet(cb') : Before(Plan(frames[i]), s, t) => Before(cb', s, t)
  BY <1>1, <1>2, <1>3, <1>4 DEF FrameOK
<1> QED
  BY <1>1, <1>4 DEF FrameOK, Plan

\* The innermost emission changes, and nothing else does.
LEMMA TopChanges ==
  ASSUME SignalInv, frames # <<>>, NEW f \in Frame, FrameOK(f), frames' = WithTop(f),
         UNCHANGED <<alive, cb, made, owner, handles>>, fault' \in Faults
  PROVE  SignalInv'
<1> USE DEF SignalInv
<1>1. Len(frames) \in 1 .. Len(frames) /\ DOMAIN frames = 1 .. Len(frames)
  BY EmptySeq, LenProperties DEF TypeOK
<1>2. /\ frames' \in Seq(Frame) /\ Len(frames') = Len(frames)
      /\ \A i \in 1 .. Len(frames) : frames'[i] = IF i = Len(frames) THEN f ELSE frames[i]
  BY <1>1, ExceptSeq DEF TypeOK, WithTop
<1>3. TypeOK'
  BY <1>2 DEF TypeOK
<1>4. VectorOK' /\ BoundsKept'
  BY DEF VectorOK, BoundsKept
<1>5. FramesOK'
  <2> SUFFICES ASSUME NEW i \in DOMAIN frames' PROVE FrameOK(frames'[i])
    BY DEF FramesOK, FrameOK
  <2>1. i \in 1 .. Len(frames)
    BY <1>2, LenProperties
  <2>2. CASE i = Len(frames)
    BY <1>2, <2>1, <2>2
  <2>3. CASE i # Len(frames)
    <3>1. frames'[i] = frames[i] /\ FrameOK(frames[i])
      BY <1>1, <1>2, <2>1, <2>3 DEF FramesOK
    <3> QED
      BY <3>1
  <2> QED
    BY <2>2, <2>3
<1> QED
  BY <1>3, <1>4, <1>5

LEMMA ConnectKeepsSignalInv ==
  ASSUME SignalInv, NEW s \in Slots, Connect(s)
  PROVE  SignalInv'
<1> USE DEF SignalInv, Connect
<1>1. /\ cb' \in Seq(Slots) /\ ToSet(cb') = ToSet(cb) \cup {s} /\ NoRepeats(cb')
      /\ \A x, y : Before(cb, x, y) => Before(cb', x, y)
  BY ToSetOfAppend DEF TypeOK, VectorOK
<1>2. TypeOK'
  BY <1>1 DEF TypeOK
<1>3. VectorOK'
  BY <1>1 DEF VectorOK
<1>4. FramesOK'
  BY <1>1, VectorChanges
<1>5. BoundsKept'
  BY <1>1, AutoAssumption DEF BoundsKept, TypeOK
<1> QED
  BY <1>2, <1>3, <1>4, <1>5

\* del_callback() takes the one occurrence of a callback out of the vector.
LEMMA DelCallbackTakesOne ==
  ASSUME SignalInv, NEW s \in ToSet(cb)
  PROVE  /\ DelCallback(s) \in Seq(Slots)
         /\ NoRepeats(DelCallback(s))
         /\ ToSet(DelCallback(s)) = ToSet(cb) \ {s}
         /\ \A x, y \in ToSet(cb) \ {s} : Before(cb, x, y) => Before(DelCallback(s), x, y)
<1> DEFINE k == CHOOSE i \in DOMAIN cb : cb[i] = s
<1>1. cb \in Seq(Slots) /\ NoRepeats(cb)
  BY DEF SignalInv, TypeOK, VectorOK
<1>2. k \in 1 .. Len(cb) /\ cb[k] = s
  BY <1>1, LenProperties DEF ToSet
<1>3. DelCallback(s) = RemoveAt(cb, k)
  BY DEF DelCallback
<1> HIDE DEF k
<1> QED
  BY <1>1, <1>2, <1>3, RemoveAtProperties, RemovedOnce, RemovedInOrder

LEMMA DisconnectKeepsSignalInv ==
  ASSUME SignalInv, NEW s \in Slots, NEW h \in Handles, Disconnect(s, h)
  PROVE  SignalInv'
<1> USE DEF SignalInv, Disconnect
<1>1. CASE s \in owner /\ alive /\ cb' = DelCallback(s) /\ owner' = owner \ {s} /\ UNCHANGED fault
  <2>1. s \in ToSet(cb)
    BY <1>1 DEF VectorOK
  <2>2. /\ cb' \in Seq(Slots) /\ NoRepeats(cb') /\ ToSet(cb') = ToSet(cb) \ {s}
        /\ \A x, y \in ToSet(cb') : Before(cb, x, y) => Before(cb', x, y)
    BY <1>1, <2>1, DelCallbackTakesOne
  <2>3. TypeOK'
    BY <1>1, <2>2 DEF TypeOK
  <2>4. VectorOK'
    BY <1>1, <2>2 DEF VectorOK
  <2>5. FramesOK'
    BY <1>1, <2>2, VectorChanges
  <2>6. BoundsKept'
    BY <1>1, <2>2 DEF BoundsKept, TypeOK
  <2> QED
    BY <2>3, <2>4, <2>5, <2>6
<1>2. CASE UNCHANGED <<cb, owner>> /\ (s \notin owner \/ ~alive) /\ fault' \in {fault, "invalid_callback"}
  <2>1. s \notin ToSet(cb)
    BY <1>2, ToSetOfEmpty DEF TypeOK, VectorOK
  <2>2. TypeOK' /\ VectorOK'
    BY <1>2 DEF TypeOK, VectorOK, Faults
  <2>3. FramesOK'
    BY <1>2, VectorChanges
  <2>4. BoundsKept'
    BY <1>2, <2>1 DEF BoundsKept, TypeOK
  <2> QED
    BY <2>2, <2>3, <2>4
<1> QED
  BY <1>1, <1>2

LEMMA DropKeepsSignalInv ==
  ASSUME SignalInv, NEW s \in Slots, NEW h \in Handles, Drop(s, h)
  PROVE  SignalInv'
<1>1. CASE Disconnect(s, h)
  BY <1>1, DisconnectKeepsSignalInv
<1>2. CASE /\ h \in handles[s]
           /\ h \in AutoHandles => ~Connected(s, h)
           /\ handles' = [handles EXCEPT ![s] = @ \ {h}]
           /\ UNCHANGED <<alive, cb, made, owner, frames, fault>>
  <2> USE <1>2 DEF SignalInv
  <2>1. TypeOK' /\ VectorOK'
    BY DEF TypeOK, VectorOK
  <2>2. FramesOK'
    BY VectorChanges
  <2>3. BoundsKept'
    <3>1. h \in AutoHandles => s \notin ToSet(cb)
      BY DEF Connected, Locks
    <3>2. h \notin AutoHandles => AutoHandles \cap handles'[s] = AutoHandles \cap handles[s]
      BY DEF TypeOK
    <3>3. \A t \in Slots \ {s} : handles'[t] = handles[t]
      BY DEF TypeOK
    <3> QED
      BY <3>1, <3>2, <3>3 DEF BoundsKept, TypeOK
  <2> QED
    BY <2>1, <2>2, <2>3
<1> QED
  BY <1>1, <1>2 DEF Drop

LEMMA DestroyKeepsSignalInv ==
  ASSUME SignalInv, Destroy
  PROVE  SignalInv'
<1> USE DEF SignalInv, Destroy
<1>1. cb' = <<>> /\ cb' \in Seq(Slots) /\ ToSet(cb') = {} /\ NoRepeats(cb')
  BY ToSetOfEmpty
<1>2. TypeOK' /\ BoundsKept'
  BY <1>1 DEF TypeOK, BoundsKept
<1>3. VectorOK'
  BY <1>1 DEF VectorOK
<1>4. FramesOK'
  BY VectorChanges
<1> QED
  BY <1>2, <1>3, <1>4

\* An emission begins with all that is connected to do.
LEMMA EmitKeepsSignalInv ==
  ASSUME SignalInv, Emit
  PROVE  SignalInv'
<1> USE DEF SignalInv, Emit, Snapshot
<1> DEFINE f == [todo |-> cb, cur |-> NoSlot, known |-> made, called |-> <<>>]
<1>1. f \in Frame
  BY EmptySeq DEF Frame, TypeOK
<1>2. FrameOK(f)
  <2>1. Plan(f) = cb
    BY ConcatEmptySeq DEF Plan, TypeOK
  <2> QED
    BY <2>1, ToSetOfEmpty DEF FrameOK, TypeOK, VectorOK
<1>3. frames' = Append(frames, f)
  OBVIOUS
<1> HIDE DEF f, Emit
<1>4. /\ frames' \in Seq(Frame) /\ Len(frames') = Len(frames) + 1 /\ Len(frames) \in Nat
      /\ \A i \in 1 .. Len(frames) : frames'[i] = frames[i]
      /\ frames'[Len(frames) + 1] = f
  BY <1>1, <1>3 DEF TypeOK
<1>5. TypeOK'
  BY <1>4, MaxDepthAssumption DEF TypeOK, Emit
<1>6. VectorOK' /\ BoundsKept'
  BY DEF VectorOK, BoundsKept, Emit
<1>7. FramesOK'
  <2> SUFFICES ASSUME NEW i \in DOMAIN frames' PROVE FrameOK(frames'[i])
    BY DEF FramesOK, FrameOK, Emit
  <2>1. i \in 1 .. Len(frames) + 1
    BY <1>4, LenProperties
  <2>2. CASE i = Len(frames) + 1
    BY <1>2, <1>4, <2>2
  <2>3. CASE i # Len(frames) + 1
    <3>1. i \in DOMAIN frames /\ frames'[i] = frames[i]
      BY <1>4, <2>1, <2>3, LenProperties DEF TypeOK
    <3> QED
      BY <3>1 DEF FramesOK
  <2> QED
    BY <2>2, <2>3
<1> QED
  BY <1>5, <1>6, <1>7

\* The innermost emission is one of those there are.
LEMMA TopIsFrame ==
  ASSUME SignalInv, frames # <<>>
  PROVE  /\ Top \in Frame /\ FrameOK(Top)
         /\ Top.called \in Seq(Slots) /\ Top.todo \in Seq(Slots) /\ Plan(Top) \in Seq(Slots)
<1>1. Len(frames) \in DOMAIN frames
  BY EmptySeq, LenProperties DEF SignalInv, TypeOK
<1> QED
  BY <1>1, FrameSequences DEF SignalInv, FramesOK, Top

\* A callback that is gone leaves the plan, and was not in the vector.
LEMMA SkipKeepsSignalInv ==
  ASSUME SignalInv, SkipExpired
  PROVE  SignalInv'
<1> DEFINE f == [Top EXCEPT !.todo = Tail(@)]
           k == Len(Top.called) + 1
<1>1. /\ frames # <<>> /\ Top.todo # <<>> /\ ~Locks(Head(Top.todo))
      /\ frames' = WithTop(f)
      /\ UNCHANGED <<alive, cb, made, owner, handles, fault>>
  BY DEF SkipExpired, Iterating
<1>2. /\ Top \in Frame /\ FrameOK(Top)
      /\ Top.called \in Seq(Slots) /\ Top.todo \in Seq(Slots) /\ Plan(Top) \in Seq(Slots)
  BY <1>1, TopIsFrame
<1>3. /\ Tail(Top.todo) \in Seq(Slots)
      /\ ToSet(Tail(Top.todo)) \subseteq ToSet(Top.todo)
  BY <1>1, <1>2, ToSetOfTail
<1>4. /\ f \in Frame /\ f.called = Top.called /\ f.todo = Tail(Top.todo)
      /\ f.known = Top.known
  BY <1>2, <1>3 DEF Frame
<1>5. /\ k \in 1 .. Len(Plan(Top)) /\ Plan(Top)[k] = Head(Top.todo)
      /\ Plan(f) = RemoveAt(Plan(Top), k)
  BY <1>1, <1>2, <1>4, HeadGoes DEF Plan
<1> HIDE DEF f, k
<1>6. /\ NoRepeats(Plan(f))
      /\ ToSet(Plan(f)) = ToSet(Plan(Top)) \ {Head(Top.todo)}
      /\ \A s, t : Before(Plan(f), s, t) => Before(Plan(Top), s, t)
  BY <1>2, <1>5, RemovedOnce, RemovedInOrder DEF FrameOK
<1>7. Head(Top.todo) \notin ToSet(cb)
  BY <1>1 DEF Locks
<1>8. FrameOK(f)
  BY <1>2, <1>3, <1>4, <1>6, <1>7 DEF FrameOK
<1> QED
  BY <1>1, <1>4, <1>8, TopChanges DEF SignalInv, TypeOK

\* A callback that is called stays in the plan.
LEMMA CallKeepsSignalInv ==
  ASSUME SignalInv, CallSlot
  PROVE  SignalInv'
<1> DEFINE s == Head(Top.todo)
           f == [Top EXCEPT !.todo = Tail(@), !.cur = s, !.called = Append(@, s)]
<1>1. /\ frames # <<>> /\ Top.todo # <<>>
      /\ frames' = WithTop(f)
      /\ UNCHANGED <<alive, cb, made, owner, handles>>
      /\ fault' \in {fault, "empty_call"}
  BY DEF CallSlot, Iterating
<1>2. /\ Top \in Frame /\ FrameOK(Top)
      /\ Top.called \in Seq(Slots) /\ Top.todo \in Seq(Slots) /\ Plan(Top) \in Seq(Slots)
  BY <1>1, TopIsFrame
<1>3. /\ Tail(Top.todo) \in Seq(Slots)
      /\ ToSet(Tail(Top.todo)) \subseteq ToSet(Top.todo)
      /\ s \in Slots /\ s \in ToSet(Top.todo)
  BY <1>1, <1>2, ToSetOfTail
<1>4. /\ Append(Top.called, s) \in Seq(Slots)
      /\ ToSet(Append(Top.called, s)) = ToSet(Top.called) \cup {s}
  BY <1>2, <1>3, ToSetOfAppend
<1>5. /\ f \in Frame /\ f.called = Append(Top.called, s) /\ f.todo = Tail(Top.todo)
      /\ f.known = Top.known
  BY <1>2, <1>3, <1>4 DEF Frame
<1>6. Plan(f) = Plan(Top)
  BY <1>1, <1>2, <1>5, HeadMoves DEF Plan
<1> HIDE DEF f, s
<1>7. FrameOK(f)
  BY <1>2, <1>3, <1>4, <1>5, <1>6 DEF FrameOK
<1>8. fault' \in Faults
  BY <1>1 DEF SignalInv, TypeOK, Faults
<1> QED
  BY <1>1, <1>5, <1>7, <1>8, TopChanges

LEMMA SlotReturnsKeepsSignalInv ==
  ASSUME SignalInv, SlotReturns
  PROVE  SignalInv'
<1> DEFINE f == [Top EXCEPT !.cur = NoSlot]
<1>1. /\ frames # <<>> /\ frames' = WithTop(f)
      /\ UNCHANGED <<alive, cb, made, owner, handles, fault>>
  BY DEF SlotReturns
<1>2. Top \in Frame /\ FrameOK(Top)
  BY <1>1, TopIsFrame
<1>3. /\ f \in Frame /\ f.called = Top.called /\ f.todo = Top.todo /\ f.known = Top.known
  BY <1>2 DEF Frame
<1> HIDE DEF f
<1>4. FrameOK(f)
  BY <1>2, <1>3 DEF FrameOK, Plan
<1> QED
  BY <1>1, <1>3, <1>4, TopChanges DEF SignalInv, TypeOK

LEMMA EmitReturnsKeepsSignalInv ==
  ASSUME SignalInv, EmitReturns
  PROVE  SignalInv'
<1> USE DEF SignalInv
<1>1. /\ frames # <<>> /\ frames' = Front(frames)
      /\ UNCHANGED <<alive, cb, made, owner, handles, fault>>
  BY DEF EmitReturns, Iterating
<1>2. frames \in Seq(Frame) /\ Len(frames) \in Nat \ {0} /\ DOMAIN frames = 1 .. Len(frames)
  BY <1>1, EmptySeq, LenProperties DEF TypeOK
<1>3. /\ frames' \in Seq(Frame) /\ Len(frames') = Len(frames) - 1
      /\ \A i \in 1 .. Len(frames) - 1 : frames'[i] = frames[i]
  <2>1. \A i \in 1 .. Len(frames) - 1 : frames[i] \in Frame
    BY <1>2, ElementOfSeq
  <2> QED
    BY <1>1, <1>2, <2>1, SubSeqProperties DEF Front
<1>4. TypeOK' /\ VectorOK' /\ BoundsKept'
  BY <1>1, <1>2, <1>3, MaxDepthAssumption DEF TypeOK, VectorOK, BoundsKept
<1>5. FramesOK'
  <2> SUFFICES ASSUME NEW i \in DOMAIN frames' PROVE FrameOK(frames'[i])
    BY <1>1 DEF FramesOK, FrameOK
  <2>1. i \in DOMAIN frames /\ frames'[i] = frames[i]
    BY <1>2, <1>3, LenProperties
  <2> QED
    BY <2>1 DEF FramesOK
<1> QED
  BY <1>4, <1>5

LEMMA NextKeepsSignalInv == SignalInv /\ [Next]_vars => SignalInv'
<1> SUFFICES ASSUME SignalInv, [Next]_vars PROVE SignalInv'
  OBVIOUS
<1>1. ASSUME NEW s \in Slots, Connect(s) PROVE SignalInv'
  BY <1>1, ConnectKeepsSignalInv
<1>2. ASSUME NEW s \in Slots, NEW h \in Handles, Disconnect(s, h) \/ Drop(s, h) PROVE SignalInv'
  BY <1>2, DisconnectKeepsSignalInv, DropKeepsSignalInv
<1>3. CASE Destroy
  BY <1>3, DestroyKeepsSignalInv
<1>4. CASE Emit
  BY <1>4, EmitKeepsSignalInv
<1>5. CASE LoopStep
  BY <1>5, SkipKeepsSignalInv, CallKeepsSignalInv, SlotReturnsKeepsSignalInv,
     EmitReturnsKeepsSignalInv DEF LoopStep
<1>6. CASE UNCHANGED vars
  BY <1>6 DEF vars, SignalInv, TypeOK, VectorOK, FramesOK, FrameOK, BoundsKept
<1> QED
  BY <1>1, <1>2, <1>3, <1>4, <1>5, <1>6 DEF Next, UserStep

-----------------------------------------------------------------------------

\* The vector, the owner pointers and the emissions stay in step, in every state:
\* the inductive invariant the rest is drawn from.
THEOREM SignalInvariance == Spec => []SignalInv
<1>1. Init => SignalInv
  BY InitSignalInv
<1>2. SignalInv /\ [Next]_vars => SignalInv'
  BY NextKeepsSignalInv
<1> QED
  BY <1>1, <1>2, PTL DEF Spec

\* Callbacks, handles and emissions stay in their types, and the callbacks in the
\* vector have their function.
THEOREM SignalTypesCorrect == Spec => []TypeOK
<1>1. SignalInv => TypeOK
  BY DEF SignalInv
<1> QED
  BY <1>1, SignalInvariance, PTL

\* A slot that is connected in the course of signal::operator() is not called by it.
THEOREM FreshSlotsDoWait == Spec => []FreshSlotsWait
<1>1. SignalInv => FreshSlotsWait
  BY DEF SignalInv, FramesOK, FrameOK, FreshSlotsWait
<1> QED
  BY <1>1, SignalInvariance, PTL

\* The slot of an auto_connection that is gone is in no vector, and runs only as
\* long as the emission that had called it before.
THEOREM AutoDoesBound == Spec => []AutoBoundsSlot
<1>1. SignalInv => AutoBoundsSlot
  BY DEF SignalInv, BoundsKept, AutoBoundsSlot, Locks
<1> QED
  BY <1>1, SignalInvariance, PTL

\* A slot that is called and is not in the vector runs already, in an emission
\* further out.
LEMMA CalledAgain ==
  ASSUME SignalInv, CallSlot, Head(Top.todo) \notin ToSet(cb)
  PROVE  \E i \in 1 .. (Len(frames) - 1) : frames[i].cur = Head(Top.todo)
<1>1. /\ frames \in Seq(Frame) /\ frames # <<>> /\ Top.cur = NoSlot /\ Top.todo # <<>>
      /\ Locks(Head(Top.todo))
  BY DEF CallSlot, Iterating, SignalInv, TypeOK
<1>2. Head(Top.todo) \in Slots /\ Head(Top.todo) # NoSlot
  BY <1>1, TopIsFrame, ToSetOfTail, NoSlotAssumption
<1>3. PICK i \in DOMAIN frames : frames[i].cur = Head(Top.todo)
  BY <1>1 DEF Locks
<1>4. i # Len(frames)
  BY <1>1, <1>2, <1>3 DEF Top
<1> QED
  BY <1>1, <1>3, <1>4, LenProperties

\* After ~signal() an emission calls nothing but what is running already.
THEOREM DestroyedStaysSilent == Spec => DestroyedIsSilent
<1>1. ASSUME SignalInv, [Next]_vars
      PROVE  \/ CallSlot /\ ~alive =>
                  \E i \in 1 .. (Len(frames) - 1) : frames[i].cur = Head(Top.todo)
             \/ UNCHANGED vars
  <2>1. ASSUME ~alive PROVE ToSet(cb) = {}
    BY <1>1, <2>1, ToSetOfEmpty DEF SignalInv, VectorOK
  <2> QED
    BY <1>1, <2>1, CalledAgain
<1> QED
  BY <1>1, SignalInvariance, PTL DEF Spec, DestroyedIsSilent

\* An empty function is called in one way only: by an emission in a slot that
\* disconnected itself, or is disconnected, while an emission further out runs
\* it.  Without nested emissions the function is always there.
THEOREM EmptyCallsAreNested ==
  Spec => [][fault # "empty_call" /\ fault' = "empty_call" =>
               \E i \in 1 .. (Len(frames) - 1) : frames[i].cur = Head(Top.todo)]_vars
<1>1. ASSUME SignalInv, [Next]_vars
      PROVE  \/ fault # "empty_call" /\ fault' = "empty_call" =>
                  \E i \in 1 .. (Len(frames) - 1) : frames[i].cur = Head(Top.todo)
             \/ UNCHANGED vars
  <2> SUFFICES ASSUME Next, fault # "empty_call", fault' = "empty_call"
               PROVE  \E i \in 1 .. (Len(frames) - 1) : frames[i].cur = Head(Top.todo)
    BY <1>1
  <2>1. CallSlot /\ Head(Top.todo) \notin owner
    BY DEF Next, UserStep, LoopStep, Connect, Disconnect, Drop, Destroy, Emit,
           SkipExpired, CallSlot, SlotReturns, EmitReturns
  <2>2. Head(Top.todo) \notin ToSet(cb)
    BY <1>1, <2>1 DEF SignalInv, TypeOK
  <2> QED
    BY <1>1, <2>1, <2>2, CalledAgain
<1> QED
  BY <1>1, SignalInvariance, PTL DEF Spec

\* When signal::operator() returns and the signal exists, every slot that was
\* connected before it began and still is was called, once and in the order of
\* connection, whatever the slots and the emissions in them did.
THEOREM SlotsAreCalledOnce == Spec => EverySlotCalledOnce
<1>1. ASSUME SignalInv, [Next]_vars
      PROVE  (EmitReturns /\ alive => CalledOnceInOrder(Top)) \/ UNCHANGED vars
  <2> SUFFICES ASSUME EmitReturns, alive PROVE CalledOnceInOrder(Top)
    OBVIOUS
  <2>1. frames # <<>> /\ Top.todo = <<>>
    BY DEF EmitReturns, Iterating
  <2>2. FrameOK(Top) /\ Top.called \in Seq(Slots)
    BY <1>1, <2>1, TopIsFrame
  <2>3. Plan(Top) = Top.called
    BY <2>1, <2>2, ConcatEmptySeq DEF Plan
  <2>4. \A s \in ToSet(cb) \cap Top.known :
          \E i \in DOMAIN Top.called : \A j \in DOMAIN Top.called : Top.called[j] = s <=> j = i
    BY <2>2, <2>3 DEF FrameOK, NoRepeats, ToSet
  <2>5. \A s \in ToSet(cb) \ Top.known : s \notin ToSet(Top.called)
    BY <2>2 DEF FrameOK
  <2>6. \A s, t \in ToSet(cb) : Before(Top.called, s, t) => Before(cb, s, t)
    BY <2>2, <2>3 DEF FrameOK
  <2> QED
    BY <2>4, <2>5, <2>6 DEF CalledOnceInOrder
<1> QED
  BY <1>1, SignalInvariance, PTL DEF Spec, EverySlotCalledOnce

=============================================================================
