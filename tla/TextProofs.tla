------------------------------ MODULE TextProofs ------------------------------
(***************************************************************************)
(* Theorems about the modules that take texts apart: the answer on the     *)
(* screen (TerminalOutput) and the channel markup in what a model streams  *)
(* (ChannelMarkup).  The lemmas on iterations and on sequences put         *)
(* together of parts are those of SessionProofs.                           *)
(***************************************************************************)
EXTENDS TerminalOutput, ChannelMarkup, SessionProofs

(* TerminalOutput, for answers of any length, cut into chunks anywhere.    *)

LEMMA SmallestIs ==
  ASSUME NEW S, S \subseteq Nat, S # {}
  PROVE  Smallest(S) \in S /\ \A j \in S : Smallest(S) <= j
BY LeastExists DEF Smallest

\* The two halves of a text, and a text of two halves.
LEMMA FirstHalf ==
  ASSUME NEW S, NEW t \in Seq(S), NEW k \in 0 .. Len(t)
  PROVE  /\ SubSeq(t, 1, k) \in Seq(S)
         /\ Len(SubSeq(t, 1, k)) = k
         /\ \A j \in 1 .. k : SubSeq(t, 1, k)[j] = t[j]
OBVIOUS

LEMMA SecondHalf ==
  ASSUME NEW S, NEW t \in Seq(S), NEW k \in 0 .. Len(t)
  PROVE  /\ After(t, k) \in Seq(S)
         /\ Len(After(t, k)) = Len(t) - k
         /\ \A j \in 1 .. Len(t) - k : After(t, k)[j] = t[k + j]
BY DEF After

LEMMA HalvesMake ==
  ASSUME NEW S, NEW t \in Seq(S), NEW k \in 0 .. Len(t)
  PROVE  t = SubSeq(t, 1, k) \o After(t, k)
<1>1. Len(t) \in Nat /\ 1 \in 1 .. Len(t) + 1 /\ k \in 1 - 1 .. Len(t) /\ Len(t) \in k .. Len(t)
  OBVIOUS
<1>2. SubSeq(t, 1, k) \o SubSeq(t, k + 1, Len(t)) = SubSeq(t, 1, Len(t))
  BY <1>1, ConcatAdjacentSubSeq
<1>3. SubSeq(t, 1, Len(t)) = t
  BY SubSeqFull
<1> QED
  BY <1>2, <1>3 DEF After

LEMMA ConcatIs ==
  ASSUME NEW S, NEW x \in Seq(S), NEW y \in Seq(S)
  PROVE  /\ x \o y \in Seq(S) /\ Len(x \o y) = Len(x) + Len(y)
         /\ \A j \in 1 .. Len(x) : (x \o y)[j] = x[j]
         /\ \A j \in 1 .. Len(y) : (x \o y)[Len(x) + j] = y[j]
OBVIOUS

LEMMA JoinedFirst ==
  ASSUME NEW S, NEW x \in Seq(S), NEW y \in Seq(S)
  PROVE  SubSeq(x \o y, 1, Len(x)) = x
<1> DEFINE u == x \o y
           b == SubSeq(u, 1, Len(x))
<1>1. /\ u \in Seq(S) /\ Len(u) = Len(x) + Len(y)
      /\ \A j \in 1 .. Len(x) : u[j] = x[j]
  BY ConcatIs
<1> HIDE DEF u
<1>2. Len(x) \in 0 .. Len(u)
  BY <1>1
<1>3. b \in Seq(S) /\ Len(b) = Len(x) /\ \A j \in 1 .. Len(x) : b[j] = u[j]
  BY <1>1, <1>2, FirstHalf
<1>4. \A j \in 1 .. Len(b) : b[j] = x[j]
  BY <1>1, <1>3
<1> HIDE DEF b
<1>5. b = x
  BY <1>3, <1>4, SeqEqual
<1> QED
  BY <1>5 DEF u, b

LEMMA JoinedAfter ==
  ASSUME NEW S, NEW x \in Seq(S), NEW y \in Seq(S), NEW k \in 0 .. Len(y)
  PROVE  After(x \o y, Len(x) + k) = After(y, k)
<1> DEFINE u == x \o y
           n == Len(x) + k
           a == After(u, n)
           c == After(y, k)
<1>1. /\ u \in Seq(S) /\ Len(u) = Len(x) + Len(y)
      /\ \A j \in 1 .. Len(y) : u[Len(x) + j] = y[j]
  BY ConcatIs
<1>2. /\ c \in Seq(S) /\ Len(c) = Len(y) - k
      /\ \A j \in 1 .. Len(y) - k : c[j] = y[k + j]
  BY SecondHalf
<1> HIDE DEF u, c
<1>3. n \in 0 .. Len(u) /\ Len(u) - n = Len(y) - k
  BY <1>1
<1>4. /\ a \in Seq(S) /\ Len(a) = Len(u) - n
      /\ \A j \in 1 .. Len(u) - n : a[j] = u[n + j]
  BY <1>1, <1>3, SecondHalf
<1> HIDE DEF a
<1>5. ASSUME NEW j \in 1 .. Len(c) PROVE a[j] = c[j]
  <2>1. j \in 1 .. Len(y) - k
    BY <1>2
  <2>2. k + j \in 1 .. Len(y) /\ n + j = Len(x) + (k + j)
    BY <2>1
  <2>3. a[j] = u[n + j]
    BY <1>3, <1>4, <2>1
  <2>4. u[Len(x) + (k + j)] = y[k + j]
    BY <1>1, <2>2
  <2>5. c[j] = y[k + j]
    BY <1>2, <2>1
  <2> QED
    BY <2>2, <2>3, <2>4, <2>5
<1>6. a = c
  BY <1>2, <1>3, <1>4, <1>5, SeqEqual
<1> QED
  BY <1>6 DEF u, a, c

\* Three parts of a text put together.
LEMMA TextsJoin ==
  ASSUME NEW x \in Seq(Symbols), NEW y \in Seq(Symbols), NEW z \in Seq(Symbols)
  PROVE  (x \o y) \o z = x \o (y \o z)
BY ConcatAssociative

LEMMA AfterJoined ==
  ASSUME NEW S, NEW x \in Seq(S), NEW y \in Seq(S), NEW k \in 0 .. Len(x)
  PROVE  After(x \o y, k) = After(x, k) \o y
<1> DEFINE b == SubSeq(x, 1, k)
           a == After(x, k)
<1>1. b \in Seq(S) /\ Len(b) = k /\ a \in Seq(S) /\ x = b \o a
  BY FirstHalf, SecondHalf, HalvesMake
<1> HIDE DEF a, b
<1>2. (b \o a) \o y = b \o (a \o y) /\ a \o y \in Seq(S)
  <2>1. (b \o a) \o y = b \o (a \o y)
    BY <1>1, ConcatAssociative
  <2> QED
    BY <1>1, <2>1, ConcatIs
<1> DEFINE z == a \o y
<1> HIDE DEF z
<1>3. z \in Seq(S) /\ 0 \in 0 .. Len(z)
  BY <1>2 DEF z
<1>4. After(b \o z, Len(b) + 0) = After(z, 0)
  BY <1>1, <1>3, JoinedAfter
<1>5. z = SubSeq(z, 1, 0) \o After(z, 0)
  BY <1>3, HalvesMake
<1>6. After(z, 0) = z
  BY <1>3, SubSeqFull DEF After
<1>7. Len(b) + 0 = k
  BY <1>1
<1> QED
  BY <1>1, <1>2, <1>4, <1>6, <1>7 DEF z, a

\* A text is something plain, and then a fence or the one or two backticks
\* that may begin one.
TicksOnly(y) == \A j \in 1 .. Len(y) : y[j] = Tick
Held(y) == Len(y) <= 2 /\ TicksOnly(y)
Fenced(y) == 1 \in FencesIn(y)
Plain(x) == FencesIn(x) = {} /\ (x # << >> => x[Len(x)] # Tick)
Cut(t, x, y) == t = x \o y /\ Plain(x) /\ (Held(y) \/ Fenced(y))

LEMMA FencesAre ==
  ASSUME NEW t \in Seq(Symbols)
  PROVE  /\ FencesIn(t) \subseteq Nat
         /\ \A k \in FencesIn(t) : /\ k \in 1 .. Len(t) /\ k + 2 <= Len(t)
                                   /\ t[k] = Tick /\ t[k + 1] = Tick /\ t[k + 2] = Tick
         /\ \A k \in 1 .. Len(t) :
              (k + 2 <= Len(t) /\ t[k] = Tick /\ t[k + 1] = Tick /\ t[k + 2] = Tick)
                => k \in FencesIn(t)
<1> HIDE DEF Tick
<1>1. Len(t) \in Nat
  OBVIOUS
<1>2. FencesIn(t) \subseteq Nat
  BY <1>1 DEF FencesIn
<1>3. ASSUME NEW k \in FencesIn(t)
      PROVE  /\ k \in 1 .. Len(t) /\ k + 2 <= Len(t)
             /\ t[k] = Tick /\ t[k + 1] = Tick /\ t[k + 2] = Tick
  <2>1. k \in 1 .. (Len(t) - 2) /\ \A j \in 0 .. 2 : t[k + j] = Tick
    BY DEF FencesIn
  <2>2. t[k + 0] = Tick /\ t[k + 1] = Tick /\ t[k + 2] = Tick
    BY <2>1
  <2> QED
    BY <1>1, <2>1, <2>2
<1>4. ASSUME NEW k \in 1 .. Len(t), k + 2 <= Len(t),
             t[k] = Tick, t[k + 1] = Tick, t[k + 2] = Tick
      PROVE  k \in FencesIn(t)
  <2>1. k \in 1 .. (Len(t) - 2)
    BY <1>1, <1>4
  <2>2. ASSUME NEW j \in 0 .. 2 PROVE t[k + j] = Tick
    <3>1. j = 0 \/ j = 1 \/ j = 2
      OBVIOUS
    <3>2. k + 0 = k
      OBVIOUS
    <3> QED
      BY <1>4, <3>1, <3>2
  <2> QED
    BY <2>1, <2>2 DEF FencesIn
<1> QED
  BY <1>2, <1>3, <1>4

LEMMA HeldFacts ==
  ASSUME NEW t \in Seq(Symbols)
  PROVE  /\ HeldTicks(t) \in 0 .. 2 /\ HeldTicks(t) <= Len(t)
         /\ \A j \in (Len(t) - HeldTicks(t) + 1) .. Len(t) : t[j] = Tick
         /\ (HeldTicks(t) < 2 /\ HeldTicks(t) < Len(t)) => t[Len(t) - HeldTicks(t)] # Tick
<1> DEFINE Ends(k) == k <= Len(t) /\ \A j \in (Len(t) - k + 1) .. Len(t) : t[j] = Tick
<1> HIDE DEF Tick
<1>1. Len(t) \in Nat
  OBVIOUS
<1>2. HeldTicks(t) = CASE Ends(2) -> 2 [] Ends(1) /\ ~ Ends(2) -> 1 [] OTHER -> 0
  BY DEF HeldTicks
<1>3. CASE Ends(2)
  <2>1. HeldTicks(t) = 2
    BY <1>2, <1>3
  <2> QED
    BY <1>1, <1>3, <2>1
<1>4. CASE ~ Ends(2) /\ Ends(1)
  <2>1. HeldTicks(t) = 1
    BY <1>2, <1>4
  <2>2. 1 < Len(t) => t[Len(t) - 1] # Tick
    <3> SUFFICES ASSUME 1 < Len(t), t[Len(t) - 1] = Tick PROVE FALSE
      OBVIOUS
    <3>1. t[Len(t)] = Tick
      BY <1>1, <1>4
    <3>2. ASSUME NEW j \in (Len(t) - 2 + 1) .. Len(t) PROVE t[j] = Tick
      <4>1. j = Len(t) - 1 \/ j = Len(t)
        BY <1>1
      <4> QED
        BY <3>1, <4>1
    <3>3. Ends(2)
      BY <1>1, <3>2
    <3> QED
      BY <1>4, <3>3
  <2> QED
    BY <1>1, <1>4, <2>1, <2>2
<1>5. CASE ~ Ends(2) /\ ~ Ends(1)
  <2>1. HeldTicks(t) = 0
    BY <1>2, <1>5
  <2>2. 0 < Len(t) => t[Len(t)] # Tick
    <3> SUFFICES ASSUME 0 < Len(t), t[Len(t)] = Tick PROVE FALSE
      OBVIOUS
    <3>1. ASSUME NEW j \in (Len(t) - 1 + 1) .. Len(t) PROVE t[j] = Tick
      <4>1. j = Len(t)
        BY <1>1
      <4> QED
        BY <4>1
    <3>2. Ends(1)
      BY <1>1, <3>1
    <3> QED
      BY <1>5, <3>2
  <2>3. Len(t) - 0 = Len(t) /\ (Len(t) - 0 + 1) .. Len(t) = {}
    BY <1>1
  <2> QED
    BY <1>1, <2>1, <2>2, <2>3
<1> QED
  BY <1>3, <1>4, <1>5

LEMMA FencesFollow ==
  ASSUME NEW x \in Seq(Symbols), NEW y \in Seq(Symbols), Plain(x)
  PROVE  /\ \A k \in FencesIn(x \o y) : \E j \in FencesIn(y) : k = Len(x) + j
         /\ \A j \in FencesIn(y) : Len(x) + j \in FencesIn(x \o y)
<1> HIDE DEF Tick
<1> DEFINE u == x \o y
<1>1. /\ u \in Seq(Symbols) /\ Len(u) = Len(x) + Len(y)
      /\ (\A j \in 1 .. Len(x) : u[j] = x[j])
      /\ \A j \in 1 .. Len(y) : u[Len(x) + j] = y[j]
  BY ConcatIs
<1>2. Len(x) \in Nat /\ Len(y) \in Nat /\ (Len(x) # 0 => x # << >>)
  OBVIOUS
<1> HIDE DEF u
<1>3. ASSUME NEW k \in FencesIn(u) PROVE \E j \in FencesIn(y) : k = Len(x) + j
  <2>1. /\ k \in 1 .. Len(u) /\ k + 2 <= Len(u)
        /\ u[k] = Tick /\ u[k + 1] = Tick /\ u[k + 2] = Tick
    BY <1>1, FencesAre
  <2>2. ~ (k <= Len(x))
    <3> SUFFICES ASSUME k <= Len(x) PROVE FALSE
      OBVIOUS
    <3>1. CASE k + 2 <= Len(x)
      <4>1. k \in 1 .. Len(x) /\ k + 1 \in 1 .. Len(x) /\ k + 2 \in 1 .. Len(x)
        BY <1>2, <2>1, <3>1
      <4>2. x[k] = Tick /\ x[k + 1] = Tick /\ x[k + 2] = Tick
        BY <1>1, <2>1, <4>1
      <4>3. k \in FencesIn(x)
        BY <3>1, <4>1, <4>2, FencesAre
      <4> QED
        BY <4>3 DEF Plain
    <3>2. CASE ~ (k + 2 <= Len(x))
      <4>1. Len(x) = k \/ Len(x) = k + 1
        BY <1>2, <2>1, <3>2
      <4>2. Len(x) \in 1 .. Len(x) /\ x # << >>
        BY <1>2, <2>1, <4>1
      <4>3. u[Len(x)] = Tick
        BY <2>1, <4>1
      <4> QED
        BY <1>1, <4>2, <4>3 DEF Plain
    <3> QED
      BY <3>1, <3>2
  <2>3. PICK j \in 1 .. Len(y) : k = Len(x) + j /\ j + 2 <= Len(y)
    <3>1. k - Len(x) \in 1 .. Len(y) /\ k = Len(x) + (k - Len(x)) /\ (k - Len(x)) + 2 <= Len(y)
      BY <1>1, <1>2, <2>1, <2>2
    <3> QED
      BY <3>1
  <2>4. /\ j + 1 \in 1 .. Len(y) /\ j + 2 \in 1 .. Len(y)
        /\ k + 1 = Len(x) + (j + 1) /\ k + 2 = Len(x) + (j + 2)
    BY <1>2, <2>3
  <2>5. y[j] = Tick /\ y[j + 1] = Tick /\ y[j + 2] = Tick
    BY <1>1, <2>1, <2>3, <2>4
  <2>6. j \in FencesIn(y)
    BY <2>3, <2>5, FencesAre
  <2> QED
    BY <2>3, <2>6
<1>4. ASSUME NEW j \in FencesIn(y) PROVE Len(x) + j \in FencesIn(u)
  <2>1. /\ j \in 1 .. Len(y) /\ j + 2 <= Len(y)
        /\ y[j] = Tick /\ y[j + 1] = Tick /\ y[j + 2] = Tick
    BY FencesAre
  <2>2. PICK k \in 1 .. Len(u) : k = Len(x) + j /\ k + 2 <= Len(u)
    <3>1. Len(x) + j \in 1 .. Len(u) /\ (Len(x) + j) + 2 <= Len(u)
      BY <1>1, <1>2, <2>1
    <3> QED
      BY <3>1
  <2>3. /\ j + 1 \in 1 .. Len(y) /\ j + 2 \in 1 .. Len(y)
        /\ k + 1 = Len(x) + (j + 1) /\ k + 2 = Len(x) + (j + 2)
    BY <1>2, <2>1, <2>2
  <2>4. u[k] = Tick /\ u[k + 1] = Tick /\ u[k + 2] = Tick
    BY <1>1, <2>1, <2>2, <2>3
  <2> QED
    BY <1>1, <2>2, <2>4, FencesAre
<1> QED
  BY <1>3, <1>4 DEF u

LEMMA NoFenceHeld ==
  ASSUME NEW y \in Seq(Symbols), Held(y)
  PROVE  FencesIn(y) = {}
BY FencesAre DEF Held

LEMMA PlainJoins ==
  ASSUME NEW x \in Seq(Symbols), NEW z \in Seq(Symbols), Plain(x), Plain(z)
  PROVE  Plain(x \o z)
<1> HIDE DEF Tick
<1>1. FencesIn(x \o z) = {}
  BY FencesFollow DEF Plain
<1>2. ASSUME x \o z # << >> PROVE (x \o z)[Len(x \o z)] # Tick
  <2>1. CASE z = << >>
    <3>1. x \o z = x
      BY <2>1, ConcatEmptySeq
    <3> QED
      BY <1>2, <3>1 DEF Plain
  <2>2. CASE z # << >>
    <3>1. Len(z) \in 1 .. Len(z)
      BY <2>2
    <3>2. (x \o z)[Len(x) + Len(z)] = z[Len(z)] /\ Len(x \o z) = Len(x) + Len(z)
      BY <3>1, ConcatIs
    <3> QED
      BY <2>2, <3>2 DEF Plain
  <2> QED
    BY <2>1, <2>2
<1> QED
  BY <1>1, <1>2 DEF Plain

LEMMA CutExists ==
  ASSUME NEW t \in Seq(Symbols)
  PROVE  \E x, y \in Seq(Symbols) : Cut(t, x, y)
<1> HIDE DEF Tick
<1>1. Len(t) \in Nat
  OBVIOUS
<1>2. CASE FencesIn(t) = {}
  <2> DEFINE h == HeldTicks(t)
  <2>1. /\ h \in 0 .. 2 /\ h <= Len(t)
        /\ \A j \in (Len(t) - h + 1) .. Len(t) : t[j] = Tick
        /\ (h < 2 /\ h < Len(t)) => t[Len(t) - h] # Tick
    BY HeldFacts
  <2> HIDE DEF h
  <2>2. PICK k \in 0 .. Len(t) : k = Len(t) - h
    BY <1>1, <2>1
  <2> DEFINE x == SubSeq(t, 1, k)
             y == After(t, k)
  <2>3. /\ x \in Seq(Symbols) /\ Len(x) = k /\ \A j \in 1 .. k : x[j] = t[j]
    BY FirstHalf
  <2>4. /\ y \in Seq(Symbols) /\ Len(y) = Len(t) - k
        /\ \A j \in 1 .. Len(t) - k : y[j] = t[k + j]
    BY SecondHalf
  <2>5. t = x \o y
    BY HalvesMake
  <2> HIDE DEF x, y
  <2>6. Held(y)
    <3>1. Len(y) = h
      BY <1>1, <2>1, <2>2, <2>4
    <3>2. ASSUME NEW j \in 1 .. Len(y) PROVE y[j] = Tick
      <4>1. j \in 1 .. Len(t) - k /\ k + j \in (Len(t) - h + 1) .. Len(t)
        BY <1>1, <2>1, <2>2, <2>4
      <4> QED
        BY <2>1, <2>4, <4>1
    <3> QED
      BY <2>1, <3>1, <3>2 DEF Held, TicksOnly
  <2>7. FencesIn(x) = {}
    <3> SUFFICES ASSUME NEW f \in FencesIn(x) PROVE FALSE
      OBVIOUS
    <3>1. /\ f \in 1 .. Len(x) /\ f + 2 <= Len(x)
          /\ x[f] = Tick /\ x[f + 1] = Tick /\ x[f + 2] = Tick
      BY <2>3, FencesAre
    <3>2. /\ f \in 1 .. k /\ f + 1 \in 1 .. k /\ f + 2 \in 1 .. k
          /\ f \in 1 .. Len(t) /\ f + 2 <= Len(t)
      BY <1>1, <2>3, <3>1
    <3>3. t[f] = Tick /\ t[f + 1] = Tick /\ t[f + 2] = Tick
      BY <2>3, <3>1, <3>2
    <3>4. f \in FencesIn(t)
      BY <3>2, <3>3, FencesAre
    <3> QED
      BY <1>2, <3>4
  <2>8. ASSUME x # << >> PROVE x[Len(x)] # Tick
    <3> SUFFICES ASSUME x[Len(x)] = Tick PROVE FALSE
      OBVIOUS
    <3>1. k \in 1 .. k /\ k \in 1 .. Len(t)
      <4>1. k # 0
        BY <2>3, <2>8
      <4> QED
        BY <1>1, <4>1
    <3>2. t[k] = Tick
      BY <2>3, <3>1
    <3>3. CASE h < 2
      <4>1. h < Len(t)
        BY <1>1, <2>1, <2>2, <3>1
      <4> QED
        BY <2>1, <2>2, <3>2, <3>3, <4>1
    <3>4. CASE ~ (h < 2)
      <4>1. h = 2
        BY <2>1, <3>4
      <4>2. /\ k + 1 \in (Len(t) - h + 1) .. Len(t) /\ k + 2 \in (Len(t) - h + 1) .. Len(t)
            /\ k + 2 <= Len(t)
        BY <1>1, <2>2, <4>1
      <4>3. t[k + 1] = Tick /\ t[k + 2] = Tick
        BY <2>1, <4>2
      <4>4. k \in FencesIn(t)
        BY <3>1, <3>2, <4>2, <4>3, FencesAre
      <4> QED
        BY <1>2, <4>4
    <3> QED
      BY <3>3, <3>4
  <2>9. Cut(t, x, y)
    BY <2>5, <2>6, <2>7, <2>8 DEF Cut, Plain
  <2> QED
    BY <2>3, <2>4, <2>9
<1>3. CASE FencesIn(t) # {}
  <2>1. PICK f \in FencesIn(t) : \A j \in FencesIn(t) : f <= j
    BY <1>3, FencesAre, LeastExists
  <2>2. /\ f \in 1 .. Len(t) /\ f + 2 <= Len(t)
        /\ t[f] = Tick /\ t[f + 1] = Tick /\ t[f + 2] = Tick
    BY FencesAre
  <2>3. PICK k \in 0 .. Len(t) : f = k + 1
    <3>1. f - 1 \in 0 .. Len(t) /\ f = (f - 1) + 1
      BY <1>1, <2>2
    <3> QED
      BY <3>1
  <2> DEFINE x == SubSeq(t, 1, k)
             y == After(t, k)
  <2>4. /\ x \in Seq(Symbols) /\ Len(x) = k /\ \A j \in 1 .. k : x[j] = t[j]
    BY FirstHalf
  <2>5. /\ y \in Seq(Symbols) /\ Len(y) = Len(t) - k
        /\ \A j \in 1 .. Len(t) - k : y[j] = t[k + j]
    BY SecondHalf
  <2>6. t = x \o y
    BY HalvesMake
  <2> HIDE DEF x, y
  <2>7. Fenced(y)
    <3>1. /\ 1 \in 1 .. Len(y) /\ 1 + 2 <= Len(y) /\ {1, 2, 3} \subseteq 1 .. Len(t) - k
          /\ f = k + 1 /\ f + 1 = k + 2 /\ f + 2 = k + 3
      BY <1>1, <2>2, <2>3, <2>5
    <3>2. y[1] = Tick /\ y[2] = Tick /\ y[3] = Tick
      BY <2>2, <2>5, <3>1
    <3>3. y[1 + 1] = Tick /\ y[1 + 2] = Tick
      BY <3>2
    <3> QED
      BY <2>5, <3>1, <3>2, <3>3, FencesAre DEF Fenced
  <2>8. FencesIn(x) = {}
    <3> SUFFICES ASSUME NEW j \in FencesIn(x) PROVE FALSE
      OBVIOUS
    <3>1. /\ j \in 1 .. Len(x) /\ j + 2 <= Len(x)
          /\ x[j] = Tick /\ x[j + 1] = Tick /\ x[j + 2] = Tick
      BY <2>4, FencesAre
    <3>2. /\ j \in 1 .. k /\ j + 1 \in 1 .. k /\ j + 2 \in 1 .. k
          /\ j \in 1 .. Len(t) /\ j + 2 <= Len(t) /\ ~ (f <= j)
      BY <1>1, <2>3, <2>4, <3>1
    <3>3. t[j] = Tick /\ t[j + 1] = Tick /\ t[j + 2] = Tick
      BY <2>4, <3>1, <3>2
    <3>4. j \in FencesIn(t)
      BY <3>2, <3>3, FencesAre
    <3> QED
      BY <2>1, <3>2, <3>4
  <2>9. ASSUME x # << >> PROVE x[Len(x)] # Tick
    <3> SUFFICES ASSUME x[Len(x)] = Tick PROVE FALSE
      OBVIOUS
    <3>1. k \in 1 .. k /\ k \in 1 .. Len(t) /\ ~ (f <= k)
      <4>1. k # 0
        BY <2>4, <2>9
      <4> QED
        BY <1>1, <2>3, <4>1
    <3>2. t[k] = Tick /\ t[k + 1] = Tick /\ t[k + 2] = Tick /\ k + 2 <= Len(t)
      <4>1. k + 1 = f /\ k + 2 = f + 1 /\ k + 2 <= Len(t)
        BY <1>1, <2>2, <2>3
      <4> QED
        BY <2>2, <2>4, <3>1, <4>1
    <3>3. k \in FencesIn(t)
      BY <3>1, <3>2, FencesAre
    <3> QED
      BY <2>1, <3>1, <3>3
  <2>10. Cut(t, x, y)
    BY <2>6, <2>7, <2>8, <2>9 DEF Cut, Plain
  <2> QED
    BY <2>4, <2>5, <2>10
<1> QED
  BY <1>2, <1>3

LEMMA HeldIs ==
  ASSUME NEW x \in Seq(Symbols), NEW y \in Seq(Symbols), Plain(x), Held(y)
  PROVE  HeldTicks(x \o y) = Len(y)
<1> HIDE DEF Tick
<1> DEFINE t == x \o y
           h == HeldTicks(t)
<1>1. /\ t \in Seq(Symbols) /\ Len(t) = Len(x) + Len(y)
      /\ (\A j \in 1 .. Len(x) : t[j] = x[j])
      /\ \A j \in 1 .. Len(y) : t[Len(x) + j] = y[j]
  BY ConcatIs
<1>2. Len(x) \in Nat /\ Len(y) \in Nat /\ (Len(x) # 0 => x # << >>)
  OBVIOUS
<1> HIDE DEF t
<1>3. /\ h \in 0 .. 2 /\ h <= Len(t)
      /\ \A j \in (Len(t) - h + 1) .. Len(t) : t[j] = Tick
      /\ (h < 2 /\ h < Len(t)) => t[Len(t) - h] # Tick
  BY <1>1, HeldFacts
<1> HIDE DEF h
<1>4. ~ (h < Len(y))
  <2> SUFFICES ASSUME h < Len(y) PROVE FALSE
    OBVIOUS
  <2>1. Len(y) <= 2
    BY DEF Held
  <2>2. PICK j \in 1 .. Len(y) : j = Len(y) - h
    <3>1. Len(y) - h \in 1 .. Len(y)
      BY <1>2, <1>3
    <3> QED
      BY <3>1
  <2>3. h < 2 /\ h < Len(t) /\ Len(t) - h = Len(x) + j
    BY <1>1, <1>2, <1>3, <2>1, <2>2
  <2>4. y[j] = Tick
    BY DEF Held, TicksOnly
  <2>5. t[Len(x) + j] = y[j]
    BY <1>1
  <2>6. t[Len(t) - h] # Tick
    BY <1>3, <2>3
  <2> QED
    BY <2>3, <2>4, <2>5, <2>6
<1>5. ~ (h > Len(y))
  <2> SUFFICES ASSUME h > Len(y) PROVE FALSE
    OBVIOUS
  <2>1. Len(x) # 0 /\ Len(x) \in 1 .. Len(x) /\ Len(x) \in (Len(t) - h + 1) .. Len(t)
    BY <1>1, <1>2, <1>3
  <2>2. x[Len(x)] = Tick
    BY <1>1, <1>3, <2>1
  <2> QED
    BY <1>2, <2>1, <2>2 DEF Plain
<1>6. h = Len(y)
  BY <1>2, <1>3, <1>4, <1>5
<1> QED
  BY <1>6 DEF h, t

\* What one pass does with a text cut that way.
Items == [as : {"inline"}, of : Symbols] \union [as : {"code"}, of : Seq(Symbols)]
States == [tail : Seq(Symbols), fence : BOOLEAN, code : Seq(Symbols), out : Seq(Items)]
Passes == [state : States, text : Seq(Symbols)]

Take(q, x) ==
    IF q.fence THEN [q EXCEPT !.code = @ \o x] ELSE [q EXCEPT !.out = @ \o Inline(x)]

Unstarted(rest) == IF rest # << >> /\ rest[1] = Newline THEN Tail(rest) ELSE rest

FencePass(q, y) ==
    IF q.fence
    THEN [state |-> [q EXCEPT !.out = @ \o CodeBlock(q.code), !.fence = FALSE, !.code = << >>],
          text |-> Unstarted(After(y, 3))]
    ELSE IF NewlinesIn(After(y, 3)) = {}
    THEN [state |-> [q EXCEPT !.tail = y], text |-> << >>]
    ELSE [state |-> [q EXCEPT !.fence = TRUE, !.code = << >>],
          text |-> After(After(y, 3), Smallest(NewlinesIn(After(y, 3))))]

CutPass(q, x, y) ==
    IF Held(y) THEN [state |-> [Take(q, x) EXCEPT !.tail = y], text |-> << >>]
    ELSE FencePass(Take(q, x), y)

\* Three parts of what is on the screen put together.
LEMMA OutJoins ==
  ASSUME NEW o \in Seq(Items), NEW a \in Seq(Items), NEW b \in Seq(Items)
  PROVE  (o \o a) \o b = o \o (a \o b)
BY ConcatAssociative

LEMMA InlineTyped ==
  ASSUME NEW x \in Seq(Symbols)
  PROVE  /\ Inline(x) \in Seq(Items) /\ Len(Inline(x)) = Len(x)
         /\ \A k \in 1 .. Len(x) : Inline(x)[k] = [as |-> "inline", of |-> x[k]]
<1>1. \A k \in DOMAIN x : x[k] \in Symbols
  OBVIOUS
<1>2. \A k \in DOMAIN x : [as |-> "inline", of |-> x[k]] \in Items
  BY <1>1 DEF Items
<1>3. DOMAIN x = 1 .. Len(x) /\ Len(x) \in Nat
  OBVIOUS
<1> HIDE DEF Items
<1> QED
  BY <1>2, <1>3 DEF Inline

LEMMA InlineJoins ==
  ASSUME NEW x \in Seq(Symbols), NEW y \in Seq(Symbols)
  PROVE  Inline(x \o y) = Inline(x) \o Inline(y)
<1> DEFINE u == x \o y
           a == Inline(u)
           c == Inline(x)
           d == Inline(y)
           b == c \o d
<1>1. /\ u \in Seq(Symbols) /\ Len(u) = Len(x) + Len(y)
      /\ (\A j \in 1 .. Len(x) : u[j] = x[j])
      /\ \A j \in 1 .. Len(y) : u[Len(x) + j] = y[j]
  BY ConcatIs
<1> HIDE DEF u
<1>2. a \in Seq(Items) /\ Len(a) = Len(u)
      /\ \A k \in 1 .. Len(u) : a[k] = [as |-> "inline", of |-> u[k]]
  BY <1>1, InlineTyped
<1>3. c \in Seq(Items) /\ Len(c) = Len(x)
      /\ \A k \in 1 .. Len(x) : c[k] = [as |-> "inline", of |-> x[k]]
  BY InlineTyped
<1>4. d \in Seq(Items) /\ Len(d) = Len(y)
      /\ \A k \in 1 .. Len(y) : d[k] = [as |-> "inline", of |-> y[k]]
  BY InlineTyped
<1> HIDE DEF a, c, d
<1>5. /\ b \in Seq(Items) /\ Len(b) = Len(c) + Len(d)
      /\ (\A j \in 1 .. Len(c) : b[j] = c[j])
      /\ \A j \in 1 .. Len(d) : b[Len(c) + j] = d[j]
  <2>1. c \in Seq(Items) /\ d \in Seq(Items)
    BY <1>3, <1>4
  <2> QED
    BY <2>1, ConcatIs
<1> HIDE DEF b
<1>6. Len(x) \in Nat /\ Len(y) \in Nat
  OBVIOUS
<1>7. ASSUME NEW k \in 1 .. Len(a) PROVE a[k] = b[k]
  <2>0. k \in 1 .. Len(u)
    BY <1>2
  <2>1. CASE k <= Len(x)
    <3>1. k \in 1 .. Len(x)
      BY <1>1, <1>6, <2>0, <2>1
    <3> QED
      BY <1>1, <1>2, <1>3, <1>5, <2>0, <3>1
  <2>2. CASE ~ (k <= Len(x))
    <3>1. PICK j \in 1 .. Len(y) : k = Len(x) + j
      <4>1. k - Len(x) \in 1 .. Len(y) /\ k = Len(x) + (k - Len(x))
        BY <1>1, <1>6, <2>0, <2>2
      <4> QED
        BY <4>1
    <3>2. a[k] = [as |-> "inline", of |-> u[k]] /\ u[k] = y[j]
      BY <1>1, <1>2, <2>0, <3>1
    <3>3. b[k] = d[j] /\ d[j] = [as |-> "inline", of |-> y[j]]
      BY <1>3, <1>4, <1>5, <3>1
    <3> QED
      BY <3>2, <3>3
  <2> QED
    BY <2>1, <2>2
<1>8. a = b
  BY <1>1, <1>2, <1>3, <1>4, <1>5, <1>7, SeqEqual
<1> QED
  BY <1>8 DEF a, b, c, d, u

LEMMA CodeBlockTyped ==
  ASSUME NEW code \in Seq(Symbols)
  PROVE  CodeBlock(code) \in Seq(Items)
<1>1. CASE ToSet(code) \subseteq {Newline}
  <2>1. CodeBlock(code) = << >>
    BY <1>1 DEF CodeBlock
  <2> QED
    BY <2>1
<1>2. CASE ~ (ToSet(code) \subseteq {Newline})
  <2> DEFINE K == {k \in DOMAIN code : ToSet(After(code, k)) \subseteq {Newline}}
             e == [as |-> "code", of |-> SubSeq(code, 1, Smallest(K))]
  <2>1. Len(code) \in Nat /\ DOMAIN code = 1 .. Len(code)
    OBVIOUS
  <2>2. code # << >>
    <3>1. ToSet(<< >>) = {}
      BY DEF ToSet
    <3> QED
      BY <1>2, <3>1
  <2>3. Len(code) \in 1 .. Len(code)
    BY <2>1, <2>2
  <2>4. After(code, Len(code)) = << >>
    BY <2>1 DEF After
  <2>5. ToSet(<< >>) = {}
    BY DEF ToSet
  <2>6. Len(code) \in K
    BY <2>1, <2>3, <2>4, <2>5
  <2>7. K \subseteq 1 .. Len(code) /\ K \subseteq Nat /\ K # {}
    BY <2>1, <2>6
  <2> HIDE DEF K
  <2>8. Smallest(K) \in K
    BY <2>7, SmallestIs, Zenon
  <2>9. Smallest(K) \in 0 .. Len(code)
    <3>1. \A m \in K : m \in 0 .. Len(code)
      BY <2>1, <2>7
    <3> QED
      BY <2>8, <3>1, Zenon
  <2>10. SubSeq(code, 1, Smallest(K)) \in Seq(Symbols)
    BY <2>9, FirstHalf
  <2>11. e \in Items
    BY <2>10 DEF Items
  <2>12. CodeBlock(code) = <<e>>
    BY <1>2 DEF CodeBlock, K
  <2> HIDE DEF e
  <2> QED
    BY <2>11, <2>12
<1> QED
  BY <1>1, <1>2

LEMMA StateEqual ==
  ASSUME NEW p \in States, NEW q \in States,
         p.tail = q.tail, p.fence = q.fence, p.code = q.code, p.out = q.out
  PROVE  p = q
BY DEF States

LEMMA TakeIs ==
  ASSUME NEW q \in States, NEW x \in Seq(Symbols)
  PROVE  /\ Take(q, x) \in States
         /\ Take(q, x).tail = q.tail /\ Take(q, x).fence = q.fence
         /\ Take(q, x).code = IF q.fence THEN q.code \o x ELSE q.code
         /\ Take(q, x).out = IF q.fence THEN q.out ELSE q.out \o Inline(x)
<1>1. Inline(x) \in Seq(Items)
  BY InlineTyped
<1>2. q.code \in Seq(Symbols) /\ q.out \in Seq(Items) /\ q.fence \in BOOLEAN
  BY DEF States
<1>3. q.code \o x \in Seq(Symbols) /\ q.out \o Inline(x) \in Seq(Items)
  BY <1>1, <1>2, ConcatProperties
<1> DEFINE i == Inline(x)
<1> HIDE DEF i
<1>4. CASE q.fence
  <2>1. Take(q, x) = [q EXCEPT !.code = q.code \o x]
    BY <1>4 DEF Take
  <2> DEFINE c == q.code \o x
  <2> HIDE DEF c
  <2>2. c \in Seq(Symbols) /\ Take(q, x) = [q EXCEPT !.code = c]
    BY <1>3, <2>1 DEF c
  <2>3. /\ Take(q, x) \in States
        /\ Take(q, x).tail = q.tail /\ Take(q, x).fence = q.fence
        /\ Take(q, x).code = c /\ Take(q, x).out = q.out
    BY <2>2 DEF States
  <2> QED
    BY <1>4, <2>3 DEF c
<1>5. CASE ~ q.fence
  <2> DEFINE o == q.out \o Inline(x)
  <2>1. Take(q, x) = [q EXCEPT !.out = o]
    BY <1>5 DEF Take
  <2>2. o \in Seq(Items)
    BY <1>3
  <2> HIDE DEF o
  <2>3. /\ Take(q, x) \in States
        /\ Take(q, x).tail = q.tail /\ Take(q, x).fence = q.fence
        /\ Take(q, x).code = q.code /\ Take(q, x).out = o
    BY <2>1, <2>2 DEF States
  <2> QED
    BY <1>5, <2>3 DEF o
<1> QED
  BY <1>2, <1>4, <1>5

LEMMA TakeTake ==
  ASSUME NEW q \in States, NEW x \in Seq(Symbols), NEW z \in Seq(Symbols)
  PROVE  Take(Take(q, x), z) = Take(q, x \o z)
<1> DEFINE p == Take(q, x)
           u == x \o z
           a == Take(p, z)
           b == Take(q, u)
<1>1. u \in Seq(Symbols) /\ q.code \in Seq(Symbols) /\ q.out \in Seq(Items) /\ q.fence \in BOOLEAN
  BY ConcatIs DEF States
<1>2. /\ p \in States /\ p.tail = q.tail /\ p.fence = q.fence
      /\ p.code = IF q.fence THEN q.code \o x ELSE q.code
      /\ p.out = IF q.fence THEN q.out ELSE q.out \o Inline(x)
  BY TakeIs
<1> HIDE DEF p
<1>3. /\ a \in States /\ a.tail = p.tail /\ a.fence = p.fence
      /\ a.code = IF p.fence THEN p.code \o z ELSE p.code
      /\ a.out = IF p.fence THEN p.out ELSE p.out \o Inline(z)
  BY <1>2, TakeIs
<1>4. Inline(u) = Inline(x) \o Inline(z) /\ Inline(x) \in Seq(Items) /\ Inline(z) \in Seq(Items)
  BY InlineJoins, InlineTyped DEF u
<1> HIDE DEF u
<1>5. /\ b \in States /\ b.tail = q.tail /\ b.fence = q.fence
      /\ b.code = IF q.fence THEN q.code \o u ELSE q.code
      /\ b.out = IF q.fence THEN q.out ELSE q.out \o Inline(u)
  BY <1>1, TakeIs
<1> HIDE DEF a, b
<1>6. (q.code \o x) \o z = q.code \o (x \o z)
  <2> DEFINE c == q.code
  <2>1. c \in Seq(Symbols)
    BY <1>1
  <2> HIDE DEF c
  <2>2. (c \o x) \o z = c \o (x \o z)
    BY <2>1, TextsJoin, Zenon
  <2> QED
    BY <2>2 DEF c
<1>7. (q.out \o Inline(x)) \o Inline(z) = q.out \o (Inline(x) \o Inline(z))
  <2> DEFINE c == q.out
             i == Inline(x)
             j == Inline(z)
  <2>1. c \in Seq(Items) /\ i \in Seq(Items) /\ j \in Seq(Items)
    BY <1>1, <1>4
  <2> HIDE DEF c, i, j
  <2>2. (c \o i) \o j = c \o (i \o j)
    BY <2>1, OutJoins, Zenon
  <2> QED
    BY <2>2 DEF c, i, j
<1>8. a.code = b.code
  BY <1>2, <1>3, <1>5, <1>6 DEF u
<1>9. a.out = b.out
  BY <1>2, <1>3, <1>4, <1>5, <1>7
<1>10. a = b
  BY <1>2, <1>3, <1>5, <1>8, <1>9, StateEqual
<1> QED
  BY <1>10 DEF a, b, p, u

LEMMA InlineNone == Inline(<< >>) = << >>
BY DEF Inline

LEMMA TakeNone ==
  ASSUME NEW q \in States
  PROVE  Take(q, << >>) = q
<1>1. q.code \in Seq(Symbols) /\ q.out \in Seq(Items) /\ q.fence \in BOOLEAN
  BY DEF States
<1>2. << >> \in Seq(Symbols)
  OBVIOUS
<1>3. q.code \o << >> = q.code /\ q.out \o << >> = q.out
  BY <1>1, ConcatEmptySeq
<1> DEFINE a == Take(q, << >>)
<1>4. /\ a \in States /\ a.tail = q.tail /\ a.fence = q.fence
      /\ a.code = q.code /\ a.out = q.out
  BY <1>1, <1>2, <1>3, TakeIs, InlineNone
<1> HIDE DEF a
<1>5. a = q
  BY <1>4, StateEqual
<1> QED
  BY <1>5 DEF a

LEMMA NewlinesAre ==
  ASSUME NEW t \in Seq(Symbols)
  PROVE  NewlinesIn(t) \subseteq 1 .. Len(t) /\ \A k \in NewlinesIn(t) : t[k] = Newline
BY DEF NewlinesIn

LEMMA UnstartedIs ==
  ASSUME NEW t \in Seq(Symbols)
  PROVE  Unstarted(t) \in Seq(Symbols) /\ Len(Unstarted(t)) <= Len(t)
<1>1. CASE t # << >> /\ t[1] = Newline
  <2>1. Tail(t) \in Seq(Symbols) /\ Len(Tail(t)) = Len(t) - 1
    BY <1>1, HeadTailProperties
  <2>2. Len(Tail(t)) <= Len(t)
    BY <2>1
  <2> QED
    BY <1>1, <2>1, <2>2 DEF Unstarted
<1>2. CASE ~ (t # << >> /\ t[1] = Newline)
  BY <1>2 DEF Unstarted
<1> QED
  BY <1>1, <1>2

LEMMA FencePassIs ==
  ASSUME NEW q \in States, NEW y \in Seq(Symbols), Fenced(y)
  PROVE  /\ FencePass(q, y) \in Passes
         /\ FencePass(q, y).text # << >> => Len(FencePass(q, y).text) < Len(y)
         /\ FencePass(q, y).text # << >> => FencePass(q, y).state.tail = q.tail
<1> HIDE DEF Tick, Newline
<1>1. Len(y) \in Nat /\ 3 <= Len(y) /\ 3 \in 0 .. Len(y)
  BY FencesAre DEF Fenced
<1> DEFINE r == After(y, 3)
<1>2. r \in Seq(Symbols) /\ Len(r) = Len(y) - 3
  BY <1>1, SecondHalf
<1> HIDE DEF r
<1>3. q.code \in Seq(Symbols) /\ q.out \in Seq(Items) /\ q.fence \in BOOLEAN
  BY DEF States
<1>4. CASE q.fence
  <2> DEFINE o == q.out \o CodeBlock(q.code)
             s == [q EXCEPT !.out = o, !.fence = FALSE, !.code = << >>]
  <2>1. o \in Seq(Items)
    BY <1>3, CodeBlockTyped, ConcatProperties
  <2> HIDE DEF o
  <2>2. s \in States /\ s.tail = q.tail
    <3>1. << >> \in Seq(Symbols) /\ FALSE \in BOOLEAN
      OBVIOUS
    <3> QED
      BY <2>1, <3>1 DEF States
  <2>3. FencePass(q, y) = [state |-> s, text |-> Unstarted(r)]
    BY <1>4 DEF FencePass, o, r
  <2>4. Unstarted(r) \in Seq(Symbols) /\ Len(Unstarted(r)) < Len(y)
    BY <1>1, <1>2, UnstartedIs
  <2> HIDE DEF s
  <2>5. FencePass(q, y) \in Passes
    BY <2>2, <2>3, <2>4 DEF Passes
  <2>6. FencePass(q, y).text = Unstarted(r) /\ FencePass(q, y).state = s
    BY <2>3
  <2> QED
    BY <2>2, <2>4, <2>5, <2>6
<1>5. CASE ~ q.fence /\ NewlinesIn(r) = {}
  <2> DEFINE s == [q EXCEPT !.tail = y]
  <2>1. s \in States
    BY DEF States
  <2>2. FencePass(q, y) = [state |-> s, text |-> << >>]
    BY <1>5 DEF FencePass, r
  <2> HIDE DEF s
  <2>3. FencePass(q, y) \in Passes /\ FencePass(q, y).text = << >>
    BY <2>1, <2>2 DEF Passes
  <2> QED
    BY <2>3
<1>6. CASE ~ q.fence /\ NewlinesIn(r) # {}
  <2> DEFINE s == [q EXCEPT !.fence = TRUE, !.code = << >>]
             e == Smallest(NewlinesIn(r))
             w == After(r, e)
  <2>1. s \in States /\ s.tail = q.tail
    <3>1. << >> \in Seq(Symbols) /\ TRUE \in BOOLEAN
      OBVIOUS
    <3> QED
      BY <3>1 DEF States
  <2>2. FencePass(q, y) = [state |-> s, text |-> w]
    BY <1>6 DEF FencePass, r
  <2>3. NewlinesIn(r) \subseteq 1 .. Len(r) /\ NewlinesIn(r) \subseteq Nat
    BY <1>2, NewlinesAre
  <2>4. e \in NewlinesIn(r)
    BY <1>6, <2>3, SmallestIs
  <2> HIDE DEF e
  <2>5. e \in 1 .. Len(r) /\ e \in 0 .. Len(r)
    BY <2>3, <2>4
  <2>6. w \in Seq(Symbols) /\ Len(w) = Len(r) - e
    BY <1>2, <2>5, SecondHalf
  <2>7. Len(w) < Len(y)
    BY <1>1, <1>2, <2>5, <2>6
  <2> HIDE DEF s, w
  <2>8. FencePass(q, y) \in Passes /\ FencePass(q, y).text = w /\ FencePass(q, y).state = s
    BY <2>1, <2>2, <2>6 DEF Passes
  <2> QED
    BY <2>1, <2>7, <2>8
<1> QED
  BY <1>3, <1>4, <1>5, <1>6

LEMMA AfterLess ==
  ASSUME NEW S, NEW x \in Seq(S), NEW y \in Seq(S)
  PROVE  After(x \o y, Len(x)) = y
<1>1. 0 \in 0 .. Len(y) /\ Len(x) + 0 = Len(x) /\ Len(y) \in Nat
  OBVIOUS
<1>2. After(x \o y, Len(x) + 0) = After(y, 0)
  BY <1>1, JoinedAfter
<1>3. SubSeq(y, 1, Len(y)) = y
  BY SubSeqFull
<1>4. After(y, 0) = SubSeq(y, 1, Len(y))
  BY DEF After
<1> QED
  BY <1>1, <1>2, <1>3, <1>4

LEMMA PassIs ==
  ASSUME NEW q \in States, NEW t \in Seq(Symbols), NEW x \in Seq(Symbols),
         NEW y \in Seq(Symbols), t # << >>, Cut(t, x, y)
  PROVE  RenderPass([state |-> q, text |-> t]) = CutPass(q, x, y)
<1> HIDE DEF Tick, Newline
<1>1. t = x \o y /\ Plain(x) /\ (Held(y) \/ Fenced(y))
  BY DEF Cut
<1>2. Len(t) = Len(x) + Len(y) /\ Len(x) \in Nat /\ Len(y) \in Nat /\ Len(t) \in Nat
  BY <1>1, ConcatIs
<1>3. q.code \in Seq(Symbols) /\ q.out \in Seq(Items) /\ q.fence \in BOOLEAN
  BY DEF States
<1> DEFINE pass == [state |-> q, text |-> t]
<1>4. pass.state = q /\ pass.text = t
  OBVIOUS
<1> HIDE DEF pass
<1>5. CASE Held(y)
  <2>1. FencesIn(t) = {}
    <3>1. FencesIn(y) = {}
      BY <1>5, NoFenceHeld
    <3> QED
      BY <1>1, <3>1, FencesFollow
  <2>2. HeldTicks(t) = Len(y)
    BY <1>1, <1>5, HeldIs
  <2>3. Len(t) - HeldTicks(t) = Len(x)
    BY <1>2, <2>2
  <2>4. SubSeq(t, 1, Len(t) - HeldTicks(t)) = x
    BY <1>1, <2>3, JoinedFirst
  <2>5. After(t, Len(x)) = y
    BY <1>1, AfterLess
  <2>6. CASE q.fence
    <3>1. RenderPass(pass) = [state |-> [q EXCEPT !.code = @ \o x, !.tail = y], text |-> << >>]
      BY <1>4, <2>1, <2>4, <2>5, <2>6 DEF RenderPass
    <3>2. Take(q, x) = [q EXCEPT !.code = @ \o x]
      BY <2>6 DEF Take
    <3>3. CutPass(q, x, y) = [state |-> [Take(q, x) EXCEPT !.tail = y], text |-> << >>]
      BY <1>5 DEF CutPass
    <3> QED
      BY <3>1, <3>2, <3>3 DEF pass
  <2>7. CASE ~ q.fence
    <3>1. RenderPass(pass)
            = [state |-> [q EXCEPT !.out = @ \o Inline(x), !.tail = y], text |-> << >>]
      BY <1>4, <2>1, <2>4, <2>5, <2>7 DEF RenderPass
    <3>2. Take(q, x) = [q EXCEPT !.out = @ \o Inline(x)]
      BY <2>7 DEF Take
    <3>3. CutPass(q, x, y) = [state |-> [Take(q, x) EXCEPT !.tail = y], text |-> << >>]
      BY <1>5 DEF CutPass
    <3> QED
      BY <3>1, <3>2, <3>3 DEF pass
  <2> QED
    BY <1>3, <2>6, <2>7
<1>6. CASE Fenced(y)
  <2> DEFINE f == Smallest(FencesIn(t))
             r == After(y, 3)
             s == Take(q, x)
  <2>1. 1 \in FencesIn(y) /\ 3 \in 0 .. Len(y) /\ ~ Held(y)
    BY <1>2, <1>6, FencesAre, NoFenceHeld DEF Fenced
  <2>2. Len(x) + 1 \in FencesIn(t) /\ \A k \in FencesIn(t) : Len(x) + 1 <= k /\ k \in Nat
    <3>1. Len(x) + 1 \in FencesIn(t)
      BY <1>1, <2>1, FencesFollow
    <3>2. ASSUME NEW k \in FencesIn(t) PROVE Len(x) + 1 <= k /\ k \in Nat
      <4>1. PICK j \in FencesIn(y) : k = Len(x) + j
        BY <1>1, FencesFollow
      <4>2. j \in 1 .. Len(y)
        BY FencesAre
      <4> QED
        BY <1>2, <4>1, <4>2
    <3> QED
      BY <3>1, <3>2
  <2>3. f = Len(x) + 1
    <3>1. FencesIn(t) \subseteq Nat /\ FencesIn(t) # {}
      BY <2>2
    <3>2. f \in FencesIn(t) /\ \A j \in FencesIn(t) : f <= j
      BY <3>1, SmallestIs
    <3> HIDE DEF f
    <3>3. f <= Len(x) + 1 /\ Len(x) + 1 <= f /\ f \in Nat
      BY <2>2, <3>2
    <3> QED
      BY <1>2, <3>3
  <2>4. FencesIn(t) # {}
    BY <2>2
  <2>5. f - 1 = Len(x) /\ f + 2 = Len(x) + 3
    BY <1>2, <2>3
  <2>6. SubSeq(t, 1, f - 1) = x /\ After(t, f - 1) = y /\ After(t, f + 2) = r
    <3>1. SubSeq(t, 1, Len(x)) = x
      BY <1>1, JoinedFirst
    <3>2. After(t, Len(x)) = y
      BY <1>1, AfterLess
    <3>3. After(t, Len(x) + 3) = After(y, 3)
      BY <1>1, <2>1, JoinedAfter
    <3> QED
      BY <2>5, <3>1, <3>2, <3>3
  <2>7. CutPass(q, x, y) = FencePass(s, y)
    BY <2>1 DEF CutPass
  <2>8. s.fence = q.fence /\ s \in States
    BY TakeIs
  <2> HIDE DEF f, r
  <2>9. CASE q.fence
    <3>1. RenderPass(pass)
            = [state |-> [q EXCEPT !.out = @ \o CodeBlock(q.code \o x), !.fence = FALSE,
                                   !.code = << >>],
               text |-> Unstarted(r)]
      BY <1>4, <2>4, <2>6, <2>9 DEF RenderPass, Unstarted, f
    <3>2. s.code = q.code \o x /\ s.out = q.out /\ s.tail = q.tail
      BY <2>9, TakeIs
    <3> HIDE DEF s
    <3>3. FencePass(s, y)
            = [state |-> [s EXCEPT !.out = @ \o CodeBlock(s.code), !.fence = FALSE,
                                   !.code = << >>],
               text |-> Unstarted(r)]
      BY <2>8, <2>9 DEF FencePass, r
    <3>4. [s EXCEPT !.out = @ \o CodeBlock(s.code), !.fence = FALSE, !.code = << >>]
            = [q EXCEPT !.out = @ \o CodeBlock(q.code \o x), !.fence = FALSE, !.code = << >>]
      <4> DEFINE c == CodeBlock(q.code \o x)
                 o == q.out \o c
                 a == [s EXCEPT !.out = o, !.fence = FALSE, !.code = << >>]
                 b == [q EXCEPT !.out = o, !.fence = FALSE, !.code = << >>]
      <4>1. o \in Seq(Items)
        BY <1>3, ConcatIs, CodeBlockTyped, ConcatProperties
      <4> HIDE DEF o
      <4>2. << >> \in Seq(Symbols) /\ FALSE \in BOOLEAN
        OBVIOUS
      <4>3. a \in States /\ a.out = o /\ a.fence = FALSE /\ a.code = << >> /\ a.tail = s.tail
        BY <2>8, <4>1, <4>2 DEF States
      <4>4. b \in States /\ b.out = o /\ b.fence = FALSE /\ b.code = << >> /\ b.tail = q.tail
        BY <4>1, <4>2 DEF States
      <4> HIDE DEF a, b
      <4>5. a = b
        BY <3>2, <4>3, <4>4, StateEqual
      <4> QED
        BY <3>2, <4>5 DEF a, b, o
    <3> QED
      BY <2>7, <3>1, <3>3, <3>4 DEF s, pass
  <2>10. CASE ~ q.fence
    <3>1. s = [q EXCEPT !.out = @ \o Inline(x)]
      BY <2>10 DEF Take
    <3>2. CASE NewlinesIn(r) = {}
      <4>1. RenderPass(pass)
              = [state |-> [q EXCEPT !.out = @ \o Inline(x), !.tail = y], text |-> << >>]
        BY <1>4, <2>4, <2>6, <2>10, <3>2 DEF RenderPass, f
      <4>2. FencePass(s, y) = [state |-> [s EXCEPT !.tail = y], text |-> << >>]
        BY <2>8, <2>10, <3>2 DEF FencePass, r
      <4> QED
        BY <2>7, <3>1, <4>1, <4>2 DEF pass
    <3>3. CASE NewlinesIn(r) # {}
      <4>1. RenderPass(pass)
              = [state |-> [q EXCEPT !.out = @ \o Inline(x), !.fence = TRUE, !.code = << >>],
                 text |-> After(r, Smallest(NewlinesIn(r)))]
        BY <1>4, <2>4, <2>6, <2>10, <3>3 DEF RenderPass, f
      <4>2. FencePass(s, y) = [state |-> [s EXCEPT !.fence = TRUE, !.code = << >>],
                               text |-> After(r, Smallest(NewlinesIn(r)))]
        BY <2>8, <2>10, <3>3 DEF FencePass, r
      <4> QED
        BY <2>7, <3>1, <4>1, <4>2 DEF pass
    <3> QED
      BY <3>2, <3>3
  <2> QED
    BY <1>3, <2>9, <2>10
<1> QED
  BY <1>1, <1>5, <1>6 DEF pass

\* A pass leaves less of the text, and a state that holds nothing back while
\* anything is left.
LEMMA PassTyped ==
  ASSUME NEW q \in States, NEW t \in Seq(Symbols)
  PROVE  /\ RenderPass([state |-> q, text |-> t]) \in Passes
         /\ t = << >> => RenderPass([state |-> q, text |-> t]) = [state |-> q, text |-> t]
         /\ RenderPass([state |-> q, text |-> t]).text # << >>
              => /\ Len(RenderPass([state |-> q, text |-> t]).text) < Len(t)
                 /\ RenderPass([state |-> q, text |-> t]).state.tail = q.tail
<1> DEFINE pass == [state |-> q, text |-> t]
           next == RenderPass(pass)
<1>1. pass.text = t /\ pass.state = q /\ pass \in Passes
  BY DEF Passes
<1> HIDE DEF pass
<1>2. CASE t = << >>
  <2>1. next = pass
    BY <1>1, <1>2 DEF RenderPass
  <2> QED
    BY <1>1, <1>2, <2>1 DEF pass
<1>3. CASE t # << >>
  <2>1. PICK x \in Seq(Symbols), y \in Seq(Symbols) : Cut(t, x, y)
    BY CutExists
  <2>2. next = CutPass(q, x, y)
    BY <1>3, <2>1, PassIs DEF pass
  <2> HIDE DEF next
  <2>3. t = x \o y /\ (Held(y) \/ Fenced(y))
    BY <2>1 DEF Cut
  <2>4. Len(t) = Len(x) + Len(y) /\ Len(x) \in Nat /\ Len(y) \in Nat
    BY <2>3, ConcatIs
  <2> DEFINE s == Take(q, x)
  <2>5. s \in States /\ s.tail = q.tail
    BY TakeIs
  <2> HIDE DEF s
  <2>6. CASE Held(y)
    <3>1. next = [state |-> [s EXCEPT !.tail = y], text |-> << >>]
      BY <2>2, <2>6 DEF CutPass, s
    <3>2. [s EXCEPT !.tail = y] \in States
      BY <2>5 DEF States
    <3>3. next \in Passes /\ next.text = << >>
      BY <3>1, <3>2 DEF Passes
    <3> QED
      BY <1>3, <3>3 DEF next, pass
  <2>7. CASE ~ Held(y)
    <3>1. next = FencePass(s, y) /\ Fenced(y)
      BY <2>2, <2>3, <2>7 DEF CutPass, s
    <3>2. next \in Passes /\ (next.text # << >> => Len(next.text) < Len(y))
          /\ (next.text # << >> => next.state.tail = s.tail)
      BY <2>5, <3>1, FencePassIs
    <3>3. next.text # << >> => Len(next.text) < Len(t)
      <4>1. Len(next.text) \in Nat
        BY <3>2 DEF Passes
      <4> QED
        BY <2>4, <3>2, <4>1
    <3> QED
      BY <1>3, <2>5, <3>2, <3>3 DEF next, pass
  <2> QED
    BY <2>6, <2>7
<1> QED
  BY <1>2, <1>3

\* A rendering is run through its passes.
Runs(f, n, p, t) ==
    /\ f \in [0 .. n -> Passes]
    /\ f[0] = [state |-> p, text |-> t]
    /\ \A k \in 1 .. n : f[k] = RenderPass(f[k - 1])

LEMMA PassesAre ==
  ASSUME NEW z \in Passes
  PROVE  z.state \in States /\ z.text \in Seq(Symbols) /\ z = [state |-> z.state, text |-> z.text]
BY DEF Passes

LEMMA RunExists ==
  ASSUME NEW p \in States, NEW t \in Seq(Symbols), NEW n \in Nat
  PROVE  \E f : Runs(f, n, p, t)
<1> DEFINE g == [e \in (1 .. n) \X Passes |-> RenderPass(e[2])]
           a == [state |-> p, text |-> t]
<1>1. \A z \in Passes : RenderPass(z) \in Passes
  <2> SUFFICES ASSUME NEW z \in Passes PROVE RenderPass(z) \in Passes
    OBVIOUS
  <2>1. z.state \in States /\ z.text \in Seq(Symbols) /\ z = [state |-> z.state, text |-> z.text]
    BY PassesAre
  <2>2. RenderPass([state |-> z.state, text |-> z.text]) \in Passes
    BY <2>1, PassTyped
  <2> QED
    BY <2>1, <2>2, Zenon
<1>2. a \in Passes
  BY DEF Passes
<1>3. g \in [(1 .. n) \X Passes -> Passes]
  BY <1>1
<1>4. \A k \in 1 .. n, z \in Passes : g[<<k, z>>] = RenderPass(z)
  OBVIOUS
<1> HIDE DEF g, a
<1>5. PICK f : IteratesTo(f, n, Passes, a, g)
  BY <1>2, <1>3, IterationExists, Zenon
<1>6. f \in [0 .. n -> Passes] /\ f[0] = a /\ \A k \in 1 .. n : f[k] = g[<<k, f[k - 1]>>]
  BY <1>5 DEF IteratesTo
<1>7. ASSUME NEW k \in 1 .. n PROVE f[k] = RenderPass(f[k - 1])
  <2>1. k - 1 \in 0 .. n
    OBVIOUS
  <2>2. f[k - 1] \in Passes
    BY <1>6, <2>1
  <2> QED
    BY <1>4, <1>6, <2>2
<1> QED
  BY <1>6, <1>7 DEF Runs, a

LEMMA RunShrinks ==
  ASSUME NEW p \in States, NEW t \in Seq(Symbols), NEW n \in Nat, NEW f, Runs(f, n, p, t),
         NEW k \in 0 .. n
  PROVE  f[k].text = << >> \/ Len(f[k].text) <= Len(t) - k
<1> DEFINE Short(j) == f[j].text = << >> \/ Len(f[j].text) <= Len(t) - j
           Bad == {j \in 0 .. n : ~ Short(j)}
<1>1. /\ f \in [0 .. n -> Passes] /\ f[0] = [state |-> p, text |-> t]
      /\ \A j \in 1 .. n : f[j] = RenderPass(f[j - 1])
  BY DEF Runs
<1>2. SUFFICES ASSUME Bad # {} PROVE FALSE
  OBVIOUS
<1>3. Bad \subseteq Nat
  OBVIOUS
<1>4. PICK m \in Bad : \A j \in Bad : m <= j
  BY <1>2, <1>3, LeastExists
<1>5. m \in 0 .. n /\ ~ Short(m)
  OBVIOUS
<1>6. m # 0
  <2>1. Short(0)
    BY <1>1
  <2> QED
    BY <1>5, <2>1
<1>7. PICK j \in 0 .. n : m = j + 1
  <2>1. m - 1 \in 0 .. n /\ m = (m - 1) + 1
    BY <1>5, <1>6
  <2> QED
    BY <2>1
<1>8. Short(j)
  <2>1. ~ (m <= j)
    BY <1>7
  <2>2. j \notin Bad
    BY <1>4, <2>1
  <2> QED
    BY <2>2
<1>9. m \in 1 .. n /\ m - 1 = j
  BY <1>5, <1>6, <1>7
<1>10. f[m] = RenderPass(f[j])
  BY <1>1, <1>9
<1>11. f[j] \in Passes /\ f[m] \in Passes
  BY <1>1, <1>5
<1> DEFINE q == f[j].state
           u == f[j].text
<1>12. q \in States /\ u \in Seq(Symbols) /\ f[j] = [state |-> q, text |-> u]
  BY <1>11, PassesAre
<1> HIDE DEF q, u
<1>13. /\ u = << >> => f[m] = [state |-> q, text |-> u]
       /\ f[m].text # << >> => Len(f[m].text) < Len(u)
  BY <1>10, <1>12, PassTyped
<1>14. CASE u = << >>
  <2>1. f[m].text = << >>
    BY <1>13, <1>14
  <2> QED
    BY <1>5, <2>1
<1>15. CASE u # << >> /\ f[m].text # << >>
  <2>1. Len(u) <= Len(t) - j /\ Len(f[m].text) < Len(u)
    BY <1>8, <1>13, <1>15 DEF u
  <2>2. Len(f[m].text) \in Nat /\ Len(u) \in Nat /\ Len(t) \in Nat
    BY <1>11, <1>12, PassesAre
  <2> DEFINE a == Len(f[m].text)
             b == Len(u)
             c == Len(t)
  <2>3. a \in Nat /\ b \in Nat /\ c \in Nat /\ b <= c - j /\ a < b
    BY <2>1, <2>2
  <2> HIDE DEF a, b, c
  <2>4. a <= c - m
    BY <1>7, <2>3
  <2> QED
    BY <1>5, <2>4 DEF a, c
<1> QED
  BY <1>5, <1>14, <1>15

LEMMA RunSettles ==
  ASSUME NEW p \in States, NEW t \in Seq(Symbols), NEW n \in Nat, NEW f, Runs(f, n, p, t),
         NEW m \in Nat, Len(t) <= m, m <= n
  PROVE  f[m].text = << >> /\ f[n] = f[m]
<1>1. Len(t) \in Nat
  OBVIOUS
<1>2. /\ f \in [0 .. n -> Passes]
      /\ \A j \in 1 .. n : f[j] = RenderPass(f[j - 1])
  BY DEF Runs
<1>3. ASSUME NEW k \in m .. n PROVE f[k].text = << >>
  <2>1. k \in 0 .. n /\ k \in Nat /\ Len(t) <= k
    BY <1>1
  <2>2. f[k].text = << >> \/ Len(f[k].text) <= Len(t) - k
    BY <2>1, RunShrinks
  <2>3. f[k].text \in Seq(Symbols)
    BY <1>2, <2>1, PassesAre
  <2> DEFINE u == f[k].text
  <2>4. u \in Seq(Symbols) /\ (u = << >> \/ Len(u) <= Len(t) - k)
    BY <2>2, <2>3
  <2> HIDE DEF u
  <2>5. u = << >>
    BY <1>1, <2>1, <2>4
  <2> QED
    BY <2>5 DEF u
<1> DEFINE g == [k \in m .. n |-> f[m]]
<1>4. AgreeStepwise(f, g, m, n)
  <2> SUFFICES ASSUME NEW k \in m .. n, k # m => f[k - 1] = g[k - 1] PROVE f[k] = g[k]
    BY DEF AgreeStepwise
  <2>1. CASE k = m
    BY <2>1
  <2>2. CASE k # m
    <3>1. k - 1 \in m .. n /\ k \in 1 .. n /\ k - 1 \in 0 .. n
      BY <2>2
    <3>2. f[k] = RenderPass(f[k - 1]) /\ f[k - 1] \in Passes /\ f[k - 1].text = << >>
      BY <1>2, <1>3, <3>1
    <3>3. f[k] = f[k - 1]
      BY <3>2 DEF RenderPass
    <3>4. f[k - 1] = f[m] /\ g[k] = f[m]
      BY <2>2, <3>1
    <3> QED
      BY <3>3, <3>4
  <2> QED
    BY <2>1, <2>2
<1>5. Agree(f, g, m, n)
  <2> HIDE DEF g
  <2> QED
    BY <1>4, OneIteration
<1>6. m \in m .. n /\ n \in m .. n
  OBVIOUS
<1>7. f[n] = g[n] /\ g[n] = f[m]
  BY <1>5, <1>6 DEF Agree
<1> QED
  BY <1>3, <1>6, <1>7

LEMMA RenderIs ==
  ASSUME NEW p \in States, NEW t \in Seq(Symbols), NEW n \in Nat, Len(t) <= n,
         NEW f, Runs(f, n, p, t)
  PROVE  Render(p, t) = f[n].state /\ f[n].text = << >>
<1> DEFINE N == Len(t)
           a == [state |-> p, text |-> t]
           Body(g) == g = [k \in 0 .. N |-> IF k = 0 THEN a ELSE RenderPass(g[k - 1])]
           c == CHOOSE g : Body(g)
           h == [k \in 0 .. N |-> f[k]]
<1>1. N \in Nat /\ N <= n
  OBVIOUS
<1>2. f[0] = a /\ \A k \in 1 .. n : f[k] = RenderPass(f[k - 1])
  BY DEF Runs
<1>3. Render(p, t) = c[N].state
  BY DEF Render
<1>4. Body(h)
  <2>1. ASSUME NEW k \in 0 .. N
        PROVE  f[k] = IF k = 0 THEN a ELSE RenderPass(h[k - 1])
    <3>1. CASE k = 0
      BY <1>2, <3>1
    <3>2. CASE k # 0
      <4>1. k - 1 \in 0 .. N /\ k \in 1 .. n
        BY <1>1, <3>2
      <4>2. h[k - 1] = f[k - 1]
        BY <4>1
      <4> QED
        BY <1>2, <3>2, <4>1, <4>2
    <3> QED
      BY <3>1, <3>2
  <2> HIDE DEF a
  <2> QED
    BY <2>1
<1> HIDE DEF h, a
<1>5. Body(c)
  BY <1>4
<1> HIDE DEF c
<1>6. AgreeStepwise(c, f, 0, N)
  <2> SUFFICES ASSUME NEW k \in 0 .. N, k # 0 => c[k - 1] = f[k - 1] PROVE c[k] = f[k]
    BY DEF AgreeStepwise
  <2>1. c[k] = IF k = 0 THEN a ELSE RenderPass(c[k - 1])
    BY <1>5
  <2>2. k # 0 => k \in 1 .. n
    BY <1>1
  <2> QED
    BY <1>2, <2>1, <2>2
<1>7. Agree(c, f, 0, N)
  <2>1. 0 \in Nat
    OBVIOUS
  <2> QED
    BY <1>1, <1>6, <2>1, OneIteration, Zenon
<1>8. c[N] = f[N]
  BY <1>1, <1>7 DEF Agree
<1>9. f[N].text = << >> /\ f[n] = f[N]
  BY <1>1, RunSettles
<1> QED
  BY <1>3, <1>8, <1>9

\* A rendering goes on from what its first pass leaves.
LEMMA RenderStep ==
  ASSUME NEW p \in States, NEW t \in Seq(Symbols), t # << >>,
         NEW q \in States, NEW u \in Seq(Symbols),
         RenderPass([state |-> p, text |-> t]) = [state |-> q, text |-> u]
  PROVE  Render(p, t) = Render(q, u)
<1>1. PICK n \in Nat : Len(t) = n + 1
  <2>1. Len(t) \in Nat /\ Len(t) # 0
    OBVIOUS
  <2>2. Len(t) - 1 \in Nat /\ Len(t) = (Len(t) - 1) + 1
    BY <2>1
  <2> QED
    BY <2>2
<1>2. PICK g : Runs(g, n, q, u)
  BY RunExists
<1> DEFINE f == [k \in 0 .. n + 1 |-> IF k = 0 THEN [state |-> p, text |-> t] ELSE g[k - 1]]
<1>3. /\ g \in [0 .. n -> Passes] /\ g[0] = [state |-> q, text |-> u]
      /\ \A j \in 1 .. n : g[j] = RenderPass(g[j - 1])
  BY <1>2 DEF Runs
<1>4. Runs(f, n + 1, p, t)
  <2>1. [state |-> p, text |-> t] \in Passes
    BY DEF Passes
  <2>2. \A k \in 0 .. n + 1 : k # 0 => k - 1 \in 0 .. n /\ g[k - 1] \in Passes
    BY <1>3
  <2>3. f \in [0 .. n + 1 -> Passes]
    BY <2>1, <2>2
  <2>4. f[0] = [state |-> p, text |-> t]
    OBVIOUS
  <2>5. ASSUME NEW k \in 1 .. n + 1 PROVE f[k] = RenderPass(f[k - 1])
    <3>1. k \in 0 .. n + 1 /\ k - 1 \in 0 .. n + 1
      OBVIOUS
    <3>2. f[k] = g[k - 1]
      BY <3>1
    <3>3. CASE k = 1
      <4>1. k - 1 = 0
        BY <3>3
      <4>2. f[k - 1] = [state |-> p, text |-> t] /\ g[k - 1] = [state |-> q, text |-> u]
        BY <1>3, <2>4, <4>1
      <4> QED
        BY <3>2, <4>2
    <3>4. CASE k # 1
      <4>1. PICK j \in 1 .. n : k - 1 = j
        BY <3>4
      <4>2. f[k - 1] = g[j - 1] /\ f[k] = g[j]
        BY <3>1, <3>2, <4>1
      <4> QED
        BY <1>3, <4>1, <4>2
    <3> QED
      BY <3>3, <3>4
  <2> HIDE DEF f
  <2> QED
    BY <2>3, <2>4, <2>5 DEF Runs
<1>5. f[n + 1] = g[n]
  <2>1. n + 1 \in 0 .. n + 1 /\ n + 1 # 0 /\ (n + 1) - 1 = n
    OBVIOUS
  <2>2. f[n + 1] = g[(n + 1) - 1]
    BY <2>1
  <2> QED
    BY <2>1, <2>2
<1> HIDE DEF f
<1>6. Len(u) <= n
  <2>1. u # << >> => Len(u) < Len(t)
    BY PassTyped
  <2>2. Len(u) \in Nat /\ (u = << >> => Len(u) = 0)
    OBVIOUS
  <2> QED
    BY <1>1, <2>1, <2>2
<1>7. n + 1 \in Nat /\ Len(t) <= n + 1
  BY <1>1
<1>8. Render(p, t) = f[n + 1].state
  BY <1>4, <1>7, RenderIs
<1>9. Render(q, u) = g[n].state
  BY <1>2, <1>6, RenderIs
<1> QED
  BY <1>5, <1>8, <1>9

LEMMA RenderNothing ==
  ASSUME NEW p \in States
  PROVE  Render(p, << >>) = p
<1>1. << >> \in Seq(Symbols) /\ 0 \in Nat /\ Len(<< >>) <= 0
  OBVIOUS
<1>2. PICK f : Runs(f, 0, p, << >>)
  BY <1>1, RunExists
<1>3. Render(p, << >>) = f[0].state
  BY <1>1, <1>2, RenderIs
<1>4. f[0] = [state |-> p, text |-> << >>]
  BY <1>2 DEF Runs
<1> QED
  BY <1>3, <1>4

LEMMA RenderTyped ==
  ASSUME NEW p \in States, NEW t \in Seq(Symbols)
  PROVE  Render(p, t) \in States
<1>1. Len(t) \in Nat
  OBVIOUS
<1>2. PICK f : Runs(f, Len(t), p, t)
  BY <1>1, RunExists
<1>3. Render(p, t) = f[Len(t)].state
  BY <1>1, <1>2, RenderIs
<1>4. f \in [0 .. Len(t) -> Passes] /\ Len(t) \in 0 .. Len(t)
  BY <1>1, <1>2 DEF Runs
<1>5. f[Len(t)] \in Passes
  BY <1>4
<1> QED
  BY <1>3, <1>5, PassesAre

\* What is plain is taken whatever comes after it.
LEMMA PlainFirst ==
  ASSUME NEW q \in States, q.tail = << >>, NEW x \in Seq(Symbols), Plain(x),
         NEW s \in Seq(Symbols)
  PROVE  Render(q, x \o s) = Render(Take(q, x), s)
<1> HIDE DEF Tick, Newline
<1> DEFINE p == Take(q, x)
<1>1. p \in States /\ p.tail = << >>
  BY TakeIs
<1>2. CASE s = << >>
  <2>1. x \o s = x /\ Render(p, s) = p
    BY <1>1, <1>2, ConcatEmptySeq, RenderNothing
  <2>2. CASE x = << >>
    <3>1. p = q
      BY <2>2, TakeNone
    <3> QED
      BY <1>2, <2>1, <2>2, <3>1
  <2>3. CASE x # << >>
    <3>1. << >> \in Seq(Symbols) /\ Held(<< >>)
      BY DEF Held, TicksOnly
    <3>2. Cut(x, x, << >>)
      BY <1>2, <2>1, <3>1 DEF Cut
    <3>3. RenderPass([state |-> q, text |-> x]) = CutPass(q, x, << >>)
      BY <2>3, <3>1, <3>2, PassIs
    <3>4. CutPass(q, x, << >>) = [state |-> [p EXCEPT !.tail = << >>], text |-> << >>]
      BY <3>1 DEF CutPass
    <3> HIDE DEF p
    <3>5. [p EXCEPT !.tail = << >>] = p
      BY <1>1 DEF States
    <3>6. RenderPass([state |-> q, text |-> x]) = [state |-> p, text |-> << >>]
      BY <3>3, <3>4, <3>5
    <3>7. Render(q, x) = Render(p, << >>)
      BY <1>1, <2>3, <3>1, <3>6, RenderStep
    <3> QED
      BY <1>2, <2>1, <3>7 DEF p
  <2> QED
    BY <2>2, <2>3
<1>3. CASE s # << >>
  <2>1. PICK w \in Seq(Symbols), y \in Seq(Symbols) : Cut(s, w, y)
    BY CutExists
  <2>2. s = w \o y /\ Plain(w) /\ (Held(y) \/ Fenced(y))
    BY <2>1 DEF Cut
  <2>3. x \o w \in Seq(Symbols) /\ x \o s \in Seq(Symbols) /\ x \o s # << >>
    <3>1. x \o w \in Seq(Symbols) /\ x \o s \in Seq(Symbols)
      BY ConcatIs
    <3>2. x \o s # << >>
      BY <1>3, ConcatEqualIffEmpty
    <3> QED
      BY <3>1, <3>2
  <2>4. x \o s = (x \o w) \o y
    <3>1. (x \o w) \o y = x \o (w \o y)
      BY TextsJoin, Zenon
    <3> QED
      BY <2>2, <3>1
  <2>5. Cut(x \o s, x \o w, y)
    BY <2>2, <2>4, PlainJoins DEF Cut
  <2>6. RenderPass([state |-> q, text |-> x \o s]) = CutPass(q, x \o w, y)
    <3> DEFINE t == x \o s
               v == x \o w
    <3>1. t \in Seq(Symbols) /\ v \in Seq(Symbols) /\ t # << >> /\ Cut(t, v, y)
      BY <2>3, <2>5
    <3> HIDE DEF t, v
    <3>2. RenderPass([state |-> q, text |-> t]) = CutPass(q, v, y)
      BY <3>1, PassIs
    <3> QED
      BY <3>2 DEF t, v
  <2>7. CutPass(q, x \o w, y) = CutPass(p, w, y)
    BY TakeTake DEF CutPass
  <2>8. RenderPass([state |-> p, text |-> s]) = CutPass(p, w, y)
    BY <1>1, <1>3, <2>1, PassIs
  <2> DEFINE next == CutPass(p, w, y)
  <2>9. next \in Passes
    BY <1>1, <2>8, PassTyped
  <2> HIDE DEF next, p
  <2>10. PICK r \in States, u \in Seq(Symbols) : next = [state |-> r, text |-> u]
    BY <2>9, PassesAre
  <2>11. Render(p, s) = Render(r, u)
    <3>1. RenderPass([state |-> p, text |-> s]) = [state |-> r, text |-> u]
      BY <2>8, <2>10 DEF next
    <3> QED
      BY <1>1, <1>3, <3>1, RenderStep
  <2>12. Render(q, x \o s) = Render(r, u)
    <3> DEFINE t == x \o s
    <3>1. t \in Seq(Symbols) /\ t # << >>
      BY <2>3
    <3>2. RenderPass([state |-> q, text |-> t]) = [state |-> r, text |-> u]
      BY <2>6, <2>7, <2>10 DEF next
    <3> HIDE DEF t
    <3>3. Render(q, t) = Render(r, u)
      BY <3>1, <3>2, RenderStep
    <3> QED
      BY <3>3 DEF t
  <2> QED
    BY <2>11, <2>12 DEF p
<1> QED
  BY <1>2, <1>3

\* What has been printed before changes nothing else.
Shift(p, o) == [p EXCEPT !.out = o \o @]

LEMMA ShiftIs ==
  ASSUME NEW q \in States, NEW o \in Seq(Items)
  PROVE  /\ Shift(q, o) \in States
         /\ Shift(q, o).tail = q.tail /\ Shift(q, o).fence = q.fence
         /\ Shift(q, o).code = q.code /\ Shift(q, o).out = o \o q.out
<1> DEFINE w == o \o q.out
<1>1. w \in Seq(Items)
  <2>1. q.out \in Seq(Items)
    BY DEF States
  <2> QED
    BY <2>1, ConcatProperties
<1>2. Shift(q, o) = [q EXCEPT !.out = w]
  BY DEF Shift
<1> HIDE DEF w
<1>3. /\ Shift(q, o) \in States
      /\ Shift(q, o).tail = q.tail /\ Shift(q, o).fence = q.fence
      /\ Shift(q, o).code = q.code /\ Shift(q, o).out = w
  BY <1>1, <1>2 DEF States
<1> QED
  BY <1>3 DEF w

LEMMA ShiftTake ==
  ASSUME NEW q \in States, NEW o \in Seq(Items), NEW x \in Seq(Symbols)
  PROVE  Take(Shift(q, o), x) = Shift(Take(q, x), o)
<1> DEFINE s == Shift(q, o)
           p == Take(q, x)
           a == Take(s, x)
           b == Shift(p, o)
           i == Inline(x)
<1>1. /\ s \in States /\ s.tail = q.tail /\ s.fence = q.fence
      /\ s.code = q.code /\ s.out = o \o q.out
  BY ShiftIs
<1>2. /\ p \in States /\ p.tail = q.tail /\ p.fence = q.fence
      /\ p.code = IF q.fence THEN q.code \o x ELSE q.code
      /\ p.out = IF q.fence THEN q.out ELSE q.out \o i
  BY TakeIs
<1>3. i \in Seq(Items) /\ q.out \in Seq(Items) /\ q.fence \in BOOLEAN
  BY InlineTyped DEF States
<1> HIDE DEF s, p
<1>4. /\ a \in States /\ a.tail = s.tail /\ a.fence = s.fence
      /\ a.code = IF s.fence THEN s.code \o x ELSE s.code
      /\ a.out = IF s.fence THEN s.out ELSE s.out \o i
  BY <1>1, TakeIs
<1>5. /\ b \in States /\ b.tail = p.tail /\ b.fence = p.fence
      /\ b.code = p.code /\ b.out = o \o p.out
  BY <1>2, ShiftIs
<1> HIDE DEF a, b, i
<1>6. a.out = b.out
  <2> DEFINE w == q.out
  <2>1. w \in Seq(Items)
    BY <1>3
  <2> HIDE DEF w
  <2>2. (o \o w) \o i = o \o (w \o i)
    BY <1>3, <2>1, OutJoins, Zenon
  <2> QED
    BY <1>1, <1>2, <1>4, <1>5, <2>2 DEF w
<1>7. a.code = b.code /\ a.tail = b.tail /\ a.fence = b.fence
  BY <1>1, <1>2, <1>4, <1>5
<1>8. a = b
  BY <1>4, <1>5, <1>6, <1>7, StateEqual
<1> QED
  BY <1>8 DEF a, b, s, p

LEMMA ShiftFencePass ==
  ASSUME NEW q \in States, NEW o \in Seq(Items), NEW y \in Seq(Symbols), Fenced(y)
  PROVE  FencePass(Shift(q, o), y)
           = [state |-> Shift(FencePass(q, y).state, o), text |-> FencePass(q, y).text]
<1> HIDE DEF Tick, Newline
<1> DEFINE s == Shift(q, o)
           r == After(y, 3)
<1>1. /\ s \in States /\ s.tail = q.tail /\ s.fence = q.fence
      /\ s.code = q.code /\ s.out = o \o q.out
  BY ShiftIs
<1>2. q.out \in Seq(Items) /\ q.fence \in BOOLEAN /\ q.code \in Seq(Symbols)
  BY DEF States
<1>3. FencePass(q, y) \in Passes
  BY FencePassIs
<1>4. FencePass(q, y).state \in States
  BY <1>3, PassesAre
<1> DEFINE n == FencePass(q, y).state
           b == Shift(n, o)
<1>5. /\ b \in States /\ b.tail = n.tail /\ b.fence = n.fence
      /\ b.code = n.code /\ b.out = o \o n.out
  BY <1>4, ShiftIs
<1> HIDE DEF s, b, r
<1>6. CASE q.fence
  <2> DEFINE c == CodeBlock(q.code)
             v == q.out \o c
             u == s.out \o c
             m == [q EXCEPT !.out = v, !.fence = FALSE, !.code = << >>]
             a == [s EXCEPT !.out = u, !.fence = FALSE, !.code = << >>]
  <2>1. c \in Seq(Items) /\ v \in Seq(Items) /\ u \in Seq(Items)
    <3>1. c \in Seq(Items) /\ s.out \in Seq(Items)
      BY <1>1, <1>2, CodeBlockTyped DEF States
    <3> QED
      BY <1>2, <3>1, ConcatProperties
  <2>2. u = o \o v
    <3> DEFINE w == q.out
    <3>1. w \in Seq(Items)
      BY <1>2
    <3> HIDE DEF w, c
    <3>2. (o \o w) \o c = o \o (w \o c)
      BY <2>1, <3>1, OutJoins, Zenon
    <3> QED
      BY <1>1, <3>2 DEF w
  <2>3. FencePass(q, y) = [state |-> m, text |-> Unstarted(r)]
    BY <1>6 DEF FencePass, r
  <2>4. FencePass(s, y) = [state |-> a, text |-> Unstarted(r)]
    BY <1>1, <1>6 DEF FencePass, r
  <2>5. n = m /\ FencePass(q, y).text = Unstarted(r)
    BY <2>3
  <2> HIDE DEF c, u, v, n
  <2>6. << >> \in Seq(Symbols) /\ FALSE \in BOOLEAN
    OBVIOUS
  <2>7. m \in States /\ m.out = v /\ m.fence = FALSE /\ m.code = << >> /\ m.tail = q.tail
    BY <2>1, <2>6 DEF States
  <2>8. a \in States /\ a.out = u /\ a.fence = FALSE /\ a.code = << >> /\ a.tail = s.tail
    BY <1>1, <2>1, <2>6 DEF States
  <2> HIDE DEF m, a
  <2>9. a = b
    BY <1>1, <1>5, <2>2, <2>5, <2>7, <2>8, StateEqual
  <2> QED
    BY <2>4, <2>5, <2>9 DEF b, n, s
<1>7. CASE ~ q.fence /\ NewlinesIn(r) = {}
  <2> DEFINE m == [q EXCEPT !.tail = y]
             a == [s EXCEPT !.tail = y]
  <2>1. FencePass(q, y) = [state |-> m, text |-> << >>]
    BY <1>7 DEF FencePass, r
  <2>2. FencePass(s, y) = [state |-> a, text |-> << >>]
    BY <1>1, <1>7 DEF FencePass, r
  <2>3. n = m /\ FencePass(q, y).text = << >>
    BY <2>1
  <2> HIDE DEF n
  <2>4. m \in States /\ m.out = q.out /\ m.fence = q.fence /\ m.code = q.code /\ m.tail = y
    BY DEF States
  <2>5. a \in States /\ a.out = s.out /\ a.fence = s.fence /\ a.code = s.code /\ a.tail = y
    BY <1>1 DEF States
  <2> HIDE DEF m, a
  <2>6. a = b
    BY <1>1, <1>5, <2>3, <2>4, <2>5, StateEqual
  <2> QED
    BY <2>2, <2>3, <2>6 DEF b, n, s
<1>8. CASE ~ q.fence /\ NewlinesIn(r) # {}
  <2> DEFINE m == [q EXCEPT !.fence = TRUE, !.code = << >>]
             a == [s EXCEPT !.fence = TRUE, !.code = << >>]
             w == After(r, Smallest(NewlinesIn(r)))
  <2>1. FencePass(q, y) = [state |-> m, text |-> w]
    BY <1>8 DEF FencePass, r
  <2>2. FencePass(s, y) = [state |-> a, text |-> w]
    BY <1>1, <1>8 DEF FencePass, r
  <2>3. n = m /\ FencePass(q, y).text = w
    BY <2>1
  <2> HIDE DEF n, w
  <2>4. << >> \in Seq(Symbols) /\ TRUE \in BOOLEAN
    OBVIOUS
  <2>5. m \in States /\ m.out = q.out /\ m.fence = TRUE /\ m.code = << >> /\ m.tail = q.tail
    BY <2>4 DEF States
  <2>6. a \in States /\ a.out = s.out /\ a.fence = TRUE /\ a.code = << >> /\ a.tail = s.tail
    BY <1>1, <2>4 DEF States
  <2> HIDE DEF m, a
  <2>7. a = b
    BY <1>1, <1>5, <2>3, <2>5, <2>6, StateEqual
  <2> QED
    BY <2>2, <2>3, <2>7 DEF b, n, s
<1> QED
  BY <1>2, <1>6, <1>7, <1>8

LEMMA ShiftPass ==
  ASSUME NEW q \in States, NEW o \in Seq(Items), NEW t \in Seq(Symbols)
  PROVE  RenderPass([state |-> Shift(q, o), text |-> t])
           = [state |-> Shift(RenderPass([state |-> q, text |-> t]).state, o),
              text |-> RenderPass([state |-> q, text |-> t]).text]
<1> DEFINE s == Shift(q, o)
<1>1. s \in States
  BY ShiftIs
<1> HIDE DEF s
<1>2. CASE t = << >>
  <2>1. RenderPass([state |-> s, text |-> t]) = [state |-> s, text |-> t]
    BY <1>1, <1>2, PassTyped
  <2>2. RenderPass([state |-> q, text |-> t]) = [state |-> q, text |-> t]
    BY <1>2, PassTyped
  <2> QED
    BY <2>1, <2>2 DEF s
<1>3. CASE t # << >>
  <2>1. PICK x \in Seq(Symbols), y \in Seq(Symbols) : Cut(t, x, y)
    BY CutExists
  <2>2. Held(y) \/ Fenced(y)
    BY <2>1 DEF Cut
  <2>3. RenderPass([state |-> s, text |-> t]) = CutPass(s, x, y)
    BY <1>1, <1>3, <2>1, PassIs
  <2>4. RenderPass([state |-> q, text |-> t]) = CutPass(q, x, y)
    BY <1>3, <2>1, PassIs
  <2> DEFINE p == Take(q, x)
  <2>5. Take(s, x) = Shift(p, o) /\ p \in States
    BY ShiftTake, TakeIs DEF s
  <2> HIDE DEF p
  <2>6. CASE Held(y)
    <3> DEFINE m == [p EXCEPT !.tail = y]
               a == [Shift(p, o) EXCEPT !.tail = y]
    <3>1. CutPass(s, x, y) = [state |-> a, text |-> << >>]
      BY <2>5, <2>6 DEF CutPass
    <3>2. CutPass(q, x, y) = [state |-> m, text |-> << >>]
      BY <2>6 DEF CutPass, p
    <3>3. a = Shift(m, o)
      <4> DEFINE v == Shift(p, o)
                 b == Shift(m, o)
      <4>1. /\ v \in States /\ v.tail = p.tail /\ v.fence = p.fence
            /\ v.code = p.code /\ v.out = o \o p.out
        BY <2>5, ShiftIs
      <4>2. m \in States /\ m.out = p.out /\ m.fence = p.fence /\ m.code = p.code /\ m.tail = y
        BY <2>5 DEF States
      <4> HIDE DEF v, m
      <4>3. /\ b \in States /\ b.tail = m.tail /\ b.fence = m.fence
            /\ b.code = m.code /\ b.out = o \o m.out
        BY <4>2, ShiftIs
      <4> HIDE DEF b
      <4> DEFINE c == [v EXCEPT !.tail = y]
      <4>4. c \in States /\ c.out = v.out /\ c.fence = v.fence /\ c.code = v.code /\ c.tail = y
        BY <4>1 DEF States
      <4> HIDE DEF c
      <4>5. c = b
        BY <4>1, <4>2, <4>3, <4>4, StateEqual
      <4> QED
        BY <4>5 DEF c, v, b, m
    <3> HIDE DEF a, m
    <3>4. CutPass(q, x, y).state = m /\ CutPass(q, x, y).text = << >>
      BY <3>2
    <3> QED
      BY <2>3, <2>4, <3>1, <3>3, <3>4 DEF s
  <2>7. CASE ~ Held(y)
    <3>1. CutPass(s, x, y) = FencePass(Shift(p, o), y) /\ CutPass(q, x, y) = FencePass(p, y)
      BY <2>5, <2>7 DEF CutPass, p
    <3>2. FencePass(Shift(p, o), y)
            = [state |-> Shift(FencePass(p, y).state, o), text |-> FencePass(p, y).text]
      BY <2>2, <2>5, <2>7, ShiftFencePass
    <3> QED
      BY <2>3, <2>4, <3>1, <3>2 DEF s
  <2> QED
    BY <2>6, <2>7
<1> QED
  BY <1>2, <1>3

LEMMA ShiftRender ==
  ASSUME NEW p \in States, NEW o \in Seq(Items), NEW t \in Seq(Symbols)
  PROVE  Render(Shift(p, o), t) = Shift(Render(p, t), o)
<1> DEFINE n == Len(t)
           s == Shift(p, o)
<1>1. n \in Nat /\ Len(t) <= n /\ n \in 0 .. n
  OBVIOUS
<1>2. s \in States
  BY ShiftIs
<1> HIDE DEF n, s
<1>3. PICK f : Runs(f, n, p, t)
  BY <1>1, RunExists
<1>4. /\ f \in [0 .. n -> Passes] /\ f[0] = [state |-> p, text |-> t]
      /\ \A k \in 1 .. n : f[k] = RenderPass(f[k - 1])
  BY <1>3 DEF Runs
<1> DEFINE g == [k \in 0 .. n |-> [state |-> Shift(f[k].state, o), text |-> f[k].text]]
<1>5. ASSUME NEW k \in 0 .. n
      PROVE  /\ f[k].state \in States /\ f[k].text \in Seq(Symbols)
             /\ f[k] = [state |-> f[k].state, text |-> f[k].text]
  <2>1. f[k] \in Passes
    BY <1>4
  <2> QED
    BY <2>1, PassesAre
<1>6. Runs(g, n, s, t)
  <2>1. ASSUME NEW k \in 0 .. n
        PROVE  [state |-> Shift(f[k].state, o), text |-> f[k].text] \in Passes
    <3>1. Shift(f[k].state, o) \in States /\ f[k].text \in Seq(Symbols)
      BY <1>5, ShiftIs
    <3> QED
      BY <3>1 DEF Passes
  <2>2. g \in [0 .. n -> Passes]
    BY <2>1
  <2>3. g[0] = [state |-> s, text |-> t]
    <3>1. 0 \in 0 .. n /\ f[0].state = p /\ f[0].text = t
      BY <1>1, <1>4
    <3> QED
      BY <3>1 DEF s
  <2>4. ASSUME NEW k \in 1 .. n PROVE g[k] = RenderPass(g[k - 1])
    <3>1. PICK j \in 0 .. n : k = j + 1
      <4>1. k - 1 \in 0 .. n /\ k = (k - 1) + 1
        BY <1>1
      <4> QED
        BY <4>1
    <3>2. k \in 0 .. n /\ k - 1 = j
      BY <1>1, <3>1
    <3> DEFINE q == f[j].state
               u == f[j].text
    <3>3. q \in States /\ u \in Seq(Symbols) /\ f[j] = [state |-> q, text |-> u]
      BY <1>5
    <3>4. g[j] = [state |-> Shift(q, o), text |-> u]
      OBVIOUS
    <3>5. g[k] = [state |-> Shift(f[k].state, o), text |-> f[k].text]
      BY <3>2
    <3>6. f[k] = RenderPass([state |-> q, text |-> u])
      BY <1>4, <3>2, <3>3
    <3> HIDE DEF q, u, g
    <3>7. RenderPass([state |-> Shift(q, o), text |-> u])
            = [state |-> Shift(RenderPass([state |-> q, text |-> u]).state, o),
               text |-> RenderPass([state |-> q, text |-> u]).text]
      BY <3>3, ShiftPass
    <3>8. g[k] = RenderPass([state |-> Shift(q, o), text |-> u])
      BY <3>5, <3>6, <3>7, Zenon
    <3> QED
      BY <3>2, <3>4, <3>8, Zenon
  <2> HIDE DEF g
  <2> QED
    BY <2>2, <2>3, <2>4 DEF Runs
<1>7. g[n].state = Shift(f[n].state, o)
  BY <1>1
<1> HIDE DEF g
<1>8. Render(p, t) = f[n].state
  BY <1>1, <1>3, RenderIs
<1>9. Render(s, t) = g[n].state
  BY <1>1, <1>2, <1>6, RenderIs
<1> QED
  BY <1>7, <1>8, <1>9 DEF s

\* What is visible of two parts is what is visible of each.
Glimpse(e) == IF e = BlankLine THEN << >> ELSE <<e>>
Glimpses(items) == [k \in DOMAIN items |-> Glimpse(items[k])]

LEMMA GlimpsesTyped ==
  ASSUME NEW a \in Seq(Items)
  PROVE  /\ Glimpses(a) \in Seq(Seq(Items)) /\ Len(Glimpses(a)) = Len(a)
         /\ \A k \in 1 .. Len(a) : Glimpses(a)[k] = Glimpse(a[k])
         /\ Visible(a) = FlattenSeq(Glimpses(a))
<1>1. DOMAIN a = 1 .. Len(a) /\ Len(a) \in Nat /\ \A k \in 1 .. Len(a) : a[k] \in Items
  OBVIOUS
<1>2. ASSUME NEW k \in 1 .. Len(a) PROVE Glimpse(a[k]) \in Seq(Items)
  <2>1. a[k] \in Items
    BY <1>1
  <2> DEFINE e == a[k]
  <2> HIDE DEF e
  <2>2. e \in Items
    BY <2>1 DEF e
  <2>3. << >> \in Seq(Items) /\ <<e>> \in Seq(Items)
    BY <2>2
  <2> QED
    BY <2>3 DEF Glimpse, e
<1>3. Visible(a) = FlattenSeq(Glimpses(a))
  BY DEF Visible, Glimpses, Glimpse
<1>4. Glimpses(a) = [k \in 1 .. Len(a) |-> Glimpse(a[k])]
  BY <1>1 DEF Glimpses
<1>5. Glimpses(a) \in [1 .. Len(a) -> Seq(Items)] /\ \A k \in 1 .. Len(a) : Glimpses(a)[k] = Glimpse(a[k])
  BY <1>2, <1>4
<1>6. Glimpses(a) \in Seq(Seq(Items)) /\ Len(Glimpses(a)) = Len(a)
  <2> DEFINE g == Glimpses(a)
             n == Len(a)
             V == Seq(Items)
  <2>1. g \in [1 .. n -> V] /\ n \in Nat
    BY <1>1, <1>5
  <2> HIDE DEF g, n, V
  <2>2. g \in Seq(V) /\ Len(g) = n
    BY <2>1
  <2> QED
    BY <2>2 DEF g, n, V
<1> QED
  BY <1>3, <1>5, <1>6

LEMMA VisibleGrows ==
  ASSUME NEW a \in Seq(Items), NEW e \in Items
  PROVE  Visible(a) \in Seq(Items) /\ Visible(Append(a, e)) = Visible(a) \o Glimpse(e)
<1> DEFINE c == Append(a, e)
           g == Glimpses(a)
           h == Glimpses(c)
           x == Glimpse(e)
           V == Seq(Items)
           d == Append(g, x)
<1>1. c \in Seq(Items) /\ Len(c) = Len(a) + 1 /\ (\A j \in 1 .. Len(a) : c[j] = a[j])
      /\ c[Len(a) + 1] = e
  BY AppendIs
<1>2. /\ g \in Seq(V) /\ Len(g) = Len(a)
      /\ \A k \in 1 .. Len(a) : g[k] = Glimpse(a[k])
      /\ Visible(a) = FlattenSeq(g)
  BY GlimpsesTyped
<1>3. x \in V
  BY DEF Glimpse
<1> HIDE DEF c, x
<1>4. /\ h \in Seq(V) /\ Len(h) = Len(c)
      /\ \A k \in 1 .. Len(c) : h[k] = Glimpse(c[k])
      /\ Visible(c) = FlattenSeq(h)
  BY <1>1, GlimpsesTyped
<1> HIDE DEF g, h, V
<1>5. d \in Seq(V) /\ Len(d) = Len(g) + 1 /\ (\A j \in 1 .. Len(g) : d[j] = g[j])
      /\ d[Len(g) + 1] = x
  BY <1>2, <1>3, AppendIs
<1> HIDE DEF d
<1>6. Len(a) \in Nat
  OBVIOUS
<1>7. ASSUME NEW k \in 1 .. Len(h) PROVE h[k] = d[k]
  <2>1. CASE k \in 1 .. Len(a)
    <3>1. k \in 1 .. Len(c)
      BY <1>1, <1>6, <2>1
    <3> QED
      BY <1>1, <1>2, <1>4, <1>5, <2>1, <3>1
  <2>2. CASE k \notin 1 .. Len(a)
    <3>1. k = Len(a) + 1 /\ k \in 1 .. Len(c)
      BY <1>1, <1>4, <1>6, <2>2
    <3>2. h[k] = Glimpse(e)
      BY <1>1, <1>4, <3>1
    <3>3. d[k] = x
      BY <1>2, <1>5, <3>1
    <3> QED
      BY <3>2, <3>3 DEF x
  <2> QED
    BY <2>1, <2>2
<1>8. Len(h) = Len(d)
  BY <1>1, <1>2, <1>4, <1>5
<1>9. h = d
  BY <1>4, <1>5, <1>7, <1>8, SeqEqual
<1>10. FlattenSeq(g) \in Seq(Items) /\ FlattenSeq(Append(g, x)) = FlattenSeq(g) \o x
  <2>1. g \in Seq(Seq(Items)) /\ x \in Seq(Items)
    BY <1>2, <1>3 DEF V
  <2> QED
    BY <2>1, FlattenGrows
<1> QED
  BY <1>2, <1>4, <1>9, <1>10 DEF c, d, x

LEMMA VisibleNone == Visible(<< >>) = << >>
<1>1. Visible(<< >>) = FlattenSeq(<< >>)
  BY DEF Visible
<1> QED
  BY <1>1, FlattenNone

LEMMA VisibleTyped ==
  ASSUME NEW a \in Seq(Items)
  PROVE  Visible(a) \in Seq(Items)
<1>1. CASE a = << >>
  BY <1>1, VisibleNone
<1>2. CASE a # << >>
  <2>1. PICK e \in Items : TRUE
    <3>1. a[1] \in Items
      BY <1>2
    <3> QED
      BY <3>1
  <2> QED
    BY VisibleGrows
<1> QED
  BY <1>1, <1>2

LEMMA VisibleJoins ==
  ASSUME NEW a \in Seq(Items), NEW b \in Seq(Items)
  PROVE  Visible(a \o b) = Visible(a) \o Visible(b)
<1> DEFINE Splits(c) == Visible(a \o c) = Visible(a) \o Visible(c)
           Bad == {n \in Nat : \E c \in Seq(Items) : Len(c) = n /\ ~ Splits(c)}
<1>1. SUFFICES ASSUME Bad # {} PROVE FALSE
  <2>1. Len(b) \in Nat
    OBVIOUS
  <2> QED
    BY <2>1
<1>2. PICK m \in Bad : \A j \in Bad : m <= j
  <2>1. Bad \subseteq Nat
    OBVIOUS
  <2> HIDE DEF Bad
  <2> QED
    BY <1>1, <2>1, LeastExists
<1>3. PICK c \in Seq(Items) : Len(c) = m /\ ~ Splits(c)
  OBVIOUS
<1> HIDE DEF Bad
<1>4. Visible(a) \in Seq(Items)
  BY VisibleTyped
<1>5. CASE c = << >>
  <2>1. a \o c = a /\ Visible(a) \o << >> = Visible(a)
    BY <1>4, <1>5, ConcatEmptySeq
  <2> QED
    BY <1>3, <1>5, <2>1, VisibleNone
<1>6. CASE c # << >>
  <2>1. PICK d \in Seq(Items), e \in Items : c = Append(d, e)
    BY <1>6, SequenceEmptyOrAppend
  <2>2. Len(c) = Len(d) + 1 /\ Len(d) \in Nat
    BY <2>1, AppendProperties
  <2>3. Splits(d)
    <3>1. ~ (m <= Len(d))
      BY <1>3, <2>2
    <3>2. Len(d) \notin Bad
      BY <1>2, <3>1
    <3> QED
      BY <2>2, <3>2 DEF Bad
  <2> DEFINE g == Glimpse(e)
             v == Visible(a)
             w == Visible(d)
             u == a \o d
  <2>4. u \in Seq(Items) /\ a \o c = Append(u, e)
    <3>1. u \in Seq(Items) /\ Append(u, e) = u \o <<e>> /\ Append(d, e) = d \o <<e>>
          /\ <<e>> \in Seq(Items)
      BY ConcatProperties, AppendIsConcat
    <3>2. (a \o d) \o <<e>> = a \o (d \o <<e>>)
      BY <2>1, <3>1, OutJoins, Zenon
    <3> QED
      BY <2>1, <3>1, <3>2
  <2> HIDE DEF u
  <2>5. Visible(a \o c) = Visible(u) \o g
    BY <2>4, VisibleGrows
  <2>6. Visible(c) = w \o g /\ w \in Seq(Items) /\ g \in Seq(Items) /\ v \in Seq(Items)
    <3>1. g \in Seq(Items)
      BY DEF Glimpse
    <3> QED
      BY <1>4, <2>1, <3>1, VisibleGrows
  <2>7. Visible(u) = v \o w
    BY <2>3 DEF u
  <2>8. (v \o w) \o g = v \o (w \o g)
    <3>1. PICK p \in Seq(Items) : p = v
      BY <2>6
    <3>2. PICK q \in Seq(Items) : q = w
      BY <2>6
    <3>3. PICK r \in Seq(Items) : r = g
      BY <2>6
    <3>4. (p \o q) \o r = p \o (q \o r)
      BY OutJoins, Zenon
    <3> QED
      BY <3>1, <3>2, <3>3, <3>4
  <2>9. Visible(a \o c) = v \o Visible(c)
    BY <2>5, <2>6, <2>7, <2>8
  <2> QED
    BY <1>3, <2>9 DEF v
<1> QED
  BY <1>5, <1>6

LEMMA NewlineUnseen ==
  ASSUME NEW o \in Seq(Items), Newline \in Symbols
  PROVE  /\ Inline(<<Newline>>) \in Seq(Items)
         /\ Visible(o \o Inline(<<Newline>>)) = Visible(o)
<1> HIDE DEF Newline
<1>1. BlankLine \in Items /\ Glimpse(BlankLine) = << >>
  BY DEF BlankLine, Items, Glimpse
<1>2. Inline(<<Newline>>) = <<BlankLine>>
  <2> DEFINE x == <<Newline>>
             a == Inline(x)
             b == <<BlankLine>>
  <2>1. x \in Seq(Symbols) /\ Len(x) = 1 /\ x[1] = Newline
    OBVIOUS
  <2> HIDE DEF x
  <2>2. a \in Seq(Items) /\ Len(a) = 1 /\ a[1] = [as |-> "inline", of |-> Newline]
    <3>1. /\ Inline(x) \in Seq(Items) /\ Len(Inline(x)) = Len(x)
          /\ \A k \in 1 .. Len(x) : Inline(x)[k] = [as |-> "inline", of |-> x[k]]
      BY <2>1, InlineTyped
    <3>2. 1 \in 1 .. Len(x)
      BY <2>1
    <3> QED
      BY <2>1, <3>1, <3>2
  <2> HIDE DEF a
  <2>3. b \in Seq(Items) /\ Len(b) = 1 /\ b[1] = BlankLine
    BY <1>1
  <2>4. a[1] = b[1]
    BY <2>2, <2>3 DEF BlankLine
  <2> HIDE DEF b
  <2>5. \A k \in 1 .. Len(a) : a[k] = b[k]
    BY <2>2, <2>4
  <2>6. a = b
    BY <2>2, <2>3, <2>5, SeqEqual
  <2> QED
    BY <2>6 DEF a, b, x
<1>3. o \o <<BlankLine>> = Append(o, BlankLine) /\ <<BlankLine>> \in Seq(Items)
  <2> HIDE DEF BlankLine, Items
  <2> QED
    BY <1>1, AppendIsConcat
<1>4. Visible(Append(o, BlankLine)) = Visible(o) \o << >>
  BY <1>1, VisibleGrows
<1>5. Visible(o) \o << >> = Visible(o)
  BY VisibleTyped, ConcatEmptySeq
<1> QED
  BY <1>2, <1>3, <1>4, <1>5

LEMMA FenceJoins ==
  ASSUME NEW y \in Seq(Symbols), NEW b \in Seq(Symbols), Fenced(y)
  PROVE  Fenced(y \o b) /\ After(y \o b, 3) = After(y, 3) \o b /\ After(y, 3) \in Seq(Symbols)
<1> HIDE DEF Tick, Newline
<1> DEFINE u == y \o b
<1>1. /\ u \in Seq(Symbols) /\ Len(u) = Len(y) + Len(b)
      /\ \A j \in 1 .. Len(y) : u[j] = y[j]
  BY ConcatIs
<1>2. Len(y) \in Nat /\ Len(b) \in Nat
  OBVIOUS
<1>3. 1 + 2 <= Len(y) /\ y[1] = Tick /\ y[1 + 1] = Tick /\ y[1 + 2] = Tick
  BY FencesAre DEF Fenced
<1> HIDE DEF u
<1>4. {1, 1 + 1, 1 + 2} \subseteq 1 .. Len(y) /\ 1 \in 1 .. Len(u) /\ 1 + 2 <= Len(u)
      /\ 3 \in 0 .. Len(y)
  BY <1>1, <1>2, <1>3
<1>5. u[1] = Tick /\ u[1 + 1] = Tick /\ u[1 + 2] = Tick
  BY <1>1, <1>3, <1>4
<1>6. 1 \in FencesIn(u)
  BY <1>1, <1>4, <1>5, FencesAre
<1>7. After(y \o b, 3) = After(y, 3) \o b /\ After(y, 3) \in Seq(Symbols)
  BY <1>4, AfterJoined, SecondHalf
<1> QED
  BY <1>6, <1>7 DEF Fenced, u

LEMMA NewlineJoins ==
  ASSUME NEW r \in Seq(Symbols), NEW b \in Seq(Symbols), NewlinesIn(r) # {}
  PROVE  /\ NewlinesIn(r \o b) # {}
         /\ Smallest(NewlinesIn(r \o b)) = Smallest(NewlinesIn(r))
         /\ Smallest(NewlinesIn(r)) \in 1 .. Len(r)
<1> HIDE DEF Newline
<1> DEFINE u == r \o b
<1>1. /\ u \in Seq(Symbols) /\ Len(u) = Len(r) + Len(b)
      /\ \A j \in 1 .. Len(r) : u[j] = r[j]
  BY ConcatIs
<1>2. Len(r) \in Nat /\ Len(b) \in Nat
  OBVIOUS
<1> HIDE DEF u
<1>3. NewlinesIn(r) = {k \in 1 .. Len(r) : r[k] = Newline}
  BY DEF NewlinesIn
<1>4. NewlinesIn(u) = {k \in 1 .. Len(u) : u[k] = Newline}
  BY <1>1 DEF NewlinesIn
<1> DEFINE R == NewlinesIn(r)
           U == NewlinesIn(u)
           e == Smallest(R)
           d == Smallest(U)
<1>5. R \subseteq U /\ R \subseteq Nat /\ U \subseteq Nat /\ R # {}
  BY <1>1, <1>2, <1>3, <1>4
<1>6. \A k \in U : k <= Len(r) => k \in R
  BY <1>1, <1>2, <1>3, <1>4
<1>6a. R \subseteq 1 .. Len(r)
  BY <1>3
<1> HIDE DEF R, U
<1>7. e \in R /\ \A j \in R : e <= j
  BY <1>5, SmallestIs, Zenon
<1>8. d \in U /\ \A j \in U : d <= j
  <2>1. U # {}
    BY <1>5
  <2> QED
    BY <1>5, <2>1, SmallestIs, Zenon
<1> HIDE DEF e, d
<1>9. e \in 1 .. Len(r) /\ d <= e /\ d \in Nat
  BY <1>5, <1>6a, <1>7, <1>8
<1>10. d \in R
  BY <1>2, <1>6, <1>8, <1>9
<1>11. e <= d
  BY <1>7, <1>10
<1>12. e = d
  BY <1>9, <1>11
<1>13. U # {}
  BY <1>5
<1> QED
  BY <1>9, <1>12, <1>13 DEF e, d, R, U, u

LEMMA UnstartedJoins ==
  ASSUME NEW r \in Seq(Symbols), NEW b \in Seq(Symbols), r # << >>
  PROVE  Unstarted(r \o b) = Unstarted(r) \o b
<1> HIDE DEF Newline
<1>1. Len(r) \in Nat /\ 1 \in 1 .. Len(r) /\ 1 \in 0 .. Len(r)
  OBVIOUS
<1>2. r \o b \in Seq(Symbols) /\ (r \o b)[1] = r[1]
  BY <1>1, ConcatIs
<1>3. r \o b # << >>
  BY ConcatEqualIffEmpty
<1>4. Tail(r) = After(r, 1) /\ Tail(r \o b) = After(r \o b, 1)
  BY <1>2, <1>3, TailIsSubSeq DEF After
<1>5. After(r \o b, 1) = After(r, 1) \o b
  BY <1>1, AfterJoined
<1>6. CASE r[1] = Newline
  <2>1. Unstarted(r) = Tail(r)
    BY <1>6 DEF Unstarted
  <2>2. Unstarted(r \o b) = Tail(r \o b)
    BY <1>2, <1>3, <1>6 DEF Unstarted
  <2> QED
    BY <1>4, <1>5, <2>1, <2>2
<1>7. CASE r[1] # Newline
  <2>1. Unstarted(r) = r
    BY <1>7 DEF Unstarted
  <2>2. Unstarted(r \o b) = r \o b
    BY <1>2, <1>7 DEF Unstarted
  <2> QED
    BY <2>1, <2>2
<1> QED
  BY <1>6, <1>7

\* Two states of the renderer that look the same on the screen.
Alike(p, q) ==
    /\ p.tail = q.tail /\ p.fence = q.fence /\ p.code = q.code
    /\ Visible(p.out) = Visible(q.out)

Released(q) == [q EXCEPT !.tail = << >>]

LEMMA ReleasedIs ==
  ASSUME NEW q \in States
  PROVE  /\ Released(q) \in States
         /\ Released(q).tail = << >> /\ Released(q).fence = q.fence
         /\ Released(q).code = q.code /\ Released(q).out = q.out
<1>1. << >> \in Seq(Symbols)
  OBVIOUS
<1> QED
  BY <1>1 DEF Released, States

\* A leading newline is not seen where no code block is open.
LEMMA NewlineSkipped ==
  ASSUME NEW q \in States, q.tail = << >>, ~ q.fence, NEW b \in Seq(Symbols)
  PROVE  Alike(Render(q, Unstarted(b)), Render(q, b))
<1> HIDE DEF Tick
<1>1. CASE b # << >> /\ b[1] = Newline
  <2>1. Len(b) \in Nat /\ 1 \in 1 .. Len(b) /\ 1 \in 0 .. Len(b)
    BY <1>1
  <2> DEFINE w == Tail(b)
             x == <<Newline>>
             o == Inline(x)
  <2>2. w = After(b, 1) /\ w \in Seq(Symbols) /\ Unstarted(b) = w
    BY <1>1, <2>1, TailIsSubSeq, SecondHalf DEF After, Unstarted
  <2>3. x \in Seq(Symbols) /\ Newline \in Symbols /\ Len(x) = 1 /\ x[1] = Newline
    <3>1. b[1] \in Symbols
      BY <2>1
    <3> QED
      BY <1>1, <3>1
  <2>4. b = x \o w
    <3>1. b = SubSeq(b, 1, 1) \o After(b, 1)
      BY <2>1, HalvesMake
    <3>2. SubSeq(b, 1, 1) \in Seq(Symbols) /\ Len(SubSeq(b, 1, 1)) = 1 /\ SubSeq(b, 1, 1)[1] = b[1]
      BY <2>1, FirstHalf
    <3>3. SubSeq(b, 1, 1) = x
      <4> DEFINE a == SubSeq(b, 1, 1)
      <4>1. a \in Seq(Symbols) /\ Len(a) = 1 /\ a[1] = x[1]
        BY <1>1, <2>3, <3>2
      <4> HIDE DEF a, x
      <4>2. \A k \in 1 .. Len(a) : a[k] = x[k]
        BY <4>1
      <4>3. a = x
        BY <2>3, <4>1, <4>2, SeqEqual
      <4> QED
        BY <4>3 DEF a
    <3> QED
      BY <2>2, <3>1, <3>3
  <2>5. Plain(x)
    <3>1. Newline # Tick
      BY DEF Newline, Tick
    <3>2. FencesIn(x) = {}
      <4> SUFFICES ASSUME NEW k \in FencesIn(x) PROVE FALSE
        OBVIOUS
      <4> HIDE DEF x
      <4>1. k \in 1 .. Len(x) /\ k + 2 <= Len(x)
        BY <2>3, FencesAre
      <4> QED
        BY <2>3, <4>1
    <3> QED
      BY <2>3, <3>1, <3>2 DEF Plain
  <2> HIDE DEF x, w
  <2>6. Render(q, b) = Render(Take(q, x), w)
    BY <2>2, <2>3, <2>4, <2>5, PlainFirst
  <2> DEFINE f == [q EXCEPT !.out = << >>]
             a == q.out
             c == a \o o
  <2>7. /\ f \in States /\ f.tail = q.tail /\ f.fence = q.fence /\ f.code = q.code
        /\ f.out = << >>
    <3>1. << >> \in Seq(Items)
      OBVIOUS
    <3> QED
      BY <3>1 DEF States
  <2>8. a \in Seq(Items) /\ o \in Seq(Items) /\ c \in Seq(Items) /\ Visible(c) = Visible(a)
    <3>1. a \in Seq(Items)
      BY DEF States
    <3>2. o \in Seq(Items) /\ Visible(c) = Visible(a)
      BY <2>3, <3>1, NewlineUnseen DEF x
    <3> QED
      BY <3>1, <3>2, ConcatProperties
  <2> DEFINE p == Take(q, x)
  <2>9. /\ p \in States /\ p.tail = q.tail /\ p.fence = q.fence
        /\ p.code = q.code /\ p.out = c
    BY <2>3, TakeIs
  <2> HIDE DEF f, a, o, c, p
  <2>10. a \o << >> = a /\ c \o << >> = c
    BY <2>8, ConcatEmptySeq
  <2>11. Shift(f, a) = q
    <3> DEFINE s == Shift(f, a)
    <3>1. /\ s \in States /\ s.tail = f.tail /\ s.fence = f.fence
          /\ s.code = f.code /\ s.out = a \o f.out
      BY <2>7, <2>8, ShiftIs
    <3> HIDE DEF s
    <3>2. s.tail = q.tail /\ s.fence = q.fence /\ s.code = q.code /\ s.out = q.out
      BY <2>7, <2>10, <3>1 DEF a
    <3>3. s = q
      BY <3>1, <3>2, StateEqual
    <3> QED
      BY <3>3 DEF s
  <2>12. Shift(f, c) = p
    <3> DEFINE s == Shift(f, c)
    <3>1. /\ s \in States /\ s.tail = f.tail /\ s.fence = f.fence
          /\ s.code = f.code /\ s.out = c \o f.out
      BY <2>7, <2>8, ShiftIs
    <3> HIDE DEF s
    <3>2. s.tail = p.tail /\ s.fence = p.fence /\ s.code = p.code /\ s.out = p.out
      BY <2>7, <2>9, <2>10, <3>1
    <3>3. s = p
      BY <2>9, <3>1, <3>2, StateEqual
    <3> QED
      BY <3>3 DEF s
  <2> DEFINE r == Render(f, w)
             g == Shift(r, a)
             h == Shift(r, c)
  <2>13. r \in States
    BY <2>2, <2>7, RenderTyped
  <2>14. Render(q, w) = g /\ Render(p, w) = h
    <3>1. Render(Shift(f, a), w) = g
      BY <2>2, <2>7, <2>8, ShiftRender
    <3>2. Render(Shift(f, c), w) = h
      BY <2>2, <2>7, <2>8, ShiftRender
    <3> HIDE DEF g, h
    <3> QED
      BY <2>11, <2>12, <3>1, <3>2
  <2> HIDE DEF r
  <2>15. r.out \in Seq(Items)
    BY <2>13 DEF States
  <2>16. /\ g.tail = r.tail /\ g.fence = r.fence /\ g.code = r.code /\ g.out = a \o r.out
         /\ h.tail = r.tail /\ h.fence = r.fence /\ h.code = r.code /\ h.out = c \o r.out
    BY <2>8, <2>13, ShiftIs
  <2>17. Visible(a \o r.out) = Visible(a) \o Visible(r.out)
    BY <2>8, <2>15, VisibleJoins
  <2>18. Visible(c \o r.out) = Visible(c) \o Visible(r.out)
    BY <2>8, <2>15, VisibleJoins
  <2> HIDE DEF g, h
  <2>19. Alike(g, h)
    BY <2>8, <2>16, <2>17, <2>18 DEF Alike
  <2> QED
    BY <2>2, <2>6, <2>14, <2>19 DEF p
<1>2. CASE ~ (b # << >> /\ b[1] = Newline)
  <2>1. Unstarted(b) = b
    BY <1>2 DEF Unstarted
  <2> QED
    BY <2>1 DEF Alike
<1> QED
  BY <1>1, <1>2

\* What a pass does with the first part of a text, it does with the whole.
LEMMA PassSplits ==
  ASSUME NEW q \in States, q.tail = << >>, NEW t \in Seq(Symbols), t # << >>,
         NEW b \in Seq(Symbols), NEW r \in States, NEW u \in Seq(Symbols),
         RenderPass([state |-> q, text |-> t]) = [state |-> r, text |-> u]
  PROVE  Alike(Render(q, t \o b), Render(Released(r), r.tail \o (u \o b)))
<1> HIDE DEF Tick, Newline
<1>1. PICK x \in Seq(Symbols), y \in Seq(Symbols) : Cut(t, x, y)
  BY CutExists
<1>2. t = x \o y /\ Plain(x) /\ (Held(y) \/ Fenced(y))
  BY <1>1 DEF Cut
<1>3. CutPass(q, x, y) = [state |-> r, text |-> u]
  BY <1>1, PassIs
<1> DEFINE p == Take(q, x)
           yb == y \o b
<1>4. p \in States /\ p.tail = << >> /\ p.fence = q.fence /\ q.fence \in BOOLEAN
  BY TakeIs DEF States
<1>5. yb \in Seq(Symbols) /\ t \o b = x \o yb
  <2>1. (x \o y) \o b = x \o (y \o b)
    BY TextsJoin, Zenon
  <2> QED
    BY <1>2, <2>1, ConcatIs
<1> HIDE DEF yb
<1>6. Render(q, t \o b) = Render(p, yb)
  BY <1>2, <1>5, PlainFirst
<1> HIDE DEF p
\* What a stopped pass holds back is put before what comes.
<1>7. ASSUME u = << >>, r = [p EXCEPT !.tail = y]
      PROVE  Alike(Render(q, t \o b), Render(Released(r), r.tail \o (u \o b)))
  <2>1. r.tail = y /\ r.fence = p.fence /\ r.code = p.code /\ r.out = p.out
    BY <1>4, <1>7 DEF States
  <2> DEFINE s == Released(r)
  <2>2. /\ s \in States /\ s.tail = << >> /\ s.fence = r.fence
        /\ s.code = r.code /\ s.out = r.out
    BY ReleasedIs
  <2> HIDE DEF s
  <2>3. s = p
    BY <1>4, <2>1, <2>2, StateEqual
  <2>4. u \o b = b
    BY <1>7, ConcatEmptySeq
  <2>5. Render(q, t \o b) = Render(Released(r), r.tail \o (u \o b))
    BY <1>6, <2>1, <2>3, <2>4 DEF s, yb
  <2> QED
    BY <2>5 DEF Alike
<1>8. CASE Held(y)
  <2>1. CutPass(q, x, y) = [state |-> [p EXCEPT !.tail = y], text |-> << >>]
    BY <1>8 DEF CutPass, p
  <2>2. u = << >> /\ r = [p EXCEPT !.tail = y]
    BY <1>3, <2>1
  <2> QED
    BY <1>7, <2>2
<1>9. CASE ~ Held(y)
  <2>1. Fenced(y) /\ FencePass(p, y) = [state |-> r, text |-> u]
    BY <1>2, <1>3, <1>9 DEF CutPass, p
  <2> DEFINE v == After(y, 3)
             vb == v \o b
  <2>2. Fenced(yb) /\ After(yb, 3) = vb /\ v \in Seq(Symbols) /\ vb \in Seq(Symbols)
    BY <2>1, FenceJoins, ConcatIs DEF yb
  <2>3. yb # << >>
    BY <1>5, <2>2, FencesAre DEF Fenced
  <2>4. RenderPass([state |-> p, text |-> yb]) = FencePass(p, yb)
    <3>1. << >> \in Seq(Symbols) /\ << >> \o yb = yb /\ Plain(<< >>)
      <4>1. << >> \in Seq(Symbols)
        OBVIOUS
      <4>2. FencesIn(<< >>) = {}
        BY DEF FencesIn
      <4> QED
        BY <1>5, <4>1, <4>2, ConcatEmptySeq DEF Plain
    <3>2. Cut(yb, << >>, yb)
      BY <2>2, <3>1 DEF Cut
    <3>3. RenderPass([state |-> p, text |-> yb]) = CutPass(p, << >>, yb)
      <4> DEFINE o == << >>
      <4>1. o \in Seq(Symbols) /\ Cut(yb, o, yb)
        BY <3>1, <3>2
      <4> HIDE DEF o
      <4>2. RenderPass([state |-> p, text |-> yb]) = CutPass(p, o, yb)
        BY <1>4, <1>5, <2>3, <4>1, PassIs
      <4> QED
        BY <4>2 DEF o
    <3>4. ~ Held(yb)
      BY <1>5, <2>2, NoFenceHeld DEF Fenced
    <3> QED
      BY <1>4, <3>3, <3>4, TakeNone DEF CutPass
  <2> HIDE DEF vb
  <2>5. CASE p.fence
    <3> DEFINE s == [p EXCEPT !.out = @ \o CodeBlock(p.code), !.fence = FALSE, !.code = << >>]
    <3>1. FencePass(p, y) = [state |-> s, text |-> Unstarted(v)]
      BY <2>5 DEF FencePass
    <3>2. FencePass(p, yb) = [state |-> s, text |-> Unstarted(vb)]
      BY <2>2, <2>5 DEF FencePass
    <3>3. r = s /\ u = Unstarted(v)
      BY <2>1, <3>1
    <3>4. r.tail = << >> /\ ~ r.fence
      <4>1. s.fence = FALSE /\ s.tail = p.tail
        BY <1>4 DEF States
      <4> QED
        BY <1>4, <3>3, <4>1
    <3> HIDE DEF s
    <3>5. Unstarted(vb) \in Seq(Symbols)
      BY <2>2, UnstartedIs
    <3>6. Render(p, yb) = Render(r, Unstarted(vb))
      <4>1. RenderPass([state |-> p, text |-> yb]) = [state |-> r, text |-> Unstarted(vb)]
        BY <2>4, <3>2, <3>3
      <4> QED
        BY <1>4, <1>5, <2>3, <3>5, <4>1, RenderStep
    <3>7. Released(r) = r
      BY <3>4 DEF Released, States
    <3>8. r.tail \o (u \o b) = u \o b
      <4>1. u \o b \in Seq(Symbols)
        BY ConcatIs
      <4> QED
        BY <3>4, <4>1, ConcatEmptySeq
    <3>9. CASE v # << >>
      <4>1. Unstarted(vb) = u \o b
        BY <2>2, <3>3, <3>9, UnstartedJoins DEF vb
      <4>2. Render(q, t \o b) = Render(Released(r), r.tail \o (u \o b))
        BY <1>6, <3>6, <3>7, <3>8, <4>1
      <4> QED
        BY <4>2 DEF Alike
    <3>10. CASE v = << >>
      <4>1. u = << >> /\ vb = b /\ u \o b = b
        BY <3>3, <3>10, ConcatEmptySeq DEF Unstarted, vb
      <4>2. Alike(Render(r, Unstarted(b)), Render(r, b))
        BY <3>4, NewlineSkipped
      <4>3. Render(q, t \o b) = Render(r, Unstarted(b))
        BY <1>6, <3>6, <4>1
      <4>4. Render(Released(r), r.tail \o (u \o b)) = Render(r, b)
        BY <3>7, <3>8, <4>1
      <4> QED
        BY <4>2, <4>3, <4>4
    <3> QED
      BY <3>9, <3>10
  <2>6. CASE ~ p.fence /\ NewlinesIn(v) = {}
    <3>1. FencePass(p, y) = [state |-> [p EXCEPT !.tail = y], text |-> << >>]
      BY <2>6 DEF FencePass
    <3>2. u = << >> /\ r = [p EXCEPT !.tail = y]
      BY <2>1, <3>1
    <3> QED
      BY <1>7, <3>2
  <2>7. CASE ~ p.fence /\ NewlinesIn(v) # {}
    <3> DEFINE s == [p EXCEPT !.fence = TRUE, !.code = << >>]
               e == Smallest(NewlinesIn(v))
    <3>1. FencePass(p, y) = [state |-> s, text |-> After(v, e)]
      BY <2>7 DEF FencePass
    <3>2. NewlinesIn(vb) # {} /\ Smallest(NewlinesIn(vb)) = e /\ e \in 1 .. Len(v)
      BY <2>2, <2>7, NewlineJoins DEF vb
    <3>3. FencePass(p, yb) = [state |-> s, text |-> After(vb, e)]
      BY <2>2, <2>7, <3>2 DEF FencePass
    <3>4. r = s /\ u = After(v, e)
      BY <2>1, <3>1
    <3>5. r.tail = << >>
      <4>1. s.tail = p.tail
        BY <1>4 DEF States
      <4> QED
        BY <1>4, <3>4, <4>1
    <3> HIDE DEF s, e
    <3>6. e \in 0 .. Len(v)
      BY <3>2
    <3>7. After(vb, e) = u \o b
      BY <2>2, <3>4, <3>6, AfterJoined DEF vb
    <3>8. u \o b \in Seq(Symbols)
      BY ConcatIs
    <3>9. Render(p, yb) = Render(r, u \o b)
      <4>1. RenderPass([state |-> p, text |-> yb]) = [state |-> r, text |-> u \o b]
        BY <2>4, <3>3, <3>4, <3>7
      <4> QED
        <5> DEFINE w == u \o b
        <5> HIDE DEF w
        <5>1. w \in Seq(Symbols) /\ RenderPass([state |-> p, text |-> yb]) = [state |-> r, text |-> w]
          BY <3>8, <4>1 DEF w
        <5>2. Render(p, yb) = Render(r, w)
          BY <1>4, <1>5, <2>3, <5>1, RenderStep
        <5> QED
          BY <5>2 DEF w
    <3>10. Released(r) = r
      BY <3>5 DEF Released, States
    <3>11. r.tail \o (u \o b) = u \o b
      BY <3>5, <3>8, ConcatEmptySeq
    <3>12. Render(q, t \o b) = Render(Released(r), r.tail \o (u \o b))
      BY <1>6, <3>9, <3>10, <3>11
    <3> QED
      BY <3>12 DEF Alike
  <2> QED
    BY <1>4, <2>5, <2>6, <2>7
<1> QED
  BY <1>8, <1>9

\* A text may be rendered in two parts: what the first holds back is put
\* before the second.
LEMMA RenderSplits ==
  ASSUME NEW p \in States, p.tail = << >>, NEW t \in Seq(Symbols), NEW b \in Seq(Symbols)
  PROVE  Alike(Render(p, t \o b), Render(Released(Render(p, t)), Render(p, t).tail \o b))
<1> DEFINE n == Len(t)
           whole == Render(p, t \o b)
<1>1. n \in Nat /\ Len(t) <= n /\ n \in 0 .. n
  OBVIOUS
<1> HIDE DEF n, whole
<1>2. PICK f : Runs(f, n, p, t)
  BY <1>1, RunExists
<1>3. /\ f \in [0 .. n -> Passes] /\ f[0] = [state |-> p, text |-> t]
      /\ \A k \in 1 .. n : f[k] = RenderPass(f[k - 1])
  BY <1>2 DEF Runs
<1>4. ASSUME NEW k \in 0 .. n
      PROVE  /\ f[k].state \in States /\ f[k].text \in Seq(Symbols)
             /\ f[k] = [state |-> f[k].state, text |-> f[k].text]
  <2>1. f[k] \in Passes
    BY <1>3
  <2> QED
    BY <2>1, PassesAre
<1> DEFINE Good(k) ==
             /\ f[k].state.tail = << >> \/ f[k].text = << >>
             /\ Alike(whole, Render(Released(f[k].state), f[k].state.tail \o (f[k].text \o b)))
           Bad == {k \in 0 .. n : ~ Good(k)}
<1>5. Bad = {}
  <2>1. SUFFICES ASSUME Bad # {} PROVE FALSE
    OBVIOUS
  <2>2. PICK m \in Bad : \A j \in Bad : m <= j
    <3>1. Bad \subseteq Nat
      OBVIOUS
    <3> HIDE DEF Bad
    <3> QED
      BY <2>1, <3>1, LeastExists
  <2>3. m \in 0 .. n /\ ~ Good(m)
    OBVIOUS
  <2>4. m # 0
    <3>1. Good(0)
      <4>1. f[0].state = p /\ f[0].text = t
        BY <1>3
      <4>2. Released(p) = p
        BY DEF Released, States
      <4>3. << >> \o (t \o b) = t \o b
        <5>1. t \o b \in Seq(Symbols)
          BY ConcatIs
        <5> QED
          BY <5>1, ConcatEmptySeq
      <4>4. whole = Render(Released(f[0].state), f[0].state.tail \o (f[0].text \o b))
        BY <4>1, <4>2, <4>3 DEF whole
      <4> QED
        BY <4>1, <4>4 DEF Alike
    <3> QED
      BY <2>3, <3>1
  <2>5. PICK j \in 0 .. n : m = j + 1
    <3>1. m - 1 \in 0 .. n /\ m = (m - 1) + 1
      BY <1>1, <2>3, <2>4
    <3> QED
      BY <3>1
  <2>6. Good(j)
    <3>1. ~ (m <= j)
      BY <2>5
    <3>2. j \notin Bad
      BY <2>2, <3>1
    <3> QED
      BY <3>2
  <2>7. m \in 1 .. n /\ m - 1 = j
    BY <1>1, <2>3, <2>4, <2>5
  <2>8. f[m] = RenderPass(f[j])
    BY <1>3, <2>7
  <2> DEFINE q == f[j].state
             v == f[j].text
             r == f[m].state
             u == f[m].text
  <2>9. /\ q \in States /\ v \in Seq(Symbols) /\ f[j] = [state |-> q, text |-> v]
        /\ r \in States /\ u \in Seq(Symbols) /\ f[m] = [state |-> r, text |-> u]
    BY <1>4, <2>3
  <2>10. /\ q.tail = << >> \/ v = << >>
         /\ Alike(whole, Render(Released(q), q.tail \o (v \o b)))
    BY <2>6
  <2>11. ~ (/\ r.tail = << >> \/ u = << >>
            /\ Alike(whole, Render(Released(r), r.tail \o (u \o b))))
    BY <2>3
  <2> HIDE DEF q, v, r, u, Bad, Good
  <2>12. RenderPass([state |-> q, text |-> v]) = [state |-> r, text |-> u]
    BY <2>8, <2>9
  <2>13. CASE v = << >>
    <3>1. [state |-> r, text |-> u] = [state |-> q, text |-> v]
      BY <2>9, <2>12, <2>13, PassTyped
    <3>2. r = q /\ u = v
      BY <3>1
    <3> QED
      BY <2>10, <2>11, <2>13, <3>2
  <2>14. CASE v # << >>
    <3>1. q.tail = << >>
      BY <2>10, <2>14
    <3>2. r.tail = << >> \/ u = << >>
      <4>1. [state |-> r, text |-> u].text # << >> => [state |-> r, text |-> u].state.tail = q.tail
        BY <2>9, <2>12, PassTyped
      <4> QED
        BY <3>1, <4>1
    <3>3. Released(q) = q
      BY <2>9, <3>1 DEF Released, States
    <3>4. q.tail \o (v \o b) = v \o b
      <4>1. v \o b \in Seq(Symbols)
        BY <2>9, ConcatIs
      <4> QED
        BY <3>1, <4>1, ConcatEmptySeq
    <3>5. Alike(whole, Render(q, v \o b))
      BY <2>10, <3>3, <3>4
    <3>6. Alike(Render(q, v \o b), Render(Released(r), r.tail \o (u \o b)))
      BY <2>9, <2>12, <2>14, <3>1, PassSplits
    <3>7. Alike(whole, Render(Released(r), r.tail \o (u \o b)))
      BY <3>5, <3>6 DEF Alike
    <3> QED
      BY <2>11, <3>2, <3>7
  <2> QED
    BY <2>13, <2>14
<1>6. Good(n)
  <2>1. n \notin Bad
    BY <1>5
  <2> QED
    BY <1>1, <2>1
<1>7. Render(p, t) = f[n].state /\ f[n].text = << >>
  BY <1>1, <1>2, RenderIs
<1>8. << >> \o b = b
  BY ConcatEmptySeq
<1>9. Alike(whole, Render(Released(f[n].state), f[n].state.tail \o (f[n].text \o b)))
  BY <1>6
<1> QED
  BY <1>7, <1>8, <1>9 DEF whole

\* A chunk goes on where the text so far has stopped.
Whole(a) == Render(NoMarkdown, a)
Matches(p, w) == p.tail = w.tail /\ p.fence = w.fence /\ p.code = w.code
Follows(p, a, shown) == Matches(p, Whole(a)) /\ Visible(shown) = Visible(Whole(a).out)
Complete(a, shown) == Visible(shown) = Visible(Whole(a).out \o FlushMarkdown(Whole(a)).out)

LEMMA NoMarkdownTyped ==
  /\ NoMarkdown \in States /\ NoMarkdown.tail = << >> /\ ~ NoMarkdown.fence
  /\ NoMarkdown.code = << >> /\ NoMarkdown.out = << >>
<1>1. << >> \in Seq(Symbols) /\ << >> \in Seq(Items) /\ FALSE \in BOOLEAN
  OBVIOUS
<1> QED
  BY <1>1 DEF NoMarkdown, States

LEMMA WholeIs ==
  ASSUME NEW a \in Seq(Symbols)
  PROVE  RenderFinalText(NoMarkdown, a) = Whole(a) /\ Whole(a) \in States
<1>1. [NoMarkdown EXCEPT !.tail = << >>, !.out = << >>] = NoMarkdown
  BY NoMarkdownTyped DEF States
<1>2. NoMarkdown.tail \o a = a
  BY NoMarkdownTyped, ConcatEmptySeq
<1>3. RenderFinalText(NoMarkdown, a) = Render(NoMarkdown, a)
  BY <1>1, <1>2 DEF RenderFinalText
<1>4. Render(NoMarkdown, a) \in States
  BY NoMarkdownTyped, RenderTyped
<1> QED
  BY <1>3, <1>4 DEF Whole

LEMMA FlushTyped ==
  ASSUME NEW p \in States
  PROVE  /\ FlushMarkdown(p).out \in Seq(Items)
         /\ FlushMarkdown(p).out = IF p.fence THEN CodeBlock(p.code \o p.tail) ELSE Inline(p.tail)
<1>1. p.code \in Seq(Symbols) /\ p.tail \in Seq(Symbols)
  BY DEF States
<1>2. p.code \o p.tail \in Seq(Symbols)
  BY <1>1, ConcatProperties
<1>3. CodeBlock(p.code \o p.tail) \in Seq(Items)
  BY <1>2, CodeBlockTyped
<1>4. Inline(p.tail) \in Seq(Items)
  BY <1>1, InlineTyped
<1>5. FlushMarkdown(p).out = IF p.fence THEN CodeBlock(p.code \o p.tail) ELSE Inline(p.tail)
  BY DEF FlushMarkdown, NoMarkdown
<1> QED
  BY <1>3, <1>4, <1>5

LEMMA ChunkFollows ==
  ASSUME NEW p \in States, NEW a \in Seq(Symbols), NEW shown \in Seq(Items), Follows(p, a, shown),
         NEW c \in Seq(Symbols)
  PROVE  /\ RenderFinalText(p, c) \in States
         /\ Follows(RenderFinalText(p, c), a \o c, shown \o RenderFinalText(p, c).out)
<1> DEFINE w == Whole(a)
           n == Whole(a \o c)
           f == [p EXCEPT !.tail = << >>, !.out = << >>]
           u == p.tail \o c
           r == Render(f, u)
           o == w.out
<1>1. w \in States /\ w = Render(NoMarkdown, a)
  BY WholeIs DEF Whole
<1>2. n \in States /\ n = Render(NoMarkdown, a \o c)
  <2>1. a \o c \in Seq(Symbols)
    BY ConcatProperties
  <2> QED
    BY <2>1, WholeIs DEF Whole
<1>3. Matches(p, w) /\ Visible(shown) = Visible(o)
  BY DEF Follows
<1>4. RenderFinalText(p, c) = r
  BY DEF RenderFinalText
<1>5. u \in Seq(Symbols)
  <2>1. p.tail \in Seq(Symbols)
    BY DEF States
  <2> QED
    BY <2>1, ConcatProperties
<1>6. /\ f \in States /\ f.tail = << >> /\ f.fence = p.fence /\ f.code = p.code
      /\ f.out = << >>
  <2>1. << >> \in Seq(Symbols) /\ << >> \in Seq(Items)
    OBVIOUS
  <2> QED
    BY <2>1 DEF States
<1> HIDE DEF w, n, f
<1>7. o \in Seq(Items)
  BY <1>1 DEF States
<1>8. Alike(n, Render(Released(w), w.tail \o c))
  <2>1. Alike(Render(NoMarkdown, a \o c),
              Render(Released(Render(NoMarkdown, a)), Render(NoMarkdown, a).tail \o c))
    BY NoMarkdownTyped, RenderSplits
  <2> QED
    BY <1>1, <1>2, <2>1
<1>9. w.tail \o c = u
  BY <1>3 DEF Matches
<1> HIDE DEF o, u
<1>10. Released(w) = Shift(f, o)
  <2> DEFINE s == Shift(f, o)
             v == Released(w)
  <2>1. /\ s \in States /\ s.tail = f.tail /\ s.fence = f.fence /\ s.code = f.code
        /\ s.out = o \o f.out
    BY <1>6, <1>7, ShiftIs
  <2>2. v \in States /\ v.tail = << >> /\ v.fence = w.fence /\ v.code = w.code /\ v.out = w.out
    BY <1>1, ReleasedIs
  <2> HIDE DEF s, v
  <2>3. s.out = o
    BY <1>6, <1>7, <2>1, ConcatEmptySeq
  <2>4. s = v
    <3>1. s.tail = v.tail /\ s.fence = v.fence /\ s.code = v.code /\ s.out = v.out
      BY <1>3, <1>6, <2>1, <2>2, <2>3 DEF Matches, o
    <3> QED
      BY <2>1, <2>2, <3>1, StateEqual
  <2> QED
    BY <2>4 DEF s, v
<1>11. r \in States
  BY <1>5, <1>6, RenderTyped
<1> DEFINE g == Shift(r, o)
<1>12. Render(Shift(f, o), u) = g
  BY <1>5, <1>6, <1>7, ShiftRender
<1> HIDE DEF r
<1>13. /\ g.tail = r.tail /\ g.fence = r.fence /\ g.code = r.code /\ g.out = o \o r.out
  BY <1>7, <1>11, ShiftIs
<1> HIDE DEF g
<1>14. Alike(n, g)
  BY <1>8, <1>9, <1>10, <1>12
<1>15. r.out \in Seq(Items)
  BY <1>11 DEF States
<1>16. Visible(o \o r.out) = Visible(o) \o Visible(r.out)
  BY <1>7, <1>15, VisibleJoins
<1>17. Visible(shown \o r.out) = Visible(shown) \o Visible(r.out)
  BY <1>15, VisibleJoins
<1>18. Visible(n.out) = Visible(shown \o r.out)
  BY <1>3, <1>13, <1>14, <1>16, <1>17 DEF Alike
<1>19. Matches(r, n)
  BY <1>13, <1>14 DEF Alike, Matches
<1> QED
  BY <1>4, <1>11, <1>18, <1>19 DEF Follows, n, r

LEMMA EndCompletes ==
  ASSUME NEW p \in States, NEW a \in Seq(Symbols), NEW shown \in Seq(Items), Follows(p, a, shown)
  PROVE  Complete(a, shown \o FlushMarkdown(p).out)
<1> DEFINE w == Whole(a)
           g == FlushMarkdown(w).out
           h == FlushMarkdown(p).out
           o == w.out
<1>1. w \in States
  BY WholeIs
<1>2. Matches(p, w) /\ Visible(shown) = Visible(o)
  BY DEF Follows
<1> HIDE DEF w
<1>3. o \in Seq(Items)
  BY <1>1 DEF States
<1>4. g \in Seq(Items) /\ g = IF w.fence THEN CodeBlock(w.code \o w.tail) ELSE Inline(w.tail)
  BY <1>1, FlushTyped
<1>5. h \in Seq(Items) /\ h = IF p.fence THEN CodeBlock(p.code \o p.tail) ELSE Inline(p.tail)
  BY FlushTyped
<1>6. g = h
  BY <1>2, <1>4, <1>5 DEF Matches
<1> HIDE DEF g, h, o
<1>7. Visible(shown \o h) = Visible(shown) \o Visible(h)
  BY <1>5, VisibleJoins
<1>8. Visible(o \o g) = Visible(o) \o Visible(g)
  BY <1>3, <1>4, VisibleJoins
<1>9. Visible(shown \o h) = Visible(o \o g)
  BY <1>2, <1>6, <1>7, <1>8
<1> QED
  BY <1>9 DEF Complete, w, g, h, o

LEMMA NothingFollows ==
  Follows(NoMarkdown, << >>, << >>)
<1>1. Whole(<< >>) = NoMarkdown
  BY NoMarkdownTyped, RenderNothing DEF Whole
<1> QED
  BY <1>1, NoMarkdownTyped DEF Follows, Matches

\* The screen: what a terminal is, and what none of its steps disturbs.
Terminals ==
    [shown : Seq(Items), col : Nat, primary : BOOLEAN, thinking : BOOLEAN, count : Nat,
     rendered : Nat, seen : SUBSET Nat, batch : Nat, catchup : BOOLEAN]
Tidy(t) == t \in Terminals /\ (~ t.primary => t.col = 0) /\ (t.thinking => ~ t.primary)

\* A step that changes nothing but the counters of what waits to be shown.
Counts(t, s) == s.shown = t.shown /\ s.primary = t.primary /\ s.thinking = t.thinking

LEMMA TidyIs ==
  ASSUME NEW t, Tidy(t)
  PROVE  /\ t \in Terminals
         /\ t.shown \in Seq(Items) /\ t.col \in Nat /\ t.primary \in BOOLEAN
         /\ t.thinking \in BOOLEAN /\ t.count \in Nat /\ t.rendered \in Nat
         /\ t.seen \in SUBSET Nat /\ t.batch \in Nat /\ t.catchup \in BOOLEAN
         /\ (~ t.primary => t.col = 0) /\ (t.thinking => ~ t.primary)
BY DEF Tidy, Terminals

LEMMA ClearLineIs ==
  ASSUME NEW t, Tidy(t), ~ t.primary
  PROVE  ClearLine(t) = t
<1>1. t \in Terminals /\ t.shown \in Seq(Items) /\ t.col = 0
  BY TidyIs
<1>2. SubSeq(t.shown, 1, Len(t.shown)) = t.shown
  BY <1>1, SubSeqFull
<1>3. Len(t.shown) - 0 = Len(t.shown)
  BY <1>1
<1>4. ClearLine(t) = [t EXCEPT !.shown = t.shown, !.col = 0]
  BY <1>1, <1>2, <1>3 DEF ClearLine
<1>5. [t EXCEPT !.shown = t.shown, !.col = 0] = t
  BY <1>1 DEF Terminals
<1> QED
  BY <1>4, <1>5

LEMMA StopIs ==
  ASSUME NEW t, Tidy(t)
  PROVE  /\ Tidy(StopThinking(t)) /\ ~ StopThinking(t).thinking
         /\ StopThinking(t).shown = t.shown /\ StopThinking(t).primary = t.primary
         /\ StopThinking(t).batch = t.batch /\ StopThinking(t).count = t.count
         /\ StopThinking(t).rendered = t.rendered
<1>1. CASE t.thinking
  <2>1. StopThinking(t) = [t EXCEPT !.thinking = FALSE]
    BY <1>1, TidyIs, ClearLineIs DEF StopThinking
  <2>2. t \in Terminals /\ FALSE \in BOOLEAN
    BY TidyIs
  <2> QED
    BY <2>1, <2>2 DEF Tidy, Terminals
<1>2. CASE ~ t.thinking
  BY <1>2 DEF StopThinking
<1> QED
  BY <1>1, <1>2

LEMMA PreparedIs ==
  ASSUME NEW t, Tidy(t)
  PROVE  /\ Tidy(Prepared(t)) /\ ~ Prepared(t).thinking /\ ~ Prepared(t).primary
         /\ Prepared(t).shown = t.shown
<1> DEFINE s == StopThinking(t)
<1>1. Tidy(s) /\ ~ s.thinking /\ s.shown = t.shown
  BY StopIs
<1>2. s \in Terminals
  BY <1>1, TidyIs
<1> HIDE DEF s
<1>3. CASE s.primary
  <2>1. Prepared(t) = [s EXCEPT !.col = 0, !.primary = FALSE]
    BY <1>3 DEF Prepared, s
  <2>2. FALSE \in BOOLEAN /\ 0 \in Nat
    OBVIOUS
  <2> QED
    BY <1>1, <1>2, <2>1, <2>2 DEF Tidy, Terminals
<1>4. CASE ~ s.primary
  <2>1. Prepared(t) = s
    BY <1>4 DEF Prepared, s
  <2> QED
    BY <1>1, <1>4, <2>1
<1> QED
  BY <1>3, <1>4

LEMMA PacedIs ==
  ASSUME NEW t, Tidy(t)
  PROVE  /\ Tidy(Paced(t)) /\ Counts(t, Paced(t))
         /\ Paced(t).batch = t.batch /\ Paced(t).count = t.count
         /\ Paced(t).rendered = t.rendered
<1>1. Paced(t) \in {t, [t EXCEPT !.catchup = TRUE], [t EXCEPT !.catchup = FALSE]}
  BY DEF Paced
<1>2. t \in Terminals /\ TRUE \in BOOLEAN /\ FALSE \in BOOLEAN
  BY TidyIs
<1>3. CASE Paced(t) = t
  BY <1>3 DEF Counts
<1>4. CASE Paced(t) = [t EXCEPT !.catchup = TRUE]
  BY <1>2, <1>4 DEF Tidy, Terminals, Counts
<1>5. CASE Paced(t) = [t EXCEPT !.catchup = FALSE]
  BY <1>2, <1>5 DEF Tidy, Terminals, Counts
<1> QED
  BY <1>1, <1>3, <1>4, <1>5

LEMMA KeptIs ==
  ASSUME NEW t, Tidy(t)
  PROVE  Kept(t) \in Nat /\ Kept(t) <= t.count
<1>1. DetailsKept \in Nat
  BY TerminalAssumption
<1> QED
  BY <1>1, TidyIs DEF Kept

LEMMA FlushIs ==
  ASSUME NEW t, Tidy(t)
  PROVE  /\ Tidy(FlushDetails(t)) /\ Counts(t, FlushDetails(t))
         /\ FlushDetails(t).batch = 0 /\ ~ Pending(FlushDetails(t))
<1> DEFINE window == (t.count - Kept(t) + 1) .. t.count
           panel == IF PersistentLane THEN window
                    ELSE {d \in window : d > t.count - Kept(t) + t.rendered}
           shows == Pending(t) \/ (PersistentLane /\ t.count > 0)
           seen == t.seen \union panel
           rendered == IF Pending(t) THEN Kept(t) ELSE t.rendered
           d == IF shows THEN [t EXCEPT !.seen = seen, !.col = 0, !.rendered = rendered]
                ELSE t
<1>1. t \in Terminals /\ t.count \in Nat /\ t.rendered \in Nat /\ t.seen \in SUBSET Nat /\ 0 \in Nat
  BY TidyIs
<1>2. Kept(t) \in Nat /\ Kept(t) <= t.count
  BY KeptIs
<1>3. seen \in SUBSET Nat
  <2>1. window \subseteq Nat
    BY <1>1, <1>2
  <2>2. panel \subseteq window
    OBVIOUS
  <2> QED
    BY <1>1, <2>1, <2>2
<1>4. rendered \in Nat
  BY <1>1, <1>2
<1>5. FlushDetails(t) = IF d.batch = 0 THEN d ELSE Paced([d EXCEPT !.batch = 0, !.col = 0])
  BY DEF FlushDetails
<1> HIDE DEF seen
<1>6. /\ Tidy(d) /\ Counts(t, d) /\ d.count = t.count /\ d.rendered = rendered
  <2>1. CASE shows
    <3>1. d = [t EXCEPT !.seen = seen, !.col = 0, !.rendered = rendered]
      BY <2>1
    <3> HIDE DEF rendered, d, shows
    <3> QED
      BY <1>1, <1>3, <1>4, <3>1 DEF Tidy, Terminals, Counts
  <2>2. CASE ~ shows
    <3>1. d = t /\ rendered = t.rendered
      BY <2>2
    <3> HIDE DEF rendered, d, shows
    <3> QED
      BY <3>1 DEF Counts
  <2> QED
    BY <2>1, <2>2
<1>7. ~ (Kept(t) > rendered)
  BY <1>1, <1>2 DEF Pending
<1> HIDE DEF d, rendered
<1>8. ASSUME NEW e, e.count = t.count, e.rendered = rendered PROVE ~ Pending(e)
  BY <1>7, <1>8 DEF Pending, Kept
<1>9. CASE d.batch = 0
  BY <1>5, <1>6, <1>8, <1>9
<1>10. CASE d.batch # 0
  <2> DEFINE e == [d EXCEPT !.batch = 0, !.col = 0]
             f == Paced(e)
  <2>1. d \in Terminals
    BY <1>6, TidyIs
  <2>2. Tidy(e) /\ Counts(d, e) /\ e.count = d.count /\ e.rendered = d.rendered /\ e.batch = 0
    BY <1>1, <1>6, <2>1 DEF Tidy, Terminals, Counts
  <2> HIDE DEF e
  <2>3. Tidy(f) /\ Counts(e, f) /\ f.batch = e.batch /\ f.count = e.count /\ f.rendered = e.rendered
    BY <2>2, PacedIs
  <2>4. FlushDetails(t) = f
    BY <1>5, <1>10 DEF e
  <2> HIDE DEF f
  <2>5. ~ Pending(f)
    BY <1>6, <1>8, <2>2, <2>3
  <2> QED
    BY <1>6, <2>2, <2>3, <2>4, <2>5 DEF Counts
<1> QED
  BY <1>9, <1>10

LEMMA ShowItemIs ==
  ASSUME NEW t, Tidy(t), ~ t.thinking, NEW item \in Items
  PROVE  /\ Tidy(ShowItem(t, item)) /\ ~ ShowItem(t, item).thinking
         /\ ShowItem(t, item).shown = Append(t.shown, item)
<1>1. t \in Terminals /\ t.shown \in Seq(Items) /\ t.col \in Nat
  BY TidyIs
<1>2. CASE item.as = "code"
  <2> DEFINE s == Prepared(t)
             e == Append(s.shown, item)
  <2>1. Tidy(s) /\ ~ s.thinking /\ s.shown = t.shown /\ s \in Terminals
    BY PreparedIs, TidyIs
  <2> HIDE DEF s
  <2>2. e \in Seq(Items)
    BY <1>1, <2>1, AppendProperties
  <2>3. ShowItem(t, item) = [s EXCEPT !.shown = e, !.col = 0]
    BY <1>2 DEF ShowItem, s
  <2>4. e = Append(t.shown, item)
    BY <2>1
  <2> HIDE DEF e
  <2>5. /\ Tidy(ShowItem(t, item)) /\ ~ ShowItem(t, item).thinking
        /\ ShowItem(t, item).shown = e
    <3>1. 0 \in Nat
      OBVIOUS
    <3> DEFINE v == [s EXCEPT !.shown = e, !.col = 0]
    <3>2. v \in Terminals
      BY <2>1, <2>2, <3>1 DEF Terminals
    <3>3. v.shown = e /\ v.col = 0 /\ v.primary = s.primary /\ v.thinking = s.thinking
      BY <2>1 DEF Terminals
    <3> HIDE DEF v
    <3>4. Tidy(v) /\ ~ v.thinking
      BY <2>1, <3>2, <3>3 DEF Tidy
    <3> QED
      BY <2>3, <3>3, <3>4 DEF v
  <2> QED
    BY <2>4, <2>5
<1>3. CASE item.as # "code"
  <2> DEFINE e == Append(t.shown, item)
             c == IF item.of = Newline THEN 0 ELSE t.col + 1
  <2>1. e \in Seq(Items)
    BY <1>1, AppendProperties
  <2>2. c \in Nat
    BY <1>1
  <2>3. ShowItem(t, item) = [t EXCEPT !.shown = e, !.primary = TRUE, !.col = c]
    BY <1>3 DEF ShowItem
  <2> HIDE DEF e, c
  <2>4. TRUE \in BOOLEAN
    OBVIOUS
  <2>5. /\ Tidy(ShowItem(t, item)) /\ ~ ShowItem(t, item).thinking
        /\ ShowItem(t, item).shown = e
    BY <1>1, <2>1, <2>2, <2>3, <2>4 DEF Tidy, Terminals
  <2> QED
    BY <2>5 DEF e
<1> QED
  BY <1>2, <1>3

\* What is shown item by item is what was shown and the items.
LEMMA ShownIs ==
  ASSUME NEW t, Tidy(t), ~ t.thinking, NEW items \in Seq(Items)
  PROVE  /\ Tidy(Shown(t, items)) /\ ~ Shown(t, items).thinking
         /\ Shown(t, items).shown = t.shown \o items
<1> DEFINE N == Len(items)
           Shows(g) == g = [k \in 0 .. N |-> IF k = 0 THEN t ELSE ShowItem(g[k - 1], items[k])]
           c == CHOOSE g : Shows(g)
           S == {s \in Terminals : Tidy(s) /\ ~ s.thinking}
           step == [x \in (1 .. N) \X S |-> ShowItem(x[2], items[x[1]])]
<1>1. N \in Nat /\ N \in 0 .. N /\ \A k \in 1 .. N : items[k] \in Items
  OBVIOUS
<1>2. t \in S
  BY TidyIs
<1>3. ASSUME NEW s \in S, NEW k \in 1 .. N
      PROVE  ShowItem(s, items[k]) \in S /\ ShowItem(s, items[k]).shown = Append(s.shown, items[k])
  <2>1. Tidy(s) /\ ~ s.thinking /\ items[k] \in Items
    BY <1>1
  <2>2. /\ Tidy(ShowItem(s, items[k])) /\ ~ ShowItem(s, items[k]).thinking
        /\ ShowItem(s, items[k]).shown = Append(s.shown, items[k])
    BY <2>1, ShowItemIs
  <2> QED
    BY <2>2, TidyIs
<1>4. \A s \in S : Tidy(s) /\ ~ s.thinking
  OBVIOUS
<1> HIDE DEF S
<1>5. step \in [(1 .. N) \X S -> S]
  <2> SUFFICES ASSUME NEW k \in 1 .. N, NEW s \in S PROVE ShowItem(s, items[k]) \in S
    OBVIOUS
  <2> QED
    BY <1>3
<1>6. \A k \in 1 .. N, s \in S : step[<<k, s>>] = ShowItem(s, items[k])
  OBVIOUS
<1> HIDE DEF step, N
<1>7. PICK f : IteratesTo(f, N, S, t, step)
  BY <1>1, <1>2, <1>5, IterationExists, Zenon
<1>8. /\ f \in [0 .. N -> S] /\ f[0] = t
      /\ \A k \in 1 .. N : f[k] = step[<<k, f[k - 1]>>]
  BY <1>7 DEF IteratesTo
<1>9. ASSUME NEW k \in 1 .. N PROVE f[k] = ShowItem(f[k - 1], items[k]) /\ f[k - 1] \in S
  <2>1. k - 1 \in 0 .. N
    BY <1>1
  <2>2. f[k - 1] \in S
    BY <1>8, <2>1
  <2> QED
    BY <1>6, <1>8, <2>2
<1>10. Shows(f)
  <2>1. ASSUME NEW k \in 0 .. N
        PROVE  f[k] = IF k = 0 THEN t ELSE ShowItem(f[k - 1], items[k])
    <3>1. k = 0 \/ k \in 1 .. N
      BY <1>1
    <3> QED
      BY <1>8, <1>9, <3>1
  <2> QED
    BY <1>8, <2>1
<1>11. Shown(t, items) = c[N]
  BY DEF Shown, N
<1>12. Shows(c)
  BY <1>10
<1> HIDE DEF c
<1>13. c[N] = f[N]
  <2>1. AgreeStepwise(c, f, 0, N)
    <3> SUFFICES ASSUME NEW k \in 0 .. N, k # 0 => c[k - 1] = f[k - 1] PROVE c[k] = f[k]
      BY DEF AgreeStepwise
    <3>1. c[k] = IF k = 0 THEN t ELSE ShowItem(c[k - 1], items[k])
      BY <1>12
    <3>2. f[k] = IF k = 0 THEN t ELSE ShowItem(f[k - 1], items[k])
      BY <1>10
    <3> QED
      BY <3>1, <3>2
  <2>2. 0 \in Nat
    OBVIOUS
  <2>3. Agree(c, f, 0, N)
    BY <1>1, <2>1, <2>2, OneIteration, Zenon
  <2> QED
    BY <1>1, <2>3 DEF Agree
<1> HIDE DEF Shows
<1> DEFINE Good(k) == f[k].shown = t.shown \o SubSeq(items, 1, k)
           Bad == {k \in 0 .. N : ~ Good(k)}
<1>14. t.shown \in Seq(Items)
  BY TidyIs
<1>15. Bad = {}
  <2>1. SUFFICES ASSUME Bad # {} PROVE FALSE
    OBVIOUS
  <2>2. PICK m \in Bad : \A j \in Bad : m <= j
    <3>1. Bad \subseteq Nat
      OBVIOUS
    <3> HIDE DEF Bad
    <3> QED
      BY <2>1, <3>1, LeastExists
  <2>3. m \in 0 .. N /\ ~ Good(m)
    OBVIOUS
  <2>4. m # 0
    <3>1. SubSeq(items, 1, 0) = << >> /\ t.shown \o << >> = t.shown
      BY <1>14, ConcatEmptySeq
    <3>2. Good(0)
      BY <1>8, <3>1
    <3> QED
      BY <2>3, <3>2
  <2>5. PICK j \in 0 .. N : m = j + 1
    <3>1. m - 1 \in 0 .. N /\ m = (m - 1) + 1
      BY <1>1, <2>3, <2>4
    <3> QED
      BY <3>1
  <2>6. Good(j)
    <3>1. ~ (m <= j)
      BY <2>5
    <3>2. j \notin Bad
      BY <2>2, <3>1
    <3> QED
      BY <3>2
  <2> HIDE DEF Bad
  <2>7. m \in 1 .. N /\ m - 1 = j
    BY <1>1, <2>3, <2>4, <2>5
  <2> DEFINE a == t.shown
             b == SubSeq(items, 1, j)
             e == items[m]
  <2>8. f[m].shown = Append(f[j].shown, e)
    <3>1. f[m] = ShowItem(f[j], e) /\ f[j] \in S
      BY <1>9, <2>7
    <3> QED
      BY <1>3, <2>7, <3>1
  <2>9. SubSeq(items, 1, m) = Append(b, e)
    <3> DEFINE c1 == SubSeq(items, 1, m)
               c2 == Append(b, e)
    <3>1. j \in 0 .. Len(items) /\ m \in 0 .. Len(items) /\ m \in 1 .. Len(items)
      BY <1>1, <2>7 DEF N
    <3>2. b \in Seq(Items) /\ Len(b) = j /\ \A i \in 1 .. j : b[i] = items[i]
      BY <3>1, FirstHalf
    <3>3. c1 \in Seq(Items) /\ Len(c1) = m /\ \A i \in 1 .. m : c1[i] = items[i]
      BY <3>1, FirstHalf
    <3>4. e \in Items
      BY <1>1, <2>7
    <3> HIDE DEF b, c1, e
    <3>5. /\ c2 \in Seq(Items) /\ Len(c2) = Len(b) + 1
          /\ (\A i \in 1 .. Len(b) : c2[i] = b[i]) /\ c2[Len(b) + 1] = e
      BY <3>2, <3>4, AppendIs
    <3> HIDE DEF c2
    <3>6. ASSUME NEW i \in 1 .. Len(c1) PROVE c1[i] = c2[i]
      <4>1. i \in 1 .. m
        BY <3>3
      <4>2. CASE i = m
        <5>1. c1[i] = items[m] /\ c2[i] = e
          BY <2>5, <3>2, <3>3, <3>5, <4>1, <4>2
        <5> QED
          BY <5>1 DEF e
      <4>3. CASE i # m
        <5>1. i \in 1 .. j
          BY <2>5, <4>1, <4>3
        <5> QED
          BY <3>2, <3>3, <3>5, <4>1, <5>1
      <4> QED
        BY <4>2, <4>3
    <3>7. c1 = c2
      BY <2>5, <3>2, <3>3, <3>5, <3>6, SeqEqual
    <3> QED
      BY <3>7 DEF c1, c2
  <2>10. f[j].shown = a \o b
    BY <2>6
  <2>11. a \in Seq(Items) /\ b \in Seq(Items) /\ e \in Items
    <3>1. j \in 0 .. Len(items)
      BY DEF N
    <3> QED
      BY <1>1, <1>14, <2>7, <3>1, FirstHalf
  <2>12. Append(a \o b, e) = a \o Append(b, e)
    <3>1. PICK p \in Seq(Items) : p = a
      BY <2>11
    <3>2. PICK q \in Seq(Items) : q = b
      BY <2>11
    <3>3. PICK r \in Items : r = e
      BY <2>11
    <3> HIDE DEF a, b, e
    <3>4. p \o q \in Seq(Items) /\ <<r>> \in Seq(Items)
      BY ConcatProperties
    <3>5. Append(p \o q, r) = (p \o q) \o <<r>> /\ Append(q, r) = q \o <<r>>
      BY <3>4, AppendIsConcat
    <3>6. (p \o q) \o <<r>> = p \o (q \o <<r>>)
      BY <3>4, OutJoins, Zenon
    <3> QED
      BY <3>1, <3>2, <3>3, <3>5, <3>6
  <2>13. Good(m)
    BY <2>8, <2>9, <2>10, <2>12
  <2> QED
    BY <2>3, <2>13
<1>16. Good(N)
  <2>1. N \notin Bad
    BY <1>15
  <2> QED
    BY <1>1, <2>1
<1>17. SubSeq(items, 1, N) = items
  BY SubSeqFull DEF N
<1>18. f[N] \in S
  BY <1>1, <1>8
<1> QED
  BY <1>4, <1>11, <1>13, <1>16, <1>17, <1>18

LEMMA FinalizedIs ==
  ASSUME NEW p \in States, NEW t, Tidy(t)
  PROVE  /\ Tidy(Finalized(p, t)) /\ ~ Finalized(p, t).thinking /\ ~ Finalized(p, t).primary
         /\ Finalized(p, t).batch = 0 /\ ~ Pending(Finalized(p, t))
         /\ Finalized(p, t).shown = t.shown \o FlushMarkdown(p).out
<1> DEFINE i == FlushMarkdown(p).out
           s == StopThinking(t)
           f == Shown(s, i)
           g == IF f.primary THEN [f EXCEPT !.col = 0] ELSE f
           h == FlushDetails(g)
           e == [h EXCEPT !.col = 0, !.primary = FALSE]
<1>1. Finalized(p, t) = e
  BY DEF Finalized
<1>2. i \in Seq(Items)
  BY FlushTyped
<1>3. Tidy(s) /\ ~ s.thinking /\ s.shown = t.shown
  BY StopIs
<1> HIDE DEF i, s
<1>4. Tidy(f) /\ ~ f.thinking /\ f.shown = t.shown \o i
  BY <1>2, <1>3, ShownIs
<1> HIDE DEF f
<1>5. Tidy(g) /\ ~ g.thinking /\ g.shown = f.shown
  <2>1. CASE f.primary
    <3>1. f \in Terminals /\ 0 \in Nat
      BY <1>4, TidyIs
    <3> QED
      BY <1>4, <2>1, <3>1 DEF Tidy, Terminals
  <2>2. CASE ~ f.primary
    BY <1>4, <2>2
  <2> QED
    BY <2>1, <2>2
<1> HIDE DEF g
<1>6. Tidy(h) /\ Counts(g, h) /\ h.batch = 0 /\ ~ Pending(h)
  BY <1>5, FlushIs
<1> HIDE DEF h
<1>7. h \in Terminals /\ 0 \in Nat /\ FALSE \in BOOLEAN
  BY <1>6, TidyIs
<1>8. /\ Tidy(e) /\ ~ e.thinking /\ ~ e.primary /\ e.batch = 0 /\ e.shown = h.shown
      /\ e.count = h.count /\ e.rendered = h.rendered
  BY <1>5, <1>6, <1>7 DEF Tidy, Terminals, Counts
<1> HIDE DEF e
<1>9. ~ Pending(e)
  BY <1>6, <1>8 DEF Pending, Kept
<1> QED
  BY <1>1, <1>4, <1>5, <1>6, <1>8, <1>9 DEF Counts, i

\* The invariant: the terminal is tidy, the markdown state stands where the
\* text so far ends, and the screen keeps in step.
Streaming == Follows(parse, answer_, term.shown)
Ended == parse = NoMarkdown /\ Complete(answer_, term.shown)

TerminalInv ==
    /\ drains \in 0 .. 2 /\ ended \in BOOLEAN
    /\ Tidy(term) /\ parse \in States /\ answer_ \in Seq(Symbols)
    /\ IF ended THEN Ended ELSE Streaming
    /\ PromptIsClean

LEMMA InStepGives == TerminalInv => ScreenInStep
<1> SUFFICES ASSUME TerminalInv PROVE ScreenInStep
  OBVIOUS
<1>1. answer_ \in Seq(Symbols) /\ ended \in BOOLEAN /\ PromptIsClean
      /\ IF ended THEN Ended ELSE Streaming
  BY DEF TerminalInv
<1>2. RenderFinalText(NoMarkdown, answer_) = Whole(answer_)
  BY <1>1, WholeIs
<1>3. AnswerShownWhole
  <2>1. CASE ended
    BY <1>1, <1>2, <2>1 DEF AnswerShownWhole, Ended, Complete
  <2>2. CASE ~ ended
    BY <1>1, <1>2, <2>2 DEF AnswerShownWhole, Streaming, Follows, Matches
  <2> QED
    BY <1>1, <2>1, <2>2
<1> QED
  BY <1>1, <1>3 DEF ScreenInStep

LEMMA TerminalInvInit == TerminalInit => TerminalInv
<1> SUFFICES ASSUME TerminalInit PROVE TerminalInv
  OBVIOUS
<1>1. /\ parse = NoMarkdown /\ term = FreshTerminal /\ answer_ = << >> /\ ended = FALSE
      /\ drains = 0
  BY DEF TerminalInit
<1>2. /\ term \in Terminals /\ term.shown = << >> /\ ~ term.primary /\ ~ term.thinking
      /\ term.col = 0 /\ term.batch = 0 /\ term.count = 0 /\ term.rendered = 0
  <2>1. << >> \in Seq(Items) /\ {} \in SUBSET Nat /\ FALSE \in BOOLEAN /\ 0 \in Nat
    OBVIOUS
  <2> QED
    BY <1>1, <2>1 DEF FreshTerminal, Terminals
<1>3. Tidy(term)
  BY <1>2 DEF Tidy
<1>4. Streaming
  BY <1>1, <1>2, NothingFollows DEF Streaming
<1>5. PromptIsClean
  <2>1. DetailsKept \in Nat
    BY TerminalAssumption
  <2>2. ~ Pending(term)
    BY <1>2, <2>1 DEF Pending, Kept
  <2> QED
    BY <1>2, <2>2 DEF PromptIsClean
<1>6. answer_ \in Seq(Symbols) /\ parse \in States
  BY <1>1, NoMarkdownTyped
<1>7. drains \in 0 .. 2 /\ ended \in BOOLEAN /\ IF ended THEN Ended ELSE Streaming
  <2>1. drains \in 0 .. 2
    BY <1>1
  <2>2. ended \in BOOLEAN /\ ~ ended
    BY <1>1
  <2> QED
    BY <1>4, <2>1, <2>2
<1> QED
  BY <1>3, <1>5, <1>6, <1>7 DEF TerminalInv

\* What leaves the screen as it is leaves it in step.
LEMMA ScreenKept ==
  ASSUME TerminalInv, Tidy(term'), term'.shown = term.shown, Unchanged,
         drains' \in 0 .. 2, PromptIsClean'
  PROVE  TerminalInv'
<1>1. parse' = parse /\ answer_' = answer_ /\ ended' = ended
  BY DEF Unchanged
<1>2. IF ended' THEN Ended' ELSE Streaming'
  BY <1>1 DEF TerminalInv, Ended, Streaming
<1> QED
  BY <1>1, <1>2 DEF TerminalInv

LEMMA DrainOpen ==
  ASSUME drains' # 0
  PROVE  PromptIsClean'
BY DEF PromptIsClean

\* The end of an answer shows what was held back of it.
LEMMA FinishKeeps ==
  ASSUME TerminalInv, term' = Finalized(parse, term) \/ term' = Finalized(parse, StopThinking(term)),
         FinishMarkdown, drains' \in 0 .. 2
  PROVE  TerminalInv'
<1>1. /\ Tidy(term) /\ parse \in States /\ answer_ \in Seq(Symbols) /\ ended \in BOOLEAN
      /\ IF ended THEN Ended ELSE Streaming
  BY DEF TerminalInv
<1>2. parse' = NoMarkdown /\ ended' = TRUE /\ answer_' = answer_
  BY DEF FinishMarkdown
<1>3. PICK t : t \in {term, StopThinking(term)} /\ term' = Finalized(parse, t)
  OBVIOUS
<1>4. Tidy(t) /\ t.shown = term.shown
  BY <1>1, <1>3, StopIs
<1> DEFINE i == FlushMarkdown(parse).out
           e == Finalized(parse, t)
<1>5. /\ Tidy(e) /\ ~ e.thinking /\ ~ e.primary /\ e.batch = 0 /\ ~ Pending(e)
      /\ e.shown = t.shown \o i
  BY <1>1, <1>4, FinalizedIs
<1> HIDE DEF e
<1>6. term' = e
  BY <1>3 DEF e
<1>7. e.col = 0
  BY <1>5, TidyIs
<1>8. PromptIsClean'
  BY <1>5, <1>6, <1>7 DEF PromptIsClean, Pending, Kept
<1>9. term.shown \in Seq(Items)
  BY <1>1, TidyIs
<1>10. Complete(answer_, term.shown \o i)
  <2>1. CASE ended
    <3>1. i = << >>
      BY <1>1, <2>1, NoMarkdownTyped, FlushTyped, InlineNone DEF Ended
    <3>2. term.shown \o << >> = term.shown
      BY <1>9, ConcatEmptySeq
    <3> QED
      BY <1>1, <2>1, <3>1, <3>2 DEF Ended
  <2>2. CASE ~ ended
    BY <1>1, <1>9, <2>2, EndCompletes DEF Streaming
  <2> QED
    BY <1>1, <2>1, <2>2
<1>11. Ended'
  BY <1>2, <1>4, <1>5, <1>6, <1>10 DEF Ended
<1> QED
  BY <1>1, <1>2, <1>5, <1>6, <1>8, <1>11, NoMarkdownTyped DEF TerminalInv

\* A chunk of text goes on where the text before it ended, or begins anew.
LEMMA FinalTextKeeps == TerminalInv /\ FinalText => TerminalInv'
<1> SUFFICES ASSUME TerminalInv, FinalText PROVE TerminalInv'
  OBVIOUS
<1>1. /\ Tidy(term) /\ parse \in States /\ answer_ \in Seq(Symbols) /\ ended \in BOOLEAN
      /\ IF ended THEN Ended ELSE Streaming
      /\ drains \in 0 .. 2
  BY DEF TerminalInv
<1> DEFINE had == IF ended THEN << >> ELSE answer_
           s == StopThinking(term)
           t == IF ended THEN [s EXCEPT !.shown = << >>] ELSE s
           v == IF t.primary THEN t ELSE FlushDetails(t)
<1>2. PICK size \in 1 .. MaxPiece, text \in Texts :
         LET chunk == SubSeq(text, Len(had) + 1, Len(had) + size)
             p == RenderFinalText(parse, chunk)
         IN  /\ Len(had) + size <= Len(text)
             /\ parse' = p
             /\ term' = Shown(v, p.out)
             /\ answer_' = had \o chunk /\ ended' = FALSE
             /\ UNCHANGED <<drains, lines_>>
  BY Zenon DEF FinalText
<1> DEFINE chunk == SubSeq(text, Len(had) + 1, Len(had) + size)
           p == RenderFinalText(parse, chunk)
<1>3. /\ Len(had) + size <= Len(text) /\ parse' = p /\ term' = Shown(v, p.out)
      /\ answer_' = had \o chunk /\ ended' = FALSE /\ drains' = drains /\ drains > 0
  BY <1>2 DEF FinalText
<1>4. text \in Seq(Symbols) /\ MaxPiece \in Nat
  BY TerminalAssumption
<1>5. had \in Seq(Symbols)
  BY <1>1
<1>6. Tidy(s) /\ ~ s.thinking /\ s.shown = term.shown /\ s \in Terminals
  BY <1>1, StopIs, TidyIs
<1> HIDE DEF s
<1>7. chunk \in Seq(Symbols)
  <2> HIDE DEF had
  <2>1. Len(had) \in Nat /\ size \in Nat /\ Len(text) \in Nat
    BY <1>4, <1>5
  <2>2. \A i \in (Len(had) + 1) .. (Len(had) + size) : text[i] \in Symbols
    <3>1. \A i \in (Len(had) + 1) .. (Len(had) + size) : i \in 1 .. Len(text)
      BY <1>3, <2>1
    <3> QED
      BY <1>4, <3>1
  <2>3. Len(had) + 1 \in Int /\ Len(had) + size \in Int
    BY <2>1
  <2> QED
    BY <2>2, <2>3, SubSeqProperties
<1> HIDE DEF chunk
<1>8. Tidy(t) /\ ~ t.thinking /\ Follows(parse, had, t.shown)
  <2>1. CASE ended
    <3>1. << >> \in Seq(Items)
      OBVIOUS
    <3>2. Tidy([s EXCEPT !.shown = << >>]) /\ ~ [s EXCEPT !.shown = << >>].thinking
          /\ [s EXCEPT !.shown = << >>].shown = << >>
      BY <1>6, <3>1 DEF Tidy, Terminals
    <3>3. parse = NoMarkdown
      BY <1>1, <2>1 DEF Ended
    <3> QED
      BY <2>1, <3>2, <3>3, NothingFollows
  <2>2. CASE ~ ended
    BY <1>1, <1>6, <2>2 DEF Streaming
  <2> QED
    BY <1>1, <2>1, <2>2
<1> HIDE DEF t, had
<1>9. Tidy(v) /\ ~ v.thinking /\ v.shown = t.shown
  <2>1. CASE t.primary
    BY <1>8, <2>1
  <2>2. CASE ~ t.primary
    BY <1>8, <2>2, FlushIs DEF Counts
  <2> QED
    BY <2>1, <2>2
<1> HIDE DEF v
<1>10. p \in States /\ Follows(p, had \o chunk, t.shown \o p.out)
  <2>1. t.shown \in Seq(Items)
    BY <1>8, TidyIs
  <2> QED
    BY <1>1, <1>5, <1>7, <1>8, <2>1, ChunkFollows
<1> HIDE DEF p
<1>11. p.out \in Seq(Items)
  BY <1>10 DEF States
<1>12. Tidy(Shown(v, p.out)) /\ Shown(v, p.out).shown = v.shown \o p.out
  BY <1>9, <1>11, ShownIs
<1>13. Streaming'
  BY <1>3, <1>9, <1>10, <1>12 DEF Streaming
<1>14. had \o chunk \in Seq(Symbols)
  BY <1>5, <1>7, ConcatProperties
<1>15. PromptIsClean' /\ drains' \in 0 .. 2
  BY <1>1, <1>3, DrainOpen
<1> QED
  BY <1>3, <1>10, <1>12, <1>13, <1>14, <1>15 DEF TerminalInv

LEMMA BlockIs ==
  ASSUME NEW t, Tidy(t)
  PROVE  Tidy(Block(t)) /\ Block(t).shown = t.shown
<1> DEFINE s == Prepared(t)
           f == FlushDetails(s)
<1>1. Tidy(s) /\ s.shown = t.shown
  BY PreparedIs
<1> HIDE DEF s
<1>2. Tidy(f) /\ Counts(s, f)
  BY <1>1, FlushIs
<1> HIDE DEF f
<1>3. f \in Terminals /\ 0 \in Nat
  BY <1>2, TidyIs
<1>4. Block(t) = [f EXCEPT !.col = 0]
  BY DEF Block, f, s
<1>5. Tidy([f EXCEPT !.col = 0]) /\ [f EXCEPT !.col = 0].shown = f.shown
  BY <1>2, <1>3 DEF Tidy, Terminals
<1> QED
  BY <1>1, <1>2, <1>4, <1>5 DEF Counts

LEMMA PreparedFlushIs ==
  ASSUME NEW t, Tidy(t)
  PROVE  Tidy(FlushDetails(Prepared(t))) /\ FlushDetails(Prepared(t)).shown = t.shown
<1> DEFINE s == Prepared(t)
<1>1. Tidy(s) /\ s.shown = t.shown
  BY PreparedIs
<1> HIDE DEF s
<1>2. Tidy(FlushDetails(s)) /\ Counts(s, FlushDetails(s))
  BY <1>1, FlushIs
<1> QED
  BY <1>1, <1>2 DEF Counts, s

LEMMA WithDetailIs ==
  ASSUME NEW t, Tidy(t)
  PROVE  Tidy(WithDetail(t)) /\ WithDetail(t).shown = t.shown
<1> DEFINE s == [t EXCEPT !.count = @ + 1]
<1>1. t \in Terminals /\ t.count + 1 \in Nat
  BY TidyIs
<1>2. Tidy(s) /\ s.shown = t.shown
  BY <1>1 DEF Tidy, Terminals
<1> HIDE DEF s
<1>3. Tidy(Paced(s)) /\ Counts(s, Paced(s))
  BY <1>2, PacedIs
<1> QED
  BY <1>2, <1>3 DEF WithDetail, Counts, s

LEMMA WithStatusIs ==
  ASSUME NEW t, Tidy(t)
  PROVE  Tidy(WithStatus(t)) /\ WithStatus(t).shown = t.shown
<1> DEFINE r == [t EXCEPT !.batch = @ + 1]
           s == Paced(r)
<1>1. t \in Terminals /\ t.batch + 1 \in Nat
  BY TidyIs
<1>2. Tidy(r) /\ r.shown = t.shown
  BY <1>1 DEF Tidy, Terminals
<1> HIDE DEF r
<1>3. Tidy(s) /\ Counts(r, s)
  BY <1>2, PacedIs
<1>4. WithStatus(t) \in {s, FlushDetails(Prepared(s))}
  BY DEF WithStatus, s, r
<1> HIDE DEF s
<1>5. Tidy(FlushDetails(Prepared(s))) /\ FlushDetails(Prepared(s)).shown = s.shown
  BY <1>3, PreparedFlushIs
<1> QED
  BY <1>2, <1>3, <1>4, <1>5 DEF Counts

LEMMA TerminalInvStep == TerminalInv /\ [TerminalNext]_terminalVars => TerminalInv'
<1> SUFFICES ASSUME TerminalInv, [TerminalNext]_terminalVars PROVE TerminalInv'
  OBVIOUS
<1>1. Tidy(term) /\ drains \in 0 .. 2 /\ parse \in States
  BY DEF TerminalInv
<1>2. CASE BeginDrain
  <2>1. term' = term /\ Unchanged /\ drains' = 1
    BY <1>2 DEF BeginDrain, Unchanged
  <2> QED
    BY <1>1, <2>1, DrainOpen, ScreenKept
<1>3. CASE FinalText
  BY <1>3, FinalTextKeeps
<1>4. CASE SecondaryChunk
  <2> DEFINE t == WithDetail(term)
  <2>1. drains > 0 /\ drains' = drains /\ Unchanged /\ term' \in {t, FlushDetails(Prepared(t))}
    BY <1>4 DEF SecondaryChunk, Quiet
  <2>2. Tidy(t) /\ t.shown = term.shown
    BY <1>1, WithDetailIs
  <2> HIDE DEF t
  <2>3. Tidy(FlushDetails(Prepared(t))) /\ FlushDetails(Prepared(t)).shown = t.shown
    BY <2>2, PreparedFlushIs
  <2>4. Tidy(term') /\ term'.shown = term.shown /\ drains' # 0
    BY <1>1, <2>1, <2>2, <2>3
  <2> QED
    BY <1>1, <2>1, <2>4, DrainOpen, ScreenKept
<1>5. CASE DoneMark
  <2>1. term' = Finalized(parse, term) /\ FinishMarkdown /\ drains' = drains
    BY <1>5 DEF DoneMark
  <2> QED
    BY <1>1, <2>1, FinishKeeps
<1>6. CASE StatusLine
  <2>1. drains > 0 /\ drains' = drains /\ Unchanged /\ term' = WithStatus(term)
    BY <1>6 DEF StatusLine
  <2>2. Tidy(term') /\ term'.shown = term.shown /\ drains' # 0
    BY <1>1, <2>1, WithStatusIs
  <2> QED
    BY <1>1, <2>1, <2>2, DrainOpen, ScreenKept
<1>7. CASE BlockEvent
  <2>1. drains > 0 /\ drains' = drains /\ Unchanged /\ term' = Block(term)
    BY <1>7 DEF BlockEvent
  <2>2. Tidy(term') /\ term'.shown = term.shown /\ drains' # 0
    BY <1>1, <2>1, BlockIs
  <2> QED
    BY <1>1, <2>1, <2>2, DrainOpen, ScreenKept
<1>8. CASE ToolCallEvent
  <2>1. drains > 0 /\ drains' = drains /\ Unchanged /\ term' = WithDetail(Block(term))
    BY <1>8 DEF ToolCallEvent
  <2>2. Tidy(Block(term)) /\ Block(term).shown = term.shown
    BY <1>1, BlockIs
  <2>3. Tidy(term') /\ term'.shown = term.shown /\ drains' # 0
    BY <1>1, <2>1, <2>2, WithDetailIs
  <2> QED
    BY <1>1, <2>1, <2>3, DrainOpen, ScreenKept
<1>9. CASE ThinkingFrame
  <2>1. /\ drains > 0 /\ drains' = drains /\ Unchanged /\ ~ term.primary
        /\ term' = [ClearLine(term) EXCEPT !.thinking = TRUE]
    BY <1>9 DEF ThinkingFrame, MayDraw, Quiet
  <2>2. term' = [term EXCEPT !.thinking = TRUE]
    BY <1>1, <2>1, ClearLineIs
  <2>3. Tidy(term') /\ term'.shown = term.shown /\ drains' # 0
    <3>1. term \in Terminals /\ TRUE \in BOOLEAN
      BY <1>1, TidyIs
    <3>2. Tidy([term EXCEPT !.thinking = TRUE]) /\ [term EXCEPT !.thinking = TRUE].shown = term.shown
      BY <1>1, <2>1, <3>1 DEF Tidy, Terminals
    <3> QED
      <4>1. Tidy(term') /\ term'.shown = term.shown
        BY <2>2, <3>2
      <4>2. drains' # 0
        BY <1>1, <2>1
      <4> QED
        BY <4>1, <4>2
  <2> QED
    BY <1>1, <2>1, <2>3, DrainOpen, ScreenKept
<1>10. CASE Approval
  <2>1. drains' = 2 /\ Unchanged /\ term' = Block(FlushDetails(term))
    BY <1>10 DEF Approval
  <2>2. Tidy(FlushDetails(term)) /\ FlushDetails(term).shown = term.shown
    BY <1>1, FlushIs DEF Counts
  <2>3. Tidy(term') /\ term'.shown = term.shown /\ drains' # 0 /\ drains' \in 0 .. 2
    BY <2>1, <2>2, BlockIs
  <2> QED
    BY <2>1, <2>3, DrainOpen, ScreenKept
<1>11. CASE EndOfDrain
  <2> DEFINE t == StopThinking(term)
  <2>1. /\ drains > 0 /\ drains' = drains - 1
        /\ IF MustFinalize(t) THEN term' = Finalized(parse, t) /\ FinishMarkdown
           ELSE term' = t /\ Unchanged
    BY <1>11 DEF EndOfDrain
  <2>2. drains' \in 0 .. 2
    BY <1>1, <2>1
  <2>3. CASE MustFinalize(t)
    BY <2>1, <2>2, <2>3, FinishKeeps
  <2>4. CASE ~ MustFinalize(t)
    <3>1. term' = t /\ Unchanged
      BY <2>1, <2>4
    <3>2. Tidy(t) /\ ~ t.thinking /\ t.shown = term.shown
      BY <1>1, StopIs
    <3> HIDE DEF t
    <3>3. ~ t.primary /\ t.batch = 0 /\ ~ Pending(t) /\ t.col = 0
      BY <2>4, <3>2, TidyIs DEF MustFinalize
    <3>4. PromptIsClean'
      BY <3>1, <3>2, <3>3 DEF PromptIsClean, Pending, Kept
    <3> QED
      BY <2>2, <3>1, <3>2, <3>4, ScreenKept
  <2> QED
    BY <2>3, <2>4
<1>12. CASE UNCHANGED terminalVars
  BY <1>12 DEF terminalVars, TerminalInv, Ended, Streaming, PromptIsClean, Pending, Kept
<1> QED
  BY <1>2, <1>3, <1>4, <1>5, <1>6, <1>7, <1>8, <1>9, <1>10, <1>11, <1>12 DEF TerminalNext

(* The screen keeps in step with the events: whatever chunks an answer     *)
(* comes in, and whatever is drawn in between, it is shown whole, in order *)
(* and once, and every turn hands a clean line back to the prompt          *)
(* (shell/streaming.py _render_final_text, _finalize).                     *)
THEOREM ScreenStaysInStep == TerminalSpec => []ScreenInStep
<1>1. TerminalInit => TerminalInv
  BY TerminalInvInit
<1>2. TerminalInv /\ [TerminalNext]_terminalVars => TerminalInv'
  BY TerminalInvStep
<1>3. TerminalInv => ScreenInStep
  BY InStepGives
<1> QED
  BY <1>1, <1>2, <1>3, PTL DEF TerminalSpec
-----------------------------------------------------------------------------
(* ChannelMarkup, for answers of any length, cut into chunks anywhere but  *)
(* between "<" and "|".                                                    *)

Marks == Words \union {Less, Bar, More, Space}

LEMMA SymbolsDiffer == Less # Bar /\ Less # More /\ Bar # More
BY Zenon DEF Less, Bar, More

LEMMA WordsApart ==
  ASSUME NEW w \in Words
  PROVE  w # Less /\ w # Bar /\ w # More
BY ChannelMarkupAssumption DEF ChannelMarkupAssumption

\* Tokens do not overlap: what a token holds opens no other.
LEMMA NothingOpensWithin ==
  ASSUME NEW t \in Seq(Marks), NEW k \in 1 .. Len(t), NEW l \in 1 .. Len(t), TokenAt(t, k, l),
         NEW i \in 1 .. Len(t), k < i, i <= l
  PROVE  /\ t[i] # Less
         /\ i < l => ~ ClosesAt(t, i) \/ i = l - 1
<1>1. Len(t) \in Nat
  OBVIOUS
<1>2. /\ t[k + 1] = Bar /\ k + 4 <= l /\ t[l - 1] = Bar /\ t[l] = More
      /\ \A j \in (k + 2) .. (l - 2) : t[j] \in Words
  <2>1. (l - 1) + 1 = l
    OBVIOUS
  <2> QED
    BY <1>1, <2>1 DEF TokenAt, Opens, ClosesAt
<1>3. t[i] # Less
  <2>1. CASE i = k + 1
    BY <1>2, <2>1, SymbolsDiffer
  <2>2. CASE i \in (k + 2) .. (l - 2)
    BY <1>2, <2>2, WordsApart
  <2>3. CASE i = l - 1
    BY <1>2, <2>3, SymbolsDiffer
  <2>4. CASE i = l
    BY <1>2, <2>4, SymbolsDiffer
  <2>5. i = k + 1 \/ i \in (k + 2) .. (l - 2) \/ i = l - 1 \/ i = l
    BY <1>1, <1>2
  <2> QED
    BY <2>1, <2>2, <2>3, <2>4, <2>5
<1>4. ASSUME i < l, ClosesAt(t, i) PROVE i = l - 1
  <2>1. t[i] = Bar /\ t[i + 1] = More
    BY <1>4 DEF ClosesAt
  <2>2. CASE i \in (k + 2) .. (l - 2)
    BY <1>2, <2>1, <2>2, WordsApart
  <2>3. CASE i = k + 1
    <3>1. i + 1 \in (k + 2) .. (l - 2)
      BY <1>1, <1>2, <2>3
    <3> QED
      BY <1>2, <2>1, <3>1, WordsApart
  <2>4. i = k + 1 \/ i \in (k + 2) .. (l - 2) \/ i = l - 1
    BY <1>1, <1>2, <1>4
  <2> QED
    BY <2>2, <2>3, <2>4
<1> QED
  BY <1>3, <1>4

\* The first token of a text.
First(t, k, l) ==
    /\ k \in 1 .. Len(t) /\ l \in 1 .. Len(t) /\ TokenAt(t, k, l)
    /\ \A i \in 1 .. Len(t), j \in 1 .. Len(t) : TokenAt(t, i, j) => k <= i

LEMMA OneEndOfToken ==
  ASSUME NEW t \in Seq(Marks), NEW k \in 1 .. Len(t),
         NEW l \in 1 .. Len(t), NEW j \in 1 .. Len(t), TokenAt(t, k, l), TokenAt(t, k, j)
  PROVE  ~ (l < j)
<1> SUFFICES ASSUME l < j PROVE FALSE
  OBVIOUS
<1>1. l >= k + 4 /\ ClosesAt(t, l - 1)
  BY DEF TokenAt
<1>2. l - 1 \in 1 .. Len(t) /\ k < l - 1 /\ l - 1 < j /\ l - 1 <= j /\ l - 1 # j - 1
  BY <1>1
<1> DEFINE i == l - 1
<1>3. i \in 1 .. Len(t) /\ k < i /\ i < j /\ i <= j /\ i # j - 1 /\ ClosesAt(t, i)
  BY <1>1, <1>2
<1> HIDE DEF i
<1> QED
  BY <1>3, NothingOpensWithin

LEMMA FirstTokenIs ==
  ASSUME NEW t \in Seq(Marks), NEW k, NEW l, First(t, k, l)
  PROVE  TokensIn(t) # {} /\ FirstToken(t) = <<k, l>>
<1> DEFINE Is(p) == p \in TokensIn(t) /\ \A q \in TokensIn(t) : p[1] <= q[1]
           f == FirstToken(t)
<1>1. \A p : p \in TokensIn(t) <=>
        \E i \in 1 .. Len(t), j \in 1 .. Len(t) : p = <<i, j>> /\ TokenAt(t, i, j)
  BY DEF TokensIn
<1>2. k \in 1 .. Len(t) /\ l \in 1 .. Len(t) /\ TokenAt(t, k, l)
      /\ \A i \in 1 .. Len(t), j \in 1 .. Len(t) : TokenAt(t, i, j) => k <= i
  BY DEF First
<1>3. Is(<<k, l>>)
  BY <1>1, <1>2
<1>4. Is(f)
  BY <1>3 DEF FirstToken
<1> HIDE DEF f
<1>5. PICK i \in 1 .. Len(t), j \in 1 .. Len(t) : f = <<i, j>> /\ TokenAt(t, i, j)
  BY <1>1, <1>4
<1>6. i <= k /\ k <= i
  BY <1>2, <1>3, <1>4, <1>5
<1>7. i = k
  BY <1>2, <1>6
<1>8. ~ (l < j) /\ ~ (j < l)
  BY <1>2, <1>5, <1>7, OneEndOfToken
<1>9. j = l
  BY <1>2, <1>8
<1> QED
  BY <1>3, <1>5, <1>7, <1>9 DEF f

LEMMA FirstTokenExists ==
  ASSUME NEW t \in Seq(Marks), TokensIn(t) # {}
  PROVE  \E k, l : First(t, k, l)
<1> DEFINE K == {i \in 1 .. Len(t) : \E j \in 1 .. Len(t) : TokenAt(t, i, j)}
<1>1. K \subseteq Nat /\ K # {}
  BY DEF TokensIn
<1>2. PICK k \in K : \A i \in K : k <= i
  BY <1>1, LeastExists
<1>3. PICK l \in 1 .. Len(t) : TokenAt(t, k, l)
  OBVIOUS
<1>4. First(t, k, l)
  BY <1>2, <1>3 DEF First
<1> QED
  BY <1>4

LEMMA NoTokens ==
  ASSUME NEW t \in Seq(Marks)
  PROVE  TokensIn(t) = {} <=> \A i \in 1 .. Len(t), j \in 1 .. Len(t) : ~ TokenAt(t, i, j)
<1>1. \A p : p \in TokensIn(t) <=>
        \E i \in 1 .. Len(t), j \in 1 .. Len(t) : p = <<i, j>> /\ TokenAt(t, i, j)
  BY DEF TokensIn
<1>2. ASSUME NEW i \in 1 .. Len(t), NEW j \in 1 .. Len(t), TokenAt(t, i, j) PROVE <<i, j>> \in TokensIn(t)
  BY <1>1, <1>2, Zenon
<1>3. TokensIn(t) # {} => \E i \in 1 .. Len(t), j \in 1 .. Len(t) : TokenAt(t, i, j)
  BY <1>1, Zenon
<1> QED
  BY <1>2, <1>3, Zenon

\* Tokens stay where more text follows, and keep to the end of a text.
LEMMA TokenFollowed ==
  ASSUME NEW x \in Seq(Marks), NEW y \in Seq(Marks),
         NEW k \in 1 .. Len(x), NEW l \in 1 .. Len(x)
  PROVE  TokenAt(x \o y, k, l) <=> TokenAt(x, k, l)
<1> DEFINE u == x \o y
<1>1. u \in Seq(Marks) /\ Len(u) = Len(x) + Len(y) /\ \A j \in 1 .. Len(x) : u[j] = x[j]
  BY ConcatIs
<1> HIDE DEF u
<1>2. CASE l >= k + 4
  <2>1. /\ k + 1 \in 1 .. Len(x) /\ l - 1 \in 1 .. Len(x) /\ (l - 1) + 1 = l
        /\ k < Len(x) /\ k < Len(u) /\ l - 1 < Len(x) /\ l - 1 < Len(u)
    BY <1>1, <1>2
  <2>2. Opens(u, k) <=> Opens(x, k)
    BY <1>1, <2>1 DEF Opens
  <2>3. ClosesAt(u, l - 1) <=> ClosesAt(x, l - 1)
    BY <1>1, <2>1 DEF ClosesAt
  <2>4. \A j \in (k + 2) .. (l - 2) : u[j] = x[j]
    BY <1>1
  <2> QED
    BY <2>2, <2>3, <2>4 DEF TokenAt, u
<1>3. CASE ~ (l >= k + 4)
  BY <1>3 DEF TokenAt
<1> QED
  BY <1>2, <1>3

LEMMA TokenPreceded ==
  ASSUME NEW x \in Seq(Marks), NEW y \in Seq(Marks),
         NEW k \in 1 .. Len(y), NEW l \in 1 .. Len(y)
  PROVE  TokenAt(x \o y, Len(x) + k, Len(x) + l) <=> TokenAt(y, k, l)
<1> DEFINE u == x \o y
           n == Len(x)
<1>1. u \in Seq(Marks) /\ Len(u) = n + Len(y) /\ \A j \in 1 .. Len(y) : u[n + j] = y[j]
  BY ConcatIs
<1>2. n \in Nat /\ Len(y) \in Nat
  OBVIOUS
<1> HIDE DEF u, n
<1>3. CASE l >= k + 4
  <2>1. /\ k + 1 \in 1 .. Len(y) /\ l - 1 \in 1 .. Len(y) /\ (l - 1) + 1 = l
        /\ (n + l) - 1 = n + (l - 1) /\ n + (l - 1) + 1 = n + l /\ (n + k) + 1 = n + (k + 1)
        /\ k < Len(y) /\ n + k < Len(u) /\ l - 1 < Len(y) /\ n + (l - 1) < Len(u)
        /\ n + l >= n + k + 4
    BY <1>1, <1>2, <1>3
  <2>2. Opens(u, n + k) <=> Opens(y, k)
    BY <1>1, <2>1 DEF Opens
  <2>3. ClosesAt(u, n + (l - 1)) <=> ClosesAt(y, l - 1)
    BY <1>1, <2>1 DEF ClosesAt
  <2>4. (\A j \in (k + 2) .. (l - 2) : y[j] \in Words)
          <=> \A j \in ((n + k) + 2) .. ((n + l) - 2) : u[j] \in Words
    <3>1. ASSUME NEW j \in (k + 2) .. (l - 2)
          PROVE  n + j \in ((n + k) + 2) .. ((n + l) - 2) /\ u[n + j] = y[j]
      <4>1. n + j \in ((n + k) + 2) .. ((n + l) - 2) /\ j \in 1 .. Len(y)
        BY <1>2
      <4> QED
        BY <1>1, <4>1
    <3>2. ASSUME NEW j \in ((n + k) + 2) .. ((n + l) - 2)
          PROVE  j - n \in (k + 2) .. (l - 2) /\ u[j] = y[j - n]
      <4>1. j - n \in (k + 2) .. (l - 2) /\ j - n \in 1 .. Len(y) /\ n + (j - n) = j
        BY <1>2
      <4> QED
        BY <1>1, <4>1
    <3> QED
      BY <3>1, <3>2
  <2>5. TokenAt(y, k, l) <=> Opens(y, k) /\ ClosesAt(y, l - 1) /\ \A j \in (k + 2) .. (l - 2) : y[j] \in Words
    BY <1>3 DEF TokenAt
  <2>6. TokenAt(u, n + k, n + l) <=>
          Opens(u, n + k) /\ ClosesAt(u, (n + l) - 1)
            /\ \A j \in ((n + k) + 2) .. ((n + l) - 2) : u[j] \in Words
    BY <2>1 DEF TokenAt
  <2> QED
    BY <2>1, <2>2, <2>3, <2>4, <2>5, <2>6 DEF u, n
<1>4. CASE ~ (l >= k + 4)
  <2>1. ~ (n + l >= n + k + 4)
    BY <1>2, <1>4
  <2> QED
    BY <1>4, <2>1 DEF TokenAt, u, n
<1> QED
  BY <1>3, <1>4

LEMMA FirstFollowed ==
  ASSUME NEW x \in Seq(Marks), NEW y \in Seq(Marks), NEW k, NEW l, First(x, k, l)
  PROVE  First(x \o y, k, l)
<1> DEFINE u == x \o y
<1>1. /\ u \in Seq(Marks) /\ Len(u) = Len(x) + Len(y)
      /\ \A j \in 1 .. Len(x) : u[j] = x[j]
  BY ConcatIs
<1>2. k \in 1 .. Len(x) /\ l \in 1 .. Len(x) /\ TokenAt(x, k, l)
      /\ \A i \in 1 .. Len(x), j \in 1 .. Len(x) : TokenAt(x, i, j) => k <= i
  BY DEF First
<1>3. TokenAt(u, k, l)
  BY <1>2, TokenFollowed
<1> HIDE DEF u
<1>4. k \in 1 .. Len(u) /\ l \in 1 .. Len(u)
  BY <1>1, <1>2
<1>5. ASSUME NEW i \in 1 .. Len(u), NEW j \in 1 .. Len(u), TokenAt(u, i, j), ~ (k <= i) PROVE FALSE
  <2>1. i < k /\ i \in 1 .. Len(x)
    BY <1>2, <1>5
  <2>2. u[k] = Less
    BY <1>3 DEF TokenAt, Opens
  <2>3. ~ (k <= j)
    BY <1>1, <1>4, <1>5, <2>1, <2>2, NothingOpensWithin
  <2>4. j \in 1 .. Len(x)
    BY <1>2, <1>5, <2>3
  <2>5. TokenAt(x, i, j)
    BY <1>5, <2>1, <2>4, TokenFollowed DEF u
  <2> QED
    BY <1>2, <1>5, <2>1, <2>4, <2>5
<1> QED
  BY <1>3, <1>4, <1>5 DEF First, u

\* What is left behind a part without a token's beginning has the same tokens.
LEMMA FirstPreceded ==
  ASSUME NEW x \in Seq(Marks), NEW y \in Seq(Marks), NEW k, NEW l,
         First(x \o y, k, l), Len(x) < k
  PROVE  First(y, k - Len(x), l - Len(x))
<1> DEFINE u == x \o y
           n == Len(x)
<1>1. u \in Seq(Marks) /\ Len(u) = n + Len(y) /\ n \in Nat /\ Len(y) \in Nat
  BY ConcatIs
<1>2. k \in 1 .. Len(u) /\ l \in 1 .. Len(u) /\ TokenAt(u, k, l)
      /\ \A i \in 1 .. Len(u), j \in 1 .. Len(u) : TokenAt(u, i, j) => k <= i
  BY DEF First
<1>3. l >= k + 4
  BY <1>2 DEF TokenAt
<1>4. \A i \in 1 .. Len(y), j \in 1 .. Len(y) : TokenAt(u, n + i, n + j) <=> TokenAt(y, i, j)
  BY TokenPreceded
<1>5. n < k
  OBVIOUS
<1> HIDE DEF u, n
<1>6. k - n \in 1 .. Len(y) /\ l - n \in 1 .. Len(y) /\ n + (k - n) = k /\ n + (l - n) = l
  BY <1>1, <1>2, <1>3, <1>5
<1>7. TokenAt(y, k - n, l - n)
  BY <1>2, <1>4, <1>6
<1>8. ASSUME NEW i \in 1 .. Len(y), NEW j \in 1 .. Len(y), TokenAt(y, i, j) PROVE k - n <= i
  <2>1. n + i \in 1 .. Len(u) /\ n + j \in 1 .. Len(u)
    BY <1>1
  <2>2. k <= n + i
    BY <1>2, <1>4, <1>8, <2>1
  <2> QED
    BY <1>1, <1>2, <2>2
<1> QED
  BY <1>6, <1>7, <1>8 DEF First, n

LEMMA NonePreceded ==
  ASSUME NEW x \in Seq(Marks), NEW y \in Seq(Marks), TokensIn(x \o y) = {}
  PROVE  TokensIn(y) = {}
<1> DEFINE u == x \o y
           n == Len(x)
<1>1. u \in Seq(Marks) /\ Len(u) = n + Len(y) /\ n \in Nat /\ Len(y) \in Nat
  BY ConcatIs
<1>2. \A i \in 1 .. Len(y), j \in 1 .. Len(y) : TokenAt(u, n + i, n + j) <=> TokenAt(y, i, j)
  BY TokenPreceded
<1>3. TokensIn(u) = {}
  OBVIOUS
<1> HIDE DEF u, n
<1>4. \A i \in 1 .. Len(u), j \in 1 .. Len(u) : ~ TokenAt(u, i, j)
  BY <1>1, <1>3, NoTokens
<1>5. ASSUME NEW i \in 1 .. Len(y), NEW j \in 1 .. Len(y) PROVE ~ TokenAt(y, i, j)
  <2>1. n + i \in 1 .. Len(u) /\ n + j \in 1 .. Len(u)
    BY <1>1
  <2> QED
    BY <1>2, <1>4, <2>1
<1> QED
  BY <1>5, NoTokens

\* An opening that nothing after it closes or replaces.
Dangling(t, k) ==
    /\ k \in 1 .. Len(t) /\ Opens(t, k)
    /\ \A j \in 1 .. Len(t) : k < j => ~ Opens(t, j) /\ ~ ClosesAt(t, j)

LEMMA HeldFromDangling ==
  ASSUME NEW t \in Seq(Marks), NEW k, Dangling(t, k)
  PROVE  HeldFrom(t) = k
<1> DEFINE opens == {j \in DOMAIN t : Opens(t, j)}
           last == CHOOSE i \in opens : \A j \in opens : j <= i
<1>1. DOMAIN t = 1 .. Len(t) /\ Len(t) \in Nat
  OBVIOUS
<1>2. k \in 1 .. Len(t) /\ k \in opens
      /\ \A j \in 1 .. Len(t) : k < j => ~ Opens(t, j) /\ ~ ClosesAt(t, j)
  BY <1>1 DEF Dangling
<1>3. \A j \in opens : j <= k
  BY <1>1, <1>2
<1>4. last \in opens /\ \A j \in opens : j <= last
  BY <1>2, <1>3
<1>5. last = k
  <2> DEFINE z == last
  <2>1. z \in opens /\ k <= z /\ z <= k
    BY <1>2, <1>3, <1>4
  <2>2. z \in 1 .. Len(t)
    BY <1>1, <2>1
  <2> HIDE DEF z
  <2>3. z = k
    BY <1>2, <2>1, <2>2
  <2> QED
    BY <2>3 DEF z
<1>6. opens # {} /\ ~ \E j \in DOMAIN t : j > last /\ ClosesAt(t, j)
  <2> HIDE DEF opens, last
  <2> QED
    BY <1>1, <1>2, <1>5
<1>7. HeldFrom(t) = IF opens = {} \/ \E j \in DOMAIN t : j > last /\ ClosesAt(t, j)
                    THEN Len(t) + 1 ELSE last
  BY DEF HeldFrom
<1> HIDE DEF opens, last
<1> QED
  BY <1>5, <1>6, <1>7

LEMMA HeldFromNone ==
  ASSUME NEW t \in Seq(Marks), \A k \in 1 .. Len(t) : ~ Dangling(t, k)
  PROVE  HeldFrom(t) = Len(t) + 1
<1> DEFINE opens == {j \in DOMAIN t : Opens(t, j)}
           last == CHOOSE i \in opens : \A j \in opens : j <= i
<1>1. DOMAIN t = 1 .. Len(t) /\ Len(t) \in Nat
  OBVIOUS
<1>2. HeldFrom(t) = IF opens = {} \/ \E j \in DOMAIN t : j > last /\ ClosesAt(t, j)
                    THEN Len(t) + 1 ELSE last
  BY DEF HeldFrom
<1>3. ASSUME opens # {}, ~ \E j \in DOMAIN t : j > last /\ ClosesAt(t, j) PROVE FALSE
  <2>1. \E i \in opens : \A j \in opens : j <= i
    <3> DEFINE Above == {n \in 0 .. Len(t) : \E i \in opens : i = Len(t) - n}
    <3>1. Above # {}
      <4>1. PICK i \in opens : TRUE
        BY <1>3
      <4>2. Len(t) - i \in 0 .. Len(t) /\ i = Len(t) - (Len(t) - i)
        BY <1>1
      <4> QED
        BY <4>2
    <3>2. PICK n \in Above : \A m \in Above : n <= m
      <4>1. Above \subseteq Nat
        OBVIOUS
      <4> QED
        BY <3>1, <4>1, LeastExists
    <3>3. PICK i \in opens : i = Len(t) - n
      OBVIOUS
    <3>4. ASSUME NEW j \in opens PROVE j <= i
      <4>1. Len(t) - j \in 0 .. Len(t) /\ j = Len(t) - (Len(t) - j)
        BY <1>1
      <4>2. Len(t) - j \in Above
        BY <4>1
      <4>3. n <= Len(t) - j
        BY <3>2, <4>2
      <4> QED
        BY <1>1, <3>3, <4>1, <4>3
    <3> QED
      BY <3>4
  <2>2. last \in opens /\ \A j \in opens : j <= last
    BY <2>1
  <2>3. last \in 1 .. Len(t) /\ Opens(t, last)
    BY <1>1, <2>2
  <2>4. \A j \in 1 .. Len(t) : Opens(t, j) => j <= last
    BY <1>1, <2>2
  <2> HIDE DEF opens, last
  <2>5. Dangling(t, last)
    BY <1>1, <1>3, <2>3, <2>4 DEF Dangling
  <2> QED
    BY <2>3, <2>5
<1> HIDE DEF opens, last
<1> QED
  BY <1>2, <1>3

\* A beginning of a text that may be passed on: nothing of it waits for what
\* may follow.
Safe(t, n) ==
    /\ \A k \in 1 .. n : ~ Dangling(t, k)
    /\ \A k \in 1 .. n, l \in 1 .. Len(t) : ~ TokenAt(t, k, l)

LEMMA OpensPreceded ==
  ASSUME NEW x \in Seq(Marks), NEW y \in Seq(Marks), NEW j \in 1 .. Len(y)
  PROVE  /\ Opens(x \o y, Len(x) + j) <=> Opens(y, j)
         /\ ClosesAt(x \o y, Len(x) + j) <=> ClosesAt(y, j)
<1> DEFINE u == x \o y
           n == Len(x)
<1>1. u \in Seq(Marks) /\ Len(u) = n + Len(y) /\ \A i \in 1 .. Len(y) : u[n + i] = y[i]
  BY ConcatIs
<1>2. n \in Nat /\ Len(y) \in Nat
  OBVIOUS
<1> HIDE DEF u, n
<1>3. n + j < Len(u) <=> j < Len(y)
  BY <1>1, <1>2
<1>4. j < Len(y) => u[(n + j) + 1] = y[j + 1]
  <2>1. j < Len(y) => j + 1 \in 1 .. Len(y) /\ (n + j) + 1 = n + (j + 1)
    BY <1>2
  <2> QED
    BY <1>1, <2>1
<1>5. u[n + j] = y[j]
  BY <1>1
<1> QED
  BY <1>3, <1>4, <1>5 DEF Opens, ClosesAt, u, n

LEMMA OpensFollowed ==
  ASSUME NEW x \in Seq(Marks), NEW y \in Seq(Marks), NEW j \in 1 .. Len(x), j < Len(x)
  PROVE  /\ Opens(x \o y, j) <=> Opens(x, j)
         /\ ClosesAt(x \o y, j) <=> ClosesAt(x, j)
<1> DEFINE u == x \o y
<1>1. u \in Seq(Marks) /\ Len(u) = Len(x) + Len(y) /\ \A i \in 1 .. Len(x) : u[i] = x[i]
  BY ConcatIs
<1> HIDE DEF u
<1>2. j + 1 \in 1 .. Len(x) /\ j < Len(u)
  BY <1>1
<1> QED
  BY <1>1, <1>2 DEF Opens, ClosesAt, u

LEMMA HeldPreceded ==
  ASSUME NEW x \in Seq(Marks), NEW y \in Seq(Marks), Safe(x \o y, Len(x))
  PROVE  HeldFrom(x \o y) = Len(x) + HeldFrom(y) /\ HeldFrom(y) \in 1 .. Len(y) + 1
<1> DEFINE u == x \o y
           n == Len(x)
<1>1. u \in Seq(Marks) /\ Len(u) = n + Len(y) /\ n \in Nat /\ Len(y) \in Nat
  BY ConcatIs
<1>2. \A j \in 1 .. Len(y) : /\ Opens(u, n + j) <=> Opens(y, j)
                             /\ ClosesAt(u, n + j) <=> ClosesAt(y, j)
  BY OpensPreceded
<1>3. \A k \in 1 .. n : ~ Dangling(u, k)
  BY DEF Safe
<1> HIDE DEF u, n
<1>4. ASSUME NEW k \in 1 .. Len(y), Dangling(y, k) PROVE Dangling(u, n + k)
  <2>1. Opens(y, k) /\ \A j \in 1 .. Len(y) : k < j => ~ Opens(y, j) /\ ~ ClosesAt(y, j)
    BY <1>4 DEF Dangling
  <2>2. n + k \in 1 .. Len(u) /\ Opens(u, n + k)
    BY <1>1, <1>2, <2>1
  <2>3. ASSUME NEW j \in 1 .. Len(u), n + k < j PROVE ~ Opens(u, j) /\ ~ ClosesAt(u, j)
    <3>1. j - n \in 1 .. Len(y) /\ n + (j - n) = j /\ k < j - n
      BY <1>1, <2>3
    <3> QED
      BY <1>2, <2>1, <3>1
  <2> QED
    BY <2>2, <2>3 DEF Dangling
<1>5. ASSUME NEW k \in 1 .. Len(y), Dangling(u, n + k) PROVE Dangling(y, k)
  <2>1. Opens(u, n + k) /\ \A j \in 1 .. Len(u) : n + k < j => ~ Opens(u, j) /\ ~ ClosesAt(u, j)
    BY <1>5 DEF Dangling
  <2>2. Opens(y, k)
    BY <1>2, <2>1
  <2>3. ASSUME NEW j \in 1 .. Len(y), k < j PROVE ~ Opens(y, j) /\ ~ ClosesAt(y, j)
    <3>1. n + j \in 1 .. Len(u) /\ n + k < n + j
      BY <1>1, <2>3
    <3> QED
      BY <1>2, <2>1, <3>1
  <2> QED
    BY <2>2, <2>3 DEF Dangling
<1>6. CASE \E k \in 1 .. Len(y) : Dangling(y, k)
  <2>1. PICK k \in 1 .. Len(y) : Dangling(y, k)
    BY <1>6
  <2>2. HeldFrom(y) = k /\ HeldFrom(u) = n + k
    BY <1>1, <1>4, <2>1, HeldFromDangling
  <2> QED
    BY <2>2 DEF u, n
<1>7. CASE \A k \in 1 .. Len(y) : ~ Dangling(y, k)
  <2>1. ASSUME NEW k \in 1 .. Len(u) PROVE ~ Dangling(u, k)
    <3>1. CASE k <= n
      BY <1>1, <1>3, <3>1
    <3>2. CASE ~ (k <= n)
      <4>1. k - n \in 1 .. Len(y) /\ n + (k - n) = k
        BY <1>1, <3>2
      <4> QED
        BY <1>5, <1>7, <4>1
    <3> QED
      BY <3>1, <3>2
  <2>2. HeldFrom(u) = Len(u) + 1 /\ HeldFrom(y) = Len(y) + 1
    BY <1>1, <1>7, <2>1, HeldFromNone
  <2> QED
    BY <1>1, <2>2 DEF u, n
<1> QED
  BY <1>6, <1>7

\* A cut that does not fall between "<" and "|".
NoCut(x, y) == ~ (x # << >> /\ y # << >> /\ x[Len(x)] = Less /\ y[1] = Bar)

LEMMA OpensJoined ==
  ASSUME NEW x \in Seq(Marks), NEW y \in Seq(Marks), NoCut(x, y),
         NEW j \in 1 .. Len(x), Opens(x \o y, j)
  PROVE  j < Len(x) /\ Opens(x, j)
<1> DEFINE u == x \o y
<1>1. /\ u \in Seq(Marks) /\ Len(u) = Len(x) + Len(y) /\ \A i \in 1 .. Len(x) : u[i] = x[i]
      /\ \A i \in 1 .. Len(y) : u[Len(x) + i] = y[i]
  BY ConcatIs
<1>2. u[j] = Less /\ u[j + 1] = Bar /\ j < Len(u)
  BY DEF Opens
<1> HIDE DEF u
<1>3. Len(x) \in Nat /\ Len(y) \in Nat
  OBVIOUS
<1>4. j # Len(x)
  <2> SUFFICES ASSUME j = Len(x) PROVE FALSE
    OBVIOUS
  <2>1. 1 \in 1 .. Len(y) /\ x # << >> /\ y # << >>
    BY <1>1, <1>2, <1>3
  <2>2. x[Len(x)] = Less /\ y[1] = Bar
    BY <1>1, <1>2, <2>1
  <2> QED
    BY <2>1, <2>2 DEF NoCut
<1>5. j < Len(x)
  BY <1>3, <1>4
<1> QED
  BY <1>2, <1>5, OpensFollowed DEF u

\* What _split_safe_text lets go is never part of a token.
LEMMA HeldIsSafe ==
  ASSUME NEW x \in Seq(Marks), NEW y \in Seq(Marks), NoCut(x, y),
         TokensIn(x) = {}
  PROVE  HeldFrom(x) \in 1 .. Len(x) + 1 /\ Safe(x \o y, HeldFrom(x) - 1)
<1> DEFINE u == x \o y
           h == HeldFrom(x)
<1>1. u \in Seq(Marks) /\ Len(u) = Len(x) + Len(y) /\ Len(x) \in Nat /\ Len(y) \in Nat
      /\ \A i \in 1 .. Len(x) : u[i] = x[i]
  BY ConcatIs
<1>2. \A i \in 1 .. Len(x) : Opens(u, i) => i < Len(x) /\ Opens(x, i)
  BY OpensJoined
<1>3. \A i \in 1 .. Len(x) : i < Len(x) => /\ Opens(u, i) <=> Opens(x, i)
                                           /\ ClosesAt(u, i) <=> ClosesAt(x, i)
  BY OpensFollowed
<1>4. \A i \in 1 .. Len(x), j \in 1 .. Len(x) : ~ TokenAt(u, i, j)
  BY NoTokens, TokenFollowed
<1>5. /\ h \in 1 .. Len(x) + 1
      /\ h # Len(x) + 1 => Dangling(x, h)
      /\ h = Len(x) + 1 => \A k \in 1 .. Len(x) : ~ Dangling(x, k)
  <2>1. CASE \E k \in 1 .. Len(x) : Dangling(x, k)
    <3>1. PICK k \in 1 .. Len(x) : Dangling(x, k)
      BY <2>1
    <3>2. h = k
      BY <3>1, HeldFromDangling
    <3> HIDE DEF h
    <3> QED
      BY <1>1, <3>1, <3>2
  <2>2. CASE \A k \in 1 .. Len(x) : ~ Dangling(x, k)
    <3>1. h = Len(x) + 1
      BY <2>2, HeldFromNone
    <3> HIDE DEF h
    <3> QED
      BY <1>1, <2>2, <3>1
  <2> QED
    BY <2>1, <2>2
<1> HIDE DEF u, h
<1>6. ASSUME NEW j \in 1 .. Len(x), ClosesAt(x, j) \/ Opens(x, j)
      PROVE  j < Len(x)
  BY <1>6 DEF ClosesAt, Opens
<1>7. ASSUME NEW k \in 1 .. h - 1, Opens(u, k)
      PROVE  \E j \in 1 .. Len(x) : k < j /\ j < Len(x) /\ (Opens(u, j) \/ ClosesAt(u, j))
  <2>1. k \in 1 .. Len(x)
    BY <1>1, <1>5
  <2>2. CASE h # Len(x) + 1
    <3>1. h \in 1 .. Len(x) /\ Opens(x, h)
      BY <1>5, <2>2 DEF Dangling
    <3>2. h < Len(x)
      BY <1>6, <3>1
    <3>3. Opens(u, h) /\ k < h
      BY <1>1, <1>3, <3>1, <3>2
    <3> QED
      BY <3>1, <3>2, <3>3
  <2>3. CASE h = Len(x) + 1
    <3>1. Opens(x, k) /\ ~ Dangling(x, k)
      BY <1>2, <1>5, <1>7, <2>1, <2>3
    <3>2. PICK j \in 1 .. Len(x) : k < j /\ (Opens(x, j) \/ ClosesAt(x, j))
      BY <2>1, <3>1 DEF Dangling
    <3>3. j < Len(x)
      BY <1>6, <3>2
    <3> QED
      BY <1>3, <3>2, <3>3
  <2> QED
    BY <2>2, <2>3
<1>8. ASSUME NEW k \in 1 .. h - 1 PROVE ~ Dangling(u, k)
  <2>1. SUFFICES ASSUME Dangling(u, k) PROVE FALSE
    OBVIOUS
  <2>2. Opens(u, k) /\ \A j \in 1 .. Len(u) : k < j => ~ Opens(u, j) /\ ~ ClosesAt(u, j)
    BY <2>1 DEF Dangling
  <2>3. PICK j \in 1 .. Len(x) : k < j /\ (Opens(u, j) \/ ClosesAt(u, j))
    BY <1>7, <2>2
  <2>4. j \in 1 .. Len(u)
    BY <1>1
  <2> QED
    BY <2>2, <2>3, <2>4
<1>9. ASSUME NEW k \in 1 .. h - 1, NEW l \in 1 .. Len(u) PROVE ~ TokenAt(u, k, l)
  <2>1. SUFFICES ASSUME TokenAt(u, k, l) PROVE FALSE
    OBVIOUS
  <2>2. k \in 1 .. Len(x) /\ k \in 1 .. Len(u)
    BY <1>1, <1>5
  <2>3. Len(x) < l
    BY <1>1, <1>4, <2>1, <2>2
  <2>4. Opens(u, k)
    BY <2>1 DEF TokenAt
  <2>5. PICK j \in 1 .. Len(x) : k < j /\ j < Len(x) /\ (Opens(u, j) \/ ClosesAt(u, j))
    BY <1>7, <2>4
  <2>6. j \in 1 .. Len(u) /\ j <= l /\ j < l /\ j # l - 1
    BY <1>1, <2>3, <2>5
  <2>7. u[j] # Less /\ ~ ClosesAt(u, j)
    BY <1>1, <2>1, <2>2, <2>5, <2>6, NothingOpensWithin
  <2> QED
    BY <2>5, <2>7 DEF Opens
<1> QED
  BY <1>5, <1>8, <1>9 DEF Safe, u, h

Kinds == {"final_text", "reasoning", "notification", "tool_call"}
Parts == [symbol : Marks, kind : Kinds]
Channels == {NoChannel, "other"} \union Marks \union {ChannelName(t) : t \in Seq(Marks)}
Norms == [buffer : Seq(Marks), channel : Channels, inMessage : BOOLEAN, out : Seq(Parts)]

Marked(m, text) == [k \in DOMAIN text |-> [symbol |-> text[k], kind |-> KindOf(m)]]
Emitted(m, x, y) == [m EXCEPT !.out = @ \o Marked(m, x), !.buffer = y]
Add(m, y) == [m EXCEPT !.buffer = @ \o y]

LEMMA NormIs ==
  ASSUME NEW m \in Norms
  PROVE  m.buffer \in Seq(Marks) /\ m.channel \in Channels /\ m.inMessage \in BOOLEAN
         /\ m.out \in Seq(Parts)
BY DEF Norms

LEMMA NormEqual ==
  ASSUME NEW m \in Norms, NEW n \in Norms, m.buffer = n.buffer, m.channel = n.channel,
         m.inMessage = n.inMessage, m.out = n.out
  PROVE  m = n
BY DEF Norms

LEMMA KindIs ==
  ASSUME NEW m \in Norms
  PROVE  KindOf(m) \in Kinds
         /\ \A n \in Norms : n.channel = m.channel /\ n.inMessage = m.inMessage => KindOf(n) = KindOf(m)
BY DEF KindOf, Kinds

LEMMA MarkedIs ==
  ASSUME NEW m \in Norms, NEW x \in Seq(Marks)
  PROVE  /\ Marked(m, x) \in Seq(Parts) /\ Len(Marked(m, x)) = Len(x)
         /\ \A k \in 1 .. Len(x) : Marked(m, x)[k] = [symbol |-> x[k], kind |-> KindOf(m)]
<1> DEFINE c == KindOf(m)
           f == [k \in 1 .. Len(x) |-> [symbol |-> x[k], kind |-> c]]
<1>1. c \in Kinds
  BY KindIs
<1>2. Marked(m, x) = f
  BY DEF Marked
<1> HIDE DEF c
<1>3. Len(x) \in Nat /\ \A k \in 1 .. Len(x) : [symbol |-> x[k], kind |-> c] \in Parts
  BY <1>1 DEF Parts
<1> HIDE DEF Parts
<1>5. f \in Seq(Parts) /\ Len(f) = Len(x)
  BY <1>3
<1>6. \A k \in 1 .. Len(x) : f[k] = [symbol |-> x[k], kind |-> c]
  OBVIOUS
<1> HIDE DEF f
<1> QED
  BY <1>2, <1>5, <1>6 DEF c

LEMMA MarkedJoins ==
  ASSUME NEW m \in Norms, NEW x \in Seq(Marks), NEW y \in Seq(Marks)
  PROVE  Marked(m, x \o y) = Marked(m, x) \o Marked(m, y)
<1> DEFINE u == x \o y
           a == Marked(m, x)
           b == Marked(m, y)
           c == a \o b
           d == Marked(m, u)
           n == Len(x)
<1>1. u \in Seq(Marks) /\ Len(u) = n + Len(y) /\ (\A i \in 1 .. n : u[i] = x[i])
      /\ \A i \in 1 .. Len(y) : u[n + i] = y[i]
  BY ConcatIs
<1>2. /\ a \in Seq(Parts) /\ Len(a) = n /\ b \in Seq(Parts) /\ Len(b) = Len(y)
      /\ \A k \in 1 .. n : a[k] = [symbol |-> x[k], kind |-> KindOf(m)]
      /\ \A k \in 1 .. Len(y) : b[k] = [symbol |-> y[k], kind |-> KindOf(m)]
  BY MarkedIs
<1> HIDE DEF u, a, b
<1>3. /\ d \in Seq(Parts) /\ Len(d) = Len(u)
      /\ \A k \in 1 .. Len(u) : d[k] = [symbol |-> u[k], kind |-> KindOf(m)]
  BY <1>1, MarkedIs
<1>4. c \in Seq(Parts) /\ Len(c) = Len(a) + Len(b) /\ (\A i \in 1 .. Len(a) : c[i] = a[i])
      /\ \A i \in 1 .. Len(b) : c[Len(a) + i] = b[i]
  <2>1. a \in Seq(Parts) /\ b \in Seq(Parts)
    BY <1>2
  <2> QED
    BY <2>1, ConcatIs
<1>5. n \in Nat /\ Len(y) \in Nat
  OBVIOUS
<1> HIDE DEF c, d, n
<1>6. ASSUME NEW k \in 1 .. Len(d) PROVE d[k] = c[k]
  <2>0. k \in 1 .. Len(u) /\ d[k] = [symbol |-> u[k], kind |-> KindOf(m)]
    BY <1>3
  <2>1. CASE k <= n
    <3>1. k \in 1 .. n /\ k \in 1 .. Len(a)
      BY <1>2, <1>5, <2>1
    <3>2. u[k] = x[k] /\ c[k] = a[k] /\ a[k] = [symbol |-> x[k], kind |-> KindOf(m)]
      BY <1>1, <1>2, <1>4, <3>1 DEF n
    <3> QED
      BY <2>0, <3>2
  <2>2. CASE ~ (k <= n)
    <3>1. PICK j \in 1 .. Len(y) : k = n + j
      <4>1. k - n \in 1 .. Len(y) /\ k = n + (k - n)
        BY <1>1, <1>3, <1>5, <2>2
      <4> QED
        BY <4>1
    <3>2. u[k] = y[j] /\ c[k] = b[j] /\ b[j] = [symbol |-> y[j], kind |-> KindOf(m)]
      BY <1>1, <1>2, <1>4, <3>1 DEF n
    <3> QED
      BY <2>0, <3>2
  <2> QED
    BY <2>1, <2>2
<1>7. d = c
  BY <1>1, <1>2, <1>3, <1>4, <1>6, SeqEqual
<1> QED
  BY <1>7 DEF c, d, a, b, u

LEMMA EmittedIs ==
  ASSUME NEW m \in Norms, NEW x \in Seq(Marks), NEW y \in Seq(Marks)
  PROVE  /\ Emitted(m, x, y) \in Norms
         /\ Emitted(m, x, y).buffer = y /\ Emitted(m, x, y).channel = m.channel
         /\ Emitted(m, x, y).inMessage = m.inMessage
         /\ Emitted(m, x, y).out = m.out \o Marked(m, x)
<1> DEFINE o == m.out \o Marked(m, x)
<1>1. o \in Seq(Parts)
  BY NormIs, MarkedIs, ConcatIs
<1>2. Emitted(m, x, y) = [m EXCEPT !.out = o, !.buffer = y]
  BY DEF Emitted
<1> HIDE DEF o
<1>3. /\ Emitted(m, x, y) \in Norms
      /\ Emitted(m, x, y).buffer = y /\ Emitted(m, x, y).channel = m.channel
      /\ Emitted(m, x, y).inMessage = m.inMessage /\ Emitted(m, x, y).out = o
  BY <1>1, <1>2 DEF Norms
<1> QED
  BY <1>3 DEF o

LEMMA AddIs ==
  ASSUME NEW m \in Norms, NEW y \in Seq(Marks)
  PROVE  /\ Add(m, y) \in Norms
         /\ Add(m, y).buffer = m.buffer \o y /\ Add(m, y).channel = m.channel
         /\ Add(m, y).inMessage = m.inMessage /\ Add(m, y).out = m.out
<1> DEFINE b == m.buffer \o y
<1>1. b \in Seq(Marks)
  BY NormIs, ConcatIs
<1>2. Add(m, y) = [m EXCEPT !.buffer = b]
  BY DEF Add
<1> HIDE DEF b
<1>3. /\ Add(m, y) \in Norms
      /\ Add(m, y).buffer = b /\ Add(m, y).channel = m.channel
      /\ Add(m, y).inMessage = m.inMessage /\ Add(m, y).out = m.out
  BY <1>1, <1>2 DEF Norms
<1> QED
  BY <1>3 DEF b

LEMMA AddEmitted ==
  ASSUME NEW m \in Norms, NEW x \in Seq(Marks), NEW y \in Seq(Marks), NEW z \in Seq(Marks)
  PROVE  Add(Emitted(m, x, y), z) = Emitted(Add(m, z), x, y \o z)
<1> DEFINE e == Emitted(m, x, y)
           p == Add(m, z)
           a == Add(e, z)
           v == y \o z
           b == Emitted(p, x, v)
<1>1. /\ e \in Norms /\ e.buffer = y /\ e.channel = m.channel
      /\ e.inMessage = m.inMessage /\ e.out = m.out \o Marked(m, x)
  BY EmittedIs
<1>2. /\ p \in Norms /\ p.channel = m.channel
      /\ p.inMessage = m.inMessage /\ p.out = m.out
  BY AddIs
<1>3. v \in Seq(Marks)
  BY ConcatIs
<1>4. Marked(p, x) = Marked(m, x)
  <2>1. KindOf(p) = KindOf(m)
    BY <1>2, KindIs
  <2> QED
    BY <2>1 DEF Marked
<1> HIDE DEF e, p
<1>5. /\ a \in Norms /\ a.buffer = e.buffer \o z /\ a.channel = e.channel
      /\ a.inMessage = e.inMessage /\ a.out = e.out
  BY <1>1, AddIs
<1>6. v = e.buffer \o z
  BY <1>1
<1> HIDE DEF v
<1>7. /\ b \in Norms /\ b.buffer = v /\ b.channel = p.channel
      /\ b.inMessage = p.inMessage /\ b.out = p.out \o Marked(p, x)
  BY <1>2, <1>3, EmittedIs
<1> HIDE DEF a, b
<1>8. a = b
  <2>1. a.out = b.out
    BY <1>1, <1>2, <1>4, <1>5, <1>7, Zenon
  <2>2. a.buffer = b.buffer /\ a.channel = b.channel /\ a.inMessage = b.inMessage
    BY <1>1, <1>2, <1>5, <1>6, <1>7, Zenon
  <2> QED
    BY <1>5, <1>7, <2>1, <2>2, NormEqual
<1> QED
  BY <1>8 DEF a, b, e, p, v

LEMMA PartsJoin ==
  ASSUME NEW o \in Seq(Parts), NEW a \in Seq(Parts), NEW b \in Seq(Parts)
  PROVE  (o \o a) \o b = o \o (a \o b)
BY ConcatAssociative

LEMMA MarksJoin ==
  ASSUME NEW x \in Seq(Marks), NEW y \in Seq(Marks), NEW z \in Seq(Marks)
  PROVE  (x \o y) \o z = x \o (y \o z)
BY ConcatAssociative

LEMMA EmittedTwice ==
  ASSUME NEW m \in Norms, NEW x \in Seq(Marks), NEW y \in Seq(Marks), NEW z \in Seq(Marks),
         NEW v \in Seq(Marks)
  PROVE  Emitted(Emitted(m, x, v), y, z) = Emitted(m, x \o y, z)
<1> DEFINE e == Emitted(m, x, v)
           u == x \o y
           a == Emitted(e, y, z)
           b == Emitted(m, u, z)
           f == Marked(m, x)
           g == Marked(m, y)
<1>1. /\ e \in Norms /\ e.channel = m.channel
      /\ e.inMessage = m.inMessage /\ e.out = m.out \o f
  BY EmittedIs
<1>2. u \in Seq(Marks)
  BY ConcatIs
<1>3. Marked(e, y) = g
  <2>1. KindOf(e) = KindOf(m)
    BY <1>1, KindIs
  <2> QED
    BY <2>1 DEF Marked
<1>4. Marked(m, u) = f \o g /\ f \in Seq(Parts) /\ g \in Seq(Parts) /\ m.out \in Seq(Parts)
  BY MarkedJoins, MarkedIs, NormIs
<1> HIDE DEF e, u, f, g
<1>5. /\ a \in Norms /\ a.buffer = z /\ a.channel = e.channel
      /\ a.inMessage = e.inMessage /\ a.out = e.out \o Marked(e, y)
  BY <1>1, EmittedIs
<1>6. /\ b \in Norms /\ b.buffer = z /\ b.channel = m.channel
      /\ b.inMessage = m.inMessage /\ b.out = m.out \o Marked(m, u)
  BY <1>2, EmittedIs
<1> HIDE DEF a, b
<1>7. a.out = b.out
  <2> DEFINE o == m.out
  <2>1. o \in Seq(Parts) /\ a.out = (o \o f) \o g /\ b.out = o \o (f \o g)
    BY <1>1, <1>3, <1>4, <1>5, <1>6, Zenon
  <2> HIDE DEF o
  <2>2. (o \o f) \o g = o \o (f \o g)
    BY <1>4, <2>1, PartsJoin, Zenon
  <2> QED
    BY <2>1, <2>2, Zenon
<1>8. a = b
  BY <1>1, <1>5, <1>6, <1>7, NormEqual
<1> QED
  BY <1>8 DEF a, b, e, u

LEMMA EmittedNothing ==
  ASSUME NEW m \in Norms
  PROVE  Emitted(m, << >>, m.buffer) = m
<1> DEFINE e == Emitted(m, << >>, m.buffer)
<1>1. << >> \in Seq(Marks) /\ m.buffer \in Seq(Marks) /\ m.out \in Seq(Parts)
  BY NormIs
<1>2. /\ e \in Norms /\ e.buffer = m.buffer /\ e.channel = m.channel
      /\ e.inMessage = m.inMessage /\ e.out = m.out \o Marked(m, << >>)
  BY <1>1, EmittedIs
<1>3. Marked(m, << >>) = << >>
  <2>1. Marked(m, << >>) \in Seq(Parts) /\ Len(Marked(m, << >>)) = 0
    BY <1>1, MarkedIs
  <2> QED
    BY <2>1, EmptySeq
<1>4. e.out = m.out
  BY <1>1, <1>2, <1>3
<1> HIDE DEF e
<1>5. e = m
  BY <1>2, <1>4, NormEqual
<1> QED
  BY <1>5 DEF e

LEMMA FromAfter ==
  ASSUME NEW S, NEW x \in Seq(S), NEW y \in Seq(S)
  PROVE  From(x \o y, Len(x) + 1) = y /\ SubSeq(x \o y, 1, Len(x)) = x
<1>1. Len(x) \in Nat /\ 0 \in 0 .. Len(y)
  OBVIOUS
<1>2. After(x \o y, Len(x) + 0) = After(y, 0)
  BY <1>1, JoinedAfter
<1>3. After(y, 0) = y
  BY SubSeqFull DEF After
<1>4. Len(x) + 0 = Len(x)
  BY <1>1
<1> QED
  BY <1>2, <1>3, <1>4, JoinedFirst DEF From, After

LEMMA EmitsParts ==
  ASSUME NEW m \in Norms, NEW x \in Seq(Marks), NEW y \in Seq(Marks), m.buffer = x \o y
  PROVE  [Put(m, SubSeq(m.buffer, 1, (Len(x) + 1) - 1)) EXCEPT !.buffer = From(m.buffer, Len(x) + 1)]
           = Emitted(m, x, y)
<1>1. (Len(x) + 1) - 1 = Len(x)
  OBVIOUS
<1>2. From(m.buffer, Len(x) + 1) = y /\ SubSeq(m.buffer, 1, Len(x)) = x
  BY FromAfter
<1>3. Put(m, x) = [m EXCEPT !.out = @ \o Marked(m, x)]
  BY DEF Put, Marked
<1> DEFINE o == m.out \o Marked(m, x)
<1>4. o \in Seq(Parts)
  BY NormIs, MarkedIs, ConcatIs
<1>5. Emitted(m, x, y) = [m EXCEPT !.out = o, !.buffer = y]
  BY DEF Emitted
<1>6. Put(m, x) = [m EXCEPT !.out = o]
  BY <1>3
<1> HIDE DEF o
<1>7. [[m EXCEPT !.out = o] EXCEPT !.buffer = y] = [m EXCEPT !.out = o, !.buffer = y]
  BY <1>4 DEF Norms
<1> QED
  BY <1>1, <1>2, <1>5, <1>6, <1>7

\* What a pass does with a token at the beginning of the text.
AfterToken(m, name, rest) ==
    LET next == IF TokensIn(rest) = {} THEN Len(rest) + 1 ELSE FirstToken(rest)[1]
        value == ChannelName(SubSeq(rest, 1, next - 1))
    IN  CASE name \in {"channel", "start"} ->
               IF TokensIn(rest) = {} /\ ~FALSE THEN m
               ELSE [m EXCEPT !.buffer = From(rest, next),
                              !.channel = IF name = "channel" THEN value ELSE @]
          [] name = "message" -> [m EXCEPT !.buffer = rest, !.inMessage = TRUE]
          [] name = "end" -> [m EXCEPT !.buffer = rest, !.channel = NoChannel, !.inMessage = FALSE]
          [] OTHER -> [m EXCEPT !.buffer = rest]

LEMMA PassWithout ==
  ASSUME NEW m \in Norms, NEW x \in Seq(Marks), NEW y \in Seq(Marks), m.buffer = x \o y,
         TokensIn(m.buffer) = {}, HeldFrom(m.buffer) = Len(x) + 1
  PROVE  MarkupPass(m, FALSE) = Emitted(m, x, y)
<1>1. MarkupPass(m, FALSE) = [Put(m, SubSeq(m.buffer, 1, HeldFrom(m.buffer) - 1))
                                EXCEPT !.buffer = From(m.buffer, HeldFrom(m.buffer))]
  BY Zenon DEF MarkupPass
<1>2. MarkupPass(m, FALSE) = [Put(m, SubSeq(m.buffer, 1, (Len(x) + 1) - 1))
                                EXCEPT !.buffer = From(m.buffer, Len(x) + 1)]
  BY <1>1, Zenon
<1> QED
  BY <1>2, EmitsParts, Zenon

LEMMA PassBefore ==
  ASSUME NEW m \in Norms, NEW x \in Seq(Marks), NEW y \in Seq(Marks),
         m.buffer = x \o y, x # << >>, NEW l, First(m.buffer, Len(x) + 1, l)
  PROVE  MarkupPass(m, FALSE) = Emitted(m, x, y)
<1> DEFINE p == FirstToken(m.buffer)
           k == Len(x) + 1
<1>1. m.buffer \in Seq(Marks)
  BY NormIs
<1>2. TokensIn(m.buffer) # {} /\ p = <<k, l>>
  BY <1>1, FirstTokenIs
<1>3. p[1] = k /\ p[1] > 1
  <2>1. Len(x) \in Nat /\ Len(x) # 0
    OBVIOUS
  <2>2. k > 1
    BY <2>1
  <2> HIDE DEF p, k
  <2> QED
    BY <1>2, <2>2
<1>4. MarkupPass(m, FALSE) = [Put(m, SubSeq(m.buffer, 1, p[1] - 1)) EXCEPT !.buffer = From(m.buffer, p[1])]
  BY <1>2, <1>3, Zenon DEF MarkupPass
<1>5. MarkupPass(m, FALSE) = [Put(m, SubSeq(m.buffer, 1, k - 1)) EXCEPT !.buffer = From(m.buffer, k)]
  <2> HIDE DEF p, k
  <2> QED
    BY <1>3, <1>4, Zenon
<1> QED
  BY <1>5, EmitsParts, Zenon

LEMMA PassAt ==
  ASSUME NEW m \in Norms, NEW l, First(m.buffer, 1, l)
  PROVE  MarkupPass(m, FALSE)
           = AfterToken(m, NameOfToken(m.buffer, <<1, l>>), From(m.buffer, l + 1))
<1> DEFINE p == FirstToken(m.buffer)
<1>1. m.buffer \in Seq(Marks)
  BY NormIs
<1>2. TokensIn(m.buffer) # {} /\ p = <<1, l>>
  BY <1>1, FirstTokenIs
<1>3. p[1] = 1 /\ p[2] = l /\ ~ (p[1] > 1)
  BY <1>2
<1>4. MarkupPass(m, FALSE) = AfterToken(m, NameOfToken(m.buffer, p), From(m.buffer, p[2] + 1))
  BY <1>2, <1>3, Zenon DEF MarkupPass, AfterToken
<1> QED
  BY <1>2, <1>3, <1>4, Zenon

Waits(name, rest) == name \in {"channel", "start"} /\ TokensIn(rest) = {}
Ends(name, rest, v, w) ==
    /\ rest = v \o w
    /\ IF name \in {"channel", "start"} THEN \E l : First(rest, Len(v) + 1, l) ELSE v = << >>
NextChannel(m, name, v) ==
    IF name = "channel" THEN ChannelName(v) ELSE IF name = "end" THEN NoChannel ELSE m.channel
NextIn(m, name) == IF name = "message" THEN TRUE ELSE IF name = "end" THEN FALSE ELSE m.inMessage

LEMMA EndsExist ==
  ASSUME NEW rest \in Seq(Marks), NEW name, ~ Waits(name, rest)
  PROVE  \E v \in Seq(Marks), w \in Seq(Marks) : Ends(name, rest, v, w)
<1>1. CASE name \in {"channel", "start"}
  <2>1. PICK k, l : First(rest, k, l)
    BY <1>1, FirstTokenExists DEF Waits
  <2>2. k \in 1 .. Len(rest)
    BY <2>1 DEF First
  <2>3. PICK n \in 0 .. Len(rest) : k = n + 1
    <3>1. k - 1 \in 0 .. Len(rest) /\ k = (k - 1) + 1
      BY <2>2
    <3> QED
      BY <3>1
  <2> DEFINE v == SubSeq(rest, 1, n)
             w == After(rest, n)
  <2>4. v \in Seq(Marks) /\ Len(v) = n /\ w \in Seq(Marks) /\ rest = v \o w
    BY FirstHalf, SecondHalf, HalvesMake
  <2> HIDE DEF v, w
  <2>5. First(rest, Len(v) + 1, l)
    BY <2>1, <2>3, <2>4, Zenon
  <2>6. Ends(name, rest, v, w)
    BY <1>1, <2>4, <2>5 DEF Ends
  <2> QED
    BY <2>4, <2>6
<1>2. CASE ~ (name \in {"channel", "start"})
  <2>1. << >> \in Seq(Marks) /\ rest = << >> \o rest
    OBVIOUS
  <2>2. Ends(name, rest, << >>, rest)
    BY <1>2, <2>1 DEF Ends
  <2> QED
    BY <2>1, <2>2
<1> QED
  BY <1>1, <1>2

LEMMA EndsFollowed ==
  ASSUME NEW name, NEW rest \in Seq(Marks), NEW v \in Seq(Marks),
         NEW w \in Seq(Marks), NEW y \in Seq(Marks), Ends(name, rest, v, w)
  PROVE  Ends(name, rest \o y, v, w \o y)
<1>1. rest = v \o w
  BY DEF Ends
<1>2. (v \o w) \o y = v \o (w \o y)
  BY MarksJoin
<1>3. CASE name \in {"channel", "start"}
  <2>1. PICK l : First(rest, Len(v) + 1, l)
    BY <1>3 DEF Ends
  <2> DEFINE k == Len(v) + 1
  <2>2. First(rest, k, l)
    BY <2>1
  <2> HIDE DEF k
  <2>3. First(rest \o y, k, l)
    BY <2>2, FirstFollowed
  <2> QED
    BY <1>1, <1>2, <1>3, <2>3, Zenon DEF Ends, k
<1>4. CASE ~ (name \in {"channel", "start"})
  <2>1. v = << >>
    BY <1>4, Zenon DEF Ends
  <2> QED
    BY <1>1, <1>2, <1>4, <2>1, Zenon DEF Ends
<1> QED
  BY <1>3, <1>4

Becomes(r, b, c, i, o) ==
    r \in Norms /\ r.buffer = b /\ r.channel = c /\ r.inMessage = i /\ r.out = o

LEMMA ChannelChanged ==
  ASSUME NEW m \in Norms, NEW b \in Seq(Marks), NEW c \in Channels
  PROVE  Becomes([m EXCEPT !.buffer = b, !.channel = c], b, c, m.inMessage, m.out)
BY DEF Norms, Becomes

LEMMA MessageChanged ==
  ASSUME NEW m \in Norms, NEW b \in Seq(Marks), NEW i \in BOOLEAN
  PROVE  Becomes([m EXCEPT !.buffer = b, !.inMessage = i], b, m.channel, i, m.out)
BY DEF Norms, Becomes

LEMMA BothChanged ==
  ASSUME NEW m \in Norms, NEW b \in Seq(Marks), NEW c \in Channels, NEW i \in BOOLEAN
  PROVE  Becomes([m EXCEPT !.buffer = b, !.channel = c, !.inMessage = i], b, c, i, m.out)
BY DEF Norms, Becomes

LEMMA BufferChanged ==
  ASSUME NEW m \in Norms, NEW b \in Seq(Marks)
  PROVE  Becomes([m EXCEPT !.buffer = b], b, m.channel, m.inMessage, m.out)
BY DEF Norms, Becomes

LEMMA AfterTokenIs ==
  ASSUME NEW m \in Norms, NEW name, NEW rest \in Seq(Marks),
         NEW v \in Seq(Marks), NEW w \in Seq(Marks), Ends(name, rest, v, w)
  PROVE  /\ AfterToken(m, name, rest) \in Norms
         /\ AfterToken(m, name, rest).buffer = w
         /\ AfterToken(m, name, rest).channel = NextChannel(m, name, v)
         /\ AfterToken(m, name, rest).inMessage = NextIn(m, name)
         /\ AfterToken(m, name, rest).out = m.out
<1> DEFINE r == AfterToken(m, name, rest)
           d == ChannelName(v)
<1>1. rest = v \o w
  BY DEF Ends
<1>2. d \in Channels /\ NoChannel \in Channels /\ m.channel \in Channels /\ TRUE \in BOOLEAN /\ FALSE \in BOOLEAN
  BY NormIs DEF Channels
<1>3. "channel" # "message" /\ "channel" # "end" /\ "start" # "channel" /\ "start" # "message"
      /\ "start" # "end" /\ "message" # "end"
  OBVIOUS
<1>4. CASE name \in {"channel", "start"}
  <2>1. PICK l : First(rest, Len(v) + 1, l)
    BY <1>4 DEF Ends
  <2> DEFINE k == Len(v) + 1
             p == FirstToken(rest)
  <2>2. First(rest, k, l)
    BY <2>1
  <2> HIDE DEF k
  <2>3. TokensIn(rest) # {} /\ p = <<k, l>>
    BY <2>2, FirstTokenIs
  <2>4. p[1] = k
    BY <2>3
  <2>5. From(rest, k) = w /\ SubSeq(rest, 1, k - 1) = v
    <3>1. (Len(v) + 1) - 1 = Len(v)
      OBVIOUS
    <3> QED
      BY <1>1, <3>1, FromAfter DEF k
  <2> HIDE DEF p
  <2>6. r = [m EXCEPT !.buffer = w, !.channel = IF name = "channel" THEN d ELSE m.channel]
    BY <1>4, <2>3, <2>4, <2>5 DEF AfterToken, p
  <2> DEFINE c == IF name = "channel" THEN d ELSE m.channel
  <2>7. c \in Channels /\ NextChannel(m, name, v) = c /\ NextIn(m, name) = m.inMessage
    BY <1>2, <1>3, <1>4 DEF NextChannel, NextIn
  <2>8. r = [m EXCEPT !.buffer = w, !.channel = c]
    BY <2>6
  <2>9. Becomes([m EXCEPT !.buffer = w, !.channel = c], w, c, m.inMessage, m.out)
    <3> HIDE DEF c
    <3> QED
      BY <2>7, ChannelChanged
  <2> QED
    BY <2>7, <2>8, <2>9, Zenon DEF Becomes
<1>5. CASE ~ (name \in {"channel", "start"})
  <2>1. rest = w
    BY <1>1, <1>5 DEF Ends
  <2>2. CASE name = "message"
    <3>1. r = [m EXCEPT !.buffer = w, !.inMessage = TRUE]
      BY <1>3, <1>5, <2>1, <2>2 DEF AfterToken
    <3>2. NextChannel(m, name, v) = m.channel /\ NextIn(m, name) = TRUE
      BY <1>3, <2>2 DEF NextChannel, NextIn
    <3>3. Becomes([m EXCEPT !.buffer = w, !.inMessage = TRUE], w, m.channel, TRUE, m.out)
      BY <1>2, MessageChanged
    <3> QED
      BY <3>1, <3>2, <3>3, Zenon DEF Becomes
  <2>3. CASE name = "end"
    <3>1. r = [m EXCEPT !.buffer = w, !.channel = NoChannel, !.inMessage = FALSE]
      BY <1>3, <1>5, <2>1, <2>3 DEF AfterToken
    <3>2. NextChannel(m, name, v) = NoChannel /\ NextIn(m, name) = FALSE
      BY <1>3, <2>3 DEF NextChannel, NextIn
    <3>3. Becomes([m EXCEPT !.buffer = w, !.channel = NoChannel, !.inMessage = FALSE], w, NoChannel, FALSE, m.out)
      BY <1>2, BothChanged
    <3> QED
      BY <3>1, <3>2, <3>3, Zenon DEF Becomes
  <2>4. CASE name # "message" /\ name # "end"
    <3>1. r = [m EXCEPT !.buffer = w]
      BY <1>3, <1>5, <2>1, <2>4 DEF AfterToken
    <3>2. NextChannel(m, name, v) = m.channel /\ NextIn(m, name) = m.inMessage
      BY <1>3, <1>5, <2>4 DEF NextChannel, NextIn
    <3>3. Becomes([m EXCEPT !.buffer = w], w, m.channel, m.inMessage, m.out)
      BY <1>2, BufferChanged
    <3> QED
      BY <3>1, <3>2, <3>3, Zenon DEF Becomes
  <2> QED
    BY <2>2, <2>3, <2>4
<1> QED
  BY <1>4, <1>5

LEMMA SplitAt ==
  ASSUME NEW t \in Seq(Marks), NEW n \in 0 .. Len(t)
  PROVE  \E x \in Seq(Marks), y \in Seq(Marks) : t = x \o y /\ Len(x) = n
<1> DEFINE x == SubSeq(t, 1, n)
           y == After(t, n)
<1>1. x \in Seq(Marks) /\ Len(x) = n /\ y \in Seq(Marks) /\ t = x \o y
  BY FirstHalf, SecondHalf, HalvesMake
<1> HIDE DEF x, y
<1> QED
  BY <1>1

LEMMA WaitsIs ==
  ASSUME NEW m, NEW name, NEW rest, Waits(name, rest)
  PROVE  AfterToken(m, name, rest) = m
BY DEF AfterToken, Waits

\* A pass takes away a beginning of the text, or changes nothing.
LEMMA PassTakes ==
  ASSUME NEW m \in Norms
  PROVE  /\ MarkupPass(m, FALSE) \in Norms
         /\ \E x \in Seq(Marks) : /\ m.buffer = x \o MarkupPass(m, FALSE).buffer
                                  /\ x = << >> => MarkupPass(m, FALSE) = m
<1> DEFINE t == m.buffer
           r == MarkupPass(m, FALSE)
<1>1. t \in Seq(Marks) /\ << >> \in Seq(Marks) /\ t = << >> \o t
  BY NormIs
<1>2. CASE TokensIn(t) = {}
  <2>1. NoCut(t, << >>)
    BY DEF NoCut
  <2>2. HeldFrom(t) \in 1 .. Len(t) + 1
    BY <1>1, <1>2, <2>1, HeldIsSafe
  <2>3. PICK n \in 0 .. Len(t) : HeldFrom(t) = n + 1
    <3>1. HeldFrom(t) - 1 \in 0 .. Len(t) /\ HeldFrom(t) = (HeldFrom(t) - 1) + 1
      BY <1>1, <2>2
    <3> QED
      BY <3>1
  <2>4. PICK x \in Seq(Marks), y \in Seq(Marks) : t = x \o y /\ Len(x) = n
    BY <1>1, SplitAt, Zenon
  <2>5. r = Emitted(m, x, y)
    BY <1>2, <2>3, <2>4, PassWithout
  <2>6. r \in Norms /\ r.buffer = y
    <3> HIDE DEF r
    <3> QED
      BY <2>5, EmittedIs
  <2>7. ASSUME x = << >> PROVE r = m
    <3>1. y = t
      BY <2>4, <2>7
    <3> QED
      BY <2>5, <2>7, <3>1, EmittedNothing
  <2> HIDE DEF r
  <2> QED
    BY <2>4, <2>6, <2>7 DEF r
<1>3. ASSUME TokensIn(t) # {} PROVE r \in Norms /\ \E x \in Seq(Marks) : t = x \o r.buffer /\ (x = << >> => r = m)
  <2>1. PICK k, l : First(t, k, l)
    BY <1>1, <1>3, FirstTokenExists
  <2>2. k \in 1 .. Len(t) /\ l \in 1 .. Len(t) /\ l >= k + 4
    BY <2>1 DEF First, TokenAt
  <2>3. CASE k # 1
    <3>1. PICK n \in 0 .. Len(t) : k = n + 1 /\ n # 0
      <4>1. k - 1 \in 0 .. Len(t) /\ k = (k - 1) + 1 /\ k - 1 # 0
        BY <2>2, <2>3
      <4> QED
        BY <4>1
    <3>2. PICK x \in Seq(Marks), y \in Seq(Marks) : t = x \o y /\ Len(x) = n
      BY <1>1, SplitAt, Zenon
    <3>3. x # << >>
      BY <3>1, <3>2
    <3>4. First(t, Len(x) + 1, l)
      BY <2>1, <3>1, <3>2, Zenon
    <3>5. r = Emitted(m, x, y)
      BY <3>2, <3>3, <3>4, PassBefore
    <3>6. r \in Norms /\ r.buffer = y
      <4> HIDE DEF r
      <4> QED
        BY <3>5, EmittedIs
    <3> HIDE DEF r
    <3> QED
      BY <3>2, <3>3, <3>6 DEF r
  <2>4. CASE k = 1
    <3>1. PICK x \in Seq(Marks), rest \in Seq(Marks) : t = x \o rest /\ Len(x) = l
      <4>1. l \in 0 .. Len(t)
        BY <2>2
      <4> QED
        BY <1>1, <4>1, SplitAt, Zenon
    <3>2. From(t, l + 1) = rest /\ x # << >>
      <4>1. From(x \o rest, Len(x) + 1) = rest
        BY FromAfter
      <4> QED
        BY <2>2, <2>4, <3>1, <4>1
    <3> DEFINE name == NameOfToken(t, <<1, l>>)
    <3>3. r = AfterToken(m, name, rest)
      BY <2>1, <2>4, <3>2, PassAt
    <3> HIDE DEF name
    <3>4. CASE Waits(name, rest)
      <4>1. r = m
        BY <3>3, <3>4, WaitsIs, Zenon
      <4> QED
        BY <1>1, <4>1
    <3>5. CASE ~ Waits(name, rest)
      <4>1. PICK v \in Seq(Marks), w \in Seq(Marks) : Ends(name, rest, v, w)
        BY <3>5, EndsExist
      <4>2. r \in Norms /\ r.buffer = w
        <5> HIDE DEF r
        <5> QED
          BY <3>3, <4>1, AfterTokenIs
      <4>3. rest = v \o w
        BY <4>1 DEF Ends
      <4>4. (x \o v) \o w = x \o (v \o w)
        BY MarksJoin, Zenon
      <4>5. x \o v \in Seq(Marks) /\ x \o v # << >>
        BY <3>2, ConcatIs, ConcatEqualIffEmpty
      <4> HIDE DEF r
      <4>6. t = (x \o v) \o r.buffer
        BY <3>1, <4>2, <4>3, <4>4, Zenon
      <4> QED
        BY <4>2, <4>5, <4>6 DEF r
    <3> QED
      BY <3>4, <3>5
  <2> QED
    BY <2>3, <2>4
<1> QED
  BY <1>2, <1>3

\* A pass that finds a token does the same where more text follows, unless
\* it waits for that.
LEMMA PassAdds ==
  ASSUME NEW m \in Norms, NEW y \in Seq(Marks), TokensIn(m.buffer) # {}
  PROVE  \/ MarkupPass(m, FALSE) = m
         \/ MarkupPass(Add(m, y), FALSE) = Add(MarkupPass(m, FALSE), y)
<1> DEFINE t == m.buffer
           a == Add(m, y)
           u == t \o y
           r == MarkupPass(m, FALSE)
           s == MarkupPass(a, FALSE)
<1>1. t \in Seq(Marks) /\ u \in Seq(Marks)
  BY NormIs, ConcatIs
<1>2. a \in Norms /\ a.buffer = u /\ a.channel = m.channel /\ a.inMessage = m.inMessage /\ a.out = m.out
  BY AddIs
<1>3. PICK k, l : First(t, k, l)
  BY <1>1, FirstTokenExists
<1>4. k \in 1 .. Len(t) /\ l \in 1 .. Len(t) /\ l >= k + 4
  BY <1>3 DEF First, TokenAt
<1>5. First(u, k, l)
  BY <1>1, <1>3, FirstFollowed
<1>6. \A i \in 1 .. Len(t) : u[i] = t[i]
  BY <1>1, ConcatIs
<1>7. CASE k # 1
  <2>1. PICK n \in 0 .. Len(t) : k = n + 1 /\ n # 0
    <3>1. k - 1 \in 0 .. Len(t) /\ k = (k - 1) + 1 /\ k - 1 # 0
      BY <1>4, <1>7
    <3> QED
      BY <3>1
  <2>2. PICK x \in Seq(Marks), z \in Seq(Marks) : t = x \o z /\ Len(x) = n
    BY <1>1, SplitAt, Zenon
  <2>3. x # << >> /\ First(t, Len(x) + 1, l) /\ First(u, Len(x) + 1, l)
    BY <1>3, <1>5, <2>1, <2>2
  <2>4. r = Emitted(m, x, z)
    BY <2>2, <2>3, PassBefore
  <2>5. u = x \o (z \o y) /\ z \o y \in Seq(Marks)
    <3>1. (x \o z) \o y = x \o (z \o y)
      BY MarksJoin, Zenon
    <3> QED
      BY <2>2, <3>1, ConcatIs
  <2> DEFINE zy == z \o y
  <2>6. zy \in Seq(Marks) /\ a.buffer = x \o zy /\ First(a.buffer, Len(x) + 1, l)
    BY <1>2, <2>3, <2>5
  <2> HIDE DEF zy, a
  <2>7. s = Emitted(a, x, zy)
    BY <1>2, <2>3, <2>6, PassBefore
  <2>8. Add(Emitted(m, x, z), y) = Emitted(a, x, zy)
    BY AddEmitted DEF a, zy
  <2> QED
    BY <2>4, <2>7, <2>8 DEF a
<1>8. CASE k = 1
  <2>1. PICK x \in Seq(Marks), rest \in Seq(Marks) : t = x \o rest /\ Len(x) = l
    <3>1. l \in 0 .. Len(t)
      BY <1>4
    <3> QED
      BY <1>1, <3>1, SplitAt, Zenon
  <2>2. u = x \o (rest \o y) /\ rest \o y \in Seq(Marks)
    <3>1. (x \o rest) \o y = x \o (rest \o y)
      BY MarksJoin, Zenon
    <3> QED
      BY <2>1, <3>1, ConcatIs
  <2> DEFINE left == rest \o y
             name == NameOfToken(t, <<1, l>>)
  <2>3. From(t, l + 1) = rest /\ From(u, l + 1) = left
    <3>1. From(x \o rest, Len(x) + 1) = rest /\ From(x \o left, Len(x) + 1) = left
      BY <2>2, FromAfter
    <3> QED
      BY <2>1, <2>2, <3>1
  <2>4. NameOfToken(u, <<1, l>>) = name
    <3>1. 3 \in 1 .. Len(t) /\ 1 + 2 = 3
      BY <1>4, <1>8
    <3>2. u[3] = t[3]
      BY <1>6, <3>1
    <3> QED
      BY <3>1, <3>2 DEF NameOfToken
  <2>5. r = AfterToken(m, name, rest)
    BY <1>3, <1>8, <2>3, PassAt
  <2>6. s = AfterToken(a, name, left)
    <3> HIDE DEF a, left
    <3>1. First(a.buffer, 1, l)
      BY <1>2, <1>5, <1>8
    <3>2. s = AfterToken(a, NameOfToken(a.buffer, <<1, l>>), From(a.buffer, l + 1))
      BY <1>2, <3>1, PassAt
    <3> QED
      BY <1>2, <2>3, <2>4, <3>2, Zenon
  <2> HIDE DEF name
  <2>7. CASE Waits(name, rest)
    BY <2>5, <2>7, WaitsIs, Zenon
  <2>8. CASE ~ Waits(name, rest)
    <3>1. PICK v \in Seq(Marks), w \in Seq(Marks) : Ends(name, rest, v, w)
      BY <2>8, EndsExist
    <3>2. Ends(name, left, v, w \o y) /\ w \o y \in Seq(Marks) /\ left \in Seq(Marks)
      BY <2>2, <3>1, EndsFollowed, ConcatIs
    <3> DEFINE wy == w \o y
               b == Add(r, y)
    <3>3. /\ r \in Norms /\ r.buffer = w /\ r.channel = NextChannel(m, name, v)
          /\ r.inMessage = NextIn(m, name) /\ r.out = m.out
      <4> HIDE DEF r
      <4> QED
        BY <2>5, <3>1, AfterTokenIs
    <3> HIDE DEF r
    <3>4. /\ b \in Norms /\ b.buffer = r.buffer \o y /\ b.channel = r.channel
          /\ b.inMessage = r.inMessage /\ b.out = r.out
      BY <3>3, AddIs
    <3>5. wy \in Seq(Marks) /\ left \in Seq(Marks) /\ Ends(name, left, v, wy)
      BY <3>2
    <3> HIDE DEF a, s, b, wy, left
    <3>6. /\ s \in Norms /\ s.buffer = wy /\ s.channel = NextChannel(a, name, v)
          /\ s.inMessage = NextIn(a, name) /\ s.out = a.out
      BY <1>2, <2>6, <3>5, AfterTokenIs
    <3>7. NextChannel(a, name, v) = NextChannel(m, name, v) /\ NextIn(a, name) = NextIn(m, name)
      BY <1>2, Zenon DEF NextChannel, NextIn
    <3>8. wy = r.buffer \o y
      BY <3>3 DEF wy
    <3>9. s = b
      <4>1. s.buffer = b.buffer /\ s.channel = b.channel /\ s.inMessage = b.inMessage /\ s.out = b.out
        BY <1>2, <3>3, <3>4, <3>6, <3>7, <3>8, Zenon
      <4> QED
        BY <3>4, <3>6, <4>1, NormEqual
    <3> QED
      BY <3>9 DEF s, b, a, r
  <2> QED
    BY <2>7, <2>8
<1> QED
  BY <1>7, <1>8

\* The passes over a text.
MarkupRuns(f, n, m) ==
    /\ f \in [0 .. n -> Norms]
    /\ f[0] = m
    /\ \A k \in 1 .. n : f[k] = MarkupPass(f[k - 1], FALSE)

LEMMA MarkupRunExists ==
  ASSUME NEW m \in Norms, NEW n \in Nat
  PROVE  \E f : MarkupRuns(f, n, m)
<1> DEFINE g == [e \in (1 .. n) \X Norms |-> MarkupPass(e[2], FALSE)]
<1>1. \A z \in Norms : MarkupPass(z, FALSE) \in Norms
  BY PassTakes, Zenon
<1>2. g \in [(1 .. n) \X Norms -> Norms]
  <2>1. \A e \in (1 .. n) \X Norms : MarkupPass(e[2], FALSE) \in Norms
    BY <1>1
  <2> QED
    BY <2>1, Zenon
<1>3. \A k \in 1 .. n, z \in Norms : g[<<k, z>>] = MarkupPass(z, FALSE)
  OBVIOUS
<1> HIDE DEF g
<1>4. PICK f : IteratesTo(f, n, Norms, m, g)
  BY <1>2, IterationExists, Zenon
<1>5. f \in [0 .. n -> Norms] /\ f[0] = m /\ \A k \in 1 .. n : f[k] = g[<<k, f[k - 1]>>]
  BY <1>4 DEF IteratesTo
<1>6. ASSUME NEW k \in 1 .. n PROVE f[k] = MarkupPass(f[k - 1], FALSE)
  <2>1. k - 1 \in 0 .. n
    OBVIOUS
  <2>2. f[k - 1] \in Norms
    BY <1>5, <2>1
  <2> QED
    BY <1>3, <1>5, <2>2
<1> QED
  BY <1>5, <1>6 DEF MarkupRuns

LEMMA PassLess ==
  ASSUME NEW m \in Norms
  PROVE  /\ MarkupPass(m, FALSE) \in Norms
         /\ MarkupPass(m, FALSE) = m \/ Len(MarkupPass(m, FALSE).buffer) < Len(m.buffer)
<1> DEFINE r == MarkupPass(m, FALSE)
           t == m.buffer
           u == r.buffer
<1>1. r \in Norms
  BY PassTakes, Zenon
<1>2. PICK x \in Seq(Marks) : t = x \o u /\ (x = << >> => r = m)
  BY PassTakes, Zenon
<1>3. u \in Seq(Marks)
  BY <1>1, NormIs, Zenon
<1> HIDE DEF r, t, u
<1>4. x # << >> => Len(x) \in Nat /\ Len(x) # 0
  OBVIOUS
<1>5. Len(t) = Len(x) + Len(u) /\ Len(u) \in Nat
  BY <1>2, <1>3, ConcatIs
<1>6. r = m \/ Len(u) < Len(t)
  BY <1>2, <1>4, <1>5
<1> QED
  BY <1>1, <1>6, Zenon DEF r, t, u

LEMMA MarkupRunShrinks ==
  ASSUME NEW m \in Norms, NEW n \in Nat, NEW f, MarkupRuns(f, n, m),
         NEW k \in 0 .. n
  PROVE  MarkupPass(f[k], FALSE) = f[k] \/ Len(f[k].buffer) <= Len(m.buffer) - k
<1> DEFINE Short(j) == MarkupPass(f[j], FALSE) = f[j] \/ Len(f[j].buffer) <= Len(m.buffer) - j
           Bad == {j \in 0 .. n : ~ Short(j)}
<1>1. /\ f \in [0 .. n -> Norms] /\ f[0] = m
      /\ \A j \in 1 .. n : f[j] = MarkupPass(f[j - 1], FALSE)
  BY DEF MarkupRuns
<1>2. SUFFICES ASSUME Bad # {} PROVE FALSE
  BY Zenon
<1>3. Bad \subseteq Nat
  <2>1. \A j \in Bad : j \in 0 .. n
    BY Zenon
  <2> HIDE DEF Bad
  <2> QED
    BY <2>1
<1>4. PICK i \in Bad : \A j \in Bad : i <= j
  BY <1>2, <1>3, LeastExists, Zenon
<1>5. i \in 0 .. n /\ ~ Short(i)
  BY Zenon
<1>6. m.buffer \in Seq(Marks)
  BY NormIs
<1>7. i # 0
  <2>1. Len(m.buffer) <= Len(m.buffer) - 0
    BY <1>6
  <2> QED
    BY <1>1, <1>5, <2>1, Zenon
<1>8. PICK j \in 0 .. n : i = j + 1
  <2>1. i - 1 \in 0 .. n /\ i = (i - 1) + 1
    BY <1>5, <1>7
  <2> QED
    BY <2>1
<1>9. Short(j)
  <2>1. ~ (i <= j)
    BY <1>8
  <2>2. j \notin Bad
    BY <1>4, <2>1, Zenon
  <2> QED
    BY <2>2, Zenon
<1> HIDE DEF Bad
<1>10. i \in 1 .. n /\ i - 1 = j
  BY <1>5, <1>7, <1>8
<1>11. f[i] = MarkupPass(f[j], FALSE)
  BY <1>1, <1>10, Zenon
<1>12. f[j] \in Norms /\ f[i] \in Norms
  BY <1>1, <1>5
<1>13. CASE MarkupPass(f[j], FALSE) = f[j]
  BY <1>5, <1>11, <1>13, Zenon
<1>14. CASE MarkupPass(f[j], FALSE) # f[j]
  <2> DEFINE a == Len(f[i].buffer)
             b == Len(f[j].buffer)
             c == Len(m.buffer)
  <2>1. a < b
    BY <1>11, <1>12, <1>14, PassLess, Zenon
  <2>2. b <= c - j
    BY <1>9, <1>14, Zenon
  <2>3. a \in Nat /\ b \in Nat /\ c \in Nat
    BY <1>6, <1>12, NormIs
  <2> HIDE DEF a, b, c
  <2>4. a <= c - i
    BY <1>8, <2>1, <2>2, <2>3
  <2> QED
    BY <1>5, <2>4, Zenon DEF a, c
<1> QED
  BY <1>13, <1>14, Zenon

SameAt(f, n, k) == f[n] = f[k]

LEMMA MarkupRunSettles ==
  ASSUME NEW m \in Norms, NEW n \in Nat, NEW f, MarkupRuns(f, n, m),
         NEW l \in Nat, Len(m.buffer) <= l, l <= n
  PROVE  SameAt(f, n, l)
<1>1. /\ f \in [0 .. n -> Norms]
      /\ \A j \in 1 .. n : f[j] = MarkupPass(f[j - 1], FALSE)
  BY DEF MarkupRuns
<1>2. m.buffer \in Seq(Marks)
  BY NormIs
<1>3. ASSUME NEW k \in l .. n PROVE MarkupPass(f[k], FALSE) = f[k]
  <2>1. k \in 0 .. n /\ k \in Nat
    OBVIOUS
  <2>2. f[k] \in Norms
    BY <1>1, <2>1
  <2>3. CASE ~ (Len(f[k].buffer) <= Len(m.buffer) - k)
    BY <2>1, <2>3, MarkupRunShrinks, Zenon
  <2>4. CASE Len(f[k].buffer) <= Len(m.buffer) - k
    <3> DEFINE a == Len(f[k].buffer)
               c == Len(m.buffer)
               e == Len(MarkupPass(f[k], FALSE).buffer)
    <3>1. a \in Nat /\ c \in Nat
      BY <1>2, <2>2, NormIs
    <3>2. MarkupPass(f[k], FALSE) \in Norms
      BY <2>2, PassLess, Zenon
    <3>3. MarkupPass(f[k], FALSE) = f[k] \/ e < a
      BY <2>2, PassLess, Zenon
    <3>4. e \in Nat
      <4> DEFINE r == MarkupPass(f[k], FALSE)
      <4>1. r \in Norms
        BY <3>2
      <4> HIDE DEF r
      <4>2. Len(r.buffer) \in Nat
        BY <4>1, NormIs
      <4> QED
        BY <4>2 DEF r
    <3>5. a <= c - k /\ c <= l
      BY <2>4
    <3> HIDE DEF a, c, e
    <3>6. ~ (e < a)
      BY <2>1, <3>1, <3>4, <3>5
    <3> QED
      BY <3>3, <3>6, Zenon
  <2> QED
    BY <2>3, <2>4, Zenon
<1> DEFINE g == [k \in l .. n |-> f[l]]
<1>4. AgreeStepwise(f, g, l, n)
  <2> SUFFICES ASSUME NEW k \in l .. n, k # l => f[k - 1] = g[k - 1] PROVE f[k] = g[k]
    BY DEF AgreeStepwise
  <2>1. CASE k = l
    BY <2>1
  <2>2. CASE k # l
    <3>1. k - 1 \in l .. n /\ k \in 1 .. n
      BY <2>2
    <3>2. f[k] = MarkupPass(f[k - 1], FALSE) /\ MarkupPass(f[k - 1], FALSE) = f[k - 1]
      BY <1>1, <1>3, <3>1, Zenon
    <3>3. f[k - 1] = f[l] /\ g[k] = f[l]
      BY <2>2, <3>1
    <3> QED
      BY <3>2, <3>3, Zenon
  <2> QED
    BY <2>1, <2>2
<1>5. Agree(f, g, l, n)
  <2> HIDE DEF g
  <2> QED
    BY <1>4, OneIteration
<1>6. l \in l .. n /\ n \in l .. n
  OBVIOUS
<1>7. f[n] = g[n] /\ g[n] = f[l]
  BY <1>5, <1>6 DEF Agree
<1> QED
  BY <1>7, Zenon DEF SameAt

LEMMA DrainIs ==
  ASSUME NEW m \in Norms, NEW n \in Nat, Len(m.buffer) <= n,
         NEW f, MarkupRuns(f, n, m)
  PROVE  DrainMarkup(m, FALSE) = f[n]
<1> DEFINE N == Len(m.buffer)
           Body(g) == g = [k \in 0 .. N |-> IF k = 0 THEN m ELSE MarkupPass(g[k - 1], FALSE)]
           c == CHOOSE g : Body(g)
           h == [k \in 0 .. N |-> f[k]]
<1>1. N \in Nat /\ N <= n
  <2>1. m.buffer \in Seq(Marks)
    BY NormIs
  <2> QED
    BY <2>1
<1>2. f[0] = m /\ \A k \in 1 .. n : f[k] = MarkupPass(f[k - 1], FALSE)
  BY DEF MarkupRuns
<1>3. DrainMarkup(m, FALSE) = c[N]
  BY Zenon DEF DrainMarkup
<1> HIDE DEF N
<1>4. Body(h)
  <2>1. ASSUME NEW k \in 0 .. N
        PROVE  f[k] = IF k = 0 THEN m ELSE MarkupPass(h[k - 1], FALSE)
    <3>1. CASE k = 0
      BY <1>2, <3>1
    <3>2. CASE k # 0
      <4>1. k - 1 \in 0 .. N /\ k \in 1 .. n
        BY <1>1, <3>2
      <4>2. h[k - 1] = f[k - 1]
        BY <4>1
      <4> HIDE DEF h
      <4> QED
        BY <1>2, <3>2, <4>1, <4>2, Zenon
    <3> QED
      BY <3>1, <3>2, Zenon
  <2> QED
    BY <2>1, Zenon
<1> HIDE DEF h
<1>5. Body(c)
  BY <1>4, Zenon
<1> HIDE DEF c
<1>6. AgreeStepwise(c, f, 0, N)
  <2> SUFFICES ASSUME NEW k \in 0 .. N, k # 0 => c[k - 1] = f[k - 1] PROVE c[k] = f[k]
    BY DEF AgreeStepwise
  <2>1. c[k] = IF k = 0 THEN m ELSE MarkupPass(c[k - 1], FALSE)
    BY <1>5, Zenon
  <2>2. k # 0 => k \in 1 .. n
    BY <1>1
  <2> QED
    BY <1>2, <2>1, <2>2, Zenon
<1>7. Agree(c, f, 0, N)
  <2>1. 0 \in Nat
    OBVIOUS
  <2> QED
    BY <1>1, <1>6, <2>1, OneIteration, Zenon
<1>8. c[N] = f[N]
  <2>1. N \in 0 .. N
    BY <1>1
  <2> QED
    BY <1>7, <2>1, Zenon DEF Agree
<1>9. f[n] = f[N]
  <2>1. Len(m.buffer) <= N
    BY <1>1 DEF N
  <2>2. SameAt(f, n, N)
    BY <1>1, <2>1, MarkupRunSettles, Zenon
  <2> QED
    BY <2>2 DEF SameAt
<1> QED
  BY <1>3, <1>8, <1>9, Zenon

\* Draining goes on from what the first pass leaves.
LEMMA DrainStep ==
  ASSUME NEW m \in Norms
  PROVE  DrainMarkup(m, FALSE) = DrainMarkup(MarkupPass(m, FALSE), FALSE)
<1> DEFINE r == MarkupPass(m, FALSE)
           N == Len(m.buffer)
<1>1. r \in Norms /\ (r = m \/ Len(r.buffer) < N)
  BY PassLess, Zenon
<1>2. N \in Nat /\ N + 1 \in Nat
  BY NormIs
<1>3. PICK f : MarkupRuns(f, N + 1, m)
  BY <1>2, MarkupRunExists, Zenon
<1>4. /\ f \in [0 .. N + 1 -> Norms] /\ f[0] = m
      /\ \A k \in 1 .. N + 1 : f[k] = MarkupPass(f[k - 1], FALSE)
  BY <1>3, Zenon DEF MarkupRuns
<1> DEFINE g == [k \in 0 .. N |-> f[k + 1]]
<1> HIDE DEF N
<1>5. MarkupRuns(g, N, r)
  <2>1. g \in [0 .. N -> Norms]
    <3>1. \A k \in 0 .. N : k + 1 \in 0 .. N + 1
      BY <1>2
    <3> QED
      BY <1>4, <3>1
  <2>2. g[0] = r
    <3>1. 0 \in 0 .. N /\ 0 + 1 = 1 /\ 1 \in 1 .. N + 1 /\ 1 - 1 = 0
      BY <1>2
    <3>2. g[0] = f[1] /\ f[1] = MarkupPass(f[1 - 1], FALSE)
      BY <1>4, <3>1
    <3> QED
      BY <1>4, <3>1, <3>2, Zenon
  <2>3. ASSUME NEW k \in 1 .. N PROVE g[k] = MarkupPass(g[k - 1], FALSE)
    <3>1. k \in 0 .. N /\ k - 1 \in 0 .. N /\ k + 1 \in 1 .. N + 1
          /\ (k + 1) - 1 = k /\ (k - 1) + 1 = k
      BY <1>2
    <3>2. g[k] = f[k + 1] /\ g[k - 1] = f[k]
      BY <3>1
    <3>3. f[k + 1] = MarkupPass(f[(k + 1) - 1], FALSE)
      BY <1>4, <3>1, Zenon
    <3> HIDE DEF g
    <3> QED
      BY <3>1, <3>2, <3>3, Zenon
  <2> HIDE DEF g, r
  <2> QED
    BY <2>1, <2>2, <2>3, Zenon DEF MarkupRuns
<1>6. g[N] = f[N + 1]
  BY <1>2
<1> HIDE DEF g, r
<1>7. Len(r.buffer) <= N
  <2>1. Len(r.buffer) \in Nat
    BY <1>1, NormIs
  <2> QED
    BY <1>1, <1>2, <2>1 DEF N
<1>8. DrainMarkup(r, FALSE) = g[N]
  BY <1>1, <1>2, <1>5, <1>7, DrainIs, Zenon
<1>9. Len(m.buffer) <= N + 1
  BY <1>2 DEF N
<1>10. DrainMarkup(m, FALSE) = f[N + 1]
  BY <1>2, <1>3, <1>9, DrainIs, Zenon
<1> QED
  BY <1>6, <1>8, <1>10, Zenon DEF r

SameDrain(m, n) == DrainMarkup(m, FALSE) = DrainMarkup(n, FALSE)
Meet(m, n) == MarkupPass(m, FALSE) = MarkupPass(n, FALSE) \/ m = n \/ MarkupPass(n, FALSE) = m
PlainAhead(m, x, y) == m.buffer = x \o y /\ Safe(x \o y, Len(x))

\* Text that opens nothing may be returned ahead of the passes.
LEMMA PlainMayGoFirst ==
  ASSUME NEW m \in Norms, NEW x \in Seq(Marks), NEW y \in Seq(Marks),
         PlainAhead(m, x, y)
  PROVE  SameDrain(Emitted(m, x, y), m)
<1> DEFINE u == x \o y
           e == Emitted(m, x, y)
           n == Len(x)
<1>0. m.buffer = x \o y /\ Safe(x \o y, Len(x))
  BY DEF PlainAhead
<1>1. e \in Norms /\ e.buffer = y /\ u \in Seq(Marks) /\ n \in Nat
  BY EmittedIs
<1>2. Meet(e, m) => SameDrain(e, m)
  <2>1. DrainMarkup(m, FALSE) = DrainMarkup(MarkupPass(m, FALSE), FALSE)
    BY DrainStep, Zenon
  <2>2. DrainMarkup(e, FALSE) = DrainMarkup(MarkupPass(e, FALSE), FALSE)
    BY <1>1, DrainStep, Zenon
  <2> HIDE DEF e
  <2> QED
    BY <2>1, <2>2, Zenon DEF e, Meet, SameDrain
<1>3. ASSUME TokensIn(u) = {} PROVE Meet(e, m)
  <2>1. TokensIn(y) = {}
    BY <1>3, NonePreceded, Zenon
  <2>2. HeldFrom(u) = n + HeldFrom(y) /\ HeldFrom(y) \in 1 .. Len(y) + 1
    BY <1>0, HeldPreceded, Zenon
  <2> DEFINE h == HeldFrom(y)
             g == HeldFrom(u)
  <2>3. h - 1 \in 0 .. Len(y)
    BY <2>2
  <2>4. PICK a \in Seq(Marks), b \in Seq(Marks) : y = a \o b /\ Len(a) = h - 1
    BY <2>3, SplitAt, Zenon
  <2>5. x \o a \in Seq(Marks) /\ Len(x \o a) = n + Len(a) /\ u = (x \o a) \o b
    <3>1. x \o a \in Seq(Marks) /\ Len(x \o a) = n + Len(a)
      OBVIOUS
    <3>2. (x \o a) \o b = x \o (a \o b)
      BY MarksJoin, Zenon
    <3> QED
      BY <2>4, <3>1, <3>2, Zenon
  <2>6. h = Len(a) + 1 /\ g = Len(x \o a) + 1
    <3> HIDE DEF h, g
    <3>1. h \in Nat /\ Len(a) \in Nat /\ g = n + h
      <4>1. Len(y) \in Nat
        OBVIOUS
      <4> QED
        BY <2>2, <4>1 DEF h, g
    <3> QED
      BY <1>1, <2>4, <2>5, <3>1
  <2>7. MarkupPass(e, FALSE) = Emitted(e, a, b)
    <3> HIDE DEF e
    <3> QED
      BY <1>1, <2>1, <2>4, <2>6, PassWithout, Zenon
  <2>8. MarkupPass(m, FALSE) = Emitted(m, x \o a, b)
    BY <1>0, <1>3, <2>5, <2>6, PassWithout, Zenon
  <2>9. Emitted(e, a, b) = Emitted(m, x \o a, b)
    BY EmittedTwice
  <2> QED
    BY <2>7, <2>8, <2>9, Zenon DEF Meet
<1>4. ASSUME TokensIn(u) # {} PROVE Meet(e, m)
  <2>1. PICK k, l : First(u, k, l)
    BY <1>1, <1>4, FirstTokenExists, Zenon
  <2>2. k \in 1 .. Len(u) /\ l \in 1 .. Len(u) /\ TokenAt(u, k, l) /\ Len(u) = n + Len(y)
    BY <2>1 DEF First
  <2>3. n < k
    <3>1. k \notin 1 .. n
      BY <1>0, <2>2, Zenon DEF Safe
    <3> QED
      BY <1>1, <2>2, <3>1
  <2>4. First(y, k - n, l - n)
    BY <2>1, <2>3, FirstPreceded, Zenon
  <2>5. (k - n) - 1 \in 0 .. Len(y)
    <3>1. Len(y) \in Nat
      OBVIOUS
    <3> HIDE DEF n, u
    <3> QED
      BY <1>1, <2>2, <2>3, <3>1
  <2>6. PICK a \in Seq(Marks), b \in Seq(Marks) : y = a \o b /\ Len(a) = (k - n) - 1
    BY <2>5, SplitAt, Zenon
  <2>7. x \o a \in Seq(Marks) /\ Len(x \o a) = n + Len(a) /\ u = (x \o a) \o b
    <3>1. x \o a \in Seq(Marks) /\ Len(x \o a) = n + Len(a)
      OBVIOUS
    <3>2. (x \o a) \o b = x \o (a \o b)
      BY MarksJoin, Zenon
    <3> QED
      BY <2>6, <3>1, <3>2, Zenon
  <2>8. k - n = Len(a) + 1 /\ k = Len(x \o a) + 1
    <3> HIDE DEF n, u
    <3> QED
      BY <1>1, <2>2, <2>3, <2>6, <2>7
  <2>9. CASE x = << >>
    <3>1. y = u
      BY <2>9
    <3>2. e = m
      BY <1>0, <2>9, <3>1, EmittedNothing, Zenon
    <3> QED
      BY <3>2 DEF Meet
  <2>10. CASE x # << >>
    <3>1. x \o a # << >>
      <4>1. n # 0 /\ Len(a) \in Nat
        BY <2>10
      <4>2. Len(x \o a) # 0
        BY <1>1, <2>7, <4>1
      <4> QED
        BY <4>2
    <3>2. MarkupPass(m, FALSE) = Emitted(m, x \o a, b)
      BY <1>0, <2>1, <2>7, <2>8, <3>1, PassBefore, Zenon
    <3>3. CASE a = << >>
      <4>1. x \o a = x /\ b = y
        BY <2>6, <3>3
      <4> QED
        BY <3>2, <4>1, Zenon DEF Meet
    <3>4. CASE a # << >>
      <4>1. MarkupPass(e, FALSE) = Emitted(e, a, b)
        <5> HIDE DEF e
        <5> QED
          BY <1>1, <2>4, <2>6, <2>8, <3>4, PassBefore, Zenon
      <4>2. Emitted(e, a, b) = Emitted(m, x \o a, b)
        BY EmittedTwice
      <4> QED
        BY <3>2, <4>1, <4>2, Zenon DEF Meet
    <3> QED
      BY <3>3, <3>4, Zenon
  <2> QED
    BY <2>9, <2>10, Zenon
<1>5. TokensIn(u) = {} \/ TokensIn(u) # {}
  OBVIOUS
<1>6. SameDrain(e, m)
  <2> HIDE DEF e, u
  <2> QED
    BY <1>2, <1>3, <1>4, <1>5
<1> QED
  BY <1>6

\* A pass may be made before the next text arrives or after.
LEMMA OnePass ==
  ASSUME NEW m \in Norms, NEW y \in Seq(Marks), NoCut(m.buffer, y)
  PROVE  DrainMarkup(Add(MarkupPass(m, FALSE), y), FALSE) = DrainMarkup(Add(m, y), FALSE)
<1> DEFINE t == m.buffer
           p == Add(m, y)
<1>1. t \in Seq(Marks) /\ p \in Norms /\ p.buffer = t \o y
  BY NormIs, AddIs
<1>2. CASE TokensIn(t) # {}
  <2>1. \/ MarkupPass(m, FALSE) = m
        \/ MarkupPass(p, FALSE) = Add(MarkupPass(m, FALSE), y)
    BY <1>2, PassAdds, Zenon
  <2>2. DrainMarkup(p, FALSE) = DrainMarkup(MarkupPass(p, FALSE), FALSE)
    <3> HIDE DEF p
    <3> QED
      BY <1>1, DrainStep, Zenon
  <2> QED
    BY <2>1, <2>2, Zenon
<1>3. CASE TokensIn(t) = {}
  <2> DEFINE h == HeldFrom(t)
  <2>1. h \in 1 .. Len(t) + 1 /\ Safe(t \o y, h - 1)
    BY <1>1, <1>3, HeldIsSafe, Zenon
  <2>2. h - 1 \in 0 .. Len(t) /\ (h - 1) + 1 = h
    <3>1. Len(t) \in Nat
      BY <1>1
    <3> HIDE DEF h, t
    <3> QED
      BY <2>1, <3>1
  <2>3. PICK a \in Seq(Marks), b \in Seq(Marks) : t = a \o b /\ Len(a) = h - 1
    BY <1>1, <2>2, SplitAt, Zenon
  <2>4. MarkupPass(m, FALSE) = Emitted(m, a, b)
    BY <1>3, <2>2, <2>3, PassWithout, Zenon
  <2>5. Add(Emitted(m, a, b), y) = Emitted(p, a, b \o y)
    BY AddEmitted, Zenon
  <2>6. b \o y \in Seq(Marks) /\ t \o y = a \o (b \o y)
    <3>1. (a \o b) \o y = a \o (b \o y)
      BY MarksJoin, Zenon
    <3> QED
      BY <2>3, <3>1
  <2>7. DrainMarkup(Emitted(p, a, b \o y), FALSE) = DrainMarkup(p, FALSE)
    <3>1. Safe(a \o (b \o y), Len(a))
      BY <2>1, <2>3, <2>6, Zenon
    <3>2. p.buffer = a \o (b \o y)
      BY <1>1, <2>6, Zenon
    <3> DEFINE c == b \o y
    <3> HIDE DEF p, c
    <3>3. p \in Norms /\ c \in Seq(Marks) /\ PlainAhead(p, a, c)
      BY <1>1, <2>6, <3>1, <3>2, Zenon DEF c, PlainAhead
    <3>4. SameDrain(Emitted(p, a, c), p)
      BY <3>3, PlainMayGoFirst
    <3> QED
      BY <3>4, Zenon DEF c, SameDrain
  <2> QED
    BY <2>4, <2>5, <2>7, Zenon
<1> QED
  BY <1>2, <1>3, Zenon

\* What passes leave of a text: it goes on with y where the text did, and
\* is drained to the same chunks when y follows.
Leaves(m, y, z) == z \in Norms /\ NoCut(z.buffer, y) /\ SameDrain(Add(z, y), Add(m, y))

LEMMA PassLeaves ==
  ASSUME NEW m \in Norms, NEW y \in Seq(Marks), NEW z, Leaves(m, y, z)
  PROVE  Leaves(m, y, MarkupPass(z, FALSE))
<1> DEFINE r == MarkupPass(z, FALSE)
<1>1. z \in Norms /\ NoCut(z.buffer, y) /\ SameDrain(Add(z, y), Add(m, y))
  BY DEF Leaves
<1>2. SameDrain(Add(r, y), Add(m, y))
  <2>1. DrainMarkup(Add(r, y), FALSE) = DrainMarkup(Add(z, y), FALSE)
    BY <1>1, OnePass, Zenon
  <2> HIDE DEF r
  <2> QED
    BY <1>1, <2>1, Zenon DEF SameDrain
<1>3. r \in Norms
  BY <1>1, PassTakes, Zenon
<1>4. PICK x \in Seq(Marks) : z.buffer = x \o r.buffer
  BY <1>1, PassTakes, Zenon
<1>5. r.buffer \in Seq(Marks)
  <2> HIDE DEF r
  <2> QED
    BY <1>3, NormIs, Zenon
<1>6. NoCut(r.buffer, y)
  <2> DEFINE b == r.buffer
             t == z.buffer
  <2> HIDE DEF b, t
  <2>1. t = x \o b /\ b \in Seq(Marks) /\ NoCut(t, y)
    BY <1>1, <1>4, <1>5 DEF b, t
  <2>2. ASSUME b # << >> PROVE t # << >> /\ t[Len(t)] = b[Len(b)]
    <3>1. Len(t) = Len(x) + Len(b) /\ Len(x) \in Nat /\ Len(b) \in Nat /\ Len(b) # 0
      BY <2>1, <2>2
    <3>2. Len(b) \in 1 .. Len(b)
      BY <3>1
    <3>3. t[Len(x) + Len(b)] = b[Len(b)]
      BY <2>1, <3>2, ConcatIs
    <3>4. Len(t) # 0
      BY <3>1
    <3> QED
      BY <3>1, <3>3, <3>4
  <2>3. NoCut(b, y)
    BY <2>1, <2>2, Zenon DEF NoCut
  <2> QED
    BY <2>3 DEF b
<1> HIDE DEF r
<1> QED
  BY <1>2, <1>3, <1>6 DEF Leaves, r

LEMMA RunLeaves ==
  ASSUME NEW m \in Norms, NEW y \in Seq(Marks), NoCut(m.buffer, y),
         NEW n \in Nat, NEW f, MarkupRuns(f, n, m)
  PROVE  Leaves(m, y, f[n])
<1> DEFINE Bad == {j \in 0 .. n : ~ Leaves(m, y, f[j])}
<1>1. f[0] = m /\ \A j \in 1 .. n : f[j] = MarkupPass(f[j - 1], FALSE)
  BY DEF MarkupRuns
<1>2. ASSUME Bad # {} PROVE FALSE
  <2>1. Bad \subseteq Nat
    <3>1. \A j \in Bad : j \in 0 .. n
      BY Zenon
    <3> HIDE DEF Bad
    <3> QED
      BY <3>1
  <2>2. PICK i \in Bad : \A j \in Bad : i <= j
    BY <1>2, <2>1, LeastExists, Zenon
  <2>3. i \in 0 .. n /\ ~ Leaves(m, y, f[i])
    BY Zenon
  <2>4. i # 0
    <3>1. Leaves(m, y, m)
      BY Zenon DEF Leaves, SameDrain
    <3> QED
      BY <1>1, <2>3, <3>1, Zenon
  <2>5. i - 1 \in 0 .. n /\ i \in 1 .. n /\ ~ (i <= i - 1)
    BY <2>3, <2>4
  <2>6. Leaves(m, y, f[i - 1])
    <3>1. i - 1 \notin Bad
      BY <2>2, <2>5, Zenon
    <3> QED
      BY <2>5, <3>1, Zenon
  <2>7. f[i] = MarkupPass(f[i - 1], FALSE)
    BY <1>1, <2>5, Zenon
  <2>8. Leaves(m, y, MarkupPass(f[i - 1], FALSE))
    BY <2>6, PassLeaves, Zenon
  <2> HIDE DEF Bad
  <2> QED
    BY <2>3, <2>7, <2>8, Zenon
<1>3. n \in 0 .. n
  OBVIOUS
<1> QED
  BY <1>2, <1>3, Zenon

\* What comes of a text does not depend on a cut in it.
LEMMA DrainSplits ==
  ASSUME NEW m \in Norms, NEW y \in Seq(Marks), NoCut(m.buffer, y)
  PROVE  /\ DrainMarkup(m, FALSE) \in Norms
         /\ SameDrain(Add(DrainMarkup(m, FALSE), y), Add(m, y))
<1> DEFINE n == Len(m.buffer)
<1>1. n \in Nat /\ n <= n
  <2>1. m.buffer \in Seq(Marks)
    BY NormIs, Zenon
  <2>2. n \in Nat
    BY <2>1
  <2> HIDE DEF n
  <2> QED
    BY <2>2
<1>2. PICK f : MarkupRuns(f, n, m)
  BY <1>1, MarkupRunExists, Zenon
<1>3. DrainMarkup(m, FALSE) = f[n]
  BY <1>1, <1>2, DrainIs, Zenon
<1>4. Leaves(m, y, f[n])
  <2> HIDE DEF n
  <2> QED
    BY <1>1, <1>2, RunLeaves, Zenon
<1> QED
  BY <1>3, <1>4, Zenon DEF Leaves

LEMMA FreshIs ==
  /\ FreshNormalizer \in Norms /\ FreshNormalizer.buffer = << >>
  /\ \A x \in Seq(Marks) : Add(FreshNormalizer, x).buffer = x
<1>1. FreshNormalizer \in Norms
  <2>1. NoChannel \in Channels /\ << >> \in Seq(Marks) /\ << >> \in Seq(Parts)
    BY DEF Channels
  <2> QED
    BY <2>1 DEF Norms, FreshNormalizer
<1>2. FreshNormalizer.buffer = << >>
  BY DEF FreshNormalizer
<1>3. ASSUME NEW x \in Seq(Marks) PROVE Add(FreshNormalizer, x).buffer = x
  <2>1. << >> \o x = x
    OBVIOUS
  <2>2. Add(FreshNormalizer, x).buffer = FreshNormalizer.buffer \o x
    BY <1>1, AddIs, Zenon
  <2> QED
    BY <1>2, <2>1, <2>2, Zenon
<1> QED
  BY <1>1, <1>2, <1>3

LEMMA FeedIs ==
  ASSUME NEW m, NEW x
  PROVE  Feed(m, x) = DrainMarkup(Add(m, x), FALSE)
BY Zenon DEF Feed, Add

LEMMA FeedNothing == Feed(FreshNormalizer, << >>) = FreshNormalizer
<1> DEFINE m == Add(FreshNormalizer, << >>)
<1>1. << >> \in Seq(Marks) /\ << >> \in Seq(Parts)
  OBVIOUS
<1>2. m \in Norms /\ m.buffer = << >>
  BY <1>1, FreshIs, AddIs, Zenon
<1>3. m = FreshNormalizer
  <2>1. /\ m.channel = FreshNormalizer.channel /\ m.inMessage = FreshNormalizer.inMessage
        /\ m.out = FreshNormalizer.out
    BY <1>1, FreshIs, AddIs, Zenon
  <2> HIDE DEF m
  <2> QED
    BY <1>2, <2>1, FreshIs, NormEqual
<1> HIDE DEF m
<1>4. Len(m.buffer) = 0 /\ 0 \in Nat /\ Len(m.buffer) <= 0
  BY <1>2
<1>5. PICK f : MarkupRuns(f, 0, m)
  BY <1>2, <1>4, MarkupRunExists, Zenon
<1>6. f[0] = m
  BY <1>5, Zenon DEF MarkupRuns
<1>7. DrainMarkup(m, FALSE) = f[0]
  BY <1>2, <1>4, <1>5, DrainIs, Zenon
<1>8. Feed(FreshNormalizer, << >>) = DrainMarkup(m, FALSE)
  BY FeedIs, Zenon DEF m
<1> QED
  BY <1>3, <1>6, <1>7, <1>8, Zenon

\* A text fed in two chunks.
LEMMA FeedTwice ==
  ASSUME NEW x \in Seq(Marks), NEW y \in Seq(Marks), NoCut(x, y)
  PROVE  Feed(Feed(FreshNormalizer, x), y) = Feed(FreshNormalizer, x \o y)
<1> DEFINE n == FreshNormalizer
           m == Add(n, x)
           r == DrainMarkup(m, FALSE)
<1>1. m \in Norms /\ m.buffer = x /\ n \in Norms
  BY FreshIs, AddIs, Zenon
<1>2. SameDrain(Add(r, y), Add(m, y))
  <2> HIDE DEF m
  <2>1. NoCut(m.buffer, y)
    BY <1>1, Zenon
  <2> QED
    BY <1>1, <2>1, DrainSplits, Zenon
<1>3. Add(m, y) = Add(n, x \o y)
  <2> DEFINE u == x \o y
             a == Add(m, y)
             b == Add(n, u)
  <2>1. u \in Seq(Marks)
    OBVIOUS
  <2>2. b \in Norms /\ b.buffer = u
    BY <2>1, FreshIs, AddIs, Zenon
  <2>3. b.channel = n.channel /\ b.inMessage = n.inMessage /\ b.out = n.out
    BY <1>1, <2>1, AddIs, Zenon
  <2>4. m.channel = n.channel /\ m.inMessage = n.inMessage /\ m.out = n.out
    BY <1>1, AddIs, Zenon
  <2> HIDE DEF m
  <2>5. a \in Norms /\ a.buffer = m.buffer \o y
        /\ a.channel = m.channel /\ a.inMessage = m.inMessage /\ a.out = m.out
    BY <1>1, AddIs, Zenon
  <2>6. a.buffer = u
    BY <1>1, <2>5, Zenon
  <2> HIDE DEF a, b, u, n
  <2>7. a = b
    BY <2>2, <2>3, <2>4, <2>5, <2>6, NormEqual
  <2> QED
    BY <2>7 DEF a, b, u, n
<1>4. Feed(n, x) = r /\ Feed(r, y) = DrainMarkup(Add(r, y), FALSE)
      /\ Feed(n, x \o y) = DrainMarkup(Add(n, x \o y), FALSE)
  BY FeedIs, Zenon
<1> HIDE DEF n, m, r
<1>5. Feed(Feed(n, x), y) = Feed(n, x \o y)
  BY <1>2, <1>3, <1>4, Zenon DEF SameDrain
<1> QED
  BY <1>5 DEF n
-----------------------------------------------------------------------------
\* As long as no cut fell between "<" and "|", the normalizer is where the
\* text that has arrived, fed at once, would have brought it.
Arrived == SubSeq(answer_text, 1, fed)
Unsplit ==
    norm = IF flushed THEN FlushMarkup(Feed(FreshNormalizer, answer_text))
           ELSE Feed(FreshNormalizer, Arrived)

MarkupInv ==
    /\ answer_text \in Seq(Marks) /\ fed \in 0 .. Len(answer_text)
    /\ split \in BOOLEAN /\ flushed \in BOOLEAN
    /\ ~ split => Unsplit

LEMMA MarkupInvInit == MarkupInit => MarkupInv
<1> SUFFICES ASSUME MarkupInit PROVE MarkupInv
  OBVIOUS
<1>1. PICK k \in 0 .. MaxBlocks : \E bs \in [1 .. k -> Blocks] : answer_text = FlattenSeq(bs)
  BY DEF MarkupInit
<1>2. PICK bs \in [1 .. k -> Blocks] : answer_text = FlattenSeq(bs)
  BY <1>1
<1>3. bs \in Seq(Seq(Marks))
  <2>1. Blocks \subseteq Seq(Marks)
    BY ChannelMarkupAssumption DEF ChannelMarkupAssumption, Marks
  <2>2. k \in Nat
    BY <1>1, ChannelMarkupAssumption DEF ChannelMarkupAssumption
  <2> QED
    BY <1>2, <2>1, <2>2
<1>4. answer_text \in Seq(Marks)
  <2>1. << >> \in Seq(Marks)
    OBVIOUS
  <2> QED
    BY <1>2, <1>3, <2>1, FlattenGrows, Zenon
<1>5. fed = 0 /\ split = FALSE /\ flushed = FALSE /\ norm = FreshNormalizer
  BY DEF MarkupInit
<1>6. 0 \in 0 .. Len(answer_text) /\ SubSeq(answer_text, 1, 0) = << >>
  BY <1>4
<1>7. Unsplit
  BY <1>5, <1>6, FeedNothing, Zenon DEF Unsplit, Arrived
<1> QED
  BY <1>4, <1>5, <1>6, <1>7 DEF MarkupInv

LEMMA MarkupInvStep == MarkupInv /\ [MarkupNext]_markupVars => MarkupInv'
<1> SUFFICES ASSUME MarkupInv, [MarkupNext]_markupVars PROVE MarkupInv'
  OBVIOUS
<1>1. /\ answer_text \in Seq(Marks) /\ fed \in 0 .. Len(answer_text)
      /\ split \in BOOLEAN /\ flushed \in BOOLEAN /\ (~ split => Unsplit)
  BY DEF MarkupInv
<1>2. ASSUME NEW size \in 1 .. MaxChunk, TextChunk(size) PROVE MarkupInv'
  <2> DEFINE t == answer_text
             x == Arrived
             y == SubSeq(t, fed + 1, fed')
             z == SubSeq(t, 1, fed')
  <2>1. /\ ~ flushed /\ fed' = fed + size /\ fed + size <= Len(t)
        /\ norm' = Feed(norm, y)
        /\ split' = (split \/ (fed > 0 /\ Opens(t, fed)))
        /\ answer_text' = t /\ flushed' = flushed
    BY <1>2 DEF TextChunk
  <2>2. size \in Nat /\ size # 0
    BY ChannelMarkupAssumption DEF ChannelMarkupAssumption
  <2>3. fed' \in fed .. Len(t) /\ fed' \in 0 .. Len(t) /\ fed # fed' /\ Len(t) \in Nat
    BY <1>1, <2>1, <2>2
  <2>4. /\ x \in Seq(Marks) /\ Len(x) = fed /\ \A j \in 1 .. fed : x[j] = t[j]
        /\ y \in Seq(Marks) /\ Len(y) = fed' - fed /\ y[1] = t[fed + 1]
    BY <1>1, <2>1, <2>3 DEF Arrived
  <2>5. x \o y = z
    <3>1. 1 \in 1 .. Len(t) + 1 /\ fed \in 1 - 1 .. Len(t)
      BY <1>1, <2>3
    <3> QED
      BY <1>1, <2>3, <3>1, ConcatAdjacentSubSeq DEF Arrived
  <2>6. ASSUME ~ split' PROVE Unsplit'
    <3>1. ~ split /\ ~ (fed > 0 /\ Opens(t, fed))
      BY <1>1, <2>1, <2>6
    <3>2. norm = Feed(FreshNormalizer, x)
      BY <1>1, <2>1, <3>1, Zenon DEF Unsplit
    <3>3. NoCut(x, y)
      <4> SUFFICES ASSUME x # << >>, y # << >>, x[Len(x)] = Less, y[1] = Bar PROVE FALSE
        BY DEF NoCut
      <4>1. fed > 0 /\ fed < Len(t) /\ fed \in 1 .. fed
        BY <1>1, <2>3, <2>4
      <4>2. t[fed] = Less /\ t[fed + 1] = Bar
        BY <2>4, <4>1
      <4> QED
        BY <3>1, <4>1, <4>2 DEF Opens
    <3> HIDE DEF y
    <3>4. Feed(norm, y) = Feed(FreshNormalizer, z)
      BY <2>4, <2>5, <3>2, <3>3, FeedTwice, Zenon
    <3>5. Arrived' = z
      BY <2>1 DEF Arrived
    <3> HIDE DEF x, z
    <3>6. norm' = Feed(FreshNormalizer, Arrived')
      BY <2>1, <3>4, <3>5, Zenon
    <3> QED
      BY <2>1, <3>6, Zenon DEF Unsplit
  <2> QED
    BY <1>1, <2>1, <2>3, <2>6 DEF MarkupInv
<1>3. ASSUME EndOfStream PROVE MarkupInv'
  <2>1. /\ ~ flushed /\ fed = Len(answer_text) /\ flushed' = TRUE
        /\ norm' = FlushMarkup(norm)
        /\ answer_text' = answer_text /\ fed' = fed /\ split' = split
    BY <1>3 DEF EndOfStream
  <2>2. Arrived = answer_text
    BY <1>1, <2>1 DEF Arrived
  <2>3. ASSUME ~ split' PROVE Unsplit'
    <3>1. norm = Feed(FreshNormalizer, answer_text)
      BY <1>1, <2>1, <2>2, <2>3, Zenon DEF Unsplit
    <3> QED
      BY <2>1, <3>1, Zenon DEF Unsplit
  <2> QED
    BY <1>1, <2>1, <2>3 DEF MarkupInv
<1>4. CASE UNCHANGED markupVars
  BY <1>1, <1>4 DEF MarkupInv, markupVars, Unsplit, Arrived
<1> QED
  BY <1>2, <1>3, <1>4 DEF MarkupNext

LEMMA UnsplitGives == MarkupInv => MarkupSplitSafe
BY Zenon DEF MarkupInv, Unsplit, MarkupSplitSafe

(* The result of a stream does not depend on its chunks: whatever an       *)
(* answer holds, and however many chunks it comes in, what is collected of *)
(* each kind is what the whole text gives when it is fed at once, as long  *)
(* as no chunk ends between "<" and "|" (models/backends/base.py           *)
(* EmbeddedStreamNormalizer).                                              *)
THEOREM MarkupSplitsSafely == MarkupSpec => []MarkupSplitSafe
<1>1. MarkupInit => MarkupInv
  BY MarkupInvInit
<1>2. MarkupInv /\ [MarkupNext]_markupVars => MarkupInv'
  BY MarkupInvStep
<1>3. MarkupInv => MarkupSplitSafe
  BY UnsplitGives
<1> QED
  BY <1>1, <1>2, <1>3, PTL DEF MarkupSpec
=============================================================================
