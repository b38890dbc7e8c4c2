---------------------------- MODULE PreRunProofs ----------------------------
(***************************************************************************)
(* Proofs about PreRun, for any number of invocations, images, files and   *)
(* blocks, and for command lines of any length: the image that is found is *)
(* the runtime's; what runs has been judged; a block that a picture lacks  *)
(* has a writer, who may have been interrupted or have failed; accusations *)
(* need consent; the phase implements Gate; an undisturbed invocation is   *)
(* judged by its own picture; and every invocation is over after finitely  *)
(* many steps.                                                             *)
(***************************************************************************)
EXTENDS PreRun, WellFoundedInduction, SequenceTheorems, TLAPS

-----------------------------------------------------------------------------
(* Every set of numbers has a least one: what Min relies on.                *)
LEMMA LeastNumber ==
  ASSUME NEW S \in SUBSET Nat, S # {}
  PROVE  \E n \in S : \A m \in S : n <= m
<1> DEFINE R == OpToRel(<, Nat)
<1>1. IsWellFoundedOn(R, Nat)
  BY NatLessThanWellFounded
<1>2. PICK n \in S : \A m \in S : ~(<<m, n>> \in R)
  BY <1>1, WFMin
<1>3. \A m \in S : ~(m < n)
  BY <1>2 DEF OpToRel
<1> QED  BY <1>3

LEMMA MinIsLeast ==
  ASSUME NEW S \in SUBSET Nat, S # {}
  PROVE  Min(S) \in S /\ \A n \in S : Min(S) <= n
BY LeastNumber DEF Min

\* Induction over the numbers, for a property given as the set that has it.
LEMMA AllNumbers ==
  ASSUME NEW S, 0 \in S, \A n \in Nat : n \in S => n + 1 \in S
  PROVE  \A n \in Nat : n \in S
<1> SUFFICES ASSUME Nat \ S # {} PROVE FALSE
  OBVIOUS
<1>1. PICK n \in Nat \ S : \A m \in Nat \ S : n <= m
  BY LeastNumber
<1>2. n # 0 /\ n - 1 \in Nat
  BY <1>1
<1>3. n - 1 \in S
  BY <1>1, <1>2
<1> QED  BY <1>1, <1>2, <1>3

-----------------------------------------------------------------------------
\* What the loop of findImageArg does at word j.
Inner(line, from, j) ==
  IF j > Len(line) THEN NoImage
  ELSE IF line[j] \notin Flag THEN line[j]
  ELSE IF line[j] \in TakesValue \ Assigned /\ j < Len(line) THEN from[j + 2]
  ELSE from[j + 1]

\* The recursion in Positional ends: its function is built from the last word back.
LEMMA PositionalIs ==
  ASSUME NEW line \in Seq(DOMAIN TarPath), NEW j \in 1 .. Len(line) + 1
  PROVE  Positional(line)[j] = Inner(line, Positional(line), j)
<1> DEFINE N == Len(line)
           Good == {d \in Nat : d <= N + 1 =>
                      \E g : g = [k \in N + 2 - d .. N + 1 |-> Inner(line, g, k)]}
<1>0. N \in Nat
  OBVIOUS
<1>1. 0 \in Good
  <2> DEFINE g == [k \in N + 2 .. N + 1 |-> NoImage]
  <2>1. N + 2 .. N + 1 = {} /\ N + 2 - 0 = N + 2
    BY <1>0
  <2>2. g = [k \in N + 2 - 0 .. N + 1 |-> Inner(line, g, k)]
    BY <2>1
  <2> QED  BY <2>2
<1>2. ASSUME NEW d \in Nat, d \in Good PROVE d + 1 \in Good
  <2> SUFFICES ASSUME d + 1 <= N + 1
               PROVE  \E g : g = [k \in N + 2 - (d + 1) .. N + 1 |-> Inner(line, g, k)]
    OBVIOUS
  <2>1. PICK g : g = [k \in N + 2 - d .. N + 1 |-> Inner(line, g, k)]
    BY <1>2, <1>0
  <2> DEFINE a == N + 1 - d
             h == [k \in a .. N + 1 |-> Inner(line, g, k)]
  <2>2. a \in 1 .. N + 1 /\ N + 2 - (d + 1) = a /\ N + 2 - d = a + 1
    BY <1>0
  <2>6. \A k \in N + 2 - d .. N + 1 : g[k] = Inner(line, g, k)
    BY <2>1
  <2>7. \A k \in a .. N + 1 : h[k] = Inner(line, g, k)
    OBVIOUS
  <2>3. \A k \in a + 1 .. N + 1 : h[k] = g[k]
    <3> HIDE DEF h, a
    <3> QED  BY <1>0, <2>2, <2>6, <2>7 DEF a
  <2>4. \A k \in a .. N + 1 : Inner(line, g, k) = Inner(line, h, k)
    <3> SUFFICES ASSUME NEW k \in a .. N + 1 PROVE Inner(line, g, k) = Inner(line, h, k)
      OBVIOUS
    <3>1. k + 1 \in a + 1 .. N + 1 \/ k > N
      BY <1>0, <2>2
    <3>2. k < N => k + 2 \in a + 1 .. N + 1
      BY <1>0, <2>2
    <3> QED  BY <2>3, <3>1, <3>2 DEF Inner
  <2>5. h = [k \in a .. N + 1 |-> Inner(line, h, k)]
    BY <2>4
  <2> QED  BY <2>2, <2>5
<1>3. N + 1 \in Good
  BY <1>0, <1>1, <1>2, AllNumbers
<1>4. \E g : g = [k \in 1 .. N + 1 |-> Inner(line, g, k)]
  BY <1>0, <1>3
<1>5. Positional(line) = CHOOSE g : g = [k \in 1 .. N + 1 |-> Inner(line, g, k)]
  BY DEF Positional, Inner
<1>6. Positional(line) = [k \in 1 .. N + 1 |-> Inner(line, Positional(line), k)]
  BY <1>4, <1>5
<1> QED  BY <1>6

\* The flags between the subcommand and the image, and their values, are skipped
\* by findImageArg, too.
LEMMA FoundByRuntime ==
  ASSUME NEW line \in Seq(DOMAIN TarPath), Agreed(line), NEW c \in DOMAIN line,
         NEW k \in c + 1 .. Len(line), IsImage(line, c, k)
  PROVE  Positional(line)[c + 1] = line[k]
<1> DEFINE N == Len(line)
           p == Positional(line)
<1>0. /\ N \in Nat /\ k \in Nat /\ c \in Nat /\ 1 <= c /\ c + 1 <= k /\ k <= N
      /\ \A j \in c + 1 .. k : j \in DOMAIN line
  OBVIOUS
<1>1. PICK flags \in SUBSET (c + 1 .. k - 1) :
        /\ \A j \in flags : line[j] \in Flag
        /\ \A j \in c + 1 .. k :
             j \in flags <=> ~ \/ j = k
                               \/ j - 1 \in flags /\ line[j - 1] \in RunTakesValue \ Assigned
        /\ k - 1 \in flags => line[k - 1] \notin RunTakesValue \ Assigned
  BY DEF IsImage
<1>2. line[k] \notin Flag
  BY DEF IsImage
<1>3. \A j \in c + 1 .. k : line[j] \in TakesValue \ Assigned <=> line[j] \in RunTakesValue \ Assigned
  BY <1>0 DEF Agreed
<1>4. \A j \in c + 1 .. k : p[j] = Inner(line, p, j)
  BY <1>0, PositionalIs
<1> DEFINE Heads == flags \cup {k}
           Bad == {d \in Nat : k - d \in Heads /\ p[k - d] # line[k]}
<1> HIDE DEF N, p
<1>9. \A i \in c .. k - 1 : i \notin flags => i + 1 \in Heads
  <2> SUFFICES ASSUME NEW i \in c .. k - 1, i \notin flags PROVE i + 1 \in Heads
    OBVIOUS
  <2>1. i + 1 \in c + 1 .. k /\ i + 1 - 1 = i
    BY <1>0
  <2> QED  BY <1>1, <2>1
<1>5. Bad = {}
  <2> SUFFICES ASSUME Bad # {} PROVE FALSE
    OBVIOUS
  <2>1. PICK d \in Bad : \A e \in Bad : d <= e
    BY LeastNumber
  <2> DEFINE j == k - d
  <2>2. j \in Heads /\ j \in c + 1 .. k /\ p[j] # line[k] /\ d \in Nat /\ d = k - j
    BY <1>0, <2>1
  <2> HIDE DEF j
  <2>3. \A i \in Heads : j < i => p[i] = line[k]
    <3> SUFFICES ASSUME NEW i \in Heads, j < i, p[i] # line[k] PROVE FALSE
      OBVIOUS
    <3>1. i \in c + 1 .. k
      BY <1>0
    <3>2. k - i \in Nat /\ k - (k - i) = i /\ k - i < d
      BY <1>0, <2>2, <3>1
    <3>3. k - i \in Bad
      BY <3>2, Zenon
    <3>4. d <= k - i
      BY <2>1, <3>3
    <3> QED  BY <2>2, <3>2, <3>4
  <2>4. j # k
    <3> SUFFICES ASSUME j = k PROVE FALSE
      OBVIOUS
    <3>1. p[k] = Inner(line, p, k)
      BY <1>0, <1>4
    <3> QED  BY <1>0, <1>2, <2>2, <3>1 DEF Inner, N
  <2>5. j \in flags /\ line[j] \in Flag /\ j < k /\ j + 1 \in c + 1 .. k
    BY <1>0, <1>1, <2>2, <2>4
  <2>6. p[j] = IF line[j] \in TakesValue \ Assigned THEN p[j + 2] ELSE p[j + 1]
    BY <1>0, <1>4, <2>2, <2>5 DEF Inner, N
  <2>7. CASE line[j] \in TakesValue \ Assigned
    <3>1. line[j] \in RunTakesValue \ Assigned
      BY <1>3, <2>2, <2>7
    <3>2. j # k - 1
      BY <1>1, <2>5, <3>1
    <3>3. j + 1 \notin flags /\ j + 2 \in c + 1 .. k
      <4>1. j + 1 - 1 = j
        BY <2>2
      <4> QED  BY <1>0, <1>1, <2>5, <3>1, <3>2, <4>1
    <3>4. j + 2 \in Heads
      <4>1. j + 1 \in c .. k - 1 /\ j + 1 + 1 = j + 2
        BY <1>0, <2>2, <3>3
      <4> QED  BY <1>9, <3>3, <4>1
    <3>5. j < j + 2
      BY <2>2
    <3>6. p[j + 2] = line[k]
      BY <2>3, <3>4, <3>5, Zenon
    <3> QED  BY <2>2, <2>6, <2>7, <3>6, Zenon
  <2>8. CASE line[j] \notin TakesValue \ Assigned
    <3>1. line[j] \notin RunTakesValue \ Assigned
      BY <1>3, <2>2, <2>8
    <3>2. j + 1 \in Heads
      <4>1. j + 1 - 1 = j
        BY <2>2
      <4> QED  BY <1>1, <2>5, <3>1, <4>1
    <3> QED  BY <2>2, <2>3, <2>6, <2>8, <3>2
  <2> QED  BY <2>7, <2>8
<1>6. c + 1 \in Heads
  <2>1. c \notin flags /\ c \in c .. k - 1
    BY <1>0
  <2> QED  BY <1>9, <2>1
<1>7. PICK d \in Nat : k - d = c + 1
  <2>1. k - (c + 1) \in Nat /\ k - (k - (c + 1)) = c + 1
    BY <1>0
  <2> QED  BY <2>1
<1>8. p[c + 1] = line[k]
  <2>1. k - d \in Heads /\ (p[k - d] = line[k] \/ d \in Bad)
    BY <1>6, <1>7
  <2> QED  BY <1>5, <1>7, <2>1
<1> QED  BY <1>8 DEF p

\* The runtime's reading of what follows the command at c has come to word j: the
\* words before it are flags and the values of flags, and it is no flag's value.
Reached(line, c, j, flags) ==
  /\ flags \subseteq c + 1 .. j - 1
  /\ \A i \in flags : line[i] \in Flag
  /\ \A i \in c + 1 .. j - 1 :
       i \in flags <=> ~(i - 1 \in flags /\ line[i - 1] \in RunTakesValue \ Assigned)
  /\ j - 1 \in flags => line[j - 1] \notin RunTakesValue \ Assigned

\* From there it reads a flag, with its value if it has one ...
LEMMA ReachedBeyond ==
  ASSUME NEW line, NEW c \in Nat, NEW j \in Nat, j >= c + 1, NEW flags, Reached(line, c, j, flags), line[j] \in Flag
  PROVE  /\ line[j] \in RunTakesValue \ Assigned => Reached(line, c, j + 2, flags \cup {j})
         /\ line[j] \notin RunTakesValue \ Assigned => Reached(line, c, j + 1, flags \cup {j})
<1> DEFINE more == flags \cup {j}
           R == RunTakesValue \ Assigned
<1>1. /\ flags \subseteq c + 1 .. j - 1
      /\ \A i \in flags : line[i] \in Flag
      /\ \A i \in c + 1 .. j - 1 : i \in flags <=> ~(i - 1 \in flags /\ line[i - 1] \in R)
      /\ j - 1 \in flags => line[j - 1] \notin R
  BY DEF Reached
<1>2. \A i \in more : line[i] \in Flag
  BY <1>1
<1>3. \A i \in c + 1 .. j : i \in more <=> ~(i - 1 \in more /\ line[i - 1] \in R)
  <2> SUFFICES ASSUME NEW i \in c + 1 .. j
               PROVE  i \in more <=> ~(i - 1 \in more /\ line[i - 1] \in R)
    OBVIOUS
  <2>1. i - 1 # j /\ (i - 1 \in more <=> i - 1 \in flags)
    OBVIOUS
  <2>2. CASE i = j
    BY <1>1, <2>1, <2>2
  <2>3. CASE i # j
    <3>1. i \in c + 1 .. j - 1 /\ (i \in more <=> i \in flags)
      BY <2>3
    <3>2. i \in flags <=> ~(i - 1 \in flags /\ line[i - 1] \in R)
      BY <1>1, <3>1
    <3> QED  BY <2>1, <3>1, <3>2
  <2> QED  BY <2>2, <2>3
<1>4. more \subseteq c + 1 .. j
  BY <1>1
<1>5. j + 1 - 1 = j /\ j + 2 - 1 = j + 1 /\ j + 1 \notin more /\ j \in more
  BY <1>4
<1>6. ASSUME line[j] \in R PROVE Reached(line, c, j + 2, more)
  <2>1. more \subseteq c + 1 .. j + 2 - 1
    BY <1>4
  <2>2. \A i \in c + 1 .. j + 2 - 1 : i \in more <=> ~(i - 1 \in more /\ line[i - 1] \in R)
    <3> SUFFICES ASSUME NEW i \in c + 1 .. j + 2 - 1
                 PROVE  i \in more <=> ~(i - 1 \in more /\ line[i - 1] \in R)
      OBVIOUS
    <3>1. CASE i = j + 1
      <4>1. i - 1 = j
        BY <3>1
      <4> QED  BY <1>5, <1>6, <3>1, <4>1
    <3>2. CASE i # j + 1
      <4>1. i \in c + 1 .. j
        BY <3>2
      <4> QED  BY <1>3, <4>1
    <3> QED  BY <3>1, <3>2
  <2> QED  BY <1>2, <1>5, <2>1, <2>2 DEF Reached
<1>7. ASSUME line[j] \notin R PROVE Reached(line, c, j + 1, more)
  BY <1>2, <1>3, <1>4, <1>5, <1>7 DEF Reached
<1> QED  BY <1>6, <1>7

\* ... or the image.
LEMMA ReachedImage ==
  ASSUME NEW line, NEW c \in Nat, NEW j \in Nat, j >= c + 1, NEW flags, Reached(line, c, j, flags), line[j] \notin Flag
  PROVE  IsImage(line, c, j)
<1> DEFINE R == RunTakesValue \ Assigned
<1>1. /\ flags \subseteq c + 1 .. j - 1
      /\ \A i \in flags : line[i] \in Flag
      /\ \A i \in c + 1 .. j - 1 : i \in flags <=> ~(i - 1 \in flags /\ line[i - 1] \in R)
      /\ j - 1 \in flags => line[j - 1] \notin R
  BY DEF Reached
<1>2. \A i \in c + 1 .. j : i \in flags <=> ~(i = j \/ (i - 1 \in flags /\ line[i - 1] \in R))
  <2> SUFFICES ASSUME NEW i \in c + 1 .. j
               PROVE  i \in flags <=> ~(i = j \/ (i - 1 \in flags /\ line[i - 1] \in R))
    OBVIOUS
  <2>1. CASE i = j
    BY <1>1, <2>1
  <2>2. CASE i # j
    <3>1. i \in c + 1 .. j - 1
      BY <2>2
    <3> QED  BY <1>1, <2>2, <3>1
  <2> QED  BY <2>1, <2>2
<1> QED  BY <1>1, <1>2 DEF IsImage

\* So if findImageArg finds a word after the subcommand, the runtime does.
LEMMA RuntimeFinds ==
  ASSUME NEW line \in Seq(DOMAIN TarPath), Agreed(line), NEW c \in DOMAIN line,
         Positional(line)[c + 1] # NoImage
  PROVE  \E k \in c + 1 .. Len(line) : IsImage(line, c, k)
<1> DEFINE N == Len(line)
           p == Positional(line)
           Good == {d \in Nat : \A j \in c + 1 .. N + 1 : \A flags :
                      N + 1 - j <= d /\ Reached(line, c, j, flags) /\ p[j] # NoImage =>
                        \E k \in c + 1 .. N : IsImage(line, c, k)}
<1>0. N \in Nat /\ c \in Nat /\ 1 <= c /\ c <= N /\ \A j \in c + 1 .. N : j \in DOMAIN line
  OBVIOUS
<1>1. \A j \in c + 1 .. N + 1 : p[j] = Inner(line, p, j)
  BY <1>0, PositionalIs
<1>2. \A j \in c + 1 .. N : line[j] \in TakesValue \ Assigned <=> line[j] \in RunTakesValue \ Assigned
  BY <1>0 DEF Agreed
<1> HIDE DEF p, N
<1>3. 0 \in Good
  <2>1. p[N + 1] = NoImage
    BY <1>0, <1>1 DEF Inner, N
  <2>2. \A j \in c + 1 .. N + 1 : N + 1 - j <= 0 => j = N + 1
    BY <1>0
  <2> QED  BY <2>1, <2>2
<1>4. ASSUME NEW d \in Nat, d \in Good PROVE d + 1 \in Good
  <2> SUFFICES ASSUME NEW j \in c + 1 .. N + 1, NEW flags, N + 1 - j <= d + 1,
                      Reached(line, c, j, flags), p[j] # NoImage
               PROVE  \E k \in c + 1 .. N : IsImage(line, c, k)
    OBVIOUS
  <2>1. j \in c + 1 .. N /\ p[j] = Inner(line, p, j) /\ j \in Nat /\ j >= c + 1
    BY <1>0, <1>1 DEF Inner, N
  <2>2. CASE line[j] \notin Flag
    BY <1>0, <2>1, <2>2, ReachedImage
  <2>3. CASE line[j] \in Flag /\ line[j] \in TakesValue \ Assigned
    <3>1. j < N
      <4> SUFFICES ASSUME j = N PROVE FALSE
        BY <1>0, <2>1
      <4>1. p[j] = p[N + 1] /\ p[N + 1] = NoImage
        BY <1>0, <1>1, <2>1, <2>3 DEF Inner, N
      <4> QED  BY <4>1
    <3>2. p[j] = p[j + 2]
      BY <1>0, <2>1, <2>3, <3>1 DEF Inner, N
    <3>3. Reached(line, c, j + 2, flags \cup {j})
      BY <1>0, <1>2, <2>1, <2>3, ReachedBeyond
    <3>4. j + 2 \in c + 1 .. N + 1 /\ N + 1 - (j + 2) <= d
      BY <1>0, <2>1, <3>1
    <3> QED  BY <1>4, <3>2, <3>3, <3>4
  <2>4. CASE line[j] \in Flag /\ line[j] \notin TakesValue \ Assigned
    <3>2. p[j] = p[j + 1]
      BY <1>0, <2>1, <2>4 DEF Inner, N
    <3>3. Reached(line, c, j + 1, flags \cup {j})
      BY <1>0, <1>2, <2>1, <2>4, ReachedBeyond
    <3>4. j + 1 \in c + 1 .. N + 1 /\ N + 1 - (j + 1) <= d
      BY <1>0, <2>1
    <3> QED  BY <1>4, <3>2, <3>3, <3>4
  <2> QED  BY <2>2, <2>3, <2>4
<1>5. N - c \in Good
  <2> HIDE DEF Good
  <2>1. \A d \in Nat : d \in Good
    BY <1>3, <1>4, AllNumbers
  <2> QED  BY <1>0, <2>1
<1>6. Reached(line, c, c + 1, {})
  BY DEF Reached
<1>7. p[c + 1] # NoImage /\ c + 1 \in c + 1 .. N + 1 /\ N + 1 - (c + 1) <= N - c
  BY <1>0 DEF p
<1>8. \E k \in c + 1 .. N : IsImage(line, c, k)
  BY <1>5, <1>6, <1>7
<1> QED  BY <1>8 DEF N

\* The container's command: if no image comes after the subcommand, none comes
\* after a later word that is the name of one.
LEMMA NoSecondChance ==
  ASSUME ImageArgAssumption, NoImage \notin DOMAIN TarPath,
         NEW line \in Seq(DOMAIN TarPath), NEW c \in DOMAIN line, Positional(line)[c + 1] = NoImage,
         NEW i \in DOMAIN line, c <= i, line[i] \in Subcommands
  PROVE  Positional(line)[i + 1] = NoImage
<1> DEFINE N == Len(line)
           p == Positional(line)
           Skipped(j) == /\ j - 1 \in c + 1 .. N - 1 /\ p[j - 1] = NoImage /\ line[j - 1] \in Flag
                         /\ line[j - 1] \in TakesValue \ Assigned
           Good == {d \in Nat : d + c + 1 <= N + 1 => p[d + c + 1] = NoImage \/ Skipped(d + c + 1)}
<1>0. N \in Nat /\ c \in 1 .. N /\ i \in c .. N /\ \A j \in 1 .. N : line[j] # NoImage
  OBVIOUS
<1>1. \A j \in 1 .. N + 1 : p[j] = Inner(line, p, j)
  BY PositionalIs
<1>2. p[c + 1] = NoImage
  OBVIOUS
<1> HIDE DEF p, N
<1>3. 0 \in Good
  BY <1>2
<1>4. ASSUME NEW d \in Nat, d \in Good PROVE d + 1 \in Good
  <2> DEFINE j == d + c + 1
  <2> SUFFICES ASSUME j + 1 <= N + 1
               PROVE  p[j + 1] = NoImage \/ Skipped(j + 1)
    <3>1. d + 1 + c + 1 = j + 1
      OBVIOUS
    <3> QED  BY <3>1
  <2>1. j \in c + 1 .. N /\ j \in Int /\ c \in Int
    BY <1>0
  <2>2. p[j] = NoImage \/ Skipped(j)
    <3> HIDE DEF Skipped
    <3>1. d + c + 1 <= N + 1
      BY <1>0
    <3> QED  BY <1>4, <3>1
  <2> HIDE DEF j
  <2>3. CASE p[j] = NoImage
    <3>1. line[j] \in Flag
      BY <1>0, <1>1, <2>1, <2>3 DEF Inner, N
    <3>2. CASE line[j] \in TakesValue \ Assigned /\ j < N
      <4>1. j + 1 - 1 = j /\ j \in c + 1 .. N - 1
        BY <1>0, <2>1, <3>2
      <4> QED  BY <2>3, <3>1, <3>2, <4>1
    <3>3. CASE ~(line[j] \in TakesValue \ Assigned /\ j < N)
      <4>1. p[j] = p[j + 1]
        BY <1>0, <1>1, <2>1, <3>1, <3>3 DEF Inner, N
      <4> QED  BY <2>3, <4>1
    <3> QED  BY <3>2, <3>3
  <2>4. CASE Skipped(j)
    <3>1. p[j - 1] = p[j + 1]
      <4>1. j - 1 \in 1 .. N + 1 /\ j - 1 < N /\ j - 1 + 2 = j + 1 /\ ~(j - 1 > N)
        BY <1>0, <2>1, <2>4
      <4>2. p[j - 1] = Inner(line, p, j - 1)
        BY <1>1, <4>1
      <4> QED  BY <2>4, <4>1, <4>2 DEF Inner, N
    <3> QED  BY <2>4, <3>1
  <2> QED  BY <2>2, <2>3, <2>4
<1>5. ASSUME i >= c + 1 PROVE p[i + 1] = NoImage
  <2>1. i - (c + 1) \in Good
    <3> HIDE DEF Good
    <3>1. \A d \in Nat : d \in Good
      BY <1>3, <1>4, AllNumbers
    <3> QED  BY <1>0, <1>5, <3>1
  <2>2. p[i] = NoImage \/ Skipped(i)
    <3>1. i - (c + 1) + c + 1 = i /\ i <= N + 1
      BY <1>0, <1>5
    <3> QED  BY <2>1, <3>1
  <2>3. line[i] \notin Flag
    BY DEF ImageArgAssumption
  <2>4. p[i] # NoImage
    BY <1>0, <1>1, <2>3 DEF Inner, N
  <2>5. i - 1 \in 1 .. N + 1 /\ i - 1 < N /\ i - 1 + 2 = i + 1 /\ ~(i - 1 > N)
    BY <1>0, <1>5
  <2>6. p[i - 1] = Inner(line, p, i - 1)
    BY <1>1, <2>5
  <2> QED  BY <2>2, <2>4, <2>5, <2>6 DEF Inner, N
<1>6. CASE i = c
  BY <1>2, <1>6 DEF p
<1> QED  BY <1>0, <1>5, <1>6 DEF p

\* What both sides make of the words after the subcommand.
LEMMA SameAfter ==
  ASSUME ImageArgAssumption, NoImage \notin DOMAIN TarPath,
         NEW line \in Seq(DOMAIN TarPath), Agreed(line),
         NEW c \in DOMAIN line, line[c] \in {"run", "pull"}, c = CommandAt(line),
         \A j \in 1 .. c - 1 : line[j] \notin Subcommands
  PROVE  /\ RuntimeImage(line) = Positional(line)[c + 1]
         /\ FindImageArg(line) = Positional(line)[c + 1]
<1> DEFINE at == {k \in DOMAIN line : c < k /\ IsImage(line, c, k)}
           words == {i \in DOMAIN line : line[i] \in Subcommands /\ Positional(line)[i + 1] # NoImage}
<1>0. /\ at \subseteq Nat /\ words \subseteq Nat /\ line[c] \in Subcommands
      /\ DOMAIN line = 1 .. Len(line) /\ Len(line) \in Nat /\ c \in Nat
  BY DEF Subcommands
<1>1. RuntimeImage(line) = Positional(line)[c + 1]
  <2>1. CASE at = {}
    <3>1. \A k \in c + 1 .. Len(line) : k \in DOMAIN line /\ c < k
      BY <1>0
    <3>2. Positional(line)[c + 1] = NoImage
      BY <2>1, <3>1, RuntimeFinds
    <3> QED  BY <2>1, <3>2 DEF RuntimeImage
  <2>2. CASE at # {}
    <3>1. Min(at) \in at
      BY <1>0, <2>2, MinIsLeast
    <3>2. Min(at) \in c + 1 .. Len(line)
      BY <1>0, <3>1
    <3>3. Positional(line)[c + 1] = line[Min(at)]
      BY <3>1, <3>2, FoundByRuntime
    <3> QED  BY <2>2, <3>3 DEF RuntimeImage
  <2> QED  BY <2>1, <2>2
<1>2. FindImageArg(line) = Positional(line)[c + 1]
  <2>0. \A i \in DOMAIN line : line[i] \in Subcommands => c <= i
    BY <1>0
  <2>1. CASE Positional(line)[c + 1] = NoImage
    <3>1. words = {}
      BY <2>0, <2>1, NoSecondChance
    <3> QED  BY <2>1, <3>1 DEF FindImageArg
  <2>2. CASE Positional(line)[c + 1] # NoImage
    <3>1. c \in words
      BY <1>0, <2>2
    <3>2. Min(words) = c
      <4>1. Min(words) \in words /\ Min(words) <= c
        BY <1>0, <3>1, MinIsLeast
      <4>2. c <= Min(words) /\ Min(words) \in Nat
        BY <1>0, <2>0, <4>1
      <4> QED  BY <1>0, <4>1, <4>2
    <3>3. FindImageArg(line) = Positional(line)[Min(words) + 1]
      BY <3>1 DEF FindImageArg
    <3> QED  BY <3>2, <3>3
  <2> QED  BY <2>1, <2>2
<1> QED  BY <1>1, <1>2

\* On a line both sides read alike, without a shell in between, they find the same
\* image, or none: whatever stands before the subcommand, and if there is no
\* subcommand, or a build.
LEMMA SameImage ==
  ASSUME ImageArgAssumption, NoImage \notin DOMAIN TarPath,
         NEW line \in Seq(DOMAIN TarPath), Agreed(line)
  PROVE  ImageOf(line) = RuntimeImage(line)
<1> DEFINE subs == {i \in DOMAIN line : line[i] \in Subcommands}
<1>0. subs \subseteq Nat /\ DOMAIN line \subseteq Nat
  OBVIOUS
<1>1. CASE subs = {}
  <2>1. Subcommand(line) = ""
    BY <1>1 DEF Subcommand
  <2>2. \A k \in DOMAIN line : line[k] \notin {"run", "pull"}
    BY <1>1 DEF Subcommands
  <2>3. RuntimeImage(line) = NoImage
    BY <2>2 DEF RuntimeImage
  <2> QED  BY <2>1, <2>3 DEF ImageOf
<1>2. CASE subs # {}
  <2> DEFINE c == Min(subs)
  <2>1. c \in subs /\ \A n \in subs : c <= n
    BY <1>0, <1>2, MinIsLeast
  <2>2. Subcommand(line) = line[c]
    BY <1>2 DEF Subcommand
  <2> HIDE DEF c
  <2>3. \A j \in 1 .. c - 1 : line[j] \notin Subcommands
    <3>1. \A j \in 1 .. c - 1 : j \in DOMAIN line /\ ~(c <= j)
      BY <1>0, <2>1
    <3> QED  BY <2>1, <3>1
  <2>4. c = CommandAt(line)
    BY <2>1, <2>3 DEF Agreed
  <2>5. CASE line[c] \in {"run", "pull"}
    BY <2>1, <2>2, <2>3, <2>4, <2>5, SameAfter DEF ImageOf
  <2>6. CASE line[c] \notin {"run", "pull"}
    BY <2>2, <2>4, <2>6 DEF ImageOf, RuntimeImage
  <2> QED  BY <2>5, <2>6
<1> QED  BY <1>1, <1>2

\* The recursion in FlattenSeq ends, too.
LEMMA FlattenIs ==
  ASSUME NEW W, NEW s \in Seq(Seq(W)), s # <<>>
  PROVE  \E f : /\ FlattenSeq(s) = f[Len(s)]
                /\ f[1] = s[1]
                /\ \A i \in 1 .. Len(s) - 1 : f[i + 1] = f[i] \o s[i + 1]
<1> DEFINE N == Len(s)
           One(f, i) == IF i = 1 THEN s[i] ELSE f[i - 1] \o s[i]
           Good == {d \in Nat : \E f : f = [i \in 1 .. d |-> One(f, i)]}
<1>0. N \in Nat /\ N >= 1
  OBVIOUS
<1> HIDE DEF N
<1>1. 0 \in Good
  <2>1. <<>> = [i \in 1 .. 0 |-> One(<<>>, i)]
    OBVIOUS
  <2> QED  BY <2>1
<1>2. ASSUME NEW d \in Nat, d \in Good PROVE d + 1 \in Good
  <2>1. PICK g : g = [i \in 1 .. d |-> One(g, i)]
    BY <1>2
  <2> DEFINE h == [i \in 1 .. d + 1 |-> One(g, i)]
  <2>2. \A i \in 1 .. d : g[i] = One(g, i)
    BY <2>1
  <2>3. \A i \in 1 .. d : h[i] = g[i]
    BY <2>2
  <2>4. \A i \in 1 .. d + 1 : One(g, i) = One(h, i)
    <3> HIDE DEF h
    <3> QED  BY <2>3
  <2>5. h = [i \in 1 .. d + 1 |-> One(h, i)]
    BY <2>4
  <2> HIDE DEF h, One
  <2> QED  BY <2>5
<1>3. \E f : f = [i \in 1 .. N |-> One(f, i)]
  <2> HIDE DEF Good
  <2>1. N \in Good
    BY <1>0, <1>1, <1>2, AllNumbers
  <2> QED  BY <2>1 DEF Good
<1> DEFINE f == CHOOSE f : f = [i \in 1 .. N |-> One(f, i)]
<1>4. f = [i \in 1 .. N |-> One(f, i)]
  BY <1>3
<1>5. FlattenSeq(s) = f[N]
  BY <1>0 DEF FlattenSeq, N
<1> HIDE DEF f
<1>6. f[1] = s[1]
  BY <1>0, <1>4
<1>7. \A i \in 1 .. N : i # 1 => f[i] = f[i - 1] \o s[i]
  BY <1>4
<1>8. \A i \in 1 .. N - 1 : f[i + 1] = f[i] \o s[i + 1]
  <2> SUFFICES ASSUME NEW i \in 1 .. N - 1 PROVE f[i + 1] = f[i] \o s[i + 1]
    OBVIOUS
  <2> DEFINE j == i + 1
  <2>1. j \in 1 .. N /\ j # 1 /\ j - 1 = i
    BY <1>0
  <2> HIDE DEF j
  <2>2. f[j] = f[j - 1] \o s[j]
    BY <1>7, <2>1
  <2>3. f[j] = f[i] \o s[j]
    BY <2>1, <2>2
  <2> QED  BY <2>3 DEF j
<1> QED  BY <1>5, <1>6, <1>8 DEF N

\* The shell makes a command line of a command line ...
LEMMA ShellLineType ==
  ASSUME NEW W, NEW line \in Seq(W), \A k \in DOMAIN line : Parts[line[k]] \in Seq(W)
  PROVE  ShellLine(line) \in Seq(W)
<1> DEFINE s == [k \in DOMAIN line |-> Parts[line[k]]]
           N == Len(line)
<1>1. s \in Seq(Seq(W)) /\ Len(s) = N /\ N \in Nat
  OBVIOUS
<1>2. CASE s = <<>>
  BY <1>1, <1>2 DEF ShellLine, FlattenSeq
<1>3. CASE s # <<>>
  <2>1. PICK f : /\ FlattenSeq(s) = f[Len(s)]
                 /\ f[1] = s[1]
                 /\ \A i \in 1 .. Len(s) - 1 : f[i + 1] = f[i] \o s[i + 1]
    BY <1>1, <1>3, FlattenIs
  <2> DEFINE Good == {d \in Nat : d + 1 <= N => f[d + 1] \in Seq(W)}
  <2>2. N >= 1 /\ \A i \in 1 .. N : s[i] \in Seq(W)
    BY <1>1, <1>3
  <2> HIDE DEF s, N
  <2>3. 0 \in Good
    BY <2>1, <2>2
  <2>4. ASSUME NEW d \in Nat, d \in Good PROVE d + 1 \in Good
    <3> SUFFICES ASSUME d + 2 <= N PROVE f[d + 2] \in Seq(W)
      OBVIOUS
    <3>1. f[d + 2] = f[d + 1] \o s[d + 2]
      <4>1. d + 1 \in 1 .. Len(s) - 1 /\ d + 1 + 1 = d + 2
        BY <1>1
      <4> QED  BY <2>1, <4>1
    <3>2. f[d + 1] \in Seq(W) /\ s[d + 2] \in Seq(W)
      BY <1>1, <2>2, <2>4
    <3> QED  BY <3>1, <3>2
  <2>5. N - 1 \in Good
    <3> HIDE DEF Good
    <3>1. \A d \in Nat : d \in Good
      BY <2>3, <2>4, AllNumbers
    <3> QED  BY <1>1, <2>2, <3>1
  <2>6. FlattenSeq(s) \in Seq(W)
    BY <1>1, <2>1, <2>5
  <2> QED  BY <2>6 DEF ShellLine, s
<1> QED  BY <1>2, <1>3

\* ... and leaves it as it is if no word has blanks.
LEMMA ShellLineSame ==
  ASSUME NEW W, NEW line \in Seq(W), \A k \in DOMAIN line : Parts[line[k]] = <<line[k]>>
  PROVE  ShellLine(line) = line
<1> DEFINE s == [k \in DOMAIN line |-> Parts[line[k]]]
           N == Len(line)
<1>1. s \in Seq(Seq(W)) /\ Len(s) = N /\ N \in Nat
  <2>1. \A k \in 1 .. N : <<line[k]>> \in Seq(W)
    OBVIOUS
  <2>2. s = [k \in 1 .. N |-> <<line[k]>>]
    OBVIOUS
  <2> HIDE DEF s
  <2> QED  BY <2>1, <2>2
<1>2. CASE s = <<>>
  BY <1>1, <1>2 DEF ShellLine, FlattenSeq
<1>3. CASE s # <<>>
  <2>1. PICK f : /\ FlattenSeq(s) = f[Len(s)]
                 /\ f[1] = s[1]
                 /\ \A i \in 1 .. Len(s) - 1 : f[i + 1] = f[i] \o s[i + 1]
    BY <1>1, <1>3, FlattenIs
  <2> DEFINE Good == {d \in Nat : d + 1 <= N => f[d + 1] = [k \in 1 .. d + 1 |-> line[k]]}
  <2>2. N >= 1 /\ \A i \in 1 .. N : s[i] = <<line[i]>> /\ line[i] \in W
    <3>1. N # 0
      BY <1>1, <1>3
    <3>2. \A i \in 1 .. N : s[i] = <<line[i]>>
      OBVIOUS
    <3>3. \A i \in 1 .. N : line[i] \in W
      OBVIOUS
    <3> QED  BY <1>1, <3>1, <3>2, <3>3
  <2> HIDE DEF s, N
  <2>3. 0 \in Good
    BY <2>1, <2>2
  <2>4. ASSUME NEW d \in Nat, d \in Good PROVE d + 1 \in Good
    <3> SUFFICES ASSUME d + 2 <= N PROVE f[d + 2] = [k \in 1 .. d + 2 |-> line[k]]
      OBVIOUS
    <3> DEFINE t == [k \in 1 .. d + 1 |-> line[k]]
    <3>1. f[d + 2] = t \o <<line[d + 2]>>
      <4>1. d + 1 \in 1 .. Len(s) - 1 /\ d + 1 + 1 = d + 2
        BY <1>1
      <4>2. f[d + 2] = f[d + 1] \o s[d + 2]
        BY <2>1, <4>1
      <4>3. f[d + 1] = t /\ s[d + 2] = <<line[d + 2]>>
        BY <1>1, <2>2, <2>4
      <4> QED  BY <4>2, <4>3
    <3>2. t \in Seq(W) /\ Len(t) = d + 1 /\ \A k \in 1 .. d + 1 : t[k] = line[k]
      <4>1. \A k \in 1 .. d + 1 : line[k] \in W
        BY <1>1, <2>2
      <4> QED  BY <4>1
    <3> HIDE DEF t
    <3>3. <<line[d + 2]>> \in Seq(W)
      BY <1>1, <2>2
    <3>4. t \o <<line[d + 2]>> = [k \in 1 .. d + 2 |-> line[k]]
      BY <3>2, <3>3
    <3> QED  BY <3>1, <3>4
  <2>5. N - 1 \in Good
    <3> HIDE DEF Good
    <3>1. \A d \in Nat : d \in Good
      BY <2>3, <2>4, AllNumbers
    <3> QED  BY <1>1, <2>2, <3>1
  <2>6. FlattenSeq(s) = [k \in 1 .. N |-> line[k]]
    BY <1>1, <2>1, <2>5
  <2>7. line = [k \in 1 .. N |-> line[k]]
    BY DEF N
  <2> QED  BY <2>6, <2>7 DEF ShellLine, s
<1> QED  BY <1>2, <1>3

-----------------------------------------------------------------------------
\* list_files makes a list of names, whatever the tarball.
LEMMA ListFilesType ==
  ASSUME NEW W, NEW tarball \in Seq([name : W, regular : BOOLEAN, bytes : STRING])
  PROVE  ListFiles(tarball) \in Seq(W)
<1> DEFINE N == Len(tarball)
           Listed(f, k) == IF k = 0 THEN <<>>
                           ELSE IF tarball[k].regular /\ tarball[k].name \notin Metadata
                                THEN Append(f[k - 1], tarball[k].name)
                           ELSE f[k - 1]
           Good == {d \in Nat : \E f : f = [k \in 0 .. d |-> Listed(f, k)]}
<1>0. N \in Nat /\ \A k \in 1 .. N : tarball[k].name \in W
  <2>1. \A k \in 1 .. N : tarball[k] \in [name : W, regular : BOOLEAN, bytes : STRING]
    BY Zenon, ElementOfSeq
  <2> QED  BY <2>1
<1> HIDE DEF N
<1>1. 0 \in Good
  <2> DEFINE g == [k \in 0 .. 0 |-> <<>>]
  <2>1. \A k \in 0 .. 0 : k = 0
    OBVIOUS
  <2>2. g = [k \in 0 .. 0 |-> Listed(g, k)]
    BY <2>1, Zenon
  <2> HIDE DEF g, Listed
  <2> QED  BY <2>2
<1>2. ASSUME NEW d \in Nat, d \in Good PROVE d + 1 \in Good
  <2>1. PICK g : g = [k \in 0 .. d |-> Listed(g, k)]
    BY <1>2
  <2> DEFINE h == [k \in 0 .. d + 1 |-> Listed(g, k)]
  <2>2. \A k \in 0 .. d : g[k] = Listed(g, k)
    BY <2>1
  <2>3. \A k \in 0 .. d : h[k] = g[k]
    BY <2>2
  <2>4. \A k \in 0 .. d + 1 : Listed(g, k) = Listed(h, k)
    <3> HIDE DEF h
    <3> QED  BY <2>3
  <2>5. h = [k \in 0 .. d + 1 |-> Listed(h, k)]
    BY <2>4
  <2> HIDE DEF h, Listed
  <2> QED  BY <2>5
<1>3. \E f : f = [k \in 0 .. N |-> Listed(f, k)]
  <2> HIDE DEF Good
  <2>1. N \in Good
    BY <1>0, <1>1, <1>2, AllNumbers
  <2> QED  BY <2>1 DEF Good
<1> DEFINE f == CHOOSE f : f = [k \in 0 .. N |-> Listed(f, k)]
<1>4. f = [k \in 0 .. N |-> Listed(f, k)]
  BY <1>3
<1>5. ListFiles(tarball) = f[N]
  BY DEF ListFiles, N
<1> HIDE DEF f
<1> DEFINE Typed == {d \in Nat : d <= N => f[d] \in Seq(W)}
<1>6. 0 \in Typed
  BY <1>0, <1>4
<1>7. ASSUME NEW d \in Nat, d \in Typed PROVE d + 1 \in Typed
  <2> DEFINE k == d + 1
  <2> SUFFICES ASSUME k <= N PROVE f[k] \in Seq(W)
    OBVIOUS
  <2>1. k \in 1 .. N /\ k \in 0 .. N /\ k # 0 /\ k - 1 = d /\ f[d] \in Seq(W)
    BY <1>0, <1>7
  <2> HIDE DEF k
  <2>2. f[k] = Append(f[k - 1], tarball[k].name) \/ f[k] = f[k - 1]
    BY <1>4, <2>1
  <2>3. Append(f[d], tarball[k].name) \in Seq(W)
    BY <1>0, <2>1
  <2> QED  BY <2>1, <2>2, <2>3
<1>8. N \in Typed
  <2> HIDE DEF Typed
  <2> QED  BY <1>0, <1>6, <1>7, AllNumbers
<1> QED  BY <1>0, <1>5, <1>8

\* What extract finds is in the tarball.
LEMMA ExtractType ==
  ASSUME PreRunAssumption, NEW m \in Image, NEW name
  PROVE  Extract(Contents[m], name) \in Bytes \cup {NoBytes}
<1> DEFINE at == {k \in DOMAIN Contents[m] : Contents[m][k].name = name}
<1>1. DOMAIN Contents[m] \subseteq Nat
  BY DEF PreRunAssumption
<1>2. CASE at = {}
  BY <1>2 DEF Extract
<1>3. CASE at # {}
  <2>1. Min(at) \in DOMAIN Contents[m]
    BY <1>1, <1>3, MinIsLeast
  <2>2. PICK k \in DOMAIN Contents[m] : k = Min(at)
    BY <2>1
  <2>3. Extract(Contents[m], name) = Contents[m][k].bytes
    BY <1>3, <2>2 DEF Extract
  <2>4. Contents[m][k].bytes \in {Contents[m][j].bytes : j \in DOMAIN Contents[m]}
    OBVIOUS
  <2> QED  BY <2>3, <2>4 DEF Bytes
<1> QED  BY <1>2, <1>3

\* The runtime's image, findImageArg's image and the subcommand are words.
LEMMA RuntimeImageType ==
  ASSUME NEW W, NEW line \in Seq(W)
  PROVE  RuntimeImage(line) \in W \cup {NoImage}
<1> DEFINE c == CommandAt(line)
           at == {k \in DOMAIN line : c < k /\ IsImage(line, c, k)}
<1>1. at \subseteq Nat /\ at \subseteq DOMAIN line
  OBVIOUS
<1>2. CASE at = {}
  BY <1>2 DEF RuntimeImage
<1>3. CASE at # {}
  <2>1. Min(at) \in DOMAIN line
    BY <1>1, <1>3, MinIsLeast
  <2>2. line[Min(at)] \in W
    BY <2>1
  <2> QED  BY <1>3, <2>2 DEF RuntimeImage
<1> QED  BY <1>2, <1>3

LEMMA FindImageArgType ==
  ASSUME NEW line \in Seq(DOMAIN TarPath)
  PROVE  FindImageArg(line) \in DOMAIN TarPath \cup {NoImage}
<1> DEFINE N == Len(line)
           p == Positional(line)
           W == DOMAIN TarPath \cup {NoImage}
           Good == {d \in Nat : \A j \in 1 .. N + 1 : N + 1 - j <= d => p[j] \in W}
<1>0. N \in Nat /\ \A j \in 1 .. N : line[j] \in W
  OBVIOUS
<1>1. \A j \in 1 .. N + 1 : p[j] = Inner(line, p, j)
  BY PositionalIs
<1> HIDE DEF p, N
<1>2. 0 \in Good
  <2>1. p[N + 1] \in W
    BY <1>0, <1>1 DEF Inner, N
  <2>2. \A j \in 1 .. N + 1 : N + 1 - j <= 0 => j = N + 1
    BY <1>0
  <2> QED  BY <2>1, <2>2
<1>3. ASSUME NEW d \in Nat, d \in Good PROVE d + 1 \in Good
  <2> SUFFICES ASSUME NEW j \in 1 .. N + 1, N + 1 - j <= d + 1 PROVE p[j] \in W
    OBVIOUS
  <2> HIDE DEF W
  <2>1. CASE j > N
    BY <1>0, <1>1, <2>1 DEF Inner, N, W
  <2>2. CASE j \in 1 .. N
    <3>1. p[j + 1] \in W
      <4>1. j + 1 \in 1 .. N + 1 /\ N + 1 - (j + 1) <= d
        BY <1>0, <2>2
      <4> QED  BY <1>3, <4>1
    <3>2. j < N => p[j + 2] \in W
      <4> SUFFICES ASSUME j < N PROVE p[j + 2] \in W
        OBVIOUS
      <4>1. j + 2 \in 1 .. N + 1 /\ N + 1 - (j + 2) <= d
        BY <1>0, <2>2
      <4> QED  BY <1>3, <4>1
    <3>3. line[j] \in W /\ p[j] = Inner(line, p, j)
      BY <1>0, <1>1, <2>2
    <3> QED  BY <1>0, <2>2, <3>1, <3>2, <3>3 DEF Inner, N, W
  <2> QED  BY <1>0, <2>1, <2>2
<1>4. N \in Good
  <2> HIDE DEF Good
  <2> QED  BY <1>0, <1>2, <1>3, AllNumbers
<1>5. \A j \in 1 .. N + 1 : p[j] \in W
  BY <1>0, <1>4
<1> DEFINE at == {i \in DOMAIN line : line[i] \in Subcommands /\ p[i + 1] # NoImage}
<1>6. CASE at = {}
  BY <1>6 DEF FindImageArg, p
<1>7. CASE at # {}
  <2>1. at \subseteq Nat /\ DOMAIN line = 1 .. N
    BY DEF N
  <2>2. Min(at) \in 1 .. N
    BY <1>7, <2>1, MinIsLeast
  <2>3. p[Min(at) + 1] \in W
    BY <1>0, <1>5, <2>2
  <2> QED  BY <1>7, <2>3 DEF FindImageArg, p
<1> QED  BY <1>6, <1>7

LEMMA SubcommandType ==
  ASSUME NEW W, NEW line \in Seq(W)
  PROVE  Subcommand(line) \in Subcommands \cup {""}
<1> DEFINE at == {i \in DOMAIN line : line[i] \in Subcommands}
<1>1. at \subseteq Nat
  OBVIOUS
<1>2. CASE at = {}
  BY <1>2 DEF Subcommand
<1>3. CASE at # {}
  <2>1. Min(at) \in at
    BY <1>1, <1>3, MinIsLeast
  <2> QED  BY <1>3, <2>1 DEF Subcommand
<1> QED  BY <1>2, <1>3

-----------------------------------------------------------------------------
\* A block is written at its place; what was there before it stays.
LEMMA WrittenIs ==
  ASSUME NEW V, Gap \in V, NEW old \in Seq(V), NEW at \in 1 .. Blocks, Blocks \in Nat,
         Len(old) <= Blocks, NEW bytes \in V
  PROVE  /\ Written(old, at, bytes) \in Seq(V) /\ Len(Written(old, at, bytes)) <= Blocks
         /\ at <= Len(Written(old, at, bytes))
         /\ Len(old) <= Len(Written(old, at, bytes))
         /\ \A k \in 1 .. Len(old) : k # at => Written(old, at, bytes)[k] = old[k]
<1> DEFINE N == IF at > Len(old) THEN at ELSE Len(old)
           w == [k \in 1 .. N |-> IF k = at THEN bytes ELSE IF k <= Len(old) THEN old[k] ELSE Gap]
<1>1. N \in Nat /\ at <= N /\ Len(old) <= N /\ N <= Blocks /\ at \in 1 .. N /\ Len(old) \in Nat
  OBVIOUS
<1>2. Written(old, at, bytes) = w
  BY DEF Written
<1>3. \A k \in 1 .. Len(old) : old[k] \in V
  BY ElementOfSeq
<1> HIDE DEF N
<1>4. \A k \in 1 .. N : w[k] \in V
  BY <1>1, <1>3
<1>5. w \in Seq(V) /\ Len(w) = N
  BY <1>1, <1>4
<1>6. \A k \in 1 .. Len(old) : k \in 1 .. N
  BY <1>1
<1> QED  BY <1>1, <1>2, <1>5, <1>6

\* The pictures that are there, none of them longer than a whole one.
PpmOK ==
  /\ DOMAIN ppm \subseteq Kinds \X Indexes
  /\ \A slot \in DOMAIN ppm : ppm[slot] \in Seq(Bytes \cup {Gap}) /\ Len(ppm[slot]) <= Blocks

LEMMA TruncatedOK ==
  ASSUME PreRunAssumption, PpmOK, NEW slot \in Kinds \X Indexes, ppm' = Truncated(slot)
  PROVE  PpmOK' /\ DOMAIN ppm' = DOMAIN ppm \cup {slot}
<1>1. /\ DOMAIN ppm' = DOMAIN ppm \cup {slot}
      /\ \A s \in DOMAIN ppm' : ppm'[s] = IF s = slot THEN <<>> ELSE ppm[s]
  BY DEF Truncated
<1>2. <<>> \in Seq(Bytes \cup {Gap}) /\ Len(<<>>) <= Blocks
  BY DEF PreRunAssumption
<1> QED  BY <1>1, <1>2 DEF PpmOK

LEMMA WrittenOK ==
  ASSUME PreRunAssumption, PpmOK, NEW slot, NEW at \in 1 .. Blocks, NEW bytes \in Bytes,
         ppm' = [ppm EXCEPT ![slot] = Written(@, at, bytes)]
  PROVE  PpmOK' /\ DOMAIN ppm' = DOMAIN ppm
<1>1. DOMAIN ppm' = DOMAIN ppm /\ Blocks \in Nat
  BY DEF PreRunAssumption
<1>2. ASSUME NEW s \in DOMAIN ppm
      PROVE  ppm'[s] \in Seq(Bytes \cup {Gap}) /\ Len(ppm'[s]) <= Blocks
  <2>1. ppm[s] \in Seq(Bytes \cup {Gap}) /\ Len(ppm[s]) <= Blocks
    BY DEF PpmOK
  <2>2. CASE s = slot
    <3>1. ppm'[s] = Written(ppm[s], at, bytes)
      BY <2>2
    <3> DEFINE V == Bytes \cup {Gap}
    <3>2. Gap \in V /\ bytes \in V /\ ppm[s] \in Seq(V)
      BY <2>1
    <3> HIDE DEF V
    <3>3. Written(ppm[s], at, bytes) \in Seq(V) /\ Len(Written(ppm[s], at, bytes)) <= Blocks
      BY <1>1, <2>1, <3>2, WrittenIs
    <3> QED  BY <3>1, <3>3 DEF V
  <2>3. CASE s # slot
    BY <2>1, <2>3
  <2> QED  BY <2>2, <2>3
<1> QED  BY <1>1, <1>2 DEF PpmOK

\* The files of an image are numbered from 1.
LEMMA FilesType ==
  ASSUME PreRunAssumption, NEW m \in Image
  PROVE  Files[m] \in Seq(STRING)
<1>1. Contents[m] \in Seq([name : STRING, regular : BOOLEAN, bytes : STRING])
  BY DEF PreRunAssumption
<1> QED  BY <1>1, ListFilesType DEF Files

LEMMA IndexesType ==
  ASSUME PreRunAssumption
  PROVE  /\ Indexes \subseteq Nat \ {0}
         /\ \A m \in Image : Files[m] # <<>> => 1 \in Indexes /\ Len(Files[m]) >= 1
<1>1. \A m \in Image : /\ DOMAIN Files[m] \subseteq Nat \ {0}
                       /\ Files[m] # <<>> => 1 \in DOMAIN Files[m] /\ Len(Files[m]) >= 1
  <2> SUFFICES ASSUME NEW m \in Image
               PROVE  /\ DOMAIN Files[m] \subseteq Nat \ {0}
                      /\ Files[m] # <<>> => 1 \in DOMAIN Files[m] /\ Len(Files[m]) >= 1
    OBVIOUS
  <2>1. Files[m] \in Seq(STRING)
    BY FilesType
  <2> QED  BY <2>1
<1> QED  BY <1>1 DEF Indexes

LEMMA RepliesAreAnswers == Replies \subseteq CnnAnswers
BY DEF Replies, CnnAnswers

\* An answer the client can read is about a picture that can be decoded.
LEMMA PictureJudged ==
  ASSUME NEW reply \in Replies, Readable(reply)
  PROVE  FirstPicture \in Decodable
BY DEF Replies, Refusals, Refusal, NoAnswer, Readable

-----------------------------------------------------------------------------
(* The inductive form of TypeOK: an invocation that has got to its image    *)
(* has one, and a picture that is being written is there, and has bytes.    *)
Labels == {"idle", "inspect", "unlink", "save", "list", "encode", "write",
           "predict", "prompt", "proceed", "forward"} \cup Ended

WithImage == {"inspect", "unlink", "save", "list", "encode", "write", "predict",
              "prompt", "proceed"}

Work == [kind : Kinds, owner : Image \cup {NoImage}, next : Nat,
         block : 1 .. Blocks, bytes : Bytes \cup {NoBytes}]

\* Only the writer of a picture, or one that was interrupted, holds bytes.
WorkAt(w, label, pictures) ==
  /\ w.next # 0
  /\ label \notin {"write", "stopped"} => w.bytes = NoBytes /\ w.block = 1
  /\ label = "write" => w.bytes \in Bytes \ {NoBytes} /\ <<w.kind, w.next>> \in pictures

TypeInv ==
  /\ TypeOK
  /\ DOMAIN tar = {TarPath[m] : m \in DOMAIN TarPath}
  /\ DOMAIN answer = Inv
  /\ \A i \in Inv : /\ pc[i] \in WithImage => image[i] \in DOMAIN TarPath
                    /\ WorkAt(work[i], pc[i], DOMAIN ppm)

ArgsOK ==
  /\ sub \in [Inv -> Subcommands \cup {""}]
  /\ image \in [Inv -> DOMAIN TarPath \cup {NoImage}]
  /\ target \in [Inv -> DOMAIN TarPath \cup {NoImage}]
  /\ agreed \in [Inv -> BOOLEAN]

ResultsOK ==
  /\ picture \in [Inv -> Decodable \cup {NoPicture}]
  /\ verdict \in [Inv -> {"", "clean", "malicious"}]
  /\ DOMAIN answer = Inv /\ \A i \in Inv : answer[i] \in CnnAnswers
  /\ consent \in [Inv -> BOOLEAN]

TarOK == /\ tar \in [DOMAIN tar -> Image \cup {NoImage}]
         /\ DOMAIN tar = {TarPath[m] : m \in DOMAIN TarPath}

StoreOK ==
  /\ out \in BOOLEAN /\ local \subseteq Image /\ TarOK /\ PpmOK
  /\ spoilt \subseteq Inv \X (Kinds \X Indexes)

\* TypeInv in parts, of which a step disturbs one or two.
LEMMA TypeParts ==
  TypeInv <=> /\ StoreOK /\ ArgsOK /\ ResultsOK
              /\ pc \in [Inv -> Labels] /\ work \in [Inv -> Work]
              /\ overlapped \in [Inv -> BOOLEAN]
              /\ \A i \in Inv : /\ pc[i] \in WithImage => image[i] \in DOMAIN TarPath
                                /\ WorkAt(work[i], pc[i], DOMAIN ppm)
BY DEF TypeInv, TypeOK, StoreOK, TarOK, PpmOK, ArgsOK, ResultsOK, Labels, Work

LEMMA PartsKept ==
  /\ ArgsOK /\ UNCHANGED argVars => ArgsOK'
  /\ ResultsOK /\ UNCHANGED resultVars => ResultsOK'
  /\ StoreOK /\ UNCHANGED sharedVars => StoreOK'
  /\ TarOK /\ UNCHANGED tar => TarOK'
  /\ PpmOK /\ UNCHANGED ppm => PpmOK'
BY DEF ArgsOK, argVars, ResultsOK, resultVars, StoreOK, sharedVars, fileVars, TarOK, PpmOK

\* A step of i that touches neither arguments nor results.
LEMMA WorkTypes ==
  ASSUME TypeInv, NEW i \in Inv, NEW label \in Labels, NEW w \in Work,
         Goto(i, label), work' = [work EXCEPT ![i] = w],
         UNCHANGED <<argVars, resultVars, overlapped>>,
         StoreOK', DOMAIN ppm \subseteq DOMAIN ppm',
         label \in WithImage => pc[i] \in WithImage,
         WorkAt(w, label, DOMAIN ppm')
  PROVE  TypeInv'
<1>1. pc \in [Inv -> Labels] /\ work \in [Inv -> Work]
  BY TypeParts
<1>2. pc' \in [Inv -> Labels] /\ work' \in [Inv -> Work]
  <2> HIDE DEF Work, Labels
  <2> QED  BY <1>1 DEF Goto
<1>3. \A j \in Inv : /\ pc'[j] \in WithImage => image'[j] \in DOMAIN TarPath
                     /\ WorkAt(work'[j], pc'[j], DOMAIN ppm')
  <2> SUFFICES ASSUME NEW j \in Inv
               PROVE  /\ pc'[j] \in WithImage => image'[j] \in DOMAIN TarPath
                      /\ WorkAt(work'[j], pc'[j], DOMAIN ppm')
    OBVIOUS
  <2>1. image' = image
    BY DEF argVars
  <2>2. CASE j = i
    <3>1. pc'[j] = label /\ work'[j] = w
      BY <1>1, <2>2 DEF Goto
    <3> QED  BY <2>1, <2>2, <3>1 DEF TypeInv
  <2>3. CASE j # i
    <3>1. pc'[j] = pc[j] /\ work'[j] = work[j]
      BY <1>1, <2>3 DEF Goto
    <3>2. WorkAt(work[j], pc[j], DOMAIN ppm)
      BY DEF TypeInv
    <3> QED  BY <2>1, <3>1, <3>2 DEF TypeInv, WorkAt
  <2> QED  BY <2>2, <2>3
<1>4. ArgsOK' /\ ResultsOK' /\ overlapped' \in [Inv -> BOOLEAN]
  BY TypeParts, PartsKept
<1>5. TypeInv' <=> /\ StoreOK' /\ ArgsOK' /\ ResultsOK'
              /\ pc' \in [Inv -> Labels] /\ work' \in [Inv -> Work]
              /\ overlapped' \in [Inv -> BOOLEAN]
              /\ \A j \in Inv : /\ pc'[j] \in WithImage => image'[j] \in DOMAIN TarPath
                                /\ WorkAt(work'[j], pc'[j], DOMAIN ppm')
  BY DEF TypeInv, TypeOK, StoreOK, TarOK, PpmOK, ArgsOK, ResultsOK, Labels, Work
<1> QED  BY <1>2, <1>3, <1>4, <1>5
\* A step of i that is about its results, or starts the runtime.
LEMMA ResultTypes ==
  ASSUME TypeInv, NEW i \in Inv, NEW label \in Labels, Goto(i, label),
         UNCHANGED <<out, tar, fileVars, argVars, work, overlapped>>,
         local' \subseteq Image,
         label \in WithImage => pc[i] \in WithImage, label # "write",
         label = "stopped" \/ pc[i] \notin {"write", "stopped"},
         ResultsOK'
  PROVE  TypeInv'
<1>1. pc \in [Inv -> Labels] /\ work \in [Inv -> Work]
  BY TypeParts
<1>2. pc' \in [Inv -> Labels] /\ work' \in [Inv -> Work]
  <2> HIDE DEF Work, Labels
  <2> QED  BY <1>1 DEF Goto
<1>3. \A j \in Inv : /\ pc'[j] \in WithImage => image'[j] \in DOMAIN TarPath
                     /\ WorkAt(work'[j], pc'[j], DOMAIN ppm')
  <2> SUFFICES ASSUME NEW j \in Inv
               PROVE  /\ pc'[j] \in WithImage => image'[j] \in DOMAIN TarPath
                      /\ WorkAt(work'[j], pc'[j], DOMAIN ppm')
    OBVIOUS
  <2>1. image' = image /\ work' = work /\ ppm' = ppm
    BY DEF argVars, fileVars
  <2>2. pc'[j] = IF j = i THEN label ELSE pc[j]
    BY <1>1 DEF Goto
  <2>3. WorkAt(work[j], pc[j], DOMAIN ppm)
    BY DEF TypeInv
  <2> QED  BY <2>1, <2>2, <2>3 DEF TypeInv, WorkAt
<1>4. ArgsOK' /\ StoreOK' /\ overlapped' \in [Inv -> BOOLEAN]
  <2>1. StoreOK /\ overlapped \in [Inv -> BOOLEAN] /\ ArgsOK'
    BY TypeParts, PartsKept
  <2> QED  BY <2>1, PartsKept DEF StoreOK, fileVars
<1>5. TypeInv' <=> /\ StoreOK' /\ ArgsOK' /\ ResultsOK'
              /\ pc' \in [Inv -> Labels] /\ work' \in [Inv -> Work]
              /\ overlapped' \in [Inv -> BOOLEAN]
              /\ \A j \in Inv : /\ pc'[j] \in WithImage => image'[j] \in DOMAIN TarPath
                                /\ WorkAt(work'[j], pc'[j], DOMAIN ppm')
  BY DEF TypeInv, TypeOK, StoreOK, TarOK, PpmOK, ArgsOK, ResultsOK, Labels, Work
<1> QED  BY <1>2, <1>3, <1>4, <1>5

LEMMA LaunchTypes ==
  ASSUME PreRunAssumption, TypeInv, NEW i \in Inv, NEW line \in Lines[i], Launch(i, line)
  PROVE  TypeInv'
<1> DEFINE Words == DOMAIN TarPath
<1>1. line \in Seq(Words) /\ \A k \in DOMAIN line : Parts[line[k]] \in Seq(Words)
  BY DEF PreRunAssumption
<1>2. /\ Subcommand(line) \in Subcommands \cup {""}
      /\ ImageOf(line) \in Words \cup {NoImage}
      /\ RuntimeImage(ShellLine(line)) \in Words \cup {NoImage}
      /\ Agreed(line) \in BOOLEAN
  <2>1. ShellLine(line) \in Seq(Words)
    BY <1>1, ShellLineType
  <2>2. Agreed(line) \in BOOLEAN
    BY DEF Agreed
  <2>3. ImageOf(line) \in Words \cup {NoImage}
    BY <1>1, FindImageArgType DEF ImageOf
  <2> QED  BY <1>1, <2>1, <2>2, <2>3, SubcommandType, RuntimeImageType
<1>3. PICK label \in {"inspect", "forward"} :
        /\ pc' = [pc EXCEPT ![i] = label]
        /\ label = "inspect" => ImageOf(line) # NoImage
  BY DEF Launch, Goto
<1>4. /\ sub' = [sub EXCEPT ![i] = Subcommand(line)]
      /\ image' = [image EXCEPT ![i] = ImageOf(line)]
      /\ target' = [target EXCEPT ![i] = RuntimeImage(ShellLine(line))]
      /\ agreed' = [agreed EXCEPT ![i] = Agreed(line)]
      /\ overlapped' \in [Inv -> BOOLEAN]
      /\ UNCHANGED <<sharedVars, resultVars, work>> /\ pc[i] = "idle"
  <2>1. overlapped' = [j \in Inv |-> overlapped[j] \/ (Active # {} /\ j \in Active \cup {i})]
    BY DEF Launch
  <2>2. \A j \in Inv : (overlapped[j] \/ (Active # {} /\ j \in Active \cup {i})) \in BOOLEAN
    OBVIOUS
  <2>3. overlapped' \in [Inv -> BOOLEAN]
    BY <2>1, <2>2, Zenon
  <2> QED  BY <2>3 DEF Launch
<1>5. pc \in [Inv -> Labels] /\ work \in [Inv -> Work] /\ ArgsOK
  BY TypeParts
<1>6. ArgsOK'
  <2> HIDE DEF Words
  <2>1. Words = DOMAIN TarPath
    BY DEF Words
  <2> QED  BY <1>2, <1>4, <1>5, <2>1 DEF ArgsOK
<1>7. \A j \in Inv : /\ pc'[j] \in WithImage => image'[j] \in Words
                     /\ WorkAt(work'[j], pc'[j], DOMAIN ppm')
  <2>1. /\ DOMAIN pc = Inv /\ DOMAIN image = Inv /\ work' = work /\ ppm' = ppm
        /\ "forward" \notin WithImage
    BY <1>4, <1>5 DEF ArgsOK, WithImage, sharedVars, fileVars
  <2>2. /\ pc'[i] = label /\ image'[i] = ImageOf(line)
        /\ \A j \in Inv \ {i} : pc'[j] = pc[j] /\ image'[j] = image[j]
    BY <1>3, <1>4, <2>1
  <2>3. \A j \in Inv : /\ pc[j] \in WithImage => image[j] \in Words
                       /\ WorkAt(work[j], pc[j], DOMAIN ppm)
    BY DEF TypeInv
  <2>4. WorkAt(work[i], label, DOMAIN ppm)
    BY <1>4, <2>3 DEF WorkAt
  <2> HIDE DEF Words
  <2> QED  BY <1>2, <1>3, <2>1, <2>2, <2>3, <2>4
<1>8. StoreOK' /\ ResultsOK' /\ pc' \in [Inv -> Labels] /\ work' \in [Inv -> Work]
  <2>1. "inspect" \in Labels /\ "forward" \in Labels
    BY DEF Labels
  <2>2. pc' \in [Inv -> Labels]
    BY <1>3, <1>5, <2>1
  <2> QED  BY <1>4, <1>5, <2>2, TypeParts, PartsKept
<1>9. TypeInv' <=> /\ StoreOK' /\ ArgsOK' /\ ResultsOK'
              /\ pc' \in [Inv -> Labels] /\ work' \in [Inv -> Work]
              /\ overlapped' \in [Inv -> BOOLEAN]
              /\ \A j \in Inv : /\ pc'[j] \in WithImage => image'[j] \in DOMAIN TarPath
                                /\ WorkAt(work'[j], pc'[j], DOMAIN ppm')
  BY DEF TypeInv, TypeOK, StoreOK, TarOK, PpmOK, ArgsOK, ResultsOK, Labels, Work
<1> QED  BY <1>4, <1>6, <1>7, <1>8, <1>9

\* A step that leaves the work of i alone does so as a change to the same.
LEMMA SameWork ==
  ASSUME TypeInv, NEW i \in Inv, pc[i] \notin {"write", "stopped"}
  PROVE  /\ work[i] \in Work /\ work = [work EXCEPT ![i] = work[i]]
         /\ \A label \in Labels \ {"write"} : WorkAt(work[i], label, DOMAIN ppm)
<1>1. work \in [Inv -> Work]
  BY TypeParts
<1>2. WorkAt(work[i], pc[i], DOMAIN ppm)
  BY DEF TypeInv
<1> HIDE DEF Work
<1> QED  BY <1>1, <1>2 DEF WorkAt

LEMMA FetchTypes ==
  ASSUME TypeInv, NEW i \in Inv, EnsureLocal(i) \/ Unlink(i) \/ Save(i) \/ List(i)
  PROVE  TypeInv'
<1>0. StoreOK /\ TarOK /\ work[i] \in Work /\ local \subseteq Image
  BY TypeParts, SameWork DEF StoreOK
<1>1. CASE EnsureLocal(i)
  <2>1. /\ pc[i] = "inspect" /\ Goto(i, "unlink") /\ local' \subseteq Image /\ work' = work
        /\ UNCHANGED <<out, tar, fileVars, argVars, resultVars, overlapped>>
    BY <1>0, <1>1 DEF EnsureLocal
  <2>2. StoreOK'
    BY <1>0, <2>1, PartsKept DEF StoreOK, fileVars
  <2>3. "unlink" \in Labels \ {"write"} /\ "inspect" \in WithImage
    BY DEF Labels, WithImage
  <2> QED  BY <2>1, <2>2, <2>3, SameWork, WorkTypes DEF fileVars
<1>2. CASE Unlink(i) \/ Save(i)
  <2>1. PICK label \in {"save", "list"} : Goto(i, label)
    BY <1>2 DEF Unlink, Save
  <2>2. /\ pc[i] \in {"unlink", "save"} /\ work' = work
        /\ UNCHANGED <<out, local, fileVars, argVars, resultVars, overlapped>>
        /\ \/ UNCHANGED tar
           \/ \E path : \E m \in Image \cup {NoImage} : tar' = [tar EXCEPT ![path] = m]
    BY <1>0, <1>2 DEF Unlink, Save
  <2>3. TarOK'
    <3>1. CASE UNCHANGED tar
      BY <1>0, <3>1, PartsKept
    <3>2. CASE \E path : \E m \in Image \cup {NoImage} : tar' = [tar EXCEPT ![path] = m]
      BY <1>0, <3>2 DEF TarOK
    <3> QED  BY <2>2, <3>1, <3>2
  <2>4. StoreOK'
    BY <1>0, <2>2, <2>3, PartsKept DEF StoreOK, fileVars
  <2>5. label \in Labels \ {"write"} /\ pc[i] \in WithImage
    BY <2>2 DEF Labels, WithImage
  <2> QED  BY <2>1, <2>2, <2>4, <2>5, SameWork, WorkTypes DEF fileVars
<1>4. CASE List(i)
  <2> DEFINE w == [work[i] EXCEPT !.owner = tar[TarPath[image[i]]], !.next = 1]
  <2>1. /\ pc[i] = "list" /\ Goto(i, "encode")
        /\ UNCHANGED <<sharedVars, argVars, resultVars, overlapped>>
        /\ work' = [work EXCEPT ![i] = w]
    BY <1>4 DEF List
  <2>2. tar[TarPath[image[i]]] \in Image \cup {NoImage}
    <3>1. TarPath[image[i]] \in DOMAIN tar
      BY <2>1 DEF TypeInv, WithImage
    <3> QED  BY <1>0, <3>1 DEF TarOK
  <2>3. /\ w \in Work /\ w.next = 1 /\ w.bytes = work[i].bytes /\ w.block = work[i].block
    BY <1>0, <2>2 DEF Work
  <2>4. WorkAt(work[i], "list", DOMAIN ppm)
    BY <2>1 DEF TypeInv
  <2>5. WorkAt(w, "encode", DOMAIN ppm)
    <3> HIDE DEF w
    <3> QED  BY <2>3, <2>4 DEF WorkAt
  <2>6. StoreOK' /\ ppm' = ppm /\ "encode" \in Labels /\ "list" \in WithImage
    BY <1>0, <2>1, PartsKept DEF Labels, WithImage, sharedVars, fileVars
  <2> HIDE DEF w
  <2> QED  BY <2>1, <2>3, <2>5, <2>6, WorkTypes
<1> QED  BY <1>1, <1>2, <1>4

\* What becomes of the work when a file is done with.
Next1(w) == [w EXCEPT !.next = @ + 1, !.block = 1, !.bytes = NoBytes]

LEMMA NextFileIs ==
  ASSUME PreRunAssumption, TypeInv, NEW i \in Inv, NextFile(i)
  PROVE  /\ Next1(work[i]) \in Work /\ work' = [work EXCEPT ![i] = Next1(work[i])]
         /\ WorkAt(Next1(work[i]), "encode", DOMAIN ppm)
         /\ Next1(work[i]).kind = work[i].kind /\ Next1(work[i]).owner = work[i].owner
         /\ Next1(work[i]).next = work[i].next + 1
<1>1. work[i] \in Work /\ 1 \in 1 .. Blocks
  BY TypeParts DEF PreRunAssumption
<1>2. work[i].next + 1 \in Nat /\ work[i].next + 1 # 0
  BY <1>1 DEF Work
<1>3. Next1(work[i]) \in Work /\ Next1(work[i]).next = work[i].next + 1
      /\ Next1(work[i]).bytes = NoBytes /\ Next1(work[i]).block = 1
      /\ Next1(work[i]).kind = work[i].kind /\ Next1(work[i]).owner = work[i].owner
  BY <1>1, <1>2 DEF Work, Next1
<1>4. work' = [work EXCEPT ![i] = Next1(work[i])]
  BY DEF NextFile, Next1
<1> QED  BY <1>2, <1>3, <1>4 DEF WorkAt

\* The picture at hand is one of the image's files, and so is a byte string of it.
LEMMA AtHand ==
  ASSUME PreRunAssumption, TypeInv, NEW i \in Inv, pc[i] = "encode", FilesLeft(i)
  PROVE  /\ Slot(i) \in Kinds \X Indexes
         /\ Extracted(i) \in Bytes \cup {NoBytes}
<1>1. work[i] \in Work /\ work[i].next # 0 /\ TarOK
  BY TypeParts DEF WorkAt, StoreOK
<1>2. work[i].owner \in Image /\ work[i].next \in 1 .. Len(Files[work[i].owner])
  BY <1>1 DEF FilesLeft, Work
<1>3. work[i].next \in Indexes
  BY <1>2, FilesType DEF Indexes
<1>4. Slot(i) \in Kinds \X Indexes
  BY <1>1, <1>3 DEF Slot, Work
<1>5. TarPath[image[i]] \in DOMAIN tar
  BY DEF TypeInv, WithImage
<1>6. tar[TarPath[image[i]]] \in Image \cup {NoImage}
  BY <1>1, <1>5 DEF TarOK
<1> QED  BY <1>4, <1>6, ExtractType DEF Extracted

LEMMA EncodeTypes ==
  ASSUME PreRunAssumption, TypeInv, NEW i \in Inv,
         \/ SkipFile(i) \/ OpenPicture(i) \/ OpenFails(i)
         \/ WriteBlock(i) \/ WriteFails(i) \/ NextEncoder(i)
  PROVE  TypeInv'
<1>0. /\ work[i] \in Work /\ pc \in [Inv -> Labels] /\ StoreOK /\ PpmOK /\ TarOK
      /\ WorkAt(work[i], pc[i], DOMAIN ppm)
      /\ "encode" \in Labels /\ {"encode", "write"} \subseteq WithImage
  BY TypeParts DEF StoreOK, Labels, WithImage
<1>1. CASE SkipFile(i)
  <2>1. /\ pc[i] = "encode" /\ NextFile(i)
        /\ UNCHANGED <<sharedVars, pc, argVars, resultVars, overlapped>>
    BY <1>1 DEF SkipFile
  <2>2. Goto(i, "encode")
    BY <1>0, <2>1 DEF Goto
  <2>3. StoreOK' /\ ppm' = ppm
    BY <1>0, <2>1, PartsKept DEF sharedVars, fileVars
  <2> QED  BY <1>0, <2>1, <2>2, <2>3, NextFileIs, WorkTypes
<1>2. CASE OpenPicture(i)
  <2> DEFINE w == [work[i] EXCEPT !.bytes = Extracted(i)]
  <2>1. /\ pc[i] = "encode" /\ FilesLeft(i) /\ Extracted(i) # NoBytes /\ Goto(i, "write")
        /\ work' = [work EXCEPT ![i] = w] /\ ppm' = Truncated(Slot(i))
        /\ UNCHANGED <<out, local, tar, spoilt, argVars, resultVars, overlapped>>
    BY <1>2 DEF OpenPicture
  <2>2. Extracted(i) \in Bytes \ {NoBytes} /\ Slot(i) \in Kinds \X Indexes
    BY <2>1, AtHand
  <2>3. /\ w \in Work /\ w.bytes = Extracted(i) /\ <<w.kind, w.next>> = Slot(i)
        /\ w.next = work[i].next
    BY <1>0, <2>2 DEF Work, Slot
  <2>4. PpmOK' /\ DOMAIN ppm' = DOMAIN ppm \cup {Slot(i)}
    BY <1>0, <2>1, <2>2, TruncatedOK
  <2>5. StoreOK'
    BY <1>0, <2>1, <2>4, PartsKept DEF StoreOK
  <2> HIDE DEF w
  <2>6. WorkAt(w, "write", DOMAIN ppm')
    BY <1>0, <2>2, <2>3, <2>4 DEF WorkAt
  <2>7. "write" \in Labels
    BY DEF Labels
  <2> QED  BY <1>0, <2>1, <2>3, <2>4, <2>5, <2>6, <2>7, WorkTypes
<1>3. CASE OpenFails(i) \/ WriteFails(i)
  <2>1. /\ pc[i] \in {"encode", "write"} /\ NextFile(i) /\ Spoil(i) /\ Goto(i, "encode")
        /\ UNCHANGED <<out, local, tar, ppm, argVars, resultVars, overlapped>>
    BY <1>0, <1>3 DEF OpenFails, WriteFails, Goto
  <2>2. Slot(i) \in Kinds \X Indexes
    <3>1. CASE pc[i] = "encode"
      BY <1>3, <3>1, AtHand DEF OpenFails, WriteFails
    <3>2. CASE pc[i] = "write"
      BY <1>0, <3>2 DEF WorkAt, Slot, PpmOK
    <3> QED  BY <2>1, <3>1, <3>2
  <2>3. spoilt' \subseteq Inv \X (Kinds \X Indexes)
    BY <1>0, <2>1, <2>2 DEF Spoil, StoreOK
  <2>4. StoreOK'
    BY <1>0, <2>1, <2>3, PartsKept DEF StoreOK
  <2> QED  BY <1>0, <2>1, <2>4, NextFileIs, WorkTypes
<1>4. CASE WriteBlock(i)
  <2>1. /\ pc[i] = "write"
        /\ ppm' = [ppm EXCEPT ![Slot(i)] = Written(@, work[i].block, work[i].bytes)]
        /\ UNCHANGED <<out, local, tar, spoilt, argVars, resultVars, overlapped>>
    BY <1>4 DEF WriteBlock
  <2>2. work[i].bytes \in Bytes \ {NoBytes} /\ work[i].block \in 1 .. Blocks
    BY <1>0, <2>1 DEF WorkAt, Work
  <2>3. PpmOK' /\ DOMAIN ppm' = DOMAIN ppm
    BY <1>0, <2>1, <2>2, WrittenOK
  <2>4. StoreOK'
    BY <1>0, <2>1, <2>3, PartsKept DEF StoreOK
  <2>5. CASE work[i].block < Blocks
    <3> DEFINE w == [work[i] EXCEPT !.block = @ + 1]
    <3>1. work' = [work EXCEPT ![i] = w] /\ pc' = pc
      BY <1>4, <2>5 DEF WriteBlock
    <3>2. work[i].block + 1 \in 1 .. Blocks
      BY <2>2, <2>5 DEF PreRunAssumption
    <3>3. w \in Work /\ w.kind = work[i].kind /\ w.next = work[i].next /\ w.bytes = work[i].bytes
      BY <1>0, <3>2 DEF Work
    <3>4. Goto(i, "write") /\ "write" \in Labels
      BY <1>0, <2>1, <3>1 DEF Goto, Labels
    <3> HIDE DEF w
    <3>5. WorkAt(w, "write", DOMAIN ppm')
      BY <1>0, <2>1, <2>3, <3>3 DEF WorkAt
    <3> QED  BY <1>0, <2>1, <2>3, <2>4, <3>1, <3>3, <3>4, <3>5, WorkTypes
  <2>6. CASE ~(work[i].block < Blocks)
    <3>1. NextFile(i) /\ Goto(i, "encode")
      BY <1>4, <2>6 DEF WriteBlock
    <3> QED  BY <1>0, <2>1, <2>3, <2>4, <3>1, NextFileIs, WorkTypes
  <2> QED  BY <2>5, <2>6
<1>5. CASE NextEncoder(i)
  <2> DEFINE second == [work[i] EXCEPT !.kind = "hilbert"]
  <2>1. /\ pc[i] = "encode"
        /\ UNCHANGED <<sharedVars, argVars, resultVars, overlapped>>
        /\ \/ work' = [work EXCEPT ![i] = second] /\ Goto(i, "list")
           \/ work' = [work EXCEPT ![i] = Idle] /\ Goto(i, "predict")
    BY <1>5 DEF NextEncoder
  <2>2. StoreOK' /\ ppm' = ppm /\ "list" \in Labels /\ "predict" \in Labels
    BY <1>0, <2>1, PartsKept DEF Labels, sharedVars, fileVars
  <2>3. second \in Work /\ WorkAt(second, "list", DOMAIN ppm)
    <3>1. second \in Work /\ second.next = work[i].next /\ second.bytes = work[i].bytes
          /\ second.block = work[i].block
      BY <1>0 DEF Kinds, Work
    <3> HIDE DEF second
    <3> QED  BY <1>0, <2>1, <3>1 DEF WorkAt
  <2>4. Idle \in Work /\ WorkAt(Idle, "predict", DOMAIN ppm)
    BY DEF Idle, Kinds, Work, WorkAt, PreRunAssumption
  <2> HIDE DEF second
  <2>5. CASE work' = [work EXCEPT ![i] = second] /\ Goto(i, "list")
    BY <1>0, <2>1, <2>2, <2>3, <2>5, WorkTypes
  <2>6. CASE work' = [work EXCEPT ![i] = Idle] /\ Goto(i, "predict")
    BY <1>0, <2>1, <2>2, <2>4, <2>6, WorkTypes
  <2> QED  BY <2>1, <2>5, <2>6
<1> QED  BY <1>1, <1>2, <1>3, <1>4, <1>5

LEMMA VerdictTypes ==
  ASSUME TypeInv, NEW i \in Inv,
         \/ \E reply \in Replies : Predict(i, reply)
         \/ \E yes \in BOOLEAN : Prompt(i, yes)
  PROVE  TypeInv'
<1>0. local \subseteq Image /\ ResultsOK
  BY TypeParts DEF StoreOK
<1>1. ASSUME NEW reply \in Replies, Predict(i, reply) PROVE TypeInv'
  <2>1. PICK label \in {"prompt", "proceed"} : Goto(i, label)
    BY <1>1 DEF Predict
  <2>2. /\ pc[i] = "predict" /\ consent' = consent
        /\ UNCHANGED <<sharedVars, argVars, work, overlapped>>
        /\ answer' = [answer EXCEPT ![i] = reply]
        /\ picture' = [picture EXCEPT ![i] = IF Readable(reply) THEN FirstPicture ELSE picture[i]]
        /\ verdict' = [verdict EXCEPT ![i] = IF CnnOutcome(reply) = "failed" THEN "clean"
                                             ELSE CnnOutcome(reply)]
    BY <1>1 DEF Predict
  <2>3. CnnOutcome(reply) \in {"failed", "clean", "malicious"}
    BY DEF CnnOutcome
  <2>4. Readable(reply) => FirstPicture \in Decodable
    BY PictureJudged
  <2>5. ResultsOK'
    BY <1>0, <2>2, <2>3, <2>4, RepliesAreAnswers DEF ResultsOK
  <2> QED  BY <1>0, <2>1, <2>2, <2>5, ResultTypes DEF Labels, WithImage, sharedVars
<1>2. ASSUME NEW yes \in BOOLEAN, Prompt(i, yes) PROVE TypeInv'
  <2>1. PICK label \in {"proceed", "aborted"} : Goto(i, label)
    BY <1>2 DEF Prompt
  <2>2. /\ pc[i] = "prompt" /\ consent' = [consent EXCEPT ![i] = yes]
        /\ UNCHANGED <<sharedVars, argVars, picture, verdict, answer, work, overlapped>>
    BY <1>2 DEF Prompt
  <2>3. ResultsOK'
    BY <1>0, <2>2 DEF ResultsOK
  <2> QED  BY <1>0, <2>1, <2>2, <2>3, ResultTypes DEF Labels, WithImage, Ended, sharedVars
<1> QED  BY <1>1, <1>2

LEMMA StepTypes ==
  ASSUME PreRunAssumption, TypeInv, NEW i \in Inv, Step(i)
  PROVE  TypeInv'
<1>0. local \subseteq Image /\ ResultsOK
  BY TypeParts DEF StoreOK
<1>1. CASE \E line \in Lines[i] : Launch(i, line)
  BY <1>1, LaunchTypes
<1>2. CASE EnsureLocal(i) \/ Unlink(i) \/ Save(i) \/ List(i)
  BY <1>2, FetchTypes
<1>3. CASE \/ SkipFile(i) \/ OpenPicture(i) \/ OpenFails(i)
           \/ WriteBlock(i) \/ WriteFails(i) \/ NextEncoder(i)
  BY <1>3, EncodeTypes
<1>4. CASE \/ \E reply \in Replies : Predict(i, reply)
           \/ \E yes \in BOOLEAN : Prompt(i, yes)
  BY <1>4, VerdictTypes
<1>5. CASE Fork(i) \/ Forward(i)
  <2>1. PICK label \in {"running", "forwarded"} : Goto(i, label)
    BY <1>5 DEF Fork, Forward
  <2>2. /\ local' \subseteq Image /\ pc[i] \in {"proceed", "forward"}
        /\ UNCHANGED <<out, tar, fileVars, argVars, resultVars, work, overlapped>>
    BY <1>0, <1>5 DEF Fork, Forward, RuntimeStarts
  <2>3. ResultsOK'
    BY <1>0, <2>2, PartsKept
  <2> QED  BY <2>1, <2>2, <2>3, ResultTypes DEF Labels, WithImage, Ended
<1>6. CASE Stops(i) \/ NoRuntime(i)
  <2>1. PICK label \in {"stopped", "unsupported"} : Goto(i, label)
        /\ (label = "stopped" \/ pc[i] \notin {"write", "stopped"})
    BY <1>6 DEF Stops, NoRuntime
  <2>2. UNCHANGED <<sharedVars, argVars, resultVars, work, overlapped>>
    BY <1>6 DEF Stops, NoRuntime
  <2>3. ResultsOK'
    BY <1>0, <2>2, PartsKept
  <2> QED  BY <1>0, <2>1, <2>2, <2>3, ResultTypes DEF Labels, WithImage, Ended, sharedVars
<1> QED  BY <1>1, <1>2, <1>3, <1>4, <1>5, <1>6 DEF Step

\* What the invariants of this module rest on.
LEMMA TypeInvHolds == Spec => []TypeInv
<1>1. Init => TypeInv
  <2> SUFFICES ASSUME Init PROVE TypeInv
    OBVIOUS
  <2>1. Idle \in Work /\ WorkAt(Idle, "idle", {})
    BY PreRunAssumption DEF Idle, Kinds, Work, WorkAt, PreRunAssumption
  <2>2. NoAnswer \in CnnAnswers
    BY DEF CnnAnswers
  <2>3. \A i \in Inv : pc[i] = "idle" /\ work[i] = Idle
    BY DEF Init
  <2>4. TarOK
    BY DEF Init, TarOK
  <2>5. ResultsOK
    BY <2>2 DEF Init, ResultsOK
  <2>6. ArgsOK
    BY DEF Init, ArgsOK
  <2>7. PpmOK /\ DOMAIN ppm = {}
    <3>1. DOMAIN <<>> = {}
      OBVIOUS
    <3> QED  BY <3>1 DEF Init, PpmOK
  <2>8. StoreOK
    BY <2>4, <2>7 DEF StoreOK, Init
  <2>9. pc \in [Inv -> Labels] /\ work \in [Inv -> Work] /\ overlapped \in [Inv -> BOOLEAN]
    <3>1. "idle" \in Labels
      BY DEF Labels
    <3> HIDE DEF Labels, Work
    <3> QED  BY <2>1, <3>1 DEF Init
  <2>10. \A i \in Inv : /\ pc[i] \in WithImage => image[i] \in DOMAIN TarPath
                        /\ WorkAt(work[i], pc[i], DOMAIN ppm)
    BY <2>1, <2>3, <2>7 DEF WithImage
  <2> QED  BY <2>5, <2>6, <2>8, <2>9, <2>10, TypeParts
<1>2. TypeInv /\ [Next]_vars => TypeInv'
  <2>1. ASSUME TypeInv, Next PROVE TypeInv'
    BY <2>1, StepTypes, PreRunAssumption DEF Next
  <2>2. ASSUME TypeInv, UNCHANGED vars PROVE TypeInv'
    BY <2>2 DEF vars, sharedVars, fileVars, argVars, resultVars, TypeInv, TypeOK
  <2> QED  BY <2>1, <2>2
<1> QED  BY <1>1, <1>2, PTL DEF Spec

(* Type correctness for every command line, image, tarball and number of    *)
(* invocations: what main hands from one tool to the next is what the next  *)
(* one takes.                                                               *)
THEOREM Typing == Spec => []TypeOK
<1>1. TypeInv => TypeOK
  BY DEF TypeInv
<1> QED  BY <1>1, TypeInvHolds, PTL

-----------------------------------------------------------------------------
(* Where ImageFound comes from, and what an invocation that has not begun   *)
(* owes: nothing.                                                           *)
FoundInv ==
  /\ ImageFound
  /\ \A i \in Inv : pc[i] = "idle" => target[i] = NoImage

LEMMA LaunchFinds ==
  ASSUME PreRunAssumption, ImageArgAssumption, NEW i \in Inv, NEW line \in Lines[i]
  PROVE  Agreed(line) => ImageOf(line) = RuntimeImage(ShellLine(line))
<1>1. NoImage \notin DOMAIN TarPath /\ line \in Seq(DOMAIN TarPath)
  BY DEF PreRunAssumption
<1> SUFFICES ASSUME Agreed(line) PROVE ImageOf(line) = RuntimeImage(ShellLine(line))
  OBVIOUS
<1>2. ShellLine(line) = line
  BY <1>1, ShellLineSame DEF Agreed
<1> QED  BY <1>1, <1>2, SameImage

\* No other step has to do with the command line, or goes back to the start.
LEMMA ArgsStay ==
  ASSUME NEW i \in Inv, Step(i), ~(\E line \in Lines[i] : Launch(i, line))
  PROVE  /\ UNCHANGED argVars
         /\ pc' = pc \/ \E label : label # "idle" /\ pc' = [pc EXCEPT ![i] = label]
<1> USE DEF Goto
<1>1. CASE NoRuntime(i) \/ EnsureLocal(i) \/ Unlink(i) \/ Save(i) \/ List(i)
  BY <1>1 DEF NoRuntime, EnsureLocal, Unlink, Save, List
<1>2. CASE SkipFile(i) \/ OpenPicture(i) \/ OpenFails(i)
  BY <1>2 DEF SkipFile, OpenPicture, OpenFails
<1>3. CASE WriteBlock(i) \/ WriteFails(i) \/ NextEncoder(i)
  BY <1>3 DEF WriteBlock, WriteFails, NextEncoder
<1>4. CASE \/ \E reply \in Replies : Predict(i, reply)
           \/ \E yes \in BOOLEAN : Prompt(i, yes)
  BY <1>4 DEF Predict, Prompt
<1>5. CASE Fork(i) \/ Forward(i) \/ Stops(i)
  BY <1>5 DEF Fork, Forward, Stops
<1> QED  BY <1>1, <1>2, <1>3, <1>4, <1>5 DEF Step

LEMMA FoundHolds == Spec => []FoundInv
<1>1. Init => FoundInv
  BY DEF Init, FoundInv, ImageFound
<1>2. TypeInv /\ FoundInv /\ [Next]_vars => FoundInv'
  <2>1. ASSUME TypeInv, FoundInv, NEW i \in Inv, NEW line \in Lines[i], Launch(i, line)
        PROVE  FoundInv'
    <3>1. Agreed(line) => ImageOf(line) = RuntimeImage(ShellLine(line))
      BY PreRunAssumption, ImageArgAssumption, LaunchFinds
    <3>2. /\ image' = [image EXCEPT ![i] = ImageOf(line)]
          /\ target' = [target EXCEPT ![i] = RuntimeImage(ShellLine(line))]
          /\ agreed' = [agreed EXCEPT ![i] = Agreed(line)]
          /\ \E label \in {"inspect", "forward"} : pc' = [pc EXCEPT ![i] = label]
      BY <2>1 DEF Launch, Goto
    <3> QED  BY <2>1, <3>1, <3>2 DEF FoundInv, ImageFound, TypeInv, TypeOK
  <2>2. ASSUME TypeInv, FoundInv, NEW i \in Inv, Step(i),
               ~(\E line \in Lines[i] : Launch(i, line))
        PROVE  FoundInv'
    <3>1. UNCHANGED argVars
      BY <2>2, ArgsStay
    <3>2. \A j \in Inv : pc'[j] = "idle" => pc[j] = "idle"
      BY <2>2, ArgsStay DEF TypeInv, TypeOK
    <3> QED  BY <2>2, <3>1, <3>2 DEF argVars, FoundInv, ImageFound
  <2>3. ASSUME FoundInv, UNCHANGED vars PROVE FoundInv'
    BY <2>3 DEF vars, argVars, FoundInv, ImageFound
  <2> QED  BY <2>1, <2>2, <2>3 DEF Next
<1> QED  BY <1>1, <1>2, TypeInvHolds, PTL DEF Spec

(* findImageArg finds the runtime's image on every command line, however    *)
(* long and whatever stands before the subcommand, that both sides read     *)
(* alike; and none where there is none.                                     *)
THEOREM Finding == Spec => []ImageFound
<1>1. FoundInv => ImageFound
  BY DEF FoundInv
<1> QED  BY <1>1, FoundHolds, PTL

-----------------------------------------------------------------------------
Shape ==
  /\ DOMAIN pc = Inv /\ DOMAIN image = Inv
  /\ DOMAIN verdict = Inv /\ DOMAIN consent = Inv

\* The user or the API has let invocation i pass.
Passed(i) == verdict[i] = "clean" \/ (verdict[i] = "malicious" /\ consent[i])

(* Where each step of the pipeline may be reached from: with ImageFound,    *)
(* the inductive form of RunsOnlyJudged.                                    *)
PassInv ==
  /\ Shape
  /\ \A i \in Inv :
       /\ pc[i] = "forward" => image[i] = NoImage
       /\ pc[i] = "prompt" => verdict[i] = "malicious"
       /\ pc[i] = "proceed" => Passed(i)
       /\ pc[i] \in {"running", "forwarded"} /\ image[i] # NoImage => Passed(i)

\* A step of i that leaves the arguments alone, and the verdict unless it is the
\* step that gives it, only has to justify where it goes.
LEMMA Moves ==
  ASSUME PassInv, NEW i \in Inv, NEW label,
         Goto(i, label), image' = image, verdict' = verdict, consent' = consent,
         label # "forward",
         label = "prompt" => verdict[i] = "malicious",
         label = "proceed" => Passed(i),
         label \in {"running", "forwarded"} /\ image[i] # NoImage => Passed(i)
  PROVE  PassInv'
BY DEF PassInv, Shape, Passed, Goto

LEMMA LaunchPasses ==
  ASSUME PassInv, NEW i \in Inv, NEW line \in Lines[i], Launch(i, line)
  PROVE  PassInv'
<1>1. image' = [image EXCEPT ![i] = ImageOf(line)] /\ verdict' = verdict /\ consent' = consent
  BY DEF Launch, resultVars
<1>2. pc' = [pc EXCEPT ![i] = IF ImageOf(line) # NoImage THEN "inspect" ELSE "forward"]
  BY DEF Launch, Goto
<1> QED  BY <1>1, <1>2 DEF PassInv, Shape, Passed

LEMMA VerdictPasses ==
  ASSUME PassInv, NEW i \in Inv,
         \/ \E reply \in Replies : Predict(i, reply)
         \/ \E yes \in BOOLEAN : Prompt(i, yes)
  PROVE  PassInv'
<1>1. ASSUME NEW reply \in Replies, Predict(i, reply)
      PROVE  PassInv'
  <2> DEFINE word == IF CnnOutcome(reply) = "failed" THEN "clean" ELSE CnnOutcome(reply)
  <2>1. /\ verdict' = [verdict EXCEPT ![i] = word]
        /\ pc' = [pc EXCEPT ![i] = IF CnnOutcome(reply) = "malicious"
                                   THEN "prompt" ELSE "proceed"]
        /\ image' = image /\ consent' = consent
    BY <1>1 DEF Predict, Goto, argVars
  <2>2. CnnOutcome(reply) \in {"failed", "clean", "malicious"}
    BY DEF CnnOutcome
  <2> QED  BY <2>1, <2>2 DEF PassInv, Shape, Passed
<1>2. ASSUME NEW yes \in BOOLEAN, Prompt(i, yes)
      PROVE  PassInv'
  <2>1. /\ pc[i] = "prompt"
        /\ consent' = [consent EXCEPT ![i] = yes]
        /\ pc' = [pc EXCEPT ![i] = IF yes THEN "proceed" ELSE "aborted"]
        /\ image' = image /\ verdict' = verdict
    BY <1>2 DEF Prompt, Goto, argVars
  <2> QED  BY <2>1 DEF PassInv, Shape, Passed
<1> QED  BY <1>1, <1>2

LEMMA StepPasses ==
  ASSUME PassInv, NEW i \in Inv, Step(i)
  PROVE  PassInv'
<1> USE DEF argVars, resultVars
<1>1. CASE \E line \in Lines[i] : Launch(i, line)
  BY <1>1, LaunchPasses
<1>2. CASE EnsureLocal(i)
  BY <1>2, Moves DEF EnsureLocal
<1>3. CASE Unlink(i) \/ Save(i) \/ List(i)
  BY <1>3, Moves DEF Unlink, Save, List
<1>4. CASE SkipFile(i) \/ OpenFails(i)
  BY <1>4 DEF SkipFile, OpenFails, PassInv, Shape, Passed
<1>5. CASE OpenPicture(i) \/ WriteFails(i)
  BY <1>5, Moves DEF OpenPicture, WriteFails
<1>6. CASE NextEncoder(i) \/ WriteBlock(i)
  <2>1. /\ pc' = pc \/ Goto(i, "encode") \/ Goto(i, "list") \/ Goto(i, "predict")
        /\ UNCHANGED <<argVars, resultVars>>
    BY <1>6 DEF NextEncoder, WriteBlock
  <2>2. CASE pc' = pc
    BY <2>1, <2>2 DEF PassInv, Shape, Passed
  <2> QED  BY <2>1, <2>2, Moves
<1>7. CASE \/ \E reply \in Replies : Predict(i, reply)
           \/ \E yes \in BOOLEAN : Prompt(i, yes)
  BY <1>7, VerdictPasses
<1>8. CASE Fork(i)
  <2>1. pc[i] = "proceed" /\ Goto(i, "running") /\ UNCHANGED <<argVars, resultVars>>
    BY <1>8 DEF Fork
  <2> QED  BY <2>1, Moves DEF PassInv
<1>9. CASE Forward(i)
  <2>1. pc[i] \in {"forward", "proceed"} /\ Goto(i, "forwarded")
        /\ UNCHANGED <<argVars, resultVars>>
    BY <1>9 DEF Forward
  <2> QED  BY <2>1, Moves DEF PassInv
<1>10. CASE Stops(i) \/ NoRuntime(i)
  BY <1>10, Moves DEF Stops, NoRuntime
<1> QED  BY <1>1, <1>2, <1>3, <1>4, <1>5, <1>6, <1>7, <1>8, <1>9, <1>10 DEF Step

(* On a line both sides read alike, the runtime is given an image to run or *)
(* to pull only if that very image was judged, and accused ones only with   *)
(* the user's consent, whatever the invocations beside it do.               *)
THEOREM Passing == Spec => []RunsOnlyJudged
<1>1. Init => PassInv
  BY DEF Init, PassInv, Shape, Passed
<1>2. PassInv /\ [Next]_vars => PassInv'
  <2>1. ASSUME PassInv, Next PROVE PassInv'
    BY <2>1, StepPasses DEF Next
  <2>2. ASSUME PassInv, UNCHANGED vars PROVE PassInv'
    BY <2>2 DEF vars, argVars, resultVars, PassInv, Shape, Passed
  <2> QED  BY <2>1, <2>2
<1>3. PassInv /\ ImageFound => RunsOnlyJudged
  BY DEF PassInv, ImageFound, RunsOnlyJudged, Passed
<1> QED  BY <1>1, <1>2, <1>3, Finding, PTL DEF Spec

-----------------------------------------------------------------------------
\* Somebody is about to write block k of the picture, was interrupted before, or
\* could not.
WriterOf(i, slot, k) ==
  \/ <<i, slot>> \in spoilt
  \/ work[i].bytes # NoBytes /\ Slot(i) = slot /\ work[i].block <= k

\* A step that touches no picture and takes no work away that is in progress.
LEMMA WritersStay ==
  ASSUME LackHasWriter, ppm' = ppm, spoilt \subseteq spoilt',
         \A j \in Inv : work[j].bytes # NoBytes => work'[j] = work[j]
  PROVE  LackHasWriter'
<1> SUFFICES ASSUME NEW slot \in DOMAIN ppm, NEW k \in Lacks(slot)
             PROVE  \E j \in Inv : WriterOf(j, slot, k)'
  BY DEF LackHasWriter, Lacks, WriterOf
<1>1. PICK j \in Inv : WriterOf(j, slot, k)
  BY DEF LackHasWriter, WriterOf
<1> QED  BY <1>1 DEF WriterOf, Slot

\* Opened, the picture lacks every block, and all of them are to come.
LEMMA OpenKeeps ==
  ASSUME PreRunAssumption, TypeInv, LackHasWriter, NEW i \in Inv, OpenPicture(i)
  PROVE  LackHasWriter'
<1>1. /\ pc[i] = "encode" /\ Extracted(i) # NoBytes /\ ppm' = Truncated(Slot(i))
      /\ work' = [work EXCEPT ![i].bytes = Extracted(i)] /\ spoilt' = spoilt
  BY DEF OpenPicture
<1>2. work[i] \in Work /\ work[i].bytes = NoBytes /\ work[i].block = 1 /\ DOMAIN work = Inv
  <2>1. WorkAt(work[i], pc[i], DOMAIN ppm)
    BY DEF TypeInv
  <2> QED  BY <1>1, <2>1, TypeParts DEF WorkAt
<1>3. /\ work'[i].bytes # NoBytes /\ Slot(i)' = Slot(i) /\ work'[i].block = 1
      /\ \A j \in Inv \ {i} : work'[j] = work[j]
  BY <1>1, <1>2 DEF Slot, Work
<1> SUFFICES ASSUME NEW slot \in DOMAIN ppm', NEW k \in 1 .. Blocks,
                    k > Len(ppm'[slot]) \/ ppm'[slot][k] = Gap
             PROVE  \E j \in Inv : WriterOf(j, slot, k)'
  BY DEF LackHasWriter, Lacks, WriterOf
<1>4. CASE slot = Slot(i)
  BY <1>3, <1>4 DEF WriterOf, PreRunAssumption
<1>5. CASE slot # Slot(i)
  <2>1. slot \in DOMAIN ppm /\ ppm'[slot] = ppm[slot]
    BY <1>1, <1>5 DEF Truncated
  <2>2. k \in Lacks(slot)
    BY <2>1 DEF Lacks
  <2>3. PICK j \in Inv : WriterOf(j, slot, k)
    BY <2>1, <2>2 DEF LackHasWriter, WriterOf
  <2> QED  BY <1>1, <1>2, <1>3, <2>3 DEF WriterOf, Slot
<1> QED  BY <1>4, <1>5

\* A block that is still lacking after the write was lacking before, and is not
\* the one that has been written.
LEMMA WriteKeeps ==
  ASSUME PreRunAssumption, TypeInv, LackHasWriter, NEW i \in Inv, WriteBlock(i)
  PROVE  LackHasWriter'
<1> DEFINE mine == Slot(i)
           b == work[i].block
<1>1. /\ pc[i] = "write" /\ spoilt' = spoilt
      /\ ppm' = [ppm EXCEPT ![mine] = Written(@, b, work[i].bytes)]
      /\ b < Blocks => work' = [work EXCEPT ![i].block = @ + 1]
      /\ \A j \in Inv \ {i} : work'[j] = work[j]
  <2>1. work' = [work EXCEPT ![i].block = @ + 1] \/ NextFile(i)
    BY DEF WriteBlock
  <2>2. \A j \in Inv \ {i} : work'[j] = work[j]
    BY <2>1, TypeParts DEF NextFile
  <2> QED  BY <2>2 DEF WriteBlock
<1>2. /\ work[i] \in Work /\ work[i].bytes \in Bytes \ {NoBytes} /\ mine \in DOMAIN ppm
      /\ b \in 1 .. Blocks /\ Blocks \in Nat /\ DOMAIN work = Inv
  <2>1. WorkAt(work[i], pc[i], DOMAIN ppm)
    BY DEF TypeInv
  <2>2. work[i] \in Work /\ DOMAIN work = Inv
    BY TypeParts
  <2> QED  BY <1>1, <2>1, <2>2 DEF WorkAt, Slot, Work, PreRunAssumption
<1>3. ppm[mine] \in Seq(Bytes \cup {Gap}) /\ Len(ppm[mine]) <= Blocks
  BY <1>2, TypeParts DEF StoreOK, PpmOK
<1> SUFFICES ASSUME NEW slot \in DOMAIN ppm', NEW k \in 1 .. Blocks,
                    k > Len(ppm'[slot]) \/ ppm'[slot][k] = Gap
             PROVE  \E j \in Inv : WriterOf(j, slot, k)'
  BY DEF LackHasWriter, Lacks, WriterOf
<1>4. slot \in DOMAIN ppm
  BY <1>1
<1>5. CASE slot = mine
  <2> DEFINE old == ppm[mine]
             new == Written(old, b, work[i].bytes)
             V == Bytes \cup {Gap}
  <2>1. ppm'[slot] = new
    BY <1>1, <1>2, <1>5
  <2>2. /\ new \in Seq(V) /\ b <= Len(new) /\ new[b] = work[i].bytes /\ Len(old) <= Len(new)
        /\ \A n \in 1 .. Len(old) : n # b => new[n] = old[n]
    <3> DEFINE bytes == work[i].bytes
    <3>1. Gap \in V /\ bytes \in V /\ old \in Seq(V)
      BY <1>2, <1>3
    <3>2. Len(old) <= Blocks /\ b \in 1 .. Blocks /\ Blocks \in Nat
      BY <1>2, <1>3
    <3>3. new = Written(old, b, bytes)
      OBVIOUS
    <3> HIDE DEF V, old, bytes, b, new
    <3>4. Written(old, b, bytes) \in Seq(V)
      BY <3>1, <3>2, WrittenIs
    <3>5. Written(old, b, bytes)[b] = bytes
      BY <3>1, <3>2 DEF Written
    <3>8. b <= Len(Written(old, b, bytes))
      BY <3>1, <3>2, WrittenIs
    <3>6. Len(old) <= Len(Written(old, b, bytes))
      BY <3>1, <3>2, WrittenIs
    <3>7. \A n \in 1 .. Len(old) : n # b => Written(old, b, bytes)[n] = old[n]
      BY <3>1, <3>2, WrittenIs
    <3> QED  BY <3>3, <3>4, <3>5, <3>6, <3>7, <3>8 DEF bytes
  <2>3. work[i].bytes # Gap
    BY <1>2 DEF Gap
  <2>4. Len(old) \in Nat /\ Len(new) \in Nat
    BY <1>3, <2>2
  <2> HIDE DEF new, b
  <2>5. k # b
    BY <1>2, <2>1, <2>2, <2>3, <2>4
  <2>6. k > Len(old) \/ old[k] = Gap
    <3> SUFFICES ASSUME k <= Len(old) PROVE old[k] = Gap
      BY <2>4
    <3>1. k <= Len(new) /\ k \in 1 .. Len(old)
      BY <2>2, <2>4
    <3>2. new[k] = Gap
      BY <2>1, <2>4, <3>1
    <3> QED  BY <2>2, <2>5, <3>1, <3>2
  <2>7. PICK j \in Inv : WriterOf(j, slot, k)
    BY <1>4, <1>5, <2>6 DEF LackHasWriter, Lacks, WriterOf
  <2>8. CASE <<j, slot>> \in spoilt \/ j # i
    BY <1>1, <2>7, <2>8 DEF WriterOf, Slot
  <2>9. CASE <<j, slot>> \notin spoilt /\ j = i
    <3>1. b <= k
      BY <2>7, <2>9 DEF WriterOf, b
    <3>2. b < Blocks /\ b + 1 <= k
      BY <1>2, <2>5, <3>1
    <3>3. work' = [work EXCEPT ![i].block = @ + 1]
      BY <1>1, <3>2 DEF b
    <3>4. /\ work'[i].bytes = work[i].bytes /\ Slot(i)' = Slot(i) /\ work'[i].block = b + 1
      BY <1>2, <3>3 DEF Work, Slot, b
    <3> QED  BY <1>2, <1>5, <3>2, <3>4 DEF WriterOf
  <2> QED  BY <2>8, <2>9
<1>6. CASE slot # mine
  <2>1. k \in Lacks(slot)
    <3>1. ppm'[slot] = ppm[slot]
      BY <1>1, <1>4, <1>6
    <3> QED  BY <3>1 DEF Lacks
  <2>2. PICK j \in Inv : WriterOf(j, slot, k)
    BY <1>4, <2>1 DEF LackHasWriter, WriterOf
  <2> QED  BY <1>1, <1>6, <2>2 DEF WriterOf, Slot
<1> QED  BY <1>5, <1>6

\* The failing writer is known for it.
LEMMA FailKeeps ==
  ASSUME TypeInv, LackHasWriter, NEW i \in Inv, WriteFails(i)
  PROVE  LackHasWriter'
<1>1. /\ ppm' = ppm /\ spoilt' = spoilt \cup {<<i, Slot(i)>>}
      /\ \A j \in Inv \ {i} : work'[j] = work[j]
  <2>1. NextFile(i)
    BY DEF WriteFails
  <2>2. \A j \in Inv \ {i} : work'[j] = work[j]
    BY <2>1, TypeParts DEF NextFile
  <2> QED  BY <2>2 DEF WriteFails, Spoil
<1> SUFFICES ASSUME NEW slot \in DOMAIN ppm, NEW k \in Lacks(slot)
             PROVE  \E j \in Inv : WriterOf(j, slot, k)'
  BY <1>1 DEF LackHasWriter, Lacks, WriterOf
<1>2. PICK j \in Inv : WriterOf(j, slot, k)
  BY DEF LackHasWriter, WriterOf
<1> QED  BY <1>1, <1>2 DEF WriterOf, Slot

LEMMA StepKeeps ==
  ASSUME PreRunAssumption, TypeInv, LackHasWriter, NEW i \in Inv, Step(i)
  PROVE  LackHasWriter'
<1> USE DEF sharedVars, fileVars
<1>0. /\ DOMAIN work = Inv
      /\ pc[i] \notin {"write", "stopped"} => work[i].bytes = NoBytes
  <2>1. WorkAt(work[i], pc[i], DOMAIN ppm)
    BY DEF TypeInv
  <2> QED  BY <2>1, TypeParts DEF WorkAt
<1>1. CASE (\E line \in Lines[i] : Launch(i, line)) \/ NoRuntime(i)
  BY <1>1, WritersStay DEF Launch, NoRuntime
<1>2. CASE EnsureLocal(i) \/ Unlink(i) \/ Save(i)
  BY <1>2, WritersStay DEF EnsureLocal, Unlink, Save
<1>3. CASE List(i) \/ SkipFile(i) \/ OpenFails(i) \/ NextEncoder(i)
  <2>1. /\ pc[i] \in {"list", "encode"} /\ ppm' = ppm /\ spoilt \subseteq spoilt'
        /\ \A j \in Inv \ {i} : work'[j] = work[j]
    BY <1>0, <1>3 DEF List, SkipFile, OpenFails, NextEncoder, NextFile, Spoil
  <2> QED  BY <1>0, <2>1, WritersStay
<1>4. CASE OpenPicture(i) \/ WriteBlock(i) \/ WriteFails(i)
  BY <1>4, OpenKeeps, WriteKeeps, FailKeeps
<1>5. CASE \/ \E reply \in Replies : Predict(i, reply)
           \/ \E yes \in BOOLEAN : Prompt(i, yes)
  BY <1>5, WritersStay DEF Predict, Prompt
<1>6. CASE Fork(i) \/ Forward(i) \/ Stops(i)
  BY <1>6, WritersStay DEF Fork, Forward, Stops
<1> QED  BY <1>1, <1>2, <1>3, <1>4, <1>5, <1>6 DEF Step

(* Whatever the interleaving of invocations in one directory, and although  *)
(* each of them truncates what the others have written: a block that a      *)
(* picture lacks for good is the work of an interrupted invocation, or of   *)
(* one whose stream has failed.                                             *)
THEOREM Tearing == Spec => []LackHasWriter
<1>1. Init => LackHasWriter
  <2>1. DOMAIN <<>> = {}
    OBVIOUS
  <2> QED  BY <2>1 DEF Init, LackHasWriter
<1>2. TypeInv /\ LackHasWriter /\ [Next]_vars => LackHasWriter'
  <2>1. ASSUME TypeInv, LackHasWriter, Next PROVE LackHasWriter'
    BY <2>1, StepKeeps, PreRunAssumption DEF Next
  <2>2. ASSUME LackHasWriter, UNCHANGED vars PROVE LackHasWriter'
    BY <2>2, WritersStay DEF vars, sharedVars, fileVars
  <2> QED  BY <2>1, <2>2
<1> QED  BY <1>1, <1>2, TypeInvHolds, PTL DEF Spec

-----------------------------------------------------------------------------
(* Nothing has been answered, and nothing consented to, before the request; *)
(* then consent and accusation go together: the inductive form of           *)
(* AccusedNeedConsent.                                                      *)
Unasked == {"idle", "inspect", "unlink", "save", "list", "encode", "write", "predict",
            "forward"}

HeedInv ==
  /\ DOMAIN pc = Inv /\ DOMAIN answer = Inv /\ DOMAIN consent = Inv
  /\ \A i \in Inv :
       /\ pc[i] \in Unasked => answer[i] = NoAnswer /\ consent[i] = FALSE
       /\ Readable(answer[i]) /\ Accused(answer[i]) =>
            pc[i] \in {"prompt", "aborted", "stopped"} \/ consent[i]
       /\ pc[i] = "prompt" \/ consent[i] => Accused(answer[i])

\* The thresholds are compared with the same number on both sides.
LEMMA MaliciousIsAccused ==
  ASSUME VerdictsAssumption, NEW reply \in CnnAnswers, Readable(reply)
  PROVE  CnnOutcome(reply) = "malicious" <=> Accused(reply)
<1>1. reply \in Postprocess(Classes)
  BY DEF CnnAnswers, Refusals, NoAnswer, Refusal, Readable
<1>2. PICK class \in 0 .. Classes - 1 : reply.preds = <<class>>
  BY <1>1 DEF Postprocess
<1>3. reply.probs \in [1 .. Classes -> {Tiny} \cup 0 .. Whole] /\ reply.status = 200
  BY <1>1 DEF Postprocess, Softmax
<1>4. reply.preds[1] = class /\ class + 1 \in 1 .. Classes
  BY <1>2 DEF VerdictsAssumption
<1>5. reply.probs[class + 1] # Tiny /\ reply.probs[class + 1] \in 0 .. Whole
  BY <1>3, <1>4 DEF Readable
<1>6. Confidence(reply) = reply.probs[class + 1]
  BY <1>3, <1>4 DEF Confidence
<1>7. Units(reply.probs[class + 1]) = reply.probs[class + 1]
  BY <1>5 DEF Units
<1>8. Accused(reply) <=> class # Benign /\ reply.probs[class + 1] >= CnnThreshold
  BY <1>3, <1>4, <1>7 DEF Accused
<1>9. CnnOutcome(reply) = "malicious" <=>
        class # Benign /\ ~(reply.probs[class + 1] < CnnThreshold)
  BY <1>4, <1>6 DEF CnnOutcome
<1>10. reply.probs[class + 1] \in Int /\ CnnThreshold \in Int
  BY <1>5 DEF VerdictsAssumption
<1> QED  BY <1>8, <1>9, <1>10

\* A step before or after the answer that asks nobody.
LEMMA Unanswered ==
  ASSUME HeedInv, NEW i \in Inv, NEW label, Goto(i, label),
         answer' = answer, consent' = consent,
         label \in Unasked => pc[i] \in Unasked,
         label # "prompt", pc[i] \notin {"aborted", "stopped"},
         pc[i] = "prompt" => label = "stopped"
  PROVE  HeedInv'
BY DEF HeedInv, Goto

LEMMA StepHeeds ==
  ASSUME VerdictsAssumption, HeedInv, NEW i \in Inv, Step(i)
  PROVE  HeedInv'
<1> USE DEF argVars, resultVars
<1>1. CASE \E line \in Lines[i] : Launch(i, line)
  <2>1. PICK label \in {"inspect", "forward"} : Goto(i, label)
    BY <1>1 DEF Launch
  <2>2. pc[i] = "idle" /\ answer' = answer /\ consent' = consent
    BY <1>1 DEF Launch
  <2> QED  BY <2>1, <2>2, Unanswered DEF Unasked
<1>2. CASE EnsureLocal(i) \/ Unlink(i) \/ Save(i) \/ List(i)
  BY <1>2, Unanswered DEF EnsureLocal, Unlink, Save, List, Unasked
<1>3. CASE SkipFile(i) \/ OpenFails(i)
  BY <1>3 DEF SkipFile, OpenFails, HeedInv
<1>4. CASE OpenPicture(i) \/ WriteFails(i)
  BY <1>4, Unanswered DEF OpenPicture, WriteFails, Unasked
<1>5. CASE NextEncoder(i) \/ WriteBlock(i)
  <2>1. /\ pc[i] \in {"encode", "write"} /\ answer' = answer /\ consent' = consent
        /\ pc' = pc \/ Goto(i, "encode") \/ Goto(i, "list") \/ Goto(i, "predict")
    BY <1>5 DEF NextEncoder, WriteBlock
  <2>2. CASE pc' = pc
    BY <2>1, <2>2 DEF HeedInv
  <2> QED  BY <2>1, <2>2, Unanswered DEF Unasked
<1>6. CASE \E reply \in Replies : Predict(i, reply)
  <2>1. PICK reply \in Replies : Predict(i, reply)
    BY <1>6
  <2>2. /\ pc[i] = "predict" /\ answer' = [answer EXCEPT ![i] = reply] /\ consent' = consent
        /\ pc' = [pc EXCEPT ![i] = IF CnnOutcome(reply) = "malicious" THEN "prompt" ELSE "proceed"]
    BY <2>1 DEF Predict, Goto
  <2>3. Readable(reply) => (CnnOutcome(reply) = "malicious" <=> Accused(reply))
    BY RepliesAreAnswers, MaliciousIsAccused
  <2>4. CnnOutcome(reply) = "malicious" => Readable(reply)
    BY DEF CnnOutcome
  <2> QED  BY <2>2, <2>3, <2>4 DEF HeedInv, Unasked
<1>7. CASE \E yes \in BOOLEAN : Prompt(i, yes)
  <2>1. PICK yes \in BOOLEAN : Prompt(i, yes)
    BY <1>7
  <2>2. /\ pc[i] = "prompt" /\ answer' = answer /\ consent' = [consent EXCEPT ![i] = yes]
        /\ pc' = [pc EXCEPT ![i] = IF yes THEN "proceed" ELSE "aborted"]
    BY <2>1 DEF Prompt, Goto
  <2> QED  BY <2>2 DEF HeedInv, Unasked
<1>8. CASE Fork(i) \/ Forward(i)
  BY <1>8, Unanswered DEF Fork, Forward, Unasked, Goto
<1>9. CASE Stops(i) \/ NoRuntime(i)
  BY <1>9, Unanswered DEF Stops, NoRuntime, Unasked, Active, Ended
<1> QED  BY <1>1, <1>2, <1>3, <1>4, <1>5, <1>6, <1>7, <1>8, <1>9 DEF Step

(* What the API calls malicious, in an answer the client can read, goes on  *)
(* only with consent, for every number of classes and every threshold.      *)
THEOREM Heeding == Spec => []AccusedNeedConsent
<1>1. Init => HeedInv
  <2>1. ~Readable(NoAnswer)
    BY DEF Readable, NoAnswer, Refusal
  <2> QED  BY <2>1 DEF Init, HeedInv, Unasked
<1>2. HeedInv /\ [Next]_vars => HeedInv'
  <2>1. ASSUME HeedInv, Next PROVE HeedInv'
    BY <2>1, StepHeeds, VerdictsAssumption DEF Next
  <2>2. ASSUME HeedInv, UNCHANGED vars PROVE HeedInv'
    BY <2>2 DEF vars, resultVars, HeedInv
  <2> QED  BY <2>1, <2>2
<1>3. HeedInv => AccusedNeedConsent
  BY DEF HeedInv, AccusedNeedConsent
<1> QED  BY <1>1, <1>2, <1>3, PTL DEF Spec

-----------------------------------------------------------------------------
\* A step of i that changes neither answer nor consent, and no argument, moves its
\* own gate only.
LEMMA OwnGate ==
  ASSUME HeedInv, NEW i \in Inv, NEW label, Goto(i, label),
         answer' = answer, consent' = consent
  PROVE  /\ [j \in Inv |-> GateAt(pc[j])]' =
              [[j \in Inv |-> GateAt(pc[j])] EXCEPT ![i] = GateAt(label)]
         /\ UNCHANGED [j \in Inv |-> Readable(answer[j]) /\ Accused(answer[j])]
BY DEF HeedInv, Goto

LEMMA SameDebt ==
  ASSUME UNCHANGED argVars
  PROVE  UNCHANGED [j \in Inv |-> agreed[j] /\ target[j] # NoImage]
BY DEF argVars

\* If the gate stays as it is, the step is a stutter.
LEMMA SameGate ==
  ASSUME HeedInv, NEW i \in Inv, NEW label, Goto(i, label),
         answer' = answer, consent' = consent, UNCHANGED argVars,
         GateAt(label) = GateAt(pc[i])
  PROVE  UNCHANGED Abstract!gateVars
<1>1. [j \in Inv |-> GateAt(pc[j])]' = [j \in Inv |-> GateAt(pc[j])]
  BY DEF HeedInv, Goto
<1> QED  BY <1>1, OwnGate, SameDebt DEF Abstract!gateVars

\* A line on which both sides see an image puts its invocation behind the gate; an
\* invocation that is exempt has no such line.
LEMMA LaunchMaps ==
  ASSUME TypeInv, FoundInv, HeedInv, NEW i \in Inv, NEW line \in Lines[i], Launch(i, line)
  PROVE  Abstract!Exempt(i) \/ \E due \in BOOLEAN : Abstract!Enter(i, due)
<1> DEFINE due == Agreed(line) /\ RuntimeImage(ShellLine(line)) # NoImage
           owed == [j \in Inv |-> agreed[j] /\ target[j] # NoImage]
<1>1. /\ pc[i] = "idle" /\ answer' = answer /\ consent' = consent
      /\ Goto(i, IF ImageOf(line) # NoImage THEN "inspect" ELSE "forward")
      /\ target' = [target EXCEPT ![i] = RuntimeImage(ShellLine(line))]
      /\ agreed' = [agreed EXCEPT ![i] = Agreed(line)]
  BY DEF Launch, resultVars
<1>2. DOMAIN target = Inv /\ DOMAIN agreed = Inv /\ due \in BOOLEAN
  BY DEF TypeInv, TypeOK, Agreed
<1>3. owed' = [owed EXCEPT ![i] = due]
  <2>1. owed' = [j \in Inv |-> agreed'[j] /\ target'[j] # NoImage]
    OBVIOUS
  <2>2. \A j \in Inv : (agreed'[j] /\ target'[j] # NoImage) =
                       (IF j = i THEN due ELSE agreed[j] /\ target[j] # NoImage)
    BY <1>1, <1>2, Zenon
  <2>3. owed' = [j \in Inv |-> IF j = i THEN due ELSE agreed[j] /\ target[j] # NoImage]
    BY <2>1, <2>2, Zenon
  <2>4. [owed EXCEPT ![i] = due] =
          [j \in Inv |-> IF j = i THEN due ELSE agreed[j] /\ target[j] # NoImage]
    OBVIOUS
  <2> QED  BY <2>3, <2>4, Zenon
<1>4. GateAt("idle") = "outside" /\ GateAt("inspect") = "closed" /\ GateAt("forward") = "exempt"
  BY DEF GateAt
<1>5. CASE ImageOf(line) # NoImage
  <2>1. Goto(i, "inspect")
    BY <1>1, <1>5
  <2>2. Abstract!Enter(i, due)
    <3>1. GateAt(pc[i]) = "outside"
      BY <1>1, <1>4
    <3>2. /\ [j \in Inv |-> GateAt(pc[j])]' =
               [[j \in Inv |-> GateAt(pc[j])] EXCEPT ![i] = "closed"]
          /\ UNCHANGED [j \in Inv |-> Readable(answer[j]) /\ Accused(answer[j])]
      BY <1>1, <1>4, <2>1, OwnGate
    <3> HIDE DEF due
    <3> QED  BY <1>1, <1>3, <3>1, <3>2, Zenon DEF Abstract!Enter
  <2> QED  BY <1>2, <2>2
<1>6. CASE ImageOf(line) = NoImage
  <2>1. Goto(i, "forward")
    BY <1>1, <1>6
  <2>2. due = FALSE
    BY <1>6, LaunchFinds, PreRunAssumption, ImageArgAssumption
  <2>3. owed' = owed
    <3>1. owed[i] = FALSE
      BY <1>1 DEF FoundInv
    <3>2. owed = [owed EXCEPT ![i] = FALSE]
      <4> DEFINE other == [owed EXCEPT ![i] = FALSE]
      <4>1. \A j \in Inv : other[j] = owed[j]
        BY <3>1
      <4> QED  BY <4>1
    <3> QED  BY <1>3, <2>2, <3>2
  <2> QED  BY <1>1, <1>4, <2>1, <2>3, OwnGate DEF Abstract!Exempt
<1> QED  BY <1>5, <1>6

LEMMA JudgeMaps ==
  ASSUME VerdictsAssumption, HeedInv, NEW i \in Inv, NEW reply \in Replies, Predict(i, reply)
  PROVE  \E bad \in BOOLEAN : Abstract!Judge(i, bad)
<1> DEFINE bad == Readable(reply) /\ Accused(reply)
<1>1. /\ pc[i] = "predict" /\ answer' = [answer EXCEPT ![i] = reply] /\ consent' = consent
      /\ pc' = [pc EXCEPT ![i] = IF CnnOutcome(reply) = "malicious" THEN "prompt" ELSE "proceed"]
      /\ UNCHANGED argVars
  BY DEF Predict, Goto
<1>2. bad <=> CnnOutcome(reply) = "malicious"
  BY RepliesAreAnswers, MaliciousIsAccused DEF CnnOutcome
<1>3. bad \in BOOLEAN
  BY DEF Readable, Accused
<1>4. GateAt("predict") = "closed" /\ GateAt("prompt") = "asking" /\ GateAt("proceed") = "passed"
  BY DEF GateAt
<1>5. GateAt(pc[i]) = "closed"
  BY <1>1, <1>4
<1>6. [j \in Inv |-> GateAt(pc[j])]' =
        [[j \in Inv |-> GateAt(pc[j])] EXCEPT ![i] = IF bad THEN "asking" ELSE "passed"]
  BY <1>1, <1>2, <1>4 DEF HeedInv
<1>7. [j \in Inv |-> Readable(answer[j]) /\ Accused(answer[j])]' =
        [[j \in Inv |-> Readable(answer[j]) /\ Accused(answer[j])] EXCEPT ![i] = bad]
  BY <1>1 DEF HeedInv
<1> QED  BY <1>1, <1>3, <1>5, <1>6, <1>7, SameDebt DEF Abstract!Judge

LEMMA ReplyMaps ==
  ASSUME HeedInv, NEW i \in Inv, NEW yes \in BOOLEAN, Prompt(i, yes)
  PROVE  Abstract!Reply(i, yes)
<1>1. /\ pc[i] = "prompt" /\ answer' = answer /\ consent' = [consent EXCEPT ![i] = yes]
      /\ pc' = [pc EXCEPT ![i] = IF yes THEN "proceed" ELSE "aborted"]
      /\ UNCHANGED argVars
  BY DEF Prompt, Goto
<1>2. GateAt("prompt") = "asking" /\ GateAt("proceed") = "passed" /\ GateAt("aborted") = "refused"
  BY DEF GateAt
<1>3. [j \in Inv |-> GateAt(pc[j])]' =
        [[j \in Inv |-> GateAt(pc[j])] EXCEPT ![i] = IF yes THEN "passed" ELSE "refused"]
  BY <1>1, <1>2 DEF HeedInv
<1> QED  BY <1>1, <1>2, <1>3, SameDebt DEF Abstract!Reply

\* The steps that are no stutters, besides those three.
LEMMA DoorMaps ==
  ASSUME HeedInv, NEW i \in Inv, NEW label, Goto(i, label),
         answer' = answer, consent' = consent, UNCHANGED argVars,
         \/ pc[i] \in {"forward", "proceed"} /\ label \in {"running", "forwarded"}
         \/ pc[i] \notin Ended /\ label \in {"stopped", "unsupported"}
  PROVE  Abstract!Open(i) \/ Abstract!Refuse(i)
<1>2. CASE pc[i] \in {"forward", "proceed"} /\ label \in {"running", "forwarded"}
  <2>1. GateAt(pc[i]) \in {"exempt", "passed"} /\ GateAt(label) = "open"
    BY <1>2 DEF GateAt
  <2> QED  BY <2>1, OwnGate, SameDebt DEF Abstract!Open
<1>3. CASE pc[i] \notin Ended /\ label \in {"stopped", "unsupported"}
  <2>1. GateAt(pc[i]) \notin {"open", "refused"} /\ GateAt(label) = "refused"
    BY <1>3 DEF GateAt, Ended
  <2> QED  BY <2>1, OwnGate, SameDebt DEF Abstract!Refuse
<1> QED  BY <1>2, <1>3

LEMMA StepMaps ==
  ASSUME TypeInv, FoundInv, HeedInv, NEW i \in Inv, Step(i)
  PROVE  Abstract!Next \/ UNCHANGED Abstract!gateVars
<1> USE DEF resultVars
<1>1. CASE \E line \in Lines[i] : Launch(i, line)
  BY <1>1, LaunchMaps DEF Abstract!Next
<1>2. CASE \/ EnsureLocal(i) \/ Unlink(i) \/ Save(i) \/ List(i) \/ OpenPicture(i)
           \/ WriteFails(i) \/ NextEncoder(i)
  <2>1. PICK label \in {"unlink", "save", "list", "encode", "write", "predict"} : Goto(i, label)
    BY <1>2 DEF EnsureLocal, Unlink, Save, List, OpenPicture, WriteFails, NextEncoder
  <2>2. /\ pc[i] \in {"inspect", "unlink", "save", "list", "encode", "write"}
        /\ answer' = answer /\ consent' = consent /\ UNCHANGED argVars
    BY <1>2 DEF EnsureLocal, Unlink, Save, List, OpenPicture, WriteFails, NextEncoder
  <2>3. GateAt(label) = GateAt(pc[i])
    BY <2>1, <2>2 DEF GateAt
  <2> QED  BY <2>1, <2>2, <2>3, SameGate
<1>3. CASE SkipFile(i) \/ OpenFails(i) \/ WriteBlock(i)
  <2>1. /\ answer' = answer /\ consent' = consent /\ UNCHANGED argVars
        /\ pc' = pc \/ (pc[i] = "write" /\ Goto(i, "encode"))
    BY <1>3 DEF SkipFile, OpenFails, WriteBlock
  <2>2. GateAt("write") = GateAt("encode")
    BY DEF GateAt
  <2>3. CASE pc' = pc
    BY <2>1, <2>3, SameDebt DEF Abstract!gateVars
  <2> QED  BY <2>1, <2>2, <2>3, SameGate
<1>4. CASE \E reply \in Replies : Predict(i, reply)
  BY <1>4, JudgeMaps, VerdictsAssumption DEF Abstract!Next
<1>5. CASE \E yes \in BOOLEAN : Prompt(i, yes)
  BY <1>5, ReplyMaps DEF Abstract!Next
<1>6. CASE Fork(i) \/ Forward(i)
  BY <1>6, DoorMaps DEF Fork, Forward, Abstract!Next
<1>7. CASE Stops(i) \/ NoRuntime(i)
  <2>1. pc[i] \notin Ended
    BY <1>7 DEF Stops, NoRuntime, Active, Ended
  <2> QED  BY <1>7, <2>1, DoorMaps DEF Stops, NoRuntime, Abstract!Next
<1> QED  BY <1>1, <1>2, <1>3, <1>4, <1>5, <1>6, <1>7 DEF Step

(* The pre-run phase implements the gate: whatever is saved, encoded and    *)
(* overwritten beside it, an invocation whose line names an image, as both  *)
(* sides read it, goes behind the gate, is judged once, is asked once if it *)
(* is accused, and is not let through otherwise.                            *)
THEOREM Gating == Spec => GateSpec
<1>1. Init => HeedInv /\ Abstract!Init
  <2>1. ~Readable(NoAnswer)
    BY DEF Readable, NoAnswer, Refusal
  <2>2. GateAt("idle") = "outside"
    BY DEF GateAt
  <2>3. Init => HeedInv
    BY <2>1 DEF Init, HeedInv, Unasked
  <2>4. (Readable(NoAnswer) /\ Accused(NoAnswer)) = FALSE
    BY <2>1
  <2>5. ASSUME Init
        PROVE  [i \in Inv |-> Readable(answer[i]) /\ Accused(answer[i])] = [i \in Inv |-> FALSE]
    BY <2>4, <2>5, Zenon DEF Init
  <2>6. ASSUME Init
        PROVE  [i \in Inv |-> GateAt(pc[i])] = [i \in Inv |-> "outside"]
    BY <2>2, <2>6 DEF Init
  <2>7. ASSUME Init
        PROVE  [i \in Inv |-> agreed[i] /\ target[i] # NoImage] = [i \in Inv |-> FALSE]
    <3>1. \A i \in Inv : (agreed[i] /\ target[i] # NoImage) = FALSE
      BY <2>7 DEF Init
    <3> QED  BY <3>1, Zenon
  <2>8. Init => consent = [i \in Inv |-> FALSE]
    BY DEF Init
  <2> QED  BY <2>3, <2>5, <2>6, <2>7, <2>8, Zenon DEF Abstract!Init
<1>2. TypeInv /\ FoundInv /\ HeedInv /\ [Next]_vars => HeedInv' /\ [Abstract!Next]_(Abstract!gateVars)
  <2>1. ASSUME TypeInv, FoundInv, HeedInv, Next PROVE HeedInv' /\ [Abstract!Next]_(Abstract!gateVars)
    BY <2>1, StepHeeds, StepMaps, VerdictsAssumption DEF Next
  <2>2. ASSUME HeedInv, UNCHANGED vars PROVE HeedInv' /\ UNCHANGED Abstract!gateVars
    BY <2>2, SameDebt DEF vars, resultVars, HeedInv, Abstract!gateVars
  <2> QED  BY <2>1, <2>2
<1> QED  BY <1>1, <1>2, TypeInvHolds, FoundHolds, PTL DEF Spec, GateSpec, Abstract!Spec

-----------------------------------------------------------------------------
\* Two invocations that are active at once know it.
Alone == \A i, j \in Inv : i # j /\ i \in Active /\ j \in Active => overlapped[i]

\* What OwnPicture supposes of the invocation, and the picture it promises.
First == <<"hilbert", 1>>

Promised(i) ==
  /\ ~overlapped[i]
  /\ <<i, First>> \notin spoilt
  /\ tar[TarPath[image[i]]] = image[i]
  /\ Files[image[i]] # <<>> /\ FileBytes(image[i], 1) # NoBytes /\ ScanLimit > 0

Own(i) == PictureOf(FileBytes(image[i], 1))

OwnDone(i) == First \in DOMAIN ppm /\ ppm[First] = Own(i)

\* The blocks of it that are written.
OwnBegun(i) ==
  /\ First \in DOMAIN ppm
  /\ ppm[First] = [k \in 1 .. (work[i].block - 1) |-> FileBytes(image[i], 1)]

Judging == {"prompt", "proceed"}

(* The first Hilbert picture on its way: it is made from the image's own    *)
(* first file, block after block, it stays while the other files are        *)
(* encoded, and the request is made from it.                                *)
OwnWay(i) ==
  /\ pc[i] \in {"encode", "write"} => work[i].owner = image[i]
  /\ pc[i] = "write" /\ work[i].next = 1 => work[i].bytes = FileBytes(image[i], 1)
  /\ pc[i] = "write" /\ Slot(i) = First => OwnBegun(i)
  /\ pc[i] \in {"encode", "write"} /\ work[i].kind = "hilbert" /\ work[i].next > 1 => OwnDone(i)
  /\ pc[i] = "predict" => OwnDone(i)
  /\ pc[i] \in Judging /\ picture[i] # NoPicture => picture[i] = Own(i)

\* What has to be shown of a step of i.
OwnPart(i) ==
  /\ pc[i] \notin Judging \cup Ended => picture[i] = NoPicture
  /\ pc[i] \in WithImage /\ Promised(i) => OwnWay(i)

(* The inductive form of OwnPicture.                                        *)
OwnInv == Alone /\ \A i \in Inv : OwnPart(i)

\* A step of i changes nothing that is another invocation's.
LEMMA OnlyOwn ==
  ASSUME TypeInv, NEW i \in Inv, Step(i), NEW j \in Inv, j # i
  PROVE  /\ pc'[j] = pc[j] /\ image'[j] = image[j] /\ work'[j] = work[j]
         /\ picture'[j] = picture[j]
         /\ overlapped[j] => overlapped'[j]
<1> USE DEF argVars, resultVars, Goto
<1>0. DOMAIN pc = Inv /\ DOMAIN image = Inv /\ DOMAIN work = Inv /\ DOMAIN picture = Inv
  BY DEF TypeInv, TypeOK
<1>1. CASE \E line \in Lines[i] : Launch(i, line)
  <2>1. overlapped' = [h \in Inv |-> overlapped[h] \/ (Active # {} /\ h \in Active \cup {i})]
    BY <1>1 DEF Launch
  <2>2. overlapped[j] => overlapped'[j]
    BY <2>1
  <2> QED  BY <1>0, <1>1, <2>2 DEF Launch
<1>2. CASE EnsureLocal(i) \/ Unlink(i) \/ Save(i) \/ List(i)
  BY <1>0, <1>2 DEF EnsureLocal, Unlink, Save, List
<1>3. CASE SkipFile(i) \/ OpenPicture(i) \/ OpenFails(i)
  BY <1>0, <1>3 DEF SkipFile, OpenPicture, OpenFails, NextFile
<1>4. CASE WriteBlock(i) \/ WriteFails(i) \/ NextEncoder(i)
  BY <1>0, <1>4 DEF WriteBlock, WriteFails, NextEncoder, NextFile
<1>5. CASE \/ \E reply \in Replies : Predict(i, reply)
           \/ \E yes \in BOOLEAN : Prompt(i, yes)
  BY <1>0, <1>5 DEF Predict, Prompt
<1>6. CASE Fork(i) \/ Forward(i) \/ Stops(i) \/ NoRuntime(i)
  BY <1>0, <1>6 DEF Fork, Forward, Stops, NoRuntime
<1> QED  BY <1>1, <1>2, <1>3, <1>4, <1>5, <1>6 DEF Step

\* An invocation that is not active can only be started.
LEMMA Starts ==
  ASSUME NEW i \in Inv, Step(i), i \notin Active
  PROVE  (\E line \in Lines[i] : Launch(i, line)) \/ NoRuntime(i)
BY DEF Step, Active, Ended, EnsureLocal, Unlink, Save, List, SkipFile, OpenPicture, OpenFails,
       WriteBlock, WriteFails, NextEncoder, Predict, Prompt, Fork, Forward, Stops

LEMMA StepAlone ==
  ASSUME TypeInv, Alone, NEW i \in Inv, Step(i)
  PROVE  Alone'
<1> SUFFICES ASSUME NEW j \in Inv, NEW k \in Inv, j # k, j \in Active', k \in Active'
             PROVE  overlapped'[j]
  BY DEF Alone
<1>1. \A h \in Inv \ {i} : h \in Active' <=> h \in Active
  BY OnlyOwn DEF Active
<1>2. CASE i \in Active
  <2>1. j \in Active /\ k \in Active
    BY <1>1, <1>2
  <2>2. overlapped[j]
    BY <2>1 DEF Alone
  <2>3. CASE j # i
    BY <2>2, <2>3, OnlyOwn
  <2>4. CASE j = i
    <3>1. ~(\E line \in Lines[i] : Launch(i, line)) /\ ~NoRuntime(i)
      BY <1>2 DEF Launch, NoRuntime, Active
    <3>2. overlapped' = overlapped
      BY <3>1 DEF Step, EnsureLocal, Unlink, Save, List, SkipFile, OpenPicture, OpenFails,
                  WriteBlock, WriteFails, NextEncoder, Predict, Prompt, Fork, Forward, Stops
    <3> QED  BY <2>2, <3>2
  <2> QED  BY <2>3, <2>4
<1>3. CASE i \notin Active
  <2>1. CASE \E line \in Lines[i] : Launch(i, line)
    <3>1. overlapped' = [h \in Inv |-> overlapped[h] \/ (Active # {} /\ h \in Active \cup {i})]
      BY <2>1 DEF Launch
    <3>2. Active # {} /\ j \in Active \cup {i}
      BY <1>1
    <3> QED  BY <3>1, <3>2
  <2>2. CASE NoRuntime(i)
    <3>1. pc' = [pc EXCEPT ![i] = "unsupported"] /\ overlapped' = overlapped /\ DOMAIN pc = Inv
      BY <2>2 DEF NoRuntime, Goto, TypeInv, TypeOK
    <3>2. i \notin Active'
      BY <3>1 DEF Active, Ended
    <3> QED  BY <1>1, <3>1, <3>2 DEF Alone
  <2> QED  BY <1>3, <2>1, <2>2, Starts
<1> QED  BY <1>2, <1>3

\* Nobody gets in the way of an invocation that met no other.
LEMMA OthersKeepWay ==
  ASSUME TypeInv, OwnInv, NEW i \in Inv, Step(i), NEW j \in Inv, j # i
  PROVE  OwnPart(j)'
<1>1. /\ pc'[j] = pc[j] /\ image'[j] = image[j] /\ work'[j] = work[j]
      /\ picture'[j] = picture[j]
      /\ overlapped[j] => overlapped'[j]
  BY OnlyOwn
<1>2. ASSUME pc'[j] \in WithImage, Promised(j)' PROVE OwnWay(j)'
  <2>1. j \in Active /\ ~overlapped'[j]
    BY <1>1, <1>2 DEF WithImage, Active, Ended, Promised
  <2>2. i \notin Active
    BY <1>1, <2>1 DEF OwnInv, Alone
  <2>3. ~(\E line \in Lines[i] : Launch(i, line))
    <3> SUFFICES ASSUME NEW line \in Lines[i], Launch(i, line) PROVE overlapped'[j]
      BY <2>1
    <3>1. overlapped' = [h \in Inv |-> overlapped[h] \/ (Active # {} /\ h \in Active \cup {i})]
      BY DEF Launch
    <3> QED  BY <2>1, <3>1
  <2>4. NoRuntime(i)
    BY <2>2, <2>3, Starts
  <2>5. /\ tar' = tar /\ ppm' = ppm /\ spoilt' = spoilt /\ overlapped' = overlapped
    BY <2>4 DEF NoRuntime, sharedVars, fileVars
  <2>6. Promised(j) /\ pc[j] \in WithImage
    BY <1>1, <1>2, <2>5 DEF Promised
  <2>7. OwnWay(j)
    BY <2>6 DEF OwnInv, OwnPart
  <2> QED  BY <1>1, <2>5, <2>7 DEF OwnWay, Own, OwnDone, OwnBegun, Slot
<1>3. OwnPart(j)
  BY DEF OwnInv
<1> QED  BY <1>1, <1>2, <1>3 DEF OwnPart
\* A block more, in its place.
LEMMA BlockMore ==
  ASSUME NEW x, NEW b \in Nat \ {0}
  PROVE  Written([k \in 1 .. (b - 1) |-> x], b, x) = [k \in 1 .. b |-> x]
<1> DEFINE old == [k \in 1 .. (b - 1) |-> x]
<1>1. Len(old) = b - 1 /\ b > Len(old)
  OBVIOUS
<1>2. Written(old, b, x) = [k \in 1 .. b |-> IF k = b THEN x ELSE IF k <= Len(old) THEN old[k] ELSE Gap]
  BY <1>1 DEF Written
<1>3. \A k \in 1 .. b : (IF k = b THEN x ELSE IF k <= Len(old) THEN old[k] ELSE Gap) = x
  <2> TAKE k \in 1 .. b
  <2>1. k # b => k <= b - 1 /\ k \in 1 .. (b - 1)
    OBVIOUS
  <2> QED  BY <1>1, <2>1
<1> QED  BY <1>2, <1>3

\* What Promised says of the image, and that it was promised before.
LEMMA PromisedIs ==
  ASSUME PreRunAssumption, TypeInv, NEW i \in Inv, pc[i] \in WithImage, Promised(i)
  PROVE  /\ image[i] \in Image /\ image[i] # NoImage
         /\ tar[TarPath[image[i]]] = image[i]
         /\ Len(Files[image[i]]) >= 1 /\ 1 \in Indexes /\ Indexes \subseteq Nat \ {0}
         /\ FileBytes(image[i], 1) # NoBytes /\ 1 <= ScanLimit
<1>1. image[i] \in DOMAIN TarPath /\ image[i] # NoImage
  BY DEF TypeInv, PreRunAssumption
<1>2. TarPath[image[i]] \in DOMAIN tar /\ tar \in [DOMAIN tar -> Image \cup {NoImage}]
  BY <1>1 DEF TypeInv, TypeOK
<1>3. image[i] \in Image
  BY <1>1, <1>2 DEF Promised
<1>4. 1 <= ScanLimit
  BY DEF Promised, PreRunAssumption
<1> QED  BY <1>1, <1>3, <1>4, IndexesType DEF Promised

LEMMA PromisedBefore ==
  ASSUME NEW i \in Inv, Promised(i)', spoilt \subseteq spoilt',
         tar' = tar, image' = image, overlapped' = overlapped
  PROVE  Promised(i) /\ Own(i)' = Own(i)
BY DEF Promised, Own

\* The first picture of a pass is not passed over.
LEMMA FirstIsTaken ==
  ASSUME PreRunAssumption, TypeInv, NEW i \in Inv, pc[i] = "encode",
         Promised(i), OwnWay(i), work[i].next = 1
  PROVE  FilesLeft(i) /\ Extracted(i) = FileBytes(image[i], 1) /\ Extracted(i) # NoBytes
<1>1. pc[i] \in WithImage
  BY DEF WithImage
<1>2. /\ image[i] # NoImage /\ tar[TarPath[image[i]]] = image[i]
      /\ Len(Files[image[i]]) >= 1 /\ FileBytes(image[i], 1) # NoBytes
  BY <1>1, PromisedIs
<1>3. work[i].owner = image[i]
  BY DEF OwnWay
<1>4. FilesLeft(i)
  BY <1>2, <1>3 DEF FilesLeft
<1>5. Extracted(i) = FileBytes(image[i], 1)
  BY <1>2, <1>3 DEF Extracted, FileBytes
<1> QED  BY <1>2, <1>4, <1>5

\* A file is passed over, its picture could not be opened, or not written.
LEMMA DoneWithFile ==
  ASSUME PreRunAssumption, TypeInv, NEW i \in Inv, Promised(i)', OwnPart(i),
         SkipFile(i) \/ OpenFails(i) \/ WriteFails(i)
  PROVE  OwnWay(i)'
<1>1. /\ pc[i] \in {"encode", "write"} /\ pc'[i] = "encode" /\ NextFile(i)
      /\ UNCHANGED <<tar, image, ppm, overlapped>> /\ spoilt \subseteq spoilt'
      /\ ~SkipFile(i) => <<i, Slot(i)>> \in spoilt'
  BY DEF SkipFile, OpenFails, WriteFails, Goto, Spoil, argVars, sharedVars, fileVars,
         TypeInv, TypeOK
<1>2. Promised(i) /\ Own(i)' = Own(i) /\ pc[i] \in WithImage
  BY <1>1, PromisedBefore DEF WithImage
<1>3. OwnWay(i)
  BY <1>2 DEF OwnPart
<1>4. /\ work'[i].kind = work[i].kind /\ work'[i].owner = work[i].owner
      /\ work'[i].next = work[i].next + 1
  <2>1. /\ work' = [work EXCEPT ![i] = Next1(work[i])]
        /\ Next1(work[i]).kind = work[i].kind /\ Next1(work[i]).owner = work[i].owner
        /\ Next1(work[i]).next = work[i].next + 1
    BY <1>1, NextFileIs
  <2>2. work'[i] = Next1(work[i])
    BY <2>1, TypeParts
  <2> QED  BY <2>1, <2>2
<1>5. work[i].next \in Nat \ {0} /\ work[i].kind \in Kinds
  BY TypeParts DEF Work, WorkAt
<1>6. Slot(i) # First
  <2>1. CASE SkipFile(i)
    BY <1>2, <1>3, <2>1, FirstIsTaken DEF SkipFile, Slot, First
  <2>2. CASE ~SkipFile(i)
    BY <1>1, <2>2 DEF Promised
  <2> QED  BY <2>1, <2>2
<1>7. work[i].kind = "hilbert" => work[i].next > 1
  BY <1>5, <1>6 DEF Slot, First
<1>8. work[i].kind = "hilbert" => OwnDone(i)
  BY <1>1, <1>3, <1>7 DEF OwnWay
<1> QED  BY <1>1, <1>2, <1>3, <1>4, <1>8 DEF OwnWay, OwnDone, Judging

LEMMA OpenOwn ==
  ASSUME PreRunAssumption, TypeInv, NEW i \in Inv, Promised(i)', OwnPart(i), OpenPicture(i)
  PROVE  OwnWay(i)'
<1>1. /\ pc[i] = "encode" /\ pc'[i] = "write" /\ ppm' = Truncated(Slot(i))
      /\ work' = [work EXCEPT ![i].bytes = Extracted(i)]
      /\ UNCHANGED <<tar, image, spoilt, overlapped>>
  BY DEF OpenPicture, Goto, argVars, TypeInv, TypeOK
<1>2. Promised(i) /\ Own(i)' = Own(i) /\ pc[i] \in WithImage
  BY <1>1, PromisedBefore DEF WithImage
<1>3. OwnWay(i)
  BY <1>2 DEF OwnPart
<1>4. /\ work[i] \in Work /\ work[i].block = 1 /\ work[i].next \in Nat \ {0}
      /\ work \in [Inv -> Work]
  BY <1>1, TypeParts DEF WorkAt, Work
<1>5. /\ work'[i].owner = work[i].owner /\ work'[i].kind = work[i].kind
      /\ work'[i].next = work[i].next /\ work'[i].block = 1 /\ work'[i].bytes = Extracted(i)
      /\ Slot(i)' = Slot(i)
  BY <1>1, <1>4 DEF Work, Slot
<1>6. Slot(i) = First => OwnBegun(i)'
  <2> SUFFICES ASSUME Slot(i) = First PROVE OwnBegun(i)'
    OBVIOUS
  <2>1. First \in DOMAIN ppm' /\ ppm'[First] = <<>>
    BY <1>1 DEF Truncated
  <2>2. [k \in 1 .. (work'[i].block - 1) |-> FileBytes(image'[i], 1)] = <<>>
    <3>1. work'[i].block - 1 = 0
      BY <1>5
    <3>2. \A x : [k \in 1 .. 0 |-> x] = <<>>
      OBVIOUS
    <3> QED  BY <3>1, <3>2
  <2> QED  BY <2>1, <2>2 DEF OwnBegun
<1>7. OwnDone(i) /\ Slot(i) # First => OwnDone(i)'
  BY <1>1, <1>2 DEF OwnDone, Truncated
<1>8. work[i].next = 1 => Extracted(i) = FileBytes(image[i], 1)
  BY <1>1, <1>2, <1>3, FirstIsTaken
<1>9. work[i].next > 1 => Slot(i) # First
  BY <1>4 DEF Slot, First
<1> QED  BY <1>1, <1>2, <1>3, <1>5, <1>6, <1>7, <1>8, <1>9 DEF OwnWay, Judging

LEMMA WriteOwn ==
  ASSUME PreRunAssumption, TypeInv, NEW i \in Inv, Promised(i)', OwnPart(i), WriteBlock(i)
  PROVE  OwnWay(i)'
<1> DEFINE b == work[i].block
           x == FileBytes(image[i], 1)
<1>1. /\ pc[i] = "write"
      /\ ppm' = [ppm EXCEPT ![Slot(i)] = Written(@, b, work[i].bytes)]
      /\ UNCHANGED <<tar, image, spoilt, overlapped>>
  BY DEF WriteBlock, argVars
<1>2. Promised(i) /\ Own(i)' = Own(i) /\ pc[i] \in WithImage
  BY <1>1, PromisedBefore DEF WithImage
<1>3. OwnWay(i)
  BY <1>2 DEF OwnPart
<1>4. /\ work[i] \in Work /\ work[i].next \in Nat \ {0} /\ b \in Nat \ {0} /\ b <= Blocks
      /\ work \in [Inv -> Work] /\ Blocks \in Nat
  <2>1. work \in [Inv -> Work] /\ work[i] \in Work /\ WorkAt(work[i], pc[i], DOMAIN ppm)
    BY TypeParts
  <2>2. b \in 1 .. Blocks /\ Blocks \in Nat
    BY <2>1 DEF Work, PreRunAssumption
  <2>3. work[i].next \in Nat \ {0}
    BY <2>1 DEF Work, WorkAt
  <2> QED  BY <2>1, <2>2, <2>3
<1>5. Slot(i) = First => First \in DOMAIN ppm' /\ ppm'[First] = [k \in 1 .. b |-> x]
  <2> SUFFICES ASSUME Slot(i) = First PROVE First \in DOMAIN ppm' /\ ppm'[First] = [k \in 1 .. b |-> x]
    OBVIOUS
  <2>1. work[i].next = 1
    BY DEF Slot, First
  <2>2. work[i].bytes = x /\ OwnBegun(i)
    BY <1>1, <1>3, <2>1 DEF OwnWay
  <2>3. First \in DOMAIN ppm /\ ppm'[First] = Written([k \in 1 .. (b - 1) |-> x], b, x)
    BY <1>1, <2>2 DEF OwnBegun
  <2> HIDE DEF b, x
  <2>4. Written([k \in 1 .. (b - 1) |-> x], b, x) = [k \in 1 .. b |-> x]
    BY <1>4, BlockMore
  <2> QED  BY <1>1, <2>3, <2>4
<1>6. OwnDone(i) /\ Slot(i) # First => OwnDone(i)'
  BY <1>1, <1>2 DEF OwnDone
<1>7. work[i].next > 1 => Slot(i) # First
  BY <1>4 DEF Slot, First
<1>8. CASE b < Blocks
  <2>1. work' = [work EXCEPT ![i].block = @ + 1] /\ pc' = pc
    BY <1>8 DEF WriteBlock
  <2>2. /\ work'[i].owner = work[i].owner /\ work'[i].kind = work[i].kind
        /\ work'[i].next = work[i].next /\ work'[i].block = b + 1
        /\ work'[i].bytes = work[i].bytes /\ Slot(i)' = Slot(i)
    BY <1>4, <2>1 DEF Work, Slot
  <2>3. Slot(i) = First => OwnBegun(i)'
    <3>1. work'[i].block - 1 = b
      BY <1>4, <2>2
    <3> QED  BY <1>1, <1>5, <3>1 DEF OwnBegun
  <2> QED  BY <1>1, <1>2, <1>3, <1>6, <1>7, <2>1, <2>2, <2>3 DEF OwnWay, Judging
<1>9. CASE ~(b < Blocks)
  <2>1. NextFile(i) /\ pc'[i] = "encode"
    BY <1>9 DEF WriteBlock, Goto, TypeInv, TypeOK
  <2>2. /\ work'[i].kind = work[i].kind /\ work'[i].owner = work[i].owner
        /\ work'[i].next = work[i].next + 1
    <3>1. /\ work' = [work EXCEPT ![i] = Next1(work[i])]
          /\ Next1(work[i]).kind = work[i].kind /\ Next1(work[i]).owner = work[i].owner
          /\ Next1(work[i]).next = work[i].next + 1
      BY <2>1, NextFileIs
    <3>2. work'[i] = Next1(work[i])
      BY <1>4, <3>1
    <3> QED  BY <3>1, <3>2
  <2>3. Slot(i) = First => OwnDone(i)'
    <3>1. b = Blocks
      BY <1>4, <1>9
    <3>2. Own(i) = [k \in 1 .. b |-> x]
      BY <3>1 DEF Own, PictureOf
    <3> QED  BY <1>2, <1>5, <3>2 DEF OwnDone
  <2>4. work[i].kind = "hilbert" => OwnDone(i)'
    <3>1. work[i].kind = "hilbert" /\ Slot(i) # First => work[i].next > 1
      <4>1. work[i].next \in Nat \ {0}
        BY <1>4
      <4> QED  BY <4>1 DEF Slot, First
    <3> QED  BY <1>1, <1>3, <1>6, <2>3, <3>1 DEF OwnWay
  <2> QED  BY <1>1, <1>3, <2>1, <2>2, <2>4 DEF OwnWay, Judging
<1> QED  BY <1>8, <1>9

LEMMA PassOwn ==
  ASSUME PreRunAssumption, TypeInv, NEW i \in Inv, Promised(i)', OwnPart(i),
         List(i) \/ NextEncoder(i)
  PROVE  OwnWay(i)'
<1>1. /\ pc[i] \in {"list", "encode"} /\ pc[i] \in WithImage
      /\ UNCHANGED <<tar, image, ppm, spoilt, overlapped>>
  BY DEF List, NextEncoder, argVars, sharedVars, fileVars, WithImage
<1>2. Promised(i) /\ Own(i)' = Own(i)
  BY <1>1, PromisedBefore
<1>3. OwnWay(i)
  BY <1>1, <1>2 DEF OwnPart
<1>4. /\ work[i] \in Work /\ work \in [Inv -> Work] /\ work[i].next \in Nat \ {0}
      /\ tar[TarPath[image[i]]] = image[i] /\ DOMAIN pc = Inv
  BY <1>1, <1>2, TypeParts, PromisedIs DEF WorkAt, Work
<1>5. CASE List(i)
  <2>1. pc'[i] = "encode" /\ work'[i].owner = image[i] /\ work'[i].next = 1
    BY <1>4, <1>5 DEF List, Goto, Work
  <2> QED  BY <1>1, <2>1 DEF OwnWay, Judging
<1>6. CASE NextEncoder(i)
  <2>1. pc[i] = "encode" /\ work[i].next > 1
    BY <1>2, <1>3, <1>4, <1>6, FirstIsTaken DEF NextEncoder
  <2>2. pc'[i] = "list" \/ (pc'[i] = "predict" /\ work[i].kind # "linear")
    BY <1>4, <1>6 DEF NextEncoder, Goto
  <2>3. work[i].kind # "linear" => OwnDone(i)
    BY <1>3, <1>4, <2>1 DEF OwnWay, Work, Kinds
  <2> QED  BY <1>1, <1>2, <2>2, <2>3 DEF OwnWay, OwnDone, Judging
<1> QED  BY <1>5, <1>6
\* The request is made from the picture that is there first: the promised one.
LEMMA PredictOwn ==
  ASSUME PreRunAssumption, TypeInv, OwnInv, NEW i \in Inv, NEW reply \in Replies,
         Predict(i, reply)
  PROVE  OwnPart(i)'
<1>1. /\ pc[i] = "predict" /\ pc'[i] \in Judging /\ pc[i] \in WithImage
      /\ UNCHANGED <<tar, image, ppm, spoilt, overlapped>>
      /\ picture' = [picture EXCEPT ![i] = IF Readable(reply) THEN FirstPicture ELSE @]
  BY DEF Predict, Goto, Judging, sharedVars, fileVars, argVars, WithImage, TypeInv, TypeOK
<1>2. picture[i] = NoPicture /\ DOMAIN picture = Inv
  BY <1>1 DEF OwnInv, OwnPart, Judging, Ended, TypeInv, TypeOK
<1>3. ASSUME Promised(i)', picture'[i] # NoPicture PROVE picture'[i] = Own(i)'
  <2>1. Promised(i) /\ Own(i)' = Own(i)
    BY <1>1, <1>3, PromisedBefore
  <2>2. picture'[i] = FirstPicture
    BY <1>1, <1>2, <1>3
  <2>3. First \in DOMAIN ppm /\ ppm[First] = Own(i)
    BY <1>1, <2>1 DEF OwnInv, OwnPart, OwnWay, OwnDone
  <2>4. 1 \in Indexes /\ Indexes \subseteq Nat \ {0} /\ 1 <= ScanLimit
    BY <1>1, <2>1, PromisedIs
  <2>5. 1 \in Slots("hilbert") /\ Slots("hilbert") \subseteq Nat \ {0}
    BY <2>3, <2>4 DEF Slots, First
  <2>6. Min(Slots("hilbert")) = 1
    <3>1. Min(Slots("hilbert")) \in Slots("hilbert") /\ Min(Slots("hilbert")) <= 1
      BY <2>5, MinIsLeast
    <3>2. \A n \in Nat \ {0} : n <= 1 => n = 1
      OBVIOUS
    <3> QED  BY <2>5, <3>1, <3>2
  <2>7. FirstPicture = ppm[First]
    BY <2>5, <2>6 DEF FirstPicture, First
  <2> QED  BY <2>1, <2>2, <2>3, <2>7
<1> QED  BY <1>1, <1>3 DEF OwnPart, OwnWay, Judging

LEMMA StepOwn ==
  ASSUME PreRunAssumption, TypeInv, OwnInv, NEW i \in Inv, Step(i)
  PROVE  OwnInv'
<1>0. /\ DOMAIN pc = Inv /\ DOMAIN image = Inv /\ DOMAIN work = Inv /\ DOMAIN picture = Inv
      /\ pc[i] \notin Judging \cup Ended => picture[i] = NoPicture
      /\ pc[i] \in WithImage /\ Promised(i) => OwnWay(i)
      /\ OwnPart(i)
  BY DEF TypeInv, TypeOK, OwnInv, OwnPart
<1>1. OwnPart(i)'
  <2>1. CASE \E line \in Lines[i] : Launch(i, line)
    <3>1. /\ pc[i] = "idle" /\ pc'[i] \in {"inspect", "forward"} /\ picture' = picture
      BY <1>0, <2>1 DEF Launch, Goto, resultVars
    <3> QED  BY <1>0, <3>1 DEF OwnPart, OwnWay, Judging, Ended
  <2>2. CASE EnsureLocal(i) \/ Unlink(i) \/ Save(i)
    <3>1. /\ pc[i] \in {"inspect", "unlink", "save"} /\ pc'[i] \in {"unlink", "save", "list"}
          /\ picture' = picture
      BY <1>0, <2>2 DEF EnsureLocal, Unlink, Save, Goto, resultVars
    <3> QED  BY <1>0, <3>1 DEF OwnPart, OwnWay, Judging, Ended
  <2>3. CASE \/ List(i) \/ SkipFile(i) \/ OpenPicture(i) \/ OpenFails(i)
             \/ WriteBlock(i) \/ WriteFails(i) \/ NextEncoder(i)
    <3>1. pc[i] \in {"list", "encode", "write"} /\ picture' = picture
      BY <2>3 DEF List, SkipFile, OpenPicture, OpenFails, WriteBlock, WriteFails, NextEncoder,
                  resultVars
    <3>2. picture'[i] = NoPicture
      BY <1>0, <3>1 DEF Judging, Ended
    <3>3. Promised(i)' => OwnWay(i)'
      BY <1>0, <2>3, DoneWithFile, OpenOwn, WriteOwn, PassOwn
    <3> QED  BY <3>2, <3>3 DEF OwnPart
  <2>4. CASE \E reply \in Replies : Predict(i, reply)
    BY <2>4, PredictOwn
  <2>5. CASE \E yes \in BOOLEAN : Prompt(i, yes)
    <3>1. /\ pc[i] = "prompt" /\ pc'[i] \in {"proceed", "aborted"}
          /\ UNCHANGED <<tar, spoilt, image, picture, overlapped>>
      BY <1>0, <2>5 DEF Prompt, Goto, sharedVars, fileVars, argVars
    <3>2. Promised(i)' => Promised(i) /\ Own(i)' = Own(i)
      BY <3>1, PromisedBefore
    <3> QED  BY <1>0, <3>1, <3>2 DEF OwnPart, OwnWay, Judging, Ended, WithImage
  <2>6. CASE Fork(i) \/ Forward(i) \/ Stops(i) \/ NoRuntime(i)
    <3>1. pc'[i] \in Ended
      BY <1>0, <2>6 DEF Fork, Forward, Stops, NoRuntime, Goto, Ended
    <3> QED  BY <3>1 DEF OwnPart, Ended, WithImage
  <2> QED  BY <2>1, <2>2, <2>3, <2>4, <2>5, <2>6 DEF Step
<1>2. \A j \in Inv : OwnPart(j)'
  BY <1>1, OthersKeepWay
<1>3. Alone'
  BY StepAlone DEF OwnInv
<1> QED  BY <1>2, <1>3 DEF OwnInv

(* An invocation that met no other and could write the first picture of its *)
(* image is judged by it, whatever earlier ones have left in ./out/images   *)
(* and /tmp.                                                                *)
THEOREM OwnJudgement == Spec => []OwnPicture
<1>1. Init => OwnInv
  <2> SUFFICES ASSUME Init PROVE OwnInv
    OBVIOUS
  <2>1. \A i \in Inv : pc[i] = "idle" /\ picture[i] = NoPicture
    BY DEF Init
  <2> QED  BY <2>1 DEF OwnInv, OwnPart, Alone, Active, WithImage
<1>2. TypeInv /\ OwnInv /\ [Next]_vars => OwnInv'
  <2>1. ASSUME TypeInv, OwnInv, Next PROVE OwnInv'
    BY <2>1, StepOwn, PreRunAssumption DEF Next
  <2>2. ASSUME OwnInv, UNCHANGED vars PROVE OwnInv'
    BY <2>2 DEF vars, sharedVars, fileVars, argVars, resultVars, OwnInv, OwnPart, Alone, Active,
                Promised, OwnWay, OwnDone, OwnBegun, Own, Slot
  <2> QED  BY <2>1, <2>2
<1>3. OwnInv => OwnPicture
  BY DEF OwnInv, OwnPart, OwnPicture, Promised, First, OwnWay, Own, Judging, WithImage
<1> QED  BY <1>1, <1>2, <1>3, TypeInvHolds, PTL DEF Spec

-----------------------------------------------------------------------------
(* How many steps an invocation has left, at most, if no image has more     *)
(* files than the given number: two passes over the files of a tarball,     *)
(* whichever is there by then, and for each file its picture is opened and  *)
(* its blocks are written.                                                  *)
PerFile == Blocks + 1
Pass(most) == PerFile * most

Listed(w) == w.owner # NoImage /\ w.next <= Len(Files[w.owner])

FileSteps(w) == IF Listed(w) THEN PerFile * (Len(Files[w.owner]) - w.next + 1) ELSE 0

SecondPass(w, most) == IF w.kind = "linear" THEN Pass(most) + 2 ELSE 0

StepsLeft(i, most) ==
  CASE pc[i] \in Ended -> 0
    [] pc[i] \in {"proceed", "forward"} -> 1
    [] pc[i] = "prompt" -> 2
    [] pc[i] = "predict" -> 3
    [] pc[i] = "write" -> 4 + FileSteps(work[i]) + SecondPass(work[i], most) - work[i].block
    [] pc[i] = "encode" -> 4 + FileSteps(work[i]) + SecondPass(work[i], most)
    [] pc[i] = "list" -> 5 + Pass(most) + SecondPass(work[i], most)
    [] pc[i] = "save" -> 8 + 2 * Pass(most)
    [] pc[i] = "unlink" -> 9 + 2 * Pass(most)
    [] pc[i] = "inspect" -> 10 + 2 * Pass(most)
    [] pc[i] = "idle" -> 11 + 2 * Pass(most)

NoMoreFiles(most) == most \in Nat /\ \A m \in Image : Len(Files[m]) <= most

\* All that belongs to one invocation.
Private(i) == <<pc[i], sub[i], image[i], target[i], agreed[i],
                picture[i], verdict[i], answer[i], consent[i], work[i]>>

\* A step brings an invocation nearer to its end, or is none of its own.
Onward(most) ==
  \A i \in Inv : StepsLeft(i, most)' < StepsLeft(i, most) \/ UNCHANGED Private(i)

\* What is written is one of the files that were listed.
WritesListed == \A i \in Inv : pc[i] = "write" => FilesLeft(i)

Domains ==
  /\ DOMAIN pc = Inv /\ DOMAIN sub = Inv /\ DOMAIN image = Inv
  /\ DOMAIN target = Inv /\ DOMAIN agreed = Inv
  /\ DOMAIN picture = Inv /\ DOMAIN verdict = Inv /\ DOMAIN answer = Inv
  /\ DOMAIN consent = Inv /\ DOMAIN work = Inv

LEMMA DomainsTyped == TypeInv => Domains
  BY DEF TypeInv, TypeOK, Domains

\* A step of i leaves alone what belongs to another invocation.
LEMMA OthersKept ==
  ASSUME Domains, NEW i \in Inv, Step(i), NEW j \in Inv \ {i}
  PROVE  UNCHANGED Private(j)
<1> USE DEF Domains, Private, Goto, argVars, resultVars
<1>1. CASE \E line \in Lines[i] : Launch(i, line)
  BY <1>1 DEF Launch
<1>2. CASE EnsureLocal(i) \/ Unlink(i) \/ Save(i) \/ List(i)
  BY <1>2 DEF EnsureLocal, Unlink, Save, List
<1>3. CASE SkipFile(i) \/ OpenPicture(i) \/ OpenFails(i)
  BY <1>3 DEF SkipFile, OpenPicture, OpenFails, NextFile
<1>4. CASE WriteBlock(i) \/ WriteFails(i) \/ NextEncoder(i)
  BY <1>4 DEF WriteBlock, WriteFails, NextEncoder, NextFile
<1>5. CASE \/ \E reply \in Replies : Predict(i, reply)
           \/ \E yes \in BOOLEAN : Prompt(i, yes)
  BY <1>5 DEF Predict, Prompt
<1>6. CASE Fork(i) \/ Forward(i) \/ Stops(i) \/ NoRuntime(i)
  BY <1>6 DEF Fork, Forward, Stops, NoRuntime
<1> QED  BY <1>1, <1>2, <1>3, <1>4, <1>5, <1>6 DEF Step

\* What a multiple of PerFile is worth.
LEMMA Multiples ==
  ASSUME NEW p \in Nat
  PROVE  \A n \in Nat : /\ p * n \in Nat
                       /\ p * (n + 1) = p * n + p
                       /\ \A k \in Nat : p * (n + k) = p * n + p * k
BY SMT

LEMMA PassType ==
  ASSUME PreRunAssumption, NEW most, NoMoreFiles(most)
  PROVE  PerFile \in Nat /\ PerFile = Blocks + 1 /\ Pass(most) \in Nat
BY Multiples DEF PreRunAssumption, NoMoreFiles, Pass, PerFile

\* The numbers StepsLeft is made of.
LEMMA FileStepsType ==
  ASSUME PreRunAssumption, NEW most, NoMoreFiles(most), NEW w \in Work, w.next # 0
  PROVE  /\ FileSteps(w) \in Nat /\ SecondPass(w, most) \in {0, Pass(most) + 2}
         /\ FileSteps(w) <= Pass(most)
         /\ Listed(w) => FileSteps(w) >= PerFile
<1> DEFINE next == w.next
           n == Len(Files[w.owner])
<1>1. next \in Nat \ {0} /\ most \in Nat /\ PerFile \in Nat /\ Pass(most) \in Nat
  BY PassType DEF NoMoreFiles, Work
<1>2. SecondPass(w, most) \in {0, Pass(most) + 2}
  BY DEF SecondPass
<1>3. CASE ~Listed(w)
  BY <1>1, <1>2, <1>3 DEF FileSteps
<1>4. CASE Listed(w)
  <2>1. w.owner \in Image
    BY <1>4 DEF Listed, Work
  <2>2. n \in Nat /\ n <= most
    BY <2>1, FilesType DEF NoMoreFiles
  <2>3. next <= n /\ FileSteps(w) = PerFile * (n - next + 1)
    BY <1>4 DEF Listed, FileSteps
  <2> HIDE DEF n, next
  <2>4. PICK k \in Nat : n - next + 1 = k + 1
    <3>1. n - next \in Nat
      BY <1>1, <2>2, <2>3
    <3> QED  BY <1>1, <2>2, <3>1
  <2>5. PICK rest \in Nat : most = (k + 1) + rest
    <3>1. most - (k + 1) \in Nat
      BY <1>1, <2>2, <2>3, <2>4
    <3> QED  BY <1>1, <3>1
  <2>6. FileSteps(w) = PerFile * k + PerFile /\ PerFile * k \in Nat
    BY <1>1, <2>3, <2>4, Multiples
  <2>7. Pass(most) = FileSteps(w) + PerFile * rest /\ PerFile * rest \in Nat
    <3>1. PerFile * ((k + 1) + rest) = PerFile * (k + 1) + PerFile * rest
      BY <1>1, Multiples
    <3>2. Pass(most) = PerFile * ((k + 1) + rest)
      BY <2>5 DEF Pass
    <3> QED  BY <1>1, <2>3, <2>4, <3>1, <3>2, Multiples
  <2> QED  BY <1>1, <1>2, <2>6, <2>7
<1> QED  BY <1>3, <1>4

\* A step that leaves an invocation before or behind the encoders.
LEMMA PlainStep ==
  ASSUME PreRunAssumption, TypeInv, NEW i \in Inv, Step(i), NEW most, NoMoreFiles(most),
         pc[i] \notin {"list", "encode", "write"}
  PROVE  StepsLeft(i, most)' < StepsLeft(i, most)
<1> USE DEF Goto, Domains, StepsLeft, Ended
<1>1. Pass(most) \in Nat /\ Domains
  BY DomainsTyped, PassType
<1>2. CASE \E line \in Lines[i] : Launch(i, line)
  <2>1. pc[i] = "idle" /\ pc'[i] \in {"inspect", "forward"}
    BY <1>1, <1>2 DEF Launch
  <2> QED  BY <1>1, <2>1
<1>3. CASE EnsureLocal(i) \/ Unlink(i)
  BY <1>1, <1>3 DEF EnsureLocal, Unlink
<1>4. CASE Save(i)
  <2>1. pc[i] = "save" /\ pc'[i] = "list" /\ work' = work
    BY <1>1, <1>4 DEF Save
  <2>2. SecondPass(work'[i], most) \in {0, Pass(most) + 2}
    BY DEF SecondPass
  <2> QED  BY <1>1, <2>1, <2>2
<1>5. CASE \/ List(i) \/ SkipFile(i) \/ OpenPicture(i) \/ OpenFails(i)
           \/ WriteBlock(i) \/ WriteFails(i) \/ NextEncoder(i)
  BY <1>5 DEF List, SkipFile, OpenPicture, OpenFails, WriteBlock, WriteFails, NextEncoder
<1>6. CASE \/ \E reply \in Replies : Predict(i, reply)
           \/ \E yes \in BOOLEAN : Prompt(i, yes)
  <2>1. \/ pc[i] = "predict" /\ pc'[i] \in {"prompt", "proceed"}
        \/ pc[i] = "prompt" /\ pc'[i] \in {"proceed", "aborted"}
    BY <1>1, <1>6 DEF Predict, Prompt
  <2> QED  BY <1>1, <2>1
<1>7. CASE Fork(i) \/ Forward(i)
  BY <1>1, <1>7 DEF Fork, Forward
<1>8. CASE Stops(i) \/ NoRuntime(i)
  <2>1. pc[i] \notin Ended /\ pc'[i] \in Ended
    BY <1>1, <1>8 DEF Stops, NoRuntime, Active
  <2>2. pc[i] \in {"idle", "inspect", "unlink", "save", "predict", "prompt", "proceed", "forward"}
    BY <2>1 DEF TypeInv, TypeOK
  <2>3. StepsLeft(i, most)' = 0
    BY <2>1
  <2>4. StepsLeft(i, most) \in {1, 2, 3, 8 + 2 * Pass(most), 9 + 2 * Pass(most),
                               10 + 2 * Pass(most), 11 + 2 * Pass(most)}
    BY <1>1, <2>2
  <2> HIDE DEF StepsLeft
  <2> QED  BY <1>1, <2>3, <2>4
<1> QED  BY <1>2, <1>3, <1>4, <1>5, <1>6, <1>7, <1>8 DEF Step

\* Only the file counter moves.
LEMMA FileTaken ==
  ASSUME PreRunAssumption, NEW most, NEW w \in Work, Listed(w), w.next # 0,
         NEW v, v.owner = w.owner, v.kind = w.kind, v.next = w.next + 1
  PROVE  FileSteps(v) = FileSteps(w) - PerFile /\ SecondPass(v, most) = SecondPass(w, most)
<1> DEFINE next == w.next
           n == Len(Files[w.owner])
<1>1. w.owner \in Image /\ next \in Nat /\ PerFile \in Nat
  BY DEF Listed, Work, PerFile, PreRunAssumption
<1>2. n \in Nat
  BY <1>1, FilesType
<1>3. FileSteps(w) = PerFile * (n - next + 1) /\ next <= n
  BY DEF FileSteps, Listed
<1>4. v.owner # NoImage /\ n = Len(Files[v.owner])
  BY DEF Listed
<1>5. FileSteps(v) = IF next + 1 <= n THEN PerFile * (n - (next + 1) + 1) ELSE 0
  BY <1>4 DEF FileSteps, Listed
<1> HIDE DEF next, n
<1>6. PICK k \in Nat : k = n - next
  BY <1>1, <1>2, <1>3
<1>7. FileSteps(w) = PerFile * k + PerFile
  <2>1. n - next + 1 = k + 1
    BY <1>1, <1>2, <1>6
  <2> QED  BY <1>1, <1>3, <2>1, Multiples
<1>8. FileSteps(v) = PerFile * k /\ PerFile * k \in Nat
  <2>1. CASE next + 1 <= n
    <3>1. n - (next + 1) + 1 = k
      BY <1>1, <1>2, <1>6
    <3> QED  BY <1>1, <1>5, <2>1, <3>1, Multiples
  <2>2. CASE ~(next + 1 <= n)
    <3>1. k = 0 /\ PerFile * 0 = 0
      BY <1>1, <1>2, <1>3, <1>6, <2>2
    <3> QED  BY <1>5, <2>2, <3>1
  <2> QED  BY <2>1, <2>2
<1> QED  BY <1>1, <1>7, <1>8 DEF SecondPass

\* A file is done with: one step at least has been spent on it.
LEMMA FileDone ==
  ASSUME PreRunAssumption, TypeInv, NEW i \in Inv, NEW most, NoMoreFiles(most), NextFile(i),
         Listed(work[i])
  PROVE  /\ FileSteps(work'[i]) = FileSteps(work[i]) - PerFile
         /\ SecondPass(work'[i], most) = SecondPass(work[i], most)
<1>1. work \in [Inv -> Work] /\ work[i] \in Work /\ work[i].next # 0
  BY TypeParts DEF WorkAt
<1>2. /\ work'[i].owner = work[i].owner /\ work'[i].kind = work[i].kind
      /\ work'[i].next = work[i].next + 1
  <2>1. work'[i] = Next1(work[i])
    BY <1>1, NextFileIs
  <2> QED  BY <2>1, NextFileIs
<1> QED  BY <1>1, <1>2, FileTaken

LEMMA EncoderStep ==
  ASSUME PreRunAssumption, TypeInv, TypeInv', WritesListed, NEW i \in Inv, Step(i),
         NEW most, NoMoreFiles(most), pc[i] \in {"list", "encode", "write"}
  PROVE  StepsLeft(i, most)' < StepsLeft(i, most)
<1> DEFINE w == work[i]
           v == work'[i]
<1> USE DEF Goto, StepsLeft, Ended
<1>1. Pass(most) \in Nat /\ PerFile \in Nat /\ PerFile = Blocks + 1 /\ DOMAIN pc = Inv
  BY PassType DEF TypeInv, TypeOK
<1>2. /\ work \in [Inv -> Work] /\ w \in Work /\ v \in Work /\ w.next # 0 /\ v.next # 0
      /\ w.block \in 1 .. Blocks /\ v.block \in 1 .. Blocks /\ Blocks \in Nat
  <2>1. work \in [Inv -> Work] /\ w \in Work /\ w.next # 0
    BY TypeParts DEF WorkAt
  <2>2. v \in Work /\ v.next # 0
    BY DEF TypeInv, TypeOK, Work, WorkAt
  <2> QED  BY <2>1, <2>2 DEF Work, PreRunAssumption
<1>3. /\ FileSteps(w) \in Nat /\ SecondPass(w, most) \in {0, Pass(most) + 2}
      /\ FileSteps(v) \in Nat /\ SecondPass(v, most) \in {0, Pass(most) + 2}
      /\ FileSteps(v) <= Pass(most)
      /\ Listed(w) => FileSteps(w) >= PerFile
  <2> HIDE DEF w, v
  <2> QED  BY <1>2, FileStepsType
<1>4. CASE List(i)
  <2>1. pc[i] = "list" /\ pc'[i] = "encode" /\ v.kind = w.kind
    BY <1>1, <1>2, <1>4 DEF List, Work
  <2>2. SecondPass(v, most) = SecondPass(w, most)
    BY <2>1 DEF SecondPass
  <2>3. /\ StepsLeft(i, most) = 5 + Pass(most) + SecondPass(w, most)
        /\ StepsLeft(i, most)' = 4 + FileSteps(v) + SecondPass(v, most)
    BY <2>1
  <2> HIDE DEF w, v, StepsLeft
  <2> QED  BY <1>1, <1>3, <2>2, <2>3
<1>5. CASE SkipFile(i) \/ OpenFails(i)
  <2>1. pc[i] = "encode" /\ pc'[i] = "encode" /\ Listed(w) /\ NextFile(i)
    BY <1>1, <1>5 DEF SkipFile, OpenFails, FilesLeft, Listed
  <2>2. /\ StepsLeft(i, most) = 4 + FileSteps(w) + SecondPass(w, most)
        /\ StepsLeft(i, most)' = 4 + FileSteps(v) + SecondPass(v, most)
    BY <2>1
  <2>3. FileSteps(v) = FileSteps(w) - PerFile /\ SecondPass(v, most) = SecondPass(w, most)
    BY <2>1, FileDone
  <2> HIDE DEF w, v, StepsLeft
  <2> QED  BY <1>1, <1>2, <1>3, <2>2, <2>3
<1>6. CASE OpenPicture(i)
  <2>1. /\ pc[i] = "encode" /\ pc'[i] = "write"
        /\ v.owner = w.owner /\ v.kind = w.kind /\ v.next = w.next
    BY <1>1, <1>2, <1>6 DEF OpenPicture, Work
  <2>2. /\ StepsLeft(i, most) = 4 + FileSteps(w) + SecondPass(w, most)
        /\ StepsLeft(i, most)' = 4 + FileSteps(v) + SecondPass(v, most) - v.block
    BY <2>1
  <2>3. FileSteps(v) = FileSteps(w) /\ SecondPass(v, most) = SecondPass(w, most)
    BY <2>1 DEF FileSteps, Listed, SecondPass
  <2> HIDE DEF w, v, StepsLeft
  <2> QED  BY <1>1, <1>2, <1>3, <2>2, <2>3
<1>7. CASE WriteBlock(i) \/ WriteFails(i)
  <2>1. pc[i] = "write" /\ Listed(w)
    BY <1>7 DEF WriteBlock, WriteFails, WritesListed, FilesLeft, Listed
  <2>2. StepsLeft(i, most) = 4 + FileSteps(w) + SecondPass(w, most) - w.block
    BY <2>1
  <2>3. CASE WriteBlock(i) /\ w.block < Blocks
    <3>1. pc'[i] = "write" /\ v = [w EXCEPT !.block = @ + 1]
      BY <1>2, <2>1, <2>3 DEF WriteBlock
    <3>2. v.owner = w.owner /\ v.kind = w.kind /\ v.next = w.next /\ v.block = w.block + 1
      BY <1>2, <3>1 DEF Work
    <3>3. StepsLeft(i, most)' = 4 + FileSteps(v) + SecondPass(v, most) - v.block
      BY <3>1
    <3>4. FileSteps(v) = FileSteps(w) /\ SecondPass(v, most) = SecondPass(w, most)
      BY <3>2 DEF FileSteps, Listed, SecondPass
    <3> HIDE DEF w, v, StepsLeft
    <3> QED  BY <1>1, <1>2, <1>3, <2>2, <3>2, <3>3, <3>4
  <2>4. CASE WriteFails(i) \/ ~(w.block < Blocks)
    <3>1. pc'[i] = "encode" /\ NextFile(i)
      BY <1>1, <1>7, <2>4 DEF WriteBlock, WriteFails
    <3>2. StepsLeft(i, most)' = 4 + FileSteps(v) + SecondPass(v, most)
      BY <3>1
    <3>3. FileSteps(v) = FileSteps(w) - PerFile /\ SecondPass(v, most) = SecondPass(w, most)
      BY <2>1, <3>1, FileDone
    <3>4. w.block \in Nat /\ w.block < PerFile
      BY <1>1, <1>2
    <3>5. FileSteps(v) \in Nat /\ SecondPass(w, most) \in Nat
      BY <1>1, <1>3
    <3>6. FileSteps(w) = FileSteps(v) + PerFile
      BY <1>1, <1>3, <3>3
    <3> HIDE DEF w, v, StepsLeft
    <3> QED  BY <1>1, <2>2, <3>2, <3>3, <3>4, <3>5, <3>6
  <2> QED  BY <1>7, <2>3, <2>4
<1>8. CASE NextEncoder(i)
  <2>1. CASE w.kind = "linear"
    <3>1. pc[i] = "encode" /\ pc'[i] = "list" /\ v.kind = "hilbert"
      BY <1>1, <1>2, <1>8, <2>1 DEF NextEncoder, Work
    <3>2. SecondPass(w, most) = Pass(most) + 2 /\ SecondPass(v, most) = 0
      BY <2>1, <3>1 DEF SecondPass
    <3>3. /\ StepsLeft(i, most) = 4 + FileSteps(w) + SecondPass(w, most)
          /\ StepsLeft(i, most)' = 5 + Pass(most) + SecondPass(v, most)
      BY <3>1
    <3> HIDE DEF w, v, StepsLeft
    <3> QED  BY <1>1, <1>3, <3>2, <3>3
  <2>2. CASE w.kind # "linear"
    <3>1. pc[i] = "encode" /\ pc'[i] = "predict"
      BY <1>1, <1>8, <2>2 DEF NextEncoder
    <3>2. /\ StepsLeft(i, most) = 4 + FileSteps(w) + SecondPass(w, most)
          /\ StepsLeft(i, most)' = 3
      BY <3>1
    <3> HIDE DEF w, v, StepsLeft
    <3> QED  BY <1>1, <1>3, <3>2
  <2> QED  BY <2>1, <2>2
<1>9. CASE Stops(i)
  <2>1. pc'[i] \in Ended
    BY <1>1, <1>9 DEF Stops
  <2>2. /\ StepsLeft(i, most)' = 0
        /\ \/ StepsLeft(i, most) = 4 + FileSteps(w) + SecondPass(w, most) - w.block /\ Listed(w)
           \/ StepsLeft(i, most) = 4 + FileSteps(w) + SecondPass(w, most)
           \/ StepsLeft(i, most) = 5 + Pass(most) + SecondPass(w, most)
    BY <2>1 DEF WritesListed, FilesLeft, Listed
  <2>3. StepsLeft(i, most) > 0
    <3> DEFINE left == StepsLeft(i, most)
               files == FileSteps(w)
               second == SecondPass(w, most)
               pass == Pass(most)
               block == w.block
    <3>1. /\ files \in Nat /\ second \in Nat /\ pass \in Nat /\ block \in Nat
          /\ Listed(w) => files >= block
      BY <1>1, <1>2, <1>3
    <3>2. \/ left = 4 + files + second - block /\ files >= block
          \/ left = 4 + files + second
          \/ left = 5 + pass + second
      BY <2>2, <3>1
    <3> HIDE DEF left, files, second, pass, block
    <3>3. left > 0
      BY <3>1, <3>2
    <3> QED  BY <3>3 DEF left
  <2> QED  BY <2>2, <2>3
<1>10. CASE \/ NoRuntime(i) \/ \E line \in Lines[i] : Launch(i, line)
            \/ EnsureLocal(i) \/ Unlink(i) \/ Save(i)
            \/ \E reply \in Replies : Predict(i, reply)
            \/ \E yes \in BOOLEAN : Prompt(i, yes)
            \/ Fork(i) \/ Forward(i)
  <2>1. CASE NoRuntime(i) \/ \E line \in Lines[i] : Launch(i, line)
    BY <2>1 DEF NoRuntime, Launch
  <2>2. CASE EnsureLocal(i) \/ Unlink(i) \/ Save(i)
    BY <2>2 DEF EnsureLocal, Unlink, Save
  <2>3. CASE \/ \E reply \in Replies : Predict(i, reply)
             \/ \E yes \in BOOLEAN : Prompt(i, yes)
    <3>1. pc[i] \in {"predict", "prompt"}
      BY <2>3 DEF Predict, Prompt
    <3> QED  BY <3>1
  <2>4. CASE Fork(i) \/ Forward(i)
    <3>1. pc[i] \in {"proceed", "forward"}
      BY <2>4 DEF Fork, Forward
    <3> QED  BY <3>1
  <2> QED  BY <1>10, <2>1, <2>2, <2>3, <2>4
<1> QED  BY <1>4, <1>5, <1>6, <1>7, <1>8, <1>9, <1>10 DEF Step

LEMMA ListedKept == TypeInv /\ WritesListed /\ [Next]_vars => WritesListed'
<1> SUFFICES ASSUME TypeInv, WritesListed, [Next]_vars, NEW j \in Inv, pc'[j] = "write"
             PROVE  FilesLeft(j)'
  BY DEF WritesListed
<1>1. Domains
  BY DomainsTyped
<1>2. ASSUME pc[j] = "write", work'[j] = work[j] PROVE FilesLeft(j)'
  BY <1>2 DEF WritesListed, FilesLeft
<1>3. CASE UNCHANGED vars
  BY <1>2, <1>3 DEF vars
<1>4. ASSUME NEW i \in Inv, Step(i), i # j PROVE FilesLeft(j)'
  BY <1>1, <1>2, <1>4, OthersKept DEF Private
<1>5. ASSUME Step(j) PROVE FilesLeft(j)'
  <2>0. work \in [Inv -> Work]
    BY TypeParts
  <2>1. CASE OpenPicture(j)
    <3>1. FilesLeft(j) /\ work'[j] = [work[j] EXCEPT !.bytes = Extracted(j)]
      BY <2>0, <2>1 DEF OpenPicture
    <3>2. work'[j].owner = work[j].owner /\ work'[j].next = work[j].next
      BY <2>0, <3>1 DEF Work
    <3> QED  BY <3>1, <3>2 DEF FilesLeft
  <2>2. CASE WriteBlock(j) /\ work[j].block < Blocks
    <3>1. FilesLeft(j) /\ work'[j] = [work[j] EXCEPT !.block = @ + 1]
      BY <2>0, <2>2 DEF WriteBlock, WritesListed
    <3>2. work'[j].owner = work[j].owner /\ work'[j].next = work[j].next
      BY <2>0, <3>1 DEF Work
    <3> QED  BY <3>1, <3>2 DEF FilesLeft
  <2>3. CASE SkipFile(j) \/ OpenFails(j)
    BY <1>1, <2>3 DEF SkipFile, OpenFails
  <2>4. CASE ~(\/ OpenPicture(j) \/ SkipFile(j) \/ OpenFails(j)
               \/ WriteBlock(j) /\ work[j].block < Blocks)
    <3>1. \E label : label # "write" /\ pc' = [pc EXCEPT ![j] = label]
      BY <1>5, <2>4 DEF Step, NoRuntime, Launch, EnsureLocal, Unlink, Save, List, WriteBlock,
                        WriteFails, NextEncoder, Predict, Prompt, Fork, Forward, Stops, Goto
    <3> QED  BY <1>1, <3>1 DEF Domains
  <2> QED  BY <2>1, <2>2, <2>3, <2>4
<1> QED  BY <1>3, <1>4, <1>5 DEF Next

LEMMA StepOnward ==
  ASSUME PreRunAssumption, NEW most, NoMoreFiles(most), TypeInv, TypeInv', WritesListed, [Next]_vars
  PROVE  [Onward(most)]_vars
<1> SUFFICES ASSUME Next, NEW j \in Inv
             PROVE  StepsLeft(j, most)' < StepsLeft(j, most) \/ UNCHANGED Private(j)
  BY DEF Onward
<1>1. PICK i \in Inv : Step(i)
  BY DEF Next
<1>2. CASE i = j
  BY <1>1, <1>2, PlainStep, EncoderStep
<1>3. CASE i # j
  BY <1>1, <1>3, OthersKept, DomainsTyped
<1> QED  BY <1>2, <1>3

LEMMA StepsLeftType ==
  ASSUME PreRunAssumption, NEW most, NoMoreFiles(most), TypeInv, WritesListed, NEW i \in Inv
  PROVE  /\ StepsLeft(i, most) \in 0 .. 11 + 2 * Pass(most)
         /\ StepsLeft(i, most) = 0 <=> pc[i] \in Ended
<1> DEFINE w == work[i]
<1>1. /\ w \in Work /\ w.next # 0 /\ w.block \in 1 .. Blocks /\ Blocks \in Nat
      /\ Pass(most) \in Nat /\ PerFile \in Nat /\ PerFile = Blocks + 1
  <2>1. w \in Work /\ w.next # 0
    BY TypeParts DEF WorkAt
  <2> QED  BY <2>1, PassType DEF Work, PreRunAssumption
<1>2. /\ FileSteps(w) \in Nat /\ SecondPass(w, most) \in {0, Pass(most) + 2}
      /\ FileSteps(w) <= Pass(most)
      /\ Listed(w) => FileSteps(w) >= PerFile
  <2> HIDE DEF w
  <2> QED  BY <1>1, FileStepsType
<1>3. CASE pc[i] \in Ended
  <2>1. StepsLeft(i, most) = 0
    BY <1>3 DEF StepsLeft, Ended
  <2> QED  BY <1>1, <1>3, <2>1
<1>4. CASE pc[i] \notin Ended
  <2>1. \/ StepsLeft(i, most) \in {1, 2, 3, 4 + FileSteps(w) + SecondPass(w, most),
                                  5 + Pass(most) + SecondPass(w, most), 8 + 2 * Pass(most),
                                  9 + 2 * Pass(most), 10 + 2 * Pass(most), 11 + 2 * Pass(most)}
        \/ StepsLeft(i, most) = 4 + FileSteps(w) + SecondPass(w, most) - w.block /\ Listed(w)
    <3>1. pc[i] \in {"idle", "inspect", "unlink", "save", "list", "encode", "write",
                     "predict", "prompt", "proceed", "forward"}
      BY <1>4 DEF TypeInv, TypeOK
    <3> QED  BY <1>4, <3>1 DEF StepsLeft, WritesListed, FilesLeft, Listed
  <2> DEFINE left == StepsLeft(i, most)
             files == FileSteps(w)
             second == SecondPass(w, most)
             pass == Pass(most)
             block == w.block
  <2>2. /\ second \in Nat /\ second <= pass + 2 /\ pass \in Nat
        /\ files \in Nat /\ files <= pass
        /\ block \in Nat /\ block >= 1 /\ (Listed(w) => files >= block)
    <3>1. second \in Nat /\ second <= pass + 2
      BY <1>1, <1>2
    <3>2. block \in Nat /\ block >= 1 /\ block < PerFile
      BY <1>1
    <3> QED  BY <1>1, <1>2, <3>1, <3>2
  <2> HIDE DEF left, files, second, pass, block
  <2>3. CASE left = 4 + files + second - block /\ Listed(w)
    <3>1. left \in Nat /\ left >= 1 /\ left <= 11 + 2 * pass
      BY <2>2, <2>3
    <3> QED  BY <1>4, <2>2, <3>1 DEF left, pass
  <2>4. CASE left \in {1, 2, 3, 4 + files + second, 5 + pass + second, 8 + 2 * pass,
                       9 + 2 * pass, 10 + 2 * pass, 11 + 2 * pass}
    <3>1. left \in Nat /\ left >= 1 /\ left <= 11 + 2 * pass
      BY <2>2, <2>4
    <3> QED  BY <1>4, <2>2, <3>1 DEF left, pass
  <2> QED  BY <2>1, <2>3, <2>4 DEF left, files, second, pass, block
<1> QED  BY <1>3, <1>4

(* The phase comes to an end: if no image has more than the given number of *)
(* files, an invocation takes at most 11 steps and, for every file and      *)
(* encoder, one and one for each block, until it has handed over to the     *)
(* runtime or refused, although the tarball may be another one at every     *)
(* look at it; then nothing of it changes any more.  No step of another     *)
(* invocation brings it back or alters what it knows.                       *)
THEOREM Finite ==
  ASSUME NEW most, NoMoreFiles(most)
  PROVE  Spec => /\ [](\A i \in Inv : /\ StepsLeft(i, most) \in 0 .. 11 + 2 * Pass(most)
                                      /\ StepsLeft(i, most) = 0 <=> pc[i] \in Ended)
                 /\ [][Onward(most)]_vars
<1>1. TypeInv /\ WritesListed =>
        \A i \in Inv : /\ StepsLeft(i, most) \in 0 .. 11 + 2 * Pass(most)
                       /\ StepsLeft(i, most) = 0 <=> pc[i] \in Ended
  BY StepsLeftType, PreRunAssumption
<1>2. TypeInv /\ TypeInv' /\ WritesListed /\ [Next]_vars => [Onward(most)]_vars
  BY StepOnward, PreRunAssumption
<1>3. Init => WritesListed
  BY DEF Init, WritesListed
<1>4. Spec => []WritesListed
  BY <1>3, TypeInvHolds, ListedKept, PTL DEF Spec
<1> QED  BY <1>1, <1>2, <1>4, TypeInvHolds, PTL DEF Spec
=============================================================================
