--------------------------- MODULE ValidateProofs ---------------------------
(***************************************************************************)
(* validate_chunk meets its reference for every chunk.                     *)
(*                                                                         *)
(* The loop is a function of the number of rows it has seen. What it has   *)
(* computed after each of them is proved by induction, in the form of the  *)
(* least number for which it would be wrong.                               *)
(***************************************************************************)
EXTENDS Validate, NumberLemmas

-----------------------------------------------------------------------------
(* The recursion has a solution. *)

\* What the loop of _dedupe has at row k, if g is what it has had before.
Value(chunk, g, k) ==
    IF k = 0 THEN [best |-> {}, losers |-> {}]
    ELSE IF chunk[k].ok THEN Pass(chunk, g[k - 1], k) ELSE g[k - 1]

IsLoop(chunk, g, n) == g = [k \in 0 .. n |-> Value(chunk, g, k)]

\* A solution for n - 1 rows extends to n rows.
LEMMA LoopExtends ==
    ASSUME NEW chunk, NEW n \in Nat \ {0}, NEW g, IsLoop(chunk, g, n - 1)
    PROVE  \E h : IsLoop(chunk, h, n)
<1> DEFINE h == [k \in 0 .. n |-> IF k = n THEN Value(chunk, g, n) ELSE g[k]]
<1>1. \A k \in 0 .. n : h[k] = Value(chunk, h, k)
  <2> SUFFICES ASSUME NEW k \in 0 .. n
               PROVE  h[k] = Value(chunk, h, k)
    OBVIOUS
  <2>1. k # 0 => h[k - 1] = g[k - 1]
    OBVIOUS
  <2>2. Value(chunk, h, k) = Value(chunk, g, k)
    BY <2>1 DEF Value
  <2>3. CASE k = n
    BY <2>2, <2>3
  <2>4. CASE k # n
    <3>1. k \in 0 .. n - 1
      BY <2>4
    <3>2. g[k] = Value(chunk, g, k)
      BY <3>1 DEF IsLoop
    <3> QED
      BY <2>2, <2>4, <3>2
  <2> QED
    BY <2>3, <2>4
<1>2. h = [k \in 0 .. n |-> Value(chunk, h, k)]
  BY <1>1
<1> QED
  BY <1>2 DEF IsLoop

LEMMA LoopExists ==
    ASSUME NEW chunk, NEW n \in Nat
    PROVE  \E g : IsLoop(chunk, g, n)
<1> DEFINE Missing == {k \in Nat : ~ \E g : IsLoop(chunk, g, k)}
<1> SUFFICES ASSUME Missing # {}
             PROVE  FALSE
  OBVIOUS
<1>1. PICK m \in Missing : \A k \in Missing : m <= k
  BY LeastNumber
<1>2. m # 0
  <2> DEFINE g == [k \in 0 .. 0 |-> [best |-> {}, losers |-> {}]]
  <2>1. g = [k \in 0 .. 0 |-> Value(chunk, g, k)]
    BY DEF Value
  <2> QED
    BY <2>1 DEF IsLoop
<1>3. \E g : IsLoop(chunk, g, m - 1)
  BY <1>1, <1>2
<1> QED
  BY <1>2, <1>3, LoopExtends

\* Dedupe is the last value of the loop.
LEMMA DedupeLoop ==
    ASSUME NEW chunk, Len(chunk) \in Nat
    PROVE  \E g : IsLoop(chunk, g, Len(chunk)) /\ Dedupe(chunk) = g[Len(chunk)]
<1> DEFINE g == CHOOSE h : h = [k \in 0 .. Len(chunk) |-> Value(chunk, h, k)]
<1>1. g = [k \in 0 .. Len(chunk) |-> Value(chunk, g, k)]
  BY LoopExists DEF IsLoop
<1>2. Dedupe(chunk) = g[Len(chunk)]
  BY DEF Dedupe, Value
<1> QED
  BY <1>1, <1>2 DEF IsLoop

-----------------------------------------------------------------------------
(* What the loop has after n rows. *)

Among(chunk, n) == {k \in Candidates(chunk) : k <= n}
LatestAmong(chunk, n) ==
    {k \in Among(chunk, n) : \A j \in Among(chunk, n) : ~ Better(chunk, j, k)}

\* Every row so far is one of the best, or there is a better one among them.
Covered(chunk, best, n) ==
    \A j \in Among(chunk, n) : \E c \in best : c = j \/ Better(chunk, c, j)

Right(chunk, s, n) ==
    /\ s.best = LatestAmong(chunk, n)
    /\ s.losers = Among(chunk, n) \ s.best
    /\ Covered(chunk, s.best, n)

\* The rows validate_chunk gets.
IsRowSet(R) == \A r \in R : r.at \in Int /\ r.ok \in BOOLEAN

LEMMA ChunkDomain ==
    ASSUME NEW R, IsRowSet(R), NEW chunk \in Seq(R)
    PROVE  /\ Len(chunk) \in Nat
           /\ DOMAIN chunk = 1 .. Len(chunk)
           /\ \A k \in DOMAIN chunk : chunk[k].at \in Int /\ chunk[k].ok \in BOOLEAN
  BY DEF IsRowSet

\* Better is a strict order, total on the rows of one student.
LEMMA BetterOrder ==
    ASSUME NEW R, IsRowSet(R), NEW chunk \in Seq(R),
           NEW j \in DOMAIN chunk, NEW k \in DOMAIN chunk, NEW l \in DOMAIN chunk
    PROVE  /\ ~ Better(chunk, j, j)
           /\ Better(chunk, j, k) /\ Better(chunk, k, l) => Better(chunk, j, l)
           /\ chunk[j].id = chunk[k].id =>
                  j = k \/ Better(chunk, j, k) \/ Better(chunk, k, j)
  BY ChunkDomain DEF Better

\* A rejected row changes nothing.
LEMMA RejectedRow ==
    ASSUME NEW R, IsRowSet(R), NEW chunk \in Seq(R), NEW n \in 1 .. Len(chunk),
           ~ chunk[n].ok, NEW s, Right(chunk, s, n - 1)
    PROVE  Right(chunk, s, n)
<1>1. Among(chunk, n) = Among(chunk, n - 1)
  BY ChunkDomain DEF Among, Candidates
<1> QED
  BY <1>1 DEF Right, LatestAmong, Covered

\* A candidate takes its student's place among the best, or loses against it.
LEMMA CandidateRow ==
    ASSUME NEW R, IsRowSet(R), NEW chunk \in Seq(R), NEW n \in 1 .. Len(chunk),
           chunk[n].ok, NEW s, Right(chunk, s, n - 1)
    PROVE  Right(chunk, Pass(chunk, s, n), n)
<1> DEFINE current == {c \in s.best : chunk[c].id = chunk[n].id}
           old == Among(chunk, n - 1)
           new == Among(chunk, n)
<1>1. /\ \A k \in DOMAIN chunk : chunk[k].at \in Int
      /\ n \in DOMAIN chunk
      /\ DOMAIN chunk = 1 .. Len(chunk)
  BY ChunkDomain
<1>2. /\ new = old \cup {n} /\ n \notin old
      /\ \A k \in old : k \in DOMAIN chunk /\ k < n
  BY <1>1 DEF Among, Candidates
<1>3. /\ s.best = LatestAmong(chunk, n - 1) /\ s.best \subseteq old
      /\ s.losers = old \ s.best
      /\ \A j \in old : \E c \in s.best : c = j \/ Better(chunk, c, j)
  BY DEF Right, LatestAmong, Covered
<1>4. \A c \in s.best : \A j \in old : ~ Better(chunk, j, c)
  BY <1>3 DEF LatestAmong
<1>5. \A c \in old : Better(chunk, n, c) <=>
                      chunk[c].id = chunk[n].id /\ chunk[n].at >= chunk[c].at
  BY <1>1, <1>2 DEF Better
<1>6. \A c \in old : Better(chunk, c, n) <=>
                      chunk[c].id = chunk[n].id /\ chunk[c].at > chunk[n].at
  BY <1>1, <1>2 DEF Better
<1>7. Pass(chunk, s, n).best = (s.best \cup {n}) \ Beaten(chunk, s.best, n)
      /\ Pass(chunk, s, n).losers = s.losers \cup Beaten(chunk, s.best, n)
  BY DEF Pass
<1>8. CASE \A c \in current : chunk[n].at >= chunk[c].at
  <2> DEFINE best == (s.best \ current) \cup {n}
  <2>1. /\ Pass(chunk, s, n).best = best
        /\ Pass(chunk, s, n).losers = s.losers \cup current
    BY <1>2, <1>3, <1>7, <1>8 DEF Beaten
  <2>2. \A c \in current : Better(chunk, n, c)
    BY <1>3, <1>5, <1>8
  <2>3. \A j \in new : \E c \in best : c = j \/ Better(chunk, c, j)
    <3> SUFFICES ASSUME NEW j \in old
                 PROVE  \E c \in best : c = j \/ Better(chunk, c, j)
      BY <1>2
    <3>1. PICK c \in s.best : c = j \/ Better(chunk, c, j)
      BY <1>3
    <3>2. CASE c \in current
      BY <1>1, <1>2, <1>3, <2>2, <3>1, <3>2, BetterOrder
    <3> QED
      BY <3>1, <3>2
  <2>4. \A j \in old : ~ Better(chunk, j, n)
    <3> SUFFICES ASSUME NEW j \in old, Better(chunk, j, n)
                 PROVE  FALSE
      OBVIOUS
    <3>1. PICK c \in s.best : c = j \/ Better(chunk, c, j)
      BY <1>3
    <3>2. Better(chunk, c, n)
      BY <1>1, <1>2, <1>3, <3>1, BetterOrder
    <3>3. c \in current /\ Better(chunk, n, c)
      BY <1>3, <1>6, <2>2, <3>2
    <3> QED
      BY <1>1, <1>2, <1>3, <3>2, <3>3, BetterOrder
  <2>5. best = LatestAmong(chunk, n)
    <3>1. ASSUME NEW k \in best
          PROVE  k \in LatestAmong(chunk, n)
      <4>1. CASE k = n
        BY <1>1, <1>2, <2>4, <4>1, BetterOrder DEF LatestAmong
      <4>2. CASE k \in s.best \ current
        BY <1>2, <1>3, <1>4, <1>5, <4>2 DEF LatestAmong
      <4> QED
        BY <3>1, <4>1, <4>2
    <3>2. ASSUME NEW k \in LatestAmong(chunk, n)
          PROVE  k \in best
      <4>1. k \in new /\ \A j \in new : ~ Better(chunk, j, k)
        BY DEF LatestAmong
      <4>2. CASE k \in old
        <5>1. k \in s.best
          BY <1>2, <1>3, <4>1, <4>2 DEF LatestAmong
        <5> QED
          BY <1>2, <2>2, <4>1, <5>1
      <4> QED
        BY <1>2, <4>1, <4>2
    <3> QED
      BY <3>1, <3>2
  <2>6. s.losers \cup current = new \ best
    BY <1>2, <1>3
  <2> QED
    BY <2>1, <2>3, <2>5, <2>6 DEF Right, Covered
<1>9. CASE \E c \in current : ~ (chunk[n].at >= chunk[c].at)
  <2>1. PICK c \in current : chunk[c].at > chunk[n].at
    BY <1>1, <1>2, <1>3, <1>9
  <2>2. Better(chunk, c, n)
    BY <1>3, <1>6, <2>1
  <2>3. /\ Pass(chunk, s, n).best = s.best
        /\ Pass(chunk, s, n).losers = s.losers \cup {n}
    BY <1>2, <1>3, <1>7, <1>9 DEF Beaten
  <2>4. \A k \in s.best : ~ Better(chunk, n, k)
    <3> SUFFICES ASSUME NEW k \in s.best, Better(chunk, n, k)
                 PROVE  FALSE
      OBVIOUS
    <3>1. Better(chunk, c, k)
      BY <1>1, <1>2, <1>3, <2>2, BetterOrder
    <3> QED
      BY <1>3, <1>4, <3>1
  <2>5. s.best = LatestAmong(chunk, n)
    BY <1>2, <1>3, <2>2, <2>4 DEF LatestAmong
  <2>6. \A j \in new : \E d \in s.best : d = j \/ Better(chunk, d, j)
    BY <1>2, <1>3, <2>2
  <2>7. s.losers \cup {n} = new \ s.best
    BY <1>2, <1>3
  <2> QED
    BY <2>3, <2>5, <2>6, <2>7 DEF Right, Covered
<1> QED
  BY <1>8, <1>9

-----------------------------------------------------------------------------
(* The theorem. *)

LEMMA DedupeRight ==
    ASSUME NEW R, IsRowSet(R), NEW chunk \in Seq(R)
    PROVE  Right(chunk, Dedupe(chunk), Len(chunk))
<1>1. Len(chunk) \in Nat
  BY ChunkDomain
<1>2. PICK g : IsLoop(chunk, g, Len(chunk)) /\ Dedupe(chunk) = g[Len(chunk)]
  BY <1>1, DedupeLoop
<1>3. \A k \in 0 .. Len(chunk) : g[k] = Value(chunk, g, k)
  BY <1>2 DEF IsLoop
<1> DEFINE Wrong == {k \in 0 .. Len(chunk) : ~ Right(chunk, g[k], k)}
<1> SUFFICES ASSUME Wrong # {}
             PROVE  FALSE
  BY <1>1, <1>2
<1>4. PICK n \in Wrong : \A k \in Wrong : n <= k
  <2>1. Wrong \in SUBSET Nat
    OBVIOUS
  <2> HIDE DEF Wrong
  <2> QED
    BY <2>1, LeastNumber
<1>5. CASE n = 0
  <2>1. Among(chunk, 0) = {}
    BY ChunkDomain DEF Among, Candidates
  <2>2. g[0] = [best |-> {}, losers |-> {}]
    BY <1>1, <1>3 DEF Value
  <2>3. Right(chunk, g[0], 0)
    BY <2>1, <2>2 DEF Right, LatestAmong, Covered
  <2> QED
    BY <1>5, <2>3
<1>6. CASE n # 0
  <2>1. n \in 1 .. Len(chunk) /\ n - 1 \in 0 .. Len(chunk)
    BY <1>1, <1>6
  <2>2. Right(chunk, g[n - 1], n - 1)
    BY <1>4, <2>1
  <2>3. g[n] = IF chunk[n].ok THEN Pass(chunk, g[n - 1], n) ELSE g[n - 1]
    BY <1>3, <1>6 DEF Value
  <2>4. Right(chunk, g[n], n)
    BY <2>1, <2>2, <2>3, RejectedRow, CandidateRow
  <2> QED
    BY <2>4
<1> QED
  BY <1>5, <1>6

\* Every candidate is one of the latest rows, or a latest row is better.
LEMMA LatestCovers ==
    ASSUME NEW R, IsRowSet(R), NEW chunk \in Seq(R)
    PROVE  \A k \in Candidates(chunk) : \E j \in Latest(chunk) :
               j = k \/ Better(chunk, j, k)
<1>1. Among(chunk, Len(chunk)) = Candidates(chunk)
  BY ChunkDomain DEF Among, Candidates
<1>2. LatestAmong(chunk, Len(chunk)) = Latest(chunk)
  BY <1>1 DEF LatestAmong, Latest
<1> QED
  BY <1>1, <1>2, DedupeRight DEF Right, Covered

\* Each student's freshest row survives, the later of equals, and every other
\* row is quarantined, whatever the length and the order of the chunk.
THEOREM ValidateSplitsRight ==
    ASSUME NEW R, IsRowSet(R), NEW chunk \in Seq(R)
    PROVE  SplitsRight(chunk)
<1>1. Among(chunk, Len(chunk)) = Candidates(chunk)
  BY ChunkDomain DEF Among, Candidates
<1>2. LatestAmong(chunk, Len(chunk)) = Latest(chunk)
  BY <1>1 DEF LatestAmong, Latest
<1>3. /\ Dedupe(chunk).best = Latest(chunk)
      /\ Dedupe(chunk).losers = Candidates(chunk) \ Latest(chunk)
  BY <1>1, <1>2, DedupeRight DEF Right
<1>4. /\ Rejected(chunk) = DOMAIN chunk \ Candidates(chunk)
      /\ Latest(chunk) \subseteq Candidates(chunk)
  BY DEF Rejected, Candidates, Latest
<1>5. Candidates(chunk) \subseteq DOMAIN chunk
  BY DEF Candidates
<1> QED
  BY <1>3, <1>4, <1>5 DEF SplitsRight, Survivors, Quarantined
=============================================================================
