---------------------------- MODULE GamesProofs ----------------------------
(***************************************************************************)
(* Machine-checked proofs about the games of the database, for any number  *)
(* of games, events, requests and flushes.  Most rest on what no statement *)
(* takes back: a row is never deleted, keeps its player, mode and room,    *)
(* its score never falls and a finished game stays finished (RowsGrow).    *)
(***************************************************************************)
EXTENDS Games, Induction, FiniteSetTheorems, TLAPS

-----------------------------------------------------------------------------
(* Sums over finite sets *)

Pick(s) == CHOOSE x \in s : TRUE

\* h is the function by which the sum of f over S is computed.
SumsOver(h, f, S) ==
    h = [s \in SUBSET S |-> IF s = {} THEN 0 ELSE f[Pick(s)] + h[s \ {Pick(s)}]]

LEMMA SumUnfolds ==
  ASSUME NEW f, NEW S
  PROVE  SumFunctionOnSet(f, S) = (CHOOSE h : SumsOver(h, f, S))[S]
  BY DEF SumFunctionOnSet, FoldFunctionOnSet, MapThenFoldSet, SumsOver, Pick

\* A set with its pick taken out is smaller.
LEMMA PickFacts ==
  ASSUME NEW s, IsFiniteSet(s), s # {}
  PROVE  /\ Pick(s) \in s /\ IsFiniteSet(s \ {Pick(s)})
         /\ Cardinality(s) \in Nat /\ Cardinality(s) > 0
         /\ Cardinality(s \ {Pick(s)}) = Cardinality(s) - 1
  <1>1. Pick(s) \in s
    BY DEF Pick
  <1>2. Cardinality(s) \in Nat /\ Cardinality(s) # 0
    BY FS_CardinalityType, FS_EmptySet
  <1>3. QED
    BY <1>1, <1>2, FS_RemoveElement

\* SumsOver, for the subsets of at most k elements.
Small(S, k) == {s \in SUBSET S : Cardinality(s) <= k}

PartSums(h, f, S, k) ==
    h = [s \in Small(S, k) |-> IF s = {} THEN 0 ELSE f[Pick(s)] + h[s \ {Pick(s)}]]

LEMMA SumsExist ==
  ASSUME NEW f, NEW S, IsFiniteSet(S)
  PROVE  \E h : SumsOver(h, f, S)
  <1>0. /\ Cardinality(S) \in Nat
        /\ \A s \in SUBSET S : /\ IsFiniteSet(s) /\ Cardinality(s) \in Nat
                               /\ Cardinality(s) <= Cardinality(S)
    BY FS_CardinalityType, FS_Subset
  <1> DEFINE N == {k \in 0 .. Cardinality(S) : \E h : PartSums(h, f, S, k)}
  <1>1. 0 \in N
    <2>1. \A s \in Small(S, 0) : s = {}
      BY <1>0, FS_EmptySet DEF Small
    <2>2. PartSums([s \in Small(S, 0) |-> 0], f, S, 0)
      BY <2>1 DEF PartSums
    <2>3. QED
      BY <1>0, <2>2
  <1>2. ASSUME NEW k \in 1 .. Cardinality(S), k - 1 \in N PROVE k \in N
    <2>1. PICK h : PartSums(h, f, S, k - 1)
      BY <1>2
    <2> DEFINE g == [s \in Small(S, k) |-> IF s = {} THEN 0 ELSE f[Pick(s)] + h[s \ {Pick(s)}]]
    <2>2. ASSUME NEW s \in Small(S, k), s # {}
          PROVE  s \ {Pick(s)} \in Small(S, k - 1) /\ s \ {Pick(s)} \in Small(S, k)
      <3>1. s \in SUBSET S /\ IsFiniteSet(s) /\ Cardinality(s) \in Nat /\ Cardinality(s) <= k
        BY <1>0 DEF Small
      <3>2. Cardinality(s \ {Pick(s)}) = Cardinality(s) - 1
        BY <2>2, <3>1, PickFacts
      <3>3. s \ {Pick(s)} \in SUBSET S
        BY <3>1
      <3>4. Cardinality(s \ {Pick(s)}) <= k - 1 /\ Cardinality(s \ {Pick(s)}) <= k
        BY <1>0, <3>1, <3>2
      <3>5. QED
        BY <3>3, <3>4 DEF Small
    <2>3. ASSUME NEW s \in Small(S, k), s \in Small(S, k - 1) PROVE g[s] = h[s]
      BY <2>1, <2>3 DEF PartSums
    <2>4. ASSUME NEW s \in Small(S, k)
          PROVE  g[s] = IF s = {} THEN 0 ELSE f[Pick(s)] + g[s \ {Pick(s)}]
      <3>1. CASE s = {}
        BY <3>1
      <3>2. CASE s # {}
        <4>1. g[s \ {Pick(s)}] = h[s \ {Pick(s)}]
          BY <2>2, <2>3, <3>2
        <4>2. g[s] = f[Pick(s)] + h[s \ {Pick(s)}]
          BY <3>2
        <4> HIDE DEF g
        <4>3. QED
          BY <3>2, <4>1, <4>2
      <3>3. QED
        BY <3>1, <3>2
    <2>5. g = [s \in Small(S, k) |-> g[s]]
      OBVIOUS
    <2> HIDE DEF g
    <2>6. PartSums(g, f, S, k)
      BY <2>4, <2>5 DEF PartSums
    <2>7. QED
      BY <1>0, <2>6
  <1>3. Cardinality(S) \in N
    <2> HIDE DEF N
    <2>1. \A k \in 0 .. Cardinality(S) : k \in N
      BY <1>0, <1>1, <1>2, IntervalInduction
    <2>2. QED
      BY <1>0, <2>1
  <1>4. Small(S, Cardinality(S)) = SUBSET S
    BY <1>0 DEF Small
  <1>5. QED
    BY <1>3, <1>4 DEF PartSums, SumsOver

Agree(f, g, t) == \A x \in t : f[x] = g[x]

\* Sums of functions that agree on a set are the same, whatever set each was
\* computed in.
LEMMA SumsAgree ==
  ASSUME NEW f, NEW g, NEW S, NEW T, IsFiniteSet(S), NEW h, NEW i,
         SumsOver(h, f, S), SumsOver(i, g, T),
         NEW t, t \subseteq S, t \subseteq T, Agree(f, g, t)
  PROVE  h[t] = i[t]
  <1>0. /\ IsFiniteSet(t) /\ Cardinality(t) \in Nat
        /\ \A s \in SUBSET t : /\ IsFiniteSet(s) /\ Cardinality(s) \in Nat
                               /\ Cardinality(s) <= Cardinality(t)
    BY FS_CardinalityType, FS_Subset
  <1> DEFINE N == {k \in 0 .. Cardinality(t) :
                     \A s \in SUBSET t : Cardinality(s) <= k => h[s] = i[s]}
  <1>1. 0 \in N
    <2>1. ASSUME NEW s \in SUBSET t, Cardinality(s) <= 0 PROVE h[s] = i[s]
      <3>1. s = {}
        BY <1>0, <2>1, FS_EmptySet
      <3>2. h[s] = 0 /\ i[s] = 0
        BY <3>1 DEF SumsOver
      <3>3. QED
        BY <3>2
    <2>2. QED
      BY <1>0, <2>1
  <1>2. ASSUME NEW k \in 1 .. Cardinality(t), k - 1 \in N PROVE k \in N
    <2>1. ASSUME NEW s \in SUBSET t, Cardinality(s) <= k PROVE h[s] = i[s]
      <3>1. CASE s = {}
        <4>1. h[s] = 0 /\ i[s] = 0
          BY <3>1 DEF SumsOver
        <4>2. QED
          BY <4>1
      <3>2. CASE s # {}
        <4> DEFINE r == s \ {Pick(s)}
        <4>1. Pick(s) \in s /\ Cardinality(r) = Cardinality(s) - 1 /\ Cardinality(s) \in Nat
          BY <1>0, <3>2, PickFacts
        <4>2. r \in SUBSET t /\ Cardinality(r) <= k - 1
          BY <2>1, <4>1
        <4>3. h[r] = i[r]
          BY <1>2, <4>2
        <4>4. h[s] = f[Pick(s)] + h[r]
          <5>1. s \in SUBSET S
            OBVIOUS
          <5>2. QED
            BY <3>2, <5>1 DEF SumsOver
        <4>5. i[s] = g[Pick(s)] + i[r]
          <5>1. s \in SUBSET T
            OBVIOUS
          <5>2. QED
            BY <3>2, <5>1 DEF SumsOver
        <4>6. f[Pick(s)] = g[Pick(s)]
          BY <4>1 DEF Agree
        <4>7. QED
          BY <4>3, <4>4, <4>5, <4>6
      <3>3. QED
        BY <3>1, <3>2
    <2>2. QED
      BY <2>1
  <1>3. Cardinality(t) \in N
    <2> HIDE DEF N
    <2>1. \A k \in 0 .. Cardinality(t) : k \in N
      BY <1>0, <1>1, <1>2, IntervalInduction
    <2>2. QED
      BY <1>0, <2>1
  <1>4. QED
    BY <1>0, <1>3

LEMMA SumOfNone == ASSUME NEW f PROVE SumFunctionOnSet(f, {}) = 0
  <1>1. PICK h : SumsOver(h, f, {}) /\ SumFunctionOnSet(f, {}) = h[{}]
    <2>1. IsFiniteSet({})
      BY FS_EmptySet
    <2>2. \E h : SumsOver(h, f, {})
      BY <2>1, SumsExist
    <2>3. QED
      BY <2>2, SumUnfolds
  <1>2. QED
    BY <1>1 DEF SumsOver

LEMMA SumOfSame ==
  ASSUME NEW f, NEW g, NEW S, IsFiniteSet(S), \A x \in S : f[x] = g[x]
  PROVE  SumFunctionOnSet(f, S) = SumFunctionOnSet(g, S)
  <1>1. PICK h : SumsOver(h, f, S) /\ SumFunctionOnSet(f, S) = h[S]
    <2>1. \E h : SumsOver(h, f, S)
      BY SumsExist
    <2>2. QED
      BY <2>1, SumUnfolds
  <1>2. PICK i : SumsOver(i, g, S) /\ SumFunctionOnSet(g, S) = i[S]
    <2>1. \E i : SumsOver(i, g, S)
      BY SumsExist
    <2>2. QED
      BY <2>1, SumUnfolds
  <1>3. h[S] = i[S]
    <2>1. S \subseteq S /\ Agree(f, g, S)
      BY DEF Agree
    <2>2. QED
      BY <1>1, <1>2, <2>1, SumsAgree
  <1>4. QED
    BY <1>1, <1>2, <1>3

LEMMA SumOfPick ==
  ASSUME NEW f, NEW S, IsFiniteSet(S), S # {}
  PROVE  SumFunctionOnSet(f, S) = f[Pick(S)] + SumFunctionOnSet(f, S \ {Pick(S)})
  <1> DEFINE T == S \ {Pick(S)}
             h == CHOOSE h : SumsOver(h, f, S)
             i == CHOOSE i : SumsOver(i, f, T)
  <1>1. IsFiniteSet(T)
    BY PickFacts
  <1>2. SumsOver(h, f, S)
    BY SumsExist
  <1>3. SumsOver(i, f, T)
    <2> HIDE DEF T
    <2>1. QED
      BY <1>1, SumsExist
  <1>4. SumFunctionOnSet(f, S) = h[S] /\ SumFunctionOnSet(f, T) = i[T]
    BY SumUnfolds
  <1> HIDE DEF h, i
  <1>5. h[S] = f[Pick(S)] + h[T]
    BY <1>2 DEF SumsOver
  <1>6. T \subseteq S /\ T \subseteq T /\ Agree(f, f, T)
    BY DEF Agree
  <1>7. h[T] = i[T]
    <2> HIDE DEF T
    <2>1. QED
      BY <1>2, <1>3, <1>6, SumsAgree
  <1>8. QED
    BY <1>4, <1>5, <1>7

\* A sum of integers is an integer, of naturals a natural, and any element can
\* be taken out of it.
LEMMA SumFacts ==
  ASSUME NEW f, NEW T, IsFiniteSet(T), \A x \in T : f[x] \in Int
  PROVE  \A s \in SUBSET T :
            /\ SumFunctionOnSet(f, s) \in Int
            /\ (\A x \in s : f[x] >= 0) => SumFunctionOnSet(f, s) >= 0
            /\ \A x \in s : SumFunctionOnSet(f, s) = f[x] + SumFunctionOnSet(f, s \ {x})
  <1>0. /\ Cardinality(T) \in Nat
        /\ \A s \in SUBSET T : /\ IsFiniteSet(s) /\ Cardinality(s) \in Nat
                               /\ Cardinality(s) <= Cardinality(T)
    BY FS_CardinalityType, FS_Subset
  <1> DEFINE Sums(s) == SumFunctionOnSet(f, s)
             Good(s) == /\ Sums(s) \in Int
                        /\ (\A x \in s : f[x] >= 0) => Sums(s) >= 0
                        /\ \A x \in s : Sums(s) = f[x] + Sums(s \ {x})
             N == {k \in 0 .. Cardinality(T) :
                     \A s \in SUBSET T : Cardinality(s) <= k => Good(s)}
  <1>1. 0 \in N
    <2>1. ASSUME NEW s \in SUBSET T, Cardinality(s) <= 0 PROVE Good(s)
      <3>1. s = {}
        BY <1>0, <2>1, FS_EmptySet
      <3>2. Sums(s) = 0
        BY <3>1, SumOfNone
      <3>3. QED
        BY <3>1, <3>2
    <2> HIDE DEF Good
    <2>2. QED
      BY <1>0, <2>1
  <1>2. ASSUME NEW k \in 1 .. Cardinality(T), k - 1 \in N PROVE k \in N
    <2>1. ASSUME NEW s \in SUBSET T, Cardinality(s) <= k PROVE Good(s)
      <3>1. CASE s = {}
        <4>1. Sums(s) = 0
          BY <3>1, SumOfNone
        <4>2. QED
          BY <3>1, <4>1
      <3>2. CASE s # {}
        <4> DEFINE p == Pick(s)
                   r == s \ {p}
        <4>1. p \in s /\ Cardinality(r) = Cardinality(s) - 1 /\ Cardinality(s) \in Nat
          BY <1>0, <3>2, PickFacts
        <4>2. Sums(s) = f[p] + Sums(r)
          BY <1>0, <3>2, SumOfPick
        <4>3. Good(r)
          <5> HIDE DEF Good
          <5>1. r \in SUBSET T /\ Cardinality(r) <= k - 1
            BY <2>1, <4>1
          <5> HIDE DEF r
          <5>2. QED
            BY <1>2, <5>1
        <4>4. f[p] \in Int /\ Sums(r) \in Int
          BY <4>1, <4>3
        <4>5. Sums(s) \in Int
          BY <4>2, <4>4
        <4>6. (\A x \in s : f[x] >= 0) => Sums(s) >= 0
          <5>1. ASSUME \A x \in s : f[x] >= 0 PROVE Sums(s) >= 0
            <6>1. f[p] >= 0 /\ \A x \in r : f[x] >= 0
              BY <4>1, <5>1
            <6>2. Sums(r) >= 0
              BY <4>3, <6>1
            <6> HIDE DEF p, r, Sums
            <6>3. QED
              BY <4>2, <4>4, <6>1, <6>2
          <5>2. QED
            BY <5>1
        <4>7. ASSUME NEW x \in s PROVE Sums(s) = f[x] + Sums(s \ {x})
          <5>1. CASE x = p
            BY <4>2, <5>1
          <5>2. CASE x # p
            <6> DEFINE q == s \ {x}
                       rest == r \ {x}
            <6>1. x \in r /\ p \in q /\ rest = q \ {p}
              BY <4>1, <5>2
            <6>2. Sums(r) = f[x] + Sums(rest)
              BY <4>3, <6>1
            <6>3. Good(q)
              <7>1. IsFiniteSet(s) /\ q \in SUBSET T
                BY <1>0
              <7>2. Cardinality(q) = Cardinality(s) - 1
                BY <7>1, FS_RemoveElement
              <7>3. Cardinality(q) <= k - 1
                BY <2>1, <4>1, <7>2
              <7> HIDE DEF Good, q
              <7>4. QED
                BY <1>2, <7>1, <7>3
            <6>4. Sums(q) = f[p] + Sums(rest)
              BY <6>1, <6>3
            <6>5. f[x] \in Int /\ Sums(rest) \in Int
              <7>1. f[x] \in Int
                OBVIOUS
              <7>2. Good(rest)
                <8>1. r \in SUBSET T /\ rest \in SUBSET T /\ IsFiniteSet(r)
                  BY <1>0
                <8>2. Cardinality(rest) <= Cardinality(r) /\ Cardinality(rest) \in Nat
                  <9> HIDE DEF r
                  <9>1. rest \in SUBSET r
                    OBVIOUS
                  <9>2. Cardinality(rest) <= Cardinality(r)
                    BY <8>1, <9>1, FS_Subset
                  <9>3. QED
                    BY <1>0, <8>1, <9>2
                <8>3. Cardinality(rest) <= k - 1
                  BY <1>0, <2>1, <4>1, <8>1, <8>2
                <8> HIDE DEF Good, rest
                <8>4. QED
                  BY <1>2, <8>1, <8>3
              <7>3. QED
                BY <7>1, <7>2
            <6> HIDE DEF p, r, q, rest, Sums
            <6>6. Sums(s) = f[x] + Sums(q)
              BY <4>2, <4>4, <6>2, <6>4, <6>5
            <6>7. QED
              BY <6>6 DEF q
          <5>3. QED
            BY <5>1, <5>2
        <4>8. QED
          BY <4>5, <4>6, <4>7
      <3>3. QED
        BY <3>1, <3>2
    <2> HIDE DEF Good
    <2>2. QED
      BY <2>1
  <1>3. Cardinality(T) \in N
    <2> HIDE DEF N
    <2>1. \A k \in 0 .. Cardinality(T) : k \in N
      BY <1>0, <1>1, <1>2, IntervalInduction
    <2>2. QED
      BY <1>0, <2>1
  <1>4. QED
    BY <1>0, <1>3

-----------------------------------------------------------------------------
(* Sequences *)

LEMMA AppendFacts ==
  ASSUME NEW T, NEW s \in Seq(T), NEW e \in T
  PROVE  /\ Append(s, e) \in Seq(T)
         /\ Len(s) \in Nat /\ Len(Append(s, e)) = Len(s) + 1
         /\ DOMAIN s = 1 .. Len(s) /\ DOMAIN Append(s, e) = 1 .. Len(s) + 1
         /\ \A i \in 1 .. Len(s) : Append(s, e)[i] = s[i]
         /\ Append(s, e)[Len(s) + 1] = e
  OBVIOUS

LEMMA UpdateFacts ==
  ASSUME NEW T, NEW s \in Seq(T), NEW i \in DOMAIN s, NEW e \in T
  PROVE  /\ [s EXCEPT ![i] = e] \in Seq(T)
         /\ Len([s EXCEPT ![i] = e]) = Len(s) /\ DOMAIN [s EXCEPT ![i] = e] = DOMAIN s
         /\ \A j \in DOMAIN s \ {i} : [s EXCEPT ![i] = e][j] = s[j]
         /\ [s EXCEPT ![i] = e][i] = e
  <1> DEFINE u == [s EXCEPT ![i] = e]
  <1>1. Len(s) \in Nat /\ DOMAIN s = 1 .. Len(s) /\ DOMAIN u = 1 .. Len(s)
    OBVIOUS
  <1>2. \A j \in 1 .. Len(s) : u[j] \in T
    OBVIOUS
  <1>3. u = [j \in 1 .. Len(s) |-> u[j]]
    OBVIOUS
  <1> HIDE DEF u
  <1>4. u \in Seq(T) /\ Len(u) = Len(s)
    BY <1>1, <1>2, <1>3
  <1>5. QED
    BY <1>1, <1>4 DEF u

-----------------------------------------------------------------------------
(* Type correctness *)

EventType == [game: Nat, type: {"game_started", "hit", "game_over"}, points: Int]

FlushType == [pc: {"new", "best", "persist", "done"}, run: Runs \cup {NewFlush.run},
              best: Int, game: Nat, improved: BOOLEAN]

RowType == [id: Nat, player: Players, mode: Modes,
            status: {"playing", "finished"}, score: Nat]

\* seen is a function on the games whose events were read.
ReaderType == [pc: {"idle", "list", "listed", "history", "flagged", "events", "state"},
               from: Nat, player: Players \cup {NewReader.player}, rows: SUBSET RowType,
               best: Int, seen: UNION {[s -> Int] : s \in SUBSET Nat}]

\* A request under way is about a game that exists, and stores points to add
\* only when there are some; a flush under way has the run it was called with.
Busied ==
    \A r \in Requests : req[r].pc # "idle" =>
        req[r].game \in Ids /\ (req[r].pc = "points" => req[r].points > 0)

RunsGiven == \A f \in Flushes : flush[f].pc # "new" => flush[f].run \in Runs

GamesInv ==
    /\ known \subseteq Players
    /\ rooms \in Nat
    /\ games \in Seq(GameType)
    /\ events \in Seq(EventType)
    /\ \A i \in DOMAIN events : events[i].game \in Ids
    /\ req \in [Requests -> RequestType]
    /\ Busied
    /\ flush \in [Flushes -> FlushType]
    /\ RunsGiven
    /\ reader \in ReaderType
    /\ \A row \in reader.rows : row.id \in Ids
    /\ endedAt \in Seq(Int) /\ Len(endedAt) = Len(games)

LEMMA Numbered ==
  ASSUME GamesInv
  PROVE  /\ Len(games) \in Nat /\ Ids = 1 .. Len(games) /\ DOMAIN endedAt = Ids
         /\ Len(events) \in Nat /\ DOMAIN events = 1 .. Len(events)
         /\ Ids \subseteq Nat
         /\ \A g \in Ids : games[g] \in GameType /\ endedAt[g] \in Int
         /\ \A i \in DOMAIN events : events[i] \in EventType
  BY DEF GamesInv, Ids

LEMMA NewTypes ==
  /\ NewRequest \in RequestType /\ NewRequest.pc = "idle"
  /\ NewFlush \in FlushType /\ NewFlush.pc = "new" /\ NewFlush.best = NoScore
  /\ NewReader \in ReaderType /\ NewReader.pc = "idle" /\ NewReader.rows = {}
  <1>1. NewReader.seen \in [{} -> Int]
    BY DEF NewReader
  <1>2. NewReader.seen \in UNION {[s -> Int] : s \in SUBSET Nat}
    BY <1>1
  <1>3. NewReader \in ReaderType
    BY <1>2 DEF NewReader, ReaderType, NoScore
  <1>4. NewFlush \in FlushType
    BY DEF NewFlush, FlushType, NoScore
  <1>5. QED
    BY <1>3, <1>4 DEF NewRequest, RequestType, NewFlush, NewReader

LEMMA InitGames == ASSUME Init PROVE GamesInv
  <1>1. games \in Seq(GameType) /\ events \in Seq(EventType) /\ endedAt \in Seq(Int)
    BY DEF Init
  <1>2. Len(games) = 0 /\ Len(endedAt) = 0 /\ DOMAIN events = {}
    BY DEF Init
  <1>3. Busied /\ RunsGiven
    BY NewTypes DEF Init, Busied, RunsGiven
  <1>4. QED
    BY <1>1, <1>2, <1>3, NewTypes DEF Init, GamesInv

\* What a statement does to the tables.
NewGame(row) ==
    /\ games' \in Seq(GameType) /\ Len(games') = Len(games) + 1
    /\ Ids' = Ids \cup {Len(games) + 1} /\ Len(games) + 1 \notin Ids
    /\ \A g \in Ids : games'[g] = games[g]
    /\ games'[Len(games) + 1] = row

NewEnd(n) ==
    /\ endedAt' \in Seq(Int) /\ Len(endedAt') = Len(games) + 1
    /\ \A g \in Ids : endedAt'[g] = endedAt[g]
    /\ endedAt'[Len(games) + 1] = n

NewEvent(e) ==
    /\ events' \in Seq(EventType) /\ Len(events') = Len(events) + 1
    /\ DOMAIN events' = DOMAIN events \cup {Len(events) + 1}
    /\ Len(events) + 1 \notin DOMAIN events
    /\ \A i \in DOMAIN events : events'[i] = events[i]
    /\ events'[Len(events) + 1] = e

Rewritten(g, row) ==
    /\ games' \in Seq(GameType) /\ Len(games') = Len(games) /\ Ids' = Ids
    /\ \A h \in Ids \ {g} : games'[h] = games[h]
    /\ games'[g] = row

LEMMA GameAppended ==
  ASSUME GamesInv, NEW row \in GameType, games' = Append(games, row)
  PROVE  NewGame(row)
  <1>1. games \in Seq(GameType)
    BY DEF GamesInv
  <1>2. QED
    BY <1>1, AppendFacts DEF NewGame, Ids

LEMMA EndAppended ==
  ASSUME GamesInv, NEW n \in Int, endedAt' = Append(endedAt, n)
  PROVE  NewEnd(n)
  <1>1. endedAt \in Seq(Int) /\ Len(endedAt) = Len(games)
    BY DEF GamesInv
  <1>2. QED
    BY <1>1, Numbered, AppendFacts DEF NewEnd

LEMMA EventAppended ==
  ASSUME GamesInv, NEW e \in EventType, events' = Append(events, e)
  PROVE  NewEvent(e)
  <1>1. events \in Seq(EventType)
    BY DEF GamesInv
  <1>2. QED
    BY <1>1, AppendFacts DEF NewEvent

LEMMA GameRewritten ==
  ASSUME GamesInv, NEW g \in Ids, NEW row \in GameType, games' = [games EXCEPT ![g] = row]
  PROVE  Rewritten(g, row)
  <1>1. games \in Seq(GameType) /\ g \in DOMAIN games
    BY DEF GamesInv, Ids
  <1>2. QED
    BY <1>1, UpdateFacts DEF Rewritten, Ids

\* A request that takes a step becomes the record given, the others stay.
LEMMA RequestBecomes ==
  ASSUME GamesInv, NEW r \in Requests, NEW next \in RequestType, req' = [req EXCEPT ![r] = next]
  PROVE  /\ req' \in [Requests -> RequestType] /\ req'[r] = next
         /\ \A q \in Requests \ {r} : req'[q] = req[q]
  BY DEF GamesInv

LEMMA FlushBecomes ==
  ASSUME GamesInv, NEW f \in Flushes, NEW next \in FlushType, flush' = [flush EXCEPT ![f] = next]
  PROVE  /\ flush' \in [Flushes -> FlushType] /\ flush'[f] = next
         /\ \A h \in Flushes \ {f} : flush'[h] = flush[h]
  BY DEF GamesInv

-----------------------------------------------------------------------------
(* What each action does *)

GameStarted(start, room) ==
    [player |-> start.player, mode |-> start.mode, status |-> "playing", score |-> 0,
     room |-> IF room = NoRoom THEN rooms + 1 ELSE room]

Event(g, type, points) == [game |-> g, type |-> type, points |-> points]

LEMMA StartFacts ==
  ASSUME GamesInv, NEW start \in Starts, NEW room \in 0 .. rooms, StartGame(start, room)
  PROVE  /\ start.player \in Players /\ known' = known \cup {start.player} /\ rooms' \in Nat
         /\ GameStarted(start, room).room \in Nat \ {NoRoom}
         /\ NewGame(GameStarted(start, room)) /\ NewEnd(-1)
         /\ NewEvent(Event(Len(games) + 1, "game_started", 0))
         /\ UNCHANGED <<req, flush, reader>>
  <1>1. start \in [player: Players, mode: Modes] /\ rooms \in Nat
    BY StartsAssumption DEF Modes, GamesInv
  <1>2. GameStarted(start, room) \in GameType /\ GameStarted(start, room).room \in Nat \ {NoRoom}
    BY <1>1 DEF GameStarted, GameType, NoRoom
  <1>3. Len(games) \in Nat /\ Event(Len(games) + 1, "game_started", 0) \in EventType
    BY Numbered DEF Event, EventType
  <1>4. games' = Append(games, GameStarted(start, room))
    BY DEF StartGame, GameStarted
  <1>5. events' = Append(events, Event(Len(games) + 1, "game_started", 0))
    BY DEF StartGame, Event
  <1>6. endedAt' = Append(endedAt, -1) /\ known' = known \cup {start.player} /\ rooms' \in Nat
        /\ UNCHANGED <<req, flush, reader>>
    BY <1>1 DEF StartGame
  <1>7. QED
    BY <1>1, <1>2, <1>3, <1>4, <1>5, <1>6, GameAppended, EndAppended, EventAppended

LEMMA AddGameEventFacts ==
  ASSUME GamesInv, NEW r \in Requests, NEW g \in Ids, NEW points \in Points,
         AddGameEvent(r, g, points)
  PROVE  /\ req[r].pc = "idle" /\ games[g].status = "playing"
         /\ req' \in [Requests -> RequestType]
         /\ req'[r] = [pc |-> "event", game |-> g, points |-> points]
         /\ \A q \in Requests \ {r} : req'[q] = req[q]
         /\ UNCHANGED <<known, rooms, games, events, flush, reader, endedAt>>
  <1> DEFINE next == [pc |-> "event", game |-> g, points |-> points]
  <1>1. next \in RequestType
    BY Numbered, PointsAssumption DEF RequestType
  <1>2. req' = [req EXCEPT ![r] = next]
    BY DEF AddGameEvent, Request
  <1> HIDE DEF next
  <1>3. /\ req' \in [Requests -> RequestType] /\ req'[r] = next
        /\ \A q \in Requests \ {r} : req'[q] = req[q]
    BY <1>1, <1>2, RequestBecomes
  <1>4. QED
    BY <1>3 DEF next, AddGameEvent

LEMMA FinishGameFacts ==
  ASSUME GamesInv, NEW r \in Requests, NEW g \in Ids, FinishGame(r, g)
  PROVE  /\ req[r].pc = "idle" /\ games[g].status = "playing"
         /\ req' \in [Requests -> RequestType]
         /\ req'[r] = [pc |-> "finish", game |-> g, points |-> 0]
         /\ \A q \in Requests \ {r} : req'[q] = req[q]
         /\ UNCHANGED <<known, rooms, games, events, flush, reader, endedAt>>
  <1> DEFINE next == [pc |-> "finish", game |-> g, points |-> 0]
  <1>1. next \in RequestType
    BY Numbered DEF RequestType
  <1>2. req' = [req EXCEPT ![r] = next]
    BY DEF FinishGame, Request
  <1> HIDE DEF next
  <1>3. /\ req' \in [Requests -> RequestType] /\ req'[r] = next
        /\ \A q \in Requests \ {r} : req'[q] = req[q]
    BY <1>1, <1>2, RequestBecomes
  <1>4. QED
    BY <1>3 DEF next, FinishGame

LEMMA InsertEventFacts ==
  ASSUME GamesInv, NEW r \in Requests, InsertEvent(r)
  PROVE  /\ req[r].pc = "event" /\ req[r].game \in Ids /\ req[r].points \in Int
         /\ NewEvent(Event(req[r].game, "hit", req[r].points))
         /\ req' \in [Requests -> RequestType]
         /\ req'[r] = IF req[r].points > 0
                      THEN [pc |-> "points", game |-> req[r].game, points |-> req[r].points]
                      ELSE NewRequest
         /\ \A q \in Requests \ {r} : req'[q] = req[q]
         /\ UNCHANGED <<known, rooms, games, flush, reader, endedAt>>
  <1> DEFINE next == IF req[r].points > 0
                     THEN [pc |-> "points", game |-> req[r].game, points |-> req[r].points]
                     ELSE NewRequest
  <1>1. req[r] \in RequestType /\ req[r].pc = "event" /\ req[r].game \in Ids
    BY DEF InsertEvent, GamesInv, Busied
  <1>2. next \in RequestType
    BY <1>1, NewTypes DEF RequestType
  <1>3. req' = [req EXCEPT ![r] = next]
    BY DEF InsertEvent, Request, Idle
  <1> HIDE DEF next
  <1>4. /\ req' \in [Requests -> RequestType] /\ req'[r] = next
        /\ \A q \in Requests \ {r} : req'[q] = req[q]
    BY <1>2, <1>3, RequestBecomes
  <1>5. Event(req[r].game, "hit", req[r].points) \in EventType
    BY <1>1 DEF Event, EventType, RequestType
  <1>6. NewEvent(Event(req[r].game, "hit", req[r].points))
    <2>1. events' = Append(events, Event(req[r].game, "hit", req[r].points))
      BY DEF InsertEvent, Event
    <2>2. QED
      BY <1>5, <2>1, EventAppended
  <1>7. UNCHANGED <<known, rooms, games, flush, reader, endedAt>>
    BY DEF InsertEvent
  <1>8. req[r].points \in Int
    BY <1>1 DEF RequestType
  <1>9. QED
    BY <1>1, <1>4, <1>6, <1>7, <1>8 DEF next

LEMMA AddPointsFacts ==
  ASSUME GamesInv, NEW r \in Requests, AddPoints(r)
  PROVE  /\ req[r].pc = "points" /\ req[r].game \in Ids
         /\ req[r].points \in Int /\ req[r].points > 0
         /\ Rewritten(req[r].game, [games[req[r].game] EXCEPT !.score = @ + req[r].points])
         /\ req' \in [Requests -> RequestType] /\ req'[r] = NewRequest
         /\ \A q \in Requests \ {r} : req'[q] = req[q]
         /\ UNCHANGED <<known, rooms, events, flush, reader, endedAt>>
  <1> DEFINE row == [games[req[r].game] EXCEPT !.score = @ + req[r].points]
  <1>1. /\ req[r] \in RequestType /\ req[r].pc = "points" /\ req[r].game \in Ids
        /\ req[r].points \in Int /\ req[r].points > 0
    BY DEF AddPoints, GamesInv, Busied, RequestType
  <1>2. row \in GameType
    <2>1. games[req[r].game] \in GameType
      BY <1>1, Numbered
    <2>2. games[req[r].game].score + req[r].points \in Nat
      BY <1>1, <2>1 DEF GameType
    <2>3. QED
      BY <2>1, <2>2 DEF GameType
  <1>3. games' = [games EXCEPT ![req[r].game] = row]
    BY DEF AddPoints
  <1> HIDE DEF row
  <1>4. Rewritten(req[r].game, row)
    BY <1>1, <1>2, <1>3, GameRewritten
  <1>5. req' = [req EXCEPT ![r] = NewRequest]
    BY DEF AddPoints, Idle
  <1>6. /\ req' \in [Requests -> RequestType] /\ req'[r] = NewRequest
        /\ \A q \in Requests \ {r} : req'[q] = req[q]
    BY <1>5, NewTypes, RequestBecomes
  <1>7. UNCHANGED <<known, rooms, events, flush, reader, endedAt>>
    BY DEF AddPoints
  <1>8. QED
    BY <1>1, <1>4, <1>6, <1>7 DEF row

LEMMA SetFinishedFacts ==
  ASSUME GamesInv, NEW r \in Requests, SetFinished(r)
  PROVE  /\ req[r].pc = "finish" /\ req[r].game \in Ids
         /\ Rewritten(req[r].game, [games[req[r].game] EXCEPT !.status = "finished"])
         /\ endedAt' \in Seq(Int) /\ Len(endedAt') = Len(endedAt)
         /\ endedAt'[req[r].game] = IF endedAt[req[r].game] = -1 THEN Len(events)
                                    ELSE endedAt[req[r].game]
         /\ \A g \in Ids \ {req[r].game} : endedAt'[g] = endedAt[g]
         /\ req' \in [Requests -> RequestType]
         /\ req'[r] = [pc |-> "over", game |-> req[r].game, points |-> 0]
         /\ \A q \in Requests \ {r} : req'[q] = req[q]
         /\ UNCHANGED <<known, rooms, events, flush, reader>>
  <1> DEFINE row == [games[req[r].game] EXCEPT !.status = "finished"]
             next == [pc |-> "over", game |-> req[r].game, points |-> 0]
             end == IF endedAt[req[r].game] = -1 THEN Len(events) ELSE endedAt[req[r].game]
  <1>1. req[r] \in RequestType /\ req[r].pc = "finish" /\ req[r].game \in Ids
    BY DEF SetFinished, GamesInv, Busied
  <1>2. row \in GameType /\ next \in RequestType /\ end \in Int
    <2>1. games[req[r].game] \in GameType
      BY <1>1, Numbered
    <2>2. row \in GameType
      BY <2>1 DEF GameType
    <2>3. next \in RequestType
      BY <1>1, Numbered DEF RequestType
    <2>4. end \in Int
      BY <1>1, Numbered
    <2>5. QED
      BY <2>2, <2>3, <2>4
  <1>3. /\ games' = [games EXCEPT ![req[r].game] = row]
        /\ endedAt' = [endedAt EXCEPT ![req[r].game] = end]
        /\ req' = [req EXCEPT ![r] = next]
    BY DEF SetFinished, Request
  <1> HIDE DEF row, next, end
  <1>4. Rewritten(req[r].game, row)
    BY <1>1, <1>2, <1>3, GameRewritten
  <1>5. /\ req' \in [Requests -> RequestType] /\ req'[r] = next
        /\ \A q \in Requests \ {r} : req'[q] = req[q]
    BY <1>2, <1>3, RequestBecomes
  <1>6. /\ endedAt' \in Seq(Int) /\ Len(endedAt') = Len(endedAt) /\ endedAt'[req[r].game] = end
        /\ \A g \in Ids \ {req[r].game} : endedAt'[g] = endedAt[g]
    <2>1. endedAt \in Seq(Int) /\ DOMAIN endedAt = Ids
      BY Numbered DEF GamesInv
    <2>2. QED
      BY <1>1, <1>2, <1>3, <2>1, UpdateFacts
  <1>7. UNCHANGED <<known, rooms, events, flush, reader>>
    BY DEF SetFinished
  <1>8. QED
    BY <1>1, <1>4, <1>5, <1>6, <1>7 DEF row, next, end

LEMMA InsertGameOverFacts ==
  ASSUME GamesInv, NEW r \in Requests, InsertGameOver(r)
  PROVE  /\ req[r].pc = "over" /\ req[r].game \in Ids
         /\ NewEvent(Event(req[r].game, "game_over", 0))
         /\ req' \in [Requests -> RequestType] /\ req'[r] = NewRequest
         /\ \A q \in Requests \ {r} : req'[q] = req[q]
         /\ UNCHANGED <<known, rooms, games, flush, reader, endedAt>>
  <1>1. req[r] \in RequestType /\ req[r].pc = "over" /\ req[r].game \in Ids
    BY DEF InsertGameOver, GamesInv, Busied
  <1>2. req' = [req EXCEPT ![r] = NewRequest]
    BY DEF InsertGameOver, Idle
  <1>3. /\ req' \in [Requests -> RequestType] /\ req'[r] = NewRequest
        /\ \A q \in Requests \ {r} : req'[q] = req[q]
    BY <1>2, NewTypes, RequestBecomes
  <1>4. Event(req[r].game, "game_over", 0) \in EventType
    BY <1>1 DEF Event, EventType, RequestType
  <1>5. NewEvent(Event(req[r].game, "game_over", 0))
    <2>1. events' = Append(events, Event(req[r].game, "game_over", 0))
      BY DEF InsertGameOver, Event
    <2>2. QED
      BY <1>4, <2>1, EventAppended
  <1>6. UNCHANGED <<known, rooms, games, flush, reader, endedAt>>
    BY DEF InsertGameOver
  <1>7. QED
    BY <1>1, <1>3, <1>5, <1>6

\* A non-empty set of scores of games has a greatest one.
LEMMA GreatestScore ==
  ASSUME GamesInv, NEW s \in SUBSET Ids, s # {}
  PROVE  \E g \in s : /\ Max({games[h].score : h \in s}) = games[g].score
                      /\ \A h \in s : games[h].score <= games[g].score
  <1>1. Len(games) \in Nat /\ Ids = 1 .. Len(games) /\ \A g \in Ids : games[g].score \in Nat
    BY Numbered DEF GameType
  <1> DEFINE N == {k \in 0 .. Len(games) : \E m \in Nat : \A g \in 1 .. k : games[g].score <= m}
  <1>2. 0 \in N
    BY <1>1
  <1>3. ASSUME NEW k \in 1 .. Len(games), k - 1 \in N PROVE k \in N
    <2>1. PICK m \in Nat : \A g \in 1 .. k - 1 : games[g].score <= m
      BY <1>3
    <2>2. games[k].score \in Nat
      BY <1>1
    <2>3. PICK n \in Nat : n >= m /\ n >= games[k].score
      BY <2>2
    <2>4. \A g \in 1 .. k : games[g].score <= n
      <3>1. ASSUME NEW g \in 1 .. k PROVE games[g].score <= n
        <4>1. CASE g = k
          BY <2>3, <4>1
        <4>2. CASE g # k
          <5>1. g \in 1 .. k - 1 /\ g \in Ids
            BY <1>1, <4>2
          <5>2. QED
            BY <1>1, <2>1, <2>3, <5>1
        <4>3. QED
          BY <4>1, <4>2
      <3>2. QED
        BY <3>1
    <2>5. k \in 0 .. Len(games)
      BY <1>1
    <2>6. \E b \in Nat : \A g \in 1 .. k : games[g].score <= b
      BY <2>3, <2>4, Zenon
    <2>7. QED
      BY <2>5, <2>6
  <1>4. PICK bound \in Nat : \A g \in Ids : games[g].score <= bound
    <2> HIDE DEF N
    <2>1. \A k \in 0 .. Len(games) : k \in N
      BY <1>1, <1>2, <1>3, IntervalInduction
    <2>2. Len(games) \in N
      BY <1>1, <2>1
    <2>3. QED
      BY <1>1, <2>2 DEF N
  <1> DEFINE T == {m \in Nat : \A h \in s : games[h].score <= m}
  <1>5. PICK m \in T : \A n \in T : m <= n
    <2>1. T \in SUBSET Nat /\ bound \in T
      BY <1>4
    <2> HIDE DEF T
    <2>2. QED
      BY <2>1, LeastNatural
  <1>6. \E g \in s : games[g].score = m
    <2>1. SUFFICES ASSUME \A g \in s : games[g].score # m PROVE FALSE
      OBVIOUS
    <2>2. \A g \in s : games[g].score \in Nat /\ games[g].score <= m - 1
      BY <1>1, <1>5, <2>1
    <2>3. m - 1 \in T
      BY <1>5, <2>2
    <2>4. QED
      BY <1>5, <2>3
  <1>7. PICK g \in s : games[g].score = m
    BY <1>6
  <1> DEFINE U == {games[h].score : h \in s}
  <1>8. m \in U /\ \A u \in U : m >= u /\ u \in Nat
    BY <1>1, <1>5, <1>7
  <1>9. Max(U) \in U /\ \A u \in U : Max(U) >= u
    <2> HIDE DEF U, T
    <2>1. \E x \in U : \A u \in U : x >= u
      BY <1>8
    <2>2. QED
      BY <2>1 DEF Max
  <1>10. Max(U) = m
    <2> HIDE DEF U, T
    <2>1. m \in Nat
      BY <1>5 DEF T
    <2>2. Max(U) \in Nat /\ m >= Max(U)
      BY <1>8, <1>9
    <2>3. Max(U) >= m
      BY <1>8, <1>9
    <2>4. QED
      BY <2>1, <2>2, <2>3
  <1>11. QED
    BY <1>5, <1>7, <1>10

FinishedSolo(p) == {g \in GamesWith("finished") : games[g].player = p /\ games[g].mode = "solo"}

\* The best solo score is that of a finished solo game, and the greatest.
LEMMA BestSolo ==
  ASSUME GamesInv, NEW p
  PROVE  /\ BestSoloScore(p) \in Int
         /\ BestSoloScore(p) # NoScore =>
               \E g \in FinishedSolo(p) : games[g].score = BestSoloScore(p)
         /\ \A g \in FinishedSolo(p) : games[g].score <= BestSoloScore(p)
  <1> DEFINE U == {games[g].score : g \in FinishedSolo(p)}
  <1>1. BestSoloScore(p) = Greatest(U)
    BY DEF BestSoloScore, FinishedSolo
  <1>2. CASE FinishedSolo(p) = {}
    BY <1>1, <1>2 DEF Greatest, NoScore
  <1>3. CASE FinishedSolo(p) # {}
    <2>1. FinishedSolo(p) \in SUBSET Ids
      BY DEF FinishedSolo, GamesWith
    <2>2. PICK g \in FinishedSolo(p) :
              Max(U) = games[g].score /\ \A h \in FinishedSolo(p) : games[h].score <= games[g].score
      BY <1>3, <2>1, GreatestScore
    <2>3. BestSoloScore(p) = games[g].score
      BY <1>1, <2>2 DEF Greatest
    <2>4. games[g].score \in Int
      BY <2>1, Numbered DEF GameType
    <2>5. QED
      BY <2>2, <2>3, <2>4
  <1>4. QED
    BY <1>2, <1>3

LEMMA EventSumInt ==
  ASSUME GamesInv, NEW g
  PROVE  EventSum(g) \in Int
  <1> DEFINE worth == [i \in DOMAIN events |-> Worth(events[i])]
             s == {i \in DOMAIN events : events[i].game = g}
  <1>1. IsFiniteSet(DOMAIN events) /\ \A i \in DOMAIN events : worth[i] \in Int
    BY Numbered, FS_Interval DEF Worth, EventType
  <1>2. s \in SUBSET DOMAIN events /\ EventSum(g) = SumFunctionOnSet(worth, s)
    BY DEF EventSum
  <1> HIDE DEF worth, s
  <1>3. QED
    BY <1>1, <1>2, SumFacts

LEMMA FlushBeginFacts ==
  ASSUME GamesInv, NEW f \in Flushes, NEW run \in Runs, FlushBegin(f, run)
  PROVE  /\ flush' \in [Flushes -> FlushType] /\ flush[f].pc = "new"
         /\ flush'[f].pc \in {"best", "persist"} /\ flush'[f].run = run
         /\ flush'[f].best = NoScore
         /\ \A h \in Flushes \ {f} : flush'[h] = flush[h]
         /\ UNCHANGED <<known, rooms, games, events, req, reader, endedAt>>
  <1> DEFINE next == [NewFlush EXCEPT
           !.pc = IF run.mode = "solo" /\ run.player \in known THEN "best" ELSE "persist",
           !.run = run]
  <1>1. /\ next \in FlushType /\ next.pc \in {"best", "persist"} /\ next.run = run
        /\ next.best = NoScore
    BY NewTypes DEF FlushType
  <1>2. flush' = [flush EXCEPT ![f] = next]
    BY DEF FlushBegin
  <1> HIDE DEF next
  <1>3. /\ flush' \in [Flushes -> FlushType] /\ flush'[f] = next
        /\ \A h \in Flushes \ {f} : flush'[h] = flush[h]
    BY <1>1, <1>2, FlushBecomes
  <1>4. flush[f].pc = "new" /\ UNCHANGED <<known, rooms, games, events, req, reader, endedAt>>
    BY DEF FlushBegin
  <1>5. QED
    BY <1>1, <1>3, <1>4

LEMMA FlushBestFacts ==
  ASSUME GamesInv, NEW f \in Flushes, FlushBest(f)
  PROVE  /\ flush' \in [Flushes -> FlushType] /\ flush[f].pc = "best"
         /\ flush'[f].pc = "persist" /\ flush'[f].run = flush[f].run
         /\ flush'[f].best = BestSoloScore(flush[f].run.player)
         /\ \A h \in Flushes \ {f} : flush'[h] = flush[h]
         /\ UNCHANGED <<known, rooms, games, events, req, reader, endedAt>>
  <1> DEFINE best == BestSoloScore(flush[f].run.player)
             next == [flush[f] EXCEPT !.pc = "persist", !.best = best]
  <1>1. flush[f] \in FlushType /\ best \in Int
    BY BestSolo DEF GamesInv
  <1>2. flush' = [flush EXCEPT ![f] = next]
    BY <1>1 DEF FlushBest, GamesInv
  <1> HIDE DEF best
  <1>3. next \in FlushType /\ next.pc = "persist" /\ next.best = best /\ next.run = flush[f].run
    BY <1>1 DEF FlushType
  <1> HIDE DEF next
  <1>4. /\ flush' \in [Flushes -> FlushType] /\ flush'[f] = next
        /\ \A h \in Flushes \ {f} : flush'[h] = flush[h]
    BY <1>2, <1>3, FlushBecomes
  <1>5. flush[f].pc = "best" /\ UNCHANGED <<known, rooms, games, events, req, reader, endedAt>>
    BY DEF FlushBest
  <1>6. QED
    BY <1>3, <1>4, <1>5 DEF best

LEMMA FlushPersistFacts ==
  ASSUME GamesInv, NEW f \in Flushes, FlushPersist(f)
  PROVE  /\ flush' \in [Flushes -> FlushType] /\ flush[f].pc = "persist" /\ flush[f].run \in Runs
         /\ flush'[f].pc = "done" /\ flush'[f].run = flush[f].run
         /\ flush'[f].best = flush[f].best /\ flush'[f].game = Len(games) + 1
         /\ flush'[f].improved <=> Improved(f)
         /\ \A h \in Flushes \ {f} : flush'[h] = flush[h]
         /\ FinishedGame(f) \in GameType /\ NewGame(FinishedGame(f)) /\ NewEnd(Len(events))
         /\ known' = known \cup {flush[f].run.player}
         /\ UNCHANGED <<rooms, events, req, reader>>
  <1> DEFINE next == [flush[f] EXCEPT !.pc = "done", !.game = Len(games) + 1,
                                      !.improved = Improved(f)]
  <1>1. flush[f] \in FlushType /\ flush[f].pc = "persist" /\ flush[f].run \in Runs
    BY DEF GamesInv, FlushPersist, RunsGiven
  <1>2. flush' = [flush EXCEPT ![f] = next]
    BY <1>1 DEF FlushPersist, GamesInv
  <1>3. Improved(f) \in BOOLEAN
    BY DEF Improved
  <1>4. /\ next \in FlushType /\ next.pc = "done" /\ next.run = flush[f].run
        /\ next.best = flush[f].best /\ next.game = Len(games) + 1
    <2>1. Len(games) + 1 \in Nat
      BY Numbered
    <2> DEFINE old == flush[f]
               number == Len(games) + 1
               better == Improved(f)
    <2> HIDE DEF old, number, better
    <2>2. old \in FlushType /\ number \in Nat /\ better \in BOOLEAN
      BY <1>1, <1>3, <2>1 DEF old, number, better
    <2>3. next = [old EXCEPT !.pc = "done", !.game = number, !.improved = better]
      BY DEF old, number, better
    <2> HIDE DEF next
    <2>4. next = [pc |-> "done", run |-> old.run, best |-> old.best, game |-> number,
                  improved |-> better]
      BY <2>2, <2>3, Zenon DEF FlushType
    <2>5. QED
      BY <2>2, <2>4 DEF FlushType, old, number
  <1>5. next.improved <=> Improved(f)
    BY <1>1, <1>3, Zenon DEF FlushType
  <1> HIDE DEF next
  <1>6. /\ flush' \in [Flushes -> FlushType] /\ flush'[f] = next
        /\ \A h \in Flushes \ {f} : flush'[h] = flush[h]
    BY <1>2, <1>4, FlushBecomes
  <1>7. FinishedGame(f) \in GameType
    BY <1>1, RunsAssumption DEF FinishedGame, GameType, Modes, NoRoom
  <1>8. NewGame(FinishedGame(f))
    BY <1>7, GameAppended DEF FlushPersist
  <1>9. NewEnd(Len(events))
    <2>1. Len(events) \in Int /\ endedAt' = Append(endedAt, Len(events))
      BY Numbered DEF FlushPersist
    <2>2. QED
      BY <2>1, EndAppended
  <1>10. known' = known \cup {flush[f].run.player} /\ UNCHANGED <<rooms, events, req, reader>>
    BY DEF FlushPersist
  <1>11. flush'[f].improved <=> Improved(f)
    BY <1>5, <1>6, Zenon
  <1>12. QED
    BY <1>1, <1>4, <1>6, <1>7, <1>8, <1>9, <1>10, <1>11

-----------------------------------------------------------------------------
(* What each query reads *)

Rows(s) == {Row(g) : g \in s}

LEMMA RowsTyped ==
  ASSUME GamesInv, NEW s \in SUBSET Ids
  PROVE  /\ Rows(s) \in SUBSET RowType
         /\ \A row \in Rows(s) : row.id \in s /\ row = Row(row.id)
         /\ \A g \in s : Row(g) \in Rows(s) /\ Row(g).id = g
  BY Numbered DEF Rows, Row, RowType, GameType

LEMMA ListGamesFacts ==
  ASSUME GamesInv, ListGames
  PROVE  /\ reader' \in ReaderType /\ reader'.pc = "list" /\ reader'.from = Len(games)
         /\ reader'.rows = Rows(GamesWith("playing"))
         /\ Reads
  <1> DEFINE rows == Rows(GamesWith("playing"))
  <1>1. GamesWith("playing") \in SUBSET Ids /\ StatusOrder[1] = "playing" /\ Len(games) \in Nat
    BY Numbered DEF GamesWith, StatusOrder
  <1>2. NewReader \in ReaderType /\ rows \in SUBSET RowType
    BY <1>1, NewTypes, RowsTyped
  <1>3. reader' = [NewReader EXCEPT !.pc = "list", !.from = Len(games), !.rows = rows]
    BY <1>1 DEF ListGames, Rows
  <1> HIDE DEF rows
  <1>4. /\ reader' \in ReaderType /\ reader'.pc = "list" /\ reader'.from = Len(games)
        /\ reader'.rows = rows
    BY <1>1, <1>2, <1>3 DEF ReaderType
  <1>5. QED
    BY <1>4 DEF rows, ListGames

LEMMA ListRestFacts ==
  ASSUME GamesInv, ListRest
  PROVE  /\ reader.pc = "list" /\ reader' \in ReaderType /\ reader'.pc = "listed"
         /\ reader'.from = reader.from
         /\ reader'.rows = reader.rows \cup Rows(GamesWith("finished"))
         /\ Reads
  <1> DEFINE more == Rows(GamesWith("finished"))
  <1>1. GamesWith("finished") \in SUBSET Ids /\ StatusOrder[2] = "finished"
    BY DEF GamesWith, StatusOrder
  <1>2. reader \in ReaderType /\ more \in SUBSET RowType
    BY <1>1, RowsTyped DEF GamesInv
  <1>3. reader' = [reader EXCEPT !.pc = "listed", !.rows = reader.rows \cup more]
    BY <1>1, <1>2 DEF ListRest, ReaderType, Rows
  <1> HIDE DEF more
  <1>4. /\ reader' \in ReaderType /\ reader'.pc = "listed" /\ reader'.from = reader.from
        /\ reader'.rows = reader.rows \cup more
    BY <1>2, <1>3 DEF ReaderType
  <1>5. QED
    BY <1>4 DEF more, ListRest

LEMMA HistoryFacts ==
  ASSUME GamesInv, NEW p \in Players, GetPlayerHistory(p)
  PROVE  /\ reader' \in ReaderType /\ reader'.pc = "history" /\ reader'.player = p
         /\ reader'.rows = Rows({g \in GamesWith("finished") : games[g].player = p})
         /\ Reads
  <1> DEFINE s == {g \in GamesWith("finished") : games[g].player = p}
  <1>1. s \in SUBSET Ids
    BY DEF GamesWith
  <1> DEFINE rows == Rows(s)
  <1>2. NewReader \in ReaderType /\ rows \in SUBSET RowType
    BY <1>1, NewTypes, RowsTyped
  <1>3. reader' = [NewReader EXCEPT !.pc = "history", !.player = p, !.rows = rows]
    BY DEF GetPlayerHistory, Rows
  <1> HIDE DEF rows
  <1>4. /\ reader' \in ReaderType /\ reader'.pc = "history" /\ reader'.player = p
        /\ reader'.rows = rows
    BY <1>2, <1>3 DEF ReaderType
  <1>5. QED
    BY <1>4 DEF rows, GetPlayerHistory

LEMMA HistoryBestFacts ==
  ASSUME GamesInv, HistoryBest
  PROVE  /\ reader.pc = "history" /\ reader' \in ReaderType /\ reader'.pc = "flagged"
         /\ reader'.player = reader.player /\ reader'.rows = reader.rows
         /\ reader'.best = BestSoloScore(reader.player)
         /\ Reads
  <1> DEFINE best == BestSoloScore(reader.player)
  <1>1. reader \in ReaderType /\ best \in Int
    BY BestSolo DEF GamesInv
  <1>2. reader' = [reader EXCEPT !.pc = "flagged", !.best = best]
    BY DEF HistoryBest
  <1> HIDE DEF best
  <1>3. /\ reader' \in ReaderType /\ reader'.pc = "flagged" /\ reader'.player = reader.player
        /\ reader'.rows = reader.rows /\ reader'.best = best
    BY <1>1, <1>2 DEF ReaderType
  <1>4. QED
    BY <1>3 DEF best, HistoryBest

LEMMA GetStateFacts ==
  ASSUME GamesInv, NEW s \in SUBSET Ids, GetState(s)
  PROVE  /\ reader' \in ReaderType /\ reader'.pc = "events" /\ reader'.rows = Rows(s)
         /\ reader'.seen = NewReader.seen
         /\ Reads
  <1> DEFINE rows == Rows(s)
  <1>1. NewReader \in ReaderType /\ rows \in SUBSET RowType
    BY NewTypes, RowsTyped
  <1>2. reader' = [NewReader EXCEPT !.pc = "events", !.rows = rows]
    BY DEF GetState, Rows
  <1> HIDE DEF rows
  <1>3. /\ reader' \in ReaderType /\ reader'.pc = "events" /\ reader'.rows = rows
        /\ reader'.seen = NewReader.seen
    BY <1>1, <1>2 DEF ReaderType
  <1>4. QED
    BY <1>3 DEF rows, GetState

LEMMA StateEventsFacts ==
  ASSUME GamesInv, NEW row \in reader.rows, StateEvents(row)
  PROVE  /\ reader.pc = "events" /\ row.id \notin DOMAIN reader.seen
         /\ reader' \in ReaderType /\ reader'.pc \in {"events", "state"}
         /\ reader'.rows = reader.rows
         /\ DOMAIN reader'.seen = DOMAIN reader.seen \cup {row.id}
         /\ reader'.seen[row.id] = EventSum(row.id)
         /\ \A g \in DOMAIN reader.seen : reader'.seen[g] = reader.seen[g]
         /\ reader'.pc = "state" => DOMAIN reader'.seen = {r.id : r \in reader.rows}
         /\ Reads
  <1> DEFINE seen == [g \in {row.id} \cup DOMAIN reader.seen |->
                       IF g = row.id THEN EventSum(g) ELSE reader.seen[g]]
             pc == IF DOMAIN seen = {r.id : r \in reader.rows} THEN "state" ELSE "events"
  <1>1. reader \in ReaderType /\ row.id \in Nat /\ EventSum(row.id) \in Int
    BY EventSumInt DEF GamesInv, ReaderType, RowType
  <1>2. PICK s \in SUBSET Nat : reader.seen \in [s -> Int]
    BY <1>1 DEF ReaderType
  <1>3. \A g \in DOMAIN seen : seen[g] = IF g = row.id THEN EventSum(row.id) ELSE reader.seen[g]
    OBVIOUS
  <1>4. DOMAIN seen = s \cup {row.id} /\ seen \in [s \cup {row.id} -> Int]
    BY <1>1, <1>2
  <1>5. seen[row.id] = EventSum(row.id) /\ \A g \in s \ {row.id} : seen[g] = reader.seen[g]
    BY <1>2, <1>3
  <1>6. seen \in UNION {[d -> Int] : d \in SUBSET Nat}
    <2>1. s \cup {row.id} \in SUBSET Nat
      BY <1>1
    <2>2. QED
      BY <1>4, <2>1
  <1>7. reader' = [reader EXCEPT !.seen = seen, !.pc = pc] /\ row.id \notin DOMAIN reader.seen
        /\ reader.pc = "events" /\ Reads
    BY DEF StateEvents
  <1>8. pc = "state" => DOMAIN seen = {r.id : r \in reader.rows}
    OBVIOUS
  <1>9. pc \in {"state", "events"}
    OBVIOUS
  <1> HIDE DEF seen, pc
  <1>10. /\ reader' \in ReaderType /\ reader'.pc = pc /\ reader'.rows = reader.rows
         /\ reader'.seen = seen
    BY <1>1, <1>6, <1>7, <1>9 DEF ReaderType
  <1>11. QED
    BY <1>2, <1>4, <1>5, <1>7, <1>8, <1>9, <1>10

-----------------------------------------------------------------------------
(* The inductive invariant of the types *)

\* The readers' queries leave all the rest alone.
LEMMA ReadsKeep ==
  ASSUME GamesInv, Reads, reader' \in ReaderType, \A row \in reader'.rows : row.id \in Ids
  PROVE  GamesInv'
  BY DEF GamesInv, Reads, Ids, Busied, RunsGiven

LEMMA GamesStep == GamesInv /\ [Next]_vars => GamesInv'
  <1> SUFFICES ASSUME GamesInv, [Next]_vars PROVE GamesInv'
    OBVIOUS
  <1>0. /\ known \subseteq Players /\ rooms \in Nat
        /\ games \in Seq(GameType) /\ events \in Seq(EventType)
        /\ \A i \in DOMAIN events : events[i].game \in Ids
        /\ req \in [Requests -> RequestType] /\ Busied
        /\ flush \in [Flushes -> FlushType] /\ RunsGiven
        /\ reader \in ReaderType /\ \A row \in reader.rows : row.id \in Ids
        /\ endedAt \in Seq(Int) /\ Len(endedAt) = Len(games)
        /\ Len(games) \in Nat /\ Len(events) \in Nat
    BY Numbered DEF GamesInv
  <1>1. CASE UNCHANGED vars
    BY <1>0, <1>1 DEF GamesInv, vars, Ids, Busied, RunsGiven
  <1>2. CASE CreateRoom
    BY <1>0, <1>2 DEF GamesInv, CreateRoom, Ids, Busied, RunsGiven
  <1>3. ASSUME NEW start \in Starts, NEW room \in 0 .. rooms, StartGame(start, room)
        PROVE  GamesInv'
    <2>1. /\ start.player \in Players /\ known' = known \cup {start.player} /\ rooms' \in Nat
          /\ NewGame(GameStarted(start, room)) /\ NewEnd(-1)
          /\ NewEvent(Event(Len(games) + 1, "game_started", 0))
          /\ UNCHANGED <<req, flush, reader>>
      BY <1>3, StartFacts
    <2>2. /\ games' \in Seq(GameType) /\ Len(games') = Len(games) + 1
          /\ Ids' = Ids \cup {Len(games) + 1}
      BY <2>1 DEF NewGame
    <2>3. endedAt' \in Seq(Int) /\ Len(endedAt') = Len(games')
      BY <2>1, <2>2 DEF NewEnd
    <2>4. events' \in Seq(EventType) /\ \A i \in DOMAIN events' : events'[i].game \in Ids'
      BY <1>0, <2>1, <2>2 DEF NewEvent, Event
    <2>5. Busied' /\ RunsGiven' /\ \A row \in reader'.rows : row.id \in Ids'
      BY <1>0, <2>1, <2>2 DEF Busied, RunsGiven
    <2>6. QED
      BY <1>0, <2>1, <2>2, <2>3, <2>4, <2>5 DEF GamesInv
  <1>4. ASSUME NEW r \in Requests, NEW g \in Ids, NEW points \in Points,
               AddGameEvent(r, g, points)
        PROVE  GamesInv'
    <2>1. /\ req' \in [Requests -> RequestType]
          /\ req'[r] = [pc |-> "event", game |-> g, points |-> points]
          /\ \A q \in Requests \ {r} : req'[q] = req[q]
          /\ UNCHANGED <<known, rooms, games, events, flush, reader, endedAt>>
      BY <1>4, AddGameEventFacts
    <2>2. Ids' = Ids
      BY <2>1 DEF Ids
    <2>3. Busied' /\ RunsGiven'
      BY <1>0, <2>1, <2>2 DEF Busied, RunsGiven
    <2>4. QED
      BY <1>0, <2>1, <2>2, <2>3 DEF GamesInv
  <1>5. ASSUME NEW r \in Requests, NEW g \in Ids, FinishGame(r, g) PROVE GamesInv'
    <2>1. /\ req' \in [Requests -> RequestType]
          /\ req'[r] = [pc |-> "finish", game |-> g, points |-> 0]
          /\ \A q \in Requests \ {r} : req'[q] = req[q]
          /\ UNCHANGED <<known, rooms, games, events, flush, reader, endedAt>>
      BY <1>5, FinishGameFacts
    <2>2. Ids' = Ids
      BY <2>1 DEF Ids
    <2>3. Busied' /\ RunsGiven'
      BY <1>0, <2>1, <2>2 DEF Busied, RunsGiven
    <2>4. QED
      BY <1>0, <2>1, <2>2, <2>3 DEF GamesInv
  <1>6. ASSUME NEW r \in Requests, InsertEvent(r) PROVE GamesInv'
    <2>1. /\ req[r].game \in Ids
          /\ NewEvent(Event(req[r].game, "hit", req[r].points))
          /\ req' \in [Requests -> RequestType]
          /\ req'[r] = IF req[r].points > 0
                       THEN [pc |-> "points", game |-> req[r].game, points |-> req[r].points]
                       ELSE NewRequest
          /\ \A q \in Requests \ {r} : req'[q] = req[q]
          /\ UNCHANGED <<known, rooms, games, flush, reader, endedAt>>
      BY <1>6, InsertEventFacts
    <2>2. Ids' = Ids
      BY <2>1 DEF Ids
    <2>3. Busied' /\ RunsGiven'
      BY <1>0, <2>1, <2>2, NewTypes DEF Busied, RunsGiven
    <2>4. events' \in Seq(EventType) /\ \A i \in DOMAIN events' : events'[i].game \in Ids'
      BY <1>0, <2>1, <2>2 DEF NewEvent, Event
    <2>5. QED
      BY <1>0, <2>1, <2>2, <2>3, <2>4 DEF GamesInv
  <1>7. ASSUME NEW r \in Requests, AddPoints(r) PROVE GamesInv'
    <2>1. /\ Rewritten(req[r].game, [games[req[r].game] EXCEPT !.score = @ + req[r].points])
          /\ req' \in [Requests -> RequestType] /\ req'[r] = NewRequest
          /\ \A q \in Requests \ {r} : req'[q] = req[q]
          /\ UNCHANGED <<known, rooms, events, flush, reader, endedAt>>
      BY <1>7, AddPointsFacts
    <2>2. games' \in Seq(GameType) /\ Len(games') = Len(games) /\ Ids' = Ids
      BY <2>1 DEF Rewritten
    <2>3. Busied' /\ RunsGiven'
      BY <1>0, <2>1, <2>2, NewTypes DEF Busied, RunsGiven
    <2>4. QED
      BY <1>0, <2>1, <2>2, <2>3 DEF GamesInv
  <1>8. ASSUME NEW r \in Requests, SetFinished(r) PROVE GamesInv'
    <2>1. /\ req[r].game \in Ids
          /\ Rewritten(req[r].game, [games[req[r].game] EXCEPT !.status = "finished"])
          /\ endedAt' \in Seq(Int) /\ Len(endedAt') = Len(endedAt)
          /\ req' \in [Requests -> RequestType]
          /\ req'[r] = [pc |-> "over", game |-> req[r].game, points |-> 0]
          /\ \A q \in Requests \ {r} : req'[q] = req[q]
          /\ UNCHANGED <<known, rooms, events, flush, reader>>
      BY <1>8, SetFinishedFacts
    <2>2. games' \in Seq(GameType) /\ Len(games') = Len(games) /\ Ids' = Ids
      BY <2>1 DEF Rewritten
    <2>3. Busied' /\ RunsGiven'
      <3>1. req'[r].pc = "over" /\ req'[r].game \in Ids
        BY <2>1
      <3>2. Busied'
        BY <1>0, <2>1, <2>2, <3>1 DEF Busied
      <3>3. RunsGiven'
        BY <1>0, <2>1 DEF RunsGiven
      <3>4. QED
        BY <3>2, <3>3
    <2>4. QED
      BY <1>0, <2>1, <2>2, <2>3 DEF GamesInv
  <1>9. ASSUME NEW r \in Requests, InsertGameOver(r) PROVE GamesInv'
    <2>1. /\ req[r].game \in Ids
          /\ NewEvent(Event(req[r].game, "game_over", 0))
          /\ req' \in [Requests -> RequestType] /\ req'[r] = NewRequest
          /\ \A q \in Requests \ {r} : req'[q] = req[q]
          /\ UNCHANGED <<known, rooms, games, flush, reader, endedAt>>
      BY <1>9, InsertGameOverFacts
    <2>2. Ids' = Ids
      BY <2>1 DEF Ids
    <2>3. Busied' /\ RunsGiven'
      BY <1>0, <2>1, <2>2, NewTypes DEF Busied, RunsGiven
    <2>4. events' \in Seq(EventType) /\ \A i \in DOMAIN events' : events'[i].game \in Ids'
      BY <1>0, <2>1, <2>2 DEF NewEvent, Event
    <2>5. QED
      BY <1>0, <2>1, <2>2, <2>3, <2>4 DEF GamesInv
  <1>10. ASSUME NEW f \in Flushes, NEW run \in Runs, FlushBegin(f, run) PROVE GamesInv'
    <2>1. /\ flush' \in [Flushes -> FlushType] /\ flush'[f].run = run
          /\ \A h \in Flushes \ {f} : flush'[h] = flush[h]
          /\ UNCHANGED <<known, rooms, games, events, req, reader, endedAt>>
      BY <1>10, FlushBeginFacts
    <2>2. Ids' = Ids
      BY <2>1 DEF Ids
    <2>3. Busied' /\ RunsGiven'
      BY <1>0, <2>1, <2>2 DEF Busied, RunsGiven
    <2>4. QED
      BY <1>0, <2>1, <2>2, <2>3 DEF GamesInv
  <1>11. ASSUME NEW f \in Flushes, FlushBest(f) PROVE GamesInv'
    <2>1. /\ flush' \in [Flushes -> FlushType] /\ flush[f].pc = "best"
          /\ flush'[f].run = flush[f].run
          /\ \A h \in Flushes \ {f} : flush'[h] = flush[h]
          /\ UNCHANGED <<known, rooms, games, events, req, reader, endedAt>>
      BY <1>11, FlushBestFacts
    <2>2. Ids' = Ids
      BY <2>1 DEF Ids
    <2>3. Busied' /\ RunsGiven'
      BY <1>0, <2>1, <2>2 DEF Busied, RunsGiven
    <2>4. QED
      BY <1>0, <2>1, <2>2, <2>3 DEF GamesInv
  <1>12. ASSUME NEW f \in Flushes, FlushPersist(f) PROVE GamesInv'
    <2>1. /\ flush' \in [Flushes -> FlushType] /\ flush[f].run \in Runs
          /\ flush'[f].run = flush[f].run
          /\ \A h \in Flushes \ {f} : flush'[h] = flush[h]
          /\ NewGame(FinishedGame(f)) /\ NewEnd(Len(events))
          /\ known' = known \cup {flush[f].run.player}
          /\ UNCHANGED <<rooms, events, req, reader>>
      BY <1>12, FlushPersistFacts
    <2>2. /\ games' \in Seq(GameType) /\ Len(games') = Len(games) + 1
          /\ Ids' = Ids \cup {Len(games) + 1}
      BY <2>1 DEF NewGame
    <2>3. endedAt' \in Seq(Int) /\ Len(endedAt') = Len(games')
      BY <2>1, <2>2 DEF NewEnd
    <2>4. known' \subseteq Players
      BY <1>0, <2>1, RunsAssumption
    <2>5. Busied' /\ RunsGiven' /\ \A row \in reader'.rows : row.id \in Ids'
      BY <1>0, <2>1, <2>2 DEF Busied, RunsGiven
    <2>6. QED
      BY <1>0, <2>1, <2>2, <2>3, <2>4, <2>5 DEF GamesInv
  <1>13. CASE ListGames
    <2>1. GamesWith("playing") \in SUBSET Ids
      BY DEF GamesWith
    <2>2. QED
      BY <1>13, <2>1, ListGamesFacts, RowsTyped, ReadsKeep
  <1>14. CASE ListRest
    <2>1. GamesWith("finished") \in SUBSET Ids
      BY DEF GamesWith
    <2>2. reader' \in ReaderType /\ reader'.rows = reader.rows \cup Rows(GamesWith("finished")) /\ Reads
      BY <1>14, ListRestFacts
    <2>3. \A row \in reader'.rows : row.id \in Ids
      BY <1>0, <2>1, <2>2, RowsTyped
    <2>4. QED
      BY <2>2, <2>3, ReadsKeep
  <1>15. ASSUME NEW p \in Players, GetPlayerHistory(p) PROVE GamesInv'
    <2> DEFINE s == {g \in GamesWith("finished") : games[g].player = p}
    <2>1. s \in SUBSET Ids
      BY DEF GamesWith
    <2>2. reader' \in ReaderType /\ reader'.rows = Rows(s) /\ Reads
      BY <1>15, HistoryFacts
    <2> HIDE DEF s
    <2>3. QED
      BY <2>1, <2>2, RowsTyped, ReadsKeep
  <1>16. CASE HistoryBest
    BY <1>0, <1>16, HistoryBestFacts, ReadsKeep
  <1>17. ASSUME NEW s \in SUBSET Ids, GetState(s) PROVE GamesInv'
    BY <1>17, GetStateFacts, RowsTyped, ReadsKeep
  <1>18. ASSUME NEW row \in reader.rows, StateEvents(row) PROVE GamesInv'
    <2>1. reader' \in ReaderType /\ reader'.rows = reader.rows /\ Reads
      BY <1>18, StateEventsFacts
    <2>2. QED
      BY <1>0, <2>1, ReadsKeep
  <1>19. CASE Answer
    <2>1. reader' = NewReader /\ Reads
      BY <1>19 DEF Answer
    <2>2. reader' \in ReaderType /\ \A row \in reader'.rows : row.id \in Ids
      BY <2>1, NewTypes
    <2>3. QED
      BY <2>1, <2>2, ReadsKeep
  <1>20. ASSUME NEW g \in Ids, GetGameState(g) PROVE GamesInv'
    BY <1>17, <1>20 DEF GetGameState
  <1>21. ASSUME NEW room \in 1 .. rooms, GetRoomState(room) PROVE GamesInv'
    <2>1. ActiveInRoom(room) \in SUBSET Ids
      BY DEF ActiveInRoom, GamesWith
    <2>2. QED
      BY <1>17, <1>21, <2>1 DEF GetRoomState
  <1>22. QED
    BY <1>1, <1>2, <1>3, <1>4, <1>5, <1>6, <1>7, <1>8, <1>9, <1>10, <1>11, <1>12, <1>13, <1>14,
       <1>15, <1>16, <1>18, <1>19, <1>20, <1>21
       DEF Next, RequestStep, FlushStep, Query

\* Rows, events and requests are well formed in every state: an event is of a
\* game that exists, a score is never below zero, and what a request adds to
\* one (AddPoints) is above zero whatever points clients post.
THEOREM GamesTypesHold == Spec => []GamesTypeOK
  <1>1. Init => GamesInv
    BY InitGames
  <1>2. GamesInv => GamesTypeOK
    BY Numbered DEF GamesInv, GamesTypeOK, ReaderType
  <1>3. QED
    BY <1>1, <1>2, GamesStep, PTL DEF Spec

-----------------------------------------------------------------------------
(* What no step takes back *)

Grown(g) ==
    /\ games'[g].player = games[g].player
    /\ games'[g].mode = games[g].mode
    /\ games'[g].room = games[g].room
    /\ games'[g].score >= games[g].score
    /\ games[g].status = "finished" => games'[g].status = "finished"

LEMMA RowsGrow ==
  ASSUME GamesInv, [Next]_vars
  PROVE  /\ Ids \subseteq Ids'
         /\ \A g \in Ids : Grown(g)
  <1>0. \A g \in Ids : games[g] \in GameType /\ games[g].score \in Nat
    BY Numbered DEF GameType
  <1>1. CASE UNCHANGED games
    BY <1>0, <1>1 DEF Grown, Ids
  <1>2. ASSUME NEW row, NewGame(row) PROVE Ids \subseteq Ids' /\ \A g \in Ids : Grown(g)
    BY <1>0, <1>2 DEF NewGame, Grown
  <1>3. ASSUME NEW start \in Starts, NEW room \in 0 .. rooms, StartGame(start, room)
        PROVE  Ids \subseteq Ids' /\ \A g \in Ids : Grown(g)
    BY <1>2, <1>3, StartFacts
  <1>4. ASSUME NEW f \in Flushes, FlushPersist(f)
        PROVE  Ids \subseteq Ids' /\ \A g \in Ids : Grown(g)
    BY <1>2, <1>4, FlushPersistFacts
  <1>5. ASSUME NEW r \in Requests, AddPoints(r)
        PROVE  Ids \subseteq Ids' /\ \A g \in Ids : Grown(g)
    <2> DEFINE n == req[r].game
    <2>1. /\ n \in Ids /\ req[r].points \in Int /\ req[r].points > 0
          /\ Rewritten(n, [games[n] EXCEPT !.score = @ + req[r].points])
      BY <1>5, AddPointsFacts
    <2> HIDE DEF n
    <2>2. /\ Ids' = Ids /\ games'[n] = [games[n] EXCEPT !.score = @ + req[r].points]
          /\ \A h \in Ids \ {n} : games'[h] = games[h]
      BY <2>1 DEF Rewritten
    <2>3. Grown(n)
      <3>1. games[n] \in GameType /\ games[n].score \in Nat
        BY <1>0, <2>1
      <3>2. /\ games'[n].player = games[n].player /\ games'[n].mode = games[n].mode
            /\ games'[n].room = games[n].room /\ games'[n].status = games[n].status
            /\ games'[n].score = games[n].score + req[r].points
        BY <2>2, <3>1 DEF GameType
      <3>3. QED
        BY <2>1, <3>1, <3>2 DEF Grown
    <2>4. \A g \in Ids \ {n} : Grown(g)
      BY <1>0, <2>2 DEF Grown
    <2>5. QED
      BY <2>2, <2>3, <2>4
  <1>6. ASSUME NEW r \in Requests, SetFinished(r)
        PROVE  Ids \subseteq Ids' /\ \A g \in Ids : Grown(g)
    <2> DEFINE n == req[r].game
    <2>1. n \in Ids /\ Rewritten(n, [games[n] EXCEPT !.status = "finished"])
      BY <1>6, SetFinishedFacts
    <2> HIDE DEF n
    <2>2. /\ Ids' = Ids /\ games'[n] = [games[n] EXCEPT !.status = "finished"]
          /\ \A h \in Ids \ {n} : games'[h] = games[h]
      BY <2>1 DEF Rewritten
    <2>3. Grown(n)
      <3>1. games[n] \in GameType /\ games[n].score \in Nat
        BY <1>0, <2>1
      <3>2. /\ games'[n].player = games[n].player /\ games'[n].mode = games[n].mode
            /\ games'[n].room = games[n].room /\ games'[n].status = "finished"
            /\ games'[n].score = games[n].score
        BY <2>2, <3>1 DEF GameType
      <3>3. QED
        BY <3>1, <3>2 DEF Grown
    <2>4. \A g \in Ids \ {n} : Grown(g)
      BY <1>0, <2>2 DEF Grown
    <2>5. QED
      BY <2>2, <2>3, <2>4
  <1>7. \/ UNCHANGED games
        \/ \E start \in Starts, room \in 0 .. rooms : StartGame(start, room)
        \/ \E f \in Flushes : FlushPersist(f)
        \/ \E r \in Requests : AddPoints(r) \/ SetFinished(r)
    BY DEF Next, vars, CreateRoom, RequestStep, FlushStep, Query, AddGameEvent, FinishGame,
           InsertEvent, InsertGameOver, FlushBegin, FlushBest, ListGames, ListRest, HistoryBest,
           Answer, GetPlayerHistory, GetGameState, GetRoomState, GetState, StateEvents, Reads
  <1>8. QED
    BY <1>1, <1>3, <1>4, <1>5, <1>6, <1>7

\* Either the reader does nothing, or it takes one of its own steps.
LEMMA ReaderMoves ==
  ASSUME [Next]_vars
  PROVE  \/ UNCHANGED reader
         \/ ListGames \/ ListRest \/ HistoryBest \/ Answer
         \/ \E p \in Players : GetPlayerHistory(p)
         \/ \E s \in SUBSET Ids : GetState(s)
         \/ \E row \in reader.rows : StateEvents(row)
  <1>1. ASSUME NEW g \in Ids, GetGameState(g) PROVE \E s \in SUBSET Ids : GetState(s)
    BY <1>1 DEF GetGameState
  <1>2. ASSUME NEW room, GetRoomState(room) PROVE \E s \in SUBSET Ids : GetState(s)
    <2>1. ActiveInRoom(room) \in SUBSET Ids
      BY DEF ActiveInRoom, GamesWith
    <2>2. QED
      BY <1>2, <2>1 DEF GetRoomState
  <1>3. QED
    BY <1>1, <1>2 DEF Next, vars, CreateRoom, StartGame, RequestStep, FlushStep, Query,
       AddGameEvent, FinishGame, InsertEvent, AddPoints, SetFinished, InsertGameOver,
       FlushBegin, FlushBest, FlushPersist

-----------------------------------------------------------------------------
(* The list of games *)

\* Every game there was when the list began has been read or is finished, and
\* so read by the second query.
ListCovers ==
    /\ reader.pc = "list" =>
          1 .. reader.from \subseteq Ids /\ \A g \in 1 .. reader.from :
              g \in {row.id : row \in reader.rows} \/ games[g].status = "finished"
    /\ ListMissesNone

LEMMA ListStep == GamesInv /\ ListCovers /\ [Next]_vars => ListCovers'
  <1> SUFFICES ASSUME GamesInv, ListCovers, [Next]_vars PROVE ListCovers'
    OBVIOUS
  <1>1. CASE UNCHANGED reader
    BY <1>1, RowsGrow DEF ListCovers, ListMissesNone, Grown
  <1>2. CASE ListGames
    <2>1. /\ reader'.pc = "list" /\ reader'.from = Len(games) /\ games' = games
          /\ reader'.rows = Rows(GamesWith("playing"))
      BY <1>2, ListGamesFacts DEF Reads
    <2>2. Ids = 1 .. Len(games) /\ GamesWith("playing") \in SUBSET Ids
      BY Numbered DEF GamesWith
    <2>3. ASSUME NEW g \in Ids, games[g].status # "finished"
          PROVE  g \in {row.id : row \in reader'.rows}
      <3>1. g \in GamesWith("playing")
        BY <2>3, Numbered DEF GamesWith, GameType
      <3>2. QED
        BY <2>1, <2>2, <3>1, RowsTyped
    <2>4. QED
      BY <2>1, <2>2, <2>3 DEF ListCovers, ListMissesNone, Ids
  <1>3. CASE ListRest
    <2>1. /\ reader.pc = "list" /\ reader'.pc = "listed" /\ reader'.from = reader.from
          /\ reader'.rows = reader.rows \cup Rows(GamesWith("finished"))
      BY <1>3, ListRestFacts
    <2>2. ASSUME NEW g \in 1 .. reader.from PROVE g \in {row.id : row \in reader'.rows}
      <3>1. CASE g \in {row.id : row \in reader.rows}
        BY <2>1, <3>1
      <3>2. CASE games[g].status = "finished"
        <4>1. g \in GamesWith("finished") /\ GamesWith("finished") \in SUBSET Ids
          BY <2>1, <3>2 DEF ListCovers, GamesWith
        <4>2. Row(g) \in reader'.rows /\ Row(g).id = g
          BY <2>1, <4>1, RowsTyped
        <4>3. QED
          BY <4>2
      <3>3. QED
        BY <2>1, <3>1, <3>2 DEF ListCovers
    <2>3. QED
      BY <2>1, <2>2 DEF ListCovers, ListMissesNone
  <1>4. reader'.pc \notin {"list", "listed"} => ListCovers'
    BY DEF ListCovers, ListMissesNone
  <1>5. QED
    BY <1>1, <1>2, <1>3, <1>4, ReaderMoves, NewTypes, HistoryFacts, HistoryBestFacts,
       GetStateFacts, StateEventsFacts DEF Answer

\* The list of games has every game there was when it was asked for, whatever
\* finishes between its two queries: playing games are read first, and a game
\* that leaves them only does so to be finished.
THEOREM ListIsComplete == Spec => []ListMissesNone
  <1>1. Init => ListCovers
    BY NewTypes DEF Init, ListCovers, ListMissesNone
  <1>2. ListCovers => ListMissesNone
    BY DEF ListCovers
  <1>3. Init => GamesInv
    BY InitGames
  <1>4. QED
    BY <1>1, <1>2, <1>3, GamesStep, ListStep, PTL DEF Spec

-----------------------------------------------------------------------------
(* The history of a player *)

\* A game the history has read is still a finished game of the player, and its
\* score can only have risen since.
HistoryHolds ==
    /\ reader.pc = "history" => \A row \in reader.rows :
          /\ games[row.id].status = "finished" /\ games[row.id].player = reader.player
          /\ games[row.id].mode = row.mode /\ row.score <= games[row.id].score
    /\ reader.pc = "flagged" =>
          \A row \in reader.rows : row.mode = "solo" => row.score <= reader.best

LEMMA HistoryStep == GamesInv /\ HistoryHolds /\ [Next]_vars => HistoryHolds'
  <1> SUFFICES ASSUME GamesInv, HistoryHolds, [Next]_vars PROVE HistoryHolds'
    OBVIOUS
  <1>0. /\ reader \in ReaderType
        /\ \A row \in reader.rows : row.id \in Ids /\ row.score \in Nat
        /\ \A g \in Ids : games[g] \in GameType /\ games[g].score \in Nat
    BY Numbered DEF GamesInv, ReaderType, RowType, GameType
  <1>1. CASE UNCHANGED reader
    <2>1. ASSUME NEW row \in reader.rows, reader.pc = "history"
          PROVE  /\ games'[row.id].status = "finished" /\ games'[row.id].player = reader.player
                 /\ games'[row.id].mode = row.mode /\ row.score <= games'[row.id].score
      <3>1. /\ games[row.id].status = "finished" /\ games[row.id].player = reader.player
            /\ games[row.id].mode = row.mode /\ row.score <= games[row.id].score
        BY <2>1 DEF HistoryHolds
      <3>2. row.id \in Ids /\ Grown(row.id) /\ Ids \subseteq Ids'
        BY <1>0, RowsGrow
      <3>3. games'[row.id].score \in Nat
        <4>1. GamesInv'
          BY GamesStep
        <4>2. \A g \in Ids' : games'[g] \in GameType
          BY <4>1 DEF GamesInv, Ids
        <4>3. QED
          BY <3>2, <4>2 DEF GameType
      <3>4. QED
        BY <1>0, <3>1, <3>2, <3>3 DEF Grown
    <2>2. QED
      BY <1>1, <2>1 DEF HistoryHolds
  <1>2. ASSUME NEW p \in Players, GetPlayerHistory(p) PROVE HistoryHolds'
    <2> DEFINE s == {g \in GamesWith("finished") : games[g].player = p}
    <2>1. /\ reader'.pc = "history" /\ reader'.player = p /\ reader'.rows = Rows(s)
          /\ games' = games
      BY <1>2, HistoryFacts DEF Reads
    <2>2. s \in SUBSET Ids /\ \A g \in s : games[g].status = "finished" /\ games[g].player = p
      BY DEF GamesWith
    <2> HIDE DEF s
    <2>3. \A row \in Rows(s) : row.id \in s /\ row = Row(row.id)
      BY <2>2, RowsTyped
    <2>4. \A row \in Rows(s) : /\ row.id \in s /\ row.mode = games[row.id].mode
                               /\ row.score = games[row.id].score
      BY <2>3 DEF Row
    <2>5. QED
      BY <1>0, <2>1, <2>2, <2>4 DEF HistoryHolds
  <1>3. CASE HistoryBest
    <2>1. /\ reader.pc = "history" /\ reader'.pc = "flagged" /\ reader'.rows = reader.rows
          /\ reader'.best = BestSoloScore(reader.player)
      BY <1>3, HistoryBestFacts
    <2>2. ASSUME NEW row \in reader.rows, row.mode = "solo" PROVE row.score <= reader'.best
      <3>1. row.id \in FinishedSolo(reader.player) /\ row.score <= games[row.id].score
        BY <1>0, <2>1, <2>2 DEF HistoryHolds, FinishedSolo, GamesWith
      <3>2. games[row.id].score <= BestSoloScore(reader.player) /\ BestSoloScore(reader.player) \in Int
        BY <3>1, BestSolo
      <3>3. QED
        BY <1>0, <2>1, <3>1, <3>2
    <2>3. QED
      BY <2>1, <2>2 DEF HistoryHolds
  <1>4. reader'.pc \notin {"history", "flagged"} => HistoryHolds'
    BY DEF HistoryHolds
  <1>5. QED
    BY <1>1, <1>2, <1>3, <1>4, ReaderMoves, NewTypes, ListGamesFacts, ListRestFacts,
       GetStateFacts, StateEventsFacts DEF Answer

\* In a player's history no solo game is better than one marked is_best, though
\* points may still reach its games between the two queries: the best is read
\* last, and scores only rise.
THEOREM HistoryMarksBest == Spec => []HistoryFlagsBest
  <1>1. Init => GamesInv /\ HistoryHolds
    BY InitGames, NewTypes DEF Init, HistoryHolds
  <1>2. HistoryHolds => HistoryFlagsBest
    BY DEF HistoryHolds, HistoryFlagsBest, Flagged
  <1>3. QED
    BY <1>1, <1>2, GamesStep, HistoryStep, PTL DEF Spec

-----------------------------------------------------------------------------
(* The record of a player *)

\* A finished solo game of p, other than n, with at least that score.
Rival(p, score, n) ==
    \E g \in FinishedSolo(p) : g # n /\ games[g].score >= score

\* The previous best a flush goes by is still matched by a game, and an answer
\* that denied a record still has its rival.
BestMatched ==
    /\ \A f \in Flushes : flush[f].pc = "persist" /\ flush[f].best # NoScore =>
          Rival(flush[f].run.player, flush[f].best, 0)
    /\ \A f \in Flushes : flush[f].pc = "done" /\ flush[f].run.mode = "solo" /\ ~flush[f].improved =>
          Rival(flush[f].run.player, flush[f].run.score, flush[f].game)

LEMMA RivalStays ==
  ASSUME GamesInv, [Next]_vars, NEW p, NEW score \in Int, NEW n, Rival(p, score, n)
  PROVE  Rival(p, score, n)'
  <1>1. PICK g \in FinishedSolo(p) : g # n /\ games[g].score >= score
    BY DEF Rival
  <1>2. /\ g \in Ids /\ games[g].status = "finished"
        /\ games[g].player = p /\ games[g].mode = "solo"
    BY DEF FinishedSolo, GamesWith
  <1>3. g \in Ids' /\ Grown(g)
    BY <1>2, RowsGrow
  <1>4. games[g].score \in Int /\ games'[g].score \in Int
    <2>1. GamesInv'
      BY GamesStep
    <2>2. \A h \in Ids' : games'[h] \in GameType
      BY <2>1 DEF GamesInv, Ids
    <2>3. QED
      BY <1>2, <1>3, <2>2, Numbered DEF GameType
  <1>5. games'[g].score >= score
    BY <1>1, <1>3, <1>4 DEF Grown
  <1>6. g \in FinishedSolo(p)'
    BY <1>2, <1>3 DEF Grown, FinishedSolo, GamesWith
  <1>7. QED
    BY <1>1, <1>5, <1>6 DEF Rival

LEMMA FlushMoves ==
  ASSUME [Next]_vars
  PROVE  \/ UNCHANGED flush
         \/ \E f \in Flushes : \/ \E run \in Runs : FlushBegin(f, run)
                               \/ FlushBest(f) \/ FlushPersist(f)
  BY DEF Next, vars, CreateRoom, StartGame, RequestStep, FlushStep, Query,
     AddGameEvent, FinishGame, InsertEvent, AddPoints, SetFinished, InsertGameOver,
     ListGames, ListRest, HistoryBest, Answer, GetPlayerHistory, GetGameState, GetRoomState,
     GetState, StateEvents, Reads

LEMMA RecordStep == GamesInv /\ BestMatched /\ [Next]_vars => BestMatched'
  <1> SUFFICES ASSUME GamesInv, BestMatched, [Next]_vars PROVE BestMatched'
    OBVIOUS
  <1> DEFINE Fine(f) ==
          /\ flush[f].pc = "persist" /\ flush[f].best # NoScore =>
                Rival(flush[f].run.player, flush[f].best, 0)
          /\ flush[f].pc = "done" /\ flush[f].run.mode = "solo" /\ ~flush[f].improved =>
                Rival(flush[f].run.player, flush[f].run.score, flush[f].game)
  <1>0. \A f \in Flushes : /\ flush[f] \in FlushType /\ flush[f].best \in Int
                           /\ flush[f].pc # "new" => flush[f].run \in Runs /\ flush[f].run.score \in Nat
    BY RunsAssumption DEF GamesInv, RunsGiven, FlushType
  <1>1. \A f \in Flushes : Fine(f)
    BY DEF BestMatched
  <1>2. ASSUME NEW f \in Flushes, flush'[f] = flush[f] PROVE Fine(f)'
    <2>1. CASE flush[f].pc = "persist" /\ flush[f].best # NoScore
      <3>1. PICK p, score : p = flush[f].run.player /\ score = flush[f].best
        OBVIOUS
      <3>2. Rival(p, score, 0)'
        BY <1>0, <1>1, <2>1, <3>1, RivalStays
      <3>3. QED
        BY <1>2, <2>1, <3>1, <3>2
    <2>2. CASE flush[f].pc = "done" /\ flush[f].run.mode = "solo" /\ ~flush[f].improved
      <3>1. PICK p, score, n : /\ p = flush[f].run.player /\ score = flush[f].run.score
                               /\ n = flush[f].game
        OBVIOUS
      <3>2. Rival(p, score, n)'
        BY <1>0, <1>1, <2>2, <3>1, RivalStays
      <3>3. QED
        BY <1>2, <2>2, <3>1, <3>2
    <2>3. QED
      BY <1>2, <2>1, <2>2
  <1>3. ASSUME NEW f \in Flushes, NEW run \in Runs, FlushBegin(f, run) PROVE Fine(f)'
    BY <1>3, FlushBeginFacts
  <1>4. ASSUME NEW f \in Flushes, FlushBest(f) PROVE Fine(f)'
    <2>1. PICK p : p = flush[f].run.player
      OBVIOUS
    <2>2. /\ flush'[f].pc = "persist" /\ flush'[f].run.player = p /\ games' = games
          /\ flush'[f].best = BestSoloScore(p)
      BY <1>4, <2>1, FlushBestFacts
    <2>3. CASE BestSoloScore(p) = NoScore
      BY <2>2, <2>3
    <2>4. CASE BestSoloScore(p) # NoScore
      <3>1. PICK g \in FinishedSolo(p) : games[g].score = BestSoloScore(p)
        BY <2>4, BestSolo
      <3>2. g \in Ids /\ g # 0
        BY Numbered DEF FinishedSolo, GamesWith
      <3>3. BestSoloScore(p) \in Int
        BY BestSolo
      <3>4. PICK score : score = BestSoloScore(p)
        OBVIOUS
      <3>5. Rival(p, score, 0)
        BY <3>1, <3>2, <3>3, <3>4 DEF Rival
      <3>6. Rival(p, score, 0)'
        BY <3>3, <3>4, <3>5, RivalStays
      <3>7. QED
        BY <2>2, <3>4, <3>6
    <2>5. QED
      BY <2>3, <2>4
  <1>5. ASSUME NEW f \in Flushes, FlushPersist(f) PROVE Fine(f)'
    <2>1. PICK p, score, best : /\ p = flush[f].run.player /\ score = flush[f].run.score
                                /\ best = flush[f].best
      OBVIOUS
    <2>2. /\ flush[f].pc = "persist" /\ flush'[f].pc = "done" /\ flush'[f].run = flush[f].run
          /\ flush'[f].game = Len(games) + 1 /\ (flush'[f].improved <=> Improved(f))
      BY <1>5, FlushPersistFacts
    <2>3. best \in Int /\ score \in Nat
      BY <1>0, <2>1, <2>2
    <2>4. PICK n : n = Len(games) + 1
      OBVIOUS
    <2>5. ASSUME flush[f].run.mode = "solo", ~Improved(f) PROVE Rival(p, score, n)'
      <3>1. best # NoScore /\ score <= best
        BY <2>1, <2>3, <2>5 DEF Improved
      <3>2. PICK g \in FinishedSolo(p) : g # 0 /\ games[g].score >= best
        BY <1>1, <2>1, <2>2, <3>1 DEF Rival
      <3>3. g \in Ids /\ g # n /\ games[g].score \in Int
        BY <2>4, Numbered DEF FinishedSolo, GamesWith, GameType
      <3>4. Rival(p, score, n)
        BY <2>3, <3>1, <3>2, <3>3 DEF Rival
      <3>5. QED
        BY <2>3, <3>4, RivalStays
    <2>6. QED
      BY <2>1, <2>2, <2>4, <2>5
  <1>6. \A f \in Flushes : Fine(f)'
    <2>1. CASE UNCHANGED flush
      BY <1>2, <2>1
    <2>2. ASSUME NEW f \in Flushes, NEW run \in Runs, FlushBegin(f, run)
          PROVE  \A h \in Flushes : Fine(h)'
      BY <1>2, <1>3, <2>2, FlushBeginFacts
    <2>3. ASSUME NEW f \in Flushes, FlushBest(f) PROVE \A h \in Flushes : Fine(h)'
      BY <1>2, <1>4, <2>3, FlushBestFacts
    <2>4. ASSUME NEW f \in Flushes, FlushPersist(f) PROVE \A h \in Flushes : Fine(h)'
      BY <1>2, <1>5, <2>4, FlushPersistFacts
    <2>5. QED
      BY <2>1, <2>2, <2>3, <2>4, FlushMoves
  <1>7. QED
    BY <1>6 DEF BestMatched

\* Whenever a flush denies a record, another finished solo game of the player
\* has at least its score: however flushes interleave between the read of the
\* previous best and the commit, no record goes unannounced.
THEOREM RecordsAreAnnounced == Spec => []RecordIsAnnounced
  <1>1. Init => GamesInv /\ BestMatched
    BY InitGames, NewTypes DEF Init, BestMatched
  <1>2. BestMatched => RecordIsAnnounced
    BY DEF BestMatched, RecordIsAnnounced, Rival, FinishedSolo, GamesWith
  <1>3. QED
    BY <1>1, <1>2, GamesStep, RecordStep, PTL DEF Spec

-----------------------------------------------------------------------------
(* Events after the end of a game *)

Late(g) == {i \in DOMAIN events : events[i].game = g /\ i > endedAt[g]}
Owes(g) == {r \in Busy : req[r].game = g}

\* Once a game has ended, the events it got since and those that requests still
\* owe it are no more than the requests there can be.
LateFew(g) ==
    endedAt[g] # -1 =>
        /\ games[g].status = "finished"
        /\ Cardinality(Late(g)) + Cardinality(Owes(g)) <= Cardinality(Requests)

LateInv == \A g \in Ids : LateFew(g)

LEMMA Counted ==
  ASSUME GamesInv, NEW g
  PROVE  /\ IsFiniteSet(Late(g)) /\ IsFiniteSet(Owes(g))
         /\ Cardinality(Late(g)) \in Nat /\ Cardinality(Owes(g)) \in Nat
         /\ Cardinality(Owes(g)) <= Cardinality(Requests) /\ Cardinality(Requests) \in Nat
  <1>1. IsFiniteSet(DOMAIN events)
    BY Numbered, FS_Interval
  <1>2. Late(g) \in SUBSET DOMAIN events /\ Owes(g) \in SUBSET Requests
    BY DEF Late, Owes, Busy
  <1>3. IsFiniteSet(Late(g))
    BY <1>1, <1>2, FS_Subset
  <1>4. IsFiniteSet(Owes(g)) /\ Cardinality(Owes(g)) <= Cardinality(Requests)
    BY <1>2, RequestsAssumption, FS_Subset
  <1>5. QED
    BY <1>3, <1>4, RequestsAssumption, FS_CardinalityType

\* Nothing more is owed to g or came to it.
LEMMA LateKept ==
  ASSUME GamesInv, [Next]_vars, NEW g \in Ids, LateFew(g), endedAt'[g] = endedAt[g],
         Late(g)' \subseteq Late(g), Owes(g)' \subseteq Owes(g)
  PROVE  LateFew(g)'
  <1>1. SUFFICES ASSUME endedAt[g] # -1 PROVE LateFew(g)'
    BY DEF LateFew
  <1>2. Grown(g) /\ games[g].status = "finished"
    BY <1>1, RowsGrow DEF LateFew
  <1>3. PICK late, owes : late = Late(g)' /\ owes = Owes(g)'
    OBVIOUS
  <1>4. /\ IsFiniteSet(late) /\ Cardinality(late) <= Cardinality(Late(g))
        /\ IsFiniteSet(owes) /\ Cardinality(owes) <= Cardinality(Owes(g))
    BY <1>3, Counted, FS_Subset
  <1>5. Cardinality(late) \in Nat /\ Cardinality(owes) \in Nat
    BY <1>4, FS_CardinalityType
  <1>6. Cardinality(late) + Cardinality(owes) <= Cardinality(Requests)
    BY <1>1, <1>4, <1>5, Counted DEF LateFew
  <1>7. QED
    BY <1>2, <1>3, <1>6 DEF LateFew, Grown

\* A request writes the event it owed.
LEMMA LatePaid ==
  ASSUME GamesInv, [Next]_vars, NEW g \in Ids, LateFew(g), endedAt'[g] = endedAt[g],
         NEW i, Late(g)' \subseteq Late(g) \cup {i},
         NEW r \in Owes(g), Owes(g)' \subseteq Owes(g) \ {r}
  PROVE  LateFew(g)'
  <1>1. SUFFICES ASSUME endedAt[g] # -1 PROVE LateFew(g)'
    BY DEF LateFew
  <1>2. Grown(g) /\ games[g].status = "finished"
    BY <1>1, RowsGrow DEF LateFew
  <1>3. PICK late, owes : late = Late(g)' /\ owes = Owes(g)'
    OBVIOUS
  <1>4. /\ IsFiniteSet(Late(g) \cup {i}) /\ Cardinality(Late(g) \cup {i}) <= Cardinality(Late(g)) + 1
    <2>1. IsFiniteSet(Late(g)) /\ Cardinality(Late(g)) \in Nat
      BY Counted
    <2> DEFINE late0 == Late(g)
    <2> HIDE DEF late0
    <2>2. IsFiniteSet(late0) /\ Cardinality(late0) \in Nat
      BY <2>1 DEF late0
    <2>3. /\ IsFiniteSet(late0 \cup {i})
          /\ Cardinality(late0 \cup {i}) = IF i \in late0 THEN Cardinality(late0)
                                           ELSE Cardinality(late0) + 1
      BY <2>2, FS_AddElement
    <2>4. Cardinality(late0 \cup {i}) <= Cardinality(late0) + 1
      BY <2>2, <2>3
    <2>5. QED
      BY <2>3, <2>4 DEF late0
  <1>5. /\ IsFiniteSet(Owes(g) \ {r}) /\ Cardinality(Owes(g) \ {r}) = Cardinality(Owes(g)) - 1
    BY Counted, FS_RemoveElement
  <1>6. IsFiniteSet(late) /\ Cardinality(late) <= Cardinality(Late(g) \cup {i})
    BY <1>3, <1>4, FS_Subset
  <1>7. IsFiniteSet(owes) /\ Cardinality(owes) <= Cardinality(Owes(g) \ {r})
    BY <1>3, <1>5, FS_Subset
  <1>8. /\ Cardinality(late) \in Nat /\ Cardinality(owes) \in Nat
        /\ Cardinality(Late(g) \cup {i}) \in Nat /\ Cardinality(Owes(g) \ {r}) \in Nat
    BY <1>4, <1>5, <1>6, <1>7, FS_CardinalityType
  <1>9. Cardinality(late) + Cardinality(owes) <= Cardinality(Requests)
    BY <1>1, <1>4, <1>5, <1>6, <1>7, <1>8, Counted DEF LateFew
  <1>10. QED
    BY <1>2, <1>3, <1>9 DEF LateFew, Grown

\* A game that ends now has no event after its end yet.
LEMMA LateNone ==
  ASSUME GamesInv, NEW g, endedAt'[g] = Len(events), events' = events,
         games'[g].status = "finished", Owes(g)' \subseteq Requests
  PROVE  LateFew(g)'
  <1>1. Late(g)' = {}
    BY Numbered DEF Late
  <1>2. PICK owes : owes = Owes(g)'
    OBVIOUS
  <1>3. Cardinality(owes) <= Cardinality(Requests) /\ IsFiniteSet(owes)
    BY <1>2, RequestsAssumption, FS_Subset
  <1>4. Cardinality(owes) \in Nat /\ Cardinality(Requests) \in Nat
    BY <1>3, RequestsAssumption, FS_CardinalityType
  <1>5. PICK late : late = Late(g)'
    OBVIOUS
  <1>6. Cardinality(late) = 0
    BY <1>1, <1>5, FS_EmptySet
  <1>7. QED
    BY <1>2, <1>3, <1>4, <1>5, <1>6 DEF LateFew

\* An event of a game that request r owed one.
LEMMA LateEvent ==
  ASSUME GamesInv, LateInv, [Next]_vars, NEW r \in Requests, r \in Busy,
         NEW e, NewEvent(e), e.game = req[r].game,
         req'[r].pc \notin {"event", "finish", "over"},
         \A q \in Requests \ {r} : req'[q] = req[q],
         UNCHANGED <<games, endedAt>>
  PROVE  LateInv'
  <1>1. Ids' = Ids
    BY DEF Ids
  <1>2. ASSUME NEW g \in Ids PROVE LateFew(g)'
    <2>1. LateFew(g) /\ endedAt'[g] = endedAt[g]
      BY DEF LateInv
    <2>2. CASE g = e.game
      <3>1. Late(g)' \subseteq Late(g) \cup {Len(events) + 1}
        BY DEF Late, NewEvent
      <3>2. r \in Owes(g) /\ Owes(g)' \subseteq Owes(g) \ {r}
        BY <2>2 DEF Owes, Busy
      <3>3. QED
        BY <2>1, <3>1, <3>2, LatePaid
    <2>3. CASE g # e.game
      <3>1. Late(g)' \subseteq Late(g) /\ Owes(g)' \subseteq Owes(g)
        BY <2>3 DEF Late, Owes, Busy, NewEvent
      <3>2. QED
        BY <2>1, <3>1, LateKept
    <2>4. QED
      BY <2>2, <2>3
  <1>3. QED
    BY <1>1, <1>2 DEF LateInv

\* A request that passes the status check: its game has not ended.
LEMMA LateChecked ==
  ASSUME GamesInv, LateInv, [Next]_vars, NEW r \in Requests, NEW n \in Ids,
         games[n].status = "playing", req[r].pc = "idle",
         req'[r].game = n, \A q \in Requests \ {r} : req'[q] = req[q],
         UNCHANGED <<games, events, endedAt>>
  PROVE  LateInv'
  <1>1. Ids' = Ids
    BY DEF Ids
  <1>2. ASSUME NEW g \in Ids PROVE LateFew(g)'
    <2>1. LateFew(g) /\ endedAt'[g] = endedAt[g]
      BY DEF LateInv
    <2>2. CASE g = n
      BY <2>1, <2>2 DEF LateFew
    <2>3. CASE g # n
      <3>1. Late(g)' \subseteq Late(g) /\ Owes(g)' \subseteq Owes(g)
        BY <2>3 DEF Late, Owes, Busy
      <3>2. QED
        BY <2>1, <3>1, LateKept
    <2>4. QED
      BY <2>2, <2>3
  <1>3. QED
    BY <1>1, <1>2 DEF LateInv

LEMMA LateStep == GamesInv /\ LateInv /\ [Next]_vars => LateInv'
  <1> SUFFICES ASSUME GamesInv, LateInv, [Next]_vars PROVE LateInv'
    OBVIOUS
  <1>1. CASE UNCHANGED <<games, events, endedAt, req>>
    BY <1>1 DEF LateInv, LateFew, Late, Owes, Busy, Ids
  <1>2. ASSUME NEW start \in Starts, NEW room \in 0 .. rooms, StartGame(start, room)
        PROVE  LateInv'
    <2>1. /\ NewGame(GameStarted(start, room)) /\ NewEnd(-1) /\ req' = req
          /\ NewEvent(Event(Len(games) + 1, "game_started", 0))
      BY <1>2, StartFacts
    <2>2. ASSUME NEW g \in Ids PROVE LateFew(g)'
      <3>1. g # Len(games) + 1 /\ endedAt'[g] = endedAt[g] /\ LateFew(g)
        BY <2>1 DEF NewGame, NewEnd, LateInv
      <3>2. Late(g)' \subseteq Late(g)
        BY <2>1, <3>1 DEF Late, NewEvent, Event
      <3>3. Owes(g)' \subseteq Owes(g)
        BY <2>1 DEF Owes, Busy
      <3>4. QED
        BY <3>1, <3>2, <3>3, LateKept
    <2>3. PICK n : n = Len(games) + 1
      OBVIOUS
    <2>4. endedAt'[n] = -1 /\ Ids' = Ids \cup {n}
      BY <2>1, <2>3 DEF NewEnd, NewGame
    <2>5. LateFew(n)'
      BY <2>4 DEF LateFew
    <2>6. QED
      BY <2>2, <2>4, <2>5 DEF LateInv
  <1>3. ASSUME NEW r \in Requests, NEW g \in Ids, NEW points \in Points,
               AddGameEvent(r, g, points)
        PROVE  LateInv'
    <2>1. /\ games[g].status = "playing" /\ req[r].pc = "idle"
          /\ req'[r] = [pc |-> "event", game |-> g, points |-> points]
          /\ \A q \in Requests \ {r} : req'[q] = req[q]
          /\ games' = games /\ events' = events /\ endedAt' = endedAt
      BY <1>3, AddGameEventFacts
    <2>2. req'[r].game = g
      BY <2>1
    <2>3. QED
      BY <2>1, <2>2, LateChecked
  <1>4. ASSUME NEW r \in Requests, NEW g \in Ids, FinishGame(r, g) PROVE LateInv'
    <2>1. /\ games[g].status = "playing" /\ req[r].pc = "idle"
          /\ req'[r] = [pc |-> "finish", game |-> g, points |-> 0]
          /\ \A q \in Requests \ {r} : req'[q] = req[q]
          /\ games' = games /\ events' = events /\ endedAt' = endedAt
      BY <1>4, FinishGameFacts
    <2>2. req'[r].game = g
      BY <2>1
    <2>3. QED
      BY <2>1, <2>2, LateChecked
  <1>5. ASSUME NEW r \in Requests, InsertEvent(r) PROVE LateInv'
    <2> DEFINE e == Event(req[r].game, "hit", req[r].points)
    <2>1. /\ req[r].pc = "event" /\ NewEvent(e)
          /\ req'[r] = IF req[r].points > 0
                       THEN [pc |-> "points", game |-> req[r].game, points |-> req[r].points]
                       ELSE NewRequest
          /\ \A q \in Requests \ {r} : req'[q] = req[q]
          /\ games' = games /\ endedAt' = endedAt
      BY <1>5, InsertEventFacts
    <2>2. r \in Busy /\ e.game = req[r].game
      BY <2>1 DEF Busy, Event
    <2>3. req'[r].pc \notin {"event", "finish", "over"}
      BY <2>1, NewTypes
    <2> HIDE DEF e
    <2>4. QED
      BY <2>1, <2>2, <2>3, LateEvent
  <1>6. ASSUME NEW r \in Requests, InsertGameOver(r) PROVE LateInv'
    <2> DEFINE e == Event(req[r].game, "game_over", 0)
    <2>1. /\ req[r].pc = "over" /\ NewEvent(e) /\ e.game = req[r].game
          /\ req'[r].pc \notin {"event", "finish", "over"}
          /\ \A q \in Requests \ {r} : req'[q] = req[q]
          /\ UNCHANGED <<games, endedAt>>
      BY <1>6, InsertGameOverFacts, NewTypes DEF Event
    <2>2. r \in Busy
      BY <2>1 DEF Busy
    <2> HIDE DEF e
    <2>3. QED
      BY <2>1, <2>2, LateEvent
  <1>7. ASSUME NEW r \in Requests, AddPoints(r) PROVE LateInv'
    <2>1. /\ Ids' = Ids /\ events' = events /\ endedAt' = endedAt
          /\ req'[r].pc = "idle" /\ \A q \in Requests \ {r} : req'[q] = req[q]
      BY <1>7, AddPointsFacts, NewTypes DEF Rewritten
    <2>2. ASSUME NEW g \in Ids PROVE LateFew(g)'
      <3>1. Late(g)' \subseteq Late(g) /\ Owes(g)' \subseteq Owes(g)
        BY <2>1 DEF Late, Owes, Busy
      <3>2. QED
        BY <2>1, <3>1, LateKept DEF LateInv
    <2>3. QED
      BY <2>1, <2>2 DEF LateInv
  <1>8. ASSUME NEW r \in Requests, SetFinished(r) PROVE LateInv'
    <2>1. PICK n : n = req[r].game
      OBVIOUS
    <2>2. /\ req[r].pc = "finish" /\ n \in Ids /\ Ids' = Ids /\ events' = events
          /\ games'[n].status = "finished"
          /\ endedAt'[n] = IF endedAt[n] = -1 THEN Len(events) ELSE endedAt[n]
          /\ \A g \in Ids \ {n} : endedAt'[g] = endedAt[g]
          /\ req'[r].game = n
          /\ \A q \in Requests \ {r} : req'[q] = req[q]
      <3>1. games[n] \in GameType
        BY <1>8, <2>1, SetFinishedFacts, Numbered
      <3>2. games'[n] = [games[n] EXCEPT !.status = "finished"]
        BY <1>8, <2>1, SetFinishedFacts DEF Rewritten
      <3>3. games'[n].status = "finished"
        BY <3>1, <3>2 DEF GameType
      <3>4. /\ Rewritten(n, [games[n] EXCEPT !.status = "finished"])
            /\ req'[r] = [pc |-> "over", game |-> n, points |-> 0]
        BY <1>8, <2>1, SetFinishedFacts
      <3>5. Ids' = Ids /\ req'[r].game = n
        BY <3>4 DEF Rewritten
      <3>6. /\ req[r].pc = "finish" /\ n \in Ids /\ events' = events
            /\ endedAt'[n] = IF endedAt[n] = -1 THEN Len(events) ELSE endedAt[n]
            /\ \A g \in Ids \ {n} : endedAt'[g] = endedAt[g]
            /\ \A q \in Requests \ {r} : req'[q] = req[q]
        BY <1>8, <2>1, SetFinishedFacts
      <3>7. QED
        BY <3>3, <3>5, <3>6
    <2>3. ASSUME NEW g \in Ids PROVE LateFew(g)'
      <3>1. Owes(g)' \subseteq Owes(g) /\ Owes(g)' \subseteq Requests
        BY <2>1, <2>2 DEF Owes, Busy
      <3>2. CASE g = n /\ endedAt[n] = -1
        BY <2>2, <3>1, <3>2, LateNone
      <3>3. CASE g # n \/ endedAt[n] # -1
        <4>1. endedAt'[g] = endedAt[g]
          BY <2>2, <3>3
        <4>2. Late(g)' \subseteq Late(g)
          BY <2>2, <4>1 DEF Late
        <4>3. QED
          BY <3>1, <4>1, <4>2, LateKept DEF LateInv
      <3>4. QED
        BY <3>2, <3>3
    <2>4. QED
      BY <2>2, <2>3 DEF LateInv
  <1>9. ASSUME NEW f \in Flushes, FlushPersist(f) PROVE LateInv'
    <2>1. PICK n : n = Len(games) + 1
      OBVIOUS
    <2>2. /\ NewGame(FinishedGame(f)) /\ NewEnd(Len(events)) /\ events' = events /\ req' = req
      BY <1>9, FlushPersistFacts
    <2>3. /\ Ids' = Ids \cup {n} /\ games'[n].status = "finished" /\ endedAt'[n] = Len(events)
          /\ \A g \in Ids : endedAt'[g] = endedAt[g]
      BY <2>1, <2>2 DEF NewGame, NewEnd, FinishedGame
    <2>4. ASSUME NEW g \in Ids PROVE LateFew(g)'
      <3>1. Late(g)' \subseteq Late(g) /\ Owes(g)' \subseteq Owes(g)
        BY <2>2, <2>3 DEF Late, Owes, Busy
      <3>2. QED
        BY <2>3, <3>1, LateKept DEF LateInv
    <2>5. LateFew(n)'
      <3>1. Owes(n)' \subseteq Requests
        BY DEF Owes, Busy
      <3>2. QED
        BY <2>2, <2>3, <3>1, LateNone
    <2>6. QED
      BY <2>3, <2>4, <2>5 DEF LateInv
  <1>10. \/ UNCHANGED <<games, events, endedAt, req>>
         \/ \E start \in Starts, room \in 0 .. rooms : StartGame(start, room)
         \/ \E r \in Requests : RequestStep(r)
         \/ \E f \in Flushes : FlushPersist(f)
    BY DEF Next, vars, CreateRoom, FlushStep, Query, FlushBegin, FlushBest,
           ListGames, ListRest, HistoryBest, Answer, GetPlayerHistory, GetGameState,
           GetRoomState, GetState, StateEvents, Reads
  <1>11. QED
    BY <1>1, <1>2, <1>3, <1>4, <1>5, <1>6, <1>7, <1>8, <1>9, <1>10 DEF RequestStep

\* A finished game gets at most as many events after its end as there are
\* requests: each had passed the status check before.
THEOREM LateEventsAreFew == Spec => []FewLateEvents
  <1>1. Init => GamesInv /\ LateInv
    BY InitGames DEF Init, LateInv, Ids
  <1>2. GamesInv /\ LateInv => FewLateEvents
    <2>1. SUFFICES ASSUME GamesInv, LateInv, NEW g \in Ids, endedAt[g] # -1
                   PROVE  Cardinality(Late(g)) <= Cardinality(Requests)
      BY DEF FewLateEvents, Late
    <2>2. QED
      BY <2>1, Counted DEF LateInv, LateFew
  <1>3. QED
    BY <1>1, <1>2, GamesStep, LateStep, PTL DEF Spec

-----------------------------------------------------------------------------
(* Scores and events *)

Worths == [i \in DOMAIN events |-> Worth(events[i])]
EventsOf(g) == {i \in DOMAIN events : events[i].game = g}

\* What requests q still have to add to game g, and the share of one of them.
PointsOf(q) == [r \in Requests |-> q[r].points]
AddingOf(q, g) == {r \in Requests : q[r].pc = "points" /\ q[r].game = g}
ToAdd(q, g) == SumFunctionOnSet(PointsOf(q), AddingOf(q, g))
Share(q, r, g) == IF r \in AddingOf(q, g) THEN q[r].points ELSE 0

\* A stored event adds its worth to the sum of its game, and to no other.
LEMMA EventSumGrows ==
  ASSUME GamesInv, NEW e, NewEvent(e), NEW g
  PROVE  EventSum(g)' = EventSum(g) + (IF e.game = g THEN Worth(e) ELSE 0)
  <1>1. PICK w, v, s, t, n :
           /\ w = Worths /\ v = Worths' /\ s = EventsOf(g) /\ t = EventsOf(g)'
           /\ n = Len(events) + 1
    OBVIOUS
  <1>2. EventSum(g) = SumFunctionOnSet(w, s) /\ EventSum(g)' = SumFunctionOnSet(v, t)
    BY <1>1 DEF EventSum, Worths, EventsOf
  <1>3. /\ DOMAIN events' = DOMAIN events \cup {n} /\ n \notin DOMAIN events /\ events'[n] = e
        /\ \A i \in DOMAIN events : events'[i] = events[i]
    BY <1>1 DEF NewEvent
  <1>4. IsFiniteSet(DOMAIN events) /\ s \in SUBSET DOMAIN events
    BY <1>1, Numbered, FS_Interval DEF EventsOf
  <1>5. IsFiniteSet(DOMAIN events') /\ t \in SUBSET DOMAIN events' /\ s \in SUBSET DOMAIN events'
    BY <1>1, <1>3, <1>4, FS_AddElement DEF EventsOf
  <1>6. \A i \in DOMAIN events' : v[i] = Worth(events'[i])
    BY <1>1 DEF Worths
  <1>7. \A i \in DOMAIN events' : v[i] \in Int
    <2>1. events' \in Seq(EventType)
      BY DEF NewEvent
    <2>2. \A i \in DOMAIN events' : events'[i] \in EventType
      BY <2>1
    <2>3. QED
      BY <1>6, <2>2 DEF Worth, EventType
  <1>8. SumFunctionOnSet(v, s) = SumFunctionOnSet(w, s)
    <2>1. \A i \in s : v[i] = w[i]
      BY <1>1, <1>3, <1>4, <1>6 DEF Worths
    <2>2. IsFiniteSet(s)
      BY <1>4, FS_Subset
    <2>3. QED
      BY <2>1, <2>2, SumOfSame
  <1>9. PICK T : T = DOMAIN events'
    OBVIOUS
  <1>10. \A u \in SUBSET T :
            /\ SumFunctionOnSet(v, u) \in Int
            /\ \A x \in u : SumFunctionOnSet(v, u) = v[x] + SumFunctionOnSet(v, u \ {x})
    <2>1. IsFiniteSet(T) /\ \A x \in T : v[x] \in Int
      BY <1>5, <1>7, <1>9
    <2>2. QED
      BY <2>1, SumFacts
  <1>11. CASE e.game = g
    <2>1. n \in t /\ t \ {n} = s
      BY <1>1, <1>3, <1>11 DEF EventsOf
    <2>2. SumFunctionOnSet(v, t) = v[n] + SumFunctionOnSet(v, s) /\ v[n] \in Int
      BY <1>3, <1>5, <1>7, <1>9, <1>10, <2>1
    <2>3. v[n] = Worth(e) /\ SumFunctionOnSet(v, s) \in Int
      BY <1>3, <1>5, <1>6, <1>9, <1>10
    <2>4. QED
      BY <1>2, <1>8, <1>11, <2>2, <2>3
  <1>12. CASE e.game # g
    <2>1. t = s
      BY <1>1, <1>3, <1>12 DEF EventsOf
    <2>2. SumFunctionOnSet(v, s) \in Int
      BY <1>5, <1>9, <1>10
    <2>3. QED
      BY <1>2, <1>8, <1>12, <2>1, <2>2
  <1>13. QED
    BY <1>11, <1>12

\* What is still to add is an integer, not below zero, from which the share of
\* a request can be taken out.
LEMMA ToAddFacts ==
  ASSUME NEW q \in [Requests -> RequestType], NEW g, NEW r \in Requests
  PROVE  /\ ToAdd(q, g) \in Int /\ Share(q, r, g) \in Int
         /\ (\A x \in AddingOf(q, g) : q[x].points >= 0) => ToAdd(q, g) >= 0
         /\ SumFunctionOnSet(PointsOf(q), AddingOf(q, g) \ {r}) \in Int
         /\ ToAdd(q, g) = Share(q, r, g) + SumFunctionOnSet(PointsOf(q), AddingOf(q, g) \ {r})
  <1>1. \A x \in Requests : q[x].points \in Int /\ PointsOf(q)[x] = q[x].points
    BY DEF RequestType, PointsOf
  <1>2. PICK f, s : f = PointsOf(q) /\ s = AddingOf(q, g)
    OBVIOUS
  <1>3. s \in SUBSET Requests /\ s \ {r} \in SUBSET Requests
    BY <1>2 DEF AddingOf
  <1>4. \A u \in SUBSET Requests :
            /\ SumFunctionOnSet(f, u) \in Int
            /\ (\A x \in u : f[x] >= 0) => SumFunctionOnSet(f, u) >= 0
            /\ \A x \in u : SumFunctionOnSet(f, u) = f[x] + SumFunctionOnSet(f, u \ {x})
    <2>1. \A x \in Requests : f[x] \in Int
      BY <1>1, <1>2
    <2>2. QED
      BY <2>1, RequestsAssumption, SumFacts
  <1>5. SumFunctionOnSet(f, s) \in Int /\ SumFunctionOnSet(f, s \ {r}) \in Int
    BY <1>3, <1>4
  <1>6. ASSUME \A x \in s : q[x].points >= 0 PROVE SumFunctionOnSet(f, s) >= 0
    <2>1. \A x \in s : f[x] >= 0
      BY <1>1, <1>2, <1>3, <1>6
    <2>2. QED
      BY <1>3, <1>4, <2>1
  <1>7. SumFunctionOnSet(f, s) = Share(q, r, g) + SumFunctionOnSet(f, s \ {r})
    <2>1. CASE r \in s
      <3>1. SumFunctionOnSet(f, s) = f[r] + SumFunctionOnSet(f, s \ {r})
        BY <1>3, <1>4, <2>1
      <3>2. Share(q, r, g) = f[r]
        BY <1>1, <1>2, <2>1 DEF Share
      <3>3. QED
        BY <3>1, <3>2
    <2>2. CASE r \notin s
      <3>1. s \ {r} = s /\ Share(q, r, g) = 0
        BY <1>2, <2>2 DEF Share
      <3>2. QED
        BY <1>5, <3>1
    <2>3. QED
      BY <2>1, <2>2
  <1>8. Share(q, r, g) \in Int
    BY <1>1 DEF Share
  <1>9. QED
    BY <1>2, <1>5, <1>6, <1>7, <1>8 DEF ToAdd

\* When one request takes a step, what is to add changes by its share.
LEMMA ToAddChanges ==
  ASSUME NEW q \in [Requests -> RequestType], NEW p \in [Requests -> RequestType],
         NEW g, NEW r \in Requests, \A x \in Requests \ {r} : p[x] = q[x]
  PROVE  ToAdd(p, g) = ToAdd(q, g) - Share(q, r, g) + Share(p, r, g)
  <1>1. PICK f, h, s, t :
            /\ f = PointsOf(q) /\ h = PointsOf(p) /\ s = AddingOf(q, g) /\ t = AddingOf(p, g)
    OBVIOUS
  <1>2. s \ {r} = t \ {r} /\ s \ {r} \in SUBSET Requests
    BY <1>1 DEF AddingOf
  <1>3. \A x \in s \ {r} : f[x] = h[x]
    BY <1>1, <1>2 DEF PointsOf
  <1>4. IsFiniteSet(s \ {r})
    BY <1>2, RequestsAssumption, FS_Subset
  <1>5. SumFunctionOnSet(f, s \ {r}) = SumFunctionOnSet(h, s \ {r})
    BY <1>3, <1>4, SumOfSame
  <1>6. /\ Share(q, r, g) \in Int /\ SumFunctionOnSet(f, s \ {r}) \in Int
        /\ ToAdd(q, g) = Share(q, r, g) + SumFunctionOnSet(f, s \ {r})
    BY <1>1, ToAddFacts
  <1>7. /\ Share(p, r, g) \in Int
        /\ ToAdd(p, g) = Share(p, r, g) + SumFunctionOnSet(h, t \ {r})
    BY <1>1, ToAddFacts
  <1>8. PICK rest : rest = SumFunctionOnSet(f, s \ {r})
    OBVIOUS
  <1>9. /\ rest \in Int /\ ToAdd(q, g) = Share(q, r, g) + rest
        /\ ToAdd(p, g) = Share(p, r, g) + rest
    BY <1>2, <1>5, <1>6, <1>7, <1>8
  <1>10. QED
    BY <1>6, <1>7, <1>9

\* Score and points still to add are together what the events are worth.
Accounted(g) ==
    games[g].room # NoRoom => games[g].score + ToAdd(req, g) = EventSum(g)

LEMMA ScoreMeaning == ScoreIsEventSum <=> \A g \in Ids : Accounted(g)
  BY DEF ScoreIsEventSum, Accounted, ToAdd, PointsOf, AddingOf, Adding

LEMMA AccountTyped ==
  ASSUME GamesInv, NEW g \in Ids
  PROVE  games[g].score \in Int /\ ToAdd(req, g) \in Int /\ EventSum(g) \in Int
  <1>1. games[g].score \in Int /\ EventSum(g) \in Int
    BY Numbered, EventSumInt DEF GameType
  <1>2. ToAdd(req, g) \in Int
    <2>1. PICK f : f = PointsOf(req)
      OBVIOUS
    <2>2. (\A q \in Requests : f[q] \in Int) /\ AddingOf(req, g) \in SUBSET Requests
      BY <2>1 DEF PointsOf, AddingOf, GamesInv, RequestType
    <2>3. SumFunctionOnSet(f, AddingOf(req, g)) \in Int
      BY <2>2, RequestsAssumption, SumFacts
    <2>4. QED
      BY <2>1, <2>3 DEF ToAdd
  <1>3. QED
    BY <1>1, <1>2

\* No request adds to a game that does not exist yet, and it has no event.
LEMMA NothingYet ==
  ASSUME GamesInv, NEW n, n \notin Ids
  PROVE  ToAdd(req, n) = 0 /\ EventSum(n) = 0
  <1>1. AddingOf(req, n) = {} /\ EventsOf(n) = {}
    BY DEF GamesInv, Busied, AddingOf, EventsOf
  <1>2. EventSum(n) = SumFunctionOnSet(Worths, EventsOf(n))
    BY DEF EventSum, Worths, EventsOf
  <1>3. QED
    BY <1>1, <1>2, SumOfNone DEF ToAdd

\* A request moves between steps that add no points.
LEMMA AccountedMove ==
  ASSUME GamesInv, NEW g \in Ids, Accounted(g), NEW r \in Requests,
         req' \in [Requests -> RequestType], \A q \in Requests \ {r} : req'[q] = req[q],
         req[r].pc # "points", req'[r].pc # "points",
         games'[g].room = games[g].room, games'[g].score = games[g].score,
         EventSum(g)' = EventSum(g)
  PROVE  Accounted(g)'
  <1>1. PICK p : p = req'
    OBVIOUS
  <1>2. Share(req, r, g) = 0 /\ Share(p, r, g) = 0
    BY <1>1 DEF Share, AddingOf
  <1>3. ToAdd(p, g) = ToAdd(req, g) - Share(req, r, g) + Share(p, r, g)
    BY <1>1, ToAddChanges DEF GamesInv
  <1>4. ToAdd(p, g) = ToAdd(req, g)
    BY <1>2, <1>3, AccountTyped
  <1>5. QED
    BY <1>1, <1>4 DEF Accounted

LEMMA SameEvents == ASSUME NEW g, events' = events PROVE EventSum(g)' = EventSum(g)
  BY DEF EventSum

LEMMA ScoreStep ==
  GamesInv /\ (\A g \in Ids : Accounted(g)) /\ [Next]_vars => (\A g \in Ids : Accounted(g))'
  <1> SUFFICES ASSUME GamesInv, \A g \in Ids : Accounted(g), [Next]_vars
               PROVE  \A g \in Ids' : Accounted(g)'
    OBVIOUS
  <1>1. CASE UNCHANGED <<games, events, req>>
    BY <1>1, SameEvents DEF Accounted, Ids
  <1>2. ASSUME NEW start \in Starts, NEW room \in 0 .. rooms, StartGame(start, room)
        PROVE  \A g \in Ids' : Accounted(g)'
    <2>1. PICK n, row, e : /\ n = Len(games) + 1 /\ row = GameStarted(start, room)
                           /\ e = Event(n, "game_started", 0)
      OBVIOUS
    <2>2. NewGame(row) /\ NewEvent(e) /\ req' = req
      BY <1>2, <2>1, StartFacts
    <2>3. \A g : EventSum(g)' = EventSum(g) + (IF e.game = g THEN Worth(e) ELSE 0)
      BY <2>2, EventSumGrows
    <2>4. e.game = n /\ Worth(e) = 0
      BY <2>1 DEF Event, Worth
    <2>5. /\ Ids' = Ids \cup {n} /\ n \notin Ids /\ games'[n].score = 0
          /\ \A g \in Ids : games'[g] = games[g]
      BY <2>1, <2>2 DEF NewGame, GameStarted
    <2>6. ASSUME NEW g \in Ids PROVE Accounted(g)'
      <3>1. EventSum(g)' = EventSum(g)
        BY <2>3, <2>4, AccountTyped
      <3>2. QED
        BY <2>2, <2>5, <3>1 DEF Accounted
    <2>7. Accounted(n)'
      <3>1. ToAdd(req, n) = 0 /\ EventSum(n) = 0
        BY <2>5, NothingYet
      <3>2. EventSum(n)' = 0
        BY <2>3, <2>4, <3>1
      <3>3. QED
        BY <2>2, <2>5, <3>1, <3>2 DEF Accounted
    <2>8. QED
      BY <2>5, <2>6, <2>7
  <1>3. ASSUME NEW r \in Requests, NEW g \in Ids, NEW points \in Points,
               AddGameEvent(r, g, points)
        PROVE  \A h \in Ids' : Accounted(h)'
    <2>1. /\ req[r].pc = "idle" /\ req' \in [Requests -> RequestType]
          /\ req'[r] = [pc |-> "event", game |-> g, points |-> points]
          /\ \A q \in Requests \ {r} : req'[q] = req[q]
          /\ games' = games /\ events' = events
      BY <1>3, AddGameEventFacts
    <2>2. req'[r].pc # "points" /\ Ids' = Ids
      BY <2>1 DEF Ids
    <2>3. QED
      BY <2>1, <2>2, SameEvents, AccountedMove
  <1>4. ASSUME NEW r \in Requests, NEW g \in Ids, FinishGame(r, g)
        PROVE  \A h \in Ids' : Accounted(h)'
    <2>1. /\ req[r].pc = "idle" /\ req' \in [Requests -> RequestType]
          /\ req'[r] = [pc |-> "finish", game |-> g, points |-> 0]
          /\ \A q \in Requests \ {r} : req'[q] = req[q]
          /\ games' = games /\ events' = events
      BY <1>4, FinishGameFacts
    <2>2. req'[r].pc # "points" /\ Ids' = Ids
      BY <2>1 DEF Ids
    <2>3. QED
      BY <2>1, <2>2, SameEvents, AccountedMove
  <1>5. ASSUME NEW r \in Requests, InsertEvent(r) PROVE \A g \in Ids' : Accounted(g)'
    <2>1. PICK e, n, points, p :
              /\ e = Event(req[r].game, "hit", req[r].points)
              /\ n = req[r].game /\ points = req[r].points /\ p = req'
      OBVIOUS
    <2>2. /\ req[r].pc = "event" /\ n \in Ids /\ points \in Int /\ NewEvent(e)
          /\ p \in [Requests -> RequestType]
          /\ p[r] = IF points > 0 THEN [pc |-> "points", game |-> n, points |-> points]
                    ELSE NewRequest
          /\ \A q \in Requests \ {r} : p[q] = req[q]
          /\ games' = games
      BY <1>5, <2>1, InsertEventFacts
    <2>3. e.game = n /\ Worth(e) = IF points > 0 THEN points ELSE 0
      BY <2>1 DEF Event, Worth
    <2>4. ASSUME NEW g \in Ids PROVE Accounted(g)'
      <3>1. EventSum(g)' = EventSum(g) + (IF n = g THEN Worth(e) ELSE 0)
        BY <2>2, <2>3, EventSumGrows
      <3>2. Share(req, r, g) = 0
        BY <2>2 DEF Share, AddingOf
      <3>3. Share(p, r, g) = IF n = g THEN Worth(e) ELSE 0
        <4>1. CASE points > 0
          <5>1. p[r].pc = "points" /\ p[r].game = n /\ p[r].points = points
            BY <2>2, <4>1
          <5>2. QED
            BY <2>3, <4>1, <5>1 DEF Share, AddingOf
        <4>2. CASE ~ (points > 0)
          <5>1. p[r].pc = "idle"
            BY <2>2, <4>2, NewTypes
          <5>2. QED
            BY <2>3, <4>2, <5>1 DEF Share, AddingOf
        <4>3. QED
          BY <4>1, <4>2
      <3>4. ToAdd(p, g) = ToAdd(req, g) - Share(req, r, g) + Share(p, r, g)
        BY <2>2, ToAddChanges DEF GamesInv
      <3>5. Share(p, r, g) \in Int
        BY <2>2, <2>3, <3>3
      <3>6. ToAdd(p, g) = ToAdd(req, g) + Share(p, r, g)
        BY <3>2, <3>4, <3>5, AccountTyped
      <3>7. CASE games[g].room # NoRoom
        <4>1. games[g].score + ToAdd(req, g) = EventSum(g)
          BY <3>7 DEF Accounted
        <4>2. games[g].score + ToAdd(p, g) = EventSum(g)'
          BY <3>1, <3>3, <3>5, <3>6, <4>1, AccountTyped
        <4>3. QED
          BY <2>1, <2>2, <4>2 DEF Accounted
      <3>8. QED
        BY <2>2, <3>7 DEF Accounted
    <2>5. QED
      BY <2>2, <2>4 DEF Ids
  <1>6. ASSUME NEW r \in Requests, InsertGameOver(r) PROVE \A g \in Ids' : Accounted(g)'
    <2>1. PICK e : e = Event(req[r].game, "game_over", 0)
      OBVIOUS
    <2>2. /\ req[r].pc = "over" /\ req' \in [Requests -> RequestType] /\ NewEvent(e)
          /\ req'[r] = NewRequest
          /\ \A q \in Requests \ {r} : req'[q] = req[q]
          /\ games' = games
      BY <1>6, <2>1, InsertGameOverFacts
    <2>3. req'[r].pc # "points" /\ Ids' = Ids
      BY <2>2, NewTypes DEF Ids
    <2>4. Worth(e) = 0
      BY <2>1 DEF Event, Worth
    <2>5. \A g \in Ids : EventSum(g)' = EventSum(g)
      BY <2>2, <2>4, EventSumGrows, AccountTyped
    <2>6. QED
      BY <2>2, <2>3, <2>5, AccountedMove
  <1>7. ASSUME NEW r \in Requests, AddPoints(r) PROVE \A g \in Ids' : Accounted(g)'
    <2>1. PICK n, points, p : n = req[r].game /\ points = req[r].points /\ p = req'
      OBVIOUS
    <2>2. /\ req[r].pc = "points" /\ n \in Ids /\ points \in Int
          /\ Rewritten(n, [games[n] EXCEPT !.score = @ + points])
          /\ p \in [Requests -> RequestType] /\ p[r] = NewRequest
          /\ \A q \in Requests \ {r} : p[q] = req[q]
          /\ events' = events
      BY <1>7, <2>1, AddPointsFacts
    <2>3. /\ Ids' = Ids /\ games'[n] = [games[n] EXCEPT !.score = @ + points]
          /\ \A g \in Ids \ {n} : games'[g] = games[g]
      BY <2>2 DEF Rewritten
    <2>4. games'[n].score = games[n].score + points /\ games'[n].room = games[n].room
      <3>1. games[n] \in GameType
        BY <2>2, Numbered
      <3>2. QED
        BY <2>3, <3>1 DEF GameType
    <2>5. ASSUME NEW g \in Ids PROVE Accounted(g)'
      <3>1. EventSum(g)' = EventSum(g)
        BY <2>2, SameEvents
      <3>2. Share(req, r, g) = IF n = g THEN points ELSE 0
        BY <2>1, <2>2 DEF Share, AddingOf
      <3>3. Share(p, r, g) = 0
        BY <2>2, NewTypes DEF Share, AddingOf
      <3>4. ToAdd(p, g) = ToAdd(req, g) - Share(req, r, g) + Share(p, r, g)
        BY <2>2, ToAddChanges DEF GamesInv
      <3>5. games'[g].room = games[g].room
        BY <2>3, <2>4
      <3>6. games'[g].score = games[g].score + (IF n = g THEN points ELSE 0)
        <4>1. CASE g = n
          BY <2>4, <4>1
        <4>2. CASE g # n
          BY <2>3, <4>2, AccountTyped
        <4>3. QED
          BY <4>1, <4>2
      <3>7. games'[g].score + ToAdd(p, g) = games[g].score + ToAdd(req, g)
        BY <2>2, <3>2, <3>3, <3>4, <3>6, AccountTyped
      <3>8. QED
        BY <2>1, <3>1, <3>5, <3>7 DEF Accounted
    <2>6. QED
      BY <2>3, <2>5
  <1>8. ASSUME NEW r \in Requests, SetFinished(r) PROVE \A g \in Ids' : Accounted(g)'
    <2>1. PICK n : n = req[r].game
      OBVIOUS
    <2>2. /\ req[r].pc = "finish" /\ n \in Ids
          /\ Rewritten(n, [games[n] EXCEPT !.status = "finished"])
          /\ req' \in [Requests -> RequestType]
          /\ req'[r] = [pc |-> "over", game |-> n, points |-> 0]
          /\ \A q \in Requests \ {r} : req'[q] = req[q]
          /\ events' = events
      BY <1>8, <2>1, SetFinishedFacts
    <2>3. /\ Ids' = Ids /\ games'[n] = [games[n] EXCEPT !.status = "finished"]
          /\ \A g \in Ids \ {n} : games'[g] = games[g]
      BY <2>2 DEF Rewritten
    <2>4. games'[n].score = games[n].score /\ games'[n].room = games[n].room
      <3>1. games[n] \in GameType
        BY <2>2, Numbered
      <3>2. QED
        BY <2>3, <3>1 DEF GameType
    <2>5. req'[r].pc # "points"
      BY <2>2
    <2>6. \A g \in Ids : games'[g].score = games[g].score /\ games'[g].room = games[g].room
      BY <2>3, <2>4
    <2>7. QED
      BY <2>2, <2>3, <2>5, <2>6, SameEvents, AccountedMove
  <1>9. ASSUME NEW f \in Flushes, FlushPersist(f) PROVE \A g \in Ids' : Accounted(g)'
    <2>1. NewGame(FinishedGame(f)) /\ events' = events /\ req' = req
      BY <1>9, FlushPersistFacts
    <2>2. /\ Ids' = Ids \cup {Len(games) + 1} /\ games'[Len(games) + 1].room = NoRoom
          /\ \A g \in Ids : games'[g] = games[g]
      BY <2>1 DEF NewGame, FinishedGame
    <2>3. \A g \in Ids : Accounted(g)'
      BY <2>1, <2>2, SameEvents DEF Accounted
    <2>4. PICK n : n = Len(games) + 1
      OBVIOUS
    <2>5. Accounted(n)'
      BY <2>2, <2>4 DEF Accounted
    <2>6. QED
      BY <2>2, <2>3, <2>4, <2>5
  <1>10. \/ UNCHANGED <<games, events, req>>
         \/ \E start \in Starts, room \in 0 .. rooms : StartGame(start, room)
         \/ \E r \in Requests : RequestStep(r)
         \/ \E f \in Flushes : FlushPersist(f)
    BY DEF Next, vars, CreateRoom, FlushStep, Query, FlushBegin, FlushBest,
           ListGames, ListRest, HistoryBest, Answer, GetPlayerHistory, GetGameState,
           GetRoomState, GetState, StateEvents, Reads
  <1>11. QED
    BY <1>1, <1>2, <1>3, <1>4, <1>5, <1>6, <1>7, <1>8, <1>9, <1>10 DEF RequestStep

\* The score of a started game is at all times what its stored events are
\* worth, less what requests have stored and still have to add: neither
\* concurrent requests nor a finish lose points.
THEOREM ScoresAddUp == Spec => []ScoreIsEventSum
  <1>1. Init => GamesInv /\ \A g \in Ids : Accounted(g)
    BY InitGames DEF Init, Ids
  <1>2. (\A g \in Ids : Accounted(g)) => ScoreIsEventSum
    BY ScoreMeaning
  <1>3. QED
    BY <1>1, <1>2, GamesStep, ScoreStep, PTL DEF Spec

-----------------------------------------------------------------------------
(* A state and the events shown with it *)

\* No score is above what the stored events of the game are worth.
LEMMA ScoreBacked ==
  ASSUME GamesInv, NEW g \in Ids, Accounted(g), games[g].room # NoRoom
  PROVE  games[g].score <= EventSum(g)
  <1>1. PICK f, s : f = PointsOf(req) /\ s = AddingOf(req, g)
    OBVIOUS
  <1>2. /\ \A q \in Requests : f[q] \in Int
        /\ s \in SUBSET Requests /\ \A q \in s : f[q] >= 0
    <2>1. \A q \in Requests : f[q] = req[q].points /\ req[q].points \in Int
      BY <1>1 DEF PointsOf, GamesInv, RequestType
    <2>2. \A q \in s : q \in Requests /\ req[q].points > 0
      BY <1>1 DEF AddingOf, GamesInv, Busied
    <2>3. QED
      BY <2>1, <2>2
  <1>3. SumFunctionOnSet(f, s) >= 0
    BY <1>2, RequestsAssumption, SumFacts
  <1>4. ToAdd(req, g) >= 0
    BY <1>1, <1>3 DEF ToAdd
  <1>5. QED
    BY <1>4, AccountTyped DEF Accounted

LEMMA EventSumRises ==
  ASSUME GamesInv, [Next]_vars, NEW g
  PROVE  EventSum(g)' \in Int /\ EventSum(g) <= EventSum(g)'
  <1>1. CASE UNCHANGED events
    BY <1>1, SameEvents, EventSumInt
  <1>2. ASSUME NEW e \in EventType, NewEvent(e)
        PROVE  EventSum(g)' \in Int /\ EventSum(g) <= EventSum(g)'
    <2>1. Worth(e) \in Nat
      BY DEF Worth, EventType
    <2>2. EventSum(g)' = EventSum(g) + (IF e.game = g THEN Worth(e) ELSE 0)
      BY <1>2, EventSumGrows
    <2>3. QED
      BY <2>1, <2>2, EventSumInt
  <1>3. ASSUME NEW e, NewEvent(e) PROVE e \in EventType
    <2>1. events' \in Seq(EventType) /\ Len(events) + 1 \in DOMAIN events'
      BY <1>3 DEF NewEvent
    <2>2. events'[Len(events) + 1] \in EventType
      BY <2>1
    <2>3. QED
      BY <1>3, <2>2 DEF NewEvent
  <1>4. \/ UNCHANGED events
        \/ \E start \in Starts, room \in 0 .. rooms : StartGame(start, room)
        \/ \E r \in Requests : InsertEvent(r) \/ InsertGameOver(r)
    BY DEF Next, vars, CreateRoom, RequestStep, FlushStep, Query, AddGameEvent, FinishGame,
           AddPoints, SetFinished, FlushBegin, FlushBest, FlushPersist,
           ListGames, ListRest, HistoryBest, Answer, GetPlayerHistory, GetGameState,
           GetRoomState, GetState, StateEvents, Reads
  <1>5. UNCHANGED events \/ \E e : NewEvent(e)
    BY <1>4, StartFacts, InsertEventFacts, InsertGameOverFacts
  <1>6. QED
    BY <1>1, <1>2, <1>3, <1>5

\* What a state shows of a game is backed by the events there are, and by those
\* it has read.
ShownBacked ==
    /\ reader.pc \in {"events", "state"} => \A row \in reader.rows :
          games[row.id].room # NoRoom =>
              /\ row.score <= EventSum(row.id)
              /\ row.id \in DOMAIN reader.seen => row.score <= reader.seen[row.id]
    /\ reader.pc = "state" => DOMAIN reader.seen = {row.id : row \in reader.rows}

LEMMA ShownStep ==
  GamesInv /\ (\A g \in Ids : Accounted(g)) /\ ShownBacked /\ [Next]_vars => ShownBacked'
  <1> SUFFICES ASSUME GamesInv, \A g \in Ids : Accounted(g), ShownBacked, [Next]_vars
               PROVE  ShownBacked'
    OBVIOUS
  <1>0. \A row \in reader.rows : row.id \in Ids /\ row.score \in Nat
    BY DEF GamesInv, ReaderType, RowType
  <1>1. CASE UNCHANGED reader
    <2>1. ASSUME NEW row \in reader.rows, reader.pc \in {"events", "state"},
                 games'[row.id].room # NoRoom
          PROVE  /\ row.score <= EventSum(row.id)'
                 /\ row.id \in DOMAIN reader.seen => row.score <= reader.seen[row.id]
      <3>1. Grown(row.id)
        BY <1>0, RowsGrow
      <3>2. /\ row.score <= EventSum(row.id)
            /\ row.id \in DOMAIN reader.seen => row.score <= reader.seen[row.id]
        BY <2>1, <3>1 DEF ShownBacked, Grown
      <3>3. PICK g : g = row.id
        OBVIOUS
      <3>4. EventSum(g)' \in Int /\ EventSum(g) \in Int /\ EventSum(g) <= EventSum(g)'
        BY EventSumRises, EventSumInt
      <3>5. row.score <= EventSum(g)'
        BY <1>0, <3>2, <3>3, <3>4
      <3>6. EventSum(row.id)' = EventSum(g)' 
        BY <3>3
      <3>7. QED
        BY <3>2, <3>5, <3>6
    <2>2. QED
      BY <1>1, <2>1 DEF ShownBacked
  <1>2. ASSUME NEW s \in SUBSET Ids, GetState(s) PROVE ShownBacked'
    <2>1. /\ reader'.pc = "events" /\ reader'.rows = Rows(s) /\ reader'.seen = NewReader.seen
          /\ games' = games /\ events' = events
      BY <1>2, GetStateFacts DEF Reads
    <2>2. ASSUME NEW row \in Rows(s), games[row.id].room # NoRoom
          PROVE  row.score <= EventSum(row.id)
      <3>1. row.id \in Ids /\ row.score = games[row.id].score
        BY RowsTyped DEF Row
      <3>2. QED
        BY <2>2, <3>1, ScoreBacked
    <2>3. DOMAIN NewReader.seen = {}
      BY DEF NewReader
    <2>4. ASSUME NEW g PROVE EventSum(g)' = EventSum(g)
      BY <2>1, SameEvents
    <2>5. QED
      BY <2>1, <2>2, <2>3, <2>4 DEF ShownBacked
  <1>3. ASSUME NEW row \in reader.rows, StateEvents(row) PROVE ShownBacked'
    <2>1. PICK id : id = row.id
      OBVIOUS
    <2>2. /\ reader.pc = "events" /\ reader'.rows = reader.rows
          /\ DOMAIN reader'.seen = DOMAIN reader.seen \cup {id}
          /\ reader'.seen[id] = EventSum(id)
          /\ \A g \in DOMAIN reader.seen : reader'.seen[g] = reader.seen[g]
          /\ reader'.pc = "state" => DOMAIN reader'.seen = {r.id : r \in reader.rows}
          /\ games' = games /\ events' = events
      BY <1>3, <2>1, StateEventsFacts DEF Reads
    <2>3. ASSUME NEW shown \in reader.rows, games[shown.id].room # NoRoom
          PROVE  /\ shown.score <= EventSum(shown.id)
                 /\ shown.id \in DOMAIN reader'.seen => shown.score <= reader'.seen[shown.id]
      <3>1. /\ shown.score <= EventSum(shown.id)
            /\ shown.id \in DOMAIN reader.seen => shown.score <= reader.seen[shown.id]
        BY <2>2, <2>3 DEF ShownBacked
      <3>2. QED
        BY <2>2, <3>1
    <2>4. ASSUME NEW g PROVE EventSum(g)' = EventSum(g)
      BY <2>2, SameEvents
    <2>5. QED
      BY <2>2, <2>3, <2>4 DEF ShownBacked
  <1>4. reader'.pc \notin {"events", "state"} => ShownBacked'
    BY DEF ShownBacked
  <1>5. QED
    BY <1>1, <1>2, <1>3, <1>4, ReaderMoves, NewTypes, ListGamesFacts, ListRestFacts,
       HistoryFacts, HistoryBestFacts DEF Answer

\* No state shows a score that the events shown with it do not account for: an
\* event is stored before its points are added, and events are read after the
\* game.
THEOREM StatesAreBacked == Spec => []StateBacked
  <1>1. Init => GamesInv /\ (\A g \in Ids : Accounted(g)) /\ ShownBacked
    BY InitGames, NewTypes DEF Init, Ids, ShownBacked
  <1>2. GamesInv /\ ShownBacked => StateBacked
    BY DEF ShownBacked, StateBacked
  <1>3. QED
    BY <1>1, <1>2, GamesStep, ScoreStep, ShownStep, PTL DEF Spec

-----------------------------------------------------------------------------
(* The leaderboard *)

\* The image of a finite set is finite.
LEMMA ImageFinite ==
  ASSUME NEW S, IsFiniteSet(S), NEW f
  PROVE  IsFiniteSet({f[x] : x \in S})
  <1> DEFINE T == {f[x] : x \in S}
             h == [x \in S |-> f[x]]
  <1>1. h \in Surjection(S, T)
    BY DEF Surjection
  <1> HIDE DEF T, h
  <1>2. QED
    BY <1>1, FS_Surjection DEF T

\* What a set of entries must be for its rows to be ranked.
Rankable(E) ==
    /\ IsFiniteSet(E)
    /\ \A a \in E : a.score \in Int /\ a.player \in Nat
    /\ \A a, b \in E : a.player = b.player => a = b

AboveOf(E, e) == {other \in E : Above(other, e)}
RankOf(E, e) == Cardinality(AboveOf(E, e))

LEMMA AboveOrders ==
  ASSUME NEW E, Rankable(E)
  PROVE  /\ \A a, b \in E : a = b \/ Above(a, b) \/ Above(b, a)
         /\ \A a \in E : ~ Above(a, a)
         /\ \A a, b, c \in E : Above(a, b) /\ Above(b, c) => Above(a, c)
  BY DEF Rankable, Above

\* An entry has fewer entries above it than those below it have.
LEMMA RankFacts ==
  ASSUME NEW E, Rankable(E)
  PROVE  /\ Cardinality(E) \in Nat
         /\ \A e \in E : RankOf(E, e) \in 0 .. Cardinality(E) - 1
         /\ \A a, b \in E : Above(a, b) => RankOf(E, a) < RankOf(E, b)
  <1>1. IsFiniteSet(E) /\ Cardinality(E) \in Nat
    BY FS_CardinalityType DEF Rankable
  <1>2. ASSUME NEW e \in E
        PROVE  /\ IsFiniteSet(AboveOf(E, e)) /\ RankOf(E, e) \in Nat
               /\ RankOf(E, e) < Cardinality(E)
    <2>1. AboveOf(E, e) \in SUBSET E /\ e \notin AboveOf(E, e)
      BY AboveOrders DEF AboveOf
    <2>2. /\ IsFiniteSet(AboveOf(E, e)) /\ Cardinality(AboveOf(E, e)) <= Cardinality(E)
          /\ Cardinality(E) = Cardinality(AboveOf(E, e)) => E = AboveOf(E, e)
      BY <1>1, <2>1, FS_Subset
    <2>3. Cardinality(AboveOf(E, e)) \in Nat /\ Cardinality(AboveOf(E, e)) # Cardinality(E)
      BY <2>1, <2>2, FS_CardinalityType
    <2>4. QED
      BY <1>1, <2>2, <2>3 DEF RankOf
  <1>3. ASSUME NEW a \in E, NEW b \in E, Above(a, b) PROVE RankOf(E, a) < RankOf(E, b)
    <2>1. AboveOf(E, a) \in SUBSET AboveOf(E, b) /\ a \in AboveOf(E, b) /\ a \notin AboveOf(E, a)
      BY <1>3, AboveOrders DEF AboveOf
    <2>2. /\ Cardinality(AboveOf(E, a)) <= Cardinality(AboveOf(E, b))
          /\ Cardinality(AboveOf(E, b)) = Cardinality(AboveOf(E, a)) =>
                AboveOf(E, b) = AboveOf(E, a)
      BY <1>2, <2>1, FS_Subset
    <2>3. Cardinality(AboveOf(E, b)) # Cardinality(AboveOf(E, a))
      BY <2>1, <2>2
    <2>4. QED
      BY <1>2, <2>2, <2>3 DEF RankOf
  <1>4. QED
    BY <1>1, <1>2, <1>3

\* Every rank is some entry's: with one missing, two entries would share one.
LEMMA RanksFilled ==
  ASSUME NEW E, Rankable(E), NEW k \in 0 .. Cardinality(E) - 1
  PROVE  \E e \in E : RankOf(E, e) = k
  <1>1. SUFFICES ASSUME \A e \in E : RankOf(E, e) # k PROVE FALSE
    OBVIOUS
  <1> DEFINE ranks == 0 .. Cardinality(E) - 1
             T == ranks \ {k}
             f == [e \in E |-> RankOf(E, e)]
  <1>2. IsFiniteSet(E) /\ Cardinality(E) \in Nat
    BY RankFacts DEF Rankable
  <1>3. IsFiniteSet(ranks) /\ Cardinality(ranks) = Cardinality(E)
    BY <1>2, FS_Interval
  <1>4. IsFiniteSet(T) /\ Cardinality(T) = Cardinality(E) - 1
    <2> HIDE DEF ranks
    <2>1. k \in ranks
      BY DEF ranks
    <2>2. QED
      BY <1>3, <2>1, FS_RemoveElement
  <1>5. f \in [E -> T]
    BY <1>1, RankFacts
  <1> HIDE DEF T, f
  <1>6. PICK a, b \in E : a # b /\ f[a] = f[b]
    <2>1. Cardinality(T) < Cardinality(E)
      BY <1>2, <1>4
    <2>2. QED
      BY <1>2, <1>4, <1>5, <2>1, FS_PigeonHole
  <1>7. RankOf(E, a) = RankOf(E, b)
    BY <1>6 DEF f
  <1>8. RankOf(E, a) \in Int /\ RankOf(E, b) \in Int
    BY RankFacts
  <1>9. QED
    BY <1>6, <1>7, <1>8, AboveOrders, RankFacts

\* The first rows of a ranked set: row i has rank i - 1.
LEMMA TopFacts ==
  ASSUME NEW E, Rankable(E), NEW limit \in Nat
  PROVE  LET top == Top(E, limit) IN
         /\ Len(top) \in Nat /\ DOMAIN top = 1 .. Len(top)
         /\ Len(top) = limit \/ Len(top) = Cardinality(E)
         /\ Len(top) <= Cardinality(E)
         /\ \A i \in DOMAIN top : top[i] \in E /\ RankOf(E, top[i]) = i - 1
  <1> DEFINE n == Min({limit, Cardinality(E)})
             top == Top(E, limit)
  <1>1. Cardinality(E) \in Nat
    BY RankFacts
  <1>2. n \in {limit, Cardinality(E)} /\ n <= Cardinality(E) /\ n \in Nat
    <2>1. PICK m \in {limit, Cardinality(E)} : \A y \in {limit, Cardinality(E)} : m <= y
      BY <1>1
    <2>2. n \in {limit, Cardinality(E)} /\ \A y \in {limit, Cardinality(E)} : n <= y
      BY <2>1 DEF Min
    <2>3. QED
      BY <1>1, <2>2
  <1>3. top = [i \in 1 .. n |-> CHOOSE e \in E : RankOf(E, e) = i - 1]
    BY DEF Top, RankOf, AboveOf
  <1> HIDE DEF n, top
  <1>4. DOMAIN top = 1 .. n /\ Len(top) = n
    BY <1>2, <1>3
  <1>5. ASSUME NEW i \in 1 .. n PROVE top[i] \in E /\ RankOf(E, top[i]) = i - 1
    <2>1. i - 1 \in 0 .. Cardinality(E) - 1
      BY <1>1, <1>2
    <2>2. \E e \in E : RankOf(E, e) = i - 1
      BY <2>1, RanksFilled
    <2>3. top[i] = CHOOSE e \in E : RankOf(E, e) = i - 1
      BY <1>3
    <2>4. QED
      BY <2>2, <2>3
  <1>6. QED
    BY <1>2, <1>4, <1>5 DEF top

\* The entries of a leaderboard can be ranked, and each finished game has one
\* of its player that is no worse.
LEMMA EntryFacts ==
  ASSUME GamesInv, NEW modes
  PROVE  /\ Rankable(Entries(modes))
         /\ \A g \in GamesWith("finished") : games[g].mode \in modes =>
               \E e \in Entries(modes) : e.player = games[g].player /\ games[g].score <= e.score
  <1> DEFINE ranked == {g \in GamesWith("finished") : games[g].mode \in modes}
             Of(p) == {h \in ranked : games[h].player = p}
             best == [p \in Players |-> Max({games[g].score : g \in Of(p)})]
             players == {games[g].player : g \in ranked}
             entry == [p \in Players |-> [player |-> p, score |-> best[p]]]
  <1>1. ranked \in SUBSET Ids /\ \A g \in Ids : games[g].player \in Players /\ games[g].score \in Nat
    BY Numbered DEF GamesWith, GameType
  <1>2. ASSUME NEW p \in players
        PROVE  /\ p \in Players /\ best[p] \in Int
               /\ \A g \in Of(p) : games[g].score <= best[p]
    <2>1. p \in Players /\ Of(p) # {} /\ Of(p) \in SUBSET Ids
      BY <1>1
    <2>2. PICK g \in Of(p) : /\ Max({games[h].score : h \in Of(p)}) = games[g].score
                             /\ \A h \in Of(p) : games[h].score <= games[g].score
      <3>1. PICK s : s = Of(p)
        OBVIOUS
      <3>2. s \in SUBSET Ids /\ s # {}
        BY <2>1, <3>1
      <3>3. QED
        BY <3>1, <3>2, GreatestScore
    <2>3. best[p] = games[g].score
      BY <2>1, <2>2
    <2> HIDE DEF best
    <2>4. QED
      BY <1>1, <2>1, <2>2, <2>3
  <1>3. Entries(modes) = {entry[p] : p \in players}
    <2>1. \A p \in players : p \in Players
      BY <1>2
    <2>2. QED
      BY <2>1 DEF Entries
  <1>4. \A p \in players : entry[p].player = p /\ entry[p].score = best[p]
    BY <1>2
  <1>5. IsFiniteSet(Entries(modes))
    <2>1. IsFiniteSet(Ids)
      BY Numbered, FS_Interval
    <2>2. IsFiniteSet(ranked)
      BY <1>1, <2>1, FS_Subset
    <2>3. IsFiniteSet(players)
      <3>1. PICK f, s : f = [g \in Ids |-> games[g].player] /\ s = ranked
        OBVIOUS
      <3>2. players = {f[g] : g \in s}
        BY <1>1, <3>1
      <3>3. QED
        <4>1. IsFiniteSet({f[g] : g \in s})
          BY <2>2, <3>1, ImageFinite
        <4> HIDE DEF players
        <4>2. QED
          BY <3>2, <4>1
    <2> HIDE DEF players, entry
    <2>4. QED
      BY <1>3, <2>3, ImageFinite
  <1> HIDE DEF best, entry
  <1>6. Rankable(Entries(modes))
    <2>1. \A a \in Entries(modes) : \E p \in players : a = entry[p] /\ a.player = p /\ a.score = best[p]
      BY <1>3, <1>4
    <2>2. \A a \in Entries(modes) : a.score \in Int /\ a.player \in Nat
      BY <1>2, <2>1, PlayersAssumption
    <2>3. \A a, b \in Entries(modes) : a.player = b.player => a = b
      BY <2>1
    <2>4. QED
      BY <1>5, <2>2, <2>3 DEF Rankable
  <1>7. ASSUME NEW g \in GamesWith("finished"), games[g].mode \in modes
        PROVE  \E e \in Entries(modes) : e.player = games[g].player /\ games[g].score <= e.score
    <2>1. PICK p : p = games[g].player
      OBVIOUS
    <2>2. p \in players /\ g \in Of(p)
      BY <1>7, <2>1
    <2>3. entry[p] \in Entries(modes)
      BY <1>3, <2>2
    <2>4. entry[p].player = p /\ games[g].score <= entry[p].score
      BY <1>2, <1>4, <2>2
    <2>5. QED
      BY <2>1, <2>3, <2>4
  <1>8. QED
    BY <1>6, <1>7

\* The first rows have one entry per player, and an entry they leave out is no
\* better than any of them, which are then as many as were asked for.
LEMMA TopIsBest ==
  ASSUME NEW E, Rankable(E), NEW limit \in Nat
  PROVE  LET top == Top(E, limit) IN
         /\ \A i \in DOMAIN top : top[i] \in E
         /\ \A i, j \in DOMAIN top : top[i].player = top[j].player => i = j
         /\ \A e \in E : \/ \E i \in DOMAIN top : top[i] = e
                         \/ Len(top) = limit /\ \A i \in DOMAIN top : top[i].score >= e.score
  <1>1. PICK top, rank, n, c : /\ top = Top(E, limit) /\ n = Len(top)
                               /\ c = Cardinality(E) /\ rank = [e \in E |-> RankOf(E, e)]
    OBVIOUS
  <1>2. n \in Nat /\ n <= c /\ DOMAIN top = 1 .. n
    BY <1>1, TopFacts
  <1>3. n = limit \/ n = c
    BY <1>1, TopFacts
  <1>4. \A i \in 1 .. n : top[i] \in E /\ rank[top[i]] = i - 1
    BY <1>1, <1>2, TopFacts
  <1>5. c \in Nat /\ \A e \in E : rank[e] \in 0 .. c - 1
    BY <1>1, RankFacts
  <1>6. \A a, b \in E : a = b \/ rank[a] < rank[b] \/ rank[b] < rank[a]
    BY <1>1, AboveOrders, RankFacts
  <1>7. \A a, b \in E : rank[a] < rank[b] => a.score >= b.score
    <2>1. ASSUME NEW a \in E, NEW b \in E, rank[a] < rank[b] PROVE Above(a, b)
      <3>1. a # b
        BY <1>5, <2>1
      <3>2. ~ Above(b, a)
        <4>1. Above(b, a) => rank[b] < rank[a]
          BY <1>1, RankFacts
        <4>2. rank[a] \in Int /\ rank[b] \in Int
          BY <1>5
        <4>3. QED
          BY <2>1, <4>1, <4>2
      <3>3. QED
        BY <3>1, <3>2, AboveOrders
    <2>2. QED
      BY <2>1 DEF Above, Rankable
  <1>8. ASSUME NEW i \in 1 .. n, NEW j \in 1 .. n, top[i].player = top[j].player
        PROVE  i = j
    <2>1. top[i] = top[j]
      BY <1>4, <1>8 DEF Rankable
    <2>2. i - 1 = j - 1
      BY <1>4, <2>1
    <2>3. QED
      BY <2>2
  <1>9. ASSUME NEW e \in E, rank[e] < n PROVE \E i \in 1 .. n : top[i] = e
    <2>1. PICK i : i = rank[e] + 1
      OBVIOUS
    <2>2. rank[e] \in Nat
      BY <1>5
    <2>3. i \in 1 .. n
      BY <1>2, <1>9, <2>1, <2>2
    <2>4. top[i] \in E /\ rank[top[i]] = rank[e]
      BY <1>4, <2>1, <2>2, <2>3
    <2>5. top[i] = e
      BY <1>6, <2>2, <2>4
    <2>6. QED
      BY <2>3, <2>5
  <1>10. ASSUME NEW e \in E, ~ (rank[e] < n)
         PROVE  n = limit /\ \A i \in 1 .. n : top[i].score >= e.score
    <2>1. rank[e] \in 0 .. c - 1
      BY <1>5
    <2>2. n = limit
      BY <1>2, <1>3, <1>5, <1>10, <2>1
    <2>3. ASSUME NEW i \in 1 .. n PROVE top[i].score >= e.score
      <3>1. top[i] \in E /\ rank[top[i]] = i - 1
        BY <1>4
      <3>2. rank[top[i]] < rank[e]
        BY <1>2, <1>10, <2>1, <3>1
      <3>3. QED
        BY <1>7, <3>1, <3>2
    <2>4. QED
      BY <2>2, <2>3
  <1>11. QED
    BY <1>1, <1>2, <1>4, <1>8, <1>9, <1>10

\* The leaderboard has one entry per player, and a finished game it leaves out
\* is no better than any of its entries, which are then as many as were asked for.
THEOREM LeaderboardHoldsTop == Spec => []LeaderboardIsTop
  <1>1. ASSUME GamesInv, NEW modes, NEW limit \in 1 .. MaxGames
        PROVE  LET top == Leaderboard(modes, limit) IN
               /\ \A i, j \in DOMAIN top : top[i].player = top[j].player => i = j
               /\ \A g \in GamesWith("finished") : games[g].mode \in modes =>
                     \/ \E i \in DOMAIN top : /\ top[i].player = games[g].player
                                              /\ top[i].score >= games[g].score
                     \/ Len(top) = limit /\ \A i \in DOMAIN top : top[i].score >= games[g].score
    <2>1. PICK E, top : E = Entries(modes) /\ top = Leaderboard(modes, limit)
      OBVIOUS
    <2>2. Rankable(E) /\ limit \in Nat
      BY <1>1, <2>1, EntryFacts, GamesBounds
    <2>3. /\ \A i \in DOMAIN top : top[i] \in E
          /\ \A i, j \in DOMAIN top : top[i].player = top[j].player => i = j
          /\ \A e \in E : \/ \E i \in DOMAIN top : top[i] = e
                          \/ Len(top) = limit /\ \A i \in DOMAIN top : top[i].score >= e.score
      <3>1. top = Top(E, limit)
        BY <2>1 DEF Leaderboard
      <3>2. QED
        BY <2>2, <3>1, TopIsBest
    <2>4. ASSUME NEW g \in GamesWith("finished"), games[g].mode \in modes
          PROVE  \/ \E i \in DOMAIN top : /\ top[i].player = games[g].player
                                          /\ top[i].score >= games[g].score
                 \/ Len(top) = limit /\ \A i \in DOMAIN top : top[i].score >= games[g].score
      <3>1. PICK e \in E : e.player = games[g].player /\ games[g].score <= e.score
        BY <1>1, <2>1, <2>4, EntryFacts
      <3>2. games[g].score \in Nat /\ e.score \in Int /\ \A a \in E : a.score \in Int
        BY <1>1, <2>2, Numbered DEF GamesWith, GameType, Rankable
      <3>3. CASE \E i \in DOMAIN top : top[i] = e
        <4>1. e.score >= games[g].score
          BY <3>1, <3>2
        <4>2. QED
          BY <3>1, <3>3, <4>1
      <3>4. CASE Len(top) = limit /\ \A i \in DOMAIN top : top[i].score >= e.score
        <4>1. ASSUME NEW i \in DOMAIN top PROVE top[i].score >= games[g].score
          <5>1. top[i].score \in Int /\ top[i].score >= e.score
            BY <2>3, <3>2, <3>4
          <5>2. QED
            BY <3>1, <3>2, <5>1
        <4>2. QED
          BY <3>4, <4>1
      <3>5. QED
        BY <2>3, <3>3, <3>4
    <2>5. QED
      BY <2>1, <2>3, <2>4
  <1>2. GamesInv => LeaderboardIsTop
    BY <1>1 DEF LeaderboardIsTop
  <1>3. Init => GamesInv
    BY InitGames
  <1>4. QED
    BY <1>2, <1>3, GamesStep, PTL DEF Spec
=============================================================================
