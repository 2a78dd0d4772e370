------------------------- MODULE PlayerUpsertProofs -------------------------
(***************************************************************************)
(* Machine-checked proofs about PlayerUpsert, for any set of calls, any    *)
(* pseudos and any way of normalising them.                                *)
(*                                                                         *)
(* UpsertInv says what a call may rely on at each step: an id it holds is  *)
(* the committed one, or a fresh one that no other call and no row has; a  *)
(* duplicate has been met because the row is there, and rows stay.         *)
(***************************************************************************)
EXTENDS PlayerUpsert, TLAPS

\* Rows and calls hold ids that the sequence has given.
IdsDrawn ==
    /\ \A p \in Pseudos : players[p] < nextId
    /\ \A c \in Calls : call[c].id < nextId

\* A call that has selected or committed a row holds the id of that row.
HoldsRow ==
    \A c \in Calls : call[c].pc \in {"found", "done"} =>
        call[c].id # 0 /\ call[c].id = players[Key(c)]

\* An uncommitted row: nobody has its pseudo or its id.
PendingRows ==
    \A c \in Calls : call[c].pc = "inserted" =>
        /\ call[c].id # 0
        /\ players[Key(c)] = 0
        /\ \A p \in Pseudos : players[p] # call[c].id
        /\ \A d \in Calls : d # c /\ call[d].pc = "inserted" => Key(d) # Key(c)
                                                               /\ call[d].id # call[c].id

\* Which of the three places can be where, and what it has seen there.
Places ==
    \A c \in Calls :
        /\ call[c].pc \in {"found", "inserted", "failed"} => c \in Transactional
        /\ call[c].pc = "duplicate" => players[Key(c)] # 0

UpsertInv == TypeOK /\ IdsDrawn /\ HoldsRow /\ PendingRows /\ Places

-----------------------------------------------------------------------------
(* UpsertInv is inductive *)

LEMMA KeyIsPseudo == ASSUME NEW c \in Calls PROVE Key(c) \in Pseudos
  BY WantsAssumption, NormalAssumption DEF Key

LEMMA InitInv == Init => UpsertInv
  BY DEF Init, UpsertInv, TypeOK, CallType, IdsDrawn, HoldsRow, PendingRows, Places

\* A step of c that only moves c and leaves the rows alone.
LEMMA SetFacts ==
  ASSUME TypeOK, NEW c \in Calls, NEW pc, NEW id \in Nat,
         pc \in {"new", "absent", "found", "inserted", "duplicate", "done", "failed"},
         Set(c, pc, id)
  PROVE  /\ call' \in [Calls -> CallType]
         /\ call'[c].pc = pc /\ call'[c].id = id
         /\ \A d \in Calls : d # c => call'[d] = call[d]
  BY DEF TypeOK, Set, CallType

LEMMA SelectInv == ASSUME UpsertInv, NEW c \in Calls, Select(c) PROVE UpsertInv'
  <1> DEFINE row == players[Key(c)]
  <1>1. row \in Nat /\ row < nextId
    BY KeyIsPseudo DEF UpsertInv, TypeOK, IdsDrawn
  <1>2. CASE row = 0
    <2>1. Set(c, "absent", 0)
      BY <1>2 DEF Select
    <2>2. QED
      BY <2>1, SetFacts DEF UpsertInv, TypeOK, IdsDrawn, HoldsRow, PendingRows, Places, Select
  <1>3. CASE row # 0 /\ c \in Transactional
    <2>1. Set(c, "found", row)
      BY <1>3 DEF Select
    <2>2. QED
      BY <1>1, <1>3, <2>1, SetFacts
         DEF UpsertInv, TypeOK, IdsDrawn, HoldsRow, PendingRows, Places, Select
  <1>4. CASE row # 0 /\ c \notin Transactional
    <2>1. Set(c, "done", row)
      BY <1>4 DEF Select
    <2>2. QED
      BY <1>1, <1>4, <2>1, SetFacts
         DEF UpsertInv, TypeOK, IdsDrawn, HoldsRow, PendingRows, Places, Select
  <1>5. QED
    BY <1>2, <1>3, <1>4

\* A committed row of a pseudo that had none, nobody holding one uncommitted.
LEMMA NewRowFacts ==
  ASSUME UpsertInv, NEW p \in Pseudos, NEW id \in Nat \ {0},
         players' = [players EXCEPT ![p] = id]
  PROVE  /\ players' \in [Pseudos -> Nat]
         /\ players'[p] = id
         /\ \A q \in Pseudos : q # p => players'[q] = players[q]
  BY DEF UpsertInv, TypeOK

LEMMA InsertInv == ASSUME UpsertInv, NEW c \in Calls, Insert(c) PROVE UpsertInv'
  <1>1. /\ call[c].pc = "absent" /\ Unlocked(c) /\ players[Key(c)] = 0
        /\ nextId' = nextId + 1 /\ nextId \in Nat \ {0} /\ nextId' \in Nat \ {0}
        /\ Key(c) \in Pseudos
    BY KeyIsPseudo DEF Insert, UpsertInv, TypeOK
  <1>2. CASE c \in Transactional
    <2>1. Set(c, "inserted", nextId) /\ UNCHANGED players
      BY <1>2 DEF Insert
    <2>2. /\ call' \in [Calls -> CallType]
          /\ call'[c].pc = "inserted" /\ call'[c].id = nextId
          /\ \A d \in Calls : d # c => call'[d] = call[d]
      BY <1>1, <2>1, SetFacts DEF UpsertInv
    <2>3. TypeOK' /\ IdsDrawn'
      BY <1>1, <2>1, <2>2 DEF UpsertInv, TypeOK, IdsDrawn, CallType
    <2>4. HoldsRow' /\ Places'
      BY <1>2, <2>1, <2>2 DEF UpsertInv, HoldsRow, Places
    <2>5. \A p \in Pseudos : players[p] # nextId
      BY <1>1 DEF UpsertInv, TypeOK, IdsDrawn
    <2>6. \A d \in Calls : call[d].id # nextId
      BY <1>1 DEF UpsertInv, TypeOK, IdsDrawn, CallType
    <2>7. \A d \in Calls : call[d].pc = "inserted" => Key(d) # Key(c)
      BY <1>1 DEF Unlocked
    <2>8. PendingRows'
      BY <1>1, <2>1, <2>2, <2>5, <2>6, <2>7 DEF UpsertInv, PendingRows
    <2>9. QED
      BY <2>3, <2>4, <2>8 DEF UpsertInv
  <1>3. CASE c \notin Transactional
    <2>1. Set(c, "done", nextId) /\ players' = [players EXCEPT ![Key(c)] = nextId]
      BY <1>3 DEF Insert
    <2>2. /\ call' \in [Calls -> CallType]
          /\ call'[c].pc = "done" /\ call'[c].id = nextId
          /\ \A d \in Calls : d # c => call'[d] = call[d]
      BY <1>1, <2>1, SetFacts DEF UpsertInv
    <2>3. /\ players' \in [Pseudos -> Nat] /\ players'[Key(c)] = nextId
          /\ \A q \in Pseudos : q # Key(c) => players'[q] = players[q]
      BY <1>1, <2>1, NewRowFacts
    <2>4. TypeOK' /\ IdsDrawn'
      BY <1>1, <2>2, <2>3 DEF UpsertInv, TypeOK, IdsDrawn, CallType
    <2>5. HoldsRow'
      BY <1>1, <2>2, <2>3, KeyIsPseudo DEF UpsertInv, HoldsRow
    <2>6. Places'
      BY <1>1, <2>2, <2>3, KeyIsPseudo DEF UpsertInv, Places
    <2>7. \A d \in Calls : call[d].id # nextId
      BY <1>1 DEF UpsertInv, TypeOK, IdsDrawn, CallType
    <2>8. \A d \in Calls : call[d].pc = "inserted" => Key(d) # Key(c)
      BY <1>1 DEF Unlocked
    <2>9. PendingRows'
      BY <1>1, <2>2, <2>3, <2>7, <2>8, KeyIsPseudo DEF UpsertInv, PendingRows
    <2>10. QED
      BY <2>4, <2>5, <2>6, <2>9 DEF UpsertInv
  <1>4. QED
    BY <1>2, <1>3

LEMMA InsertDuplicateInv ==
  ASSUME UpsertInv, NEW c \in Calls, InsertDuplicate(c)
  PROVE  UpsertInv'
  <1>1. /\ nextId' = nextId + 1 /\ nextId \in Nat \ {0} /\ nextId' \in Nat \ {0}
        /\ UNCHANGED players /\ players[Key(c)] # 0
    BY DEF InsertDuplicate, UpsertInv, TypeOK
  <1>2. CASE c \in Transactional
    <2>1. Set(c, "failed", 0)
      BY <1>2 DEF InsertDuplicate
    <2>2. QED
      BY <1>1, <1>2, <2>1, SetFacts
         DEF UpsertInv, TypeOK, IdsDrawn, HoldsRow, PendingRows, Places, CallType
  <1>3. CASE c \notin Transactional
    <2>1. Set(c, "duplicate", 0)
      BY <1>3 DEF InsertDuplicate
    <2>2. QED
      BY <1>1, <1>3, <2>1, SetFacts
         DEF UpsertInv, TypeOK, IdsDrawn, HoldsRow, PendingRows, Places, CallType
  <1>4. QED
    BY <1>2, <1>3

\* The row a call has lost the race to is still there: the re-fetch finds it.
LEMMA RefetchFacts ==
  ASSUME UpsertInv, NEW c \in Calls, Refetch(c)
  PROVE  Set(c, "done", players[Key(c)]) /\ players[Key(c)] \in Nat \ {0}
  BY KeyIsPseudo DEF Refetch, UpsertInv, Places, TypeOK

LEMMA RefetchInv == ASSUME UpsertInv, NEW c \in Calls, Refetch(c) PROVE UpsertInv'
  BY RefetchFacts, SetFacts, KeyIsPseudo
     DEF UpsertInv, TypeOK, IdsDrawn, HoldsRow, PendingRows, Places, Refetch

LEMMA CommitInv == ASSUME UpsertInv, NEW c \in Calls, Commit(c) PROVE UpsertInv'
  <1>1. call[c].id \in Nat /\ call[c].id < nextId /\ Set(c, "done", call[c].id)
    BY DEF Commit, UpsertInv, TypeOK, CallType, IdsDrawn
  <1>2. /\ call' \in [Calls -> CallType]
        /\ call'[c].pc = "done" /\ call'[c].id = call[c].id
        /\ \A d \in Calls : d # c => call'[d] = call[d]
    BY <1>1, SetFacts DEF UpsertInv
  <1>3. CASE call[c].pc = "found"
    BY <1>2, <1>3 DEF UpsertInv, TypeOK, IdsDrawn, HoldsRow, PendingRows, Places, Commit
  <1>4. CASE call[c].pc = "inserted"
    <2>1. /\ call[c].id # 0 /\ players[Key(c)] = 0
          /\ \A d \in Calls : d # c /\ call[d].pc = "inserted" => Key(d) # Key(c)
                                                                 /\ call[d].id # call[c].id
      BY <1>4 DEF UpsertInv, PendingRows
    <2>2. /\ players' \in [Pseudos -> Nat] /\ players'[Key(c)] = call[c].id
          /\ \A q \in Pseudos : q # Key(c) => players'[q] = players[q]
      BY <1>1, <1>4, <2>1, KeyIsPseudo, NewRowFacts DEF Commit
    <2>3. TypeOK' /\ IdsDrawn'
      BY <1>1, <1>2, <2>2 DEF UpsertInv, TypeOK, IdsDrawn, Commit
    <2>4. HoldsRow'
      BY <1>2, <2>1, <2>2, KeyIsPseudo DEF UpsertInv, HoldsRow
    <2>5. Places'
      BY <1>2, <2>1, <2>2, KeyIsPseudo DEF UpsertInv, Places
    <2>6. PendingRows'
      BY <1>2, <2>1, <2>2, KeyIsPseudo DEF UpsertInv, PendingRows
    <2>7. QED
      BY <2>3, <2>4, <2>5, <2>6 DEF UpsertInv
  <1>5. QED
    BY <1>3, <1>4 DEF Commit

LEMMA RollbackInv == ASSUME UpsertInv, NEW c \in Calls, Rollback(c) PROVE UpsertInv'
  <1>1. c \in Transactional
    BY DEF Rollback, UpsertInv, Places
  <1>2. QED
    BY <1>1, SetFacts
       DEF UpsertInv, TypeOK, IdsDrawn, HoldsRow, PendingRows, Places, Rollback

LEMMA NextInv == ASSUME UpsertInv, [Next]_vars PROVE UpsertInv'
  <1>1. CASE UNCHANGED vars
    BY <1>1 DEF vars, UpsertInv, TypeOK, IdsDrawn, HoldsRow, PendingRows, Places
  <1>2. QED
    BY <1>1, SelectInv, InsertInv, InsertDuplicateInv, RefetchInv, CommitInv, RollbackInv
       DEF Next, CallRuns

LEMMA InvAlways == Spec => []UpsertInv
  BY InitInv, NextInv, PTL DEF Spec

\* Every reachable state has the types of TypeOK; no id is 0, the value that
\* means no player (the SERIAL sequence of the players table).
THEOREM UpsertTypes == Spec => []TypeOK
  <1>1. UpsertInv => TypeOK
    BY DEF UpsertInv
  <1>2. QED
    BY <1>1, InvAlways, PTL

\* Whichever of the three places found or created the player, every call that
\* returned has returned the id of the one committed row of its pseudo, and
\* calls that normalise to one pseudo have returned one id
\* (CreateOrGetPlayerUseCase, persist_finished_session, StartGameUseCase).
THEOREM OnePlayerPerPseudo == Spec => []SamePlayer
  <1>1. UpsertInv => SamePlayer
    BY DEF UpsertInv, HoldsRow, SamePlayer, Key
  <1>2. QED
    BY <1>1, InvAlways, PTL

-----------------------------------------------------------------------------
(* The three code paths implement one atomic upsert *)

\* The refinement mapping: what a call has answered so far.
Answer(c) == CASE call[c].pc = "done"   -> call[c].id
               [] call[c].pc = "failed" -> -1
               [] OTHER                 -> 0

AnswerMap == [c \in Calls |-> Answer(c)]
KeyMap == [c \in Calls |-> Key(c)]

\* A move of c that gives no answer is a stutter of the abstract upsert.
LEMMA NoAnswer ==
  ASSUME TypeOK, NEW c \in Calls, call[c].pc \notin {"done", "failed"},
         NEW pc, pc \in {"new", "absent", "found", "inserted", "duplicate"},
         NEW id \in Nat, Set(c, pc, id)
  PROVE  AnswerMap' = AnswerMap
  <1>1. Answer(c)' = Answer(c)
    BY SetFacts DEF Answer
  <1>2. \A d \in Calls : d # c => Answer(d)' = Answer(d)
    BY SetFacts DEF Answer
  <1>3. QED
    BY <1>1, <1>2 DEF AnswerMap

\* A move of c that gives its answer.
LEMMA GivesAnswer ==
  ASSUME TypeOK, NEW c \in Calls, call[c].pc \notin {"done", "failed"},
         NEW pc \in {"done", "failed"}, NEW id \in Nat, Set(c, pc, id)
  PROVE  /\ AnswerMap[c] = 0
         /\ AnswerMap' = [AnswerMap EXCEPT ![c] = IF pc = "done" THEN id ELSE -1]
  <1>1. Answer(c) = 0 /\ Answer(c)' = IF pc = "done" THEN id ELSE -1
    BY SetFacts DEF Answer
  <1>2. \A d \in Calls : d # c => Answer(d)' = Answer(d)
    BY SetFacts DEF Answer
  <1>3. QED
    BY <1>1, <1>2 DEF AnswerMap

LEMMA AbstractInit == Init => Abstract!Init
  BY DEF Init, Abstract!Init

LEMMA ExistingStep ==
  ASSUME UpsertInv, NEW c \in Calls, call[c].pc \notin {"done", "failed"},
         players[Key(c)] \in Nat \ {0}, Set(c, "done", players[Key(c)]), UNCHANGED players
  PROVE  Abstract!Existing(c)
  BY GivesAnswer DEF UpsertInv, Abstract!Existing, AnswerMap, Answer

LEMMA CreatedStep ==
  ASSUME UpsertInv, NEW c \in Calls, call[c].pc \notin {"done", "failed"},
         NEW id \in Nat \ {0}, players[Key(c)] = 0, \A p \in Pseudos : players[p] # id,
         players' = [players EXCEPT ![Key(c)] = id], Set(c, "done", id)
  PROVE  Abstract!Created(c)
  <1>1. players'[Key(c)] = id
    BY KeyIsPseudo, NewRowFacts
  <1>2. AnswerMap[c] = 0 /\ AnswerMap' = [AnswerMap EXCEPT ![c] = id]
    BY GivesAnswer DEF UpsertInv
  <1>3. KeyMap[c] = Key(c)
    BY DEF KeyMap
  <1>4. QED
    BY <1>1, <1>2, <1>3, Zenon DEF Abstract!Created, AnswerMap, Answer, KeyMap

LEMMA FailedStep ==
  ASSUME UpsertInv, NEW c \in Transactional, call[c].pc \notin {"done", "failed"},
         Set(c, "failed", 0), UNCHANGED players
  PROVE  Abstract!Failed(c)
  <1>1. c \in Calls
    BY DEF Transactional
  <1>2. QED
    BY <1>1, GivesAnswer DEF UpsertInv, Abstract!Failed, AnswerMap, Answer

LEMMA StutterStep ==
  ASSUME UpsertInv, NEW c \in Calls, call[c].pc \notin {"done", "failed"},
         NEW pc, pc \in {"new", "absent", "found", "inserted", "duplicate"},
         NEW id \in Nat, Set(c, pc, id), UNCHANGED players
  PROVE  UNCHANGED Abstract!vars
  BY NoAnswer DEF UpsertInv, Abstract!vars, AnswerMap, Answer

LEMMA AbstractStep == ASSUME UpsertInv, [Next]_vars PROVE [Abstract!Next]_(Abstract!vars)
  <1> USE DEF Abstract!Next
  <1>1. ASSUME NEW c \in Calls, Select(c) PROVE [Abstract!Next]_(Abstract!vars)
    <2>1. players[Key(c)] \in Nat /\ call[c].pc = "new" /\ UNCHANGED players
      BY <1>1, KeyIsPseudo DEF UpsertInv, TypeOK, Select
    <2>2. CASE players[Key(c)] = 0
      BY <1>1, <2>1, <2>2, StutterStep DEF Select
    <2>3. CASE players[Key(c)] # 0 /\ c \in Transactional
      BY <1>1, <2>1, <2>3, StutterStep DEF Select
    <2>4. CASE players[Key(c)] # 0 /\ c \notin Transactional
      BY <1>1, <2>1, <2>4, ExistingStep DEF Select
    <2>5. QED
      BY <2>2, <2>3, <2>4
  <1>2. ASSUME NEW c \in Calls, Insert(c) PROVE [Abstract!Next]_(Abstract!vars)
    <2>1. nextId \in Nat \ {0} /\ \A p \in Pseudos : players[p] # nextId
      BY DEF UpsertInv, TypeOK, IdsDrawn
    <2>2. CASE c \in Transactional
      BY <1>2, <2>1, <2>2, StutterStep DEF Insert
    <2>3. CASE c \notin Transactional
      BY <1>2, <2>1, <2>3, CreatedStep DEF Insert
    <2>4. QED
      BY <2>2, <2>3
  <1>3. ASSUME NEW c \in Calls, InsertDuplicate(c) PROVE [Abstract!Next]_(Abstract!vars)
    <2>1. CASE c \in Transactional
      BY <1>3, <2>1, FailedStep DEF InsertDuplicate
    <2>2. CASE c \notin Transactional
      BY <1>3, <2>2, StutterStep DEF InsertDuplicate
    <2>3. QED
      BY <2>1, <2>2
  <1>4. ASSUME NEW c \in Calls, Refetch(c) PROVE [Abstract!Next]_(Abstract!vars)
    BY <1>4, RefetchFacts, ExistingStep DEF Refetch
  <1>5. ASSUME NEW c \in Calls, Commit(c) PROVE [Abstract!Next]_(Abstract!vars)
    <2>1. CASE call[c].pc = "found"
      <3>1. call[c].id = players[Key(c)] /\ players[Key(c)] \in Nat \ {0}
        BY <2>1, KeyIsPseudo DEF UpsertInv, TypeOK, HoldsRow
      <3>2. QED
        BY <1>5, <2>1, <3>1, ExistingStep DEF Commit
    <2>2. CASE call[c].pc = "inserted"
      <3>1. /\ call[c].id \in Nat \ {0} /\ players[Key(c)] = 0
            /\ \A p \in Pseudos : players[p] # call[c].id
        BY <2>2 DEF UpsertInv, TypeOK, CallType, PendingRows
      <3>2. QED
        BY <1>5, <2>2, <3>1, CreatedStep DEF Commit
    <2>3. QED
      BY <1>5, <2>1, <2>2 DEF Commit
  <1>6. ASSUME NEW c \in Calls, Rollback(c) PROVE [Abstract!Next]_(Abstract!vars)
    <2>1. c \in Transactional
      BY <1>6 DEF Rollback, UpsertInv, Places
    <2>2. QED
      BY <1>6, <2>1, FailedStep DEF Rollback, Transactional
  <1>7. CASE UNCHANGED vars
    BY <1>7 DEF vars, Abstract!vars
  <1>8. QED
    BY <1>1, <1>2, <1>3, <1>4, <1>5, <1>6, <1>7 DEF Next, CallRuns

\* However their SELECTs, INSERTs, re-fetches, commits and rollbacks overlap,
\* the three code paths implement an upsert that takes effect at one instant
\* and creates at most one player per pseudo (AtomicUpsert).
THEOREM UpsertIsAtomic == Spec => IsAtomic
  <1>1. UpsertInv /\ [Next]_vars => [Abstract!Next]_(Abstract!vars)
    BY AbstractStep
  <1>2. QED
    BY <1>1, AbstractInit, InvAlways, PTL DEF Spec, IsAtomic, Abstract!Spec
=============================================================================
