---------------------------- MODULE PlayerUpsert ----------------------------
(***************************************************************************)
(* The three places that find or create the player of a pseudo, against    *)
(* the UNIQUE constraint of the players table:                             *)
(*   create_or_get  CreateOrGetPlayerUseCase, autocommit, with a re-fetch  *)
(*                  when its INSERT loses the race;                        *)
(*   flush          persist_finished_session, inside its transaction;      *)
(*   start          StartGameUseCase, inside its unit of work.             *)
(* A SELECT sees committed rows only.  An INSERT of a pseudo that another  *)
(* transaction has inserted and not committed waits for that transaction.  *)
(***************************************************************************)
EXTENDS Integers

CONSTANTS
    Calls,      \* the calls, each made once
    Pseudos,    \* the pseudos, in every spelling
    Normal,     \* Normal[p]: what normalize_and_validate answers for p
    Wants,      \* Wants[c]: the pseudo of call c, as it was sent
    Kind,       \* Kind[c]: which of the three places
    MayAbort    \* whether a transaction can fail for a reason of its own

Kinds == {"create_or_get", "flush", "start"}

ASSUME WantsAssumption == Wants \in [Calls -> Pseudos]
ASSUME NormalAssumption == Normal \in [Pseudos -> Pseudos]
ASSUME KindAssumption == Kind \in [Calls -> Kinds]
ASSUME MayAbortAssumption == MayAbort \in BOOLEAN

VARIABLES
    players,  \* the committed rows: players[p] is the id of pseudo p, 0 if none
    nextId,   \* the SERIAL sequence, never rolled back
    call      \* call[c]: how far it is and the id it holds

vars == <<players, nextId, call>>

\* absent: its SELECT found no row.  found: its SELECT found the row, the rest
\* of its transaction runs.  inserted: its row is inserted, not committed.
\* duplicate: its INSERT hit the UNIQUE constraint.
CallType == [pc: {"new", "absent", "found", "inserted", "duplicate", "done", "failed"},
             id: Nat]

\* The pseudo in the SELECT and the INSERT.  POST /players and the sessions
\* normalise it first; StartGameUseCase takes it as it was sent.
Key(c) == IF Kind[c] = "start" THEN Wants[c] ELSE Normal[Wants[c]]

Transactional == {c \in Calls : Kind[c] # "create_or_get"}

\* Mutant: the sequence starts at 0, the value that means no player.
InitAtZero ==
    /\ players = [p \in Pseudos |-> 0]
    /\ nextId = 0
    /\ call = [c \in Calls |-> [pc |-> "new", id |-> 0]]

Init ==
    /\ players = [p \in Pseudos |-> 0]
    /\ nextId = 1
    /\ call = [c \in Calls |-> [pc |-> "new", id |-> 0]]

Set(c, pc, id) == call' = [call EXCEPT ![c] = [pc |-> pc, id |-> id]]

\* SELECT ... WHERE pseudo = $1
Select(c) ==
    /\ call[c].pc = "new"
    /\ IF players[Key(c)] = 0
       THEN Set(c, "absent", 0)
       ELSE Set(c, IF c \in Transactional THEN "found" ELSE "done", players[Key(c)])
    /\ UNCHANGED <<players, nextId>>

\* No other transaction holds an uncommitted row of the pseudo.
Unlocked(c) ==
    \A d \in Calls : ~(call[d].pc = "inserted" /\ Key(d) = Key(c))

\* Mutant: a table without the UNIQUE constraint.
InsertAnyway(c) ==
    /\ call[c].pc = "absent"
    /\ nextId' = nextId + 1
    /\ IF c \in Transactional
       THEN Set(c, "inserted", nextId) /\ UNCHANGED players
       ELSE Set(c, "done", nextId) /\ players' = [players EXCEPT ![Key(c)] = nextId]

\* INSERT INTO players ... RETURNING id, when no committed row has the pseudo:
\* committed at once outside a transaction, pending inside one.
Insert(c) ==
    /\ call[c].pc = "absent"
    /\ Unlocked(c)
    /\ players[Key(c)] = 0
    /\ nextId' = nextId + 1
    /\ IF c \in Transactional
       THEN Set(c, "inserted", nextId) /\ UNCHANGED players
       ELSE Set(c, "done", nextId) /\ players' = [players EXCEPT ![Key(c)] = nextId]

\* The same INSERT when the row exists by now: UniqueViolationError, and the
\* transaction it is in is rolled back.  The id it drew is lost.
InsertDuplicate(c) ==
    /\ call[c].pc = "absent"
    /\ Unlocked(c)
    /\ players[Key(c)] # 0
    /\ nextId' = nextId + 1
    /\ Set(c, IF c \in Transactional THEN "failed" ELSE "duplicate", 0)
    /\ UNCHANGED players

\* Mutant: a lost race waits for the pseudo to be free and inserts again.
RefetchByInsert(c) ==
    /\ call[c].pc = "duplicate"
    /\ players[Key(c)] = 0
    /\ Set(c, "absent", 0)
    /\ UNCHANGED <<players, nextId>>

\* CreateOrGetPlayerUseCase re-fetches the winner's row; PlayerNotFoundError if
\* it is not there.
Refetch(c) ==
    /\ call[c].pc = "duplicate"
    /\ IF players[Key(c)] = 0
       THEN Set(c, "failed", 0)
       ELSE Set(c, "done", players[Key(c)])
    /\ UNCHANGED <<players, nextId>>

\* The rest of the transaction succeeds and commits.
Commit(c) ==
    /\ call[c].pc \in {"found", "inserted"}
    /\ players' = IF call[c].pc = "inserted"
                  THEN [players EXCEPT ![Key(c)] = call[c].id] ELSE players
    /\ Set(c, "done", call[c].id)
    /\ UNCHANGED nextId

\* Mutant: the player's INSERT was not part of the transaction.
RollbackTooLittle(c) ==
    /\ MayAbort
    /\ call[c].pc \in {"found", "inserted"}
    /\ players' = IF call[c].pc = "inserted"
                  THEN [players EXCEPT ![Key(c)] = call[c].id] ELSE players
    /\ Set(c, "failed", 0)
    /\ UNCHANGED nextId

\* Its room does not exist, a later INSERT fails or the connection is lost.
Rollback(c) ==
    /\ MayAbort
    /\ call[c].pc \in {"found", "inserted"}
    /\ Set(c, "failed", 0)
    /\ UNCHANGED <<players, nextId>>

CallRuns(c) ==
    \/ Select(c) \/ Insert(c) \/ InsertDuplicate(c)
    \/ Refetch(c) \/ Commit(c) \/ Rollback(c)

Next == \E c \in Calls : CallRuns(c)

Spec == Init /\ [][Next]_vars

\* A request that has started goes on; the database ends a transaction.
FairSpec == Spec /\ \A c \in Calls : WF_vars(CallRuns(c))

-----------------------------------------------------------------------------
(* Properties *)

\* Ids are positive; calls hold an id or none.
TypeOK ==
    /\ players \in [Pseudos -> Nat]
    /\ nextId \in Nat \ {0}
    /\ call \in [Calls -> CallType]

\* Every call that has returned has returned the id of the one committed row
\* of its pseudo, whichever place created it; and two calls that normalise
\* their pseudos to the same one have returned the same id.
SamePlayer ==
    LET done == {c \in Calls : call[c].pc = "done"} IN
    /\ \A c \in done : call[c].id # 0 /\ call[c].id = players[Key(c)]
    /\ \A c, d \in {e \in done : Kind[e] # "start"} :
          Normal[Wants[c]] = Normal[Wants[d]] => call[c].id = call[d].id

\* The abstract upsert, a call being answered when it is done or has failed.
Abstract == INSTANCE AtomicUpsert WITH
    MayFail <- Transactional,
    Wants <- [c \in Calls |-> Key(c)],
    answer <- [c \in Calls |-> CASE call[c].pc = "done"   -> call[c].id
                                 [] call[c].pc = "failed" -> -1
                                 [] OTHER                 -> 0]

\* Each upsert takes effect at one instant (AtomicUpsert).
IsAtomic == Abstract!Spec

\* Every call returns: no transaction waits for ever on another's row.
EveryCallReturns == \A c \in Calls : <>(call[c].pc \in {"done", "failed"})
=============================================================================
