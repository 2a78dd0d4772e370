---------------------------- MODULE AtomicUpsert ----------------------------
(***************************************************************************)
(* What the backend promises of a player upsert: each call takes effect at *)
(* one instant, and answers the id of the one player that has the pseudo,  *)
(* created at that instant if there was none.  A call that runs inside a   *)
(* larger transaction may fail instead, and then changes nothing.          *)
(***************************************************************************)
EXTENDS Integers

CONSTANTS
    Calls,    \* the calls
    Pseudos,  \* the pseudos
    Wants,    \* Wants[c]: the pseudo call c upserts
    MayFail   \* the calls that are part of a larger transaction

VARIABLES
    players,  \* players[p]: the id of the player of pseudo p, 0 if there is none
    answer    \* answer[c]: 0 until c returns, then an id, or -1 for an error

vars == <<players, answer>>

Init ==
    /\ players = [p \in Pseudos |-> 0]
    /\ answer = [c \in Calls |-> 0]

Existing(c) ==
    /\ answer[c] = 0
    /\ players[Wants[c]] # 0
    /\ answer' = [answer EXCEPT ![c] = players[Wants[c]]]
    /\ UNCHANGED players

\* The database picks the id: any that no player has.
Created(c) ==
    LET id == players'[Wants[c]] IN
    /\ answer[c] = 0
    /\ players[Wants[c]] = 0
    /\ players' = [players EXCEPT ![Wants[c]] = id]
    /\ answer' = [answer EXCEPT ![c] = id]
    /\ id \in Nat \ {0}
    /\ \A p \in Pseudos : players[p] # id

Failed(c) ==
    /\ c \in MayFail
    /\ answer[c] = 0
    /\ answer' = [answer EXCEPT ![c] = -1]
    /\ UNCHANGED players

Next == \E c \in Calls : Existing(c) \/ Created(c) \/ Failed(c)

Spec == Init /\ [][Next]_vars
=============================================================================
