------------------------------- MODULE Expiry -------------------------------
(***************************************************************************)
(* The expiry of the Redis keys of one session, command by command.  A     *)
(* store method writes a key and renews its expiry in two awaits, so that  *)
(* time, other calls or a crash can come between them.  The contents of    *)
(* the keys are the subject of MatchSync.                                  *)
(***************************************************************************)
EXTENDS Integers, Sequences

CONSTANTS
    Calls,    \* slots of requests and of the MQTT consumer
    Ttl,      \* session_ttl_seconds, in ticks of the clock
    MaxFaults \* bound on failures

ASSUME TtlAssumption == Ttl \in Nat \ {0}
ASSUME MaxFaultsAssumption == MaxFaults \in Nat

VARIABLES
    left,   \* left[key]: ticks before the key expires, Gone or Forever
    call,   \* call[c]: the Redis commands the call has still to issue
    quiet,  \* history: ticks since the session was last read or written
    faults, \* failures so far
    created \* the session has been created

vars == <<left, call, quiet, faults, created>>

Gone == -1
Forever == -2
Keys == {"session", "events"}
Commands == {"hgetall", "hset", "expire session", "rpush", "expire events", "lrange",
             "del events", "del session"}

Init ==
    /\ left = [k \in Keys |-> Gone]
    /\ call = [c \in Calls |-> <<>>]
    /\ quiet = 0
    /\ faults = 0
    /\ created = FALSE

-----------------------------------------------------------------------------
(* The methods of the two stores, as the commands they issue *)

\* Mutant: a read does not renew the session.
GetOnly == <<"hgetall">>

Get == <<"hgetall", "expire session">>

\* Mutant: an update relies on the expiry that the creation has set.
UpdateOnly == <<"hset">>

Update == <<"hset", "expire session">>

\* Mutant: the expiry of the buffer is never set.
PushOnly == <<"rpush">>

Push == <<"rpush", "expire events">>
ReadAll == <<"lrange">>
Clear == <<"del events">>
Delete == <<"del session">>

\* What the use cases make of them: read a session, a command or a countdown,
\* an MQTT event, and the flush.
Programs == {Get, Get \o Update, Get \o Update \o Push,
             Get \o ReadAll \o Clear \o Delete}

-----------------------------------------------------------------------------
(* The calls *)

Idle == \A c \in Calls : call[c] = <<>>

CreateSession(c) ==
    /\ ~created /\ call[c] = <<>>
    /\ created' = TRUE
    /\ call' = [call EXCEPT ![c] = Update]
    /\ UNCHANGED <<left, quiet, faults>>

Begin(c, program) ==
    /\ created /\ call[c] = <<>>
    /\ call' = [call EXCEPT ![c] = program]
    /\ UNCHANGED <<left, quiet, faults, created>>

\* A key that is written keeps its expiry; one that is created has none.
Written(k) == IF left[k] = Gone THEN Forever ELSE left[k]

\* EXPIRE on a key that does not exist does nothing.
Renewed(k) == IF left[k] = Gone THEN Gone ELSE Ttl

KeyOf(command) == IF command \in {"rpush", "expire events", "del events"} THEN "events"
                  ELSE "session"

After(command, k) ==
    CASE command \in {"hset", "rpush"}                     -> Written(k)
      [] command \in {"expire session", "expire events"}   -> Renewed(k)
      [] command \in {"del events", "del session"}         -> Gone
      [] OTHER                                             -> left[k]

\* The next command of the call.  A session that is not there ends it.
Command(c) ==
    /\ call[c] # <<>>
    /\ LET command == Head(call[c])
           k == KeyOf(command)
           missing == command = "hgetall" /\ left["session"] = Gone
       IN  /\ call' = [call EXCEPT ![c] = IF missing THEN <<>> ELSE Tail(@)]
           /\ left' = [left EXCEPT ![k] = After(command, k)]
           /\ quiet' = IF missing \/ command \notin {"hgetall", "hset"} THEN quiet ELSE 0
    /\ UNCHANGED <<faults, created>>

\* An await of the call raises, or the call is cancelled.
Fail(c) ==
    /\ faults < MaxFaults /\ call[c] # <<>>
    /\ faults' = faults + 1
    /\ call' = [call EXCEPT ![c] = <<>>]
    /\ UNCHANGED <<left, quiet, created>>

Crash ==
    /\ faults < MaxFaults /\ ~Idle
    /\ faults' = faults + 1
    /\ call' = [c \in Calls |-> <<>>]
    /\ UNCHANGED <<left, quiet, created>>

\* Mutant: a key lives one tick too long, at zero.
AgedToZero(n) == IF n > 0 THEN n - 1 ELSE n

\* One tick of the clock of Redis, which deletes what has expired.
Aged(n) == IF n = 1 THEN Gone ELSE IF n > 1 THEN n - 1 ELSE n

Tick ==
    /\ \E k \in Keys : left[k] > 0
    /\ left' = [k \in Keys |-> Aged(left[k])]
    /\ quiet' = IF quiet = Ttl THEN Ttl ELSE quiet + 1
    /\ UNCHANGED <<call, faults, created>>

Next ==
    \/ Tick \/ Crash
    \/ \E c \in Calls : CreateSession(c) \/ Command(c) \/ Fail(c)
    \/ \E c \in Calls, program \in Programs : Begin(c, program)

Spec == Init /\ [][Next]_vars

\* Time passes, and the calls that have begun go on.
FairSpec == Spec /\ WF_vars(Tick) /\ \A c \in Calls : WF_vars(Command(c))

-----------------------------------------------------------------------------
(* Properties *)

Renewal == [session |-> "expire session", events |-> "expire events"]

\* No expiry is ever beyond Ttl, nor at zero: Redis has deleted the key by then.
ExpiryTypeOK ==
    /\ left \in [Keys -> {Gone, Forever} \cup 1..Ttl]
    /\ \A c \in Calls : \A i \in DOMAIN call[c] : call[c][i] \in Commands
    /\ quiet \in 0..Ttl
    /\ faults \in 0..MaxFaults

\* Before the first failure a key without expiry is about to get one from the
\* call that created it, or from another: a late write that recreates a
\* deleted session does not make it immortal.
KeysGetTtl ==
    faults = 0 => \A k \in Keys : left[k] = Forever =>
        \E c \in Calls : \E i \in DOMAIN call[c] : call[c][i] = Renewal[k]

\* A session that is used never expires: when it does, and no call or failure
\* has come between a use and its renewal, nothing has read or written it for
\* Ttl ticks.
KeptWhilePlayed ==
    [][Tick /\ left["session"] > 0 /\ left'["session"] = Gone /\ Idle /\ faults = 0
           => quiet' = Ttl]_vars

\* Once nobody calls any more, the session and its events expire: without a
\* failure nothing is left in Redis to clean by hand.
AbandonedExpires ==
    <>[](faults = 0 /\ Idle) => <>[](\A k \in Keys : left[k] = Gone)
=============================================================================
