---------------------------- MODULE ExpiryProofs ---------------------------
(***************************************************************************)
(* Machine-checked proofs about the expiry of the keys of a session, for   *)
(* any number of calls and any time to live.  They rest on the programs    *)
(* having every command that uses a key followed at once by its renewal,   *)
(* which what is left of a call keeps (Paired).                            *)
(***************************************************************************)
EXTENDS Expiry, TLAPS

-----------------------------------------------------------------------------
(* The programs *)

Uses == [session |-> {"hgetall", "hset"}, events |-> {"rpush"}]

LEMMA RenewalFacts ==
  /\ "session" \in Keys /\ Renewal["session"] = "expire session"
  /\ "events" \in Keys /\ Renewal["events"] = "expire events"
  /\ \A k \in Keys : k = "session" \/ k = "events"
  /\ \A key \in Keys : Renewal[key] \in Commands /\ \A k \in Keys : Renewal[key] \notin Uses[k]
  <1>1. /\ Renewal["session"] = "expire session" /\ Renewal["events"] = "expire events"
        /\ Uses["session"] = {"hgetall", "hset"} /\ Uses["events"] = {"rpush"}
    BY DEF Renewal, Uses
  <1>2. \A k \in Keys : k = "session" \/ k = "events"
    BY DEF Keys
  <1>3. ASSUME NEW key \in Keys
        PROVE  Renewal[key] \in Commands /\ \A k \in Keys : Renewal[key] \notin Uses[k]
    <2>1. CASE key = "session"
      BY <1>1, <1>2, <2>1 DEF Commands
    <2>2. CASE key = "events"
      BY <1>1, <1>2, <2>2 DEF Commands
    <2>3. QED
      BY <1>2, <2>1, <2>2
  <1>4. QED
    BY <1>1, <1>2, <1>3 DEF Keys

\* Each command that uses a key is followed by the renewal of its expiry.
Paired(program) ==
    \A k \in Keys : \A i \in DOMAIN program : program[i] \in Uses[k] =>
        i + 1 \in DOMAIN program /\ program[i + 1] = Renewal[k]

LEMMA PairedTail ==
  ASSUME NEW program \in Seq(Commands), program # <<>>, Paired(program)
  PROVE  Tail(program) \in Seq(Commands) /\ Paired(Tail(program))
  <1>1. /\ Tail(program) \in Seq(Commands) /\ Len(Tail(program)) = Len(program) - 1
        /\ DOMAIN program = 1 .. Len(program)
        /\ DOMAIN Tail(program) = 1 .. Len(program) - 1 /\ Len(program) \in Nat
        /\ \A i \in 1 .. Len(program) - 1 : Tail(program)[i] = program[i + 1]
    OBVIOUS
  <1> DEFINE rest == Tail(program)
  <1> HIDE DEF rest
  <1>2. ASSUME NEW k \in Keys, NEW i \in 1 .. Len(program) - 1, rest[i] \in Uses[k]
        PROVE  i + 1 \in 1 .. Len(program) - 1 /\ rest[i + 1] = Renewal[k]
    <2>1. i + 1 \in DOMAIN program /\ program[i + 1] \in Uses[k]
      BY <1>1, <1>2 DEF rest
    <2>2. (i + 1) + 1 \in DOMAIN program /\ program[(i + 1) + 1] = Renewal[k]
      BY <2>1 DEF Paired
    <2>3. i + 1 \in 1 .. Len(program) - 1
      BY <1>1, <2>2
    <2>4. QED
      BY <1>1, <2>2, <2>3 DEF rest
  <1>3. QED
    BY <1>1, <1>2 DEF Paired, rest

LEMMA PairedConcat ==
  ASSUME NEW one \in Seq(Commands), NEW two \in Seq(Commands), Paired(one), Paired(two)
  PROVE  one \o two \in Seq(Commands) /\ Paired(one \o two)
  <1> DEFINE both == one \o two
  <1>1. /\ both \in Seq(Commands) /\ DOMAIN both = 1 .. Len(one) + Len(two)
        /\ Len(one) \in Nat /\ Len(two) \in Nat
        /\ DOMAIN one = 1 .. Len(one) /\ DOMAIN two = 1 .. Len(two)
        /\ \A i \in 1 .. Len(one) : both[i] = one[i]
        /\ \A i \in Len(one) + 1 .. Len(one) + Len(two) : both[i] = two[i - Len(one)]
    OBVIOUS
  <1> HIDE DEF both
  <1>2. ASSUME NEW k \in Keys, NEW i \in DOMAIN both, both[i] \in Uses[k]
        PROVE  i + 1 \in DOMAIN both /\ both[i + 1] = Renewal[k]
    <2>1. CASE i \in 1 .. Len(one)
      <3>1. i \in DOMAIN one /\ one[i] \in Uses[k]
        BY <1>1, <1>2, <2>1
      <3>2. i + 1 \in DOMAIN one /\ one[i + 1] = Renewal[k]
        BY <3>1 DEF Paired
      <3>3. QED
        BY <1>1, <3>2
    <2>2. CASE i \in Len(one) + 1 .. Len(one) + Len(two)
      <3> DEFINE j == i - Len(one)
      <3>1. j \in DOMAIN two /\ two[j] \in Uses[k]
        BY <1>1, <1>2, <2>2
      <3>2. j + 1 \in DOMAIN two /\ two[j + 1] = Renewal[k]
        <4> HIDE DEF j
        <4>1. QED
          BY <3>1 DEF Paired
      <3>3. i + 1 \in Len(one) + 1 .. Len(one) + Len(two) /\ (i + 1) - Len(one) = j + 1
        BY <1>1, <2>2, <3>2
      <3>4. both[i + 1] = two[(i + 1) - Len(one)]
        BY <1>1, <3>3
      <3>5. QED
        BY <1>1, <3>2, <3>3, <3>4
    <2>3. QED
      BY <1>1, <2>1, <2>2
  <1>3. QED
    BY <1>1, <1>2 DEF Paired, both

\* One command that uses a key, and its renewal.
LEMMA PairPaired ==
  ASSUME NEW use \in Commands, NEW key \in Keys,
         \A k \in Keys : use \in Uses[k] => k = key
  PROVE  <<use, Renewal[key]>> \in Seq(Commands) /\ Paired(<<use, Renewal[key]>>)
  <1>1. Renewal[key] \in Commands /\ \A k \in Keys : Renewal[key] \notin Uses[k]
    BY RenewalFacts
  <1> DEFINE renewal == Renewal[key]
             pair == <<use, renewal>>
  <1> HIDE DEF renewal
  <1>2. pair \in Seq(Commands) /\ DOMAIN pair = 1 .. 2 /\ pair[1] = use /\ pair[2] = renewal
    BY <1>1 DEF renewal
  <1> HIDE DEF pair
  <1>3. ASSUME NEW k \in Keys, NEW i \in 1 .. 2, pair[i] \in Uses[k]
        PROVE  i + 1 \in 1 .. 2 /\ pair[i + 1] = Renewal[k]
    <2>1. i # 2
      BY <1>1, <1>2, <1>3 DEF renewal
    <2>2. i = 1 /\ k = key
      BY <1>2, <1>3, <2>1
    <2>3. QED
      BY <1>2, <2>2 DEF renewal
  <1>4. Paired(pair)
    BY <1>2, <1>3 DEF Paired
  <1>5. QED
    BY <1>2, <1>4 DEF pair, renewal

\* A command that uses no key.
LEMMA SinglePaired ==
  ASSUME NEW command \in Commands, \A k \in Keys : command \notin Uses[k]
  PROVE  <<command>> \in Seq(Commands) /\ Paired(<<command>>)
  <1> DEFINE single == <<command>>
  <1>1. single \in Seq(Commands) /\ DOMAIN single = {1} /\ single[1] = command
    OBVIOUS
  <1> HIDE DEF single
  <1>2. Paired(single)
    BY <1>1 DEF Paired
  <1>3. QED
    BY <1>1, <1>2 DEF single

LEMMA ProgramsPaired ==
  /\ Update \in Seq(Commands) /\ Paired(Update)
  /\ \A program \in Programs : program \in Seq(Commands) /\ Paired(program)
  <1>0. /\ {"hgetall", "hset", "rpush", "lrange", "del events", "del session"} \subseteq Commands
        /\ "session" \in Keys /\ "events" \in Keys
        /\ Renewal["session"] = "expire session" /\ Renewal["events"] = "expire events"
        /\ \A k \in Keys : /\ "hgetall" \in Uses[k] => k = "session"
                           /\ "hset" \in Uses[k] => k = "session"
                           /\ "rpush" \in Uses[k] => k = "events"
                           /\ "lrange" \notin Uses[k] /\ "del events" \notin Uses[k]
                           /\ "del session" \notin Uses[k]
    BY DEF Commands, Keys, Renewal, Uses
  <1>1. Get \in Seq(Commands) /\ Paired(Get)
    BY <1>0, PairPaired DEF Get
  <1>2. Update \in Seq(Commands) /\ Paired(Update)
    BY <1>0, PairPaired DEF Update
  <1>3. Push \in Seq(Commands) /\ Paired(Push)
    BY <1>0, PairPaired DEF Push
  <1>4. /\ ReadAll \in Seq(Commands) /\ Paired(ReadAll)
        /\ Clear \in Seq(Commands) /\ Paired(Clear)
        /\ Delete \in Seq(Commands) /\ Paired(Delete)
    BY <1>0, SinglePaired DEF ReadAll, Clear, Delete
  <1>5. (Get \o Update) \in Seq(Commands) /\ Paired(Get \o Update)
    BY <1>1, <1>2, PairedConcat
  <1>6. (Get \o Update \o Push) \in Seq(Commands) /\ Paired(Get \o Update \o Push)
    BY <1>3, <1>5, PairedConcat
  <1>7. (Get \o ReadAll) \in Seq(Commands) /\ Paired(Get \o ReadAll)
    BY <1>1, <1>4, PairedConcat
  <1>8. (Get \o ReadAll \o Clear) \in Seq(Commands) /\ Paired(Get \o ReadAll \o Clear)
    BY <1>4, <1>7, PairedConcat
  <1>9. /\ (Get \o ReadAll \o Clear \o Delete) \in Seq(Commands)
        /\ Paired(Get \o ReadAll \o Clear \o Delete)
    BY <1>4, <1>8, PairedConcat
  <1>10. QED
    BY <1>1, <1>2, <1>5, <1>6, <1>9 DEF Programs

-----------------------------------------------------------------------------
(* The types *)

ExpiryInv ==
    /\ left \in [Keys -> {Gone, Forever} \cup 1..Ttl]
    /\ call \in [Calls -> Seq(Commands)]
    /\ \A c \in Calls : Paired(call[c])
    /\ quiet \in 0..Ttl
    /\ faults \in 0..MaxFaults

LEMMA ExpiryTypes == ExpiryInv => ExpiryTypeOK
  BY DEF ExpiryInv, ExpiryTypeOK

LEMMA NoCommandPaired == <<>> \in Seq(Commands) /\ Paired(<<>>)
  BY DEF Paired

LEMMA ExpiryInit == Init => ExpiryInv
  BY NoCommandPaired, TtlAssumption, MaxFaultsAssumption DEF Init, ExpiryInv

\* A step that gives one call a program leaves the rest as it was.
LEMMA CallInv ==
  ASSUME ExpiryInv, NEW c \in Calls, NEW program \in Seq(Commands), Paired(program),
         call' = [call EXCEPT ![c] = program],
         left' \in [Keys -> {Gone, Forever} \cup 1..Ttl], quiet' \in 0..Ttl,
         faults' \in 0..MaxFaults
  PROVE  ExpiryInv'
  BY DEF ExpiryInv

LEMMA AfterType ==
  ASSUME ExpiryInv, NEW command \in Commands, NEW k \in Keys
  PROVE  After(command, k) \in {Gone, Forever} \cup 1..Ttl
  <1>1. left[k] \in {Gone, Forever} \cup 1..Ttl /\ Ttl \in 1..Ttl
    BY TtlAssumption DEF ExpiryInv
  <1>2. QED
    BY <1>1 DEF After, Written, Renewed

LEMMA KeyOfType == ASSUME NEW command PROVE KeyOf(command) \in Keys
  BY DEF KeyOf, Keys

LEMMA ExpiryNext == ExpiryInv /\ [Next]_vars => ExpiryInv'
  <1> SUFFICES ASSUME ExpiryInv, [Next]_vars PROVE ExpiryInv'
    OBVIOUS
  <1>0. /\ left \in [Keys -> {Gone, Forever} \cup 1..Ttl] /\ quiet \in 0..Ttl
        /\ faults \in 0..MaxFaults
    BY DEF ExpiryInv
  <1>1. ASSUME NEW c \in Calls, CreateSession(c) PROVE ExpiryInv'
    BY <1>0, <1>1, ProgramsPaired, CallInv DEF CreateSession
  <1>2. ASSUME NEW c \in Calls, NEW program \in Programs, Begin(c, program) PROVE ExpiryInv'
    BY <1>0, <1>2, ProgramsPaired, CallInv DEF Begin
  <1>3. ASSUME NEW c \in Calls, Command(c) PROVE ExpiryInv'
    <2> DEFINE command == Head(call[c])
               k == KeyOf(command)
               missing == command = "hgetall" /\ left["session"] = Gone
               rest == IF missing THEN <<>> ELSE Tail(call[c])
    <2>1. /\ call[c] # <<>> /\ call[c] \in Seq(Commands) /\ Paired(call[c])
      BY <1>3 DEF Command, ExpiryInv
    <2>2. command \in Commands
      BY <2>1
    <2>3. After(command, k) \in {Gone, Forever} \cup 1..Ttl
      BY <2>2, AfterType, KeyOfType
    <2>4. left' = [left EXCEPT ![k] = After(command, k)]
      BY <1>3 DEF Command
    <2>5. left' \in [Keys -> {Gone, Forever} \cup 1..Ttl]
      <3> DEFINE value == After(command, k)
                 key == k
      <3> HIDE DEF value, key
      <3>1. value \in {Gone, Forever} \cup 1..Ttl /\ left' = [left EXCEPT ![key] = value]
        BY <2>3, <2>4 DEF value, key
      <3>2. QED
        BY <1>0, <3>1
    <2>6. rest \in Seq(Commands) /\ Paired(rest)
      BY <2>1, PairedTail, NoCommandPaired
    <2>7. call' = [call EXCEPT ![c] = rest]
      BY <1>3 DEF Command
    <2>8. quiet' \in 0..Ttl
      <3>1. quiet' = quiet \/ quiet' = 0
        BY <1>3 DEF Command
      <3>2. QED
        BY <1>0, <3>1, TtlAssumption
    <2>9. faults' \in 0..MaxFaults
      BY <1>0, <1>3 DEF Command
    <2> HIDE DEF rest
    <2>10. QED
      BY <2>5, <2>6, <2>7, <2>8, <2>9, CallInv
  <1>4. ASSUME NEW c \in Calls, Fail(c) PROVE ExpiryInv'
    <2>1. faults' \in 0..MaxFaults
      BY <1>0, <1>4, MaxFaultsAssumption DEF Fail
    <2>2. QED
      BY <1>0, <1>4, <2>1, NoCommandPaired, CallInv DEF Fail
  <1>5. CASE Crash
    <2>1. faults' \in 0..MaxFaults
      BY <1>0, <1>5, MaxFaultsAssumption DEF Crash
    <2>2. QED
      BY <1>0, <1>5, <2>1, NoCommandPaired DEF Crash, ExpiryInv
  <1>6. CASE Tick
    <2>1. \A n \in {Gone, Forever} \cup 1..Ttl : Aged(n) \in {Gone, Forever} \cup 1..Ttl
      BY TtlAssumption DEF Aged, Gone, Forever
    <2>2. left' \in [Keys -> {Gone, Forever} \cup 1..Ttl]
      BY <1>0, <1>6, <2>1 DEF Tick
    <2>3. quiet' \in 0..Ttl
      BY <1>0, <1>6, TtlAssumption DEF Tick
    <2>4. QED
      BY <1>0, <1>6, <2>2, <2>3 DEF Tick, ExpiryInv
  <1>7. CASE UNCHANGED vars
    BY <1>7 DEF vars, ExpiryInv
  <1>8. QED
    BY <1>1, <1>2, <1>3, <1>4, <1>5, <1>6, <1>7 DEF Next

LEMMA ExpiryAlways == Spec => []ExpiryInv
  BY ExpiryInit, ExpiryNext, PTL DEF Spec

\* No key of Redis ever has an expiry beyond the time to live, or one that has
\* run out, whichever commands of whichever calls wrote and renewed it.
THEOREM ExpiryTypesHold == Spec => []ExpiryTypeOK
  BY ExpiryAlways, ExpiryTypes, PTL

-----------------------------------------------------------------------------
(* Keys are renewed *)

\* The next command of call c renews key k.
Renews(c, k) == call[c] # <<>> /\ Head(call[c]) = Renewal[k]

\* Before the first failure, a key without expiry has its renewal next in some
\* call; and the session has either been left alone for as long as its expiry
\* has run, or its renewal is next in some call.
RenewalsAhead ==
    faults = 0 =>
        /\ \A k \in Keys : left[k] = Forever => \E c \in Calls : Renews(c, k)
        /\ \/ ~(left["session"] > 0)
           \/ left["session"] + quiet >= Ttl
           \/ \E c \in Calls : Renews(c, "session")

\* What one command does: it uses a key, and is followed by the renewal; it ends
\* a call whose session is not there; it renews a key; or it changes none but to
\* delete it.
LEMMA CommandFacts ==
  ASSUME ExpiryInv, NEW c \in Calls, Command(c)
  PROVE  /\ call[c] # <<>> /\ faults' = faults
         /\ \A d \in Calls : d # c => call'[d] = call[d]
         /\ \E k \in Keys :
               /\ \A other \in Keys : other # k => left'[other] = left[other]
               /\ \A other \in Keys : other # k => Head(call[c]) # Renewal[other]
               /\ \/ /\ Head(call[c]) # Renewal[k] /\ Renews(c, k)'
                     /\ k = "events" => quiet' = quiet
                  \/ /\ Head(call[c]) # Renewal[k] /\ quiet' = quiet
                     /\ left'[k] \in {left[k], Gone}
                  \/ left'[k] \in {Gone, Ttl} /\ quiet' = quiet
  <1> DEFINE command == Head(call[c])
             missing == command = "hgetall" /\ left["session"] = Gone
             rest == IF missing THEN <<>> ELSE Tail(call[c])
  <1>0. PICK k \in Keys : k = KeyOf(command)
    BY KeyOfType
  <1>1. /\ call[c] # <<>> /\ call[c] \in Seq(Commands) /\ Paired(call[c])
        /\ left \in [Keys -> {Gone, Forever} \cup 1..Ttl] /\ call \in [Calls -> Seq(Commands)]
    BY DEF Command, ExpiryInv
  <1>2. command \in Commands
    BY <1>1
  <1>3. /\ call' = [call EXCEPT ![c] = rest]
        /\ left' = [left EXCEPT ![k] = After(command, k)]
        /\ quiet' = IF missing \/ command \notin {"hgetall", "hset"} THEN quiet ELSE 0
        /\ faults' = faults
    BY <1>0 DEF Command
  <1>5. /\ call'[c] = rest /\ \A d \in Calls : d # c => call'[d] = call[d]
        /\ left'[k] = After(command, k)
        /\ \A other \in Keys : other # k => left'[other] = left[other]
    <2> HIDE DEF rest, command
    <2>1. QED
      BY <1>1, <1>3
  <1>6. \A other \in Keys : other # k => command # Renewal[other]
    <2> SUFFICES ASSUME NEW other \in Keys, command = Renewal[other] PROVE other = k
      OBVIOUS
    <2>1. CASE other = "session"
      BY <2>1, RenewalFacts, <1>0 DEF KeyOf
    <2>2. CASE other = "events"
      BY <2>2, RenewalFacts, <1>0 DEF KeyOf
    <2>3. QED
      BY <2>1, <2>2, RenewalFacts
  <1>7. CASE command \in {"hgetall", "hset", "rpush"} /\ ~missing
    <2>1. command \in Uses[k]
      <3>1. Uses["session"] = {"hgetall", "hset"} /\ Uses["events"] = {"rpush"}
        BY DEF Uses
      <3>2. QED
        BY <1>0, <1>7, <3>1 DEF KeyOf
    <2>2. call[c][1] = command /\ 1 \in DOMAIN call[c]
      BY <1>1
    <2>3. 1 + 1 \in DOMAIN call[c] /\ call[c][1 + 1] = Renewal[k]
      <3> HIDE DEF command
      <3>1. QED
        BY <1>1, <2>1, <2>2 DEF Paired
    <2>4. Tail(call[c]) # <<>> /\ Head(Tail(call[c])) = call[c][2]
      <3>1. Len(call[c]) \in Nat /\ Len(call[c]) >= 2
        BY <1>1, <2>3
      <3>2. Len(Tail(call[c])) = Len(call[c]) - 1 /\ Tail(call[c])[1] = call[c][2]
        BY <1>1, <3>1
      <3>3. Len(Tail(call[c])) # Len(<<>>)
        BY <3>1, <3>2
      <3>4. Tail(call[c]) # <<>> /\ Tail(call[c]) \in Seq(Commands)
        <4>1. Tail(call[c]) \in Seq(Commands)
          BY <1>1
        <4>2. ASSUME Tail(call[c]) = <<>> PROVE FALSE
          BY <3>3, <4>2
        <4>3. QED
          BY <4>1, <4>2
      <3>5. Head(Tail(call[c])) = Tail(call[c])[1]
        BY <3>4
      <3>6. QED
        BY <3>2, <3>4, <3>5
    <2>5. Renews(c, k)'
      BY <1>5, <1>7, <2>3, <2>4 DEF Renews
    <2>6. command # Renewal[k]
      BY <2>1, RenewalFacts
    <2>7. k = "events" => quiet' = quiet
      BY <1>0, <1>3, <1>7 DEF KeyOf
    <2>8. QED
      BY <1>1, <1>3, <1>5, <1>6, <2>5, <2>6, <2>7
  <1>8. CASE command \in {"expire session", "expire events"}
    <2>1. left'[k] \in {Gone, Ttl} /\ quiet' = quiet
      BY <1>3, <1>5, <1>8 DEF After, Renewed
    <2>2. QED
      BY <1>1, <1>3, <1>5, <1>6, <2>1
  <1>9. CASE missing \/ command \in {"lrange", "del events", "del session"}
    <2>1. left'[k] \in {left[k], Gone} /\ quiet' = quiet
      BY <1>3, <1>5, <1>9 DEF After
    <2>2. command # Renewal[k]
      BY <1>9, RenewalFacts
    <2>3. QED
      BY <1>1, <1>3, <1>5, <1>6, <2>1, <2>2
  <1>10. QED
    BY <1>2, <1>7, <1>8, <1>9 DEF Commands

LEMMA RenewalsNext == ExpiryInv /\ RenewalsAhead /\ [Next]_vars => RenewalsAhead'
  <1> SUFFICES ASSUME ExpiryInv, RenewalsAhead, [Next]_vars, faults' = 0
               PROVE  /\ \A k \in Keys : left'[k] = Forever => \E c \in Calls : Renews(c, k)'
                      /\ \/ ~(left'["session"] > 0)
                         \/ left'["session"] + quiet' >= Ttl
                         \/ \E c \in Calls : Renews(c, "session")'
    BY DEF RenewalsAhead
  <1>0. /\ left \in [Keys -> {Gone, Forever} \cup 1..Ttl] /\ call \in [Calls -> Seq(Commands)]
        /\ quiet \in 0..Ttl /\ faults \in Nat /\ Ttl \in Nat /\ "session" \in Keys
        /\ left["session"] \in Int
    <2>1. left["session"] \in {Gone, Forever} \cup 1..Ttl
      BY DEF ExpiryInv, Keys
    <2>2. "session" \in Keys
      BY DEF Keys
    <2>3. /\ left \in [Keys -> {Gone, Forever} \cup 1..Ttl] /\ call \in [Calls -> Seq(Commands)]
          /\ quiet \in 0..Ttl /\ faults \in 0..MaxFaults
      BY DEF ExpiryInv
    <2>4. left["session"] \in Int
      BY <2>1, TtlAssumption DEF Gone, Forever
    <2>5. QED
      BY <2>2, <2>3, <2>4, TtlAssumption, MaxFaultsAssumption
  <1>1. ASSUME faults = 0
        PROVE  /\ \A k \in Keys : left[k] = Forever => \E c \in Calls : Renews(c, k)
               /\ \/ ~(left["session"] > 0)
                  \/ left["session"] + quiet >= Ttl
                  \/ \E c \in Calls : Renews(c, "session")
    BY <1>1 DEF RenewalsAhead
  <1>2. ASSUME faults = 0, UNCHANGED <<left, quiet>>,
               \A c \in Calls, k \in Keys : Renews(c, k) => Renews(c, k)'
        PROVE  /\ \A k \in Keys : left'[k] = Forever => \E c \in Calls : Renews(c, k)'
               /\ \/ ~(left'["session"] > 0)
                  \/ left'["session"] + quiet' >= Ttl
                  \/ \E c \in Calls : Renews(c, "session")'
    BY <1>0, <1>1, <1>2
  <1>3. ASSUME NEW c \in Calls, CreateSession(c) \/ \E program \in Programs : Begin(c, program)
        PROVE  /\ faults = 0 /\ UNCHANGED <<left, quiet>>
               /\ \A d \in Calls, k \in Keys : Renews(d, k) => Renews(d, k)'
    <2>1. call[c] = <<>> /\ faults = 0 /\ UNCHANGED <<left, quiet>>
      BY <1>3 DEF CreateSession, Begin
    <2>2. \A d \in Calls : d # c => call'[d] = call[d]
      BY <1>0, <1>3 DEF CreateSession, Begin
    <2>3. QED
      BY <2>1, <2>2 DEF Renews
  <1>4. CASE UNCHANGED vars
    BY <1>2, <1>4 DEF vars, Renews
  <1>5. ASSUME Crash \/ \E c \in Calls : Fail(c) PROVE FALSE
    BY <1>0, <1>5 DEF Crash, Fail
  <1>6. CASE Tick
    <2>1. /\ UNCHANGED call /\ faults = 0
          /\ left' = [k \in Keys |-> Aged(left[k])]
          /\ quiet' = IF quiet = Ttl THEN Ttl ELSE quiet + 1
      BY <1>6 DEF Tick
    <2>2. \A d \in Calls, k \in Keys : Renews(d, k)' <=> Renews(d, k)
      BY <2>1 DEF Renews
    <2>3. ASSUME NEW k \in Keys, left'[k] = Forever PROVE left[k] = Forever
      <3>1. left[k] \in {Gone, Forever} \cup 1..Ttl /\ Aged(left[k]) = Forever
        BY <1>0, <2>1, <2>3
      <3>2. QED
        BY <1>0, <3>1 DEF Aged, Gone, Forever
    <2>4. ASSUME left'["session"] > 0
          PROVE  \/ /\ left["session"] > 0
                    /\ left'["session"] + quiet' >= left["session"] + quiet
                 \/ left'["session"] + quiet' >= Ttl
      <3>1. left["session"] \in {Gone, Forever} \cup 1..Ttl /\ left'["session"] = Aged(left["session"])
        BY <1>0, <2>1
      <3>2. left["session"] > 1 /\ left'["session"] = left["session"] - 1
        BY <1>0, <2>4, <3>1 DEF Aged, Gone, Forever
      <3>3. QED
        BY <1>0, <2>1, <3>2
    <2>5. \A k \in Keys : left'[k] = Forever => \E c \in Calls : Renews(c, k)'
      BY <1>1, <2>1, <2>2, <2>3
    <2>6. CASE left'["session"] > 0 /\ ~(left'["session"] + quiet' >= Ttl)
      <3>1. left'["session"] \in Int /\ quiet' \in Int
        <4>1. left'["session"] = Aged(left["session"])
          BY <1>0, <2>1
        <4>2. QED
          BY <1>0, <2>1, <4>1 DEF Aged, Gone, Forever
      <3>2. left["session"] > 0 /\ ~(left["session"] + quiet >= Ttl)
        BY <1>0, <2>4, <2>6, <3>1
      <3>3. \E c \in Calls : Renews(c, "session")'
        BY <1>0, <1>1, <2>1, <2>2, <3>2
      <3>4. QED
        BY <2>5, <3>3
    <2>7. QED
      BY <2>5, <2>6
  <1>7. ASSUME NEW c \in Calls, Command(c)
        PROVE  /\ \A k \in Keys : left'[k] = Forever => \E d \in Calls : Renews(d, k)'
               /\ \/ ~(left'["session"] > 0)
                  \/ left'["session"] + quiet' >= Ttl
                  \/ \E d \in Calls : Renews(d, "session")'
    <2>1. PICK k \in Keys :
             /\ \A other \in Keys : other # k => left'[other] = left[other]
             /\ \A other \in Keys : other # k => Head(call[c]) # Renewal[other]
             /\ \/ /\ Head(call[c]) # Renewal[k] /\ Renews(c, k)'
                   /\ k = "events" => quiet' = quiet
                \/ /\ Head(call[c]) # Renewal[k] /\ quiet' = quiet
                   /\ left'[k] \in {left[k], Gone}
                \/ left'[k] \in {Gone, Ttl} /\ quiet' = quiet
      BY <1>7, CommandFacts
    <2>2. faults = 0 /\ \A d \in Calls : d # c => call'[d] = call[d]
      BY <1>7, CommandFacts
    <2>3. ASSUME NEW d \in Calls, NEW other \in Keys, Renews(d, other),
                 Head(call[c]) # Renewal[other]
          PROVE  Renews(d, other)'
      <3>1. d # c
        BY <2>3 DEF Renews
      <3>2. QED
        BY <2>2, <2>3, <3>1 DEF Renews
    <2>4. ASSUME NEW other \in Keys, other # k,
                 left'[other] = Forever
          PROVE  \E d \in Calls : Renews(d, other)'
      BY <1>1, <2>1, <2>2, <2>3, <2>4
    <2>5. ASSUME left'[k] = Forever PROVE \E d \in Calls : Renews(d, k)'
      <3>1. CASE Renews(c, k)'
        BY <3>1
      <3>2. CASE Head(call[c]) # Renewal[k] /\ left'[k] \in {left[k], Gone}
        <4>1. left[k] = Forever
          BY <2>5, <3>2 DEF Gone, Forever
        <4>2. QED
          BY <1>1, <2>2, <2>3, <3>2, <4>1
      <3>3. CASE left'[k] \in {Gone, Ttl}
        BY <1>0, <2>5, <3>3 DEF Gone, Forever
      <3>4. QED
        BY <2>1, <3>1, <3>2, <3>3
    <2>6. ASSUME left'["session"] > 0, ~(left'["session"] + quiet' >= Ttl)
          PROVE  \E d \in Calls : Renews(d, "session")'
      <3>1. ASSUME left'["session"] = left["session"], quiet' = quiet,
                   Head(call[c]) # Renewal["session"]
            PROVE  \E d \in Calls : Renews(d, "session")'
        BY <1>0, <1>1, <2>2, <2>3, <2>6, <3>1
      <3>2. CASE k = "session"
        <4>1. CASE Renews(c, k)'
          BY <3>2, <4>1
        <4>2. CASE Head(call[c]) # Renewal[k] /\ quiet' = quiet /\ left'[k] \in {left[k], Gone}
          <5>1. left'[k] = left[k]
            BY <2>6, <3>2, <4>2 DEF Gone
          <5>2. QED
            BY <3>1, <3>2, <4>2, <5>1
        <4>3. CASE left'[k] \in {Gone, Ttl} /\ quiet' = quiet
          BY <1>0, <2>6, <3>2, <4>3 DEF Gone
        <4>4. QED
          BY <2>1, <4>1, <4>2, <4>3
      <3>3. CASE k = "events"
        <4>1. left'["session"] = left["session"] /\ Head(call[c]) # Renewal["session"]
          BY <1>0, <2>1, <3>3
        <4>2. quiet' = quiet
          BY <2>1, <3>3
        <4>3. QED
          BY <3>1, <4>1, <4>2
      <3>4. QED
        BY <3>2, <3>3, RenewalFacts
    <2>7. QED
      BY <2>4, <2>5, <2>6
  <1>8. QED
    BY <1>2, <1>3, <1>4, <1>5, <1>6, <1>7 DEF Next

LEMMA RenewalsAlways == Spec => [](ExpiryInv /\ RenewalsAhead)
  <1>1. Init => RenewalsAhead
    <2>1. ASSUME Init PROVE \A k \in Keys : left[k] = Gone
      BY <2>1 DEF Init
    <2>2. "session" \in Keys
      BY DEF Keys
    <2>3. QED
      BY <2>1, <2>2 DEF RenewalsAhead, Gone, Forever
  <1>2. QED
    BY <1>1, ExpiryInit, ExpiryNext, RenewalsNext, PTL DEF Spec

\* While nothing has failed, no key stays without expiry: some call is about to
\* renew each one that was created, even by a write that came after a deletion.
THEOREM KeysAreRenewed == Spec => []KeysGetTtl
  <1>1. ExpiryInv /\ RenewalsAhead => KeysGetTtl
    <2> SUFFICES ASSUME ExpiryInv, RenewalsAhead, faults = 0, NEW k \in Keys, left[k] = Forever
                 PROVE  \E c \in Calls : \E i \in DOMAIN call[c] : call[c][i] = Renewal[k]
      BY DEF KeysGetTtl
    <2>1. PICK c \in Calls : Renews(c, k)
      BY DEF RenewalsAhead
    <2>2. call[c] \in Seq(Commands) /\ call[c] # <<>> /\ Head(call[c]) = Renewal[k]
      BY <2>1 DEF ExpiryInv, Renews
    <2>3. 1 \in DOMAIN call[c] /\ call[c][1] = Renewal[k]
      BY <2>2
    <2>4. QED
      BY <2>3
  <1>2. QED
    BY <1>1, RenewalsAlways, PTL

\* A session that expires has been left alone for the whole time to live,
\* whatever reads, writes and renewals of it had interleaved before.
THEOREM SessionKeptWhilePlayed == Spec => KeptWhilePlayed
  <1>1. ASSUME ExpiryInv, RenewalsAhead, Tick, left["session"] > 0, left'["session"] = Gone,
               Idle, faults = 0
        PROVE  quiet' = Ttl
    <2>1. /\ left["session"] \in 1..Ttl \cup {Gone, Forever} /\ quiet \in 0..Ttl /\ Ttl \in Nat
          /\ "session" \in Keys
      BY <1>1, TtlAssumption DEF ExpiryInv, Keys
    <2>2. left["session"] + quiet >= Ttl
      <3>1. \A c \in Calls : ~Renews(c, "session")
        BY <1>1 DEF Renews, Idle
      <3>2. QED
        BY <1>1, <3>1 DEF RenewalsAhead
    <2>3. left["session"] = 1
      <3>1. left'["session"] = Aged(left["session"])
        BY <1>1, <2>1 DEF Tick
      <3>2. QED
        BY <1>1, <2>1, <3>1 DEF Aged, Gone, Forever
    <2>4. quiet = Ttl \/ quiet = Ttl - 1
      BY <2>1, <2>2, <2>3
    <2>5. QED
      BY <1>1, <2>1, <2>4 DEF Tick
  <1>2. ExpiryInv /\ RenewalsAhead =>
          [Tick /\ left["session"] > 0 /\ left'["session"] = Gone /\ Idle /\ faults = 0
              => quiet' = Ttl]_vars
    BY <1>1
  <1>3. QED
    BY <1>2, RenewalsAlways, PTL DEF KeptWhilePlayed
=============================================================================
