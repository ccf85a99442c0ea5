-------------------------- MODULE IdempotencyProofs --------------------------
(***************************************************************************)
(* Theorems of Idempotency, for any number of calls, keys, bodies and      *)
(* retries: a verdict is the caller's own, and in a store with room for    *)
(* every key a key executes once in its window and whoever works on it     *)
(* holds it.                                                               *)
(***************************************************************************)
EXTENDS Idempotency, FiniteSetTheorems, TLAPS

\* A full store may drive out the entry of a key that is still in its window.
Roomy == IsFiniteSet(Keys) /\ Cardinality(Keys) <= MaxEntries

\* A call has its key and body before it sends anything.
Named ==
    /\ \A c \in Clients : call[c].state # "new" => call[c].key \in Keys /\ call[c].body \in Bodies
    /\ \A a \in Attempts : call[a[1]].state = "new" => attempt[a] = Unsent
WellTyped == TypeOK /\ Named

(* The store holds the key of whoever works on it ...                       *)
Holds(a) ==
    /\ Key(a) \in DOMAIN entries
    /\ entries[Key(a)].body = Body(a) /\ ~entries[Key(a)].done /\ ~entries[Key(a)].expired
Alone ==
    \A a \in Attempts : Working(a) =>
        /\ Holds(a)
        /\ \A b \in Attempts : Working(b) /\ Key(b) = Key(a) => b = a

(* ... and keeps it after a run, until nobody can start another in its window. *)
InWindow(k, i) == i \in DOMAIN runs /\ i > since[k] /\ runs[i].key = k
Kept ==
    /\ \A k \in Keys : since[k] <= Len(runs)
    /\ \A k \in Keys : \A i \in DOMAIN runs : InWindow(k, i) =>
        /\ k \in DOMAIN entries /\ ~entries[k].expired
        /\ \A a \in Attempts : attempt[a].at \in {"execute", "release"} => Key(a) # k
    /\ \A k \in Keys : \A i, j \in DOMAIN runs : InWindow(k, i) /\ InWindow(k, j) => i = j

(* What the store, the handlers and the answers report has been run.        *)
IsRun(n, k, b) == n \in DOMAIN runs /\ runs[n] = [key |-> k, body |-> b]
EntriesTrue ==
    \A k \in DOMAIN entries : entries[k].done => IsRun(entries[k].run, k, entries[k].body)
AttemptTrue(a) ==
    /\ attempt[a].at = "complete" => IsRun(attempt[a].run, Key(a), Body(a))
    /\ attempt[a].answer.code = "200" => IsRun(attempt[a].answer.run, Key(a), Body(a))
CallsTrue ==
    \A c \in Clients : call[c].state = "answered" =>
        IsRun(call[c].answer.run, call[c].key, call[c].body)
Truthful == EntriesTrue /\ (\A a \in Attempts : AttemptTrue(a)) /\ CallsTrue

IInv == Alone /\ Kept /\ Truthful
----------------------------------------------------------------------------
LEMMA AppendIs ==
  ASSUME NEW S, NEW s \in Seq(S), NEW e \in S
  PROVE  /\ Append(s, e) \in Seq(S)
         /\ DOMAIN Append(s, e) = DOMAIN s \cup {Len(s) + 1}
         /\ DOMAIN s = 1..Len(s) /\ Len(s) \in Nat
         /\ \A i \in DOMAIN s : Append(s, e)[i] = s[i]
         /\ Append(s, e)[Len(s) + 1] = e
         /\ Len(Append(s, e)) = Len(s) + 1
  OBVIOUS

LEMMA AttemptIs ==
  /\ \A a \in Attempts : a[1] \in Clients /\ a = <<a[1], a[2]>>
  /\ \A c \in Clients, n \in 0..MaxRetries : <<c, n>> \in Attempts /\ <<c, n>>[1] = c
  /\ 0 \in 0..MaxRetries
  /\ \A n \in 0..MaxRetries : n < MaxRetries => n + 1 \in 0..MaxRetries
  BY BoundsAreNat DEF Attempts

LEMMA InitWellTyped == Init => WellTyped
<1> SUFFICES ASSUME Init PROVE WellTyped
  OBVIOUS
<1>1. DOMAIN entries = {} /\ entries \in [DOMAIN entries -> Entry]
  BY DEF Init, NoEntries
<1>2. NoAnswer \in Answer /\ Unsent \in Attempt
  BY DEF NoAnswer, Answer, Unsent, Attempt
<1>3. call \in [Clients -> Call]
  BY <1>2, BoundsAreNat DEF Init, Call
<1>4. attempt \in [Attempts -> Attempt]
  BY <1>2 DEF Init
<1>5. Named
  BY AttemptIs DEF Init, Named
<1> QED
  BY <1>1, <1>3, <1>4, <1>5 DEF Init, WellTyped, TypeOK

\* What a handler does to an attempt keeps it one.
LEMMA AttemptStep ==
  ASSUME TypeOK, NEW a \in Attempts
  PROVE  /\ \A next \in {"get", "claim", "execute", "complete", "release", "over"} :
              Goes(a, next) => attempt' \in [Attempts -> Attempt]
         /\ \A answer \in Answer : Answers(a, answer) => attempt' \in [Attempts -> Attempt]
<1>1. attempt \in [Attempts -> Attempt]
  BY DEF TypeOK
<1>2. ASSUME NEW next \in {"get", "claim", "execute", "complete", "release", "over"}, Goes(a, next)
      PROVE  attempt' \in [Attempts -> Attempt]
  <2>1. [attempt[a] EXCEPT !.at = next] \in Attempt
    BY <1>1 DEF Attempt
  <2> QED
    BY <1>1, <1>2, <2>1 DEF Goes
<1>3. ASSUME NEW answer \in Answer, Answers(a, answer)
      PROVE  attempt' \in [Attempts -> Attempt]
  <2>1. [attempt[a] EXCEPT !.at = "over", !.answer = answer] \in Attempt
    BY <1>1 DEF Attempt
  <2> QED
    BY <1>1, <1>3, <2>1 DEF Answers
<1> QED
  BY <1>2, <1>3

\* The requests a client sends are attempts of its call.
LEMMA RequestIs ==
  ASSUME TypeOK, NEW c \in Clients, NEW n \in 0..MaxRetries, Goes(<<c, n>>, "get")
  PROVE  /\ attempt' \in [Attempts -> Attempt]
         /\ \A a \in Attempts : \/ attempt'[a] = attempt[a]
                                \/ /\ attempt'[a] = [attempt[a] EXCEPT !.at = "get"]
                                   /\ a[1] = c
<1>1. <<c, n>> \in Attempts /\ <<c, n>>[1] = c
  BY AttemptIs
<1>2. attempt' = [attempt EXCEPT ![<<c, n>>].at = "get"]
  BY DEF Goes
<1>3. attempt' \in [Attempts -> Attempt]
  BY <1>1, <1>2 DEF TypeOK, Attempt
<1> QED
  BY <1>1, <1>2, <1>3 DEF TypeOK

\* An attempt that works, or has an answer, has a key and a body.
LEMMA SentIsNamed ==
  ASSUME WellTyped, NEW a \in Attempts, attempt[a] # Unsent
  PROVE  Key(a) \in Keys /\ Body(a) \in Bodies
  BY AttemptIs DEF WellTyped, Named, Key, Body

\* What a step of a client does to its call and its attempts.
ClientStep(c) == (\E k \in Keys, b \in Bodies : Send(c, k, b)) \/ Receive(c) \/ TimeOut(c)

LEMMA RetryIs ==
  ASSUME TypeOK, NEW c \in Clients, RetryOrFail(c), call[c].state # "new"
  PROVE  /\ call' \in [Clients -> Call] /\ call'[c].state # "new"
         /\ call'[c].state \in {call[c].state, "failed"}
         /\ attempt' \in [Attempts -> Attempt]
         /\ \A d \in Clients : /\ d # c => call'[d] = call[d]
                               /\ call'[d].key = call[d].key /\ call'[d].body = call[d].body
         /\ \A a \in Attempts : \/ attempt'[a] = attempt[a]
                                \/ /\ attempt'[a] = [attempt[a] EXCEPT !.at = "get"]
                                   /\ a[1] = c
<1> call \in [Clients -> Call] /\ call[c] \in Call /\ call[c].try \in 0..MaxRetries
  BY DEF TypeOK, Call
<1>1. CASE call[c].try < MaxRetries
  <2>1. call[c].try + 1 \in 0..MaxRetries
    BY <1>1, AttemptIs
  <2>2. call' = [call EXCEPT ![c].try = call[c].try + 1] /\ Goes(<<c, call[c].try + 1>>, "get")
    BY <1>1 DEF RetryOrFail
  <2>3. [call[c] EXCEPT !.try = call[c].try + 1] \in Call
    BY <2>1 DEF Call
  <2>4. call' \in [Clients -> Call]
    BY <2>2, <2>3
  <2>5. /\ attempt' \in [Attempts -> Attempt]
        /\ \A a \in Attempts : \/ attempt'[a] = attempt[a]
                               \/ /\ attempt'[a] = [attempt[a] EXCEPT !.at = "get"]
                                  /\ a[1] = c
    BY <2>1, <2>2, RequestIs
  <2> QED
    BY <2>2, <2>3, <2>4, <2>5 DEF Call
<1>2. CASE ~(call[c].try < MaxRetries)
  <2>1. call' = [call EXCEPT ![c].state = "failed"] /\ attempt' = attempt
    BY <1>2 DEF RetryOrFail
  <2>2. [call[c] EXCEPT !.state = "failed"] \in Call
    BY DEF Call
  <2>3. attempt \in [Attempts -> Attempt]
    BY DEF TypeOK
  <2> QED
    BY <2>1, <2>2, <2>3 DEF Call
<1> QED
  BY <1>1, <1>2

LEMMA SendIs ==
  ASSUME WellTyped, NEW c \in Clients, NEW k \in Keys, NEW b \in Bodies, Send(c, k, b)
  PROVE  /\ call' \in [Clients -> Call]
         /\ call[c].state = "new" /\ call'[c].state = "waiting"
         /\ call'[c].key = k /\ call'[c].body = b
         /\ \A d \in Clients : d # c => call'[d] = call[d]
         /\ attempt' \in [Attempts -> Attempt]
         /\ \A a \in Attempts : \/ attempt'[a] = attempt[a]
                                \/ /\ attempt'[a] = [attempt[a] EXCEPT !.at = "get"]
                                   /\ a[1] = c
         /\ \A a \in Attempts : a[1] = c => attempt[a] = Unsent
<1> call \in [Clients -> Call] /\ call[c] \in Call /\ TypeOK
  BY DEF WellTyped, TypeOK
<1>1. call' = [call EXCEPT ![c].state = "waiting", ![c].key = k, ![c].body = b]
  BY DEF Send
<1>2. [call[c] EXCEPT !.state = "waiting", !.key = k, !.body = b] \in Call
  BY DEF Call
<1>3. call' \in [Clients -> Call]
  BY <1>1, <1>2
<1>4. call[c].state = "new" /\ Goes(<<c, 0>>, "get")
  BY DEF Send
<1>5. /\ attempt' \in [Attempts -> Attempt]
      /\ \A a \in Attempts : \/ attempt'[a] = attempt[a]
                             \/ /\ attempt'[a] = [attempt[a] EXCEPT !.at = "get"]
                                /\ a[1] = c
  BY <1>4, AttemptIs, RequestIs
<1>6. \A a \in Attempts : a[1] = c => attempt[a] = Unsent
  BY <1>4 DEF WellTyped, Named
<1> QED
  BY <1>1, <1>2, <1>3, <1>4, <1>5, <1>6 DEF Call

LEMMA ReceiveIs ==
  ASSUME TypeOK, NEW c \in Clients, Receive(c), ~RetryOrFail(c)
  PROVE  /\ call' \in [Clients -> Call] /\ call[c].state = "waiting" /\ call'[c].state # "new"
         /\ \A d \in Clients : /\ d # c => call'[d] = call[d]
                               /\ call'[d].key = call[d].key /\ call'[d].body = call[d].body
         /\ \/ call'[c].state = "failed"
            \/ /\ call'[c].state = "answered"
               /\ call'[c].answer = attempt[<<c, call[c].try>>].answer
               /\ call'[c].answer.code = "200"
         /\ <<c, call[c].try>> \in Attempts
         /\ attempt' = attempt
<1> DEFINE answer == attempt[<<c, call[c].try>>].answer
<1>1. call \in [Clients -> Call] /\ call[c] \in Call /\ call[c].try \in 0..MaxRetries
  BY DEF TypeOK, Call
<1>2. <<c, call[c].try>> \in Attempts
  BY <1>1, AttemptIs
<1>3. answer \in Answer
  BY <1>2 DEF TypeOK, Attempt
<1>4. PICK s \in {"answered", "failed"} :
        /\ call' = [call EXCEPT ![c].state = s, ![c].answer = answer]
        /\ s = "answered" => answer.code = "200"
  BY DEF Receive
<1>5. [call[c] EXCEPT !.state = s, !.answer = answer] \in Call
  BY <1>1, <1>3 DEF Call
<1>6. call'[c] = [call[c] EXCEPT !.state = s, !.answer = answer]
  BY <1>1, <1>4
<1> HIDE DEF answer
<1>7. call' \in [Clients -> Call] /\ \A d \in Clients : d # c => call'[d] = call[d]
  BY <1>1, <1>4, <1>5
<1>8. /\ call'[c].key = call[c].key /\ call'[c].body = call[c].body
      /\ call'[c].state = s /\ call'[c].answer = answer
  BY <1>1, <1>6 DEF Call
<1>9. call[c].state = "waiting" /\ attempt' = attempt
  BY DEF Receive
<1> QED
  BY <1>2, <1>4, <1>7, <1>8, <1>9 DEF answer

LEMMA NamedStep ==
  ASSUME Named, NEW c \in Clients, call'[c].state # "new",
         call'[c].key \in Keys, call'[c].body \in Bodies,
         \A d \in Clients : d # c => call'[d] = call[d],
         \A a \in Attempts : a[1] # c => attempt'[a] = attempt[a]
  PROVE  Named'
<1>1. ASSUME NEW d \in Clients, call'[d].state # "new"
      PROVE  call'[d].key \in Keys /\ call'[d].body \in Bodies
  BY <1>1 DEF Named
<1>2. ASSUME NEW a \in Attempts, call'[a[1]].state = "new" PROVE attempt'[a] = Unsent
  <2>1. a[1] \in Clients /\ a[1] # c
    BY <1>2, AttemptIs
  <2>2. call[a[1]].state = "new" /\ attempt'[a] = attempt[a]
    BY <1>2, <2>1
  <2> QED
    BY <2>2 DEF Named
<1> QED
  BY <1>1, <1>2 DEF Named

LEMMA ClientIsTyped ==
  ASSUME WellTyped, NEW c \in Clients, ClientStep(c) PROVE WellTyped'
<1>1. ASSUME NEW k \in Keys, NEW b \in Bodies, Send(c, k, b) PROVE WellTyped'
  <2>1. Named'
    <3>1. /\ call'[c].state # "new" /\ call'[c].key = k /\ call'[c].body = b
          /\ \A d \in Clients : d # c => call'[d] = call[d]
          /\ \A a \in Attempts : a[1] # c => attempt'[a] = attempt[a]
      BY <1>1, SendIs
    <3> QED
      BY <3>1, NamedStep DEF WellTyped
  <2>2. UNCHANGED <<entries, clock, runs, since>>
    BY <1>1 DEF Send
  <2> QED
    BY <1>1, <2>1, <2>2, SendIs DEF WellTyped, TypeOK
<1>2. ASSUME RetryOrFail(c), call[c].state # "new", UNCHANGED <<entries, clock, runs, since>>
      PROVE  WellTyped'
  <2>1. Named'
    <3>1. Named /\ TypeOK
      BY DEF WellTyped
    <3>2. call[c].key \in Keys /\ call[c].body \in Bodies
      BY <1>2, <3>1 DEF Named
    <3> QED
      <4>1. /\ call'[c].state # "new" /\ call'[c].key = call[c].key /\ call'[c].body = call[c].body
            /\ \A d \in Clients : d # c => call'[d] = call[d]
            /\ \A a \in Attempts : a[1] # c => attempt'[a] = attempt[a]
        BY <1>2, <3>1, RetryIs
      <4> QED
        BY <3>1, <3>2, <4>1, NamedStep
  <2> QED
    BY <1>2, <2>1, RetryIs DEF WellTyped, TypeOK
<1>3. ASSUME Receive(c), ~RetryOrFail(c) PROVE WellTyped'
  <2>1. Named'
    <3>1. Named /\ TypeOK
      BY DEF WellTyped
    <3>2. call[c].state = "waiting"
      BY <1>3 DEF Receive
    <3>3. call[c].key \in Keys /\ call[c].body \in Bodies
      BY <3>1, <3>2 DEF Named
    <3> QED
      <4>1. /\ call'[c].state # "new" /\ call'[c].key = call[c].key /\ call'[c].body = call[c].body
            /\ \A d \in Clients : d # c => call'[d] = call[d]
            /\ \A a \in Attempts : a[1] # c => attempt'[a] = attempt[a]
        BY <1>3, <3>1, ReceiveIs
      <4> QED
        BY <3>1, <3>3, <4>1, NamedStep
  <2>2. UNCHANGED <<entries, clock, runs, since>>
    BY <1>3 DEF Receive
  <2> QED
    BY <1>3, <2>1, <2>2, ReceiveIs DEF WellTyped, TypeOK
<1> QED
  BY <1>1, <1>2, <1>3 DEF ClientStep, Receive, TimeOut

\* A client's step starts nothing on the server: it leaves an attempt alone, or
\* makes it a request that is not yet worked on.
LEMMA ClientIsQuiet ==
  ASSUME WellTyped, NEW c \in Clients, ClientStep(c), NEW a \in Attempts
  PROVE  /\ attempt[a] # Unsent => Key(a)' = Key(a) /\ Body(a)' = Body(a)
         /\ attempt'[a] = attempt[a] \/ attempt'[a] = [attempt[a] EXCEPT !.at = "get"]
<1>1. a[1] \in Clients
  BY AttemptIs
<1>2. ASSUME NEW k \in Keys, NEW b \in Bodies, Send(c, k, b)
      PROVE  /\ attempt[a] # Unsent => Key(a)' = Key(a) /\ Body(a)' = Body(a)
             /\ attempt'[a] = attempt[a] \/ attempt'[a] = [attempt[a] EXCEPT !.at = "get"]
  BY <1>1, <1>2, SendIs DEF Key, Body
<1>3. ASSUME RetryOrFail(c), call[c].state # "new"
      PROVE  /\ Key(a)' = Key(a) /\ Body(a)' = Body(a)
             /\ attempt'[a] = attempt[a] \/ attempt'[a] = [attempt[a] EXCEPT !.at = "get"]
  BY <1>1, <1>3, RetryIs DEF Key, Body, WellTyped
<1>4. ASSUME Receive(c), ~RetryOrFail(c)
      PROVE  Key(a)' = Key(a) /\ Body(a)' = Body(a) /\ attempt'[a] = attempt[a]
  BY <1>1, <1>4, ReceiveIs DEF Key, Body, WellTyped
<1> QED
  BY <1>2, <1>3, <1>4 DEF ClientStep, Receive, TimeOut
LEMMA ClientKeepsWork ==
  ASSUME WellTyped, NEW c \in Clients, ClientStep(c), NEW a \in Attempts
  PROVE  /\ Working(a)' => /\ Working(a) /\ attempt'[a] = attempt[a]
                           /\ Key(a)' = Key(a) /\ Body(a)' = Body(a)
         /\ attempt'[a].answer = attempt[a].answer
         /\ attempt'[a].answer.code = "200" => Key(a)' = Key(a) /\ Body(a)' = Body(a)
<1>1. attempt[a] \in Attempt
  BY DEF WellTyped, TypeOK
<1>2. CASE attempt'[a] = attempt[a]
  <2>1. CASE attempt[a] = Unsent
    BY <1>2, <2>1 DEF Unsent, Working, NoAnswer
  <2>2. CASE attempt[a] # Unsent
    BY <1>2, <2>2, ClientIsQuiet DEF Working
  <2> QED
    BY <2>1, <2>2
<1>3. CASE attempt'[a] = [attempt[a] EXCEPT !.at = "get"]
  <2>1. attempt'[a].at = "get" /\ attempt'[a].answer = attempt[a].answer
    BY <1>1, <1>3 DEF Attempt
  <2>2. ~Working(a)'
    BY <2>1 DEF Working
  <2>3. CASE attempt[a] = Unsent
    BY <2>1, <2>2, <2>3 DEF Unsent, NoAnswer
  <2>4. CASE attempt[a] # Unsent
    BY <2>1, <2>2, <2>4, ClientIsQuiet
  <2> QED
    BY <2>3, <2>4
<1> QED
  BY <1>2, <1>3, ClientIsQuiet
----------------------------------------------------------------------------
(* The handlers.                                                            *)

\* The store with one entry changed, added or taken away.
LEMMA StoreOps ==
  ASSUME TypeOK
  PROVE  /\ DOMAIN Live \subseteq DOMAIN entries /\ Live \in [DOMAIN Live -> Entry]
         /\ \A k \in DOMAIN entries : k \in DOMAIN Live <=> ~entries[k].expired
         /\ \A k \in DOMAIN Live : Live[k] = entries[k]
         /\ \A k : /\ DOMAIN Without(k) = DOMAIN entries \ {k}
                   /\ Without(k) \in [DOMAIN Without(k) -> Entry]
                   /\ \A j \in DOMAIN entries : j # k => Without(k)[j] = entries[j]
  BY DEF TypeOK, Live, Without, Restrict

\* A store with room for every key has room for one it does not hold.
LEMMA RoomForOne ==
  ASSUME Roomy, TypeOK, NEW k \in Keys, k \notin DOMAIN Live PROVE MakeRoom(Live) = Live
<1>1. DOMAIN Live \subseteq Keys \ {k}
  BY StoreOps DEF TypeOK
<1>2. IsFiniteSet(Keys \ {k}) /\ Cardinality(Keys \ {k}) = Cardinality(Keys) - 1
  BY FS_RemoveElement DEF Roomy
<1>3. Cardinality(DOMAIN Live) <= Cardinality(Keys) - 1
  BY <1>1, <1>2, FS_Subset
<1>4. Cardinality(DOMAIN Live) \in Nat /\ Cardinality(Keys) \in Nat
  BY <1>1, <1>2, FS_Subset, FS_CardinalityType DEF Roomy
<1> QED
  BY <1>3, <1>4, BoundsAreNat DEF Roomy, MakeRoom

LEMMA ClaimedIs ==
  ASSUME TypeOK, NEW a \in Attempts, Key(a) \in Keys, Body(a) \in Bodies,
         NEW store, DOMAIN store \subseteq Keys, store \in [DOMAIN store -> Entry]
  PROVE  /\ DOMAIN Claimed(store, a) = DOMAIN store \cup {Key(a)}
         /\ Claimed(store, a) \in [DOMAIN store \cup {Key(a)} -> Entry]
         /\ \A k \in DOMAIN store : k # Key(a) => Claimed(store, a)[k] = store[k]
         /\ Claimed(store, a)[Key(a)].body = Body(a)
         /\ ~Claimed(store, a)[Key(a)].done /\ ~Claimed(store, a)[Key(a)].expired
<1> DEFINE new == [body |-> Body(a), done |-> FALSE, run |-> 0, expired |-> FALSE,
                   created |-> clock]
<1>1. new \in Entry
  BY DEF TypeOK, Entry
<1>2. Claimed(store, a) =
        [k \in DOMAIN store \cup {Key(a)} |-> IF k = Key(a) THEN new ELSE store[k]]
  BY DEF Claimed
<1>3. Claimed(store, a)[Key(a)] = new
  BY <1>2
<1>4. new.body = Body(a) /\ ~new.done /\ ~new.expired
  OBVIOUS
<1> HIDE DEF new
<1> QED
  BY <1>1, <1>2, <1>3, <1>4

LEMMA MakeRoomIsTyped ==
  ASSUME NEW store, DOMAIN store \subseteq Keys, store \in [DOMAIN store -> Entry]
  PROVE  /\ DOMAIN MakeRoom(store) \subseteq DOMAIN store
         /\ MakeRoom(store) \in [DOMAIN MakeRoom(store) -> Entry]
  BY DEF MakeRoom, Restrict

\* What a handler does to its attempt, and to no other.
LEMMA GoesIs ==
  ASSUME TypeOK, NEW a \in Attempts, NEW next, Goes(a, next)
  PROVE  /\ \A b \in Attempts : b # a => attempt'[b] = attempt[b]
         /\ attempt'[a].at = next /\ attempt'[a].run = attempt[a].run
         /\ attempt'[a].answer = attempt[a].answer
  BY DEF TypeOK, Goes, Attempt
LEMMA AnswersIs ==
  ASSUME TypeOK, NEW a \in Attempts, NEW answer, Answers(a, answer)
  PROVE  /\ \A b \in Attempts : b # a => attempt'[b] = attempt[b]
         /\ attempt'[a].at = "over" /\ attempt'[a].run = attempt[a].run
         /\ attempt'[a].answer = answer
  BY DEF TypeOK, Answers, Attempt

LEMMA HandlerNamed ==
  ASSUME Named, NEW a \in Attempts, attempt[a].at # "unsent", call' = call,
         \A b \in Attempts : b # a => attempt'[b] = attempt[b]
  PROVE  Named'
<1>1. call[a[1]].state # "new"
  BY DEF Named, Unsent
<1>2. ASSUME NEW b \in Attempts, call'[b[1]].state = "new" PROVE attempt'[b] = Unsent
  BY <1>1, <1>2 DEF Named
<1> QED
  BY <1>2 DEF Named

\* An attempt at work has a key and a body.
LEMMA AtWorkIsNamed ==
  ASSUME WellTyped, NEW a \in Attempts, attempt[a].at # "unsent"
  PROVE  Key(a) \in Keys /\ Body(a) \in Bodies
  BY SentIsNamed DEF Unsent

LEMMA CodesAreAnswers ==
  /\ \A s \in {"409", "422", "500"} : Code(s) \in Answer
  /\ \A n \in Nat : Verdict(n) \in Answer
  BY DEF Code, Verdict, Answer

LEMMA HandleWellTyped == ASSUME WellTyped, NEW a \in Attempts, Handle(a) PROVE WellTyped'
<1> TypeOK /\ Named
  BY DEF WellTyped
<1>1. attempt[a].at # "unsent" /\ call' = call /\ since' = since
  BY DEF Handle, Get, Claim, Succeed, Refuse, Raise, Complete, Release
<1>2. Key(a) \in Keys /\ Body(a) \in Bodies
  BY <1>1, AtWorkIsNamed
<1>3. [key |-> Key(a), body |-> Body(a)] \in [key : Keys, body : Bodies]
  BY <1>2
<1>4. /\ runs' \in Seq([key : Keys, body : Bodies])
      /\ DOMAIN entries' \subseteq Keys /\ entries' \in [DOMAIN entries' -> Entry]
      /\ clock' \in Nat
      /\ attempt' \in [Attempts -> Attempt]
      /\ \A b \in Attempts : b # a => attempt'[b] = attempt[b]
  <2>1. CASE Get(a)
    <3>1. CASE Key(a) \in DOMAIN entries /\ entries[Key(a)].done
      <4>1. entries[Key(a)].run \in Nat
        BY <3>1 DEF TypeOK, Entry
      <4>2. PICK answer \in Answer : Answers(a, answer)
        BY <2>1, <3>1, <4>1, CodesAreAnswers DEF Get
      <4> QED
        BY <2>1, <4>2, AttemptStep, AnswersIs DEF Get, TypeOK
    <3>2. CASE ~(Key(a) \in DOMAIN entries /\ entries[Key(a)].done)
      BY <2>1, <3>2, AttemptStep, GoesIs DEF Get, TypeOK
    <3> QED
      BY <3>1, <3>2
  <2>2. CASE Claim(a)
    <3>1. CASE Key(a) \in DOMAIN Live
      <4>1. Code("409") \in Answer
        BY CodesAreAnswers
      <4> QED
        BY <2>2, <3>1, <4>1, AttemptStep, AnswersIs, StoreOps DEF Claim, TypeOK
    <3>2. CASE Key(a) \notin DOMAIN Live
      <4>1. /\ DOMAIN MakeRoom(Live) \subseteq Keys
            /\ MakeRoom(Live) \in [DOMAIN MakeRoom(Live) -> Entry]
        BY StoreOps, MakeRoomIsTyped DEF TypeOK
      <4>2. entries' = Claimed(MakeRoom(Live), a) /\ Goes(a, "execute") /\ clock' = clock + 1
        BY <2>2, <3>2 DEF Claim
      <4>3. DOMAIN entries' \subseteq Keys /\ entries' \in [DOMAIN entries' -> Entry]
        BY <1>2, <4>1, <4>2, ClaimedIs
      <4> QED
        BY <2>2, <4>2, <4>3, AttemptStep, GoesIs DEF Claim, TypeOK
    <3> QED
      BY <3>1, <3>2
  <2>3. CASE Succeed(a)
    <3>1. runs' \in Seq([key : Keys, body : Bodies]) /\ Len(runs') \in Nat
      BY <1>3, <2>3, AppendIs DEF Succeed, TypeOK
    <3>2. attempt \in [Attempts -> Attempt]
      BY DEF TypeOK
    <3>3. [attempt[a] EXCEPT !.at = "complete", !.run = Len(runs')] \in Attempt
      BY <3>1, <3>2 DEF Attempt
    <3> QED
      BY <2>3, <3>1, <3>2, <3>3 DEF Succeed, TypeOK
  <2>4. CASE Refuse(a)
    BY <2>4, AttemptStep, GoesIs DEF Refuse, TypeOK
  <2>5. CASE Raise(a)
    <3>1. runs' \in Seq([key : Keys, body : Bodies])
      <4>1. runs \in Seq([key : Keys, body : Bodies])
        BY DEF TypeOK
      <4>2. CASE runs' = runs
        BY <4>1, <4>2
      <4>3. CASE runs' = Append(runs, [key |-> Key(a), body |-> Body(a)])
        BY <1>3, <4>1, <4>3, AppendIs
      <4> QED
        BY <2>5, <4>2, <4>3 DEF Raise
    <3>2. Code("500") \in Answer
      BY CodesAreAnswers
    <3> QED
      BY <2>5, <3>1, <3>2, AttemptStep, AnswersIs DEF Raise, TypeOK
  <2>6. CASE Complete(a)
    <3>1. attempt[a].run \in Nat
      BY DEF TypeOK, Attempt
    <3>2. \A k \in DOMAIN entries :
            [entries[k] EXCEPT !.done = TRUE, !.run = attempt[a].run] \in Entry
      BY <3>1 DEF TypeOK, Entry
    <3>3. DOMAIN entries' \subseteq Keys /\ entries' \in [DOMAIN entries' -> Entry]
      BY <2>6, <3>2 DEF Complete, TypeOK
    <3>4. Verdict(attempt[a].run) \in Answer
      BY <3>1, CodesAreAnswers
    <3> QED
      BY <2>6, <3>3, <3>4, AttemptStep, AnswersIs DEF Complete, TypeOK
  <2>7. CASE Release(a)
    <3>1. Code("422") \in Answer
      BY CodesAreAnswers
    <3>2. DOMAIN entries' \subseteq Keys /\ entries' \in [DOMAIN entries' -> Entry]
      BY <2>7, StoreOps DEF Release, TypeOK
    <3> QED
      BY <2>7, <3>1, <3>2, AttemptStep, AnswersIs DEF Release, TypeOK
  <2> QED
    BY <2>1, <2>2, <2>3, <2>4, <2>5, <2>6, <2>7 DEF Handle
<1>5. Named'
  BY <1>1, <1>4, HandlerNamed
<1> QED
  BY <1>1, <1>4, <1>5 DEF WellTyped, TypeOK

LEMMA StepWellTyped == WellTyped /\ [Next]_vars => WellTyped'
<1> SUFFICES ASSUME WellTyped, [Next]_vars PROVE WellTyped'
  OBVIOUS
<1>1. ASSUME NEW a \in Attempts, Handle(a) PROVE WellTyped'
  BY <1>1, HandleWellTyped
<1>2. ASSUME NEW c \in Clients, ClientStep(c) PROVE WellTyped'
  BY <1>2, ClientIsTyped
<1>3. ASSUME NEW k \in DOMAIN entries, Age(k) PROVE WellTyped'
  <2>1. [entries[k] EXCEPT !.expired = TRUE] \in Entry
    <3>1. entries[k] \in Entry
      BY DEF WellTyped, TypeOK
    <3> QED
      BY <3>1 DEF Entry
  <2>2. Named'
    BY <1>3 DEF Age, WellTyped, Named
  <2>3. Len(runs) \in Nat
    BY DEF WellTyped, TypeOK
  <2> QED
    BY <1>3, <2>1, <2>2, <2>3 DEF Age, WellTyped, TypeOK
<1>4. CASE Restart
  <2>1. entries' \in [DOMAIN entries' -> Entry] /\ DOMAIN entries' = {}
    BY <1>4 DEF Restart, NoEntries
  <2>2. Len(runs) \in Nat
    BY DEF WellTyped, TypeOK
  <2>3. \A a \in Attempts : [attempt[a] EXCEPT !.at = "over"] \in Attempt /\ attempt[a] \in Attempt
    BY DEF WellTyped, TypeOK, Attempt
  <2>4. Unsent \in Attempt
    BY DEF Unsent, Attempt, NoAnswer, Answer
  <2>5. attempt' \in [Attempts -> Attempt]
    BY <1>4, <2>3, <2>4 DEF Restart
  <2>6. \A a \in Attempts : attempt[a] = Unsent => attempt'[a] = Unsent
    BY <1>4 DEF Restart, Unsent
  <2>7. Named'
    BY <1>4, <2>6 DEF Restart, WellTyped, Named
  <2> QED
    BY <1>4, <2>1, <2>2, <2>5, <2>7 DEF Restart, WellTyped, TypeOK
<1>5. CASE UNCHANGED vars
  BY <1>5 DEF vars, WellTyped, TypeOK, Named
<1> QED
  BY <1>1, <1>2, <1>3, <1>4, <1>5 DEF Next, ClientStep

(* Every reachable state of the calls, the requests and the store is well   *)
(* typed.                                                                   *)
THEOREM IdempotencyTypeCorrect == Spec => []TypeOK
<1>1. Spec => []WellTyped
  BY InitWellTyped, StepWellTyped, PTL DEF Spec
<1>2. WellTyped => TypeOK
  BY DEF WellTyped
<1> QED
  BY <1>1, <1>2, PTL
----------------------------------------------------------------------------
(* A key is held by whoever works on it.                                    *)

LEMMA InitIInv == Init => IInv
<1> SUFFICES ASSUME Init PROVE IInv
  OBVIOUS
<1>1. \A a \in Attempts : attempt[a] = Unsent
  BY DEF Init
<1>2. DOMAIN entries = {} /\ DOMAIN runs = {} /\ Len(runs) = 0 /\ \A k \in Keys : since[k] = 0
  BY DEF Init, NoEntries
<1>3. \A c \in Clients : call[c].state = "new"
  BY DEF Init
<1>4. Alone
  BY <1>1 DEF Alone, Working, Unsent
<1>5. Kept
  BY <1>2 DEF Kept
<1>6. Truthful
  BY <1>1, <1>2, <1>3 DEF Truthful, EntriesTrue, AttemptTrue, CallsTrue, Unsent, NoAnswer
<1> QED
  BY <1>4, <1>5, <1>6 DEF IInv

\* What a handler leaves alone.
LEMMA HandleFrame ==
  ASSUME WellTyped, NEW a \in Attempts, Handle(a)
  PROVE  /\ TypeOK
         /\ call' = call /\ since' = since
         /\ Key(a) \in Keys /\ Body(a) \in Bodies
         /\ \A b \in Attempts : Key(b)' = Key(b) /\ Body(b)' = Body(b)
<1>1. attempt[a].at # "unsent" /\ call' = call /\ since' = since
  BY DEF Handle, Get, Claim, Succeed, Refuse, Raise, Complete, Release
<1> QED
  BY <1>1, AtWorkIsNamed DEF Key, Body, WellTyped

\* The store after a claim that is granted: a new entry among those in their window.
LEMMA GrantIs ==
  ASSUME Roomy, WellTyped, NEW a \in Attempts, Claim(a), Key(a) \notin DOMAIN Live
  PROVE  /\ DOMAIN entries' = DOMAIN Live \cup {Key(a)}
         /\ \A k \in DOMAIN entries : ~entries[k].expired =>
              k \in DOMAIN Live /\ k # Key(a) /\ entries'[k] = entries[k]
         /\ \A k \in DOMAIN Live : k \in DOMAIN entries /\ entries'[k] = entries[k]
         /\ entries'[Key(a)].body = Body(a)
         /\ ~entries'[Key(a)].done /\ ~entries'[Key(a)].expired
         /\ \A b \in Attempts : b # a => attempt'[b] = attempt[b]
         /\ attempt'[a].at = "execute" /\ attempt'[a].run = attempt[a].run
         /\ attempt'[a].answer = attempt[a].answer
<1> TypeOK
  BY DEF WellTyped
<1>1. Key(a) \in Keys /\ Body(a) \in Bodies
  BY AtWorkIsNamed DEF Claim
<1>2. entries' = Claimed(Live, a) /\ Goes(a, "execute")
  BY <1>1, RoomForOne DEF Claim
<1>3. DOMAIN Live \subseteq Keys /\ Live \in [DOMAIN Live -> Entry]
  BY StoreOps DEF TypeOK
<1>4. /\ DOMAIN entries' = DOMAIN Live \cup {Key(a)}
      /\ \A k \in DOMAIN Live : k # Key(a) => entries'[k] = Live[k]
      /\ entries'[Key(a)].body = Body(a)
      /\ ~entries'[Key(a)].done /\ ~entries'[Key(a)].expired
  <2>1. /\ DOMAIN Claimed(Live, a) = DOMAIN Live \cup {Key(a)}
        /\ \A k \in DOMAIN Live : k # Key(a) => Claimed(Live, a)[k] = Live[k]
        /\ Claimed(Live, a)[Key(a)].body = Body(a)
        /\ ~Claimed(Live, a)[Key(a)].done /\ ~Claimed(Live, a)[Key(a)].expired
    BY <1>1, <1>3, ClaimedIs
  <2> QED
    BY <1>2, <2>1
<1>5. \A k \in DOMAIN Live : k \in DOMAIN entries /\ k # Key(a) /\ entries'[k] = entries[k]
  <2>1. \A k \in DOMAIN Live : k # Key(a)
    OBVIOUS
  <2>2. \A k \in DOMAIN Live : k \in DOMAIN entries /\ Live[k] = entries[k]
    BY StoreOps
  <2> QED
    BY <1>4, <2>1, <2>2
<1>6. \A k \in DOMAIN entries : ~entries[k].expired => k \in DOMAIN Live
  BY StoreOps
<1> QED
  BY <1>2, <1>4, <1>5, <1>6, GoesIs

LEMMA RefusedIs ==
  ASSUME WellTyped, NEW a \in Attempts, Claim(a), Key(a) \in DOMAIN Live
  PROVE  /\ DOMAIN entries' \subseteq DOMAIN entries
         /\ \A k \in DOMAIN entries : ~entries[k].expired => k \in DOMAIN entries'
         /\ \A k \in DOMAIN entries' : entries'[k] = entries[k]
         /\ \A b \in Attempts : b # a => attempt'[b] = attempt[b]
         /\ attempt'[a].at = "over" /\ attempt'[a].answer = Code("409")
<1> TypeOK
  BY DEF WellTyped
<1>1. entries' = Live /\ Answers(a, Code("409"))
  BY DEF Claim
<1>2. /\ \A b \in Attempts : b # a => attempt'[b] = attempt[b]
      /\ attempt'[a].at = "over" /\ attempt'[a].answer = Code("409")
  BY <1>1, AnswersIs
<1>3. /\ DOMAIN Live \subseteq DOMAIN entries
      /\ \A k \in DOMAIN entries : ~entries[k].expired => k \in DOMAIN Live
      /\ \A k \in DOMAIN Live : Live[k] = entries[k]
  BY StoreOps
<1> QED
  BY <1>1, <1>2, <1>3

LEMMA CompleteIs ==
  ASSUME WellTyped, Alone, NEW a \in Attempts, Complete(a)
  PROVE  /\ Holds(a) /\ DOMAIN entries' = DOMAIN entries
         /\ \A k \in DOMAIN entries : k # Key(a) => entries'[k] = entries[k]
         /\ \A k \in DOMAIN entries :
              entries'[k].expired = entries[k].expired /\ entries'[k].body = entries[k].body
         /\ entries'[Key(a)].run = attempt[a].run
         /\ \A b \in Attempts : b # a => attempt'[b] = attempt[b]
         /\ attempt'[a].at = "over" /\ attempt'[a].answer = Verdict(attempt[a].run)
<1> TypeOK
  BY DEF WellTyped
<1>1. Holds(a)
  BY DEF Complete, Alone, Working
<1>2. DOMAIN entries' = DOMAIN entries
  BY DEF Complete
<1>3. \A k \in DOMAIN entries : k # Key(a) => entries'[k] = entries[k]
  BY DEF Complete
<1>4. entries[Key(a)] \in Entry
  BY <1>1 DEF Holds, TypeOK
<1>5. entries'[Key(a)] = [entries[Key(a)] EXCEPT !.done = TRUE, !.run = attempt[a].run]
  BY <1>1 DEF Complete, SameBody, Holds
<1>6. /\ entries'[Key(a)].run = attempt[a].run
      /\ entries'[Key(a)].expired = entries[Key(a)].expired
      /\ entries'[Key(a)].body = entries[Key(a)].body
  BY <1>4, <1>5 DEF Entry
<1>7. Answers(a, Verdict(attempt[a].run))
  BY DEF Complete
<1> QED
  BY <1>1, <1>2, <1>3, <1>6, <1>7, AnswersIs

LEMMA ReleaseIs ==
  ASSUME WellTyped, NEW a \in Attempts, Release(a)
  PROVE  /\ DOMAIN entries' = DOMAIN entries \ {Key(a)}
         /\ \A k \in DOMAIN entries' : entries'[k] = entries[k]
         /\ \A b \in Attempts : b # a => attempt'[b] = attempt[b]
         /\ attempt'[a].at = "over" /\ attempt'[a].answer = Code("422")
<1> TypeOK
  BY DEF WellTyped
<1>1. entries' = Without(Key(a)) /\ Answers(a, Code("422"))
  BY DEF Release
<1>2. /\ \A b \in Attempts : b # a => attempt'[b] = attempt[b]
      /\ attempt'[a].at = "over" /\ attempt'[a].answer = Code("422")
  BY <1>1, AnswersIs
<1>3. /\ DOMAIN Without(Key(a)) = DOMAIN entries \ {Key(a)}
      /\ \A k \in DOMAIN entries : k # Key(a) => Without(Key(a))[k] = entries[k]
  BY StoreOps
<1> QED
  BY <1>1, <1>2, <1>3

LEMMA AgeIs ==
  ASSUME WellTyped, NEW k \in DOMAIN entries, Age(k)
  PROVE  /\ DOMAIN entries' = DOMAIN entries
         /\ \A j \in DOMAIN entries : j # k => entries'[j] = entries[j]
         /\ \A j \in DOMAIN entries : /\ entries'[j].done = entries[j].done
                                      /\ entries'[j].run = entries[j].run
                                      /\ entries'[j].body = entries[j].body
         /\ \A j \in Keys : j # k => since'[j] = since[j]
         /\ since'[k] = Len(runs)
         /\ \A a \in Attempts : Working(a) => Key(a) # k
<1>1. entries \in [DOMAIN entries -> Entry] /\ since \in [Keys -> Nat] /\ k \in Keys
  BY DEF WellTyped, TypeOK
<1>2. entries' = [entries EXCEPT ![k].expired = TRUE] /\ since' = [since EXCEPT ![k] = Len(runs)]
  BY DEF Age
<1>3. entries[k] \in Entry
  BY <1>1
<1>4. entries'[k] = [entries[k] EXCEPT !.expired = TRUE]
  BY <1>1, <1>2
<1>5. /\ entries'[k].done = entries[k].done /\ entries'[k].run = entries[k].run
      /\ entries'[k].body = entries[k].body
  BY <1>3, <1>4 DEF Entry
<1> QED
  BY <1>1, <1>2, <1>5 DEF Age

LEMMA HandleAlone ==
  ASSUME Roomy, WellTyped, Alone, NEW a \in Attempts, Handle(a) PROVE Alone'
<1>1. \A b \in Attempts : Key(b)' = Key(b) /\ Body(b)' = Body(b)
  BY HandleFrame
<1>2. ASSUME \A b \in Attempts : Working(b)' => Working(b),
             \A b \in Attempts : Working(b)' =>
                Key(b) \in DOMAIN entries' /\ entries'[Key(b)] = entries[Key(b)]
      PROVE  Alone'
  BY <1>1, <1>2 DEF Alone, Holds
<1>3. TypeOK
  BY DEF WellTyped
<1>4. \A b \in Attempts : Working(b) => Key(b) \in DOMAIN entries /\ ~entries[Key(b)].expired
  BY DEF Alone, Holds
<1>5. \A b \in Attempts : Working(b) /\ b # a /\ Working(a) => Key(b) # Key(a)
  BY DEF Alone
<1>6. CASE Get(a)
  <2>1. entries' = entries
    BY <1>6 DEF Get
  <2>2. /\ attempt'[a].at \in {"claim", "over"}
        /\ \A b \in Attempts : b # a => attempt'[b] = attempt[b]
    BY <1>3, <1>6, AnswersIs, GoesIs DEF Get
  <2> QED
    BY <1>2, <1>4, <2>1, <2>2 DEF Working
<1>7. CASE Claim(a) /\ Key(a) \in DOMAIN Live
  BY <1>2, <1>4, <1>7, RefusedIs DEF Working
<1>8. CASE Claim(a) /\ Key(a) \notin DOMAIN Live
  <2>1. \A b \in Attempts : b # a /\ Working(b)' => Working(b)
    BY <1>8, GrantIs DEF Working
  <2>2. ASSUME NEW b \in Attempts, Working(b)'
        PROVE  Holds(b)' /\ (b # a => Key(b) # Key(a))
    <3>1. CASE b = a
      BY <1>1, <1>8, <3>1, GrantIs DEF Holds
    <3>2. CASE b # a
      <4>1. Holds(b)
        BY <2>1, <2>2, <3>2 DEF Alone
      <4>2. /\ Key(b) \in DOMAIN Live /\ Key(b) # Key(a)
            /\ Key(b) \in DOMAIN entries' /\ entries'[Key(b)] = entries[Key(b)]
        BY <1>8, <4>1, GrantIs DEF Holds
      <4> QED
        BY <1>1, <4>1, <4>2 DEF Holds
    <3> QED
      BY <3>1, <3>2
  <2>3. ASSUME NEW b \in Attempts, NEW c \in Attempts, Working(b)', Working(c)', Key(c) = Key(b)
        PROVE  c = b
    BY <2>1, <2>2, <2>3 DEF Alone
  <2> QED
    BY <1>1, <2>2, <2>3 DEF Alone
<1>9. CASE Succeed(a) \/ Refuse(a)
  <2>1. entries' = entries /\ Working(a)
    BY <1>9 DEF Succeed, Refuse, Working
  <2>2. \A b \in Attempts : b # a => attempt'[b] = attempt[b]
    BY <1>3, <1>9, GoesIs DEF Succeed, Refuse, TypeOK
  <2> QED
    BY <1>2, <1>4, <2>1, <2>2 DEF Working
<1>10. CASE Raise(a)
  BY <1>2, <1>3, <1>4, <1>10, AnswersIs DEF Raise, Working
<1>11. CASE Complete(a)
  <2>1. Working(a)
    BY <1>11 DEF Complete, Working
  <2> QED
    BY <1>2, <1>4, <1>5, <1>11, <2>1, CompleteIs DEF Working
<1>12. CASE Release(a)
  <2>1. Working(a)
    BY <1>12 DEF Release, Working
  <2> QED
    BY <1>2, <1>4, <1>5, <1>12, <2>1, ReleaseIs DEF Working
<1> QED
  BY <1>6, <1>7, <1>8, <1>9, <1>10, <1>11, <1>12 DEF Handle

LEMMA StepAlone == Roomy /\ WellTyped /\ Alone /\ [Next]_vars => Alone'
<1> SUFFICES ASSUME Roomy, WellTyped, Alone, [Next]_vars PROVE Alone'
  OBVIOUS
<1>1. ASSUME NEW a \in Attempts, Handle(a) PROVE Alone'
  BY <1>1, HandleAlone
<1>2. ASSUME NEW c \in Clients, ClientStep(c) PROVE Alone'
  <2>1. entries' = entries
    BY <1>2 DEF ClientStep, Send, Receive, TimeOut
  <2>2. ASSUME NEW a \in Attempts, Working(a)'
        PROVE  Working(a) /\ Key(a)' = Key(a) /\ Body(a)' = Body(a)
    BY <1>2, <2>2, ClientKeepsWork
  <2> QED
    BY <2>1, <2>2 DEF Alone, Holds
<1>3. ASSUME NEW k \in DOMAIN entries, Age(k) PROVE Alone'
  <2>1. attempt' = attempt /\ call' = call
    BY <1>3 DEF Age
  <2>2. \A a \in Attempts : Working(a) =>
          Key(a) \in DOMAIN entries' /\ entries'[Key(a)] = entries[Key(a)]
    BY <1>3, AgeIs DEF Alone, Holds
  <2> QED
    BY <2>1, <2>2 DEF Alone, Holds, Working, Key, Body
<1>4. CASE Restart
  BY <1>4 DEF Restart, Alone, Working, Unsent
<1>5. CASE UNCHANGED vars
  BY <1>5 DEF vars, Alone, Holds, Working, Key, Body
<1> QED
  BY <1>1, <1>2, <1>3, <1>4, <1>5 DEF Next, ClientStep
----------------------------------------------------------------------------
(* A key runs once in its window.                                           *)

\* A run more: it opens no window and leaves those of other keys alone.
LEMMA RunIs ==
  ASSUME WellTyped, Kept, NEW a \in Attempts, Key(a) \in Keys, Body(a) \in Bodies,
         runs' = Append(runs, [key |-> Key(a), body |-> Body(a)])
  PROVE  /\ DOMAIN runs' = DOMAIN runs \cup {Len(runs) + 1} /\ Len(runs') = Len(runs) + 1
         /\ Len(runs) + 1 \notin DOMAIN runs /\ Len(runs) \in Nat
         /\ \A i \in DOMAIN runs : runs'[i] = runs[i]
         /\ runs'[Len(runs) + 1] = [key |-> Key(a), body |-> Body(a)]
<1>1. runs \in Seq([key : Keys, body : Bodies])
  BY DEF WellTyped, TypeOK
<1>2. [key |-> Key(a), body |-> Body(a)] \in [key : Keys, body : Bodies]
  OBVIOUS
<1>3. Len(runs) + 1 \notin DOMAIN runs
  BY <1>1
<1> QED
  BY <1>1, <1>2, <1>3, AppendIs

\* A step without a run, after which the store has what it had within the windows.
LEMMA NoRunKept ==
  ASSUME WellTyped, Kept, runs' = runs,
         \A k \in Keys : since'[k] = since[k] \/ since'[k] = Len(runs),
         \A k \in Keys, i \in DOMAIN runs : InWindow(k, i) /\ since'[k] = since[k] =>
            /\ k \in DOMAIN entries' /\ ~entries'[k].expired
            /\ \A a \in Attempts : attempt'[a].at \in {"execute", "release"} => Key(a)' # k
  PROVE  Kept'
<1>1. Len(runs) \in Nat /\ DOMAIN runs = 1..Len(runs)
  BY DEF WellTyped, TypeOK
<1>2. since \in [Keys -> Nat]
  BY DEF WellTyped, TypeOK
<1>3. \A k \in Keys : since'[k] <= Len(runs')
  BY <1>1, <1>2 DEF Kept
<1>4. ASSUME NEW k \in Keys, NEW i \in DOMAIN runs, InWindow(k, i)'
      PROVE  InWindow(k, i) /\ since'[k] = since[k]
  BY <1>1, <1>4 DEF InWindow
<1> QED
  BY <1>3, <1>4 DEF Kept

LEMMA RunKept ==
  ASSUME WellTyped, Alone, Kept, NEW a \in Attempts, Key(a) \in Keys, Body(a) \in Bodies,
         attempt[a].at = "execute", attempt'[a].at \in {"complete", "over"},
         runs' = Append(runs, [key |-> Key(a), body |-> Body(a)]),
         UNCHANGED <<entries, since, call>>,
         \A b \in Attempts : b # a => attempt'[b] = attempt[b]
  PROVE  Kept'
<1> DEFINE last == Len(runs) + 1
<1>1. /\ DOMAIN runs' = DOMAIN runs \cup {last} /\ Len(runs') = last
      /\ last \notin DOMAIN runs /\ Len(runs) \in Nat
      /\ \A i \in DOMAIN runs : runs'[i] = runs[i]
      /\ runs'[last] = [key |-> Key(a), body |-> Body(a)]
  BY RunIs
<1>2. \A k \in Keys : since'[k] = since[k] /\ since[k] \in Nat /\ since[k] <= Len(runs)
  BY DEF WellTyped, TypeOK, Kept
<1>3. \A b \in Attempts : Key(b)' = Key(b)
  BY DEF Key
<1>4. \A i \in DOMAIN runs : ~InWindow(Key(a), i)
  BY DEF Kept
<1> HIDE DEF last
<1>5. ASSUME NEW k \in Keys, NEW i \in DOMAIN runs', InWindow(k, i)'
      PROVE  \/ i = last /\ k = Key(a)
             \/ i \in DOMAIN runs /\ k # Key(a) /\ InWindow(k, i)
  <2>1. CASE i = last
    BY <1>1, <1>5, <2>1 DEF InWindow
  <2>2. CASE i # last
    BY <1>1, <1>2, <1>4, <1>5, <2>2 DEF InWindow
  <2> QED
    BY <2>1, <2>2
<1>6. Holds(a) /\ \A b \in Attempts : Working(b) /\ Key(b) = Key(a) => b = a
  BY DEF Alone, Working
<1>7. \A b \in Attempts : attempt'[b].at \in {"execute", "release"} =>
        Key(b)' # Key(a) /\ attempt[b].at \in {"execute", "release"}
  BY <1>3, <1>6 DEF Working
<1>8. ASSUME NEW k \in Keys, NEW i \in DOMAIN runs', InWindow(k, i)'
      PROVE  /\ k \in DOMAIN entries' /\ ~entries'[k].expired
             /\ \A b \in Attempts : attempt'[b].at \in {"execute", "release"} => Key(b)' # k
  <2>1. CASE i = last /\ k = Key(a)
    BY <1>6, <1>7, <2>1 DEF Holds
  <2>2. CASE i \in DOMAIN runs /\ k # Key(a) /\ InWindow(k, i)
    BY <1>3, <1>7, <2>2 DEF Kept
  <2> QED
    BY <1>5, <1>8, <2>1, <2>2
<1>9. ASSUME NEW k \in Keys, NEW i \in DOMAIN runs', NEW j \in DOMAIN runs',
             InWindow(k, i)', InWindow(k, j)'
      PROVE  i = j
  BY <1>5, <1>9 DEF Kept
<1>10. \A k \in Keys : since'[k] <= Len(runs')
  BY <1>1, <1>2
<1> QED
  BY <1>8, <1>9, <1>10 DEF Kept

LEMMA HandleKept ==
  ASSUME Roomy, WellTyped, Alone, Kept, NEW a \in Attempts, Handle(a) PROVE Kept'
<1> TypeOK
  BY DEF WellTyped
<1>1. /\ call' = call /\ since' = since /\ Key(a) \in Keys /\ Body(a) \in Bodies
      /\ \A b \in Attempts : Key(b)' = Key(b)
  BY HandleFrame
<1>2. \A k \in Keys, i \in DOMAIN runs : InWindow(k, i) =>
        /\ k \in DOMAIN entries /\ ~entries[k].expired
        /\ \A b \in Attempts : attempt[b].at \in {"execute", "release"} => Key(b) # k
  BY DEF Kept
<1>3. CASE Get(a)
  <2>1. /\ attempt'[a].at \in {"claim", "over"}
        /\ \A b \in Attempts : b # a => attempt'[b] = attempt[b]
    BY <1>3, AnswersIs, GoesIs DEF Get
  <2> QED
    BY <1>1, <1>2, <1>3, <2>1, NoRunKept DEF Get
<1>4. CASE Claim(a) /\ Key(a) \in DOMAIN Live
  <2>1. runs' = runs
    BY <1>4 DEF Claim
  <2> QED
    BY <1>1, <1>2, <1>4, <2>1, RefusedIs, NoRunKept
<1>5. CASE Claim(a) /\ Key(a) \notin DOMAIN Live
  <2>1. runs' = runs
    BY <1>5 DEF Claim
  <2>2. ASSUME NEW k \in Keys, NEW i \in DOMAIN runs, InWindow(k, i)
        PROVE  /\ k \in DOMAIN entries' /\ ~entries'[k].expired /\ k # Key(a)
               /\ \A b \in Attempts : attempt'[b].at \in {"execute", "release"} => Key(b)' # k
    <3>1. k \in DOMAIN entries' /\ ~entries'[k].expired /\ k # Key(a)
      BY <1>2, <1>5, <2>2, GrantIs
    <3> QED
      <4>1. \A b \in Attempts : attempt[b].at \in {"execute", "release"} => Key(b) # k
        BY <1>2, <2>2
      <4>2. \A b \in Attempts : b # a => attempt'[b] = attempt[b]
        BY <1>5, GrantIs
      <4> QED
        BY <1>1, <3>1, <4>1, <4>2
  <2> QED
    BY <1>1, <2>1, <2>2, NoRunKept
<1>6. CASE Succeed(a)
  <2>1. attempt'[a].at = "complete" /\ \A b \in Attempts : b # a => attempt'[b] = attempt[b]
    BY <1>6 DEF Succeed, TypeOK, Attempt
  <2> QED
    BY <1>1, <1>6, <2>1, RunKept DEF Succeed
<1>7. CASE Refuse(a)
  <2>1. /\ attempt[a].at = "execute" /\ attempt'[a].at = "release"
        /\ \A b \in Attempts : b # a => attempt'[b] = attempt[b]
    BY <1>7, GoesIs DEF Refuse
  <2> QED
    BY <1>1, <1>2, <1>7, <2>1, NoRunKept DEF Refuse
<1>8. CASE Raise(a)
  <2>1. attempt'[a].at = "over" /\ \A b \in Attempts : b # a => attempt'[b] = attempt[b]
    BY <1>8, AnswersIs DEF Raise
  <2>2. CASE runs' = runs
    BY <1>1, <1>2, <1>8, <2>1, <2>2, NoRunKept DEF Raise
  <2>3. CASE runs' = Append(runs, [key |-> Key(a), body |-> Body(a)])
    BY <1>1, <1>8, <2>1, <2>3, RunKept DEF Raise
  <2> QED
    BY <1>8, <2>2, <2>3 DEF Raise
<1>9. CASE Complete(a)
  <2>1. runs' = runs
    BY <1>9 DEF Complete
  <2> QED
    BY <1>1, <1>2, <1>9, <2>1, CompleteIs, NoRunKept
<1>10. CASE Release(a)
  <2>1. runs' = runs /\ attempt[a].at = "release"
    BY <1>10 DEF Release
  <2> QED
    BY <1>1, <1>2, <1>10, <2>1, ReleaseIs, NoRunKept
<1> QED
  BY <1>3, <1>4, <1>5, <1>6, <1>7, <1>8, <1>9, <1>10 DEF Handle

LEMMA StepKept == Roomy /\ WellTyped /\ Alone /\ Kept /\ [Next]_vars => Kept'
<1> SUFFICES ASSUME Roomy, WellTyped, Alone, Kept, [Next]_vars PROVE Kept'
  OBVIOUS
<1>1. \A k \in Keys, i \in DOMAIN runs : InWindow(k, i) =>
        /\ k \in DOMAIN entries /\ ~entries[k].expired
        /\ \A a \in Attempts : attempt[a].at \in {"execute", "release"} => Key(a) # k
  BY DEF Kept
<1>2. ASSUME NEW a \in Attempts, Handle(a) PROVE Kept'
  BY <1>2, HandleKept
<1>3. ASSUME NEW c \in Clients, ClientStep(c) PROVE Kept'
  <2>1. UNCHANGED <<entries, runs, since>>
    BY <1>3 DEF ClientStep, Send, Receive, TimeOut
  <2>2. ASSUME NEW a \in Attempts, attempt'[a].at \in {"execute", "release"}
        PROVE  attempt[a].at \in {"execute", "release"} /\ Key(a)' = Key(a)
    BY <1>3, <2>2, ClientKeepsWork DEF Working
  <2> QED
    BY <1>1, <2>1, <2>2, NoRunKept
<1>4. ASSUME NEW k \in DOMAIN entries, Age(k) PROVE Kept'
  <2>1. UNCHANGED <<call, attempt, runs>> /\ k \in Keys
    BY <1>4 DEF Age, WellTyped, TypeOK
  <2>2. \A a \in Attempts : Key(a)' = Key(a)
    BY <2>1 DEF Key
  <2>3. ASSUME NEW j \in Keys, NEW i \in DOMAIN runs, InWindow(j, i), since'[j] = since[j]
        PROVE  j # k
    <3>1. i > since[j]
      BY <2>3 DEF InWindow
    <3>2. since[j] \in Nat
      BY DEF WellTyped, TypeOK
    <3>4. Len(runs) \in Nat /\ i \in 1..Len(runs)
      BY DEF WellTyped, TypeOK
    <3>3. since'[k] = Len(runs)
      BY <1>4, AgeIs
    <3> QED
      BY <2>3, <3>1, <3>2, <3>3, <3>4
  <2>4. \A j \in Keys : since'[j] = since[j] \/ since'[j] = Len(runs)
    BY <1>4, AgeIs
  <2>5. \A j \in DOMAIN entries : j # k => j \in DOMAIN entries' /\ entries'[j] = entries[j]
    BY <1>4, AgeIs
  <2> QED
    BY <1>1, <2>1, <2>2, <2>3, <2>4, <2>5, NoRunKept
<1>5. CASE Restart
  <2>1. runs' = runs /\ \A k \in Keys : since'[k] = Len(runs)
    BY <1>5 DEF Restart
  <2>2. Len(runs) \in Nat /\ DOMAIN runs = 1..Len(runs)
    BY DEF WellTyped, TypeOK
  <2>3. \A k \in Keys : \A i \in DOMAIN runs' : ~InWindow(k, i)'
    BY <2>1, <2>2 DEF InWindow
  <2> QED
    BY <2>1, <2>2, <2>3 DEF Kept
<1>6. CASE UNCHANGED vars
  BY <1>6 DEF vars, Kept, InWindow, Key
<1> QED
  BY <1>2, <1>3, <1>4, <1>5, <1>6 DEF Next, ClientStep
----------------------------------------------------------------------------
(* A verdict is that of a run of the caller's key and body.                 *)

\* What was a run stays one.
LEMMA RunsStay ==
  ASSUME WellTyped, [Next]_vars, NEW n \in DOMAIN runs
  PROVE  n \in DOMAIN runs' /\ runs'[n] = runs[n]
<1>1. ASSUME NEW a \in Attempts, Handle(a), runs' # runs
      PROVE  n \in DOMAIN runs' /\ runs'[n] = runs[n]
  <2>1. runs' = Append(runs, [key |-> Key(a), body |-> Body(a)])
    BY <1>1 DEF Handle, Get, Claim, Succeed, Refuse, Raise, Complete, Release
  <2>2. [key |-> Key(a), body |-> Body(a)] \in [key : Keys, body : Bodies]
    BY <1>1, HandleFrame
  <2>3. runs \in Seq([key : Keys, body : Bodies])
    BY DEF WellTyped, TypeOK
  <2> QED
    BY <2>1, <2>2, <2>3, AppendIs
<1>2. CASE \A a \in Attempts : ~Handle(a)
  BY <1>2 DEF Next, vars, Send, Receive, TimeOut, Age, Restart
<1> QED
  BY <1>1, <1>2

\* However full the store: what a claim leaves in it is its own entry, which is not
\* done, and entries that were there.
LEMMA ClaimAddsItsOwn ==
  ASSUME WellTyped, NEW a \in Attempts, Claim(a), Key(a) \notin DOMAIN Live
  PROVE  /\ ~entries'[Key(a)].done
         /\ \A k \in DOMAIN entries' : k # Key(a) =>
               k \in DOMAIN entries /\ entries'[k] = entries[k]
         /\ attempt'[a].at = "execute" /\ attempt'[a].answer = attempt[a].answer
         /\ \A b \in Attempts : b # a => attempt'[b] = attempt[b]
<1> DEFINE store == MakeRoom(Live)
<1> TypeOK
  BY DEF WellTyped
<1>1. Key(a) \in Keys /\ Body(a) \in Bodies
  BY AtWorkIsNamed DEF Claim
<1>2. entries' = Claimed(store, a) /\ Goes(a, "execute")
  BY DEF Claim
<1>3. DOMAIN Live \subseteq Keys /\ Live \in [DOMAIN Live -> Entry]
  BY StoreOps DEF TypeOK
<1>4. DOMAIN store \subseteq DOMAIN Live /\ store \in [DOMAIN store -> Entry]
  BY <1>3, MakeRoomIsTyped
<1>5. \A k \in DOMAIN store : k \in DOMAIN entries /\ store[k] = entries[k]
  <2>1. \A k \in DOMAIN store : store[k] = Live[k]
    BY <1>3, <1>4 DEF MakeRoom, Restrict
  <2> QED
    BY <1>4, <2>1, StoreOps
<1> HIDE DEF store
<1>6. /\ DOMAIN Claimed(store, a) = DOMAIN store \cup {Key(a)}
      /\ \A k \in DOMAIN store : k # Key(a) => Claimed(store, a)[k] = store[k]
      /\ ~Claimed(store, a)[Key(a)].done
  BY <1>1, <1>3, <1>4, ClaimedIs
<1> QED
  BY <1>2, <1>5, <1>6, GoesIs

\* complete settles an entry of its own key and body, or none.
LEMMA CompleteSettlesItsOwn ==
  ASSUME WellTyped, NEW a \in Attempts, Complete(a)
  PROVE  /\ DOMAIN entries' = DOMAIN entries
         /\ \A k \in DOMAIN entries :
               \/ entries'[k] = entries[k]
               \/ /\ k = Key(a) /\ entries'[k].body = Body(a)
                  /\ entries'[k].run = attempt[a].run
         /\ \A b \in Attempts : b # a => attempt'[b] = attempt[b]
         /\ attempt'[a].at = "over" /\ attempt'[a].answer = Verdict(attempt[a].run)
<1> TypeOK
  BY DEF WellTyped
<1>1. DOMAIN entries' = DOMAIN entries /\ Answers(a, Verdict(attempt[a].run))
  BY DEF Complete
<1>2. ASSUME NEW k \in DOMAIN entries, entries'[k] # entries[k]
      PROVE  /\ k = Key(a) /\ entries'[k].body = Body(a)
             /\ entries'[k].run = attempt[a].run
  <2>1. k = Key(a) /\ entries[k].body = Body(a)
    BY <1>2 DEF Complete, SameBody
  <2>2. entries'[k] = [entries[k] EXCEPT !.done = TRUE, !.run = attempt[a].run]
    BY <2>1 DEF Complete, SameBody
  <2>3. entries[k] \in Entry
    BY DEF TypeOK
  <2> QED
    BY <2>1, <2>2, <2>3 DEF Entry
<1> QED
  BY <1>1, <1>2, AnswersIs

LEMMA HandleTruthful ==
  ASSUME WellTyped, Truthful, NEW a \in Attempts, Handle(a) PROVE Truthful'
<1> TypeOK
  BY DEF WellTyped
<1>1. /\ call' = call /\ since' = since /\ Key(a) \in Keys /\ Body(a) \in Bodies
      /\ \A b \in Attempts : Key(b)' = Key(b) /\ Body(b)' = Body(b)
  BY HandleFrame
<1>2. \A n \in DOMAIN runs : n \in DOMAIN runs' /\ runs'[n] = runs[n]
  BY RunsStay DEF Next
<1>3. EntriesTrue /\ CallsTrue /\ \A b \in Attempts : AttemptTrue(b)
  BY DEF Truthful
<1>4. CallsTrue'
  BY <1>1, <1>2, <1>3 DEF CallsTrue, IsRun
<1>5. \A b \in Attempts : b # a => attempt'[b] = attempt[b]
  <2>1. CASE Get(a) \/ Refuse(a) \/ Raise(a)
    BY <2>1, AnswersIs, GoesIs DEF Get, Refuse, Raise
  <2>2. CASE Succeed(a)
    BY <2>2 DEF Succeed, TypeOK
  <2>3. CASE Claim(a)
    BY <2>3, ClaimAddsItsOwn, RefusedIs
  <2> QED
    BY <2>1, <2>2, <2>3, CompleteSettlesItsOwn, ReleaseIs DEF Handle
<1>6. \A b \in Attempts : b # a => AttemptTrue(b)'
  BY <1>1, <1>2, <1>3, <1>5 DEF AttemptTrue, IsRun
<1>7. ASSUME NEW k \in DOMAIN entries, k \in DOMAIN entries',
             entries'[k] = entries[k], entries'[k].done
      PROVE  /\ entries'[k].run \in DOMAIN runs'
             /\ runs'[entries'[k].run] = [key |-> k, body |-> entries'[k].body]
  BY <1>2, <1>3, <1>7 DEF EntriesTrue, IsRun
<1>8. EntriesTrue' /\ AttemptTrue(a)'
  <2>1. CASE Get(a)
    <3>1. entries' = entries
      BY <2>1 DEF Get
    <3>2. EntriesTrue'
      BY <1>7, <3>1 DEF EntriesTrue, IsRun
    <3>3. CASE Key(a) \in DOMAIN entries /\ entries[Key(a)].done /\ entries[Key(a)].body = Body(a)
      <4>1. Answers(a, Verdict(entries[Key(a)].run))
        BY <2>1, <3>3 DEF Get, SameBody
      <4>2. attempt'[a].at = "over" /\ attempt'[a].answer = Verdict(entries[Key(a)].run)
        BY <4>1, AnswersIs
      <4>3. IsRun(entries[Key(a)].run, Key(a), Body(a))
        BY <1>3, <3>3 DEF EntriesTrue, IsRun
      <4> QED
        BY <1>1, <1>2, <3>2, <4>2, <4>3 DEF AttemptTrue, IsRun, Verdict
    <3>4. CASE ~(/\ Key(a) \in DOMAIN entries /\ entries[Key(a)].done
                 /\ entries[Key(a)].body = Body(a))
      <4>1. Answers(a, Code("422")) \/ Goes(a, "claim")
        BY <2>1, <3>4 DEF Get, SameBody
      <4>2. /\ attempt'[a].at # "complete"
            /\ attempt'[a].answer \in {Code("422"), attempt[a].answer}
        BY <4>1, AnswersIs, GoesIs
      <4> QED
        BY <1>1, <1>2, <1>3, <3>2, <4>2 DEF AttemptTrue, IsRun, Code
    <3> QED
      BY <3>3, <3>4
  <2>2. CASE Claim(a) /\ Key(a) \in DOMAIN Live
    <3>1. EntriesTrue'
      BY <1>7, <2>2, RefusedIs DEF EntriesTrue, IsRun
    <3>2. attempt'[a].at = "over" /\ attempt'[a].answer = Code("409")
      BY <2>2, RefusedIs
    <3> QED
      BY <3>1, <3>2 DEF AttemptTrue, IsRun, Code
  <2>3. CASE Claim(a) /\ Key(a) \notin DOMAIN Live
    <3>1. /\ ~entries'[Key(a)].done
          /\ \A k \in DOMAIN entries' : k # Key(a) =>
                k \in DOMAIN entries /\ entries'[k] = entries[k]
      BY <2>3, ClaimAddsItsOwn
    <3>2. EntriesTrue'
      BY <1>7, <3>1 DEF EntriesTrue, IsRun
    <3>3. attempt'[a].at = "execute" /\ attempt'[a].answer = attempt[a].answer
      BY <2>3, ClaimAddsItsOwn
    <3> QED
      BY <1>1, <1>2, <1>3, <3>2, <3>3 DEF AttemptTrue, IsRun
  <2>4. CASE Succeed(a)
    <3>1. entries' = entries
      BY <2>4 DEF Succeed
    <3>2. EntriesTrue'
      BY <1>7, <3>1 DEF EntriesTrue, IsRun
    <3>3. attempt'[a].answer = attempt[a].answer /\ attempt'[a].run = Len(runs')
      BY <2>4 DEF Succeed, TypeOK, Attempt
    <3>4. [key |-> Key(a), body |-> Body(a)] \in [key : Keys, body : Bodies]
      BY <1>1
    <3>5. runs' = Append(runs, [key |-> Key(a), body |-> Body(a)])
      BY <2>4 DEF Succeed
    <3>6. Len(runs') \in DOMAIN runs' /\ runs'[Len(runs')] = [key |-> Key(a), body |-> Body(a)]
      <4>1. runs \in Seq([key : Keys, body : Bodies])
        BY DEF TypeOK
      <4> QED
        BY <3>4, <3>5, <4>1, AppendIs
    <3> QED
      BY <1>1, <1>2, <1>3, <3>2, <3>3, <3>6 DEF AttemptTrue, IsRun
  <2>5. CASE Refuse(a)
    <3>1. entries' = entries /\ attempt'[a].at = "release" /\ attempt'[a].answer = attempt[a].answer
      BY <2>5, GoesIs DEF Refuse
    <3>2. EntriesTrue'
      BY <1>7, <3>1 DEF EntriesTrue, IsRun
    <3> QED
      BY <1>1, <1>2, <1>3, <3>1, <3>2 DEF AttemptTrue, IsRun
  <2>6. CASE Raise(a)
    <3>1. entries' = entries /\ attempt'[a].at = "over" /\ attempt'[a].answer = Code("500")
      BY <2>6, AnswersIs DEF Raise
    <3>2. EntriesTrue'
      BY <1>7, <3>1 DEF EntriesTrue, IsRun
    <3> QED
      BY <3>1, <3>2 DEF AttemptTrue, IsRun, Code
  <2>7. CASE Complete(a)
    <3>1. IsRun(attempt[a].run, Key(a), Body(a))
      BY <1>3, <2>7 DEF Complete, AttemptTrue
    <3>3. EntriesTrue'
      BY <1>2, <1>7, <2>7, <3>1, CompleteSettlesItsOwn DEF EntriesTrue, IsRun
    <3>4. attempt'[a].at = "over" /\ attempt'[a].answer = Verdict(attempt[a].run)
      BY <2>7, CompleteSettlesItsOwn
    <3> QED
      BY <1>1, <1>2, <3>1, <3>3, <3>4 DEF AttemptTrue, IsRun, Verdict
  <2>8. CASE Release(a)
    <3>1. EntriesTrue'
      BY <1>7, <2>8, ReleaseIs DEF EntriesTrue, IsRun
    <3>2. attempt'[a].at = "over" /\ attempt'[a].answer = Code("422")
      BY <2>8, ReleaseIs
    <3> QED
      BY <3>1, <3>2 DEF AttemptTrue, IsRun, Code
  <2> QED
    BY <2>1, <2>2, <2>3, <2>4, <2>5, <2>6, <2>7, <2>8 DEF Handle
<1>9. \A b \in Attempts : AttemptTrue(b)'
  BY <1>6, <1>8
<1> QED
  BY <1>4, <1>8, <1>9 DEF Truthful

LEMMA ClientTruthful ==
  ASSUME WellTyped, Truthful, NEW c \in Clients, ClientStep(c) PROVE Truthful'
<1> TypeOK
  BY DEF WellTyped
<1>1. EntriesTrue /\ CallsTrue /\ \A a \in Attempts : AttemptTrue(a)
  BY DEF Truthful
<1>2. UNCHANGED <<entries, runs>>
  BY DEF ClientStep, Send, Receive, TimeOut
<1>3. EntriesTrue'
  BY <1>1, <1>2 DEF EntriesTrue, IsRun
<1>4. ASSUME NEW a \in Attempts PROVE AttemptTrue(a)'
  <2>1. AttemptTrue(a)
    BY <1>1
  <2>2. CASE attempt'[a].at = "complete"
    BY <1>2, <2>1, <2>2, ClientKeepsWork DEF AttemptTrue, IsRun, Working
  <2>3. CASE attempt'[a].at # "complete"
    BY <1>2, <2>1, <2>3, ClientKeepsWork DEF AttemptTrue, IsRun
  <2> QED
    BY <2>2, <2>3
<1>5. ASSUME \A d \in Clients : call'[d].state = "answered" => call'[d] = call[d] PROVE CallsTrue'
  BY <1>1, <1>2, <1>5 DEF CallsTrue, IsRun
<1>6. CallsTrue'
  <2>1. ASSUME NEW k \in Keys, NEW b \in Bodies, Send(c, k, b) PROVE CallsTrue'
    <3>1. \A d \in Clients : call'[d].state = "answered" => call'[d] = call[d]
      BY <2>1, SendIs
    <3> QED
      BY <1>5, <3>1
  <2>2. ASSUME RetryOrFail(c), call[c].state = "waiting" PROVE CallsTrue'
    <3>1. \A d \in Clients : call'[d].state = "answered" => call'[d] = call[d]
      BY <2>2, RetryIs
    <3> QED
      BY <1>5, <3>1
  <2>3. ASSUME Receive(c), ~RetryOrFail(c) PROVE CallsTrue'
    <3>1. /\ \A d \in Clients : d # c => call'[d] = call[d]
          /\ call'[c].key = call[c].key /\ call'[c].body = call[c].body
      BY <2>3, ReceiveIs
    <3>2. CASE call'[c].state = "failed"
      BY <1>5, <3>1, <3>2
    <3>3. CASE call'[c].state = "answered"
      <4> DEFINE a == <<c, call[c].try>>
      <4>1. a \in Attempts /\ call'[c].answer = attempt[a].answer /\ call'[c].answer.code = "200"
        BY <2>3, <3>3, ReceiveIs
      <4>2. Key(a) = call[c].key /\ Body(a) = call[c].body
        BY DEF Key, Body
      <4> HIDE DEF a
      <4>3. IsRun(call'[c].answer.run, call[c].key, call[c].body)
        BY <1>1, <4>1, <4>2 DEF AttemptTrue
      <4> QED
        BY <1>1, <1>2, <3>1, <4>3 DEF CallsTrue, IsRun
    <3> QED
      BY <2>3, <3>2, <3>3, ReceiveIs
  <2> QED
    BY <2>1, <2>2, <2>3 DEF ClientStep, Receive, TimeOut
<1> QED
  BY <1>3, <1>4, <1>6 DEF Truthful

LEMMA StepTruthful == WellTyped /\ Truthful /\ [Next]_vars => Truthful'
<1> SUFFICES ASSUME WellTyped, Truthful, [Next]_vars PROVE Truthful'
  OBVIOUS
<1> TypeOK
  BY DEF WellTyped
<1>1. EntriesTrue /\ CallsTrue /\ \A a \in Attempts : AttemptTrue(a)
  BY DEF Truthful
<1>2. ASSUME NEW a \in Attempts, Handle(a) PROVE Truthful'
  BY <1>2, HandleTruthful
<1>3. ASSUME NEW c \in Clients, ClientStep(c) PROVE Truthful'
  BY <1>3, ClientTruthful
<1>4. ASSUME NEW k \in DOMAIN entries, Age(k) PROVE Truthful'
  <2>1. UNCHANGED <<call, attempt, runs>>
    BY <1>4 DEF Age
  <2>2. EntriesTrue'
    BY <1>1, <1>4, <2>1, AgeIs DEF EntriesTrue, IsRun
  <2>3. CallsTrue' /\ \A a \in Attempts : AttemptTrue(a)'
    BY <1>1, <2>1 DEF CallsTrue, AttemptTrue, IsRun, Key, Body
  <2> QED
    BY <2>2, <2>3 DEF Truthful
<1>5. CASE Restart
  <2>1. UNCHANGED <<call, runs>> /\ DOMAIN entries' = {}
    BY <1>5 DEF Restart, NoEntries
  <2>2. ASSUME NEW a \in Attempts
        PROVE  attempt'[a].at # "complete" /\ attempt'[a].answer \in {attempt[a].answer, NoAnswer}
    BY <1>5 DEF Restart, Unsent, TypeOK, Attempt
  <2>3. ASSUME NEW a \in Attempts PROVE AttemptTrue(a)'
    BY <1>1, <2>1, <2>2 DEF AttemptTrue, IsRun, Key, Body, NoAnswer
  <2>4. EntriesTrue' /\ CallsTrue'
    BY <1>1, <2>1 DEF EntriesTrue, CallsTrue, IsRun
  <2> QED
    BY <2>3, <2>4 DEF Truthful
<1>6. CASE UNCHANGED vars
  BY <1>1, <1>6 DEF vars, Truthful, EntriesTrue, AttemptTrue, CallsTrue, IsRun, Key, Body
<1> QED
  BY <1>2, <1>3, <1>4, <1>5, <1>6 DEF Next, ClientStep
----------------------------------------------------------------------------
(* The results.                                                             *)

LEMMA StepIInv == Roomy /\ WellTyped /\ IInv /\ [Next]_vars => IInv'
  BY StepAlone, StepKept, StepTruthful DEF IInv

LEMMA IInvHolds == ASSUME Roomy PROVE Spec => [](WellTyped /\ IInv)
<1>1. Init => WellTyped /\ IInv
  BY InitWellTyped, InitIInv
<1>2. WellTyped /\ IInv /\ [Next]_vars => (WellTyped /\ IInv)'
  BY StepWellTyped, StepIInv
<1> QED
  BY <1>1, <1>2, PTL DEF Spec

(* Whoever works on a key holds its entry and is alone with it, so complete *)
(* and release settle the entry of their own claim.                         *)
THEOREM ClaimIsHeldHolds == ASSUME Roomy PROVE Spec => []ClaimIsHeld
<1>1. WellTyped /\ IInv => ClaimIsHeld
  BY DEF IInv, Alone, Holds, ClaimIsHeld, SameBody
<1> QED
  BY <1>1, IInvHolds, PTL

(* A retried request runs once in the window of its key, however often it   *)
(* is sent, whatever is lost and wherever a handler fails.                  *)
THEOREM AtMostOnceHolds == ASSUME Roomy PROVE Spec => []AtMostOnce
<1>1. ASSUME WellTyped, IInv PROVE AtMostOnce
  <2>1. since \in [Keys -> Nat] /\ Len(runs) \in Nat /\ DOMAIN runs = 1..Len(runs)
    BY <1>1 DEF WellTyped, TypeOK
  <2>2. ASSUME NEW k \in Keys, NEW i \in (since[k] + 1)..Len(runs), runs[i].key = k
        PROVE  i \in DOMAIN runs /\ InWindow(k, i)
    BY <2>1, <2>2 DEF InWindow
  <2> QED
    BY <1>1, <2>2 DEF IInv, Kept, AtMostOnce
<1>2. WellTyped /\ IInv => AtMostOnce
  BY <1>1
<1> QED
  BY <1>2, IInvHolds, PTL

(* A verdict that a client accepts is that of a run of its own request, even*)
(* if the store is full and entries are driven out while somebody works on  *)
(* them: whoever completes writes under its own key and body only.          *)
THEOREM OwnVerdictHolds == Spec => []OwnVerdict
<1>1. Init => WellTyped /\ Truthful
  BY InitWellTyped, InitIInv DEF IInv
<1>2. WellTyped /\ Truthful /\ [Next]_vars => (WellTyped /\ Truthful)'
  BY StepWellTyped, StepTruthful
<1>3. Truthful => OwnVerdict
  BY DEF Truthful, CallsTrue, IsRun, OwnVerdict
<1> QED
  BY <1>1, <1>2, <1>3, PTL DEF Spec
=============================================================================
