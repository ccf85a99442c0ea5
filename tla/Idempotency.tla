---------------------------- MODULE Idempotency ----------------------------
(***************************************************************************)
(* Idempotency keys end to end: SDK clients that retry a POST to           *)
(* /v1/evaluate or /v1/connectors/{id}/process after a timeout or a server *)
(* error, the gate in front of the handler, and MemoryIdempotencyStore.    *)
(*                                                                         *)
(* An attempt of a call is one HTTP request.  The client may stop waiting  *)
(* for it at any time, while the server still works on it or has not begun.*)
(* The store's lock makes each of its methods one step; what a handler     *)
(* does between two of them interleaves with other requests, as the store  *)
(* promises to concurrent callers.                                         *)
(***************************************************************************)
EXTENDS Naturals, Sequences, FiniteSets, Functions

CONSTANTS Clients,      \* SDK calls, each with one key and one body
          Keys,         \* idempotency keys
          Bodies,       \* request bodies, up to their fingerprint
          MaxEntries,   \* capacity of the store
          MaxRetries,   \* what the SDK does after the first attempt
          None          \* no key, no body

ASSUME BoundsAreNat == MaxEntries \in Nat \ {0} /\ MaxRetries \in Nat
ASSUME NoneIsNothing == None \notin Keys \cup Bodies

VARIABLES entries,      \* the store: the entry of each key it has
          clock,        \* its time, in claims
          call,         \* call[c]: the SDK call of client c
          attempt,      \* attempt[c][n]: its n-th request, as the server sees it
          runs,         \* history: what the handlers have really executed
          since         \* history: runs of key k up to since[k] are out of its window

vars == <<entries, clock, call, attempt, runs, since>>

Attempts == Clients \X (0..MaxRetries)

Entry == [body : Bodies, done : BOOLEAN, run : Nat, expired : BOOLEAN, created : Nat]
\* The answer to a request: its status and, of a verdict, the run it reports.
Answer == [code : {"none", "200", "409", "422", "500"}, run : Nat]
NoAnswer == [code |-> "none", run |-> 0]
Code(status) == [code |-> status, run |-> 0]
Verdict(run) == [code |-> "200", run |-> run]
Call == [state : {"new", "waiting", "answered", "failed"}, key : Keys \cup {None},
         body : Bodies \cup {None}, try : 0..MaxRetries, answer : Answer]
Attempt == [at : {"unsent", "get", "claim", "execute", "complete", "release", "over"},
            run : Nat, answer : Answer]
Unsent == [at |-> "unsent", run |-> 0, answer |-> NoAnswer]

NoEntries == [k \in {} |-> NoAnswer]

Init ==
    /\ entries = NoEntries
    /\ clock = 0
    /\ call = [c \in Clients |-> [state |-> "new", key |-> None, body |-> None,
                                  try |-> 0, answer |-> NoAnswer]]
    /\ attempt = [a \in Attempts |-> Unsent]
    /\ runs = <<>>
    /\ since = [k \in Keys |-> 0]

Key(a) == call[a[1]].key
Body(a) == call[a[1]].body

Goes(a, next) == attempt' = [attempt EXCEPT ![a].at = next]
Answers(a, answer) == attempt' = [attempt EXCEPT ![a].at = "over", ![a].answer = answer]
----------------------------------------------------------------------------
(* The store.                                                               *)

Without(k) == Restrict(entries, DOMAIN entries \ {k})
\* _evict_expired.
Live == Restrict(entries, {k \in DOMAIN entries : ~entries[k].expired})
Older(j, k) == entries[j].created < entries[k].created
\* The memory is bounded: a new entry drives out the oldest one.
MakeRoom(store) ==
    IF Cardinality(DOMAIN store) >= MaxEntries
    THEN Restrict(store, {k \in DOMAIN store : \E j \in DOMAIN store : Older(j, k)})
    ELSE store
\* A new entry for the request, younger than every other.
Claimed(store, a) ==
    [k \in DOMAIN store \cup {Key(a)} |->
        IF k = Key(a)
        THEN [body |-> Body(a), done |-> FALSE, run |-> 0, expired |-> FALSE, created |-> clock]
        ELSE store[k]]
----------------------------------------------------------------------------
(* A handler.                                                               *)

AnyBody(entry, a) == TRUE
SameBody(entry, a) == entry.body = Body(a)

\* get: replay a completed call, if it is the same call.
Get(a) ==
    /\ attempt[a].at = "get"
    /\ IF Key(a) \in DOMAIN entries /\ entries[Key(a)].done
       THEN Answers(a, IF SameBody(entries[Key(a)], a)
                       THEN Verdict(entries[Key(a)].run) ELSE Code("422"))
       ELSE Goes(a, "claim")
    /\ UNCHANGED <<entries, clock, call, runs, since>>

WaitForKey(a) ==
    /\ attempt[a].at = "claim"
    /\ Key(a) \notin DOMAIN Live
    /\ entries' = Claimed(MakeRoom(Live), a)
    /\ Goes(a, "execute")
    /\ clock' = clock + 1
    /\ UNCHANGED <<call, runs, since>>
ClaimUnchecked(a) ==
    /\ attempt[a].at = "claim"
    /\ entries' = Claimed(MakeRoom(Without(Key(a))), a)
    /\ Goes(a, "execute")
    /\ clock' = clock + 1
    /\ UNCHANGED <<call, runs, since>>
\* claim: a key somebody holds is refused, but expired entries go either way.
Claim(a) ==
    /\ attempt[a].at = "claim"
    /\ IF Key(a) \in DOMAIN Live
       THEN /\ entries' = Live
            /\ Answers(a, Code("409"))
            /\ UNCHANGED clock
       ELSE /\ entries' = Claimed(MakeRoom(Live), a)
            /\ Goes(a, "execute")
            /\ clock' = clock + 1
    /\ UNCHANGED <<call, runs, since>>

\* The firewall, or the connector, runs the request ...
Succeed(a) ==
    /\ attempt[a].at = "execute"
    /\ runs' = Append(runs, [key |-> Key(a), body |-> Body(a)])
    /\ attempt' = [attempt EXCEPT ![a].at = "complete", ![a].run = Len(runs')]
    /\ UNCHANGED <<entries, clock, call, since>>

\* ... or finds it invalid before it has done anything ...
Refuse(a) ==
    /\ attempt[a].at = "execute"
    /\ Goes(a, "release")
    /\ UNCHANGED <<entries, clock, call, runs, since>>

\* ... or raises what the handler does not catch, with or without an effect.
ReleaseAnyway(a) ==
    /\ attempt[a].at = "execute"
    /\ runs' \in {runs, Append(runs, [key |-> Key(a), body |-> Body(a)])}
    /\ entries' = Without(Key(a))
    /\ Answers(a, Code("500"))
    /\ UNCHANGED <<clock, call, since>>
Raise(a) ==
    /\ attempt[a].at = "execute"
    /\ runs' \in {runs, Append(runs, [key |-> Key(a), body |-> Body(a)])}
    /\ Answers(a, Code("500"))
    /\ UNCHANGED <<entries, clock, call, since>>

Complete(a) ==
    /\ attempt[a].at = "complete"
    /\ entries' = [k \in DOMAIN entries |->
                     IF k = Key(a) /\ SameBody(entries[k], a)
                     THEN [entries[k] EXCEPT !.done = TRUE, !.run = attempt[a].run]
                     ELSE entries[k]]
    /\ Answers(a, Verdict(attempt[a].run))
    /\ UNCHANGED <<clock, call, runs, since>>

Release(a) ==
    /\ attempt[a].at = "release"
    /\ entries' = Without(Key(a))
    /\ Answers(a, Code("422"))
    /\ UNCHANGED <<clock, call, runs, since>>

Handle(a) ==
    \/ Get(a)
    \/ Claim(a)
    \/ Succeed(a)
    \/ Refuse(a)
    \/ Raise(a)
    \/ Complete(a)
    \/ Release(a)
----------------------------------------------------------------------------
(* A client.                                                                *)

Send(c, k, b) ==
    /\ call[c].state = "new"
    /\ call' = [call EXCEPT ![c].state = "waiting", ![c].key = k, ![c].body = b]
    /\ Goes(<<c, 0>>, "get")
    /\ UNCHANGED <<entries, clock, runs, since>>

\* _request: one more attempt, or the error is the caller's.
RetryOrFail(c) ==
    IF call[c].try < MaxRetries
    THEN /\ call' = [call EXCEPT ![c].try = @ + 1]
         /\ Goes(<<c, call[c].try + 1>>, "get")
    ELSE /\ call' = [call EXCEPT ![c].state = "failed"]
         /\ UNCHANGED attempt

\* The answer arrives; a server error is worth a retry, another error is not.
Receive(c) ==
    /\ call[c].state = "waiting"
    /\ LET answer == attempt[<<c, call[c].try>>].answer
       IN  \/ /\ answer.code = "200"
              /\ call' = [call EXCEPT ![c].state = "answered", ![c].answer = answer]
              /\ UNCHANGED attempt
           \/ /\ answer.code \in {"409", "422"}
              /\ call' = [call EXCEPT ![c].state = "failed", ![c].answer = answer]
              /\ UNCHANGED attempt
           \/ /\ answer.code = "500"
              /\ RetryOrFail(c)
    /\ UNCHANGED <<entries, clock, runs, since>>

\* Nothing arrives in time: the request, or its answer, was lost or is late.
TimeOut(c) ==
    /\ call[c].state = "waiting"
    /\ RetryOrFail(c)
    /\ UNCHANGED <<entries, clock, runs, since>>
----------------------------------------------------------------------------
(* The server.                                                              *)

Working(a) == attempt[a].at \in {"execute", "complete", "release"}

\* The TTL of an entry passes, after that of the entries before it; no handler
\* works on a request that long.
Age(k) ==
    /\ ~entries[k].expired
    /\ \A j \in DOMAIN entries : Older(j, k) => entries[j].expired
    /\ \A a \in Attempts : Working(a) => Key(a) # k
    /\ entries' = [entries EXCEPT ![k].expired = TRUE]
    /\ since' = [since EXCEPT ![k] = Len(runs)]
    /\ UNCHANGED <<clock, call, attempt, runs>>

\* The store is in memory: a restart loses it, and every request with it.
Restart ==
    /\ \E a \in Attempts : attempt[a].at \notin {"unsent", "over"}
    /\ entries' = NoEntries
    /\ since' = [k \in Keys |-> Len(runs)]
    /\ attempt' = [a \in Attempts |-> IF attempt[a].at = "unsent" THEN Unsent
                                      ELSE [attempt[a] EXCEPT !.at = "over"]]
    /\ UNCHANGED <<clock, call, runs>>

Next ==
    \/ \E a \in Attempts : Handle(a)
    \/ \E c \in Clients :
        \/ \E k \in Keys, b \in Bodies : Send(c, k, b)
        \/ Receive(c)
        \/ TimeOut(c)
    \/ \E k \in DOMAIN entries : Age(k)
    \/ Restart

Spec == Init /\ [][Next]_vars
\* The server works on what it has; a client waits no longer than its timeout.
FairSpec ==
    /\ Spec
    /\ \A a \in Attempts : WF_vars(Handle(a))
    /\ \A c \in Clients : WF_vars(TimeOut(c))
----------------------------------------------------------------------------
TypeOK ==
    /\ DOMAIN entries \subseteq Keys /\ entries \in [DOMAIN entries -> Entry]
    /\ clock \in Nat
    /\ call \in [Clients -> Call]
    /\ attempt \in [Attempts -> Attempt]
    /\ runs \in Seq([key : Keys, body : Bodies])
    /\ since \in [Keys -> Nat]

(* However often a client retries, whatever it has lost and whoever else    *)
(* sends the key, within the window of a key its request runs once.          *)
AtMostOnce ==
    \A k \in Keys : \A i, j \in (since[k] + 1)..Len(runs) :
        runs[i].key = k /\ runs[j].key = k => i = j

(* A verdict a client accepts is that of a run with its own key and body: a  *)
(* key used for two bodies never lends one the verdict of the other.         *)
OwnVerdict ==
    \A c \in Clients : call[c].state = "answered" =>
        /\ call[c].answer.run \in DOMAIN runs
        /\ runs[call[c].answer.run] = [key |-> call[c].key, body |-> call[c].body]

(* A handler that works on a key is alone with it and its claim is in the   *)
(* store, so that complete and release settle its own entry.                 *)
ClaimIsHeld ==
    \A a \in Attempts : Working(a) =>
        /\ Key(a) \in DOMAIN entries
        /\ SameBody(entries[Key(a)], a) /\ ~entries[Key(a)].done
        /\ \A b \in Attempts : Working(b) /\ Key(b) = Key(a) => b = a

(* The server answers every request it takes, or dies: no handler waits for  *)
(* a key, so a key that a failed handler left behind blocks nobody.          *)
EveryRequestEnds ==
    \A a \in Attempts : attempt[a].at = "get" ~> attempt[a].at = "over"
=============================================================================
