----------------------------- MODULE AuditChain -----------------------------
(***************************************************************************)
(* The hash-chained audit table, shared by instances that append to it and *)
(* verify it: append, set_human_decision, counts and verify_chain of the   *)
(* durable stores (SQLite and Postgres), one SQL statement per action.     *)
(*                                                                         *)
(* An instance holds its own lock during a whole operation, so it runs one *)
(* at a time; the lock is of no concern to another instance.  Each keeps   *)
(* its own cache of the prefix it has verified and its own counter.        *)
(*                                                                         *)
(* SHA-256 is modelled as a function without collisions: the hash of a row *)
(* is the sequence of all fingerprints up to it.                           *)
(***************************************************************************)
EXTENDS Naturals, Sequences, FiniteSets

CONSTANTS Instances,    \* processes with a store object on the same table
          Contents,     \* what the fingerprint of a record covers
          Backend,      \* "sqlite" or "postgres"
          MaxRows,      \* bound: rows in the table
          MaxEdits      \* bound: edited rows in the table

ASSUME BackendIsOne == Backend \in {"sqlite", "postgres"}
ASSUME BoundsAreNat == MaxRows \in Nat /\ MaxEdits \in Nat

VARIABLES rows,         \* the audit_records table, in the order of seq
          cache,        \* cache[p]: _verified_ok, _verified_last or _seq and _hash
          total,        \* total[p]: the _total counter
          proc,         \* proc[p]: the operation p performs, and how far it is
          answer,       \* answer[p]: what verify_chain last returned
          edited        \* history: rows somebody changed behind the store's back

vars == <<rows, cache, total, proc, answer, edited>>

Genesis == <<>>
Hash == Seq(Contents)
ChainHash(prev, fingerprint) == Append(prev, fingerprint)

\* The human_decision of an origin row is filled in later.
Row == [content : Contents, human : {"pending", "decided"}, prev : Hash, hash : Hash]

\* What the hash of a row covers: not human_decision.
FingerprintOfAll(row) == <<row.content, row.human>>
Fingerprint(row) == row.content

\* A position in the chain: a row and its hash, or the start.
Cursor == [seq : Nat, hash : Hash]
Start == [seq |-> 0, hash |-> Genesis]
End == IF rows = <<>> THEN Start ELSE [seq |-> Len(rows), hash |-> rows[Len(rows)].hash]

Fresh == [ok |-> TRUE, at |-> Start]
\* at: the next statement; end: where the chain ended when it was read last;
\* from: where the walk starts; ok: what the walk found.
Proc == [at : {"idle", "insert", "walk", "reread"}, end : Cursor, from : Cursor, ok : BOOLEAN]
Idle == [at |-> "idle", end |-> Start, from |-> Start, ok |-> TRUE]

Init ==
    /\ rows = <<>>
    /\ cache = [p \in Instances |-> Fresh]
    /\ total = [p \in Instances |-> 0]
    /\ proc = [p \in Instances |-> Idle]
    /\ answer = [p \in Instances |-> "none"]
    /\ edited = {}
----------------------------------------------------------------------------
(* append.                                                                  *)

ReadLast(p) ==
    /\ proc[p].at = "idle"
    /\ Len(rows) < MaxRows
    /\ proc' = [proc EXCEPT ![p] = [Idle EXCEPT !.at = "insert", !.end = End]]
    /\ UNCHANGED <<rows, cache, total, answer, edited>>

\* UNIQUE (seq).
AnySeq(p) == TRUE
SeqIsFree(p) == proc[p].end.seq = Len(rows)

CountEveryInsert(p, done) == total' = [total EXCEPT ![p] = @ + 1]
\* The counter goes up after the INSERT, and not if that has raised.
CountInserted(p, done) == total' = IF done THEN [total EXCEPT ![p] = @ + 1] ELSE total

\* INSERT.  Postgres commits in the same call, which raises too if the answer to the
\* commit is lost.
InsertRow(p, c) ==
    /\ proc[p].at = "insert"
    /\ SeqIsFree(p)
    /\ rows' = Append(rows, [content |-> c, human |-> "pending",
                             prev |-> proc[p].end.hash,
                             hash |-> ChainHash(proc[p].end.hash, c)])
    /\ \E heard \in BOOLEAN : (Backend = "sqlite" => heard) /\ CountInserted(p, heard)
    /\ proc' = [proc EXCEPT ![p] = Idle]
    /\ UNCHANGED <<cache, answer, edited>>

\* The INSERT raises: its seq is taken, the connection is lost, or the database is
\* locked.  SQLite leaves the transaction of a refused seq open, which locks out the
\* other instances until this one commits or ends.
InsertFails(p) ==
    /\ proc[p].at = "insert"
    /\ CountInserted(p, FALSE)
    /\ proc' = [proc EXCEPT ![p] = Idle]
    /\ UNCHANGED <<rows, cache, answer, edited>>

\* set_human_decision, by an instance whose lock is free.  It reads the row and writes
\* it back; no store changes anything else of a row, so the two are one step, and an
\* edit from outside in between, which it would undo, is left out.
SetHumanDecision(p, i) ==
    /\ proc[p].at = "idle"
    /\ rows[i].human = "pending"
    /\ rows' = [rows EXCEPT ![i].human = "decided"]
    /\ UNCHANGED <<cache, total, proc, answer, edited>>
----------------------------------------------------------------------------
(* verify_chain.                                                            *)

\* SQLite knows its prefix by the last row, Postgres by the number of rows.
NothingNew(p) ==
    IF Backend = "sqlite" THEN rows # <<>> /\ End = cache[p].at ELSE End.seq = cache[p].at.seq

ResumeAnyway(p, force) == IF force THEN Start ELSE cache[p].at
\* A forced walk, and the one after a failure, start from genesis.
ResumeFrom(p, force) == IF force \/ ~cache[p].ok THEN Start ELSE cache[p].at

VerifyBegin(p, force) ==
    /\ proc[p].at = "idle"
    /\ IF ~force /\ cache[p].ok /\ NothingNew(p)
       THEN /\ answer' = [answer EXCEPT ![p] = "intact"]
            /\ UNCHANGED proc
       ELSE /\ proc' = [proc EXCEPT ![p] = [at |-> "walk", ok |-> TRUE, end |-> End,
                                            from |-> ResumeFrom(p, force)]]
            /\ UNCHANGED answer
    /\ UNCHANGED <<rows, cache, total, edited>>

\* The rows after a cursor continue the chain from it.
Continues(from) ==
    \A i \in (from.seq + 1)..Len(rows) :
        LET prev == IF i = from.seq + 1 THEN from.hash ELSE rows[i-1].hash
        IN  rows[i].prev = prev /\ rows[i].hash = ChainHash(prev, Fingerprint(rows[i]))

HashAfter(from) == IF from.seq < Len(rows) THEN rows[Len(rows)].hash ELSE from.hash

Answer(p, ok) == answer' = [answer EXCEPT ![p] = IF ok THEN "intact" ELSE "tampered"]

\* SELECT the rows after the cursor and recompute them.  Postgres stores the
\* number of rows it has counted before, with the hash it has arrived at now.
Walk(p) ==
    /\ proc[p].at = "walk"
    /\ LET from == proc[p].from
           ok == Continues(from)
       IN  IF Backend = "sqlite"
           THEN /\ proc' = [proc EXCEPT ![p].at = "reread", ![p].ok = ok]
                /\ UNCHANGED <<cache, answer>>
           ELSE /\ cache' = [cache EXCEPT ![p] =
                               [ok |-> ok,
                                at |-> IF ok THEN [seq |-> proc[p].end.seq,
                                                   hash |-> HashAfter(from)] ELSE Start]]
                /\ Answer(p, ok)
                /\ proc' = [proc EXCEPT ![p] = Idle]
    /\ UNCHANGED <<rows, total, edited>>

StaleHash(p) ==
    [ok |-> proc[p].ok,
     at |-> IF proc[p].ok THEN [seq |-> End.seq, hash |-> proc[p].end.hash] ELSE cache[p].at]
\* SQLite reads the last row again and takes it for the end of what it walked.
Verified(p) == [ok |-> proc[p].ok, at |-> IF proc[p].ok THEN End ELSE cache[p].at]

Reread(p) ==
    /\ proc[p].at = "reread"
    /\ cache' = [cache EXCEPT ![p] = Verified(p)]
    /\ Answer(p, proc[p].ok)
    /\ proc' = [proc EXCEPT ![p] = Idle]
    /\ UNCHANGED <<rows, total, edited>>
----------------------------------------------------------------------------
(* What happens to the store.                                               *)

\* _seed_counts: a new store object counts the rows that are there.
LastSeq(n) == n - 1
SeedCounts(n) == n

\* The process of an instance dies and is started again.
Restart(p) ==
    /\ cache' = [cache EXCEPT ![p] = Fresh]
    /\ total' = [total EXCEPT ![p] = SeedCounts(Len(rows))]
    /\ proc' = [proc EXCEPT ![p] = Idle]
    /\ answer' = [answer EXCEPT ![p] = "none"]
    /\ UNCHANGED <<rows, edited>>

\* SQLite does not fsync its commits (WAL, synchronous=NORMAL): a power failure
\* ends every process of the host and may take the last rows with it.
PowerLoss(n) ==
    /\ Backend = "sqlite"
    /\ rows' = SubSeq(rows, 1, n)
    /\ edited' = edited \cap 1..n
    /\ cache' = [p \in Instances |-> Fresh]
    /\ total' = [p \in Instances |-> SeedCounts(n)]
    /\ proc' = [p \in Instances |-> Idle]
    /\ answer' = [p \in Instances |-> "none"]

\* Somebody changes a row in place, outside the store API.
Edit(i, c) ==
    /\ i \notin edited /\ Cardinality(edited) < MaxEdits
    /\ rows[i].content # c
    /\ rows' = [rows EXCEPT ![i].content = c]
    /\ edited' = edited \cup {i}
    /\ UNCHANGED <<cache, total, proc, answer>>

Next ==
    \/ \E p \in Instances :
        \/ ReadLast(p)
        \/ \E c \in Contents : InsertRow(p, c)
        \/ InsertFails(p)
        \/ \E i \in DOMAIN rows : SetHumanDecision(p, i)
        \/ \E force \in BOOLEAN : VerifyBegin(p, force)
        \/ Walk(p)
        \/ Reread(p)
        \/ Restart(p)
    \/ \E n \in 0..Len(rows) : PowerLoss(n)
    \/ \E i \in DOMAIN rows, c \in Contents : Edit(i, c)

Spec == Init /\ [][Next]_vars
----------------------------------------------------------------------------
TypeOK ==
    /\ rows \in Seq(Row)
    /\ cache \in [Instances -> [ok : BOOLEAN, at : Cursor]]
    /\ total \in [Instances -> Nat]
    /\ proc \in [Instances -> Proc]
    /\ answer \in [Instances -> {"none", "intact", "tampered"}]
    /\ edited \subseteq Nat

(* Whatever the interleaving of appends, the rows are one chain and never a *)
(* fork: each has the hash of the row before it, and its own hash is that   *)
(* of its content unless somebody edited it (append, UNIQUE seq).           *)
OneChain ==
    \A i \in DOMAIN rows :
        LET prev == IF i = 1 THEN Genesis ELSE rows[i-1].hash
        IN  /\ rows[i].prev = prev
            /\ i \notin edited <=> rows[i].hash = ChainHash(prev, rows[i].content)

(* verify_chain never cries wolf: if it says tampered, somebody has edited a *)
(* row (the cached prefix, concurrent appends and human decisions).          *)
NoFalseAlarm == (\E p \in Instances : answer[p] = "tampered") => edited # {}

(* An instance that has answered tampered does not answer intact again while *)
(* the edited row is there and the process lives, forced or not.             *)
AlarmStands ==
    [][\A p \in Instances : answer[p] = "tampered" => answer'[p] # "intact"]_vars

(* A walk finds exactly the edits there are from its start on, be it genesis *)
(* or the end of the prefix an instance trusts.                              *)
WalkIsExact ==
    \A from \in {Start} \cup {cache[p].at : p \in Instances} :
        Continues(from) <=> \A i \in edited : i <= from.seq

(* counts: no counter shows a record that is not there, through lost races,   *)
(* refused inserts, restarts and power failures of any instance              *)
(* (_append_locked, _seed_counts).                                           *)
CountsNeverExceed == \A p \in Instances : total[p] <= Len(rows)

(* Claimed of every store, and true of one SQLite process only: the counters  *)
(* are seeded once, and appends keep them exact (sqlite_store.py:77-78).      *)
CountsAreExact == \A p \in Instances : proc[p].at = "idle" => total[p] = Len(rows)
=============================================================================
