-------------------------- MODULE AuditChainProofs --------------------------
(***************************************************************************)
(* Theorems about AuditChain, for any instances, contents and bounds: the  *)
(* table is one chain on either backend, and on SQLite, or for the only    *)
(* instance on a table, verification is exact and never cries wolf.        *)
(***************************************************************************)
EXTENDS AuditChain, TLAPS
----------------------------------------------------------------------------
(* Types.                                                                   *)

(* The start of the chain is a cursor, and what is made of it has its type. *)
LEMMA StartType ==
    /\ Start \in Cursor
    /\ Idle \in Proc
    /\ Fresh \in [ok : BOOLEAN, at : Cursor]
<1>1. Start \in Cursor
  BY DEF Start, Cursor, Genesis, Hash
<1> QED BY <1>1 DEF Idle, Proc, Fresh

(* The end of the chain is a cursor.                                        *)
LEMMA EndType == TypeOK => End \in Cursor
<1> SUFFICES ASSUME TypeOK PROVE End \in Cursor
  OBVIOUS
<1>1. CASE rows = <<>>
  BY <1>1, StartType DEF End
<1>2. CASE rows # <<>>
  <2>1. rows \in Seq(Row) /\ Len(rows) \in Nat /\ Len(rows) \in DOMAIN rows
    BY <1>2 DEF TypeOK
  <2>2. rows[Len(rows)] \in Row
    BY <2>1
  <2> QED BY <1>2, <2>1, <2>2 DEF End, Cursor, Row
<1> QED BY <1>1, <1>2

(* What a walk of Postgres caches as a hash is one.                         *)
LEMMA HashAfterType ==
    ASSUME TypeOK, NEW from \in Cursor
    PROVE  HashAfter(from) \in Hash
<1>1. CASE from.seq < Len(rows)
  <2>1. rows \in Seq(Row) /\ Len(rows) \in DOMAIN rows
    BY <1>1 DEF TypeOK, Cursor
  <2>2. rows[Len(rows)] \in Row
    BY <2>1
  <2> QED BY <1>1, <2>2 DEF HashAfter, Row
<1>2. CASE ~(from.seq < Len(rows))
  BY <1>2 DEF HashAfter, Cursor
<1> QED BY <1>1, <1>2

(* The type invariant is inductive by itself.                               *)
LEMMA TypeInit == Init => TypeOK
<1> SUFFICES ASSUME Init PROVE TypeOK
  OBVIOUS
<1> QED BY StartType DEF Init, TypeOK

LEMMA TypeStep == TypeOK /\ [Next]_vars => TypeOK'
<1> SUFFICES ASSUME TypeOK, [Next]_vars PROVE TypeOK'
  OBVIOUS
<1> USE StartType, EndType
<1>1. ASSUME NEW p \in Instances, ReadLast(p) PROVE TypeOK'
  <2>1. [Idle EXCEPT !.at = "insert", !.end = End] \in Proc
    BY DEF Proc
  <2> QED BY <1>1, <2>1 DEF ReadLast, TypeOK
<1>2. ASSUME NEW p \in Instances, NEW c \in Contents, InsertRow(p, c) PROVE TypeOK'
  <2>1. proc[p].end.hash \in Seq(Contents)
    BY DEF TypeOK, Proc, Cursor, Hash
  <2>2. [content |-> c, human |-> "pending", prev |-> proc[p].end.hash,
         hash |-> ChainHash(proc[p].end.hash, c)] \in Row
    BY <2>1 DEF Row, Hash, ChainHash
  <2>3. rows' \in Seq(Row)
    BY <1>2, <2>2 DEF InsertRow, TypeOK
  <2>4. total' \in [Instances -> Nat]
    BY <1>2 DEF InsertRow, CountInserted, TypeOK
  <2> QED BY <1>2, <2>3, <2>4 DEF InsertRow, TypeOK
<1>3. ASSUME NEW p \in Instances, NEW i \in DOMAIN rows, SetHumanDecision(p, i)
      PROVE  TypeOK'
  <2>1. rows[i] \in Row /\ rows \in Seq(Row)
    BY DEF TypeOK
  <2>2. [rows[i] EXCEPT !.human = "decided"] \in Row
    BY <2>1 DEF Row
  <2>3. rows' \in Seq(Row)
    BY <1>3, <2>1, <2>2 DEF SetHumanDecision
  <2> QED BY <1>3, <2>3 DEF SetHumanDecision, TypeOK
<1>4. ASSUME NEW p \in Instances, NEW force \in BOOLEAN, VerifyBegin(p, force)
      PROVE  TypeOK'
  <2>1. ResumeFrom(p, force) \in Cursor
    BY DEF ResumeFrom, TypeOK
  <2>2. [at |-> "walk", ok |-> TRUE, end |-> End, from |-> ResumeFrom(p, force)] \in Proc
    BY <2>1 DEF Proc
  <2> QED BY <1>4, <2>2 DEF VerifyBegin, TypeOK
<1>5. ASSUME NEW p \in Instances, Walk(p) PROVE TypeOK'
  <2>1. proc[p] \in Proc /\ proc[p].from \in Cursor /\ proc[p].end.seq \in Nat
    BY DEF TypeOK, Proc, Cursor
  <2>2. Continues(proc[p].from) \in BOOLEAN
    BY DEF Continues
  <2>3. CASE Backend = "sqlite"
    <3>1. [proc[p] EXCEPT !.at = "reread", !.ok = Continues(proc[p].from)] \in Proc
      BY <2>1, <2>2 DEF Proc
    <3>2. proc' \in [Instances -> Proc]
      BY <1>5, <2>3, <3>1 DEF Walk, TypeOK
    <3> QED BY <1>5, <2>3, <3>2 DEF Walk, TypeOK
  <2>4. CASE Backend # "sqlite"
    <3>1. HashAfter(proc[p].from) \in Hash
      BY <2>1, HashAfterType
    <3>2. [seq |-> proc[p].end.seq, hash |-> HashAfter(proc[p].from)] \in Cursor
      BY <2>1, <3>1 DEF Cursor
    <3>3. cache' \in [Instances -> [ok : BOOLEAN, at : Cursor]]
      <4> DEFINE ok == Continues(proc[p].from)
                 at == IF ok THEN [seq |-> proc[p].end.seq,
                                   hash |-> HashAfter(proc[p].from)] ELSE Start
      <4>1. at \in Cursor /\ ok \in BOOLEAN
        BY <2>2, <3>2
      <4>2. cache' = [cache EXCEPT ![p] = [ok |-> ok, at |-> at]]
        BY <1>5, <2>4 DEF Walk
      <4> HIDE DEF ok, at
      <4> QED BY <4>1, <4>2 DEF TypeOK
    <3>4. answer' \in [Instances -> {"none", "intact", "tampered"}]
      BY <1>5, <2>4 DEF Walk, Answer, TypeOK
    <3>5. proc' \in [Instances -> Proc]
      BY <1>5, <2>4 DEF Walk, TypeOK
    <3>6. UNCHANGED <<rows, total, edited>>
      BY <1>5 DEF Walk
    <3> QED BY <3>3, <3>4, <3>5, <3>6 DEF TypeOK
  <2> QED BY <2>3, <2>4
<1>6. ASSUME NEW p \in Instances, Reread(p) PROVE TypeOK'
  <2>1. Verified(p) \in [ok : BOOLEAN, at : Cursor]
    BY DEF Verified, TypeOK, Proc
  <2> QED BY <1>6, <2>1 DEF Reread, Answer, TypeOK
<1>7. ASSUME NEW p \in Instances, Restart(p) PROVE TypeOK'
  BY <1>7 DEF Restart, SeedCounts, TypeOK
<1>8. ASSUME NEW n \in 0..Len(rows), PowerLoss(n) PROVE TypeOK'
  <2>1. n \in Nat /\ rows' \in Seq(Row)
    BY <1>8 DEF PowerLoss, TypeOK
  <2> QED BY <1>8, <2>1 DEF PowerLoss, SeedCounts, TypeOK
<1>9. ASSUME NEW i \in DOMAIN rows, NEW c \in Contents, Edit(i, c) PROVE TypeOK'
  <2>1. rows[i] \in Row /\ rows \in Seq(Row) /\ i \in Nat
    BY DEF TypeOK
  <2>2. [rows[i] EXCEPT !.content = c] \in Row
    BY <2>1 DEF Row
  <2>3. rows' \in Seq(Row)
    BY <1>9, <2>1, <2>2 DEF Edit
  <2> QED BY <1>9, <2>1, <2>3 DEF Edit, TypeOK
<1>10. CASE UNCHANGED vars
  BY <1>10 DEF vars, TypeOK
<1>11. ASSUME NEW p \in Instances, InsertFails(p) PROVE TypeOK'
  BY <1>11 DEF InsertFails, CountInserted, TypeOK
<1> QED
  BY <1>1, <1>2, <1>3, <1>4, <1>5, <1>6, <1>7, <1>8, <1>9, <1>10, <1>11 DEF Next

(* Every reachable state of the chain is well typed, on either backend.     *)
THEOREM TypeCorrect == Spec => []TypeOK
<1> QED BY TypeInit, TypeStep, PTL DEF Spec
----------------------------------------------------------------------------
(* The invariant: every position anybody remembers is on the chain.         *)

\* The hash at a position of a table, and a cursor that agrees with it.
HashAt(table, n) == IF n = 0 THEN Genesis ELSE table[n].hash
OnChain(table, cursor) ==
    cursor.seq \in 0..Len(table) /\ cursor.hash = HashAt(table, cursor.seq)

Linked ==
    /\ edited \subseteq 1..Len(rows)
    /\ OneChain
    /\ \A p \in Instances : proc[p].at = "insert" => OnChain(rows, proc[p].end)

\* A table that keeps the hashes of another one, and perhaps has more rows.
Keeps(new, old) ==
    /\ Len(old) \in Nat /\ Len(new) \in Nat /\ Len(old) <= Len(new)
    /\ \A i \in 1..Len(old) : new[i].hash = old[i].hash

(* A position on the chain stays there.                                     *)
LEMMA OnChainStays ==
    ASSUME NEW old, NEW new, NEW cursor, Keeps(new, old), OnChain(old, cursor)
    PROVE  OnChain(new, cursor)
<1>1. cursor.seq \in 0..Len(new)
  BY DEF Keeps, OnChain
<1>2. HashAt(new, cursor.seq) = HashAt(old, cursor.seq)
  BY DEF Keeps, OnChain, HashAt
<1> QED BY <1>1, <1>2 DEF OnChain

(* The start and the end of the chain are on it.                            *)
LEMMA EndsOnChain == TypeOK => OnChain(rows, Start) /\ OnChain(rows, End)
<1> SUFFICES ASSUME TypeOK PROVE OnChain(rows, Start) /\ OnChain(rows, End)
  OBVIOUS
<1>1. Len(rows) \in Nat /\ (rows = <<>> <=> Len(rows) = 0)
  BY DEF TypeOK
<1>2. OnChain(rows, Start)
  BY <1>1 DEF OnChain, Start, HashAt
<1>3. OnChain(rows, End)
  BY <1>1, <1>2 DEF OnChain, End, HashAt
<1> QED BY <1>2, <1>3

(* A row added at the end of the chain with the hash that is there now      *)
(* makes it one row longer.                                                 *)
LEMMA InsertLinks ==
    ASSUME TypeOK, Linked, NEW p \in Instances, NEW c \in Contents, InsertRow(p, c)
    PROVE  Keeps(rows', rows) /\ edited' \subseteq 1..Len(rows') /\ OneChain'
<1> DEFINE new == [content |-> c, human |-> "pending", prev |-> proc[p].end.hash,
                   hash |-> ChainHash(proc[p].end.hash, c)]
<1>1. rows \in Seq(Row) /\ Len(rows) \in Nat /\ edited' = edited
  BY DEF TypeOK, InsertRow
<1>2. SeqIsFree(p)
  BY DEF InsertRow
<1>3. Keeps(rows', rows) /\ edited' \subseteq 1..Len(rows') /\ OneChain'
  <2>1. rows' = Append(rows, new)
    BY DEF InsertRow
  <2>2. /\ Len(rows') = Len(rows) + 1
        /\ \A i \in 1..Len(rows) : rows'[i] = rows[i]
        /\ rows'[Len(rows) + 1] = new
        /\ DOMAIN rows' = 1..(Len(rows) + 1) /\ DOMAIN rows = 1..Len(rows)
    <3> HIDE DEF new
    <3> QED BY <1>1, <2>1
  <2>3. new.prev = HashAt(rows, Len(rows)) /\ new.hash = ChainHash(new.prev, new.content)
    BY <1>2 DEF InsertRow, Linked, OnChain, SeqIsFree
  <2>4. Len(rows) + 1 \notin edited
    BY <1>1 DEF Linked
  <2> HIDE DEF new
  <2>5. ASSUME NEW i \in DOMAIN rows'
        PROVE  LET prev == IF i = 1 THEN Genesis ELSE rows'[i-1].hash
               IN  /\ rows'[i].prev = prev
                   /\ i \notin edited <=> rows'[i].hash = ChainHash(prev, rows'[i].content)
    <3>1. CASE i \in 1..Len(rows)
      <4>1. rows'[i] = rows[i] /\ (i # 1 => rows'[i-1] = rows[i-1])
        BY <1>1, <2>2, <3>1
      <4> QED BY <2>2, <3>1, <4>1 DEF Linked, OneChain
    <3>2. CASE i = Len(rows) + 1
      <4>1. HashAt(rows, Len(rows)) = IF i = 1 THEN Genesis ELSE rows'[i-1].hash
        BY <1>1, <2>2, <3>2 DEF HashAt
      <4> QED BY <2>2, <2>3, <2>4, <3>2, <4>1
    <3> QED BY <1>1, <2>2, <3>1, <3>2
  <2> QED BY <1>1, <2>2, <2>5 DEF Linked, OneChain, Keeps
<1> QED BY <1>3

(* An edited row has no longer the hash of its content: SHA-256 has no      *)
(* collisions.                                                              *)
LEMMA EditLinks ==
    ASSUME TypeOK, Linked, NEW i \in DOMAIN rows, NEW c \in Contents, Edit(i, c)
    PROVE  Keeps(rows', rows) /\ edited' \subseteq 1..Len(rows') /\ OneChain'
<1>1. rows \in Seq(Row) /\ Len(rows) \in Nat /\ DOMAIN rows = 1..Len(rows) /\ i \in 1..Len(rows)
  BY DEF TypeOK
<1>2. /\ rows' = [rows EXCEPT ![i].content = c]
      /\ edited' = edited \cup {i} /\ i \notin edited /\ rows[i].content # c
  BY DEF Edit
<1>3. ASSUME NEW j \in 1..Len(rows)
      PROVE  /\ rows'[j].hash = rows[j].hash /\ rows'[j].prev = rows[j].prev
             /\ rows'[j].content = IF j = i THEN c ELSE rows[j].content
  <2>1. rows[j] \in Row /\ j \in DOMAIN rows
    BY <1>1
  <2> QED BY <1>1, <1>2, <2>1 DEF Row
<1>4. DOMAIN rows' = 1..Len(rows) /\ Len(rows') = Len(rows)
  BY <1>1, <1>2
<1>5. ASSUME NEW j \in DOMAIN rows'
      PROVE  LET prev == IF j = 1 THEN Genesis ELSE rows'[j-1].hash
             IN  /\ rows'[j].prev = prev
                 /\ j \notin edited' <=> rows'[j].hash = ChainHash(prev, rows'[j].content)
  <2> DEFINE prev == IF j = 1 THEN Genesis ELSE rows[j-1].hash
  <2>1. j \in 1..Len(rows) /\ prev = IF j = 1 THEN Genesis ELSE rows'[j-1].hash
    BY <1>1, <1>3, <1>4
  <2>2. rows[j].prev = prev /\ (j \notin edited <=> rows[j].hash = ChainHash(prev, rows[j].content))
    BY <1>1, <2>1 DEF Linked, OneChain
  <2>3. CASE j # i
    BY <1>2, <1>3, <2>1, <2>2, <2>3
  <2>4. CASE j = i
    <3>1. rows[j] \in Row
      BY <1>1, <2>1
    <3>2. prev \in Seq(Contents) /\ rows[j].content \in Contents
      BY <2>2, <3>1 DEF Row, Hash
    <3> HIDE DEF prev
    <3>3. ChainHash(prev, rows[j].content)[Len(prev) + 1] = rows[j].content
      BY <3>2 DEF ChainHash
    <3>4. ChainHash(prev, c)[Len(prev) + 1] = c
      BY <3>2 DEF ChainHash
    <3>5. ChainHash(prev, rows[j].content) # ChainHash(prev, c)
      BY <1>2, <2>4, <3>3, <3>4
    <3> QED BY <1>2, <1>3, <2>1, <2>2, <2>4, <3>5
  <2> QED BY <2>3, <2>4
<1> QED BY <1>1, <1>2, <1>3, <1>4, <1>5 DEF Linked, OneChain, Keeps

(* Filling in human_decision changes nothing the hashes cover.              *)
LEMMA DecisionLinks ==
    ASSUME TypeOK, Linked, NEW p \in Instances, NEW i \in DOMAIN rows,
           SetHumanDecision(p, i)
    PROVE  Keeps(rows', rows) /\ edited' \subseteq 1..Len(rows') /\ OneChain'
<1>1. /\ rows \in Seq(Row) /\ Len(rows) \in Nat /\ DOMAIN rows = 1..Len(rows)
      /\ rows' = [rows EXCEPT ![i].human = "decided"] /\ edited' = edited
  BY DEF TypeOK, SetHumanDecision
<1>2. ASSUME NEW j \in 1..Len(rows)
      PROVE  /\ rows'[j].hash = rows[j].hash /\ rows'[j].prev = rows[j].prev
             /\ rows'[j].content = rows[j].content
  <2>1. rows[j] \in Row /\ j \in DOMAIN rows
    BY <1>1
  <2> QED BY <1>1, <2>1 DEF Row
<1>3. DOMAIN rows' = 1..Len(rows) /\ Len(rows') = Len(rows)
  BY <1>1
<1>4. ASSUME NEW j \in DOMAIN rows'
      PROVE  LET prev == IF j = 1 THEN Genesis ELSE rows'[j-1].hash
             IN  /\ rows'[j].prev = prev
                 /\ j \notin edited <=> rows'[j].hash = ChainHash(prev, rows'[j].content)
  BY <1>1, <1>2, <1>3 DEF Linked, OneChain
<1> QED BY <1>1, <1>2, <1>3, <1>4 DEF Linked, OneChain, Keeps

(* The rows a power failure leaves are a chain, and nobody appends to it.   *)
LEMMA PowerLossLinks ==
    ASSUME TypeOK, Linked, NEW n \in 0..Len(rows), PowerLoss(n)
    PROVE  Linked'
<1>1. /\ rows \in Seq(Row) /\ Len(rows) \in Nat /\ DOMAIN rows = 1..Len(rows) /\ n \in Nat
      /\ n <= Len(rows)
      /\ rows' = SubSeq(rows, 1, n) /\ edited' = edited \cap 1..n
      /\ proc' = [p \in Instances |-> Idle]
  BY DEF TypeOK, PowerLoss
<1>2. /\ Len(rows') = n /\ DOMAIN rows' = 1..n
      /\ \A i \in 1..n : rows'[i] = rows[i]
  BY <1>1
<1>3. ASSUME NEW j \in DOMAIN rows'
      PROVE  LET prev == IF j = 1 THEN Genesis ELSE rows'[j-1].hash
             IN  /\ rows'[j].prev = prev
                 /\ j \notin edited' <=> rows'[j].hash = ChainHash(prev, rows'[j].content)
  <2>1. /\ j \in 1..n /\ j \in DOMAIN rows /\ rows'[j] = rows[j]
        /\ (j # 1 => rows'[j-1] = rows[j-1])
        /\ (j \in edited' <=> j \in edited)
    BY <1>1, <1>2
  <2> QED BY <2>1 DEF Linked, OneChain
<1> QED BY <1>1, <1>2, <1>3 DEF Linked, OneChain, Idle

(* A step keeps the links if the table keeps its hashes, and whoever is     *)
(* about to insert has its position from before or from the chain.          *)
LEMMA LinkedFrame ==
    ASSUME Linked, Keeps(rows', rows), edited' \subseteq 1..Len(rows'), OneChain',
           \A p \in Instances : proc'[p].at = "insert" =>
               \/ proc'[p] = proc[p]
               \/ OnChain(rows', proc'[p].end)
    PROVE  Linked'
<1>1. ASSUME NEW p \in Instances, proc'[p].at = "insert"
      PROVE  OnChain(rows', proc'[p].end)
  <2>1. CASE proc'[p] = proc[p]
    <3>1. OnChain(rows, proc[p].end)
      BY <1>1, <2>1 DEF Linked
    <3> QED BY <2>1, <3>1, OnChainStays
  <2> QED BY <1>1, <2>1
<1> QED BY <1>1 DEF Linked

(* Steps that leave rows and edits alone.                                   *)
LEMMA SameTable ==
    ASSUME TypeOK, Linked, UNCHANGED <<rows, edited>>
    PROVE  Keeps(rows', rows) /\ edited' \subseteq 1..Len(rows') /\ OneChain'
<1>1. rows \in Seq(Row) /\ Len(rows) \in Nat
  BY DEF TypeOK
<1> QED BY <1>1 DEF Linked, OneChain, Keeps

(* Every step but a power failure keeps the table's hashes and its edits.   *)
LEMMA StepKeeps ==
    ASSUME TypeOK, Linked, [Next]_vars, \A n \in 0..Len(rows) : ~PowerLoss(n)
    PROVE  /\ Keeps(rows', rows) /\ edited' \subseteq 1..Len(rows') /\ OneChain'
           /\ edited \subseteq edited'
<1>1. ASSUME NEW p \in Instances, ReadLast(p) \/ InsertFails(p) PROVE UNCHANGED <<rows, edited>>
  BY <1>1 DEF ReadLast, InsertFails
<1>2. ASSUME NEW p \in Instances, NEW force \in BOOLEAN, VerifyBegin(p, force)
      PROVE  UNCHANGED <<rows, edited>>
  BY <1>2 DEF VerifyBegin
<1>3. ASSUME NEW p \in Instances, Walk(p) \/ Reread(p) \/ Restart(p)
      PROVE  UNCHANGED <<rows, edited>>
  BY <1>3 DEF Walk, Reread, Restart
<1>4. CASE UNCHANGED vars
  BY <1>4, SameTable DEF vars
<1>5. ASSUME NEW p \in Instances, NEW c \in Contents, InsertRow(p, c)
      PROVE  edited \subseteq edited'
  BY <1>5 DEF InsertRow
<1>6. ASSUME NEW p \in Instances, NEW i \in DOMAIN rows, SetHumanDecision(p, i)
      PROVE  edited \subseteq edited'
  BY <1>6 DEF SetHumanDecision
<1>7. ASSUME NEW i \in DOMAIN rows, NEW c \in Contents, Edit(i, c)
      PROVE  edited \subseteq edited'
  BY <1>7 DEF Edit
<1> QED
  BY <1>1, <1>2, <1>3, <1>4, <1>5, <1>6, <1>7, SameTable, InsertLinks, DecisionLinks,
     EditLinks DEF Next

LEMMA LinkedInit == Init => Linked
<1> SUFFICES ASSUME Init PROVE Linked
  OBVIOUS
<1> QED BY DEF Init, Linked, OneChain, Idle

LEMMA LinkedStep == TypeOK /\ Linked /\ [Next]_vars => Linked'
<1> SUFFICES ASSUME TypeOK, Linked, [Next]_vars PROVE Linked'
  OBVIOUS
<1>1. CASE \E n \in 0..Len(rows) : PowerLoss(n)
  BY <1>1, PowerLossLinks
<1>2. CASE \A n \in 0..Len(rows) : ~PowerLoss(n)
  <2>1. /\ Keeps(rows', rows) /\ edited' \subseteq 1..Len(rows') /\ OneChain'
    BY <1>2, StepKeeps
  <2>2. ASSUME NEW p \in Instances, proc'[p].at = "insert"
        PROVE  proc'[p] = proc[p] \/ OnChain(rows', proc'[p].end)
    <3>1. ASSUME NEW q \in Instances, ReadLast(q)
          PROVE  proc'[p] = proc[p] \/ OnChain(rows', proc'[p].end)
      <4>1. CASE p # q
        BY <3>1, <4>1 DEF ReadLast, TypeOK
      <4>2. CASE p = q
        <5>1. proc'[p].end = End /\ rows' = rows
          BY <3>1, <4>2 DEF ReadLast, TypeOK, Idle
        <5> QED BY <5>1, EndsOnChain
      <4> QED BY <4>1, <4>2
    <3>2. ASSUME NEW q \in Instances, NEW c \in Contents, InsertRow(q, c)
          PROVE  proc'[p] = proc[p]
      BY <2>2, <3>2 DEF InsertRow, TypeOK, Idle
    <3>3. ASSUME NEW q \in Instances, NEW i \in DOMAIN rows, SetHumanDecision(q, i)
          PROVE  proc'[p] = proc[p]
      BY <3>3 DEF SetHumanDecision
    <3>4. ASSUME NEW q \in Instances, NEW force \in BOOLEAN, VerifyBegin(q, force)
          PROVE  proc'[p] = proc[p]
      BY <2>2, <3>4 DEF VerifyBegin, TypeOK
    <3>5. ASSUME NEW q \in Instances, Walk(q) PROVE proc'[p] = proc[p]
      <4>1. CASE p # q
        BY <3>5, <4>1 DEF Walk, TypeOK
      <4>2. CASE p = q
        <5>1. proc[p] \in Proc /\ proc \in [Instances -> Proc]
          BY DEF TypeOK
        <5>2. CASE Backend = "sqlite"
          <6> DEFINE ok == Continues(proc[p].from)
          <6>1. proc' = [proc EXCEPT ![p] = [proc[p] EXCEPT !.at = "reread", !.ok = ok]]
            BY <3>5, <4>2, <5>1, <5>2 DEF Walk, Proc
          <6>2. proc'[p].at = "reread"
            BY <5>1, <6>1 DEF Proc
          <6> QED BY <2>2, <6>2
        <5>3. CASE Backend # "sqlite"
          BY <2>2, <3>5, <4>2, <5>1, <5>3 DEF Walk, Idle
        <5> QED BY <5>2, <5>3
      <4> QED BY <4>1, <4>2
    <3>6. ASSUME NEW q \in Instances, Reread(q) PROVE proc'[p] = proc[p]
      BY <2>2, <3>6 DEF Reread, TypeOK, Idle
    <3>7. ASSUME NEW q \in Instances, Restart(q) PROVE proc'[p] = proc[p]
      BY <2>2, <3>7 DEF Restart, TypeOK, Idle
    <3>8. ASSUME NEW i \in DOMAIN rows, NEW c \in Contents, Edit(i, c)
          PROVE  proc'[p] = proc[p]
      BY <3>8 DEF Edit
    <3>9. CASE UNCHANGED vars
      BY <3>9 DEF vars
    <3>10. ASSUME NEW q \in Instances, InsertFails(q) PROVE proc'[p] = proc[p]
      BY <2>2, <3>10 DEF InsertFails, TypeOK, Idle
    <3> QED
      BY <1>2, <3>1, <3>2, <3>3, <3>4, <3>5, <3>6, <3>7, <3>8, <3>9, <3>10 DEF Next
  <2> QED BY <2>1, <2>2, LinkedFrame
<1> QED BY <1>1, <1>2

(* Whatever the backend and however many instances append, edit, crash and  *)
(* lose power: the table is one chain, whose bad rows are the edited ones.  *)
THEOREM OneChainHolds == Spec => []OneChain
<1>1. Linked => OneChain
  BY DEF Linked
<1> QED BY <1>1, TypeCorrect, LinkedInit, LinkedStep, PTL DEF Spec
----------------------------------------------------------------------------
(* Counters.                                                                *)

(* What a step does to a counter and to the table: both stay, or the table   *)
(* grows by a row that one instance counts, or nobody if the answer is lost, *)
(* or the counter is seeded from the table.                                  *)
Counted(p, q) == total'[p] = IF p = q THEN total[p] + 1 ELSE total[p]
Alone == \A p, q \in Instances : p = q

LEMMA CountsFlow ==
    ASSUME TypeOK, [Next]_vars, NEW p \in Instances
    PROVE  \/ total'[p] = total[p] /\ Len(rows') = Len(rows)
           \/ /\ Len(rows') = Len(rows) + 1
              /\ \E q \in Instances :
                    Counted(p, q) \/ (Backend # "sqlite" /\ total'[p] = total[p])
           \/ total'[p] = Len(rows')
<1> DEFINE Flows == \/ total'[p] = total[p] /\ Len(rows') = Len(rows)
                    \/ /\ Len(rows') = Len(rows) + 1
                       /\ \E q \in Instances :
                             Counted(p, q) \/ (Backend # "sqlite" /\ total'[p] = total[p])
                    \/ total'[p] = Len(rows')
<1> SUFFICES Flows
  OBVIOUS
<1>1. rows \in Seq(Row) /\ Len(rows) \in Nat /\ total \in [Instances -> Nat]
  BY DEF TypeOK
<1>2. ASSUME NEW q \in Instances, NEW c \in Contents, InsertRow(q, c) PROVE Flows
  <2>1. Len(rows') = Len(rows) + 1
    BY <1>1, <1>2 DEF InsertRow
  <2>2. Counted(p, q) \/ (Backend # "sqlite" /\ total'[p] = total[p])
    BY <1>1, <1>2 DEF InsertRow, CountInserted, Counted
  <2> QED BY <2>1, <2>2
<1>3. ASSUME NEW q \in Instances, Restart(q) PROVE Flows
  BY <1>1, <1>3 DEF Restart, SeedCounts
<1>4. ASSUME NEW n \in 0..Len(rows), PowerLoss(n) PROVE Flows
  BY <1>1, <1>4 DEF PowerLoss, SeedCounts
<1>5. ASSUME NEW q \in Instances, NEW i \in DOMAIN rows, SetHumanDecision(q, i) PROVE Flows
  BY <1>1, <1>5 DEF SetHumanDecision
<1>6. ASSUME NEW i \in DOMAIN rows, NEW c \in Contents, Edit(i, c) PROVE Flows
  BY <1>1, <1>6 DEF Edit
<1>7. ASSUME NEW q \in Instances,
             \/ ReadLast(q) \/ InsertFails(q)
             \/ \E force \in BOOLEAN : VerifyBegin(q, force)
             \/ Walk(q) \/ Reread(q)
      PROVE  Flows
  BY <1>7 DEF ReadLast, InsertFails, CountInserted, VerifyBegin, Walk, Reread
<1>8. CASE UNCHANGED vars
  BY <1>8 DEF vars
<1> HIDE DEF Flows
<1> QED BY <1>2, <1>3, <1>4, <1>5, <1>6, <1>7, <1>8 DEF Next

(* No counter shows a record that is not there, for any number of instances, *)
(* lost races, failed inserts, restarts and power failures, on either backend.*)
THEOREM CountsNeverExceedHolds == Spec => []CountsNeverExceed
<1>1. Init => CountsNeverExceed
  BY DEF Init, CountsNeverExceed
<1>2. TypeOK /\ CountsNeverExceed /\ [Next]_vars => CountsNeverExceed'
  <2> SUFFICES ASSUME TypeOK, CountsNeverExceed, [Next]_vars, NEW p \in Instances
               PROVE  total'[p] <= Len(rows')
    BY DEF CountsNeverExceed
  <2>1. total[p] \in Nat /\ Len(rows) \in Nat /\ total[p] <= Len(rows) /\ Len(rows') \in Nat
    BY TypeStep DEF TypeOK, CountsNeverExceed
  <2> QED BY <2>1, CountsFlow DEF Counted
<1> QED BY <1>1, <1>2, TypeCorrect, PTL DEF Spec

(* What the stores say of their counters, that appends keep them exact, is   *)
(* true of the only process on a SQLite file, whatever fails or is lost.     *)
THEOREM CountsAreExactAlone ==
    ASSUME Alone, Backend = "sqlite" PROVE Spec => []CountsAreExact
<1> DEFINE Exact == \A p \in Instances : total[p] = Len(rows)
<1>1. Init => Exact
  BY DEF Init
<1>2. TypeOK /\ Exact /\ [Next]_vars => Exact'
  <2> SUFFICES ASSUME TypeOK, Exact, [Next]_vars, NEW p \in Instances
               PROVE  total'[p] = Len(rows')
    OBVIOUS
  <2> QED BY CountsFlow DEF Counted, Alone
<1>3. Exact => CountsAreExact
  BY DEF CountsAreExact
<1> QED BY <1>1, <1>2, <1>3, TypeCorrect, PTL DEF Spec
----------------------------------------------------------------------------
(* Verification, where its answers can be relied on: on SQLite, or where one*)
(* instance has the table to itself.                                        *)

Reliable == Backend = "sqlite" \/ Alone

(* From a position on the chain a walk finds exactly the edits behind it.   *)
LEMMA WalkFindsEdits ==
    ASSUME TypeOK, Linked, NEW from \in Cursor, OnChain(rows, from)
    PROVE  Continues(from) <=> \A i \in edited : i <= from.seq
<1>1. /\ rows \in Seq(Row) /\ Len(rows) \in Nat /\ DOMAIN rows = 1..Len(rows)
      /\ from.seq \in 0..Len(rows)
  BY DEF TypeOK, OnChain
<1> DEFINE prev(i) == IF i = from.seq + 1 THEN from.hash ELSE rows[i-1].hash
<1>2. ASSUME NEW i \in (from.seq + 1)..Len(rows)
      PROVE  rows[i].prev = prev(i) /\ (i \notin edited <=> rows[i].hash = ChainHash(prev(i), rows[i].content))
  <2>1. i \in DOMAIN rows /\ prev(i) = IF i = 1 THEN Genesis ELSE rows[i-1].hash
    BY <1>1 DEF OnChain, HashAt
  <2> QED BY <2>1 DEF Linked, OneChain
<1>3. Continues(from) <=> \A i \in (from.seq + 1)..Len(rows) : i \notin edited
  BY <1>2 DEF Continues, Fingerprint
<1>4. (\A i \in (from.seq + 1)..Len(rows) : i \notin edited)
        <=> \A i \in edited : i <= from.seq
  <2>1. edited \subseteq 1..Len(rows)
    BY DEF Linked
  <2> QED BY <1>1, <2>1
<1> QED BY <1>3, <1>4

\* What an instance remembers of a verification is right.  On Postgres it also has
\* to remember, until it has walked, where the chain ends.
Trusted ==
    /\ \A p \in Instances : OnChain(rows, cache[p].at)
    /\ \A p \in Instances : proc[p].at = "walk" => OnChain(rows, proc[p].from)
    /\ \A p \in Instances : proc[p].at = "walk" => Backend = "sqlite" \/ proc[p].end = End
    /\ \A p \in Instances : answer[p] = "tampered" => edited # {}
    /\ \A p \in Instances : proc[p].at = "reread" /\ ~proc[p].ok => edited # {}

\* The same of one instance.
TrustedOf(p) ==
    /\ OnChain(rows, cache[p].at)
    /\ proc[p].at = "walk" => OnChain(rows, proc[p].from)
    /\ proc[p].at = "walk" => Backend = "sqlite" \/ proc[p].end = End
    /\ answer[p] = "tampered" => edited # {}
    /\ proc[p].at = "reread" /\ ~proc[p].ok => edited # {}

LEMMA TrustedIsOfAll == Trusted <=> \A p \in Instances : TrustedOf(p)
BY DEF Trusted, TrustedOf

LEMMA TrustedInit == Init => Trusted
<1> SUFFICES ASSUME Init PROVE Trusted
  OBVIOUS
<1>1. OnChain(rows, Start)
  BY TypeInit, EndsOnChain
<1> QED BY <1>1 DEF Init, Trusted, Fresh, Idle

(* An instance that does nothing in a step keeps what it knows.             *)
LEMMA TrustedFrame ==
    ASSUME Linked, NEW p \in Instances, TrustedOf(p),
           Keeps(rows', rows), edited \subseteq edited',
           cache'[p] = cache[p], answer'[p] = answer[p],
           proc'[p] = proc[p] \/ proc'[p].at \in {"idle", "insert"},
           proc'[p].at = "walk" => Backend = "sqlite" \/ End' = End
    PROVE  TrustedOf(p)'
<1>1. OnChain(rows', cache[p].at)
  BY OnChainStays DEF TrustedOf
<1>2. ASSUME proc'[p].at = "walk" PROVE OnChain(rows', proc'[p].from)
  <2>1. OnChain(rows, proc[p].from) /\ proc'[p] = proc[p]
    BY <1>2 DEF TrustedOf
  <2> QED BY <2>1, OnChainStays
<1> QED BY <1>1, <1>2 DEF TrustedOf

(* Who edits a row leaves the hash that the chain ends with.                *)
LEMMA EditKeepsEnd ==
    ASSUME TypeOK, NEW i \in DOMAIN rows, NEW c \in Contents, Edit(i, c)
    PROVE  End' = End
<1>1. /\ rows \in Seq(Row) /\ Len(rows) \in Nat /\ DOMAIN rows = 1..Len(rows)
      /\ rows' = [rows EXCEPT ![i].content = c]
  BY DEF TypeOK, Edit
<1>2. Len(rows) >= 1 /\ Len(rows') = Len(rows) /\ rows # <<>> /\ rows' # <<>>
  BY <1>1
<1>3. rows'[Len(rows)].hash = rows[Len(rows)].hash
  <2>1. rows[Len(rows)] \in Row /\ Len(rows) \in DOMAIN rows
    BY <1>1, <1>2
  <2> QED BY <1>1, <2>1 DEF Row
<1> QED BY <1>2, <1>3 DEF End

(* A walk from a position on the chain arrives at its end.                  *)
LEMMA WalkArrives ==
    ASSUME TypeOK, NEW from, OnChain(rows, from)
    PROVE  OnChain(rows, [seq |-> End.seq, hash |-> HashAfter(from)])
<1>1. Len(rows) \in Nat /\ (rows = <<>> <=> Len(rows) = 0) /\ from.seq \in 0..Len(rows)
  BY DEF TypeOK, OnChain
<1>2. End.seq = Len(rows)
  BY <1>1 DEF End, Start
<1>3. HashAfter(from) = HashAt(rows, Len(rows))
  BY <1>1 DEF HashAfter, OnChain, HashAt
<1> QED BY <1>1, <1>2, <1>3 DEF OnChain

LEMMA TrustedStep ==
    ASSUME Reliable, TypeOK, Linked, Trusted, [Next]_vars
    PROVE  Trusted'
<1> SUFFICES ASSUME NEW p \in Instances PROVE TrustedOf(p)'
  BY DEF Trusted, TrustedOf
<1>1. TrustedOf(p) /\ proc[p] \in Proc /\ proc \in [Instances -> Proc]
  BY TrustedIsOfAll DEF TypeOK
<1>0. Backend = "sqlite" \/ \A q \in Instances : q = p
  BY DEF Reliable, Alone
<1>2. CASE \E n \in 0..Len(rows) : PowerLoss(n)
  <2>1. /\ cache'[p].at = Start /\ proc'[p].at = "idle" /\ answer'[p] = "none"
    BY <1>2 DEF PowerLoss, Fresh, Idle
  <2>2. TypeOK'
    BY TypeStep
  <2>3. OnChain(rows', Start)
    BY <2>2, EndsOnChain DEF OnChain, HashAt, Start, Genesis, TypeOK
  <2> QED BY <2>1, <2>3 DEF TrustedOf
<1>3. CASE \A n \in 0..Len(rows) : ~PowerLoss(n)
  <2>1. Keeps(rows', rows) /\ edited \subseteq edited'
    BY <1>3, StepKeeps
  <2>2. ASSUME cache'[p] = cache[p], answer'[p] = answer[p],
               proc'[p] = proc[p] \/ proc'[p].at \in {"idle", "insert"},
               proc'[p].at = "walk" => Backend = "sqlite" \/ End' = End
        PROVE  TrustedOf(p)'
    BY <1>1, <2>1, <2>2, TrustedFrame
  <2>3. ASSUME NEW q \in Instances, ReadLast(q) PROVE TrustedOf(p)'
    BY <1>1, <2>2, <2>3 DEF ReadLast, TypeOK, Idle, End
  <2>4. ASSUME NEW q \in Instances, NEW c \in Contents, InsertRow(q, c)
        PROVE  TrustedOf(p)'
    BY <1>0, <1>1, <2>2, <2>4 DEF InsertRow, TypeOK, Idle
  <2>5. ASSUME NEW q \in Instances, NEW i \in DOMAIN rows, SetHumanDecision(q, i)
        PROVE  TrustedOf(p)'
    BY <1>0, <2>2, <2>5 DEF SetHumanDecision
  <2>6. ASSUME NEW q \in Instances, NEW force \in BOOLEAN, VerifyBegin(q, force)
        PROVE  TrustedOf(p)'
    <3>1. CASE q # p
      BY <1>1, <2>2, <2>6, <3>1 DEF VerifyBegin, TypeOK, End
    <3>2. CASE q = p
      <4>1. rows' = rows /\ edited' = edited /\ cache' = cache
        BY <2>6 DEF VerifyBegin
      <4>2. CASE proc' = proc
        <5>1. answer'[p] = "intact"
          BY <2>6, <3>2, <4>2, <1>1 DEF VerifyBegin, TypeOK
        <5> QED BY <1>1, <4>1, <4>2, <5>1 DEF TrustedOf, End
      <4>3. CASE /\ answer' = answer
                 /\ proc' = [proc EXCEPT ![p] = [at |-> "walk", ok |-> TRUE, end |-> End,
                                                 from |-> ResumeFrom(p, force)]]
        <5>1. OnChain(rows, ResumeFrom(p, force))
          BY <1>1, EndsOnChain DEF ResumeFrom, TrustedOf
        <5>2. /\ proc'[p].at = "walk" /\ proc'[p].from = ResumeFrom(p, force)
              /\ proc'[p].end = End /\ End' = End
          BY <1>1, <4>1, <4>3 DEF End
        <5> QED BY <1>1, <4>1, <4>3, <5>1, <5>2 DEF TrustedOf
      <4> QED BY <2>6, <3>2, <4>2, <4>3 DEF VerifyBegin
    <3> QED BY <3>1, <3>2
  <2>7. ASSUME NEW q \in Instances, Walk(q) PROVE TrustedOf(p)'
    <3>1. CASE q # p
      BY <1>0, <1>1, <2>2, <2>7, <3>1 DEF Walk, TypeOK
    <3>2. CASE q = p /\ Backend = "sqlite"
      <4> DEFINE ok == Continues(proc[p].from)
      <4>1. /\ proc[p].at = "walk"
            /\ proc' = [proc EXCEPT ![p] = [proc[p] EXCEPT !.at = "reread", !.ok = ok]]
            /\ UNCHANGED <<rows, edited, cache, answer>>
        BY <1>1, <2>7, <3>2 DEF Walk, Proc
      <4>2. proc'[p].at = "reread" /\ proc'[p].ok = ok
        BY <1>1, <4>1 DEF Proc
      <4>3. ~ok => edited # {}
        <5>1. proc[p].from \in Cursor /\ OnChain(rows, proc[p].from)
          BY <1>1, <4>1 DEF Proc, TrustedOf
        <5> QED BY <5>1, WalkFindsEdits
      <4> HIDE DEF ok
      <4> QED BY <1>1, <4>1, <4>2, <4>3 DEF TrustedOf
    <3>3. CASE q = p /\ Backend # "sqlite"
      <4> DEFINE ok == Continues(proc[p].from)
                 there == [seq |-> proc[p].end.seq, hash |-> HashAfter(proc[p].from)]
      <4>1. /\ proc[p].at = "walk" /\ proc'[p].at = "idle"
            /\ cache'[p].at = IF ok THEN there ELSE Start
            /\ answer'[p] = IF ok THEN "intact" ELSE "tampered"
            /\ rows' = rows /\ edited' = edited
        BY <1>1, <2>7, <3>3 DEF Walk, Answer, TypeOK, Idle
      <4>2. proc[p].from \in Cursor /\ OnChain(rows, proc[p].from) /\ proc[p].end = End
        BY <1>1, <3>3, <4>1 DEF Proc, TrustedOf
      <4>3. ~ok => edited # {}
        BY <4>2, WalkFindsEdits
      <4>4. OnChain(rows, there) /\ OnChain(rows, Start)
        BY <4>2, WalkArrives, EndsOnChain
      <4> HIDE DEF ok, there
      <4> QED BY <4>1, <4>3, <4>4 DEF TrustedOf
    <3> QED BY <3>1, <3>2, <3>3
  <2>8. ASSUME NEW q \in Instances, Reread(q) PROVE TrustedOf(p)'
    <3>1. CASE q # p
      BY <1>0, <1>1, <2>2, <2>8, <3>1 DEF Reread, Answer, TypeOK
    <3>2. CASE q = p
      <4>1. /\ proc[p].at = "reread" /\ proc'[p].at = "idle"
            /\ cache'[p] = Verified(p)
            /\ answer'[p] = IF proc[p].ok THEN "intact" ELSE "tampered"
            /\ rows' = rows /\ edited' = edited
        BY <1>1, <2>8, <3>2 DEF Reread, Answer, TypeOK, Idle
      <4>2. OnChain(rows, Verified(p).at)
        BY <1>1, EndsOnChain DEF Verified, TrustedOf
      <4> QED BY <1>1, <4>1, <4>2 DEF TrustedOf
    <3> QED BY <3>1, <3>2
  <2>9. ASSUME NEW q \in Instances, Restart(q) PROVE TrustedOf(p)'
    <3>1. CASE q # p
      BY <1>0, <1>1, <2>2, <2>9, <3>1 DEF Restart, TypeOK
    <3>2. CASE q = p
      <4>1. /\ cache'[p].at = Start /\ proc'[p].at = "idle" /\ answer'[p] = "none"
            /\ rows' = rows
        BY <1>1, <2>9, <3>2 DEF Restart, TypeOK, Fresh, Idle
      <4> QED BY <4>1, EndsOnChain DEF TrustedOf
    <3> QED BY <3>1, <3>2
  <2>10. ASSUME NEW i \in DOMAIN rows, NEW c \in Contents, Edit(i, c) PROVE TrustedOf(p)'
    BY <2>2, <2>10, EditKeepsEnd DEF Edit
  <2>11. CASE UNCHANGED vars
    BY <2>2, <2>11 DEF vars, End
  <2>12. ASSUME NEW q \in Instances, InsertFails(q) PROVE TrustedOf(p)'
    BY <1>1, <2>2, <2>12 DEF InsertFails, TypeOK, Idle, End
  <2> QED
    BY <1>3, <2>3, <2>4, <2>5, <2>6, <2>7, <2>8, <2>9, <2>10, <2>11, <2>12 DEF Next
<1> QED BY <1>2, <1>3

\* On Postgres one of two instances may remember a position that is on no chain.
SafeCaches == Reliable => Trusted

LEMMA SafeCachesHolds == Spec => [](TypeOK /\ Linked /\ SafeCaches)
<1>1. Init => SafeCaches
  BY TrustedInit DEF SafeCaches
<1>2. TypeOK /\ Linked /\ SafeCaches /\ [Next]_vars => SafeCaches'
  BY TrustedStep DEF SafeCaches
<1> QED BY <1>1, <1>2, TypeInit, TypeStep, LinkedInit, LinkedStep, PTL DEF Spec

(* On SQLite, or alone on the table, a verification that says tampered is   *)
(* right: no number of instances, appends, human decisions, restarts or     *)
(* power failures makes verify_chain cry wolf.                              *)
THEOREM NoFalseAlarmHolds == Spec => [](Reliable => NoFalseAlarm)
<1>1. SafeCaches => (Reliable => NoFalseAlarm)
  BY DEF SafeCaches, Trusted, NoFalseAlarm
<1> QED BY <1>1, SafeCachesHolds, PTL

(* There a walk from genesis or from a verified prefix finds the edits      *)
(* behind it, all of them and no others.                                    *)
THEOREM WalkIsExactHolds == Spec => [](Reliable => WalkIsExact)
<1>1. TypeOK /\ Linked /\ SafeCaches => (Reliable => WalkIsExact)
  <2> SUFFICES ASSUME TypeOK, Linked, Trusted PROVE WalkIsExact
    BY DEF SafeCaches
  <2>1. ASSUME NEW from \in {Start} \cup {cache[p].at : p \in Instances}
        PROVE  from \in Cursor /\ OnChain(rows, from)
    BY <2>1, StartType, EndsOnChain DEF TypeOK, Trusted
  <2> QED BY <2>1, WalkFindsEdits DEF WalkIsExact
<1> QED BY <1>1, SafeCachesHolds, PTL
----------------------------------------------------------------------------
(* The alarm stands.                                                        *)

\* An instance that has raised the alarm trusts nothing: it starts from genesis,
\* and what it has walked since was bad.
Alarmed(p) ==
    answer[p] = "tampered" =>
        /\ ~cache[p].ok
        /\ proc[p].at = "walk" => proc[p].from = Start
        /\ proc[p].at = "reread" => ~proc[p].ok

(* Steps in which an instance does nothing, or begins to append.            *)
LEMMA AlarmedFrame ==
    ASSUME NEW p \in Instances, Alarmed(p), cache'[p] = cache[p], answer'[p] = answer[p],
           proc'[p] = proc[p] \/ proc'[p].at \in {"idle", "insert"}
    PROVE  Alarmed(p)' /\ (answer[p] = "tampered" => answer'[p] # "intact")
BY DEF Alarmed

(* A verification after the alarm walks from genesis, over a row that was   *)
(* edited, and so it finds it again.                                        *)
LEMMA AlarmedStep ==
    ASSUME Reliable, TypeOK, Linked, Trusted, [Next]_vars,
           NEW p \in Instances, Alarmed(p)
    PROVE  Alarmed(p)' /\ (answer[p] = "tampered" => answer'[p] # "intact")
<1> DEFINE Goal == Alarmed(p)' /\ (answer[p] = "tampered" => answer'[p] # "intact")
<1> SUFFICES Goal
  OBVIOUS
<1>1. proc[p] \in Proc /\ proc \in [Instances -> Proc]
  BY DEF TypeOK
<1>2. ASSUME cache'[p] = cache[p], answer'[p] = answer[p],
             proc'[p] = proc[p] \/ proc'[p].at \in {"idle", "insert"}
      PROVE  Goal
  BY <1>2, AlarmedFrame
<1>3. ASSUME answer'[p] = "none" PROVE Goal
  BY <1>3 DEF Alarmed
<1> HIDE DEF Goal
<1>4. ASSUME NEW n \in 0..Len(rows), PowerLoss(n) PROVE Goal
  BY <1>3, <1>4 DEF PowerLoss
<1>5. ASSUME NEW q \in Instances, ReadLast(q) PROVE Goal
  BY <1>1, <1>2, <1>5 DEF ReadLast, TypeOK, Idle
<1>6. ASSUME NEW q \in Instances, NEW c \in Contents, InsertRow(q, c) PROVE Goal
  BY <1>1, <1>2, <1>6 DEF InsertRow, TypeOK, Idle
<1>7. ASSUME NEW q \in Instances, NEW i \in DOMAIN rows, SetHumanDecision(q, i) PROVE Goal
  BY <1>2, <1>7 DEF SetHumanDecision
<1>8. ASSUME NEW q \in Instances, NEW force \in BOOLEAN, VerifyBegin(q, force) PROVE Goal
  <2>1. CASE q # p
    BY <1>1, <1>2, <1>8, <2>1 DEF VerifyBegin, TypeOK
  <2>2. CASE q = p /\ answer[p] # "tampered"
    <3>1. answer'[p] # "tampered"
      BY <1>8, <2>2 DEF VerifyBegin, TypeOK
    <3> QED BY <2>2, <3>1 DEF Goal, Alarmed
  <2>3. CASE q = p /\ answer[p] = "tampered"
    <3>1. /\ cache' = cache /\ answer' = answer
          /\ proc' = [proc EXCEPT ![p] = [at |-> "walk", ok |-> TRUE, end |-> End, from |-> Start]]
      BY <1>8, <2>3 DEF VerifyBegin, ResumeFrom, Alarmed
    <3>2. proc'[p].at = "walk" /\ proc'[p].from = Start
      BY <1>1, <3>1
    <3> QED BY <2>3, <3>1, <3>2 DEF Goal, Alarmed
  <2> QED BY <2>1, <2>2, <2>3
<1>9. ASSUME NEW q \in Instances, Walk(q) PROVE Goal
  <2>1. CASE q # p
    BY <1>1, <1>2, <1>9, <2>1 DEF Walk, Answer, TypeOK
  <2>2. CASE q = p
    <3> DEFINE ok == Continues(proc[p].from)
    <3>1. proc[p].at = "walk"
      BY <1>9, <2>2 DEF Walk
    <3>2. answer[p] = "tampered" => ~ok
      <4> SUFFICES ASSUME answer[p] = "tampered" PROVE ~ok
        OBVIOUS
      <4>1. proc[p].from = Start /\ edited # {}
        BY <3>1 DEF Alarmed, Trusted
      <4>2. PICK i : i \in edited
        BY <4>1
      <4>3. i \in 1..Len(rows)
        BY <4>2 DEF Linked
      <4>4. ~(i <= Start.seq)
        BY <4>3 DEF Start
      <4> QED BY <4>1, <4>2, <4>4, StartType, EndsOnChain, WalkFindsEdits
    <3>3. CASE Backend = "sqlite"
      <4>1. /\ cache' = cache /\ answer' = answer
            /\ proc' = [proc EXCEPT ![p] = [proc[p] EXCEPT !.at = "reread", !.ok = ok]]
        BY <1>1, <1>9, <2>2, <3>3 DEF Walk, Proc
      <4>2. proc'[p].at = "reread" /\ proc'[p].ok = ok
        BY <1>1, <4>1 DEF Proc
      <4> HIDE DEF ok
      <4> QED BY <3>2, <4>1, <4>2 DEF Goal, Alarmed
    <3>4. CASE Backend # "sqlite"
      <4>1. /\ cache'[p].ok = ok /\ proc'[p].at = "idle"
            /\ answer'[p] = IF ok THEN "intact" ELSE "tampered"
        BY <1>1, <1>9, <2>2, <3>4 DEF Walk, Answer, TypeOK, Idle
      <4> HIDE DEF ok
      <4> QED BY <3>2, <4>1 DEF Goal, Alarmed
    <3> QED BY <3>3, <3>4
  <2> QED BY <2>1, <2>2
<1>10. ASSUME NEW q \in Instances, Reread(q) PROVE Goal
  <2>1. CASE q # p
    BY <1>1, <1>2, <1>10, <2>1 DEF Reread, Answer, TypeOK
  <2>2. CASE q = p
    <3>1. /\ proc[p].at = "reread" /\ proc'[p].at = "idle"
          /\ cache'[p] = Verified(p)
          /\ answer'[p] = IF proc[p].ok THEN "intact" ELSE "tampered"
      BY <1>1, <1>10, <2>2 DEF Reread, Answer, TypeOK, Idle
    <3>2. cache'[p].ok = proc[p].ok
      BY <3>1 DEF Verified
    <3> QED BY <3>1, <3>2 DEF Goal, Alarmed
  <2> QED BY <2>1, <2>2
<1>11. ASSUME NEW q \in Instances, Restart(q) PROVE Goal
  <2>1. CASE q # p
    BY <1>1, <1>2, <1>11, <2>1 DEF Restart, TypeOK
  <2>2. CASE q = p
    BY <1>3, <1>11, <2>2 DEF Restart, TypeOK
  <2> QED BY <2>1, <2>2
<1>12. ASSUME NEW i \in DOMAIN rows, NEW c \in Contents, Edit(i, c) PROVE Goal
  BY <1>2, <1>12 DEF Edit
<1>13. CASE UNCHANGED vars
  BY <1>2, <1>13 DEF vars
<1>14. ASSUME NEW q \in Instances, InsertFails(q) PROVE Goal
  BY <1>1, <1>2, <1>14 DEF InsertFails, TypeOK, Idle
<1> QED
  BY <1>4, <1>5, <1>6, <1>7, <1>8, <1>9, <1>10, <1>11, <1>12, <1>13, <1>14 DEF Next

(* There an instance that has found the chain tampered with never calls it  *)
(* intact again in its life, forced or not.                                 *)
THEOREM AlarmStandsHolds ==
    ASSUME Reliable PROVE Spec => AlarmStands
<1> DEFINE AllAlarmed == \A p \in Instances : Alarmed(p)
<1>1. Init => AllAlarmed
  BY DEF Init, Alarmed
<1>2. TypeOK /\ Linked /\ SafeCaches /\ AllAlarmed /\ [Next]_vars => AllAlarmed'
  BY AlarmedStep DEF SafeCaches
<1>3. TypeOK /\ Linked /\ SafeCaches /\ AllAlarmed /\ [Next]_vars =>
        [\A p \in Instances : answer[p] = "tampered" => answer'[p] # "intact"]_vars
  BY AlarmedStep DEF SafeCaches
<1> HIDE DEF AllAlarmed
<1> QED BY <1>1, <1>2, <1>3, SafeCachesHolds, PTL DEF Spec, AlarmStands
=============================================================================
