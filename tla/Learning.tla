------------------------------ MODULE Learning ------------------------------
(***************************************************************************)
(* The learning loop: outcomes of human reviews, the weights recalibrated  *)
(* from them, and the file in which both live (learning.py).               *)
(*                                                                         *)
(* Two processes open the file.  The API records an outcome whenever a     *)
(* review is resolved and recalibrates on demand; the weekly job           *)
(* (recalibrate_job.py) recalibrates every brand.  Each reads the file once*)
(* when it starts, works on its own copy, and writes the WHOLE copy back   *)
(* after every change (_save): it opens path + ".tmp", writes, and renames *)
(* that to the file.  Both processes use the same temporary name.          *)
(*                                                                         *)
(* A recalibration saves twice, first the weights and then the cursor of   *)
(* the outcomes it used.  API handlers are coroutines that never await, so *)
(* nothing of the API runs in between; the other process and a crash do.   *)
(***************************************************************************)
EXTENDS Weights, Sequences, FiniteSets

CONSTANTS Brands,
          Kinds,        \* outcomes up to what recalibrate reads of them
          Candidates,   \* weights an operator proposes for a shadow run
          MinOutcomes,  \* --min-outcomes, min_outcomes
          None,         \* no weights, no brand, no file
          Blank, Torn,  \* a file without a byte, and one that is no document
          MaxInputs, MaxFaults,  \* bounds of the instance,
          MaxWork                \* and of the two together

ASSUME KindsAreSeen == \A k \in Kinds : k.approved \in BOOLEAN /\ k.high \subseteq SIGNALS
ASSUME CandidatesAreWeights == Candidates \subseteq WeightVector
ASSUME CountsAreNat == MinOutcomes \in Nat /\ {MaxInputs, MaxFaults, MaxWork} \subseteq Nat

VARIABLES file,         \* the content of the file
          tmp,          \* the content of path + ".tmp", None if there is none
          mem,          \* mem[p]: the copy process p works on
          pc,           \* pc[p]: what it is doing
          save,         \* save[p]: how far its _save is
          brand,        \* brand[p]: the brand it recalibrates
          todo,         \* the brands the job has still to do
          dry,          \* --dry-run
          chain,        \* the weight changes in the audit trail
          inputs,       \* outcomes and proposals so far; outcomes are numbered
          acked,        \* history: the outcomes the API has saved
          exposed,      \* history: the outcomes recorded while a job was running
          overlapped,   \* history: two saves were under way at once
          cuts,         \* history: recalibrations cut between their two saves
          faults        \* crashes and failed saves so far

world == <<chain, inputs, acked, todo, dry>>
files == <<file, tmp, save>>
history == <<exposed, overlapped, cuts, faults>>
vars == <<files, mem, pc, brand, world, history>>

Procs == {"api", "job"}
Ids == 1..MaxInputs
Outcome == [id : Ids, brand : Brands, kind : Kinds]
\* History: used[i] counts how often outcome i has moved these weights, by says
\* who has set them.
WeightSet == [weights : WeightVector, version : Nat, used : [Ids -> Nat],
              by : {"api", "job", "dry run"}]
ASSUME NoneIsNoWeights == None \notin WeightSet
Change == [brand : Brands, version : Nat]
Content == [outcomes : Seq(Outcome), weights : [Brands -> WeightSet \cup {None}],
            shadow : [Brands -> WeightVector \cup {None}], upto : [Brands -> Nat]]
Empty == [outcomes |-> <<>>, weights |-> [b \in Brands |-> None],
          shadow |-> [b \in Brands |-> None], upto |-> [b \in Brands |-> 0]]
ASSUME NoDocument == {None, Blank, Torn} \cap Content = {} /\ Blank # None /\ Torn # None

Init ==
    /\ file = Empty /\ tmp = None
    /\ mem = [p \in Procs |-> Empty]
    /\ pc = [p \in Procs |-> IF p = "api" THEN "idle" ELSE "off"]
    /\ save = [p \in Procs |-> "none"]
    /\ brand = [p \in Procs |-> None]
    /\ todo = {} /\ dry = FALSE
    /\ chain = {} /\ inputs = 0 /\ acked = {}
    /\ exposed = {} /\ overlapped = FALSE /\ cuts = 0 /\ faults = 0
----------------------------------------------------------------------------
(* One copy of the store.                                                   *)

OfBrand(s, b) == {i \in DOMAIN s.outcomes : s.outcomes[i].brand = b}

\* unrecalibrated: of the brand's own outcomes, those after its cursor.
SlicedFirst(s, b) == {i \in OfBrand(s, b) : i > s.upto[b]}
unrecalibrated(s, b) ==
    {i \in OfBrand(s, b) : Cardinality({j \in OfBrand(s, b) : j <= i}) > s.upto[b]}

OldWeights(s, b) == IF s.weights[b] = None THEN DEFAULT_WEIGHTS ELSE s.weights[b].weights
Unused == [i \in Ids |-> 0]
OldUsed(s, b) == IF s.weights[b] = None THEN Unused ELSE s.weights[b].used
VersionOf(s, b) == IF s.weights[b] = None THEN 0 ELSE s.weights[b].version

\* One signal over the outcomes in which it scored high: humans who mostly
\* approved overrule it, humans who mostly rejected confirm it.
Nudge(s, batch, signal) ==
    LET high == {i \in batch : signal \in s.outcomes[i].kind.high}
        approved == Cardinality({i \in high : s.outcomes[i].kind.approved})
        all == Cardinality(high)
    IN  IF high = {} THEN 0
        ELSE IF 10 * approved >= 7 * all THEN -STEP
        ELSE IF 10 * approved <= 3 * all THEN STEP ELSE 0

Nudged(s, b) == [i \in SIGNALS |-> OldWeights(s, b)[i] + Nudge(s, unrecalibrated(s, b), i)]

\* set_weights; a promotion retires the shadow run of the brand.
Promoted(s, b, who) ==
    LET batch == unrecalibrated(s, b)
    IN  [s EXCEPT !.shadow[b] = None,
                  !.weights[b] =
                    [weights |-> clamp_weights(Nudged(s, b)),
                     version |-> VersionOf(s, b) + 1,
                     used |-> [i \in Ids |-> OldUsed(s, b)[i]
                                 + Cardinality({j \in batch : s.outcomes[j].id = i})],
                     by |-> who]]

\* mark_recalibrated with the number of all outcomes of the brand.
MarkedAll(s, b) == [s EXCEPT !.upto[b] = Len(s.outcomes)]
Marked(s, b) ==
    LET total == Cardinality(OfBrand(s, b))
    IN  [s EXCEPT !.upto[b] = IF total > @ THEN total ELSE @]
----------------------------------------------------------------------------
(* The file.                                                                *)

Readable(content) == content \notin {None, Blank, Torn}

Room == inputs + faults < MaxWork
Fault == faults < MaxFaults /\ Room /\ faults' = faults + 1

\* p has changed its copy to s and now saves it: "start" is before the open, then
\* comes where the file is it has opened, "closed" once that is written.
Changes(p, s, why) ==
    /\ mem' = [mem EXCEPT ![p] = s]
    /\ pc' = [pc EXCEPT ![p] = why]
    /\ save' = [save EXCEPT ![p] = "start"]
    /\ UNCHANGED <<file, tmp>>

Saving(p) == save[p] \notin {"none", "start"}

\* open(tmp, "w") creates the file, or empties the one that is there.
OpenInPlace(p) ==
    /\ save[p] = "start"
    /\ file' = Blank
    /\ save' = [save EXCEPT ![p] = "file"]
    /\ overlapped' = (overlapped \/ \E q \in Procs \ {p} : Saving(q))
    /\ UNCHANGED <<tmp, mem, pc, brand, world, exposed, cuts, faults>>
Open(p) ==
    /\ save[p] = "start"
    /\ tmp' = Blank
    /\ save' = [save EXCEPT ![p] = "tmp"]
    /\ overlapped' = (overlapped \/ \E q \in Procs \ {p} : Saving(q))
    /\ UNCHANGED <<file, mem, pc, brand, world, exposed, cuts, faults>>

\* A document goes out when the file is closed.  Over bytes of the other process it
\* leaves the end of theirs, if that was the longer one.
Written(p, content) == IF content = Blank THEN {mem[p]} ELSE {mem[p], Torn}

\* The bytes go where the opened file is by now: to path + ".tmp", to the file the
\* other process has made of it, or to one that has no name any more.
Write(p) ==
    /\ \/ save[p] = "tmp" /\ tmp' \in Written(p, tmp) /\ UNCHANGED file
       \/ save[p] = "file" /\ file' \in Written(p, file) /\ UNCHANGED tmp
       \/ save[p] = "gone" /\ UNCHANGED <<file, tmp>>
    /\ save' = [save EXCEPT ![p] = "closed"]
    /\ UNCHANGED <<mem, pc, brand, world, history>>

\* os.replace renames whatever has the temporary name, under an open file too.
Moved(place) == CASE place = "tmp" -> "file" [] place = "file" -> "gone" [] OTHER -> place
Replaces(p, next) ==
    /\ save[p] = "closed"
    /\ tmp # None
    /\ file' = tmp /\ tmp' = None
    /\ save' = [q \in Procs |-> IF q = p THEN next ELSE Moved(save[q])]

\* A save that raises, or whose process dies, may have written some of its bytes.
Interrupted(p) ==
    /\ tmp' \in IF save[p] = "tmp" THEN {tmp, Torn} ELSE {tmp}
    /\ file' \in IF save[p] = "file" THEN {file, Torn} ELSE {file}
    /\ save' = [save EXCEPT ![p] = "none"]

\* Between the change of the weights and the end of the second save.
Halfway(p) == pc[p] \in {"promoting", "marking"}
CutIf(halfway) == cuts' = IF halfway THEN cuts + 1 ELSE cuts

\* A process that starts reads the file; it ends there if that is no document.
OpensEmpty(p) == mem' = [mem EXCEPT ![p] = Empty]
Opens(p) == mem' = [mem EXCEPT ![p] = file]

\* The first save of recalibrate has returned: mark_recalibrated.
MarkLate(p) ==
    /\ pc[p] = "promoting"
    /\ Replaces(p, "none")
    /\ pc' = [pc EXCEPT ![p] = IF p = "api" THEN "idle" ELSE "reporting"]
    /\ UNCHANGED <<mem, brand, world, history>>
Mark(p) ==
    /\ pc[p] = "promoting"
    /\ Replaces(p, "start")
    /\ mem' = [mem EXCEPT ![p] = Marked(mem[p], brand[p])]
    /\ pc' = [pc EXCEPT ![p] = "marking"]
    /\ UNCHANGED <<brand, world, history>>
----------------------------------------------------------------------------
(* The API.                                                                 *)

\* record, at the end of POST /v1/reviews/{id}/decision.
Record(b, k) ==
    /\ pc["api"] = "idle"
    /\ inputs < MaxInputs /\ Room
    /\ inputs' = inputs + 1
    /\ Changes("api", [mem["api"] EXCEPT !.outcomes =
                          Append(@, [id |-> inputs + 1, brand |-> b, kind |-> k])], "recording")
    /\ exposed' = IF pc["job"] # "off" THEN exposed \cup {inputs + 1} ELSE exposed
    /\ UNCHANGED <<brand, chain, acked, todo, dry, overlapped, cuts, faults>>

\* start_shadow, POST /v1/learning/shadow.
StartShadow(b, w) ==
    /\ pc["api"] = "idle"
    /\ inputs < MaxInputs /\ Room
    /\ inputs' = inputs + 1
    /\ Changes("api", [mem["api"] EXCEPT !.shadow[b] = clamp_weights(w)], "proposing")
    /\ UNCHANGED <<brand, chain, acked, todo, dry, history>>

\* The first half of recalibrate: the weights.
Enough(p, b) == Cardinality(unrecalibrated(mem[p], b)) >= MinOutcomes

\* POST /v1/learning/recalibrate; it returns the change and appends nothing to
\* the audit trail.
ApiRecalibrate(b) ==
    /\ pc["api"] = "idle"
    /\ Enough("api", b)
    /\ Changes("api", Promoted(mem["api"], b, "api"), "promoting")
    /\ brand' = [brand EXCEPT !["api"] = b]
    /\ UNCHANGED <<world, history>>

\* The last save of a request has returned, and so does the request.  Bound: as
\* inputs counts proposals too, the outcome it has recorded is the last input.
ApiReturns ==
    /\ pc["api"] \in {"recording", "proposing", "marking"}
    /\ Replaces("api", "none")
    /\ acked' = IF pc["api"] = "recording" THEN acked \cup {inputs} ELSE acked
    /\ pc' = [pc EXCEPT !["api"] = "idle"]
    /\ brand' = [brand EXCEPT !["api"] = None]
    /\ UNCHANGED <<mem, chain, inputs, todo, dry, history>>

\* _save raises, for whatever reason or because the other process has taken the
\* temporary file: the change stays in the memory of the API.
ApiFails ==
    /\ save["api"] # "none"
    /\ Fault
    /\ Interrupted("api")
    /\ CutIf(Halfway("api"))
    /\ pc' = [pc EXCEPT !["api"] = "idle"]
    /\ brand' = [brand EXCEPT !["api"] = None]
    /\ UNCHANGED <<mem, world, exposed, overlapped>>

ApiDies ==
    /\ pc["api"] # "off"
    /\ Fault
    /\ Interrupted("api")
    /\ CutIf(Halfway("api"))
    /\ mem' = [mem EXCEPT !["api"] = Empty]
    /\ pc' = [pc EXCEPT !["api"] = "off"]
    /\ brand' = [brand EXCEPT !["api"] = None]
    /\ UNCHANGED <<world, exposed, overlapped>>

ApiStarts ==
    /\ pc["api"] = "off"
    /\ Readable(file)
    /\ Opens("api")
    /\ CutIf(Halfway("job"))
    /\ pc' = [pc EXCEPT !["api"] = "idle"]
    /\ UNCHANGED <<files, brand, world, exposed, overlapped, faults>>
----------------------------------------------------------------------------
(* The weekly job.                                                          *)

BrandsSeen(s) == {b \in Brands : OfBrand(s, b) # {}}

\* With --brand it does one brand, else each brand that has outcomes.  A brand
\* without enough new ones is skipped: only the job changes its copy, so what is
\* due is known from the start.  A run with nothing to do changes nothing.
JobStart(some) ==
    LET due == {b \in some : Cardinality(unrecalibrated(file, b)) >= MinOutcomes}
    IN  /\ pc["job"] = "off"
        /\ due # {}
        /\ Opens("job")
        /\ todo' = due
        /\ dry' \in BOOLEAN
        /\ CutIf(Halfway("api"))
        /\ exposed' = IF pc["api"] = "recording" THEN exposed \cup {inputs} ELSE exposed
        /\ pc' = [pc EXCEPT !["job"] = "next"]
        /\ UNCHANGED <<files, brand, chain, inputs, acked, overlapped, faults>>
JobStarts ==
    /\ Readable(file)
    /\ JobStart(BrandsSeen(file)) \/ \E b \in Brands : JobStart({b})

JobRecalibrate(b) ==
    /\ pc["job"] = "next"
    /\ b \in todo
    /\ Changes("job", Promoted(mem["job"], b, IF dry THEN "dry run" ELSE "job"), "promoting")
    /\ todo' = todo \ {b}
    /\ brand' = [brand EXCEPT !["job"] = b]
    /\ UNCHANGED <<chain, inputs, acked, dry, history>>

\* The cursor is saved.
JobMarked ==
    /\ pc["job"] = "marking"
    /\ Replaces("job", "none")
    /\ pc' = [pc EXCEPT !["job"] = "reporting"]
    /\ UNCHANGED <<mem, brand, world, history>>

\* The job's copy goes with its process.
JobExits ==
    /\ pc' = [pc EXCEPT !["job"] = "off"]
    /\ mem' = [mem EXCEPT !["job"] = Empty]
    /\ brand' = [brand EXCEPT !["job"] = None]
    /\ todo' = {} /\ dry' = FALSE
    /\ UNCHANGED <<inputs, acked, exposed, overlapped>>

JobGoesOn ==
    \/ /\ todo # {}
       /\ pc' = [pc EXCEPT !["job"] = "next"]
       /\ UNCHANGED <<mem, brand, inputs, acked, todo, dry, exposed, overlapped>>
    \/ todo = {} /\ JobExits

\* audit_store.append(build_weight_change_record(...)), which a dry run leaves
\* out; the weights and the cursor are changed and saved by now.
JobReportLast ==
    /\ pc["job"] = "reporting"
    /\ chain' = IF dry \/ todo # {} THEN chain
                ELSE chain \cup {[brand |-> brand["job"],
                                  version |-> VersionOf(mem["job"], brand["job"])]}
    /\ JobGoesOn
    /\ UNCHANGED <<files, cuts, faults>>
JobReport ==
    /\ pc["job"] = "reporting"
    /\ chain' = IF dry THEN chain
                ELSE chain \cup {[brand |-> brand["job"],
                                  version |-> VersionOf(mem["job"], brand["job"])]}
    /\ JobGoesOn
    /\ UNCHANGED <<files, cuts, faults>>

\* It is killed, a save raises, or the audit trail refuses the record.
JobDies ==
    /\ pc["job"] # "off"
    /\ Fault
    /\ Interrupted("job")
    /\ CutIf(Halfway("job"))
    /\ JobExits
    /\ UNCHANGED chain
----------------------------------------------------------------------------
SaveStep(p) == Open(p) \/ Write(p) \/ Mark(p)

Next ==
    \/ \E b \in Brands, k \in Kinds : Record(b, k)
    \/ \E b \in Brands, w \in Candidates : StartShadow(b, w)
    \/ \E b \in Brands : ApiRecalibrate(b)
    \/ \E p \in Procs : SaveStep(p)
    \/ ApiReturns \/ ApiFails \/ ApiDies \/ ApiStarts
    \/ JobStarts
    \/ \E b \in Brands : JobRecalibrate(b)
    \/ JobMarked \/ JobReport \/ JobDies

Spec == Init /\ [][Next]_vars
----------------------------------------------------------------------------
(* Properties.                                                              *)

Copies == {s \in {file, tmp} \cup {mem[p] : p \in Procs} : Readable(s)}
IdsOf(s) == {s.outcomes[i].id : i \in DOMAIN s.outcomes}

TypeOK ==
    /\ file \in Content \cup {Blank, Torn} /\ tmp \in Content \cup {None, Blank, Torn}
    /\ mem \in [Procs -> Content]
    /\ pc \in [Procs -> {"off", "idle", "recording", "proposing", "next", "promoting",
                         "marking", "reporting"}]
    /\ save \in [Procs -> {"none", "start", "tmp", "file", "gone", "closed"}]
    /\ brand \in [Procs -> Brands \cup {None}]
    /\ todo \subseteq Brands /\ dry \in BOOLEAN
    /\ chain \subseteq Change /\ inputs \in 0..MaxInputs /\ acked \subseteq Ids
    /\ exposed \subseteq Ids /\ overlapped \in BOOLEAN /\ cuts \in Nat
    /\ faults \in 0..MaxFaults

VectorsOf(s) == {s.weights[b].weights : b \in {b \in Brands : s.weights[b] # None}}
                \cup {s.shadow[b] : b \in {b \in Brands : s.shadow[b] # None}}

\* Every weight set anybody holds, promoted or shadow, sums to exactly 1, whatever
\* sequence of recalibrations and proposals has led there: the risk score stays a
\* weighted mean (clamp_weights, its rounding residual).
WeightsSumToOne == \A s \in Copies : \A w \in VectorsOf(s) : SumsToOne(w)

\* However often it is nudged, and though renormalizing can carry a weight out of
\* default +- MAX_DRIFT, no signal falls below what the clamp leaves it: that of
\* injection never comes near 0 (clamp_weights, learning.py:49).
NoSignalIsSilenced == \A s \in Copies : \A w \in VectorsOf(s) : AboveFloor(w)

\* The cursor never runs ahead: in every document and copy, at any moment, it
\* counts outcomes of its own brand only, and each outcome it counts has really
\* moved the weights held beside it (recalibrate, mark_recalibrated, two saves of
\* whole copies).
NothingIsSkipped ==
    \A s \in Copies : \A b \in Brands :
        /\ s.upto[b] <= Cardinality(OfBrand(s, b))
        /\ \A i \in OfBrand(s, b) :
             Cardinality({j \in OfBrand(s, b) : j <= i}) <= s.upto[b] =>
                OldUsed(s, b)[s.outcomes[i].id] >= 1

\* Weights are moved by outcomes of their own brand, and by none of them more
\* often than once, and once more for each time a recalibration was cut between
\* its two saves, by a failure or by a process that read the file there
\* (unrecalibrated, mark_recalibrated).
EvidenceCountsOnce ==
    \A s \in Copies : \A b \in Brands, i \in DOMAIN s.outcomes :
        LET used == OldUsed(s, b)[s.outcomes[i].id]
        IN  used <= IF s.outcomes[i].brand = b THEN 1 + cuts ELSE 0

\* An acknowledged outcome can be missing from a readable file only if it was
\* recorded while a run of the job was going on: neither failed saves, nor
\* crashes and restarts in any order, nor the copies that overwrite each other or
\* are published by the wrong process ever cost an older one (_save, __init__).
OnlyExposedAreLost == Readable(file) => acked \ exposed \subseteq IdsOf(file)

\* The file can always be read unless two saves were once under way together: one
\* process alone never leaves it torn, whichever save fails and wherever in it the
\* process dies (_save, os.replace).
TornByOverlapOnly == ~overlapped => Readable(file)

\* The weight sets in the file that the job has promoted for real, and that the
\* audit trail does not have.
Unaudited ==
    {[brand |-> b, version |-> file.weights[b].version] :
        b \in {b \in Brands : file.weights[b] # None /\ file.weights[b].by = "job"}} \ chain

\* However many brands a run does and whatever writes the file later, a run that
\* dies between its save and its record leaves one change behind that the trail
\* does not have, never two (recalibrate_job.main: each change is chained before
\* the next brand is touched).
OneUnauditedPerFault ==
    pc["job"] = "off" /\ Readable(file) => Cardinality(Unaudited) <= faults

\* Claimed, and not true: the outcomes are an append-only log (learning.py:113)
\* that the API and the job share (learning.py:307).
OutcomesSurvive == Readable(file) => acked \subseteq IdsOf(file)
=============================================================================
