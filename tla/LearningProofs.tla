--------------------------- MODULE LearningProofs ---------------------------
(***************************************************************************)
(* Proofs about the learning loop, for any number of brands, outcomes,     *)
(* proposals and faults and however the saves of the two processes         *)
(* interleave.  clamp_weights makes of any integers weights that sum to    *)
(* exactly 1 and silence no signal, so every weight set in the file and in *)
(* memory does.  Then what the cursor counts, how often an outcome moves   *)
(* the weights, which outcomes the file keeps, when it can be torn, and    *)
(* how many changes of the job the audit trail can miss.                   *)
(*                                                                         *)
(* Most arguments follow the same line: a step lets the copies and         *)
(* documents flow (Flow, FileFlow, TmpFlow): each is one that was there    *)
(* before, or one that a process makes of its own.                         *)
(***************************************************************************)
EXTENDS Learning, FiniteSetTheorems, TLAPS

USE DEF SIGNALS

LEMMA DefaultsAreInt == \A i \in SIGNALS : DEFAULT_WEIGHTS[i] \in Int
<1>1. SIGNALS = {1, 2, 3, 4, 5}
  OBVIOUS
<1>2. /\ DEFAULT_WEIGHTS[1] = 3000 /\ DEFAULT_WEIGHTS[2] = 2000
      /\ DEFAULT_WEIGHTS[3] = 2500 /\ DEFAULT_WEIGHTS[4] = 1500
      /\ DEFAULT_WEIGHTS[5] = 1000
  BY DEF DEFAULT_WEIGHTS
<1> QED
  BY <1>1, <1>2

\* The parts of clamp_weights are defined on every vector.
LEMMA ClampedType == ASSUME NEW w \in WeightVector
                     PROVE  Clamped(w) \in WeightVector
<1>1. \A i \in SIGNALS : w[i] \in Int /\ DEFAULT_WEIGHTS[i] \in Int
  BY DefaultsAreInt DEF WeightVector
<1>2. \A i \in SIGNALS : WithinDrift(w[i], DEFAULT_WEIGHTS[i]) \in Int
  BY <1>1 DEF WithinDrift, MAX_DRIFT
<1> QED
  BY <1>2 DEF Clamped, WeightVector

\* The clamp keeps the total away from 0.
LEMMA ClampedTotal == ASSUME NEW w \in WeightVector
                      PROVE  Sum(Clamped(w)) \in Int /\ Sum(Clamped(w)) >= 5000
<1>1. w[1] \in Int /\ w[2] \in Int /\ w[3] \in Int /\ w[4] \in Int /\ w[5] \in Int
  BY DEF WeightVector
<1>2. /\ DEFAULT_WEIGHTS[1] = 3000 /\ DEFAULT_WEIGHTS[2] = 2000
      /\ DEFAULT_WEIGHTS[3] = 2500 /\ DEFAULT_WEIGHTS[4] = 1500
      /\ DEFAULT_WEIGHTS[5] = 1000
  BY DEF DEFAULT_WEIGHTS
<1>3. \A i \in SIGNALS : Clamped(w)[i] = WithinDrift(w[i], DEFAULT_WEIGHTS[i])
  BY DEF Clamped
<1>4. /\ Clamped(w)[1] \in Int /\ Clamped(w)[1] >= 2000
      /\ Clamped(w)[2] \in Int /\ Clamped(w)[2] >= 1000
      /\ Clamped(w)[3] \in Int /\ Clamped(w)[3] >= 1500
      /\ Clamped(w)[4] \in Int /\ Clamped(w)[4] >= 500
      /\ Clamped(w)[5] \in Int /\ Clamped(w)[5] >= 0
  BY <1>1, <1>2, <1>3 DEF WithinDrift, MAX_DRIFT
<1> QED
  BY <1>4 DEF Sum

\* A rounded quotient is an integer near the quotient.
LEMMA RoundNear ==
  ASSUME NEW n \in Int, NEW d \in Int, d > 0
  PROVE  /\ RoundHalfEven(n, d) \in Int
         /\ 2 * (RoundHalfEven(n, d) * d) <= 2 * n + d
         /\ \A k \in Int : k * d <= n => k <= RoundHalfEven(n, d)
<1> DEFINE q == n \div d
           m == n % d
<1>1. q \in Int /\ m \in Int /\ n = d * q + m /\ 0 <= m /\ m < d
  OBVIOUS
<1>2. \/ RoundHalfEven(n, d) = q
      \/ RoundHalfEven(n, d) = q + 1 /\ 2 * m >= d
  BY <1>1 DEF RoundHalfEven
<1> HIDE DEF q, m
<1>3. ASSUME NEW k \in Int, k * d <= n PROVE k <= q
  <2>1. SUFFICES ASSUME k >= q + 1 PROVE FALSE
    BY <1>1
  <2>2. k * d >= (q + 1) * d
    BY <1>1, <2>1
  <2> QED
    BY <1>1, <1>3, <2>2
<1>4. CASE RoundHalfEven(n, d) = q
  BY <1>1, <1>3, <1>4
<1>5. CASE RoundHalfEven(n, d) = q + 1 /\ 2 * m >= d
  <2>1. (q + 1) * d = q * d + d
    BY <1>1
  <2> QED
    BY <1>1, <1>3, <1>5, <2>1
<1> QED
  BY <1>2, <1>4, <1>5

LEMMA ScaledType == ASSUME NEW w \in WeightVector
                    PROVE  Scaled(w) \in WeightVector
<1> DEFINE c == Clamped(w)
<1>1. c \in WeightVector /\ Sum(c) \in Int /\ Sum(c) > 0
  BY ClampedType, ClampedTotal
<1>2. \A i \in SIGNALS : c[i] * One \in Int
  BY <1>1 DEF WeightVector, One
<1>3. \A i \in SIGNALS : RoundHalfEven(c[i] * One, Sum(c)) \in Int
  BY <1>1, <1>2, RoundNear
<1> QED
  BY <1>3 DEF Scaled, WeightVector

\* Five integers have a first largest one.
LEMMA BiggestIsLargest ==
  ASSUME NEW w \in WeightVector
  PROVE  Biggest(w) \in SIGNALS /\ \A j \in SIGNALS : w[j] <= w[Biggest(w)]
<1>1. \E i \in SIGNALS : /\ \A j \in SIGNALS : w[j] <= w[i]
                         /\ \A j \in 1..(i - 1) : w[j] < w[i]
  <2> DEFINE Top(i) == \A j \in SIGNALS : w[j] <= w[i]
             First(i) == \A j \in 1..(i - 1) : w[j] < w[i]
  <2>1. w[1] \in Int /\ w[2] \in Int /\ w[3] \in Int /\ w[4] \in Int /\ w[5] \in Int
    BY DEF WeightVector
  <2>2. SIGNALS = {1, 2, 3, 4, 5}
    OBVIOUS
  <2>3. CASE Top(1)
    BY <2>3
  <2>4. CASE ~Top(1) /\ Top(2)
    BY <2>1, <2>2, <2>4
  <2>5. CASE ~Top(1) /\ ~Top(2) /\ Top(3)
    BY <2>1, <2>2, <2>5
  <2>6. CASE ~Top(1) /\ ~Top(2) /\ ~Top(3) /\ Top(4)
    BY <2>1, <2>2, <2>6
  <2>7. CASE ~Top(1) /\ ~Top(2) /\ ~Top(3) /\ ~Top(4)
    BY <2>1, <2>2, <2>7
  <2> QED
    BY <2>3, <2>4, <2>5, <2>6, <2>7
<1> QED
  BY <1>1 DEF Biggest

\* The residual makes the sum exact, whatever rounding has left.
LEMMA ResidualIsExact ==
  ASSUME NEW r \in WeightVector, NEW k \in SIGNALS
  PROVE  LET n == [r EXCEPT ![k] = @ + (One - Sum(r))]
         IN  n \in WeightVector /\ SumsToOne(n)
  BY DEF WeightVector, Sum, One, SumsToOne

LEMMA FloorValues == /\ Floor[1] = 1538 /\ Floor[2] = 769 /\ Floor[3] = 1153
                     /\ Floor[4] = 384 /\ Floor[5] = 0
<1>1. /\ DEFAULT_WEIGHTS[1] = 3000 /\ DEFAULT_WEIGHTS[2] = 2000
      /\ DEFAULT_WEIGHTS[3] = 2500 /\ DEFAULT_WEIGHTS[4] = 1500
      /\ DEFAULT_WEIGHTS[5] = 1000
  BY DEF DEFAULT_WEIGHTS
<1> QED
  BY <1>1 DEF Floor, One, MAX_DRIFT

\* Before the residual no weight is below its floor, and all are at most 2 too many.
LEMMA ScaledBounds ==
  ASSUME NEW w \in WeightVector
  PROVE  AboveFloor(Scaled(w)) /\ Sum(Scaled(w)) <= One + 2
<1> DEFINE c == Clamped(w)
           r == Scaled(w)
           S == Sum(c)
<1>1. w[1] \in Int /\ w[2] \in Int /\ w[3] \in Int /\ w[4] \in Int /\ w[5] \in Int
  BY DEF WeightVector
<1>2. /\ DEFAULT_WEIGHTS[1] = 3000 /\ DEFAULT_WEIGHTS[2] = 2000
      /\ DEFAULT_WEIGHTS[3] = 2500 /\ DEFAULT_WEIGHTS[4] = 1500
      /\ DEFAULT_WEIGHTS[5] = 1000
  BY DEF DEFAULT_WEIGHTS
<1>3. \A i \in SIGNALS : c[i] = WithinDrift(w[i], DEFAULT_WEIGHTS[i])
  BY DEF Clamped
<1>4. /\ c[1] \in Int /\ 2000 <= c[1] /\ c[1] <= 4000
      /\ c[2] \in Int /\ 1000 <= c[2] /\ c[2] <= 3000
      /\ c[3] \in Int /\ 1500 <= c[3] /\ c[3] <= 3500
      /\ c[4] \in Int /\ 500 <= c[4] /\ c[4] <= 2500
      /\ c[5] \in Int /\ 0 <= c[5] /\ c[5] <= 2000
  <2> HIDE DEF c
  <2> QED
    BY <1>1, <1>2, <1>3 DEF WithinDrift, MAX_DRIFT
<1>5. \A i \in SIGNALS : r[i] = RoundHalfEven(c[i] * 10000, S)
  BY DEF Scaled, One
<1> HIDE DEF c, r
<1>6. S \in Int /\ S > 0 /\ S = c[1] + c[2] + c[3] + c[4] + c[5]
  BY <1>4 DEF Sum
<1> HIDE DEF S
<1>7. \A i \in SIGNALS : c[i] \in Int
  BY <1>4
<1>8. ASSUME NEW i \in SIGNALS
      PROVE  /\ r[i] \in Int /\ 2 * (r[i] * S) <= 20000 * c[i] + S
             /\ \A k \in Int : k * S <= c[i] * 10000 => k <= r[i]
  <2>1. PICK n \in Int : n = c[i] * 10000
    BY <1>7
  <2>2. r[i] = RoundHalfEven(n, S)
    BY <1>5, <2>1
  <2>3. /\ r[i] \in Int /\ 2 * (r[i] * S) <= 2 * n + S
        /\ \A k \in Int : k * S <= n => k <= r[i]
    BY <1>6, <2>2, RoundNear
  <2> QED
    BY <1>6, <1>7, <2>1, <2>3
<1>9. /\ 1538 * S <= c[1] * 10000 /\ 769 * S <= c[2] * 10000 /\ 1153 * S <= c[3] * 10000
      /\ 384 * S <= c[4] * 10000 /\ 0 * S <= c[5] * 10000
  BY <1>4, <1>6
<1>10. r[1] >= 1538 /\ r[2] >= 769 /\ r[3] >= 1153 /\ r[4] >= 384 /\ r[5] >= 0
  BY <1>8, <1>9
<1>11. AboveFloor(r)
  BY <1>10, FloorValues DEF AboveFloor
<1>12. Sum(r) <= 10002
  <2> DEFINE t == r[1] + r[2] + r[3] + r[4] + r[5]
  <2>1. /\ r[1] \in Int /\ r[2] \in Int /\ r[3] \in Int /\ r[4] \in Int /\ r[5] \in Int
        /\ c[1] \in Int /\ c[2] \in Int /\ c[3] \in Int /\ c[4] \in Int /\ c[5] \in Int
    BY <1>7, <1>8
  <2>2. /\ 2 * (r[1] * S) <= 20000 * c[1] + S /\ 2 * (r[2] * S) <= 20000 * c[2] + S
        /\ 2 * (r[3] * S) <= 20000 * c[3] + S /\ 2 * (r[4] * S) <= 20000 * c[4] + S
        /\ 2 * (r[5] * S) <= 20000 * c[5] + S
    BY <1>8
  <2>3. t * S = r[1] * S + r[2] * S + r[3] * S + r[4] * S + r[5] * S
    BY <1>6, <2>1
  <2>4. 2 * (t * S) <= 20005 * S
    BY <1>6, <2>1, <2>2, <2>3
  <2>5. t \in Int /\ Sum(r) = t
    BY <2>1 DEF Sum
  <2> HIDE DEF t
  <2>6. SUFFICES ASSUME t >= 10003 PROVE FALSE
    BY <2>5
  <2>7. t * S >= 10003 * S
    BY <1>6, <2>5, <2>6
  <2> QED
    BY <1>6, <2>4, <2>5, <2>7
<1> QED
  BY <1>11, <1>12 DEF One, r

\* The residual takes at most 2 from the largest weight, which can spare it.
LEMMA ResidualSpares ==
  ASSUME NEW r \in WeightVector, AboveFloor(r), Sum(r) <= One + 2
  PROVE  AboveFloor([r EXCEPT ![Biggest(r)] = @ + (One - Sum(r))])
<1> DEFINE k == Biggest(r)
           n == [r EXCEPT ![k] = @ + (One - Sum(r))]
<1>1. k \in SIGNALS /\ \A j \in SIGNALS : r[j] <= r[k]
  BY BiggestIsLargest
<1> HIDE DEF k
<1>2. \A i \in SIGNALS : r[i] \in Int
  BY DEF WeightVector
<1>3. /\ r[1] \in Int /\ r[2] \in Int /\ r[3] \in Int /\ r[4] \in Int /\ r[5] \in Int
      /\ r[k] \in Int
      /\ r[1] <= r[k] /\ r[2] <= r[k] /\ r[3] <= r[k] /\ r[4] <= r[k] /\ r[5] <= r[k]
  BY <1>1, <1>2
<1>4. /\ Sum(r) \in Int /\ Sum(r) <= 5 * r[k] /\ Sum(r) <= 10002
  BY <1>3 DEF Sum, One
<1>5. r[k] + (One - Sum(r)) >= 1538
  BY <1>3, <1>4 DEF One
<1>6. \A i \in SIGNALS : n[i] = IF i = k THEN r[k] + (One - Sum(r)) ELSE r[i]
  BY <1>1 DEF WeightVector
<1>7. \A i \in SIGNALS : Floor[i] <= 1538 /\ Floor[i] \in Int
  BY FloorValues
<1>8. r[k] + (One - Sum(r)) \in Int
  BY <1>3, <1>4 DEF One
<1> HIDE DEF n
<1>9. AboveFloor(n)
  BY <1>2, <1>5, <1>6, <1>7, <1>8 DEF AboveFloor
<1> QED
  BY <1>9 DEF n, k

\* clamp_weights returns weights that sum to exactly 1.0000, for every input.
THEOREM ClampSumsToOne ==
  ASSUME NEW w \in WeightVector
  PROVE  clamp_weights(w) \in WeightVector /\ SumsToOne(clamp_weights(w))
<1>1. Scaled(w) \in WeightVector /\ Biggest(Scaled(w)) \in SIGNALS
  BY ScaledType, BiggestIsLargest
<1> QED
  BY <1>1, ResidualIsExact DEF clamp_weights

\* However far the input has drifted, clamp_weights leaves every weight its floor.
THEOREM ClampKeepsFloors == ASSUME NEW w \in WeightVector
                            PROVE  AboveFloor(clamp_weights(w))
  BY ScaledType, ScaledBounds, ResidualSpares DEF clamp_weights

Fair(w) == SumsToOne(w) /\ AboveFloor(w)

LEMMA ClampIsFair == ASSUME NEW w \in WeightVector
                     PROVE  clamp_weights(w) \in WeightVector /\ Fair(clamp_weights(w))
  BY ClampSumsToOne, ClampKeepsFloors DEF Fair
----------------------------------------------------------------------------
(* A copy is good when it is typed and all its weights are fair; every      *)
(* operation of the store makes a good copy of a good one.                  *)

Good(s) == s \in Content /\ \A w \in VectorsOf(s) : Fair(w)

LEMMA CardIsNat == ASSUME NEW n \in Nat, NEW S \in SUBSET (1..n)
                   PROVE  Cardinality(S) \in Nat
<1>1. IsFiniteSet(1..n)
  BY FS_Interval
<1>2. IsFiniteSet(S)
  BY <1>1, FS_Subset
<1> QED
  BY <1>2, FS_CardinalityType

LEMMA GoodEmpty == Good(Empty)
  BY DEF Good, Empty, Content, VectorsOf

LEMMA BatchIsFinite ==
  ASSUME NEW s \in Content, NEW b \in Brands, NEW S \in SUBSET OfBrand(s, b)
  PROVE  Cardinality(S) \in Nat
<1>1. Len(s.outcomes) \in Nat /\ DOMAIN s.outcomes = 1..Len(s.outcomes)
  BY DEF Content
<1>2. S \in SUBSET (1..Len(s.outcomes))
  BY <1>1 DEF OfBrand
<1> QED
  BY <1>1, <1>2, CardIsNat

LEMMA GoodWeights ==
  ASSUME NEW s, Good(s), NEW b \in Brands, NEW new \in WeightSet, Fair(new.weights)
  PROVE  Good([s EXCEPT !.shadow[b] = None, !.weights[b] = new])
<1> DEFINE t == [s EXCEPT !.shadow[b] = None, !.weights[b] = new]
           shadow == [s.shadow EXCEPT ![b] = None]
           weights == [s.weights EXCEPT ![b] = new]
<1>1. s \in Content
  BY DEF Good
<1>2. /\ shadow \in [Brands -> WeightVector \cup {None}]
      /\ weights \in [Brands -> WeightSet \cup {None}]
  BY <1>1 DEF Content
<1>3. t = [s EXCEPT !.shadow = shadow, !.weights = weights]
  OBVIOUS
<1>4. /\ t.outcomes = s.outcomes /\ t.upto = s.upto
      /\ t.shadow = shadow /\ t.weights = weights
  BY <1>1, <1>3 DEF Content
<1>5. \A S, W : S \in [Brands -> WeightVector \cup {None}]
                /\ W \in [Brands -> WeightSet \cup {None}]
                  => [s EXCEPT !.shadow = S, !.weights = W] \in Content
  BY <1>1 DEF Content
<1>6. t \in Content
  BY <1>2, <1>3, <1>5
<1>7. /\ \A c \in Brands : t.weights[c] = IF c = b THEN new ELSE s.weights[c]
      /\ \A c \in Brands : t.shadow[c] = IF c = b THEN None ELSE s.shadow[c]
  BY <1>1, <1>4 DEF Content
<1>8. \A w \in VectorsOf(t) : w \in VectorsOf(s) \/ w = new.weights
  BY <1>7 DEF VectorsOf
<1> QED
  BY <1>6, <1>8 DEF Good

LEMMA NudgeIsInt == ASSUME NEW s, NEW batch, NEW i
                    PROVE  Nudge(s, batch, i) \in Int
<1>1. Nudge(s, batch, i) \in {0, -STEP, STEP}
  BY DEF Nudge
<1> QED
  BY <1>1 DEF STEP

LEMMA NudgedType == ASSUME NEW s \in Content, NEW b \in Brands
                    PROVE  Nudged(s, b) \in WeightVector
<1>1. s.weights[b] \in WeightSet \cup {None}
  BY DEF Content
<1>2. OldWeights(s, b) \in WeightVector \/ OldWeights(s, b) = DEFAULT_WEIGHTS
  BY <1>1 DEF OldWeights, WeightSet
<1>3. \A i \in SIGNALS : OldWeights(s, b)[i] \in Int
  BY <1>2, DefaultsAreInt DEF WeightVector
<1>4. \A i \in SIGNALS : Nudge(s, unrecalibrated(s, b), i) \in Int
  BY NudgeIsInt
<1>5. \A i \in SIGNALS : OldWeights(s, b)[i] + Nudge(s, unrecalibrated(s, b), i) \in Int
  BY <1>3, <1>4
<1> QED
  BY <1>5 DEF Nudged, WeightVector

LEMMA UsedType ==
  ASSUME NEW s \in Content, NEW b \in Brands, NEW i \in Ids
  PROVE  OldUsed(s, b)[i]
           + Cardinality({j \in unrecalibrated(s, b) : s.outcomes[j].id = i}) \in Nat
<1>1. s.weights[b] \in WeightSet \cup {None}
  BY DEF Content
<1>2. OldUsed(s, b)[i] \in Nat
  BY <1>1 DEF OldUsed, Unused, WeightSet
<1>3. {j \in unrecalibrated(s, b) : s.outcomes[j].id = i} \in SUBSET OfBrand(s, b)
  BY DEF unrecalibrated
<1>4. Cardinality({j \in unrecalibrated(s, b) : s.outcomes[j].id = i}) \in Nat
  BY <1>3, BatchIsFinite
<1> QED
  BY <1>2, <1>4

LEMMA VersionType == ASSUME NEW s \in Content, NEW b \in Brands
                     PROVE  VersionOf(s, b) \in Nat /\ VersionOf(s, b) + 1 \in Nat
<1>1. s.weights[b] \in WeightSet \cup {None}
  BY DEF Content
<1>2. VersionOf(s, b) \in Nat
  BY <1>1 DEF VersionOf, WeightSet
<1> QED
  BY <1>2

\* Copy s with the weights of brand b set and its shadow run retired.
WithWeights(s, b, new) == [s EXCEPT !.shadow[b] = None, !.weights[b] = new]

\* A promotion is a well-made weight set, one version further.
LEMMA PromotedIs ==
  ASSUME NEW s \in Content, NEW b \in Brands, NEW who \in {"api", "job", "dry run"}
  PROVE  \E new \in WeightSet :
            /\ Fair(new.weights) /\ new.version = VersionOf(s, b) + 1
            /\ \A i \in Ids : new.used[i] = OldUsed(s, b)[i]
                    + Cardinality({j \in unrecalibrated(s, b) : s.outcomes[j].id = i})
            /\ Promoted(s, b, who) = WithWeights(s, b, new)
<1> DEFINE used == [i \in Ids |-> OldUsed(s, b)[i]
                       + Cardinality({j \in unrecalibrated(s, b) : s.outcomes[j].id = i})]
           vector == clamp_weights(Nudged(s, b))
           version == VersionOf(s, b) + 1
           new == [weights |-> vector, version |-> version, used |-> used, by |-> who]
<1>1. vector \in WeightVector /\ Fair(vector)
  BY NudgedType, ClampIsFair
<1>2. version \in Nat
  BY VersionType
<1>3. used \in [Ids -> Nat]
  BY UsedType
<1>4. Promoted(s, b, who) = WithWeights(s, b, new)
  BY DEF Promoted, WithWeights
<1>5. \A i \in Ids : used[i] = OldUsed(s, b)[i]
          + Cardinality({j \in unrecalibrated(s, b) : s.outcomes[j].id = i})
  OBVIOUS
<1> HIDE DEF used, vector, version
<1>6. new \in WeightSet /\ new.weights = vector /\ new.version = version /\ new.used = used
  BY <1>1, <1>2, <1>3 DEF WeightSet
<1> HIDE DEF new
<1> QED
  BY <1>1, <1>4, <1>5, <1>6 DEF version

LEMMA GoodPromoted ==
  ASSUME NEW s, Good(s), NEW b \in Brands, NEW who \in {"api", "job", "dry run"}
  PROVE  Good(Promoted(s, b, who))
<1>1. PICK new \in WeightSet :
            /\ Fair(new.weights) /\ new.version = VersionOf(s, b) + 1
            /\ Promoted(s, b, who) = WithWeights(s, b, new)
  BY PromotedIs DEF Good
<1>2. Good(WithWeights(s, b, new))
  BY <1>1, GoodWeights DEF WithWeights
<1> QED
  BY <1>1, <1>2

LEMMA GoodCursor ==
  ASSUME NEW s, Good(s), NEW b \in Brands, NEW n \in Nat
  PROVE  Good([s EXCEPT !.upto[b] = n])
<1> DEFINE t == [s EXCEPT !.upto[b] = n]
<1>1. s \in Content
  BY DEF Good
<1>2. t \in Content
  BY <1>1 DEF Content
<1>3. t.weights = s.weights /\ t.shadow = s.shadow
  BY <1>1 DEF Content
<1> QED
  BY <1>2, <1>3 DEF Good, VectorsOf

LEMMA GoodMarked ==
  ASSUME NEW s, Good(s), NEW b \in Brands
  PROVE  Good(Marked(s, b))
<1> DEFINE total == Cardinality(OfBrand(s, b))
           n == IF total > s.upto[b] THEN total ELSE s.upto[b]
<1>1. s \in Content
  BY DEF Good
<1>2. s.upto[b] \in Nat
  BY <1>1 DEF Content
<1>3. total \in Nat
  BY <1>1, BatchIsFinite
<1>4. n \in Nat
  BY <1>2, <1>3
<1>5. Marked(s, b) = [s EXCEPT !.upto[b] = n]
  BY DEF Marked
<1> HIDE DEF n
<1> QED
  BY <1>4, <1>5, GoodCursor

LEMMA GoodAppended ==
  ASSUME NEW s, Good(s), NEW o \in Outcome
  PROVE  Good([s EXCEPT !.outcomes = Append(@, o)])
<1> DEFINE t == [s EXCEPT !.outcomes = Append(@, o)]
<1>1. s \in Content /\ s.outcomes \in Seq(Outcome)
  BY DEF Good, Content
<1>2. Append(s.outcomes, o) \in Seq(Outcome)
  BY <1>1
<1>3. t \in Content
  BY <1>1, <1>2 DEF Content
<1>4. t.weights = s.weights /\ t.shadow = s.shadow
  BY <1>1 DEF Content
<1> QED
  BY <1>3, <1>4 DEF Good, VectorsOf

LEMMA GoodShadow ==
  ASSUME NEW s, Good(s), NEW b \in Brands, NEW w \in Candidates
  PROVE  Good([s EXCEPT !.shadow[b] = clamp_weights(w)])
<1> DEFINE t == [s EXCEPT !.shadow[b] = clamp_weights(w)]
<1>1. s \in Content
  BY DEF Good
<1>2. clamp_weights(w) \in WeightVector /\ Fair(clamp_weights(w))
  BY ClampIsFair, CandidatesAreWeights
<1>3. t \in Content
  BY <1>1, <1>2 DEF Content
<1>4. /\ t.weights = s.weights
      /\ \A c \in Brands : t.shadow[c] = IF c = b THEN clamp_weights(w) ELSE s.shadow[c]
  BY <1>1 DEF Content
<1>5. \A v \in VectorsOf(t) : v \in VectorsOf(s) \/ v = clamp_weights(w)
  BY <1>4 DEF VectorsOf
<1> QED
  BY <1>2, <1>3, <1>5 DEF Good
----------------------------------------------------------------------------
(* The invariant: every document and copy is good, a process saves while it *)
(* has something to save, and past the first half of a recalibration it     *)
(* knows its brand.                                                         *)

Busy == {"recording", "proposing", "promoting", "marking"}

Storage == /\ file \in Content \cup {Blank, Torn} /\ tmp \in Content \cup {None, Blank, Torn}
           /\ mem \in [Procs -> Content]
           /\ \A s \in Copies : Good(s)

Control == /\ pc \in [Procs -> {"off", "idle", "recording", "proposing", "next", "promoting",
                                "marking", "reporting"}]
           /\ save \in [Procs -> {"none", "start", "tmp", "file", "gone", "closed"}]
           /\ brand \in [Procs -> Brands \cup {None}]
           /\ \A p \in Procs : save[p] # "none" <=> pc[p] \in Busy
           /\ \A p \in Procs : pc[p] \in {"promoting", "marking", "reporting"} => brand[p] \in Brands
           /\ pc["api"] \notin {"next", "reporting"}
           /\ pc["job"] \notin {"idle", "recording", "proposing"}

Rest == /\ todo \subseteq Brands /\ dry \in BOOLEAN /\ chain \subseteq Change
        /\ inputs \in 0..MaxInputs /\ acked \subseteq 1..inputs /\ exposed \subseteq 1..inputs
        /\ pc["api"] = "recording" => inputs >= 1
        /\ overlapped \in BOOLEAN /\ cuts \in Nat /\ faults \in 0..MaxFaults

IInv == Storage /\ Control /\ Rest

\* The ways to make a copy of the copy a process works on.
Appended(s) == \E b \in Brands, k \in Kinds :
    LET o == [id |-> inputs + 1, brand |-> b, kind |-> k]
    IN  inputs + 1 \in Ids /\ inputs' = inputs + 1
        /\ s = [mem["api"] EXCEPT !.outcomes = Append(@, o)]
Proposed(s) == \E b \in Brands, w \in Candidates :
    s = [mem["api"] EXCEPT !.shadow[b] = clamp_weights(w)]
PromotedBy(p, s) == \E b \in Brands, who \in {"api", "job", "dry run"} :
    s = Promoted(mem[p], b, who)
MarkedBy(p, s) == pc[p] = "promoting" /\ brand[p] \in Brands /\ s = Marked(mem[p], brand[p])

Made(s) == \/ s = Empty \/ Appended(s) \/ Proposed(s)
           \/ \E p \in Procs : PromotedBy(p, s) \/ MarkedBy(p, s)

\* What a step leaves in memory and on disk.
OneEach == \E T : mem \in [Procs -> T]
Remembers ==
    /\ OneEach'
    /\ \A p \in Procs : \/ mem'[p] = mem[p]
                        \/ Readable(file) /\ mem'[p] = file
                        \/ Made(mem'[p])
Stored(content) == ~Readable(content) \/ content \in Copies
OnDisk == Stored(file') /\ Stored(tmp') /\ file' # None

LEMMA ProcsAre == "api" \in Procs /\ "job" \in Procs /\ \A p \in Procs : p = "api" \/ p = "job"
  BY DEF Procs

LEMMA ContentIsReadable == ASSUME NEW s \in Content PROVE Readable(s)
  BY NoDocument DEF Readable

LEMMA InCopies ==
  /\ Readable(file) => file \in Copies
  /\ Readable(tmp) => tmp \in Copies
  /\ mem \in [Procs -> Content] => \A p \in Procs : mem[p] \in Copies
  BY ContentIsReadable DEF Copies

LEMMA FileExists == Storage => file # None
  BY NoDocument DEF Storage

\* What is stored is what was there before, a copy or nothing anyone can read.
LEMMA WriteStores == ASSUME IInv, NEW p \in Procs, Write(p) PROVE OnDisk /\ mem' = mem
<1>1. mem[p] \in Copies
  BY InCopies DEF IInv, Storage
<1>2. ~Readable(Torn)
  BY DEF Readable
<1>3. \A c : c \in Written(p, tmp) \/ c \in Written(p, file) => Stored(c)
  BY <1>1, <1>2 DEF Written, Stored
<1>4. Stored(tmp) /\ Stored(file) /\ file # None /\ mem[p] # None /\ Torn # None
  BY InCopies, FileExists, NoDocument DEF Stored, IInv, Storage
<1>5. (file' = file \/ file' = mem[p] \/ file' = Torn) /\ mem' = mem
  BY DEF Write, Written
<1> QED
  BY <1>3, <1>4, <1>5 DEF Write, OnDisk

LEMMA ReplaceStores == ASSUME NEW p, NEW next, Replaces(p, next)
                       PROVE  OnDisk /\ tmp' = None /\ file' = tmp /\ tmp # None
<1>1. ~Readable(None)
  BY DEF Readable
<1> QED
  BY <1>1, InCopies DEF Replaces, OnDisk, Stored

LEMMA InterruptStores == ASSUME Storage, NEW p, Interrupted(p) PROVE OnDisk
<1>1. ~Readable(Torn) /\ Stored(tmp) /\ Stored(file) /\ file # None /\ Torn # None
  BY InCopies, FileExists, NoDocument DEF Readable, Stored
<1>2. (tmp' = tmp \/ tmp' = Torn) /\ (file' = file \/ file' = Torn)
  BY DEF Interrupted
<1> QED
  BY <1>1, <1>2 DEF OnDisk, Stored

LEMMA StaysStored == ASSUME Storage, UNCHANGED <<file, tmp>> PROVE OnDisk
  BY InCopies, FileExists DEF OnDisk, Stored

\* One process changes its copy.
LEMMA UpdateRemembers ==
  ASSUME Storage, NEW p \in Procs, NEW s, Made(s) \/ (Readable(file) /\ s = file),
         mem' = [mem EXCEPT ![p] = s]
  PROVE  Remembers
<1>1. mem' \in [Procs -> Content \cup {s}]
  BY DEF Storage
<1>2. \A q \in Procs : mem'[q] = IF q = p THEN s ELSE mem[q]
  BY DEF Storage
<1>3. OneEach'
  BY <1>1, Zenon DEF OneEach
<1> QED
  BY <1>2, <1>3 DEF Remembers

LEMMA ChangeRemembers ==
  ASSUME Storage, NEW p \in Procs, NEW s, Made(s), mem' = [mem EXCEPT ![p] = s]
  PROVE  Remembers
  BY UpdateRemembers

LEMMA StaysRemembered == ASSUME Storage, mem' = mem PROVE Remembers
<1>1. mem' \in [Procs -> Content]
  BY DEF Storage
<1>2. OneEach'
  BY <1>1, Zenon DEF OneEach
<1>3. \A p \in Procs : mem'[p] = mem[p]
  OBVIOUS
<1> QED
  BY <1>2, <1>3, Zenon DEF Remembers

LEMMA ExitRemembers == ASSUME Storage, NEW p \in Procs, mem' = [mem EXCEPT ![p] = Empty]
                       PROVE  Remembers
  BY ChangeRemembers DEF Made

LEMMA MarkRemembers == ASSUME IInv, NEW p \in Procs, Mark(p) PROVE Remembers
<1>1. mem' = [mem EXCEPT ![p] = Marked(mem[p], brand[p])] /\ pc[p] = "promoting"
  BY DEF Mark
<1>2. Made(Marked(mem[p], brand[p]))
  BY <1>1 DEF Made, MarkedBy, IInv, Control
<1> QED
  BY <1>1, <1>2, ChangeRemembers DEF IInv

\* One more input is still within the bound, and its number is an id.
LEMMA NextInput == ASSUME inputs \in 0..MaxInputs, inputs < MaxInputs
                   PROVE  inputs + 1 \in 0..MaxInputs /\ inputs + 1 \in Ids /\ inputs \in Nat
  BY CountsAreNat DEF Ids

LEMMA DataStep == ASSUME IInv, [Next]_vars PROVE Remembers /\ OnDisk
<1> USE ProcsAre DEF IInv
<1>1. ASSUME NEW b \in Brands, NEW k \in Kinds, Record(b, k) PROVE Remembers /\ OnDisk
  <2> DEFINE o == [id |-> inputs + 1, brand |-> b, kind |-> k]
             s == [mem["api"] EXCEPT !.outcomes = Append(@, o)]
  <2>1. mem' = [mem EXCEPT !["api"] = s] /\ UNCHANGED <<file, tmp>> /\ inputs' = inputs + 1
    BY <1>1 DEF Record, Changes
  <2>2. Appended(s)
    BY <1>1, <2>1, NextInput DEF Appended, Record, Rest
  <2> HIDE DEF s
  <2> QED
    BY <2>1, <2>2, ChangeRemembers, StaysStored DEF Made
<1>2. ASSUME NEW b \in Brands, NEW w \in Candidates, StartShadow(b, w) PROVE Remembers /\ OnDisk
  <2> DEFINE s == [mem["api"] EXCEPT !.shadow[b] = clamp_weights(w)]
  <2>1. mem' = [mem EXCEPT !["api"] = s] /\ UNCHANGED <<file, tmp>> /\ Proposed(s)
    BY <1>2 DEF StartShadow, Changes, Proposed
  <2> HIDE DEF s
  <2> QED
    BY <2>1, ChangeRemembers, StaysStored DEF Made
<1>3. ASSUME NEW p \in Procs, NEW b \in Brands, NEW who \in {"api", "job", "dry run"},
             Changes(p, Promoted(mem[p], b, who), "promoting")
      PROVE  Remembers /\ OnDisk
  <2>1. PromotedBy(p, Promoted(mem[p], b, who))
    BY DEF PromotedBy
  <2> QED
    BY <1>3, <2>1, ChangeRemembers, StaysStored DEF Changes, Made
<1>4. ASSUME NEW b \in Brands, ApiRecalibrate(b) PROVE Remembers /\ OnDisk
  BY <1>3, <1>4 DEF ApiRecalibrate
<1>5. ASSUME NEW b \in Brands, JobRecalibrate(b) PROVE Remembers /\ OnDisk
  <2>1. (IF dry THEN "dry run" ELSE "job") \in {"api", "job", "dry run"}
    OBVIOUS
  <2> QED
    BY <1>3, <1>5, <2>1 DEF JobRecalibrate
<1>6. ASSUME NEW p \in Procs, Open(p) PROVE Remembers /\ OnDisk
  <2>1. Stored(Blank) /\ Stored(file) /\ file # None
    BY InCopies, FileExists DEF Stored, Readable
  <2>2. mem' = mem /\ file' = file /\ tmp' = Blank
    BY <1>6 DEF Open
  <2> QED
    BY <2>1, <2>2, StaysRemembered DEF OnDisk
<1>7. ASSUME NEW p \in Procs, Write(p) PROVE Remembers /\ OnDisk
  BY <1>7, WriteStores, StaysRemembered
<1>8. ASSUME NEW p \in Procs, Mark(p) PROVE Remembers /\ OnDisk
  BY <1>8, MarkRemembers, ReplaceStores DEF Mark
<1>9. CASE ApiReturns
  BY <1>9, ReplaceStores, StaysRemembered DEF ApiReturns
<1>10. CASE ApiFails
  BY <1>10, InterruptStores, StaysRemembered DEF ApiFails
<1>11. CASE ApiDies
  BY <1>11, InterruptStores, ExitRemembers DEF ApiDies
<1>12. CASE ApiStarts
  <2>1. mem' = [mem EXCEPT !["api"] = file] /\ Readable(file) /\ UNCHANGED <<file, tmp>>
    BY <1>12 DEF ApiStarts, Opens, files
  <2>2. Remembers
    BY <2>1, UpdateRemembers
  <2> QED
    BY <2>1, <2>2, StaysStored
<1>13. CASE JobStarts
  <2>1. mem' = [mem EXCEPT !["job"] = file] /\ Readable(file) /\ UNCHANGED <<file, tmp>>
    BY <1>13 DEF JobStarts, JobStart, Opens, files
  <2>2. Remembers
    BY <2>1, UpdateRemembers
  <2> QED
    BY <2>1, <2>2, StaysStored
<1>14. CASE JobMarked
  BY <1>14, ReplaceStores, StaysRemembered DEF JobMarked
<1>15. CASE JobReport
  <2>1. UNCHANGED <<file, tmp>>
    BY <1>15 DEF JobReport, files
  <2>2. mem' = mem \/ mem' = [mem EXCEPT !["job"] = Empty]
    BY <1>15 DEF JobReport, JobGoesOn, JobExits
  <2> QED
    BY <2>1, <2>2, StaysStored, StaysRemembered, ExitRemembers
<1>16. CASE JobDies
  BY <1>16, InterruptStores, ExitRemembers DEF JobDies, JobExits
<1>17. CASE UNCHANGED vars
  BY <1>17, StaysStored, StaysRemembered DEF vars, files
<1> QED
  BY <1>1, <1>2, <1>4, <1>5, <1>6, <1>7, <1>8, <1>9, <1>10, <1>11, <1>12, <1>13, <1>14, <1>15,
     <1>16, <1>17 DEF Next, SaveStep

\* Whatever is in a copy or a document after a step was in one before, or was made.
LEMMA CopiesStep == ASSUME IInv, [Next]_vars, NEW s \in Copies' PROVE s \in Copies \/ Made(s)
<1>1. Remembers /\ OnDisk
  BY DataStep
<1>2. Readable(s) /\ (s = file' \/ s = tmp' \/ \E p \in Procs : s = mem'[p])
  BY DEF Copies, Readable
<1>3. CASE s = file' \/ s = tmp'
  BY <1>1, <1>2, <1>3 DEF OnDisk, Stored
<1>4. ASSUME NEW p \in Procs, s = mem'[p] PROVE s \in Copies \/ Made(s)
  BY <1>1, <1>4, InCopies DEF Remembers, IInv, Storage
<1> QED
  BY <1>2, <1>3, <1>4

LEMMA GoodMade == ASSUME IInv, NEW s, Made(s) PROVE Good(s)
<1>1. \A p \in Procs : Good(mem[p])
  BY InCopies DEF IInv, Storage
<1>2. Good(mem["api"])
  BY <1>1, ProcsAre
<1>3. CASE s = Empty
  BY <1>3, GoodEmpty
<1>4. CASE Appended(s)
  <2>1. PICK b \in Brands, k \in Kinds : LET o == [id |-> inputs + 1, brand |-> b, kind |-> k]
            IN  inputs + 1 \in Ids /\ s = [mem["api"] EXCEPT !.outcomes = Append(@, o)]
    BY <1>4 DEF Appended
  <2> DEFINE o == [id |-> inputs + 1, brand |-> b, kind |-> k]
  <2>2. o \in Outcome
    BY <2>1 DEF Outcome
  <2> QED
    BY <1>2, <2>1, <2>2, GoodAppended
<1>5. CASE Proposed(s)
  BY <1>2, <1>5, GoodShadow DEF Proposed
<1>6. ASSUME NEW p \in Procs, PromotedBy(p, s) PROVE Good(s)
  BY <1>1, <1>6, GoodPromoted DEF PromotedBy
<1>7. ASSUME NEW p \in Procs, MarkedBy(p, s) PROVE Good(s)
  BY <1>1, <1>7, GoodMarked DEF MarkedBy
<1> QED
  BY <1>3, <1>4, <1>5, <1>6, <1>7 DEF Made

LEMMA StorageStep == ASSUME IInv, [Next]_vars PROVE Storage'
<1>1. \A s \in Copies : Good(s)
  BY DEF IInv, Storage
<1>2. \A s \in Copies' : Good(s)
  BY <1>1, CopiesStep, GoodMade
<1>3. Remembers /\ OnDisk
  BY DataStep
<1>4. \A s \in Copies : s \in Content
  BY <1>1 DEF Good
<1>5. file' \in Content \cup {Blank, Torn} /\ tmp' \in Content \cup {None, Blank, Torn}
  BY <1>3, <1>4 DEF OnDisk, Stored, Readable
<1>6. \A p \in Procs : mem'[p] \in Content
  BY <1>3, <1>4, GoodMade, InCopies DEF Remembers, IInv, Storage, Good
<1>7. mem' \in [Procs -> Content]
  BY <1>3, <1>6 DEF Remembers, OneEach
<1> QED
  BY <1>2, <1>5, <1>7 DEF Storage, Good, Copies

----------------------------------------------------------------------------
(* Every step preserves the invariant.                                      *)

LEMMA ChangesControl ==
  ASSUME Control, NEW p \in Procs, NEW s, NEW why \in Busy, Changes(p, s, why),
         p = "api" \/ why \in {"promoting", "marking"}, brand' \in [Procs -> Brands \cup {None}],
         \A q \in Procs : brand'[q] = brand[q] \/ (q = p /\ brand'[q] \in Brands),
         why \in {"promoting", "marking"} => brand'[p] \in Brands
  PROVE  Control'
<1>1. /\ pc' = [pc EXCEPT ![p] = why] /\ save' = [save EXCEPT ![p] = "start"]
  BY DEF Changes
<1>2. \A q \in Procs : pc'[q] = (IF q = p THEN why ELSE pc[q])
                       /\ save'[q] = (IF q = p THEN "start" ELSE save[q])
  BY <1>1 DEF Control
<1>3. /\ pc' \in [Procs -> {"off", "idle", "recording", "proposing", "next", "promoting",
                            "marking", "reporting"}]
      /\ save' \in [Procs -> {"none", "start", "tmp", "file", "gone", "closed"}]
  BY <1>1 DEF Control, Busy
<1>4. pc'["api"] \notin {"next", "reporting"} /\ pc'["job"] \notin {"idle", "recording", "proposing"}
  BY <1>2, ProcsAre DEF Control, Busy
<1>5. \A q \in Procs : save'[q] # "none" <=> pc'[q] \in Busy
  BY <1>2 DEF Control
<1>6. ASSUME NEW q \in Procs, pc'[q] \in {"promoting", "marking", "reporting"}
      PROVE  brand'[q] \in Brands
  <2>1. CASE q = p
    <3>1. why \in {"promoting", "marking"}
      BY <1>2, <1>6, <2>1 DEF Busy
    <3> QED
      BY <2>1, <3>1
  <2>2. CASE q # p
    <3>1. pc'[q] = pc[q] /\ brand'[q] = brand[q]
      BY <1>2, <2>2
    <3> QED
      BY <1>6, <3>1 DEF Control
  <2> QED
    BY <2>1, <2>2
<1> QED
  BY <1>3, <1>4, <1>5, <1>6 DEF Control

\* A save goes on: it is in the same mode after the step, for every process.
LEMMA SavesOn ==
  ASSUME Control, save' \in [Procs -> {"none", "start", "tmp", "file", "gone", "closed"}],
         \A p \in Procs : save'[p] = "none" <=> save[p] = "none", UNCHANGED <<pc, brand>>
  PROVE  Control'
  BY DEF Control

\* After the save of p is over, one way or another.
LEMMA SaveEnds ==
  ASSUME Control, NEW p \in Procs, NEW at \in {"off", "idle", "reporting"},
         save' \in [Procs -> {"none", "start", "tmp", "file", "gone", "closed"}],
         save'[p] = "none", \A q \in Procs \ {p} : save'[q] = "none" <=> save[q] = "none",
         pc' = [pc EXCEPT ![p] = at], p = "api" => at # "reporting", p = "job" => at # "idle",
         \/ brand' = [brand EXCEPT ![p] = None]
         \/ brand' = brand,
         at = "reporting" => brand' = brand /\ pc[p] = "marking"
  PROVE  Control'
<1>1. \A q \in Procs : pc'[q] = IF q = p THEN at ELSE pc[q]
  BY DEF Control
<1>2. pc' \in [Procs -> {"off", "idle", "recording", "proposing", "next", "promoting",
                         "marking", "reporting"}]
  BY DEF Control
<1>3. brand' \in [Procs -> Brands \cup {None}] /\ \A q \in Procs \ {p} : brand'[q] = brand[q]
  BY DEF Control
<1>4. \A q \in Procs : save'[q] # "none" <=> pc'[q] \in Busy
  BY <1>1 DEF Control, Busy
<1>5. \A q \in Procs : pc'[q] \in {"promoting", "marking", "reporting"} => brand'[q] \in Brands
  BY <1>1, <1>3 DEF Control
<1>6. pc'["api"] \notin {"next", "reporting"} /\ pc'["job"] \notin {"idle", "recording", "proposing"}
  BY <1>1, ProcsAre DEF Control
<1> QED
  BY <1>2, <1>3, <1>4, <1>5, <1>6 DEF Control

LEMMA ReplacesSave ==
  ASSUME Control, NEW p \in Procs, NEW next \in {"none", "start"}, Replaces(p, next)
  PROVE  /\ save' \in [Procs -> {"none", "start", "tmp", "file", "gone", "closed"}]
         /\ save'[p] = next /\ save[p] = "closed"
         /\ \A q \in Procs \ {p} : save'[q] = "none" <=> save[q] = "none"
<1>1. save' = [q \in Procs |-> IF q = p THEN next ELSE Moved(save[q])] /\ save[p] = "closed"
  BY DEF Replaces
<1>2. \A q \in Procs : /\ Moved(save[q]) \in {"none", "start", "tmp", "file", "gone", "closed"}
                       /\ Moved(save[q]) = "none" <=> save[q] = "none"
  BY DEF Moved, Control
<1> QED
  BY <1>1, <1>2

LEMMA InterruptedSave ==
  ASSUME Control, NEW p \in Procs, Interrupted(p)
  PROVE  /\ save' \in [Procs -> {"none", "start", "tmp", "file", "gone", "closed"}]
         /\ save'[p] = "none"
         /\ \A q \in Procs \ {p} : save'[q] = "none" <=> save[q] = "none"
  BY DEF Interrupted, Control

LEMMA ControlStep == ASSUME IInv, [Next]_vars PROVE Control'
<1> USE ProcsAre DEF IInv
<1>1. ASSUME NEW b \in Brands, NEW k \in Kinds, Record(b, k) PROVE Control'
  <2>1. PICK s : Changes("api", s, "recording") /\ brand' = brand
    BY <1>1 DEF Record
  <2> QED
    BY <2>1, ChangesControl DEF Busy, Control
<1>2. ASSUME NEW b \in Brands, NEW w \in Candidates, StartShadow(b, w) PROVE Control'
  <2>1. PICK s : Changes("api", s, "proposing") /\ brand' = brand
    BY <1>2 DEF StartShadow
  <2> QED
    BY <2>1, ChangesControl DEF Busy, Control
<1>3. ASSUME NEW p \in Procs, NEW b \in Brands, NEW s, Changes(p, s, "promoting"),
             brand' = [brand EXCEPT ![p] = b]
      PROVE  Control'
  <2>1. brand' \in [Procs -> Brands \cup {None}]
        /\ \A q \in Procs : brand'[q] = IF q = p THEN b ELSE brand[q]
    BY <1>3 DEF Control
  <2> QED
    BY <1>3, <2>1, ChangesControl DEF Busy
<1>4. ASSUME NEW b \in Brands, ApiRecalibrate(b) PROVE Control'
  BY <1>3, <1>4 DEF ApiRecalibrate
<1>5. ASSUME NEW b \in Brands, JobRecalibrate(b) PROVE Control'
  BY <1>3, <1>5 DEF JobRecalibrate
<1>6. ASSUME NEW p \in Procs, Open(p) PROVE Control'
  BY <1>6, SavesOn DEF Open, Control
<1>7. ASSUME NEW p \in Procs, Write(p) PROVE Control'
  BY <1>7, SavesOn DEF Write, Control
<1>8. ASSUME NEW p \in Procs, Mark(p) PROVE Control'
  <2>1. Replaces(p, "start") /\ pc[p] = "promoting" /\ brand' = brand
        /\ pc' = [pc EXCEPT ![p] = "marking"]
    BY <1>8 DEF Mark
  <2>2. /\ save' \in [Procs -> {"none", "start", "tmp", "file", "gone", "closed"}]
        /\ save'[p] = "start"
        /\ \A q \in Procs \ {p} : save'[q] = "none" <=> save[q] = "none"
    BY <2>1, ReplacesSave
  <2>3. \A q \in Procs : pc'[q] = IF q = p THEN "marking" ELSE pc[q]
    BY <2>1 DEF Control
  <2>4. pc' \in [Procs -> {"off", "idle", "recording", "proposing", "next", "promoting",
                           "marking", "reporting"}]
    BY <2>1 DEF Control
  <2>5. \A q \in Procs : save'[q] # "none" <=> pc'[q] \in Busy
    BY <2>2, <2>3 DEF Control, Busy
  <2>6. \A q \in Procs : pc'[q] \in {"promoting", "marking", "reporting"} => brand'[q] \in Brands
    BY <2>1, <2>3 DEF Control
  <2>7. pc'["api"] \notin {"next", "reporting"} /\ pc'["job"] \notin {"idle", "recording", "proposing"}
    BY <2>3 DEF Control
  <2> QED
    BY <2>1, <2>2, <2>4, <2>5, <2>6, <2>7 DEF Control
<1>9. CASE ApiReturns
  <2>1. Replaces("api", "none") /\ pc' = [pc EXCEPT !["api"] = "idle"]
        /\ brand' = [brand EXCEPT !["api"] = None]
    BY <1>9 DEF ApiReturns
  <2> QED
    BY <2>1, ReplacesSave, SaveEnds
<1>10. CASE ApiFails
  <2>1. Interrupted("api") /\ pc' = [pc EXCEPT !["api"] = "idle"]
        /\ brand' = [brand EXCEPT !["api"] = None]
    BY <1>10 DEF ApiFails
  <2> QED
    BY <2>1, InterruptedSave, SaveEnds
<1>11. CASE ApiDies
  <2>1. Interrupted("api") /\ pc' = [pc EXCEPT !["api"] = "off"]
        /\ brand' = [brand EXCEPT !["api"] = None]
    BY <1>11 DEF ApiDies
  <2> QED
    BY <2>1, InterruptedSave, SaveEnds
<1>12. CASE ApiStarts
  <2>1. pc["api"] = "off" /\ pc' = [pc EXCEPT !["api"] = "idle"] /\ save' = save /\ brand' = brand
    BY <1>12 DEF ApiStarts, files
  <2>2. save["api"] = "none"
    BY <2>1 DEF Control, Busy
  <2> QED
    BY <2>1, <2>2, SaveEnds DEF Control
<1>13. CASE JobStarts
  <2>1. pc["job"] = "off" /\ pc' = [pc EXCEPT !["job"] = "next"] /\ save' = save /\ brand' = brand
    BY <1>13 DEF JobStarts, JobStart, files
  <2>2. \A q \in Procs : pc'[q] = IF q = "job" THEN "next" ELSE pc[q]
    BY <2>1 DEF Control
  <2>3. pc' \in [Procs -> {"off", "idle", "recording", "proposing", "next", "promoting",
                           "marking", "reporting"}]
    BY <2>1 DEF Control
  <2> QED
    BY <2>1, <2>2, <2>3 DEF Control, Busy
<1>14. CASE JobMarked
  <2>1. Replaces("job", "none") /\ pc' = [pc EXCEPT !["job"] = "reporting"] /\ brand' = brand
        /\ pc["job"] = "marking"
    BY <1>14 DEF JobMarked
  <2> QED
    BY <2>1, ReplacesSave, SaveEnds
<1>15. CASE JobReport
  <2>1. save' = save /\ save["job"] = "none" /\ pc["job"] = "reporting"
    BY <1>15 DEF JobReport, files, Control, Busy
  <2>2. CASE pc' = [pc EXCEPT !["job"] = "next"] /\ brand' = brand
    <3>1. \A q \in Procs : pc'[q] = IF q = "job" THEN "next" ELSE pc[q]
      BY <2>2 DEF Control
    <3>2. pc' \in [Procs -> {"off", "idle", "recording", "proposing", "next", "promoting",
                             "marking", "reporting"}]
      BY <2>2 DEF Control
    <3> QED
      BY <2>1, <2>2, <3>1, <3>2 DEF Control, Busy
  <2>3. CASE JobExits
    BY <2>1, <2>3, SaveEnds DEF JobExits, Control
  <2> QED
    BY <1>15, <2>2, <2>3 DEF JobReport, JobGoesOn
<1>16. CASE JobDies
  <2>1. Interrupted("job") /\ pc' = [pc EXCEPT !["job"] = "off"]
        /\ brand' = [brand EXCEPT !["job"] = None]
    BY <1>16 DEF JobDies, JobExits
  <2> QED
    BY <2>1, InterruptedSave, SaveEnds
<1>17. CASE UNCHANGED vars
  BY <1>17 DEF vars, files, Control
<1> QED
  BY <1>1, <1>2, <1>4, <1>5, <1>6, <1>7, <1>8, <1>9, <1>10, <1>11, <1>12, <1>13, <1>14, <1>15,
     <1>16, <1>17 DEF Next, SaveStep

LEMMA InputsRest ==
  ASSUME Rest, inputs < MaxInputs, inputs' = inputs + 1, acked' = acked,
         exposed' = exposed \/ exposed' = exposed \cup {inputs + 1},
         UNCHANGED <<todo, dry, chain, overlapped, cuts, faults>>
  PROVE  Rest'
<1>1. inputs \in Nat /\ inputs + 1 \in 0..MaxInputs
  BY NextInput DEF Rest
<1>2. 1..inputs \subseteq 1..inputs' /\ inputs' \in 1..inputs' /\ inputs' >= 1
  BY <1>1
<1>3. acked' \subseteq 1..inputs' /\ exposed' \subseteq 1..inputs'
  BY <1>2 DEF Rest
<1> QED
  BY <1>1, <1>2, <1>3 DEF Rest

\* What most steps change of it, if anything.
Steady ==
    /\ inputs' = inputs
    /\ (acked' = acked \/ (acked' = acked \cup {inputs} /\ inputs >= 1))
    /\ (exposed' = exposed \/ (exposed' = exposed \cup {inputs} /\ inputs >= 1))
    /\ pc'["api"] = "recording" => pc["api"] = "recording"
    /\ todo' \subseteq Brands /\ chain' \subseteq Change
    /\ (cuts' = cuts \/ cuts' = cuts + 1)
    /\ (faults' = faults \/ Fault)
Settings == dry' \in BOOLEAN /\ overlapped' \in BOOLEAN

LEMMA OtherRest == ASSUME Rest, Steady, Settings PROVE Rest'
<1>1. inputs \in Nat /\ MaxFaults \in Nat
  BY CountsAreNat DEF Rest
<1>2. inputs >= 1 => inputs \in 1..inputs
  BY <1>1
<1>3. acked' \subseteq 1..inputs /\ exposed' \subseteq 1..inputs
  BY <1>2 DEF Rest, Steady
<1>4. faults' \in 0..MaxFaults
  BY <1>1 DEF Rest, Fault, Steady
<1>5. cuts' \in Nat
  BY DEF Rest, Steady
<1> QED
  BY <1>3, <1>4, <1>5 DEF Rest, Steady, Settings

LEMMA RestStep == ASSUME IInv, [Next]_vars PROVE Rest'
<1> USE ProcsAre DEF IInv
<1>r. todo \subseteq Brands /\ chain \subseteq Change /\ dry \in BOOLEAN /\ overlapped \in BOOLEAN
  BY DEF Rest
<1>a. ASSUME NEW at, NEW p \in Procs, pc' = [pc EXCEPT ![p] = at], at # "recording"
      PROVE  pc'["api"] = "recording" => pc["api"] = "recording"
  BY <1>a DEF Control
<1>s. ASSUME UNCHANGED <<dry, overlapped>> PROVE Settings
  BY <1>r, <1>s DEF Settings
<1>1. ASSUME NEW b \in Brands, NEW k \in Kinds, Record(b, k) PROVE Rest'
  BY <1>1, InputsRest DEF Record
<1>2. ASSUME NEW b \in Brands, NEW w \in Candidates, StartShadow(b, w) PROVE Rest'
  <2>1. inputs < MaxInputs /\ inputs' = inputs + 1
        /\ UNCHANGED <<chain, acked, exposed, todo, dry, overlapped, cuts, faults>>
    BY <1>2 DEF StartShadow, history
  <2> QED
    BY <2>1, InputsRest
<1>3. ASSUME NEW b \in Brands, ApiRecalibrate(b) PROVE Rest'
  <2>1. UNCHANGED <<world, history>> /\ pc' = [pc EXCEPT !["api"] = "promoting"]
    BY <1>3 DEF ApiRecalibrate, Changes
  <2>2. Steady /\ UNCHANGED <<dry, overlapped>>
    BY <1>r, <1>a, <2>1 DEF Steady, world, history
  <2> QED
    BY <1>s, <2>2, OtherRest
<1>4. ASSUME NEW b \in Brands, JobRecalibrate(b) PROVE Rest'
  <2>1. /\ UNCHANGED <<chain, inputs, acked, dry, history>> /\ todo' = todo \ {b}
        /\ pc' = [pc EXCEPT !["job"] = "promoting"]
    BY <1>4 DEF JobRecalibrate, Changes
  <2>2. Steady /\ UNCHANGED <<dry, overlapped>>
    BY <1>r, <1>a, <2>1 DEF Steady, history
  <2> QED
    BY <1>s, <2>2, OtherRest
<1>5. ASSUME NEW p \in Procs, Open(p) PROVE Rest'
  <2>1. /\ UNCHANGED <<pc, world, exposed, cuts, faults>>
        /\ overlapped' = (overlapped \/ \E q \in Procs \ {p} : Saving(q))
    BY <1>5 DEF Open
  <2>2. overlapped' \in BOOLEAN
    BY <2>1, Zenon
  <2>3. Steady /\ dry' = dry
    BY <1>r, <2>1 DEF Steady, world
  <2> QED
    BY <1>r, <2>2, <2>3, OtherRest DEF Settings
<1>6. ASSUME NEW p \in Procs, Write(p) PROVE Rest'
  <2>1. Steady /\ UNCHANGED <<dry, overlapped>>
    BY <1>r, <1>6 DEF Write, Steady, world, history
  <2> QED
    BY <1>s, <2>1, OtherRest
<1>7. ASSUME NEW p \in Procs, Mark(p) PROVE Rest'
  <2>1. UNCHANGED <<world, history>> /\ pc' = [pc EXCEPT ![p] = "marking"]
    BY <1>7 DEF Mark
  <2>2. Steady /\ UNCHANGED <<dry, overlapped>>
    BY <1>r, <1>a, <2>1 DEF Steady, world, history
  <2> QED
    BY <1>s, <2>2, OtherRest
<1>8. CASE ApiReturns
  <2>1. /\ UNCHANGED <<chain, inputs, todo, dry, history>> /\ pc' = [pc EXCEPT !["api"] = "idle"]
        /\ (acked' = acked \/ (acked' = acked \cup {inputs} /\ inputs >= 1))
    BY <1>8 DEF ApiReturns, Rest
  <2>2. Steady /\ UNCHANGED <<dry, overlapped>>
    BY <1>r, <1>a, <2>1 DEF Steady, history
  <2> QED
    BY <1>s, <2>2, OtherRest
<1>9. CASE ApiFails \/ ApiDies
  <2>1. /\ UNCHANGED <<world, exposed, overlapped>> /\ Fault /\ (cuts' = cuts \/ cuts' = cuts + 1)
        /\ \E at \in {"off", "idle"} : pc' = [pc EXCEPT !["api"] = at]
    BY <1>9 DEF ApiFails, ApiDies, CutIf
  <2>2. Steady /\ UNCHANGED <<dry, overlapped>>
    BY <1>r, <1>a, <2>1 DEF Steady, world
  <2> QED
    BY <1>s, <2>2, OtherRest
<1>10. CASE ApiStarts
  <2>1. /\ UNCHANGED <<world, exposed, overlapped, faults>> /\ (cuts' = cuts \/ cuts' = cuts + 1)
        /\ pc' = [pc EXCEPT !["api"] = "idle"]
    BY <1>10 DEF ApiStarts, CutIf
  <2>2. Steady /\ UNCHANGED <<dry, overlapped>>
    BY <1>r, <1>a, <2>1 DEF Steady, world
  <2> QED
    BY <1>s, <2>2, OtherRest
<1>11. ASSUME NEW some, JobStart(some), some \subseteq Brands PROVE Rest'
  <2>1. todo' \subseteq Brands /\ dry' \in BOOLEAN /\ pc' = [pc EXCEPT !["job"] = "next"]
    BY <1>11 DEF JobStart
  <2>2. /\ UNCHANGED <<chain, inputs, acked, overlapped, faults>>
        /\ (exposed' = exposed \/ (exposed' = exposed \cup {inputs} /\ inputs >= 1))
        /\ (cuts' = cuts \/ cuts' = cuts + 1)
    BY <1>11 DEF JobStart, CutIf, Rest
  <2>3. Steady
    BY <1>r, <1>a, <2>1, <2>2 DEF Steady
  <2> QED
    BY <1>r, <2>1, <2>2, <2>3, OtherRest DEF Settings
<1>12. CASE JobStarts
  <2>1. BrandsSeen(file) \subseteq Brands /\ \A b \in Brands : {b} \subseteq Brands
    BY DEF BrandsSeen
  <2>2. JobStart(BrandsSeen(file)) \/ \E b \in Brands : JobStart({b})
    BY <1>12 DEF JobStarts
  <2> QED
    BY <1>11, <2>1, <2>2
<1>13. CASE JobMarked
  <2>1. UNCHANGED <<world, history>> /\ pc' = [pc EXCEPT !["job"] = "reporting"]
    BY <1>13 DEF JobMarked
  <2>2. Steady /\ UNCHANGED <<dry, overlapped>>
    BY <1>r, <1>a, <2>1 DEF Steady, world, history
  <2> QED
    BY <1>s, <2>2, OtherRest
<1>14. CASE JobReport
  <2> DEFINE v == VersionOf(mem["job"], brand["job"])
             c == [brand |-> brand["job"], version |-> v]
  <2>1. brand["job"] \in Brands /\ mem["job"] \in Content
    <3>1. pc["job"] \in {"promoting", "marking", "reporting"}
      BY <1>14 DEF JobReport
    <3>2. brand["job"] \in Brands
      BY <3>1 DEF Control
    <3>3. mem \in [Procs -> Content]
      BY DEF Storage
    <3> QED
      BY <3>2, <3>3
  <2>2. v \in Nat
    BY <2>1, VersionType
  <2>3. c \in Change
    BY <2>1, <2>2 DEF Change
  <2>4. chain' = chain \/ chain' = chain \cup {c}
    BY <1>14 DEF JobReport
  <2> HIDE DEF c
  <2>5. chain' \subseteq Change
    BY <1>r, <2>3, <2>4
  <2>6. /\ UNCHANGED <<inputs, acked, exposed, overlapped, cuts, faults>>
        /\ todo' \subseteq Brands /\ (dry' = dry \/ dry' = FALSE)
        /\ \E at \in {"next", "off"} : pc' = [pc EXCEPT !["job"] = at]
    BY <1>14, <1>r DEF JobReport, JobGoesOn, JobExits
  <2>7. Steady
    BY <1>a, <2>5, <2>6 DEF Steady
  <2> QED
    BY <1>r, <2>6, <2>7, OtherRest DEF Settings
<1>15. CASE JobDies
  <2>1. /\ UNCHANGED <<chain, inputs, acked, exposed, overlapped>>
        /\ todo' = {} /\ dry' = FALSE /\ pc' = [pc EXCEPT !["job"] = "off"]
        /\ Fault /\ (cuts' = cuts \/ cuts' = cuts + 1)
    BY <1>15 DEF JobDies, JobExits, CutIf
  <2>2. Steady
    BY <1>r, <1>a, <2>1 DEF Steady
  <2> QED
    BY <1>r, <2>1, <2>2, OtherRest DEF Settings
<1>16. CASE UNCHANGED vars
  <2>1. Steady /\ UNCHANGED <<dry, overlapped>>
    BY <1>r, <1>16 DEF vars, world, history, Steady
  <2> QED
    BY <1>s, <2>1, OtherRest
<1> QED
  BY <1>1, <1>2, <1>3, <1>4, <1>5, <1>6, <1>7, <1>8, <1>9, <1>10, <1>12, <1>13, <1>14, <1>15,
     <1>16 DEF Next, SaveStep

LEMMA InitIInv == Init => IInv
<1> SUFFICES ASSUME Init PROVE IInv
  OBVIOUS
<1>1. Good(Empty) /\ Empty \in Content
  BY GoodEmpty DEF Good
<1>2. \A s \in Copies : s = Empty
  BY DEF Init, Copies, Readable
<1>3. Storage
  BY <1>1, <1>2 DEF Init, Storage
<1>4. Control
  BY DEF Init, Control, Procs, Busy
<1>5. 0 \in 0..MaxInputs /\ 0 \in 0..MaxFaults
  BY CountsAreNat
<1>6. Rest
  BY <1>5, ProcsAre DEF Init, Rest
<1> QED
  BY <1>3, <1>4, <1>6 DEF IInv

LEMMA StepIInv == IInv /\ [Next]_vars => IInv'
  BY StorageStep, ControlStep, RestStep DEF IInv

LEMMA AlwaysIInv == Spec => []IInv
  BY InitIInv, StepIInv, PTL DEF Spec

\* Everything the learning loop holds keeps its type.
THEOREM LearningTypeCorrect == Spec => []TypeOK
<1>1. ASSUME IInv PROVE TypeOK
  <2>1. inputs \in 0..MaxInputs /\ acked \subseteq 1..inputs /\ exposed \subseteq 1..inputs
    BY <1>1 DEF IInv, Rest
  <2>2. acked \subseteq Ids /\ exposed \subseteq Ids
    BY <2>1, CountsAreNat DEF Ids
  <2> QED
    BY <1>1, <2>2 DEF IInv, Storage, Control, Rest, TypeOK
<1> QED
  BY <1>1, AlwaysIInv, PTL

\* Every weight set in the file, in the temporary file and in the memory of either
\* process sums to exactly 1, for any number of brands, inputs and faults
\* (clamp_weights).
THEOREM WeightsAlwaysSumToOne == Spec => []WeightsSumToOne
<1>1. IInv => WeightsSumToOne
  BY DEF IInv, Storage, Good, Fair, WeightsSumToOne
<1> QED
  BY <1>1, AlwaysIInv, PTL

\* However often it is nudged, no signal's weight falls below what the clamp
\* leaves it (clamp_weights).
THEOREM NoSignalIsSilencedHolds == Spec => []NoSignalIsSilenced
<1>1. IInv => NoSignalIsSilenced
  BY DEF IInv, Storage, Good, Fair, NoSignalIsSilenced
<1> QED
  BY <1>1, AlwaysIInv, PTL
----------------------------------------------------------------------------
(* What a copy has made of its outcomes.                                     *)

Rank(s, b, i) == Cardinality({j \in OfBrand(s, b) : j <= i})
Used(s, b, i) == OldUsed(s, b)[s.outcomes[i].id]

\* Outcomes have numbers of their own, up to n, and no weights used a later one.
Numbered(s, n) ==
    /\ \A i \in DOMAIN s.outcomes : s.outcomes[i].id <= n
    /\ \A i, j \in DOMAIN s.outcomes : s.outcomes[i].id = s.outcomes[j].id => i = j
    /\ \A b \in Brands, k \in Ids : k > n => OldUsed(s, b)[k] = 0

\* The cursor counts outcomes of its brand that were used.
Behind(s) ==
    \A b \in Brands :
        /\ s.upto[b] <= Cardinality(OfBrand(s, b))
        /\ \A i \in OfBrand(s, b) : Rank(s, b, i) <= s.upto[b] => Used(s, b, i) >= 1

OwnOnly(s) ==
    \A b \in Brands, i \in DOMAIN s.outcomes : s.outcomes[i].brand # b => Used(s, b, i) = 0

Honest(s, n) == Numbered(s, n) /\ Behind(s) /\ OwnOnly(s)

AllUsed(s, b) == \A i \in OfBrand(s, b) : Used(s, b, i) >= 1

\* Outcomes of brand b were used at most m times, and at most k times if the cursor
\* does not count them.
Counted(s, b, k, m) ==
    /\ \A i \in OfBrand(s, b) : Used(s, b, i) <= m
    /\ \A i \in unrecalibrated(s, b) : Used(s, b, i) <= k

LEMMA ContentParts ==
  ASSUME NEW s \in Content
  PROVE  /\ Len(s.outcomes) \in Nat /\ DOMAIN s.outcomes = 1..Len(s.outcomes)
         /\ \A b \in Brands : s.upto[b] \in Nat /\ VersionOf(s, b) \in Nat
<1>1. s.outcomes \in Seq(Outcome) /\ s.upto \in [Brands -> Nat]
      /\ s.weights \in [Brands -> WeightSet \cup {None}]
  BY DEF Content
<1>2. ASSUME NEW b \in Brands PROVE VersionOf(s, b) \in Nat
  <2>1. s.weights[b] \in WeightSet \cup {None}
    BY <1>1
  <2> QED
    BY <2>1 DEF VersionOf, WeightSet
<1> QED
  BY <1>1, <1>2


LEMMA OfBrandIs ==
  ASSUME NEW s \in Content, NEW b \in Brands
  PROVE  /\ OfBrand(s, b) \subseteq DOMAIN s.outcomes
         /\ IsFiniteSet(OfBrand(s, b)) /\ Cardinality(OfBrand(s, b)) \in Nat
         /\ \A i : Rank(s, b, i) \in Nat /\ Rank(s, b, i) <= Cardinality(OfBrand(s, b))
<1>1. OfBrand(s, b) \subseteq DOMAIN s.outcomes
  BY DEF OfBrand
<1>2. Len(s.outcomes) \in Nat /\ DOMAIN s.outcomes = 1..Len(s.outcomes)
  BY ContentParts
<1>3. IsFiniteSet(1..Len(s.outcomes))
  BY <1>2, FS_Interval
<1>4. IsFiniteSet(OfBrand(s, b))
  BY <1>1, <1>2, <1>3, FS_Subset
<1>5. Cardinality(OfBrand(s, b)) \in Nat
  BY <1>4, FS_CardinalityType
<1>6. ASSUME NEW i
      PROVE  Rank(s, b, i) \in Nat /\ Rank(s, b, i) <= Cardinality(OfBrand(s, b))
  <2> DEFINE S == {j \in OfBrand(s, b) : j <= i}
  <2>1. IsFiniteSet(S) /\ Cardinality(S) <= Cardinality(OfBrand(s, b))
    BY <1>4, FS_Subset
  <2>2. Cardinality(S) \in Nat
    BY <2>1, FS_CardinalityType
  <2> QED
    BY <2>1, <2>2 DEF Rank
<1> QED
  BY <1>1, <1>4, <1>5, <1>6

LEMMA IdsAreIds ==
  ASSUME NEW s \in Content
  PROVE  \A i \in DOMAIN s.outcomes : s.outcomes[i].id \in Ids
<1>1. s.outcomes \in Seq(Outcome)
  BY DEF Content
<1>2. \A i \in DOMAIN s.outcomes : s.outcomes[i] \in Outcome
  BY <1>1
<1> QED
  BY <1>2 DEF Outcome

LEMMA UsedIsNat ==
  ASSUME NEW s \in Content, NEW b \in Brands
  PROVE  /\ \A k \in Ids : OldUsed(s, b)[k] \in Nat
         /\ \A i \in DOMAIN s.outcomes : Used(s, b, i) \in Nat
<1>1. s.weights[b] \in WeightSet \cup {None}
  BY DEF Content
<1>2. \A k \in Ids : OldUsed(s, b)[k] \in Nat
  BY <1>1 DEF OldUsed, Unused, WeightSet
<1> QED
  BY <1>2, IdsAreIds DEF Used

LEMMA UncountedIs ==
  ASSUME NEW s, NEW b
  PROVE  \A i : i \in unrecalibrated(s, b) <=> i \in OfBrand(s, b) /\ Rank(s, b, i) > s.upto[b]
  BY DEF unrecalibrated, Rank

\* An outcome that is appended is its brand's last and not used by anyone.
LEMMA AppendedHonest ==
  ASSUME NEW s \in Content, NEW n \in Nat, Honest(s, n), NEW o \in Outcome, o.id = n + 1
  PROVE  LET t == [s EXCEPT !.outcomes = Append(@, o)]
         IN  /\ Honest(t, n + 1)
             /\ \A b \in Brands, k, m \in Nat : Counted(s, b, k, m) => Counted(t, b, k, m)
<1> DEFINE t == [s EXCEPT !.outcomes = Append(@, o)]
           last == Len(s.outcomes) + 1
<1>1. /\ t.outcomes = Append(s.outcomes, o) /\ t.upto = s.upto /\ t.weights = s.weights
      /\ s.outcomes \in Seq(Outcome)
  BY DEF Content
<1>2. /\ last \in Nat \ {0} /\ DOMAIN s.outcomes = 1..(last - 1) /\ DOMAIN t.outcomes = 1..last
      /\ \A i \in 1..(last - 1) : t.outcomes[i] = s.outcomes[i]
      /\ t.outcomes[last] = o
  BY <1>1
<1>a. Append(s.outcomes, o) \in Seq(Outcome)
  BY <1>1
<1>t. t \in Content
  BY <1>a DEF Content
<1> HIDE DEF t, last
<1>3. \A b : OldUsed(t, b) = OldUsed(s, b)
  BY <1>1 DEF OldUsed
<1>4. \A b : /\ \A i \in DOMAIN s.outcomes : Used(t, b, i) = Used(s, b, i)
             /\ Used(t, b, last) = OldUsed(s, b)[o.id]
  BY <1>2, <1>3 DEF Used
<1>5. /\ \A i \in DOMAIN s.outcomes : s.outcomes[i].id \in Ids /\ s.outcomes[i].id <= n
      /\ Ids \subseteq Nat /\ o.id \in Ids
  BY IdsAreIds DEF Honest, Numbered, Ids, Outcome
<1>6. \A b \in Brands : OldUsed(s, b)[o.id] = 0
  BY <1>5 DEF Honest, Numbered
<1>7. Numbered(t, n + 1)
  <2>1. \A i \in DOMAIN t.outcomes :
            \/ i \in DOMAIN s.outcomes /\ t.outcomes[i] = s.outcomes[i]
            \/ i = last /\ t.outcomes[i].id = n + 1
    BY <1>2
  <2>n. ASSUME NEW i \in DOMAIN s.outcomes
        PROVE  s.outcomes[i].id \in Nat /\ s.outcomes[i].id <= n /\ s.outcomes[i].id # n + 1
    <3>1. s.outcomes[i].id \in Ids /\ s.outcomes[i].id <= n
      BY <1>5
    <3>2. PICK k \in Nat : k = s.outcomes[i].id
      BY <3>1 DEF Ids
    <3>3. k <= n
      BY <3>1, <3>2
    <3> QED
      BY <3>2, <3>3
  <2>2. ASSUME NEW i \in DOMAIN t.outcomes PROVE t.outcomes[i].id <= n + 1
    <3>1. CASE i \in DOMAIN s.outcomes /\ t.outcomes[i] = s.outcomes[i]
      BY <2>n, <3>1
    <3>2. CASE t.outcomes[i].id = n + 1
      BY <3>2
    <3> QED
      BY <2>1, <3>1, <3>2
  <2>3. ASSUME NEW i \in DOMAIN t.outcomes, NEW j \in DOMAIN t.outcomes,
               t.outcomes[i].id = t.outcomes[j].id
        PROVE  i = j
    <3>1. CASE i = last \/ j = last
      <4>1. t.outcomes[i].id = n + 1 /\ t.outcomes[j].id = n + 1
        BY <1>2, <2>3, <3>1
      <4>2. ASSUME NEW k \in DOMAIN t.outcomes, t.outcomes[k].id = n + 1 PROVE k = last
        BY <2>1, <2>n, <4>2
      <4> QED
        BY <4>1, <4>2
    <3>2. CASE i # last /\ j # last
      BY <2>1, <2>3, <3>2 DEF Honest, Numbered
    <3> QED
      BY <3>1, <3>2
  <2>4. \A b \in Brands, k \in Ids : k > n + 1 => OldUsed(t, b)[k] = 0
    BY <1>3, <1>5 DEF Honest, Numbered
  <2> QED
    BY <2>2, <2>3, <2>4 DEF Numbered
<1>8. ASSUME NEW b \in Brands
      PROVE  /\ o.brand # b => OfBrand(t, b) = OfBrand(s, b)
             /\ o.brand = b => OfBrand(t, b) = OfBrand(s, b) \cup {last}
             /\ \A i \in OfBrand(s, b) : i \in 1..(last - 1) /\ Rank(t, b, i) = Rank(s, b, i)
             /\ last \in OfBrand(t, b) => Rank(t, b, last) = Cardinality(OfBrand(s, b)) + 1
             /\ Cardinality(OfBrand(s, b)) <= Cardinality(OfBrand(t, b))
  <2>1. /\ o.brand # b => OfBrand(t, b) = OfBrand(s, b)
        /\ o.brand = b => OfBrand(t, b) = OfBrand(s, b) \cup {last}
    BY <1>2 DEF OfBrand
  <2>2. OfBrand(s, b) \subseteq 1..(last - 1) /\ OfBrand(t, b) \subseteq 1..last
    BY <1>2 DEF OfBrand
  <2>3. ASSUME NEW i \in OfBrand(s, b) PROVE Rank(t, b, i) = Rank(s, b, i)
    <3>1. {j \in OfBrand(t, b) : j <= i} = {j \in OfBrand(s, b) : j <= i}
      BY <1>2, <2>1, <2>2
    <3> QED
      BY <3>1 DEF Rank
  <2>4. ASSUME last \in OfBrand(t, b)
        PROVE  Rank(t, b, last) = Cardinality(OfBrand(s, b)) + 1
    <3>1. {j \in OfBrand(t, b) : j <= last} = OfBrand(s, b) \cup {last}
      BY <1>2, <2>1, <2>2, <2>4
    <3>2. last \notin OfBrand(s, b) /\ IsFiniteSet(OfBrand(s, b))
      BY <1>2, <2>2, OfBrandIs
    <3>3. Cardinality(OfBrand(s, b) \cup {last}) = Cardinality(OfBrand(s, b)) + 1
      BY <3>2, FS_AddElement
    <3> QED
      BY <3>1, <3>3 DEF Rank
  <2>5. Cardinality(OfBrand(s, b)) <= Cardinality(OfBrand(t, b))
    BY <1>t, <2>1, OfBrandIs, FS_Subset
  <2> QED
    BY <2>1, <2>2, <2>3, <2>4, <2>5
<1>9. \A b \in Brands : \A i \in OfBrand(t, b) :
          i \in OfBrand(s, b) \/ (i = last /\ Used(t, b, i) = 0)
  BY <1>4, <1>6, <1>8
<1>10. Behind(t)
  <2> SUFFICES ASSUME NEW b \in Brands
               PROVE  /\ t.upto[b] <= Cardinality(OfBrand(t, b))
                      /\ \A i \in OfBrand(t, b) :
                            Rank(t, b, i) <= t.upto[b] => Used(t, b, i) >= 1
    BY DEF Behind
  <2>1. /\ s.upto[b] \in Nat /\ s.upto[b] <= Cardinality(OfBrand(s, b))
        /\ t.upto[b] = s.upto[b]
        /\ Cardinality(OfBrand(s, b)) \in Nat /\ Cardinality(OfBrand(t, b)) \in Nat
    BY <1>1, <1>t, OfBrandIs, ContentParts DEF Honest, Behind
  <2>2. t.upto[b] <= Cardinality(OfBrand(t, b))
    BY <1>8, <2>1
  <2>3. ASSUME NEW i \in OfBrand(s, b), Rank(t, b, i) <= t.upto[b] PROVE Used(t, b, i) >= 1
    BY <1>2, <1>4, <1>8, <2>1, <2>3 DEF Honest, Behind
  <2>4. last \in OfBrand(t, b) => ~(Rank(t, b, last) <= t.upto[b])
    BY <1>8, <2>1
  <2> QED
    BY <1>9, <2>2, <2>3, <2>4
<1>11. OwnOnly(t)
  BY <1>2, <1>4, <1>6 DEF Honest, OwnOnly
<1>12. ASSUME NEW b \in Brands, NEW k \in Nat, NEW m \in Nat, Counted(s, b, k, m)
       PROVE  Counted(t, b, k, m)
  <2>1. \A i \in OfBrand(t, b) : Used(t, b, i) <= m
    BY <1>2, <1>4, <1>8, <1>9, <1>12 DEF Counted
  <2>2. \A i \in unrecalibrated(t, b) : Used(t, b, i) <= k
    BY <1>1, <1>2, <1>4, <1>8, <1>9, <1>12, UncountedIs DEF Counted
  <2> QED
    BY <2>1, <2>2 DEF Counted
<1> QED
  BY <1>7, <1>10, <1>11, <1>12 DEF Honest, t

LEMMA ShadowHonest ==
  ASSUME NEW s \in Content, NEW n \in Nat, Honest(s, n), NEW c \in Brands, NEW w
  PROVE  /\ Honest([s EXCEPT !.shadow[c] = w], n)
         /\ \A b, k, m : Counted(s, b, k, m) => Counted([s EXCEPT !.shadow[c] = w], b, k, m)
<1> DEFINE t == [s EXCEPT !.shadow[c] = w]
<1>1. t.outcomes = s.outcomes /\ t.upto = s.upto /\ t.weights = s.weights
  BY DEF Content
<1> HIDE DEF t
<1>2. \A b : OldUsed(t, b) = OldUsed(s, b) /\ OfBrand(t, b) = OfBrand(s, b)
  BY <1>1 DEF OldUsed, OfBrand
<1>3. \A b, i : Used(t, b, i) = Used(s, b, i) /\ Rank(t, b, i) = Rank(s, b, i)
  BY <1>1, <1>2 DEF Used, Rank
<1>4. ASSUME NEW b PROVE unrecalibrated(t, b) = unrecalibrated(s, b)
  BY <1>1, <1>2 DEF unrecalibrated
<1>5. Honest(t, n)
  BY <1>1, <1>2, <1>3 DEF Honest, Numbered, Behind, OwnOnly
<1>6. \A b, k, m : Counted(s, b, k, m) => Counted(t, b, k, m)
  BY <1>2, <1>3, <1>4 DEF Counted
<1> QED
  BY <1>5, <1>6 DEF t

\* One more input changes nothing.
LEMMA HonestLater == ASSUME NEW s \in Content, NEW n \in Nat, Honest(s, n)
                     PROVE  Honest(s, n + 1)
<1>1. \A i \in DOMAIN s.outcomes : s.outcomes[i].id \in Nat
  BY IdsAreIds DEF Ids
<1>2. Ids \subseteq Nat
  BY DEF Ids
<1> QED
  BY <1>1, <1>2 DEF Honest, Numbered

\* How often a promotion of brand b uses outcome k.
Uses(s, b, k) == Cardinality({j \in unrecalibrated(s, b) : s.outcomes[j].id = k})

\* An outcome that is not counted yet is used once by a promotion.
LEMMA BatchUses ==
  ASSUME NEW s \in Content, NEW n \in Nat, Honest(s, n), NEW b \in Brands
  PROVE  /\ \A i \in unrecalibrated(s, b) : Uses(s, b, s.outcomes[i].id) = 1
         /\ \A i \in DOMAIN s.outcomes :
                i \notin unrecalibrated(s, b) => Uses(s, b, s.outcomes[i].id) = 0
         /\ \A k \in Ids : k > n => Uses(s, b, k) = 0
<1>1. unrecalibrated(s, b) \subseteq DOMAIN s.outcomes
  BY DEF unrecalibrated, OfBrand
<1>2. \A i \in DOMAIN s.outcomes :
          {j \in unrecalibrated(s, b) : s.outcomes[j].id = s.outcomes[i].id}
             = IF i \in unrecalibrated(s, b) THEN {i} ELSE {}
  BY <1>1 DEF Honest, Numbered
<1>3. \A i : Cardinality({i}) = 1
  BY FS_Singleton
<1>4. \A i \in DOMAIN s.outcomes :
          Uses(s, b, s.outcomes[i].id) = IF i \in unrecalibrated(s, b) THEN 1 ELSE 0
  BY <1>2, <1>3, FS_EmptySet DEF Uses
<1>5. ASSUME NEW k \in Ids, k > n
      PROVE  Uses(s, b, k) = 0
  <2>1. \A i \in DOMAIN s.outcomes : s.outcomes[i].id \in Nat /\ s.outcomes[i].id <= n
    BY IdsAreIds DEF Ids, Honest, Numbered
  <2>2. k \in Nat
    BY DEF Ids
  <2>3. {j \in unrecalibrated(s, b) : s.outcomes[j].id = k} = {}
    BY <1>1, <1>5, <2>1, <2>2
  <2> QED
    BY <2>3, FS_EmptySet DEF Uses
<1> QED
  BY <1>1, <1>4, <1>5

\* A promotion uses what the cursor does not count, and touches its brand only.
LEMMA NewWeightsHonest ==
  ASSUME NEW s \in Content, NEW n \in Nat, Honest(s, n), NEW b \in Brands,
         NEW new \in WeightSet, NEW t,
         \A k \in Ids : new.used[k] = OldUsed(s, b)[k] + Uses(s, b, k),
         t.outcomes = s.outcomes, t.upto = s.upto, t.weights = [s.weights EXCEPT ![b] = new]
  PROVE  /\ Honest(t, n) /\ AllUsed(t, b)
         /\ \A k, m \in Nat : k < m /\ Counted(s, b, k, m) => Counted(t, b, k + 1, m)
         /\ \A c \in Brands, k, m \in Nat : c # b /\ Counted(s, c, k, m) => Counted(t, c, k, m)
<1>1. \A k \in Ids : new.used[k] = OldUsed(s, b)[k] + Uses(s, b, k)
  OBVIOUS
<1>2. t.outcomes = s.outcomes /\ t.upto = s.upto /\ t.weights = [s.weights EXCEPT ![b] = new]
  OBVIOUS
<1>3. \A c \in Brands : t.weights[c] = IF c = b THEN new ELSE s.weights[c]
  BY <1>2 DEF Content
<1>4. OldUsed(t, b) = new.used /\ \A c \in Brands : c # b => OldUsed(t, c) = OldUsed(s, c)
  BY <1>3, NoneIsNoWeights DEF OldUsed
<1>5. /\ \A c \in Brands : c # b => \A i \in DOMAIN s.outcomes : Used(t, c, i) = Used(s, c, i)
      /\ \A i \in DOMAIN s.outcomes : \/ /\ i \in unrecalibrated(s, b)
                                          /\ Used(t, b, i) = Used(s, b, i) + 1
                                       \/ /\ i \notin unrecalibrated(s, b)
                                          /\ Used(t, b, i) = Used(s, b, i)
  <2>1. ASSUME NEW i \in DOMAIN s.outcomes
        PROVE  \/ i \in unrecalibrated(s, b) /\ Used(t, b, i) = Used(s, b, i) + 1
               \/ i \notin unrecalibrated(s, b) /\ Used(t, b, i) = Used(s, b, i)
    <3>1. s.outcomes[i].id \in Ids /\ Used(s, b, i) \in Nat
      BY IdsAreIds, UsedIsNat
    <3>2. Used(t, b, i) = Used(s, b, i) + Uses(s, b, s.outcomes[i].id)
      BY <1>1, <1>2, <1>4, <3>1 DEF Used
    <3> QED
      BY <3>1, <3>2, BatchUses
  <2> QED
    BY <1>2, <1>4, <2>1 DEF Used
<1>6. \A c \in Brands : OfBrand(t, c) = OfBrand(s, c) /\ OfBrand(s, c) \subseteq DOMAIN s.outcomes
  BY <1>2 DEF OfBrand
<1>7. \A c \in Brands : unrecalibrated(t, c) = unrecalibrated(s, c)
  BY <1>2, <1>6 DEF unrecalibrated
<1>8. \A c \in Brands : \A i \in DOMAIN s.outcomes : Used(s, c, i) \in Nat
  BY UsedIsNat
<1>9. \A i \in OfBrand(s, b) : i \in unrecalibrated(s, b) \/ Used(s, b, i) >= 1
  <2> SUFFICES ASSUME NEW i \in OfBrand(s, b), i \notin unrecalibrated(s, b)
               PROVE  Used(s, b, i) >= 1
    OBVIOUS
  <2>1. Rank(s, b, i) \in Nat /\ s.upto[b] \in Nat
    BY OfBrandIs, ContentParts
  <2>2. Rank(s, b, i) <= s.upto[b]
    BY <2>1, UncountedIs
  <2> QED
    BY <2>2 DEF Honest, Behind
<1>10. Numbered(t, n)
  <2>1. ASSUME NEW c \in Brands, NEW k \in Ids, k > n PROVE OldUsed(t, c)[k] = 0
    <3>1. OldUsed(s, c)[k] = 0
      BY <2>1 DEF Honest, Numbered
    <3>2. Uses(s, b, k) = 0
      BY <2>1, BatchUses
    <3> QED
      BY <1>1, <1>4, <3>1, <3>2
  <2> QED
    BY <1>2, <2>1 DEF Honest, Numbered
<1>11. Behind(t)
  <2>1. \A c \in Brands : \A i \in DOMAIN s.outcomes : Rank(t, c, i) = Rank(s, c, i)
    BY <1>6 DEF Rank
  <2>2. \A c \in Brands : \A i \in OfBrand(s, c) : Used(s, c, i) >= 1 => Used(t, c, i) >= 1
    BY <1>5, <1>6, <1>8
  <2> QED
    BY <1>2, <1>6, <2>1, <2>2 DEF Honest, Behind
<1>12. OwnOnly(t)
  <2>1. \A i \in unrecalibrated(s, b) : s.outcomes[i].brand = b
    BY DEF unrecalibrated, OfBrand
  <2> QED
    BY <1>2, <1>5, <2>1 DEF Honest, OwnOnly
<1>13. AllUsed(t, b)
  BY <1>5, <1>6, <1>8, <1>9 DEF AllUsed
<1>14. ASSUME NEW k \in Nat, NEW m \in Nat, k < m, Counted(s, b, k, m)
       PROVE  Counted(t, b, k + 1, m)
  <2>1. \A i \in OfBrand(s, b) : Used(t, b, i) <= m
    BY <1>5, <1>6, <1>8, <1>14 DEF Counted
  <2>2. \A i \in unrecalibrated(s, b) : i \in DOMAIN s.outcomes /\ Used(t, b, i) <= k + 1
    BY <1>5, <1>6, <1>8, <1>14 DEF Counted, unrecalibrated
  <2> QED
    BY <1>6, <1>7, <2>1, <2>2 DEF Counted
<1>15. ASSUME NEW c \in Brands, NEW k \in Nat, NEW m \in Nat, c # b, Counted(s, c, k, m)
       PROVE  Counted(t, c, k, m)
  <2>1. unrecalibrated(s, c) \subseteq DOMAIN s.outcomes
    BY DEF unrecalibrated, OfBrand
  <2> QED
    BY <1>5, <1>6, <1>7, <1>15, <2>1 DEF Counted
<1> QED
  BY <1>10, <1>11, <1>12, <1>13, <1>14, <1>15 DEF Honest

Authors == {"api", "job", "dry run"}

LEMMA PromotedHonest ==
  ASSUME NEW s \in Content, NEW n \in Nat, Honest(s, n), NEW b \in Brands,
         NEW who \in Authors
  PROVE  /\ Honest(Promoted(s, b, who), n) /\ AllUsed(Promoted(s, b, who), b)
         /\ \A k, m \in Nat :
               k < m /\ Counted(s, b, k, m) => Counted(Promoted(s, b, who), b, k + 1, m)
         /\ \A c \in Brands, k, m \in Nat :
               c # b /\ Counted(s, c, k, m) => Counted(Promoted(s, b, who), c, k, m)
<1> DEFINE t == Promoted(s, b, who)
<1>1. PICK new \in WeightSet :
            /\ \A k \in Ids : new.used[k] = OldUsed(s, b)[k] + Uses(s, b, k)
            /\ t = WithWeights(s, b, new)
  BY PromotedIs DEF Uses, Authors
<1>2. t.outcomes = s.outcomes /\ t.upto = s.upto /\ t.weights = [s.weights EXCEPT ![b] = new]
  BY <1>1 DEF Content, WithWeights
<1> HIDE DEF t
<1>3. /\ Honest(t, n) /\ AllUsed(t, b)
      /\ \A k, m \in Nat : k < m /\ Counted(s, b, k, m) => Counted(t, b, k + 1, m)
      /\ \A c \in Brands, k, m \in Nat : c # b /\ Counted(s, c, k, m) => Counted(t, c, k, m)
  BY <1>1, <1>2, NewWeightsHonest
<1> QED
  BY <1>3 DEF t

\* The cursor may count all outcomes of its brand once all were used.
LEMMA MarkedHonest ==
  ASSUME NEW s \in Content, NEW n \in Nat, Honest(s, n), NEW b \in Brands, AllUsed(s, b)
  PROVE  /\ Honest(Marked(s, b), n)
         /\ \A j, k, m : Counted(s, b, k, m) => Counted(Marked(s, b), b, j, m)
         /\ \A c \in Brands : \A k, m : c # b /\ Counted(s, c, k, m) => Counted(Marked(s, b), c, k, m)
<1> DEFINE total == Cardinality(OfBrand(s, b))
           t == Marked(s, b)
<1>1. total \in Nat /\ s.upto \in [Brands -> Nat] /\ s.upto[b] <= total
  BY OfBrandIs DEF Content, Honest, Behind
<1>2. t = [s EXCEPT !.upto[b] = IF total > @ THEN total ELSE @]
  BY DEF Marked
<1> HIDE DEF total, t
<1>3. /\ t.outcomes = s.outcomes /\ t.weights = s.weights
      /\ t.upto = [s.upto EXCEPT ![b] = IF total > @ THEN total ELSE @]
  BY <1>2 DEF Content
<1>4. t.upto[b] = total /\ \A c \in Brands : c # b => t.upto[c] = s.upto[c]
  BY <1>1, <1>3
<1>5. \A c : OldUsed(t, c) = OldUsed(s, c) /\ OfBrand(t, c) = OfBrand(s, c)
  BY <1>3 DEF OldUsed, OfBrand
<1>6. \A c, i : Used(t, c, i) = Used(s, c, i) /\ Rank(t, c, i) = Rank(s, c, i)
  BY <1>3, <1>5 DEF Used, Rank
<1>7. unrecalibrated(t, b) = {}
  <2>1. \A i : Rank(s, b, i) \in Nat /\ Rank(s, b, i) <= total
    BY OfBrandIs DEF total
  <2>2. \A i \in OfBrand(t, b) : ~(Rank(t, b, i) > t.upto[b])
    BY <1>1, <1>4, <1>6, <2>1
  <2> QED
    BY <2>2, UncountedIs
<1>8. ASSUME NEW c \in Brands, c # b PROVE unrecalibrated(t, c) = unrecalibrated(s, c)
  BY <1>4, <1>5, <1>8 DEF unrecalibrated
<1>9. Behind(t)
  <2>1. ASSUME NEW c \in Brands, c # b
        PROVE  /\ t.upto[c] <= Cardinality(OfBrand(t, c))
               /\ \A i \in OfBrand(t, c) : Rank(t, c, i) <= t.upto[c] => Used(t, c, i) >= 1
    BY <1>4, <1>5, <1>6, <2>1 DEF Honest, Behind
  <2>2. /\ t.upto[b] <= Cardinality(OfBrand(t, b))
        /\ \A i \in OfBrand(t, b) : Used(t, b, i) >= 1
    BY <1>1, <1>4, <1>5, <1>6 DEF total, AllUsed
  <2> QED
    BY <2>1, <2>2 DEF Behind
<1>10. Numbered(t, n) /\ OwnOnly(t)
  BY <1>3, <1>5, <1>6 DEF Honest, Numbered, OwnOnly
<1>11. \A j, k, m : Counted(s, b, k, m) => Counted(t, b, j, m)
  BY <1>5, <1>6, <1>7 DEF Counted
<1>12. ASSUME NEW c \in Brands, NEW k, NEW m, c # b, Counted(s, c, k, m)
       PROVE  Counted(t, c, k, m)
  BY <1>5, <1>6, <1>8, <1>12 DEF Counted
<1> QED
  BY <1>9, <1>10, <1>11, <1>12 DEF Honest, t

LEMMA EmptyHonest ==
  ASSUME NEW n \in Nat
  PROVE  Honest(Empty, n) /\ \A b \in Brands : \A k, m : Counted(Empty, b, k, m)
<1>1. Empty \in Content
  BY GoodEmpty DEF Good
<1>2. Empty.outcomes = <<>> /\ DOMAIN Empty.outcomes = {} /\ \A b : OfBrand(Empty, b) = {}
  BY DEF Empty, OfBrand
<1>3. \A b \in Brands : Empty.upto[b] = 0 /\ Empty.weights[b] = None
  BY DEF Empty
<1>4. \A b \in Brands, k \in Ids : OldUsed(Empty, b)[k] = 0
  BY <1>3 DEF OldUsed, Unused
<1>5. ASSUME NEW b \in Brands PROVE Empty.upto[b] <= Cardinality(OfBrand(Empty, b))
  <2>1. Empty.upto[b] = 0 /\ OfBrand(Empty, b) = {}
    BY <1>2, <1>3
  <2>2. Cardinality({}) = 0
    BY FS_EmptySet
  <2> QED
    BY <2>1, <2>2
<1>6. \A b \in Brands : unrecalibrated(Empty, b) = {}
  BY <1>2 DEF unrecalibrated
<1> QED
  BY <1>2, <1>4, <1>5, <1>6 DEF Honest, Numbered, Behind, OwnOnly, Counted
----------------------------------------------------------------------------
(* The cursor never runs ahead: every copy is honest, and what a process has *)
(* promoted and not yet marked it has used.                                  *)

Truthful == /\ \A s \in Copies : Honest(s, inputs)
            /\ \A p \in Procs : pc[p] = "promoting" => AllUsed(mem[p], brand[p])

\* What one step does to the part of process p: it leaves it as it is, ...
Still(p) == mem'[p] = mem[p] /\ pc'[p] = pc[p] /\ brand'[p] = brand[p]
\* ... or begins the first half of a recalibration, ...
Promotes(p) ==
    /\ pc[p] \in {"idle", "next"} /\ pc'[p] = "promoting" /\ brand'[p] \in Brands
    /\ \E who \in Authors : mem'[p] = Promoted(mem[p], brand'[p], who)
\* ... or the second one, ...
Marks(p) == pc'[p] = "marking" /\ brand'[p] = brand[p] /\ MarkedBy(p, mem'[p])
\* ... or is cut off in one, or is in none; then its copy is the one it had, or a
\* new one, or what it finds in the file.
Leaves(p) ==
    /\ pc'[p] # "promoting"
    /\ \/ mem'[p] = mem[p] /\ (pc'[p] # "off" => pc[p] # "off")
       \/ mem'[p] = Empty /\ pc'[p] = "off"
       \/ Readable(file) /\ mem'[p] = file /\ (cuts' = cuts + 1 \/ \A q \in Procs : ~Halfway(q))
       \/ p = "api" /\ pc[p] = "idle" /\ (Appended(mem'[p]) \/ Proposed(mem'[p]))
Replaced == file' = tmp /\ tmp' = None
Idles(p) == Leaves(p) /\ ~Halfway(p)
Cut(p) == Leaves(p) /\ cuts' = cuts + 1
Finishes(p) == Leaves(p) /\ pc[p] = "marking" /\ Replaced

Flow(p) == \/ Still(p) \/ Promotes(p) \/ Idles(p) \/ Cut(p)
           \/ (Marks(p) /\ Replaced) \/ Finishes(p)

\* What it does to the file and to the temporary one.
Unmoved == UNCHANGED <<pc, brand, mem>>
FileFlow == \/ ~Readable(file') \/ Replaced \/ file' = file
            \/ Unmoved /\ \E p \in Procs : pc[p] # "off" /\ file' = mem[p]
TmpFlow == \/ ~Readable(tmp') \/ tmp' = tmp
           \/ Unmoved /\ \E p \in Procs : pc[p] # "off" /\ tmp' = mem[p]

Flows == /\ \A p \in Procs : Flow(p)
         /\ FileFlow /\ TmpFlow
         /\ (cuts' = cuts \/ cuts' = cuts + 1)
         /\ (inputs' = inputs \/ inputs' = inputs + 1)

LEMMA Unread == ~Readable(None) /\ ~Readable(Blank) /\ ~Readable(Torn)
  BY DEF Readable

\* One process acts, the other one stands still.
LEMMA ApiFlow == ASSUME Flow("api"), Still("job") PROVE \A p \in Procs : Flow(p)
  BY ProcsAre DEF Flow
LEMMA JobFlow == ASSUME Flow("job"), Still("api") PROVE \A p \in Procs : Flow(p)
  BY ProcsAre DEF Flow

LEMMA ReplaceFlow == ASSUME NEW p, NEW next, Replaces(p, next) PROVE Replaced /\ FileFlow /\ TmpFlow
  BY Unread DEF Replaces, Replaced, FileFlow, TmpFlow

LEMMA InterruptFlow == ASSUME NEW p, Interrupted(p) PROVE FileFlow /\ TmpFlow
<1>1. (tmp' = tmp \/ tmp' = Torn) /\ (file' = file \/ file' = Torn)
  BY DEF Interrupted
<1> QED
  BY <1>1, Unread DEF FileFlow, TmpFlow

LEMMA QuietFlow == ASSUME UNCHANGED <<file, tmp>> PROVE FileFlow /\ TmpFlow
  BY DEF FileFlow, TmpFlow

\* Only the part of p changes.
LEMMA OnlyOf ==
  ASSUME IInv, NEW p \in Procs, NEW q \in Procs, p # q,
         mem' = mem \/ \E s : mem' = [mem EXCEPT ![p] = s],
         pc' = pc \/ \E at : pc' = [pc EXCEPT ![p] = at],
         brand' = brand \/ \E b : brand' = [brand EXCEPT ![p] = b]
  PROVE  Still(q)
  BY DEF IInv, Storage, Control, Still

LEMMA PromoteFlow ==
  ASSUME IInv, NEW p \in Procs, NEW b \in Brands, NEW who \in Authors,
         pc[p] \in {"idle", "next"}, Changes(p, Promoted(mem[p], b, who), "promoting"),
         brand' = [brand EXCEPT ![p] = b]
  PROVE  Promotes(p)
<1>1. /\ mem' = [mem EXCEPT ![p] = Promoted(mem[p], b, who)]
      /\ pc' = [pc EXCEPT ![p] = "promoting"]
  BY DEF Changes
<1>2. mem'[p] = Promoted(mem[p], b, who) /\ pc'[p] = "promoting" /\ brand'[p] = b
  BY <1>1 DEF IInv, Storage, Control
<1> QED
  BY <1>2 DEF Promotes

LEMMA MarkFlow == ASSUME IInv, NEW p \in Procs, Mark(p) PROVE Marks(p) /\ Replaced
<1>1. /\ mem' = [mem EXCEPT ![p] = Marked(mem[p], brand[p])] /\ pc[p] = "promoting"
      /\ pc' = [pc EXCEPT ![p] = "marking"] /\ brand' = brand
  BY DEF Mark
<1>2. mem'[p] = Marked(mem[p], brand[p]) /\ pc'[p] = "marking" /\ brand[p] \in Brands
  BY <1>1 DEF IInv, Storage, Control
<1> QED
  BY <1>1, <1>2, ReplaceFlow DEF Marks, MarkedBy, Mark

LEMMA FlowStep == ASSUME IInv, [Next]_vars PROVE Flows
<1> USE ProcsAre
<1>d. "api" # "job"
  OBVIOUS
<1>t. mem \in [Procs -> Content] /\ DOMAIN pc = Procs
  BY DEF IInv, Storage, Control
<1>u. ASSUME UNCHANGED <<pc, brand, mem>> PROVE \A p \in Procs : Flow(p)
  BY <1>u DEF Flow, Still
<1>1. ASSUME NEW b \in Brands, NEW k \in Kinds, Record(b, k) PROVE Flows
  <2> DEFINE o == [id |-> inputs + 1, brand |-> b, kind |-> k]
             s == [mem["api"] EXCEPT !.outcomes = Append(@, o)]
  <2>1. /\ mem' = [mem EXCEPT !["api"] = s] /\ UNCHANGED <<file, tmp, cuts, brand>>
        /\ inputs' = inputs + 1 /\ pc["api"] = "idle" /\ pc' = [pc EXCEPT !["api"] = "recording"]
    BY <1>1 DEF Record, Changes
  <2>2. Appended(s)
    BY <1>1, <2>1, NextInput DEF Appended, Record, Rest, IInv
  <2> HIDE DEF s
  <2>3. mem'["api"] = s /\ pc'["api"] = "recording"
    BY <1>t, <2>1
  <2>4. Flow("api")
    BY <2>1, <2>2, <2>3 DEF Flow, Idles, Leaves, Halfway
  <2>5. Still("job")
    BY <1>d, <2>1, OnlyOf
  <2> QED
    BY <2>1, <2>4, <2>5, ApiFlow, QuietFlow DEF Flows
<1>2. ASSUME NEW b \in Brands, NEW w \in Candidates, StartShadow(b, w) PROVE Flows
  <2> DEFINE s == [mem["api"] EXCEPT !.shadow[b] = clamp_weights(w)]
  <2>1. /\ mem' = [mem EXCEPT !["api"] = s] /\ UNCHANGED <<file, tmp, cuts, brand>>
        /\ inputs' = inputs + 1 /\ pc["api"] = "idle" /\ pc' = [pc EXCEPT !["api"] = "proposing"]
        /\ Proposed(s)
    BY <1>2 DEF StartShadow, Changes, Proposed, history
  <2> HIDE DEF s
  <2>3. mem'["api"] = s /\ pc'["api"] = "proposing"
    BY <1>t, <2>1
  <2>4. Flow("api")
    BY <2>1, <2>3 DEF Flow, Idles, Leaves, Halfway
  <2>5. Still("job")
    BY <1>d, <2>1, OnlyOf
  <2> QED
    BY <2>1, <2>4, <2>5, ApiFlow, QuietFlow DEF Flows
<1>3. ASSUME NEW b \in Brands, ApiRecalibrate(b) PROVE Flows
  <2>1. /\ Changes("api", Promoted(mem["api"], b, "api"), "promoting") /\ pc["api"] = "idle"
        /\ brand' = [brand EXCEPT !["api"] = b] /\ UNCHANGED <<world, history>>
    BY <1>3 DEF ApiRecalibrate
  <2>2. Promotes("api")
    BY <2>1, PromoteFlow DEF Authors
  <2>3. Still("job") /\ UNCHANGED <<file, tmp>>
    BY <1>d, <2>1, OnlyOf DEF Changes
  <2> QED
    BY <2>1, <2>2, <2>3, ApiFlow, QuietFlow DEF Flows, Flow, world, history
<1>4. ASSUME NEW b \in Brands, JobRecalibrate(b) PROVE Flows
  <2> DEFINE who == IF dry THEN "dry run" ELSE "job"
  <2>1. /\ Changes("job", Promoted(mem["job"], b, who), "promoting") /\ pc["job"] = "next"
        /\ brand' = [brand EXCEPT !["job"] = b] /\ UNCHANGED <<inputs, history>>
    BY <1>4 DEF JobRecalibrate
  <2>2. Promotes("job")
    BY <2>1, PromoteFlow DEF Authors
  <2> HIDE DEF who
  <2>3. Still("api") /\ UNCHANGED <<file, tmp>>
    BY <1>d, <2>1, OnlyOf DEF Changes
  <2> QED
    BY <2>1, <2>2, <2>3, JobFlow, QuietFlow DEF Flows, Flow, history
<1>5. ASSUME NEW p \in Procs, Open(p) PROVE Flows
  <2>1. UNCHANGED <<file, mem, pc, brand, inputs, cuts>> /\ tmp' = Blank
    BY <1>5 DEF Open, world
  <2> QED
    BY <1>u, <2>1, Unread DEF Flows, FileFlow, TmpFlow
<1>6. ASSUME NEW p \in Procs, Write(p) PROVE Flows
  <2>1. UNCHANGED <<mem, pc, brand, inputs, cuts>>
    BY <1>6 DEF Write, world, history
  <2>3. pc[p] # "off"
    BY <1>6 DEF Write, IInv, Control, Busy
  <2>2. /\ (file' = file \/ file' = mem[p] \/ file' = Torn)
        /\ (tmp' = tmp \/ tmp' = mem[p] \/ tmp' = Torn)
    BY <1>6 DEF Write, Written
  <2> QED
    BY <1>u, <2>1, <2>2, <2>3, Unread DEF Flows, FileFlow, TmpFlow, Unmoved
<1>7. ASSUME NEW p \in Procs, Mark(p) PROVE Flows
  <2>1. Marks(p) /\ Replaced /\ FileFlow /\ TmpFlow
    BY <1>7, MarkFlow, ReplaceFlow DEF Mark
  <2>2. /\ mem' = [mem EXCEPT ![p] = Marked(mem[p], brand[p])] /\ brand' = brand
        /\ pc' = [pc EXCEPT ![p] = "marking"] /\ UNCHANGED <<world, history>>
    BY <1>7 DEF Mark
  <2>3. \A q \in Procs : q # p => Still(q)
    BY <2>2, OnlyOf
  <2>4. \A q \in Procs : Flow(q)
    BY <2>1, <2>3 DEF Flow
  <2> QED
    BY <2>1, <2>2, <2>4 DEF Flows, world, history
<1>8. CASE ApiReturns
  <2>1. /\ Replaces("api", "none") /\ pc["api"] \in {"recording", "proposing", "marking"}
        /\ pc' = [pc EXCEPT !["api"] = "idle"] /\ brand' = [brand EXCEPT !["api"] = None]
        /\ UNCHANGED <<mem, inputs, history>>
    BY <1>8 DEF ApiReturns
  <2>2. Leaves("api") /\ Replaced /\ FileFlow /\ TmpFlow
    BY <1>t, <2>1, ReplaceFlow DEF Leaves
  <2>3. Flow("api") /\ Still("job")
    BY <1>d, <2>1, <2>2, OnlyOf DEF Flow, Idles, Finishes, Halfway
  <2> QED
    BY <2>1, <2>2, <2>3, ApiFlow DEF Flows, history
<1>9. CASE ApiFails
  <2>1. /\ Interrupted("api") /\ CutIf(Halfway("api")) /\ pc' = [pc EXCEPT !["api"] = "idle"]
        /\ brand' = [brand EXCEPT !["api"] = None] /\ UNCHANGED <<mem, inputs>>
    BY <1>9 DEF ApiFails, world
  <2>4. pc["api"] # "off"
    BY <1>9 DEF ApiFails, IInv, Control, Busy
  <2>2. Leaves("api") /\ FileFlow /\ TmpFlow
    BY <1>t, <2>1, <2>4, InterruptFlow DEF Leaves
  <2>3. Flow("api") /\ Still("job")
    BY <1>d, <2>1, <2>2, OnlyOf DEF Flow, Idles, Cut, CutIf
  <2> QED
    BY <2>1, <2>2, <2>3, ApiFlow DEF Flows, CutIf
<1>10. CASE ApiDies
  <2>1. /\ Interrupted("api") /\ CutIf(Halfway("api")) /\ pc' = [pc EXCEPT !["api"] = "off"]
        /\ brand' = [brand EXCEPT !["api"] = None] /\ mem' = [mem EXCEPT !["api"] = Empty]
        /\ inputs' = inputs
    BY <1>10 DEF ApiDies, world
  <2>2. Leaves("api") /\ FileFlow /\ TmpFlow
    BY <1>t, <2>1, InterruptFlow DEF Leaves
  <2>3. Flow("api") /\ Still("job")
    BY <1>d, <2>1, <2>2, OnlyOf DEF Flow, Idles, Cut, CutIf
  <2> QED
    BY <2>1, <2>2, <2>3, ApiFlow DEF Flows, CutIf
<1>11. CASE ApiStarts
  <2>1. /\ pc["api"] = "off" /\ Readable(file) /\ mem' = [mem EXCEPT !["api"] = file]
        /\ CutIf(Halfway("job")) /\ pc' = [pc EXCEPT !["api"] = "idle"]
        /\ UNCHANGED <<file, tmp, brand, inputs>>
    BY <1>11 DEF ApiStarts, Opens, files, world
  <2>2. ~Halfway("api") /\ (cuts' = cuts + 1 \/ \A q \in Procs : ~Halfway(q))
    BY <2>1 DEF Halfway, CutIf
  <2>3. Leaves("api")
    BY <1>t, <2>1, <2>2 DEF Leaves
  <2>4. Flow("api") /\ Still("job")
    BY <1>d, <2>1, <2>2, <2>3, OnlyOf DEF Flow, Idles
  <2> QED
    BY <2>1, <2>4, ApiFlow, QuietFlow DEF Flows, CutIf
<1>12. CASE JobStarts
  <2>1. /\ pc["job"] = "off" /\ Readable(file) /\ mem' = [mem EXCEPT !["job"] = file]
        /\ CutIf(Halfway("api")) /\ pc' = [pc EXCEPT !["job"] = "next"]
        /\ UNCHANGED <<file, tmp, brand, inputs>>
    BY <1>12 DEF JobStarts, JobStart, Opens, files
  <2>2. ~Halfway("job") /\ (cuts' = cuts + 1 \/ \A q \in Procs : ~Halfway(q))
    BY <2>1 DEF Halfway, CutIf
  <2>3. Leaves("job")
    BY <1>t, <2>1, <2>2 DEF Leaves
  <2>4. Flow("job") /\ Still("api")
    BY <1>d, <2>1, <2>2, <2>3, OnlyOf DEF Flow, Idles
  <2> QED
    BY <2>1, <2>4, JobFlow, QuietFlow DEF Flows, CutIf
<1>13. CASE JobMarked
  <2>1. /\ Replaces("job", "none") /\ pc["job"] = "marking" /\ brand' = brand
        /\ pc' = [pc EXCEPT !["job"] = "reporting"] /\ UNCHANGED <<mem, inputs, cuts>>
    BY <1>13 DEF JobMarked, world, history
  <2>2. Leaves("job") /\ Replaced /\ FileFlow /\ TmpFlow
    BY <1>t, <2>1, ReplaceFlow DEF Leaves
  <2>3. Flow("job") /\ Still("api")
    BY <1>d, <2>1, <2>2, OnlyOf DEF Flow, Finishes
  <2> QED
    BY <2>1, <2>2, <2>3, JobFlow DEF Flows
<1>14. CASE JobReport
  <2>1. /\ pc["job"] = "reporting" /\ UNCHANGED <<file, tmp, cuts, inputs>>
        /\ \/ mem' = mem /\ brand' = brand /\ pc' = [pc EXCEPT !["job"] = "next"]
           \/ /\ mem' = [mem EXCEPT !["job"] = Empty] /\ brand' = [brand EXCEPT !["job"] = None]
              /\ pc' = [pc EXCEPT !["job"] = "off"]
    BY <1>14 DEF JobReport, JobGoesOn, JobExits, files
  <2>2. Leaves("job") /\ ~Halfway("job")
    <3>1. CASE mem' = mem /\ pc' = [pc EXCEPT !["job"] = "next"]
      BY <1>t, <2>1, <3>1 DEF Leaves, Halfway
    <3>2. CASE mem' = [mem EXCEPT !["job"] = Empty] /\ pc' = [pc EXCEPT !["job"] = "off"]
      BY <1>t, <2>1, <3>2 DEF Leaves, Halfway
    <3> QED
      BY <2>1, <3>1, <3>2
  <2>3. Flow("job") /\ Still("api")
    BY <1>d, <2>1, <2>2, OnlyOf DEF Flow, Idles
  <2> QED
    BY <2>1, <2>3, JobFlow, QuietFlow DEF Flows
<1>15. CASE JobDies
  <2>1. /\ Interrupted("job") /\ CutIf(Halfway("job")) /\ pc' = [pc EXCEPT !["job"] = "off"]
        /\ brand' = [brand EXCEPT !["job"] = None] /\ mem' = [mem EXCEPT !["job"] = Empty]
        /\ inputs' = inputs
    BY <1>15 DEF JobDies, JobExits
  <2>2. Leaves("job") /\ FileFlow /\ TmpFlow
    BY <1>t, <2>1, InterruptFlow DEF Leaves
  <2>3. Flow("job") /\ Still("api")
    BY <1>d, <2>1, <2>2, OnlyOf DEF Flow, Idles, Cut, CutIf
  <2> QED
    BY <2>1, <2>2, <2>3, JobFlow DEF Flows, CutIf
<1>16. CASE UNCHANGED vars
  BY <1>u, <1>16, QuietFlow DEF vars, files, world, history, Flows
<1> QED
  BY <1>1, <1>2, <1>3, <1>4, <1>5, <1>6, <1>7, <1>8, <1>9, <1>10, <1>11, <1>12, <1>13, <1>14,
     <1>15, <1>16 DEF Next, SaveStep

LEMMA HonestNow == ASSUME IInv, NEW s \in Content, Honest(s, inputs),
                          inputs' = inputs \/ inputs' = inputs + 1
                   PROVE  Honest(s, inputs')
<1>1. inputs \in Nat
  BY DEF IInv, Rest
<1> QED
  BY <1>1, HonestLater

LEMMA CopiesAreContent == ASSUME IInv, NEW s \in Copies PROVE s \in Content
  BY DEF IInv, Storage, Good

LEMMA AppendedIs ==
  ASSUME NEW s, Appended(s)
  PROVE  \E o \in Outcome : /\ o.id = inputs + 1 /\ inputs' = inputs + 1
                            /\ s = [mem["api"] EXCEPT !.outcomes = Append(@, o)]
<1>1. PICK b \in Brands, k \in Kinds : LET o == [id |-> inputs + 1, brand |-> b, kind |-> k]
          IN  inputs + 1 \in Ids /\ inputs' = inputs + 1
              /\ s = [mem["api"] EXCEPT !.outcomes = Append(@, o)]
  BY DEF Appended
<1> DEFINE o == [id |-> inputs + 1, brand |-> b, kind |-> k]
<1>2. o \in Outcome /\ o.id = inputs + 1
  BY <1>1 DEF Outcome
<1> QED
  BY <1>1, <1>2

LEMMA MadeHonest ==
  ASSUME IInv, Truthful, NEW s, Made(s), inputs' = inputs \/ inputs' = inputs + 1
  PROVE  Honest(s, inputs')
<1>n. inputs \in Nat /\ inputs' \in Nat
  BY DEF IInv, Rest
<1>m. ASSUME NEW p \in Procs
      PROVE  mem[p] \in Content /\ Honest(mem[p], inputs) /\ Honest(mem[p], inputs')
  <2>1. mem[p] \in Content /\ mem[p] \in Copies
    BY InCopies DEF IInv, Storage
  <2> QED
    BY <2>1, HonestNow DEF Truthful
<1>1. CASE s = Empty
  BY <1>n, <1>1, EmptyHonest
<1>2. CASE Appended(s)
  <2>1. PICK o \in Outcome : /\ o.id = inputs + 1 /\ inputs' = inputs + 1
                             /\ s = [mem["api"] EXCEPT !.outcomes = Append(@, o)]
    BY <1>2, AppendedIs
  <2>2. Honest(s, inputs + 1)
    BY <1>n, <1>m, <2>1, ProcsAre, AppendedHonest
  <2> QED
    BY <2>1, <2>2
<1>3. CASE Proposed(s)
  <2>1. PICK b \in Brands, w \in Candidates : s = [mem["api"] EXCEPT !.shadow[b] = clamp_weights(w)]
    BY <1>3 DEF Proposed
  <2>2. mem["api"] \in Content /\ Honest(mem["api"], inputs')
    BY <1>m, ProcsAre
  <2>3. Honest([mem["api"] EXCEPT !.shadow[b] = clamp_weights(w)], inputs')
    BY <1>n, <2>2, ShadowHonest
  <2> QED
    BY <2>1, <2>3
<1>4. ASSUME NEW p \in Procs, PromotedBy(p, s) PROVE Honest(s, inputs')
  BY <1>n, <1>m, <1>4, PromotedHonest DEF PromotedBy, Authors
<1>5. ASSUME NEW p \in Procs, MarkedBy(p, s) PROVE Honest(s, inputs')
  <2>1. brand[p] \in Brands /\ s = Marked(mem[p], brand[p]) /\ AllUsed(mem[p], brand[p])
    BY <1>5 DEF MarkedBy, Truthful
  <2> QED
    BY <1>n, <1>m, <2>1, MarkedHonest
<1> QED
  BY <1>1, <1>2, <1>3, <1>4, <1>5 DEF Made

LEMMA TruthfulStep == ASSUME IInv, Truthful, [Next]_vars PROVE Truthful'
<1>1. Flows
  BY FlowStep
<1>2. ASSUME NEW s \in Copies' PROVE Honest(s, inputs')
  <2>1. CASE s \in Copies
    BY <1>1, <2>1, HonestNow, CopiesAreContent DEF Truthful, Flows
  <2>2. CASE Made(s)
    BY <1>1, <2>2, MadeHonest DEF Flows
  <2> QED
    BY <2>1, <2>2, CopiesStep
<1>3. ASSUME NEW p \in Procs, pc'[p] = "promoting" PROVE AllUsed(mem'[p], brand'[p])
  <2>1. Still(p) \/ Promotes(p)
    BY <1>1, <1>3 DEF Flows, Flow, Idles, Cut, Marks, Finishes, Leaves
  <2>2. CASE Still(p)
    BY <1>3, <2>2 DEF Still, Truthful
  <2>3. CASE Promotes(p)
    <3>1. mem[p] \in Content /\ mem[p] \in Copies /\ inputs \in Nat
      BY InCopies DEF IInv, Storage, Rest
    <3>2. Honest(mem[p], inputs)
      BY <3>1 DEF Truthful
    <3>3. brand'[p] \in Brands /\ \E who \in Authors : mem'[p] = Promoted(mem[p], brand'[p], who)
      BY <2>3 DEF Promotes
    <3> QED
      BY <3>1, <3>2, <3>3, PromotedHonest
  <2> QED
    BY <2>1, <2>2, <2>3
<1> QED
  BY <1>2, <1>3 DEF Truthful

LEMMA AlwaysTruthful == Spec => []Truthful
<1>1. ASSUME Init PROVE Truthful
  <2>1. \A s \in Copies : s = Empty
    BY <1>1 DEF Init, Copies, Readable
  <2>2. inputs \in Nat /\ \A p \in Procs : pc[p] # "promoting"
    BY <1>1 DEF Init
  <2> QED
    BY <2>1, <2>2, EmptyHonest DEF Truthful
<1>2. IInv /\ Truthful /\ [Next]_vars => Truthful'
  BY TruthfulStep
<1> QED
  BY <1>1, <1>2, AlwaysIInv, PTL DEF Spec

\* Whatever fails or dies in between, whoever overwrites whom: no cursor ever counts
\* an outcome that has not moved the weights beside it (recalibrate).
THEOREM NothingIsSkippedHolds == Spec => []NothingIsSkipped
<1>1. Truthful => NothingIsSkipped
  BY DEF Truthful, Honest, Behind, Rank, Used, NothingIsSkipped
<1> QED
  BY <1>1, AlwaysTruthful, PTL
----------------------------------------------------------------------------
(* How often an outcome counts.  Between its two saves a recalibration has   *)
(* used what its cursor does not count, in the copy it works on, in what it   *)
(* writes and then in the file; a cut leaves that behind for good.            *)

Promoting(p, b) == pc[p] = "promoting" /\ brand[p] = b
Recalibrating(p, b) == Halfway(p) /\ brand[p] = b
Level(more) == IF more THEN cuts + 1 ELSE cuts
Spent(s, b, more) == Counted(s, b, Level(more), 1 + cuts)

MemSpent == \A b \in Brands, p \in Procs : Spent(mem[p], b, Promoting(p, b))
TmpSpent == Readable(tmp) => \A b \in Brands : Spent(tmp, b, \E p \in Procs : Promoting(p, b))
FileSpent == Readable(file) => \A b \in Brands : Spent(file, b, \E p \in Procs : Recalibrating(p, b))
Evidence == MemSpent /\ TmpSpent /\ FileSpent

LEMMA CountedFurther ==
  ASSUME NEW s \in Content, NEW b \in Brands, NEW k \in Nat, NEW m \in Nat, NEW kk \in Nat,
         NEW mm \in Nat, k <= kk, m <= mm, Counted(s, b, k, m)
  PROVE  Counted(s, b, kk, mm)
<1>1. \A i \in DOMAIN s.outcomes : Used(s, b, i) \in Nat
  BY UsedIsNat
<1>2. unrecalibrated(s, b) \subseteq OfBrand(s, b) /\ OfBrand(s, b) \subseteq DOMAIN s.outcomes
  BY DEF unrecalibrated, OfBrand
<1>3. \A u \in Nat : (u <= m => u <= mm) /\ (u <= k => u <= kk)
  OBVIOUS
<1> QED
  BY <1>1, <1>2, <1>3 DEF Counted

\* A document stays within its bound as long as a recalibration that was under way
\* goes on or is counted as cut.
LEMMA SpentStays ==
  ASSUME IInv, NEW s \in Content, NEW b \in Brands, NEW now, NEW later,
         now \in BOOLEAN, later \in BOOLEAN,
         cuts' = cuts \/ cuts' = cuts + 1, now => later \/ cuts' = cuts + 1,
         Spent(s, b, now)
  PROVE  Counted(s, b, IF later THEN cuts' + 1 ELSE cuts', 1 + cuts')
<1> DEFINE k == IF now THEN cuts + 1 ELSE cuts
           kk == IF later THEN cuts' + 1 ELSE cuts'
<1>1. cuts \in Nat
  BY DEF IInv, Rest
<1>2. k \in Nat /\ kk \in Nat /\ k <= kk /\ 1 + cuts \in Nat /\ 1 + cuts' \in Nat /\ 1 + cuts <= 1 + cuts'
  BY <1>1
<1>3. Counted(s, b, k, 1 + cuts)
  BY DEF Spent, Level
<1> HIDE DEF k, kk
<1>4. Counted(s, b, kk, 1 + cuts')
  BY <1>2, <1>3, CountedFurther
<1> QED
  BY <1>4 DEF kk

LEMMA MemSpentStep == ASSUME IInv, Truthful, Evidence, Flows PROVE MemSpent'
<1> SUFFICES ASSUME NEW b \in Brands, NEW p \in Procs
             PROVE  Counted(mem'[p], b, IF Promoting(p, b)' THEN cuts' + 1 ELSE cuts', 1 + cuts')
  BY DEF MemSpent, Spent, Level
<1>c. cuts \in Nat /\ (cuts' = cuts \/ cuts' = cuts + 1) /\ inputs \in Nat
  BY DEF IInv, Rest, Flows
<1>n. /\ cuts + 1 \in Nat /\ 1 + cuts \in Nat /\ cuts' \in Nat /\ cuts' + 1 \in Nat /\ 1 + cuts' \in Nat
      /\ cuts <= cuts' /\ cuts + 1 <= cuts' + 1 /\ 1 + cuts <= 1 + cuts' /\ cuts < 1 + cuts
      /\ Level(Promoting(p, b)) \in Nat
  BY <1>c DEF Level
<1>m. /\ mem[p] \in Content /\ Honest(mem[p], inputs)
      /\ \A c \in Brands : Spent(mem[p], c, Promoting(p, c))
  BY InCopies DEF IInv, Storage, Truthful, Evidence, MemSpent
<1>b. Promoting(p, b) \in BOOLEAN /\ Promoting(p, b)' \in BOOLEAN
  BY DEF Promoting
<1>f. Flow(p)
  BY DEF Flows
\* Whatever brand p recalibrates, unless it does so now, its copy is within cuts.
<1>i. ASSUME Promoting(p, b) => Promoting(p, b)' \/ cuts' = cuts + 1, mem'[p] = mem[p]
      PROVE  Counted(mem'[p], b, IF Promoting(p, b)' THEN cuts' + 1 ELSE cuts', 1 + cuts')
  BY <1>c, <1>m, <1>b, <1>i, SpentStays
<1>1. CASE Still(p)
  <2>1. mem'[p] = mem[p] /\ (Promoting(p, b) => Promoting(p, b)')
    BY <1>1 DEF Still, Promoting
  <2> QED
    BY <1>i, <2>1
<1>2. CASE Promotes(p)
  <2>1. PICK who \in Authors : mem'[p] = Promoted(mem[p], brand'[p], who)
    BY <1>2 DEF Promotes
  <2>2. /\ brand'[p] \in Brands /\ Promoting(p, b)' = (brand'[p] = b)
        /\ \A c \in Brands : Counted(mem[p], c, cuts, 1 + cuts)
    BY <1>2, <1>m DEF Promotes, Promoting, Spent, Level
  <2>3. /\ Counted(mem'[p], brand'[p], cuts + 1, 1 + cuts)
        /\ b # brand'[p] => Counted(mem'[p], b, cuts, 1 + cuts)
    BY <1>c, <1>m, <2>1, <2>2, PromotedHonest
  <2>4. mem'[p] \in Content
    BY <1>m, <2>1, <2>2, InCopies, GoodPromoted DEF IInv, Storage, Good, Authors
  <2>5. CASE b = brand'[p]
    <3>1. Counted(mem'[p], b, cuts' + 1, 1 + cuts')
      BY <1>n, <2>3, <2>4, <2>5, CountedFurther
    <3> QED
      BY <2>2, <2>5, <3>1
  <2>6. CASE b # brand'[p]
    <3>1. Counted(mem'[p], b, cuts', 1 + cuts')
      BY <1>c, <1>n, <2>3, <2>4, <2>6, CountedFurther
    <3> QED
      BY <2>2, <2>6, <3>1
  <2> QED
    BY <2>5, <2>6
<1>3. CASE Marks(p)
  <2>1. /\ brand[p] \in Brands /\ mem'[p] = Marked(mem[p], brand[p]) /\ AllUsed(mem[p], brand[p])
        /\ ~Promoting(p, b)' /\ (b # brand[p] => ~Promoting(p, b))
    BY <1>3 DEF Marks, MarkedBy, Truthful, Promoting
  <2>2. Counted(mem'[p], b, cuts, 1 + cuts)
    BY <1>c, <1>m, <2>1, MarkedHonest DEF Spent, Level
  <2>3. mem'[p] \in Content
    BY <1>m, <2>1, InCopies, GoodMarked DEF IInv, Storage, Good
  <2>4. Counted(mem'[p], b, cuts', 1 + cuts')
    BY <1>c, <2>2, <2>3, CountedFurther
  <2> QED
    BY <2>1, <2>4
<1>4. CASE Leaves(p) /\ (pc[p] # "promoting" \/ cuts' = cuts + 1)
  <2>1. ~Promoting(p, b)'
    BY <1>4 DEF Leaves, Promoting
  <2>2. pc[p] # "promoting" => ~Promoting(p, b)
    BY DEF Promoting
  <2>3. CASE mem'[p] = mem[p]
    BY <1>4, <1>i, <2>2, <2>3
  <2>4. CASE mem'[p] = Empty
    BY <1>c, <2>4, EmptyHonest
  <2>5. CASE Readable(file) /\ mem'[p] = file /\ (cuts' = cuts + 1 \/ \A q \in Procs : ~Halfway(q))
    <3> DEFINE now == \E q \in Procs : Recalibrating(q, b)
    <3>1. now \in BOOLEAN /\ (now => Promoting(p, b)' \/ cuts' = cuts + 1)
      BY <2>5 DEF Recalibrating
    <3>2. file \in Content /\ Spent(file, b, now)
      BY <2>5, InCopies DEF IInv, Storage, Good, Evidence, FileSpent
    <3> HIDE DEF now
    <3> QED
      BY <1>c, <1>b, <2>5, <3>1, <3>2, SpentStays
  <2>6. CASE p = "api" /\ Appended(mem'[p])
    <3>1. PICK o \in Outcome : /\ o.id = inputs + 1
                               /\ mem'[p] = [mem[p] EXCEPT !.outcomes = Append(@, o)]
      BY <2>6, AppendedIs
    <3> DEFINE s == [mem[p] EXCEPT !.outcomes = Append(@, o)]
    <3>4. \A j \in Brands : \A k, m \in Nat : Counted(mem[p], j, k, m) => Counted(s, j, k, m)
      BY <1>c, <1>m, <3>1, AppendedHonest
    <3> HIDE DEF s
    <3>2. mem'[p] \in Content
      BY <2>6, GoodMade DEF Made, Good
    <3>3. Counted(mem'[p], b, Level(Promoting(p, b)), 1 + cuts)
      BY <1>n, <1>m, <3>1, <3>4 DEF Spent, s
    <3> QED
      BY <1>4, <1>c, <1>b, <2>2, <3>2, <3>3, SpentStays DEF Spent
  <2>7. CASE p = "api" /\ Proposed(mem'[p])
    <3>1. PICK c \in Brands, w \in Candidates :
              mem'[p] = [mem[p] EXCEPT !.shadow[c] = clamp_weights(w)]
      BY <2>7 DEF Proposed
    <3>2. mem'[p] \in Content
      BY <2>7, GoodMade DEF Made, Good
    <3> DEFINE s == [mem[p] EXCEPT !.shadow[c] = clamp_weights(w)]
    <3>4. \A j, k, m : Counted(mem[p], j, k, m) => Counted(s, j, k, m)
      BY <1>c, <1>m, ShadowHonest
    <3> HIDE DEF s
    <3>3. Counted(mem'[p], b, Level(Promoting(p, b)), 1 + cuts)
      BY <1>m, <3>1, <3>4 DEF Spent, s
    <3> QED
      BY <1>4, <1>c, <1>b, <2>2, <3>2, <3>3, SpentStays DEF Spent
  <2> QED
    BY <1>4, <2>3, <2>4, <2>5, <2>6, <2>7 DEF Leaves
<1> QED
  BY <1>1, <1>2, <1>3, <1>4, <1>f DEF Flow, Idles, Cut, Finishes, Halfway

\* Whatever p is doing, its recalibration goes on, is cut, or ends with a rename.
LEMMA GoesOn ==
  ASSUME Flows, NEW p \in Procs, NEW b \in Brands
  PROVE  /\ Promoting(p, b) => \/ Promoting(p, b)' \/ cuts' = cuts + 1
                               \/ Recalibrating(p, b)' /\ Replaced
         /\ Recalibrating(p, b) => Recalibrating(p, b)' \/ cuts' = cuts + 1 \/ Replaced
<1> USE DEF Promoting, Recalibrating, Halfway
<1>1. CASE Still(p)
  BY <1>1 DEF Still
<1>2. CASE Promotes(p)
  BY <1>2 DEF Promotes
<1>3. CASE Idles(p) \/ Cut(p)
  BY <1>3 DEF Idles, Cut
<1>4. CASE Marks(p) /\ Replaced
  BY <1>4 DEF Marks
<1>5. CASE Finishes(p)
  BY <1>5 DEF Finishes
<1> QED
  BY <1>1, <1>2, <1>3, <1>4, <1>5 DEF Flows, Flow

LEMMA FileSpentStep == ASSUME IInv, Evidence, Flows PROVE FileSpent'
<1> SUFFICES ASSUME Readable(file'), NEW b \in Brands
             PROVE  Counted(file', b, IF \E p \in Procs : Recalibrating(p, b)' THEN cuts' + 1 ELSE cuts',
                            1 + cuts')
  BY DEF FileSpent, Spent, Level, Readable
<1> DEFINE prom == \E p \in Procs : Promoting(p, b)
           reca == \E p \in Procs : Recalibrating(p, b)
           later == \E p \in Procs : Recalibrating(p, b)'
<1>c. (cuts' = cuts \/ cuts' = cuts + 1) /\ prom \in BOOLEAN /\ reca \in BOOLEAN /\ later \in BOOLEAN
  BY DEF Flows
<1>p. \A p \in Procs : Promoting(p, b)' => Recalibrating(p, b)'
  BY DEF Promoting, Recalibrating, Halfway
<1>l. prom => later \/ cuts' = cuts + 1
  BY <1>p, GoesOn
<1>1. CASE Replaced
  <2>1. tmp \in Content /\ Spent(tmp, b, prom) /\ file' = tmp
    BY <1>1, InCopies DEF Replaced, IInv, Storage, Good, Evidence, TmpSpent
  <2> HIDE DEF prom, later
  <2>2. Counted(tmp, b, IF later THEN cuts' + 1 ELSE cuts', 1 + cuts')
    BY <1>c, <1>l, <2>1, SpentStays
  <2> QED
    BY <2>1, <2>2 DEF later
<1>2. CASE ~Replaced /\ file' = file
  <2>1. file \in Content /\ Spent(file, b, reca)
    BY <1>2, InCopies DEF IInv, Storage, Good, Evidence, FileSpent
  <2>2. reca => later \/ cuts' = cuts + 1
    BY <1>2, GoesOn
  <2> HIDE DEF reca, later
  <2>3. Counted(file, b, IF later THEN cuts' + 1 ELSE cuts', 1 + cuts')
    BY <1>c, <2>1, <2>2, SpentStays
  <2> QED
    BY <1>2, <2>3 DEF later
<1>3. ASSUME Unmoved, NEW q \in Procs, file' = mem[q] PROVE Counted(file', b, IF later THEN cuts' + 1 ELSE cuts', 1 + cuts')
  <2>1. mem[q] \in Content /\ Spent(mem[q], b, Promoting(q, b)) /\ Promoting(q, b) \in BOOLEAN
    BY DEF IInv, Storage, Evidence, MemSpent, Promoting
  <2>2. Promoting(q, b) => later \/ cuts' = cuts + 1
    BY <1>l
  <2> HIDE DEF later
  <2> QED
    BY <1>c, <1>3, <2>1, <2>2, SpentStays
<1> QED
  BY <1>1, <1>2, <1>3 DEF Flows, FileFlow

LEMMA TmpSpentStep == ASSUME IInv, Evidence, Flows PROVE TmpSpent'
<1> SUFFICES ASSUME Readable(tmp'), NEW b \in Brands
             PROVE  Counted(tmp', b, IF \E p \in Procs : Promoting(p, b)' THEN cuts' + 1 ELSE cuts',
                            1 + cuts')
  BY DEF TmpSpent, Spent, Level, Readable
<1> DEFINE prom == \E p \in Procs : Promoting(p, b)
           later == \E p \in Procs : Promoting(p, b)'
<1>c. (cuts' = cuts \/ cuts' = cuts + 1) /\ prom \in BOOLEAN /\ later \in BOOLEAN
  BY DEF Flows
<1>r. ~Replaced
  BY DEF Replaced, Readable
<1>l. prom => later \/ cuts' = cuts + 1
  BY <1>r, GoesOn
<1>1. CASE tmp' = tmp
  <2>1. tmp \in Content /\ Spent(tmp, b, prom)
    BY <1>1, InCopies DEF IInv, Storage, Good, Evidence, TmpSpent
  <2> HIDE DEF prom, later
  <2>2. Counted(tmp, b, IF later THEN cuts' + 1 ELSE cuts', 1 + cuts')
    BY <1>c, <1>l, <2>1, SpentStays
  <2> QED
    BY <1>1, <2>2 DEF later
<1>2. ASSUME Unmoved, NEW q \in Procs, tmp' = mem[q] PROVE Counted(tmp', b, IF later THEN cuts' + 1 ELSE cuts', 1 + cuts')
  <2>1. mem[q] \in Content /\ Spent(mem[q], b, Promoting(q, b)) /\ Promoting(q, b) \in BOOLEAN
    BY DEF IInv, Storage, Evidence, MemSpent, Promoting
  <2>2. Promoting(q, b) => later \/ cuts' = cuts + 1
    BY <1>l
  <2> HIDE DEF later
  <2> QED
    BY <1>c, <1>2, <2>1, <2>2, SpentStays
<1> QED
  BY <1>1, <1>2 DEF Flows, TmpFlow

LEMMA AlwaysEvidence == Spec => []Evidence
<1>1. ASSUME Init PROVE Evidence
  <2>1. file = Empty /\ ~Readable(tmp) /\ \A p \in Procs : mem[p] = Empty
    BY <1>1 DEF Init, Readable
  <2>2. \A b \in Brands : \A k, m : Counted(Empty, b, k, m)
    BY EmptyHonest
  <2> QED
    BY <2>1, <2>2 DEF Evidence, MemSpent, TmpSpent, FileSpent, Spent
<1>2. ASSUME IInv, Truthful, Evidence, [Next]_vars PROVE Evidence'
  BY <1>2, FlowStep, MemSpentStep, TmpSpentStep, FileSpentStep DEF Evidence
<1> QED
  BY <1>1, <1>2, AlwaysIInv, AlwaysTruthful, PTL DEF Spec

\* However runs of the job, requests, crashes and failed saves follow each other,
\* an outcome moves the weights of its own brand only, and once; each recalibration
\* cut between its two saves adds one more time (unrecalibrated, mark_recalibrated).
THEOREM EvidenceCountsOnceHolds == Spec => []EvidenceCountsOnce
<1>1. ASSUME IInv, Truthful, Evidence PROVE EvidenceCountsOnce
  <2> SUFFICES ASSUME NEW s \in Copies, NEW b \in Brands, NEW i \in DOMAIN s.outcomes
               PROVE  Used(s, b, i) <= IF s.outcomes[i].brand = b THEN 1 + cuts ELSE 0
    BY DEF EvidenceCountsOnce, Used
  <2>1. CASE s.outcomes[i].brand # b
    <3>1. Used(s, b, i) = 0
      BY <1>1, <2>1 DEF Truthful, Honest, OwnOnly
    <3> QED
      BY <2>1, <3>1
  <2>2. CASE s.outcomes[i].brand = b
    <3>1. i \in OfBrand(s, b)
      BY <2>2 DEF OfBrand
    <3>2. s = file \/ s = tmp \/ \E p \in Procs : s = mem[p]
      BY DEF Copies
    <3>3. Readable(s)
      BY DEF Copies
    <3>4. \E more : Spent(s, b, more)
      BY <1>1, <3>2, <3>3 DEF Evidence, MemSpent, TmpSpent, FileSpent
    <3>5. Used(s, b, i) <= 1 + cuts
      BY <3>1, <3>4 DEF Spent, Counted
    <3> QED
      BY <2>2, <3>5
  <2> QED
    BY <2>1, <2>2
<1> QED
  BY <1>1, AlwaysIInv, AlwaysTruthful, AlwaysEvidence, PTL
----------------------------------------------------------------------------
(* What is kept.  An outcome recorded while no job runs is in the copy of    *)
(* every process from then on, and in every document anybody writes.         *)

Holds(s) == acked \ exposed \subseteq IdsOf(s)
Kept == /\ \A content \in {file, tmp} : Readable(content) => Holds(content)
        /\ \A p \in Procs : pc[p] # "off" => Holds(mem[p])

\* An outcome that no job can miss is alone with its file while it is saved.
Alone == pc["api"] = "recording" /\ inputs \notin exposed =>
    /\ pc["job"] = "off" /\ save["api"] \in {"start", "tmp", "closed"}
    /\ inputs \in IdsOf(mem["api"])
    /\ save["api"] = "tmp" => tmp = Blank
    /\ save["api"] = "closed" => tmp = mem["api"]

LEMMA OutcomesStay ==
  /\ \A s \in Content : \A b \in Brands, who \in Authors : IdsOf(Promoted(s, b, who)) = IdsOf(s)
  /\ \A s \in Content : \A b \in Brands : IdsOf(Marked(s, b)) = IdsOf(s)
  /\ \A s \in Content : \A b \in Brands, w \in Candidates :
        IdsOf([s EXCEPT !.shadow[b] = clamp_weights(w)]) = IdsOf(s)
<1>1. ASSUME NEW s \in Content, NEW b \in Brands, NEW who \in Authors
      PROVE  Promoted(s, b, who).outcomes = s.outcomes
  <2>1. PICK new \in WeightSet : Promoted(s, b, who) = WithWeights(s, b, new)
    BY PromotedIs DEF Authors
  <2> QED
    BY <2>1 DEF WithWeights, Content
<1>2. ASSUME NEW s \in Content, NEW b \in Brands PROVE Marked(s, b).outcomes = s.outcomes
  BY DEF Marked, Content
<1>3. ASSUME NEW s \in Content, NEW b \in Brands, NEW w \in Candidates
      PROVE  [s EXCEPT !.shadow[b] = clamp_weights(w)].outcomes = s.outcomes
  BY DEF Content
<1> QED
  BY <1>1, <1>2, <1>3 DEF IdsOf

LEMMA AppendedIds ==
  ASSUME NEW s \in Content, NEW o \in Outcome
  PROVE  LET t == [s EXCEPT !.outcomes = Append(@, o)]
         IN  IdsOf(s) \subseteq IdsOf(t) /\ o.id \in IdsOf(t)
<1> DEFINE t == [s EXCEPT !.outcomes = Append(@, o)]
<1>1. t.outcomes = Append(s.outcomes, o) /\ s.outcomes \in Seq(Outcome)
  BY DEF Content
<1>2. /\ Len(s.outcomes) \in Nat /\ DOMAIN s.outcomes = 1..Len(s.outcomes)
      /\ DOMAIN t.outcomes = 1..(Len(s.outcomes) + 1)
      /\ \A i \in 1..Len(s.outcomes) : t.outcomes[i] = s.outcomes[i]
      /\ t.outcomes[Len(s.outcomes) + 1] = o
  BY <1>1
<1> HIDE DEF t
<1>3. o.id \in IdsOf(t) /\ IdsOf(s) \subseteq IdsOf(t)
  BY <1>2 DEF IdsOf
<1> QED
  BY <1>3 DEF t

\* Nothing is lost in a step that acknowledges nothing new.
LEMMA CalmStep ==
  ASSUME IInv, Kept, Flows, acked' \ exposed' \subseteq acked \ exposed PROVE Kept'
<1> DEFINE old == acked \ exposed
<1>m. ASSUME NEW p \in Procs, pc[p] # "off" PROVE mem[p] \in Content /\ old \subseteq IdsOf(mem[p])
  BY <1>m DEF IInv, Storage, Kept, Holds
<1>1. ASSUME NEW p \in Procs, pc'[p] # "off" PROVE old \subseteq IdsOf(mem'[p])
  <2>1. Flow(p)
    BY DEF Flows
  <2>2. CASE Still(p)
    BY <1>m, <1>1, <2>2 DEF Still
  <2>3. CASE Promotes(p)
    <3>1. PICK who \in Authors : mem'[p] = Promoted(mem[p], brand'[p], who)
      BY <2>3 DEF Promotes
    <3>2. pc[p] # "off" /\ brand'[p] \in Brands
      BY <2>3 DEF Promotes
    <3> QED
      BY <1>m, <3>1, <3>2, OutcomesStay
  <2>4. CASE Marks(p)
    <3>1. pc[p] # "off" /\ brand[p] \in Brands /\ mem'[p] = Marked(mem[p], brand[p])
      BY <2>4 DEF Marks, MarkedBy
    <3> QED
      BY <1>m, <3>1, OutcomesStay
  <2>5. CASE Leaves(p)
    <3>1. CASE mem'[p] = mem[p] /\ pc[p] # "off"
      BY <1>m, <3>1
    <3>2. CASE Readable(file) /\ mem'[p] = file
      BY <3>2 DEF Kept, Holds
    <3>3. CASE p = "api" /\ Appended(mem'[p]) /\ pc[p] # "off"
      <4>1. PICK o \in Outcome : mem'[p] = [mem[p] EXCEPT !.outcomes = Append(@, o)]
        BY <3>3, AppendedIs
      <4> QED
        BY <1>m, <3>3, <4>1, AppendedIds
    <3>4. CASE p = "api" /\ Proposed(mem'[p]) /\ pc[p] # "off"
      <4>1. PICK b \in Brands, w \in Candidates :
                mem'[p] = [mem[p] EXCEPT !.shadow[b] = clamp_weights(w)]
        BY <3>4 DEF Proposed
      <4> QED
        BY <1>m, <3>4, <4>1, OutcomesStay
    <3> QED
      BY <1>1, <2>5, <3>1, <3>2, <3>3, <3>4 DEF Leaves
  <2> QED
    BY <2>1, <2>2, <2>3, <2>4, <2>5 DEF Flow, Idles, Cut, Finishes
<1>2. Readable(file') => old \subseteq IdsOf(file')
  <2>1. Readable(tmp) => old \subseteq IdsOf(tmp)
    BY DEF Kept, Holds
  <2>2. Readable(file) => old \subseteq IdsOf(file)
    BY DEF Kept, Holds
  <2> QED
    BY <1>m, <2>1, <2>2 DEF Flows, FileFlow, Replaced
<1>3. Readable(tmp') => old \subseteq IdsOf(tmp')
  <2>1. Readable(tmp) => old \subseteq IdsOf(tmp)
    BY DEF Kept, Holds
  <2> QED
    BY <1>m, <2>1 DEF Flows, TmpFlow
<1> HIDE DEF old
<1>4. acked' \ exposed' \subseteq old
  BY DEF old
<1> QED
  BY <1>1, <1>2, <1>3, <1>4 DEF Kept, Holds, Readable, IdsOf

LEMMA HistoryStep ==
  ASSUME IInv, [Next]_vars
  PROVE  \/ acked' = acked /\ exposed \subseteq exposed'
         \/ ApiReturns /\ pc["api"] = "recording"
<1>1. ASSUME NEW b \in Brands, NEW k \in Kinds, Record(b, k) PROVE acked' = acked /\ exposed \subseteq exposed'
  BY <1>1 DEF Record
<1>2. ASSUME NEW b \in Brands, NEW w \in Candidates, StartShadow(b, w)
      PROVE  acked' = acked /\ exposed \subseteq exposed'
  BY <1>2 DEF StartShadow, history
<1>3. ASSUME NEW b \in Brands, ApiRecalibrate(b) \/ JobRecalibrate(b)
      PROVE  acked' = acked /\ exposed \subseteq exposed'
  BY <1>3 DEF ApiRecalibrate, JobRecalibrate, world, history
<1>4. ASSUME NEW p \in Procs, SaveStep(p) PROVE acked' = acked /\ exposed \subseteq exposed'
  BY <1>4 DEF SaveStep, Open, Write, Mark, world, history
<1>5. CASE ApiReturns
  BY <1>5 DEF ApiReturns, history
<1>6. CASE ApiFails \/ ApiDies \/ ApiStarts
  BY <1>6 DEF ApiFails, ApiDies, ApiStarts, world
<1>7. CASE JobStarts
  BY <1>7 DEF JobStarts, JobStart
<1>8. CASE JobMarked
  BY <1>8 DEF JobMarked, world, history
<1>9. CASE JobReport \/ JobDies
  BY <1>9 DEF JobReport, JobDies, JobGoesOn, JobExits
<1>10. CASE UNCHANGED vars
  BY <1>10 DEF vars, world, history
<1> QED
  BY <1>1, <1>2, <1>3, <1>4, <1>5, <1>6, <1>7, <1>8, <1>9, <1>10 DEF Next

LEMMA KeptStep == ASSUME IInv, Kept, Alone, [Next]_vars PROVE Kept'
<1>1. Flows
  BY FlowStep
<1>2. CASE acked' = acked /\ exposed \subseteq exposed'
  BY <1>1, <1>2, CalmStep
<1>3. CASE ApiReturns /\ pc["api"] = "recording"
  <2>1. /\ acked' = acked \cup {inputs} /\ exposed' = exposed /\ mem' = mem
        /\ pc' = [pc EXCEPT !["api"] = "idle"] /\ file' = tmp /\ tmp' = None /\ save["api"] = "closed"
    BY <1>3 DEF ApiReturns, Replaces, history
  <2>2. CASE inputs \in exposed
    <3>1. acked' \ exposed' \subseteq acked \ exposed
      BY <2>1, <2>2
    <3> QED
      BY <1>1, <3>1, CalmStep
  <2>3. CASE inputs \notin exposed
    <3>1. pc["job"] = "off" /\ inputs \in IdsOf(mem["api"]) /\ tmp = mem["api"]
      BY <1>3, <2>1, <2>3 DEF Alone
    <3>2. acked' \ exposed' \subseteq IdsOf(mem["api"])
      BY <1>3, <2>1, <3>1, ProcsAre DEF Kept, Holds
    <3>3. \A p \in Procs : pc'[p] # "off" => p = "api"
      BY <2>1, <3>1, ProcsAre DEF IInv, Control
    <3>4. file' = mem["api"] /\ ~Readable(None)
      BY <2>1, <3>1 DEF Readable
    <3> QED
      BY <2>1, <3>2, <3>3, <3>4 DEF Kept, Holds, Readable, IdsOf
  <2> QED
    BY <2>2, <2>3
<1> QED
  BY <1>2, <1>3, HistoryStep

\* Only the API records, and no step of the job is its own business.
LEMMA AloneStep == ASSUME IInv, Alone, [Next]_vars PROVE Alone'
<1> SUFFICES ASSUME pc'["api"] = "recording", inputs' \notin exposed'
             PROVE  /\ pc'["job"] = "off" /\ save'["api"] \in {"start", "tmp", "closed"}
                    /\ inputs' \in IdsOf(mem'["api"])
                    /\ save'["api"] = "tmp" => tmp' = Blank
                    /\ save'["api"] = "closed" => tmp' = mem'["api"]
  BY DEF Alone, IdsOf
<1> DEFINE Goal == /\ pc'["job"] = "off" /\ save'["api"] \in {"start", "tmp", "closed"}
                   /\ inputs' \in IdsOf(mem'["api"])
                   /\ save'["api"] = "tmp" => tmp' = Blank
                   /\ save'["api"] = "closed" => tmp' = mem'["api"]
<1> USE ProcsAre
<1>t. /\ DOMAIN pc = Procs /\ DOMAIN save = Procs /\ DOMAIN mem = Procs
      /\ mem["api"] \in Content
  BY DEF IInv, Storage, Control
<1>j. save["job"] # "none" <=> pc["job"] \in Busy
  BY DEF IInv, Control
<1>1. ASSUME NEW b \in Brands, NEW k \in Kinds, Record(b, k) PROVE Goal
  <2> DEFINE o == [id |-> inputs + 1, brand |-> b, kind |-> k]
             s == [mem["api"] EXCEPT !.outcomes = Append(@, o)]
  <2>1. /\ mem' = [mem EXCEPT !["api"] = s] /\ inputs' = inputs + 1
        /\ save' = [save EXCEPT !["api"] = "start"] /\ pc' = [pc EXCEPT !["api"] = "recording"]
        /\ exposed' = IF pc["job"] # "off" THEN exposed \cup {inputs + 1} ELSE exposed
    BY <1>1 DEF Record, Changes
  <2>2. o \in Outcome /\ o.id = inputs'
    BY <1>1, <2>1, NextInput DEF Record, IInv, Rest, Outcome
  <2>3. inputs' \in IdsOf(s)
    BY <1>t, <2>2, AppendedIds
  <2> HIDE DEF s
  <2>4. mem'["api"] = s /\ save'["api"] = "start" /\ pc'["job"] = pc["job"]
    BY <1>t, <2>1
  <2> QED
    BY <2>1, <2>3, <2>4
<1>2. ASSUME NEW b \in Brands, NEW w \in Candidates, StartShadow(b, w) PROVE Goal
  BY <1>t, <1>2 DEF StartShadow, Changes
<1>3. ASSUME NEW b \in Brands, ApiRecalibrate(b) PROVE Goal
  BY <1>t, <1>3 DEF ApiRecalibrate, Changes
\* What no step of the job can follow.
<1>a. ASSUME pc["job"] # "off", pc'["api"] = pc["api"], inputs' = inputs, exposed' = exposed
      PROVE  FALSE
  BY <1>a DEF Alone
<1>4. ASSUME NEW b \in Brands, JobRecalibrate(b) PROVE Goal
  BY <1>t, <1>4, <1>a DEF JobRecalibrate, Changes, history
<1>5. ASSUME NEW p \in Procs, Open(p) PROVE Goal
  <2>1. /\ UNCHANGED <<pc, mem, inputs, exposed>> /\ save[p] = "start" /\ tmp' = Blank
        /\ save' = [save EXCEPT ![p] = "tmp"]
    BY <1>5 DEF Open, world
  <2>2. pc["job"] = "off" /\ p = "api"
    BY <1>a, <1>j, <2>1 DEF Busy
  <2> QED
    BY <1>t, <2>1, <2>2 DEF Alone
<1>6. ASSUME NEW p \in Procs, Write(p) PROVE Goal
  <2>1. /\ UNCHANGED <<pc, mem, inputs, exposed>> /\ save[p] \in {"tmp", "file", "gone"}
        /\ save' = [save EXCEPT ![p] = "closed"]
        /\ save[p] = "tmp" => tmp' \in Written(p, tmp)
    BY <1>6 DEF Write, world, history
  <2>2. pc["job"] = "off" /\ p = "api"
    BY <1>a, <1>j, <2>1 DEF Busy
  <2>3. save["api"] = "tmp" /\ tmp = Blank /\ inputs \in IdsOf(mem["api"])
    BY <2>1, <2>2 DEF Alone
  <2>4. tmp' = mem["api"]
    BY <2>1, <2>2, <2>3 DEF Written
  <2> QED
    BY <1>t, <2>1, <2>2, <2>3, <2>4
<1>7. ASSUME NEW p \in Procs, Mark(p) PROVE Goal
  <2>1. pc[p] = "promoting" /\ pc' = [pc EXCEPT ![p] = "marking"] /\ UNCHANGED <<inputs, exposed>>
    BY <1>7 DEF Mark, world, history
  <2>2. CASE p = "api"
    BY <1>t, <2>1, <2>2
  <2>3. CASE p = "job"
    BY <1>t, <1>a, <2>1, <2>3
  <2> QED
    BY <2>2, <2>3
<1>8. CASE ApiReturns \/ ApiFails \/ ApiDies \/ ApiStarts
  BY <1>t, <1>8 DEF ApiReturns, ApiFails, ApiDies, ApiStarts
<1>9. CASE JobStarts
  <2>1. /\ pc["job"] = "off" /\ pc' = [pc EXCEPT !["job"] = "next"] /\ inputs' = inputs
        /\ exposed' = IF pc["api"] = "recording" THEN exposed \cup {inputs} ELSE exposed
    BY <1>9 DEF JobStarts, JobStart
  <2> QED
    BY <1>t, <2>1
<1>10. CASE JobMarked
  BY <1>t, <1>10, <1>a DEF JobMarked, world, history
<1>11. CASE JobReport
  BY <1>t, <1>11, <1>a DEF JobReport, JobGoesOn, JobExits
<1>12. CASE JobDies
  BY <1>t, <1>12, <1>a DEF JobDies, JobExits
<1>13. CASE UNCHANGED vars
  BY <1>13 DEF vars, files, world, history, Alone
<1> QED
  BY <1>1, <1>2, <1>3, <1>4, <1>5, <1>6, <1>7, <1>8, <1>9, <1>10, <1>11, <1>12, <1>13 DEF Next, SaveStep

LEMMA AlwaysKept == Spec => [](Kept /\ Alone)
<1>1. ASSUME Init PROVE Kept /\ Alone
  <2>1. acked \ exposed = {} /\ pc["api"] # "recording"
    BY <1>1, ProcsAre DEF Init
  <2> QED
    BY <2>1 DEF Kept, Holds, Alone
<1>2. IInv /\ (Kept /\ Alone) /\ [Next]_vars => (Kept /\ Alone)'
  BY KeptStep, AloneStep
<1> QED
  BY <1>1, <1>2, AlwaysIInv, PTL DEF Spec

\* Failed saves, crashes and restarts, copies that overwrite each other and renames
\* that publish the other's document cost no outcome that was acknowledged while no
\* run of the job was going on: the two processes share it from then on (_save).
THEOREM OnlyExposedAreLostHolds == Spec => []OnlyExposedAreLost
<1>1. Kept => OnlyExposedAreLost
  BY DEF Kept, Holds, OnlyExposedAreLost
<1> QED
  BY <1>1, AlwaysKept, PTL

\* Nobody runs the job: the API has the file to itself.
Unattended == pc["job"] = "off"

\* A server that no job joins loses no outcome it has acknowledged, however often
\* it is restarted and whichever of its saves fail: the append-only log the store
\* is said to be (learning.py:113) is one as long as it has one writer.
THEOREM OutcomesSurviveUnattended == Spec /\ []Unattended => []OutcomesSurvive
<1> DEFINE Unexposed == exposed = {}
<1>1. Init => Unexposed
  BY DEF Init
<1>2. ASSUME IInv, Unexposed, Unattended, Unattended', [Next]_vars PROVE Unexposed'
  <2> USE <1>2 DEF Unattended
  <2>1. ASSUME NEW b \in Brands, NEW k \in Kinds, Record(b, k) PROVE exposed' = {}
    BY <2>1 DEF Record
  <2>2. ASSUME NEW b \in Brands, NEW w \in Candidates, StartShadow(b, w) PROVE exposed' = {}
    BY <2>2 DEF StartShadow, history
  <2>3. ASSUME NEW b \in Brands, ApiRecalibrate(b) \/ JobRecalibrate(b) PROVE exposed' = {}
    BY <2>3 DEF ApiRecalibrate, JobRecalibrate, history
  <2>4. ASSUME NEW p \in Procs, SaveStep(p) PROVE exposed' = {}
    BY <2>4 DEF SaveStep, Open, Write, Mark, history
  <2>5. CASE ApiReturns \/ ApiFails \/ ApiDies \/ ApiStarts
    BY <2>5 DEF ApiReturns, ApiFails, ApiDies, ApiStarts, history
  <2>6. ~JobStarts
    BY ProcsAre DEF JobStarts, JobStart, IInv, Control
  <2>7. ~JobMarked /\ ~JobReport /\ ~JobDies
    BY DEF JobMarked, JobReport, JobDies
  <2>8. CASE UNCHANGED vars
    BY <2>8 DEF vars, history
  <2> QED
    BY <2>1, <2>2, <2>3, <2>4, <2>5, <2>6, <2>7, <2>8 DEF Next
<1>3. ASSUME Unexposed, OnlyExposedAreLost PROVE OutcomesSurvive
  BY <1>3 DEF OnlyExposedAreLost, OutcomesSurvive
<1> QED
  BY <1>1, <1>2, <1>3, AlwaysIInv, OnlyExposedAreLostHolds, PTL DEF Spec
----------------------------------------------------------------------------
(* Saves that do not overlap.  A process alone with its save has opened the  *)
(* temporary file, found it empty, and renames what it has written itself.   *)

Clean == /\ Readable(file)
         /\ \A p \in Procs : save[p] \notin {"file", "gone"}
         /\ \A p, q \in Procs : Saving(p) /\ Saving(q) => p = q
         /\ \A p \in Procs : save[p] = "tmp" => tmp = Blank
         /\ \A p \in Procs : save[p] = "closed" => tmp = mem[p]
CleanUnlessOverlapped == ~overlapped => Clean

LEMMA CleanStep == ASSUME IInv, CleanUnlessOverlapped, [Next]_vars PROVE CleanUnlessOverlapped'
<1> SUFFICES ASSUME ~overlapped' PROVE Clean'
  BY DEF CleanUnlessOverlapped
<1> USE ProcsAre
<1>t. /\ DOMAIN save = Procs /\ DOMAIN mem = Procs /\ \A p \in Procs : Readable(mem[p])
      /\ \A p \in Procs : save[p] \in {"none", "start", "tmp", "file", "gone", "closed"}
      /\ \A p \in Procs : save[p] # "none" <=> pc[p] \in Busy
  BY ContentIsReadable DEF IInv, Storage, Control
\* A process that saves nothing, or is about to open, may change its copy.
<1>m. ASSUME Clean, UNCHANGED <<file, tmp>>, NEW p \in Procs, NEW s,
             mem' = [mem EXCEPT ![p] = s], ~Saving(p), ~Saving(p)',
             \A q \in Procs \ {p} : save'[q] = save[q]
      PROVE  Clean'
  <2>1. \A q \in Procs : Saving(q)' => q # p /\ Saving(q) /\ mem'[q] = mem[q] /\ save'[q] = save[q]
    BY <1>m, <1>t DEF Saving
  <2>2. \A q \in Procs : save'[q] \in {"tmp", "file", "gone", "closed"} => Saving(q)'
    BY DEF Saving
  <2> QED
    BY <1>m, <2>1, <2>2 DEF Clean, Readable
\* A save ends or is cut, and the file is a document.
<1>e. ASSUME Clean, NEW p \in Procs, Saving(p), Readable(file'), save'[p] \in {"none", "start"},
             \A q \in Procs \ {p} : save'[q] \in {save[q], Moved(save[q])}
      PROVE  Clean'
  <2>1. \A q \in Procs \ {p} : save[q] \in {"none", "start"}
    BY <1>e, <1>t DEF Clean, Saving
  <2>2. \A q \in Procs : save'[q] \in {"none", "start"}
    BY <1>e, <2>1 DEF Moved
  <2> QED
    BY <1>e, <2>2 DEF Clean, Saving, Readable
<1>0. overlapped' = overlapped \/ \E p \in Procs : Open(p)
  BY DEF Next, SaveStep, Record, StartShadow, ApiRecalibrate, Write, Mark, ApiReturns, ApiFails, ApiDies,
         ApiStarts, JobStarts, JobStart, JobRecalibrate, JobMarked, JobReport, JobGoesOn, JobExits,
         JobDies, history, vars
<1>c. Clean
  BY <1>0 DEF CleanUnlessOverlapped, Open
<1>i. ASSUME NEW p \in Procs, Interrupted(p), (mem' = mem \/ \E s : mem' = [mem EXCEPT ![p] = s])
      PROVE  Clean'
  <2>1. save' = [save EXCEPT ![p] = "none"] /\ file' = file
    BY <1>i, <1>c DEF Interrupted, Clean
  <2>2. save'[p] = "none" /\ \A q \in Procs \ {p} : save'[q] = save[q]
    BY <1>t, <2>1
  <2>3. CASE Saving(p)
    BY <1>c, <1>e, <2>1, <2>2, <2>3 DEF Clean, Readable
  <2>4. CASE ~Saving(p)
    <3>1. tmp' = tmp
      BY <1>i, <2>4 DEF Interrupted, Saving
    <3>2. \E s : mem' = [mem EXCEPT ![p] = s]
      <4>1. CASE mem' = mem
        <5>1. mem' = [mem EXCEPT ![p] = mem[p]]
          BY <4>1, <1>t DEF IInv, Storage
        <5> QED
          BY <5>1
      <4> QED
        BY <1>i, <4>1
    <3> QED
      BY <1>c, <1>m, <2>1, <2>2, <2>4, <3>1, <3>2 DEF Saving
  <2> QED
    BY <2>3, <2>4
<1>r. ASSUME NEW p \in Procs, NEW next \in {"none", "start"}, Replaces(p, next) PROVE Clean'
  <2>1. file' = mem[p] /\ Saving(p) /\ save' = [q \in Procs |-> IF q = p THEN next ELSE Moved(save[q])]
    BY <1>r, <1>c DEF Replaces, Clean, Saving
  <2>2. Readable(file')
    BY <1>t, <2>1 DEF Readable
  <2> QED
    BY <1>c, <1>e, <2>1, <2>2
\* A change of the copy, before its save.
<1>h. ASSUME NEW p \in Procs, pc[p] \notin Busy, NEW s, NEW why, Changes(p, s, why) PROVE Clean'
  <2>1. save[p] = "none" /\ save' = [save EXCEPT ![p] = "start"] /\ UNCHANGED <<file, tmp>>
        /\ mem' = [mem EXCEPT ![p] = s]
    BY <1>h, <1>t DEF Changes
  <2>2. ~Saving(p) /\ ~Saving(p)' /\ \A q \in Procs \ {p} : save'[q] = save[q]
    BY <1>t, <2>1 DEF Saving
  <2> QED
    BY <1>c, <1>m, <2>1, <2>2
\* A process reads the file, or leaves its copy behind, outside a save.
<1>s. ASSUME NEW p \in Procs, pc[p] \notin Busy, NEW s, mem' = [mem EXCEPT ![p] = s], UNCHANGED files
      PROVE  Clean'
  <2>1. ~Saving(p) /\ ~Saving(p)' /\ UNCHANGED <<file, tmp, save>>
    BY <1>s, <1>t DEF Saving, files
  <2> QED
    BY <1>c, <1>m, <1>s, <2>1
<1>1. ASSUME NEW b \in Brands, NEW k \in Kinds, Record(b, k) PROVE Clean'
  BY <1>1, <1>h DEF Record, Busy
<1>2. ASSUME NEW b \in Brands, NEW w \in Candidates, StartShadow(b, w) PROVE Clean'
  BY <1>2, <1>h DEF StartShadow, Busy
<1>3. ASSUME NEW b \in Brands, ApiRecalibrate(b) PROVE Clean'
  BY <1>3, <1>h DEF ApiRecalibrate, Busy
<1>4. ASSUME NEW b \in Brands, JobRecalibrate(b) PROVE Clean'
  BY <1>4, <1>h DEF JobRecalibrate, Busy
<1>5. ASSUME NEW p \in Procs, Open(p) PROVE Clean'
  <2>1. /\ \A q \in Procs : q # p => ~Saving(q)
        /\ UNCHANGED <<file, mem>> /\ tmp' = Blank
        /\ save' = [save EXCEPT ![p] = "tmp"]
    BY <1>5 DEF Open
  <2>2. \A q \in Procs : q # p => save'[q] \in {"none", "start"}
    BY <1>t, <2>1 DEF Saving
  <2>3. save'[p] = "tmp"
    BY <1>t, <2>1
  <2> QED
    BY <1>c, <2>1, <2>2, <2>3 DEF Clean, Saving, Readable
<1>6. ASSUME NEW p \in Procs, Write(p) PROVE Clean'
  <2>1. save[p] = "tmp" /\ tmp' \in Written(p, tmp) /\ UNCHANGED <<file, mem>>
        /\ save' = [save EXCEPT ![p] = "closed"]
    BY <1>6, <1>c DEF Write, Clean
  <2>2. tmp' = mem[p]
    BY <1>c, <2>1 DEF Clean, Written
  <2>3. \A q \in Procs : q # p => save'[q] = save[q] /\ save[q] \in {"none", "start"}
    BY <1>c, <1>t, <2>1 DEF Clean, Saving
  <2>4. save'[p] = "closed"
    BY <1>t, <2>1
  <2> QED
    BY <1>c, <2>1, <2>2, <2>3, <2>4 DEF Clean, Saving, Readable
<1>7. ASSUME NEW p \in Procs, Mark(p) PROVE Clean'
  BY <1>7, <1>r DEF Mark
<1>8. CASE ApiReturns
  BY <1>8, <1>r DEF ApiReturns
<1>9. CASE ApiFails
  BY <1>9, <1>i DEF ApiFails
<1>10. CASE ApiDies
  <2>1. Interrupted("api") /\ mem' = [mem EXCEPT !["api"] = Empty]
    BY <1>10 DEF ApiDies
  <2> QED
    BY <1>i, <2>1
<1>11. CASE ApiStarts
  BY <1>11, <1>s DEF ApiStarts, Opens, Busy
<1>12. CASE JobStarts
  BY <1>12, <1>s DEF JobStarts, JobStart, Opens, Busy
<1>13. CASE JobMarked
  BY <1>13, <1>r DEF JobMarked
<1>14. CASE JobReport
  <2>1. pc["job"] \notin Busy /\ UNCHANGED files
    BY <1>14 DEF JobReport, Busy
  <2>2. CASE mem' = mem
    <3>1. mem' = [mem EXCEPT !["job"] = mem["job"]]
      BY <2>2 DEF IInv, Storage
    <3> QED
      BY <1>s, <2>1, <3>1
  <2>3. CASE mem' = [mem EXCEPT !["job"] = Empty]
    BY <1>s, <2>1, <2>3
  <2> QED
    BY <1>14, <2>2, <2>3 DEF JobReport, JobGoesOn, JobExits
<1>15. CASE JobDies
  <2>1. Interrupted("job") /\ mem' = [mem EXCEPT !["job"] = Empty]
    BY <1>15 DEF JobDies, JobExits
  <2> QED
    BY <1>i, <2>1
<1>16. CASE UNCHANGED vars
  BY <1>16, <1>c DEF vars, files, Clean, Saving, Readable
<1> QED
  BY <1>1, <1>2, <1>3, <1>4, <1>5, <1>6, <1>7, <1>8, <1>9, <1>10, <1>11, <1>12, <1>13, <1>14, <1>15,
     <1>16 DEF Next, SaveStep

\* As long as no save has been under way while another one was, every reader finds
\* a document: a failed write or a crash costs the temporary file at most (_save).
THEOREM TornByOverlapOnlyHolds == Spec => []TornByOverlapOnly
<1>1. ASSUME Init PROVE CleanUnlessOverlapped
  <2>1. Readable(Empty)
    BY ContentIsReadable, GoodEmpty DEF Good
  <2> QED
    BY <1>1, <2>1 DEF Init, Clean, CleanUnlessOverlapped, Saving
<1>2. IInv /\ CleanUnlessOverlapped /\ [Next]_vars => CleanUnlessOverlapped'
  BY CleanStep
<1>3. CleanUnlessOverlapped => TornByOverlapOnly
  BY DEF CleanUnlessOverlapped, Clean, TornByOverlapOnly
<1> QED
  BY <1>1, <1>2, <1>3, AlwaysIInv, PTL DEF Spec
----------------------------------------------------------------------------
(* What the trail does not have.  Among all copies, the changes of the job   *)
(* that are in none of its records, but for the one it is about to report.   *)

Proms(s) == {[brand |-> b, version |-> s.weights[b].version] :
                b \in {b \in Brands : s.weights[b] # None /\ s.weights[b].by = "job"}}
AllProms == UNION {Proms(s) : s \in Copies}
Reported == [brand |-> brand["job"], version |-> VersionOf(mem["job"], brand["job"])]
Current == IF pc["job"] \in {"promoting", "marking", "reporting"} /\ ~dry THEN {Reported} ELSE {}
Silent == (AllProms \ chain) \ Current
Accounted == IsFiniteSet(Silent) /\ Cardinality(Silent) <= faults

LEMMA PromsStay ==
  /\ Proms(Empty) = {}
  /\ \A s \in Content : \A o : Proms([s EXCEPT !.outcomes = Append(@, o)]) = Proms(s)
  /\ \A s \in Content : \A b, w : Proms([s EXCEPT !.shadow[b] = w]) = Proms(s)
  /\ \A s \in Content : \A b : /\ Proms(Marked(s, b)) = Proms(s)
                               /\ \A c : VersionOf(Marked(s, b), c) = VersionOf(s, c)
<1>1. Proms(Empty) = {}
  BY DEF Proms, Empty
<1>2. ASSUME NEW s \in Content, NEW t, t.weights = s.weights
      PROVE  Proms(t) = Proms(s) /\ \A c : VersionOf(t, c) = VersionOf(s, c)
  BY <1>2 DEF Proms, VersionOf
<1>3. ASSUME NEW s \in Content, NEW o PROVE [s EXCEPT !.outcomes = Append(@, o)].weights = s.weights
  BY DEF Content
<1>4. ASSUME NEW s \in Content, NEW b, NEW w PROVE [s EXCEPT !.shadow[b] = w].weights = s.weights
  BY DEF Content
<1>5. ASSUME NEW s \in Content, NEW b PROVE Marked(s, b).weights = s.weights
  BY DEF Marked, Content
<1>6. \A s \in Content : \A o : Proms([s EXCEPT !.outcomes = Append(@, o)]) = Proms(s)
  BY <1>2, <1>3
<1>7. \A s \in Content : \A b, w : Proms([s EXCEPT !.shadow[b] = w]) = Proms(s)
  BY <1>2, <1>4
<1>8. \A s \in Content : \A b : /\ Proms(Marked(s, b)) = Proms(s)
                                  /\ \A c : VersionOf(Marked(s, b), c) = VersionOf(s, c)
  BY <1>2, <1>5
<1> QED
  BY <1>1, <1>6, <1>7, <1>8

LEMMA PromsPromoted ==
  ASSUME NEW s \in Content, NEW b \in Brands, NEW who \in Authors
  PROVE  /\ VersionOf(Promoted(s, b, who), b) = VersionOf(s, b) + 1
         /\ Proms(Promoted(s, b, who)) \subseteq
              Proms(s) \cup (IF who = "job" THEN {[brand |-> b, version |-> VersionOf(s, b) + 1]} ELSE {})
<1>0. PICK new \in WeightSet : /\ new.version = VersionOf(s, b) + 1
                               /\ Promoted(s, b, who) = WithWeights(s, b, new)
  BY PromotedIs DEF Authors
<1> DEFINE t == Promoted(s, b, who)
<1>1. new.version = VersionOf(s, b) + 1 /\ new.by = who /\ t = WithWeights(s, b, new)
  <2>1. t.weights[b] = new
    BY <1>0 DEF WithWeights, Content
  <2>2. \A vector, version, used :
           LET u == [s EXCEPT !.shadow[b] = None, !.weights[b] =
                       [weights |-> vector, version |-> version, used |-> used, by |-> who]]
           IN  u.weights[b].by = who
    BY DEF Content
  <2>3. t.weights[b].by = who
    BY <2>2 DEF Promoted
  <2> QED
    BY <1>0, <2>1, <2>3
<1>2. t.weights = [s.weights EXCEPT ![b] = new] /\ s.weights \in [Brands -> WeightSet \cup {None}]
  BY <1>1 DEF WithWeights, Content
<1>3. t.weights[b] = new /\ \A c \in Brands \ {b} : t.weights[c] = s.weights[c]
  BY <1>2
<1> HIDE DEF t
<1>4. VersionOf(t, b) = VersionOf(s, b) + 1
  BY <1>1, <1>3, NoneIsNoWeights DEF VersionOf
<1>5. ASSUME NEW c \in Brands, t.weights[c] # None, t.weights[c].by = "job"
      PROVE  [brand |-> c, version |-> t.weights[c].version]
               \in Proms(s) \cup (IF who = "job" THEN {[brand |-> b, version |-> VersionOf(s, b) + 1]} ELSE {})
  <2>1. CASE c = b
    BY <1>1, <1>3, <1>5, <2>1
  <2>2. CASE c # b
    BY <1>3, <1>5, <2>2 DEF Proms
  <2> QED
    BY <2>1, <2>2
<1>6. Proms(t) \subseteq Proms(s) \cup (IF who = "job" THEN {[brand |-> b, version |-> VersionOf(s, b) + 1]} ELSE {})
  BY <1>5 DEF Proms
<1> QED
  BY <1>4, <1>6 DEF t

\* What is new in a copy of one process is all there is new.
LEMMA OneChange ==
  ASSUME IInv, OnDisk, NEW p \in Procs, NEW s, NEW new, Proms(s) \subseteq AllProms \cup new,
         mem' = mem \/ mem' = [mem EXCEPT ![p] = s]
  PROVE  AllProms' \subseteq AllProms \cup new
<1>1. ASSUME NEW t \in Copies' PROVE Proms(t) \subseteq AllProms \cup new
  <2>1. Readable(t) /\ (t = file' \/ t = tmp' \/ \E q \in Procs : t = mem'[q])
    BY DEF Copies, Readable
  <2>2. CASE t \in Copies
    BY <2>2 DEF AllProms
  <2>3. CASE t = file' \/ t = tmp'
    BY <2>1, <2>2, <2>3 DEF OnDisk, Stored
  <2>4. ASSUME NEW q \in Procs, t = mem'[q] PROVE Proms(t) \subseteq AllProms \cup new
    <3>1. t = mem[q] \/ t = s
      BY <2>4 DEF IInv, Storage
    <3> QED
      BY <2>2, <3>1, InCopies DEF IInv, Storage
  <2> QED
    BY <2>1, <2>3, <2>4
<1> QED
  BY <1>1 DEF AllProms, Proms

LEMMA Fewer ==
  ASSUME IInv, IInv', Accounted, Silent' \subseteq Silent, faults' = faults \/ faults' = faults + 1
  PROVE  Accounted'
<1>1. IsFiniteSet(Silent') /\ Cardinality(Silent') <= Cardinality(Silent)
  BY FS_Subset DEF Accounted
<1>2. Cardinality(Silent) \in Nat /\ Cardinality(Silent') \in Nat /\ faults \in Nat
  BY <1>1, FS_CardinalityType, CountsAreNat DEF Accounted, IInv, Rest
<1> QED
  BY <1>1, <1>2 DEF Accounted

LEMMA AccountedStep == ASSUME IInv, Accounted, [Next]_vars PROVE Accounted'
<1> USE ProcsAre
<1>t. /\ DOMAIN pc = Procs /\ DOMAIN brand = Procs /\ mem \in [Procs -> Content]
      /\ \A p \in Procs : Proms(mem[p]) \subseteq AllProms
  BY InCopies DEF IInv, Storage, Control, AllProms
<1>i. OnDisk /\ IInv'
  BY DataStep, StepIInv
<1>f. faults' = faults \/ faults' = faults + 1
  BY DEF Next, SaveStep, Record, StartShadow, ApiRecalibrate, Open, Write, Mark, ApiReturns, ApiFails,
         ApiDies, ApiStarts, JobStarts, JobStart, JobRecalibrate, JobMarked, JobReport, JobDies, Fault,
         history, vars
\* Nobody promotes for the job, and the job goes on with what it is doing.
<1>a. ASSUME UNCHANGED <<chain, dry>>, pc'["job"] = pc["job"], brand'["job"] = brand["job"],
             mem'["job"] = mem["job"], NEW s, Proms(s) \subseteq AllProms,
             mem' = mem \/ mem' = [mem EXCEPT !["api"] = s]
      PROVE  Accounted'
  <2>1. AllProms' \subseteq AllProms
    BY <1>a, <1>i, OneChange
  <2>2. Current' = Current
    BY <1>a DEF Current, Reported, VersionOf
  <2>3. Silent' \subseteq Silent
    BY <1>a, <2>1, <2>2 DEF Silent
  <2> QED
    BY <1>i, <1>f, <2>3, Fewer
\* The API.
<1>b. ASSUME NEW s, Proms(s) \subseteq AllProms, mem' = mem \/ mem' = [mem EXCEPT !["api"] = s],
             UNCHANGED <<chain, dry>>, pc' = pc \/ \E at : pc' = [pc EXCEPT !["api"] = at],
             brand' = brand \/ \E c : brand' = [brand EXCEPT !["api"] = c]
      PROVE  Accounted'
  <2>1. pc'["job"] = pc["job"] /\ brand'["job"] = brand["job"] /\ mem'["job"] = mem["job"]
    BY <1>b, <1>t
  <2> QED
    BY <1>a, <1>b, <2>1
<1>1. ASSUME NEW b \in Brands, NEW k \in Kinds, Record(b, k) PROVE Accounted'
  <2> DEFINE s == [mem["api"] EXCEPT !.outcomes = Append(@, [id |-> inputs + 1, brand |-> b, kind |-> k])]
  <2>1. /\ mem' = [mem EXCEPT !["api"] = s] /\ UNCHANGED <<chain, dry, brand>>
        /\ pc' = [pc EXCEPT !["api"] = "recording"]
    BY <1>1 DEF Record, Changes
  <2>2. Proms(s) \subseteq AllProms
    BY <1>t, PromsStay
  <2> HIDE DEF s
  <2> QED
    BY <1>b, <2>1, <2>2
<1>2. ASSUME NEW b \in Brands, NEW w \in Candidates, StartShadow(b, w) PROVE Accounted'
  <2> DEFINE s == [mem["api"] EXCEPT !.shadow[b] = clamp_weights(w)]
  <2>1. /\ mem' = [mem EXCEPT !["api"] = s] /\ UNCHANGED <<chain, dry, brand>>
        /\ pc' = [pc EXCEPT !["api"] = "proposing"]
    BY <1>2 DEF StartShadow, Changes
  <2>2. Proms(s) \subseteq AllProms
    BY <1>t, PromsStay
  <2> HIDE DEF s
  <2> QED
    BY <1>b, <2>1, <2>2
<1>3. ASSUME NEW b \in Brands, ApiRecalibrate(b) PROVE Accounted'
  <2> DEFINE s == Promoted(mem["api"], b, "api")
  <2>1. /\ mem' = [mem EXCEPT !["api"] = s] /\ UNCHANGED <<chain, dry>>
        /\ pc' = [pc EXCEPT !["api"] = "promoting"] /\ brand' = [brand EXCEPT !["api"] = b]
    BY <1>3 DEF ApiRecalibrate, Changes, world
  <2>2. Proms(s) \subseteq AllProms
    <3>1. Proms(s) \subseteq Proms(mem["api"])
      BY <1>t, PromsPromoted DEF Authors
    <3> QED
      BY <1>t, <3>1
  <2> HIDE DEF s
  <2> QED
    BY <1>b, <2>1, <2>2
<1>4. ASSUME NEW b \in Brands, JobRecalibrate(b) PROVE Accounted'
  <2> DEFINE who == IF dry THEN "dry run" ELSE "job"
             s == Promoted(mem["job"], b, who)
  <2>1. /\ mem' = [mem EXCEPT !["job"] = s] /\ UNCHANGED <<chain, dry>> /\ pc["job"] = "next"
        /\ pc'["job"] = "promoting" /\ brand'["job"] = b
    BY <1>4, <1>t DEF JobRecalibrate, Changes
  <2>2. mem'["job"] = s
    BY <1>t, <2>1
  <2>3. who \in Authors
    BY DEF Authors
  <2>4. Current = {} /\ Current' = IF dry THEN {} ELSE {[brand |-> b, version |-> VersionOf(s, b)]}
    BY <2>1, <2>2 DEF Current, Reported, VersionOf
  <2>5. Proms(s) \subseteq Proms(mem["job"]) \cup Current'
    <3>1. VersionOf(s, b) = VersionOf(mem["job"], b) + 1
      BY <1>t, <2>3, PromsPromoted
    <3>2. CASE dry
      <4>1. who # "job"
        BY <3>2
      <4> QED
        BY <1>t, <2>3, <4>1, PromsPromoted
    <3>3. CASE ~dry
      <4>1. Current' = {[brand |-> b, version |-> VersionOf(mem["job"], b) + 1]}
        BY <2>4, <3>1, <3>3
      <4> QED
        BY <1>t, <2>3, <4>1, PromsPromoted
    <3> QED
      BY <3>2, <3>3
  <2> HIDE DEF s
  <2>6. AllProms' \subseteq AllProms \cup Current'
    BY <1>t, <1>i, <2>1, <2>5, OneChange
  <2>7. Silent' \subseteq Silent
    BY <2>1, <2>4, <2>6 DEF Silent
  <2> QED
    BY <1>i, <1>f, <2>7, Fewer
<1>5. ASSUME NEW p \in Procs, Open(p) \/ Write(p) PROVE Accounted'
  <2>1. UNCHANGED <<mem, pc, brand, chain, dry>>
    BY <1>5 DEF Open, Write, world
  <2> QED
    BY <1>b, <1>t, <2>1
<1>6. ASSUME NEW p \in Procs, Mark(p) PROVE Accounted'
  <2> DEFINE s == Marked(mem[p], brand[p])
  <2>1. /\ mem' = [mem EXCEPT ![p] = s] /\ UNCHANGED <<chain, dry, brand>>
        /\ pc[p] = "promoting" /\ pc' = [pc EXCEPT ![p] = "marking"]
    BY <1>6 DEF Mark, world
  <2>2. Proms(s) \subseteq AllProms /\ \A c : VersionOf(s, c) = VersionOf(mem[p], c)
    BY <1>t, PromsStay
  <2> HIDE DEF s
  <2>3. CASE p = "api"
    BY <1>b, <2>1, <2>2, <2>3
  <2>4. CASE p = "job"
    <3>1. mem'["job"] = s /\ pc'["job"] = "marking"
      BY <1>t, <2>1, <2>4
    <3>2. VersionOf(mem["job"], brand["job"])' = VersionOf(mem["job"], brand["job"])
      BY <2>1, <2>2, <2>4, <3>1 DEF VersionOf
    <3>3. Reported' = Reported
      BY <2>1, <3>2 DEF Reported
    <3>4. Current' = Current
      BY <2>1, <2>4, <3>1, <3>3 DEF Current
    <3>5. AllProms' \subseteq AllProms
      BY <1>i, <2>1, <2>2, OneChange
    <3>6. Silent' \subseteq Silent
      BY <2>1, <3>4, <3>5 DEF Silent
    <3> QED
      BY <1>i, <1>f, <3>6, Fewer
  <2> QED
    BY <2>3, <2>4
<1>7. CASE ApiReturns
  <2>1. /\ UNCHANGED <<mem, chain, dry>> /\ pc' = [pc EXCEPT !["api"] = "idle"]
        /\ brand' = [brand EXCEPT !["api"] = None]
    BY <1>7 DEF ApiReturns
  <2> QED
    BY <1>b, <1>t, <2>1
<1>8. CASE ApiFails
  <2>1. /\ UNCHANGED <<mem, chain, dry>> /\ pc' = [pc EXCEPT !["api"] = "idle"]
        /\ brand' = [brand EXCEPT !["api"] = None]
    BY <1>8 DEF ApiFails, world
  <2> QED
    BY <1>b, <1>t, <2>1
<1>9. CASE ApiDies
  <2>1. /\ UNCHANGED <<chain, dry>> /\ pc' = [pc EXCEPT !["api"] = "off"]
        /\ brand' = [brand EXCEPT !["api"] = None] /\ mem' = [mem EXCEPT !["api"] = Empty]
    BY <1>9 DEF ApiDies, world
  <2>2. Proms(Empty) \subseteq AllProms
    BY PromsStay
  <2> QED
    BY <1>b, <2>1, <2>2
<1>10. CASE ApiStarts
  <2>1. /\ UNCHANGED <<chain, dry, brand>> /\ pc' = [pc EXCEPT !["api"] = "idle"]
        /\ mem' = [mem EXCEPT !["api"] = file] /\ Readable(file)
    BY <1>10 DEF ApiStarts, Opens, world
  <2>2. Proms(file) \subseteq AllProms
    BY <2>1, InCopies DEF AllProms
  <2> QED
    BY <1>b, <2>1, <2>2
\* The job begins and ends with nothing to report.
<1>e. ASSUME NEW s, Proms(s) \subseteq AllProms, mem' = mem \/ mem' = [mem EXCEPT !["job"] = s]
      PROVE  AllProms' \subseteq AllProms
  BY <1>e, <1>i, OneChange
<1>11. CASE JobStarts
  <2>1. /\ pc["job"] = "off" /\ pc'["job"] = "next" /\ chain' = chain
        /\ mem' = [mem EXCEPT !["job"] = file] /\ Readable(file)
    BY <1>11, <1>t DEF JobStarts, JobStart, Opens
  <2>2. Proms(file) \subseteq AllProms
    BY <2>1, InCopies DEF AllProms
  <2>3. AllProms' \subseteq AllProms
    BY <1>e, <2>1, <2>2
  <2>4. Silent' \subseteq Silent
    BY <2>1, <2>3 DEF Silent, Current
  <2> QED
    BY <1>i, <1>f, <2>4, Fewer
<1>12. CASE JobMarked
  <2>1. /\ UNCHANGED <<mem, brand, chain, dry>> /\ pc["job"] = "marking" /\ pc'["job"] = "reporting"
    BY <1>12, <1>t DEF JobMarked, world
  <2>2. AllProms' \subseteq AllProms
    BY <1>e, <1>t, <2>1
  <2>3. Current' = Current
    BY <2>1 DEF Current, Reported, VersionOf
  <2>4. Silent' \subseteq Silent
    BY <2>1, <2>2, <2>3 DEF Silent
  <2> QED
    BY <1>i, <1>f, <2>4, Fewer
<1>x. Proms(Empty) \subseteq AllProms
  BY PromsStay
<1>13. CASE JobReport
  <2>1. /\ pc["job"] = "reporting" /\ pc'["job"] \in {"next", "off"}
        /\ (mem' = mem \/ mem' = [mem EXCEPT !["job"] = Empty])
        /\ chain' = IF dry THEN chain ELSE chain \cup {Reported}
    BY <1>13, <1>t DEF JobReport, JobGoesOn, JobExits, Reported
  <2>2. AllProms' \subseteq AllProms
    BY <1>e, <1>x, <2>1
  <2>3. Current' = {} /\ Current = IF dry THEN {} ELSE {Reported}
    BY <2>1 DEF Current
  <2>4. Silent' \subseteq Silent
    BY <2>1, <2>2, <2>3 DEF Silent
  <2> QED
    BY <1>i, <1>f, <2>4, Fewer
<1>14. CASE JobDies
  <2>1. /\ pc'["job"] = "off" /\ mem' = [mem EXCEPT !["job"] = Empty] /\ chain' = chain
        /\ faults' = faults + 1
    BY <1>14, <1>t DEF JobDies, JobExits, Fault
  <2>2. AllProms' \subseteq AllProms
    BY <1>e, <1>x, <2>1
  <2>3. Silent' \subseteq Silent \cup Current /\ Current \subseteq {Reported}
    BY <2>1, <2>2 DEF Silent, Current
  <2>4. /\ IsFiniteSet(Silent \cup {Reported})
        /\ Cardinality(Silent \cup {Reported}) <= Cardinality(Silent) + 1
        /\ Cardinality(Silent) \in Nat /\ Cardinality(Silent \cup {Reported}) \in Nat
    BY FS_AddElement, FS_CardinalityType DEF Accounted
  <2>5. Silent' \in SUBSET (Silent \cup {Reported})
    BY <2>3
  <2>6. IsFiniteSet(Silent') /\ Cardinality(Silent') <= Cardinality(Silent \cup {Reported})
        /\ Cardinality(Silent') \in Nat
    BY <2>4, <2>5, FS_Subset, FS_CardinalityType
  <2>7. faults \in Nat
    BY CountsAreNat DEF IInv, Rest
  <2> QED
    BY <2>1, <2>4, <2>6, <2>7 DEF Accounted
<1>15. CASE UNCHANGED vars
  <2>1. UNCHANGED <<mem, pc, brand, chain, dry>>
    BY <1>15 DEF vars, world
  <2> QED
    BY <1>b, <1>t, <2>1
<1> QED
  BY <1>1, <1>2, <1>3, <1>4, <1>5, <1>6, <1>7, <1>8, <1>9, <1>10, <1>11, <1>12, <1>13, <1>14, <1>15
     DEF Next, SaveStep

\* When no job runs, the file holds at most one change of the job per fault that the
\* trail does not have, for any number of brands and runs, and whichever process has
\* written the file since (recalibrate_job.main chains each change before the next).
THEOREM OneUnauditedPerFaultHolds == Spec => []OneUnauditedPerFault
<1>1. ASSUME Init PROVE Accounted
  <2>1. \A s \in Copies : s = Empty
    BY <1>1 DEF Init, Copies, Readable
  <2>2. Silent = {}
    BY <2>1, PromsStay DEF Silent, AllProms
  <2> QED
    BY <1>1, <2>2, FS_EmptySet DEF Accounted, Init
<1>2. IInv /\ Accounted /\ [Next]_vars => Accounted'
  BY AccountedStep
<1>3. ASSUME IInv, Accounted PROVE OneUnauditedPerFault
  <2> SUFFICES ASSUME pc["job"] = "off", Readable(file) PROVE Cardinality(Unaudited) <= faults
    BY DEF OneUnauditedPerFault
  <2>1. Proms(file) \subseteq AllProms /\ Current = {}
    BY InCopies DEF AllProms, Current
  <2>2. Unaudited = Proms(file) \ chain
    BY DEF Unaudited, Proms
  <2>3. Unaudited \in SUBSET Silent
    BY <2>1, <2>2 DEF Silent
  <2>4. Cardinality(Unaudited) <= Cardinality(Silent) /\ Cardinality(Silent) <= faults
        /\ IsFiniteSet(Unaudited) /\ IsFiniteSet(Silent)
    BY <1>3, <2>3, FS_Subset DEF Accounted
  <2> QED
    BY <1>3, <2>4, FS_CardinalityType, CountsAreNat DEF IInv, Rest
<1> QED
  BY <1>1, <1>2, <1>3, AlwaysIInv, PTL DEF Spec
=============================================================================
