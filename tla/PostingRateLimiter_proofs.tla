---------------------- MODULE PostingRateLimiter_proofs ----------------------
(***************************************************************************)
(* For any number of accounts, attempts, slots and any limit and window:   *)
(* the window overshoots its limit by at most Slots - 1 posts, in Redis    *)
(* and, up to unrecorded posts, on X.                                      *)
(***************************************************************************)
EXTENDS PostingRateLimiter, FiniteSetTheorems, TLAPS

USE AccountAssumption, SlotsAssumption, MaxPerDayAssumption, WindowAssumption,
    MaxTimeAssumption

(* Never more attempts run than there are slots; what Redis holds is       *)
(* finite and belongs to the account, and what was lost is finite.         *)
Bounded ==
  /\ IsFiniteSet(Running)
  /\ Cardinality(Running) <= Slots
  /\ \A a \in Accounts :
       IsFiniteSet(zset[a]) /\ \A p \in zset[a] : Account[p] = a
  /\ IsFiniteSet(unrecorded)

(* A post on X is being recorded, was lost, or was recorded no earlier     *)
(* than it was posted, and its entry goes only when it has expired.        *)
Covered ==
  /\ \A p \in Attempts : stage[p] \notin {"record", "done"} => p \notin accepted
  /\ \A p \in accepted :
       /\ postedAt[p] <= now
       /\ \/ stage[p] = "record"
          \/ p \in unrecorded
          \/ /\ postedAt[p] <= score[p]
             /\ p \in zset[Account[p]] \/ Expired(p)

Inv == LimiterTypeOK /\ Bounded /\ OvershootBounded /\ Covered

(* Two finite sets together are no larger than their sizes added.          *)
LEMMA PairBound ==
  ASSUME NEW S, NEW T, IsFiniteSet(S), IsFiniteSet(T)
  PROVE  /\ IsFiniteSet(S \cup T)
         /\ Cardinality(S \cup T) <= Cardinality(S) + Cardinality(T)
<1>1. Cardinality(S \cap T) \in Nat /\ IsFiniteSet(S \cap T)
  BY FS_Intersection, FS_CardinalityType
<1>2. /\ IsFiniteSet(S \cup T)
      /\ Cardinality(S \cup T)
           = Cardinality(S) + Cardinality(T) - Cardinality(S \cap T)
  BY FS_Union
<1> QED
  BY <1>1, <1>2, FS_CardinalityType

(* One more element makes a finite set larger by at most one.              *)
LEMMA AddOne ==
  ASSUME NEW S, NEW x, IsFiniteSet(S)
  PROVE  /\ IsFiniteSet(S \cup {x})
         /\ Cardinality(S \cup {x}) \in Nat
         /\ Cardinality(S \cup {x}) <= Cardinality(S) + 1
<1>1. IsFiniteSet({x}) /\ Cardinality({x}) = 1
  BY FS_Singleton
<1> QED
  BY <1>1, PairBound, FS_CardinalityType

(* The invariant holds initially: nothing runs and nothing is recorded.     *)
LEMMA InitInv == LimiterInit => Inv
<1> SUFFICES ASSUME LimiterInit PROVE Inv
  OBVIOUS
<1> USE DEF LimiterInit
<1>1. LimiterTypeOK
  BY DEF LimiterTypeOK, Stages
<1>2. Running = {} /\ \A a \in Accounts : Recorded(a) = {} /\ Passed(a) = {}
  BY DEF Running, Recorded, Passed
<1>3. Bounded
  BY <1>2, FS_EmptySet DEF Bounded
<1>4. OvershootBounded
  <2> SUFFICES ASSUME NEW a \in Accounts
               PROVE  Cardinality(Recorded(a)) + Cardinality(Passed(a))
                        <= MaxPerDay + Slots - 1
    BY DEF OvershootBounded
  <2>1. Cardinality(Recorded(a)) = 0 /\ Cardinality(Passed(a)) = 0
    BY <1>2, FS_EmptySet
  <2> QED
    BY <2>1
<1>5. Covered
  BY DEF Covered
<1> QED
  BY <1>1, <1>3, <1>4, <1>5 DEF Inv

(* The clock and the sets keep to their types.                             *)
LEMMA TypeStep == Inv /\ [LimiterNext]_limiterVars => LimiterTypeOK'
BY DEF Inv, LimiterTypeOK, Stages, LimiterNext, limiterVars, Tick, TakeAttempt, Clean, Count,
       XAccepts, XRejects, Record, RecordFails, Expired

(* Starting an attempt takes a free slot; no other step adds a running one.*)
LEMMA BoundedStep == Inv /\ [LimiterNext]_limiterVars => Bounded'
<1> SUFFICES ASSUME Inv, [LimiterNext]_limiterVars PROVE Bounded'
  OBVIOUS
<1> USE DEF Inv, LimiterTypeOK, Stages
<1>1. (Running' \subseteq Running) => IsFiniteSet(Running') /\ Cardinality(Running') <= Slots
  BY FS_Subset, FS_CardinalityType DEF Bounded
<1>2. ASSUME NEW a \in Accounts, NEW p, zset'[a] \subseteq zset[a] \cup {p}
      PROVE  IsFiniteSet(zset'[a])
  BY <1>2, FS_AddElement, FS_Subset DEF Bounded
<1>3. ASSUME NEW p, unrecorded' \subseteq unrecorded \cup {p}
      PROVE  IsFiniteSet(unrecorded')
  BY <1>3, FS_AddElement, FS_Subset DEF Bounded
<1>4. CASE UNCHANGED limiterVars \/ Tick
  BY <1>1, <1>4 DEF limiterVars, Tick, Bounded, Running
<1>5. ASSUME NEW p \in Attempts, TakeAttempt(p) PROVE Bounded'
  <2>1. Running' = Running \cup {p}
    BY <1>5 DEF TakeAttempt, Running
  <2>2. Cardinality(Running) + 1 <= Slots
    BY <1>5, FS_CardinalityType DEF TakeAttempt, Bounded
  <2>3. IsFiniteSet(Running \cup {p})
        /\ Cardinality(Running \cup {p}) <= Cardinality(Running) + 1
    BY AddOne DEF Bounded
  <2>4. IsFiniteSet(Running') /\ Cardinality(Running') <= Slots
    BY <2>1, <2>2, <2>3, FS_CardinalityType DEF Bounded
  <2> QED
    BY <1>5, <2>4 DEF TakeAttempt, Bounded
<1>6. ASSUME NEW p \in Attempts,
             Clean(p) \/ Count(p) \/ XAccepts(p) \/ XRejects(p)
               \/ Record(p) \/ RecordFails(p)
      PROVE  Bounded'
  <2>1. Running' \subseteq Running
    BY <1>6 DEF Running, Clean, Count, XAccepts, XRejects, Record,
                RecordFails
  <2>2. \A a \in Accounts : zset'[a] \subseteq zset[a] \cup {p}
    BY <1>6 DEF Clean, Count, XAccepts, XRejects, Record, RecordFails
  <2>3. unrecorded' \subseteq unrecorded \cup {p}
    BY <1>6 DEF Clean, Count, XAccepts, XRejects, Record, RecordFails
  <2>4. \A a \in Accounts : \A q \in zset'[a] : Account[q] = a
    BY <1>6 DEF Clean, Count, XAccepts, XRejects, Record, RecordFails,
                Bounded
  <2> QED
    BY <1>1, <1>2, <1>3, <2>1, <2>2, <2>3, <2>4 DEF Bounded
<1> QED
  BY <1>4, <1>5, <1>6 DEF LimiterNext

(* The sets of the overshoot bound are finite, and nobody passes the check *)
(* without holding a slot.                                                 *)
LEMMA WindowSets ==
  ASSUME Inv, NEW a \in Accounts
  PROVE  /\ IsFiniteSet(Recorded(a)) /\ Cardinality(Recorded(a)) \in Nat
         /\ IsFiniteSet(Passed(a)) /\ Cardinality(Passed(a)) \in Nat
         /\ Cardinality(Recorded(a)) + Cardinality(Passed(a))
              <= MaxPerDay + Slots - 1
<1>1. Recorded(a) \subseteq zset[a] /\ Passed(a) \subseteq Running
  BY DEF Recorded, Passed, Running
<1> QED
  BY <1>1, FS_Subset, FS_CardinalityType DEF Inv, Bounded, OvershootBounded

(* A step that adds to neither set keeps the bound.                        *)
LEMMA OvershootShrinks ==
  ASSUME Inv, NEW a \in Accounts, Recorded(a)' \subseteq Recorded(a),
         Passed(a)' \subseteq Passed(a)
  PROVE  Cardinality(Recorded(a))' + Cardinality(Passed(a))'
           <= MaxPerDay + Slots - 1
<1>1. /\ Cardinality(Recorded(a)') <= Cardinality(Recorded(a))
      /\ Cardinality(Passed(a)') <= Cardinality(Passed(a))
      /\ Cardinality(Recorded(a)') \in Nat
      /\ Cardinality(Passed(a)') \in Nat
  BY WindowSets, FS_Subset, FS_CardinalityType
<1> QED
  BY <1>1, WindowSets

(* An attempt that passes the check saw fewer than MaxPerDay entries, and  *)
(* at most the other slots are between check and record; recording moves a *)
(* post from one set to the other.                                         *)
LEMMA OvershootStep == Inv /\ [LimiterNext]_limiterVars => OvershootBounded'
<1> SUFFICES ASSUME Inv, [LimiterNext]_limiterVars, NEW a \in Accounts
             PROVE  Cardinality(Recorded(a))' + Cardinality(Passed(a))'
                      <= MaxPerDay + Slots - 1
  BY DEF OvershootBounded
<1> USE DEF Inv, LimiterTypeOK, Stages
<1>1. CASE UNCHANGED limiterVars \/ Tick
  <2>1. Recorded(a)' \subseteq Recorded(a) /\ Passed(a)' \subseteq Passed(a)
    BY <1>1 DEF limiterVars, Tick, Recorded, Passed, Expired
  <2> QED
    BY <2>1, OvershootShrinks
<1>2. ASSUME NEW p \in Attempts,
             TakeAttempt(p) \/ Clean(p) \/ XAccepts(p) \/ XRejects(p)
               \/ RecordFails(p)
      PROVE  Cardinality(Recorded(a))' + Cardinality(Passed(a))'
               <= MaxPerDay + Slots - 1
  <2>1. Recorded(a)' \subseteq Recorded(a) /\ Passed(a)' \subseteq Passed(a)
    BY <1>2 DEF TakeAttempt, Clean, XAccepts, XRejects, RecordFails,
                Recorded, Passed, Expired
  <2> QED
    BY <2>1, OvershootShrinks
<1>3. ASSUME NEW p \in Attempts, Count(p)
      PROVE  Cardinality(Recorded(a))' + Cardinality(Passed(a))'
               <= MaxPerDay + Slots - 1
  <2>1. Recorded(a)' = Recorded(a)
    BY <1>3 DEF Count, Recorded, Expired
  <2>2. CASE CanPost(p) /\ Account[p] = a
    <3>1. /\ Cardinality(Recorded(a)) <= MaxPerDay - 1
          /\ Cardinality(Recorded(a)) \in Nat
      <4>1. Recorded(a) \subseteq zset[a] /\ IsFiniteSet(zset[a])
        BY DEF Recorded, Bounded
      <4> QED
        BY <2>2, <4>1, FS_Subset, FS_CardinalityType DEF CanPost
    <3>2. /\ Cardinality(Passed(a)') <= Slots
          /\ Cardinality(Passed(a)') \in Nat
      <4>1. Passed(a)' \subseteq Running /\ IsFiniteSet(Running)
        BY <1>3 DEF Count, Passed, Running, Bounded
      <4> QED
        BY <4>1, FS_Subset, FS_CardinalityType DEF Bounded
    <3> QED
      BY <2>1, <3>1, <3>2
  <2>3. CASE ~(CanPost(p) /\ Account[p] = a)
    <3>1. Passed(a)' \subseteq Passed(a)
      BY <1>3, <2>3 DEF Count, Passed
    <3> QED
      BY <2>1, <3>1, OvershootShrinks
  <2> QED
    BY <2>2, <2>3
<1>4. ASSUME NEW p \in Attempts, Record(p)
      PROVE  Cardinality(Recorded(a))' + Cardinality(Passed(a))'
               <= MaxPerDay + Slots - 1
  <2>1. CASE Account[p] # a
    <3>1. Recorded(a)' \subseteq Recorded(a) /\ Passed(a)' \subseteq Passed(a)
      <4>1. zset'[a] = zset[a] /\ p \notin Recorded(a)'
        BY <1>4, <2>1 DEF Record, Recorded, Bounded
      <4> QED
        BY <1>4, <2>1, <4>1 DEF Record, Recorded, Passed, Expired
    <3> QED
      BY <3>1, OvershootShrinks
  <2>2. CASE Account[p] = a
    <3>1. Recorded(a)' \subseteq Recorded(a) \cup {p}
      BY <1>4, <2>2 DEF Record, Recorded, Expired
    <3>2. p \in Passed(a) /\ Passed(a)' = Passed(a) \ {p}
      BY <1>4, <2>2 DEF Record, Passed
    <3>3. /\ Cardinality(Recorded(a)') <= Cardinality(Recorded(a)) + 1
          /\ Cardinality(Recorded(a)') \in Nat
      <4>1. /\ IsFiniteSet(Recorded(a) \cup {p})
            /\ Cardinality(Recorded(a) \cup {p}) <= Cardinality(Recorded(a)) + 1
        BY WindowSets, AddOne
      <4> QED
        BY <3>1, <4>1, WindowSets, FS_Subset, FS_CardinalityType
    <3>4. Cardinality(Passed(a)') = Cardinality(Passed(a)) - 1
      BY <3>2, WindowSets, FS_RemoveElement, ZenonT(40)
    <3> QED
      BY <3>3, <3>4, WindowSets
  <2> QED
    BY <2>1, <2>2
<1> QED
  BY <1>1, <1>2, <1>3, <1>4 DEF LimiterNext

(* An entry is scored no earlier than its post, so it expires no earlier.  *)
LEMMA CoveredStep == Inv /\ [LimiterNext]_limiterVars => Covered'
<1> SUFFICES ASSUME Inv, [LimiterNext]_limiterVars PROVE Covered'
  OBVIOUS
<1> USE DEF Inv, LimiterTypeOK, Stages
<1>1. CASE UNCHANGED limiterVars
  BY <1>1 DEF limiterVars, Covered, Expired
<1>2. CASE Tick
  BY <1>2 DEF Tick, Covered, Expired
<1>3. ASSUME NEW p \in Attempts, TakeAttempt(p) \/ Count(p) PROVE Covered'
  BY <1>3 DEF TakeAttempt, Count, Covered, Expired
<1>4. ASSUME NEW p \in Attempts, Clean(p) PROVE Covered'
  BY <1>4 DEF Clean, Covered, Expired
<1>5. ASSUME NEW p \in Attempts, XAccepts(p) \/ XRejects(p)
      PROVE  Covered'
  BY <1>5 DEF XAccepts, XRejects, Covered, Expired
<1>6. ASSUME NEW p \in Attempts, Record(p) PROVE Covered'
  BY <1>6 DEF Record, Covered, Expired
<1>7. ASSUME NEW p \in Attempts, RecordFails(p) PROVE Covered'
  BY <1>7 DEF RecordFails, Covered, Expired
<1> QED
  BY <1>1, <1>2, <1>3, <1>4, <1>5, <1>6, <1>7 DEF LimiterNext

(* The inductive invariant holds in every reachable state.                 *)
THEOREM Invariance == LimiterSpec => []Inv
<1>1. Inv /\ [LimiterNext]_limiterVars => Inv'
  BY TypeStep, BoundedStep, OvershootStep, CoveredStep DEF Inv
<1> QED
  BY InitInv, <1>1, PTL DEF LimiterSpec

(* Every variable of the limiter keeps its type.                           *)
THEOREM LimiterTypes == LimiterSpec => []LimiterTypeOK
<1>1. Inv => LimiterTypeOK
  BY DEF Inv
<1> QED
  BY Invariance, <1>1, PTL

(* The window in Redis, with the posts under way, exceeds the limit by     *)
(* fewer posts than there are worker slots.                                *)
THEOREM WindowOvershoot == LimiterSpec => []OvershootBounded
<1>1. Inv => OvershootBounded
  BY DEF Inv
<1> QED
  BY Invariance, <1>1, PTL

(* The same of the window that X counts, up to posts never recorded.       *)
THEOREM XWindowOvershoot == LimiterSpec => []XOvershootBounded
<1>1. Inv => XOvershootBounded
  <2> SUFFICES ASSUME Inv, NEW a \in Accounts
               PROVE  Cardinality(Posted(a))
                        <= MaxPerDay + Slots - 1 + Cardinality(Lost(a))
    BY DEF XOvershootBounded
  <2> DEFINE R == Recorded(a)
             P == Passed(a)
             L == Lost(a)
  <2>1. Posted(a) \subseteq (R \cup P) \cup L
    BY DEF Inv, LimiterTypeOK, Covered, Posted, Recorded, Passed, Lost, Expired
  <2>2. /\ IsFiniteSet(R) /\ Cardinality(R) \in Nat
        /\ IsFiniteSet(P) /\ Cardinality(P) \in Nat
        /\ Cardinality(R) + Cardinality(P) <= MaxPerDay + Slots - 1
    BY WindowSets
  <2>3. IsFiniteSet(L) /\ Cardinality(L) \in Nat
    BY FS_Subset, FS_CardinalityType DEF Inv, Bounded, Lost
  <2> HIDE DEF R, P, L
  <2>4. /\ IsFiniteSet(R \cup P)
        /\ Cardinality(R \cup P) <= Cardinality(R) + Cardinality(P)
    BY <2>2, PairBound
  <2>5. /\ IsFiniteSet((R \cup P) \cup L)
        /\ Cardinality((R \cup P) \cup L)
             <= Cardinality(R \cup P) + Cardinality(L)
    BY <2>3, <2>4, PairBound
  <2>6. /\ Cardinality(Posted(a)) <= Cardinality((R \cup P) \cup L)
        /\ Cardinality(Posted(a)) \in Nat
        /\ Cardinality((R \cup P) \cup L) \in Nat
        /\ Cardinality(R \cup P) \in Nat
    BY <2>1, <2>4, <2>5, FS_Subset, FS_CardinalityType
  <2> QED
    BY <2>2, <2>3, <2>4, <2>5, <2>6 DEF L
<1> QED
  BY Invariance, <1>1, PTL

=============================================================================
