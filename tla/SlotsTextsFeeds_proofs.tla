----------------------- MODULE SlotsTextsFeeds_proofs ------------------------
(***************************************************************************)
(* For any inputs: no tweet gets a time that has passed, a batch fits the  *)
(* window it waits for, and no tweet is left without a time; every text    *)
(* that is generated fits a post, belongs to the event with its number,    *)
(* and is not like another one; a story that an adapter has fetched is an  *)
(* event, and is so once.                                                  *)
(***************************************************************************)
EXTENDS TimeSlots, TweetText, SourceAdapters, TLAPS

USE TimesAssumption

(* Rounding up to a multiple does not fall below.                          *)
LEMMA RoundUpBound ==
  ASSUME NEW a \in Int, NEW b \in Nat, b > 0
  PROVE  RoundUp(a, b) * b >= a /\ RoundUp(a, b) \in Int
BY DEF RoundUp

LEMMA IntervalBound ==
  ASSUME NEW w \in Nat, NEW f \in Nat, f > 0
  PROVE  /\ w \div f \in Nat
         /\ f * (w \div f) <= w
         /\ f <= w => w \div f > 0
OBVIOUS

LEMMA ProductBound ==
  ASSUME NEW i \in Nat, NEW j \in Nat, NEW k \in Nat, i <= j
  PROVE  i * k <= j * k /\ i * k \in Nat
OBVIOUS

LEMMA SlotAt ==
  ASSUME NEW n, NEW first, NEW step, NEW jitter, NEW i \in 1..n
  PROVE  [k \in 1..n |-> first + (k - 1) * step + jitter[k]][i]
           = first + (i - 1) * step + jitter[i]
OBVIOUS

LEMMA EntryIn ==
  ASSUME NEW D, NEW f \in [D -> Jitters], NEW d \in D
  PROVE  f[d] \in 0..4
<1>1. f[d] \in Jitters
  OBVIOUS
<1>2. Jitters \subseteq 0..4
  OBVIOUS
<1> HIDE TimesAssumption
<1> QED
  BY <1>1, <1>2

-----------------------------------------------------------------------------
SlotsTypeOK ==
  /\ minute \in 0..1439 /\ startHour \in 0..24 /\ endHour \in 0..24
  /\ frequency \in 1..100
  /\ wanted \in Nat /\ jobs \in Nat

SlotsInv == SlotsTypeOK /\ SlotsAhead /\ ClosedWindowFits /\ EveryTweetTimed

(* What a batch looks like once its slots are known.                       *)
Batch(size, jitter) ==
  /\ wanted' = size /\ size \in 0..frequency
  /\ times' = [i \in 1..size |-> BaseTime + (i - 1) * Interval + jitter[i]]
  /\ jitter \in [1..size -> Jitters]
  /\ startHour < endHour /\ ValidSlots

LEMMA BatchCases ==
  ASSUME SlotsTypeOK, AutoScheduleForBot
  PROVE  /\ wanted' \in Nat /\ jobs' \in Nat
         /\ UNCHANGED <<minute, startHour, endHour, frequency>>
         /\ \/ times' = <<>> /\ ~(startHour < endHour /\ ValidSlots)
            \/ \E jitter : Batch(wanted', jitter)
         /\ startHour < endHour => jobs' = wanted'
<1> USE DEF SlotsTypeOK
<1>1. PICK n \in Approved, q \in Quotas :
        /\ wanted' = Least(Least(n, frequency), q)
        /\ jobs' = IF startHour < endHour THEN wanted' ELSE 0
        /\ IF startHour < endHour /\ ValidSlots
           THEN \E jitter \in [1..wanted' -> Jitters] :
                  times' = [i \in 1..wanted' |->
                              BaseTime + (i - 1) * Interval + jitter[i]]
           ELSE times' = <<>>
  BY DEF AutoScheduleForBot
<1>2. n \in Nat /\ q \in Nat
  OBVIOUS
<1>3. wanted' \in 0..frequency
  BY <1>1, <1>2 DEF Least
<1>4. CASE startHour < endHour /\ ValidSlots
  <2>1. PICK jitter \in [1..wanted' -> Jitters] :
          times' = [i \in 1..wanted' |-> BaseTime + (i - 1) * Interval + jitter[i]]
    BY <1>1, <1>4
  <2>2. Batch(wanted', jitter)
    BY <1>3, <1>4, <2>1 DEF Batch
  <2> QED
    BY <1>1, <1>3, <2>2 DEF AutoScheduleForBot
<1>5. CASE ~(startHour < endHour /\ ValidSlots)
  BY <1>1, <1>3, <1>5 DEF AutoScheduleForBot
<1> QED
  BY <1>4, <1>5

(* A slot lies between the first one and the last of the frequency.        *)
LEMMA SlotBounds ==
  ASSUME SlotsTypeOK, NEW size, NEW jitter, Batch(size, jitter), NEW i \in 1..size
  PROVE  /\ Interval \in Nat /\ BaseTime \in Int /\ times'[i] \in Int
         /\ BaseTime <= times'[i]
         /\ times'[i] <= BaseTime + (frequency - 1) * Interval + 4
<1> USE DEF SlotsTypeOK
<1>1. Opens \in Nat /\ Closes \in Nat /\ Closes - Opens \in Nat
  BY DEF Batch, Opens, Closes
<1>2. Interval \in Nat
  BY <1>1, IntervalBound DEF Interval
<1>3. BaseTime \in Int
  <2>1. CASE ~(minute >= Closes) /\ ~(minute < Opens)
    <3>1. Interval > 0
      BY <1>1, <2>1 DEF Batch, ValidSlots
    <3>2. RoundUp(minute - Opens, Interval) \in Int
      BY <1>1, <1>2, <3>1, RoundUpBound
    <3> QED
      BY <1>1, <1>2, <2>1, <3>2 DEF BaseTime, NextSlot
  <2> QED
    BY <1>1, <2>1 DEF BaseTime
<1>4. jitter[i] \in 0..4 /\ i - 1 \in Nat /\ size \in 0..frequency
      /\ times'[i] = BaseTime + (i - 1) * Interval + jitter[i]
  <2>1. size \in 0..frequency /\ jitter \in [1..size -> Jitters]
    BY DEF Batch
  <2>2. i - 1 \in Nat
    BY <2>1
  <2>3. jitter[i] \in 0..4
    BY <2>1, EntryIn
  <2>4. times'[i] = BaseTime + (i - 1) * Interval + jitter[i]
    BY SlotAt DEF Batch
  <2> QED
    BY <2>1, <2>2, <2>3, <2>4
<1>5. (i - 1) * Interval <= (frequency - 1) * Interval /\ (i - 1) * Interval \in Nat
      /\ (frequency - 1) * Interval \in Nat
  BY <1>2, <1>4, ProductBound
<1> DEFINE base == BaseTime
           before == (i - 1) * Interval
           most == (frequency - 1) * Interval
<1>6. /\ base \in Int /\ before \in Nat /\ most \in Nat /\ before <= most
      /\ jitter[i] \in 0..4 /\ times'[i] = base + before + jitter[i]
  BY <1>3, <1>4, <1>5
<1> HIDE DEF base, before, most
<1>7. times'[i] \in Int /\ base <= times'[i] /\ times'[i] <= base + most + 4
  BY <1>6
<1> QED
  BY <1>2, <1>3, <1>7 DEF base, most

LEMMA BaseAhead ==
  ASSUME SlotsTypeOK, startHour < endHour, ValidSlots
  PROVE  BaseTime >= minute
<1> USE DEF SlotsTypeOK
<1>1. Opens \in Nat /\ Closes \in Nat /\ Closes - Opens \in Nat
  BY DEF Opens, Closes
<1>2. CASE ~(minute >= Closes) /\ ~(minute < Opens)
  <2>1. Interval > 0 /\ Interval \in Nat
    BY <1>1, <1>2, IntervalBound DEF ValidSlots, Interval
  <2>2. /\ RoundUp(minute - Opens, Interval) * Interval >= minute - Opens
        /\ RoundUp(minute - Opens, Interval) * Interval \in Int
    BY <1>1, <2>1, RoundUpBound
  <2> QED
    BY <1>1, <1>2, <2>2 DEF BaseTime, NextSlot
<1> QED
  BY <1>1, <1>2 DEF BaseTime

LEMMA SlotsStep ==
  ASSUME SlotsInv, [SlotsNext]_slotVars
  PROVE  SlotsInv'
<1> USE DEF SlotsInv
<1>1. CASE AutoScheduleForBot
  <2>0. /\ wanted' \in Nat /\ jobs' \in Nat
        /\ UNCHANGED <<minute, startHour, endHour, frequency>>
    BY <1>1, BatchCases
  <2>1. /\ SlotsTypeOK'
        /\ UNCHANGED <<minute, startHour, endHour, frequency>>
        /\ Opens' = Opens /\ Closes' = Closes
    BY <2>0 DEF SlotsTypeOK, Opens, Closes
  <2>2. CASE times' = <<>> /\ ~(startHour < endHour /\ ValidSlots)
    <3>1. ~(frequency <= Closes - Opens)
      <4>1. SUFFICES ASSUME frequency <= Closes - Opens PROVE FALSE
        OBVIOUS
      <4>2. startHour < endHour
        BY <4>1 DEF SlotsTypeOK, Opens, Closes
      <4>3. Interval > 0
        BY <4>1, <4>2, IntervalBound DEF Interval, SlotsTypeOK, Opens, Closes
      <4> QED
        BY <2>2, <4>2, <4>3 DEF ValidSlots
    <3>2. DOMAIN times' = {}
      BY <2>2
    <3> QED
      BY <2>1, <2>2, <3>1, <3>2
         DEF SlotsAhead, ClosedWindowFits, EveryTweetTimed, Opens, Closes
  <2>3. CASE \E jitter : Batch(wanted', jitter)
    <3>1. PICK jitter : Batch(wanted', jitter)
      BY <2>3
    <3>2. DOMAIN times' = 1..wanted' /\ Len(times') = wanted' /\ startHour < endHour
      BY <2>1, <3>1 DEF Batch, SlotsTypeOK
    <3>3. SlotsAhead'
      <4>1. BaseTime >= minute
        BY <3>1, BaseAhead DEF Batch
      <4> SUFFICES ASSUME NEW i \in 1..wanted' PROVE times'[i] >= minute
        BY <2>1, <3>2 DEF SlotsAhead
      <4>2. BaseTime <= times'[i] /\ BaseTime \in Int /\ times'[i] \in Int
        BY <3>1, SlotBounds
      <4> HIDE DEF BaseTime
      <4> QED
        BY <4>1, <4>2 DEF SlotsTypeOK
    <3>4. ClosedWindowFits'
      <4> DEFINE day == IF minute < Opens THEN 0 ELSE 1440
      <4> SUFFICES ASSUME ~(Opens <= minute /\ minute < Closes), NEW i \in 1..wanted'
                   PROVE  day + Opens <= times'[i] /\ times'[i] < day + Closes + 5
        BY <2>1, <3>2 DEF ClosedWindowFits
      <4>0. /\ Opens \in Nat /\ Closes \in Nat /\ Closes - Opens \in Nat
            /\ minute \in Nat /\ frequency \in Nat /\ frequency > 0 /\ Opens < Closes
        BY <3>2 DEF SlotsTypeOK, Opens, Closes
      <4> HIDE DEF Opens, Closes
      <4>1. BaseTime = day + Opens
        <5>1. CASE minute < Opens
          BY <4>0, <5>1 DEF BaseTime
        <5>2. CASE minute >= Closes
          BY <4>0, <5>2 DEF BaseTime
        <5> QED
          BY <4>0, <5>1, <5>2
      <4>2. /\ Interval \in Nat /\ frequency * Interval <= Closes - Opens
        BY <4>0, IntervalBound DEF Interval
      <4>3. /\ (frequency - 1) * Interval <= frequency * Interval
            /\ (frequency - 1) * Interval \in Nat /\ frequency * Interval \in Nat
        BY <4>2, ProductBound DEF SlotsTypeOK
      <4>4. /\ BaseTime <= times'[i] /\ times'[i] \in Int
            /\ times'[i] <= BaseTime + (frequency - 1) * Interval + 4
        BY <3>1, SlotBounds
      <4> HIDE DEF BaseTime, Interval
      <4> QED
        BY <4>0, <4>1, <4>2, <4>3, <4>4
    <3>5. EveryTweetTimed'
      BY <1>1, <2>1, <3>2, BatchCases DEF EveryTweetTimed
    <3> QED
      BY <2>1, <3>3, <3>4, <3>5
  <2> QED
    BY <1>1, <2>2, <2>3, BatchCases
<1>2. CASE UNCHANGED slotVars
  BY <1>2 DEF slotVars, SlotsTypeOK, SlotsAhead, ClosedWindowFits, EveryTweetTimed,
              Opens, Closes
<1> QED
  BY <1>1, <1>2 DEF SlotsNext

LEMMA SlotsInitInv == SlotsInit => SlotsInv
BY DEF SlotsInit, SlotsInv, SlotsTypeOK, SlotsAhead, ClosedWindowFits, EveryTweetTimed

THEOREM SlotsInvariance == SlotsSpec => []SlotsInv
BY SlotsInitInv, SlotsStep, PTL DEF SlotsSpec

(* No tweet gets a time that has passed.                                   *)
THEOREM NoLateSlot == SlotsSpec => []SlotsAhead
<1>1. SlotsInv => SlotsAhead
  BY DEF SlotsInv
<1> QED
  BY SlotsInvariance, <1>1, PTL

(* A batch that is planned while the window is closed fits the next one.   *)
THEOREM NextWindowFits == SlotsSpec => []ClosedWindowFits
<1>1. SlotsInv => ClosedWindowFits
  BY DEF SlotsInv
<1> QED
  BY SlotsInvariance, <1>1, PTL

(* With one post per minute of the window at most, every tweet of a batch  *)
(* gets a time.                                                            *)
THEOREM AllTimed == SlotsSpec => []EveryTweetTimed
<1>1. SlotsInv => EveryTweetTimed
  BY DEF SlotsInv
<1> QED
  BY SlotsInvariance, <1>1, PTL

-----------------------------------------------------------------------------
HIDE TimesAssumption

(* What is known of a tweet that was generated, and of a text that was     *)
(* accepted.                                                               *)
Generated(t) ==
  /\ t.sample \in Samples /\ t.event \in Nat /\ t.length \in 1..Limit
  /\ ~TooSimilar(t.sample, recent)

TextTypes ==
  /\ lines \in Seq(Line)
  /\ next \in Nat \ {0} /\ replies \in Seq(Samples)
  /\ \A t \in stored : Generated(t)

(* A batch is answered before anything is stored, and is worked through in *)
(* order.                                                                  *)
InOrder ==
  /\ lines = <<>> /\ replies = <<>> => stored = {}
  /\ lines # <<>> => \A t \in stored : t.event < next

TextInv == TextTypes /\ InOrder /\ NumbersMatch /\ NoTwins

LEMMA FilterFits ==
  ASSUME NEW x \in Samples, Passes(TextOf(x))
  PROVE  FilteredLength(TextOf(x)) \in 1..Limit
<1> DEFINE t == TextOf(x)
<1>1. /\ t.length \in Nat /\ t.space \in -1..279 /\ t.kept \in Nat
      /\ t.kept <= t.length
  BY TextAssumption DEF Text
<1>2. t.length > Limit \/ t.kept > 0
  BY DEF Passes
<1> HIDE DEF t
<1>3. FilteredLength(t) \in 1..Limit
  BY <1>1, <1>2 DEF FilteredLength, Truncated, Limit
<1> QED
  BY <1>3 DEF t

LEMMA StoredTweet ==
  ASSUME NEW e \in Nat, NEW x \in Samples, Passes(TextOf(x))
  PROVE  /\ Tweet(e, x).sample = x /\ Tweet(e, x).event = e
         /\ Tweet(e, x).length \in 1..Limit
BY FilterFits DEF Tweet, Limit

LEMMA AcceptedText ==
  ASSUME NEW xs, NEW done, NEW x \in Acceptable(xs, done)
  PROVE  /\ x \in xs /\ Passes(TextOf(x)) /\ ~TooSimilar(x, recent)
         /\ \A u \in done : <<x, u.sample>> \notin Alike
<1>1. /\ x \in xs /\ Passes(TextOf(x))
      /\ \A y \in Seen(done) : <<x, y>> \notin Alike
  BY DEF Acceptable, TooSimilar
<1>2. \A y \in recent : y \in Seen(done)
  BY DEF Seen
<1>3. \A u \in done : u.sample \in Seen(done)
  BY DEF Seen
<1> QED
  BY <1>1, <1>2, <1>3 DEF TooSimilar

(* A captured text is that of a line with the number, or of the line after *)
(* an empty item with it.                                                  *)
LEMMA ParsedLine ==
  ASSUME NEW answer \in Seq(Line), NEW i, NEW x \in ParseBatch(answer, i)
  PROVE  /\ x \in Samples
         /\ \E k \in DOMAIN answer :
              /\ answer[k].number = i
              /\ \/ answer[k].text = x
                 \/ /\ EmptyItem(answer, k) /\ k + 1 \in DOMAIN answer
                    /\ WholeLine(answer[k + 1]) = x
<1>1. PICK k \in DOMAIN answer : answer[k].number = i /\ x \in Captured(answer, k)
  BY DEF ParseBatch
<1>2. /\ k \in 1..Len(answer) /\ Len(answer) \in Nat
      /\ \A m \in 1..Len(answer) : answer[m] \in Line
  <2> HIDE DEF Line
  <2> QED OBVIOUS
<1>3. \A l \in Line : /\ l.text \in Samples \cup {NoText}
                      /\ l.number = 0 => l.text # NoText
  BY DEF Line, Blank
<1>4. \A l \in Line : WholeLine(l) \in Samples
  BY <1>3, TextAssumption DEF WholeLine
<1>5. CASE EmptyItem(answer, k) /\ k < Len(answer)
  <2>1. x = WholeLine(answer[k + 1]) /\ k + 1 \in DOMAIN answer
    BY <1>1, <1>2, <1>5 DEF Captured
  <2> QED
    BY <1>1, <1>2, <1>4, <1>5, <2>1
<1>6. CASE ~(EmptyItem(answer, k) /\ k < Len(answer))
  <2>1. x = answer[k].text /\ x # NoText
    BY <1>1, <1>6 DEF Captured
  <2> QED
    BY <1>1, <1>2, <1>3, <2>1
<1> QED
  BY <1>5, <1>6

LEMMA TextStep ==
  ASSUME TextInv, [TextNext]_textVars
  PROVE  TextInv'
<1> USE DEF TextInv
<1>1. CASE AnswerBatch
  <2>1. PICK n \in 1..MaxLines : lines' \in [1..n -> Line]
    BY <1>1 DEF AnswerBatch
  <2>2. n \in Nat
    BY <2>1, TextAssumption
  <2>3. lines' \in Seq(Line)
    <3> HIDE DEF Line
    <3> QED
      BY <2>1, <2>2
  <2>4. stored' = {} /\ UNCHANGED <<next, replies, recent>>
    BY <1>1 DEF AnswerBatch, InOrder
  <2> QED
    BY <2>3, <2>4 DEF TextTypes, InOrder, NumbersMatch, NoTwins
<1>2. CASE GenerateTweetsBatch
  <2> DEFINE texts == Acceptable(ParseBatch(lines, next), stored)
  <2>1. /\ lines # <<>> /\ UNCHANGED <<lines, replies, recent>>
        /\ next' = next + 1 /\ next \in Nat \ {0}
        /\ stored' = stored \cup {Tweet(next, x) : x \in texts}
    BY <1>2 DEF GenerateTweetsBatch, TextTypes
  <2>2. ASSUME NEW x \in texts
        PROVE  /\ \E k \in DOMAIN lines :
                    /\ lines[k].number = next
                    /\ \/ lines[k].text = x
                       \/ /\ EmptyItem(lines, k) /\ k + 1 \in DOMAIN lines
                          /\ WholeLine(lines[k + 1]) = x
               /\ x \in Samples /\ ~TooSimilar(x, recent)
               /\ \A u \in stored : <<x, u.sample>> \notin Alike
               /\ Tweet(next, x).sample = x /\ Tweet(next, x).event = next
               /\ Tweet(next, x).length \in 1..Limit
    <3>1. /\ x \in ParseBatch(lines, next) /\ Passes(TextOf(x))
          /\ ~TooSimilar(x, recent)
          /\ \A u \in stored : <<x, u.sample>> \notin Alike
      BY <2>2, AcceptedText
    <3>2. lines \in Seq(Line)
      BY DEF TextTypes
    <3> QED
      BY <2>1, <3>1, <3>2, ParsedLine, StoredTweet
  <2> HIDE DEF texts
  <2>3. ASSUME NEW t \in stored'
        PROVE  t \in stored \/ \E x \in texts : t = Tweet(next, x)
    BY <2>1, <2>3
  <2>4. TextTypes'
    <3>1. ASSUME NEW t \in stored' PROVE Generated(t)
      BY <2>1, <2>2, <2>3, <3>1 DEF Generated, TextTypes
    <3>2. \A t \in stored' : Generated(t)'
      BY <2>1, <3>1 DEF Generated, TooSimilar
    <3> QED
      BY <2>1, <3>2 DEF TextTypes
  <2>5. InOrder'
    <3>1. ASSUME NEW t \in stored' PROVE t.event < next + 1
      BY <2>1, <2>2, <2>3, <3>1 DEF TextTypes, InOrder, Generated
    <3> QED
      BY <2>1, <3>1 DEF InOrder
  <2>6. NumbersMatch'
    <3>1. ASSUME NEW t \in stored'
          PROVE  \E k \in DOMAIN lines :
                   /\ lines[k].number = t.event
                   /\ \/ lines[k].text = t.sample
                      \/ /\ EmptyItem(lines, k) /\ k + 1 \in DOMAIN lines
                         /\ WholeLine(lines[k + 1]) = t.sample
      BY <2>1, <2>2, <2>3, <3>1 DEF NumbersMatch
    <3> QED
      BY <2>1, <3>1 DEF NumbersMatch, EmptyItem
  <2>7. NoTwins'
    <3>1. ASSUME NEW t \in stored' PROVE ~TooSimilar(t.sample, recent)
      BY <2>2, <2>3, <3>1 DEF NoTwins
    <3>2. ASSUME NEW t \in stored', NEW u \in stored', u.event < t.event
          PROVE  <<t.sample, u.sample>> \notin Alike
      <4>1. u \in stored
        <5>1. \A w \in stored : w.event \in Nat /\ w.event < next
          BY <2>1 DEF InOrder, TextTypes, Generated
        <5>2. ASSUME NEW y \in texts, u = Tweet(next, y) PROVE FALSE
          BY <2>1, <2>2, <2>3, <3>2, <5>1, <5>2
        <5> QED
          BY <2>3, <5>2
      <4>2. CASE t \in stored
        BY <3>2, <4>1, <4>2 DEF NoTwins
      <4>3. ASSUME NEW x \in texts, t = Tweet(next, x)
            PROVE  <<t.sample, u.sample>> \notin Alike
        BY <2>2, <4>1, <4>3
      <4> QED
        BY <2>3, <4>2, <4>3
    <3> QED
      BY <2>1, <3>1, <3>2 DEF NoTwins, TooSimilar
  <2> QED
    BY <2>4, <2>5, <2>6, <2>7
<1>3. CASE GenerateTweet
  <2>1. PICK x \in Samples :
          /\ replies' = Append(replies, x)
          /\ stored' = {Tweet(1, y) : y \in Acceptable({x}, {})}
    BY <1>3 DEF GenerateTweet
  <2>2. lines = <<>> /\ UNCHANGED <<lines, next, recent>>
    BY <1>3 DEF GenerateTweet
  <2>3. replies' \in Seq(Samples) /\ replies' # <<>>
    BY <2>1 DEF TextTypes
  <2>4. ASSUME NEW t \in stored' PROVE Generated(t) /\ t.event = 1
    <3>1. PICK y \in Acceptable({x}, {}) : t = Tweet(1, y)
      BY <2>1, <2>4
    <3>2. y \in Samples /\ Passes(TextOf(y)) /\ ~TooSimilar(y, recent)
      BY <3>1, AcceptedText
    <3> QED
      BY <3>1, <3>2, StoredTweet DEF Generated
  <2>5. \A t \in stored' : Generated(t)'
    BY <2>2, <2>4 DEF Generated, TooSimilar
  <2>6. TextTypes' /\ InOrder' /\ NumbersMatch'
    BY <2>2, <2>3, <2>5 DEF TextTypes, InOrder, NumbersMatch
  <2>7. NoTwins'
    BY <2>4, <2>5 DEF NoTwins, Generated
  <2> QED
    BY <2>6, <2>7
<1>4. CASE UNCHANGED textVars
  BY <1>4 DEF textVars, TextTypes, Generated, InOrder, NumbersMatch, NoTwins,
              TooSimilar
<1> QED
  BY <1>1, <1>2, <1>3, <1>4 DEF TextNext

LEMMA TextInitInv == TextInit => TextInv
BY DEF TextInit, TextInv, TextTypes, InOrder, NumbersMatch, NoTwins

THEOREM TextInvariance == TextSpec => []TextInv
BY TextInitInv, TextStep, PTL DEF TextSpec

(* Every generated text fits a post on X, shortened or not.                *)
THEOREM TextsFit == TextSpec => []GeneratedFits
<1>1. TextInv => GeneratedFits
  BY DEF TextInv, TextTypes, Generated, GeneratedFits
<1> QED
  BY TextInvariance, <1>1, PTL

(* A text is stored for the event whose number it carried, or that of the   *)
(* empty item before it.                                                   *)
THEOREM TextsOfTheirEvents == TextSpec => []NumbersMatch
<1>1. TextInv => NumbersMatch
  BY DEF TextInv
<1> QED
  BY TextInvariance, <1>1, PTL

(* No two tweets of a batch are alike, nor one and the last tweet.         *)
THEOREM NoTwinTexts == TextSpec => []NoTwins
<1>1. TextInv => NoTwins
  BY DEF TextInv
<1> QED
  BY TextInvariance, <1>1, PTL

-----------------------------------------------------------------------------
(* Outside Wikipedia, the id of an item carries the key of its story.      *)
IdsCarryStory ==
  \A e \in events :
    /\ e.feed \in FeedsOf(adapter)
    /\ \/ e.feed = "wikipedia" /\ e.id[1] = "wiki"
       \/ /\ e.feed # "wikipedia" /\ e.id[1] # "wiki"
          /\ e.id[2] = Key(e.feed, e.story)
    /\ \/ adapter = "sports" \/ e.feed = "wikipedia"
       \/ e.id = <<adapter, Key(e.feed, e.story), e.id[3]>>

(* externalId is unique.                                                   *)
IdsUnique == \A d, e \in events : d.id = e.id => d = e

AdaptersInv ==
  /\ adapter \in {"rss", "sports", "trending", "news", "crypto"}
  /\ \A fs \in reached : fs[1] \in FeedsOf(adapter)
  /\ IdsCarryStory /\ IdsUnique /\ AnsweredIsStored

(* The feeds of an adapter, but for Wikipedia, have one kind of key.       *)
LEMMA OneKindOfKey ==
  ASSUME adapter \in {"rss", "sports", "trending", "news", "crypto"},
         NEW f \in FeedsOf(adapter), NEW g \in FeedsOf(adapter), NEW s,
         f # "wikipedia", g # "wikipedia"
  PROVE  Key(f, s) = Key(g, s)
BY DEF FeedsOf, Key

(* What an adapter makes of the item at a place of one of its feeds.       *)
LEMMA ItemId ==
  ASSUME adapter \in {"rss", "sports", "trending", "news", "crypto"},
         NEW f \in FeedsOf(adapter), NEW i
  PROVE  /\ f = "wikipedia" => ExternalId(f, i) = <<"wiki", i, period>>
         /\ f # "wikipedia" => /\ ExternalId(f, i)[1] # "wiki"
                               /\ ExternalId(f, i)[2] = Key(f, feedPage[f][i])
         /\ adapter # "sports" /\ f # "wikipedia" =>
              ExternalId(f, i) =
                <<adapter, Key(f, feedPage[f][i]), ExternalId(f, i)[3]>>
BY DEF FeedsOf, ExternalId

LEMMA AdaptersInitInv == AdaptersInit => AdaptersInv
BY DEF AdaptersInit, AdaptersInv, IdsCarryStory, IdsUnique, AnsweredIsStored

(* An item that is reached and not stored itself has an id that is stored, *)
(* and the id carries the key of the story.                                *)
LEMMA AdaptersStep == AdaptersInv /\ [AdaptersNext]_adapterVars => AdaptersInv'
<1> SUFFICES ASSUME AdaptersInv, [AdaptersNext]_adapterVars PROVE AdaptersInv'
  OBVIOUS
<1> USE DEF AdaptersInv
<1>1. CASE UNCHANGED <<adapter, events, reached>>
  BY <1>1 DEF IdsCarryStory, IdsUnique, AnsweredIsStored, Key
<1>2. CASE Ingest
  <2> DEFINE answered(ok) == UNION {Items(f) : f \in ok}
             row(e) == [id |-> e.id, story |-> e.story, feed |-> e.feed]
  <2>1. PICK ok \in SUBSET FeedsOf(adapter) :
          LET new == New(Reached(answered(ok))) IN
          /\ \E first \in SUBSET new :
               /\ \A e \in new : \E d \in first : d.id = e.id
               /\ \A d, e \in first : d.id = e.id => d = e
               /\ events' = events \cup {row(e) : e \in first}
          /\ reached' = reached \cup
               {<<e.feed, e.story>> : e \in Reached(answered(ok))}
    BY <1>2 DEF Ingest, Fetched
  <2> DEFINE new == New(Reached(answered(ok)))
  <2>2. PICK first \in SUBSET new :
          /\ \A e \in new : \E d \in first : d.id = e.id
          /\ \A d, e \in first : d.id = e.id => d = e
          /\ events' = events \cup {row(e) : e \in first}
    BY <2>1
  <2>3. adapter' = adapter /\ (\A f, s : Key(f, s)' = Key(f, s))
    BY <1>2 DEF Ingest, Key
  <2>4. ASSUME NEW e \in Reached(answered(ok))
        PROVE  \E f \in FeedsOf(adapter) : \E i \in Taken(f) :
                 e = [id |-> ExternalId(f, i), story |-> feedPage[f][i], feed |-> f,
                      place |-> i]
    BY <2>4 DEF Reached, Items
  <2>5. ASSUME NEW e \in Reached(answered(ok))
        PROVE  /\ e.feed \in FeedsOf(adapter)
               /\ \/ e.feed = "wikipedia" /\ e.id[1] = "wiki"
                  \/ /\ e.feed # "wikipedia" /\ e.id[1] # "wiki"
                     /\ e.id[2] = Key(e.feed, e.story)
               /\ \/ adapter = "sports" \/ e.feed = "wikipedia"
                  \/ e.id = <<adapter, Key(e.feed, e.story), e.id[3]>>
    <3>0. PICK f \in FeedsOf(adapter) : \E i \in Taken(f) :
            e = [id |-> ExternalId(f, i), story |-> feedPage[f][i], feed |-> f,
                 place |-> i]
      BY <2>4, <2>5
    <3>1. PICK i \in Taken(f) :
            e = [id |-> ExternalId(f, i), story |-> feedPage[f][i], feed |-> f,
                 place |-> i]
      BY <3>0
    <3> QED
      BY <3>1, ItemId
  <2>6. \A e \in first : e \in Reached(answered(ok))
    BY <2>2 DEF New
  <2>7. IdsCarryStory'
    <3> SUFFICES ASSUME NEW e \in events'
                 PROVE  /\ e.feed \in FeedsOf(adapter)
                        /\ \/ e.feed = "wikipedia" /\ e.id[1] = "wiki"
                           \/ /\ e.feed # "wikipedia" /\ e.id[1] # "wiki"
                              /\ e.id[2] = Key(e.feed, e.story)
                        /\ \/ adapter = "sports" \/ e.feed = "wikipedia"
                           \/ e.id = <<adapter, Key(e.feed, e.story), e.id[3]>>
      BY <2>3 DEF IdsCarryStory
    <3>1. CASE e \in events
      BY <3>1 DEF IdsCarryStory
    <3>2. ASSUME NEW d \in first, e = row(d)
          PROVE  /\ e.feed = d.feed /\ e.id = d.id /\ e.story = d.story
                 /\ d \in Reached(answered(ok))
      BY <2>6, <3>2
    <3>3. e \in events \/ \E d \in first : e = row(d)
      BY <2>2
    <3>4. CASE \E d \in first : e = row(d)
      <4>1. PICK d \in first : e = row(d)
        BY <3>4
      <4>2. d \in Reached(answered(ok))
        BY <2>6
      <4>3. /\ d.feed \in FeedsOf(adapter)
            /\ \/ d.feed = "wikipedia" /\ d.id[1] = "wiki"
               \/ /\ d.feed # "wikipedia" /\ d.id[1] # "wiki"
                  /\ d.id[2] = Key(d.feed, d.story)
            /\ \/ adapter = "sports" \/ d.feed = "wikipedia"
               \/ d.id = <<adapter, Key(d.feed, d.story), d.id[3]>>
        BY <2>5, <4>2
      <4> QED
        BY <3>2, <4>1, <4>3
    <3> QED
      BY <3>1, <3>3, <3>4
  <2>8. IdsUnique'
    <3>1. ASSUME NEW d \in first PROVE row(d).id = d.id /\ \A e \in events : e.id # d.id
      BY <2>2, <3>1 DEF New
    <3>2. ASSUME NEW d \in events', NEW e \in events', d.id = e.id PROVE d = e
      <4>1. d \in events \/ \E c \in first : d = row(c)
        BY <2>2
      <4>2. e \in events \/ \E c \in first : e = row(c)
        BY <2>2
      <4>3. CASE d \in events /\ e \in events
        BY <3>2, <4>3 DEF IdsUnique
      <4>4. ASSUME NEW c \in first, d = row(c), NEW k \in first, e = row(k)
            PROVE  d = e
        <5>1. c.id = k.id
          BY <3>2, <4>4
        <5>2. c = k
          BY <2>2, <5>1
        <5> QED
          BY <4>4, <5>2
      <4>5. ASSUME NEW c \in first, d = row(c), e \in events PROVE FALSE
        BY <3>1, <3>2, <4>5
      <4>6. ASSUME NEW c \in first, e = row(c), d \in events PROVE FALSE
        BY <3>1, <3>2, <4>6
      <4> HIDE DEF row
      <4> QED
        BY <4>1, <4>2, <4>3, <4>4, <4>5, <4>6
    <3> QED
      BY <3>2 DEF IdsUnique
  <2>9. /\ \A fs \in reached' : fs[1] \in FeedsOf(adapter')
        /\ AnsweredIsStored'
    <3>1. ASSUME NEW item \in Reached(answered(ok)), item.feed # "wikipedia"
          PROVE  \E e \in events' :
                   e.feed # "wikipedia" /\ Key(item.feed, e.story) = Key(item.feed, item.story)
      <4>1. PICK e \in events' : e.id = item.id
        <5>1. CASE item \in new
          <6>1. PICK d \in first : d.id = item.id
            BY <2>2, <5>1
          <6>2. row(d) \in events' /\ row(d).id = d.id
            BY <2>2
          <6> HIDE DEF row
          <6> QED
            BY <6>1, <6>2
        <5>2. CASE item \notin new
          BY <2>2, <5>2 DEF New
        <5> QED
          BY <5>1, <5>2
      <4>2. /\ item.feed \in FeedsOf(adapter) /\ item.id[1] # "wiki"
            /\ item.id[2] = Key(item.feed, item.story)
        BY <2>5, <3>1
      <4>3. /\ e.feed \in FeedsOf(adapter) /\ e.feed # "wikipedia"
            /\ e.id[2] = Key(e.feed, e.story)
        BY <2>3, <2>7, <4>1, <4>2 DEF IdsCarryStory
      <4>4. Key(item.feed, e.story) = Key(e.feed, e.story)
        BY <3>1, <4>2, <4>3, OneKindOfKey
      <4> QED
        BY <4>1, <4>2, <4>3, <4>4
    <3>2. ASSUME NEW fs \in reached'
          PROVE  /\ fs[1] \in FeedsOf(adapter)
                 /\ \/ fs[1] = "wikipedia"
                    \/ \E e \in events' : /\ e.feed # "wikipedia"
                                          /\ Key(fs[1], e.story) = Key(fs[1], fs[2])
      <4>1. CASE fs \in reached
        BY <2>2, <4>1 DEF AnsweredIsStored
      <4>2. CASE fs \notin reached
        <5>1. PICK item \in Reached(answered(ok)) : fs = <<item.feed, item.story>>
          BY <2>1, <3>2, <4>2
        <5> QED
          BY <2>5, <3>1, <5>1
      <4> QED
        BY <4>1, <4>2
    <3> QED
      BY <2>3, <3>2 DEF AnsweredIsStored
  <2> QED
    BY <2>3, <2>7, <2>8, <2>9
<1> QED
  BY <1>1, <1>2 DEF AdaptersNext, adapterVars, Appears, Midnight

(* The inductive invariant holds in every reachable state.                 *)
THEOREM AdaptersInvariance == AdaptersSpec => []AdaptersInv
BY AdaptersInitInv, AdaptersStep, PTL DEF AdaptersSpec

(* A story that a feed has answered with becomes an event, whichever other *)
(* feeds have failed and whatever was stored before, but for a story of    *)
(* its slug or hash, and items with invalid dates before it.               *)
THEOREM NoStoryLost == AdaptersSpec => []AnsweredIsStored
<1>1. AdaptersInv => AnsweredIsStored
  BY DEF AdaptersInv
<1> QED
  BY AdaptersInvariance, <1>1, PTL

(* It becomes one event, in however many feeds and ticks it is seen.       *)
THEOREM OneEventPerStory == AdaptersSpec => []StoredOnce
<1>1. AdaptersInv => StoredOnce
  BY OneKindOfKey DEF AdaptersInv, IdsCarryStory, IdsUnique, StoredOnce
<1> QED
  BY AdaptersInvariance, <1>1, PTL
=============================================================================
