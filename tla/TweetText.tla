----------------------------- MODULE TweetText ------------------------------
(***************************************************************************)
(* From the answer of the model to the text of a tweet: the texts of a     *)
(* batch are found by their numbers, cleaned, filtered (ContentFilter-     *)
(* Service) and compared with the recent tweets.  A text is known by what  *)
(* the filter asks of it.                                                  *)
(***************************************************************************)
EXTENDS Integers, Sequences

CONSTANTS
  Samples,     \* inputs: texts, see Text
  NoText,      \* "nothing follows the number of this line"
  WithNumber,  \* the text of a numbered line, taken together with its number
  Alike,       \* pairs of samples that share most of their word pairs
  BatchSize,   \* events of a batch
  MaxLines,    \* bound: lines of an answer that are not blank
  MaxRetries   \* MAX_GENERATION_RETRIES

(* length and space are those of the trimmed text: space is the position   *)
(* of the last space in its first 280 characters, -1 without one; kept is  *)
(* what is left of the length once links are removed.                      *)
Text == [id : Samples, length : Nat, space : -1..279, banned : BOOLEAN,
         mentions : Nat, hashtags : Nat, kept : Nat]

CONSTANT TextOf(_)

ASSUME TextAssumption ==
  /\ \A x \in Samples :
       /\ TextOf(x) \in Text /\ TextOf(x).id = x
       /\ TextOf(x).kept <= TextOf(x).length
  /\ Alike \subseteq Samples \X Samples
  /\ NoText \notin Samples
  /\ WithNumber \in [Samples \cup {NoText} -> Samples]
  /\ BatchSize \in Nat /\ MaxLines \in Nat /\ MaxRetries \in Nat

(* What is left of a line that is empty but for its number, with or        *)
(* without blanks after it.                                                *)
Blank(x) == x = NoText \/ TextOf(x).length = 0

(* A line begins with a number of the batch, with another one (BatchSize   *)
(* + 1), or with none (0).                                                 *)
Line == {l \in [number : 0..BatchSize + 1, text : Samples \cup {NoText}] :
           l.number = 0 => ~Blank(l.text)}

VARIABLES
  lines,    \* the lines of the answer to a batch that are not blank
  next,     \* the event of the batch that is handled next
  replies,  \* answers to a single event, one for each attempt
  recent,   \* the sample the last tweet of the bot was made from, if any
  stored    \* tweets that were created: event, sample and length

textVars == <<lines, next, replies, recent, stored>>

TextInit ==
  /\ lines = <<>> /\ next = 1 /\ replies = <<>> /\ stored = {}
  /\ recent \in {{}} \cup {{x} : x \in Samples}

Limit == 280

(* Mutant of Truncated: the ellipsis is not counted.                       *)
TruncatedLong(t) == IF t.space > 200 THEN t.space + 1 ELSE Limit + 1

(* At the last word boundary if it is not too early, and an ellipsis.      *)
Truncated(t) == IF t.space > 200 THEN t.space + 1 ELSE Limit

(* A text that is too long is shortened, and nothing else is asked of it.  *)
Passes(t) ==
  /\ t.length > 0
  /\ \/ t.length > Limit
     \/ ~t.banned /\ t.mentions <= 5 /\ t.hashtags <= 5 /\ t.kept > 0

FilteredLength(t) == IF t.length > Limit THEN Truncated(t) ELSE t.kept

TooSimilar(x, others) == \E y \in others : <<x, y>> \in Alike

(* A column of 500 characters; the service cuts at 350.                    *)
Tweet(event, x) == [event |-> event, sample |-> x,
                    length |-> IF FilteredLength(TextOf(x)) > 350 THEN 350
                               ELSE FilteredLength(TextOf(x))]

(* "1." and nothing more.                                                  *)
EmptyItem(answer, k) == answer[k].number > 0 /\ Blank(answer[k].text)

(* The blanks that the pattern skips after a number include the end of the *)
(* line: an empty item takes the next line, which is then not looked at    *)
(* itself.  In a run of empty items this hits every second line.           *)
Swallowed(answer, k) ==
  \E j \in 1..(k - 1) :
    /\ (k - j) % 2 = 1
    /\ \A i \in j..(k - 1) : EmptyItem(answer, i)
    /\ j > 1 => ~EmptyItem(answer, j - 1)

(* What a line is to an empty item before it.                              *)
WholeLine(line) == IF line.number = 0 THEN line.text ELSE WithNumber[line.text]

(* What the pattern captures at line k: at the last line of an answer      *)
(* blanks, if it has nothing else, and nothing, if it has not even those.  *)
Captured(answer, k) ==
  IF EmptyItem(answer, k) /\ k < Len(answer)
  THEN {WholeLine(answer[k + 1])} ELSE {answer[k].text} \ {NoText}

(* Mutant of ParseBatch: texts by their order in the answer.               *)
ParseBatchInOrder(answer, i) == IF i <= Len(answer) THEN Captured(answer, i) ELSE {}

(* The text of event i is the last match with its number, if there is one. *)
ParseBatch(answer, i) ==
  LET matches == {k \in DOMAIN answer : /\ answer[k].number = i
                                       /\ ~Swallowed(answer, k)
                                       /\ Captured(answer, k) # {}}
  IN UNION {Captured(answer, k) : k \in {m \in matches : \A l \in matches : l <= m}}

(* Mutant of Seen: texts of this batch are not compared with.              *)
SeenBefore(done) == recent

(* The texts a new one is compared with grow with the batch.               *)
Seen(done) == recent \cup {t.sample : t \in done}

(* An event without an acceptable text is left out.                        *)
Acceptable(xs, done) == {x \in xs : Passes(TextOf(x)) /\ ~TooSimilar(x, Seen(done))}

AnswerBatch ==
  /\ lines = <<>> /\ replies = <<>>
  /\ \E n \in 1..MaxLines :
       lines' \in [1..n -> Line]
  /\ UNCHANGED <<next, replies, recent, stored>>

GenerateTweetsBatch ==
  /\ lines # <<>> /\ next <= BatchSize
  /\ next' = next + 1
  /\ stored' = stored \cup
       {Tweet(next, x) : x \in Acceptable(ParseBatch(lines, next), stored)}
  /\ UNCHANGED <<lines, replies, recent>>

(* One event: the model is asked again until a text is accepted; if none   *)
(* is, the job fails.                                                      *)
GenerateTweet ==
  /\ stored = {} /\ lines = <<>> /\ Len(replies) < MaxRetries
  /\ \E x \in Samples :
       /\ replies' = Append(replies, x)
       /\ stored' = {Tweet(1, y) : y \in Acceptable({x}, {})}
  /\ UNCHANGED <<lines, next, recent>>

TextNext == AnswerBatch \/ GenerateTweetsBatch \/ GenerateTweet

TextSpec == TextInit /\ [][TextNext]_textVars

-----------------------------------------------------------------------------
(* Every generated text fits a post on X, shortened or not.                *)
GeneratedFits == \A t \in stored : t.length \in 1..Limit

(* However the model numbers and orders its lines, a text is stored for    *)
(* the event whose number it carried; the exception is the line after an   *)
(* empty item, which goes with its own number to the event of that item.   *)
NumbersMatch ==
  lines # <<>> =>
    \A t \in stored : \E k \in DOMAIN lines :
      /\ lines[k].number = t.event
      /\ \/ lines[k].text = t.sample
         \/ /\ EmptyItem(lines, k) /\ k + 1 \in DOMAIN lines
            /\ WholeLine(lines[k + 1]) = t.sample

(* No two tweets of a batch are alike, nor one and the last tweet.         *)
NoTwins ==
  \A t \in stored :
    /\ ~TooSimilar(t.sample, recent)
    /\ \A u \in stored : u.event < t.event => <<t.sample, u.sample>> \notin Alike
=============================================================================
