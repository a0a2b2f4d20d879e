--------------------------- MODULE SourceAdapters ---------------------------
(***************************************************************************)
(* What the adapters make of the pages they fetch: which items become      *)
(* events, and under which externalId.  The ingestion stores an event only *)
(* if its externalId is new, so the id decides whether a story is stored   *)
(* once, twice or never.  The comparison of titles, ingestions that fail   *)
(* and what happens to an event afterwards are subjects of EventPipeline:  *)
(* the titles of two stories are not alike here.                           *)
(*                                                                         *)
(* One adapter is looked at: its feeds, what is published in them, and the *)
(* ingestion jobs that run fetchEvents again and again.                    *)
(***************************************************************************)
EXTENDS Naturals, Sequences

CONSTANTS
  Stories,    \* what is reported: an item with its guid, link and title
  Slug,       \* letters and digits of the guid or title, cut at 80 or 50
  Hash,       \* the 32 bits a guid or link is hashed to
  Undated,    \* stories whose date cannot be parsed
  ItemLimit,      \* items taken from a page: 20 of RSS, 25 of sports, 15 of Wikipedia
  PageLength, \* items a page holds
  MaxPeriod   \* bound: days (hours for coins) that pass

(* Two stories may have one slug (titles without Latin letters have none), *)
(* or one hash.                                                            *)
ASSUME StoriesAssumption ==
  DOMAIN Slug = Stories /\ DOMAIN Hash = Stories /\ Undated \subseteq Stories

VARIABLES
  adapter, \* the adapter, by its source
  feedPage,    \* what each of its feeds shows, the latest story first
  period,  \* the day, or hour, of the clock
  events,  \* rows of events: the id and the story that came with it first
  reached  \* observer: <<feed, story>> that an ingestion has come to

adapterVars == <<adapter, feedPage, period, events, reached>>

FeedsOf(a) ==
  CASE a = "rss" -> {"feed1", "feed2"}
    [] a = "sports" -> {"cricbuzz", "espncricinfo"}
    [] a = "trending" -> {"google", "wikipedia"}
    [] a = "news" -> {"newsapi"}
    [] a = "crypto" -> {"coingecko"}

AdaptersInit ==
  /\ adapter \in {"rss", "sports", "trending", "news", "crypto"}
  /\ feedPage = [f \in FeedsOf(adapter) |-> <<>>]
  /\ period = 0
  /\ events = {} /\ reached = {}

(* A story comes to the top of a feed, anew or because it was updated.     *)
Appears(f) ==
  /\ \E s \in Stories :
       LET others == SelectSeq(feedPage[f], LAMBDA t : t # s) IN
       feedPage' = [feedPage EXCEPT ![f] = SubSeq(<<s>> \o others, 1,
                  IF Len(others) < PageLength THEN Len(others) + 1 ELSE PageLength)]
  /\ UNCHANGED <<adapter, period, events, reached>>

Midnight ==
  /\ period < MaxPeriod
  /\ period' = period + 1
  /\ UNCHANGED <<adapter, feedPage, events, reached>>

(* The items that are taken.  A page of coins or of headlines is taken as  *)
(* a whole.                                                                *)
Taken(f) == {i \in DOMAIN feedPage[f] : f \in {"newsapi", "coingecko"} \/ i <= ItemLimit}

(* What the id of an item says of its story.  Two stories of one key are   *)
(* one to the adapter.                                                     *)
Key(f, s) ==
  IF f = "coingecko" THEN s
  ELSE IF adapter = "sports" \/ f = "google" THEN Slug[s] ELSE Hash[s]

(* Mutant of ExternalId: with the name of the feed, as in the sports feeds.*)
ExternalIdOfFeed(f, i) == <<f, Key(f, feedPage[f][i]), 0>>

(* rss and news hash the guid or link; sports puts the name of the feed    *)
(* before the slug of it; a trend is one per slug and day, a coin one per  *)
(* hour; an item of Wikipedia is known by its place on the page of the day.*)
ExternalId(f, i) ==
  CASE adapter = "sports" -> <<f, Key(f, feedPage[f][i]), 0>>
    [] f \in {"google", "coingecko"} -> <<adapter, Key(f, feedPage[f][i]), period>>
    [] f = "wikipedia" -> <<"wiki", i, period>>
    [] OTHER -> <<adapter, Key(f, feedPage[f][i]), 0>>

Items(f) == {[id |-> ExternalId(f, i), story |-> feedPage[f][i], feed |-> f, place |-> i] :
               i \in Taken(f)}

(* Mutant of Fetched: one error is the error of the whole tick.            *)
FetchedTogether(ok) == IF ok = FeedsOf(adapter) THEN UNION {Items(f) : f \in ok} ELSE {}

(* rss catches the error of each feed, sports and trending settle all of   *)
(* them; an error, a status or a timeout of a feed leaves the others.      *)
Fetched(ok) == UNION {Items(f) : f \in ok}

(* The items of a tick are taken one by one, feed after feed.              *)
Before(d, e) ==
  IF d.feed = e.feed THEN d.place < e.place
  ELSE e.feed \in {"feed2", "espncricinfo", "wikipedia"}

New(items) == {e \in items : \A old \in events : old.id # e.id}

(* The create of an item with an invalid date throws.  Pages of coins and  *)
(* of Wikipedia have no dates of their own.                                *)
Throws(items, e) ==
  /\ e \in New(items)
  /\ e.story \in Undated /\ e.feed \notin {"wikipedia", "coingecko"}
  /\ ~\E d \in items : Before(d, e) /\ d.id = e.id

(* That ends the job, and every later one while the item is on the page:   *)
(* neither it nor what comes behind it is stored.                          *)
Reached(items) ==
  {e \in items : ~\E d \in items : Throws(items, d) /\ (d = e \/ Before(d, e))}

(* Of the items with one id the row keeps the first, unless there is one   *)
(* before.                                                                 *)
Ingest ==
  \E ok \in SUBSET FeedsOf(adapter) :
    LET new == New(Reached(Fetched(ok))) IN
    /\ \E first \in SUBSET new :
         /\ \A e \in new : \E d \in first : d.id = e.id /\ (d = e \/ Before(d, e))
         /\ \A d, e \in first : d.id = e.id => d = e
         /\ events' = events \cup {[id |-> e.id, story |-> e.story, feed |-> e.feed] :
                                    e \in first}
    /\ reached' = reached \cup
         {<<e.feed, e.story>> : e \in Reached(UNION {Items(f) : f \in ok})}
    /\ UNCHANGED <<adapter, feedPage, period>>

AdaptersNext ==
  \/ \E f \in FeedsOf(adapter) : Appears(f)
  \/ Midnight
  \/ Ingest

AdaptersSpec == AdaptersInit /\ [][AdaptersNext]_adapterVars

-----------------------------------------------------------------------------
(* Whatever else fails in its tick, a story that a feed has answered with, *)
(* with no invalid date before it or of its own, becomes an event, unless  *)
(* one of the same slug or hash has.  Not on Wikipedia: there a story that *)
(* takes the place of another one is not stored, as the id of the place is *)
(* known.                                                                  *)
AnsweredIsStored ==
  \A fs \in reached :
    \/ fs[1] = "wikipedia"
    \/ \E e \in events : e.feed # "wikipedia" /\ Key(fs[1], e.story) = Key(fs[1], fs[2])

(* A story that is in two RSS feeds, stays on the page for many ticks, or  *)
(* changes its place, is one event (one per day, or hour, for trends and   *)
(* coins).  Not for the sports feeds, nor for Wikipedia.                   *)
StoredOnce ==
  \A d, e \in events :
    \/ d = e \/ d.story # e.story \/ d.id[3] # e.id[3]
    \/ adapter = "sports" \/ d.feed = "wikipedia" \/ e.feed = "wikipedia"
=============================================================================
