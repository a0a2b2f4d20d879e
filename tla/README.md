# SmartX in TLA+

SmartX runs bots that turn feed events into tweets: adapters fetch events, Claude writes tweets
about them, owners approve them (or bots auto-approve), a scheduler queues them, workers post them
to X. The backend is a NestJS application on PostgreSQL (Prisma), Redis and BullMQ; the manifests
in `infra/k8s` run two replicas of it, so every handler runs beside copies of itself. This
directory models what these handlers do to the shared state, model-checks it with TLC, and proves
the most important results with TLAPS for every size of the system.

Run a model with `tlc -config <run>.cfg <MC module>`, check proofs with `tlapm <module>_proofs.tla`.

## Inventory

| Component (source under `src/backend/src`, unless said otherwise) | State it keeps | Operations | Interacts with |
|---|---|---|---|
| Tweets API (`tweets/`) | `tweets.status`, `tweets.content` | approve, schedule, post now, edit | scheduler, tweets page |
| Tweets page (frontend `dashboard/tweets`, `hooks/use-tweets`) | cached list, open dialog | edit, approve, schedule, post now, refetch | tweets API |
| Scheduler (`scheduler/scheduler.service.ts`) | `scheduled_tweets`, jobs of the queue *tweet-posting* | scheduleTweet, postImmediately, auto-schedule cron, recovery cron, slots of a day | tweets, queue |
| Queue administration (`queue-health`, `queue-admin`) | failed jobs | retry-failed, clean-failed, pause, resume | queue |
| Posting worker (`posting/`) | tweet, row, activity log | postTweet, markFailed | queue, limiter, X client, event cleanup |
| Posting rate limiter | one sorted set per account in Redis | canPost, record | posting worker |
| X client and X OAuth (`x-api-client`, `x-oauth/`) | `x_accounts` with encrypted tokens; OAuth states in memory | refresh, connect, disconnect, link | X, posting worker, bots |
| Source adapters (`events/adapters/`) | none; they decide the ids of events | fetchEvents of RSS, sports, trends, news, coins | feeds, ingestion |
| Event ingestion (`events/`) | `events`, jobs of the queue *event-processing* | ingest, deduplicate, fan out, forward, clean up | adapters, generation, posting |
| AI generation, content filter (`ai-generation/`) | `tweets` | single and batch generation, retries, filter | Claude, events |
| Bots (`bots/`, frontend `dashboard/bots`) | `bots`, `bot_topics`, subscriptions | create, update, delete, start, stop, subscribe to all | scheduler, generation |
| Authentication and mail (`auth/`) | `users`, `auth_tokens` | register, verify, forgot, reset, login, refresh | mail, frontend |
| Session (frontend `lib/api`, `stores/auth-store`, guard) | tokens in localStorage, a store per tab | requests, shared refresh, login, logout | authentication |
| Bot rate limiter | sorted sets that stay empty | canPost | scheduler |
| Users, analytics, health, configuration | one row each, or none | reads, single-row writes | frontend |

Hard behaviour: handlers that read, await and write what they read; calls whose answer is lost
after they took effect (X, both for posts and for tokens); jobs that are retried, taken back from
dead workers, and re-added under new names; crons that run in every replica; deletions that race
creations; tabs that share tokens; pages that act on what they have cached; a crash between any two
statements; intervals of zero minutes and texts at the limit. `PROJECT.json` lists the hazards at
their lines, with the properties that would catch them.

What makes the components correct:

* posting: only reviewed tweets are posted, success is claimed only for what X accepted, a job
  publishes once unless an attempt broke off after the post or the queue has forgotten that it
  completed, every job ends, nothing waits for ever;
* limiter: the number of posts per window is bounded, and by what, given that check and record are
  not atomic;
* slots and texts: no slot in the past, a batch fits the window it waits for, every tweet gets a
  time; a text fits a post, reaches the event it was written for, and has no twin;
* events: the number of duplicates (events of a story, tweets of an event) is bounded by the number
  of handlers in flight, as far as the look-up for duplicates reaches, a retried job never tweets
  twice, events reach every subscribed bot, jobs end and old events go; a bot tweets only about
  events that are there and that it was given, and only what is old or was posted is removed; what a
  feed has answered is stored, once, and is known by an id that tells stories apart;
* X accounts: the stored refresh token stays usable whatever races, and is never rolled back;
* bots: overlapping saves keep what the last one has sent, a created bot hears what it asked for;
* accounts: a link takes effect a bounded number of times, an address is verified by its links only;
* session: a logout is final, nobody is signed out by an interleaving, forms and spinners end;
* tweets page: what was posted is what the table says, unless the worker came first; a page comes to
  show what was written through it.

## Modules

| Module | What it is |
|---|---|
| `TweetDelivery` | abstract: what the owner is promised about one tweet (review, delivery, claim) |
| `TweetPosting` | tables, posting queue, API calls and crons, posting workers; implements `TweetDelivery` |
| `PostingRateLimiter` | the sliding window and the attempts that check it, post and record |
| `TimeSlots` | the times a batch of approved tweets gets |
| `TweetText` | from the answers of Claude to the texts that are stored |
| `EventLife` | abstract: what is promised about the events of the feeds (stored once at a time, given, tweeted, shared, removed) |
| `EventPipeline` | feeds, ingestion, fan-out, generation queue, generation, event deletion; implements `EventLife` |
| `SourceAdapters` | pages of feeds, the items taken from them, and the ids of the events |
| `TokenCustody` | abstract: what is promised about the refresh tokens of one X user (who has one, what is stored, what counts as lost) |
| `XAccounts` | the row of an X account, refreshing workers, connecting and disconnecting, X's token endpoint; implements `TokenCustody` |
| `BotAdmin` | the pages and requests that create, save, switch and delete one bot |
| `AuthLinks` | registration, verification and reset links, and the pages that use them |
| `WebSession` | tokens in the browser, tabs, the guard, and the endpoints that give out tokens |
| `TweetBoard` | the page of tweets, its cache and dialogs, the requests and the worker, for the text of one tweet |
| `MC...` | constants and symmetries of the small instances, and components side by side |
| `..._proofs` | inductive invariants and theorems |

The rule everywhere: **an action is what a handler does between two awaits** (one statement on a
table or a queue, with the checks in front of it). A variable such as `workerAt`, `callerAt`,
`generateAt`, `statement` or `at` names the statement that comes next; what a handler has read and
uses later is in variables of its own (`workerRow`, `todo`, `targets`, `workerToken`, `seenRows`,
`carried`), so that stale reads happen.

**Composition.** Components that share state are in one module: API calls, crons, queue and workers
in `TweetPosting`; ingestion, generation, cleanup and the deletion after a post in `EventPipeline`;
workers, user and X in `XAccounts`; tabs and endpoints in `WebSession`; page, API, scheduler and
worker in `TweetBoard`. Components that do not share state are checked side by side: `MCPosting`,
`MCAccounts` and `MCPages` have a variable `part`, and a behaviour is one of the component that
`part` names while the others rest, so that one run checks several of them at the cost of their sum
and not of their product. `MCEventSafety` does the same for three instances of `EventPipeline`;
`MCEventLiveness` restricts when its second ingestion starts.

### TweetPosting

`status`, `row` are the two tables, `jobState`, `attempts`, `stalled` the queue. A job is a pair of
a tweet and a name: `post` (`post-<tweet>`, deduplicated by BullMQ) or a timestamp
(`recover-<tweet>-<time>`, never recognised as a double). Callers are API calls and cron ticks:
`Approve`, `ScheduleAt`, `PostNow`, `AutoSchedule`, `Recover` start one with the read its guard is
about, `WriteApproved`, `Schedule*`, `Immediate*`, `Recover*` are its statements. Workers run
`Fetch`, `ReadTweet`, `SkipPosted`, `RateLimited`, `MarkProcessing`, `SendAccepted` / `SendLost` /
`SendRejected`, `RecordPost`, `CommitPosted`, `CompleteRow`, `Finish`, or the error paths
`MarkTweetFailed`, `MarkRowFailed`, `Retry`. `StatementThrows`, `LosePost`, `WorkerDies` and
`CallerDies` are the faults. `published`, `sent` and `lost` are observers that count what X has
accepted, and `forgotten` the posts of completed jobs the queue has removed: `postImmediately` removes
the job of a name and adds it again, whatever it did before, and when `ScheduleSetStatus` comes late
and writes "scheduled" over "posted", that posts the tweet again. Abstractions:

* waiting, delayed and paused jobs are all "waiting"; the clock is only `overdue` (scheduled more
  than five minutes ago, which is what the recovery cron asks);
* a batch of a cron is one caller per tweet: its tweets are read together and handled one by one;
* the limiter's answer is a choice here, and detailed in `PostingRateLimiter`; the daily limit of a
  bot always passes because nothing ever records against it; which times `AutoSchedule` gives is
  the subject of `TimeSlots`. Here it gets a time, no slot (an empty or reversed window: `scheduleTweet`
  throws on the missing date, `ScheduleThrows`), or an invalid date (an interval of zero: the row
  throws, with or without its job in the queue, `ScheduleInvalid`);
* a worker stalls only by dying (a live worker that loses its lock is not modelled);
* a rejection by X (duplicate content included) is one action, `SendRejected`; no X account linked
  is the path `ReadTweet` to `failTweet`;
* left out: the text of tweets (see `TweetBoard`), `cancelScheduledTweet` (nothing calls it), the
  deletion of bots.

### PostingRateLimiter

Each attempt checks (`Clean`, `Count`), posts and records; `zset`, `score` are Redis, `onX`,
`postedAt` what X has. Time is a counter; entries expire by score. `Slots` is the number of
attempts that run at once, the worker concurrency times the replicas.

### TimeSlots

One call of `autoScheduleForBot`, `AutoScheduleForBot`: the batch is the smaller of what is approved,
the frequency and what is left of the daily limit; `Interval`, `BaseTime` and `NextSlot` are the
arithmetic of `calculateTimeSlots`, in minutes of the day of the call (UTC, as in the code). `times`
are the rows written, `jobs` the jobs added: an interval of zero minutes makes the slots invalid
dates, whose job is added before its row throws (`ValidSlots`), and an empty window throws before
the first job. Left out: seconds, and batches that were planned before, which the code does not look
at either.

### TweetText

A text is a record of what the filter asks of it (`Text`): its length, its last space, forbidden
words, mentions, hashtags, what is left without links. `ParseBatch` is the pattern
`/^(\d+)[.)]\s*(.+)/gm` over the lines of an answer: the last match of a number counts, and since
`\s*` crosses the end of a line, an item without a text (`EmptyItem`) takes the whole next line, its
number included (`WholeLine`), which is then not matched itself (`Swallowed`).
`GenerateTweetsBatch` goes through the events of the batch and stores what passes the filter and is not too similar to what was stored
before (`Seen`); `GenerateTweet` asks again up to `MAX_GENERATION_RETRIES` times. `Truncated` is
the cut at a word boundary with an ellipsis. Which texts are alike is a constant relation (the
share of common word pairs), symmetric in the instance; what a text is together with the number of
its line is another constant (`WithNumber`). Left out: the words themselves, the prompt, and the
cleaning of quotes.

### EventPipeline

An item is an entry of a feed; stored, it is an event with a fresh key (`Copies` bounds how often).
An event is fresh for 24 hours (the window of the title comparison), then old (the age the cleanup
asks for); the oldest gets old first. `newer` has, for each fresh event, those that were stored after
it: the look-up for similar titles (`RecentEvents`) sees the fresh events of the item's category, and
of these the newest `Recent` (100 in the code). Ingestors run `StartIngestion`, `LookUp`, `CompareTitles`, `CreateEvent` /
`CreateThrows` (unique index, or an invalid date), `EndLoop`, `FanOut`; generators run `TakeJob`, `LoadEvents`,
`CheckTweeted`, `CreateTweet` / `SkipEvent`, `FinishJob` / `GenerationThrows`; deleters are the
daily cleanup and `deleteEventIfFullyProcessed` after a post. Abstractions: an ingestion job is
started by the cron at any time and a retry is a new start; subscriptions are constant; an adapter
answers with any subset of its items; which titles are similar, which category an item has and
which items have no valid date (`Undated`) are constants (an RSS entry that is listed in feeds of
two categories is in one of them here); the answer of Claude
and the verdict of the filter are choices; ids are constant (see `SourceAdapters`), and
texts are left out (see `TweetText`); a bot's tweets
are never more than the look-up of the generation reaches (48 hours, 100 tweets); reading the bots and
the event, and adding the jobs of a fan-out or of `forwardEvent`, are one action, where the code
awaits in between (subscriptions are constant, and the job checks its event again); posting is only "open, then posted or
failed"; retry-failed on this queue is left out.

`EventLife` sees the events table (`stage`), what was queued for each bot (`given`), what each bot
has tweets about (`drafted`) and what is on X (`shared`), and none of the handlers. Its steps are
guarded by what the handlers should have made sure of: an entry is stored while no event of it is
there, a tweet is about an event that is there and was queued for its bot, and an event goes because
it is old or was posted. The ingestors, generators and deleters of `EventPipeline` decide this
several statements before they write.

### SourceAdapters

One adapter, its feeds and their pages: `Appears` puts a story on top of a feed, `Midnight` lets a
day (an hour, for coins) pass, `Ingest` is a tick in which any feeds answer and the others fail.
`ExternalId` is the id an item gets: hash of guid or link, name of the feed and slug of the guid,
slug of the title and day, coin and hour, or, on Wikipedia, the place on the page. Slugs are cut at 80
or 50 characters and keep Latin letters and digits only, a hash has 32 bits: `Slug` and `Hash` give
each story a value that another one may have too (`Key`). Items are taken in the order of the page,
feed after feed (`Before`); one whose date cannot be parsed makes its create throw, which ends the job
at the same item on every tick (`Throws`), and only what comes before it is `Reached`. Feeds and what
they publish are external. Left out: parsing, categories, the filter of short lines, the comparison
of titles, and what happens to an event afterwards.

### XAccounts

One X user. `account` is the id of its row (deleting and reconnecting gives a new id, so a late
update of the old row throws), `access`, `refresh` its tokens. X's endpoint is external: it accepts
a refresh token once, replaces it (or lets it stand: the code handles an answer without one), and
may withdraw older tokens when the user authorizes again. `RefreshLost` and `SaveFails` are the
crashes around that answer; `lost` records them. Left out: owners, encryption, the in-memory states
of authorizations under way.

`TokenCustody` sees what X has given out, accepts, has replaced or withdrawn, what is stored, and
what the handlers carry: tokens they have read (`read`), tokens of new authorizations (`granted`),
and pairs of an exchanged token and its successor (`renewals`). It sees no rows, statements or
handlers. Its guards are what the handlers should have made sure of: only a token that was read from
the table is exchanged, a successor is stored only while the user is connected, a handler that drops
the successor of the stored token makes that token lost, and a bot is linked only while there is a
row. `Succeed` may replace a token that is not the predecessor: a save that comes after a
reconnection overwrites the new token, in the code too (the row keeps its id).

### BotAdmin

One bot of one user. Pages open a form, fill it and send it (`Create`, `SaveForm`, `Toggle`,
`HandleDelete`, `SubscribeAll`); `statement` is the next statement of each request. The transaction of an
update is modelled as PostgreSQL runs it under READ COMMITTED: `DeleteBegins` fixes the rows the
DELETE sees, the transaction waits for rows another one holds (`holder`, `RowFree`), and its writes
are seen by others when it commits. A form may be any older form with changes. `name` stands for the
columns every form sends, `persona` for those that may be empty (the X account of the form is another
one): the edit page leaves an empty one out of its request, so the update keeps the old value
(`PersonaKept`). Sources and categories are free text to the API, and the form offers sources that no
adapter has: a form may name any of `Pairs`, of which `Delivered` are those that events come with. A
bot that names none is subscribed to `Sources`, which are always listed, and to the pairs of the
events that are stored by then (any part of `Delivered`). The switch compares
with what it has read. `RequestDies` ends a request between two statements. Left out:
subscriptions in an update (no page sends them), the activity log.

### AuthLinks

The user of one address, rows of `auth_tokens`, the mailbox, and the pages that are open. A page has
one request at most; `at` is its next statement. A link is checked, the password is hashed, and then
link and password are written together: other pages run in between. `register` does not wait for its
verification link (`background`), and an error of it ends the process with the requests it handles.
Links expire. Left out: the text of mails, the throttling of requests.

### WebSession

`stored` is the entry of localStorage all tabs share, `store` the auth store of each tab, `call` the
calls of `request()` under way, each `bearer` the access token it was sent with, `refreshing` the one
refresh promise of a tab. A token is its state: good, stale (the access token has expired), dead
(the refresh token as well). `Unauthorized` is the 401 path: join or start a refresh, send once more,
then fail. A reload loses what the scripts of a tab waited for. `quiet` observes a logout while
nothing that could store tokens was under way. Assumption: a new access token outlives the call
that is sent right after it (15 minutes against one request).

### TweetBoard

The text of one tweet between the page that edits it, two API calls at a time, the scheduler and the
worker. A page acts on its cached list (`list`) or on the details it has opened (`snapshot`); a
successful mutation drops the answer of a fetch under way and fetches again (`Invalidate`). The row
and the status of `scheduleTweet` are one statement here (two in `TweetPosting`), jobs are only
"queued". `unseen`, `early`, `blind`, `overtaken` are observers. Left out: filters and several tweets
at once. With several, the success of an edit would close whatever edit dialog is open by then.

## Runs

| Run | Module | Shows |
|---|---|---|
| `PostingWorkers` | MCPosting | posting: `TypeOK`, `NoUnreviewedPost`, `NoFalseSuccess`, `JobPublishesOnce`, `PendingOnlyOnce`, refinement `DeliveryRefined`; limiter: `XOvershootBounded`; slots: `SlotsAhead`, `ClosedWindowFits`, `EveryTweetTimed`; texts: `GeneratedFits`, `NumbersMatch`, `NoTwins` |
| `PostingLiveness` | MCTweetPosting | every posting job ends (`JobsEnd`, queue fairness only); `PendingRowsHandled`, `ApprovedGetsScheduled` (cron fairness only) |
| `PostingTwice` | MCTweetPosting | violation: a tweet is published twice |
| `PostingStuck` | MCTweetPosting | violation: a tweet stays scheduled for ever |
| `SlotsInWindow` | TimeSlots | violation: a slot after the end of the active hours |
| `EventSafety` | MCEventSafety | `TypeOK`, `SimilarBounded` (ingestion), `DuplicatesBounded` (generation), refinement `EventLifeRefined` (both) |
| `EventLiveness` | MCEventLiveness | `JobTweetsOnce`, `GenerationEnds`, `OldEventsGo` |
| `EventFanOutLost` | MCEventPipeline | violation: an event is never fanned out |
| `XTokens` | MCAccounts | tokens: `StoredTokenAccounted`, `NeverRollsBack`; a bot: `LastSaveKept`, `TopicsBounded`, `CreatedIsSubscribed`; refinement `CustodyRefined` (tokens) |
| `XRefreshRace` | MCXAccounts | violation: a tweet is given up because two workers refreshed |
| `WebSession` | MCWebSession | `SessionTypeOK`, `LogoutFinal`, `SignedInStays`, `FormEnds`, `SpinnerEnds` |
| `Pages` | MCPages | links: `UsesBounded`, `VerifiedByLink`; tweets page: `TextSettled`, `ShowsOwnWrites`; adapters: `AnsweredIsStored`, `StoredOnce` |

### What the violations are

* **PostingTwice.** The recovery cron names its job by the time, so the queue does not see that
  `post-<tweet>` is still there; both jobs read "scheduled" before either has posted.
* **PostingStuck.** `scheduleTweet` queues the job, creates the row, then writes "scheduled". A
  worker that has failed the tweet (or posted it) before that last write is overwritten; the row is
  "failed", the recovery cron looks at "pending" rows, and the tweet is scheduled for ever. The same
  end is reached when the attempts of a job are used up by transient errors: nothing marks the tweet
  or its row as failed.
* **EventFanOutLost.** Two ingestors meet the same item; the second create violates the unique index
  and its job ends before its fan-out. What it had stored before is not new to its retry.
* **XRefreshRace.** Two workers find the access token expired. X replaces the refresh token for the
  first; the second gets a 400, which counts as a malformed tweet and is not retried.

* **SlotsInWindow.** `scheduler.service.ts:114` says that tweets are spread over the active hours. With
  hours 8 to 23 and five posts a day the interval is 180 minutes; a batch that is planned at 22:59
  gets 23:00, 02:00 and 05:00: slots are counted from now, and nothing compares them with the end.

Properties that the code does not promise and the model can break, so they are bounds rather than
prohibitions: the limiter is exceeded by up to `Slots - 1` posts, an event may get as many tweets of
a bot as there are generators, an event can be deleted under an open tweet, a story that is fetched
again after its deletion is tweeted again, a batch drops an event without an acceptable text, a link
takes effect once for each page that had checked it, overlapping saves add up their topics, a tweet
that the worker has read before an edit is posted with its older text (`overtaken`), a story of two
sports feeds is two events, and one that takes a place on Wikipedia's page is none. And what the code
does not handle at all, and the properties therefore except, each by name: a job that is removed as
completed and added again posts again (`forgotten`), the tweets of a bot whose window gives no usable
slot stay approved (`SlotsUsable`), a line after an empty item of a batch goes to the event before
its own (`EmptyItem`), a story in another category, or beyond the newest 100 of its own, is stored
again (`InReach`), stories with one slug or hash are one event, an item with an invalid date blocks
those behind it (`Reached`), a cleared persona stays, and a bot that names only pairs nobody delivers
hears nothing.

### Bounds

* Posting: one tweet (tweets share nothing but the queue, whose jobs are independent), two attempts
  (first and last are told apart, as five would), one fault, two workers against one caller or one
  worker against one caller for liveness, one recovery job (two in the counterexample runs).
  `published` saturates at 2.
* Limiter: two slots, one post per window of two ticks, four attempts of two accounts: enough for
  two attempts to pass the check together, and for entries to expire between check and record.
* Slots: minutes on both sides of the boundaries of the windows, windows that are empty, reversed,
  of one hour and of a day, frequencies up to the 100 of the DTO (an interval of zero minutes).
* Texts: nine samples (a short one and its twin, which is the same with its number, 280 and 281
  characters, a long one without a late space, a forbidden word, links, blanks, a number alone), and
  items without a text; answers of three lines that are not blank for a batch of two, so that numbers
  are missing, repeated and out of order, and an empty item comes before, between and after others.
* Events: one to three items, two sources, one or two handlers of a kind, one to three jobs; three
  items and two copies are what a duplicate of a duplicate needs, three jobs on two generators what
  tells "bounded by the generators" from "bounded by the jobs". In `EventLiveness` a
  second ingestion races the first only for the last item, so that a create throws. The instance
  *reach* has look-ups of three events where the code has 100: a story, the same in another category,
  and three others, fetched one after the other, push the story out of reach; then two ingestors may
  fetch it again from two sources, and an item with an invalid date. One crash in `EventLiveness`, none in
  `EventSafety`: a handler that dies before its write only makes room for another one.
* X accounts: two workers and one caller, four answers of X (connect, refresh, refresh again,
  reconnect), two rows (one disconnection). Bot: one tab, two requests at a time, three forms that
  are sent, four topics with one per form, a persona that is sent or empty, two pairs of which one is
  delivered, one request that dies; the form of a creation has a persona and names topics or one pair.
* Session: two tabs, two calls under way, one lost call. What must end is checked for one of the
  tabs, which are interchangeable.
* Pages: two pages, two links (so that a second one is asked for while the first is used), two
  passwords, one fault; one board, two calls, two texts, one edit, one fault; three stories on pages
  of two, of which one is taken, and one midnight; two of the stories have one slug, two have one hash,
  and one has no valid date.
* Symmetry is used in safety runs only. `CHECK_DEADLOCK FALSE`: the systems stop when there is
  nothing more to post, fetch, send or give out. `WebSession` never stops, and is checked for
  deadlock.

### Fairness

`QueueFairness`: Node runs a handler on (weak fairness of each worker's next statement), BullMQ
serves every waiting job (strong fairness, since workers are busy in between), and rate-limit
windows reopen. `CronFairness`: the auto-schedule and recovery crons run every few minutes and
reach every tweet (strong fairness, since callers are busy in between) and calls run on. `FairSpec`
is both; `JobsEnd` assumes the first only, `PendingRowsHandled` and `ApprovedGetsScheduled` the
second only. In `EventPipeline`, generators and deleters run on, jobs are served, and the cleanup
runs daily. In `WebSession`, a fetch gets its answer and a tab runs its handlers (weak fairness of
`Answered`, `RefreshAnswered` and `Guard`). Users, operators, feeds, X, the clock of the tokens and
all faults are never assumed to act. `PendingRowsHandled` excludes a user who posts now for ever
(`NotPutOff`), since that keeps a row from becoming overdue; `ApprovedGetsScheduled` a bot whose window
gives no usable slot for ever (`SlotsUsable`), since nothing validates it; `FormEnds` and `SpinnerEnds` exclude
one who reloads the page for ever (`LeftAlone`).

## Proofs

All theorems hold for any values of the constants under the stated assumptions: distinct model
values, positive bounds, the ranges of the DTOs, a similarity that is symmetric, finitely many
handlers where handlers are counted, and at least one source (`BotsService.create` subscribes a bot
without a selection to all of them, so a platform without sources would have nothing to subscribe
to).

* `TweetPosting_proofs`: `Invariance` is the induction. `Inv` strengthens the properties with:
  a worker holds its job alone (`WorkersHoldJobs`), a draft has never been near the queue
  (`DraftsUntouched`), whoever is about to claim success knows of a post (`SuccessKnown`), and posts
  of a job are paid for by lost attempts and by completed jobs that were removed (`PostsAccounted`). From it follow `TypeCorrect`,
  `OnlyReviewedPosts`, `SuccessIsTrue`, `OncePerJob`, `RowsNeverReopened` and
  `DeliveryImplemented`, the refinement of `TweetDelivery`.
* `PostingRateLimiter_proofs`: `LimiterTypes`, `WindowOvershoot` and `XWindowOvershoot`. The invariant
  bounds the running attempts by the slots; an attempt that passes the check leaves room for the
  others, and an entry never expires in Redis before its post does on X.
* `EventPipeline_proofs`: `TweetsOnce`: an event a job has tweeted about either is excluded by the
  duplicate check or is gone, so a retry cannot tweet about it again. `StoriesBounded` and
  `TweetsBounded` count: the fresh events of a story that a look-up still reaches, plus the ingestors
  that have compared with all of them and will store one more, are never more than the ingestors
  (`SimilarCounted`, for every set of alike events of a category and not for the largest only, since
  similarity is not transitive); what is out of reach once stays so (`ReachShrinks`), as events only
  get newer ones, finitely many (`NewerFinite`); the tweets
  of a bot about an event, plus the generators that have checked and not yet written, are never more
  than the generators (`DuplicatesCounted`). The bounds alone are not inductive: whoever has checked
  may still write. `EventLifeImplemented` is the refinement of `EventLife`. It needs that what a job
  works on was queued for its bot (`JobsGiven`), and that what a deleter has chosen stays due for
  deletion (`TargetsDue`: old events do not become fresh, posted tweets stay posted).
* `XAccounts_proofs`: `StoredTokenSafe` and `TokensMoveForward`. A token that only its handler has
  seen is good and known to nobody else; so only the stored token can be spent, and whoever spends
  it holds the successor, for the same row. `CustodyKept` is the refinement of `TokenCustody`: it
  follows step by step from the same invariant, since no two workers carry the same successor.

* `AuthLinks_proofs`: `LinkUses`, `Verification`, `Registration` and `LinksTypes`. The type of a link
  must fit the page that was opened with it (`Shape`), and the uses of a link plus the pages that
  have checked it and not yet used it never exceed the pages (`Shared`): the bound alone is not
  inductive, because each of those pages may still use the link. After the first use no page passes
  the check again.
* `WebSession_proofs`: `LogoutIsFinal`, `StaysSignedIn` and `SessionTypes`. After a logout nothing that
  stores tokens is under way (`Quiet`); a call that was sent again has a good token, so a second 401
  cannot clear the session (`Fresh`).
* `SlotsTextsFeeds_proofs`: `NoLateSlot`, `NextWindowFits`, `AllTimed` rest on lemmas about rounding
  and integer division (`RoundUpBound`, `IntervalBound`, `ProductBound`): the cap of a batch at the
  frequency makes its slots fit the window. `TextsFit`, `TextsOfTheirEvents`, `NoTwinTexts`: each
  stored text has passed the filter and was compared with those stored before it. `NoStoryLost` and
  `OneEventPerStory`: the id of an event says which slug or hash its story has (`IdsCarryStory`), except
  for Wikipedia's, which says the place on the page; so the check for a known id drops a story only if
  it or one with the same key is stored, and what a tick reaches is stored before anything throws.
* `Dashboard_proofs`, the page of tweets: `TextOnXSettled` and `OwnWritesShown`. Once the worker has
  read the text and was not overtaken, no request that could edit it has passed its check (`Sealed`,
  in `ReadTextSettled`); a page that does not show a write of its own waits for an answer, or for a
  list that was or will be read after the write (`WritesAwaited`).
* `Dashboard_proofs`, the bots: `LastSaveStays`, `NewBotHears`, `OverlapBounded`. A transaction
  deletes the rows it has seen, no other deletes them too, and one commits at a time
  (`RowsOfTransactions`); what a commit sends of its columns is in the row, what it does not send is
  as it was; a creation has stored the pairs of its form, or is about to subscribe to all sources,
  before it answers (`Creations`). The bound on topics is by counting: the topics that every transaction of a set `R`
  has missed are at most those of one form for each request outside `R` (`TopicsCounted`), because
  they were saved while all of `R` was open. With `R` empty this is `OverlapBounded`; a commit needs
  it with the committing request in `R`, where it bounds what the DELETE has left.

What the counterexamples need. Three of the violations have a companion that says, for every size
of the system, what is needed to reach them:

* `JobNameStopsDoubles` (PostingTwice): without the recovery cron, "post now" and the discarding of
  jobs, whose jobs do not meet the old one under its name, each tweet is on X once, and once more at
  most for each fault that broke an attempt off after its post.
* `OneIngestorFansOut` (EventFanOutLost): with one ingestor in all replicas, no fault and no item with
  an invalid date, every event
  that is there was queued for each subscribed bot or is about to be. What the ingestor creates, its
  look-up did not find, and nobody else creates (`CreatesUnstored`), so no create throws.
* `OneWorkerGivesUpForGood` (XRefreshRace): with one worker in all replicas the token that is sent
  to X is good, withdrawn or lost (`SentAccounted`), whatever users and X do.

The hypotheses are restrictions on the constants, not facts about the deployment, which runs two
replicas with all operations: they show that nothing else in the models leads to these ends.
`SlotsInWindow` has `NextWindowFits`: a batch that is planned while the window is closed does fit.

Only model-checked: all liveness (`JobsEnd`, `PendingRowsHandled`, `ApprovedGetsScheduled`,
`GenerationEnds`, `OldEventsGo`, `FormEnds`, `SpinnerEnds`) and the counterexamples, which are out of
the prover's reach. The type invariants of the tokens, the bots, the
links and the page of tweets (`TypeCorrect`, `BotTypes`, `LinksTypes`, `BoardTypes`) are proved and
need no run. Every other
invariant, action property and refinement of the passing runs is a theorem.

## Not modelled, and why

* The bot rate limiter never gets an entry (`record` is not called), so its check always passes;
  `TimeSlots` takes any quota.
* Users (profile), analytics, health: reads, and single-row writes of one user. In the frontend the
  overview, the analytics and the guide are text and reads, the components are drawing; a late
  answer of `fetchUser` can write over what was typed into the profile form.
* Common code and configuration: wiring, validation, encryption, logging keep no state.
* OAuth states: maps in the memory of one replica; a callback at the other one ends with an error.
* Prompts, texts of mails, the parsing of feeds: the data the models abstract.
* `cancelScheduledTweet` is never called; plans and subscriptions of users are only read, for the daily
  limit.

## What could follow

1. An abstract specification of the session, as `TweetDelivery`, `EventLife` and `TokenCustody` are
   for posting, events and the tokens of X.
2. `OAuthStates` in two replicas; several tweets on one `TweetBoard`.
