------------------------------ MODULE BotAdmin ------------------------------
(***************************************************************************)
(* One bot of a user: the pages that create, edit, switch and delete it,   *)
(* and the requests they send (BotsService), which run concurrently.  A    *)
(* save replaces the topics in a READ COMMITTED transaction: it deletes    *)
(* the rows that were committed when its statement began, waits for rows   *)
(* that another transaction has touched, and inserts its own.              *)
(***************************************************************************)
EXTENDS Naturals, FiniteSets

CONSTANTS
  Tabs,        \* pages of the dashboard that are open
  NoTab,       \* nobody waits for the answer of this request
  Requests,    \* requests that are handled at the same time
  Names,       \* stands for the columns that every form sends
  NoName,      \* no form, no bot yet
  Personas,    \* persona (and x_account_id): columns that may be empty
  NoPersona,
  Topics,
  MaxTopics,   \* ArrayMaxSize of the DTO, the limit of the form
  Pairs,       \* of a source and a category, as a form may name them
  Delivered,   \* pairs the adapters deliver
  Sources,     \* those of them that getAvailableSources lists at any time
  MaxSubmits,  \* bound: requests that are sent
  MaxBotFaults \* bound: requests that die

ASSUME BotAssumption ==
  /\ IsFiniteSet(Topics) /\ IsFiniteSet(Requests)
  /\ Sources # {} /\ Sources \subseteq Delivered /\ Delivered \subseteq Pairs
  /\ NoTab \notin Tabs /\ NoName \notin Names /\ NoPersona \notin Personas
  /\ MaxTopics \in Nat /\ MaxSubmits \in Nat /\ MaxBotFaults \in Nat

VARIABLES
  life,       \* the row in bots: not yet created, live, deleted
  name,       \* the columns every save writes
  persona,    \* a column that a save writes when it is sent
  active,     \* bots.is_active
  topics,     \* committed rows of bot_topics
  subs,       \* rows of bot_event_subscriptions
  page,       \* the page a tab shows
  shown,      \* is_active as the tab has cached it
  operation,       \* what a request does
  owner,      \* the tab that waits for its answer
  sent,       \* the form in the request
  statement,         \* the next statement of the request
  seenRows,   \* topics its DELETE has found when it began
  gone,       \* topics its transaction has deleted
  added,      \* topics its transaction has inserted
  holder,     \* requests whose transaction has locked the row in bots
  saved,      \* observer: the form of the last creation or committed save,
              \* with the sources of the creation
  promised,   \* observer: a tab was told that its bot is created
  submits, botFaults

row == <<life, name, persona, active, topics, subs>>
tabs == <<page, shown>>
calls == <<operation, owner, sent, statement>>
transaction == <<seenRows, gone, added, holder>>
bounds == <<submits, botFaults>>
botVars == <<life, name, persona, active, topics, subs, page, shown, operation, owner, sent,
             statement, seenRows, gone, added, holder, saved, promised, submits, botFaults>>

TopicLists == {s \in SUBSET Topics : Cardinality(s) <= MaxTopics}

(* What a form may hold: the page adds a topic only up to the limit; it    *)
(* offers sources that no adapter has, and any category.  The form of a    *)
(* bot is filled once, when the page is opened: it may be any older form,  *)
(* with any changes.  A persona that is empty is not sent.                 *)
Columns == [name : Names \cup {NoName}, persona : Personas \cup {NoPersona},
            topics : SUBSET Topics, sources : SUBSET Pairs]
Forms == [name : Names, persona : Personas \cup {NoPersona},
          topics : TopicLists, sources : SUBSET Pairs]
Blank == [name |-> NoName, persona |-> NoPersona, topics |-> {}, sources |-> {}]
Kinds == {"create", "update", "remove", "start", "stop", "subscribe"}
Statements == {"idle", "insert bot", "log created", "subscribe", "find", "delete",
               "deleting", "insert", "update", "commit", "remove", "write", "log"}

BotTypeOK ==
  /\ life \in {"none", "live", "deleted"}
  /\ name \in Names \cup {NoName} /\ persona \in Personas \cup {NoPersona}
  /\ active \in BOOLEAN /\ topics \subseteq Topics /\ subs \subseteq Pairs
  /\ page \in [Tabs -> {"away", "list", "new", "edit"}]
  /\ shown \in [Tabs -> BOOLEAN]
  /\ operation \in [Requests -> Kinds] /\ owner \in [Requests -> Tabs \cup {NoTab}]
  /\ sent \in [Requests -> Forms \cup {Blank}] /\ statement \in [Requests -> Statements]
  /\ seenRows \in [Requests -> SUBSET Topics]
  /\ gone \in [Requests -> SUBSET Topics] /\ added \in [Requests -> SUBSET Topics]
  /\ holder \subseteq Requests
  /\ saved \in Columns /\ promised \in BOOLEAN
  /\ submits \in 0..MaxSubmits /\ botFaults \in 0..MaxBotFaults

BotInit ==
  /\ life = "none" /\ name = Blank.name /\ persona = Blank.persona
  /\ active = TRUE /\ topics = {} /\ subs = {}
  /\ page = [t \in Tabs |-> "away"]
  /\ shown = [t \in Tabs |-> TRUE]
  /\ operation = [r \in Requests |-> "update"] /\ owner = [r \in Requests |-> NoTab]
  /\ sent = [r \in Requests |-> Blank] /\ statement = [r \in Requests |-> "idle"]
  /\ seenRows = [r \in Requests |-> {}]
  /\ gone = [r \in Requests |-> {}] /\ added = [r \in Requests |-> {}]
  /\ holder = {}
  /\ saved = Blank /\ promised = FALSE
  /\ submits = 0 /\ botFaults = 0

-----------------------------------------------------------------------------
(* Pages.                                                                  *)

Open(t, p) ==
  /\ page[t] = "away"
  /\ page' = [page EXCEPT ![t] = p]
  /\ shown' = [shown EXCEPT ![t] = active]
  /\ UNCHANGED <<row, calls, transaction, saved, promised, bounds>>

OpenNew(t) == Open(t, "new")
OpenList(t) == life = "live" /\ Open(t, "list")
OpenEdit(t) == life = "live" /\ Open(t, "edit")

(* The answers of a page that is left are not awaited any more; an answer  *)
(* that is lost is the same for the page that is opened next.              *)
Leave(t) ==
  /\ page[t] # "away"
  /\ owner' = [r \in Requests |-> IF owner[r] = t THEN NoTab ELSE owner[r]]
  /\ page' = [page EXCEPT ![t] = "away"]
  /\ shown' = [shown EXCEPT ![t] = TRUE]
  /\ UNCHANGED <<row, operation, sent, statement, transaction, saved, promised, bounds>>

(* The query cache of a tab is fetched again.                              *)
Refetch(t) ==
  /\ page[t] \in {"list", "edit"} /\ shown[t] # active
  /\ shown' = [shown EXCEPT ![t] = active]
  /\ UNCHANGED <<row, page, calls, transaction, saved, promised, bounds>>

(* A button is disabled while its own mutation is under way.               *)
Pending(t, ks) == \E r \in Requests : owner[r] = t /\ operation[r] \in ks

Send(r, t, k, form, s) ==
  /\ statement[r] = "idle" /\ submits < MaxSubmits
  /\ submits' = submits + 1
  /\ ~Pending(t, IF k \in {"start", "stop"} THEN {"start", "stop"} ELSE {k})
  /\ operation' = [operation EXCEPT ![r] = k]
  /\ owner' = [owner EXCEPT ![r] = t]
  /\ sent' = [sent EXCEPT ![r] = form]
  /\ statement' = [statement EXCEPT ![r] = s]
  /\ UNCHANGED <<row, tabs, transaction, saved, promised, botFaults>>

Create(r, t) ==
  /\ page[t] = "new" /\ life = "none"
  /\ \E f \in Forms : Send(r, t, "create", f, "insert bot")

(* The page of a bot does not show its subscriptions.                      *)
SaveForm(r, t) ==
  /\ page[t] = "edit"
  /\ \E f \in {g \in Forms : g.sources = {}} : Send(r, t, "update", f, "find")

HandleDelete(r, t) == page[t] = "list" /\ Send(r, t, "remove", Blank, "find")

(* The switch asks for the opposite of what it shows.                      *)
Toggle(r, t) ==
  /\ page[t] \in {"list", "edit"}
  /\ Send(r, t, IF shown[t] THEN "stop" ELSE "start", Blank, "find")

SubscribeAll(r, t) == life = "live" /\ Send(r, t, "subscribe", Blank, "find")

-----------------------------------------------------------------------------
(* Requests.                                                               *)

Goto(r, s) == statement' = [statement EXCEPT ![r] = s] /\ UNCHANGED <<operation, owner, sent>>

(* The request ends.  A tab that still waits leaves the form of a bot it   *)
(* has created.                                                            *)
Answer(r, ok) ==
  /\ statement' = [statement EXCEPT ![r] = "idle"]
  /\ operation' = [operation EXCEPT ![r] = "update"]
  /\ sent' = [sent EXCEPT ![r] = Blank]
  /\ owner' = [owner EXCEPT ![r] = NoTab]
  /\ LET created == ok /\ operation[r] = "create" /\ owner[r] # NoTab IN
       /\ promised' = (promised \/ created)
       /\ page' = [t \in Tabs |-> IF created /\ t = owner[r] /\ page[t] = "new"
                                  THEN "list" ELSE page[t]]
       /\ UNCHANGED shown

Stay == UNCHANGED <<promised, tabs>>

CreateInsert(r) ==
  /\ statement[r] = "insert bot"
  /\ IF life # "none" THEN Answer(r, FALSE) /\ UNCHANGED <<row, saved>>
     ELSE /\ life' = "live" /\ name' = sent[r].name
          /\ persona' = sent[r].persona /\ active' = TRUE
          /\ topics' = sent[r].topics /\ subs' = sent[r].sources
          /\ saved' = sent[r]
          /\ Goto(r, "log created") /\ Stay
  /\ UNCHANGED <<transaction, bounds>>

(* Mutant of CreateLog: the answer does not wait for the subscriptions.    *)
CreateLogOnly(r) ==
  /\ statement[r] = "log created"
  /\ Answer(r, life = "live")
  /\ UNCHANGED <<row, transaction, saved, bounds>>

(* A form without subscriptions subscribes to all of them.                 *)
CreateLog(r) ==
  /\ statement[r] = "log created"
  /\ IF life = "live" /\ sent[r].sources = {} THEN Goto(r, "subscribe") /\ Stay
     ELSE Answer(r, life = "live")
  /\ UNCHANGED <<row, transaction, saved, bounds>>

(* subscribeToAllSources: what is missing is inserted, duplicates skipped: *)
(* the listed pairs, and those of the events that are stored.  The bot may *)
(* be deleted by now.                                                      *)
SubscribeToAllSources(r) ==
  /\ statement[r] = "subscribe"
  /\ \E stored \in SUBSET Delivered :
       subs' = IF life = "live" THEN subs \cup Sources \cup stored ELSE subs
  /\ Answer(r, life = "live")
  /\ UNCHANGED <<life, name, persona, active, topics, transaction, saved, bounds>>

AfterFind(k) == CASE k = "update" -> "delete" [] k = "remove" -> "remove"
                  [] k = "subscribe" -> "subscribe" [] OTHER -> "write"

(* Start and stop also compare with what they have found.                  *)
FindOne(r) ==
  /\ statement[r] = "find"
  /\ IF \/ life # "live"
        \/ operation[r] = "start" /\ active
        \/ operation[r] = "stop" /\ ~active
     THEN Answer(r, FALSE)
     ELSE Goto(r, AfterFind(operation[r])) /\ Stay
  /\ UNCHANGED <<row, transaction, saved, bounds>>

RowFree(r) == holder \subseteq {r}

Switch(r) ==
  /\ statement[r] = "write" /\ RowFree(r)
  /\ IF life = "live"
     THEN active' = (operation[r] = "start") /\ Goto(r, "log") /\ Stay
     ELSE Answer(r, FALSE) /\ UNCHANGED active
  /\ UNCHANGED <<life, name, persona, topics, subs, transaction, saved, bounds>>

SwitchLog(r) ==
  /\ statement[r] = "log"
  /\ Answer(r, life = "live")
  /\ UNCHANGED <<row, transaction, saved, bounds>>

Others(r) == Requests \ {r}

(* The delete cascades: it waits for rows that a transaction has touched.  *)
Remove(r) ==
  /\ statement[r] = "remove" /\ RowFree(r)
  /\ \A q \in Others(r) : gone[q] = {} /\ added[q] = {}
  /\ Answer(r, life = "live")
  /\ IF life = "live"
     THEN life' = "deleted" /\ topics' = {} /\ subs' = {}
     ELSE UNCHANGED <<life, topics, subs>>
  /\ seenRows' = [q \in Requests |-> {}]
  /\ UNCHANGED <<name, persona, active, gone, added, holder, saved, bounds>>

-----------------------------------------------------------------------------
(* The transaction of a save.                                              *)

Released(r) ==
  /\ seenRows' = [seenRows EXCEPT ![r] = {}]
  /\ gone' = [gone EXCEPT ![r] = {}]
  /\ added' = [added EXCEPT ![r] = {}]
  /\ holder' = holder \ {r}

Rollback(r) ==
  /\ Answer(r, FALSE)
  /\ Released(r)
  /\ UNCHANGED <<row, saved>>

(* Mutant of DeleteBegins: topics that the form no longer has are kept.    *)
DeleteBeginsNone(r) ==
  /\ statement[r] = "delete"
  /\ seenRows' = [seenRows EXCEPT ![r] = topics \cap sent[r].topics]
  /\ Goto(r, "deleting") /\ Stay
  /\ UNCHANGED <<row, gone, added, holder, saved, bounds>>

DeleteBegins(r) ==
  /\ statement[r] = "delete"
  /\ seenRows' = [seenRows EXCEPT ![r] = topics]
  /\ Goto(r, "deleting") /\ Stay
  /\ UNCHANGED <<row, gone, added, holder, saved, bounds>>

DeleteTopics(r) ==
  /\ statement[r] = "deleting"
  /\ \A q \in Others(r) : gone[q] \cap seenRows[r] = {}
  /\ gone' = [gone EXCEPT ![r] = seenRows[r]]
  /\ Goto(r, "insert") /\ Stay
  /\ UNCHANGED <<row, seenRows, added, holder, saved, bounds>>

(* (bot, topic) is unique.                                                 *)
InsertTopics(r) ==
  LET new == sent[r].topics IN
  /\ statement[r] = "insert"
  /\ \A q \in Others(r) : (gone[q] \cup added[q]) \cap new = {}
  /\ IF \/ new \cap (topics \ gone[r]) # {}
        \/ new # {} /\ life # "live"
     THEN Rollback(r)
     ELSE /\ added' = [added EXCEPT ![r] = new]
          /\ Goto(r, "update") /\ Stay
          /\ UNCHANGED <<row, seenRows, gone, holder, saved>>
  /\ UNCHANGED bounds

UpdateBot(r) ==
  /\ statement[r] = "update" /\ RowFree(r)
  /\ IF life # "live" THEN Rollback(r)
     ELSE /\ holder' = {r}
          /\ Goto(r, "commit") /\ Stay
          /\ UNCHANGED <<row, seenRows, gone, added, saved>>
  /\ UNCHANGED bounds

(* What is not sent stays: a persona that is cleared in the form too.      *)
PersonaKept(r) == IF sent[r].persona = NoPersona THEN persona ELSE sent[r].persona

(* Mutant of Kept: the rows are deleted after the inserts.                 *)
KeptNone(r) == topics \ (gone[r] \cup added[r])

Kept(r) == (topics \ gone[r]) \cup added[r]

(* With the log entry.  A DELETE that waits for these rows finds them gone *)
(* and does not see the new ones.                                          *)
Commit(r) ==
  /\ statement[r] = "commit"
  /\ name' = sent[r].name
  /\ persona' = PersonaKept(r)
  /\ topics' = Kept(r)
  /\ saved' = [sent[r] EXCEPT !.sources = saved.sources]
  /\ Answer(r, TRUE)
  /\ seenRows' = [q \in Requests |-> IF q = r THEN {} ELSE seenRows[q] \ gone[r]]
  /\ gone' = [gone EXCEPT ![r] = {}]
  /\ added' = [added EXCEPT ![r] = {}]
  /\ holder' = {}
  /\ UNCHANGED <<life, active, subs, bounds>>

(* A statement fails, the transaction is too slow or in a deadlock, or the *)
(* process dies: what is not committed is rolled back, the rest stays.     *)
RequestDies(r) ==
  /\ statement[r] # "idle" /\ botFaults < MaxBotFaults
  /\ botFaults' = botFaults + 1
  /\ Rollback(r)
  /\ UNCHANGED submits

-----------------------------------------------------------------------------
TabStep(t) ==
  \/ OpenNew(t) \/ OpenList(t) \/ OpenEdit(t) \/ Leave(t)
  \/ Refetch(t)

CallStep(r, t) ==
  Create(r, t) \/ SaveForm(r, t) \/ HandleDelete(r, t) \/ Toggle(r, t) \/ SubscribeAll(r, t)

BotRequestStep(r) ==
  \/ CreateInsert(r) \/ CreateLog(r) \/ SubscribeToAllSources(r)
  \/ FindOne(r) \/ Switch(r) \/ SwitchLog(r) \/ Remove(r)
  \/ DeleteBegins(r) \/ DeleteTopics(r) \/ InsertTopics(r) \/ UpdateBot(r) \/ Commit(r)
  \/ RequestDies(r)

BotNext ==
  \/ \E t \in Tabs : TabStep(t) \/ \E r \in Requests : CallStep(r, t)
  \/ \E r \in Requests : BotRequestStep(r)

BotSpec == BotInit /\ [][BotNext]_botVars

-----------------------------------------------------------------------------
(* However saves overlap, what the last committed save has sent is there   *)
(* together: its columns, its persona unless it was left empty, and at     *)
(* least its topics.  Topics of an overlapping save may be there as well.  *)
LastSaveKept ==
  life = "live" =>
    /\ name = saved.name
    /\ saved.persona # NoPersona => persona = saved.persona
    /\ saved.topics \subseteq topics

(* The DTO limits the topics of a request; overlapping saves add theirs    *)
(* up, but never more of them than run at the same time.                   *)
TopicsBounded ==
  Cardinality(topics) <= MaxTopics * Cardinality(Requests)

(* A bot whose creation was answered is subscribed to what its form asked  *)
(* for, and to every listed source when it asked for none: it hears        *)
(* nothing only if its form named nothing but pairs no adapter delivers.   *)
CreatedIsSubscribed ==
  promised /\ life = "live" =>
    /\ saved.sources \subseteq subs
    /\ saved.sources = {} => Sources \subseteq subs
    /\ subs \cap Delivered = {} => saved.sources # {} /\ saved.sources \cap Delivered = {}
=============================================================================
