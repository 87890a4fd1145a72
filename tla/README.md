# Verification of smu-server-status-viewer

A TLA+ model of the backend (Go) and of what keeps state in the frontend
(JavaScript: live status, analysis dialog, contact form, pins) of this repository, model-checked with TLC and, where a property is
worth having for every size of the system, proved with TLAPS. Paths below are
relative to `src/`; `B/` is `backend/internal/`.

## 1. The system

The program checks the web sites of a university every 15 s, shows their state
live, alerts when one goes down or comes back, keeps the outages in Postgres and
has a language model comment on them.

| component | state it keeps | operations | talks to |
|---|---|---|---|
| `B/statuscache` | results, lastRefreshedAt (lock `mu`), subscriber channels (lock `subsMu`) | refresh loop with one goroutine per site, Get, Snapshot, NextUpdateAt, Subscribe/cancel | statuschecker; signals every subscriber |
| `B/statuschecker` | none | CheckServiceStatus (10 s, at most 5 requests in a chain of redirects) | the sites |
| `B/services` | constant registry | lookups | all |
| `B/statemonitor` | confirmed, pending (one goroutine) | Start, evaluate, saveState, dispatch, handleTransition | subscribes to the cache; servicestate, mailer, discordnotify, OnTransition |
| `B/servicestate` | table service_status | Load, Save | Postgres |
| `B/httpapi` incidents | none | incidentAnalysis, incidentReanalyze | incidentstore, incidents |
| `B/httpapi` misc, `B/clickstore` | table site_clicks | contact, clickIncrement | profanity, mailer, Postgres |
| `B/httpapi` status, stream | one handler goroutine per client | status, statusStream | subscribes to the cache |
| `B/incidents` | blurbDay, blurbCalls, timers | OnDown, OnRecovered, Reanalyze, enrich, RefreshSummary, RefreshAllSummaries | incidentstore, incidentai, embed, the cache |
| `B/incidentstore` | tables incidents, service_summaries, ai_usage | Open, Resolve, SaveEnrichment, SaveVerdict, Stats, LastVerdictAt, ConsumeAIBudget, RefundAIBudget, SaveSummary ... | Postgres |
| `B/servicehealth`, `B/academic` | none | Build, uptime, level; ContextTag | - |
| `B/ratelimit` | buckets by address (lock `mu`) | Allow, sweepStale | the HTTP middleware |
| `backend/cmd/server` | wiring | OnTransition, the 20-minute summary loop | all |
| `B/profanity` | a constant list of stems | Find | contact |
| `backend/cmd/backfill-incidents` | none | reconstruct, -after, findID, Open, Resolve, fill in first_seen_at, -analyze | git, incidentstore, embed, incidentai |
| frontend: StatusDashboardServer, useStatusStream, statusDetail | statusData, delay timer and notice, EventSource | prefetch, render, mount, onmessage, unmount; buildStatusDetail | the API |
| frontend: AiAnalysisSection | the section's state and data; answers by service, kept for a minute | load, the request's end | `B/httpapi` incidents |
| frontend: ContactForm | fields and status, as long as its dialog is open | handleSubmit, the answer | `B/httpapi` misc |
| frontend: usePersistentSet, useToast | pins of a tab, the entry in localStorage, the toast and its timeout | toggle, load, showToast | other tabs, by the entry |
| mailer, discordnotify, apitext, db, embed, the rest of the frontend | none | I/O and wording | - |

What is hard here, component by component, and what makes it correct:

- **Cache**: two locks, sends on channels that others close, one-place buffers
  that drop signals. No send on a closed channel; no refresh lost for good; a
  snapshot mixes two adjacent refreshes at most.
- **Monitor**: evaluates snapshots that are not tied to refreshes, and may sit in
  a save of 10 s while the cache moves on. It comes to every latest refresh; an
  alert tells what the baseline is; down and recovery alternate; how many checks
  a change rests on.
- **Incident rows**: one goroutine per transition and nothing that orders them,
  one 20 s context for two notifications and the row, a timer, a process that can
  die anywhere. The table agrees with the alerts; no verdict on a blip; no alert
  twice over a restart.
- **Analysis**: enrich is ten statements of several goroutines (timers, the
  admin), each of which may fail, over a cooldown that is checked long before the
  verdict that trips it is saved.
- **Budgets**: atomic counters, but takes and refunds are separate calls, in
  months that end.
- **Summaries**: loop and transitions read, wait for a model up to 30 s, and save
  the same row; two budgets with two days in play at midnight.
- **Limiter**: clocks read before the lock; a sweep that drops buckets.
- **Backfill**: two statements per incident next to a live server; a query whose
  every error means a missing row; may die, may be run again, over all or the
  later part of the trail. `-analyze` waits for a model between its look at a row
  and its verdict, while the server analyses too. No outage twice, no row
  left out, no verdict paid for again.
- **Stream and page**: first event before Subscribe, two reads per event,
  restarts of a backend that forgets everything, broken connections.
- **Analysis dialog**: three statements per answer while the outage goes on;
  requests outlive the dialog that sent them and overtake each other; a cache in
  the page. What is shown is recent and hangs together, and no section waits for
  nothing.
- **Contact form**: preflight, post, and the clicks of everyone at an address share
  one limit; a dialog can be edited, closed and opened again while its request is
  under way; an answer can be lost though the mail is not. No text twice but for
  a lost answer; trying again helps; the form does not hang.
- **Pins and toast**: every tab writes the whole list as it knows it; each
  toast replaces one with a timeout of its own.
- **Profanity**: overlapping stems, separators and case, over the boundary of
  message and name.
- **Numbers**: windows that a young service shrinks and an older outage widens,
  medians, rounding of durations and shares.

## 2. Modules

`PROJECT.json` maps every definition to its lines. Actions are named after the
functions; an action of a goroutine is what it does between two points where
another goroutine can see or change what it uses (a lock, a statement of the
database, a channel, an external call).

| module | models | composes |
|---|---|---|
| `Services` | the registry's keys, the raw statuses, `healthy` | |
| `StatusCache` | the refresh loop, both locks, Subscribe, cancel, signals | `Services` |
| `LatestFeed` | abstract: what a subscriber of the cache is promised | |
| `Baseline` | confirmed, its saved copy, confirm - save - dispatch | `Services` |
| `StateMonitor` | Start and evaluate on the cache | `StatusCache`, `Baseline` |
| `StatusStream` | the SSE handlers on the cache | `StatusCache` |
| `OutageLog` | handleTransition, OnDown, OnRecovered, timers, crash and restart | `Baseline` |
| `AIBudget` | the monthly counters | |
| `AISpend` | callers of the paid APIs and what is billed | `AIBudget` |
| `Analysis` | enrich and Reanalyze, statement by statement | `AIBudget` |
| `BackfillAnalyze` | the command's `-analyze` pass next to the server's analyses | `Analysis` |
| `Summary` | RefreshSummary, the loop and the transitions' goroutines, first_seen_at and the history the command fills in | `AIBudget` |
| `RateLimit` | Allow and sweepStale | |
| `Backfill` | reconstruct, -after, findID and its errors, Open, Resolve, next to the server | |
| `SiteCheck` | CheckServiceStatus, the modal's and the scorecard's reading of it | |
| `Scorecard` | Stats, Build, ContextTag over recorded histories | `SiteCheck` |
| `Dashboard` | a page over prefetched cards, EventSource, restarts | `LatestFeed` |
| `AnalysisView` | the analysis section of the dialog over incidentAnalysis | |
| `Contact` | the contact form, the shared limit, contact, clickIncrement, the mail | |
| `Profanity` | Find, as contact calls it, on texts typed one character at a time | |
| `Favourites` | pins in several tabs, the toast | |
| `Induction` | lemmas: induction on numbers and finite sets, sums over finite sets | |
| `SubscriberProofs` | theorems about the cache, the monitor and the stream handlers | `StateMonitor`, `StatusStream` |
| `OutageLogProofs` | theorems about the log of outages, the numbers of the scorecard, and what the dialog tells of a check | `OutageLog`, `Scorecard`, `Induction` |
| `AnalysisProofs` | theorems about the paid calls and the analyses | `MCAnalysis` |
| `SummaryProofs` | theorems about the summaries | `Summary` |
| `BackfillProofs` | theorems about the command | `Backfill`, `Induction` |
| `DashboardProofs` | theorems about the cards | `Dashboard` |
| `PageProofs` | theorems about form, pins, limiter, analysis section, and what flags a message | `Contact`, `Favourites`, `RateLimit`, `AnalysisView`, `Profanity`, `Induction` |
| `MC...` | constants of the runs, and components put side by side (below) | |

`MCAnalysis`, `MCScorecard` and `MCPage` extend several modules whose components share
no state, or only the AI budget. A variable `part`, chosen once in the initial
state, says which of them moves; each is explored for itself and their product is
not. `MCAnalysis`: "server" (`Analysis` alone), "command" (`BackfillAnalyze`, on
rows that an earlier process or run has left), "callers" (`AISpend`). `MCScorecard`:
"numbers" and "check" (`Scorecard`: its histories, and the answers of the site), "analysis"
(`AnalysisView`). `MCPage`: "contact" (`Contact`),
"texts" (`Profanity`), "pins" (`Favourites`), "limiter" (`RateLimit`).

Definitions `X_Something` next to `X` and commented *Mutant* are the changed
forms of `X` with which each property is shown to be able to fail.

How state corresponds to the code:

- A result of a check carries the *number of the refresh cycle* instead of
  CheckedAt; `lastRefreshed` stands for lastRefreshedAt, from which NextUpdateAt
  is computed. A subscriber is its channel; `signal[c]` is the one-place buffer.
- `stage` in `Baseline` is the place of the monitor's goroutine inside a
  confirmation: the memory is set, the row is saved, the alert is dispatched.
- In `OutageLog`, `handlers` are the running goroutines of handleTransition. The
  notifications before the store call are time that passes; the store call is one
  action, or `StoreCallFails`: they used the context up, or the database fails, before
  the row is written or after (its id is lost then, and no analysis is scheduled).
- In `Scorecard` a minute has `Minute` units of time, as the code knows more of an
  outage than the minutes it stores; `firstSeen` is first_seen_at as stored, `FirstSeen` what
  RefreshSummary makes of it.
- In `Summary` a scorecard is what the numbers have come to (`stats`), since when they
  are counted, and the current status. `InputsHash` keeps less: of the status whether it
  is down, of the numbers what the constant `Coarse` leaves.
- In `Favourites` an empty entry is none, or one that cannot be parsed: a tab starts empty
  from either, and its next press replaces it.
- In `Dashboard` an event may be unreadable: timer and notice are off, the cards stay.
- In `Analysis` and `Summary` a task's stage is the statement it comes to next.
- In `Backfill`, `next` stands for the place in the sorted list: incidents that
  began before have been dealt with. They begin at different times (proved:
  `IncidentFacts`), so that a time names a place.
- **History variables** are read by properties only: `heard`, `counted`,
  `snapAt`, `acted` (cache and monitor), `signalled` (stream), `alerts`,
  `reversed`, `unsaved`, `disturbed` (log), `billed`, `unearned`, `answered` (spend), `blind`
  (analysis), `asked`, `cmd.clean`, `cmd.had` (command), `called`, `crossed`,
  `withheld` (summary), `disturbed`, `blind` (backfill), `passed` (limiter: the requests that got through), `heard`
  (dashboard), `section.shownAt`, `asked` in an answer (analysis dialog), `mails`,
  `lost`, `crowd` (contact: clicks counted in the present window), `missed` (pins).
- In `Contact` a text stands for name, message and consent; the limiter's bucket is
  a count that a new window empties (`RateLimit` has the clocks).

## 3. Runs

Every run terminates with the whole state space explored. A property is listed
with the run that checks it. A property made of several named parts (`LimitHeld`,
`WhatIsMissing`, `PinsAsPressed`, `SectionKeepsUp`, `NumbersTellHistory`,
`DialogTellsAnswer`) holds only if every part does. The type invariants are proved
(section 4) and, but for the ones in `AnalysesTypeOK`, not among the properties of
the runs; what `Scorecard` and `Profanity` keep in their variables is stated and
proved where it is needed (`HistoryInv`, and `Typed` in `FindReadsOverSeparators`).

| run | bounds | shows |
|---|---|---|
| `stream` | 2 services, 2 clients, 2 refreshes, one status | `NoSendOnClosed`, `SnapshotAge`, `NoMissedSignal` (the cache under callers that come, go and dawdle at any step); `ChannelsOfHandlers`, `CaughtUpAfterSignal`; `SignalTakenUp` (liveness) |
| `monitor` | 1 service, 3 statuses, 5 refreshes, 2 confirmations, load and save may fail | `QuietMeansCaughtUp`, `AlertTellsBaseline`, `AlertsAlternate`; `FeedImplemented` (refinement of `LatestFeed`, with its liveness) |
| `monitor_distinct` | 2 services, 3 refreshes | counterexample, see section 6 |
| `log` | 1 service, 11 units of 10 s, one crash, loads, saves and store calls may fail | `NoVerdictOnBlip`, `LogSettles`, `NoRefire` |
| `log_ongoing` | 14 units, no faults | counterexample, see section 6 |
| `analysis` | server: 2 outages, or 1 after 2 old rows, 1 request of the admin, 8 units from the first outage; command: 2 rows, 2 runs, the admin, 2 units; every statement may fail; callers: 3, 2 kinds (limits 2 and 1), 2 months, 3 billed calls a month | types and counters in range (`AnalysesTypeOK`); `TimerVerdictsApart`, `PendingWhileAnalysing`, `VerdictNotDowngraded`, `EmbeddingsOutlive`; `WhatIsMissing`; `SpendAccounted` |
| `summary` | 1 service with 3 statuses, the loop and one transition, 2 changes of what is the case of which the first leaves the numbers' hash alone, 2 days, 1 failure | `BlurbTellsScorecard`, `DailyWithinBudget`; `ScorecardCatchesUp` (liveness) |
| `backfill` | every trail of up to 5 snapshots with 4 change times, 2 runs, each with `-after` 3 or without, failing queries, inserts whose answer is lost, a live server | `TableTellsTrail`, `OneRowEach` |
| `backfill_after` | the same trails and runs, no faults, no server | counterexample, see section 6 |
| `scorecard` | numbers: up to 3 outages from 7 starts and 3 durations (75 s, 90 s, 10 h, and ongoing), 6 ages, units of 15 s; 7 answers of the site; analysis: 3 openings, 2 requests at a time, 1 outage and perhaps an old row, 3 units | `NumbersTellHistory` (medians and uptimes, and that an uptime is too low by the rounding at most), `MoreOutagesNoBetter`, `DialogTellsAnswer` (modal, card and scorecard against the answer of the site); `SectionKeepsUp` (recent, and not left waiting), `ListKnowsIncident` |
| `dashboard` | 2 sites, 2 results each, 2 events on the way, 1 failure (backend, connection or an event) | `NoticeBeforeFirstEvent`, `CardsFollowFeed`; `LiveWhileConnected` (liveness) |
| `page` | contact: 2 texts of which one is too long, 2 dialogs, 2 requests at a time, limit 3, clicks without end, 2 losses; texts of up to 3 characters each, 2 stems, a blank that is no separator; pins: 2 tabs, 2 sites, toasts of 2 units in 4, 1 reload; limiter: 1 client, 2 requests at a time, window 2, limit 2, sweep every 3, 9 units | `OneMailEach`, `RetryHelps` (liveness); `FindsWhatIsSpelled`; `PinsAsPressed` (pins and toasts); `LimitHeld` (how many get through, and who is refused), `BucketsGoAway` |

**Why the bounds are enough.**
*Stream*: a lost signal needs one unread signal and one more refresh; a torn
snapshot needs two keys; one client holding up another needs two. *Monitor*: the
properties are per service, and services share only the order in which evaluate
visits them; counting a check again takes the boot or a signal that is left over, and
the check's own refresh; a down, a change of the kind of failure and a
recovery take five refreshes. *Log*: the clock covers BlipThreshold (6),
AnalysisDelay (9), the contexts (1 and 2) and the delays that make handlers
overlap; with one service a crash costs what a crash can cost, since rows,
baseline and handlers are per service. *Analysis*: interference is between pairs
of analyses, the third actor is the admin's, and the 2 old rows are what makes a
service flap; for the command a first run that may
die and a second one, two rows to come to, and one other analysis of a row are
every pair there is, and new outages write rows it does not look at; three
callers put one more call in flight than the limit, and two months let a unit go to
the wrong one. *Summary*: budgets are shared by all refreshes, rows are per
service, so that two refreshers of one service meet in both; a third call on a day
is one too many for either budget. *Backfill*: five snapshots hold two outages, one
left open, repeated snapshots, snapshots without an entry and changes from one
failure to another; the value of `-after` lies between the two outages. *Scorecard*:
the starts and ages lie on, before and after every edge the code compares with; 75 s
are stored as a minute and 90 s as two, so that durations are rounded both ways, and
outages before first_seen_at move it back.
In the dialog's analysis, a request that comes late needs two under way and a
section between and after them; every duration is one unit, so that each of
them ends before, with and after every other within three. *Dashboard*: results
later than the last one told apart are counted as it. *Page*: two requests for a
retry that overtakes the first, two losses for a retry that is lost too, a limit of
3 that one attempt and two clicks, or two attempts, exhaust; a stem of two letters that is the end of
one of three, and room for either to cross from message to name; two
tabs for a list one of them does not know; limiter clients do not share buckets,
four windows fit the bound and the sweep meets every phase of a window.

**Time.** In `OutageLog` one unit is 10 s: BlipThreshold 6 = 60 s, AnalysisDelay
9 = 90 s, HandlerLimit 2 = 20 s, SaveLimit 1 = 10 s; MinGap 2 is the least time
between two confirmed changes (two refreshes of 15 s, less the up to 10 s by
which the earlier of the two checks may be late). Time does not pass a context's
end while its call is under way: that is what a context is for. In `Analysis` the limits are scaled down
and keep their order and the relations the properties rest on: AnalysisDelay =
EnrichLimit (90 s each), the other limits shorter, a Cooldown longer than both.
PendingFor is 7 there, which is the sum of the five limits it has to cover and
one more; the code's ten minutes leave more room. FlapLimit is 2 for the code's 4.
The limits of the budgets and of the limiter are scaled down too; nothing depends
on their size. In `AnalysisView` CacheTTL (a minute), PendingFor, BlipLimit and
RequestLimit are one unit each, and the list of recent outages has one row.

**Deadlock.** Checked in every run but `backfill` and `backfill_after` (a command
that ends), `scorecard` (a history is recorded, a dialog opened, up to a bound) and
`page` (visitors may go). Elsewhere `BoundReached`, `TimeIsUp` and their like mark
the states in which only a bound of the model has been reached and nothing is
under way; any other state without a step is an error.

**Fairness.** `WF(CacheStep)`, `WF(HandlerStep(c))`, `WF(MonStep)`: the goroutines are
scheduled again, a check ends (10 s), a save ends (10 s). Nothing is assumed of
clients: the server has no write timeout, a write may last for ever
(`ClientStep` has no fairness). `Summary`: the ticker goes on and every statement
and call comes back (contexts); failures come to an end, as nothing can be shown
of a row whose saves always fail; no fairness on changes or days. `Dashboard`:
the refresh loop and the handler go on while the backend is up, an EventSource
that has not given up tries again (the browser's rule), what has arrived is
dispatched; that a stopped backend starts again is *not* assumed. `Contact`:
a request that is under way is worked off (a mail takes 10 s at most), the window of the limiter
ends, and a visitor who is told to try again does so; nobody has to open, edit,
send for the first time, or leave the dialog open. Nothing is assumed of the others
behind the address: they may click for ever.

## 4. Proofs

The theorems hold for every value of the constants under the named assumptions of
the modules (`ServicesAssumption`, `MaxCycleAssumption`, ...). These say that the constants are
sets, numbers or Booleans of the kind meant; that there is a site or a client where
the model needs one; and that lengths of time and limits
are positive where the code's are. `RateAssumption` also says that no request or sweep
waits for the limiter's lock longer than a window, or until the next sweep (one
minute and more, for a critical section without I/O). `ProfanityAssumption` says that stems
are not empty, in lower case and without separators, as the list in `B/profanity` is. Four theorems add a hypothesis; it is
given below with the reason why the code meets it or what it leaves out.

Each follows one scheme: an invariant that is inductive, a lemma for each action,
the property read off the invariant.

- **`SubscriberProofs`**, the cache: `CacheSafety`, that is `CacheTypeOK`, `NoSendOnClosed`,
  `SnapshotAge`, `NoMissedSignal`. `SnapshotAge` is not inductive: it is read off
  `CacheInv`, which says for each result which cycle it is of (the current one,
  or the one before if its check still runs) and for each stage how `cycle` and
  `lastRefreshed` stand; and, for signals, that only channels still to be
  visited may lack a signal and knowledge of the last refresh.
- **`SubscriberProofs`**, the monitor: `MonTypes`, `NoLostRefresh` (`QuietMeansCaughtUp`),
  `LastAlertIsBaseline` (`AlertTellsBaseline`), `Alternation` (`AlertsAlternate`),
  `DebounceBound` (`CountBound`, see section 6) and `FeedSteps` (every step is a step of
  `LatestFeed` or a stutter). `MonInv` consists of `CacheInv`, the types, `ProgressInv` (what is
  done in which order), `NotedInv` (what evaluate has visited it has noted),
  `FreshInv` (no signal there or to come: the snapshot is what the cache holds),
  `FeedInv` and `AlertInv` (the last alert and the change in hand). `CountBound`
  adds an invariant that follows the snapshots, and the signals still to be read,
  in which one check can appear.
- **`SubscriberProofs`**, the stream: `StreamCacheSafety`, `NoChannelLeak` (`ChannelsOfHandlers`),
  `StreamCatchesUp` (`CaughtUpAfterSignal`). `EventInv` follows an event from the
  read of the snapshot to the client: without an unread signal and with no
  notification to come, what the handler has in hand is what the cache holds. It
  needs `ChannelsOfHandlers`: a handler in its loop is registered, so a refresh
  that is stored is one it will be notified of.
- **`OutageLogProofs.BlipsKeepNoVerdict`**: types and `NoVerdictOnBlip`, wherever
  `LimitsAgree` (BlipThreshold + SaveLimit + HandlerLimit <= AnalysisDelay), which
  the constants of the code meet with equality (60 + 10 + 20 = 90 s). `LateInv`
  bounds how late a change reaches the table, `OldInv` says that a row under
  analysis, or with a verdict, is at least AnalysisDelay old; put together, the row a blip's
  recovery closes is too young for either (`BlipInv`).
- **`OutageLogProofs.RestartsDoNotRefire`** (`NoRefire`) and **`TableSettles`** (`LogSettles`):
  saves, loads and store calls may fail, and the process may die anywhere. `ReversedInv`:
  unless the other health was confirmed since, or a Save failed, memory and saved row
  know no other health than that of the last alert; `HandInv` says which of the two has
  the change in hand, and that a row without it is a failed Save's. `SettleInv`, for a service no fault has
  touched: memory and row go along with the last alert (`BaselineInStep`), and
  the table does until the one handler of that alert has run (`RowsInStep`).
- **`OutageLogProofs.DialogTellsOneTale`**: `DialogTellsAnswer`, for every site, code, time,
  number of redirects and threshold (the page's and the backend's agree, by
  `SiteCheckAssumption`): a case for each way in which a check can end.
- **`OutageLogProofs`**, the numbers: `NumbersAreHistory` (`NumbersTellHistory`) and `HistoryOnlyHurts`
  (`MoreOutagesNoBetter`), for any number of outages. `HistoryInv`, the invariant, says that
  outages that are over lie apart, and end by now; `ApartFits` concludes that their
  lengths fit into any stretch of time they lie in, by an induction that takes away the
  latest. What is stored of each is half a minute off at most (`StoredNear`), and so are
  sums for each of their terms (`TotalsNear`): what a window counts is no more than what
  was observed of it but for that, and what it leaves out can only lower the share
  (`LostIsCounted`, `UptimeIsNear`). While the beginning stays, a longer history adds to
  the sums, lowers uptimes and raises counts (`DownGrows`, `UptimeFalls`), and the level
  follows (`MoreIsWorse`); where it moves, windows that are whole stay so (`WholeWindow`). The medians
  are a count of what `Sorted` has on either side of the middle (`Sides`, `MedianMiddle`).
- **`AnalysisProofs`**, paid calls: `Accounting` (`SpendTypeOK`, `SpendAccounted`),
  `UnrefundedCeiling` (kinds that are never given back keep the ceiling itself) and `Ceiling`
  (within one month and if failed calls are not billed, every kind does). The
  argument counts, for each month and kind, the billed calls and the units in
  flight against the counter and the unearned refunds (`Covered`).
- **`AnalysisProofs`**, analyses, of the server and the command next to each other: `AnalysesTyped`
  (`AnalysesTypeOK`), `WhatIsMissingHolds` (`WhatIsMissing`), `NoteTakesNoVerdict`
  (`VerdictNotDowngraded`), `PendingLongEnough` (`PendingWhileAnalysing`), `VerdictsApart`
  (`TimerVerdictsApart`), `EmbeddingsLast` (`EmbeddingsOutlive`). `PendingLongEnough` assumes
  HandlerLimit + AnalysisDelay + GetLimit + EnrichLimit < PendingFor, in the code
  20 + 90 + 10 + 90 s < 10 min; `TimesInv` says where in these limits every timer and task
  is. `VerdictsApart` assumes EnrichLimit < MinGap + AnalysisDelay, in the code 90 s < 90 s and
  the time between two changes: the cooldown is checked long before the verdict
  is saved, and holds only because nobody else's timer fires in between
  (`ApartInv`; `CooledInv` has what the check has seen). `FlapInv`: what counts
  as flapping for a row does not change, so that its note and a verdict exclude
  each other. `OnceInv` and `EmbeddingInv` count the rows that a request of the admin
  may have cost their embedding. `CommandInv` says which rows a run has left behind.
- **`SummaryProofs`**: `BlurbStaysTrue` (types, `BlurbTellsScorecard`), `DayStaysWithinBudget`
  (`DailyWithinBudget`). `GoodInv` follows the hashes of card and blurb through a refresh from
  the read of the row to its upsert, whatever another saves in between. `BudgetInv` counts, for
  the days no refresh has carried over midnight, the calls made and the units held
  against the counter in memory.
- **`BackfillProofs`**: `OneRowForEach` (types, `OneRowEach`) and `TrailIsTold`
  (`TableTellsTrail`), for every trail. What `reconstruct` makes of a trail is
  shown by induction on its snapshots: `ReadInv` says that what is noted is in order
  and has the service down at exactly the times at which the snapshots read so far have
  (`HistoryTold`: incidents do not overlap, and cover the times that are down). For the table,
  `WorkInv` says what is left of a run, `OnceInv` that no row is written that is there, `DoneInv`
  that what was dealt with has a row, and `RowsInv` that an undisturbed row tells of an
  incident, but for the one about to be closed.
- **`DashboardProofs`**: `NoticeGoesForGood` (types, `NoticeBeforeFirstEvent`) and
  `CardsImplementFeed` (`CardsFollowFeed`: cards, for each site, are `LatestFeed`'s).
  `CardInv`: the results of a site on their way to the page come in the order of the
  checks, none older than what the page shows, none newer than the last check.
  That survives a connection that breaks anywhere and a backend that forgets its cache.
- **`PageProofs`**, one invariant for each component. *Form*: `OneMail` (types, `OneMailEach`);
  `ChanceInv` counts the mails of a text, the requests that may still lead to one, and the form
  that may send it, against the answers lost; `AwaitInv` (a dialog waits for one
  request) and `NumberInv` support it. *Pins*: `PinsHold` (`PinsAsPressed`) from `MissedInv` (where
  a tab differs from the entry, another tab has changed it) and `TimerInv` (no timeout
  of an earlier toast is left). *Limiter*: `MapForgets` (types, `BucketsGoAway`) from `SweepInv`,
  `WaitInv` and `AgeInv`; `LimitHolds` (`LimitHeld`) from `PlaceInv` (where a request
  lies to the window it was counted in), `ApartInv` (windows of a client do not overlap),
  `BucketInv` and `CountInv` (a bucket counts its window's requests, no more than
  Max): three windows meet the length of one, and the outer two cannot both be
  full. *Analysis section*: `SectionKeeps` (types, `SectionKeepsUp`) and `AnswerHangsTogether`
  (`ListKnowsIncident`): what an answer has read of its incident stays behind the
  table from statement to statement (`FetchInv`), into the page's cache (`CacheInv`) and the
  section (`ShownInv`). *Texts*: `FindReadsOverSeparators` (`FindsWhatIsSpelled`), for texts of any
  length. `Places` maps the characters of the normalized text to those they come
  from, in order, and onto all that are no separators; a stem found in the one is
  spelled in the other, and the other way round.

**Only model-checked.** Everything under fairness (`SignalTakenUp`,
`ScorecardCatchesUp`, `LiveWhileConnected`, `RetryHelps`, the liveness half
of `FeedImplemented`): the prover has no rule for fairness or ENABLED. Every safety
property of a passing run is proved.

**Induction.** The library's induction theorems, and its theorems on folds, take an
operator as a parameter, which no prover here instantiates. `Induction` gets by without:
`LeastNumber` and `SmallestSet` take the least counterexample of a set of numbers, or
of finite sets, and are used for recursive functions (`Reading` of the backfill, `Normal`
of the texts) and for sums. `Total(v, S)` is the sum of a function over a finite set; that the
function a fold CHOOSEs exists, is unique, and does not depend on the order in
which the set is visited is proved there (`SumDefined`, `SumsAgree`, `TotalSplit`), and
`DownTotal` and `LostTotal` say that the model's sums are such totals.

## 5. Conditions in the properties

Some properties excuse cases in which the code does something else. Each of these
is a behaviour of the code that a run of the model exhibits when the excuse is
taken out:

- `CaughtUpAfterSignal` begins with a client's first signal: a refresh that ends
  between the first event and Subscribe (`B/httpapi/status.go:70-74`) is not
  pushed to it.
- `LogSettles` leaves out `disturbed` services: notifications that use the
  handler's context up leave no row for the outage; two handlers of one service
  can finish in the wrong order; a change in hand dies with the process; a
  baseline that could not be loaded starts empty; a store call fails, or a Save.
- `NoRefire` excuses an alert after a change whose `Save` failed: that is only logged, so
  that after a restart the old baseline stands, and the same alert is given again.
- `SpendAccounted` allows as many calls beyond a limit as units were given back
  without cause: for a call that was answered (and billed) but could not be used
  (`B/incidents/incidents.go:222`), or to the counter of another month than the
  unit's (`B/incidentstore/incidentstore.go:478`).
- `TimerVerdictsApart` excuses an analysis whose query for the last verdict
  failed; it says nothing of the admin's request, which the cooldown after
  another outage's verdict ends without an analysis.
- `PendingWhileAnalysing` is one direction: an outage that is over before its
  analysis is shown as pending for ten minutes though none will come.
- `DailyWithinBudget` leaves out days at whose midnight a refresh was under way:
  it resets the count of the other day. `BlurbTellsScorecard` leaves out a row
  whose last blurb was refused or failed: the new inputs hash is saved with the
  old blurb and asks for no other within 24 hours. What it says of the others is about
  the inputs hash, which leaves out the response time, the days observed, a status other
  than down, and the finer digits of the uptimes (`B/servicehealth/servicehealth.go:122-129`):
  a blurb written while the site was slow stays up to 24 hours next to a scorecard
  that says ok. `ScorecardCatchesUp` is about
  the end: in between a slow refresh may save older numbers over newer ones.
- `TableTellsTrail` leaves out runs in which a `Resolve` was lost, or hit another
  row than its own: it closes the latest open row of the service, and a row left
  open by a run that died is skipped by the next. Both it and `OneRowEach` leave
  out a query of `findID` that failed for a row that is there: its every error is
  taken for a missing row (`backend/cmd/backfill-incidents/main.go:254`), which is
  then written again.
- `WhatIsMissing` (`EveryRowAnalysed`) is about runs in which nothing failed: an error of
  `needsVerdict` passes the row over. The command writes its verdict whatever the row
  has by then (`main.go:144`), so that it may replace the admin's; and its calls are
  not counted against the monthly limit (`main.go:233`), which `SpendAccounted`
  therefore says nothing of.
- `OneMailEach` allows one more mail for each answer that was lost. An answer of
  "sent" does not mean a mail: an error of the mailer is only logged.
  `RetryHelps` leaves out texts that are too long, which the form refuses with the
  same words as a passing failure, and a visitor whose address others use up: if in
  window after window they leave less than the preflight and the post of one attempt
  (`Crowded`), every attempt may be refused, for good (`B/httpapi/httpapi.go:80-83`).
  What it does say is that the visitor's own attempts, refused, lost or repeated, never
  do that, however many there are.
- `PinsAsPressed` (`ChangedByHand`) excuses sites another tab has changed since this one was loaded: a
  tab writes the list as it read it (`frontend/src/lib/hooks.js:51`).
- `FindsWhatIsSpelled` includes stems that begin in the message and end in the
  name: a line break is a separator. Whitespace is taken off the ends by TrimSpace, but
  inside a text only the separators are read over: a stem interrupted by another kind,
  such as U+3000, is not found, though `B/profanity/profanity.go:4` speaks of whitespace.
- `NumbersTellHistory` (`UptimeOfWhole`) leaves out histories with an outage that goes on or reaches
  into the window from before: they count for nothing. Of any history
  `UptimeNotTooLow` says that this flatters: the uptime shown is the true share or more.
  Both allow half a minute for each duration the window counts, since Resolve stores whole
  minutes (`B/incidentstore/incidentstore.go:162`: three outages of 90 s count six), and the
  rounding of the share to ten-thousandths (`Slack`). Both begin an hour after the first check. `B/servicehealth/servicehealth.go:37` has the
  uptimes at -1 "when the window isn't fully observed yet"; the code shrinks the
  window to what is observed and says -1 below an hour only, as the comment on line 91 does.
- `MoreOutagesNoBetter` excuses an outage that is older than all that was known of a
  service watched for less than 30 days: first_seen_at moves back to it
  (`B/incidents/incidents.go:280-287`), the observed window grows, and what is counted in
  it weighs less. A service of two days can go from shaky to mostly stable so.
- `LiveWhileConnected` excuses a closed EventSource: an answer with an error
  status ends it for good and the page makes no other.
- `DialogTellsAnswer`: the fifth redirect is refused though `maxRedirects` is 5 (the
  limit counts requests), and such a site is shown as one that cannot be reached.
- `EmbeddingsOutlive`: a second analysis of a row starts by saving a nil embedding
  over the stored one (`Analysis.SaveSummary`), and may end before it has another;
  one row for each request of the admin can lose it so. Nothing reads embeddings
  yet.
- `ListKnowsIncident` says nothing of a blip, which the list does not have, nor of
  an answer whose list could not be read.

## 6. Findings

- `monitor_distinct`: `B/statemonitor/statemonitor.go:4` says a change is not
  acted on "until the new status holds for `Confirmations` consecutive checks".
  Start evaluates a snapshot at once and again on every signal, so one check can
  be counted at boot and on the signal of its own refresh, and confirms a change
  alone. How far this can go is proved (`DebounceBound`): for any number of
  confirmations, one check is counted three times at most. With two confirmations,
  as in the code, a stored count is never above one, so that a run of the model
  with the code's constant could not fail `CountBound`, and none checks it.
- `log_ongoing`: `B/incidentstore/incidentstore.go:24` says the Resolved fields
  "are zero while the outage is ongoing". dispatch starts one goroutine per
  transition; when a recovery's notifications are slower than those of the next
  outage, its Resolve closes the new outage's row while it goes on.
- `backfill_after`: `backend/cmd/backfill-incidents/main.go:1` says the command
  "reconstructs the incident history", and line 8 that what is there is skipped.
  Resolve closes the latest open row of the service. After a run with `-after`, which
  has stored the outage that is still open at the end of the trail, a full
  run writes an earlier outage and closes the later row in its place.

## 7. Not modelled

Prompts and the parsing of the language model's answers, what mails and Discord
messages say, wording (apitext, text.js, scorecardSentence, computeDisplayStatus, the
badge), the database schema and its migrations, start-up and listening, the CORS
headers and clientIP, the order of the cards, the live status the dialog shows next
to a stored verdict, the external uptime job, the rest of the page (menus, texts, static pages). They are stateless, I/O, or wording; `PROJECT.json` lists
each with its reason. Embeddings are stored or not. Two scorecards with different
hashed fields have different hashes.

## 8. Plan

Order of work, the most important behaviour first:

1. *Done.* Cache, monitor, stream, and the abstract feed, with proofs.
2. *Done.* The log of outages with crash and restart; `NoVerdictOnBlip` proved.
3. *Done.* Budgets and spend, with proofs; analysis; summaries with first_seen_at.
4. *Done.* Limiter, backfill with `-after` and `-analyze`, scorecard with the check.
5. *Done.* The page: dashboard, analysis dialog, contact form, pins. What is left of
   the code is what section 7 lists.
6. *Done.* Every safety property a passing run checks is proved, sums, medians and the reading of
   texts included. What is left to TLC alone is liveness.
