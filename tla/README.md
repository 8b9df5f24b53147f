# A TLA+ model of tidewise-ai

tidewise-ai collects news and market facts, publishes evidence, reports and
events from them, and shows them in a WeChat Mini Program with login and a
personal watchlist. This directory holds TLA+ modules of the parts of it whose
correctness depends on the order in which several actors do things, the TLC
configurations that check them on small instances, and proofs that TLAPS
checks. Paths below are relative to `src/`.

## 1. The system

| Component | State it keeps | Operations | Model |
|---|---|---|---|
| User Service, identity (`user-service/backend/internal/{biz,data}/identity`) | `users`, `wechat_identities`, `user_sessions` | Login, Verify, Revoke, nickname, avatar | `UserIdentity`, `SessionRegistry` |
| User Service, watchlist (`.../watchlist`) | `user_watchlist` | add, remove, list, check | `UserIdentity`, `TrackedCompanies` |
| User Service, server and WeChat client (`server/http.go`, `data/identity/data.go`) | login budget, cached WeChat access token | admission, code exchange, phone number | not modelled |
| Data Service, publication (`data-service/backend/internal/{biz,data}/{evidence,report,event}`) | `raw_evidences`, `evidences`, `report_archive` and split report tables, event tables and links | publish raw evidence, evidence sets, reports, events; plan and apply report storage | `Publication` |
| Data Service, report contract (`biz/report`, `data/report`) | the bodies, scopes and links of a report | validate, store, project; validation again in the Miniapp Backend | `ReportContract` |
| Data Service, facts (`biz/{evidence,event}`, `data/{evidence,event}`) | the same rows, their generated hash and time columns | validate, normalize, store; validation again on every read, replay and list | `FactContract` |
| Data Service, source registry (`.../source`) | `sources` | create, update, delete, publish manifests, import, list, active snapshot | `SourceRegistry` |
| Data Service, stocks (`.../stock`) | `stock`, `stock_daily_quote`, three link tables | catalogue, profiles, reindex, quotes, classifications | `StockCatalog` |
| Data Service, schema migration (`.../dbmigration`) | Goose's version table, session advisory lock | check, apply, rebuild | `SchemaMigration`; readiness in `UatDeployment` |
| Data Service, research graph (`data/entity`, `biz/research`) | reads objects and relations | search from chains, countries, organizations; closure of citations | `ResearchGraph` |
| Data Service, industries, concepts, nodes, chains (`entity/{industry,concept,chainnode,industrychain}`) | their tables and a trigger over paths | create, update, list | `EntityRegistry` |
| Data Service, companies (`entity/company`) | `companies`, industry links | publish, create, update, replace links, projection | `CompanyCatalog` |
| Data Service, storylines (`entity/{macroeconomic,geopoliticrivalry}` and their domains) | domains, storylines, links, the old scalar column | publish, create, update, list, backfill, migrations 92 and 93 | `StorylineCatalog` |
| Data Service, places (`entity/{region,country,organization}`) | regions, countries, organizations, tags, memberships | publish both catalogues, create and update, replace links, members | `PlaceCatalog` |
| Data Service, subdivisions, ministries, institutions | a table each | create, update, list | not modelled |
| Miniapp Backend (`miniapp/backend`) | none | composes calls of the two services | `TrackedCompanies`; server side of `ReportReading`, `ReportContract`, `CompanyPage` |
| Miniapp Frontend, company page (`miniapp/frontend/src`) | hook state, requests in flight | access gate, directory, follow | `CompanyPage` |
| Miniapp Frontend, identity hook (`features/identity/use-identity.ts`) | stored session, one hook a page | refresh, login, logout, profile | `MiniappSession` |
| Miniapp Frontend, home and detail (`features/reports`, `pages/index`) | resource session, tabs, pages of units | load, refresh, retry, change tab, more | `ReportReading` |
| Admin Portal (`admin-portal`) | none | forwards to the Data Service | not modelled |
| UAT deployment (`infra/uat/deploy.sh`, `.github/workflows/deploy-uat.yml`) | recorded releases, two markers, schema version, containers | plan, lock, verify, migrate, start, record, roll back, recover | `UatDeployment` |

How they interact. The Mini Program calls the Miniapp Backend over HTTP with the
session token in a header. The Backend asks the User Service to verify it and the
Data Service for facts. The services share no process memory: what their
concurrent requests share is PostgreSQL, under row locks (User Service, entities),
transaction advisory locks (publication, sources, stocks), table locks (stocks,
companies, storylines) and one session lock (migrations). The Mini Program is one
JavaScript thread whose callbacks interleave at every `await`; its pages share the
stored session. Reports go from their publisher through one validation into storage and
through another, in the Miniapp Backend, to the reader. The deployment is a workflow
that plans in one job and acts in another, on one host, over files that survive a
killed run.

What is hard. Racing first logins and their retries; authorization and write in
one transaction against logout and disablement; commits whose acknowledgement is
lost; rival publications of one key, and publications while storage changes its
form; two validators of one format; answers put together from several statements
or pages while the facts change; triggers, foreign keys and table locks that make
calls wait for each other; answers that arrive after the page has moved on; a
deployment killed or failing at any command. `PROJECT.json` lists every such hazard
with its line and the properties that cover it.

What makes each component correct. *Identity*: one account per openid, born with
its first session; a session opens the account of the openid it was exchanged
for; no write through a revoked session. *Publication*: all or nothing, once per
key, every citation resolves, a repeat is recognized. *Contract*: what was accepted
is stored with all it cites and can be read. *Sources*: the limits of the set hold
at every commit, fixed sources stay. *Stocks*: dates never go back, quotes are
final. *Migration*: a report says what the run did. *Graph*: a whole answer or a
refusal. *Entities*: hierarchy, links and memberships consistent at every commit;
a listing or a projection shows what is there once. *Company page*: what is
shown answers what was asked, by whom it was asked, and nothing before the session
was verified; it neither hangs nor goes blank. *Tracking*: a walk through the followed
companies or through a search shows each once and misses none; no list is refused for
what is in it. *Identity hook*: no login thrown away,
no profile of another session. *Home*: never an older report, no gap among units.
*Deployment*: the record is whole or marked, no release runs on a schema it does not
know, an interrupted cutover can be resumed by its own release and by no other.

## 2. Modules and how they correspond to the code

`PROJECT.json` "map" gives, for every definition, the lines it stands for.

**`UserIdentity`** (`MCUserIdentity`, `UserIdentityProofs`). Tables hold committed
rows. A call is a record with a step (`pc`) and what its transaction has read;
its writes appear in the step that commits. Row locks are not stored: they follow
from the step a transaction has reached (`Holders`, `SessionHolders`), since every
write is to a row locked by `SELECT ... FOR UPDATE` or inserted. `FOR UPDATE` on a
missing row locks nothing, so two first logins both go on to insert: the second
waits for the first (`Inserting`), gets a unique violation and retries, at most
three times. A call can fail at every step, with its commit done or not (`Fail`).
An operator can disable a user at any time (external: the code only reads the
status). One account row stands for the pair of `users` and `wechat_identities`
rows, which are always created together. The call's name stands for the random
ids and tokens it generates.

**`SessionRegistry`** is the abstract specification: profiles by openid, sessions,
and Login, Logout, Write, Disable as single steps, without transactions, locks or
retries. `UserIdentity` implements it (`ImplementsRegistry`): accounts map to the
profile of their openid and each commit is one abstract step.

**`Publication`** (`MCPublication`, `DataServiceProofs`). A call takes its advisory locks one at a time
in the order the code sorts them, reads, and commits all of its rows at once, or
fails with the commit done or not. The locks, reads and outcome of the four kinds
of publication differ and are operators by kind. `version` is what serves: the
version before the split of report storage, nothing (the cutover), the one after
it, which has stricter rules; `StopOld`, `PlanStorage`, `ApplyStorage` and
`StartNew` are the steps of the storage cutover, and planning and applying stay
possible beside publications. An evidence id derives from its raw evidence and
statement, so the model uses that pair; the check that such an id does not
collide falls away with it. Contents are model values with the evidences they
cite and whether they pass the later rules.

**`CompanyPage`** (`MCMiniapp`, `CompanyPageProofs`). Each action is one callback of the page with
everything it runs up to its next `await`: shown, hidden, typed, filtered, scrolled,
followed, a timer, an answer. The refs `sequence`, `searchSequence` only serve to
recognize an answer that no longer counts; the model marks such a request as not
live. `Refresh`, `Search`, `Left`, `Failed` are the functions of the hook, composed
as the code composes them: an answer that finds another session in storage makes
`current()` start over, and a rejected one clears the session. React renders
within the callback that changes the state, so the hook's `enabled` never lags
behind the gate. Opening the login page either replaces the page or fails; a page
hidden meanwhile gives the redirect up. Other pages save a new session or clear
the stored one at any time: that is more than `use-identity` does, not less.
Each session belongs to another account, which is the strictest reading of "never
show another account's rows". `SaveSession` and `ClearSession` stand for what
`MiniappSession` models in full. Only this page follows companies of its accounts.
The list the hook keeps in watchlist mode, and unfollowing, are left out. Every
search has companies to find, one to a page.

**`UatDeployment`** (`MCUatDeployment`, `UatDeploymentProofs`). A workflow run has a planning step without
the lock and the commands of `deploy.sh` under it. Every file of a release record
is written by itself, so a crash leaves a mixture; a file being written is torn.
Slots are `current`, `previous` and one checkpoint for each cutover; the write marker
and the cutover marker are the files of that name. A command may fail (at most
`MaxFaults` times a run) and takes the path of `set -e` and the EXIT trap; a run may
be killed before any command. A release stands for its commit, its images, its
compose file and its environment. Operators' confirmations are taken as given. The
workflow's `concurrency` group is given no credit: plans of several runs overlap and
only the lock on the host orders them.

**`SourceRegistry`** (`MCSourceRegistry`, `DataServiceProofs`). A mutation begins, takes the advisory lock and
decides and commits in one step, since whatever it reads is protected by that lock. It
keeps the clock of its beginning, because `now()` is the start of the transaction: a
call that waited stamps an earlier time than one that committed before it. The body of
a source is one value with a size; `Jsonb` says what the database makes of it. The size of
the set is counted as a set of bytes (`Total`).

**`StockCatalog`** (`MCStockCatalog`, `DataServiceProofs`). Five commands, each a transaction that takes its
locks one by one: advisory keys, `SHARE` and `ROW EXCLUSIVE` table locks, rows, and the
key locks of foreign keys. `Blockers` says whom the next step waits for; a
cycle makes one of them fail. Decoding, the declared count, the rules of replacement
and of equal quotes in another notation are operators.

**`SchemaMigration`** (`DataServiceProofs`). A run of `dbmigrate` statement by statement: the session lock, the
version and the pending set, Goose's one transaction a migration on another
connection, the second reading and the report. It may fail or be killed anywhere.

**`ReportContract`** (`MCReportContract`, `DataServiceProofs`). One draft is validated and
stored by the publisher's rules, field by field as `ValidateUnifiedUnit` and its
helpers check them, with the scope path of every array of evidences, its links
and the read projections; then pages and details are read through the reader's own
rules. A text is a length class, an id is well formed.

**`FactContract`** (`MCFactContract`, `DataServiceProofs`). A raw evidence, a set of evidences
and an event are validated and normalized by the rules of `biz`, stored, and validated again by the
rules of `data` on every read: a repeat of the publication, a single read, a list. Between the
two stands PostgreSQL, which computes the hash of the raw text and two time columns of an event
(external: `Cast` and `CastTimes` say what its casts make of a text with a backslash and of a
time with nanoseconds). A list counts in one statement and reads in another. A text is a word and a number of
characters, a time a number of nanoseconds; publications here are one after another, their
races are those of `Publication`.

**`ReportReading`** (`ReadingProofs`). The reports of the Data Service take their time of publication before they
are committed. The Backend selects the home report by up to two reads of the list and
walks the list, page by page, for a detail. The home page is `session.ts` (a request of
an older generation is not live), the hook over it and the mounted home with its
effect, which React runs some time after the render that causes it.

**`MiniappSession`** (`MiniappProofs`). Every open page has a hook with its own token, profile and running action;
they share the token in the storage of the device. The User Service revokes, disables,
answers, refuses, or its answer is lost.

**`TrackedCompanies`** (`MCMiniapp`, `MiniappProofs`). The tracking endpoints of the
Backend with what they call: a call is a record that says which service it waits for (`pc`), and,
for a list or a search, how far the client's walk has come: the pages shown (`shown`), the cursor,
the page under way, and `kept`, the stocks that were there all the while and must be shown. A User
Service transaction locks the user's row and does its work in one step, except the list, which
counts in one statement and reads in another with the lock held (`Lists`). The cursor is the last
row of a page, the offset of a search the number of companies the client has. The Data Service is
read with at most two attempts. A stock may come to be found by other lookups, or no longer, at any
time; `Unfound` and `Forgotten` then take from `kept` what a walk need not show any more. Sessions
and users end as `UserIdentity` has it in full. Requests refused for their form alone are left out.

**`ResearchGraph`** (`MCResearchGraph`, `EntityProofs`). A search is the statements of `data.go` in their order:
validation of the references, the count under the budgets, the payload, and for
countries and organizations a list and its links. Facts carry `created_at` and
`updated_at`; facts updated after the analysis time cannot be answered. The writes of
the other catalogues go on between the statements. The count cuts the walk at one
object more than the budget, as its SQL does.

**`EntityRegistry`** (`MCEntityRegistry`, `EntityProofs`). Edits of industries wait for rows as the trigger of migration 56
takes them: the row itself, the parent (`FOR SHARE`), the children; the other three
kinds have no such rule and are single steps. One client lists a kind page by page
with a cursor; the order of a page is that of the query (industries by path, then by
identity). A creation or update that a stored name or code refuses is a step that changes nothing.

**`CompanyCatalog`** (`MCCompanyCatalog`, `CatalogProofs`). Table locks in the order in which each statement takes them,
those of the trigger that keeps the identities of objects apart (migration 91) included: a creation of a
company reads the tables of industries, concepts, nodes and chains, and a creation of one of those reads
companies (`CreateOtherObject`), while a catalogue locks them all. `"concept"` stands for concepts, nodes and
chains, which every one of these calls takes next to each other. The publication's staging, upsert, deletion and comparison are one step under its
exclusive locks. The projection is a client that follows cursors with a snapshot
digest and starts anew when it is told that the snapshot changed.

**`StorylineCatalog`** (`MCStorylineCatalog`, `CatalogProofs`). The macroeconomic and the geopolitical stores have
the same shape and share no table, so a behaviour is about one of them
(`storyKind`); where they differ (what a catalogue file may give, which version) the
operators do. A publication is one step under its table locks, a single write goes
row by row, waiting for unique names; a rename of a domain is one statement that locks its row and
then asks for the name (`LockDomain`, `UpdateDomain`), so that two can exchange names and deadlock. Before migration 93 the scalar column is
there, old writers fill it, the backfill copies it and the migration refuses to drop
what was not copied.

**`PlaceCatalog`** (`MCPlaceCatalog`, `CatalogProofs`). Publications of regions and of the organization catalogue, and operators'
calls, statement by statement where others can come between. A release upserts row by row in the order of
its file (categories, functions, tags by their function) and locks every row, also one it leaves as it is
(`held`, `NextRow`); `RowRank` is the order of the codes. Its three deletions, which nothing separates but
their own waits, are one step. An operator's commit
checks the deferred keys of the tags in the order of the request and locks each tag (`ShareTag`). The rest are row
locks of `FOR UPDATE` and of references, and the exclusion constraint on the days of a membership. A stored code can
refuse a creation.

**Compositions.** `MCAccounts` (User Service calls or identity hooks), `MCDataService` and `MCServices`
(publication, contract, facts, sources, stocks, migration or User Service), `MCMiniapp`
(company page, reading or tracking) and `MCDataEntities` (graph, registry, companies, storylines or places)
put parts whose interleavings do not matter to each other into one instance. `active` is chosen in `Init` and never
changes; the other parts rest in one state. A behaviour of such a
composition is a behaviour of one part, and the properties of each part are
checked over all of them. Parts that meet in a property are in one module: the services'
sessions with logins and the watchlist, evidence with reports and events, publication with
reading, the graph with the writes of the facts it reads, creations of concepts, nodes and chains with the catalogue of
companies, the deployment with migrations and readiness. The parts of `MCDataEntities` share more tables than that:
an update of an industry or a concept waits for a catalogue of companies that has locked its table. Such waits are left out. Each part's calls are transactions that read and write the rows of
that part, so a wait elsewhere only delays them, and a circle of waits is ended by PostgreSQL, whose victim
is rolled back as in `BreakDeadlock`; between which calls of two parts such circles can arise is not said.

## 3. Runs

| Run | Instance | What it shows |
|---|---|---|
| `identity_accounts` | 3 calls, 2 openids, 2 unionids; or 2 pages, 2 sessions | racing first logins, contradicting unionids, retries: one account per openid with its first session and no orphan, the right session, a retry always finds the winner; a page shows the profile of its own session and a login is lost in no unexpected way |
| `identity_registry` | 3 calls, 1 openid, a clock of two ticks | replacement, logout, writes, expiry and disablement overlap: no write unauthorized at its commit, replaced sessions revoked, and the refinement of `SessionRegistry` |
| `publication_races` | 4 calls of any kind on 1 key, 2 statements | sets never mixed, citations resolve, one answer a key, storage complete after the cutover, repeats recognized |
| `services` | one part, 2 calls each: publication of 2 keys and 2 statements, drafts of reports and facts that differ from a plain one in one part or two, 3 sources, 2 stocks on 2 dates, 2 migrations; or 3 User Service calls; fairness | every call ends; reviewed plans only; what is accepted is stored, cited and read but for named differences; limits of the source set; facts and quotes kept; where stock writers can deadlock; migration reports are true |
| `data_entities` | one part, 2 calls each: 7 objects of the graph; 3 industries; 2 companies and creations of other objects; 2 storylines of 2 domains; or 2 organizations with 2 releases of 3 categories, 2 functions and 2 tags, memberships of 2 days; fairness | hierarchies, catalogues, memberships and listings stay consistent, deadlocks arise only between the named calls; answers and projections are whole; every call ends |
| `miniapp` | 2 sessions, 2 queries, 2 companies, 2 searches in flight; or 2 reports with up to 2 units of 2 kinds, 2 requests in flight; or 3 stocks, a call that reads and one that writes, 2 industries | rows match the search and the account, pages have no gaps, follows are shown as the server has them, nothing without verification, never blank or stuck; the home never goes back, its units are a prefix, reads of several statements miss nothing; walks through followed companies and searches are exact and never refused |
| `deployment_recovery` | 3 runs, 4 releases, one cutover of 2 migrations, a fault a run, crashes anywhere | record whole or backed by its marker, no old release on a new schema, a half-done cutover marked and continued only by its release, plans still valid, success complete |
| `company_page_return`, `published_details`, `deployment_data93`, `deployment_rollback`, `deployment_recorded` | smallest that show it | the code does other than its documents say (section 6) |

A type invariant is the first conjunct of one property of each run (`AccountsAreWhole`,
`RecordIsSafe`, `EvidenceSetIsOnePublication`, `SourceSetIsWithinLimits`, ...) and is proved or checked
with it.

Why the bounds are enough to be worth something. Three calls are a login, its
rival, and a third that logs out, replaces or retries against them: conflicts need
two calls, retry after a rollback a third. One openid suffices for everything about
one account, two for confusing them. With four publications of one key a stored one,
two rivals and a repeat fit in one behaviour, and evidence, report and event can
follow each other. Lock order needs two calls with overlapping statements; a mutual
wait needs two calls, and the instances of the catalogues contain for each lock the two
orders the code takes it in. The company page has at most one search whose answer counts
and the bound allows one that does not beside it; two sessions give old, new and none, of which one ends while the page lives (`Sessions`); two
pages give a first page and a next one; one of the two companies is wanted (`Wanted`).
A list of two companies, one to a page, has a first page, a next one and rows that are followed
in between or anew; a search has a third stock to push the others back. One call reads and
another writes: two readers share nothing, and the writer's lock meets the reader's.
Two reports give an older and a newer one that can be stored in the other order, a
day of one tick a day that ends. Three industries give a parent, a child and a new
parent. Two releases of one catalogue share codes, drop one, and move a tag, so that they list the tags in different orders. The drafts
of the contract (`MCDrafts`) are a plain report and those that differ from it in one part or
two (provenance of a reasoning and of its asset): the rules relate no more of them. The
drafts of facts (`MCFactDrafts`) are likewise a plain one and one that differs in one part, at the
limit of each length and one beyond, sent in either order and again. Three
deployments are one that is interrupted, one that must be kept out and one that resumes;
two files in a record make a mixture possible; a cutover of two migrations has a
middle. A mutant for each property (in `PROJECT.json`) shows that these bounds let it
fail.

`CHECK_DEADLOCK FALSE` stands where calls or runs are served once and the system
rightly ends. The Mini Program never ends and is checked for deadlock.

Symmetry is used over calls, runs and sessions, which appear in no ordering, and not
in runs with temporal properties of fairness. There, `EveryCallEnds` and
`EveryEntityCallEnds` are checked for one of the interchangeable calls.

## 4. Fairness

`services` assumes strong fairness of what each Data Service call does next, and
`data_entities` likewise. The Go server runs each request in its own goroutine; strong and
not weak, because a lock may be free and taken again: PostgreSQL grants locks in
the order in which they were asked for, so a call that finds a lock free again and
again gets it. Being the victim of a deadlock is one of the things a call does next:
PostgreSQL breaks deadlocks after a second. For `Publication`, whose calls must not
deadlock at all, no such step exists. The User Service's calls have weak
fairness: a transaction that can go on goes on, and a row lock that stays free is granted.
The ten second deadline of the handlers is not used. Nothing assumes that calls are
made, that operators act, or that clocks move. The order of locks in the User Service is
the user's row before the session's, as PostgreSQL takes them in the one statement that
locks both; only the operation `add` of the authorized ones is in this run, for
they all take the same locks.

No fairness is assumed of the Mini Program or the deployment, whose properties are all
safety. `PageIsNeverStuck` and `HomeIsWhole` say instead that whoever waits has a request
or a callback that will end the wait.

## 5. Proofs

`UserIdentityProofs` proves for any number of calls, openids, unionids and stocks,
and any clock bound:

- `TypeCorrect`: `Spec => []TypeOK`;
- `AccountsInvariant`: `Spec => []AccountsInv`, and from it
- `UniqueAccounts`, `AtomicFirstLogin`, `OneRetryIsEnough`: `OneAccountPerOpenID`,
  `AccountBornWithSession`, and the property `RetryFindsWinner`;
- `WholeAccounts`: the property `AccountsAreWhole`, which joins the first two with the type
  invariant and is what the run checks.

The argument. None of the three is inductive. That an insert finds no account of its
openid at commit follows because it found none when it took the index entry and
every rival insert waits for that entry (`InsertsExclude`); that a retry finds
the winner follows because a unique violation is only raised once the winner has
committed, and accounts never go away. `AccountsInv` joins the properties with what a
call knows at each step (`RequestInv`): rows of its own only when done, a row it
locked is committed, a repeated attempt means a committed account. The proof has one
lemma for a step that leaves the tables alone and one for each kind of step that writes
them, and combines them in `AccountsInvStep`. It assumes `ConstantsAssumption` of
`UserIdentity` only: `None` is not a value, and the clock's constants are naturals.

Its second part goes on from there to every safety property the runs check of
`UserIdentity`, and to its refinement:

- `ServiceInvariant`: `Spec => []ServiceInv`, and from it
- `SessionsMatch` (`SessionMatchesExchange`), `ReplacedSessionsEnd` (`ReplacedSessionRevoked`),
- `AuthorizedWrites`: of every step, `WritesAreAuthorized`;
- `ServiceImplementsRegistry`: `Spec => ImplementsRegistry`, the service implements
  `SessionRegistry`.

The argument. `SessionsInv` adds to the accounts that an account's row lock has one holder
(`OneHolder`), that what a transaction has read of the rows it has locked is still so
(`LockedRowsStand`: the user active, the unionid not contradicted, the session that authorizes it
live and of the locked account), that a call only presents sessions that exist (`CallKnows`), and
that a session's account has the openid of its login (`SessionKnows`). Every
step that writes a table is shown not to write what another holds (`TableSessionStep`); a logout waits for
the holders of the session, a disablement for those of the account. The refinement then maps one
step at a time: the profile of an openid is the row of its only account
(`ProfileOfAccount`), so a login's commit is one `Login` of the registry (`LoginMaps`), an
authorized commit one `Write`, a logout one `Logout` or nothing, and every step before a commit a
stutter (`OtherMaps`). It also assumes `NoneAssumption`: `None` is no answer.

`CompanyPageProofs` proves for any sessions, queries, filters, number of companies and
number of searches in flight: `TypeCorrect` (`TypeOK`), `RowsAnswerTheSearch`
(`ResultsMatchSearch`), `GateGuardsContent` (`ContentIsVerified`), `PageIsNeverBlank`
(`NeverBlank`), `ButtonsFollowTheWrite` (`BusyWhileWriting`) and `LoadingHasACause`
(`LoadingIsSearching`); `PageGoesOn` joins the last three with the type invariant into the
property `PageIsNeverStuck`, which the run checks. `PagesHaveNoGap` (`PagesAreContiguous`) and
`MembershipIsShown` (`FollowShown`) are about the rows themselves.

The argument. `Inv` joins `TypeOK` with `PageInv`, which adds to the properties what
holds while requests are in flight: the gate is open exactly when the hook is
mounted, and a pending check belongs to the present visit (`GateInv`); a search that
counts asks what the page now wants, so its rows fit whenever they come
(`SearchesInv`); the page that loads for a follow has its search or will get it, and
a search is awaited only by a follow that was answered, which makes the end of
that search the end of the follow (`WriteInv`). The rows need a second invariant beside it:
the search that counts asks for the first page or for the one after those shown (`PagesOK`); a row,
also one that is still on its way, says what the server holds unless the follow under way or a
lost answer explains the difference (`RowKnown`); and an answer of that follow tells the truth about
the server, which only ever adds follows (`WriteKnown`). The proof follows the hook: one lemma
for each of its functions (`Drop`, `Search`, `Refresh`, `Disable`, `Left`, `Failed`,
`Shown`, `Freed`, the confirmed rows) says what it leaves, one for each action
composes them, and `StepInv` combines the actions. It assumes
`ConstantsAssumption` and `NoneAssumption` of `CompanyPage`: there are queries and
filters to choose, and `None` is no value.

`DataServiceProofs` is in parts. Its part about reports proves for every set of drafts, of any size and depth:
`AcceptedDetailIsRead` (a unit that the publisher's validation accepts is read exactly if
it is free of the named differences) and `PublishedIsRead`:
`ContractSpec => []OnlyDivergencesAreRefused`. The argument follows the format: a lemma for each
part of a detail (metrics, nodes, edges and graph, blocks, reasonings, companies) compares the two
rules for that part, and each larger part cites those of its members. It
assumes only that the texts of metrics are of the length classes (`DraftTexts`).

Of the same drafts `AcceptedReportsAreKept` proves the other half of the contract,
`ContractSpec => []StorageIsFaithful`: the links of a stored report are its citations, each
under its own place and in its own order, and storing fails for no other reason than keys that
nothing checks. The argument is about the walk of `unifiedEvidenceScopes` over the document.
The citations below a place make a `Branch`: their paths go on from the path of the place through its
fields, and two that differ have different paths if the names of the elements on the way tell
elements apart (`Labels`). A lemma for each part of a report shows it a branch, given the labels of
its arrays (`ReportIsBranch`). What tells elements apart is, for places, the index of an element, always
(`PlacesTellApart`), and for the stored paths its local key or its index, which the validation
ensures but for the keys of companies (`PathsTellApart`, `KeysFit`). So rows and citations correspond one to
one, what the read projection looks for under a key is found (`UnitIsAskedFor`,
`CompanyIsAskedFor`), and the links ask for nothing else (`ListsAreCounted`). `ContractInv` says that a
draft that failed or was stored was accepted, and that storage failed exactly if it does not fit
(`StorageFits`). Assumed are `DraftForms` (drafts are decoded: arrays, whose elements have a local key or
have none) and `KeysHaveRoom` (a key that is too long for a path is none of the valid ones, no
field and no index).

Its second part proves for every set of drafts, of any texts, times and lengths:
`AcceptedFactsAreRead`, `FactSpec => []FactsAreRead`, the part of `AcceptedIsKept` about
evidence and events. The invariant `FactInv` says that every row is what an accepted
publication is stored as, and that a set is only below a raw evidence that could be read. From it a lemma for
each form compares the writer's rules with the reader's: cutting two times to microseconds
keeps their order (`TimeIsRead`), a set has as many rows as evidences were sent
(`RowsOfASet`), the nearest microsecond of PostgreSQL is that of Go unless the time is half way
(`CastIsRead`). It assumes `FactForms`: the drafts have the form in which requests are decoded,
and `Null` is neither a number nor a time.

Its third part is about the schema: `ReportsAreTrue` (`MigrationReportIsTrue`) for any number of
runs and migrations, killed or failing anywhere. `MigrationInv` ties what a run has read to the
ledger: a run past `pg_advisory_lock` holds it alone, so the migrations that were pending when it
looked are the ones it has applied and those still above the version
(`RunFits`). Nobody else moves the version (`OtherRunsFit`), hence the second reading
agrees with the count. Assumed is `MigrationConstants`.

Its fourth part proves for any stocks, files and number of publications `DeadlocksAreNarrow`
(`DeadlocksNeedAnUnwrittenRow`), `StockFactsStay` (`FactsKeepTheirDate`) and `QuotesStay`
(`QuotesAreFinal`). `StockInv` says how far each publication is: it waits and holds nothing, holds
rows in key order, or shares the table with other readers; rivals of one advisory lock
are not both past it, and a publication that shares the table keeps out all that write rows
(`Apart`). A decision was taken on the locked row and is still right when that row is written,
although rows are decided on one by one (`DecisionHolds`, `Succeeds` is transitive). A cycle of waits then
must contain a publication that waits for the table before it wrote, because row locks are taken in
one order (`DeadlocksAreNarrow`). The proof showed that `QuotesAreFinal` needs the premise that the batch names
known stocks: a file may list a stock that has no quotes in it, and is then refused
however often it is sent. Assumed is `StockConstants`; that `Stocks` is finite gives rows an order.

Its fifth part is about the sources: `SourcesStayWithin` (`SourceSetIsWithinLimits`) and, of the steps,
`FixedSourcesAreKept` (`FixedSourcesStay`), for any sources, requests, manifests and limits. `SourceInv` says that
the stored set is within its limits (`RowsWithin`), that one call at a time is past the advisory lock, and
that what such a call has seen is what is stored (`SourceCallFits`). The set is measured before the
database sets its stamps, so the step is about a row that takes the place of the candidate it was measured
as (`TakesPlace`): its body is not larger than what was sent, and neither are its stamps.
A sum over a set is defined by induction, which is out of reach; what is summed is therefore a set of
bytes, counted (`Total`), and a smaller row is a smaller set of them. Attempting this proof refuted an
earlier form of the property, which said that a complete read fails only for a body that grew when it was
stored. It also fails for stamps: `now()` has no trailing zeros, so an update measured with the
stamp of the row and stored with a longer one can take the answer over its limit; the property now names
this (`LeastWidth`). Assumed are `SourceConstants`, `SourceStamps` (what JSONB reads back it stores
unchanged; manifests have no stamps and imported documents have them in order) and `SourceRequests`.

Its sixth part, the first in the module, proves for any number of calls, keys, contents and statements every
safety property that the runs check of `Publication`: `OneSetPerRawEvidence`
(`EvidenceSetIsOnePublication`), `CitationsStayResolved` (`CitationsResolve`), `RivalsAgree`
(`OneAnswerPerKey`), `StorageStaysComplete` (`StorageIsComplete`), and of its steps
`OnlyReviewedRemoved` (`RemovedAsReviewed`) and `RepeatsAreReplayed` (`ReplayIsAccepted`).
None of them is inductive: what makes a commit right is what its call read several steps
earlier. `PublicationInv` therefore says that a call that has read holds all of its locks, that
no two calls hold the same one, and that what a call found is still so when it inserts
(`StillUnpublished`). From the first two follows that two calls about to write never share a
key, nor a set the key of its raw evidence (`KeysAreExclusive`), so a commit cannot
disturb what another has read (`CommitKeepsReads`) nor meet a unique key (`NoClash`). The rest of
the invariant ties every row to the ended call that wrote it (`RowsHaveCalls`) and the tables to each
other (`TablesAgree`). The steps before the commit leave the tables alone and share one
lemma (`QuietStep`). Assumed is `ConstantsAssumption` of `Publication`: there are keys
and contents, citations are of evidences, and the statements are finitely many numbers.

Its last part puts these together. A behaviour of `MCServices` exercises one part; the others rest, and an
invariant of `[Next]_vars` survives both (`ServicesPartsStep`). So `ServicesInv`, the conjunction of the
parts' invariants, gives `ServicesKeepTheirPromises`: under the specification that the run `services` checks, every
safety property of that run (`OnlyDivergencesAreRefused`, `AcceptedIsKept`, `SourceSetIsWithinLimits`,
`DeadlocksNeedAnUnwrittenRow`, `MigrationReportIsTrue`), and of its steps `PublishedFactsAreKept`
(`PublishedFactsStay`) and `ReviewedAmongServices` (`RemovedAsReviewed`).

`CatalogProofs` is about the catalogues that are published as a whole and edited row by row.

Of companies it proves `ProjectionsAreSnapshots` (`ProjectionIsOneSnapshot`): whatever the catalogue does
between the pages, the companies a client has collected are the first ones of the list of one
snapshot, and its cursor is the code of the last (`ReaderInv`). A snapshot's list has every
company at its place in key order (`PlacesFollowKeys`, `PlacesAreFilled`), so a page behind the
cursor is the next piece of it (`PageIsNextPiece`). Assumed is `CompanyConstants`: finitely many
codes, their ranks positive, since 0 stands for the empty cursor.

It proves what `EntitiesAreConsistent` says of companies, for any number of them, of
calls and of orders: `CompaniesStayConsistent` (`CompaniesAreConsistent`), `RefusalsAreLinks`
(`ConflictsAreLinks`), `DeadlocksNeedACatalog` (`OnlyCatalogsDeadlock`) and `CompaniesTyped`. Two facts
carry it. After a catalogue is applied the rows are exactly those of the file, whatever was stored before
(`UpsertedIsStaged`), so ids are as unique as in the file and only links can
refuse it. And a call that waits stands at one place of its list of tables
(`LockStage`), where a catalogue holds its tables alone (`TablesAreExclusive`): two catalogues meet at the
advisory lock, and one that asks for the industries holds nothing another call can ask for. Assumed are
`CompanyConstants` and `CompanyInputs`: the rows stored at first have unique ids, as the
primary key demands, and a catalogue is a decoded file.

Of places it proves `PlacesStayConsistent` (`PlacesAreConsistent`), `DeadlocksAreOfReleases`
(`OnlyReleasesDeadlock`) and `PlacesTyped`, for any codes, files, organizations, days and calls. A
commit is right because of what was read before it. `PlaceInv` says what each call may rely on
(`PlaceCallFits`): the regions that were counted under a country's lock are there; a release that is
about to commit drops what the stored catalogue has beyond its file and nothing refers to it
(`Unreferred`); an organization about to be written is there with what its new row names. Of two calls it says
that none drops what a row about to be written
refers to (`PlacesApart`), which is what the key locks of foreign keys are for. Releases hold the rows they have
upserted and no row twice; what a release holds comes, in the order of its file, before what it
lacks (`RowsHeld`), and one that has left the upserts holds all of its file, so there is one of them
(`OnePublishes`). Two releases that upsert cannot wait in a circle (`UpsertsDoNotDeadlock`): each would lack
a row of the other's, of the same kind since categories come before functions and these before tags; categories and functions have one order in
all files, and of two tags the one that moves would have to lie behind and before its new function at once
(`RanksAreOrdered`). What is left are the waits that `WhoWaits` lists. That two
memberships of a pair never share a day is the exclusion constraint, checked when the
row is there (`CheckMember`). Assumed are the forms of files, orders and first rows
(`PlaceConstants`, `ReleasedFiles`, `PlaceOrderFields`, `FirstPlacesAreConsistent`); of two releases it is assumed that
they have a code in common, as versions of one catalogue do, since that code is what one waits at for the other.

Of storylines it proves `StorylinesReadable` (`StorylinesStayReadable`), `ReplaysChangeNothing`
(`ReplayChangesNothing`), `DeadlocksAreOfRenames` (`OnlyRenamesDeadlock`), `StorylinesTyped` and, of the
steps, `StorylinesAreWrittenWhole` (`StorylineWritesAreWhole`), for both copies, before and after the cutover.
`StoryInv` says that names, codes and derived identities tell rows apart, that before migration 93 the
column and after it a link gives each storyline a domain (`CutoverFits`), that two calls write different rows
under different names, and that what a publication has locked nobody else has
(`StoriesApart`). A write relies on the domains being there and on the links it is going to replace
being those it read (`StoryWriteFits`). A publication upserts row by row; that it
is a replacement of the whole follows since a valid file has each code and each name once. A rename, of a storyline or of a domain, holds its row and
asks for a name of its own kind, so a cycle has two of them; a publication holds its tables, and a creation's row
cannot be asked for by anybody. Assumed are `StorylineConstants`, `StorylineFileFields` and
`FirstStorylinesAreReadable`.

`MiniappProofs` proves for any stocks, sessions, users, calls, page sizes, lookups and
industries `WatchlistServed` (`TrackSpec => []WatchlistIsServed`), and of its parts by themselves
`TrackTypes`, `WalksShowEachOnce` (`WalksAreExact`), `SearchesSkipNothing` (`SearchesMissNothing`)
and `ListsAreNeverRefused` (`ListsAreServable`).

The argument. That a walk is exact is a fact about a shown page; inductive is what it follows from
while a page is under way. `TrackInv` says so of each call (`CallOK`): a page that was read holds
of the kept stocks exactly those from the cursor to the next one (`ListPageOK`), or, in a search,
everything kept lies behind what was shown (`SearchPageOK`). `PageIsFirst` and `PageIsAll` are the
facts about ORDER BY and LIMIT: the first n rows are those up to the row the cursor names, since
the keys are totally ordered (`KeysAreOrdered`). Between the two statements of a list the row lock
keeps the total; an insert moves no row that is there (`ON CONFLICT DO NOTHING`), a removal is
`Forgotten` (`CallForgets`); an offset is safe because what was shown and is still found comes
before what is kept (`SearchStocksKeeps`). Assumed are `TrackConstants` (the stocks are finitely many
numbers, sessions have users), `CursorConstants` (no cursor is the empty one) and `TwoLevels` (the
parent of an industry has none).

`UatDeploymentProofs` proves for any runs, releases, files of a release, cutovers and schema
versions, with at most one failing command in a run: `RecordStaysSafe` (`RecordIsSafe`),
`PlannedRecordHolds` (`PlanStillHolds`), `OldReleaseIsDown` (`OldReleaseStaysDown`),
`CutoversExclude` (`CutoverIsExclusive`) and `SuccessLeavesAll` (`SuccessIsComplete`): every property
of `deployment_recovery`.

The argument. `RecordInv` says that one run holds the lock (`OneHolds`), that the record is whole
unless the write marker says otherwise, and that the marker names a whole snapshot (`RecordOK`). What
makes the next write right is in what a run knows by its stage (`StageOK`): a run that restores
has copied the first n files from the source the marker names (`Restoring`); one that has not
written yet stands on the record it was planned on and finds no marker (`Untouched`); one that
records has a whole snapshot behind it (`Snapshotted`), and one that installs has the marker on
disk (`Written`). A run that starts a stage satisfies what that stage promises (one lemma for each
kind of step), and a run without the lock knows nothing, so the steps of others cannot disturb it.
The hypothesis `MaxFaults <= 1` is needed: `rollback_current_release` (`deploy.sh:655`) goes on
after a copy that failed and removes the marker, so a second failing command in the same run,
during the rollback of the first, can leave a mixture behind without a mark; with
`MaxFaults = 2` TLC finds that behaviour. Kills are not failing commands and are unbounded.

`CutoverInv` adds what the last three theorems follow from, and rests on `RecordInv`. A marker on
disk belongs to one release and to a cutover in whose range the schema is (`MarkerFits`). A
cutover behind its gates carries exactly the schema it ends at, is at the start of its range until it
sets its flag, holds its own marker up to the end, and has nothing served from the stop of the services to
the start of the candidate (`CutoverFits`); it rolls back only if no migration was applied, and then
only to the recorded release. An ordinary run finds no marker and migrates across nothing
guarded (`OrdinaryFits`). A run whose candidate is up has that release served on its schema, and one that
has committed has it recorded (`CandidateFits`). A cutover is entered again on the marker, the record and
the version it finds (`PreflightKeeps`), which is why what a killed run leaves behind must be in the
invariant and not only what the runs know. The version moves inside one cutover at most (`InsideOne`):
`CutoverRanges` says that the cutovers of an instance follow one another, that the database does not start
inside one, and that a release with a migration of a cutover carries one that the gates of an
ordinary deployment know. The modes of the script are so except where two are alternatives (78 to
79 followed by 80, or 78 to 80; an instance has one or the other), and but for the releases that
end in migrations 63 to 66: these begin mode `data_63_77_cutover` and are classified
as ordinary schema changes (`migration-risk.tsv:64-67`), so an ordinary run of such a release would enter the
range without a marker. About these the theorems say nothing. `ConstantsAssumption` is assumed too.

`MiniappProofs` also proves for any pages, buttons and sessions `ShownProfileIsOfSession`
(`ProfileIsOfSession`) and, of the steps, `AcceptedSessionIsKept` (`LoginIsKept`). `SessionInv` adds that
every session on the device, on a page or in a request was issued (`Known`), that the request of an
action uses the session its page holds, and that an answer "expired" is for good: the session is
revoked or the user disabled, neither of which is ever undone (`RequestOK`, `Onward`). A page that
forgets a session the User Service accepts must therefore have been working with another
one. A step changes one page; what holds of the others survives
(`OnePageStep`, `OthersStay`). Assumed is `SessionConstants`: "no token" is no token.

`ReadingProofs` proves for any reports, kinds, page sizes and numbers of requests in flight
`ReadsAreComplete` (`ReadsMissNothing`), `HomeStaysWhole` (`HomeIsWhole`) and, of the steps,
`HomeGoesForward` (`HomeNeverGoesBack`).

The argument. The list is a strict total order of finitely many stored reports, so each list read
has a first report and each page a last one (`FirstExists`, from the
well-foundedness of finite sets, `BeforeOrders`, `EndsExist`). Publication only adds to the list and
changes no time in it (`Grows`), whatever the order of commits. A walk keeps its report behind
its cursor: a page is a first part of the rest (`PageOfRest`), so a report that is not on it lies
behind its last row (`WalkGoesOn`). A home request owes the newest report stored when it was
sent: the day it looks at is not before that report's day, and what it selects is not older (`LoadFits`).
One request of the session counts, and what it owes is not older than what is shown; therefore
its answer is not either. The lists of units are first parts of the report's units
(`ListFits`), the request under way continues one of them (`UnitFits`) and appending its page gives
another (`NextPageFits`); one request counts exactly while the button is blocked (`ReaderOK`).
Assumed is `ReadingConstants`: report ids are positive numbers, sizes positive, and one of the
tabs is the longest ("all", which the page opens with).

`EntityProofs` proves what `EntitiesAreConsistent` says of industries, for any
number of industries, edits and calls: `HierarchyStaysConsistent` (`HierarchyIsConsistent`),
`DeadlocksAreInFamilies` (`OnlyFamiliesDeadlock`), `RegistryTyped` (`EntityTypeOK`) and, of all four kinds of the
registry, `ListingsAreExact` (`ListingIsExact`).

The argument. A hierarchy that is consistent says nothing about a move under way, whose call checked
the path of the parent steps earlier. `RegistryInv` says that a call that examines its row has it alone,
that nobody else has it checked (`ApartFrom`), and that what a call has read is still so up to
its write (`EditFits`): the parent is stored and the path extends it. What another
call writes is not the parent: an update of it would need the row that is locked shared, and a row that is
created cannot have been found as a parent (`OtherEditStays`); rows never disappear. No child joins an
industry under way, since its call would have to lock that row as the parent, and those
there are extend the new path. So the write leaves the hierarchy consistent (`WrittenHierarchy`). Assumed are `RegistryConstants` and
`RegistryInputs`: the industries there are at first are consistent, and "no entity" is none.

A listing is exact because of what is true of it between pages (`ListingInv`): an entity that was there from
the first page on and stayed where it is has been shown once if it is before the cursor and never if it is
behind it. That a page is the next piece of what follows the cursor rests on the keys being a
strict total order, though some are numbers and those of industries sequences of levels compared by length and
place: the first place where two paths differ decides, and it exists because places are numbers with a
least one. `KindsAreDisjoint` is assumed besides: ids are unique across tables.

Of the research graph it proves `AnswersStayWhole` (`AnswersAreWhole`) and `GraphTyped`, for any objects, links, requests,
budgets and writers beside the search. `Walk` is a recursive function over the
depth, cut by the node budget at each step, and `Subgraph` speaks of paths. Between them stands `ReachedIn(q, n)`, the
ends of the paths of at most n steps: one step more adds exactly what an option leads to from there
(`ReachedNext`, by taking the last step off a path and by appending one). The walk then keeps `WalkFits`: what
it has reached in d steps is `ReachedIn(q, d)`, each object at its distance and the last ones in the
frontier, or it is more than the budget already; a walk that is cut has taken one object more than
the budget (`FirstAreEnough`: the first n of a set are all of it or n at least), so it can never fall back
below (`WalkGoesOn`). Steps are counted down by least numbers, since induction is not
available. Edges are cut likewise (`SelectedIsWhole`). What is selected refers to nothing that is missing:
reached objects are current, chains of edges are approved and the memberships of both ends are selected
(`SelectedIsClosed`), so a ready search is never an internal error. `GraphInv` only adds that the search under way
was asked and validated, and that facts are not of the future. Assumed are `GraphConstants`, `GraphRequests`, `GraphSizes` (finitely many
objects and links, with positions) and `GraphLinks`: mappings lead from a chain to an industry or a concept and
edges from a node to another of one chain, as the tables' foreign keys and triggers have it (migrations 69, 72 and 91).

Its last part is `EntitiesStayConsistent`: `EntitiesSpec => []EntitiesAreConsistent`, the whole
property of the run `data_entities`, from the conjunction of all parts' invariants (`EntitiesInv`); of
the same specification follow `SnapshotsAmongEntities`, `StorylinesWholeAmongEntities` and
`AnswersWholeAmongEntities`, the other safety properties of that run.

Only model-checked. All liveness, that is `EveryCallEnds` and `EveryEntityCallEnds`: WF, SF and ENABLED are out of
the prover's reach. Every other property of the passing runs is proved. The properties of the runs that
end in a violation are refuted, by TLC, and there is nothing to prove of them.

## 6. Where the code does other than its documents say

- **A return to the company page may show an empty directory.** The context document
  says a return reads anew. A follow that is answered after the return discards
  the search the return started and sets the page ready (`use-tracking.ts:223-230`):
  "暂无公司资料" until the user searches again. (`company_page_return`)
- **A Data 93 cutover killed while it records its release cannot be resumed.** Its
  write marker has no arm in the recovery (`deploy.sh:325-452`). (`deployment_data93`)
- **Automatic rollback after an ordinary migration fails**, because the Data Service
  refuses to start on a schema with migrations it does not carry
  (`readiness.go:82`). (`deployment_rollback`)
- **A failure after the record is committed** restarts the old release and reports the
  complete previous release restored, under the new record. (`deployment_recorded`)
- **A report can be published whose detail no reader is served.** The Miniapp Backend
  refuses graphs with a loop, a repeated edge or a scope of their own, padded metric
  texts, companies with sources and no origin, and long titles, which the Data Service
  accepts and stores for good (`miniapp data.go:768-804`). (`published_details`)

Smaller observations, which the models contain as code behaviour and no run refutes:

- With two failing commands, one of them during the rollback of the other, the copy of a
  record can be ignored; the runs allow one (`MaxFaults = 1`).
- `use-identity` clears the stored session when an old one is rejected, without
  comparing them. `LoginIsKept` admits this loss and no other.
- A config that JSONB expands (`1e5000`) makes `List` and `ActiveSnapshot` fail for the
  whole registry; so does the stamp of an update, measured shorter than it is.
- Two commands that write stock rows can deadlock (`DeadlocksNeedAnUnwrittenRow` says when).
- The hash of a raw text is computed from `raw_text::bytea` (migration 42, lines 15-17), a cast that
  interprets backslashes, while every read requires the hash of the text itself
  (`data/evidence/data.go:396`). The comment of the migration (line 56) says "根据raw_text逐字自动计算",
  computed from the text verbatim. A text with a lone backslash is never stored; one with an
  escape is stored and refused to every read, repeat and set of it from then on.
- An event that occurred or was announced at half a microsecond can be stored with columns that
  differ from what `sameOptionalTime` rounds to; it then fails every list page it is on. An
  address of more than 2048 characters is accepted and fails the lists of evidence; so does a set
  published between the count of a list and its page. Times of an evidence that differ by less than
  a microsecond are stored alike and answered as a conflict (`FactsAreRead` names all of these).
- In the research graph a fact that changed after the analysis time drops out of the answer
  unless it is a seed or the chain; a fact that changes between two statements
  of one search can drop out or end it with an internal error. Replaced regions
  and deleted members leave no history.
- The trigger over industries makes edits of a parent and its child deadlock
  (`OnlyFamiliesDeadlock`). A listing whose cursor names an industry that moved may repeat
  or skip (`ListingIsExact` names this), and one invalid row fails a page.
- A company catalogue locks industries before companies and everybody else the reverse:
  they deadlock (`OnlyCatalogsDeadlock`). Only the projection is wired into the server
  (`cmd/server/app.go`).
- A storyline created by the store has an id of its own, which makes every later
  publication of the catalogue fail, as does a rename; a catalogue that exchanges the
  names of two domains can never be published, and two renames of domains or of storylines that exchange names deadlock (`OnlyRenamesDeadlock`); what an old release writes after the
  backfill is only picked up if it is run again, and then leaves the earlier link.
- An organization update that changes the function and keeps the tags fails at the
  commit. Memberships of the same days that are written at once can deadlock and are
  answered as an internal error; so can a release that drops or moves tags with an operator's commit
(`OnlyReleasesDeadlock`). A region catalogue cannot be replaced once a region is
  referred to. The answers of `ReplaceRegions` and `Update` are read after the commit.

## 7. Not modelled, and why

Presentation, the Admin Portal and the identifiers have no state shared between
actors. Event creation outside a publication and the category catalogue are single transactions without a rival, and so
are the stores of subdivisions, ministries and institutions. The login budget (a counter
reset each minute) and the cached WeChat token are single values under a mutex in one
process. Image building, host preparation, the finished one-off retirements and backfills
run once by hand. The report formats before v6 are still accepted by the publisher and
left out of `ReportContract`: no reader asks for them. The limit of 1 MiB that the
Mini Program's backend puts on a response it reads (`internal/data/http.go:25`) is a size no draft of the model has. Evidence sheets and the
links read with a single event are single reads. The watchlist mode of `use-tracking`
(private list, cursor, unfollow) is not in `CompanyPage`; its requests are walks of `TrackedCompanies`. Avatar bytes, report bodies,
wording and formats are data no property tells apart.

## 8. Plan

Done, in the order of how much depends on the component and how hard its interleavings
are to test: `UserIdentity` with `SessionRegistry` and their proofs, `UatDeployment`,
`Publication`, `CompanyPage`, each with their proofs; then `SourceRegistry`; `StockCatalog`,
`SchemaMigration`, `ReportContract`, `FactContract`, `ReportReading`, `MiniappSession` and
`TrackedCompanies` with their proofs; then the entities: `ResearchGraph`, `EntityRegistry`, `CompanyCatalog`, `StorylineCatalog`, `PlaceCatalog`; and the
compositions, with the theorems about them.

Left to model: the watchlist mode of `use-tracking`; the v3 to v5 formats of reports, if
they stay accepted; the login budget and the WeChat token.

Left to prove: nothing that the passing runs check, but for liveness.
