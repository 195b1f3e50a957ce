# clip.al in TLA+

clip.al is a URL shortener: a Next.js web application (two replicas in
production), a worker process (one), Postgres, Redis and ClickHouse, with Paystack
and Polar as payment providers. Most of its logic is request handlers and worker
loops that share rows and Redis keys without transactions or locks around them.
That is what is modelled here: every awaited call is a step, and handlers
interleave, fail and are retried between any two steps.

Paths below are relative to `src/`.

## The system: inventory

| Part | State it keeps | Operations | What is hard | What makes it correct |
|---|---|---|---|---|
| **Billing** (`packages/billing/src/subscription.ts`, webhook routes, `billing-processor.ts`, checkout return page, forms) | `subscriptions`, `invoices`, `billing_events`, routing mode of links | `applyBillingEvent`, webhook POST, drain pass, `verifyAndActivate`, forms | no transaction; webhook, drain and return page apply one charge together; redelivery; handlers that die half way | a charge extends the period at most once; receipts at most once; routing follows the last event; recorded events get applied |
| **Checkout** (`paystack.ts`, `polar.ts`, `billing/actions.ts`, `billing/page.tsx`) | the provider's subscriptions, ids in the row | checkout, cancel, resume, renewal | the provider is called between two accesses to the row; events in any order | what the page says about renewal is what the provider does |
| **Prices** (`pricing.ts`, `plan_prices`, pricing and billing pages) | overrides | edit, show, charge | currency and price are found anew at each step | a buyer is asked for what was shown |
| **Link row and hot cache** (`apps/web/lib/resolve.ts`, `hotpath.ts`, link actions, API, moderation, `rescan.ts`) | `links`, `link_destinations`, Redis `hot:*` entries | lookup and fill; edits, renames, moderation, reports, rescans, each with its flush | read-then-store races write-then-flush; lost flushes | an old redirect is served only for a known reason, and never for ever |
| **Redirect** (`r/`, `p/`, `go/` routes, `request.ts`) | payload, proof and variant cookies | gate, page between, password, routing | tabs, cookies and edits change between two requests of one visit | a visitor is sent where the setting says, the same place again, and arrives |
| **Click pipeline** (limit script, `click-queue.ts`, `click-ingest.ts`) | Redis counter, stream, consumer group, ClickHouse rows, `clicks_total` | redirect, XAUTOCLAIM, XREADGROUP, insert, dead letter, XACK, total | crashes and errors between any two commands, two workers, retries | acknowledged clicks are kept; the total follows what is stored; the limit holds |
| **Webhooks** (`webhooks.ts`, `webhook-emit.ts`, `webhook-deliver.ts`, webhook forms) | endpoints with failure counts, delivery rows, Redis lock | emit, deliver pass, success, failure, disable, toggle, replay | lock of 30 s around passes that may last minutes; absolute writes of stale counters | due rows are delivered; repeats and giving up are bounded |
| **Click milestones** (`threshold-detector.ts`) | cursor hash, Redis lock | pass over the first 500 links | crash between insert and cursor; overlapping passes | a milestone is announced, and once |
| **Accounts** (`packages/auth`, `(auth)/actions.ts`, user administration) | `auth_codes`, `sessions`, `users`; deny list, lock and user cache in Redis | send and verify code, create, revoke, suspend, change role, delete | check-then-act on a code; two stores to revoke in; cached rights | guesses are bounded; revoked sessions are refused; rights follow the row |
| **Codes** (`packages/shorten`, `links/new`, claim, rename, API POST) | `links.code`, `previous_codes`, quota counter, idempotency record, claim cookie | create in five ways, rename, claim, delete, look up | read before, write after; retired codes are in no unique index | a code answers for one link; one creation per key; quota |
| **API keys and plan cache** (`api-auth.ts`, keys form, `plan.ts`, `usage.ts`) | keys, cached plan, monthly counter | mint, rotate, revoke, authenticate, fill, bust | fill against bust; check before insert | a plan change is seen |
| **Rate limits** (`rate-limit.ts`) | sorted sets in Redis | hit, hit several | the window goes by the clock of the process that calls | the limit holds up to the skew |
| **Listing** (`api/v1/links`) | none; a cursor | one page | rows move while they are listed | a listing is complete |
| **Bulk import** (`bulk-import.ts` and its form and progress route) | stream, progress hash | upload, process row, progress | redelivery after a crash, lost counts | every row is dealt with; the end is reported |
| **Custom domains** (`domain-verifier.ts`, `domain-tls-health.ts`, domain actions, Caddy check) | `custom_domains`, Redis lock | add, verify, recheck, probe, remove | status written by id after network calls | only verified hosts get certificates; nobody waits for ever |
| **Safety of destinations** (`packages/safety`, blocklist forms, `bootstrap.ts`) | `blocked_domains`, two Redis hashes | edit, rebuild at start, check, scan | one command at a time, a rebuild over an edit | the rows decide |
| **Advertisements and consent** (`ads.ts`, `consent.ts`, placement forms) | placements, counters, two cookies | choose, gate, draw, beacon, click | two cookies of one name, several tabs | refused means none |
| **Campaigns** (`campaigns/actions.ts`) | `campaigns`, `links.campaign_id` | create, delete, assign | count before insert or delete | cap; no grouping is lost unasked |
| **Geographic databases** (`geo-refresh.ts`) | files, open readers | download, publish, open | stop and failure between two steps; age against period | whole files, read, never too old |
| Reapers; worker shell; mail and storage clients; analytics queries; pages; configuration and infrastructure | own rows or none | single statements | little | under "Not modelled" |

How they interact: billing events change the plan (cached by the plan cache) and
the routing mode of links (cached by the hot cache); the redirect reads the hot
cache, shows advertisements and feeds the click stream; the ingest loop feeds
`clicks_total`, from which the click limit and the threshold detector read; the
detector, the creation of links and the rescan emit webhooks; every creation asks
the blocklist; moderation and purge change rows that all the others only look up.

## Modules

| Module | Models |
|---|---|
| `Subscription` | one `subscriptions` row, the two `normalize...Event` functions, what each event makes of the row, `computePlan` |
| `Billing` | the handlers around it, statement by statement |
| `ChargeLedger` | abstract: what the billing core promises about a charge |
| `Checkout`, `Prices` | the provider's side of a subscription; what is shown and what is asked |
| `LinkCache` | one link, its Redis entries, lookups and editors |
| `Visits`, `Ads` | a visitor's way through the redirect; the advertisement on it |
| `Codes`, `BulkImport` | several links and the codes they get; the import of a file |
| `ClickPipeline`, `Milestones` | from the limit to the total; from the total to the announcement |
| `WebhookDelivery` | delivery rows, endpoints, delivery passes and their lock |
| `Accounts` | one address: codes, account, sessions |
| `ApiKeys`, `RateLimits`, `Listing` | the public API: keys, plan and budget; windows; pages |
| `Domains`, `Safety`, `Campaigns`, `GeoRefresh` | as named |
| `MCBilling`, `MCVisits`, `MCDomains`, `MCValues` | sets and functions for the instances |
| `MCCodes`, `MCLinks`, `MCRedirect`, `MCLoops`, `MCRequests` | parts that share no state, in one instance each; `MCLinks` is `MCCodes` and one more |
| `BillingProofs`, `ClickProofs`, `WebhookProofs`, `AccountProofs` | theorems about the modules of these names |
| `LinkProofs` | those about `LinkCache`, as a part of `MCLinks` |
| `CodeProofs`, `RequestProofs`, `WorkerProofs` | theorems about `MCCodes`; `MCRequests`; `MCLoops` and `Domains` |

These put modules side by side that do not interact: a
variable says which of them moves, the others stay in one of their initial states.
What is explored is the union of the parts, not their product.
Where a handler is only a list of awaited statements (`Accounts`, `Codes`), its
state is that list: `job[p].todo` is what it has still to do, and each action takes
the head. A definition whose comment calls it a mutant is what a plausible bug
would make of the definition below it; nothing else uses it.

### Billing

All of the subscription logic is keyed by `user_id`, so the model has one user.
`Subscription` is the pure part. `Billing` has a *runner* for each concurrent
handler: webhook requests, drains, return pages, forms of the owner and of the
administrator. `job[r]` is what the handler holds between two awaits, with the
row it has read (`seen`) and the drain's remaining batch (`todo`).

| Action | Code |
|---|---|
| `Deliver`, `DrainSelect`, `DrainNext`, `ReturnVisit`, `CancelForm` | the ways into `applyBillingEvent` |
| `Read` | its SELECT of the row |
| `Invoice` | `recordPaidInvoice`: INSERT ... ON CONFLICT DO NOTHING, whose row count decides |
| `Upsert` | `upsertSubscription` with absolute values computed from `seen` |
| `Degrade`, `RestoreSelect`, `Relink` | `degradeUserToFree`, `restoreUserPlan` |
| `Receipt`, `Stamp` | after it returned: the receipt email, `processed_at` |
| `Fail`, `Reject` | an error or a death at any await; the foreign key of a purged user |
| `RouteForm`, `RouteCommit`, `ResumeForm`, `ResumeCommit` | forms that go round `applyBillingEvent` |

`credits` and `receipts` are history. The audit rows, the provider id, currency
and interval columns are not modelled.

### LinkCache

Every column that is baked into a cached payload is one version number `ver`; the
routing rules, which live in another table and are read by another query, have
their own. An entry is nothing, the disabled sentinel, or a pair of versions, so
"stale" is: not what an undisturbed lookup would store now (`Answer`).

| Action | Code |
|---|---|
| `Get`, `ExactQuery`, `AliasQuery`, `RulesQuery`, `Store` | `resolveCachedLink`: the Redis GET, up to three queries, the SET nobody awaits |
| `Open` | an editor reads the link (and passes the page's or form's guard) |
| `EditDestination` ... `Rescan` | the UPDATE of each operation, with the codes it will flush |
| `Flush`, `FlushLost` | one DEL or sentinel SET; an error that is swallowed, or a death |
| `Purge` | `purgeDeletedAccounts`: the row goes, no entry is touched |
| `Expire` | time to live |

`late` is history: the keys nobody is obliged to flush any more, because a lookup
stored an old payload, a flush was lost, the link was renamed between an editor's
read and its write, or it was purged with its account.

### ClickPipeline

A visit is one step (payload, limit script, append). A worker's `job` has the
program counter, the batch it was given, the entries of it that parsed, and the
index of the loop it is in. `attempts` is the in-process retry map, forgotten by a
crash and kept by an error that the loop catches.

| Action | Code |
|---|---|
| `Visit`, `VisitUnlimited` | redirect with `allowClick`; Redis error: allowed |
| `PayloadGone`, `CounterGone` | expiry or flush of the payload; expiry or reset of the counter |
| `Claim`, `Read` | XAUTOCLAIM from 0 with idle time 0; XREADGROUP |
| `Parse`, `ParseAck` | building rows; the dead letter of an entry that throws, its XACK |
| `Insert` | ClickHouse, all rows at once; a failed insert may have stored them |
| `Retry`, `GiveUp`, `FailAck`, `FailedEnd` | the loop over the ids after a failed insert |
| `Ack`, `Count` | XACK of the batch; `updateCounters` |
| `LoopError`, `Crash` | caught error: back to the claim; process death |

Left out: user-agent parsing, geo lookup and hashing, bots (a bot's click is
stored and not counted), the stream's length bound, a limit whose value changes,
webhooks enqueued for a batch.

### WebhookDelivery

Deliveries are numbered in the order they are inserted. `turn` and `later` are
`next_retry_at`: due rows stand in line, in the order in which the code sorts them,
the others wait for their backoff or have none. The lock is one Boolean, because
the key carries no owner: whoever ends a pass deletes it. `job[w].todo` is what the
pass has read and not read again (`Seen`: row id, attempts, failure count), `on`
the row at hand, `caught` says that an error of the database is already being
handled in the `catch` block, from which the next one ends the pass.

| Action | Code |
|---|---|
| `Enqueue` | `emitWebhook` and its copy in the worker, the test and replay forms: one row, due now |
| `Create`, `Toggle`, `Delete` | the owner's forms; deleting an endpoint deletes its rows; its number may be given again once no row of it is left |
| `Lock`, `Select`, `Post`, `Unlock` | SET NX, the SELECT of the due rows, one request, the DEL in `finally` |
| `MarkDelivered`, `ResetCount` | the two UPDATEs of `markSuccess` |
| `MarkRetry`, `MarkFailing` | the two UPDATEs of `markFailure` |
| `DbError`, `Crash` | a statement throws; the process dies, or its DEL fails |
| `LockExpires`, `BackoffEnds` | time: thirty seconds, also under a running pass; the backoff |

`accepted` and `refused` are history. An event of several endpoints inserts their
rows at once; here they are separate `Enqueue` steps. Left out: signatures and
envelopes, the list of events, the address, the email to the owner, the count
that keeps an owner below the plan's limit.

### Accounts

One e-mail address, its codes, the accounts it has had one after the other, their
sessions. A revocation is the row in Postgres and then the entry on the deny list,
which is all a request looks at; the user of a request comes from a Redis entry.

| Action | Code |
|---|---|
| `SendCode`, `CodeExpires` | `sendCodeAction`; ten minutes |
| `Submit`, `SelectCode`, `Attempt`, `Burn`, `Wrong`, `SetTtl`, `Consume`, `FindUser`, `CreateUser`, `Open` | `verifyCodeAction`, `createSession`, in the order of their statements |
| `Request`, `QueryUser`, `FillCache`, `View` | `validateSession` |
| `UpdateProfile`, `RevokeSession`, `DeleteAccount`, `Logout`, `Suspend`, `Unsuspend`, `ChangeRole` | forms of the user and of the administrator, each as its list of `SetUser`, `RevokeOne`, `RevokeSome`, `RevokeAll`, `Deny`, `Uncache` |
| `Fail`, `Purge`, `LockExpires`, `CacheExpires` | an error or a death at any await; the purge job; time to live |

`opened`, `shared` and `lost` are history: sessions per code, codes two
submissions held at once, revocations a failure cut off.

### Codes

| Action | Code |
|---|---|
| `CreatePowerLink`, `PostLink`, `Shorten`, `Claim`, `Rename` | the ways in: dashboard form, public API, home page, claim, `changeSlugAction` |
| `CheckQuota`, `Replay` | monthly counter and idempotency record read before |
| `Reserve`, `Persist`, `Collide`, `Refuse` | `createLink`: drawn or custom code, unique index on `links.code`, retries |
| `Count`, `Store`, `Reply`, `Remember`, `ClaimPending`, `Clear` | what is written after: counter, record, cookie |
| `Holder`, `Update`, `FlushOld`, `Flush` | a rename asks who holds or held the code, writes, flushes |
| `DeleteLink`, `DeleteRow`, `Sentinel` | `deleteLinkAction`: the row as it is read, the DELETE by id, `'DISABLED'` (`Off`) under the code that was read |
| `Purge` | `purgeDeletedAccounts`: all the owner's links, no entry |
| `ExactQuery`, `AliasQuery`, `Fill`, `Expire` | a visitor's lookup |
| `Swallow`, `Fail` | a Redis error that is caught; any other failure |

`gone` are the ids that were deleted, which are not given again; the code and the
aliases of a deleted link are free, and `Persist` may give them to another. `taken`
and `late` are history: codes given away although somebody answered for them, and
codes whose entry nobody is obliged to correct.

### BulkImport, Milestones, GeoRefresh (composed in `MCLoops`)

| Action | Code |
|---|---|
| `Seed`, `AppendEntry` | `startBulkImportAction`: progress hash, one XADD for each row |
| `Claim`, `Read`, `Create`, `Tick`, `Ack`, `Crash` | `bulk-import.ts`: pending entries, new ones, one row, its count, XACK |
| `Milestones!Start`, `Emit`, `Mark`, `End`, `Crash` | `threshold-detector.ts`: lock, totals and cursors of the batch, insertion, HSET, DEL |
| `Click`, `Expire` | `clicks_total` grows; the lock's 55 s |
| `GeoRefresh!Start`, `Fire`, `Stat`, `Fetch`, `Copy`, `Rename`, `EditionFails`, `Swap`, `Stop`, `Serve`, `Advance` | `geo-refresh.ts`, the timer and `initGeo` in worker and web; time |

### Domains

`published`, `old` and `certs` are the outside: DNS, time, Caddy. A pass holds the
rows it has selected with the host they had, and writes by row id.

| Action | Code |
|---|---|
| `AddCheck`, `AddInsert`, `VerifyDomain`, `AdminRecheckDomain`, `RemoveDomain`, `AdminRemoveDomain` | the forms |
| `Start`, `Ask`, `Write`, `End`, `Crash`, `Expire` | `domain-verifier.ts` and its lock |
| `AskCaddy`, `Probe` | `/api/caddy/check`, `domain-tls-health.ts` |
| `Publish`, `Age`, `Activate` | the owner's DNS, time, and the step to `active`, which the code under `src/` never takes (external) |

### Visits, Ads

A tab has sent a request or shows a screen. The cookies are shared by the tabs. A
payload carries the version of the setting it was read under, or says that row and
rules are of two settings (`mixed`).

| Action | Code |
|---|---|
| `Visits!Start`, `Follow`, `Continue`, `Gate`, `Aside`, `Barred`, `Expired`, `OverLimit`, `Land`, `Redirect`, `Proceed` | `r/[code]/route.ts`, `p/[code]/page.tsx`, `go/[code]/route.ts` and the countdown |
| `LookupLink`, `LookupDestinations` | the two queries of `resolve.ts` |
| `SubmitPassword`, `Forget` | the password form and the end of its cookie |
| `SetRouting`, `SetPassword`, `Flush`, `Expire` | the owner's forms and the cache |
| `Ads!Choose`, `Ask`, `NoAds`, `SelectAd`, `Beacon`, `Click` | banner and its route, gate, draw, impressions and clicks |
| `CreatePlacement`, `UpdatePlacement`, `Toggle`, `Delete`, `DatePasses` | the administrator's forms; a placement's dates |

### ApiKeys, RateLimits, Listing

| Action | Code |
|---|---|
| `CreateCheck`, `Mint`, `RotateRead`, `RotateRevoke`, `Revoke` | the keys form: count, insert; read, revoke, insert |
| `Present`, `Resolve`, `Fill`, `Count` | `authenticateApiRequest`: lookup by prefix, `resolvePlan`, the month's counter |
| `Change`, `Lapse`, `Bust`, `ApiKeys!Expire` | a billing event and its DEL; the end of a paid period |
| `Request`, `Send`, `Run`, `Answer`, `Unreachable`, `Tick` | `rate-limit.ts`: clock read, script, answer; Redis out of reach |
| `Insert`, `Update`, `Written`, `NextPage` | rows of `links`; `GET /api/v1/links` |

The property of `ApiKeys` is about the cached plan. Keys and monthly counter are
there because a request passes them on its way to the plan and may be refused or
delayed at each; nothing is claimed of them.

### Safety, Campaigns, Checkout, Prices

| Action | Code |
|---|---|
| `Submit`, `DropDomain`, `DropKeyword`, `AddEntry`, `FormFails` | blocklist forms: row, then the hashes |
| `Safety!Start`, `Seed`, `Select`, `Clear`, `Load`, `StartFails` | `bootstrapSecuritySets` |
| `Begin`, `LookDomain`, `LookKeyword`, `Scan` | the check of a destination |
| `CreateCheck`, `Create`, `DeleteCheck`, `Delete`, `AssignCheck`, `Assign`, `NewLink` | `campaigns/actions.ts` and the two places that put a link into a campaign |
| `Choose`, `Pay`, `Complete`, `Renew`, `End`, `Deliver`, `Lapse` | checkout at either provider, the events that follow, in any order |
| `BillingPage`, `Checkout!Submit`, `CallProvider`, `Commit`, `AdminCancel` | what the page offers; the forms with the provider's call in the middle |
| `OpenPricing`, `Toggle`, `Follow`, `OpenBilling`, `Prices!Submit`, `Refused`, `Prices!Pay`, `Move`, `SetOverride`, `ClearOverride` | pages, checkout, and the administrator's prices |

## Runs

All bounds are constants named in the modules (`Max...`).

| Run | Instance | Shows |
|---|---|---|
| `billing_race` | a Polar order announced by two events, an event of a purged user; one webhook request, one drain, one return page; one failure | one invoice, at most one extension, and after the invoice (`LedgerSpec`); one receipt at most (`ReceiptOncePerCredit`); lost only through a failure (`ChargeLostOnlyByFailure`); every other recorded event is stamped (`EventuallyProcessed`) |
| `billing_serial` | five Paystack events, owner's and administrator's forms, a clock of three instants, one handler at a time | `NoFreeTime`, `RoutingFollowsEvent` over every sequence |
| `links` | three parts, below | one link per key, codes that answer for one, a blocklist as its rows say, stale entries only for named reasons |
| `redirect` | two parts, below | nothing stale stays, visitors arrive |
| `clicks` | two workers, two clicks, batches of two, three failures of any kind | `LostOnlyByMisroute`, `CountedOnlyIfStored`, `RepeatsAreExplained`, `OverrunBounded`, `EventuallySettled` |
| `webhooks` | two workers, two deliveries of one endpoint, batches of two, one form, one error, crash or early expiry of the lock | `RepeatsBounded`, `GivenUpAfterAttempts`, `EventuallySettled` |
| `accounts` | two handlers, two codes, three submissions, one operation, one failure | `GuessesBounded`: a code opens one session unless two submissions held it, and an address takes few wrong codes more than it should; `RevokedIsRefused`; `RightsFollowRow`; `EventuallyUnlocked` |
| `domains` | two users, three hosts one of them reserved, two rows, two verifiers, batches of one, one re-check, failure or crash | `ProvedByHolder`, `DemotedOnlyByOverlap`, `EventuallyDecided` |
| `loops` | an import of two rows by two workers with two failures; two workers over two links, one at a time, two milestones, one failure; two databases over three weeks, one failure | `RowsAccounted`, `ImportEnds`; `AnnouncedOnce`, `EventuallyAnnounced`; `GeoStaysFresh` |
| `requests` | eight parts, below | one property each |
| `old_code` | one tab, one visit, one edit | **violated**: `OldCodeArrives`. Who follows an old code of a protected link is asked for its password and told that the link no longer exists, again and again; `findings` has the lines |
| `checkout_resume` | one Polar checkout, a cancellation for the period's end, a resumption | **violated**: `ResumeKeepsRenewing`. The resumption sends the DELETE that ends the subscription at once, and the page says it keeps renewing; `PROJECT.json` has the lines under `findings` |

The parts of `links` and of `redirect`:

| Run and part | Instance | Property |
|---|---|---|
| links: codes | two operations of any kind, three links, three codes and a reserved one, a quota of one, deletions, a purge, one failure; handlers, administrators and the codes but the first are interchangeable | `CreationBounded` (idempotency key and quota), `CodesAnswerForOne` (no code is given away, no cached one leads astray, but for named reasons) |
| links: safety | one value as word and as domain, two administrators, one start, one check, one failure | `RowsDecide` |
| links: link | two owner's editors and one visitor, three operations on two codes, a purge; nothing is lost | `StaleOnlyByOverlap` |
| redirect: link | a routed link, moderation operations, renames and a purge over three codes and a custom host, one failing Redis command | `EventuallyFresh` |
| redirect: visits | two tabs, two visits under the present and an old code, two edits of routing or password, one slip | `VisitorArrives`: under an old code the password form may refuse a visitor for ever; nothing else keeps him |

The parts of `requests`:

| Part | Instance | Property |
|---|---|---|
| keys | two keys of one prefix, a cap of one, two changes of plan, one Redis failure | `StalePlanExplained` |
| visits | two tabs, two visits, eight routing forms, two edits, one slip | `SentAsConfigured` |
| ads | two tabs, three pages, one placement, every country and choice | `AdsFollowConsent` |
| checkout | one checkout, three forms, one renewal, one failing call | `CancelledIsStopped` |
| campaigns | a cap of one, two forms at a time, two links | `CampaignsKept` |
| prices | two items, two currencies, two renderings, two edits, one move of the buyer | `AskedAsShown` |
| limits | two processes a unit apart, two buckets hit together, one call in flight for a unit | `LimitKept` |
| listing | three links, pages of two, two parts of a millisecond, a clock a millisecond behind | `ListedOrMoved` |

Why the bounds are enough. Billing's conflicts are over one charge or one row: two
rows with one reference (what a Polar order is), one rival of each kind and a
failure reach every pair of statements; `Interval = 2` with three instants puts an
event before, at and after the end of a period. In `LinkCache` a fill races at
most the editors that are open: two editors and a third operation cover
rename-edit-rename back, and `HistoryMax = 1` makes the history drop a code. In
`ClickPipeline` a batch of two is what it takes for the two indexes to differ, and
two workers for a steal; `Cap = 1` puts the last allowed click and the first
refused one into two clicks. In `WebhookDelivery` one overrun is enough for a
chain, because the pass it lets in loses its lock to the DEL of the first; two
rows in a batch are what a stale failure count needs, `MaxAttempts = 2` has a first
failure and a last. In `Accounts` and `Codes` every defect is a race of two
handlers: two of them with caps of one or two put the first and the last use of
each counter side by side. In `Domains` a host that changes hands needs two rows,
a starved row a batch smaller than the rows. `BulkImport` claims what another
worker holds with two rows and two workers; `Milestones` sees a late link behind a
full batch with two links and batches of one; `GeoRefresh` needs the week to be
longer than a run, and three of them. In `Visits` the second tab holds a cookie
the first has replaced. `RateLimits` compares `Limit + 1` hits, so a limit of one
and a window of three units are the smallest with an inside and an outside;
`Listing` needs pages of two and three rows to have a page that is neither the
first nor the last.

Deadlock checking is off where every bounded input is used up in the end and the
instance may stop: in the billing, webhook, account, checkout, redirect
and request runs.

### Fairness

- Billing: weak fairness of each drain's own steps. `scheduler.ts` starts a pass
  every 15 s and lets it run to its end. Nothing else is fair: webhook handlers,
  visitors and forms may stop anywhere.
- LinkCache: an open lookup and an open editor go on (the redirect route and the
  server actions have time limits of their own), and Redis expires keys. No visit
  and no edit has to happen.
- ClickPipeline, BulkImport: weak fairness of each worker's steps; the loops run
  while the process does, and the process is restarted. Failures are bounded, so
  the liveness results read: once failures stop. An upload that has begun goes on.
- WebhookDelivery, Milestones, Domains: weak fairness of each worker's pass, of
  backoff and ageing, and of the expiry of locks: a timer starts a pass, each
  request or query ends. In `WebhookDelivery` a lock is only bound to expire when
  nobody works under it. Events, forms and failures need not happen.
- Accounts: handlers that have begun go on or fail, and Redis expires the lock (if
  it has a time to live) and the cached user.
- Visits: requests are answered, entries are deleted or expire, and the visitor
  does not give up: redirects are followed by the browser, the countdown of the
  page goes on by itself. No further visit and no edit has to happen.

## Proofs

The proof modules are checked by TLAPS for every value of the constants, under the
assumptions named in the modules (`SubscriptionAssumption`, `BillingAssumption`,
`ClickAssumption`, `WebhookAssumption`, `AccountsAssumption`, `CodesAssumption`,
`DomainsAssumption`, and `MCCodesAssumption`, `MCLinksAssumption`,
`MCRequestsAssumption` and `MCLoopsAssumption`, which gather those of the parts) and nothing else, but for the two theorems of `Billing` that
name one more, below. `Spec` is the module's own specification,
fairness included, which no proof uses; `PartSpec` is that of `MCCodes`, whose
steps are those of `LinksSpec` in its parts codes and safety, `LinksSpec` that of
`MCLinks` and `LoopsSpec` that of `MCLoops`.

| Theorem | States | Argument |
|---|---|---|
| `TypeCorrect` | `Spec => []TypeOK` | `TypeInv`: also, finitely many events are recorded, and a handler's stage fits its event (`StageFits`: only a charge has an invoice and a receipt, only a stored event is stamped) |
| `ReceiptsFollowCredits` | `Spec => []ReceiptOncePerCredit` | `ChargeInv`, below |
| `ImplementsLedger` | `Spec => LedgerSpec` (refinement of `ChargeLedger`) | `ChargeInv` at each step: `Invoice` is the ledger's, `Upsert` of a charge its `Credit`, all else stutters |
| `ChargeNotLost` | `Spec => []ChargeLostOnlyByFailure` | `PaymentInv`, below |
| `NoFreeTimeInvariant` | `EndsInPeriod => (Spec => []NoFreeTime)` | `TimeInv` |
| `RoutingIsFollowed` | `OneAfterAnother => (Spec => RoutingFollowsEvent)` (a property of steps) | `RouteInv` |
| `StaleIsExplained` | `LinksSpec => []StaleOnlyByOverlap` (the part of one link, whose operations are a parameter) | `LinkInv` |
| `ClickTypes` | `Spec => []TypeOK` | `KeptInv` |
| `OnlyMisroutesLose` | `Spec => []LostOnlyByMisroute` | `KeptInv` |
| `TotalNeverAhead` | `Spec => []CountedOnlyIfStored` | `OwedInv` |
| `OverrunIsBounded` | `Spec => []OverrunBounded` | `SlotInv` |
| `RepeatsHaveACause` | `Spec => []RepeatsAreExplained` | `OnceInv` |
| `WebhookTypes` | `Spec => []TypeOK` | `CountInv` |
| `GivenUpLate` | `Spec => []GivenUpAfterAttempts` | `CountInv` |
| `RepeatsAreBounded` | `Spec => []RepeatsBounded` | `RepeatInv` |
| `AccountTypes` | `Spec => []TypeOK` | `AccountInv` |
| `RevocationArrives` | `Spec => []RevokedIsRefused` | `AccountInv` |
| `GuessesAreBounded` | `Spec => []GuessesBounded` | `AccountInv` |
| `CodeTypes` | `PartSpec => []TypeOK` | `CodesHold` |
| `CreationIsBounded` | `PartSpec => []CreationBounded` | `CodesHold` |
| `CodesAnswer` | `PartSpec => []CodesAnswerForOne` | `CodesHold` |
| `RowsAreFollowed` | `PartSpec => []RowsDecide` | `SafetyHolds` |
| `StalePlanHasACause` | `Spec => []StalePlanExplained` | `PlanInv` |
| `ConsentIsFollowed` | `Spec => []AdsFollowConsent` | `ConsentInv` |
| `CampaignsAreKept` | `Spec => []CampaignsKept` | `CampaignInv` |
| `AskedIsShown` | `Spec => []AskedAsShown` | `PriceInv` |
| `LimitIsKept` | `Spec => []LimitKept` | `LimitInv` |
| `EveryLinkIsListed` | `Spec => []ListedOrMoved` | `ListInv` |
| `CancelledStops` | `Spec => []CancelledIsStopped` | `CheckoutInv` |
| `VisitorsAreSentAsConfigured` | `Spec => []SentAsConfigured` | `VisitInv` |
| `HolderProves` | `Spec => []ProvedByHolder` | `DomainsInv` |
| `OverlapDemotes` | `Spec => DemotedOnlyByOverlap` (a property of steps) | `DomainsInv` |
| `GeoIsFresh` | `LoopsSpec => []GeoStaysFresh` | `GeoInv` |
| `MilestonesOnce` | `LoopsSpec => []AnnouncedOnce` | `MilesInv` |
| `ImportAccounts` | `LoopsSpec => []RowsAccounted` | `BulkInv` |

Why strengthenings are needed:

- `ReceiptOncePerCredit` says nothing of a handler that is between the invoice
  and the receipt, so a step of it could break the bound. `ChargeInv` says what
  such a handler holds (`HeldOnce`: its charge is invoiced, not credited before
  the upsert and credited after it, and has no receipt yet), that no two handlers
  hold the same charge (`OneHolder`, which is what the conflict clause of the
  invoice insert gives), and what is true of the rest (`Counted`).
- `ChargeLostOnlyByFailure` speaks of quiescent states. `PaymentInv` follows a
  charge on its way there: a stored event's handler works on that event's payload,
  and past the invoice step the invoice exists (`OnPayload`); so a stamped charge
  is invoiced (`StampedIsInvoiced`); and while nothing has failed an invoiced
  charge is credited or some handler is about to do it (`InvoicedIsCredited`).
- `NoFreeTime` speaks of the row, but a handler writes from what it read of the row
  before an await. `TimeInv` bounds that as well (`Modest`): by one period beyond
  what is earned, and, for a charge about to be credited, by what is earned, since
  its invoice is newer than its reading. This needs no order of the handlers; it
  needs that no stored event names a period end of its own beyond the first period
  (`EndsInPeriod`): Paystack's name none, Polar's are taken as they come.
- `RoutingFollowsEvent` holds of handlers one after another, as its theorem assumes
  (`OneAfterAnother`): one handler at a time, none fails, no return page, each
  stored charge with a reference of its own. Without these a charge may find its
  invoice there and be stamped without a restoration. `RouteInv`: rules are
  followed or suspended (`ModesFit`), a restoration holds the links that are still
  suspended (`RouteAt`), and an invoice is that of a stamped event or of the one in
  hand (`InvoicedFor`), so no charge finds its own.
- `StaleOnlyByOverlap` is almost inductive. `LinkInv` adds the shapes of the
  records and that an editor which has not written, or is done, owes no flush
  (`NothingToFlush`): without it an editor at rest could be the one that excuses a
  stale entry.
- `KeptInv` adds to types and property that the loop indexes fit the batch and the
  rows that parsed (`JobsFit`), and that a worker about to acknowledge a click has
  a copy of it in ClickHouse or among the dead letters, unless it was misrouted
  (`CopiesHeld`).
- `OwedInv`: what is counted of a click, plus the workers that have inserted it
  and are still to count it, is at most what is stored. Without the second term a
  `Count` step is not bounded.
- `OverrunBounded` sums over counters that come and go. `SlotInv` gives each click
  that passed a place: a pair of a code and a number up to its counter, or one of
  the `Cap` places for each counter that expired, or an error.
- `RepeatsAreExplained` concerns a click that nobody shared while nothing failed.
  `OnceInv` says where such a click is: with one worker at most, stored at most
  once and not before the insertion, and acknowledged, or about to be, from then
  on, so that no claim finds it (`OncePerClick`).
- `WebhookDelivery`'s `TypeOK` is not inductive either: `attempts` is written from
  what a pass has read. `CountInv` says that every count, in a row or in a batch
  being worked on, has that many requests behind it (`RowsBehind`, `SeenBehind`),
  that what is planned may still be tried (`PlannedGoesOn`), and that what is
  neither planned nor delivered is exhausted (`GivenUpIsExhausted`).
- `RepeatsBounded` needs to know who may still post a delivery. `RepeatInv` counts
  the workers that hold it in their batch and those that have had it accepted and
  have not marked it: while the row is open only the latter exceed the errors, and
  when it is closed the former are all that is left to come (`Repeats`). Together
  they are no more than the passes that run at a time (`OneAtATime`).
- `AccountInv` describes the list of statements a handler has before it: which
  statement follows which, and that the list never ends between the two stores
  (`Flows`). With it, sessions opened by a code plus handlers that hold the code
  are at most one, or one for each process if two held it (`OpenedBounded`), and
  wrong answers counted plus submissions let in are bounded (`LockHolds`).
- `CodesHold` does the same for the operations on codes (`Left`: what is left of an
  operation's statements), and counts for a key, and for the quota, the handlers
  that have looked and not written. A retired code is given to a second link only
  through a handler that has looked it up before, or by `createLink`, which does
  not look; a cached code is right, or somebody holds the flush. A deletion holds
  the sentinel still to be written, for the code that it has read; what it cannot
  correct (aliases, a code that the link has got since) is recorded by the step
  that makes it wrong, and so is all that a purge leaves.
- `SafetyHolds`: a value agrees with its row, or a writer is at it, or the last
  writers met (`Straight`); a writer that met nobody has the part of the hashes
  behind it as the rows are (`FormReady`, `BootReady`); a check that met no writer
  has found what the rows give (`Found`).
- In `MCRequests` each invariant is that of one part. `PlanInv`: what a request has
  computed is what it would compute now, or it was overtaken. `ConsentInv`: a jar
  with one cookie tells the last choice. `CampaignInv`: each creation under way
  has a place kept for it (`PlacesKept`), and what a deletion takes out unasked
  came after its count (`MovedSince`). `PriceInv`: what an open page shows is what
  would be asked, but for the cells edited since. `LimitInv`: every hit let
  through is still in the log under a score near its time, or lies a window back
  less that much (`LoggedOnce`, `LoggedOrOld`); the distance of `Limit + 1` hits
  follows from the number of hits in the log. `ListInv`: a link that was there in
  the beginning is seen, or after the cursor, or was moved behind it
  (`StillToCome`). `CheckoutInv`: a live subscription is one the row knows or an
  activation on its way knows (`RowHolds`); a form that was alone asks for what
  lives, after its call nothing renews, and what renews under a cancelled row is
  about to be written (`AsksForIt`, `Stopped`, `SoonWritten`). `VisitInv`: a payload
  that was not put together over an edit, in the cache or in a request, is that of
  the setting it was read under (`Whole`), and a variant in a cookie or in a request
  leads to the place it was given for under the setting of then (`Given`).
- `DomainsInv`: a published token names a row that, if it still exists, is the
  host's and its holder's (`TokensHold`), and an answer "found" that a pass
  carries is about such a token; a pass that is alone holds rows that nobody has
  verified, each once (`LeftPending`).
- `GeoInv` bounds the age of each file by when it is next looked at: by the run
  under way if the edition is ahead of it, else by the next firing of the timer
  (`AgesHold`). The age allowed now follows from `now <= Looked + MaxRun`.
- `MilesInv`: for a link that never slipped, no milestone above its cursor is
  announced, but for one whose cursor is about to be written; a pass that is alone
  has read the cursors as they are (`AloneAnnounces`).
- `BulkInv`: links made of a row plus what it may still cost (`Owed`: one for each
  worker that has it in hand and has not tried it, or one if nobody has it and it
  is not acknowledged) are at most one more than the reasons it ran again for
  (`LinksHold`). While no row has run again, no two workers hold one row, and the
  count is at most the number of rows that are acknowledged or about to be
  (`CountHolds`).

Some assumptions are there for the proofs, each one a fact about the code or about
any machine that runs it: `Code` and the processes of `Codes` and `Accounts`, the
workers of the click pipeline, the webhooks and the import, the codes of the click
limit and the `Id` of the listing are finite sets; of the processes that share a rate limit
one clock is ahead of all others; the threshold of the lock on an address is at
least one; the placeholder for "no code" is no code; a server that starts is not an
administrator; the list of editions names the one whose file the worker reads
(`env.ts:106`).

Only model-checked:

- Liveness, which is beyond the prover: `EventuallyProcessed`, `EventuallyFresh`,
  both `EventuallySettled`, `RightsFollowRow`, `EventuallyUnlocked`,
  `EventuallyDecided`, `ImportEnds`, `EventuallyAnnounced`, `VisitorArrives`.
- The types of `LinkCache`, and of the batch of a pass in `Domains`: both contain
  what `SelectSeq` returns, which the library defines by recursion over the
  sequence. Where another module has a `TypeOK` that no theorem states, it
  documents the ranges of the variables; no run spends an invariant on it.

## What the code does that no property says

Met while modelling; some are causes a property above excuses by name.

Billing, checkout, prices:

- A handler that dies between `recordPaidInvoice` and `upsertSubscription` makes
  every retry of the event a no-op (`subscription.ts:211-213`): the payment extends
  nothing, while `billing-processor.ts:22-23` calls a repeated application safe.
- The administrator's immediate cancellation keeps `current_period_end`
  (`(admin)/actions.ts:286-288`), so `computePlan` (`plan.ts:54-56`) still grants
  the plan; with a null end it grants it for ever.
- The end of a period is no event: nothing suspends the routed links of a user
  whose period lapsed (`plan.ts:52`), although `subscription.ts:17-21` says so.
- Two renewals applied at the same time both read the old row (`:216`); both are
  invoiced, the row keeps the later write. `restoreUserPlan` writes modes it has
  selected before (`:469`) over what the owner chose meanwhile.
- `normalizePolarEvent` has a mapping in its comment (`:575-578`) that the code does
  not follow: a succeeded checkout is ignored, an order is a charge whether it is
  paid or not. `subscription.expiring_cards` is documented and ignored. The event id
  made for Paystack (`paystackEventId`) is the same for every event of one type of
  one subscription, so a second cancellation after a resumption is a duplicate.
- A second checkout makes a second renewing subscription, of which the row names
  one. Paystack's `not_renew` suspends at once. The administrator's cancellation
  leaves the provider renewing.
- `startCheckout` sends buyers back to `/api/paystack/return` and
  `/api/polar/return`, for which there is no route; `verifyAndActivate` passes
  Polar's checkout id where a subscription id is expected.
- A plan code at Paystack, and Polar always, charges the provider's own price, not
  the override; the billing page shows the currency of the row, the checkout uses
  the country's; the currency and interval chosen on the pricing page
  (`pricing-table.tsx:147-150`) are not read by the billing page.
  `DEFAULT_RESTRICTED_COUNTRIES` (`constants.ts:107-126`) is used nowhere.

Links, redirect, advertisements:

- A destination edit flushes the current code on the default host only; entries
  under old codes and on a custom domain live until they expire, an hour at most.
- `rescan.ts:51` writes the verdict of the old destination by link id, and `clean`
  over the `suspicious` that reports have set (`:54`).
- The API's DELETE turns an administrator's block into the owner's own, which
  `link-detail-actions.tsx:19` lets the owner lift.
- `createLink` never asks `previous_codes`: a retired code may be given away, and
  a link made through the API does not drop the alias cached under it. Creation
  through the API and the home page counts towards no monthly quota.
- The password form stores its proof under the code that was visited, and looks
  the link up by its present code only (`p/[code]/actions.ts:108`), where the page
  resolves old codes (`hotpath.ts:50-52`): under one it never accepts the password
  (run `old_code`). The comment at `links/[id]/actions.ts:120`, by which the old
  short URL stops resolving, is older than the aliases.
- A deletion sets a sentinel for the code it has read (`links/[id]/actions.ts:205`)
  and touches no entry of an alias; the purge of an account (`purge.ts:42`) touches
  none. Cached codes go on leading to a link that is gone until they expire, and
  the sentinel turns off, for five minutes, a link that has got the code meanwhile.
- A payload may join the mode of one setting and the rules of another
  (`resolve.ts:59`), for an hour at most. `interstitial_required` is as it was at
  creation.
- Each advertisement drawn sends two impressions, and placements that are not
  active are counted (`impression/route.ts:36`). `r/[code]/route.ts:99` says that
  the page enqueues the click; `go` does.

Clicks, webhooks, milestones, import:

- The index of the dead letters is that of another array (`click-ingest.ts:168`
  against `:14-15`): a click that is given up may be kept under another's fields,
  and its own be lost.
- `XAUTOCLAIM` with an idle time of 0 gives a second worker what the first is
  working on. `apps/worker/README.md` says that replicas may be added.
- An endpoint may be turned off by a count that a success of the same batch had
  reset (`webhook-deliver.ts:135` against `:110-111`). One INSERT carries the rows
  of several endpoints (`webhooks.ts:126-139`): a deletion of one of them in between
  drops the event for all.
- Links beyond the first 500 by id that reached a milestone are never announced
  (`threshold-detector.ts:107`).
- An import whose count was lost never reports its end and the page waits 20
  minutes; a row with a custom slug that runs again is counted as failed.

Accounts, domains, API, the rest:

- `verifyCodeAction` does not look at `users.status`; unsuspending may bring a
  deleted account back; the log-out clears its cookie in another scope than the one
  it was set in.
- No code sets a domain to `active`. The administrator's re-check does nothing for
  a domain in error, and a resolver that fails keeps a row pending past 24 hours.
- Two random characters of the key decide its prefix (`api-auth.ts:13`); with equal
  prefixes the first key found answers for both. Caps on keys, campaigns and
  webhooks are counted before the insertion.
- A cursor of the listing has milliseconds, rows have microseconds: the last row of
  a page comes again, and with `limit=1` a page leads to itself. Clicks move links,
  for `clicks_total` is written through a column that updates itself.
- A request refused by one window is still logged in the others and keeps their
  keys alive. The burst limit of the API lets everything through when Redis is
  away, the others nothing.
- The blocklist stays as overlapping writers left it until the next start.
- `campaigns/actions.ts:142` calls detaching the default; the code blocks unless
  asked to. A new link's campaign is not looked up.
- A geographic database is a week old to the minute less a download when the
  weekly timer fires, so it is refreshed every second week (`geo-refresh.ts:15-17`,
  `:24-25`). `readBuildDate` swallows the error, so the download is not validated
  as `:89` says; a web process never opens a newer file.

## Not modelled

- Reapers: they delete codes and sessions by age that nothing finds any more.
- The worker's shell: its schedule is the fairness of the modules, a crash of it
  their `Crash` and `Fail` actions.
- Mail and storage clients: thin wrappers whose failures nobody acts on.
- Analytics: read-only SQL over what `ClickPipeline` stores.
- Pages and components: rendering without shared state, but for the countdown, the
  banner, the cookie forms and the buttons that decide which form may be sent.
- Configuration, schema, observability, infrastructure: constants are CONSTANTS,
  unique and foreign keys are guards.

Within modelled parts, what is left out is said in the module's header and under
`components` in `PROJECT.json`.

## Plan

1. Proofs: type correctness of the parts of `MCRequests` and `MCLoops`; a bound on
   the time the row promises that takes in the period ends Polar names; that the
   specifications of item 2 are implemented.
2. Abstract specifications for `Accounts` (a revoked session acts no more) and
   `Checkout` (one subscription that renews or does not), beside `ChargeLedger`.
3. Compositions: `Checkout` delivering its events to `Billing` statement by
   statement; `ClickPipeline`'s totals feeding `Milestones`, and these
   `WebhookDelivery`; `Billing`'s flush of routed links in `LinkCache`.
