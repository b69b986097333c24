# UnyPort in TLA+

UnyPort is a monitoring dashboard for one host: a Go server samples the machine
every two seconds and pushes snapshots to browsers over Server-Sent Events,
keeps a small set of accounts in a JSON file, and serves a single-page
application. This directory holds TLA+ models of the parts whose behaviour is
hard to test, the TLC configurations that check them on small instances, and
proofs of the main results for every value of the parameters.

Paths below are relative to `src/unyport/`; `B` stands for `backend`. The watcher
and the release scripts lie in `src/` itself.

## 1. The system and its components

### 1.1 Inventory

| component | state it keeps | operations | talks to |
|---|---|---|---|
| SSE broker (`B/sse/broker.go`) | ring of 60 snapshots with head and count, map of client channels, one RWMutex | `loop` (collect, store, broadcast), `subscribe`, `unsubscribe`, `Handler` | metrics collection, one goroutine per browser |
| Oscilloscope scales (same file) | reads the ring | `computeOscilloScales` | called by `loop` with the lock held |
| Version caches (same file; `B/server/routes.go`) | last known versions and the time of the check | `VersionsHandler`, `latestUnyPortRelease` | GitHub, with the mutex held |
| Startup history (`B/cmd/unyport/main.go`, broker) | `startup-history.jsonl`, `unyport.log` | `recordStartupEvent`, `RebootsHandler` | boot id and uptime of the kernel |
| Login rate limiter (`B/middleware/ratelimit.go`) | map of buckets, one mutex | middleware on `POST /api/login`, `janitor` | clock |
| User store (`B/auth/users.go`) | map of accounts, `users.json`, one mutex | `Find`, `Add`, `Delete`, `UpdateProfile`, `UpdatePassword`, `SetRole`, `load`, `seedAdmin`, `saveLocked` | the file system |
| Account requests (`B/middleware/auth.go`, `B/auth/handlers.go`, `B/auth/oauth.go`) | the context of each request | `Auth`, `RequireRole`, the profile and administration handlers, the OAuth callback | user store |
| Session tokens (`B/auth/jwt.go`) | a signed cookie in the browser | `Issue`, `Parse`, `SetCookie`, `ClearCookie` | browser, `Auth` |
| OAuth sign-in (`B/auth/oauth.go`) | state cookie | `LoginHandler`, `CallbackHandler` | provider, user store |
| CSRF (`B/middleware/csrf.go`) | a signed cookie in the browser | `CSRFProtect`, `CSRFTokenHandler` | `apiFetch` |
| Page (`frontend/public/app/*.js`) | cached token, logout flag, page shown, timers, stream | `apiFetch`, `login`, `logout`, `init`, `startOAuth`, `SystemSSE` | every endpoint |
| Branding store (`B/config/branding.go`, `B/auth/handlers.go`) and its editor (`app.js`) | branding in memory and its file; the fields of each page | load, update, reset; pick, save, reset in the page | file system, pages |
| Metrics (`B/sse/metrics.go`) | previous counters | `collect`, CPU load, rates | `/proc`, `/sys` |
| Neighbours (`B/sse/metrics.go`, `B/sse/device_identity.go`) | identity cache, RDAP cache with its lookups in flight | `neighborIdentityFor`, `ispMetadataForPublicNeighbor`, `refreshISPMetadata` | leases, RDAP |
| Xen (`B/sse/xen.go`, `B/xenctl/*.go`) | previous listing | CPU share, domain actions with a time limit | `xl` |
| Server (`B/server/server.go`, `B/cmd/unyport/main.go`) | TCP and QUIC listeners | start, graceful shutdown | every handler |
| Watcher (`watch-unyport.sh`) | lock directory with a pid, fingerprint of the clean tree | `acquire_build_lock`, `build_and_sync`, `mark_clean`, `release_build_lock` | other builds |
| Release scripts (`scripts/*.sh`) | tags, remotes, three forges | tag, push, publish | git, forges |

`PROJECT.json` lists the same components with what is modelled of each.

### 1.2 What is hard, and what makes each part correct

* **Broker.** A tick may fall between any two steps of a handler: between the
  subscription and the read of the ring, while a socket write is stuck, after
  the browser has gone. Correct means: the ring is the last snapshots, across
  its seam; nothing is delivered twice, out of order or without need dropped;
  no browser can stop the loop; handlers end and unsubscribe.
* **Scales.** Index arithmetic on the ring, clamps that meet margins, and readings far
  out of range when a counter slips. Correct means: what is drawn lies on its axes,
  and an extreme that has gone no longer stretches them.
* **Limiter.** Attempts, expiries and sweeps fall at the same instants. Correct
  means: a bounded number of attempts per window, no endless lockout, a map
  that forgets, and a janitor nobody notices.
* **User store.** The map changes before the file, the save may fail, the
  process may die in the middle. Correct means: what was answered is durable,
  deletions are final, accounts keep one key, refusals change no key,
  role or password.
* **Account requests.** The caller is looked up when the request enters and
  used later. Correct means: administration is lost to no sequence of requests,
  only to two that overlap.
* **CSRF.** All pages of a browser share one cookie, each keeps its own copy of
  the token, and cookies, copies and calls change between any two steps of a
  call. Correct means: a write is executed at most once whatever is retried, the
  retry repairs what calls do to each other, and no call goes on for ever.
* **Page.** A flag in the local storage outlives the page that set it; requests
  get lost; several tabs sign in and out at once. Correct means: who is out stays
  out, who is in stays in, no page is left blank.
* **Session cookie.** Accounts are renamed and deleted under it, by its owner and
  by others, while requests overlap and answers arrive in another order. Correct
  means: the cookie goes on to name its owner's account, under the email it has.
* **Version caches.** A mutex is held while GitHub is asked. Correct means: nobody
  waits for more than one exchange, and what is served is recent: the last release,
  and the highest kernel among the tags that GitHub is asked for.
* **Neighbours.** Two caches, one of them filled in the background, while leases,
  names and machines change. Correct means: a snapshot says what follows from what
  is known now, and what a lookup has found stays for its day.
* **Metrics and Xen.** Differences of unsigned counters, at different moments of a
  tick, of things that come, go and start again. Correct means: percentages are
  percentages as long as no counter slips back, and no rate shows more than
  happened.
* **Branding.** Memory first, file next; the page keeps its own idea of both, and its
  saves and resets overlap. Correct means: a restart brings back what visitors get,
  as long as no update fails, and a page that is told “saved” shows what was, as
  long as nothing else changed its fields meanwhile.
* **Startup history.** Appends that are cut short or fail, restarts within a boot.
  Correct means: a boot is in it once, on its day, and few are missed.
* **Server.** Two protocols, open streams, a time limit. Correct means: an end that
  is called graceful was.
* **Build lock.** A directory and the pid in it, two steps; kills between any two; a pid
  is no more than a number, which another process may get. Correct means: a build
  that ends gives the lock back, shells that do not race for it build one at a time
  whatever was killed before, and the watcher rests only on what was built.

## 2. Modules

| module | models | role |
|---|---|---|
| `SnapshotFeed` | what the broker promises to a browser | abstract specification |
| `Broker` | loop, ring, subscriptions, handlers | detailed specification; implements `SnapshotFeed` |
| `BrokerProofs` | | theorems about `Broker` |
| `OscilloScale` | `computeOscilloScales` inside the loop | algorithm over every history of readings |
| `FixedWindow` | a limiter without janitor or map | abstract specification |
| `LoginRateLimiter` | middleware and janitor | implements `FixedWindow` |
| `LoginRateLimiterProofs` | | theorems about `LoginRateLimiter` |
| `AccountLedger` | accounts one at a time, current and saved | abstract specification |
| `UserStore` | map, temporary file, rename, start, crash | implements `AccountLedger` |
| `UserStoreProofs` | | theorems about `UserStore` and `AuthRequests` |
| `AuthRequests` | requests over the store | extends `UserStore`: every step of it is a step of the store |
| `CsrfFetch` | `apiFetch` and `fetchCSRF` of several pages, CSRF middleware and token handler | protocol between pages, browser and server |
| `CsrfFetchProofs` | | theorems about `CsrfFetch` |
| `PageSession` | `init`, sign-in with a password and over OAuth, logout, in several tabs | protocol between tabs, browser and server |
| `PageSessionProofs` | | theorems about `PageSession` |
| `SessionCookie` | issue, renewal and clearing of the cookie, one browser and the accounts | protocol between browser, server and other browsers |
| `VersionCache` | `VersionsHandler`, `latestUnyPortRelease` | requests at a mutex held over the network |
| `RdapCache` | lookups of the operator of a public neighbour | cache with goroutines |
| `NeighborIdentity` | names, weighing of signals, identity cache | algorithm behind a cache |
| `CpuSample` | the two readings of `/proc/stat` in `collect` | algorithm over what the kernel counts |
| `Rates` | traffic and CPU time between two ticks | algorithm over counters that start again |
| `Branding` | settings page, handlers, store and file | protocol between pages and server |
| `StartupHistory` | appends, restarts, reboots, heat map | file with torn lines |
| `ServerLife` | listeners, requests, shutdown | life of the process |
| `BuildLock` | lock, builds and fingerprint of the watcher | shells over a directory |
| `SumLemmas` | | finite sums, greatest and least elements, induction over finite sets |
| `DashboardProofs` | | theorems about what the dashboard is shown: `OscilloScale`, `CpuSample`, `Rates`, `NeighborIdentity`, `RdapCache`, `VersionCache` |
| `ServerProofs` | | theorems about the process around it: `BuildLock`, `ServerLife`, `StartupHistory`, `Branding`, `SessionCookie` |
| `MCParts` | | composition of the parts above that share no state, and of `OscilloScale` |
| `MC…` | | instances for TLC |

### 2.1 State and actions against the code

**Broker.** `ring`, `head`, `count` are the fields of the same name; `clients` is
the key set of `Broker.clients`; `chan` the channels; a snapshot is its number.
`pc` is where a handler goroutine stands and `gone` its request context.
`Collect` is the part of a tick that runs without the lock, `Publish` the
critical section (`broker.go:118-141`), with the non-blocking send in `Offer`.
`Subscribe`, `ReadLast`, `Receive`, `FinishWrite` and `Leave` follow `Handler`;
`HangUp` is net/http cancelling the context. `joined`, `hello` and `fed` are
history variables, for the properties only.

**OscilloScale.** One action, `Tick`, for one turn of the loop: the scales are
computed from the ring *before* the new snapshot is stored, as the code does.
`LookBack` is the loop over `i`. CPU percentages are counted in twentieths of
0.1 % so that the 5 % margin is exact; the rest is integer arithmetic as in the
code, and frequencies wrap around at `IntMax` (`Wrapped`). `Samples` is what a
snapshot may read, which includes what a counter that slipped makes of it: a usage
far below zero (`metrics.go:842-847` does not clamp) and a negative frequency.
`Fits` says what such a reading costs: it lies off the CPU axis itself, which ends
at 0, and a snapshot with a negative frequency has no good frequency axis. Memory has a total: when `/proc/meminfo` cannot be read the total is 0 and
the memory axis has no height, which the model leaves out.

**LoginRateLimiter.** `Attempt` is the middleware (one mutex section), `Sweep`
the janitor, `Tick` the clock. `now.After(resetAt)` is strict, and so is
`Expired`. `nextSweep` is the janitor's ticker; the model lets no time pass
while a sweep is due. `admitted`, `tries` and the two `refused…` variables are
history.

**UserStore.** `users` is the map, `disk` the file, `temp` the temporary file,
`pending` the save of the call that holds the mutex. `Add` … `SetRole` are the
calls up to `saveLocked`; `WriteTemp` and `RenameTemp` are its two effects, and
`SaveFails` any of its error returns: the map keeps the change, as in the code.
`Start` is `NewUserStore` with `load` and `seedAdmin`, `Crash` ends the process
at any point. `clean` and `closed` are history. Hashes and profile fields are
opaque values. The file is written without `fsync`: the model takes the order
of the file system's operations for granted, and does not count temporary files
that a crash leaves behind.

**AuthRequests.** A worker is a goroutine that serves one request. `Auth` copies
email and role into `req`, `AsAdmin` and `MayWrite` look at that role, the handlers
act on that copy, and `Answer` is the end of the save. `Refuse` stands for every
path that changes nothing. `overtaken` is history: a handler has acted for a caller
whose account was no longer what `Auth` had seen (`OutOfDate`).

**CsrfFetch.** `jar` is the token in the signed cookie, `cache` each page's `_csrf`.
A call is one run of `apiFetch` (`Write`), of `logout`, or of `fetchCSRF` alone
(`Refresh`); between two of its awaits it is one step. A fetch of a token is
`ServeToken` (the handler, for the cookie it is sent), `StoreCookie` (the browser)
and `ReadToken` (the page), or `TokenFails`; the request is `ServeRequest`, then
`Reply`, which either sends it again (`Again`) or ends the call. `spare` counts the
second fetch that `buildHeaders` makes where the first gave no token. `upset` records
that the cookie changed after the call's token was issued.

**PageSession.** `cookie` says whether the browser holds a session cookie that has
not expired, `flag` is `_logged_out`, `state` the tab that the OAuth state cookie
belongs to. A tab shows a page and waits for at most one answer. A request is
sent with the cookie of that moment, `Serve` answers it, and `Receive…` is the
browser and the code after the await; `Lose` is the request that fails, `Reload`
the user who does not wait. `out`, `keptOut`, `signedIn` and `keptIn` are history:
who is out or in, now and ever since each tab's page was loaded. `doLogout` and
the page `must_change` are not in the model: nothing in `index.html` calls the
first, and no handler sends what would show the second.

**SessionCookie.** `email` and `known` are the map of accounts, `onFile` the file; a
call of the store is one step, since it holds the mutex (its inner steps are
`UserStore`). `jar` is the browser's cookie, `call` its requests. `FindRecord` is
`Find`, which hands out the record itself, and `SetCookie` the end of `Login` or of
the OAuth callback; `Auth` is the middleware, `UpdateProfile` and `Reissue` the two
halves of the handler that renames. An answer waits in `call` until
`ReceiveCookie` or `LoseAnswer`; `behind` and `late` say which answers it has been
overtaken by. `holder` and `excused` are history.

**VersionCache.** `asking` is the request that holds the mutex and waits for GitHub,
`since` those that wait for it. Time passes only while nothing else can happen:
`AskGitHub` starts an exchange, `GitHubAnswers` or `GitHubFails` ends it before the
time limit. The tags are marked as checked after the exchange, the release before
it, as in the code. Of the tags GitHub is asked for the first page only
(`per_page=100`, `broker.go:556`), which other tags share (`OtherTags`): `FirstPages`
are the sets of kernels that may be on it. In which order GitHub lists tags the
repository does not say, so any kernels may be.

**RdapCache.** `entries` and `inFlight` are the fields of `ispRDAPCache`, `running`
counts goroutines. `Sight` is a snapshot that asks for a neighbour;
`LookupSucceeds` and `LookupFails` are `refreshISPMetadata`, a failure writes an
empty entry. `learned` is history.

**NeighborIdentity.** One action, `NeighborSeen`, for a snapshot that meets the
neighbour: the name from the lists (`hostname`), the signals with their weights,
the winner, and the cache, which is emptied when it is full. Names, MACs and makers
stand for the kind of answer the tables give of them.

**CpuSample.** `gained` is what the kernel has counted since the first reading, in
jiffies; `ReadSecond` is the rest of `collect`'s CPU part. Differences are taken
modulo the word. Percentages are rounded down where the code keeps a float.

**Rates.** `Collect`, `MapInterfaces` and `ListDomains` are the three moments of a
tick at which counters are read, in the order of the code, all over the same `dt`.
`moved` is history: what was really counted in between.

**Branding.** `editor` is the branding part of each page, `brandCall` the requests under
way, each with the page that waits for it. A save disables its own button
(`brandingSaving`), so that a page has one at a time; `resetBranding` sets nothing and
its button is always there (`index.html:1276`), so that resets overlap with a save
and with one another. `ReceiveSaved` reads the fields when the answer comes
(`app.js:864`), and that of a reset empties them (`app.js:886`). A page that is loaded
anew leaves its requests to themselves (`Left`). `ServeUpdate` is the handler up to the change in memory, `SaveBrand` the rename,
`SaveBrandFails` any error before it. A logo is the length of its data URI, in KiB.

**StartupHistory.** `Check` is `startupHistoryContains`, `Record` the append,
`RecordShort`, `PowerCut` and `RecordFails` its failures: a record without its end,
to which the next one is glued. `HeatMap` is `RebootsHandler`; `logLines` counts the
lines of `unyport.log` that its pattern matches, warnings included.

**ServerLife.** `Assemble` is what main and New need before anything listens, or their
refusal; `Listen` and `AwaitSignal` are main and its goroutine, in either order, and
`ListenToRedirect` the goroutine of New, whose server no shutdown reaches; `SignalStop`, `StopTakesTime`, `StopGracefully` and `StopInError` are the
shutdown with its context of five seconds. Requests over TCP, streams and requests
over QUIC end differently.

**BuildLock.** `shellAt` is where a shell stands in `acquire_build_lock` and
`build_and_sync`, one step for each command that touches the lock: `TryMkdir`,
`ReadPid`, `RemoveStale`, `MkdirAgain`, `WritePid`, then the build, `MarkClean` and
`Release`. `KillShell` kills it anywhere, and its build with it; `KillWatcher` is the
watcher, whose trap removes the lock first. What a killed shell leaves in the lock
is the number of no process (“stale”) until another one gets it (`PidReused`), and
again once that ends (`PidFreed`): `kill -0` (`watch-unyport.sh:85`) asks for any
process. `builtTo`, `calmChange` and `contended` are history.

### 2.2 Mistakes

Definitions whose name extends another one's (`OfferNewest` for `Offer`,
`SweptNever` for `Swept`), each under a comment that begins with “Mistake”, are
plausible bugs: no specification uses them. Put in the place of the definition
they follow, each makes a named property fail, which shows that the property
depends on the code. `PROJECT.json` lists the pairs under `mutants`.

## 3. Runs

| run | instance | what it shows |
|---|---|---|
| `broker` | 2 browsers, ring of 3, channel of 2, 5 ticks | `RingHoldsLatest`, `FeedInOrder`, `FirstSnapshotsKept`, `StepBackBounded`, and that `Broker` implements `SnapshotFeed` |
| `broker_live` | one browser that reads, one that may stall; ring of 2, channel of 1, 3 ticks | the loop never stalls; a browser that has gone is unsubscribed; what is queued for a reading browser is delivered |
| `oscillo_window` | ring of 4, window of 3, readings at both ends, in the middle and unknown, and with a counter that slipped | *violation*: the newest stored reading is not looked at |
| `login_limiter` | 2 addresses, 2 attempts per window of 2, sweep every 4, 7 instants, 3 tries an instant | at most two buckets' worth in any window, lockouts end, entries go, the janitor changes no decision |
| `login_sliding` | 1 address, window of 3 | *violation*: the window is not a sliding one |
| `user_store` | 3 identities on 3 emails, 2 roles, 2 names | one key per account, answered means saved, deletions are final, the store implements the ledger |
| `requests` | 2 workers, 3 identities on 3 emails, 3 roles | there is an administrator unless a request acted for a caller that was out of date |
| `parts` | eleven parts side by side, two of each actor | see below |
| `reboot_count` | 3 boots on 2 days, 3 lines, 1 fault of each kind | *violation*: warnings count as restarts |
| `csrf` | 2 calls, each of one of 2 pages, 4 tokens | a write is executed at most once and reported truly, the retry repairs, calls end |
| `page_session` | 3 tabs | who is out stays out, who is in stays in, no page is left blank |
| `page_oauth` | 1 tab | *violation*: a sign-in over OAuth leaves the flag of an earlier logout |

**The run `parts`.** The initial states choose a part, every step is one of that part,
and the others stay as they began: the state space is the sum of the parts', not
their product, and every invariant is checked in all of it. Cores, interfaces,
requests, clients, shells and the browser's calls are the same two model values, so
that one symmetry serves every part. Its invariants:

| part | instance | what it shows |
|---|---|---|
| scales | as `oscillo_window` | older readings fit the axes but for what a slipped counter costs (`OlderOnesFit`), and axes forget (`AxesForget`) |
| cpu | 2 cores, 2 jiffies of each kind | loads are percentages unless a counter slipped back (`LoadIsPercentage`) |
| rates | 2 interfaces, 1 domain, counts to 2, intervals to 2 | no rate shows more than was counted (`RatesNeverExceedCounts`) |
| identity | 7 sights, 5 lists of names, cache of 2 | what is said of a neighbour follows from what is known now (`FollowsFromWhatIsKnown`) |
| rdap | 2 neighbours, 7 instants, a day of 3 | a lookup that found the operator is good for its day (`OperatorShownForADay`) |
| versions | 2 requests, 3 versions of which one comes during the run, pages of 3 that another tag shares, 4 instants | no request waits for more than one exchange (`WaitsForOneExchange`), and what is served is the last release and the highest kernel on the page, of a time not long ago (`ServesRecentVersion`) |
| branding | one page, 2 requests, one picture | a restart brings back what visitors get unless an update failed (`BrandingSurvivesRestart`); a page that is told “saved” shows what was (`SavedLogoIsShown`) |
| history | as `reboot_count` | a boot is recorded once and seldom missed (`HistoryHoldsEachBoot`), and counts on its day (`HeatMapCountsBoots`) |
| life | 2 clients, every setting that the code tells apart, 2 units of grace | a graceful end cut no request over TCP (`GracefulCutsNoRequest`) |
| builds | 2 shells, 3 changes | the lock never names a shell that idles (`LockNamesABuilder`); shells that do not race for the lock build one at a time (`OneBuilderAtATime`); the watcher rests on what was built (`RestsOnlyOnBuilt`) |
| session | 2 persons, 3 emails, 2 requests at a time | a browser keeps its session (`SessionKept`) |

A behaviour of the session is not followed past an event after which the
session may rightly end (the constraint `MCFollowed`): `SessionKept` holds there
by what it excepts, and everything before such an event is covered.

**Why the bounds are enough.** Ring and channel sizes are chosen so that, within
the ticks allowed, the ring is filled, wraps around and overwrites, a channel
fills and overflows, and a browser can leave and come back; larger rings repeat
the same arithmetic, and the theorems of section 5 hold for every size. In the
limiter the clock passes a sweep and several expiries, and the tries at one
instant exceed the quota. In the store three emails are the least that let one
account be renamed onto a key another one has just left while a third stays;
three identities let an account be deleted, its email reused, and the old one
looked for. A caller goes out of date through one other request, so that two
workers meet every case of it. Two calls of `csrf` are of one page or of two, so
that they cross in the shared copy as well as in the shared cookie; a new token
is always to be had when there are more tokens than pages and other calls. The instants of the
caches pass an expiry, a failure and the expiry of that failure, with two requests
of which one holds the mutex and one waits; two of the versions differ as numbers and
as text in opposite ways, and the third, once it is published, does not fit on the
page with them. In the branding one page is enough, because a page that is loaded
anew while its requests go on leaves them to be served as those of another page
would be; two requests are a save and a reset, two resets, or one that nobody waits
for and one that follows it. Among the readings `IntMax` only has to be far from
the frequencies. Two interfaces are enough for the sum to hide what one of
them does; two shells for every race on the lock, and the third change can come
during a build, between builds and after one. Three boots and three lines hold a
torn record, the one that is glued to it and a whole one. Of three emails one is
always free to be renamed to, and a second person can take the one just left. Of
three tabs one can sign in and one sign out while a third decides. Deadlock is not
checked where the system of the model may stop: when
identities run out (`UserStore`, `AuthRequests`) or the clock reaches its bound
(limiter).

The bounds written into guards are `MaxTicks` (snapshots), `MaxTime` and `MaxTries`
(limiter), `MaxJiffies` (CPU), `MaxDt` and `MaxCount` (rates), `MaxInstant` and
`MaxRunning` (RDAP; the second is never reached but by a mistake), `MaxClock`
(versions), `MaxBoots`, `MaxDay`, `MaxLines` and `MaxFaults` (history) and
`MaxVersion` (builds). `Grace` and `CacheLimit` are parameters of the code, of 5 s and 4096.

## 4. Fairness

* `Broker`: the loop is a goroutine with a ticker (weak fairness on `Collect` and
  `Publish`). A write to the socket returns for a browser that reads, or once
  the peer is gone; nothing is assumed of a browser that stays and does not read
  (the server sets no write timeout). `select` chooses at random among ready
  cases, so that a done context is not passed over for ever: strong fairness on
  `Leave`.

The other modules assume none. That calls of `CsrfFetch` end is an action property
instead (`CallsComeToAnEnd`): a count of the steps a call has left falls with each
of its steps and grows with nobody's, so that a call ends as soon as each of its
requests is answered or fails.

## 5. Proofs

Every invariant, every action property and all three refinements that the passing
runs check are also theorems, for all values of the constants under the assumptions
named in each module:

| module | assumed | because |
|---|---|---|
| `Broker` | ring and channel have a slot | 60 and 4 |
| `OscilloScale` | the window is shorter than the ring; a usage is at most 100 %, and may be anything below; a frequency is an integer of its width and not in the upper half of what that holds; memory is at most the total | 15 of 60; a quotient of unsigned differences is not below 0; the highest frequency is a number of MHz in an integer of 64 bits |
| `LoginRateLimiter` | quota, window and sweep period are positive | 5 where no other is set (`server.go:161`), 1 min, 2 min |
| `UserStore` | there are an admin and a viewer role and a name that is empty | the values of `users.go` |
| `CsrfFetch` | there is a page | |
| `CpuSample` | finitely many cores; the counts of a few readings fit the word | 64 bits |
| `Rates` | finitely many interfaces, told apart from domains and from the sum of all; their counts fit the word | the code keeps them in separate fields; 64 bits |
| `NeighborIdentity` | sights are neighbours and lists are lists; the cache holds an entry | 4096 |
| `RdapCache` | a failed lookup is kept for no longer than a good one | 1 h and 24 h |
| `VersionCache` | the time limit of an exchange is shorter than the time its result is good for; a version is three numbers | 8 s of 1 h, 3 s of 10 min; tags of three parts; pages and other tags may be any number |
| `Branding` | a picture has a size, a colour is of one of four kinds | |
| `StartupHistory` | a host tells its boot id, its uptime, both or neither; a year has a day | |
| `ServerLife` | what settings there are | |
| `BuildLock` | shells run as one user; a shell that is killed takes its build with it; the state directory is there | how the script is meant to be used (not formal: it is in what `KillShell` and `ReadPid` do) |
| `PageSession`, `SessionCookie` | only what follows | |

All of them also assume that the markers for “nothing” are no values and that the
bounds are numbers. In each proof module a lemma per part of the invariant and per
kind of step comes first, then the step of the invariant with one case for each
action, then the theorems.

* **Broker.** `IInv` adds three things to the properties: the ring described
  slot by slot (`SlotsHoldTheirAge`: slot *k* was written `Age(k)` ticks ago), the
  fact that a handler takes nothing from its channel before it has read the
  ring, and bounds by what was published. The ring lemma (`PublishRing`) is about
  the head's successor modulo the size; the streams' lemmas (`StreamGrows`,
  `StreamStaysKept`) are about one sequence and one number. `BrokerImplementsFeed`
  maps each step to a step of the feed: `Publish` to `Publish`, `ReadLast` to
  `Greet`, `Receive` to `Feed`, the rest to stutters, using `IInv`.
* **Limiter.** `IInv` says of each entry how far its end lies from the clock, from
  the next sweep and from the first refusal: a run of refusals started within the
  bucket that causes it, which ends before one window is over. For
  `JanitorChangesNothing` an expired bucket is mapped to none. `AtMostTwoBuckets` sums
  what was let through, and a sum does not say how it came about. `TwoBuckets` cuts it
  where the live bucket was opened (`Opened`): since then no more went through than
  the bucket has counted (`Spent`), before that no more in one window than one bucket
  holds. The sweep and the expiry start a new part; an attempt adds to the last one.
* **User store.** `SaveInv` says what an unfinished save owes to the map: what was
  written is the map, and the accounts it closes are gone from it. Without it
  “deleted stays deleted” is not inductive: the rename could bring back a map of
  before. `StoreImplementsLedger` reads each account off a table that is keyed by email,
  through a `CHOOSE` that `OneKeyPerAccount` makes unique (`HeldOf`); a call changes one
  account of it (`OneAmended`, `CallAmends`), the rename makes the saved ledger the
  current one, a start reads the saved one or seeds it (`SeededHeld`), and the
  temporary file and a save that fails are stutters.
* **CSRF.** `Executions` counts how often a write can have been executed by how far
  its call is, which is what makes “at most once” inductive: only a refusal, which
  comes before the handler, is sent again. `TokenInHand` follows a token from its
  issue to its use: as long as the call is not upset, it is the cookie's. The
  count of `CallsComeToAnEnd` needs the types only.
* **Page.** `OutInv`: while somebody is out the flag stands, and no page loaded
  since then waits for a session. `InInv`: who is in holds the cookie, no answer on its
  way takes it, and a page that asks for its session asks with it. `StaysIn` then
  follows from one step at a time, for any number of tabs.
* **Requests.** Every step of `AuthRequests` is a step of the store or leaves it
  alone (`RequestStepIsStoreStep`), so that the store's invariant carries over.
  `ReqInv` adds whose the save is (`OneOwner`), from which `ReqTypeOK` follows (proved
  only), and `AdminSurvives`, which is inductive with it: whoever deletes or demotes
  another account is an administrator afterwards unless it was out of date, every other
  call leaves roles alone, a rename writes the map to the file, and a start finds
  an administrator there or makes one.
* **Build lock.** `LockNamesABuilder` is nearly inductive (`NamesInv`: with the types).
  `OneBuilderAtATime` needs `LockInv`: unless two shells have been at the lock at once,
  whoever builds has the lock under its own pid, whoever is about to remove it has
  seen that it is nobody's, and whoever is at it is there alone (`GoesAlone`).
  For `RestsOnlyOnBuilt`, `BuildInv` says that a build under way began with, or a
  finished one has covered, the last change that came while nobody was building.
* **RDAP.** `RdapInv`: an address has one goroutine exactly while it is in flight, and
  none while its entry is good, so that no answer comes to overwrite it.
* **Version caches.** `WaitInv`: a request that was promised a short wait has just
  come, or waits for an exchange that began before it came, or the cache is fresh
  and its answer due. Time cannot pass in the first and the last of these, and the
  exchange ends within its time limit. `ServeInv` adds to it what a cache that is fresh
  holds (`HoldsWell`): what GitHub said within the time to live, the highest kernel of a
  first page of tags or the last release; for the tags an exchange earlier, because they are marked
  as checked after it.
* **Scales.** `AxesForget` and `OlderOnesFit` are inductive next to the types of the
  ring, once it is known what a look back sees: the slot at age *i* holds the reading
  of *i* ticks ago (`Ago`), and after a tick what was at age *i* is at age *i* + 1
  (`TickAges`, `LookBackByAge`). The rest is the arithmetic of clamps and margins, one
  lemma for each of the three scales; without a slipped counter frequencies do not
  overflow (`DoesNotOverflow`). The attempt found what the assumption now says:
  with a window as long as the ring an axis would not forget, since the slot about to
  be overwritten is looked at and is no longer there to explain it.
* **CPU.** Differences of counters that did not slip back are what was counted, the
  word being wide enough; a core's busy time is part of its time, and the mean is the
  quotient of two sums of which one is nowhere above the other.
* **Rates.** `RateInv`: what the collector remembers of a counter, and what has moved
  since it was read, account for what it says now. For the host this is about a sum
  over the interfaces there are: a packet adds one to it, what goes, comes or starts
  again adds nothing (`CountAddsOne`, `ChangeAddsNothing`).
* **Identity.** `Signals` builds a list step by step; `SignalsAreDistinct` shows that it
  has each of the things that speak for a type (`Spoken`) once, so that a score is the
  sum of their weights (`ScoreIsSum`) and the weights decide who can win. The cache is
  right because its key is all that the computation reads (`IdentityInv`).
* **Branding.** `BrandInv`: at most one update is between memory and file, and the memory
  has what it was sent; what was answered as saved, and not overtaken since, is what
  the file holds; and what a page sent and waits for is what its fields hold, as long
  as they have not been touched (`AskedWell`). `TouchKeepsInv` is about whatever
  changes the fields of a page, the answer to a reset included, and `LeaveKeepsInv`
  about requests that come to their end.
* **Startup history.** `HistInv` counts: boots that are missing (`Missing`), and those that
  a last line without its end may still cost (`Owed`), are paid for by faults, two by an
  append cut short and one by an append that wrote nothing (`Paid`). No boot is
  recorded twice because a record is written only where the file did not tell of it,
  and only by this process.
* **Server.** `NotCutInv`: requests over TCP are cut by an error or a kill only, and a
  stop that ends gracefully has waited for all of them.
* **Session.** `SessionKept` speaks of the cookie and the accounts; it is the answers on
  their way, in any order, that make it hard. `CookieInv` says of each answer that is
  not overtaken: if it sets a cookie, it names its person's account or a rename of the
  browser's own will answer after it (`AnswersNameTheirs`, `Superseded`); if it clears
  one, there is no session to lose or a rename is on its way (`ClearsAreDue`); and
  where it clears the very cookie that an answer before it sets, the latter is
  overtaken by that of a rename (`ClearedAfter`). Each action touches one request, or adds one
  rename: a lemma for each kind of change says what it leaves as it was.

**Induction.** Sums over the history of a limiter, over cores, interfaces or weights
need an induction over a finite set. `SumLemmas` has it without an operator as a
parameter: the subsets of a finite set are well-founded under inclusion, so that a
*set* of subsets that is closed under one more element has them all
(`ElementInduction`). From it follows that the fold of the community modules is the
sum that one expects: the sum over a part and an element, over two parts, of a
function that changes at one point, and its bounds.

**Only model-checked.** `LoopNeverStalls`, `GoneIsUnsubscribed` and `QueuedIsFed`: liveness
under fairness is out of the prover's reach. The violations of section 6 are
counterexamples, found by TLC.

## 6. Where the code and its comments differ

* `broker.go:198` says that the scales come from the last N snapshots, but the
  loop starts at `i = 1` from `head-1` (`broker.go:215`): the newest stored
  snapshot, which the browser draws, is never looked at (`oscillo_window`).
* `broker.go:199` speaks of a margin of 10 % that is then rounded; the code takes 5 %
  (`broker.go:248`, `:269`, `:284`) and rounds nothing. `AxesForget` has the 5 % (no run).
* `ratelimit.go:19` and `:29` speak of a sliding window of one minute; the code
  opens a fixed one with the first attempt (`ratelimit.go:56`), so that two bursts
  around its end let through up to twice the quota (`login_sliding`).
  `AtMostTwoBuckets` is what the code does guarantee.
* `broker.go:679` counts as a start every line of `unyport.log` whose message begins
  with “startup”. So do the warnings about the history itself, one of them at each
  look at the page while there is no history; `index.html:448` calls what is
  counted restarts (`reboot_count`).
* `auth.js:63` says that whoever signs in wants to be signed in, and clears the flag
  of the logout; only the sign-in with a password goes through that line. After a
  logout, a sign-in over OAuth gets its cookie and still meets the login page, and
  meets it again after every reload (`app.js:1050`, `page_oauth`).
* `auth.js:75` says that a logout without a valid token is refused with 403 and its
  cookie never cleared. `csrf.go:40` lists `/api/logout` among the routes that need
  none, so that the fetch before it is not needed (`TokenAccepted` in `CsrfFetch`; no
  run).

What no comment promises either way, but the models show:

* After a refused profile update the display name has changed in memory only
  (`UserStore.UpdateProfile`).
* Two requests at a time can leave the accounts without an administrator, when one
  renames, demotes or deletes the caller of the other between its admission and
  its check. `AdminSurvives` says that this is the only way.
* `doLogin` opens the dashboard whatever the session was that it has just asked for
  (`ReceiveUser`), so that the dashboard can open on a session that has ended.
* Two tabs that sign in over OAuth at once share one state cookie: the one that
  began first is refused (`Return`).
* A body may have 1 MiB (`handlers.go:17`), while the page and the store allow logos of
  2 MB (`index.html:1291`, `branding.go:31`): the larger ones are refused as a bad
  request (`Decodes`). Opening the settings copies a logo that is a data URI into
  the field of the URL too (`app.js:783`), so that saving it again without a change
  is refused (`Valid`).
* Where the idle time of a core shrinks between two readings, its load falls far
  below zero, and the mean with it (`slipped` in `CpuSample`). Such a usage lies off the
  CPU axis, which is clamped at 0; its frequency is a float out of the range of `int`,
  of which Go leaves the conversion to the implementation, and where it comes out as
  the lowest integer the span and the axis overflow (`Fits` in `OscilloScale`).
* GitHub is asked for the first 100 tags, which kernels of a role share with Alpine
  and with the other roles (`broker.go:556`). Once there are more, the newest kernel
  need not be among them (`FirstPages` in `VersionCache`).
* A reset does not wait for a save that is under way (`app.js:878`). If it is served
  first and answered first, its answer empties the fields, and the answer to the save
  then makes the page say “Branding saved.” and show no logo, while the file holds
  the one that was sent. `SavedLogoIsShown` excepts it by `touched`.
* HTTP/3 with a certificate but without a key, or with one that does not load: nothing
  is served, although the log says “falling back to HTTP” (`Listen`).
* A shell that finds the lock directory before the pid is in it takes the lock over,
  so that two builds can run at a time; so they can when the trap of a watcher removes
  a lock that `once` has (`watch-unyport.sh:133`). And a change that comes during a build
  may count as clean without being built (`MarkClean`).
* A build that is killed leaves its pid in the lock. When another process of the user
  gets that number, every build is refused as one that is under way, for as long as
  the process runs (`PidReused`; `watch-unyport.sh:85`).
* A request sent before a rename and served after it clears the cookie of the new
  session (`Auth`). The OAuth callback issues its token for the provider's email,
  even if the account has been renamed since it was found (`IssuedFor`): the
  browser then holds a cookie that names nobody.
* `collectTopProcs` expects the memory in KB and is given bytes (`metrics.go:164`, `:2143`),
  so that the share of memory of a process is about a thousand times too small.

## 7. Not modelled

* **Readings and formatting**: memory, disks, temperatures, processes, packages, system
  information and security pages read `/proc`, `/sys` and the output of commands
  once for each answer and keep nothing. Host role detection is a list of such
  probes at the start.
* **Xen actions**: one `xl` command each, with a time limit; no state.
* **Release scripts**: sequences of calls of git and of three forges, run by one
  operator. What they promise depends on the forges.
* **Mail**: a message in the background whose failure is logged.
* **Dashboard, charts, network map, styling, routes and headers**: drawing and tables.
  What pages do with the session, the token and the branding is in `PageSession`,
  `CsrfFetch` and `Branding`.
* **Within the parts modelled**: the trusted origins and the wiring of the handlers; a
  redirecting listener and the main one given the same port; the watcher's own pid file and its wait for a quiet tree; the Alpine
  version, handled like the kernel's; time zones; the services of a neighbour, which
  no caller gives.

Password hashing and signatures are opaque. The data race of reading a `*User` after
the unlock is not distinguished: a reader takes one field at a time, as it is then.

## 8. What is left

In the order in which it would add most:

1. `ServerLife` over `Broker`: the loop outlives the listener, and open streams decide
   how a stop ends.
2. The release scripts, against what each forge guarantees about a tag that exists
   already.
