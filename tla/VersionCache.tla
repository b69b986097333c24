------------------------------ MODULE VersionCache -----------------------------
(***************************************************************************)
(* The two caches of what GitHub has published: "tags", the newest kernel  *)
(* that /api/versions reports (backend/sse/broker.go; Alpine's is its      *)
(* twin), and "release", the last UnyPort that /api/public/version         *)
(* compares itself with (backend/server/routes.go). Each is behind a mutex *)
(* that is held while GitHub is asked, so requests wait for one another.   *)
(*                                                                         *)
(* Time goes in steps. Reading and answering take none of it: only asking  *)
(* GitHub does, up to the timeout of its client.                           *)
(***************************************************************************)
EXTENDS Integers, Sequences, FiniteSets

CONSTANTS
  Asks,           \* requests, of either handler
  Versions,       \* <<major, minor, patch>>
  PerPage,        \* per_page (100): only the first page of the tags is asked for
  OtherTags,      \* tags of Alpine and of other roles, which are on the pages too
  TTL, Timeout,   \* an hour and 8 s; ten minutes and 3 s
  MaxClock

Caches == {"tags", "release"}
Unknown == <<>>
Never == MaxClock + 1

ASSUME VersionAssumption ==
  /\ Timeout \in Nat \ {0} /\ TTL \in Nat /\ Timeout < TTL
  /\ MaxClock \in Nat \ {0} /\ PerPage \in Nat \ {0} /\ OtherTags \in Nat
  /\ \A v \in Versions : v \in Nat \X Nat \X Nat

VARIABLES
  clock,
  published,   \* when GitHub got each version
  cached,      \* versionsKernel, publicVersionCache.latest
  checked,     \* versionsChecked, publicVersionCache.checked
  asking,      \* the request that holds each mutex and asks GitHub, if any
  askedAt,     \* since when
  since,       \* when each request came to which mutex, if it waits for one
  failing      \* history: GitHub was last asked in vain

versionVars == <<clock, published, cached, checked, asking, askedAt, since, failing>>

\* known: a version was known when the request came.
Waiting(c, at, known) == [cache |-> c, at |-> at, known |-> known]
NotWaiting == Waiting("none", 0, FALSE)

VersionInit ==
  /\ clock = 1
  /\ published \in [Versions -> {0, Never}]
  /\ cached = [c \in Caches |-> Unknown]
  /\ checked = [c \in Caches |-> Never]
  /\ asking = [c \in Caches |-> {}]
  /\ askedAt = [c \in Caches |-> 0]
  /\ since = [r \in Asks |-> NotWaiting]
  /\ failing = [c \in Caches |-> FALSE]

FirstDifference(a, b) == CHOOSE i \in 1 .. 3 : a[i] # b[i] /\ \A j \in 1 .. i - 1 : a[j] = b[j]

\* Mistake: parts are compared as texts.
compareTexts(a, b) ==
  LET text == [n \in 0 .. 99 |-> IF n < 10 THEN 10 * n ELSE n]
  IN  CASE a = b -> 0
        [] a # b /\ b = Unknown -> 1
        [] OTHER -> LET i == FirstDifference(a, b)
                    IN  IF text[a[i]] > text[b[i]] THEN 1 ELSE -1

\* Both compareDotVersions, for versions of three parts.
compareDotVersions(a, b) ==
  CASE a = b -> 0
    [] a # b /\ b = Unknown -> 1
    [] OTHER -> LET i == FirstDifference(a, b) IN IF a[i] > b[i] THEN 1 ELSE -1

\* What GitHub shows at a time: what has been published earlier.
PublishedBy(t) == {v \in Versions : published[v] < t}

\* The kernels on the first page of the tags: all, or what is left when the page is
\* full. In which order GitHub lists them is not known.
FirstPages(t) ==
  {page \in SUBSET PublishedBy(t) :
     /\ Cardinality(page) <= PerPage
     /\ page = PublishedBy(t) \/ Cardinality(page) + OtherTags >= PerPage}

\* highestVersionFromTagNames goes through the tags in the order they come.
highestVersionFromTagNames(tags) ==
  IF tags = {} THEN {Unknown}
  ELSE {v \in tags : \A w \in tags : compareDotVersions(w, v) <= 0}

\* releases/latest is the one published last.
LastPublished(t) ==
  IF PublishedBy(t) = {} THEN {Unknown}
  ELSE {v \in PublishedBy(t) : \A w \in PublishedBy(t) : published[w] <= published[v]}

\* The answer is as of a moment of the exchange.
AnswersOfGitHub(c) ==
  UNION {IF c = "tags" THEN UNION {highestVersionFromTagNames(page) : page \in FirstPages(t)}
                       ELSE LastPublished(t) :
           t \in askedAt[c] .. clock}

-------------------------------------------------------------------------------

\* Mistake: a failure does not count as a check.
FreshIfKnown(c) == cached[c] # Unknown /\ checked[c] # Never /\ clock - checked[c] < TTL

\* cacheFresh; the release is fresh only when there is one.
Fresh(c) ==
  /\ checked[c] # Never /\ clock - checked[c] < TTL
  /\ c = "release" => cached[c] # Unknown

Arrive(r, c) ==
  /\ since[r] = NotWaiting
  /\ since' = [since EXCEPT ![r] = Waiting(c, clock, cached[c] # Unknown)]
  /\ UNCHANGED <<clock, published, cached, checked, asking, askedAt, failing>>

\* The mutex is acquired, the value is fresh and the request is answered.
AnswerFresh(r, c) ==
  /\ since[r].cache = c /\ asking[c] = {} /\ Fresh(c)
  /\ since' = [since EXCEPT ![r] = NotWaiting]
  /\ UNCHANGED <<clock, published, cached, checked, asking, askedAt, failing>>

\* The mutex is acquired and GitHub is asked. The release is marked as checked
\* before the answer, the tags after it.
AskGitHub(r, c) ==
  /\ since[r].cache = c /\ asking[c] = {} /\ ~Fresh(c)
  /\ asking' = [asking EXCEPT ![c] = {r}]
  /\ askedAt' = [askedAt EXCEPT ![c] = clock]
  /\ checked' = IF c = "release" THEN [checked EXCEPT ![c] = clock] ELSE checked
  /\ UNCHANGED <<clock, published, cached, since, failing>>

\* What is kept of an answer: a release without a tag changes nothing, a list
\* of tags without a kernel erases the kernel.
Keep(c, v) == IF c = "release" /\ v = Unknown THEN cached[c] ELSE v

Done(r, c) ==
  /\ asking' = [asking EXCEPT ![c] = {}]
  /\ since' = [since EXCEPT ![r] = NotWaiting]
  /\ checked' = IF c = "tags" THEN [checked EXCEPT ![c] = clock] ELSE checked
  /\ UNCHANGED <<clock, published, askedAt>>

GitHubAnswers(r, c) ==
  /\ r \in asking[c]
  /\ \E v \in AnswersOfGitHub(c) : cached' = [cached EXCEPT ![c] = Keep(c, v)]
  /\ failing' = [failing EXCEPT ![c] = FALSE]
  /\ Done(r, c)

\* An error, a bad status, a body that does not parse, the timeout.
GitHubFails(r, c) ==
  /\ r \in asking[c]
  /\ failing' = [failing EXCEPT ![c] = TRUE]
  /\ UNCHANGED cached
  /\ Done(r, c)

Publish(v) ==
  /\ published[v] = Never
  /\ published' = [published EXCEPT ![v] = clock]
  /\ UNCHANGED <<clock, cached, checked, asking, askedAt, since, failing>>

\* Time goes on unless a request can be served at once, or GitHub's time is up.
Clock ==
  /\ clock < MaxClock
  /\ \A c \in Caches :
       IF asking[c] = {} THEN \A r \in Asks : since[r].cache # c
                         ELSE clock < askedAt[c] + Timeout
  /\ clock' = clock + 1
  /\ UNCHANGED <<published, cached, checked, asking, askedAt, since, failing>>

VersionNext ==
  \/ Clock
  \/ \E v \in Versions : Publish(v)
  \/ \E r \in Asks, c \in Caches :
       Arrive(r, c) \/ AnswerFresh(r, c) \/ AskGitHub(r, c)
         \/ GitHubAnswers(r, c) \/ GitHubFails(r, c)

VersionSpec == VersionInit /\ [][VersionNext]_versionVars

-------------------------------------------------------------------------------
(* Correctness.                                                            *)

\* However many requests wait for the mutex, and whether GitHub answers or not,
\* none of them waits for more than one exchange with GitHub: what one request
\* learns, even that nothing can be learnt, serves all that wait behind it. The
\* release makes no such promise to a request that comes before one is known.
WaitsForOneExchange ==
  \A r \in Asks :
    since[r].cache = "tags" \/ since[r].known => clock <= since[r].at + Timeout

\* What it takes: a request that was promised so has just come, or waits for an
\* exchange that began before it came, or is about to be served what one brought.
WaitsWell(r, c) ==
  since[r].cache = c /\ (c = "tags" \/ since[r].known) =>
    \/ asking[c] = {} /\ since[r].at = clock
    \/ asking[c] # {} /\ askedAt[c] <= since[r].at
    \/ asking[c] = {} /\ Fresh(c) /\ clock <= since[r].at + Timeout

AsksWell(c) ==
  asking[c] # {} =>
    /\ askedAt[c] <= clock /\ clock <= askedAt[c] + Timeout
    /\ c = "release" => checked[c] = askedAt[c]

WaitInv ==
  /\ clock \in 1 .. MaxClock
  /\ cached \in [Caches -> Versions \cup {Unknown}]
  /\ checked \in [Caches -> Nat] /\ askedAt \in [Caches -> Nat]
  /\ asking \in [Caches -> SUBSET Asks]
  /\ since \in [Asks -> [cache : Caches \cup {"none"}, at : Nat, known : BOOLEAN]]
  /\ \A c \in Caches : AsksWell(c)
  /\ \A r \in Asks :
       /\ since[r].cache = "none" => ~since[r].known
       /\ since[r].cache = "release" /\ since[r].known => cached["release"] # Unknown
       /\ \A c \in Caches : WaitsWell(r, c)

\* Higher, by the first part in which two versions differ.
Higher(v, w) == \E i \in 1 .. 3 : w[i] < v[i] /\ \A j \in 1 .. i - 1 : w[j] = v[j]

\* The highest of some versions, or Unknown if there are none.
IsHighest(v, versions) ==
  IF versions = {} THEN v = Unknown
  ELSE v \in versions /\ \A w \in versions \ {v} : Higher(v, w)

IsLast(v, t) ==
  IF PublishedBy(t) = {} THEN v = Unknown
  ELSE v \in PublishedBy(t) /\ \A w \in PublishedBy(t) : published[w] <= published[v]

\* While a cache is fresh and GitHub has not failed since, it holds what GitHub
\* had to say at a time less than the TTL ago; for the tags, whose TTL starts
\* with the end of the exchange, one exchange more. That is the release published
\* last, and the kernel with the highest number of those on the first page: of
\* all, whenever they were published, only as long as the tags fit on one page.
ServesRecentVersion ==
  \A c \in Caches :
    Fresh(c) /\ asking[c] = {} /\ ~failing[c] =>
      \E t \in 1 .. clock :
        /\ t > clock - TTL - (IF c = "tags" THEN Timeout ELSE 0)
        /\ IF c = "tags" THEN \E page \in FirstPages(t) : IsHighest(cached[c], page)
                         ELSE IsLast(cached[c], t)
===============================================================================
