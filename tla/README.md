# Verification of the yoj online judge

yoj is an online judge: a Go API (Gin, GORM on MySQL) stores submissions, admits
them through a capacity gate in Redis and publishes judge tasks to RabbitMQ; Go
worker processes take the tasks, compile and run the programs and write the
verdicts; a React frontend talks to the API. The repository has no tests. This
directory models the parts of it whose correctness depends on the order of
things - requests, statements, messages, crashes, clocks - checks small
instances with TLC, and proves the most important properties with TLAPS for
every value of the constants.

`PROJECT.json` lists the components, the runs, the mutants (a wrong variant of a
definition for every checked property, which the run must reject), the lines of
the source every definition translates, the findings, the hazards and the
theorems. The wrong variants are the operators introduced by a comment "Wrong
variant": no specification uses them.

Paths below are relative to the repository; `api/`, `queue/`, `judge/` and
`model/` are directories of `server/internal/`.

## 1. Inventory

### Judge pipeline (`api/handler_submission.go`, `api/judge_dispatch.go`, `server/cmd/worker/main.go`, `server/requeue-pending/main.go`)

- State: `submissions.status`, rows of `submission_results`,
  `problems.accept_count`, the judge queue with its unacknowledged deliveries,
  the capacity tokens, and the program counters of requests and worker slots.
- Operations: submit, contest submit and admin rejudge (admission, store, publish,
  release on failure), requeue-pending, the worker's `processDelivery` (finished
  check, judge, ack, release; on an error retry by republishing or reject), start
  and stop of workers.
- Interaction: the database is shared by all; a task in the queue carries its
  capacity token and the number of the attempt; the worker releases the token.
- Hard: redelivery after a lost connection or crash, publishes without a confirm,
  retries that overlap with redelivered originals, rejudges that race with a
  worker, errors of statements that are ignored, tokens whose lease ends.
- Correct when: no submission is forgotten, tokens and tasks correspond,
  `accept_count` and result rows agree with the verdicts, verdicts are stable.

### Capacity gate (`queue/capacity.go`, `keepCapacityAlive` in the worker)

- State: a Redis sorted set of tokens, scored with deadlines of the callers'
  clocks; a ticker in every worker slot that judges.
- Operations: acquire, renew and statistics as Lua scripts, release by ZREM.
- Hard: clocks that differ, leases that end while a task waits, renewals that
  arrive late or after a release.
- Correct when: never more than the limit, a lease lasts its TTL and ends, no
  token comes back.

### RabbitMQ publisher (`queue/rabbit.go`, `queue/queue.go`)

- State: one connection, an inspect channel, a pool of confirm-mode channels
  (lanes), a read/write lifecycle lock, an inspect mutex.
- Operations: `NewRabbitPublisher`, `PublishTask`, `Inspect`, `Close`.
- Hard: cleaning up after a failed start, lanes returned on every path, late
  confirms on a lane in use by another call, `Close` against running calls.
- Correct when: lanes are conserved, success means stored, every call returns.

### Judge runner and self test (`judge/runner.go`, `judge/self_examine.go`)

- State: what a run has read of the problem and its test cases, its place in the
  loop, the result rows, the verdict.
- Operations: `JudgeSubmission` statement by statement; `RunSelfTest`; meanwhile
  the administrators' edits of test cases and limits.
- Hard: edits between the reads of a run, failed attempts that leave rows, an
  interrupted command taken for an outcome, two implementations of one judgement.
- Correct when: rows and verdict tell one story, Accepted means every case
  passed, the self test agrees with the judge.

### Contests and standings (`api/handler_contest.go`)

- State: contest, its problems, participants, its submissions; time.
- Operations: create, edit, delete, join, submit, standings.
- Hard: every handler is several statements without a transaction; creation time,
  ids and verdicts come in different orders; standings are four reads.
- Correct when: who submits has joined, the first time of joining stays, standings
  follow the ranking rules and never take back a solved problem.

### Problem catalog, import tool, seed (`api/handler_admin.go`, `api/handler_problem.go`, `api/handler_tag.go`, `server/cmd/import-problems/main.go`, `model/seed.go`)

- State: problems with unique slugs, soft deletion and derived counters; tags;
  the administrator's account.
- Operations: create, update, delete, tags; a transaction per imported problem;
  look-up-or-create of three rows at every start of a server.
- Hard: a deleted problem keeps its slug; read-modify-write of whole rows; several
  programs that create the same rows.
- Correct when: counters follow submissions, imports and starts can be repeated.

### Accounts, authorisation and session (`api/handler_auth.go`, `api/handler_user.go`, `api/middleware.go`, `web/src/state/AuthContext.tsx`, `web/src/App.tsx`, `web/src/api/client.ts`)

- State: users with roles; JWTs, which carry only the user's id; the token and the
  user in the local storage of a browser, and a copy of the user in every tab.
- Operations: register, login, logout, reload, pages behind guards, role changes;
  the middleware loads the user of the token for every request.
- Interaction: every other page sends the token of local storage as it is when the
  request is made, and shows the user of its own tab.
- Hard: administrators that change each other's role at the same time, an answer
  with a user that comes after the end of the session, other tabs.
- Correct when: an administrator remains, a tab shows the user whose token it uses.

### Profile (`api/handler_profile.go`, `web/src/pages/ProfilePage.tsx`)

- State: nickname and images of a user, the user of the context, the editor of the
  nickname; the activity by day.
- Operations: load, save, upload, each answered with the user as it was loaded and
  the column that was written; change of the password; the heat map and streak.
- Hard: two answers each with a user from before the other; a colour scale made
  from the days that it colours.
- Correct when: what is shown is what is saved; more activity is never paler.

### Frontend: pages with drafts (`ProblemDetailPage.tsx`, `ContestProblemPage.tsx`, `SelfTestPanel.tsx`, `ProblemSubmissionsPanel.tsx`, `SubmissionDetailPage.tsx`)

- State: route, language, text of the editor, the timer that will save it, drafts in
  local storage shared by the tabs, the statement, the submission under way; the
  fields and the result of a self test; what is polled; the drawer's list.
- Hard: answers that arrive after the page has moved on, a draft saved under the
  key of another problem or language, polling that never ends or ends too early, a
  list that grows by pages while its filter changes.
- Correct when: a draft is written under its own key, statement and route agree,
  a result fits the fields beside it, a verdict is shown in the end.

### Frontend: lists, forms and the page of a contest (`web/src/pages/`, `web/src/pages/admin/`)

- State: filters in inputs and in the URL, requests under way, rows; forms with the
  row they are for; a contest and its standings.
- Hard: several requests under way, filters changed while rows load, a form saved
  before its fields have come, or that another save closes.
- Correct when: rows fit the filters, no row gets the text of another, the contest
  shown is that of the route.

### Not modelled

Dashboard (read-only aggregates), configuration and process start (environment and
wiring), theme and helpers of the frontend, scripts, the SQL dump and deployment
files. Section 6 lists what is left out of the modelled parts.

## 2. Modules

| Module | Contents |
| --- | --- |
| `AdmissionGate` | abstract gate: at most `Max` tokens, a token enters once, may leave at any time |
| `CapacityGate`, `CapacityGateProofs` | the gate with leases, clocks and heartbeats; implements `AdmissionGate` |
| `JudgePipeline`, `JudgePipelineProofs` | requests, queue, workers and database; uses the gate as `AdmissionGate` |
| `RabbitPublisher`, `RabbitPublisherProofs` | the publisher with its lanes and locks |
| `Arrangement` | the elements of a set as a list in a given order, for the runner's test cases and the standings |
| `Runner`, `RunnerProofs` | one submission judged, with edits and self tests |
| `ContestTables` | abstract contest rows: what handlers together may do to them |
| `Contest`, `ContestProofs` | the handlers' statements; implements `ContestTables` |
| `Standings`, `StandingsProofs` | extends `ContestTables` with the four reads and the ranking |
| `Catalog`, `CatalogProofs` | problems, submit counts, import and seed |
| `ClientValues` | the values the modules of the web client share |
| `DraftBook` | abstract drafts: one text for each key, tabs show and write the text of their own key |
| `SolvePage` | both pages with an editor in several tabs; implements `DraftBook` |
| `SelfTest` | the self test panel |
| `SubmissionWatch` | the list and the page of submissions, polled until judged |
| `ProblemDrawer` | the growing list of problems |
| `FilteredLists` | the eight pages with lists, filters and pages |
| `EditForms` | the forms for tags, test cases, problems, contests and the password |
| `Session` | accounts, tokens and users of server, browsers and tabs |
| `ProfileForm`, `ActivityHeatmap` | the profile, and the activity by day |
| `ContestPage` | a contest with its standings, and joining |
| `Browser`, `BrowserProofs` | the web client: the ten parts together; proofs about each part and about them all |
| `MC*` | instances for TLC: values of constants and symmetry sets |

How the state and the actions correspond to the code:

- **JudgePipeline.** A request acquires at most one token, so it is its own token;
  a submit request stores one row, so a submission is the request that stores it.
  `reqPc` is the place in a handler, and a handler that stops between two calls
  (`ServerCrash`) leaves what it did. `ready[t]` counts the copies of a task in
  the judge queue; `unacked[w]` is the delivery the broker holds for slot `w`,
  and `task[w]` the task the slot works on: the two differ once the connection
  is lost. `pc[w]` walks through `processDelivery` and the statements of
  `JudgeSubmission` that other parties see. Every statement or call that may
  fail has an action that fails. The handlers' `defer` is the label "release".
  A retry is published to the judge queue again, at once. Prefetched but not yet
  received deliveries count as ready, and the iterations of the requeue tool are
  independent requests.
- **CapacityGate.** One action per script. `Clock(c)` is the caller's clock;
  `deadline` the scores. A heartbeat is a pair of a worker and a token with the
  time its ticker fires next.
- **RabbitPublisher.** The start opens connection, inspect channel and lanes one by
  one; `making` is the channel that `newPublisherLane` has opened and not yet put
  into confirm mode, and `ClosedOnFailure` lists, for each place where the start may
  fail, what the code of that path closes (rabbit.go:61-95). A call moves through
  lock, lane, publish, wait for the confirm, return of lane and lock; an inspection,
  and the closes of channels and connection, wait for the broker without a timeout.
  `writer` is set when a `Close` starts to wait, because Go's `RWMutex` blocks new
  readers from then on. The broker stores tasks and confirms at any later time,
  refuses, or takes channels or the connection away.
- **Runner.** Each database statement is an action, the import tool's transaction
  is one of the edits; `testCases` and `runLimit` are what the run has read. Texts
  are sequences over two letters, blank, tab, line feed and carriage return. The
  passes of `normalizeOutput` each have an operator, which names the places of
  the text that the pass keeps (`At`); the property compares with a reference
  definition, the visible layout of a text (`Layout`): its visible characters,
  each with its rank, its row and the blanks in front of it.
- **Contest.** `request[r]` is a record of what the handler has read so far. The
  rows are those of `ContestTables`; `T!` names its operators. A submission is
  judged by `Judge` once, and a rejudge makes it Pending again; every other write
  over a settled status - the System Error of a publish that failed or came too late
  (handler_contest.go:320), a second delivery that sets it back to Judging (worker
  main.go:163) - is `Overwrite`, which may write any status and records the
  submission in `overwritten`.
- **Standings.** Each of the four queries is an action; the last one computes the
  answer. `Counted` is the list the query returns, the recursive function in `Rows`
  is the handler's loop over it, with the rows so far in the place of the slice
  that the loop writes to, and the sort is the arrangement by `Precedes`. A user
  name is the number of its user.
- **Catalog.** A transaction reads, then takes its locks with the first write, so
  it is two actions: what it read, and all it writes. `rows` includes deleted
  problems, `Live` is GORM's scope. An import looks a problem up by the slug of the
  file as it is and stores it by the trimmed one (`Trim`, import-problems
  main.go:156, :174); `StartImport` chooses the file.
- **SolvePage.** Both pages have the same effects, so their drafts, requests and
  submissions are shared operators, and each page has actions of its own that use
  them with its own guards (only the page of a contest has `denied`). A key is a
  route and a language. `timers[t]` is what the pending timers would write: React
  clears the timer of the effect before it starts another, so it holds at most one
  save, which is what the refinement of `DraftBook` shows and its mutant breaks.
  A render that follows a change of the key is taken to come before the 250 ms of
  the timer it starts. A page that is left ends its requests, except its
  submission: `strays` counts those whose answer will still navigate.
- **EditForms.** A text is named after the row it began as, so that a text in
  another row is visible; what the user types into it keeps its name. One form is
  open at a time, of one of five kinds (`formKind`).
- **FilteredLists.** Rows are the query they answer. One action per handler of each
  page; the five pages with a URL share `Go`, the other three `Load` with the
  arguments of their handlers.
- **Session.** A request has a step for what the server reads and one for what it
  writes (`LoadUser`, `WriteRole`): the middleware's user is as old as that read.
  `route` is where the guards of App.tsx let a tab be.
- **ProfileForm, ContestPage, SubmissionWatch, ProblemDrawer.** Requests under way
  are a set; an answer holds what the server knew when it wrote it, and is used
  whenever it comes, as the pages do. The server counts the problems of the drawer and
  reads the page in two steps, which the catalogue may change around. A request of the
  profile that is lost for the page may go on at the server (`lost`).
- **Browser.** The parts share nothing but the session and the drafts, which are
  variables of one part each, so interleavings of different parts show nothing
  new: a behaviour of `Browser` chooses a part and leaves the others as they are
  before their page is opened. Every behaviour of `Browser` therefore is one of
  each part's specification, and the theorems about the parts apply to it.

## 3. Runs

All runs use Spec without fairness unless said otherwise.

| Run | Instance | States | What it shows |
| --- | --- | --- | --- |
| `judging` | one submission and a rejudge of it, a process with two slots, one retry, two failures | 1 695 000 | `NoLostTask`, `TokenCoversTask`, `NoTokenLeak`: no open submission without somebody who will judge it, tokens and tasks in flight correspond; `AcceptCountExact`, `ResultsOfOneRun`, `VerdictStable` |
| `live` | one submission and the requeue tool, two processes, one place in the gate, one failure, fair | 63 000 | `EventuallyJudged`, `TokenReturned`, `RequeueRecovers` |
| `shutdown` | one process asked to stop | violation | `RuntimeErrorIsThePrograms` is violated (finding 1) |
| `gate` | two clients, three tokens, two places, TTL 4, skew 1 | 816 000 | leases, refusals, heartbeats; refines `AdmissionGate` |
| `publisher` | two publishes, an inspection, two closes, one lane, two failures, fair | 46 000 | lanes conserved, drain without waiting, success means stored, a failed start and a close leave nothing open, calls return unless they wait for a silent broker |
| `runner` | two test cases of four kinds, one of them with a blank output, ten programs, one edit, one failure | 1 548 000 | rows and verdict, Accepted exactly when all pass, self test agrees |
| `contest` | an administrator and a user, two requests, two submissions, one change or overwritten status | 1 365 000 | refines `ContestTables` |
| `standings` | two users, two problems, two submissions, one change or overwritten status | 1 443 000 | ranking rules, solved problems stay |
| `catalog` | two problems, two slugs, two servers, an import of one of two files, one of which spells a slug with a blank in front, an update, a submission, one change, one failure | 1 505 000 | counters, imports and starts |
| `browser` | two tabs of one or two browsers, ten parts of the web client; fair where submissions are polled | 354 000 | drafts, requests and answers, forms, the session, what is shown in the end; `SolvePage` refines `DraftBook` |
| `draft_lost` | one tab, four moves | violation | `LeavingKeepsEdits` is violated (finding 2) |

Every run says CHECK_DEADLOCK FALSE, because what users, clients and failures do is
bounded and the system stops when all of it has been handled; that it does not stop
earlier is what the liveness properties show.

Why these bounds are enough to be interesting. In the pipeline every property is
about one submission and its tasks, so one submission is followed deeply: two
slots are what it takes for two parties to work on the same task, one retry gives
both a retry and an exhausted retry, and two failures combine, for instance, a
lost confirm with a failed nack, or a lost connection with a crash. (A dead
task's lost nack takes a third failure and is covered by the proofs only.) `live`
has one place in the gate, so that the requeue tool and the submission compete for it, and
`Untested` makes the judge end without a run. Three
tokens for two places are the least for which a refusal, an expiry and an
admission follow each other. One lane makes the two publishes contend for it and
reuse it after a late confirm; that a start failing at a later lane drains the
earlier ones is covered by the proof of `NothingLeftOpen` only. Two test cases suffice for a failure after a
success and for a reordering. Standings need two users to rank and two problems
to add penalties; MaxChanges bounds edits, rejudges and submissions whose status is
overwritten, together. In `catalog`, an update renames problems without limit, so two
slugs are enough for every collision.

In `browser`, two tabs of one browser share local storage and two of different
browsers do not; both are initial states. A page goes wrong when an answer comes
after the next question, so every part has at least two requests under way and a
second problem, row, filter, account or contest to be mixed up with. An editor page
takes three moves of its user (open, type, leave), a form four (open, type, save,
open another), lists and contests two. The drawer has a catalogue of three problems
by pages of one, so that a third page can be asked for while the filter changes. A
heat map of four days with up to two activities each has every colour. One failed
request shows the error path of polling; elsewhere requests may fail at any time.

MaxFaults, MaxChanges, MaxEdits, MaxTime, MaxSubmissions, and MaxMoves, MaxAsked,
MaxFailed, MaxResets, MaxActs with the other bounds of the web client, bound the
state space only; the proofs hold for any value of them.

### History variables and exceptions

Some properties hold only up to failures that the code cannot repair. These are
recorded in history variables, by the very action in which they happen, and the
properties name them:

- `abandoned`: the status update before an ignored error (worker main.go:212, 235,
  handler_submission.go:102), a crash of the API between storing and publishing,
  a nack or a crash after the broker gave the delivery to somebody else.
- `leaked`: tokens whose holder died or whose release failed; they return when
  their lease ends.
- `excused`: tokens that expired, tasks published without a confirm, deliveries
  that exist twice.
- `raced`: submissions two parties worked on at once. `AcceptCountExact`,
  `ResultsOfOneRun` and `VerdictStable` say nothing about these: the code takes no
  lock, so accept_count may then be counted twice. It also covers a commit
  whose reply was lost and a publish that failed late for a task already judged.
- `overwritten` in Contest and Standings: submissions whose settled status was
  written again without a rejudge, since the code does not guard against it. A verdict
  that a late System Error or a second delivery takes back takes back the solved
  problem as well; `SolvedStays` exempts that user and that problem and no other.
- `missed`, `overlapped`, `disturbed` in Catalog, `killed` in Runner, `steady` in
  CapacityGate, in the same way.
- In the web client: `muddled` (SolvePage), `outdated` (FilteredLists), `mixedUp`
  (ContestPage), `mixed` (ProblemDrawer) and `blurred` (ProfileForm) say that the
  latest request failed or was overtaken by the answer to an earlier one, which the
  pages use all the same, or, in the drawer, that the catalogue changed since the
  answer was counted; `crossed`, that another tab wrote the draft; `late` in a
  result of SelfTest, that the fields changed during the run; `doubtful` and
  `hasty`, that a page was saved before its fields had come; `estranged`, `leaked`
  and `raced` (Session), that another tab logged in or out, that an answer brought
  back the user of an ended session, and that two administrators changed each
  other. Each is set by the action in which it happens and reset by the one that
  repairs it, so that the properties hold again after the next request.

### Fairness

`live` assumes weak fairness of: the next step of a request's handler, the next step
of a slot, the broker's redelivery after a closed channel, the close of the consumer
and the exit after a SIGTERM. That is the Go scheduler, calls with timeouts, and
RabbitMQ's requeue. Nobody promises a restart, a signal or another attempt of a
client, so no fairness is assumed for these: with one failure allowed, the other
process judges. `publisher` assumes that the goroutine of a call runs while it does
not wait for the broker, and that the timeout of a publish fires. A write to the
socket is taken to return; nothing is promised of the broker. `QueueInspect` and the
closes of channels and connection have no timeout, so `CallsReturn` makes an exception
of calls that wait there for ever: an inspection that a silent broker never answers
keeps its read lock, the `Close` that waits for the lock keeps later publishes out. A
publish that already has its lock returns in every case. `browser`
assumes, for `VerdictsAreShown` only, that a submission goes on being judged (what
`EventuallyJudged` shows), that the interval of an open page fires, that the server
answers what it was asked and that an answer arrives; requests may fail, up to
MaxFailed. The user promises nothing. No run assumes strong fairness.

## 4. Proofs

Every theorem is checked by TLAPS from the assumptions named in the modules and
nothing else. The assumptions on the constants are typing facts (disjoint kinds
of requests, finite sets of lanes, test cases, users of contests, problems of the drawer and submit
requests, positive limits and page sizes, a `None` that is no row), evaluated by
TLC in every run.

Three forms in the modules are there for the proofs, because the prover can expand
neither RECURSIVE operators nor the folds and sorts of the library. A list in an
order is the CHOOSE of a function from `1 .. Cardinality(S)` (`Arrange`, `Falling`),
a filtered text is the list of its kept places, and the loop of the standings is a
recursive function; one lemma per form shows that what is chosen exists
(`Arranged`, `FallingLists`, `LoopExists`). And where a proof
goes from one number to the next, it takes the least one for which the claim fails
(`LeastNat`, from the well-foundedness of < on the natural numbers), since the
induction rules of the library are out of reach.

- **JudgePipelineProofs.** `TypeCorrect` and `DeliveryIsTask` are proved together:
  TypeOK needs to know that a retry carries the task's token. The inductive
  invariant `TypeOK /\ DeliveryInv` says that a connected slot has its delivery
  until it settles it and that delivery and task have the same token.
  `NoTaskIsLost` adds NoLostTask itself: the argument goes through `Covered(s)`,
  with one lemma for what every other party contributes (`OthersCover`: a step
  that leaves a party alone leaves its cover alone) and one per kind of step for
  the acting party. `ImplementsGate` shows that each step maps to a step of
  `AdmissionGate` or a stutter.
- **JudgePipelineProofs, tokens.** `TokensCoverTasks` and `NoTokenStays` need more than
  themselves. A release is harmless only if the released token's task is nowhere
  else, so `PlacesInv` says that the task of a token that is not excused is in one
  place: with its request until that is done, then one copy in the queue or one
  slot, where a slot that has only to settle an attempt it republished does not
  count. `CoversInv` and `AnchorInv` are the two directions (what is in flight has
  its token; a token has somebody who will release it), and `EmptyInv` says that
  a connected slot that has settled holds no delivery, so that the next one it
  receives overwrites nothing. The many actions of a slot and of a request are
  first reduced to a few shapes of what they do with the token (`Keeps`, `Takes`,
  `Settles`, `GivesBack`, `Republishes`, `Releases`, ...), and the invariants are
  proved of the shapes.
- **JudgePipelineProofs, verdicts.** `RowsOfOneRun`, `VerdictsStay` and `CountIsExact` are
  about what is stored. Whoever works on a submission marks it `raced` unless he
  is alone, so the invariant is about one party: `KnownInv` says that requests,
  tasks and slots are about stored submissions, `JudgedInv` that as long as a
  submission is not raced, at most one party works on it and how far it has come
  tells status and rows (open before the run, no rows in it, one run's at its end).
  Actions are reduced to `RequestMove` and `SlotMove`, which move at most one
  submission; the counter follows by counting the accepted ones with and without
  it.
- **CapacityGateProofs.** `HeldInv` (members are admitted tokens, finitely many)
  gives the bound and the refinement; `ScoreInv` (a score is the time of writing
  plus TTL, up to the skew) gives `LeasesLast` and `RefusalsAreJustified`;
  `BeatInv` (a steady heartbeat is due within an interval and wrote its token
  within one interval and the delay) gives `HeartbeatsKeepLeases` under
  `Interval + Delay + Skew < TTL`. With the code's minimum of ten seconds this
  fails for a TTL of ten seconds or less; config.go does not rule that out.
- **RabbitPublisherProofs.** The inductive invariant is the conjunction of types,
  `CallInv` (what a call at a label holds), `LockInv` (readers and the writer),
  `MakingInv` (the channel being made into a lane is open and no lane yet),
  `LanesConserved`, `StoredInv` (a confirm is only for a task that was sent and
  stored) and `OpenInv` (what is open at each stage of the start, so that what the
  path of a failure closes is all there is). Any number of lanes and calls.
- **ContestProofs.** `ChecksHold` says that what a request has checked is still
  true or was true at a moment the property allows (joined rows are never
  removed); with it `JoinedFirst` and the refinement of `ContestTables` follow
  action by action.
- **StandingsProofs.** `RankingIsRight`: an element of an arrangement stands at its
  place, one more than there are elements before it (`ArrangedPlace`), so what the
  loop has added before a submission is what comes before it in time (`SeenGrows`).
  `RowOf` says what a row is after a set of submissions, without a loop; adding the
  next submission leads from the row of one set to that of the next (`NextRow`,
  `NextRows`), with a case for a problem that is already solved, one that is solved
  now and one that is not. After the last submission the set is all that was taken
  (`RowsAre`), the properties' own words and `RowOf` agree (`RowTells`), and a row's
  rank is its place in the order by solved problems, penalty and name (`Ranked`).
  `SolvedIsKept` relates two answers: `ViewIsCurrent` says that what a request has
  read is still so unless there was an edit since, `ShownIsSolved` that what the
  last answer shows as solved is solved by a stored submission with that penalty,
  by a user whom a request that has read the participants knows. Both are kept
  because a step takes nothing away and without an edit or a rejudge changes no
  accepted submission that is not overwritten (`Grows`); a verdict that comes late can only put an earlier
  submission first, which lowers the penalty (`FirstSolves`).
- **RunnerProofs.** `RunnerInv` has the types, what the labels of a run imply
  (`StageInv`), `StoryInv` (the rows so far are those of the first `index` test
  cases, all Accepted unless the run is at its end, and `worst` is their longest
  time), `JudgedInv` (a row says what the program deserves on its test case, unless
  the run was killed) and `SelfInv` (so does the answer of a self test). It gives
  `RowsAndVerdict` and `SelfTestsTell`. `AcceptedMeansPassed` also needs that
  `normalizeOutput` is right, for all texts: each pass selects places of the text in
  order (`Selects`) and keeps the visible characters, the line ends between them and
  the blanks in front of them (`KeepsLayout`), hence the layout (`LayoutStays`); what
  comes out is `Neat`, without carriage returns, blanks at line ends and empty
  margins; and two neat texts with one layout are equal (`OneNeatText`): at the
  first place where they differ the next visible character has its counterpart in
  the other text, with the same row and the same blanks before it.
- **CatalogProofs.** `CountersFollow`: `CountsInv` compares a problem's counter, plus
  the submissions that are stored and not counted yet, with its submissions, except
  for problems that an import overlapped; an import that will save the row it has
  read must have read the counter (`ReadInv`), and what is submitted to exists
  (`UsedInv`). `RepeatsAreSafe`: what a repeated import or start has looked up is
  still so when it writes (`RepeatInv`), unless somebody disturbed it, or the file
  spells with a blank in front a slug that is taken (`Misread`).
- **BrowserProofs.** One section for each part of the web client.
  - `SolvePage`: every step is first reduced to what it does to an editor
    (`EditorStep`: load, type, reset, save, unmount, or nothing) and to the requests
    for statements (`AskStep`). `DraftInv` says that the timer of a tab, if there is
    one, is for the key and the text on the screen, and that without a timer that
    text is saved unless `crossed`. It gives `QuietDraftsSaved` at once, and
    `DraftsKept`, where it is needed for one step only: what a timer writes is what
    the tab shows. `AskInv` orders the requests by their numbers and says that the
    newest is for the route; `StatementsFit` follows.
  - `SelfTest`, `EditForms`: a run under way is for the fields on the screen until
    something changes; stored texts, saves under way and the open form have the
    text of their own row, all of it unless `hasty` (`FormInv`).
  - `Session`: requests carry accounts that exist and what was read for them is
    theirs (`CallsInv`); `StoreInv` strengthens `ScreenIsTheTokens` by dropping its
    condition on `leaked` for the tabs that are not estranged, without which it is
    not inductive. `AdminsRemain` needs that the user of a role request is the
    account that sent it.
  - `ProblemDrawer`: `DrawerInv` says that no problem is listed twice, and that a
    list which nothing mixed holds the first pages of its filter, and knows whether
    there are more, once its first page has come; `ServedOK`, that what the server has
    counted and read for a request is right until the catalogue changes.
  - `ActivityHeatmap`: the number of days with at most a score grows with the
    score, so the three quantiles rise, and with them the colours (`LevelsRise`);
    they exist because the scores have a greatest and a least number.
  - `ContestPage`, `FilteredLists`: the newest request, if it is under way, asks for
    what the page shows, and if it is not, its answer is on the screen
    (`LatestInv`, `LatestRequestInv`), unless an older answer came after it.
    `ContestInv` also follows who takes part through answers that were written
    before a join (`TellsMembers`, `WillAsk`); `InputsInv` says when the inputs of a
    list ask for what its URL asks for.
  - `ProfileForm`: until requests overlap or one fails there is one at most, and what
    the server has read for it is what is saved (`OneCallInv`).
  - `BrowserRunsItsParts` shows that a behaviour of `Browser` is one of each part,
    since a step of another part leaves its variables alone; with it the invariants
    of the parts hold together (`BrowserIsTyped`, `BrowserIsRight`).

A few theorems state properties that no run checks by themselves any more
(the types of the pipeline, the gate and the contest, NeverOverMax and
NeverResurrected, PassesTheGate, JoinedBeforeSubmitting): the runs check the
stronger refinements and invariants beside them, the proofs hold for every instance.

Only model-checked: liveness (`EventuallyJudged`, `TokenReturned`,
`RequeueRecovers`, `CallsReturn`, `VerdictsAreShown`), since fairness and ENABLED are
outside the prover. Every other property of the passing runs is a theorem.

Some proofs did not go through at first, and for good reasons; the model or the
property was wrong:

- `SelfTestAgrees` fails for a test case whose expected output is blank. The
  handlers refuse one, the import tool does not (main.go:141). The judge
  compares with it, the self test takes a blank field for no expected output
  (self_examine.go:175). The property now names the exception, and the run has such
  a test case.
- On the problems page the user logs out with a status chosen and then searches:
  the effect of the user clears the status, the search does not change the URL, and
  what was asked is not what is shown (ProblemListPage.tsx:245, :283). Its
  history variable now records it.
- The drawer, the heat map, the contest's page, the catalog and the runner needed
  assumptions on their constants that TLC's instances had met without saying so
  (finite catalogues and sets of requests, a `None` that is no row).

## 5. Findings

1. `shutdown`: judging runs under the context that SIGTERM cancels, so a graceful
   stop kills the running program, and the kill is stored as the program's Runtime
   Error (runner.go:291, :139).
2. `draft_lost`: both editors say that drafts are saved automatically
   (ProblemDetailPage.tsx:608), but leaving the page, the problem or the language
   within 250 ms of the last key clears the timer without saving (:228).

Also met while modelling, without a run of their own.

- The repository's README describes a Redis queue, the code uses RabbitMQ; deleting
  the sample problem keeps every server from starting (seed.go:42; see
  `RepeatsSucceed`); an import saves the counters it has read (`CountsFollow`).
- A rejudge of a submission whose first task still waits is judged by that task; its
  own is acknowledged unjudged. That is the idempotence the worker intends
  (main.go:163-174), as every finished submission is skipped.
- A file that spells a slug with a blank in front is imported once; the second import
  of the same file does not find the problem, hits the unique index and ends the tool
  (import-problems main.go:156, :174; `Misread`).
- A publish of a contest submission that times out after its task was stored writes
  System Error over the verdict, and the standings take the solved problem back
  (handler_contest.go:320).
- A broker that does not answer an inspection blocks `Close`, and with it every later
  publish (rabbit.go:282, :309).
- Two administrators can demote each other (handler_user.go:111); a late answer of
  the profile restores the user after a logout (AuthContext.tsx:34).
- The list of users links to `/admin/submissions?user_id=`, a parameter that the page
  and handler_submission.go:345 do not read; its reset loads with the filter of the
  closure (AdminUsersPage.tsx:132).
- Which message a self test shows is decided by the expected output as it is when the
  answer comes, not as it was sent (SelfTestPanel.tsx:37-43).
- The answer of a submission navigates to its page also after the user has gone
  elsewhere (`StrayEnds`).
- Deleting the last row of the last page leaves an empty table
  (AdminProblemListPage.tsx:76). The save or deletion of one tag closes the editor of
  another (AdminTagsPage.tsx:164, :181). Test cases and contests are created twice by
  a second click (AdminTestCasesPage.tsx:92). A jump in the history from the page of a
  row to that of a new one keeps the fields of the row.
- The answer of the profile overwrites the nickname being typed
  (ProfilePage.tsx:271). With scores 1, 2, 2, 2, 2 every day has the second level.
- Joining a contest and opening another one before the answers come shows the first.

## 6. Not modelled

`submit_count` is in Catalog, not in the pipeline; a malformed message, an
unroutable task (the queue is declared and never deleted) and the dead-letter
queue's contents, which nothing consumes; compiling and the arguments of docker,
whose outcomes are enumerated; an administrator's self
test of a deleted problem; the texts and lists of problems and contests; the
score of a contest problem, which nothing uses; rounding of datetimes: one clock
and integer time units for contests. The published flag and the existence of a
problem are folded into the problems of a contest. Submissions are never deleted,
nor are problems during standings.

Of the frontend: the theme, the rendering of statements and results, columns, texts
and validation of forms, the choice of several tags, resizing, the drawer of a
contest (it filters what is loaded), the URLs of images; `utils/queryState.ts`,
which nothing imports. The statistics of the dashboard and the profile are sums of
one query each. Expired tokens are requests that fail.

Three hazards have no property: a lane whose channel died is handed out
again, since nothing reopens it (rabbit.go:202; listed with a note); docker's own exit
code 125 is taken for the program's (runner.go:499); a killed shell leaves its child
with the output pipes open (runner.go:300). The last two lie at the edge to an external
program whose behaviour the source does not determine, so `PROJECT.json` does not list
them.

## 7. Further work

A run in which several parts of `Browser` interleave would only be of use if a page
came to share more than session and drafts. Fairness of the
network is assumed for `VerdictsAreShown` only; the lists do not retry and promise
nothing.
