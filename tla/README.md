# CT-Flow in TLA+

CT-Flow is a human-in-the-loop labeling tool. People draw boxes on images in a browser; a Go API
stores them in PostgreSQL; a Python sidecar learns visual prompts from the boxes (the *bank*) and
labels the rest of the pool with them. This directory holds TLA+ models of the parts of CT-Flow that
are hard to test, the TLC configurations that check them, and TLAPS proofs of the results that matter
most. Source paths below are relative to the repository; `httpapi/` stands for
`backend/internal/transport/httpapi/`.

Contents: [the system](#the-system) · [the modules](#the-modules) · [the runs](#the-runs) ·
[fairness](#fairness) · [the proofs](#the-proofs) · [where code and documentation disagree](#where-code-and-documentation-disagree)
· [what is not modelled](#what-is-not-modelled) · [the plan](#the-plan)

## The system

Three processes and a database, none of which shares a transaction with another:

```
browser tabs --HTTP--> API (Go, one process) --HTTP/NDJSON--> sidecar (Python, threads)
  session.ts            locks, jobs, claims in memory           checkpoints in memory
  polls and timers            |                                 bank: two files per project
                              +--SQL--> PostgreSQL
```

| component | state it keeps | operations | what is hard | what makes it correct |
|---|---|---|---|---|
| Label store `infra/store` | projects, classes, images, annotations | one transaction per write, behind `requireProject` | deletion under running requests | no row without its project; ground truth only with its row; decisions of people stand |
| Label, review and benchmark handlers `httpapi/label.go`, `testset.go` | a request's place in its handler | save (lock, teach, write, mark, release), relabel, import, remove | several calls, two stores, no common transaction; cancellation in between | a class in the database is known to the bank; both list classes in one order; held-out images teach nothing |
| Project lock `platform/projectlock` | one mutex per project | lock, unlock | failures and disconnects with the lock held | held by exactly the save that took it |
| Jobs `httpapi/jobs.go`, `platform/jobs`, `infra/vpe` | the tracker's records, goroutines, streams | create, tick, finish, fail, poll | deadlines, truncated streams, restarts of either process | only a whole pass is a result; a verdict stands; every job and poller ends |
| Prompt bank `inference/bank.py` | `embeddings.pt`, `metadata.json`, file lock | load, migrate, lock model, add, reembed | unlocked reads of two files, stale objects, failing writes, crashes | the files agree; no vector is lost; one embedding space; every call ends |
| Inference `inference/service.py`, `vpe.py` | a class list and prompts per checkpoint, its lock | arm, predict, extract; a pump thread per stream | one loaded model shared by all calls; abandoned streams | each pass decodes with its own classes; the lock comes free |
| Claims `platform/claims`, `httpapi/state.go` | image -> user and time | claim, release, expiry | renewal against expiry, late requests, sleeping machines | one image each; nobody shares an image for longer than a renewal takes; abandoned images return |
| Queue of a tab `frontend/.../session.ts` | current image, copies of claims and progress | open, move, save, poll, heartbeat | callbacks that arrive after the state they were asked for has changed | the queues differ; requests settle |
| Labeling canvas `session.ts`, `PoolPanel.tsx` | boxes, guesses, requests under way, `busy` | draw, undo, load, save, review, copy, auto-label | answers in any order, keys that `busy` does not stop | boxes stay with their image; guesses fit; the tab catches up |
| Undo history `session.ts` `useBoxStack` | boxes, past, future | set, reset, undo, redo | two bounds cut apart from each other | one line of states with a mark |
| Box editor `components/BoxCanvas.tsx` | selection, drag, grip | press, drag, release, keys | the list changes under a drag | no box inside out, keys keep it in the image |
| Benchmark panel `panels/TestsetPanel.tsx` | the set, its canvas, ticked rows | import, remove, label | answers applied with the state of the click | an answer key is of its own image |
| Readiness card, model picker `PoolPanel.tsx` | measured F1, confirmations | evaluate, re-check, auto-label, switch | a measurement outlives its model | nothing goes to an unmeasured model unasked |
| Label plan `LabelsDialog.tsx`, `PoolPanel.tsx` | planned names, colours, the class to draw | plan, pick, type, digits | the server's list grows under it | a review is one the server takes; colours stay |
| Gallery `panels/GalleryPanel.tsx` | rows, filter, requests | reload, page, scroll | one busy flag for two kinds of request | rows are the list asked for; scrolling ends |
| Project page `p/[id]/page.tsx` | panel, focus, dialogs | keys, leaving | two canvases, one selection | no work lost without a warning |
| Home page `app/page.tsx`, `httpapi/projects.go` | rows, dialogs, requests; the table `projects` | list, create, rename, claim, delete | check and deletion apart; overlapping answers | nobody gets or deletes another's project |
| Metrics | none | grade predictions against ground truth | ties of confidence and overlap, thresholds, order | the surest prediction has first refusal; every box counts once |
| Export | none | read names and boxes, count files, write the archive | four reads and many opens beside writers | the archive says what the database said |
| History, events, uploads | files in the project folder | append, trim, check-then-write | read-modify-write by concurrent requests | nothing is lost or overwritten |
| Login, listing, thumbnails, configuration | cookies, caches | | expiry | see [below](#what-is-not-modelled) |

How they interact: a save holds the project's lock, has the sidecar teach the bank, then writes the
database and releases the user's claim. A job reads the bank, arms a checkpoint and writes the
database line by line, *without* the project's lock. The tabs see other people through polls and
claims only. `PROJECT.json` lists every component with its sources and, under `hazards`, each place
in the code where this can go wrong, with the properties that would show it.

## The modules

| module | models | extends |
|---|---|---|
| `ClassLists` | append-only class lists: table `classes`, and the key order of the bank | standard |
| `Labeling` | one project: handlers, autolabel job, database rows, class order of the bank | `ClassLists` |
| `AtomicBank` | what the bank promises its callers: lists of vectors and a model, changed call by call | standard |
| `Bank` | the bank's two files and the sidecar calls on it; maps itself to `AtomicBank` | standard |
| `JobLife` | what starting a pass promises its browser: a run that counts and comes to one verdict | standard |
| `Passes` | jobs, streams, tracker, pollers, and the checkpoints they share; maps itself to `JobLife` | standard |
| `Claims` | the claims tracker, as operators | `Naturals` |
| `Queue` | the tabs of several people and the two endpoints of `state.go` | `Claims` |
| `EditHistory` | what undo and redo promise: a line of states with a mark | standard |
| `Timeline` | `useBoxStack`: boxes, past, future; maps itself to `EditHistory` | standard |
| `Canvas` | one tab's labeling canvas against the server and another annotator | `Timeline` |
| `BoxCanvas` | the box editor over the undo history | `Timeline` |
| `Workspace` | the project page: panels, keys, dialogs, two canvases | `Timeline`, twice |
| `Benchmark` | the benchmark-set panel and its endpoints | standard |
| `Readiness` | measuring, handing over to the model, switching models | standard |
| `Filtering` | `Array.filter`, in a form that can be proved about | standard |
| `Labels` | planned and taught names, colours, class picking | `Filtering` |
| `Gallery` | the paged list behind a filter | `Filtering` |
| `Home` | the home pages of several people and `projects.go` | standard |
| `Widgets` | `BoxCanvas` and `Gallery`, one of them moving | `BoxCanvas`; `Gallery` by `INSTANCE` |
| `Metrics` | `metrics.go`: overlap, greedy matching, counts and scores | standard |
| `Export` | `GET /api/export` beside writers and a changing disk | `Filtering` |
| `Screens` | the five screens `Benchmark`, `Readiness`, `Workspace`, `Labels`, `Home`, and `Metrics` and `Export`, one of them moving | all, by `INSTANCE` |
| `MC*` | instances for TLC (symmetry where a run has no liveness) | its module |
| `*Proofs` | theorems | its module, `TLAPS` |

Definitions marked "Deliberate bug" are never part of a specification: each is a plausible mistake in
the definition after it, and replacing that definition by it makes a named property fail. They show
that the properties depend on the code they are about.

### Labeling

State: `project`, `classes`, `boxes`, `status`, `testset` are the tables; `bank`, `taught` what the
sidecar has on disk, seen from outside; `holder` the project's mutex; `pc`, `call` the requests in
flight; `job` the autolabel jobs; `teaching` what a running `/vpe/teach` has yet to add.

A handler is a sequence of steps, one per call that others can see: `SaveLabel` -> `Lock` ->
`TeachNext`* -> `TeachDone` -> `Write` -> `Mark` -> `Reply`; `Relabel` and `TestsetLabel` begin with
`Check`. A database transaction is one step: every write starts with `requireProject`, which takes
the project's row until commit. `Fail` stands for any error or disconnect and, when the project is
gone, for `ErrNoProject`; a teach goes on after its request has gone. Jobs: `Autolabel` (the
handler's reads), `Arm`, `Line` per image, `Finish` (`MarkAuto`), `JobFails`. `Restart` loses what
the API held in memory. Boxes are abstracted to their class and whether a person or the model drew
them; a drawing is the sequence of new classes in it.

### Bank

State: `emb` and `meta` are the files, each whole or torn; `lock` the file lock; `mem` the attributes
of each thread's `Bank` object, `work` what it has extracted. A vector is the model that made it.
Every call begins by reading the two files without the lock (`ReadEmb`, `ReadMeta`); every write
opens and closes the files one after the other (`OpenEmb` ... `CloseMeta`), so that readers and
crashes can come between. `LegacyBank` is a bank from before models could be chosen; the constructor gives it
the default model (`Migrate`), and passes over an OSError in doing so (`MigrateFails`, and `Raise` in the middle of the
write): the call goes on with vectors and no model, which the history variable `skipped` records. `WriteFails` is a
write that raises at any of its steps and leaves what it was writing torn (`CutShort`), `Crash` the death of the process,
`CallFails` every other exception. Under the lock all three leave the lock free.

`AtomicBank` knows neither files nor threads: `LockModel`, `Teach` and `Reembed` change a list of vectors per
class and one model; `Skip` says that a call has gone on with vectors and no model, after which `LockModel` may choose any. The refinement mapping is `vec <- emb.vec` and `model <- ModelNow`, the model a
writer holds from its first write to its second and the one on disk otherwise: a write takes effect when it opens
`embeddings.pt`. `OneAtATime` is `Atomic!Spec`. A teach adds a vector of *its* model, whichever the bank has
by then (4 below); what readers see between two writes is not in it (5 below).

### Passes

State: `jobs` is the tracker; `go` the goroutine of a job, `wire` and `conn` its stream, `poller` the
browser; `work` the pump thread or the single call in the sidecar; `owner`, `names`, `prompts` each
checkpoint's lock, armed class list and predictor. A pump outlives a job that gave up, and keeps its
slot until it is through. `GiveUp` is the deadline, `Raise` an exception in inference, `PollFails` a
failed poll, `RestartAPI` and `RestartSidecar` the two processes. `BeginNothing` is a score of an empty bank: a job of
N images that is finished when it is created, at 0 of N, with the result "nothing".

`JobLife` leaves all of that out: a run counts, comes to one verdict (or starts with the verdict that there is
nothing to do), may be forgotten, and its browser hears of
a success or despairs. `RunOf` reads that off a job's record (a result is a success, an error without one a failure), the
browser's knowledge is `poller`; `RunsAsPromised` is `Promise!Spec`.

### Claims and Queue

Time is counted in heartbeats (five minutes); in the code a claim lives for two. A `User` is one
tab. `cur`, `view`, `known` are what the tab shows and believes; `calls` its claims under way, `live`
the one whose answer it still wants (the effect's cleanup cancels the use of an answer, never the
request). `ClaimEffect` re-runs whenever one of its dependencies changes; `Answer` is the handler and
the arrival of its answer, in any order of a tab's requests; `Fails` is any error, which the code treats like a refusal.
The tracker is keyed by subject, the tabs see names (`Named` are the users for whom
the two differ), and `HeldByOthers` compares one with the other, as the code does.

`Tick` lets five minutes pass. It waits for requests, which take less, but for no heartbeat: one that is still due
is one the machine slept through, and the tab goes on showing its image while the claim gets old.
Two history variables say what a person knows: `granted` is the image the API said is theirs, `doubt` how that may
have changed since -- "displaced" when an older request of the tab or a restart of the API took the claim away less
than a heartbeat ago, "late" after that, and after a heartbeat slept through. `NoTwoOnOneImage` lets two tabs be told of
one image only while one of them is displaced, or late with its renewal due or under way (`Renews`).

Abstractions: a save, and a poll, are one step with their answer (`Canvas` takes them apart, for one
tab); any order of the queue is allowed, since it depends on scores; the benchmark set is left out; a request that
sleep cuts off counts as answered or failed before time passes, and two requests of a tab for one image as one.

### EditHistory and Timeline

`useBoxStack` keeps three lists in one value. `Set` is an edit, `Reset` another image; `past` and
`future` are cut to `Limit` apart from each other (40 in the code). `EditHistory` says what that is
for: a line of states with a mark on the one on screen. The refinement mapping is
`line <- past \o <<boxes>> \o future`, `mark <- Len(past) + 1`, written in `Timeline` as
`History == INSTANCE EditHistory WITH ...`; `UndoIsHistory` is `History!HSpec`.
Three modules build on `Timeline`: every step of theirs says which of its operations happens.

### Canvas

State: `pool` is the timeline, `current` the image on screen, `hand` and `auto` what the tab believes
to be labeled, `drafts` the model's guesses; `load`, `guess`, `poll`, `ops` the requests under way;
`stored`, `srvHand`, `srvAuto` the server. React runs a handler, its state updates and the effects
they trigger before the next event, so that is one step: `Effects` is the part keyed on the image and
the bank, and its second argument says whether the bank is a new object. A request is sent, served
and answered in three steps (`guard`, `ServeOp`, `OpAnswer`), so answers overtake each other and
whatever the annotator does. `claimRefused` is the failed claim that moves on without a reset;
`OtherLabels` is another annotator. A box is the image it was drawn on, which is all its properties ask.

### BoxCanvas, Gallery

`BoxCanvas` treats one axis, on which a box is an interval and a corner an end: the code handles both
axes alike. Positions are finer than pixels, as the pointer's are: `Pixel` is how many of them make one, and a key's
least size of a pixel can overshoot the edge (27 below). `Fits` is what remains true: inside, or a pixel wide and begun in the last one. `pointerDown`, `pointerUp` and the keys are the handlers; moves between press and release
are in where the release happens. `loaded`, `newImage`, `pageUndo` change the list under a drag. `Gallery`
has the reload effect, the observer's `loadMore`, their requests and the one flag both set;
`skewed` records that a page and a reload overlapped, or the server's list changed between pages; `Coherent` is about
a gallery that awaits nothing, is not skewed and shows no error.

### Benchmark, Readiness, Workspace, Labels, Home

Each is one screen against its endpoints. Their guarded operations follow the same pattern as in
`Canvas`: sent, served, answered, with the state captured at the click in the request. History
variables name the circumstances under which the code does not keep a promise. `leapt`, `lost` and
`trimmed` are among the disagreements (19, 20, 16). `raced` is Enter pressed while an operation runs, which
`busy` does not stop (14). `turned` is an image that gets its label, from somebody else, while boxes
are on its canvas: they were drawn as a first label and would be saved as a review. `Home` has a page per person and deletes in two steps, as the code does.

### Metrics, Export

`Metrics` is `Evaluate` one prediction at a time (`Match`), an image's misses and row at its end
(`EndImage`). A box is an interval, as if the other axis were shared; overlaps and scores are fractions,
compared by cross-multiplication, so a tie is a tie. `claimed` also says *which* prediction took a truth
box, where the code keeps a flag; only the property reads that. `FirstRefusal` says of the outcome what
the loop is for: no prediction goes without a box that it fits unless one ahead of it has that box.

`Export` has a step per transaction the handler reads in, then the refusals, then one step per image.
Writes of other requests fall between the reads, and files come and go between the count and the opening.
A box is its class, since coordinates are only passed on. `grew` records a class that came after
the names of its kind had been read: labels are only promised without it (24 below). YOLO and VOC file labels under
the image's stem (`LabelFile`, `Stem`), so images may share a file name, and unpacking keeps the last (`Unpacked`): labels are
promised for images whose stem is theirs alone in the archive (25 below).

## The runs

| run | question | result |
|---|---|---|
| `labeling_faults` | Do rows, class knowledge and human decisions survive failures, disconnects, restarts and deletion? | holds |
| `labeling_saving` | With saves and benchmark labelling and nothing failing: one class order, ground truth with its row, every request answered? | holds |
| `labeling_order` | Does the class order agree when reviews run beside saves? | **no** |
| `labeling_heldout` | Is an image in the benchmark set never taught? | **no** |
| `bank_calls` | Do the files agree, does nothing get lost, does the bank change call by call (`AtomicBank`)? | holds |
| `bank_teach` | One embedding space with teaches, migrations, failing writes and crashes at any point, unless a migration is passed over; does every call end? | holds |
| `passes` | Own results, whole results, runs as their browser was promised (`JobLife`), everything ends? | holds |
| `queue` | One image each, no image twice but while a loss cannot be known, abandoned images return, tabs come to rest unless all that is left is others'? | holds |
| `canvas` | Does a box stay with its image, do guesses fit, does the tab catch up? | holds |
| `canvas_blind` | Are the saved boxes on the canvas before a save replaces them? | **no** |
| `widgets` | Boxes well formed, kept in the image by keys (to a pixel), undo as promised, the gallery coherent and scrollable to its end? | holds |
| `screens` | Keys of their own image, no work lost unwarned, savable reviews, no unmeasured hand-over, standing colours, nobody else's project, fair grades, faithful archives? | holds |

**Bounds and why they are enough.**
- `labeling_*`: two classes are what an order needs; two requests and a job race each other in every
  pair the handlers allow; one image suffices because rows of different images meet only in
  the class list, which all share. `MaxBoxes` = 2 in the runs about order (two new classes in one
  drawing), 1 where order does not matter. `labeling_faults` and `labeling_saving` split the
  endpoints between them, to keep each small.
- `bank_*`: two threads, two models and two classes give every pair of calls; `MaxVectors` = 3
  bounds the bank when a teach *begins*: a fresh bank, a second vector of a class, a reembed of more
  than one vector all occur. `bank_calls` has no crashes: files that agree after one are not
  promised (a crash, or a failing write, between the two writes leaves them apart). `bank_teach` has both, with
`MaxVectors` = 2: what a torn file and a stale object do to a call shows with one vector and the next.
- `passes`: one job and one single call contend for one checkpoint; `MaxLines` = 3 separates a first,
  a middle and a last line. Two jobs contend no differently from a job and a call; the proofs cover
  any number.
- `queue`: two people, two images, and at most `MaxEvents` = 2 things nobody in the model decides
  (openings, clicks, failures, restarts) per heartbeat: enough for two people to act at once. Heartbeats,
  polls and answers are not bounded. In half of the initial states a third person (`Away`) stays on one of the images and
  renews, so that every image left can be another's; then it is one event per heartbeat (`Spent`), and their tab is
  left out. `TTL` = 1 is stricter than the code's two: a claim is gone after one heartbeat missed, so the states with
  doubt come soonest; the theorem has any `TTL` but 0.
- `canvas`: two images are the one on screen and the one an answer is about; one guarded operation
  beside the opening one, one refused claim, one save of the other annotator; `MaxEdits` = 2
  over `Limit` = 1 reaches the cut of the history. Polls, loads, guesses and openings are not bounded.
  Two saves that overlap are left to the proofs, which hold for any bounds.
- `widgets`: an image of four positions, two to a pixel, with a margin of one, so every end meets both borders and a box
  can begin within the last pixel; grabbing and drawing thresholds of one; two boxes; arrow keys of one and two pixels. Three images, pages of one: two
  pages can be under way behind a reload.
- `screens`: two images or models or people each; two requests of the benchmark panel and three of
  the readiness card, which are what an overlap, and a switch between a measurement and a hand-over,
  take; one name next to the placeholder and two colours; two projects on one folder. For the grades, every
  list of up to two truth boxes and two predictions over three boxes (two pairs overlap by exactly the
  threshold), two classes and two confidences, before a second image that finds buckets in use. For the
  export, three images, two of one stem, three databases (one kind, an image of both kinds, names in two orders), two
  writes of other requests, one file that comes or goes, a budget of one file. The screens
  share no state their properties are about, so each behaviour stays on one of them.

Deadlock checking is on except in `widgets` and `screens`, where a screen's bounded supply of events
runs out. It says little elsewhere, since a new request, call or heartbeat is always possible; that
nothing waits for ever is what the liveness properties say: requests are answered, jobs and calls of the bank end, locks
come free, pollers settle, tabs come to rest, scrolling ends, the tab's picture of the server comes right.

## Fairness

- `Labeling!Fairness`: handlers and teaches go on (weak); a waiter for the project's lock gets it if
  the lock keeps coming free (strong), since `sync.Mutex` switches to handing over in
  starvation mode. Nothing is assumed of clients, jobs or failures, except that a request whose
  project is gone does fail.
- `Bank!Fairness`: a thread that needs no lock goes on (weak); one that polls for the file lock finds it free some time
  if it keeps coming free (strong: `FileLock` polls every 50 ms, and a write takes moments). Nothing is assumed of
  callers, failures and crashes.
- `Passes!Fairness`: goroutines, pumps and single calls run, browsers poll (weak); a thread waiting
  for a checkpoint gets it if it keeps coming free (strong, as for any lock whose holders are
  finite). Deadlines are *not* assumed to fire: jobs end without them.
- `Queue!Fairness`: requests are answered, timers of open tabs fire -- a machine that sleeps wakes up some time -- and
  time passes (weak).
  Nothing is assumed of people, and failures are never required to stop, only bounded per heartbeat.
- `Canvas!Fairness`: the 15-second timer polls and the server answers (weak). Nothing is assumed of
  saves, loads or people. It is enough because the last poll to start sees everything served before it.
- `Widgets!WidgetsSpec`: somebody keeps scrolling, the observer calls back, the server answers (weak).

## The proofs

TLAPS proves these for every value of the constants, from the assumptions the modules name.

| theorem | property | argument |
|---|---|---|
| `LabelingProofs!TypeCorrect` | `TypeOK` | inductive, one step per action; the type is split by database, bank, slots, jobs and teaches |
| `LabelingProofs!LockCorrect` | `LockDiscipline` (no run: proved instead) | inductive with the type: `Lock` needs a free lock, every way out of a save gives it back |
| `LabelingProofs!DeletionFinal` | `NoRowsWithoutProject` | every write is guarded by the project's row, deletion empties what it owns |
| `LabelingProofs!GroundTruthSafe` | `GroundTruthHeldOut` | boxes of the benchmark come and go with their row |
| `LabelingProofs!DecisionsKept` | `HumanDecisionKept` | from the type, action by action |
| `LabelingProofs!PoolTaught` | `PoolClassesTaught` | needs a strengthening: a request that is about to write, and the class list of a running job, name only classes the bank has; the bank only grows |
| `LabelingProofs!SavesKeepOrder` | `ClassOrderAgrees` | for `Ops` without reviews, no jobs, no faults, no deletion: the database's list is the bank's while nobody saves, and the bank is ahead of it by the saver's drawing while somebody does |
| `LabelingProofs!RegisterSplit` | (lemma) | one transaction that registers a drawing equals the bank's class-by-class adds |
| `BankProofs!TypeCorrect` | `TypeOK` | part of the inductive invariant below |
| `BankProofs!BankOnlyGrows` | `NothingForgotten` | what a writer holds in memory extends what is on disk, because `add` and `reembed` read again under the lock; vectors go only with a file cut short |
| `BankProofs!ModelLocked` | (`ModelFollowsVectors`, no run) | same invariant, with crashes and failing writes: a model changes from none, with every vector extracted anew, or with the file cut short |
| `BankProofs!FilesMatch` | `FilesAgree` | for `Crashes` and `WriteFaults` = FALSE: between the two writes the lock's holder carries the difference |
| `BankProofs!BankIsAtomic` | `OneAtATime` | for `Crashes` and `WriteFaults` = FALSE, failing migrations included: `Serial`, below |
| `BankProofs!SpaceKept` | `OneSpace` | for `Ops` without reembeds, with crashes and failing writes, until a migration is passed over: `Space`, below |
| `PassesProofs!TypeCorrect` | `TypeOK` | part of the inductive invariant below |
| `PassesProofs!ResultsAreOwn` | `OwnResults` | mutual exclusion: exactly the owner is inside, so names and prompts last set are its own |
| `PassesProofs!ResultsAreWhole` | `NoPartialResult` | lines read, on the wire and still to come make up the total until a terminator other than `done` ends it; a job that found nothing to do has counted nothing |
| `PassesProofs!VerdictStands` | (`FinishedForGood`, no run) | a finished job has an idle goroutine, so nothing writes to it |
| `PassesProofs!PromiseKept` | `RunsAsPromised` | one lemma per kind of step says how it moves one job (`Moves`), another that each such move is a step of `JobLife`; the running jobs are exactly those with a goroutine at work |
| `QueueProofs!OneClaimEach` | `OneImageEach` | one lemma per operation of the tracker, then one step per action |
| `QueueProofs!TypeCorrect` | `TypeOK` | part of `QueueInv`, below |
| `QueueProofs!NeverTwoOnOneImage` | `NoTwoOnOneImage` | from `QueueInv`: what a tab was told is true in the tracker, or its `doubt` says why not |
| `TimelineProofs!TimelineCorrect` | (type) | `past` and `future` trade elements, so their sum stays within the limit though each is cut on its own |
| `TimelineProofs!TimelineIsHistory` | (refinement) | each operation of the timeline is one of the line's, by lemmas about cutting and joining sequences |
| `WidgetsProofs!TypeCorrect` | (type) | inductive |
| `WidgetsProofs!UndoCorrect` | `UndoIsHistory` | every step is a step of the timeline or leaves it alone; then `TimelineIsHistory` |
| `WidgetsProofs!NeverInsideOut` | `BoxesOrdered` | the timeline holds only lists of ordered boxes, a stronger type that every edit keeps |
| `WidgetsProofs!KeysKeepInside` | `KeysStayInside` | arithmetic of `clamp`, for every width, step and fineness |
| `WidgetsProofs!GalleryCoherent` | `Coherent` | `GInv`: at most one reload is wanted; as long as pages are of one list, a page under way is the only request and the next page |
| `CanvasProofs!TypeCorrect` | (type) | part of `TypeInv`, below |
| `CanvasProofs!GuessesAlwaysFit` | `GuessesFit` | part of `TypeInv` |
| `CanvasProofs!NothingStrays` | `StraysOnlyByRefusal` | `StrayInv`, below |
| `CanvasProofs!CanvasIsHistory` | (refinement) | as `UndoCorrect`, for the tab with its late answers |
| `ScreensProofs!ScreensAreTyped` | `ScreensTypeOK` | one inductive invariant per screen; a step of `Screens` is a step of the screen that was picked |
| `ScreensProofs!NoKeyStrays` | `KeyStraysOnlyByImport` | inductive with the type |
| `ScreensProofs!MeasuredFirst` | `AutoAsMeasured` | `RInv`: one request at a time while nothing is raced, so a measurement on screen is of the server's bank, or a switch has been served whose answer forgets it |
| `ScreensProofs!LeftClean` | `CleanMeansOpened` | `WInv`: until the history is cut, the oldest state of the pool's timeline is what was opened |
| `ScreensProofs!ReviewsAreTaken` | `ReviewIsSavable` | `LInv`: what the tab knows and every answer under way are beginnings of the server's list; boxes of a review are of taught classes |
| `ScreensProofs!ColoursLast` | `TaughtColourStays` | from `LInv`: a beginning of the server's list comes first in the tab's |
| `ScreensProofs!NobodyAdopted` | `NeverAdopted` | `HInv`: an answer to a creation is about a project of one's own or of nobody; an owner does not change |
| `ScreensProofs!OwnersDelete` | `DeletedByOwner` | from `HInv`: a checked call saw its own project, or nobody's |
| `ScreensProofs!ExportIsFaithful` | `ExportFaithful` | `EInv`: names cover the boxes unless a class came in between, boxes are the database's unless one was written, archive and remaining paths are together the images with boxes; of entries with names of their own unpacking loses none |
| `ScreensProofs!GradesAreFair` | `GradedFairly` | `Counting`, below |

Few of the invariants are inductive alone; each proof module
defines the conjunction it needs next to the lemmas that preserve it. The proof that a step preserves
it has one lemma per group of actions. Six of them are worth a word.

- **`Space`**. `OneSpace` speaks of a free lock; what keeps it is that it holds in the middle of a write too, and what
  each thread knows: as long as no migration was passed over, a bank without a model does not change between a
  constructor's two reads, `lock_model` meets one only when it is empty, a teach goes on only with the bank's model.
  Nothing in it needs a write to finish, which is why crashes and failing writes do no harm. A migration passed over
  does: `lock_model` then meets a bank of vectors without a model (26 below).
- **`Serial`**. A writer holds the lock, and until its first write what it has in memory is what one call of
  `AtomicBank` makes of what is on disk (`Intends`); after it, disk and memory agree. That it is one of the calls needs
  what every thread knows before it takes the lock: unless `skipped`, no teach is past `lock_model`, and no reembed past its plan,
  in a bank without a model, and a thread meets such a bank in `lock_model` only when it is empty. A crash or a failing
  write between the two writes of a reembed breaks it: new vectors, old model.
- **`QueueInv`** (assuming `TTL # 0`, and nothing on the order of requests). `NoTwoOnOneImage` is about what tabs were told
  (`granted`), the tracker about claims, and neither follows from the other in one step. `Holds(u)` ties them, wherever
  the tab has no doubt: the image it was told it has is claimed under its user, fresh or with its renewal due or
  under way. A late request, a restart and a heartbeat slept through each move the tab to a doubt first, and
  only an answer to its renewal takes it back. Two tabs told of one image and both without a doubt would hold two claims of it.
- **`TypeInv`** = `TypeOK`, `GuessesFit`, `LoadFits`, `OpsFit`. That guesses fit is inductive only with the
  facts that loads are for labeled images and saves for images at all.
- **`StrayInv`** = `TypeInv` and, while no claim was refused, `OnIt`: the timeline is of type "boxes of
  the image on screen" (the type lemma of `Timeline`, at another type), every request carries boxes of its own image,
  every label holds boxes of its own. Each save, load and reset moves boxes between the three.
- **`Counting`** = `Matching`, `Counted`, `RowsCount`. `Matching` says that the predictions still to come are
  those that nobody is behind in the order of confidence, that hits fit, and that a prediction already passed lost every
  box it fits to one ahead of it: the promise of the outcome, said in the middle of the walk. The counts
  are sums over a growing set of classes, which would need induction; instead each of them is
  the cardinality of a set of boxes (hits, misses, idle predictions, by class or by image), and one step moves one box from one set to
  another. `Total` is written as a cardinality for the same reason; TLC compares it with the sum
  (`TotalAdds`), as it compares `Keep` with `SelectSeq` (`KeepSelects`).

Assumptions are those the modules name (`CanvasAssumption`, `BoxCanvasAssumption`,
`TimelineAssumption`, ...): a nonempty limit, finite bounds, `None` outside the sets it is added to. TLC
evaluates them in every run.

The assumptions of `Screens` say as much of its constants. The one on the report is what `jobs.go:182-191`
hands to `Evaluate`: at least one image with ground truth, the images in sorted order, each once.

Every invariant, action property and refinement of the passing runs is proved; `ClassOrderAgrees` and `OneSpace` for a
stated choice of operations, because with the others they fail (1 and 4 below), `FilesAgree` and `OneAtATime` for a
process that does not die and writes that do not fail, because `_save` is two writes. Only model-checked are the liveness properties
(`EveryRequestAnswered`, `EveryCallEnds`, `CheckpointReleased`, `EveryJobEnds`, `EveryPollerSettles`,
`AbandonedIsOffered`, `Quiet`, `TabCatchesUp`, `ScrollReachesEnd`), since fairness and ENABLED are outside the
prover's reach, and of course every property that fails. Induction over data is out of reach too: facts about sequences are proved by what their functions
are, never by induction on their length. Recursive definitions are avoided in every module with a proof about it.

## Where code and documentation disagree

`PROJECT.json`, `findings`, quotes the lines. Those with a run are shown by it; the others were met
while modelling, and the model has the step that shows them.

1. Reviews and autolabel register classes without the project's lock, so bank and database can order
   classes differently (`labeling_order`).
2. An image flagged for the benchmark set between a save's check and its teach is taught
   (`labeling_heldout`).
3. A job replaces boxes a person drew after it started, under a status that says a person drew them.
4. A teach that locked its model before a reembed committed adds a vector of the old space.
5. A reader between the two writes of a reembed sees a half-swapped bank.
6. The model is locked before the first vector exists; a failed extraction leaves it locked.
7. An abandoned stream keeps its checkpoint until the pass is over, not until the request is cancelled.
8. The queue compares display names with a subject, so one's own image counts as held by others.
9. A refused tab walks between held images for ever, a request per round trip (`Crowded` in `Quiet`).
10. Any failure of a claim or heartbeat, not only a 409, takes the user to another image, and does
    not clear the canvas.
11. A cancelled claim handled late takes the user's claim back to the image they left, until the next heartbeat (`doubt`).
12. A review saved before the saved boxes arrive replaces a label nobody saw (`canvas_blind`).
13. A poll between the opening of a labeled image and its boxes cancels them for good; opening the
    image already on screen empties it; boxes drawn before a late answer are wiped by it.
14. A save's or a pass's answer moves an annotator who has gone elsewhere, and clears their canvas;
    Enter is not stopped by `busy`, so one image can be saved twice.
15. A poll answered late takes a saved image back to unlabeled until the next poll.
16. The unsaved-work warning forgets edits beyond the fortieth and does not ask the benchmark canvas;
    shortcuts reach the page behind most dialogs.
17. A click near a corner is an edit; a drag whose box goes away throws on release.
18. A gallery page that was asked for under one list is appended to another.
19. An import answered late puts another image under boxes drawn in the benchmark panel.
20. A switch of models whose answer is lost, or made by somebody else, leaves the old F1 in force.
21. The placeholder class is drawn and taught although names are planned.
22. The second folder's project gets the first folder's name; a rename is sent twice.
23. A project without an owner can be deleted after somebody else has claimed it.
24. A class registered between the export's two reads is exported as the first class (YOLO) or as a
    category that is not listed (COCO).
25. Two images of one stem write one entry name into the archive, and unpacking keeps the labels of one (`Alone`).
26. A migration that fails is passed over; the next save may lock a bank of the default model's vectors to another
    model (`skipped`).
27. A resize by key can take a box out of the image by less than a pixel (`Fits`).

## What is not modelled

- **Formats and pure I/O**: image decoding, thumbnails, listing, the export's layout, label files,
  box validation (a refusal before any state changes), rendering, the learning curve.
- **The network itself**: what a checkpoint predicts is any set of classes it was armed with; the
  lazy loading of a checkpoint outside its lock.
- **History file, event log, uploads**: read-change-write and check-then-write on files. Their hazards are listed
  at their lines; each is two statements, so a model would repeat the code and its only property would fail.
- **Login**: signed cookies without server state, and the directory's protocol, an external service.
- **Inside a database transaction**: PostgreSQL isolates what `requireProject` serialises, so a
  transaction is one step. That its row lock does so is taken from the database.
- **Configuration** is read once at start; **offline tools** are run by hand on a stopped system.

## The plan

Done, in the order of importance: `ClassLists` and `Labeling` (data people produce), `Bank` (what the
model learnt), `Passes` (work that runs for hours), `Claims` and `Queue` (people side by side),
`EditHistory`, `Timeline`, `Canvas` and `BoxCanvas` (what one annotator sees and does), then the other
screens, `Metrics` and `Export`, then `AtomicBank` and `JobLife` (what the backend promises) with their refinements.

What would add most next:
1. **Two canvases**: `Canvas` twice over `Claims`, so that a refusal in one comes from a claim of the
   other instead of a bounded choice, and `Queue` as its abstraction.
2. **The store's transactions**: their statements under row locks and cascades, and that each is one
   step of `Labeling`.
3. **Proofs** of the refinements in 1 and 2, and of the steps on which the liveness properties rest: what
   each leads-to needs to stay true while it waits.
