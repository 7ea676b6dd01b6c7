# Renaissance in TLA+

A verification project for the Renaissance benchmark suite: TLA+ modules that
model its harness, three of its concurrent workloads and the carousel its website
loads, TLC configurations that check them on small instances, and TLAPS proofs
for every value of the constants. Paths below are relative to the repository root. Line numbers are
those of the commit the project was written against; `PROJECT.json` maps every
definition to its lines.

## 1. The system

Renaissance runs a selection of JVM benchmarks, one after the other, in one JVM.
A *launcher* finds and loads the *harness*, which parses the command line,
selects benchmarks, loads plugins, a policy and result writers, and then runs
the benchmarks through an *execution driver* that notifies listeners of every
event. Benchmarks are workloads of their own, many of them concurrent. Beside the
suite the repository holds its website, static pages with a few scripts.

| Component | Code | State | Operations | Modelled |
|---|---|---|---|---|
| Result writers | `renaissance-harness/.../ResultWriter.scala` | value lists per benchmark and metric, failed benchmarks, the writer's monitor and shutdown hook, the file | `onMeasurementResult`, `onBenchmarkFailure`, `beforeHarnessShutdown`, the hook, `storeResults`, `checkBenchmarkResults`, `store`, `writeToFile` | `ResultWriter` |
| JVM shutdown | used by `ResultWriter`, `Launcher` | running / hooks running / halted; registered hooks | `Runtime.exit`, signals, `DestroyJavaVM`, `removeShutdownHook`, halt | `ResultWriter` (external) |
| Run loop | `RenaissanceSuite.scala` | position in the benchmarks, failed benchmarks | `runBenchmarks`, exit code | `Harness`, `ResultWriter` |
| Execution driver | `ExecutionDriver.java` | operation index, nested `finally` blocks | `executeBenchmark`, `executeOperation` | `Harness` |
| Event dispatcher | `EventDispatcher.java` | one listener list per event | registration, `notify...` | `Harness`, `ResultWriter` |
| Policies | `ExecutionPolicies.java` | counters, time left | `canExecute`, `isLast`, the listener methods | `Harness` |
| Plugin interface | `Plugin.java`, `documentation/plugins.md` | last event each plugin saw | what it may see next | `PluginProtocol` (abstract) |
| Philosophers benchmark | `benchmarks/scala-stm/.../RealityShowPhilosophers.scala` | forks, meals, camera controller, threads | transactions, `shutdown`, `run`, `validate` | `Philosophers` |
| Akka actors and UCT benchmark | `benchmarks/actors-akka/.../AkkaActor.scala`, `UctAkkaActorBenchmark.scala` | actor latch, tree of actors, mailboxes | start handshake, generation, traversal, termination, `runIteration` | `AkkaUct` |
| Selection and compatibility | `RenaissanceSuite.scala`, `BenchmarkSuite.java`, `Version.java` | none (pure) | `selectBenchmarks`, `excludeIncompatible`, `compareTo` | planned |
| Module loading, scratch directories | `Launcher.java`, `ModuleLoader.java`, `ResourceUtils.java`, `BenchmarkSuite.java`, `DirUtils.java` | files in the scratch directories, class paths, context class loader, deletion hooks | `createScratchDirectory`, `createClassLoaderForModule`, `createBenchmark`, `createBenchmarkContext`, `deleteRecursively` | `ModuleLoading` |
| Chirper | `benchmarks/twitter-finagle/.../FinagleChirper.scala` | the master's feeds and their buffers, caches, client threads | reset, post, feed and statistics requests, cache clears, batches | `Chirper` |
| Website carousel | `website/resources/js/slick-1.6.0/slick/slick.js` | the slider object, event handlers, timers, animations | sliding, autoplay, swipes, pausing, resizing, breakpoints, adding and removing slides | `Carousel`, `CarouselPages` |
| JMH wrapper | `renaissance-jmh/wrappers` | benchmark, context, result | JMH life cycle | no |
| Command line, Markdown, logging, sample plugins, build, other website scripts, other benchmarks | see `PROJECT.json` | none, or kept in third-party libraries | sequential I/O, formatting | no |

**Interactions.** The run loop and the driver call the dispatcher; the dispatcher
calls listeners synchronously, in the main thread, in the order of a list per
event. Result writers are such listeners, registered last, and also threads of
their own: each registers a JVM shutdown hook that calls the same
`storeResults` as the main thread does at the end of the run. The two share the
value lists (unsynchronized), the monitor of the writer and the file. Policies are
listeners that the driver also asks whether to go on. Exceptions of benchmarks
and listeners unwind the driver's `finally` blocks to the run loop, or the whole
program to the launcher, which calls `System.exit(1)`.

**What is hard to test.** `PROJECT.json` lists the hazards with their lines. The
main ones:

- *the end of the JVM*: a hook may start at any point of the run, also in the
  middle of an operation's results or of a store; `sys.exit` may be called with
  a monitor held, from the main thread or from a hook; the hook is removed
  while the JVM may already be running it;
- *partial failure*: any call of a benchmark or a listener may throw, inside any
  `finally` block, and again while the first exception unwinds; a publisher
  may throw between two metrics; a writer may fail while the next has yet to store;
- *what a failed step leaves behind*: a truncated JAR file exists like any other; a hook
  deletes directories that the main thread still fills;
- *order*: pair events must nest plugins, results may only follow validation,
  the last operation must be announced before it runs;
- *stale state*: policies are shared by all benchmarks of a run;
- *concurrency of the workloads*: forks taken atomically, scan requests that come
  faster than scans and race with the shutdown of the camera; actors that are
  terminated while grants to them are on their way, counted by a latch that
  must not reach zero before the last of them is gone; snapshots of feeds read
  outside the lock, and caches filled and cleared without one;
- *callbacks*: the end of an animation, an interval or a timeout of the carousel
  finds a slider that was rebuilt, resized or taken apart since it was started;
- *arithmetic at the ends*: four formulas of the carousel say which slide an index
  stands for, and have to agree on partial pages and clones.

**What makes each component correct.**

- Result writers: a finished file is complete and consistent, stays as it is, and
  every ordinary end of the program leaves one per writer.
- Shutdown: no wait in it is circular.
- Driver, dispatcher: plugins see the documented sequence of events whatever
  benchmarks throw; every set up that succeeded is torn down; every failure is
  recorded; earlier plugins wrap later ones.
- Policies: `isLast` holds for exactly the last operation, and the run ends.
- Philosophers: forks are owned only by whoever eats with both, the validated
  result holds under any schedule, and `run()` returns.
- Module loading: a benchmark runs with all JAR files of its module and no others;
  scratch directories are gone after the run.
- UCT: the latch counts the live actors, no grant is lost by a termination that
  overtakes it, and every iteration ends with the whole tree traversed.
- Chirper: a cache gets only feeds that are current, a snapshot holds what it held
  when it was taken, and every client gets an answer.
- Carousel: the slide it stands on exists, at rest that slide is in view and marked,
  it wraps unseen, it is never left deaf by an animation that does not end, and
  autoplay goes on.

## 2. Modules

| Module | Lines of code it stands for | Content |
|---|---|---|
| `ResultWriter` | `ResultWriter.scala`, `runBenchmarks`, parts of the driver and dispatcher | writers, hooks, main thread and JVM, interleaved |
| `MCResultWriter` | | repetition counts for TLC |
| `Harness` | `runBenchmarks`, `ExecutionDriver`, `EventDispatcher`, `ExecutionPolicies`, `loadExternalPlugins` | every call and every listener as a step that may throw |
| `PluginProtocol` | `Plugin.java`, `plugins.md` | what a plugin may see next; `Harness` implements it |
| `Philosophers` | `RealityShowPhilosophers.scala`, `validate` | philosophers, camera, main thread |
| `ModuleLoading` | `Launcher.java`, `ModuleLoader.java`, `ResourceUtils.java`, `DirUtils.java`, parts of `BenchmarkSuite.java` and `runBenchmarks` | main thread, file system, deletion hooks |
| `MCModuleLoading` | | benchmarks, modules and JAR files for TLC |
| `AkkaUct` | `AkkaActor.scala`, `UctAkkaActorBenchmark.scala` | actors with mailboxes, the latch, main thread |
| `Chirper` | `FinagleChirper.scala` | master, caches, client threads, requests under way |
| `CarouselPages` | index arithmetic of `slick.js`: `getNavigableIndexes`, `checkNavigable`, `changeSlide`, `slideHandler`, `getLeft`, `setSlideClasses`, `setupInfinite` | pure operators on options, slides and indexes |
| `Carousel` | the rest of `slick.js` | the slider object in the browser's event loop |
| `MCCarousel` | | six kinds of pages for TLC |
| `ResultWriterProofs`, `HarnessEventProofs`, `HarnessProofs`, `PhilosophersProofs`, `ModuleLoadingProofs`, `AkkaUctProofs`, `ChirperProofs`, `CarouselProofs` | | theorems and lemmas |

Definitions named `X_Something` and commented `Faulty:` are the mutants of
definition `X`; no specification uses them.

### ResultWriter

Thread 0 is the main thread, thread *w* > 0 the shutdown hook of writer *w*. `pc`
says what a thread does next: `"op"`, `"deliver"`, `"failing"` are places in the
run loop, `"lock"` to `"write"` the steps of `storeResults`, `"exit"` a call of
`Runtime.exit`, `"blocked"` a thread inside it, which never returns.

| Code | Actions |
|---|---|
| `runBenchmarks` and the driver, seen from the writers | `AfterHarnessInit`, `LoadFails`, `Operation`, `BenchmarkFails`, `BenchmarkDone`, `HarnessShutdown`, `Return` |
| `onMeasurementResult`, `onBenchmarkFailure`, a writer at a time | `Deliver`, `NotifyFailure`; `PluginThrows` and `FailureListenerThrows` before the writers are reached |
| `storeResults` | `Lock`, `RemoveHook`, `CheckBegin`, `CheckEnd`, `Format`, `Open`, `Write`; `Thrown`, `Stored` are its two ways out |
| the JVM | `Exit`, `Signal`, `DestroyJavaVM`, `Halt`; `StartHooks` |

*Data.* A value list is represented by its length (`counts[w][b][m]`); the text
of a file by the lengths it was formatted from (`saved`) and by the kind of
termination it records. A read of the lists is not atomic: it yields, for each
list, any length the list had since the read began (`Reads`), and a list whose
map entry is just being inserted may be seen without a value (`Emerging`,
`Verdicts`). Each of the two passes over the lists, the check and the
formatting, is such a read. That a hook may read a slot of a buffer before its
value is stored (and write a zero), and what an unsynchronized reader may see
of a hash map that is being resized, are not modelled.

*Metrics.* 1 and 2 are the two built-in metrics; further ones come from one
publisher, each the same number of times per operation. Plugins are registered
before the writers. A plugin's listener may therefore throw on any metric, or the
publisher before one of its own, with the effect that no writer gets this metric
(`PluginThrows`); and a plugin that throws when it is told of a failure keeps the
failure from the writers (`FailureListenerThrows`).

### Harness and PluginProtocol

`pc` is the event being dispatched or the call being made, `due` the listeners
the event has yet to reach. `Notify(event, next, handler)` is a notify method and
`Call(method, next, handler)` a call of a benchmark method: both may throw,
and `handler` is where the code's `finally` or `catch` continues. So each
operator reads as its statement in `executeBenchmark`, `executeOperation` or
`runBenchmarks` does. Listener 0 is the built-in policy; plugins 1, 2, ... are
numbered as on the command line and listen to everything. The order they are
registered in (`order`) is that of the immutable `Map` the loader returns:
insertion order up to four plugins, any order above.

The variables commented *history* record what happened for the properties and
influence no step. Time passes in whole units: an operation takes one or two;
under `FixedTime`, listeners and the harness may take another.

`PluginProtocol` is the promise to plugins, one plugin at a time. `Harness`
implements it (`PluginsSeeProtocol`) with `excused <- pluginThrew`: once some
plugin threw, the later ones miss events and nothing is promised.

### Philosophers

A transaction of ScalaSTM is one step, `retry` a disabled step. `phase[p]` is where
philosopher *p* is in the loop of `run()`: `"report"` is between the transaction
that puts the forks down and `notifyBlockComplete`. `AwaitRequest`, `Scan` are
the camera, the actions under "in the main thread" are `RealityShowPhilosophers.run`.
What an image shows is not kept, only how many there are. The bit mask of
`isBlockComplete` is the remainder by a power of two. Counters are
mathematical integers: the code's `Int`s only overflow after 2^31 reports of a block.

### ModuleLoading

`fs` says of each path below the scratch base that exists what it is: a directory,
a file being written or left so (`"partial"`), or a `"whole"` file. The main thread
goes from the launcher's scratch directory through loading the harness to the
benchmarks; `root` says for whom it loads. `walk` is the stack of open directories of
each hook's `walkFileTree`.

| Code | Actions |
|---|---|
| `createScratchDirectory` | `CreateTempDirectory`, `AddShutdownHook` |
| `ModuleLoader.create`, `BenchmarkSuite.create` | `CreateSuite` |
| `createBenchmarkContext` | `CreateBenchmarkContext` |
| `createClassLoaderForModule`, `extractResources` | `CreateModuleJarsDirectory`, `Extract`, `WriteJar` |
| `loadAndInvokeHarnessClass`, `createBenchmark` | `InvokeHarness`, `CreateBenchmark` |
| a benchmark | `WriteData`, `FinishBenchmark` |
| `deleteRecursively` in a hook | `BeginWalk`, `DeleteStep` (`Visit`, `PostVisitDirectory`) |
| the JVM | `Signal`, `Exit`, `Halt` |

Every call that may throw may fail in the model too; a copy that fails leaves a partial
file. In a hook that is opening a directory, deleting a file, or deleting a
directory: whatever is the reason (a locked or unreadable entry, one that is gone, a
directory that is not empty), the exception ends the walk, the hook logs a warning
(`warned`) and ends (`Fails`). A directory listing is taken when the directory is opened; entries that
appear later may or may not be seen. `Files.createDirectories` is one step. A
signal may come at any point, and main goes on until the JVM has halted. What
`Harness` does inside `executeBenchmark` is one step here, and the shutdown
hooks of result writers touch other files, so the modules are kept apart.

### AkkaUct

A node of the tree is numbered by its id, the root is 0; the children created when
the root's size was *s* have the ids *s*, *s* + 1, ... A step is one handler applied
to the first message of a mailbox, as Akka runs them. All actors are local, so
`!` puts the message into the receiver's mailbox before the sender goes on: two
messages that reach an actor on different ways arrive in the order they were
caused in, which `NoGrantLost` depends on. A message to an actor that
exited is lost (`Sent`), and so are those that wait when it exits (`Exit`).

| Code | Actions |
|---|---|
| `AkkaActor.receive`, `start`, `exit`, `actorLatch` | `Start`; `Receives`, `Handled`, `Exit` in every handler |
| `RootActor` | `GenerateTree`, `CheckGenerateChildrenRequest` (with `Finish`) |
| `NodeActor` | `TryGenerateChildren`, `GenerateChildren`, `UpdateGrant`, `Traverse`, `TerminateMe` |
| `runIteration`, `awaitTermination`, the loop of `AkkaUct.run` | `RunIteration`, `AwaitTermination` |

*Draws.* Whether the root grants a request is drawn from a generator with the fixed
seed 2. Were it to deny every pending request, nobody would ask again and the
run would hang. With the seed and the parameters of the code this does not
happen: whichever actors the grants go to, the number of requests pending after
each draw is the same, and evaluating the draws shows that at least nine are always
left until the tree has 199,991 nodes. `MayDeny` keeps that fact and nothing else of the
draws: a request may be denied only if another is still to be answered.

*Left out.* Heights and urgency are only printed, the computation between messages
changes no state, and nobody sends `PrintInfo`, `GetId` or `UrgentTraverse`.

### Chirper

The master handles a request under its lock in one step. Requests of a batch are
under way independently: `batch[c][i].at` says whether request *i* of client *c* is
at a cache, at the master, on its way back through the cache, or answered.

| Code | Actions |
|---|---|
| `Master.apply`: `/api/post`, `/api/feed`, `/api/stats/...`, `/api/reset` | `MasterPost`, `MasterFeed`, `MasterStatistics`, `Reset` (`FeedFor`, `ArraysFor`) |
| the thread of the future pool that analyses the snapshots | `Analyzed` |
| `FeedBuffer` and its `ArrayBuffer` | `Add`, `Grown`, `Elements` |
| `Cache.apply` before and after the master's answer | `CacheRequest`, `CacheResponse` |
| `Client.run` | `Post`, `AskStatistics`, `FetchFeeds`, `Collected`, `ClientEnds` |
| `setUpBeforeEach`, `run` | `Reset` (`StartingArray`), `Joined` |

*Data.* A feed is the number of its array and its length; an array that became too
small stays where it was, since snapshots refer to it. Messages are numbers. What a
client does, and whether a cache is cleared, depends on hashes: any choice is
possible. `math.abs` of the smallest `Int`, which is negative, is therefore not
met. Each client has a user of its own. A reset gives a feed of `startingFeedSize` messages to
each of `userNames`; feeds of users without a client never change and are left out. A client's
user has the name of a listed one with the client's index behind it, so that with 20 or more
processors client 19 has the name of user 1919, who is listed, too: `Listed` are the clients
for whom this is so. Their feeds start full, in arrays of their own
(`StartingArray`). The caches are not told of a reset, and so the first
requests of a repetition may be answered with feeds of the one before
(`Content.of`): nothing in the code relies on an answer being recent, and
`FetchIsCurrent` is about what is put into a cache, not about what is read.

### Carousel and CarouselPages

`slick.js` is third-party code kept in the tree, and the one script of the website
with state that outlives a call. `website/_layouts/headers.html` loads it on
every page and `website/resources/styles/proj.css` styles it; no page of this
commit calls `.slick()`, so the options are those the script itself tells
apart and not those of a given page.

`slick` is the slider object as a record. The functions of the source are
operators that take the object and return the changed one; a step is one turn of
the event loop.

| Code | Definitions |
|---|---|
| `getDotCount`, `getNavigableIndexes`, `checkNavigable`, `changeSlide`, `getLeft`, `setupInfinite`, `setSlideClasses` | `DotCount`, `NavigableIndexes`, `CheckNavigable`, `PreviousIndex`, `NextIndex`, `Left`, `Clones`, `Active` |
| `slideHandler`, `animateSlide`, `fadeSlide`, `postSlide` | `SlideHandler` (`IgnoresSlide`, `Beyond`, `AnimSlide`), `AnimateSlide`, `FadeSlide`, `PostSlide` |
| `init`, `reinit`, `refresh`, `destroy`, `unload`, `checkResponsive`, `registerBreakpoints` | `InitBuild`, `InitEnd`, `Reinit`, `Refresh`, `Destroy`, `Unload`, `CheckResponsive`, `TargetBreakpoint` |
| `swipeStart`, `swipeMove`, `swipeEnd`, `interrupt` | `SwipeStart`, `SwipeMove` (`Stray`), `SwipeEnd`, `Interrupt` |
| `buildOut`, `addSlide`, `removeSlide`, `filterSlides`, `setupInfinite`: who has which `data-slick-index` | `Numbered`, `Partings`, `Staying`, `CloneIndexes` |
| event handlers | `Arrow`, `GoTo`, `Select` (`SelectHandler`), `TouchStart`, `TouchMove`, `TouchEnd`, `MouseEnter`, `MouseLeave`, `VisibilityChange`, `OrientationChange`, `FocusChange`, `Resize` |
| calls of the page | `Play`, `Pause`, `AddSlide`, `RemoveSlide`, `FilterSlides`, `UnfilterSlides`, `SetOption`, `UnslickCall` |
| what the browser calls later | `AutoPlayTick`, `AnimationEnd`, `FocusTimeout`, `ResizeTimeout` |

*Data.* Positions count slides from the first real one; clones lie before 0 and from
the number of slides on. `options` and `original` are one object until a breakpoint
is entered, and so are `touch` and `firstTouch` while `sharedTouch`
(`ChangeOptions`, `SetTouch` write through). `Extended` is `$.extend`. An input is possible if the handler
that receives it is bound; nothing forces one. A click goes by the `data-slick-index` of
the slide, and only building the slider and adding a slide number slides: `indexes` are
the numbers there are, which after a removal need not be positions, and two slides may have the
same. `rebound` says that `reinit` has bound the click handler again, so that a click calls it
twice. Where the strip is on the way with a finger is one value, `Dragged`, and where a
finger has left it another, `Astray`.

*Left out.* Rows, lazy loading, the arrow and dot widgets, accessibility attributes,
pixels, right-to-left, vertical and variable-width layouts, `swipeToSlide`,
`asNavFor`, an `initialSlide` other than 0, breakpoints that change `focusOnSelect`, and options
with `slidesToScroll` above `slidesToShow`, which skip slides.

## 3. Runs

| Run | Shows | Bounds |
|---|---|---|
| `results_safe` | `FinishedFileIsRectangular`, `NormalFilesAgree`, `FinishedFileIsFinal`: what a finished file holds and that it stays; `ResultsSurviveOrdinaryEnd`: nothing is lost without a signal or I/O error; `OnlyNestedExitHangs`: a hook never waits for the main thread's monitor | 2 writers, 2 benchmarks, 3 metrics, 1-2 operations, any 2 kinds of trouble out of 7 (signals, failures to load, of an operation, while results or a failure are dispatched, of a harness listener, of I/O) |
| `results_hang` | violation of `SignalledJvmHalts` | 1 writer, 1 benchmark, 2 metrics |
| `results_truncated` | violation of `NoTruncatedFile` | same |
| `results_lost` | violation of `UntroubledRunIsSaved` | 2 writers, 2 benchmarks with 1 and 2 operations, no trouble |
| `harness_safe` | `PluginsSeeProtocol` (refinement), `EarlierPluginsWrap`, `SetUpIsTornDown`, `FailuresAccounted`, `OnlyValidResults`, `LastIsLast`, `RunEnds` | 2 benchmarks, 2 plugins, all 3 policies, limit 2, up to 3 exceptions |
| `plugin_order` | violation of `EarlierPluginsWrap` | 5 plugins, no exceptions |
| `philosophers_safe` | `ForksHeldByEaters`, `ResultIsValid`, `RunReturns` | 3 philosophers, 5 meals, blocks of 2 |
| `uct_safe` | `LatchCountsActors`, `StartedFirst`, `NoGrantLost`, `IterationComplete`, `RunReturns` | 2 children per node, up to 7 nodes, 2 iterations |
| `modules_safe` | `OwnClassPath`, `PartialJarsReported`; `ScratchDeleted`: a hook leaves nothing that main created before it ended, or logs that it could not; `JvmHalts` | 2 benchmarks of one module with 2 JAR files, any failures, those of deletions included, a signal at any point |
| `modules_partial` | violation of `ExtractedJarsReused` | same |
| `chirper_safe` | `FetchIsCurrent`: what a cache is filled with; `SnapshotsHold`; `RunReturns` | 2 clients with 3 requests each, one of a listed user, 1 cache, batches of 2, 2 repetitions, arrays of 1, feeds that start with 2 messages |
| `carousel_safe` | `CurrentExists`, `RestInView`, `WrapsUnseen`: indexes, positions and classes agree; `OneAnimation`: no stale callback is taken for a new one; `SwipeNeedsMove`: what an earlier swipe left slides nothing, with two exceptions; `AutoplayGoesOn` | 6 kinds of sliders, windows of 2 widths, up to 5 slides, 4 inputs or calls, 2 animations under way |

*Why the bounds are enough to be interesting.* Two writers are needed for a
failing writer to precede one that still has to store, and for the main thread to be
in one store while hooks run the other; two benchmarks for lists of
different benchmarks; three metrics for a plugin that throws before the first, between
the built-in metrics, or before the publisher's;
one or two operations (`MCTimedReps`) for lists that grow while a hook reads them;
two kinds of trouble for a failure that meets a signal. `MaxTrouble` bounds the
kinds of trouble, not how often each happens. `MaxOverlap` bounds how many lists grow
during one read (2 of the 6), so that `Reads` stays small. In `Harness`, three
exceptions reach a throwing listener inside a `finally` block inside a failing
benchmark with another to go (`MaxThrows`); limit 2 has operations that are
neither first nor last for the time policies. Three philosophers are the least
with neighbours on both sides; five
meals in blocks of two leave a remainder, and two blocks make requests that can
outrun the camera. Seven nodes are the root, its children and two more families, in
one level or two, with requests left over when the tree is full; the second
iteration starts from the latch the first one left. Two benchmarks of one module
are what it takes to reuse extracted files, two JAR files for an extraction that
fails after one of them; the harness is a second module. In `Chirper`, two clients
make one user's snapshot race with the other's posts, three requests reach two
posts and a fetch (or a fetch, a post and a fetch, with the cache cleared in
between), arrays of one element grow with every other post, a listed user's feed
starts larger than that and full, and the second
repetition meets the caches of the first. The six sliders of `MCCarousel` are
one that loops with whole pages and a breakpoint that stops the looping, one with a partial
last page, one that does not loop and is taken apart by a breakpoint, one that
fades and does not wait for animations, a centred one, and a looping one whose five slides can
be clicked: after three of them are removed a click can ask for a slide that neither
exists nor wraps to one that does. Four inputs (`MaxInputs`)
are a complete swipe and a change of the slides, or a resize in the middle of an
animation with a call on each side; timers, timeouts and ends of animations are
not counted. `MaxCallbacks` keeps calls from starting more than two
animations before one ends.

*Deadlock* is not checked in these runs because the program really stops: the JVM
halts or hangs (and the hang is what one of the runs is about), `runBenchmarks`,
`RealityShowPhilosophers.run`, `AkkaUct.run` and the operation of the chirper
return. That they get there is what `RunEnds`, `RunReturns` and `OnlyNestedExitHangs`
check. A slider rests when nobody touches it and its timers are off.

*Fairness.* Each thread of the JVM is weakly fair: it goes on if it can. Nothing
makes a signal or an exception happen. `Philosophers` also relies on ScalaSTM
waking a transaction that retried once what it read has changed; no strong
fairness is needed, since each neighbour eats a finite number of meals and then
leaves the forks alone. In `AkkaUct` the dispatcher gives every actor that has
messages its turn. `JvmHalts` assumes that a benchmark does not
fill its scratch directory for ever: it creates one file. In `Chirper` every thread
runs and a service gets to every request it was sent; a cache need not be cleared.
`Carousel` assumes that the browser runs timers that are due, and nothing of users
and pages: fairness of its four actions is written with the conditions
under which they change something, which is weak fairness without `ENABLED`. As
inputs are bounded, `AutoplayGoesOn` says nothing of a page that calls
`slickPlay` faster than the interval for ever, which would restart it each time.

## 4. Where code and documentation disagree

1. `results_hang`. A signal between two metrics of an operation leaves lists of
   different length. The hook's sanity check fails and calls `sys.exit(1)`
   (`ResultWriter.scala:69`) in a shutdown hook, where `Runtime.exit` never
   returns. The JVM hangs and nothing is saved.
2. `results_truncated`. The hook is removed before `store()` runs, so a signal
   during `store()` is not delayed by anything: the file may stay truncated. The
   comment at line 58 supposes the hook is still registered then.
3. `results_lost`. The sanity check wants equally many values in all lists of
   *all* benchmarks, so two benchmarks with different default repetitions save
   nothing, without any failure.
4. `plugin_order`. Five or more plugins are registered in the order of a hash map.
5. `modules_partial`. `extractResources` takes any file that exists for an extracted
   one. After an extraction that failed half way, the next benchmark of the module
   gets a class loader with the truncated JAR file.

The run `modules_safe` also shows what is left of the scratch directories when the JVM has
halted. `warned` are the directories whose deletion failed with an exception, which the
hook logs (`DirUtils.java:60` calls this rare and not critical). `late` are those that are left
without a word: one whose hook was not registered yet when the shutdown
began, and those in which main still created something after the hook had ended.

*Other observations.* What follows was met while modelling. It contradicts nothing the
repository says, or is of no consequence, and the models do the same.

- Harness: an operation that throws has no `beforeOperationTearDown`
  (`PluginProtocol` allows this).
- UCT: a node that gets children reports `myId % BINOMIAL_PARAM` to its parent, but
  ids start at 1: the parent notes the next sibling. Nothing reads what it notes.
- Carousel, animations: going back into range at the end of a slider that does not
  loop starts an animation without setting `animating`, and the end of one that was
  begun before a refresh resets it in the middle of the next;
  `OneAnimation` has its exceptions (`infinite`, `overtaken`) for that.
- Carousel, swipes: after a refresh `touchObject` is the object of `_.initials`, so the
  next refresh brings an old swipe back, which a `mouseleave` then completes. `swipeEnd`
  keeps the object of a far vertical swipe; the length in it makes the next tap a swipe
  to the left, though "the user must swipe a length of (1/touchThreshold) * the width
  of the slider" (`slick-1.6.0/README.markdown:107`; `SwipeNeedsMove` has the exception).
- Carousel, strip: a swipe that turned vertical before it ended, a second finger or another
  button leave the strip where it was dragged, until something else places it; so does
  a swipe during which so many slides go that there is nothing to slide when it ends
  (`Displaced` in `RestInView`).
- Carousel, clicks: removing and filtering slides leaves `data-slick-index` as it was. With five
  looping slides, one shown, of which the first three are removed, a click on the last
  one asks for slide 4 of 2, and the slider then stands on slide 2, which does not
  exist (`misled` in `CurrentExists`); a click may also lead to another slide than the one clicked on.
  `reinit` binds the click handler to slides that have it, so that one click slides as often.
- Carousel, timers: leaving the slider with the mouse restarts an interval that a
  breakpoint switched off; a slider that a breakpoint took apart keeps its timers, and
  a resize timeout may build a slider again that the page took apart; `setOption` in a
  breakpoint is forgotten when it is left.
- Carousel, indexes: a filter may leave the current index out of range (`filtered` in
  `CurrentExists`), since `reinit` only goes back by one page, and filtering twice
  loses the slides of the first filter; a slider that does not loop turns its autoplay at
  the last slide only if it gets there with `current + 1`; with `centerMode` and no
  more slides than are shown none is marked active (`pages` in `RestInView`).
- Carousel, breakpoints: `setOption` may lower `slidesToShow` below what a breakpoint that
  sets only `slidesToScroll` scrolls by. A slider that then enters the breakpoint skips
  slides, and removing one may leave it at index -1. It is why `CurrentCorrect` has a
  hypothesis, as `RestCorrect` and `WrapsUnseenAlways` have (section 5); no page of the
  run has such a breakpoint.

## 5. Proofs

All theorems hold for every value of the constants that satisfies the modules'
assumptions: `ConfigAssumption` (`ResultWriter`) only gives the constants their
types, with at least one writer and the two built-in metrics;
`HarnessAssumption` (`Harness`) wants a limit of at least one operation or unit of time, as
`ConfigParser` does, and a plugin to notify, without which there is nothing to say;
`ParameterAssumption` (`Philosophers`) is what `setUpBeforeAll` checks;
`ModulesAssumption` (`ModuleLoading`) says that the selected benchmarks differ (as
`selectBenchmarks` sees to), that every benchmark has a module with JAR files,
and that none is called `lib`: its scratch directory would be the directory of
the module's JAR files, which nothing in the code rules out; `SizesAssumption`
(`Chirper`) makes sizes and counts positive, with some client and cache, and
`NoneAssumption` keeps the absent feed apart from feeds; `UctAssumption` (`AkkaUct`)
makes the counts positive and leaves room for the root's children; `PagesAssumption`
(`Carousel`) says what options are and that pages and breakpoints do not scroll further than
they show, `BoundsAssumption` that widths and bounds are numbers.

**`ResultWriterProofs`**

- `TypeCorrect`: `TypeOK`. It needs the strengthening `DispatchInv`: while results
  or failures are dispatched, or results stored, the current benchmark and
  writer exist.
- `FinishedFileFinal`: `FinishedFileIsFinal`, an action property. A file is written
  either by the main thread or by the writer's hook, never by both, and by each at
  most once. The invariant `FileInv` says why: a hook runs only if it was
  registered when the JVM began to shut down, and that set no longer changes
  (`HookInv`); the main thread is past `removeShutdownHook` only if it removed
  the hook in time (`UnhookedInv`); then main moves to later writers
  (`NormalInv`) and a hook ends (`ForcedInv`). The monitor is not needed for this.
- `RectangularCorrect`: `FinishedFileIsRectangular`. A thread reads the lists one after the
  other while main appends to them. All it has seen is no larger than the lists are
  by now (`SeenInv`; they only grow), and what gets past the check and `Format` is
  rectangular, from then on in what is opened, written and saved (`SoundInv`).
- `NormalFilesCorrect`: `NormalFilesAgree`. All writers hold the same outside a dispatch, and
  those before `cur` one value more within it (`DispatchedInv`). The main thread stores
  when no dispatch is under way, so what it saves is exactly that (`ExactInv`).
- `ResultsSurviveCorrect`: `ResultsSurviveOrdinaryEnd`. Without a signal and a failing file
  the JVM goes down only when main has ended (`QuietInv`). Then either main has stored for
  every writer (`StoredInv`), or a listener threw and no hook has been removed
  (`ListenerInv`); all hooks are started (`StartedInv`), read lists that no longer change
  (`HookStoredInv`) and have ended when the JVM halts (`HaltedInv`).

**`HarnessEventProofs`**

- `DispatchInvariant`: the listeners that a notification still has to call are always a
  rest of the list that `EventDispatcher.Builder` made, in its order, with the built-in
  policy in its place and each listener once. The lemmas before it say what the builder's
  lists are and what taking the head of such a rest leaves.
- `ProtocolCorrect`: `PluginsSeeProtocol`, the refinement of `PluginProtocol` for every plugin,
  from `StageInv`: all plugins have seen the same event, but during a dispatch, where those
  that have been called are one event ahead. Initial states map to initial states and every
  step to a step or a stutter; fairness is not part of it.
- `WrapCorrect`: `EarlierPluginsWrap`, under `NumPlugins <= 4`. It is false beyond that
  (finding 4): `loadExternalPlugins` collects plugins in an immutable `Map`, which keeps
  the order of insertion up to four elements. Set-up events run through the list forwards
  and tear-down events backwards, so by `DispatchInv` whoever is ahead is on the right side.

**`HarnessProofs`**

- `TypeCorrect`: `TypeOK`, which follows from the other invariants.
- `TornDownCorrect`: `SetUpIsTornDown`. `ReadyInv` ties the ghost `ready` to the places in the
  nested `try`/`finally` blocks between set-up and tear-down.
- `FailuresCorrect`: `FailuresAccounted`. Between benchmarks `failedBenchmarks` is exact; within
  one it lists the earlier ones, and the exception is still on its way exactly if this one
  was struck, whichever `finally` block it is passing (`AccountInv`).
- `ResultsCorrect`: `OnlyValidResults`, by how far each plugin's results are behind the
  validated operations at each place (`ResultsInv`).
- `LastCorrect`: `LastIsLast`, from `CountInv` and `TimeInv`, which say for the two kinds of
  policies what their counters are at each place and which operation has been announced
  (`PolicyInv`). It needs that a policy is reset before each benchmark: the limit
  and the counters it starts with are not those the last benchmark left (`IsReset`).

**`PhilosophersProofs`**

- `TypeCorrect`: `TypeOK`, with `HungryInv` (who still eats has meals left) and
  `StartInv` (how far main has got in starting threads).
- `ForksCorrect`: `ForksHeldByEaters`, which is inductive with the types.
- `ResultCorrect`: `ResultIsValid`. The hard part is the number of images. `Reported`
  is the set of blocks, as pairs of a philosopher and a number, that are complete
  and reported; `blockCount` is its cardinality, `requestCount` that divided
  by the number of philosophers (`BlockInv`). The camera makes one image per request
  it took and ends only when it took all (`CameraInv`), which is after main
  joined everybody (`ShutdownInv`). When all philosophers have eaten all
  meals, `Reported` is the whole product, so there are
  `Meals \div BlockMeals` requests, scans and images.

**`ModuleLoadingProofs`**

- `TypeCorrect`: `TypeOK`. While main loads something, there is a benchmark with
  the number `next`, and `jar` is one of its module's JAR files (`JarInv`).
- `PartialReported`: `PartialJarsReported`. The invariant accounts for every partial
  file: it is being written, or a benchmark that is done failed without having got
  it (`PartialInv`, `LeftBy`). This needs that the file being written is in
  nobody's class path (`WrittenInv`), which in turn needs that whatever is in a
  class path is in the file system (`OwnedInv`), and that is so only until the
  JVM shuts down (`HookInv`). That an earlier benchmark without the file is not the
  later one with it follows from the benchmarks being different.
- `ClassPathCorrect`: `OwnClassPath`. Benchmarks to come have no class path (`FreshInv`), the
  current one has the JAR files before `jar`, in order (`PathInv`), and the context class
  loader is that of the benchmark that runs (`ContextInv`).
- `ScratchCorrect`: `ScratchDeleted`, for each root by itself. While the JVM runs, a root has
  a hook or main is just about to register it (`RegisteredInv`); afterwards a root
  that is left has a hook to run or running, or is in `late` or `warned`
  (`DeletionInv`). The last step of a hook that logs nothing deletes the root itself: the
  root is at the bottom of its stack of open directories (`WalkInv`). With the root everything in it is gone, for the parent of a path
  that exists exists (`TreeInv`); what keeps a directory from being deleted while main
  fills it is the exception, and main can bring a root back only when its hook
  has ended, which is `late`. Two hooks may walk at once: what one deletes is under another root.

**`AkkaUctProofs`**

Every handler first is shown to be an instance of `Handling`: the actor takes the
head of its mailbox, sends some messages, changes its status and perhaps creates
a family of children. The invariants are then proved of `Handling`, once for all handlers.

- `StartedCorrect`: `StartedFirst`, with the types (`TypeCorrect`) and `StartInv`.
- `TreeInv` is what the others rest on. Ids of children are handed out by the root, in the order
  of requests, and used later by someone else: the families of the grants under way
  and of the actors that exist are disjoint (`KnownInv`, `GrantInv`). An actor asks at most
  once and is granted at most once (`TokenInv`). A `traverse` or `terminate` is
  never ahead of a grant in a mailbox (`FinishInv`): the root sends them after the last
  grant, and others pass them on only to children they have created.
- `LatchCorrect` and `GrantsCorrect`: `LatchCountsActors` and `NoGrantLost`. These count with
  the library's theorems on finite sets: a family adds `Binomial` actors, an exit takes one
  away, a grant moves from the mailbox to the tree.
- `IterationCorrect`: `IterationComplete`. A node is traversed at most once (`VisitInv`); who has
  been traversed has told its children, and no actor but the root is
  terminated before it is traversed (`ToldInv`). When the latch is zero no actor lives, so by
  `NoGrantLost` the known nodes are all the root counted, and all were traversed.

**`ChirperProofs`**

- `TypeCorrect`: `TypeOK`. `StoreInv` says what the arrays are, and that feeds and
  snapshots fit theirs; `QuietInv` that a client waits for one thing at a time, so that a
  reset meets no snapshot and no request. `Added`, `GrownType` and `AppendedStore` are
  lemmas on the buffers, for any store.
- `FetchCorrect`: `FetchIsCurrent`, inductive with the types. Between the master's
  answer and its arrival in the cache the client waits for the batch, and nobody else
  posts to its feed.
- `SnapshotsCorrect`: `SnapshotsHold`. No two feeds share an array (`OwnInv`), so an
  array is written only by posts to the feed that stands in it, behind that feed's end
  (`SameBelow`), and no snapshot in that array is longer than the feed (`ViewInv`).

**`CarouselProofs`**

The operators that stand for the functions of the source are treated one by one. A lemma
`XEffect` says which fields `X` changes (`Changes`) and to what; a lemma `XGood` that what
`X` returns is in order again. The invariant of the object is `Good`: its types (`Slider`), its
animations (`Animated`), its indexes (`Fit`) and its swipes (`Swiped`). Each handler keeps
it, whatever it calls, and so does each step.

- `TypeCorrect`: `TypeOK`. The index arithmetic (`NavigableRange`, `CheckNavigableRange`,
  `ChangeRange`) yields indexes, because a maximum over the navigable ones exists.
- `AnimationCorrect`: `OneAnimation`. Everything that rebuilds the slider during an animation
  sets `overtaken`, and the last callback of those under way clears it; in between
  nothing is claimed of a slider but that it is not deaf.
- `SwipeCorrect`: `SwipeNeedsMove`. What `swipeEnd` does not forget is far and vertical, or has not
  moved (`Swiped`); the property excepts the tap after the former, and an object
  shared with `_.initials`.
- `CurrentCorrect`: `CurrentExists`, unless a filter was used or a click was `misled`, when each breakpoint that says how far to scroll says how many
  slides to show (`SensibleBreakpoints`; see section 4 for what happens otherwise). `Fit` adds
  that options never scroll further than they show (`Sized`) and that the clones are those
  `setupInfinite` makes (`Cloned`). An index within one round of the slides then
  leads to a slide that exists (`AnimSlideRange`), and one step from the current slide, or a
  navigable index, is within a round; when the last slide is gone `reinit` need only
  step back once (`ReinitGood`). The index of a click is anything from before; that it is a
  position or a clone of one is what `misled` leaves.
- `WrapsUnseenCorrect`: `WrapsUnseen`, for sliders whose pages are all whole. `Aligned` says that while an
  animation is `Protected` (it is waited for, and nothing has overtaken it) the strip stands at
  `Left` of the current slide, or a round away (`RoundsApart`). It lasts because such a slider is marked
  animating: `swipeMove` does not drag the strip, `slideHandler` ignores requests, and what
  rebuilds the slider sets `overtaken`. `RoundsVanish` is the arithmetic.
- `RestCorrect`: `RestInView`, under `SensibleBreakpoints`. The invariant `VInv` adds `Viewed`
  to `AInv`. A slider that was not taken apart is `Shaped` (its clones are those of its options,
  and one without more slides than it shows stands at the first), what is marked is what
  `setSlideClasses` marked for the current slide or, when all slides are shown, for the one
  clicked on (`Marked`), and when no callback is due and the strip neither follows a finger nor is
  where a finger left it, it stands at `Place` (`Placed`). A second invariant, `Held`, says
  when the strip may follow a finger: in a slider that neither fades nor is animating and, unless
  it has become one without slides to slide, while a finger is on it whose swipe, left or right,
  will be slid when it ends. So a strip nobody holds is at `Place` or `Displaced`. Each operator
  of the model keeps both (the lemmas `XViewed` and `XHeld`, `HeldInvariance`); only `RebuildViewed`, about the second half of `reinit`, has to follow a
  slider that is not in order halfway, while the slides are new and the classes old. Then
  `ActiveInView` proves, for any options, that the formula of `setSlideClasses` marks
  something, and only slides that are in view where `getLeft` puts the strip, under the
  conditions that `pages` in `RestInView` names.
- `WrapsUnseenAlways`: `WrapsUnseen` in full, under `SensibleBreakpoints`. A slider with a partial
  last page reaches it by a formula that uses the rest, and the page before the first
  by another; `PartRounds` shows that they agree, give or take a round, if the slider goes
  to the start of a page and scrolls by what it shows. So the invariant also says that a
  looping slider whose slides cannot be clicked on stands at the start of a page (`OnPage`): the
  indexes that dots, arrows and `reinit` produce are such starts
  (`NavigablePages`, `CheckNavigablePages`, `ChangePages`, `AnimSlidePages`), and `Suits`
  collects what `slideHandler` needs of the index it is asked for.

What these two properties ask of the options cannot be dropped: the formulas of `getLeft` and `setSlideClasses` agree only
for some combinations of options. With 5 slides, 3 shown and 2 scrolled, for instance, the last
page is placed by two formulas that differ, so `WrapsUnseen` asks of a slider with
a partial last page that it scrolls by what it shows.

**Only model-checked** are the liveness properties (`RunEnds`, `RunReturns`,
`OnlyNestedExitHangs`, `JvmHalts`, `AutoplayGoesOn`), which are out of the prover's reach.
The properties of the runs that expect a violation are false. Every other invariant and
action property of the runs is a theorem here.

## 6. Not modelled

`PROJECT.json` has the list with reasons. In short: text (formats, the environment
section, Markdown, logging), option parsing (a library), the sample plugins (one
plugin of `Harness` stands for any), vendored workloads, and benchmarks that only
drive a library (Spark, Neo4j, databases, Rx, the Scala compiler). External
policies are plugins that could answer `canExecute` in any way and promise
nothing. The JMH wrapper is sequential: JMH sets and validates a result within one
invocation and ends the fork at the first exception, which leaves nothing to
interleave. The other scripts of the website fetch and show content, or are
third-party syntax highlighting and animation properties, without state between calls.

## 7. Plan

1. `Selection`: `selectBenchmarks`, `excludeIncompatible`, `Version.compareTo` as
   operators, checked against reference definitions over bounded inputs (the order
   on versions is total and transitive; the selection keeps the order asked for
   and loses nothing without a warning).
2. `JavaKMeans`: the fork/join splitting of ranges, as an operator.

A theorem to prove next: on their own, outside the state machine, that the operators of
`CarouselPages` mark only positions that exist for any index, also where `pages` in `RestInView`
does not hold.
