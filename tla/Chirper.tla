-------------------------------- MODULE Chirper --------------------------------
(******************************************************************************)
(* The finagle-chirper benchmark (src/benchmarks/twitter-finagle/src/main/    *)
(* scala/org/renaissance/twitter/finagle/FinagleChirper.scala): a master that *)
(* keeps the feeds of all users, caches in front of it, and client threads    *)
(* that post to, and fetch, their own feed and ask for statistics over all    *)
(* feeds.  Every service handles requests on threads of its own, in any       *)
(* order; the master handles them under a lock, except for the statistics,    *)
(* which another thread computes from snapshots of the feeds.                 *)
(*                                                                            *)
(* A feed is a FeedBuffer: the number of the array it stands in, and its      *)
(* length.  Arrays that were left for a larger one stay in `arrays`, because  *)
(* snapshots may still refer to them.  A message is its number in the feed    *)
(* and the repetition it was posted in.  The feeds of users without a client  *)
(* are set up by every reset and never change: they are left out.  Client 19  *)
(* of a machine with that many processors has the name of user 1919, whose    *)
(* feed a reset fills, so that a client's user may be one of userNames.       *)
(******************************************************************************)
EXTENDS Naturals, Sequences, FiniteSets

CONSTANTS
    Clients,        \* the client threads, each with a user of its own
    Listed,         \* those whose users are among userNames
    Caches,         \* the cache services
    Requests,       \* request_count: iterations of a client
    BatchSize,      \* batchSize: feed requests sent at once
    Repetitions,    \* how often the harness runs the operation
    InitialSize,    \* FeedBuffer.DefaultInitialSize
    StartingSize,   \* startingFeedSize: messages a reset puts into a feed
    None            \* no feed, no entry

(* None is neither a feed nor anything else. *)
ASSUME NoneAssumption == None \notin [array : Nat, length : Nat]

ASSUME SizesAssumption ==
    /\ {Requests, BatchSize, Repetitions, InitialSize, StartingSize} \subseteq Nat \ {0}
    /\ IsFiniteSet(Clients) /\ Clients # {} /\ Caches # {}
    /\ Listed \subseteq Clients

VARIABLES
    main,           \* the harness's thread: "reset", "run" or "done"
    repetition,     \* repetitions begun
    feeds,          \* Master.feeds, for the users of the clients
    arrays,         \* every array a feed stands or stood in
    caches,         \* Cache.cache of every cache
    client,         \* what each client thread waits for
    left,           \* iterations each client still has to do
    batch,          \* the feed requests of each client's batch
    statistics      \* the snapshots each client's request is computed from

vars == <<main, repetition, feeds, arrays, caches, client, left, batch, statistics>>

Slots == 1 .. BatchSize

(* What a feed request returns, and caches keep: the number of messages, and  *)
(* of which repetition.                                                       *)
Content == [of : 1 .. Repetitions, length : Nat]

(* A feed request: on its way to the cache, to the master, back to the cache  *)
(* with the content of the feed, or answered.                                 *)
Idle == [at |-> "none"]

Request ==
    {Idle} \cup [at : {"cache", "master"}, cache : Caches]
           \cup [at : {"back", "answered"}, cache : Caches, content : Content]

(* Reading the first `length` elements of an array. *)
Elements(feed) == [i \in 1 .. feed.length |-> arrays[feed.array][i]]

--------------------------------------------------------------------------------
(* The master, under its lock. *)

EmptyFeed == [array |-> Len(arrays) + 1, length |-> 0]

EmptyArray == [i \in 1 .. InitialSize |-> None]

(* feed += content: an array that is full is copied to one of twice its size. *)
Grown(array) == [i \in 1 .. 2 * Len(array) |-> IF i <= Len(array) THEN array[i] ELSE None]

(* Faulty: a full array is written from its beginning again. *)
Add_Wraps(feed, store, message) ==
    LET array == store[feed.array]
        slot  == (feed.length % Len(array)) + 1
    IN  [feed |-> [feed EXCEPT !.length = IF @ < Len(array) THEN @ + 1 ELSE @],
         arrays |-> [store EXCEPT ![feed.array][slot] = message]]

(* Faulty: no larger array is ever taken. *)
Add_NoGrowth(feed, store, message) ==
    LET next == feed.length + 1
    IN  [feed |-> [feed EXCEPT !.length = next],
         arrays |-> [store EXCEPT ![feed.array][next] = message]]

Add(feed, store, message) ==
    LET array == store[feed.array]
        next  == feed.length + 1
    IN  IF next <= Len(array)
        THEN [feed |-> [feed EXCEPT !.length = next],
              arrays |-> [store EXCEPT ![feed.array][next] = message]]
        ELSE [feed |-> [array |-> Len(store) + 1, length |-> next],
              arrays |-> Append(store, [Grown(array) EXCEPT ![next] = message])]

(* feeds.putIfAbsent(username, new FeedBuffer): the feed of a user, and the    *)
(* arrays with that of a new feed.                                            *)
FeedFor(c) == IF feeds[c] # None THEN feeds[c] ELSE EmptyFeed

ArraysFor(c) == IF feeds[c] # None THEN arrays ELSE Append(arrays, EmptyArray)

(* /api/post.  The client's next iteration begins with the response. *)
MasterPost(c) ==
    LET message == <<repetition, FeedFor(c).length + 1>>
        added   == Add(FeedFor(c), ArraysFor(c), message)
    IN  /\ client[c] = "post"
        /\ feeds' = [feeds EXCEPT ![c] = added.feed]
        /\ arrays' = added.arrays
        /\ client' = [client EXCEPT ![c] = "next"]
        /\ UNCHANGED <<main, repetition, caches, left, batch, statistics>>

(* /api/feed: the whole feed, or a new one that is empty. *)
MasterFeed(c, i) ==
    /\ batch[c][i].at = "master"
    /\ batch' = [batch EXCEPT ![c][i] =
           [at |-> "back", cache |-> batch[c][i].cache,
            content |-> [of |-> repetition, length |-> FeedFor(c).length]]]
    /\ feeds' = [feeds EXCEPT ![c] = FeedFor(c)]
    /\ arrays' = ArraysFor(c)
    /\ UNCHANGED <<main, repetition, caches, client, left, statistics>>

(* /api/stats/...: the snapshot views of all feeds are taken under the lock.  *)
(* `seen` is a history field: what the snapshots held at that time.           *)
MasterStatistics(c) ==
    /\ client[c] = "stats"
    /\ client' = [client EXCEPT ![c] = "analysis"]
    /\ statistics' = [statistics EXCEPT ![c] =
           {[view |-> feeds[u], seen |-> Elements(feeds[u])] :
               u \in {v \in Clients : feeds[v] # None}}]
    /\ UNCHANGED <<main, repetition, feeds, arrays, caches, left, batch>>

(* The FuturePool's thread has gone through the snapshots. *)
Analyzed(c) ==
    /\ client[c] = "analysis"
    /\ client' = [client EXCEPT ![c] = "next"]
    /\ statistics' = [statistics EXCEPT ![c] = {}]
    /\ UNCHANGED <<main, repetition, feeds, arrays, caches, left, batch>>

--------------------------------------------------------------------------------
(* The caches, which take no lock. *)

(* Cache.apply.  Whether the count of requests is one at which the cache is   *)
(* cleared depends on the hash of a floating-point number: any may be.        *)
CacheRequest(c, i) ==
    \E clear \in BOOLEAN :
        LET k    == batch[c][i].cache
            kept == IF clear THEN [u \in Clients |-> None] ELSE caches[k]
        IN  /\ batch[c][i].at = "cache"
            /\ caches' = [caches EXCEPT ![k] = kept]
            /\ batch' = [batch EXCEPT ![c][i] =
                   IF kept[c] = None
                   THEN [at |-> "master", cache |-> k]
                   ELSE [at |-> "answered", cache |-> k, content |-> kept[c]]]
            /\ UNCHANGED <<main, repetition, feeds, arrays, client, left, statistics>>

(* The master's response is put into the cache and passed on. *)
CacheResponse(c, i) ==
    LET r == batch[c][i]
    IN  /\ r.at = "back"
        /\ caches' = [caches EXCEPT ![r.cache][c] = r.content]
        /\ batch' = [batch EXCEPT ![c][i].at = "answered"]
        /\ UNCHANGED <<main, repetition, feeds, arrays, client, left, statistics>>

--------------------------------------------------------------------------------
(* The client threads: the hash of the iteration decides what to do, which    *)
(* can be anything.                                                           *)

Begin(c, kind) ==
    /\ client[c] = "next"
    /\ left[c] > 0
    /\ left' = [left EXCEPT ![c] = @ - 1]
    /\ client' = [client EXCEPT ![c] = kind]

Post(c) ==
    /\ Begin(c, "post")
    /\ UNCHANGED <<main, repetition, feeds, arrays, caches, batch, statistics>>

AskStatistics(c) ==
    /\ Begin(c, "stats")
    /\ UNCHANGED <<main, repetition, feeds, arrays, caches, batch, statistics>>

(* All requests of a batch go to the same cache. *)
FetchFeeds(c) ==
    /\ Begin(c, "batch")
    /\ \E k \in Caches :
          batch' = [batch EXCEPT ![c] = [i \in Slots |-> [at |-> "cache", cache |-> k]]]
    /\ UNCHANGED <<main, repetition, feeds, arrays, caches, statistics>>

(* Faulty: Await.result of the first future instead of the collected ones. *)
Collected_First(c) ==
    /\ client[c] = "batch"
    /\ \E i \in Slots : batch[c][i].at = "answered"
    /\ client' = [client EXCEPT ![c] = "next"]
    /\ UNCHANGED <<main, repetition, feeds, arrays, caches, left, batch, statistics>>

(* Faulty: the batch has one response too few. *)
Collected_OffByOne(c) ==
    /\ client[c] = "batch"
    /\ \A i \in 1 .. BatchSize + 1 : i \in Slots /\ batch[c][i].at = "answered"
    /\ client' = [client EXCEPT ![c] = "next"]
    /\ batch' = [batch EXCEPT ![c] = [i \in Slots |-> Idle]]
    /\ UNCHANGED <<main, repetition, feeds, arrays, caches, left, statistics>>

(* Await.result(Future.collect(responses)). *)
Collected(c) ==
    /\ client[c] = "batch"
    /\ \A i \in Slots : batch[c][i].at = "answered"
    /\ client' = [client EXCEPT ![c] = "next"]
    /\ batch' = [batch EXCEPT ![c] = [i \in Slots |-> Idle]]
    /\ UNCHANGED <<main, repetition, feeds, arrays, caches, left, statistics>>

ClientEnds(c) ==
    /\ client[c] = "next"
    /\ left[c] = 0
    /\ client' = [client EXCEPT ![c] = "ended"]
    /\ UNCHANGED <<main, repetition, feeds, arrays, caches, left, batch, statistics>>

--------------------------------------------------------------------------------
(* The harness's thread: setUpBeforeEach, and run. *)

(* FeedBuffer.from: an array with room for the starting messages. *)
StartingArray(r) ==
    [i \in 1 .. (IF StartingSize > InitialSize THEN StartingSize ELSE InitialSize) |->
        IF i <= StartingSize THEN <<r, i>> ELSE None]

(* /api/reset.  Feeds of users who are not among userNames come into being    *)
(* again when they are asked for; no cache is told.                           *)
Reset ==
    /\ main = "reset"
    /\ main' = "run"
    /\ repetition' = repetition + 1
    /\ \E place \in [Listed -> 1 .. Cardinality(Listed)] :
          /\ \A c, d \in Listed : c # d => place[c] # place[d]
          /\ feeds' = [c \in Clients |->
                IF c \in Listed THEN [array |-> place[c], length |-> StartingSize]
                               ELSE None]
    /\ arrays' = [a \in 1 .. Cardinality(Listed) |-> StartingArray(repetition + 1)]
    /\ client' = [c \in Clients |-> "next"]
    /\ left' = [c \in Clients |-> Requests]
    /\ UNCHANGED <<caches, batch, statistics>>

(* All threads are joined. *)
Joined ==
    /\ main = "run"
    /\ \A c \in Clients : client[c] = "ended"
    /\ main' = IF repetition < Repetitions THEN "reset" ELSE "done"
    /\ UNCHANGED <<repetition, feeds, arrays, caches, client, left, batch, statistics>>

--------------------------------------------------------------------------------
Init ==
    /\ main = "reset"
    /\ repetition = 0
    /\ feeds = [c \in Clients |-> None]
    /\ arrays = <<>>
    /\ caches = [k \in Caches |-> [c \in Clients |-> None]]
    /\ client = [c \in Clients |-> "ended"]
    /\ left = [c \in Clients |-> 0]
    /\ batch = [c \in Clients |-> [i \in Slots |-> Idle]]
    /\ statistics = [c \in Clients |-> {}]

ClientStep(c) == Post(c) \/ AskStatistics(c) \/ FetchFeeds(c) \/ Collected(c) \/ ClientEnds(c)

MasterStep(c) == MasterPost(c) \/ MasterStatistics(c) \/ Analyzed(c)

RequestStep(c, i) == CacheRequest(c, i) \/ MasterFeed(c, i) \/ CacheResponse(c, i)

Next ==
    \/ \E c \in Clients : ClientStep(c) \/ MasterStep(c) \/ \E i \in Slots : RequestStep(c, i)
    \/ Reset
    \/ Joined

(* Threads run, and a service gets to every request it was sent. *)
Fairness ==
    /\ \A c \in Clients : WF_vars(ClientStep(c)) /\ WF_vars(MasterStep(c))
    /\ \A c \in Clients, i \in Slots : WF_vars(RequestStep(c, i))
    /\ WF_vars(Reset) /\ WF_vars(Joined)

Spec == Init /\ [][Next]_vars /\ Fairness

--------------------------------------------------------------------------------
(* Properties. *)

Feed == [array : 1 .. Len(arrays), length : Nat]

(* Type correctness: feeds stand in arrays that exist and hold them. *)
TypeOK ==
    /\ main \in {"reset", "run", "done"}
    /\ repetition \in 0 .. Repetitions
    /\ feeds \in [Clients -> Feed \cup {None}]
    /\ \A c \in Clients : feeds[c] # None => feeds[c].length <= Len(arrays[feeds[c].array])
    /\ caches \in [Caches -> [Clients -> Content \cup {None}]]
    /\ client \in [Clients -> {"next", "post", "stats", "analysis", "batch", "ended"}]
    /\ left \in [Clients -> 0 .. Requests]
    /\ batch \in [Clients -> [Slots -> Request]]
    /\ \A c \in Clients : \A s \in statistics[c] : s.view \in Feed

(* A feed on its way into a cache is the feed the master holds: a fetch that  *)
(* was begun before the cache was cleared, or before another fetch, does not  *)
(* put an old feed over a newer one.  No lock sees to this, but the client,   *)
(* which is the only one to post to its feed and waits for whole batches.     *)
FetchIsCurrent ==
    \A c \in Clients, i \in Slots :
        batch[c][i].at = "back" =>
            /\ feeds[c] # None
            /\ batch[c][i].content = [of |-> repetition, length |-> feeds[c].length]

(* FeedBuffer's promise (FinagleChirper.scala:52-59): a snapshot goes on      *)
(* holding the elements that were present when it was taken, while others     *)
(* post to the same feeds and the lock is no longer held.                     *)
SnapshotsHold ==
    \A c \in Clients : \A s \in statistics[c] : Elements(s.view) = s.seen

(* run returns and all repetitions end: no client waits for a response that   *)
(* does not come.                                                             *)
RunReturns == <>(main = "done")

================================================================================
