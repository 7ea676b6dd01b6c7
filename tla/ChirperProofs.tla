----------------------------- MODULE ChirperProofs -----------------------------
(******************************************************************************)
(* Types of Chirper, and that neither caches nor snapshots need the lock.     *)
(******************************************************************************)
EXTENDS Chirper, SequenceTheorems, FiniteSetTheorems, TLAPS

Element == (Nat \X Nat) \cup {None}

(* A sequence of arrays, each with room for something. *)
Store == {s \in Seq(Seq(Element)) : \A a \in 1 .. Len(s) : Len(s[a]) >= 1}

(* A feed of a store, which is long enough for it. *)
FeedOf(s) == {f \in [array : 1 .. Len(s), length : Nat] : f.length <= Len(s[f.array])}

(* The element `i` of array `a` is the same in both stores, as far as it is   *)
(* not one of those that were appended behind `limit` in the array `grown`.   *)
SameBelow(s, t, grown, limit) ==
    \A a \in 1 .. Len(s) : \A i \in 1 .. Len(s[a]) :
        (a # grown \/ i <= limit) => t[a][i] = s[a][i]

--------------------------------------------------------------------------------
(* Operators on stores. *)

(* The sizes of SizesAssumption, one by one. *)
LEMMA SizesArePositive ==
    /\ Requests \in Nat \ {0} /\ BatchSize \in Nat \ {0}
    /\ Repetitions \in Nat \ {0} /\ InitialSize \in Nat \ {0}
    /\ StartingSize \in Nat \ {0}
BY SizesAssumption

(* An array appended to a store disturbs nothing. *)
LEMMA AppendedStore ==
    ASSUME NEW s \in Store, NEW new \in Seq(Element), Len(new) >= 1
    PROVE  /\ Append(s, new) \in Store
           /\ Len(Append(s, new)) = Len(s) + 1
           /\ Append(s, new)[Len(s) + 1] = new
           /\ \A a \in 1 .. Len(s) : Append(s, new)[a] = s[a]
<1>1. s \in Seq(Seq(Element)) /\ Len(s) \in Nat
    BY DEF Store
<1>2. /\ Append(s, new) \in Seq(Seq(Element))
      /\ Len(Append(s, new)) = Len(s) + 1
      /\ Append(s, new)[Len(s) + 1] = new
      /\ \A a \in 1 .. Len(s) : Append(s, new)[a] = s[a]
    BY <1>1, AppendProperties
<1>3. \A a \in 1 .. Len(Append(s, new)) : Len(Append(s, new)[a]) >= 1
    <2>1. SUFFICES ASSUME NEW a \in 1 .. Len(Append(s, new))
                   PROVE  Len(Append(s, new)[a]) >= 1
        OBVIOUS
    <2>2. a \in 1 .. Len(s) \/ a = Len(s) + 1
        BY <1>1, <1>2, <2>1
    <2>3. QED
        BY <1>2, <2>2 DEF Store
<1>4. QED
    BY <1>2, <1>3 DEF Store

(* new FeedBuffer's array has room for a message. *)
LEMMA EmptyArrayType == EmptyArray \in Seq(Element) /\ Len(EmptyArray) >= 1
<1>1. EmptyArray \in [1 .. InitialSize -> Element]
    BY DEF EmptyArray, Element
<1>2. QED
    BY <1>1, SizesArePositive, SeqDef DEF EmptyArray

(* The starting messages fit the array a reset makes for them.                *)
LEMMA StartingArrayType ==
    ASSUME NEW r \in Nat
    PROVE  /\ StartingArray(r) \in Seq(Element)
           /\ Len(StartingArray(r)) >= 1 /\ StartingSize <= Len(StartingArray(r))
<1> DEFINE size == IF StartingSize > InitialSize THEN StartingSize ELSE InitialSize
<1>1. size \in Nat /\ size >= 1 /\ StartingSize <= size
    BY SizesArePositive
<1>2. StartingArray(r) \in [1 .. size -> Element]
    <2>1. \A i \in 1 .. size : (IF i <= StartingSize THEN <<r, i>> ELSE None) \in Element
        BY <1>1 DEF Element
    <2>2. StartingArray(r) = [i \in 1 .. size |-> IF i <= StartingSize THEN <<r, i>> ELSE None]
        BY DEF StartingArray
    <2> HIDE DEF size
    <2>3. QED
        BY <2>1, <2>2
<1> HIDE DEF size
<1>3. StartingArray(r) \in Seq(Element) /\ Len(StartingArray(r)) = size
    BY <1>1, <1>2, SeqDef
<1>4. QED
    BY <1>1, <1>3

(* A reset makes a feed with an array of its own for every listed user.       *)
LEMMA ResetEffect ==
    ASSUME repetition \in Nat, Reset
    PROVE  /\ arrays' \in Store
           /\ feeds' \in [Clients -> FeedOf(arrays') \cup {None}]
           /\ \A c, d \in Clients :
                 c # d /\ feeds'[c] # None /\ feeds'[d] # None
                 => feeds'[c].array # feeds'[d].array
<1> DEFINE n == Cardinality(Listed)
           start == StartingArray(repetition + 1)
<1>1. n \in Nat
    <2>1. IsFiniteSet(Listed)
        BY SizesAssumption, FS_Subset
    <2>2. QED
        BY <2>1, FS_CardinalityType
<1>2. start \in Seq(Element) /\ Len(start) >= 1 /\ StartingSize <= Len(start)
    BY StartingArrayType
<1>3. PICK place \in [Listed -> 1 .. n] :
          /\ \A c, d \in Listed : c # d => place[c] # place[d]
          /\ feeds' = [c \in Clients |->
                IF c \in Listed THEN [array |-> place[c], length |-> StartingSize]
                               ELSE None]
    BY DEF Reset
<1>4. arrays' = [a \in 1 .. n |-> start]
    BY DEF Reset
<1> HIDE DEF n, start
<1>5. arrays' \in Seq(Seq(Element)) /\ Len(arrays') = n /\ \A a \in 1 .. n : arrays'[a] = start
    <2>1. arrays' \in [1 .. n -> Seq(Element)]
        BY <1>2, <1>4
    <2>2. arrays' \in Seq(Seq(Element)) /\ Len(arrays') = n
        BY <1>1, <2>1, SeqDef
    <2>3. QED
        BY <1>4, <2>2
<1>6. arrays' \in Store
    BY <1>2, <1>5 DEF Store
<1>7. \A c \in Listed : [array |-> place[c], length |-> StartingSize] \in FeedOf(arrays')
    <2>1. SUFFICES ASSUME NEW c \in Listed
                   PROVE  [array |-> place[c], length |-> StartingSize] \in FeedOf(arrays')
        OBVIOUS
    <2>2. place[c] \in 1 .. n
        BY <1>3
    <2>3. arrays'[place[c]] = start /\ StartingSize <= Len(arrays'[place[c]])
        BY <1>2, <1>5, <2>2
    <2>4. StartingSize \in Nat
        BY SizesArePositive
    <2>5. QED
        BY <1>5, <2>2, <2>3, <2>4 DEF FeedOf
<1>8. feeds' \in [Clients -> FeedOf(arrays') \cup {None}]
    BY <1>3, <1>7
<1>9. ASSUME NEW c \in Clients, feeds'[c] # None
      PROVE  c \in Listed /\ feeds'[c].array = place[c]
    BY <1>3, <1>9
<1>10. QED
    BY <1>3, <1>6, <1>8, <1>9

(* The copy of a full array holds what the array held, and as much again.     *)
LEMMA GrownType ==
    ASSUME NEW array \in Seq(Element), Len(array) >= 1
    PROVE  /\ Grown(array) \in Seq(Element)
           /\ Len(Grown(array)) = 2 * Len(array)
           /\ \A i \in 1 .. Len(array) : Grown(array)[i] = array[i]
<1>1. Len(array) \in Nat /\ \A i \in 1 .. Len(array) : array[i] \in Element
    OBVIOUS
<1>2. Grown(array) \in [1 .. 2 * Len(array) -> Element]
    BY <1>1 DEF Grown, Element
<1>3. Grown(array) \in Seq(Element) /\ Len(Grown(array)) = 2 * Len(array)
    BY <1>1, <1>2, SeqDef
<1>4. \A i \in 1 .. Len(array) : Grown(array)[i] = array[i]
    BY <1>1 DEF Grown
<1>5. QED
    BY <1>3, <1>4

(* Appending a message to a feed: the feed is one longer, in the same array   *)
(* or in a new one, and what was there before stays.                          *)
LEMMA Added ==
    ASSUME NEW s \in Store, NEW feed \in FeedOf(s), NEW message \in Nat \X Nat
    PROVE  LET added == Add(feed, s, message)
           IN  /\ added.arrays \in Store
               /\ Len(s) <= Len(added.arrays)
               /\ added.feed \in FeedOf(added.arrays)
               /\ added.feed.length = feed.length + 1
               /\ added.feed.array = feed.array \/ added.feed.array > Len(s)
               /\ \A a \in 1 .. Len(s) : Len(added.arrays[a]) = Len(s[a])
               /\ SameBelow(s, added.arrays, feed.array, feed.length)
<1> DEFINE array == s[feed.array]
           next  == feed.length + 1
<1>1. /\ s \in Seq(Seq(Element)) /\ Len(s) \in Nat
      /\ feed.array \in 1 .. Len(s) /\ feed.length \in Nat
      /\ array \in Seq(Element) /\ Len(array) >= 1 /\ Len(array) \in Nat
      /\ feed.length <= Len(array) /\ message \in Element
      /\ feed = [array |-> feed.array, length |-> feed.length]
    BY DEF Store, FeedOf, Element
<1>2. CASE next <= Len(array)
    <2> DEFINE t == [s EXCEPT ![feed.array][next] = message]
    <2>1. Add(feed, s, message) = [feed |-> [feed EXCEPT !.length = next], arrays |-> t]
        BY <1>2 DEF Add
    <2>2. /\ [array EXCEPT ![next] = message] \in Seq(Element)
          /\ Len([array EXCEPT ![next] = message]) = Len(array)
          /\ \A i \in 1 .. Len(array) :
                i # next => [array EXCEPT ![next] = message][i] = array[i]
        BY <1>1, <1>2, ExceptSeq
    <2>3. t = [s EXCEPT ![feed.array] = [array EXCEPT ![next] = message]]
        BY <1>1
    <2>4. /\ t \in Seq(Seq(Element)) /\ Len(t) = Len(s)
          /\ \A a \in 1 .. Len(s) :
                t[a] = IF a = feed.array THEN [array EXCEPT ![next] = message] ELSE s[a]
        BY <1>1, <2>2, <2>3, ExceptSeq
    <2>5. \A a \in 1 .. Len(s) : Len(t[a]) = Len(s[a])
        BY <2>2, <2>4
    <2>6. t \in Store
        BY <2>4, <2>5 DEF Store
    <2>7. [feed EXCEPT !.length = next] = [array |-> feed.array, length |-> next]
        <3>1. feed = [array |-> feed.array, length |-> feed.length]
            BY <1>1
        <3> HIDE DEF next
        <3>2. QED
            BY <3>1
    <2>8. [feed EXCEPT !.length = next] \in FeedOf(t)
        <3>1. feed.array \in 1 .. Len(t) /\ next \in Nat
            BY <1>1, <2>4
        <3>2. next <= Len(t[feed.array])
            BY <1>1, <1>2, <2>5
        <3> HIDE DEF t, next
        <3>3. QED
            BY <2>7, <3>1, <3>2 DEF FeedOf
    <2>9. SameBelow(s, t, feed.array, feed.length)
        <3>1. SUFFICES ASSUME NEW a \in 1 .. Len(s), NEW i \in 1 .. Len(s[a]),
                              a # feed.array \/ i <= feed.length
                       PROVE  t[a][i] = s[a][i]
            BY DEF SameBelow
        <3>2. CASE a = feed.array
            BY <1>1, <2>2, <2>4, <3>1, <3>2
        <3>3. CASE a # feed.array
            BY <2>4, <3>3
        <3>4. QED
            BY <3>2, <3>3
    <2>10. QED
        BY <1>1, <2>1, <2>4, <2>5, <2>6, <2>7, <2>8, <2>9
<1>3. CASE ~(next <= Len(array))
    <2> DEFINE new == [Grown(array) EXCEPT ![next] = message]
               t   == Append(s, new)
               f   == [array |-> Len(s) + 1, length |-> next]
    <2>1. Add(feed, s, message) = [feed |-> f, arrays |-> t]
        BY <1>3 DEF Add
    <2>2. /\ Grown(array) \in Seq(Element) /\ Len(Grown(array)) = 2 * Len(array)
        BY <1>1, GrownType
    <2>3. next \in 1 .. 2 * Len(array)
        BY <1>1
    <2>4. new \in Seq(Element) /\ Len(new) = 2 * Len(array)
        BY <1>1, <2>2, <2>3, ExceptSeq
    <2> HIDE DEF new
    <2>5. /\ t \in Store /\ Len(t) = Len(s) + 1 /\ t[Len(s) + 1] = new
          /\ \A a \in 1 .. Len(s) : t[a] = s[a]
        <3>1. Len(new) >= 1
            BY <1>1, <2>4
        <3>2. QED
            BY <2>4, <3>1, AppendedStore
    <2>6. f \in FeedOf(t)
        <3>1. f.array \in 1 .. Len(t) /\ next \in Nat
            BY <1>1, <2>5
        <3>2. next <= Len(t[f.array])
            BY <2>3, <2>4, <2>5
        <3> HIDE DEF t, next
        <3>3. QED
            BY <3>1, <3>2 DEF FeedOf
    <2>7. SameBelow(s, t, feed.array, feed.length)
        BY <2>5 DEF SameBelow
    <2>8. QED
        BY <1>1, <2>1, <2>5, <2>6, <2>7
<1>4. QED
    BY <1>2, <1>3

(* What feeds and snapshots refer to is still there in a store that grew.     *)
LEMMA FeedsStay ==
    ASSUME NEW s \in Store, NEW t \in Store, Len(s) <= Len(t),
           \A a \in 1 .. Len(s) : Len(t[a]) = Len(s[a])
    PROVE  FeedOf(s) \subseteq FeedOf(t)
<1>1. Len(s) \in Nat /\ Len(t) \in Nat
    BY DEF Store
<1>2. QED
    BY <1>1 DEF FeedOf

--------------------------------------------------------------------------------
(* Types.  A client waits for one thing at a time, and main for all clients.  *)

StoreInv ==
    /\ arrays \in Store
    /\ feeds \in [Clients -> FeedOf(arrays) \cup {None}]
    /\ statistics = [c \in Clients |-> statistics[c]]
    /\ \A c \in Clients : \A s \in statistics[c] : s.view \in FeedOf(arrays)

QuietInv ==
    \A c \in Clients :
        /\ client[c] # "analysis" => statistics[c] = {}
        /\ client[c] # "batch" => \A i \in Slots : batch[c][i] = Idle
        /\ client[c] # "ended" => main = "run"

RepetitionInv ==
    /\ main = "run" => repetition >= 1
    /\ main = "reset" => repetition < Repetitions

TypeInv == TypeOK /\ StoreInv /\ QuietInv /\ RepetitionInv

(* The feed a request is about, in the store with its array.                  *)
LEMMA FeedForType ==
    ASSUME TypeInv, NEW c \in Clients
    PROVE  /\ ArraysFor(c) \in Store
           /\ Len(arrays) \in Nat /\ Len(arrays) <= Len(ArraysFor(c))
           /\ FeedFor(c) \in FeedOf(ArraysFor(c))
           /\ \A a \in 1 .. Len(arrays) : ArraysFor(c)[a] = arrays[a]
           /\ feeds[c] = None => FeedFor(c).array = Len(arrays) + 1 /\ FeedFor(c).length = 0
<1>1. arrays \in Store /\ Len(arrays) \in Nat
    BY DEF TypeInv, StoreInv, Store
<1>2. CASE feeds[c] # None
    BY <1>1, <1>2 DEF TypeInv, StoreInv, FeedFor, ArraysFor
<1>3. CASE feeds[c] = None
    <2>1. /\ ArraysFor(c) = Append(arrays, EmptyArray)
          /\ FeedFor(c) = [array |-> Len(arrays) + 1, length |-> 0]
        BY <1>3 DEF ArraysFor, FeedFor, EmptyFeed
    <2>2. /\ ArraysFor(c) \in Store
          /\ Len(ArraysFor(c)) = Len(arrays) + 1
          /\ ArraysFor(c)[Len(arrays) + 1] = EmptyArray
          /\ \A a \in 1 .. Len(arrays) : ArraysFor(c)[a] = arrays[a]
        BY <1>1, <2>1, AppendedStore, EmptyArrayType
    <2>3. FeedFor(c) \in FeedOf(ArraysFor(c))
        BY <1>1, <2>1, <2>2, EmptyArrayType DEF FeedOf
    <2>4. QED
        BY <1>1, <2>1, <2>2, <2>3
<1>4. QED
    BY <1>2, <1>3

(* A post: the feed it makes, and what it leaves of the arrays.               *)
Posted(c) == Add(FeedFor(c), ArraysFor(c), <<repetition, FeedFor(c).length + 1>>)

(* Its feed fits its store, and elements below the feed's end stay.           *)
LEMMA PostedType ==
    ASSUME TypeInv, NEW c \in Clients
    PROVE  /\ Posted(c).arrays \in Store
           /\ Len(arrays) <= Len(Posted(c).arrays)
           /\ Posted(c).feed \in FeedOf(Posted(c).arrays)
           /\ Posted(c).feed.length = FeedFor(c).length + 1
           /\ \/ Posted(c).feed.array = FeedFor(c).array
              \/ Posted(c).feed.array > Len(arrays)
           /\ FeedOf(arrays) \subseteq FeedOf(Posted(c).arrays)
           /\ SameBelow(arrays, Posted(c).arrays, FeedFor(c).array, FeedFor(c).length)
<1>1. /\ ArraysFor(c) \in Store /\ FeedFor(c) \in FeedOf(ArraysFor(c))
      /\ Len(arrays) \in Nat /\ Len(arrays) <= Len(ArraysFor(c))
      /\ \A a \in 1 .. Len(arrays) : ArraysFor(c)[a] = arrays[a]
    BY FeedForType
<1>2. <<repetition, FeedFor(c).length + 1>> \in Nat \X Nat
    BY <1>1 DEF TypeInv, TypeOK, FeedOf
<1>3. /\ Posted(c).arrays \in Store
      /\ Len(ArraysFor(c)) <= Len(Posted(c).arrays)
      /\ Posted(c).feed \in FeedOf(Posted(c).arrays)
      /\ Posted(c).feed.length = FeedFor(c).length + 1
      /\ \/ Posted(c).feed.array = FeedFor(c).array
         \/ Posted(c).feed.array > Len(ArraysFor(c))
      /\ \A a \in 1 .. Len(ArraysFor(c)) : Len(Posted(c).arrays[a]) = Len(ArraysFor(c)[a])
      /\ SameBelow(ArraysFor(c), Posted(c).arrays, FeedFor(c).array, FeedFor(c).length)
    BY <1>1, <1>2, Added DEF Posted
<1>4. arrays \in Store /\ Len(ArraysFor(c)) \in Nat /\ Len(Posted(c).arrays) \in Nat
    BY <1>1, <1>3 DEF TypeInv, StoreInv, Store
<1>5. Posted(c).feed.array \in Nat
    BY <1>3, <1>4 DEF FeedOf
<1>6. FeedOf(arrays) \subseteq FeedOf(Posted(c).arrays)
    BY <1>1, <1>3, <1>4, FeedsStay
<1>7. SameBelow(arrays, Posted(c).arrays, FeedFor(c).array, FeedFor(c).length)
    <2>1. SUFFICES ASSUME NEW a \in 1 .. Len(arrays), NEW i \in 1 .. Len(arrays[a]),
                          a # FeedFor(c).array \/ i <= FeedFor(c).length
                   PROVE  Posted(c).arrays[a][i] = arrays[a][i]
        BY DEF SameBelow
    <2>2. a \in 1 .. Len(ArraysFor(c)) /\ ArraysFor(c)[a] = arrays[a]
        BY <1>1, <1>4
    <2>3. QED
        BY <1>3, <2>1, <2>2 DEF SameBelow
<1>8. QED
    BY <1>1, <1>3, <1>4, <1>5, <1>6, <1>7

(* The type invariant is inductive together with what is quiet: a client that *)
(* waits for something has nothing else under way, and resets wait for all.   *)
LEMMA TypeInvariant == Spec => []TypeInv
<1>1. Init => TypeInv
    <2>1. SUFFICES ASSUME Init PROVE TypeInv
        OBVIOUS
    <2>2. TypeOK
        BY <2>1, SizesArePositive DEF Init, TypeOK, Request, Idle
    <2>3. StoreInv
        <3>1. arrays \in Store
            BY <2>1, EmptySeq DEF Init, Store
        <3>2. QED
            BY <2>1, <3>1 DEF Init, StoreInv
    <2>4. QuietInv /\ RepetitionInv
        BY <2>1, SizesArePositive DEF Init, QuietInv, RepetitionInv
    <2>5. QED
        BY <2>2, <2>3, <2>4 DEF TypeInv
<1>2. TypeInv /\ [Next]_vars => TypeInv'
    <2> SUFFICES ASSUME TypeInv, [Next]_vars PROVE TypeInv'
        OBVIOUS
    <2> USE DEF TypeInv
    <2>1. ASSUME NEW c \in Clients, Post(c) PROVE TypeInv'
        <3>1. TypeOK'
            BY <2>1, SizesArePositive DEF Post, Begin, TypeOK, Feed
        <3>2. StoreInv'
            BY <2>1 DEF Post, Begin, StoreInv
        <3>3. QuietInv' /\ RepetitionInv'
            BY <2>1 DEF Post, Begin, QuietInv, RepetitionInv, TypeOK
        <3>4. QED
            BY <3>1, <3>2, <3>3
    <2>2. ASSUME NEW c \in Clients, AskStatistics(c) PROVE TypeInv'
        <3>1. TypeOK'
            BY <2>2, SizesArePositive DEF AskStatistics, Begin, TypeOK, Feed
        <3>2. StoreInv'
            BY <2>2 DEF AskStatistics, Begin, StoreInv
        <3>3. QuietInv' /\ RepetitionInv'
            BY <2>2 DEF AskStatistics, Begin, QuietInv, RepetitionInv, TypeOK
        <3>4. QED
            BY <3>1, <3>2, <3>3
    <2>3. ASSUME NEW c \in Clients, FetchFeeds(c) PROVE TypeInv'
        <3>1. TypeOK'
            BY <2>3, SizesArePositive DEF FetchFeeds, Begin, TypeOK, Feed, Request
        <3>2. StoreInv'
            BY <2>3 DEF FetchFeeds, Begin, StoreInv
        <3>3. QuietInv' /\ RepetitionInv'
            BY <2>3 DEF FetchFeeds, Begin, QuietInv, RepetitionInv, TypeOK
        <3>4. QED
            BY <3>1, <3>2, <3>3
    <2>4. ASSUME NEW c \in Clients, Collected(c) PROVE TypeInv'
        BY <2>4 DEF Collected, TypeOK, Feed, StoreInv, QuietInv, RepetitionInv, Request
    <2>5. ASSUME NEW c \in Clients, ClientEnds(c) PROVE TypeInv'
        BY <2>5 DEF ClientEnds, TypeOK, Feed, StoreInv, QuietInv, RepetitionInv
    <2>6. ASSUME NEW c \in Clients, MasterPost(c) PROVE TypeInv'
        <3>1. /\ arrays' = Posted(c).arrays
              /\ feeds' = [feeds EXCEPT ![c] = Posted(c).feed]
              /\ client' = [client EXCEPT ![c] = "next"]
              /\ client[c] = "post"
              /\ UNCHANGED <<main, repetition, caches, left, batch, statistics>>
            BY <2>6 DEF MasterPost, Posted
        <3>2. StoreInv'
            BY <3>1, PostedType DEF StoreInv
        <3>3. TypeOK'
            BY <3>1, <3>2 DEF TypeOK, StoreInv, Feed, FeedOf
        <3>4. QuietInv' /\ RepetitionInv'
            BY <3>1 DEF QuietInv, RepetitionInv, TypeOK
        <3>5. QED
            BY <3>2, <3>3, <3>4
    <2>7. ASSUME NEW c \in Clients, MasterStatistics(c) PROVE TypeInv'
        <3>1. StoreInv'
            <4> DEFINE taken == {[view |-> feeds[u], seen |-> Elements(feeds[u])] :
                                    u \in {v \in Clients : feeds[v] # None}}
            <4>1. statistics' = [statistics EXCEPT ![c] = taken] /\ UNCHANGED <<feeds, arrays>>
                BY <2>7 DEF MasterStatistics
            <4>2. \A s \in taken : s.view \in FeedOf(arrays)
                BY DEF StoreInv
            <4> HIDE DEF taken
            <4>3. QED
                BY <4>1, <4>2 DEF StoreInv
        <3>2. TypeOK'
            BY <2>7, <3>1 DEF MasterStatistics, TypeOK, StoreInv, Feed, FeedOf
        <3>3. QuietInv' /\ RepetitionInv'
            BY <2>7 DEF MasterStatistics, QuietInv, RepetitionInv, TypeOK
        <3>4. QED
            BY <3>1, <3>2, <3>3
    <2>8. ASSUME NEW c \in Clients, Analyzed(c) PROVE TypeInv'
        <3>1. TypeOK'
            BY <2>8, SizesArePositive DEF Analyzed, TypeOK, Feed
        <3>2. StoreInv'
            BY <2>8 DEF Analyzed, StoreInv, TypeOK
        <3>3. QuietInv' /\ RepetitionInv'
            BY <2>8 DEF Analyzed, StoreInv, QuietInv, RepetitionInv, TypeOK
        <3>4. QED
            BY <3>1, <3>2, <3>3
    <2>9. ASSUME NEW c \in Clients, NEW i \in Slots, CacheRequest(c, i) PROVE TypeInv'
        BY <2>9 DEF CacheRequest, TypeOK, Feed, StoreInv, QuietInv, RepetitionInv, Request, Idle
    <2>10. ASSUME NEW c \in Clients, NEW i \in Slots, MasterFeed(c, i) PROVE TypeInv'
        <3>1. /\ ArraysFor(c) \in Store
              /\ FeedFor(c) \in FeedOf(ArraysFor(c))
              /\ FeedOf(arrays) \subseteq FeedOf(ArraysFor(c))
            BY FeedForType, FeedsStay DEF StoreInv
        <3>2. StoreInv'
            BY <2>10, <3>1 DEF MasterFeed, StoreInv
        <3>3. batch' \in [Clients -> [Slots -> Request]]
            <4>1. batch[c][i] \in Request /\ batch[c][i].at = "master"
                BY <2>10 DEF MasterFeed, TypeOK
            <4>2. /\ batch[c][i] \in [at : {"cache", "master"}, cache : Caches]
                  /\ batch[c][i] # Idle
                BY <4>1 DEF Request, Idle
            <4>3. main = "run"
                BY <4>2 DEF QuietInv
            <4>4. FeedFor(c).length \in Nat /\ repetition \in 1 .. Repetitions
                BY <3>1, <4>3, SizesArePositive DEF FeedOf, TypeOK, RepetitionInv
            <4>5. QED
                BY <2>10, <4>2, <4>4 DEF MasterFeed, TypeOK, Request, Content
        <3>4. TypeOK'
            BY <2>10, <3>2, <3>3 DEF MasterFeed, TypeOK, StoreInv, Feed, FeedOf
        <3>5. QuietInv' /\ RepetitionInv'
            BY <2>10 DEF MasterFeed, QuietInv, RepetitionInv, TypeOK, Idle
        <3>6. QED
            BY <3>2, <3>4, <3>5
    <2>11. ASSUME NEW c \in Clients, NEW i \in Slots, CacheResponse(c, i) PROVE TypeInv'
        <3>1. batch[c][i] \in Request /\ batch[c][i].at = "back"
            BY <2>11 DEF CacheResponse, TypeOK
        <3>2. /\ batch[c][i] \in [at : {"back", "answered"}, cache : Caches, content : Content]
              /\ batch[c][i] # Idle
            BY <3>1 DEF Request, Idle
        <3>3. client[c] = "batch"
            BY <3>2 DEF QuietInv
        <3>4. TypeOK'
            <4>1. [batch[c][i] EXCEPT !.at = "answered"] \in Request
                BY <3>2 DEF Request
            <4>2. batch' = [batch EXCEPT ![c] = [batch[c] EXCEPT ![i] =
                                [batch[c][i] EXCEPT !.at = "answered"]]]
                BY <2>11 DEF CacheResponse
            <4>3. batch' \in [Clients -> [Slots -> Request]]
                BY <4>1, <4>2 DEF TypeOK
            <4>4. caches' \in [Caches -> [Clients -> Content \cup {None}]]
                BY <2>11, <3>2 DEF CacheResponse, TypeOK
            <4>5. QED
                BY <2>11, <4>3, <4>4 DEF CacheResponse, TypeOK, Feed
        <3>5. StoreInv' /\ RepetitionInv'
            BY <2>11 DEF CacheResponse, StoreInv, RepetitionInv
        <3>6. QuietInv'
            BY <2>11, <3>3 DEF CacheResponse, QuietInv, TypeOK
        <3>7. QED
            BY <3>4, <3>5, <3>6
    <2>12. ASSUME Reset PROVE TypeInv'
        <3>1. /\ arrays' \in Store
              /\ feeds' \in [Clients -> FeedOf(arrays') \cup {None}]
            BY <2>12, ResetEffect DEF TypeOK
        <3>2. \A c \in Clients : client[c] = "ended" /\ statistics[c] = {}
            BY <2>12 DEF Reset, QuietInv
        <3>3. TypeOK'
            <4>1. /\ feeds' \in [Clients -> Feed' \cup {None}]
                  /\ \A c \in Clients :
                        feeds'[c] # None => feeds'[c].length <= Len(arrays'[feeds'[c].array])
                BY <3>1 DEF FeedOf, Feed
            <4>2. QED
                BY <2>12, <3>2, <4>1, SizesArePositive DEF Reset, TypeOK, RepetitionInv
        <3>4. StoreInv'
            BY <2>12, <3>1, <3>2 DEF Reset, StoreInv
        <3>5. QuietInv'
            BY <2>12, <3>2 DEF Reset, QuietInv
        <3>6. repetition \in Nat
            BY DEF TypeOK
        <3>7. RepetitionInv'
            BY <2>12, <3>6 DEF Reset, RepetitionInv
        <3>8. QED
            BY <3>3, <3>4, <3>5, <3>7
    <2>13. ASSUME Joined PROVE TypeInv'
        BY <2>13, SizesArePositive DEF Joined, TypeOK, Feed, StoreInv, QuietInv, RepetitionInv
    <2>14. ASSUME UNCHANGED vars PROVE TypeInv'
        BY <2>14 DEF vars, TypeOK, Feed, StoreInv, QuietInv, RepetitionInv
    <2> HIDE DEF TypeInv
    <2>15. QED
        BY <2>1, <2>2, <2>3, <2>4, <2>5, <2>6, <2>7, <2>8, <2>9, <2>10, <2>11, <2>12, <2>13,
           <2>14 DEF Next, ClientStep, MasterStep, RequestStep
<1>3. QED
    BY <1>1, <1>2, PTL DEF Spec

(* The types of the chirper's feeds, caches and requests hold: a feed is      *)
(* never longer than the array FeedBuffer gave it.                            *)
THEOREM TypeCorrect == Spec => []TypeOK
<1>1. TypeInv => TypeOK
    BY DEF TypeInv
<1>2. QED
    BY <1>1, TypeInvariant, PTL

--------------------------------------------------------------------------------
(* Fetched feeds. *)

(* A step of one request leaves all others alone. *)
LEMMA OneRequest ==
    ASSUME NEW b \in [Clients -> [Slots -> Request]], NEW c \in Clients, NEW i \in Slots, NEW r
    PROVE  LET t == [b EXCEPT ![c][i] = r]
           IN  \A d \in Clients, j \in Slots :
                   t[d][j] = IF d = c /\ j = i THEN r ELSE b[d][j]
OBVIOUS

(* Cache.apply never puts a feed into the cache that the master no longer     *)
(* holds: while a fetch is under way its client does not post, and no reset   *)
(* comes, so the feed it fetched stays the current one.                       *)
THEOREM FetchCorrect == Spec => []FetchIsCurrent
<1>1. Init => FetchIsCurrent
    BY DEF Init, FetchIsCurrent, Idle
<1>2. TypeInv /\ FetchIsCurrent /\ [Next]_vars => FetchIsCurrent'
    <2> SUFFICES ASSUME TypeInv, FetchIsCurrent, [Next]_vars PROVE FetchIsCurrent'
        OBVIOUS
    <2> USE DEF FetchIsCurrent
    <2>1. batch \in [Clients -> [Slots -> Request]]
        BY DEF TypeInv, TypeOK
    <2>2. ASSUME NEW c \in Clients, ClientStep(c) PROVE FetchIsCurrent'
        BY <2>1, <2>2 DEF ClientStep, Post, AskStatistics, FetchFeeds, Collected, ClientEnds,
                          Begin, Idle
    <2>3. ASSUME NEW c \in Clients, MasterPost(c) PROVE FetchIsCurrent'
        <3>1. \A i \in Slots : batch[c][i] = Idle
            BY <2>3 DEF MasterPost, TypeInv, QuietInv
        <3>2. \A d \in Clients : d # c => feeds'[d] = feeds[d]
            BY <2>3 DEF MasterPost, TypeInv, StoreInv
        <3>3. UNCHANGED <<batch, repetition>>
            BY <2>3 DEF MasterPost
        <3>4. QED
            BY <3>1, <3>2, <3>3 DEF Idle
    <2>4. ASSUME NEW c \in Clients, MasterStatistics(c) \/ Analyzed(c) PROVE FetchIsCurrent'
        BY <2>4 DEF MasterStatistics, Analyzed
    <2>5. ASSUME NEW c \in Clients, NEW i \in Slots, CacheRequest(c, i) PROVE FetchIsCurrent'
        <3>1. PICK r : /\ batch' = [batch EXCEPT ![c][i] = r]
                       /\ r.at \in {"master", "answered"}
                       /\ UNCHANGED <<feeds, repetition>>
            <4>1. PICK clear \in BOOLEAN :
                      LET k    == batch[c][i].cache
                          kept == IF clear THEN [u \in Clients |-> None] ELSE caches[k]
                      IN  /\ batch' = [batch EXCEPT ![c][i] =
                                IF kept[c] = None
                                THEN [at |-> "master", cache |-> k]
                                ELSE [at |-> "answered", cache |-> k, content |-> kept[c]]]
                          /\ UNCHANGED <<feeds, repetition>>
                BY <2>5 DEF CacheRequest
            <4> DEFINE k    == batch[c][i].cache
                       kept == IF clear THEN [u \in Clients |-> None] ELSE caches[k]
            <4>2. CASE kept[c] = None
                <5> DEFINE r == [at |-> "master", cache |-> k]
                <5>1. batch' = [batch EXCEPT ![c][i] = r]
                    BY <4>1, <4>2
                <5>2. r.at \in {"master", "answered"} /\ UNCHANGED <<feeds, repetition>>
                    BY <4>1
                <5> HIDE DEF r
                <5>3. QED
                    BY <5>1, <5>2
            <4>3. CASE kept[c] # None
                <5> DEFINE r == [at |-> "answered", cache |-> k, content |-> kept[c]]
                <5>1. batch' = [batch EXCEPT ![c][i] = r]
                    BY <4>1, <4>3
                <5>2. r.at \in {"master", "answered"} /\ UNCHANGED <<feeds, repetition>>
                    BY <4>1
                <5> HIDE DEF r
                <5>3. QED
                    BY <5>1, <5>2
            <4>4. QED
                BY <4>2, <4>3
        <3>2. \A d \in Clients, j \in Slots :
                  batch'[d][j] = IF d = c /\ j = i THEN r ELSE batch[d][j]
            BY <2>1, <3>1, OneRequest
        <3>3. QED
            BY <3>1, <3>2
    <2>6. ASSUME NEW c \in Clients, NEW i \in Slots, CacheResponse(c, i) PROVE FetchIsCurrent'
        <3>1. UNCHANGED <<feeds, repetition>>
            BY <2>6 DEF CacheResponse
        <3> DEFINE r == [batch[c][i] EXCEPT !.at = "answered"]
        <3>2. batch' = [batch EXCEPT ![c][i] = r]
            BY <2>6 DEF CacheResponse
        <3>3. \A d \in Clients, j \in Slots :
                  batch'[d][j] = IF d = c /\ j = i THEN r ELSE batch[d][j]
            BY <2>1, <3>2, OneRequest
        <3>4. batch[c][i] \in Request /\ batch[c][i].at = "back"
            BY <2>1, <2>6 DEF CacheResponse
        <3>5. r.at = "answered"
            BY <3>4 DEF Request, Idle
        <3> HIDE DEF r
        <3>6. QED
            BY <3>1, <3>3, <3>5
    <2>7. ASSUME NEW c \in Clients, NEW i \in Slots, MasterFeed(c, i) PROVE FetchIsCurrent'
        <3>1. FeedFor(c) # None
            BY FeedForType, NoneAssumption DEF FeedOf
        <3>2. feeds' = [feeds EXCEPT ![c] = FeedFor(c)]
            BY <2>7 DEF MasterFeed
        <3>3. feeds'[c] = FeedFor(c) /\ \A d \in Clients : d # c => feeds'[d] = feeds[d]
            BY <3>2 DEF TypeInv, StoreInv
        <3>4. feeds[c] # None => feeds'[c] = feeds[c]
            BY <3>3 DEF FeedFor
        <3> DEFINE r == [at |-> "back", cache |-> batch[c][i].cache,
                         content |-> [of |-> repetition, length |-> FeedFor(c).length]]
        <3>5. batch' = [batch EXCEPT ![c][i] = r] /\ UNCHANGED repetition
            BY <2>7 DEF MasterFeed
        <3>6. \A d \in Clients, j \in Slots :
                  batch'[d][j] = IF d = c /\ j = i THEN r ELSE batch[d][j]
            BY <2>1, <3>5, OneRequest
        <3>7. r.content = [of |-> repetition, length |-> FeedFor(c).length]
            OBVIOUS
        <3> HIDE DEF r
        <3>8. SUFFICES ASSUME NEW d \in Clients, NEW j \in Slots, batch'[d][j].at = "back"
                       PROVE  /\ feeds'[d] # None
                              /\ batch'[d][j].content =
                                     [of |-> repetition, length |-> feeds'[d].length]
            BY <3>5
        <3>9. CASE d = c /\ j = i
            BY <3>1, <3>3, <3>6, <3>7, <3>9
        <3>10. CASE ~(d = c /\ j = i)
            <4>1. batch'[d][j] = batch[d][j]
                BY <3>6, <3>10
            <4>2. /\ feeds[d] # None
                  /\ batch[d][j].content = [of |-> repetition, length |-> feeds[d].length]
                BY <3>8, <4>1
            <4>3. feeds'[d] = feeds[d]
                BY <3>3, <3>4, <4>2
            <4>4. QED
                BY <4>1, <4>2, <4>3
        <3>11. QED
            BY <3>9, <3>10
    <2>8. ASSUME Reset PROVE FetchIsCurrent'
        BY <2>8 DEF Reset, TypeInv, QuietInv, Idle
    <2>9. ASSUME Joined \/ UNCHANGED vars PROVE FetchIsCurrent'
        BY <2>9 DEF Joined, vars
    <2> HIDE DEF FetchIsCurrent
    <2>10. QED
        BY <2>2, <2>3, <2>4, <2>5, <2>6, <2>7, <2>8, <2>9 DEF Next, MasterStep, RequestStep
<1>3. QED
    BY <1>1, <1>2, TypeInvariant, PTL DEF Spec

--------------------------------------------------------------------------------
(* Snapshots.  No two feeds share an array, so that an array is only written  *)
(* behind the end of the feed that stands in it, and so behind the end of     *)
(* every snapshot of that feed.                                               *)

OwnInv ==
    \A c, d \in Clients :
        c # d /\ feeds[c] # None /\ feeds[d] # None => feeds[c].array # feeds[d].array

ViewInv ==
    \A c, d \in Clients : \A s \in statistics[c] :
        feeds[d] # None /\ feeds[d].array = s.view.array => s.view.length <= feeds[d].length

SnapshotInv == OwnInv /\ ViewInv /\ SnapshotsHold

(* What a feed or a snapshot holds in a store.                                *)
ElementsIn(s, feed) == [i \in 1 .. feed.length |-> s[feed.array][i]]

(* It stays the same in a store that differs only behind its end.             *)
LEMMA SameElements ==
    ASSUME NEW s \in Store, NEW t, NEW grown, NEW limit, SameBelow(s, t, grown, limit),
           NEW feed \in FeedOf(s), feed.array = grown => feed.length <= limit,
           limit \in Nat
    PROVE  ElementsIn(t, feed) = ElementsIn(s, feed)
<1>1. feed.array \in 1 .. Len(s) /\ feed.length \in Nat /\ feed.length <= Len(s[feed.array])
    BY DEF FeedOf
<1>2. s[feed.array] \in Seq(Element) /\ Len(s[feed.array]) \in Nat
    BY <1>1 DEF Store
<1>3. \A i \in 1 .. feed.length : t[feed.array][i] = s[feed.array][i]
    BY <1>1, <1>2 DEF SameBelow
<1>4. QED
    BY <1>3 DEF ElementsIn

(* What the snapshots hold after a step that changes the arrays. *)
LEMMA SnapshotsStay ==
    ASSUME TypeInv, SnapshotsHold, UNCHANGED statistics,
           NEW grown, NEW limit \in Nat, SameBelow(arrays, arrays', grown, limit),
           \A c \in Clients : \A s \in statistics[c] :
               s.view.array = grown => s.view.length <= limit
    PROVE  SnapshotsHold'
<1>1. SUFFICES ASSUME NEW c \in Clients, NEW s \in statistics[c]
               PROVE  Elements(s.view)' = s.seen
    BY DEF SnapshotsHold
<1>2. arrays \in Store /\ s.view \in FeedOf(arrays)
    BY DEF TypeInv, StoreInv
<1>3. ElementsIn(arrays', s.view) = ElementsIn(arrays, s.view)
    BY <1>2, SameElements
<1>4. Elements(s.view) = s.seen
    BY DEF SnapshotsHold
<1>5. QED
    BY <1>3, <1>4 DEF ElementsIn, Elements

(* A snapshot of FeedBuffer goes on holding what it held when it was taken,   *)
(* outside the lock: posts only write behind its end, or into a new array.    *)
THEOREM SnapshotsCorrect == Spec => []SnapshotsHold
<1>1. Init => SnapshotInv
    BY DEF Init, SnapshotInv, OwnInv, ViewInv, SnapshotsHold
<1>2. TypeInv /\ SnapshotInv /\ [Next]_vars => SnapshotInv'
    <2> SUFFICES ASSUME TypeInv, SnapshotInv, [Next]_vars PROVE SnapshotInv'
        OBVIOUS
    <2> USE DEF SnapshotInv
    <2>1. ASSUME UNCHANGED <<feeds, arrays, statistics>> PROVE SnapshotInv'
        BY <2>1 DEF OwnInv, ViewInv, SnapshotsHold, Elements
    <2>2. /\ Len(arrays) \in Nat
          /\ \A c \in Clients : feeds[c] # None => feeds[c] \in FeedOf(arrays)
          /\ \A c \in Clients : \A s \in statistics[c] : s.view \in FeedOf(arrays)
        BY DEF TypeInv, StoreInv, Store
    <2>3. /\ \A c \in Clients : feeds[c] # None => feeds[c].array \in 1 .. Len(arrays)
          /\ \A c \in Clients : \A s \in statistics[c] :
                s.view.array \in 1 .. Len(arrays) /\ s.view.length \in Nat
        BY <2>2 DEF FeedOf
    <2>4. ASSUME NEW c \in Clients, MasterPost(c) PROVE SnapshotInv'
        <3>1. /\ arrays' = Posted(c).arrays
              /\ feeds' = [feeds EXCEPT ![c] = Posted(c).feed]
              /\ UNCHANGED statistics
            BY <2>4 DEF MasterPost, Posted
        <3>2. /\ feeds'[c] = Posted(c).feed
              /\ \A d \in Clients : d # c => feeds'[d] = feeds[d]
            BY <3>1 DEF TypeInv, StoreInv
        <3>3. /\ SameBelow(arrays, arrays', FeedFor(c).array, FeedFor(c).length)
              /\ feeds'[c].length = FeedFor(c).length + 1
              /\ feeds'[c].array = FeedFor(c).array \/ feeds'[c].array > Len(arrays)
              /\ FeedFor(c).length \in Nat /\ FeedFor(c).array \in Nat
            BY <3>1, <3>2, PostedType, FeedForType DEF FeedOf, Store
        <3>4. \/ feeds[c] # None /\ FeedFor(c) = feeds[c]
              \/ feeds[c] = None /\ FeedFor(c).array = Len(arrays) + 1
            BY FeedForType DEF FeedFor
        <3>5. \A d \in Clients : d # c /\ feeds[d] # None => feeds[d].array # FeedFor(c).array
            BY <2>2, <2>3, <3>4 DEF OwnInv
        <3>6. \A d \in Clients : \A s \in statistics[d] :
                  s.view.array = FeedFor(c).array => s.view.length <= FeedFor(c).length
            BY <2>2, <2>3, <3>4 DEF ViewInv
        <3>7. OwnInv'
            BY <2>2, <2>3, <3>2, <3>3, <3>5 DEF OwnInv
        <3>8. ViewInv'
            <4>1. SUFFICES ASSUME NEW d \in Clients, NEW e \in Clients, NEW s \in statistics[d],
                                  feeds'[e] # None, feeds'[e].array = s.view.array
                           PROVE  s.view.length <= feeds'[e].length
                BY <3>1 DEF ViewInv
            <4>2. CASE e = c
                <5>1. s.view.array = FeedFor(c).array
                    BY <2>2, <2>3, <3>3, <4>1, <4>2
                <5>2. s.view.length <= FeedFor(c).length /\ s.view.length \in Nat
                    BY <2>3, <3>6, <5>1
                <5>3. QED
                    BY <3>3, <4>2, <5>2
            <4>3. CASE e # c
                BY <3>2, <4>1, <4>3 DEF ViewInv
            <4>4. QED
                BY <4>2, <4>3
        <3>9. SnapshotsHold'
            BY <3>1, <3>3, <3>6, SnapshotsStay
        <3>10. QED
            BY <3>7, <3>8, <3>9
    <2>5. ASSUME NEW c \in Clients, NEW i \in Slots, MasterFeed(c, i) PROVE SnapshotInv'
        <3>1. /\ arrays' = ArraysFor(c)
              /\ feeds' = [feeds EXCEPT ![c] = FeedFor(c)]
              /\ UNCHANGED statistics
            BY <2>5 DEF MasterFeed
        <3>2. /\ feeds'[c] = FeedFor(c)
              /\ \A d \in Clients : d # c => feeds'[d] = feeds[d]
            BY <3>1 DEF TypeInv, StoreInv
        <3>3. \/ feeds[c] # None /\ FeedFor(c) = feeds[c]
              \/ feeds[c] = None /\ FeedFor(c).array = Len(arrays) + 1
            BY FeedForType DEF FeedFor
        <3>4. \A d \in Clients : d # c /\ feeds[d] # None => feeds[d].array # FeedFor(c).array
            BY <2>2, <2>3, <3>3 DEF OwnInv
        <3>5. OwnInv'
            BY <3>2, <3>4 DEF OwnInv
        <3>6. ViewInv'
            <4>1. SUFFICES ASSUME NEW d \in Clients, NEW e \in Clients, NEW s \in statistics[d],
                                  feeds'[e] # None, feeds'[e].array = s.view.array
                           PROVE  s.view.length <= feeds'[e].length
                BY <3>1 DEF ViewInv
            <4>2. feeds[e] # None /\ feeds'[e] = feeds[e]
                BY <2>2, <2>3, <3>2, <3>3, <4>1
            <4>3. QED
                BY <4>1, <4>2 DEF ViewInv
        <3>7. SameBelow(arrays, arrays', Len(arrays) + 1, 0)
            BY <3>1, FeedForType DEF SameBelow
        <3>8. SnapshotsHold'
            BY <2>2, <2>3, <3>1, <3>7, SnapshotsStay
        <3>9. QED
            BY <3>5, <3>6, <3>8
    <2>6. ASSUME NEW c \in Clients, MasterStatistics(c) PROVE SnapshotInv'
        <3> DEFINE taken == {[view |-> feeds[u], seen |-> Elements(feeds[u])] :
                                u \in {v \in Clients : feeds[v] # None}}
        <3>1. statistics' = [statistics EXCEPT ![c] = taken] /\ UNCHANGED <<feeds, arrays>>
            BY <2>6 DEF MasterStatistics
        <3>2. \A s \in taken :
                  \E u \in Clients :
                      feeds[u] # None /\ s.view = feeds[u] /\ s.seen = Elements(feeds[u])
            OBVIOUS
        <3> HIDE DEF taken
        <3>3. statistics'[c] = taken /\ \A d \in Clients : d # c => statistics'[d] = statistics[d]
            BY <3>1 DEF TypeInv, StoreInv
        <3>4. \A f : Elements(f)' = Elements(f)
            BY <3>1 DEF Elements
        <3>5. \A s \in taken :
                  /\ Elements(s.view) = s.seen
                  /\ \A d \in Clients : feeds[d] # None /\ feeds[d].array = s.view.array
                                           => s.view.length <= feeds[d].length
            <4>1. SUFFICES ASSUME NEW s \in taken
                           PROVE  /\ Elements(s.view) = s.seen
                                  /\ \A d \in Clients :
                                        feeds[d] # None /\ feeds[d].array = s.view.array
                                            => s.view.length <= feeds[d].length
                OBVIOUS
            <4>2. PICK u \in Clients :
                      feeds[u] # None /\ s.view = feeds[u] /\ s.seen = Elements(feeds[u])
                BY <3>2
            <4>3. \A d \in Clients :
                      feeds[d] # None /\ feeds[d].array = s.view.array => d = u
                BY <4>2 DEF OwnInv
            <4>4. s.view.length \in Nat
                BY <2>2, <4>2 DEF FeedOf
            <4>5. QED
                BY <4>2, <4>3, <4>4
        <3>6. OwnInv'
            BY <3>1 DEF OwnInv
        <3>7. ViewInv'
            BY <3>1, <3>3, <3>5 DEF ViewInv
        <3>8. SnapshotsHold'
            BY <3>3, <3>4, <3>5 DEF SnapshotsHold
        <3>9. QED
            BY <3>6, <3>7, <3>8
    <2>7. ASSUME NEW c \in Clients, Analyzed(c) PROVE SnapshotInv'
        <3>1. /\ UNCHANGED <<feeds, arrays>>
              /\ \A d \in Clients : statistics'[d] = IF d = c THEN {} ELSE statistics[d]
            BY <2>7 DEF Analyzed, TypeInv, StoreInv
        <3>2. QED
            BY <3>1 DEF OwnInv, ViewInv, SnapshotsHold, Elements
    <2>8. ASSUME Reset PROVE SnapshotInv'
        <3>1. \A c \in Clients : statistics[c] = {}
            BY <2>8 DEF Reset, TypeInv, QuietInv
        <3>2. statistics' = statistics
            BY <2>8 DEF Reset
        <3>3. OwnInv'
            BY <2>8, ResetEffect DEF OwnInv, TypeInv, TypeOK
        <3>4. QED
            BY <3>1, <3>2, <3>3 DEF ViewInv, SnapshotsHold
    <2>9. ASSUME NEW c \in Clients, ClientStep(c) PROVE SnapshotInv'
        BY <2>1, <2>9 DEF ClientStep, Post, AskStatistics, FetchFeeds, Collected, ClientEnds
    <2>10. ASSUME NEW c \in Clients, NEW i \in Slots, CacheRequest(c, i) \/ CacheResponse(c, i)
           PROVE  SnapshotInv'
        BY <2>1, <2>10 DEF CacheRequest, CacheResponse
    <2>11. ASSUME Joined \/ UNCHANGED vars PROVE SnapshotInv'
        BY <2>1, <2>11 DEF Joined, vars
    <2> HIDE DEF SnapshotInv
    <2>12. QED
        BY <2>4, <2>5, <2>6, <2>7, <2>8, <2>9, <2>10, <2>11 DEF Next, MasterStep, RequestStep
<1>3. SnapshotInv => SnapshotsHold
    BY DEF SnapshotInv
<1>4. QED
    BY <1>1, <1>2, <1>3, TypeInvariant, PTL DEF Spec

================================================================================
