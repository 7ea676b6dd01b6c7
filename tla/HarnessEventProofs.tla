--------------------------- MODULE HarnessEventProofs --------------------------
(******************************************************************************)
(* Who hears of which event of Harness, and when: the lists of                *)
(* EventDispatcher.Builder, the order in which plugins are set up and torn    *)
(* down, and the protocol of Plugin.java that the harness implements.         *)
(******************************************************************************)
EXTENDS Harness, FiniteSetTheorems, SequenceTheorems, TLAPS

(* What pc may be: an event being dispatched or the call to be made.          *)
Labels == Events \cup Calls \cup {"end", "crash"}

(* The listeners that have yet to hear of the event, in no order.             *)
Pending == {due[i] : i \in 1 .. Len(due)}

(* The listeners that wait for an event when its dispatch begins.             *)
Waiting(label) ==
    IF label \notin Events THEN {} ELSE IF label \in PolicyEvents THEN Listener ELSE Plugin

(* The orders in which EventDispatcher.Builder leaves listeners.              *)
Ascending(s)  == \A i, j \in 1 .. Len(s) : i < j => s[i] < s[j]
Descending(s) == \A i, j \in 1 .. Len(s) : i < j => s[i] > s[j]
Distinct(s)   == \A i, j \in 1 .. Len(s) : i # j => s[i] # s[j]

(* With up to four plugins, whose Map keeps the order of the command line,    *)
(* set up events go through the listeners forwards and tear down events       *)
(* backwards.                                                                 *)
InOrder(event, s) ==
    NumPlugins <= 4 => IF event \in TearDownEvents THEN Descending(s) ELSE Ascending(s)

(* The policy is the first to hear of afterBenchmarkSetUp, the last to hear   *)
(* of beforeOperationTearDown, and hears of nothing else.                     *)
BuiltInPlace(event, s) ==
    /\ event = "afterBenchmarkSetUp" => \A i \in 1 .. Len(s) : s[i] = BuiltIn => i = 1
    /\ event = "beforeOperationTearDown" => s[Len(s)] = BuiltIn
    /\ event \notin PolicyEvents => \A i \in 1 .. Len(s) : s[i] # BuiltIn

(* What the order amounts to: who has heard of an event is a prefix of the    *)
(* command line while setting up, and a suffix while tearing down.            *)
InTurn ==
    NumPlugins <= 4 /\ pc \in Events =>
        \A p, q \in Plugin : p < q =>
            IF pc \in TearDownEvents THEN q \in Pending => p \in Pending
                                    ELSE p \in Pending => q \in Pending

(* The listeners a notify method has left are always a well-formed rest of    *)
(* the list that EventDispatcher.Builder made.                                *)
DispatchInv ==
    /\ order \in RegistrationOrders
    /\ pc \in Labels
    /\ due \in Seq(Listener)
    /\ pc \in Events <=> due # <<>>
    /\ Distinct(due)
    /\ InOrder(pc, due)
    /\ BuiltInPlace(pc, due)
    /\ InTurn

(* The registration order of loadExternalPlugins has every plugin once, and   *)
(* is the order of the command line as long as there are at most four.        *)
LEMMA OrderProperties ==
    ASSUME order \in RegistrationOrders
    PROVE  /\ order \in Seq(Plugin) /\ Len(order) = NumPlugins
           /\ Distinct(order)
           /\ \A p \in Plugin : \E i \in Plugin : order[i] = p
           /\ NumPlugins <= 4 => \A i \in Plugin : order[i] = i
<1>1. NumPlugins \in Nat /\ order \in [1 .. NumPlugins -> Plugin]
    BY HarnessAssumption DEF RegistrationOrders, Plugin
<1>2. order \in Seq(Plugin) /\ Len(order) = NumPlugins
    BY <1>1, SeqDef
<1>3. \A i, j \in Plugin : order[i] = order[j] => i = j
    BY DEF RegistrationOrders
<1>4. order \in Injection(Plugin, Plugin)
    BY <1>1, <1>3 DEF Injection, IsInjective, Plugin
<1>5. IsFiniteSet(Plugin)
    BY <1>1, FS_Interval DEF Plugin
<1>6. order \in Surjection(Plugin, Plugin)
    BY <1>4, <1>5, FS_Injection
<1>7. \A p \in Plugin : \E i \in Plugin : order[i] = p
    BY <1>6 DEF Surjection
<1>8. NumPlugins <= 4 => \A i \in Plugin : order[i] = i
    BY DEF RegistrationOrders
<1>9. QED
    BY <1>2, <1>3, <1>7, <1>8 DEF Distinct, Plugin

(* What Reverse returns: the elements of tear down lists, prepended one by    *)
(* one by withPlugin.                                                         *)
LEMMA ReverseProperties ==
    ASSUME NEW S, NEW s \in Seq(S)
    PROVE  /\ Reverse(s) \in Seq(S) /\ Len(Reverse(s)) = Len(s)
           /\ \A i \in 1 .. Len(s) : Reverse(s)[i] = s[Len(s) - i + 1]
<1>1. Len(s) \in Nat /\ \A i \in 1 .. Len(s) : s[Len(s) - i + 1] \in S
    OBVIOUS
<1>2. Reverse(s) \in [1 .. Len(s) -> S]
    BY <1>1 DEF Reverse
<1>3. Reverse(s) \in Seq(S) /\ Len(Reverse(s)) = Len(s)
    BY <1>1, <1>2, SeqDef
<1>4. QED
    BY <1>1, <1>3 DEF Reverse

(* The lists that EventDispatcher.Builder makes: every listener of the event  *)
(* exactly once, in the order of its kind, the policy in its place.           *)
LEMMA ListenersProperties ==
    ASSUME order \in RegistrationOrders, NEW event \in Events
    PROVE  /\ Listeners(event) \in Seq(Listener) /\ Listeners(event) # <<>>
           /\ Distinct(Listeners(event))
           /\ {Listeners(event)[i] : i \in 1 .. Len(Listeners(event))} = Waiting(event)
           /\ InOrder(event, Listeners(event))
           /\ BuiltInPlace(event, Listeners(event))
<1> DEFINE registered == IF event \in PolicyEvents THEN <<BuiltIn>> \o order ELSE order
           n == Len(registered)
           elements(s) == {s[i] : i \in 1 .. Len(s)}
<1>1. /\ order \in Seq(Plugin) /\ Len(order) = NumPlugins
      /\ Distinct(order)
      /\ \A p \in Plugin : \E i \in Plugin : order[i] = p
      /\ NumPlugins <= 4 => \A i \in Plugin : order[i] = i
    BY OrderProperties
<1>2. NumPlugins \in Nat \ {0} /\ Plugin \subseteq Listener /\ BuiltIn \in Listener
    BY HarnessAssumption DEF Plugin, Listener, BuiltIn
<1>3. /\ order \in Seq(Listener)
      /\ \A i \in 1 .. NumPlugins : order[i] \in 1 .. NumPlugins /\ order[i] # BuiltIn
    <2>1. order \in Seq(Listener)
        BY <1>1, <1>2, SeqMonotonic
    <2>2. \A i \in 1 .. NumPlugins : order[i] \in Plugin
        BY <1>1, ElementOfSeq
    <2>3. QED
        BY <1>2, <2>1, <2>2 DEF Plugin, BuiltIn
<1>4. /\ registered \in Seq(Listener) /\ n \in Nat \ {0}
      /\ Distinct(registered)
      /\ elements(registered) = Waiting(event)
      /\ NumPlugins <= 4 => Ascending(registered)
      /\ event \in PolicyEvents => \A i \in 1 .. n : registered[i] = BuiltIn <=> i = 1
      /\ event \notin PolicyEvents => \A i \in 1 .. n : registered[i] # BuiltIn
    <2>1. CASE event \in PolicyEvents
        <3>1. /\ registered \in Seq(Listener) /\ n = 1 + NumPlugins
              /\ \A i \in 1 .. 1 + NumPlugins :
                    registered[i] = IF i = 1 THEN BuiltIn ELSE order[i - 1]
            <4>1. /\ <<BuiltIn>> \in Seq(Listener)
                  /\ Len(<<BuiltIn>>) = 1
                  /\ <<BuiltIn>>[1] = BuiltIn
                BY <1>2
            <4>2. registered = <<BuiltIn>> \o order
                BY <2>1
            <4> HIDE DEF registered
            <4>3. QED
                <5>1. /\ registered \in Seq(Listener) /\ n = Len(<<BuiltIn>>) + Len(order)
                      /\ \A i \in 1 .. Len(<<BuiltIn>>) + Len(order) : registered[i] =
                            IF i <= Len(<<BuiltIn>>) THEN <<BuiltIn>>[i]
                                                     ELSE order[i - Len(<<BuiltIn>>)]
                    BY <1>3, <4>1, <4>2, ConcatProperties
                <5>2. n = 1 + NumPlugins
                    BY <1>1, <4>1, <5>1
                <5>3. ASSUME NEW i \in 1 .. 1 + NumPlugins
                      PROVE  registered[i] = IF i = 1 THEN BuiltIn ELSE order[i - 1]
                    <6>1. registered[i] = IF i <= 1 THEN <<BuiltIn>>[i] ELSE order[i - 1]
                        BY <1>1, <4>1, <5>1, <5>3
                    <6>2. QED
                        BY <1>2, <4>1, <5>3, <6>1
                <5>4. QED
                    BY <5>1, <5>2, <5>3
        <3> HIDE DEF registered
        <3>2. Distinct(registered)
            <4>1. SUFFICES ASSUME NEW i \in 1 .. n, NEW j \in 1 .. n, i < j
                           PROVE  registered[i] # registered[j]
                BY <3>1 DEF Distinct
            <4>2. j - 1 \in 1 .. NumPlugins /\ registered[j] = order[j - 1]
                BY <1>2, <3>1, <4>1
            <4>3. CASE i = 1
                BY <1>3, <3>1, <4>2, <4>3
            <4>4. CASE i # 1
                <5>1. i - 1 \in 1 .. NumPlugins /\ registered[i] = order[i - 1] /\ i - 1 # j - 1
                    BY <1>2, <3>1, <4>1, <4>4
                <5>2. QED
                    BY <1>1, <4>2, <5>1 DEF Distinct
            <4>5. QED
                BY <4>3, <4>4
        <3>3. \A i \in 1 .. n : registered[i] = BuiltIn <=> i = 1
            <4>1. SUFFICES ASSUME NEW i \in 1 .. n, i # 1 PROVE registered[i] # BuiltIn
                BY <1>2, <3>1
            <4>2. i - 1 \in 1 .. NumPlugins /\ registered[i] = order[i - 1]
                BY <1>2, <3>1, <4>1
            <4>3. QED
                BY <1>3, <4>2
        <3>4. NumPlugins <= 4 => Ascending(registered)
            <4>1. SUFFICES ASSUME NumPlugins <= 4, NEW i \in 1 .. n PROVE registered[i] = i - 1
                BY <1>2, <3>1 DEF Ascending
            <4>2. CASE i = 1
                BY <1>2, <3>1, <4>2 DEF BuiltIn
            <4>3. CASE i # 1
                <5>1. i - 1 \in Plugin /\ registered[i] = order[i - 1]
                    BY <1>2, <3>1, <4>1, <4>3 DEF Plugin
                <5>2. QED
                    BY <1>1, <4>1, <5>1
            <4>4. QED
                BY <4>2, <4>3
        <3>5. elements(registered) = Listener
            <4>1. elements(registered) \subseteq Listener
                BY <3>1
            <4>2. ASSUME NEW l \in Listener PROVE l \in elements(registered)
                <5>1. CASE l = BuiltIn
                    BY <1>2, <3>1, <5>1
                <5>2. CASE l # BuiltIn
                    <6>1. PICK i \in Plugin : order[i] = l
                        BY <1>1, <1>2, <5>2 DEF Listener, Plugin, BuiltIn
                    <6>2. i + 1 \in 1 .. n /\ registered[i + 1] = l
                        BY <1>2, <3>1, <6>1 DEF Plugin
                    <6>3. QED
                        BY <6>2
                <5>3. QED
                    BY <5>1, <5>2
            <4>3. QED
                BY <4>1, <4>2
        <3>6. QED
            BY <1>2, <2>1, <3>1, <3>2, <3>3, <3>4, <3>5 DEF Waiting
    <2>2. CASE event \notin PolicyEvents
        <3>1. registered = order
            BY <2>2
        <3>2. elements(order) = Plugin
            <4>1. elements(order) \subseteq Plugin
                BY <1>1
            <4>2. Plugin \subseteq elements(order)
                BY <1>1 DEF Plugin
            <4>3. QED
                BY <4>1, <4>2
        <3>3. NumPlugins <= 4 => Ascending(order)
            BY <1>1, <1>2 DEF Ascending, Plugin
        <3>4. QED
            <4>1. Waiting(event) = Plugin
                BY <2>2 DEF Waiting
            <4>2. n = NumPlugins
                BY <1>1, <3>1
            <4>3. elements(registered) = Plugin
                BY <3>1, <3>2
            <4>4. registered \in Seq(Listener) /\ Distinct(registered)
                BY <1>1, <1>3, <3>1
            <4>5. NumPlugins <= 4 => Ascending(registered)
                BY <3>1, <3>3
            <4>6. \A i \in 1 .. n : registered[i] # BuiltIn
                BY <1>3, <3>1, <4>2
            <4> HIDE DEF registered, n, elements
            <4>7. QED
                BY <1>2, <2>2, <4>1, <4>2, <4>3, <4>4, <4>5, <4>6
    <2>3. QED
        BY <2>1, <2>2
<1>5. Listeners(event) = IF event \in TearDownEvents THEN Reverse(registered) ELSE registered
    BY DEF Listeners
<1> HIDE DEF registered
<1>6. CASE event \in TearDownEvents
    <2> DEFINE s == Reverse(registered)
    <2>1. /\ s \in Seq(Listener) /\ Len(s) = n
          /\ \A i \in 1 .. n : s[i] = registered[n - i + 1]
        BY <1>4, ReverseProperties
    <2>2. Listeners(event) = s
        BY <1>5, <1>6
    <2> HIDE DEF s
    <2>3. n \in Nat \ {0}
        BY <1>4
    <2>4. Distinct(s)
        <3>1. SUFFICES ASSUME NEW i \in 1 .. n, NEW j \in 1 .. n, i # j PROVE s[i] # s[j]
            BY <2>1 DEF Distinct
        <3>2. n - i + 1 \in 1 .. n /\ n - j + 1 \in 1 .. n /\ n - i + 1 # n - j + 1
            BY <2>3, <3>1
        <3>3. s[i] = registered[n - i + 1] /\ s[j] = registered[n - j + 1]
            BY <2>1, <3>1
        <3>4. registered[n - i + 1] # registered[n - j + 1]
            BY <1>4, <3>2 DEF Distinct
        <3>5. QED
            BY <3>3, <3>4
    <2>5. elements(s) = elements(registered)
        <3>1. \A i \in 1 .. n : n - i + 1 \in 1 .. n /\ n - (n - i + 1) + 1 = i
            BY <2>3
        <3>2. \A i \in 1 .. n : s[i] = registered[n - i + 1]
            BY <2>1
        <3>3. \A i \in 1 .. n : registered[i] = s[n - i + 1]
            BY <3>1, <3>2
        <3>4. elements(s) \subseteq elements(registered)
            BY <2>1, <3>1, <3>2
        <3>5. elements(registered) \subseteq elements(s)
            BY <2>1, <3>1, <3>3
        <3>6. QED
            BY <3>4, <3>5
    <2>6. NumPlugins <= 4 => Descending(s)
        <3>1. SUFFICES ASSUME Ascending(registered), NEW i \in 1 .. n, NEW j \in 1 .. n, i < j
                       PROVE  s[i] > s[j]
            BY <1>4, <2>1 DEF Descending
        <3>2. n - i + 1 \in 1 .. n /\ n - j + 1 \in 1 .. n /\ n - j + 1 < n - i + 1
            BY <2>3, <3>1
        <3>3. s[i] = registered[n - i + 1] /\ s[j] = registered[n - j + 1]
            BY <2>1, <3>1
        <3>4. QED
            BY <3>1, <3>2, <3>3 DEF Ascending
    <2>7. event = "beforeOperationTearDown" => s[Len(s)] = BuiltIn
        BY <1>4, <2>1 DEF PolicyEvents
    <2>8. event # "afterBenchmarkSetUp"
        BY <1>6 DEF TearDownEvents
    <2>9. s # <<>>
        BY <1>4, <2>1
    <2>10. event \notin PolicyEvents => \A i \in 1 .. n : s[i] # BuiltIn
        BY <1>4, <2>1
    <2>11. BuiltInPlace(event, s)
        BY <2>1, <2>7, <2>8, <2>10 DEF BuiltInPlace
    <2>12. InOrder(event, s)
        BY <1>6, <2>6 DEF InOrder
    <2>13. elements(s) = Waiting(event)
        BY <1>4, <2>5
    <2> HIDE DEF elements
    <2>14. QED
        BY <2>1, <2>2, <2>4, <2>9, <2>11, <2>12, <2>13 DEF elements
<1>7. CASE event \notin TearDownEvents
    <2>1. Listeners(event) = registered
        BY <1>5, <1>7
    <2>2. event # "beforeOperationTearDown"
        BY <1>7 DEF TearDownEvents
    <2>3. registered # <<>>
        BY <1>4
    <2>4. QED
        <3>1. BuiltInPlace(event, registered)
            <4>1. event = "afterBenchmarkSetUp" => event \in PolicyEvents
                BY DEF PolicyEvents
            <4>2. QED
                BY <1>4, <2>2, <4>1 DEF BuiltInPlace
        <3>2. QED
            BY <1>4, <1>7, <2>1, <2>3, <3>1 DEF InOrder
<1>8. QED
    BY <1>6, <1>7

(* Moving on to the next listener removes one of them and keeps the order of  *)
(* the others.                                                                *)
LEMMA TailProperties ==
    ASSUME NEW s \in Seq(Listener), s # <<>>, Distinct(s)
    PROVE  /\ Tail(s) \in Seq(Listener) /\ Len(s) \in Nat \ {0} /\ Len(Tail(s)) = Len(s) - 1
           /\ Head(s) = s[1]
           /\ \A i \in 1 .. Len(Tail(s)) : Tail(s)[i] = s[i + 1]
           /\ Distinct(Tail(s))
           /\ {Tail(s)[i] : i \in 1 .. Len(Tail(s))} = {s[i] : i \in 1 .. Len(s)} \ {Head(s)}
           /\ Ascending(s) => Ascending(Tail(s))
           /\ Descending(s) => Descending(Tail(s))
<1>1. /\ Tail(s) \in Seq(Listener) /\ Len(s) \in Nat \ {0} /\ Len(Tail(s)) = Len(s) - 1
      /\ \A i \in 1 .. Len(Tail(s)) : Tail(s)[i] = s[i + 1]
    BY HeadTailProperties, EmptySeq
<1>2. Head(s) = s[1]
    OBVIOUS
<1> DEFINE t == Tail(s)
           n == Len(s)
<1>3. /\ n \in Nat \ {0} /\ Len(t) = n - 1
      /\ \A i \in 1 .. n - 1 : i + 1 \in 1 .. n /\ t[i] = s[i + 1]
    BY <1>1
<1> HIDE DEF t
<1>4. Distinct(t)
    <2>1. SUFFICES ASSUME NEW i \in 1 .. n - 1, NEW j \in 1 .. n - 1, i # j PROVE t[i] # t[j]
        BY <1>3 DEF Distinct
    <2>2. i + 1 \in 1 .. n /\ j + 1 \in 1 .. n /\ i + 1 # j + 1
        BY <1>3, <2>1
    <2>3. QED
        BY <1>3, <2>1, <2>2 DEF Distinct
<1>5. {t[i] : i \in 1 .. n - 1} = {s[i] : i \in 1 .. n} \ {s[1]}
    <2>1. ASSUME NEW i \in 1 .. n - 1 PROVE t[i] \in {s[j] : j \in 1 .. n} /\ t[i] # s[1]
        <3>1. i + 1 \in 1 .. n /\ 1 \in 1 .. n /\ i + 1 # 1
            BY <1>3, <2>1
        <3>2. QED
            BY <1>3, <2>1, <3>1 DEF Distinct
    <2>2. ASSUME NEW i \in 1 .. n, s[i] # s[1] PROVE s[i] \in {t[j] : j \in 1 .. n - 1}
        <3>1. i - 1 \in 1 .. n - 1 /\ (i - 1) + 1 = i
            BY <1>3, <2>2
        <3>2. t[i - 1] = s[i]
            BY <1>3, <3>1
        <3>3. QED
            BY <3>1, <3>2
    <2>3. QED
        BY <2>1, <2>2
<1>6. Ascending(s) => Ascending(t)
    <2>1. SUFFICES ASSUME Ascending(s), NEW i \in 1 .. n - 1, NEW j \in 1 .. n - 1, i < j
                   PROVE  t[i] < t[j]
        BY <1>3 DEF Ascending
    <2>2. i + 1 \in 1 .. n /\ j + 1 \in 1 .. n /\ i + 1 < j + 1
        BY <1>3, <2>1
    <2>3. QED
        BY <1>3, <2>1, <2>2 DEF Ascending
<1>7. Descending(s) => Descending(t)
    <2>1. SUFFICES ASSUME Descending(s), NEW i \in 1 .. n - 1, NEW j \in 1 .. n - 1, i < j
                   PROVE  t[i] > t[j]
        BY <1>3 DEF Descending
    <2>2. i + 1 \in 1 .. n /\ j + 1 \in 1 .. n /\ i + 1 < j + 1
        BY <1>3, <2>1
    <2>3. QED
        BY <1>3, <2>1, <2>2 DEF Descending
<1>8. QED
    BY <1>1, <1>2, <1>3, <1>4, <1>5, <1>6, <1>7 DEF t

(* When control reaches a label, all listeners of the event there are         *)
(* pending.                                                                   *)
LEMMA EnterProperties ==
    ASSUME order \in RegistrationOrders, UNCHANGED order, NEW label \in Labels, Enter(label)
    PROVE  DispatchInv' /\ pc' = label /\ Pending' = Waiting(label)
<1>1. pc' = label /\ due' = Listeners(label) /\ order' \in RegistrationOrders
    BY DEF Enter
<1>2. CASE label \in Events
    <2>1. Pending' = Waiting(label)
        BY <1>1, <1>2, ListenersProperties DEF Pending
    <2>2. InTurn'
        <3>1. Plugin \subseteq Pending'
            BY <1>2, <2>1, HarnessAssumption DEF Waiting, Plugin, Listener
        <3>2. QED
            BY <3>1 DEF InTurn
    <2>3. QED
        BY <1>1, <1>2, <2>1, <2>2, ListenersProperties DEF DispatchInv
<1>3. CASE label \notin Events
    <2> DEFINE empty == <<>>
    <2>1. Listeners(label) = empty
        <3>1. label \notin TearDownEvents
            BY <1>3 DEF Events, ProtocolEvents
        <3>2. QED
            BY <1>3, <3>1, Zenon DEF Listeners
    <2>2. due' = <<>> /\ Len(<<>>) = 0 /\ <<>> \in Seq(Listener)
        BY <1>1, <2>1, EmptySeq
    <2>3. Distinct(due') /\ Ascending(due') /\ Descending(due') /\ Pending' = {}
        BY <2>2 DEF Distinct, Ascending, Descending, Pending
    <2>4. BuiltInPlace(pc', due')
        BY <1>1, <1>3, <2>2
        DEF BuiltInPlace, Events, ProtocolEvents, SetUpEvents, TearDownEvents
    <2>5. QED
        BY <1>1, <1>3, <2>2, <2>3, <2>4 DEF DispatchInv, Waiting, InOrder, InTurn
<1>4. QED
    BY <1>2, <1>3

(* A step of a notify method in terms of the pending listeners: one of them,  *)
(* the next in the order, hears of the event; then control stays, goes on     *)
(* after the last one, or leaves for the handler if a plugin has thrown.      *)
LEMMA NotifyProperties ==
    ASSUME DispatchInv, UNCHANGED order, NEW event \in Events, NEW next \in Labels,
           NEW handler \in Labels, Notify(event, next, handler)
    PROVE  /\ DispatchInv' /\ pc = event
           /\ UNCHANGED <<bench, op, duration, failedBenchmarks, valid, flagged, ready>>
           /\ \E l \in Pending :
                 /\ l \in Listener
                 /\ Handle(l, event)
                 /\ event = "afterBenchmarkSetUp" /\ BuiltIn \in Pending => l = BuiltIn
                 /\ l = BuiltIn => event \in PolicyEvents
                 /\ event = "beforeOperationTearDown" => BuiltIn \in Pending
                 /\ event = "beforeOperationTearDown" /\ l = BuiltIn => Pending = {BuiltIn}
                 /\ NumPlugins <= 4 =>
                        \A k \in Pending : IF event \in TearDownEvents THEN k <= l ELSE k >= l
                 /\ \/ /\ pc' = pc /\ Pending' = Pending \ {l} /\ Pending' # {} /\ NoThrow
                    \/ /\ Pending = {l} /\ pc' = next /\ Pending' = Waiting(next) /\ NoThrow
                    \/ /\ l # BuiltIn /\ pc' = handler /\ Pending' = Waiting(handler)
                       /\ Throw(TRUE)
<1>1. pc = event /\ due \in Seq(Listener) /\ due # <<>> /\ Distinct(due)
    BY DEF Notify, DispatchInv
<1> DEFINE l == Head(due)
           n == Len(due)
<1>2. /\ Tail(due) \in Seq(Listener) /\ n \in Nat \ {0} /\ Len(Tail(due)) = n - 1
      /\ l = due[1]
      /\ \A i \in 1 .. Len(Tail(due)) : Tail(due)[i] = due[i + 1]
      /\ Distinct(Tail(due))
      /\ {Tail(due)[i] : i \in 1 .. Len(Tail(due))} = Pending \ {l}
      /\ Ascending(due) => Ascending(Tail(due))
      /\ Descending(due) => Descending(Tail(due))
    BY <1>1, TailProperties DEF Pending
<1>3. l \in Pending /\ l \in Listener /\ \A i \in 1 .. n : due[i] \in Listener
    BY <1>1, <1>2 DEF Pending
<1>4. event = "afterBenchmarkSetUp" /\ BuiltIn \in Pending => l = BuiltIn
    BY <1>1, <1>2 DEF DispatchInv, BuiltInPlace, Pending
<1>5. /\ event = "beforeOperationTearDown" => BuiltIn \in Pending
      /\ event \notin PolicyEvents => \A i \in 1 .. n : due[i] # BuiltIn
    BY <1>1, <1>2 DEF DispatchInv, BuiltInPlace, Pending
<1>6. n = 1 => Pending = {l}
    BY <1>2 DEF Pending
<1>7. event = "beforeOperationTearDown" /\ l = BuiltIn => Pending = {BuiltIn}
    <2>1. SUFFICES ASSUME event = "beforeOperationTearDown", l = BuiltIn PROVE n = 1
        BY <1>6
    <2>2. due[n] = due[1] /\ 1 \in 1 .. n /\ n \in 1 .. n
        BY <1>1, <1>2, <2>1 DEF DispatchInv, BuiltInPlace
    <2>3. QED
        BY <1>1, <2>2 DEF Distinct
<1>8. ASSUME NumPlugins <= 4, NEW k \in Pending
      PROVE  IF event \in TearDownEvents THEN k <= l ELSE k >= l
    <2>1. PICK i \in 1 .. n : k = due[i]
        BY DEF Pending
    <2>2. k \in Int /\ l \in Int
        BY <1>3, <2>1, HarnessAssumption DEF Listener
    <2>3. i = 1 \/ 1 < i
        BY <1>2
    <2>4. IF event \in TearDownEvents THEN Descending(due) ELSE Ascending(due)
        BY <1>1, <1>8 DEF DispatchInv, InOrder
    <2>5. QED
        BY <1>2, <2>1, <2>2, <2>3, <2>4 DEF Ascending, Descending
<1>9. l = BuiltIn => event \in PolicyEvents
    BY <1>2, <1>5
<1>10. /\ UNCHANGED <<bench, op, duration, failedBenchmarks, valid, flagged, ready>>
       /\ Handle(l, event)
    BY DEF Notify
<1>11. CASE n > 1 /\ due' = Tail(due) /\ UNCHANGED pc /\ NoThrow
    <2>1. Pending' = Pending \ {l}
        BY <1>2, <1>11 DEF Pending
    <2>2. due' # <<>> /\ Pending' # {}
        <3>1. 1 \in 1 .. Len(due')
            BY <1>2, <1>11
        <3>2. QED
            BY <3>1 DEF Pending
    <2>3. BuiltInPlace(pc', due')
        <3>1. CASE event = "afterBenchmarkSetUp"
            <4>1. SUFFICES ASSUME NEW i \in 1 .. Len(due') PROVE due'[i] # BuiltIn
                BY <1>1, <1>11, <3>1 DEF BuiltInPlace
            <4>2. i + 1 \in 1 .. n /\ due'[i] = due[i + 1] /\ i + 1 # 1
                BY <1>2, <1>11
            <4>3. QED
                BY <1>1, <3>1, <4>2 DEF DispatchInv, BuiltInPlace
        <3>2. CASE event = "beforeOperationTearDown"
            <4>1. Len(due') \in 1 .. Len(Tail(due)) /\ Len(due') + 1 = n
                BY <1>2, <1>11
            <4>2. due'[Len(due')] = due[n]
                BY <1>2, <1>11, <4>1
            <4>3. QED
                BY <1>1, <1>11, <3>2, <4>2 DEF DispatchInv, BuiltInPlace
        <3>3. CASE event \notin PolicyEvents
            <4>1. ASSUME NEW i \in 1 .. Len(due') PROVE due'[i] # BuiltIn
                <5>1. i + 1 \in 1 .. n /\ due'[i] = due[i + 1]
                    BY <1>2, <1>11
                <5>2. QED
                    BY <1>5, <3>3, <5>1
            <4>2. QED
                BY <1>1, <1>11, <3>3, <4>1 DEF BuiltInPlace, PolicyEvents
        <3>4. QED
            BY <3>1, <3>2, <3>3 DEF PolicyEvents
    <2>4. InTurn'
        <3>1. SUFFICES ASSUME NumPlugins <= 4, NEW p \in Plugin, NEW q \in Plugin, p < q
                       PROVE  IF event \in TearDownEvents
                              THEN q \in Pending \ {l} => p \in Pending \ {l}
                              ELSE p \in Pending \ {l} => q \in Pending \ {l}
            BY <1>1, <1>11, <2>1 DEF InTurn
        <3>2. p \in Int /\ q \in Int /\ l \in Int
            BY <1>3, HarnessAssumption DEF Plugin, Listener
        <3>3. IF event \in TearDownEvents THEN q \in Pending => p \in Pending
                                         ELSE p \in Pending => q \in Pending
            BY <1>1, <3>1 DEF DispatchInv, InTurn
        <3> HIDE DEF l
        <3>4. CASE event \in TearDownEvents
            <4>1. q \in Pending => q <= l
                BY <1>8, <3>1, <3>4
            <4>2. QED
                BY <3>1, <3>2, <3>3, <3>4, <4>1
        <3>5. CASE event \notin TearDownEvents
            <4>1. p \in Pending => p >= l
                BY <1>8, <3>1, <3>5
            <4>2. QED
                BY <3>1, <3>2, <3>3, <3>5, <4>1
        <3>6. QED
            BY <3>4, <3>5
    <2>5. DispatchInv'
        BY <1>1, <1>2, <1>11, <2>2, <2>3, <2>4 DEF DispatchInv, InOrder
    <2> HIDE DEF l, n
    <2>6. QED
        BY <1>1, <1>3, <1>4, <1>5, <1>7, <1>8, <1>10, <1>9, <1>11, <2>1, <2>2, <2>5
<1>12. CASE n = 1 /\ Enter(next) /\ NoThrow
    <2>1. DispatchInv' /\ pc' = next /\ Pending' = Waiting(next)
        BY <1>12, EnterProperties DEF DispatchInv
    <2>2. Pending = {l}
        BY <1>6, <1>12
    <2> HIDE DEF l, n
    <2>3. QED
        BY <1>1, <1>3, <1>4, <1>5, <1>7, <1>8, <1>10, <1>9, <1>12, <2>1, <2>2
<1>13. CASE l # BuiltIn /\ Enter(handler) /\ Throw(TRUE)
    <2>1. DispatchInv' /\ pc' = handler /\ Pending' = Waiting(handler)
        BY <1>13, EnterProperties DEF DispatchInv
    <2> HIDE DEF l, n
    <2>2. QED
        BY <1>1, <1>3, <1>4, <1>5, <1>7, <1>8, <1>10, <1>9, <1>13, <2>1
<1>14. QED
    BY <1>11, <1>12, <1>13 DEF Notify

--------------------------------------------------------------------------------
(* The steps of the harness, and the invariant of the dispatch. *)

(* The labels the actions mention, and which of them are events.              *)
LEMMA LabelFacts ==
    /\ Events \subseteq Labels
    /\ "afterHarnessInit" \in Events /\ "onBenchmarkFailure" \in Events
    /\ "beforeBenchmarkSetUp" \in Events /\ "afterBenchmarkSetUp" \in Events
    /\ "beforeBenchmarkTearDown" \in Events /\ "afterBenchmarkTearDown" \in Events
    /\ "afterOperationSetUp" \in Events /\ "beforeOperationTearDown" \in Events
    /\ "uptime_ns" \in Events /\ "duration_ns" \in Events
    /\ "onMeasurementResultsRequested" \in Events /\ "beforeHarnessShutdown" \in Events
    /\ "nextBenchmark" \in Labels /\ "crash" \in Labels
    /\ "create" \in Labels /\ "failed" \in Labels
    /\ "setUpBeforeAll" \in Labels /\ "canExecute" \in Labels
    /\ "tearDownAfterAll" \in Labels /\ "setUpBeforeEach" \in Labels
    /\ "run" \in Labels /\ "tearDownAfterEach" \in Labels
    /\ "validate" \in Labels /\ "completed" \in Labels
    /\ "end" \in Labels
    BY DEF Labels, Events, ProtocolEvents, ResultEvents, SetUpEvents, TearDownEvents, Calls

(* Control flow of a notify method, whoever hears of the event.               *)
LEMMA NotifyControl ==
    ASSUME NEW event, NEW next, NEW handler, Notify(event, next, handler)
    PROVE  /\ pc = event
           /\ UNCHANGED <<bench, op, duration, failedBenchmarks, valid, flagged, ready>>
           /\ \/ pc' = event /\ NoThrow
              \/ pc' = next /\ NoThrow
              \/ pc' = handler /\ Throw(TRUE)
    BY DEF Notify, Enter

(* Control flow of a call of a method of the benchmark.                       *)
LEMMA CallControl ==
    ASSUME NEW method, NEW next, NEW handler, Call(method, next, handler)
    PROVE  /\ pc = method
           /\ \/ pc' = next /\ NoThrow
              \/ pc' = handler /\ Throw(FALSE)
    BY DEF Call, Enter

(* A notify method keeps the listener lists well-formed.                      *)
LEMMA NotifyDispatch ==
    ASSUME DispatchInv, UNCHANGED order, NEW event \in Events, NEW next \in Labels,
           NEW handler \in Labels, Notify(event, next, handler)
    PROVE  DispatchInv'
    BY NotifyProperties

(* So does a call of a method of the benchmark.                               *)
LEMMA CallDispatch ==
    ASSUME DispatchInv, UNCHANGED order, NEW method, NEW next \in Labels, NEW handler \in Labels,
           Call(method, next, handler)
    PROVE  DispatchInv'
    BY EnterProperties DEF Call, DispatchInv

(* So does a step of the harness between two labels.                          *)
LEMMA EnterDispatch ==
    ASSUME DispatchInv, UNCHANGED order, NEW label \in Labels, Enter(label)
    PROVE  DispatchInv'
    BY EnterProperties DEF DispatchInv

(* In every reachable state the pending listeners are a well-formed rest of   *)
(* the list of the event (EventDispatcher.Builder and the notify methods).    *)
THEOREM DispatchInvariant == Spec => []DispatchInv
<1>1. Init => DispatchInv
    <2>1. ASSUME Init PROVE DispatchInv
        <3>1. "afterHarnessInit" \in Events
            BY DEF Events, ProtocolEvents, SetUpEvents
        <3>2. pc = "afterHarnessInit" /\ due = Listeners(pc) /\ order \in RegistrationOrders
            BY <2>1 DEF Init
        <3>3. InTurn
            <4>1. Pending = Waiting(pc)
                BY <3>1, <3>2, ListenersProperties DEF Pending
            <4>2. Plugin \subseteq Pending
                BY <3>1, <3>2, <4>1, HarnessAssumption DEF Waiting, Plugin, Listener
            <4>3. QED
                BY <4>2 DEF InTurn
        <3>4. QED
            BY <3>1, <3>2, <3>3, ListenersProperties DEF DispatchInv, Labels
    <2>2. QED
        BY <2>1
<1>2. DispatchInv /\ [Next]_vars => DispatchInv'
    <2>1. SUFFICES ASSUME DispatchInv, [Next]_vars PROVE DispatchInv'
        OBVIOUS
    <2>2. UNCHANGED order
        BY <2>1 DEF Next, configVars, vars
    <2>3. CASE UNCHANGED vars
        BY <2>1, <2>3
        DEF DispatchInv, vars, Distinct, InOrder, BuiltInPlace, Ascending, Descending,
            InTurn, Pending
    <2>4. CASE AfterHarnessInit
        BY <2>1, <2>2, <2>4, LabelFacts, NotifyDispatch DEF AfterHarnessInit
    <2>5. CASE NextBenchmark
        BY <2>1, <2>2, <2>5, LabelFacts, EnterDispatch DEF NextBenchmark
    <2>6. CASE Create
        BY <2>1, <2>2, <2>6, LabelFacts, CallDispatch DEF Create
    <2>7. CASE OnBenchmarkFailure
        BY <2>1, <2>2, <2>7, LabelFacts, NotifyDispatch DEF OnBenchmarkFailure
    <2>8. CASE Failed
        BY <2>1, <2>2, <2>8, LabelFacts, EnterDispatch DEF Failed
    <2>9. CASE BeforeBenchmarkSetUp
        BY <2>1, <2>2, <2>9, LabelFacts, NotifyDispatch DEF BeforeBenchmarkSetUp
    <2>10. CASE SetUpBeforeAll
        BY <2>1, <2>2, <2>10, LabelFacts, CallDispatch DEF SetUpBeforeAll
    <2>11. CASE AfterBenchmarkSetUp
        BY <2>1, <2>2, <2>11, LabelFacts, NotifyDispatch DEF AfterBenchmarkSetUp
    <2>12. CASE ExecuteOrNot
        BY <2>1, <2>2, <2>12, LabelFacts, EnterDispatch DEF ExecuteOrNot
    <2>13. CASE BeforeBenchmarkTearDown
        BY <2>1, <2>2, <2>13, LabelFacts, NotifyDispatch DEF BeforeBenchmarkTearDown
    <2>14. CASE TearDownAfterAll
        BY <2>1, <2>2, <2>14, LabelFacts, CallDispatch DEF TearDownAfterAll
    <2>15. CASE AfterBenchmarkTearDown
        BY <2>1, <2>2, <2>15, LabelFacts, NotifyDispatch DEF AfterBenchmarkTearDown
    <2>16. CASE SetUpBeforeEach
        BY <2>1, <2>2, <2>16, LabelFacts, CallDispatch DEF SetUpBeforeEach, Aborted
    <2>17. CASE AfterOperationSetUp
        BY <2>1, <2>2, <2>17, LabelFacts, NotifyDispatch DEF AfterOperationSetUp, Aborted
    <2>18. CASE Run
        BY <2>1, <2>2, <2>18, LabelFacts, CallDispatch DEF Run, Aborted
    <2>19. CASE BeforeOperationTearDown
        BY <2>1, <2>2, <2>19, LabelFacts, NotifyDispatch DEF BeforeOperationTearDown, Aborted
    <2>20. CASE TearDownAfterEach
        BY <2>1, <2>2, <2>20, LabelFacts, CallDispatch DEF TearDownAfterEach, Aborted
    <2>21. CASE Validate
        BY <2>1, <2>2, <2>21, LabelFacts, CallDispatch DEF Validate, Aborted
    <2>22. CASE UptimeResult
        BY <2>1, <2>2, <2>22, LabelFacts, NotifyDispatch DEF UptimeResult, Aborted
    <2>23. CASE DurationResult
        BY <2>1, <2>2, <2>23, LabelFacts, NotifyDispatch DEF DurationResult, Aborted
    <2>24. CASE RequestedResults
        BY <2>1, <2>2, <2>24, LabelFacts, NotifyDispatch DEF RequestedResults, Aborted
    <2>25. CASE Completed
        BY <2>1, <2>2, <2>25, LabelFacts, EnterDispatch DEF Completed
    <2>26. CASE BeforeHarnessShutdown
        BY <2>1, <2>2, <2>26, LabelFacts, NotifyDispatch DEF BeforeHarnessShutdown
    <2>27. QED
        BY <2>1, <2>3, <2>4, <2>5, <2>6, <2>7, <2>8, <2>9, <2>10, <2>11, <2>12, <2>13, <2>14,
           <2>15, <2>16, <2>17, <2>18, <2>19, <2>20, <2>21, <2>22, <2>23, <2>24, <2>25, <2>26
        DEF Next
<1>3. QED
    BY <1>1, <1>2, PTL DEF Spec

--------------------------------------------------------------------------------
(* Where the plugins are in their protocol. *)

(* The last events a plugin may have seen when no benchmark is set up.        *)
Between == {"afterHarnessInit", "afterBenchmarkTearDown", "onBenchmarkFailure"}

(* The events a plugin may have seen last before it hears of what happens at  *)
(* a label; the finally blocks of executeBenchmark are why it may be several. *)
Before(label) ==
    CASE label = "afterHarnessInit" -> {"none"}
      [] label \in {"nextBenchmark", "create", "beforeBenchmarkSetUp", "failed",
                    "beforeHarnessShutdown"} -> Between
      [] label = "end" -> {"beforeHarnessShutdown"}
      [] label \in {"setUpBeforeAll", "afterBenchmarkSetUp"} -> {"beforeBenchmarkSetUp"}
      [] label \in {"canExecute", "setUpBeforeEach", "afterOperationSetUp"} ->
           {"afterBenchmarkSetUp", "beforeOperationTearDown"}
      [] label \in {"run", "beforeOperationTearDown"} -> {"afterOperationSetUp"}
      [] label \in {"tearDownAfterEach", "validate", "completed"} \cup ResultEvents ->
           {"beforeOperationTearDown"}
      [] label = "beforeBenchmarkTearDown" ->
           {"afterBenchmarkSetUp", "afterOperationSetUp", "beforeOperationTearDown"}
      [] label = "tearDownAfterAll" -> {"beforeBenchmarkTearDown"}
      [] label = "afterBenchmarkTearDown" -> {"beforeBenchmarkSetUp", "beforeBenchmarkTearDown"}
      [] label = "onBenchmarkFailure" -> {"afterBenchmarkTearDown"}
      [] OTHER -> {}

(* Plugins that have heard of the event being dispatched have seen it last,   *)
(* all others have seen the same earlier event.                               *)
Seen(event) ==
    \A p \in Plugin :
        stage[p] = IF pc \in ProtocolEvents /\ p \notin Pending THEN pc ELSE event

(* Until a plugin throws, all plugins are at the same point of the protocol,  *)
(* one event apart while an event is being dispatched.                        *)
StageInv ==
    /\ stage \in [Plugin -> {"none"} \cup ProtocolEvents]
    /\ pluginThrew \in BOOLEAN
    /\ ~ pluginThrew => \E event \in Before(pc) : Seen(event)

(* A notify method takes the plugins one by one from an event that may come   *)
(* before to the one dispatched, which must be one that may come before       *)
(* whatever is next.                                                          *)
LEMMA NotifyStage ==
    ASSUME DispatchInv, StageInv, UNCHANGED order, NEW event \in Events, NEW next \in Labels,
           NEW handler \in Labels, Notify(event, next, handler),
           IF event \in ProtocolEvents THEN event \in Before(next)
                                       ELSE Before(event) \subseteq Before(next)
    PROVE  StageInv'
<1>1. PICK l \in Pending :
        /\ l \in Listener /\ Handle(l, event)
        /\ \/ pc' = pc /\ Pending' = Pending \ {l} /\ NoThrow
           \/ Pending = {l} /\ pc' = next /\ Pending' = Waiting(next) /\ NoThrow
           \/ Throw(TRUE)
    BY NotifyProperties
<1>2. pc = event
    BY DEF Notify
<1>3. stage' = IF l \in Plugin /\ event \in ProtocolEvents
               THEN [stage EXCEPT ![l] = event] ELSE stage
    BY <1>1 DEF Handle
<1>4. /\ stage' \in [Plugin -> {"none"} \cup ProtocolEvents]
      /\ stage \in [Plugin -> {"none"} \cup ProtocolEvents]
    BY <1>3 DEF StageInv
<1>5. CASE Throw(TRUE)
    <2>1. pluginThrew' = TRUE
        BY <1>5 DEF Throw, StageInv
    <2>2. QED
        BY <1>4, <2>1 DEF StageInv
<1>6. CASE NoThrow /\ pluginThrew
    BY <1>4, <1>6 DEF StageInv, NoThrow
<1>7. CASE NoThrow /\ ~ pluginThrew
    <2>1. PICK e \in Before(event) : Seen(e)
        BY <1>2, <1>7 DEF StageInv
    <2>2. pluginThrew' = pluginThrew
        BY <1>7 DEF NoThrow
    <2>3. \A p \in Plugin : stage'[p] =
             IF event \in ProtocolEvents /\ p \notin Pending \ {l} THEN event ELSE e
        BY <1>2, <1>3, <1>4, <2>1 DEF Seen
    <2>4. CASE pc' = pc /\ Pending' = Pending \ {l}
        <3>1. Seen(e)'
            BY <1>2, <2>3, <2>4 DEF Seen
        <3>2. QED
            BY <1>2, <1>4, <1>7, <2>1, <2>2, <2>4, <3>1 DEF StageInv
    <2>5. CASE Pending = {l} /\ pc' = next /\ Pending' = Waiting(next)
        <3> DEFINE last == IF event \in ProtocolEvents THEN event ELSE e
        <3>1. \A p \in Plugin : stage'[p] = last
            BY <2>3, <2>5
        <3>2. next \in ProtocolEvents => Plugin \subseteq Waiting(next)
            BY HarnessAssumption DEF Events, Waiting, Plugin, Listener
        <3>3. last \in Before(next)
            BY <2>1
        <3> HIDE DEF last
        <3>4. Seen(last)'
            BY <2>5, <3>1, <3>2 DEF Seen
        <3>5. QED
            BY <1>4, <1>7, <2>2, <2>5, <3>3, <3>4 DEF StageInv
    <2>6. CASE Throw(TRUE)
        BY <1>5, <2>6
    <2>7. QED
        BY <1>1, <2>4, <2>5, <2>6
<1>8. QED
    BY <1>1, <1>5, <1>6, <1>7

(* A step of the harness that dispatches nothing leaves the plugins where     *)
(* they are.                                                                  *)
LEMMA EnterStage ==
    ASSUME DispatchInv, StageInv, UNCHANGED <<order, stage>>, pc \notin Events,
           pluginThrew' = pluginThrew, NEW label \in Labels, Enter(label),
           Before(pc) \subseteq Before(label)
    PROVE  StageInv'
<1>1. pc' = label /\ Pending' = Waiting(label)
    BY EnterProperties DEF DispatchInv
<1>2. CASE pluginThrew
    BY <1>2 DEF StageInv
<1>3. CASE ~ pluginThrew
    <2>1. PICK e \in Before(pc) : Seen(e)
        BY <1>3 DEF StageInv
    <2>2. \A p \in Plugin : stage'[p] = e
        BY <2>1 DEF Seen, Events
    <2>3. label \in ProtocolEvents => Plugin \subseteq Waiting(label)
        BY HarnessAssumption DEF Events, Waiting, Plugin, Listener
    <2>4. Seen(e)'
        BY <1>1, <2>2, <2>3 DEF Seen
    <2>5. QED
        BY <1>1, <1>3, <2>1, <2>4 DEF StageInv
<1>4. QED
    BY <1>2, <1>3

(* So does a call of a method of the benchmark, even if it throws.            *)
LEMMA CallStage ==
    ASSUME DispatchInv, StageInv, UNCHANGED <<order, stage>>, NEW method, method \notin Events,
           NEW next \in Labels, NEW handler \in Labels, Call(method, next, handler),
           Before(method) \subseteq Before(next), Before(method) \subseteq Before(handler)
    PROVE  StageInv'
<1>1. pc = method
    BY DEF Call
<1>2. CASE Enter(next) /\ NoThrow
    BY <1>1, <1>2, EnterStage DEF NoThrow
<1>3. CASE Enter(handler) /\ Throw(FALSE)
    <2>1. pluginThrew' = pluginThrew
        BY <1>3 DEF Throw, StageInv
    <2>2. QED
        BY <1>1, <1>3, <2>1, EnterStage
<1>4. QED
    BY <1>2, <1>3 DEF Call

(* Every action of the harness moves the plugins along the protocol, or not   *)
(* at all: the control flow of runBenchmarks, executeBenchmark and            *)
(* executeOperation with all their finally blocks.                            *)
LEMMA StageStep ==
    ASSUME DispatchInv, StageInv, [Next]_vars
    PROVE  StageInv'
<1>1. UNCHANGED order
    BY DEF Next, configVars, vars
<1>2. DispatchInv /\ StageInv
    OBVIOUS
<1>3. CASE UNCHANGED vars
    BY <1>3 DEF StageInv, vars, Seen, Pending
<1>4. CASE AfterHarnessInit
        <2>1. /\ "afterHarnessInit" \in Before("nextBenchmark")
          /\ "afterHarnessInit" \in ProtocolEvents
        BY DEF Before, Between, ProtocolEvents, SetUpEvents, TearDownEvents, ResultEvents
    <2>2. QED
        BY <1>1, <1>2, <1>4, <2>1, LabelFacts, NotifyStage DEF AfterHarnessInit
<1>5. CASE NextBenchmark
        <2>1. /\ Before("nextBenchmark") \subseteq Before("beforeHarnessShutdown")
          /\ Before("nextBenchmark") \subseteq Before("create")
        BY DEF Before, Between, ResultEvents
    <2>2. "nextBenchmark" \notin Events
        BY DEF Events, ProtocolEvents, SetUpEvents, TearDownEvents, ResultEvents
    <2>3. QED
        BY <1>1, <1>2, <1>5, <2>1, <2>2, LabelFacts, EnterStage DEF NextBenchmark, historyVars
<1>6. CASE Create
        <2>1. /\ Before("create") \subseteq Before("beforeBenchmarkSetUp")
          /\ Before("create") \subseteq Before("failed")
        BY DEF Before, Between, ResultEvents
    <2>2. "create" \notin Events
        BY DEF Events, ProtocolEvents, SetUpEvents, TearDownEvents, ResultEvents
    <2>3. QED
        BY <1>1, <1>2, <1>6, <2>1, <2>2, LabelFacts, CallStage DEF Create
<1>7. CASE OnBenchmarkFailure
        <2>1. /\ "onBenchmarkFailure" \in Before("failed")
          /\ "onBenchmarkFailure" \in ProtocolEvents
        BY DEF Before, Between, ProtocolEvents, SetUpEvents, TearDownEvents, ResultEvents
    <2>2. QED
        BY <1>1, <1>2, <1>7, <2>1, LabelFacts, NotifyStage DEF OnBenchmarkFailure
<1>8. CASE Failed
        <2>1. Before("failed") \subseteq Before("nextBenchmark")
        BY DEF Before, Between, ResultEvents
    <2>2. "failed" \notin Events
        BY DEF Events, ProtocolEvents, SetUpEvents, TearDownEvents, ResultEvents
    <2>3. QED
        BY <1>1, <1>2, <1>8, <2>1, <2>2, LabelFacts, EnterStage DEF Failed, historyVars
<1>9. CASE BeforeBenchmarkSetUp
        <2>1. /\ "beforeBenchmarkSetUp" \in Before("setUpBeforeAll")
          /\ "beforeBenchmarkSetUp" \in ProtocolEvents
        BY DEF Before, Between, ProtocolEvents, SetUpEvents, TearDownEvents, ResultEvents
    <2>2. QED
        BY <1>1, <1>2, <1>9, <2>1, LabelFacts, NotifyStage DEF BeforeBenchmarkSetUp
<1>10. CASE SetUpBeforeAll
        <2>1. /\ Before("setUpBeforeAll") \subseteq Before("afterBenchmarkSetUp")
          /\ Before("setUpBeforeAll") \subseteq Before("afterBenchmarkTearDown")
        BY DEF Before, Between, ResultEvents
    <2>2. "setUpBeforeAll" \notin Events
        BY DEF Events, ProtocolEvents, SetUpEvents, TearDownEvents, ResultEvents
    <2>3. QED
        BY <1>1, <1>2, <1>10, <2>1, <2>2, LabelFacts, CallStage DEF SetUpBeforeAll
<1>11. CASE AfterBenchmarkSetUp
        <2>1. /\ "afterBenchmarkSetUp" \in Before("canExecute")
          /\ "afterBenchmarkSetUp" \in ProtocolEvents
        BY DEF Before, Between, ProtocolEvents, SetUpEvents, TearDownEvents, ResultEvents
    <2>2. QED
        BY <1>1, <1>2, <1>11, <2>1, LabelFacts, NotifyStage DEF AfterBenchmarkSetUp
<1>12. CASE ExecuteOrNot
        <2>1. /\ Before("canExecute") \subseteq Before("setUpBeforeEach")
          /\ Before("canExecute") \subseteq Before("beforeBenchmarkTearDown")
        BY DEF Before, Between, ResultEvents
    <2>2. "canExecute" \notin Events
        BY DEF Events, ProtocolEvents, SetUpEvents, TearDownEvents, ResultEvents
    <2>3. QED
        BY <1>1, <1>2, <1>12, <2>1, <2>2, LabelFacts, EnterStage DEF ExecuteOrNot, historyVars
<1>13. CASE BeforeBenchmarkTearDown
        <2>1. /\ "beforeBenchmarkTearDown" \in Before("tearDownAfterAll")
          /\ "beforeBenchmarkTearDown" \in ProtocolEvents
        BY DEF Before, Between, ProtocolEvents, SetUpEvents, TearDownEvents, ResultEvents
    <2>2. QED
        BY <1>1, <1>2, <1>13, <2>1, LabelFacts, NotifyStage DEF BeforeBenchmarkTearDown
<1>14. CASE TearDownAfterAll
        <2>1. Before("tearDownAfterAll") \subseteq Before("afterBenchmarkTearDown")
        BY DEF Before, Between, ResultEvents
    <2>2. "tearDownAfterAll" \notin Events
        BY DEF Events, ProtocolEvents, SetUpEvents, TearDownEvents, ResultEvents
    <2>3. QED
        BY <1>1, <1>2, <1>14, <2>1, <2>2, LabelFacts, CallStage DEF TearDownAfterAll
<1>15. CASE AfterBenchmarkTearDown
        <2>1. /\ "afterBenchmarkTearDown" \in Before("onBenchmarkFailure")
          /\ "afterBenchmarkTearDown" \in Before("nextBenchmark")
          /\ "afterBenchmarkTearDown" \in ProtocolEvents
        BY DEF Before, Between, ProtocolEvents, SetUpEvents, TearDownEvents, ResultEvents
    <2>2. QED
        BY <1>1, <1>2, <1>15, <2>1, LabelFacts, NotifyStage DEF AfterBenchmarkTearDown
<1>16. CASE SetUpBeforeEach
        <2>1. /\ Before("setUpBeforeEach") \subseteq Before("afterOperationSetUp")
          /\ Before("setUpBeforeEach") \subseteq Before("beforeBenchmarkTearDown")
        BY DEF Before, Between, ResultEvents
    <2>2. "setUpBeforeEach" \notin Events
        BY DEF Events, ProtocolEvents, SetUpEvents, TearDownEvents, ResultEvents
    <2>3. QED
        BY <1>1, <1>2, <1>16, <2>1, <2>2, LabelFacts, CallStage DEF SetUpBeforeEach, Aborted
<1>17. CASE AfterOperationSetUp
        <2>1. /\ "afterOperationSetUp" \in Before("run")
          /\ "afterOperationSetUp" \in ProtocolEvents
        BY DEF Before, Between, ProtocolEvents, SetUpEvents, TearDownEvents, ResultEvents
    <2>2. QED
        BY <1>1, <1>2, <1>17, <2>1, LabelFacts, NotifyStage DEF AfterOperationSetUp, Aborted
<1>18. CASE Run
        <2>1. /\ Before("run") \subseteq Before("beforeOperationTearDown")
          /\ Before("run") \subseteq Before("beforeBenchmarkTearDown")
        BY DEF Before, Between, ResultEvents
    <2>2. "run" \notin Events
        BY DEF Events, ProtocolEvents, SetUpEvents, TearDownEvents, ResultEvents
    <2>3. QED
        BY <1>1, <1>2, <1>18, <2>1, <2>2, LabelFacts, CallStage DEF Run, Aborted
<1>19. CASE BeforeOperationTearDown
        <2>1. /\ "beforeOperationTearDown" \in Before("tearDownAfterEach")
          /\ "beforeOperationTearDown" \in ProtocolEvents
        BY DEF Before, Between, ProtocolEvents, SetUpEvents, TearDownEvents, ResultEvents
    <2>2. QED
        BY <1>1, <1>2, <1>19, <2>1, LabelFacts, NotifyStage DEF BeforeOperationTearDown, Aborted
<1>20. CASE TearDownAfterEach
        <2>1. /\ Before("tearDownAfterEach") \subseteq Before("validate")
          /\ Before("tearDownAfterEach") \subseteq Before("beforeBenchmarkTearDown")
        BY DEF Before, Between, ResultEvents
    <2>2. "tearDownAfterEach" \notin Events
        BY DEF Events, ProtocolEvents, SetUpEvents, TearDownEvents, ResultEvents
    <2>3. QED
        BY <1>1, <1>2, <1>20, <2>1, <2>2, LabelFacts, CallStage DEF TearDownAfterEach, Aborted
<1>21. CASE Validate
        <2>1. /\ Before("validate") \subseteq Before("uptime_ns")
          /\ Before("validate") \subseteq Before("beforeBenchmarkTearDown")
        BY DEF Before, Between, ResultEvents
    <2>2. "validate" \notin Events
        BY DEF Events, ProtocolEvents, SetUpEvents, TearDownEvents, ResultEvents
    <2>3. QED
        BY <1>1, <1>2, <1>21, <2>1, <2>2, LabelFacts, CallStage DEF Validate, Aborted
<1>22. CASE UptimeResult
        <2>1. /\ "uptime_ns" \notin ProtocolEvents
              /\ Before("uptime_ns") \subseteq Before("duration_ns")
        BY DEF Before, Between, ProtocolEvents, SetUpEvents, TearDownEvents, ResultEvents
    <2>2. QED
        BY <1>1, <1>2, <1>22, <2>1, LabelFacts, NotifyStage DEF UptimeResult, Aborted
<1>23. CASE DurationResult
        <2>1. /\ "duration_ns" \notin ProtocolEvents
              /\ Before("duration_ns") \subseteq Before("onMeasurementResultsRequested")
        BY DEF Before, Between, ProtocolEvents, SetUpEvents, TearDownEvents, ResultEvents
    <2>2. QED
        BY <1>1, <1>2, <1>23, <2>1, LabelFacts, NotifyStage DEF DurationResult, Aborted
<1>24. CASE RequestedResults
        <2>1. /\ "onMeasurementResultsRequested" \notin ProtocolEvents
              /\ Before("onMeasurementResultsRequested") \subseteq Before("completed")
        BY DEF Before, Between, ProtocolEvents, SetUpEvents, TearDownEvents, ResultEvents
    <2>2. QED
        BY <1>1, <1>2, <1>24, <2>1, LabelFacts, NotifyStage DEF RequestedResults, Aborted
<1>25. CASE Completed
        <2>1. Before("completed") \subseteq Before("canExecute")
        BY DEF Before, Between, ResultEvents
    <2>2. "completed" \notin Events
        BY DEF Events, ProtocolEvents, SetUpEvents, TearDownEvents, ResultEvents
    <2>3. QED
        BY <1>1, <1>2, <1>25, <2>1, <2>2, LabelFacts, EnterStage DEF Completed, historyVars
<1>26. CASE BeforeHarnessShutdown
        <2>1. /\ "beforeHarnessShutdown" \in Before("end")
          /\ "beforeHarnessShutdown" \in ProtocolEvents
        BY DEF Before, Between, ProtocolEvents, SetUpEvents, TearDownEvents, ResultEvents
    <2>2. QED
        BY <1>1, <1>2, <1>26, <2>1, LabelFacts, NotifyStage DEF BeforeHarnessShutdown
<1>27. QED
    BY <1>3, <1>4, <1>5, <1>6, <1>7, <1>8, <1>9, <1>10, <1>11, <1>12, <1>13, <1>14, <1>15,
       <1>16, <1>17, <1>18, <1>19, <1>20, <1>21, <1>22, <1>23, <1>24, <1>25, <1>26
    DEF Next

(* In every reachable state the plugins are at the same point of the protocol *)
(* until one throws.                                                          *)
THEOREM StageInvariant == Spec => []StageInv
<1>1. Init => StageInv
    <2>1. ASSUME Init PROVE StageInv
        <3>1. /\ pc = "afterHarnessInit" /\ due = Listeners(pc) /\ order \in RegistrationOrders
              /\ stage = [p \in Plugin |-> "none"] /\ pluginThrew = FALSE
            BY <2>1 DEF Init
        <3>2. Pending = Plugin
            <4>1. "afterHarnessInit" \notin PolicyEvents
                BY DEF PolicyEvents
            <4>2. QED
                BY <3>1, <4>1, LabelFacts, ListenersProperties DEF Pending, Waiting
        <3>3. Seen("none")
            BY <3>1, <3>2 DEF Seen
        <3>4. "none" \in Before(pc)
            BY <3>1 DEF Before, Between, ResultEvents
        <3>5. QED
            BY <3>1, <3>3, <3>4 DEF StageInv
    <2>2. QED
        BY <2>1
<1>2. QED
    BY <1>1, StageStep, DispatchInvariant, PTL DEF Spec

--------------------------------------------------------------------------------
(* What they may rely on. *)

(* How many levels are set up for a plugin that has seen an event last.       *)
DepthAfter(event) ==
    CASE event \in {"none", "beforeHarnessShutdown"} -> 0
      [] event \in {"afterHarnessInit", "afterBenchmarkTearDown", "onBenchmarkFailure"} -> 1
      [] event \in {"beforeBenchmarkSetUp", "beforeBenchmarkTearDown"} -> 2
      [] event \in {"afterBenchmarkSetUp", "beforeOperationTearDown"} -> 3
      [] event = "afterOperationSetUp" -> 4

(* A set up event adds a level, a tear down event takes one off or more, and  *)
(* the failure event leaves them.                                             *)
LEMMA DepthProperties ==
    /\ \A p \in Plugin : Depth(p) = DepthAfter(stage[p])
    /\ \A event \in {"none"} \cup ProtocolEvents : DepthAfter(event) \in Nat
    /\ \A event \in ProtocolEvents, earlier \in {"none"} \cup ProtocolEvents :
          earlier \in Before(event) =>
             IF event \in TearDownEvents THEN DepthAfter(earlier) >= DepthAfter(event)
                                         ELSE DepthAfter(earlier) <= DepthAfter(event)
<1>1. \A p \in Plugin : Depth(p) = DepthAfter(stage[p])
    BY DEF Depth, DepthAfter
<1>2. \A event \in {"none"} \cup ProtocolEvents : DepthAfter(event) \in Nat
    BY DEF DepthAfter, ProtocolEvents, SetUpEvents, TearDownEvents
<1>3. ASSUME NEW event \in SetUpEvents, NEW earlier \in Before(event)
      PROVE  DepthAfter(earlier) <= DepthAfter(event)
    BY DEF SetUpEvents, Before, Between, ResultEvents, DepthAfter
<1>4. ASSUME NEW event \in TearDownEvents, NEW earlier \in Before(event)
      PROVE  DepthAfter(earlier) >= DepthAfter(event)
    BY DEF TearDownEvents, Before, Between, ResultEvents, DepthAfter
<1>5. ASSUME NEW earlier \in Before("onBenchmarkFailure")
      PROVE  DepthAfter(earlier) <= DepthAfter("onBenchmarkFailure")
    BY DEF Before, Between, ResultEvents, DepthAfter
<1>6. SetUpEvents \cap TearDownEvents = {} /\ "onBenchmarkFailure" \notin TearDownEvents
    BY DEF SetUpEvents, TearDownEvents
<1>7. QED
    BY <1>1, <1>2, <1>3, <1>4, <1>5, <1>6 DEF ProtocolEvents

(* EarlierPluginsWrap, README's promise that plugins specified earlier wrap   *)
(* those specified later, for up to four plugins. With five or more the       *)
(* immutable Map of loadExternalPlugins iterates in hash order, and the       *)
(* promise fails.                                                             *)
THEOREM WrapCorrect ==
    ASSUME NumPlugins <= 4
    PROVE  Spec => []EarlierPluginsWrap
<1>1. ASSUME DispatchInv, StageInv PROVE EarlierPluginsWrap
    <2>1. SUFFICES ASSUME ~ pluginThrew, NEW p \in Plugin, NEW q \in Plugin, p < q
                   PROVE  Depth(p) >= Depth(q)
        BY DEF EarlierPluginsWrap
    <2>2. PICK e \in Before(pc) : Seen(e)
        BY <1>1, <2>1 DEF StageInv
    <2>3. stage[p] \in {"none"} \cup ProtocolEvents /\ stage[q] \in {"none"} \cup ProtocolEvents
        BY <1>1 DEF StageInv
    <2>4. CASE stage[p] = stage[q]
        <3>1. Depth(p) = DepthAfter(stage[p]) /\ Depth(q) = DepthAfter(stage[p])
            BY <2>4, DepthProperties
        <3>2. DepthAfter(stage[p]) \in Nat
            BY <2>3, DepthProperties
        <3>3. QED
            BY <3>1, <3>2
    <2>5. CASE stage[p] # stage[q]
        <3>1. /\ pc \in ProtocolEvents
              /\ stage[p] = IF p \in Pending THEN e ELSE pc
              /\ stage[q] = IF q \in Pending THEN e ELSE pc
            BY <2>2, <2>5 DEF Seen
        <3>2. IF pc \in TearDownEvents THEN q \in Pending => p \in Pending
                                       ELSE p \in Pending => q \in Pending
            BY <1>1, <2>1, <3>1 DEF DispatchInv, InTurn, Events
        <3>3. CASE pc \in TearDownEvents
            <4>1. stage[p] = e /\ stage[q] = pc
                BY <2>5, <3>1, <3>2, <3>3
            <4>2. DepthAfter(e) >= DepthAfter(pc)
                BY <2>2, <2>3, <3>1, <3>3, <4>1, DepthProperties
            <4>3. QED
                BY <4>1, <4>2, DepthProperties
        <3>4. CASE pc \notin TearDownEvents
            <4>1. stage[p] = pc /\ stage[q] = e
                BY <2>5, <3>1, <3>2, <3>4
            <4>2. /\ DepthAfter(e) <= DepthAfter(pc)
                  /\ DepthAfter(e) \in Nat
                  /\ DepthAfter(pc) \in Nat
                BY <2>2, <2>3, <3>1, <3>4, <4>1, DepthProperties
            <4>3. QED
                BY <4>1, <4>2, DepthProperties
        <3>5. QED
            BY <3>3, <3>4
    <2>6. QED
        BY <2>4, <2>5
<1>2. QED
    BY <1>1, DispatchInvariant, StageInvariant, PTL

(* What may come before an event in the harness is what Plugin.java lets it   *)
(* follow.                                                                    *)
LEMMA SeenNext ==
    ASSUME NEW event \in ProtocolEvents, NEW earlier \in Before(event)
    PROVE  event \in Protocol!Follows[earlier]
<1>1. CASE event \in SetUpEvents
    BY <1>1 DEF SetUpEvents, Before, Between, ResultEvents, Protocol!Follows
<1>2. CASE event \in TearDownEvents
    BY <1>2 DEF TearDownEvents, Before, Between, ResultEvents, Protocol!Follows
<1>3. CASE event = "onBenchmarkFailure"
    BY <1>3 DEF Before, Between, ResultEvents, Protocol!Follows
<1>4. QED
    BY <1>1, <1>2, <1>3 DEF ProtocolEvents

(* A step of a notify method is a step of one plugin in the protocol, none,   *)
(* or the throw that ends the promise.                                        *)
LEMMA NotifyProtocol ==
    ASSUME DispatchInv, StageInv, UNCHANGED order, NEW event \in Events, NEW next \in Labels,
           NEW handler \in Labels, Notify(event, next, handler)
    PROVE  [Protocol!Next]_<<stage, pluginThrew>>
<1>1. PICK l \in Pending :
        /\ Handle(l, event)
        /\ NoThrow \/ Throw(TRUE)
    BY NotifyProperties
<1>2. pc = event
    BY DEF Notify
<1>3. stage' = IF l \in Plugin /\ event \in ProtocolEvents
               THEN [stage EXCEPT ![l] = event] ELSE stage
    BY <1>1 DEF Handle
<1>4. CASE pluginThrew'
    BY <1>4 DEF Protocol!Next, Protocol!Excuse
<1>5. CASE ~ pluginThrew'
    <2>1. pluginThrew' = pluginThrew /\ ~ pluginThrew
        <3>1. ~ Throw(TRUE)
            BY <1>5 DEF Throw
        <3>2. UNCHANGED pluginThrew
            BY <1>1, <3>1 DEF NoThrow
        <3>3. QED
            BY <1>5, <3>2
    <2>2. CASE l \in Plugin /\ event \in ProtocolEvents
        <3>1. PICK e \in Before(event) : Seen(e)
            BY <1>2, <2>1 DEF StageInv
        <3>2. stage[l] = e
            BY <1>2, <2>2, <3>1 DEF Seen
        <3>3. event \in Protocol!Follows[stage[l]]
            BY <2>2, <3>2, SeenNext
        <3>4. Protocol!See(l)
            BY <1>3, <2>1, <2>2, <3>3 DEF Protocol!See
        <3>5. QED
            BY <2>2, <3>4 DEF Protocol!Next
    <2>3. CASE ~ (l \in Plugin /\ event \in ProtocolEvents)
        BY <1>3, <2>1, <2>3
    <2>4. QED
        BY <2>2, <2>3
<1>6. QED
    BY <1>4, <1>5

(* No other step of the harness shows in the protocol.                        *)
LEMMA OtherProtocol ==
    ASSUME pluginThrew \in BOOLEAN, UNCHANGED stage,
           \/ NoThrow
           \/ Throw(FALSE)
    PROVE  [Protocol!Next]_<<stage, pluginThrew>>
<1>1. pluginThrew' = pluginThrew
    BY DEF NoThrow, Throw
<1>2. QED
    BY <1>1

(* The harness implements the protocol that Plugin.java and plugins.md        *)
(* describe, for every number of plugins and benchmarks and wherever          *)
(* benchmarks throw: initial states are initial states of the protocol, and   *)
(* every step is a step of it or a stutter.                                   *)
THEOREM ProtocolCorrect == Spec => PluginsSeeProtocol
<1>1. Init => Protocol!Init
    BY DEF Init, Protocol!Init
<1>2. DispatchInv /\ StageInv /\ [Next]_vars => [Protocol!Next]_<<stage, pluginThrew>>
    <2>1. SUFFICES ASSUME DispatchInv, StageInv, [Next]_vars
                   PROVE  [Protocol!Next]_<<stage, pluginThrew>>
        OBVIOUS
    <2>2. UNCHANGED order /\ pluginThrew \in BOOLEAN
        BY <2>1 DEF Next, configVars, vars, StageInv
    <2>3. CASE UNCHANGED vars
        BY <2>3 DEF vars
    <2>4. CASE AfterHarnessInit
        BY <2>1, <2>2, <2>4, LabelFacts, NotifyProtocol DEF AfterHarnessInit
    <2>5. CASE NextBenchmark
        BY <2>2, <2>5, OtherProtocol DEF NextBenchmark, NoThrow
    <2>6. CASE Create
        BY <2>2, <2>6, CallControl, OtherProtocol DEF Create
    <2>7. CASE OnBenchmarkFailure
        BY <2>1, <2>2, <2>7, LabelFacts, NotifyProtocol DEF OnBenchmarkFailure
    <2>8. CASE Failed
        BY <2>2, <2>8, OtherProtocol DEF Failed, NoThrow
    <2>9. CASE BeforeBenchmarkSetUp
        BY <2>1, <2>2, <2>9, LabelFacts, NotifyProtocol DEF BeforeBenchmarkSetUp
    <2>10. CASE SetUpBeforeAll
        BY <2>2, <2>10, CallControl, OtherProtocol DEF SetUpBeforeAll
    <2>11. CASE AfterBenchmarkSetUp
        BY <2>1, <2>2, <2>11, LabelFacts, NotifyProtocol DEF AfterBenchmarkSetUp
    <2>12. CASE ExecuteOrNot
        BY <2>2, <2>12, OtherProtocol DEF ExecuteOrNot, NoThrow
    <2>13. CASE BeforeBenchmarkTearDown
        BY <2>1, <2>2, <2>13, LabelFacts, NotifyProtocol DEF BeforeBenchmarkTearDown
    <2>14. CASE TearDownAfterAll
        BY <2>2, <2>14, CallControl, OtherProtocol DEF TearDownAfterAll
    <2>15. CASE AfterBenchmarkTearDown
        BY <2>1, <2>2, <2>15, LabelFacts, NotifyProtocol DEF AfterBenchmarkTearDown
    <2>16. CASE SetUpBeforeEach
        BY <2>2, <2>16, CallControl, OtherProtocol DEF SetUpBeforeEach, Aborted
    <2>17. CASE AfterOperationSetUp
        BY <2>1, <2>2, <2>17, LabelFacts, NotifyProtocol DEF AfterOperationSetUp, Aborted
    <2>18. CASE Run
        BY <2>2, <2>18, CallControl, OtherProtocol DEF Run, Aborted
    <2>19. CASE BeforeOperationTearDown
        BY <2>1, <2>2, <2>19, LabelFacts, NotifyProtocol DEF BeforeOperationTearDown, Aborted
    <2>20. CASE TearDownAfterEach
        BY <2>2, <2>20, CallControl, OtherProtocol DEF TearDownAfterEach, Aborted
    <2>21. CASE Validate
        BY <2>2, <2>21, CallControl, OtherProtocol DEF Validate, Aborted
    <2>22. CASE UptimeResult
        BY <2>1, <2>2, <2>22, LabelFacts, NotifyProtocol DEF UptimeResult, Aborted
    <2>23. CASE DurationResult
        BY <2>1, <2>2, <2>23, LabelFacts, NotifyProtocol DEF DurationResult, Aborted
    <2>24. CASE RequestedResults
        BY <2>1, <2>2, <2>24, LabelFacts, NotifyProtocol DEF RequestedResults, Aborted
    <2>25. CASE Completed
        BY <2>2, <2>25, OtherProtocol DEF Completed, NoThrow
    <2>26. CASE BeforeHarnessShutdown
        BY <2>1, <2>2, <2>26, LabelFacts, NotifyProtocol DEF BeforeHarnessShutdown
    <2>27. QED
        BY <2>1, <2>3, <2>4, <2>5, <2>6, <2>7, <2>8, <2>9, <2>10, <2>11, <2>12, <2>13, <2>14,
           <2>15, <2>16, <2>17, <2>18, <2>19, <2>20, <2>21, <2>22, <2>23, <2>24, <2>25, <2>26
        DEF Next
<1>3. QED
    BY <1>1, <1>2, DispatchInvariant, StageInvariant, PTL
    DEF Spec, PluginsSeeProtocol, Protocol!Spec

================================================================================
