--------------------------- MODULE AkkaUctProofs ---------------------------
(***************************************************************************)
(* Proofs about AkkaUct, for any branching factor, any size of the tree    *)
(* and any number of iterations.                                           *)
(*                                                                         *)
(* Every handler takes the first message from the mailbox of an actor n,   *)
(* may create children, and appends messages to mailboxes.  The first part *)
(* states once and for all what such a step does (Handling) and proves it  *)
(* of each handler; the invariants are then proved of Handling.            *)
(***************************************************************************)
EXTENDS AkkaUct, FiniteSetTheorems, TLAPS

Place(m) == DOMAIN mailbox[m]
Kind(m, i) == mailbox[m][i].type

-----------------------------------------------------------------------------
(* Sequences of messages.                                                  *)

\* Where the messages are after others have been appended to them.
LEMMA Appended ==
  ASSUME NEW S, NEW s \in Seq(S), NEW t \in Seq(S)
  PROVE  /\ s \o t \in Seq(S)
         /\ DOMAIN s = 1..Len(s) /\ Len(s) \in Nat
         /\ DOMAIN t = 1..Len(t) /\ Len(t) \in Nat
         /\ \A i \in 1..Len(s) : i \in DOMAIN (s \o t) /\ (s \o t)[i] = s[i]
         /\ \A i \in DOMAIN (s \o t) :
              /\ i \in Nat \ {0}
              /\ ~(i <= Len(s)) => /\ i - Len(s) \in DOMAIN t
                                   /\ (s \o t)[i] = t[i - Len(s)]
         /\ \A i \in DOMAIN t : /\ Len(s) + i \in DOMAIN (s \o t)
                                /\ (s \o t)[Len(s) + i] = t[i]
OBVIOUS

\* What is behind the first message of a mailbox.
LEMMA Behind ==
  ASSUME NEW S, NEW s \in Seq(S), s # <<>>
  PROVE  /\ Tail(s) \in Seq(S) /\ Head(s) \in S /\ Head(s) = s[1] /\ 1 \in DOMAIN s
         /\ \A i \in 1..Len(Tail(s)) : i + 1 \in DOMAIN s /\ Tail(s)[i] = s[i + 1]
         /\ \A i \in DOMAIN s : i # 1 => i - 1 \in 1..Len(Tail(s)) /\ s[i] = Tail(s)[i - 1]
OBVIOUS

\* How many messages of m are left once n has taken its first one, and where the
\* i-th of them was.
Left(n, m) == IF m = n THEN Len(Tail(mailbox[m])) ELSE Len(mailbox[m])
Was(n, m, i) == IF m = n THEN i + 1 ELSE i

\* The i-th message of m is an old one, or one of those just sent.
Old(n, m, i) ==
  /\ i <= Left(n, m)
  /\ Was(n, m, i) \in Place(m)
  /\ mailbox'[m][i] = mailbox[m][Was(n, m, i)]

New(n, sends, m, i) ==
  /\ ~(i <= Left(n, m))
  /\ life[m] # "exited"
  /\ i - Left(n, m) \in DOMAIN sends[m]
  /\ mailbox'[m][i] = sends[m][i - Left(n, m)]

\* n has taken its first message, sent `sends`, and, if it has exited, lost the rest
\* of its own messages.
Delivered(n, sends, exits) ==
  /\ \A m \in Node : \A i \in Place(m)' :
       i \in Nat \ {0} /\ (Old(n, m, i) \/ New(n, sends, m, i))
  /\ \A m \in Node : Left(n, m) \in Nat
  /\ \A m \in Node : life[m] = "exited" => mailbox'[m] = <<>>
  /\ exits => mailbox'[n] = <<>>
  /\ \A m \in Node : life[m] # "exited" /\ ~(exits /\ m = n) =>
       /\ \A i \in Place(m) : Was(n, m, 0) # i =>
            \E j \in Place(m)' : /\ Was(n, m, j) = i /\ j <= Left(n, m)
                                 /\ mailbox'[m][j] = mailbox[m][i]
       /\ \A i \in DOMAIN sends[m] :
            Left(n, m) + i \in Place(m)' /\ mailbox'[m][Left(n, m) + i] = sends[m][i]

MailboxType == mailbox \in [Node -> Seq(Messages)]

\* What Handled does, mailbox by mailbox (the send of ActorRef.tell).
LEMMA HandledDelivers ==
  ASSUME MailboxType, NEW n \in Node, mailbox[n] # <<>>,
         NEW sends \in [Node -> Seq(Messages)],
         Handled(n, sends)
  PROVE  MailboxType' /\ Delivered(n, sends, FALSE)
<1> DEFINE rest == [mailbox EXCEPT ![n] = Tail(@)]
<1>1. \A m \in Node : mailbox[m] \in Seq(Messages) /\ sends[m] \in Seq(Messages)
  BY DEF MailboxType
<1>2. /\ Tail(mailbox[n]) \in Seq(Messages)
      /\ \A i \in 1..Len(Tail(mailbox[n])) :
           i + 1 \in Place(n) /\ Tail(mailbox[n])[i] = mailbox[n][i + 1]
      /\ \A i \in Place(n) : i # 1 =>
           i - 1 \in 1..Len(Tail(mailbox[n])) /\ mailbox[n][i] = Tail(mailbox[n])[i - 1]
  BY <1>1, Behind DEF Place
<1>3. /\ rest \in [Node -> Seq(Messages)]
      /\ \A m \in Node : rest[m] = IF m = n THEN Tail(mailbox[n]) ELSE mailbox[m]
  BY <1>1, <1>2 DEF MailboxType
<1>4. \A m \in Node : mailbox'[m] = IF life[m] = "exited" THEN <<>> ELSE rest[m] \o sends[m]
  BY DEF Handled, Sent
<1>5. mailbox' = [m \in Node |-> IF life[m] = "exited" THEN <<>> ELSE rest[m] \o sends[m]]
  BY DEF Handled, Sent
<1> HIDE DEF rest
<1>6. ASSUME NEW m \in Node
      PROVE  /\ rest[m] \o sends[m] \in Seq(Messages)
             /\ Left(n, m) \in Nat
             /\ DOMAIN rest[m] = 1..Left(n, m)
             /\ \A i \in 1..Left(n, m) :
                  /\ i \in DOMAIN (rest[m] \o sends[m])
                  /\ (rest[m] \o sends[m])[i] = mailbox[m][Was(n, m, i)]
                  /\ Was(n, m, i) \in Place(m)
             /\ \A i \in DOMAIN (rest[m] \o sends[m]) :
                  /\ i \in Nat \ {0}
                  /\ ~(i <= Left(n, m)) =>
                       /\ i - Left(n, m) \in DOMAIN sends[m]
                       /\ (rest[m] \o sends[m])[i] = sends[m][i - Left(n, m)]
             /\ \A i \in DOMAIN sends[m] :
                  /\ Left(n, m) + i \in DOMAIN (rest[m] \o sends[m])
                  /\ (rest[m] \o sends[m])[Left(n, m) + i] = sends[m][i]
  <2>1. rest[m] \in Seq(Messages) /\ sends[m] \in Seq(Messages)
    BY <1>1, <1>3
  <2>2. Left(n, m) = Len(rest[m])
    BY <1>3 DEF Left
  <2>3. /\ DOMAIN rest[m] = 1..Len(rest[m])
        /\ \A i \in 1..Len(rest[m]) : (rest[m] \o sends[m])[i] = rest[m][i]
    BY <2>1, Appended
  <2>4. \A i \in 1..Len(rest[m]) :
          rest[m][i] = mailbox[m][Was(n, m, i)] /\ Was(n, m, i) \in Place(m)
    <3>1. CASE m = n
      BY <1>2, <1>3, <3>1 DEF Was
    <3>2. CASE m # n
      BY <1>3, <2>3, <3>2 DEF Was, Place
    <3>3. QED
      BY <3>1, <3>2
  <2>5. QED
    BY <2>1, <2>2, <2>3, <2>4, Appended
<1>7. \A m \in Node : Left(n, m) \in Nat
  BY <1>6
<1>8. ASSUME NEW m \in Node, NEW i \in Place(m)'
      PROVE  i \in Nat \ {0} /\ (Old(n, m, i) \/ New(n, sends, m, i))
  <2>1. life[m] # "exited" /\ mailbox'[m] = rest[m] \o sends[m]
    <3>1. DOMAIN mailbox'[m] # {}
      BY <1>8 DEF Place
    <3>2. DOMAIN <<>> = {}
      OBVIOUS
    <3>3. mailbox'[m] # <<>>
      BY <3>1, <3>2
    <3>4. QED
      BY <1>4, <3>3
  <2>2. i \in DOMAIN (rest[m] \o sends[m]) /\ i \in Nat \ {0}
    BY <1>6, <1>8, <2>1 DEF Place
  <2>3. CASE i <= Left(n, m)
    <3>1. i \in 1..Left(n, m)
      BY <1>6, <2>2, <2>3
    <3>2. QED
      BY <1>6, <2>1, <2>2, <2>3, <3>1 DEF Old
  <2>4. CASE ~(i <= Left(n, m))
    BY <1>6, <2>1, <2>2, <2>4 DEF New
  <2>5. QED
    BY <2>2, <2>3, <2>4
<1>9. ASSUME NEW m \in Node, life[m] # "exited"
      PROVE  /\ \A i \in Place(m) : Was(n, m, 0) # i =>
                  \E j \in Place(m)' : /\ Was(n, m, j) = i /\ j <= Left(n, m)
                                       /\ mailbox'[m][j] = mailbox[m][i]
             /\ \A i \in DOMAIN sends[m] :
                  Left(n, m) + i \in Place(m)' /\ mailbox'[m][Left(n, m) + i] = sends[m][i]
  <2>1. mailbox'[m] = rest[m] \o sends[m]
    BY <1>4, <1>9
  <2>2. ASSUME NEW i \in Place(m), Was(n, m, 0) # i
        PROVE  \E j \in Place(m)' : /\ Was(n, m, j) = i /\ j <= Left(n, m)
                                    /\ mailbox'[m][j] = mailbox[m][i]
    <3>1. PICK j \in 1..Left(n, m) : Was(n, m, j) = i
      <4>1. CASE m = n
        <5>1. i - 1 \in 1..Left(n, m) /\ i \in Nat
          BY <1>1, <1>2, <1>3, <2>2, <4>1 DEF Was, Left, Place
        <5>2. Was(n, m, i - 1) = i
          BY <4>1, <5>1 DEF Was
        <5>3. QED
          BY <5>1, <5>2
      <4>2. CASE m # n
        BY <1>3, <1>6, <4>2 DEF Was, Place
      <4>3. QED
        BY <4>1, <4>2
    <3>2. QED
      BY <1>6, <2>1, <3>1 DEF Place
  <2>3. QED
    BY <1>6, <2>1, <2>2 DEF Place
<1>10. MailboxType'
  <2>1. <<>> \in Seq(Messages)
    OBVIOUS
  <2>2. QED
    BY <1>5, <1>6, <2>1 DEF MailboxType
<1>11. QED
  BY <1>4, <1>7, <1>8, <1>9, <1>10 DEF Delivered

\* What an actor still has in its mailbox when it exits is lost (exit in AkkaActor).
LEMMA ExitDelivers ==
  ASSUME MailboxType, NEW n \in Node, mailbox[n] # <<>>, life[n] # "exited",
         NEW sends \in [Node -> Seq(Messages)], sends[n] = <<>>,
         Exit(n, sends)
  PROVE  MailboxType' /\ Delivered(n, sends, TRUE)
<1> DEFINE box == [mailbox EXCEPT ![n] = <<>>]
<1>1. \A m \in Node : mailbox[m] \in Seq(Messages) /\ sends[m] \in Seq(Messages)
  BY DEF MailboxType
<1>2. /\ <<>> \in Seq(Messages) /\ <<>> \o <<>> = <<>> /\ DOMAIN <<>> = {}
  OBVIOUS
<1>3. /\ mailbox' = [m \in Node |-> IF life[m] = "exited" THEN <<>> ELSE box[m] \o sends[m]]
      /\ \A m \in Node : box[m] = IF m = n THEN <<>> ELSE mailbox[m]
  BY DEF Exit, Sent, MailboxType
<1> HIDE DEF box
<1>4. mailbox'[n] = <<>>
  BY <1>2, <1>3
<1>5. \A m \in Node : life[m] = "exited" => mailbox'[m] = <<>>
  BY <1>3
<1>6. \A m \in Node : Left(n, m) \in Nat
  BY <1>1, Behind DEF Left
<1>7. ASSUME NEW m \in Node, m # n, life[m] # "exited"
      PROVE  /\ mailbox'[m] \in Seq(Messages)
             /\ Place(m) = 1..Left(n, m)
             /\ \A i \in Place(m) : i \in Place(m)' /\ mailbox'[m][i] = mailbox[m][i]
             /\ \A i \in Place(m)' :
                  /\ i \in Nat \ {0}
                  /\ ~(i <= Left(n, m)) => /\ i - Left(n, m) \in DOMAIN sends[m]
                                           /\ mailbox'[m][i] = sends[m][i - Left(n, m)]
             /\ \A i \in DOMAIN sends[m] :
                  Left(n, m) + i \in Place(m)' /\ mailbox'[m][Left(n, m) + i] = sends[m][i]
  <2>1. mailbox'[m] = mailbox[m] \o sends[m]
    BY <1>3, <1>7
  <2>2. Left(n, m) = Len(mailbox[m])
    BY <1>7 DEF Left
  <2>3. /\ mailbox[m] \in Seq(Messages) /\ sends[m] \in Seq(Messages)
        /\ mailbox[m] \o sends[m] \in Seq(Messages)
    BY <1>1, Appended
  <2>4. Place(m) = 1..Left(n, m) /\ Place(m)' = DOMAIN (mailbox[m] \o sends[m])
    BY <2>1, <2>2, <2>3, Appended DEF Place
  <2>5. \A i \in 1..Left(n, m) : i \in DOMAIN (mailbox[m] \o sends[m])
                                /\ (mailbox[m] \o sends[m])[i] = mailbox[m][i]
    BY <2>2, <2>3, Appended
  <2>6. \A i \in DOMAIN (mailbox[m] \o sends[m]) :
          /\ i \in Nat \ {0}
          /\ ~(i <= Left(n, m)) => /\ i - Left(n, m) \in DOMAIN sends[m]
                                   /\ (mailbox[m] \o sends[m])[i] = sends[m][i - Left(n, m)]
    BY <2>2, <2>3, Appended
  <2>7. \A i \in DOMAIN sends[m] :
          /\ Left(n, m) + i \in DOMAIN (mailbox[m] \o sends[m])
          /\ (mailbox[m] \o sends[m])[Left(n, m) + i] = sends[m][i]
    BY <2>2, <2>3, Appended
  <2> HIDE DEF Place
  <2>8. QED
    BY <2>1, <2>3, <2>4, <2>5, <2>6, <2>7
<1>8. MailboxType'
  BY <1>2, <1>3, <1>4, <1>5, <1>7 DEF MailboxType
<1>9. ASSUME NEW m \in Node, NEW i \in Place(m)'
      PROVE  i \in Nat \ {0} /\ (Old(n, m, i) \/ New(n, sends, m, i))
  <2>1. m # n /\ life[m] # "exited"
    BY <1>2, <1>4, <1>5, <1>9 DEF Place
  <2>2. CASE i <= Left(n, m)
    BY <1>6, <1>7, <1>9, <2>1, <2>2 DEF Old, Was
  <2>3. CASE ~(i <= Left(n, m))
    BY <1>7, <1>9, <2>1, <2>3 DEF New
  <2>4. QED
    BY <1>7, <1>9, <2>1, <2>2, <2>3
<1>10. ASSUME NEW m \in Node, m # n, life[m] # "exited", NEW i \in Place(m)
       PROVE  \E j \in Place(m)' : /\ Was(n, m, j) = i /\ j <= Left(n, m)
                                   /\ mailbox'[m][j] = mailbox[m][i]
  <2>1. i \in Place(m)' /\ mailbox'[m][i] = mailbox[m][i] /\ Was(n, m, i) = i /\ i <= Left(n, m)
    BY <1>6, <1>7, <1>10 DEF Was
  <2>2. QED
    BY <2>1
<1>11. QED
  BY <1>4, <1>5, <1>6, <1>7, <1>8, <1>9, <1>10 DEF Delivered

\* Messages sent to all of some actors.
LEMMA ToAllSends ==
  ASSUME NEW S, NEW ms \in Seq(Messages)
  PROVE  /\ ToAll(S, ms) \in [Node -> Seq(Messages)]
         /\ \A m \in Node : ToAll(S, ms)[m] = IF m \in S THEN ms ELSE <<>>
BY DEF ToAll

\* Nothing is sent to anybody (the empty messages of Start and UpdateGrant).
LEMMA NothingSends ==
  /\ Nothing \in [Node -> Seq(Messages)]
  /\ \A m \in Node : Nothing[m] = <<>>
BY DEF Nothing

\* The messages of a handler, one or two to an actor.
LEMMA FewMessages ==
  ASSUME NEW x \in Messages, NEW y \in Messages
  PROVE  /\ <<x>> \in Seq(Messages) /\ DOMAIN <<x>> = {1} /\ <<x>>[1] = x
         /\ <<x, y>> \in Seq(Messages) /\ DOMAIN <<x, y>> = {1, 2}
         /\ <<x, y>>[1] = x /\ <<x, y>>[2] = y
         /\ DOMAIN <<>> = {} /\ <<>> \in Seq(Messages)
OBVIOUS

\* One message, sent to all of some actors.
LEMMA OneMessage ==
  ASSUME NEW S, NEW x \in Messages
  PROVE  /\ ToAll(S, <<x>>) \in [Node -> Seq(Messages)]
         /\ \A m \in Node : \A k \in DOMAIN ToAll(S, <<x>>)[m] :
              m \in S /\ k = 1 /\ ToAll(S, <<x>>)[m][k] = x
         /\ \A m \in Node : m \in S =>
              1 \in DOMAIN ToAll(S, <<x>>)[m] /\ ToAll(S, <<x>>)[m][1] = x
<1> DEFINE ms == <<x>>
<1>1. ms \in Seq(Messages) /\ DOMAIN ms = {1} /\ ms[1] = x /\ DOMAIN <<>> = {}
  BY FewMessages
<1> HIDE DEF ms
<1>2. /\ ToAll(S, ms) \in [Node -> Seq(Messages)]
      /\ \A m \in Node : ToAll(S, ms)[m] = IF m \in S THEN ms ELSE <<>>
  BY <1>1, ToAllSends
<1>3. \A m \in Node : \A k \in DOMAIN ToAll(S, ms)[m] :
        m \in S /\ k = 1 /\ ToAll(S, ms)[m][k] = x
  <2> SUFFICES ASSUME NEW m \in Node, NEW k \in DOMAIN ToAll(S, ms)[m]
               PROVE  m \in S /\ k = 1 /\ ToAll(S, ms)[m][k] = x
    OBVIOUS
  <2>1. m \in S
    BY <1>1, <1>2
  <2>2. QED
    BY <1>1, <1>2, <2>1
<1>4. \A m \in Node : m \in S => 1 \in DOMAIN ToAll(S, ms)[m] /\ ToAll(S, ms)[m][1] = x
  BY <1>1, <1>2
<1>5. QED
  BY <1>2, <1>3, <1>4 DEF ms

\* The kinds of messages and what they carry.
LEMMA MessageTypes ==
  /\ \A type \in {"start", "tree", "try", "traverse", "terminate"} : [type |-> type] \in Messages
  /\ \A n \in Node : [type |-> "request", sender |-> n] \in Messages
  /\ \A f \in Nat : [type |-> "generate", first |-> f] \in Messages
  /\ \A i \in 0..(Binomial - 1) : [type |-> "grant", child |-> i] \in Messages
  /\ \A x \in Messages :
       /\ x.type \in {"start", "tree", "try", "traverse", "terminate", "request", "generate",
                      "grant"}
       /\ x.type = "request" => x.sender \in Node
       /\ x.type = "generate" => x.first \in Nat
       /\ x.type = "grant" => x.child \in 0..(Binomial - 1)
BY DEF Messages

-----------------------------------------------------------------------------
(* The inductive invariant, but for the counting.                          *)

\* AkkaActor: the start message is the first an actor gets, and is handled once;
\* there are messages only for actors that exist and have not exited.
StartInv ==
  /\ \A m \in Node : life[m] \in {"none", "exited"} => mailbox[m] = <<>>
  /\ \A m \in Node : life[m] = "created" => mailbox[m] # <<>> /\ Kind(m, 1) = "start"
  /\ \A m \in Node : \A i \in Place(m) : Kind(m, i) = "start" => i = 1 /\ life[m] = "created"

\* The actors that exist: the root first, and the children of those that have some.
KnownInv ==
  /\ IF loop = 0 THEN Known = {} ELSE Root \in Known
  /\ \A m \in Known : m < size
  /\ \A m \in Node : firstChild[m] # NoChildren =>
       m \in Known /\ Children(firstChild[m]) \subseteq Known \ {m, Root}
  /\ \A m \in Node : \A i \in Place(m) :
       /\ Kind(m, i) = "request" => m = Root /\ mailbox[m][i].sender \in Known \ {Root}
       /\ Kind(m, i) \in {"try", "generate", "traverse", "terminate"} => m # Root
       /\ Kind(m, i) = "tree" => m = Root /\ size = 1

\* The children that have been granted but do not exist yet: no two grants overlap.
GrantInv ==
  /\ \A m \in Node : \A i \in Place(m) : Kind(m, i) = "generate" =>
       /\ mailbox[m][i].first \in 1..(size - Binomial)
       /\ Children(mailbox[m][i].first) \cap Known = {}
  /\ \A m, k \in Node : \A i \in Place(m), j \in Place(k) :
       Kind(m, i) = "generate" /\ Kind(k, j) = "generate" /\ m # k =>
         Children(mailbox[m][i].first) \cap Children(mailbox[k][j].first) = {}

\* An actor asks for children at most once, and is granted them at most once.
TokenInv ==
  /\ \A m \in Node : \A i, j \in Place(m) :
       /\ Kind(m, i) \in {"try", "generate"} /\ Kind(m, j) \in {"try", "generate"} => i = j
       /\ Kind(m, i) = "tree" /\ Kind(m, j) = "tree" => i = j
       /\ /\ Kind(m, i) = "request" /\ Kind(m, j) = "request"
          /\ mailbox[m][i].sender = mailbox[m][j].sender
          => i = j
  /\ \A m \in Node : \A i \in Place(m) : \A j \in Place(Root) :
       Kind(m, i) \in {"try", "generate"} /\ Kind(Root, j) = "request" =>
         mailbox[Root][j].sender # m

\* The traversal and the end begin with the root, when the tree is full, and never
\* overtake a grant.
FinishInv ==
  /\ \A m \in Node : \A i \in Place(m) :
       Kind(m, i) \in {"traverse", "terminate"} => life[Root] = "exited"
  /\ \A m \in Node : life[m] = "exited" => life[Root] = "exited"
  /\ \A m \in Node : \A i, j \in Place(m) :
       Kind(m, i) \in {"traverse", "terminate"} /\ Kind(m, j) = "generate" => j < i
  /\ life[Root] = "exited" => size + Binomial > MaxNodes

TreeInv == TypeOK /\ StartInv /\ KnownInv /\ GrantInv /\ TokenInv /\ FinishInv

-----------------------------------------------------------------------------
(* What a handler does: actor n takes its first message, sends `sends`,    *)
(* creates the children that were numbered when the size was `first` (none *)
(* if it is NoChildren), and is then in the given status.                  *)

\* What the k-th message sent to m may be.
LegalMessage(n, sends, first, status, m, k) ==
  /\ m \in Known \cup Children(first)
  /\ m \in Children(first) => sends[m][k].type = (IF k = 1 THEN "start" ELSE "try")
  /\ sends[m][k].type \in {"start", "try"} => m \in Children(first)
  /\ sends[m][k].type # "tree"
  /\ sends[m][k].type = "request" =>
       m = Root /\ sends[m][k].sender = n /\ Kind(n, 1) = "try"
  /\ sends[m][k].type = "generate" =>
       /\ n = Root /\ Kind(n, 1) = "request" /\ m = mailbox[n][1].sender
       /\ sends[m][k].first = size /\ size' = size + Binomial
  /\ sends[m][k].type = "traverse" =>
       /\ m \in Children(firstChild[n])
       /\ k = 1
       /\ Kind(n, 1) = "traverse" \/ (n = Root /\ status = "exited")
  /\ sends[m][k].type = "terminate" =>
       /\ m \in Children(firstChild[n])
       /\ status = "exited"
       /\ IF n = Root THEN k = 2 ELSE k = 1

Sends(n, sends, first, status) ==
  /\ \A m \in Node : \A k \in DOMAIN sends[m] :
       k \in {1, 2} /\ (k = 2 => sends[m][k].type \in {"try", "terminate"})
         /\ LegalMessage(n, sends, first, status, m, k)
  /\ \A m \in Children(first) : 1 \in DOMAIN sends[m]
  /\ n = Root /\ Kind(n, 1) = "request" /\ size' # size =>
       LET s == mailbox[n][1].sender
       IN  1 \in DOMAIN sends[s] /\ sends[s][1].type = "generate"
  /\ Kind(n, 1) = "traverse" \/ (n = Root /\ status = "exited") =>
       \A c \in Children(firstChild[n]) :
         1 \in DOMAIN sends[c] /\ sends[c][1].type = "traverse"

\* Why an actor exits, has children, or the tree grows.
Reasons(n, first, status) ==
  /\ first # NoChildren =>
       \/ /\ n # Root /\ Kind(n, 1) = "generate" /\ first = mailbox[n][1].first
          /\ UNCHANGED size
       \/ n = Root /\ Kind(n, 1) = "tree" /\ first = size /\ size' = size + Binomial
  /\ Kind(n, 1) \in {"generate", "tree"} => first # NoChildren
  /\ size' # size =>
       /\ n = Root /\ Kind(n, 1) \in {"tree", "request"}
       /\ size' = size + Binomial /\ size' <= MaxNodes
  /\ status = "exited" =>
       \/ n = Root /\ Kind(n, 1) = "request" /\ size + Binomial > MaxNodes
       \/ n # Root /\ Kind(n, 1) = "terminate"
  /\ status = "exited" => first = NoChildren /\ UNCHANGED size
  /\ Kind(n, 1) = "terminate" => status = "exited"
  /\ visits' = IF Kind(n, 1) = "traverse" THEN [visits EXCEPT ![n] = @ + 1] ELSE visits

Handling(n, sends, first, status) ==
  /\ n \in Alive /\ mailbox[n] # <<>>
  /\ status \in {"started", "exited"} /\ first \in Nat
  /\ life' = [m \in Node |-> IF m \in Children(first) THEN "created"
                             ELSE IF m = n THEN status ELSE life[m]]
  /\ firstChild' = IF first = NoChildren THEN firstChild ELSE [firstChild EXCEPT ![n] = first]
  /\ latch' = IF status = "exited" THEN latch - 1
              ELSE IF first = NoChildren THEN latch ELSE latch + Binomial
  /\ UNCHANGED <<loop, main>>
  /\ MailboxType' /\ Delivered(n, sends, status = "exited")
  /\ Sends(n, sends, first, status)
  /\ Reasons(n, first, status)

\* Facts about the types of the variables.
LEMMA Types ==
  ASSUME TypeOK
  PROVE  /\ Root \in Node /\ Node \subseteq Nat /\ NoChildren = 0 /\ Root = 0
         /\ Binomial \in Nat \ {0} /\ MaxNodes \in Nat
         /\ MailboxType
         /\ life \in [Node -> {"none", "created", "started", "exited"}]
         /\ firstChild \in [Node -> Node]
         /\ visits \in [Node -> Nat]
         /\ size \in 1..MaxNodes
         /\ \A m \in Node : \A i \in Place(m) : mailbox[m][i] \in Messages /\ i \in Nat \ {0}
         /\ Children(NoChildren) = {}
         /\ \A f \in Nat \ {0} : \A m :
              m \in Children(f) <=> m \in Nat /\ f <= m /\ m < f + Binomial
<1> USE UctAssumption DEF Root, NoChildren
<1>1. Root \in Node /\ Node \subseteq Nat
  BY DEF Node
<1>2. \A m \in Node : mailbox[m] \in Seq(Messages)
  BY DEF TypeOK
<1>3. \A m \in Node : \A i \in Place(m) : mailbox[m][i] \in Messages /\ i \in Nat \ {0}
  BY <1>2 DEF Place
<1>4. \A f \in Nat \ {0} : \A m : m \in Children(f) <=> m \in Nat /\ f <= m /\ m < f + Binomial
  BY DEF Children
<1>5. QED
  BY <1>1, <1>3, <1>4 DEF TypeOK, MailboxType, Children

\* An actor that receives a message is alive, and has started unless it is the
\* start message.
LEMMA Received ==
  ASSUME TypeOK, StartInv, KnownInv, NEW n \in Node, NEW type, Receives(n, type)
  PROVE  /\ n \in Alive /\ n \in Known /\ life[n] # "exited" /\ Root \in Known
         /\ mailbox[n] # <<>> /\ 1 \in Place(n)
         /\ Kind(n, 1) = type /\ Head(mailbox[n]) = mailbox[n][1]
         /\ mailbox[n][1] \in Messages
         /\ type # "start" => life[n] = "started"
         /\ type = "start" => life[n] = "created"
<1>1. mailbox[n] \in Seq(Messages)
  BY DEF TypeOK
<1>2. /\ mailbox[n] # <<>> /\ life[n] \in {"created", "started"}
      /\ 1 \in Place(n) /\ Head(mailbox[n]) = mailbox[n][1] /\ mailbox[n][1] \in Messages
    BY <1>1, Behind DEF Receives, Place
<1>3. Kind(n, 1) = type
  BY <1>2 DEF Receives, Kind
<1>4. n \in Alive /\ n \in Known /\ Root \in Known
  BY <1>2 DEF Alive, Known, KnownInv
<1>5. QED
  BY <1>2, <1>3, <1>4 DEF StartInv

\* The children of an actor with children exist and are others.
LEMMA Kids ==
  ASSUME TypeOK, KnownInv, NEW n \in Node, NEW c \in Children(firstChild[n])
  PROVE  c \in Known /\ c # n /\ c # Root /\ c \in Node
BY Types DEF KnownInv, Known

\* The start message.
LEMMA StartHandles ==
  ASSUME TreeInv, NEW n \in Node, Start(n)
  PROVE  \E sends, first, status : Handling(n, sends, first, status)
<1> USE Types DEF TreeInv
<1>1. Receives(n, "start") /\ Handled(n, Nothing)
  BY DEF Start
<1>2. mailbox[n] # <<>> /\ n \in Alive /\ life[n] = "created" /\ Kind(n, 1) = "start"
  BY <1>1, Received
<1>3. MailboxType' /\ Delivered(n, Nothing, FALSE)
  BY <1>1, <1>2, NothingSends, HandledDelivers
<1>4. Sends(n, Nothing, NoChildren, "started")
  BY <1>2, NothingSends DEF Sends
<1>5. Reasons(n, NoChildren, "started")
  BY <1>2 DEF Reasons, Start, treeVars
<1>6. life' = [m \in Node |-> IF m \in Children(NoChildren) THEN "created"
                              ELSE IF m = n THEN "started" ELSE life[m]]
  BY DEF Start
<1>7. UNCHANGED <<loop, main, firstChild, latch>>
  BY <1>2 DEF Start, treeVars
<1>8. Handling(n, Nothing, NoChildren, "started")
  BY <1>2, <1>3, <1>4, <1>5, <1>6, <1>7 DEF Handling
<1>9. QED
  BY <1>8

\* A handler of a started actor that neither creates an actor nor exits.
LEMMA QuietHandles ==
  ASSUME TreeInv, NEW n \in Node, NEW type, Receives(n, type), type # "start",
         NEW sends \in [Node -> Seq(Messages)], Handled(n, sends),
         UNCHANGED <<latch, loop, main, life, firstChild>>,
         Sends(n, sends, NoChildren, "started"), Reasons(n, NoChildren, "started")
  PROVE  \E s, first, status : Handling(n, s, first, status)
<1> USE Types DEF TreeInv
<1>1. mailbox[n] # <<>> /\ n \in Alive /\ life[n] = "started"
  BY Received
<1>2. MailboxType' /\ Delivered(n, sends, FALSE)
  BY <1>1, HandledDelivers
<1>3. life' = [m \in Node |-> IF m \in Children(NoChildren) THEN "created"
                              ELSE IF m = n THEN "started" ELSE life[m]]
  BY <1>1
<1>4. Handling(n, sends, NoChildren, "started")
  BY <1>1, <1>2, <1>3 DEF Handling
<1>5. QED
  BY <1>4

\* Grants, requests and traversals.
LEMMA NodeHandles ==
  ASSUME TreeInv, NEW n \in Node,
         UpdateGrant(n) \/ TryGenerateChildren(n) \/ Traverse(n)
  PROVE  \E sends, first, status : Handling(n, sends, first, status)
<1> USE Types DEF TreeInv
<1>1. CASE UpdateGrant(n)
  <2>1. Receives(n, "grant") /\ Kind(n, 1) = "grant" /\ Handled(n, Nothing)
    BY <1>1, Received DEF UpdateGrant
  <2>2. Sends(n, Nothing, NoChildren, "started")
    BY <2>1, NothingSends DEF Sends
  <2>3. Reasons(n, NoChildren, "started")
    BY <1>1, <2>1 DEF Reasons, UpdateGrant
  <2>4. UNCHANGED <<latch, loop, main, life, firstChild>>
    BY <1>1 DEF UpdateGrant
  <2>5. QED
    BY <2>1, <2>2, <2>3, <2>4, NothingSends, QuietHandles
<1>2. CASE TryGenerateChildren(n)
  <2> DEFINE x == [type |-> "request", sender |-> n]
             sends == ToAll({Root}, <<x>>)
  <2>1. Receives(n, "try") /\ Kind(n, 1) = "try" /\ Root \in Known /\ Handled(n, sends)
    BY <1>2, Received DEF TryGenerateChildren
  <2>2. x \in Messages /\ x.type = "request" /\ x.sender = n
    BY MessageTypes
  <2> HIDE DEF x
  <2>3. /\ sends \in [Node -> Seq(Messages)]
        /\ \A m \in Node : \A k \in DOMAIN sends[m] : m = Root /\ k = 1 /\ sends[m][k] = x
    BY <2>2, OneMessage
  <2> HIDE DEF sends
  <2>4. n # Root
    BY <2>1, Received DEF KnownInv
  <2>5. Sends(n, sends, NoChildren, "started")
    BY <2>1, <2>2, <2>3, <2>4 DEF Sends, LegalMessage
  <2>6. Reasons(n, NoChildren, "started")
    BY <1>2, <2>1 DEF Reasons, TryGenerateChildren, treeVars
  <2>7. UNCHANGED <<latch, loop, main, life, firstChild>>
    BY <1>2 DEF TryGenerateChildren, treeVars
  <2>8. QED
    BY <2>1, <2>3, <2>5, <2>6, <2>7, QuietHandles
<1>3. CASE Traverse(n)
  <2> DEFINE x == [type |-> "traverse"]
             sends == ToAll(Children(firstChild[n]), <<x>>)
  <2>1. Receives(n, "traverse") /\ Kind(n, 1) = "traverse" /\ Handled(n, sends)
    BY <1>3, Received DEF Traverse
  <2>2. x \in Messages /\ x.type = "traverse"
    BY MessageTypes
  <2> HIDE DEF x
  <2>3. /\ sends \in [Node -> Seq(Messages)]
        /\ \A m \in Node : \A k \in DOMAIN sends[m] :
             m \in Children(firstChild[n]) /\ k = 1 /\ sends[m][k] = x
        /\ \A m \in Node : m \in Children(firstChild[n]) =>
             1 \in DOMAIN sends[m] /\ sends[m][1] = x
    BY <2>2, OneMessage
  <2> HIDE DEF sends
  <2>4. \A m \in Node : \A k \in DOMAIN sends[m] :
          k = 1 /\ LegalMessage(n, sends, NoChildren, "started", m, k)
    BY <2>1, <2>2, <2>3, Kids DEF LegalMessage
  <2>5. \A c \in Children(firstChild[n]) : c \in Node
    BY Kids
  <2>6. Sends(n, sends, NoChildren, "started")
    <3>1. \A c \in Children(firstChild[n]) : 1 \in DOMAIN sends[c] /\ sends[c][1].type = "traverse"
      BY <2>2, <2>3, <2>5
    <3>2. Kind(n, 1) # "request" /\ Children(NoChildren) = {}
      BY <2>1
    <3>3. QED
      BY <2>4, <3>1, <3>2 DEF Sends
  <2>7. Reasons(n, NoChildren, "started")
    BY <1>3, <2>1 DEF Reasons, Traverse
  <2>8. UNCHANGED <<latch, loop, main, life, firstChild>>
    BY <1>3 DEF Traverse
  <2>9. QED
    BY <2>1, <2>3, <2>6, <2>7, <2>8, QuietHandles
<1>4. QED
  BY <1>1, <1>2, <1>3

\* The actors that are granted do not exist yet.
LEMMA FreshKids ==
  ASSUME TreeInv, NEW n \in Node, NEW first \in Nat,
         \/ n = Root /\ Receives(n, "tree") /\ first = size
         \/ Receives(n, "generate") /\ first = mailbox[n][1].first
  PROVE  /\ first \in 1..(MaxNodes - Binomial)
         /\ Children(first) \subseteq Node \ {Root}
         /\ Children(first) \cap Known = {}
         /\ n \notin Children(first)
         /\ \A m : m \in Children(first) <=> m \in Nat /\ first <= m /\ m < first + Binomial
<1> USE Types, UctAssumption DEF TreeInv
<1>1. CASE n = Root /\ Receives(n, "tree") /\ first = size
  <2>1. 1 \in Place(n) /\ Kind(n, 1) = "tree" /\ n \in Known
    BY <1>1, Received
  <2>2. first = 1
    BY <1>1, <2>1 DEF KnownInv
  <2>3. \A m : m \in Children(first) <=> m \in Nat /\ first <= m /\ m < first + Binomial
    BY <2>2
  <2>4. Known \subseteq {Root}
    BY <1>1, <2>2 DEF KnownInv, Known, Node, Root
  <2>5. ASSUME NEW m \in Children(first)
        PROVE  m \in Node \ {Root} /\ m \notin Known
    <3>1. m \in Nat /\ 1 <= m /\ m < MaxNodes
      BY <2>2, <2>3
    <3>2. m # Root
      BY <3>1
    <3>3. QED
      BY <2>4, <3>1, <3>2 DEF Node
  <2>6. first \in 1..(MaxNodes - Binomial)
    BY <2>2
  <2>7. QED
    BY <2>1, <2>3, <2>5, <2>6
<1>2. CASE Receives(n, "generate") /\ first = mailbox[n][1].first
  <2>1. 1 \in Place(n) /\ Kind(n, 1) = "generate" /\ n \in Known /\ Root \in Known
    BY <1>2, Received
  <2>2. first \in 1..(size - Binomial) /\ Children(first) \cap Known = {}
    BY <1>2, <2>1 DEF GrantInv
  <2>3. first \in 1..(MaxNodes - Binomial)
    BY <2>2
  <2>4. \A m : m \in Children(first) <=> m \in Nat /\ first <= m /\ m < first + Binomial
    BY <2>2
  <2>5. ASSUME NEW m \in Children(first)
        PROVE  m \in Node \ {Root}
    <3>1. m \in Nat /\ 1 <= m /\ m < MaxNodes
      BY <2>3, <2>4
    <3>2. QED
      BY <3>1 DEF Node
  <2>6. QED
    BY <2>1, <2>2, <2>3, <2>4, <2>5
<1>3. QED
  BY <1>1, <1>2

\* An actor creates its children, starts them and asks them to try.
LEMMA GenerateHandles ==
  ASSUME TreeInv, NEW n \in Node, NEW type, Receives(n, type), type # "start",
         NEW first \in Nat \ {0},
         Children(first) \subseteq Node, Children(first) \cap Known = {},
         n \notin Children(first),
         NEW others \in [Node -> Seq(Messages)],
         \A m \in Node : \A k \in DOMAIN others[m] :
           k = 1 /\ m \in Known /\ others[m][k].type = "grant",
         Generate(n, first, others),
         type \notin {"request", "traverse"},
         UNCHANGED <<loop, main>>,
         Reasons(n, first, "started")
  PROVE  \E s, f, status : Handling(n, s, f, status)
<1> USE Types DEF TreeInv
<1> DEFINE x == [type |-> "start"]
           y == [type |-> "try"]
           kids == Children(first)
           ms == <<x, y>>
           sends == [m \in Node |-> IF m \in kids THEN ms ELSE others[m]]
<1>1. /\ mailbox[n] # <<>> /\ n \in Alive /\ n \in Known /\ Kind(n, 1) = type
      /\ life[n] = "started"
  BY Received
<1>2. x \in Messages /\ x.type = "start" /\ y \in Messages /\ y.type = "try"
  BY MessageTypes
<1>3. Handled(n, sends)
  BY DEF Generate
<1> HIDE DEF x, y
<1>4. ms \in Seq(Messages) /\ DOMAIN ms = {1, 2} /\ ms[1] = x /\ ms[2] = y
  BY <1>2, FewMessages
<1> HIDE DEF ms, kids
<1>5. /\ sends \in [Node -> Seq(Messages)]
      /\ \A m \in Node : sends[m] = IF m \in kids THEN ms ELSE others[m]
  BY <1>4
<1> HIDE DEF sends
<1>6. MailboxType' /\ Delivered(n, sends, FALSE)
  BY <1>1, <1>3, <1>5, HandledDelivers
<1>7. ASSUME NEW m \in Node, NEW k \in DOMAIN sends[m]
      PROVE  /\ k \in {1, 2} /\ (k = 2 => sends[m][k].type \in {"try", "terminate"})
             /\ LegalMessage(n, sends, first, "started", m, k)
  <2>1. CASE m \in kids
    <3>1. k \in {1, 2} /\ sends[m][k] = IF k = 1 THEN x ELSE y
      BY <1>4, <1>5, <1>7, <2>1
    <3>2. QED
      BY <1>2, <2>1, <3>1 DEF LegalMessage, kids
  <2>2. CASE m \notin kids
    <3>1. k = 1 /\ m \in Known /\ sends[m][k].type = "grant"
      BY <1>5, <1>7, <2>2
    <3>2. QED
      BY <2>2, <3>1 DEF LegalMessage, kids
  <2>3. QED
    BY <2>1, <2>2
<1>8. \A m \in Children(first) : m \in Node => 1 \in DOMAIN sends[m]
  BY <1>4, <1>5 DEF kids
<1>9. Sends(n, sends, first, "started")
  BY <1>1, <1>7, <1>8 DEF Sends
<1>10. /\ life' = [m \in Node |-> IF m \in Children(first) THEN "created"
                                  ELSE IF m = n THEN "started" ELSE life[m]]
       /\ latch' = latch + Binomial
       /\ firstChild' = [firstChild EXCEPT ![n] = first]
  BY <1>1 DEF Generate
<1>11. Handling(n, sends, first, "started")
  BY <1>1, <1>6, <1>9, <1>10 DEF Handling
<1>12. QED
  BY <1>11

\* generateChildren
LEMMA NodeGenerates ==
  ASSUME TreeInv, NEW n \in Node, GenerateChildren(n)
  PROVE  \E sends, first, status : Handling(n, sends, first, status)
<1> USE Types, UctAssumption DEF TreeInv
<1> DEFINE first == mailbox[n][1].first
           x == [type |-> "grant", child |-> n % Binomial]
           others == ToAll(Parents(n), <<x>>)
<1>1. /\ Receives(n, "generate") /\ Kind(n, 1) = "generate" /\ 1 \in Place(n)
      /\ Generate(n, first, others)
  BY Received DEF GenerateChildren
<1>2. first \in Nat
  BY <1>1, MessageTypes DEF Kind
<1>3. /\ first \in Nat \ {0} /\ Children(first) \cap Known = {} /\ n \notin Children(first)
      /\ n # Root /\ Children(first) \subseteq Node
  BY <1>1, <1>2, FreshKids DEF KnownInv
<1>4. x \in Messages /\ x.type = "grant"
  <2>1. n % Binomial \in 0..(Binomial - 1)
    BY <1>1
  <2>2. QED
    BY <2>1, MessageTypes
<1>5. \A m \in Parents(n) : m \in Known
  BY DEF Parents, KnownInv
<1> HIDE DEF x
<1>6. /\ others \in [Node -> Seq(Messages)]
      /\ \A m \in Node : \A k \in DOMAIN others[m] :
           k = 1 /\ m \in Known /\ others[m][k].type = "grant"
  BY <1>4, <1>5, OneMessage
<1>7. UNCHANGED <<loop, main, size, visits>>
  BY DEF GenerateChildren
<1> HIDE DEF others, first
<1>8. Reasons(n, first, "started")
  BY <1>1, <1>3, <1>7 DEF Reasons, first
<1>9. QED
  BY <1>1, <1>3, <1>6, <1>7, <1>8, GenerateHandles

\* generateTree
LEMMA RootGenerates ==
  ASSUME TreeInv, GenerateTree
  PROVE  \E sends, first, status : Handling(Root, sends, first, status)
<1> USE Types, UctAssumption DEF TreeInv
<1>1. /\ Receives(Root, "tree") /\ Kind(Root, 1) = "tree" /\ 1 \in Place(Root)
      /\ Generate(Root, size, Nothing) /\ size' = size + Binomial
      /\ UNCHANGED <<loop, main, visits>>
  BY Received DEF GenerateTree
<1>2. /\ size \in Nat \ {0} /\ Children(size) \cap Known = {} /\ Root \notin Children(size)
      /\ size \in 1..(MaxNodes - Binomial) /\ Children(size) \subseteq Node
  BY <1>1, FreshKids
<1>3. /\ Nothing \in [Node -> Seq(Messages)]
      /\ \A m \in Node : \A k \in DOMAIN Nothing[m] :
           k = 1 /\ m \in Known /\ Nothing[m][k].type = "grant"
  BY NothingSends
<1>4. Reasons(Root, size, "started")
  BY <1>1, <1>2 DEF Reasons
<1>5. QED
  BY <1>1, <1>2, <1>3, <1>4, GenerateHandles

\* An actor exits, with a message or two to each child.
LEMMA ExitHandles ==
  ASSUME TreeInv, NEW n \in Node, NEW type, Receives(n, type), type # "start",
         NEW sends \in [Node -> Seq(Messages)], sends[n] = <<>>,
         Exit(n, sends),
         UNCHANGED <<loop, main, firstChild>>,
         Sends(n, sends, NoChildren, "exited"), Reasons(n, NoChildren, "exited")
  PROVE  \E s, first, status : Handling(n, s, first, status)
<1> USE Types DEF TreeInv
<1>1. mailbox[n] # <<>> /\ n \in Alive /\ life[n] # "exited"
  BY Received
<1>2. MailboxType' /\ Delivered(n, sends, TRUE)
  BY <1>1, ExitDelivers
<1>3. life' = [m \in Node |-> IF m \in Children(NoChildren) THEN "created"
                              ELSE IF m = n THEN "exited" ELSE life[m]]
  BY DEF Exit
<1>4. latch' = latch - 1
  BY DEF Exit
<1>5. Handling(n, sends, NoChildren, "exited")
  BY <1>1, <1>2, <1>3, <1>4 DEF Handling
<1>6. QED
  BY <1>5

\* terminateMe
LEMMA TerminateHandles ==
  ASSUME TreeInv, NEW n \in Node, TerminateMe(n)
  PROVE  \E sends, first, status : Handling(n, sends, first, status)
<1> USE Types DEF TreeInv
<1> DEFINE x == [type |-> "terminate"]
           sends == ToAll(Children(firstChild[n]), <<x>>)
<1>1. /\ Receives(n, "terminate") /\ Kind(n, 1) = "terminate" /\ 1 \in Place(n)
      /\ Exit(n, sends) /\ UNCHANGED <<loop, main, size, visits, firstChild>>
  BY Received DEF TerminateMe, treeVars
<1>2. x \in Messages /\ x.type = "terminate" /\ n # Root
  BY <1>1, MessageTypes DEF KnownInv
<1> HIDE DEF x
<1>3. /\ sends \in [Node -> Seq(Messages)]
      /\ \A m \in Node : \A k \in DOMAIN sends[m] :
           m \in Children(firstChild[n]) /\ k = 1 /\ sends[m][k] = x
  BY <1>2, OneMessage
<1>4. n \notin Children(firstChild[n])
  BY Kids
<1>5. sends[n] = <<>>
  <2> DEFINE ms == <<x>>
             kids == Children(firstChild[n])
  <2>1. ms \in Seq(Messages)
    BY <1>2, FewMessages
  <2> HIDE DEF ms, kids
  <2>2. \A m \in Node : ToAll(kids, ms)[m] = IF m \in kids THEN ms ELSE <<>>
    BY <2>1, ToAllSends
  <2>3. ToAll(kids, ms)[n] = <<>>
    BY <1>4, <2>2 DEF kids
  <2>4. QED
    BY <2>3 DEF kids, ms
<1> HIDE DEF sends
<1>6. \A m \in Node : \A k \in DOMAIN sends[m] :
        k = 1 /\ LegalMessage(n, sends, NoChildren, "exited", m, k)
  BY <1>2, <1>3, Kids DEF LegalMessage
<1>7. Sends(n, sends, NoChildren, "exited")
  BY <1>1, <1>2, <1>6 DEF Sends
<1>8. Reasons(n, NoChildren, "exited")
  BY <1>1, <1>2 DEF Reasons
<1>9. QED
  BY <1>1, <1>3, <1>5, <1>7, <1>8, ExitHandles

\* checkGenerateChildrenRequest when the tree is full: traverse, then terminate.
LEMMA FinishHandles ==
  ASSUME TreeInv, Receives(Root, "request"), ~(size + Binomial <= MaxNodes), Finish
  PROVE  \E sends, first, status : Handling(Root, sends, first, status)
<1> USE Types DEF TreeInv
<1> DEFINE x == [type |-> "traverse"]
           y == [type |-> "terminate"]
           kids == Children(firstChild[Root])
           ms == <<x, y>>
           sends == ToAll(kids, ms)
<1>1. /\ Kind(Root, 1) = "request" /\ 1 \in Place(Root)
      /\ Exit(Root, sends) /\ UNCHANGED <<loop, main, size, visits, firstChild>>
  BY Received DEF Finish, treeVars
<1>2. x \in Messages /\ x.type = "traverse" /\ y \in Messages /\ y.type = "terminate"
  BY MessageTypes
<1> HIDE DEF x, y
<1>3. ms \in Seq(Messages) /\ DOMAIN ms = {1, 2} /\ ms[1] = x /\ ms[2] = y /\ DOMAIN <<>> = {}
  BY <1>2, FewMessages
<1> HIDE DEF ms
<1>4. /\ sends \in [Node -> Seq(Messages)]
      /\ \A m \in Node : sends[m] = IF m \in kids THEN ms ELSE <<>>
  BY <1>3, ToAllSends
<1>5. \A c \in kids : c \in Known /\ c \in Node /\ c # Root
  BY Kids
<1>6. sends[Root] = <<>>
  BY <1>4, <1>5
<1> HIDE DEF sends
<1>7. ASSUME NEW m \in Node, NEW k \in DOMAIN sends[m]
      PROVE  /\ k \in {1, 2} /\ (k = 2 => sends[m][k].type \in {"try", "terminate"})
             /\ LegalMessage(Root, sends, NoChildren, "exited", m, k)
  <2>1. m \in kids
    BY <1>3, <1>4, <1>7
  <2>2. k \in {1, 2} /\ sends[m][k] = IF k = 1 THEN x ELSE y
    BY <1>3, <1>4, <1>7, <2>1
  <2>3. QED
    BY <1>2, <1>5, <2>1, <2>2 DEF LegalMessage
<1>8. \A c \in kids : 1 \in DOMAIN sends[c] /\ sends[c][1].type = "traverse"
  BY <1>2, <1>3, <1>4, <1>5
<1>9. Sends(Root, sends, NoChildren, "exited")
  BY <1>1, <1>7, <1>8 DEF Sends
<1>10. Reasons(Root, NoChildren, "exited")
  BY <1>1 DEF Reasons
<1>11. QED
  BY <1>1, <1>4, <1>6, <1>9, <1>10, ExitHandles

\* checkGenerateChildrenRequest
LEMMA RequestHandles ==
  ASSUME TreeInv, CheckGenerateChildrenRequest
  PROVE  \E sends, first, status : Handling(Root, sends, first, status)
<1> USE Types DEF TreeInv
<1> DEFINE s == mailbox[Root][1].sender
           x == [type |-> "generate", first |-> size]
           sends == ToAll({s}, <<x>>)
<1>1. /\ Receives(Root, "request") /\ Kind(Root, 1) = "request" /\ 1 \in Place(Root)
      /\ Head(mailbox[Root]) = mailbox[Root][1]
  BY Received DEF CheckGenerateChildrenRequest
<1>2. CASE ~(size + Binomial <= MaxNodes)
  BY <1>1, <1>2, FinishHandles DEF CheckGenerateChildrenRequest
<1>3. CASE size + Binomial <= MaxNodes
  <2>1. /\ UNCHANGED <<latch, loop, main, life, firstChild, visits>>
        /\ \/ Handled(Root, sends) /\ size' = size + Binomial
           \/ Handled(Root, Nothing) /\ UNCHANGED size
    BY <1>1, <1>3 DEF CheckGenerateChildrenRequest
  <2>2. s \in Known /\ s \in Node /\ s # Root
    BY <1>1 DEF KnownInv, Known
  <2>3. x \in Messages /\ x.type = "generate" /\ x.first = size
    BY MessageTypes
  <2>4. CASE Handled(Root, Nothing) /\ UNCHANGED size
    <3>1. Sends(Root, Nothing, NoChildren, "started")
      BY <1>1, <2>4, NothingSends DEF Sends
    <3>2. Reasons(Root, NoChildren, "started")
      BY <1>1, <2>1, <2>4 DEF Reasons
    <3>3. QED
      BY <1>1, <2>1, <2>4, <3>1, <3>2, NothingSends, QuietHandles
  <2>5. CASE Handled(Root, sends) /\ size' = size + Binomial
    <3> HIDE DEF x, s
    <3>1. /\ sends \in [Node -> Seq(Messages)]
          /\ \A m \in Node : \A k \in DOMAIN sends[m] : m = s /\ k = 1 /\ sends[m][k] = x
          /\ 1 \in DOMAIN sends[s] /\ sends[s][1] = x
      <4>1. /\ \A m \in Node : \A k \in DOMAIN sends[m] : m \in {s} /\ k = 1 /\ sends[m][k] = x
            /\ \A m \in Node : m \in {s} => 1 \in DOMAIN sends[m] /\ sends[m][1] = x
            /\ sends \in [Node -> Seq(Messages)]
        BY <2>3, OneMessage
      <4> HIDE DEF sends
      <4>2. QED
        BY <2>2, <4>1
    <3> HIDE DEF sends
    <3>2. \A m \in Node : \A k \in DOMAIN sends[m] :
            k = 1 /\ LegalMessage(Root, sends, NoChildren, "started", m, k)
      BY <1>1, <2>2, <2>3, <2>5, <3>1 DEF LegalMessage, s
    <3>3. Sends(Root, sends, NoChildren, "started")
      BY <1>1, <2>3, <3>1, <3>2 DEF Sends, s
    <3>4. Reasons(Root, NoChildren, "started")
      BY <1>1, <1>3, <2>1, <2>5 DEF Reasons
    <3>5. QED
      BY <1>1, <2>1, <2>5, <3>1, <3>3, <3>4, QuietHandles
  <2>6. QED
    BY <2>1, <2>4, <2>5
<1>4. QED
  BY <1>2, <1>3

\* Every step of an actor is a Handling.
LEMMA StepHandles ==
  ASSUME TreeInv, (\E n \in Node : ActorStep(n)) \/ RootStep
  PROVE  \E n \in Node : \E sends, first, status : Handling(n, sends, first, status)
<1>1. Root \in Node
  BY Types DEF TreeInv
<1>2. QED
  BY <1>1, StartHandles, NodeHandles, NodeGenerates, TerminateHandles, RootGenerates,
     RequestHandles
  DEF ActorStep, RootStep

-----------------------------------------------------------------------------
(* The invariants are kept by every Handling.                              *)

\* Where things stand after a handler.
LEMMA After ==
  ASSUME TreeInv, NEW n \in Node, NEW sends, NEW first, NEW status,
         Handling(n, sends, first, status)
  PROVE  /\ n \in Known /\ Root \in Known /\ life[n] # "exited" /\ 1 \in Place(n)
         /\ Children(first) \subseteq Node \ {n, Root} /\ Children(first) \cap Known = {}
         /\ first # NoChildren => first \in Nat \ {0} /\ first + Binomial <= size'
         /\ first # NoChildren => Kind(n, 1) \in {"generate", "tree"}
         /\ Known' = Known \cup Children(first)
         /\ \A m \in Node : life'[m] = IF m \in Children(first) THEN "created"
                                       ELSE IF m = n THEN status ELSE life[m]
         /\ size \in Nat /\ size' \in Nat /\ size <= size'
         /\ size' \in 1..MaxNodes
         /\ \A m \in Children(first) : Left(n, m) = 0 /\ Place(m) = {}
<1> USE Types, UctAssumption DEF TreeInv
<1>1. n \in Known /\ Root \in Known /\ life[n] # "exited" /\ life[n] \in {"created", "started"}
  BY DEF Handling, Alive, Known, KnownInv
<1>2. mailbox[n] # <<>> /\ 1 \in Place(n) /\ Head(mailbox[n]) = mailbox[n][1]
  <2>1. mailbox[n] \in Seq(Messages) /\ mailbox[n] # <<>>
    BY DEF Handling, MailboxType
  <2>2. QED
    BY <2>1, Behind DEF Place
<1>3. \A type : Kind(n, 1) = type => Receives(n, type)
  BY <1>1, <1>2 DEF Receives, Kind
<1>4. first # NoChildren =>
        \/ n # Root /\ Receives(n, "generate") /\ first = mailbox[n][1].first /\ size' = size
             /\ Kind(n, 1) = "generate"
        \/ n = Root /\ Receives(n, "tree") /\ first = size /\ size' = size + Binomial
             /\ Kind(n, 1) = "tree"
  BY <1>3 DEF Handling, Reasons
<1>5. first \in Nat
  BY DEF Handling
<1>6. /\ Children(first) \subseteq Node \ {n, Root} /\ Children(first) \cap Known = {}
      /\ first # NoChildren => first \in Nat \ {0}
  <2>1. CASE first = NoChildren
    BY <2>1
  <2>2. CASE first # NoChildren
    <3>1. /\ Children(first) \subseteq Node \ {Root} /\ Children(first) \cap Known = {}
          /\ n \notin Children(first) /\ first \in Nat \ {0}
      BY <1>4, <1>5, <2>2, FreshKids
    <3>2. QED
      BY <3>1
  <2>3. QED
    BY <2>1, <2>2
<1>7. size \in Nat /\ size' \in Nat /\ size <= size' /\ size' \in 1..MaxNodes
  <2>1. CASE size' = size
    BY <2>1
  <2>2. CASE size' # size
    BY <2>2 DEF Handling, Reasons
  <2>3. QED
    BY <2>1, <2>2
<1>8. first # NoChildren => first + Binomial <= size'
  <2>1. CASE first # NoChildren /\ Kind(n, 1) = "generate" /\ first = mailbox[n][1].first
    BY <1>2, <1>7, <2>1 DEF GrantInv
  <2>2. CASE first = size /\ size' = size + Binomial
    BY <1>7, <2>2
  <2>3. QED
    BY <1>4, <2>1, <2>2
<1>9. \A m \in Node : life'[m] = IF m \in Children(first) THEN "created"
                                 ELSE IF m = n THEN status ELSE life[m]
  BY DEF Handling
<1>10. Known' = Known \cup Children(first)
  <2>1. status # "none" /\ life[n] # "none"
    BY <1>1 DEF Handling
  <2>2. QED
    BY <1>6, <1>9, <2>1 DEF Known
<1>11. ASSUME NEW m \in Children(first)
       PROVE  Left(n, m) = 0 /\ Place(m) = {}
  <2>1. m \in Node /\ m # n /\ m \notin Known
    BY <1>6
  <2>2. mailbox[m] = <<>>
    BY <2>1 DEF Known, StartInv
  <2>3. Len(<<>>) = 0 /\ DOMAIN <<>> = {}
    OBVIOUS
  <2>4. QED
    BY <2>1, <2>2, <2>3 DEF Left, Place
<1>12. QED
  BY <1>1, <1>2, <1>4, <1>6, <1>7, <1>8, <1>9, <1>10, <1>11

\* Where a message in a mailbox comes from.
LEMMA Origin ==
  ASSUME TreeInv, NEW n \in Node, NEW sends, NEW first, NEW status,
         Handling(n, sends, first, status), NEW m \in Node, NEW i \in Place(m)'
  PROVE  /\ i \in Nat \ {0} /\ Left(n, m) \in Nat
         /\ \/ Old(n, m, i) /\ (m = n => Was(n, m, i) # 1)
            \/ /\ New(n, sends, m, i)
               /\ i - Left(n, m) \in {1, 2}
               /\ i - Left(n, m) = 2 =>
                    sends[m][i - Left(n, m)].type \in {"try", "terminate"}
               /\ LegalMessage(n, sends, first, status, m, i - Left(n, m))
<1>1. i \in Nat \ {0} /\ Left(n, m) \in Nat /\ (Old(n, m, i) \/ New(n, sends, m, i))
  BY DEF Handling, Delivered
<1>2. Old(n, m, i) /\ m = n => Was(n, m, i) # 1
  BY <1>1 DEF Was
<1>3. New(n, sends, m, i) =>
        /\ i - Left(n, m) \in {1, 2}
        /\ i - Left(n, m) = 2 =>
             sends[m][i - Left(n, m)].type \in {"try", "terminate"}
        /\ LegalMessage(n, sends, first, status, m, i - Left(n, m))
  BY DEF Handling, Sends, New
<1>4. QED
  BY <1>1, <1>2, <1>3

\* A mailbox without places is empty.
LEMMA EmptyBox ==
  ASSUME NEW s \in Seq(Messages), DOMAIN s = {}
  PROVE  s = <<>>
OBVIOUS

\* The start message comes first and is handled once (startActor in AkkaActor).
LEMMA StartKeeps ==
  ASSUME TreeInv, NEW n \in Node, NEW sends, NEW first, NEW status,
         Handling(n, sends, first, status)
  PROVE  StartInv'
<1> USE After DEF TreeInv
<1>1. MailboxType' /\ status \in {"started", "exited"}
  BY DEF Handling
<1>2. ASSUME NEW m \in Node, life'[m] \in {"none", "exited"}
      PROVE  mailbox'[m] = <<>>
  <2>1. CASE m = n
    BY <1>1, <1>2, <2>1 DEF Handling, Delivered
  <2>2. CASE m # n
    <3>1. life'[m] = life[m] /\ m \notin Children(first)
      BY <1>2, <2>2
    <3>2. CASE life[m] = "exited"
      BY <3>2 DEF Handling, Delivered
    <3>3. CASE life[m] = "none"
      <4>1. m \notin Known
        BY <3>3 DEF Known
      <4>2. mailbox[m] = <<>>
        BY <3>3 DEF StartInv
      <4>3. Place(m) = {}
        BY <4>2, FewMessages DEF Place
      <4>4. Place(m)' = {}
        BY <3>1, <4>1, <4>3, Origin DEF Old, LegalMessage
      <4>5. QED
        BY <1>1, <4>4, EmptyBox DEF MailboxType, Place
    <3>4. QED
      BY <1>2, <3>1, <3>2, <3>3
  <2>3. QED
    BY <2>1, <2>2
<1>3. ASSUME NEW m \in Node, life'[m] = "created"
      PROVE  mailbox'[m] # <<>> /\ Kind(m, 1)' = "start"
  <2>1. 1 \in Place(m)' /\ mailbox'[m][1].type = "start"
    <3>1. CASE m \in Children(first)
      <4>1. /\ 1 \in DOMAIN sends[m] /\ sends[m][1].type = "start"
            /\ life[m] # "exited" /\ m # n /\ Left(n, m) = 0
        <5>1. 1 \in DOMAIN sends[m] /\ LegalMessage(n, sends, first, status, m, 1)
          BY <3>1 DEF Handling, Sends
        <5>2. sends[m][1].type = "start"
          BY <3>1, <5>1 DEF LegalMessage
        <5>3. m \notin Known /\ m # n /\ Left(n, m) = 0
          BY <3>1
        <5>4. QED
          BY <5>1, <5>2, <5>3 DEF Known
      <4>2. Left(n, m) + 1 = 1
        BY <4>1
      <4>3. 1 \in Place(m)' /\ mailbox'[m][1] = sends[m][1]
        BY <4>1, <4>2 DEF Handling, Delivered
      <4>4. QED
        BY <4>1, <4>3
    <3>2. CASE m \notin Children(first)
      <4>1. m # n /\ life[m] = "created"
        BY <1>1, <1>3, <3>2
      <4>2. mailbox[m] # <<>> /\ mailbox[m][1].type = "start" /\ mailbox[m] \in Seq(Messages)
        BY <4>1, Types DEF StartInv, Kind, MailboxType
      <4>3. 1 \in Place(m)
        BY <4>2, Behind DEF Place
      <4>4. PICK j \in Place(m)' : Was(n, m, j) = 1 /\ mailbox'[m][j] = mailbox[m][1]
        <5>1. Was(n, m, 0) # 1
          BY <4>1 DEF Was
        <5>2. QED
          BY <4>1, <4>3, <5>1 DEF Handling, Delivered
      <4>5. QED
        BY <4>1, <4>2, <4>4 DEF Was
    <3>3. QED
      BY <3>1, <3>2
  <2>2. mailbox'[m] # <<>>
    BY <2>1, FewMessages DEF Place
  <2>3. QED
    BY <2>1, <2>2 DEF Kind
<1>4. ASSUME NEW m \in Node, NEW i \in Place(m)', Kind(m, i)' = "start"
      PROVE  i = 1 /\ life'[m] = "created"
  <2>1. CASE Old(n, m, i) /\ (m = n => Was(n, m, i) # 1)
    <3>1. Was(n, m, i) = 1 /\ life[m] = "created"
      BY <1>4, <2>1 DEF Old, Kind, StartInv
    <3>2. m # n /\ i = 1 /\ m \in Known
      BY <2>1, <3>1 DEF Was, Known
    <3>3. QED
      BY <3>1, <3>2
  <2>2. CASE New(n, sends, m, i) /\ LegalMessage(n, sends, first, status, m, i - Left(n, m))
               /\ i - Left(n, m) \in {1, 2} /\ i \in Nat
    <3>1. sends[m][i - Left(n, m)].type = "start"
      BY <1>4, <2>2 DEF New, Kind
    <3>2. m \in Children(first) /\ i - Left(n, m) = 1
      BY <2>2, <3>1 DEF LegalMessage
    <3>3. QED
      BY <2>2, <3>2
  <2>3. QED
    BY <2>1, <2>2, Origin
<1>5. QED
  BY <1>2, <1>3, <1>4 DEF StartInv

\* Every child has been numbered, exists, and is none of the root's ancestors.
LEMMA KnownKeeps ==
  ASSUME TreeInv, NEW n \in Node, NEW sends, NEW first, NEW status,
         Handling(n, sends, first, status)
  PROVE  KnownInv'
<1> USE After, Types DEF TreeInv
<1>1. loop' # 0 /\ Root \in Known'
  <2>1. Root \in Known /\ loop' = loop
    BY DEF Handling
  <2>2. loop # 0
    BY <2>1 DEF KnownInv
  <2>3. QED
    BY <2>1, <2>2
<1>2. ASSUME NEW m \in Known'
      PROVE  m < size'
  <2>1. CASE m \in Known
    <3>1. m < size /\ m \in Nat
      BY <2>1 DEF KnownInv, Known
    <3>2. QED
      BY <3>1
  <2>2. CASE m \in Children(first)
    <3>1. first # NoChildren
      BY <2>2
    <3>2. m \in Nat /\ m < first + Binomial /\ first + Binomial <= size' /\ first \in Nat
      BY <2>2, <3>1
    <3>3. QED
      BY <3>2
  <2>3. QED
    BY <2>1, <2>2
<1>3. ASSUME NEW m \in Node, firstChild'[m] # NoChildren
      PROVE  m \in Known' /\ Children(firstChild'[m]) \subseteq Known' \ {m, Root}
  <2>1. CASE m = n /\ first # NoChildren
    <3>1. firstChild'[m] = first
      BY <2>1 DEF Handling
    <3>2. QED
      BY <2>1, <3>1
  <2>2. CASE ~(m = n /\ first # NoChildren)
    <3>1. firstChild'[m] = firstChild[m]
      BY <2>2 DEF Handling
    <3>2. QED
      BY <1>3, <3>1 DEF KnownInv
  <2>3. QED
    BY <2>1, <2>2
<1>4. ASSUME NEW m \in Node, NEW i \in Place(m)'
      PROVE  /\ Kind(m, i)' = "request" => m = Root /\ mailbox'[m][i].sender \in Known' \ {Root}
             /\ Kind(m, i)' \in {"try", "generate", "traverse", "terminate"} => m # Root
             /\ Kind(m, i)' = "tree" => m = Root /\ size' = 1
  <2>1. CASE Old(n, m, i) /\ (m = n => Was(n, m, i) # 1)
    <3> DEFINE j == Was(n, m, i)
    <3>1. j \in Place(m) /\ mailbox'[m][i] = mailbox[m][j] /\ Kind(m, i)' = Kind(m, j)
      BY <2>1 DEF Old, Kind
    <3> HIDE DEF j
    <3>2. Kind(m, j) = "tree" => m = Root /\ size = 1
      BY <3>1 DEF KnownInv
    <3>3. ASSUME Kind(m, j) = "tree"
          PROVE  size' = size
      <4>1. SUFFICES ASSUME size' # size
                     PROVE  FALSE
        OBVIOUS
      <4>2. n = Root /\ Kind(n, 1) \in {"tree", "request"}
        BY <4>1 DEF Handling, Reasons
      <4>3. CASE Kind(n, 1) = "tree"
        BY <2>1, <3>1, <3>2, <3>3, <4>2, <4>3 DEF TokenInv, j
      <4>4. CASE Kind(n, 1) = "request"
        <5>1. mailbox[n][1].sender \in Known \ {Root} /\ 1 \in Place(n)
          BY <4>4 DEF KnownInv
        <5>2. PICK s \in Node : s # 0 /\ s \in Known
          BY <5>1 DEF Known
        <5>3. s < 1 /\ s \in Nat
          BY <3>2, <3>3, <5>2 DEF KnownInv
        <5>4. QED
          BY <5>2, <5>3
      <4>5. QED
        BY <4>2, <4>3, <4>4
    <3>4. QED
      BY <3>1, <3>2, <3>3 DEF KnownInv
  <2>2. CASE New(n, sends, m, i) /\ LegalMessage(n, sends, first, status, m, i - Left(n, m))
    <3> DEFINE x == sends[m][i - Left(n, m)]
    <3>1. mailbox'[m][i] = x /\ Kind(m, i)' = x.type
      BY <2>2 DEF New, Kind
    <3>2. x.type # "tree"
      BY <2>2 DEF LegalMessage
    <3>3. x.type = "request" => m = Root /\ x.sender \in Known' \ {Root}
      <4>1. x.type = "request" => m = Root /\ x.sender = n /\ Kind(n, 1) = "try"
        BY <2>2 DEF LegalMessage
      <4>2. Kind(n, 1) = "try" => n # Root
        BY DEF KnownInv
      <4> HIDE DEF x
      <4>3. QED
        BY <4>1, <4>2
    <3>4. x.type = "try" => m # Root
      BY <2>2 DEF LegalMessage
    <3>5. x.type = "generate" => m # Root
      BY <2>2 DEF LegalMessage, KnownInv
    <3>6. x.type \in {"traverse", "terminate"} => m # Root
      <4>1. x.type \in {"traverse", "terminate"} => m \in Children(firstChild[n])
        BY <2>2 DEF LegalMessage
      <4>2. QED
        BY <4>1, Kids
    <3> HIDE DEF x
    <3>7. QED
      BY <3>1, <3>2, <3>3, <3>4, <3>5, <3>6
  <2>3. QED
    BY <2>1, <2>2, Origin
<1>5. QED
  BY <1>1, <1>2, <1>3, <1>4 DEF KnownInv

\* A grant takes the numbers from the size on, and leaves them to nobody else.
LEMMA GrantKeeps ==
  ASSUME TreeInv, NEW n \in Node, NEW sends, NEW first, NEW status,
         Handling(n, sends, first, status)
  PROVE  GrantInv'
<1> USE After, Types DEF TreeInv
\* A new grant is that of the numbers from the present size on.
<1>1. ASSUME NEW m \in Node, NEW i \in Place(m)', Kind(m, i)' = "generate", ~Old(n, m, i)
      PROVE  /\ mailbox'[m][i].first = size /\ size' = size + Binomial
             /\ Kind(n, 1) = "request" /\ n = Root /\ m = mailbox[n][1].sender
             /\ first = NoChildren
  <2> DEFINE x == sends[m][i - Left(n, m)]
  <2>1. New(n, sends, m, i) /\ LegalMessage(n, sends, first, status, m, i - Left(n, m))
    BY <1>1, Origin
  <2>2. mailbox'[m][i] = x /\ x.type = "generate"
    BY <1>1, <2>1 DEF New, Kind
  <2>3. /\ n = Root /\ Kind(n, 1) = "request" /\ m = mailbox[n][1].sender
        /\ x.first = size /\ size' = size + Binomial
    BY <2>1, <2>2 DEF LegalMessage
  <2>4. first = NoChildren
    BY <2>3
  <2>5. QED
    BY <2>2, <2>3, <2>4
\* An old one was there.
<1>2. ASSUME NEW m \in Node, NEW i \in Place(m)', Kind(m, i)' = "generate", Old(n, m, i)
      PROVE  /\ Was(n, m, i) \in Place(m) /\ Kind(m, Was(n, m, i)) = "generate"
             /\ mailbox'[m][i] = mailbox[m][Was(n, m, i)]
             /\ mailbox[m][Was(n, m, i)].first \in 1..(size - Binomial)
             /\ Children(mailbox[m][Was(n, m, i)].first) \cap Known = {}
             /\ m = n => Was(n, m, i) # 1
  <2>1. m = n => Was(n, m, i) # 1
    <3>1. i \in Nat \ {0}
      BY <1>2, Origin
    <3>2. QED
      BY <3>1 DEF Was
  <2>2. QED
    BY <1>2, <2>1 DEF Old, Kind, GrantInv
<1>3. ASSUME NEW m \in Node, NEW i \in Place(m)', Kind(m, i)' = "generate"
      PROVE  /\ mailbox'[m][i].first \in 1..(size' - Binomial)
             /\ Children(mailbox'[m][i].first) \cap Known' = {}
  <2>1. CASE Old(n, m, i)
    <3> DEFINE j == Was(n, m, i)
               f == mailbox[m][j].first
    <3>1. /\ j \in Place(m) /\ Kind(m, j) = "generate" /\ mailbox'[m][i] = mailbox[m][j]
          /\ f \in 1..(size - Binomial) /\ Children(f) \cap Known = {}
          /\ m = n => j # 1
      BY <1>2, <1>3, <2>1
    <3> HIDE DEF j
    <3>2. Children(f) \cap Children(first) = {}
      <4>1. CASE first = NoChildren
        BY <4>1
      <4>2. CASE first # NoChildren /\ Kind(n, 1) = "tree"
        <5>1. size = 1
          BY <4>2 DEF KnownInv
        <5>2. QED
          BY <3>1, <5>1
      <4>3. CASE first # NoChildren /\ Kind(n, 1) = "generate"
        <5>1. m # n
          BY <3>1, <4>3 DEF TokenInv
        <5>2. first = mailbox[n][1].first
          BY <4>3 DEF Handling, Reasons
        <5>3. 1 \in Place(n) /\ Kind(n, 1) = "generate" /\ Kind(m, j) = "generate"
          BY <3>1, <4>3
        <5>4. Children(mailbox[m][j].first) \cap Children(mailbox[n][1].first) = {}
          BY <3>1, <5>1, <5>3 DEF GrantInv
        <5>5. QED
          BY <5>2, <5>4
      <4>4. QED
        BY <4>1, <4>2, <4>3
    <3>3. f \in 1..(size' - Binomial)
      BY <3>1
    <3>4. QED
      BY <3>1, <3>2, <3>3
  <2>2. CASE ~Old(n, m, i)
    <3>1. /\ mailbox'[m][i].first = size /\ size' = size + Binomial /\ first = NoChildren
      BY <1>1, <1>3, <2>2
    <3>2. size \in 1..(size' - Binomial) /\ size \in Nat \ {0}
      BY <3>1
    <3>3. \A k \in Children(size) : k \notin Known
      BY <3>2 DEF KnownInv
    <3>4. QED
      BY <3>1, <3>2, <3>3
  <2>3. QED
    BY <2>1, <2>2
\* A new grant and an old one.
<1>4. ASSUME NEW f \in 1..(size - Binomial)
      PROVE  Children(f) \cap Children(size) = {}
  <2>1. f \in Nat \ {0} /\ size \in Nat \ {0} /\ f + Binomial <= size
    OBVIOUS
  <2>2. ASSUME NEW k \in Children(f) \cap Children(size)
        PROVE  FALSE
    <3>1. k \in Nat /\ k < f + Binomial /\ size <= k
      BY <2>1
    <3>2. QED
      BY <2>1, <3>1
  <2>3. QED
    BY <2>2
<1>5. ASSUME NEW m \in Node, NEW k \in Node, m # k, NEW i \in Place(m)', NEW j \in Place(k)',
             Kind(m, i)' = "generate", Kind(k, j)' = "generate"
      PROVE  Children(mailbox'[m][i].first) \cap Children(mailbox'[k][j].first) = {}
  <2>1. CASE Old(n, m, i) /\ Old(n, k, j)
    <3> DEFINE a == Was(n, m, i)
               b == Was(n, k, j)
    <3>1. a \in Place(m) /\ Kind(m, a) = "generate" /\ mailbox'[m][i] = mailbox[m][a]
      BY <1>2, <1>5, <2>1
    <3>2. b \in Place(k) /\ Kind(k, b) = "generate" /\ mailbox'[k][j] = mailbox[k][b]
      BY <1>2, <1>5, <2>1
    <3> HIDE DEF a, b
    <3>3. Children(mailbox[m][a].first) \cap Children(mailbox[k][b].first) = {}
      <4>1. m \in Node /\ k \in Node /\ m # k
        BY <1>5
      <4>2. QED
        BY <3>1, <3>2, <4>1 DEF GrantInv
    <3>4. QED
      BY <3>1, <3>2, <3>3
  <2>2. CASE Old(n, m, i) /\ ~Old(n, k, j)
    BY <1>1, <1>2, <1>4, <1>5, <2>2
  <2>3. CASE ~Old(n, m, i) /\ Old(n, k, j)
    BY <1>1, <1>2, <1>4, <1>5, <2>3
  <2>4. CASE ~Old(n, m, i) /\ ~Old(n, k, j)
    BY <1>1, <1>5, <2>4
  <2>5. QED
    BY <2>1, <2>2, <2>3, <2>4
<1>6. QED
  BY <1>3, <1>5 DEF GrantInv

\* The message is one that was just sent to m.
Fresh(n, first, status, m, i) ==
  /\ i - Left(n, m) \in {1, 2}
  /\ Kind(m, i)' \notin {"try", "terminate"} => i - Left(n, m) = 1
  /\ Kind(m, i)' # "tree"
  /\ Kind(m, i)' = "try" => m \in Children(first) /\ i - Left(n, m) = 2
  /\ m \in Children(first) => Kind(m, i)' \in {"start", "try"}
  /\ Kind(m, i)' = "request" =>
       m = Root /\ mailbox'[m][i].sender = n /\ Kind(n, 1) = "try"
  /\ Kind(m, i)' = "generate" =>
       /\ n = Root /\ Kind(n, 1) = "request" /\ m = mailbox[n][1].sender
       /\ mailbox'[m][i].first = size /\ size' = size + Binomial
  /\ Kind(m, i)' = "traverse" =>
       /\ m \in Children(firstChild[n])
       /\ Kind(n, 1) = "traverse" \/ (n = Root /\ status = "exited")
  /\ Kind(m, i)' = "terminate" =>
       /\ m \in Children(firstChild[n]) /\ status = "exited"
       /\ i - Left(n, m) = IF n = Root THEN 2 ELSE 1

\* The message was there before, behind the first one of n.
Former(n, m, i) ==
  /\ i <= Left(n, m)
  /\ Was(n, m, i) \in Place(m)
  /\ mailbox'[m][i] = mailbox[m][Was(n, m, i)]
  /\ Kind(m, i)' = Kind(m, Was(n, m, i))
  /\ m = n => Was(n, m, i) # 1

\* Every message in a mailbox is a former or a fresh one.
LEMMA FormerOrFresh ==
  ASSUME TreeInv, NEW n \in Node, NEW sends, NEW first, NEW status,
         Handling(n, sends, first, status), NEW m \in Node, NEW i \in Place(m)'
  PROVE  /\ i \in Nat \ {0} /\ Left(n, m) \in Nat
         /\ Former(n, m, i) \/ (i > Left(n, m) /\ Fresh(n, first, status, m, i))
<1>1. i \in Nat \ {0} /\ Left(n, m) \in Nat
  BY Origin
<1>2. CASE Old(n, m, i) /\ (m = n => Was(n, m, i) # 1)
  BY <1>1, <1>2 DEF Former, Old, Kind
<1>3. CASE /\ New(n, sends, m, i)
           /\ i - Left(n, m) \in {1, 2}
           /\ i - Left(n, m) = 2 => sends[m][i - Left(n, m)].type \in {"try", "terminate"}
           /\ LegalMessage(n, sends, first, status, m, i - Left(n, m))
  <2> DEFINE x == sends[m][i - Left(n, m)]
             k == i - Left(n, m)
  <2>1. mailbox'[m][i] = x /\ Kind(m, i)' = x.type
    BY <1>3 DEF New, Kind
  <2>2. k = 1 \/ k = 2
    BY <1>3
  <2>3. i > Left(n, m)
    BY <1>1, <2>2
  <2> HIDE DEF k
  <2>4. k = 2 => x.type \in {"try", "terminate"}
    BY <1>3 DEF k
  <2>5. /\ m \in Children(first) => x.type = (IF k = 1 THEN "start" ELSE "try")
        /\ x.type \in {"start", "try"} => m \in Children(first)
        /\ x.type # "tree"
        /\ x.type = "request" => m = Root /\ x.sender = n /\ Kind(n, 1) = "try"
        /\ x.type = "generate" =>
             /\ n = Root /\ Kind(n, 1) = "request" /\ m = mailbox[n][1].sender
             /\ x.first = size /\ size' = size + Binomial
        /\ x.type = "traverse" =>
             /\ m \in Children(firstChild[n])
             /\ Kind(n, 1) = "traverse" \/ (n = Root /\ status = "exited")
        /\ x.type = "terminate" =>
             /\ m \in Children(firstChild[n]) /\ status = "exited"
             /\ IF n = Root THEN k = 2 ELSE k = 1
    BY <1>3 DEF LegalMessage, k
  <2> HIDE DEF x
  <2>6. Fresh(n, first, status, m, i)
    BY <2>1, <2>2, <2>4, <2>5 DEF Fresh, k
  <2>7. QED
    BY <1>1, <2>3, <2>6
<1>4. QED
  BY <1>2, <1>3, Origin

\* Messages are kept, but for the first one of the actor that handles it and for
\* those of an actor that exits.
LEMMA Kept ==
  ASSUME TreeInv, NEW n \in Node, NEW sends, NEW first, NEW status,
         Handling(n, sends, first, status),
         NEW m \in Node, NEW j \in Place(m), m = n => j # 1 /\ status # "exited"
  PROVE  \E i \in Place(m)' : /\ Was(n, m, i) = j /\ i <= Left(n, m)
                              /\ mailbox'[m][i] = mailbox[m][j] /\ Kind(m, i)' = Kind(m, j)
<1>1. life[m] # "exited"
  <2>1. mailbox[m] # <<>>
    BY FewMessages DEF Place
  <2>2. QED
    BY <2>1 DEF StartInv, TreeInv
<1>2. Was(n, m, 0) # j
  BY Types DEF Was, TreeInv
<1>3. PICK i \in Place(m)' : /\ Was(n, m, i) = j /\ i <= Left(n, m)
                             /\ mailbox'[m][i] = mailbox[m][j]
  BY <1>1, <1>2 DEF Handling, Delivered
<1>4. Kind(m, i)' = Kind(m, j)
  BY <1>3 DEF Kind
<1>5. QED
  BY <1>3, <1>4

\* Who has asked may not ask again, and a request is answered once.
LEMMA TokenKeeps ==
  ASSUME TreeInv, NEW n \in Node, NEW sends, NEW first, NEW status,
         Handling(n, sends, first, status)
  PROVE  TokenInv'
<1> USE After, Types DEF TreeInv
<1>1. ASSUME NEW m \in Node, NEW i \in Place(m)', Former(n, m, i),
             NEW j \in Place(m)', Former(n, m, j), Was(n, m, i) = Was(n, m, j)
      PROVE  i = j
  <2>1. i \in Nat /\ j \in Nat
    BY FormerOrFresh
  <2>2. QED
    BY <1>1, <2>1 DEF Was
<1>2. ASSUME NEW m \in Node, NEW i \in Place(m)', Former(n, m, i)
      PROVE  m \notin Children(first)
  BY <1>2 DEF Former
<1>3. ASSUME NEW m \in Node, NEW i \in Place(m)', Former(n, m, i), NEW j \in Place(m)',
             Fresh(n, first, status, m, j),
             Kind(m, i)' \in {"try", "generate"}, Kind(m, j)' \in {"try", "generate"}
      PROVE  FALSE
  <2>1. n = Root /\ Kind(Root, 1) = "request" /\ mailbox[Root][1].sender = m /\ 1 \in Place(Root)
    BY <1>2, <1>3 DEF Fresh
  <2>2. Was(n, m, i) \in Place(m) /\ Kind(m, Was(n, m, i)) \in {"try", "generate"}
    BY <1>3 DEF Former
  <2>3. QED
    BY <2>1, <2>2 DEF TokenInv
<1>4. ASSUME NEW m \in Node, NEW i \in Place(m)', NEW j \in Place(m)',
             Kind(m, i)' \in {"try", "generate"}, Kind(m, j)' \in {"try", "generate"}
      PROVE  i = j
  <2>1. CASE Former(n, m, i) /\ Former(n, m, j)
    <3>1. /\ Was(n, m, i) \in Place(m) /\ Kind(m, Was(n, m, i)) \in {"try", "generate"}
          /\ Was(n, m, j) \in Place(m) /\ Kind(m, Was(n, m, j)) \in {"try", "generate"}
      BY <1>4, <2>1 DEF Former
    <3>2. Was(n, m, i) = Was(n, m, j)
      BY <3>1 DEF TokenInv
    <3>3. QED
      BY <1>1, <2>1, <3>2
  <2>2. CASE Fresh(n, first, status, m, i) /\ Fresh(n, first, status, m, j)
    <3>1. i - Left(n, m) = j - Left(n, m)
      BY <1>4, <2>2 DEF Fresh
    <3>2. i \in Nat /\ j \in Nat /\ Left(n, m) \in Nat
      BY FormerOrFresh
    <3>3. QED
      BY <3>1, <3>2
  <2>3. QED
    BY <1>3, <1>4, <2>1, <2>2, FormerOrFresh
<1>5. ASSUME NEW m \in Node, NEW i \in Place(m)', NEW j \in Place(m)',
             Kind(m, i)' = "tree", Kind(m, j)' = "tree"
      PROVE  i = j
  <2>1. Former(n, m, i) /\ Former(n, m, j)
    BY <1>5, FormerOrFresh DEF Fresh
  <2>2. /\ Was(n, m, i) \in Place(m) /\ Kind(m, Was(n, m, i)) = "tree"
        /\ Was(n, m, j) \in Place(m) /\ Kind(m, Was(n, m, j)) = "tree"
    BY <1>5, <2>1 DEF Former
  <2>3. Was(n, m, i) = Was(n, m, j)
    BY <2>2 DEF TokenInv
  <2>4. QED
    BY <1>1, <2>1, <2>3
\* A request of an actor that has yet to be answered, and another one.
<1>6. ASSUME NEW m \in Node, NEW i \in Place(m)', Former(n, m, i), NEW j \in Place(m)',
             Fresh(n, first, status, m, j),
             Kind(m, i)' = "request", Kind(m, j)' = "request",
             mailbox'[m][i].sender = mailbox'[m][j].sender
      PROVE  FALSE
  <2>1. m = Root /\ mailbox'[m][i].sender = n /\ Kind(n, 1) = "try"
    BY <1>6 DEF Fresh
  <2> DEFINE a == Was(n, m, i)
  <2>2. a \in Place(Root) /\ Kind(Root, a) = "request" /\ mailbox[Root][a].sender = n
    BY <1>6, <2>1 DEF Former
  <2> HIDE DEF a
  <2>3. QED
    BY <2>1, <2>2 DEF TokenInv
<1>7. ASSUME NEW m \in Node, NEW i \in Place(m)', NEW j \in Place(m)',
             Kind(m, i)' = "request", Kind(m, j)' = "request",
             mailbox'[m][i].sender = mailbox'[m][j].sender
      PROVE  i = j
  <2>1. CASE Former(n, m, i) /\ Former(n, m, j)
    <3> DEFINE a == Was(n, m, i)
               b == Was(n, m, j)
    <3>1. /\ a \in Place(m) /\ Kind(m, a) = "request" /\ mailbox'[m][i] = mailbox[m][a]
          /\ b \in Place(m) /\ Kind(m, b) = "request" /\ mailbox'[m][j] = mailbox[m][b]
      BY <1>7, <2>1 DEF Former
    <3> HIDE DEF a, b
    <3>2. mailbox[m][a].sender = mailbox[m][b].sender
      BY <1>7, <3>1
    <3>3. a = b
      BY <3>1, <3>2 DEF TokenInv
    <3>4. QED
      BY <1>1, <2>1, <3>3 DEF a, b
  <2>2. CASE Fresh(n, first, status, m, i) /\ Fresh(n, first, status, m, j)
    <3>1. i - Left(n, m) = 1 /\ j - Left(n, m) = 1
      BY <1>7, <2>2 DEF Fresh
    <3>2. i \in Nat /\ j \in Nat /\ Left(n, m) \in Nat
      BY FormerOrFresh
    <3>3. QED
      BY <3>1, <3>2
  <2>3. CASE Former(n, m, i) /\ Fresh(n, first, status, m, j)
    BY <1>6, <1>7, <2>3
  <2>4. CASE Former(n, m, j) /\ Fresh(n, first, status, m, i)
    BY <1>6, <1>7, <2>4
  <2>5. QED
    BY <2>1, <2>2, <2>3, <2>4, FormerOrFresh
<1>8. ASSUME NEW m \in Node, NEW i \in Place(m)', NEW j \in Place(Root)',
             Kind(m, i)' \in {"try", "generate"}, Kind(Root, j)' = "request"
      PROVE  mailbox'[Root][j].sender # m
  <2> DEFINE a == Was(n, m, i)
             b == Was(n, Root, j)
  <2>1. Former(n, m, i) => /\ a \in Place(m) /\ Kind(m, a) \in {"try", "generate"}
                           /\ m = n => a # 1
    BY <1>8 DEF Former
  <2>2. Former(n, Root, j) => /\ b \in Place(Root) /\ Kind(Root, b) = "request"
                              /\ mailbox'[Root][j].sender = mailbox[Root][b].sender
                              /\ Root = n => b # 1
    BY <1>8 DEF Former
  <2> HIDE DEF a, b
  <2>3. CASE Former(n, m, i) /\ Former(n, Root, j)
    BY <2>1, <2>2, <2>3 DEF TokenInv
  <2>4. CASE Former(n, m, i) /\ Fresh(n, first, status, Root, j)
    <3>1. mailbox'[Root][j].sender = n /\ Kind(n, 1) = "try"
      BY <1>8, <2>4 DEF Fresh
    <3>2. m # n
      BY <2>1, <2>4, <3>1 DEF TokenInv
    <3>3. QED
      BY <3>1, <3>2
  <2>5. CASE Fresh(n, first, status, m, i) /\ Former(n, Root, j)
    <3>1. CASE Kind(m, i)' = "try"
      <4>1. m \notin Known
        BY <2>5, <3>1 DEF Fresh
      <4>2. mailbox[Root][b].sender \in Known
        BY <2>2, <2>5 DEF KnownInv
      <4>3. QED
        BY <2>2, <2>5, <4>1, <4>2
    <3>2. CASE Kind(m, i)' = "generate"
      <4>1. n = Root /\ Kind(Root, 1) = "request" /\ mailbox[Root][1].sender = m /\ b # 1
        BY <2>2, <2>5, <3>2 DEF Fresh
      <4>2. mailbox[Root][b].sender # mailbox[Root][1].sender
        BY <2>2, <2>5, <4>1 DEF TokenInv
      <4>3. QED
        BY <2>2, <2>5, <4>1, <4>2
    <3>3. QED
      BY <1>8, <3>1, <3>2
  <2>6. CASE Fresh(n, first, status, m, i) /\ Fresh(n, first, status, Root, j)
    <3>1. Kind(n, 1) = "try"
      BY <1>8, <2>6 DEF Fresh
    <3>2. first = NoChildren
      BY <3>1
    <3>3. QED
      BY <1>8, <2>6, <3>1, <3>2 DEF Fresh
  <2>7. QED
    BY <2>3, <2>4, <2>5, <2>6, FormerOrFresh
<1>9. QED
  BY <1>4, <1>5, <1>7, <1>8 DEF TokenInv

\* The root exits first, once the tree is full, and nothing is granted after that.
LEMMA FinishKeeps ==
  ASSUME TreeInv, NEW n \in Node, NEW sends, NEW first, NEW status,
         Handling(n, sends, first, status)
  PROVE  FinishInv'
<1> USE After, Types DEF TreeInv
\* An actor that exits is the root, or the root has exited.
<1>1. status = "exited" =>
        /\ life'[Root] = "exited"
        /\ size' = size
        /\ n = Root => size + Binomial > MaxNodes
  <2>1. ASSUME status = "exited", n # Root
        PROVE  life[Root] = "exited"
    <3>1. Kind(n, 1) = "terminate" /\ 1 \in Place(n)
      <4>1. Reasons(n, first, status)
        BY DEF Handling
      <4>2. Kind(n, 1) = "terminate"
        BY <2>1, <4>1 DEF Reasons
      <4>3. QED
        BY <4>2
    <3>2. QED
      BY <3>1 DEF FinishInv
  <2>2. QED
    BY <2>1 DEF Handling, Reasons
<1>2. life[Root] = "exited" => life'[Root] = "exited" /\ n # Root /\ size' = size
  <2>1. ASSUME life[Root] = "exited"
        PROVE  n # Root
    BY <2>1
  <2>2. n # Root => size' = size
    BY DEF Handling, Reasons
  <2>3. QED
    BY <2>1, <2>2
<1>3. ASSUME NEW m \in Node, NEW i \in Place(m)', Kind(m, i)' \in {"traverse", "terminate"}
      PROVE  life'[Root] = "exited"
  <2>1. CASE Former(n, m, i)
    <3>1. Was(n, m, i) \in Place(m) /\ Kind(m, Was(n, m, i)) \in {"traverse", "terminate"}
      BY <1>3, <2>1 DEF Former
    <3>2. QED
      BY <1>2, <3>1 DEF FinishInv
  <2>2. CASE Fresh(n, first, status, m, i)
    <3>1. Kind(n, 1) = "traverse" \/ status = "exited"
      BY <1>3, <2>2 DEF Fresh
    <3>2. Kind(n, 1) = "traverse" => life[Root] = "exited"
      BY DEF FinishInv
    <3>3. QED
      BY <1>1, <1>2, <3>1, <3>2
  <2>3. QED
    BY <2>1, <2>2, FormerOrFresh
<1>4. ASSUME NEW m \in Node, life'[m] = "exited"
      PROVE  life'[Root] = "exited"
  <2>1. CASE m = n
    BY <1>1, <1>4, <2>1
  <2>2. CASE m # n
    BY <1>2, <1>4, <2>2 DEF FinishInv
  <2>3. QED
    BY <2>1, <2>2
<1>5. ASSUME NEW m \in Node, NEW i \in Place(m)', NEW j \in Place(m)',
             Kind(m, i)' \in {"traverse", "terminate"}, Kind(m, j)' = "generate"
      PROVE  j < i
  <2>1. i \in Nat /\ j \in Nat /\ Left(n, m) \in Nat
    BY FormerOrFresh
  <2>2. CASE Former(n, m, i) /\ Former(n, m, j)
    <3> DEFINE a == Was(n, m, i)
               b == Was(n, m, j)
    <3>1. /\ a \in Place(m) /\ Kind(m, a) \in {"traverse", "terminate"}
          /\ b \in Place(m) /\ Kind(m, b) = "generate"
      BY <1>5, <2>2 DEF Former
    <3>2. b < a => j < i
      BY <2>1 DEF Was
    <3> HIDE DEF a, b
    <3>3. QED
      BY <3>1, <3>2 DEF FinishInv
  <2>3. CASE j <= Left(n, m) /\ i > Left(n, m)
    BY <2>1, <2>3
  <2>4. CASE Fresh(n, first, status, m, j)
    <3>1. /\ n = Root /\ Kind(n, 1) = "request" /\ size' = size + Binomial
      BY <1>5, <2>4 DEF Fresh
    <3>2. size' # size
      BY <3>1
    <3>3. life[Root] # "exited" /\ status # "exited"
      BY <1>1, <1>2, <3>2
    <3>4. CASE Former(n, m, i)
      <4>1. Was(n, m, i) \in Place(m) /\ Kind(m, Was(n, m, i)) \in {"traverse", "terminate"}
        BY <1>5, <3>4 DEF Former
      <4>2. QED
        BY <3>3, <4>1 DEF FinishInv
    <3>5. CASE Fresh(n, first, status, m, i)
      BY <1>5, <3>1, <3>3, <3>5 DEF Fresh
    <3>6. QED
      BY <3>4, <3>5, FormerOrFresh
  <2>5. QED
    BY <2>2, <2>3, <2>4, FormerOrFresh DEF Former
<1>6. life'[Root] = "exited" => size' + Binomial > MaxNodes
  <2>1. CASE n = Root
    BY <1>1, <2>1
  <2>2. CASE n # Root
    <3>1. size' = size /\ life'[Root] = life[Root]
      BY <2>2 DEF Handling, Reasons
    <3>2. QED
      BY <3>1 DEF FinishInv
  <2>3. QED
    BY <2>1, <2>2
<1>7. QED
  BY <1>3, <1>4, <1>5, <1>6 DEF FinishInv

-----------------------------------------------------------------------------
(* Counting the actors and the grants.                                     *)

MainInv == /\ main # "await" => Alive = {}
           /\ main = "run" => loop < LoopCount
           /\ main # "run" => loop > 0

CountInv == LatchCountsActors /\ NoGrantLost /\ MainInv

\* The sets that are counted are finite, and an actor has Binomial children.
LEMMA Finite ==
  ASSUME TypeOK
  PROVE  /\ IsFiniteSet(Known) /\ IsFiniteSet(Alive) /\ IsFiniteSet(Granted)
         /\ Cardinality(Known) \in Nat /\ Cardinality(Alive) \in Nat
         /\ Cardinality(Granted) \in Nat
         /\ \A f \in Nat \ {0} : /\ IsFiniteSet(Children(f))
                                 /\ Cardinality(Children(f)) = Binomial
                                 /\ f \in Children(f)
<1> USE UctAssumption
<1>1. IsFiniteSet(Node)
  BY FS_Interval DEF Node
<1>2. Known \subseteq Node /\ Alive \subseteq Node /\ Granted \subseteq Node
  BY DEF Known, Alive, Granted
<1>3. IsFiniteSet(Known) /\ IsFiniteSet(Alive) /\ IsFiniteSet(Granted)
  BY <1>1, <1>2, FS_Subset
<1>4. ASSUME NEW f \in Nat \ {0}
      PROVE  /\ IsFiniteSet(Children(f))
             /\ Cardinality(Children(f)) = Binomial
             /\ f \in Children(f)
  <2>1. Children(f) = f..(f + Binomial - 1)
    BY DEF Children, NoChildren
  <2>2. f \in Int /\ f + Binomial - 1 \in Int /\ f <= f + Binomial - 1
    OBVIOUS
  <2>3. /\ IsFiniteSet(f..(f + Binomial - 1))
        /\ Cardinality(f..(f + Binomial - 1)) = (f + Binomial - 1) - f + 1
    BY <2>2, FS_Interval
  <2>4. (f + Binomial - 1) - f + 1 = Binomial
    OBVIOUS
  <2>5. QED
    BY <2>1, <2>2, <2>3, <2>4
<1>5. QED
  BY <1>3, <1>4, FS_CardinalityType

\* Counting a set with others, or without one of its elements.
LEMMA CountUnion ==
  ASSUME NEW S, IsFiniteSet(S), NEW T, IsFiniteSet(T), S \cap T = {}
  PROVE  /\ IsFiniteSet(S \cup T)
         /\ Cardinality(S \cup T) = Cardinality(S) + Cardinality(T)
<1>1. /\ IsFiniteSet(S \cup T)
      /\ Cardinality(S \cup T) = Cardinality(S) + Cardinality(T) - Cardinality(S \cap T)
  BY FS_Union
<1>2. Cardinality(S \cap T) = 0 /\ Cardinality(S) \in Nat /\ Cardinality(T) \in Nat
  BY FS_EmptySet, FS_CardinalityType
<1>3. Cardinality(S) + Cardinality(T) - Cardinality(S \cap T) = Cardinality(S) + Cardinality(T)
  BY <1>2
<1>4. QED
  BY <1>1, <1>3

\* What becomes of the latch (exit and generateChildren).
LEMMA LatchKeeps ==
  ASSUME TreeInv, CountInv, NEW n \in Node, NEW sends, NEW first, NEW status,
         Handling(n, sends, first, status)
  PROVE  LatchCountsActors' /\ MainInv' /\ loop > 0
<1> USE After, Types DEF TreeInv
<1>1. /\ n \in Alive /\ status \in {"started", "exited"} /\ UNCHANGED <<loop, main>>
      /\ status = "exited" => first = NoChildren
      /\ latch' = IF status = "exited" THEN latch - 1
                  ELSE IF first = NoChildren THEN latch ELSE latch + Binomial
  BY DEF Handling, Reasons
<1>2. main = "await" /\ loop > 0 /\ MainInv'
  <2>1. main = "await" /\ loop > 0
    BY <1>1 DEF CountInv, MainInv
  <2>2. QED
    BY <1>1, <2>1 DEF MainInv
<1>3. latch = Cardinality(Alive) /\ IsFiniteSet(Alive) /\ Cardinality(Alive) \in Nat
  BY Finite DEF CountInv, LatchCountsActors
<1>4. CASE status = "exited"
  <2>1. Alive' = Alive \ {n}
    BY <1>1, <1>4 DEF Alive
  <2>2. Cardinality(Alive \ {n}) = Cardinality(Alive) - 1
    BY <1>1, <1>3, FS_RemoveElement
  <2>3. QED
    BY <1>1, <1>2, <1>3, <1>4, <2>1, <2>2 DEF LatchCountsActors
<1>5. CASE status # "exited" /\ first = NoChildren
  <2>1. Alive' = Alive
    BY <1>1, <1>5 DEF Alive
  <2>2. QED
    BY <1>1, <1>2, <1>3, <1>5, <2>1 DEF LatchCountsActors
<1>6. CASE status # "exited" /\ first # NoChildren
  <2>1. Alive' = Alive \cup Children(first)
    BY <1>1, <1>6 DEF Alive
  <2>2. Alive \cap Children(first) = {}
    BY DEF Alive, Known
  <2>3. IsFiniteSet(Children(first)) /\ Cardinality(Children(first)) = Binomial
    BY <1>6, Finite
  <2>4. Cardinality(Alive') = Cardinality(Alive) + Binomial
    BY <1>3, <2>1, <2>2, <2>3, CountUnion
  <2>5. QED
    BY <1>1, <1>2, <1>3, <1>6, <2>4 DEF LatchCountsActors
<1>7. QED
  BY <1>4, <1>5, <1>6

\* A grant is outstanding until it is carried out: none is lost when an actor exits,
\* and the actor that is granted children has none outstanding.
LEMMA GrantedAfter ==
  ASSUME TreeInv, NEW n \in Node, NEW sends, NEW first, NEW status,
         Handling(n, sends, first, status)
  PROVE  /\ Kind(n, 1) = "generate" => n \in Granted /\ Granted' = Granted \ {n}
         /\ Kind(n, 1) = "request" /\ size' # size =>
              \E s \in Node : s \notin Granted /\ Granted' = Granted \cup {s}
         /\ Kind(n, 1) # "generate" /\ ~(Kind(n, 1) = "request" /\ size' # size) =>
              Granted' = Granted
<1> USE After, Types DEF TreeInv
<1> DEFINE s == mailbox[n][1].sender
           Granting == Kind(n, 1) = "request" /\ size' # size
\* A grant that is not carried out now is kept.
<1>1. ASSUME NEW m \in Node, NEW j \in Place(m), Kind(m, j) = "generate", m = n => j # 1
      PROVE  m \in Granted'
  <2>2. ~(status = "exited" /\ m = n)
    <3>1. SUFFICES ASSUME status = "exited", m = n
                   PROVE  FALSE
      OBVIOUS
    <3>2. Kind(n, 1) = "terminate" \/ n = Root
      BY <3>1 DEF Handling, Reasons
    <3>3. n # Root
      BY <1>1, <3>1 DEF KnownInv
    <3>4. j < 1
      BY <1>1, <3>1, <3>2, <3>3 DEF FinishInv
    <3>5. j \in Nat \ {0}
      BY <1>1
    <3>6. QED
      BY <3>4, <3>5
  <2>3. PICK i \in Place(m)' : Kind(m, i)' = "generate"
    BY <1>1, <2>2, Kept
  <2>4. QED
    BY <2>3 DEF Granted, Place, Kind
\* A former grant was outstanding.
<1>2. ASSUME NEW m \in Node, NEW i \in Place(m)', Kind(m, i)' = "generate", Former(n, m, i)
      PROVE  m \in Granted /\ (m = n => Kind(n, 1) # "generate")
  <2> DEFINE a == Was(n, m, i)
  <2>1. a \in Place(m) /\ Kind(m, a) = "generate" /\ (m = n => a # 1)
    BY <1>2 DEF Former
  <2> HIDE DEF a
  <2>2. m \in Granted
    BY <2>1 DEF Granted, Place, Kind
  <2>3. m = n => Kind(n, 1) # "generate"
    BY <2>1 DEF TokenInv
  <2>4. QED
    BY <2>2, <2>3
\* A fresh one goes to the actor that asked.
<1>3. ASSUME NEW m \in Node, NEW i \in Place(m)', Kind(m, i)' = "generate",
             Fresh(n, first, status, m, i)
      PROVE  Granting /\ m = s
  <2>1. Kind(n, 1) = "request" /\ m = s /\ size' = size + Binomial
    BY <1>3 DEF Fresh
  <2>2. size' # size
    BY <2>1
  <2>3. QED
    BY <2>1, <2>2
<1>4. Granted' \subseteq (Granted \cup (IF Granting THEN {s} ELSE {}))
  <2>1. ASSUME NEW m \in Node, m \in Granted'
        PROVE  m \in Granted \/ (Granting /\ m = s)
    <3>1. PICK i \in Place(m)' : Kind(m, i)' = "generate"
      BY <2>1 DEF Granted, Place, Kind
    <3>2. QED
      BY <1>2, <1>3, <3>1, FormerOrFresh
  <2>2. \A m \in Granted' : m \in Node
    BY DEF Granted
  <2>3. QED
    BY <2>1, <2>2
<1>5. \A m \in Granted : m # n \/ Kind(n, 1) # "generate" => m \in Granted'
  <2> SUFFICES ASSUME NEW m \in Granted, m # n \/ Kind(n, 1) # "generate"
               PROVE  m \in Granted'
    OBVIOUS
  <2>1. PICK j \in Place(m) : Kind(m, j) = "generate"
    BY DEF Granted, Place, Kind
  <2>2. m \in Node
    BY DEF Granted
  <2>3. m = n => j # 1
    BY <2>1
  <2>4. QED
    BY <1>1, <2>1, <2>2, <2>3
<1>6. CASE Kind(n, 1) = "generate"
  <2>1. n \in Granted
    BY <1>6 DEF Granted, Place, Kind
  <2>2. n \notin Granted'
    <3>1. SUFFICES ASSUME n \in Granted'
                   PROVE  FALSE
      OBVIOUS
    <3>2. PICK i \in Place(n)' : Kind(n, i)' = "generate"
      BY <3>1 DEF Granted, Place, Kind
    <3>3. QED
      BY <1>2, <1>3, <1>6, <3>2, FormerOrFresh
  <2>3. QED
    BY <1>4, <1>5, <1>6, <2>1, <2>2
<1>7. CASE Granting
  <2>1. n = Root /\ s \in Known /\ s \in Node
    BY <1>7 DEF KnownInv, Known
  <2>2. s \notin Granted
    <3>1. SUFFICES ASSUME s \in Granted
                   PROVE  FALSE
      OBVIOUS
    <3>2. PICK j \in Place(s) : Kind(s, j) = "generate"
      BY <3>1 DEF Granted, Place, Kind
    <3>3. QED
      BY <1>7, <2>1, <3>2 DEF TokenInv
  <2>3. s \in Granted'
    <3>1. 1 \in DOMAIN sends[s] /\ sends[s][1].type = "generate"
      BY <1>7, <2>1 DEF Handling, Sends
    <3>2. life[s] # "exited" /\ ~(status = "exited" /\ s = n)
      <4>1. life[Root] # "exited"
        BY <2>1
      <4>2. status # "exited"
        BY <1>7 DEF Handling, Reasons
      <4>3. QED
        BY <2>1, <4>1, <4>2 DEF FinishInv
    <3> HIDE DEF s
    <3>3. Delivered(n, sends, status = "exited")
      BY DEF Handling
    <3>4. PICK m \in Node : m = s
      BY <2>1
    <3>5. PICK i \in Place(m)' : mailbox'[m][i] = sends[m][1]
      <4>1. 1 \in DOMAIN sends[m] /\ life[m] # "exited" /\ ~(status = "exited" /\ m = n)
        BY <3>1, <3>2, <3>4
      <4>2. Left(n, m) + 1 \in Place(m)' /\ mailbox'[m][Left(n, m) + 1] = sends[m][1]
        BY <3>3, <4>1 DEF Delivered
      <4>3. QED
        BY <4>2
    <3>6. mailbox'[m][i].type = "generate"
      BY <3>1, <3>4, <3>5
    <3>7. m \in Granted'
      BY <3>5, <3>6 DEF Granted, Place
    <3>8. QED
      BY <3>4, <3>7
  <2>4. Kind(n, 1) # "generate"
    BY <1>7
  <2>5. Granted' = Granted \cup {s}
    BY <1>4, <1>5, <1>7, <2>3, <2>4
  <2>6. QED
    BY <1>7, <2>1, <2>2, <2>4, <2>5
<1>8. CASE Kind(n, 1) # "generate" /\ ~Granting
  <2>1. Granted' \subseteq Granted
    BY <1>4, <1>8
  <2>2. Granted \subseteq Granted'
    BY <1>5, <1>8
  <2>3. Granted' = Granted
    BY <2>1, <2>2 DEF Granted
  <2>4. QED
    BY <1>8, <2>3
<1>9. QED
  BY <1>6, <1>7, <1>8

\* The size of the tree counts the actors and the grants on their way.
LEMMA SizeKeeps ==
  ASSUME TreeInv, CountInv, NEW n \in Node, NEW sends, NEW first, NEW status,
         Handling(n, sends, first, status)
  PROVE  NoGrantLost'
<1> USE After, Types DEF TreeInv
<1> DEFINE k == Cardinality(Known)
           g == Cardinality(Granted)
<1>1. k \in Nat /\ g \in Nat /\ IsFiniteSet(Known) /\ IsFiniteSet(Granted)
  BY Finite
<1>2. size = k + Binomial * g
  BY LatchKeeps DEF CountInv, NoGrantLost
<1>3. /\ first # NoChildren => Kind(n, 1) \in {"generate", "tree"}
      /\ Kind(n, 1) \in {"generate", "tree"} => first # NoChildren
      /\ size' # size => Kind(n, 1) \in {"tree", "request"} /\ size' = size + Binomial
      /\ Kind(n, 1) = "tree" => size' = size + Binomial
      /\ Kind(n, 1) = "generate" => size' = size
  BY DEF Handling, Reasons
<1>4. Cardinality(Known') = IF first = NoChildren THEN k ELSE k + Binomial
  <2>1. CASE first = NoChildren
    <3>1. Known' = Known \cup Children(first) /\ Children(first) = {}
      BY <2>1
    <3>2. QED
      BY <2>1, <3>1
  <2>2. CASE first # NoChildren
    <3>1. IsFiniteSet(Children(first)) /\ Cardinality(Children(first)) = Binomial
      BY <2>2, Finite
    <3>2. Known \cap Children(first) = {}
      OBVIOUS
    <3>3. QED
      BY <1>1, <2>2, <3>1, <3>2, CountUnion
  <2>3. QED
    BY <2>1, <2>2
<1>5. Cardinality(Granted') = IF Kind(n, 1) = "generate" THEN g - 1
                              ELSE IF Kind(n, 1) = "request" /\ size' # size THEN g + 1 ELSE g
  <2>1. CASE Kind(n, 1) = "generate"
    <3>1. n \in Granted /\ Granted' = Granted \ {n}
      BY <2>1, GrantedAfter
    <3>2. QED
      BY <1>1, <2>1, <3>1, FS_RemoveElement
  <2>2. CASE Kind(n, 1) = "request" /\ size' # size
    <3>1. PICK s \in Node : s \notin Granted /\ Granted' = Granted \cup {s}
      BY <2>2, GrantedAfter
    <3>2. QED
      BY <1>1, <2>2, <3>1, FS_AddElement
  <2>3. CASE Kind(n, 1) # "generate" /\ ~(Kind(n, 1) = "request" /\ size' # size)
    BY <2>3, GrantedAfter
  <2>4. QED
    BY <2>1, <2>2, <2>3
<1> HIDE DEF k, g
<1>6. size' = Cardinality(Known') + Binomial * Cardinality(Granted')
  <2>1. /\ Binomial * (g + 1) = Binomial * g + Binomial
        /\ Binomial * (g - 1) = Binomial * g - Binomial
        /\ Binomial * g \in Int
    BY <1>1
  <2>2. CASE Kind(n, 1) = "generate"
    BY <1>1, <1>2, <1>3, <1>4, <1>5, <2>1, <2>2
  <2>3. CASE Kind(n, 1) = "tree"
    BY <1>1, <1>2, <1>3, <1>4, <1>5, <2>1, <2>3
  <2>4. CASE Kind(n, 1) = "request" /\ size' # size
    BY <1>1, <1>2, <1>3, <1>4, <1>5, <2>1, <2>4
  <2>5. CASE Kind(n, 1) \notin {"generate", "tree", "request"} \/ size' = size
    BY <1>1, <1>2, <1>3, <1>4, <1>5, <2>1, <2>2, <2>5
  <2>6. QED
    BY <2>2, <2>3, <2>4, <2>5
<1>7. QED
  BY <1>6 DEF NoGrantLost

-----------------------------------------------------------------------------
(* The traversal.                                                          *)

\* A node has been traversed, or is going to be: it is not overtaken.
Traversed(c) == visits[c] # 0 \/ \E i \in Place(c) : Kind(c, i) = "traverse"

\* A node has told its children to traverse.
Told(p) == IF p = Root THEN life[Root] = "exited" ELSE visits[p] # 0

\* Every node is traversed at most once, and has no children to come by then.
VisitInv ==
  /\ visits[Root] = 0
  /\ \A m \in Node :
       /\ visits[m] \in {0, 1}
       /\ visits[m] # 0 => /\ life[Root] = "exited" /\ m \in Known
                           /\ \A i \in Place(m) : Kind(m, i) # "generate"
       /\ \A i \in Place(m) : Kind(m, i) = "traverse" => visits[m] = 0
       /\ \A i, j \in Place(m) : Kind(m, i) = "traverse" /\ Kind(m, j) = "traverse" => i = j

\* The children of an actor are traversed once it has told them to, and no actor but
\* the root is terminated before that.
ToldInv ==
  /\ \A p, q \in Node : p # q => Children(firstChild[p]) \cap Children(firstChild[q]) = {}
  /\ \A p \in Node : \A c \in Children(firstChild[p]) : Told(p) <=> Traversed(c)
  /\ \A c \in Node \ {Root} :
       /\ \A i \in Place(c) : Kind(c, i) = "terminate" =>
            visits[c] # 0 \/ \E j \in Place(c) : j < i /\ Kind(c, j) = "traverse"
       /\ life[c] = "exited" => visits[c] # 0

\* Actor n tells its children to traverse.
Telling(n, status) == Kind(n, 1) = "traverse" \/ (n = Root /\ status = "exited")

\* What a handler does to the visits, and who is told.
LEMMA VisitsAfter ==
  ASSUME TreeInv, VisitInv, ToldInv, NEW n \in Node, NEW sends, NEW first, NEW status,
         Handling(n, sends, first, status)
  PROVE  /\ Kind(n, 1) = "traverse" => visits[n] = 0 /\ visits'[n] = 1 /\ n # Root
         /\ Kind(n, 1) # "traverse" => visits'[n] = visits[n]
         /\ \A m \in Node : m # n => visits'[m] = visits[m]
         /\ \A m \in Node : visits[m] # 0 => visits'[m] # 0
         /\ life[Root] = "exited" => life'[Root] = "exited" /\ n # Root
         /\ Telling(n, status) => ~Told(n) /\ life'[Root] = "exited"
         /\ status = "exited" /\ n # Root => Kind(n, 1) = "terminate" /\ visits[n] # 0
<1> USE After, Types DEF TreeInv
<1>1. Kind(n, 1) = "traverse" => visits[n] = 0 /\ n # Root /\ life[Root] = "exited"
  BY DEF VisitInv, KnownInv, FinishInv
<1>2. visits' = IF Kind(n, 1) = "traverse" THEN [visits EXCEPT ![n] = @ + 1] ELSE visits
  BY DEF Handling, Reasons
<1>3. /\ Kind(n, 1) = "traverse" => visits'[n] = 1
      /\ Kind(n, 1) # "traverse" => visits'[n] = visits[n]
      /\ \A m \in Node : m # n => visits'[m] = visits[m]
  BY <1>1, <1>2
<1>4. life[Root] = "exited" => life'[Root] = "exited" /\ n # Root
  OBVIOUS
<1>5. Telling(n, status) => ~Told(n) /\ life'[Root] = "exited"
  BY <1>1, <1>4 DEF Telling, Told
<1>6. status = "exited" /\ n # Root => Kind(n, 1) = "terminate" /\ visits[n] # 0
  <2>1. status = "exited" /\ n # Root => Kind(n, 1) = "terminate"
    BY DEF Handling, Reasons
  <2>2. ASSUME Kind(n, 1) = "terminate", n # Root
        PROVE  visits[n] # 0
    <3>1. ASSUME NEW j \in Place(n)
          PROVE  ~(j < 1)
      <4>1. j \in Nat \ {0}
        OBVIOUS
      <4>2. QED
        BY <4>1
    <3>2. QED
      BY <2>2, <3>1 DEF ToldInv
  <2>3. QED
    BY <2>1, <2>2
<1>7. QED
  BY <1>1, <1>3, <1>4, <1>5, <1>6

\* A node is visited once.
LEMMA VisitKeeps ==
  ASSUME TreeInv, VisitInv, ToldInv, NEW n \in Node, NEW sends, NEW first, NEW status,
         Handling(n, sends, first, status)
  PROVE  VisitInv'
<1> USE After, Types DEF TreeInv
<1>1. ASSUME NEW m \in Node
      PROVE  visits'[m] \in {0, 1}
  BY VisitsAfter DEF VisitInv
<1>2. visits'[Root] = 0
  BY VisitsAfter DEF VisitInv
<1>3. ASSUME NEW m \in Node, visits'[m] # 0
      PROVE  life'[Root] = "exited" /\ m \in Known'
  <2>1. CASE visits[m] # 0
    BY <2>1, VisitsAfter DEF VisitInv
  <2>2. CASE visits[m] = 0
    <3>1. m = n /\ Kind(n, 1) = "traverse"
      BY <1>3, <2>2, VisitsAfter
    <3>2. QED
      BY <3>1, VisitsAfter DEF Telling
  <2>3. QED
    BY <2>1, <2>2
<1>4. ASSUME NEW m \in Node, visits'[m] # 0, NEW i \in Place(m)', Kind(m, i)' = "generate"
      PROVE  FALSE
  <2>1. CASE Former(n, m, i)
    <3> DEFINE a == Was(n, m, i)
    <3>1. a \in Place(m) /\ Kind(m, a) = "generate" /\ (m = n => a # 1)
      BY <1>4, <2>1 DEF Former
    <3> HIDE DEF a
    <3>2. visits[m] = 0
      BY <3>1 DEF VisitInv
    <3>3. m = n /\ Kind(n, 1) = "traverse"
      BY <1>4, <3>2, VisitsAfter
    <3>4. a < 1 /\ a \in Nat \ {0}
      BY <3>1, <3>3 DEF FinishInv
    <3>5. QED
      BY <3>4
  <2>2. CASE Fresh(n, first, status, m, i)
    <3>1. n = Root /\ Kind(n, 1) = "request"
      BY <1>4, <2>2 DEF Fresh
    <3>2. visits[m] # 0 /\ life[Root] # "exited"
      BY <1>4, <3>1, VisitsAfter
    <3>3. QED
      BY <3>2 DEF VisitInv
  <2>3. QED
    BY <2>1, <2>2, FormerOrFresh
\* A fresh message to traverse goes to a node that is not traversed yet.
<1>5. ASSUME NEW m \in Node, NEW i \in Place(m)', Kind(m, i)' = "traverse",
             Fresh(n, first, status, m, i)
      PROVE  /\ visits[m] = 0 /\ m # n /\ i - Left(n, m) = 1
             /\ \A j \in Place(m) : Kind(m, j) # "traverse"
  <2>1. m \in Children(firstChild[n]) /\ Telling(n, status) /\ i - Left(n, m) = 1
    BY <1>5 DEF Fresh, Telling
  <2>2. ~Told(n) /\ m # n
    BY <2>1, VisitsAfter, Kids
  <2>3. ~Traversed(m)
    BY <2>1, <2>2 DEF ToldInv
  <2>4. QED
    BY <2>1, <2>2, <2>3 DEF Traversed
<1>6. ASSUME NEW m \in Node, NEW i \in Place(m)', Kind(m, i)' = "traverse", Former(n, m, i)
      PROVE  /\ Was(n, m, i) \in Place(m) /\ Kind(m, Was(n, m, i)) = "traverse"
             /\ visits'[m] = 0
  <2> DEFINE a == Was(n, m, i)
  <2>1. a \in Place(m) /\ Kind(m, a) = "traverse" /\ (m = n => a # 1)
    BY <1>6 DEF Former
  <2> HIDE DEF a
  <2>2. visits[m] = 0
    BY <2>1 DEF VisitInv
  <2>3. ~(m = n /\ Kind(n, 1) = "traverse")
    BY <2>1 DEF VisitInv
  <2>4. visits'[m] = 0
    BY <2>2, <2>3, VisitsAfter
  <2>5. QED
    BY <2>1, <2>4 DEF a
<1>7. ASSUME NEW m \in Node, NEW i \in Place(m)', Kind(m, i)' = "traverse"
      PROVE  visits'[m] = 0
  BY <1>5, <1>6, <1>7, FormerOrFresh, VisitsAfter
<1>8. ASSUME NEW m \in Node, NEW i \in Place(m)', NEW j \in Place(m)',
             Kind(m, i)' = "traverse", Kind(m, j)' = "traverse"
      PROVE  i = j
  <2>1. i \in Nat /\ j \in Nat /\ Left(n, m) \in Nat
    BY FormerOrFresh
  <2>2. CASE Former(n, m, i) /\ Former(n, m, j)
    <3>1. Was(n, m, i) = Was(n, m, j)
      BY <1>6, <1>8, <2>2 DEF VisitInv
    <3>2. QED
      BY <2>1, <3>1 DEF Was
  <2>3. CASE Fresh(n, first, status, m, i) /\ Fresh(n, first, status, m, j)
    <3>1. i - Left(n, m) = 1 /\ j - Left(n, m) = 1
      BY <1>5, <1>8, <2>3
    <3>2. QED
      BY <2>1, <3>1
  <2>4. QED
    BY <1>5, <1>6, <1>8, <2>2, <2>3, FormerOrFresh
<1>9. QED
  BY <1>1, <1>2, <1>3, <1>4, <1>7, <1>8 DEF VisitInv

\* A node that is going to be traversed, before and after a handler.
LEMMA TraversedAfter ==
  ASSUME TreeInv, VisitInv, ToldInv, NEW n \in Node, NEW sends, NEW first, NEW status,
         Handling(n, sends, first, status), NEW c \in Node \ {Root}
  PROVE  /\ Traversed(c)' <=>
              \/ Traversed(c)
              \/ c \in Children(firstChild[n]) /\ Telling(n, status)
         /\ c \in Children(firstChild[n]) /\ Telling(n, status) =>
              \E i \in Place(c)' : Kind(c, i)' = "traverse" /\ i = Left(n, c) + 1
<1> USE After, Types DEF TreeInv
<1>1. ASSUME Traversed(c)
      PROVE  Traversed(c)'
  <2>1. CASE visits[c] # 0
    BY <2>1, VisitsAfter DEF Traversed
  <2>2. CASE visits[c] = 0
    <3>1. PICK j \in Place(c) : Kind(c, j) = "traverse"
      BY <1>1, <2>2 DEF Traversed
    <3>2. CASE c = n /\ j = 1
      <4>1. visits'[c] # 0
        BY <3>1, <3>2, VisitsAfter
      <4>2. QED
        BY <4>1 DEF Traversed
    <3>3. CASE ~(c = n /\ j = 1)
      <4>1. c = n => j # 1 /\ status # "exited"
        BY <2>2, <3>3, VisitsAfter
      <4>2. PICK i \in Place(c)' : Kind(c, i)' = "traverse"
        BY <3>1, <4>1, Kept
      <4>3. QED
        BY <4>2 DEF Traversed
    <3>4. QED
      BY <3>2, <3>3
  <2>3. QED
    BY <2>1, <2>2
<1>2. ASSUME c \in Children(firstChild[n]), Telling(n, status)
      PROVE  \E i \in Place(c)' : Kind(c, i)' = "traverse" /\ i = Left(n, c) + 1
  <2>1. c # n /\ ~Traversed(c)
    BY <1>2, Kids, VisitsAfter DEF ToldInv
  <2>2. life[c] # "exited"
    BY <2>1 DEF ToldInv, Traversed
  <2>3. 1 \in DOMAIN sends[c] /\ sends[c][1].type = "traverse"
    BY <1>2 DEF Telling, Handling, Sends
  <2>4. Left(n, c) + 1 \in Place(c)' /\ mailbox'[c][Left(n, c) + 1] = sends[c][1]
    BY <2>1, <2>2, <2>3 DEF Handling, Delivered
  <2>5. PICK i \in Place(c)' : i = Left(n, c) + 1 /\ mailbox'[c][i] = sends[c][1]
    BY <2>4
  <2>6. Kind(c, i)' = "traverse"
    BY <2>3, <2>5 DEF Kind
  <2>7. QED
    BY <2>5, <2>6
<1>3. ASSUME Traversed(c)', ~Traversed(c)
      PROVE  c \in Children(firstChild[n]) /\ Telling(n, status)
  <2>1. visits'[c] = 0
    <3>1. visits[c] = 0 /\ ~(c = n /\ Kind(n, 1) = "traverse")
      BY <1>3 DEF Traversed
    <3>2. QED
      BY <3>1, VisitsAfter
  <2>2. PICK i \in Place(c)' : Kind(c, i)' = "traverse"
    BY <1>3, <2>1 DEF Traversed
  <2>3. ~Former(n, c, i)
    BY <1>3, <2>2 DEF Former, Traversed
  <2>4. Fresh(n, first, status, c, i)
    BY <2>3, FormerOrFresh
  <2>5. QED
    BY <2>2, <2>4 DEF Fresh, Telling
<1>4. (c \in Children(firstChild[n]) /\ Telling(n, status)) => Traversed(c)'
  BY <1>2 DEF Traversed
<1>5. QED
  BY <1>1, <1>2, <1>3, <1>4

\* The messages to traverse are not overtaken.
LEMMA ToldKeeps ==
  ASSUME TreeInv, VisitInv, ToldInv, NEW n \in Node, NEW sends, NEW first, NEW status,
         Handling(n, sends, first, status)
  PROVE  ToldInv'
<1> USE After, Types DEF TreeInv
<1>1. \A p \in Node : firstChild'[p] = IF p = n /\ first # NoChildren THEN first ELSE firstChild[p]
  BY DEF Handling
\* Children have one parent.
<1>2. ASSUME NEW p \in Node, NEW q \in Node, p # q
      PROVE  Children(firstChild'[p]) \cap Children(firstChild'[q]) = {}
  <2>1. Children(firstChild[p]) \subseteq Known /\ Children(firstChild[q]) \subseteq Known
    BY Kids
  <2>2. Children(firstChild[p]) \cap Children(firstChild[q]) = {}
    BY <1>2 DEF ToldInv
  <2>3. CASE firstChild'[p] = firstChild[p] /\ firstChild'[q] = firstChild[q]
    BY <2>2, <2>3
  <2>4. CASE firstChild'[p] = first /\ firstChild'[q] = firstChild[q]
    BY <2>1, <2>4
  <2>5. CASE firstChild'[p] = firstChild[p] /\ firstChild'[q] = first
    BY <2>1, <2>5
  <2>6. QED
    BY <1>1, <1>2, <2>3, <2>4, <2>5
\* New children are not traversed, and have not been told.
<1>3. ASSUME NEW c \in Children(first), first # NoChildren
      PROVE  ~Told(n)' /\ ~Traversed(c)'
  <2>1. Kind(n, 1) \in {"generate", "tree"} /\ status = "started"
    BY <1>3 DEF Handling, Reasons
  <2>2. ~Told(n)'
    <3>1. CASE n = Root
      BY <2>1, <3>1 DEF Told
    <3>2. CASE n # Root
      <4>1. Kind(n, 1) = "generate"
        BY <2>1, <3>2 DEF KnownInv
      <4>2. visits[n] = 0 /\ visits'[n] = visits[n]
        BY <4>1, VisitsAfter DEF VisitInv
      <4>3. QED
        BY <3>2, <4>2 DEF Told
    <3>3. QED
      BY <3>1, <3>2
  <2>3. c \in Node \ {Root} /\ c \notin Known /\ Place(c) = {}
    OBVIOUS
  <2>4. ~Traversed(c)
    BY <2>3 DEF Traversed, VisitInv
  <2>5. ~Telling(n, status)
    BY <2>1 DEF Telling
  <2>6. QED
    BY <2>2, <2>3, <2>4, <2>5, TraversedAfter
<1>4. ASSUME NEW p \in Node
      PROVE  Told(p)' <=> Told(p) \/ (p = n /\ Telling(n, status))
  <2>1. CASE p = Root
    <3>1. Kind(n, 1) = "traverse" => n # Root
      BY VisitsAfter
    <3>2. life'[Root] = "exited" <=> life[Root] = "exited" \/ (n = Root /\ status = "exited")
      OBVIOUS
    <3>3. QED
      BY <2>1, <3>1, <3>2 DEF Told, Telling
  <2>2. CASE p # Root
    <3>1. visits'[p] # 0 <=> visits[p] # 0 \/ (p = n /\ Kind(n, 1) = "traverse")
      BY VisitsAfter
    <3>2. QED
      BY <2>2, <3>1 DEF Told, Telling
  <2>3. QED
    BY <2>1, <2>2
<1>5. ASSUME NEW p \in Node, NEW c \in Children(firstChild'[p])
      PROVE  Told(p)' <=> Traversed(c)'
  <2>1. CASE p = n /\ first # NoChildren
    BY <1>1, <1>3, <1>5, <2>1
  <2>2. CASE ~(p = n /\ first # NoChildren)
    <3>1. c \in Children(firstChild[p])
      BY <1>1, <1>5, <2>2
    <3>2. c \in Node \ {Root} /\ (Told(p) <=> Traversed(c))
      BY <3>1, Kids DEF ToldInv
    <3>3. c \in Children(firstChild[n]) <=> p = n
      BY <3>1 DEF ToldInv
    <3>4. Traversed(c)' <=> Traversed(c) \/ (c \in Children(firstChild[n]) /\ Telling(n, status))
      BY <3>2, TraversedAfter
    <3>5. QED
      BY <1>4, <3>2, <3>3, <3>4
  <2>3. QED
    BY <2>1, <2>2
\* A message to terminate is behind one to traverse.
<1>6. ASSUME NEW c \in Node \ {Root}, NEW j \in Place(c), Kind(c, j) = "traverse",
             NEW i \in Place(c)', visits'[c] = 0, i > Left(n, c) \/ Was(n, c, i) > j
      PROVE  \E k \in Place(c)' : k < i /\ Kind(c, k)' = "traverse"
  <2>1. c = n => j # 1
    BY <1>6, VisitsAfter
  <2>2. c = n => status # "exited"
    <3>1. visits[c] = 0
      BY <1>6, VisitsAfter
    <3>2. QED
      BY <3>1, VisitsAfter
  <2>3. PICK k \in Place(c)' : Was(n, c, k) = j /\ k <= Left(n, c) /\ Kind(c, k)' = "traverse"
    BY <1>6, <2>1, <2>2, Kept
  <2>4. i \in Nat /\ k \in Nat /\ Left(n, c) \in Nat
    BY FormerOrFresh
  <2>5. k < i
    BY <1>6, <2>3, <2>4 DEF Was
  <2>6. QED
    BY <2>3, <2>5
<1>7. ASSUME NEW c \in Node \ {Root}, NEW i \in Place(c)', Kind(c, i)' = "terminate",
             visits'[c] = 0
      PROVE  \E j \in Place(c)' : j < i /\ Kind(c, j)' = "traverse"
  <2>1. visits[c] = 0
    BY <1>7, VisitsAfter
  <2>2. CASE Former(n, c, i)
    <3> DEFINE a == Was(n, c, i)
    <3>1. a \in Place(c) /\ Kind(c, a) = "terminate"
      BY <1>7, <2>2 DEF Former
    <3> HIDE DEF a
    <3>2. PICK j \in Place(c) : j < a /\ Kind(c, j) = "traverse"
      BY <2>1, <3>1 DEF ToldInv
    <3>3. a > j
      <4>1. a \in Nat /\ j \in Nat
        BY <3>1
      <4>2. QED
        BY <3>2, <4>1
    <3>4. QED
      BY <1>6, <1>7, <3>2, <3>3 DEF a
  <2>3. CASE i > Left(n, c) /\ Fresh(n, first, status, c, i)
    <3>1. /\ c \in Children(firstChild[n]) /\ status = "exited"
          /\ i - Left(n, c) = IF n = Root THEN 2 ELSE 1
      BY <1>7, <2>3 DEF Fresh
    <3>2. CASE n = Root
      <4>1. PICK j \in Place(c)' : Kind(c, j)' = "traverse" /\ j = Left(n, c) + 1
        BY <3>1, <3>2, TraversedAfter DEF Telling
      <4>2. i \in Nat /\ Left(n, c) \in Nat
        BY FormerOrFresh
      <4>3. j < i
        BY <3>1, <3>2, <4>1, <4>2
      <4>4. QED
        BY <4>1, <4>3
    <3>3. CASE n # Root
      <4>1. visits[n] # 0
        BY <3>1, <3>3, VisitsAfter
      <4>2. Traversed(c)
        BY <3>1, <3>3, <4>1 DEF ToldInv, Told
      <4>3. PICK j \in Place(c) : Kind(c, j) = "traverse"
        BY <2>1, <4>2 DEF Traversed
      <4>4. QED
        BY <1>6, <1>7, <2>3, <4>3
    <3>4. QED
      BY <3>2, <3>3
  <2>4. QED
    BY <2>2, <2>3, FormerOrFresh
<1>8. ASSUME NEW c \in Node \ {Root}, life'[c] = "exited"
      PROVE  visits'[c] # 0
  <2>1. CASE c = n
    BY <1>8, <2>1, VisitsAfter
  <2>2. CASE c # n
    BY <1>8, <2>2, VisitsAfter DEF ToldInv
  <2>3. QED
    BY <2>1, <2>2
<1>9. \A p, q \in Node : p # q => Children(firstChild'[p]) \cap Children(firstChild'[q]) = {}
  BY <1>2
<1>10. \A p \in Node : \A c \in Children(firstChild'[p]) : Told(p)' <=> Traversed(c)'
  BY <1>5
<1>11. \A c \in Node \ {Root} :
         /\ \A i \in Place(c)' : Kind(c, i)' = "terminate" =>
              visits'[c] # 0 \/ \E j \in Place(c)' : j < i /\ Kind(c, j)' = "traverse"
         /\ life'[c] = "exited" => visits'[c] # 0
  BY <1>7, <1>8
<1>12. QED
  BY <1>9, <1>10, <1>11 DEF ToldInv

-----------------------------------------------------------------------------
(* The inductive invariant.                                                *)

IterationInv == TreeInv /\ CountInv /\ VisitInv /\ ToldInv

\* No handler leaves the types.
LEMMA TypesKept ==
  ASSUME IterationInv, (\E n \in Node : ActorStep(n)) \/ RootStep
  PROVE  TypeOK'
<1> USE Types, UctAssumption DEF IterationInv, TreeInv
<1>1. PICK n \in Node : \E sends, first, status : Handling(n, sends, first, status)
  BY StepHandles
<1>2. PICK sends, first, status : Handling(n, sends, first, status)
  BY <1>1
<1>3. /\ life' \in [Node -> {"none", "created", "started", "exited"}]
      /\ mailbox' \in [Node -> Seq(Messages)]
      /\ size' \in 1..MaxNodes
      /\ loop' \in 0..LoopCount /\ main' \in {"run", "await", "done"}
  BY <1>2, After DEF Handling, MailboxType, TypeOK
<1>4. firstChild' \in [Node -> Node]
  <2>1. CASE first = NoChildren
    BY <1>2, <2>1 DEF Handling
  <2>2. CASE first # NoChildren
    <3>1. first \in Node
      BY <1>2, <2>2, After, Finite
    <3>2. firstChild' = [firstChild EXCEPT ![n] = first]
      BY <1>2, <2>2 DEF Handling
    <3>3. QED
      BY <3>1, <3>2
  <2>3. QED
    BY <2>1, <2>2
<1>5. visits' \in [Node -> Nat]
  <2>1. visits' = IF Kind(n, 1) = "traverse" THEN [visits EXCEPT ![n] = @ + 1] ELSE visits
    BY <1>2 DEF Handling, Reasons
  <2>2. QED
    BY <2>1
<1>6. latch' \in Nat
  <2>1. LatchCountsActors'
    BY <1>2, LatchKeeps
  <2>2. IsFiniteSet(Node) /\ Alive' \subseteq Node
    BY FS_Interval DEF Node, Alive
  <2>3. Cardinality(Alive') \in Nat
    BY <2>2, FS_Subset, FS_CardinalityType
  <2>4. QED
    BY <2>1, <2>3 DEF LatchCountsActors
<1>7. granted' \in [Node -> SUBSET (0..(Binomial - 1))]
  <2>1. granted \in [Node -> SUBSET (0..(Binomial - 1))]
    BY DEF TypeOK
  <2>2. ASSUME NEW k \in Node, UpdateGrant(k)
        PROVE  granted' \in [Node -> SUBSET (0..(Binomial - 1))]
    <3>1. /\ Kind(k, 1) = "grant" /\ Head(mailbox[k]) = mailbox[k][1]
          /\ mailbox[k][1] \in Messages
      BY <2>2, Received DEF UpdateGrant
    <3>2. mailbox[k][1].child \in 0..(Binomial - 1)
      BY <3>1, MessageTypes DEF Kind
    <3>3. granted' = [granted EXCEPT ![k] = @ \cup {mailbox[k][1].child}]
      BY <2>2, <3>1 DEF UpdateGrant
    <3>4. QED
      BY <2>1, <3>2, <3>3
  <2>3. (\E k \in Node : UpdateGrant(k)) \/ UNCHANGED granted
    BY DEF ActorStep, RootStep, Start, TryGenerateChildren, GenerateChildren, Traverse,
           TerminateMe, GenerateTree, CheckGenerateChildrenRequest, Finish, treeVars
  <2>4. QED
    BY <2>1, <2>2, <2>3
<1>8. answered' \in Nat
  <2>1. answered \in Nat
    BY DEF TypeOK
  <2>2. answered' = answered \/ answered' = answered + 1
    BY DEF ActorStep, RootStep, Start, UpdateGrant, TryGenerateChildren, GenerateChildren,
           Traverse, TerminateMe, GenerateTree, CheckGenerateChildrenRequest, Finish, treeVars
  <2>3. QED
    BY <2>1, <2>2
<1>9. QED
  BY <1>3, <1>4, <1>5, <1>6, <1>7, <1>8 DEF TypeOK

\* The handlers of the actors.
LEMMA StepKeeps ==
  ASSUME IterationInv, (\E n \in Node : ActorStep(n)) \/ RootStep
  PROVE  IterationInv'
<1>1. PICK n \in Node : \E sends, first, status : Handling(n, sends, first, status)
  BY StepHandles DEF IterationInv
<1>2. PICK sends, first, status : Handling(n, sends, first, status)
  BY <1>1
<1>3. StartInv' /\ KnownInv' /\ GrantInv' /\ TokenInv' /\ FinishInv'
  BY <1>2, StartKeeps, KnownKeeps, GrantKeeps, TokenKeeps, FinishKeeps DEF IterationInv
<1>4. LatchCountsActors' /\ MainInv' /\ NoGrantLost'
  BY <1>2, LatchKeeps, SizeKeeps DEF IterationInv
<1>5. VisitInv' /\ ToldInv'
  BY <1>2, VisitKeeps, ToldKeeps DEF IterationInv
<1>6. TypeOK'
  BY TypesKept
<1>7. QED
  BY <1>3, <1>4, <1>5, <1>6 DEF IterationInv, TreeInv, CountInv

\* There are no actors but perhaps the root, which has yet to start.
Begun ==
  /\ TypeOK /\ MainInv
  /\ \A m \in Node : m # Root => life[m] = "none" /\ mailbox[m] = <<>>
  /\ IF loop = 0 THEN life[Root] = "none" /\ mailbox[Root] = <<>>
     ELSE life[Root] = "created" /\ mailbox[Root] = <<[type |-> "start"], [type |-> "tree"]>>
  /\ \A m \in Node : firstChild[m] = NoChildren /\ visits[m] = 0
  /\ size = 1
  /\ latch = IF loop = 0 THEN 0 ELSE 1

\* The invariant holds in such a state (runIteration).
LEMMA Beginning == Begun => IterationInv
<1> SUFFICES ASSUME Begun
             PROVE  IterationInv
  OBVIOUS
<1>0. /\ TypeOK /\ MainInv
      /\ \A m \in Node : m # Root => life[m] = "none" /\ mailbox[m] = <<>>
      /\ IF loop = 0 THEN life[Root] = "none" /\ mailbox[Root] = <<>>
         ELSE life[Root] = "created" /\ mailbox[Root] = <<[type |-> "start"], [type |-> "tree"]>>
      /\ \A m \in Node : firstChild[m] = NoChildren /\ visits[m] = 0
      /\ size = 1
      /\ latch = IF loop = 0 THEN 0 ELSE 1
  BY DEF Begun
<1> USE <1>0
<1> USE Types
<1> DEFINE x == [type |-> "start"]
           y == [type |-> "tree"]
           box == <<x, y>>
<1>1. /\ x \in Messages /\ y \in Messages /\ x.type = "start" /\ y.type = "tree"
  BY MessageTypes
<1>2. loop # 0 => mailbox[Root] = box
  OBVIOUS
<1> HIDE DEF x, y
<1>3. box \in Seq(Messages) /\ DOMAIN box = {1, 2} /\ box[1] = x /\ box[2] = y /\ DOMAIN <<>> = {}
  BY <1>1, FewMessages
<1>4. box # <<>>
  BY <1>3
<1> HIDE DEF box
<1>5. /\ \A m \in Node : m # Root => Place(m) = {}
      /\ Place(Root) = IF loop = 0 THEN {} ELSE {1, 2}
      /\ loop # 0 => Kind(Root, 1) = "start" /\ Kind(Root, 2) = "tree"
  BY <1>1, <1>2, <1>3 DEF Place, Kind
<1>6. \A m \in Node : \A i \in Place(m) :
        /\ m = Root /\ loop # 0
        /\ (i = 1 /\ Kind(m, i) = "start") \/ (i = 2 /\ Kind(m, i) = "tree")
  BY <1>5
<1>7. Known = (IF loop = 0 THEN {} ELSE {Root}) /\ Alive = Known /\ Granted = {}
  <2>1. Granted = {}
    BY <1>6 DEF Granted, Place, Kind
  <2>2. QED
    BY <2>1 DEF Known, Alive
<1>8. StartInv
  BY <1>2, <1>4, <1>5, <1>6 DEF StartInv
<1>9. KnownInv
  BY <1>6, <1>7 DEF KnownInv
<1>10. GrantInv
  BY <1>6 DEF GrantInv
<1>11. TokenInv
  BY <1>6 DEF TokenInv
<1>12. FinishInv
  BY <1>6 DEF FinishInv
<1>13. LatchCountsActors /\ NoGrantLost
  <2>1. Cardinality({}) = 0 /\ Cardinality({Root}) = 1
    BY FS_EmptySet, FS_Singleton
  <2>2. QED
    BY <1>7, <2>1 DEF LatchCountsActors, NoGrantLost
<1>14. VisitInv
  BY <1>6 DEF VisitInv
<1>15. ToldInv
  BY <1>6 DEF ToldInv
<1>16. QED
  BY <1>8, <1>9, <1>10, <1>11, <1>12, <1>13, <1>14, <1>15 DEF IterationInv, TreeInv, CountInv

\* The main thread begins an iteration, once every actor has exited.
LEMMA RunKeeps ==
  ASSUME IterationInv, RunIteration
  PROVE  IterationInv'
<1> USE UctAssumption DEF IterationInv
<1>1. Alive = {} /\ loop < LoopCount /\ loop \in Nat /\ loop' = loop + 1 /\ main' = "await"
  BY DEF RunIteration, CountInv, MainInv, TreeInv, TypeOK
<1>2. latch' = 1
  <2>1. latch = 0
    BY <1>1, FS_EmptySet DEF CountInv, LatchCountsActors
  <2>2. QED
    BY <2>1 DEF RunIteration
<1> DEFINE x == [type |-> "start"]
           y == [type |-> "tree"]
           ms == <<x, y>>
<1>3. x \in Messages /\ y \in Messages /\ ms \in Seq(Messages)
  <2>1. x \in Messages /\ y \in Messages
    BY MessageTypes
  <2> HIDE DEF x, y
  <2>2. QED
    BY <2>1, FewMessages
<1>4. mailbox' = ToAll({Root}, ms)
  BY DEF RunIteration
<1> HIDE DEF ms
<1>5. /\ mailbox' \in [Node -> Seq(Messages)]
      /\ \A m \in Node : mailbox'[m] = IF m = Root THEN ms ELSE <<>>
  BY <1>3, <1>4, ToAllSends
<1>6. /\ life' = [n \in Node |-> IF n = Root THEN "created" ELSE "none"]
      /\ firstChild' = [n \in Node |-> NoChildren]
      /\ granted' = [n \in Node |-> {}]
      /\ size' = 1 /\ answered' = 0
      /\ visits' = [n \in Node |-> 0]
  BY DEF RunIteration
<1>7. Root \in Node /\ NoChildren \in Node /\ MaxNodes \in Nat /\ 1 \in 1..MaxNodes
  BY DEF Node, Root, NoChildren
<1>8. TypeOK'
  BY <1>1, <1>2, <1>5, <1>6, <1>7 DEF TypeOK
<1>9. MainInv'
  BY <1>1 DEF MainInv
<1>10. loop' # 0
  BY <1>1
<1>11. Begun'
  BY <1>2, <1>5, <1>6, <1>7, <1>8, <1>9, <1>10 DEF Begun, ms
<1>12. QED
  BY <1>11, Beginning, PTL

\* The main thread goes on when the latch is open: no actor is left then.
LEMMA AwaitKeeps ==
  ASSUME IterationInv, AwaitTermination
  PROVE  IterationInv'
<1> USE UctAssumption DEF IterationInv
<1>1. /\ Alive = {} /\ loop' = loop /\ main' \in {"run", "done"}
      /\ main' = "run" => loop < LoopCount
      /\ UNCHANGED <<latch, loop, life, mailbox, treeVars>>
  <2>1. Cardinality(Alive) = 0 /\ IsFiniteSet(Alive)
    BY Finite DEF AwaitTermination, CountInv, LatchCountsActors, TreeInv
  <2>2. QED
    BY <2>1, FS_EmptySet DEF AwaitTermination
<1>2. TypeOK'
  BY <1>1 DEF TreeInv, TypeOK, treeVars
<1>3. /\ StartInv' /\ KnownInv' /\ GrantInv'
      /\ TokenInv' /\ FinishInv'
  <2>1. StartInv'
    BY <1>1 DEF TreeInv, StartInv, Place, Kind
  <2>2. KnownInv'
    BY <1>1 DEF TreeInv, KnownInv, Known, Place, Kind, treeVars
  <2>3. GrantInv'
    BY <1>1 DEF TreeInv, GrantInv, Known, Place, Kind, treeVars
  <2>4. TokenInv'
    BY <1>1 DEF TreeInv, TokenInv, Place, Kind
  <2>5. FinishInv'
    BY <1>1 DEF TreeInv, FinishInv, Place, Kind, treeVars
  <2>6. QED
    BY <2>1, <2>2, <2>3, <2>4, <2>5
<1>4. VisitInv' /\ ToldInv'
  BY <1>1 DEF VisitInv, ToldInv, Known, Place, Kind, Told, Traversed, treeVars
<1>5. LatchCountsActors' /\ NoGrantLost'
  BY <1>1 DEF CountInv, LatchCountsActors, NoGrantLost, Alive, Known, Granted, treeVars
<1>6. MainInv'
  <2>1. loop > 0
    BY DEF AwaitTermination, CountInv, MainInv
  <2>2. QED
    BY <1>1, <2>1 DEF MainInv, Alive
<1>7. QED
  BY <1>2, <1>3, <1>4, <1>5, <1>6 DEF TreeInv, CountInv

\* The inductive invariant holds of every behaviour.
THEOREM IterationInvariant == Spec => []IterationInv
<1>1. Init => IterationInv
  <2> SUFFICES ASSUME Init
               PROVE  IterationInv
    OBVIOUS
  <2> USE UctAssumption
  <2>1. TypeOK
    <3>1. <<>> \in Seq(Messages)
      OBVIOUS
    <3>2. NoChildren \in Node /\ 1 \in 1..MaxNodes
      BY DEF Node, NoChildren
    <3>3. QED
      BY <3>1, <3>2 DEF Init, TypeOK
  <2>2. MainInv /\ loop = 0
    BY DEF Init, MainInv, Alive
  <2>3. Root \in Node
    BY DEF Node, Root
  <2>4. QED
    BY <2>1, <2>2, <2>3, Beginning DEF Init, Begun
<1>2. IterationInv /\ [Next]_vars => IterationInv'
  <2> SUFFICES ASSUME IterationInv, [Next]_vars
               PROVE  IterationInv'
    OBVIOUS
  <2>1. CASE (\E n \in Node : ActorStep(n)) \/ RootStep
    BY <2>1, StepKeeps
  <2>2. CASE RunIteration
    BY <2>2, RunKeeps
  <2>3. CASE AwaitTermination
    BY <2>3, AwaitKeeps
  <2>4. CASE UNCHANGED vars
    <3>1. UNCHANGED <<latch, loop, main, life, mailbox, firstChild, granted, size, answered,
                      visits>>
      BY <2>4 DEF vars
    <3>2. TypeOK'
      BY <3>1 DEF IterationInv, TreeInv, TypeOK
    <3>3. StartInv'
      BY <3>1 DEF IterationInv, TreeInv, StartInv, Place, Kind
    <3>4. KnownInv'
      BY <3>1 DEF IterationInv, TreeInv, KnownInv, Known, Place, Kind
    <3>5. GrantInv'
      BY <3>1 DEF IterationInv, TreeInv, GrantInv, Known, Place, Kind
    <3>6. TokenInv'
      BY <3>1 DEF IterationInv, TreeInv, TokenInv, Place, Kind
    <3>7. FinishInv'
      BY <3>1 DEF IterationInv, TreeInv, FinishInv, Place, Kind
    <3>8. VisitInv'
      BY <3>1 DEF IterationInv, VisitInv, Known, Place, Kind
    <3>9. ToldInv'
      BY <3>1 DEF IterationInv, ToldInv, Place, Kind, Told, Traversed
    <3>10. CountInv'
      BY <3>1 DEF IterationInv, CountInv, LatchCountsActors, NoGrantLost, MainInv, Alive, Known,
                  Granted
    <3>11. QED
      BY <3>2, <3>3, <3>4, <3>5, <3>6, <3>7, <3>8, <3>9, <3>10 DEF IterationInv, TreeInv
  <2>5. QED
    BY <2>1, <2>2, <2>3, <2>4 DEF Next, MainStep
<1>3. QED
  BY <1>1, <1>2, PTL DEF Spec

-----------------------------------------------------------------------------
(* The properties.                                                         *)

\* The variables have their types: the ids of new actors stay below MaxNodes, and the
\* latch does not go below zero (countDown and countUp of actorLatch).
THEOREM TypeCorrect == Spec => []TypeOK
BY IterationInvariant, PTL DEF IterationInv, TreeInv

\* No actor handles another message before its start message (startActor sends it as
\* soon as the actor has been created).
THEOREM StartedCorrect == Spec => []StartedFirst
<1>1. IterationInv => StartedFirst
  <2>1. ASSUME IterationInv, NEW n \in Node, life[n] = "created"
        PROVE  mailbox[n] # <<>> /\ Head(mailbox[n]).type = "start"
    <3>1. mailbox[n] # <<>> /\ mailbox[n][1].type = "start" /\ mailbox[n] \in Seq(Messages)
      BY <2>1, Types DEF IterationInv, TreeInv, StartInv, Kind, MailboxType
    <3>2. Head(mailbox[n]) = mailbox[n][1]
      BY <3>1, Behind
    <3>3. QED
      BY <3>1, <3>2
  <2>2. QED
    BY <2>1 DEF StartedFirst
<1>2. QED
  BY <1>1, IterationInvariant, PTL

\* actorLatch counts the actors that have not exited, so that awaitTermination returns
\* only when there is none.
THEOREM LatchCorrect == Spec => []LatchCountsActors
<1>1. IterationInv => LatchCountsActors
  BY DEF IterationInv, CountInv
<1>2. QED
  BY <1>1, IterationInvariant, PTL

\* The size that the root keeps is that of the tree and of the grants on their way: no
\* grant is lost to an actor that has been terminated.
THEOREM GrantsCorrect == Spec => []NoGrantLost
<1>1. IterationInv => NoGrantLost
  BY DEF IterationInv, CountInv
<1>2. QED
  BY <1>1, IterationInvariant, PTL

\* When awaitTermination returns, the tree is complete, every actor has exited, and all
\* but the root have been traversed once.
THEOREM IterationCorrect == Spec => []IterationComplete
<1>1. IterationInv => IterationComplete
  <2> SUFFICES ASSUME IterationInv, (main = "await" /\ latch = 0) \/ main = "done"
               PROVE  /\ Known = 0..(size - 1) /\ size + Binomial > MaxNodes
                      /\ \A n \in Known : life[n] = "exited" /\ (n # Root => visits[n] = 1)
    BY DEF IterationComplete
  <2> USE Types DEF IterationInv, TreeInv
  <2>1. Alive = {} /\ loop > 0
    <3>1. latch = 0 => Alive = {}
      BY Finite, FS_EmptySet DEF CountInv, LatchCountsActors
    <3>2. QED
      BY <3>1 DEF CountInv, MainInv
  <2>2. \A n \in Node : life[n] \in {"none", "exited"}
    BY <2>1 DEF Alive
  <2>3. Root \in Known
    BY <2>1 DEF KnownInv
  <2>4. \A n \in Known : n \in Node /\ life[n] = "exited"
    BY <2>2 DEF Known
  <2>5. size + Binomial > MaxNodes
    BY <2>3, <2>4 DEF FinishInv
  <2>6. ASSUME NEW n \in Known, n # Root
        PROVE  visits[n] = 1
    <3>1. n \in Node /\ visits[n] # 0
      BY <2>4, <2>6 DEF ToldInv
    <3>2. QED
      BY <3>1 DEF VisitInv
  <2>7. Granted = {}
    <3>1. \A n \in Node : DOMAIN mailbox[n] = {}
      BY <2>2, FewMessages DEF StartInv
    <3>2. QED
      BY <3>1 DEF Granted
  <2>8. Known = 0..(size - 1)
    <3>1. size = Cardinality(Known)
      <4>1. Cardinality(Granted) = 0 /\ Cardinality(Known) \in Nat
        BY <2>7, Finite, FS_EmptySet
      <4>2. Binomial * 0 = 0
        OBVIOUS
      <4>3. QED
        BY <2>1, <4>1, <4>2 DEF CountInv, NoGrantLost
    <3>2. Known \subseteq 0..(size - 1)
      BY <2>4 DEF KnownInv
    <3>3. IsFiniteSet(0..(size - 1)) /\ Cardinality(0..(size - 1)) = size
      <4>1. PICK b \in Int : b = size - 1 /\ ~(0 > b)
        OBVIOUS
      <4>2. IsFiniteSet(0..b) /\ Cardinality(0..b) = b - 0 + 1
        BY <4>1, FS_Interval
      <4>3. QED
        BY <4>1, <4>2
    <3>4. QED
      BY <3>1, <3>2, <3>3, FS_Subset
  <2>9. QED
    BY <2>4, <2>5, <2>6, <2>8
<1>2. QED
  BY <1>1, IterationInvariant, PTL
=============================================================================
