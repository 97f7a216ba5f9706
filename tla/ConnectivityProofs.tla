------------------------- MODULE ConnectivityProofs -------------------------
(***************************************************************************)
(* Three invariants of Connectivity: its types, the private key and the    *)
(* peers that the loop never costs the tunnel, and the notifications that  *)
(* are dropped only by newer ones.                                         *)
(*                                                                         *)
(* None of the three is inductive.  The loop adds the link only where it   *)
(* finds none, so the key and the peers are kept because a link that is    *)
(* missing was deleted (LinkInv).  The queue drops the entry at its right  *)
(* end, which is old enough because an entry at place i has at least i - 1 *)
(* newer ones, however many entries were cleared in between (Aged).        *)
(***************************************************************************)
EXTENDS Connectivity, SequenceTheorems, TLAPS

\* The addresses from the k-th on.
From(k) == SubSeq(Addresses, k, Len(Addresses))

\* The loop has a link to set the next address on, and sets them in order.
LoopInv ==
  /\ loop \in [pc : {"check", "show", "add", "replace", "up"}, todo : Seq(Range(Addresses))]
  /\ IF loop.pc = "replace" THEN \E k \in 1..Len(Addresses) : loop.todo = From(k)
                            ELSE loop.todo = <<>>

\* The link is there, or somebody deleted it; so with the key and the peers.
LinkInv ==
  /\ link \in BOOLEAN /\ isUp \in BOOLEAN /\ configured \in BOOLEAN /\ lost \in BOOLEAN
  /\ addresses \subseteq Range(Addresses)
  /\ (link /\ configured) \/ lost

\* Every number the queue or a page holds was given to a notification.
NoteInv ==
  /\ added \in 0..MaxNotes /\ asked \subseteq 1..added
  /\ queue \in Seq(1..added) /\ Len(queue) <= MaxQueue
  /\ shown \in [Pages -> Seq(1..added)]

\* The entry at place i is one of the oldest added - i + 1 notifications.
Aged == \A i \in 1..Len(queue) : queue[i] <= added - i + 1

CountInv == drift \in 0..MaxDrift /\ restarts \in 0..MaxRestarts

ConnInv == LoopInv /\ LinkInv /\ NoteInv /\ Aged /\ OnlyOldAreDropped /\ CountInv

-----------------------------------------------------------------------------
(* The queue *)

\* A new entry is the first, and the last one goes when the queue was full.
LEMMA PushEffect ==
  ASSUME NEW m \in Nat, NEW q \in Seq(1..m)
  PROVE  /\ Push(q, m + 1) \in Seq(1..(m + 1))
         /\ Len(Push(q, m + 1)) = IF Len(q) < MaxQueue THEN Len(q) + 1 ELSE MaxQueue
         /\ \A i \in 1..Len(Push(q, m + 1)) :
              Push(q, m + 1)[i] = IF i = 1 THEN m + 1 ELSE q[i - 1]
<1> DEFINE s == <<m + 1>> \o q
           n == IF Len(q) < MaxQueue THEN Len(q) + 1 ELSE MaxQueue
<1>1. <<m + 1>> \in Seq(1..(m + 1)) /\ Len(<<m + 1>>) = 1 /\ <<m + 1>>[1] = m + 1
  OBVIOUS
<1>2. q \in Seq(1..(m + 1)) /\ Len(q) \in Nat
  <2>1. 1..m \subseteq 1..(m + 1) OBVIOUS
  <2> QED BY <2>1, SeqMonotonic, LenProperties
<1>3. /\ s \in Seq(1..(m + 1)) /\ Len(s) = Len(q) + 1
      /\ \A i \in 1..(Len(q) + 1) : s[i] = IF i = 1 THEN m + 1 ELSE q[i - 1]
  BY <1>1, <1>2, ConcatProperties, Z3
<1>4. n \in 1..(Len(q) + 1)
  BY <1>2, ConnectivityAssumption
<1>5. \A i \in 1..n : s[i] \in 1..(m + 1)
  BY <1>2, <1>3, <1>4, ElementOfSeq
<1>6. /\ SubSeq(s, 1, n) \in Seq(1..(m + 1)) /\ Len(SubSeq(s, 1, n)) = n
      /\ \A i \in 1..n : SubSeq(s, 1, n)[i] = s[i]
  <2> HIDE DEF s, n
  <2> QED BY <1>4, <1>5, <1>2, SubSeqProperties
<1> QED
  BY <1>3, <1>4, <1>6, <1>2 DEF Push

\* The entries after the one removed move up by one place.
LEMMA RemoveAtEffect ==
  ASSUME NEW S, NEW q \in Seq(S), NEW j \in 1..Len(q)
  PROVE  /\ RemoveAt(q, j) \in Seq(S) /\ Len(RemoveAt(q, j)) = Len(q) - 1
         /\ \A i \in 1..(Len(q) - 1) :
              RemoveAt(q, j)[i] = IF i < j THEN q[i] ELSE q[i + 1]
<1> DEFINE a == SubSeq(q, 1, j - 1)
           b == SubSeq(q, j + 1, Len(q))
<1>1. Len(q) \in Nat /\ \A i \in 1..Len(q) : q[i] \in S
  BY LenProperties, ElementOfSeq
<1>2. /\ a \in Seq(S) /\ Len(a) = j - 1
      /\ \A i \in 1..(j - 1) : a[i] = q[i]
  BY <1>1, SubSeqProperties
<1>3. /\ b \in Seq(S) /\ Len(b) = Len(q) - j
      /\ \A i \in 1..(Len(q) - j) : b[i] = q[j + i]
  BY <1>1, SubSeqProperties
<1>4. /\ a \o b \in Seq(S) /\ Len(a \o b) = Len(q) - 1
      /\ \A i \in 1..(Len(q) - 1) : (a \o b)[i] = IF i < j THEN q[i] ELSE q[i + 1]
  <2> HIDE DEF a, b
  <2>1. /\ a \o b \in Seq(S) /\ Len(a \o b) = Len(a) + Len(b)
        /\ \A i \in 1..(Len(a) + Len(b)) :
             (a \o b)[i] = IF i <= Len(a) THEN a[i] ELSE b[i - Len(a)]
    BY <1>2, <1>3, ConcatProperties
  <2> QED BY <1>1, <1>2, <1>3, <2>1
<1> QED
  BY <1>4 DEF RemoveAt

\* An entry that moves up is no younger than its new place allows.
LEMMA RemoveAtAged ==
  ASSUME NEW m \in Nat, NEW q \in Seq(Nat), NEW j \in 1..Len(q),
         \A i \in 1..Len(q) : q[i] <= m - i + 1
  PROVE  \A i \in 1..Len(RemoveAt(q, j)) : RemoveAt(q, j)[i] <= m - i + 1
<1>1. Len(q) \in Nat /\ Len(RemoveAt(q, j)) = Len(q) - 1
  BY LenProperties, RemoveAtEffect
<1> SUFFICES ASSUME NEW i \in 1..(Len(q) - 1) PROVE RemoveAt(q, j)[i] <= m - i + 1
  BY <1>1
<1>2. RemoveAt(q, j)[i] = IF i < j THEN q[i] ELSE q[i + 1]
  BY RemoveAtEffect
<1>3. i \in 1..Len(q) /\ i + 1 \in 1..Len(q)
  BY <1>1
<1>4. q[i] \in Nat /\ q[i + 1] \in Nat
  BY <1>3, ElementOfSeq
<1>5. q[i] <= m - i + 1 /\ q[i + 1] <= m - (i + 1) + 1
  BY <1>3
<1> QED
  BY <1>1, <1>2, <1>4, <1>5

\* clear() takes one entry with the number asked for, or nothing.
LEMMA WithoutEffect ==
  ASSUME NEW S, NEW q \in Seq(S), NEW page, NEW i
  PROVE  \/ Without(q, page, i) = q
         \/ \E j \in 1..Len(q) : q[j] = page[i] /\ Without(q, page, i) = RemoveAt(q, j)
BY LenProperties DEF Without

-----------------------------------------------------------------------------
(* Notifications *)

QueueInv == NoteInv /\ Aged /\ OnlyOldAreDropped

LEMMA QueueSame == QueueInv /\ UNCHANGED <<noteVars, shown>> => QueueInv'
BY DEF QueueInv, NoteInv, Aged, OnlyOldAreDropped, noteVars

\* The entry that goes when a new one comes has MaxQueue newer ones by then.
LEMMA NotifyQueue ==
  ASSUME QueueInv, Notify, UNCHANGED shown
  PROVE  QueueInv'
<1> USE DEF QueueInv, NoteInv
<1>1. /\ added \in Nat /\ added' = added + 1 /\ added' \in 0..MaxNotes /\ asked' = asked
      /\ queue' = Push(queue, added + 1)
  BY ConnectivityAssumption DEF Notify
<1>2. /\ queue' \in Seq(1..added')
      /\ Len(queue') = IF Len(queue) < MaxQueue THEN Len(queue) + 1 ELSE MaxQueue
      /\ \A i \in 1..Len(queue') : queue'[i] = IF i = 1 THEN added + 1 ELSE queue[i - 1]
  BY <1>1, PushEffect
<1>3. Len(queue) \in 0..MaxQueue /\ \A i \in 1..Len(queue) : queue[i] \in 1..added
  BY LenProperties, ElementOfSeq, ConnectivityAssumption
<1>4. NoteInv'
  <2>1. 1..added \subseteq 1..added' BY <1>1
  <2>2. \A p \in Pages : shown[p] \in Seq(1..added') BY <2>1, SeqMonotonic
  <2>3. shown' \in [Pages -> Seq(1..added')] BY <2>2
  <2>4. asked' \subseteq 1..added' BY <1>1, <2>1
  <2>5. Len(queue') <= MaxQueue BY <1>2, <1>3, ConnectivityAssumption
  <2> QED BY <1>1, <1>2, <2>3, <2>4, <2>5
<1>5. Aged'
  <2> SUFFICES ASSUME NEW i \in 1..Len(queue') PROVE queue'[i] <= added' - i + 1
    BY DEF Aged
  <2>1. CASE i = 1
    BY <1>1, <1>2, <2>1
  <2>2. CASE i # 1
    <3>1. i - 1 \in 1..Len(queue) /\ queue'[i] = queue[i - 1]
      BY <1>2, <1>3, <2>2, ConnectivityAssumption
    <3>2. queue[i - 1] <= added - (i - 1) + 1
      BY <3>1 DEF Aged
    <3> QED BY <1>1, <1>3, <3>1, <3>2
  <2> QED BY <2>1, <2>2
<1>6. OnlyOldAreDropped'
  <2> SUFFICES ASSUME NEW n \in (1..added') \ asked', ~(added' - n >= MaxQueue)
               PROVE  n \in Range(queue')
    BY DEF OnlyOldAreDropped
  <2>1. DOMAIN queue' = 1..Len(queue') /\ Len(queue') \in Nat
    BY <1>2, LenProperties
  <2>2. CASE n = added + 1
    <3>1. 1 \in DOMAIN queue' /\ queue'[1] = n
      BY <1>2, <1>3, <2>1, <2>2, ConnectivityAssumption
    <3> QED BY <3>1 DEF Range
  <2>3. CASE n # added + 1
    <3>1. n \in (1..added) \ asked /\ ~(added - n >= MaxQueue)
      BY <1>1, <2>3, ConnectivityAssumption
    <3>2. PICK i \in 1..Len(queue) : queue[i] = n
      BY <3>1, LenProperties DEF OnlyOldAreDropped, Range
    <3>3. n <= added - i + 1
      BY <3>2 DEF Aged
    <3>4. i + 1 \in DOMAIN queue'
      BY <1>1, <1>2, <1>3, <2>1, <3>2, <3>3, ConnectivityAssumption
    <3>5. queue'[i + 1] = n
      BY <1>2, <2>1, <3>2, <3>4
    <3> QED BY <3>4, <3>5 DEF Range
  <2> QED BY <2>2, <2>3
<1> QED
  BY <1>4, <1>5, <1>6

\* What clear() leaves: an entry that moves up only grows older than its place.
LEMMA ClearQueue ==
  ASSUME QueueInv, NEW p \in Pages, NEW i \in DOMAIN shown[p], Clear(p, i)
  PROVE  QueueInv'
<1> USE DEF QueueInv, NoteInv
<1>1. /\ queue' = Without(queue, shown[p], i) /\ added' = added /\ added \in Nat
      /\ shown' = [shown EXCEPT ![p] = queue'] /\ asked' = asked \cup {shown[p][i]}
  BY ConnectivityAssumption DEF Clear
<1>2. shown[p][i] \in 1..added
  BY LenProperties, ElementOfSeq
<1>3. CASE queue' = queue
  BY <1>1, <1>2, <1>3 DEF Aged, OnlyOldAreDropped
<1>4. ASSUME NEW j \in 1..Len(queue), queue[j] = shown[p][i], queue' = RemoveAt(queue, j)
      PROVE  QueueInv'
  <2>1. /\ queue' \in Seq(1..added) /\ Len(queue') = Len(queue) - 1
        /\ \A k \in 1..(Len(queue) - 1) : queue'[k] = IF k < j THEN queue[k] ELSE queue[k + 1]
    BY <1>4, RemoveAtEffect
  <2>2. Len(queue) \in 1..MaxQueue /\ \A k \in 1..Len(queue) : queue[k] \in 1..added
    <3>1. Len(queue) \in Nat /\ \A k \in 1..Len(queue) : queue[k] \in 1..added
      BY LenProperties, ElementOfSeq
    <3>2. Len(queue) <= MaxQueue /\ MaxQueue \in Nat
      BY ConnectivityAssumption
    <3> QED BY <3>1, <3>2
  <2>3. NoteInv'
    <3>1. shown' \in [Pages -> Seq(1..added)] BY <1>1, <2>1
    <3>2. Len(queue') <= MaxQueue BY <2>1, <2>2, ConnectivityAssumption
    <3> QED BY <1>1, <1>2, <2>1, <3>1, <3>2
  <2>4. Aged'
    <3>1. \A k \in 1..Len(queue) : queue[k] <= added - k + 1
      BY DEF Aged
    <3>2. queue \in Seq(Nat)
      <4>1. 1..added \subseteq Nat OBVIOUS
      <4> QED BY <4>1, SeqMonotonic
    <3>3. \A k \in 1..Len(RemoveAt(queue, j)) : RemoveAt(queue, j)[k] <= added - k + 1
      <4> HIDE DEF QueueInv, NoteInv
      <4> QED BY <1>1, <3>1, <3>2, RemoveAtAged
    <3> QED BY <1>1, <1>4, <3>3 DEF Aged
  <2>5. OnlyOldAreDropped'
    <3> SUFFICES ASSUME NEW n \in (1..added) \ asked', ~(added - n >= MaxQueue)
                 PROVE  n \in Range(queue')
      BY <1>1 DEF OnlyOldAreDropped
    <3>1. PICK k \in 1..Len(queue) : queue[k] = n
      BY <1>1, LenProperties DEF OnlyOldAreDropped, Range
    <3>2. k # j
      BY <1>1, <1>4, <3>1
    <3>3. DOMAIN queue' = 1..(Len(queue) - 1)
      BY <2>1, LenProperties
    <3>4. \E m \in DOMAIN queue' : queue'[m] = n
      <4>1. CASE k < j
        <5>1. k \in 1..(Len(queue) - 1) BY <2>2, <4>1
        <5> QED BY <2>1, <3>1, <3>3, <4>1, <5>1
      <4>2. CASE k > j
        <5>1. k - 1 \in 1..(Len(queue) - 1) /\ ~(k - 1 < j) BY <2>2, <4>2
        <5>2. queue'[k - 1] = queue[(k - 1) + 1] BY <2>1, <5>1
        <5>3. (k - 1) + 1 = k OBVIOUS
        <5> QED BY <3>1, <3>3, <5>1, <5>2, <5>3
      <4> QED BY <3>2, <4>1, <4>2
    <3> QED BY <3>4 DEF Range
  <2> QED BY <2>3, <2>4, <2>5
<1> QED
  BY <1>1, <1>3, <1>4, WithoutEffect

LEMMA ClearAllQueue ==
  ASSUME QueueInv, NEW p \in Pages, ClearAll(p)
  PROVE  QueueInv'
<1>1. /\ queue' = <<>> /\ added' = added /\ asked' = asked \cup Range(queue)
      /\ shown' = [shown EXCEPT ![p] = <<>>]
  BY DEF ClearAll
<1>2. Range(queue) \subseteq 1..added
  BY RangeOfSeq DEF QueueInv, NoteInv
<1>3. NoteInv'
  <2>1. <<>> \in Seq(1..added) /\ Len(<<>>) = 0 /\ 0 <= MaxQueue
    BY EmptySeq, ConnectivityAssumption
  <2> QED BY <1>1, <1>2, <2>1 DEF QueueInv, NoteInv
<1>4. Aged'
  BY <1>1 DEF Aged
<1>5. OnlyOldAreDropped'
  BY <1>1 DEF QueueInv, OnlyOldAreDropped
<1> QED
  BY <1>3, <1>4, <1>5 DEF QueueInv

LEMMA RenderQueue ==
  ASSUME QueueInv, NEW p \in Pages, Render(p)
  PROVE  QueueInv'
BY DEF QueueInv, NoteInv, Aged, OnlyOldAreDropped, Render, noteVars

LEMMA RestartQueue ==
  ASSUME Restart
  PROVE  QueueInv'
BY EmptySeq, ConnectivityAssumption DEF Restart, QueueInv, NoteInv, Aged, OnlyOldAreDropped

-----------------------------------------------------------------------------
(* The loop *)

\* From the first address on, and one by one to the last.
LEMMA FromEffect ==
  /\ Addresses = From(1) /\ 1 \in 1..Len(Addresses)
  /\ \A k \in 1..Len(Addresses) :
       /\ From(k) \in Seq(Range(Addresses)) /\ From(k) # <<>>
       /\ Len(From(k)) = Len(Addresses) - k + 1
       /\ Head(From(k)) \in Range(Addresses)
       /\ Len(From(k)) # 1 => k + 1 \in 1..Len(Addresses) /\ Tail(From(k)) = From(k + 1)
<1> DEFINE S == Range(Addresses)
<1>1. Addresses \in Seq(S) /\ Len(Addresses) \in Nat \ {0}
  BY ConnectivityAssumption, EmptySeq
<1>2. Addresses = From(1) /\ 1 \in 1..Len(Addresses)
  BY <1>1, SubSeqFull DEF From
<1>3. ASSUME NEW k \in 1..Len(Addresses)
      PROVE  /\ From(k) \in Seq(S) /\ From(k) # <<>>
             /\ Len(From(k)) = Len(Addresses) - k + 1
             /\ Head(From(k)) \in S
             /\ Len(From(k)) # 1 => k + 1 \in 1..Len(Addresses) /\ Tail(From(k)) = From(k + 1)
  <2> HIDE DEF S
  <2>1. \A i \in k..Len(Addresses) : Addresses[i] \in S
    BY <1>1, ElementOfSeq
  <2>2. From(k) \in Seq(S) /\ Len(From(k)) = Len(Addresses) - k + 1
    BY <1>1, <2>1, SubSeqProperties DEF From
  <2>3. From(k) # <<>>
    BY <1>1, <2>2, EmptySeq
  <2>4. Head(From(k)) \in S
    BY <2>2, <2>3, HeadTailProperties
  <2>5. Tail(From(k)) = From(k + 1)
    BY <1>1, HeadTailOfSubSeq DEF From
  <2> QED BY <1>1, <2>2, <2>3, <2>4, <2>5
<1> QED
  BY <1>2, <1>3

LEMMA SleepLoop == loop' = Sleep => LoopInv'
BY EmptySeq DEF LoopInv, Sleep

\* To a step that has no address to set.
LEMMA GoLoop ==
  ASSUME NEW pc \in {"check", "show", "add", "up"}, Go(pc, <<>>)
  PROVE  LoopInv'
BY EmptySeq DEF LoopInv, Go

LEMMA ReplaceLoop ==
  ASSUME NEW k \in 1..Len(Addresses), Go("replace", From(k))
  PROVE  LoopInv'
BY FromEffect DEF LoopInv, Go

LEMMA LoopSame == LoopInv /\ UNCHANGED loop => LoopInv'
BY DEF LoopInv

LEMMA LinkSame == LinkInv /\ UNCHANGED <<linkVars, lost>> => LinkInv'
BY DEF LinkInv, linkVars

\* A round: the link is made anew only where there was none.
LEMMA RoundKeeps ==
  ASSUME LoopInv, LinkInv, Round
  PROVE  LoopInv' /\ LinkInv'
<1>1. CASE Check
  BY <1>1, GoLoop, LinkSame DEF Check
<1>2. CASE ShowLink
  BY <1>2, GoLoop, ReplaceLoop, FromEffect, LinkSame DEF ShowLink
<1>3. CASE AddLink
  <2>1. LoopInv'
    BY <1>3, SleepLoop, ReplaceLoop, FromEffect DEF AddLink
  <2>2. LinkInv'
    BY <1>3, LinkSame DEF AddLink, LinkInv
  <2> QED BY <2>1, <2>2
<1>4. CASE ReplaceAddress
  <2>1. PICK k \in 1..Len(Addresses) : loop.todo = From(k)
    BY <1>4 DEF ReplaceAddress, LoopInv
  <2>2. LoopInv'
    <3>1. CASE Go("up", <<>>)
      BY <3>1, GoLoop
    <3>2. CASE Len(loop.todo) # 1 /\ Go("replace", Tail(loop.todo))
      <4>1. k + 1 \in 1..Len(Addresses) /\ Tail(loop.todo) = From(k + 1)
        BY <2>1, <3>2, FromEffect
      <4> QED BY <3>2, <4>1, ReplaceLoop
    <3>3. CASE loop' = Sleep
      BY <3>3, SleepLoop
    <3> QED BY <1>4, <3>1, <3>2, <3>3 DEF ReplaceAddress
  <2>3. LinkInv'
    BY <1>4, <2>1, FromEffect DEF ReplaceAddress, LinkInv
  <2> QED BY <2>2, <2>3
<1>5. CASE SetUp
  BY <1>5, SleepLoop DEF SetUp, LinkInv
<1> QED
  BY <1>1, <1>2, <1>3, <1>4, <1>5 DEF Round

LEMMA DriftKeeps ==
  ASSUME LinkInv, Drift
  PROVE  LinkInv'
<1>1. CASE \E a \in addresses : StripAddress(a)
  BY <1>1 DEF StripAddress, LinkInv
<1>2. CASE TakeDown \/ DeleteLink \/ AddLinkByHand
  BY <1>2 DEF TakeDown, DeleteLink, AddLinkByHand, LinkInv
<1> QED
  BY <1>1, <1>2 DEF Drift

LEMMA RestartKeeps ==
  ASSUME Restart
  PROVE  LoopInv' /\ LinkInv'
BY SleepLoop DEF Restart, LinkInv

-----------------------------------------------------------------------------
(* The invariant *)

LEMMA ConnInit == Init => ConnInv
<1> SUFFICES ASSUME Init PROVE ConnInv
  OBVIOUS
<1>1. LoopInv
  BY EmptySeq DEF Init, LoopInv, Sleep
<1>2. LinkInv
  BY DEF Init, LinkInv
<1>5. CountInv
  <2>1. MaxDrift \in Nat /\ MaxRestarts \in Nat BY ConnectivityAssumption
  <2> QED BY <2>1 DEF Init, CountInv
<1>3. NoteInv
  <2>1. <<>> \in Seq(1..0) /\ Len(<<>>) = 0 /\ 0 <= MaxQueue /\ 0 \in 0..MaxNotes
    BY EmptySeq, ConnectivityAssumption
  <2> QED BY <2>1 DEF Init, NoteInv
<1>4. Aged /\ OnlyOldAreDropped
  BY DEF Init, Aged, OnlyOldAreDropped
<1> QED
  BY <1>1, <1>2, <1>3, <1>4, <1>5 DEF ConnInv

LEMMA ConnNext == ConnInv /\ [Next]_vars => ConnInv'
<1> SUFFICES ASSUME ConnInv, [Next]_vars PROVE ConnInv'
  OBVIOUS
<1>1. LoopInv /\ LinkInv /\ QueueInv /\ CountInv
  BY DEF ConnInv, QueueInv
<1>2. ASSUME LoopInv', LinkInv', QueueInv', CountInv'
      PROVE  ConnInv'
  BY <1>2 DEF ConnInv, QueueInv
<1>3. CASE Round
  <2>1. UNCHANGED shown /\ (UNCHANGED noteVars \/ Notify)
    BY <1>3 DEF Round, Check, ShowLink, AddLink, ReplaceAddress, SetUp
  <2>2. UNCHANGED <<drift, restarts>>
    BY <1>3 DEF Round, Check, ShowLink, AddLink, ReplaceAddress, SetUp
  <2> QED
    BY <1>1, <1>2, <1>3, <2>1, <2>2, RoundKeeps, QueueSame, NotifyQueue DEF CountInv
<1>4. ASSUME NEW p \in Pages, Render(p)
      PROVE  ConnInv'
  BY <1>1, <1>2, <1>4, RenderQueue, LoopSame, LinkSame DEF Render, CountInv
<1>5. ASSUME NEW p \in Pages, ClearAll(p)
      PROVE  ConnInv'
  BY <1>1, <1>2, <1>5, ClearAllQueue, LoopSame, LinkSame DEF ClearAll, CountInv
<1>6. ASSUME NEW p \in Pages, NEW i \in DOMAIN shown[p], Clear(p, i)
      PROVE  ConnInv'
  BY <1>1, <1>2, <1>6, ClearQueue, LoopSame, LinkSame DEF Clear, CountInv
<1>7. CASE OtherTaskNotifies
  BY <1>1, <1>2, <1>7, NotifyQueue, LoopSame, LinkSame DEF OtherTaskNotifies, CountInv
<1>8. CASE Drift
  <2>1. CountInv'
    BY <1>1, <1>8, ConnectivityAssumption DEF Drift, CountInv
  <2> QED
    BY <1>1, <1>2, <1>8, <2>1, DriftKeeps, QueueSame, LoopSame DEF Drift
<1>9. CASE Restart
  <2>1. CountInv'
    BY <1>1, <1>9, ConnectivityAssumption DEF Restart, CountInv
  <2> QED
    BY <1>2, <1>9, <2>1, RestartKeeps, RestartQueue
<1>10. CASE UNCHANGED vars
  BY <1>1, <1>2, <1>10, QueueSame, LoopSame, LinkSame DEF vars, CountInv
<1> QED
  BY <1>3, <1>4, <1>5, <1>6, <1>7, <1>8, <1>9, <1>10 DEF Next

-----------------------------------------------------------------------------
(* The theorems *)

\* What the loop has yet to set is the end of the server's addresses.
LEMMA FromSuffix ==
  /\ IsSuffix(<<>>, Addresses)
  /\ \A k \in 1..Len(Addresses) : IsSuffix(From(k), Addresses)
<1> DEFINE S == Range(Addresses)
           n == Len(Addresses)
<1>1. Addresses \in Seq(S) /\ n \in Nat
  BY ConnectivityAssumption, LenProperties
<1>2. ASSUME NEW s \in Seq(S), Len(s) <= n, \A i \in 1..Len(s) : s[i] = Addresses[n - Len(s) + i]
      PROVE  IsSuffix(s, Addresses)
  <2> HIDE DEF S, n
  <2>1. Len(s) \in Nat /\ \A i \in 1..Len(s) : s[i] \in S
    BY LenProperties, ElementOfSeq
  <2>2. \A i \in 1..n : Addresses[i] \in S
    BY <1>1, ElementOfSeq DEF n
  <2>3. Reverse(s) \in Seq(S) /\ Len(Reverse(s)) = Len(s)
        /\ \A i \in 1..Len(s) : Reverse(s)[i] = s[Len(s) - i + 1]
    <3>1. \A i \in 1..Len(s) : s[Len(s) - i + 1] \in S BY <2>1
    <3> QED BY <2>1, <3>1 DEF Reverse
  <2>4. Reverse(Addresses) \in Seq(S) /\ Len(Reverse(Addresses)) = n
        /\ \A i \in 1..n : Reverse(Addresses)[i] = Addresses[n - i + 1]
    <3>1. \A i \in 1..n : Addresses[n - i + 1] \in S BY <1>1, <2>2
    <3> QED BY <1>1, <3>1 DEF Reverse, n
  <2>5. \A i \in 1..Len(s) : Reverse(s)[i] = Reverse(Addresses)[i]
    <3> SUFFICES ASSUME NEW i \in 1..Len(s) PROVE Reverse(s)[i] = Reverse(Addresses)[i]
      OBVIOUS
    <3>1. Len(s) - i + 1 \in 1..Len(s) /\ i \in 1..n BY <1>1, <1>2, <2>1
    <3>2. s[Len(s) - i + 1] = Addresses[n - Len(s) + (Len(s) - i + 1)] BY <1>2, <3>1
    <3>3. n - Len(s) + (Len(s) - i + 1) = n - i + 1 BY <1>1, <2>1
    <3> QED BY <2>3, <2>4, <3>1, <3>2, <3>3
  <2>6. SubSeq(Reverse(s), 1, Len(s)) = SubSeq(Reverse(Addresses), 1, Len(s))
    <3> DEFINE a == SubSeq(Reverse(s), 1, Len(s))
               b == SubSeq(Reverse(Addresses), 1, Len(s))
    <3>1. \A i \in 1..Len(s) : Reverse(s)[i] \in S /\ Reverse(Addresses)[i] \in S
      BY <2>1, <2>3, <2>5
    <3>2. a \in Seq(S) /\ Len(a) = Len(s) /\ \A i \in 1..Len(s) : a[i] = Reverse(s)[i]
      BY <2>1, <3>1, SubSeqProperties
    <3>3. b \in Seq(S) /\ Len(b) = Len(s) /\ \A i \in 1..Len(s) : b[i] = Reverse(Addresses)[i]
      BY <2>1, <3>1, SubSeqProperties
    <3> HIDE DEF a, b
    <3>4. a = b BY <2>5, <3>2, <3>3, SeqEqual
    <3> QED BY <3>4 DEF a, b
  <2> QED BY <1>1, <1>2, <2>3, <2>4, <2>6 DEF IsSuffix, IsPrefix
<1>3. IsSuffix(<<>>, Addresses)
  <2> HIDE DEF S
  <2>1. <<>> \in Seq(S) /\ Len(<<>>) = 0 BY EmptySeq
  <2>2. Len(<<>>) <= n /\ \A i \in 1..Len(<<>>) : <<>>[i] = Addresses[n - Len(<<>>) + i]
    BY <1>1, <2>1
  <2>3. \A s \in Seq(S) : Len(s) <= n /\ (\A i \in 1..Len(s) : s[i] = Addresses[n - Len(s) + i])
                            => IsSuffix(s, Addresses)
    BY <1>2
  <2> QED BY <2>1, <2>2, <2>3
<1>4. ASSUME NEW k \in 1..n
      PROVE  IsSuffix(From(k), Addresses)
  <2>1. \A i \in k..n : Addresses[i] \in S
    BY <1>1, ElementOfSeq
  <2>2. From(k) \in Seq(S) /\ Len(From(k)) = n - k + 1
        /\ \A i \in 1..(n - k + 1) : From(k)[i] = Addresses[k + i - 1]
    BY <1>1, <2>1, SubSeqProperties DEF From
  <2>3. \A i \in 1..(n - k + 1) : k + i - 1 = n - (n - k + 1) + i
    BY <1>1
  <2> HIDE DEF S
  <2>4. Len(From(k)) <= n /\ \A i \in 1..Len(From(k)) : From(k)[i] = Addresses[n - Len(From(k)) + i]
    BY <1>1, <2>2, <2>3
  <2> QED BY <1>2, <2>2, <2>4
<1> QED
  BY <1>3, <1>4

\* Every variable keeps its type, the queue its limit, and the loop sets the
\* server's addresses in order to the last (ensure_interface, notifications.add).
THEOREM TypeCorrect == Spec => []TypeOK
<1>1. ConnInv => TypeOK
  <2> SUFFICES ASSUME ConnInv PROVE TypeOK
    OBVIOUS
  <2>1. 1..added \subseteq Notes
    BY ConnectivityAssumption DEF ConnInv, NoteInv, Notes
  <2>2. queue \in Seq(Notes) /\ \A p \in Pages : shown[p] \in Seq(Notes)
    BY <2>1, SeqMonotonic DEF ConnInv, NoteInv
  <2>3. loop.pc \in {"check", "show", "add", "replace", "up"} /\ IsSuffix(loop.todo, Addresses)
    BY FromSuffix DEF ConnInv, LoopInv
  <2> QED
    BY <2>2, <2>3 DEF ConnInv, LinkInv, NoteInv, CountInv, TypeOK
<1> QED
  BY <1>1, ConnInit, ConnNext, PTL DEF Spec

\* However the link changes between two commands of a round, the loop makes a new
\* one, without key and peers, only after somebody deleted the link
\* (ensure_interface: ip link show, then ip link add).
THEOREM KeyAndPeersKept == Spec => []KeyAndPeersStay
<1>1. ConnInv => KeyAndPeersStay
  BY DEF ConnInv, LinkInv, KeyAndPeersStay
<1> QED
  BY <1>1, ConnInit, ConnNext, PTL DEF Spec

\* For any limit, any number of pages and whatever they have rendered, in any order
\* of additions and deletions: a notification nobody asked to clear is there as
\* long as fewer than MAX_NOTIFICATIONS newer ones were added (notifications.py).
THEOREM OldDropped == Spec => []OnlyOldAreDropped
<1>1. ConnInv => OnlyOldAreDropped
  BY DEF ConnInv
<1> QED
  BY <1>1, ConnInit, ConnNext, PTL DEF Spec

=============================================================================
