--------------------------- MODULE TimerThreadProofs ---------------------------
(***************************************************************************)
(* The timer thread for any number of events and callers and any time      *)
(* outs: the queue keeps its order, the worker never sleeps past its head  *)
(* or a shutdown, a caller takes back its own event only, and the whole is *)
(* the abstract AlarmClock.                                                *)
(***************************************************************************)
EXTENDS TimerThread, FiniteSetTheorems, SequenceTheorems, TLAPS

-------------------------------------------------------------------------------
(* Lists                                                                    *)

(* A part of a list.                                                        *)
LEMMA PartOfSeq ==
    ASSUME NEW S, NEW s \in Seq(S), NEW first \in Nat \ {0}, NEW last \in Nat,
           first <= last + 1, last <= Len(s)
    PROVE  /\ SubSeq(s, first, last) \in Seq(S)
           /\ Len(SubSeq(s, first, last)) = last - first + 1
           /\ \A k \in 1..(last - first + 1) : SubSeq(s, first, last)[k] = s[first + k - 1]
<1>1. \A k \in first..last : s[k] \in S
  <2>1. Len(s) \in Nat /\ \A k \in 1..Len(s) : s[k] \in S
    BY LenProperties
  <2> QED
    BY <2>1
<1>2. first \in Int /\ last \in Int
  OBVIOUS
<1>3. /\ SubSeq(s, first, last) \in Seq(S)
      /\ Len(SubSeq(s, first, last)) = IF first <= last THEN last - first + 1 ELSE 0
      /\ \A k \in 1..(last - first + 1) : SubSeq(s, first, last)[k] = s[first + k - 1]
  BY <1>1, <1>2, SubSeqProperties
<1>4. (IF first <= last THEN last - first + 1 ELSE 0) = last - first + 1
  OBVIOUS
<1> QED
  BY <1>3, <1>4

(* Putting an element into a list and taking one out of it.                 *)
LEMMA InsertAtProperties ==
    ASSUME NEW S, NEW s \in Seq(S), NEW x \in S, NEW i \in 1..(Len(s) + 1)
    PROVE  /\ InsertAt(s, i, x) \in Seq(S)
           /\ Len(InsertAt(s, i, x)) = Len(s) + 1
           /\ \A k \in 1..(Len(s) + 1) :
                InsertAt(s, i, x)[k] = IF k < i THEN s[k] ELSE IF k = i THEN x ELSE s[k - 1]
<1>1. PICK n \in Nat : n = Len(s)
  BY LenProperties
<1>2. PICK j \in Nat : i = j + 1 /\ j <= n
  BY <1>1
<1>3. PICK l \in Nat : n = j + l
  <2>1. n - j \in Nat /\ n = j + (n - j)
    BY <1>1, <1>2
  <2> QED
    BY <2>1
<1>4. PICK a, b, c, d : /\ a = SubSeq(s, 1, i - 1) /\ b = SubSeq(s, i, Len(s))
                        /\ c = a \o <<x>> /\ d = c \o b
  OBVIOUS
<1>5. a \in Seq(S) /\ Len(a) = j /\ \A k \in 1..j : a[k] = s[k]
  <2>1. a = SubSeq(s, 1, j) /\ 1 \in Nat \ {0} /\ 1 <= j + 1 /\ j <= Len(s)
    BY <1>1, <1>2, <1>4
  <2>2. a \in Seq(S) /\ Len(a) = j - 1 + 1 /\ \A k \in 1..(j - 1 + 1) : a[k] = s[1 + k - 1]
    BY <1>2, <2>1, PartOfSeq
  <2>3. j - 1 + 1 = j /\ \A k \in 1..j : 1 + k - 1 = k
    BY <1>2
  <2> QED
    BY <2>2, <2>3
<1>6. b \in Seq(S) /\ Len(b) = l /\ \A k \in 1..l : b[k] = s[j + k]
  <2>1. PICK last \in Nat : last = Len(s) /\ i \in Nat \ {0} /\ i <= last + 1 /\ last <= Len(s)
    BY <1>1, <1>2, <1>3
  <2>2. b = SubSeq(s, i, last)
    BY <1>4, <2>1
  <2>3. b \in Seq(S) /\ Len(b) = last - i + 1 /\ \A k \in 1..(last - i + 1) : b[k] = s[i + k - 1]
    BY <2>1, <2>2, PartOfSeq
  <2>4. last = j + l /\ i = j + 1
    BY <1>1, <1>2, <1>3, <2>1
  <2>5. last - i + 1 = l /\ \A k \in 1..l : i + k - 1 = j + k
    BY <2>4
  <2> QED
    BY <2>3, <2>5
<1>7. c \in Seq(S) /\ Len(c) = j + 1 /\ \A k \in 1..(j + 1) : c[k] = IF k <= j THEN a[k] ELSE x
  <2>1. <<x>> \in Seq(S) /\ Len(<<x>>) = 1 /\ <<x>>[1] = x
    OBVIOUS
  <2>2. c \in Seq(S) /\ Len(c) = j + 1 /\ \A k \in 1..(j + 1) : c[k] = IF k <= j THEN a[k] ELSE <<x>>[k - j]
    <3>1. /\ c \in Seq(S) /\ Len(c) = Len(a) + Len(<<x>>)
          /\ \A k \in 1..(Len(a) + Len(<<x>>)) : c[k] = IF k <= Len(a) THEN a[k] ELSE <<x>>[k - Len(a)]
      BY <1>4, <1>5, <2>1, ConcatProperties
    <3> QED
      BY <1>5, <2>1, <3>1
  <2>3. \A k \in 1..(j + 1) : k <= j \/ k - j = 1
    OBVIOUS
  <2> QED
    BY <2>1, <2>2, <2>3
<1>8. d \in Seq(S) /\ Len(d) = (j + 1) + l /\ \A k \in 1..((j + 1) + l) : d[k] = IF k <= j + 1 THEN c[k] ELSE b[k - (j + 1)]
  <2>1. d = c \o b /\ c \in Seq(S) /\ b \in Seq(S) /\ Len(c) = j + 1 /\ Len(b) = l
    BY <1>4, <1>6, <1>7
  <2>2. /\ d \in Seq(S) /\ Len(d) = Len(c) + Len(b)
        /\ \A k \in 1..(Len(c) + Len(b)) : d[k] = IF k <= Len(c) THEN c[k] ELSE b[k - Len(c)]
    BY <2>1, ConcatProperties
  <2> QED
    BY <2>1, <2>2
<1>9. InsertAt(s, i, x) = d
  BY <1>4 DEF InsertAt
<1>10. ASSUME NEW k \in 1..((j + 1) + l)
       PROVE  d[k] = IF k < i THEN s[k] ELSE IF k = i THEN x ELSE s[k - 1]
  <2>1. CASE k <= j
    BY <1>2, <1>5, <1>7, <1>8, <2>1
  <2>2. CASE k = j + 1
    BY <1>2, <1>7, <1>8, <2>2
  <2>3. CASE k > j + 1
    <3>1. k - (j + 1) \in 1..l /\ j + (k - (j + 1)) = k - 1 /\ ~(k <= j + 1)
      BY <2>3
    <3>2. d[k] = s[k - 1]
      BY <1>6, <1>8, <3>1
    <3> QED
      BY <1>2, <2>3, <3>2
  <2> QED
    BY <2>1, <2>2, <2>3
<1>11. Len(s) + 1 = (j + 1) + l
  BY <1>1, <1>3
<1> QED
  BY <1>8, <1>9, <1>10, <1>11

LEMMA RemoveAtProperties ==
    ASSUME NEW S, NEW s \in Seq(S), NEW i \in 1..Len(s)
    PROVE  /\ RemoveAt(s, i) \in Seq(S)
           /\ Len(RemoveAt(s, i)) = Len(s) - 1
           /\ \A k \in 1..(Len(s) - 1) : RemoveAt(s, i)[k] = IF k < i THEN s[k] ELSE s[k + 1]
<1>1. PICK n \in Nat : n = Len(s)
  BY LenProperties
<1>2. PICK j \in Nat : i = j + 1 /\ j + 1 <= n
  BY <1>1
<1>3. PICK l \in Nat : n = (j + 1) + l
  <2>1. n - (j + 1) \in Nat /\ n = (j + 1) + (n - (j + 1))
    BY <1>1, <1>2
  <2> QED
    BY <2>1
<1>4. PICK a, b, d : a = SubSeq(s, 1, i - 1) /\ b = SubSeq(s, i + 1, Len(s)) /\ d = a \o b
  OBVIOUS
<1>5. a \in Seq(S) /\ Len(a) = j /\ \A k \in 1..j : a[k] = s[k]
  <2>1. a = SubSeq(s, 1, j) /\ 1 \in Nat \ {0} /\ 1 <= j + 1 /\ j <= Len(s)
    BY <1>1, <1>2, <1>4
  <2>2. a \in Seq(S) /\ Len(a) = j - 1 + 1 /\ \A k \in 1..(j - 1 + 1) : a[k] = s[1 + k - 1]
    BY <1>2, <2>1, PartOfSeq
  <2>3. j - 1 + 1 = j /\ \A k \in 1..j : 1 + k - 1 = k
    BY <1>2
  <2> QED
    BY <2>2, <2>3
<1>6. b \in Seq(S) /\ Len(b) = l /\ \A k \in 1..l : b[k] = s[(j + 1) + k]
  <2>1. PICK first \in Nat \ {0}, last \in Nat : first = i + 1 /\ last = Len(s) /\ first <= last + 1 /\ last <= Len(s)
    BY <1>1, <1>2, <1>3
  <2>2. b = SubSeq(s, first, last)
    BY <1>4, <2>1
  <2>3. b \in Seq(S) /\ Len(b) = last - first + 1 /\ \A k \in 1..(last - first + 1) : b[k] = s[first + k - 1]
    BY <2>1, <2>2, PartOfSeq
  <2>4. last = (j + 1) + l /\ first = (j + 1) + 1
    BY <1>1, <1>2, <1>3, <2>1
  <2>5. last - first + 1 = l /\ \A k \in 1..l : first + k - 1 = (j + 1) + k
    BY <2>4
  <2> QED
    BY <2>3, <2>5
<1>7. d \in Seq(S) /\ Len(d) = j + l /\ \A k \in 1..(j + l) : d[k] = IF k <= j THEN a[k] ELSE b[k - j]
  <2>1. d = a \o b /\ a \in Seq(S) /\ b \in Seq(S) /\ Len(a) = j /\ Len(b) = l
    BY <1>4, <1>5, <1>6
  <2>2. /\ d \in Seq(S) /\ Len(d) = Len(a) + Len(b)
        /\ \A k \in 1..(Len(a) + Len(b)) : d[k] = IF k <= Len(a) THEN a[k] ELSE b[k - Len(a)]
    BY <2>1, ConcatProperties
  <2> QED
    BY <2>1, <2>2
<1>8. RemoveAt(s, i) = d
  BY <1>4 DEF RemoveAt
<1>9. ASSUME NEW k \in 1..(j + l)
      PROVE  d[k] = IF k < i THEN s[k] ELSE s[k + 1]
  <2>1. CASE k <= j
    BY <1>2, <1>5, <1>7, <2>1
  <2>2. CASE k > j
    <3>1. k - j \in 1..l /\ (j + 1) + (k - j) = k + 1 /\ ~(k <= j)
      BY <2>2
    <3>2. d[k] = s[k + 1]
      BY <1>6, <1>7, <3>1
    <3> QED
      BY <1>2, <2>2, <3>2
  <2> QED
    BY <2>1, <2>2
<1>10. Len(s) - 1 = j + l
  BY <1>1, <1>3
<1> QED
  BY <1>7, <1>8, <1>9, <1>10

-------------------------------------------------------------------------------
(* The inductive invariant                                                  *)

OnceQueued == \A i, k \in 1..Len(eventQ) : i # k => eventQ[i] # eventQ[k]

Pending == {t \in Callers : call[t] # NoCall}

(* An event is with one caller, in the queue or with the pool.              *)
PlaceInv ==
    /\ \A e \in Events : Queued(e) => e \notin pooled
    /\ \A t \in Callers : call[t].event = NoEvent => call[t] = NoCall
    /\ \A t \in Pending : ~Queued(call[t].event) /\ call[t].event \notin pooled
    /\ \A t, u \in Pending : t # u => call[t].event # call[u].event

(* TimerThreadShutdown empties the queue when no call is under way.         *)
StopInv ==
    /\ stopper # "none" => eventQ = <<>> /\ Pending = {}
    /\ shutdown \/ worker = "gone" => stopper # "none"

CountInv == lastEventId + Cardinality(Pending) <= MaxEventId

(* An id is given once, and its holder is the caller whose event has it.    *)
IdInv ==
    /\ \A e \in Events : Queued(e) => eventId[e] < lastEventId
    /\ \A t \in Callers : handle[t] < lastEventId
    /\ \A e, f \in Events : Queued(e) /\ Queued(f) /\ eventId[e] = eventId[f] => e = f
    /\ \A t \in Callers, e \in Events : Queued(e) /\ eventId[e] = handle[t] => scheduler[e] = t

TimerInv ==
    TypeOK /\ QueueOrdered /\ OnceQueued /\ PlaceInv /\ StopInv /\ CountInv /\ IdInv /\ WorkerIsWoken

LEMMA TimesAreInt == Times \subseteq Int
  BY TimerAssumption DEF Times

LEMMA PendingFinite == IsFiniteSet(Pending) /\ Cardinality(Pending) \in Nat
<1>1. Pending \in SUBSET Callers
  BY DEF Pending
<1> QED
  BY <1>1, TimerAssumption, FS_Subset, FS_CardinalityType

-------------------------------------------------------------------------------
(* What the changes of the queue do                                         *)

(* An event goes into the queue where its time belongs.                     *)
LEMMA EventInserted ==
    ASSUME TypeOK, QueueOrdered, OnceQueued, NEW e \in Events, NEW time \in Int, ~Queued(e),
           Inserted(e, time), eventTime' = [eventTime EXCEPT ![e] = time]
    PROVE  /\ eventQ' \in Seq(Events) /\ QueueOrdered' /\ OnceQueued'
           /\ \A f \in Events : Queued(f)' <=> Queued(f) \/ f = e
<1>1. PICK i \in 1..(Len(eventQ) + 1) :
        /\ i <= Len(eventQ) => eventTime[eventQ[i]] >= time
        /\ \A k \in 1..(i - 1) : eventTime[eventQ[k]] < time
        /\ eventQ' = InsertAt(eventQ, i, e)
  BY DEF Inserted
<1>2. eventQ \in Seq(Events)
  BY DEF TypeOK
<1>3. PICK n \in Nat : n = Len(eventQ)
  BY <1>2, LenProperties
<1>4. /\ eventQ' \in Seq(Events) /\ Len(eventQ') = n + 1
      /\ \A k \in 1..(n + 1) : eventQ'[k] = IF k < i THEN eventQ[k] ELSE IF k = i THEN e ELSE eventQ[k - 1]
  <2>1. i \in 1..(Len(eventQ) + 1) /\ eventQ' = InsertAt(eventQ, i, e)
    BY <1>1
  <2>2. /\ InsertAt(eventQ, i, e) \in Seq(Events)
        /\ Len(InsertAt(eventQ, i, e)) = Len(eventQ) + 1
        /\ \A k \in 1..(Len(eventQ) + 1) :
             InsertAt(eventQ, i, e)[k] = IF k < i THEN eventQ[k] ELSE IF k = i THEN e ELSE eventQ[k - 1]
    BY <1>2, <2>1, InsertAtProperties, SMTT(30)
  <2> QED
    BY <1>3, <2>1, <2>2
<1>5. \A k \in 1..n : eventQ[k] \in Events /\ eventQ[k] # e
  BY <1>2, <1>3, ElementOfSeq DEF Queued
<1>6. \A f \in Events : eventTime[f] \in Int
  BY TimesAreInt DEF TypeOK
<1>7. \A f \in Events : eventTime'[f] = IF f = e THEN time ELSE eventTime[f]
  BY DEF TypeOK
<1>8. i \in 1..(n + 1)
  BY <1>1, <1>3
<1>9. OnceQueued'
  <2> SUFFICES ASSUME NEW k \in 1..(n + 1), NEW l \in 1..(n + 1), k # l
               PROVE  eventQ'[k] # eventQ'[l]
    BY <1>4 DEF OnceQueued
  <2>1. \A x, y \in 1..n : x # y => eventQ[x] # eventQ[y]
    BY <1>3 DEF OnceQueued
  <2>2. \A x \in 1..(n + 1) : (x < i => x \in 1..n) /\ (x > i => x - 1 \in 1..n)
    BY <1>3, <1>8
  <2> QED
    BY <1>3, <1>4, <1>5, <1>8, <2>1, <2>2
<1>10. QueueOrdered'
  <2> SUFFICES ASSUME NEW k \in 1..(n + 1), NEW l \in 1..(n + 1), k < l
               PROVE  eventTime'[eventQ'[k]] <= eventTime'[eventQ'[l]]
    BY <1>4 DEF QueueOrdered
  <2>1. \A x, y \in 1..n : x < y => eventTime[eventQ[x]] <= eventTime[eventQ[y]]
    BY <1>3 DEF QueueOrdered
  <2>2. \A x \in 1..n : eventTime'[eventQ[x]] = eventTime[eventQ[x]] /\ eventTime[eventQ[x]] \in Int
    BY <1>5, <1>6, <1>7
  <2>3. \A x \in 1..n : x < i => eventTime[eventQ[x]] < time
    BY <1>1
  <2>4. \A x \in 1..n : x >= i => eventTime[eventQ[x]] >= time
    <3> SUFFICES ASSUME NEW x \in 1..n, x >= i PROVE eventTime[eventQ[x]] >= time
      OBVIOUS
    <3>1. i \in 1..n /\ eventTime[eventQ[i]] >= time
      BY <1>1, <1>3, <1>8
    <3>2. x = i \/ eventTime[eventQ[i]] <= eventTime[eventQ[x]]
      BY <2>1, <3>1
    <3> QED
      BY <2>2, <3>1, <3>2
  <2>5. eventTime'[e] = time
    BY <1>7
  <2>6. CASE l < i
    <3>1. k \in 1..n /\ l \in 1..n /\ eventQ'[k] = eventQ[k] /\ eventQ'[l] = eventQ[l]
      BY <1>3, <1>4, <1>8, <2>6
    <3> QED
      BY <2>1, <2>2, <3>1
  <2>7. CASE l = i
    <3>1. k \in 1..n /\ eventQ'[k] = eventQ[k] /\ eventQ'[l] = e /\ k < i
      BY <1>3, <1>4, <1>8, <2>7
    <3> QED
      BY <2>2, <2>3, <2>5, <3>1
  <2>8. CASE l > i
    <3>1. l - 1 \in 1..n /\ eventQ'[l] = eventQ[l - 1] /\ l - 1 >= i
      BY <1>3, <1>4, <1>8, <2>8
    <3>2. CASE k < i
      <4>1. k \in 1..n /\ eventQ'[k] = eventQ[k] /\ k < l - 1
        BY <1>3, <1>4, <1>8, <2>8, <3>2
      <4> QED
        BY <2>1, <2>2, <3>1, <4>1
    <3>3. CASE k = i
      <4>1. eventQ'[k] = e
        BY <1>4, <3>3
      <4> QED
        BY <2>2, <2>4, <2>5, <3>1, <4>1
    <3>4. CASE k > i
      <4>1. k - 1 \in 1..n /\ eventQ'[k] = eventQ[k - 1] /\ k - 1 < l - 1
        BY <1>3, <1>4, <1>8, <3>4
      <4> QED
        BY <2>1, <2>2, <3>1, <4>1
    <3> QED
      BY <1>8, <3>2, <3>3, <3>4
  <2> QED
    BY <1>8, <2>6, <2>7, <2>8
<1>11. ASSUME NEW f \in Events PROVE Queued(f)' <=> Queued(f) \/ f = e
  <2>1. ASSUME Queued(f)' PROVE Queued(f) \/ f = e
    <3>1. PICK k \in 1..(n + 1) : eventQ'[k] = f
      BY <1>4, <2>1 DEF Queued
    <3>2. k = i \/ (k < i /\ k \in 1..n) \/ (k > i /\ k - 1 \in 1..n)
      BY <1>3, <1>8
    <3> QED
      BY <1>3, <1>4, <3>1, <3>2 DEF Queued
  <2>2. ASSUME Queued(f) PROVE Queued(f)'
    <3>1. PICK k \in 1..n : eventQ[k] = f
      BY <1>3, <2>2 DEF Queued
    <3>2. k \in 1..(n + 1)
      BY <1>3
    <3>3. CASE k < i
      <4>1. k \in 1..(n + 1) /\ eventQ'[k] = f
        BY <1>4, <3>1, <3>2, <3>3
      <4> QED
        BY <1>4, <4>1 DEF Queued
    <3>4. CASE k >= i
      <4>1. k + 1 \in 1..(n + 1) /\ eventQ'[k + 1] = eventQ[k]
        <5>1. k + 1 \in 1..(n + 1) /\ ~(k + 1 < i) /\ k + 1 # i /\ (k + 1) - 1 = k
          BY <1>3, <1>8, <3>4
        <5> QED
          BY <1>4, <5>1
      <4> QED
        BY <1>4, <3>1, <4>1 DEF Queued
    <3> QED
      BY <1>8, <3>3, <3>4
  <2>3. f = e => Queued(f)'
    BY <1>4, <1>8 DEF Queued
  <2> QED
    BY <2>1, <2>2, <2>3
<1> QED
  BY <1>4, <1>9, <1>10, <1>11

(* An event leaves the queue.                                               *)
LEMMA EventTaken ==
    ASSUME TypeOK, QueueOrdered, OnceQueued, NEW i \in 1..Len(eventQ),
           eventQ' \in Seq(Events), Len(eventQ') = Len(eventQ) - 1,
           \A k \in 1..(Len(eventQ) - 1) : eventQ'[k] = IF k < i THEN eventQ[k] ELSE eventQ[k + 1],
           UNCHANGED eventTime
    PROVE  /\ QueueOrdered' /\ OnceQueued'
           /\ \A f \in Events : Queued(f)' <=> Queued(f) /\ f # eventQ[i]
<1>1. PICK n \in Nat : n = Len(eventQ)
  BY LenProperties DEF TypeOK
<1>2. /\ i \in 1..n /\ Len(eventQ') = n - 1
      /\ \A k \in 1..(n - 1) : eventQ'[k] = IF k < i THEN eventQ[k] ELSE eventQ[k + 1]
  BY <1>1
<1>3. \A k \in 1..(n - 1) : k \in 1..n /\ k + 1 \in 1..n
  BY <1>1
<1>4. OnceQueued'
  <2> SUFFICES ASSUME NEW k \in 1..(n - 1), NEW l \in 1..(n - 1), k # l
               PROVE  eventQ'[k] # eventQ'[l]
    BY <1>2 DEF OnceQueued
  <2>1. \A x, y \in 1..n : x # y => eventQ[x] # eventQ[y]
    BY <1>1 DEF OnceQueued
  <2> QED
    BY <1>2, <1>3, <2>1, SMTT(30)
<1>5. QueueOrdered'
  <2> SUFFICES ASSUME NEW k \in 1..(n - 1), NEW l \in 1..(n - 1), k < l
               PROVE  eventTime[eventQ'[k]] <= eventTime[eventQ'[l]]
    BY <1>2 DEF QueueOrdered
  <2>1. \A x, y \in 1..n : x < y => eventTime[eventQ[x]] <= eventTime[eventQ[y]]
    BY <1>1 DEF QueueOrdered
  <2> QED
    BY <1>2, <1>3, <2>1
<1>6. ASSUME NEW f \in Events PROVE Queued(f)' <=> Queued(f) /\ f # eventQ[i]
  <2>1. \A x, y \in 1..n : x # y => eventQ[x] # eventQ[y]
    BY <1>1 DEF OnceQueued
  <2>2. ASSUME Queued(f)' PROVE Queued(f) /\ f # eventQ[i]
    <3>1. PICK k \in 1..(n - 1) : eventQ'[k] = f
      BY <1>2, <2>2 DEF Queued
    <3>2. \E l \in 1..n : l # i /\ eventQ[l] = f
      BY <1>2, <1>3, <3>1
    <3> QED
      BY <1>1, <1>2, <2>1, <3>2 DEF Queued
  <2>3. ASSUME Queued(f), f # eventQ[i] PROVE Queued(f)'
    <3>1. PICK k \in 1..n : eventQ[k] = f /\ k # i
      BY <1>1, <2>3 DEF Queued
    <3>2. \/ k \in 1..(n - 1) /\ k < i
          \/ k - 1 \in 1..(n - 1) /\ ~(k - 1 < i) /\ (k - 1) + 1 = k
      BY <1>1, <1>2, <3>1
    <3>3. \E l \in 1..(n - 1) : eventQ'[l] = f
      BY <1>2, <3>1, <3>2
    <3> QED
      BY <1>2, <3>3 DEF Queued
  <2> QED
    BY <2>2, <2>3
<1> QED
  BY <1>4, <1>5, <1>6

-------------------------------------------------------------------------------
(* Every step                                                               *)

(* The worker sleeps past no event: by events instead of places.            *)
SleepsUntilFirst == worker = "waiting" => \A e \in Events : Queued(e) => deadline <= eventTime[e]

LEMMA NoOversleepByEvents ==
    ASSUME eventQ \in Seq(Events)
    PROVE  NoOversleep <=> SleepsUntilFirst
<1>1. \A k \in 1..Len(eventQ) : eventQ[k] \in Events
  BY ElementOfSeq
<1> QED
  BY <1>1 DEF NoOversleep, SleepsUntilFirst, Queued

LEMMA NoOversleepByEventsNext ==
    ASSUME eventQ' \in Seq(Events)
    PROVE  NoOversleep' <=> SleepsUntilFirst'
<1>1. \A k \in 1..Len(eventQ') : eventQ'[k] \in Events
  BY ElementOfSeq
<1> QED
  BY <1>1 DEF NoOversleep, SleepsUntilFirst, Queued

(* A step that leaves the events and the calls where they are.              *)
LEMMA QuietStep ==
    ASSUME TimerInv, UNCHANGED <<eventQ, eventVars, lastEventId, callVars>>, pooled' \subseteq pooled,
           TypeOK', StopInv', WorkerIsWoken'
    PROVE  TimerInv'
<1>1. QueueOrdered' /\ OnceQueued' /\ (\A e : Queued(e)' <=> Queued(e)) /\ Pending' = Pending
  BY DEF TimerInv, QueueOrdered, OnceQueued, Queued, Pending, NoCall, eventVars, callVars
<1>2. PlaceInv'
  BY <1>1 DEF TimerInv, PlaceInv, NoCall, callVars
<1>3. CountInv' /\ IdInv'
  BY <1>1 DEF TimerInv, CountInv, IdInv, eventVars, callVars
<1> QED
  BY <1>1, <1>2, <1>3 DEF TimerInv

(* A step that takes one event out of the queue, for the pool or for good.  *)
LEMMA EventGone ==
    ASSUME TimerInv, NEW i \in 1..Len(eventQ),
           eventQ' \in Seq(Events), Len(eventQ') = Len(eventQ) - 1,
           \A k \in 1..(Len(eventQ) - 1) : eventQ'[k] = IF k < i THEN eventQ[k] ELSE eventQ[k + 1],
           pooled' \in {pooled, pooled \cup {eventQ[i]}},
           UNCHANGED <<now, eventVars, lastEventId, callVars, waitVars, shutdown, stopper>>
    PROVE  TimerInv'
<1>1. eventQ[i] \in Events /\ Queued(eventQ[i])
  BY ElementOfSeq DEF TimerInv, TypeOK, Queued
<1>2. /\ QueueOrdered' /\ OnceQueued'
      /\ \A f \in Events : Queued(f)' <=> Queued(f) /\ f # eventQ[i]
  BY EventTaken DEF TimerInv, eventVars
<1>3. TypeOK'
  BY <1>1 DEF TimerInv, TypeOK, eventVars, callVars, waitVars
<1>4. Pending' = Pending
  BY DEF Pending, NoCall, callVars
<1>5. PlaceInv'
  <2>1. \A t \in Pending : call[t].event \in Events
    BY DEF TimerInv, TypeOK, PlaceInv, Pending
  <2> QED
    BY <1>1, <1>2, <1>4, <2>1 DEF TimerInv, PlaceInv, NoCall, callVars
<1>6. StopInv'
  <2>1. eventQ # <<>>
    BY DEF TimerInv, TypeOK
  <2> QED
    BY <1>4, <2>1 DEF TimerInv, StopInv, waitVars
<1>7. CountInv' /\ IdInv'
  BY <1>2, <1>4 DEF TimerInv, CountInv, IdInv, eventVars, callVars
<1>8. WorkerIsWoken'
  <2>1. SleepsUntilFirst
    BY NoOversleepByEvents DEF TimerInv, TypeOK, WorkerIsWoken
  <2>2. SleepsUntilFirst'
    BY <1>2, <2>1 DEF SleepsUntilFirst, eventVars, waitVars
  <2> QED
    BY <2>2, NoOversleepByEventsNext DEF TimerInv, WorkerIsWoken, ShutdownNoticed, waitVars
<1> QED
  BY <1>2, <1>3, <1>5, <1>6, <1>7, <1>8 DEF TimerInv

LEMMA WorkerLocksInv == TimerInv /\ WorkerLocks => TimerInv'
<1> SUFFICES ASSUME TimerInv, WorkerLocks PROVE TimerInv'
  OBVIOUS
<1>1. UNCHANGED <<eventQ, eventVars, lastEventId, callVars, pooled>>
  BY DEF WorkerLocks
<1>2. TypeOK' /\ StopInv' /\ WorkerIsWoken'
  BY DEF TimerInv, WorkerLocks, TypeOK, StopInv, WorkerIsWoken, NoOversleep, ShutdownNoticed, Pending, NoCall,
         eventVars, callVars
<1> QED
  BY <1>1, <1>2, QuietStep

LEMMA WorkerStopsInv == TimerInv /\ WorkerStops => TimerInv'
<1> SUFFICES ASSUME TimerInv, WorkerStops PROVE TimerInv'
  OBVIOUS
<1>1. UNCHANGED <<eventQ, eventVars, lastEventId, callVars, pooled>>
  BY DEF WorkerStops
<1>2. TypeOK' /\ StopInv' /\ WorkerIsWoken'
  BY DEF TimerInv, WorkerStops, TypeOK, StopInv, WorkerIsWoken, NoOversleep, ShutdownNoticed, Pending, NoCall,
         eventVars, callVars
<1> QED
  BY <1>1, <1>2, QuietStep

LEMMA WorkerSchedulesJobInv == TimerInv /\ WorkerSchedulesJob => TimerInv'
<1> SUFFICES ASSUME TimerInv, WorkerSchedulesJob PROVE TimerInv'
  OBVIOUS
<1>1. eventQ \in Seq(Events) /\ eventQ # <<>> /\ eventQ' = Tail(eventQ)
  BY DEF TimerInv, TypeOK, WorkerSchedulesJob, HeadIsDue
<1>2. 1 \in 1..Len(eventQ) /\ Head(eventQ) = eventQ[1]
  BY <1>1
<1>3. /\ eventQ' \in Seq(Events) /\ Len(eventQ') = Len(eventQ) - 1
      /\ \A k \in 1..(Len(eventQ) - 1) : eventQ'[k] = eventQ[k + 1] /\ ~(k < 1)
  BY <1>1, HeadTailProperties
<1>4. \A k \in 1..(Len(eventQ) - 1) : eventQ'[k] = IF k < 1 THEN eventQ[k] ELSE eventQ[k + 1]
  BY <1>3
<1>5. /\ pooled' \in {pooled, pooled \cup {eventQ[1]}}
      /\ UNCHANGED <<now, eventVars, lastEventId, callVars, waitVars, shutdown, stopper>>
  BY <1>2 DEF WorkerSchedulesJob
<1> QED
  BY <1>2, <1>3, <1>4, <1>5, EventGone

LEMMA WorkerWaitsInv == TimerInv /\ WorkerWaits => TimerInv'
<1> SUFFICES ASSUME TimerInv, WorkerWaits PROVE TimerInv'
  OBVIOUS
<1>1. UNCHANGED <<eventQ, eventVars, lastEventId, callVars, pooled>>
  BY DEF WorkerWaits
<1>2. eventQ # <<>> => /\ 1 \in 1..Len(eventQ) /\ Head(eventQ) = eventQ[1] /\ eventQ[1] \in Events
                       /\ Len(eventQ) \in Nat
  BY DEF TimerInv, TypeOK
<1>3. TypeOK'
  BY <1>2 DEF TimerInv, WorkerWaits, TypeOK, NextDeadline, eventVars, callVars
<1>4. StopInv'
  BY DEF TimerInv, WorkerWaits, StopInv, Pending, NoCall, callVars
<1>5. NoOversleep'
  <2>1. ASSUME NEW k \in 1..Len(eventQ) PROVE deadline' <= eventTime[eventQ[k]]
    <3>1. eventQ # <<>> /\ deadline' = eventTime[eventQ[1]]
      BY <1>2, <2>1 DEF WorkerWaits, NextDeadline
    <3>2. k = 1 \/ eventTime[eventQ[1]] <= eventTime[eventQ[k]]
      BY <1>2, <3>1 DEF TimerInv, QueueOrdered
    <3>3. eventTime[eventQ[1]] \in Int
      BY <1>2, <3>1, TimesAreInt DEF TimerInv, TypeOK
    <3> QED
      BY <3>1, <3>2, <3>3
  <2> QED
    BY <2>1 DEF NoOversleep, WorkerWaits, eventVars
<1>6. ShutdownNoticed'
  BY DEF WorkerWaits, ShutdownNoticed
<1> QED
  BY <1>1, <1>3, <1>4, <1>5, <1>6, QuietStep DEF WorkerIsWoken

LEMMA WorkerTimesOutInv == TimerInv /\ WorkerTimesOut => TimerInv'
<1> SUFFICES ASSUME TimerInv, WorkerTimesOut PROVE TimerInv'
  OBVIOUS
<1>1. UNCHANGED <<eventQ, eventVars, lastEventId, callVars, pooled>>
  BY DEF WorkerTimesOut
<1>2. TypeOK' /\ StopInv' /\ WorkerIsWoken'
  BY DEF TimerInv, WorkerTimesOut, TypeOK, StopInv, WorkerIsWoken, NoOversleep, ShutdownNoticed, Pending, NoCall,
         eventVars, callVars
<1> QED
  BY <1>1, <1>2, QuietStep

LEMMA JobRunsInv == ASSUME TimerInv, NEW e \in Events, JobRuns(e) PROVE TimerInv'
<1>1. UNCHANGED <<eventQ, eventVars, lastEventId, callVars>> /\ pooled' \subseteq pooled
  BY DEF JobRuns
<1>2. TypeOK' /\ StopInv' /\ WorkerIsWoken'
  BY DEF TimerInv, JobRuns, TypeOK, StopInv, WorkerIsWoken, NoOversleep, ShutdownNoticed, Pending, NoCall,
         eventVars, callVars, waitVars
<1> QED
  BY <1>1, <1>2, QuietStep

LEMMA ShutdownReturnsInv == TimerInv /\ ShutdownReturns => TimerInv'
<1> SUFFICES ASSUME TimerInv, ShutdownReturns PROVE TimerInv'
  OBVIOUS
<1>1. UNCHANGED <<eventQ, eventVars, lastEventId, callVars, pooled>>
  BY DEF ShutdownReturns
<1>2. TypeOK' /\ StopInv' /\ WorkerIsWoken'
  BY DEF TimerInv, ShutdownReturns, TypeOK, StopInv, WorkerIsWoken, NoOversleep, ShutdownNoticed, Pending, NoCall,
         eventVars, callVars, waitVars
<1> QED
  BY <1>1, <1>2, QuietStep

LEMMA TickInv == TimerInv /\ Tick => TimerInv'
<1> SUFFICES ASSUME TimerInv, Tick PROVE TimerInv'
  OBVIOUS
<1>1. UNCHANGED <<eventQ, eventVars, lastEventId, callVars, pooled>>
  BY DEF Tick
<1>2. now' \in 0..MaxTime
  BY TimerAssumption DEF TimerInv, TypeOK, Tick
<1>3. TypeOK' /\ StopInv' /\ WorkerIsWoken'
  BY <1>2 DEF TimerInv, Tick, TypeOK, StopInv, WorkerIsWoken, NoOversleep, ShutdownNoticed, Pending, NoCall,
         eventVars, callVars, waitVars
<1> QED
  BY <1>1, <1>3, QuietStep

LEMMA TimerThreadRemoveInv == ASSUME TimerInv, NEW t \in Callers, TimerThreadRemove(t) PROVE TimerInv'
<1>1. PICK i \in 1..Len(eventQ) : eventQ' = RemoveAt(eventQ, i)
  BY DEF TimerThreadRemove
<1>2. eventQ \in Seq(Events)
  BY DEF TimerInv, TypeOK
<1>3. /\ eventQ' \in Seq(Events) /\ Len(eventQ') = Len(eventQ) - 1
      /\ \A k \in 1..(Len(eventQ) - 1) : eventQ'[k] = IF k < i THEN eventQ[k] ELSE eventQ[k + 1]
  BY <1>1, <1>2, RemoveAtProperties
<1>4. pooled' = pooled /\ UNCHANGED <<now, eventVars, lastEventId, callVars, waitVars, shutdown, stopper>>
  BY DEF TimerThreadRemove
<1> QED
  BY <1>1, <1>3, <1>4, EventGone

(* A caller comes with a free event.                                        *)
LEMMA CalculateEventTimeInv ==
    ASSUME TimerInv, NEW t \in Callers, NEW e \in Events, NEW d \in Delays, CalculateEventTime(t, e, d)
    PROVE  TimerInv'
<1>1. /\ stopper = "none" /\ call[t] = NoCall /\ Free(e)
      /\ call' = [call EXCEPT ![t] = [event |-> e, time |-> now + d]]
      /\ UNCHANGED <<now, eventQ, eventVars, pooled, lastEventId, handle, waitVars, shutdown, stopper>>
  BY DEF CalculateEventTime
<1>2. e # NoEvent
  BY TimerAssumption
<1>3. now + d \in Times
  BY DEF TimerInv, TypeOK, Times
<1>4. \A u \in Callers : call'[u] = IF u = t THEN [event |-> e, time |-> now + d] ELSE call[u]
  BY <1>1 DEF TimerInv, TypeOK
<1>5. TypeOK'
  BY <1>1, <1>3 DEF TimerInv, TypeOK, eventVars, waitVars
<1>6. QueueOrdered' /\ OnceQueued' /\ (\A f : Queued(f)' <=> Queued(f))
  BY <1>1 DEF TimerInv, QueueOrdered, OnceQueued, Queued, eventVars
<1>7. Pending' = Pending \cup {t} /\ t \notin Pending
  BY <1>1, <1>2, <1>4 DEF Pending, NoCall
<1>8. PlaceInv'
  <2>1. ~Queued(e) /\ e \notin pooled /\ \A u \in Callers : call[u].event # e
    BY <1>1 DEF Free
  <2>2. PlaceInv /\ pooled' = pooled
    BY <1>1 DEF TimerInv
  <2>3. \A f \in Events : Queued(f)' => f \notin pooled'
    BY <1>6, <2>2 DEF PlaceInv
  <2>4. \A u \in Callers : call'[u].event = NoEvent => call'[u] = NoCall
    BY <1>2, <1>4, <2>2 DEF PlaceInv
  <2>5. \A u \in Pending' : u \in Callers /\ (u # t => u \in Pending /\ call'[u] = call[u])
    BY <1>4, <1>7 DEF Pending
  <2>6. call'[t].event = e
    BY <1>4
  <2>7. ASSUME NEW u \in Pending' PROVE (~Queued(call[u].event) /\ call[u].event \notin pooled)'
    <3>1. PICK f : f = call'[u].event
      OBVIOUS
    <3>2. ~Queued(f) /\ f \notin pooled
      BY <2>1, <2>2, <2>5, <2>6, <3>1 DEF PlaceInv
    <3>3. ~Queued(f)'
      BY <1>6, <3>2
    <3> QED
      BY <2>2, <3>1, <3>2, <3>3 DEF Queued
  <2>8. \A u, w \in Pending' : u # w => call'[u].event # call'[w].event
    BY <2>1, <2>2, <2>5, <2>6 DEF PlaceInv
  <2> QED
    BY <2>3, <2>4, <2>7, <2>8 DEF PlaceInv, NoCall
<1>9. StopInv'
  BY <1>1 DEF TimerInv, StopInv, waitVars
<1>10. CountInv'
  <2>1. Cardinality(Pending') = Cardinality(Pending) + 1
    BY <1>7, PendingFinite, FS_AddElement
  <2>2. lastEventId + Cardinality(Pending) < MaxEventId
    BY DEF CalculateEventTime, Pending
  <2>3. lastEventId \in Int /\ MaxEventId \in Int /\ Cardinality(Pending) \in Int
    BY PendingFinite, TimerAssumption DEF TimerInv, TypeOK
  <2> QED
    BY <1>1, <2>1, <2>2, <2>3 DEF CountInv
<1>11. IdInv'
  BY <1>1, <1>6 DEF TimerInv, IdInv, eventVars
<1>12. WorkerIsWoken'
  BY <1>1 DEF TimerInv, WorkerIsWoken, NoOversleep, ShutdownNoticed, eventVars, waitVars
<1> QED
  BY <1>5, <1>6, <1>8, <1>9, <1>10, <1>11, <1>12 DEF TimerInv

(* A call under way was made before the shutdown.                           *)
LEMMA PendingMeansRunning ==
    ASSUME TimerInv, NEW t \in Callers, call[t] # NoCall
    PROVE  /\ stopper = "none" /\ ~shutdown
           /\ t \in Pending /\ call[t].event \in Events /\ call[t].time \in Times
           /\ ~Queued(call[t].event) /\ call[t].event \notin pooled
<1>1. t \in Pending
  BY DEF Pending
<1>2. call[t].event \in Events /\ call[t].time \in Times
  BY DEF TimerInv, TypeOK, PlaceInv
<1> QED
  BY <1>1, <1>2 DEF TimerInv, StopInv, PlaceInv

LEMMA TimerThreadScheduleInv ==
    ASSUME TimerInv, NEW t \in Callers, TimerThreadSchedule(t)
    PROVE  TimerInv'
<1>1. PICK e, time : e = call[t].event /\ time = call[t].time
  OBVIOUS
<1>2. /\ MutexFree /\ call[t] # NoCall /\ Inserted(e, time)
      /\ eventTime' = [eventTime EXCEPT ![e] = time]
      /\ eventId' = [eventId EXCEPT ![e] = lastEventId]
      /\ scheduler' = [scheduler EXCEPT ![e] = t]
      /\ handle' = [handle EXCEPT ![t] = lastEventId]
      /\ lastEventId' = lastEventId + 1
      /\ call' = [call EXCEPT ![t] = NoCall]
      /\ UNCHANGED <<now, pooled, deadline, shutdown>>
  BY <1>1 DEF TimerThreadSchedule, NewEventId
<1>3. /\ stopper = "none" /\ ~shutdown /\ t \in Pending /\ e \in Events /\ time \in Times
      /\ ~Queued(e) /\ e \notin pooled
  BY <1>1, <1>2, PendingMeansRunning
<1>4. worker' = (IF worker = "waiting" THEN "woken" ELSE worker) /\ stopper' = stopper
  BY <1>3 DEF TimerThreadSchedule, SignalChange, Signal
<1>5. time \in Int
  BY <1>3, TimesAreInt
<1>6. /\ eventQ' \in Seq(Events) /\ QueueOrdered' /\ OnceQueued'
      /\ \A f \in Events : Queued(f)' <=> Queued(f) \/ f = e
  BY <1>2, <1>3, <1>5, EventInserted DEF TimerInv
<1>7. Pending' = Pending \ {t}
  BY <1>2 DEF Pending, TimerInv, TypeOK, NoCall
<1>8. lastEventId < MaxEventId /\ lastEventId' \in 0..MaxEventId /\ CountInv'
  <2>1. Cardinality(Pending') = Cardinality(Pending) - 1 /\ Cardinality(Pending) \in Nat /\ Cardinality(Pending') \in Nat
    <3>1. IsFiniteSet(Pending) /\ Cardinality(Pending) \in Nat
      BY PendingFinite
    <3>2. IsFiniteSet(Pending \ {t}) /\ Cardinality(Pending \ {t}) = Cardinality(Pending) - 1
      BY <1>3, <3>1, FS_RemoveElement
    <3> QED
      BY <1>7, <3>1, <3>2, FS_CardinalityType
  <2>2. lastEventId \in Nat /\ MaxEventId \in Nat /\ lastEventId + Cardinality(Pending) <= MaxEventId
    BY TimerAssumption DEF TimerInv, TypeOK, CountInv
  <2> QED
    BY <1>2, <2>1, <2>2 DEF CountInv
<1>9. TypeOK'
  <2>1. eventTime' \in [Events -> Times] /\ scheduler' \in [Events -> Callers]
    BY <1>2, <1>3 DEF TimerInv, TypeOK
  <2>2. eventId' \in [Events -> 0..MaxEventId] /\ handle' \in [Callers -> -1..MaxEventId]
    BY <1>2, <1>3 DEF TimerInv, TypeOK
  <2>3. call' \in [Callers -> [event : Events \cup {NoEvent}, time : Times]]
    BY <1>2 DEF TimerInv, TypeOK, NoCall, Times
  <2> QED
    BY <1>2, <1>4, <1>6, <1>8, <2>1, <2>2, <2>3 DEF TimerInv, TypeOK
<1>10. PlaceInv'
  <2>1. \A u \in Callers : call'[u] = IF u = t THEN NoCall ELSE call[u]
    BY <1>2 DEF TimerInv, TypeOK
  <2>2. \A u \in Pending : u # t => call[u].event # e
    BY <1>1, <1>3 DEF TimerInv, PlaceInv
  <2>3. \A u \in Pending : call[u].event \in Events
    BY PendingMeansRunning DEF Pending
  <2>4. PlaceInv /\ pooled' = pooled
    BY <1>2 DEF TimerInv
  <2>5. \A f \in Events : Queued(f)' => f \notin pooled'
    BY <1>3, <1>6, <2>4 DEF PlaceInv
  <2>6. \A u \in Callers : call'[u].event = NoEvent => call'[u] = NoCall
    BY <2>1, <2>4 DEF PlaceInv
  <2>7. \A u \in Pending' : u \in Pending /\ call'[u] = call[u] /\ u # t
    BY <1>7, <2>1 DEF Pending
  <2>8. ASSUME NEW u \in Pending' PROVE (~Queued(call[u].event) /\ call[u].event \notin pooled)'
    <3>1. PICK f \in Events : f = call[u].event /\ f # e /\ ~Queued(f) /\ f \notin pooled
      BY <2>2, <2>3, <2>4, <2>7 DEF PlaceInv
    <3>2. call'[u].event = f /\ ~Queued(f)'
      BY <1>6, <2>7, <3>1
    <3> QED
      BY <2>4, <3>1, <3>2 DEF Queued
  <2>9. \A u, w \in Pending' : u # w => call'[u].event # call'[w].event
    BY <2>4, <2>7 DEF PlaceInv
  <2> QED
    BY <2>5, <2>6, <2>8, <2>9 DEF PlaceInv, NoCall
<1>11. StopInv'
  BY <1>2, <1>3, <1>4 DEF TimerInv, StopInv
<1>12. IdInv'
  <2>1. \A f \in Events : /\ eventId'[f] = IF f = e THEN lastEventId ELSE eventId[f]
                          /\ scheduler'[f] = IF f = e THEN t ELSE scheduler[f]
    BY <1>2 DEF TimerInv, TypeOK
  <2>2. \A u \in Callers : handle'[u] = IF u = t THEN lastEventId ELSE handle[u]
    BY <1>2 DEF TimerInv, TypeOK
  <2>3. lastEventId \in Int /\ (\A f \in Events : eventId[f] \in Int) /\ (\A u \in Callers : handle[u] \in Int)
    BY DEF TimerInv, TypeOK
  <2>4. IdInv
    BY DEF TimerInv
  <2>5. \A f \in Events : Queued(f)' => eventId'[f] < lastEventId'
    BY <1>2, <1>6, <2>1, <2>3, <2>4 DEF IdInv
  <2>6. \A u \in Callers : handle'[u] < lastEventId'
    BY <1>2, <2>2, <2>3, <2>4 DEF IdInv
  <2>7. \A f, g \in Events : Queued(f)' /\ Queued(g)' /\ eventId'[f] = eventId'[g] => f = g
    BY <1>6, <2>1, <2>3, <2>4 DEF IdInv
  <2>8. \A u \in Callers, f \in Events : Queued(f)' /\ eventId'[f] = handle'[u] => scheduler'[f] = u
    BY <1>6, <2>1, <2>2, <2>3, <2>4 DEF IdInv
  <2> QED
    BY <2>5, <2>6, <2>7, <2>8 DEF IdInv
<1>13. WorkerIsWoken'
  <2>1. worker' # "waiting"
    BY <1>4
  <2> QED
    BY <1>2, <1>3, <2>1 DEF WorkerIsWoken, NoOversleep, ShutdownNoticed
<1> QED
  BY <1>6, <1>8, <1>9, <1>10, <1>11, <1>12, <1>13 DEF TimerInv

LEMMA TimerThreadShutdownInv == TimerInv /\ TimerThreadShutdown => TimerInv'
<1> SUFFICES ASSUME TimerInv, TimerThreadShutdown PROVE TimerInv'
  OBVIOUS
<1>1. /\ MutexFree /\ stopper = "none" /\ \A t \in Callers : call[t] = NoCall
      /\ shutdown' = TRUE /\ eventQ' = <<>> /\ stopper' = "waiting"
      /\ worker' = (IF worker = "waiting" THEN "woken" ELSE worker)
      /\ UNCHANGED <<now, eventVars, pooled, lastEventId, callVars, deadline>>
  BY DEF TimerThreadShutdown, BroadcastToWorker
<1>2. Len(eventQ') = 0 /\ eventQ' \in Seq(Events)
  BY <1>1
<1>3. \A e : ~Queued(e)'
  BY <1>2 DEF Queued
<1>4. Pending = {} /\ Pending' = {}
  BY <1>1 DEF Pending, NoCall, callVars
<1>5. TypeOK'
  BY <1>1, <1>2 DEF TimerInv, TypeOK, eventVars, callVars
<1>6. QueueOrdered' /\ OnceQueued'
  BY <1>2 DEF QueueOrdered, OnceQueued
<1>7. PlaceInv'
  BY <1>1, <1>3, <1>4 DEF TimerInv, PlaceInv, NoCall, callVars
<1>8. StopInv'
  BY <1>1, <1>4 DEF StopInv
<1>9. CountInv' /\ IdInv'
  BY <1>1, <1>3, <1>4 DEF TimerInv, CountInv, IdInv, eventVars, callVars
<1>10. WorkerIsWoken'
  <2>1. worker' \in {"looping", "woken"}
    BY <1>1 DEF TimerInv, TypeOK, StopInv
  <2> QED
    BY <2>1 DEF WorkerIsWoken, NoOversleep, ShutdownNoticed
<1> QED
  BY <1>5, <1>6, <1>7, <1>8, <1>9, <1>10 DEF TimerInv

LEMMA InitTimerInv == Init => TimerInv
<1> SUFFICES ASSUME Init PROVE TimerInv
  OBVIOUS
<1>1. Len(eventQ) = 0 /\ eventQ \in Seq(Events) /\ \A e : ~Queued(e)
  BY DEF Init, Queued
<1>2. TypeOK
  <2>1. 0 \in Times /\ 0 \in 0..MaxTime /\ 0 \in 0..MaxEventId /\ -1 \in -1..MaxEventId
    BY TimerAssumption DEF Times
  <2>2. (CHOOSE t \in Callers : TRUE) \in Callers
    BY TimerAssumption
  <2>3. now \in 0..MaxTime /\ lastEventId \in 0..MaxEventId /\ eventTime \in [Events -> Times]
        /\ eventId \in [Events -> 0..MaxEventId] /\ handle \in [Callers -> -1..MaxEventId]
    BY <2>1 DEF Init, NoId
  <2>4. scheduler \in [Events -> Callers]
    BY <2>2 DEF Init
  <2>5. call \in [Callers -> [event : Events \cup {NoEvent}, time : Times]]
    BY <2>1 DEF Init, NoCall
  <2> QED
    BY <1>1, <2>3, <2>4, <2>5 DEF Init, TypeOK
<1>3. Pending = {}
  BY DEF Init, Pending
<1>4. QueueOrdered /\ OnceQueued
  BY <1>1 DEF QueueOrdered, OnceQueued
<1>5. PlaceInv
  BY <1>1, <1>3 DEF Init, PlaceInv
<1>6. StopInv
  BY DEF Init, StopInv
<1>7. CountInv /\ IdInv
  BY <1>1, <1>3, FS_EmptySet, TimerAssumption DEF Init, CountInv, IdInv, NoId
<1>8. WorkerIsWoken
  BY DEF Init, WorkerIsWoken, NoOversleep, ShutdownNoticed
<1> QED
  BY <1>2, <1>4, <1>5, <1>6, <1>7, <1>8 DEF TimerInv

LEMMA NextTimerInv == TimerInv /\ [Next]_vars => TimerInv'
<1> SUFFICES ASSUME TimerInv, [Next]_vars PROVE TimerInv'
  OBVIOUS
<1>1. CASE UNCHANGED vars
  <2>1. UNCHANGED <<eventQ, eventVars, lastEventId, callVars, pooled>>
    BY <1>1 DEF vars
  <2>2. TypeOK' /\ StopInv' /\ WorkerIsWoken'
    BY <1>1 DEF TimerInv, TypeOK, StopInv, WorkerIsWoken, NoOversleep, ShutdownNoticed, Pending, NoCall,
                vars, eventVars, callVars, waitVars
  <2> QED
    BY <2>1, <2>2, QuietStep
<1>2. CASE Worker
  BY <1>2, WorkerLocksInv, WorkerStopsInv, WorkerSchedulesJobInv, WorkerWaitsInv, WorkerTimesOutInv DEF Worker
<1>3. CASE \E e \in Events : JobRuns(e)
  BY <1>3, JobRunsInv
<1>4. CASE \E t \in Callers, e \in Events, d \in Delays : CalculateEventTime(t, e, d)
  BY <1>4, CalculateEventTimeInv
<1>5. CASE \E t \in Callers : TimerThreadSchedule(t) \/ TimerThreadRemove(t)
  BY <1>5, TimerThreadScheduleInv, TimerThreadRemoveInv
<1> QED
  BY <1>1, <1>2, <1>3, <1>4, <1>5, TimerThreadShutdownInv, ShutdownReturnsInv, TickInv DEF Next

-------------------------------------------------------------------------------
(* The theorems                                                             *)

(* The inductive invariant holds always.                                    *)
THEOREM SpecTimerInv == Spec => []TimerInv
  BY InitTimerInv, NextTimerInv, PTL DEF Spec

(* The queue of TimerThread.c keeps its order, by which its head is the next*)
(* event to occur, for any number of events.                                *)
THEOREM SpecQueueSound == Spec => []QueueSound
<1>1. TimerInv => QueueSound
  BY DEF TimerInv, QueueSound
<1> QED
  BY <1>1, SpecTimerInv, PTL

(* The one condition of TimerThread.c is enough for its two kinds of        *)
(* sleepers: the worker sleeps past no event and no shutdown.               *)
THEOREM SpecWorkerIsWoken == Spec => []WorkerIsWoken
<1>1. TimerInv => WorkerIsWoken
  BY DEF TimerInv
<1> QED
  BY <1>1, SpecTimerInv, PTL

(* TimerThreadRemove takes no other caller's event out of the queue.        *)
THEOREM SpecRemovesOwnEvent == Spec => RemovesOwnEvent
<1> DEFINE Removal == \A t \in Callers : TimerThreadRemove(t) =>
                        \A e \in Events : Queued(e) /\ ~Queued(e)' => scheduler[e] = t
<1>1. TimerInv => Removal
  <2> SUFFICES ASSUME TimerInv, NEW t \in Callers, TimerThreadRemove(t),
                      NEW e \in Events, Queued(e), ~Queued(e)'
               PROVE  scheduler[e] = t
    OBVIOUS
  <2>1. PICK i \in 1..Len(eventQ) : eventId[eventQ[i]] = handle[t] /\ eventQ' = RemoveAt(eventQ, i)
    BY DEF TimerThreadRemove
  <2>2. eventQ \in Seq(Events)
    BY DEF TimerInv, TypeOK
  <2>3. /\ eventQ' \in Seq(Events) /\ Len(eventQ') = Len(eventQ) - 1
        /\ \A k \in 1..(Len(eventQ) - 1) : eventQ'[k] = IF k < i THEN eventQ[k] ELSE eventQ[k + 1]
    BY <2>1, <2>2, RemoveAtProperties
  <2>4. Queued(e)' <=> Queued(e) /\ e # eventQ[i]
    BY <2>3, EventTaken DEF TimerInv, TimerThreadRemove, eventVars
  <2> QED
    BY <2>1, <2>4 DEF TimerInv, IdInv
<1>2. TimerInv => [Removal]_vars
  BY <1>1
<1> QED
  BY <1>2, SpecTimerInv, PTL DEF RemovesOwnEvent

-------------------------------------------------------------------------------
(* The refinement                                                           *)

(* What the alarm clock sees of an event, and of the timer.                 *)
AlarmState == [e \in Events |-> IF Queued(e) THEN "set" ELSE IF e \in pooled THEN "rung" ELSE "idle"]
alarmVars == <<now, AlarmState, eventTime, stopper = "none">>

(* A step that changes what the clock sees of one event.                    *)
LEMMA OneAlarmChanges ==
    ASSUME NEW e \in Events, NEW new,
           \A f \in Events : f # e => (Queued(f)' <=> Queued(f)) /\ (f \in pooled' <=> f \in pooled),
           new = (IF Queued(e)' THEN "set" ELSE IF e \in pooled' THEN "rung" ELSE "idle")
    PROVE  AlarmState' = [AlarmState EXCEPT ![e] = new]
  BY DEF AlarmState

(* A step on the mutex, of the worker or of a caller does not show.         *)
LEMMA HiddenStep ==
    ASSUME UNCHANGED <<now, eventQ, eventTime, pooled>>, (stopper' = "none") <=> (stopper = "none")
    PROVE  UNCHANGED alarmVars
<1>1. \A e : Queued(e)' <=> Queued(e)
  BY DEF Queued
<1> QED
  BY <1>1 DEF alarmVars, AlarmState

LEMMA AlarmRings ==
    ASSUME TimerInv, WorkerSchedulesJob
    PROVE  \E e \in Events : AC!Ring(e) \/ AC!Cancel(e)
<1>1. eventQ \in Seq(Events) /\ eventQ # <<>> /\ eventQ' = Tail(eventQ) /\ now >= eventTime[Head(eventQ)]
  BY DEF TimerInv, TypeOK, WorkerSchedulesJob, HeadIsDue
<1>2. PICK e \in Events : e = Head(eventQ) /\ e = eventQ[1] /\ 1 \in 1..Len(eventQ) /\ Len(eventQ) \in Nat
  BY <1>1
<1>3. \A f \in Events : Queued(f)' <=> Queued(f) /\ f # e
  <2>1. /\ eventQ' \in Seq(Events) /\ Len(eventQ') = Len(eventQ) - 1
        /\ \A k \in 1..(Len(eventQ) - 1) : eventQ'[k] = eventQ[k + 1] /\ ~(k < 1)
    BY <1>1, HeadTailProperties
  <2>2. \A k \in 1..(Len(eventQ) - 1) : eventQ'[k] = IF k < 1 THEN eventQ[k] ELSE eventQ[k + 1]
    BY <2>1
  <2> QED
    BY <1>2, <2>1, <2>2, EventTaken DEF TimerInv, WorkerSchedulesJob, eventVars
<1>4. Queued(e) /\ e \notin pooled
  BY <1>2 DEF Queued, TimerInv, PlaceInv
<1>5. stopper = "none" /\ UNCHANGED <<now, eventTime, stopper>>
  BY <1>1 DEF TimerInv, StopInv, WorkerSchedulesJob, eventVars
<1>6. \A f \in Events : Queued(f) => eventTime[e] <= eventTime[f]
  <2> SUFFICES ASSUME NEW f \in Events, Queued(f) PROVE eventTime[e] <= eventTime[f]
    OBVIOUS
  <2>1. PICK k \in 1..Len(eventQ) : eventQ[k] = f
    BY DEF Queued
  <2>2. k = 1 \/ eventTime[eventQ[1]] <= eventTime[eventQ[k]]
    BY <1>2 DEF TimerInv, QueueOrdered
  <2>3. eventTime[e] \in Int
    BY TimesAreInt DEF TimerInv, TypeOK
  <2> QED
    BY <1>2, <2>1, <2>2, <2>3
<1>7. AlarmState[e] = "set" /\ \A f \in Events : AlarmState[f] = "set" <=> Queued(f)
  BY <1>4 DEF AlarmState
<1>8. CASE pooled' = pooled \cup {e}
  <2>1. AlarmState' = [AlarmState EXCEPT ![e] = "rung"]
    BY <1>3, <1>8, OneAlarmChanges
  <2>2. AC!Ring(e)
    BY <1>1, <1>2, <1>5, <1>6, <1>7, <2>1 DEF AC!Ring, AC!InState, AlarmState
  <2> QED
    BY <2>2
<1>9. CASE pooled' = pooled
  <2>1. AlarmState' = [AlarmState EXCEPT ![e] = "idle"]
    BY <1>3, <1>4, <1>9, OneAlarmChanges
  <2>2. AC!Cancel(e)
    BY <1>5, <1>7, <2>1 DEF AC!Cancel, AlarmState
  <2> QED
    BY <2>2
<1> QED
  BY <1>2, <1>8, <1>9 DEF WorkerSchedulesJob

LEMMA AlarmAnswered ==
    ASSUME TimerInv, NEW e \in Events, JobRuns(e)
    PROVE  AC!Answer(e)
<1>1. e \in pooled /\ ~Queued(e) /\ pooled' = pooled \ {e} /\ UNCHANGED <<now, eventQ, eventTime, stopper>>
  BY DEF TimerInv, PlaceInv, JobRuns, eventVars
<1>2. \A f : Queued(f)' <=> Queued(f)
  BY <1>1 DEF Queued
<1>3. AlarmState' = [AlarmState EXCEPT ![e] = "idle"]
  BY <1>1, <1>2, OneAlarmChanges
<1>4. AlarmState[e] = "rung"
  BY <1>1 DEF AlarmState
<1> QED
  BY <1>1, <1>3, <1>4 DEF AC!Answer, AlarmState

LEMMA AlarmSet ==
    ASSUME TimerInv, NEW t \in Callers, TimerThreadSchedule(t)
    PROVE  \E e \in Events : AC!Set(e)
<1>1. PICK e, time : e = call[t].event /\ time = call[t].time
  OBVIOUS
<1>2. /\ call[t] # NoCall /\ Inserted(e, time) /\ eventTime' = [eventTime EXCEPT ![e] = time]
      /\ UNCHANGED <<now, pooled>>
  BY <1>1 DEF TimerThreadSchedule
<1>3. stopper = "none" /\ e \in Events /\ time \in Int /\ ~Queued(e) /\ e \notin pooled
  BY <1>1, <1>2, PendingMeansRunning, TimesAreInt
<1>4. stopper' = stopper
  BY <1>3 DEF TimerThreadSchedule, SignalChange, Signal
<1>5. \A f \in Events : Queued(f)' <=> Queued(f) \/ f = e
  BY <1>2, <1>3, EventInserted DEF TimerInv
<1>6. AlarmState' = [AlarmState EXCEPT ![e] = "set"]
  BY <1>2, <1>3, <1>5, OneAlarmChanges
<1>7. AlarmState[e] = "idle"
  BY <1>3 DEF AlarmState
<1>8. eventTime'[e] = time /\ eventTime' = [eventTime EXCEPT ![e] = eventTime'[e]]
  BY <1>2, <1>3 DEF TimerInv, TypeOK
<1>9. AC!Set(e)
  BY <1>2, <1>3, <1>4, <1>6, <1>7, <1>8 DEF AC!Set, AlarmState
<1> QED
  BY <1>3, <1>9

LEMMA AlarmCancelled ==
    ASSUME TimerInv, NEW t \in Callers, TimerThreadRemove(t)
    PROVE  \E e \in Events : AC!Cancel(e)
<1>1. PICK i \in 1..Len(eventQ) : eventQ' = RemoveAt(eventQ, i)
  BY DEF TimerThreadRemove
<1>2. eventQ \in Seq(Events)
  BY DEF TimerInv, TypeOK
<1>3. PICK e \in Events : e = eventQ[i] /\ Queued(e)
  BY <1>1, <1>2, ElementOfSeq DEF Queued
<1>4. UNCHANGED <<now, pooled, eventTime, stopper>> /\ stopper = "none"
  BY DEF TimerThreadRemove, eventVars
<1>5. \A f \in Events : Queued(f)' <=> Queued(f) /\ f # e
  <2>1. /\ eventQ' \in Seq(Events) /\ Len(eventQ') = Len(eventQ) - 1
        /\ \A k \in 1..(Len(eventQ) - 1) : eventQ'[k] = IF k < i THEN eventQ[k] ELSE eventQ[k + 1]
    BY <1>1, <1>2, RemoveAtProperties
  <2> QED
    BY <1>1, <1>3, <1>4, <2>1, EventTaken DEF TimerInv
<1>6. e \notin pooled
  BY <1>3 DEF TimerInv, PlaceInv
<1>7. AlarmState' = [AlarmState EXCEPT ![e] = "idle"]
  BY <1>4, <1>5, <1>6, OneAlarmChanges
<1>8. AlarmState[e] = "set"
  BY <1>3 DEF AlarmState
<1>9. AC!Cancel(e)
  BY <1>4, <1>7, <1>8 DEF AC!Cancel, AlarmState
<1> QED
  BY <1>9

LEMMA AlarmsStop ==
    ASSUME TimerInv, TimerThreadShutdown
    PROVE  AC!Stop
<1>1. stopper = "none" /\ stopper' = "waiting" /\ eventQ' = <<>> /\ UNCHANGED <<now, pooled, eventTime>>
  BY DEF TimerThreadShutdown, eventVars
<1>2. \A e : ~Queued(e)'
  BY <1>1 DEF Queued
<1>3. \A e \in Events : Queued(e) => e \notin pooled
  BY DEF TimerInv, PlaceInv
<1>4. AlarmState' = [e \in Events |-> IF AlarmState[e] = "set" THEN "idle" ELSE AlarmState[e]]
  BY <1>1, <1>2, <1>3 DEF AlarmState
<1> QED
  BY <1>1, <1>4 DEF AC!Stop, AlarmState

LEMMA AlarmInit == Init => AC!AlarmClockInit
<1> SUFFICES ASSUME Init PROVE AC!AlarmClockInit
  OBVIOUS
<1>1. \A e : ~Queued(e)
  BY DEF Init, Queued
<1> QED
  BY <1>1 DEF Init, AC!AlarmClockInit

LEMMA AlarmNext == TimerInv /\ [Next]_vars => AC!AlarmClockNext \/ UNCHANGED alarmVars
<1> SUFFICES ASSUME TimerInv, [Next]_vars PROVE AC!AlarmClockNext \/ UNCHANGED alarmVars
  OBVIOUS
<1>1. CASE UNCHANGED vars
  BY <1>1, HiddenStep DEF vars, eventVars
<1>2. CASE WorkerLocks \/ WorkerWaits \/ WorkerTimesOut
  BY <1>2, HiddenStep DEF WorkerLocks, WorkerWaits, WorkerTimesOut, eventVars
<1>3. CASE WorkerStops
  BY <1>3, HiddenStep DEF WorkerStops, eventVars
<1>4. CASE WorkerSchedulesJob
  BY <1>4, AlarmRings DEF AC!AlarmClockNext
<1>5. CASE \E e \in Events : JobRuns(e)
  BY <1>5, AlarmAnswered DEF AC!AlarmClockNext
<1>6. ASSUME NEW t \in Callers, NEW e \in Events, NEW d \in Delays, CalculateEventTime(t, e, d)
      PROVE  UNCHANGED alarmVars
  BY <1>6, HiddenStep DEF CalculateEventTime, eventVars
<1>7. CASE \E t \in Callers : TimerThreadSchedule(t)
  BY <1>7, AlarmSet DEF AC!AlarmClockNext
<1>8. CASE \E t \in Callers : TimerThreadRemove(t)
  BY <1>8, AlarmCancelled DEF AC!AlarmClockNext
<1>9. CASE TimerThreadShutdown
  BY <1>9, AlarmsStop DEF AC!AlarmClockNext
<1>10. CASE ShutdownReturns
  BY <1>10, HiddenStep DEF ShutdownReturns, eventVars
<1>11. CASE Tick
  <2>1. \A e : Queued(e)' <=> Queued(e)
    BY <1>11 DEF Tick, Queued
  <2>2. AC!Advance
    BY <1>11, <2>1 DEF Tick, AC!Advance, eventVars
  <2> QED
    BY <2>2 DEF AC!AlarmClockNext
<1> QED
  BY <1>1, <1>2, <1>3, <1>4, <1>5, <1>6, <1>7, <1>8, <1>9, <1>10, <1>11 DEF Next, Worker

(* The events of TimerThread.c ring as the alarms of the abstract clock do: *)
(* once, in the order of their times, not before them, not after they were  *)
(* removed.                                                                 *)
THEOREM SpecImplementsAlarmClock == Spec => ImplementsAlarmClock
<1>1. TimerInv /\ [Next]_vars =>
        [AC!AlarmClockNext]_<<now, [e \in Events |-> IF Queued(e) THEN "set" ELSE IF e \in pooled THEN "rung" ELSE "idle"],
                              eventTime, stopper = "none">>
  BY AlarmNext DEF alarmVars, AlarmState
<1> QED
  BY <1>1, AlarmInit, SpecTimerInv, PTL DEF Spec, ImplementsAlarmClock, AC!AlarmClockSpec
===============================================================================
