------------------------------ MODULE ViewProofs ------------------------------
(***************************************************************************)
(* Proofs about the two views that read on their own, for every log, every *)
(* sizes of its events, every window and every receipt.  The details are   *)
(* the log because what is retained is a run of consecutive events that    *)
(* ends at the cursor, and an answer that was accepted fits the cursor its *)
(* request was sent with (DetailsInv).  The host's lines are its log       *)
(* because a reader's cursor is where the lines end, whoever holds the     *)
(* reader, and a batch continues it or brings the mark of a gap (LogInv).  *)
(*                                                                         *)
(* The windows of the two views are recursive: what they retain is proved  *)
(* by induction, in the form that a non-empty set of numbers has a least   *)
(* element.                                                                *)
(***************************************************************************)
EXTENDS Views, SequenceTheorems, WellFoundedInduction, TLAPS

-----------------------------------------------------------------------------
\* Every non-empty set of numbers has a least one.
LEMMA LeastNumber ==
  ASSUME NEW T, T \subseteq Nat, T # {}
  PROVE  \E x \in T : \A y \in T : x <= y
<1>1. PICK x \in T : \A y \in T : ~(<<y, x>> \in OpToRel(<, Nat))
  BY NatLessThanWellFounded, WFMin
<1>2. \A y \in T : ~(y < x)
  BY <1>1 DEF OpToRel
<1> QED
  BY <1>2

\* Induction, for a set of numbers.
LEMMA NumbersByInduction ==
  ASSUME NEW S, 0 \in S, \A n \in Nat : n \in S => n + 1 \in S
  PROVE  Nat \subseteq S
<1> SUFFICES ASSUME Nat \ S # {} PROVE FALSE
  OBVIOUS
<1>1. PICK x \in Nat \ S : \A y \in Nat \ S : x <= y
  BY LeastNumber
<1>2. x - 1 \in Nat /\ x - 1 \in S
  BY <1>1
<1> QED
  BY <1>1, <1>2

Sized == [run : PublicRuns \cup {NoRun}, seq : 1 .. Last, id : 1 .. Last, size : Nat,
          terminal : BOOLEAN]

\* The events of the log, but for identifiers, ends and runs that are wrong.
LogEvents == {event \in Sized : event.size = Sizes[event.seq]}

\* Events have sizes.
LEMMA SizesAreNumbers == \A event \in LogEvents : event.size \in Nat
  BY DEF LogEvents, Sized

IsBytes(f, s, m) == f = [n \in 0 .. m |-> IF n = 0 THEN 0 ELSE f[n - 1] + s[n].size]

\* The recursion of Bytes is well defined.
LEMMA BytesExist ==
  ASSUME NEW s \in Seq(LogEvents)
  PROVE  \E f \in [0 .. Len(s) -> Nat] : IsBytes(f, s, Len(s))
<1> DEFINE S == {m \in Nat : m <= Len(s) => \E f \in [0 .. m -> Nat] : IsBytes(f, s, m)}
<1>1. 0 \in S
  <2> DEFINE f == [n \in 0 .. 0 |-> 0]
  <2>1. f \in [0 .. 0 -> Nat] /\ IsBytes(f, s, 0)
    BY DEF IsBytes
  <2> QED
    BY <2>1
<1>2. ASSUME NEW m \in Nat, m \in S PROVE m + 1 \in S
  <2> SUFFICES ASSUME m + 1 <= Len(s)
               PROVE  \E g \in [0 .. m + 1 -> Nat] : IsBytes(g, s, m + 1)
    OBVIOUS
  <2>1. PICK f \in [0 .. m -> Nat] : IsBytes(f, s, m)
    BY <1>2
  <2> DEFINE g == [n \in 0 .. m + 1 |-> IF n <= m THEN f[n] ELSE f[m] + s[m + 1].size]
  <2>2. s[m + 1].size \in Nat
    BY SizesAreNumbers
  <2>3. g \in [0 .. m + 1 -> Nat]
    BY <2>2
  <2>4. ASSUME NEW n \in 0 .. m + 1
        PROVE  g[n] = IF n = 0 THEN 0 ELSE g[n - 1] + s[n].size
    BY <2>1 DEF IsBytes
  <2> HIDE DEF g
  <2>5. IsBytes(g, s, m + 1)
    BY <2>3, <2>4 DEF IsBytes
  <2> QED
    BY <2>3, <2>5
<1>3. Nat \subseteq S
  <2> HIDE DEF S
  <2> QED
    BY <1>1, <1>2, NumbersByInduction
<1> QED
  BY <1>3

\* What Bytes sums up: the sizes of the first events.
LEMMA BytesAre ==
  ASSUME NEW s \in Seq(LogEvents)
  PROVE  /\ Bytes(s) \in [0 .. Len(s) -> Nat] /\ Bytes(s)[0] = 0
         /\ \A n \in 1 .. Len(s) : Bytes(s)[n] = Bytes(s)[n - 1] + s[n].size
         /\ Size(s) \in Nat
<1>1. PICK f \in [0 .. Len(s) -> Nat] : IsBytes(f, s, Len(s))
  BY BytesExist
<1>2. IsBytes(Bytes(s), s, Len(s))
  BY <1>1 DEF Bytes, IsBytes
<1> DEFINE b == Bytes(s)
<1>3. \A n \in 0 .. Len(s) : b[n] = IF n = 0 THEN 0 ELSE b[n - 1] + s[n].size
  BY <1>2 DEF IsBytes
<1>4. b = [n \in 0 .. Len(s) |-> b[n]]
  BY <1>2 DEF IsBytes
<1> HIDE DEF b
<1> DEFINE S == {n \in Nat : n <= Len(s) => b[n] \in Nat}
<1>5. 0 \in S
  BY <1>3
<1>6. ASSUME NEW n \in Nat, n \in S PROVE n + 1 \in S
  <2> SUFFICES ASSUME n + 1 <= Len(s) PROVE b[n + 1] \in Nat
    OBVIOUS
  <2>1. s[n + 1].size \in Nat
    BY SizesAreNumbers
  <2> QED
    BY <1>3, <1>6, <2>1
<1>7. \A n \in 0 .. Len(s) : b[n] \in Nat
  <2>1. Nat \subseteq S
    <3> HIDE DEF S
    <3> QED
      BY <1>5, <1>6, NumbersByInduction
  <2> QED
    BY <2>1
<1>8. b \in [0 .. Len(s) -> Nat]
  BY <1>4, <1>7
<1>9. b[0] = 0 /\ b[Len(s)] \in Nat /\ \A n \in 1 .. Len(s) : b[n] = b[n - 1] + s[n].size
  BY <1>3, <1>7
<1> QED
  BY <1>8, <1>9 DEF b, Size

\* Two sequences, one after the other.
LEMMA JoinedAre ==
  ASSUME NEW S, NEW s \in Seq(S), NEW t \in Seq(S)
  PROVE  /\ s \o t \in Seq(S) /\ Len(s \o t) = Len(s) + Len(t)
         /\ \A i \in 1 .. Len(s) : (s \o t)[i] = s[i]
         /\ \A i \in 1 .. Len(t) : (s \o t)[Len(s) + i] = t[i]
  OBVIOUS

\* The size of two pieces is the sum of theirs.
LEMMA SizesAdd ==
  ASSUME NEW s \in Seq(LogEvents), NEW t \in Seq(LogEvents)
  PROVE  Size(s \o t) = Size(s) + Size(t)
<1> DEFINE u == s \o t
<1>1. /\ u \in Seq(LogEvents) /\ Len(u) = Len(s) + Len(t)
      /\ \A n \in 1 .. Len(s) : u[n] = s[n]
      /\ \A n \in 1 .. Len(t) : u[Len(s) + n] = t[n]
  OBVIOUS
<1> HIDE DEF u
<1> DEFINE S == {n \in Nat : n <= Len(s) => Bytes(u)[n] = Bytes(s)[n]}
           T == {n \in Nat : n <= Len(t) => Bytes(u)[Len(s) + n] = Size(s) + Bytes(t)[n]}
<1>2. Nat \subseteq S
  <2>1. 0 \in S
    BY <1>1, BytesAre
  <2>2. ASSUME NEW n \in Nat, n \in S PROVE n + 1 \in S
    <3> SUFFICES ASSUME n + 1 <= Len(s) PROVE Bytes(u)[n + 1] = Bytes(s)[n + 1]
      OBVIOUS
    <3>1. n + 1 \in 1 .. Len(s) /\ n + 1 \in 1 .. Len(u)
      BY <1>1
    <3>2. Bytes(u)[n + 1] = Bytes(u)[(n + 1) - 1] + u[n + 1].size
      BY <1>1, <3>1, BytesAre
    <3>3. Bytes(s)[n + 1] = Bytes(s)[(n + 1) - 1] + s[n + 1].size
      BY <3>1, BytesAre
    <3>4. u[n + 1] = s[n + 1] /\ (n + 1) - 1 = n /\ Bytes(u)[n] = Bytes(s)[n]
      BY <1>1, <2>2, <3>1
    <3> QED
      BY <3>2, <3>3, <3>4
  <2> HIDE DEF S
  <2> QED
    BY <2>1, <2>2, NumbersByInduction
<1>3. Bytes(u)[Len(s)] = Size(s)
  BY <1>2 DEF Size
<1>4. Nat \subseteq T
  <2>1. 0 \in T
    BY <1>3, BytesAre
  <2>2. ASSUME NEW n \in Nat, n \in T PROVE n + 1 \in T
    <3> SUFFICES ASSUME n + 1 <= Len(t)
                 PROVE  Bytes(u)[Len(s) + (n + 1)] = Size(s) + Bytes(t)[n + 1]
      OBVIOUS
    <3>1. n + 1 \in 1 .. Len(t) /\ Len(s) + (n + 1) \in 1 .. Len(u)
      BY <1>1
    <3>2. Bytes(u)[Len(s) + (n + 1)] = Bytes(u)[(Len(s) + (n + 1)) - 1] + u[Len(s) + (n + 1)].size
      BY <1>1, <3>1, BytesAre
    <3>3. Bytes(t)[n + 1] = Bytes(t)[(n + 1) - 1] + t[n + 1].size
      BY <3>1, BytesAre
    <3>4. (Len(s) + (n + 1)) - 1 = Len(s) + n /\ (n + 1) - 1 = n /\ n \in 0 .. Len(t)
      BY <3>1
    <3>7. Size(s) \in Nat /\ Bytes(t) \in [0 .. Len(t) -> Nat]
      BY BytesAre
    <3>8. Bytes(t)[n] \in Nat
      BY <3>4, <3>7
    <3>5. u[Len(s) + (n + 1)] = t[n + 1] /\ Bytes(u)[Len(s) + n] = Size(s) + Bytes(t)[n]
      BY <1>1, <2>2, <3>1
    <3>6. t[n + 1] \in LogEvents /\ t[n + 1].size \in Nat
      BY <3>1, SizesAreNumbers
    <3> QED
      BY <3>2, <3>3, <3>4, <3>5, <3>6, <3>7, <3>8
  <2> HIDE DEF T
  <2> QED
    BY <2>1, <2>2, NumbersByInduction
<1> QED
  BY <1>1, <1>4 DEF Size, u

\* What is left without the first events.
LEMMA WithoutIs ==
  ASSUME NEW s \in Seq(LogEvents), NEW k \in 0 .. Len(s)
  PROVE  /\ Without(s, k) \in Seq(LogEvents) /\ Len(Without(s, k)) = Len(s) - k
         /\ \A i \in 1 .. Len(s) - k : Without(s, k)[i] = s[k + i]
         /\ Size(Without(s, k)) \in Nat
<1>1. /\ Without(s, k) \in Seq(LogEvents) /\ Len(Without(s, k)) = Len(s) - k
      /\ \A i \in 1 .. Len(s) - k : Without(s, k)[i] = s[k + i]
  BY DEF Without
<1> QED
  BY <1>1, BytesAre

\* Dropping one more event takes its size away.
LEMMA OneIsDropped ==
  ASSUME NEW s \in Seq(LogEvents), NEW k \in 1 .. Len(s)
  PROVE  Size(Without(s, k - 1)) = s[k].size + Size(Without(s, k))
<1> DEFINE one == SubSeq(s, k, k)
           rest == Without(s, k)
           both == Without(s, k - 1)
<1>1. k - 1 \in 0 .. Len(s) /\ k \in 0 .. Len(s) /\ s[k].size \in Nat
  BY SizesAreNumbers
<1>2. one \in Seq(LogEvents) /\ rest \in Seq(LogEvents) /\ both \in Seq(LogEvents)
  BY <1>1, WithoutIs
<1>3. Len(one) = 1 /\ one[1] = s[k]
  OBVIOUS
<1>4. Len(rest) = Len(s) - k /\ \A i \in 1 .. Len(s) - k : rest[i] = s[k + i]
  BY <1>1, WithoutIs
<1>5. /\ Len(both) = Len(s) - (k - 1)
      /\ \A i \in 1 .. Len(s) - (k - 1) : both[i] = s[(k - 1) + i]
  BY <1>1, WithoutIs
<1> HIDE DEF one, rest, both
<1>6. both = one \o rest
  <2>1. /\ one \o rest \in Seq(LogEvents) /\ Len(one \o rest) = Len(one) + Len(rest)
        /\ \A i \in 1 .. Len(one) : (one \o rest)[i] = one[i]
        /\ \A i \in 1 .. Len(rest) : (one \o rest)[Len(one) + i] = rest[i]
    BY <1>2, JoinedAre
  <2>2. Len(rest) \in Nat /\ Len(both) = Len(one) + Len(rest)
    BY <1>2, <1>3, <1>4, <1>5
  <2>3. (one \o rest)[1] = both[1]
    BY <1>3, <1>5, <2>1
  <2>4. ASSUME NEW i \in 1 .. Len(rest) PROVE both[1 + i] = (one \o rest)[1 + i]
    <3>1. /\ i \in 1 .. Len(s) - k /\ 1 + i \in 1 .. Len(s) - (k - 1)
          /\ (k - 1) + (1 + i) = k + i
      BY <1>4
    <3>2. both[1 + i] = s[(k - 1) + (1 + i)] /\ rest[i] = s[k + i]
      BY <1>4, <1>5, <3>1
    <3> QED
      BY <1>3, <2>1, <3>1, <3>2
  <2>5. \A i \in 1 .. Len(both) : i = 1 \/ (i - 1 \in 1 .. Len(rest) /\ i = 1 + (i - 1))
    BY <1>3, <2>2
  <2>6. \A i \in 1 .. Len(both) : both[i] = (one \o rest)[i]
    BY <2>3, <2>4, <2>5
  <2> QED
    BY <1>2, <2>1, <2>2, <2>6, SeqEqual
<1>7. Size(one) = s[k].size
  <2>1. 1 \in 1 .. Len(one) /\ 1 - 1 = 0
    BY <1>3
  <2>2. Bytes(one)[1] = Bytes(one)[1 - 1] + one[1].size /\ Bytes(one)[0] = 0
    BY <1>2, <2>1, BytesAre
  <2> QED
    BY <1>1, <1>3, <2>1, <2>2 DEF Size
<1>8. Size(both) = Size(one) + Size(rest)
  BY <1>2, <1>6, SizesAdd
<1> QED
  BY <1>7, <1>8 DEF both, rest

\* The window drops the first events, as many as both limits ask for.
LEMMA WindowIs ==
  ASSUME NEW s \in Seq(LogEvents)
  PROVE  /\ Window(s) \in Seq(LogEvents)
         /\ Len(Window(s)) <= MaxEvents /\ Size(Window(s)) <= MaxBytes
         /\ \E k \in 0 .. Len(s) :
              /\ Window(s) = Without(s, k)
              /\ k > 0 => \/ Len(Window(s)) = MaxEvents
                          \/ Size(Window(s)) + s[k].size > MaxBytes
<1> DEFINE enough == {n \in 0 .. Len(s) : /\ Len(Without(s, n)) <= MaxEvents
                                          /\ Size(Without(s, n)) <= MaxBytes}
           k == CHOOSE n \in enough : \A m \in enough : n <= m
<1>1. Len(s) \in enough
  <2>1. /\ Len(s) \in 0 .. Len(s) /\ Len(Without(s, Len(s))) = 0
        /\ Without(s, Len(s)) \in Seq(LogEvents)
    BY WithoutIs
  <2>2. Size(Without(s, Len(s))) = 0
    BY <2>1, BytesAre DEF Size
  <2> QED
    BY <2>1, <2>2, LimitAssumption, BoundsAssumption
<1>2. k \in enough /\ \A m \in enough : k <= m
  <2>1. enough \subseteq Nat
    OBVIOUS
  <2> HIDE DEF enough
  <2> QED
    BY <1>1, <2>1, LeastNumber
<1>3. Window(s) = Without(s, k)
  BY DEF Window
<1>4. k \in 0 .. Len(s) /\ Len(Without(s, k)) <= MaxEvents /\ Size(Without(s, k)) <= MaxBytes
  BY <1>2
<1>5. ASSUME k > 0
      PROVE  Len(Without(s, k)) = MaxEvents \/ Size(Without(s, k)) + s[k].size > MaxBytes
  <2>1. k - 1 \notin enough
    BY <1>2, <1>4, <1>5
  <2> HIDE DEF k
  <2>2. k - 1 \in 0 .. Len(s) /\ k \in 1 .. Len(s)
    BY <1>4, <1>5
  <2>3. ~(Len(Without(s, k - 1)) <= MaxEvents) \/ ~(Size(Without(s, k - 1)) <= MaxBytes)
    BY <2>1, <2>2
  <2>4. Len(Without(s, k - 1)) = Len(s) - (k - 1)
    BY <2>2, WithoutIs
  <2>6. Len(Without(s, k)) = Len(s) - k /\ Size(Without(s, k)) \in Nat
    BY <2>2, WithoutIs
  <2>5. Size(Without(s, k - 1)) = s[k].size + Size(Without(s, k)) /\ s[k].size \in Nat
    BY <2>2, OneIsDropped, SizesAreNumbers
  <2>7. CASE ~(Len(Without(s, k - 1)) <= MaxEvents)
    <3>1. Len(s) \in Nat /\ k \in Nat /\ MaxEvents \in Nat
      BY <2>2, LimitAssumption
    <3>2. Len(s) - (k - 1) > MaxEvents /\ Len(s) - k <= MaxEvents
      BY <1>4, <2>4, <2>6, <2>7, <3>1
    <3>3. Len(s) - k = MaxEvents
      BY <3>1, <3>2
    <3> QED
      BY <2>6, <3>3
  <2>8. CASE ~(Size(Without(s, k - 1)) <= MaxBytes)
    BY <2>5, <2>6, <2>8, BoundsAssumption
  <2> QED
    BY <2>3, <2>7, <2>8
<1> HIDE DEF k
<1> QED
  BY <1>3, <1>4, <1>5, WithoutIs
-----------------------------------------------------------------------------
Pages == [run : PublicRuns \cup {NoRun}, after : Nat, events : Seq(LogEvents), next : Nat,
          more : BOOLEAN, terminal : BOOLEAN]

Results == {Unparsed, Denied}
  \cup [ok : {TRUE}, events : Seq(LogEvents), next : 0 .. Last, more : BOOLEAN, terminal : BOOLEAN]

Requests == [run : PublicRuns, after : 0 .. Last, done : BOOLEAN, result : Results]

PageFits(page, run, after) ==
  EventsFit(page.events, run, after) /\ page.next = after + Len(page.events)

\* The log and its sizes.
LEMMA SizesType == Last \in Nat /\ \A n \in 1 .. Last : Sizes[n] \in Nat
  BY LimitAssumption DEF Last

\* The page a server sends is a page.
LEMMA PagesAre ==
  ASSUME NEW run \in PublicRuns, NEW after \in 0 .. Last, NEW upto \in after .. Last,
         NEW size \in 0 .. Last, ends \in BOOLEAN
  PROVE  Page(run, after, size, ends, upto) \in Pages
<1> DEFINE events == [i \in 1 .. upto - after |-> Event(run, after + i, ends)]
<1>1. ASSUME NEW i \in 1 .. upto - after PROVE Event(run, after + i, ends) \in LogEvents
  <2>1. after + i \in 1 .. Last
    BY SizesType
  <2>2. PICK b \in BOOLEAN : b = (ends /\ after + i = Last)
    OBVIOUS
  <2>3. Event(run, after + i, ends) =
          [run |-> run, seq |-> after + i, id |-> after + i, size |-> Sizes[after + i],
           terminal |-> b]
    BY <2>2 DEF Event
  <2> QED
    BY <2>1, <2>3, SizesType DEF LogEvents, Sized
<1>2. upto - after \in Nat /\ upto \in Nat /\ after \in Nat
  BY SizesType
<1>3. events \in Seq(LogEvents)
  BY <1>1, <1>2
<1>4. PICK b \in BOOLEAN : b = Final(events)
  BY Zenon DEF Final
<1>5. PICK c \in BOOLEAN : c = (upto < size)
  <2>1. (upto < size) \in BOOLEAN
    OBVIOUS
  <2> QED
    BY <2>1, Zenon
<1>6. Page(run, after, size, ends, upto) =
        [run |-> run, after |-> after, events |-> events, next |-> upto, more |-> c, terminal |-> b]
  BY <1>4, <1>5 DEF Page
<1> HIDE DEF events
<1> QED
  BY <1>2, <1>3, <1>6 DEF Pages

\* A page that is wrong in one respect is a page.
LEMMA WrongPagesAre ==
  ASSUME NEW page \in Pages
  PROVE  WrongPages(page) \subseteq Pages
<1> DEFINE n == Len(page.events)
<1>1. page.events \in Seq(LogEvents) /\ n \in Nat
  BY DEF Pages
<1>2. ASSUME NEW run \in PublicRuns \cup {NoRun} PROVE [page EXCEPT !.run = run] \in Pages
  BY DEF Pages
<1>3. [page EXCEPT !.after = @ + 1] \in Pages /\ [page EXCEPT !.next = @ + 1] \in Pages
  BY DEF Pages
<1>9. [page EXCEPT !.more = ~@] \in Pages /\ [page EXCEPT !.terminal = ~@] \in Pages
  <2>1. ASSUME NEW b \in BOOLEAN
        PROVE  [page EXCEPT !.more = b] \in Pages /\ [page EXCEPT !.terminal = b] \in Pages
    BY DEF Pages
  <2>2. (~page.more) \in BOOLEAN /\ (~page.terminal) \in BOOLEAN
    BY Zenon
  <2> QED
    BY <2>1, <2>2
<1>4. ASSUME NEW events \in Seq(LogEvents)
      PROVE  [page EXCEPT !.events = events] \in Pages
  BY DEF Pages
<1>5. ASSUME NEW i \in 1 .. n, NEW run \in PublicRuns \cup {NoRun}
      PROVE  [page EXCEPT !.events[i].run = run] \in Pages
  <2>1. page.events[i] \in LogEvents
    BY <1>1
  <2>2. [page.events[i] EXCEPT !.run = run] \in LogEvents
    BY <2>1 DEF LogEvents, Sized
  <2>3. [page.events EXCEPT ![i] = [page.events[i] EXCEPT !.run = run]] \in Seq(LogEvents)
    BY <1>1, <2>2
  <2>4. [page EXCEPT !.events[i].run = run] =
          [page EXCEPT !.events = [page.events EXCEPT ![i] = [page.events[i] EXCEPT !.run = run]]]
    OBVIOUS
  <2> QED
    BY <1>4, <2>3, <2>4
<1>6. ASSUME NEW i \in 1 .. n, NEW id \in 1 .. Last
      PROVE  [page EXCEPT !.events[i].id = id] \in Pages
  <2>1. page.events[i] \in LogEvents
    BY <1>1
  <2>2. [page.events[i] EXCEPT !.id = id] \in LogEvents
    BY <2>1 DEF LogEvents, Sized
  <2>3. [page.events EXCEPT ![i] = [page.events[i] EXCEPT !.id = id]] \in Seq(LogEvents)
    BY <1>1, <2>2
  <2>4. [page EXCEPT !.events[i].id = id] =
          [page EXCEPT !.events = [page.events EXCEPT ![i] = [page.events[i] EXCEPT !.id = id]]]
    OBVIOUS
  <2> QED
    BY <1>4, <2>3, <2>4
<1>7. ASSUME n > 0 PROVE [page EXCEPT !.events = Tail(@)] \in Pages
  <2>1. Tail(page.events) \in Seq(LogEvents)
    BY <1>1, <1>7
  <2> QED
    BY <1>4, <2>1
<1>8. ASSUME NEW i \in 1 .. n
      PROVE  [page EXCEPT !.events[i].terminal = TRUE, !.terminal = TRUE, !.more = FALSE] \in Pages
  <2> DEFINE events == [page.events EXCEPT ![i] = [page.events[i] EXCEPT !.terminal = TRUE]]
  <2>1. page.events[i] \in LogEvents
    BY <1>1
  <2>2. [page.events[i] EXCEPT !.terminal = TRUE] \in LogEvents
    BY <2>1 DEF LogEvents, Sized
  <2>3. events \in Seq(LogEvents)
    BY <1>1, <2>2
  <2>4. [page EXCEPT !.events[i].terminal = TRUE, !.terminal = TRUE, !.more = FALSE] =
          [page EXCEPT !.events = events, !.terminal = TRUE, !.more = FALSE]
    OBVIOUS
  <2> HIDE DEF events
  <2>5. [page EXCEPT !.events = events, !.terminal = TRUE, !.more = FALSE] \in Pages
    BY <2>3 DEF Pages
  <2> QED
    BY <2>4, <2>5
<1> DEFINE Runs == PublicRuns \cup {NoRun}
           shorter == [page EXCEPT !.events = Tail(@)]
           ended(i) == [page EXCEPT !.events[i].terminal = TRUE, !.terminal = TRUE, !.more = FALSE]
           renamed(i, id) == [page EXCEPT !.events[i].id = id]
           moved(i, run) == [page EXCEPT !.events[i].run = run]
           A == {[page EXCEPT !.run = run] : run \in Runs}
           B == {[page EXCEPT !.after = @ + 1], [page EXCEPT !.next = @ + 1],
                 [page EXCEPT !.more = ~@], [page EXCEPT !.terminal = ~@]}
           C == {moved(i, run) : i \in 1 .. n, run \in Runs}
           D == {renamed(i, id) : i \in 1 .. n, id \in 1 .. Last}
           E == IF n > 0 THEN {shorter} ELSE {}
           F == {ended(i) : i \in 1 .. n}
<1>10. A \subseteq Pages
  BY <1>2
<1>11. B \subseteq Pages
  BY <1>3, <1>9
<1>12. C \subseteq Pages
  BY <1>5
<1>13. D \subseteq Pages
  BY <1>6
<1>14. E \subseteq Pages
  BY <1>7
<1>15. F \subseteq Pages
  BY <1>8
<1>16. WrongPages(page) = A \cup B \cup C \cup D \cup E \cup F
  BY DEF WrongPages
<1> HIDE DEF A, B, C, D, E, F
<1> QED
  BY <1>10, <1>11, <1>12, <1>13, <1>14, <1>15, <1>16

\* What a page that parses says is the log after the cursor.
LEMMA ParsedFits ==
  ASSUME NEW page \in Pages, NEW run \in PublicRuns, NEW after \in 0 .. Last
  PROVE  /\ Parse(page, run, after) \in Results
         /\ Parse(page, run, after).ok =>
              PageFits(Parse(page, run, after), run, after)
<1>1. CASE Parse(page, run, after) = Unparsed
  BY <1>1 DEF Unparsed, Results
<1>2. CASE /\ EventsFit(page.events, run, after) /\ page.next = NextAfter(page.events, after)
           /\ Parse(page, run, after) =
                [ok |-> TRUE, events |-> page.events, next |-> page.next,
                 more |-> page.more, terminal |-> page.terminal]
  <2>1. page.events \in Seq(LogEvents) /\ page.more \in BOOLEAN /\ page.terminal \in BOOLEAN
    BY DEF Pages
  <2>2. page.next \in 0 .. Last /\ page.next = after + Len(page.events)
    <3>1. CASE page.events = <<>>
      BY <1>2, <3>1, SizesType DEF NextAfter
    <3>2. CASE page.events # <<>>
      <4>1. Len(page.events) \in DOMAIN page.events
        BY <2>1, <3>2
      <4>2. page.events[Len(page.events)].seq = after + Len(page.events)
        BY <1>2, <4>1 DEF EventsFit, Contiguous
      <4>3. page.events[Len(page.events)].seq \in 1 .. Last
        BY <2>1, <4>1 DEF LogEvents, Sized
      <4> QED
        BY <1>2, <3>2, <4>2, <4>3, SizesType DEF NextAfter
    <3> QED
      BY <3>1, <3>2
  <2>3. Parse(page, run, after) \in Results
    BY <1>2, <2>1, <2>2 DEF Results
  <2> QED
    BY <1>2, <2>2, <2>3 DEF PageFits
<1> QED
  BY <1>1, <1>2 DEF Parse
-----------------------------------------------------------------------------
\* The events and reads are of the log, if not always of the right run.
Typed ==
  /\ DetailsTypeOK
  /\ records \in Seq(LogEvents) /\ request \in Requests \cup {None}
  /\ written \in 0 .. Last /\ ends \in BOOLEAN

\* A page that was accepted is what its request asked for.
AnswerFits ==
  Pending /\ request.done /\ request.result.ok =>
    PageFits(request.result, request.run, request.after)

\* A refusal keeps the view from reading.
Halted == refused => paused \/ binding = None

DetailsInv == Typed /\ RetainedIsTheLog /\ ReadIsWanted /\ AnswerFits /\ Halted
-----------------------------------------------------------------------------
\* Nothing retained is of no size.
LEMMA NothingHasNoSize == <<>> \in Seq(LogEvents) /\ Size(<<>>) = 0 /\ Len(<<>>) = 0
<1>1. <<>> \in Seq(LogEvents) /\ Len(<<>>) = 0
  OBVIOUS
<1> QED
  BY <1>1, BytesAre DEF Size

\* The details begin with nothing retained.
LEMMA DetailsBegin == Init => DetailsInv
<1> SUFFICES ASSUME Init PROVE DetailsInv
  OBVIOUS
<1>1. Typed
  <2>1. records \in Seq(LogEvents) /\ Len(records) = 0 /\ Size(records) = 0
    BY NothingHasNoSize DEF Init
  <2>2. 0 \in 0 .. Last /\ MaxEvents \in Nat /\ MaxBytes \in Nat
    BY LimitAssumption, BoundsAssumption, SizesType
  <2>3. expanded \in [Folds -> BOOLEAN]
    BY DEF Init
  <2>4. Len(records) <= MaxEvents /\ Size(records) <= MaxBytes
    BY <2>1, <2>2
  <2>5. DetailsTypeOK
    BY <2>2, <2>3, <2>4, Zenon DEF Init, DetailsTypeOK
  <2> QED
    BY <2>1, <2>2, <2>5, Zenon DEF Init, Typed
<1>2. RetainedIsTheLog
  BY NothingHasNoSize DEF Init, RetainedIsTheLog
<1> QED
  BY <1>1, <1>2 DEF Init, DetailsInv, ReadIsWanted, AnswerFits, Halted, Pending

\* What ends a read and clears the window keeps the invariant.
LEMMA ClearedKeeps ==
  ASSUME DetailsInv, NEW pause \in BOOLEAN, NEW wait \in BOOLEAN, Cleared(pause, wait),
         binding' \in Bindings \cup {None}, choice' \in Bindings \cup {None},
         selected' \in Folds \cup {None}, expanded' \in [Folds -> BOOLEAN],
         UNCHANGED <<written, ends>>, Halted'
  PROVE  DetailsInv'
<1>1. /\ request' = None /\ records' = <<>> /\ cursor' = 0 /\ terminal' = FALSE
      /\ paused' = pause /\ waiting' = wait
  BY DEF Cleared
<1>2. Typed'
  <2>1. DetailsTypeOK'
    <3>1. Len(records') = 0 /\ Size(records') = 0
      BY <1>1, NothingHasNoSize
    <3>2. 0 \in 0 .. Last /\ MaxEvents \in Nat /\ MaxBytes \in Nat
      BY LimitAssumption, BoundsAssumption, SizesType
    <3>3. Len(records') <= MaxEvents /\ Size(records') <= MaxBytes
      BY <3>1, <3>2
    <3> QED
      BY <1>1, <3>2, <3>3, Zenon DEF DetailsTypeOK
  <2> QED
    BY <1>1, <2>1, NothingHasNoSize DEF DetailsInv, Typed
<1>3. RetainedIsTheLog'
  BY <1>1, NothingHasNoSize DEF RetainedIsTheLog
<1> QED
  BY <1>1, <1>2, <1>3 DEF DetailsInv, ReadIsWanted, AnswerFits, Pending

\* What is retained stays the log while it is left alone.
LEMMA WindowStays ==
  ASSUME RetainedIsTheLog, UNCHANGED <<records, cursor, binding>>
  PROVE  RetainedIsTheLog'
  BY DEF RetainedIsTheLog

\* A page that continues the log extends the window by its end.
LEMMA AppliedKeeps ==
  ASSUME DetailsInv, Pending, request.done, request.result.ok, Continues(request.result),
         records' = Window(records \o request.result.events), cursor' = request.result.next,
         UNCHANGED binding
  PROVE  /\ RetainedIsTheLog' /\ records' \in Seq(LogEvents) /\ cursor' \in 0 .. Last
         /\ Len(records') <= MaxEvents /\ Size(records') <= MaxBytes
<1> DEFINE page == request.result
           events == page.events
           all == records \o events
<1>1. /\ page \in Results /\ page.ok /\ request.run = binding /\ request.after = cursor
      /\ binding \in PublicRuns /\ PageFits(page, binding, cursor)
      /\ records \in Seq(LogEvents) /\ cursor \in 0 .. Last
      /\ Size(records) <= MaxBytes /\ Len(records) <= MaxEvents
  BY DEF DetailsInv, Typed, DetailsTypeOK, ReadIsWanted, AnswerFits, Pending, Requests, Active
<1>2. events \in Seq(LogEvents) /\ page.next \in 0 .. Last
  <2> HIDE DEF page
  <2>1. page # Unparsed /\ page # Denied
    BY <1>1 DEF Unparsed, Denied
  <2> QED
    BY <1>1, <2>1 DEF Results
<1>3. /\ page.next = cursor + Len(events) /\ Contiguous(events, cursor)
      /\ \A i \in DOMAIN events : events[i].run = binding
      /\ \A i, j \in DOMAIN events : events[i].id = events[j].id => i = j
  BY <1>1 DEF PageFits, EventsFit
<1>4. \A i \in DOMAIN events, j \in DOMAIN records : events[i].id # records[j].id
  BY <1>2 DEF Continues
<1>5. /\ \A i \in 1 .. Len(records) :
           records[i].run = binding /\ records[i].seq = cursor - Len(records) + i
      /\ \A i, j \in 1 .. Len(records) : records[i].id = records[j].id => i = j
  BY DEF DetailsInv, RetainedIsTheLog
<1> HIDE DEF page, events
<1>6. /\ all \in Seq(LogEvents) /\ Len(all) = Len(records) + Len(events)
      /\ \A i \in 1 .. Len(records) : all[i] = records[i]
      /\ \A i \in 1 .. Len(events) : all[Len(records) + i] = events[i]
  BY <1>1, <1>2, JoinedAre
<1>7. Size(all) = Size(records) + Size(events) /\ Size(records) \in Nat /\ Size(events) \in Nat
  BY <1>1, <1>2, SizesAdd, BytesAre
<1> HIDE DEF all
<1>8. /\ Len(records) \in Nat /\ Len(events) \in Nat /\ cursor \in Nat
      /\ DOMAIN events = 1 .. Len(events) /\ DOMAIN records = 1 .. Len(records)
  BY <1>1, <1>2, SizesType
<1>9. \A i \in 1 .. Len(all) :
        i \in 1 .. Len(records) \/ (i - Len(records) \in 1 .. Len(events)
                                    /\ i = Len(records) + (i - Len(records)))
  BY <1>6, <1>8
<1>10. ASSUME NEW i \in 1 .. Len(all)
       PROVE  all[i].run = binding /\ all[i].seq = page.next - Len(all) + i
  <2>1. CASE i \in 1 .. Len(records)
    <3>1. all[i].run = binding /\ all[i].seq = cursor - Len(records) + i
      BY <1>5, <1>6, <2>1
    <3> QED
      BY <1>3, <1>6, <1>8, <3>1, <2>1
  <2>2. CASE i - Len(records) \in 1 .. Len(events) /\ i = Len(records) + (i - Len(records))
    <3> DEFINE j == i - Len(records)
    <3>1. j \in 1 .. Len(events) /\ all[i] = events[j]
      BY <1>6, <2>2
    <3>2. events[j].run = binding /\ events[j].seq = cursor + j
      BY <1>3, <1>8, <3>1 DEF Contiguous
    <3>3. page.next - Len(all) + i = cursor + j
      BY <1>3, <1>6, <1>8, <2>2
    <3> QED
      BY <3>1, <3>2, <3>3
  <2> QED
    BY <1>9, <2>1, <2>2
<1>11. ASSUME NEW i \in 1 .. Len(all), NEW j \in 1 .. Len(all), all[i].id = all[j].id
       PROVE  i = j
  <2> DEFINE Old(k) == k \in 1 .. Len(records)
             New(k) == /\ k - Len(records) \in 1 .. Len(events)
                       /\ k = Len(records) + (k - Len(records))
  <2>1. (Old(i) \/ New(i)) /\ (Old(j) \/ New(j))
    BY <1>9
  <2>2. CASE Old(i) /\ Old(j)
    BY <1>5, <1>6, <1>11, <2>2
  <2>3. CASE New(i) /\ New(j)
    <3>1. all[i] = events[i - Len(records)] /\ all[j] = events[j - Len(records)]
      BY <1>6, <2>3
    <3>2. i - Len(records) = j - Len(records)
      BY <1>3, <1>8, <1>11, <2>3, <3>1
    <3> QED
      BY <2>3, <3>2
  <2>4. CASE New(i) /\ Old(j)
    <3>1. all[i] = events[i - Len(records)] /\ all[j] = records[j]
      BY <1>6, <2>4
    <3> QED
      BY <1>4, <1>8, <1>11, <2>4, <3>1
  <2>5. CASE Old(i) /\ New(j)
    <3>1. all[j] = events[j - Len(records)] /\ all[i] = records[i]
      BY <1>6, <2>5
    <3> QED
      BY <1>4, <1>8, <1>11, <2>5, <3>1
  <2> QED
    BY <2>1, <2>2, <2>3, <2>4, <2>5
<1>12. /\ records' = Window(all) /\ records' \in Seq(LogEvents)
       /\ Len(records') <= MaxEvents /\ Size(records') <= MaxBytes
       /\ cursor' = page.next /\ binding' = binding
  BY <1>6, WindowIs DEF all, page, events
<1>13. PICK k \in 0 .. Len(all) :
         /\ Window(all) = Without(all, k)
         /\ k > 0 => \/ Len(Window(all)) = MaxEvents
                     \/ Size(Window(all)) + all[k].size > MaxBytes
  BY <1>6, WindowIs
<1>14. /\ Len(records') = Len(all) - k
       /\ \A i \in 1 .. Len(all) - k : records'[i] = all[k + i]
  <2>1. all \in Seq(LogEvents) /\ records' = Without(all, k)
    BY <1>6, <1>12, <1>13
  <2> QED
    BY <2>1, WithoutIs
<1>15. Len(all) \in Nat /\ k \in Nat /\ Len(records') \in Nat /\ page.next \in Nat
       /\ \A i \in 1 .. Len(records') : k + i \in 1 .. Len(all)
  BY <1>2, <1>6, <1>13, <1>14, SizesType
<1>16. ASSUME NEW i \in 1 .. Len(records')
       PROVE  records'[i].run = binding' /\ records'[i].seq = cursor' - Len(records') + i
  <2>1. records'[i] = all[k + i] /\ k + i \in 1 .. Len(all)
    BY <1>14, <1>15
  <2>2. all[k + i].run = binding /\ all[k + i].seq = page.next - Len(all) + (k + i)
    BY <1>10, <2>1
  <2>3. page.next - Len(all) + (k + i) = page.next - Len(records') + i
    BY <1>14, <1>15
  <2> QED
    BY <1>12, <2>1, <2>2, <2>3
<1>17. ASSUME NEW i \in 1 .. Len(records'), NEW j \in 1 .. Len(records'),
              records'[i].id = records'[j].id
       PROVE  i = j
  <2>1. /\ records'[i] = all[k + i] /\ k + i \in 1 .. Len(all)
        /\ records'[j] = all[k + j] /\ k + j \in 1 .. Len(all)
    BY <1>14, <1>15
  <2>2. k + i = k + j
    BY <1>11, <1>17, <2>1
  <2> QED
    BY <1>15, <2>2
<1>18. ASSUME cursor' > Len(records')
       PROVE  \/ Len(records') = MaxEvents
              \/ Size(records') + Sizes[cursor' - Len(records')] > MaxBytes
  <2>1. CASE k > 0
    <3>1. k \in 1 .. Len(all) /\ all[k] \in LogEvents
      BY <1>6, <1>13, <2>1
    <3>2. all[k].size = Sizes[page.next - Len(all) + k]
      BY <1>10, <3>1 DEF LogEvents
    <3>3. page.next - Len(all) + k = page.next - Len(records')
      BY <1>14, <1>15
    <3> QED
      BY <1>12, <1>13, <2>1, <3>2, <3>3
  <2>2. CASE k = 0
    <3>1. Len(records') = Len(all) /\ records' = all
      <4>1. \A i \in 1 .. Len(all) : records'[i] = all[i]
        BY <1>14, <1>15, <2>2
      <4> QED
        BY <1>6, <1>12, <1>14, <1>15, <2>2, <4>1, SeqEqual
    <3>2. cursor > Len(records) /\ page.next - Len(all) = cursor - Len(records)
      BY <1>3, <1>6, <1>8, <1>12, <1>15, <1>18, <3>1
    <3>3. \/ Len(records) = MaxEvents
          \/ Size(records) + Sizes[cursor - Len(records)] > MaxBytes
      BY <3>2 DEF DetailsInv, RetainedIsTheLog
    <3>4. CASE Len(records) = MaxEvents
      BY <1>6, <1>8, <1>12, <3>1, <3>4, LimitAssumption
    <3>5. CASE Size(records) + Sizes[cursor - Len(records)] > MaxBytes
      <4>1. Sizes[cursor - Len(records)] \in Nat
        <5>1. cursor - Len(records) \in 1 .. Last
          BY <1>1, <1>8, <3>2, SizesType
        <5> QED
          BY <5>1, SizesType
      <4>2. Size(records') = Size(records) + Size(events)
        BY <1>7, <3>1
      <4> QED
        BY <1>7, <1>12, <3>1, <3>2, <3>5, <4>1, <4>2, BoundsAssumption
    <3> QED
      BY <3>3, <3>4, <3>5
  <2> QED
    BY <1>15, <2>1, <2>2
<1>19. RetainedIsTheLog'
  BY <1>1, <1>12, <1>16, <1>17, <1>18 DEF RetainedIsTheLog
<1> QED
  BY <1>2, <1>12, <1>19

\* What leaves the window and the binding alone, and no read begins, keeps the
\* invariant.
LEMMA NoReadKeeps ==
  ASSUME DetailsInv, UNCHANGED <<binding, records, cursor, terminal, choice>>,
         request' \in {request, None}, waiting' \in BOOLEAN, paused' \in BOOLEAN,
         selected' \in Folds \cup {None}, expanded' \in [Folds -> BOOLEAN],
         request' # None => Active', written' \in 0 .. Last, ends' \in BOOLEAN, Halted'
  PROVE  DetailsInv'
<1>1. Typed'
  BY DEF DetailsInv, Typed, DetailsTypeOK
<1>2. RetainedIsTheLog'
  BY WindowStays DEF DetailsInv
<1>3. ReadIsWanted' /\ AnswerFits'
  BY DEF DetailsInv, ReadIsWanted, AnswerFits, Pending
<1> QED
  BY <1>1, <1>2, <1>3 DEF DetailsInv

\* Steps of the view.
LEMMA TickKeeps ==
  ASSUME DetailsInv, Tick
  PROVE  DetailsInv'
<1>1. /\ request' = Spawned(binding, cursor) /\ binding \in PublicRuns /\ cursor \in 0 .. Last
      /\ UNCHANGED <<binding, choice, records, cursor, terminal, paused, waiting, expanded,
                     selected,
                     written, ends, refused>>
  BY DEF Tick, Active, DetailsInv, Typed, DetailsTypeOK, foldVars, envVars, serverVars
<1>2. request' \in Requests
  BY <1>1 DEF Spawned, Requests, Results
<1>3. request'.run = binding /\ request'.after = cursor /\ ~request'.done
  BY <1>1 DEF Spawned
<1>4. Typed' /\ RetainedIsTheLog' /\ Halted'
  BY <1>1, <1>2, WindowStays DEF DetailsInv, Typed, DetailsTypeOK, Halted
<1>5. ReadIsWanted'
  BY <1>1, <1>3 DEF Tick, Active, ReadIsWanted
<1> QED
  BY <1>3, <1>4, <1>5 DEF DetailsInv, AnswerFits

\* Steps of the view: the answer is taken, or dropped.
LEMMA CompleteKeeps ==
  ASSUME DetailsInv, Complete
  PROVE  DetailsInv'
<1>1. /\ Pending /\ request.done /\ request \in Requests /\ request.result \in Results
      /\ UNCHANGED <<binding, choice, expanded, selected, written, ends>>
  BY DEF Complete, DetailsInv, Typed, Pending, Requests, foldVars, serverVars
<1>2. Active /\ ~refused /\ paused \in BOOLEAN /\ terminal \in BOOLEAN
  BY <1>1, BoundsAssumption DEF DetailsInv, ReadIsWanted, Halted, Active, Typed, DetailsTypeOK
<1>3. /\ binding \in Bindings \cup {None} /\ choice \in Bindings \cup {None}
      /\ selected \in Folds \cup {None} /\ expanded \in [Folds -> BOOLEAN]
  BY DEF DetailsInv, Typed, DetailsTypeOK
<1>4. CASE request.result.ok /\ ~Continues(request.result) /\ Cleared(TRUE, FALSE)
  <2>1. Halted'
    BY <1>4 DEF Cleared, Halted
  <2> QED
    BY <1>1, <1>3, <1>4, <2>1, ClearedKeeps
<1>5. CASE ~request.result.ok /\ Failed(request.result)
  <2>1. request.result.denied \in BOOLEAN /\ Denied.denied
    <3>1. \A result \in Results : ~result.ok => result \in {Unparsed, Denied}
      BY DEF Results
    <3>2. Unparsed.denied = FALSE /\ Denied.denied = TRUE
      BY DEF Unparsed, Denied
    <3> QED
      BY <1>1, <1>5, <3>1, <3>2
  <2>2. PICK pause \in BOOLEAN, wait \in BOOLEAN :
          pause = request.result.denied /\ wait = ~request.result.denied
    BY <2>1
  <2>3. Cleared(pause, wait)
    BY <1>5, <2>2 DEF Failed
  <2>4. Halted'
    BY <1>2, <2>1, <2>2, <2>3 DEF Complete, Cleared, Halted
  <2> QED
    BY <1>1, <1>3, <2>3, <2>4, ClearedKeeps
<1>6. CASE /\ request.result.ok /\ Continues(request.result)
           /\ records' = Window(records \o request.result.events)
           /\ cursor' = request.result.next /\ terminal' = request.result.terminal
           /\ waiting' = ~request.result.more /\ request' = None /\ UNCHANGED paused
  <2>1. /\ RetainedIsTheLog' /\ records' \in Seq(LogEvents) /\ cursor' \in 0 .. Last
        /\ Len(records') <= MaxEvents /\ Size(records') <= MaxBytes
    BY <1>1, <1>6, AppliedKeeps
  <2>2. request.result.more \in BOOLEAN /\ request.result.terminal \in BOOLEAN
    <3>1. request.result # Unparsed /\ request.result # Denied
      BY <1>6 DEF Unparsed, Denied
    <3> QED
      BY <1>1, <3>1 DEF Results
  <2>3. terminal' \in BOOLEAN /\ waiting' \in BOOLEAN
    BY <1>6, <2>2
  <2>4. Typed'
    BY <1>1, <1>2, <1>3, <1>6, <2>1, <2>3, Zenon DEF DetailsInv, Typed, DetailsTypeOK
  <2>5. Halted'
    <3>1. request.result # Denied
      BY <1>6 DEF Denied
    <3> QED
      BY <1>2, <3>1 DEF Complete, Halted
  <2> QED
    BY <1>6, <2>1, <2>4, <2>5 DEF DetailsInv, ReadIsWanted, AnswerFits, Pending
<1> QED
  BY <1>4, <1>5, <1>6 DEF Complete, Apply

\* A task read that ends with another binding, or is canceled.
LEMMA UpdateKeeps ==
  ASSUME DetailsInv, NEW new \in Bindings \cup {None}, TaskUpdated(new),
         UNCHANGED <<written, ends>>,
         refused' => refused /\ (new = binding \/ new = None)
  PROVE  DetailsInv'
<1>1. CASE new = binding /\ UNCHANGED view
  <2>1. /\ UNCHANGED <<binding, choice, records, cursor, terminal, paused, waiting, expanded,
                       selected, request>>
    BY <1>1 DEF view, windowVars, foldVars
  <2>2. Halted' /\ (request' # None => Active')
    BY <2>1 DEF DetailsInv, Halted, ReadIsWanted, Active, Pending
  <2> QED
    BY <2>1, <2>2, NoReadKeeps DEF DetailsInv, Typed, DetailsTypeOK
<1>2. CASE /\ new # binding /\ Cleared(FALSE, FALSE) /\ binding' = new
           /\ \/ UNCHANGED foldVars
              \/ choice' = new /\ expanded' = [fold \in Folds |-> FALSE] /\ selected' = None
  <2>1. /\ choice' \in Bindings \cup {None} /\ selected' \in Folds \cup {None}
        /\ expanded' \in [Folds -> BOOLEAN]
    BY <1>2 DEF DetailsInv, Typed, DetailsTypeOK, foldVars
  <2>2. Halted'
    BY <1>2 DEF Halted
  <2> QED
    BY <1>2, <2>1, <2>2, ClearedKeeps
<1> QED
  BY <1>1, <1>2 DEF TaskUpdated

\* Steps of the user.
LEMMA UserKeeps ==
  ASSUME DetailsInv, UserNext \/ TaskReadEnds
  PROVE  DetailsInv'
<1>1. /\ UNCHANGED <<written, ends>>
      /\ written \in 0 .. Last /\ ends \in BOOLEAN /\ waiting \in BOOLEAN /\ paused \in BOOLEAN
      /\ choice \in Bindings \cup {None} /\ binding \in Bindings \cup {None}
      /\ selected \in Folds \cup {None} /\ expanded \in [Folds -> BOOLEAN]
  BY DEF UserNext, TaskReadEnds, PressFold, PressKey, PressCancel, PressRefresh, TaskReadStarts,
         Act,
         serverVars, DetailsInv, Typed, DetailsTypeOK
<1>2. CASE PressFold
  <2>1. PICK fold \in Folds : Toggle(fold)
    BY <1>2 DEF PressFold
  <2>2. /\ selected' = fold /\ paused' = FALSE /\ expanded' \in [Folds -> BOOLEAN]
        /\ UNCHANGED <<binding, choice, records, cursor, terminal, waiting>>
    BY <1>1, <2>1 DEF Toggle
  <2>3. /\ request' \in {request, None}
        /\ request' # None => binding \in PublicRuns /\ \E f \in Folds : expanded'[f]
    BY <2>1 DEF Toggle, ClosedEnds
  <2>4. (request' # None => Active') /\ Halted'
    BY <1>2, <2>2, <2>3 DEF Active, Halted, PressFold
  <2> QED
    BY <1>1, <2>2, <2>3, <2>4, NoReadKeeps
<1>3. CASE PressKey
  <2>1. /\ UNCHANGED <<binding, choice, records, cursor, terminal, waiting, paused, request,
                       expanded,
                       refused>>
        /\ selected' \in Folds \cup {None}
    BY <1>1, <1>3 DEF PressKey, Select, windowVars, Folds
  <2>2. (request' # None => Active') /\ Halted'
    BY <2>1 DEF DetailsInv, Halted, ReadIsWanted, Active, Pending
  <2> QED
    BY <1>1, <2>1, <2>2, NoReadKeeps
<1>4. CASE PressCancel
  <2>1. CASE TaskUpdated(None) /\ UNCHANGED refused
    BY <1>1, <2>1, UpdateKeeps
  <2>2. CASE CancelRead /\ UNCHANGED <<binding, foldVars>>
    <3>1. Halted'
      BY <2>2 DEF CancelRead, Cleared, Halted
    <3> QED
      BY <1>1, <2>2, <3>1, ClearedKeeps DEF CancelRead, foldVars
  <2> QED
    BY <1>4, <2>1, <2>2 DEF PressCancel
<1>5. CASE PressRefresh
  <2>1. Halted' /\ Replay /\ UNCHANGED <<binding, foldVars>>
    BY <1>5 DEF PressRefresh, Halted
  <2> QED
    BY <1>1, <2>1, ClearedKeeps DEF Replay, foldVars
<1>6. CASE TaskReadStarts
  <2>1. /\ UNCHANGED <<binding, choice, records, cursor, terminal, waiting, paused, request,
                       expanded,
                       selected, refused>>
    BY <1>6 DEF TaskReadStarts, view, windowVars, foldVars
  <2>2. (request' # None => Active') /\ Halted'
    BY <2>1 DEF DetailsInv, Halted, ReadIsWanted, Active, Pending
  <2> QED
    BY <1>1, <2>1, <2>2, NoReadKeeps
<1>7. CASE TaskReadEnds
  <2>1. PICK new \in Bindings \cup {None} :
          TaskUpdated(new) /\ refused' = (refused /\ new = binding)
    BY <1>7 DEF TaskReadEnds
  <2> QED
    BY <1>1, <2>1, UpdateKeeps
<1> QED
  BY <1>2, <1>3, <1>4, <1>5, <1>6, <1>7 DEF UserNext

\* An answer that fits its request is held until the view takes it.
LEMMA AnsweredKeeps ==
  ASSUME DetailsInv, Pending, NEW result \in Results, Answered(result), ends' = ends,
         result.ok => PageFits(result, request.run, request.after)
  PROVE  DetailsInv'
<1>1. /\ request \in Requests /\ request' = [request EXCEPT !.done = TRUE, !.result = result]
      /\ UNCHANGED <<binding, choice, records, cursor, terminal, paused, waiting, expanded,
                     selected, written, refused>>
  BY DEF Answered, DetailsInv, Typed, Pending, foldVars
<1>2. /\ request' \in Requests /\ request'.run = request.run /\ request'.after = request.after
      /\ request'.result = result
  BY <1>1 DEF Requests
<1>3. Typed' /\ RetainedIsTheLog' /\ Halted'
  BY <1>1, <1>2, WindowStays DEF DetailsInv, Typed, DetailsTypeOK, Halted
<1>4. ReadIsWanted' /\ AnswerFits'
  BY <1>1, <1>2 DEF DetailsInv, ReadIsWanted, AnswerFits, Active, Pending
<1> QED
  BY <1>3, <1>4 DEF DetailsInv

\* Steps of the server.
LEMMA ServerKeeps ==
  ASSUME DetailsInv, Serve \/ Misbehave
  PROVE  DetailsInv'
<1>1. /\ Pending /\ request.run \in PublicRuns /\ request.after \in 0 .. Last
      /\ written \in 0 .. Last /\ ends \in BOOLEAN
  BY DEF Serve, Misbehave, DetailsInv, Typed, Pending, Requests
<1>2. ASSUME NEW page \in Pages, Answered(Parse(page, request.run, request.after))
      PROVE  DetailsInv'
  <2> DEFINE result == Parse(page, request.run, request.after)
  <2>1. result \in Results /\ (result.ok => PageFits(result, request.run, request.after))
    BY <1>1, ParsedFits
  <2>2. ends' = ends
    BY <1>2 DEF Answered
  <2> QED
    BY <1>1, <1>2, <2>1, <2>2, AnsweredKeeps
<1>3. ASSUME NEW upto \in Uptos PROVE PageOf(upto) \in Pages
  <2>1. upto \in request.after .. Last
    BY <1>1, SizesType DEF Uptos
  <2> QED
    BY <1>1, <2>1, PagesAre DEF PageOf
<1>4. CASE \E upto \in Uptos : Answered(Parse(PageOf(upto), request.run, request.after))
  BY <1>2, <1>3, <1>4
<1>5. CASE Answered(Denied) \/ Answered(Unparsed)
  <2>1. PICK result \in {Denied, Unparsed} : Answered(result)
    BY <1>5
  <2>2. result \in Results /\ ~result.ok /\ ends' = ends
    <3>1. result \in Results
      BY <2>1 DEF Results
    <3>2. ~Denied.ok /\ ~Unparsed.ok
      BY DEF Denied, Unparsed
    <3> QED
      BY <2>1, <3>1, <3>2 DEF Answered
  <2> QED
    BY <1>1, <2>1, <2>2, AnsweredKeeps
<1>6. CASE \E upto \in Uptos : \E page \in WrongPages(PageOf(upto)) :
             Answered(Parse(page, request.run, request.after))
  BY <1>2, <1>3, <1>6, WrongPagesAre
<1> QED
  BY <1>4, <1>5, <1>6 DEF Serve, Misbehave

\* Every step of the details.
LEMMA DetailsStep == DetailsInv /\ [Next]_vars => DetailsInv'
<1> SUFFICES ASSUME DetailsInv, [Next]_vars PROVE DetailsInv'
  OBVIOUS
<1>1. CASE Second \/ Publish \/ UNCHANGED vars
  <2>1. /\ UNCHANGED <<binding, choice, records, cursor, terminal, paused, request, expanded,
                       selected, refused, ends>>
        /\ waiting' \in {waiting, FALSE} /\ written' \in {written, written + 1}
        /\ written' # written => written < Last
    BY <1>1 DEF Second, Publish, vars, view, windowVars, foldVars, envVars, serverVars
  <2>2. written' \in 0 .. Last
    BY <2>1, SizesType DEF DetailsInv, Typed
  <2>3. (request' # None => Active') /\ Halted'
    BY <2>1 DEF DetailsInv, Halted, ReadIsWanted, Active, Pending
  <2> QED
    BY <2>1, <2>2, <2>3, NoReadKeeps DEF DetailsInv, Typed, DetailsTypeOK
<1> QED
  BY <1>1, TickKeeps, CompleteKeeps, UserKeeps, ServerKeeps DEF Next, ReadNext

\* What the invariant says of the view.
LEMMA DetailsAreKept == DetailsInv => DetailsAreTheLog /\ ReadsAreTheUsers
<1> SUFFICES ASSUME DetailsInv PROVE DetailsAreTheLog /\ ReadsAreTheUsers
  OBVIOUS
<1>1. ReadsAreTheUsers
  BY BoundsAssumption
     DEF DetailsInv, ReadsAreTheUsers, ReadIsWanted, RefusalStopsReads, Halted, Active
<1>2. OmissionIsTold
  <2> DEFINE trace == Drawn(1)
             told == {records[i] : i \in {i \in DOMAIN records :
                                             (records[i].seq \in Summaries) = (1 = 0)}}
  <2> SUFFICES ASSUME NEW event \in trace.events, NEW n \in 1 .. Last, n < event.seq,
                      n \notin Summaries
               PROVE  trace.omitted \/ \E earlier \in trace.events : earlier.seq = n
    BY DEF OmissionIsTold
  <2>1. trace.events = told /\ trace.omitted = (1 = 1 /\ told # {} /\ Omission)
    BY DEF Drawn
  <2>2. PICK i \in DOMAIN records : event = records[i]
    BY <2>1
  <2>3. /\ records \in Seq(LogEvents) /\ cursor \in Nat /\ Len(records) \in Nat
        /\ \A j \in 1 .. Len(records) : records[j].seq = cursor - Len(records) + j
    BY SizesType DEF DetailsInv, Typed, DetailsTypeOK, RetainedIsTheLog
  <2>4. 1 \in DOMAIN records /\ i \in 1 .. Len(records)
    BY <2>2, <2>3
  <2>5. CASE records[1].seq > 1
    <3>1. Omission
      BY <2>4, <2>5 DEF Omission
    <3>2. event \in told
      BY <2>1
    <3> HIDE DEF trace, told
    <3> QED
      BY <2>1, <3>1, <3>2, Zenon
  <2>6. CASE ~(records[1].seq > 1)
    <3> DEFINE j == n - cursor + Len(records)
    <3>1. j \in 1 .. Len(records)
      <4>1. event.seq = cursor - Len(records) + i /\ records[1].seq = cursor - Len(records) + 1
        BY <2>2, <2>3, <2>4
      <4>2. cursor \in Nat /\ Len(records) \in Nat /\ i \in 1 .. Len(records)
        BY <2>3, <2>4
      <4>3. cursor - Len(records) <= 0
        BY <2>6, <4>1, <4>2
      <4>4. n < cursor - Len(records) + i
        BY <4>1
      <4> QED
        BY <4>2, <4>3, <4>4, SizesType
    <3>2. records[j].seq = n
      BY <2>3, <3>1
    <3>3. records[j] \in told
      BY <2>3, <3>1, <3>2
    <3> QED
      BY <2>1, <3>2, <3>3
  <2> QED
    BY <2>5, <2>6
<1> QED
  BY <1>1, <1>2 DEF DetailsInv, Typed, DetailsAreTheLog
-----------------------------------------------------------------------------
Line == Logs!Line

Mark == Logs!GapLine

\* The order of the lines, of a list of them.
InOrder(s) ==
  /\ \A i \in 1 .. Len(s) - 1 : Logs!Follows(s[i], s[i + 1])
  /\ \A i, j \in DOMAIN s :
       i < j /\ s[i] # Mark /\ s[j] # Mark =>
         \/ s[i].record < s[j].record
         \/ s[i].record = s[j].record /\ s[i].line < s[j].line

\* The lines are of records before this one; the last of them is the last line
\* of the record before, or marks a gap.
UpTo(s, n) == \A i \in DOMAIN s : s[i].record < n
Meets(s, n) ==
  s # <<>> => LET last == s[Len(s)] IN
              \/ last = Mark
              \/ /\ last.record # 0 /\ last.record + 1 = n
                 /\ last.line = IF last.record \in Tall THEN 2 ELSE 1

\* A sequence with one more element.
LEMMA AppendedIs ==
  ASSUME NEW S, NEW s \in Seq(S), NEW e \in S
  PROVE  /\ Append(s, e) \in Seq(S) /\ Len(Append(s, e)) = Len(s) + 1
         /\ \A i \in 1 .. Len(s) : Append(s, e)[i] = s[i]
         /\ Append(s, e)[Len(s) + 1] = e
  OBVIOUS

\* The mark of a gap is a line, of no record.
LEMMA MarkIsALine == Mark \in Line /\ Mark.record = 0
  BY LogAssumption DEF Mark, Line, Logs!GapLine, Logs!Line

\* A line that follows the last one and is after all of them.
LEMMA LineFollows ==
  ASSUME NEW s \in Seq(Line), NEW line \in Line, InOrder(s),
         s # <<>> => Logs!Follows(s[Len(s)], line),
         \A i \in DOMAIN s : s[i] # Mark /\ line # Mark =>
           s[i].record < line.record \/ (s[i].record = line.record /\ s[i].line < line.line)
  PROVE  InOrder(Append(s, line)) /\ Append(s, line) \in Seq(Line)
<1> DEFINE t == Append(s, line)
           n == Len(s)
<1>1. /\ t \in Seq(Line) /\ Len(t) = n + 1 /\ n \in Nat
      /\ \A i \in 1 .. n : t[i] = s[i]
      /\ t[n + 1] = line
  BY AppendedIs
<1>2. DOMAIN s = 1 .. n /\ DOMAIN t = 1 .. n + 1 /\ (n # 0 => s # <<>>)
  BY <1>1
<1> HIDE DEF t, n
<1>3. ASSUME NEW i \in 1 .. Len(t) - 1 PROVE Logs!Follows(t[i], t[i + 1])
  <2>1. CASE i < n
    <3>1. i \in 1 .. Len(s) - 1 /\ i \in 1 .. n /\ i + 1 \in 1 .. n
      BY <1>1, <2>1 DEF n
    <3> QED
      BY <1>1, <3>1 DEF InOrder
  <2>2. CASE i = n
    <3>1. s # <<>> /\ t[i] = s[Len(s)] /\ t[i + 1] = line
      BY <1>1, <1>2, <2>2 DEF n
    <3> QED
      BY <3>1
  <2> QED
    BY <1>1, <2>1, <2>2
<1>4. ASSUME NEW i \in DOMAIN t, NEW j \in DOMAIN t, i < j, t[i] # Mark, t[j] # Mark
      PROVE  t[i].record < t[j].record \/ (t[i].record = t[j].record /\ t[i].line < t[j].line)
  <2>1. i \in 1 .. n /\ (j \in 1 .. n \/ j = n + 1) /\ t[i] = s[i]
    BY <1>1, <1>2, <1>4
  <2>2. CASE j \in 1 .. n
    BY <1>1, <1>2, <1>4, <2>1, <2>2 DEF InOrder
  <2>3. CASE j = n + 1
    BY <1>1, <1>2, <1>4, <2>1, <2>3
  <2> QED
    BY <2>1, <2>2, <2>3
<1> QED
  BY <1>1, <1>3, <1>4 DEF InOrder, t

\* The mark of a gap follows anything.
LEMMA MarkFollows ==
  ASSUME NEW s \in Seq(Line), InOrder(s), NEW n \in Nat \ {0}, UpTo(s, n)
  PROVE  LET t == Append(s, Mark) IN
         InOrder(t) /\ t \in Seq(Line) /\ UpTo(t, n) /\ Meets(t, n)
<1> DEFINE t == Append(s, Mark)
<1>1. InOrder(t) /\ t \in Seq(Line)
  BY MarkIsALine, LineFollows DEF Logs!Follows, Mark
<1>2. UpTo(t, n)
  BY MarkIsALine, AppendedIs DEF UpTo
<1>3. t[Len(t)] = Mark
  BY MarkIsALine, AppendedIs
<1> QED
  BY <1>1, <1>2, <1>3 DEF Meets

\* The lines of the next record follow.
LEMMA RecordFollows ==
  ASSUME NEW n \in 1 .. Records, NEW s \in Seq(Line), InOrder(s), UpTo(s, n), Meets(s, n)
  PROVE  LET t == s \o Logs!LinesOf(n) IN
         InOrder(t) /\ t \in Seq(Line) /\ UpTo(t, n + 1) /\ Meets(t, n + 1)
<1> DEFINE one == [record |-> n, line |-> 1]
           two == [record |-> n, line |-> 2]
           a == Append(s, one)
           b == Append(a, two)
<1>1. /\ one \in Line /\ two \in Line /\ one # Mark /\ two # Mark /\ Records \in Nat
      /\ one.record = n /\ one.line = 1 /\ two.record = n /\ two.line = 2
  BY LogAssumption DEF Line, Mark, Logs!Line, Logs!GapLine
<1>2. s # <<>> => s[Len(s)] \in Line /\ Len(s) \in DOMAIN s
  OBVIOUS
<1>3. s # <<>> => Logs!Follows(s[Len(s)], one)
  <2> SUFFICES ASSUME s # <<>> PROVE Logs!Follows(s[Len(s)], one)
    OBVIOUS
  <2> DEFINE last == s[Len(s)]
  <2>1. CASE last = Mark
    BY <2>1 DEF Logs!Follows, Mark
  <2>2. CASE /\ last.record # 0 /\ last.record + 1 = n
             /\ last.line = IF last.record \in Tall THEN 2 ELSE 1
    <3>1. last \in Line
      BY <1>2
    <3> QED
      BY <1>1, <2>2, <3>1 DEF Logs!Follows, Line, Logs!Line
  <2> QED
    BY <2>1, <2>2 DEF Meets
<1>4. \A i \in DOMAIN s : s[i].record < n
  BY DEF UpTo
<1>5. InOrder(a) /\ a \in Seq(Line)
  <2>1. \A i \in DOMAIN s : s[i] # Mark /\ one # Mark =>
          s[i].record < one.record \/ (s[i].record = one.record /\ s[i].line < one.line)
    BY <1>1, <1>4
  <2> HIDE DEF one
  <2> QED
    BY <1>1, <1>3, <2>1, LineFollows
<1>6. /\ Len(a) = Len(s) + 1 /\ a[Len(s) + 1] = one /\ Len(s) \in Nat
      /\ \A i \in 1 .. Len(s) : a[i] = s[i]
  BY <1>1, AppendedIs
<1>10. \A i \in DOMAIN a : a[i].record \in Nat /\ i \in 1 .. Len(a)
  <2> HIDE DEF a
  <2>1. \A i \in DOMAIN a : a[i] \in Line /\ i \in 1 .. Len(a)
    BY <1>5
  <2> QED
    BY <1>1, <2>1 DEF Line, Logs!Line
<1>7. \A i \in DOMAIN a : a[i].record < n \/ (a[i].record = n /\ a[i].line = 1)
  <2>1. \A i \in DOMAIN a : i \in DOMAIN s \/ i = Len(s) + 1
    BY <1>5, <1>6
  <2> QED
    BY <1>1, <1>4, <1>6, <2>1
<1>8. CASE n \notin Tall
  <2>1. s \o Logs!LinesOf(n) = a
    <3>1. Logs!LinesOf(n) = <<one>>
      BY <1>8 DEF Logs!LinesOf
    <3> HIDE DEF one
    <3> QED
      BY <1>1, <3>1, AppendIsConcat
  <2>2. UpTo(a, n + 1)
    <3> HIDE DEF a
    <3> QED
      BY <1>7, <1>10 DEF UpTo
  <2>3. Meets(a, n + 1)
    <3>1. a[Len(a)] = one
      BY <1>6
    <3> QED
      BY <1>1, <1>8, <3>1 DEF Meets
  <2> HIDE DEF a
  <2> QED
    BY <1>5, <2>1, <2>2, <2>3
<1>9. CASE n \in Tall
  <2>1. InOrder(b) /\ b \in Seq(Line)
    <3>1. a # <<>> => Logs!Follows(a[Len(a)], two)
      <4>1. a[Len(a)] = one
        BY <1>6
      <4> QED
        BY <1>1, <4>1 DEF Logs!Follows
    <3>2. \A i \in DOMAIN a : a[i] # Mark /\ two # Mark =>
            a[i].record < two.record \/ (a[i].record = two.record /\ a[i].line < two.line)
      BY <1>1, <1>7
    <3> HIDE DEF a, two
    <3> QED
      BY <1>1, <1>5, <3>1, <3>2, LineFollows
  <2>2. /\ Len(b) = Len(a) + 1 /\ b[Len(a) + 1] = two /\ Len(a) \in Nat
        /\ \A i \in 1 .. Len(a) : b[i] = a[i]
    <3> HIDE DEF a, two
    <3> QED
      BY <1>1, <1>5, AppendedIs
  <2>3. s \o Logs!LinesOf(n) = b
    <3>1. Logs!LinesOf(n) = <<one, two>>
      BY <1>9 DEF Logs!LinesOf
    <3>2. <<one, two>> = Append(<<one>>, two)
      OBVIOUS
    <3> HIDE DEF one, two
    <3>3. <<one>> \in Seq(Line) /\ <<two>> \in Seq(Line)
      BY <1>1
    <3>5. Append(<<one>>, two) = <<one>> \o <<two>>
      BY <1>1, <3>3, AppendIsConcat
    <3>6. s \o (<<one>> \o <<two>>) = (s \o <<one>>) \o <<two>>
      BY <3>3, ConcatAssociative
    <3>4. s \o <<one, two>> = (s \o <<one>>) \o <<two>>
      BY <3>2, <3>5, <3>6
    <3> QED
      BY <1>1, <1>5, <3>1, <3>4, AppendIsConcat
  <2>4. UpTo(b, n + 1)
    <3>1. \A i \in DOMAIN b : i \in DOMAIN a \/ i = Len(a) + 1
      BY <1>5, <2>1, <2>2
    <3> HIDE DEF a, b, two
    <3>3. ASSUME NEW i \in DOMAIN b PROVE b[i].record < n + 1
      <4>1. CASE i \in DOMAIN a
        BY <1>7, <1>10, <2>2, <4>1
      <4>2. CASE i = Len(a) + 1
        BY <1>1, <2>2, <4>2
      <4> QED
        BY <3>1, <4>1, <4>2
    <3> QED
      BY <3>3 DEF UpTo
  <2>5. Meets(b, n + 1)
    <3>1. b[Len(b)] = two
      BY <2>2
    <3> QED
      BY <1>1, <1>9, <3>1 DEF Meets
  <2> HIDE DEF b
  <2> QED
    BY <2>1, <2>3, <2>4, <2>5
<1> QED
  BY <1>8, <1>9

-----------------------------------------------------------------------------
\* Sequences of lines, one after the other.

IsFlat(f, seqs, m) == f = [i \in 1 .. m |-> IF i = 1 THEN seqs[1] ELSE f[i - 1] \o seqs[i]]

\* The recursion of FlattenSeq is well defined.
LEMMA FlatExists ==
  ASSUME NEW S, NEW seqs \in Seq(Seq(S))
  PROVE  \E f \in [1 .. Len(seqs) -> Seq(S)] : IsFlat(f, seqs, Len(seqs))
<1> DEFINE T == {m \in Nat : m <= Len(seqs) => \E f \in [1 .. m -> Seq(S)] : IsFlat(f, seqs, m)}
<1>1. 0 \in T
  <2> DEFINE f == [i \in 1 .. 0 |-> <<>>]
  <2>1. f \in [1 .. 0 -> Seq(S)] /\ IsFlat(f, seqs, 0)
    BY DEF IsFlat
  <2> QED
    BY <2>1
<1>2. ASSUME NEW m \in Nat, m \in T PROVE m + 1 \in T
  <2> SUFFICES ASSUME m + 1 <= Len(seqs)
               PROVE  \E g \in [1 .. m + 1 -> Seq(S)] : IsFlat(g, seqs, m + 1)
    OBVIOUS
  <2>1. PICK f \in [1 .. m -> Seq(S)] : IsFlat(f, seqs, m)
    BY <1>2
  <2>2. PICK last \in Seq(S) : last = IF m = 0 THEN seqs[1] ELSE f[m] \o seqs[m + 1]
    <3>1. seqs[m + 1] \in Seq(S) /\ (m # 0 => f[m] \in Seq(S)) /\ (m = 0 => seqs[1] \in Seq(S))
      OBVIOUS
    <3> QED
      BY <3>1, ConcatProperties
  <2> DEFINE g == [i \in 1 .. m + 1 |-> IF i <= m THEN f[i] ELSE last]
  <2>3. g \in [1 .. m + 1 -> Seq(S)]
    OBVIOUS
  <2>4. ASSUME NEW i \in 1 .. m + 1
        PROVE  g[i] = IF i = 1 THEN seqs[1] ELSE g[i - 1] \o seqs[i]
    <3>1. CASE i <= m
      <4>1. i \in 1 .. m /\ g[i] = f[i] /\ (i # 1 => g[i - 1] = f[i - 1])
        BY <3>1
      <4>2. f[i] = IF i = 1 THEN seqs[1] ELSE f[i - 1] \o seqs[i]
        BY <2>1, <4>1 DEF IsFlat
      <4> QED
        BY <4>1, <4>2
    <3>2. CASE i = m + 1
      <4>1. g[i] = last /\ (m # 0 => g[i - 1] = f[m]) /\ (i = 1 <=> m = 0)
        BY <3>2
      <4> QED
        BY <2>2, <3>2, <4>1
    <3> QED
      BY <3>1, <3>2
  <2> HIDE DEF g
  <2>5. IsFlat(g, seqs, m + 1)
    BY <2>3, <2>4 DEF IsFlat
  <2> QED
    BY <2>3, <2>5
<1>3. Nat \subseteq T
  <2> HIDE DEF T
  <2> QED
    BY <1>1, <1>2, NumbersByInduction
<1> QED
  BY <1>3

\* What FlattenSeq puts together, up to each of the sequences.
LEMMA FlatIs ==
  ASSUME NEW S, NEW seqs \in Seq(Seq(S)), Len(seqs) # 0
  PROVE  \E f \in [1 .. Len(seqs) -> Seq(S)] :
           /\ Logs!FlattenSeq(seqs) = f[Len(seqs)]
           /\ f[1] = seqs[1]
           /\ \A i \in 2 .. Len(seqs) : f[i] = f[i - 1] \o seqs[i]
<1> DEFINE f == CHOOSE f : f = [i \in 1 .. Len(seqs) |->
                                 IF i = 1 THEN seqs[i] ELSE f[i - 1] \o seqs[i]]
<1>1. PICK g \in [1 .. Len(seqs) -> Seq(S)] : IsFlat(g, seqs, Len(seqs))
  BY FlatExists
<1>2. g = [i \in 1 .. Len(seqs) |-> IF i = 1 THEN seqs[i] ELSE g[i - 1] \o seqs[i]]
  BY <1>1 DEF IsFlat
<1>3. f = [i \in 1 .. Len(seqs) |-> IF i = 1 THEN seqs[i] ELSE f[i - 1] \o seqs[i]]
  BY <1>2
<1>4. Logs!FlattenSeq(seqs) = f[Len(seqs)]
  BY DEF Logs!FlattenSeq
<1> HIDE DEF f
<1>10. f = [i \in 1 .. Len(seqs) |-> f[i]]
  BY <1>3
<1>11. \A i \in 1 .. Len(seqs) : f[i] = IF i = 1 THEN seqs[i] ELSE f[i - 1] \o seqs[i]
  BY <1>3
<1> DEFINE T == {n \in Nat : n \in 1 .. Len(seqs) => f[n] \in Seq(S)}
<1>5. 0 \in T
  OBVIOUS
<1>6. ASSUME NEW n \in Nat, n \in T PROVE n + 1 \in T
  <2> SUFFICES ASSUME n + 1 \in 1 .. Len(seqs) PROVE f[n + 1] \in Seq(S)
    OBVIOUS
  <2>1. seqs[n + 1] \in Seq(S)
    OBVIOUS
  <2>4. (n + 1 = 1 <=> n = 0) /\ (n + 1) - 1 = n
    OBVIOUS
  <2>5. f[n + 1] = IF n + 1 = 1 THEN seqs[n + 1] ELSE f[(n + 1) - 1] \o seqs[n + 1]
    BY <1>11
  <2>2. f[n + 1] = IF n = 0 THEN seqs[n + 1] ELSE f[n] \o seqs[n + 1]
    BY <2>4, <2>5
  <2>3. n # 0 => f[n] \in Seq(S)
    BY <1>6
  <2> QED
    BY <2>1, <2>2, <2>3, ConcatProperties
<1>7. \A n \in 1 .. Len(seqs) : f[n] \in Seq(S)
  <2>1. Nat \subseteq T
    <3> HIDE DEF T
    <3> QED
      BY <1>5, <1>6, NumbersByInduction
  <2> QED
    BY <2>1
<1>8. f \in [1 .. Len(seqs) -> Seq(S)]
  BY <1>7, <1>10
<1>9. f[1] = seqs[1] /\ \A i \in 2 .. Len(seqs) : f[i] = f[i - 1] \o seqs[i]
  <2>1. 1 \in 1 .. Len(seqs) /\ \A i \in 2 .. Len(seqs) : i \in 1 .. Len(seqs) /\ i # 1
    OBVIOUS
  <2> QED
    BY <1>11, <2>1
<1> QED
  BY <1>4, <1>8, <1>9
-----------------------------------------------------------------------------
\* Lines that are in order and end with the last one before a record.
Reaches(s, n) == s \in Seq(Line) /\ InOrder(s) /\ UpTo(s, n) /\ Meets(s, n)

\* The lines of the records of a batch, record by record.
LEMMA ListsOfLines ==
  ASSUME NEW batch \in Seq(1 .. Records)
  PROVE  LET seqs == [i \in DOMAIN batch |-> Logs!LinesOf(batch[i])] IN
         /\ seqs \in Seq(Seq(Line)) /\ Len(seqs) = Len(batch)
         /\ \A i \in 1 .. Len(batch) : seqs[i] = Logs!LinesOf(batch[i])
<1> DEFINE seqs == [i \in DOMAIN batch |-> Logs!LinesOf(batch[i])]
<1>1. \A n \in 1 .. Records : Logs!LinesOf(n) \in Seq(Line)
  <2> SUFFICES ASSUME NEW n \in 1 .. Records PROVE Logs!LinesOf(n) \in Seq(Line)
    OBVIOUS
  <2>1. [record |-> n, line |-> 1] \in Line /\ [record |-> n, line |-> 2] \in Line
    BY LogAssumption DEF Line, Logs!Line
  <2> QED
    BY <2>1 DEF Logs!LinesOf
<1>2. \A i \in 1 .. Len(batch) : Logs!LinesOf(batch[i]) \in Seq(Line)
  <2> SUFFICES ASSUME NEW i \in 1 .. Len(batch) PROVE Logs!LinesOf(batch[i]) \in Seq(Line)
    OBVIOUS
  <2>1. batch[i] \in 1 .. Records
    BY ElementOfSeq
  <2> QED
    BY <1>1, <2>1, Zenon
<1>3. /\ DOMAIN seqs = 1 .. Len(batch) /\ seqs \in [1 .. Len(batch) -> Seq(Line)]
      /\ \A i \in 1 .. Len(batch) : seqs[i] = Logs!LinesOf(batch[i])
  BY <1>2
<1> HIDE DEF seqs
<1>4. seqs \in Seq(Seq(Line)) /\ Len(seqs) = Len(batch)
  BY <1>3, LenProperties
<1> QED
  BY <1>3, <1>4 DEF seqs

\* Lines are put together in any order.
LEMMA LinesJoin ==
  ASSUME NEW a \in Seq(Line), NEW b \in Seq(Line), NEW c \in Seq(Line)
  PROVE  (a \o b) \o c = a \o (b \o c)
  BY ConcatAssociative

\* The lines of records that follow one another.
LEMMA RecordsFollow ==
  ASSUME NEW first \in Nat \ {0}, NEW base, Reaches(base, first),
         NEW batch \in Seq(1 .. Records), \A i \in DOMAIN batch : batch[i] = first + i - 1
  PROVE  Reaches(base \o Logs!FlattenSeq([i \in DOMAIN batch |-> Logs!LinesOf(batch[i])]),
                 first + Len(batch))
<1> DEFINE seqs == [i \in DOMAIN batch |-> Logs!LinesOf(batch[i])]
<1>1. base \in Seq(Line) /\ Len(batch) \in Nat /\ DOMAIN batch = 1 .. Len(batch)
  BY DEF Reaches
<1>3. /\ seqs \in Seq(Seq(Line)) /\ Len(seqs) = Len(batch)
      /\ \A i \in 1 .. Len(batch) : seqs[i] = Logs!LinesOf(first + i - 1)
  <2>1. /\ seqs \in Seq(Seq(Line)) /\ Len(seqs) = Len(batch)
        /\ \A i \in 1 .. Len(batch) : seqs[i] = Logs!LinesOf(batch[i])
    BY ListsOfLines
  <2> HIDE DEF seqs
  <2> QED
    BY <1>1, <2>1
<1> HIDE DEF seqs
<1>4. CASE Len(batch) = 0
  <2>1. Logs!FlattenSeq(seqs) = <<>> /\ base \o <<>> = base /\ first + Len(batch) = first
    BY <1>1, <1>3, <1>4 DEF Logs!FlattenSeq
  <2> QED
    BY <2>1 DEF seqs
<1>5. CASE Len(batch) # 0
  <2>1. PICK f \in [1 .. Len(seqs) -> Seq(Line)] :
          /\ Logs!FlattenSeq(seqs) = f[Len(seqs)]
          /\ f[1] = seqs[1]
          /\ \A i \in 2 .. Len(seqs) : f[i] = f[i - 1] \o seqs[i]
    BY <1>3, <1>5, FlatIs
  <2> DEFINE T == {n \in Nat : n \in 1 .. Len(batch) => Reaches(base \o f[n], first + n)}
  <2>2. ASSUME NEW n \in 1 .. Len(batch), NEW s, Reaches(s, first + n - 1)
        PROVE  Reaches(s \o seqs[n], first + n)
    <3> DEFINE record == first + n - 1
    <3>1. record \in 1 .. Records /\ record + 1 = first + n
      BY <1>1, LogAssumption
    <3>2. seqs[n] = Logs!LinesOf(record)
      BY <1>3
    <3> HIDE DEF record
    <3> QED
      BY <2>2, <3>1, <3>2, RecordFollows DEF Reaches, record
  <2>3. ASSUME NEW n \in Nat, n \in T PROVE n + 1 \in T
    <3> SUFFICES ASSUME n + 1 \in 1 .. Len(batch)
                 PROVE  Reaches(base \o f[n + 1], first + (n + 1))
      OBVIOUS
    <3>1. CASE n = 0
      <4>1. first + (n + 1) - 1 = first /\ f[n + 1] = seqs[n + 1]
        BY <2>1, <3>1
      <4> QED
        BY <2>2, <4>1
    <3>2. CASE n # 0
      <4>1. n \in 1 .. Len(batch) /\ n + 1 \in 2 .. Len(seqs) /\ (n + 1) - 1 = n
            /\ n \in 1 .. Len(seqs) /\ n + 1 \in 1 .. Len(seqs)
            /\ first + (n + 1) - 1 = first + n
        BY <1>1, <1>3, <3>2
      <4>2. Reaches(base \o f[n], first + n)
        BY <2>3, <4>1
      <4>3. f[n + 1] = f[n] \o seqs[n + 1]
        BY <2>1, <4>1
      <4>4. f[n] \in Seq(Line) /\ seqs[n + 1] \in Seq(Line)
        BY <1>3, <2>1, <4>1, ElementOfSeq, Zenon
      <4>5. (base \o f[n]) \o seqs[n + 1] = base \o f[n + 1]
        <5>1. (base \o f[n]) \o seqs[n + 1] = base \o (f[n] \o seqs[n + 1])
          BY <1>1, <4>4, LinesJoin
        <5> QED
          BY <4>3, <5>1
      <4>6. Reaches((base \o f[n]) \o seqs[n + 1], first + (n + 1))
        BY <2>2, <4>1, <4>2
      <4> QED
        BY <4>5, <4>6
    <3> QED
      BY <3>1, <3>2
  <2>4. Nat \subseteq T
    <3>1. 0 \in T
      OBVIOUS
    <3> HIDE DEF T
    <3> QED
      BY <2>3, <3>1, NumbersByInduction
  <2>5. Reaches(base \o f[Len(seqs)], first + Len(batch))
    <3>1. Len(batch) \in T /\ Len(batch) \in 1 .. Len(batch)
      BY <1>1, <1>5, <2>4
    <3> QED
      BY <1>3, <3>1
  <2> QED
    BY <2>1, <2>5 DEF seqs
<1> QED
  BY <1>4, <1>5

\* The newest of the lines are in order, as all of them are.
LEMMA NewestReach ==
  ASSUME NEW s, NEW n \in Nat, Reaches(s, n)
  PROVE  /\ Reaches(Logs!Newest(s), n) /\ Len(Logs!Newest(s)) <= MaxLines
         /\ \A line : (\A i \in DOMAIN s : s[i] = line) =>
                      \A i \in DOMAIN Logs!Newest(s) : Logs!Newest(s)[i] = line
         /\ Logs!Newest(s) # <<>> => s # <<>>
<1> DEFINE t == Logs!Newest(s)
<1>1. s \in Seq(Line) /\ Len(s) \in Nat /\ DOMAIN s = 1 .. Len(s) /\ MaxLines \in Nat
  BY LogAssumption DEF Reaches
<1>2. PICK k \in 0 .. Len(s) :
        /\ t \in Seq(Line) /\ Len(t) = Len(s) - k /\ Len(t) <= MaxLines
        /\ \A i \in 1 .. Len(s) - k : t[i] = s[k + i]
  <2>1. CASE Len(s) > MaxLines
    <3> DEFINE k == Len(s) - MaxLines
    <3>1. k \in 0 .. Len(s) /\ MaxLines = Len(s) - k /\ k + 1 = Len(s) - MaxLines + 1
      BY <1>1, <2>1
    <3>2. t = SubSeq(s, k + 1, Len(s))
      BY <2>1, <3>1 DEF Logs!Newest
    <3> HIDE DEF k, t
    <3>3. /\ t \in Seq(Line) /\ Len(t) = Len(s) - k
          /\ \A i \in 1 .. Len(s) - k : t[i] = s[k + i]
      <4>1. k + 1 \in Int /\ Len(s) \in Int /\ \A i \in k + 1 .. Len(s) : s[i] \in Line
        BY <1>1, <3>1
      <4>2. /\ t \in Seq(Line)
            /\ Len(t) = IF k + 1 <= Len(s) THEN Len(s) - (k + 1) + 1 ELSE 0
            /\ \A i \in 1 .. Len(s) - (k + 1) + 1 : t[i] = s[(k + 1) + i - 1]
        BY <3>2, <4>1, SubSeqProperties
      <4>3. /\ Len(s) - (k + 1) + 1 = Len(s) - k
            /\ (~(k + 1 <= Len(s)) => Len(s) - k = 0)
            /\ \A i \in 1 .. Len(s) - k : (k + 1) + i - 1 = k + i
        <5>1. Len(s) \in Nat /\ k \in Nat /\ k <= Len(s)
          BY <1>1, <3>1
        <5> QED
          BY <5>1
      <4> QED
        BY <4>2, <4>3
    <3>4. Len(t) <= MaxLines
      BY <1>1, <3>1, <3>3
    <3> QED
      BY <3>1, <3>3, <3>4
  <2>2. CASE ~(Len(s) > MaxLines)
    <3>1. t = s /\ Len(s) <= MaxLines
      BY <1>1, <2>2 DEF Logs!Newest
    <3> HIDE DEF t
    <3>2. /\ 0 \in 0 .. Len(s) /\ t \in Seq(Line) /\ Len(t) = Len(s) - 0
          /\ \A i \in 1 .. Len(s) - 0 : t[i] = s[0 + i]
      BY <1>1, <3>1
    <3> QED
      BY <3>1, <3>2
  <2> QED
    BY <2>1, <2>2
<1> HIDE DEF t
<1>3. DOMAIN t = 1 .. Len(s) - k /\ \A i \in DOMAIN t : k + i \in DOMAIN s /\ t[i] = s[k + i]
  BY <1>1, <1>2
<1>4. InOrder(t)
  <2>1. ASSUME NEW i \in 1 .. Len(t) - 1 PROVE Logs!Follows(t[i], t[i + 1])
    <3>1. /\ i \in DOMAIN t /\ i + 1 \in DOMAIN t /\ k + i \in 1 .. Len(s) - 1
          /\ k + (i + 1) = (k + i) + 1
      BY <1>1, <1>2
    <3> QED
      BY <1>3, <3>1 DEF Reaches, InOrder
  <2>2. ASSUME NEW i \in DOMAIN t, NEW j \in DOMAIN t, i < j, t[i] # Mark, t[j] # Mark
        PROVE  t[i].record < t[j].record \/ (t[i].record = t[j].record /\ t[i].line < t[j].line)
    <3>1. /\ k + i \in DOMAIN s /\ k + j \in DOMAIN s /\ k + i < k + j
          /\ t[i] = s[k + i] /\ t[j] = s[k + j]
      BY <1>1, <1>2, <1>3, <2>2
    <3> QED
      BY <2>2, <3>1 DEF Reaches, InOrder
  <2> QED
    BY <2>1, <2>2 DEF InOrder
<1>5. UpTo(t, n)
  BY <1>3 DEF UpTo, Reaches
<1>6. Meets(t, n)
  <2> SUFFICES ASSUME t # <<>> PROVE Meets(t, n)
    BY DEF Meets
  <2>1. Len(t) \in DOMAIN t /\ k + Len(t) = Len(s) /\ s # <<>>
    BY <1>1, <1>2
  <2> QED
    BY <1>3, <2>1 DEF Meets, Reaches
<1>7. t # <<>> => s # <<>>
  BY <1>1, <1>2
<1> QED
  BY <1>2, <1>3, <1>4, <1>5, <1>6, <1>7 DEF Reaches, t
-----------------------------------------------------------------------------
\* The host, the clock and the frame.
LogTyped ==
  /\ Logs!HostLogsTypeOK
  /\ now \in Nat /\ shown.at \in 0 .. now
  /\ logWritten \in 0 .. Records /\ oldest \in 1 .. Records
  /\ oldest = 1 \/ oldest <= logWritten

\* A reader's receipt admitted the terminal.
Entitled(r) ==
  /\ authenticated /\ r.expires = r.receipt.expires
  /\ r.receipt.mode # "web" /\ r.receipt.endpoint = "own"

\* A reader goes on where the lines end, and under their receipt.
GoesOn(r) ==
  /\ r \in Logs!Readers /\ Entitled(r)
  /\ UpTo(lines, r.cursor + 1) /\ Meets(lines, r.cursor + 1)
  /\ IF r.cursor = 0 THEN lines = <<>> ELSE r.receipt = admitted

\* An answer is of the records that follow the lines, or of later ones behind a
\* gap; there are some, unless the lines and their receipt stay as they are.
Answers(task) ==
  LET first == task.reader.cursor + 1 - Len(task.records) IN
  /\ task.reader \in Logs!Readers /\ Entitled(task.reader)
  /\ task.records \in Seq(1 .. Records) /\ task.gap \in BOOLEAN /\ first > 0
  /\ \A i \in DOMAIN task.records : task.records[i] = first + i - 1
  /\ UpTo(lines, first) /\ (task.gap \/ Meets(lines, first))
  /\ task.records # <<>> => task.reader.receipt.generations = "own"
  /\ task.records # <<>> \/ task.gap => logWritten # 0
  /\ task.records = <<>> =>
       IF task.reader.cursor = 0 THEN lines = <<>> /\ ~task.gap /\ shown.lines = <<>>
                                 ELSE task.reader.receipt = admitted

\* The lines, and the frame, were admitted.
LinesHeld ==
  lines # <<>> =>
    /\ authenticated /\ admitted \in Logs!Receipts /\ expires = admitted.expires /\ expires # 0
    /\ admitted.mode # "web" /\ admitted.endpoint = "own" /\ logWritten # 0
    /\ admitted.generations = "own" \/ \A i \in DOMAIN lines : lines[i] = Mark
FrameHeld == shown.lines # <<>> => logWritten # 0

\* What the task of the view brings fits the lines that are there.
TaskFits ==
  logRequest # None =>
    /\ logRequest.stage = "bind" => lines = <<>>
    /\ logRequest.stage \in {"start", "read"} => GoesOn(logRequest.reader)
    /\ logRequest.stage = "ok" => Answers(logRequest)

LogInv ==
  /\ LogTyped /\ InOrder(lines)
  /\ (reader # None => GoesOn(reader)) /\ TaskFits
  /\ LinesHeld /\ FrameHeld
  /\ Logs!FramesAreAdmitted /\ Logs!RefusalEndsReading
-----------------------------------------------------------------------------
\* A function on the first numbers is a sequence.
LEMMA FunctionIsSeq ==
  ASSUME NEW S, NEW n \in Nat, NEW q \in [1 .. n -> S]
  PROVE  q \in Seq(S) /\ Len(q) = n
  OBVIOUS

\* The lines of a batch.
LEMMA FlatIsLines ==
  ASSUME NEW batch \in Seq(1 .. Records)
  PROVE  LET flat == Logs!FlattenSeq([i \in DOMAIN batch |-> Logs!LinesOf(batch[i])]) IN
         flat \in Seq(Line) /\ (batch = <<>> => flat = <<>>)
<1> DEFINE seqs == [i \in DOMAIN batch |-> Logs!LinesOf(batch[i])]
<1>2. seqs \in Seq(Seq(Line)) /\ Len(seqs) = Len(batch)
  BY ListsOfLines
<1> HIDE DEF seqs
<1>3. CASE Len(batch) = 0
  <2>1. Logs!FlattenSeq(seqs) = <<>>
    BY <1>2, <1>3 DEF Logs!FlattenSeq
  <2>2. <<>> \in Seq(Line)
    OBVIOUS
  <2> QED
    BY <2>1, <2>2, Zenon DEF seqs
<1>4. CASE Len(batch) # 0
  <2>1. PICK f \in [1 .. Len(seqs) -> Seq(Line)] : Logs!FlattenSeq(seqs) = f[Len(seqs)]
    BY <1>2, <1>4, FlatIs
  <2>2. Len(seqs) \in 1 .. Len(seqs) /\ batch # <<>>
    BY <1>2, <1>4
  <2> QED
    BY <2>1, <2>2 DEF seqs
<1> QED
  BY <1>3, <1>4

\* The answer's lines follow those of the view.
LEMMA BatchFollows ==
  ASSUME LogInv, logRequest # None, logRequest.stage = "ok"
  PROVE  LET all == lines \o Logs!BatchLines(logRequest) IN
         /\ Reaches(all, logRequest.reader.cursor + 1)
         /\ logRequest.records = <<>> /\ (\A i \in DOMAIN lines : lines[i] = Mark) =>
              \A i \in DOMAIN all : all[i] = Mark
         /\ all # <<>> => lines # <<>> \/ logRequest.records # <<>> \/ logRequest.gap
<1> DEFINE batch == logRequest.records
           first == logRequest.reader.cursor + 1 - Len(batch)
           flat == Logs!FlattenSeq([i \in DOMAIN batch |-> Logs!LinesOf(batch[i])])
           mark == IF logRequest.gap THEN <<Mark>> ELSE <<>>
           base == lines \o mark
<1>1. /\ batch \in Seq(1 .. Records) /\ logRequest.gap \in BOOLEAN
      /\ \A i \in DOMAIN batch : batch[i] = first + i - 1
      /\ UpTo(lines, first) /\ (logRequest.gap \/ Meets(lines, first))
      /\ lines \in Seq(Line) /\ InOrder(lines)
  BY DEF LogInv, TaskFits, Answers, LogTyped, Logs!HostLogsTypeOK, Line
<1>2. first \in Nat \ {0} /\ first + Len(batch) = logRequest.reader.cursor + 1
  <2>1. logRequest.reader.cursor \in Nat /\ first > 0
    BY LogAssumption DEF LogInv, TaskFits, Answers, Logs!Readers
  <2>2. Len(batch) \in Nat
    BY <1>1
  <2> HIDE DEF batch
  <2> QED
    BY <2>1, <2>2
<1>3. flat \in Seq(Line) /\ (batch = <<>> => flat = <<>>)
  <2> HIDE DEF batch
  <2> QED
    BY <1>1, FlatIsLines
<1>4. /\ mark \in Seq(Line)
      /\ logRequest.gap => base = Append(lines, Mark)
      /\ ~logRequest.gap => base = lines
  BY <1>1, MarkIsALine, AppendIsConcat
<1>5. Reaches(base, first)
  <2>1. CASE logRequest.gap
    BY <1>1, <1>2, <1>4, <2>1, MarkFollows DEF Reaches
  <2>2. CASE ~logRequest.gap
    BY <1>1, <1>4, <2>2 DEF Reaches
  <2> QED
    BY <2>1, <2>2
<1>6. lines \o Logs!BatchLines(logRequest) = base \o flat
  <2>1. Logs!BatchLines(logRequest) = mark \o flat
    BY DEF Logs!BatchLines, Mark
  <2> HIDE DEF mark, flat
  <2>2. lines \in Seq(Line) /\ mark \in Seq(Line) /\ flat \in Seq(Line)
    BY <1>1, <1>3, <1>4
  <2>3. (lines \o mark) \o flat = lines \o (mark \o flat)
    BY <2>2, LinesJoin
  <2> QED
    BY <2>1, <2>3
<1>7. Reaches(base \o flat, logRequest.reader.cursor + 1)
  <2> HIDE DEF base, first, batch
  <2> QED
    BY <1>1, <1>2, <1>5, RecordsFollow
<1>8. batch = <<>> => base \o flat = base
  <2> HIDE DEF base, flat, batch
  <2>1. base \in Seq(Line)
    BY <1>5 DEF Reaches
  <2> QED
    BY <1>3, <2>1
<1>9. (\A i \in DOMAIN lines : lines[i] = Mark) => \A i \in DOMAIN base : base[i] = Mark
  <2>1. CASE logRequest.gap
    BY <1>1, <1>4, <2>1, MarkIsALine, AppendedIs
  <2>2. CASE ~logRequest.gap
    BY <1>4, <2>2
  <2> QED
    BY <2>1, <2>2
<1> HIDE DEF base, flat, batch
<1> QED
  BY <1>4, <1>6, <1>7, <1>8, <1>9 DEF batch

\* A host's answer to the task that reads.
LEMMA BatchAnswers ==
  ASSUME LogInv, logRequest # None, logRequest.stage = "read",
         NEW batch \in Logs!Batches(logRequest.reader.cursor),
         Logs!FromSources(logRequest.reader, batch)
  PROVE  Answers([stage |-> "ok", reader |-> Logs!CursorMoves(logRequest.reader, batch),
                  records |-> batch.records, gap |-> batch.gap])
<1> DEFINE r == logRequest.reader
           c == r.cursor
           from == Logs!From(c)
           moved == Logs!CursorMoves(r, batch)
<1>1. /\ r \in Logs!Readers /\ Entitled(r) /\ UpTo(lines, c + 1) /\ Meets(lines, c + 1)
      /\ IF c = 0 THEN lines = <<>> ELSE r.receipt = admitted
  BY DEF LogInv, TaskFits, GoesOn
<1>2. /\ c \in 0 .. Records /\ logWritten \in 0 .. Records /\ oldest \in 1 .. Records
      /\ oldest = 1 \/ oldest <= logWritten
      /\ lines \in Seq(Line) /\ Records \in Nat
  BY <1>1, LogAssumption DEF LogInv, LogTyped, Logs!HostLogsTypeOK, Logs!Readers, Line
<1>3. PICK last \in Logs!Upto(c) :
        batch = [records |-> [i \in 1 .. last - from + 1 |-> from + i - 1],
                 cursor |-> last, gap |-> Logs!Missing(c)]
  BY DEF Logs!Batches
<1>4. from = IF c + 1 < oldest THEN oldest ELSE c + 1
  BY DEF Logs!From
<1>5. Logs!Missing(c) = (c # 0 /\ c + 1 < oldest)
  BY DEF Logs!Missing
<1>6. /\ last \in 0 .. logWritten /\ last + 1 >= from
      /\ last >= from \/ last = logWritten
  BY DEF Logs!Upto
<1>7. /\ moved.cursor = last /\ moved.receipt = r.receipt /\ moved.expires = r.expires
      /\ moved \in Logs!Readers
  <2>1. last \in 0 .. Records
    BY <1>2, <1>6
  <2> QED
    BY <1>1, <1>3, <2>1 DEF Logs!CursorMoves, Logs!Readers
<1> DEFINE n == last - from + 1
<1>8. /\ n \in Nat /\ from \in Nat \ {0} /\ last + 1 - n = from
      /\ \A i \in 1 .. n : from + i - 1 \in 1 .. Records
  <2> HIDE DEF c
  <2> QED
    BY <1>2, <1>4, <1>6
<1>9. /\ batch.records \in Seq(1 .. Records) /\ Len(batch.records) = n
      /\ \A i \in DOMAIN batch.records : batch.records[i] = from + i - 1
  <2>1. batch.records = [i \in 1 .. n |-> from + i - 1]
    BY <1>3
  <2> HIDE DEF n, from
  <2>2. \A i \in 1 .. n : from + i - 1 \in 1 .. Records
    BY <1>8
  <2>3. DOMAIN batch.records = 1 .. n /\ \A i \in 1 .. n : batch.records[i] = from + i - 1
    BY <2>1
  <2>4. batch.records \in [1 .. n -> 1 .. Records] /\ n \in Nat
    BY <1>8, <2>1, <2>2
  <2>5. batch.records \in Seq(1 .. Records) /\ Len(batch.records) = n
    <3> DEFINE q == batch.records
    <3>1. q \in [1 .. n -> 1 .. Records] /\ n \in Nat
      BY <2>4
    <3> HIDE DEF q
    <3>2. q \in Seq(1 .. Records) /\ Len(q) = n
      BY <3>1, FunctionIsSeq
    <3> QED
      BY <3>2 DEF q
  <2> QED
    BY <2>3, <2>5
<1>10. batch.gap = Logs!Missing(c) /\ batch.gap \in BOOLEAN
  <2>1. batch.gap = Logs!Missing(c)
    BY <1>3
  <2> QED
    BY <2>1, Zenon DEF Logs!Missing
<1>11. UpTo(lines, from)
  <2>1. \A i \in DOMAIN lines : lines[i].record \in Nat
    <3>1. \A i \in DOMAIN lines : lines[i] \in Line
      BY <1>2
    <3> QED
      BY <1>2, <3>1 DEF Line, Logs!Line
  <2> HIDE DEF c
  <2> QED
    BY <1>1, <1>2, <1>4, <2>1 DEF UpTo
<1>12. batch.gap \/ Meets(lines, from)
  <2> HIDE DEF c
  <2>1. CASE c = 0
    BY <1>1, <2>1 DEF Meets
  <2>2. CASE c # 0
    BY <1>1, <1>4, <1>5, <1>10, <2>2
  <2> QED
    BY <2>1, <2>2
<1>13. batch.records # <<>> \/ batch.gap => logWritten # 0
  <2>1. batch.records # <<>> => n # 0
    BY <1>9
  <2> HIDE DEF c
  <2>2. n # 0 => logWritten # 0
    BY <1>2, <1>6, <1>8
  <2>3. batch.gap => logWritten # 0
    <3>1. batch.gap => Logs!Missing(c)
      BY <1>10, Zenon
    <3>2. Logs!Missing(c) => c + 1 < oldest
      BY Zenon DEF Logs!Missing
    <3>3. c + 1 < oldest => logWritten # 0
      BY <1>2
    <3> QED
      BY <3>1, <3>2, <3>3
  <2> QED
    BY <2>1, <2>2, <2>3
<1>14. batch.records = <<>> =>
         IF last = 0 THEN lines = <<>> /\ ~batch.gap /\ shown.lines = <<>>
                     ELSE r.receipt = admitted
  <2> SUFFICES ASSUME batch.records = <<>>
               PROVE  IF last = 0 THEN lines = <<>> /\ ~batch.gap /\ shown.lines = <<>>
                                  ELSE r.receipt = admitted
    OBVIOUS
  <2>1. n = 0 /\ last + 1 = from
    BY <1>6, <1>8, <1>9
  <2>2. CASE last = 0
    <3>1. c = 0 /\ logWritten = 0
      <4> HIDE DEF c
      <4> QED
        BY <1>2, <1>4, <1>6, <2>1, <2>2
    <3>2. shown.lines = <<>>
      BY <3>1 DEF LogInv, FrameHeld
    <3> QED
      BY <1>1, <1>5, <1>10, <2>2, <3>1, <3>2
  <2>3. CASE last # 0
    <3>1. c # 0
      <4> HIDE DEF c
      <4> QED
        BY <1>2, <1>4, <1>6, <2>1, <2>3
    <3> QED
      BY <1>1, <2>3, <3>1
  <2> QED
    BY <2>2, <2>3
<1>15. batch.records # <<>> => moved.receipt.generations = "own"
  BY <1>7 DEF Logs!FromSources
<1>16. Entitled(moved)
  BY <1>1, <1>7 DEF Entitled
<1> HIDE DEF moved, n, from
<1>17. moved.cursor + 1 - Len(batch.records) = from /\ from > 0
  BY <1>7, <1>8, <1>9
<1> QED
  BY <1>7, <1>9, <1>10, <1>11, <1>12, <1>13, <1>14, <1>15, <1>16, <1>17 DEF Answers, moved
-----------------------------------------------------------------------------
\* A step of the task that leaves the view as it is.
LEMMA TaskStepKeeps ==
  ASSUME LogInv, logRequest # None,
         UNCHANGED <<authenticated, open, reader, lines, status, expires, now, logWritten,
                     oldest, shown, admitted, denied>>,
         logRequest'.reader \in Logs!Readers \cup {None},
         logRequest'.stage \in {"bind", "start", "read", "ok", "gap", "refused"}, TaskFits'
  PROVE  LogInv'
<1>1. reader = None /\ open /\ ~denied
  BY DEF LogInv, LogTyped, Logs!HostLogsTypeOK, Logs!RefusalEndsReading
<1>2. LogTyped'
  BY <1>1 DEF LogInv, LogTyped, Logs!HostLogsTypeOK, Logs!Receipts, Logs!Readers, Logs!Line
<1>3. LinesHeld' /\ FrameHeld' /\ InOrder(lines)'
  BY DEF LogInv, LinesHeld, FrameHeld
<1>4. Logs!FramesAreAdmitted' /\ Logs!RefusalEndsReading'
  BY <1>1 DEF LogInv, Logs!FramesAreAdmitted, Logs!RefusalEndsReading
<1> QED
  BY <1>1, <1>2, <1>3, <1>4 DEF LogInv

\* Steps of the task: admission, the request, the answer.
LEMMA BindEndsKeeps == LogInv /\ Logs!BindEnds => LogInv'
<1> SUFFICES ASSUME LogInv, Logs!BindEnds PROVE LogInv'
  OBVIOUS
<1>1. /\ logRequest # None /\ logRequest.stage = "bind" /\ lines = <<>>
      /\ UNCHANGED <<authenticated, open, reader, lines, status, expires, now, logWritten,
                     oldest, shown, admitted, denied>>
  BY DEF Logs!BindEnds, Logs!hostVars, Logs!history, LogInv, TaskFits
<1>2. CASE logRequest' = Logs!Task("refused", None)
  BY <1>1, <1>2, TaskStepKeeps DEF Logs!Task, TaskFits
<1>3. ASSUME authenticated, NEW receipt \in Logs!Receipts, Logs!Admits(receipt),
             logRequest' = Logs!Task("start", [receipt |-> receipt, expires |-> receipt.expires,
                                               cursor |-> 0])
      PROVE  LogInv'
  <2> DEFINE r == [receipt |-> receipt, expires |-> receipt.expires, cursor |-> 0]
  <2>1. r \in Logs!Readers
    BY LogAssumption DEF Logs!Readers, Logs!Receipts
  <2>2. Entitled(r)'
    BY <1>1, <1>3 DEF Entitled, Logs!Admits, Logs!Parses
  <2>3. GoesOn(r)'
    BY <1>1, <2>1, <2>2 DEF GoesOn, UpTo, Meets
  <2>4. logRequest'.reader = r /\ logRequest'.stage = "start"
    BY <1>3 DEF Logs!Task
  <2> QED
    BY <1>1, <2>1, <2>3, <2>4, TaskStepKeeps DEF TaskFits
<1> QED
  BY <1>2, <1>3 DEF Logs!BindEnds

\* The request is sent, under a receipt that is still good.
LEMMA ReadStartsKeeps == LogInv /\ Logs!ReadStarts => LogInv'
<1> SUFFICES ASSUME LogInv, Logs!ReadStarts PROVE LogInv'
  OBVIOUS
<1>1. /\ logRequest # None /\ GoesOn(logRequest.reader)
      /\ UNCHANGED <<authenticated, open, reader, lines, status, expires, now, logWritten,
                     oldest, shown, admitted, denied>>
  BY DEF Logs!ReadStarts, Logs!hostVars, Logs!history, LogInv, TaskFits
<1>2. CASE logRequest' = Logs!Task("refused", None)
  BY <1>1, <1>2, TaskStepKeeps DEF Logs!Task, TaskFits
<1>3. CASE logRequest' = Logs!Task("read", logRequest.reader)
  <2>1. logRequest'.reader = logRequest.reader /\ logRequest'.stage = "read"
    BY <1>3 DEF Logs!Task
  <2>2. GoesOn(logRequest.reader)'
    BY <1>1, <2>1 DEF GoesOn, Entitled
  <2> QED
    BY <1>1, <2>1, <2>2, TaskStepKeeps DEF TaskFits, GoesOn
<1> QED
  BY <1>2, <1>3 DEF Logs!ReadStarts

\* The answer is one that fits, or there is none.
LEMMA ReadEndsKeeps == LogInv /\ Logs!ReadEnds => LogInv'
<1> SUFFICES ASSUME LogInv, Logs!ReadEnds PROVE LogInv'
  OBVIOUS
<1>1. /\ logRequest # None /\ logRequest.stage = "read"
      /\ UNCHANGED <<authenticated, open, reader, lines, status, expires, now, logWritten,
                     oldest, shown, admitted, denied>>
  BY DEF Logs!ReadEnds, Logs!hostVars, Logs!history
<1>2. CASE logRequest' = Logs!Task("refused", None)
  BY <1>1, <1>2, TaskStepKeeps DEF Logs!Task, TaskFits
<1>3. CASE logRequest' = Logs!Task("gap", None)
  BY <1>1, <1>3, TaskStepKeeps DEF Logs!Task, TaskFits
<1>4. ASSUME NEW batch \in Logs!Batches(logRequest.reader.cursor),
             Logs!FromSources(logRequest.reader, batch),
             logRequest' = [stage |-> "ok", reader |-> Logs!CursorMoves(logRequest.reader, batch),
                            records |-> batch.records, gap |-> batch.gap]
      PROVE  LogInv'
  <2>1. Answers(logRequest')
    BY <1>1, <1>4, BatchAnswers
  <2>2. TaskFits' /\ logRequest'.reader \in Logs!Readers
    BY <1>1, <1>4, <2>1 DEF TaskFits, Answers, Entitled
  <2> QED
    BY <1>1, <1>4, <2>2, TaskStepKeeps
<1> QED
  BY <1>2, <1>3, <1>4 DEF Logs!ReadEnds
-----------------------------------------------------------------------------
\* The view is closed, or put back to its start.
LEMMA ClosedKeeps ==
  ASSUME LogInv, NEW opened \in BOOLEAN, NEW task, Logs!Closed(opened, task),
         task # None => /\ task = Logs!Task("bind", None) /\ opened /\ ~denied',
         status' \in {"none", "reading", "logs", "refused", "gap"},
         UNCHANGED <<authenticated, now, logWritten, oldest, admitted>>,
         \/ UNCHANGED shown
         \/ shown' = [lines |-> <<>>, at |-> now]
  PROVE  LogInv'
<1>1. /\ logRequest' = task /\ reader' = None /\ lines' = <<>> /\ expires' = 0
  BY DEF Logs!Closed
<1>2. LogTyped'
  <2>1. Logs!HostLogsTypeOK'
    <3>1. lines' \in Seq(Logs!Line) /\ Len(lines') <= MaxLines
      BY <1>1, LogAssumption
    <3>2. expires' \in 0 .. Time + 1
      BY <1>1, LogAssumption
    <3> QED
      BY <1>1, <3>1, <3>2 DEF Logs!HostLogsTypeOK, Logs!Closed, Logs!Task, Logs!Line, Logs!Readers,
                              Logs!Receipts
  <2> QED
    BY <2>1 DEF LogInv, LogTyped
<1>3. InOrder(lines')
  BY <1>1 DEF InOrder
<1>4. TaskFits'
  BY <1>1 DEF TaskFits, Logs!Task
<1>5. LinesHeld' /\ FrameHeld'
  BY <1>1 DEF LinesHeld, FrameHeld, LogInv
<1>6. Logs!FramesAreAdmitted'
  BY DEF LogInv, Logs!FramesAreAdmitted
<1>7. Logs!RefusalEndsReading'
  BY <1>1 DEF Logs!RefusalEndsReading
<1> QED
  BY <1>1, <1>2, <1>3, <1>4, <1>5, <1>6, <1>7 DEF LogInv

\* Steps of the view that put it back, or start a read.
LEMMA OpenKeeps == LogInv /\ Logs!Open => LogInv'
  BY ClosedKeeps DEF Logs!Open, Logs!hostVars

\* Closing leaves nothing.
LEMMA CloseKeeps == LogInv /\ Logs!Close => LogInv'
  BY ClosedKeeps DEF Logs!Close, Logs!hostVars, Logs!history, LogInv, LogTyped, Logs!HostLogsTypeOK

\* A tick ends the view or starts a read.
LEMMA TickKeepsLogs == LogInv /\ Logs!Tick => LogInv'
<1> SUFFICES ASSUME LogInv, Logs!Tick PROVE LogInv'
  OBVIOUS
<1>1. UNCHANGED <<authenticated, now, logWritten, oldest, shown, admitted>>
  BY DEF Logs!Tick, Logs!hostVars
<1>2. CASE Logs!Refuse("refused")
  BY <1>1, <1>2, ClosedKeeps DEF Logs!Refuse
<1>3. CASE /\ logRequest = None /\ reader # None
           /\ logRequest' = Logs!Task("start", reader) /\ reader' = None
           /\ UNCHANGED <<open, lines, status, expires, denied>>
  <2>1. GoesOn(reader) /\ ~denied /\ open /\ reader \in Logs!Readers
    BY <1>3 DEF LogInv, Logs!RefusalEndsReading, LogTyped, Logs!HostLogsTypeOK, GoesOn
  <2>2. logRequest'.reader = reader /\ logRequest'.stage = "start"
    BY <1>3 DEF Logs!Task
  <2>3. LogTyped'
    BY <1>1, <1>3, <2>1, <2>2 DEF LogInv, LogTyped, Logs!HostLogsTypeOK, Logs!Line, Logs!Readers,
                                  Logs!Receipts
  <2>4. TaskFits'
    BY <1>1, <1>3, <2>1, <2>2 DEF TaskFits, GoesOn, Entitled
  <2>5. LinesHeld' /\ FrameHeld' /\ InOrder(lines)'
    BY <1>1, <1>3 DEF LogInv, LinesHeld, FrameHeld
  <2>6. Logs!FramesAreAdmitted' /\ Logs!RefusalEndsReading'
    BY <1>1, <1>3, <2>1 DEF LogInv, Logs!FramesAreAdmitted, Logs!RefusalEndsReading
  <2> QED
    BY <1>3, <2>3, <2>4, <2>5, <2>6 DEF LogInv
<1> QED
  BY <1>2, <1>3 DEF Logs!Tick
-----------------------------------------------------------------------------
\* An answer whose reader is still admitted is shown.
LEMMA ShownKeeps ==
  ASSUME LogInv, logRequest # None, logRequest.stage = "ok", Logs!Valid(logRequest.reader),
         expires' = logRequest.reader.expires, reader' = logRequest.reader, logRequest' = None,
         status' = "logs", lines' = Logs!Newest(lines \o Logs!BatchLines(logRequest)),
         admitted' = logRequest.reader.receipt,
         UNCHANGED <<open, denied, authenticated, now, logWritten, oldest, shown>>
  PROVE  LogInv'
<1> DEFINE r == logRequest.reader
           all == lines \o Logs!BatchLines(logRequest)
<1>1. Answers(logRequest) /\ open /\ ~denied
  BY DEF LogInv, TaskFits, LogTyped, Logs!HostLogsTypeOK, Logs!RefusalEndsReading
<1>2. /\ r \in Logs!Readers /\ r.receipt \in Logs!Receipts /\ r.cursor \in Nat
      /\ r.receipt.expires \in Nat /\ now \in Nat /\ shown.at \in 0 .. now
      /\ authenticated /\ r.expires = r.receipt.expires /\ r.receipt.expires > now
      /\ r.receipt.mode # "web" /\ r.receipt.endpoint = "own"
  BY <1>1, LogAssumption
     DEF Answers, Entitled, Logs!Valid, Logs!Readers, Logs!Receipts, LogInv, LogTyped
<1>3. /\ Reaches(all, r.cursor + 1)
      /\ logRequest.records = <<>> /\ (\A i \in DOMAIN lines : lines[i] = Mark) =>
           \A i \in DOMAIN all : all[i] = Mark
      /\ all # <<>> => lines # <<>> \/ logRequest.records # <<>> \/ logRequest.gap
  BY BatchFollows
<1>4. /\ Reaches(lines', r.cursor + 1) /\ Len(lines') <= MaxLines
      /\ (\A i \in DOMAIN all : all[i] = Mark) => \A i \in DOMAIN lines' : lines'[i] = Mark
      /\ lines' # <<>> => all # <<>>
  <2> HIDE DEF all
  <2>1. r.cursor + 1 \in Nat /\ lines' = Logs!Newest(all)
    BY <1>2 DEF all
  <2> QED
    BY <1>3, <2>1, NewestReach
<1> HIDE DEF all
<1>5. r.cursor = 0 => logRequest.records = <<>>
  <2>1. /\ logRequest.records \in Seq(1 .. Records)
        /\ r.cursor + 1 - Len(logRequest.records) > 0
    BY <1>1 DEF Answers
  <2> QED
    BY <1>2, <2>1
<1>6. r.cursor = 0 => lines' = <<>>
  BY <1>1, <1>3, <1>4, <1>5 DEF Answers
<1>7. GoesOn(reader)'
  BY <1>2, <1>4, <1>6 DEF GoesOn, Entitled, Reaches
<1>8. LogTyped'
  <2>1. Logs!HostLogsTypeOK'
    BY <1>1, <1>2, <1>4
       DEF Logs!HostLogsTypeOK, Reaches, Line, Logs!Line, Logs!Readers, Logs!Receipts
  <2> QED
    BY <2>1 DEF LogInv, LogTyped
<1>9. lines' # <<>> => logWritten' # 0
  BY <1>1, <1>3, <1>4 DEF Answers, LogInv, LinesHeld
<1>10. logRequest.records = <<>> => \/ lines = <<>> /\ shown.lines = <<>>
                                    \/ admitted = r.receipt
  BY <1>1 DEF Answers
<1>11. logRequest.records # <<>> => r.receipt.generations = "own"
  BY <1>1 DEF Answers
<1>12. lines' # <<>> =>
         r.receipt.generations = "own" \/ \A i \in DOMAIN lines' : lines'[i] = Mark
  <2> SUFFICES ASSUME logRequest.records = <<>>, r.receipt.generations # "own"
               PROVE  \A i \in DOMAIN lines' : lines'[i] = Mark
    BY <1>11
  <2>1. \A i \in DOMAIN lines : lines[i] = Mark
    <3>1. lines = <<>> \/ (lines # <<>> /\ admitted = r.receipt)
      BY <1>10
    <3> QED
      BY <3>1 DEF LogInv, LinesHeld
  <2> QED
    BY <1>3, <1>4, <2>1
<1>13. LinesHeld'
  BY <1>2, <1>9, <1>12 DEF LinesHeld
<1>14. FrameHeld' /\ InOrder(lines)'
  BY <1>4 DEF LogInv, FrameHeld, Reaches
<1>15. Logs!FramesAreAdmitted'
  <2> SUFFICES ASSUME shown.lines # <<>>
               PROVE  \/ r.receipt.generations = "own"
                      \/ \A i \in DOMAIN shown.lines : shown.lines[i] = Logs!GapLine
    BY <1>2 DEF Logs!FramesAreAdmitted
  <2> QED
    BY <1>10, <1>11 DEF LogInv, Logs!FramesAreAdmitted
<1>16. Logs!RefusalEndsReading'
  BY <1>1 DEF Logs!RefusalEndsReading
<1> QED
  BY <1>7, <1>8, <1>13, <1>14, <1>15, <1>16 DEF LogInv, TaskFits

\* The task has ended: its lines are shown, or the view is put back.
LEMMA CompleteKeepsLogs == LogInv /\ Logs!Complete => LogInv'
<1> SUFFICES ASSUME LogInv, Logs!Complete PROVE LogInv'
  OBVIOUS
<1>1. logRequest # None /\ UNCHANGED <<authenticated, now, logWritten, oldest, shown>>
  BY DEF Logs!Complete, Logs!hostVars
<1>2. CASE /\ logRequest.stage = "ok" /\ Logs!Valid(logRequest.reader)
           /\ expires' = logRequest.reader.expires /\ reader' = logRequest.reader
           /\ logRequest' = None
           /\ status' = "logs" /\ lines' = Logs!Newest(lines \o Logs!BatchLines(logRequest))
           /\ admitted' = logRequest.reader.receipt /\ UNCHANGED <<open, denied>>
  BY <1>1, <1>2, ShownKeeps
<1>3. CASE Logs!Failed("gap") /\ denied' = TRUE /\ UNCHANGED admitted
  BY <1>1, <1>3, ClosedKeeps DEF Logs!Failed, Logs!Refuse
<1>4. CASE Logs!Failed("refused") /\ denied' = TRUE /\ UNCHANGED admitted
  BY <1>1, <1>4, ClosedKeeps DEF Logs!Failed, Logs!Refuse
<1> QED
  BY <1>2, <1>3, <1>4 DEF Logs!Complete
-----------------------------------------------------------------------------
\* A step that leaves the view and its task as they are; a frame it draws is
\* blank, or of the lines while their receipt is good.
LEMMA ViewIsKept ==
  ASSUME LogInv, UNCHANGED <<authenticated, open, logRequest, reader, lines, status, expires>>,
         UNCHANGED <<admitted, denied>>,
         now' \in Nat, now <= now',
         logWritten' \in 0 .. Records, logWritten <= logWritten', oldest' \in 1 .. Records,
         oldest' = oldest \/ oldest' = logWritten',
         \/ UNCHANGED shown
         \/ shown' = [lines |-> <<>>, at |-> 0]
         \/ shown' = [lines |-> lines, at |-> now] /\ ~Logs!Expired
  PROVE  LogInv'
<1>1. /\ now \in Nat /\ shown.at \in 0 .. now /\ logWritten \in 0 .. Records
      /\ oldest \in 1 .. Records /\ (oldest = 1 \/ oldest <= logWritten)
  BY DEF LogInv, LogTyped
<1>2. shown'.at \in 0 .. now' /\ (logWritten # 0 => logWritten' # 0)
  BY <1>1
<1>3. LogTyped'
  <2>1. Logs!HostLogsTypeOK'
    BY DEF LogInv, LogTyped, Logs!HostLogsTypeOK, Logs!Line, Logs!Readers, Logs!Receipts
  <2>2. oldest' = 1 \/ oldest' <= logWritten'
    BY <1>1
  <2> QED
    BY <1>2, <2>1, <2>2 DEF LogTyped
<1>4. shown'.lines = shown.lines \/ shown'.lines = <<>> \/ shown'.lines = lines
  OBVIOUS
<1>5. reader # None => GoesOn(reader)'
  BY DEF LogInv, GoesOn, Entitled
<1>6. TaskFits'
  <2>1. ASSUME logRequest # None, logRequest.stage = "bind" PROVE lines' = <<>>
    BY <2>1 DEF LogInv, TaskFits
  <2>2. ASSUME logRequest # None, logRequest.stage \in {"start", "read"}
        PROVE  GoesOn(logRequest.reader)'
    BY <2>2 DEF LogInv, TaskFits, GoesOn, Entitled
  <2>3. ASSUME logRequest # None, logRequest.stage = "ok" PROVE Answers(logRequest)'
    <3>1. Answers(logRequest)
      BY <2>3 DEF LogInv, TaskFits
    <3>2. lines = <<>> /\ shown.lines = <<>> => shown'.lines = <<>>
      BY <1>4
    <3> QED
      BY <1>2, <3>1, <3>2 DEF Answers, Entitled
  <2> QED
    BY <2>1, <2>2, <2>3 DEF TaskFits
<1>7. LinesHeld' /\ InOrder(lines)'
  BY <1>2 DEF LogInv, LinesHeld
<1>8. FrameHeld'
  BY <1>2, <1>4 DEF LogInv, FrameHeld, LinesHeld
<1>9. Logs!FramesAreAdmitted'
  <2>1. CASE UNCHANGED shown
    BY <2>1 DEF LogInv, Logs!FramesAreAdmitted
  <2>2. CASE shown' = [lines |-> <<>>, at |-> 0]
    BY <2>2 DEF Logs!FramesAreAdmitted
  <2>3. CASE shown' = [lines |-> lines, at |-> now] /\ ~Logs!Expired
    <3>1. lines # <<>> => now < admitted.expires
      <4>1. expires \in Nat
        BY LogAssumption DEF LogInv, LogTyped, Logs!HostLogsTypeOK
      <4> QED
        BY <1>1, <2>3, <4>1 DEF LogInv, LinesHeld, Logs!Expired
    <3>2. lines # <<>> =>
            /\ authenticated /\ admitted.mode # "web" /\ admitted.endpoint = "own"
            /\ admitted.generations = "own" \/ \A i \in DOMAIN lines : lines[i] = Mark
      BY DEF LogInv, LinesHeld
    <3> QED
      BY <2>3, <3>1, <3>2 DEF Logs!FramesAreAdmitted, Mark
  <2> QED
    BY <2>1, <2>2, <2>3
<1>10. Logs!RefusalEndsReading'
  BY DEF LogInv, Logs!RefusalEndsReading
<1> QED
  BY <1>3, <1>5, <1>6, <1>7, <1>8, <1>9, <1>10 DEF LogInv

\* The numbers, as they are.
LEMMA LogNumbers ==
  ASSUME LogInv
  PROVE  /\ now \in Nat /\ now <= now /\ logWritten \in 0 .. Records /\ logWritten <= logWritten
         /\ oldest \in 1 .. Records
  BY DEF LogInv, LogTyped

\* Frames: of the view, and of another.
LEMMA DrawKeeps == LogInv /\ Logs!Draw => LogInv'
<1> SUFFICES ASSUME LogInv, Logs!Draw PROVE LogInv'
  OBVIOUS
<1>1. UNCHANGED <<authenticated, now, logWritten, oldest, admitted>>
  BY DEF Logs!Draw, Logs!hostVars
<1>2. CASE Logs!Refuse("refused") /\ denied' = TRUE /\ shown' = [lines |-> <<>>, at |-> now]
  BY <1>1, <1>2, ClosedKeeps DEF Logs!Refuse
<1>3. CASE /\ ~Logs!DrawExpired /\ shown' = [lines |-> lines, at |-> now]
           /\ UNCHANGED <<open, logRequest, reader, lines, status, expires, denied>>
  BY <1>1, <1>3, LogNumbers, ViewIsKept DEF Logs!DrawExpired
<1> QED
  BY <1>2, <1>3 DEF Logs!Draw

\* Another view is drawn.
LEMMA DrawOtherKeeps == LogInv /\ Logs!DrawOther => LogInv'
  BY LogNumbers, ViewIsKept DEF Logs!DrawOther, Logs!viewVars, Logs!hostVars, Logs!Blank

\* The host writes.
LEMMA WriteKeeps == LogInv /\ Logs!Write => LogInv'
<1> SUFFICES ASSUME LogInv, Logs!Write PROVE LogInv'
  OBVIOUS
<1>1. /\ UNCHANGED <<authenticated, open, logRequest, reader, lines, status, expires>>
      /\ UNCHANGED <<admitted, denied, now, shown>>
      /\ logWritten < Records /\ logWritten' = logWritten + 1 /\ oldest' \in {oldest, logWritten'}
  BY DEF Logs!Write, Logs!viewVars, Logs!history
<1>2. /\ logWritten' \in 0 .. Records /\ logWritten <= logWritten' /\ oldest' \in 1 .. Records
      /\ (oldest' = oldest \/ oldest' = logWritten') /\ now' \in Nat /\ now <= now'
  BY <1>1, LogNumbers, LogAssumption
<1> QED
  BY <1>1, <1>2, ViewIsKept

\* Time passes.
LEMMA ClockKeeps == LogInv /\ Logs!Clock => LogInv'
<1> SUFFICES ASSUME LogInv, Logs!Clock PROVE LogInv'
  OBVIOUS
<1>1. /\ UNCHANGED <<authenticated, open, logRequest, reader, lines, status, expires>>
      /\ UNCHANGED <<admitted, denied, logWritten, oldest, shown>> /\ now' = now + 1
  BY DEF Logs!Clock, Logs!viewVars, Logs!hostVars, Logs!history
<1> QED
  BY <1>1, LogNumbers, ViewIsKept

\* Every step of the logs.
LEMMA LogStep == LogInv /\ [Logs!Next]_logVars => LogInv'
<1> SUFFICES ASSUME LogInv, [Logs!Next]_logVars PROVE LogInv'
  OBVIOUS
<1>1. CASE UNCHANGED logVars
  BY <1>1, LogNumbers, ViewIsKept DEF logVars
<1> QED
  BY <1>1, BindEndsKeeps, ReadStartsKeeps, ReadEndsKeeps, OpenKeeps, CloseKeeps, TickKeepsLogs,
     CompleteKeepsLogs, DrawKeeps, DrawOtherKeeps, WriteKeeps, ClockKeeps DEF Logs!Next

\* The logs begin without lines.
LEMMA LogBegin == Logs!Init => LogInv
<1> SUFFICES ASSUME Logs!Init PROVE LogInv
  OBVIOUS
<1>1. LogTyped
  <2>1. Logs!HostLogsTypeOK
    BY LogAssumption DEF Logs!Init, Logs!HostLogsTypeOK
  <2> QED
    BY <2>1, LogAssumption DEF Logs!Init, Logs!Blank, LogTyped
<1>2. InOrder(lines)
  BY DEF Logs!Init, InOrder
<1>3. LinesHeld /\ FrameHeld /\ Logs!FramesAreAdmitted /\ Logs!RefusalEndsReading
  BY DEF Logs!Init, Logs!Blank, LinesHeld, FrameHeld, Logs!FramesAreAdmitted,
         Logs!RefusalEndsReading
<1> QED
  BY <1>1, <1>2, <1>3 DEF LogInv, TaskFits, Logs!Init

\* What the invariant says of the lines.
LEMMA LogsAreKept == LogInv => LinesAreTheLog /\ LogsAreAdmitted
  BY DEF LogInv, LogTyped, InOrder, Mark, LinesAreTheLog, LogsAreAdmitted, Logs!LinesAreTheLog,
         Logs!LogsAreAdmitted
-----------------------------------------------------------------------------
\* The specification, one view at a time.

\* Both begin with nothing on display.
LEMMA ViewsBegin == ViewsInit => DetailsInv /\ LogInv
  BY DetailsBegin, LogBegin DEF ViewsInit

\* A step of one view leaves the other as it is.
LEMMA ViewsStep ==
  DetailsInv /\ LogInv /\ [ViewsNext]_<<side, vars, logVars>> => (DetailsInv /\ LogInv)'
<1>1. ASSUME DetailsInv, LogInv, [ViewsNext]_<<side, vars, logVars>>
      PROVE  [Next]_vars /\ [Logs!Next]_logVars
  <2>1. \/ Next /\ UNCHANGED logVars
        \/ Logs!Next /\ UNCHANGED vars
        \/ UNCHANGED vars /\ UNCHANGED logVars
    BY <1>1 DEF ViewsNext, OfDetails, OfLogs
  <2> QED
    BY <2>1
<1> QED
  BY <1>1, DetailsStep, LogStep

\* Both invariants hold for ever.
LEMMA ViewsInvariance == ViewsSpec => [](DetailsInv /\ LogInv)
  BY ViewsBegin, ViewsStep, PTL DEF ViewsSpec

\* What the view of the details retains is the end of the log that was read,
\* and what it draws tells of what it leaves out.
THEOREM DetailsStayTheLog == ViewsSpec => []DetailsAreTheLog
  BY DetailsAreKept, ViewsInvariance, PTL

\* The view reads the run that the user asked for, from where it stands.
THEOREM ReadsStayTheUsers == ViewsSpec => []ReadsAreTheUsers
  BY DetailsAreKept, ViewsInvariance, PTL

\* The lines of the host are in the order of its log, and a gap is marked.
THEOREM LinesStayTheLog == ViewsSpec => []LinesAreTheLog
  BY LogsAreKept, ViewsInvariance, PTL

\* Lines are on the screen under a receipt that admits them, and a refusal is
\* the end of reading until the user opens the view again.
THEOREM LogsStayAdmitted == ViewsSpec => []LogsAreAdmitted
  BY LogsAreKept, ViewsInvariance, PTL
=============================================================================
