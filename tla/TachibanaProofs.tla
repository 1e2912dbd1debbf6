--------------------------- MODULE TachibanaProofs ---------------------------
(* Proofs about the two users of the EVENT interface of Tachibana: OrderEvents,
   the loop that tells the clients of executions, and TachibanaHub, the
   connections the streams of market data share.  The two components share
   nothing but the broker; their proofs do not use each other.              *)
EXTENDS TachibanaHub, OrderEvents, SequenceTheorems, FiniteSetTheorems, TLAPS

-----------------------------------------------------------------------------
(* OrderEvents, for every number of orders, frames, connections, restarts and
   orderly closes: the inductive invariant.                                 *)

(* What a restart or a broken connection leaves consistent: an order whose
   number the engine knows was answered, and a loop that has not given up has
   a try left.                                                               *)
Known == known \subseteq {o \in Orders : request[o] = "answered"}
Retrying == loop # "over" => retries <= MaxRetries

(* Up to an orderly close the frames seen are those up to some place, and the
   connection is not beyond it: what is sent next is the next new frame or one
   of those.  ToldRightly is not inductive without it, as a frame that came
   early would be told before one that comes late.                           *)
SeenUpTo(n) == seen = 1 .. n /\ sent <= n
SeenIsPrefix == closes = 0 => \E n \in 0 .. Len(day) : SeenUpTo(n)

(* What was told of an order that is still known was seen: it is not told
   again when a new connection resends the frames of the day.                *)
ToldWasSeen ==
    closes = 0 => \A m \in 1 .. Len(reports) :
        day[reports[m]].order \in known => reports[m] \in seen

(* What is counted of an order are executions seen since the last orderly close,
   and for each such close at most all there are.                            *)
SeenFills(o) == Noticed(o, "filled") \cap seen
CountedBefore(o) == closes * Executed(o)
CountedWasSeen ==
    \A o \in Orders : cumulative[o] <= CountedBefore(o) + Cardinality(SeenFills(o))

EventsInv == /\ EventsTypeOK /\ Known /\ Retrying /\ SeenIsPrefix /\ ToldWasSeen
             /\ CountedWasSeen /\ ToldRightly

-----------------------------------------------------------------------------
LEMMA NoticedFinite == ASSUME EventsTypeOK, NEW o \in Orders PROVE
    /\ IsFiniteSet(Noticed(o, "filled")) /\ IsFiniteSet(SeenFills(o))
    /\ SeenFills(o) \subseteq Noticed(o, "filled")
<1>1. IsFiniteSet(1 .. Len(day))
  BY FS_Interval DEF EventsTypeOK
<1>2. Noticed(o, "filled") \subseteq 1 .. Len(day) /\ SeenFills(o) \subseteq Noticed(o, "filled")
  BY DEF Noticed, SeenFills
<1> QED
  BY <1>1, <1>2, FS_Subset

LEMMA MoreTimes == ASSUME NEW k \in Nat, NEW m \in Nat, NEW n \in Nat, m <= n
                   PROVE  k * m <= k * n /\ k * n \in Nat
OBVIOUS

LEMMA OnceMore == ASSUME NEW k \in Nat, NEW m \in Nat PROVE (k + 1) * m = k * m + m
OBVIOUS

LEMMA CountsNatural == ASSUME EventsTypeOK, NEW o \in Orders PROVE
    /\ cumulative[o] \in Nat /\ closes \in Nat
    /\ Executed(o) \in Nat /\ Cardinality(SeenFills(o)) \in Nat
    /\ Cardinality(SeenFills(o)) <= Executed(o)
    /\ CountedBefore(o) \in Nat
<1>1. /\ Executed(o) \in Nat /\ Cardinality(SeenFills(o)) \in Nat
      /\ Cardinality(SeenFills(o)) <= Executed(o)
  BY NoticedFinite, FS_Subset, FS_CardinalityType DEF Executed
<1>2. cumulative[o] \in Nat /\ closes \in Nat
  BY EventsAssumption DEF EventsTypeOK
<1> QED
  BY <1>1, <1>2 DEF CountedBefore

LEMMA ReportsPlaces == ASSUME EventsTypeOK PROVE
    /\ Len(reports) \in Nat
    /\ \A m \in 1 .. Len(reports) : reports[m] \in 1 .. Len(day) /\ day[reports[m]] \in Frames
<1>1. \A m \in 1 .. Len(reports) : reports[m] \in 1 .. Len(day)
  BY ElementOfSeq DEF EventsTypeOK
<1>2. \A i \in 1 .. Len(day) : day[i] \in Frames
  BY ElementOfSeq DEF EventsTypeOK
<1> QED
  BY <1>1, <1>2, LenProperties DEF EventsTypeOK

LEMMA SilentStep ==
    ASSUME EventsInv, EventsTypeOK', Known', Retrying',
           UNCHANGED <<day, seen, cumulative, reports, closes>>, sent' \in {0, sent},
           \A o \in Orders : request[o] = "answered" => request'[o] = "answered",
           \A o \in known' : o \in known \/ request[o] # "answered"
    PROVE  EventsInv'
<1>1. SeenIsPrefix'
  BY DEF EventsInv, EventsTypeOK, SeenIsPrefix, SeenUpTo
<1>2. ToldWasSeen'
  <2>1. \A m \in 1 .. Len(reports) : request[day[reports[m]].order] = "answered"
    BY DEF EventsInv, ToldRightly, ToldAfterAccepted
  <2> QED
    BY <2>1 DEF EventsInv, ToldWasSeen
<1>3. CountedWasSeen'
  BY DEF EventsInv, CountedWasSeen, CountedBefore, Executed, SeenFills, Noticed
<1>4. ToldRightly'
  BY ReportsPlaces DEF EventsInv, ToldRightly, ToldInOrder, ToldAfterAccepted, Frames
<1> QED
  BY <1>1, <1>2, <1>3, <1>4 DEF EventsInv

LEMMA NoticeStep ==
    ASSUME EventsInv, NEW o \in Orders, NEW kind \in FrameKinds, Notices(o, kind),
           UNCHANGED <<known, seen, cumulative, loopVars, logins, reports, closes>>,
           request' \in [Orders -> {"none", "sent", "placed", "answered", "lost"}],
           cancel' \in [Orders -> {"none", "sent", "over"}],
           \A p \in Orders : request[p] = "answered" => request'[p] = "answered"
    PROVE  EventsInv'
<1> DEFINE f == [order |-> o, kind |-> kind]
<1>1. f \in Frames /\ day \in Seq(Frames)
  BY DEF Frames, EventsInv, EventsTypeOK
<1>2. /\ day' \in Seq(Frames) /\ Len(day') = Len(day) + 1 /\ Len(day) \in Nat
      /\ \A i \in 1 .. Len(day) : day'[i] = day[i]
  BY <1>1, AppendProperties DEF Notices
<1>3. EventsTypeOK'
  <2>1. reports \in Seq(1 .. Len(day')) /\ seen \in SUBSET (1 .. Len(day'))
    BY <1>2, ReportsPlaces, SeqDef DEF EventsInv, EventsTypeOK
  <2>2. Len(day') <= MaxFrames /\ sent \in 0 .. Len(day')
    BY <1>2, EventsAssumption DEF Notices, EventsInv, EventsTypeOK
  <2> QED
    BY <1>2, <2>1, <2>2 DEF EventsInv, EventsTypeOK, loopVars
<1>4. \A m \in 1 .. Len(reports) : day'[reports[m]] = day[reports[m]] /\ day[reports[m]].order \in Orders
  BY <1>2, ReportsPlaces DEF EventsInv, Frames
<1>5. Known' /\ Retrying'
  BY DEF EventsInv, Known, Retrying, loopVars
<1>6. SeenIsPrefix'
  BY <1>2 DEF EventsInv, SeenIsPrefix, SeenUpTo, loopVars
<1>7. ToldWasSeen' /\ ToldRightly'
  BY <1>4 DEF EventsInv, ToldWasSeen, ToldRightly, ToldInOrder, ToldAfterAccepted
<1>8. CountedWasSeen'
  <2>1. \A p \in Orders : SeenFills(p)' = SeenFills(p)
    BY <1>2 DEF SeenFills, Noticed, EventsInv, EventsTypeOK
  <2>2. \A p \in Orders : CountedBefore(p) <= CountedBefore(p)' /\ CountedBefore(p)' \in Nat
    <3> SUFFICES ASSUME NEW p \in Orders
                 PROVE  CountedBefore(p) <= CountedBefore(p)' /\ CountedBefore(p)' \in Nat
      OBVIOUS
    <3>1. Noticed(p, "filled") \subseteq Noticed(p, "filled")'
      BY <1>2 DEF Noticed
    <3>2. IsFiniteSet(Noticed(p, "filled")')
      <4>1. Len(day') \in Nat /\ IsFiniteSet(1 .. Len(day'))
        BY <1>2, FS_Interval
      <4>2. Noticed(p, "filled")' \subseteq 1 .. Len(day')
        BY DEF Noticed
      <4> QED
        BY <4>1, <4>2, FS_Subset
    <3>3. Executed(p)' \in Nat /\ Executed(p) <= Executed(p)'
      BY <3>1, <3>2, FS_Subset, FS_CardinalityType DEF Executed
    <3>4. Executed(p) \in Nat /\ closes \in Nat /\ closes' = closes
      BY CountsNatural DEF EventsInv
    <3> QED
      BY <3>3, <3>4, MoreTimes DEF CountedBefore
  <2> QED
    BY <2>1, <2>2, CountsNatural DEF EventsInv, CountedWasSeen
<1> QED
  BY <1>3, <1>5, <1>6, <1>7, <1>8 DEF EventsInv

(* A frame not seen before comes after all that were, so after all that was
   told of its order. *)
LEMMA ReceiveStep == ASSUME EventsInv, Receive PROVE EventsInv'
<1> DEFINE i == sent + 1
           o == day[i].order
<1>1. /\ i \in 1 .. Len(day) /\ sent' = i /\ day[i] \in Frames /\ o \in Orders
      /\ UNCHANGED <<day, request, cancel, known, loop, retries, logins, closes>>
  <2>1. i \in 1 .. Len(day) /\ sent' = i
    BY LenProperties DEF Receive, EventsInv, EventsTypeOK
  <2>2. day[i] \in Frames
    BY <2>1, ElementOfSeq DEF EventsInv, EventsTypeOK
  <2> QED
    BY <2>1, <2>2 DEF Receive, brokerVars, Frames
<1>2. CASE i \in seen
  <2>1. UNCHANGED <<seen, reports, cumulative>>
    BY <1>1, <1>2 DEF Receive, Duplicate
  <2>2. EventsTypeOK' /\ Known' /\ Retrying' /\ ToldWasSeen' /\ CountedWasSeen' /\ ToldRightly'
    <3>1. EventsTypeOK'
      BY <1>1, <2>1 DEF EventsInv, EventsTypeOK
    <3>2. Known' /\ Retrying' /\ ToldWasSeen'
      BY <1>1, <2>1 DEF EventsInv, Known, Retrying, ToldWasSeen
    <3>3. CountedWasSeen'
      BY <1>1, <2>1 DEF EventsInv, CountedWasSeen, CountedBefore, Executed, SeenFills, Noticed
    <3>4. ToldRightly'
      BY <1>1, <2>1 DEF EventsInv, ToldRightly, ToldInOrder, ToldAfterAccepted
    <3> QED
      BY <3>1, <3>2, <3>3, <3>4
  <2>3. SeenIsPrefix'
    BY <1>1, <1>2, <2>1 DEF EventsInv, SeenIsPrefix, SeenUpTo, EventsTypeOK
  <2> QED
    BY <2>2, <2>3 DEF EventsInv
<1>3. CASE i \notin seen
  <2>1. seen' = seen \cup {i} /\ Reports(i)
    BY <1>1, <1>3 DEF Receive, Duplicate, Sees
  <2>2. /\ \/ UNCHANGED reports
           \/ o \in known /\ reports' = Append(reports, i)
        /\ \/ UNCHANGED cumulative
           \/ day[i].kind = "filled" /\ cumulative' = [cumulative EXCEPT ![o] = @ + 1]
    BY <2>1 DEF Reports, Counts
  <2> DEFINE n == Len(reports)
  <2>3. /\ reports \in Seq(1 .. Len(day)) /\ n \in Nat
        /\ \A m \in 1 .. n : reports[m] \in 1 .. Len(day)
    BY ReportsPlaces DEF EventsInv, EventsTypeOK
  <2>4. /\ reports' \in Seq(1 .. Len(day)) /\ Len(reports') \in {n, n + 1}
        /\ \A m \in 1 .. n : reports'[m] = reports[m]
        /\ Len(reports') = n + 1 => reports'[n + 1] = i /\ o \in known
    <3>1. CASE o \in known /\ reports' = Append(reports, i)
      BY <1>1, <2>3, <3>1, AppendProperties
    <3>2. CASE UNCHANGED reports
      BY <2>3, <3>2
    <3> QED
      BY <2>2, <3>1, <3>2
  <2>5. EventsTypeOK'
    <3>1. cumulative' \in [Orders -> Nat]
      BY <1>1, <2>2 DEF EventsInv, EventsTypeOK
    <3> QED
      BY <1>1, <2>1, <2>4, <3>1 DEF EventsInv, EventsTypeOK
  <2>6. Known' /\ Retrying'
    BY <1>1 DEF EventsInv, Known, Retrying
  <2>7. closes = 0 => seen = 1 .. sent /\ seen' = 1 .. i
    <3> SUFFICES ASSUME closes = 0 PROVE seen = 1 .. sent /\ seen' = 1 .. i
      OBVIOUS
    <3>1. PICK k \in 0 .. Len(day) : SeenUpTo(k)
      BY DEF EventsInv, SeenIsPrefix
    <3>2. k = sent
      BY <1>1, <1>3, <3>1 DEF SeenUpTo, EventsInv, EventsTypeOK
    <3> QED
      BY <2>1, <3>1, <3>2 DEF SeenUpTo, EventsInv, EventsTypeOK
  <2>8. SeenIsPrefix'
    BY <1>1, <2>7 DEF SeenIsPrefix, SeenUpTo
  <2>9. ToldWasSeen'
    <3> SUFFICES ASSUME closes = 0, NEW m \in 1 .. Len(reports'), day[reports'[m]].order \in known
                 PROVE  reports'[m] \in seen'
      BY <1>1 DEF ToldWasSeen
    <3>1. CASE m \in 1 .. n
      BY <2>1, <2>4, <3>1 DEF EventsInv, ToldWasSeen
    <3>2. CASE m = n + 1 /\ Len(reports') = n + 1
      BY <2>1, <2>4, <3>2
    <3> QED
      BY <2>3, <2>4, <3>1, <3>2
  <2>10. ToldRightly'
    <3>1. ToldInOrder'
      <4> SUFFICES ASSUME closes = 0, NEW l \in 1 .. Len(reports'), NEW m \in 1 .. Len(reports'),
                          l < m, day[reports'[l]].order = day[reports'[m]].order
                   PROVE  reports'[l] < reports'[m]
        BY <1>1 DEF ToldInOrder
      <4>1. CASE m \in 1 .. n
        <5>1. l \in 1 .. n
          BY <2>3, <4>1
        <5>2. reports'[l] = reports[l] /\ reports'[m] = reports[m]
          BY <2>4, <4>1, <5>1
        <5> QED
          BY <4>1, <5>1, <5>2 DEF EventsInv, ToldRightly, ToldInOrder
      <4>2. CASE m = n + 1 /\ Len(reports') = n + 1
        <5>1. l \in 1 .. n /\ reports'[l] = reports[l] /\ reports'[m] = i /\ o \in known
          BY <2>3, <2>4, <4>2
        <5>2. reports[l] \in seen
          BY <5>1 DEF EventsInv, ToldWasSeen
        <5> QED
          BY <2>7, <5>1, <5>2 DEF EventsInv, EventsTypeOK
      <4> QED
        BY <2>3, <2>4, <4>1, <4>2
    <3>2. ToldAfterAccepted'
      <4> SUFFICES ASSUME NEW m \in 1 .. Len(reports')
                   PROVE  request[day[reports'[m]].order] = "answered"
        BY <1>1 DEF ToldAfterAccepted
      <4>1. CASE m \in 1 .. n
        BY <2>4, <4>1 DEF EventsInv, ToldRightly, ToldAfterAccepted
      <4>2. CASE m = n + 1 /\ Len(reports') = n + 1
        BY <2>4, <4>2 DEF EventsInv, Known
      <4> QED
        BY <2>3, <2>4, <4>1, <4>2
    <3> QED
      BY <3>1, <3>2 DEF ToldRightly
  <2>11. CountedWasSeen'
    <3> SUFFICES ASSUME NEW p \in Orders
                 PROVE  cumulative'[p] <= CountedBefore(p) + Cardinality(SeenFills(p)')
      BY <1>1 DEF CountedWasSeen, CountedBefore, Executed, Noticed
    <3>1. /\ cumulative[p] \in Nat /\ CountedBefore(p) \in Nat
          /\ cumulative[p] <= CountedBefore(p) + Cardinality(SeenFills(p))
          /\ IsFiniteSet(SeenFills(p)) /\ Cardinality(SeenFills(p)) \in Nat
      BY NoticedFinite, CountsNatural DEF EventsInv, CountedWasSeen
    <3>2. SeenFills(p)' = IF day[i] = [order |-> p, kind |-> "filled"]
                          THEN SeenFills(p) \cup {i} ELSE SeenFills(p)
      BY <1>1, <2>1 DEF SeenFills, Noticed
    <3>3. i \notin SeenFills(p)
      BY <1>3 DEF SeenFills
    <3>4. CASE day[i] = [order |-> p, kind |-> "filled"]
      <4>1. Cardinality(SeenFills(p)') = Cardinality(SeenFills(p)) + 1
        BY <3>1, <3>2, <3>3, <3>4, FS_AddElement
      <4>2. cumulative'[p] \in {cumulative[p], cumulative[p] + 1}
        BY <1>1, <2>2, <3>1 DEF EventsInv, EventsTypeOK
      <4> QED
        BY <3>1, <4>1, <4>2
    <3>5. CASE day[i] # [order |-> p, kind |-> "filled"]
      <4>1. day[i].kind = "filled" => o # p
        BY <1>1, <3>5 DEF Frames
      <4>2. cumulative'[p] = cumulative[p]
        BY <1>1, <2>2, <4>1 DEF EventsInv, EventsTypeOK
      <4> QED
        BY <3>1, <3>2, <3>5, <4>2
    <3> QED
      BY <3>4, <3>5
  <2> QED
    BY <2>5, <2>6, <2>8, <2>9, <2>10, <2>11 DEF EventsInv
<1> QED
  BY <1>2, <1>3

LEMMA BrokerSteps ==
    ASSUME EventsInv, NEW o \in Orders,
           Fills(o) \/ Expires(o) \/ BrokerPlaces(o) \/ BrokerCancels(o)
    PROVE  EventsInv'
<1>1. CASE Fills(o)
  BY <1>1, NoticeStep DEF Fills, FrameKinds, EventsInv, EventsTypeOK
<1>2. CASE Expires(o)
  BY <1>2, NoticeStep DEF Expires, FrameKinds, EventsInv, EventsTypeOK
<1>3. CASE BrokerPlaces(o)
  BY <1>3, NoticeStep DEF BrokerPlaces, FrameKinds, EventsInv, EventsTypeOK
<1>4. CASE BrokerCancels(o)
  <2>1. cancel' \in [Orders -> {"none", "sent", "over"}]
    BY <1>4 DEF BrokerCancels, EventsInv, EventsTypeOK
  <2>2. CASE Notices(o, "canceled")
    BY <1>4, <2>1, <2>2, NoticeStep DEF BrokerCancels, FrameKinds, EventsInv, EventsTypeOK
  <2>3. CASE UNCHANGED day
    <3>1. EventsTypeOK' /\ Known' /\ Retrying'
      BY <1>4, <2>1, <2>3 DEF BrokerCancels, loopVars, EventsInv, EventsTypeOK, Known, Retrying
    <3> QED
      BY <1>4, <2>3, <3>1, SilentStep DEF BrokerCancels, loopVars
  <2> QED
    BY <1>4, <2>2, <2>3 DEF BrokerCancels
<1> QED
  BY <1>1, <1>2, <1>3, <1>4

LEMMA CommandSteps ==
    ASSUME EventsInv, NEW o \in Orders,
           Submit(o) \/ Accepted(o) \/ AnswerLost(o) \/ Cancel(o)
    PROVE  EventsInv'
<1>1. /\ UNCHANGED <<day, seen, cumulative, loopVars, logins, reports, closes>>
      /\ \/ known' = known
         \/ known' = known \cup {o} /\ request[o] = "placed" /\ request'[o] = "answered"
      /\ \A p \in Orders : request[p] = "answered" => request'[p] = "answered"
      /\ request' \in [Orders -> {"none", "sent", "placed", "answered", "lost"}]
      /\ cancel' \in [Orders -> {"none", "sent", "over"}]
  BY DEF Submit, Accepted, AnswerLost, Cancel, EventsInv, EventsTypeOK
<1>2. EventsTypeOK' /\ Known' /\ Retrying'
  BY <1>1 DEF loopVars, EventsInv, EventsTypeOK, Known, Retrying
<1> QED
  BY <1>1, <1>2, SilentStep DEF loopVars

LEMMA ConnectionSteps ==
    ASSUME EventsInv,
           \/ Login \/ Cancelled \/ FirstConnection \/ ConnectionBreaks \/ Reconnects
           \/ ReconnectFails \/ UNCHANGED eventsVars
    PROVE  EventsInv'
<1>1. UNCHANGED <<brokerVars, known, seen, cumulative, reports, closes>> /\ sent' \in {0, sent}
  BY DEF Login, Cancelled, FirstConnection, ConnectionBreaks, Lost, Reconnects, ReconnectFails, eventsVars, loopVars
<1>2. /\ retries' \in 0 .. MaxRetries + 1 /\ logins' \in 0 .. MaxLogins
      /\ loop' \in {"off", "starting", "open", "waiting", "over"}
      /\ Retrying'
  <2>1. /\ MaxRetries \in Nat /\ MaxLogins \in Nat
        /\ retries \in 0 .. MaxRetries + 1 /\ logins \in 0 .. MaxLogins
        /\ loop \in {"off", "starting", "open", "waiting", "over"}
        /\ loop # "over" => retries <= MaxRetries
    BY EventsAssumption DEF EventsInv, EventsTypeOK, Retrying
  <2>2. CASE Login
    BY <2>1, <2>2 DEF Login, Retrying
  <2>3. CASE Cancelled
    BY <2>1, <2>3 DEF Cancelled, Retrying
  <2>4. CASE FirstConnection
    BY <2>1, <2>4 DEF FirstConnection, Retrying
  <2>5. CASE ConnectionBreaks
    BY <2>1, <2>5 DEF ConnectionBreaks, Lost, Retrying
  <2>6. CASE Reconnects
    BY <2>1, <2>6 DEF Reconnects, Retrying
  <2>7. CASE ReconnectFails
    BY <2>1, <2>7 DEF ReconnectFails, Retrying
  <2>8. CASE UNCHANGED eventsVars
    BY <2>1, <2>8 DEF eventsVars, loopVars, Retrying
  <2> QED
    BY <2>2, <2>3, <2>4, <2>5, <2>6, <2>7, <2>8
<1>3. EventsTypeOK' /\ Known'
  <2>1. sent' \in 0 .. Len(day)
    BY <1>1, LenProperties DEF EventsInv, EventsTypeOK
  <2> QED
    BY <1>1, <1>2, <2>1 DEF brokerVars, EventsInv, EventsTypeOK, Known
<1> QED
  BY <1>1, <1>2, <1>3, SilentStep DEF brokerVars

(* An orderly close forgets the frames seen; from here on nothing is claimed of
   their order, and each execution may be counted once more. *)
LEMMA OrderlyCloseStep == ASSUME EventsInv, ClosesOk PROVE EventsInv'
<1>1. /\ UNCHANGED <<brokerVars, known, cumulative, logins, reports>>
      /\ sent' = 0 /\ seen' = {} /\ closes' = closes + 1
      /\ closes' \in 0 .. MaxCloses /\ closes' # 0
  BY EventsAssumption DEF ClosesOk, Lost, EventsInv, EventsTypeOK
<1>2. retries' \in 0 .. MaxRetries + 1 /\ loop' \in {"waiting", "over"} /\ Retrying'
  BY EventsAssumption DEF ClosesOk, Lost, EventsInv, EventsTypeOK, Retrying
<1>3. EventsTypeOK' /\ Known'
  BY <1>1, <1>2, LenProperties DEF brokerVars, EventsInv, EventsTypeOK, Known
<1>4. SeenIsPrefix' /\ ToldWasSeen' /\ ToldRightly'
  BY <1>1 DEF brokerVars, EventsInv, SeenIsPrefix, ToldWasSeen, ToldRightly,
     ToldInOrder, ToldAfterAccepted
<1>5. CountedWasSeen'
  <2> SUFFICES ASSUME NEW o \in Orders
               PROVE  cumulative[o] <= CountedBefore(o)' + Cardinality(SeenFills(o)')
    BY <1>1 DEF CountedWasSeen
  <2>1. /\ SeenFills(o)' = {} /\ Executed(o)' = Executed(o) /\ closes' = closes + 1
    BY <1>1 DEF brokerVars, SeenFills, Executed, Noticed
  <2>2. CountedBefore(o)' = CountedBefore(o) + Executed(o)
    BY <2>1, CountsNatural, OnceMore DEF EventsInv, CountedBefore
  <2> QED
    BY <2>1, <2>2, CountsNatural, FS_EmptySet DEF EventsInv, CountedWasSeen
<1> QED
  BY <1>2, <1>3, <1>4, <1>5 DEF EventsInv

(* After a restart nothing is seen, but no order that was told of is known. *)
LEMMA RestartStep == ASSUME EventsInv, EngineRestarts PROVE EventsInv'
<1>1. /\ UNCHANGED <<day, cancel, reports, closes>>
      /\ known' = {} /\ seen' = {} /\ sent' = 0 /\ retries' = 0 /\ loop' = "off"
      /\ cumulative' = [o \in Orders |-> 0]
      /\ logins' \in 0 .. MaxLogins
      /\ request' \in [Orders -> {"none", "sent", "placed", "answered", "lost"}]
      /\ \A o \in Orders : request[o] = "answered" => request'[o] = "answered"
  BY EventsAssumption DEF EngineRestarts, EventsInv, EventsTypeOK
<1>2. EventsTypeOK' /\ Known' /\ Retrying'
  BY <1>1, EventsAssumption, LenProperties DEF EventsInv, EventsTypeOK, Known, Retrying
<1>3. SeenIsPrefix'
  <2>1. SeenUpTo(0)' /\ 0 \in 0 .. Len(day')
    BY <1>1, LenProperties DEF SeenUpTo, EventsInv, EventsTypeOK
  <2> QED
    BY <2>1 DEF SeenIsPrefix
<1>4. ToldWasSeen'
  BY <1>1 DEF ToldWasSeen
<1>5. CountedWasSeen'
  <2>1. \A o \in Orders : SeenFills(o)' = {} /\ cumulative'[o] = 0
    BY <1>1 DEF SeenFills
  <2>2. \A o \in Orders : CountedBefore(o)' \in Nat
    BY <1>1, CountsNatural DEF EventsInv, CountedBefore, Executed, Noticed
  <2> QED
    BY <2>1, <2>2, FS_EmptySet DEF CountedWasSeen
<1>6. ToldRightly'
  BY <1>1, ReportsPlaces DEF EventsInv, ToldRightly, ToldInOrder, ToldAfterAccepted, Frames
<1> QED
  BY <1>2, <1>3, <1>4, <1>5, <1>6 DEF EventsInv

LEMMA EventsInvInit == EventsInit => EventsInv
<1> SUFFICES ASSUME EventsInit PROVE EventsInv
  OBVIOUS
<1>1. Len(<<>>) = 0 /\ <<>> \in Seq(Frames) /\ <<>> \in Seq(1 .. 0)
  BY EmptySeq
<1>2. EventsTypeOK
  BY <1>1, EventsAssumption DEF EventsInit, EventsTypeOK
<1>3. Known /\ Retrying /\ ToldWasSeen /\ ToldRightly
  BY <1>1, EventsAssumption DEF EventsInit, Known, Retrying, ToldWasSeen, ToldRightly, ToldInOrder, ToldAfterAccepted
<1>4. SeenUpTo(0) /\ 0 \in 0 .. Len(day)
  BY <1>1 DEF EventsInit, SeenUpTo
<1>5. \A o \in Orders : SeenFills(o) = {} /\ cumulative[o] = 0 /\ CountedBefore(o) \in Nat
  BY <1>2, CountsNatural DEF EventsInit, SeenFills
<1> QED
  BY <1>2, <1>3, <1>4, <1>5, FS_EmptySet DEF EventsInv, SeenIsPrefix, CountedWasSeen

LEMMA EventsInvStep == EventsInv /\ [EventsNext]_eventsVars => EventsInv'
BY BrokerSteps, CommandSteps, ConnectionSteps, ReceiveStep, OrderlyCloseStep, RestartStep DEF EventsNext

LEMMA EventsInvariance == EventsSpec => []EventsInv
BY EventsInvInit, EventsInvStep, PTL DEF EventsSpec

(* The variables of the EVENT loop keep their types: a frame that is told is one
   the broker has sent that day.                                             *)
THEOREM EventsTypesAlways == EventsSpec => []EventsTypeOK
<1>1. EventsInv => EventsTypeOK
  BY DEF EventsInv
<1> QED
  BY <1>1, EventsInvariance, PTL

(* However often the EVENT connection breaks, is made again by
   _run_event_loop or is lost with the engine, and whatever the broker resends,
   the clients are told of the frames of an order in the order the broker sent
   them, each once, and of an order only when its SubmitOrder was answered; an
   orderly close by the broker is the end of that promise.                    *)
THEOREM EventsToldRightly == EventsSpec => []ToldRightly
<1>1. EventsInv => ToldRightly
  BY DEF EventsInv
<1> QED
  BY <1>1, EventsInvariance, PTL

(* _fill_cumulative never counts an execution of an order twice, though
   _on_ec_event meets the frames of the day again on every connection, but that
   each orderly close by the broker may have all of them counted once more.   *)
THEOREM EventsNotOvercounted == EventsSpec => []NotOvercounted
<1>1. EventsInv => NotOvercounted
  <2> SUFFICES ASSUME EventsInv, NEW o \in Orders
               PROVE  cumulative[o] <= (closes + 1) * Executed(o)
    BY DEF NotOvercounted
  <2>1. cumulative[o] <= CountedBefore(o) + Executed(o)
    BY CountsNatural DEF EventsInv, CountedWasSeen
  <2>2. CountedBefore(o) + Executed(o) = (closes + 1) * Executed(o)
    BY CountsNatural, OnceMore DEF EventsInv, CountedBefore
  <2> QED
    BY <2>1, <2>2
<1> QED
  BY <1>1, EventsInvariance, PTL

-----------------------------------------------------------------------------
(* TachibanaHub, for every number of streams and of sessions.               *)

USE DEF None, Kinds

HubRecords == [url : 0 .. MaxSessions, subs : [Kinds -> Streams \cup {None}], stop : BOOLEAN,
               runner : {"none", "running", "done"}, closing : BOOLEAN]
StreamRecords == [kind : Kinds, phase : Phases, hub : Hubs \cup {None},
                  innerStop : BOOLEAN, cancelled : BOOLEAN, hasBook : BOOLEAN]

(* Coroutines and their watchdogs: who waits has a hub, and what a stream to
   come will be has left no trace yet.                                      *)
StreamsNamed ==
    /\ \A s \in Streams : Is(s, "waiting") => stream[s].hub \in Hubs
    /\ \A s \in Streams : ~Is(s, "none") \/ s \in watchdog => s <= created

(* Hubs: those to come are fresh, and a runner that runs is the present hub's
   or told to end, now or by aclose().  Nobody subscribes to a hub that is not
   the present one, so none of these is started again.                      *)
HubsEnd ==
    /\ \A h \in Hubs : h > hubs => hub[h].runner = "none" /\ ~hub[h].closing /\ Subscribers(h) = {}
    /\ \A h \in Hubs : hub[h].runner = "running" => h = current \/ hub[h].closing \/ hub[h].stop

IInv == TypeOK /\ StreamsNamed /\ HubsEnd /\ NoneLeftBehind

LEMMA Types ==
    TypeOK <=>
      /\ sessions \in 0 .. MaxSessions
      /\ session \in 0 .. sessions
      /\ current \in 0 .. hubs
      /\ hubs \in 0 .. MaxSessions
      /\ hub \in [Hubs -> HubRecords]
      /\ connected \subseteq Hubs
      /\ \A h \in connected : hub[h].runner = "running"
      /\ created \in 0 .. MaxStreams
      /\ stream \in [Streams -> StreamRecords]
      /\ watchdog \subseteq {s \in Streams : stream[s].kind = "depth"}
      /\ registry \in [Kinds -> Streams \cup {None}]
BY DEF TypeOK, HubRecords, StreamRecords

(* Who is connected has a runner. *)
LEMMA ConnectedEnd == ASSUME IInv PROVE OldConnectionsEnd
BY DEF IInv, TypeOK, HubsEnd, OldConnectionsEnd

-----------------------------------------------------------------------------
(* The commands and the coroutines. *)

LEMMA SubscribeStep == ASSUME IInv, NEW k \in Kinds, Subscribe(k) PROVE IInv'
<1>1. created + 1 \in Streams /\ created' \in 0 .. MaxStreams /\ created' = created + 1
  BY HubAssumption DEF IInv, TypeOK, Subscribe, Streams
<1>2. stream[created + 1] \in StreamRecords
  BY <1>1 DEF IInv, TypeOK, StreamRecords
<1>3. stream' = [stream EXCEPT ![created + 1] = [@ EXCEPT !.kind = k, !.phase = "new"]]
  BY DEF Subscribe
<1>4. stream' \in [Streams -> StreamRecords]
  BY <1>1, <1>2, <1>3 DEF IInv, TypeOK, StreamRecords, Phases
<1>5. \A s \in Streams : s # created + 1 => stream'[s] = stream[s]
  BY <1>3 DEF IInv, TypeOK
<1>6. created + 1 \notin watchdog
  BY <1>1 DEF IInv, TypeOK, StreamsNamed
<1>7. watchdog' \subseteq {s \in Streams : stream'[s].kind = "depth"}
  BY <1>5, <1>6 DEF IInv, TypeOK, Subscribe
<1>8. TypeOK'
  BY <1>1, <1>4, <1>7 DEF IInv, TypeOK, StreamRecords, Subscribe, sessionVars, hubVars
<1>9. StreamsNamed'
  <2>1. stream'[created + 1].phase = "new"
    BY <1>1, <1>2, <1>3 DEF IInv, TypeOK, StreamRecords
  <2>2. created \in Nat /\ created' = created + 1 /\ watchdog' = watchdog
    BY <1>1 DEF Subscribe, IInv, TypeOK
  <2>3. ASSUME NEW s \in Streams
        PROVE  /\ Is(s, "waiting")' => stream'[s].hub \in Hubs
               /\ ~Is(s, "none")' \/ s \in watchdog' => s <= created'
    <3>1. CASE s = created + 1
      BY <2>1, <2>2, <3>1 DEF Is
    <3>2. CASE s # created + 1
      <4>1. stream'[s] = stream[s]
        BY <1>5, <3>2
      <4>2. /\ stream[s].phase = "waiting" => stream[s].hub \in Hubs
            /\ stream[s].phase # "none" \/ s \in watchdog => s <= created
        BY DEF IInv, StreamsNamed, Is
      <4> QED
        BY <2>2, <4>1, <4>2 DEF Is, Streams
    <3> QED
      BY <3>1, <3>2
  <2> QED
    BY <2>3 DEF StreamsNamed
<1>10. HubsEnd' /\ NoneLeftBehind'
  BY DEF IInv, HubsEnd, NoneLeftBehind, Subscribers, Subscribe, sessionVars, hubVars
<1> QED
  BY <1>8, <1>9, <1>10 DEF IInv

LEMMA UnsubscribeStep == ASSUME IInv, NEW k \in Kinds, Unsubscribe(k) PROVE IInv'
<1> DEFINE s == registry[k]
<1>1. s \in Streams /\ stream[s] \in StreamRecords
  BY DEF IInv, TypeOK, StreamRecords, Unsubscribe
<1>2. stream' = [stream EXCEPT ![s] = [stream[s] EXCEPT !.cancelled = TRUE,
                    !.phase = IF stream[s].phase = "new" THEN "ended" ELSE stream[s].phase]]
  BY <1>1 DEF Unsubscribe, IInv, TypeOK
<1> HIDE DEF s
<1>3. stream' \in [Streams -> StreamRecords]
  BY <1>1, <1>2 DEF IInv, TypeOK, StreamRecords, Phases
<1>4. \A t \in Streams : /\ stream'[t].kind = stream[t].kind /\ stream'[t].hub = stream[t].hub
                         /\ stream'[t].phase # "none" => stream[t].phase # "none"
                         /\ stream'[t].phase = "waiting" => stream[t].phase = "waiting"
  BY <1>1, <1>2 DEF IInv, TypeOK, StreamRecords
<1>5. TypeOK'
  BY <1>3, <1>4 DEF IInv, TypeOK, StreamRecords, Unsubscribe, sessionVars, hubVars
<1>6. StreamsNamed'
  <2>1. created' = created /\ watchdog' = watchdog
    BY DEF Unsubscribe
  <2>2. \A t \in Streams : /\ stream[t].phase = "waiting" => stream[t].hub \in Hubs
                           /\ stream[t].phase # "none" \/ t \in watchdog => t <= created
    BY DEF IInv, StreamsNamed, Is
  <2> QED
    BY <1>4, <2>1, <2>2 DEF StreamsNamed, Is
<1>7. HubsEnd' /\ NoneLeftBehind'
  <2>1. UNCHANGED <<sessions, session, current, hubs, hub>>
    BY DEF Unsubscribe, sessionVars, hubVars
  <2> QED
    BY <2>1 DEF IInv, HubsEnd, NoneLeftBehind, Subscribers
<1> QED
  BY <1>5, <1>6, <1>7 DEF IInv

(* The steps that write neither a hub nor the session, and of a stream
   neither its hub nor its kind, and that let nobody begin to wait.         *)
Quiet ==
    /\ UNCHANGED <<sessionVars, current, hubs, hub, created>>
    /\ \A t \in Streams : /\ stream'[t].kind = stream[t].kind
                          /\ stream'[t].phase # "none" => stream[t].phase # "none"
                          /\ stream'[t].phase = "waiting" =>
                                stream[t].phase = "waiting" /\ stream'[t].hub = stream[t].hub
    /\ watchdog' \subseteq watchdog

LEMMA QuietStep == ASSUME IInv, Quiet PROVE StreamsNamed' /\ HubsEnd' /\ NoneLeftBehind'
<1>1. StreamsNamed'
  <2>1. \A s \in Streams : s \in watchdog' => s \in watchdog
    BY DEF Quiet
  <2> QED
    BY <2>1 DEF IInv, Quiet, StreamsNamed, Is
<1>2. HubsEnd' /\ NoneLeftBehind'
  BY DEF IInv, Quiet, HubsEnd, NoneLeftBehind, Subscribers, sessionVars
<1> QED
  BY <1>1, <1>2

LEMMA StreamSteps ==
    ASSUME IInv, NEW s \in Streams, Done(s) \/ Declines(s) \/ PollEnds(s) \/ WatchdogWakes(s)
    PROVE  IInv'
<1>1. stream[s] \in StreamRecords /\ stream \in [Streams -> StreamRecords]
  BY DEF IInv, TypeOK, StreamRecords
<1>2. CASE Done(s)
  <2>1. Fresh(stream[s].kind) \in StreamRecords /\ Fresh(stream[s].kind).kind = stream[s].kind
    BY <1>1 DEF Fresh, StreamRecords, Phases
  <2>2. stream' = [stream EXCEPT ![s] = [Fresh(stream[s].kind) EXCEPT !.phase = "gone"]]
    BY <1>2 DEF Done
  <2>3. stream' \in [Streams -> StreamRecords]
    BY <1>1, <2>1, <2>2 DEF StreamRecords, Phases
  <2>4. stream'[s].kind = stream[s].kind /\ stream'[s].phase = "gone"
    BY <1>1, <2>1, <2>2 DEF StreamRecords
  <2>5. stream[s].phase = "ended" /\ \A t \in Streams : t # s => stream'[t] = stream[t]
    BY <1>1, <1>2, <2>2 DEF Done, Is
  <2>6. Quiet
    BY <1>2, <2>4, <2>5 DEF Done, Quiet, hubVars
  <2>7. registry' \in [Kinds -> Streams \cup {None}]
    BY <1>2 DEF Done, IInv, TypeOK
  <2>8. TypeOK'
    BY <1>2, <2>3, <2>6, <2>7 DEF IInv, TypeOK, Done, Quiet, StreamRecords, sessionVars, hubVars
  <2> QED
    BY <2>6, <2>8, QuietStep DEF IInv
<1>3. CASE Declines(s)
  <2>1. Quiet /\ stream' \in [Streams -> StreamRecords]
    BY <1>1, <1>3 DEF Declines, InTurn, Is, Quiet, hubVars, StreamRecords, Phases
  <2>2. TypeOK'
    BY <1>3, <2>1 DEF IInv, TypeOK, Declines, Quiet, StreamRecords, sessionVars, hubVars
  <2> QED
    BY <2>1, <2>2, QuietStep DEF IInv
<1>4. CASE PollEnds(s)
  <2>1. Quiet /\ stream' \in [Streams -> StreamRecords]
    BY <1>1, <1>4 DEF PollEnds, Is, Quiet, hubVars, StreamRecords, Phases
  <2>2. TypeOK'
    BY <1>4, <2>1 DEF IInv, TypeOK, PollEnds, Quiet, StreamRecords, sessionVars, hubVars
  <2> QED
    BY <2>1, <2>2, QuietStep DEF IInv
<1>5. CASE WatchdogWakes(s)
  <2> DEFINE woken == stream[s].innerStop \/ (Is(s, "waiting") /\ ~stream[s].hasBook)
  <2>1. stream' = [stream EXCEPT ![s] = [stream[s] EXCEPT !.innerStop = woken]]
    BY <1>1, <1>5 DEF WatchdogWakes
  <2>2. woken \in BOOLEAN
    BY <1>1 DEF StreamRecords
  <2> HIDE DEF woken
  <2>3. stream' \in [Streams -> StreamRecords]
    BY <1>1, <2>1, <2>2 DEF StreamRecords
  <2>4. Quiet
    BY <1>1, <1>5, <2>1, <2>2 DEF WatchdogWakes, Quiet, hubVars, StreamRecords
  <2>5. TypeOK'
    BY <1>5, <2>3, <2>4 DEF IInv, TypeOK, WatchdogWakes, Quiet, StreamRecords, sessionVars, hubVars
  <2> QED
    BY <2>4, <2>5, QuietStep DEF IInv
<1> QED
  BY <1>2, <1>3, <1>4, <1>5

LEMMA JoinsStep == ASSUME IInv, NEW s \in Streams, Joins(s) PROVE IInv'
<1> DEFINE k == stream[s].kind
           h == HubFor
<1>1. stream[s] \in StreamRecords /\ k \in Kinds /\ stream[s].phase = "new" /\ s <= created
  BY DEF IInv, TypeOK, StreamRecords, StreamsNamed, Joins, InTurn, Is
<1>2. h \in Hubs /\ current' = h /\ session # None /\ UNCHANGED <<sessions, session, connected, created, registry>>
  BY DEF Joins, sessionVars
<1>3. hub[h] \in HubRecords
  BY <1>2 DEF IInv, TypeOK, HubRecords
<1>4. hubs' = (IF h > hubs THEN h ELSE hubs) /\ hubs' \in 0 .. MaxSessions /\ hubs <= hubs' /\ h <= hubs'
      /\ (h > hubs <=> current = None) /\ (current # None => h = current)
  BY <1>2, HubAssumption DEF IInv, TypeOK, Joins, HubFor, Hubs
<1>5. stream' = [stream EXCEPT ![s] = [stream[s] EXCEPT !.phase = "waiting", !.hub = h]]
  BY <1>1 DEF Joins, IInv, TypeOK
<1>6. watchdog' = IF k = "depth" THEN watchdog \cup {s} ELSE watchdog
  BY DEF Joins
<1>7. \/ hub[h].subs[k] # None /\ hub' = hub
      \/ hub[h].subs[k] = None /\ hub' = [hub EXCEPT ![h] = With(h, k, s)]
  BY DEF Joins
<1>8. /\ With(h, k, s) \in HubRecords
      /\ With(h, k, s).closing = hub[h].closing
      /\ With(h, k, s).runner = "running"
  <2>1. session \in 0 .. MaxSessions
    BY HubAssumption DEF IInv, TypeOK
  <2>2. [hub[h].subs EXCEPT ![k] = s] \in [Kinds -> Streams \cup {None}]
    BY <1>1, <1>3 DEF HubRecords
  <2>3. (hub[h].runner = "running" /\ hub[h].stop) \in BOOLEAN
    BY <1>3 DEF HubRecords
  <2> QED
    BY <1>1, <1>3, <2>1, <2>2, <2>3 DEF With, HubRecords
<1> HIDE DEF h, k
<1>9. stream' \in [Streams -> StreamRecords]
      /\ \A t \in Streams : stream'[t].kind = stream[t].kind /\ (t # s => stream'[t] = stream[t])
  BY <1>1, <1>2, <1>5 DEF IInv, TypeOK, StreamRecords, Phases
<1>11. hub[h].subs[k] # None => current # None
  BY <1>1, <1>2, <1>3, <1>4 DEF IInv, HubsEnd, Subscribers
<1>12. hub' \in [Hubs -> HubRecords]
  <2>1. hub \in [Hubs -> HubRecords]
    BY DEF IInv, TypeOK, HubRecords
  <2> QED
    BY <1>7, <1>8, <2>1
<1>13. /\ hub'[h].closing = hub[h].closing
       /\ \A g \in Hubs : g # h => hub'[g] = hub[g]
       /\ hub[h].runner = "running" => hub'[h].runner = "running"
  <2>1. CASE hub[h].subs[k] # None
    <3>1. hub' = hub
      BY <1>7, <2>1
    <3> QED
      BY <1>2, <1>4, <1>11, <2>1, <3>1 DEF IInv, HubsEnd
  <2>2. CASE hub[h].subs[k] = None
    <3>1. hub' = [hub EXCEPT ![h] = With(h, k, s)]
      BY <1>7, <2>2
    <3>2. hub'[h] = With(h, k, s) /\ \A g \in Hubs : g # h => hub'[g] = hub[g]
      BY <1>2, <3>1 DEF IInv, TypeOK
    <3> QED
      BY <1>8, <3>2
  <2> QED
    BY <2>1, <2>2
<1>14. TypeOK'
  <2>1. \A g \in connected' : hub'[g].runner = "running"
    BY <1>2, <1>13 DEF IInv, TypeOK
  <2>2. watchdog' \subseteq {t \in Streams : stream'[t].kind = "depth"}
    BY <1>6, <1>9 DEF IInv, TypeOK, k
  <2>3. current' \in 0 .. hubs'
    BY <1>2, <1>4 DEF Hubs
  <2> QED
    BY <1>2, <1>4, <1>9, <1>12, <2>1, <2>2, <2>3 DEF IInv, TypeOK, HubRecords, StreamRecords
<1>15. StreamsNamed'
  <2>1. \A t \in Streams : /\ stream[t].phase = "waiting" => stream[t].hub \in Hubs
                           /\ stream[t].phase # "none" \/ t \in watchdog => t <= created
    BY DEF IInv, StreamsNamed, Is
  <2>2. stream'[s].hub = h
    BY <1>1, <1>5 DEF IInv, TypeOK, StreamRecords
  <2>3. \A t \in Streams : t \in watchdog' => t \in watchdog \/ t = s
    BY <1>6
  <2> QED
    BY <1>1, <1>2, <1>9, <2>1, <2>2, <2>3 DEF StreamsNamed, Is
<1>16. HubsEnd'
  <2>1. \A g \in Hubs : g # h => g # current
    BY <1>4 DEF Hubs
  <2>2. \A g \in Hubs : g > hubs' => g # h /\ g > hubs
    BY <1>4 DEF IInv, TypeOK, Hubs
  <2>3. \A g \in Hubs : g > hubs' => hub'[g].runner = "none" /\ ~hub'[g].closing /\ Subscribers(g)' = {}
    BY <1>13, <2>2 DEF IInv, HubsEnd, Subscribers
  <2>4. \A g \in Hubs : hub'[g].runner = "running" => g = current' \/ hub'[g].closing \/ hub'[g].stop
    BY <1>2, <1>13, <2>1 DEF IInv, HubsEnd
  <2> QED
    BY <2>3, <2>4 DEF HubsEnd
<1>17. NoneLeftBehind'
  <2>1. \A g \in Hubs : Subscribers(g) # {} => g = current \/ hub[g].closing
    BY DEF IInv, NoneLeftBehind
  <2>2. \A g \in Hubs : g # h => Subscribers(g)' = Subscribers(g) /\ hub'[g].closing = hub[g].closing
    BY <1>13 DEF Subscribers
  <2>3. \A g \in Hubs : g # h => g # current
    BY <1>4 DEF Hubs
  <2> QED
    BY <1>2, <2>1, <2>2, <2>3 DEF NoneLeftBehind
<1> QED
  BY <1>14, <1>15, <1>16, <1>17 DEF IInv

(* What Without leaves of a hub. *)
LEMMA WithoutTypes ==
    ASSUME TypeOK, NEW h \in Hubs, NEW k \in Kinds
    PROVE  /\ Without(h, k) \in HubRecords
           /\ Without(h, k).runner = hub[h].runner
           /\ hub[h].stop => Without(h, k).stop
           /\ Without(h, k).closing = hub[h].closing
           /\ \A j \in Kinds : Without(h, k).subs[j] \in {None, hub[h].subs[j]}
<1> DEFINE left == [hub[h].subs EXCEPT ![k] = None]
           stops == hub[h].stop \/ (hub[h].runner # "none" /\ \A j \in Kinds : left[j] = None)
<1>1. hub[h] \in HubRecords
  BY DEF TypeOK, HubRecords
<1>2. Without(h, k) = [hub[h] EXCEPT !.subs = left, !.stop = stops]
  BY DEF Without
<1>3. left \in [Kinds -> Streams \cup {None}] /\ \A j \in Kinds : left[j] \in {None, hub[h].subs[j]}
  BY <1>1 DEF HubRecords
<1>4. stops \in BOOLEAN /\ (hub[h].stop => stops)
  BY <1>1 DEF HubRecords
<1> HIDE DEF left, stops
<1> QED
  BY <1>1, <1>2, <1>3, <1>4 DEF HubRecords

(* A step that only takes subscribers from hubs, or stops them, starts no old
   hub again and leaves nobody behind.                                      *)
Thins ==
    /\ UNCHANGED <<sessions, session, current, hubs>>
    /\ \A h \in Hubs : /\ hub'[h].runner = "none" <=> hub[h].runner = "none"
                       /\ hub'[h].runner = "running" => hub[h].runner = "running"
                       /\ hub[h].stop => hub'[h].stop
                       /\ \A k \in Kinds : hub'[h].subs[k] \in {None, hub[h].subs[k]}
                       /\ \/ hub'[h].closing = hub[h].closing
                          \/ /\ ~hub'[h].closing /\ hub'[h].stop
                             /\ \A k \in Kinds : hub'[h].subs[k] = None

LEMMA FewerSubscribers == ASSUME IInv, Thins PROVE HubsEnd' /\ NoneLeftBehind'
<1> USE DEF Thins
<1>1. UNCHANGED <<sessions, session, current, hubs>>
  OBVIOUS
<1>2. /\ \A h \in Hubs : h > hubs => hub[h].runner = "none" /\ ~hub[h].closing /\ Subscribers(h) = {}
      /\ \A h \in Hubs : hub[h].runner = "running" => h = current \/ hub[h].closing \/ hub[h].stop
  BY DEF IInv, HubsEnd
<1>3. HubsEnd'
  <2>1. \A h \in Hubs : h > hubs => ~hub'[h].closing /\ Subscribers(h)' = {}
    BY <1>2 DEF Subscribers
  <2> QED
    BY <1>1, <1>2, <2>1 DEF HubsEnd
<1>4. NoneLeftBehind'
  BY <1>1 DEF IInv, NoneLeftBehind, Subscribers
<1> QED
  BY <1>3, <1>4

LEMMA LeavesStep == ASSUME IInv, NEW s \in Streams, Leaves(s) PROVE IInv'
<1> DEFINE h == stream[s].hub
           k == stream[s].kind
           polls == k = "depth" /\ ~stream[s].cancelled /\ ~stream[s].hasBook
<1>1. stream[s] \in StreamRecords /\ k \in Kinds /\ stream[s].phase = "waiting" /\ h \in Hubs /\ s <= created
  BY DEF IInv, TypeOK, StreamRecords, StreamsNamed, Leaves, Is
<1>2. hub' = [hub EXCEPT ![h] = Without(h, k)]
  BY DEF Leaves
<1>3. stream' = [stream EXCEPT ![s] = [stream[s] EXCEPT !.phase = IF polls THEN "polling" ELSE "ended"]]
  BY DEF Leaves, IInv, TypeOK
<1>4. watchdog' \subseteq watchdog
  BY DEF Leaves
<1>5. UNCHANGED <<sessionVars, current, hubs, connected, created, registry>>
  BY DEF Leaves
<1> HIDE DEF h, k, polls
<1>6. /\ stream' \in [Streams -> StreamRecords]
      /\ \A t \in Streams : stream'[t].kind = stream[t].kind /\ (t # s => stream'[t] = stream[t])
      /\ stream'[s].phase # "waiting"
  BY <1>1, <1>3 DEF IInv, TypeOK, StreamRecords, Phases
<1>7. /\ Without(h, k) \in HubRecords
      /\ Without(h, k).runner = hub[h].runner
      /\ hub[h].stop => Without(h, k).stop
      /\ Without(h, k).closing = hub[h].closing
      /\ \A j \in Kinds : Without(h, k).subs[j] \in {None, hub[h].subs[j]}
  BY <1>1, WithoutTypes DEF IInv
<1>8. /\ hub' \in [Hubs -> HubRecords]
      /\ hub'[h] = Without(h, k)
      /\ \A g \in Hubs : g # h => hub'[g] = hub[g]
  BY <1>1, <1>2, <1>7 DEF IInv, TypeOK, HubRecords
<1>9. \A g \in Hubs : /\ hub'[g].runner = hub[g].runner
                      /\ hub[g].stop => hub'[g].stop
                      /\ hub'[g].closing = hub[g].closing
                      /\ \A j \in Kinds : hub'[g].subs[j] \in {None, hub[g].subs[j]}
  BY <1>7, <1>8
<1>10. TypeOK'
  <2>1. \A g \in connected' : hub'[g].runner = "running"
    BY <1>5, <1>9 DEF IInv, TypeOK
  <2>2. watchdog' \subseteq {t \in Streams : stream'[t].kind = "depth"}
    BY <1>4, <1>6 DEF IInv, TypeOK
  <2> QED
    BY <1>5, <1>6, <1>8, <2>1, <2>2 DEF IInv, TypeOK, HubRecords, StreamRecords, sessionVars
<1>11. StreamsNamed'
  <2>1. \A t \in Streams : /\ stream[t].phase = "waiting" => stream[t].hub \in Hubs
                           /\ stream[t].phase # "none" \/ t \in watchdog => t <= created
    BY DEF IInv, StreamsNamed, Is
  <2> QED
    BY <1>1, <1>4, <1>5, <1>6, <2>1 DEF StreamsNamed, Is
<1>12. HubsEnd' /\ NoneLeftBehind'
  <2>1. Thins
    BY <1>9, <1>5 DEF Thins, sessionVars
  <2> QED
    BY <2>1, FewerSubscribers
<1> QED
  BY <1>10, <1>11, <1>12 DEF IInv

-----------------------------------------------------------------------------
(* The runner of a hub. *)

(* The steps of a runner that change no hub. *)
LEMMA FrameSteps ==
    ASSUME IInv, NEW h \in Hubs,
           Connects(h) \/ Breaks(h) \/ Quotes(h) \/ \E k \in Kinds : Status(h, k)
    PROVE  IInv'
<1>1. CASE Connects(h) \/ Breaks(h)
  <2>1. Quiet
    BY <1>1 DEF Connects, Breaks, Quiet, streamVars
  <2>2. connected' \subseteq Hubs /\ \A g \in connected' : hub'[g].runner = "running"
    BY <1>1 DEF IInv, TypeOK, Connects, Breaks
  <2>3. TypeOK'
    BY <1>1, <2>2 DEF IInv, TypeOK, Connects, Breaks, sessionVars, streamVars
  <2> QED
    BY <2>1, <2>3, QuietStep DEF IInv
<1>2. CASE Quotes(h)
  <2> DEFINE s == hub[h].subs["depth"]
  <2>1. s \in Streams /\ stream[s] \in StreamRecords /\ stream \in [Streams -> StreamRecords]
    BY <1>2 DEF IInv, TypeOK, StreamRecords, Quotes
  <2>2. stream' = [stream EXCEPT ![s] = [stream[s] EXCEPT !.hasBook = TRUE]]
    BY <1>2, <2>1 DEF Quotes
  <2> HIDE DEF s
  <2>3. stream' \in [Streams -> StreamRecords]
    BY <2>1, <2>2 DEF StreamRecords
  <2>4. Quiet
    BY <1>2, <2>1, <2>2 DEF Quotes, Quiet, hubVars, StreamRecords
  <2>5. TypeOK'
    BY <1>2, <2>3, <2>4 DEF IInv, TypeOK, Quotes, Quiet, StreamRecords, sessionVars, hubVars
  <2> QED
    BY <2>4, <2>5, QuietStep DEF IInv
<1>3. ASSUME NEW k \in Kinds, Status(h, k) PROVE IInv'
  <2> DEFINE s == hub[h].subs[k]
  <2>1. s \in Streams /\ stream[s] \in StreamRecords /\ stream \in [Streams -> StreamRecords]
    BY <1>3 DEF IInv, TypeOK, StreamRecords, Status
  <2>2. stream' = [stream EXCEPT ![s] = [stream[s] EXCEPT !.innerStop = TRUE]]
    BY <1>3, <2>1 DEF Status
  <2> HIDE DEF s
  <2>3. stream' \in [Streams -> StreamRecords]
    BY <2>1, <2>2 DEF StreamRecords
  <2>4. Quiet
    <3>1. UNCHANGED <<sessionVars, current, hubs, hub, created>> /\ watchdog' \subseteq watchdog
      BY <1>3 DEF Status, hubVars
    <3>2. \A t \in Streams : /\ stream'[t].kind = stream[t].kind
                            /\ stream'[t].phase = stream[t].phase /\ stream'[t].hub = stream[t].hub
      BY <2>1, <2>2 DEF StreamRecords
    <3> QED
      BY <3>1, <3>2 DEF Quiet
  <2>5. UNCHANGED <<sessions, session, current, hubs, hub, connected, created, watchdog, registry>>
    BY <1>3 DEF Status, sessionVars, hubVars
  <2>6. watchdog \subseteq {t \in Streams : stream'[t].kind = "depth"}
    BY <2>4 DEF IInv, TypeOK, Quiet
  <2>7. TypeOK'
    BY <2>3, <2>5, <2>6 DEF IInv, TypeOK, StreamRecords
  <2> QED
    BY <2>4, <2>7, QuietStep DEF IInv
<1> QED
  BY <1>1, <1>2, <1>3

LEMMA RunnerEndsStep == ASSUME IInv, NEW h \in Hubs, RunnerEnds(h) PROVE IInv'
<1>1. hub[h] \in HubRecords /\ hub \in [Hubs -> HubRecords] /\ hub[h].runner = "running"
  BY DEF IInv, TypeOK, HubRecords, RunnerEnds
<1>2. hub' = [hub EXCEPT ![h] = [hub[h] EXCEPT !.runner = "done"]]
  BY <1>1 DEF RunnerEnds
<1>3. hub' \in [Hubs -> HubRecords]
  BY <1>1, <1>2 DEF HubRecords
<1>4. \A g \in Hubs : /\ hub'[g].runner = "none" <=> hub[g].runner = "none"
                      /\ hub'[g].runner = "running" => hub[g].runner = "running"
                      /\ hub'[g].stop = hub[g].stop
                      /\ hub'[g].closing = hub[g].closing
                      /\ hub'[g].subs = hub[g].subs
                      /\ g # h => hub'[g] = hub[g]
  BY <1>1, <1>2 DEF HubRecords
<1>5. UNCHANGED <<sessions, session, current, hubs, created, stream, watchdog, registry>>
      /\ connected' = connected \ {h}
  BY DEF RunnerEnds, sessionVars, streamVars
<1>6. TypeOK'
  <2>1. connected' \subseteq Hubs /\ \A g \in connected' : hub'[g].runner = "running"
    BY <1>4, <1>5 DEF IInv, TypeOK
  <2> QED
    BY <1>3, <1>5, <2>1 DEF IInv, TypeOK, HubRecords
<1>7. StreamsNamed'
  BY <1>5 DEF IInv, StreamsNamed, Is
<1>8. HubsEnd' /\ NoneLeftBehind'
  <2>1. Thins
    BY <1>4, <1>5 DEF Thins, sessionVars
  <2> QED
    BY <2>1, FewerSubscribers
<1> QED
  BY <1>6, <1>7, <1>8 DEF IInv

-----------------------------------------------------------------------------
(* set_session and aclose(). *)

LEMMA SetSessionStep == ASSUME IInv, SetSession PROVE IInv'
<1>1. /\ current' = None
      /\ UNCHANGED <<hubs, connected, created, stream, watchdog, registry>>
      /\ \/ session # None /\ session' = None /\ sessions' = sessions
         \/ sessions < MaxSessions /\ sessions' = sessions + 1 /\ session' \in 1 .. sessions + 1
  BY DEF SetSession, streamVars
<1>2. sessions \in Nat /\ sessions' \in 0 .. MaxSessions /\ session' \in 0 .. sessions'
  BY <1>1, HubAssumption DEF IInv, TypeOK
<1>3. /\ hub' \in [Hubs -> HubRecords]
      /\ \A h \in Hubs : /\ hub'[h].runner = hub[h].runner
                         /\ hub'[h].stop = hub[h].stop
                         /\ hub'[h].subs = hub[h].subs
                         /\ h # current => hub'[h] = hub[h]
                         /\ h = current => hub'[h].closing
  <2>1. hub \in [Hubs -> HubRecords]
    BY DEF IInv, TypeOK, HubRecords
  <2>2. CASE current = None
    BY <2>1, <2>2 DEF SetSession, Hubs
  <2>3. CASE current # None
    <3>1. hub' = [hub EXCEPT ![current] = [hub[current] EXCEPT !.closing = TRUE]]
      BY <2>3 DEF SetSession
    <3>2. current \in Hubs
      BY <2>3, HubAssumption DEF IInv, TypeOK, Hubs
    <3> QED
      BY <2>1, <3>1, <3>2 DEF HubRecords
  <2> QED
    BY <2>2, <2>3
<1>4. TypeOK'
  <2>1. connected' \subseteq Hubs /\ \A h \in connected' : hub'[h].runner = "running"
    BY <1>1, <1>3 DEF IInv, TypeOK
  <2>2. current' \in 0 .. hubs'
    BY <1>1, HubAssumption DEF IInv, TypeOK
  <2> QED
    BY <1>1, <1>2, <1>3, <2>1, <2>2 DEF IInv, TypeOK, HubRecords
<1>5. StreamsNamed'
  BY <1>1 DEF IInv, StreamsNamed, Is
<1>6. \A h \in Hubs : Subscribers(h)' = Subscribers(h)
  BY <1>3 DEF Subscribers
<1>7. \A h \in Hubs : h > hubs => h # current
  BY HubAssumption DEF IInv, TypeOK, Hubs
<1>8. HubsEnd'
  BY <1>1, <1>3, <1>6, <1>7 DEF IInv, HubsEnd
<1>9. NoneLeftBehind'
  BY <1>3, <1>6 DEF IInv, NoneLeftBehind
<1> QED
  BY <1>4, <1>5, <1>8, <1>9 DEF IInv

LEMMA CloseStep == ASSUME IInv, NEW h \in Hubs, Close(h) PROVE IInv'
<1> DEFINE none == [k \in Kinds |-> None]
<1>1. hub[h] \in HubRecords /\ hub \in [Hubs -> HubRecords]
  BY DEF IInv, TypeOK, HubRecords
<1>2. hub' = [hub EXCEPT ![h] = [hub[h] EXCEPT !.subs = none, !.stop = TRUE, !.closing = FALSE]]
  BY <1>1 DEF Close
<1>3. none \in [Kinds -> Streams \cup {None}] /\ \A k \in Kinds : none[k] = None
  OBVIOUS
<1> HIDE DEF none
<1>4. /\ hub' \in [Hubs -> HubRecords]
      /\ hub'[h].runner = hub[h].runner /\ hub'[h].subs = none /\ hub'[h].stop /\ ~hub'[h].closing
      /\ \A g \in Hubs : g # h => hub'[g] = hub[g]
  BY <1>1, <1>2, <1>3 DEF HubRecords
<1>5. UNCHANGED <<sessions, session, current, hubs, connected, created, watchdog, registry>>
  BY DEF Close, sessionVars
<1>6. /\ stream' \in [Streams -> StreamRecords]
      /\ \A s \in Streams : /\ stream'[s].kind = stream[s].kind
                            /\ stream'[s].phase = stream[s].phase
                            /\ stream'[s].hub = stream[s].hub
  <2>1. stream \in [Streams -> StreamRecords]
    BY DEF IInv, TypeOK, StreamRecords
  <2>2. stream' = [s \in Streams |-> [stream[s] EXCEPT !.innerStop = stream[s].innerStop \/ s \in Subscribers(h)]]
    BY DEF Close
  <2>3. \A s \in Streams : (stream[s].innerStop \/ s \in Subscribers(h)) \in BOOLEAN
    BY <2>1 DEF StreamRecords
  <2> QED
    BY <2>1, <2>2, <2>3 DEF StreamRecords
<1>7. TypeOK'
  <2>1. \A g \in connected' : hub'[g].runner = "running"
    BY <1>4, <1>5 DEF IInv, TypeOK
  <2>2. watchdog' \subseteq {s \in Streams : stream'[s].kind = "depth"}
    BY <1>5, <1>6 DEF IInv, TypeOK
  <2> QED
    BY <1>4, <1>5, <1>6, <2>1, <2>2 DEF IInv, TypeOK, HubRecords, StreamRecords
<1>8. StreamsNamed'
  BY <1>5, <1>6 DEF IInv, StreamsNamed, Is
<1>9. HubsEnd' /\ NoneLeftBehind'
  <2>1. Thins
    BY <1>3, <1>4, <1>5 DEF Thins, sessionVars
  <2> QED
    BY <2>1, FewerSubscribers
<1> QED
  BY <1>7, <1>8, <1>9 DEF IInv

-----------------------------------------------------------------------------
LEMMA InitInv == Init => IInv
<1> SUFFICES ASSUME Init PROVE IInv
  OBVIOUS
<1>1. Fresh("depth") \in StreamRecords /\ Fresh("depth").phase = "none"
  BY DEF Fresh, StreamRecords, Phases
<1>2. [url |-> None, subs |-> [k \in Kinds |-> None], stop |-> FALSE,
       runner |-> "none", closing |-> FALSE] \in HubRecords
  BY HubAssumption DEF HubRecords
<1>3. \A h \in Hubs : hub[h].runner = "none" /\ ~hub[h].closing /\ Subscribers(h) = {}
  BY DEF Init, Subscribers
<1>4. TypeOK
  BY <1>1, <1>2, HubAssumption DEF Init, TypeOK, HubRecords, StreamRecords
<1>5. StreamsNamed
  BY <1>1 DEF Init, StreamsNamed, Is
<1>6. HubsEnd /\ NoneLeftBehind
  BY <1>3 DEF Init, HubsEnd, NoneLeftBehind
<1> QED
  BY <1>4, <1>5, <1>6 DEF IInv

LEMMA NextInv == ASSUME IInv, [Next]_vars PROVE IInv'
<1>1. CASE Next
  BY <1>1, SubscribeStep, UnsubscribeStep, StreamSteps, JoinsStep, LeavesStep, FrameSteps,
     RunnerEndsStep, SetSessionStep, CloseStep DEF Next
<1>2. CASE UNCHANGED vars
  <2>1. Quiet /\ UNCHANGED <<sessions, session, current, hubs, hub, connected, created, stream, watchdog, registry>>
    BY <1>2 DEF vars, Quiet, sessionVars, hubVars, streamVars
  <2>2. TypeOK'
    BY <2>1 DEF IInv, TypeOK
  <2> QED
    BY <2>1, <2>2, QuietStep DEF IInv
<1> QED
  BY <1>1, <1>2

LEMMA Inductive == Spec => []IInv
BY InitInv, NextInv, PTL DEF Spec

(* The state keeps its types: one hub for a session suffices (_get_or_create_hub). *)
THEOREM HubTypeOK == Spec => []TypeOK
<1>1. IInv => TypeOK
  BY DEF IInv
<1> QED
  BY <1>1, Inductive, PTL

(* An open connection is the present hub's or about to end, however streams,
   logins with new and with cached sessions and hubs that wind down interleave
   (TickerEventWsHub, set_session).                                         *)
THEOREM HubOldConnectionsEnd == Spec => []OldConnectionsEnd
BY ConnectedEnd, Inductive, PTL

(* A subscriber is on the present hub or on one about to be closed
   (set_session): with CloseFreesWaiters, none waits on an old url for ever. *)
THEOREM HubNoneLeftBehind == Spec => []NoneLeftBehind
<1>1. IInv => NoneLeftBehind
  BY DEF IInv
<1> QED
  BY <1>1, Inductive, PTL
=============================================================================
