----------------------------- MODULE DepthSync -----------------------------
(***************************************************************************)
(* The order book of one ticker on its way from a crypto venue to the      *)
(* screen: the exchange, stream_depth of the venue's worker with its depth *)
(* syncer (python/engine/exchanges), _do_request_depth_snapshot of the     *)
(* engine (python/engine/server.py), and depth_stream of the client with   *)
(* its DepthTracker (engine-client/src).                                   *)
(*                                                                         *)
(* The venues differ in where the first snapshot comes from (REST while    *)
(* the differences are read, REST once the subscription is confirmed, or   *)
(* the first frame) and in how a difference says what it follows.  The     *)
(* content of a book is the version that set each level.  A REST answer    *)
(* may be of any version so far: it can be old when it arrives.            *)
(***************************************************************************)
EXTENDS Naturals, Sequences

CONSTANTS
    Levels,         \* price levels
    MaxVersion,     \* bound: versions of the exchange's book
    LevelOf,        \* the level each version changes
    Venues,         \* the venues of the run
    MaxPending,     \* MAX_PENDING of the syncers
    MaxSessions,    \* bound: connections of stream_depth
    MaxLost,        \* bound: frames the exchange leaves out
    MaxFailures,    \* bound: failures of REST and of connections
    MaxRestarts     \* bound: lags and new depth_streams of the client

AllVenues == {"binance_spot", "binance_perp", "bybit", "okex", "mexc"}

ASSUME DepthAssumption ==
    /\ MaxVersion \in Nat \ {0}
    /\ LevelOf \in [1 .. MaxVersion -> Levels]
    /\ Venues \subseteq AllVenues
    /\ MaxPending \in Nat \ {0}
    /\ MaxSessions \in Nat \ {0}
    /\ {MaxLost, MaxFailures, MaxRestarts} \subseteq Nat

Versions == 1 .. MaxVersion
Sessions == 1 .. MaxSessions
Binance == {"binance_spot", "binance_perp"}

VARIABLES
    venue,      \* the venue of this stream
    version,    \* of the exchange's book
    published,  \* the last version a frame of this connection covered
    wire,       \* frames sent and not read
    phase,      \* where stream_depth is
    syncer,     \* the depth syncer of the present connection
    fetch,      \* who awaits a REST snapshot in stream_depth
    late,       \* Binance: syncers of broken connections whose initialize() goes on
    trigger,    \* Bybit: reconnect_trigger
    asking,     \* RequestDepthSnapshot commands being served
    outbox,     \* events on their way to the client
    tracker,    \* DepthTracker: last sequence number by session, 0 for none
    reader,     \* depth_stream
    sound,      \* history: the reader has had a snapshot of its newest session
    spent       \* history: what the bounds count

engineVars == <<published, wire, phase, syncer, fetch, late, trigger>>
clientVars == <<tracker, reader, sound>>
depthVars == <<venue, version, engineVars, asking, outbox, clientVars, spent>>

Frames == [kind : {"diff", "snapshot", "confirm"}, first : 0 .. MaxVersion,
           last : 0 .. MaxVersion, prev : 0 .. MaxVersion]
Syncers == [ssid : 0 .. MaxSessions, applied : 0 .. MaxVersion, ready : BOOLEAN,
            needsResync : BOOLEAN, fresh : BOOLEAN, pending : Seq(Frames)]
Events ==
    [kind : {"Snapshot"}, ssid : Sessions, seq : Versions]
    \cup [kind : {"Diff"}, ssid : Sessions, prev : 0 .. MaxVersion, first : Versions, seq : Versions]
    \cup [kind : {"Gap", "Disconnected", "Error"}]

Market == INSTANCE MarketBook WITH shown <- reader.seq, book <- reader.book

DepthTypeOK ==
    /\ venue \in Venues
    /\ version \in Versions
    /\ published \in 0 .. version
    /\ wire \in Seq(Frames)
    /\ phase \in {"between", "connecting", "open"}
    /\ syncer \in Syncers
    /\ \A s \in late \cup {syncer} :
          s.applied <= version /\ Len(s.pending) <= MaxPending
    /\ fetch \in {"none", "init", "resync", "confirm"}
    /\ phase # "open" => fetch = "none" /\ wire = <<>>
    /\ late \subseteq Syncers
    /\ trigger => venue = "bybit"
    /\ asking \in Nat
    /\ outbox \in Seq(Events)
    /\ tracker \in [Sessions -> 0 .. version]
    /\ reader \in [open : BOOLEAN, seq : 0 .. version, book : Market!Books, waiting : BOOLEAN]
    /\ sound \in BOOLEAN
    /\ spent \in [lost : 0 .. MaxLost, failures : 0 .. MaxFailures, restarts : 0 .. MaxRestarts]

NewSyncer(ssid) ==
    [ssid |-> ssid, applied |-> 0, ready |-> FALSE, needsResync |-> FALSE,
     fresh |-> FALSE, pending |-> <<>>]

NewReader == [open |-> TRUE, seq |-> 0, book |-> Market!Empty, waiting |-> FALSE]

DepthInit ==
    /\ venue \in Venues
    /\ version = 1
    /\ published = 0
    /\ wire = <<>>
    /\ phase = "connecting"
    /\ syncer = NewSyncer(1)
    /\ fetch = "none"
    /\ late = {}
    /\ trigger = FALSE
    /\ asking = 0
    /\ outbox = <<>>
    /\ tracker = [s \in Sessions |-> 0]
    /\ reader = NewReader
    /\ sound = FALSE
    /\ spent = [lost |-> 0, failures |-> 0, restarts |-> 0]

Spend(what, max) ==
    /\ spent[what] < max
    /\ spent' = [spent EXCEPT ![what] = @ + 1]

Emits(events) == outbox' = outbox \o events

-----------------------------------------------------------------------------
(* The syncers.  Each returns the syncer afterwards and what it emitted.   *)

Gap == [kind |-> "Gap"]
Snapshot(ssid, n) == [kind |-> "Snapshot", ssid |-> ssid, seq |-> n]

(* Mutant of Connects: anything newer connects. *)
ConnectsIfNewer(s, d) == d.last > s.applied

(* _is_first_valid of Binance, and the tests of _apply_delta and _apply_diff
   of the others.                                                          *)
Connects(s, d) ==
    \/ venue \in Binance /\ s.fresh /\ d.first <= s.applied + 1
    \/ venue \in {"binance_perp", "okex"} /\ d.prev = s.applied
    \/ venue = "binance_spot" /\ d.first = s.applied + 1
    \/ venue \in {"bybit", "mexc"} /\ d.last = s.applied + 1

(* queue_diff, _buffer_delta, _buffer_diff. *)
Queue(s, d) ==
    IF Len(s.pending) >= MaxPending
    THEN [s |-> [s EXCEPT !.pending = <<>>, !.needsResync = TRUE], out |-> <<Gap>>]
    ELSE [s |-> [s EXCEPT !.pending = Append(@, d)], out |-> <<>>]

(* _process_diff, _apply_delta, _apply_diff. *)
Process(s, d, replaying) ==
    CASE d.last <= s.applied -> [s |-> s, out |-> <<>>]
      [] d.last > s.applied /\ Connects(s, d) ->
            [s |-> [s EXCEPT !.applied = d.last, !.fresh = FALSE],
             out |-> <<[kind |-> "Diff", ssid |-> s.ssid, prev |-> s.applied,
                        first |-> d.first, seq |-> d.last]>>]
      [] OTHER ->
            LET told == [s EXCEPT !.needsResync = TRUE]
            IN  IF venue \in Binance /\ ~replaying
                THEN [s |-> Queue(told, d).s, out |-> <<Gap>>]
                ELSE [s |-> told, out |-> <<Gap>>]

(* A difference read from the connection. *)
Takes(s, d) ==
    IF ~s.ready \/ s.needsResync THEN Queue(s, d) ELSE Process(s, d, FALSE)

(* _apply_snapshot, apply_snapshot: the snapshot is emitted, then the
   differences that waited for it are replayed up to a gap.                *)
Replay(acc, d) ==
    IF acc.stopped THEN acc
    ELSE LET done == Process(acc.s, d, TRUE)
         IN  [s |-> done.s, out |-> acc.out \o done.out, stopped |-> done.s.needsResync]

ApplySnapshot(s, n) ==
    LET start == [s EXCEPT !.applied = n, !.pending = <<>>,
                           !.fresh = venue \in Binance,
                           !.ready = @ \/ venue \notin Binance,
                           !.needsResync = @ /\ venue \notin {"okex", "mexc"}]
        after[i \in 0 .. Len(s.pending)] ==     \* the first i of them are replayed
            IF i = 0 THEN [s |-> start, out |-> <<Snapshot(s.ssid, n)>>, stopped |-> FALSE]
            ELSE Replay(after[i - 1], s.pending[i])
    IN  after[Len(s.pending)]

-----------------------------------------------------------------------------
(* The exchange (external): its book moves on, and the connection that is
   open gets a frame, unless the exchange leaves one out.                  *)

Publish(n) ==
    /\ n \in version + 1 .. MaxVersion
    /\ venue \in {"bybit", "mexc"} => n = version + 1
    /\ version' = n
    /\ LET frame == [kind |-> "diff", first |-> version + 1, last |-> n, prev |-> published]
       IN  IF phase # "open"
           THEN UNCHANGED <<wire, published, spent>>
           ELSE /\ published' = n
                /\ \/ wire' = Append(wire, frame) /\ UNCHANGED spent
                   \/ Spend("lost", MaxLost) /\ UNCHANGED wire
    /\ UNCHANGED <<venue, phase, syncer, fetch, late, trigger, asking, outbox, clientVars>>

-----------------------------------------------------------------------------
(* stream_depth. *)

(* The loop starts again: a new session id, told to the handle at once. *)
Begins ==
    /\ phase = "between"
    /\ syncer.ssid < MaxSessions
    /\ phase' = "connecting"
    /\ syncer' = NewSyncer(syncer.ssid + 1)
    /\ UNCHANGED <<venue, version, published, wire, fetch, late, trigger, asking, outbox, clientVars, spent>>

(* The connection is there.  What the exchange sends first. *)
Opens ==
    /\ phase = "connecting"
    /\ phase' = "open"
    /\ published' = version
    /\ wire' = CASE venue \in Binance -> <<>>
                 [] venue = "mexc" -> <<[kind |-> "confirm", first |-> 0, last |-> 0, prev |-> 0]>>
                 [] OTHER -> <<[kind |-> "snapshot", first |-> 0, last |-> version, prev |-> 0]>>
    /\ fetch' = IF venue \in Binance THEN "init" ELSE "none"
    /\ UNCHANGED <<venue, version, syncer, late, trigger, asking, outbox, clientVars, spent>>

LeaveConnection ==
    /\ phase' = "between"
    /\ wire' = <<>>
    /\ fetch' = "none"

Reading == phase = "open" /\ fetch \in {"none", "init"}

(* A frame is read.  A gap makes Binance fetch a snapshot, with the reading
   suspended, and the others leave the connection.                         *)
Read ==
    /\ Reading
    /\ wire # <<>>
    /\ ~trigger
    /\ wire[1].kind # "confirm"
    /\ LET d == wire[1]
           done == CASE d.kind = "snapshot" -> ApplySnapshot(syncer, d.last)
                     [] d.kind = "diff" /\ fetch = "init" -> Queue(syncer, d)
                     [] OTHER -> Takes(syncer, d)
       IN  /\ Emits(done.out)
           /\ CASE done.s.needsResync /\ venue \in Binance /\ fetch # "init" ->
                       /\ syncer' = [done.s EXCEPT !.needsResync = FALSE, !.pending = <<>>]
                       /\ wire' = Tail(wire)
                       /\ fetch' = "resync"
                       /\ UNCHANGED phase
                [] done.s.needsResync /\ venue \notin Binance ->
                       syncer' = done.s /\ LeaveConnection
                [] OTHER ->
                       /\ syncer' = done.s
                       /\ wire' = Tail(wire)
                       /\ UNCHANGED <<phase, fetch>>
    /\ UNCHANGED <<venue, version, published, late, trigger, asking, clientVars, spent>>

(* MEXC: the subscription is confirmed, the snapshot is fetched. *)
Confirmed ==
    /\ Reading
    /\ wire # <<>>
    /\ wire[1].kind = "confirm"
    /\ wire' = Tail(wire)
    /\ fetch' = "confirm"
    /\ UNCHANGED <<venue, version, published, phase, syncer, late, trigger, asking, outbox, clientVars, spent>>

(* Bybit: a reconnect was asked for; the frame read is dropped. *)
Triggered ==
    /\ Reading
    /\ wire # <<>>
    /\ trigger
    /\ trigger' = FALSE
    /\ LeaveConnection
    /\ UNCHANGED <<venue, version, published, syncer, late, asking, outbox, clientVars, spent>>

FetchAnswered(n) ==
    /\ fetch # "none"
    /\ n \in 1 .. version
    /\ LET done == ApplySnapshot(syncer, n)
       IN  /\ Emits(done.out)
           /\ syncer' = [done.s EXCEPT !.ready = @ \/ fetch = "init"]
    /\ fetch' = "none"
    /\ UNCHANGED <<venue, version, published, wire, phase, late, trigger, asking, clientVars, spent>>

(* The REST call fails.  MEXC tells the client and leaves the connection;
   Binance logs it: after initialize() the syncer never becomes ready.     *)
FetchFails ==
    /\ fetch # "none"
    /\ Spend("failures", MaxFailures)
    /\ IF fetch = "confirm"
       THEN LeaveConnection /\ Emits(<<[kind |-> "Disconnected"]>>)
       ELSE fetch' = "none" /\ UNCHANGED <<phase, wire, outbox>>
    /\ UNCHANGED <<venue, version, published, syncer, late, trigger, asking, clientVars>>

(* initialize() of a connection that broke goes on and ends. *)
LateAnswered(s, n) ==
    /\ s \in late
    /\ n \in 1 .. version
    /\ late' = late \ {s}
    /\ Emits(ApplySnapshot(s, n).out)
    /\ UNCHANGED <<venue, version, published, wire, phase, syncer, fetch, trigger, asking, clientVars, spent>>

(* The exchange closes in good order: the loop ends and starts again, and
   Binance cancels an initialize() that has not ended.                     *)
ClosesOk ==
    /\ Reading
    /\ wire = <<>>
    /\ Spend("failures", MaxFailures)
    /\ LeaveConnection
    /\ UNCHANGED <<venue, version, published, syncer, late, trigger, asking, outbox, clientVars>>

(* The connection breaks, or is not made. *)
Breaks ==
    /\ Reading \/ phase = "connecting"
    /\ Spend("failures", MaxFailures)
    /\ LeaveConnection
    /\ Emits(<<[kind |-> "Disconnected"]>>)
    /\ late' = IF fetch = "init" THEN late \cup {syncer} ELSE late
    /\ UNCHANGED <<venue, version, published, syncer, trigger, asking, clientVars>>

-----------------------------------------------------------------------------
(* _do_request_depth_snapshot, under the session id read after the fetch. *)

(* Mutant of AskAnswered: Bybit raises WsNativeResyncTriggered and triggers nothing. *)
AskUntriggered(n) ==
    /\ asking > 0
    /\ n \in 1 .. version
    /\ asking' = asking - 1
    /\ IF venue = "bybit" THEN UNCHANGED outbox ELSE Emits(<<Snapshot(syncer.ssid, n)>>)
    /\ UNCHANGED <<venue, version, engineVars, clientVars, spent>>

AskAnswered(n) ==
    /\ asking > 0
    /\ n \in 1 .. version
    /\ asking' = asking - 1
    /\ IF venue = "bybit"
       THEN trigger' = TRUE /\ UNCHANGED outbox
       ELSE Emits(<<Snapshot(syncer.ssid, n)>>) /\ UNCHANGED trigger
    /\ UNCHANGED <<venue, version, published, wire, phase, syncer, fetch, late, clientVars, spent>>

AskFails ==
    /\ asking > 0
    /\ venue # "bybit"
    /\ Spend("failures", MaxFailures)
    /\ asking' = asking - 1
    /\ Emits(<<[kind |-> "Error"]>>)
    /\ UNCHANGED <<venue, version, engineVars, clientVars>>

-----------------------------------------------------------------------------
(* depth_stream and DepthTracker. *)

(* apply_diff_levels: the levels of the difference as the exchange had them
   at its end.                                                             *)
Applied(b, first, last) ==
    [l \in Levels |-> IF \E k \in first .. last : LevelOf[k] = l
                      THEN Market!SetBy(last, l) ELSE b[l]]

(* on_diff *)
Contiguous(e) == tracker[e.ssid] # 0 /\ tracker[e.ssid] = e.prev

Asks == asking' = asking + 1 /\ reader' = [reader EXCEPT !.waiting = TRUE]

Receive ==
    /\ reader.open
    /\ outbox # <<>>
    /\ outbox' = Tail(outbox)
    /\ LET e == outbox[1] IN
       CASE e.kind = "Snapshot" ->
               /\ tracker' = [tracker EXCEPT ![e.ssid] = e.seq]
               /\ reader' = [reader EXCEPT !.seq = e.seq, !.book = Market!BookAt(e.seq),
                                           !.waiting = FALSE]
               /\ sound' = \A s \in Sessions : s > e.ssid => tracker[s] = 0
               /\ UNCHANGED asking
         [] e.kind = "Diff" /\ Contiguous(e) ->
               /\ tracker' = [tracker EXCEPT ![e.ssid] = e.seq]
               /\ reader' = [reader EXCEPT !.seq = e.seq, !.book = Applied(@, e.first, e.seq)]
               /\ UNCHANGED <<asking, sound>>
         [] e.kind = "Diff" /\ ~Contiguous(e) ->
               Asks /\ UNCHANGED <<tracker, sound>>
         [] e.kind = "Gap" ->
               Asks /\ tracker' = [s \in Sessions |-> 0] /\ UNCHANGED sound
         [] OTHER ->
               /\ reader' = [reader EXCEPT !.open = FALSE]
               /\ UNCHANGED <<asking, tracker, sound>>
    /\ UNCHANGED <<venue, version, engineVars, spent>>

(* The broadcast channel dropped its oldest events. *)
Lags ==
    /\ reader.open
    /\ outbox # <<>>
    /\ Spend("restarts", MaxRestarts)
    /\ outbox' = Tail(outbox)
    /\ tracker' = [s \in Sessions |-> 0]
    /\ Asks
    /\ UNCHANGED <<venue, version, engineVars, sound>>

(* Nobody listens. *)
Unheard ==
    /\ ~reader.open
    /\ outbox # <<>>
    /\ outbox' = Tail(outbox)
    /\ UNCHANGED <<venue, version, engineVars, asking, clientVars, spent>>

(* The screen drops its depth_stream and makes a new one: Subscribe finds the
   stream running, the book starts empty, the tracker is that of the backend. *)
Rejoins ==
    /\ Spend("restarts", MaxRestarts)
    /\ reader' = NewReader
    /\ sound' = FALSE
    /\ UNCHANGED <<venue, version, engineVars, asking, outbox, tracker>>

-----------------------------------------------------------------------------
FetchEnds == FetchFails \/ \E n \in Versions : FetchAnswered(n)
AskEnds == AskFails \/ \E n \in Versions : AskAnswered(n)

DepthNext ==
    \/ Begins \/ Opens \/ Read \/ Confirmed \/ Triggered \/ ClosesOk \/ Breaks
    \/ FetchFails \/ AskFails \/ Receive \/ Lags \/ Unheard \/ Rejoins
    \/ \E n \in Versions : Publish(n) \/ FetchAnswered(n) \/ AskAnswered(n)
    \/ \E n \in Versions, s \in late : LateAnswered(s, n)

DepthSpec == DepthInit /\ [][DepthNext]_depthVars

DepthFairness ==
    /\ WF_depthVars(Begins) /\ WF_depthVars(Opens)
    /\ WF_depthVars(Read) /\ WF_depthVars(Confirmed) /\ WF_depthVars(Triggered)
    /\ WF_depthVars(FetchEnds) /\ WF_depthVars(AskEnds)
    /\ WF_depthVars(Receive) /\ WF_depthVars(Unheard)

DepthFairSpec == DepthSpec /\ DepthFairness

-----------------------------------------------------------------------------
(* The book on the screen is the exchange's book at the version shown with
   it, it is set back by snapshots only, and differences move it forward:
   what the syncers emit and what the tracker accepts fit together, through
   gaps, overflows of the queue, reconnections and snapshots of REST that
   arrive late, from the first snapshot of a depth_stream on.              *)
FollowsMarket == Market!Spec

(* engine-client/src/backend.rs: "Force a snapshot resync so we never serve a
   corrupted book".  What a depth_stream shows is a book the exchange had. *)
NeverCorrupted ==
    reader.seq # 0 => reader.book = Market!BookAt(reader.seq)

(* The connections of the run are used up, or Bybit, asked to reconnect, waits
   for the frame at which it looks: a quiet ticker stays as it is.         *)
Exhausted ==
    \/ syncer.ssid = MaxSessions
    \/ trigger /\ wire = <<>>

(* A depth_stream that refused a difference, was told of a gap or lagged is
   shown a snapshot again, or told that its stream ended.                  *)
RefusedIsServed == reader.waiting ~> (~reader.waiting \/ ~reader.open \/ Exhausted)
=============================================================================
