------------------------------ MODULE OrderWal ------------------------------
(***************************************************************************)
(* The write-ahead log of live Tachibana orders, tachibana_orders.jsonl:   *)
(* submit_order (python/engine/exchanges/tachibana_orders.py) called from  *)
(* _do_submit_order_inner (python/engine/server.py) writes it, and         *)
(* has_wal_in_flight_orders_at (src/main.rs), as detect_in_flight_orders   *)
(* (python/engine/wal_in_flight.py), reads it to tell whether an order is  *)
(* in flight, which forbids the switch from live to replay.                *)
(*                                                                         *)
(* The file is a sequence of pieces, one for each write that reached it:   *)
(* a whole line, or what a failed write or a power loss left of one.  A    *)
(* piece without its newline is glued to the piece appended after it.      *)
(*                                                                         *)
(* The submit line is written and synced before the first await of a       *)
(* submission, so that this is one step; the request to the venue, what    *)
(* the venue does with it and the answer are steps of their own, between   *)
(* which other submissions run, the engine dies, the machine loses power   *)
(* or the Japanese day ends.                                               *)
(***************************************************************************)
EXTENDS Naturals, Sequences

CONSTANTS
    Orders,     \* SubmitOrder commands that reach the engine
    Ids,        \* values of client_order_id
    MaxDay      \* bound: days after the first

ASSUME WalAssumption == MaxDay \in Nat

(* new: not received; sent: awaits the answer of the venue; done: answered
   to the client; gone: the engine died meanwhile.                         *)
Stages == {"new", "sent", "done", "gone"}

(* none: no request; pending: under way, for ever if it is lost; live: can be
   executed; refused; settled: executed, cancelled or expired.             *)
VenueStates == {"none", "pending", "live", "refused", "settled"}

(* OrderAccepted, a rejection that names the venue's reason, one that says
   the order was not sent, or one that says only that no answer was had.   *)
Answers == {"nothing", "accepted", "rejected", "notSubmitted", "noAnswer"}

VARIABLES
    wal,        \* pieces of tachibana_orders.jsonl
    synced,     \* how many of them a power loss cannot take
    stage,      \* the submission of each order
    venue,      \* external: the order at the venue
    told,       \* the event that ends the submission for the client
    id,         \* client_order_id of each order, chosen by its client
    goodTill,   \* DAY, or GTD for an order that outlives its day
    day         \* days since the first, in Japan

vars == <<wal, synced, stage, venue, told, id, goodTill, day>>

Piece == [order : Orders, phase : {"submit", "accepted", "rejected"},
          day : 0 .. MaxDay, whole : BOOLEAN, ended : BOOLEAN]

TypeOK ==
    /\ wal \in Seq(Piece)
    /\ synced \in 0 .. Len(wal)
    /\ stage \in [Orders -> Stages]
    /\ venue \in [Orders -> VenueStates]
    /\ told \in [Orders -> Answers]
    /\ id \in [Orders -> Ids]
    /\ goodTill \in [Orders -> {"DAY", "GTD"}]
    /\ day \in 0 .. MaxDay

-----------------------------------------------------------------------------
(* The file.                                                                *)

(* The line of phase p that is written for o now.                           *)
Line(o, p) == [order |-> o, phase |-> p, day |-> day, whole |-> TRUE, ended |-> TRUE]

(* A piece cut before its end: without the newline at least.                *)
Cut(l) == {[l EXCEPT !.whole = w, !.ended = FALSE] : w \in {FALSE, l.whole}}

(* What a write that raises OSError may have left of line l: write and flush
   of it fail before, within or after it, fsync after it.                   *)
LeftOf(l) == {<<>>, <<l>>} \cup {<<c>> : c \in Cut(l)}

(* Faulty variant: the file is opened with "w".                             *)
Truncated(ps) == ps

(* The file opened with "a", after ps is written to it.                     *)
Appended(ps) == wal \o ps

(* The readers skip a line that is not JSON: one cut short, or a whole line
   glued to a piece left before it.  They do read the last one without \n. *)
Readable(i) ==
    /\ wal[i].whole
    /\ i > 1 => wal[i - 1].ended
    /\ i < Len(wal) => wal[i].ended

(* Lines with client_order_id c whose ts is not before midnight.            *)
TodaysLines(c) ==
    {i \in 1 .. Len(wal) : Readable(i) /\ id[wal[i].order] = c /\ wal[i].day >= day}

(* Faulty variant: an accepted order counts as over.                        *)
Answered == {"rejected", "accepted"}

Terminal == {"rejected"}

(* The ids whose last line of today is not terminal: from some line on, none
   is.                                                                      *)
InFlight ==
    {c \in Ids : \E i \in TodaysLines(c) :
        \A j \in TodaysLines(c) : j >= i => wal[j].phase \notin Terminal}

-----------------------------------------------------------------------------
Init ==
    /\ wal = <<>>
    /\ synced = 0
    /\ stage = [o \in Orders |-> "new"]
    /\ venue = [o \in Orders |-> "none"]
    /\ told = [o \in Orders |-> "nothing"]
    /\ id \in [Orders -> Ids]
    /\ goodTill \in [Orders -> {"DAY", "GTD"}]
    /\ day = 0

Ends(o, answer) ==
    /\ stage' = [stage EXCEPT ![o] = "done"]
    /\ told' = [told EXCEPT ![o] = answer]

(* Faulty variant: the submit line is flushed but not synced.               *)
FlushSubmit(o) == wal' = Appended(<<Line(o, "submit")>>) /\ synced' = synced

(* _audit_log_submit: write, flush and fsync, which syncs all of the file.  *)
LogSubmit(o) ==
    /\ wal' = Appended(<<Line(o, "submit")>>)
    /\ synced' = Len(wal')

(* The command is refused before the log: engine not connected to the venue,
   order not supported, password missing or locked out, no session, prod URL. *)
RefuseEarly(o) ==
    /\ stage[o] = "new"
    /\ Ends(o, "notSubmitted")
    /\ UNCHANGED <<wal, synced, venue, id, goodTill, day>>

(* The submit line is logged and the request is under way.                  *)
Submit(o) ==
    /\ stage[o] = "new"
    /\ LogSubmit(o)
    /\ stage' = [stage EXCEPT ![o] = "sent"]
    /\ venue' = [venue EXCEPT ![o] = "pending"]
    /\ UNCHANGED <<told, id, goodTill, day>>

(* mkdir, open, write, flush or fsync raises OSError: nothing is sent.      *)
SubmitNotLogged(o) ==
    /\ stage[o] = "new"
    /\ \E ps \in LeftOf(Line(o, "submit")) : wal' = Appended(ps)
    /\ Ends(o, "notSubmitted")
    /\ UNCHANGED <<synced, venue, id, goodTill, day>>

(* The line the venue's answer to o calls for.                              *)
AnswerLine(o) == Line(o, IF venue[o] = "refused" THEN "rejected" ELSE "accepted")

(* The answer arrives; its line is flushed, not synced.                     *)
VenueAnswers(o) ==
    /\ stage[o] = "sent"
    /\ venue[o] \in {"live", "refused", "settled"}
    /\ wal' = Appended(<<AnswerLine(o)>>)
    /\ Ends(o, IF venue[o] = "refused" THEN "rejected" ELSE "accepted")
    /\ UNCHANGED <<synced, venue, id, goodTill, day>>

(* The answer arrives, its line raises OSError: the handler of the OSError of
   the submit line answers the client.                                      *)
AnswerNotLogged(o) ==
    /\ stage[o] = "sent"
    /\ venue[o] \in {"live", "refused", "settled"}
    /\ \E ps \in LeftOf(AnswerLine(o)) : wal' = Appended(ps)
    /\ Ends(o, "notSubmitted")
    /\ UNCHANGED <<synced, venue, id, goodTill, day>>

(* Connection error, timeout of 30 s, HTTP error, undecodable answer, or the
   task is cancelled; the venue may have taken the order all the same.      *)
NoAnswer(o) ==
    /\ stage[o] = "sent"
    /\ Ends(o, "noAnswer")
    /\ UNCHANGED <<wal, synced, venue, id, goodTill, day>>

(* External: the venue takes or refuses the order, whoever waits for it.    *)
VenueDecides(o, v) ==
    /\ venue[o] = "pending"
    /\ venue' = [venue EXCEPT ![o] = v]
    /\ UNCHANGED <<wal, synced, stage, told, id, goodTill, day>>

(* External: the order is executed, or cancelled.                           *)
VenueSettles(o) ==
    /\ venue[o] = "live"
    /\ venue' = [venue EXCEPT ![o] = "settled"]
    /\ UNCHANGED <<wal, synced, stage, told, id, goodTill, day>>

Submission(o) ==
    \/ RefuseEarly(o) \/ Submit(o) \/ SubmitNotLogged(o)
    \/ VenueAnswers(o) \/ AnswerNotLogged(o) \/ NoAnswer(o)

AtVenue(o) == VenueSettles(o) \/ \E v \in {"live", "refused"} : VenueDecides(o, v)

AllGone == stage' = [o \in Orders |-> IF stage[o] = "sent" THEN "gone" ELSE stage[o]]

(* The engine dies: every line was flushed by the write that made it.       *)
EngineDies ==
    /\ \E o \in Orders : stage[o] = "sent"
    /\ AllGone
    /\ UNCHANGED <<wal, synced, venue, told, id, goodTill, day>>

(* The machine loses power: a prefix of the file is left, the synced part at
   least, and perhaps some of the piece after it.                           *)
PowerLoss ==
    /\ \E k \in synced .. Len(wal) :
        \/ wal' = SubSeq(wal, 1, k)
        \/ /\ k < Len(wal)
           /\ \E c \in Cut(wal[k + 1]) : wal' = SubSeq(wal, 1, k) \o <<c>>
    /\ synced' = Len(wal')
    /\ AllGone
    /\ UNCHANGED <<venue, told, id, goodTill, day>>

(* Midnight in Japan; external: the orders of the day expire.               *)
NewDay ==
    /\ day < MaxDay
    /\ day' = day + 1
    /\ venue' = [o \in Orders |->
                    IF venue[o] = "live" /\ goodTill[o] = "DAY" THEN "settled" ELSE venue[o]]
    /\ UNCHANGED <<wal, synced, stage, told, id, goodTill>>

Next ==
    \/ \E o \in Orders : Submission(o) \/ AtVenue(o)
    \/ EngineDies \/ PowerLoss \/ NewDay

Spec == Init /\ [][Next]_vars

-----------------------------------------------------------------------------
(* Properties.                                                              *)

(* No request without a durable record: whatever dies and whenever, the whole
   submit line of an order that may be at the venue is on stable storage
   ("fsync 失敗時は OSError を raise ... HTTP 送信を行わせない").           *)
SentIsLogged ==
    \A o \in Orders : venue[o] # "none" =>
        \E i \in 1 .. synced :
            /\ wal[i].order = o /\ wal[i].phase = "submit"
            /\ wal[i].whole /\ wal[i].ended

(* Nothing that happens later, be it a write that fails half way or a power
   loss, changes a synced line that ends in its newline, or hides it from the
   readers.                                                                 *)
SyncedStaysReadable ==
    [][\A i \in 1 .. synced : wal[i].ended =>
        /\ i <= Len(wal') /\ wal'[i] = wal[i]
        /\ Readable(i) => Readable(i)']_vars

(* No other order that was taken up has the client_order_id of o.           *)
OwnId(o) == \A p \in Orders \ {o} : id[p] = id[o] => stage[p] = "new"

(* The gate of the mode switch sees an order that can still be executed, as
   long as one line of today names it readably and no other order has its
   client_order_id: whether its answer came, was lost or was not logged, and
   whatever restarts there were (has_wal_in_flight_orders_at).              *)
LiveIsInFlight ==
    \A o \in Orders :
        /\ venue[o] \in {"pending", "live"}
        /\ OwnId(o)
        /\ \E i \in TodaysLines(id[o]) : wal[i].order = o
        => id[o] \in InFlight

-----------------------------------------------------------------------------
(* The inductive invariant.  It adds what the file says of the orders: a line
   is of an order that was taken up, and a rejected line, be it cut short, of
   one the venue refused.                                                   *)
LinesOwned == \A i \in 1 .. Len(wal) : stage[wal[i].order] # "new"

RejectedRefused ==
    \A i \in 1 .. Len(wal) : wal[i].phase = "rejected" => venue[wal[i].order] = "refused"

NewUnsent == \A o \in Orders : stage[o] = "new" => venue[o] = "none"

IInv == TypeOK /\ SentIsLogged /\ LinesOwned /\ RejectedRefused /\ NewUnsent

-----------------------------------------------------------------------------
(* Statements of the documentation the code does not keep.                  *)

(* docs/specs/order.md:878: an order that cannot be written to the WAL is not
   sent to the venue, so that the readers find the submit line of every order
   that was sent.                                                           *)
SentIsReadable ==
    \A o \in Orders : venue[o] # "none" =>
        \E i \in 1 .. Len(wal) :
            wal[i].order = o /\ wal[i].phase = "submit" /\ Readable(i)

(* src/main.rs:322: an order whose accepted line is of an earlier day is
   settled at the venue.                                                    *)
OldOrdersSettled ==
    \A i \in 1 .. Len(wal) :
        Readable(i) /\ wal[i].phase = "accepted" /\ wal[i].day < day
            => venue[wal[i].order] # "live"

(* python/engine/server.py:1847: an order whose client is told that it was
   not submitted is not at the venue.                                       *)
NotSubmittedIsTrue ==
    \A o \in Orders : told[o] = "notSubmitted" => venue[o] \notin {"live", "settled"}

(* docs/specs/order.md:111: a command sent again with its client_order_id
   yields the order there is, so that one order at most is live for an id.  *)
OneOrderPerId ==
    \A o, p \in Orders :
        o # p /\ id[o] = id[p] => ~(venue[o] = "live" /\ venue[p] = "live")
=============================================================================
