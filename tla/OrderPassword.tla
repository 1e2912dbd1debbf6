--------------------------- MODULE OrderPassword ---------------------------
(***************************************************************************)
(* The password an order carries (TachibanaSessionHolder in                *)
(* python/engine/exchanges/tachibana_auth.py, KabuTradePasswordHolder in   *)
(* kabusapi_auth.py, KabuOrderClient in kabusapi_orders.py and the order   *)
(* commands of server.py).                                                 *)
(*                                                                         *)
(* The user types the second password of Tachibana before an order, and    *)
(* the trade password of kabu STATION into a dialog the first order opens. *)
(* A holder keeps it between orders, forgets it after a time without use   *)
(* and, after three refusals in a row, locks order entry for a time.  An   *)
(* order takes the password along when it starts; the broker's answer      *)
(* reaches the holder later, when other orders are under way and the user  *)
(* may have typed another one.                                             *)
(*                                                                         *)
(* Every entry the user makes is a number of its own; right holds those    *)
(* that are the password.  Time passes in steps, of which Idle make the 30 *)
(* minutes after which a holder forgets and Lockout those of a lockout.    *)
(* A command stands for SubmitOrder, ModifyOrder, CancelOrder or           *)
(* CancelAllOrders of Tachibana, and for a stock order of kabu STATION:    *)
(* its cancellations, futures and options carry no password.               *)
(***************************************************************************)
EXTENDS Naturals, Sequences, SequencesExt, FiniteSets

CONSTANTS
    Orders,       \* commands that may be under way at a time
    MaxEntries,   \* bound: what the user types
    MaxClients,   \* bound: KabuOrderClient objects
    MaxMisses,    \* max_retries of a holder, 3
    Idle,         \* idle_forget_minutes
    Lockout,      \* lockout_secs
    Tachibana, Kabu

ASSUME PasswordAssumption ==
    /\ MaxEntries \in Nat /\ MaxClients \in Nat \ {0}
    /\ MaxMisses \in Nat \ {0} /\ Idle \in Nat \ {0} /\ Lockout \in Nat \ {0}
    /\ Tachibana # Kabu

Entries == 1 .. MaxEntries
NoEntry == 0
Clients == 1 .. MaxClients
Unused == Idle + 1      \* _last_use_time is None

VARIABLES
    venue,        \* the broker of this behaviour
    right,        \* the entries that are the password
    typed,        \* entries made so far
    session,      \* the broker is logged in
    holder,       \* a TachibanaSessionHolder or KabuTradePasswordHolder per object
    current,      \* the order client in use
    holderOf,     \* the holder each order client was given
    queue,        \* _dialog_lock of each order client: its head owns it
    pc,           \* where each command is
    carried,      \* the password it took along
    client,       \* the order client it uses
    refused,      \* history: entries the broker has refused
    streak        \* history: refusals in a row, per holder

world == <<venue, right>>
vars == <<venue, right, typed, session, holder, current, holderOf, queue, pc,
          carried, client, refused, streak>>

Waiting == {"queued", "dialog"}
UnderWay == {"listing", "sent", "sentAll"}

TypeOK ==
    /\ venue \in {Tachibana, Kabu}
    /\ right \in SUBSET Entries
    /\ typed \in 0 .. MaxEntries
    /\ session \in BOOLEAN
    /\ holder \in [Clients -> [password : 0 .. MaxEntries, age : 0 .. Unused,
                               misses : Nat, locked : BOOLEAN, left : 0 .. Lockout]]
    /\ current \in Clients
    /\ holderOf \in [Clients -> Clients]
    /\ queue \in [Clients -> Seq(Orders)]
    /\ pc \in [Orders -> {"idle"} \cup Waiting \cup UnderWay]
    /\ carried \in [Orders -> 0 .. MaxEntries]
    /\ client \in [Orders -> Clients]
    /\ refused \in SUBSET Entries
    /\ streak \in [Clients -> Nat]

Fresh == [password |-> NoEntry, age |-> Unused, misses |-> 0, locked |-> FALSE, left |-> 0]

(* From the first login of kabu STATION, or the start of the engine. *)
Init ==
    /\ venue \in {Tachibana, Kabu}
    /\ right \in SUBSET Entries
    /\ typed = 0
    /\ session = (venue = Kabu)
    /\ holder = [c \in Clients |-> Fresh]
    /\ current = 1
    /\ holderOf = [c \in Clients |-> 1]
    /\ queue = [c \in Clients |-> << >>]
    /\ pc = [o \in Orders |-> "idle"]
    /\ carried = [o \in Orders |-> NoEntry]
    /\ client = [o \in Orders |-> 1]
    /\ refused = {}
    /\ streak = [c \in Clients |-> 0]

-----------------------------------------------------------------------------
(* The methods of a holder h. *)

(* touch *)
Touched(h) == [h EXCEPT !.age = 0]

(* get_password: an idle holder forgets. *)
Got(h) == IF h.age = Idle THEN [h EXCEPT !.password = NoEntry, !.age = Unused] ELSE h

(* set_password *)
Set(h, e) == Touched([h EXCEPT !.password = e])

(* is_locked_out, and what it leaves: the lockout that is over is dropped;
   only kabu STATION then forgives the refusals.                           *)
LockedOut(h) == h.locked /\ h.left > 0
Probed(h) ==
    IF h.locked /\ h.left = 0
    THEN [h EXCEPT !.locked = FALSE,
                   !.misses = IF venue = Kabu THEN 0 ELSE h.misses]
    ELSE h

(* Faulty variant: the password is kept until the lockout. *)
KeptUntilLocked(h) ==
    LET counted == [h EXCEPT !.misses = h.misses + 1]
    IN  IF counted.misses >= MaxMisses
        THEN [counted EXCEPT !.password = NoEntry, !.locked = TRUE, !.left = Lockout]
        ELSE counted

(* on_invalid; kabu STATION also drops the time of the last use. *)
Invalid(h) ==
    LET counted == [h EXCEPT !.password = NoEntry, !.misses = h.misses + 1,
                             !.age = IF venue = Kabu THEN Unused ELSE h.age]
    IN  IF counted.misses >= MaxMisses
        THEN [counted EXCEPT !.locked = TRUE, !.left = Lockout]
        ELSE counted

(* Faulty variant: the refusals before a success are kept. *)
MissesKept(h) == h

(* on_submit_success *)
Succeeded(h) == [h EXCEPT !.misses = 0]

(* clear *)
Cleared(h) == [h EXCEPT !.password = NoEntry, !.age = Unused]

Mine(o) == IF venue = Tachibana THEN 1 ELSE holderOf[client[o]]

(* A lock's queue q without o, which waits in it or holds it: a command waits
   once.                                                                    *)
Without(q, o) ==
    IF o \in ToSet(q) THEN RemoveAt(q, CHOOSE i \in DOMAIN q : q[i] = o) ELSE q

(* Command o ends, taking itself off the dialog lock. *)
Ends(o) ==
    /\ pc' = [pc EXCEPT ![o] = "idle"]
    /\ queue' = [c \in Clients |-> Without(queue[c], o)]

(* Command o leaves with entry e. *)
Leaves(o, e, where) ==
    /\ pc' = [pc EXCEPT ![o] = where]
    /\ carried' = [carried EXCEPT ![o] = e]
    /\ queue' = [c \in Clients |-> Without(queue[c], o)]

-----------------------------------------------------------------------------
(* Time and the client. *)

Tick ==
    /\ holder' = [c \in Clients |->
          [holder[c] EXCEPT
              !.age = IF @ \in {Idle, Unused} THEN @ ELSE @ + 1,
              !.left = IF @ = 0 THEN 0 ELSE @ - 1]]
    /\ holder' # holder
    /\ UNCHANGED <<world, typed, session, current, holderOf, queue, pc, carried,
                   client, refused, streak>>

SetSecondPassword ==
    /\ venue = Tachibana
    /\ typed < MaxEntries
    /\ typed' = typed + 1
    /\ holder' = [holder EXCEPT ![1] = Set(@, typed + 1)]
    /\ UNCHANGED <<world, session, current, holderOf, queue, pc, carried, client, refused, streak>>

(* ForgetSecondPassword and a logout clear the holder at once; so does any
   other request that finds the session expired.  Orders under way go on.  *)
ForgetSecondPassword ==
    /\ venue = Tachibana
    /\ holder' = [holder EXCEPT ![1] = Cleared(@)]
    /\ UNCHANGED <<world, typed, session, current, holderOf, queue, pc, carried, client, refused, streak>>

(* StartEngine of a live strategy asks the holder without touching it. *)
StrategyAsks ==
    /\ venue = Tachibana /\ session
    /\ holder' = [holder EXCEPT ![1] = Got(@)]
    /\ UNCHANGED <<world, typed, session, current, holderOf, queue, pc, carried, client, refused, streak>>

(* A login of kabu STATION makes the object with its holder unless there is
   one; the next order makes a new order client.                           *)
Login ==
    /\ IF venue = Tachibana
       THEN ~session /\ UNCHANGED <<current, holderOf>>
       ELSE /\ current < MaxClients
            /\ current' = current + 1
            /\ holderOf' = [holderOf EXCEPT ![current + 1] =
                              IF session THEN holderOf[current] ELSE current + 1]
    /\ session' = TRUE
    /\ UNCHANGED <<world, typed, holder, queue, pc, carried, client, refused, streak>>

-----------------------------------------------------------------------------
(* Commands of Tachibana. *)

(* The command stops short of the broker: locked out, not logged in, no
   password, or a change that does not parse.  Only the last two, and
   SubmitOrder without a session, have touched the holder.                 *)
TachibanaStops ==
    /\ venue = Tachibana
    /\ LET h == Probed(holder[1])
       IN  \/ holder' = [holder EXCEPT ![1] = h]
           \/ ~LockedOut(h) /\ holder' = [holder EXCEPT ![1] = Touched(h)]
    /\ UNCHANGED <<world, typed, session, current, holderOf, queue, pc, carried, client, refused, streak>>

(* touch() and then get_password(). *)
TachibanaStarts(o) ==
    /\ venue = Tachibana /\ session /\ pc[o] = "idle"
    /\ ~LockedOut(holder[1])
    /\ holder[1].password # NoEntry
    /\ holder' = [holder EXCEPT ![1] = Got(Touched(Probed(@)))]
    /\ \E where \in {"sent", "listing"} : Leaves(o, holder'[1].password, where)
    /\ UNCHANGED <<world, typed, session, current, holderOf, client, refused, streak>>

(* CancelAllOrders has the list of orders: there are some to cancel, or the
   command has succeeded.                                                  *)
ListAnswered(o) ==
    /\ pc[o] = "listing"
    /\ \/ /\ pc' = [pc EXCEPT ![o] = "sentAll"]
          /\ UNCHANGED <<holder, queue>>
       \/ /\ Ends(o)
          /\ holder' = [holder EXCEPT ![1] = Succeeded(@)]
       \/ /\ Ends(o)
          /\ holder' = [holder EXCEPT ![1] = Cleared(@)]   \* the session has expired
       \/ /\ Ends(o)
          /\ UNCHANGED holder                              \* the request failed
    /\ UNCHANGED <<world, typed, session, current, holderOf, carried, client, refused, streak>>

-----------------------------------------------------------------------------
(* Orders of kabu STATION. *)

(* The handler and _ensure_trade_password look for a lockout; without a
   password the order takes its turn for the dialog lock.                  *)
KabuStarts(o) ==
    /\ venue = Kabu /\ session /\ pc[o] = "idle"
    /\ client' = [client EXCEPT ![o] = current]
    /\ LET at == holderOf[current]
           h == Got(Probed(holder[at]))
       IN  /\ ~LockedOut(holder[at])
           /\ IF h.password # NoEntry
              THEN /\ holder' = [holder EXCEPT ![at] = Touched(h)]
                   /\ Leaves(o, h.password, "sent")
              ELSE /\ holder' = [holder EXCEPT ![at] = h]
                   /\ pc' = [pc EXCEPT ![o] = "queued"]
                   /\ queue' = [queue EXCEPT ![current] = Append(@, o)]
                   /\ UNCHANGED carried
    /\ UNCHANGED <<world, typed, session, current, holderOf, refused, streak>>

(* Faulty variant: the password is not looked for again under the lock. *)
NoDoubleCheck(o) ==
    /\ pc[o] = "queued"
    /\ Head(queue[client[o]]) = o
    /\ pc' = [pc EXCEPT ![o] = "dialog"]
    /\ UNCHANGED <<world, typed, session, holder, current, holderOf, queue, carried,
                   client, refused, streak>>

(* The lock is had: the order before may have brought the password. *)
LockAcquired(o) ==
    /\ pc[o] = "queued"
    /\ Head(queue[client[o]]) = o
    /\ LET at == Mine(o)
           h == Got(holder[at])
       IN  IF h.password # NoEntry
           THEN /\ holder' = [holder EXCEPT ![at] = Touched(h)]
                /\ Leaves(o, h.password, "sent")
           ELSE /\ holder' = [holder EXCEPT ![at] = h]
                /\ pc' = [pc EXCEPT ![o] = "dialog"]
                /\ UNCHANGED <<queue, carried>>
    /\ UNCHANGED <<world, typed, session, current, holderOf, client, refused, streak>>

DialogAnswered(o) ==
    /\ pc[o] = "dialog"
    /\ typed < MaxEntries
    /\ typed' = typed + 1
    /\ holder' = [holder EXCEPT ![Mine(o)] = Set(@, typed + 1)]
    /\ Leaves(o, typed + 1, "sent")
    /\ UNCHANGED <<world, session, current, holderOf, client, refused, streak>>

(* Faulty variant: a cancelled dialog does not give the lock back. *)
LockKept(o) ==
    /\ pc[o] = "dialog"
    /\ pc' = [pc EXCEPT ![o] = "idle"]
    /\ UNCHANGED <<world, typed, session, holder, current, holderOf, queue, carried,
                   client, refused, streak>>

DialogCancelled(o) ==
    /\ pc[o] = "dialog"
    /\ Ends(o)
    /\ UNCHANGED <<world, typed, session, holder, current, holderOf, carried,
                   client, refused, streak>>

-----------------------------------------------------------------------------
(* The answers. *)

Refused(o) ==
    /\ pc[o] \in {"sent", "sentAll"}
    /\ carried[o] \notin right
    /\ Ends(o)
    /\ holder' = [holder EXCEPT ![Mine(o)] = Invalid(@)]
    /\ refused' = refused \cup {carried[o]}
    /\ streak' = [streak EXCEPT ![Mine(o)] = @ + 1]
    /\ UNCHANGED <<world, typed, session, current, holderOf, carried, client>>

Accepted(o) ==
    /\ pc[o] \in {"sent", "sentAll"}
    /\ carried[o] \in right
    /\ Ends(o)
    /\ holder' = [holder EXCEPT ![Mine(o)] = Succeeded(@)]
    /\ streak' = [streak EXCEPT ![Mine(o)] = 0]
    /\ UNCHANGED <<world, typed, session, current, holderOf, carried, client, refused>>

(* Any other failure, and a task the leaving client's cleanup cancels, leave
   the holder alone.  A single failed cancellation does not end
   CancelAllOrders, which succeeds with what it has counted.               *)
FailsOtherwise(o) ==
    /\ pc[o] # "idle"
    /\ Ends(o)
    /\ \/ UNCHANGED holder
       \/ /\ pc[o] = "sentAll"
          /\ holder' = [holder EXCEPT ![1] = Succeeded(@)]
    /\ UNCHANGED <<world, typed, session, current, holderOf, carried, client, refused, streak>>

(* Tachibana's session has expired: the password is cleared.  kabu
   STATION's token has, or its application does not answer: the server
   drops the object with its holder.                                       *)
SessionExpired(o) ==
    /\ pc[o] \in {"sent", "sentAll"}
    /\ Ends(o)
    /\ IF venue = Tachibana
       THEN /\ holder' = [holder EXCEPT ![1] = Cleared(@)]
            /\ UNCHANGED session
       ELSE /\ holder' = [holder EXCEPT ![holderOf[current]] = Cleared(@)]
            /\ session' = FALSE
    /\ UNCHANGED <<world, typed, current, holderOf, carried, client, refused, streak>>

Next ==
    \/ Tick \/ SetSecondPassword \/ ForgetSecondPassword \/ StrategyAsks
    \/ Login \/ TachibanaStops
    \/ \E o \in Orders :
          \/ TachibanaStarts(o) \/ ListAnswered(o)
          \/ KabuStarts(o) \/ LockAcquired(o) \/ DialogAnswered(o) \/ DialogCancelled(o)
          \/ Refused(o) \/ Accepted(o) \/ FailsOtherwise(o) \/ SessionExpired(o)

Spec == Init /\ [][Next]_vars

(* The lock passes on, the user closes every dialog, and the broker answers
   or the request times out.                                               *)
Fairness == \A o \in Orders :
    /\ WF_vars(LockAcquired(o))
    /\ WF_vars(DialogAnswered(o) \/ DialogCancelled(o))
    /\ WF_vars(ListAnswered(o))
    /\ WF_vars(Refused(o) \/ Accepted(o) \/ (pc[o] \notin Waiting /\ FailsOtherwise(o)))

FairSpec == Spec /\ Fairness

-----------------------------------------------------------------------------
(* Properties. *)

(* An entry the broker has refused is not held any more, whatever was typed
   and answered in between: no later order starts with it.                 *)
RefusedNotHeld == \A c \in Clients : holder[c].password \notin refused

(* A holder never counts more refusals than the broker has given since the
   last success: a lockout is never due to refusals before a success.      *)
MissesAreConsecutive == \A c \in Clients : holder[c].misses <= streak[c]

(* While a dialog of kabu STATION asks for the password, there is none:
   orders sent together open one dialog.  A login in between gives the
   orders after it a lock of their own; they are left out.                 *)
DialogOnlyWithout ==
    \A o \in Orders :
        /\ pc[o] = "dialog"
        /\ \A c \in Clients : c # client[o] => holderOf[c] # Mine(o) \/ c > current
        => holder[Mine(o)].password = NoEntry

(* Every command ends, also those that wait for another's dialog. *)
CommandsEnd == \A o \in Orders : pc[o] # "idle" ~> pc[o] = "idle"

(* Refuted for Tachibana: "idle_forget_minutes 経過で自動 None 化"
   (tachibana_auth.py).  No order starts with a password that was idle.    *)
IdleNotUsed ==
    [][\A o \in Orders : pc[o] = "idle" /\ pc'[o] \in UnderWay
                             => holder[Mine(o)'].age < Idle]_vars

(* Refuted for kabu STATION: what waits for the dialog or its lock is sent
   during a lockout.                                                       *)
NoOrderInLockout ==
    [][\A o \in Orders : pc[o] \notin UnderWay /\ pc'[o] \in UnderWay
                             => ~LockedOut(holder[Mine(o)'])]_vars

(* Refuted: clear() keeps the lockout, but after an expired token the next
   login brings a new holder without it.                                   *)
LockoutOutlastsLogin ==
    [][LockedOut(holder[holderOf[current]])
          => (holder[holderOf[current]].left > 1 => LockedOut(holder[holderOf[current]]'))
             /\ (holderOf[current])' = holderOf[current]]_vars

(* Refuted: one wrong entry in three orders under way at a time locks order
   entry out, without the user having mistyped three times.                *)
LockoutTakesEntries ==
    \A c \in Clients : LockedOut(holder[c]) => Cardinality(refused) >= MaxMisses

(* Refuted: an entry of the user is not lost to the refusal of another. *)
OwnRefusalOnly ==
    [][\A o \in Orders : Refused(o) => holder[Mine(o)].password \in {NoEntry, carried[o]}]_vars

(* Refuted: CancelAllOrders with nothing to cancel forgives the refusals
   although no request has carried the password.                           *)
ForgivenOnlyByBroker ==
    [][\A o \in Orders : ListAnswered(o) => holder'[1].misses = holder[1].misses]_vars
=============================================================================
