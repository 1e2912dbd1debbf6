------------------------- MODULE OrderPasswordProofs -------------------------
(* Proofs about OrderPassword, for any number of commands, entries, order
   clients, refusals and ticks.  What is held and refused does not depend on
   the queues of the dialog lock; what a dialog asks for does.              *)
EXTENDS OrderPassword, SequenceTheorems, TLAPS

USE DEF NoEntry

Holders == [password : 0 .. MaxEntries, age : 0 .. Unused,
            misses : Nat, locked : BOOLEAN, left : 0 .. Lockout]

Types ==
    /\ venue \in {Tachibana, Kabu}
    /\ typed \in 0 .. MaxEntries
    /\ holder \in [Clients -> Holders]
    /\ current \in Clients
    /\ holderOf \in [Clients -> Clients]
    /\ pc \in [Orders -> {"idle"} \cup Waiting \cup UnderWay]
    /\ carried \in [Orders -> 0 .. MaxEntries]
    /\ client \in [Orders -> Clients]
    /\ streak \in [Clients -> Nat]

(* What was typed is what can be held and refused. *)
OfTyped ==
    /\ \A c \in Clients : holder[c].password <= typed
    /\ refused \subseteq 1 .. typed

(* An order client in use keeps its holder. *)
ClientsMade == \A o \in Orders : client[o] <= current

(* An entry is held by one holder, and an order under way carries an entry
   that only its own holder may hold: a refusal reaches whoever holds it.   *)
HeldOnce == \A c, d \in Clients : holder[c].password = holder[d].password /\ c # d => holder[c].password = 0
CarriesOwn ==
    \A o \in Orders : pc[o] \in UnderWay =>
        /\ carried[o] \in 1 .. typed
        /\ \A c \in Clients : c # Mine(o) => holder[c].password # carried[o]

IInv == /\ Types /\ OfTyped /\ ClientsMade /\ HeldOnce /\ CarriesOwn
        /\ RefusedNotHeld /\ MissesAreConsecutive

-----------------------------------------------------------------------------
(* The methods of a holder: none brings a password but Set, and none adds a
   refusal but Invalid.                                                     *)

LEMMA Methods ==
    ASSUME NEW h \in Holders
    PROVE  /\ Touched(h) \in Holders /\ Touched(h).password = h.password /\ Touched(h).misses = h.misses
           /\ Got(h) \in Holders /\ Got(h).password \in {0, h.password} /\ Got(h).misses = h.misses
           /\ Probed(h) \in Holders /\ Probed(h).password = h.password /\ Probed(h).misses <= h.misses
           /\ Succeeded(h) \in Holders /\ Succeeded(h).password = h.password /\ Succeeded(h).misses = 0
           /\ Cleared(h) \in Holders /\ Cleared(h).password = 0 /\ Cleared(h).misses = h.misses
<1>1. 0 \in 0 .. Unused /\ Unused \in 0 .. Unused /\ 0 \in 0 .. MaxEntries /\ 0 \in Nat
  BY PasswordAssumption DEF Unused
<1>2. Touched(h) \in Holders /\ Touched(h).password = h.password /\ Touched(h).misses = h.misses
  BY <1>1 DEF Touched, Holders
<1>3. Got(h) \in Holders /\ Got(h).password \in {0, h.password} /\ Got(h).misses = h.misses
  BY <1>1 DEF Got, Holders
<1>4. Probed(h) \in Holders /\ Probed(h).password = h.password /\ Probed(h).misses <= h.misses
  <2>1. CASE h.locked /\ h.left = 0
    <3>1. Probed(h) = [h EXCEPT !.locked = FALSE, !.misses = IF venue = Kabu THEN 0 ELSE h.misses]
      BY <2>1 DEF Probed
    <3>2. (IF venue = Kabu THEN 0 ELSE h.misses) \in Nat /\ (IF venue = Kabu THEN 0 ELSE h.misses) <= h.misses
      BY DEF Holders
    <3> QED
      BY <3>1, <3>2 DEF Holders
  <2>2. CASE ~(h.locked /\ h.left = 0)
    BY <2>2 DEF Probed, Holders
  <2> QED
    BY <2>1, <2>2
<1>5. Succeeded(h) \in Holders /\ Succeeded(h).password = h.password /\ Succeeded(h).misses = 0
  BY <1>1 DEF Succeeded, Holders
<1>6. Cleared(h) \in Holders /\ Cleared(h).password = 0 /\ Cleared(h).misses = h.misses
  BY <1>1 DEF Cleared, Holders
<1> QED
  BY <1>2, <1>3, <1>4, <1>5, <1>6

LEMMA Setting ==
    ASSUME NEW h \in Holders, NEW e \in Entries
    PROVE  Set(h, e) \in Holders /\ Set(h, e).password = e /\ Set(h, e).misses = h.misses
<1>1. 0 \in 0 .. Unused /\ e \in 0 .. MaxEntries
  BY PasswordAssumption DEF Unused, Entries
<1> QED
  BY <1>1 DEF Set, Touched, Holders

LEMMA Refusing ==
    ASSUME NEW h \in Holders
    PROVE  Invalid(h) \in Holders /\ Invalid(h).password = 0 /\ Invalid(h).misses = h.misses + 1
<1> DEFINE age == IF venue = Kabu THEN Unused ELSE h.age
           counted == [h EXCEPT !.password = 0, !.misses = h.misses + 1, !.age = age]
<1>1. age \in 0 .. Unused /\ 0 \in 0 .. MaxEntries /\ Lockout \in 0 .. Lockout /\ h.misses + 1 \in Nat
  BY PasswordAssumption DEF Unused, Holders
<1>2. counted \in Holders /\ counted.password = 0 /\ counted.misses = h.misses + 1
  BY <1>1 DEF Holders
<1>3. Invalid(h) = IF counted.misses >= MaxMisses
                   THEN [counted EXCEPT !.locked = TRUE, !.left = Lockout] ELSE counted
  BY DEF Invalid
<1> HIDE DEF counted
<1> QED
  BY <1>1, <1>2, <1>3 DEF Holders

-----------------------------------------------------------------------------
(* The steps that bring no entry and no answer of the broker. *)

Weakens ==
    /\ holder' \in [Clients -> Holders]
    /\ \A c \in Clients : /\ holder'[c].password \in {0, holder[c].password}
                          /\ holder'[c].misses <= holder[c].misses

CommandTypes ==
    /\ current \in Clients
    /\ holderOf \in [Clients -> Clients]
    /\ pc \in [Orders -> {"idle"} \cup Waiting \cup UnderWay]
    /\ carried \in [Orders -> 0 .. MaxEntries]
    /\ client \in [Orders -> Clients]

LEMMA HolderSteps ==
    ASSUME IInv, Weakens, CommandTypes', ClientsMade', CarriesOwn',
           UNCHANGED <<venue, typed, refused, streak>>
    PROVE  IInv'
<1>1. Types'
  BY DEF IInv, Types, CommandTypes, Weakens
<1>2. OfTyped'
  BY PasswordAssumption DEF IInv, Types, OfTyped, Weakens
<1>3. HeldOnce'
  BY DEF IInv, HeldOnce, Weakens
<1>4. RefusedNotHeld'
  BY DEF IInv, Types, OfTyped, RefusedNotHeld, Weakens
<1>5. MissesAreConsecutive'
  BY DEF IInv, Types, MissesAreConsecutive, Weakens, Holders
<1> QED
  BY <1>1, <1>2, <1>3, <1>4, <1>5 DEF IInv

(* Nobody leaves for the broker. *)
Stays ==
    /\ UNCHANGED <<carried, client>>
    /\ pc' \in [Orders -> {"idle"} \cup Waiting \cup UnderWay]
    /\ \A o \in Orders : pc'[o] \in UnderWay => pc[o] \in UnderWay

LEMMA StayingSteps ==
    ASSUME IInv, Weakens, Stays, UNCHANGED <<venue, typed, refused, streak, current, holderOf>>
    PROVE  IInv'
<1>1. CommandTypes' /\ ClientsMade'
  BY DEF IInv, Types, ClientsMade, CommandTypes, Stays
<1>2. CarriesOwn'
  <2> SUFFICES ASSUME NEW o \in Orders, pc'[o] \in UnderWay
               PROVE  /\ carried'[o] \in 1 .. typed'
                      /\ \A c \in Clients : c # Mine(o)' => holder'[c].password # carried'[o]
    BY DEF CarriesOwn
  <2>1. /\ carried[o] \in 1 .. typed
        /\ \A c \in Clients : c # Mine(o) => holder[c].password # carried[o]
    BY DEF IInv, CarriesOwn, Stays
  <2>2. Mine(o)' = Mine(o) /\ carried'[o] = carried[o] /\ typed' = typed
    BY DEF Mine, Stays
  <2>3. 0 # carried[o]
    BY <2>1 DEF IInv, Types
  <2> QED
    BY <2>1, <2>2, <2>3 DEF Weakens
<1> QED
  BY <1>1, <1>2, HolderSteps

(* One holder changes by a method. *)
LEMMA OneWeakens ==
    ASSUME IInv, NEW at \in Clients, NEW h \in Holders,
           h.password \in {0, holder[at].password}, h.misses <= holder[at].misses,
           holder' = [holder EXCEPT ![at] = h]
    PROVE  Weakens
<1>1. holder \in [Clients -> Holders]
  BY DEF IInv, Types
<1>2. \A c \in Clients : holder[c].misses \in Nat
  BY <1>1 DEF Holders
<1> QED
  BY <1>1, <1>2 DEF Weakens

LEMMA MethodWeakens ==
    ASSUME IInv, NEW at \in Clients,
           \/ holder' = [holder EXCEPT ![at] = Cleared(holder[at])]
           \/ holder' = [holder EXCEPT ![at] = Got(holder[at])]
           \/ holder' = [holder EXCEPT ![at] = Succeeded(holder[at])]
    PROVE  Weakens
<1> DEFINE h == holder[at]
<1>1. h \in Holders /\ h.misses \in Nat
  BY DEF IInv, Types, Holders
<1> HIDE DEF h
<1>2. /\ Cleared(h) \in Holders /\ Cleared(h).password \in {0, h.password} /\ Cleared(h).misses <= h.misses
      /\ Got(h) \in Holders /\ Got(h).password \in {0, h.password} /\ Got(h).misses <= h.misses
      /\ Succeeded(h) \in Holders /\ Succeeded(h).password \in {0, h.password} /\ Succeeded(h).misses <= h.misses
  BY <1>1, Methods
<1> QED
  BY <1>2, OneWeakens DEF h

LEMMA SameWeakens == ASSUME IInv, UNCHANGED holder PROVE Weakens
<1>1. \A c \in Clients : holder[c].misses \in Nat
  BY DEF IInv, Types, Holders
<1> QED
  BY <1>1 DEF IInv, Types, Weakens

-----------------------------------------------------------------------------
(* Time, the commands that end before the broker, and a login. *)

LEMMA FirstIsClient == 1 \in Clients
BY PasswordAssumption DEF Clients

LEMMA IdleStays ==
    ASSUME IInv, NEW o \in Orders, pc' = [pc EXCEPT ![o] = "idle"], UNCHANGED <<carried, client>>
    PROVE  Stays
BY DEF IInv, Types, Stays, UnderWay

LEMMA SameStays == ASSUME IInv, UNCHANGED <<pc, carried, client>> PROVE Stays
BY DEF IInv, Types, Stays

LEMMA TickStep == ASSUME IInv, Tick PROVE IInv'
<1>1. Weakens
  <2> DEFINE Age(h) == IF h.age \in {Idle, Unused} THEN h.age ELSE h.age + 1
             Left(h) == IF h.left = 0 THEN 0 ELSE h.left - 1
  <2>1. \A h \in Holders : Age(h) \in 0 .. Unused /\ Left(h) \in 0 .. Lockout
    BY PasswordAssumption DEF Holders, Unused
  <2>2. holder' = [c \in Clients |-> [holder[c] EXCEPT !.age = Age(holder[c]), !.left = Left(holder[c])]]
    BY DEF Tick
  <2>3. holder \in [Clients -> Holders]
    BY DEF IInv, Types
  <2> HIDE DEF Age, Left
  <2>4. \A c \in Clients : holder'[c] = [holder[c] EXCEPT !.age = Age(holder[c]), !.left = Left(holder[c])]
    BY <2>2
  <2>5. \A h \in Holders :
           LET g == [h EXCEPT !.age = Age(h), !.left = Left(h)]
           IN  g \in Holders /\ g.password = h.password /\ g.misses = h.misses /\ h.misses \in Nat
    BY <2>1 DEF Holders
  <2>6. \A c \in Clients : /\ holder'[c] \in Holders /\ holder'[c].password = holder[c].password
                          /\ holder'[c].misses = holder[c].misses /\ holder[c].misses \in Nat
    BY <2>3, <2>4, <2>5
  <2>7. holder' \in [Clients -> Holders]
    BY <2>2, <2>3, <2>5
  <2> QED
    BY <2>6, <2>7 DEF Weakens
<1>2. UNCHANGED <<venue, typed, refused, streak, current, holderOf, pc, carried, client>>
  BY DEF Tick, world
<1> QED
  BY <1>1, <1>2, SameStays, StayingSteps

LEMMA PlainSteps ==
    ASSUME IInv, ForgetSecondPassword \/ StrategyAsks \/ TachibanaStops
    PROVE  IInv'
<1>1. holder[1] \in Holders /\ holder[1].misses \in Nat
  BY FirstIsClient DEF IInv, Types, Holders
<1>2. UNCHANGED <<venue, typed, refused, streak, current, holderOf, pc, carried, client>>
  BY DEF ForgetSecondPassword, StrategyAsks, TachibanaStops, world
<1>3. CASE ForgetSecondPassword
  <2>1. holder' = [holder EXCEPT ![1] = Cleared(holder[1])]
    BY <1>3 DEF ForgetSecondPassword
  <2>2. Weakens
    BY <2>1, FirstIsClient, MethodWeakens
  <2> QED
    BY <1>2, <2>2, SameStays, StayingSteps
<1>4. CASE StrategyAsks
  <2>1. holder' = [holder EXCEPT ![1] = Got(holder[1])]
    BY <1>4 DEF StrategyAsks
  <2>2. Weakens
    BY <2>1, FirstIsClient, MethodWeakens
  <2> QED
    BY <1>2, <2>2, SameStays, StayingSteps
<1>5. CASE TachibanaStops
  <2> DEFINE h == Probed(holder[1])
  <2>1. h \in Holders /\ h.password = holder[1].password /\ h.misses <= holder[1].misses
    BY <1>1, Methods
  <2>2. \/ holder' = [holder EXCEPT ![1] = h]
        \/ holder' = [holder EXCEPT ![1] = Touched(h)]
    BY <1>5 DEF TachibanaStops
  <2> HIDE DEF h
  <2>3. Touched(h) \in Holders /\ Touched(h).password = h.password /\ Touched(h).misses = h.misses
    BY <2>1, Methods
  <2>4. Weakens
    BY <2>1, <2>2, <2>3, FirstIsClient, OneWeakens
  <2> QED
    BY <1>2, <2>4, SameStays, StayingSteps
<1> QED
  BY <1>3, <1>4, <1>5

(* The holder an order client in use was given does not change: only the
   client to come gets one.                                                *)
LEMMA LoginStep == ASSUME IInv, Login PROVE IInv'
<1>1. UNCHANGED <<venue, typed, refused, streak, holder, pc, carried, client>>
  BY DEF Login, world
<1>2. CASE venue = Tachibana
  <2>1. UNCHANGED <<current, holderOf>>
    BY <1>2 DEF Login
  <2> QED
    BY <1>1, <2>1, SameWeakens, SameStays, StayingSteps
<1>3. CASE venue # Tachibana
  <2> DEFINE given == IF session THEN holderOf[current] ELSE current + 1
  <2>1. current < MaxClients /\ current' = current + 1 /\ holderOf' = [holderOf EXCEPT ![current + 1] = given]
    BY <1>3 DEF Login
  <2>2. current \in Nat /\ current + 1 \in Clients /\ given \in Clients
    BY <2>1, PasswordAssumption DEF IInv, Types, Clients
  <2> HIDE DEF given
  <2>3. CommandTypes' /\ ClientsMade'
    BY <1>1, <2>1, <2>2 DEF IInv, Types, ClientsMade, CommandTypes, Clients
  <2>4. \A o \in Orders : Mine(o)' = Mine(o)
    BY <1>1, <2>1, <2>2 DEF IInv, Types, ClientsMade, Mine, Clients
  <2>5. CarriesOwn'
    BY <1>1, <2>4 DEF IInv, CarriesOwn
  <2> QED
    BY <1>1, <2>3, <2>5, SameWeakens, HolderSteps
<1> QED
  BY <1>2, <1>3

-----------------------------------------------------------------------------
(* A command leaves with what its holder has. *)

LEMMA Departs ==
    ASSUME IInv, NEW o \in Orders, NEW at \in Clients, NEW h \in Holders, NEW where \in UnderWay,
           h.password = holder[at].password, h.password # 0, h.misses <= holder[at].misses,
           holder' = [holder EXCEPT ![at] = h],
           client' \in [Orders -> Clients], ClientsMade',
           \A p \in Orders : p # o => client'[p] = client[p],
           Mine(o)' = at,
           pc' = [pc EXCEPT ![o] = where], carried' = [carried EXCEPT ![o] = h.password],
           UNCHANGED <<venue, typed, refused, streak, current, holderOf>>
    PROVE  IInv'
<1>1. Weakens
  BY OneWeakens
<1>2. h.password \in 1 .. typed
  BY PasswordAssumption DEF IInv, Types, OfTyped, Holders
<1>3. CommandTypes'
  BY <1>2 DEF IInv, Types, CommandTypes, Holders
<1>4. CarriesOwn'
  <2> SUFFICES ASSUME NEW p \in Orders, pc'[p] \in UnderWay
               PROVE  /\ carried'[p] \in 1 .. typed'
                      /\ \A c \in Clients : c # Mine(p)' => holder'[c].password # carried'[p]
    BY DEF CarriesOwn
  <2>1. CASE p = o
    <3>1. carried'[p] = h.password
      BY <2>1 DEF IInv, Types
    <3>2. \A c \in Clients : c # at => holder[c].password # h.password
      BY <1>2 DEF IInv, HeldOnce, Types
    <3>3. \A c \in Clients : c # at => holder'[c].password # h.password
      BY <1>1, <1>2, <3>2 DEF Weakens, IInv, Types
    <3> QED
      BY <1>2, <2>1, <3>1, <3>3
  <2>2. CASE p # o
    <3>1. pc[p] \in UnderWay /\ carried'[p] = carried[p]
      BY <2>2 DEF IInv, Types
    <3>2. Mine(p)' = Mine(p)
      BY <2>2 DEF Mine
    <3>3. carried[p] \in 1 .. typed /\ \A c \in Clients : c # Mine(p) => holder[c].password # carried[p]
      BY <3>1 DEF IInv, CarriesOwn
    <3>4. 0 # carried[p]
      BY <3>3 DEF IInv, Types
    <3> QED
      BY <1>1, <3>1, <3>2, <3>3, <3>4 DEF Weakens
  <2> QED
    BY <2>1, <2>2
<1> QED
  BY <1>1, <1>3, <1>4, HolderSteps

LEMMA TachibanaStartsStep == ASSUME IInv, NEW o \in Orders, TachibanaStarts(o) PROVE IInv'
<1> DEFINE h == Got(Touched(Probed(holder[1])))
<1>1. holder[1] \in Holders
  BY FirstIsClient DEF IInv, Types
<1>2. h \in Holders /\ h.password = holder[1].password /\ h.misses <= holder[1].misses
  <2>1. Probed(holder[1]) \in Holders /\ Probed(holder[1]).password = holder[1].password
        /\ Probed(holder[1]).misses <= holder[1].misses
    BY <1>1, Methods
  <2>2. Touched(Probed(holder[1])) \in Holders
    BY <2>1, Methods
  <2>3. Touched(Probed(holder[1])).age = 0
    BY <2>1 DEF Touched, Holders
  <2>4. h = Touched(Probed(holder[1]))
    BY <2>3, PasswordAssumption DEF Got
  <2> QED
    BY <2>1, <2>2, <2>4, Methods
<1>3. holder' = [holder EXCEPT ![1] = h] /\ holder'[1] = h
  BY <1>1, FirstIsClient DEF TachibanaStarts, IInv, Types
<1>4. holder[1].password # 0 /\ venue = Tachibana
  BY DEF TachibanaStarts
<1> HIDE DEF h
<1>5. PICK where \in {"sent", "listing"} : Leaves(o, h.password, where)
  BY <1>3 DEF TachibanaStarts
<1>6. where \in UnderWay /\ pc' = [pc EXCEPT ![o] = where] /\ carried' = [carried EXCEPT ![o] = h.password]
  BY <1>5 DEF Leaves, UnderWay
<1>7. UNCHANGED <<venue, typed, refused, streak, current, holderOf, client>>
  BY DEF TachibanaStarts, world
<1>8. Mine(o)' = 1 /\ client' \in [Orders -> Clients] /\ ClientsMade'
  BY <1>4, <1>7 DEF Mine, IInv, Types, ClientsMade
<1> QED
  BY <1>2, <1>3, <1>4, <1>6, <1>7, <1>8, FirstIsClient, Departs

LEMMA ListAnsweredStep == ASSUME IInv, NEW o \in Orders, ListAnswered(o) PROVE IInv'
<1>1. holder[1] \in Holders /\ holder[1].misses \in Nat
  BY FirstIsClient DEF IInv, Types, Holders
<1>2. UNCHANGED <<venue, typed, refused, streak, current, holderOf, carried, client>>
  BY DEF ListAnswered, world
<1>3. pc[o] \in UnderWay
  BY DEF ListAnswered, UnderWay
<1>4. CASE pc' = [pc EXCEPT ![o] = "sentAll"] /\ UNCHANGED holder
  <2>1. Stays
    BY <1>2, <1>3, <1>4 DEF IInv, Types, Stays, UnderWay
  <2> QED
    BY <1>2, <1>4, <2>1, SameWeakens, StayingSteps
<1>5. CASE Ends(o) /\ holder' = [holder EXCEPT ![1] = Succeeded(@)]
  <2>1. Weakens
    BY <1>5, FirstIsClient, MethodWeakens
  <2> QED
    BY <1>2, <1>5, <2>1, IdleStays, StayingSteps DEF Ends
<1>6. CASE Ends(o) /\ holder' = [holder EXCEPT ![1] = Cleared(@)]
  <2>1. Weakens
    BY <1>6, FirstIsClient, MethodWeakens
  <2> QED
    BY <1>2, <1>6, <2>1, IdleStays, StayingSteps DEF Ends
<1>7. CASE Ends(o) /\ UNCHANGED holder
  BY <1>2, <1>7, SameWeakens, IdleStays, StayingSteps DEF Ends
<1> QED
  BY <1>4, <1>5, <1>6, <1>7 DEF ListAnswered

LEMMA KabuStartsStep == ASSUME IInv, NEW o \in Orders, KabuStarts(o) PROVE IInv'
<1> DEFINE at == holderOf[current]
           h == Got(Probed(holder[at]))
<1>1. at \in Clients /\ holder[at] \in Holders /\ holder[at].misses \in Nat
  BY DEF IInv, Types, Holders
<1>2. h \in Holders /\ h.password \in {0, holder[at].password} /\ h.misses <= holder[at].misses
  BY <1>1, Methods
<1>3. client' = [client EXCEPT ![o] = current]
      /\ UNCHANGED <<venue, typed, refused, streak, current, holderOf>> /\ venue = Kabu
  BY DEF KabuStarts, world
<1>4. client' \in [Orders -> Clients] /\ ClientsMade' /\ client'[o] = current
      /\ \A p \in Orders : p # o => client'[p] = client[p]
  <2>1. current \in Nat /\ current \in Clients
    BY PasswordAssumption DEF IInv, Types, Clients
  <2>2. client \in [Orders -> Clients] /\ \A p \in Orders : client[p] <= current
    BY DEF IInv, Types, ClientsMade
  <2>3. client'[o] = current /\ \A p \in Orders : p # o => client'[p] = client[p]
    BY <1>3, <2>2
  <2>4. client' \in [Orders -> Clients] /\ \A p \in Orders : client'[p] <= current'
    BY <1>3, <2>1, <2>2, <2>3
  <2> QED
    BY <2>3, <2>4 DEF ClientsMade
<1>5. Mine(o)' = at
  BY <1>3, <1>4, PasswordAssumption DEF Mine
<1>6. CASE h.password # 0
  <2>1. holder' = [holder EXCEPT ![at] = Touched(h)] /\ pc' = [pc EXCEPT ![o] = "sent"]
        /\ carried' = [carried EXCEPT ![o] = h.password]
    BY <1>6 DEF KabuStarts, Leaves
  <2>2. Touched(h) \in Holders /\ Touched(h).password = h.password /\ Touched(h).misses = h.misses
    BY <1>2, Methods
  <2>3. h.password = holder[at].password /\ "sent" \in UnderWay
    BY <1>2, <1>6 DEF UnderWay
  <2> HIDE DEF h, at
  <2> QED
    BY <1>1, <1>2, <1>3, <1>4, <1>5, <1>6, <2>1, <2>2, <2>3, Departs
<1>7. CASE h.password = 0
  <2>1. holder' = [holder EXCEPT ![at] = h] /\ pc' = [pc EXCEPT ![o] = "queued"] /\ UNCHANGED carried
    BY <1>7 DEF KabuStarts
  <2> HIDE DEF h, at
  <2>2. Weakens
    BY <1>1, <1>2, <2>1, OneWeakens
  <2>3. CommandTypes'
    BY <1>3, <1>4, <2>1 DEF IInv, Types, CommandTypes, Waiting
  <2>4. CarriesOwn'
    <3> SUFFICES ASSUME NEW p \in Orders, pc'[p] \in UnderWay
                 PROVE  /\ carried'[p] \in 1 .. typed'
                        /\ \A c \in Clients : c # Mine(p)' => holder'[c].password # carried'[p]
      BY DEF CarriesOwn
    <3>1. p # o /\ pc[p] \in UnderWay
      BY <2>1 DEF IInv, Types, UnderWay
    <3>2. Mine(p)' = Mine(p)
      BY <1>3, <1>4, <3>1 DEF Mine
    <3>3. carried[p] \in 1 .. typed /\ \A c \in Clients : c # Mine(p) => holder[c].password # carried[p]
      BY <3>1 DEF IInv, CarriesOwn
    <3>4. 0 # carried[p]
      BY <3>3 DEF IInv, Types
    <3> QED
      BY <1>3, <2>1, <2>2, <3>2, <3>3, <3>4 DEF Weakens
  <2> QED
    BY <1>3, <1>4, <2>2, <2>3, <2>4, HolderSteps
<1> QED
  BY <1>6, <1>7

LEMMA LockAcquiredStep == ASSUME IInv, NEW o \in Orders, LockAcquired(o) PROVE IInv'
<1> DEFINE at == Mine(o)
           h == Got(holder[at])
<1>1. at \in Clients /\ holder[at] \in Holders /\ holder[at].misses \in Nat
  BY FirstIsClient DEF IInv, Types, Holders, Mine
<1>2. h \in Holders /\ h.password \in {0, holder[at].password} /\ h.misses <= holder[at].misses
  BY <1>1, Methods
<1>3. UNCHANGED <<venue, typed, refused, streak, current, holderOf, client>>
  BY DEF LockAcquired, world
<1>4. client' \in [Orders -> Clients] /\ ClientsMade' /\ Mine(o)' = at
  BY <1>3 DEF IInv, Types, ClientsMade, Mine
<1>5. CASE h.password # 0
  <2>1. holder' = [holder EXCEPT ![at] = Touched(h)] /\ pc' = [pc EXCEPT ![o] = "sent"]
        /\ carried' = [carried EXCEPT ![o] = h.password]
    BY <1>5 DEF LockAcquired, Leaves
  <2>2. Touched(h) \in Holders /\ Touched(h).password = h.password /\ Touched(h).misses = h.misses
    BY <1>2, Methods
  <2>3. h.password = holder[at].password /\ "sent" \in UnderWay
    BY <1>2, <1>5 DEF UnderWay
  <2> HIDE DEF h, at
  <2> QED
    BY <1>1, <1>2, <1>3, <1>4, <1>5, <2>1, <2>2, <2>3, Departs
<1>6. CASE h.password = 0
  <2>1. holder' = [holder EXCEPT ![at] = h] /\ pc' = [pc EXCEPT ![o] = "dialog"] /\ UNCHANGED carried
    BY <1>6 DEF LockAcquired
  <2> HIDE DEF h, at
  <2>2. Weakens
    BY <1>1, <1>2, <2>1, OneWeakens
  <2>3. Stays
    BY <1>3, <2>1 DEF IInv, Types, Stays, Waiting, UnderWay
  <2> QED
    BY <1>3, <2>2, <2>3, StayingSteps
<1> QED
  BY <1>5, <1>6

-----------------------------------------------------------------------------
(* A new entry: nobody has it, and the broker has not seen it. *)

LEMMA Enters ==
    ASSUME IInv, NEW at \in Clients, typed < MaxEntries, typed' = typed + 1,
           holder' = [holder EXCEPT ![at] = Set(holder[at], typed + 1)],
           UNCHANGED <<venue, refused, streak, current, holderOf, client>>,
           pc' \in [Orders -> {"idle"} \cup Waiting \cup UnderWay],
           carried' \in [Orders -> 0 .. MaxEntries],
           \A o \in Orders : \/ pc'[o] = pc[o] /\ carried'[o] = carried[o]
                             \/ carried'[o] = typed + 1 /\ Mine(o) = at
    PROVE  IInv'
<1>1. typed \in Nat /\ typed + 1 \in Entries
  BY PasswordAssumption DEF IInv, Types, Entries
<1>2. holder[at] \in Holders /\ holder \in [Clients -> Holders]
  BY DEF IInv, Types
<1>3. Set(holder[at], typed + 1) \in Holders /\ Set(holder[at], typed + 1).password = typed + 1
      /\ Set(holder[at], typed + 1).misses = holder[at].misses
  BY <1>1, <1>2, Setting
<1>4. /\ holder' \in [Clients -> Holders]
      /\ holder'[at].password = typed + 1
      /\ \A c \in Clients : c # at => holder'[c].password = holder[c].password
      /\ \A c \in Clients : holder'[c].misses = holder[c].misses
  BY <1>2, <1>3
<1>5. \A c \in Clients : holder[c].password \in Nat /\ holder[c].password <= typed
  BY <1>2, PasswordAssumption DEF IInv, OfTyped, Holders
<1>6. Types'
  BY <1>1, <1>4 DEF IInv, Types, Entries
<1>7. OfTyped'
  BY <1>1, <1>4, <1>5 DEF IInv, OfTyped
<1>8. ClientsMade' /\ HeldOnce'
  BY <1>1, <1>4, <1>5 DEF IInv, ClientsMade, HeldOnce
<1>9. CarriesOwn'
  <2> SUFFICES ASSUME NEW o \in Orders, pc'[o] \in UnderWay
               PROVE  /\ carried'[o] \in 1 .. typed'
                      /\ \A c \in Clients : c # Mine(o) => holder'[c].password # carried'[o]
    BY DEF CarriesOwn, Mine
  <2>1. CASE pc'[o] = pc[o] /\ carried'[o] = carried[o]
    <3>1. carried[o] \in 1 .. typed /\ \A c \in Clients : c # Mine(o) => holder[c].password # carried[o]
      BY <2>1 DEF IInv, CarriesOwn
    <3> QED
      BY <1>1, <1>4, <2>1, <3>1
  <2>2. CASE carried'[o] = typed + 1 /\ Mine(o) = at
    BY <1>1, <1>4, <1>5, <2>2
  <2> QED
    BY <2>1, <2>2
<1>10. RefusedNotHeld'
  <2>1. typed + 1 \notin refused
    BY <1>1 DEF IInv, OfTyped
  <2> QED
    BY <1>4, <2>1 DEF IInv, RefusedNotHeld
<1>11. MissesAreConsecutive'
  BY <1>4 DEF IInv, MissesAreConsecutive
<1> QED
  BY <1>6, <1>7, <1>8, <1>9, <1>10, <1>11 DEF IInv

LEMMA EntrySteps ==
    ASSUME IInv, SetSecondPassword \/ \E o \in Orders : DialogAnswered(o)
    PROVE  IInv'
<1>1. CASE SetSecondPassword
  <2>1. typed < MaxEntries /\ typed' = typed + 1 /\ holder' = [holder EXCEPT ![1] = Set(holder[1], typed + 1)]
        /\ UNCHANGED <<venue, refused, streak, current, holderOf, client, pc, carried>>
    BY <1>1 DEF SetSecondPassword, world
  <2>2. pc' \in [Orders -> {"idle"} \cup Waiting \cup UnderWay] /\ carried' \in [Orders -> 0 .. MaxEntries]
    BY <2>1 DEF IInv, Types
  <2> QED
    BY <2>1, <2>2, FirstIsClient, Enters
<1>2. ASSUME NEW o \in Orders, DialogAnswered(o) PROVE IInv'
  <2>1. Mine(o) \in Clients
    BY FirstIsClient DEF IInv, Types, Mine
  <2>2. typed < MaxEntries /\ typed' = typed + 1
        /\ holder' = [holder EXCEPT ![Mine(o)] = Set(holder[Mine(o)], typed + 1)]
        /\ UNCHANGED <<venue, refused, streak, current, holderOf, client>>
        /\ pc' = [pc EXCEPT ![o] = "sent"] /\ carried' = [carried EXCEPT ![o] = typed + 1]
    BY <1>2 DEF DialogAnswered, Leaves, world
  <2>3. typed + 1 \in 0 .. MaxEntries
    BY <2>2, PasswordAssumption DEF IInv, Types
  <2>4. pc' \in [Orders -> {"idle"} \cup Waiting \cup UnderWay] /\ carried' \in [Orders -> 0 .. MaxEntries]
    BY <2>2, <2>3 DEF IInv, Types, UnderWay
  <2>5. \A p \in Orders : \/ pc'[p] = pc[p] /\ carried'[p] = carried[p]
                          \/ carried'[p] = typed + 1 /\ Mine(p) = Mine(o)
    <3>1. carried'[o] = typed + 1
      BY <2>2 DEF IInv, Types
    <3>2. \A p \in Orders : p # o => pc'[p] = pc[p] /\ carried'[p] = carried[p]
      BY <2>2 DEF IInv, Types
    <3>3. \A p \in Orders : p = o => Mine(p) = Mine(o)
      BY DEF Mine
    <3> QED
      BY <3>1, <3>2, <3>3
  <2> QED
    BY <2>1, <2>2, <2>4, <2>5, Enters
<1> QED
  BY <1>1, <1>2

-----------------------------------------------------------------------------
(* The answers. *)

(* The refused entry is dropped by the one holder that may hold it. *)
LEMMA RefusedStep == ASSUME IInv, NEW o \in Orders, Refused(o) PROVE IInv'
<1> DEFINE at == Mine(o)
           h == Invalid(holder[at])
<1>1. at \in Clients /\ holder[at] \in Holders
  BY FirstIsClient DEF IInv, Types, Mine
<1>2. h \in Holders /\ h.password = 0 /\ h.misses = holder[at].misses + 1
  BY <1>1, Refusing
<1>3. /\ pc[o] \in UnderWay /\ pc' = [pc EXCEPT ![o] = "idle"]
      /\ holder' = [holder EXCEPT ![at] = h]
      /\ refused' = refused \cup {carried[o]}
      /\ streak' = [streak EXCEPT ![at] = streak[at] + 1]
      /\ UNCHANGED <<venue, typed, current, holderOf, carried, client>>
  BY DEF Refused, Ends, world, UnderWay
<1> HIDE DEF h, at
<1>4. /\ holder' \in [Clients -> Holders] /\ holder'[at] = h
      /\ \A c \in Clients : c # at => holder'[c] = holder[c]
  BY <1>1, <1>2, <1>3 DEF IInv, Types
<1>5. Types'
  BY <1>1, <1>3, <1>4 DEF IInv, Types, UnderWay
<1>6. carried[o] \in 1 .. typed /\ \A c \in Clients : c # at => holder[c].password # carried[o]
  BY <1>3 DEF IInv, CarriesOwn, at
<1>7. OfTyped'
  <2>1. typed \in Nat /\ typed' = typed
    BY <1>3, PasswordAssumption DEF IInv, Types
  <2>2. \A c \in Clients : holder'[c].password <= typed
    BY <1>2, <1>4, <2>1 DEF IInv, OfTyped
  <2> QED
    BY <1>3, <1>6, <2>1, <2>2 DEF IInv, OfTyped
<1>8. ClientsMade' /\ HeldOnce'
  BY <1>2, <1>3, <1>4 DEF IInv, ClientsMade, HeldOnce
<1>9. CarriesOwn'
  <2> SUFFICES ASSUME NEW p \in Orders, pc'[p] \in UnderWay
               PROVE  /\ carried[p] \in 1 .. typed
                      /\ \A c \in Clients : c # Mine(p) => holder'[c].password # carried[p]
    BY <1>3 DEF CarriesOwn, Mine
  <2>1. pc[p] \in UnderWay
    BY <1>3 DEF IInv, Types, UnderWay
  <2>2. carried[p] \in 1 .. typed /\ \A c \in Clients : c # Mine(p) => holder[c].password # carried[p]
    BY <2>1 DEF IInv, CarriesOwn
  <2>3. carried[p] # 0
    BY <2>2 DEF IInv, Types
  <2> QED
    BY <1>2, <1>4, <2>2, <2>3
<1>10. RefusedNotHeld'
  <2>1. 0 \notin refused'
    BY <1>3, <1>6 DEF IInv, Types, OfTyped
  <2>2. \A c \in Clients : c # at => holder[c].password \notin refused'
    BY <1>3, <1>6 DEF IInv, RefusedNotHeld
  <2> QED
    BY <1>2, <1>4, <2>1, <2>2 DEF RefusedNotHeld
<1>11. MissesAreConsecutive'
  <2>1. \A c \in Clients : streak[c] \in Nat /\ holder[c].misses \in Nat /\ holder[c].misses <= streak[c]
    BY DEF IInv, Types, Holders, MissesAreConsecutive
  <2>2. streak'[at] = streak[at] + 1 /\ \A c \in Clients : c # at => streak'[c] = streak[c]
    BY <1>1, <1>3 DEF IInv, Types
  <2> QED
    BY <1>1, <1>2, <1>4, <2>1, <2>2 DEF MissesAreConsecutive
<1> QED
  BY <1>5, <1>7, <1>8, <1>9, <1>10, <1>11 DEF IInv

LEMMA AcceptedStep == ASSUME IInv, NEW o \in Orders, Accepted(o) PROVE IInv'
<1> DEFINE at == Mine(o)
           h == Succeeded(holder[at])
<1>1. at \in Clients /\ holder[at] \in Holders
  BY FirstIsClient DEF IInv, Types, Mine
<1>2. h \in Holders /\ h.password = holder[at].password /\ h.misses = 0
  BY <1>1, Methods
<1>3. /\ pc[o] \in UnderWay /\ pc' = [pc EXCEPT ![o] = "idle"]
      /\ holder' = [holder EXCEPT ![at] = h]
      /\ streak' = [streak EXCEPT ![at] = 0]
      /\ UNCHANGED <<venue, typed, current, holderOf, carried, client, refused>>
  BY DEF Accepted, Ends, world, UnderWay
<1> HIDE DEF h, at
<1>4. /\ holder' \in [Clients -> Holders] /\ holder'[at] = h
      /\ \A c \in Clients : c # at => holder'[c] = holder[c]
      /\ \A c \in Clients : holder'[c].password = holder[c].password
  BY <1>1, <1>2, <1>3 DEF IInv, Types
<1>5. Types'
  BY <1>1, <1>3, <1>4 DEF IInv, Types, UnderWay
<1>6. OfTyped' /\ ClientsMade' /\ HeldOnce' /\ RefusedNotHeld'
  BY <1>3, <1>4 DEF IInv, OfTyped, ClientsMade, HeldOnce, RefusedNotHeld
<1>7. CarriesOwn'
  <2>1. \A p \in Orders : pc'[p] \in UnderWay => pc[p] \in UnderWay
    BY <1>3 DEF IInv, Types, UnderWay
  <2> QED
    BY <1>3, <1>4, <2>1 DEF IInv, CarriesOwn, Mine
<1>8. MissesAreConsecutive'
  <2>1. streak'[at] = 0 /\ \A c \in Clients : c # at => streak'[c] = streak[c]
    BY <1>1, <1>3 DEF IInv, Types
  <2> QED
    BY <1>1, <1>2, <1>4, <2>1 DEF IInv, MissesAreConsecutive
<1> QED
  BY <1>5, <1>6, <1>7, <1>8 DEF IInv

LEMMA EndingSteps ==
    ASSUME IInv, NEW o \in Orders, DialogCancelled(o) \/ FailsOtherwise(o) \/ SessionExpired(o)
    PROVE  IInv'
<1>1. pc' = [pc EXCEPT ![o] = "idle"]
      /\ UNCHANGED <<venue, typed, refused, streak, current, holderOf, carried, client>>
  BY DEF DialogCancelled, FailsOtherwise, SessionExpired, Ends, world
<1>2. Stays
  BY <1>1, IdleStays
<1>3. \/ UNCHANGED holder
      \/ holder' = [holder EXCEPT ![1] = Succeeded(holder[1])]
      \/ holder' = [holder EXCEPT ![1] = Cleared(holder[1])]
      \/ holder' = [holder EXCEPT ![holderOf[current]] = Cleared(holder[holderOf[current]])]
  BY DEF DialogCancelled, FailsOtherwise, SessionExpired
<1>4. holderOf[current] \in Clients
  BY DEF IInv, Types
<1>5. Weakens
  BY <1>3, <1>4, FirstIsClient, SameWeakens, MethodWeakens
<1> QED
  BY <1>1, <1>2, <1>5, StayingSteps

-----------------------------------------------------------------------------
LEMMA InitInv == Init => IInv
<1> SUFFICES ASSUME Init PROVE IInv
  OBVIOUS
<1>1. Fresh \in Holders /\ Fresh.password = 0 /\ Fresh.misses = 0
  BY PasswordAssumption DEF Fresh, Holders, Unused
<1>2. Types
  BY <1>1, PasswordAssumption, FirstIsClient DEF Init, Types
<1>3. OfTyped /\ ClientsMade /\ HeldOnce /\ RefusedNotHeld /\ MissesAreConsecutive
  BY <1>1 DEF Init, OfTyped, ClientsMade, HeldOnce, RefusedNotHeld, MissesAreConsecutive
<1>4. CarriesOwn
  BY DEF Init, CarriesOwn, UnderWay
<1> QED
  BY <1>2, <1>3, <1>4 DEF IInv

LEMMA NextInv == ASSUME IInv, [Next]_vars PROVE IInv'
<1>1. CASE Next
  BY <1>1, TickStep, PlainSteps, LoginStep, TachibanaStartsStep, ListAnsweredStep, KabuStartsStep,
     LockAcquiredStep, EntrySteps, RefusedStep, AcceptedStep, EndingSteps DEF Next
<1>2. CASE UNCHANGED vars
  <2>1. UNCHANGED <<venue, typed, refused, streak, current, holderOf, holder, pc, carried, client>>
    BY <1>2 DEF vars, world
  <2> QED
    BY <2>1, SameWeakens, SameStays, StayingSteps
<1> QED
  BY <1>1, <1>2

LEMMA Inductive == Spec => []IInv
BY InitInv, NextInv, PTL DEF Spec

(* No holder keeps an entry the broker has refused, in whatever order answers
   and entries of the user arrive (on_invalid).                             *)
THEOREM PasswordRefusedNotHeld == Spec => []RefusedNotHeld
<1>1. IInv => RefusedNotHeld
  BY DEF IInv
<1> QED
  BY <1>1, Inductive, PTL

(* The refusals a holder counts are refusals in a row (on_submit_success). *)
THEOREM PasswordMissesConsecutive == Spec => []MissesAreConsecutive
<1>1. IInv => MissesAreConsecutive
  BY DEF IInv
<1> QED
  BY <1>1, Inductive, PTL


-----------------------------------------------------------------------------
(* The lock of the dialog.  A command that waits is one of kabu STATION, it is
   in the queue of its order client, and the one with the dialog heads it:
   hence whoever else gives the same holder a password meanwhile is a command
   of another client, which DialogOnlyWithout leaves out.                    *)
Has(q, o) == \E i \in 1 .. Len(q) : q[i] = o

QueueTypes == queue \in [Clients -> Seq(Orders)]
InTurn ==
    \A o \in Orders :
        /\ pc[o] \in Waiting => venue = Kabu /\ Has(queue[client[o]], o)
        /\ pc[o] = "dialog" => queue[client[o]][1] = o

LockInv == QueueTypes /\ InTurn /\ DialogOnlyWithout

(* What leaving a queue does to the places of the others. *)
LEMMA WithoutKeeps ==
    ASSUME NEW S, NEW q \in Seq(S), NEW o
    PROVE  /\ Without(q, o) \in Seq(S)
           /\ \A u : u # o /\ Has(q, u) => Has(Without(q, o), u)
           /\ Len(q) > 0 /\ q[1] # o => Without(q, o)[1] = q[1]
<1>1. CASE o \notin ToSet(q)
  BY <1>1 DEF Without
<1>2. CASE o \in ToSet(q)
  <2> DEFINE i == CHOOSE j \in DOMAIN q : q[j] = o
             n == Len(q)
             a == SubSeq(q, 1, i - 1)
             b == SubSeq(q, i + 1, n)
  <2>1. n \in Nat /\ DOMAIN q = 1 .. n /\ \A j \in 1 .. n : q[j] \in S
    BY LenProperties, ElementOfSeq
  <2>2. i \in 1 .. n /\ q[i] = o
    BY <1>2, <2>1 DEF ToSet
  <2>3. Without(q, o) = a \o b
    BY <1>2 DEF Without, RemoveAt
  <2> HIDE DEF i, n
  <2>4. /\ a \in Seq(S) /\ Len(a) = i - 1 /\ \A j \in 1 .. i - 1 : a[j] = q[j]
        /\ b \in Seq(S) /\ Len(b) = n - i /\ \A j \in 1 .. n - i : b[j] = q[i + j]
    <3>1. 1 \in 1 .. n + 1 /\ i - 1 \in 0 .. n /\ i + 1 \in 1 .. n + 1 /\ n \in 0 .. n
      BY <2>1, <2>2
    <3>2. a \in Seq(S) /\ Len(a) = i - 1 /\ \A j \in 1 .. i - 1 : a[j] = q[j]
      BY <2>1, <2>2, <3>1, SubSeqProperties DEF n
    <3>3. b \in Seq(S) /\ Len(b) = n - i /\ \A j \in 1 .. n - i : b[j] = q[i + j]
      <4>1. /\ b \in Seq(S) /\ Len(b) = IF i + 1 <= n THEN n - (i + 1) + 1 ELSE 0
            /\ \A j \in 1 .. n - (i + 1) + 1 : b[j] = q[i + 1 + j - 1]
        BY <2>1, <2>2, <3>1, SubSeqProperties DEF n
      <4>2. n - (i + 1) + 1 = n - i /\ Len(b) = n - i
        BY <2>1, <2>2, <4>1
      <4>3. \A j \in 1 .. n - i : i + 1 + j - 1 = i + j
        BY <2>1, <2>2
      <4> QED
        BY <4>1, <4>2, <4>3
    <3> QED
      BY <3>2, <3>3
  <2> HIDE DEF a, b
  <2>5. /\ a \o b \in Seq(S) /\ Len(a \o b) = n - 1
        /\ \A j \in 1 .. n - 1 : (a \o b)[j] = IF j <= i - 1 THEN a[j] ELSE b[j - (i - 1)]
    <3>1. /\ a \o b \in Seq(S) /\ Len(a \o b) = Len(a) + Len(b)
          /\ \A j \in 1 .. Len(a) + Len(b) : (a \o b)[j] = IF j <= Len(a) THEN a[j] ELSE b[j - Len(a)]
      BY <2>4, ConcatProperties
    <3>2. Len(a) = i - 1 /\ Len(a) + Len(b) = n - 1
      BY <2>1, <2>2, <2>4
    <3> QED
      BY <3>1, <3>2
  <2>6. /\ \A j \in 1 .. i - 1 : j \in 1 .. n - 1 /\ (a \o b)[j] = q[j]
        /\ \A j \in i + 1 .. n : j - 1 \in 1 .. n - 1 /\ (a \o b)[j - 1] = q[j]
    <3>1. ASSUME NEW j \in 1 .. i - 1 PROVE j \in 1 .. n - 1 /\ (a \o b)[j] = q[j]
      <4>1. j \in 1 .. n - 1 /\ j <= i - 1
        BY <2>1, <2>2
      <4> QED
        BY <2>4, <2>5, <4>1
    <3>2. ASSUME NEW j \in i + 1 .. n PROVE j - 1 \in 1 .. n - 1 /\ (a \o b)[j - 1] = q[j]
      <4>1. j - 1 \in 1 .. n - 1 /\ ~(j - 1 <= i - 1) /\ j - 1 - (i - 1) \in 1 .. n - i
            /\ i + (j - 1 - (i - 1)) = j
        BY <2>1, <2>2
      <4> QED
        BY <2>4, <2>5, <4>1
    <3> QED
      BY <3>1, <3>2
  <2>7. ASSUME NEW u, u # o, NEW j \in 1 .. n, q[j] = u
        PROVE  Has(a \o b, u)
    <3>1. CASE j <= i - 1
      <4>0. j \in 1 .. i - 1
        BY <2>1, <2>2, <3>1
      <4>1. j \in 1 .. n - 1 /\ (a \o b)[j] = q[j]
        BY <2>6, <4>0
      <4> QED
        BY <2>5, <2>7, <4>1 DEF Has
    <3>2. CASE j > i
      <4>0. j \in i + 1 .. n
        BY <2>1, <2>2, <3>2
      <4>1. j - 1 \in 1 .. n - 1 /\ (a \o b)[j - 1] = q[j]
        BY <2>6, <4>0
      <4> QED
        BY <2>5, <2>7, <4>1 DEF Has
    <3> QED
      BY <2>1, <2>2, <2>7, <3>1, <3>2
  <2>8. n > 0 /\ q[1] # o => (a \o b)[1] = q[1]
    <3>1. q[1] # o => 1 \in 1 .. i - 1
      BY <2>1, <2>2
    <3> QED
      BY <2>6, <3>1
  <2> QED
    BY <2>3, <2>5, <2>7, <2>8 DEF Has, n
<1> QED
  BY <1>1, <1>2

LEMMA WithoutNone == ASSUME NEW S, NEW q \in Seq(S), NEW u, Has(q, u) PROVE Len(q) > 0
BY LenProperties DEF Has

(* A command that ends, or leaves for the broker, takes itself off. *)
LEMMA DepartsInTurn ==
    ASSUME IInv, QueueTypes, InTurn, NEW o \in Orders, NEW where, where \notin Waiting,
           pc' = [pc EXCEPT ![o] = where],
           queue' = [c \in Clients |-> Without(queue[c], o)],
           \A p \in Orders : p # o => client'[p] = client[p],
           UNCHANGED venue
    PROVE  QueueTypes' /\ InTurn'
<1>1. \A c \in Clients : queue[c] \in Seq(Orders) /\ queue'[c] = Without(queue[c], o)
  BY DEF QueueTypes
<1>2. QueueTypes'
  BY <1>1, WithoutKeeps DEF QueueTypes
<1>3. ASSUME NEW p \in Orders, pc'[p] \in Waiting
      PROVE  /\ venue' = Kabu /\ Has(queue'[client'[p]], p)
             /\ pc'[p] = "dialog" => queue'[client'[p]][1] = p
  <2>1. p # o /\ pc'[p] = pc[p] /\ client'[p] = client[p] /\ client[p] \in Clients
    BY <1>3 DEF IInv, Types
  <2> DEFINE q == queue[client[p]]
  <2>2. q \in Seq(Orders) /\ queue'[client'[p]] = Without(q, o)
    BY <1>1, <2>1
  <2>3. venue = Kabu /\ Has(q, p) /\ (pc[p] = "dialog" => q[1] = p)
    BY <1>3, <2>1 DEF InTurn
  <2> HIDE DEF q
  <2>4. Len(q) > 0
    BY <2>2, <2>3, WithoutNone
  <2> QED
    BY <2>1, <2>2, <2>3, <2>4, WithoutKeeps
<1> QED
  BY <1>2, <1>3 DEF InTurn, Waiting

(* The steps that leave the queues alone. *)
LEMMA SameInTurn ==
    ASSUME IInv, QueueTypes, InTurn, UNCHANGED <<venue, queue, client>>,
           \A p \in Orders : pc'[p] \in Waiting => pc'[p] = pc[p]
    PROVE  QueueTypes' /\ InTurn'
BY DEF QueueTypes, InTurn, Waiting

(* Who joins the queue joins it at the end. *)
LEMMA JoinsInTurn ==
    ASSUME IInv, QueueTypes, InTurn, NEW o \in Orders, pc[o] = "idle",
           pc' = [pc EXCEPT ![o] = "queued"], client' = [client EXCEPT ![o] = current],
           queue' = [queue EXCEPT ![current] = Append(@, o)], venue = Kabu, UNCHANGED venue
    PROVE  QueueTypes' /\ InTurn'
<1> DEFINE r == Append(queue[current], o)
<1>1. current \in Clients /\ queue[current] \in Seq(Orders)
  BY DEF IInv, Types, QueueTypes
<1>2. /\ r \in Seq(Orders) /\ Len(r) = Len(queue[current]) + 1 /\ Len(queue[current]) \in Nat
      /\ r[Len(r)] = o /\ \A i \in 1 .. Len(queue[current]) : r[i] = queue[current][i]
  BY <1>1, AppendProperties, LenProperties
<1>3. queue'[current] = r /\ \A c \in Clients : c # current => queue'[c] = queue[c]
  BY <1>1 DEF QueueTypes
<1> HIDE DEF r
<1>4. QueueTypes'
  BY <1>1, <1>2, <1>3 DEF QueueTypes
<1>5. \A u : Has(queue[current], u) => Has(r, u) /\ r[1] = queue[current][1]
  BY <1>2 DEF Has
<1>6. ASSUME NEW p \in Orders, pc'[p] \in Waiting
      PROVE  /\ venue' = Kabu /\ Has(queue'[client'[p]], p)
             /\ pc'[p] = "dialog" => queue'[client'[p]][1] = p
  <2>1. CASE p = o
    <3>1. pc'[p] = "queued" /\ client'[p] = current
      BY <2>1 DEF IInv, Types
    <3>2. Has(r, o)
      BY <1>2 DEF Has
    <3>3. queue'[client'[p]] = r
      BY <1>3, <3>1
    <3>4. Has(queue'[client'[p]], p)
      BY <2>1, <3>2, <3>3
    <3> QED
      BY <3>1, <3>4
  <2>2. CASE p # o
    <3>1. pc'[p] = pc[p] /\ client'[p] = client[p] /\ client[p] \in Clients
      BY <2>2 DEF IInv, Types
    <3>2. Has(queue[client[p]], p) /\ (pc[p] = "dialog" => queue[client[p]][1] = p)
      BY <1>6, <3>1 DEF InTurn
    <3> DEFINE q == queue[client[p]]
    <3>3. queue'[client'[p]] = q \/ (q = queue[current] /\ queue'[client'[p]] = r)
      BY <1>3, <3>1
    <3>4. Has(q, p) /\ (pc'[p] = "dialog" => q[1] = p)
      BY <3>1, <3>2
    <3> HIDE DEF q
    <3>5. q = queue[current] => Has(r, p) /\ (pc'[p] = "dialog" => r[1] = p)
      BY <1>5, <3>4
    <3>6. venue' = Kabu
      OBVIOUS
    <3>7. CASE queue'[client'[p]] = q
      BY <3>4, <3>6, <3>7
    <3>8. CASE q = queue[current] /\ queue'[client'[p]] = r
      BY <3>5, <3>6, <3>8
    <3> QED
      BY <3>3, <3>7, <3>8
  <2> QED
    BY <2>1, <2>2
<1> QED
  BY <1>4, <1>6 DEF InTurn, Waiting

LEMMA QueueStep == ASSUME IInv, QueueTypes, InTurn, [Next]_vars PROVE QueueTypes' /\ InTurn'
<1>1. ASSUME NEW o \in Orders, Ends(o), UNCHANGED <<venue, client>>
      PROVE  QueueTypes' /\ InTurn'
  BY <1>1, DepartsInTurn DEF Ends, Waiting
<1>2. ASSUME NEW o \in Orders, NEW e, NEW where \in UnderWay, Leaves(o, e, where), venue' = venue,
             \A p \in Orders : p # o => client'[p] = client[p]
      PROVE  QueueTypes' /\ InTurn'
  BY <1>2, DepartsInTurn DEF Leaves, Waiting, UnderWay
<1>3. CASE Tick \/ SetSecondPassword \/ ForgetSecondPassword \/ StrategyAsks \/ Login \/ TachibanaStops
           \/ UNCHANGED vars
  <2>1. UNCHANGED <<venue, queue, client, pc>>
    BY <1>3 DEF Tick, SetSecondPassword, ForgetSecondPassword, StrategyAsks, Login, TachibanaStops,
                vars, world
  <2> QED
    BY <2>1, SameInTurn
<1>4. ASSUME NEW o \in Orders, TachibanaStarts(o) PROVE QueueTypes' /\ InTurn'
  <2>1. \E where \in UnderWay : Leaves(o, holder'[1].password, where)
    BY <1>4 DEF TachibanaStarts, UnderWay
  <2> QED
    BY <1>2, <1>4, <2>1 DEF TachibanaStarts, world
<1>5. ASSUME NEW o \in Orders, ListAnswered(o) PROVE QueueTypes' /\ InTurn'
  <2>1. CASE Ends(o)
    BY <1>1, <1>5, <2>1 DEF ListAnswered, world
  <2>2. CASE pc' = [pc EXCEPT ![o] = "sentAll"] /\ UNCHANGED queue
    <3>1. \A p \in Orders : pc'[p] \in Waiting => pc'[p] = pc[p]
      BY <2>2 DEF IInv, Types, Waiting
    <3> QED
      BY <1>5, <2>2, <3>1, SameInTurn DEF ListAnswered, world
  <2> QED
    BY <1>5, <2>1, <2>2 DEF ListAnswered
<1>6. ASSUME NEW o \in Orders, KabuStarts(o) PROVE QueueTypes' /\ InTurn'
  <2>1. /\ venue = Kabu /\ pc[o] = "idle" /\ client' = [client EXCEPT ![o] = current] /\ venue' = venue
        /\ \/ \E e : Leaves(o, e, "sent")
           \/ /\ pc' = [pc EXCEPT ![o] = "queued"]
              /\ queue' = [queue EXCEPT ![current] = Append(@, o)]
    BY <1>6 DEF KabuStarts, world
  <2>2. \A p \in Orders : p # o => client'[p] = client[p]
    BY <2>1 DEF IInv, Types
  <2> QED
    BY <1>2, <2>1, <2>2, JoinsInTurn DEF UnderWay
<1>7. ASSUME NEW o \in Orders, LockAcquired(o) PROVE QueueTypes' /\ InTurn'
  <2>1. /\ pc[o] = "queued" /\ Head(queue[client[o]]) = o /\ UNCHANGED <<venue, client>>
        /\ \/ \E e : Leaves(o, e, "sent")
           \/ pc' = [pc EXCEPT ![o] = "dialog"] /\ UNCHANGED queue
    BY <1>7 DEF LockAcquired, world
  <2>2. CASE pc' = [pc EXCEPT ![o] = "dialog"] /\ UNCHANGED queue
    <3>1. /\ client[o] \in Clients /\ queue[client[o]] \in Seq(Orders)
          /\ venue = Kabu /\ Has(queue[client[o]], o)
      BY <2>1 DEF IInv, Types, QueueTypes, InTurn, Waiting
    <3>2. queue[client[o]][1] = o
      BY <2>1, <3>1, HeadTailProperties, WithoutNone
    <3>3. pc'[o] = "dialog" /\ \A p \in Orders : p # o => pc'[p] = pc[p]
      BY <2>2 DEF IInv, Types
    <3> QED
      BY <2>1, <2>2, <3>1, <3>2, <3>3 DEF QueueTypes, InTurn, Waiting
  <2> QED
    BY <1>2, <2>1, <2>2 DEF UnderWay
<1>8. ASSUME NEW o \in Orders, DialogAnswered(o) PROVE QueueTypes' /\ InTurn'
  <2>1. Leaves(o, typed + 1, "sent") /\ UNCHANGED <<venue, client>>
    BY <1>8 DEF DialogAnswered, world
  <2> QED
    BY <1>2, <2>1 DEF UnderWay
<1>9. ASSUME NEW o \in Orders,
             DialogCancelled(o) \/ Refused(o) \/ Accepted(o) \/ FailsOtherwise(o) \/ SessionExpired(o)
      PROVE  QueueTypes' /\ InTurn'
  <2>1. Ends(o) /\ UNCHANGED <<venue, client>>
    BY <1>9 DEF DialogCancelled, Refused, Accepted, FailsOtherwise, SessionExpired, world
  <2> QED
    BY <1>1, <2>1
<1> QED
  BY <1>3, <1>4, <1>5, <1>6, <1>7, <1>8, <1>9 DEF Next

(* No step but an entry of the user brings a holder a password. *)
Brings == \E at \in Clients : holder'[at].password \notin {0, holder[at].password}

LEMMA OneKeeps ==
    ASSUME IInv, NEW at \in Clients, NEW h \in Holders, h.password \in {0, holder[at].password},
           holder' = [holder EXCEPT ![at] = h]
    PROVE  ~Brings
BY DEF IInv, Types, Brings

LEMMA MethodsKeep ==
    ASSUME IInv, NEW at \in Clients,
           \/ UNCHANGED holder
           \/ holder' = [holder EXCEPT ![at] = Cleared(holder[at])]
           \/ holder' = [holder EXCEPT ![at] = Got(holder[at])]
           \/ holder' = [holder EXCEPT ![at] = Got(Probed(holder[at]))]
           \/ holder' = [holder EXCEPT ![at] = Probed(holder[at])]
           \/ holder' = [holder EXCEPT ![at] = Touched(Probed(holder[at]))]
           \/ holder' = [holder EXCEPT ![at] = Got(Touched(Probed(holder[at])))]
           \/ holder' = [holder EXCEPT ![at] = Touched(Got(holder[at]))]
           \/ holder' = [holder EXCEPT ![at] = Touched(Got(Probed(holder[at])))]
           \/ holder' = [holder EXCEPT ![at] = Succeeded(holder[at])]
           \/ holder' = [holder EXCEPT ![at] = Invalid(holder[at])]
    PROVE  ~Brings
<1> DEFINE h == holder[at]
           Kept(g) == g \in Holders /\ g.password \in {0, h.password}
<1>1. h \in Holders
  BY DEF IInv, Types
<1>2. CASE UNCHANGED holder
  BY <1>2 DEF Brings
<1>3. ASSUME NEW g, Kept(g), holder' = [holder EXCEPT ![at] = g] PROVE ~Brings
  BY <1>3, OneKeeps
<1> HIDE DEF h
<1>4. ASSUME NEW g, Kept(g) PROVE Kept(Touched(g)) /\ Kept(Got(g)) /\ Kept(Probed(g))
  BY <1>4, Methods
<1>5. Kept(h) /\ Kept(Cleared(h)) /\ Kept(Succeeded(h)) /\ Kept(Invalid(h))
  BY <1>1, Methods, Refusing
<1> HIDE DEF Kept
<1>6. /\ Kept(Got(h)) /\ Kept(Got(Probed(h))) /\ Kept(Probed(h)) /\ Kept(Touched(Probed(h)))
      /\ Kept(Got(Touched(Probed(h)))) /\ Kept(Touched(Got(h))) /\ Kept(Touched(Got(Probed(h))))
  BY <1>4, <1>5
<1> QED
  BY <1>2, <1>3, <1>5, <1>6 DEF h

(* Every command finds its holder by what does not change under it. *)
LEMMA MineIsClient == ASSUME IInv, NEW o \in Orders PROVE Mine(o) \in Clients
BY FirstIsClient DEF IInv, Types, Mine

LEMMA OnlyEntriesBring ==
    ASSUME IInv, [Next]_vars, ~SetSecondPassword, \A o \in Orders : ~DialogAnswered(o)
    PROVE  ~Brings
<1>1. CASE Tick
  <2>1. \A c \in Clients : holder'[c].password = holder[c].password
    <3>1. ASSUME NEW c \in Clients PROVE holder'[c].password = holder[c].password
      <4> DEFINE g == [holder[c] EXCEPT !.age = IF @ \in {Idle, Unused} THEN @ ELSE @ + 1]
      <4>1. holder'[c] = [g EXCEPT !.left = IF @ = 0 THEN 0 ELSE @ - 1]
        BY <1>1 DEF Tick
      <4>2. holder[c] \in Holders
        BY DEF IInv, Types
      <4>3. g.password = holder[c].password /\ DOMAIN g = DOMAIN holder[c]
        BY <4>2 DEF Holders
      <4>4. "password" \in DOMAIN g
        BY <4>2, <4>3 DEF Holders
      <4> HIDE DEF g
      <4> QED
        BY <4>1, <4>3, <4>4
    <3> QED
      BY <3>1
  <2> QED
    BY <2>1 DEF Brings
<1>2. CASE ForgetSecondPassword \/ StrategyAsks \/ Login \/ TachibanaStops \/ UNCHANGED vars
  <2>1. \/ UNCHANGED holder
        \/ holder' = [holder EXCEPT ![1] = Cleared(holder[1])]
        \/ holder' = [holder EXCEPT ![1] = Got(holder[1])]
        \/ holder' = [holder EXCEPT ![1] = Probed(holder[1])]
        \/ holder' = [holder EXCEPT ![1] = Touched(Probed(holder[1]))]
    BY <1>2 DEF ForgetSecondPassword, StrategyAsks, Login, TachibanaStops, vars
  <2> QED
    BY <2>1, FirstIsClient, MethodsKeep
<1>3. ASSUME NEW o \in Orders, TachibanaStarts(o) \/ ListAnswered(o) PROVE ~Brings
  <2>1. \/ UNCHANGED holder
        \/ holder' = [holder EXCEPT ![1] = Got(Touched(Probed(holder[1])))]
        \/ holder' = [holder EXCEPT ![1] = Succeeded(holder[1])]
        \/ holder' = [holder EXCEPT ![1] = Cleared(holder[1])]
    BY <1>3 DEF TachibanaStarts, ListAnswered
  <2> QED
    BY <2>1, FirstIsClient, MethodsKeep
<1>4. ASSUME NEW o \in Orders, KabuStarts(o) PROVE ~Brings
  <2> DEFINE at == holderOf[current]
  <2>1. \/ holder' = [holder EXCEPT ![at] = Touched(Got(Probed(holder[at])))]
        \/ holder' = [holder EXCEPT ![at] = Got(Probed(holder[at]))]
    BY <1>4 DEF KabuStarts
  <2>2. at \in Clients
    BY DEF IInv, Types
  <2> HIDE DEF at
  <2> QED
    BY <2>1, <2>2, MethodsKeep
<1>5. ASSUME NEW o \in Orders,
             \/ LockAcquired(o) \/ DialogCancelled(o) \/ Refused(o) \/ Accepted(o)
             \/ FailsOtherwise(o) \/ SessionExpired(o)
      PROVE ~Brings
  <2> DEFINE at == Mine(o)
             last == holderOf[current]
  <2>1. \/ UNCHANGED holder
        \/ holder' = [holder EXCEPT ![at] = Touched(Got(holder[at]))]
        \/ holder' = [holder EXCEPT ![at] = Got(holder[at])]
        \/ holder' = [holder EXCEPT ![at] = Invalid(holder[at])]
        \/ holder' = [holder EXCEPT ![at] = Succeeded(holder[at])]
        \/ holder' = [holder EXCEPT ![1] = Succeeded(holder[1])]
        \/ holder' = [holder EXCEPT ![1] = Cleared(holder[1])]
        \/ holder' = [holder EXCEPT ![last] = Cleared(holder[last])]
    BY <1>5 DEF LockAcquired, DialogCancelled, Refused, Accepted, FailsOtherwise, SessionExpired
  <2>2. at \in Clients /\ last \in Clients
    BY MineIsClient DEF IInv, Types
  <2> HIDE DEF at, last
  <2> QED
    BY <2>1, <2>2, FirstIsClient, MethodsKeep
<1> QED
  BY <1>1, <1>2, <1>3, <1>4, <1>5 DEF Next

(* Who is left out by DialogOnlyWithout: commands whose holder another order
   client in use has too.                                                    *)
Alone(o) == \A c \in Clients : c # client[o] => holderOf[c] # Mine(o) \/ c > current

LEMMA StaysAlone ==
    ASSUME IInv, [Next]_vars, NEW o \in Orders, client'[o] = client[o], Alone(o)'
    PROVE  Alone(o) /\ Mine(o)' = Mine(o)
<1>1. UNCHANGED venue
  BY DEF Next, Tick, SetSecondPassword, ForgetSecondPassword, StrategyAsks, Login, TachibanaStops,
         TachibanaStarts, ListAnswered, KabuStarts, LockAcquired, DialogAnswered, DialogCancelled,
         Refused, Accepted, FailsOtherwise, SessionExpired, vars, world
<1>2. client[o] \in Clients /\ client[o] <= current /\ current \in Nat /\ Clients \subseteq Nat
  BY PasswordAssumption DEF IInv, Types, ClientsMade, Clients
<1>3. CASE Login /\ venue # Tachibana
  <2>1. /\ current' = current + 1
        /\ holderOf' = [holderOf EXCEPT ![current + 1] = IF session THEN holderOf[current] ELSE current + 1]
    BY <1>3 DEF Login
  <2>2. \A c \in Clients : c <= current => holderOf'[c] = holderOf[c]
    BY <1>2, <2>1 DEF IInv, Types
  <2>3. Mine(o)' = Mine(o)
    <3>1. holderOf'[client[o]] = holderOf[client[o]]
      BY <1>2, <2>2
    <3> QED
      BY <1>1, <3>1 DEF Mine
  <2> QED
    BY <1>2, <2>1, <2>2, <2>3 DEF Alone
<1>4. CASE ~(Login /\ venue # Tachibana)
  <2>1. UNCHANGED <<current, holderOf>>
    BY <1>4 DEF Next, Tick, SetSecondPassword, ForgetSecondPassword, StrategyAsks, Login, TachibanaStops,
           TachibanaStarts, ListAnswered, KabuStarts, LockAcquired, DialogAnswered, DialogCancelled,
           Refused, Accepted, FailsOtherwise, SessionExpired, vars, world
  <2>2. Mine(o)' = Mine(o)
    BY <1>1, <2>1 DEF Mine
  <2> QED
    BY <2>1, <2>2 DEF Alone
<1> QED
  BY <1>3, <1>4

(* Who has the dialog had it before, or has just found no password. *)
LEMMA DialogsAre ==
    ASSUME IInv, [Next]_vars, NEW o \in Orders, pc'[o] = "dialog"
    PROVE  /\ client'[o] = client[o]
           /\ pc[o] = "dialog" \/ holder'[Mine(o)].password = 0
<1>1. CASE UNCHANGED <<pc, client>>
  BY <1>1
<1>2. ASSUME NEW p \in Orders, NEW where, where # "dialog", pc' = [pc EXCEPT ![p] = where],
             client' = client \/ client' = [client EXCEPT ![p] = current]
      PROVE  pc[o] = "dialog" /\ client'[o] = client[o]
  BY <1>2 DEF IInv, Types
<1>3. ASSUME NEW p \in Orders, LockAcquired(p)
      PROVE  client'[o] = client[o] /\ (pc[o] = "dialog" \/ holder'[Mine(o)].password = 0)
  <2> DEFINE at == Mine(p)
             h == Got(holder[at])
  <2>1. CASE pc' = [pc EXCEPT ![p] = "sent"]
    BY <1>2, <1>3, <2>1 DEF LockAcquired
  <2>2. CASE pc' = [pc EXCEPT ![p] = "dialog"] /\ h.password = 0 /\ holder' = [holder EXCEPT ![at] = h]
    <3>1. CASE o # p
      BY <1>3, <2>2, <3>1 DEF LockAcquired, IInv, Types
    <3>2. CASE o = p
      <4>1. at \in Clients /\ holder'[at] = h
        BY <2>2, MineIsClient DEF IInv, Types
      <4> QED
        BY <1>3, <2>2, <3>2, <4>1 DEF LockAcquired
    <3> QED
      BY <3>1, <3>2
  <2> QED
    BY <1>3, <2>1, <2>2 DEF LockAcquired, Leaves
<1>4. CASE \E p \in Orders : TachibanaStarts(p) \/ KabuStarts(p) \/ DialogAnswered(p)
  <2>1. PICK p \in Orders : TachibanaStarts(p) \/ KabuStarts(p) \/ DialogAnswered(p)
    BY <1>4
  <2>2. client' = client \/ client' = [client EXCEPT ![p] = current]
    BY <2>1 DEF TachibanaStarts, KabuStarts, DialogAnswered
  <2>3. \E where \in {"sent", "listing", "queued"} : pc' = [pc EXCEPT ![p] = where]
    BY <2>1 DEF TachibanaStarts, KabuStarts, DialogAnswered, Leaves
  <2> QED
    BY <1>2, <2>2, <2>3
<1>5. CASE \E p \in Orders : \/ ListAnswered(p) \/ DialogCancelled(p) \/ Refused(p) \/ Accepted(p)
                             \/ FailsOtherwise(p) \/ SessionExpired(p)
  <2>1. PICK p \in Orders : \/ ListAnswered(p) \/ DialogCancelled(p) \/ Refused(p) \/ Accepted(p)
                            \/ FailsOtherwise(p) \/ SessionExpired(p)
    BY <1>5
  <2>2. client' = client /\ \E where \in {"idle", "sentAll"} : pc' = [pc EXCEPT ![p] = where]
    BY <2>1 DEF ListAnswered, DialogCancelled, Refused, Accepted, FailsOtherwise, SessionExpired, Ends
  <2> QED
    BY <1>2, <2>2
<1>6. CASE Tick \/ SetSecondPassword \/ ForgetSecondPassword \/ StrategyAsks \/ Login \/ TachibanaStops
           \/ UNCHANGED vars
  BY <1>1, <1>6 DEF Tick, SetSecondPassword, ForgetSecondPassword, StrategyAsks, Login, TachibanaStops, vars
<1> QED
  BY <1>3, <1>4, <1>5, <1>6 DEF Next

LEMMA DialogStep == ASSUME IInv, LockInv, [Next]_vars PROVE DialogOnlyWithout'
<1> SUFFICES ASSUME NEW o \in Orders, pc'[o] = "dialog", Alone(o)'
             PROVE  holder'[Mine(o)'].password = 0
  BY DEF DialogOnlyWithout, Alone
<1>1. /\ client'[o] = client[o] /\ (pc[o] = "dialog" \/ holder'[Mine(o)].password = 0)
      /\ Alone(o) /\ Mine(o)' = Mine(o) /\ Mine(o) \in Clients
  BY DialogsAre, StaysAlone, MineIsClient
<1> SUFFICES ASSUME pc[o] = "dialog" PROVE holder'[Mine(o)].password = 0
  BY <1>1
<1>2. holder[Mine(o)].password = 0
  BY <1>1 DEF LockInv, DialogOnlyWithout, Alone
<1>3. venue = Kabu /\ queue[client[o]][1] = o
  BY DEF LockInv, InTurn, Waiting
<1>4. ~SetSecondPassword
  BY <1>3, PasswordAssumption DEF SetSecondPassword
<1>5. CASE \A p \in Orders : ~DialogAnswered(p)
  BY <1>1, <1>2, <1>4, <1>5, OnlyEntriesBring DEF Brings
<1>6. ASSUME NEW p \in Orders, DialogAnswered(p) PROVE holder'[Mine(o)].password = 0
  <2>1. pc[p] = "dialog" /\ pc'[p] = "sent" /\ p # o
    BY <1>6 DEF DialogAnswered, Leaves, IInv, Types
  <2>2. client[p] # client[o]
    BY <1>3, <2>1 DEF LockInv, InTurn
  <2>3. client[p] \in Clients /\ client[p] <= current /\ current \in Nat /\ Clients \subseteq Nat
    BY PasswordAssumption DEF IInv, Types, ClientsMade, Clients
  <2>4. Mine(p) # Mine(o)
    <3>1. holderOf[client[p]] # Mine(o)
      <4>1. client[p] \in Nat /\ client[p] <= current /\ current \in Nat
        BY <2>3
      <4>2. \A m, n \in Nat : m <= n => ~(m > n)
        OBVIOUS
      <4>3. ~(client[p] > current)
        BY <4>1, <4>2
      <4> QED
        BY <1>1, <2>2, <2>3, <4>3 DEF Alone
    <3>2. Mine(p) = holderOf[client[p]]
      BY <1>3, PasswordAssumption DEF Mine
    <3> QED
      BY <3>1, <3>2
  <2>5. holder' = [holder EXCEPT ![Mine(p)] = Set(@, typed + 1)]
    BY <1>6 DEF DialogAnswered
  <2> QED
    BY <1>1, <1>2, <2>4, <2>5 DEF IInv, Types
<1> QED
  BY <1>5, <1>6

(* A dialog of kabu STATION is open only while its holder has no password, for
   any number of orders sent together: the first that has the lock asks, the
   others find what was typed (_ensure_trade_password).                      *)
THEOREM PasswordDialogOnlyWithout == Spec => []DialogOnlyWithout
<1>1. Init => LockInv
  <2>1. ASSUME Init PROVE QueueTypes
    BY <2>1 DEF Init, QueueTypes
  <2>2. ASSUME Init PROVE InTurn /\ DialogOnlyWithout
    BY <2>2 DEF Init, InTurn, DialogOnlyWithout, Waiting
  <2> QED
    BY <2>1, <2>2 DEF LockInv
<1>2. IInv /\ LockInv /\ [Next]_vars => LockInv'
  BY QueueStep, DialogStep DEF LockInv
<1>3. LockInv => DialogOnlyWithout
  BY DEF LockInv
<1> QED
  BY <1>1, <1>2, <1>3, Inductive, PTL DEF Spec
=============================================================================
