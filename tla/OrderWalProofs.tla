--------------------------- MODULE OrderWalProofs ---------------------------
(***************************************************************************)
(* Proofs about OrderWal, for every set of orders and ids and any number   *)
(* of days.  Two lemmas say what a write and what a power loss leave of    *)
(* the file; the rest follows from them piece by piece.                    *)
(***************************************************************************)
EXTENDS OrderWal, SequenceTheorems, TLAPS

Phases == {"submit", "accepted", "rejected"}

-----------------------------------------------------------------------------
(* What the file is after a step.                                           *)

LEMMA CutTyped ==
  ASSUME NEW l \in Piece, NEW c \in Cut(l)
  PROVE  c \in Piece /\ c.order = l.order /\ c.phase = l.phase
<1>1. PICK w \in {FALSE, l.whole} : c = [l EXCEPT !.whole = w, !.ended = FALSE]
  BY DEF Cut
<1>2. w \in BOOLEAN
  BY DEF Piece
<1> QED
  BY <1>1, <1>2 DEF Piece

LEMMA LineTyped ==
  ASSUME TypeOK, NEW o \in Orders, NEW p \in Phases
  PROVE  /\ Line(o, p) \in Piece
         /\ \A c \in Cut(Line(o, p)) : c \in Piece /\ c.order = o /\ c.phase = p
<1>1. Line(o, p) \in Piece /\ Line(o, p).order = o /\ Line(o, p).phase = p
  BY DEF TypeOK, Line, Piece, Phases
<1> QED
  BY <1>1, CutTyped

LEMMA PieceOwner ==
  ASSUME TypeOK, NEW i \in 1 .. Len(wal)
  PROVE  wal[i].order \in Orders
<1>1. wal[i] \in Piece
  BY ElementOfSeq DEF TypeOK
<1> QED
  BY <1>1 DEF Piece

(* A write of a line, whole or not, changes no piece before it.             *)
LEMMA WriteAppends ==
  ASSUME TypeOK, NEW o \in Orders, NEW p \in Phases,
         NEW ps \in LeftOf(Line(o, p)), wal' = Appended(ps)
  PROVE  /\ wal' \in Seq(Piece)
         /\ Len(wal') \in Len(wal) .. Len(wal) + 1
         /\ \A i \in 1 .. Len(wal) : wal'[i] = wal[i]
         /\ \A i \in 1 .. Len(wal') :
                i > Len(wal) => wal'[i].order = o /\ wal'[i].phase = p
<1>1. ps = <<>> \/ \E c \in Piece : ps = <<c>> /\ c.order = o /\ c.phase = p
  <2>1. CASE ps \in {<<>>, <<Line(o, p)>>}
    BY <2>1, LineTyped DEF Line
  <2>2. CASE ps \in {<<c>> : c \in Cut(Line(o, p))}
    BY <2>2, LineTyped
  <2> QED
    BY <2>1, <2>2 DEF LeftOf
<1>2. ps \in Seq(Piece) /\ Len(ps) \in 0 .. 1
      /\ \A i \in 1 .. Len(ps) : ps[i].order = o /\ ps[i].phase = p
  <2>1. CASE ps = <<>>
    BY <2>1
  <2>2. CASE \E c \in Piece : ps = <<c>> /\ c.order = o /\ c.phase = p
    BY <2>2
  <2> QED
    BY <1>1, <2>1, <2>2
<1>3. wal \in Seq(Piece) /\ wal' = wal \o ps
  BY DEF TypeOK, Appended
<1>4. /\ wal \o ps \in Seq(Piece)
      /\ Len(wal \o ps) = Len(wal) + Len(ps)
      /\ \A i \in 1 .. Len(wal) + Len(ps) :
            (wal \o ps)[i] = IF i <= Len(wal) THEN wal[i] ELSE ps[i - Len(wal)]
  BY <1>2, <1>3, ConcatProperties
<1>5. Len(wal) \in Nat
  BY <1>3, LenProperties
<1> QED
  BY <1>2, <1>3, <1>4, <1>5

(* A power loss leaves the synced pieces as they are, and of the others some,
   the last of them perhaps shortened.                                      *)
LEMMA LossLeavesPrefix ==
  ASSUME TypeOK, PowerLoss
  PROVE  /\ wal' \in Seq(Piece)
         /\ Len(wal') \in synced .. Len(wal)
         /\ \A i \in 1 .. synced : wal'[i] = wal[i]
         /\ \A i \in 1 .. Len(wal') :
                wal'[i].order = wal[i].order /\ wal'[i].phase = wal[i].phase
<1>1. wal \in Seq(Piece) /\ Len(wal) \in Nat /\ synced \in 0 .. Len(wal)
      /\ \A i \in 1 .. Len(wal) : wal[i] \in Piece
  BY LenProperties, ElementOfSeq DEF TypeOK
<1>2. PICK k \in synced .. Len(wal) :
        \/ wal' = SubSeq(wal, 1, k)
        \/ /\ k < Len(wal)
           /\ \E c \in Cut(wal[k + 1]) : wal' = SubSeq(wal, 1, k) \o <<c>>
  BY DEF PowerLoss
<1> k \in Nat
  BY <1>1
<1>3. /\ SubSeq(wal, 1, k) \in Seq(Piece)
      /\ Len(SubSeq(wal, 1, k)) = k
      /\ \A i \in 1 .. k : SubSeq(wal, 1, k)[i] = wal[i]
  BY <1>1, SubSeqProperties
<1>4. CASE wal' = SubSeq(wal, 1, k)
  BY <1>1, <1>3, <1>4
<1>5. CASE k < Len(wal) /\ \E c \in Cut(wal[k + 1]) : wal' = SubSeq(wal, 1, k) \o <<c>>
  <2>1. PICK c \in Cut(wal[k + 1]) : wal' = SubSeq(wal, 1, k) \o <<c>>
    BY <1>5
  <2>2. c \in Piece /\ c.order = wal[k + 1].order /\ c.phase = wal[k + 1].phase
    <3>1. wal[k + 1] \in Piece
      BY <1>1, <1>5
    <3> QED
      BY <3>1, CutTyped
  <2>3. <<c>> \in Seq(Piece) /\ Len(<<c>>) = 1 /\ <<c>>[1] = c
    BY <2>2
  <2> DEFINE q == SubSeq(wal, 1, k)
             t == <<c>>
  <2>4. /\ wal' \in Seq(Piece)
        /\ Len(wal') = Len(q) + Len(t)
        /\ \A i \in 1 .. Len(q) + Len(t) :
              wal'[i] = IF i <= Len(q) THEN q[i] ELSE t[i - Len(q)]
    <3>1. q \in Seq(Piece) /\ t \in Seq(Piece) /\ wal' = q \o t
      BY <1>3, <2>1, <2>3
    <3> HIDE DEF q, t
    <3> QED
      BY <3>1, ConcatProperties
  <2>5. \A i \in 1 .. k : wal'[i] = wal[i]
    BY <1>3, <2>4
  <2>6. wal'[k + 1] = c
    BY <1>3, <2>3, <2>4, <1>1
  <2> QED
    BY <1>1, <1>3, <1>5, <2>2, <2>3, <2>4, <2>5, <2>6
<1> QED
  BY <1>2, <1>4, <1>5
-----------------------------------------------------------------------------
(* The inductive invariant.                                                 *)

LEMMA InitIInv == Init => IInv
<1> SUFFICES ASSUME Init PROVE IInv
  OBVIOUS
<1>1. wal = <<>> /\ Len(wal) = 0
  BY DEF Init
<1>2. TypeOK
  BY <1>1, WalAssumption DEF Init, TypeOK, Stages, VenueStates, Answers
<1>3. SentIsLogged /\ NewUnsent
  BY DEF Init, SentIsLogged, NewUnsent
<1>4. LinesOwned /\ RejectedRefused
  BY <1>1 DEF LinesOwned, RejectedRefused
<1> QED
  BY <1>2, <1>3, <1>4 DEF IInv

(* What a step may do to the file, with what it says of the order written
   for: nothing, append a piece for one order, or lose power.               *)
Writes(o, p) ==
    /\ \E ps \in LeftOf(Line(o, p)) : wal' = Appended(ps)
    /\ stage'[o] # "new"
    /\ p = "rejected" => venue'[o] = "refused"
    /\ synced' = synced \/ (synced' = Len(wal') /\ Len(wal') = Len(wal) + 1)

LEMMA FileSteps ==
  ASSUME IInv, [Next]_vars
  PROVE  \/ wal' = wal /\ synced' = synced
         \/ \E o \in Orders, p \in Phases : Writes(o, p)
         \/ PowerLoss
<1> USE DEF IInv
<1>1. ASSUME NEW o \in Orders, Submit(o) PROVE Writes(o, "submit")
  <2>1. wal' = Appended(<<Line(o, "submit")>>) /\ synced' = Len(wal')
    BY <1>1 DEF Submit, LogSubmit
  <2>2. Len(wal') = Len(wal) + 1
    <3>1. wal \in Seq(Piece) /\ <<Line(o, "submit")>> \in Seq(Piece)
      BY LineTyped DEF TypeOK, Phases
    <3> QED
      BY <2>1, <3>1, ConcatProperties DEF Appended
  <2>3. stage'[o] # "new"
    BY <1>1 DEF Submit, TypeOK
  <2> QED
    BY <2>1, <2>2, <2>3 DEF Writes, LeftOf
<1>2. ASSUME NEW o \in Orders, SubmitNotLogged(o) PROVE Writes(o, "submit")
  BY <1>2 DEF SubmitNotLogged, Ends, Writes, TypeOK
<1>3. ASSUME NEW o \in Orders, VenueAnswers(o) \/ AnswerNotLogged(o)
      PROVE  \E p \in Phases : Writes(o, p)
  <2>1. PICK p \in Phases : /\ AnswerLine(o) = Line(o, p)
                            /\ p = "rejected" => venue[o] = "refused"
    BY DEF AnswerLine, Phases
  <2>2. <<Line(o, p)>> \in LeftOf(Line(o, p))
    BY DEF LeftOf
  <2>3. \E ps \in LeftOf(Line(o, p)) : wal' = Appended(ps)
    BY <1>3, <2>1, <2>2 DEF VenueAnswers, AnswerNotLogged
  <2>4. stage'[o] # "new" /\ venue' = venue /\ synced' = synced
    BY <1>3 DEF VenueAnswers, AnswerNotLogged, Ends, TypeOK
  <2> QED
    BY <2>1, <2>3, <2>4 DEF Writes
<1>4. ASSUME NEW o \in Orders, RefuseEarly(o) \/ NoAnswer(o) \/ AtVenue(o)
      PROVE  wal' = wal /\ synced' = synced
  BY <1>4 DEF RefuseEarly, NoAnswer, AtVenue, VenueDecides, VenueSettles
<1>5. CASE EngineDies \/ NewDay \/ UNCHANGED vars
  BY <1>5 DEF EngineDies, NewDay, vars
<1> QED
  BY <1>1, <1>2, <1>3, <1>4, <1>5 DEF Next, Submission, Phases

(* What a step may do to an order: it is never new again, a refused order
   stays refused, and only Submit makes a request.                          *)
LEMMA OrderSteps ==
  ASSUME IInv, [Next]_vars
  PROVE  /\ stage' \in [Orders -> Stages] /\ venue' \in [Orders -> VenueStates]
         /\ told' \in [Orders -> Answers]
         /\ id' = id /\ goodTill' = goodTill /\ day' \in 0 .. MaxDay
         /\ \A o \in Orders :
               /\ stage[o] # "new" => stage'[o] # "new"
               /\ venue[o] = "refused" => venue'[o] = "refused"
               /\ stage'[o] = "new" => venue'[o] = "none"
               /\ venue[o] = "none" /\ venue'[o] # "none" => Submit(o)
<1> USE DEF IInv, TypeOK, NewUnsent, Stages, VenueStates, Answers
<1>1. ASSUME NEW o \in Orders, Submission(o)
      PROVE  /\ stage' \in [Orders -> Stages] /\ venue' \in [Orders -> VenueStates]
             /\ told' \in [Orders -> Answers]
             /\ id' = id /\ goodTill' = goodTill /\ day' = day
             /\ \A q \in Orders :
                   /\ stage[q] # "new" => stage'[q] # "new"
                   /\ stage'[q] = "new" => stage[q] = "new" /\ q # o
                   /\ venue'[q] = venue[q] \/ (q = o /\ Submit(o) /\ venue[o] = "none")
  <2>1. CASE Submit(o)
    BY <2>1 DEF Submit
  <2>2. CASE RefuseEarly(o) \/ SubmitNotLogged(o)
    BY <2>2 DEF RefuseEarly, SubmitNotLogged, Ends
  <2>3. CASE VenueAnswers(o) \/ AnswerNotLogged(o) \/ NoAnswer(o)
    BY <2>3 DEF VenueAnswers, AnswerNotLogged, NoAnswer, Ends
  <2> QED
    BY <1>1, <2>1, <2>2, <2>3 DEF Submission
<1>2. ASSUME NEW o \in Orders, AtVenue(o)
      PROVE  /\ stage' = stage /\ told' = told /\ venue' \in [Orders -> VenueStates]
             /\ id' = id /\ goodTill' = goodTill /\ day' = day
             /\ \A q \in Orders : venue[q] \in {"none", "refused"} => venue'[q] = venue[q]
             /\ \A q \in Orders : venue[q] # "none" => venue'[q] # "none"
  BY <1>2 DEF AtVenue, VenueDecides, VenueSettles
<1>3. ASSUME EngineDies \/ PowerLoss \/ UNCHANGED vars
      PROVE  /\ stage' \in [Orders -> Stages] /\ venue' = venue /\ told' = told
             /\ id' = id /\ goodTill' = goodTill /\ day' = day
             /\ \A q \in Orders : stage'[q] = "new" <=> stage[q] = "new"
  BY <1>3 DEF EngineDies, PowerLoss, AllGone, vars
<1>4. ASSUME NewDay
      PROVE  /\ stage' = stage /\ told' = told /\ venue' \in [Orders -> VenueStates]
             /\ id' = id /\ goodTill' = goodTill /\ day' \in 0 .. MaxDay
             /\ \A q \in Orders : venue[q] # "live" => venue'[q] = venue[q]
             /\ \A q \in Orders : venue[q] = "live" => venue'[q] # "none"
  BY <1>4, WalAssumption DEF NewDay
<1>5. CASE \E o \in Orders : Submission(o)
  BY <1>1, <1>5
<1>6. CASE \E o \in Orders : AtVenue(o)
  BY <1>2, <1>6
<1>7. CASE EngineDies \/ PowerLoss \/ UNCHANGED vars
  BY <1>3, <1>7
<1>8. CASE NewDay
  BY <1>4, <1>8
<1> QED
  BY <1>5, <1>6, <1>7, <1>8 DEF Next
LEMMA StepTypeOK ==
  ASSUME IInv, [Next]_vars
  PROVE  TypeOK'
<1>1. wal' \in Seq(Piece) /\ synced' \in 0 .. Len(wal')
  <2>1. wal \in Seq(Piece) /\ Len(wal) \in Nat /\ synced \in 0 .. Len(wal) /\ TypeOK
    BY LenProperties DEF IInv, TypeOK
  <2>2. CASE wal' = wal /\ synced' = synced
    BY <2>1, <2>2
  <2>3. CASE \E o \in Orders, p \in Phases : Writes(o, p)
    BY <2>1, <2>3, WriteAppends DEF Writes
  <2>4. CASE PowerLoss
    <3>1. synced' = Len(wal')
      BY <2>4 DEF PowerLoss
    <3> QED
      BY <2>1, <2>4, <3>1, LossLeavesPrefix
  <2> QED
    BY <2>2, <2>3, <2>4, FileSteps
<1>2. /\ stage' \in [Orders -> Stages] /\ venue' \in [Orders -> VenueStates]
      /\ told' \in [Orders -> Answers]
      /\ id' = id /\ goodTill' = goodTill /\ day' \in 0 .. MaxDay
  BY OrderSteps
<1> QED
  BY <1>1, <1>2 DEF IInv, TypeOK

(* Synced pieces stay what and where they are.                              *)
LEMMA SyncedStays ==
  ASSUME IInv, [Next]_vars
  PROVE  /\ synced <= synced' /\ synced <= Len(wal')
         /\ \A i \in 1 .. synced : wal'[i] = wal[i]
<1>1. wal \in Seq(Piece) /\ Len(wal) \in Nat /\ synced \in 0 .. Len(wal) /\ TypeOK
  BY LenProperties DEF IInv, TypeOK
<1>2. CASE wal' = wal /\ synced' = synced
  BY <1>1, <1>2
<1>3. CASE \E o \in Orders, p \in Phases : Writes(o, p)
  BY <1>1, <1>3, WriteAppends DEF Writes
<1>4. CASE PowerLoss
  <2>1. synced' = Len(wal')
    BY <1>4 DEF PowerLoss
  <2> QED
    BY <1>1, <1>4, <2>1, LossLeavesPrefix
<1> QED
  BY <1>2, <1>3, <1>4, FileSteps

LEMMA StepSentIsLogged ==
  ASSUME IInv, [Next]_vars
  PROVE  SentIsLogged'
<1> SUFFICES ASSUME NEW o \in Orders, venue'[o] # "none"
             PROVE  \E i \in 1 .. synced' :
                      /\ wal'[i].order = o /\ wal'[i].phase = "submit"
                      /\ wal'[i].whole /\ wal'[i].ended
  BY DEF SentIsLogged
<1>1. wal \in Seq(Piece) /\ Len(wal) \in Nat /\ synced \in 0 .. Len(wal) /\ TypeOK
  BY LenProperties DEF IInv, TypeOK
<1>2. CASE venue[o] # "none"
  <2>1. PICK i \in 1 .. synced : /\ wal[i].order = o /\ wal[i].phase = "submit"
                                 /\ wal[i].whole /\ wal[i].ended
    BY <1>2 DEF IInv, SentIsLogged
  <2>2. synced' \in Nat /\ synced <= synced' /\ wal'[i] = wal[i]
    BY SyncedStays, StepTypeOK, LenProperties DEF TypeOK
  <2> QED
    BY <1>1, <2>1, <2>2
<1>3. CASE venue[o] = "none"
  <2>1. Submit(o)
    BY <1>3, OrderSteps
  <2> DEFINE t == <<Line(o, "submit")>>
  <2>2. t \in Seq(Piece) /\ Len(t) = 1 /\ t[1] = Line(o, "submit")
    BY <1>1, LineTyped DEF Phases
  <2>3. wal' = wal \o t /\ synced' = Len(wal')
    BY <2>1 DEF Submit, LogSubmit, Appended
  <2> HIDE DEF t
  <2>4. /\ Len(wal') = Len(wal) + 1
        /\ wal'[Len(wal) + 1] = t[1]
    BY <1>1, <2>2, <2>3, ConcatProperties
  <2> QED
    BY <1>1, <2>2, <2>3, <2>4 DEF Line
<1> QED
  BY <1>2, <1>3

LEMMA StepLines ==
  ASSUME IInv, [Next]_vars
  PROVE  LinesOwned' /\ RejectedRefused'
<1>1. wal \in Seq(Piece) /\ Len(wal) \in Nat /\ TypeOK
      /\ \A i \in 1 .. Len(wal) : wal[i].order \in Orders
  BY LenProperties, PieceOwner DEF IInv, TypeOK
<1>2. SUFFICES ASSUME NEW i \in 1 .. Len(wal')
               PROVE  /\ stage'[wal'[i].order] # "new"
                      /\ wal'[i].phase = "rejected" => venue'[wal'[i].order] = "refused"
  BY DEF LinesOwned, RejectedRefused
<1>3. CASE /\ i \in 1 .. Len(wal)
           /\ wal'[i].order = wal[i].order /\ wal'[i].phase = wal[i].phase
  <2>1. wal[i].order \in Orders /\ stage[wal[i].order] # "new"
        /\ (wal[i].phase = "rejected" => venue[wal[i].order] = "refused")
    BY <1>1, <1>3 DEF IInv, LinesOwned, RejectedRefused
  <2> QED
    BY <1>3, <2>1, OrderSteps
<1>4. CASE wal' = wal
  BY <1>3, <1>4
<1>5. CASE \E o \in Orders, p \in Phases : Writes(o, p)
  <2>1. PICK o \in Orders, p \in Phases : Writes(o, p)
    BY <1>5
  <2>2. /\ Len(wal') \in Len(wal) .. Len(wal) + 1
        /\ \A j \in 1 .. Len(wal) : wal'[j] = wal[j]
        /\ \A j \in 1 .. Len(wal') :
              j > Len(wal) => wal'[j].order = o /\ wal'[j].phase = p
    BY <1>1, <2>1, WriteAppends DEF Writes
  <2>3. CASE i > Len(wal)
    BY <2>1, <2>2, <2>3 DEF Writes
  <2>4. CASE ~(i > Len(wal))
    BY <1>1, <1>3, <2>2, <2>4
  <2> QED
    BY <2>3, <2>4
<1>6. CASE PowerLoss
  <2>1. i \in 1 .. Len(wal)
        /\ wal'[i].order = wal[i].order /\ wal'[i].phase = wal[i].phase
    BY <1>1, <1>6, LossLeavesPrefix DEF TypeOK
  <2> QED
    BY <1>3, <2>1
<1> QED
  BY <1>4, <1>5, <1>6, FileSteps

LEMMA StepIInv == IInv /\ [Next]_vars => IInv'
<1> SUFFICES ASSUME IInv, [Next]_vars PROVE IInv'
  OBVIOUS
<1>1. NewUnsent'
  BY OrderSteps DEF NewUnsent
<1> QED
  BY <1>1, StepTypeOK, StepSentIsLogged, StepLines DEF IInv

(* A line of the own id of an order that can be executed is not terminal,
   thus neither is any after it.                                            *)
LEMMA LiveFromIInv == IInv => LiveIsInFlight
<1> SUFFICES ASSUME IInv, NEW o \in Orders,
                    venue[o] \in {"pending", "live"}, OwnId(o),
                    NEW i \in TodaysLines(id[o]), wal[i].order = o
             PROVE  id[o] \in InFlight
  BY DEF LiveIsInFlight
<1>1. id[o] \in Ids
  BY DEF IInv, TypeOK
<1>2. ASSUME NEW j \in TodaysLines(id[o]) PROVE wal[j].phase \notin Terminal
  <2>1. j \in 1 .. Len(wal) /\ id[wal[j].order] = id[o]
    BY DEF TodaysLines
  <2>2. wal[j].order \in Orders
    BY <2>1, PieceOwner DEF IInv
  <2>3. stage[wal[j].order] # "new"
    BY <2>1 DEF IInv, LinesOwned
  <2>4. wal[j].order = o
    BY <2>1, <2>2, <2>3 DEF OwnId
  <2> QED
    BY <2>1, <2>4 DEF IInv, RejectedRefused, Terminal
<1> QED
  BY <1>1, <1>2 DEF InFlight

LEMMA SyncedReadable ==
  ASSUME IInv, [Next]_vars, NEW i \in 1 .. synced, wal[i].ended
  PROVE  /\ i <= Len(wal') /\ wal'[i] = wal[i]
         /\ Readable(i) => Readable(i)'
<1>1. synced \in Nat /\ Len(wal') \in Nat /\ synced <= Len(wal')
  BY SyncedStays, StepTypeOK, LenProperties DEF IInv, TypeOK
<1>2. wal'[i] = wal[i] /\ (i > 1 => wal'[i - 1] = wal[i - 1])
  BY <1>1, SyncedStays
<1>3. Readable(i) => Readable(i)'
  BY <1>2 DEF Readable
<1> QED
  BY <1>1, <1>2, <1>3

-----------------------------------------------------------------------------
(* The theorems.                                                            *)

(* The inductive invariant holds in every state.                            *)
THEOREM Invariance == Spec => []IInv
<1>1. Init => IInv
  BY InitIInv
<1>2. IInv /\ [Next]_vars => IInv'
  BY StepIInv
<1> QED
  BY <1>1, <1>2, PTL DEF Spec

(* Every variable keeps its type.                                           *)
THEOREM Typing == Spec => []TypeOK
<1>1. IInv => TypeOK
  BY DEF IInv
<1> QED
  BY <1>1, Invariance, PTL

(* No order is at the venue whose whole submit line is not on stable storage,
   whatever writes failed and whatever died.                                *)
THEOREM SentOrdersLogged == Spec => []SentIsLogged
<1>1. IInv => SentIsLogged
  BY DEF IInv
<1> QED
  BY <1>1, Invariance, PTL

(* The gate reports an order that can still be executed, its id being its own
   and a readable line of today naming it.                                  *)
THEOREM LiveOrdersReported == Spec => []LiveIsInFlight
  BY LiveFromIInv, Invariance, PTL

(* A synced line is neither changed nor hidden from the readers.            *)
THEOREM SyncedLinesStay == Spec => SyncedStaysReadable
<1>1. IInv /\ [Next]_vars
      => [\A i \in 1 .. synced : wal[i].ended =>
            /\ i <= Len(wal') /\ wal'[i] = wal[i]
            /\ Readable(i) => Readable(i)']_vars
  BY SyncedReadable
<1> QED
  BY <1>1, Invariance, PTL DEF Spec, SyncedStaysReadable
=============================================================================
