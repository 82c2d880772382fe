--------------------------- MODULE DownloadProofs ---------------------------
(***************************************************************************)
(* Proofs about Traffic and Download.  For any calls, figures and clock, and a *)
(* window of any length: what the last-day figures count is in the window,    *)
(* and what they miss is what a call a whole window behind another has cost.  *)
(* Download uses the counters only as Traffic allows, so all of it holds      *)
(* there too.  For a chunk and a slice of any size, any requests, and any     *)
(* Range header: types, what a client is sent, and what is counted.          *)
(***************************************************************************)
EXTENDS Download, TLAPS

(* A larger multiple is at least one multiplicand larger.                    *)
LEMMA NextMultiple ==
    ASSUME NEW w \in Nat, NEW a \in Int, NEW b \in Int, w * a < w * b
    PROVE  w * a + w <= w * b
<1>1. CASE a < b
  <2>1. b - a >= 1
    BY <1>1
  <2>2. w * (b - a) >= w
    BY <2>1, SMT
  <2> QED
    BY <2>2, SMT
<1>2. CASE b <= a
  <2>1. w * (a - b) >= 0
    BY <1>2, SMT
  <2> QED
    BY <2>1, SMT
<1> QED
  BY <1>1, <1>2

(* Two hours that share a slot are the same or a whole window apart.         *)
LEMMA SlotsAreReusedAWindowApart ==
    ASSUME NEW g \in Nat, NEW h \in Nat, slotOf(g) = slotOf(h), g < h
    PROVE  g + windowHours <= h
<1> DEFINE W == windowHours
           a == g \div W
           b == h \div W
<1>1. W \in Nat /\ W > 0
  BY TrafficAssumption
<1>2. a \in Int /\ b \in Int /\ g % W \in Int
  BY <1>1, SMT
<1>3. g = (W * a) + (g % W) /\ h = (W * b) + (h % W)
  BY <1>1, SMT
<1>4. W * a \in Int /\ W * b \in Int
  BY <1>1, <1>2, SMT
<1> HIDE DEF a, b, W
<1>5. g % W = h % W
  BY DEF slotOf, W
<1>6. W * a < W * b
  BY <1>2, <1>3, <1>4, <1>5
<1>7. W * a + W <= W * b
  BY <1>1, <1>2, <1>6, NextMultiple
<1> QED
  BY <1>1, <1>2, <1>3, <1>4, <1>5, <1>7 DEF W

-----------------------------------------------------------------------------
LEMMA SlotOfAnHour ==
    ASSUME NEW h \in Nat
    PROVE  slotOf(h) \in Slots
  BY TrafficAssumption, SMT DEF slotOf, Slots

(* Whoever is counted next is counted in a figure.                           *)
LEMMA NextFigure ==
    ASSUME TrafficTypeOK, NEW c \in Calls, pending[c] # <<>>
    PROVE  Head(pending[c]) \in Figures /\ Tail(pending[c]) \in Seq(Figures)
  BY DEF TrafficTypeOK

LEMMA TypeStep ==
    ASSUME TrafficTypeOK, [Next]_trafficVars
    PROVE  TrafficTypeOK'
<1>1. CASE UNCHANGED trafficVars
  BY <1>1 DEF TrafficTypeOK, trafficVars, windowVars
<1>2. ASSUME NEW c \in Calls, NEW batch \in Batches, Call(c, batch)
      PROVE  TrafficTypeOK'
  <2>1. batch \in Seq(Figures)
    BY TrafficAssumption
  <2>2. \A h \in 0..MaxHour : h \in Nat
    BY TrafficAssumption
  <2> QED
    BY <1>2, <2>1, <2>2 DEF TrafficTypeOK, Call, windowVars
<1>3. ASSUME NEW c \in Calls, Count(c)
      PROVE  TrafficTypeOK'
  <2> DEFINE f == Head(pending[c])
             h == calledAt[c]
  <2>1. f \in Figures /\ Tail(pending[c]) \in Seq(Figures)
    BY <1>3, NextFigure DEF Count
  <2>2. h \in Nat /\ slotOf(h) \in Slots
    BY SlotOfAnHour DEF TrafficTypeOK
  <2> HIDE DEF f, h
  <2>3. Add(f, c) /\ h = calledAt[c]
    BY <1>3 DEF Count, f, h
  <2>4. Kept(f, h) \cup {c} \in SUBSET Calls
    BY <2>1, <2>2 DEF TrafficTypeOK, Kept
  <2>5. slots' \in [Figures -> [Slots -> SUBSET Calls]]
    BY <2>1, <2>2, <2>3, <2>4 DEF Add, TrafficTypeOK
  <2>6. hours' \in [Figures -> [Slots -> Nat]]
    BY <2>1, <2>2, <2>3 DEF Add, TrafficTypeOK
  <2>7. total' \in [Figures -> SUBSET Calls] /\ late' \in SUBSET Figures
    BY <2>1, <2>3 DEF Add, TrafficTypeOK
  <2>8. pending' \in [Calls -> Seq(Figures)] /\ calledAt' \in [Calls -> Nat]
    BY <1>3, <2>1 DEF Count, TrafficTypeOK
  <2> QED
    BY <2>5, <2>6, <2>7, <2>8 DEF TrafficTypeOK
<1> QED
  BY <1>1, <1>2, <1>3 DEF Next

(* What an Add leaves in a slot.                                             *)
LEMMA SlotsAfterAdd ==
    ASSUME TrafficTypeOK, NEW f \in Figures, NEW c \in Calls, Add(f, c),
           NEW g \in Figures, NEW s \in Slots
    PROVE  IF g = f /\ s = slotOf(calledAt[c])
           THEN /\ slots'[g][s] = Kept(f, calledAt[c]) \cup {c}
                /\ hours'[g][s] = calledAt[c]
           ELSE slots'[g][s] = slots[g][s] /\ hours'[g][s] = hours[g][s]
<1>1. slotOf(calledAt[c]) \in Slots
  BY SlotOfAnHour DEF TrafficTypeOK
<1> QED
  BY <1>1 DEF Add, TrafficTypeOK

LEMMA DatedStep ==
    ASSUME TrafficTypeOK, SlotsAreDated, [Next]_trafficVars
    PROVE  SlotsAreDated'
<1>1. CASE UNCHANGED trafficVars
  BY <1>1 DEF SlotsAreDated, slotOf, trafficVars, windowVars
<1>2. ASSUME NEW c \in Calls, NEW batch \in Batches, Call(c, batch)
      PROVE  SlotsAreDated'
  <2>1. \A d \in Calls \ {c} : calledAt'[d] = calledAt[d]
    BY <1>2 DEF Call, TrafficTypeOK
  <2>2. \A g \in Figures, s \in Slots : \A d \in slots[g][s] : d \in Calls \ {c}
    BY <1>2 DEF Call, SlotsAreDated, TrafficTypeOK
  <2> QED
    BY <1>2, <2>1, <2>2 DEF Call, windowVars, SlotsAreDated, slotOf
<1>3. ASSUME NEW c \in Calls, Count(c)
      PROVE  SlotsAreDated'
  <2> DEFINE f == Head(pending[c])
  <2>1. f \in Figures /\ Add(f, c) /\ calledAt' = calledAt
    BY <1>3, NextFigure DEF Count
  <2> HIDE DEF f
  <2> SUFFICES ASSUME NEW g \in Figures, NEW s \in Slots, NEW d \in slots'[g][s]
               PROVE  /\ d \in total'[g]
                      /\ calledAt[d] = hours'[g][s]
                      /\ slotOf(calledAt[d]) = s
    BY <2>1 DEF SlotsAreDated, slotOf
  <2>2. total[g] \subseteq total'[g] /\ (g = f => c \in total'[g])
    BY <2>1 DEF Add, TrafficTypeOK
  <2>3. CASE g = f /\ s = slotOf(calledAt[c])
    <3>1. hours'[g][s] = calledAt[c] /\ slots'[g][s] = Kept(f, calledAt[c]) \cup {c}
      BY <2>1, <2>3, SlotsAfterAdd
    <3>2. CASE d = c
      BY <2>2, <2>3, <3>1, <3>2
    <3>3. CASE d # c
      <4>1. d \in slots[g][s] /\ hours[g][s] = calledAt[c]
        BY <2>3, <3>1, <3>3 DEF Kept
      <4> QED
        BY <2>2, <3>1, <4>1 DEF SlotsAreDated
    <3> QED
      BY <3>2, <3>3
  <2>4. CASE ~(g = f /\ s = slotOf(calledAt[c]))
    <3>1. slots'[g][s] = slots[g][s] /\ hours'[g][s] = hours[g][s]
      BY <2>1, <2>4, SlotsAfterAdd
    <3> QED
      BY <2>2, <3>1 DEF SlotsAreDated
  <2> QED
    BY <2>3, <2>4
<1> QED
  BY <1>1, <1>2, <1>3 DEF Next

(* A call is pushed out of its slot by a later one of a whole window's time,  *)
(* or the call that pushes it out makes its figure late.                     *)
LEMMA KeptStep ==
    ASSUME TrafficTypeOK, SlotsAreDated, SlotsAreKept, [Next]_trafficVars
    PROVE  SlotsAreKept'
<1>1. CASE UNCHANGED trafficVars
  BY <1>1 DEF SlotsAreKept, slotOf, trafficVars, windowVars
<1>2. ASSUME NEW c \in Calls, NEW batch \in Batches, Call(c, batch)
      PROVE  SlotsAreKept'
  <2>1. \A d \in Calls \ {c} : calledAt'[d] = calledAt[d]
    BY <1>2 DEF Call, TrafficTypeOK
  <2>2. \A g \in Figures : total[g] \subseteq Calls \ {c}
    BY <1>2 DEF Call, TrafficTypeOK
  <2> QED
    BY <1>2, <2>1, <2>2 DEF Call, windowVars, SlotsAreKept, slotOf
<1>3. ASSUME NEW c \in Calls, Count(c)
      PROVE  SlotsAreKept'
  <2> DEFINE f == Head(pending[c])
             h == calledAt[c]
  <2>1. f \in Figures /\ Add(f, c) /\ calledAt' = calledAt
    BY <1>3, NextFigure DEF Count
  <2>2. h \in Nat /\ slotOf(h) \in Slots
    BY SlotOfAnHour DEF TrafficTypeOK
  <2> HIDE DEF f
  <2> SUFFICES ASSUME NEW g \in Figures \ late', NEW e \in total'[g]
               PROVE  \/ e \in slots'[g][slotOf(calledAt[e])]
                      \/ \E d \in total'[g] : calledAt[e] + windowHours <= calledAt[d]
    BY <2>1 DEF SlotsAreKept, slotOf
  <2>3. g \notin late /\ total[g] \subseteq total'[g]
    BY <2>1 DEF Add, TrafficTypeOK
  <2>4. CASE g = f /\ e = c
    <3>1. slots'[f][slotOf(h)] = Kept(f, h) \cup {c}
      BY <2>1, <2>2, SlotsAfterAdd
    <3> QED
      BY <2>4, <3>1
  <2>5. CASE ~(g = f /\ e = c)
    <3>1. e \in total[g]
      BY <2>1, <2>5 DEF Add, TrafficTypeOK
    <3> DEFINE s == slotOf(calledAt[e])
    <3>2. e \in Calls /\ calledAt[e] \in Nat /\ s \in Slots
      BY <3>1, SlotOfAnHour DEF TrafficTypeOK
    <3>3. CASE \E d \in total[g] : calledAt[e] + windowHours <= calledAt[d]
      BY <2>3, <3>3
    <3>4. CASE e \in slots[g][s]
      <4>1. CASE g = f /\ s = slotOf(h)
        <5>1. slots'[g][s] = Kept(f, h) \cup {c} /\ hours[g][s] = calledAt[e]
          BY <2>1, <3>2, <3>4, <4>1, SlotsAfterAdd DEF SlotsAreDated
        <5>2. CASE calledAt[e] = h
          BY <3>4, <4>1, <5>1, <5>2 DEF Kept
        <5>3. CASE calledAt[e] < h
          <6>1. calledAt[e] + windowHours <= h
            BY <2>2, <3>2, <4>1, <5>3, SlotsAreReusedAWindowApart
          <6>2. c \in total'[g]
            BY <2>1, <4>1 DEF Add, TrafficTypeOK
          <6> QED
            BY <6>1, <6>2
        <5>4. CASE h < calledAt[e]
          <6>1. h + windowHours <= calledAt[e]
            BY <2>2, <3>2, <4>1, <5>4, SlotsAreReusedAWindowApart
          <6>2. f \in late'
            BY <2>1, <3>1, <4>1, <6>1 DEF Add
          <6> QED
            BY <4>1, <6>2
        <5> HIDE DEF h
        <5> QED
          BY <2>2, <3>2, <5>2, <5>3, <5>4
      <4>2. CASE ~(g = f /\ s = slotOf(h))
        <5>1. slots'[g][s] = slots[g][s]
          BY <2>1, <3>2, <4>2, SlotsAfterAdd
        <5> QED
          BY <3>4, <5>1
      <4> QED
        BY <4>1, <4>2
    <3> QED
      BY <2>3, <3>1, <3>3, <3>4 DEF SlotsAreKept
  <2> QED
    BY <2>4, <2>5
<1> QED
  BY <1>1, <1>2, <1>3 DEF Next

LEMMA InvInit == Init => TrafficInv
<1> SUFFICES ASSUME Init PROVE TrafficInv
  OBVIOUS
<1>1. \A f \in Figures, t \in Slots : slots[f][t] = {} /\ total[f] = {}
  BY DEF Init
<1>2. TrafficTypeOK
  BY DEF Init, TrafficTypeOK
<1> QED
  BY <1>1, <1>2 DEF Init, TrafficInv, SlotsAreDated, SlotsAreKept

LEMMA InvStep == TrafficInv /\ [Next]_trafficVars => TrafficInv'
  BY TypeStep, DatedStep, KeptStep DEF TrafficInv

-----------------------------------------------------------------------------
(* Whatever the clock does, every counter's slots hold the hours they say,    *)
(* and a call leaves its slot only for one a whole window later.             *)
THEOREM CountersInvariant == Spec => []TrafficInv
  BY InvInit, InvStep, PTL DEF Spec

(* Nothing older than the window leaks into a last-day figure.               *)
THEOREM LastDayIsRecent == Spec => []NothingOld
<1>1. TrafficInv => NothingOld
  <2> SUFFICES ASSUME TrafficInv, NEW f \in Figures, NEW now \in 0..MaxHour,
                      NEW c \in Last24h(f, now)
               PROVE  c \in total[f] /\ calledAt[c] <= now /\ now < calledAt[c] + windowHours
    BY DEF NothingOld
  <2>1. PICK s \in Slots : inWindow(hours[f][s], now) /\ c \in slots[f][s]
    BY DEF Last24h
  <2>2. c \in total[f] /\ c \in Calls /\ calledAt[c] = hours[f][s]
    BY <2>1 DEF TrafficInv, SlotsAreDated, TrafficTypeOK
  <2>3. calledAt[c] \in Nat /\ now \in Nat /\ windowHours \in Nat
    BY <2>2, TrafficAssumption DEF TrafficInv, TrafficTypeOK
  <2> QED
    BY <2>1, <2>2, <2>3 DEF inWindow
<1> QED
  BY <1>1, CountersInvariant, PTL

(* A last-day figure misses nothing, but for what a call a whole window       *)
(* behind another has cost.                                                  *)
THEOREM LastDayIsComplete == Spec => []NothingMissed
<1>1. TrafficInv => NothingMissed
  <2> SUFFICES ASSUME TrafficInv, NEW f \in Figures \ late, NEW now \in 0..MaxHour,
                      NEW c \in total[f],
                      calledAt[c] <= now, now < calledAt[c] + windowHours,
                      \A d \in total[f] : calledAt[d] < calledAt[c] + windowHours
               PROVE  c \in Last24h(f, now)
    BY DEF NothingMissed
  <2> DEFINE s == slotOf(calledAt[c])
  <2>1. c \in Calls /\ calledAt[c] \in Nat /\ s \in Slots
    BY SlotOfAnHour DEF TrafficInv, TrafficTypeOK
  <2>2. \A d \in total[f] : ~(calledAt[c] + windowHours <= calledAt[d])
    <3> TAKE d \in total[f]
    <3>1. calledAt[d] \in Nat /\ windowHours \in Nat
      BY TrafficAssumption DEF TrafficInv, TrafficTypeOK
    <3> QED
      BY <2>1, <3>1
  <2>3. c \in slots[f][s]
    BY <2>2 DEF TrafficInv, SlotsAreKept
  <2>4. hours[f][s] = calledAt[c]
    BY <2>1, <2>3 DEF TrafficInv, SlotsAreDated
  <2>5. inWindow(hours[f][s], now)
    BY <2>1, <2>4, TrafficAssumption DEF inWindow
  <2> QED
    BY <2>1, <2>3, <2>5 DEF Last24h
<1> QED
  BY <1>1, CountersInvariant, PTL

-----------------------------------------------------------------------------
(* What trafficRecorder counts of any answer is one of the batches.          *)
LEMMA CountedIsRecorded ==
    ASSUME NEW r \in Reqs
    PROVE  Counted(r) \in Batches
<1>1. CASE method[r] = "GET" /\ status[r] \in {200, 206}
  BY <1>1, DownloadAssumption DEF Counted, Recorded
<1>2. CASE ~(method[r] = "GET" /\ status[r] \in {200, 206}) /\ status[r] = 404
  BY <1>2, DownloadAssumption DEF Counted, Recorded
<1>3. CASE ~(method[r] = "GET" /\ status[r] \in {200, 206}) /\ status[r] # 404
  BY <1>3, DownloadAssumption DEF Counted, Recorded
<1> QED
  BY <1>1, <1>2, <1>3

(* A step of a download is a step of the counters, or none that they see.    *)
LEMMA DownloadStep ==
    ASSUME [DownloadNext]_downloadVars
    PROVE  [Next]_trafficVars
<1>1. CASE UNCHANGED downloadVars \/ Remove
  BY <1>1 DEF downloadVars, Remove
<1>2. ASSUME NEW r \in Reqs, Arrive(r) \/ ClientTurns(r)
      PROVE  UNCHANGED trafficVars
  BY <1>2 DEF Arrive, ClientTurns
<1>3. ASSUME NEW r \in Reqs, ServeStep(r)
      PROVE  [Next]_trafficVars
  <2>1. CASE Lookup(r) \/ Serve(r) \/ Open(r) \/ Finish(r)
    BY <2>1 DEF Lookup, Serve, Open, Finish
  <2>2. CASE ReadSlice(r) \/ WriteSlice(r) \/ WriteFails(r)
    BY <2>2 DEF ReadSlice, WriteSlice, WriteFails
  <2>3. CASE Answered(r)
    <3>1. Call(r, Counted(r)) /\ Counted(r) \in Batches
      BY <2>3, CountedIsRecorded DEF Answered
    <3> QED
      BY <3>1 DEF Next, Reqs
  <2>4. CASE Counts(r)
    BY <2>4 DEF Counts, Next, Reqs
  <2> QED
    BY <1>3, <2>1, <2>2, <2>3, <2>4 DEF ServeStep
<1> QED
  BY <1>1, <1>2, <1>3 DEF DownloadNext

(* The figures of a server that answers downloads are figures of Traffic:     *)
(* nothing old leaks into them and nothing recent is missing from them.      *)
THEOREM DownloadCounters == DownloadSpec => [](NothingOld /\ NothingMissed)
<1>1. DownloadInit => Init
  BY DEF DownloadInit
<1>2. [DownloadNext]_downloadVars => [Next]_trafficVars
  BY DownloadStep
<1>3. DownloadSpec => Spec
  BY <1>1, <1>2, PTL DEF DownloadSpec, Spec
<1> QED
  BY <1>3, LastDayIsRecent, LastDayIsComplete, PTL

-----------------------------------------------------------------------------
(* Download. *)

\* A response in the middle of its body.
Streams(r) == pc[r] \in {"open", "slice", "write"}

\* The cursor stands between what was sent of what was asked and what is owed.
Cursor(r) ==
    /\ body[r] = {p \in Asked(header[r]) : p < offset[r]}
    /\ {p \in Asked(header[r]) : p >= offset[r]} = offset[r]..(offset[r] + remaining[r] - 1)

\* The body is the beginning of what was asked for.
IsPrefix(r) ==
    /\ body[r] \subseteq Asked(header[r])
    /\ \A p \in body[r] : {q \in Asked(header[r]) : q <= p} \subseteq body[r]

\* A status that names a range tells the truth about it.
StatusIsTrue(r) ==
    /\ status[r] = 416 => Asked(header[r]) = {}
    /\ status[r] = 206 => Asked(header[r]) # {}

(* Where each stage of a request stands with its body.                       *)
InStage(r) ==
    /\ pc[r] \in {"idle", "lookup", "headers"} => body[r] = {} /\ status[r] = 200
    /\ Streams(r) => Cursor(r) /\ method[r] = "GET" /\ status[r] \in {200, 206}
    /\ pc[r] = "write" => slice[r] \in 1..Wanted(r)
    /\ pc[r] # "done" => IsPrefix(r) /\ StatusIsTrue(r)
    /\ body[r] # {} => method[r] = "GET" /\ status[r] \in {200, 206}

BodyInv == \A r \in Reqs : InStage(r)

(* What the recorder still owes a request that is over.                      *)
Owed(r) ==
    pc[r] = "done" =>
        /\ pending[r] \in Recorded \cup {<<>>}
        /\ pending[r] = <<>> => r \in total["clients"]
        /\ body[r] # {} => r \in total["downloads"] \/ pending[r] = <<"downloads", "clients">>

CountInv == \A r \in Reqs : Owed(r)

DownloadInv == TypeOK /\ BodyInv /\ CountInv

-----------------------------------------------------------------------------
\* A range that answers a header: its span is what the header asks for, if anything.
IsAnswer(h, range) ==
    /\ range.verdict \in Verdict
    /\ range.verdict = "unsatisfiable" <=> Asked(h) = {}
    /\ range.verdict # "unsatisfiable" =>
          /\ range.from \in Positions /\ range.to \in Positions /\ range.from <= range.to
          /\ Asked(h) = range.from..range.to

(* A header is answered by its verdict: the span is exactly what is asked,    *)
(* and nothing is asked only of the headers that are refused.                *)
LEMMA RangeIsAsked ==
    ASSUME NEW h \in Headers
    PROVE  IsAnswer(h, parseByteRange(h))
<1> DEFINE range == parseByteRange(h)
<1> SUFFICES IsAnswer(h, range)
  OBVIOUS
<1>0. Size \in Nat /\ Size > 0 /\ Positions = 0..(Size - 1)
  BY DownloadAssumption DEF Positions
<1>1. CASE h = Ignored
  <2>1. range = Whole /\ Asked(h) = Positions
    BY <1>1, DownloadAssumption DEF parseByteRange, Asked
  <2> HIDE DEF range
  <2> QED
    BY <1>0, <2>1 DEF Whole, Verdict, IsAnswer
<1>2. CASE h # Ignored /\ h = Garbled
  <2>1. range = Unsatisfiable /\ Asked(h) = {}
    BY <1>2 DEF parseByteRange, Asked
  <2> HIDE DEF range
  <2> QED
    BY <2>1 DEF Unsatisfiable, Verdict, IsAnswer
<1>3. CASE h # Ignored /\ h # Garbled
  <2> DEFINE a == h.first
             b == h.last
             refused == a = Huge \/ a >= Size \/ Clamp(b) < a
  <2>1. a \in 0..Size \cup {None, Huge} /\ b \in 0..Size \cup {None, Huge}
    BY <1>3 DEF Headers, Bounds
  <2>2. CASE a = None
    <3>1. range = IF b = None THEN Unsatisfiable ELSE Suffix(b)
      BY <1>3, <2>2 DEF parseByteRange
    <3>2. Asked(h) = {p \in Positions : b \notin {None, Huge} /\ p >= Size - b}
      BY <1>3, <2>2 DEF Asked
    <3> HIDE DEF range, a, b
    <3> QED
      BY <1>0, <2>1, <3>1, <3>2 DEF Suffix, Unsatisfiable, Satisfiable, Verdict, IsAnswer
  <2>3. CASE a # None
    <3>1. range = IF a = Huge \/ a >= Size \/ Clamp(b) < a
                  THEN Unsatisfiable ELSE Satisfiable(a, Clamp(b))
      BY <1>3, <2>3 DEF parseByteRange
    <3>2. Asked(h) = {p \in Positions : /\ a # Huge /\ a <= p
                                        /\ b \in {None, Huge} \/ p <= b}
      BY <1>3, <2>3 DEF Asked
    <3> HIDE DEF range, a, b
    <3>3. Clamp(b) \in Positions
      BY <1>0, <2>1 DEF Clamp
    <3>4. a # Huge => a \in 0..Size
      BY <2>1, <2>3
    <3>5. \A p \in Positions : p <= Clamp(b) <=> b \in {None, Huge} \/ p <= b
      BY <1>0, <2>1 DEF Clamp
    <3>6. Asked(h) = {p \in Positions : a # Huge /\ a <= p /\ p <= Clamp(b)}
      BY <3>2, <3>5
    <3>7. CASE a = Huge \/ a >= Size \/ Clamp(b) < a
      BY <1>0, <3>1, <3>3, <3>4, <3>6, <3>7 DEF Unsatisfiable, Verdict, IsAnswer
    <3>8. CASE ~(a = Huge \/ a >= Size \/ Clamp(b) < a)
      BY <1>0, <3>1, <3>3, <3>4, <3>6, <3>8 DEF Satisfiable, Verdict, IsAnswer
    <3> QED
      BY <3>7, <3>8
  <2> QED
    BY <2>2, <2>3
<1> QED
  BY <1>1, <1>2, <1>3

(* The status that serveChunk writes, by the verdict.                        *)
LEMMA CodeOfVerdict ==
    ASSUME NEW verdict \in Verdict, NEW m \in BOOLEAN
    PROVE  Code(verdict, m) = IF verdict = "unsatisfiable" THEN 416
                              ELSE IF verdict = "satisfiable" THEN 206
                              ELSE IF m THEN 304 ELSE 200
<1>1. CASE verdict = "unsatisfiable"
  BY <1>1 DEF Code
<1>2. CASE verdict = "satisfiable"
  BY <1>2 DEF Code
<1>3. CASE verdict = "whole"
  BY <1>3 DEF Code
<1> QED
  BY <1>1, <1>2, <1>3 DEF Verdict

(* What is given to the counters is one of Recorded.                         *)
LEMMA CountedCases ==
    ASSUME NEW r \in Reqs
    PROVE  /\ Counted(r) \in Recorded
           /\ method[r] = "GET" /\ status[r] \in {200, 206} =>
                 Counted(r) = <<"downloads", "clients">>
<1>1. CASE method[r] = "GET" /\ status[r] \in {200, 206}
  <2>1. status[r] # 404
    BY <1>1
  <2> QED
    BY <1>1, <2>1 DEF Counted, Recorded
<1>2. CASE ~(method[r] = "GET" /\ status[r] \in {200, 206}) /\ status[r] = 404
  BY <1>2 DEF Counted, Recorded
<1>3. CASE ~(method[r] = "GET" /\ status[r] \in {200, 206}) /\ status[r] # 404
  BY <1>3 DEF Counted, Recorded
<1> QED
  BY <1>1, <1>2, <1>3

-----------------------------------------------------------------------------
(* Nothing is asked for that the chunk does not have.                        *)
LEMMA AskedInChunk ==
    ASSUME NEW h \in Headers
    PROVE  Asked(h) \subseteq Positions
  BY RangeIsAsked, DownloadAssumption DEF IsAnswer, Positions

(* A slice in hand lies inside what is still owed, which is asked for.       *)
LEMMA SliceIsOwed ==
    ASSUME TypeOK, NEW r \in Reqs, InStage(r), pc[r] = "write"
    PROVE  /\ offset[r] \in Nat /\ remaining[r] \in Nat /\ slice[r] \in Nat
           /\ 0 < slice[r] /\ slice[r] <= remaining[r]
           /\ offset[r]..(offset[r] + remaining[r] - 1) \subseteq Asked(header[r])
           /\ Asked(header[r]) \subseteq Positions
           /\ offset[r] + remaining[r] <= Size
<1>1. offset[r] \in Nat /\ remaining[r] \in Nat /\ slice[r] \in Nat /\ header[r] \in Headers
  BY DownloadAssumption DEF TypeOK
<1>2. 0 < slice[r] /\ slice[r] <= remaining[r]
  BY <1>1, DownloadAssumption DEF InStage, Wanted
<1>3. offset[r]..(offset[r] + remaining[r] - 1) \subseteq Asked(header[r])
  BY DEF InStage, Streams, Cursor
<1>4. Asked(header[r]) \subseteq Positions
  BY <1>1, AskedInChunk
<1>5. offset[r] + remaining[r] - 1 \in Positions
  BY <1>1, <1>2, <1>3, <1>4
<1> QED
  BY <1>1, <1>2, <1>3, <1>4, <1>5, DownloadAssumption DEF Positions

LEMMA TypeInit == DownloadInit => TypeOK
<1> SUFFICES ASSUME DownloadInit
             PROVE  TypeOK
  OBVIOUS
<1>1. TrafficTypeOK
  BY InvInit DEF DownloadInit, TrafficInv
<1>2. 0 \in 0..Size /\ 0 \in 0..downloadSlice
  BY DownloadAssumption
<1> QED
  BY <1>1, <1>2 DEF DownloadInit, TypeOK, Stage, Headers

LEMMA DownloadTypeStep ==
    ASSUME TypeOK, BodyInv, [DownloadNext]_downloadVars
    PROVE  TypeOK'
<1>1. TrafficTypeOK'
  BY DownloadStep, TypeStep DEF TypeOK
<1> USE DownloadAssumption
<1>2. CASE UNCHANGED downloadVars
  BY <1>1, <1>2 DEF TypeOK, downloadVars, reqVars, requestVars, streamVars
<1>3. CASE Remove
  BY <1>1, <1>3 DEF TypeOK, Remove, reqVars, requestVars, streamVars
<1>4. ASSUME NEW r \in Reqs, Arrive(r)
      PROVE  TypeOK'
  <2>1. \A h \in HeadersOf[r] : h \in Headers
    BY DEF Reqs
  <2> QED
    BY <1>1, <1>4, <2>1 DEF TypeOK, Arrive, At, Stage, streamVars
<1>5. ASSUME NEW r \in Reqs, Lookup(r)
      PROVE  TypeOK'
  BY <1>1, <1>5 DEF TypeOK, Lookup, At, Stage, requestVars, streamVars
<1>6. ASSUME NEW r \in Reqs, Serve(r)
      PROVE  TypeOK'
  <2> DEFINE range == parseByteRange(header[r])
             code == Code(range.verdict, matches[r])
  <2>1. IsAnswer(header[r], range) /\ matches[r] \in BOOLEAN
    BY RangeIsAsked DEF TypeOK
  <2>2. code = IF range.verdict = "unsatisfiable" THEN 416
               ELSE IF range.verdict = "satisfiable" THEN 206
               ELSE IF matches[r] THEN 304 ELSE 200
    BY <2>1, CodeOfVerdict DEF IsAnswer
  <2>3. /\ At(r, "headers", IF code \in {200, 206} /\ method[r] # "HEAD"
                            THEN "open" ELSE "answered")
        /\ status' = [status EXCEPT ![r] = code]
        /\ IF code \in {200, 206} /\ method[r] # "HEAD"
           THEN /\ offset' = [offset EXCEPT ![r] = range.from]
                /\ remaining' = [remaining EXCEPT ![r] = range.to - range.from + 1]
           ELSE UNCHANGED <<offset, remaining>>
        /\ UNCHANGED <<trafficVars, stored, client, requestVars, slice, body>>
    BY <1>6 DEF Serve
  <2> HIDE DEF range, code
  <2>4. code \in {200, 206, 304, 416}
    BY <2>2
  <2>5. code \in {200, 206} => range.from \in 0..Size /\ range.to - range.from + 1 \in 0..Size
    BY <2>1, <2>2 DEF IsAnswer, Positions
  <2>6. offset' \in [Reqs -> 0..Size] /\ remaining' \in [Reqs -> 0..Size]
    BY <2>3, <2>5 DEF TypeOK
  <2>7. pc' \in [Reqs -> Stage] /\ status' \in [Reqs -> {200, 206, 304, 404, 416}]
    BY <2>3, <2>4 DEF TypeOK, At, Stage
  <2> QED
    BY <1>1, <2>3, <2>6, <2>7 DEF TypeOK, requestVars
<1>7. ASSUME NEW r \in Reqs, Open(r) \/ Finish(r)
      PROVE  TypeOK'
  BY <1>1, <1>7 DEF TypeOK, Open, Finish, At, Stage, requestVars, streamVars
<1>8. ASSUME NEW r \in Reqs, ReadSlice(r)
      PROVE  TypeOK'
  <2>1. 0..Wanted(r) \subseteq 0..downloadSlice
    BY DEF TypeOK, Wanted
  <2> QED
    BY <1>1, <1>8, <2>1 DEF TypeOK, ReadSlice, At, Stage, requestVars
<1>9. ASSUME NEW r \in Reqs, WriteSlice(r)
      PROVE  TypeOK'
  <2>1. pc[r] = "write" /\ InStage(r)
    BY <1>9 DEF WriteSlice, At, BodyInv
  <2>2. /\ offset[r]..(offset[r] + slice[r] - 1) \subseteq Positions
        /\ offset[r] + slice[r] \in 0..Size /\ remaining[r] - slice[r] \in 0..Size
    BY <2>1, SliceIsOwed
  <2>3. body' \in [Reqs -> SUBSET Positions]
    BY <1>9, <2>2 DEF TypeOK, WriteSlice, Send
  <2>4. offset' \in [Reqs -> 0..Size] /\ remaining' \in [Reqs -> 0..Size]
    BY <1>9, <2>2 DEF TypeOK, WriteSlice
  <2> QED
    BY <1>1, <1>9, <2>3, <2>4 DEF TypeOK, WriteSlice, At, Stage, requestVars
<1>10. ASSUME NEW r \in Reqs, WriteFails(r)
      PROVE  TypeOK'
  <2>1. pc[r] = "write" /\ InStage(r)
    BY <1>10 DEF WriteFails, At, BodyInv
  <2>2. \A n \in 0..(slice[r] - 1) : offset[r]..(offset[r] + n - 1) \subseteq Positions
    BY <2>1, SliceIsOwed
  <2>3. body' \in [Reqs -> SUBSET Positions]
    BY <1>10, <2>2 DEF TypeOK, WriteFails, Send
  <2> QED
    BY <1>1, <1>10, <2>3 DEF TypeOK, WriteFails, At, Stage, requestVars
<1>11. ASSUME NEW r \in Reqs, Answered(r)
      PROVE  TypeOK'
  BY <1>1, <1>11 DEF TypeOK, Answered, At, Stage, Headers
<1>12. ASSUME NEW r \in Reqs, Counts(r)
      PROVE  TypeOK'
  BY <1>1, <1>12 DEF TypeOK, Counts, reqVars, requestVars, streamVars
<1>13. ASSUME NEW r \in Reqs, ClientTurns(r)
      PROVE  TypeOK'
  BY <1>1, <1>13 DEF TypeOK, ClientTurns, requestVars, streamVars
<1> QED
  BY <1>2, <1>3, <1>4, <1>5, <1>6, <1>7, <1>8, <1>9,
     <1>10, <1>11, <1>12, <1>13
     DEF DownloadNext, ServeStep

-----------------------------------------------------------------------------
(* A request that a step leaves alone stays as it is.                        *)
LEMMA LeftAlone ==
    ASSUME NEW q \in Reqs, InStage(q),
           pc'[q] = pc[q], method'[q] = method[q], header'[q] = header[q],
           status'[q] = status[q], offset'[q] = offset[q],
           remaining'[q] = remaining[q], slice'[q] = slice[q], body'[q] = body[q]
    PROVE  InStage(q)'
  BY DEF InStage, Streams, Cursor, IsPrefix, StatusIsTrue, Wanted

(* What is sent up to the cursor is a beginning of what is asked for.        *)
LEMMA CursorIsPrefix ==
    ASSUME TypeOK, NEW r \in Reqs, Cursor(r)
    PROVE  IsPrefix(r)
<1>1. offset[r] \in Nat /\ Asked(header[r]) \subseteq Positions
  BY AskedInChunk DEF TypeOK
<1> QED
  BY <1>1, DownloadAssumption DEF Cursor, IsPrefix, Positions

(* serveChunk leaves the cursor at the beginning of what is asked for.       *)
LEMMA ServeStage ==
    ASSUME TypeOK, NEW r \in Reqs, InStage(r), Serve(r)
    PROVE  InStage(r)'
<1> DEFINE range == parseByteRange(header[r])
           code == Code(range.verdict, matches[r])
<1>1. IsAnswer(header[r], range) /\ matches[r] \in BOOLEAN
  BY RangeIsAsked DEF TypeOK
<1>2. code = IF range.verdict = "unsatisfiable" THEN 416
             ELSE IF range.verdict = "satisfiable" THEN 206
             ELSE IF matches[r] THEN 304 ELSE 200
  BY <1>1, CodeOfVerdict DEF IsAnswer
<1>3. /\ pc[r] = "headers"
      /\ pc'[r] = IF code \in {200, 206} /\ method[r] # "HEAD" THEN "open" ELSE "answered"
      /\ status'[r] = code
      /\ code \in {200, 206} /\ method[r] # "HEAD" =>
            offset'[r] = range.from /\ remaining'[r] = range.to - range.from + 1
      /\ header'[r] = header[r] /\ method'[r] = method[r] /\ body'[r] = body[r]
  BY DEF Serve, At, TypeOK, requestVars
<1> HIDE DEF range, code
<1>4. body'[r] = {} /\ method[r] \in {"GET", "HEAD"}
  BY <1>3 DEF InStage, TypeOK
<1>5. StatusIsTrue(r)' /\ IsPrefix(r)'
  BY <1>1, <1>2, <1>3, <1>4 DEF StatusIsTrue, IsPrefix, IsAnswer
<1>6. CASE code \in {200, 206} /\ method[r] # "HEAD"
  <2>1. /\ Asked(header[r]) = range.from..range.to
        /\ range.from \in Nat /\ range.to \in Nat
    BY <1>1, <1>2, <1>6, DownloadAssumption DEF IsAnswer, Positions
  <2>2. Cursor(r)'
    BY <1>3, <1>4, <1>6, <2>1 DEF Cursor
  <2> QED
    BY <1>2, <1>3, <1>4, <1>5, <1>6, <2>2 DEF InStage, Streams
<1>7. CASE ~(code \in {200, 206} /\ method[r] # "HEAD")
  BY <1>3, <1>4, <1>5, <1>7 DEF InStage, Streams
<1> QED
  BY <1>6, <1>7

(* A slice that goes through moves the cursor by as much as was sent.        *)
LEMMA WriteStage ==
    ASSUME TypeOK, TypeOK', NEW r \in Reqs, InStage(r), WriteSlice(r)
    PROVE  InStage(r)'
<1>1. /\ pc[r] = "write" /\ pc'[r] \in {"answered", "slice"}
      /\ offset'[r] = offset[r] + slice[r] /\ remaining'[r] = remaining[r] - slice[r]
      /\ body'[r] = body[r] \cup offset[r]..(offset[r] + slice[r] - 1)
      /\ header'[r] = header[r] /\ method'[r] = method[r] /\ status'[r] = status[r]
  BY DEF WriteSlice, At, Send, TypeOK, requestVars
<1>2. Cursor(r) /\ method[r] = "GET" /\ status[r] \in {200, 206} /\ StatusIsTrue(r)
  BY <1>1 DEF InStage, Streams
<1>3. /\ offset[r] \in Nat /\ remaining[r] \in Nat /\ slice[r] \in Nat
      /\ 0 < slice[r] /\ slice[r] <= remaining[r]
      /\ \A p \in Asked(header[r]) : p \in Nat
  BY <1>1, SliceIsOwed, DownloadAssumption DEF Positions
<1>4. Cursor(r)'
  BY <1>1, <1>2, <1>3 DEF Cursor
<1>5. IsPrefix(r)'
  BY <1>4, CursorIsPrefix, PTL
<1> QED
  BY <1>1, <1>2, <1>4, <1>5 DEF InStage, StatusIsTrue, Streams

(* A write that fails has sent a beginning of its slice.                     *)
LEMMA FailedWriteStage ==
    ASSUME TypeOK, NEW r \in Reqs, InStage(r), WriteFails(r)
    PROVE  InStage(r)'
<1>1. PICK n \in 0..(slice[r] - 1) : Send(r, n)
  BY DEF WriteFails
<1>2. /\ pc[r] = "write" /\ pc'[r] = "answered"
      /\ body'[r] = body[r] \cup offset[r]..(offset[r] + n - 1)
      /\ header'[r] = header[r] /\ method'[r] = method[r] /\ status'[r] = status[r]
  BY <1>1 DEF WriteFails, At, Send, TypeOK, requestVars
<1>3. Cursor(r) /\ method[r] = "GET" /\ status[r] \in {200, 206} /\ StatusIsTrue(r)
  BY <1>2 DEF InStage, Streams
<1>4. /\ offset[r] \in Nat /\ remaining[r] \in Nat /\ n \in Nat /\ n < remaining[r]
      /\ \A p \in Asked(header[r]) : p \in Nat
  BY <1>2, SliceIsOwed, DownloadAssumption DEF Positions
<1>5. body'[r] = {p \in Asked(header[r]) : p < offset[r] + n}
  BY <1>2, <1>3, <1>4 DEF Cursor
<1>6. IsPrefix(r)'
  BY <1>2, <1>4, <1>5 DEF IsPrefix
<1> QED
  BY <1>2, <1>3, <1>6 DEF InStage, StatusIsTrue, Streams

LEMMA BodyStep ==
    ASSUME TypeOK, TypeOK', BodyInv, [DownloadNext]_downloadVars
    PROVE  BodyInv'
<1>1. CASE UNCHANGED downloadVars \/ Remove
  <2>1. UNCHANGED reqVars
    BY <1>1 DEF downloadVars, Remove
  <2> QED
    BY <2>1, LeftAlone DEF BodyInv, reqVars, requestVars, streamVars
<1>2. ASSUME NEW r \in Reqs, Arrive(r) \/ ServeStep(r) \/ ClientTurns(r)
      PROVE  BodyInv'
  <2>1. ASSUME NEW q \in Reqs, q # r
        PROVE  InStage(q)'
    <3>1. /\ pc'[q] = pc[q] /\ method'[q] = method[q] /\ header'[q] = header[q]
          /\ status'[q] = status[q] /\ offset'[q] = offset[q]
          /\ remaining'[q] = remaining[q] /\ slice'[q] = slice[q] /\ body'[q] = body[q]
      <4>1. CASE Arrive(r) \/ ClientTurns(r) \/ Lookup(r)
        BY <2>1, <4>1 DEF Arrive, ClientTurns, Lookup, At, TypeOK, requestVars, streamVars
      <4>2. CASE Serve(r)
        BY <2>1, <4>2 DEF Serve, At, TypeOK, requestVars
      <4>3. CASE Open(r) \/ Finish(r) \/ Counts(r)
        BY <2>1, <4>3 DEF Open, Finish, Counts, At, TypeOK, reqVars, requestVars, streamVars
      <4>4. CASE ReadSlice(r) \/ WriteSlice(r) \/ WriteFails(r) \/ Answered(r)
        BY <2>1, <4>4
           DEF ReadSlice, WriteSlice, WriteFails, Answered, Send, At, TypeOK, requestVars
      <4> QED
        BY <1>2, <4>1, <4>2, <4>3, <4>4 DEF ServeStep
    <3> QED
      BY <3>1, LeftAlone DEF BodyInv
  <2>2. InStage(r)
    BY DEF BodyInv
  <2>3. InStage(r)'
    <3>1. CASE Arrive(r)
      <4>1. /\ pc[r] = "idle" /\ pc'[r] = "lookup"
            /\ body'[r] = body[r] /\ status'[r] = status[r]
        BY <3>1 DEF Arrive, At, TypeOK, streamVars
      <4> QED
        BY <2>2, <4>1 DEF InStage, Streams, IsPrefix, StatusIsTrue
    <3>2. CASE Lookup(r)
      <4>1. /\ pc[r] = "lookup" /\ pc'[r] \in {"headers", "answered"}
            /\ body'[r] = body[r] /\ status'[r] \in {status[r], 404}
            /\ pc'[r] = "headers" => status'[r] = status[r]
        BY <3>2 DEF Lookup, At, TypeOK, streamVars
      <4> QED
        BY <2>2, <4>1 DEF InStage, Streams, IsPrefix, StatusIsTrue
    <3>3. CASE Serve(r)
      BY <2>2, <3>3, ServeStage
    <3>4. CASE Open(r) \/ Finish(r)
      <4>1. /\ Streams(r) /\ pc'[r] \in {"slice", "answered"}
            /\ UNCHANGED <<requestVars, status, streamVars>>
        BY <3>4 DEF Open, Finish, At, TypeOK, Streams
      <4> QED
        BY <2>2, <4>1 DEF InStage, Streams, Cursor, IsPrefix, StatusIsTrue, requestVars,
                          streamVars
    <3>5. CASE ReadSlice(r)
      <4>1. /\ pc[r] = "slice" /\ pc'[r] \in {"write", "answered"}
            /\ pc'[r] = "write" => slice'[r] \in 1..Wanted(r)
            /\ UNCHANGED <<requestVars, status, offset, remaining, body>>
        BY <3>5 DEF ReadSlice, At, TypeOK
      <4> QED
        BY <2>2, <4>1 DEF InStage, Streams, Cursor, IsPrefix, StatusIsTrue, requestVars,
                          Wanted
    <3>6. CASE WriteSlice(r)
      BY <2>2, <3>6, WriteStage
    <3>7. CASE WriteFails(r)
      BY <2>2, <3>7, FailedWriteStage
    <3>8. CASE Answered(r)
      <4>1. pc[r] = "answered" /\ pc'[r] = "done" /\ UNCHANGED <<method, status, body>>
        BY <3>8 DEF Answered, At, TypeOK
      <4> QED
        BY <2>2, <4>1 DEF InStage, Streams
    <3>9. CASE Counts(r) \/ ClientTurns(r)
      <4>1. UNCHANGED <<pc, requestVars, status, streamVars>>
        BY <3>9 DEF Counts, ClientTurns, reqVars
      <4> QED
        BY <2>2, <4>1, LeftAlone DEF requestVars, streamVars
    <3> QED
      BY <1>2, <3>1, <3>2, <3>3, <3>4, <3>5, <3>6, <3>7, <3>8, <3>9 DEF ServeStep
  <2> QED
    BY <2>1, <2>3 DEF BodyInv
<1> QED
  BY <1>1, <1>2 DEF DownloadNext

-----------------------------------------------------------------------------
(* The figures that a request is still to be counted in, one by one.         *)
LEMMA CountLeaves ==
    ASSUME TypeOK, NEW r \in Reqs, pending[r] \in Recorded, Count(r)
    PROVE  \/ /\ pending[r] = <<"downloads", "clients">> /\ pending'[r] = <<"clients">>
              /\ r \in total'["downloads"]
           \/ /\ pending[r] = <<"notFound", "clients">> /\ pending'[r] = <<"clients">>
           \/ /\ pending[r] = <<"clients">> /\ pending'[r] = <<>>
              /\ r \in total'["clients"]
<1>1. "downloads" \in Figures /\ "clients" \in Figures
  <2>1. <<"downloads", "clients">> \in Seq(Figures)
    BY TrafficAssumption, DownloadAssumption DEF Recorded
  <2> QED
    BY <2>1
<1>2. \A f \in Figures : Head(pending[r]) = f => r \in total'[f]
  BY DEF Count, Add, TypeOK, TrafficTypeOK, Reqs
<1>3. pending'[r] = Tail(pending[r])
  BY DEF Count, TypeOK, TrafficTypeOK, Reqs
<1>4. CASE pending[r] = <<"downloads", "clients">>
  BY <1>1, <1>2, <1>3, <1>4
<1>5. CASE pending[r] = <<"notFound", "clients">>
  BY <1>3, <1>5
<1>6. CASE pending[r] = <<"clients">>
  BY <1>1, <1>2, <1>3, <1>6
<1> QED
  BY <1>4, <1>5, <1>6 DEF Recorded

\* What is counted stays counted.
LEMMA TotalsGrow ==
    ASSUME TypeOK, [DownloadNext]_downloadVars, NEW f \in Figures
    PROVE  total[f] \subseteq total'[f]
<1>1. [Next]_trafficVars
  BY DownloadStep
<1>2. CASE UNCHANGED trafficVars
  BY <1>2 DEF trafficVars, windowVars
<1>3. ASSUME NEW c \in Calls, NEW batch \in Batches, Call(c, batch)
      PROVE  total[f] \subseteq total'[f]
  BY <1>3 DEF Call, windowVars
<1>4. ASSUME NEW c \in Calls, Count(c)
      PROVE  total[f] \subseteq total'[f]
  BY <1>4, NextFigure DEF Count, Add, TypeOK, TrafficTypeOK
<1> QED
  BY <1>1, <1>2, <1>3, <1>4 DEF Next

LEMMA CountStep ==
    ASSUME TypeOK, BodyInv, CountInv, [DownloadNext]_downloadVars
    PROVE  CountInv'
<1> SUFFICES ASSUME NEW q \in Reqs
             PROVE  Owed(q)'
  BY DEF CountInv
<1>1. Owed(q)
  BY DEF CountInv
<1>2. "downloads" \in Figures /\ "clients" \in Figures
  <2>1. <<"downloads", "clients">> \in Seq(Figures)
    BY TrafficAssumption, DownloadAssumption DEF Recorded
  <2> QED
    BY <2>1
<1>3. total["downloads"] \subseteq total'["downloads"] /\ total["clients"] \subseteq total'["clients"]
  BY <1>2, TotalsGrow
<1>4. ASSUME pc'[q] = pc[q], pending'[q] = pending[q], pc[q] = "done" => body'[q] = body[q]
      PROVE  Owed(q)'
  BY <1>1, <1>3, <1>4 DEF Owed
<1>5. CASE UNCHANGED downloadVars \/ Remove
  BY <1>4, <1>5 DEF downloadVars, trafficVars, Remove, reqVars, streamVars
<1>6. ASSUME NEW r \in Reqs, Arrive(r) \/ ServeStep(r) \/ ClientTurns(r)
      PROVE  Owed(q)'
  <2>1. CASE Answered(r) /\ r = q
    <3>1. pending'[q] = Counted(q) /\ body'[q] = body[q]
      BY <2>1 DEF Answered, Call, TypeOK, TrafficTypeOK, Reqs
    <3>2. Counted(q) \in Recorded /\ Counted(q) # <<>>
      BY CountedCases DEF Recorded
    <3>3. body[q] # {} => Counted(q) = <<"downloads", "clients">>
      BY CountedCases DEF BodyInv, InStage
    <3> QED
      BY <3>1, <3>2, <3>3 DEF Owed
  <2>2. CASE Counts(r) /\ r = q
    <3>1. Count(q) /\ pc[q] = "done" /\ pc' = pc /\ body' = body /\ pending[q] # <<>>
      BY <2>2 DEF Counts, Count, reqVars, streamVars
    <3>2. pending[q] \in Recorded
      BY <1>1, <3>1 DEF Owed
    <3>3. /\ <<"clients">> # <<>>
          /\ <<"downloads", "clients">> # <<"notFound", "clients">>
          /\ <<"downloads", "clients">> # <<"clients">>
      OBVIOUS
    <3>4. \/ /\ pending[q] = <<"downloads", "clients">> /\ pending'[q] = <<"clients">>
             /\ q \in total'["downloads"]
          \/ /\ pending[q] = <<"notFound", "clients">> /\ pending'[q] = <<"clients">>
          \/ /\ pending[q] = <<"clients">> /\ pending'[q] = <<>>
             /\ q \in total'["clients"]
      BY <3>1, <3>2, CountLeaves
    <3>5. /\ pending'[q] \in {<<"clients">>, <<>>}
          /\ pending'[q] = <<>> => q \in total'["clients"]
          /\ pending[q] = <<"downloads", "clients">> => q \in total'["downloads"]
      BY <3>3, <3>4
    <3> QED
      BY <1>1, <1>3, <3>1, <3>5 DEF Owed, Recorded
  <2>3. CASE (Answered(r) \/ Counts(r)) /\ r # q
    <3>1. pc'[q] = pc[q] /\ pending'[q] = pending[q] /\ body'[q] = body[q]
      BY <2>3 DEF Answered, Counts, At, Call, Count, reqVars, streamVars, TypeOK,
                  TrafficTypeOK, Reqs
    <3> QED
      BY <1>4, <3>1
  <2>4. CASE Arrive(r) \/ ClientTurns(r) \/ Lookup(r) \/ Serve(r) \/ Open(r) \/ Finish(r)
             \/ ReadSlice(r) \/ WriteSlice(r) \/ WriteFails(r)
    <3>1. pending' = pending
      BY <2>4 DEF Arrive, ClientTurns, Lookup, Serve, Open, Finish, ReadSlice, WriteSlice,
                  WriteFails, trafficVars
    <3>2. pc[r] # "done" /\ pc'[r] # "done"
      BY <2>4 DEF Arrive, ClientTurns, Lookup, Serve, Open, Finish, ReadSlice, WriteSlice,
                  WriteFails, At, TypeOK
    <3>3. r # q => pc'[q] = pc[q] /\ body'[q] = body[q]
      BY <2>4 DEF Arrive, ClientTurns, Lookup, Serve, Open, Finish, ReadSlice, WriteSlice,
                  WriteFails, Send, At, TypeOK, streamVars
    <3>4. CASE r = q
      BY <3>2, <3>4 DEF Owed
    <3>5. CASE r # q
      BY <1>4, <3>1, <3>3, <3>5
    <3> QED
      BY <3>4, <3>5
  <2> QED
    BY <1>6, <2>1, <2>2, <2>3, <2>4 DEF ServeStep
<1> QED
  BY <1>5, <1>6 DEF DownloadNext

-----------------------------------------------------------------------------
(* The invariant: types, where each request stands with its body, and what    *)
(* the recorder owes it.                                                     *)
THEOREM DownloadInvariant == DownloadSpec => []DownloadInv
<1>1. DownloadInit => DownloadInv
  <2> SUFFICES ASSUME DownloadInit
               PROVE  DownloadInv
    OBVIOUS
  <2>1. TypeOK
    BY TypeInit
  <2>2. BodyInv /\ CountInv
    BY DEF DownloadInit, BodyInv, InStage, Streams, IsPrefix, StatusIsTrue, CountInv, Owed
  <2> QED
    BY <2>1, <2>2 DEF DownloadInv
<1>2. DownloadInv /\ [DownloadNext]_downloadVars => DownloadInv'
  BY DownloadTypeStep, BodyStep, CountStep DEF DownloadInv
<1> QED
  BY <1>1, <1>2, PTL DEF DownloadSpec

(* Every variable of Download keeps its type.                                *)
THEOREM DownloadTypes == DownloadSpec => []TypeOK
  BY DownloadInvariant, PTL DEF DownloadInv

(* A client is sent the beginning of what it asked for and nothing else, and  *)
(* all of it by a handler that ends on its own (parseByteRange, streamRange). *)
THEOREM AskedIsSent == DownloadSpec => []BodyIsAsked
<1>1. DownloadInv => BodyIsAsked
  <2> SUFFICES ASSUME DownloadInv, NEW r \in Reqs, pc[r] # "done"
               PROVE  /\ IsPrefix(r)
                      /\ pc[r] = "slice" /\ remaining[r] = 0 => body[r] = Asked(header[r])
                      /\ StatusIsTrue(r)
    BY DEF BodyIsAsked, IsPrefix, StatusIsTrue
  <2>1. InStage(r) /\ offset[r] \in Nat /\ Asked(header[r]) \subseteq Positions
    BY AskedInChunk DEF DownloadInv, BodyInv, TypeOK
  <2>2. ASSUME pc[r] = "slice", remaining[r] = 0
        PROVE  body[r] = Asked(header[r])
    <3>1. Cursor(r)
      BY <2>1, <2>2 DEF InStage, Streams
    <3>2. \A p \in Asked(header[r]) : p \in Int
      BY <2>1, DownloadAssumption DEF Positions
    <3>3. {p \in Asked(header[r]) : p >= offset[r]} = {}
      BY <2>1, <2>2, <3>1 DEF Cursor
    <3>4. \A p \in Asked(header[r]) : p < offset[r]
      BY <2>1, <3>2, <3>3
    <3> QED
      BY <3>1, <3>4 DEF Cursor
  <2> QED
    BY <2>1, <2>2 DEF InStage
<1> QED
  BY <1>1, DownloadInvariant, PTL

(* A request that was sent a byte is counted as a download, and everybody who *)
(* called as a client, however the response ended (trafficRecorder).         *)
THEOREM SentIsCounted == DownloadSpec => []NothingUncounted
<1>1. DownloadInv => NothingUncounted
  BY DEF DownloadInv, CountInv, Owed, NothingUncounted, Recorded
<1> QED
  BY <1>1, DownloadInvariant, PTL
=============================================================================
