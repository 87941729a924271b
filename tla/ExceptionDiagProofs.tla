------------------------ MODULE ExceptionDiagProofs ------------------------
(***************************************************************************)
(* The exception diagnostic is right for every ring size, every record     *)
(* length and every stream of events.  The trigger and the publisher are   *)
(* treated apart: TrigInv speaks of the ring and its search, PubInv of the *)
(* words in DDR3 and of the reader.                                        *)
(***************************************************************************)
EXTENDS ExceptionDiag, TLAPS

TrigInv == /\ TriggerTypeOK /\ log \in Seq(Event)
           /\ RingOK /\ SearchOK /\ HeldOK /\ SelectorCorrect

-----------------------------------------------------------------------------
(* Arithmetic of the ring's index.                                         *)
LEMMA BackInRing ==
    ASSUME NEW w \in Index, NEW j \in 1 .. Depth
    PROVE  Back(w, j) \in Index
BY TriggerAssumption DEF Back, Index

LEMMA UpInRing == ASSUME NEW w \in Index PROVE Up(w) \in Index
BY TriggerAssumption DEF Up, Index

LEMMA DownInRing == ASSUME NEW w \in Index PROVE Down(w) \in Index
BY TriggerAssumption DEF Down, Index

(* Once the index moves up, what was j - 1 entries back is j entries back. *)
LEMMA BackUp ==
    ASSUME NEW w \in Index, NEW j \in 2 .. Depth
    PROVE  Back(Up(w), j) = Back(w, j - 1) /\ Back(w, j - 1) # w
BY TriggerAssumption DEF Back, Up, Index

LEMMA BackUpOne == ASSUME NEW w \in Index PROVE Back(Up(w), 1) = w
BY TriggerAssumption DEF Back, Up, Index

LEMMA BackDown ==
    ASSUME NEW w \in Index, NEW j \in 1 .. (Depth - 1)
    PROVE  Down(Back(w, j)) = Back(w, j + 1)
BY TriggerAssumption DEF Back, Down, Index

LEMMA BackOne == ASSUME NEW w \in Index PROVE Back(w, 1) = Down(w)
BY TriggerAssumption DEF Back, Down, Index

-----------------------------------------------------------------------------
(* The RAM output register always takes an event.                          *)
LEMMA ReadType ==
    ASSUME TriggerTypeOK
    PROVE  history[rd_index] \in Event
BY DEF TriggerTypeOK

(* Sizes when the ring takes one more event.                               *)
More(c) == IF c # Depth THEN c + 1 ELSE c

LEMMA OneMore ==
    ASSUME NEW c \in 0 .. Depth, NEW n, n = More(c)
    PROVE  /\ n \in 1 .. Depth
           /\ \A j \in 1 .. n : j # 1 => j \in 2 .. Depth /\ j - 1 \in 1 .. c
BY TriggerAssumption DEF More

(* The log with one more event, the oldest dropped when it is full.        *)
Shifted(m, n, l, c, ev) ==
    \A j \in 1 .. n : m[n - j + 1] = IF j = 1 THEN ev ELSE l[c - (j - 1) + 1]

LEMMA LatestLog ==
    ASSUME NEW l \in Seq(Event), NEW ev \in Event, NEW c, c = Len(l), c <= Depth,
           NEW m, m = Latest(Append(l, ev)), NEW n, n = More(c)
    PROVE  m \in Seq(Event) /\ Len(m) = n /\ Shifted(m, n, l, c, ev)
<1>1. CASE c # Depth
  BY <1>1, TriggerAssumption DEF Latest, More, Shifted
<1>2. CASE c = Depth
  <2>1. n = Depth /\ m = Tail(Append(l, ev)) /\ Len(l) = Depth /\ Depth \in Nat \ {0}
    <3>1. Depth \in Nat \ {0} /\ Len(l) = Depth
      BY <1>2, TriggerAssumption
    <3>2. Len(Append(l, ev)) > Depth
      BY <3>1
    <3> QED BY <1>2, <3>1, <3>2, Zenon DEF Latest, More
  <2>2. m \in Seq(Event) /\ Len(m) = Depth
    BY <2>1
  <2>3. ASSUME NEW j \in 1 .. Depth
        PROVE  m[Depth - j + 1] = IF j = 1 THEN ev ELSE l[Depth - (j - 1) + 1]
    BY <2>1
  <2> QED BY <1>2, <2>1, <2>2, <2>3 DEF Shifted
<1> QED BY <1>1, <1>2

LEMMA RememberInv ==
    ASSUME TrigInv, NEW ev \in Event, Remember(ev), read_data' = history[rd_index],
           LogClock(ev)
    PROVE  TrigInv'
<1>1. TriggerTypeOK /\ RingOK /\ log \in Seq(Event)
  BY DEF TrigInv
<1>2. /\ wr_index \in Index /\ count \in 0 .. Depth /\ history \in [Index -> Event]
      /\ Len(log) = count
  BY <1>1 DEF TriggerTypeOK, RingOK
<1>3. count' = More(count)
  BY DEF Remember, More
<1>4. TriggerTypeOK'
  <2>1. history' \in [Index -> Event] /\ read_data' \in Event /\ wr_index' \in Index
    BY <1>1, <1>2, ReadType, UpInRing DEF Remember
  <2>2. count' \in 0 .. Depth
    BY <1>2, <1>3, OneMore
  <2>3. /\ tst' = tst /\ rd_index' = rd_index /\ remaining' = remaining
        /\ trigger_record' = trigger_record
    BY DEF Remember
  <2>4. match_status' = match_status /\ capture_valid' \in BOOLEAN
    BY Zenon DEF Remember, NoReport
  <2> QED BY <1>1, <2>1, <2>2, <2>3, <2>4, Zenon DEF TriggerTypeOK
<1>5. log' \in Seq(Event) /\ Len(log') = count' /\ Shifted(log', count', log, count, ev)
  <2>1. log' = Latest(Append(log, ev))
    BY DEF LogClock, Recorded, Remember
  <2>2. count = Len(log) /\ count <= Depth
    BY <1>2, TriggerAssumption
  <2>3. \A m, n : m = Latest(Append(log, ev)) /\ n = More(count)
                  => m \in Seq(Event) /\ Len(m) = n /\ Shifted(m, n, log, count, ev)
    <3> TAKE m, n
    <3> HAVE m = Latest(Append(log, ev)) /\ n = More(count)
    <3>1. log \in Seq(Event)
      BY <1>1
    <3> QED BY <2>2, <3>1, LatestLog
  <2> QED BY <1>3, <2>1, <2>3, Zenon
<1>6. ASSUME NEW j \in 1 .. count'
      PROVE  history'[Back(wr_index', j)] = log'[count' - j + 1]
  <2>1. count' \in 1 .. Depth /\ (j # 1 => j \in 2 .. Depth /\ j - 1 \in 1 .. count)
    BY <1>2, <1>3, OneMore
  <2>2. wr_index' = Up(wr_index) /\ history' = [history EXCEPT ![wr_index] = ev]
    BY DEF Remember
  <2>3. CASE j = 1
    <3>1. Back(wr_index', j) = wr_index
      BY <1>2, <2>2, <2>3, BackUpOne
    <3>2. history'[wr_index] = ev
      BY <1>2, <2>2
    <3> QED BY <1>5, <2>3, <3>1, <3>2, Zenon DEF Shifted
  <2>4. CASE j # 1
    <3>1. Back(wr_index', j) = Back(wr_index, j - 1) /\ Back(wr_index, j - 1) # wr_index
      BY <1>2, <2>1, <2>2, <2>4, BackUp
    <3>2. Back(wr_index, j - 1) \in Index
      <4>1. j - 1 \in 1 .. Depth
        BY <1>2, <2>1, <2>4, TriggerAssumption
      <4> QED BY <1>2, <4>1, BackInRing
    <3>3. history'[Back(wr_index', j)] = history[Back(wr_index, j - 1)]
      BY <1>2, <2>2, <3>1, <3>2
    <3>4. history[Back(wr_index, j - 1)] = log[count - (j - 1) + 1]
      BY <1>1, <2>1, <2>4 DEF RingOK
    <3> QED BY <1>5, <2>4, <3>3, <3>4, Zenon DEF Shifted
  <2> QED BY <2>3, <2>4
<1>7. RingOK'
  BY <1>5, <1>6 DEF RingOK
<1>8. tst' = "IDLE"
  BY DEF Remember
<1> QED BY <1>4, <1>5, <1>7, <1>8 DEF TrigInv, SearchOK, HeldOK, SelectorCorrect

(* What the other steps of the trigger leave alone.                        *)
LEMMA KeepsRing ==
    ASSUME TrigInv, UNCHANGED <<history, wr_index, count, log>>
    PROVE  RingOK' /\ log' \in Seq(Event)
BY DEF TrigInv, RingOK

LEMMA NotRecorded ==
    ASSUME NEW ev, LogClock(ev), ~Recorded(ev)
    PROVE  log' = log
BY DEF LogClock

LEMMA DeliverInv ==
    ASSUME TrigInv, NEW ev \in Event, Deliver(ev), read_data' = history[rd_index],
           LogClock(ev)
    PROVE  TrigInv'
<1>1. TriggerTypeOK /\ RingOK /\ log \in Seq(Event)
  BY DEF TrigInv
<1>2. /\ wr_index \in Index /\ count \in 0 .. Depth /\ history \in [Index -> Event]
      /\ Len(log) = count /\ Depth \in Nat \ {0}
  BY <1>1, TriggerAssumption DEF TriggerTypeOK, RingOK
<1>3. log' = log
  BY NotRecorded DEF Deliver, Recorded, Kept
<1>4. /\ UNCHANGED <<history, wr_index, count>>
      /\ trigger_record' = ev /\ rd_index' = Down(wr_index) /\ remaining' = count
  BY DEF Deliver
<1>5. RingOK' /\ log' \in Seq(Event)
  BY <1>3, <1>4, KeepsRing
<1>6. ev.exit \in BOOLEAN
  BY DEF Event
<1>7. CASE ev.exit
  <2>1. tst' = "DONE" /\ match_status' = "exit" /\ capture_valid' = TRUE
    BY <1>7 DEF Deliver, Report
  <2>2. TriggerTypeOK'
    BY <1>1, <1>2, <1>4, <2>1, DownInRing, ReadType DEF TriggerTypeOK, Status
  <2> QED BY <1>4, <1>5, <1>7, <2>1, <2>2
         DEF TrigInv, SearchOK, HeldOK, SelectorCorrect, Answered
<1>8. CASE ~ev.exit /\ count = 0
  <2>1. tst' = "DONE" /\ match_status' = "missing" /\ capture_valid' = TRUE
    BY <1>8 DEF Deliver, Report
  <2>2. TriggerTypeOK'
    BY <1>1, <1>2, <1>4, <2>1, DownInRing, ReadType DEF TriggerTypeOK, Status
  <2>3. Matches' = {}
    BY <1>2, <1>3, <1>8 DEF Matches
  <2> QED BY <1>4, <1>5, <1>8, <2>1, <2>2, <2>3
         DEF TrigInv, SearchOK, HeldOK, SelectorCorrect, Answered
<1>9. CASE ~ev.exit /\ count # 0
  <2>1. tst' = "WAIT_READ" /\ match_status' = match_status /\ capture_valid' = FALSE
    BY <1>9 DEF Deliver, NoReport
  <2>2. TriggerTypeOK'
    BY <1>1, <1>2, <1>4, <2>1, DownInRing, ReadType DEF TriggerTypeOK
  <2>3. count \in 1 .. count /\ count - count + 1 = 1 /\ (count + 1) .. count = {}
    BY <1>2, <1>9
  <2>4. rd_index' = Back(wr_index, 1)
    BY <1>2, <1>4, BackOne
  <2>5. SearchOK'
    BY <1>4, <1>9, <2>3, <2>4 DEF SearchOK
  <2> QED BY <1>5, <2>1, <2>2, <2>5 DEF TrigInv, HeldOK, SelectorCorrect
<1> QED BY <1>6, <1>7, <1>8, <1>9

LEMMA IgnoreInv ==
    ASSUME TrigInv, NEW ev \in Event, Ignore(ev), read_data' = history[rd_index],
           LogClock(ev)
    PROVE  TrigInv'
<1>1. log' = log
  BY NotRecorded DEF Ignore, Recorded, Kept
<1>2. /\ UNCHANGED <<tst, history, wr_index, rd_index, count, remaining, trigger_record>>
      /\ match_status' = match_status /\ capture_valid' = FALSE
      /\ tst \in {"IDLE", "DONE"}
  BY DEF Ignore, NoReport
<1>3. RingOK' /\ log' \in Seq(Event)
  BY <1>1, <1>2, KeepsRing
<1>4. TriggerTypeOK'
  BY <1>2, ReadType DEF TrigInv, TriggerTypeOK
<1>5. SearchOK' /\ HeldOK'
  BY <1>2 DEF SearchOK, HeldOK
<1>6. SelectorCorrect'
  <2>1. SUFFICES ASSUME tst = "DONE" PROVE Answered'
    BY <1>2 DEF SelectorCorrect
  <2>2. Answered
    BY <2>1 DEF TrigInv, SelectorCorrect
  <2>3. match_status = "found" => read_data' = read_data
    BY <2>1 DEF TrigInv, HeldOK
  <2>4. Matches' = Matches
    BY <1>1, <1>2 DEF Matches
  <2>5. capture_data' = capture_data
    BY <1>2, <2>3 DEF capture_data
  <2> QED BY <1>1, <1>2, <2>2, <2>4, <2>5 DEF Answered, Newest
<1> QED BY <1>3, <1>4, <1>5, <1>6 DEF TrigInv

LEMMA WaitReadInv ==
    ASSUME TrigInv, NEW ev \in Event, WaitRead, read_data' = history[rd_index],
           LogClock(ev)
    PROVE  TrigInv'
<1>1. log' = log
  BY NotRecorded DEF WaitRead, Recorded
<1>2. /\ UNCHANGED <<history, wr_index, rd_index, count, remaining, trigger_record>>
      /\ match_status' = match_status /\ capture_valid' = FALSE
      /\ tst = "WAIT_READ" /\ tst' = "COMPARE"
  BY DEF WaitRead, NoReport
<1>3. RingOK' /\ log' \in Seq(Event)
  BY <1>1, <1>2, KeepsRing
<1>4. TriggerTypeOK'
  BY <1>2, ReadType DEF TrigInv, TriggerTypeOK
<1>5. SearchOK'
  BY <1>1, <1>2 DEF TrigInv, SearchOK
<1>6. HeldOK' /\ SelectorCorrect'
  BY <1>2 DEF HeldOK, SelectorCorrect
<1> QED BY <1>3, <1>4, <1>5, <1>6 DEF TrigInv

(* The entry a search looks at is event number remaining of the log.       *)
LEMMA LooksAt ==
    ASSUME TrigInv, tst = "COMPARE"
    PROVE  /\ remaining \in 1 .. count /\ count \in 1 .. Depth
           /\ count - remaining + 1 \in 1 .. Depth
           /\ rd_index = Back(wr_index, count - remaining + 1)
           /\ read_data = log[remaining]
<1>1. /\ count \in 0 .. Depth /\ remaining \in 1 .. count /\ Depth \in Nat
      /\ rd_index = Back(wr_index, count - remaining + 1)
      /\ read_data = history[rd_index]
  BY TriggerAssumption DEF TrigInv, TriggerTypeOK, SearchOK, HeldOK
<1>2. /\ count \in 1 .. Depth /\ count - remaining + 1 \in 1 .. count
      /\ count - remaining + 1 \in 1 .. Depth
      /\ count - (count - remaining + 1) + 1 = remaining
  BY <1>1
<1>3. history[Back(wr_index, count - remaining + 1)] = log[count - (count - remaining + 1) + 1]
  BY <1>2 DEF TrigInv, RingOK
<1> QED BY <1>1, <1>2, <1>3, Zenon

LEMMA CompareInv ==
    ASSUME TrigInv, NEW ev \in Event, Compare, read_data' = history[rd_index],
           LogClock(ev)
    PROVE  TrigInv'
<1>1. log' = log
  BY NotRecorded DEF Compare, Recorded
<1>2. UNCHANGED <<history, wr_index, count, trigger_record>> /\ tst = "COMPARE"
  BY DEF Compare
<1>3. RingOK' /\ log' \in Seq(Event)
  BY <1>1, <1>2, KeepsRing
<1>4. read_data' = read_data
  BY <1>2 DEF TrigInv, HeldOK
<1>5. /\ remaining \in 1 .. count /\ count \in 1 .. Depth /\ Len(log) = count
      /\ read_data = log[remaining] /\ Depth \in Nat
      /\ \A i \in (remaining + 1) .. count : log[i].key # trigger_record.key
      /\ ~trigger_record.exit
  BY <1>2, LooksAt, TriggerAssumption DEF TrigInv, SearchOK, RingOK
<1>6. Matches' = Matches
  BY <1>1, <1>2 DEF Matches
<1>7. \A i \in Matches : i \in 1 .. remaining
  BY <1>5 DEF Matches
<1>8. CASE matching
  <2>1. /\ tst' = "DONE" /\ match_status' = Verdict /\ capture_valid' = TRUE
        /\ rd_index' = rd_index /\ remaining' = remaining
    BY <1>8 DEF Compare, Report
  <2>2. Newest(remaining) /\ remaining \in Matches
    BY <1>5, <1>7, <1>8 DEF Newest, Matches, matching
  <2>3. remaining \in Matches' /\ \A i \in Matches' : i <= remaining
    BY <1>6, <2>2 DEF Newest
  <2>4. TriggerTypeOK'
    <3>1. Verdict \in Status
      BY DEF Verdict, Status
    <3> QED BY <1>2, <2>1, <3>1, ReadType DEF TrigInv, TriggerTypeOK
  <2>5. Answered'
    <3>1. CASE read_data.class = "candidate"
      <4>1. match_status' = "found"
        BY <2>1, <3>1 DEF Verdict
      <4>2. capture_data'.info = log'[remaining].info
        BY <1>1, <1>4, <1>5, <4>1 DEF capture_data
      <4>3. \E j \in Matches' : /\ Newest(j)' /\ log'[j].class = "candidate"
                                /\ log'[j].info = capture_data'.info
        BY <1>1, <1>5, <2>3, <3>1, <4>2 DEF Newest
      <4> QED BY <1>2, <1>5, <4>1, <4>3 DEF Answered
    <3>2. CASE read_data.class # "candidate"
      <4>1. match_status' = "returned"
        BY <2>1, <3>2 DEF Verdict
      <4>2. \E j \in Matches' : Newest(j)' /\ log'[j].class # "candidate"
        BY <1>1, <1>5, <2>3, <3>2 DEF Newest
      <4> QED BY <1>2, <1>5, <4>1, <4>2 DEF Answered
    <3> QED BY <3>1, <3>2
  <2> QED BY <1>2, <1>3, <2>1, <2>4, <2>5
         DEF TrigInv, SearchOK, HeldOK, SelectorCorrect
<1>9. CASE ~matching /\ remaining = 1
  <2>1. /\ tst' = "DONE" /\ match_status' = "missing" /\ capture_valid' = TRUE
        /\ rd_index' = rd_index /\ remaining' = remaining
    BY <1>9 DEF Compare, Report
  <2>2. TriggerTypeOK'
    BY <1>2, <2>1, ReadType DEF TrigInv, TriggerTypeOK, Status
  <2>3. Matches = {}
    BY <1>5, <1>7, <1>9 DEF Matches, matching
  <2> QED BY <1>2, <1>3, <1>5, <1>6, <2>1, <2>2, <2>3
         DEF TrigInv, SearchOK, HeldOK, SelectorCorrect, Answered
<1>10. CASE ~matching /\ remaining # 1
  <2>1. /\ tst' = "WAIT_READ" /\ match_status' = match_status /\ capture_valid' = FALSE
        /\ rd_index' = Down(rd_index) /\ remaining' = remaining - 1
    BY <1>10 DEF Compare, NoReport
  <2>2. /\ remaining' \in 1 .. count /\ remaining' \in 0 .. Depth
        /\ count - remaining + 1 \in 1 .. (Depth - 1)
        /\ count - remaining' + 1 = (count - remaining + 1) + 1
    BY <1>5, <1>10, <2>1
  <2>3. rd_index' = Back(wr_index, count - remaining' + 1)
    BY <1>2, <2>1, <2>2, LooksAt, BackDown DEF TrigInv, TriggerTypeOK
  <2>4. TriggerTypeOK'
    BY <1>2, <2>1, <2>2, ReadType, DownInRing DEF TrigInv, TriggerTypeOK
  <2>5. \A i \in (remaining' + 1) .. count : log[i].key # trigger_record.key
    BY <1>5, <1>10, <2>1 DEF matching
  <2>6. SearchOK'
    BY <1>1, <1>2, <1>5, <2>2, <2>3, <2>5 DEF SearchOK
  <2> QED BY <1>3, <2>1, <2>4, <2>6 DEF TrigInv, HeldOK, SelectorCorrect
<1> QED BY <1>8, <1>9, <1>10

(* A clock of the trigger, and a reset, which leaves the RAM as it is.     *)
LEMMA TriggerClockInv ==
    ASSUME TrigInv, NEW ev \in Event, TriggerClock(ev), LogClock(ev)
    PROVE  TrigInv'
BY RememberInv, DeliverInv, IgnoreInv, WaitReadInv, CompareInv DEF TriggerClock

LEMMA TriggerResetInv ==
    ASSUME TrigInv, TriggerReset, log' = <<>>
    PROVE  TrigInv'
<1>1. 0 \in Index /\ 0 \in 0 .. Depth /\ "none" \in Status
  BY TriggerAssumption DEF Index, Status
<1>2. TriggerTypeOK'
  BY <1>1, ReadType DEF TriggerReset, TrigInv, TriggerTypeOK
<1> QED BY <1>2 DEF TriggerReset, TrigInv, RingOK, SearchOK, HeldOK, SelectorCorrect

LEMMA TriggerInitInv == ASSUME TriggerInit, log = <<>> PROVE TrigInv
<1>1. 0 \in Index /\ 0 \in 0 .. Depth /\ "none" \in Status
  BY TriggerAssumption DEF Index, Status
<1>2. history \in [Index -> Event] /\ read_data \in Event /\ trigger_record \in Event
  BY TriggerAssumption DEF TriggerInit
<1>3. TriggerTypeOK
  BY <1>1, <1>2 DEF TriggerInit, TriggerTypeOK
<1> QED BY <1>3 DEF TriggerInit, TrigInv, RingOK, SearchOK, HeldOK, SelectorCorrect
-----------------------------------------------------------------------------
(* The publisher and the reader.                                           *)
DdrTypeOK ==
    /\ magic \in BOOLEAN /\ cap \in BOOLEAN
    /\ pay \in [Payload -> Capture] /\ published \in Capture
    /\ fresh \in BOOLEAN /\ mixed \in BOOLEAN
ReaderInv == ReaderOK /\ ReaderSafe

LEMMA CaptureType == ASSUME TriggerTypeOK PROVE capture_data \in Capture
<1>1. trigger_record.key \in Key /\ read_data.info \in Info
  BY DEF TriggerTypeOK, Event
<1>2. match_status \in Status
  BY DEF TriggerTypeOK
<1>3. (IF match_status = "found" THEN read_data.info ELSE NoInfo) \in Info \cup {NoInfo}
  BY <1>1
<1> QED BY <1>1, <1>2, <1>3 DEF capture_data, Capture

(* Once captured, the record is held until reset.                          *)
LEMMA CaptureHeld ==
    ASSUME TrigInv, NEW ev, TriggerClock(ev)
    PROVE  /\ tst = "DONE" => tst' = "DONE" /\ capture_data' = capture_data
           /\ capture_valid' => tst' = "DONE"
<1>1. ASSUME tst = "DONE" PROVE tst' = "DONE" /\ capture_data' = capture_data
  <2>1. Ignore(ev) /\ read_data' = history[rd_index]
    BY <1>1 DEF TriggerClock, Remember, Deliver, WaitRead, Compare
  <2>2. match_status' = match_status /\ trigger_record' = trigger_record /\ tst' = "DONE"
    BY <1>1, <2>1 DEF Ignore, NoReport
  <2>3. match_status = "found" => read_data' = read_data
    BY <1>1, <2>1 DEF TrigInv, HeldOK
  <2> QED BY <2>2, <2>3 DEF capture_data
<1>2. capture_valid' => tst' = "DONE"
  BY DEF TriggerClock, Remember, Deliver, Ignore, WaitRead, Compare, NoReport, Report
<1> QED BY <1>1, <1>2

(* The effect of one write of the publisher on the words in DDR3.          *)
LEMMA WriteLands ==
    ASSUME TriggerTypeOK, MailboxTypeOK, DdrTypeOK, PublishOK, ReaderInv,
           mst = "DIAG", ~m_ack, Perform
    PROVE  /\ magic' \in BOOLEAN /\ cap' \in BOOLEAN /\ fresh' \in BOOLEAN
           /\ pay' \in [Payload -> Capture] /\ published' \in Capture
           /\ step + 1 \in 2 .. CaptureStep => ~cap'
           /\ \A i \in Payload : i + 3 < step + 1 => pay'[i] = capture_data
           /\ cap' => \A i \in Payload : pay'[i] = published'
           /\ cap' /\ ~fresh' => ~mixed
           /\ fresh => fresh'
<1>1. step \in Int /\ 0 <= step /\ step < Done /\ NWords \in Nat \ {0} /\ Done = NWords + 4
      /\ CaptureStep = NWords + 3 /\ landed = step
  BY MailboxAssumption DEF MailboxTypeOK, PublishOK, diag_pending, Done, CaptureStep, landed
<1>2. capture_data \in Capture
  BY CaptureType
<1>3. "magic" # "captured" /\ "magic" # "payload" /\ "captured" # "payload"
  OBVIOUS
<1>4. /\ cap => \A i \in Payload : pay[i] = published
      /\ cap /\ ~fresh => ~mixed
      /\ rpos = 0 => ~mixed
      /\ landed \in 2 .. CaptureStep => ~cap
      /\ \A i \in Payload : i + 3 < landed => pay[i] = capture_data
  BY Zenon DEF PublishOK, ReaderInv, ReaderOK
<1>5. CASE step \in {0, 2}
  <2>1. diag_word = "magic" /\ diag_set \in BOOLEAN
    BY <1>1, <1>5 DEF diag_word, diag_set
  <2>2. /\ magic' = diag_set /\ cap' = cap /\ pay' = pay /\ published' = published
        /\ fresh' = (fresh \/ (Declares /\ rpos # 0)) /\ ~Declares
    BY <1>3, <2>1, Zenon DEF Perform, Declares
  <2>3. /\ step + 1 \in 2 .. CaptureStep => landed \in 2 .. CaptureStep
        /\ \A i \in Payload : ~(i + 3 < step + 1)
    BY <1>1, <1>5 DEF Payload
  <2> QED BY <1>4, <2>1, <2>2, <2>3, Zenon DEF DdrTypeOK
<1>6. CASE step = 1
  <2>1. diag_word = "captured" /\ ~diag_set /\ diag_set \in BOOLEAN
    BY <1>1, <1>6 DEF diag_word, diag_set
  <2>2. /\ magic' = magic /\ ~cap' /\ cap' \in BOOLEAN /\ pay' = pay /\ published' = published
        /\ fresh' = (fresh \/ (Declares /\ rpos # 0)) /\ ~Declares
    BY <1>3, <2>1, Zenon DEF Perform, Declares
  <2>3. \A i \in Payload : ~(i + 3 < step + 1)
    BY <1>1, <1>6 DEF Payload
  <2> QED BY <2>2, <2>3, Zenon DEF DdrTypeOK
<1>7. CASE step = CaptureStep
  <2>1. diag_word = "captured" /\ diag_set
    <3>1. ~(step \in {0, 2}) /\ step \in {1, CaptureStep} /\ step >= 2
      BY <1>1, <1>7
    <3> QED BY <3>1, Zenon DEF diag_word, diag_set
  <2>2. /\ cap' /\ cap' \in BOOLEAN /\ published' = capture_data /\ magic' = magic /\ pay' = pay
        /\ fresh' = (fresh \/ (Declares /\ rpos # 0)) /\ Declares
    BY <1>3, <2>1, Zenon DEF Perform, Declares
  <2>3. /\ \A i \in Payload : i + 3 < landed
        /\ ~(step + 1 \in 2 .. CaptureStep)
    BY <1>1, <1>7 DEF Payload
  <2> QED BY <1>2, <1>4, <2>2, <2>3, Zenon DEF DdrTypeOK
<1>8. CASE step \in 3 .. (NWords + 2)
  <2>1. diag_word = "payload"
    BY <1>1, <1>8 DEF diag_word
  <2>2. /\ pay' = [pay EXCEPT ![step - 3] = capture_data]
        /\ magic' = magic /\ cap' = cap /\ published' = published
        /\ fresh' = (fresh \/ (Declares /\ rpos # 0)) /\ ~Declares
    BY <1>3, <2>1, Zenon DEF Perform, Declares, payload_index
  <2>3. ~cap
    <3>1. landed \in 2 .. CaptureStep
      BY <1>1, <1>8
    <3> QED BY <1>4, <3>1, Zenon
  <2>4. step - 3 \in Payload
    BY <1>1, <1>8 DEF Payload
  <2>5. pay \in [Payload -> Capture]
    BY DEF DdrTypeOK
  <2>6. ASSUME NEW i \in Payload, i + 3 < step + 1 PROVE pay'[i] = capture_data
    <3>1. CASE i = step - 3
      BY <2>2, <2>4, <2>5, <3>1
    <3>2. CASE i # step - 3
      <4>1. i + 3 < landed
        BY <1>1, <2>6, <3>2 DEF Payload
      <4>2. pay'[i] = pay[i]
        BY <2>2, <2>5, <3>2
      <4> QED BY <1>4, <4>1, <4>2, Zenon
    <3> QED BY <3>1, <3>2, Zenon
  <2>7. pay' \in [Payload -> Capture]
    BY <1>2, <2>2, <2>4, <2>5
  <2> QED BY <2>2, <2>3, <2>6, <2>7, Zenon DEF DdrTypeOK
<1>9. step \in {0, 2} \/ step = 1 \/ step = CaptureStep \/ step \in 3 .. (NWords + 2)
  BY <1>1
<1> QED BY <1>5, <1>6, <1>7, <1>8, <1>9, Zenon

PubInv == /\ MailboxTypeOK /\ DdrTypeOK /\ PublishOK /\ ReaderInv
          /\ last \in {"none", "BRIDGE", "DIAG"}
          /\ rpos \in 0 .. (NWords + 4) /\ resets \in 0 .. MaxResets

(* What a clock does to the publisher's state machine.                     *)
LEMMA MailboxSteps ==
    ASSUME PubInv, MailboxClock(capture_valid), NEW answer \in BOOLEAN, Port(answer)
    PROVE  /\ mst' \in {"IDLE", "BRIDGE", "DIAG", "GAP"} /\ step' \in 0 .. Done
           /\ step' > 3 => captured'
           /\ mst' = "DIAG" => diag_pending'
           /\ m_ack' => mst' \in {"BRIDGE", "DIAG"} /\ last' = mst' /\ mst' = mst /\ step' = step
           /\ landed' = IF answer /\ mst = "DIAG" THEN step + 1 ELSE landed
           /\ landed > 3 \/ (mst = "DIAG" /\ step >= 3) => captured
<1>1. /\ step \in 0 .. Done /\ NWords \in Nat \ {0} /\ Done = NWords + 4
      /\ mst \in {"IDLE", "BRIDGE", "DIAG", "GAP"} /\ m_ack \in BOOLEAN
      /\ captured \in BOOLEAN
  BY MailboxAssumption DEF PubInv, MailboxTypeOK, Done
<1>2. /\ step > 3 => captured
      /\ mst = "DIAG" => diag_pending
      /\ m_ack => mst \in {"BRIDGE", "DIAG"}
  BY DEF PubInv, PublishOK
<1>3. mst = "DIAG" => step < Done /\ (step >= 3 => captured)
  BY <1>1, <1>2 DEF diag_pending
<1>4. captured => captured'
  BY DEF MailboxClock
<1>5. m_ack' = answer /\ (answer => m_req /\ ~m_ack /\ last' = mst)
  BY Zenon DEF Port
<1>6. m_req => mst \in {"BRIDGE", "DIAG"}
  BY DEF m_req
<1>7. CASE mst = "IDLE"
  <2>1. /\ mst' = (IF diag_pending THEN "DIAG" ELSE IF b_req THEN "BRIDGE" ELSE "IDLE")
        /\ step' = step
    BY <1>7 DEF MailboxClock, Choose, Bridge, Diag, Gap
  <2>2. ~answer /\ ~m_ack
    BY <1>2, <1>5, <1>6, <1>7
  <2>3. diag_pending => diag_pending'
    BY <1>4, <2>1 DEF diag_pending, Done
  <2> QED BY <1>1, <1>2, <1>4, <1>5, <1>7, <2>1, <2>2, <2>3 DEF landed
<1>8. CASE mst = "BRIDGE"
  <2>1. mst' = (IF m_ack THEN "GAP" ELSE "BRIDGE") /\ step' = step
    BY <1>8 DEF MailboxClock, Choose, Bridge, Diag, Gap
  <2> QED BY <1>1, <1>2, <1>4, <1>5, <1>8, <2>1 DEF landed
<1>9. CASE mst = "DIAG"
  <2>1. /\ mst' = (IF m_ack THEN "GAP" ELSE "DIAG")
        /\ step' = (IF m_ack THEN step + 1 ELSE step)
    BY <1>9 DEF MailboxClock, Choose, Bridge, Diag, Gap
  <2>2. mst' = "DIAG" => diag_pending'
    BY <1>2, <1>4, <1>9, <2>1 DEF diag_pending, Done
  <2> QED BY <1>1, <1>2, <1>3, <1>4, <1>5, <1>9, <2>1, <2>2 DEF landed
<1>10. CASE mst = "GAP"
  <2>1. mst' = (IF m_ack THEN "GAP" ELSE "IDLE") /\ step' = step
    BY <1>10 DEF MailboxClock, Choose, Bridge, Diag, Gap
  <2>2. ~answer /\ ~m_ack
    BY <1>2, <1>5, <1>6, <1>10
  <2> QED BY <1>1, <1>2, <1>4, <1>5, <1>10, <2>1, <2>2 DEF landed
<1> QED BY <1>1, <1>7, <1>8, <1>9, <1>10

(* A clock keeps what the publisher and the reader rely on.                *)
LEMMA PublishClock ==
    ASSUME TrigInv, PubInv, NEW ev, NEW request \in BOOLEAN, NEW answer \in BOOLEAN,
           Clock(ev, request, answer)
    PROVE  PubInv'
<1>1. /\ TriggerClock(ev) /\ MailboxClock(capture_valid) /\ BridgeClock(request)
      /\ Port(answer) /\ UNCHANGED <<rpos, mixed, resets>>
  BY Zenon DEF Clock, readerVars
<1>2. /\ MailboxTypeOK /\ DdrTypeOK /\ PublishOK /\ ReaderInv /\ TriggerTypeOK
      /\ last \in {"none", "BRIDGE", "DIAG"}
      /\ rpos \in 0 .. (NWords + 4) /\ resets \in 0 .. MaxResets
  BY Zenon DEF PubInv, TrigInv
<1>3. /\ mst' \in {"IDLE", "BRIDGE", "DIAG", "GAP"} /\ step' \in 0 .. Done
      /\ step' > 3 => captured'
      /\ mst' = "DIAG" => diag_pending'
      /\ m_ack' => mst' \in {"BRIDGE", "DIAG"} /\ last' = mst'
      /\ landed' = IF answer /\ mst = "DIAG" THEN step + 1 ELSE landed
      /\ landed > 3 \/ (mst = "DIAG" /\ step >= 3) => captured
  BY <1>1, MailboxSteps, Zenon
<1>4. MailboxTypeOK'
  <2>1. captured' = (captured \/ capture_valid) /\ m_ack' = answer
    BY <1>1, Zenon DEF MailboxClock, Port
  <2>2. b_req' = IF b_ack THEN FALSE ELSE b_req \/ request
    BY <1>1, Zenon DEF BridgeClock
  <2>3. captured \in BOOLEAN /\ capture_valid \in BOOLEAN /\ b_req \in BOOLEAN
    BY <1>2, Zenon DEF MailboxTypeOK, TriggerTypeOK
  <2>4. captured' \in BOOLEAN /\ m_ack' \in BOOLEAN /\ b_req' \in BOOLEAN
    BY <2>1, <2>2, <2>3, Zenon
  <2> QED BY <1>3, <2>4, Zenon DEF MailboxTypeOK
<1>5. /\ captured' \/ capture_valid' => tst' = "DONE"
      /\ captured => tst = "DONE" /\ capture_data' = capture_data
  <2>1. captured \/ capture_valid => tst = "DONE"
    BY <1>2, Zenon DEF PublishOK
  <2>2. /\ tst = "DONE" => tst' = "DONE" /\ capture_data' = capture_data
        /\ capture_valid' => tst' = "DONE"
    BY <1>1, CaptureHeld, Zenon
  <2>3. captured' => captured \/ capture_valid
    BY <1>1, Zenon DEF MailboxClock
  <2> QED BY <2>1, <2>2, <2>3, Zenon
<1>6. last' \in {"none", "BRIDGE", "DIAG"}
  <2>1. answer => last' = mst /\ m_req
    BY <1>1, Zenon DEF Port
  <2>2. ~answer => last' = "none"
    BY <1>1, Zenon DEF Port
  <2>3. m_req => mst \in {"BRIDGE", "DIAG"}
    BY Zenon DEF m_req
  <2> QED BY <2>1, <2>2, <2>3, Zenon
<1>7. /\ magic' \in BOOLEAN /\ cap' \in BOOLEAN /\ fresh' \in BOOLEAN
      /\ pay' \in [Payload -> Capture] /\ published' \in Capture
      /\ landed' \in 2 .. CaptureStep => ~cap'
      /\ \A i \in Payload : i + 3 < landed' => pay'[i] = capture_data'
      /\ cap' => \A i \in Payload : pay'[i] = published'
      /\ cap' /\ ~fresh' => ~mixed
      /\ fresh => fresh'
  <2>1. step \in Int /\ landed \in Int
    <3>1. step \in Int
      BY <1>2, MailboxAssumption DEF MailboxTypeOK, Done
    <3> QED BY <3>1 DEF landed
  <2>2. CASE answer /\ mst = "DIAG"
    <3>1. ~m_ack /\ Perform
      BY <1>1, <2>2, Zenon DEF Port
    <3>2. landed' = step + 1
      BY <1>3, <2>2, Zenon
    <3>3. \A i \in Payload : i + 3 < step + 1 => captured
      <4> TAKE i \in Payload
      <4> HAVE i + 3 < step + 1
      <4>1. step >= 3
        BY <2>1 DEF Payload
      <4> QED BY <1>3, <2>2, <4>1, Zenon
    <3>4. /\ magic' \in BOOLEAN /\ cap' \in BOOLEAN /\ fresh' \in BOOLEAN
          /\ pay' \in [Payload -> Capture] /\ published' \in Capture
          /\ step + 1 \in 2 .. CaptureStep => ~cap'
          /\ \A i \in Payload : i + 3 < step + 1 => pay'[i] = capture_data
          /\ cap' => \A i \in Payload : pay'[i] = published'
          /\ cap' /\ ~fresh' => ~mixed
          /\ fresh => fresh'
      BY <1>2, <2>2, <3>1, WriteLands, Zenon
    <3> QED BY <1>5, <3>2, <3>3, <3>4, Zenon
  <2>3. CASE ~(answer /\ mst = "DIAG")
    <3>1. UNCHANGED <<magic, cap, pay, published, fresh>>
      BY <1>1, <2>3, Zenon DEF Port, Perform, ddrVars
    <3>2. landed' = landed
      BY <1>3, <2>3, Zenon
    <3>3. \A i \in Payload : i + 3 < landed => captured
      <4> TAKE i \in Payload
      <4> HAVE i + 3 < landed
      <4>1. landed > 3
        BY <2>1 DEF Payload
      <4> QED BY <1>3, <4>1, Zenon
    <3>4. /\ landed \in 2 .. CaptureStep => ~cap
          /\ \A i \in Payload : i + 3 < landed => pay[i] = capture_data
          /\ cap => \A i \in Payload : pay[i] = published
          /\ cap /\ ~fresh => ~mixed
      BY <1>2, Zenon DEF PublishOK, ReaderInv, ReaderOK
    <3> QED BY <1>2, <1>5, <3>1, <3>2, <3>3, <3>4, Zenon DEF DdrTypeOK
  <2> QED BY <2>2, <2>3, Zenon
<1>8. DdrTypeOK'
  BY <1>1, <1>2, <1>7, Zenon DEF DdrTypeOK
<1>9. PublishOK'
  BY <1>3, <1>5, <1>7, Zenon DEF PublishOK
<1>10. ReaderInv'
  BY <1>1, <1>2, <1>7, Zenon DEF ReaderInv, ReaderOK, ReaderSafe
<1> QED BY <1>1, <1>2, <1>4, <1>6, <1>8, <1>9, <1>10, Zenon DEF PubInv

(* A reset begins the publication anew, whatever its last write did.       *)
LEMMA PublishReset ==
    ASSUME TrigInv, PubInv, Reset
    PROVE  PubInv'
<1>1. /\ resets < MaxResets /\ resets' = resets + 1
      /\ mst' = "IDLE" /\ step' = 0 /\ captured' = FALSE
      /\ capture_valid' = FALSE
      /\ m_ack' = FALSE /\ last' = "none" /\ b_req' = FALSE
      /\ UNCHANGED <<magic, cap, pay, published, fresh>> \/ (m_req /\ ~m_ack /\ Perform)
      /\ UNCHANGED <<rpos, mixed>>
  BY Zenon DEF Reset, MailboxReset, TriggerReset, readerVars, ddrVars
<1>2. /\ MailboxTypeOK /\ DdrTypeOK /\ PublishOK /\ ReaderInv /\ TriggerTypeOK
      /\ rpos \in 0 .. (NWords + 4) /\ resets \in 0 .. MaxResets
  BY Zenon DEF PubInv, TrigInv
<1>3. NWords \in Nat /\ Done = NWords + 4 /\ MaxResets \in Nat
  BY MailboxAssumption, EventAssumption DEF Done
<1>4. MailboxTypeOK'
  <2>1. 0 \in 0 .. Done
    BY <1>3
  <2> QED BY <1>1, <2>1, Zenon DEF MailboxTypeOK
<1>5. resets' \in 0 .. MaxResets
  BY <1>1, <1>2, <1>3
<1>6. landed' = 0 /\ ~(0 \in 2 .. CaptureStep) /\ \A i \in Payload : ~(i + 3 < 0)
  BY <1>1, <1>3 DEF landed, Payload
<1>7. /\ magic' \in BOOLEAN /\ cap' \in BOOLEAN /\ fresh' \in BOOLEAN
      /\ pay' \in [Payload -> Capture] /\ published' \in Capture
      /\ cap' => \A i \in Payload : pay'[i] = published'
      /\ cap' /\ ~fresh' => ~mixed
      /\ fresh => fresh'
  <2>1. CASE UNCHANGED <<magic, cap, pay, published, fresh>>
    BY <1>2, <2>1, Zenon DEF DdrTypeOK, PublishOK, ReaderInv, ReaderOK
  <2>2. CASE m_req /\ ~m_ack /\ Perform /\ mst = "DIAG"
    BY <1>2, <2>2, WriteLands, Zenon
  <2>3. CASE Perform /\ mst # "DIAG"
    <3>1. UNCHANGED <<magic, cap, pay, published, fresh>>
      BY <2>3, Zenon DEF Perform, ddrVars
    <3> QED BY <2>1, <3>1, Zenon
  <2> QED BY <1>1, <2>1, <2>2, <2>3, Zenon
<1>8. DdrTypeOK'
  BY <1>1, <1>2, <1>7, Zenon DEF DdrTypeOK
<1>9. PublishOK'
  <2>1. ~(step' > 3)
    BY <1>1
  <2> QED BY <1>1, <1>6, <1>7, <2>1 DEF PublishOK
<1>10. ReaderInv'
  BY <1>1, <1>2, <1>7, Zenon DEF ReaderInv, ReaderOK, ReaderSafe
<1> QED BY <1>1, <1>2, <1>4, <1>5, <1>8, <1>9, <1>10, Zenon DEF PubInv

(* What a step of the reader leaves alone.                                 *)
LEMMA ReadKeepsTrigger ==
    ASSUME TrigInv, UNCHANGED <<triggerVars, log>>
    PROVE  TrigInv'
<1>1. TriggerTypeOK'
  BY DEF TrigInv, triggerVars, TriggerTypeOK
<1>2. RingOK' /\ log' \in Seq(Event)
  BY KeepsRing DEF triggerVars
<1>3. SearchOK' /\ HeldOK'
  BY DEF TrigInv, triggerVars, SearchOK, HeldOK
<1>4. Matches' = Matches /\ capture_data' = capture_data
  BY DEF triggerVars, Matches, capture_data
<1>5. SelectorCorrect'
  BY <1>4 DEF TrigInv, triggerVars, SelectorCorrect, Answered, Newest
<1> QED BY <1>1, <1>2, <1>3, <1>5 DEF TrigInv

LEMMA PublishRead ==
    ASSUME TrigInv, PubInv, Read
    PROVE  PubInv'
<1>1. /\ UNCHANGED <<triggerVars, mst, step, captured, m_ack, last, b_req>>
      /\ UNCHANGED <<magic, cap, pay, published, resets>>
      /\ fresh' = (fresh /\ rpos' # 0)
  BY Zenon DEF Read, mailboxVars, ddrVars
<1>2. /\ MailboxTypeOK /\ DdrTypeOK /\ PublishOK /\ ReaderInv
      /\ last \in {"none", "BRIDGE", "DIAG"}
      /\ rpos \in 0 .. (NWords + 4) /\ resets \in 0 .. MaxResets
  BY Zenon DEF PubInv
<1>3. NWords \in Nat \ {0}
  BY MailboxAssumption
<1>4. capture_data' = capture_data /\ capture_valid' = capture_valid /\ tst' = tst
  BY <1>1 DEF triggerVars, capture_data
<1>5. landed' = landed /\ (diag_pending' <=> diag_pending)
  BY <1>1 DEF landed, diag_pending
<1>6. MailboxTypeOK'
  BY <1>1, <1>2, Zenon DEF MailboxTypeOK
<1>7. PublishOK'
  BY <1>1, <1>2, <1>4, <1>5, Zenon DEF PublishOK
<1>8. /\ cap => \A i \in Payload : pay[i] = published
      /\ cap /\ ~fresh => ~mixed
      /\ rpos = NWords + 4 /\ ~fresh => ~mixed
      /\ mixed \in BOOLEAN /\ fresh \in BOOLEAN
  BY <1>2, Zenon DEF PublishOK, ReaderInv, ReaderOK, ReaderSafe, DdrTypeOK
<1>9. /\ mixed' \in BOOLEAN /\ fresh' \in BOOLEAN /\ rpos' \in 0 .. (NWords + 4)
      /\ ReaderInv'
  <2>1. CASE rpos \in 2 .. (NWords + 1) /\ rpos' = rpos + 1
             /\ mixed' = (mixed \/ pay[rpos - 2] # published)
    <3>1. /\ rpos - 2 \in Payload /\ rpos' # 0 /\ rpos' # NWords + 4
          /\ rpos' \in 0 .. (NWords + 4)
      BY <1>3, <2>1 DEF Payload
    <3>2. fresh' = fresh /\ mixed' \in BOOLEAN
      BY <1>1, <1>8, <2>1, <3>1, Zenon
    <3>3. cap => (mixed' <=> mixed)
      BY <1>8, <2>1, <3>1, Zenon
    <3> QED BY <1>1, <1>8, <3>1, <3>2, <3>3, Zenon DEF ReaderInv, ReaderOK, ReaderSafe
  <2>2. CASE (rpos \in {0, NWords + 2} \/ (rpos \in {1, NWords + 3} /\ cap))
             /\ rpos' = rpos + 1 /\ mixed' = mixed
    <3>1. /\ rpos' # 0 /\ rpos' \in 0 .. (NWords + 4)
          /\ rpos' = NWords + 4 => cap
      BY <1>3, <2>2
    <3>2. fresh' = fresh
      BY <1>1, <1>8, <3>1, Zenon
    <3> QED BY <1>1, <1>8, <2>2, <3>1, <3>2, Zenon DEF ReaderInv, ReaderOK, ReaderSafe
  <2>3. CASE rpos' = 0 /\ mixed' = FALSE
    <3>1. rpos' \in 0 .. (NWords + 4) /\ fresh' \in BOOLEAN
      BY <1>1, <1>3, <2>3
    <3> QED BY <2>3, <3>1, Zenon DEF ReaderInv, ReaderOK, ReaderSafe
  <2> QED BY <2>1, <2>2, <2>3, Zenon DEF Read
<1>10. DdrTypeOK'
  BY <1>1, <1>2, <1>9, Zenon DEF DdrTypeOK
<1> QED BY <1>1, <1>2, <1>6, <1>7, <1>9, <1>10, Zenon DEF PubInv

LEMMA PublishInit ==
    ASSUME TrigInv, Init
    PROVE  PubInv
<1>1. NWords \in Nat \ {0} /\ MaxResets \in Nat
  BY MailboxAssumption, EventAssumption
<1>2. capture_data \in Capture
  BY CaptureType, Zenon DEF TrigInv
<1>3. MailboxTypeOK
  <2>1. 0 \in 0 .. Done
    BY <1>1 DEF Done
  <2> QED BY <2>1, Zenon DEF Init, MailboxInit, MailboxTypeOK
<1>4. DdrTypeOK
  BY <1>2 DEF Init, DdrTypeOK
<1>5. landed = 0 /\ ~(0 \in 2 .. CaptureStep) /\ \A i \in Payload : ~(i + 3 < 0)
  BY <1>1 DEF Init, MailboxInit, landed, Payload
<1>6. PublishOK
  BY <1>5 DEF Init, MailboxInit, TriggerInit, PublishOK
<1>7. ReaderInv
  BY <1>1 DEF Init, ReaderInv, ReaderOK, ReaderSafe
<1>8. 0 \in 0 .. (NWords + 4) /\ 0 \in 0 .. MaxResets
  BY <1>1
<1> QED BY <1>3, <1>4, <1>6, <1>7, <1>8, Zenon DEF Init, PubInv
-----------------------------------------------------------------------------
(* The two halves together are the invariant the runs check.               *)
LEMMA Halves == TrigInv /\ PubInv <=> Inv
BY Zenon DEF TrigInv, PubInv, Inv, TypeOK, DdrTypeOK, ReaderInv

(* Every step of the core, of a reset and of the reader keeps Inv.         *)
THEOREM DiagnosticInvariant == Spec => []Inv
<1>1. Init => Inv
  <2>1. SUFFICES ASSUME Init PROVE Inv
    OBVIOUS
  <2>2. TrigInv
    BY <2>1, TriggerInitInv, Zenon DEF Init
  <2> QED BY <2>1, <2>2, PublishInit, Halves
<1>2. Inv /\ [Next]_vars => Inv'
  <2>1. SUFFICES ASSUME TrigInv, PubInv, [Next]_vars PROVE TrigInv' /\ PubInv'
    BY Halves, Zenon DEF TrigInv, PubInv, Inv, TypeOK, DdrTypeOK, ReaderInv
  <2>2. ASSUME NEW ev \in Events \cup {Idle}, NEW request \in BOOLEAN,
               NEW answer \in BOOLEAN, Clock(ev, request, answer)
        PROVE  TrigInv' /\ PubInv'
    <3>1. ev \in Event
      BY EventAssumption
    <3>2. TrigInv'
      BY <2>1, <2>2, <3>1, TriggerClockInv, Zenon DEF Clock
    <3> QED BY <2>1, <2>2, <3>2, PublishClock, Zenon
  <2>3. CASE Reset
    BY <2>1, <2>3, TriggerResetInv, PublishReset, Zenon DEF Reset
  <2>4. CASE Read
    <3>1. TrigInv'
      BY <2>1, <2>4, ReadKeepsTrigger, Zenon DEF Read
    <3> QED BY <2>1, <2>4, <3>1, PublishRead, Zenon
  <2>5. CASE UNCHANGED vars
    <3>1. TrigInv'
      BY <2>1, <2>5, ReadKeepsTrigger, Zenon DEF vars
    <3>2. PubInv'
      BY <2>1, <2>5
         DEF PubInv, MailboxTypeOK, DdrTypeOK, PublishOK, ReaderInv, ReaderOK, ReaderSafe,
             landed, diag_pending, capture_data, vars, triggerVars, mailboxVars, ddrVars,
             readerVars
    <3> QED BY <3>1, <3>2
  <2> QED BY <2>1, <2>2, <2>3, <2>4, <2>5, Zenon DEF Next
<1> QED BY <1>1, <1>2, PTL DEF Spec

(* TypeOK holds at every clock, for every ring and record size.            *)
THEOREM DiagnosticTypes == Spec => []TypeOK
<1>1. Inv => TypeOK
  BY DEF Inv
<1> QED BY <1>1, DiagnosticInvariant, PTL

(* The search of the ring answers what the document promises.              *)
THEOREM SelectorIsCorrect == Spec => []SelectorCorrect
<1>1. Inv => SelectorCorrect
  BY DEF Inv
<1> QED BY <1>1, DiagnosticInvariant, PTL

(* No record is declared complete with a word that is not its own.         *)
THEOREM RecordIsIntact == Spec => []RecordIntact
<1>1. Inv => RecordIntact
  BY Zenon DEF Inv, PublishOK, RecordIntact
<1> QED BY <1>1, DiagnosticInvariant, PTL

(* What the user's reader accepts is one record.                           *)
THEOREM ReaderIsSafe == Spec => []ReaderSafe
<1>1. Inv => ReaderSafe
  BY DEF Inv
<1> QED BY <1>1, DiagnosticInvariant, PTL

(* The bridge is never acknowledged for a write of the publisher.          *)
THEOREM BridgeAckIsOwn == Spec => []BridgeAckOwn
<1>1. Inv => BridgeAckOwn
  BY Zenon DEF Inv, PublishOK, BridgeAckOwn, b_ack
<1> QED BY <1>1, DiagnosticInvariant, PTL
=============================================================================
