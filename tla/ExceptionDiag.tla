--------------------------- MODULE ExceptionDiag ---------------------------
(***************************************************************************)
(* The exception diagnostic of NeXT.sv (DEBUG_EXCEPTIONS): the trigger and *)
(* the publisher on the clock of the core, the ethernet bridge that shares *)
(* the publisher's DDR3 port, resets at any clock, and the user on the ARM *)
(* side who reads the record word by word while all of this goes on.       *)
(***************************************************************************)
EXTENDS ExcTrigger, ExcMailbox, Sequences

CONSTANTS Events,       \* what the CPU core reports
          Idle,         \* the event of a clock without one
          MaxResets     \* bound: resets

ASSUME EventAssumption ==
    /\ Events \subseteq Event
    /\ Idle \in Event /\ Idle.class = "none"
    /\ MaxResets \in Nat

VARIABLES
    magic, cap, pay,    \* the diagnostic words in DDR3
    last,               \* owner of the operation the port acknowledges
    rpos,               \* the reader: words read so far
    mixed,              \* history: it read a word not of the record declared last
    log,                \* history: the last Depth frames and returns since reset
    published,          \* history: the record last declared complete
    fresh,              \* history: declared since the reader started
    resets

ddrVars == <<magic, cap, pay, published>>
readerVars == <<rpos, mixed>>
vars == <<triggerVars, mailboxVars, m_ack, last, b_req, ddrVars, readerVars, log, fresh, resets>>

Payload == 0 .. (NWords - 1)

(* At power-up DDR3 may hold a complete record of an earlier run.        *)
Init ==
    /\ TriggerInit /\ MailboxInit
    /\ m_ack = FALSE /\ b_req = FALSE
    /\ magic \in BOOLEAN /\ cap = magic
    /\ pay = [i \in Payload |-> capture_data]
    /\ last = "none" /\ published = capture_data
    /\ fresh = FALSE
    /\ rpos = 0 /\ mixed = FALSE
    /\ log = <<>> /\ resets = 0
-----------------------------------------------------------------------------
(* The port performs the operation requested.                              *)
Declares == diag_word = "captured" /\ diag_set

Perform ==
    IF mst = "DIAG"
    THEN /\ magic' = IF diag_word = "magic" THEN diag_set ELSE magic
         /\ cap' = IF diag_word = "captured" THEN diag_set ELSE cap
         /\ pay' = IF diag_word = "payload"
                   THEN [pay EXCEPT ![payload_index] = capture_data] ELSE pay
         /\ published' = IF Declares THEN capture_data ELSE published
         /\ fresh' = (fresh \/ (Declares /\ rpos # 0))
    ELSE UNCHANGED <<ddrVars, fresh>>

Port(answer) ==
    /\ answer => m_req /\ ~m_ack
    /\ m_ack' = answer
    /\ IF answer THEN last' = mst /\ Perform
                 ELSE last' = "none" /\ UNCHANGED <<ddrVars, fresh>>

(* The bridge holds its request until it is acknowledged.                  *)
BridgeClock(request) ==
    /\ request => ~b_req
    /\ b_req' = IF b_ack THEN FALSE ELSE b_req \/ request

Recorded(ev) == tst = "IDLE" /\ ev.class \in Kept
Latest(l) == IF Len(l) > Depth THEN Tail(l) ELSE l
LogClock(ev) == log' = IF Recorded(ev) THEN Latest(Append(log, ev)) ELSE log

Clock(ev, request, answer) ==
    /\ TriggerClock(ev)
    /\ MailboxClock(capture_valid)
    /\ BridgeClock(request)
    /\ Port(answer)
    /\ LogClock(ev)
    /\ UNCHANGED <<readerVars, resets>>

(* A reset: the operation the port had begun lands or does not.            *)
Reset ==
    /\ resets < MaxResets /\ resets' = resets + 1
    /\ TriggerReset /\ MailboxReset
    /\ m_ack' = FALSE /\ last' = "none" /\ b_req' = FALSE
    /\ UNCHANGED <<ddrVars, fresh>> \/ (m_req /\ ~m_ack /\ Perform)
    /\ log' = <<>>
    /\ UNCHANGED readerVars

(* The reader: magic, captured, the payload, and both headers again.  It   *)
(* starts over when a header is not that of a complete record.             *)
Read ==
    /\ \/ /\ rpos \in 2 .. (NWords + 1) /\ rpos' = rpos + 1
          /\ mixed' = (mixed \/ pay[rpos - 2] # published)
       \/ /\ \/ rpos \in {0, NWords + 2} /\ magic
             \/ rpos \in {1, NWords + 3} /\ cap
          /\ rpos' = rpos + 1 /\ mixed' = mixed
       \/ /\ \/ rpos \in {0, NWords + 2} /\ ~magic
             \/ rpos \in {1, NWords + 3} /\ ~cap
             \/ rpos = NWords + 4
          /\ rpos' = 0 /\ mixed' = FALSE
    /\ fresh' = (fresh /\ rpos' # 0)
    /\ UNCHANGED <<triggerVars, mailboxVars, m_ack, last, b_req, ddrVars, log, resets>>

Next ==
    \/ \E ev \in Events \cup {Idle}, request, answer \in BOOLEAN : Clock(ev, request, answer)
    \/ Reset
    \/ Read

Spec == Init /\ [][Next]_vars
-----------------------------------------------------------------------------
TypeOK ==
    /\ TriggerTypeOK /\ MailboxTypeOK
    /\ magic \in BOOLEAN /\ cap \in BOOLEAN
    /\ pay \in [Payload -> Capture]
    /\ mixed \in BOOLEAN
    /\ published \in Capture
    /\ fresh \in BOOLEAN
    /\ last \in {"none", "BRIDGE", "DIAG"}
    /\ rpos \in 0 .. (NWords + 4)
    /\ log \in Seq(Event)
    /\ resets \in 0 .. MaxResets

(* The events a delivery may be matched with.                              *)
Matches == {j \in 1 .. Len(log) : log[j].key = trigger_record.key}
Newest(j) == j \in Matches /\ \A i \in Matches : i <= j

(* What docs/EXCEPTION_DIAGNOSTIC.md promises of the match field: the      *)
(* newest retained event of the frame decides, a return hides what is      *)
(* older, and context that is missing or evicted is never made up.         *)
Answered ==
    /\ match_status # "none"
    /\ match_status = "exit" <=> trigger_record.exit
    /\ match_status = "missing" => Matches = {}
    /\ match_status = "returned" => \E j \in Matches : Newest(j) /\ log[j].class # "candidate"
    /\ match_status = "found" =>
          \E j \in Matches : /\ Newest(j) /\ log[j].class = "candidate"
                            /\ log[j].info = capture_data.info

(* The search of next_exception_trigger.sv, with its registered RAM, its   *)
(* wrapping index and the stale entries of earlier boots, gives that       *)
(* answer, and the answer stays right for as long as it is held.           *)
SelectorCorrect == tst = "DONE" => Answered

(* A record declared complete in DDR3 is the one the selector captured,    *)
(* every word of it, also while the next boot takes the mailbox over.      *)
RecordIntact == magic /\ cap => \A i \in Payload : pay[i] = published

(* "Repeated headers detect publication during a read": what the reader    *)
(* accepts is one record, unless a whole new record was published since.   *)
ReaderSafe == rpos = NWords + 4 /\ ~fresh => ~mixed

(* The bridge is acknowledged for its own operations only.                 *)
BridgeAckOwn == b_ack => last = "BRIDGE"

(* The inductive invariant.  The ring holds the log, the newest event just *)
(* behind wr_index; a search has excluded what is newer than the entry it  *)
(* looks at, and the registered RAM output is that entry.                  *)
Back(w, j) == IF w >= j THEN w - j ELSE w + Depth - j
RingOK ==
    /\ Len(log) = count
    /\ \A j \in 1 .. count : history[Back(wr_index, j)] = log[count - j + 1]
SearchOK ==
    tst \in {"WAIT_READ", "COMPARE"} =>
        /\ ~trigger_record.exit
        /\ remaining \in 1 .. count
        /\ rd_index = Back(wr_index, count - remaining + 1)
        /\ \A i \in (remaining + 1) .. count : log[i].key # trigger_record.key
HeldOK ==
    tst = "COMPARE" \/ (tst = "DONE" /\ match_status = "found") => read_data = history[rd_index]

(* The words written in this boot, the one acknowledged now included.      *)
landed == IF mst = "DIAG" /\ m_ack THEN step + 1 ELSE step
PublishOK ==
    /\ captured \/ capture_valid => tst = "DONE"
    /\ step > 3 => captured
    /\ mst = "DIAG" => diag_pending
    /\ m_ack => mst \in {"BRIDGE", "DIAG"} /\ last = mst
    /\ landed \in 2 .. CaptureStep => ~cap
    /\ \A i \in Payload : i + 3 < landed => pay[i] = capture_data
    /\ cap => \A i \in Payload : pay[i] = published
ReaderOK ==
    /\ cap /\ ~fresh => ~mixed
    /\ rpos = 0 => ~mixed
Inv == TypeOK /\ RingOK /\ SearchOK /\ HeldOK /\ SelectorCorrect /\ PublishOK /\ ReaderOK /\ ReaderSafe
=============================================================================
