----------------------------- MODULE ExcTrigger -----------------------------
(***************************************************************************)
(* next_exception_trigger.sv: the last Depth exception frames and returns  *)
(* of the guest are kept in a ring of block RAM; when the kernel delivers  *)
(* an exception the ring is searched, newest entry first, for the frame    *)
(* it is delivered for, one entry every two clocks because the RAM is read *)
(* through a register.  The first delivery freezes the record until reset. *)
(*                                                                         *)
(* An event keeps the fields that decide: its class, the (URP, frame       *)
(* address) pair as one key, the saved context as info, and whether a      *)
(* delivery is the exit fallback (reason 3), which has no frame.  An event *)
(* the module does not support counts as none.                             *)
(***************************************************************************)
EXTENDS Integers

CONSTANTS Depth,        \* 64: entries of the ring
          Key,          \* (URP, frame address) pairs
          Info,         \* saved contexts of exception frames
          NoInfo,       \* the zero context of a record without a match
          Stale         \* what RAM and unreset registers may hold at power-up

VARIABLES tst, history, read_data, wr_index, rd_index, count, remaining,
          trigger_record, match_status, capture_valid

triggerVars == <<tst, history, read_data, wr_index, rd_index, count, remaining,
                 trigger_record, match_status, capture_valid>>

Index == 0 .. (Depth - 1)
Kept == {"candidate", "return"}
Event == [class : Kept \cup {"delivery", "none"}, key : Key, info : Info,
          exit : BOOLEAN]
ASSUME TriggerAssumption ==
    /\ Depth \in Nat \ {0} /\ NoInfo \notin Info
    /\ Stale # {} /\ Stale \subseteq Event

Status == {"none", "found", "returned", "missing", "exit"}

(* Six-bit index arithmetic.                                               *)
Up(i) == IF i = Depth - 1 THEN 0 ELSE i + 1
Down(i) == IF i = 0 THEN Depth - 1 ELSE i - 1

capture_data ==
    [status |-> match_status, key |-> trigger_record.key,
     info |-> IF match_status = "found" THEN read_data.info ELSE NoInfo]
Capture == [status : Status, key : Key, info : Info \cup {NoInfo}]

Verdict == IF read_data.class = "candidate" THEN "found" ELSE "returned"
matching == read_data.key = trigger_record.key
-----------------------------------------------------------------------------
(* The block RAM has no reset: stale entries survive, count hides them.    *)
TriggerReset ==
    /\ tst' = "IDLE" /\ wr_index' = 0 /\ rd_index' = 0
    /\ count' = 0 /\ remaining' = 0
    /\ capture_valid' = FALSE /\ match_status' = "none"
    /\ read_data' = history[rd_index]
    /\ UNCHANGED <<history, trigger_record>>

Report(s) == tst' = "DONE" /\ match_status' = s /\ capture_valid' = TRUE
NoReport == match_status' = match_status /\ capture_valid' = FALSE

Remember(ev) ==
    /\ tst = "IDLE" /\ ev.class \in Kept
    /\ history' = [history EXCEPT ![wr_index] = ev]
    /\ wr_index' = Up(wr_index)
    /\ count' = IF count # Depth THEN count + 1 ELSE count
    /\ NoReport
    /\ UNCHANGED <<tst, rd_index, remaining, trigger_record>>

Deliver(ev) ==
    /\ tst = "IDLE" /\ ev.class = "delivery"
    /\ trigger_record' = ev
    /\ rd_index' = Down(wr_index)
    /\ remaining' = count
    /\ IF ev.exit THEN Report("exit")
       ELSE IF count = 0 THEN Report("missing")
       ELSE tst' = "WAIT_READ" /\ NoReport
    /\ UNCHANGED <<history, wr_index, count>>

Ignore(ev) ==
    /\ tst = "DONE" \/ (tst = "IDLE" /\ ev.class = "none")
    /\ NoReport
    /\ UNCHANGED <<tst, history, wr_index, rd_index, count, remaining, trigger_record>>

WaitRead ==
    /\ tst = "WAIT_READ" /\ tst' = "COMPARE"
    /\ NoReport
    /\ UNCHANGED <<history, wr_index, rd_index, count, remaining, trigger_record>>

(* Mutant: the entry after a mismatch is compared a clock too early.       *)
CompareEager ==
    /\ tst = "COMPARE"
    /\ IF matching THEN Report(Verdict) /\ UNCHANGED <<rd_index, remaining>>
       ELSE IF remaining = 1 THEN Report("missing") /\ UNCHANGED <<rd_index, remaining>>
       ELSE /\ rd_index' = Down(rd_index) /\ remaining' = remaining - 1
            /\ tst' = "COMPARE" /\ NoReport
    /\ UNCHANGED <<history, wr_index, count, trigger_record>>

Compare ==
    /\ tst = "COMPARE"
    /\ IF matching THEN Report(Verdict) /\ UNCHANGED <<rd_index, remaining>>
       ELSE IF remaining = 1 THEN Report("missing") /\ UNCHANGED <<rd_index, remaining>>
       ELSE /\ rd_index' = Down(rd_index) /\ remaining' = remaining - 1
            /\ tst' = "WAIT_READ" /\ NoReport
    /\ UNCHANGED <<history, wr_index, count, trigger_record>>

TriggerClock(ev) ==
    /\ read_data' = history[rd_index]
    /\ Remember(ev) \/ Deliver(ev) \/ Ignore(ev) \/ WaitRead \/ Compare

TriggerInit ==
    /\ tst = "IDLE" /\ wr_index = 0 /\ rd_index = 0 /\ count = 0 /\ remaining = 0
    /\ capture_valid = FALSE /\ match_status = "none"
    /\ history \in [Index -> Stale]
    /\ read_data \in Stale /\ trigger_record \in Stale

TriggerTypeOK ==
    /\ tst \in {"IDLE", "WAIT_READ", "COMPARE", "DONE"}
    /\ history \in [Index -> Event]
    /\ read_data \in Event /\ trigger_record \in Event
    /\ wr_index \in Index /\ rd_index \in Index
    /\ count \in 0 .. Depth /\ remaining \in 0 .. Depth
    /\ match_status \in Status
    /\ capture_valid \in BOOLEAN
=============================================================================
