----------------------------- MODULE ExcMailbox -----------------------------
(***************************************************************************)
(* next_exception_mailbox.sv with INPUT_HELD = 1, as NeXT.sv instantiates  *)
(* it: the captured record is published word by word in DDR3, through the  *)
(* port it shares with the ethernet bridge.  The snapshot register of      *)
(* INPUT_HELD = 0 is not built and not modelled.                           *)
(*                                                                         *)
(* A port operation is a bridge operation, somewhere else in the mailbox,  *)
(* or a write of one diagnostic word: "magic", "captured" or payload i.    *)
(***************************************************************************)
EXTENDS Integers

CONSTANT NWords         \* 8: payload words of a record

ASSUME MailboxAssumption == NWords \in Nat \ {0}

VARIABLES mst, step, captured,
          m_ack,        \* acknowledge of the DDR3 port, one clock long
          b_req         \* request level of the ethernet bridge

mailboxVars == <<mst, step, captured>>

CaptureStep == NWords + 3       \* 11: the write of captured = 1
Done == NWords + 4              \* 12: everything is published

(* Mutant: the record is declared complete before its payload is written.  *)
diag_word_early ==
    IF step \in {0, 2} THEN "magic"
    ELSE IF step \in {1, 3} THEN "captured"
    ELSE "payload"

(* Mutant: the boot does not clear captured.                               *)
diag_word_kept ==
    IF step < 3 THEN "magic"
    ELSE IF step = CaptureStep THEN "captured"
    ELSE "payload"

diag_pending == step < 3 \/ (captured /\ step < Done)
payload_index == step - 3
diag_word ==
    IF step \in {0, 2} THEN "magic"
    ELSE IF step \in {1, CaptureStep} THEN "captured"
    ELSE "payload"
diag_set == step >= 2           \* magic and captured: the value written

m_req == (mst = "BRIDGE" /\ b_req) \/ mst = "DIAG"

(* Mutant: any acknowledge of the port is passed to the bridge.            *)
b_ack_any == m_ack

b_ack == mst = "BRIDGE" /\ m_ack
-----------------------------------------------------------------------------
MailboxReset == mst' = "IDLE" /\ step' = 0 /\ captured' = FALSE

Choose ==
    /\ mst = "IDLE"
    /\ mst' = IF diag_pending THEN "DIAG" ELSE IF b_req THEN "BRIDGE" ELSE "IDLE"
    /\ step' = step

Bridge ==
    /\ mst = "BRIDGE"
    /\ mst' = IF m_ack THEN "GAP" ELSE "BRIDGE"
    /\ step' = step

Diag ==
    /\ mst = "DIAG"
    /\ mst' = IF m_ack THEN "GAP" ELSE "DIAG"
    /\ step' = IF m_ack THEN step + 1 ELSE step

Gap ==
    /\ mst = "GAP"
    /\ mst' = IF m_ack THEN "GAP" ELSE "IDLE"
    /\ step' = step

MailboxClock(event_valid) ==
    /\ captured' = (captured \/ event_valid)
    /\ Choose \/ Bridge \/ Diag \/ Gap

MailboxInit == mst = "IDLE" /\ step = 0 /\ captured = FALSE

MailboxTypeOK ==
    /\ mst \in {"IDLE", "BRIDGE", "DIAG", "GAP"}
    /\ step \in 0 .. Done
    /\ captured \in BOOLEAN /\ m_ack \in BOOLEAN /\ b_req \in BOOLEAN
=============================================================================
