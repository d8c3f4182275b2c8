----------------------------- MODULE NfcSession -----------------------------
(***************************************************************************)
(* The card emulation around an APDU: the session and its exchanges        *)
(* (nfc/Src/nfc.c), the user presence that the selection of the FIDO       *)
(* applet stands for (nfc/Src/ctap_nfc.c), and what these share with the   *)
(* USB side (app.c).  CtapNfc says what an APDU is answered.               *)
(*                                                                         *)
(* An iteration of the main loop calls app_nfc_task once: rfalNfcWorker,   *)
(* the steps named Worker..., then one step of the task.  In between the   *)
(* time passes, the reader comes or goes, and a USB request is handled.    *)
(* RFAL is external: of its states those the task tells apart.  What its   *)
(* second poll in a call would find is found by the first one of the next. *)
(*                                                                         *)
(* An operator X_Y is the definition X with the plausible bug Y; nothing   *)
(* uses it.                                                                *)
(***************************************************************************)
EXTENDS Integers

CONSTANT PresenceLimit  \* CTAP_MAX_USER_PRESENCE_TIME_LIMIT_NFC, in ticks of the clock

ASSUME PresenceAssumption == PresenceLimit \in Nat \ {0}

VARIABLES
    near,           \* a reader's field is there
    rf,             \* the state of RFAL
    exchange,       \* its dataExErr
    rx,             \* the frame *nfc_runtime.rx_data, until it is processed
    worked,         \* rfalNfcWorker has been called, the rest of the task not yet
    nfc_state,      \* nfc_runtime.state
    ce_state,       \* nfc_runtime.ce_state
    selected_app,   \* nfc_runtime.ce_ctx.selected_app
    user_present,   \* app_ctap.nfc_user_present, and nfc_ctap_in_use: they go together
    age,            \* ticks since user_presence_timer was started, up to the limit
    ticked,         \* the clock has ticked since the last call of the task
    usb_keepalive,  \* less than 80 ms ago a keepalive went to a USB host
    halted          \* assert(ctaphid_has_complete_message_ready) has failed

radio == <<near, rf, exchange, rx>>
session == <<nfc_state, ce_state, selected_app>>
presence == <<user_present, age, ticked>>
outcome == <<usb_keepalive, halted>>
vars == <<radio, worked, session, presence, outcome>>

TypeOK ==
    /\ near \in BOOLEAN /\ worked \in BOOLEAN /\ halted \in BOOLEAN
    /\ rf \in {"start", "listen", "activated", "exchange", "done", "sleep", "deactivation"}
    /\ exchange \in {"busy", "none", "sleep_req", "failed", "retry"}
    /\ rx \in {"none", "apdu", "empty", "too_long"}
    /\ nfc_state \in {"START_DISCOVERY", "DISCOVERY", "CE_ACTIVE"}
    /\ ce_state \in {"IDLE", "WAIT_RX", "PROCESS_RX", "WAIT_TX", "ERROR_RECOVERY"}
    /\ selected_app \in {"none", "FIDO", "NDEF"}
    /\ user_present \in BOOLEAN /\ ticked \in BOOLEAN /\ usb_keepalive \in BOOLEAN
    /\ age \in 0..PresenceLimit

Init ==
    /\ near = FALSE
    /\ rf = "start" /\ exchange = "busy" /\ rx = "none"
    /\ worked = FALSE
    /\ nfc_state = "DISCOVERY" /\ ce_state = "IDLE" /\ selected_app = "none"
    /\ user_present = FALSE /\ age = 0 /\ ticked = FALSE
    /\ usb_keepalive = FALSE /\ halted = FALSE

-----------------------------------------------------------------------------
(* Between two calls of app_nfc_task.                                      *)

Between == ~worked /\ ~halted /\ UNCHANGED <<worked, session>>

ReaderComesOrGoes ==
    /\ Between
    /\ near' = ~near
    /\ UNCHANGED <<rf, exchange, rx, presence, outcome>>

Tick ==
    /\ Between
    /\ ticked' = TRUE
    /\ age' = IF user_present /\ age < PresenceLimit THEN age + 1 ELSE age
    /\ usb_keepalive' = FALSE
    /\ UNCHANGED <<radio, user_present, halted>>

\* app_ctaphid_task handles a CTAPHID_CBOR message.  With the flag set its keepalives are
\* left out; otherwise ctap_request begins with one.  ctap_wait_for_user_presence grants
\* the request, whichever side it comes from, while the flag is set, and leaves the flag.
UsbRequest ==
    /\ Between
    /\ usb_keepalive' = (usb_keepalive \/ ~user_present)
    /\ UNCHANGED <<radio, presence, halted>>

-----------------------------------------------------------------------------
(* rfalNfcWorker.                                                          *)

Works ==
    /\ ~worked /\ ~halted
    /\ worked' = TRUE
    /\ UNCHANGED <<near, session, presence, outcome>>

WorkerIdles ==
    /\ Works
    /\ \/ rf \in {"listen", "activated", "done"}
       \/ near /\ rf \in {"exchange", "sleep"}
    /\ UNCHANGED <<rf, exchange, rx>>

\* Listening begins, is begun again, or ends because the field is lost.
WorkerRestarts ==
    /\ Works
    /\ rf \in {"start", "listen", "deactivation", "sleep"}
    /\ near => rf # "sleep"
    /\ rf' = IF rf = "start" THEN "listen" ELSE "start"
    /\ UNCHANGED <<exchange, rx>>

WorkerActivates ==
    /\ Works /\ near
    /\ rf \in {"listen", "sleep"}
    /\ rf' = "activated"
    /\ UNCHANGED <<exchange, rx>>

\* What an APDU says is chosen when it is parsed.
WorkerReceives ==
    /\ Works /\ near
    /\ rf = "exchange" /\ exchange = "busy"
    /\ rf' = "done" /\ exchange' = "none"
    /\ rx' \in {"apdu", "empty", "too_long"}

WorkerSleeps ==
    /\ Works /\ near
    /\ rf = "exchange" /\ exchange = "busy"
    /\ rf' = "sleep" /\ exchange' = "sleep_req"
    /\ UNCHANGED rx

\* "retry" is RFAL_ERR_TIMEOUT or RFAL_ERR_PROTO, "failed" any other error.
WorkerFails ==
    /\ Works
    /\ rf = "exchange" /\ exchange = "busy"
    /\ rf' = "done"
    /\ exchange' \in (IF near THEN {"failed", "retry"} ELSE {"failed"})
    /\ UNCHANGED rx

Worker ==
    \/ WorkerIdles \/ WorkerRestarts \/ WorkerActivates
    \/ WorkerReceives \/ WorkerSleeps \/ WorkerFails

-----------------------------------------------------------------------------
(* The rest of the task.                                                   *)

Returns ==
    /\ worked /\ ~halted
    /\ worked' = FALSE /\ ticked' = FALSE
    /\ rx' = IF ce_state \in {"WAIT_RX", "WAIT_TX"} THEN rx ELSE "none"
    /\ UNCHANGED <<near, usb_keepalive>>

\* The selection as nfc_init_session leaves it; the chaining state is CtapNfc's.
InitSession == ce_state' = "IDLE" /\ selected_app' = "none"

StartDiscovery ==
    /\ Returns
    /\ nfc_state = "START_DISCOVERY"
    /\ nfc_state' = "DISCOVERY"
    /\ InitSession
    /\ UNCHANGED <<rf, exchange, user_present, age, halted>>

Discover ==
    /\ Returns
    /\ nfc_state = "DISCOVERY"
    /\ IF rf \in {"activated", "exchange", "done"}
       THEN nfc_state' = "CE_ACTIVE" /\ InitSession
       ELSE UNCHANGED session
    /\ UNCHANGED <<rf, exchange, user_present, age, halted>>

\* The end of NFC_CE_ACTIVE in app_nfc_task, given the flag and the timer that
\* nfc_ce_task leaves.
Expires(present, since) ==
    /\ user_present' = (present /\ since < PresenceLimit)
    /\ age' = IF user_present' THEN since ELSE 0

EndSession_KeepsPresence ==
    /\ Returns
    /\ nfc_state = "CE_ACTIVE" /\ rf = "start"
    /\ nfc_state' = "START_DISCOVERY"
    /\ InitSession
    /\ Expires(user_present, age)
    /\ UNCHANGED <<rf, exchange, halted>>

EndSession ==
    /\ Returns
    /\ nfc_state = "CE_ACTIVE" /\ rf = "start"
    /\ nfc_state' = "START_DISCOVERY"
    /\ InitSession
    /\ Expires(FALSE, 0)
    /\ UNCHANGED <<rf, exchange, halted>>

InSession == Returns /\ nfc_state = "CE_ACTIVE" /\ UNCHANGED nfc_state

\* Nothing to do for nfc_ce_task.
Idles ==
    /\ InSession
    /\ \/ rf \in {"listen", "deactivation"}
       \/ ce_state \in {"IDLE", "ERROR_RECOVERY"} /\ rf \in {"exchange", "done", "sleep"}
       \/ ce_state \in {"WAIT_RX", "WAIT_TX"} /\ rf = "exchange" /\ exchange = "busy"
    /\ Expires(user_present, age)
    /\ UNCHANGED <<rf, exchange, ce_state, selected_app, halted>>

\* nfc_start_rx and nfc_start_tx; they cannot fail in the states they are called in.
StartRx == rf' = "exchange" /\ exchange' = "busy" /\ ce_state' = "WAIT_RX"
StartTx == rf' = "exchange" /\ exchange' = "busy" /\ ce_state' = "WAIT_TX"

Recover_StaysActive == UNCHANGED <<rf, exchange>> /\ ce_state' = "ERROR_RECOVERY"

\* nfc_enter_error_recovery for errors that are not worth a retry.
Recover == rf' = "deactivation" /\ UNCHANGED exchange /\ ce_state' = "ERROR_RECOVERY"

Activated ==
    /\ InSession
    /\ rf = "activated" /\ ce_state = "IDLE"
    /\ StartRx
    /\ Expires(user_present, age)
    /\ UNCHANGED <<selected_app, halted>>

Stays(state) == ce_state' = state /\ UNCHANGED <<rf, exchange>>

\* nfc_handle_wait_rx and nfc_handle_wait_tx; only the first one minds a long frame.
Waited ==
    /\ InSession
    /\ ce_state \in {"WAIT_RX", "WAIT_TX"}
    /\ rf \in {"done", "sleep"}
    /\ \/ exchange = "sleep_req" /\ Stays("IDLE")
       \/ exchange = "retry" /\ StartRx
       \/ exchange = "failed" /\ Recover
       \/ exchange = "none" /\ rx = "apdu" /\ Stays("PROCESS_RX")
       \/ exchange = "none" /\ rx = "empty" /\ ce_state = "WAIT_RX" /\ Stays("IDLE")
       \/ exchange = "none" /\ rx = "empty" /\ ce_state = "WAIT_TX" /\ StartRx
       \/ exchange = "none" /\ rx = "too_long" /\ ce_state = "WAIT_RX" /\ Recover
       \/ exchange = "none" /\ rx = "too_long" /\ ce_state = "WAIT_TX" /\ Stays("PROCESS_RX")
    /\ Expires(user_present, age)
    /\ UNCHANGED <<selected_app, halted>>

-----------------------------------------------------------------------------
(* nfc_handle_process_rx, by what the APDU is.                             *)

Process == InSession /\ ce_state = "PROCESS_RX" /\ rf = "done"

SelectFido ==
    /\ Process
    /\ StartTx
    /\ selected_app' = "FIDO"
    /\ Expires(TRUE, 0)
    /\ UNCHANGED halted

\* The presence goes on.
SelectOther ==
    /\ Process
    /\ StartTx
    /\ selected_app' \in {"none", "NDEF"}
    /\ Expires(user_present, age)
    /\ UNCHANGED halted

\* A piece of a response may be too long for tx_buf, and the reader may deselect the applet.
OtherApdu ==
    /\ Process
    /\ \/ StartTx /\ selected_app' \in {selected_app, "none"}
       \/ selected_app = "FIDO" /\ Recover /\ UNCHANGED selected_app
    /\ Expires(user_present, age)
    /\ UNCHANGED halted

\* fido_handle_ctap, whose response may be too long.  ctap_request begins with a
\* keepalive: it is for the USB host unless the flag is set, or it has just had one.
\* Waiting for the user, it needs more of them.
CtapRequest ==
    /\ Process
    /\ selected_app = "FIDO"
    /\ user_present \/ usb_keepalive
    /\ StartTx \/ Recover
    /\ Expires(user_present, age)
    /\ UNCHANGED <<selected_app, halted>>

CtapRequestHalts ==
    /\ Process
    /\ selected_app = "FIDO"
    /\ ~user_present
    /\ halted' = TRUE
    /\ UNCHANGED <<rf, exchange, ce_state, selected_app, user_present, age>>

Task ==
    \/ StartDiscovery \/ Discover \/ EndSession \/ Idles \/ Activated \/ Waited
    \/ SelectFido \/ SelectOther \/ OtherApdu \/ CtapRequest \/ CtapRequestHalts

Next == ReaderComesOrGoes \/ Tick \/ UsbRequest \/ Worker \/ Task

\* The main loop goes on, as long as the assertion holds.
Spec == Init /\ [][Next]_vars /\ WF_vars(Worker) /\ WF_vars(Task)

-----------------------------------------------------------------------------
(* Properties.                                                             *)

\* The selection of the FIDO applet stands for the user only within its session, and
\* after each call of the task no longer than the limit: the timer is not looked at in
\* the other states of the task, nor while a request is handled.
PresenceLimited ==
    user_present => nfc_state = "CE_ACTIVE" /\ (age < PresenceLimit \/ ticked)

\* A first frame without an APDU leaves the task idle in a session that RFAL does not
\* end: nothing starts another exchange.
Deaf == nfc_state = "CE_ACTIVE" /\ ce_state = "IDLE" /\ rf = "done"

\* When the reader is gone, the session ends and the key looks for another reader.
LostReaderEndsSession ==
    <>[]~near => <>[](nfc_state = "DISCOVERY" \/ Deaf \/ halted)

-----------------------------------------------------------------------------
(* What the source says and the code does not do.                          *)

\* assert(ctaphid_has_complete_message_ready(&app_ctaphid)) in app_ctaphid_send_keepalive
\* (app.c:63): the only message there can be is that of a USB request.
KeepaliveHasMessage == ~halted
=============================================================================
