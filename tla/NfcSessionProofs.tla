-------------------------- MODULE NfcSessionProofs --------------------------
(***************************************************************************)
(* Proofs about NfcSession: the types, and how long and where the          *)
(* selection of the FIDO applet stands for the user's presence, for every  *)
(* limit.  PresenceLimited is inductive with the types: the timer is       *)
(* looked at wherever the flag can still be set.                           *)
(***************************************************************************)
EXTENDS NfcSession, TLAPS

IInv == TypeOK /\ PresenceLimited

LEMMA InitEstablishes == Init => IInv
<1> SUFFICES ASSUME Init PROVE IInv
  OBVIOUS
<1>1. 0 \in 0..PresenceLimit
  BY PresenceAssumption
<1>2. ~user_present
  BY DEF Init
<1>3. TypeOK
  BY <1>1 DEF Init, TypeOK
<1> QED
  BY <1>2, <1>3 DEF IInv, PresenceLimited

\* What happens between two calls of the task may let the time run, never set the flag.
LEMMA BetweenPreserves ==
    ASSUME IInv, ReaderComesOrGoes \/ Tick \/ UsbRequest \/ Worker
    PROVE  IInv'
<1> USE PresenceAssumption DEF IInv, TypeOK, PresenceLimited
<1>1. CASE ReaderComesOrGoes
  BY <1>1 DEF ReaderComesOrGoes, Between, session, presence, outcome
<1>2. CASE Tick
  <2>1. age' \in 0..PresenceLimit
    BY <1>2 DEF Tick
  <2>2. ticked' /\ ticked' \in BOOLEAN /\ usb_keepalive' \in BOOLEAN
    BY <1>2 DEF Tick
  <2>3. UNCHANGED <<near, rf, exchange, rx, worked, nfc_state, ce_state, selected_app,
                    user_present, halted>>
    BY <1>2 DEF Tick, Between, radio, session
  <2>4. TypeOK'
    BY <2>1, <2>2, <2>3
  <2>5. PresenceLimited'
    BY <2>2, <2>3
  <2> QED
    BY <2>4, <2>5
<1>3. CASE UsbRequest
  <2>1. usb_keepalive' \in BOOLEAN
    BY <1>3 DEF UsbRequest
  <2> QED
    BY <2>1, <1>3 DEF UsbRequest, Between, radio, session, presence
<1>4. CASE Worker
  <2>1. UNCHANGED <<near, session, presence, outcome>> /\ worked' \in BOOLEAN
    BY <1>4 DEF Worker, Works, WorkerIdles, WorkerRestarts, WorkerActivates,
                WorkerReceives, WorkerSleeps, WorkerFails
  <2>2. rf' \in {"start", "listen", "activated", "exchange", "done", "sleep", "deactivation"}
    BY <1>4 DEF Worker, WorkerIdles, WorkerRestarts, WorkerActivates,
                WorkerReceives, WorkerSleeps, WorkerFails
  <2>3. exchange' \in {"busy", "none", "sleep_req", "failed", "retry"}
    BY <1>4 DEF Worker, WorkerIdles, WorkerRestarts, WorkerActivates,
                WorkerReceives, WorkerSleeps, WorkerFails
  <2>4. rx' \in {"none", "apdu", "empty", "too_long"}
    BY <1>4 DEF Worker, WorkerIdles, WorkerRestarts, WorkerActivates,
                WorkerReceives, WorkerSleeps, WorkerFails
  <2> QED
    BY <2>1, <2>2, <2>3, <2>4 DEF session, presence, outcome
<1> QED
  BY <1>1, <1>2, <1>3, <1>4

\* The timer as the task leaves it.
LEMMA ExpiresLimits ==
    ASSUME NEW present \in BOOLEAN, NEW since \in 0..PresenceLimit, Expires(present, since)
    PROVE  /\ user_present' \in BOOLEAN
           /\ age' \in 0..PresenceLimit
           /\ user_present' => age' < PresenceLimit
<1>1. /\ user_present' = (present /\ since < PresenceLimit)
      /\ age' = IF user_present' THEN since ELSE 0
  BY DEF Expires
<1>2. user_present' \in BOOLEAN /\ (user_present' => since < PresenceLimit)
  BY <1>1
<1>3. age' \in {since, 0} /\ (user_present' => age' = since)
  BY <1>1
<1> QED
  BY <1>2, <1>3, PresenceAssumption

\* What all steps of the task do alike.
LEMMA ReturnsTypes ==
    ASSUME IInv, Returns
    PROVE  /\ near' \in BOOLEAN /\ worked' \in BOOLEAN /\ ticked' \in BOOLEAN
           /\ usb_keepalive' \in BOOLEAN
           /\ rx' \in {"none", "apdu", "empty", "too_long"}
BY DEF Returns, IInv, TypeOK

\* The steps outside a session do not touch the flag, which is not set there.
LEMMA OutsidePreserves ==
    ASSUME IInv, StartDiscovery \/ Discover
    PROVE  IInv'
<1>1. Returns /\ UNCHANGED <<rf, exchange, user_present, age, halted>>
  BY DEF StartDiscovery, Discover
<1>2. ~user_present
  BY DEF StartDiscovery, Discover, IInv, PresenceLimited
<1>3. /\ nfc_state' \in {"START_DISCOVERY", "DISCOVERY", "CE_ACTIVE"}
      /\ ce_state' \in {"IDLE", "WAIT_RX", "PROCESS_RX", "WAIT_TX", "ERROR_RECOVERY"}
      /\ selected_app' \in {"none", "FIDO", "NDEF"}
  BY DEF StartDiscovery, Discover, InitSession, session, IInv, TypeOK
<1> QED
  BY <1>1, <1>2, <1>3, ReturnsTypes DEF IInv, TypeOK, PresenceLimited

\* The steps that end with the look at the timer.
LEMMA LooksPreserve ==
    ASSUME IInv,
           EndSession \/ Idles \/ Activated \/ Waited
             \/ SelectFido \/ SelectOther \/ OtherApdu \/ CtapRequest
    PROVE  IInv'
<1> USE DEF EndSession, Idles, Activated, Waited, SelectFido, SelectOther, OtherApdu,
            CtapRequest
<1>1. Returns /\ halted' = halted
  BY DEF InSession, Process
<1>2. \E present \in BOOLEAN, since \in 0..PresenceLimit :
        Expires(present, since) /\ (present => nfc_state' = "CE_ACTIVE")
  <2> DEFINE Looks(present, since) ==
                Expires(present, since) /\ (present => nfc_state' = "CE_ACTIVE")
  <2>1. TRUE \in BOOLEAN /\ FALSE \in BOOLEAN /\ 0 \in 0..PresenceLimit
    BY PresenceAssumption
  <2>2. user_present \in BOOLEAN /\ age \in 0..PresenceLimit
    BY DEF IInv, TypeOK
  <2>3. CASE EndSession
    <3>1. Looks(FALSE, 0)
      BY <2>3
    <3> QED
      BY <2>1, <3>1
  <2>4. CASE SelectFido
    <3>1. Looks(TRUE, 0)
      BY <2>4 DEF InSession, Process
    <3> QED
      BY <2>1, <3>1
  <2>5. CASE Idles \/ Activated \/ Waited \/ SelectOther \/ OtherApdu \/ CtapRequest
    <3>1. Looks(user_present, age)
      BY <2>5 DEF InSession, Process
    <3> QED
      BY <2>2, <3>1
  <2> QED
    BY <2>3, <2>4, <2>5
<1>3. /\ user_present' \in BOOLEAN /\ age' \in 0..PresenceLimit
      /\ user_present' => age' < PresenceLimit /\ nfc_state' = "CE_ACTIVE"
  <2>1. PICK present \in BOOLEAN, since \in 0..PresenceLimit :
          Expires(present, since) /\ (present => nfc_state' = "CE_ACTIVE")
    BY <1>2
  <2>2. user_present' => present
    BY <2>1 DEF Expires
  <2> QED
    BY <2>1, <2>2, ExpiresLimits
<1>4. nfc_state' \in {"START_DISCOVERY", "DISCOVERY", "CE_ACTIVE"}
  BY DEF InSession, Process, IInv, TypeOK
<1>5. ce_state' \in {"IDLE", "WAIT_RX", "PROCESS_RX", "WAIT_TX", "ERROR_RECOVERY"}
  BY DEF InitSession, StartRx, StartTx, Recover, Stays, IInv, TypeOK
<1>6. selected_app' \in {"none", "FIDO", "NDEF"}
  BY DEF InitSession, IInv, TypeOK
<1>7. rf' \in {"start", "listen", "activated", "exchange", "done", "sleep", "deactivation"}
  BY DEF StartRx, StartTx, Recover, Stays, IInv, TypeOK
<1>8. exchange' \in {"busy", "none", "sleep_req", "failed", "retry"}
  BY DEF StartRx, StartTx, Recover, Stays, IInv, TypeOK
<1>9. /\ near' \in BOOLEAN /\ worked' \in BOOLEAN /\ ticked' \in BOOLEAN
      /\ usb_keepalive' \in BOOLEAN
      /\ rx' \in {"none", "apdu", "empty", "too_long"}
  BY <1>1, ReturnsTypes
<1>10. halted' \in BOOLEAN
  BY <1>1 DEF IInv, TypeOK
<1> HIDE DEF EndSession, Idles, Activated, Waited, SelectFido, SelectOther, OtherApdu,
             CtapRequest
<1>11. TypeOK'
  BY <1>3, <1>4, <1>5, <1>6, <1>7, <1>8, <1>9, <1>10 DEF TypeOK
<1>12. PresenceLimited'
  <2>1. user_present' => nfc_state' = "CE_ACTIVE" /\ age' < PresenceLimit
    BY <1>3
  <2> QED
    BY <2>1 DEF PresenceLimited
<1> QED
  BY <1>11, <1>12 DEF IInv

\* The assertion fails only when the flag is not set.
LEMMA HaltPreserves ==
    ASSUME IInv, CtapRequestHalts
    PROVE  IInv'
BY ReturnsTypes DEF CtapRequestHalts, Process, InSession, IInv, TypeOK, PresenceLimited

LEMMA StepPreserves == IInv /\ [Next]_vars => IInv'
<1> SUFFICES ASSUME IInv, [Next]_vars PROVE IInv'
  OBVIOUS
<1>1. CASE Next
  BY <1>1, BetweenPreserves, OutsidePreserves, LooksPreserve, HaltPreserves DEF Next, Task
<1>2. CASE UNCHANGED vars
  BY <1>2 DEF vars, radio, session, presence, outcome, IInv, TypeOK, PresenceLimited
<1> QED
  BY <1>1, <1>2

THEOREM Invariant == Spec => []IInv
BY InitEstablishes, StepPreserves, PTL DEF Spec

\* Every variable keeps its type, in particular the timer's age never passes the limit.
THEOREM TypeCorrect == Spec => []TypeOK
<1>1. IInv => TypeOK
  BY DEF IInv
<1> QED
  BY <1>1, Invariant, PTL

\* One selection of the FIDO applet stands for the user only in its session and, after
\* each call of app_nfc_task, for less than the limit.
THEOREM PresenceIsLimited == Spec => []PresenceLimited
<1>1. IInv => PresenceLimited
  BY DEF IInv
<1> QED
  BY <1>1, Invariant, PTL
=============================================================================
