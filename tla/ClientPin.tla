----------------------------- MODULE ClientPin -----------------------------
(***************************************************************************)
(* PIN, pinUvAuthToken and stateful commands of the CTAP layer             *)
(* (core/ctap_pin.c, core/ctap_pin_uv_auth_token.c, core/ctap.c,           *)
(* core/ctap_reset.c, and the parts of core/ctap_credentials.c and         *)
(* core/ctap_credential_management.c that use the token).                  *)
(*                                                                         *)
(* One thread answers one request at a time, so a request is one step,     *)
(* except for its writes of the PIN state: each is a step of its own, at   *)
(* which the power may be lost (writes holds those still to be done).      *)
(* Requests that end without an effect of their own - refused by a guard   *)
(* that is not met, malformed, or read-only - are the action NoEffect.     *)
(*                                                                         *)
(* Cryptography is perfect.  A shared secret that is out of date shows as  *)
(* a parameter that does not verify or a PIN that is wrong.  A token is    *)
(* known to whoever got it: held says which host knows the current token   *)
(* of which protocol.  The credentials are not modelled: how many of them  *)
(* a request finds is a choice of the environment.                         *)
(*                                                                         *)
(* wrong and audit are history variables: no action depends on them.       *)
(* An operator X_Y is the definition X with the plausible bug Y; nothing   *)
(* uses it.                                                                *)
(***************************************************************************)
EXTENDS Integers, Sequences

CONSTANTS
    Hosts, Protocols,       \* bound: the platforms and the PIN protocols
    Pins, NoPin,            \* bound: the PINs that satisfy the policy; none set
    RpIds, NoRp,            \* bound: the relying parties; none bound to the token
    TotalAttempts,          \* CTAP_PIN_TOTAL_ATTEMPTS (8)
    BootAttempts,           \* CTAP_PIN_PER_BOOT_ATTEMPTS (3)
    MaxUsage,               \* max_usage_time_period (10 minutes)
    InitialUsage,           \* initial_usage_time_limit (30 seconds)
    ResetLimit,             \* ctap_reset: 10 seconds
    StatefulLimit,          \* stateful command state: 30 seconds
    ClockMod,               \* the tick counter wraps (2^32)
    MaxClock,               \* bound: the time after a power up
    MaxWait,                \* bound: the time the user takes for a reset
    StorageFails,           \* TRUE if create_or_update_item may fail
    Uses                    \* bound: the kinds of requests the hosts send

ASSUME AttemptsAssumption ==
    /\ TotalAttempts \in Nat \ {0}
    /\ BootAttempts \in 1..TotalAttempts
    /\ StorageFails \in BOOLEAN

ASSUME ValuesAssumption == NoPin \notin Pins /\ NoRp \notin RpIds

ASSUME TimeAssumption ==
    /\ {MaxUsage, InitialUsage, ResetLimit, StatefulLimit, MaxClock, MaxWait} \subseteq Nat
    /\ ClockMod \in Nat \ {0}

VARIABLES
    clock,      \* true time since power up; HAL_GetTick() is clock % ClockMod
    pin,        \* state->pin_state
    boot,       \* state->pin_boot_remaining_attempts
    stored,     \* the PIN state item in the storage
    writes,     \* the PIN states the running request still has to write
    token,      \* state->pin_uv_auth_token_state
    held,       \* who knows the current token of which protocol
    stateful,   \* state->stateful_command_state
    init_time,  \* state->init_time
    wrong,      \* wrong PINs answered since the last right one, without
                \* those that the storage refused to take down
    audit       \* what the current token was used for

ramVars == <<boot, token, held, stateful, init_time>>
vars == <<clock, pin, boot, stored, writes, token, held, stateful, init_time, wrong, audit>>

Permissions == {"mc", "ga", "cm"}

PinState == [pin : Pins \cup {NoPin}, total : 0..TotalAttempts]
DefaultPinState == [pin |-> NoPin, total |-> TotalAttempts]

\* The item before it is first written and after a reset.
NoItem == [pin |-> NoPin, total |-> 0]

\* ctap_init_pin_persistent_state
Load(item) == IF item = NoItem THEN DefaultPinState ELSE item

Now == clock % ClockMod
Since(time) == (Now - time) % ClockMod

Times == 0..(ClockMod - 1)
Token == [in_use : BOOLEAN, verified : BOOLEAN, permissions : SUBSET Permissions,
          rp : RpIds \cup {NoRp}, start : Times, last_use : Times]
UnusedToken == [in_use |-> FALSE, verified |-> FALSE, permissions |-> {},
                rp |-> NoRp, start |-> 0, last_use |-> 0]

Stateful == [cmd : {"none", "assertion", "rps", "credentials"}, last_cmd_time : Times]
NoStateful == [cmd |-> "none", last_cmd_time |-> 0]

\* issued: true time; lastAge: age at the last use that was granted; rps, ups: relying
\* parties served with the user verified, and how often with the user present;
\* enumerations: whether it authorised one; pin: the PIN at the time of issue.
NewAudit(p) == [issued |-> clock, lastAge |-> 0, rps |-> {}, ups |-> 0,
                enumerations |-> FALSE, pin |-> p]

Init ==
    /\ clock = 0
    /\ pin = DefaultPinState
    /\ boot = BootAttempts
    /\ stored = NoItem
    /\ writes = <<>>
    /\ token = UnusedToken
    /\ held = {}
    /\ stateful = NoStateful
    /\ init_time = 0
    /\ wrong = 0
    /\ audit = NewAudit(NoPin)

-----------------------------------------------------------------------------
(* What every request starts with (ctap_request): an expired token is no   *)
(* longer used, with it goes the state of a stateful command, and that     *)
(* state has a timer of its own.                                           *)

UsedAtLeastOnce == token.last_use > token.start

Expired_NoMaximum ==
    token.in_use /\ ~UsedAtLeastOnce /\ Since(token.start) > InitialUsage

Expired ==
    /\ token.in_use
    /\ \/ Since(token.start) > MaxUsage
       \/ ~UsedAtLeastOnce /\ Since(token.start) > InitialUsage

TokenNow == IF Expired THEN UnusedToken ELSE token

StatefulNow_OutlivesToken ==
    IF Since(stateful.last_cmd_time) > StatefulLimit THEN NoStateful ELSE stateful

StatefulNow ==
    IF Expired \/ Since(stateful.last_cmd_time) > StatefulLimit THEN NoStateful ELSE stateful

StatefulAfterStop_Kept == StatefulNow

\* ctap_pin_uv_auth_token_stop_using: nothing happens unless a token is in use.
StatefulAfterStop == IF TokenNow.in_use THEN NoStateful ELSE StatefulNow

Idle == writes = <<>>
Sent(use) == Idle /\ use \in Uses

KeepPin == UNCHANGED <<pin, boot, stored, writes, wrong>>
KeepRest == UNCHANGED <<clock, init_time>>

NoEffect ==
    /\ Idle
    /\ token' = TokenNow
    /\ stateful' = StatefulNow
    /\ KeepPin /\ KeepRest
    /\ UNCHANGED <<held, audit>>

-----------------------------------------------------------------------------
(* authenticatorClientPIN.                                                 *)

MayTry_NoTotal == boot > 0 /\ pin.pin # NoPin
MayTry_NoBoot == pin.total > 0 /\ pin.pin # NoPin

\* check_pin_remaining_attempts, and check_pin_hash without a PIN.
MayTry == pin.total > 0 /\ boot > 0 /\ pin.pin # NoPin

\* reset_pin_remaining_attempts(state, true)
FullAttempts == [pin EXCEPT !.total = TotalAttempts]
AttemptsWrite == IF pin.total < TotalAttempts THEN <<FullAttempts>> ELSE <<>>

\* The history counts no further than one above what there should ever be.
Counted == IF wrong <= TotalAttempts THEN wrong + 1 ELSE wrong

InvalidPin_NotPersistent ==
    /\ boot' = boot - 1
    /\ pin' = [pin EXCEPT !.total = @ - 1]
    /\ wrong' = Counted
    /\ token' = TokenNow
    /\ stateful' = StatefulNow
    /\ KeepRest
    /\ UNCHANGED <<stored, writes, held, audit>>

\* handle_invalid_pin; the key agreement key of the protocol changes as well.
InvalidPin ==
    /\ boot' = boot - 1
    /\ pin' = [pin EXCEPT !.total = @ - 1]
    /\ writes' = <<pin'>>
    /\ wrong' = Counted
    /\ token' = TokenNow
    /\ stateful' = StatefulNow
    /\ KeepRest
    /\ UNCHANGED <<stored, held, audit>>

WrongPin(guess) == Sent("pin") /\ MayTry /\ guess # pin.pin /\ InvalidPin

\* setPIN: only while none is set.
SetPin(newPin) ==
    /\ Sent("pin") /\ pin.pin = NoPin
    /\ pin' = [pin |-> newPin, total |-> TotalAttempts]
    /\ boot' = BootAttempts
    /\ writes' = <<pin'>>
    /\ wrong' = 0
    /\ token' = TokenNow
    /\ stateful' = StatefulNow
    /\ KeepRest
    /\ UNCHANGED <<stored, held, audit>>

\* changePIN with the right PIN and a new one that the policy refuses: the
\* attempts are full again, the PIN and the token stay.
ChangePinRefused(guess) ==
    /\ Sent("pin") /\ MayTry /\ guess = pin.pin
    /\ pin' = FullAttempts
    /\ boot' = BootAttempts
    /\ writes' = AttemptsWrite
    /\ wrong' = 0
    /\ token' = TokenNow
    /\ stateful' = StatefulNow
    /\ KeepRest
    /\ UNCHANGED <<stored, held, audit>>

ChangePin_KeepsTokens(guess, newPin) ==
    /\ Sent("pin") /\ MayTry /\ guess = pin.pin
    /\ pin' = [pin |-> newPin, total |-> TotalAttempts]
    /\ boot' = BootAttempts
    /\ writes' = Append(AttemptsWrite, pin')
    /\ wrong' = 0
    /\ token' = TokenNow
    /\ stateful' = StatefulNow
    /\ KeepRest
    /\ UNCHANGED <<stored, held, audit>>

ChangePin(guess, newPin) ==
    /\ Sent("pin") /\ MayTry /\ guess = pin.pin
    /\ pin' = [pin |-> newPin, total |-> TotalAttempts]
    /\ boot' = BootAttempts
    /\ writes' = Append(AttemptsWrite, pin')
    /\ wrong' = 0
    /\ held' = {}
    /\ token' = UnusedToken
    /\ stateful' = StatefulAfterStop
    /\ KeepRest
    /\ UNCHANGED <<stored, audit>>

\* getPinToken gives mc and ga and binds no relying party; the command with
\* permissions needs one for mc and ga.
TokenRequests ==
    {[permissions |-> {"mc", "ga"}, rp |-> NoRp]} \cup
    {r \in [permissions : SUBSET Permissions \ {{}}, rp : RpIds \cup {NoRp}] :
        r.permissions \cap {"mc", "ga"} # {} => r.rp # NoRp}

KnownAfterIssue_OneProtocol(h, p) == {k \in held : k[2] # p} \cup {<<h, p>>}

\* The tokens of all protocols are replaced before the new one is handed out.
KnownAfterIssue(h, p) == {<<h, p>>}

GetPinToken(h, p, guess, r) ==
    /\ Sent("token") /\ MayTry /\ guess = pin.pin
    /\ pin' = FullAttempts
    /\ boot' = BootAttempts
    /\ writes' = AttemptsWrite
    /\ wrong' = 0
    /\ held' = KnownAfterIssue(h, p)
    /\ token' = [in_use |-> TRUE, verified |-> TRUE, permissions |-> r.permissions,
                 rp |-> r.rp, start |-> Now, last_use |-> 0]
    /\ stateful' = StatefulAfterStop
    /\ audit' = NewAudit(pin.pin)
    /\ KeepRest
    /\ UNCHANGED stored

-----------------------------------------------------------------------------
(* Requests authorised by the token: a signature is a pair of held, or     *)
(* anything else.                                                          *)

Signatures == Hosts \X Protocols
NoSignature == <<>>

Verifies(sig) == TokenNow.in_use /\ sig \in held

\* verify_init_with_pin_uv_auth_token: before the signature is looked at.
Touched == IF TokenNow.in_use THEN [TokenNow EXCEPT !.last_use = Now] ELSE TokenNow

Authorized_AnyPermission(sig, permission, rp) ==
    /\ Verifies(sig)
    /\ TokenNow.rp \in {NoRp, rp}
    /\ TokenNow.verified

\* ensure_valid_pin_uv_auth_param
Authorized(sig, permission, rp) ==
    /\ Verifies(sig)
    /\ permission \in TokenNow.permissions
    /\ TokenNow.rp \in {NoRp, rp}
    /\ TokenNow.verified

Bound(rp) == [Touched EXCEPT !.rp = rp]

Consumed_Kept(t) == t

\* clearUserVerifiedFlag and clearPinUvAuthTokenPermissionsExceptLbw
Consumed(t) == IF t.in_use THEN [t EXCEPT !.verified = FALSE, !.permissions = {}] ELSE t

Age == clock - audit.issued
Granted == [audit EXCEPT !.lastAge = Age]
Enumerated == [Granted EXCEPT !.enumerations = TRUE]
Served(rp, up) == [Granted EXCEPT !.rps = @ \cup {rp}, !.ups = IF up THEN @ + 1 ELSE @]

KeepKnown == KeepPin /\ KeepRest /\ UNCHANGED held

\* A signature that is wrong, or of a request that is refused after it.
VerificationFails ==
    /\ \/ Sent("credential") /\ pin.pin # NoPin
       \/ Sent("management")
    /\ token' = Touched
    /\ stateful' = StatefulNow
    /\ KeepKnown
    /\ UNCHANGED audit

\* authenticatorMakeCredential.  Without a signature, or while no PIN is set,
\* nothing is verified.  It ends before or after the user was asked (excluded
\* credential, no consent); only a given consent consumes the token.
MakeCredential(sig, rp) ==
    /\ Sent("credential")
    /\ \/ /\ pin.pin # NoPin /\ Authorized(sig, "mc", rp)
          /\ \/ token' = Bound(rp) /\ UNCHANGED audit
             \/ token' = Consumed(Bound(rp)) /\ audit' = Served(rp, TRUE)
       \/ /\ pin.pin = NoPin \/ sig = NoSignature
          /\ token' = Consumed(TokenNow)
          /\ UNCHANGED audit
    /\ stateful' = StatefulNow
    /\ KeepKnown

\* What getAssertion leaves when it gave out the first of the credentials; a
\* list of allowed credentials leaves nothing to come back for.
AssertionsLeft == {NoStateful, [cmd |-> "assertion", last_cmd_time |-> Now]}

\* authenticatorGetAssertion: a new one ends the previous command's state as
\* soon as it is authorised.  No credential or no consent: nothing is consumed.
GetAssertion(sig, rp, up) ==
    /\ Sent("credential")
    /\ LET verified == pin.pin # NoPin /\ Authorized(sig, "ga", rp)
           t == IF verified THEN Bound(rp) ELSE TokenNow
       IN  /\ verified \/ pin.pin = NoPin \/ sig = NoSignature
           /\ \/ token' = t /\ stateful' = NoStateful /\ UNCHANGED audit
              \/ /\ token' = IF up THEN Consumed(t) ELSE t
                 /\ stateful' \in AssertionsLeft
                 /\ audit' = IF verified THEN Served(rp, up) ELSE audit
    /\ KeepKnown

\* The next item, or the last one, of what a stateful command enumerates;
\* none of them verifies a token.
Continue(cmd) ==
    /\ Sent("next")
    /\ StatefulNow.cmd = cmd
    /\ stateful' \in {NoStateful, [StatefulNow EXCEPT !.last_cmd_time = Now]}
    /\ token' = TokenNow
    /\ KeepKnown
    /\ UNCHANGED audit

GetNextAssertion == Continue("assertion")
EnumerateRpsGetNextRp == Continue("rps")
EnumerateCredentialsGetNextCredential == Continue("credentials")

\* authenticatorCredentialManagement needs the permission alone: consuming a
\* token's user verification without its permissions does not concern it.
ManagementAllowed(sig) == Verifies(sig) /\ "cm" \in TokenNow.permissions

Manage(sig) ==
    /\ Sent("management") /\ ManagementAllowed(sig)
    /\ token' = Touched
    /\ KeepKnown

GetCredsMetadata(sig) ==
    /\ Manage(sig) /\ TokenNow.rp = NoRp
    /\ stateful' = StatefulNow
    /\ audit' = Granted

EnumerateRpsBegin(sig) ==
    /\ Manage(sig) /\ TokenNow.rp = NoRp
    /\ stateful' \in {NoStateful, [cmd |-> "rps", last_cmd_time |-> Now]}
    /\ audit' = Enumerated

EnumerateCredentialsBegin(sig, rp) ==
    /\ Manage(sig) /\ TokenNow.rp \in {NoRp, rp}
    /\ stateful' \in {NoStateful, [cmd |-> "credentials", last_cmd_time |-> Now]}
    /\ audit' = Enumerated

\* deleteCredential and updateUserInformation discard the state first and may
\* fail afterwards.
DeleteOrUpdateCredential(sig) ==
    /\ Manage(sig)
    /\ stateful' = NoStateful
    /\ audit' = Granted

-----------------------------------------------------------------------------
(* authenticatorReset, the storage and the power.                          *)

ResetAllowed == Since(init_time) <= ResetLimit

\* The time limit is checked before the user is asked, ctap_init runs after.
\* ctap_init makes new tokens but leaves the token state and the state of a
\* stateful command as they are.
Reset(wait) ==
    /\ Sent("reset") /\ ResetAllowed
    /\ clock + wait <= MaxClock
    /\ clock' = clock + wait
    /\ init_time' = clock' % ClockMod
    /\ pin' = DefaultPinState
    /\ boot' = BootAttempts
    /\ stored' = NoItem
    /\ held' = {}
    /\ token' = TokenNow
    /\ stateful' = StatefulNow
    /\ wrong' = 0
    /\ UNCHANGED <<writes, audit>>

WriteDone ==
    /\ writes # <<>>
    /\ stored' = Head(writes)
    /\ writes' = Tail(writes)
    /\ UNCHANGED <<clock, pin, ramVars, wrong, audit>>

\* A wrong PIN whose write is still to be done, or was not done, is not paid for.
Unpaid == IF wrong > 0 THEN wrong - 1 ELSE 0

\* update_persistent_pin_state does not pass the error on.
WriteFails ==
    /\ StorageFails /\ writes # <<>>
    /\ writes' = Tail(writes)
    /\ wrong' = Unpaid
    /\ UNCHANGED <<clock, pin, ramVars, stored, audit>>

\* Power lost and back: app_init, ctap_init.
PowerCycle ==
    /\ clock' = 0
    /\ pin' = Load(stored)
    /\ boot' = BootAttempts
    /\ writes' = <<>>
    /\ token' = UnusedToken
    /\ held' = {}
    /\ stateful' = NoStateful
    /\ init_time' = 0
    /\ wrong' = IF Idle THEN wrong ELSE Unpaid
    /\ audit' = [issued |-> 0, lastAge |-> 0, rps |-> {}, ups |-> 0,
                  enumerations |-> FALSE, pin |-> NoPin]
    /\ UNCHANGED stored

Tick ==
    /\ Idle /\ clock < MaxClock
    /\ clock' = clock + 1
    /\ UNCHANGED <<pin, writes, ramVars, stored, wrong, audit>>

ClientPinNext ==
    \/ \E guess \in Pins \cup {NoPin} : WrongPin(guess)
    \/ \E newPin \in Pins : SetPin(newPin)
    \/ \E guess \in Pins : ChangePinRefused(guess)
    \/ \E guess, newPin \in Pins : ChangePin(guess, newPin)
    \/ \E h \in Hosts, p \in Protocols, guess \in Pins, r \in TokenRequests :
          GetPinToken(h, p, guess, r)

CredentialsNext ==
    \/ VerificationFails
    \/ \E sig \in Signatures \cup {NoSignature}, rp \in RpIds : MakeCredential(sig, rp)
    \/ \E sig \in Signatures \cup {NoSignature}, rp \in RpIds, up \in BOOLEAN :
          GetAssertion(sig, rp, up)
    \/ GetNextAssertion

ManagementNext ==
    \/ \E sig \in Signatures :
          \/ GetCredsMetadata(sig)
          \/ EnumerateRpsBegin(sig)
          \/ \E rp \in RpIds : EnumerateCredentialsBegin(sig, rp)
          \/ DeleteOrUpdateCredential(sig)
    \/ EnumerateRpsGetNextRp
    \/ EnumerateCredentialsGetNextCredential

Next ==
    \/ NoEffect
    \/ ClientPinNext
    \/ CredentialsNext
    \/ ManagementNext
    \/ \E wait \in 0..MaxWait : Reset(wait)
    \/ WriteDone
    \/ WriteFails
    \/ PowerCycle
    \/ Tick

Spec == Init /\ [][Next]_vars

-----------------------------------------------------------------------------
(* Properties. *)

TypeOK ==
    /\ clock \in 0..MaxClock
    /\ pin \in PinState
    /\ boot \in 0..BootAttempts
    /\ stored \in PinState
    /\ writes \in Seq(PinState) /\ Len(writes) <= 2
    /\ token \in Token
    /\ held \subseteq Signatures
    /\ stateful \in Stateful
    /\ init_time \in Times
    /\ wrong \in 0..(TotalAttempts + 1)
    /\ audit \in [issued : Nat, lastAge : Nat, rps : SUBSET RpIds, ups : Nat,
                  enumerations : BOOLEAN, pin : Pins \cup {NoPin}]

\* Every wrong PIN that got an answer has been paid for with an attempt in the
\* storage, which no power cycle gives back, wherever the power is lost
\* (handle_invalid_pin, ctap_init_pin_persistent_state); what the storage
\* refused to take down does not count.
GuessesPaid == Idle => wrong <= TotalAttempts - Load(stored).total

\* A PIN blocked for good is unblocked by authenticatorReset alone: no right
\* PIN, new PIN or power cycle helps (check_pin_remaining_attempts).
BlockedUntilReset ==
    [][Load(stored).total = 0 /\ stored' # stored => stored' = NoItem]_vars

\* When the attempts of this boot are used up no PIN is tried any more, right or
\* wrong, until a reset erases it or a power cycle reads it from the storage.
BlockedUntilPowerCycle ==
    [][boot = 0 /\ Idle =>
        \/ pin' = pin /\ boot' = 0
        \/ stored' = NoItem
        \/ clock' = 0 /\ pin' = Load(stored)]_vars

\* Two platforms never know usable tokens at the same time, although each
\* protocol has a token of its own and all share one token state.
OneHolder == \A k, l \in held : k = l

\* A token dies with the PIN it was issued under (changePIN, setPIN after reset).
TokenOfCurrentPin == held # {} => audit.pin = pin.pin

\* One PIN entry verifies the user towards one relying party and for at most
\* one operation with user presence (ensure_valid_pin_uv_auth_param and the
\* consumption of the token in steps 14.4 and 9.4).
OneOperationPerPin ==
    /\ \A r, s \in audit.rps : r = s
    /\ audit.ups <= 1

\* No use of a token is granted later than the maximum usage time after its
\* issue (ctap_pin_uv_auth_token_check_usage_timer).
TokenAgeLimited == audit.lastAge <= MaxUsage

\* An enumeration, whose next commands verify no token, ends with the very token that
\* authorised it, whether that expires, is replaced by another one or loses its PIN
\* (ctap_pin_uv_auth_token.c:150-154).  A reset is what the code forgets: ctap_init
\* replaces the token and keeps the state of the enumeration.
Enumerating == stateful.cmd \in {"rps", "credentials"}
OfThisToken == token.in_use /\ audit.enumerations /\ held # {}

EnumerationEndsUnlessReset ==
    [][Enumerating' /\ ~OfThisToken' =>
        \/ Enumerating /\ ~OfThisToken
        \/ \E wait \in 0..MaxWait : Reset(wait)]_vars

\* Who can use the token, for what, and what it has been used for.
GrantOf(k) ==
    [holder |-> k, permissions |-> token.permissions, rp |-> token.rp, age |-> Age,
     last |-> audit.lastAge, served |-> audit.rps, operations |-> audit.ups]

Grants == {GrantOf(k) : k \in IF token.in_use THEN held ELSE {}}

Grant == INSTANCE Authorization
         WITH Holders <- Signatures, MaxAge <- MaxUsage, grants <- Grants, pin <- pin.pin

\* The token values, the shared token state and its timers implement what the user who
\* enters the PIN is promised; every request that is authorised acts on the one grant there
\* is, with a permission it has.
AuthorizationSpec == Grant!Spec

-----------------------------------------------------------------------------
(* The inductive invariant of the proofs. *)

\* Without a PIN nothing has been tried.
FreshWithoutPin == pin.pin = NoPin => boot = BootAttempts /\ pin.total = TotalAttempts

StoredShape == stored.pin = NoPin => stored = NoItem

\* What is still to be written ends with the PIN state of the RAM; only a
\* changePIN has something to write before that.
WritesShape ==
    \/ Idle
    \/ writes = <<pin>> /\ pin.pin # NoPin
    \/ /\ \E p \in Pins : writes = <<[pin |-> p, total |-> TotalAttempts], pin>>
       /\ pin.pin # NoPin /\ pin.total = TotalAttempts /\ wrong = 0

Paid ==
    /\ wrong <= TotalAttempts - pin.total
    /\ Idle => wrong <= TotalAttempts - Load(stored).total
    /\ ~Idle /\ wrong > 0 => writes = <<pin>> /\ wrong - 1 <= TotalAttempts - Load(stored).total

Blocked == Load(stored).total = 0 => Idle /\ pin.total = 0 /\ pin.pin # NoPin

PinInv == FreshWithoutPin /\ StoredShape /\ WritesShape /\ Paid /\ Blocked

HolderShape == OneHolder /\ (held # {} => audit.pin = pin.pin /\ pin.pin # NoPin)

\* A token that served a relying party is bound to it until its permissions are gone.
ServiceShape ==
    /\ audit.issued <= clock
    /\ OneOperationPerPin
    /\ audit.ups > 0 => token.permissions = {}
    /\ audit.rps \subseteq {token.rp} \/ token.permissions = {}

\* A running enumeration was authorised by the token that the token state is about, also
\* when a reset has given that token a value nobody knows.
EnumerationShape == Enumerating => token.in_use /\ audit.enumerations

BaseInv == TypeOK /\ PinInv /\ HolderShape /\ ServiceShape
IInv == BaseInv /\ EnumerationShape
=============================================================================
