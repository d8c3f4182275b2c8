-------------------------- MODULE ClientPinProofs --------------------------
(***************************************************************************)
(* Theorems about ClientPin, for every number of attempts, hosts,          *)
(* protocols, PINs and relying parties, and for a storage that may fail.   *)
(*                                                                         *)
(* BaseInv is inductive.  Its parts are preserved separately: the types,   *)
(* the PIN state and its writes (PinInv), who holds the token              *)
(* (HolderShape), what it was used for (ServiceShape).  IInv adds which    *)
(* token a running enumeration is about (EnumerationShape).                *)
(***************************************************************************)
EXTENDS ClientPin, SequenceTheorems, TLAPS

\* How many attempts there are.
LEMMA AttemptsType ==
    /\ TotalAttempts \in Nat /\ TotalAttempts > 0
    /\ BootAttempts \in Nat /\ BootAttempts > 0
  BY AttemptsAssumption

\* The state of a device without a PIN, loaded or stored, is well typed.
LEMMA DefaultType == DefaultPinState \in PinState /\ NoItem \in PinState
  BY AttemptsType DEF DefaultPinState, NoItem, PinState

\* Loading an item gives a PIN state again.
LEMMA LoadType ==
    ASSUME NEW item \in PinState
    PROVE  Load(item) \in PinState
  BY DefaultType DEF Load

\* An item that holds a PIN is loaded as it is.
LEMMA LoadOfPin ==
    ASSUME NEW item \in PinState, item.pin # NoPin
    PROVE  Load(item) = item
  BY DEF Load, NoItem

\* A tick value is a natural number below the width of the counter.
LEMMA NowType ==
    ASSUME NEW time \in Nat
    PROVE  time % ClockMod \in Times
  BY TimeAssumption DEF Times

-----------------------------------------------------------------------------
(* Types. *)

\* Dropping an expired token keeps its type (ctap_request).
LEMMA TokenNowType ==
    ASSUME TypeOK
    PROVE  TokenNow \in Token /\ (TokenNow = token \/ TokenNow = UnusedToken)
<1>1. UnusedToken \in Token
  BY TimeAssumption DEF UnusedToken, Token, Times
<1>. QED  BY <1>1 DEF TokenNow, TypeOK

\* So does dropping or continuing a stateful command.
LEMMA StatefulNowType ==
    ASSUME TypeOK
    PROVE  StatefulNow \in Stateful /\ NoStateful \in Stateful
<1>1. NoStateful \in Stateful
  BY TimeAssumption DEF NoStateful, Stateful, Times
<1>. QED  BY <1>1 DEF StatefulNow, TypeOK

\* What verifying and using a token leaves is a token state.
LEMMA UsedTokenType ==
    ASSUME TypeOK
    PROVE  /\ Touched \in Token
           /\ \A rp \in RpIds : Bound(rp) \in Token
           /\ \A t \in Token : Consumed(t) \in Token
<1>1. Now \in Times
  BY NowType DEF TypeOK, Now
<1>2. Touched \in Token
  BY <1>1, TokenNowType DEF Touched, Token
<1>3. \A rp \in RpIds : Bound(rp) \in Token
  BY <1>2 DEF Bound, Token
<1>4. \A t \in Token : Consumed(t) \in Token
  BY DEF Consumed, Token
<1>. QED  BY <1>2, <1>3, <1>4

Audit == [issued : Nat, lastAge : Nat,
          rps : SUBSET RpIds, ups : Nat, enumerations : BOOLEAN, pin : Pins \cup {NoPin}]

\* Recording a use of the token keeps the history's type.
LEMMA AuditTypes ==
    ASSUME TypeOK, audit.issued <= clock
    PROVE  /\ Granted \in Audit /\ Enumerated \in Audit
           /\ \A rp \in RpIds, up \in BOOLEAN : Served(rp, up) \in Audit
           /\ \A p \in Pins \cup {NoPin} : NewAudit(p) \in Audit
<1>1. audit \in Audit /\ clock \in Nat
  BY DEF TypeOK, Audit
<1>2. Age \in Nat
  BY <1>1 DEF Age, Audit
<1>3. Granted \in Audit /\ Enumerated \in Audit
  BY <1>1, <1>2 DEF Granted, Enumerated, Audit
<1>4. ASSUME NEW rp \in RpIds, NEW up \in BOOLEAN
      PROVE  Served(rp, up) \in Audit
  <2>1. PICK g \in Audit : g = Granted
    BY <1>3
  <2>2. g.rps \cup {rp} \in SUBSET RpIds /\ (IF up THEN g.ups + 1 ELSE g.ups) \in Nat
    BY DEF Audit
  <2>. QED  BY <2>1, <2>2 DEF Served, Audit
<1>5. ASSUME NEW p \in Pins \cup {NoPin}
      PROVE  NewAudit(p) \in Audit
  BY <1>1 DEF NewAudit, Audit
<1>. QED  BY <1>3, <1>4, <1>5

-----------------------------------------------------------------------------
(* What the token was used for. *)

\* What ServiceShape says of a token state t.
Serves(t) ==
    /\ audit.ups > 0 => t.permissions = {}
    /\ audit.rps \subseteq {t.rp} \/ t.permissions = {}

\* What the token served stays within what it is bound to, however it is used or dropped.
LEMMA ServesLeft ==
    ASSUME BaseInv
    PROVE  /\ Serves(TokenNow) /\ Serves(Touched)
           /\ \A t \in Token : Serves(t) => Serves(Consumed(t))
<1>1. Serves(token) /\ Serves(UnusedToken)
  BY DEF BaseInv, ServiceShape, Serves, UnusedToken
<1>2. Serves(TokenNow)
  BY <1>1 DEF TokenNow
<1>3. Serves(Touched)
  <2>1. TokenNow \in Token
    BY TokenNowType DEF BaseInv
  <2>2. Touched.permissions = TokenNow.permissions /\ Touched.rp = TokenNow.rp
    BY <2>1 DEF Touched, Token
  <2>. QED  BY <1>2, <2>2 DEF Serves
<1>4. ASSUME NEW t \in Token, Serves(t)
      PROVE  Serves(Consumed(t))
  BY <1>4 DEF Serves, Consumed, Token
<1>. QED  BY <1>2, <1>3, <1>4

\* A token that is accepted for a relying party has served no other one, and
\* no operation with user presence.
LEMMA AuthorizedFresh ==
    ASSUME BaseInv, NEW sig, NEW permission, NEW rp \in RpIds, Authorized(sig, permission, rp)
    PROVE  audit.ups = 0 /\ audit.rps \subseteq {rp}
<1>1. TokenNow.permissions # {} /\ TokenNow.rp \in {NoRp, rp}
  BY DEF Authorized
<1>2. Serves(TokenNow)
  BY ServesLeft
<1>3. audit.ups \in Nat /\ audit.rps \subseteq RpIds
  BY DEF BaseInv, TypeOK
<1>. QED  BY <1>1, <1>2, <1>3, ValuesAssumption DEF Serves

\* Steps that change nothing of the PIN, the power and who knows the token.
LEMMA KeepKnownBaseInv ==
    ASSUME BaseInv, KeepKnown,
           token' \in Token, stateful' \in Stateful, audit' \in Audit,
           audit'.pin = audit.pin, audit'.issued = audit.issued,
           \A r, s \in audit'.rps : r = s,
           audit'.ups <= 1,
           audit'.ups > 0 => token'.permissions = {},
           audit'.rps \subseteq {token'.rp} \/ token'.permissions = {}
    PROVE  BaseInv'
<1>1. TypeOK'
  BY DEF BaseInv, TypeOK, KeepKnown, KeepPin, KeepRest, Audit
<1>2. PinInv'
  BY DEF BaseInv, PinInv, FreshWithoutPin, StoredShape, WritesShape, Paid, Blocked,
         KeepKnown, KeepPin, Idle
<1>3. HolderShape'
  BY DEF BaseInv, HolderShape, OneHolder, KeepKnown, KeepPin
<1>4. ServiceShape'
  BY DEF BaseInv, ServiceShape, OneOperationPerPin, KeepKnown, KeepRest
<1>. QED  BY <1>1, <1>2, <1>3, <1>4 DEF BaseInv

\* The same with an unchanged history.
LEMMA KeepAuditBaseInv ==
    ASSUME BaseInv, KeepKnown, token' \in Token, stateful' \in Stateful,
           audit' = audit, Serves(token')
    PROVE  BaseInv'
<1>1. audit \in Audit
  BY DEF BaseInv, TypeOK, Audit
<1>2. OneOperationPerPin
  BY DEF BaseInv, ServiceShape
<1>3. /\ audit'.ups > 0 => token'.permissions = {}
      /\ audit'.rps \subseteq {token'.rp} \/ token'.permissions = {}
  BY DEF Serves
<1>. QED  BY <1>1, <1>2, <1>3, KeepKnownBaseInv DEF OneOperationPerPin

\* The same with a history that says that the use of the token was granted.
LEMMA GrantedBaseInv ==
    ASSUME BaseInv, KeepKnown, token' \in Token, stateful' \in Stateful,
           audit' \in {Granted, Enumerated}, Serves(token')
    PROVE  BaseInv'
<1>1. Granted \in Audit /\ Enumerated \in Audit
  BY AuditTypes DEF BaseInv, ServiceShape
<1>2. audit \in Audit
  BY DEF BaseInv, TypeOK, Audit
<1>3. /\ audit'.pin = audit.pin /\ audit'.issued = audit.issued
      /\ audit'.rps = audit.rps /\ audit'.ups = audit.ups
  BY <1>1, <1>2 DEF Granted, Enumerated, Audit
<1>4. OneOperationPerPin
  BY DEF BaseInv, ServiceShape
<1>5. /\ audit'.ups > 0 => token'.permissions = {}
      /\ audit'.rps \subseteq {token'.rp} \/ token'.permissions = {}
  BY <1>3 DEF Serves
<1>. QED  BY <1>1, <1>3, <1>4, <1>5, KeepKnownBaseInv DEF OneOperationPerPin

\* The same with a history that says that a relying party was served.
LEMMA ServedBaseInv ==
    ASSUME BaseInv, KeepKnown, NEW rp \in RpIds, NEW up \in BOOLEAN,
           audit.ups = 0, audit.rps \subseteq {rp},
           token' \in Token, stateful' \in Stateful, audit' = Served(rp, up),
           up => token'.permissions = {},
           token'.rp = rp
    PROVE  BaseInv'
<1>1. Served(rp, up) \in Audit
  BY AuditTypes DEF BaseInv, ServiceShape
<1>2. audit \in Audit
  BY DEF BaseInv, TypeOK, Audit
<1>3. PICK g \in Audit : /\ g = Granted
                         /\ g.pin = audit.pin /\ g.issued = audit.issued
                         /\ g.rps = audit.rps /\ g.ups = audit.ups
  <2>1. Granted \in Audit
    BY AuditTypes DEF BaseInv, ServiceShape
  <2>. QED  BY <1>2, <2>1 DEF Granted, Audit
<1>4. /\ audit'.pin = audit.pin /\ audit'.issued = audit.issued
      /\ audit'.rps = {rp}
  BY <1>3 DEF Served, Audit
<1>5. audit'.ups = IF up THEN 1 ELSE 0
  BY <1>3 DEF Served, Audit
<1>. QED  BY <1>1, <1>4, <1>5, KeepKnownBaseInv

\* A signature that does not verify only touches the token.
LEMMA VerificationFailsBaseInv == BaseInv /\ VerificationFails => BaseInv'
<1>. SUFFICES ASSUME BaseInv, VerificationFails
              PROVE  BaseInv'
  OBVIOUS
<1>1. Touched \in Token /\ StatefulNow \in Stateful /\ Serves(Touched)
  BY UsedTokenType, StatefulNowType, ServesLeft DEF BaseInv
<1>. QED  BY <1>1, KeepAuditBaseInv DEF VerificationFails

\* makeCredential, whether it ends before or after the user's consent.
LEMMA MakeCredentialBaseInv ==
    ASSUME BaseInv, NEW sig, NEW rp \in RpIds, MakeCredential(sig, rp)
    PROVE  BaseInv'
<1>1. /\ Touched \in Token /\ Bound(rp) \in Token /\ Consumed(Bound(rp)) \in Token
      /\ TokenNow \in Token /\ Consumed(TokenNow) \in Token
      /\ StatefulNow \in Stateful
  BY UsedTokenType, TokenNowType, StatefulNowType DEF BaseInv
<1>2. KeepKnown /\ stateful' \in Stateful
  BY <1>1 DEF MakeCredential
<1>3. Bound(rp).rp = rp /\ (TokenNow.in_use => Bound(rp).in_use)
  BY <1>1 DEF Bound, Touched, Token
<1>4. CASE Authorized(sig, "mc", rp) /\ token' = Bound(rp) /\ UNCHANGED audit
  <2>1. Serves(Bound(rp))
    BY <1>3, <1>4, AuthorizedFresh DEF Serves
  <2>. QED  BY <1>1, <1>2, <1>4, <2>1, KeepAuditBaseInv
<1>5. CASE Authorized(sig, "mc", rp) /\ token' = Consumed(Bound(rp)) /\ audit' = Served(rp, TRUE)
  <2>1. TokenNow.in_use
    BY <1>5 DEF Authorized, Verifies
  <2>2. token'.permissions = {} /\ token'.rp = rp
    BY <1>1, <1>3, <1>5, <2>1 DEF Consumed, Token
  <2>3. audit.ups = 0 /\ audit.rps \subseteq {rp}
    BY <1>5, AuthorizedFresh
  <2>. QED  BY <1>1, <1>2, <1>5, <2>2, <2>3, ServedBaseInv
<1>6. CASE token' = Consumed(TokenNow) /\ UNCHANGED audit
  <2>1. Serves(Consumed(TokenNow))
    BY <1>1, ServesLeft
  <2>. QED  BY <1>1, <1>2, <1>6, <2>1, KeepAuditBaseInv
<1>. QED  BY <1>4, <1>5, <1>6 DEF MakeCredential

\* getAssertion, with and without user presence.
LEMMA GetAssertionBaseInv ==
    ASSUME BaseInv, NEW sig, NEW rp \in RpIds, NEW up \in BOOLEAN, GetAssertion(sig, rp, up)
    PROVE  BaseInv'
<1> DEFINE verified == pin.pin # NoPin /\ Authorized(sig, "ga", rp)
           t == IF verified THEN Bound(rp) ELSE TokenNow
<1>1. /\ Bound(rp) \in Token /\ TokenNow \in Token /\ Touched \in Token
      /\ \A u \in Token : Consumed(u) \in Token
      /\ NoStateful \in Stateful
  BY UsedTokenType, TokenNowType, StatefulNowType DEF BaseInv
<1>2. AssertionsLeft \subseteq Stateful
  <2>1. Now \in Times
    BY NowType DEF BaseInv, TypeOK, Now
  <2>. QED  BY <1>1, <2>1 DEF AssertionsLeft, Stateful
<1>3. KeepKnown /\ stateful' \in Stateful
  BY <1>1, <1>2 DEF GetAssertion
<1>4. Bound(rp).rp = rp /\ (TokenNow.in_use => Bound(rp).in_use)
  BY <1>1 DEF Bound, Touched, Token
<1>5. verified => audit.ups = 0 /\ audit.rps \subseteq {rp} /\ TokenNow.in_use
  BY AuthorizedFresh DEF Authorized, Verifies
<1>6. t \in Token /\ Serves(t)
  <2>1. CASE verified
    BY <1>1, <1>4, <1>5, <2>1 DEF Serves
  <2>2. CASE ~verified
    BY <1>1, <2>2, ServesLeft
  <2>. QED  BY <2>1, <2>2
<1>7. Serves(Consumed(t))
  BY <1>6, ServesLeft
<1>8. CASE UNCHANGED audit /\ token' \in {t, Consumed(t)}
  <2>1. token' \in Token /\ Serves(token')
    BY <1>1, <1>6, <1>7, <1>8
  <2>. QED  BY <1>3, <1>8, <2>1, KeepAuditBaseInv
<1>9. CASE verified /\ audit' = Served(rp, up) /\ token' = (IF up THEN Consumed(t) ELSE t)
  <2>1. t = Bound(rp)
    BY <1>9
  <2>2. token' \in Token
    BY <1>1, <1>6, <1>9
  <2>3. token'.rp = rp /\ (up => token'.permissions = {})
    BY <1>1, <1>4, <1>5, <1>9, <2>1 DEF Consumed, Token
  <2>. QED  BY <1>3, <1>5, <1>9, <2>2, <2>3, ServedBaseInv
<1>. QED  BY <1>8, <1>9 DEF GetAssertion

\* Credential management and the next-item commands.
LEMMA ContinueBaseInv ==
    ASSUME BaseInv, NEW cmd, Continue(cmd)
    PROVE  BaseInv'
<1>1. /\ TokenNow \in Token /\ Serves(TokenNow)
      /\ StatefulNow \in Stateful /\ NoStateful \in Stateful
      /\ Now \in Times
  BY TokenNowType, ServesLeft, StatefulNowType, NowType DEF BaseInv, TypeOK, Now
<1>2. [StatefulNow EXCEPT !.last_cmd_time = Now] \in Stateful
  BY <1>1 DEF Stateful
<1>. QED  BY <1>1, <1>2, KeepAuditBaseInv DEF Continue

\* Credential management: the token is touched, the rest kept.
LEMMA ManageBaseInv ==
    ASSUME BaseInv, NEW sig, Manage(sig), stateful' \in Stateful,
           audit' \in {Granted, Enumerated}
    PROVE  BaseInv'
<1>1. Touched \in Token /\ Serves(Touched)
  BY UsedTokenType, ServesLeft DEF BaseInv
<1>. QED  BY <1>1, GrantedBaseInv DEF Manage

\* All subcommands of credential management.
LEMMA ManagementBaseInv == BaseInv /\ ManagementNext => BaseInv'
<1>. SUFFICES ASSUME BaseInv, ManagementNext
              PROVE  BaseInv'
  OBVIOUS
<1>1. StatefulNow \in Stateful /\ NoStateful \in Stateful /\ Now \in Times
  BY StatefulNowType, NowType DEF BaseInv, TypeOK, Now
<1>2. \A c \in {"rps", "credentials"} : [cmd |-> c, last_cmd_time |-> Now] \in Stateful
  BY <1>1 DEF Stateful
<1>3. ASSUME NEW sig \in Signatures, GetCredsMetadata(sig)
      PROVE  BaseInv'
  BY <1>1, <1>3, ManageBaseInv DEF GetCredsMetadata
<1>4. ASSUME NEW sig \in Signatures, EnumerateRpsBegin(sig)
      PROVE  BaseInv'
  BY <1>1, <1>2, <1>4, ManageBaseInv DEF EnumerateRpsBegin
<1>5. ASSUME NEW sig \in Signatures, NEW rp \in RpIds, EnumerateCredentialsBegin(sig, rp)
      PROVE  BaseInv'
  BY <1>1, <1>2, <1>5, ManageBaseInv DEF EnumerateCredentialsBegin
<1>6. ASSUME NEW sig \in Signatures, DeleteOrUpdateCredential(sig)
      PROVE  BaseInv'
  BY <1>1, <1>6, ManageBaseInv DEF DeleteOrUpdateCredential
<1>. QED  BY <1>3, <1>4, <1>5, <1>6, ContinueBaseInv
          DEF ManagementNext, EnumerateRpsGetNextRp, EnumerateCredentialsGetNextCredential

\* All credential commands.
LEMMA CredentialsBaseInv == BaseInv /\ CredentialsNext => BaseInv'
BY VerificationFailsBaseInv, MakeCredentialBaseInv, GetAssertionBaseInv, ContinueBaseInv
   DEF CredentialsNext, GetNextAssertion

-----------------------------------------------------------------------------
(* The PIN state and its writes.                                           *)

\* What the next-state relation may do with the PIN state keeps its types.
PinTypes ==
    /\ pin \in PinState /\ boot \in 0..BootAttempts /\ stored \in PinState
    /\ writes \in Seq(PinState) /\ Len(writes) <= 2
    /\ wrong \in 0..(TotalAttempts + 1)

\* Requests that change the PIN state and leave the token as it is.
LEMMA PinStepBaseInv ==
    ASSUME BaseInv, PinTypes', PinInv', KeepRest, UNCHANGED <<held, audit>>,
           token' = TokenNow, stateful' = StatefulNow,
           held # {} => pin'.pin = pin.pin
    PROVE  BaseInv'
<1>1. TokenNow \in Token /\ StatefulNow \in Stateful /\ Serves(TokenNow)
  BY TokenNowType, StatefulNowType, ServesLeft DEF BaseInv
<1>2. TypeOK'
  BY <1>1 DEF BaseInv, TypeOK, PinTypes, KeepRest
<1>3. HolderShape'
  BY DEF BaseInv, HolderShape, OneHolder
<1>4. ServiceShape'
  BY <1>1 DEF BaseInv, ServiceShape, OneOperationPerPin, Serves, KeepRest
<1>. QED  BY <1>2, <1>3, <1>4 DEF BaseInv

\* What a full number of attempts is, and the writes that restore it.
LEMMA FullAttemptsFacts ==
    ASSUME TypeOK, pin.pin # NoPin
    PROVE  /\ FullAttempts = [pin |-> pin.pin, total |-> TotalAttempts]
           /\ FullAttempts \in PinState
           /\ AttemptsWrite = <<>> \/ AttemptsWrite = <<FullAttempts>>
           /\ pin.pin \in Pins
<1>1. pin \in PinState
  BY DEF TypeOK
<1>2. pin.total \in 0..TotalAttempts /\ pin.pin \in Pins
  BY <1>1 DEF PinState
<1>3. FullAttempts = [pin |-> pin.pin, total |-> TotalAttempts]
  BY <1>1 DEF FullAttempts, PinState
<1>. QED  BY <1>2, <1>3, AttemptsType DEF AttemptsWrite, PinState

\* The attempts the storage holds for an idle authenticator.
LEMMA LoadBounds ==
    ASSUME TypeOK
    PROVE  Load(stored).total \in 0..TotalAttempts
BY LoadType DEF TypeOK, PinState

\* handle_invalid_pin: the attempt is owed until its write is done.
LEMMA WrongPinBaseInv ==
    ASSUME BaseInv, NEW guess, WrongPin(guess)
    PROVE  BaseInv'
<1>1. /\ Idle /\ pin.total > 0 /\ boot > 0 /\ pin.pin # NoPin
      /\ boot' = boot - 1 /\ pin' = [pin EXCEPT !.total = @ - 1]
      /\ writes' = <<pin'>> /\ wrong' = Counted
      /\ token' = TokenNow /\ stateful' = StatefulNow
      /\ KeepRest /\ UNCHANGED <<stored, held, audit>>
  BY DEF WrongPin, Sent, MayTry, InvalidPin
<1>2. /\ pin \in PinState /\ boot \in 0..BootAttempts /\ stored \in PinState
      /\ wrong \in 0..(TotalAttempts + 1) /\ Load(stored).total \in 0..TotalAttempts
  BY LoadBounds DEF BaseInv, TypeOK
<1>3. pin'.pin = pin.pin /\ pin'.total = pin.total - 1 /\ pin' \in PinState
  BY <1>1, <1>2, AttemptsType DEF PinState
<1>4. wrong <= TotalAttempts - pin.total /\ wrong <= TotalAttempts - Load(stored).total
  BY <1>1 DEF BaseInv, PinInv, Paid
<1>5. wrong' = wrong + 1
  BY <1>1, <1>2, <1>4, AttemptsType DEF Counted, PinState
<1>6. PinTypes'
  BY <1>1, <1>2, <1>3, <1>4, <1>5, AttemptsType DEF PinTypes, PinState
<1>7. PinInv'
  <2>1. FreshWithoutPin' /\ WritesShape'
    BY <1>1, <1>3 DEF FreshWithoutPin, WritesShape
  <2>2. StoredShape'
    BY <1>1 DEF BaseInv, PinInv, StoredShape
  <2>3. Paid'
    BY <1>1, <1>2, <1>3, <1>4, <1>5, AttemptsType DEF Paid, Idle, PinState
  <2>4. Blocked'
    BY <1>1, <1>2, AttemptsType DEF BaseInv, PinInv, Blocked
  <2>. QED  BY <2>1, <2>2, <2>3, <2>4 DEF PinInv
<1>. QED  BY <1>1, <1>3, <1>6, <1>7, PinStepBaseInv

\* setPIN.
LEMMA SetPinBaseInv ==
    ASSUME BaseInv, NEW newPin \in Pins, SetPin(newPin)
    PROVE  BaseInv'
<1>1. /\ Idle /\ pin.pin = NoPin
      /\ pin' = [pin |-> newPin, total |-> TotalAttempts] /\ boot' = BootAttempts
      /\ writes' = <<pin'>> /\ wrong' = 0
      /\ token' = TokenNow /\ stateful' = StatefulNow
      /\ KeepRest /\ UNCHANGED <<stored, held, audit>>
  BY DEF SetPin, Sent
<1>2. stored \in PinState /\ Load(stored).total \in 0..TotalAttempts
  BY LoadBounds DEF BaseInv, TypeOK
<1>3. pin' \in PinState /\ pin'.pin # NoPin /\ pin'.total = TotalAttempts
  BY <1>1, AttemptsType, ValuesAssumption DEF PinState
<1>4. Load(stored).total # 0
  BY <1>1 DEF BaseInv, PinInv, Blocked
<1>5. PinTypes'
  BY <1>1, <1>2, <1>3, AttemptsType DEF PinTypes
<1>6. PinInv'
  <2>1. FreshWithoutPin' /\ WritesShape'
    BY <1>1, <1>3 DEF FreshWithoutPin, WritesShape
  <2>2. StoredShape'
    BY <1>1 DEF BaseInv, PinInv, StoredShape
  <2>3. Paid'
    BY <1>1, <1>2, <1>3, AttemptsType DEF Paid, Idle
  <2>4. Blocked'
    BY <1>1, <1>4 DEF Blocked
  <2>. QED  BY <2>1, <2>2, <2>3, <2>4 DEF PinInv
<1>7. held = {}
  BY <1>1 DEF BaseInv, HolderShape
<1>. QED  BY <1>1, <1>5, <1>6, <1>7, PinStepBaseInv

\* Sequences of no, one and two elements.
LEMMA ShortSequences ==
    ASSUME NEW S, NEW a \in S, NEW b \in S
    PROVE  /\ <<>> \in Seq(S) /\ <<a>> \in Seq(S) /\ <<b, a>> \in Seq(S)
           /\ Len(<<>>) = 0 /\ Len(<<a>>) = 1 /\ Len(<<b, a>>) = 2
           /\ Append(<<>>, a) = <<a>> /\ Append(<<b>>, a) = <<b, a>>
           /\ Head(<<a>>) = a /\ Tail(<<a>>) = <<>>
           /\ Head(<<b, a>>) = b /\ Tail(<<b, a>>) = <<a>>
<1>1. <<>> \in Seq(S) /\ <<a>> \in Seq(S) /\ <<b, a>> \in Seq(S)
  OBVIOUS
<1>2. Len(<<>>) = 0 /\ Len(<<a>>) = 1 /\ Len(<<b, a>>) = 2
  OBVIOUS
<1>3. Append(<<>>, a) = <<a>>
  OBVIOUS
<1>4. Append(<<b>>, a) = <<b, a>>
  <2>1. /\ Append(<<b>>, a) \in Seq(S) /\ Len(Append(<<b>>, a)) = 2
        /\ Append(<<b>>, a)[1] = b /\ Append(<<b>>, a)[2] = a
    BY <1>1, <1>2, AppendProperties
  <2>2. \A i \in 1..2 : Append(<<b>>, a)[i] = <<b, a>>[i]
    BY <2>1
  <2>. QED  BY <1>1, <1>2, <2>1, <2>2, SeqEqual
<1>5. Head(<<a>>) = a /\ Tail(<<a>>) = <<>>
  OBVIOUS
<1>6. Head(<<b, a>>) = b /\ Tail(<<b, a>>) = <<a>>
  OBVIOUS
<1>. QED  BY <1>1, <1>2, <1>3, <1>4, <1>5, <1>6

\* After the right PIN: full attempts, whatever of the writes there are.
LEMMA RightPinInv ==
    ASSUME BaseInv, Idle, MayTry, NEW newPin \in Pins,
           pin' = [pin |-> newPin, total |-> TotalAttempts], boot' = BootAttempts,
           wrong' = 0, UNCHANGED stored,
           writes' = <<>> \/ writes' = <<pin'>> \/ writes' = <<FullAttempts, pin'>>
    PROVE  PinTypes' /\ PinInv'
<1>1. /\ pin' \in PinState /\ pin'.pin # NoPin /\ pin'.total = TotalAttempts
      /\ stored \in PinState /\ Load(stored).total \in 0..TotalAttempts
  BY LoadBounds, AttemptsType, ValuesAssumption DEF BaseInv, TypeOK, PinState
<1>2. /\ FullAttempts \in PinState /\ pin.pin \in Pins
      /\ FullAttempts = [pin |-> pin.pin, total |-> TotalAttempts]
  BY FullAttemptsFacts DEF BaseInv, MayTry
<1>3. pin.total # 0
  BY AttemptsType DEF BaseInv, TypeOK, PinState, MayTry
<1>4. PinTypes'
  <2>1. writes' \in Seq(PinState) /\ Len(writes') <= 2
    <3>1. /\ <<>> \in Seq(PinState) /\ <<pin'>> \in Seq(PinState)
          /\ <<FullAttempts, pin'>> \in Seq(PinState)
          /\ Len(<<>>) = 0 /\ Len(<<pin'>>) = 1 /\ Len(<<FullAttempts, pin'>>) = 2
      BY <1>1, <1>2, ShortSequences
    <3>2. CASE writes' = <<>>
      BY <3>1, <3>2
    <3>3. CASE writes' = <<pin'>>
      BY <3>1, <3>3
    <3>4. CASE writes' = <<FullAttempts, pin'>>
      BY <3>1, <3>4
    <3>. QED  BY <3>2, <3>3, <3>4
  <2>. QED  BY <1>1, <2>1, AttemptsType DEF PinTypes
<1>5. FreshWithoutPin' /\ StoredShape'
  BY <1>1 DEF BaseInv, PinInv, FreshWithoutPin, StoredShape
<1>6. WritesShape'
  BY <1>1, <1>2 DEF WritesShape, Idle
<1>7. Paid'
  BY <1>1, AttemptsType DEF Paid, Idle
<1>8. Blocked'
  BY <1>3 DEF BaseInv, PinInv, Blocked
<1>. QED  BY <1>4, <1>5, <1>6, <1>7, <1>8 DEF PinInv

\* changePIN with the right PIN and a new one the policy refuses.
LEMMA ChangePinRefusedBaseInv ==
    ASSUME BaseInv, NEW guess \in Pins, ChangePinRefused(guess)
    PROVE  BaseInv'
<1>1. /\ Idle /\ MayTry /\ pin.pin # NoPin
      /\ pin' = FullAttempts /\ boot' = BootAttempts /\ wrong' = 0
      /\ writes' = AttemptsWrite
      /\ token' = TokenNow /\ stateful' = StatefulNow
      /\ KeepRest /\ UNCHANGED <<stored, held, audit>>
  BY DEF ChangePinRefused, Sent, MayTry
<1>2. /\ pin' = [pin |-> pin.pin, total |-> TotalAttempts] /\ pin.pin \in Pins
      /\ writes' = <<>> \/ writes' = <<pin'>>
  BY <1>1, FullAttemptsFacts DEF BaseInv
<1>3. PinTypes' /\ PinInv'
  BY <1>1, <1>2, RightPinInv
<1>. QED  BY <1>1, <1>2, <1>3, PinStepBaseInv

\* changePIN: two writes may be outstanding and no token is left.
LEMMA ChangePinBaseInv ==
    ASSUME BaseInv, NEW guess \in Pins, NEW newPin \in Pins, ChangePin(guess, newPin)
    PROVE  BaseInv'
<1>1. /\ Idle /\ MayTry /\ pin.pin # NoPin
      /\ pin' = [pin |-> newPin, total |-> TotalAttempts]
      /\ boot' = BootAttempts /\ wrong' = 0
      /\ writes' = Append(AttemptsWrite, pin')
      /\ held' = {} /\ token' = UnusedToken /\ stateful' = StatefulAfterStop
      /\ KeepRest /\ UNCHANGED <<stored, audit>>
  BY DEF ChangePin, Sent, MayTry
<1>2. AttemptsWrite = <<>> \/ AttemptsWrite = <<FullAttempts>>
  BY <1>1, FullAttemptsFacts DEF BaseInv
<1>3. writes' = <<pin'>> \/ writes' = <<FullAttempts, pin'>>
  <2>1. pin' \in PinState /\ FullAttempts \in PinState
    BY <1>1, FullAttemptsFacts, AttemptsType DEF BaseInv, PinState
  <2>. QED  BY <1>1, <1>2, <2>1, ShortSequences
<1>4. PinTypes' /\ PinInv'
  BY <1>1, <1>3, RightPinInv
<1>5. UnusedToken \in Token /\ StatefulAfterStop \in Stateful
  BY TimeAssumption, StatefulNowType
  DEF BaseInv, UnusedToken, Token, Times, StatefulAfterStop
<1>6. TypeOK'
  BY <1>1, <1>4, <1>5 DEF BaseInv, TypeOK, PinTypes, KeepRest
<1>7. HolderShape'
  BY <1>1 DEF HolderShape, OneHolder
<1>8. ServiceShape'
  BY <1>1 DEF BaseInv, ServiceShape, OneOperationPerPin, KeepRest, UnusedToken
<1>. QED  BY <1>4, <1>6, <1>7, <1>8 DEF BaseInv

\* Both token requests: the new token has one holder and has served nobody.
LEMMA GetPinTokenBaseInv ==
    ASSUME BaseInv, NEW h \in Hosts, NEW p \in Protocols, NEW guess \in Pins,
           NEW r \in TokenRequests, GetPinToken(h, p, guess, r)
    PROVE  BaseInv'
<1>1. /\ Idle /\ MayTry /\ pin.pin # NoPin
      /\ pin' = FullAttempts /\ boot' = BootAttempts /\ wrong' = 0
      /\ writes' = AttemptsWrite
      /\ held' = {<<h, p>>}
      /\ token' = [in_use |-> TRUE, verified |-> TRUE, permissions |-> r.permissions,
                   rp |-> r.rp, start |-> Now, last_use |-> 0]
      /\ stateful' = StatefulAfterStop /\ audit' = NewAudit(pin.pin)
      /\ KeepRest /\ UNCHANGED stored
  BY DEF GetPinToken, Sent, MayTry, KnownAfterIssue
<1>2. /\ pin' = [pin |-> pin.pin, total |-> TotalAttempts] /\ pin.pin \in Pins
      /\ writes' = <<>> \/ writes' = <<pin'>>
  BY <1>1, FullAttemptsFacts DEF BaseInv
<1>3. PinTypes' /\ PinInv'
  BY <1>1, <1>2, RightPinInv
<1>4. r.permissions \in SUBSET Permissions /\ r.rp \in RpIds \cup {NoRp}
  BY DEF TokenRequests, Permissions
<1>5. Now \in Times /\ 0 \in Times
  BY NowType, TimeAssumption DEF BaseInv, TypeOK, Now, Times
<1>6. token' \in Token
  BY <1>1, <1>4, <1>5 DEF Token
<1>7. StatefulAfterStop \in Stateful
  BY StatefulNowType DEF BaseInv, StatefulAfterStop
<1>8. NewAudit(pin.pin) \in Audit
  BY <1>2, AuditTypes DEF BaseInv, ServiceShape
<1>9. held' \subseteq Signatures
  BY <1>1 DEF Signatures
<1>10. TypeOK'
  BY <1>1, <1>3, <1>6, <1>7, <1>8, <1>9 DEF BaseInv, TypeOK, PinTypes, KeepRest, Audit
<1>11. HolderShape'
  BY <1>1, <1>2 DEF HolderShape, OneHolder, NewAudit
<1>12. ServiceShape'
  BY <1>1 DEF BaseInv, TypeOK, ServiceShape, OneOperationPerPin, NewAudit, KeepRest
<1>. QED  BY <1>3, <1>10, <1>11, <1>12 DEF BaseInv

-----------------------------------------------------------------------------
(* Reset, the storage, the power and the clock.                            *)

\* authenticatorReset.
LEMMA ResetBaseInv ==
    ASSUME BaseInv, NEW wait \in 0..MaxWait, Reset(wait)
    PROVE  BaseInv'
<1>1. /\ Idle /\ clock + wait <= MaxClock /\ clock' = clock + wait
      /\ init_time' = clock' % ClockMod
      /\ pin' = DefaultPinState /\ boot' = BootAttempts /\ stored' = NoItem
      /\ held' = {} /\ token' = TokenNow /\ stateful' = StatefulNow /\ wrong' = 0
      /\ UNCHANGED <<writes, audit>>
  BY DEF Reset, Sent
<1>2. clock' \in 0..MaxClock /\ clock <= clock' /\ init_time' \in Times
  BY <1>1, NowType, TimeAssumption DEF BaseInv, TypeOK
<1>3. TokenNow \in Token /\ StatefulNow \in Stateful /\ Serves(TokenNow)
  BY TokenNowType, StatefulNowType, ServesLeft DEF BaseInv
<1>4. /\ pin'.pin = NoPin /\ pin'.total = TotalAttempts
      /\ Load(stored') = pin' /\ pin' \in PinState /\ stored' \in PinState
  BY <1>1, DefaultType DEF Load, DefaultPinState
<1>5. TypeOK'
  BY <1>1, <1>2, <1>3, <1>4, AttemptsType DEF BaseInv, TypeOK
<1>6. PinInv'
  BY <1>1, <1>4, AttemptsType
  DEF PinInv, FreshWithoutPin, StoredShape, WritesShape, Paid, Blocked, Idle
<1>7. HolderShape'
  BY <1>1 DEF HolderShape, OneHolder
<1>8. ServiceShape'
  BY <1>1, <1>2, <1>3 DEF BaseInv, TypeOK, ServiceShape, OneOperationPerPin, Serves
<1>. QED  BY <1>5, <1>6, <1>7, <1>8 DEF BaseInv

\* The first of the writes and the rest.
LEMMA WritesFacts ==
    ASSUME BaseInv, writes # <<>>
    PROVE  /\ pin \in PinState /\ pin.pin # NoPin
           /\ Head(writes) \in PinState /\ Head(writes).pin # NoPin
           /\ \/ Head(writes) = pin /\ Tail(writes) = <<>>
              \/ /\ Head(writes).total = TotalAttempts /\ Tail(writes) = <<pin>>
                 /\ pin.total = TotalAttempts /\ wrong = 0
           /\ Tail(writes) \in Seq(PinState) /\ Len(Tail(writes)) <= 2
<1>1. WritesShape /\ pin \in PinState /\ ~Idle
  BY DEF BaseInv, PinInv, TypeOK, Idle
<1>2. CASE writes = <<pin>> /\ pin.pin # NoPin
  <2>1. /\ Head(<<pin>>) = pin /\ Tail(<<pin>>) = <<>>
        /\ <<>> \in Seq(PinState) /\ Len(<<>>) = 0
    BY <1>1, ShortSequences
  <2>. QED  BY <1>1, <1>2, <2>1
<1>3. ASSUME NEW p \in Pins, writes = <<[pin |-> p, total |-> TotalAttempts], pin>>,
             pin.pin # NoPin, pin.total = TotalAttempts, wrong = 0
      PROVE  /\ Head(writes) \in PinState /\ Head(writes).pin # NoPin
             /\ Head(writes).total = TotalAttempts /\ Tail(writes) = <<pin>>
             /\ Tail(writes) \in Seq(PinState) /\ Len(Tail(writes)) <= 2
  <2>1. [pin |-> p, total |-> TotalAttempts] \in PinState /\ p # NoPin
    BY <1>3, AttemptsType, ValuesAssumption DEF PinState
  <2>2. /\ Head(writes) = [pin |-> p, total |-> TotalAttempts] /\ Tail(writes) = <<pin>>
        /\ <<pin>> \in Seq(PinState) /\ Len(<<pin>>) = 1
    BY <1>1, <1>3, <2>1, ShortSequences
  <2>3. Tail(writes) \in Seq(PinState) /\ Len(Tail(writes)) = 1
    BY <2>2, Zenon
  <2>. QED  BY <1>3, <2>1, <2>2, <2>3
<1>. QED  BY <1>1, <1>2, <1>3 DEF WritesShape

\* Steps of the storage leave all but the item, the writes and the history.
LEMMA StorageStepBaseInv ==
    ASSUME BaseInv, PinTypes', PinInv', UNCHANGED <<clock, pin, ramVars, audit>>
    PROVE  BaseInv'
<1>1. TypeOK'
  BY DEF BaseInv, TypeOK, PinTypes, ramVars
<1>2. HolderShape'
  BY DEF BaseInv, HolderShape, OneHolder, ramVars
<1>3. ServiceShape'
  BY DEF BaseInv, ServiceShape, OneOperationPerPin, ramVars
<1>. QED  BY <1>1, <1>2, <1>3 DEF BaseInv

\* A write of the PIN state reaches the storage: what was owed is paid.
LEMMA WriteDoneBaseInv == BaseInv /\ WriteDone => BaseInv'
<1>. SUFFICES ASSUME BaseInv, WriteDone
              PROVE  BaseInv'
  OBVIOUS
<1>1. /\ writes # <<>> /\ stored' = Head(writes) /\ writes' = Tail(writes)
      /\ UNCHANGED <<clock, pin, ramVars, wrong, audit>>
  BY DEF WriteDone
<1>2. /\ pin \in PinState /\ pin.pin # NoPin
      /\ stored' \in PinState /\ stored'.pin # NoPin
      /\ \/ stored' = pin /\ writes' = <<>>
         \/ /\ stored'.total = TotalAttempts /\ writes' = <<pin>>
            /\ pin.total = TotalAttempts /\ wrong = 0
      /\ writes' \in Seq(PinState) /\ Len(writes') <= 2
  BY <1>1, WritesFacts
<1>3. Load(stored') = stored'
  BY <1>2, LoadOfPin
<1>4. PinTypes'
  BY <1>1, <1>2 DEF BaseInv, TypeOK, PinTypes, ramVars
<1>5. PinInv'
  <2>1. FreshWithoutPin' /\ StoredShape'
    BY <1>1, <1>2 DEF FreshWithoutPin, StoredShape
  <2>2. WritesShape'
    BY <1>1, <1>2 DEF WritesShape, Idle
  <2>3. wrong <= TotalAttempts - pin.total /\ wrong \in Nat
    BY DEF BaseInv, TypeOK, PinInv, Paid
  <2>4. Paid'
    BY <1>1, <1>2, <1>3, <2>3, AttemptsType DEF Paid, Idle, PinState
  <2>5. Blocked'
    BY <1>1, <1>2, <1>3, AttemptsType DEF Blocked, Idle
  <2>. QED  BY <2>1, <2>2, <2>4, <2>5 DEF PinInv
<1>. QED  BY <1>1, <1>4, <1>5, StorageStepBaseInv

\* A wrong PIN whose write is lost counts no more than the storage says.
LEMMA UnpaidBound ==
    ASSUME BaseInv, writes # <<>>
    PROVE  /\ Unpaid \in 0..(TotalAttempts + 1) /\ Unpaid <= wrong
           /\ Unpaid <= TotalAttempts - Load(stored).total
<1>1. wrong \in 0..(TotalAttempts + 1) /\ Load(stored).total \in 0..TotalAttempts
  BY LoadBounds DEF BaseInv, TypeOK
<1>2. wrong > 0 => wrong - 1 <= TotalAttempts - Load(stored).total
  BY DEF BaseInv, PinInv, Paid, Idle
<1>. QED  BY <1>1, <1>2, AttemptsType DEF Unpaid

\* A write of the PIN state is refused by the storage.
LEMMA WriteFailsBaseInv == BaseInv /\ WriteFails => BaseInv'
<1>. SUFFICES ASSUME BaseInv, WriteFails
              PROVE  BaseInv'
  OBVIOUS
<1>1. /\ writes # <<>> /\ writes' = Tail(writes) /\ wrong' = Unpaid
      /\ UNCHANGED <<clock, pin, ramVars, stored, audit>>
  BY DEF WriteFails
<1>2. /\ pin \in PinState /\ pin.pin # NoPin
      /\ \/ writes' = <<>>
         \/ writes' = <<pin>> /\ pin.total = TotalAttempts /\ wrong = 0
      /\ writes' \in Seq(PinState) /\ Len(writes') <= 2
  BY <1>1, WritesFacts
<1>3. /\ Unpaid \in 0..(TotalAttempts + 1) /\ Unpaid <= wrong
      /\ Unpaid <= TotalAttempts - Load(stored).total
      /\ wrong \in Nat /\ wrong <= TotalAttempts - pin.total
  BY <1>1, UnpaidBound DEF BaseInv, TypeOK, PinInv, Paid
<1>4. PinTypes'
  BY <1>1, <1>2, <1>3 DEF BaseInv, TypeOK, PinTypes, ramVars
<1>5. PinInv'
  <2>1. FreshWithoutPin' /\ StoredShape'
    BY <1>1, <1>2 DEF BaseInv, PinInv, FreshWithoutPin, StoredShape
  <2>2. WritesShape'
    BY <1>1, <1>2 DEF WritesShape, Idle
  <2>3. writes' # <<>> => wrong' = 0
    BY <1>1, <1>2 DEF Unpaid
  <2>4. Paid'
    <3>1. wrong' <= TotalAttempts - pin'.total
      BY <1>1, <1>2, <1>3, AttemptsType DEF PinState
    <3>2. (Idle => wrong <= TotalAttempts - Load(stored).total)'
      BY <1>1, <1>3
    <3>3. (~Idle /\ wrong > 0
             => writes = <<pin>> /\ wrong - 1 <= TotalAttempts - Load(stored).total)'
      BY <2>3 DEF Idle
    <3>. QED  BY <3>1, <3>2, <3>3 DEF Paid
  <2>5. Blocked'
    BY <1>1 DEF BaseInv, PinInv, Blocked, Idle
  <2>. QED  BY <2>1, <2>2, <2>4, <2>5 DEF PinInv
<1>. QED  BY <1>1, <1>4, <1>5, StorageStepBaseInv

\* The power is lost, even with writes outstanding, and comes back.
LEMMA PowerCycleBaseInv == BaseInv /\ PowerCycle => BaseInv'
<1>. SUFFICES ASSUME BaseInv, PowerCycle
              PROVE  BaseInv'
  OBVIOUS
<1>1. /\ clock' = 0 /\ pin' = Load(stored) /\ boot' = BootAttempts /\ writes' = <<>>
      /\ token' = UnusedToken /\ held' = {} /\ stateful' = NoStateful /\ init_time' = 0
      /\ wrong' = (IF Idle THEN wrong ELSE Unpaid)
      /\ audit' = [issued |-> 0, lastAge |-> 0, rps |-> {}, ups |-> 0,
                   enumerations |-> FALSE, pin |-> NoPin]
      /\ UNCHANGED stored
  BY DEF PowerCycle
<1>2. /\ stored \in PinState /\ Load(stored) \in PinState
      /\ Load(stored).total \in 0..TotalAttempts
  BY LoadType, LoadBounds DEF BaseInv, TypeOK
<1>3. wrong' \in 0..(TotalAttempts + 1) /\ wrong' <= TotalAttempts - Load(stored).total
  <2>1. CASE Idle
    BY <1>1, <2>1 DEF BaseInv, TypeOK, PinInv, Paid
  <2>2. CASE ~Idle
    BY <1>1, <2>2, UnpaidBound DEF Idle
  <2>. QED  BY <2>1, <2>2
<1>4. \/ Load(stored) = DefaultPinState
      \/ Load(stored) = stored /\ stored.pin # NoPin
  BY DEF BaseInv, PinInv, StoredShape, Load
<1>5. TypeOK'
  <2>1. UnusedToken \in Token /\ NoStateful \in Stateful /\ 0 \in Times /\ 0 \in 0..MaxClock
    BY TimeAssumption DEF UnusedToken, Token, NoStateful, Stateful, Times
  <2>2. writes' \in Seq(PinState) /\ Len(writes') <= 2
    <3>1. <<>> \in Seq(PinState) /\ Len(<<>>) = 0
      OBVIOUS
    <3>. QED  BY <1>1, <3>1
  <2>3. audit' \in Audit
    BY <1>1 DEF Audit
  <2>4. clock' \in 0..MaxClock /\ init_time' \in Times
    BY <1>1, <2>1
  <2>5. pin' \in PinState /\ stored' \in PinState
    BY <1>1, <1>2
  <2>6. boot' \in 0..BootAttempts
    <3>1. boot' = BootAttempts
      BY <1>1
    <3>. QED  BY <3>1, AttemptsType
  <2>7. token' \in Token /\ held' \subseteq Signatures /\ stateful' \in Stateful
    BY <1>1, <2>1
  <2>. QED  BY <1>3, <2>2, <2>3, <2>4, <2>5, <2>6, <2>7 DEF TypeOK, Audit
<1>6. PinInv'
  <2>1. FreshWithoutPin'
    BY <1>1, <1>4 DEF FreshWithoutPin, DefaultPinState
  <2>2. StoredShape' /\ WritesShape'
    BY <1>1 DEF BaseInv, PinInv, StoredShape, WritesShape, Idle
  <2>3. Paid'
    BY <1>1, <1>3 DEF Paid, Idle
  <2>4. Blocked'
    BY <1>1, <1>4, AttemptsType DEF Blocked, Idle, DefaultPinState
  <2>. QED  BY <2>1, <2>2, <2>3, <2>4 DEF PinInv
<1>7. HolderShape' /\ ServiceShape'
  BY <1>1 DEF HolderShape, OneHolder, ServiceShape, OneOperationPerPin
<1>. QED  BY <1>5, <1>6, <1>7 DEF BaseInv

\* Time passes.
LEMMA TickBaseInv == BaseInv /\ Tick => BaseInv'
<1>. SUFFICES ASSUME BaseInv, Tick
              PROVE  BaseInv'
  OBVIOUS
<1>1. /\ clock < MaxClock /\ clock' = clock + 1
      /\ UNCHANGED <<pin, writes, ramVars, stored, wrong, audit>>
  BY DEF Tick
<1>2. clock' \in 0..MaxClock /\ clock <= clock'
  BY <1>1, TimeAssumption DEF BaseInv, TypeOK
<1>3. TypeOK'
  BY <1>1, <1>2 DEF BaseInv, TypeOK, ramVars
<1>4. PinInv'
  BY <1>1 DEF BaseInv, PinInv, FreshWithoutPin, StoredShape, WritesShape, Paid, Blocked,
              Idle, ramVars
<1>5. HolderShape'
  BY <1>1 DEF BaseInv, HolderShape, OneHolder, ramVars
<1>6. ServiceShape'
  BY <1>1, <1>2 DEF BaseInv, TypeOK, ServiceShape, OneOperationPerPin, ramVars
<1>. QED  BY <1>3, <1>4, <1>5, <1>6 DEF BaseInv

-----------------------------------------------------------------------------
(* The inductive invariant.                                                *)

\* BaseInv holds after the first power up.
LEMMA InitBaseInv == Init => BaseInv
<1>. SUFFICES ASSUME Init
              PROVE  BaseInv
  OBVIOUS
<1>1. /\ clock = 0 /\ pin = DefaultPinState /\ boot = BootAttempts /\ stored = NoItem
      /\ writes = <<>> /\ token = UnusedToken /\ held = {} /\ stateful = NoStateful
      /\ init_time = 0 /\ wrong = 0 /\ audit = NewAudit(NoPin)
  BY DEF Init
<1>2. TypeOK
  <2>1. UnusedToken \in Token /\ NoStateful \in Stateful /\ 0 \in Times /\ 0 \in 0..MaxClock
    BY TimeAssumption DEF UnusedToken, Token, NoStateful, Stateful, Times
  <2>2. clock \in 0..MaxClock /\ init_time \in Times
    BY <1>1, <2>1
  <2>3. pin \in PinState /\ stored \in PinState
    BY <1>1, DefaultType
  <2>4. boot \in 0..BootAttempts /\ wrong \in 0..(TotalAttempts + 1)
    BY <1>1, AttemptsType
  <2>5. writes \in Seq(PinState) /\ Len(writes) <= 2
    <3>1. <<>> \in Seq(PinState) /\ Len(<<>>) = 0
      OBVIOUS
    <3>. QED  BY <1>1, <3>1
  <2>6. token \in Token /\ held \subseteq Signatures /\ stateful \in Stateful
    BY <1>1, <2>1
  <2>7. audit \in Audit
    BY <1>1 DEF NewAudit, Audit
  <2>. QED  BY <2>2, <2>3, <2>4, <2>5, <2>6, <2>7 DEF TypeOK, Audit
<1>3. PinInv
  <2>1. Load(stored) = pin /\ pin.pin = NoPin /\ pin.total = TotalAttempts
    BY <1>1 DEF Load, DefaultPinState
  <2>. QED  BY <1>1, <2>1, AttemptsType
            DEF PinInv, FreshWithoutPin, StoredShape, WritesShape, Paid, Blocked, Idle
<1>4. HolderShape /\ ServiceShape
  BY <1>1 DEF HolderShape, OneHolder, ServiceShape, OneOperationPerPin, NewAudit
<1>. QED  BY <1>2, <1>3, <1>4 DEF BaseInv

\* A request without an effect only drops what has expired.
LEMMA NoEffectBaseInv == BaseInv /\ NoEffect => BaseInv'
<1>. SUFFICES ASSUME BaseInv, NoEffect
              PROVE  BaseInv'
  OBVIOUS
<1>1. TokenNow \in Token /\ StatefulNow \in Stateful /\ Serves(TokenNow)
  BY TokenNowType, StatefulNowType, ServesLeft DEF BaseInv
<1>. QED  BY <1>1, KeepAuditBaseInv DEF NoEffect, KeepKnown

\* BaseInv depends on the variables alone.
LEMMA StutterBaseInv == BaseInv /\ UNCHANGED vars => BaseInv'
BY DEF BaseInv, TypeOK, PinInv, FreshWithoutPin, StoredShape, WritesShape, Paid, Blocked,
       Idle, HolderShape, OneHolder, ServiceShape, OneOperationPerPin, vars

\* Every step keeps BaseInv: one case per kind of request.
LEMMA NextBaseInv == BaseInv /\ [Next]_vars => BaseInv'
<1>. SUFFICES ASSUME BaseInv, [Next]_vars
              PROVE  BaseInv'
  OBVIOUS
<1>1. CASE NoEffect
  BY <1>1, NoEffectBaseInv
<1>2. CASE ClientPinNext
  BY <1>2, WrongPinBaseInv, SetPinBaseInv, ChangePinRefusedBaseInv, ChangePinBaseInv, GetPinTokenBaseInv
  DEF ClientPinNext
<1>3. CASE CredentialsNext
  BY <1>3, CredentialsBaseInv
<1>4. CASE ManagementNext
  BY <1>4, ManagementBaseInv
<1>5. CASE \E wait \in 0..MaxWait : Reset(wait)
  BY <1>5, ResetBaseInv
<1>6. CASE WriteDone
  BY <1>6, WriteDoneBaseInv
<1>7. CASE WriteFails
  BY <1>7, WriteFailsBaseInv
<1>8. CASE PowerCycle
  BY <1>8, PowerCycleBaseInv
<1>9. CASE Tick
  BY <1>9, TickBaseInv
<1>10. CASE UNCHANGED vars
  BY <1>10, StutterBaseInv
<1>. QED  BY <1>1, <1>2, <1>3, <1>4, <1>5, <1>6, <1>7, <1>8, <1>9, <1>10 DEF Next

\* BaseInv holds in every reachable state.
LEMMA BaseInvariance == Spec => []BaseInv
<1>. QED  BY InitBaseInv, NextBaseInv, PTL DEF Spec

\* Every variable keeps its type; no counter of attempts runs below zero.
THEOREM TypeCorrect == Spec => []TypeOK
<1>1. BaseInv => TypeOK
  BY DEF BaseInv
<1>. QED  BY <1>1, BaseInvariance, PTL

\* Every answered wrong PIN is paid for in the storage, wherever the power is
\* lost (handle_invalid_pin, ctap_init_pin_persistent_state).
THEOREM GuessesPaidHolds == Spec => []GuessesPaid
<1>1. BaseInv => GuessesPaid
  BY DEF BaseInv, PinInv, Paid, GuessesPaid
<1>. QED  BY <1>1, BaseInvariance, PTL

\* Two platforms never know usable tokens at the same time.
THEOREM OneHolderHolds == Spec => []OneHolder
<1>1. BaseInv => OneHolder
  BY DEF BaseInv, HolderShape
<1>. QED  BY <1>1, BaseInvariance, PTL

\* A token dies with the PIN it was issued under.
THEOREM TokenOfCurrentPinHolds == Spec => []TokenOfCurrentPin
<1>1. BaseInv => TokenOfCurrentPin
  BY DEF BaseInv, HolderShape, TokenOfCurrentPin
<1>. QED  BY <1>1, BaseInvariance, PTL

\* One PIN entry serves one relying party and one operation with user presence.
THEOREM OneOperationPerPinHolds == Spec => []OneOperationPerPin
<1>1. BaseInv => OneOperationPerPin
  BY DEF BaseInv, ServiceShape
<1>. QED  BY <1>1, BaseInvariance, PTL

-----------------------------------------------------------------------------
(* Action properties: a blocked PIN stays blocked.                         *)

\* The commands that use a token, and NoEffect.
LEMMA TokenCommands ==
    ASSUME NoEffect \/ CredentialsNext \/ ManagementNext
    PROVE  KeepKnown
BY DEF NoEffect, KeepKnown, CredentialsNext, VerificationFails, MakeCredential, GetAssertion,
       GetNextAssertion, Continue, ManagementNext, Manage, GetCredsMetadata, EnumerateRpsBegin,
       EnumerateCredentialsBegin, DeleteOrUpdateCredential, EnumerateRpsGetNextRp,
       EnumerateCredentialsGetNextCredential

\* What is in the storage changes by a write or by a reset.
LEMMA StorageChanges ==
    ASSUME [Next]_vars
    PROVE  stored' = stored \/ stored' = NoItem \/ writes # <<>>
<1>1. CASE NoEffect \/ CredentialsNext \/ ManagementNext
  BY <1>1, TokenCommands DEF KeepKnown, KeepPin
<1>2. CASE ClientPinNext
  BY <1>2 DEF ClientPinNext, WrongPin, InvalidPin, SetPin, ChangePinRefused, ChangePin, GetPinToken
<1>3. CASE \E wait \in 0..MaxWait : Reset(wait)
  BY <1>3 DEF Reset
<1>4. CASE WriteDone \/ WriteFails
  BY <1>4 DEF WriteDone, WriteFails
<1>5. CASE PowerCycle \/ Tick
  BY <1>5 DEF PowerCycle, Tick
<1>6. CASE UNCHANGED vars
  BY <1>6 DEF vars
<1>. QED  BY <1>1, <1>2, <1>3, <1>4, <1>5, <1>6 DEF Next

\* A PIN without attempts left is unblocked by authenticatorReset alone.
THEOREM BlockedUntilResetHolds == Spec => BlockedUntilReset
<1>1. ASSUME BaseInv, [Next]_vars
      PROVE  Load(stored).total = 0 /\ stored' # stored => stored' = NoItem
  BY <1>1, StorageChanges DEF BaseInv, PinInv, Blocked, Idle
<1>2. BaseInv /\ [Next]_vars => [Load(stored).total = 0 /\ stored' # stored => stored' = NoItem]_vars
  BY <1>1
<1>. QED  BY <1>2, BaseInvariance, PTL DEF Spec, BlockedUntilReset

\* Without attempts left in this boot no PIN is tried before a reset or a power cycle.
THEOREM BlockedUntilPowerCycleHolds == Spec => BlockedUntilPowerCycle
<1> DEFINE Kept == boot = 0 /\ Idle =>
                      \/ pin' = pin /\ boot' = 0
                      \/ stored' = NoItem
                      \/ clock' = 0 /\ pin' = Load(stored)
<1>1. ASSUME BaseInv, [Next]_vars
      PROVE  Kept
  <2>1. CASE NoEffect \/ CredentialsNext \/ ManagementNext
    BY <2>1, TokenCommands DEF KeepKnown, KeepPin
  <2>2. CASE ClientPinNext
    <3>1. boot > 0
      BY <1>1, <2>2, AttemptsType
      DEF ClientPinNext, WrongPin, SetPin, ChangePinRefused, ChangePin, GetPinToken, MayTry,
          BaseInv, PinInv, FreshWithoutPin
    <3>. QED  BY <3>1
  <2>3. CASE \E wait \in 0..MaxWait : Reset(wait)
    BY <2>3 DEF Reset
  <2>4. CASE WriteDone \/ WriteFails
    BY <2>4 DEF WriteDone, WriteFails, Idle
  <2>5. CASE PowerCycle
    BY <2>5 DEF PowerCycle
  <2>6. CASE Tick
    BY <2>6 DEF Tick, ramVars
  <2>7. CASE UNCHANGED vars
    BY <2>7 DEF vars
  <2>. QED  BY <1>1, <2>1, <2>2, <2>3, <2>4, <2>5, <2>6, <2>7 DEF Next
<1>2. BaseInv /\ [Next]_vars => [Kept]_vars
  BY <1>1
<1>. QED  BY <1>2, BaseInvariance, PTL DEF Spec, BlockedUntilPowerCycle

-----------------------------------------------------------------------------
(* The age of a token, while the tick counter does not wrap.               *)

\* The timer of a token in use was started when the token was issued.
Started(t) == t.in_use => t.start = audit.issued

AgeInv == Started(token) /\ TokenAgeLimited

\* Without a wrap a tick value is the true time.
LEMMA NowIsClock ==
    ASSUME MaxClock < ClockMod, BaseInv
    PROVE  Now = clock /\ Since(audit.issued) = Age
<1>1. clock \in Nat /\ audit.issued \in Nat /\ audit.issued <= clock /\ clock < ClockMod
  BY TimeAssumption DEF BaseInv, TypeOK, ServiceShape
<1>2. \A n \in Nat : n < ClockMod => n % ClockMod = n
  BY TimeAssumption
<1>3. Now = clock
  BY <1>1, <1>2 DEF Now
<1>4. Age \in Nat /\ Age < ClockMod
  BY <1>1, TimeAssumption DEF Age
<1>. QED  BY <1>2, <1>3, <1>4 DEF Since, Age

\* A token that is still in use is not too old.
LEMMA InUseAge ==
    ASSUME MaxClock < ClockMod, BaseInv, AgeInv, TokenNow.in_use
    PROVE  TokenNow = token /\ Age <= MaxUsage
<1>1. ~Expired /\ TokenNow = token
  BY DEF TokenNow, UnusedToken
<1>2. Since(token.start) <= MaxUsage
  <2>1. Since(token.start) = Age /\ Age \in Nat
    BY <1>1, NowIsClock DEF AgeInv, Started, BaseInv, TypeOK, ServiceShape, Age
  <2>. QED  BY <1>1, <2>1, TimeAssumption DEF Expired
<1>. QED  BY <1>1, <1>2, NowIsClock DEF AgeInv, Started

\* Touching or dropping a token keeps the time of its issue.
LEMMA StartedLeft ==
    ASSUME BaseInv, AgeInv
    PROVE  /\ Started(TokenNow) /\ Started(Touched)
           /\ \A rp \in RpIds : Started(Bound(rp))
           /\ \A t \in Token : Started(t) => Started(Consumed(t))
<1>1. Started(TokenNow)
  BY DEF AgeInv, Started, TokenNow, UnusedToken
<1>2. TokenNow \in Token
  BY TokenNowType DEF BaseInv
<1>3. Touched.in_use = TokenNow.in_use /\ Touched.start = TokenNow.start /\ Touched \in Token
  BY <1>2, UsedTokenType DEF BaseInv, Touched, Token
<1>4. \A rp \in RpIds : Bound(rp).in_use = Touched.in_use /\ Bound(rp).start = Touched.start
  BY <1>3 DEF Bound, Token
<1>5. \A t \in Token : Consumed(t).in_use = t.in_use /\ Consumed(t).start = t.start
  BY DEF Consumed, Token
<1>. QED  BY <1>1, <1>3, <1>4, <1>5 DEF Started

\* What the history says of age after a use of the token.
LEMMA GrantedAge ==
    ASSUME BaseInv
    PROVE  /\ \A g \in {Granted, Enumerated} : g.lastAge = Age /\ g.issued = audit.issued
           /\ \A rp \in RpIds, up \in BOOLEAN :
                 Served(rp, up).lastAge = Age /\ Served(rp, up).issued = audit.issued
<1>1. audit \in Audit
  BY DEF BaseInv, TypeOK, Audit
<1>2. Granted \in Audit /\ Granted.lastAge = Age /\ Granted.issued = audit.issued
  BY <1>1, AuditTypes DEF BaseInv, ServiceShape, Granted, Audit
<1>3. ASSUME NEW g \in Audit, g = Granted, NEW rp \in RpIds, NEW up \in BOOLEAN
      PROVE  Served(rp, up).lastAge = g.lastAge /\ Served(rp, up).issued = g.issued
  BY <1>3 DEF Served, Audit
<1>4. Enumerated.lastAge = Granted.lastAge /\ Enumerated.issued = Granted.issued
  BY <1>2 DEF Enumerated, Audit
<1>. QED  BY <1>2, <1>3, <1>4

\* The commands that use the token keep the bound on its age.
LEMMA TokenCommandsAge ==
    ASSUME MaxClock < ClockMod, BaseInv, AgeInv, NoEffect \/ CredentialsNext \/ ManagementNext
    PROVE  AgeInv'
<1>1. /\ Started(TokenNow) /\ Started(Touched)
      /\ \A rp \in RpIds : Started(Bound(rp)) /\ Started(Consumed(Bound(rp)))
      /\ Started(Consumed(TokenNow))
  BY StartedLeft, TokenNowType, UsedTokenType DEF BaseInv
<1>2. ASSUME Started(token'),
             \/ audit' = audit
             \/ /\ TokenNow.in_use
                /\ \/ audit' \in {Granted, Enumerated}
                   \/ \E rp \in RpIds, up \in BOOLEAN : audit' = Served(rp, up)
      PROVE  AgeInv'
  <2>1. CASE audit' = audit
    BY <1>2, <2>1 DEF AgeInv, Started, TokenAgeLimited
  <2>2. CASE TokenNow.in_use /\ audit'.lastAge = Age /\ audit'.issued = audit.issued
    BY <1>2, <2>2, InUseAge DEF AgeInv, Started, TokenAgeLimited
  <2>. QED  BY <1>2, <2>1, <2>2, GrantedAge
<1>3. CASE NoEffect
  BY <1>1, <1>2, <1>3 DEF NoEffect
<1>4. CASE VerificationFails
  BY <1>1, <1>2, <1>4 DEF VerificationFails
<1>5. ASSUME NEW sig, NEW rp \in RpIds, MakeCredential(sig, rp)
      PROVE  AgeInv'
  BY <1>1, <1>2, <1>5 DEF MakeCredential, Authorized, Verifies
<1>6. ASSUME NEW sig, NEW rp \in RpIds, NEW up \in BOOLEAN, GetAssertion(sig, rp, up)
      PROVE  AgeInv'
  BY <1>1, <1>2, <1>6 DEF GetAssertion, Authorized, Verifies
<1>7. ASSUME NEW cmd, Continue(cmd)
      PROVE  AgeInv'
  BY <1>1, <1>2, <1>7 DEF Continue
<1>8. ASSUME NEW sig, Manage(sig), audit' \in {Granted, Enumerated}
      PROVE  AgeInv'
  BY <1>1, <1>2, <1>8 DEF Manage, ManagementAllowed, Verifies
<1>9. CASE ManagementNext
  BY <1>7, <1>8, <1>9
  DEF ManagementNext, GetCredsMetadata, EnumerateRpsBegin, EnumerateCredentialsBegin,
      DeleteOrUpdateCredential, EnumerateRpsGetNextRp, EnumerateCredentialsGetNextCredential
<1>10. CASE CredentialsNext
  BY <1>4, <1>5, <1>6, <1>7, <1>10 DEF CredentialsNext, GetNextAssertion
<1>. QED  BY <1>3, <1>9, <1>10

\* Every step keeps the bound on the age of a used token.
LEMMA NextAge ==
    ASSUME MaxClock < ClockMod, BaseInv, AgeInv, [Next]_vars
    PROVE  AgeInv'
<1>1. Started(TokenNow)
  BY StartedLeft
<1>2. CASE NoEffect \/ CredentialsNext \/ ManagementNext
  BY <1>2, TokenCommandsAge
<1>3. CASE ClientPinNext
  <2>1. ASSUME token' = TokenNow, audit' = audit
        PROVE  AgeInv'
    BY <1>1, <2>1 DEF AgeInv, Started, TokenAgeLimited
  <2>2. ASSUME NEW guess \in Pins, NEW newPin \in Pins, ChangePin(guess, newPin)
        PROVE  AgeInv'
    BY <2>2 DEF ChangePin, AgeInv, Started, TokenAgeLimited, UnusedToken
  <2>3. ASSUME NEW h \in Hosts, NEW p \in Protocols, NEW guess \in Pins,
               NEW r \in TokenRequests, GetPinToken(h, p, guess, r)
        PROVE  AgeInv'
    <3>1. token'.start = clock /\ audit'.issued = clock /\ audit'.lastAge = 0
      BY <2>3, NowIsClock DEF GetPinToken, NewAudit
    <3>. QED  BY <3>1, TimeAssumption DEF AgeInv, Started, TokenAgeLimited
  <2>4. CASE \E guess \in Pins \cup {NoPin} : WrongPin(guess)
    BY <2>1, <2>4 DEF WrongPin, InvalidPin
  <2>5. CASE \E newPin \in Pins : SetPin(newPin)
    BY <2>1, <2>5 DEF SetPin
  <2>6. CASE \E guess \in Pins : ChangePinRefused(guess)
    BY <2>1, <2>6 DEF ChangePinRefused
  <2>. QED  BY <1>3, <2>2, <2>3, <2>4, <2>5, <2>6 DEF ClientPinNext
<1>4. CASE \E wait \in 0..MaxWait : Reset(wait)
  BY <1>1, <1>4 DEF Reset, AgeInv, Started, TokenAgeLimited
<1>5. CASE WriteDone \/ WriteFails \/ Tick
  BY <1>5 DEF WriteDone, WriteFails, Tick, ramVars, AgeInv, Started, TokenAgeLimited
<1>6. CASE PowerCycle
  <2>1. audit'.lastAge = 0 /\ token' = UnusedToken
    BY <1>6 DEF PowerCycle
  <2>. QED  BY <2>1, TimeAssumption DEF AgeInv, Started, TokenAgeLimited, UnusedToken
<1>7. CASE UNCHANGED vars
  BY <1>7 DEF vars, AgeInv, Started, TokenAgeLimited
<1>. QED  BY <1>2, <1>3, <1>4, <1>5, <1>6, <1>7 DEF Next

\* While the tick counter does not wrap no use of a token is granted later than
\* the maximum usage time (ctap_pin_uv_auth_token_check_usage_timer).
THEOREM TokenAgeLimitedHolds ==
    ASSUME MaxClock < ClockMod
    PROVE  Spec => []TokenAgeLimited
<1>1. Init => AgeInv
  BY TimeAssumption DEF Init, AgeInv, Started, TokenAgeLimited, UnusedToken, NewAudit
<1>2. BaseInv /\ AgeInv /\ [Next]_vars => AgeInv'
  BY NextAge
<1>3. AgeInv => TokenAgeLimited
  BY DEF AgeInv
<1>. QED  BY <1>1, <1>2, <1>3, BaseInvariance, PTL DEF Spec

-----------------------------------------------------------------------------
(* An enumeration ends with its token, but for a reset.                    *)

\* After the checks of ctap_request a running enumeration is of the token in use.
LEMMA EnumerationNow ==
    ASSUME IInv
    PROVE  /\ StatefulNow.cmd \in {"rps", "credentials"} =>
                  Enumerating /\ TokenNow.in_use /\ audit.enumerations
           /\ StatefulAfterStop.cmd \notin {"rps", "credentials"}
<1>1. StatefulNow.cmd \in {"rps", "credentials"} =>
          Enumerating /\ TokenNow.in_use /\ audit.enumerations
  BY DEF IInv, EnumerationShape, Enumerating, StatefulNow, TokenNow, NoStateful
<1>. QED  BY <1>1 DEF StatefulAfterStop, NoStateful

\* Using or consuming a token does not end it.
LEMMA UseKeepsToken ==
    ASSUME BaseInv
    PROVE  /\ Touched.in_use = TokenNow.in_use
           /\ \A rp \in RpIds : Bound(rp).in_use = TokenNow.in_use
           /\ \A t \in Token : Consumed(t).in_use = t.in_use
<1>1. TokenNow \in Token /\ Touched \in Token
  BY TokenNowType, UsedTokenType DEF BaseInv
<1>2. Touched.in_use = TokenNow.in_use
  BY <1>1 DEF Touched, Token
<1>. QED  BY <1>1, <1>2 DEF Bound, Consumed, Token

\* Recording a use does not forget an enumeration.
LEMMA EnumerationsRecorded ==
    ASSUME BaseInv
    PROVE  /\ Granted.enumerations = audit.enumerations
           /\ Enumerated.enumerations
           /\ \A rp \in RpIds, up \in BOOLEAN :
                  Served(rp, up).enumerations = audit.enumerations
<1>1. audit \in Audit
  BY DEF BaseInv, TypeOK, Audit
<1>2. Granted \in Audit /\ Granted.enumerations = audit.enumerations
  BY <1>1, AuditTypes DEF BaseInv, ServiceShape, Granted, Audit
<1>. QED  BY <1>2 DEF Served, Enumerated, Audit

\* Every step keeps an enumeration tied to its token; only a reset takes the token away
\* from everybody who could use it.
LEMMA NextEnumeration ==
    ASSUME IInv, [Next]_vars
    PROVE  /\ EnumerationShape'
           /\ Enumerating' =>
                 \/ Enumerating /\ (held = {} => held' = {}) /\ (held # {} => held' # {})
                 \/ held' # {}
                 \/ \E wait \in 0..MaxWait : Reset(wait)
<1> USE DEF Enumerating
<1> DEFINE Tied == \/ ~Enumerating'
                   \/ Enumerating /\ token'.in_use /\ audit'.enumerations /\ held' = held
                   \/ token'.in_use /\ audit'.enumerations /\ held' # {}
<1>0. BaseInv
  BY DEF IInv
<1>1. /\ Touched.in_use = TokenNow.in_use
      /\ \A rp \in RpIds : /\ Bound(rp).in_use = TokenNow.in_use
                           /\ Consumed(Bound(rp)).in_use = TokenNow.in_use
      /\ Consumed(TokenNow).in_use = TokenNow.in_use
  BY <1>0, UseKeepsToken, UsedTokenType, TokenNowType DEF BaseInv
<1>2. ASSUME held' = held, token'.in_use = TokenNow.in_use,
             stateful'.cmd \in {"none", "assertion", StatefulNow.cmd},
             audit'.enumerations = audit.enumerations
      PROVE  Tied
  BY <1>2, EnumerationNow
<1>3. StatefulNow \in Stateful /\ NoStateful.cmd = "none"
  BY <1>0, StatefulNowType DEF BaseInv, NoStateful
<1>4. ASSUME NoEffect
      PROVE  Tied
  BY <1>2, <1>4 DEF NoEffect
<1>5. ASSUME CredentialsNext
      PROVE  Tied
  <2>1. held' = held
    BY <1>5, TokenCommands DEF KeepKnown
  <2>2. ASSUME VerificationFails
        PROVE  Tied
    BY <1>1, <1>2, <2>1, <2>2 DEF VerificationFails
  <2>3. ASSUME NEW sig, NEW rp \in RpIds, MakeCredential(sig, rp)
        PROVE  Tied
    <3>1. audit'.enumerations = audit.enumerations
      BY <1>0, <2>3, EnumerationsRecorded DEF MakeCredential
    <3>2. token'.in_use = TokenNow.in_use /\ stateful' = StatefulNow
      BY <1>1, <2>3 DEF MakeCredential
    <3>. QED  BY <1>2, <2>1, <3>1, <3>2
  <2>4. ASSUME NEW sig, NEW rp \in RpIds, NEW up \in BOOLEAN, GetAssertion(sig, rp, up)
        PROVE  Tied
    <3>1. stateful'.cmd \in {"none", "assertion"}
      BY <1>3, <2>4 DEF GetAssertion, AssertionsLeft
    <3>. QED  BY <3>1
  <2>5. ASSUME GetNextAssertion
        PROVE  Tied
    <3>1. stateful'.cmd \in {"none", "assertion"}
      BY <1>3, <2>5 DEF GetNextAssertion, Continue, Stateful
    <3>. QED  BY <3>1
  <2>. QED  BY <1>5, <2>2, <2>3, <2>4, <2>5 DEF CredentialsNext
<1>6. ASSUME ManagementNext
      PROVE  Tied
  <2>1. held' = held
    BY <1>6, TokenCommands DEF KeepKnown
  <2>2. ASSUME NEW sig, Manage(sig)
        PROVE  token'.in_use = TokenNow.in_use /\ TokenNow.in_use /\ held # {}
    BY <1>1, <2>2 DEF Manage, ManagementAllowed, Verifies
  <2>3. ASSUME NEW cmd, Continue(cmd)
        PROVE  Tied
    <3>1. /\ stateful'.cmd \in {"none", StatefulNow.cmd}
          /\ token' = TokenNow /\ audit' = audit
      BY <1>3, <2>3 DEF Continue, Stateful
    <3>. QED  BY <1>2, <2>1, <3>1
  <2>4. ASSUME NEW sig, Manage(sig), audit' = Granted, stateful' \in {StatefulNow, NoStateful}
        PROVE  Tied
    BY <1>0, <1>2, <1>3, <2>1, <2>2, <2>4, EnumerationsRecorded
  <2>5. ASSUME NEW sig, Manage(sig), audit' = Enumerated
        PROVE  Tied
    BY <1>0, <2>1, <2>2, <2>5, EnumerationsRecorded
  <2>. QED  BY <1>6, <2>3, <2>4, <2>5
            DEF ManagementNext, GetCredsMetadata, EnumerateRpsBegin, EnumerateCredentialsBegin,
                DeleteOrUpdateCredential, EnumerateRpsGetNextRp,
                EnumerateCredentialsGetNextCredential
<1>7. ASSUME ClientPinNext
      PROVE  Tied
  <2>1. CASE token' = TokenNow /\ stateful' = StatefulNow /\ held' = held /\ audit' = audit
    BY <1>2, <2>1
  <2>2. CASE stateful' = StatefulAfterStop
    BY <2>2, EnumerationNow
  <2>. QED  BY <1>7, <2>1, <2>2
            DEF ClientPinNext, WrongPin, InvalidPin, SetPin, ChangePinRefused, ChangePin,
                GetPinToken
<1>8. ASSUME NEW wait \in 0..MaxWait, Reset(wait)
      PROVE  EnumerationShape'
  BY <1>8, EnumerationNow DEF Reset, EnumerationShape
<1>9. CASE WriteDone \/ WriteFails \/ Tick
  BY <1>9 DEF WriteDone, WriteFails, Tick, ramVars, IInv, EnumerationShape
<1>10. ASSUME PowerCycle
      PROVE  Tied
  BY <1>3, <1>10 DEF PowerCycle
<1>11. CASE UNCHANGED vars
  BY <1>11 DEF vars, IInv, EnumerationShape
<1>12. CASE Tied
  BY <1>12 DEF EnumerationShape
<1>. HIDE DEF Tied
<1>. QED  BY <1>4, <1>5, <1>6, <1>7, <1>8, <1>9, <1>10, <1>11, <1>12 DEF Next, EnumerationShape

\* The inductive invariant: attempts, token and history fit together, and a running
\* enumeration is one that the token in use has authorised.
THEOREM Invariance == Spec => []IInv
<1>1. Init => EnumerationShape
  BY DEF Init, EnumerationShape, Enumerating, NoStateful
<1>2. IInv /\ [Next]_vars => EnumerationShape'
  BY NextEnumeration
<1>. QED  BY <1>1, <1>2, BaseInvariance, PTL DEF Spec, IInv

\* Whatever the timers do, only a reset leaves the state of an enumeration behind
\* when its token is gone (ctap_pin_uv_auth_token_stop_using).
THEOREM EnumerationEndsUnlessResetHolds ==
    Spec => EnumerationEndsUnlessReset
<1>1. IInv /\ [Next]_vars =>
          [Enumerating' /\ ~OfThisToken' =>
              \/ Enumerating /\ ~OfThisToken
              \/ \E wait \in 0..MaxWait : Reset(wait)]_vars
  <2>. SUFFICES ASSUME IInv, [Next]_vars, Enumerating', ~OfThisToken'
                PROVE  \/ Enumerating /\ ~OfThisToken
                       \/ \E wait \in 0..MaxWait : Reset(wait)
    OBVIOUS
  <2>1. held' = {}
    BY NextEnumeration DEF OfThisToken, EnumerationShape
  <2>. QED  BY <2>1, NextEnumeration DEF OfThisToken
<1>. QED  BY <1>1, Invariance, PTL DEF Spec, EnumerationEndsUnlessReset

-----------------------------------------------------------------------------
(* ClientPin implements Authorization.                                     *)

GrantStep == [Grant!Next]_<<Grants, pin.pin>>

\* Without a token in use, or without anybody who knows it, nothing can be used.
LEMMA NothingGranted ==
    ASSUME BaseInv', ~token'.in_use \/ held' = {}
    PROVE  GrantStep
<1>1. Grants' = {}
  BY DEF Grants
<1>2. pin'.pin \in Pins \cup {NoPin}
  BY DEF BaseInv, TypeOK, PinState
<1>. QED  BY <1>1, <1>2 DEF GrantStep, Grant!Next, Grant!Revoke

\* The token state, the history and the time make the grant.
LEMMA SameGrant ==
    ASSUME pin'.pin = pin.pin, held' = held, audit' = audit, clock' = clock,
           token'.in_use = token.in_use, token'.rp = token.rp,
           token'.permissions = token.permissions
    PROVE  GrantStep
<1>1. \A k : GrantOf(k)' = GrantOf(k)
  BY DEF GrantOf, Age
<1>2. Grants' = Grants
  BY <1>1 DEF Grants
<1>. QED  BY <1>2 DEF GrantStep

\* The one grant there is is replaced by what the token is good for afterwards.
LEMMA GrantChanges ==
    ASSUME BaseInv, token.in_use, NEW k \in held,
           held' = held, pin'.pin = pin.pin, token'.in_use
    PROVE  /\ GrantOf(k) \in Grants
           /\ \A g : g = GrantOf(k)' => Grant!Becomes(GrantOf(k), g)
<1>1. held = {k}
  BY DEF BaseInv, HolderShape, OneHolder
<1>2. Grants = {GrantOf(k)}
  BY <1>1 DEF Grants
<1>3. Grants' = {GrantOf(k)'}
  BY <1>1 DEF Grants
<1>. QED  BY <1>2, <1>3 DEF Grant!Becomes

\* A command that grants nothing leaves the grant as it is, uses it up, or ends it.
LEMMA NothingUsed ==
    ASSUME BaseInv, BaseInv', held' = held, pin'.pin = pin.pin, clock' = clock, audit' = audit,
           token'.in_use => /\ token.in_use /\ token'.rp = token.rp
                            /\ token'.permissions \in {token.permissions, {}}
    PROVE  GrantStep
<1>2. CASE ~token'.in_use \/ held = {}
  BY <1>2, NothingGranted
<1>3. CASE token'.in_use /\ token'.permissions = token.permissions
  <2>1. token'.in_use = token.in_use
    BY <1>3 DEF BaseInv, TypeOK, Token
  <2>. QED  BY <1>3, <2>1, SameGrant
<1>4. ASSUME token'.in_use, NEW k \in held, token'.permissions = {}
      PROVE  GrantStep
  <2> DEFINE g == GrantOf(k)
             spent == [g EXCEPT !.permissions = {}]
  <2>1. GrantOf(k)' = spent
    BY <1>4 DEF GrantOf, Age
  <2>2. g \in Grants /\ Grant!Becomes(g, spent)
    BY <1>4, <2>1, GrantChanges
  <2>3. Grant!Spend(g)
    BY <2>2 DEF Grant!Spend
  <2>. HIDE DEF g
  <2>. QED  BY <2>2, <2>3 DEF GrantStep, Grant!Next
<1>. QED  BY <1>2, <1>3, <1>4
\* Looking at a signature changes no more of a token in use than when it was used last;
\* binding and consuming it do what they say.
LEMMA TokenUsed ==
    ASSUME BaseInv, TokenNow.in_use, NEW rp \in RpIds
    PROVE  /\ TokenNow = token
           /\ Touched.in_use /\ Touched.rp = token.rp /\ Touched.permissions = token.permissions
           /\ Bound(rp).in_use /\ Bound(rp).rp = rp
           /\ Bound(rp).permissions = token.permissions
           /\ Consumed(Bound(rp)).in_use /\ Consumed(Bound(rp)).rp = rp
           /\ Consumed(Bound(rp)).permissions = {}
<1>1. TokenNow = token /\ token \in Token
  BY DEF TokenNow, UnusedToken, BaseInv, TypeOK
<1>2. /\ Touched \in Token /\ Touched.in_use
      /\ Touched.rp = token.rp /\ Touched.permissions = token.permissions
  BY <1>1, UsedTokenType DEF Touched, Token, BaseInv
<1>3. /\ Bound(rp) \in Token /\ Bound(rp).in_use
      /\ Bound(rp).rp = rp /\ Bound(rp).permissions = token.permissions
  BY <1>2, UsedTokenType DEF Bound, Token, BaseInv
<1>4. /\ Consumed(Bound(rp)).in_use /\ Consumed(Bound(rp)).rp = rp
      /\ Consumed(Bound(rp)).permissions = {}
  BY <1>3 DEF Consumed, Token
<1>. QED  BY <1>1, <1>2, <1>3, <1>4

\* What the history says of a use.
LEMMA UseRecorded ==
    ASSUME BaseInv
    PROVE  /\ \A g \in {Granted, Enumerated} :
                 /\ g.issued = audit.issued /\ g.lastAge = Age
                 /\ g.rps = audit.rps /\ g.ups = audit.ups
           /\ \A rp \in RpIds, up \in BOOLEAN :
                 /\ Served(rp, up).issued = audit.issued /\ Served(rp, up).lastAge = Age
                 /\ Served(rp, up).rps = audit.rps \cup {rp}
                 /\ Served(rp, up).ups = IF up THEN audit.ups + 1 ELSE audit.ups
<1>1. audit \in Audit
  BY DEF BaseInv, TypeOK, Audit
<1>2. /\ Granted \in Audit /\ Granted.issued = audit.issued /\ Granted.lastAge = Age
      /\ Granted.rps = audit.rps /\ Granted.ups = audit.ups
  BY <1>1, AuditTypes DEF BaseInv, ServiceShape, Granted, Audit
<1>3. ASSUME NEW g \in Audit, g = Granted, NEW rp \in RpIds, NEW up \in BOOLEAN
      PROVE  /\ Served(rp, up).issued = g.issued /\ Served(rp, up).lastAge = g.lastAge
             /\ Served(rp, up).rps = g.rps \cup {rp}
             /\ Served(rp, up).ups = IF up THEN g.ups + 1 ELSE g.ups
  BY <1>3 DEF Served, Audit
<1>4. /\ Enumerated.issued = Granted.issued /\ Enumerated.lastAge = Granted.lastAge
      /\ Enumerated.rps = Granted.rps /\ Enumerated.ups = Granted.ups
  BY <1>2 DEF Enumerated, Audit
<1>. QED  BY <1>2, <1>3, <1>4

\* A request is authorised only if the grant allows it.
LEMMA AuthorizedIsAllowed ==
    ASSUME MaxClock < ClockMod, BaseInv, AgeInv,
           NEW sig, NEW permission, NEW rp \in RpIds, Authorized(sig, permission, rp)
    PROVE  /\ sig \in held /\ TokenNow.in_use /\ token.in_use
           /\ Grant!Allows(GrantOf(sig), permission, rp)
<1>1. sig \in held /\ TokenNow.in_use
  BY DEF Authorized, Verifies
<1>2. TokenNow = token /\ Age <= MaxUsage
  BY <1>1, InUseAge
<1>3. permission \in token.permissions /\ token.rp \in {NoRp, rp}
  BY <1>2 DEF Authorized
<1>. QED  BY <1>1, <1>2, <1>3 DEF Grant!Allows, GrantOf

\* Without a credential or a consent the token is bound, and nothing else.
LEMMA BindGrants ==
    ASSUME MaxClock < ClockMod, BaseInv, AgeInv, KeepKnown,
           NEW sig, NEW permission \in {"mc", "ga"}, NEW rp \in RpIds,
           Authorized(sig, permission, rp), token' = Bound(rp), audit' = audit
    PROVE  GrantStep
<1> DEFINE g == GrantOf(sig)
           h == [g EXCEPT !.rp = rp]
<1>1. sig \in held /\ TokenNow.in_use /\ token.in_use /\ Grant!Allows(g, permission, rp)
  BY AuthorizedIsAllowed
<1>2. token'.in_use /\ token'.rp = rp /\ token'.permissions = token.permissions
  BY <1>1, TokenUsed
<1>3. GrantOf(sig)' = h
  BY <1>2 DEF GrantOf, Age, KeepKnown, KeepRest
<1>4. g \in Grants /\ Grant!Becomes(g, h)
  BY <1>1, <1>2, <1>3, GrantChanges DEF KeepKnown, KeepPin
<1>5. Grant!Bind(g, permission, rp)
  BY <1>1, <1>4 DEF Grant!Bind
<1>. HIDE DEF g
<1>. QED  BY <1>4, <1>5 DEF GrantStep, Grant!Next

\* An operation with user presence consumes the token.
LEMMA OperateGrants ==
    ASSUME MaxClock < ClockMod, BaseInv, AgeInv, KeepKnown,
           NEW sig, NEW permission \in {"mc", "ga"}, NEW rp \in RpIds,
           Authorized(sig, permission, rp),
           token' = Consumed(Bound(rp)), audit' = Served(rp, TRUE)
    PROVE  GrantStep
<1> DEFINE g == GrantOf(sig)
           h == [g EXCEPT !.rp = rp, !.last = g.age, !.served = @ \cup {rp},
                          !.operations = @ + 1, !.permissions = {}]
<1>1. sig \in held /\ TokenNow.in_use /\ token.in_use /\ Grant!Allows(g, permission, rp)
  BY AuthorizedIsAllowed
<1>2. token'.in_use /\ token'.rp = rp /\ token'.permissions = {}
  BY <1>1, TokenUsed
<1>3. /\ audit'.issued = audit.issued /\ audit'.lastAge = Age
      /\ audit'.rps = audit.rps \cup {rp} /\ audit'.ups = audit.ups + 1
  BY UseRecorded
<1>4. GrantOf(sig)' = h
  <2> DEFINE next == [holder |-> sig, permissions |-> {}, rp |-> rp, age |-> Age,
                      last |-> Age, served |-> audit.rps \cup {rp}, operations |-> audit.ups + 1]
  <2>1. GrantOf(sig)' = next
    BY <1>2, <1>3 DEF GrantOf, Age, KeepKnown, KeepRest
  <2>2. h \in [holder : {sig}, permissions : {{}}, rp : {rp}, age : {Age},
                last : {Age}, served : {audit.rps \cup {rp}}, operations : {audit.ups + 1}]
    BY DEF GrantOf
  <2>. HIDE DEF h
  <2>3. h = next
    BY <2>2
  <2>. QED  BY <2>1, <2>3
<1>5. g \in Grants /\ Grant!Becomes(g, h)
  BY <1>1, <1>2, <1>4, GrantChanges DEF KeepKnown, KeepPin
<1>6. Grant!Operate(g, permission, rp)
  BY <1>1, <1>5 DEF Grant!Operate
<1>. HIDE DEF g
<1>. QED  BY <1>5, <1>6 DEF GrantStep, Grant!Next

\* An assertion without user presence leaves the permissions.
LEMMA AssertGrants ==
    ASSUME MaxClock < ClockMod, BaseInv, AgeInv, KeepKnown,
           NEW sig, NEW rp \in RpIds, Authorized(sig, "ga", rp),
           token' = Bound(rp), audit' = Served(rp, FALSE)
    PROVE  GrantStep
<1> DEFINE g == GrantOf(sig)
           h == [g EXCEPT !.rp = rp, !.last = g.age, !.served = @ \cup {rp}]
<1>1. sig \in held /\ TokenNow.in_use /\ token.in_use /\ Grant!Allows(g, "ga", rp)
  BY AuthorizedIsAllowed
<1>2. token'.in_use /\ token'.rp = rp /\ token'.permissions = token.permissions
  BY <1>1, TokenUsed
<1>3. /\ audit'.issued = audit.issued /\ audit'.lastAge = Age
      /\ audit'.rps = audit.rps \cup {rp} /\ audit'.ups = audit.ups
  BY UseRecorded
<1>4. GrantOf(sig)' = h
  <2> DEFINE next == [holder |-> sig, permissions |-> token.permissions, rp |-> rp, age |-> Age,
                      last |-> Age, served |-> audit.rps \cup {rp}, operations |-> audit.ups]
  <2>1. GrantOf(sig)' = next
    BY <1>2, <1>3 DEF GrantOf, Age, KeepKnown, KeepRest
  <2>2. h \in [holder : {sig}, permissions : {token.permissions}, rp : {rp}, age : {Age},
                last : {Age}, served : {audit.rps \cup {rp}}, operations : {audit.ups}]
    BY DEF GrantOf
  <2>. HIDE DEF h
  <2>3. h = next
    BY <2>2
  <2>. QED  BY <2>1, <2>3
<1>5. g \in Grants /\ Grant!Becomes(g, h)
  BY <1>1, <1>2, <1>4, GrantChanges DEF KeepKnown, KeepPin
<1>6. Grant!Assert(g, rp)
  BY <1>1, <1>5 DEF Grant!Assert
<1>. HIDE DEF g
<1>. QED  BY <1>5, <1>6 DEF GrantStep, Grant!Next

\* Credential management needs its permission and changes only when the grant was used last.
LEMMA ManageGrants ==
    ASSUME MaxClock < ClockMod, BaseInv, AgeInv, NEW sig, Manage(sig),
           audit' \in {Granted, Enumerated}
    PROVE  GrantStep
<1> DEFINE g == GrantOf(sig)
           h == [g EXCEPT !.last = g.age]
<1>1. sig \in held /\ TokenNow.in_use /\ "cm" \in TokenNow.permissions
      /\ token' = Touched /\ KeepKnown
  BY DEF Manage, ManagementAllowed, Verifies
<1>2. TokenNow = token /\ Age <= MaxUsage
  BY <1>1, InUseAge
<1>3. token'.in_use /\ token'.rp = token.rp /\ token'.permissions = token.permissions
  <2>1. token \in Token
    BY DEF BaseInv, TypeOK
  <2>. QED  BY <1>1, <1>2, <2>1 DEF Touched, Token
<1>4. /\ audit'.issued = audit.issued /\ audit'.lastAge = Age
      /\ audit'.rps = audit.rps /\ audit'.ups = audit.ups
  BY UseRecorded
<1>5. GrantOf(sig)' = h
  BY <1>1, <1>3, <1>4 DEF GrantOf, Age, KeepKnown, KeepRest
<1>6. g \in Grants /\ Grant!Becomes(g, h)
  BY <1>1, <1>2, <1>3, <1>5, GrantChanges DEF KeepKnown, KeepPin
<1>7. Grant!Manage(g)
  BY <1>1, <1>2, <1>6 DEF Grant!Manage, GrantOf
<1>. HIDE DEF g
<1>. QED  BY <1>6, <1>7 DEF GrantStep, Grant!Next
\* Looking at a token, dropping it when it has expired and consuming it grant nothing.
LEMMA TokenLeft ==
    ASSUME BaseInv, NEW t \in {TokenNow, Touched, Consumed(TokenNow)}, t.in_use
    PROVE  token.in_use /\ t.rp = token.rp /\ t.permissions \in {token.permissions, {}}
<1>1. TokenNow \in Token /\ Touched \in Token
  BY TokenNowType, UsedTokenType DEF BaseInv
<1>2. TokenNow.in_use
  BY <1>1 DEF Touched, Consumed, Token
<1>3. TokenNow = token
  BY <1>2 DEF TokenNow, UnusedToken
<1>. QED  BY <1>1, <1>2, <1>3 DEF Touched, Consumed, Token

\* makeCredential and getAssertion.
LEMMA CredentialsGrant ==
    ASSUME MaxClock < ClockMod, BaseInv, AgeInv, BaseInv', CredentialsNext
    PROVE  GrantStep
<1>1. KeepKnown /\ held' = held /\ pin'.pin = pin.pin /\ clock' = clock
  BY TokenCommands DEF KeepKnown, KeepPin, KeepRest
<1>2. ASSUME token' \in {TokenNow, Touched, Consumed(TokenNow)}, audit' = audit
      PROVE  GrantStep
  BY <1>1, <1>2, NothingUsed, TokenLeft
<1>3. CASE VerificationFails
  BY <1>2, <1>3 DEF VerificationFails
<1>4. ASSUME NEW sig, NEW rp \in RpIds, MakeCredential(sig, rp)
      PROVE  GrantStep
  <2>1. CASE Authorized(sig, "mc", rp) /\ token' = Bound(rp) /\ audit' = audit
    BY <1>1, <2>1, BindGrants
  <2>2. CASE Authorized(sig, "mc", rp) /\ token' = Consumed(Bound(rp)) /\ audit' = Served(rp, TRUE)
    BY <1>1, <2>2, OperateGrants
  <2>3. CASE token' = Consumed(TokenNow) /\ audit' = audit
    BY <1>2, <2>3
  <2>. QED  BY <1>4, <2>1, <2>2, <2>3 DEF MakeCredential
<1>5. ASSUME NEW sig, NEW rp \in RpIds, NEW up \in BOOLEAN, GetAssertion(sig, rp, up)
      PROVE  GrantStep
  <2>1. CASE Authorized(sig, "ga", rp) /\ pin.pin # NoPin
    <3>1. CASE token' = Bound(rp) /\ audit' = audit
      BY <1>1, <2>1, <3>1, BindGrants
    <3>2. CASE up /\ token' = Consumed(Bound(rp)) /\ audit' = Served(rp, TRUE)
      BY <1>1, <2>1, <3>2, OperateGrants
    <3>3. CASE ~up /\ token' = Bound(rp) /\ audit' = Served(rp, FALSE)
      BY <1>1, <2>1, <3>3, AssertGrants
    <3>. QED  BY <1>5, <2>1, <3>1, <3>2, <3>3 DEF GetAssertion
  <2>2. CASE ~(Authorized(sig, "ga", rp) /\ pin.pin # NoPin)
    <3>1. token' \in {TokenNow, Consumed(TokenNow)} /\ audit' = audit
      BY <1>5, <2>2 DEF GetAssertion
    <3>. QED  BY <1>2, <3>1
  <2>. QED  BY <2>1, <2>2
<1>6. CASE GetNextAssertion
  BY <1>2, <1>6 DEF GetNextAssertion, Continue
<1>. QED  BY <1>3, <1>4, <1>5, <1>6 DEF CredentialsNext

\* Credential management.
LEMMA ManagementGrant ==
    ASSUME MaxClock < ClockMod, BaseInv, AgeInv, BaseInv', ManagementNext
    PROVE  GrantStep
<1>1. held' = held /\ pin'.pin = pin.pin /\ clock' = clock
  BY TokenCommands DEF KeepKnown, KeepPin, KeepRest
<1>2. ASSUME NEW sig, Manage(sig), audit' \in {Granted, Enumerated}
      PROVE  GrantStep
  BY <1>2, ManageGrants
<1>3. ASSUME NEW cmd, Continue(cmd)
      PROVE  GrantStep
  <2>1. token' = TokenNow /\ audit' = audit
    BY <1>3 DEF Continue
  <2>. QED  BY <1>1, <2>1, NothingUsed, TokenLeft
<1>. QED  BY <1>2, <1>3
          DEF ManagementNext, GetCredsMetadata, EnumerateRpsBegin, EnumerateCredentialsBegin,
              DeleteOrUpdateCredential, EnumerateRpsGetNextRp,
              EnumerateCredentialsGetNextCredential

\* The right PIN gives a new grant to whoever entered it, and ends the one there was.
LEMMA IssueGrants ==
    ASSUME BaseInv, NEW h \in Hosts, NEW p \in Protocols, NEW guess \in Pins,
           NEW r \in TokenRequests, GetPinToken(h, p, guess, r)
    PROVE  GrantStep
<1> DEFINE k == <<h, p>>
<1>1. held' = {k} /\ k \in Signatures
  BY DEF GetPinToken, KnownAfterIssue, Signatures
<1>2. /\ token'.in_use /\ token'.permissions = r.permissions /\ token'.rp = r.rp
      /\ r.permissions \in SUBSET Permissions /\ r.rp \in RpIds \cup {NoRp}
  BY DEF GetPinToken, TokenRequests, Permissions
<1>3. /\ audit'.issued = clock /\ audit'.lastAge = 0 /\ audit'.rps = {} /\ audit'.ups = 0
      /\ clock' = clock
  BY DEF GetPinToken, NewAudit, KeepRest
<1>4. Age' = 0
  BY <1>3 DEF Age, BaseInv, TypeOK
<1>5. pin'.pin = pin.pin /\ pin.pin # NoPin
  BY DEF GetPinToken, FullAttempts, MayTry, BaseInv, TypeOK, PinState
<1>6. GrantOf(k)' = Grant!NewGrant(k, r.permissions, r.rp)
  BY <1>2, <1>3, <1>4 DEF GrantOf, Grant!NewGrant
<1>7. Grants' = {GrantOf(k)'}
  BY <1>1, <1>2 DEF Grants
<1>8. Grant!Issue
  <2> DEFINE g == GrantOf(k)'
  <2>1. g.holder = k /\ g.permissions = r.permissions /\ g.rp = r.rp
    BY <1>6 DEF Grant!NewGrant
  <2>2. Grants' = {g} /\ g = Grant!NewGrant(g.holder, g.permissions, g.rp)
    BY <1>6, <1>7, <2>1
  <2>. HIDE DEF g
  <2>. QED  BY <1>1, <1>2, <1>5, <2>1, <2>2 DEF Grant!Issue
<1>. QED  BY <1>8 DEF GrantStep, Grant!Next

\* The commands about the PIN.
LEMMA ClientPinGrant ==
    ASSUME BaseInv, BaseInv', ClientPinNext
    PROVE  GrantStep
<1>1. ASSUME token' = TokenNow, held' = held, audit' = audit, clock' = clock, pin'.pin = pin.pin
      PROVE  GrantStep
  BY <1>1, NothingUsed, TokenLeft
<1>2. pin \in PinState
  BY DEF BaseInv, TypeOK
<1>3. ASSUME NEW guess, WrongPin(guess)
      PROVE  GrantStep
  BY <1>1, <1>2, <1>3 DEF WrongPin, InvalidPin, KeepRest, PinState
<1>4. ASSUME NEW newPin, SetPin(newPin)
      PROVE  GrantStep
  <2>1. held' = {}
    BY <1>4 DEF SetPin, BaseInv, HolderShape
  <2>. QED  BY <2>1, NothingGranted
<1>5. ASSUME NEW guess, ChangePinRefused(guess)
      PROVE  GrantStep
  BY <1>1, <1>2, <1>5 DEF ChangePinRefused, FullAttempts, KeepRest, PinState
<1>6. ASSUME NEW guess, NEW newPin, ChangePin(guess, newPin)
      PROVE  GrantStep
  BY <1>6, NothingGranted DEF ChangePin
<1>. QED  BY <1>3, <1>4, <1>5, <1>6, IssueGrants DEF ClientPinNext

\* Time makes the grant older.
LEMMA TickGrant ==
    ASSUME BaseInv, Tick
    PROVE  GrantStep
<1>1. Age \in Int /\ Age' = Age + 1
  BY DEF Tick, Age, BaseInv, TypeOK
<1>2. UNCHANGED <<token, held, audit, pin>>
  BY DEF Tick, ramVars
<1>3. ASSUME NEW k
      PROVE  GrantOf(k)' = [GrantOf(k) EXCEPT !.age = @ + 1]
  BY <1>1, <1>2 DEF GrantOf
<1>4. Grants' = {[g EXCEPT !.age = @ + 1] : g \in Grants}
  BY <1>2, <1>3 DEF Grants
<1>. QED  BY <1>2, <1>4 DEF GrantStep, Grant!Next, Grant!Pass

\* Each step is one of Authorization, or does not show there.
LEMMA NextGrant ==
    ASSUME MaxClock < ClockMod, BaseInv, AgeInv, [Next]_vars
    PROVE  GrantStep
<1>1. BaseInv'
  BY NextBaseInv
<1>2. CASE NoEffect
  BY <1>1, <1>2, NothingUsed, TokenLeft DEF NoEffect, KeepPin, KeepRest
<1>3. CASE CredentialsNext
  BY <1>1, <1>3, CredentialsGrant
<1>4. CASE ManagementNext
  BY <1>1, <1>4, ManagementGrant
<1>5. CASE ClientPinNext
  BY <1>1, <1>5, ClientPinGrant
<1>6. CASE (\E wait \in 0..MaxWait : Reset(wait)) \/ PowerCycle
  BY <1>1, <1>6, NothingGranted DEF Reset, PowerCycle
<1>7. CASE WriteDone \/ WriteFails \/ UNCHANGED vars
  BY <1>7, SameGrant DEF WriteDone, WriteFails, ramVars, vars
<1>8. CASE Tick
  BY <1>8, TickGrant
<1>. QED  BY <1>2, <1>3, <1>4, <1>5, <1>6, <1>7, <1>8 DEF Next

\* AuthorizationSpec: while the tick counter does not wrap, what can be done with the
\* token values of all protocols and the one token state is what the user who entered the
\* PIN was promised, for any hosts, relying parties and limits.
THEOREM Authorizes ==
    ASSUME MaxClock < ClockMod
    PROVE  Spec => AuthorizationSpec
<1>1. Init => AgeInv
  BY TimeAssumption DEF Init, AgeInv, Started, TokenAgeLimited, UnusedToken, NewAudit
<1>2. BaseInv /\ AgeInv /\ [Next]_vars => AgeInv'
  BY NextAge
<1>3. BaseInv /\ AgeInv /\ [Next]_vars => [Grant!Next]_<<Grants, pin.pin>>
  BY NextGrant DEF GrantStep
<1>4. Init => Grant!Init
  BY DEF Init, DefaultPinState, UnusedToken, Grants, Grant!Init
<1>. QED  BY <1>1, <1>2, <1>3, <1>4, BaseInvariance, PTL DEF Spec, AuthorizationSpec, Grant!Spec
=============================================================================
