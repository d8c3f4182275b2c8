----------------------------- MODULE Encodings -----------------------------
(***************************************************************************)
(* The conversions that are hard to get right at their edges: the forms of *)
(* an APDU (nfc_parse_apdu), the ASN.1 form of a signature                 *)
(* (ctap_convert_to_asn1_der_ecdsa_sig_value), the truncation of an RP ID  *)
(* (ctap_maybe_truncate_rp_id) and the choice among the public key         *)
(* credential parameters of a makeCredential request.                      *)
(*                                                                         *)
(* A behaviour is one call: the state is its argument, then its result.    *)
(* Octets are digits to the base Radix, so that the lengths at which a     *)
(* field overflows are small ones.                                         *)
(* An operator X_Y is the definition X with the plausible bug Y; nothing   *)
(* uses it.                                                                *)
(***************************************************************************)
EXTENDS Integers, Sequences

CONSTANTS
    Radix,      \* 256
    Width,      \* the octets of each half of a raw signature, 32
    Room,       \* storage_buffer_size of an RP ID, 32
    MaxBody,    \* bound: the octets of an APDU after its header
    MaxId,      \* bound: the octets of an RP ID
    MaxParams   \* bound: the public key credential parameters of a request

ASSUME EncodingsAssumption ==
    /\ Radix \in Nat /\ Width \in Nat \ {0} /\ Room \in Nat
    /\ {MaxBody, MaxId, MaxParams} \subseteq Nat
    /\ Radix > 2

VARIABLES
    call,       \* the function and its argument
    returned,   \* it has returned
    result      \* what it has returned
vars == <<call, returned, result>>

Octet == 0..(Radix - 1)
UpTo(S, n) == UNION {[1..k -> S] : k \in 0..n}

-----------------------------------------------------------------------------
(* nfc_parse_apdu, of what is after the four octets of the header.         *)

Malformed == [ok |-> FALSE]

Apdu(data, has_le, le, extended) ==
    [ok |-> TRUE, data |-> data, has_le |-> has_le, le |-> le, extended |-> extended]

Number(high, low) == Radix * high + low

ParseShort_LeInData(raw) ==
    LET n == Len(raw)
        lc == raw[1]
    IN  CASE n = 1 -> Apdu(<<>>, TRUE, lc, FALSE)
          [] n = 2 + lc -> Apdu(SubSeq(raw, 2, 1 + lc), TRUE, raw[lc + 1], FALSE)
          [] n = 1 + lc /\ n > 1 -> Apdu(SubSeq(raw, 2, 1 + lc), FALSE, 0, FALSE)
          [] OTHER -> Malformed

ParseShort(raw) ==
    LET n == Len(raw)
        lc == raw[1]
    IN  CASE n = 1 -> Apdu(<<>>, TRUE, lc, FALSE)
          [] n = 1 + lc /\ n > 1 -> Apdu(SubSeq(raw, 2, 1 + lc), FALSE, 0, FALSE)
          [] n = 2 + lc -> Apdu(SubSeq(raw, 2, 1 + lc), TRUE, raw[n], FALSE)
          [] OTHER -> Malformed

ParseExtended(raw) ==
    LET n == Len(raw)
        ext == Number(raw[2], raw[3])
    IN  CASE n < 3 -> Malformed
          [] n = 3 -> Apdu(<<>>, TRUE, ext, TRUE)
          [] n > 3 /\ ext > 0 /\ n = 3 + ext -> Apdu(SubSeq(raw, 4, 3 + ext), FALSE, 0, TRUE)
          [] n > 3 /\ ext > 0 /\ n = 5 + ext ->
                Apdu(SubSeq(raw, 4, 3 + ext), TRUE, Number(raw[n - 1], raw[n]), TRUE)
          [] OTHER -> Malformed

ParseApdu(raw) ==
    CASE raw = <<>> -> Apdu(<<>>, FALSE, 0, FALSE)
      [] raw # <<>> /\ raw[1] # 0 -> ParseShort(raw)
      [] OTHER -> ParseExtended(raw)

-----------------------------------------------------------------------------
(* ctap_convert_to_asn1_der_ecdsa_sig_value.                               *)

High(octet) == octet >= Radix \div 2

\* The loop over the leading zeros ends at the first octet that is none.
LeadingZeros(x) ==
    CHOOSE z \in 0..Width :
        (\A i \in 1..z : x[i] = 0) /\ (z < Width => x[z + 1] # 0)

Integer_AllZerosSkipped(x) ==
    LET z == LeadingZeros(x)
        skipped == IF z = Width THEN z - 1 ELSE z
    IN  (IF High(x[1]) THEN <<0>> ELSE <<>>) \o SubSeq(x, skipped + 1, Width)

Integer(x) ==
    LET z == LeadingZeros(x)
        skipped == IF z = Width \/ (z > 0 /\ High(x[z + 1])) THEN z - 1 ELSE z
    IN  (IF High(x[1]) THEN <<0>> ELSE <<>>) \o SubSeq(x, skipped + 1, Width)

\* Tags are names; the lengths are.
Signature(r, s) ==
    LET R == Integer(r)
        S == Integer(s)
    IN  <<"SEQUENCE", 4 + Len(R) + Len(S)>> \o <<"INTEGER", Len(R)>> \o R
          \o <<"INTEGER", Len(S)>> \o S

-----------------------------------------------------------------------------
(* ctap_maybe_truncate_rp_id.                                              *)

Ellipsis == <<"e2", "80", "a6">>

Prefix(s, n) == SubSeq(s, 1, n)
Suffix(s, n) == SubSeq(s, Len(s) - n + 1, Len(s))
AtMost(n, limit) == IF n <= limit THEN n ELSE limit

\* The length of [protocol]:, 0 without a colon.
ProtocolLen(id) ==
    IF \E i \in DOMAIN id : id[i] = ":"
    THEN CHOOSE i \in DOMAIN id : id[i] = ":" /\ \A j \in 1..(i - 1) : id[j] # ":"
    ELSE 0

TruncateRpId_NoRoomTaken(id) ==
    LET used == AtMost(ProtocolLen(id), Room)
    IN  CASE Len(id) <= Room -> id
          [] Len(id) > Room /\ Room - used < 3 -> Prefix(id, used)
          [] OTHER -> Prefix(id, used) \o Ellipsis \o Suffix(id, Room - used)

TruncateRpId(id) ==
    LET used == AtMost(ProtocolLen(id), Room)
    IN  CASE Len(id) <= Room -> id
          [] Len(id) > Room /\ Room - used < 3 -> Prefix(id, used)
          [] OTHER -> Prefix(id, used) \o Ellipsis \o Suffix(id, Room - used - 3)

-----------------------------------------------------------------------------
(* ctap_parse_make_credential_pub_key_cred_params and parse_cred_params.   *)

\* The members of an element, "absent" or "ill_typed" if they are.  prefix is a text that
\* "public-key" begins with.  found is what the uninitialized cred_params of the element
\* holds in its type: it may be what an earlier element has left there.
Element ==
    [type : {"public-key", "prefix", "other", "absent", "ill_typed"},
     alg : {"ES256", "other", "absent", "ill_typed"},
     found : {"public-key", "none"}]

\* strncmp compares as many octets as the type has; another type is not stored.
TypeOf(e) == IF e.type \in {"public-key", "prefix"} THEN "public-key" ELSE e.found

ElementError(e) ==
    CASE "ill_typed" \in {e.type, e.alg} -> "unexpected_type"
      [] "ill_typed" \notin {e.type, e.alg} /\ "absent" \in {e.type, e.alg} -> "invalid_cbor"
      [] OTHER -> "none"

\* ctap_is_supported_pub_key_cred_alg.
Supported(e) == TypeOf(e) = "public-key" /\ e.alg = "ES256"

\* The first place in the sequence where P, 0 if there is none.
First(s, P(_)) ==
    IF \E i \in DOMAIN s : P(s[i])
    THEN CHOOSE i \in DOMAIN s : P(s[i]) /\ \A j \in 1..(i - 1) : ~P(s[j])
    ELSE 0

Chosen(error, index) == [error |-> error, index |-> index]

ChooseAlgorithm_StopsThere(params) ==
    LET bad == First(params, LAMBDA e : ElementError(e) # "none")
        good == First(params, Supported)
    IN  CASE good > 0 /\ (bad = 0 \/ good < bad) -> Chosen("none", good)
          [] bad > 0 /\ ~(good > 0 /\ good < bad) -> Chosen(ElementError(params[bad]), 0)
          [] OTHER -> Chosen("unsupported_algorithm", 0)

\* Every element is validated, and the first supported one is kept.
ChooseAlgorithm(params) ==
    LET bad == First(params, LAMBDA e : ElementError(e) # "none")
        good == First(params, Supported)
    IN  CASE bad > 0 -> Chosen(ElementError(params[bad]), 0)
          [] bad = 0 /\ good = 0 -> Chosen("unsupported_algorithm", 0)
          [] OTHER -> Chosen("none", good)

-----------------------------------------------------------------------------

Call(fn, arg) == [fn |-> fn, arg |-> arg]

Calls ==
    {Call("parse_apdu", raw) : raw \in UpTo(Octet, MaxBody)}
    \cup {Call("signature", <<r, s>>) : r \in [1..Width -> Octet], s \in [1..Width -> Octet]}
    \cup {Call("truncate_rp_id", id) : id \in UpTo({":", "a", "b"}, MaxId)}
    \cup {Call("choose_algorithm", params) : params \in UpTo(Element, MaxParams)}

Init == call \in Calls /\ returned = FALSE /\ result = <<>>

Returns(fn, value) ==
    /\ call.fn = fn /\ ~returned
    /\ returned' = TRUE
    /\ result' = value
    /\ UNCHANGED call

ParsesApdu == Returns("parse_apdu", ParseApdu(call.arg))
ConvertsSignature == Returns("signature", Signature(call.arg[1], call.arg[2]))
TruncatesRpId == Returns("truncate_rp_id", TruncateRpId(call.arg))
ChoosesAlgorithm == Returns("choose_algorithm", ChooseAlgorithm(call.arg))

Next == ParsesApdu \/ ConvertsSignature \/ TruncatesRpId \/ ChoosesAlgorithm

Spec == Init /\ [][Next]_vars

-----------------------------------------------------------------------------
(* Properties.                                                             *)

Returned(fn) == call.fn = fn /\ returned

Digits(n) == <<n \div Radix, n % Radix>>

\* The octets of an APDU by ISO/IEC 7816-4: Lc, the data, Le.
LcField(a) ==
    IF a.data = <<>> THEN <<>>
    ELSE IF a.extended THEN <<0>> \o Digits(Len(a.data)) ELSE <<Len(a.data)>>
LeField(a) ==
    IF ~a.has_le THEN <<>>
    ELSE IF ~a.extended THEN <<a.le>>
    ELSE IF a.data = <<>> THEN <<0>> \o Digits(a.le) ELSE Digits(a.le)
Body(a) == LcField(a) \o a.data \o LeField(a)

\* The APDUs that these octets can be divided into, whatever their Le is.
Ends(raw) ==
    LET n == Len(raw)
    IN  {0} \cup (IF n > 0 THEN {raw[n]} ELSE {})
            \cup (IF n > 1 THEN {Number(raw[n - 1], raw[n])} ELSE {})
ShortForms(raw) ==
    {Apdu(SubSeq(raw, 2, 1 + len), has_le, le, FALSE) :
        len \in 0..(Len(raw) - 1), has_le \in BOOLEAN, le \in Ends(raw)}
ExtendedForms(raw) ==
    {Apdu(SubSeq(raw, 4, 3 + len), has_le, le, TRUE) :
        len \in 0..(Len(raw) - 3), has_le \in BOOLEAN, le \in Ends(raw)}

\* The APDUs that are written as these octets.
Forms(raw) ==
    {a \in ShortForms(raw) : a.le < Radix /\ Len(a.data) < Radix /\ Body(a) = raw}
        \cup {a \in ExtendedForms(raw) : (a.has_le \/ a.data # <<>>) /\ Body(a) = raw}

\* What nfc_parse_apdu accepts it has read as the sender has written it, whatever the
\* octets are: no other division into Lc, data and Le is mistaken for it.  It refuses only
\* what is no APDU, and the one whose body is the Le for the longest short response: that
\* octet is taken for the beginning of an extended form.
ApduReadAsWritten ==
    Returned("parse_apdu") =>
        IF result.ok THEN Body(result) = call.arg
        ELSE Forms(call.arg) \subseteq {Apdu(<<>>, TRUE, 0, FALSE)}

\* The reading of a DER signature: the octets of the integer at a place.
IntegerAt(sig, at) == SubSeq(sig, at + 2, at + 1 + sig[at + 1])

\* The shortest octets with a sign that stand for the unsigned number x.
StandsFor(octets, x) ==
    LET n == Len(octets)
    IN  /\ n \in 1..(Width + 1)
        /\ ~High(octets[1])
        /\ n > 1 /\ octets[1] = 0 => High(octets[2])
        /\ \A i \in 1..Width :
              x[i] = IF i + n - Width >= 1 THEN octets[i + n - Width] ELSE 0

\* A verifier reads r and s out of the signature, and DER's shortest form is kept, for
\* numbers with leading zeros, a high first bit, and zero.
SignatureReadsBack ==
    Returned("signature") =>
        LET second == 3 + 2 + Len(IntegerAt(result, 3))
        IN  /\ result[2] = Len(result) - 2
            /\ StandsFor(IntegerAt(result, 3), call.arg[1])
            /\ StandsFor(IntegerAt(result, second), call.arg[2])
            /\ Len(result) = second + 1 + result[second + 1]

\* What is stored of an RP ID fits the buffer and is not longer than the RP ID, as the
\* assertions in ctap_store_arbitrary_length_string say; where an ellipsis is, it stands
\* for something that is left out, and the buffer is used up.
TruncationFits ==
    Returned("truncate_rp_id") =>
        /\ Len(result) <= Room /\ Len(result) <= Len(call.arg)
        /\ \E kept, end \in 0..Len(result) :
              \/ result = Prefix(call.arg, kept)
              \/ /\ result = Prefix(call.arg, kept) \o Ellipsis \o Suffix(call.arg, end)
                 /\ kept + end < Len(call.arg)
                 /\ Len(result) = Room

\* A choice is made only from a list of which every element is complete, no element before
\* the chosen one is a public key with the algorithm, and none in the list is when the
\* algorithm is said to be unsupported.
FirstSupportedChosen ==
    Returned("choose_algorithm") =>
        LET Plain(e) == e.type = "public-key" /\ e.alg = "ES256"
        IN  /\ result.error \in {"none", "unsupported_algorithm"} =>
                 /\ \A i \in DOMAIN call.arg : ElementError(call.arg[i]) = "none"
                 /\ \A i \in DOMAIN call.arg : Plain(call.arg[i]) =>
                       result.index # 0 /\ result.index <= i
            /\ result.error = "none" => call.arg[result.index].alg = "ES256"

-----------------------------------------------------------------------------
(* The inductive invariant of the proofs. *)

\* A call returns what its function computes of its argument.
IInv ==
    /\ call \in Calls
    /\ Returned("parse_apdu") => result = ParseApdu(call.arg)
    /\ Returned("signature") => result = Signature(call.arg[1], call.arg[2])
    /\ Returned("truncate_rp_id") => result = TruncateRpId(call.arg)
    /\ Returned("choose_algorithm") => result = ChooseAlgorithm(call.arg)
=============================================================================
