-------------------------- MODULE EncodingsProofs --------------------------
(***************************************************************************)
(* Proofs about Encodings, for every base of the octets, every width of a  *)
(* signature, every buffer and arguments of every length.                  *)
(***************************************************************************)
EXTENDS Encodings, TLAPS, WellFoundedInduction, SequenceTheorems

-----------------------------------------------------------------------------
(* The first place of a sequence at which a loop stops. *)

\* Of some natural numbers one is the least.
LEMMA LeastNumber ==
    ASSUME NEW S \in SUBSET Nat, S # {}
    PROVE  \E m \in S : \A n \in S : m <= n
<1> DEFINE R == OpToRel(<, Nat)
<1>1. IsWellFoundedOn(R, Nat)
  BY NatLessThanWellFounded
<1>2. \A m, n \in Nat : <<n, m>> \in R <=> n < m
  BY DEF OpToRel
<1>. HIDE DEF R
<1>3. PICK m \in S : \A n \in S : ~(<<n, m>> \in R)
  BY <1>1, WFMin
<1>4. \A n \in S : ~(n < m)
  BY <1>2, <1>3
<1>5. \A n \in S : m <= n
  BY <1>4
<1>. QED  BY <1>5

\* Of some places of a sequence one is the first.
LEMMA FirstPlace ==
    ASSUME NEW n \in Nat, NEW S \in SUBSET (1..n), S # {}
    PROVE  \E i \in S : \A j \in 1..(i - 1) : j \notin S
<1>1. S \in SUBSET Nat
  OBVIOUS
<1>2. PICK i \in S : \A j \in S : i <= j
  BY <1>1, LeastNumber
<1>3. \A j \in 1..(i - 1) : j \notin S
  BY <1>2
<1>. QED  BY <1>3

\* An argument is a sequence.
LEMMA ArgumentIsSequence ==
    ASSUME NEW S, NEW n \in Nat, NEW s \in UpTo(S, n)
    PROVE  s \in Seq(S) /\ Len(s) \in 0..n /\ DOMAIN s = 1..Len(s)
<1>1. PICK k \in 0..n : s \in [1..k -> S]
  BY DEF UpTo
<1>2. s \in Seq(S)
  BY <1>1
<1>. QED  BY <1>1, <1>2

-----------------------------------------------------------------------------
(* The calls. *)

\* Every state is one of a call that returns what it computes.
LEMMA Invariance == Spec => []IInv
<1>1. Init => IInv
  BY DEF Init, IInv, Returned
<1>2. IInv /\ [Next]_vars => IInv'
  <2>. SUFFICES ASSUME IInv, [Next]_vars PROVE IInv'
    OBVIOUS
  <2>1. ASSUME NEW fn, NEW value, Returns(fn, value)
        PROVE  call' = call /\ call.fn = fn /\ result' = value
    BY <2>1 DEF Returns
  <2>2. CASE ParsesApdu
    BY <2>1, <2>2 DEF ParsesApdu, IInv, Returned
  <2>3. CASE ConvertsSignature
    BY <2>1, <2>3 DEF ConvertsSignature, IInv, Returned
  <2>4. CASE TruncatesRpId
    BY <2>1, <2>4 DEF TruncatesRpId, IInv, Returned
  <2>5. CASE ChoosesAlgorithm
    BY <2>1, <2>5 DEF ChoosesAlgorithm, IInv, Returned
  <2>6. CASE UNCHANGED vars
    BY <2>6 DEF vars, IInv, Returned
  <2>. QED  BY <2>2, <2>3, <2>4, <2>5, <2>6 DEF Next
<1>. QED  BY <1>1, <1>2, PTL DEF Spec

\* The argument of a call is of the type of its function.
LEMMA ArgumentType ==
    ASSUME call \in Calls
    PROVE  /\ call.fn = "parse_apdu" => call.arg \in UpTo(Octet, MaxBody)
           /\ call.fn = "signature" => /\ call.arg[1] \in [1..Width -> Octet]
                                       /\ call.arg[2] \in [1..Width -> Octet]
           /\ call.fn = "truncate_rp_id" => call.arg \in UpTo({":", "a", "b"}, MaxId)
           /\ call.fn = "choose_algorithm" => call.arg \in UpTo(Element, MaxParams)
<1>1. CASE \E raw \in UpTo(Octet, MaxBody) : call = Call("parse_apdu", raw)
  BY <1>1 DEF Call
<1>2. CASE \E r \in [1..Width -> Octet], s \in [1..Width -> Octet] :
              call = Call("signature", <<r, s>>)
  BY <1>2 DEF Call
<1>3. CASE \E id \in UpTo({":", "a", "b"}, MaxId) : call = Call("truncate_rp_id", id)
  BY <1>3 DEF Call
<1>4. CASE \E params \in UpTo(Element, MaxParams) : call = Call("choose_algorithm", params)
  BY <1>4 DEF Call
<1>. QED  BY <1>1, <1>2, <1>3, <1>4 DEF Calls

-----------------------------------------------------------------------------
(* The truncation of an RP ID. *)

\* The protocol is a beginning of the RP ID.
LEMMA ProtocolLenType ==
    ASSUME NEW S, NEW id \in Seq(S)
    PROVE  ProtocolLen(id) \in 0..Len(id)
<1> DEFINE Colons == {i \in DOMAIN id : id[i] = ":"}
<1>1. DOMAIN id = 1..Len(id) /\ Len(id) \in Nat
  OBVIOUS
<1>2. CASE Colons # {}
  <2>1. Colons \in SUBSET (1..Len(id))
    BY <1>1
  <2>2. \E i \in Colons : \A j \in 1..(i - 1) : j \notin Colons
    BY <1>1, <1>2, <2>1, FirstPlace
  <2>3. \E i \in DOMAIN id : id[i] = ":" /\ \A j \in 1..(i - 1) : id[j] # ":"
    BY <1>1, <2>2
  <2>4. ProtocolLen(id) \in DOMAIN id
    BY <2>3 DEF ProtocolLen
  <2>. QED  BY <1>1, <2>4
<1>3. CASE Colons = {}
  BY <1>1, <1>3 DEF ProtocolLen
<1>. QED  BY <1>2, <1>3

\* The lengths of the parts of a sequence.
LEMMA PartLength ==
    ASSUME NEW S, NEW s \in Seq(S), NEW n \in 0..Len(s)
    PROVE  /\ Prefix(s, n) \in Seq(S) /\ Len(Prefix(s, n)) = n
           /\ Suffix(s, n) \in Seq(S) /\ Len(Suffix(s, n)) = n
  BY DEF Prefix, Suffix

\* The three outcomes of ctap_maybe_truncate_rp_id.
LEMMA TruncateRpIdFits ==
    ASSUME NEW S, NEW id \in Seq(S), NEW out, out = TruncateRpId(id)
    PROVE  /\ Len(out) <= Room /\ Len(out) <= Len(id)
           /\ \E kept, end \in 0..Len(out) :
                 \/ out = Prefix(id, kept)
                 \/ /\ out = Prefix(id, kept) \o Ellipsis \o Suffix(id, end)
                    /\ kept + end < Len(id)
                    /\ Len(out) = Room
<1> DEFINE used == AtMost(ProtocolLen(id), Room)
           rest == Room - used - 3
<1>1. Room \in Nat /\ Len(id) \in Nat /\ used \in 0..Len(id) /\ used <= Room
  BY ProtocolLenType, EncodingsAssumption DEF AtMost
<1>2. CASE Len(id) <= Room
  <2>1. out = id
    BY <1>1, <1>2 DEF TruncateRpId
  <2>2. id = Prefix(id, Len(id))
    BY SubSeqFull DEF Prefix
  <2>3. Len(out) \in 0..Len(out)
    BY <1>1, <2>1
  <2>. QED  BY <1>2, <2>1, <2>2, <2>3
<1>3. CASE Len(id) > Room /\ Room - used < 3
  <2>1. out = Prefix(id, used)
    BY <1>1, <1>3 DEF TruncateRpId
  <2>2. Len(out) = used /\ used \in 0..Len(out)
    BY <1>1, <2>1, PartLength
  <2>. QED  BY <1>1, <2>1, <2>2
<1>4. CASE Len(id) > Room /\ ~(Room - used < 3)
  <2>1. out = Prefix(id, used) \o Ellipsis \o Suffix(id, rest)
    BY <1>1, <1>4 DEF TruncateRpId
  <2>2. rest \in 0..Len(id) /\ used + 3 + rest = Room
    BY <1>1, <1>4
  <2>3. /\ Prefix(id, used) \in Seq(S) /\ Len(Prefix(id, used)) = used
        /\ Suffix(id, rest) \in Seq(S) /\ Len(Suffix(id, rest)) = rest
    BY <1>1, <2>2, PartLength
  <2>4. Len(out) = used + 3 + rest
    <3> DEFINE T == S \cup {"e2", "80", "a6"}
    <3>1. Ellipsis \in Seq(T) /\ Len(Ellipsis) = 3
      BY DEF Ellipsis
    <3>. HIDE DEF used, rest
    <3>2. Prefix(id, used) \in Seq(T) /\ Suffix(id, rest) \in Seq(T)
      BY <2>3, SeqMonotonic
    <3>. HIDE DEF T
    <3>3. /\ Prefix(id, used) \o Ellipsis \in Seq(T)
          /\ Len(Prefix(id, used) \o Ellipsis) = Len(Prefix(id, used)) + Len(Ellipsis)
      BY <3>1, <3>2, ConcatProperties
    <3>4. Len(out) = Len(Prefix(id, used) \o Ellipsis) + Len(Suffix(id, rest))
      BY <2>1, <3>2, <3>3, ConcatProperties
    <3>. QED  BY <1>1, <2>3, <3>1, <3>3, <3>4
  <2>5. used \in 0..Len(out) /\ rest \in 0..Len(out) /\ used + rest < Len(id)
    BY <1>1, <1>4, <2>2, <2>4
  <2>6. Len(out) = Room /\ Len(out) <= Len(id)
    BY <1>1, <1>4, <2>2, <2>4
  <2>. HIDE DEF used, rest
  <2>7. Len(out) <= Room
    BY <1>1, <2>6
  <2> DEFINE Cut(kept, end) == /\ out = Prefix(id, kept) \o Ellipsis \o Suffix(id, end)
                               /\ kept + end < Len(id)
                               /\ Len(out) = Room
  <2>8. Cut(used, rest)
    BY <2>1, <2>5, <2>6
  <2>. HIDE DEF Cut
  <2>9. \E kept, end \in 0..Len(out) : Cut(kept, end)
    BY <2>5, <2>8
  <2>. QED  BY <2>6, <2>7, <2>9 DEF Cut
<1>5. Len(id) <= Room \/ Len(id) > Room
  BY <1>1
<1>. HIDE DEF used, rest
<1>. QED  BY <1>2, <1>3, <1>4, <1>5

\* What is stored of an RP ID fits, and an ellipsis stands for something.
THEOREM TruncationAlwaysFits == Spec => []TruncationFits
<1>1. IInv => TruncationFits
  <2>. SUFFICES ASSUME IInv, Returned("truncate_rp_id") PROVE TruncationFits
    BY DEF TruncationFits
  <2>1. call.arg \in Seq({":", "a", "b"}) /\ result = TruncateRpId(call.arg)
    BY ArgumentType, ArgumentIsSequence, EncodingsAssumption DEF IInv, Returned
  <2>. QED  BY <2>1, TruncateRpIdFits DEF TruncationFits
<1>. QED  BY <1>1, Invariance, PTL

-----------------------------------------------------------------------------
(* The choice among the public key credential parameters. *)

\* The element at which the validation of the list stops.
LEMMA FirstErrorneous ==
    ASSUME NEW params \in Seq(Element), NEW bad,
           bad = First(params, LAMBDA e : ElementError(e) # "none")
    PROVE  /\ bad \in 0..Len(params)
           /\ bad > 0 => ElementError(params[bad]) # "none"
           /\ bad = 0 => \A i \in DOMAIN params : ElementError(params[i]) = "none"
<1> DEFINE Bad == {i \in DOMAIN params : ElementError(params[i]) # "none"}
<1>1. DOMAIN params = 1..Len(params) /\ Len(params) \in Nat
  OBVIOUS
<1>2. CASE Bad # {}
  <2>1. Bad \in SUBSET (1..Len(params))
    BY <1>1
  <2>2. \E i \in Bad : \A j \in 1..(i - 1) : j \notin Bad
    BY <1>1, <1>2, <2>1, FirstPlace
  <2>3. \E i \in DOMAIN params :
           /\ ElementError(params[i]) # "none"
           /\ \A j \in 1..(i - 1) : ~(ElementError(params[j]) # "none")
    BY <1>1, <2>2
  <2>4. bad \in DOMAIN params /\ ElementError(params[bad]) # "none"
    BY <2>3 DEF First
  <2>. QED  BY <1>1, <2>4
<1>3. CASE Bad = {}
  <2>1. \A i \in DOMAIN params : ElementError(params[i]) = "none"
    BY <1>3
  <2>2. bad = 0
    BY <2>1 DEF First
  <2>. QED  BY <1>1, <2>1, <2>2
<1>. QED  BY <1>2, <1>3

\* The element that is kept.
LEMMA FirstSupported ==
    ASSUME NEW params \in Seq(Element), NEW good, good = First(params, Supported)
    PROVE  /\ good \in 0..Len(params)
           /\ good > 0 => /\ Supported(params[good])
                          /\ \A j \in 1..(good - 1) : ~Supported(params[j])
           /\ good = 0 => \A i \in DOMAIN params : ~Supported(params[i])
<1> DEFINE Good == {i \in DOMAIN params : Supported(params[i])}
<1>1. DOMAIN params = 1..Len(params) /\ Len(params) \in Nat
  OBVIOUS
<1>2. CASE Good # {}
  <2>1. Good \in SUBSET (1..Len(params))
    BY <1>1
  <2>2. \E i \in Good : \A j \in 1..(i - 1) : j \notin Good
    BY <1>1, <1>2, <2>1, FirstPlace
  <2>3. \E i \in DOMAIN params :
           Supported(params[i]) /\ \A j \in 1..(i - 1) : ~Supported(params[j])
    BY <1>1, <2>2
  <2>4. good \in DOMAIN params /\ Supported(params[good])
        /\ \A j \in 1..(good - 1) : ~Supported(params[j])
    BY <2>3 DEF First
  <2>5. good \in 0..Len(params) /\ good # 0
    BY <1>1, <2>4
  <2>. QED  BY <2>4, <2>5
<1>3. CASE Good = {}
  <2>1. \A i \in DOMAIN params : ~Supported(params[i])
    BY <1>3
  <2>2. good = 0
    BY <2>1 DEF First
  <2>. QED  BY <1>1, <2>1, <2>2
<1>. QED  BY <1>2, <1>3

\* The first public key with the supported algorithm is chosen, and only from a list
\* whose elements are all complete.
THEOREM FirstSupportedIsChosen == Spec => []FirstSupportedChosen
<1> DEFINE Plain(e) == e.type = "public-key" /\ e.alg = "ES256"
<1>1. ASSUME NEW params \in Seq(Element), NEW out, out = ChooseAlgorithm(params)
      PROVE  /\ out.error \in {"none", "unsupported_algorithm"} =>
                  /\ \A i \in DOMAIN params : ElementError(params[i]) = "none"
                  /\ \A i \in DOMAIN params : Plain(params[i]) => out.index # 0 /\ out.index <= i
             /\ out.error = "none" => params[out.index].alg = "ES256"
  <2> DEFINE bad == First(params, LAMBDA e : ElementError(e) # "none")
             good == First(params, Supported)
  <2>1. /\ bad \in 0..Len(params)
        /\ bad > 0 => ElementError(params[bad]) # "none"
        /\ bad = 0 => \A i \in DOMAIN params : ElementError(params[i]) = "none"
    BY FirstErrorneous
  <2>2. /\ good \in 0..Len(params)
        /\ good > 0 => /\ Supported(params[good])
                       /\ \A j \in 1..(good - 1) : ~Supported(params[j])
        /\ good = 0 => \A i \in DOMAIN params : ~Supported(params[i])
    BY FirstSupported
  <2>3. out = CASE bad > 0 -> Chosen(ElementError(params[bad]), 0)
                [] bad = 0 /\ good = 0 -> Chosen("unsupported_algorithm", 0)
                [] OTHER -> Chosen("none", good)
    BY <1>1 DEF ChooseAlgorithm
  <2>. HIDE DEF bad, good
  <2>4. CASE bad > 0
    <3>1. out.error = ElementError(params[bad])
      BY <2>3, <2>4 DEF Chosen
    <3>2. \A e : ElementError(e) \in {"none", "unexpected_type", "invalid_cbor"}
      BY DEF ElementError
    <3>. QED  BY <2>1, <2>4, <3>1, <3>2
  <2>5. CASE bad = 0
    <3>1. \A e : Plain(e) => Supported(e)
      BY DEF Supported, TypeOf
    <3>2. \A i \in DOMAIN params : Plain(params[i]) => good # 0 /\ good <= i
      BY <2>2, <3>1
    <3>3. CASE good = 0
      <4>1. out = Chosen("unsupported_algorithm", 0)
        BY <2>3, <2>5, <3>3
      <4>. QED  BY <2>1, <2>5, <3>2, <3>3, <4>1 DEF Chosen
    <3>4. CASE good # 0
      <4>1. out = Chosen("none", good)
        BY <2>2, <2>3, <2>5, <3>4
      <4>2. params[good].alg = "ES256"
        BY <2>2, <3>4 DEF Supported
      <4>. QED  BY <2>1, <2>5, <3>2, <3>4, <4>1, <4>2 DEF Chosen
    <3>. QED  BY <3>3, <3>4
  <2>. QED  BY <2>1, <2>4, <2>5
<1>2. IInv => FirstSupportedChosen
  <2>. SUFFICES ASSUME IInv, Returned("choose_algorithm") PROVE FirstSupportedChosen
    BY DEF FirstSupportedChosen
  <2>1. call.arg \in Seq(Element) /\ result = ChooseAlgorithm(call.arg)
    BY ArgumentType, ArgumentIsSequence, EncodingsAssumption DEF IInv, Returned
  <2>. QED  BY <1>1, <2>1 DEF FirstSupportedChosen
<1>. QED  BY <1>2, Invariance, PTL
-----------------------------------------------------------------------------
(* The forms of an APDU. *)

\* A number of two octets is its digits.
LEMMA NumberOfDigits ==
    /\ \A n \in Nat : /\ n \div Radix \in Nat /\ n % Radix \in Octet
                      /\ Number(n \div Radix, n % Radix) = n
    /\ \A high, low \in Octet : /\ Number(high, low) \in Nat
                                /\ Digits(Number(high, low)) = <<high, low>>
<1>1. Radix \in Nat /\ Radix > 2
  BY EncodingsAssumption
<1>2. ASSUME NEW n \in Nat
      PROVE  /\ n \div Radix \in Nat /\ n % Radix \in Octet
             /\ Number(n \div Radix, n % Radix) = n
  <2> DEFINE d == n \div Radix
             m == n % Radix
  <2>1. d \in Nat /\ m \in Nat /\ m < Radix /\ n = Radix * d + m
    BY <1>1
  <2>. QED  BY <1>1, <2>1 DEF Number, Octet
<1>3. ASSUME NEW high \in Octet, NEW low \in Octet
      PROVE  Number(high, low) \in Nat /\ Digits(Number(high, low)) = <<high, low>>
  <2> DEFINE n == Number(high, low)
             d == n \div Radix
             m == n % Radix
  <2>1. high \in Nat /\ low \in Nat /\ low < Radix
    BY <1>1 DEF Octet
  <2>2. n = Radix * high + low
    BY DEF Number
  <2>3. n \in Nat /\ d \in Nat /\ m \in Nat /\ m < Radix /\ n = Radix * d + m
    <3>1. n \in Nat
      BY <1>1, <2>1, <2>2
    <3>. HIDE DEF n
    <3>. QED  BY <1>1, <3>1
  <2>. HIDE DEF n
  <2>4. d = high
    <3>. HIDE DEF d, m
    <3>1. CASE d < high
      <4>1. Radix * (d + 1) <= Radix * high
        BY <1>1, <2>1, <2>3, <3>1
      <4>. QED  BY <1>1, <2>1, <2>2, <2>3, <4>1
    <3>2. CASE high < d
      <4>1. Radix * (high + 1) <= Radix * d
        BY <1>1, <2>1, <2>3, <3>2
      <4>. QED  BY <1>1, <2>1, <2>2, <2>3, <4>1
    <3>. QED  BY <2>1, <2>3, <3>1, <3>2
  <2>5. m = low
    <3>. HIDE DEF d, m
    <3>. QED  BY <1>1, <2>1, <2>2, <2>3, <2>4
  <2>. QED  BY <2>3, <2>4, <2>5 DEF Digits, n
<1>. QED  BY <1>2, <1>3

\* A sequence is its parts put together again.
LEMMA ThreeParts ==
    ASSUME NEW S, NEW s \in Seq(S), NEW a \in 0..Len(s), NEW b \in a..Len(s)
    PROVE  SubSeq(s, 1, a) \o SubSeq(s, a + 1, b) \o SubSeq(s, b + 1, Len(s)) = s
<1>1. Len(s) \in Nat /\ a \in Nat /\ b \in Nat /\ a <= b /\ b <= Len(s)
  OBVIOUS
<1>2. 1 \in 1..(Len(s) + 1) /\ a \in (1 - 1)..Len(s) /\ b \in (1 - 1)..Len(s)
      /\ Len(s) \in b..Len(s)
  BY <1>1
<1>3. SubSeq(s, 1, a) \o SubSeq(s, a + 1, b) = SubSeq(s, 1, b)
  BY <1>2, ConcatAdjacentSubSeq
<1>4. SubSeq(s, 1, b) \o SubSeq(s, b + 1, Len(s)) = SubSeq(s, 1, Len(s))
  BY <1>2, ConcatAdjacentSubSeq
<1>. QED  BY <1>3, <1>4, SubSeqFull

\* The shortest parts.
LEMMA ShortParts ==
    ASSUME NEW S, NEW s \in Seq(S)
    PROVE  /\ \A m \in 0..Len(s) : SubSeq(s, m + 1, m) = <<>>
           /\ \A m \in 1..Len(s) : SubSeq(s, m, m) = <<s[m]>>
           /\ \A m \in 1..Len(s), n \in 1..Len(s) :
                 n = m + 1 => SubSeq(s, m, n) = <<s[m], s[n]>>
           /\ Len(s) >= 3 => SubSeq(s, 1, 3) = <<s[1], s[2], s[3]>>
<1>1. ASSUME NEW m \in 0..Len(s) PROVE SubSeq(s, m + 1, m) = <<>>
  <2>1. m \in Int /\ m + 1 \in Int /\ m < m + 1
    OBVIOUS
  <2>. QED  BY <2>1, SubSeqEmpty
<1>2. ASSUME NEW t \in Seq(S), NEW m \in 1..Len(s), NEW n \in m..Len(s), Len(t) = n - m + 1,
             \A i \in 1..Len(t) : t[i] = s[m + i - 1]
      PROVE  SubSeq(s, m, n) = t
  <2>1. m \in Int /\ n \in Int /\ m <= n /\ \A i \in m..n : s[i] \in S
    OBVIOUS
  <2>2. /\ SubSeq(s, m, n) \in Seq(S) /\ Len(SubSeq(s, m, n)) = n - m + 1
        /\ \A i \in 1..(n - m + 1) : SubSeq(s, m, n)[i] = s[m + i - 1]
    BY <2>1, SubSeqProperties
  <2>. QED  BY <1>2, <2>2, SeqEqual
<1>3. ASSUME NEW m \in 1..Len(s) PROVE SubSeq(s, m, m) = <<s[m]>>
  <2> DEFINE t == <<s[m]>>
  <2>1. t \in Seq(S) /\ Len(t) = 1 /\ t[1] = s[m]
    OBVIOUS
  <2>. HIDE DEF t
  <2>2. m \in m..Len(s) /\ Len(t) = m - m + 1 /\ \A i \in 1..Len(t) : t[i] = s[m + i - 1]
    BY <2>1
  <2>. QED  BY <1>2, <2>1, <2>2 DEF t
<1>4. ASSUME NEW m \in 1..Len(s), NEW n \in 1..Len(s), n = m + 1
      PROVE  SubSeq(s, m, n) = <<s[m], s[n]>>
  <2> DEFINE t == <<s[m], s[n]>>
  <2>1. t \in Seq(S) /\ Len(t) = 2 /\ t[1] = s[m] /\ t[2] = s[n]
    OBVIOUS
  <2>. HIDE DEF t
  <2>2. Len(t) = n - m + 1 /\ \A i \in 1..Len(t) : t[i] = s[m + i - 1]
    BY <1>4, <2>1
  <2>3. n \in m..Len(s)
    BY <1>4
  <2>. QED  BY <1>2, <2>1, <2>2, <2>3 DEF t
<1>5. ASSUME Len(s) >= 3 PROVE SubSeq(s, 1, 3) = <<s[1], s[2], s[3]>>
  <2> DEFINE t == <<s[1], s[2], s[3]>>
  <2>1. t \in Seq(S) /\ Len(t) = 3 /\ t[1] = s[1] /\ t[2] = s[2] /\ t[3] = s[3]
    BY <1>5
  <2>. HIDE DEF t
  <2>2. 1 \in 1..Len(s) /\ 3 \in 1..Len(s) /\ Len(t) = 3 - 1 + 1
        /\ \A i \in 1..Len(t) : t[i] = s[1 + i - 1]
    BY <1>5, <2>1
  <2>. QED  BY <1>2, <2>1, <2>2 DEF t
<1>. QED  BY <1>1, <1>3, <1>4, <1>5

\* An APDU whose three fields are the three parts of the octets is written as they are.
LEMMA BodyInParts ==
    ASSUME NEW raw \in Seq(Octet), NEW a, NEW x \in 0..Len(raw), NEW y \in x..Len(raw),
           LcField(a) = SubSeq(raw, 1, x), a.data = SubSeq(raw, x + 1, y),
           LeField(a) = SubSeq(raw, y + 1, Len(raw))
    PROVE  Body(a) = raw
  BY ThreeParts DEF Body

\* What is taken for a short APDU is one.
LEMMA ShortReadAsWritten ==
    ASSUME NEW raw \in Seq(Octet), raw # <<>>, raw[1] # 0,
           NEW a, a = ParseShort(raw), a.ok
    PROVE  Body(a) = raw
<1> DEFINE n == Len(raw)
           lc == raw[1]
           data == SubSeq(raw, 2, 1 + lc)
<1>1. n \in Nat /\ n >= 1 /\ 1 \in 1..n /\ lc \in Nat /\ lc > 0
  <2>1. n \in Nat /\ n >= 1 /\ 1 \in 1..n
    OBVIOUS
  <2>2. lc \in Octet
    BY <2>1, ElementOfSeq
  <2>. QED  BY <2>1, <2>2, EncodingsAssumption DEF Octet
<1>2. ASSUME 1 + lc <= n
      PROVE  data \in Seq(Octet) /\ Len(data) = lc /\ data # <<>> /\ <<Len(data)>> = SubSeq(raw, 1, 1)
  <2>1. data \in Seq(Octet) /\ Len(data) = lc
    BY <1>1, <1>2
  <2>2. data # <<>>
    BY <1>1, <2>1
  <2>. QED  BY <1>1, <2>1, <2>2, ShortParts
<1> DEFINE Alone == Apdu(<<>>, TRUE, lc, FALSE)
           NoLe == Apdu(data, FALSE, 0, FALSE)
           WithLe == Apdu(data, TRUE, raw[n], FALSE)
<1>7. a = CASE n = 1 -> Alone
            [] n = 1 + lc /\ n > 1 -> NoLe
            [] n = 2 + lc -> WithLe
            [] OTHER -> Malformed
  BY DEF ParseShort
<1>8. /\ n = 1 => a = Alone
      /\ n = 1 + lc /\ n > 1 => a = NoLe
      /\ n = 2 + lc => a = WithLe
  <2>. HIDE DEF n, lc, Alone, NoLe, WithLe
  <2>. QED  BY <1>1, <1>7
<1>3. CASE n = 1
  <2>1. a = Apdu(<<>>, TRUE, lc, FALSE)
    BY <1>3, <1>8
  <2>2. LcField(a) = <<>> /\ a.data = <<>> /\ LeField(a) = <<lc>>
    BY <2>1 DEF Apdu, LcField, LeField
  <2>3. SubSeq(raw, 1, 0) = <<>> /\ SubSeq(raw, 1, n) = <<lc>>
    <3>1. 0 \in 0..n /\ 0 + 1 = 1
      BY <1>1
    <3>. QED  BY <1>1, <1>3, <3>1, ShortParts
  <2>4. 0 \in 0..n /\ 0 \in 0..n /\ 0 + 1 = 1
    BY <1>1
  <2>. QED  BY <2>2, <2>3, <2>4, BodyInParts
<1>4. CASE n = 1 + lc /\ n > 1
  <2>1. a = Apdu(data, FALSE, 0, FALSE)
    BY <1>4, <1>8
  <2>2. LcField(a) = SubSeq(raw, 1, 1) /\ a.data = SubSeq(raw, 1 + 1, n) /\ LeField(a) = <<>>
    BY <1>1, <1>2, <1>4, <2>1 DEF Apdu, LcField, LeField
  <2>3. SubSeq(raw, n + 1, n) = <<>> /\ 1 \in 0..n /\ n \in 1..n
    BY <1>1, ShortParts
  <2>. QED  BY <2>2, <2>3, BodyInParts
<1>5. CASE n = 2 + lc
  <2>1. a = Apdu(data, TRUE, raw[n], FALSE)
    BY <1>5, <1>8
  <2>2. LcField(a) = SubSeq(raw, 1, 1) /\ a.data = SubSeq(raw, 1 + 1, 1 + lc)
        /\ LeField(a) = <<raw[n]>>
    BY <1>1, <1>2, <1>5, <2>1 DEF Apdu, LcField, LeField
  <2>3. SubSeq(raw, (1 + lc) + 1, n) = <<raw[n]>>
    <3>1. (1 + lc) + 1 = n /\ n \in 1..n
      BY <1>1, <1>5
    <3>. QED  BY <3>1, ShortParts
  <2>4. 1 \in 0..n /\ 1 + lc \in 1..n
    BY <1>1, <1>5
  <2>. QED  BY <2>2, <2>3, <2>4, BodyInParts
<1>6. CASE ~(n = 1) /\ ~(n = 1 + lc /\ n > 1) /\ ~(n = 2 + lc)
  <2>1. a = Malformed
    BY <1>6 DEF ParseShort
  <2>. QED  BY <2>1 DEF Malformed
<1>. QED  BY <1>3, <1>4, <1>5, <1>6

\* What is taken for an extended APDU is one.
LEMMA ExtendedReadAsWritten ==
    ASSUME NEW raw \in Seq(Octet), raw # <<>>, raw[1] = 0,
           NEW a, a = ParseExtended(raw), a.ok
    PROVE  Body(a) = raw
<1> DEFINE n == Len(raw)
           ext == Number(raw[2], raw[3])
           data == SubSeq(raw, 4, 3 + ext)
<1>1. n \in Nat
  OBVIOUS
<1>2. n >= 3
  <2>1. ASSUME n < 3 PROVE a = Malformed
    <3>1. ~(n = 3) /\ ~(n > 3)
      BY <1>1, <2>1
    <3>. QED  BY <2>1, <3>1 DEF ParseExtended
  <2>. QED  BY <1>1, <2>1 DEF Malformed
<1>3. 1 \in 1..n /\ 2 \in 1..n /\ 3 \in 1..n /\ raw[2] \in Octet /\ raw[3] \in Octet
  BY <1>1, <1>2, ElementOfSeq
<1>4. ext \in Nat /\ Digits(ext) = <<raw[2], raw[3]>>
  BY <1>3, NumberOfDigits
<1>5. <<0>> \o Digits(ext) = SubSeq(raw, 1, 3)
  <2>2. SubSeq(raw, 1, 1) = <<0>> /\ SubSeq(raw, 2, 3) = <<raw[2], raw[3]>>
    BY <1>3, ShortParts
  <2>3. SubSeq(raw, 1, 1) \o SubSeq(raw, 1 + 1, 3) = SubSeq(raw, 1, 3)
    <3>1. 1 \in 1..(n + 1) /\ 1 \in (1 - 1)..n /\ 3 \in 1..n
      BY <1>3
    <3>. QED  BY <3>1, ConcatAdjacentSubSeq
  <2>. QED  BY <1>4, <2>2, <2>3
<1>. HIDE DEF ext
<1>6. ASSUME ext > 0, 3 + ext <= n
      PROVE  data \in Seq(Octet) /\ Len(data) = ext /\ data # <<>>
  <2>1. data \in Seq(Octet) /\ Len(data) = ext
    BY <1>1, <1>4, <1>6
  <2>. QED  BY <1>4, <1>6, <2>1
<1> DEFINE Alone == Apdu(<<>>, TRUE, ext, TRUE)
           NoLe == Apdu(data, FALSE, 0, TRUE)
           WithLe == Apdu(data, TRUE, Number(raw[n - 1], raw[n]), TRUE)
<1>7. a = CASE n < 3 -> Malformed
            [] n = 3 -> Alone
            [] n > 3 /\ ext > 0 /\ n = 3 + ext -> NoLe
            [] n > 3 /\ ext > 0 /\ n = 5 + ext -> WithLe
            [] OTHER -> Malformed
  BY DEF ParseExtended, ext
<1>12. /\ n = 3 => a = Alone
       /\ n > 3 /\ ext > 0 /\ n = 3 + ext => a = NoLe
       /\ n > 3 /\ ext > 0 /\ n = 5 + ext => a = WithLe
       /\ a \in {Alone, NoLe, WithLe, Malformed}
  <2>. HIDE DEF n, Alone, NoLe, WithLe
  <2>. QED  BY <1>1, <1>4, <1>7
<1>8. CASE n = 3
  <2>1. a = Apdu(<<>>, TRUE, ext, TRUE)
    BY <1>8, <1>12
  <2>2. LcField(a) = <<>> /\ a.data = <<>> /\ LeField(a) = <<0>> \o Digits(ext)
    BY <2>1 DEF Apdu, LcField, LeField
  <2>3. SubSeq(raw, 1, 0) = <<>>
    <3>1. 0 \in 0..n /\ 0 + 1 = 1
      BY <1>1
    <3>. QED  BY <3>1, ShortParts
  <2>4. 0 \in 0..n /\ 0 + 1 = 1
    BY <1>1
  <2>. QED  BY <1>5, <1>8, <2>2, <2>3, <2>4, BodyInParts
<1>9. CASE n > 3 /\ ext > 0 /\ n = 3 + ext
  <2>1. a = Apdu(data, FALSE, 0, TRUE)
    BY <1>9, <1>12
  <2>2. data # <<>> /\ Len(data) = ext /\ 3 \in 0..n /\ n \in 3..n
    BY <1>1, <1>4, <1>6, <1>9
  <2>3. LcField(a) = SubSeq(raw, 1, 3) /\ a.data = data /\ LeField(a) = <<>>
    <3>. HIDE DEF data
    <3>1. a.data = data /\ LeField(a) = <<>>
      BY <2>1 DEF Apdu, LeField
    <3>2. LcField(a) = <<0>> \o Digits(Len(data))
      BY <2>1, <2>2 DEF Apdu, LcField
    <3>. QED  BY <1>5, <2>2, <3>1, <3>2
  <2>4. SubSeq(raw, n + 1, n) = <<>> /\ data = SubSeq(raw, 3 + 1, n)
    BY <1>1, <1>9, ShortParts
  <2>. QED  BY <2>2, <2>3, <2>4, BodyInParts
<1>10. CASE n > 3 /\ ext > 0 /\ n = 5 + ext
  <2> DEFINE le == Number(raw[n - 1], raw[n])
  <2>1. a = Apdu(data, TRUE, le, TRUE)
    BY <1>10, <1>12
  <2>2. data # <<>> /\ Len(data) = ext /\ 3 \in 0..n /\ 3 + ext \in 3..n
    BY <1>1, <1>4, <1>6, <1>10
  <2>3. n - 1 \in 1..n /\ n \in 1..n /\ n = (n - 1) + 1 /\ (3 + ext) + 1 = n - 1
    BY <1>1, <1>10, <1>4
  <2>4. Digits(le) = <<raw[n - 1], raw[n]>>
    <3>1. raw[n - 1] \in Octet /\ raw[n] \in Octet
      BY <2>3, ElementOfSeq
    <3>. QED  BY <3>1, NumberOfDigits
  <2>. HIDE DEF le
  <2>5. LcField(a) = SubSeq(raw, 1, 3) /\ a.data = SubSeq(raw, 3 + 1, 3 + ext) /\ LeField(a) = Digits(le)
    <3>1. data = SubSeq(raw, 3 + 1, 3 + ext)
      OBVIOUS
    <3>. HIDE DEF data
    <3>2. a.data = data
      BY <2>1 DEF Apdu
    <3>3. LeField(a) = Digits(le)
      BY <2>1, <2>2 DEF Apdu, LeField
    <3>4. LcField(a) = <<0>> \o Digits(Len(data))
      BY <2>1, <2>2 DEF Apdu, LcField
    <3>. QED  BY <1>5, <2>2, <3>1, <3>2, <3>3, <3>4
  <2>6. SubSeq(raw, (3 + ext) + 1, n) = <<raw[n - 1], raw[n]>>
    BY <2>3, ShortParts
  <2>. QED  BY <2>2, <2>4, <2>5, <2>6, BodyInParts
<1>11. CASE /\ ~(n = 3) /\ ~(n > 3 /\ ext > 0 /\ n = 3 + ext)
            /\ ~(n > 3 /\ ext > 0 /\ n = 5 + ext)
  <2>1. a = Malformed
    BY <1>7, <1>11
  <2>. QED  BY <2>1 DEF Malformed
<1>. QED  BY <1>8, <1>9, <1>10, <1>11

\* Octets are numbers.
LEMMA OctetsAreNumbers ==
    /\ Octet \subseteq Nat
    /\ \A s \in Seq(Octet) : s \in Seq(Nat) /\ Len(s) \in Nat /\ (s # <<>> <=> Len(s) > 0)
<1>1. Octet \subseteq Nat
  BY EncodingsAssumption DEF Octet
<1>2. ASSUME NEW s \in Seq(Octet) PROVE s \in Seq(Nat)
  BY <1>1, SeqMonotonic
<1>3. ASSUME NEW s \in Seq(Octet) PROVE Len(s) \in Nat /\ (s # <<>> <=> Len(s) > 0)
  OBVIOUS
<1>. QED  BY <1>1, <1>2, <1>3

\* The octets of three parts.
LEMMA ConcatThree ==
    ASSUME NEW S, NEW u \in Seq(S), NEW v \in Seq(S), NEW w \in Seq(S)
    PROVE  /\ Len(u \o v \o w) = Len(u) + Len(v) + Len(w)
           /\ \A i \in 1..Len(u) : (u \o v \o w)[i] = u[i]
<1>1. /\ u \o v \in Seq(S) /\ Len(u \o v) = Len(u) + Len(v)
      /\ \A i \in 1..Len(u) : (u \o v)[i] = u[i]
  BY ConcatProperties
<1>2. Len((u \o v) \o w) = Len(u \o v) + Len(w)
  BY <1>1, ConcatProperties
<1>3. \A i \in 1..Len(u) : ((u \o v) \o w)[i] = (u \o v)[i]
  BY <1>1, ConcatProperties
<1>. QED  BY <1>1, <1>2, <1>3

\* A field of an extended APDU in which a number follows a zero.
LEMMA ZeroAndDigits ==
    ASSUME NEW n \in Nat, NEW x, x = << 0 >> \o Digits(n)
    PROVE  /\ x \in Seq(Nat) /\ Len(x) = 3
           /\ x[1] = 0 /\ Number(x[2], x[3]) = n
<1> DEFINE d == n \div Radix
           m == n % Radix
<1>1. d \in Nat /\ m \in Nat /\ Number(d, m) = n
  BY NumberOfDigits, EncodingsAssumption DEF Octet
<1>2. Digits(n) = <<d, m>>
  BY DEF Digits
<1>. HIDE DEF d, m
<1>3. x = <<0>> \o <<d, m>> /\ <<0>> \in Seq(Nat) /\ <<d, m>> \in Seq(Nat)
  BY <1>1, <1>2
<1> DEFINE zero == <<0>>
           digits == <<d, m>>
<1>4. /\ zero \in Seq(Nat) /\ Len(zero) = 1 /\ zero[1] = 0
      /\ digits \in Seq(Nat) /\ Len(digits) = 2 /\ digits[1] = d /\ digits[2] = m
      /\ x = zero \o digits
  BY <1>1, <1>3
<1>. HIDE DEF zero, digits
<1>7. /\ zero \o digits \in Seq(Nat) /\ Len(zero \o digits) = Len(zero) + Len(digits)
      /\ \A i \in 1..(Len(zero) + Len(digits)) :
            (zero \o digits)[i] = IF i <= Len(zero) THEN zero[i] ELSE digits[i - Len(zero)]
  <2>1. zero \in Seq(Nat) /\ digits \in Seq(Nat)
    BY <1>4
  <2>. QED  BY <2>1, ConcatProperties
<1>5. /\ x \in Seq(Nat) /\ Len(x) = 1 + 2
      /\ \A i \in 1..(1 + 2) : x[i] = IF i <= 1 THEN zero[i] ELSE digits[i - 1]
  BY <1>4, <1>7
<1>6. Len(x) = 3 /\ x[1] = 0 /\ x[2] = d /\ x[3] = m
  <2>1. 1 \in 1..(1 + 2) /\ 2 \in 1..(1 + 2) /\ 3 \in 1..(1 + 2) /\ ~(2 <= 1) /\ ~(3 <= 1)
    OBVIOUS
  <2>2. x[2] = digits[2 - 1] /\ x[3] = digits[3 - 1] /\ x[1] = zero[1]
    BY <1>5, <2>1
  <2>. QED  BY <1>4, <1>5, <2>2
<1>. QED  BY <1>1, <1>5, <1>6

\* No short APDU that begins with its Lc or its Le is refused.
LEMMA ShortAccepted ==
    ASSUME NEW raw \in Seq(Octet), raw # <<>>, raw[1] # 0,
           Len(raw) \in {1, 1 + raw[1], 2 + raw[1]}
    PROVE  ParseApdu(raw).ok
<1> DEFINE n == Len(raw)
           lc == raw[1]
           Alone == Apdu(<<>>, TRUE, lc, FALSE)
           NoLe == Apdu(SubSeq(raw, 2, 1 + lc), FALSE, 0, FALSE)
           WithLe == Apdu(SubSeq(raw, 2, 1 + lc), TRUE, raw[n], FALSE)
<1>1. n \in Nat /\ n >= 1 /\ lc \in Nat /\ lc > 0
  <2>1. n \in Nat /\ n >= 1 /\ 1 \in 1..n
    OBVIOUS
  <2>2. lc \in Octet
    BY <2>1, ElementOfSeq
  <2>. QED  BY <2>1, <2>2, EncodingsAssumption DEF Octet
<1>2. ParseApdu(raw) =
        CASE n = 1 -> Alone
          [] n = 1 + lc /\ n > 1 -> NoLe
          [] n = 2 + lc -> WithLe
          [] OTHER -> Malformed
  <2>1. ParseApdu(raw) = ParseShort(raw)
    BY DEF ParseApdu
  <2>. QED  BY <2>1 DEF ParseShort
<1>3. n \in {1, 1 + lc, 2 + lc}
  OBVIOUS
<1>4. Alone.ok /\ NoLe.ok /\ WithLe.ok
  BY DEF Apdu
<1>5. ParseApdu(raw) \in {Alone, NoLe, WithLe}
  <2>. HIDE DEF n, lc, Alone, NoLe, WithLe
  <2>. QED  BY <1>1, <1>2, <1>3
<1>. HIDE DEF Alone, NoLe, WithLe
<1>. QED  BY <1>4, <1>5

\* No extended APDU is refused.
LEMMA ExtendedAccepted ==
    ASSUME NEW raw \in Seq(Octet), raw # <<>>, raw[1] = 0, NEW ext \in Nat,
           ext = Number(raw[2], raw[3]),
           Len(raw) = 3 \/ (ext > 0 /\ Len(raw) \in {3 + ext, 5 + ext})
    PROVE  ParseApdu(raw).ok
<1> DEFINE n == Len(raw)
           Alone == Apdu(<<>>, TRUE, ext, TRUE)
           NoLe == Apdu(SubSeq(raw, 4, 3 + ext), FALSE, 0, TRUE)
           WithLe == Apdu(SubSeq(raw, 4, 3 + ext), TRUE, Number(raw[n - 1], raw[n]), TRUE)
<1>1. n \in Nat
  OBVIOUS
<1>2. ParseApdu(raw) =
        CASE n < 3 -> Malformed
          [] n = 3 -> Alone
          [] n > 3 /\ ext > 0 /\ n = 3 + ext -> NoLe
          [] n > 3 /\ ext > 0 /\ n = 5 + ext -> WithLe
          [] OTHER -> Malformed
  <2>1. ParseApdu(raw) = ParseExtended(raw)
    BY DEF ParseApdu
  <2>. QED  BY <2>1 DEF ParseExtended
<1>3. n = 3 \/ (ext > 0 /\ n \in {3 + ext, 5 + ext})
  OBVIOUS
<1>4. Alone.ok /\ NoLe.ok /\ WithLe.ok
  BY DEF Apdu
<1>5. ParseApdu(raw) \in {Alone, NoLe, WithLe}
  <2>. HIDE DEF n, Alone, NoLe, WithLe
  <2>. QED  BY <1>1, <1>2, <1>3
<1>. HIDE DEF Alone, NoLe, WithLe
<1>. QED  BY <1>4, <1>5

\* The one short APDU that is refused.
LEMMA RefusedShort ==
    ASSUME NEW raw \in Seq(Octet), NEW data \in Seq(Octet), NEW has_le \in BOOLEAN, NEW le \in Nat,
           Body(Apdu(data, has_le, le, FALSE)) = raw, ~ParseApdu(raw).ok
    PROVE  Apdu(data, has_le, le, FALSE) = Apdu(<<>>, TRUE, 0, FALSE)
<1>1. data \in Seq(Nat) /\ Len(data) \in Nat /\ (data # <<>> => Len(data) > 0)
  BY OctetsAreNumbers
<1> DEFINE Lc == IF data = <<>> THEN <<>> ELSE <<Len(data)>>
           Le == IF has_le THEN <<le>> ELSE <<>>
<1>2. raw = Lc \o data \o Le
  BY DEF Body, LcField, LeField, Apdu
<1>3. Lc \in Seq(Nat) /\ Le \in Seq(Nat)
  BY <1>1
<1>4. Len(raw) = Len(Lc) + Len(data) + Len(Le) /\ \A i \in 1..Len(Lc) : raw[i] = Lc[i]
  <2>. HIDE DEF Lc, Le
  <2>. QED  BY <1>1, <1>2, <1>3, ConcatThree
<1>5. data = <<>>
  <2>. SUFFICES ASSUME data # <<>> PROVE FALSE
    OBVIOUS
  <2>1. Len(data) > 0 /\ Len(Lc) = 1 /\ Lc[1] = Len(data) /\ Len(Le) \in {0, 1}
    BY <1>1
  <2>. HIDE DEF Lc, Le
  <2>2. raw[1] = Len(data)
    <3>1. 1 \in 1..Len(Lc)
      BY <2>1
    <3>. QED  BY <1>4, <2>1, <3>1
  <2>4. Len(raw) \in {1 + Len(data), 2 + Len(data)}
    <3>1. Len(raw) = 1 + Len(data) + Len(Le) /\ (Len(Le) = 0 \/ Len(Le) = 1)
      BY <1>4, <2>1
    <3>2. Len(Le) = 0 => Len(raw) = 1 + Len(data)
      BY <1>1, <3>1
    <3>3. Len(Le) = 1 => Len(raw) = 2 + Len(data)
      BY <1>1, <3>1
    <3>. QED  BY <3>1, <3>2, <3>3
  <2>3. raw # <<>> /\ raw[1] # 0 /\ Len(raw) \in {1, 1 + raw[1], 2 + raw[1]}
    BY <1>1, <2>1, <2>2, <2>4
  <2>. QED  BY <2>3, ShortAccepted
<1>6. has_le
  <2>. SUFFICES ASSUME ~has_le PROVE FALSE
    OBVIOUS
  <2>1. raw = <<>>
    BY <1>2, <1>5
  <2>2. ParseApdu(raw) = Apdu(<<>>, FALSE, 0, FALSE)
    BY <2>1 DEF ParseApdu
  <2>. QED  BY <2>2 DEF Apdu
<1>7. le = 0
  <2>. SUFFICES ASSUME le # 0 PROVE FALSE
    OBVIOUS
  <2>1. raw = <<le>>
    BY <1>2, <1>5, <1>6
  <2>2. raw # <<>> /\ raw[1] # 0 /\ Len(raw) = 1
    BY <2>1
  <2>. QED  BY <2>2, ShortAccepted
<1>. QED  BY <1>5, <1>6, <1>7

\* No octets that an extended APDU is written as are refused.
LEMMA RefusedExtended ==
    ASSUME NEW raw \in Seq(Octet), NEW data \in Seq(Octet), NEW has_le \in BOOLEAN, NEW le \in Nat,
           Body(Apdu(data, has_le, le, TRUE)) = raw, has_le \/ data # <<>>
    PROVE  ParseApdu(raw).ok
<1>1. data \in Seq(Nat) /\ Len(data) \in Nat /\ (data # <<>> => Len(data) > 0)
  BY OctetsAreNumbers
<1>2. CASE data = <<>>
  <2>1. raw = <<>> \o <<>> \o (<<0>> \o Digits(le))
    BY <1>2 DEF Body, LcField, LeField, Apdu
  <2> DEFINE x == <<0>> \o Digits(le)
  <2>2. x \in Seq(Nat) /\ Len(x) = 3 /\ x[1] = 0 /\ Number(x[2], x[3]) = le
    BY ZeroAndDigits
  <2>. HIDE DEF x
  <2>3. raw = x
    BY <2>1, <2>2 DEF x
  <2>4. raw # <<>>
    <3>1. Len(raw) = 3 /\ (raw # <<>> <=> Len(raw) > 0)
      BY <2>2, <2>3, OctetsAreNumbers
    <3>. QED  BY <3>1
  <2>. QED  BY <2>2, <2>3, <2>4, ExtendedAccepted
<1>3. CASE data # <<>>
  <2> DEFINE Lc == <<0>> \o Digits(Len(data))
             Le == IF has_le THEN Digits(le) ELSE <<>>
  <2>1. raw = Lc \o data \o Le
    BY <1>3 DEF Body, LcField, LeField, Apdu
  <2>2. Lc \in Seq(Nat) /\ Len(Lc) = 3 /\ Lc[1] = 0 /\ Number(Lc[2], Lc[3]) = Len(data)
    BY <1>1, ZeroAndDigits
  <2>3. Le \in Seq(Nat) /\ Len(Le) \in {0, 2}
    <3>1. le \div Radix \in Nat /\ le % Radix \in Nat
      BY NumberOfDigits, OctetsAreNumbers
    <3>. QED  BY <3>1 DEF Digits
  <2>. HIDE DEF Lc, Le
  <2>4. Len(raw) = 3 + Len(data) + Len(Le) /\ \A i \in 1..3 : raw[i] = Lc[i]
    <3>1. Len(raw) = Len(Lc) + Len(data) + Len(Le) /\ \A i \in 1..Len(Lc) : raw[i] = Lc[i]
      <4>1. Lc \in Seq(Nat) /\ data \in Seq(Nat) /\ Le \in Seq(Nat)
        BY <1>1, <2>2, <2>3
      <4>. QED  BY <2>1, <4>1, ConcatThree
    <3>. QED  BY <2>2, <3>1
  <2>5. /\ raw # <<>> /\ raw[1] = 0 /\ Len(data) = Number(raw[2], raw[3])
        /\ Len(data) > 0 /\ Len(raw) \in {3 + Len(data), 5 + Len(data)}
    <3>1. 1 \in 1..3 /\ 2 \in 1..3 /\ 3 \in 1..3
      OBVIOUS
    <3>2. raw[1] = Lc[1] /\ raw[2] = Lc[2] /\ raw[3] = Lc[3]
      BY <2>4, <3>1
    <3>3. Len(data) > 0 /\ Len(raw) \in {3 + Len(data), 5 + Len(data)} /\ Len(raw) > 0
      <4>1. Len(raw) = 3 + Len(data) + Len(Le) /\ (Len(Le) = 0 \/ Len(Le) = 2)
        BY <2>3, <2>4
      <4>2. Len(data) > 0
        BY <1>1, <1>3
      <4>3. Len(Le) = 0 => Len(raw) = 3 + Len(data)
        BY <1>1, <4>1
      <4>4. Len(Le) = 2 => Len(raw) = 5 + Len(data)
        BY <1>1, <4>1
      <4>5. Len(raw) > 0
        BY <1>1, <4>1
      <4>. QED  BY <4>1, <4>2, <4>3, <4>4, <4>5
    <3>4. raw # <<>>
      <4>1. raw # <<>> <=> Len(raw) > 0
        BY OctetsAreNumbers
      <4>. QED  BY <3>3, <4>1
    <3>. QED  BY <2>2, <3>2, <3>3, <3>4
  <2>. QED  BY <1>1, <2>5, ExtendedAccepted
<1>. QED  BY <1>2, <1>3
\* The APDUs that are compared with the octets.
LEMMA FormsAreApdus ==
    ASSUME NEW raw \in Seq(Octet), NEW a \in Forms(raw)
    PROVE  /\ Body(a) = raw
           /\ \E data \in Seq(Octet), has_le \in BOOLEAN, le \in Nat :
                 \/ a = Apdu(data, has_le, le, FALSE)
                 \/ /\ a = Apdu(data, has_le, le, TRUE)
                    /\ has_le \/ data # <<>>
<1> DEFINE n == Len(raw)
<1>1. n \in Nat
  OBVIOUS
<1>2. /\ Body(a) = raw
      /\ a \in ShortForms(raw) \/ (a \in ExtendedForms(raw) /\ (a.has_le \/ a.data # <<>>))
  BY DEF Forms
<1>3. Ends(raw) \subseteq Nat
  <2>1. ASSUME n > 0 PROVE raw[n] \in Nat
    <3>1. n \in 1..n
      BY <1>1, <2>1
    <3>. QED  BY <3>1, ElementOfSeq, OctetsAreNumbers
  <2>2. ASSUME n > 1 PROVE Number(raw[n - 1], raw[n]) \in Nat
    <3>1. n - 1 \in 1..n /\ n \in 1..n
      BY <1>1, <2>2
    <3>2. raw[n - 1] \in Octet /\ raw[n] \in Octet
      BY <3>1, ElementOfSeq
    <3>. QED  BY <3>2, NumberOfDigits
  <2>. QED  BY <2>1, <2>2 DEF Ends
<1>4. ASSUME NEW from \in Int, NEW len \in Int, from >= 1, from - 1 + len <= n
      PROVE  SubSeq(raw, from, from - 1 + len) \in Seq(Octet)
  <2>1. \A i \in from..(from - 1 + len) : raw[i] \in Octet
    <3>1. \A i \in from..(from - 1 + len) : i \in 1..n
      BY <1>1, <1>4
    <3>. QED  BY <3>1, ElementOfSeq
  <2>. QED  BY <1>4, <2>1, SubSeqProperties
<1>5. CASE a \in ShortForms(raw)
  <2>1. PICK len \in 0..(n - 1), has_le \in BOOLEAN, le \in Ends(raw) :
            a = Apdu(SubSeq(raw, 2, 1 + len), has_le, le, FALSE)
    BY <1>5, SMT DEF ShortForms, Apdu
  <2>2. SubSeq(raw, 2, 1 + len) \in Seq(Octet)
    <3>1. len \in Int /\ 2 - 1 + len <= n /\ 2 - 1 + len = 1 + len
      BY <1>1
    <3>2. SubSeq(raw, 2, 2 - 1 + len) \in Seq(Octet)
      BY <1>4, <3>1
    <3>. QED  BY <3>1, <3>2
  <2>3. le \in Nat
    BY <1>3
  <2>. QED  BY <1>2, <2>1, <2>2, <2>3, Zenon
<1>6. CASE a \in ExtendedForms(raw) /\ (a.has_le \/ a.data # <<>>)
  <2>1. PICK len \in 0..(n - 3), has_le \in BOOLEAN, le \in Ends(raw) :
            a = Apdu(SubSeq(raw, 4, 3 + len), has_le, le, TRUE)
    BY <1>6, SMT DEF ExtendedForms, Apdu
  <2>2. SubSeq(raw, 4, 3 + len) \in Seq(Octet)
    <3>1. len \in Int /\ 4 - 1 + len <= n /\ 4 - 1 + len = 3 + len
      BY <1>1
    <3>2. SubSeq(raw, 4, 4 - 1 + len) \in Seq(Octet)
      BY <1>4, <3>1
    <3>. QED  BY <3>1, <3>2
  <2>3. a.has_le = has_le /\ a.data = SubSeq(raw, 4, 3 + len)
    BY <2>1 DEF Apdu
  <2>4. has_le \/ SubSeq(raw, 4, 3 + len) # <<>>
    BY <1>6, <2>3
  <2>5. le \in Nat
    BY <1>3
  <2>. QED  BY <1>2, <2>1, <2>2, <2>4, <2>5, Zenon
<1>. QED  BY <1>2, <1>5, <1>6, Zenon

\* What is accepted is what these octets are, and of what is not accepted only the body
\* that is the Le for the longest short response is an APDU.
LEMMA ParsedAsWritten ==
    ASSUME NEW raw \in Seq(Octet)
    PROVE  IF ParseApdu(raw).ok THEN Body(ParseApdu(raw)) = raw
           ELSE Forms(raw) \subseteq {Apdu(<<>>, TRUE, 0, FALSE)}
<1>1. ASSUME ParseApdu(raw).ok PROVE Body(ParseApdu(raw)) = raw
  <2>1. CASE raw = <<>>
    <3>1. ParseApdu(raw) = Apdu(<<>>, FALSE, 0, FALSE)
      BY <2>1 DEF ParseApdu
    <3>2. Body(ParseApdu(raw)) = <<>> \o <<>> \o <<>>
      BY <3>1 DEF Body, LcField, LeField, Apdu
    <3>. QED  BY <2>1, <3>2
  <2>2. CASE raw # <<>> /\ raw[1] # 0
    <3>1. ParseApdu(raw) = ParseShort(raw)
      BY <2>2 DEF ParseApdu
    <3>. QED  BY <1>1, <2>2, <3>1, ShortReadAsWritten
  <2>3. CASE raw # <<>> /\ raw[1] = 0
    <3>1. ParseApdu(raw) = ParseExtended(raw)
      BY <2>3 DEF ParseApdu
    <3>. QED  BY <1>1, <2>3, <3>1, ExtendedReadAsWritten
  <2>. QED  BY <2>1, <2>2, <2>3
<1>2. ASSUME ~ParseApdu(raw).ok, NEW a \in Forms(raw)
      PROVE  a = Apdu(<<>>, TRUE, 0, FALSE)
  <2>1. PICK data \in Seq(Octet), has_le \in BOOLEAN, le \in Nat :
            \/ a = Apdu(data, has_le, le, FALSE)
            \/ a = Apdu(data, has_le, le, TRUE) /\ (has_le \/ data # <<>>)
    BY FormsAreApdus
  <2>2. Body(a) = raw
    BY FormsAreApdus
  <2>3. CASE a = Apdu(data, has_le, le, FALSE)
    BY <1>2, <2>2, <2>3, RefusedShort
  <2>4. CASE a = Apdu(data, has_le, le, TRUE) /\ (has_le \/ data # <<>>)
    <3>1. Body(Apdu(data, has_le, le, TRUE)) = raw
      BY <2>2, <2>4
    <3>. QED  BY <1>2, <2>4, <3>1, RefusedExtended
  <2>. QED  BY <2>1, <2>3, <2>4
<1>. QED  BY <1>1, <1>2

\* ApduReadAsWritten: nfc_parse_apdu reads what it accepts as the sender has written it,
\* and refuses no APDU but the one whose body is a single zero, for any radix and length.
THEOREM ApduIsReadAsWritten == Spec => []ApduReadAsWritten
<1>1. IInv => ApduReadAsWritten
  <2>. SUFFICES ASSUME IInv, Returned("parse_apdu")
                PROVE  IF result.ok THEN Body(result) = call.arg
                       ELSE Forms(call.arg) \subseteq {Apdu(<<>>, TRUE, 0, FALSE)}
    BY DEF ApduReadAsWritten
  <2>1. result = ParseApdu(call.arg)
    BY DEF IInv
  <2>2. call.arg \in UpTo(Octet, MaxBody) /\ MaxBody \in Nat
    BY ArgumentType, EncodingsAssumption DEF IInv, Returned
  <2>3. call.arg \in Seq(Octet)
    BY <2>2, ArgumentIsSequence
  <2>. QED  BY <2>1, <2>3, ParsedAsWritten
<1>. QED  BY <1>1, Invariance, PTL
-----------------------------------------------------------------------------
(* The ASN.1 form of a signature. *)

\* The octets that the loop over the leading zeros passes.
LEMMA LeadingZerosCounted ==
    ASSUME NEW x \in [1..Width -> Octet], NEW z, z = LeadingZeros(x)
    PROVE  /\ z \in 0..Width
           /\ \A i \in 1..z : x[i] = 0
           /\ z < Width => x[z + 1] # 0
<1> DEFINE P(k) == (\A i \in 1..k : x[i] = 0) /\ (k < Width => x[k + 1] # 0)
<1>1. \E k \in 0..Width : P(k)
  <2>1. CASE \A i \in 1..Width : x[i] = 0
    <3>1. Width \in 0..Width /\ ~(Width < Width)
      BY EncodingsAssumption
    <3>. QED  BY <2>1, <3>1
  <2>2. CASE \E i \in 1..Width : x[i] # 0
    <3> DEFINE T == {i \in 1..Width : x[i] # 0}
    <3>1. T \subseteq Nat /\ T # {}
      BY <2>2, EncodingsAssumption
    <3>2. PICK m \in T : \A j \in T : m <= j
      BY <3>1, LeastNumber
    <3>3. m \in 1..Width /\ x[m] # 0
      BY <3>2
    <3>4. \A i \in 1..(m - 1) : x[i] = 0
      <4>. SUFFICES ASSUME NEW i \in 1..(m - 1), x[i] # 0 PROVE FALSE
        OBVIOUS
      <4>1. i \in 1..Width /\ ~(m <= i)
        BY <3>3, EncodingsAssumption
      <4>2. i \in T
        BY <4>1
      <4>. QED  BY <3>2, <4>1, <4>2
    <3>5. m - 1 \in 0..Width /\ (m - 1) + 1 = m
      BY <3>3, EncodingsAssumption
    <3>6. P(m - 1)
      BY <3>3, <3>4, <3>5
    <3>. QED  BY <3>5, <3>6
  <2>. QED  BY <2>1, <2>2
<1>2. z = CHOOSE k \in 0..Width : P(k)
  BY DEF LeadingZeros
<1>3. z \in 0..Width /\ P(z)
  <2>. HIDE DEF P
  <2>. QED  BY <1>1, <1>2
<1>. QED  BY <1>3

\* An octet without its first bit, and one of zero.
LEMMA ZeroIsNotHigh == 0 \in Octet /\ ~High(0)
  BY EncodingsAssumption DEF Octet, High

\* The octets after those that are skipped.
LEMMA AfterSkipped ==
    ASSUME NEW x \in [1..Width -> Octet], NEW from \in 1..Width,
           NEW s, s = SubSeq(x, from, Width)
    PROVE  /\ s \in Seq(Octet) /\ Len(s) = Width - from + 1
           /\ \A i \in 1..(Width - from + 1) : s[i] = x[from + i - 1]
<1>1. Width \in Int /\ from \in Int /\ from <= Width
  BY EncodingsAssumption
<1>2. \A i \in from..Width : x[i] \in Octet
  BY <1>1
<1>. QED  BY <1>1, <1>2, SubSeqProperties

\* A concatenation has the octets of the first, then those of the second.
LEMMA Appended ==
    ASSUME NEW S, NEW u \in Seq(S), NEW v \in Seq(S), NEW s, s = u \o v
    PROVE  /\ s \in Seq(S) /\ Len(s) = Len(u) + Len(v)
           /\ \A i \in 1..Len(u) : s[i] = u[i]
           /\ \A i \in 1..Len(v) : s[Len(u) + i] = v[i]
<1>1. /\ s \in Seq(S) /\ Len(s) = Len(u) + Len(v)
      /\ \A i \in 1..(Len(u) + Len(v)) : s[i] = IF i <= Len(u) THEN u[i] ELSE v[i - Len(u)]
  BY ConcatProperties
<1>2. Len(u) \in Nat /\ Len(v) \in Nat
  OBVIOUS
<1>3. ASSUME NEW i \in 1..Len(u) PROVE s[i] = u[i]
  <2>1. i \in 1..(Len(u) + Len(v)) /\ i <= Len(u)
    BY <1>2
  <2>. QED  BY <1>1, <2>1
<1>4. ASSUME NEW i \in 1..Len(v) PROVE s[Len(u) + i] = v[i]
  <2>1. /\ Len(u) + i \in 1..(Len(u) + Len(v)) /\ ~(Len(u) + i <= Len(u))
        /\ (Len(u) + i) - Len(u) = i
    BY <1>2
  <2>. QED  BY <1>1, <2>1
<1>. QED  BY <1>1, <1>3, <1>4

\* The integer of a half that begins with a high octet has a zero before it.
LEMMA HighStandsFor ==
    ASSUME NEW x \in [1..Width -> Octet], High(x[1])
    PROVE  Integer(x) \in Seq(Octet) /\ StandsFor(Integer(x), x)
<1>1. 1 \in 1..Width /\ Width \in Nat /\ Width >= 1
  BY EncodingsAssumption
<1>2. x[1] # 0
  BY ZeroIsNotHigh
<1>3. LeadingZeros(x) = 0
  <2>1. /\ LeadingZeros(x) \in 0..Width
        /\ \A i \in 1..LeadingZeros(x) : x[i] = 0
    BY LeadingZerosCounted
  <2>2. LeadingZeros(x) > 0 => 1 \in 1..LeadingZeros(x)
    BY <2>1
  <2>. QED  BY <1>2, <2>1, <2>2
<1> DEFINE s == SubSeq(x, 1, Width)
           o == <<0>> \o s
<1>4. Integer(x) = o
  <2>1. ~(0 = Width \/ (0 > 0 /\ High(x[0 + 1]))) /\ 0 + 1 = 1
    BY <1>1
  <2>. QED  BY <1>3, <2>1 DEF Integer
<1>5. s \in Seq(Octet) /\ Len(s) = Width /\ \A i \in 1..Width : s[i] = x[i]
  <2>1. /\ s \in Seq(Octet) /\ Len(s) = Width - 1 + 1
        /\ \A i \in 1..(Width - 1 + 1) : s[i] = x[1 + i - 1]
    BY <1>1, AfterSkipped
  <2>2. Width - 1 + 1 = Width /\ \A i \in 1..Width : 1 + i - 1 = i
    BY <1>1
  <2>. QED  BY <2>1, <2>2
<1>6. <<0>> \in Seq(Octet) /\ Len(<<0>>) = 1 /\ <<0>>[1] = 0
  BY ZeroIsNotHigh
<1>. HIDE DEF s
<1>7. /\ o \in Seq(Octet) /\ Len(o) = Width + 1
      /\ o[1] = 0 /\ \A i \in 1..Width : o[1 + i] = x[i]
  <2>1. /\ o \in Seq(Octet) /\ Len(o) = Len(<<0>>) + Len(s)
        /\ \A i \in 1..Len(<<0>>) : o[i] = <<0>>[i]
        /\ \A i \in 1..Len(s) : o[Len(<<0>>) + i] = s[i]
    BY <1>5, <1>6, Appended
  <2>2. 1 \in 1..Len(<<0>>) /\ 1 + Width = Width + 1
    BY <1>1, <1>6
  <2>. QED  BY <1>5, <1>6, <2>1, <2>2
<1>. HIDE DEF o
<1>8. Len(o) \in 1..(Width + 1) /\ 1 + 1 = 2
  BY <1>1, <1>7
<1>9. o[2] = x[1]
  BY <1>1, <1>7, <1>8
<1>10. ASSUME NEW i \in 1..Width
       PROVE  x[i] = IF i + Len(o) - Width >= 1 THEN o[i + Len(o) - Width] ELSE 0
  <2>1. i + Len(o) - Width = 1 + i /\ 1 + i >= 1
    BY <1>1, <1>7
  <2>. QED  BY <1>7, <2>1
<1>11. StandsFor(o, x)
  BY <1>7, <1>8, <1>9, <1>10, ZeroIsNotHigh DEF StandsFor
<1>. QED  BY <1>4, <1>7, <1>11

\* The integer of any other half is what is left of it after the octets that are skipped.
LEMMA LowStandsFor ==
    ASSUME NEW x \in [1..Width -> Octet], ~High(x[1])
    PROVE  Integer(x) \in Seq(Octet) /\ StandsFor(Integer(x), x)
<1> DEFINE z == LeadingZeros(x)
           skipped == IF z = Width \/ (z > 0 /\ High(x[z + 1])) THEN z - 1 ELSE z
           o == SubSeq(x, skipped + 1, Width)
<1>1. Width \in Nat /\ Width >= 1
  BY EncodingsAssumption
<1>2. z \in 0..Width /\ (\A i \in 1..z : x[i] = 0) /\ (z < Width => x[z + 1] # 0)
  BY LeadingZerosCounted
<1>3. Integer(x) = o
  <2>1. Integer(x) = <<>> \o o
    BY DEF Integer
  <2>2. o \in Seq(Octet)
    <3>1. skipped + 1 \in 1..Width
      <4>. HIDE DEF z
      <4>. QED  BY <1>1, <1>2
    <3>. QED  BY <3>1, AfterSkipped
  <2>. HIDE DEF o
  <2>. QED  BY <2>1, <2>2, ConcatEmptySeq
<1>. HIDE DEF z
<1>4. skipped \in 0..(Width - 1) /\ skipped <= z
  BY <1>1, <1>2
<1>5. /\ z = Width => skipped = Width - 1
      /\ z < Width /\ z > 0 /\ High(x[z + 1]) => skipped = z - 1
      /\ z < Width /\ ~(z > 0 /\ High(x[z + 1])) => skipped = z
  BY <1>1, <1>2
<1>. HIDE DEF skipped
<1>6. /\ o \in Seq(Octet) /\ Len(o) = Width - skipped
      /\ \A i \in 1..(Width - skipped) : o[i] = x[skipped + i]
  <2>1. skipped + 1 \in 1..Width /\ Width - (skipped + 1) + 1 = Width - skipped
    BY <1>1, <1>4
  <2>2. /\ o \in Seq(Octet) /\ Len(o) = Width - (skipped + 1) + 1
        /\ \A i \in 1..(Width - (skipped + 1) + 1) : o[i] = x[(skipped + 1) + i - 1]
    BY <2>1, AfterSkipped
  <2>3. \A i \in 1..(Width - skipped) : (skipped + 1) + i - 1 = skipped + i
    BY <1>1, <1>4
  <2>. QED  BY <2>1, <2>2, <2>3
<1>. HIDE DEF o
<1>7. o[1] = x[skipped + 1]
  <2>1. 1 \in 1..(Width - skipped)
    BY <1>1, <1>4
  <2>. QED  BY <1>6, <2>1
<1>8. ASSUME Len(o) > 1 PROVE o[2] = x[skipped + 2]
  <2>1. 2 \in 1..(Width - skipped)
    BY <1>1, <1>4, <1>6, <1>8
  <2>. QED  BY <1>6, <2>1
<1>9. ~High(o[1])
  <2>1. CASE z = Width
    <3>1. Width \in 1..z /\ skipped + 1 = Width
      BY <1>1, <1>5, <2>1
    <3>. QED  BY <1>2, <1>7, <3>1, ZeroIsNotHigh
  <2>2. CASE z < Width /\ z > 0 /\ High(x[z + 1])
    <3>1. z \in 1..z /\ skipped + 1 = z
      BY <1>1, <1>2, <1>5, <2>2
    <3>. QED  BY <1>2, <1>7, <3>1, ZeroIsNotHigh
  <2>3. CASE z < Width /\ z > 0 /\ ~High(x[z + 1])
    BY <1>5, <1>7, <2>3
  <2>4. CASE z = 0 /\ z < Width
    <3>1. skipped + 1 = 1
      BY <1>5, <2>4
    <3>. QED  BY <1>7, <3>1
  <2>. QED  BY <1>1, <1>2, <2>1, <2>2, <2>3, <2>4
<1>10. ASSUME Len(o) > 1, o[1] = 0 PROVE High(o[2])
  <2>1. CASE z = Width
    BY <1>1, <1>5, <1>6, <1>10, <2>1
  <2>2. CASE z < Width /\ z > 0 /\ High(x[z + 1])
    <3>1. skipped + 2 = z + 1
      BY <1>2, <1>5, <2>2
    <3>. QED  BY <1>8, <1>10, <2>2, <3>1
  <2>3. CASE z < Width /\ ~(z > 0 /\ High(x[z + 1]))
    BY <1>2, <1>5, <1>7, <1>10, <2>3
  <2>. QED  BY <1>1, <1>2, <2>1, <2>2, <2>3
<1>11. ASSUME NEW i \in 1..Width
       PROVE  x[i] = IF i + Len(o) - Width >= 1 THEN o[i + Len(o) - Width] ELSE 0
  <2>1. i + Len(o) - Width = i - skipped
    BY <1>1, <1>4, <1>6
  <2>2. CASE i - skipped >= 1
    <3>1. i - skipped \in 1..(Width - skipped) /\ skipped + (i - skipped) = i
      BY <1>1, <1>4, <2>2
    <3>2. o[i - skipped] = x[i]
      BY <1>6, <3>1
    <3>. QED  BY <2>1, <2>2, <3>2
  <2>3. CASE ~(i - skipped >= 1)
    <3>1. i \in 1..z
      BY <1>1, <1>2, <1>4, <2>3
    <3>. QED  BY <1>2, <2>1, <2>3, <3>1
  <2>. QED  BY <2>2, <2>3
<1>12. Len(o) \in 1..(Width + 1)
  BY <1>1, <1>4, <1>6
<1>13. StandsFor(o, x)
  BY <1>9, <1>10, <1>11, <1>12 DEF StandsFor
<1>. QED  BY <1>3, <1>6, <1>13
\* The integer of each half is an octet string that stands for it.
LEMMA IntegerStandsFor ==
    ASSUME NEW x \in [1..Width -> Octet]
    PROVE  Integer(x) \in Seq(Octet) /\ StandsFor(Integer(x), x)
  BY HighStandsFor, LowStandsFor

\* Some of the items of a sequence.
LEMMA ItemsBetween ==
    ASSUME NEW S, NEW s \in Seq(S), NEW v \in Seq(S), NEW k \in Nat, k + Len(v) <= Len(s),
           \A i \in 1..Len(v) : s[k + i] = v[i]
    PROVE  SubSeq(s, k + 1, k + Len(v)) = v
<1> DEFINE t == SubSeq(s, k + 1, k + Len(v))
<1>1. Len(s) \in Nat /\ Len(v) \in Nat
  OBVIOUS
<1>2. \A i \in (k + 1)..(k + Len(v)) : s[i] \in S
  <2>1. \A i \in (k + 1)..(k + Len(v)) : i \in 1..Len(s)
    BY <1>1
  <2>. QED  BY <2>1, ElementOfSeq
<1>3. /\ t \in Seq(S)
      /\ Len(t) = IF k + 1 <= k + Len(v) THEN k + Len(v) - (k + 1) + 1 ELSE 0
      /\ \A i \in 1..(k + Len(v) - (k + 1) + 1) : t[i] = s[k + 1 + i - 1]
  <2>1. k + 1 \in Int /\ k + Len(v) \in Int
    BY <1>1
  <2>. QED  BY <1>2, <2>1, SubSeqProperties
<1>. HIDE DEF t
<1>4. Len(t) = Len(v)
  BY <1>1, <1>3
<1>5. ASSUME NEW i \in 1..Len(t) PROVE t[i] = v[i]
  <2>1. i \in 1..(k + Len(v) - (k + 1) + 1) /\ i \in 1..Len(v) /\ k + 1 + i - 1 = k + i
    BY <1>1, <1>4
  <2>. QED  BY <1>3, <2>1
<1>6. t = v
  BY <1>3, <1>4, <1>5, SeqEqual
<1>. QED  BY <1>6 DEF t

\* The SEQUENCE of two integers.
SequenceOf(R, S) ==
    <<"SEQUENCE", 4 + Len(R) + Len(S)>> \o <<"INTEGER", Len(R)>> \o R
      \o <<"INTEGER", Len(S)>> \o S

\* Where the parts of a signature are.
LEMMA PartsOfSignature ==
    ASSUME NEW R \in Seq(Octet), NEW S \in Seq(Octet), NEW sig, sig = SequenceOf(R, S)
    PROVE  /\ Len(sig) = 6 + Len(R) + Len(S)
           /\ sig[2] = 4 + Len(R) + Len(S)
           /\ IntegerAt(sig, 3) = R
           /\ sig[6 + Len(R)] = Len(S)
           /\ IntegerAt(sig, 5 + Len(R)) = S
<1> DEFINE Item == Nat \cup {"SEQUENCE", "INTEGER"}
           first == <<"SEQUENCE", 4 + Len(R) + Len(S)>>
           tagR == <<"INTEGER", Len(R)>>
           tagS == <<"INTEGER", Len(S)>>
           header == first \o tagR
           toR == header \o R
           toS == toR \o tagS
<1>1. Len(R) \in Nat /\ Len(S) \in Nat
  OBVIOUS
<1>2. R \in Seq(Item) /\ S \in Seq(Item)
  <2>1. R \in Seq(Nat) /\ S \in Seq(Nat) /\ Nat \subseteq Item
    BY OctetsAreNumbers
  <2>. HIDE DEF Item
  <2>. QED  BY <2>1, SeqMonotonic
<1>3. /\ first \in Seq(Item) /\ Len(first) = 2 /\ first[2] = 4 + Len(R) + Len(S)
      /\ tagR \in Seq(Item) /\ Len(tagR) = 2 /\ tagR[2] = Len(R)
      /\ tagS \in Seq(Item) /\ Len(tagS) = 2 /\ tagS[2] = Len(S)
  <2>1. "SEQUENCE" \in Item /\ "INTEGER" \in Item /\ Len(R) \in Item /\ Len(S) \in Item
        /\ 4 + Len(R) + Len(S) \in Item
    BY <1>1
  <2>. HIDE DEF Item
  <2>. QED  BY <2>1
<1>4. sig = toS \o S /\ toS = toR \o tagS /\ toR = header \o R /\ header = first \o tagR
  BY DEF SequenceOf
<1>. HIDE DEF Item, first, tagR, tagS, header, toR, toS
<1>13. ASSUME NEW u \in Seq(Item), NEW v \in Seq(Item)
       PROVE  /\ u \o v \in Seq(Item) /\ Len(u \o v) = Len(u) + Len(v)
              /\ \A i \in 1..Len(u) : (u \o v)[i] = u[i]
              /\ \A i \in 1..Len(v) : (u \o v)[Len(u) + i] = v[i]
  BY Appended
<1>5. /\ header \in Seq(Item) /\ Len(header) = 4
      /\ header[2] = 4 + Len(R) + Len(S) /\ header[4] = Len(R)
  <2>1. /\ header \in Seq(Item) /\ Len(header) = Len(first) + Len(tagR)
        /\ \A i \in 1..Len(first) : header[i] = first[i]
        /\ \A i \in 1..Len(tagR) : header[Len(first) + i] = tagR[i]
    BY <1>3, <1>4, <1>13
  <2>2. 2 \in 1..2 /\ 2 + 2 = 4
    OBVIOUS
  <2>. QED  BY <1>3, <2>1, <2>2
<1>6. /\ toR \in Seq(Item) /\ Len(toR) = 4 + Len(R)
      /\ toR[2] = 4 + Len(R) + Len(S) /\ toR[4] = Len(R)
      /\ \A i \in 1..Len(R) : toR[4 + i] = R[i]
  <2>1. /\ toR \in Seq(Item) /\ Len(toR) = Len(header) + Len(R)
        /\ \A i \in 1..Len(header) : toR[i] = header[i]
        /\ \A i \in 1..Len(R) : toR[Len(header) + i] = R[i]
    BY <1>2, <1>4, <1>5, <1>13
  <2>2. 2 \in 1..4 /\ 4 \in 1..4
    OBVIOUS
  <2>. QED  BY <1>5, <2>1, <2>2
<1>7. /\ toS \in Seq(Item) /\ Len(toS) = 6 + Len(R)
      /\ toS[2] = 4 + Len(R) + Len(S) /\ toS[4] = Len(R)
      /\ \A i \in 1..Len(R) : toS[4 + i] = R[i]
      /\ toS[6 + Len(R)] = Len(S)
  <2>1. /\ toS \in Seq(Item) /\ Len(toS) = Len(toR) + Len(tagS)
        /\ \A i \in 1..Len(toR) : toS[i] = toR[i]
        /\ \A i \in 1..Len(tagS) : toS[Len(toR) + i] = tagS[i]
    BY <1>3, <1>4, <1>6, <1>13
  <2>2. /\ 2 \in 1..(4 + Len(R)) /\ 4 \in 1..(4 + Len(R)) /\ 2 \in 1..2
        /\ \A i \in 1..Len(R) : 4 + i \in 1..(4 + Len(R))
        /\ (4 + Len(R)) + 2 = 6 + Len(R)
    BY <1>1
  <2>3. Len(toS) = 6 + Len(R)
    BY <1>3, <1>6, <2>1, <2>2
  <2>4. toS[6 + Len(R)] = Len(S)
    BY <1>3, <1>6, <2>1, <2>2
  <2>5. toS[2] = 4 + Len(R) + Len(S) /\ toS[4] = Len(R)
    BY <1>6, <2>1, <2>2
  <2>6. ASSUME NEW i \in 1..Len(R) PROVE toS[4 + i] = R[i]
    BY <1>6, <2>1, <2>2
  <2>. QED  BY <2>1, <2>3, <2>4, <2>5, <2>6
<1>8. /\ sig \in Seq(Item) /\ Len(sig) = (6 + Len(R)) + Len(S)
      /\ \A i \in 1..(6 + Len(R)) : sig[i] = toS[i]
      /\ \A i \in 1..Len(S) : sig[(6 + Len(R)) + i] = S[i]
  <2>1. /\ sig \in Seq(Item) /\ Len(sig) = Len(toS) + Len(S)
        /\ \A i \in 1..Len(toS) : sig[i] = toS[i]
        /\ \A i \in 1..Len(S) : sig[Len(toS) + i] = S[i]
    <3>1. toS \in Seq(Item) /\ S \in Seq(Item)
      BY <1>2, <1>7
    <3>2. /\ toS \o S \in Seq(Item) /\ Len(toS \o S) = Len(toS) + Len(S)
          /\ \A i \in 1..Len(toS) : (toS \o S)[i] = toS[i]
          /\ \A i \in 1..Len(S) : (toS \o S)[Len(toS) + i] = S[i]
      BY <1>13, <3>1
    <3>. QED  BY <1>4, <3>2
  <2>. QED  BY <1>7, <2>1
<1>9. sig[2] = 4 + Len(R) + Len(S) /\ sig[4] = Len(R) /\ sig[6 + Len(R)] = Len(S)
  <2>1. 2 \in 1..(6 + Len(R)) /\ 4 \in 1..(6 + Len(R)) /\ 6 + Len(R) \in 1..(6 + Len(R))
    BY <1>1
  <2>. QED  BY <1>7, <1>8, <2>1
<1>10. IntegerAt(sig, 3) = R
  <2>1. \A i \in 1..Len(R) : sig[4 + i] = R[i]
    <3>1. \A i \in 1..Len(R) : 4 + i \in 1..(6 + Len(R))
      BY <1>1
    <3>. QED  BY <1>7, <1>8, <3>1
  <2>2. 4 + Len(R) <= Len(sig) /\ 4 \in Nat
    BY <1>1, <1>8
  <2>3. SubSeq(sig, 4 + 1, 4 + Len(R)) = R
    BY <1>2, <1>8, <2>1, <2>2, ItemsBetween
  <2>4. IntegerAt(sig, 3) = SubSeq(sig, 3 + 2, 3 + 1 + sig[3 + 1])
    BY DEF IntegerAt
  <2>5. 3 + 2 = 4 + 1 /\ 3 + 1 = 4
    OBVIOUS
  <2>. QED  BY <1>9, <2>3, <2>4, <2>5
<1>11. IntegerAt(sig, 5 + Len(R)) = S
  <2> DEFINE k == 6 + Len(R)
  <2>1. k \in Nat /\ k + Len(S) <= Len(sig)
    BY <1>1, <1>8
  <2>2. \A i \in 1..Len(S) : sig[k + i] = S[i]
    BY <1>8
  <2>3. IntegerAt(sig, 5 + Len(R)) = SubSeq(sig, (5 + Len(R)) + 2, (5 + Len(R)) + 1 + sig[(5 + Len(R)) + 1])
    BY DEF IntegerAt
  <2>4. (5 + Len(R)) + 2 = k + 1 /\ (5 + Len(R)) + 1 = k
    BY <1>1
  <2>. HIDE DEF k
  <2>5. SubSeq(sig, k + 1, k + Len(S)) = S
    BY <1>2, <1>8, <2>1, <2>2, ItemsBetween
  <2>6. sig[k] = Len(S)
    BY <1>9 DEF k
  <2>. QED  BY <2>3, <2>4, <2>5, <2>6
<1>12. Len(sig) = 6 + Len(R) + Len(S)
  BY <1>1, <1>8
<1>. QED  BY <1>9, <1>10, <1>11, <1>12

\* SignatureReadsBack: what ctap_convert_to_asn1_der_ecdsa_sig_value returns is read as
\* the two halves that it was given, each in DER's shortest form, for any width.
THEOREM SignatureIsReadBack == Spec => []SignatureReadsBack
<1>1. IInv => SignatureReadsBack
  <2>. SUFFICES ASSUME IInv, Returned("signature") PROVE SignatureReadsBack
    BY DEF SignatureReadsBack
  <2> DEFINE r == call.arg[1]
             s == call.arg[2]
             R == Integer(r)
             S == Integer(s)
  <2>1. r \in [1..Width -> Octet] /\ s \in [1..Width -> Octet]
    BY ArgumentType DEF IInv, Returned
  <2>2. R \in Seq(Octet) /\ S \in Seq(Octet) /\ StandsFor(R, r) /\ StandsFor(S, s)
    BY <2>1, IntegerStandsFor
  <2>3. result = SequenceOf(R, S)
    BY DEF IInv, Signature, SequenceOf
  <2>. HIDE DEF R, S
  <2>4. /\ Len(result) = 6 + Len(R) + Len(S)
        /\ result[2] = 4 + Len(R) + Len(S)
        /\ IntegerAt(result, 3) = R
        /\ result[6 + Len(R)] = Len(S)
        /\ IntegerAt(result, 5 + Len(R)) = S
    BY <2>2, <2>3, PartsOfSignature
  <2> DEFINE second == 3 + 2 + Len(IntegerAt(result, 3))
  <2>5. second = 5 + Len(R) /\ second + 1 = 6 + Len(R)
    <3>1. Len(R) \in Nat
      BY <2>2
    <3>. QED  BY <2>4, <3>1
  <2>6. result[2] = Len(result) - 2 /\ Len(result) = second + 1 + result[second + 1]
    <3>1. Len(R) \in Nat /\ Len(S) \in Nat
      BY <2>2
    <3>. HIDE DEF second
    <3>. QED  BY <2>4, <2>5, <3>1
  <2>7. StandsFor(IntegerAt(result, 3), r) /\ StandsFor(IntegerAt(result, second), s)
    <3>. HIDE DEF second
    <3>. QED  BY <2>2, <2>4, <2>5
  <2>. QED  BY <2>6, <2>7 DEF SignatureReadsBack
<1>. QED  BY <1>1, Invariance, PTL
=============================================================================
