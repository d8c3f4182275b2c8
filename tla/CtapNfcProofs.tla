--------------------------- MODULE CtapNfcProofs ----------------------------
(***************************************************************************)
(* Proofs about CtapNfc, for every length of the APDUs, of the responses   *)
(* and of the buffers: ctap_request gets the request that the reader has   *)
(* sent, and the reader gets the response.                                 *)
(*                                                                         *)
(* Neither is inductive.  What has to be known of the context is what its  *)
(* chain buffer holds, and that its flags say what the reader is doing; it *)
(* is known only while the FIDO applet is selected, and of a reader that   *)
(* is not astray.  Leaving the applet, by whatever way, gives it up, and   *)
(* only the selection of the applet, which resets the chaining, brings it  *)
(* back.                                                                   *)
(***************************************************************************)
EXTENDS CtapNfc, TLAPS

ReaderType ==
    [command : Nat, sent : Nat, got : Nat, full : Nat, chaining : BOOLEAN, astray : BOOLEAN]

\* Nothing has to be known of what the buffer holds beyond what is in Collected and Held.
ContextTyped(c) ==
    c \in [app : {"none", "FIDO", "NDEF"}, chain_buf : {c.chain_buf},
           chain_offset : Nat, chain_len : Nat,
           chaining_in : BOOLEAN, chaining_out : BOOLEAN, extended : BOOLEAN]

\* The parts of the request are in the buffer, in their order, and nothing after them.
Collected(c, r) ==
    r.chaining =>
        /\ c.chaining_in /\ r.got = 0 /\ r.full = 0
        /\ c.chain_len = r.sent /\ r.sent <= ChainBuf
        /\ \A i \in 1..r.sent : c.chain_buf[i] = Octet("request", r, i)

\* The response is in the buffer, and the context knows which of it is to come.
Held(c, r) ==
    Fetching(r) =>
        /\ c.chaining_out
        /\ c.chain_offset = r.got /\ c.chain_len = r.full - r.got
        /\ r.full <= ChainBuf
        /\ \A i \in 1..r.full : c.chain_buf[i] = Octet("response", r, i)

Agree(c, r) ==
    c.app = "FIDO" /\ ~r.astray =>
        /\ Collected(c, r)
        /\ Held(c, r)
        /\ ~r.chaining => ~c.chaining_in
        /\ ~Fetching(r) => ~c.chaining_out

IInv ==
    /\ reader \in ReaderType
    /\ ContextTyped(ctx)
    /\ Agree(ctx, reader)
    /\ RequestAsSent
    /\ ResponseAsGiven

-----------------------------------------------------------------------------
(* Octets.                                                                 *)

\* A function on 1..n is a sequence of length n.
LEMMA LenOfFunction ==
    ASSUME NEW n \in Nat, NEW f, f = [i \in 1..n |-> f[i]]
    PROVE  Len(f) = n /\ (f # <<>> <=> n > 0)
<1>1. f \in [1..n -> {f[i] : i \in 1..n}]
  OBVIOUS
<1>2. f \in Seq({f[i] : i \in 1..n})
  BY <1>1
<1>3. DOMAIN f = 1..n
  OBVIOUS
<1>4. Len(f) = n
  BY <1>2, <1>3
<1> QED
  BY <1>2, <1>4

LEMMA OctetsAre ==
    ASSUME NEW what, NEW r, NEW first \in Int, NEW n \in Nat
    PROVE  /\ Len(Octets(what, r, first, n)) = n
           /\ Octets(what, r, first, n) # <<>> <=> n > 0
           /\ \A i \in 1..n : ~r.astray =>
                 Octets(what, r, first, n)[i] = Octet(what, r, first + i)
           /\ DOMAIN Octets(what, r, first, n) = 1..n
<1> DEFINE f == Octets(what, r, first, n)
<1>1. f = [i \in 1..n |-> f[i]]
  BY DEF Octets
<1>2. Len(f) = n /\ (f # <<>> <=> n > 0)
  <2> HIDE DEF f
  <2> QED
    BY <1>1, LenOfFunction
<1> QED
  BY <1>2 DEF Octets

LEMMA PieceIs ==
    ASSUME NEW buf, NEW at \in Nat, NEW n \in Nat
    PROVE  /\ Len(Piece(buf, at, n)) = n
           /\ Piece(buf, at, n) # <<>> <=> n > 0
           /\ \A i \in 1..n : at + i <= ChainBuf => Piece(buf, at, n)[i] = buf[at + i]
<1> DEFINE f == Piece(buf, at, n)
<1>1. f = [i \in 1..n |-> f[i]]
  BY DEF Piece
<1>2. Len(f) = n /\ (f # <<>> <=> n > 0)
  <2> HIDE DEF f
  <2> QED
    BY <1>1, LenOfFunction
<1> QED
  BY <1>2 DEF Piece

\* Octets depend on the command of the reader only, and on its being astray.
LEMMA OctetsOfSame ==
    ASSUME NEW what, NEW r, NEW s, NEW first, NEW n,
           r.command = s.command, r.astray = s.astray
    PROVE  Octets(what, r, first, n) = Octets(what, s, first, n)
BY DEF Octets, Octet

\* A piece of a buffer that holds octets where they belong consists of them.
LEMMA PieceOfOctets ==
    ASSUME NEW what, NEW r, ~r.astray, NEW buf, NEW at \in Nat, NEW n \in Nat,
           at + n <= ChainBuf, ChainBuf \in Nat,
           \A i \in 1..(at + n) : buf[i] = Octet(what, r, i)
    PROVE  Piece(buf, at, n) = Octets(what, r, at, n)
<1>1. \A i \in 1..n : at + i \in 1..(at + n) /\ at + i <= ChainBuf
  OBVIOUS
<1> QED
  BY <1>1 DEF Piece, Octets

\* What is written is there, and the rest stays.
LEMMA WrittenIs ==
    ASSUME NEW buf, NEW at \in Nat, NEW data, Len(data) \in Nat, NEW i \in 1..ChainBuf,
           ChainBuf \in Nat
    PROVE  Written(buf, at, data)[i] =
             IF i > at /\ i <= at + Len(data) THEN data[i - at] ELSE buf[i]
<1>1. i \in (at + 1)..(at + Len(data)) <=> i > at /\ i <= at + Len(data)
  OBVIOUS
<1> QED
  BY <1>1 DEF Written

\* Octets written after the first ones of the same reader continue them.
LEMMA WrittenOctets ==
    ASSUME NEW what, NEW r, ~r.astray, NEW buf, NEW at \in Nat, NEW n \in Nat,
           at + n <= ChainBuf, ChainBuf \in Nat,
           \A i \in 1..at : buf[i] = Octet(what, r, i)
    PROVE  \A i \in 1..(at + n) :
              Written(buf, at, Octets(what, r, at, n))[i] = Octet(what, r, i)
<1> DEFINE data == Octets(what, r, at, n)
<1>1. Len(data) = n /\ \A j \in 1..n : data[j] = Octet(what, r, at + j)
  BY OctetsAre
<1> HIDE DEF data
<1> SUFFICES ASSUME NEW i \in 1..(at + n)
             PROVE  Written(buf, at, data)[i] = Octet(what, r, i)
  BY DEF data
<1>2. Written(buf, at, data)[i] = IF i > at /\ i <= at + n THEN data[i - at] ELSE buf[i]
  <2>1. i \in 1..ChainBuf /\ Len(data) \in Nat
    BY <1>1
  <2> QED
    BY <1>1, <2>1, WrittenIs
<1>3. CASE i > at
  <2>1. i - at \in 1..n /\ at + (i - at) = i
    BY <1>3
  <2> QED
    BY <1>1, <1>2, <1>3, <2>1
<1>4. CASE ~(i > at)
  BY <1>2, <1>4
<1> QED
  BY <1>3, <1>4

-----------------------------------------------------------------------------
(* APDUs and the reader.                                                   *)

LEMMA ApduIs ==
    ASSUME NEW a \in Apdus
    PROVE  /\ a.len \in Nat /\ a.le \in Nat /\ a.extended \in BOOLEAN
           /\ a.cla \in {"iso", "ctap", "chain"}
           /\ a.ins = "select" => a.app \in {"FIDO", "NDEF", "other"}
           /\ a.ins = "msg" => a.cla \in {"ctap", "chain"}
           /\ a.cla = "chain" => a.ins = "msg" /\ a.le = 0
<1> USE CtapNfcAssumption
<1>1. CASE a \in Selects
  <2>1. PICK app \in {"FIDO", "NDEF", "other"} : a = Apdu("iso", "select", app, 1, 0, FALSE)
    BY <1>1 DEF Selects
  <2> QED
    BY <2>1 DEF Apdu
<1>2. CASE a \in Messages
  <2>1. PICK len \in 0..MaxData, le \in 0..MaxResponse, extended \in BOOLEAN :
           a = Apdu("ctap", "msg", "none", len, le, extended)
    BY <1>2 DEF Messages
  <2>2. len \in Nat /\ le \in Nat
    OBVIOUS
  <2> QED
    BY <2>1, <2>2 DEF Apdu
<1>3. CASE a \in Parts
  <2>1. PICK len \in 0..MaxData : a = Apdu("chain", "msg", "none", len, 0, FALSE)
    BY <1>3 DEF Parts
  <2>2. len \in Nat
    OBVIOUS
  <2> QED
    BY <2>1, <2>2 DEF Apdu
<1>4. CASE a \in GetResponses
  <2>1. PICK le \in 0..MaxResponse :
           a = Apdu("ctap", "get_response", "none", 0, le, le >= ShortLe)
    BY <1>4 DEF GetResponses
  <2> DEFINE extended == le >= ShortLe
  <2>2. extended \in BOOLEAN /\ le \in Nat
    OBVIOUS
  <2>3. a = Apdu("ctap", "get_response", "none", 0, le, extended)
    BY <2>1
  <2> HIDE DEF extended
  <2> QED
    BY <2>2, <2>3 DEF Apdu
<1>5. CASE a \in Others
  <2>1. \E ins \in {"deselect", "unknown"}, le \in 0..1 :
           a = Apdu("ctap", ins, "none", 0, le, FALSE)
    BY <1>5, SMTT(30) DEF Others, Apdu
  <2>2. PICK ins \in {"deselect", "unknown"}, le \in 0..1 :
           a = Apdu("ctap", ins, "none", 0, le, FALSE)
    BY <2>1
  <2> QED
    BY <2>2 DEF Apdu
<1> QED
  BY <1>1, <1>2, <1>3, <1>4, <1>5 DEF Apdus

LEMMA NewReaderIs ==
    ASSUME NEW n \in Nat
    PROVE  /\ NewReader(n) \in ReaderType
           /\ NewReader(n).sent = 0 /\ NewReader(n).got = 0 /\ NewReader(n).full = 0
           /\ ~NewReader(n).chaining /\ ~NewReader(n).astray
BY DEF NewReader, ReaderType

\* What is known of the reader that sends an APDU other than a SELECT.
LEMMA SendingIs ==
    ASSUME NEW r \in ReaderType, NEW a \in Apdus, a.ins # "select",
           NEW s, s = Sending(r, a)
    PROVE  /\ s \in ReaderType
           /\ ~s.astray => ~r.astray
           /\ ~s.astray /\ a.ins = "msg" /\ r.chaining /\ a.cla = "ctap" =>
                 s = [r EXCEPT !.sent = @ + a.len, !.chaining = (a.le = 0)]
           /\ ~s.astray /\ a.ins = "msg" /\ ~(r.chaining /\ a.cla = "ctap") =>
                 /\ ~Fetching(r)
                 /\ s = [NewReader(r.command + 1) EXCEPT
                            !.sent = a.len, !.chaining = (a.cla = "chain")]
           /\ ~s.astray /\ a.ins # "msg" => s = r /\ ~r.chaining
<1> USE ApduIs
<1>1. /\ NewReader(r.command + 1) \in ReaderType /\ NewReader(r.command) \in ReaderType
      /\ r.command + 1 \in Nat
  BY NewReaderIs DEF ReaderType
<1>2. CASE r.astray
  <2>1. s = r
    BY <1>2 DEF Sending
  <2> QED
    BY <1>2, <2>1
<1>3. CASE ~r.astray /\ a.ins = "msg" /\ r.chaining /\ a.cla = "ctap"
  <2>1. s = [r EXCEPT !.sent = @ + a.len, !.chaining = (a.le = 0)]
    BY <1>3 DEF Sending
  <2>2. (a.le = 0) \in BOOLEAN /\ r.sent + a.len \in Nat
    BY DEF ReaderType
  <2>3. s \in ReaderType
    BY <2>1, <2>2 DEF ReaderType
  <2> QED
    BY <1>3, <2>1, <2>3
<1>4. CASE ~r.astray /\ a.ins = "msg" /\ ~(r.chaining /\ a.cla = "ctap") /\ ~Fetching(r)
  <2>1. s = [NewReader(r.command + 1) EXCEPT
                !.sent = a.len, !.chaining = (a.cla = "chain")]
    BY <1>4 DEF Sending
  <2>2. (a.cla = "chain") \in BOOLEAN
    OBVIOUS
  <2>3. s \in ReaderType
    BY <1>1, <2>1, <2>2 DEF ReaderType
  <2> QED
    BY <1>4, <2>1, <2>3
<1>5. CASE ~r.astray /\ a.ins # "msg" /\ ~r.chaining
  <2>1. s = r
    BY <1>5 DEF Sending
  <2> QED
    BY <1>5, <2>1
<1>6. CASE /\ ~r.astray
           /\ \/ a.ins = "msg" /\ ~(r.chaining /\ a.cla = "ctap") /\ Fetching(r)
              \/ a.ins # "msg" /\ r.chaining
  <2>1. s = [NewReader(r.command) EXCEPT !.astray = TRUE]
    BY <1>6 DEF Sending
  <2>2. s \in ReaderType /\ s.astray
    BY <1>1, <2>1 DEF ReaderType
  <2> QED
    BY <2>2, <1>6
<1> QED
  BY <1>2, <1>3, <1>4, <1>5, <1>6

-----------------------------------------------------------------------------
(* The ways a step ends.                                                   *)

\* What is to be proved of a step: IInv' is an instance of it, so that the lemmas below
\* can speak of the next state without primes of operators with parameters.
LEMMA InvariantNext ==
    ASSUME reader' \in ReaderType, ContextTyped(ctx'), Agree(ctx', reader'),
           passed' # <<>> /\ ~reader'.astray =>
               passed' = Octets("request", reader', 0, reader'.sent),
           reply'.data # <<>> /\ ~reader'.astray =>
               /\ reply'.data = Octets("response", reader', reader'.got - Len(reply'.data),
                                       Len(reply'.data))
               /\ reply'.sw = (IF Fetching(reader') THEN "more" ELSE "ok")
    PROVE  IInv'
BY DEF IInv, RequestAsSent, ResponseAsGiven, Agree, ContextTyped, Collected, Held, Fetching,
       ReaderType, Octets, Octet

LEMMA ContextOf ==
    ASSUME NEW c, ContextTyped(c)
    PROVE  /\ ContextTyped(InitSession(c)) /\ InitSession(c).app = "none"
           /\ ContextTyped(ResetChain(c)) /\ ResetChain(c).app = c.app
           /\ ~ResetChain(c).chaining_in /\ ~ResetChain(c).chaining_out
BY DEF ContextTyped, InitSession, ResetChain

LEMMA RefusesKeeps ==
    ASSUME NEW c, ContextTyped(c), NEW r \in ReaderType, Agree(c, r), NEW sw,
           Refuses(c, r, sw)
    PROVE  IInv'
<1> USE CtapNfcAssumption
<1>1. Len(<<>>) = 0 /\ 0 <= TxRoom
  OBVIOUS
<1>2. /\ ctx' = c /\ reply' = [sw |-> sw, data |-> <<>>] /\ passed' = <<>>
      /\ reader' = IF r.astray THEN r ELSE [r EXCEPT !.got = @ + Len(<<>>)]
  BY <1>1 DEF Refuses, Replies, Transmits
<1>3. reader' = r
  BY <1>1, <1>2 DEF ReaderType
<1> QED
  BY <1>2, <1>3, InvariantNext

\* A response of which the reader has got part, or all.
LEMMA TransmitsKeeps ==
    ASSUME NEW c, ContextTyped(c), NEW r \in ReaderType, NEW sw, NEW data,
           Len(data) \in Nat,
           Transmits(c, r, sw, data),
           passed' # <<>> /\ ~r.astray => passed' = Octets("request", r, 0, r.sent),
           c.app = "FIDO" /\ ~r.astray =>
               LET s == [r EXCEPT !.got = @ + Len(data)] IN Agree(c, s),
           data # <<>> /\ ~r.astray =>
               /\ data = Octets("response", r, r.got, Len(data))
               /\ sw = (IF r.got + Len(data) < r.full THEN "more" ELSE "ok")
    PROVE  IInv'
<1> USE CtapNfcAssumption
<1>1. CASE Len(data) > TxRoom
  <2>1. ctx' = InitSession(c) /\ reply' = NoReply /\ reader' = r
    BY <1>1 DEF Transmits
  <2>2. Agree(ctx', reader')
    BY <2>1, ContextOf DEF Agree
  <2>3. reply'.data = <<>>
    BY <2>1 DEF NoReply
  <2> QED
    BY <2>1, <2>2, <2>3, ContextOf, InvariantNext
<1>2. CASE Len(data) <= TxRoom
  <2>1. /\ ctx' = c /\ reply' = [sw |-> sw, data |-> data]
        /\ reader' = IF r.astray THEN r ELSE [r EXCEPT !.got = @ + Len(data)]
    BY <1>2 DEF Transmits
  <2>2. CASE r.astray
    <3>1. Agree(ctx', reader')
      BY <2>1, <2>2 DEF Agree
    <3> QED
      BY <2>1, <2>2, <3>1, InvariantNext
  <2>3. CASE ~r.astray
    <3> DEFINE s == [r EXCEPT !.got = @ + Len(data)]
    <3>1. /\ s \in ReaderType /\ s.command = r.command /\ s.astray = r.astray
          /\ s.sent = r.sent /\ s.full = r.full /\ s.got = r.got + Len(data)
          /\ s.got - Len(data) = r.got
      BY DEF ReaderType
    <3>2. reader' = s
      BY <2>1, <2>3
    <3>3. Agree(c, s)
      BY <3>1, <2>3 DEF Agree
    <3> HIDE DEF s
    <3>4. /\ Octets("request", r, 0, r.sent) = Octets("request", s, 0, s.sent)
          /\ Octets("response", r, r.got, Len(data))
                = Octets("response", s, s.got - Len(data), Len(data))
      BY <3>1, OctetsOfSame
    <3>5. Fetching(s) <=> r.got + Len(data) < r.full
      BY <3>1 DEF Fetching
    <3> QED
      BY <2>1, <2>3, <3>1, <3>2, <3>3, <3>4, <3>5, InvariantNext
  <2> QED
    BY <2>2, <2>3
<1> QED
  BY <1>1, <1>2

-----------------------------------------------------------------------------
(* The handlers.                                                           *)

\* A whole request has been put together, and the reader has nothing else in mind.
Whole(c, r, data) ==
    c.app = "FIDO" /\ ~r.astray =>
        /\ ~c.chaining_in /\ ~c.chaining_out
        /\ ~r.chaining /\ r.got = 0 /\ r.full = 0

LEMMA HandleCtapKeeps ==
    ASSUME NEW c, ContextTyped(c), NEW r \in ReaderType, NEW data,
           NEW expected \in Nat, expected > 0,
           Whole(c, r, data), c.app = "FIDO",
           data # <<>> /\ ~r.astray => data = Octets("request", r, 0, r.sent),
           HandleCtap(c, r, data, expected)
    PROVE  IInv'
<1> USE CtapNfcAssumption
<1>1. CASE data = <<>> /\ Refuses(c, r, "wrong_length")
  <2>1. Agree(c, r)
    BY DEF Whole, Agree, Collected, Held, Fetching
  <2> QED
    BY <1>1, <2>1, RefusesKeeps
<1>2. CASE data # <<>>
  <2> DEFINE response(full) == Octets("response", r, 0, full)
             given(full) == IF r.astray THEN r ELSE [r EXCEPT !.full = full]
             in_one == IF c.extended THEN [c EXCEPT !.extended = FALSE, !.chain_len = 0]
                       ELSE [c EXCEPT !.chain_len = 0, !.chain_offset = 0]
             begun(full) == [c EXCEPT !.chain_buf = Written(@, 0, response(full)),
                                      !.chain_offset = expected,
                                      !.chain_len = full - expected, !.chaining_out = TRUE]
  <2>1. passed' = data
    BY <1>2 DEF HandleCtap
  <2>2. PICK full \in 1..MaxResponse :
          CASE full <= expected -> Transmits(in_one, given(full), "ok", response(full))
            [] full > expected /\ c.extended -> Transmits(c, r, "wrong_length", <<>>)
            [] OTHER -> Transmits(begun(full), given(full), "more",
                                  Piece(begun(full).chain_buf, 0, expected))
    BY <1>2 DEF HandleCtap
  <2>3. full \in Nat /\ full > 0 /\ full <= ChainBuf
    OBVIOUS
  <2>4. /\ given(full) \in ReaderType
        /\ given(full).command = r.command /\ given(full).astray = r.astray
        /\ given(full).sent = r.sent /\ given(full).got = r.got
        /\ given(full).chaining = r.chaining
        /\ ~r.astray => given(full).full = full
    BY <2>3 DEF ReaderType
  <2>5. passed' # <<>> /\ ~r.astray =>
          passed' = Octets("request", given(full), 0, given(full).sent)
    <3> HIDE DEF given
    <3> QED
      BY <2>1, <2>4, OctetsOfSame
  <2>6. CASE full <= expected
    <3>1. Transmits(in_one, given(full), "ok", response(full))
      BY <2>2, <2>6
    <3>2. ContextTyped(in_one) /\ in_one.chaining_in = c.chaining_in
          /\ in_one.chaining_out = c.chaining_out
      BY DEF ContextTyped
    <3>3. Len(response(full)) = full
      BY <2>3, OctetsAre
    <3>4. in_one.app = "FIDO" /\ ~given(full).astray =>
             Agree(in_one, [given(full) EXCEPT !.got = @ + Len(response(full))])
      <4> DEFINE g == given(full)
      <4> HIDE DEF given, in_one, response
      <4>1. SUFFICES ASSUME ~g.astray
                     PROVE  Agree(in_one, [g EXCEPT !.got = @ + Len(response(full))])
        OBVIOUS
      <4>2. ~r.astray /\ Whole(c, r, data) /\ g.full = full /\ g.got = 0 /\ ~g.chaining
        BY <2>4, <4>1 DEF Whole
      <4>3. /\ [g EXCEPT !.got = @ + Len(response(full))].got = full
            /\ [g EXCEPT !.got = @ + Len(response(full))].full = full
            /\ ~[g EXCEPT !.got = @ + Len(response(full))].chaining
        BY <2>3, <2>4, <3>3, <4>2 DEF ReaderType
      <4> QED
        BY <2>3, <3>2, <4>2, <4>3 DEF Agree, Collected, Held, Fetching, Whole
    <3>5. response(full) # <<>> /\ ~given(full).astray =>
            /\ response(full) = Octets("response", given(full), given(full).got,
                                       Len(response(full)))
            /\ "ok" = (IF given(full).got + Len(response(full)) < given(full).full
                       THEN "more" ELSE "ok")
      <4> HIDE DEF given
      <4> SUFFICES ASSUME ~given(full).astray
                   PROVE  /\ response(full) = Octets("response", given(full), 0, full)
                          /\ given(full).got = 0 /\ given(full).full = full
        BY <2>3, <3>3
      <4> QED
        BY <2>4, OctetsOfSame DEF Whole
    <3> HIDE DEF given, in_one, response
    <3> QED
      BY <2>3, <2>4, <2>5, <3>1, <3>2, <3>3, <3>4, <3>5, TransmitsKeeps
  <2>7. CASE full > expected /\ c.extended
    <3>1. Transmits(c, r, "wrong_length", <<>>) /\ Len(<<>>) = 0
      BY <2>2, <2>7
    <3>2. c.app = "FIDO" /\ ~r.astray => Agree(c, [r EXCEPT !.got = @ + Len(<<>>)])
      BY <3>1 DEF Agree, Collected, Held, Fetching, Whole, ReaderType
    <3> QED
      BY <2>1, <3>1, <3>2, TransmitsKeeps
  <2>8. CASE full > expected /\ ~c.extended
    <3> DEFINE b == begun(full)
               chunk == Piece(b.chain_buf, 0, expected)
               g == given(full)
    <3>1. Transmits(b, g, "more", chunk)
      BY <2>2, <2>8
    <3>2. /\ ContextTyped(b) /\ b.chaining_in = c.chaining_in /\ b.chaining_out
          /\ b.chain_offset = expected /\ b.chain_len = full - expected
          /\ b.chain_buf = Written(c.chain_buf, 0, response(full))
      <4>1. full - expected \in Nat
        BY <2>3, <2>8
      <4> HIDE DEF response
      <4> QED
        BY <4>1 DEF ContextTyped
    <3> HIDE DEF b
    <3>3. Len(chunk) = expected
      BY PieceIs
    <3>4. ~r.astray => \A i \in 1..full : b.chain_buf[i] = Octet("response", r, i)
      <4>1. \A i \in 1..0 : c.chain_buf[i] = Octet("response", r, i)
        OBVIOUS
      <4>2. 0 + full = full /\ 0 \in Nat /\ ChainBuf \in Nat
        BY <2>3
      <4> QED
        BY <2>3, <3>2, <4>1, <4>2, WrittenOctets
    <3>5. ~r.astray => chunk = Octets("response", r, 0, expected)
      <4>1. /\ 0 + expected = expected /\ expected <= ChainBuf
            /\ \A i \in 1..expected : i \in 1..full
        BY <2>3, <2>8
      <4> QED
        BY <3>4, <4>1, PieceOfOctets
    <3> HIDE DEF chunk, response, given
    <3>6. b.app = "FIDO" /\ ~g.astray => Agree(b, [g EXCEPT !.got = @ + Len(chunk)])
      <4>1. SUFFICES ASSUME ~g.astray
                     PROVE  Agree(b, [g EXCEPT !.got = @ + Len(chunk)])
        OBVIOUS
      <4>2. ~r.astray /\ Whole(c, r, data) /\ g.full = full /\ g.got = 0 /\ ~g.chaining
        BY <2>4, <4>1 DEF Whole
      <4>3. /\ [g EXCEPT !.got = @ + Len(chunk)].got = expected
            /\ [g EXCEPT !.got = @ + Len(chunk)].full = full
            /\ ~[g EXCEPT !.got = @ + Len(chunk)].chaining
            /\ [g EXCEPT !.got = @ + Len(chunk)].command = r.command
        BY <2>3, <2>4, <3>3, <4>2 DEF ReaderType
      <4> HIDE DEF g
      <4> QED
        BY <2>3, <2>8, <3>2, <3>4, <4>2, <4>3
        DEF Agree, Collected, Held, Fetching, Whole, Octet
    <3>7. chunk # <<>> /\ ~g.astray =>
            /\ chunk = Octets("response", g, g.got, Len(chunk))
            /\ "more" = (IF g.got + Len(chunk) < g.full THEN "more" ELSE "ok")
      <4> SUFFICES ASSUME ~g.astray
                   PROVE  /\ chunk = Octets("response", g, 0, expected)
                          /\ g.got = 0 /\ g.full = full
        BY <2>3, <2>8, <3>3
      <4> QED
        BY <2>4, <3>5, OctetsOfSame DEF Whole
    <3> HIDE DEF g
    <3> QED
      BY <2>3, <2>4, <2>5, <3>1, <3>2, <3>3, <3>6, <3>7, TransmitsKeeps DEF g
  <2> QED
    BY <2>3, <2>6, <2>7, <2>8
<1> QED
  BY <1>1, <1>2 DEF HandleCtap

LEMMA StoppedIs ==
    ASSUME NEW r \in ReaderType
    PROVE  /\ Stopped(r) \in ReaderType /\ ~Stopped(r).chaining
           /\ Stopped(r).got = r.got /\ Stopped(r).full = r.full
           /\ Stopped(r).astray = r.astray /\ Stopped(r).command = r.command
BY DEF Stopped, ReaderType

\* An APDU on which fido_handle_ctap_chain_in acts, if the reader is not astray, is the
\* first or another part of a request.
LEMMA PartIs ==
    ASSUME IInv, ctx.app = "FIDO", NEW a \in Apdus, a.ins # "select",
           NEW r, r = Sending(reader, a), ~r.astray,
           \/ a.cla = "chain" \/ ctx.chaining_in
           \/ a.ins = "msg" /\ ctx.chaining_out
    PROVE  /\ r.got = 0 /\ r.full = 0 /\ ~ctx.chaining_out
           /\ r.chaining = (a.le = 0)
           /\ a.cla = "chain" => r.sent = a.len
           /\ a.cla # "chain" =>
                 /\ ctx.chaining_in
                 /\ r.sent = ctx.chain_len + a.len
                 /\ \A i \in 1..ctx.chain_len : ctx.chain_buf[i] = Octet("request", r, i)
<1>1. /\ reader \in ReaderType /\ ~reader.astray /\ r \in ReaderType
      /\ Agree(ctx, reader)
  BY SendingIs DEF IInv
<1>2. CASE a.cla = "chain"
  <2>1. /\ a.ins = "msg" /\ a.le = 0 /\ ~Fetching(reader)
        /\ r = [NewReader(reader.command + 1) EXCEPT !.sent = a.len, !.chaining = TRUE]
    BY <1>1, <1>2, SendingIs, ApduIs
  <2>2. ~ctx.chaining_out
    BY <1>1, <2>1 DEF Agree
  <2>3. r.sent = a.len /\ r.got = 0 /\ r.full = 0 /\ r.chaining
    BY <2>1 DEF NewReader
  <2> QED
    BY <1>2, <2>1, <2>2, <2>3
<1>3. CASE a.cla # "chain"
  <2>1. reader.chaining
    <3> SUFFICES ASSUME ~reader.chaining PROVE FALSE
      OBVIOUS
    <3>1. ~ctx.chaining_in /\ a.ins = "msg" /\ ctx.chaining_out
      BY <1>1, <1>3 DEF Agree
    <3>2. ~Fetching(reader)
      BY <1>1, <3>1, SendingIs
    <3> QED
      BY <1>1, <3>1, <3>2 DEF Agree
  <2>2. /\ ctx.chaining_in /\ reader.got = 0 /\ reader.full = 0
        /\ ctx.chain_len = reader.sent
        /\ \A i \in 1..reader.sent : ctx.chain_buf[i] = Octet("request", reader, i)
        /\ ~ctx.chaining_out
    BY <1>1, <2>1 DEF Agree, Collected, Fetching
  <2>3. a.ins = "msg" /\ a.cla = "ctap"
    BY <1>1, <1>3, <2>1, SendingIs, ApduIs
  <2>4. r = [reader EXCEPT !.sent = @ + a.len, !.chaining = (a.le = 0)]
    BY <1>1, <2>1, <2>3, SendingIs
  <2>5. /\ r.sent = reader.sent + a.len /\ r.chaining = (a.le = 0)
        /\ r.got = reader.got /\ r.full = reader.full /\ r.command = reader.command
    BY <1>1, <2>4 DEF ReaderType
  <2> QED
    BY <1>3, <2>2, <2>5 DEF Octet
<1> QED
  BY <1>2, <1>3

LEMMA ChainInKeeps ==
    ASSUME IInv, ctx.app = "FIDO", NEW a \in Apdus, a.ins # "select",
           \/ a.cla = "chain" \/ ctx.chaining_in
           \/ a.ins = "msg" /\ ctx.chaining_out,
           NEW r, r = Sending(reader, a),
           ChainIn(ctx, r, a)
    PROVE  IInv'
<1> USE CtapNfcAssumption
<1> DEFINE at == IF a.cla = "chain" THEN 0 ELSE ctx.chain_len
           taken == [ctx EXCEPT !.chain_buf = Written(@, at, Data(r, a)),
                                !.chain_len = at + a.len]
<1>1. /\ reader \in ReaderType /\ r \in ReaderType /\ ContextTyped(ctx)
      /\ a.len \in Nat /\ a.le \in Nat /\ at \in Nat /\ ChainBuf \in Nat
  BY SendingIs, ApduIs DEF IInv, ContextTyped
<1>2. ~r.astray =>
        /\ r.got = 0 /\ r.full = 0 /\ ~ctx.chaining_out
        /\ r.chaining = (a.le = 0)
        /\ r.sent = at + a.len
        /\ a.cla # "chain" => ctx.chaining_in
        /\ \A i \in 1..at : ctx.chain_buf[i] = Octet("request", r, i)
  <2>1. r.astray \in BOOLEAN
    BY <1>1 DEF ReaderType
  <2> SUFFICES ASSUME ~r.astray
               PROVE  /\ r.got = 0 /\ r.full = 0 /\ ~ctx.chaining_out
                      /\ r.chaining = (a.le = 0)
                      /\ r.sent = at + a.len
                      /\ a.cla # "chain" => ctx.chaining_in
                      /\ \A i \in 1..at : ctx.chain_buf[i] = Octet("request", r, i)
    BY <2>1
  <2>2. /\ r.got = 0 /\ r.full = 0 /\ ~ctx.chaining_out
        /\ r.chaining = (a.le = 0)
        /\ a.cla = "chain" => r.sent = a.len
        /\ a.cla # "chain" =>
              /\ ctx.chaining_in
              /\ r.sent = ctx.chain_len + a.len
              /\ \A i \in 1..ctx.chain_len : ctx.chain_buf[i] = Octet("request", r, i)
    BY PartIs
  <2> QED
    BY <1>1, <2>2
<1> HIDE DEF at
<1>3. CASE at + a.len > ChainBuf
  <2>1. Refuses(ResetChain(ctx), Stopped(r), "wrong_length")
    BY <1>1, <1>3 DEF ChainIn, at
  <2>2. Agree(ResetChain(ctx), Stopped(r))
    BY <1>1, <1>2, ContextOf, StoppedIs DEF Agree, Collected, Held, Fetching
  <2> QED
    BY <1>1, <2>1, <2>2, ContextOf, StoppedIs, RefusesKeeps
<1>4. ASSUME at + a.len <= ChainBuf PROVE IInv'
  <2>1. /\ ContextTyped(taken) /\ taken.app = ctx.app
        /\ taken.chain_buf = Written(ctx.chain_buf, at, Data(r, a))
        /\ taken.chain_len = at + a.len
        /\ taken.chaining_in = ctx.chaining_in /\ taken.chaining_out = ctx.chaining_out
    <3>1. at + a.len \in Nat
      BY <1>1
    <3> QED
      BY <1>1, <3>1 DEF ContextTyped
  <2>2. ~r.astray => \A i \in 1..(at + a.len) : taken.chain_buf[i] = Octet("request", r, i)
    <3>1. SUFFICES ASSUME ~r.astray
                   PROVE  \A i \in 1..(at + a.len) :
                             Written(ctx.chain_buf, at, Data(r, a))[i] = Octet("request", r, i)
      BY <2>1
    <3>2. Data(r, a) = Octets("request", r, at, a.len)
      <4>1. r.sent - a.len = at
        BY <1>1, <1>2, <3>1
      <4> QED
        BY <4>1 DEF Data
    <3> QED
      BY <1>1, <1>2, <1>4, <3>1, <3>2, WrittenOctets
  <2>3. CASE a.cla = "chain"
    <3> DEFINE c == [taken EXCEPT !.chain_offset = 0, !.chaining_in = TRUE]
    <3>1. Refuses(c, r, "ok")
      BY <1>4, <2>3 DEF ChainIn, at
    <3> HIDE DEF taken
    <3>2. /\ ContextTyped(c) /\ c.chain_buf = taken.chain_buf /\ c.chaining_in
          /\ c.chain_len = taken.chain_len /\ c.chaining_out = taken.chaining_out
      BY <2>1 DEF ContextTyped
    <3> HIDE DEF c
    <3>3. a.le = 0
      BY <2>3, ApduIs
    <3>4. Agree(c, r)
      <4>1. CASE r.astray
        BY <4>1 DEF Agree
      <4>2. CASE ~r.astray
        <5>1. /\ r.chaining /\ r.got = 0 /\ r.full = 0 /\ ~c.chaining_out /\ c.chaining_in
              /\ r.sent <= ChainBuf /\ c.chain_len = r.sent
          BY <1>2, <1>4, <2>1, <3>2, <3>3, <4>2
        <5>2. \A i \in 1..r.sent : c.chain_buf[i] = Octet("request", r, i)
          BY <1>2, <2>2, <3>2, <4>2
        <5> QED
          BY <5>1, <5>2 DEF Agree, Collected, Held, Fetching
      <4> QED
        BY <4>1, <4>2
    <3> QED
      BY <1>1, <3>1, <3>2, <3>4, RefusesKeeps
  <2>4. CASE a.cla # "chain" /\ a.le = 0
    <3>1. Refuses(taken, r, "ok")
      BY <1>4, <2>4 DEF ChainIn, at
    <3> HIDE DEF taken
    <3>2. Agree(taken, r)
      <4>1. CASE r.astray
        BY <4>1 DEF Agree
      <4>2. CASE ~r.astray
        <5>1. /\ r.chaining /\ r.got = 0 /\ r.full = 0
              /\ ~taken.chaining_out /\ taken.chaining_in
              /\ r.sent <= ChainBuf /\ taken.chain_len = r.sent
          BY <1>2, <1>4, <2>1, <2>4, <4>2
        <5>2. \A i \in 1..r.sent : taken.chain_buf[i] = Octet("request", r, i)
          BY <1>2, <2>2, <4>2
        <5> QED
          BY <5>1, <5>2 DEF Agree, Collected, Held, Fetching
      <4> QED
        BY <4>1, <4>2
    <3> QED
      BY <1>1, <2>1, <3>1, <3>2, RefusesKeeps
  <2>5. CASE a.cla # "chain" /\ a.le # 0
    <3> DEFINE c == [taken EXCEPT !.chaining_in = FALSE]
               data == Piece(taken.chain_buf, 0, taken.chain_len)
    <3>1. HandleCtap(c, r, data, ShortExpected(a.le))
      BY <1>1, <1>4, <2>5 DEF ChainIn, at
    <3> HIDE DEF taken
    <3>2. /\ ContextTyped(c) /\ c.app = "FIDO"
          /\ ~c.chaining_in /\ c.chaining_out = taken.chaining_out
      BY <2>1 DEF ContextTyped
    <3>3. Whole(c, r, data)
      BY <1>2, <2>1, <2>5, <3>2 DEF Whole
    <3>4. ~r.astray => data = Octets("request", r, 0, r.sent)
      <4>1. 0 + (at + a.len) = at + a.len /\ at + a.len \in Nat
        BY <1>1
      <4> QED
        BY <1>1, <1>2, <1>4, <2>1, <2>2, <4>1, PieceOfOctets
    <3>5. ShortExpected(a.le) \in Nat /\ ShortExpected(a.le) > 0
      BY <1>1 DEF ShortExpected
    <3> HIDE DEF c, data
    <3> QED
      BY <1>1, <3>1, <3>2, <3>3, <3>4, <3>5, HandleCtapKeeps
  <2> QED
    BY <2>3, <2>4, <2>5
<1> QED
  BY <1>1, <1>3, <1>4

-----------------------------------------------------------------------------
(* The actions.                                                            *)

LEMMA RequestKeeps ==
    ASSUME IInv, NEW a \in Apdus, Request(a)
    PROVE  IInv'
<1> USE CtapNfcAssumption
<1> DEFINE r == Sending(reader, a)
<1>1. /\ a.ins = "msg" /\ a.cla = "ctap" /\ ctx.app = "FIDO" /\ ~ctx.chaining_in
  BY DEF Request, Plain, ForFido
<1>2. /\ reader \in ReaderType /\ ContextTyped(ctx) /\ Agree(ctx, reader) /\ r \in ReaderType
      /\ a.len \in Nat /\ a.le \in Nat /\ a.extended \in BOOLEAN
  BY <1>1, SendingIs, ApduIs DEF IInv
<1>3. ~r.astray =>
        /\ ~Fetching(reader) /\ ~ctx.chaining_out
        /\ r.sent = a.len /\ r.got = 0 /\ r.full = 0 /\ ~r.chaining
  <2> SUFFICES ASSUME ~r.astray
               PROVE  /\ ~Fetching(reader) /\ ~ctx.chaining_out
                      /\ r.sent = a.len /\ r.got = 0 /\ r.full = 0 /\ ~r.chaining
    OBVIOUS
  <2>1. ~reader.astray /\ ~reader.chaining
    BY <1>1, <1>2, SendingIs DEF Agree, Collected
  <2>2. /\ ~Fetching(reader)
        /\ r = [NewReader(reader.command + 1) EXCEPT !.sent = a.len, !.chaining = FALSE]
    BY <1>1, <1>2, <2>1, SendingIs
  <2>3. r.sent = a.len /\ r.got = 0 /\ r.full = 0 /\ ~r.chaining
    BY <2>2 DEF NewReader
  <2> QED
    BY <1>1, <1>2, <2>1, <2>2, <2>3 DEF Agree
<1>4. ~r.astray => Data(r, a) = Octets("request", r, 0, r.sent)
  BY <1>2, <1>3 DEF Data
<1>5. CASE ~a.extended /\ ctx.chaining_out /\ ChainIn(ctx, r, a)
  BY <1>1, <1>5, ChainInKeeps
<1> HIDE DEF r
<1>6. CASE Refuses(ctx, r, "wrong_data")
  <2>1. Agree(ctx, r)
    BY <1>1, <1>3 DEF Agree, Collected, Held, Fetching
  <2> QED
    BY <1>2, <1>6, <2>1, RefusesKeeps
<1>7. ASSUME NEW extended \in BOOLEAN, NEW expected \in Nat, expected > 0,
             HandleCtap([ctx EXCEPT !.extended = extended], r, Data(r, a), expected)
      PROVE  IInv'
  <2> DEFINE c == [ctx EXCEPT !.extended = extended]
             data == Data(r, a)
  <2>1. /\ ContextTyped(c) /\ c.app = "FIDO" /\ c.chaining_in = ctx.chaining_in
        /\ c.chaining_out = ctx.chaining_out
    BY <1>1, <1>2 DEF ContextTyped
  <2> HIDE DEF c, data
  <2>2. Whole(c, r, data)
    BY <1>1, <1>3, <2>1 DEF Whole
  <2>3. HandleCtap(c, r, data, expected)
    BY <1>7 DEF c, data
  <2>4. data # <<>> /\ ~r.astray => data = Octets("request", r, 0, r.sent)
    BY <1>4 DEF data
  <2> QED
    BY <1>2, <1>7, <2>1, <2>2, <2>3, <2>4, HandleCtapKeeps
<1>8. \/ ~a.extended /\ ctx.chaining_out /\ ChainIn(ctx, r, a)
      \/ Refuses(ctx, r, "wrong_data")
      \/ HandleCtap([ctx EXCEPT !.extended = FALSE], r, Data(r, a), ShortLe)
      \/ /\ a.len > 0
         /\ HandleCtap([ctx EXCEPT !.extended = TRUE], r, Data(r, a),
                       IF a.le = 0 THEN MaxResponse ELSE a.le)
  BY DEF Request, r
<1>9. CASE HandleCtap([ctx EXCEPT !.extended = FALSE], r, Data(r, a), ShortLe)
  BY <1>7, <1>9
<1>10. CASE /\ a.len > 0
            /\ HandleCtap([ctx EXCEPT !.extended = TRUE], r, Data(r, a),
                          IF a.le = 0 THEN MaxResponse ELSE a.le)
  <2>1. CASE a.le # 0
    <3>1. HandleCtap([ctx EXCEPT !.extended = TRUE], r, Data(r, a), a.le)
      BY <1>10, <2>1
    <3>2. a.le \in Nat /\ a.le > 0
      BY <1>2, <2>1
    <3> QED
      BY <1>7, <3>1, <3>2
  <2>2. CASE a.le = 0 /\ MaxResponse > 0
    BY <1>7, <1>10, <2>2
  <2>3. CASE a.le = 0 /\ MaxResponse = 0
    \* ctap_request would have no response to give.
    <3>1. HandleCtap([ctx EXCEPT !.extended = TRUE], r, Data(r, a), 0)
      BY <1>10, <2>3
    <3>2. Len(Data(r, a)) = a.len /\ Data(r, a) # <<>>
      <4>1. r.sent - a.len \in Int
        BY <1>2 DEF ReaderType
      <4> QED
        BY <1>2, <1>10, <4>1, OctetsAre DEF Data
    <3>3. \E full \in 1..MaxResponse : TRUE
      BY <3>1, <3>2 DEF HandleCtap
    <3> QED
      BY <2>3, <3>3
  <2> QED
    BY <2>1, <2>2, <2>3
<1> QED
  BY <1>5, <1>6, <1>8, <1>9, <1>10 DEF r

LEMMA GetResponseKeeps ==
    ASSUME IInv, NEW a \in Apdus, GetResponse(a)
    PROVE  IInv'
<1> USE CtapNfcAssumption
<1> DEFINE n == IF ctx.chain_len <= ShortExpected(a.le) THEN ctx.chain_len
                ELSE ShortExpected(a.le)
           chunk == Piece(ctx.chain_buf, ctx.chain_offset, n)
           rest == [ctx EXCEPT !.chain_offset = InBuffer(@ + n), !.chain_len = @ - n]
<1>1. /\ reader \in ReaderType /\ ContextTyped(ctx) /\ Agree(ctx, reader)
      /\ ctx.app = "FIDO" /\ ~ctx.chaining_in /\ a.le \in Nat
      /\ ctx.chain_len \in Nat /\ ctx.chain_offset \in Nat
  BY ApduIs DEF GetResponse, Plain, ForFido, IInv, ContextTyped
<1>2. ShortExpected(a.le) \in Nat /\ ShortExpected(a.le) > 0
  BY <1>1 DEF ShortExpected
<1>3. n \in Nat /\ n <= ctx.chain_len
  BY <1>1, <1>2
<1>4. CASE \E sw \in {"wrong_params", "refused"} : Refuses(ctx, reader, sw)
  BY <1>1, <1>4, RefusesKeeps
<1> DEFINE ends == ctx.chaining_out /\ n = ctx.chain_len
                    /\ Replies(ResetChain(ctx), reader, "ok", chunk)
           continues == ctx.chaining_out /\ n < ctx.chain_len
                    /\ Replies(rest, reader, "more", chunk)
<1>5. \/ \E sw \in {"wrong_params", "refused"} : Refuses(ctx, reader, sw)
      \/ ends \/ continues
  <2>1. ctx.chaining_out \in BOOLEAN
    BY <1>1 DEF ContextTyped
  <2>2. CASE ~ctx.chaining_out
    BY <2>2 DEF GetResponse
  <2>3. CASE ctx.chaining_out /\ ctx.chain_len = 0
    BY <2>3 DEF GetResponse
  <2>4. CASE ctx.chaining_out /\ ctx.chain_len # 0 /\ n = ctx.chain_len
    BY <1>1, <2>4 DEF GetResponse
  <2>5. CASE ctx.chaining_out /\ ctx.chain_len # 0 /\ n # ctx.chain_len
    BY <1>1, <1>3, <2>5 DEF GetResponse
  <2> QED
    BY <2>1, <2>2, <2>3, <2>4, <2>5
<1> HIDE DEF n
<1>6. Len(chunk) = n
  BY <1>1, <1>3, PieceIs
<1>7. ctx.chaining_out /\ ~reader.astray =>
        /\ ctx.chain_offset = reader.got /\ ctx.chain_len = reader.full - reader.got
        /\ reader.got < reader.full /\ reader.full <= ChainBuf /\ ~reader.chaining
        /\ \A i \in 1..reader.full : ctx.chain_buf[i] = Octet("response", reader, i)
  BY <1>1 DEF Agree, Held, Fetching, Collected
<1>8. ctx.chaining_out /\ ~reader.astray =>
        chunk = Octets("response", reader, reader.got, n)
  <2> SUFFICES ASSUME ctx.chaining_out, ~reader.astray
               PROVE  Piece(ctx.chain_buf, reader.got, n)
                        = Octets("response", reader, reader.got, n)
    BY <1>7
  <2>1. /\ reader.got \in Nat /\ reader.full \in Nat /\ reader.got + n <= reader.full
        /\ reader.got + n \in Nat
    BY <1>1, <1>3, <1>7 DEF ReaderType
  <2>2. reader.got + n <= ChainBuf
    BY <1>7, <2>1
  <2>3. \A i \in 1..(reader.got + n) : ctx.chain_buf[i] = Octet("response", reader, i)
    BY <1>7, <2>1
  <2> QED
    BY <1>3, <2>1, <2>2, <2>3, PieceOfOctets
<1> HIDE DEF chunk
<1> DEFINE s == [reader EXCEPT !.got = @ + Len(chunk)]
<1>9. /\ s.got = reader.got + n /\ s.full = reader.full /\ s.command = reader.command
      /\ s.chaining = reader.chaining /\ reader.got \in Nat /\ reader.full \in Nat
      /\ s.astray = reader.astray
  BY <1>1, <1>6 DEF ReaderType
<1> HIDE DEF s
<1>10. CASE ends
  <2>1. /\ Transmits(ResetChain(ctx), reader, "ok", chunk)
        /\ passed' = <<>> /\ n = ctx.chain_len /\ ctx.chaining_out
    BY <1>10 DEF Replies
  <2>2. Agree(ResetChain(ctx), s)
    BY <1>1, <1>3, <1>7, <1>9, <2>1, ContextOf DEF Agree, Collected, Held, Fetching
  <2>3. ~reader.astray => /\ chunk = Octets("response", reader, reader.got, Len(chunk))
                          /\ ~(reader.got + Len(chunk) < reader.full)
    BY <1>1, <1>3, <1>6, <1>7, <1>8, <1>9, <2>1
  <2> QED
    BY <1>1, <1>3, <1>6, <2>1, <2>2, <2>3, ContextOf, TransmitsKeeps DEF s
<1>11. CASE continues
  <2>1. /\ Transmits(rest, reader, "more", chunk)
        /\ passed' = <<>> /\ n < ctx.chain_len /\ ctx.chaining_out
    BY <1>11 DEF Replies
  <2>2. InBuffer(ctx.chain_offset + n) \in Nat /\ ctx.chain_len - n \in Nat
    BY <1>1, <1>3, <2>1 DEF InBuffer
  <2>3. /\ ContextTyped(rest) /\ rest.chaining_in = ctx.chaining_in
        /\ rest.chaining_out = ctx.chaining_out
        /\ rest.chain_buf = ctx.chain_buf /\ rest.chain_len = ctx.chain_len - n
        /\ rest.chain_offset = InBuffer(ctx.chain_offset + n)
    BY <1>1, <2>2 DEF ContextTyped
  <2> HIDE DEF rest
  <2>4. ~reader.astray =>
          /\ s.got < s.full /\ rest.chain_offset = s.got
          /\ rest.chain_len = s.full - s.got /\ s.full <= ChainBuf
          /\ \A i \in 1..s.full : rest.chain_buf[i] = Octet("response", s, i)
    <3> SUFFICES ASSUME ~reader.astray
                 PROVE  /\ s.got < s.full /\ rest.chain_offset = s.got
                        /\ rest.chain_len = s.full - s.got /\ s.full <= ChainBuf
                        /\ \A i \in 1..s.full : rest.chain_buf[i] = Octet("response", s, i)
      OBVIOUS
    <3>1. /\ s.got < s.full /\ rest.chain_len = s.full - s.got /\ s.full <= ChainBuf
          /\ ctx.chain_offset + n = s.got /\ s.got <= ChainBuf
      BY <1>1, <1>3, <1>7, <1>9, <2>1, <2>3
    <3>2. rest.chain_offset = s.got
      BY <2>3, <3>1 DEF InBuffer
    <3> QED
      BY <1>7, <1>9, <2>1, <2>3, <3>1, <3>2 DEF Octet
  <2>5. Agree(rest, s)
    BY <1>1, <1>7, <1>9, <2>1, <2>3, <2>4 DEF Agree, Collected, Held, Fetching
  <2>6. ~reader.astray => /\ chunk = Octets("response", reader, reader.got, Len(chunk))
                          /\ reader.got + Len(chunk) < reader.full
    BY <1>6, <1>8, <1>9, <2>1, <2>4
  <2> QED
    BY <1>1, <1>3, <1>6, <2>1, <2>3, <2>5, <2>6, TransmitsKeeps DEF s
<1> QED
  BY <1>4, <1>5, <1>10, <1>11

LEMMA SelectKeeps ==
    ASSUME IInv, NEW a \in Apdus, Select(a)
    PROVE  IInv'
<1> DEFINE selected == [ctx EXCEPT !.app = IF a.app = "other" THEN "none" ELSE a.app]
           c == IF a.app = "other" THEN selected ELSE ResetChain(selected)
           r == NewReader(reader.command)
<1>1. \E sw \in {"not_found", "ok"} : Refuses(c, r, sw)
  BY DEF Select
<1>2. ContextTyped(ctx) /\ reader.command \in Nat
  BY DEF IInv, ReaderType
<1>3. a.app \in {"FIDO", "NDEF", "other"}
  BY ApduIs DEF Select
<1>4. ContextTyped(selected) /\ (a.app = "other" => selected.app = "none")
  BY <1>2, <1>3 DEF ContextTyped
<1> HIDE DEF selected
<1>5. ContextTyped(c)
  BY <1>4, ContextOf
<1>6. Agree(c, r)
  <2>1. r.got = 0 /\ r.full = 0 /\ ~r.chaining
    BY <1>2, NewReaderIs
  <2>2. c.app = "FIDO" => ~c.chaining_in /\ ~c.chaining_out
    BY <1>4, ContextOf
  <2> HIDE DEF c, r
  <2> QED
    BY <2>1, <2>2 DEF Agree, Collected, Held, Fetching
<1>7. r \in ReaderType
  BY <1>2, NewReaderIs
<1> QED
  BY <1>1, <1>5, <1>6, <1>7, RefusesKeeps

LEMMA NotForFidoKeeps ==
    ASSUME IInv, NEW a \in Apdus, NotForFido(a)
    PROVE  IInv'
<1> DEFINE r == Stopped(Sending(reader, a))
<1>1. a.ins # "select" /\ ctx.app # "FIDO" /\ Refuses(ctx, r, "refused")
  BY DEF NotForFido
<1>2. r \in ReaderType
  BY <1>1, SendingIs, StoppedIs DEF IInv
<1>3. Agree(ctx, r)
  BY <1>1 DEF Agree
<1> QED
  BY <1>1, <1>2, <1>3, RefusesKeeps DEF IInv

LEMMA DeselectKeeps ==
    ASSUME IInv, NEW a \in Apdus, Deselect(a)
    PROVE  IInv'
<1> DEFINE left == [ctx EXCEPT !.app = "none"]
<1>1. Refuses(ResetChain(left), NewReader(reader.command), "ok")
  BY DEF Deselect
<1>2. ContextTyped(left) /\ left.app = "none" /\ reader.command \in Nat
  BY DEF IInv, ReaderType, ContextTyped
<1> HIDE DEF left
<1>3. ContextTyped(ResetChain(left)) /\ Agree(ResetChain(left), NewReader(reader.command))
  BY <1>2, ContextOf DEF Agree
<1> QED
  BY <1>1, <1>2, <1>3, NewReaderIs, RefusesKeeps

LEMMA NewSessionKeeps ==
    ASSUME IInv, NewSession
    PROVE  IInv'
<1>1. /\ ctx' = InitSession(ctx) /\ reader' = reader /\ passed' = <<>>
      /\ reply'.data = <<>>
  BY DEF NewSession, NoReply
<1>2. ContextTyped(ctx') /\ Agree(ctx', reader')
  BY <1>1, ContextOf DEF IInv, Agree
<1> QED
  BY <1>1, <1>2, InvariantNext DEF IInv

-----------------------------------------------------------------------------
(* The theorems.                                                           *)

LEMMA InitIInv ==
    Init => IInv
<1> SUFFICES ASSUME Init PROVE IInv
  OBVIOUS
<1>1. reader \in ReaderType /\ ~reader.chaining /\ ~Fetching(reader)
  BY NewReaderIs DEF Init, Fetching
<1>2. ContextTyped(ctx) /\ ctx.app = "none"
  BY DEF Init, NoContext, ContextTyped
<1>3. Agree(ctx, reader)
  BY <1>2 DEF Agree
<1>4. RequestAsSent /\ ResponseAsGiven
  BY DEF Init, NoReply, RequestAsSent, ResponseAsGiven
<1> QED
  BY <1>1, <1>2, <1>3, <1>4 DEF IInv

LEMMA NextIInv ==
    IInv /\ [Next]_vars => IInv'
<1> SUFFICES ASSUME IInv, [Next]_vars PROVE IInv'
  OBVIOUS
<1>1. CASE NewSession
  BY <1>1, NewSessionKeeps
<1>2. CASE Malformed
  BY <1>2, RefusesKeeps DEF Malformed, IInv
<1>3. ASSUME NEW a \in Apdus, Select(a) PROVE IInv'
  BY <1>3, SelectKeeps
<1>4. ASSUME NEW a \in Apdus, NotForFido(a) PROVE IInv'
  BY <1>4, NotForFidoKeeps
<1>5. ASSUME NEW a \in Apdus, ChainPart(a) PROVE IInv'
  <2>1. /\ ctx.app = "FIDO" /\ a.ins # "select"
        /\ a.cla = "chain" \/ ctx.chaining_in
        /\ ChainIn(ctx, Sending(reader, a), a)
    BY <1>5 DEF ChainPart, ForFido
  <2> QED
    BY <2>1, ChainInKeeps
<1>6. ASSUME NEW a \in Apdus, Request(a) PROVE IInv'
  BY <1>6, RequestKeeps
<1>7. ASSUME NEW a \in Apdus, GetResponse(a) PROVE IInv'
  BY <1>7, GetResponseKeeps
<1>8. ASSUME NEW a \in Apdus, Deselect(a) PROVE IInv'
  BY <1>8, DeselectKeeps
<1>9. ASSUME NEW a \in Apdus, UnknownInstruction(a) PROVE IInv'
  BY <1>9, RefusesKeeps DEF UnknownInstruction, IInv
<1>10. CASE UNCHANGED vars
  BY <1>10 DEF vars, IInv, RequestAsSent, ResponseAsGiven, Agree, ContextTyped, Collected,
               Held, Fetching, ReaderType, Octets, Octet
<1> QED
  BY <1>1, <1>2, <1>3, <1>4, <1>5, <1>6, <1>7, <1>8, <1>9, <1>10 DEF Next

\* The invariant of the specification.
THEOREM Invariant ==
    Spec => []IInv
<1>1. Init => IInv
  BY InitIInv
<1>2. IInv /\ [Next]_vars => IInv'
  BY NextIInv
<1> QED
  BY <1>1, <1>2, PTL DEF Spec

\* Requests in one APDU, or in two parts and more, reach ctap_request as the reader sent
\* them (fido_handle_ctap_chain_in and fido_handle_ctap).
THEOREM RequestsArrive ==
    Spec => []RequestAsSent
<1>1. IInv => RequestAsSent
  BY DEF IInv
<1> QED
  BY <1>1, Invariant, PTL

\* Responses, in one piece or fetched with GET RESPONSE, reach the reader as ctap_request
\* gave them (fido_handle_ctap and fido_handle_ctap_chain_out).
THEOREM ResponsesArrive ==
    Spec => []ResponseAsGiven
<1>1. IInv => ResponseAsGiven
  BY DEF IInv
<1> QED
  BY <1>1, Invariant, PTL
=============================================================================
