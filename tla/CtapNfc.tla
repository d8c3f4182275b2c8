------------------------------ MODULE CtapNfc ------------------------------
(***************************************************************************)
(* The APDUs that carry CTAP requests and responses (nfc/Src/ctap_nfc.c    *)
(* and nfc_parse_and_respond in nfc/Src/nfc.c): the selection of applets,  *)
(* requests in one APDU or a chain of them, and responses that the reader  *)
(* fetches piece by piece with GET RESPONSE.  What goes on around an APDU  *)
(* is the subject of NfcSession.                                           *)
(*                                                                         *)
(* Lengths are in units of half a short APDU's longest data.  The octet i  *)
(* of the request or response of the command c is <<what, c, i>>; memory   *)
(* keeps what was last written to it.  Headers and data are as parsed.     *)
(*                                                                         *)
(* reader, reply and passed are history variables: no action depends on    *)
(* them, except that the number of commands is bounded.                    *)
(* An operator X_Y is the definition X with the plausible bug Y; nothing   *)
(* uses it.                                                                *)
(***************************************************************************)
EXTENDS Integers, Sequences

CONSTANTS
    ShortLe,        \* NFC_APDU_SHORT_MAX_LEN
    TxRoom,         \* what sizeof(tx_buf) has room for before the status word
    ChainBuf,       \* sizeof(ctx->chain_buf)
    MaxData,        \* bound: the data of an APDU
    MaxResponse,    \* the status and data of a response: sizeof(nfc_ctap_response_buffer)
    MaxCommands     \* bound: the commands readers begin

ASSUME CtapNfcAssumption ==
    /\ {ShortLe, TxRoom, ChainBuf, MaxData, MaxResponse, MaxCommands} \subseteq Nat
    /\ 0 < ShortLe /\ ShortLe <= TxRoom
    /\ MaxResponse <= ChainBuf

VARIABLES
    ctx,            \* nfc_runtime.ce_ctx
    passed,         \* what the last step passed to ctap_request
    reply,          \* the response that the last step has sent
    reader          \* what the reader has sent and got, see NewReader

vars == <<ctx, passed, reply, reader>>

-----------------------------------------------------------------------------
(* APDUs.                                                                  *)

\* app is what a SELECT selects; le is 0 without an Le, and the longest if the field is 0.
Apdu(cla, ins, app, len, le, extended) ==
    [cla |-> cla, ins |-> ins, app |-> app, len |-> len, le |-> le, extended |-> extended]

Selects == {Apdu("iso", "select", app, 1, 0, FALSE) : app \in {"FIDO", "NDEF", "other"}}
Messages ==
    {Apdu("ctap", "msg", "none", len, le, extended) :
        len \in 0..MaxData, le \in 0..MaxResponse, extended \in BOOLEAN}
Parts == {Apdu("chain", "msg", "none", len, 0, FALSE) : len \in 0..MaxData}
GetResponses == {Apdu("ctap", "get_response", "none", 0, le, le >= ShortLe) : le \in 0..MaxResponse}
Others == {Apdu("ctap", ins, "none", 0, le, FALSE) : ins \in {"deselect", "unknown"}, le \in 0..1}

\* What fits into the forms: short data are shorter than ShortLe, and so is a short Le, if
\* it is not 0 for the longest.  Without data that short Le is not parsed (Encodings).
Apdus ==
    {a \in Selects \cup Messages \cup Parts \cup GetResponses \cup Others :
        ~a.extended => a.len <= ShortLe /\ a.le <= ShortLe}

-----------------------------------------------------------------------------
(* The reader, as its answers tell it.                                     *)

\* sent: what it has sent of the request of its last command; got: what it has of the
\* response, of full; chaining: more of the request is to come.  astray: since it last
\* selected an applet, it has begun a command while a response was not yet complete,
\* or sent another command between the parts of a request.
NewReader(command) ==
    [command |-> command, sent |-> 0, got |-> 0, full |-> 0,
     chaining |-> FALSE, astray |-> FALSE]

Fetching(r) == r.got < r.full

\* What it has in mind when it sends an APDU.  A part with the chaining CLA begins a request,
\* for fido_handle_ctap_chain_in restarts the buffer at each; the parts that follow have the
\* CLA of CTAP, and the last of them an Le.
Sending(r, a) ==
    CASE a.ins = "select" -> NewReader(r.command)
      [] a.ins # "select" /\ r.astray -> r
      [] a.ins = "msg" /\ ~r.astray /\ r.chaining /\ a.cla = "ctap" ->
            [r EXCEPT !.sent = @ + a.len, !.chaining = (a.le = 0)]
      [] a.ins = "msg" /\ ~r.astray /\ ~(r.chaining /\ a.cla = "ctap") /\ ~Fetching(r) ->
            [NewReader(r.command + 1) EXCEPT !.sent = a.len, !.chaining = (a.cla = "chain")]
      [] a.ins \notin {"select", "msg"} /\ ~r.astray /\ ~r.chaining -> r
      [] OTHER -> [NewReader(r.command) EXCEPT !.astray = TRUE]

\* The rest of a request that is refused does not come.
Stopped(r) == [r EXCEPT !.chaining = FALSE, !.sent = 0]

Octet(what, r, i) == <<what, r.command, i>>
NoOctet == <<"none", 0, 0>>

\* What a reader that is astray sends and is sent is not told apart.
Octets(what, r, first, n) ==
    [i \in 1..n |-> IF r.astray THEN NoOctet ELSE Octet(what, r, first + i)]

-----------------------------------------------------------------------------
(* The context.                                                            *)

NoContext == [app |-> "none", chain_buf |-> [i \in 1..ChainBuf |-> NoOctet],
              chain_offset |-> 0, chain_len |-> 0,
              chaining_in |-> FALSE, chaining_out |-> FALSE, extended |-> FALSE]

NoReply == [sw |-> "none", data |-> <<>>]

Init == ctx = NoContext /\ passed = <<>> /\ reply = NoReply /\ reader = NewReader(0)

\* nfc_init_session leaves the state of the chaining as it is.
InitSession(c) == [c EXCEPT !.app = "none"]

NewSession ==
    /\ ctx' = InitSession(ctx)
    /\ passed' = <<>> /\ reply' = NoReply
    /\ UNCHANGED reader

-----------------------------------------------------------------------------
(* Requests and responses.                                                 *)

Takes(a) == Sending(reader, a).command <= MaxCommands

ResetChain_KeepsOut(c) == [c EXCEPT !.chain_len = 0, !.chain_offset = 0, !.chaining_in = FALSE]
ResetChain(c) ==
    [c EXCEPT !.chain_len = 0, !.chain_offset = 0, !.chaining_in = FALSE, !.chaining_out = FALSE]

\* The reader r gets the response, if nfc_build_response has room for it; otherwise the
\* session ends before another APDU can come.
Transmits(c, r, sw, data) ==
    IF Len(data) <= TxRoom
    THEN /\ ctx' = c
         /\ reply' = [sw |-> sw, data |-> data]
         /\ reader' = IF r.astray THEN r ELSE [r EXCEPT !.got = @ + Len(data)]
    ELSE ctx' = InitSession(c) /\ reply' = NoReply /\ reader' = r

\* A response without ctap_request.
Replies(c, r, sw, data) ==
    /\ Transmits(c, r, sw, data)
    /\ passed' = <<>>

Refuses(c, r, sw) == Replies(c, r, sw, <<>>)

Written(buf, at, data) ==
    [i \in 1..ChainBuf |-> IF i \in (at + 1)..(at + Len(data)) THEN data[i - at] ELSE buf[i]]

\* What is after the buffer is nobody's octet, wherever it is.  Data appended to a response
\* that is fetched piece by piece move the offset past the buffer.
InBuffer(at) == IF at <= ChainBuf THEN at ELSE ChainBuf
Piece(buf, at, n) == [i \in 1..n |-> IF at + i <= ChainBuf THEN buf[at + i] ELSE NoOctet]

\* fido_handle_ctap with the data.
HandleCtap(c, r, data, expected) ==
    \/ data = <<>> /\ Refuses(c, r, "wrong_length")
    \/ /\ data # <<>>
       /\ passed' = data
       /\ \E full \in 1..MaxResponse :
            LET response == Octets("response", r, 0, full)
                given == IF r.astray THEN r ELSE [r EXCEPT !.full = full]
                in_one == IF c.extended THEN [c EXCEPT !.extended = FALSE, !.chain_len = 0]
                          ELSE [c EXCEPT !.chain_len = 0, !.chain_offset = 0]
                begun == [c EXCEPT !.chain_buf = Written(@, 0, response),
                                   !.chain_offset = expected, !.chain_len = full - expected,
                                   !.chaining_out = TRUE]
            IN  CASE full <= expected -> Transmits(in_one, given, "ok", response)
                  [] full > expected /\ c.extended -> Transmits(c, r, "wrong_length", <<>>)
                  [] OTHER -> Transmits(begun, given, "more", Piece(begun.chain_buf, 0, expected))

\* The data of the APDU that is received: the next octets of the reader's request.
Data(r, a) == Octets("request", r, r.sent - a.len, a.len)

ShortExpected(le) == IF le = 0 THEN ShortLe ELSE le

ChainIn_Restarted(c, r, a) ==
    LET taken == [c EXCEPT !.chain_buf = Written(@, 0, Data(r, a)), !.chain_len = a.len]
    IN  IF a.le = 0 THEN Refuses(taken, r, "ok")
        ELSE HandleCtap([taken EXCEPT !.chaining_in = FALSE], r,
                        Piece(taken.chain_buf, 0, taken.chain_len), ShortExpected(a.le))

\* fido_handle_ctap_chain_in.
ChainIn(c, r, a) ==
    LET at == IF a.cla = "chain" THEN 0 ELSE c.chain_len
        taken == [c EXCEPT !.chain_buf = Written(@, at, Data(r, a)), !.chain_len = at + a.len]
    IN  CASE at + a.len > ChainBuf ->
               Refuses(ResetChain(c), Stopped(r), "wrong_length")
          [] at + a.len <= ChainBuf /\ a.cla = "chain" ->
               Refuses([taken EXCEPT !.chain_offset = 0, !.chaining_in = TRUE], r, "ok")
          [] at + a.len <= ChainBuf /\ a.cla # "chain" /\ a.le = 0 ->
               Refuses(taken, r, "ok")
          [] OTHER ->
               HandleCtap([taken EXCEPT !.chaining_in = FALSE], r,
                          Piece(taken.chain_buf, 0, taken.chain_len), ShortExpected(a.le))

\* The SELECT of an applet works in every state.
Select(a) ==
    LET selected == [ctx EXCEPT !.app = IF a.app = "other" THEN "none" ELSE a.app]
    IN  /\ Takes(a)
        /\ a.ins = "select"
        /\ Refuses(IF a.app = "other" THEN selected ELSE ResetChain(selected),
                   NewReader(reader.command), IF a.app = "other" THEN "not_found" ELSE "ok")

\* What an applet other than FIDO's or none answers.
NotForFido(a) ==
    /\ Takes(a)
    /\ a.ins # "select" /\ ctx.app # "FIDO"
    /\ Refuses(ctx, Stopped(Sending(reader, a)), "refused")

\* ctx->chaining_in lets every APDU for the applet through to fido_handle_ctap_chain_in.
ForFido(a, ins) == Takes(a) /\ a.ins \in ins /\ ctx.app = "FIDO"

ChainPart(a) ==
    /\ ForFido(a, {"msg", "deselect", "get_response", "unknown"})
    /\ a.cla = "chain" \/ ctx.chaining_in
    /\ ChainIn(ctx, Sending(reader, a), a)

Plain(a, ins) == ForFido(a, ins) /\ a.cla = "ctap" /\ ~ctx.chaining_in

\* fido_handle_ctap_request_short and _extended.
Request(a) ==
    LET r == Sending(reader, a) IN
    /\ Plain(a, {"msg"})
    /\ \/ /\ ~a.extended /\ ctx.chaining_out
          /\ ChainIn(ctx, r, a)
       \/ /\ a.extended \/ ~ctx.chaining_out
          /\ a.len = 0
          /\ Refuses(ctx, r, "wrong_data")
       \/ /\ ~a.extended /\ ~ctx.chaining_out /\ a.len > 0
          /\ HandleCtap([ctx EXCEPT !.extended = FALSE], r, Data(r, a), ShortLe)
       \/ /\ a.extended /\ a.len > 0
          /\ HandleCtap([ctx EXCEPT !.extended = TRUE], r, Data(r, a),
                        IF a.le = 0 THEN MaxResponse ELSE a.le)

\* fido_handle_ctap_chain_out.
GetResponse(a) ==
    LET n == IF ctx.chain_len <= ShortExpected(a.le) THEN ctx.chain_len
             ELSE ShortExpected(a.le)
        chunk == Piece(ctx.chain_buf, ctx.chain_offset, n)
        rest == [ctx EXCEPT !.chain_offset = InBuffer(@ + n), !.chain_len = @ - n]
    IN  /\ Plain(a, {"get_response"})
        /\ CASE ~ctx.chaining_out -> Refuses(ctx, reader, "wrong_params")
             [] ctx.chaining_out /\ ctx.chain_len = 0 -> Refuses(ctx, reader, "refused")
             [] ctx.chaining_out /\ ctx.chain_len > 0 /\ n = ctx.chain_len ->
                  Replies(ResetChain(ctx), reader, "ok", chunk)
             [] OTHER -> Replies(rest, reader, "more", chunk)

Deselect(a) ==
    /\ Plain(a, {"deselect"})
    /\ Refuses(ResetChain([ctx EXCEPT !.app = "none"]), NewReader(reader.command), "ok")

\* What nfc_parse_apdu does not accept, for any applet.
Malformed == Refuses(ctx, reader, "wrong_length")

UnknownInstruction(a) ==
    /\ Plain(a, {"unknown"})
    /\ Refuses(ctx, reader, "refused")

Next ==
    \/ NewSession \/ Malformed
    \/ \E a \in Apdus :
          \/ Select(a) \/ NotForFido(a) \/ ChainPart(a) \/ Request(a) \/ GetResponse(a)
          \/ Deselect(a) \/ UnknownInstruction(a)

Spec == Init /\ [][Next]_vars

-----------------------------------------------------------------------------
(* Properties.                                                             *)

\* ctap_request gets what the reader has sent as its request, put together again, in
\* whatever way earlier sessions and other applets have left the chaining state.
RequestAsSent ==
    passed # <<>> /\ ~reader.astray =>
        passed = Octets("request", reader, 0, reader.sent)

\* The reader gets the response to its request, each octet once and in their order, and
\* the last of them, and only that, comes with NFC_SW_OK.
ResponseAsGiven ==
    reply.data # <<>> /\ ~reader.astray =>
        /\ reply.data = Octets("response", reader, reader.got - Len(reply.data), Len(reply.data))
        /\ reply.sw = (IF Fetching(reader) THEN "more" ELSE "ok")
=============================================================================
