-------------------------------- MODULE Wire --------------------------------
(* One client connection below the session: frames (ferrokey-protocol's     *)
(* codec.rs) written by the UI's client (client.rs, src/daemon.rs), cut     *)
(* anywhere by the socket, collected by the broker's streaming Decoder and  *)
(* admitted by the token bucket (ferrokeyd's rate_limit.rs) on their way to *)
(* the session.                                                             *)
(*                                                                          *)
(* A multi-byte integer and the four bytes of the magic are one symbol      *)
(* each, so a header is the two symbols <<Magic, length>>: it can still be  *)
(* cut in the middle.  A string is a sequence of symbols.                   *)
EXTENDS Integers, Sequences, FiniteSets

CONSTANTS
    Magic,        \* the symbol that starts a frame
    Codes,        \* key codes, nonces, versions and string symbols
    NotUtf8,      \* symbols that make a string invalid UTF-8
    ErrorCodes,   \* the ErrorCode values that decode
    MaxFrameLen, MaxStringLen,
    Burst,        \* burst.max(1)
    PerSecond,    \* per_second.max(1)
    Second,       \* clock ticks in a second
    Outbox,       \* messages an honest client may send
    MaxSent,      \* bound: messages an honest client sends
    Noise,        \* symbols any other peer writes
    MaxNoise,     \* bound: how many
    MaxRead,      \* symbols of one read
    MaxClock      \* bound: clock ticks

(* Opcode *)
OpHello == 1
OpOpen == 2
OpDown == 3
OpUp == 4
OpRepeat == 5
OpReleaseAll == 6
OpPing == 7
OpPong == 8
OpOk == 9
OpError == 10

Bare == {OpOpen, OpReleaseAll, OpOk}
OneArg == {OpDown, OpUp, OpRepeat, OpPing, OpPong}
WithText == {OpHello, OpError}

Msg(op, args, text) == [op |-> op, args |-> args, text |-> text]

(* enum Message *)
Messages ==
    [op : Bare, args : {<<>>}, text : {<<>>}]
    \cup [op : OneArg, args : {<<c>> : c \in Codes}, text : {<<>>}]
    \cup [op : {OpHello}, args : {<<c>> : c \in Codes}, text : Seq(Codes)]
    \cup [op : {OpError}, args : {<<c>> : c \in ErrorCodes}, text : Seq(Codes)]

ASSUME WireAssumption ==
    /\ Magic \in Nat /\ Codes \subseteq Nat /\ ErrorCodes \subseteq Codes
    /\ Codes \cap NotUtf8 = {}
    /\ MaxFrameLen \in Nat /\ MaxStringLen \in Nat /\ MaxStringLen + 3 <= MaxFrameLen
    /\ Burst \in Nat \ {0} /\ PerSecond \in Nat \ {0} /\ Second \in Nat \ {0}
    /\ Noise \subseteq Nat /\ MaxNoise \in Nat
    /\ MaxSent \in Nat /\ MaxRead \in Nat \ {0} /\ MaxClock \in Nat
    /\ Outbox \subseteq Messages

VARIABLES
    honest,    \* whether the peer is the UI's client or writes what it likes
    sent,      \* the messages (honest) or symbols (not) written
    client,    \* "open" or "dropped"
    pipe,      \* symbols in the socket
    received,  \* every symbol the broker has read
    buf,       \* Decoder.buf
    delivered, \* messages handed to the session
    conn,      \* "open", "limited" (ERROR queued), "malformed" or "eof"
    now, last, tokens, \* the clock and the TokenBucket, in 1/Second tokens
    window     \* a window opened at some moment: its start and what it admitted

vars == <<honest, sent, client, pipe, received, buf, delivered, conn, now, last, tokens, window>>

-----------------------------------------------------------------------------
(* Encoding.                                                                *)

(* push_string refuses what take_string would. *)
Encodable(m) == Len(m.text) <= MaxStringLen

EncodePayload(m) ==
    <<m.op>> \o m.args \o (IF m.op \in WithText THEN <<Len(m.text)>> \o m.text ELSE <<>>)

Encode(m) == <<Magic, Len(EncodePayload(m))>> \o EncodePayload(m)

-----------------------------------------------------------------------------
(* Decoding.  A result is a set: empty for an error.                        *)

(* take_string at pos: valid UTF-8, and all that is left. *)
TextFits(payload, pos) ==
    /\ Len(payload) >= pos
    /\ payload[pos] <= MaxStringLen
    /\ Len(payload) = pos + payload[pos]
    /\ \A i \in (pos + 1)..Len(payload) : payload[i] \notin NotUtf8

DecodePayload(payload) ==
    IF payload = <<>> THEN {}
    ELSE LET op == payload[1]
         IN  CASE op \in Bare /\ Len(payload) = 1 -> {Msg(op, <<>>, <<>>)}
               [] op \in OneArg /\ Len(payload) = 2 -> {Msg(op, <<payload[2]>>, <<>>)}
               [] /\ op \in WithText /\ Len(payload) >= 2
                  /\ op = OpError => payload[2] \in ErrorCodes
                  /\ TextFits(payload, 3) ->
                    {Msg(op, <<payload[2]>>, SubSeq(payload, 4, Len(payload)))}
               [] OTHER -> {}

HeaderLen == 2

BadHeader(b) == Len(b) >= HeaderLen /\ (b[1] /= Magic \/ b[2] > MaxFrameLen)

HasFrame(b) == Len(b) >= HeaderLen /\ ~BadHeader(b) /\ Len(b) >= HeaderLen + b[2]

(* Mutant: a payload that does not decode is skipped. *)
TakeFrameSkipsBad(s) ==
    LET end  == HeaderLen + s.buf[2]
        msgs == DecodePayload(SubSeq(s.buf, HeaderLen + 1, end))
    IN  [buf |-> SubSeq(s.buf, end + 1, Len(s.buf)),
         msgs |-> s.msgs \o (IF msgs = {} THEN <<>> ELSE <<CHOOSE m \in msgs : TRUE>>),
         bad |-> FALSE]

(* One turn of the loop in push: take the frame off the front. *)
TakeFrame(s) ==
    LET end  == HeaderLen + s.buf[2]
        msgs == DecodePayload(SubSeq(s.buf, HeaderLen + 1, end))
    IN  [buf |-> SubSeq(s.buf, end + 1, Len(s.buf)),
         msgs |-> s.msgs \o (IF msgs = {} THEN <<>> ELSE <<CHOOSE m \in msgs : TRUE>>),
         bad |-> msgs = {}]

(* The loop goes on while the buffer starts with a complete frame. *)
Turn(s) ==
    IF s.bad THEN s
    ELSE IF BadHeader(s.buf) THEN [s EXCEPT !.bad = TRUE]
    ELSE IF HasFrame(s.buf) THEN TakeFrame(s) ELSE s

Drain(all) ==
    LET turn[n \in 0..Len(all)] ==
            IF n = 0 THEN [buf |-> all, msgs |-> <<>>, bad |-> FALSE] ELSE Turn(turn[n - 1])
    IN  turn[Len(all)]

(* Decoder::push: drain the complete frames; an error anywhere drops what   *)
(* was decoded before it in this push, and the buffer.                      *)
Push(b, bytes) ==
    LET end == Drain(b \o bytes)
    IN  IF end.bad \/ Len(end.buf) > HeaderLen + MaxFrameLen
          THEN [buf |-> <<>>, msgs |-> <<>>, bad |-> TRUE]
          ELSE end

-----------------------------------------------------------------------------
(* The bucket: Second units are one token.                                  *)

(* Mutant: any idle time refills the bucket. *)
RefilledWhole(t, elapsed) == IF elapsed > 0 THEN Burst * Second ELSE t

Refilled(t, elapsed) ==
    LET full == Burst * Second
        sum  == t + elapsed * PerSecond
    IN  IF sum < full THEN sum ELSE full

(* TokenBucket::allow for k messages processed at one moment: how many pass *)
(* before the first refusal.                                                *)
Admitted(k, t) == IF k * Second <= t THEN k ELSE t \div Second

-----------------------------------------------------------------------------
Init ==
    /\ honest \in BOOLEAN
    /\ sent = <<>> /\ client = "open" /\ pipe = <<>>
    /\ received = <<>> /\ buf = <<>> /\ delivered = <<>> /\ conn = "open"
    /\ now = 0 /\ last = 0 /\ tokens = Burst * Second
    /\ window = [start |-> 0, admitted |-> 0]

(* Mutant: the link survives a cut frame. *)
SendKeepsLink(m) ==
    /\ honest /\ client = "open" /\ Len(sent) < MaxSent /\ Encodable(m)
    /\ \E n \in 0..Len(Encode(m)) : pipe' = pipe \o SubSeq(Encode(m), 1, n)
    /\ sent' = Append(sent, m)
    /\ UNCHANGED <<honest, client, received, buf, delivered, conn, now, last, tokens, window>>

(* Client::send through DaemonLink.send_message: the socket may take only a *)
(* part of the frame (it is non-blocking, or the broker is gone), and then  *)
(* the link is dropped, so nothing follows a cut frame.                     *)
Send(m) ==
    /\ honest /\ client = "open" /\ Len(sent) < MaxSent /\ Encodable(m)
    /\ \/ /\ pipe' = pipe \o Encode(m)
          /\ sent' = Append(sent, m)
          /\ UNCHANGED client
       \/ /\ \E n \in 0..(Len(Encode(m)) - 1) : pipe' = pipe \o SubSeq(Encode(m), 1, n)
          /\ client' = "dropped"
          /\ UNCHANGED sent
    /\ UNCHANGED <<honest, received, buf, delivered, conn, now, last, tokens, window>>

(* Any other peer writes any symbol. *)
Write(b) ==
    /\ ~honest /\ client = "open" /\ Len(sent) < MaxNoise
    /\ pipe' = Append(pipe, b)
    /\ sent' = Append(sent, b)
    /\ UNCHANGED <<honest, client, received, buf, delivered, conn, now, last, tokens, window>>

Drop ==
    /\ client = "open"
    /\ client' = "dropped"
    /\ UNCHANGED <<honest, sent, pipe, received, buf, delivered, conn, now, last, tokens, window>>

(* service_client: one read, one push, and the bucket in front of each      *)
(* message; the first refusal queues an ERROR and the rest are not seen.    *)
Service(n) ==
    LET d  == Push(buf, SubSeq(pipe, 1, n))
        t  == Refilled(tokens, now - last)
        ok == Admitted(Len(d.msgs), t)
    IN  /\ conn = "open" /\ n <= Len(pipe)
        /\ pipe' = SubSeq(pipe, n + 1, Len(pipe))
        /\ received' = received \o SubSeq(pipe, 1, n)
        /\ buf' = d.buf
        /\ delivered' = delivered \o SubSeq(d.msgs, 1, ok)
        /\ conn' = IF d.bad THEN "malformed" ELSE IF ok < Len(d.msgs) THEN "limited" ELSE "open"
        /\ IF d.msgs = <<>> THEN UNCHANGED <<last, tokens>>
           ELSE last' = now /\ tokens' = t - ok * Second
        /\ window' = [window EXCEPT !.admitted = @ + ok]
        /\ UNCHANGED <<honest, sent, client, now>>

(* A read of an empty socket whose peer is gone. *)
Eof ==
    /\ conn = "open" /\ client = "dropped" /\ pipe = <<>>
    /\ conn' = "eof"
    /\ UNCHANGED <<honest, sent, client, pipe, received, buf, delivered, now, last, tokens, window>>

Tick ==
    /\ now < MaxClock
    /\ now' = now + 1
    /\ UNCHANGED <<honest, sent, client, pipe, received, buf, delivered, conn, last, tokens, window>>

(* Start counting admissions afresh, at any moment. *)
OpenWindow ==
    /\ window' = [start |-> now, admitted |-> 0]
    /\ UNCHANGED <<honest, sent, client, pipe, received, buf, delivered, conn, now, last, tokens>>

Next ==
    \/ \E m \in Outbox : Send(m)
    \/ \E b \in Noise : Write(b)
    \/ Drop
    \/ \E n \in 1..MaxRead : Service(n)
    \/ Eof
    \/ Tick
    \/ OpenWindow

Spec == Init /\ [][Next]_vars

-----------------------------------------------------------------------------
(* Properties.                                                              *)

(* Type correctness of the bucket: never over the burst, and its clock      *)
(* never ahead of time.                                                     *)
TypeOK ==
    /\ now \in Nat /\ last \in 0..now
    /\ tokens \in 0..(Burst * Second)
    /\ window \in [start : 0..now, admitted : Nat]

EncodeAll(msgs) ==
    LET upto[n \in 0..Len(msgs)] == IF n = 0 THEN <<>> ELSE upto[n - 1] \o Encode(msgs[n])
    IN  upto[Len(msgs)]

(* Wherever the socket cuts the stream, and whatever a hostile peer writes, *)
(* the decoder loses, invents and reorders nothing: while the connection is *)
(* open, the messages delivered, encoded again, followed by the buffered    *)
(* rest are exactly the symbols received; afterwards they are still a       *)
(* prefix of them.                                                          *)
DecodesExactly ==
    LET bytes == EncodeAll(delivered)
    IN  IF conn \in {"open", "eof"} THEN bytes \o buf = received
        ELSE bytes = SubSeq(received, 1, Len(bytes)) /\ Len(bytes) <= Len(received)

(* The UI's own client is never taken for a malformed peer, though its      *)
(* writes may be cut short, and what reaches the session is what it sent,   *)
(* in order, without gaps.                                                  *)
HonestUnderstood ==
    honest =>
      /\ conn /= "malformed"
      /\ Len(delivered) <= Len(sent) /\ delivered = SubSeq(sent, 1, Len(delivered))

(* What the rate limiter promises: in any window of time at most the burst  *)
(* plus what the rate refills in it is admitted, however the messages are   *)
(* batched and however the idle time falls.                                 *)
WindowBound ==
    window.admitted * Second <= Burst * Second + PerSecond * (now - window.start)

=============================================================================
