------------------------------ MODULE VtParser ------------------------------
(* The escape-sequence parser of crates/ferrokey-terminal/src/parser.rs as  *)
(* a function from a parser state and a byte to the next state and the      *)
(* actions emitted.  A byte is its class: the bytes of a class are treated  *)
(* alike in every state.  A decoded character and the replacement for an    *)
(* undecodable one are both "print".                                        *)
EXTENDS Integers, Sequences, FiniteSets

CONSTANTS
    MaxCsiParams, \* limits::MAX_CSI_PARAMS
    MaxParam,     \* u16::MAX
    MaxOscLen,    \* limits::MAX_OSC_LEN
    MaxDcsLen,    \* limits::MAX_DCS_LEN
    Base,         \* 10: a digit d is the byte <<"digit", d>>
    Alphabet,     \* the bytes a stream is made of
    MaxSeen       \* bound: bytes of a control sequence after its introducer

ASSUME ParserAssumption ==
    /\ MaxCsiParams \in Nat \ {0} /\ MaxParam \in Nat \ {0}
    /\ MaxOscLen \in Nat /\ MaxDcsLen \in Nat /\ Base \in Nat \ {0}
    /\ MaxSeen \in Nat

B(class) == <<class, 0>>

(* 0x20-0x2F, 0x3C-0x3F, and 0x40-0x7E in the roles the states give them. *)
Digits        == {<<"digit", d>> : d \in 0..(Base - 1)}
Separators    == {B("sep")}
PrivateMarks  == {B("private"), B("keypad")}
Intermediates == {B("inter"), B("charset"), B("hash")}
EscFinals     == {B("escfinal"), B("keypad"), <<"digit", 7>>, <<"digit", 8>>}
Strings       == {B("sos"), B("dcs")}
Finals        == {B("final"), B("escfinal"), B("lock"), B("csi"), B("osc"),
                  B("st"), B("sos"), B("dcs")}
Cancels       == {B("cancel")}
Controls      == {B("bel"), B("control"), B("nul")}
C1Strings     == {B("c1sos")}
Continuations == {B("cont"), B("c1control"), B("c1other"), B("c1csi"), B("c1osc"),
                  B("c1dcs"), B("c1st")} \cup C1Strings
LeadLength    == [lead2 |-> 2, lead3 |-> 3, lead4 |-> 4]
Leads         == {B(l) : l \in DOMAIN LeadLength}

Bytes == Digits \cup Separators \cup PrivateMarks \cup Intermediates \cup Finals
    \cup Cancels \cup Controls \cup Continuations \cup Leads
    \cup {B("esc"), B("del"), B("badlead"), B("space_to_tilde")}

(* Printable ASCII: everything from 0x20 to 0x7E. *)
Printable == Digits \cup Separators \cup PrivateMarks \cup Intermediates \cup Finals
    \cup {B("space_to_tilde")}

States == {"Ground", "Escape", "EscapeIntermediate", "CharsetSelect", "LineAttributes",
    "CsiEntry", "CsiParam", "CsiIntermediate", "OscString", "DcsEntry",
    "DcsPassthrough", "SosPmApc"}

(* The fields of a control sequence. *)
NoSequence == [private |-> B("none"), params |-> <<>>, cur_param |-> 0,
               cur_param_overflow |-> FALSE, inter_count |-> 0]

NewParser == [state |-> "Ground", utf8_len |-> 0, utf8_expected |-> 0, seq |-> NoSequence,
              osc |-> 0, osc_truncated |-> FALSE, osc_pending_esc |-> FALSE, passthrough_len |-> 0]

(* A parser and what the byte made it emit. *)
Step(p, out) == [p |-> p, out |-> out]

To(p, state) == Step([p EXCEPT !.state = state], <<>>)

Stay(p) == Step(p, <<>>)

ResetSequence(p) == [p EXCEPT !.state = "Ground", !.seq = NoSequence]

-----------------------------------------------------------------------------
BeginOsc(p) ==
    Stay([p EXCEPT !.osc = 0, !.osc_truncated = FALSE, !.state = "OscString"])

EndOsc(p) ==
    Step([p EXCEPT !.osc = 0, !.state = "Ground", !.osc_pending_esc = FALSE],
         <<<<"osc", p.osc>>>>)

BeginString(p) == Stay([p EXCEPT !.passthrough_len = 0, !.state = "SosPmApc"])

(* The C0, C1, ASCII and lead-byte cases outside a UTF-8 sequence.  The C1  *)
(* DCS introducer keeps the old count of skipped bytes.                     *)
GroundByte(p, b) ==
    CASE b \in {B("bel"), B("control")} -> Step(p, <<<<"control", b>>>>)
      [] b = B("esc")        -> To(p, "Escape")
      [] b \in Printable     -> Step(p, <<<<"print", b>>>>)
      [] b = B("c1control")  -> Step(p, <<<<"control", b>>>>)
      [] b = B("c1csi")      -> To(p, "CsiEntry")
      [] b = B("c1osc")      -> BeginOsc(p)
      [] b = B("c1dcs")      -> To(p, "DcsEntry")
      [] b \in C1Strings     -> BeginString(p)
      [] b \in Leads         -> Stay([p EXCEPT !.utf8_len = 1, !.utf8_expected = LeadLength[b[1]]])
      [] b \in {B("c1other"), B("cont"), B("badlead")} -> Step(p, <<<<"print", b>>>>)
      [] OTHER               -> Stay(p)

(* A sequence in progress takes every continuation byte, C1 included; any   *)
(* other byte ends it with a replacement and is looked at afresh.           *)
Utf8Byte(p, b) ==
    LET done == [p EXCEPT !.utf8_len = 0]
        rest == GroundByte(done, b)
    IN  IF b \in Continuations
          THEN IF p.utf8_len + 1 = p.utf8_expected
                 THEN Step(done, <<<<"print", b>>>>)
                 ELSE Stay([p EXCEPT !.utf8_len = @ + 1])
          ELSE Step(rest.p, <<<<"print", B("badlead")>>>> \o rest.out)

Ground(p, b) == IF p.utf8_len > 0 THEN Utf8Byte(p, b) ELSE GroundByte(p, b)

(* Back to the ground state, which sees the byte. *)
Reprocess(p, b) == Ground([p EXCEPT !.state = "Ground"], b)

-----------------------------------------------------------------------------
(* Escape.  When it interrupted an OSC string only ST ends the string.      *)
Escape(p, b) ==
    IF p.osc_pending_esc
      THEN IF b = B("st") THEN EndOsc(p)
           ELSE Stay([p EXCEPT !.osc_pending_esc = FALSE, !.state = "OscString"])
      ELSE
        CASE b = B("esc")     -> Stay(p)
          [] b = B("csi")     -> To(p, "CsiEntry")
          [] b = B("osc")     -> BeginOsc(p)
          [] b = B("dcs")     -> Stay([p EXCEPT !.passthrough_len = 0, !.state = "DcsEntry"])
          [] b = B("sos")     -> BeginString(p)
          [] b = B("charset") -> To(p, "CharsetSelect")
          [] b = B("hash")    -> To(p, "LineAttributes")
          [] b \in EscFinals  -> Step([p EXCEPT !.state = "Ground"], <<<<"esc", b>>>>)
          [] b = B("inter")   -> Stay([p EXCEPT !.seq.inter_count = 1,
                                                !.state = "EscapeIntermediate"])
          [] OTHER            -> To(p, "Ground")

(* 0x30-0x7E *)
FinalOrParam(b) == b \in Digits \cup Separators \cup PrivateMarks \cup Finals
                         \cup {B("space_to_tilde")}

CollectIntermediate(p) ==
    Stay([p EXCEPT !.seq.inter_count = IF @ < 2 THEN @ + 1 ELSE @])

EscapeIntermediate(p, b) ==
    CASE b \in Cancels       -> To(p, "Ground")
      [] b \in Intermediates -> CollectIntermediate(p)
      [] FinalOrParam(b)     -> To(p, "Ground")
      [] OTHER               -> Reprocess(p, b)

CharsetSelect(p, b) ==
    IF FinalOrParam(b) THEN Step([p EXCEPT !.state = "Ground"], <<<<"charset", b>>>>)
    ELSE Reprocess(p, b)

LineAttributes(p, b) ==
    IF FinalOrParam(b) THEN Step([p EXCEPT !.state = "Ground"], <<<<"esc", b>>>>)
    ELSE Reprocess(p, b)

(* Mutant: the next parameter starts from the digits of the last. *)
PushParamKeepsDigits(p) ==
    [p EXCEPT !.seq.params = IF Len(@) < MaxCsiParams THEN Append(@, p.seq.cur_param) ELSE @,
              !.seq.cur_param_overflow = FALSE]

-----------------------------------------------------------------------------
(* Control sequences.                                                       *)

PushParam(p) ==
    [p EXCEPT !.seq.params = IF Len(@) < MaxCsiParams THEN Append(@, p.seq.cur_param) ELSE @,
              !.seq.cur_param = 0, !.seq.cur_param_overflow = FALSE]

Saturate(n) == IF n > MaxParam THEN MaxParam ELSE n

DigitParam(p, d) ==
    LET next == Saturate(Saturate(p.seq.cur_param * Base) + d)
    IN  IF p.seq.cur_param_overflow THEN p
        ELSE [p EXCEPT !.seq.cur_param = next,
                       !.seq.cur_param_overflow =
                            next = MaxParam /\ p.seq.cur_param > MaxParam \div Base]

EmitCsi(p, b) ==
    Step(ResetSequence(p),
         <<<<"csi", [private |-> p.seq.private, params |-> p.seq.params,
                     inter_count |-> p.seq.inter_count, final |-> b]>>>>)

BeginIntermediate(p) ==
    Stay([p EXCEPT !.seq.inter_count = 1, !.state = "CsiIntermediate"])

(* 0x40-0x7E *)
IsFinal(b) == b \in Finals \cup {B("space_to_tilde")}

CsiParam(p, b) ==
    CASE b \in Cancels       -> To(p, "Ground")
      [] b \in Digits        -> Stay(DigitParam(p, b[2]))
      [] b \in Separators    -> Stay(PushParam(p))
      [] b \in Intermediates -> BeginIntermediate(PushParam(p))
      [] IsFinal(b)          -> EmitCsi(PushParam(p), b)
      [] OTHER               -> Reprocess(ResetSequence(p), b)

(* Any other byte, an ESC included, is swallowed and the fields stay. *)
CsiEntry(p, b) ==
    CASE b \in PrivateMarks  -> Stay([p EXCEPT !.seq.private = b])
      [] b \in Digits \cup Separators -> CsiParam([p EXCEPT !.state = "CsiParam"], b)
      [] b \in Intermediates -> BeginIntermediate(p)
      [] IsFinal(b)          -> EmitCsi(p, b)
      [] OTHER               -> To(p, "Ground")

CsiIntermediate(p, b) ==
    CASE b \in Intermediates -> CollectIntermediate(p)
      [] b \in Digits \cup Separators \cup PrivateMarks ->
            CsiParam([p EXCEPT !.seq.private = B("none"), !.seq.params = <<>>, !.seq.cur_param = 0,
                               !.state = "CsiParam"], b)
      [] IsFinal(b)          -> EmitCsi(p, b)
      [] OTHER               -> To(p, "Ground")

(* Mutant: a cancel is one more byte of the string. *)
OscStringUncancelled(p, b) ==
    CASE b = B("bel")  -> EndOsc(p)
      [] b = B("esc")  -> Stay([p EXCEPT !.osc_pending_esc = TRUE, !.state = "Escape"])
      [] OTHER         -> Stay([p EXCEPT !.osc = IF @ < MaxOscLen THEN @ + 1 ELSE @])

-----------------------------------------------------------------------------
(* Strings: OSC is kept up to its bound, the others are only counted.       *)

OscString(p, b) ==
    CASE b = B("bel")  -> EndOsc(p)
      [] b = B("esc")  -> Stay([p EXCEPT !.osc_pending_esc = TRUE, !.state = "Escape"])
      [] b \in Cancels -> Stay([p EXCEPT !.osc = 0, !.state = "Ground"])
      [] OTHER         ->
            IF p.osc_truncated THEN Stay(p)
            ELSE IF p.osc < MaxOscLen THEN Stay([p EXCEPT !.osc = @ + 1])
            ELSE Stay([p EXCEPT !.osc_truncated = TRUE])

(* passthrough_len, capped one past MaxDcsLen where it stops mattering. *)
CountByte(p) ==
    Stay([p EXCEPT !.passthrough_len = IF @ > MaxDcsLen THEN @ ELSE @ + 1])

DcsEntry(p, b) ==
    CASE b \in Cancels -> To(p, "Ground")
      [] b \in Intermediates \cup Digits \cup Separators \cup PrivateMarks -> CountByte(p)
      [] b = B("esc")  -> To(p, "Escape")
      [] OTHER         -> To(p, "DcsPassthrough")

DcsPassthrough(p, b) ==
    CASE b \in Cancels \cup {B("c1st")} -> To(p, "Ground")
      [] b = B("esc")  -> To(p, "Escape")
      [] OTHER         -> CountByte(p)

SosPmApc(p, b) == DcsPassthrough(p, b)

(* Parser::advance *)
Advance(p, b) ==
    CASE p.state = "Ground"             -> Ground(p, b)
      [] p.state = "Escape"             -> Escape(p, b)
      [] p.state = "EscapeIntermediate" -> EscapeIntermediate(p, b)
      [] p.state = "CharsetSelect"      -> CharsetSelect(p, b)
      [] p.state = "LineAttributes"     -> LineAttributes(p, b)
      [] p.state = "CsiEntry"           -> CsiEntry(p, b)
      [] p.state = "CsiParam"           -> CsiParam(p, b)
      [] p.state = "CsiIntermediate"    -> CsiIntermediate(p, b)
      [] p.state = "OscString"          -> OscString(p, b)
      [] p.state = "DcsEntry"           -> DcsEntry(p, b)
      [] p.state = "DcsPassthrough"     -> DcsPassthrough(p, b)
      [] OTHER                          -> SosPmApc(p, b)

-----------------------------------------------------------------------------
(* A stream fed to the parser, byte by byte: how it is cut into reads makes *)
(* no difference, since all state is in the parser.                         *)
VARIABLES
    parser,  \* struct Parser
    out,     \* what the last byte made it emit
    fresh,   \* whether the introducer of the last CSI found the fields reset
    seen,    \* if so, the bytes after it
    cancels  \* consecutive CAN / SUB bytes, up to two

parserVars == <<parser, out, seen, fresh, cancels>>

ParserInit ==
    /\ parser = NewParser /\ out = <<>> /\ seen = <<>> /\ fresh = TRUE /\ cancels = 0

CsiStates == {"CsiEntry", "CsiParam", "CsiIntermediate"}

Feed(b) ==
    LET r     == Advance(parser, b)
        enter == r.p.state = "CsiEntry" /\ parser.state /= "CsiEntry"
        next  == IF b \in Cancels THEN cancels + 1 ELSE 0
    IN  /\ parser.state \in CsiStates => Len(seen) < MaxSeen
        /\ parser' = r.p /\ out' = r.out
        /\ seen' = IF parser.state \in CsiStates /\ fresh /\ ~enter THEN Append(seen, b) ELSE <<>>
        /\ fresh' = IF enter THEN r.p.seq = NoSequence ELSE fresh
        /\ cancels' = IF next > 2 THEN 2 ELSE next

(* At the bound a sequence is ended by a final byte. *)
Finish ==
    /\ parser.state \in CsiStates /\ Len(seen) = MaxSeen
    /\ LET r == Advance(parser, B("final"))
       IN  parser' = r.p /\ out' = r.out
    /\ seen' = Append(seen, B("final")) /\ cancels' = 0
    /\ UNCHANGED fresh

ParserNext == (\E b \in Alphabet : Feed(b)) \/ Finish

ParserSpec == ParserInit /\ [][ParserNext]_parserVars

-----------------------------------------------------------------------------
(* Properties.                                                              *)

(* Type correctness, and the bounds under hostile input: the parameter and  *)
(* intermediate arrays, the UTF-8 buffer and the OSC payload never outgrow  *)
(* their storage.                                                           *)
ParserTypeOK ==
    /\ parser.state \in States
    /\ parser.utf8_len \in 0..3 /\ parser.utf8_expected \in {0, 2, 3, 4}
    /\ parser.utf8_len > 0 => parser.utf8_len < parser.utf8_expected /\ parser.state = "Ground"
    /\ Len(parser.seq.params) <= MaxCsiParams
    /\ parser.seq.cur_param \in 0..MaxParam
    /\ parser.seq.inter_count \in 0..2
    /\ parser.osc \in 0..MaxOscLen
    /\ parser.osc_pending_esc => parser.state = "Escape"

(* Two cancel bytes bring the parser to the ground state from anywhere,     *)
(* with no half character pending.  One is not enough: after an ESC inside  *)
(* an OSC string the first is taken for part of the string.                 *)
CancelRecovers == cancels = 2 => parser.state = "Ground" /\ parser.utf8_len = 0

(* A control sequence as its grammar reads it, defined on the bytes after   *)
(* the introducer: marks, parameters, intermediates, one final byte.        *)
Count(s, set) == Cardinality({i \in DOMAIN s : s[i] \in set})

(* The first l bytes: marks up to m, parameters up to n, then intermediates. *)
Grammar(s, m, n, l) ==
    \A i \in 1..l : s[i] \in IF i <= m THEN PrivateMarks
                             ELSE IF i <= n THEN Digits \cup Separators
                             ELSE Intermediates

WellFormed(s) ==
    LET l == Len(s) - 1
    IN  /\ s # <<>> /\ IsFinal(s[l + 1])
        /\ \E n \in 0..l : \E m \in 0..n : Grammar(s, m, n, l)

(* The kth smallest number of a set. *)
Nth(set, k) == CHOOSE i \in set : Cardinality({j \in set : j < i}) = k - 1

(* The number that the bytes from lo to hi write. *)
Decimal(s, lo, hi) ==
    LET dec[j \in (lo - 1)..hi] == IF j = lo - 1 THEN 0 ELSE dec[j - 1] * Base + s[j][2]
    IN  dec[hi]

(* The parameter that ends before byte i: from the separator before it, or  *)
(* from the first parameter byte.                                           *)
ValueBefore(s, first, seps, i) ==
    LET from == {j \in seps : j < i}
        lo   == IF from = {} THEN first ELSE 1 + CHOOSE j \in from : \A l \in from : l <= j
    IN  Saturate(Decimal(s, lo, i - 1))

RefParams(s) ==
    LET first == Count(s, PrivateMarks) + 1
        end   == first + Count(s, Digits \cup Separators)
        seps  == {i \in DOMAIN s : s[i] \in Separators}
        stops == seps \cup {end}
        n     == Cardinality(stops)
    IN  IF end = first THEN <<>>
        ELSE [k \in 1..(IF n > MaxCsiParams THEN MaxCsiParams ELSE n) |->
                 ValueBefore(s, first, seps, Nth(stops, k))]

RefCsi(s) ==
    LET m == Count(s, PrivateMarks)
        k == Count(s, Intermediates)
    IN  [private |-> IF m = 0 THEN B("none") ELSE s[m], params |-> RefParams(s),
         inter_count |-> IF k > 2 THEN 2 ELSE k, final |-> s[Len(s)]]

EmittedCsi == {out[i][2] : i \in {j \in DOMAIN out : out[j][1] = "csi"}}

(* A well-formed control sequence means what its own bytes say, saturation  *)
(* of huge parameters and dropping of surplus ones included, if the fields  *)
(* were reset when it was introduced (fresh).  They are not after a control *)
(* sequence that was cancelled or cut off, nor after an escape sequence     *)
(* with an intermediate, even one that ended normally: escape_intermediate  *)
(* leaves inter_count behind and csi_entry does not clear it.               *)
CsiMeansItsBytes ==
    (fresh /\ WellFormed(seen)) => \A c \in EmittedCsi : c = RefCsi(seen)
=============================================================================
