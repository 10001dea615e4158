------------------------------ MODULE DbcCodec ------------------------------
(***************************************************************************)
(* dbc.py: the DBC parser and the deterministic writer, as functions on    *)
(* sequences of statements. A statement is a line after the regular        *)
(* expression of its kind has taken it apart; a text in it is still        *)
(* escaped. Identifiers are those of the file: a number below Flag, or     *)
(* Flag plus a number, of at most twice Flag.                              *)
(***************************************************************************)
EXTENDS Naturals, FiniteSets, SequencesExt

CONSTANTS
    MaxStandard,    \* 0x7FF
    MaxExtended,    \* 0x1FFFFFFF
    Flag,           \* 0x80000000
    MaxDlc,         \* 64
    MaxLength       \* 64

ASSUME WidthAssumption ==
    /\ MaxStandard \in Nat /\ MaxExtended \in Nat /\ Flag \in Nat
    /\ MaxStandard < MaxExtended /\ MaxExtended < Flag
    /\ MaxDlc \in Nat /\ MaxLength \in Nat

(* DbcError                                                                *)
Error == [error |-> TRUE]
IsError(x) == "error" \in DOMAIN x

-----------------------------------------------------------------------------
(* Texts are sequences over "quote", "backslash" and other characters.     *)

Unescape(t) ==
    ReplaceAllSubSeqs(<<"backslash">>, <<"backslash", "backslash">>,
        ReplaceAllSubSeqs(<<"quote">>, <<"backslash", "quote">>, t))

(* Mutant: quotes first, and then their backslashes.                       *)
EscapeQuoteFirst(t) ==
    FlattenSeq([i \in DOMAIN t |->
        IF t[i] = "quote" THEN <<"backslash", "backslash", "quote">>
        ELSE IF t[i] = "backslash" THEN <<"backslash", "backslash">>
        ELSE <<t[i]>>])

Escape(t) ==
    FlattenSeq([i \in DOMAIN t |->
        IF t[i] \in {"quote", "backslash"} THEN <<"backslash", t[i]>>
        ELSE <<t[i]>>])

(* format(value, ".15g"): a number that needs more digits loses them.      *)
Number(v) == IF v = "sixteen digits" THEN "fifteen digits" ELSE v

-----------------------------------------------------------------------------
(* The identifier of a message, and whether it is extended.                *)
DecodeId(raw) ==
    IF raw >= 2 * Flag THEN Error
    ELSE IF raw >= Flag
           THEN [id |-> (raw - Flag) % (MaxExtended + 1), extended |-> TRUE]
    ELSE IF raw <= MaxStandard THEN [id |-> raw, extended |-> FALSE]
    ELSE IF raw > MaxExtended THEN Error
    ELSE [id |-> raw, extended |-> TRUE]

EncodeId(key) == key.id + (IF key.extended THEN Flag ELSE 0)

-----------------------------------------------------------------------------
(* DbcDatabase, with the pending lists and the flags of the parser.        *)
Blank == [version |-> <<>>, nodes |-> <<>>, messages |-> <<>>,
          passthrough |-> <<>>, values |-> <<>>, comments |-> <<>>,
          inNames |-> FALSE]

NewMessage(line) ==
    [key |-> DecodeId(line.raw), name |-> line.name, dlc |-> line.dlc,
     comment |-> <<>>, signals |-> <<>>]

NewSignal(line) ==
    [name |-> line.name, start |-> line.start, length |-> line.length,
     factor |-> line.factor, receivers |-> line.receivers, comment |-> <<>>,
     values |-> <<>>]

(* A message statement.                                                    *)
ParseMessage(state, line) ==
    IF IsError(DecodeId(line.raw)) \/ line.dlc > MaxDlc THEN Error
    ELSE [state EXCEPT !.messages = Append(@, NewMessage(line))]

(* A signal belongs to the message statement before it.                    *)
ParseSignal(state, line) ==
    LET n == Len(state.messages) IN
    IF \/ n = 0
       \/ line.length \notin 1 .. MaxLength
       \/ line.start >= state.messages[n].dlc * 8
    THEN Error
    ELSE [state EXCEPT !.messages[n].signals = Append(@, NewSignal(line))]

(* Attributes, vendor extensions and anything else that is not a malformed *)
(* core statement are kept as they are.                                    *)
ParseOther(state, line) ==
    IF line.kind = "malformed" THEN Error
    ELSE [state EXCEPT !.passthrough = Append(@, line)]

(* One line of parse_dbc_text. The names section ends at BS_.              *)
ParseLine(state, line) ==
    IF IsError(state) THEN Error
    ELSE IF line.kind = "VERSION"
      THEN [state EXCEPT !.version = Unescape(line.text)]
    ELSE IF line.kind = "NS_" THEN [state EXCEPT !.inNames = TRUE]
    ELSE IF line.kind = "BS_" THEN [state EXCEPT !.inNames = FALSE]
    ELSE IF state.inNames THEN state
    ELSE CASE line.kind = "BU_" -> [state EXCEPT !.nodes = @ \o line.nodes]
           [] line.kind = "BO_" -> ParseMessage(state, line)
           [] line.kind = "SG_" -> ParseSignal(state, line)
           [] line.kind = "VAL_" -> [state EXCEPT !.values = Append(@, line)]
           [] line.kind \in {"CM_ BO_", "CM_ SG_"} ->
                [state EXCEPT !.comments = Append(@, line)]
           [] OTHER -> ParseOther(state, line)

(* message_lookup, and the first signal of a name in the message.          *)
MessageAt(state, raw) ==
    LET at == {i \in DOMAIN state.messages :
                 ~IsError(DecodeId(raw)) /\ state.messages[i].key = DecodeId(raw)}
    IN IF at = {} THEN 0 ELSE Min(at)

SignalAt(message, name) ==
    LET at == {i \in DOMAIN message.signals : message.signals[i].name = name}
    IN IF at = {} THEN 0 ELSE Min(at)

(* A pending value list or comment is attached to what it names.           *)
Attach(state, line) ==
    LET m == IF IsError(state) THEN 0 ELSE MessageAt(state, line.raw)
        s == IF m = 0 \/ line.kind = "CM_ BO_" THEN 0
             ELSE SignalAt(state.messages[m], line.name)
    IN CASE m = 0 -> Error
         [] m # 0 /\ line.kind = "CM_ BO_" ->
              [state EXCEPT !.messages[m].comment = <<Unescape(line.text)>>]
         [] m # 0 /\ line.kind # "CM_ BO_" /\ s = 0 -> Error
         [] m # 0 /\ s # 0 /\ line.kind = "CM_ SG_" ->
              [state EXCEPT !.messages[m].signals[s].comment =
                                <<Unescape(line.text)>>]
         [] m # 0 /\ s # 0 /\ line.kind = "VAL_" ->
              [state EXCEPT !.messages[m].signals[s].values =
                    [i \in DOMAIN line.pairs |->
                        [value |-> line.pairs[i].value,
                         text |-> Unescape(line.pairs[i].text)]]]

(* parse_dbc_text: the lines in order, duplicate identifiers refused, then *)
(* the values, and the comments on messages before those on signals.       *)
Parse(lines) ==
    LET read == FoldLeft(ParseLine, Blank, lines)
        keys == {read.messages[i].key : i \in DOMAIN read.messages}
        onMessage(line) == line.kind = "CM_ BO_"
        onSignal(line) == line.kind = "CM_ SG_"
    IN IF IsError(read) THEN Error
       ELSE IF Cardinality(keys) # Len(read.messages) THEN Error
       ELSE FoldLeft(Attach, read,
                read.values \o SelectSeq(read.comments, onMessage)
                            \o SelectSeq(read.comments, onSignal))

-----------------------------------------------------------------------------
(* write_dbc. A signal without receivers is written with Vector__XXX.      *)
WriteSignal(s) ==
    [kind |-> "SG_", name |-> s.name, start |-> s.start, length |-> s.length,
     factor |-> Number(s.factor),
     receivers |-> IF s.receivers = <<>> THEN <<"Vector__XXX">>
                                         ELSE s.receivers]

WriteMessage(m) ==
    <<[kind |-> "BO_", raw |-> EncodeId(m.key), name |-> m.name,
       dlc |-> m.dlc]>>
    \o [i \in DOMAIN m.signals |-> WriteSignal(m.signals[i])]

(* The comments and values of a message; None is the empty sequence.       *)
WriteNotes(m) ==
    LET raw == EncodeId(m.key)
        comment(c, line) == IF c = <<>> THEN <<>> ELSE <<line>>
        signal(s) ==
            comment(s.comment, [kind |-> "CM_ SG_", raw |-> raw,
                                name |-> s.name, text |-> Escape(s.comment[1])])
            \o (IF s.values = <<>> THEN <<>>
                ELSE <<[kind |-> "VAL_", raw |-> raw, name |-> s.name,
                        pairs |-> [i \in DOMAIN s.values |->
                            [value |-> s.values[i].value,
                             text |-> Escape(s.values[i].text)]]]>>)
    IN comment(m.comment, [kind |-> "CM_ BO_", raw |-> raw,
                           text |-> Escape(m.comment[1])])
       \o FlattenSeq([i \in DOMAIN m.signals |-> signal(m.signals[i])])

Write(d) ==
    <<[kind |-> "VERSION", text |-> Escape(d.version)], [kind |-> "NS_"],
      [kind |-> "BS_"], [kind |-> "BU_", nodes |-> d.nodes]>>
    \o FlattenSeq([i \in DOMAIN d.messages |-> WriteMessage(d.messages[i])])
    \o FlattenSeq([i \in DOMAIN d.messages |-> WriteNotes(d.messages[i])])
    \o d.passthrough

SemanticModel(d) == [version |-> d.version, nodes |-> d.nodes,
                     messages |-> d.messages]

(* assert_round_trip does not raise.                                       *)
RoundTrips(d) ==
    LET again == Parse(Write(d)) IN
    ~IsError(again) /\ SemanticModel(again) = SemanticModel(d)
=============================================================================
