------------------------------ MODULE VtParser ------------------------------
(***************************************************************************)
(* The escape-sequence parser of posh-term (crates/posh-term/src/parser.rs *)
(* Parser): a byte moves the parser from state to state and yields the     *)
(* actions the terminal dispatches.                                        *)
(*                                                                         *)
(* A byte is its class. The digits of a parameter matter as far as         *)
(* DECSET's alternate-screen modes 47, 1047 and 1049 are told from the     *)
(* others: "A" is the digits of one of these, "9" those of another mode,   *)
(* and a parameter is "0" (absent or zero, leading zeros included), "A" or *)
(* "9". Of a parameter's subparameters only the first is ever looked at    *)
(* there, and of a string its length up to MaxString.                      *)
(***************************************************************************)
EXTENDS Integers, Sequences

CONSTANTS
    MaxParams,      \* MAX_PARAMS (32)
    MaxString       \* MAX_OSC, MAX_DCS, MAX_APC

C0 == {"C0", "BEL"}                 \* executed controls; BEL also ends an OSC

C1 == {"DCS8", "SOS8", "CSI8", "ST8", "OSC8", "APC8", "C1"}  \* 0x80 .. 0x9F

Cancels == {"CAN"}                  \* CAN and SUB

Continuations == C1 \cup {"CONT"}   \* 0x80 .. 0xBF

Leads == {"LEAD2", "LEAD3"}         \* lead bytes of UTF-8

Digits == {"0", "A", "9"}

Privates == {"?", "<"}              \* 0x3C .. 0x3F

Intermediates == {"!"}              \* 0x20 .. 0x2F

Finals == {"[", "]", "P", "_", "X", "c", "h", "x"}    \* 0x40 .. 0x7E

Printable == Digits \cup {":", ";"} \cup Privates \cup Intermediates \cup Finals

\* A parser in the given state with nothing accumulated. The code clears what a
\* sequence accumulates when the next one begins, here it is gone when it ends;
\* nothing looks at it in between.
At(state) ==
    [state |-> state, need |-> 0, params |-> << >>, first |-> "none",
     cur |-> "0", seen |-> FALSE, inter |-> FALSE, private |-> "none",
     len |-> 0, overflow |-> FALSE]

\* Parser::new
NewParser == At("Ground")

-----------------------------------------------------------------------------
\* A step is the parser after it and the actions it yielded.
Step(p, acts) == [parser |-> p, acts |-> acts]

PrintChar == [kind |-> "print"]

Execute(b) == [kind |-> "execute", byte |-> b]

\* c1(), in the ground state
OnC1(b) ==
    CASE b = "DCS8" -> Step(At("DcsEntry"), << >>)
      [] b = "SOS8" -> Step(At("SosPmString"), << >>)
      [] b = "CSI8" -> Step(At("CsiEntry"), << >>)
      [] b = "ST8"  -> Step(NewParser, << >>)
      [] b = "OSC8" -> Step(At("OscString"), << >>)
      [] b = "APC8" -> Step(At("ApcString"), << >>)
      [] b = "C1"   -> Step(NewParser, <<Execute(b)>>)

\* ground(), outside a UTF-8 sequence
OnGround(b) ==
    CASE b = "ESC" -> Step(At("Escape"), << >>)
      [] b \in C0 \cup Cancels -> Step(NewParser, <<Execute(b)>>)
      [] b \in C1 -> OnC1(b)
      [] b = "LEAD2" -> Step([NewParser EXCEPT !.need = 1], << >>)
      [] b = "LEAD3" -> Step([NewParser EXCEPT !.need = 2], << >>)
      [] OTHER -> Step(NewParser, <<PrintChar>>)

\* ground(): a byte that does not continue the sequence is printed as one
\* replacement character for what there was of it and then taken by itself.
Ground(p, b) ==
    IF p.need = 0 THEN OnGround(b)
    ELSE IF b \in Continuations
    THEN Step([p EXCEPT !.need = @ - 1],
              IF p.need = 1 THEN <<PrintChar>> ELSE << >>)
    ELSE Step(OnGround(b).parser, <<PrintChar>> \o OnGround(b).acts)

\* anywhere(): bytes with the same meaning in every escape state.
Everywhere == {"ESC"} \cup Cancels \cup C1

Anywhere(b) == OnGround(b)

-----------------------------------------------------------------------------
\* The bytes that open a sequence of their own after ESC.
Openers == {"[", "]", "P", "_", "X"}

\* escape()
Escape(p, b) ==
    CASE b \in C0 -> Step(p, <<Execute(b)>>)
      [] b \in Intermediates ->
            Step([At("EscapeIntermediate") EXCEPT !.inter = TRUE], << >>)
      [] b = "[" -> Step(At("CsiEntry"), << >>)
      [] b = "]" -> Step(At("OscString"), << >>)
      [] b = "P" -> Step(At("DcsEntry"), << >>)
      [] b = "_" -> Step(At("ApcString"), << >>)
      [] b = "X" -> Step(At("SosPmString"), << >>)
      [] b \in Printable \ (Intermediates \cup Openers) ->
            Step(NewParser, <<[kind |-> "esc", inter |-> FALSE, final |-> b]>>)
      [] OTHER -> Step(p, << >>)

\* escape_intermediate()
EscapeIntermediate(p, b) ==
    CASE b \in C0 -> Step(p, <<Execute(b)>>)
      [] b \in Printable \ Intermediates ->
            Step(NewParser, <<[kind |-> "esc", inter |-> TRUE, final |-> b]>>)
      [] OTHER -> Step(p, << >>)

-----------------------------------------------------------------------------
\* param_digit()
WithDigit(p, b) ==
    [p EXCEPT !.cur = IF p.cur = "0" THEN b ELSE "9", !.seen = TRUE]

\* param_colon()
WithColon(p) ==
    [p EXCEPT !.first = IF p.first = "none" THEN p.cur ELSE p.first,
              !.cur = "0", !.seen = TRUE]

Pushed(p) ==
    IF Len(p.params) < MaxParams
    THEN Append(p.params, IF p.first = "none" THEN p.cur ELSE p.first)
    ELSE p.params

\* param_semicolon()
WithSemicolon(p) ==
    [p EXCEPT !.params = Pushed(p), !.first = "none", !.cur = "0", !.seen = TRUE]

WithParam(p, b) ==
    CASE b \in Digits -> WithDigit(p, b)
      [] b = ":" -> WithColon(p)
      [] b = ";" -> WithSemicolon(p)

\* take_params()
TakenParams(p) == IF p.seen \/ p.first # "none" THEN Pushed(p) ELSE p.params

\* csi_dispatch()
CsiDispatch(p, b) ==
    Step(NewParser,
         <<[kind |-> "csi", private |-> p.private, params |-> TakenParams(p),
            inter |-> p.inter, final |-> b]>>)

\* csi_entry(), csi_param(), csi_intermediate(), csi_ignore()
Csi(p, b) ==
    CASE b \in C0 -> Step(p, <<Execute(b)>>)
      [] p.state = "CsiIgnore" ->
            Step(IF b \in Finals THEN NewParser ELSE p, << >>)
      [] b \in Intermediates ->
            Step([p EXCEPT !.inter = TRUE, !.state = "CsiIntermediate"], << >>)
      [] b \in Finals -> CsiDispatch(p, b)
      [] \/ p.state = "CsiIntermediate" /\ b \in Printable
         \/ p.state = "CsiParam" /\ b \in Privates ->
            Step(At("CsiIgnore"), << >>)
      [] b \in Digits \cup {":", ";"} ->
            Step([WithParam(p, b) EXCEPT !.state = "CsiParam"], << >>)
      [] b \in Privates ->
            Step([p EXCEPT !.private = b, !.state = "CsiParam"], << >>)
      [] OTHER -> Step(p, << >>)

-----------------------------------------------------------------------------
\* push_string_byte()
WithStringByte(p) ==
    IF p.len < MaxString THEN [p EXCEPT !.len = @ + 1]
    ELSE [p EXCEPT !.overflow = TRUE]

\* A string that overflowed is dropped at its end.
StringAction(p, kind) ==
    IF p.overflow THEN << >> ELSE <<[kind |-> kind, len |-> p.len]>>

\* osc_string()
OscString(p, b) ==
    CASE b = "BEL" -> Step(NewParser, StringAction(p, "osc"))
      [] b = "ESC" -> Step(At("Escape"), StringAction(p, "osc"))
      [] b \in Cancels -> Step(NewParser, << >>)
      [] b \in C0 \ {"BEL"} -> Step(p, << >>)
      [] OTHER -> Step(WithStringByte(p), << >>)

\* apc_string()
ApcString(p, b) ==
    CASE b = "ESC" -> Step(At("Escape"), StringAction(p, "apc"))
      [] b \in Cancels -> Step(NewParser, << >>)
      [] OTHER -> Step(WithStringByte(p), << >>)

\* sos_pm() and dcs_ignore()
Skipped(p, b) ==
    CASE b = "ESC" -> Step(At("Escape"), << >>)
      [] b \in Cancels \cup {"ST8"} -> Step(NewParser, << >>)
      [] OTHER -> Step(p, << >>)

\* dcs_entry(), dcs_param(), dcs_intermediate(), dcs_hook(): the header is
\* followed through its states, its parameters are not told apart.
Dcs(p, b) ==
    CASE b \in Finals -> Step(At("DcsPassthrough"), << >>)
      [] b \in Intermediates -> Step(At("DcsIntermediate"), << >>)
      [] \/ p.state = "DcsIntermediate" /\ b \in Printable
         \/ p.state = "DcsParam" /\ b \in Privates ->
            Step(At("DcsIgnore"), << >>)
      [] b \in Printable -> Step(At("DcsParam"), << >>)
      [] OTHER -> Step(p, << >>)

\* dcs_passthrough(), dcs_unhook()
DcsPassthrough(p, b) ==
    CASE b = "ESC" -> Step(At("Escape"), StringAction(p, "dcs"))
      [] b = "ST8" -> Step(NewParser, StringAction(p, "dcs"))
      [] b \in Cancels -> Step(NewParser, << >>)
      [] OTHER -> Step(WithStringByte(p), << >>)

-----------------------------------------------------------------------------
EscapeStates ==
    {"Escape", "EscapeIntermediate", "CsiEntry", "CsiParam", "CsiIntermediate"}

DcsStates == {"DcsEntry", "DcsParam", "DcsIntermediate"}

\* Parser::mid_escape
MidEscape(p) == p.state \in EscapeStates

\* Parser::advance
Advance(p, b) ==
    CASE p.state = "Ground" -> Ground(p, b)
      [] p.state \in EscapeStates \cup {"CsiIgnore"} \cup DcsStates
           /\ b \in Everywhere -> Anywhere(b)
      [] p.state = "Escape" -> Escape(p, b)
      [] p.state = "EscapeIntermediate" -> EscapeIntermediate(p, b)
      [] p.state \in {"CsiEntry", "CsiParam", "CsiIntermediate", "CsiIgnore"} ->
            Csi(p, b)
      [] p.state = "OscString" -> OscString(p, b)
      [] p.state \in DcsStates -> Dcs(p, b)
      [] p.state = "DcsPassthrough" -> DcsPassthrough(p, b)
      [] p.state \in {"SosPmString", "DcsIgnore"} -> Skipped(p, b)
      [] p.state = "ApcString" -> ApcString(p, b)

\* The screen switch a dispatched action amounts to, if any (Terminal's
\* set_alt_screen and full_reset, through set_dec_mode and esc_dispatch).
SwitchOf(act) ==
    CASE act.kind = "csi" /\ act.private = "?" /\ ~ act.inter
           /\ act.final = "h" /\ \E i \in 1 .. Len(act.params) : act.params[i] = "A"
           -> "Alt"
      [] act.kind = "esc" /\ ~ act.inter /\ act.final = "c" -> "Reset"
      [] OTHER -> "none"
=============================================================================
