---------------------------- MODULE SwitchFilter ----------------------------
(***************************************************************************)
(* ScreenSwitchFilter (crates/posh/src/session/daemon.rs): the output of a *)
(* session is broadcast raw to the attached terminals, except that the     *)
(* application's screen switches, which would take the user's terminal off *)
(* the screen the client pinned it to, are cut out and replaced by a       *)
(* repaint. Bytes are held back while the daemon's model is inside an      *)
(* escape sequence that may turn out to be a switch.                       *)
(*                                                                         *)
(* The attached terminal (external) reads what is broadcast with a parser  *)
(* of the same kind. Nothing here grows with the output: `ahead' holds     *)
(* what the model has done and the attached terminal has still to do, so   *)
(* the check is over output of any length, cut into reads in any way.      *)
(***************************************************************************)
EXTENDS VtParser, SequencesExt

CONSTANTS
    Bytes,          \* the classes of bytes the application writes
    MaxHeld,        \* MAX_HELD (4096)
    MaxSequence     \* bound: bytes of an escape sequence that are held at once

VARIABLES
    term,           \* the parser of the daemon's terminal model
    held,           \* ScreenSwitchFilter.held
    fast,           \* the read being fed goes by the fast path
    outer,          \* the parser of the attached terminal
    ahead,          \* actions of the model the attached terminal has not done
    did,            \* its last step: [switches: those it made; owed: the modes
                    \*   set beside a switch it was spared; set: those of
                    \*   them that it has set]
    agrees          \* what it did so far is what the model did

vars == <<term, held, fast, outer, ahead, did, agrees>>

-----------------------------------------------------------------------------
\* A mutated form of the operator below.

MayBeginEscapeSevenBit(b) == b = "ESC"

-----------------------------------------------------------------------------
\* A byte that rules out the fast path: ESC or the 8-bit CSI.
MayBeginEscape(b) == b \in {"ESC", "CSI8"}

IsHeld(p) == MidEscape(p)

TooLong(seq) == Len(seq) > MaxHeld

\* What goes out when the bytes held turn out to be no switch.
Released(seq) == seq

\* The sequence ESC [ ? params h, and nothing in between.
IsPlain(seq) ==
    /\ Len(seq) > 3
    /\ SubSeq(seq, 1, 3) = <<"ESC", "[", "?">>
    /\ seq[Len(seq)] = "h"
    /\ \A i \in 4 .. Len(seq) - 1 : seq[i] \in Digits \cup {";"}

\* The parameters between the semicolons, as sequences of digits.
Fields(s) ==
    LET cuts == {0} \cup {i \in 1 .. Len(s) : s[i] = ";"} \cup {Len(s) + 1}
        Field(i) == SubSeq(s, i + 1,
                        (CHOOSE j \in cuts : j > i /\ \A k \in cuts : k > i => j <= k) - 1)
        starts == SetToSortSeq(cuts \ {Len(s) + 1}, LAMBDA i, j : i < j)
    IN  [n \in 1 .. Len(starts) |-> Field(starts[n])]

\* The number a field spells: leading zeros do not count.
ValueOf(field) ==
    LET digits == SelectSeq(field, LAMBDA d : d # "0")
    IN  CASE digits = << >> -> "0"
          [] digits = <<"A">> /\ field[Len(field)] = "A" -> "A"
          [] OTHER -> "9"

\* strip_alt_screen_params: the sequence without the alternate-screen modes,
\* or nothing.
Stripped(seq) ==
    LET kept == SelectSeq(Fields(SubSeq(seq, 4, Len(seq) - 1)),
                          LAMBDA f : ValueOf(f) # "A")
    IN  IF ~ IsPlain(seq) \/ kept = << >> THEN << >>
        ELSE <<"ESC", "[", "?">>
               \o FoldLeft(LAMBDA s, f : s \o <<";">> \o f, Head(kept), Tail(kept))
               \o <<"h">>

\* What is broadcast in place of a switch: RIS_SUBSTITUTE and a repaint, or
\* what is left of the sequence and a repaint. Each begins with ESC and ends
\* with the terminal at rest; "repaint" stands for the whole of it.
Substitute(switch, seq) ==
    IF switch = "Alt" THEN Append(Stripped(seq), "repaint") ELSE <<"repaint">>

-----------------------------------------------------------------------------
\* The attached terminal reads s.
OuterRead(q, s) ==
    LET Read[i \in 0 .. Len(s)] ==
          IF i = 0 THEN Step(q, << >>)
          ELSE LET before == Read[i - 1]
                   step == Advance(before.parser,
                                   IF s[i] = "repaint" THEN "ESC" ELSE s[i])
               IN  Step(IF s[i] = "repaint" THEN NewParser ELSE step.parser,
                        before.acts \o step.acts)
    IN  Read[Len(s)]

Init ==
    /\ term = NewParser /\ outer = NewParser
    /\ held = << >> /\ fast = FALSE /\ ahead = << >>
    /\ did = [switches |-> {}, owed |-> {}, set |-> {}]
    /\ agrees = TRUE

\* The switches among some actions of a terminal.
Switches(acts) == {SwitchOf(a) : a \in Range(acts)} \ {"none"}

\* The broadcast s, with the model's new actions acts and no switch among
\* them: the terminal must do the next of what it is behind with.
Forward(s, acts) ==
    LET r == OuterRead(outer, s)
        due == ahead \o acts
    IN  /\ outer' = r.parser
        /\ did' = [switches |-> Switches(r.acts), owed |-> {}, set |-> {}]
        /\ agrees' = (agrees /\ IsPrefix(r.acts, due))
        /\ ahead' = SubSeq(due, Len(r.acts) + 1, Len(due))

\* A switch: the repaint makes up for the controls inside the sequence, which
\* only the model has executed; a string or a character the terminal was
\* still reading ends with it as it did for the model.
Replace(switch, seq, act) ==
    LET r == OuterRead(outer, Substitute(switch, seq))
        ended == SelectSeq(r.acts, LAMBDA a : a.kind # "csi")
        csi   == SelectSeq(r.acts, LAMBDA a : a.kind = "csi")
    IN  /\ outer' = r.parser
        /\ did' = [switches |-> Switches(r.acts),
                   owed |-> IF switch = "Alt" /\ IsPlain(seq)
                            THEN Range(act.params) \ {"A", "0"} ELSE {},
                   set |-> UNION {Range(a.params) : a \in Range(csi)} \ {"0"}]
        /\ agrees' = (agrees /\ IsPrefix(ended, ahead)
                      /\ \A i \in Len(ended) + 1 .. Len(ahead) :
                            ahead[i].kind = "execute")
        /\ ahead' = << >>

\* ScreenSwitchFilter::feed, one byte. A read goes by the fast path if nothing
\* is held, the model is at rest and no byte of it may begin an escape
\* sequence; one read ends and another begins anywhere.
FeedFast(b) ==
    LET step == Advance(term, b)
    IN  /\ fast \/ (held = << >> /\ ~ IsHeld(term))
        /\ ~ MayBeginEscape(b)
        /\ fast' = TRUE
        /\ term' = step.parser
        /\ Forward(<<b>>, step.acts)
        /\ UNCHANGED held

Feed(b) ==
    LET step == Advance(term, b)
        seq  == Append(held, b)
        switches == {a \in Range(step.acts) : SwitchOf(a) # "none"}
    IN  /\ IsHeld(step.parser) => Len(seq) <= MaxSequence
        /\ fast' = FALSE
        /\ term' = step.parser
        /\ \/ \E a \in switches :
                /\ Replace(SwitchOf(a), seq, a)
                /\ held' = << >>
           \/ /\ switches = {}
              /\ ~ IsHeld(step.parser) \/ TooLong(seq)
              /\ Forward(Released(seq), step.acts)
              /\ held' = << >>
           \/ /\ switches = {}
              /\ IsHeld(step.parser) /\ ~ TooLong(seq)
              /\ Forward(<< >>, step.acts)
              /\ held' = seq

Next == \E b \in Bytes : FeedFast(b) \/ Feed(b)

Spec == Init /\ [][Next]_vars

-----------------------------------------------------------------------------
\* Whatever the application writes and however the reads cut it, no sequence
\* that reaches the attached terminal switches its screen.
OuterNeverSwitches == did.switches = {}

\* Apart from the switches the terminal does what the model does, in the same
\* order, and is behind only by what is held back.
OuterFollowsModel ==
    /\ agrees
    /\ held = << >> /\ ~ IsHeld(term) => ahead = << >> /\ outer.state = term.state

\* The modes set by the same sequence as a switch, and no others, still reach the
\* terminal when the sequence has its usual form ("0", no mode at all, aside).
CoSetModesForwarded == did.set = did.owed

\* An endless escape sequence is not held back for ever.
HeldBounded == Len(held) <= MaxHeld
=============================================================================
