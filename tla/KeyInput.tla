------------------------------ MODULE KeyInput ------------------------------
(***************************************************************************)
(* What the remote client does to the user's bytes before they enter the   *)
(* reliable input stream (crates/posh/src/remote/client.rs                 *)
(* process_user_input): while the wheel is grabbed, MouseFilter turns      *)
(* wheel events into arrow keys and drops other mouse events; then the     *)
(* Ctrl-^ sequences quit or suspend the client or yield a literal Ctrl-^.  *)
(*                                                                         *)
(* Whether the wheel is grabbed is decided for each read anew from what    *)
(* the session application has last asked for (grab_active).               *)
(*                                                                         *)
(* "64" stands for the digits of the wheel-up button code. Only wheel-up   *)
(* is told from other events; its arrow key is the byte "up", whichever    *)
(* encoding the application's cursor-key mode selects.                     *)
(***************************************************************************)
EXTENDS Integers, Sequences, SequencesExt

CONSTANTS
    Bytes,          \* the bytes the user may type
    MaxMouseSeq,    \* MAX_MOUSE_SEQ (32)
    MaxTyped,       \* bound: bytes typed
    MaxFlips        \* bound: times the grab is engaged or given up

VARIABLES
    grab,           \* grab_active
    pending,        \* MouseFilter.pending
    mouse,          \* MouseFilter.state
    quit,           \* quit_pending
    outbox,         \* bytes pushed to the input stream
    asked,          \* history: "shutdown" and "suspend" commands, as given
    typed,          \* history: the bytes read: [byte, grab]
    keys,           \* history: the bytes after the mouse filter
    flips           \* history: changes of grab

vars == <<grab, pending, mouse, quit, outbox, asked, typed, keys, flips>>

EscapeKey == "^^"

EscapePassKey == "^"

Digits == {"64", "0"}

-----------------------------------------------------------------------------
\* Mutated forms of the operators below.

HandedBackNever == << >>

-----------------------------------------------------------------------------
\* The filter is [state, pending, out].

\* MouseFilter::flush
Flushed(f) ==
    [f EXCEPT !.out = @ \o f.pending, !.pending = << >>, !.state = "Ground"]

Held(f, b, state) ==
    [f EXCEPT !.pending = Append(@, b), !.state = state]

FromGround(f, b) ==
    IF b = "ESC" THEN Held(f, b, "Esc") ELSE [f EXCEPT !.out = Append(@, b)]

TooLong(p) == Len(p) > MaxMouseSeq

\* The first field of the sequence, after ESC [ <, is the wheel's button code.
IsWheelUp(p) ==
    LET body == SubSeq(p, 4, Len(p))
    IN  body # << >> /\ body[1] = "64" /\ (Len(body) = 1 \/ body[2] = ";")

\* A whole mouse sequence: the wheel becomes an arrow, the rest is dropped.
Completed(f) ==
    [state |-> "Ground", pending |-> << >>,
     out |-> IF IsWheelUp(f.pending) THEN Append(f.out, "up") ELSE f.out]

\* MouseFilter::step
Step(f, b) ==
    CASE f.state = "Ground" -> FromGround(f, b)
      [] f.state = "Esc" /\ b = "[" -> Held(f, b, "Bracket")
      [] f.state = "Bracket" /\ b = "<" -> Held(f, b, "Body")
      [] f.state = "Body" /\ b = "M" -> Completed(f)
      [] f.state = "Body" /\ b \in Digits \cup {";"} ->
            LET g == Held(f, b, "Body")
            IN  IF TooLong(g.pending) THEN Flushed(g) ELSE g
      [] OTHER -> FromGround(Flushed(f), b)

\* MouseFilter::feed
Filtered(f, input) == FoldLeft(Step, f, input)

\* MouseFilter::take_pending, when the grab has been given up meanwhile.
HandedBack == pending

-----------------------------------------------------------------------------
\* The rest of process_user_input, byte by byte, over [quit, out, asked].

\* The byte after Ctrl-^.
Commanded(s, b) ==
    CASE b = "." -> [s EXCEPT !.quit = FALSE, !.asked = Append(@, "shutdown")]
      [] b = "^Z" -> [s EXCEPT !.quit = FALSE, !.asked = Append(@, "suspend")]
      [] b \in {EscapeKey, EscapePassKey} ->
            [s EXCEPT !.quit = FALSE, !.out = Append(@, EscapeKey)]
      [] OTHER -> [s EXCEPT !.quit = FALSE, !.out = @ \o <<EscapeKey, b>>]

Typed(s, b) ==
    IF s.quit THEN Commanded(s, b)
    ELSE IF b = EscapeKey THEN [s EXCEPT !.quit = TRUE]
    ELSE [s EXCEPT !.out = Append(@, b)]

-----------------------------------------------------------------------------
Init ==
    /\ grab = TRUE
    /\ pending = << >> /\ mouse = "Ground" /\ quit = FALSE
    /\ outbox = << >> /\ asked = << >>
    /\ typed = << >> /\ keys = << >> /\ flips = 0

\* A frame from the server brings a screen on which the application has taken
\* the mouse, or has let it go.
FlipGrab ==
    /\ flips < MaxFlips
    /\ flips' = flips + 1
    /\ grab' = ~ grab
    /\ UNCHANGED <<pending, mouse, quit, outbox, asked, typed, keys>>

ProcessUserInput(input) ==
    LET f == IF grab
             THEN Filtered([state |-> mouse, pending |-> pending,
                            out |-> << >>], input)
             ELSE [state |-> "Ground", pending |-> << >>,
                   out |-> HandedBack \o input]
        s == FoldLeft(Typed, [quit |-> quit, out |-> outbox, asked |-> asked],
                      f.out)
    IN  /\ Len(typed) + Len(input) <= MaxTyped
        /\ typed' = typed
             \o [i \in 1 .. Len(input) |-> [byte |-> input[i], grab |-> grab]]
        /\ pending' = f.pending /\ mouse' = f.state
        /\ keys' = keys \o f.out
        /\ quit' = s.quit /\ outbox' = s.out /\ asked' = s.asked
        /\ UNCHANGED <<grab, flips>>

Next ==
    \/ FlipGrab
    \/ \E b \in Bytes : ProcessUserInput(<<b>>)

Spec == Init /\ [][Next]_vars

-----------------------------------------------------------------------------
\* typed[i .. j] is a mouse sequence that was typed under the grab from its
\* first byte to its last and that is not too long to be held.
IsMouse(i, j) ==
    /\ j - i >= 3 /\ j - i <= MaxMouseSeq
    /\ typed[i].byte = "ESC" /\ typed[i + 1].byte = "[" /\ typed[i + 2].byte = "<"
    /\ typed[j].byte = "M"
    /\ \A k \in i + 3 .. j - 1 : typed[k].byte \in Digits \cup {";"}
    /\ \A k \in i .. j : typed[k].grab

\* What is left of the k-th byte typed.
Rewritten(k) ==
    LET N == 1 .. Len(typed)
    IN  IF \E i \in N : i <= k /\ IsMouse(i, k)
        THEN LET i == CHOOSE i \in N : i <= k /\ IsMouse(i, k)
             IN  IF IsWheelUp([n \in 1 .. k - i |-> typed[i + n - 1].byte])
                 THEN <<"up">> ELSE << >>
        ELSE IF \E i, j \in N : i <= k /\ k < j /\ IsMouse(i, j) THEN << >>
        ELSE <<typed[k].byte>>

\* Only mouse sequences are rewritten: every other byte goes on, in order and
\* unchanged, however the sequence was cut and whenever the grab came or went,
\* but for a tail that may still become one.
OnlyMouseRewritten ==
    /\ keys \o pending
         = FlattenSeq([k \in 1 .. Len(typed) |-> Rewritten(k)])
    /\ pending # << >> => typed[Len(typed)].grab
    /\ (pending = << >>) <=> (mouse = "Ground")

\* The filter never holds more than MAX_MOUSE_SEQ bytes of the user's.
PendingBounded == Len(pending) <= MaxMouseSeq

\* keys[k] follows a run of Ctrl-^ of odd length: it is a command.
RunBefore(k) ==
    CHOOSE n \in 0 .. k - 1 :
        /\ \A i \in k - n .. k - 1 : keys[i] = EscapeKey
        /\ n = k - 1 \/ keys[k - n - 1] # EscapeKey

IsCommand(k) == RunBefore(k) % 2 = 1

Emitted(k) ==
    IF IsCommand(k)
    THEN CASE keys[k] \in {".", "^Z"} -> << >>
           [] keys[k] \in {EscapeKey, EscapePassKey} -> <<EscapeKey>>
           [] OTHER -> <<EscapeKey, keys[k]>>
    ELSE IF keys[k] = EscapeKey THEN << >> ELSE <<keys[k]>>

\* The client quits or suspends exactly at a '.' or Ctrl-Z after a Ctrl-^
\* that is not itself the second of a pair, and the session gets every other
\* byte as typed, with one Ctrl-^ for each pair.
CommandsAfterOddEscape ==
    /\ outbox = FlattenSeq([k \in 1 .. Len(keys) |-> Emitted(k)])
    /\ asked = FlattenSeq([k \in 1 .. Len(keys) |->
                  IF IsCommand(k) /\ keys[k] = "." THEN <<"shutdown">>
                  ELSE IF IsCommand(k) /\ keys[k] = "^Z" THEN <<"suspend">>
                  ELSE << >>])
=============================================================================
