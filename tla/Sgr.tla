-------------------------------- MODULE Sgr --------------------------------
(***************************************************************************)
(* The look of a cell (posh-term: cell.rs) and the two conversions between *)
(* it and the parameters of SGR: csi.rs applies parameters to the pen,     *)
(* dump.rs gives parameters that reproduce a style from a reset pen.       *)
(*                                                                         *)
(* A parameter is the sequence of its colon-separated parts, a colour is   *)
(* << >> (the default), <<index>> or <<red, green, blue>>.                 *)
(***************************************************************************)
EXTENDS Integers, Sequences, SequencesExt, TLC

Least(a, b) == IF a <= b THEN a ELSE b
Most(a, b)  == IF a >= b THEN a ELSE b

DefaultColor == << >>

\* `underline` is the number of SGR 4: none, single, double, curly, dotted,
\* dashed.  DECSCA protection rides along but is not an SGR attribute.
DefaultStyle == [fg |-> DefaultColor, bg |-> DefaultColor, underline_color |-> DefaultColor,
                 attrs |-> {}, underline |-> 0, protected |-> FALSE]

AttrSet == (1 :> "bold") @@ (2 :> "dim") @@ (3 :> "italic") @@ (5 :> "blink") @@ (6 :> "blink")
             @@ (7 :> "inverse") @@ (8 :> "invisible") @@ (9 :> "strikethrough")
AttrReset == (22 :> {"bold", "dim"}) @@ (23 :> {"italic"}) @@ (25 :> {"blink"}) @@ (27 :> {"inverse"})
               @@ (28 :> {"invisible"}) @@ (29 :> {"strikethrough"})
ColorOf == (38 :> "fg") @@ (48 :> "bg") @@ (58 :> "underline_color")

-----------------------------------------------------------------------------
\* extended_color: the colour at parameter i, and how many parameters after it
\* belong to it.  A colour that cannot be read is not set.
ExtendedColor(params, i) ==
  LET p == params[i]
      part(k) == IF i + k <= Len(params) THEN Least(params[i + k][1], 255) ELSE 0
      byte(k) == Least(p[k], 255)
      none == [set |-> FALSE, color |-> << >>, used |-> 0]
      found(color, used) == [set |-> TRUE, color |-> color, used |-> used]
  IN  CASE Len(p) >= 3 /\ p[2] = 5 -> found(<<byte(3)>>, 0)
        [] Len(p) >= 6 /\ p[2] = 2 -> found(<<byte(4), byte(5), byte(6)>>, 0)
        [] Len(p) = 5 /\ p[2] = 2 -> found(<<byte(3), byte(4), byte(5)>>, 0)
        [] Len(p) = 1 /\ part(1) = 5 -> found(<<part(2)>>, 2)
        [] Len(p) = 1 /\ part(1) = 2 -> found(<<part(2), part(3), part(4)>>, 4)
        [] OTHER -> none

\* One parameter applied; `skip` counts those a colour has used up.
SgrParam(acc, params, i) ==
  LET p == params[i]
      n == p[1]
      s == acc.style
      ext == ExtendedColor(params, i)
      to(style) == [style |-> style, skip |-> 0]
  IN  CASE acc.skip > 0 -> [acc EXCEPT !.skip = @ - 1]
        [] acc.skip = 0 /\ n \in DOMAIN ColorOf ->
             [style |-> IF ext.set THEN [s EXCEPT ![ColorOf[n]] = ext.color] ELSE s, skip |-> ext.used]
        [] OTHER -> to(CASE n = 0 -> DefaultStyle
                         [] n \in DOMAIN AttrSet -> [s EXCEPT !.attrs = @ \cup {AttrSet[n]}]
                         [] n \in DOMAIN AttrReset -> [s EXCEPT !.attrs = @ \ AttrReset[n]]
                         [] n = 4 -> [s EXCEPT !.underline = IF Len(p) > 1 /\ p[2] \in 0..5 THEN p[2] ELSE 1]
                         [] n = 21 -> [s EXCEPT !.underline = 2]
                         [] n = 24 -> [s EXCEPT !.underline = 0]
                         [] n \in 30..37 -> [s EXCEPT !.fg = <<n - 30>>]
                         [] n \in 40..47 -> [s EXCEPT !.bg = <<n - 40>>]
                         [] n \in 90..97 -> [s EXCEPT !.fg = <<n - 90 + 8>>]
                         [] n \in 100..107 -> [s EXCEPT !.bg = <<n - 100 + 8>>]
                         [] n \in {39, 49, 59} -> [s EXCEPT ![ColorOf[n - 1]] = DefaultColor]
                         [] OTHER -> s)

\* sgr: the pen after the parameters.  No parameters are a reset, and
\* protection survives whatever they say.
ApplySgr(style, params) ==
  LET after[i \in 0..Len(params)] ==
        IF i = 0 THEN [style |-> style, skip |-> 0] ELSE SgrParam(after[i-1], params, i)
      end == IF params = <<>> THEN DefaultStyle ELSE after[Len(params)].style
  IN  [end EXCEPT !.protected = style.protected]

-----------------------------------------------------------------------------
\* Foreground (base 30) and background (base 40) colours: the sixteen ANSI
\* ones have parameters of their own, the others take semicolons.
ColorParams(color, base) ==
  CASE color = << >> -> << >>
    [] Len(color) = 1 /\ color[1] < 8 -> <<<<base + color[1]>>>>
    [] Len(color) = 1 /\ color[1] \in 8..15 -> <<<<base + 60 + color[1] - 8>>>>
    [] Len(color) = 1 /\ color[1] >= 16 -> <<<<base + 8>>, <<5>>, color>>
    [] OTHER -> <<<<base + 8>>, <<2>>, <<color[1]>>, <<color[2]>>, <<color[3]>>>>

\* sgr_params; the underline's style and colour keep the colon form.
SgrParams(style) ==
  LET number == <<1, 2, 3, 5, 7, 8, 9>>
      on == SelectSeq(number, LAMBDA n : AttrSet[n] \in style.attrs)
      under == CASE style.underline = 0 -> << >>
                 [] style.underline = 1 -> <<<<4>>>>
                 [] OTHER -> <<<<4, style.underline>>>>
      color == style.underline_color
  IN  <<<<0>>>> \o [k \in DOMAIN on |-> <<on[k]>>] \o under
        \o ColorParams(style.fg, 30) \o ColorParams(style.bg, 40)
        \o CASE color = << >> -> << >>
             [] Len(color) = 1 -> <<<<58, 5>> \o color>>
             [] OTHER -> <<<<58, 2>> \o color>>
=============================================================================
