---------------------------- MODULE MCTerminal ----------------------------
(***************************************************************************)
(* A session's terminal and the user's on a screen of three by three.      *)
(***************************************************************************)
EXTENDS TermSession

P(c) == <<"print", c>>
E(b) == <<"exec", b>>
Csi0(f) == <<"csi", f>>
Csi(f, n) == <<"csi", f, n>>
Csi2(f, n, k) == <<"csi", f, n, k>>
Esc(f) == <<"esc", f>>
Pen(params) == <<"csi", "m", params>>

\* Text of all widths, line controls and editing.
TextWords ==
  {P("a"), P("W"), P("^"), E("CR"), E("LF"), E("BS"), Csi0("H"), Csi2("H", 2, 3), Csi("K", 0), Csi("J", 0),
   Csi("@", 1), Csi("P", 1), Csi("X", 1), Csi("b", 2), Csi("L", 1), Csi("M", 1), Csi("h", 4), DecReset(7)}

\* Every control function, once or twice.
ControlWords ==
  {P("a"), P("W"), P("q"), P("#"), E("CR"), E("LF"), E("HT"), E("BEL"), E("SO"), E("SI"), E("HTS"),
   E("IND"), E("NEL"), E("RI"),
   Esc("7"), Esc("8"), Esc("D"), Esc("E"), Esc("M"), Esc("c"), Esc("="), Esc(">"), Esc("Z"), Esc("#8"),
   <<"esc", "(", "0">>, <<"esc", ")", "A">>,
   Csi("A", 1), Csi("B", 1), Csi("C", 1), Csi("D", 1), Csi("E", 1), Csi("F", 1), Csi("G", 2), Csi2("H", 3, 3),
   Csi("I", 2), Csi("J", 1), Csi("J", 2), Csi("J", 3), Csi("?J", 2), Csi("K", 1), Csi("?K", 2), Csi("L", 2), Csi("M", 2),
   Csi("S", 1), Csi("T", 1), Csi("Z", 1), Csi("a", 1), Csi("d", 2), Csi("e", 2), Csi("g", 0), Csi("g", 3),
   Csi2("r", 2, 3), Csi2("r", 1, 2), Csi2("r", 0, 0), Csi0("s"), Csi0("u"), Csi0("!p"), Csi("guard", 1), Csi(" q", 3),
   Csi("h", 20), Csi("l", 20), Csi("n", 6), Csi("?n", 6), Csi("?$p", 7), Csi("$p", 4), Csi0("#P"), Csi0("#Q"), Csi0("#R"),
   Csi(">u", {0}), Csi("<u", 1), Csi2("=u", {1}, 2), Csi0("?u"), Csi("t", 18), Csi0(">q"), Csi("c", 0), Csi0(">c"),
   DecSet(6), DecReset(6), DecSet(7), DecSet(40), DecSet(3), DecReset(3), DecSet(47), DecSet(1047), DecReset(1047),
   DecSet(1049), DecReset(1049), DecSet(1048), DecReset(1048), DecSet(1000), DecSet(1006), DecSet(25), DecReset(25), DecSet(2004),
   Pen(<<>>), Pen(<<<<1>>, <<41>>>>), Pen(<<<<38>>, <<5>>, <<20>>, <<4, 3>>>>), Pen(<<<<39>>, <<22>>, <<58, 2, 1, 2, 3>>>>),
   Pen(<<<<48>>, <<2>>, <<1>>, <<2>>, <<3>>, <<97>>>>),
   <<"osc", 0, "t">>, <<"osc", 2, "u">>, <<"osc", 4, 1, "red">>, <<"osc", 7, "dir">>, <<"osc", 8, "", "uri">>, <<"osc", 8, "", "">>,
   <<"osc", 9, "n">>, <<"osc", 11, "blue">>, <<"osc", 22, "hand">>, <<"osc", 52, <<"p">>, "clip">>, <<"osc", 66, 2, <<"a">>>>,
   <<"osc", 104, {}>>, <<"osc", 111>>, <<"osc", 133, "A">>,
   <<"dcs", "$q", "m">>, <<"dcs", "$q", "r">>, <<"dcs", "+q", <<"Co", "xx">>>>}

\* Graphics commands.  An RGB image of 2 by 2 takes 12 bytes, an RGBA one 16.
G(action, id) == [DefaultCommand EXCEPT !.action = action, !.id = id]
Apc(cmd) == <<"apc", cmd>>
Dot(id) == [G("t", id) EXCEPT !.width = 1, !.height = 1, !.size = 4]
Big(id) == [G("T", id) EXCEPT !.width = 2, !.height = 2, !.format = 24, !.size = 12]
GraphicsWords ==
  {Apc(c) : c \in
    {Dot(1), [Dot(0) EXCEPT !.number = 7], Big(2), [Big(1) EXCEPT !.more = TRUE, !.size = 6], [DefaultCommand EXCEPT !.size = 6],
     [G("none", 0) EXCEPT !.more = TRUE, !.size = 16], [G("q", 3) EXCEPT !.format = 100, !.png = <<2, 2>>, !.size = 4],
     [G("t", 2) EXCEPT !.format = 100, !.png = <<2, 2>>, !.compression = "z", !.size = 4],
     [Dot(2) EXCEPT !.fault = "base64", !.quiet = 1], [Dot(2) EXCEPT !.medium = "shm"], [Big(3) EXCEPT !.height = 5, !.size = 30],
     [Dot(1) EXCEPT !.action = "f"], [Dot(1) EXCEPT !.action = "f", !.cols = 1, !.cell_x = 1],
     [Dot(1) EXCEPT !.action = "f", !.rows = 1, !.format = 24, !.size = 3, !.cols = 2],
     [G("a", 1) EXCEPT !.width = 3, !.cols = 1], [G("c", 1) EXCEPT !.rows = 1, !.cols = 2],
     [G("p", 1) EXCEPT !.placement = 1], [G("p", 0) EXCEPT !.number = 7, !.unicode = TRUE, !.cols = 2],
     [G("p", 2) EXCEPT !.placement = 2, !.parent = 1, !.parent_placement = 1, !.h_off = 1, !.v_off = -1],
     [G("p", 1) EXCEPT !.placement = 1, !.parent = 2, !.h_off = 1],
     G("d", 0), [G("d", 0) EXCEPT !.delete = "a", !.free = TRUE], [G("d", 1) EXCEPT !.delete = "i", !.free = TRUE],
     [G("d", 2) EXCEPT !.delete = "i", !.placement = 2], [G("d", 0) EXCEPT !.delete = "n", !.number = 7, !.free = TRUE],
     [G("d", 0) EXCEPT !.delete = "c", !.free = TRUE], [G("d", 0) EXCEPT !.delete = "p", !.x = 2, !.y = 1],
     [G("d", 0) EXCEPT !.delete = "x", !.x = 2, !.free = TRUE], [G("d", 0) EXCEPT !.delete = "z"],
     G("u", 1), G("malformed", 0)}} \cup {Csi2("H", 2, 2), Esc("c")}

\* What the renderer must follow.
DrawnWords ==
  {P("a"), P("W"), E("CR"), E("LF"), Csi2("H", 3, 1), Csi2("H", 1, 3), Csi("K", 0), Csi("M", 1), Csi("S", 1), Csi("X", 2),
   Pen(<<<<7>>, <<41>>>>), Pen(<<>>), <<"osc", 8, "", "uri">>, DecSet(1049), DecReset(1049), DecReset(25), DecSet(1002), DecReset(1002), DecSet(1006),
   DecSet(2004), DecSet(5), DecSet(1007), <<"osc", 2, "t">>, E("BEL"), <<"osc", 52, <<"c">>, "clip">>}

\* What an attached terminal must follow.
AttachedWords ==
  {P("a"), P("q"), P("W"), E("LF"), Csi("K", 1), Csi("L", 1), DecSet(1049), DecReset(1049), DecSet(47), DecReset(47), Esc("c"), Csi("h", 4), DecSet(6), DecReset(7),
   Csi2("r", 1, 2), Csi2("H", 3, 3), <<"esc", "(", "0">>, E("SO"), Pen(<<<<44>>>>), Csi("guard", 1), <<"osc", 8, "", "uri">>, DecReset(25), Csi("h", 20)}

Full == <<P("a"), P("b"), P("c"), P("d"), P("W")>>

MCVocabulary == [text |-> TextWords, control |-> ControlWords, graphics |-> GraphicsWords, remote |-> DrawnWords, banner |-> {P("a"), Csi2("H", 2, 2)}, attached |-> AttachedWords]
MCScripts ==
  [text |-> {<<>>},
   control |-> {<<P("a"), P("b"), P("c"), P("d"), E("LF")>>,
                <<P("a"), E("CR"), E("LF"), P("W"), E("CR"), E("LF"), P("b"), P("c"), P("d"), P("e")>>,
                <<P("a"), P("b"), Csi2("H", 2, 1), P("c"), P("d"), Csi2("r", 2, 3), Csi2("H", 3, 2), P("e"), Esc("7")>>,
                <<Csi("guard", 1), P("a"), Csi("guard", 0), DecSet(40), DecSet(1049), P("b"), P("c"), P("d"), Csi(">u", {0})>>},
   graphics |-> {<<>>, <<Apc(Dot(1)), Apc([G("p", 1) EXCEPT !.placement = 1]), Apc(Big(2)), Apc([Dot(1) EXCEPT !.action = "f"])>>},
   remote |-> {<<>>, <<P("a"), P("b"), P("c"), P("d"), E("CR"), E("LF"), P("W")>>},
   banner |-> {<<P("a")>>},
   attached |-> {<<P("a"), P("b"), P("c"), P("d")>>, <<P("a"), DecSet(1049), P("b"), Csi2("r", 2, 3)>>}]
MCOutputs == [text |-> 5, control |-> 2, graphics |-> 4, remote |-> 2, banner |-> 1, attached |-> 3]
MCSizes == {<<2, 4>>, <<4, 2>>, <<2, 2>>, <<3, 5>>, <<1, 3>>}
=============================================================================
