----------------------------- MODULE Graphics -----------------------------
(***************************************************************************)
(* Kitty graphics (posh-term: graphics.rs): the images, their animation    *)
(* frames and their placements on the grid, under a storage quota.  Pixels *)
(* are abstracted to their number of bytes, and a payload to its size with *)
(* the one thing that is wrong with it, if any.  What a placement only     *)
(* stores and sends on (the corner of its source rectangle and the offset  *)
(* inside its first cell) is left out.  Everything is a pure operator on   *)
(* the graphics state, which is a field of the terminal.                   *)
(***************************************************************************)
EXTENDS Screen

CONSTANTS
  Quota,           \* QUOTA_BYTES
  MaxPending,      \* MAX_PENDING_PAYLOAD
  CellW, CellH     \* pixels of a cell

NoGraphics ==
  [images |-> <<>>, placements |-> <<>>, frames |-> <<>>, animations |-> <<>>, pending |-> <<>>,
   total |-> 0, next_seq |-> 0, next_id |-> 0]

\* Command::default.  `size` and `fault` stand for the payload, `png` for the
\* dimensions that decoding one finds.
DefaultCommand ==
  [action |-> "none", quiet |-> 0, format |-> 0, medium |-> "direct", compression |-> "none", width |-> 0, height |-> 0,
   id |-> 0, number |-> 0, placement |-> 0, more |-> FALSE, x |-> 0, y |-> 0, w |-> 0, h |-> 0, cols |-> 0, rows |-> 0,
   z |-> 0, delete |-> "none", free |-> FALSE, no_move |-> FALSE, unicode |-> FALSE, parent |-> 0, parent_placement |-> 0,
   h_off |-> 0, v_off |-> 0, cell_x |-> 0, cell_y |-> 0, size |-> 0, fault |-> "none", png |-> <<1, 1>>]

\* A part without `=` makes the whole command void.
Understood(cmd) == cmd.action # "malformed"

\* What a command leaves: the state, an answer (<<>> when none) and how far the
\* cursor moves (<<>> when it stays).
Done(g, reply, advance) == [g |-> g, reply |-> reply, advance |-> advance]

\* respond: silent without an address or when told to be quiet.
ReplyTo(cmd, message) ==
  IF (cmd.id = 0 /\ cmd.number = 0) \/ cmd.quiet >= 2 \/ (message = "OK" /\ cmd.quiet = 1) THEN <<>>
  ELSE <<cmd.id, cmd.number, message>>
Refused(g, cmd, message) == Done(g, ReplyTo(cmd, message), <<>>)

Without(f, id) == [k \in DOMAIN f \ {id} |-> f[k]]
SizeOf(frames) == LET sum[i \in 0..Len(frames)] == IF i = 0 THEN 0 ELSE sum[i-1] + frames[i].size IN sum[Len(frames)]
FramesOf(g, id) == IF id \in DOMAIN g.frames THEN g.frames[id] ELSE <<>>

\* remove_image_data: with its frames and its animation.
RemoveImageData(g, id) ==
  [g EXCEPT !.total = @ - (IF id \in DOMAIN g.images THEN g.images[id].size ELSE 0) - SizeOf(FramesOf(g, id)),
            !.images = Without(@, id), !.frames = Without(@, id), !.animations = Without(@, id)]

\* enforce_quota: the oldest images go, with their placements.
Oldest(g) == CHOOSE id \in DOMAIN g.images : \A k \in DOMAIN g.images : g.images[id].seq <= g.images[k].seq
EvictOldest(g) ==
  LET id == Oldest(g)
  IN  [RemoveImageData(g, id) EXCEPT !.placements = SelectSeq(@, LAMBDA p : p.image # id)]
EnforceQuota(g) ==
  LET after[k \in 0..Cardinality(DOMAIN g.images)] ==
        IF k = 0 THEN g
        ELSE IF after[k-1].total > Quota THEN EvictOldest(after[k-1]) ELSE after[k-1]
  IN  after[Cardinality(DOMAIN g.images)]

\* resolve_id: by id, or the youngest of that number; 0 when there is none.
ResolveId(g, cmd) ==
  LET named == {id \in DOMAIN g.images : g.images[id].number = cmd.number}
  IN  CASE cmd.id # 0 -> IF cmd.id \in DOMAIN g.images THEN cmd.id ELSE 0
        [] cmd.id = 0 /\ cmd.number # 0 /\ named # {} ->
             CHOOSE id \in named : \A k \in named : g.images[id].seq >= g.images[k].seq
        [] OTHER -> 0

-----------------------------------------------------------------------------
(***************************************************************************)
(* Placements.                                                             *)
(***************************************************************************)

\* extent: columns and rows, derived from pixels where not given.
CeilDiv(a, b) == (a + b - 1) \div b
Extent(g, p) ==
  LET known == p.image \in DOMAIN g.images
      w == IF p.w = 0 /\ known THEN g.images[p.image].width ELSE p.w
      h == IF p.h = 0 /\ known THEN g.images[p.image].height ELSE p.h
  IN  <<IF p.cols # 0 THEN p.cols ELSE Most(1, CeilDiv(w, CellW)), IF p.rows # 0 THEN p.rows ELSE Most(1, CeilDiv(h, CellH))>>

\* find_placement: its index, 0 when there is none; placement 0 is any.
FindPlacement(g, image, placement) ==
  SelectInSeq(g.placements, LAMBDA p : p.image = image /\ (placement = 0 \/ p.placement = placement))

\* The ancestors of a new placement, one more than there are placements: the
\* place itself among them is a cycle.
Ancestors(g, cmd) ==
  LET up(at) == LET i == FindPlacement(g, at[1], at[2])
                IN  IF i = 0 \/ g.placements[i].parent = 0 THEN <<0, 0>>
                    ELSE <<g.placements[i].parent, g.placements[i].parent_placement>>
      at[k \in 0..Len(g.placements)] ==
        IF k = 0 THEN <<cmd.parent, cmd.parent_placement>> ELSE IF at[k-1][1] = 0 THEN at[k-1] ELSE up(at[k-1])
  IN  {at[k] : k \in 0..Len(g.placements)}

\* add_placement at a cell: it takes the place of one with the same ids.
PlaceAt(g, cmd, cell) ==
  LET p == [image |-> cmd.id, placement |-> cmd.placement, row |-> cell[1], col |-> cell[2], w |-> cmd.w, h |-> cmd.h,
            cols |-> cmd.cols, rows |-> cmd.rows, z |-> cmd.z, parent |-> cmd.parent, parent_placement |-> cmd.parent_placement,
            h_off |-> cmd.h_off, v_off |-> cmd.v_off, unicode |-> cmd.unicode]
      others == SelectSeq(g.placements, LAMBDA q : ~(q.image = cmd.id /\ q.placement = cmd.placement))
  IN  Done([g EXCEPT !.placements = Append(others, p)], ReplyTo(cmd, "OK"),
           IF cmd.no_move \/ cmd.unicode \/ cmd.parent # 0 THEN <<>> ELSE Extent(g, p))
AddPlacement(g, cmd, cursor) ==
  LET i == FindPlacement(g, cmd.parent, cmd.parent_placement)
  IN  CASE cmd.parent = 0 -> PlaceAt(g, cmd, cursor)
        [] cmd.parent # 0 /\ <<cmd.id, cmd.placement>> \in Ancestors(g, cmd) -> Refused(g, cmd, "ECYCLE")
        [] cmd.parent # 0 /\ <<cmd.id, cmd.placement>> \notin Ancestors(g, cmd) /\ i = 0 -> Refused(g, cmd, "ENOPARENT")
        [] OTHER -> PlaceAt(g, cmd, <<Most(0, g.placements[i].row + cmd.v_off), Most(0, g.placements[i].col + cmd.h_off)>>)

Place(g, cmd, cursor) ==
  IF ResolveId(g, cmd) = 0 THEN Refused(g, cmd, "ENOENT")
  ELSE AddPlacement(g, [cmd EXCEPT !.id = ResolveId(g, cmd)], cursor)

Intersects(g, p, row, col) ==
  LET e == Extent(g, p) IN ~p.unicode /\ row \in p.row..(p.row + e[2] - 1) /\ col \in p.col..(p.col + e[1] - 1)

\* Which placements the positional forms name; their cells count from 1.
Named(g, cmd, cursor, p) ==
  CASE cmd.delete = "c" -> Intersects(g, p, cursor[1], cursor[2])
    [] cmd.delete = "p" -> cmd.x >= 1 /\ cmd.y >= 1 /\ Intersects(g, p, cmd.y - 1, cmd.x - 1)
    [] cmd.delete = "q" -> p.z = cmd.z /\ cmd.x >= 1 /\ cmd.y >= 1 /\ Intersects(g, p, cmd.y - 1, cmd.x - 1)
    [] cmd.delete = "x" -> cmd.x >= 1 /\ Intersects(g, p, p.row, cmd.x - 1)
    [] cmd.delete = "y" -> cmd.y >= 1 /\ Intersects(g, p, cmd.y - 1, p.col)
    [] cmd.delete = "z" -> p.z = cmd.z
    [] OTHER -> FALSE

\* delete_placements: with `free`, an image without placements goes too.
DeletePlacements(g, cmd, cursor) ==
  LET hit == {g.placements[i].image : i \in {k \in DOMAIN g.placements : Named(g, cmd, cursor, g.placements[k])}}
      kept == SelectSeq(g.placements, LAMBDA p : ~Named(g, cmd, cursor, p))
      bare == SetToSeq({id \in hit : \A i \in DOMAIN kept : kept[i].image # id})
      after[k \in 0..Len(bare)] ==
        IF k = 0 THEN [g EXCEPT !.placements = kept] ELSE RemoveImageData(after[k-1], bare[k])
  IN  after[IF cmd.free THEN Len(bare) ELSE 0]

\* d=i with a placement takes only that one; either way `free` frees the image.
DeleteImage(g, cmd, id, placement) ==
  LET kept == [g EXCEPT !.placements = SelectSeq(@, LAMBDA p : p.image # id \/ (placement # 0 /\ p.placement # placement))]
  IN  CASE id = 0 -> g
        [] id # 0 /\ cmd.free -> RemoveImageData(kept, id)
        [] OTHER -> kept

Delete(g, cmd, cursor) ==
  CASE cmd.delete \in {"none", "a"} ->
         IF cmd.free THEN [g EXCEPT !.placements = <<>>, !.images = <<>>, !.frames = <<>>, !.animations = <<>>, !.total = 0]
         ELSE [g EXCEPT !.placements = <<>>]
    [] cmd.delete = "i" -> DeleteImage(g, cmd, ResolveId(g, cmd), cmd.placement)
    [] cmd.delete = "n" -> DeleteImage(g, cmd, ResolveId(g, [cmd EXCEPT !.id = 0]), 0)
    [] OTHER -> DeletePlacements(g, cmd, cursor)

-----------------------------------------------------------------------------
(***************************************************************************)
(* Transmissions and animation.                                            *)
(***************************************************************************)

\* What is wrong with a transmission of `size` bytes, in the order the code
\* looks at it; OK when nothing is.
FileChecks(cmd, size) ==
  <<<<cmd.medium = "file" /\ cmd.fault = "base64", "EINVAL">>, <<cmd.medium = "file" /\ cmd.fault = "path", "ENOENT">>,
    <<cmd.medium = "file" /\ size > Quota, "EFBIG">>>>
Depth(format) == IF format = 24 THEN 3 ELSE 4
Verdict(cmd, size) ==
  LET packed == cmd.compression # "none"
      checks == FileChecks(cmd, size) \o
                <<<<cmd.medium = "direct" /\ cmd.fault = "base64", "EINVAL">>,
                  <<cmd.medium = "shm", "EUNSUPPORTED">>,
                  <<cmd.medium \notin {"direct", "file"}, "EINVAL">>,
                  <<packed /\ cmd.compression # "z", "EINVAL">>,
                  <<packed /\ size > Quota, "EFBIG">>,
                  <<packed /\ cmd.fault = "zlib", "EINVAL">>,
                  <<cmd.format \notin {0, 24, 32, 100}, "EINVAL">>,
                  <<cmd.format = 100 /\ cmd.fault = "png", "EBADPNG">>,
                  <<cmd.format # 100 /\ (cmd.width * cmd.height = 0 \/ size # cmd.width * cmd.height * Depth(cmd.format)), "EINVAL">>>>
      bad == SelectInSeq(checks, LAMBDA c : c[1])
  IN  IF bad = 0 THEN "OK" ELSE checks[bad][2]

\* A PNG is stored decoded, with the dimensions found in it.
Decoded(cmd, size) ==
  IF cmd.format = 100 THEN [cmd EXCEPT !.width = cmd.png[1], !.height = cmd.png[2], !.size = cmd.png[1] * cmd.png[2] * 4]
  ELSE [cmd EXCEPT !.size = size]

\* a=f: the frame r=, or the next one.
StoreFrame(g, cmd) ==
  LET id == ResolveId(g, cmd)
      old == FramesOf(g, id)
      numbers == {old[i].number : i \in DOMAIN old}
      n == IF cmd.rows # 0 THEN cmd.rows ELSE IF numbers = {} THEN 1 ELSE 1 + CHOOSE m \in numbers : \A k \in numbers : k <= m
      frame == [number |-> n, gap |-> cmd.z, base |-> cmd.cols, x |-> cmd.x, y |-> cmd.y, rgb |-> cmd.format = 24,
                width |-> cmd.width, height |-> cmd.height, size |-> cmd.size, replace |-> cmd.cell_x = 1]
      new == IF n \in numbers THEN Each(Len(old), LAMBDA i : IF old[i].number = n THEN frame ELSE old[i]) ELSE Append(old, frame)
  IN  IF id = 0 THEN Refused(g, cmd, "ENOENT")
      ELSE Refused(EnforceQuota([g EXCEPT !.frames = (id :> new) @@ @, !.total = @ + SizeOf(new) - SizeOf(old)]), cmd, "OK")

\* The image replaces the one of its id; its placements stay.
StoreImage(g, cmd) ==
  LET u == RemoveImageData(g, cmd.id)
      image == [number |-> cmd.number, rgb |-> cmd.format = 24, width |-> cmd.width, height |-> cmd.height, size |-> cmd.size,
                seq |-> g.next_seq + 1]
  IN  EnforceQuota([u EXCEPT !.total = @ + cmd.size, !.next_seq = @ + 1, !.images = (cmd.id :> image) @@ @])

\* An id is chosen when none is given, for a query as well.
Identified(g, cmd) == [cmd EXCEPT !.id = IF @ = 0 THEN g.next_id + 1 ELSE @]
Transmit(g, cmd, cursor) ==
  LET h == [g EXCEPT !.next_id = Most(@, cmd.id)]
  IN  CASE cmd.action = "q" -> Refused(h, cmd, "OK")
        [] cmd.action = "T" -> AddPlacement(StoreImage(h, cmd), cmd, cursor)
        [] OTHER -> Refused(StoreImage(h, cmd), cmd, "OK")
FinishTransmission(g, cmd, size, cursor) ==
  CASE Verdict(cmd, size) # "OK" -> Refused(g, cmd, Verdict(cmd, size))
    [] Verdict(cmd, size) = "OK" /\ cmd.action = "f" -> StoreFrame(g, Decoded(cmd, size))
    [] OTHER -> Transmit(g, Identified(g, Decoded(cmd, size)), cursor)

\* a=a: s=, v= and c= are the state, the loops and the current frame.
Animate(g, cmd) ==
  LET id == ResolveId(g, cmd)
      old == IF id \in DOMAIN g.animations THEN g.animations[id] ELSE [state |-> 0, loops |-> 0, current |-> 0]
      new == [state |-> IF cmd.width # 0 THEN cmd.width ELSE old.state, loops |-> IF cmd.height # 0 THEN cmd.height ELSE old.loops,
              current |-> IF cmd.cols # 0 THEN cmd.cols ELSE old.current]
  IN  IF id = 0 THEN Refused(g, cmd, "ENOENT") ELSE Refused([g EXCEPT !.animations = (id :> new) @@ @], cmd, "OK")

\* composed_frame is a canvas unless the chain of base frames breaks or closes.
Composable(g, id, number) ==
  LET fs == FramesOf(g, id)
      base(n) == LET i == SelectInSeq(fs, LAMBDA f : f.number = n) IN IF i = 0 THEN -1 ELSE fs[i].base
      at[k \in 0..(Len(fs) + 1)] == IF k = 0 THEN number ELSE IF at[k-1] \in {0, -1} THEN at[k-1] ELSE base(at[k-1])
  IN  at[Len(fs) + 1] = 0

\* a=c: the frame r= becomes a full canvas of its own.
Compose(g, cmd) ==
  LET id == ResolveId(g, cmd)
      fs == FramesOf(g, id)
      have(n) == n # 0 /\ \E i \in DOMAIN fs : fs[i].number = n
      canvas(f) == [f EXCEPT !.rgb = FALSE, !.x = 0, !.y = 0, !.width = g.images[id].width, !.height = g.images[id].height,
                             !.base = 0, !.replace = TRUE, !.size = g.images[id].width * g.images[id].height * 4]
      new == Each(Len(fs), LAMBDA i : IF fs[i].number = cmd.rows THEN canvas(fs[i]) ELSE fs[i])
  IN  CASE id = 0 \/ ~have(cmd.rows) \/ ~have(cmd.cols) -> Refused(g, cmd, "ENOENT")
        [] id # 0 /\ have(cmd.rows) /\ have(cmd.cols) /\ ~(Composable(g, id, cmd.cols) /\ Composable(g, id, cmd.rows)) ->
             Refused(g, cmd, "EINVAL")
        [] OTHER -> Refused(EnforceQuota([g EXCEPT !.frames[id] = new, !.total = @ - SizeOf(fs) + SizeOf(new)]), cmd, "OK")

\* GraphicsState::dispatch.  While a transmission is incomplete every command,
\* whatever its action, is taken for its next chunk.
Continue(g, cmd, cursor) ==
  LET p == g.pending[1]
      size == IF p.size + cmd.size <= MaxPending THEN p.size + cmd.size ELSE p.size
  IN  IF cmd.more THEN Done([g EXCEPT !.pending = <<[p EXCEPT !.size = size]>>], <<>>, <<>>)
      ELSE FinishTransmission([g EXCEPT !.pending = <<>>], p, size, cursor)
GraphicsDispatch(g, cmd, cursor) ==
  CASE ~Understood(cmd) -> Done(g, <<>>, <<>>)
    [] Understood(cmd) /\ g.pending # <<>> -> Continue(g, cmd, cursor)
    [] Understood(cmd) /\ g.pending = <<>> /\ cmd.action \in {"t", "T", "q", "f", "none"} ->
         IF cmd.more THEN Done([g EXCEPT !.pending = <<cmd>>], <<>>, <<>>) ELSE FinishTransmission(g, cmd, cmd.size, cursor)
    [] Understood(cmd) /\ g.pending = <<>> /\ cmd.action = "p" -> Place(g, cmd, cursor)
    [] Understood(cmd) /\ g.pending = <<>> /\ cmd.action = "d" -> Done(Delete(g, cmd, cursor), <<>>, <<>>)
    [] Understood(cmd) /\ g.pending = <<>> /\ cmd.action = "a" -> Animate(g, cmd)
    [] Understood(cmd) /\ g.pending = <<>> /\ cmd.action = "c" -> Compose(g, cmd)
    [] OTHER -> Refused(g, cmd, "EINVAL")
=============================================================================
