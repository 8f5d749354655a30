------------------------------ MODULE Painting ------------------------------
(***************************************************************************)
(* From libfreerdp's drawing callbacks (Update.cpp, Primary.cpp) to the    *)
(* canvas of the browser (webroot/js/wsgate-debug.js, _pmsg, _cR, _sROP,   *)
(* _ckclp): what of the canvas an order changes, and what it should.       *)
(*                                                                         *)
(* Messages arrive in order, so a callback and its handling are one step.  *)
(* libfreerdp paints between BeginPaint and EndPaint and gives the bounds  *)
(* of an order before it and takes them back after it (external).  Colours *)
(* and pixels are left out: an order is the cells it changes or blanks.    *)
(***************************************************************************)
EXTENDS Integers, Sequences, FiniteSets

CONSTANTS W, H      \* the size of the canvas in cells

ASSUME SizeAssumption == W \in Nat \ {0} /\ H \in Nat \ {0}

Cells == (0 .. W - 1) \X (0 .. H - 1)

\* Rectangles within the canvas, as x, y, w, h.
Rects == {r \in [x : 0 .. W - 1, y : 0 .. H - 1, w : 1 .. W, h : 1 .. H] :
            r.x + r.w <= W /\ r.y + r.h <= H}
Zero == [x |-> 0, y |-> 0, w |-> 0, h |-> 0]

Area(r) == {c \in Cells : c[1] \in r.x .. r.x + r.w - 1 /\ c[2] \in r.y .. r.y + r.h - 1}

VARIABLES
    painting,   \* libfreerdp is between BeginPaint and EndPaint
    bounds,     \* the bounds it has set, Zero for none
    served,     \* it has given the order they are for
    clip, rop,  \* canvas context: clipping region and composite operation
    saved,      \* canvas context: the stack of saved states
    ccnt,       \* the client's count of them
    clipRect,   \* clx, cly, clw, clh
    bounded,    \* an earlier order of this paint had bounds
    order       \* the order just drawn: its kind, how its result differs from what it asks

context == <<clip, rop, saved>>
vars == <<painting, bounds, served, context, ccnt, clipRect, bounded, order>>

Ops == {"source-over", "copy", "xor"}   \* what _sROP makes of a raster operation
NoOrder == [kind |-> "none", lost |-> FALSE, spilled |-> FALSE, blanked |-> FALSE]

Init ==
    /\ painting = FALSE /\ bounds = Zero /\ served = FALSE
    /\ clip = Cells /\ rop = "source-over" /\ saved = <<>> /\ ccnt = 0
    /\ clipRect = Zero /\ bounded = FALSE /\ order = NoOrder

-----------------------------------------------------------------------------
\* The context.

\* _ctxS and _ctxR.  restore() of an empty stack does nothing.
_ctxS == saved' = Append(saved, [clip |-> clip, rop |-> rop]) /\ ccnt' = ccnt + 1
         /\ UNCHANGED <<clip, rop>>
_ctxR ==
    /\ ccnt' = ccnt - 1
    /\ \/ saved = <<>> /\ UNCHANGED context
       \/ /\ saved # <<>> /\ saved' = SubSeq(saved, 1, Len(saved) - 1)
          /\ clip' = saved[Len(saved)].clip /\ rop' = saved[Len(saved)].rop

\* The region _cR leaves.  "x == y == 0" compares a Boolean with 0, and so does
\* "w == h == 0": the return is taken for x # y with w # h or the size of the canvas.
\* clip() only ever makes a region smaller.
Narrowed(region, r) ==
    IF r.x # r.y /\ (r.w # r.h \/ (r.w = W /\ r.h = H)) THEN region
    ELSE region \cap Area(r)

\* _ckclp: the point is in the bounds of the last SetBounds, edges included.
_ckclp(x, y) ==
    \/ clipRect.w = 0 /\ clipRect.h = 0
    \/ /\ x \in clipRect.x .. clipRect.x + clipRect.w
       /\ y \in clipRect.y .. clipRect.y + clipRect.h

\* What drawing over cells does in a region: the cells that get the drawing, and those
\* that become transparent.
Changed(cells, region, op) == IF op = "xor" THEN {} ELSE cells \cap region
Blanked(cells, region, op) ==
    CASE op = "copy" -> region \ cells
      [] op = "xor" -> cells \cap region
      [] OTHER -> {}

\* An order for an area, compared with the area it is for.
Compare(kind, area, changed, blanked) ==
    LET asked == IF bounds = Zero THEN area ELSE area \cap Area(bounds)
    IN  /\ order' = [kind |-> kind, lost |-> asked \ (changed \cup blanked) # {},
                     spilled |-> changed \ asked # {}, blanked |-> blanked # {}]
        /\ served' = (bounds # Zero)

-----------------------------------------------------------------------------
\* libfreerdp's calls.

BeginPaint ==
    /\ ~painting /\ painting' = TRUE /\ bounded' = FALSE /\ order' = NoOrder
    /\ _ctxS
    /\ UNCHANGED <<bounds, served, clipRect>>

EndPaint ==
    /\ painting /\ bounds = Zero /\ painting' = FALSE /\ order' = NoOrder
    /\ _ctxR
    /\ UNCHANGED <<bounds, served, clipRect, bounded>>

SetBounds_SavedIfGiven(r) ==
    /\ bounds' = r /\ served' = FALSE /\ order' = NoOrder
    /\ clip' = Narrowed(clip, r) /\ clipRect' = IF r = Zero THEN clipRect ELSE r
    /\ UNCHANGED <<painting, rop, saved, ccnt>>

SetBounds_EdgeLost(r) ==
    /\ bounds' = r /\ served' = FALSE /\ order' = NoOrder
    /\ clip' = Narrowed(clip, [r EXCEPT !.w = @ - 1, !.h = @ - 1]) /\ clipRect' = r
    /\ UNCHANGED <<painting, rop, saved, ccnt>>

\* SetBounds(bounds) before an order and SetBounds(NULL), which sends zeroes, after it.
SetBounds(r) ==
    /\ bounds' = r /\ served' = FALSE /\ order' = NoOrder
    /\ clip' = Narrowed(clip, r) /\ clipRect' = r
    /\ UNCHANGED <<painting, rop, saved, ccnt>>

GiveBounds(r) == painting /\ bounds = Zero /\ SetBounds(r) /\ UNCHANGED bounded
TakeBounds == painting /\ bounds # Zero /\ served /\ SetBounds(Zero) /\ bounded' = TRUE

Ordered == painting /\ (bounds = Zero \/ ~served)
Keep == UNCHANGED <<painting, bounds, ccnt, clipRect, bounded>>

\* OpaqueRect, and MultiOpaqueRect with one rectangle and with two.
OpaqueRect(r) ==
    /\ Ordered
    /\ Compare("fill", Area(r), Changed(Area(r), clip, rop), Blanked(Area(r), clip, rop))
    /\ Keep /\ UNCHANGED context

MultiOpaqueRect(r1, r2) ==
    /\ Ordered
    /\ LET first == Changed(Area(r1), clip, rop)
           second == Changed(Area(r2), clip, rop)
           blank == Blanked(Area(r2), clip, rop)
       IN  Compare("fill", Area(r1) \cup Area(r2), (first \ blank) \cup second,
                   blank \cup (Blanked(Area(r1), clip, rop) \ second))
    /\ Keep /\ UNCHANGED context

\* PatBlt with a solid brush, in a context of its own that is clipped to the rectangle.
PatBlt(r, op) ==
    /\ Ordered
    /\ LET region == Narrowed(clip, r)
       IN  Compare("pattern", Area(r), Changed(Area(r), region, op), Blanked(Area(r), region, op))
    /\ Keep /\ UNCHANGED context

\* A pattern brush is not sent; a raster operation _sROP does not know and a bitmap of
\* other than 15 or 16 bits are not drawn; DstBlt, LineTo and Polyline are announced to
\* the server and only logged.
NotDrawn(r) ==
    /\ Ordered
    /\ Compare("undrawn", Area(r), {}, {})
    /\ Keep /\ UNCHANGED context

\* ScrBlt sets the operation of the context and leaves it.  putImageData knows neither
\* region nor operation.
ScrBlt(r, op) ==
    /\ Ordered
    /\ rop' = op /\ UNCHANGED <<clip, saved>>
    /\ IF _ckclp(r.x, r.y) /\ _ckclp(r.x + r.w, r.y + r.h)
       THEN Compare("copy", Area(r), Area(r), {})
       ELSE Compare("copy", Area(r), Changed(Area(r), clip, op), Blanked(Area(r), clip, op))
    /\ Keep

\* BitmapUpdate, which is no order and has no bounds.
BitmapUpdate(r) ==
    /\ painting /\ bounds = Zero
    /\ IF _ckclp(r.x, r.y) /\ _ckclp(r.x + r.w, r.y + r.h)
       THEN Compare("bitmap", Area(r), Area(r), {})
       ELSE Compare("bitmap", Area(r), Changed(Area(r), clip, rop), Blanked(Area(r), clip, rop))
    /\ Keep /\ UNCHANGED context

\* DesktopResize, between paints (external), which gives the client a new context.  The
\* new size is left out.
DesktopResize ==
    /\ ~painting /\ order' = NoOrder
    /\ clip' = Cells /\ rop' = "source-over" /\ saved' = <<>>
    /\ UNCHANGED <<painting, bounds, served, ccnt, clipRect, bounded>>

\* _reset, at the end of a session: the page gives the canvas its size again, which
\* makes a new context, and the saved states are restored as far as there are any.
_reset ==
    /\ painting' = FALSE /\ bounds' = Zero /\ served' = FALSE /\ bounded' = FALSE
    /\ clip' = Cells /\ rop' = "source-over" /\ saved' = <<>>
    /\ ccnt' = IF ccnt > 0 THEN 0 ELSE ccnt
    /\ clipRect' = Zero /\ order' = NoOrder

Next ==
    \/ BeginPaint \/ EndPaint
    \/ \E r \in Rects : GiveBounds(r) \/ OpaqueRect(r) \/ NotDrawn(r) \/ BitmapUpdate(r)
    \/ \E r1 \in Rects, r2 \in Rects : MultiOpaqueRect(r1, r2)
    \/ \E r \in Rects, op \in Ops : PatBlt(r, op) \/ ScrBlt(r, op)
    \/ TakeBounds \/ DesktopResize \/ _reset

Spec == Init /\ [][Next]_vars

-----------------------------------------------------------------------------
(***************************************************************************)
(* Properties.                                                             *)
(***************************************************************************)

TypeOK ==
    /\ {painting, served, bounded} \subseteq BOOLEAN
    /\ bounds \in Rects \cup {Zero} /\ clipRect = bounds
    /\ clip \subseteq Cells /\ rop \in Ops
    /\ Len(saved) = ccnt /\ ccnt \in 0..1
    /\ order \in [kind : {"none", "fill", "pattern", "copy", "bitmap", "undrawn"},
                  lost : BOOLEAN, spilled : BOOLEAN, blanked : BOOLEAN]

\* A bitmap is drawn exactly, whatever the orders before it left in the context.
BitmapExact == order.kind = "bitmap" => ~(order.lost \/ order.spilled \/ order.blanked)

\* Something of an order is lost only if the client does not draw its kind, or an
\* earlier order of the same paint had bounds, which leave an empty region behind.
LostExplained == order.lost => order.kind = "undrawn" \/ bounded

\* An order draws outside its bounds only if these neither start on the diagonal nor
\* are square; and it blanks what is there only if it is a pattern, or a screen copy of
\* the same paint, itself included, left an operation other than copying in the context.
SpillExplained ==
    /\ order.spilled => bounds.x # bounds.y /\ (bounds.w # bounds.h \/ bounds.w = W)
    /\ order.blanked => order.kind = "pattern" \/ rop # "source-over"

\* What an order changes of the canvas is what it asks for, but for what the context
\* and the tests of _cR account for.
OrdersExplained == LostExplained /\ SpillExplained
=============================================================================
