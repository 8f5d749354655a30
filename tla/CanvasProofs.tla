---------------------------- MODULE CanvasProofs ----------------------------
(***************************************************************************)
(* The visitor's canvas: what is drawn on it, and what mouse, fingers and  *)
(* keys send from it.                                                      *)
(*                                                                         *)
(* Painting: BitmapExact and OrdersExplained for a canvas of any size.     *)
(* The context between two paints is as new; within one, the clipping      *)
(* region is what _cR makes of the bounds until the first bounds are taken *)
(* back.                                                                   *)
(*                                                                         *)
(* Input: ButtonsExplained, KeysExplained and TextExplained for any keys,  *)
(* fingers, timers and sessions.  What is held was pressed in a session    *)
(* that lasts, and what pends in the textarea pends in the mode that can   *)
(* send it, unless it was carried into another.                            *)
(***************************************************************************)
EXTENDS Painting, Input, TLAPS

-----------------------------------------------------------------------------
(***************************************************************************)
(* Painting.                                                               *)
(***************************************************************************)
\* Bounds that _cR takes as they are.
Fits(r) == ~(r.x # r.y /\ (r.w # r.h \/ r.w = W))

Fresh == [clip |-> Cells, rop |-> "source-over"]

ContextInv ==
    /\ bounds = Zero \/ bounds \in Rects
    /\ clipRect = bounds
    /\ ~painting => bounds = Zero /\ clip = Cells /\ rop = "source-over" /\ saved = <<>>
    /\ painting => saved = <<Fresh>>
    /\ painting /\ ~bounded => clip = IF bounds = Zero THEN Cells ELSE Narrowed(Cells, bounds)
    /\ bounds # Zero /\ Fits(bounds) => clip \subseteq Area(bounds)

PaintingInv == ContextInv /\ BitmapExact /\ OrdersExplained

\* What an order for a part should change.
AskedFor(part) == IF bounds = Zero THEN part ELSE part \cap Area(bounds)

-----------------------------------------------------------------------------
LEMMA RectFacts ==
    ASSUME NEW r \in Rects
    PROVE  /\ r.x \in Nat /\ r.y \in Nat /\ r.w \in Nat \ {0} /\ r.h \in Nat \ {0}
           /\ r # Zero /\ Area(r) \subseteq Cells
  BY SizeAssumption DEF Rects, Zero, Area

\* Drawing over cells: each cell of the region is drawn or blanked, and no other is drawn.
LEMMA Drawing ==
    ASSUME NEW cells, NEW region, NEW op
    PROVE  /\ cells \cap region \subseteq Changed(cells, region, op) \cup Blanked(cells, region, op)
           /\ Changed(cells, region, op) \subseteq cells \cap region
           /\ op = "source-over" => Blanked(cells, region, op) = {}
  BY DEF Changed, Blanked

LEMMA NarrowedFacts ==
    ASSUME NEW region, NEW r
    PROVE  /\ Narrowed(region, r) \subseteq region
           /\ region \cap Area(r) \subseteq Narrowed(region, r)
           /\ Fits(r) => Narrowed(region, r) \subseteq Area(r)
  BY DEF Narrowed, Fits

LEMMA Compared ==
    ASSUME NEW kind, NEW part, NEW changed, NEW blanked,
           Compare(kind, part, changed, blanked)
    PROVE  /\ order'.kind = kind
           /\ AskedFor(part) \subseteq changed \cup blanked => ~order'.lost
           /\ changed \subseteq AskedFor(part) => ~order'.spilled
           /\ blanked = {} => ~order'.blanked
<1> DEFINE asked == AskedFor(part)
<1>1. order' = [kind |-> kind, lost |-> asked \ (changed \cup blanked) # {},
                spilled |-> changed \ asked # {}, blanked |-> blanked # {}]
  BY DEF Compare, AskedFor
<1>2. asked \subseteq changed \cup blanked => asked \ (changed \cup blanked) = {}
  OBVIOUS
<1>3. changed \subseteq asked => changed \ asked = {}
  OBVIOUS
<1> HIDE DEF asked
<1>4. /\ order'.kind = kind
      /\ order'.lost = (asked \ (changed \cup blanked) # {})
      /\ order'.spilled = (changed \ asked # {})
      /\ order'.blanked = (blanked # {})
  BY <1>1, Zenon
<1>5. /\ asked \subseteq changed \cup blanked => ~order'.lost
      /\ changed \subseteq asked => ~order'.spilled
      /\ blanked = {} => ~order'.blanked
  BY <1>2, <1>3, <1>4, Zenon
<1> QED
  BY <1>4, <1>5 DEF asked

\* The region against what is asked for.
LEMMA Clipping ==
    ASSUME ContextInv, painting, NEW part \in SUBSET Cells
    PROVE  /\ ~bounded => AskedFor(part) \subseteq clip
           /\ bounds = Zero \/ Fits(bounds) => part \cap clip \subseteq AskedFor(part)
<1>1. ~bounded => AskedFor(part) \subseteq clip
  BY NarrowedFacts DEF ContextInv, AskedFor
<1>2. bounds = Zero \/ Fits(bounds) => part \cap clip \subseteq AskedFor(part)
  BY DEF ContextInv, AskedFor
<1> QED
  BY <1>1, <1>2

\* An order that draws its part as far as the region goes, and no more than that or
\* than what is asked for.
LEMMA Judged ==
    ASSUME ContextInv, painting, Keep,
           NEW kind, NEW part \in SUBSET Cells, NEW changed, NEW blanked,
           Compare(kind, part, changed, blanked), kind # "bitmap",
           part \cap clip \subseteq changed \cup blanked,
           changed \subseteq part \cap clip \/ changed \subseteq AskedFor(part),
           blanked = {} \/ kind = "pattern" \/ rop' # "source-over"
    PROVE  BitmapExact' /\ OrdersExplained'
<1>1. UNCHANGED <<bounds, bounded>>
  BY DEF Keep
<1>2. AskedFor(part) \subseteq part
  BY DEF AskedFor
<1>3. order'.lost => bounded
  BY <1>2, Clipping, Compared
<1>4. order'.spilled => bounds # Zero /\ ~Fits(bounds)
  BY Clipping, Compared
<1>5. order'.blanked => kind = "pattern" \/ rop' # "source-over"
  BY Compared
<1>6. order'.kind = kind
  BY Compared
<1> QED
  BY <1>1, <1>3, <1>4, <1>5, <1>6
  DEF BitmapExact, OrdersExplained, LostExplained, SpillExplained, Fits

\* Both corners within the bounds put the part within them.
LEMMA Within ==
    ASSUME ContextInv, NEW r \in Rects, _ckclp(r.x, r.y), _ckclp(r.x + r.w, r.y + r.h)
    PROVE  Area(r) \subseteq AskedFor(Area(r))
<1>1. CASE bounds = Zero
  BY <1>1 DEF AskedFor
<1>2. CASE bounds \in Rects
  <2>1. clipRect = bounds /\ bounds.x \in Nat /\ bounds.y \in Nat
        /\ bounds.w \in Nat \ {0} /\ bounds.h \in Nat \ {0}
    BY <1>2, RectFacts DEF ContextInv
  <2>2. /\ r.x \in Nat /\ r.y \in Nat /\ r.w \in Nat \ {0} /\ r.h \in Nat \ {0}
    BY RectFacts
  <2>3. /\ bounds.x <= r.x /\ r.x + r.w <= bounds.x + bounds.w
        /\ bounds.y <= r.y /\ r.y + r.h <= bounds.y + bounds.h
    BY <2>1, <2>2 DEF _ckclp
  <2>4. Area(r) \subseteq Area(bounds)
    BY <2>1, <2>2, <2>3, SizeAssumption DEF Area, Cells
  <2> QED
    BY <2>4 DEF AskedFor
<1> QED
  BY <1>1, <1>2 DEF ContextInv

-----------------------------------------------------------------------------
\* A step after which no order is shown.
LEMMA NoneShown ==
    ASSUME order' = NoOrder PROVE BitmapExact' /\ OrdersExplained'
<1>1. order'.kind = "none" /\ ~order'.lost /\ ~order'.spilled /\ ~order'.blanked
  BY DEF NoOrder
<1> QED
  BY <1>1 DEF BitmapExact, OrdersExplained, LostExplained, SpillExplained

\* An order changes nothing the invariant of the context speaks of.
LEMMA ContextStays ==
    ASSUME ContextInv, Ordered \/ painting, Keep, UNCHANGED <<clip, saved>>, rop' = rop \/ painting
    PROVE  ContextInv'
  BY DEF ContextInv, Ordered, Keep, Narrowed

LEMMA FillStep ==
    ASSUME PaintingInv, NEW r \in Rects, OpaqueRect(r)
    PROVE  PaintingInv'
<1>1. ContextInv /\ painting /\ Keep /\ UNCHANGED <<clip, saved, rop>>
  BY DEF PaintingInv, OpaqueRect, Ordered, context
<1>2. Compare("fill", Area(r), Changed(Area(r), clip, rop), Blanked(Area(r), clip, rop))
  BY DEF OpaqueRect
<1>3. BitmapExact' /\ OrdersExplained'
  BY <1>1, <1>2, RectFacts, Drawing, Judged
<1> QED
  BY <1>1, <1>3, ContextStays DEF PaintingInv

LEMMA MultiStep ==
    ASSUME PaintingInv, NEW r1 \in Rects, NEW r2 \in Rects, MultiOpaqueRect(r1, r2)
    PROVE  PaintingInv'
<1> DEFINE first == Changed(Area(r1), clip, rop)
           second == Changed(Area(r2), clip, rop)
           blank == Blanked(Area(r2), clip, rop)
           changed == (first \ blank) \cup second
           blanked == blank \cup (Blanked(Area(r1), clip, rop) \ second)
           part == Area(r1) \cup Area(r2)
<1>1. ContextInv /\ painting /\ Keep /\ UNCHANGED <<clip, saved, rop>>
  BY DEF PaintingInv, MultiOpaqueRect, Ordered, context
<1>2. Compare("fill", part, changed, blanked)
  BY DEF MultiOpaqueRect
<1>3. part \in SUBSET Cells
  BY RectFacts
<1>4. /\ Area(r1) \cap clip \subseteq first \cup Blanked(Area(r1), clip, rop)
      /\ Area(r2) \cap clip \subseteq second \cup blank
      /\ first \subseteq Area(r1) \cap clip /\ second \subseteq Area(r2) \cap clip
      /\ rop = "source-over" => blank = {} /\ Blanked(Area(r1), clip, rop) = {}
  BY Drawing
<1>5. part \cap clip \subseteq changed \cup blanked /\ changed \subseteq part \cap clip
  <2> HIDE DEF first, second, blank
  <2> QED
    BY <1>4
<1>6. blanked = {} \/ rop' # "source-over"
  BY <1>1, <1>4
<1> HIDE DEF changed, blanked, part
<1>7. BitmapExact' /\ OrdersExplained'
  BY <1>1, <1>2, <1>3, <1>5, <1>6, Judged
<1> QED
  BY <1>1, <1>7, ContextStays DEF PaintingInv

LEMMA PatternStep ==
    ASSUME PaintingInv, NEW r \in Rects, NEW op \in Ops, PatBlt(r, op)
    PROVE  PaintingInv'
<1> DEFINE region == Narrowed(clip, r)
<1>1. ContextInv /\ painting /\ Keep /\ UNCHANGED <<clip, saved, rop>>
  BY DEF PaintingInv, PatBlt, Ordered, context
<1>2. Compare("pattern", Area(r), Changed(Area(r), region, op), Blanked(Area(r), region, op))
  BY DEF PatBlt
<1>3. region \subseteq clip /\ clip \cap Area(r) \subseteq region
  BY NarrowedFacts
<1> HIDE DEF region
<1>4. /\ Area(r) \cap clip \subseteq Changed(Area(r), region, op) \cup Blanked(Area(r), region, op)
      /\ Changed(Area(r), region, op) \subseteq Area(r) \cap clip
  BY <1>3, Drawing
<1>5. BitmapExact' /\ OrdersExplained'
  BY <1>1, <1>2, <1>4, RectFacts, Judged
<1> QED
  BY <1>1, <1>5, ContextStays DEF PaintingInv

LEMMA CopyStep ==
    ASSUME PaintingInv, NEW r \in Rects, NEW op \in Ops, ScrBlt(r, op)
    PROVE  PaintingInv'
<1>1. ContextInv /\ painting /\ Keep /\ UNCHANGED <<clip, saved>> /\ rop' = op
  BY DEF PaintingInv, ScrBlt, Ordered
<1>2. Area(r) \in SUBSET Cells
  BY RectFacts
<1>3. ASSUME _ckclp(r.x, r.y), _ckclp(r.x + r.w, r.y + r.h)
      PROVE  BitmapExact' /\ OrdersExplained'
  <2>1. Compare("copy", Area(r), Area(r), {})
    BY <1>3 DEF ScrBlt
  <2>2. Area(r) \subseteq AskedFor(Area(r)) /\ Area(r) \cap clip \subseteq Area(r) \cup {}
    BY <1>1, <1>3, Within
  <2> QED
    BY <1>1, <1>2, <2>1, <2>2, Judged
<1>4. ASSUME ~(_ckclp(r.x, r.y) /\ _ckclp(r.x + r.w, r.y + r.h))
      PROVE  BitmapExact' /\ OrdersExplained'
  <2>1. Compare("copy", Area(r), Changed(Area(r), clip, op), Blanked(Area(r), clip, op))
    BY <1>4 DEF ScrBlt
  <2>2. Blanked(Area(r), clip, op) = {} \/ rop' # "source-over"
    BY <1>1, Drawing
  <2> QED
    BY <1>1, <1>2, <2>1, <2>2, Drawing, Judged
<1>5. BitmapExact' /\ OrdersExplained'
  BY <1>3, <1>4
<1> QED
  BY <1>1, <1>5, ContextStays DEF PaintingInv

LEMMA NotDrawnStep ==
    ASSUME PaintingInv, NEW r \in Rects, NotDrawn(r)
    PROVE  PaintingInv'
<1>1. ContextInv /\ painting /\ Keep /\ UNCHANGED <<clip, saved, rop>>
  BY DEF PaintingInv, NotDrawn, Ordered, context
<1>2. order'.kind = "undrawn" /\ ~order'.spilled /\ ~order'.blanked
  BY Compared DEF NotDrawn
<1>3. BitmapExact' /\ OrdersExplained'
  BY <1>2 DEF BitmapExact, OrdersExplained, LostExplained, SpillExplained
<1> QED
  BY <1>1, <1>3, ContextStays DEF PaintingInv

\* A bitmap update has no bounds, so that it is always put as it is.
LEMMA BitmapStep ==
    ASSUME PaintingInv, NEW r \in Rects, BitmapUpdate(r)
    PROVE  PaintingInv'
<1>1. /\ ContextInv /\ painting /\ Keep /\ UNCHANGED <<clip, saved, rop>>
      /\ bounds = Zero /\ clipRect = Zero
  BY DEF PaintingInv, BitmapUpdate, context, ContextInv
<1>2. _ckclp(r.x, r.y) /\ _ckclp(r.x + r.w, r.y + r.h)
  BY <1>1 DEF _ckclp, Zero
<1>3. Compare("bitmap", Area(r), Area(r), {})
  BY <1>2 DEF BitmapUpdate
<1>4. ~order'.lost /\ ~order'.spilled /\ ~order'.blanked
  BY <1>1, <1>3, Compared DEF AskedFor
<1>5. BitmapExact' /\ OrdersExplained'
  BY <1>4 DEF BitmapExact, OrdersExplained, LostExplained, SpillExplained
<1> QED
  BY <1>1, <1>5, ContextStays DEF PaintingInv

-----------------------------------------------------------------------------
LEMMA PaintingStep == PaintingInv /\ [Next]_vars => PaintingInv'
<1> SUFFICES ASSUME PaintingInv, [Next]_vars PROVE PaintingInv'
  OBVIOUS
<1>1. CASE BeginPaint
  <2>1. /\ saved' = <<Fresh>> /\ painting' /\ ~bounded' /\ order' = NoOrder
        /\ clip' = Cells /\ bounds' = Zero /\ clipRect' = Zero
    BY <1>1 DEF PaintingInv, ContextInv, BeginPaint, _ctxS, Fresh
  <2>2. ContextInv'
    BY <2>1 DEF ContextInv
  <2> QED
    BY <2>1, <2>2, NoneShown DEF PaintingInv
<1>2. CASE EndPaint
  <2>1. saved = <<Fresh>> /\ saved # <<>>
    BY <1>2 DEF PaintingInv, ContextInv, EndPaint
  <2>2. saved' = <<>> /\ clip' = Cells /\ rop' = "source-over"
    BY <1>2, <2>1 DEF EndPaint, _ctxR, Fresh
  <2>3. bounds' = Zero /\ clipRect' = Zero /\ ~painting' /\ order' = NoOrder
    BY <1>2 DEF PaintingInv, ContextInv, EndPaint
  <2>4. ContextInv'
    BY <2>2, <2>3 DEF ContextInv
  <2> QED
    BY <2>3, <2>4, NoneShown DEF PaintingInv
<1>3. CASE \E r \in Rects : GiveBounds(r)
  <2>1. PICK r \in Rects : GiveBounds(r)
    BY <1>3
  <2>2. /\ painting /\ bounds = Zero /\ bounds' = r /\ clipRect' = r /\ order' = NoOrder
        /\ clip' = Narrowed(clip, r) /\ UNCHANGED <<painting, saved, bounded>>
    BY <2>1 DEF GiveBounds, SetBounds
  <2>3. ~bounded => clip = Cells
    BY <2>2 DEF PaintingInv, ContextInv
  <2>4. r # Zero
    BY RectFacts
  <2>5. Fits(r) => clip' \subseteq Area(r)
    BY <2>2, NarrowedFacts
  <2>6. ContextInv'
    BY <2>2, <2>3, <2>4, <2>5 DEF PaintingInv, ContextInv, Narrowed, Fits
  <2> QED
    BY <2>2, <2>6, NoneShown DEF PaintingInv
<1>4. CASE TakeBounds
  <2>1. /\ painting /\ bounds' = Zero /\ clipRect' = Zero /\ order' = NoOrder /\ bounded'
        /\ UNCHANGED <<painting, saved>>
    BY <1>4 DEF TakeBounds, SetBounds
  <2>2. ContextInv'
    BY <2>1 DEF PaintingInv, ContextInv
  <2> QED
    BY <2>1, <2>2, NoneShown DEF PaintingInv
<1>5. CASE DesktopResize
  <2>1. ContextInv'
    BY <1>5 DEF PaintingInv, ContextInv, DesktopResize
  <2> QED
    BY <1>5, <2>1, NoneShown DEF PaintingInv, DesktopResize
<1>6. CASE _reset
  <2>1. ContextInv'
    BY <1>6 DEF ContextInv, _reset
  <2> QED
    BY <1>6, <2>1, NoneShown DEF PaintingInv, _reset
<1>7. CASE UNCHANGED vars
  BY <1>7 DEF vars, context, PaintingInv, ContextInv, Narrowed, BitmapExact, OrdersExplained,
     LostExplained, SpillExplained
<1> QED
  BY <1>1, <1>2, <1>3, <1>4, <1>5, <1>6, <1>7, FillStep, MultiStep, PatternStep, CopyStep,
     NotDrawnStep, BitmapStep DEF Next

\* Between paints and within one, the context is what the orders so far have made of it.
THEOREM PaintingInvariance == Spec => []PaintingInv
<1>1. Init => ContextInv
  BY DEF Init, ContextInv
<1>2. Init => BitmapExact /\ OrdersExplained
  BY DEF Init, NoOrder, BitmapExact, OrdersExplained, LostExplained, SpillExplained
<1>3. Init => PaintingInv
  BY <1>1, <1>2 DEF PaintingInv
<1> QED
  BY <1>3, PaintingStep, PTL DEF Spec

\* BitmapUpdate puts its pixels exactly where they belong, on a canvas of any size.
THEOREM BitmapsAreExact == Spec => []BitmapExact
<1>1. PaintingInv => BitmapExact
  BY DEF PaintingInv
<1> QED
  BY <1>1, PaintingInvariance, PTL

\* What the other orders change and should not, and what they leave out, has the causes
\* named, on a canvas of any size.
THEOREM OrdersHaveCause == Spec => []OrdersExplained
<1>1. PaintingInv => OrdersExplained
  BY DEF PaintingInv
<1> QED
  BY <1>1, PaintingInvariance, PTL

\* The variables keep their types, and the client's count of saved states is right.
THEOREM PaintingTypeCorrect == Spec => []TypeOK
<1>1. Init => TypeOK
  <2> SUFFICES ASSUME Init PROVE TypeOK
    OBVIOUS
  <2>1. {painting, served, bounded} \subseteq BOOLEAN
    BY Zenon DEF Init
  <2>2. Len(saved) = ccnt /\ ccnt \in 0..1
    BY DEF Init
  <2>3. NoOrder \in [kind : {"none", "fill", "pattern", "copy", "bitmap", "undrawn"},
                    lost : BOOLEAN, spilled : BOOLEAN, blanked : BOOLEAN]
    BY DEF NoOrder
  <2> QED
    BY <2>1, <2>2, <2>3 DEF Init, TypeOK, Ops
<1>2. ASSUME PaintingInv, TypeOK, [Next]_vars PROVE TypeOK'
  <2> USE <1>2
  <2> DEFINE Kinds == {"none", "fill", "pattern", "copy", "bitmap", "undrawn"}
             Orders == [kind : Kinds, lost : BOOLEAN, spilled : BOOLEAN, blanked : BOOLEAN]
             Context == /\ clip \subseteq Cells /\ rop \in Ops
                        /\ Len(saved) = ccnt /\ ccnt \in 0..1
  <2>1. ASSUME NEW kind \in Kinds, NEW part, NEW changed, NEW blanked,
               Compare(kind, part, changed, blanked)
        PROVE  order' \in Orders /\ served' \in BOOLEAN
    BY <2>1 DEF Compare
  <2>2. NoOrder \in Orders
    BY DEF NoOrder
  <2>4. Context
    BY DEF TypeOK
  <2>5. \A r : Narrowed(clip, r) \subseteq Cells
    BY <2>4 DEF Narrowed
  <2> HIDE DEF Orders, Kinds
  <2>6. ASSUME BeginPaint PROVE TypeOK'
    <3>1. ccnt = 0 /\ saved = <<>>
      BY <2>4, <2>6 DEF BeginPaint, PaintingInv, ContextInv
    <3>2. saved' = <<[clip |-> clip, rop |-> rop]>> /\ ccnt' = 1
      BY <2>6, <3>1 DEF BeginPaint, _ctxS
    <3>3. {painting', served', bounded'} \subseteq BOOLEAN
      BY <2>6, Zenon DEF BeginPaint, TypeOK
    <3>4. Len(saved') = ccnt' /\ ccnt' \in 0..1
      BY <3>2
    <3>5. order' \in Orders /\ UNCHANGED <<bounds, clipRect, clip, rop>>
      BY <2>2, <2>6 DEF BeginPaint, _ctxS
    <3> QED
      BY <3>3, <3>4, <3>5 DEF TypeOK, Orders, Kinds
  <2>7. ASSUME EndPaint PROVE TypeOK'
    <3>1. ccnt = 1 /\ saved # <<>> /\ saved = <<Fresh>>
      BY <2>4, <2>7 DEF EndPaint, PaintingInv, ContextInv, Fresh
    <3>2. saved' = <<>> /\ ccnt' = 0 /\ clip' = Cells /\ rop' = "source-over"
      BY <2>7, <3>1 DEF EndPaint, _ctxR, Fresh
    <3>3. {painting', served', bounded'} \subseteq BOOLEAN
      BY <2>7, Zenon DEF EndPaint, TypeOK
    <3>4. /\ Len(saved') = ccnt' /\ ccnt' \in 0..1 /\ order' \in Orders /\ rop' \in Ops
          /\ UNCHANGED <<bounds, clipRect>>
      BY <2>2, <2>7, <3>2 DEF EndPaint, Ops
    <3> QED
      BY <3>2, <3>3, <3>4 DEF TypeOK, Orders, Kinds
  <2>8. ASSUME NEW r \in Rects, GiveBounds(r) PROVE TypeOK'
    BY <2>2, <2>5, <2>8 DEF GiveBounds, SetBounds, TypeOK, Orders, Kinds
  <2>9. ASSUME TakeBounds PROVE TypeOK'
    BY <2>2, <2>5, <2>9 DEF TakeBounds, SetBounds, TypeOK, Orders, Kinds
  <2>10. ASSUME NEW kind \in Kinds, NEW part, NEW changed, NEW blanked,
                Compare(kind, part, changed, blanked), Keep,
                UNCHANGED <<clip, saved>>, rop' \in Ops
         PROVE  TypeOK'
    BY <2>1, <2>10 DEF Keep, TypeOK, Orders, Kinds
  <2>11. /\ rop \in Ops /\ {"fill", "pattern", "copy", "bitmap", "undrawn"} \subseteq Kinds
    BY <2>4 DEF Kinds
  <2>12. ASSUME NEW r \in Rects, OpaqueRect(r) \/ NotDrawn(r) \/ BitmapUpdate(r) PROVE TypeOK'
    BY <2>10, <2>11, <2>12 DEF OpaqueRect, NotDrawn, BitmapUpdate, context
  <2>13. ASSUME NEW r1 \in Rects, NEW r2 \in Rects, MultiOpaqueRect(r1, r2) PROVE TypeOK'
    BY <2>10, <2>11, <2>13 DEF MultiOpaqueRect, context
  <2>14. ASSUME NEW r \in Rects, NEW op \in Ops, PatBlt(r, op) \/ ScrBlt(r, op) PROVE TypeOK'
    BY <2>10, <2>11, <2>14 DEF PatBlt, ScrBlt, context
  <2>15. ASSUME DesktopResize PROVE TypeOK'
    <3>1. ccnt = 0
      BY <2>4, <2>15 DEF DesktopResize, PaintingInv, ContextInv
    <3> QED
      BY <2>2, <2>15, <3>1 DEF DesktopResize, TypeOK, Orders, Kinds, Ops
  <2>16. ASSUME _reset PROVE TypeOK'
    <3>1. ccnt' = 0
      BY <2>4, <2>16 DEF _reset
    <3>2. {painting', served', bounded'} \subseteq BOOLEAN
      BY <2>16, Zenon DEF _reset
    <3>3. Len(saved') = ccnt' /\ ccnt' \in 0..1 /\ order' \in Orders /\ rop' \in Ops
      BY <2>2, <2>16, <3>1 DEF _reset, Ops
    <3> QED
      BY <2>16, <3>2, <3>3 DEF _reset, TypeOK, Orders, Kinds
  <2>17. ASSUME UNCHANGED vars PROVE TypeOK'
    BY <2>17 DEF vars, context, TypeOK
  <2> QED
    BY <2>6, <2>7, <2>8, <2>9, <2>12, <2>13, <2>14, <2>15, <2>16, <2>17 DEF Next
<1> QED
  BY <1>1, <1>2, PaintingInvariance, PTL DEF Spec

-----------------------------------------------------------------------------
(***************************************************************************)
(* Input.                                                                  *)
(***************************************************************************)
\* What the variables hold.
InputTypeOK ==
    /\ keys \subseteq Keys /\ keysDown \subseteq Keys
    /\ useIME \in BOOLEAN /\ IMEon \in BOOLEAN
    /\ carried \in BOOLEAN /\ altTabOn \in BOOLEAN
    /\ sentIn \in [Keys -> SUBSET Modes]

\* Nothing is held, and nothing typed, where there is no session to hold it.
SessionInv ==
    /\ ~Forwarded => buttons = {} /\ keys = {}
    /\ ~Listening => area = {}

\* A mouse has no gestures and no artificial flags, and the release of all that was
\* pressed is a release of all that is held.
MouseInv ==
    device = "mouse" =>
        /\ ~fTid /\ aMF = {}
        /\ buttons \subseteq mouseDownStatus
        /\ buttons # {} => inside /\ buttons \subseteq pressed

\* Fingers hold the button the next release is of, if nothing was odd; and a press that
\* waits although no finger is down is odd.
TouchInv ==
    device = "touch" =>
        /\ odd = {} => buttons \subseteq {_mB("left")}
        /\ fingers = 0 /\ (buttons # {} \/ (pTe /\ fTid)) => odd # {}

\* The mode in which a press was sent is one in which its release is sent.
Sends(mode, k) == ~mode[1] \/ (~mode[2] /\ FunctionalKey(k))

KeyInv ==
    /\ \A k \in Keys : \A mode \in sentIn[k] : Sends(mode, k)
    /\ KeysExplained

\* Text that was sent is pending only without the input method, text that was not
\* sent only while it composes, unless the mode was switched over them.
TextInv ==
    ~carried =>
        /\ IMEon => useIME
        /\ useIME => "sent" \notin area
        /\ useIME /\ ~IMEon => "unsent" \notin area

InputInv == InputTypeOK /\ SessionInv /\ MouseInv /\ TouchInv /\ KeyInv /\ TextInv

-----------------------------------------------------------------------------
\* What an action leaves alone when it leaves alone what it is about.

LEMMA PointersKept ==
    ASSUME MouseInv, TouchInv, UNCHANGED <<device, buttons, mouseDownStatus, mouse, touch>>
    PROVE  MouseInv' /\ TouchInv'
  BY DEF MouseInv, TouchInv, mouse, touch, _mB

LEMMA TypingKept ==
    ASSUME InputTypeOK, KeyInv, TextInv, UNCHANGED <<keys, typing>>
    PROVE  InputTypeOK' /\ KeyInv' /\ TextInv'
<1>1. UNCHANGED <<keys, keysDown, focus, useIME, IMEon, area, sentIn, uneven, carried, altTabOn>>
  BY DEF typing
<1> QED
  BY <1>1 DEF InputTypeOK, KeyInv, KeysExplained, TextInv

LEMMA SessionKept ==
    ASSUME SessionInv, UNCHANGED <<session, keys, typing>>, Forwarded \/ buttons' = buttons
    PROVE  SessionInv'
  BY DEF SessionInv, Forwarded, Listening, session, typing

\* A press adds at most its flag, a release takes its flags away.
LEMMA Pressed ==
    ASSUME SessionInv, UNCHANGED session, NEW flag, SendDown(flag)
    PROVE  /\ buttons' \subseteq buttons \cup {flag}
           /\ Forwarded \/ buttons' = buttons
           /\ buttons \subseteq mouseDownStatus => buttons' \subseteq mouseDownStatus'
           /\ Forwarded \/ buttons' = {}
  BY DEF SendDown, SessionInv, Forwarded, Listening

LEMMA Released ==
    ASSUME SessionInv, NEW flags, SendUp(flags)
    PROVE  /\ buttons' = buttons \ flags
           /\ Forwarded \/ buttons' = buttons
           /\ buttons \subseteq mouseDownStatus => buttons' \subseteq mouseDownStatus'
  BY DEF SendUp, SessionInv, Forwarded, Listening

\* Odd things are forgotten when nothing is held and nothing is on its way.
LEMMA Remembered ==
    ASSUME NEW causes, Remember(causes)
    PROVE  \/ odd' = odd \cup causes
           \/ odd' = {} /\ buttons' = {} /\ ~(pTe' /\ fTid')
  BY DEF Remember

-----------------------------------------------------------------------------
\* The session.

LEMMA InputInitially == InputInit => InputInv
<1> SUFFICES ASSUME InputInit PROVE InputInv
  OBVIOUS
<1>1. InputTypeOK
  BY DEF InputInit, InputTypeOK
<1>2. SessionInv /\ MouseInv /\ TouchInv /\ TextInv
  BY DEF InputInit, SessionInv, MouseInv, TouchInv, TextInv
<1>3. KeyInv
  BY DEF InputInit, KeyInv, KeysExplained
<1> QED
  BY <1>1, <1>2, <1>3 DEF InputInv

LEMMA SessionSteps ==
    ASSUME InputInv, RDPStart \/ SessionAdvances \/ SessionEnds
    PROVE  InputInv'
<1>1. CASE RDPStart
  <2>1. buttons = {} /\ keys = {} /\ area = {} /\ ~Listening' /\ ~Forwarded'
    BY <1>1 DEF RDPStart, InputInv, SessionInv, Listening, Forwarded
  <2>2. UNCHANGED <<device, buttons, keys, mouse, fingers, helper, keysDown, focus, area,
                    sentIn, uneven, altTabOn>>
    BY <1>1 DEF RDPStart
  <2>3. /\ useIME' = FALSE /\ IMEon' = FALSE /\ carried' = FALSE /\ mouseDownStatus' = {}
        /\ fTid' = FALSE /\ aMF' = {} /\ odd' = {}
    BY <1>1 DEF RDPStart
  <2>4. InputTypeOK'
    BY <2>2, <2>3 DEF InputInv, InputTypeOK
  <2>5. SessionInv' /\ MouseInv' /\ TouchInv' /\ TextInv'
    BY <2>1, <2>2, <2>3 DEF SessionInv, MouseInv, TouchInv, TextInv
  <2>6. KeyInv'
    BY <2>1, <2>2 DEF InputInv, KeyInv, KeysExplained
  <2> QED
    BY <2>4, <2>5, <2>6 DEF InputInv
<1>2. CASE SessionAdvances
  <2>1. UNCHANGED <<device, buttons, keys, mouseDownStatus, mouse, touch, typing>>
    BY <1>2 DEF SessionAdvances
  <2>2. SessionInv'
    BY <1>2, <2>1 DEF SessionAdvances, InputInv, SessionInv, Listening, Forwarded, typing
  <2> QED
    BY <2>1, <2>2, PointersKept, TypingKept DEF InputInv
<1>3. CASE SessionEnds
  <2>1. /\ buttons' = {} /\ keys' = {} /\ uneven' = {}
        /\ UNCHANGED <<device, mouseDownStatus, mouse, fingers, pTe, fTid, aMF, odd, keysDown,
                       useIME, IMEon, sentIn, carried, altTabOn>>
    BY <1>3 DEF SessionEnds
  <2>2. (Listening' /\ Listening /\ area' = area) \/ (~Listening' /\ area' = {})
    BY <1>3 DEF SessionEnds, Listening
  <2>3. SessionInv' /\ TextInv'
    BY <2>1, <2>2 DEF InputInv, SessionInv, TextInv
  <2>4. MouseInv' /\ TouchInv'
    BY <2>1 DEF InputInv, MouseInv, TouchInv, mouse
  <2>5. KeyInv'
    BY <2>1 DEF InputInv, KeyInv, KeysExplained
  <2>6. InputTypeOK'
    BY <2>1 DEF InputInv, InputTypeOK
  <2> QED
    BY <2>3, <2>4, <2>5, <2>6 DEF InputInv
<1> QED
  BY <1>1, <1>2, <1>3

-----------------------------------------------------------------------------
\* Mouse.

LEMMA MouseSteps ==
    ASSUME InputInv,
           (\E b \in Flags : MouseDown(b) \/ MouseUp(b)) \/ MouseEnter \/ onMouseLeave
    PROVE  InputInv'
<1>1. UNCHANGED <<device, session, keys, touch, typing>> /\ device = "mouse"
  BY DEF MouseDown, MouseUp, MouseEnter, onMouseLeave
<1>2. aMF = {} /\ ~fTid /\ buttons \subseteq mouseDownStatus
      /\ (buttons # {} => inside /\ buttons \subseteq pressed)
      /\ aMF' = {} /\ ~fTid'
  BY <1>1 DEF InputInv, MouseInv, touch
<1> DEFINE Held == /\ buttons' \subseteq mouseDownStatus'
                   /\ Forwarded \/ buttons' = buttons
                   /\ buttons' # {} => inside' /\ buttons' \subseteq pressed'
<1>3. Held
  <2>1. ASSUME NEW b \in Flags, MouseDown(b) PROVE Held
    <3>1. CASE SendDown(b) /\ inside
      BY <1>1, <1>2, <2>1, <3>1, Pressed DEF MouseDown, InputInv
    <3>2. CASE KeepButtons
      BY <1>2, <2>1, <3>2 DEF MouseDown, KeepButtons
    <3>3. _mB(b) = b
      BY <1>2 DEF _mB
    <3> QED
      BY <2>1, <3>1, <3>2, <3>3 DEF MouseDown, onMd
  <2>2. ASSUME NEW b \in Flags, MouseUp(b) PROVE Held
    <3>1. CASE inside /\ Listening
      <4>1. SendUp({b}) /\ pressed' = pressed \ {b} /\ inside' = inside
        BY <1>2, <2>2, <3>1 DEF MouseUp, _mB
      <4> QED
        BY <1>2, <4>1, Released DEF InputInv
    <3>2. CASE ~(inside /\ Listening)
      <4>1. buttons = {}
        BY <1>2, <3>2 DEF InputInv, SessionInv, Forwarded, Listening
      <4> QED
        BY <1>2, <2>2, <3>2, <4>1 DEF MouseUp, KeepButtons
    <3> QED
      BY <3>1, <3>2
  <2>3. CASE MouseEnter
    BY <1>2, <2>3 DEF MouseEnter
  <2>4. CASE onMouseLeave
    <3>1. CASE Listening
      BY <1>2, <2>4, <3>1, Released DEF onMouseLeave, InputInv
    <3>2. CASE ~Listening
      BY <1>2, <2>4, <3>2 DEF onMouseLeave, KeepButtons, InputInv, SessionInv, Forwarded, Listening
    <3> QED
      BY <3>1, <3>2
  <2> QED
    BY <2>1, <2>2, <2>3, <2>4
<1>4. MouseInv' /\ TouchInv'
  BY <1>1, <1>2, <1>3 DEF MouseInv, TouchInv
<1> QED
  BY <1>1, <1>3, <1>4, TypingKept, SessionKept DEF InputInv

-----------------------------------------------------------------------------
\* Touches.

LEMMA TouchSteps ==
    ASSUME InputInv,
           \/ onTs \/ onTe \/ TouchCancel \/ fT \/ cT
           \/ \E f \in Flags : SetArtificialMouseFlags(f)
    PROVE  InputInv'
<1>1. /\ UNCHANGED <<device, session, keys, mouse, typing>>
      /\ device = "touch" \/ fTid \/ UNCHANGED <<buttons, mouseDownStatus, aMF, fTid>>
  BY DEF onTs, onTe, TouchCancel, fT, cT, SetArtificialMouseFlags
<1>2. ASSUME Forwarded \/ buttons' = buttons,
             device = "touch" => /\ odd' = {} => buttons' \subseteq {_mB("left")'}
                                 /\ fingers' = 0 /\ (buttons' # {} \/ (pTe' /\ fTid')) => odd' # {}
      PROVE  InputInv'
  <2>1. TouchInv'
    BY <1>1, <1>2 DEF TouchInv
  <2>2. MouseInv'
    BY <1>1 DEF InputInv, MouseInv, mouse
  <2> QED
    BY <1>1, <1>2, <2>1, <2>2, TypingKept, SessionKept DEF InputInv
<1>3. ASSUME aMF' = aMF PROVE _mB("left")' = _mB("left")
  BY <1>3 DEF _mB
<1>4. CASE onTs
  <2>1. buttons' = buttons /\ fingers' # 0 /\ aMF' = aMF /\ Remember({}) /\ odd \cup {} = odd
    BY <1>4, InputAssumption DEF onTs, KeepButtons
  <2> QED
    BY <1>2, <1>3, <2>1, Remembered DEF InputInv, TouchInv
<1>5. CASE onTe
  <2> DEFINE causes == IF fingers' > 0 THEN {} ELSE IF ~Tcool THEN {"cooling"}
                       ELSE IF pTe /\ fTid THEN {"quick"} ELSE {}
  <2>1. Remember(causes) /\ fingers' = fingers - 1 /\ UNCHANGED <<pTe, fTid>> /\ device = "touch"
    BY <1>5 DEF onTe
  <2> HIDE DEF causes
  <2>2. CASE fingers' = 0 /\ Tcool
    <3>1. buttons' = buttons \ {_mB("left")} /\ (Forwarded \/ buttons' = buttons)
      BY <1>5, <2>2, Released DEF onTe, onMu, InputInv
    <3>2. odd = {} => buttons' = {}
      BY <3>1 , <2>1 DEF InputInv, TouchInv
    <3>3. pTe /\ fTid => causes # {}
      BY <2>2 DEF causes
    <3> QED
      BY <1>2, <2>1, <3>1, <3>2, <3>3, Remembered
  <2>3. CASE ~(fingers' = 0 /\ Tcool)
    <3>1. buttons' = buttons /\ aMF' = aMF
      BY <1>5, <2>3 DEF onTe, KeepButtons
    <3>2. fingers' = 0 => causes # {}
      BY <2>3 DEF causes
    <3> QED
      BY <1>2, <1>3, <2>1, <3>1, <3>2, Remembered DEF InputInv, TouchInv
  <2> QED
    BY <2>2, <2>3
<1>6. CASE TouchCancel
  <2>1. /\ buttons' = buttons /\ aMF' = aMF /\ UNCHANGED <<pTe, fTid>>
        /\ Remember({"cancelled"}) /\ odd \cup {"cancelled"} # {}
    BY <1>6 DEF TouchCancel, KeepButtons
  <2> QED
    BY <1>2, <2>1, Remembered
<1>7. CASE fT
  <2>1. aMF' = aMF /\ fTid /\ ~fTid' /\ fingers' = fingers /\ Remember({}) /\ odd \cup {} = odd
    BY <1>7 DEF fT
  <2>2. CASE buttons' = buttons
    BY <1>2, <1>3, <2>1, <2>2, Remembered DEF InputInv, TouchInv
  <2>3. CASE pTe /\ SendDown(_mB("left"))
    <3>1. /\ buttons' \subseteq buttons \cup {_mB("left")}
          /\ Forwarded \/ buttons' = buttons
      BY <1>1, <2>3, Pressed DEF InputInv
    <3>2. device = "touch" /\ fingers = 0 => odd # {}
      BY <2>1, <2>3 DEF InputInv, TouchInv
    <3> QED
      BY <1>2, <1>3, <2>1, <3>1, <3>2, Remembered DEF InputInv, TouchInv
  <2> QED
    BY <1>7, <2>2, <2>3 DEF fT, KeepButtons
<1>8. CASE cT
  BY <1>2, <1>3, <1>8 DEF cT, InputInv, TouchInv
<1>9. ASSUME NEW f \in Flags, SetArtificialMouseFlags(f) PROVE InputInv'
  <2>1. buttons' = buttons /\ Remember({"flags"}) /\ odd \cup {"flags"} # {}
    BY <1>9 DEF SetArtificialMouseFlags, KeepButtons
  <2> QED
    BY <1>2, <2>1, Remembered
<1> QED
  BY <1>4, <1>5, <1>6, <1>7, <1>8, <1>9

-----------------------------------------------------------------------------
\* Keyboard.

\* A key event is forwarded, or there is nothing to change.
LEMMA KeySent ==
    ASSUME SessionInv, InputTypeOK, NEW k, NEW down \in BOOLEAN, SendKeyUpDown(k, down)
    PROVE  /\ Forwarded \/ keys' = keys
           /\ down => keys' \subseteq keys \cup ({k} \cap Keys)
           /\ ~down => keys' \subseteq keys \ {k}
  BY DEF SendKeyUpDown, SessionInv, InputTypeOK

\* What pends in a mode it may not pend in was carried into it.
LEMMA Carried ==
    ASSUME InputTypeOK, NEW switched \in BOOLEAN, Carry(switched),
           ~(carried \/ switched) => /\ IMEon' => useIME'
                                     /\ useIME' => "sent" \notin area'
                                     /\ useIME' /\ ~IMEon' => "unsent" \notin area'
    PROVE  TextInv' /\ carried' \in BOOLEAN
<1>1. carried' = ((area' # {} \/ IMEon') /\ (carried \/ switched))
  BY DEF Carry
<1>2. carried' \in BOOLEAN
  BY <1>1
<1>3. CASE ~(carried \/ switched)
  <2>1. /\ IMEon' => useIME'
        /\ useIME' => "sent" \notin area'
        /\ useIME' /\ ~IMEon' => "unsent" \notin area'
    BY <1>3
  <2> QED
    BY <1>2, <2>1 DEF TextInv
<1>4. CASE carried \/ switched
  BY <1>1, <1>4 DEF TextInv
<1> QED
  BY <1>2, <1>3, <1>4

\* The keyboard's part of the invariant.
LEMMA KeyboardStep ==
    ASSUME InputInv, UNCHANGED <<device, session, buttons, mouseDownStatus, mouse, touch>>,
           InputTypeOK', KeyInv', TextInv', Listening \/ area' = {}, Forwarded \/ keys' = keys
    PROVE  InputInv'
<1>1. SessionInv'
  BY DEF InputInv, SessionInv, Forwarded, Listening, session
<1> QED
  BY <1>1, PointersKept DEF InputInv

LEMMA KeyDownStep ==
    ASSUME InputInv, NEW k \in Keys, NEW code \in {k, Compose}, KeyDown(k, code)
    PROVE  InputInv'
<1> DEFINE composing == IMEon \/ (useIME /\ code = Compose)
           sends == ~useIME \/ (~composing /\ FunctionalKey(code))
<1>1. /\ UNCHANGED <<device, session, buttons, mouseDownStatus, mouse, touch, useIME, uneven, altTabOn>>
      /\ keysDown' = keysDown \cup {k} /\ Carry(FALSE)
  BY DEF KeyDown
<1>2. InputTypeOK /\ SessionInv /\ KeyInv /\ TextInv
  BY DEF InputInv
<1>3. Compose \notin Keys
  BY InputAssumption DEF Keys, Compose
<1>4. CASE ~(focus /\ Listening)
  <2>1. UNCHANGED <<keys, area, IMEon, sentIn>>
    BY <1>4 DEF KeyDown, KeepKeys
  <2>2. TextInv' /\ carried' \in BOOLEAN
    BY <1>1, <1>2, <2>1, Carried DEF TextInv
  <2>3. InputTypeOK' /\ KeyInv'
    BY <1>1, <1>2, <2>1, <2>2 DEF InputTypeOK, KeyInv, KeysExplained
  <2>4. Listening \/ area' = {}
    BY <1>2, <2>1 DEF SessionInv
  <2> QED
    BY <1>1, <2>1, <2>2, <2>3, <2>4, KeyboardStep
<1>5. CASE focus /\ Listening
  <2>1. /\ IF sends THEN SendKeyUpDown(code, TRUE) ELSE KeepKeys
        /\ sentIn' = IF sends /\ code = k THEN [sentIn EXCEPT ![k] = {Mode}] ELSE sentIn
        /\ \/ code = Compose /\ Typed("unsent") /\ IMEon' = composing
           \/ code = "enter" /\ (~useIME \/ composing) /\ DumpTextArea(composing)
           \/ code \in CharKeys /\ useIME /\ ~composing /\ area' = {} /\ UNCHANGED IMEon
           \/ /\ code \in CharKeys /\ (~useIME \/ composing)
              /\ Typed(IF useIME THEN "unsent" ELSE "sent") /\ UNCHANGED IMEon
           \/ UNCHANGED <<area, IMEon>>
    BY <1>5 DEF KeyDown
  <2>2. keys' \subseteq keys \cup {k} /\ (Forwarded \/ keys' = keys)
    BY <1>2, <1>3, <2>1, KeySent DEF KeepKeys
  <2>3. TextInv' /\ carried' \in BOOLEAN /\ IMEon' \in BOOLEAN
    <3>1. composing \in BOOLEAN /\ useIME \in BOOLEAN /\ IMEon \in BOOLEAN
      BY <1>2 DEF InputTypeOK
    <3>2. IMEon' \in BOOLEAN
      BY <2>1, <3>1 DEF DumpTextArea
    <3>3. ASSUME ~carried
          PROVE  /\ IMEon' => useIME'
                 /\ useIME' => "sent" \notin area'
                 /\ useIME' /\ ~IMEon' => "unsent" \notin area'
      <4>1. /\ IMEon => useIME
            /\ useIME => "sent" \notin area
            /\ useIME /\ ~IMEon => "unsent" \notin area
        BY <1>2, <3>3 DEF TextInv
      <4>2. CASE code = Compose /\ area' = area \cup {"unsent"} /\ IMEon' = composing
        BY <1>1, <4>1, <4>2
      <4>3. CASE area' = {} /\ (IMEon' = FALSE \/ UNCHANGED IMEon)
        BY <1>1, <4>1, <4>3
      <4>4. CASE /\ ~useIME \/ IMEon
                 /\ area' = area \cup {IF useIME THEN "unsent" ELSE "sent"} /\ UNCHANGED IMEon
        BY <1>1, <4>1, <4>4
      <4>5. CASE UNCHANGED <<area, IMEon>>
        BY <1>1, <4>1, <4>5
      <4> QED
        BY <1>3, <2>1, <4>2, <4>3, <4>4, <4>5, InputAssumption DEF Typed, DumpTextArea, Compose
    <3> QED
      BY <1>1, <1>2, <3>2, <3>3, Carried
  <2>4. sentIn' \in [Keys -> SUBSET Modes] /\ \A j \in Keys : \A mode \in sentIn'[j] : Sends(mode, j)
    <3>1. CASE sends /\ code = k
      <4>1. Mode \in Modes /\ Sends(Mode, k)
        BY <1>2, <3>1 DEF InputTypeOK, Mode, Modes, Sends
      <4> QED
        BY <1>2, <2>1, <3>1, <4>1 DEF InputTypeOK, KeyInv
    <3>2. CASE ~(sends /\ code = k)
      BY <1>2, <2>1, <3>2 DEF InputTypeOK, KeyInv
    <3> QED
      BY <3>1, <3>2
  <2>5. InputTypeOK' /\ KeyInv'
    <3>1. InputTypeOK'
      BY <1>1, <1>2, <2>2, <2>3, <2>4 DEF InputTypeOK
    <3>2. KeysExplained'
      BY <1>1, <1>2, <2>2 DEF KeyInv, KeysExplained
    <3> QED
      BY <2>4, <3>1, <3>2 DEF KeyInv
  <2> QED
    BY <1>1, <1>5, <2>2, <2>3, <2>5, KeyboardStep
<1> QED
  BY <1>4, <1>5

LEMMA KeyUpStep ==
    ASSUME InputInv, NEW k \in Keys, KeyUp(k)
    PROVE  InputInv'
<1>1. /\ UNCHANGED <<device, session, buttons, mouseDownStatus, mouse, touch, useIME, altTabOn>>
      /\ keysDown' = keysDown \ {k} /\ Carry(FALSE) /\ Leave(k)
  BY DEF KeyUp
<1>2. InputTypeOK /\ SessionInv /\ KeyInv /\ TextInv
  BY DEF InputInv
<1>3. \/ ~(focus /\ Listening) /\ UNCHANGED <<keys, area, IMEon>>
      \/ /\ focus /\ Listening /\ ~useIME /\ SendKeyUpDown(k, FALSE)
         /\ area' = {} /\ UNCHANGED IMEon
      \/ /\ focus /\ Listening /\ useIME
         /\ IF ~IMEon /\ FunctionalKey(k) THEN SendKeyUpDown(k, FALSE) ELSE UNCHANGED keys
         /\ DumpTextArea(IMEon) \/ UNCHANGED <<area, IMEon>>
  BY DEF KeyUp, KeepKeys
<1>4. keys' \subseteq keys /\ (Forwarded \/ keys' = keys)
  BY <1>2, <1>3, KeySent
<1>5. TextInv' /\ carried' \in BOOLEAN /\ IMEon' \in BOOLEAN
  <2>1. IMEon' \in BOOLEAN
    BY <1>2, <1>3 DEF InputTypeOK, DumpTextArea
  <2>2. ~carried => /\ IMEon' => useIME'
                    /\ useIME' => "sent" \notin area'
                    /\ useIME' /\ ~IMEon' => "unsent" \notin area'
    BY <1>1, <1>2, <1>3 DEF TextInv, DumpTextArea
  <2> QED
    BY <1>1, <1>2, <2>1, <2>2, Carried
<1>6. k \in keys' => k \in uneven'
  <2> SUFFICES ASSUME focus, Listening, Mode \in sentIn[k] PROVE k \notin keys'
    BY <1>1 DEF Leave
  <2>1. ~useIME \/ (~IMEon /\ FunctionalKey(k))
    BY <1>2 DEF KeyInv, Sends, Mode
  <2>2. SendKeyUpDown(k, FALSE)
    BY <1>3, <2>1
  <2> QED
    BY <1>2, <2>2, KeySent
<1>7. \A j \in keys' \ {k} : j \in uneven => j \in uneven'
  BY <1>1 DEF Leave
<1>8. InputTypeOK' /\ KeyInv'
  <2>1. sentIn' = [sentIn EXCEPT ![k] = {}]
    BY <1>1 DEF Leave
  <2>2. InputTypeOK'
    BY <1>1, <1>2, <1>4, <1>5, <2>1 DEF InputTypeOK
  <2>3. KeysExplained'
    BY <1>1, <1>2, <1>4, <1>6, <1>7 DEF KeyInv, KeysExplained
  <2> QED
    BY <1>2, <2>1, <2>2, <2>3 DEF KeyInv, InputTypeOK
<1>9. Listening \/ area' = {}
  BY <1>2, <1>3 DEF SessionInv
<1> QED
  BY <1>1, <1>4, <1>5, <1>8, <1>9, KeyboardStep

LEMMA OtherKeySteps ==
    ASSUME InputInv,
           ToggleLanguageButton \/ FocusChanges \/ altTabEvent \/ \E k \in Keys : PressAndRelease(k)
    PROVE  InputInv'
<1>1. UNCHANGED <<device, session, buttons, mouseDownStatus, mouse, touch, keysDown, IMEon, area,
                  sentIn, uneven>>
  BY DEF ToggleLanguageButton, FocusChanges, altTabEvent, PressAndRelease
<1>2. InputTypeOK /\ SessionInv /\ KeyInv /\ TextInv /\ (Listening \/ area = {})
  BY DEF InputInv, SessionInv
<1>3. CASE ToggleLanguageButton
  <2>1. useIME' = ~useIME /\ Carry(TRUE) /\ UNCHANGED <<keys, altTabOn>>
    BY <1>3 DEF ToggleLanguageButton
  <2>2. TextInv' /\ carried' \in BOOLEAN
    BY <1>2, <2>1, Carried
  <2>3. InputTypeOK' /\ KeyInv'
    BY <1>1, <1>2, <2>1, <2>2 DEF InputTypeOK, KeyInv, KeysExplained
  <2> QED
    BY <1>1, <1>2, <2>1, <2>2, <2>3, KeyboardStep
<1>4. CASE FocusChanges
  <2>1. UNCHANGED <<keys, useIME, carried, altTabOn>>
    BY <1>4 DEF FocusChanges
  <2>2. InputTypeOK' /\ KeyInv' /\ TextInv'
    BY <1>1, <1>2, <2>1 DEF InputTypeOK, KeyInv, KeysExplained, TextInv
  <2> QED
    BY <1>1, <1>2, <2>1, <2>2, KeyboardStep
<1>5. CASE altTabEvent
  <2>1. altTabOn' = ~altTabOn /\ SendKeyUpDown("alt", ~altTabOn) /\ UNCHANGED <<useIME, carried>>
    BY <1>5 DEF altTabEvent
  <2>2. /\ Forwarded \/ keys' = keys
        /\ altTabOn' => keys' \subseteq keys \cup {"alt"}
        /\ ~altTabOn' => keys' \subseteq keys \ {"alt"}
        /\ altTabOn' \in BOOLEAN
    BY <1>2, <2>1, KeySent DEF InputTypeOK
  <2>3. "alt" \in Keys
    BY DEF Keys
  <2>4. InputTypeOK' /\ KeyInv' /\ TextInv'
    BY <1>1, <1>2, <2>1, <2>2, <2>3 DEF InputTypeOK, KeyInv, KeysExplained, TextInv
  <2> QED
    BY <1>1, <1>2, <2>2, <2>4, KeyboardStep
<1>6. ASSUME NEW k \in Keys, PressAndRelease(k) PROVE InputInv'
  <2>1. SendKeyUpDown(k, FALSE) /\ UNCHANGED <<useIME, carried, altTabOn>>
    BY <1>6 DEF PressAndRelease
  <2>2. keys' \subseteq keys /\ (Forwarded \/ keys' = keys)
    BY <1>2, <2>1, KeySent
  <2>3. InputTypeOK' /\ KeyInv' /\ TextInv'
    BY <1>1, <1>2, <2>1, <2>2 DEF InputTypeOK, KeyInv, KeysExplained, TextInv
  <2> QED
    BY <1>1, <1>2, <2>2, <2>3, KeyboardStep
<1> QED
  BY <1>3, <1>4, <1>5, <1>6

-----------------------------------------------------------------------------
\* The theorems.

LEMMA InputStep == InputInv /\ [InputNext]_inputVars => InputInv'
<1> SUFFICES ASSUME InputInv, [InputNext]_inputVars PROVE InputInv'
  OBVIOUS
<1>1. CASE UNCHANGED inputVars
  BY <1>1, PointersKept, TypingKept, SessionKept DEF inputVars, InputInv
<1>2. CASE InputNext
  <2>1. CASE \E k \in Keys : \E code \in {k, Compose} : KeyDown(k, code)
    BY <2>1, KeyDownStep
  <2>2. CASE \E k \in Keys : KeyUp(k)
    BY <2>2, KeyUpStep
  <2>3. CASE RDPStart \/ SessionAdvances \/ SessionEnds
    BY <2>3, SessionSteps
  <2>4. CASE (\E b \in Flags : MouseDown(b) \/ MouseUp(b)) \/ MouseEnter \/ onMouseLeave
    BY <2>4, MouseSteps
  <2>5. CASE \/ onTs \/ onTe \/ TouchCancel \/ fT \/ cT
             \/ \E f \in Flags : SetArtificialMouseFlags(f)
    BY <2>5, TouchSteps
  <2>6. CASE ToggleLanguageButton \/ FocusChanges \/ altTabEvent \/ \E k \in Keys : PressAndRelease(k)
    BY <2>6, OtherKeySteps
  <2>7. CASE Rest
    BY <1>1, <2>7 DEF Rest
  <2>8. CharKeys \cup {"enter"} \subseteq Keys
    BY DEF Keys
  <2> QED
    BY <1>2, <2>1, <2>2, <2>3, <2>4, <2>5, <2>6, <2>7, <2>8 DEF InputNext
<1> QED
  BY <1>1, <1>2

\* The invariant of the handlers of mouse, touches and keys, for any keys, and any
\* number of sessions, fingers and timers.
THEOREM InputInvariance == InputSpec => []InputInv
<1>1. InputInv /\ [InputNext]_inputVars => InputInv'
  BY InputStep
<1> QED
  BY <1>1, InputInitially, PTL DEF InputSpec

\* What the RDP server believes to be held by a mouse is held over the canvas, and what
\* fingers leave behind has one of the four causes.
THEOREM ButtonsAreExplained == InputSpec => []ButtonsExplained
<1>1. InputInv => ButtonsExplained
  BY DEF InputInv, MouseInv, TouchInv, ButtonsExplained
<1> QED
  BY <1>1, InputInvariance, PTL

\* A key that is held at the RDP server and not by the visitor had an uneven release,
\* or it is the Alt of a button shown as held.
THEOREM KeysAreExplained == InputSpec => []KeysExplained
<1>1. InputInv => KeysExplained
  BY DEF InputInv, KeyInv
<1> QED
  BY <1>1, InputInvariance, PTL

\* The textarea is emptied under an input method that composes only by what ends the
\* composition.
LEMMA Emptied ==
    ASSUME InputNext, area # {}, area' = {}, sock' = "open", useIME, IMEon
    PROVE  ~IMEon'
<1>1. area' # area
  OBVIOUS
<1>2. CASE RDPStart \/ SessionAdvances \/ SessionEnds
  BY <1>1, <1>2 DEF RDPStart, SessionAdvances, SessionEnds, typing
<1>3. ASSUME NEW k, NEW code, KeyDown(k, code) PROVE ~IMEon'
  BY <1>1, <1>3 DEF KeyDown, Typed, DumpTextArea
<1>4. ASSUME NEW k, KeyUp(k) PROVE ~IMEon'
  BY <1>1, <1>4 DEF KeyUp, DumpTextArea
<1>5. CASE (\E b \in Flags : MouseDown(b) \/ MouseUp(b)) \/ MouseEnter \/ onMouseLeave
  BY <1>1, <1>5 DEF MouseDown, MouseUp, MouseEnter, onMouseLeave, typing
<1>6. CASE \/ onTs \/ onTe \/ TouchCancel \/ fT \/ cT
           \/ \E f \in Flags : SetArtificialMouseFlags(f)
  BY <1>1, <1>6 DEF onTs, onTe, TouchCancel, fT, cT, SetArtificialMouseFlags, typing
<1>7. CASE ToggleLanguageButton \/ FocusChanges \/ altTabEvent \/ Rest \/ \E k \in Keys : PressAndRelease(k)
  BY <1>1, <1>7 DEF ToggleLanguageButton, FocusChanges, altTabEvent, PressAndRelease, Rest, inputVars, typing
<1> QED
  BY <1>2, <1>3, <1>4, <1>5, <1>6, <1>7 DEF InputNext

\* Text arrives twice, or never, only without the input method or after it was
\* switched with something pending.
THEOREM TextIsExplained == InputSpec => TextExplained
<1>1. InputInv /\ [InputNext]_inputVars => [TextStep]_inputVars
  <2> SUFFICES ASSUME InputInv, InputNext PROVE TextStep
    OBVIOUS
  <2>1. IMEon /\ "sent" \in area => carried
    BY DEF InputInv, TextInv
  <2>2. ASSUME sock' = "open", "unsent" \in area, area' = {}, useIME, ~carried
        PROVE  IMEon /\ ~IMEon'
    <3>1. IMEon
      BY <2>2 DEF InputInv, TextInv
    <3> QED
      BY <2>2, <3>1, Emptied
  <2> QED
    BY <2>1, <2>2 DEF TextStep
<1> QED
  BY <1>1, InputInvariance, PTL DEF InputSpec, TextExplained
=============================================================================
