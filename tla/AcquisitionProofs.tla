------------------------- MODULE AcquisitionProofs -------------------------
(***************************************************************************)
(* Proofs about Acquisition, for any ring and Sidecar capacity, any number *)
(* of IqSlots, any block and read sizes and any bound.  Each layer is an   *)
(* invariant on top of the one before:                                     *)
(*   - IInv: types and room in the ring; the lock-free producer and reader *)
(*     never touch the same place (Typed, RingSafe);                       *)
(*   - Flow: the samples in the ring, the slots and the tasks are those    *)
(*     their descriptors name (LabelsSafe);                                *)
(*   - Line: the descriptors on the way to a channel are in order, so each *)
(*     channel implements LossyStream (ReadImplements, CallbackImplements),*)
(*     no break hides between hand-overs (BreaksTold), and the account of  *)
(*     what was lost is exact (ChannelsAccounted);                         *)
(*   - Cover: every hole on the read channel's way has a cause, or a gap   *)
(*     is known (LossesCaused).                                            *)
(***************************************************************************)
EXTENDS Acquisition, Integers, TLAPS

\* NeverOverlaps is not inductive: what keeps the two regions apart is that
\* the room the producer computed still exists, and that the pairs the reader
\* counted are still there, however far the other side has gone since; and
\* the descriptor the reader peeked at is still the first, with that much left.
RingFits ==
  /\ push.pc \in {"span", "copy", "publish"} => push.n <= Space
  /\ rd.pc \in {"copy", "deliver", "free"} => rd.n <= Used
  /\ rd.pc \in {"copy", "deliver"} => /\ spans # <<>>
                                      /\ offset + rd.n <= Head(spans).len
  /\ spans = <<>> => offset = 0
  /\ spans # <<>> => offset <= Head(spans).len
  /\ held.pc # "idle" => held.id \in Slots

IInv == TypeOK /\ RingFits

----------------------------------------------------------------------------
(* Indices of the ring.                                                    *)

\* Ahead wraps at most once for the distances the ring uses.
LEMMA AheadWraps ==
  ASSUME NEW i \in 0 .. RingPairs - 1, NEW k \in 0 .. RingPairs
  PROVE  /\ Ahead(i, k) = IF i + k < RingPairs THEN i + k ELSE i + k - RingPairs
         /\ Ahead(i, k) \in 0 .. RingPairs - 1
<1>1. RingPairs \in Nat \ {0}
  BY RingAssumption
<1>2. CASE i + k < RingPairs
  BY <1>1, <1>2 DEF Ahead
<1>3. CASE i + k >= RingPairs
  <2>1. (i + k) % RingPairs = i + k - RingPairs
    BY <1>1, <1>3, SMT
  <2> QED
    BY <1>1, <1>3, <2>1 DEF Ahead
<1> QED
  BY <1>1, <1>2, <1>3

\* The room never exceeds what the indices allow.
LEMMA UsedInRange ==
  ASSUME w \in 0 .. RingPairs - 1, r \in 0 .. RingPairs - 1
  PROVE  Used \in 0 .. RingPairs - 1 /\ Space \in 0 .. RingPairs - 1
BY RingAssumption DEF Used, Space

\* Publishing what fits takes that much room and no more.
LEMMA PublishUses ==
  ASSUME w \in 0 .. RingPairs - 1, r \in 0 .. RingPairs - 1, r' = r,
         NEW n \in Nat, n <= Space, w' = Ahead(w, n)
  PROVE  w' \in 0 .. RingPairs - 1 /\ Used' = Used + n
<1>1. n \in 0 .. RingPairs
  BY UsedInRange, RingAssumption
<1>2. /\ w' = IF w + n < RingPairs THEN w + n ELSE w + n - RingPairs
      /\ w' \in 0 .. RingPairs - 1
  BY <1>1, AheadWraps
<1>3. n <= RingPairs - 1 - (IF w >= r THEN w - r ELSE RingPairs - r + w)
  BY DEF Space, Used
<1> QED
  BY <1>1, <1>2, <1>3, RingAssumption DEF Used

\* Releasing what was read returns that much room.
LEMMA FreeReturns ==
  ASSUME w \in 0 .. RingPairs - 1, r \in 0 .. RingPairs - 1, w' = w,
         NEW n \in Nat, n <= Used, r' = Ahead(r, n)
  PROVE  r' \in 0 .. RingPairs - 1 /\ Used' = Used - n
<1>1. n \in 0 .. RingPairs
  BY UsedInRange, RingAssumption
<1>2. /\ r' = IF r + n < RingPairs THEN r + n ELSE r + n - RingPairs
      /\ r' \in 0 .. RingPairs - 1
  BY <1>1, AheadWraps
<1>3. n <= (IF w >= r THEN w - r ELSE RingPairs - r + w)
  BY DEF Used
<1> QED
  BY <1>1, <1>2, <1>3, RingAssumption DEF Used

\* Regions that fit do not meet.
LEMMA FitsApart == IInv => NeverOverlaps
<1> SUFFICES ASSUME IInv,
                    push.pc \in {"copy", "publish"}, rd.pc \in {"copy", "deliver", "free"},
                    NEW j \in 0 .. push.n - 1, NEW k \in 0 .. rd.n - 1
             PROVE  Ahead(w, j) # Ahead(r, k)
  BY DEF NeverOverlaps, Filling, Emptying
<1>1. /\ w \in 0 .. RingPairs - 1 /\ r \in 0 .. RingPairs - 1
      /\ push.n \in Nat /\ rd.n \in Nat /\ push.n <= Space /\ rd.n <= Used
  BY DEF IInv, TypeOK, PushType, ReadType, RingFits
<1>2. j \in 0 .. RingPairs /\ k \in 0 .. RingPairs
  BY <1>1, UsedInRange, RingAssumption
<1>3. /\ Ahead(w, j) = IF w + j < RingPairs THEN w + j ELSE w + j - RingPairs
      /\ Ahead(r, k) = IF r + k < RingPairs THEN r + k ELSE r + k - RingPairs
  BY <1>1, <1>2, AheadWraps
<1> QED
  BY <1>1, <1>2, <1>3, RingAssumption DEF Used, Space

----------------------------------------------------------------------------
(* Types.                                                                  *)

LEMMA InitInv == Init => IInv
<1> SUFFICES ASSUME Init PROVE IInv
  OBVIOUS
<1>1. NoBlock \in SpanType /\ NoPush.n \in Nat
  BY DEF NoBlock, SpanType, NoPush
<1>2. freeQ \in Seq(Slots) /\ filledQ \in Seq(Slots)
  BY SlotAssumption DEF Init, Slots
<1>3. TypeOK
  <2>1. /\ seen \in Seq(Nat) /\ spans \in Seq(SpanType)
        /\ cell \in [0 .. RingPairs - 1 -> PairType]
        /\ slot \in [Slots -> SpanType]
    BY <1>1 DEF Init, Unpaired, PairType
  <2>2. block \in SpanType /\ push \in PushType
    BY <1>1 DEF Init, NoPush, PushType
  <2>3. /\ w \in 0 .. RingPairs - 1 /\ r \in 0 .. RingPairs - 1
        /\ held \in HeldType
    BY RingAssumption, SlotAssumption DEF Init, HeldType
  <2>4. rd \in ReadType
    BY DEF Init, NoRead, ReadType
  <2>5. /\ cursor \in [Channels -> CursorType]
        /\ told \in [Channels -> ToldType]
    BY DEF Init, CursorType, ToldType
  <2> QED
    BY <1>2, <2>1, <2>2, <2>3, <2>4, <2>5 DEF Init, TypeOK
<1>4. RingFits
  BY DEF Init, RingFits, NoPush, NoRead
<1> QED
  BY <1>3, <1>4 DEF IInv
\* A hand-over keeps the cursors and what the channels were told well-typed.
LEMMA DeliverTyped ==
  ASSUME TypeOK, NEW c \in Channels, NEW span \in SpanType, NEW pairs \in Seq(PairType),
         Deliver(c, span, pairs)
  PROVE  cursor' \in [Channels -> CursorType] /\ told' \in [Channels -> ToldType]
<1> DEFINE old == cursor[c]
           changed == old.epoch # span.epoch
           end == IF changed THEN 0 ELSE old.end
           lost == IF span.first >= end THEN span.first - end ELSE 0
<1>1. old \in CursorType /\ told[c] \in ToldType /\ changed \in BOOLEAN
  BY DEF TypeOK
<1>2. end \in Nat /\ lost \in Nat /\ Len(pairs) \in Nat
  BY <1>1 DEF CursorType, SpanType
<1>3. [epoch |-> span.epoch, end |-> span.first + Len(pairs), unknown |-> span.gaps] \in CursorType
  BY <1>2 DEF CursorType, SpanType
<1>4. /\ Len(pairs) + (IF changed THEN 0 ELSE told[c].got) \in Nat
      /\ lost + (IF changed THEN 0 ELSE told[c].lost) \in Nat
  BY <1>1, <1>2 DEF ToldType
<1>5. DEFINE told_c ==
        [got |-> Len(pairs) + (IF changed THEN 0 ELSE told[c].got),
         lost |-> lost + (IF changed THEN 0 ELSE told[c].lost),
         torn |-> span.torn,
         label |-> \A k \in DOMAIN pairs : pairs[k] = Pair(span, k - 1),
         skipped |-> lost > 0,
         caused |-> span.causes # {},
         broken |-> ~changed /\ span.torn # told[c].torn,
         unknown |-> span.gaps # IF changed THEN 0 ELSE old.unknown]
<1>6. cursor' \in [Channels -> CursorType]
  BY <1>3 DEF Deliver, TypeOK
<1>7. told' = [told EXCEPT ![c] = told_c]
  BY DEF Deliver
<1>8. told_c \in ToldType
  <2>1. span.torn \in Nat
    BY DEF SpanType
  <2>2. /\ (\A k \in DOMAIN pairs : pairs[k] = Pair(span, k - 1)) \in BOOLEAN
        /\ (lost > 0) \in BOOLEAN
        /\ (span.causes # {}) \in BOOLEAN
        /\ (~changed /\ span.torn # told[c].torn) \in BOOLEAN
        /\ (span.gaps # IF changed THEN 0 ELSE old.unknown) \in BOOLEAN
    OBVIOUS
  <2> HIDE DEF lost, changed, old
  <2> QED
    BY <1>4, <2>1, <2>2 DEF ToldType
<1> QED
  BY <1>6, <1>7, <1>8 DEF TypeOK
----------------------------------------------------------------------------
(* Steps that leave the ring, the descriptors, the read in progress and the *)
(* delivery task alone: only the types of what they change matter.          *)

LEMMA FitsUntouched ==
  ASSUME RingFits, UNCHANGED <<push, w, r, spans, offset, rd, held>>
  PROVE  RingFits'
BY DEF RingFits, Space, Used

LEMMA ControlInv == ASSUME IInv, Control PROVE IInv'
<1>1. CASE Close
  BY <1>1, FitsUntouched DEF Close, IInv, TypeOK, timeline, ring, slots, reader
<1>2. CASE Begin
  <2>1. seen' \in Seq(Nat)
    BY <1>2 DEF Begin, IInv, TypeOK
  <2>2. TypeOK'
    BY <1>2, <2>1 DEF Begin, IInv, TypeOK, ring, slots, reader
  <2> QED
    BY <1>2, <2>2, FitsUntouched DEF Begin, IInv, ring, slots, reader
<1>3. CASE RecoverMark
  BY <1>3, FitsUntouched DEF RecoverMark, IInv, TypeOK, ring, slots, reader
<1>4. CASE RecoverPause
  BY <1>4, FitsUntouched DEF RecoverPause, IInv, TypeOK, timeline, ring, slots, reader
<1>5. CASE RecoverResume
  BY <1>5, FitsUntouched DEF RecoverResume, IInv, TypeOK, timeline, ring, slots, reader
<1> QED
  BY <1>1, <1>2, <1>3, <1>4, <1>5 DEF Control

LEMMA CallbackInv == ASSUME IInv, Callback PROVE IInv'
<1>1. ASSUME NEW len \in BlockSizes, Observe(len)
      PROVE  IInv'
  <2>1. len \in Nat /\ Epoch \in 1 .. Len(seen) /\ Position \in Nat
    BY <1>1, SizesAssumption DEF Observe, IInv, TypeOK, Epoch, Position
  <2>2. seen' \in Seq(Nat)
    BY <1>1, <2>1 DEF Observe, IInv, TypeOK, Epoch
  <2>3. block' \in SpanType
    BY <1>1, <2>1 DEF Observe, IInv, TypeOK, SpanType
  <2>4. TypeOK'
    BY <1>1, <2>2, <2>3 DEF Observe, IInv, TypeOK, ring, slots, reader
  <2> QED
    BY <1>1, <2>4, FitsUntouched DEF Observe, IInv, ring, slots, reader
<1>2. CASE ObserveOdd
  BY <1>2, FitsUntouched DEF ObserveOdd, IInv, TypeOK, ring, slots, reader
<1>3. CASE TransferError
  BY <1>3, FitsUntouched DEF TransferError, IInv, TypeOK, ring, slots, reader
<1>4. NoBlock \in SpanType
  BY DEF NoBlock, SpanType
<1>5. CASE DropAtGate
  BY <1>4, <1>5, FitsUntouched DEF DropAtGate, IInv, TypeOK, timeline, ring, slots, reader
<1>6. CASE PushBlock
  <2>1. push' \in PushType
    BY <1>6 DEF PushBlock, IInv, TypeOK, PushType
  <2>2. TypeOK'
    BY <1>4, <1>6, <2>1 DEF PushBlock, IInv, TypeOK, timeline, slots, reader
  <2>3. RingFits'
    BY <1>6 DEF PushBlock, IInv, RingFits, Used, slots, reader
  <2> QED
    BY <2>2, <2>3 DEF IInv
<1>7. CASE ParkBlock
  <2>1. Head(freeQ) \in Slots /\ Tail(freeQ) \in Seq(Slots)
    BY <1>7 DEF ParkBlock, IInv, TypeOK
  <2>2. filledQ' \in Seq(Slots) /\ slot' \in [Slots -> SpanType]
    BY <1>7, <2>1 DEF ParkBlock, IInv, TypeOK
  <2>3. TypeOK'
    BY <1>4, <1>7, <2>1, <2>2 DEF ParkBlock, IInv, TypeOK, timeline, ring, reader
  <2> QED
    BY <1>7, <2>3, FitsUntouched DEF ParkBlock, IInv, ring, reader
<1>8. CASE Starve
  BY <1>4, <1>8, FitsUntouched DEF Starve, IInv, TypeOK, LossCauses, ring, slots, reader
<1> QED
  BY <1>1, <1>2, <1>3, <1>5, <1>6, <1>7, <1>8 DEF Callback
----------------------------------------------------------------------------
(* The push.  The reader only ever makes room, so what fitted still fits.  *)

LEMMA PushInv == ASSUME IInv, Push PROVE IInv'
<1>1. /\ push.n \in Nat /\ push.span \in SpanType /\ NoPush \in PushType
      /\ w \in 0 .. RingPairs - 1 /\ r \in 0 .. RingPairs - 1
      /\ Used \in 0 .. RingPairs - 1 /\ Space \in 0 .. RingPairs - 1
  BY UsedInRange DEF IInv, TypeOK, PushType, NoPush, NoBlock, SpanType
<1>2. CASE PushSpace
  <2>1. /\ Min2(push.span.len, Space) \in Nat
        /\ Min2(push.span.len, Space) <= Space
    BY <1>1 DEF Min2, SpanType
  <2>2. push' \in PushType /\ push'.n <= Space
    BY <1>2, <2>1 DEF PushSpace, IInv, TypeOK, PushType
  <2>3. TypeOK'
    BY <1>2, <2>2 DEF PushSpace, IInv, TypeOK, timeline, slots, reader
  <2>4. RingFits'
    BY <1>2, <2>2 DEF PushSpace, IInv, RingFits, Used, Space, slots, reader
  <2> QED
    BY <2>3, <2>4 DEF IInv
<1>3. CASE PushSpan
  <2> DEFINE tagged == push.span.causes \union pending
             overrun == IF push.n < push.span.len THEN {"PULL_OVERRUN"} \union tagged ELSE {}
             new == [push.span EXCEPT !.len = push.n, !.causes = tagged]
  <2>1. tagged \subseteq LossCauses /\ overrun \subseteq LossCauses
    BY <1>1 DEF IInv, TypeOK, SpanType, LossCauses
  <2>2. new \in SpanType /\ new.len = push.n
    BY <1>1, <2>1 DEF SpanType
  <2>3. pending' \subseteq LossCauses
    BY <1>3, <2>1 DEF PushSpan, IInv, TypeOK, LossCauses
  <2>4. \/ /\ push' = [push EXCEPT !.pc = "copy"] /\ spans' = Append(spans, new)
           /\ push.pc = "span"
        \/ push' = NoPush /\ spans' = spans
    BY <1>3 DEF PushSpan
  <2> HIDE DEF new
  <2>5. push' \in PushType
    BY <1>1, <2>4 DEF IInv, TypeOK, PushType
  <2>6. spans' \in Seq(SpanType)
    <3>1. spans \in Seq(SpanType)
      BY DEF IInv, TypeOK
    <3>2. Append(spans, new) \in Seq(SpanType)
      BY <2>2, <3>1
    <3> QED
      BY <2>4, <3>1, <3>2
  <2>7. TypeOK'
    BY <1>3, <2>3, <2>5, <2>6 DEF PushSpan, IInv, TypeOK, timeline, slots, reader
  <2>8. /\ spans # <<>> => Head(spans') = Head(spans) /\ spans' # <<>>
        /\ spans = <<>> => spans' = <<>> \/ Head(spans') = new
    <3>1. spans \in Seq(SpanType)
      BY DEF IInv, TypeOK
    <3>2. CASE spans' = spans
      BY <3>2
    <3>3. CASE spans' = Append(spans, new)
      BY <2>2, <3>1, <3>3
    <3> QED
      BY <2>4, <3>2, <3>3
  <2>9. Used' = Used /\ Space' = Space
    BY <1>3 DEF PushSpan, Used, Space
  <2>10. push'.pc \in {"span", "copy", "publish"} => push'.n <= Space'
    <3>1. CASE push' = NoPush
      BY <3>1 DEF NoPush
    <3>2. CASE push.pc = "span" /\ push' = [push EXCEPT !.pc = "copy"]
      BY <2>9, <3>2 DEF IInv, TypeOK, RingFits, PushType
    <3> QED
      BY <2>4, <3>1, <3>2
  <2>11. offset' = offset /\ rd' = rd /\ held' = held
    BY <1>3 DEF PushSpan, slots, reader
  <2>12. RingFits'
    <3>1. spans' = <<>> => offset' = 0
      BY <2>8, <2>11 DEF IInv, RingFits
    <3>2. spans' # <<>> => offset' <= Head(spans').len
      <4>1. CASE spans # <<>>
        BY <2>8, <2>11, <4>1 DEF IInv, RingFits
      <4>2. CASE spans = <<>>
        BY <1>1, <2>2, <2>8, <2>11, <4>2 DEF IInv, RingFits
      <4> QED
        BY <4>1, <4>2
    <3> QED
      BY <2>8, <2>9, <2>10, <2>11, <3>1, <3>2 DEF IInv, RingFits
  <2> QED
    BY <2>7, <2>12 DEF IInv
<1>4. CASE PushCopy
  <2>1. \A k \in 0 .. push.n - 1 : Pair(push.span, k) \in PairType
    BY <1>1 DEF Pair, PairType, SpanType
  <2>2. cell' \in [0 .. RingPairs - 1 -> PairType]
    <3>1. \A i \in 0 .. RingPairs - 1 : cell'[i] \in PairType
      <4> SUFFICES ASSUME NEW i \in 0 .. RingPairs - 1
                   PROVE  cell'[i] \in PairType
        OBVIOUS
      <4>1. CASE \E k \in 0 .. push.n - 1 : Ahead(w, k) = i
        <5> DEFINE k == CHOOSE k \in 0 .. push.n - 1 : Ahead(w, k) = i
        <5>1. k \in 0 .. push.n - 1
          BY <4>1
        <5>2. cell'[i] = Pair(push.span, k)
          BY <1>4, <4>1 DEF PushCopy, IInv, TypeOK
        <5> QED
          BY <2>1, <5>1, <5>2
      <4>2. CASE ~\E k \in 0 .. push.n - 1 : Ahead(w, k) = i
        BY <1>4, <4>2 DEF PushCopy, IInv, TypeOK
      <4> QED
        BY <4>1, <4>2
    <3>2. cell' = [i \in 0 .. RingPairs - 1 |-> cell'[i]]
      BY <1>4 DEF PushCopy, IInv, TypeOK
    <3> QED
      BY <3>1, <3>2
  <2>3. push' \in PushType /\ push'.n = push.n /\ push.pc = "copy"
    BY <1>4 DEF PushCopy, IInv, TypeOK, PushType
  <2>4. TypeOK'
    BY <1>4, <2>2, <2>3 DEF PushCopy, IInv, TypeOK, timeline, slots, reader
  <2>5. RingFits'
    BY <1>4, <2>3 DEF PushCopy, IInv, RingFits, Used, Space, slots, reader
  <2> QED
    BY <2>4, <2>5 DEF IInv
<1>5. CASE PushPublish
  <2>1. w' = Ahead(w, push.n) /\ r' = r /\ push.n <= Space
    BY <1>5 DEF PushPublish, IInv, RingFits
  <2>2. w' \in 0 .. RingPairs - 1 /\ Used' = Used + push.n
    BY <1>1, <2>1, PublishUses
  <2>3. TypeOK'
    BY <1>1, <1>5, <2>2 DEF PushPublish, IInv, TypeOK, timeline, slots, reader
  <2>4. rd \in ReadType
    BY DEF IInv, TypeOK
  <2>5. RingFits'
    BY <1>1, <1>5, <2>2, <2>4 DEF PushPublish, IInv, RingFits, NoPush, ReadType, slots, reader
  <2> QED
    BY <2>3, <2>5 DEF IInv
<1> QED
  BY <1>2, <1>3, <1>4, <1>5 DEF Push

----------------------------------------------------------------------------
(* The delivery task.                                                      *)

LEMMA DeliveryInv == ASSUME IInv, Delivery PROVE IInv'
<1>1. CASE TakeSlot
  <2>1. Head(filledQ) \in Slots /\ filledQ' \in Seq(Slots)
    BY <1>1 DEF TakeSlot, IInv, TypeOK
  <2>2. push' \in PushType /\ push'.pc = "space"
    BY <1>1, <2>1 DEF TakeSlot, IInv, TypeOK, PushType
  <2>3. held' \in HeldType /\ held'.id \in Slots
    BY <1>1, <2>1, SlotAssumption DEF TakeSlot, HeldType, Slots
  <2>4. TypeOK'
    BY <1>1, <2>1, <2>2, <2>3 DEF TakeSlot, IInv, TypeOK, timeline, reader
  <2>5. RingFits'
    BY <1>1, <2>2, <2>3 DEF TakeSlot, IInv, RingFits, Used, reader
  <2> QED
    BY <2>4, <2>5 DEF IInv
<1>2. CASE CallBack
  <2>1. held.id \in Slots /\ slot[held.id] \in SpanType
    BY <1>2 DEF CallBack, IInv, TypeOK, RingFits
  <2>2. [k \in 1 .. slot[held.id].len |-> Pair(slot[held.id], k - 1)] \in Seq(PairType)
    <3>1. \A k \in 1 .. slot[held.id].len : Pair(slot[held.id], k - 1) \in PairType
      BY <2>1 DEF Pair, PairType, SpanType
    <3> QED
      BY <2>1, <3>1 DEF SpanType
  <2>3. cursor' \in [Channels -> CursorType] /\ told' \in [Channels -> ToldType]
    BY <1>2, <2>1, <2>2, DeliverTyped DEF CallBack, IInv, TypeOK, Channels
  <2>4. held' \in HeldType /\ held'.id = held.id
    BY <1>2 DEF CallBack, IInv, TypeOK, HeldType
  <2>5. TypeOK'
    BY <1>2, <2>3, <2>4 DEF CallBack, IInv, TypeOK, timeline, ring
  <2>6. RingFits'
    BY <1>2, <2>1, <2>4 DEF CallBack, IInv, RingFits, Used, Space, ring
  <2> QED
    BY <2>5, <2>6 DEF IInv
<1>3. CASE ReturnSlot
  <2>1. held.id \in Slots /\ NoBlock \in SpanType
    BY <1>3 DEF ReturnSlot, IInv, RingFits, NoBlock, SpanType
  <2>2. freeQ' \in Seq(Slots) /\ slot' \in [Slots -> SpanType]
    BY <1>3, <2>1 DEF ReturnSlot, IInv, TypeOK
  <2>3. held' \in HeldType /\ held'.pc = "idle"
    BY <1>3, SlotAssumption DEF ReturnSlot, HeldType
  <2>4. TypeOK'
    BY <1>3, <2>2, <2>3 DEF ReturnSlot, IInv, TypeOK, timeline, ring, reader
  <2>5. RingFits'
    BY <1>3, <2>3 DEF ReturnSlot, IInv, RingFits, Used, Space, ring, reader
  <2> QED
    BY <2>4, <2>5 DEF IInv
<1> QED
  BY <1>1, <1>2, <1>3 DEF Delivery
----------------------------------------------------------------------------
(* The reader.  The producer only ever adds pairs and descriptors behind.  *)

\* What a peek shows is a span, no longer than asked and than is left.
LEMMA PeekTyped ==
  ASSUME TypeOK, spans # <<>>, NEW n \in Nat
  PROVE  /\ Head(spans) \in SpanType /\ Head(spans).len \in Nat
         /\ Tail(spans) \in Seq(SpanType)
         /\ Peek(n).len = Min2(n, Head(spans).len - offset)
         /\ offset <= Head(spans).len => Peek(n) \in SpanType
<1>1. Head(spans) \in SpanType /\ Tail(spans) \in Seq(SpanType) /\ offset \in Nat
  BY DEF TypeOK
<1>2. Head(spans).len \in Nat /\ Head(spans).first \in Nat
  BY <1>1 DEF SpanType
<1>3. Peek(n).len = Min2(n, Head(spans).len - offset)
  BY <1>1 DEF Peek, SpanType
<1>4. ASSUME offset <= Head(spans).len
      PROVE  Peek(n) \in SpanType
  <2> DEFINE first == Head(spans).first + offset
             len == Min2(n, Head(spans).len - offset)
  <2>1. first \in Nat
    BY <1>1, <1>2
  <2>2. len \in Nat
    BY <1>1, <1>2, <1>4 DEF Min2
  <2>3. Peek(n) = [Head(spans) EXCEPT !.first = first, !.len = len]
    BY <1>1 DEF Peek, SpanType
  <2> HIDE DEF first, len
  <2> QED
    BY <1>1, <2>1, <2>2, <2>3 DEF SpanType
<1> QED
  BY <1>1, <1>2, <1>3, <1>4

LEMMA ReaderInv == ASSUME IInv, Reader PROVE IInv'
<1>1. /\ rd \in ReadType /\ rd.n \in Nat /\ spans \in Seq(SpanType) /\ offset \in Nat
      /\ w \in 0 .. RingPairs - 1 /\ r \in 0 .. RingPairs - 1
      /\ Used \in 0 .. RingPairs - 1 /\ Space \in 0 .. RingPairs - 1
  BY UsedInRange DEF IInv, TypeOK, ReadType
<1>2. spans # <<>> => Head(spans).len \in Nat /\ Tail(spans) \in Seq(SpanType)
  <2>1. spans # <<>> => Head(spans) \in SpanType /\ Tail(spans) \in Seq(SpanType)
    BY <1>1
  <2> QED
    BY <2>1 DEF SpanType
<1>3. ASSUME NEW size \in ReadSizes, ReadLoad(size)
      PROVE  IInv'
  <2> DEFINE most == Min2(size, Used)
  <2>1. spans # <<>> /\ offset <= Head(spans).len
    BY <1>3 DEF ReadLoad, IInv, RingFits
  <2>2. most \in Nat /\ most <= Used
    BY <1>1, SizesAssumption DEF Min2
  <2>3. rd'.n = Min2(most, Head(spans).len - offset) /\ rd'.pc = "copy" /\ rd'.out = <<>>
    <3>1. Peek(most).len = Min2(most, Head(spans).len - offset)
      <4> HIDE DEF most
      <4> QED
        BY <2>1, <2>2, PeekTyped DEF IInv
    <3> QED
      BY <1>3, <3>1 DEF ReadLoad
  <2>4. rd'.n \in Nat /\ rd'.n <= Used /\ offset + rd'.n <= Head(spans).len
    BY <1>1, <1>2, <2>1, <2>2, <2>3 DEF Min2
  <2>5. rd' \in ReadType
    BY <1>3, <2>4 DEF ReadLoad, ReadType
  <2>6. TypeOK'
    BY <1>3, <2>5 DEF ReadLoad, IInv, TypeOK, timeline, ring, slots
  <2>7. RingFits'
    BY <1>3, <2>1, <2>4 DEF ReadLoad, IInv, RingFits, Used, Space, ring, slots
  <2> QED
    BY <2>6, <2>7 DEF IInv
<1>4. CASE ReadCopy
  <2>1. \A k \in 1 .. rd.n : cell[Ahead(r, k - 1)] \in PairType
    <3> SUFFICES ASSUME NEW k \in 1 .. rd.n
                 PROVE  Ahead(r, k - 1) \in 0 .. RingPairs - 1
      BY DEF IInv, TypeOK
    <3>1. k - 1 \in 0 .. RingPairs
      BY <1>1, <1>4, RingAssumption DEF ReadCopy, IInv, RingFits
    <3> QED
      BY <1>1, <3>1, AheadWraps
  <2>2. [k \in 1 .. rd.n |-> cell[Ahead(r, k - 1)]] \in Seq(PairType)
    BY <1>1, <2>1
  <2>3. rd' \in ReadType /\ rd'.n = rd.n /\ rd.pc = "copy"
    BY <1>1, <1>4, <2>2 DEF ReadCopy, ReadType
  <2>4. TypeOK'
    BY <1>4, <2>3 DEF ReadCopy, IInv, TypeOK, timeline, ring, slots
  <2>5. RingFits'
    BY <1>4, <2>3 DEF ReadCopy, IInv, RingFits, Used, Space, ring, slots
  <2> QED
    BY <2>4, <2>5 DEF IInv
<1>5. CASE ReadDeliver
  <2>1. spans # <<>> /\ offset + rd.n <= Head(spans).len /\ rd.n <= Used
    BY <1>5 DEF ReadDeliver, IInv, RingFits
  <2>2. Peek(rd.n) \in SpanType /\ rd.out \in Seq(PairType) /\ "read" \in Channels
    <3>1. offset <= Head(spans).len
      BY <2>1 DEF IInv, RingFits
    <3>2. Peek(rd.n) \in SpanType
      BY <1>1, <2>1, <3>1, PeekTyped DEF IInv
    <3>3. rd.out \in Seq(PairType)
      BY <1>1 DEF ReadType
    <3> QED
      BY <3>2, <3>3 DEF Channels
  <2>3. cursor' \in [Channels -> CursorType] /\ told' \in [Channels -> ToldType]
    BY <1>5, <2>2, DeliverTyped DEF ReadDeliver, IInv
  <2>4. \/ offset' = 0 /\ spans' = Tail(spans)
        \/ offset' = offset + rd.n /\ spans' = spans
    BY <1>5 DEF ReadDeliver
  <2>5. offset' \in Nat /\ spans' \in Seq(SpanType)
    <3>1. Tail(spans) \in Seq(SpanType)
      BY <1>2, <2>1
    <3>2. offset + rd.n \in Nat
      BY <1>1
    <3>3. CASE offset' = 0 /\ spans' = Tail(spans)
      BY <3>1, <3>3
    <3>4. CASE offset' = offset + rd.n /\ spans' = spans
      BY <1>1, <3>2, <3>4
    <3> QED
      BY <2>4, <3>3, <3>4
  <2>6. rd' \in ReadType /\ rd'.n = rd.n /\ rd'.pc = "free"
    <3>1. <<>> \in Seq(PairType)
      OBVIOUS
    <3> QED
      BY <1>1, <1>5, <3>1 DEF ReadDeliver, ReadType
  <2>7. TypeOK'
    BY <1>5, <2>3, <2>5, <2>6 DEF ReadDeliver, IInv, TypeOK, timeline, slots
  <2>8. /\ spans' = <<>> => offset' = 0
        /\ spans' # <<>> => offset' <= Head(spans').len
    <3>1. CASE offset' = 0 /\ spans' = Tail(spans)
      <4>1. spans' # <<>> => Head(spans') \in SpanType
        BY <2>5
      <4>2. spans' # <<>> => Head(spans').len \in Nat
        BY <4>1 DEF SpanType
      <4> QED
        BY <3>1, <4>2
    <3>2. CASE offset' = offset + rd.n /\ spans' = spans
      BY <2>1, <3>2
    <3> QED
      BY <2>4, <3>1, <3>2
  <2>9. RingFits'
    BY <1>5, <2>1, <2>6, <2>8 DEF ReadDeliver, IInv, RingFits, Used, Space, slots
  <2> QED
    BY <2>7, <2>9 DEF IInv
<1>6. CASE ReadFree
  <2>1. r' = Ahead(r, rd.n) /\ w' = w /\ rd.n <= Used
    BY <1>6 DEF ReadFree, IInv, RingFits
  <2>2. r' \in 0 .. RingPairs - 1 /\ Used' = Used - rd.n
    BY <1>1, <2>1, FreeReturns
  <2>3. rd' \in ReadType /\ rd'.pc = "idle"
    BY <1>6 DEF ReadFree, NoRead, ReadType
  <2>4. TypeOK'
    BY <1>6, <2>2, <2>3 DEF ReadFree, IInv, TypeOK, timeline, slots
  <2>5. Space' >= Space
    BY <1>1, <2>2, RingAssumption DEF Space
  <2>6. Space' \in Nat /\ push \in PushType
    BY <1>1, <2>2, RingAssumption DEF Space, IInv, TypeOK
  <2>7. RingFits'
    BY <1>1, <1>6, <2>3, <2>5, <2>6 DEF ReadFree, IInv, RingFits, PushType, slots
  <2> QED
    BY <2>4, <2>7 DEF IInv
<1> QED
  BY <1>3, <1>4, <1>5, <1>6 DEF Reader

----------------------------------------------------------------------------
LEMMA Invariance == Spec => []IInv
<1>1. IInv /\ [Next]_vars => IInv'
  <2> SUFFICES ASSUME IInv, [Next]_vars
               PROVE  IInv'
    OBVIOUS
  <2>1. CASE UNCHANGED vars
    BY <2>1, FitsUntouched DEF vars, timeline, ring, slots, reader, IInv, TypeOK
  <2> QED
    BY <2>1, ControlInv, CallbackInv, PushInv, DeliveryInv, ReaderInv DEF Next
<1> QED
  BY InitInv, <1>1, PTL DEF Spec

\* Every reachable state is well-typed; in particular both indices stay in
\* the buffer and every span a reader is shown has a length in Nat.
THEOREM Typed == Spec => []TypeOK
<1>1. IInv => TypeOK
  BY DEF IInv
<1> QED
  BY Invariance, <1>1, PTL

\* The producer (pull_ring_push) and the reader (acquisition_read) never touch
\* the same place of pull_buf, for any capacity and any interleaving of them.
THEOREM RingSafe == Spec => []NeverOverlaps
BY Invariance, FitsApart, PTL

----------------------------------------------------------------------------
(* The flow of samples: what is in the ring, the slots and the tasks is what
   its span says it is. *)

\* A sequence and its elements.
LEMMA AtInside ==
  ASSUME NEW S, NEW s \in Seq(S)
  PROVE  /\ Len(s) \in Nat /\ \A i \in 1 .. Len(s) : s[i] \in S
         /\ s = <<>> <=> Len(s) = 0
OBVIOUS

\* What Head and Tail are, element by element.
LEMMA TailAt ==
  ASSUME NEW S, NEW s \in Seq(S), s # <<>>
  PROVE  /\ Len(s) \in Nat \ {0} /\ Head(s) = s[1] /\ s[1] \in S /\ s[Len(s)] \in S
         /\ Tail(s) \in Seq(S) /\ Len(Tail(s)) = Len(s) - 1
         /\ \A i \in 1 .. Len(s) - 1 : Tail(s)[i] = s[i + 1]
         /\ Tail(s) = <<>> <=> Len(s) = 1
<1>1. Len(s) \in Nat \ {0} /\ Head(s) = s[1]
  OBVIOUS
<1>2. s[1] \in S /\ s[Len(s)] \in S
  BY <1>1
<1>3. Tail(s) \in Seq(S) /\ Len(Tail(s)) = Len(s) - 1
  BY <1>1
<1>4. \A i \in 1 .. Len(s) - 1 : Tail(s)[i] = s[i + 1]
  BY <1>1
<1>5. Tail(s) = <<>> <=> Len(s) = 1
  <2>1. Tail(s) = <<>> <=> Len(Tail(s)) = 0
    BY <1>3, AtInside
  <2> QED
    BY <1>1, <1>3, <2>1
<1> QED
  BY <1>1, <1>2, <1>3, <1>4, <1>5

\* What Append is, element by element.
LEMMA AppendAt ==
  ASSUME NEW S, NEW s \in Seq(S), NEW x \in S
  PROVE  /\ Append(s, x) \in Seq(S) /\ Len(Append(s, x)) = Len(s) + 1 /\ Append(s, x) # <<>>
         /\ \A i \in 1 .. Len(s) : Append(s, x)[i] = s[i]
         /\ Append(s, x)[Len(s) + 1] = x
         /\ Len(s) \in Nat
OBVIOUS

----------------------------------------------------------------------------
\* A slot is in one place at most: free, filled or with the delivery task.
SlotsApart ==
  /\ \A i, j \in 1 .. Len(freeQ) : freeQ[i] = freeQ[j] => i = j
  /\ \A i, j \in 1 .. Len(filledQ) : filledQ[i] = filledQ[j] => i = j
  /\ \A i \in 1 .. Len(freeQ), j \in 1 .. Len(filledQ) : freeQ[i] # filledQ[j]
  /\ held.pc # "idle" => /\ \A i \in 1 .. Len(freeQ) : freeQ[i] # held.id
                         /\ \A i \in 1 .. Len(filledQ) : filledQ[i] # held.id

\* Slots are handed round, never copied.
LEMMA SlotsApartStep ==
  ASSUME IInv, SlotsApart, [Next]_vars PROVE SlotsApart'
<1>1. /\ freeQ \in Seq(Slots) /\ filledQ \in Seq(Slots)
      /\ held.pc # "idle" => held.id \in Slots
  BY DEF IInv, TypeOK, RingFits
<1>2. CASE UNCHANGED <<freeQ, filledQ, held>>
  BY <1>2 DEF SlotsApart
<1>3. CASE ParkBlock
  <2>1. /\ freeQ # <<>> /\ freeQ' = Tail(freeQ) /\ filledQ' = Append(filledQ, Head(freeQ))
        /\ held' = held
    BY <1>3 DEF ParkBlock
  <2>2. Head(freeQ) \in Slots
    BY <1>1, <2>1
  <2> QED
    BY <1>1, <2>1, <2>2, TailAt, AppendAt DEF SlotsApart
<1>4. CASE TakeSlot
  <2>1. /\ filledQ # <<>> /\ filledQ' = Tail(filledQ) /\ freeQ' = freeQ
        /\ held' = [pc |-> "push", id |-> Head(filledQ)]
    BY <1>4 DEF TakeSlot
  <2> QED
    BY <1>1, <2>1, TailAt DEF SlotsApart
<1>5. CASE CallBack
  <2>1. filledQ' = filledQ /\ freeQ' = freeQ /\ held' = [held EXCEPT !.pc = "return"]
    BY <1>5 DEF CallBack
  <2>2. held.pc # "idle" /\ held'.id = held.id
    BY <1>5 DEF CallBack, IInv, TypeOK, HeldType
  <2> QED
    BY <2>1, <2>2 DEF SlotsApart
<1>6. CASE ReturnSlot
  <2>1. /\ held.pc = "return" /\ freeQ' = Append(freeQ, held.id) /\ filledQ' = filledQ
        /\ held' = [pc |-> "idle", id |-> 0]
    BY <1>6 DEF ReturnSlot
  <2> QED
    BY <1>1, <2>1, AppendAt DEF SlotsApart
<1>7. CASE Control
  BY <1>2, <1>7 DEF Control, Close, Begin, RecoverMark, RecoverPause, RecoverResume, slots
<1>8. CASE Push \/ Reader
  BY <1>2, <1>8 DEF Push, PushSpace, PushSpan, PushCopy, PushPublish, Reader, ReadLoad, ReadCopy,
                    ReadDeliver, ReadFree, slots
<1>9. CASE Callback
  BY <1>2, <1>3, <1>9 DEF Callback, Observe, ObserveOdd, TransferError, DropAtGate, PushBlock, Starve, slots
<1> QED
  BY <1>2, <1>4, <1>5, <1>6, <1>7, <1>8, <1>9 DEF Next, Delivery, vars, slots
----------------------------------------------------------------------------
\* With a pull reader alone the producer serves the gate and no slot is in
\* use; with both it serves the slot the delivery task holds.
Roles ==
  /\ mode = "READ" => filledQ = <<>> /\ held.pc = "idle" /\ (block # NoBlock => push.pc = "idle")
  /\ mode = "BOTH" /\ push.pc # "idle" => held.pc = "push" /\ push.span = slot[held.id]

\* A block goes into the producer only when that is idle, in each mode from
\* its own side.
LEMMA RolesStep ==
  ASSUME IInv, SlotsApart, Roles, [Next]_vars PROVE Roles'
<1>1. /\ freeQ \in Seq(Slots) /\ filledQ \in Seq(Slots) /\ slot \in [Slots -> SpanType]
      /\ held \in HeldType /\ push \in PushType /\ mode \in {"READ", "BOTH"}
      /\ held.pc # "idle" => held.id \in Slots
  BY ModeAssumption DEF IInv, TypeOK, RingFits
<1>2. CASE UNCHANGED <<mode, filledQ, held, block, push, slot>>
  BY <1>2 DEF Roles
<1>3. ASSUME NEW len \in BlockSizes, Observe(len) PROVE Roles'
  BY <1>1, <1>3 DEF Observe, CallbackFree, Roles, ring, slots, reader
<1>4. CASE DropAtGate \/ Starve
  BY <1>1, <1>4 DEF DropAtGate, Starve, Roles, ring, slots, NoBlock
<1>5. CASE PushBlock
  BY <1>1, <1>5 DEF PushBlock, Roles, slots
<1>6. CASE ParkBlock
  <2>1. freeQ # <<>> /\ Head(freeQ) = freeQ[1] /\ 1 \in 1 .. Len(freeQ)
    BY <1>1, <1>6, TailAt DEF ParkBlock
  <2>2. held.pc = "push" => slot'[held.id] = slot[held.id]
    BY <1>1, <1>6, <2>1 DEF ParkBlock, SlotsApart
  <2> QED
    BY <1>1, <1>6, <2>2 DEF ParkBlock, Roles, ring
<1>7. CASE PushSpace \/ PushSpan \/ PushCopy \/ PushPublish
  <2>1. push.pc # "idle" /\ (push'.pc = "idle" \/ push'.span = push.span)
    <3>1. CASE PushSpace
      BY <1>1, <3>1 DEF PushSpace, PushType
    <3>2. CASE PushSpan
      <4>1. push.pc = "span" /\ (push' = NoPush \/ push' = [push EXCEPT !.pc = "copy"])
        BY <3>2 DEF PushSpan
      <4> QED
        BY <1>1, <4>1 DEF PushType, NoPush
    <3>3. CASE PushCopy
      BY <1>1, <3>3 DEF PushCopy, PushType
    <3>4. CASE PushPublish
      BY <3>4 DEF PushPublish, NoPush
    <3> QED
      BY <1>7, <3>1, <3>2, <3>3, <3>4
  <2>2. UNCHANGED <<mode, filledQ, held, block, slot>>
    BY <1>7 DEF PushSpace, PushSpan, PushCopy, PushPublish, slots
  <2> QED
    BY <2>1, <2>2 DEF Roles
<1>8. CASE TakeSlot
  BY <1>1, <1>8, TailAt DEF TakeSlot, Roles
<1>9. CASE CallBack
  BY <1>1, <1>9 DEF CallBack, Roles, ring, HeldType
<1>10. CASE ReturnSlot
  BY <1>1, <1>10 DEF ReturnSlot, Roles, ring, HeldType
<1>11. CASE Control \/ Reader \/ ObserveOdd \/ TransferError
  BY <1>2, <1>11 DEF Control, Close, Begin, RecoverMark, RecoverPause, RecoverResume, slots, ring, timeline,
     Reader, ReadLoad, ReadCopy, ReadDeliver, ReadFree, ObserveOdd, TransferError
<1> QED
  BY <1>2, <1>3, <1>4, <1>5, <1>6, <1>7, <1>8, <1>9, <1>10, <1>11 DEF Next, Callback, Push, Delivery, vars,
     slots, ring
----------------------------------------------------------------------------
\* A span of the epochs that the transfers have covered.
SeenIn(q, span) == /\ span.epoch \in 1 .. Len(q) /\ span.len > 0
                   /\ span.first + span.len <= q[span.epoch]

\* Every span on its way names samples that have been received; before the
\* first epoch the gate is closed.
Observed ==
  /\ \A e \in 1 .. Len(seen) : seen[e] <= MaxIndex
  /\ block # NoBlock => SeenIn(seen, block)
  /\ push.pc # "idle" => SeenIn(seen, push.span)
  /\ \A i \in 1 .. Len(spans) : SeenIn(seen, spans[i])
  /\ \A i \in 1 .. Len(filledQ) : SeenIn(seen, slot[filledQ[i]])
  /\ held.pc = "push" => SeenIn(seen, slot[held.id])
  /\ seen = <<>> => gate = "closed"

\* What has been received stays received, and stays within the bound.
LEMMA SeenGrows ==
  ASSUME IInv, [Next]_vars
  PROVE  /\ Len(seen) \in Nat /\ Len(seen') \in Nat /\ Len(seen) <= Len(seen')
         /\ \A e \in 1 .. Len(seen) : seen[e] \in Nat /\ seen'[e] \in Nat /\ seen[e] <= seen'[e]
         /\ \A span \in SpanType : SeenIn(seen, span) => SeenIn(seen', span)
         /\ (\A e \in 1 .. Len(seen) : seen[e] <= MaxIndex)
              => (\A e \in 1 .. Len(seen') : seen'[e] <= MaxIndex)
<1>1. seen \in Seq(Nat)
  BY DEF IInv, TypeOK
<1>2. CASE seen' = seen
  BY <1>1, <1>2 DEF SeenIn
<1>3. CASE seen' = Append(seen, 0)
  BY <1>1, <1>3, BoundAssumption DEF SeenIn, SpanType
<1>4. ASSUME NEW len \in BlockSizes, Observe(len)
      PROVE  /\ Len(seen) = Len(seen')
             /\ \A e \in 1 .. Len(seen) : seen[e] \in Nat /\ seen'[e] \in Nat /\ seen[e] <= seen'[e]
             /\ seen'[Epoch] <= MaxIndex
             /\ \A e \in 1 .. Len(seen) : e # Epoch => seen'[e] = seen[e]
  <2>1. len \in Nat
    BY SizesAssumption
  <2>2. /\ seen' = [seen EXCEPT ![Len(seen)] = @ + len] /\ seen # <<>>
        /\ seen[Len(seen)] + len <= MaxIndex
    BY <1>4 DEF Observe, Epoch, Position
  <2> QED
    BY <1>1, <2>1, <2>2 DEF Epoch
<1>5. ASSUME NEW len \in BlockSizes, Observe(len)
      PROVE  \A span \in SpanType : SeenIn(seen, span) => SeenIn(seen', span)
  BY <1>1, <1>4, <1>5 DEF SeenIn, SpanType
<1>6. CASE \E len \in BlockSizes : Observe(len)
  BY <1>1, <1>4, <1>5, <1>6 DEF Epoch
<1>7. seen' = seen \/ seen' = Append(seen, 0) \/ \E len \in BlockSizes : Observe(len)
  BY DEF Next, Control, Callback, Push, Delivery, Reader, Close, Begin, RecoverMark, RecoverPause,
     RecoverResume, ObserveOdd, TransferError, DropAtGate, PushBlock, ParkBlock, Starve, PushSpace, PushSpan,
     PushCopy, PushPublish, TakeSlot, CallBack, ReturnSlot, ReadLoad, ReadCopy, ReadDeliver, ReadFree,
     vars, timeline
<1> QED
  BY <1>2, <1>3, <1>6, <1>7
----------------------------------------------------------------------------
\* What the reader has handed over but not yet freed is still in the ring.
Going == IF rd.pc = "free" THEN rd.n ELSE 0

\* What the producer has described but not yet published is not in the ring
\* yet.
Arriving == IF push.pc \in {"copy", "publish"} THEN push.n ELSE 0

\* The pairs from the read index on that hold what their descriptor says.
Written == Used + IF push.pc = "publish" THEN push.n ELSE 0

\* The descriptors lie end to end in the ring, the first one at what is left
\* of it.
Placed(pos) ==
  /\ pos[1] = Going - offset
  /\ \A i \in 1 .. Len(spans) : pos[i + 1] = pos[i] + spans[i].len
  /\ \A i, j \in 1 .. Len(spans) + 1 : i <= j => pos[i] <= pos[j]
  /\ pos[Len(spans) + 1] = Used + Arriving

\* And the ring has what they say, as far as it is written.
Filled(pos) ==
  \A i \in 1 .. Len(spans) : \A k \in 0 .. spans[i].len - 1 :
     (i = 1 => k >= offset) /\ pos[i] + k < Written
        => cell[Ahead(r, pos[i] + k)] = Pair(spans[i], k)

\* There is a placing of the descriptors for which both are true.
Layout == \E pos \in [1 .. Len(spans) + 1 -> Int] : Placed(pos) /\ Filled(pos)

\* What is left of the block in push is a part of it, and fits what it says.
PushShape ==
  /\ push.pc \in {"span", "copy", "publish"} => push.n <= push.span.len
  /\ push.pc \in {"copy", "publish"} =>
       /\ push.n > 0 /\ spans # <<>>
       /\ spans[Len(spans)].len = push.n
       /\ spans[Len(spans)].epoch = push.span.epoch
       /\ spans[Len(spans)].first = push.span.first
  /\ spans # <<>> => offset < spans[1].len
  /\ rd.pc \in {"copy", "deliver"} => rd.n > 0

\* What the reader copied is what the first descriptor names.
Taken == rd.pc = "deliver" =>
   /\ Len(rd.out) = rd.n
   /\ \A k \in 1 .. rd.n : rd.out[k] = Pair(spans[1], offset + k - 1)

\* The layout only depends on this.
LEMMA LayoutKept ==
  ASSUME Layout, UNCHANGED <<spans, offset, r, cell>>, Going' = Going,
         (Used + Arriving)' = Used + Arriving, Written' = Written
  PROVE  Layout'
BY DEF Layout, Placed, Filled, Ahead, Pair

\* What the steps of a push do to it.
LEMMA PushKinds ==
  ASSUME IInv, Push
  PROVE  \/ /\ PushSpace /\ push.pc = "space" /\ push'.pc = "span" /\ push'.span = push.span
            /\ push'.n = Min2(push.span.len, Space)
            /\ UNCHANGED <<spans, offset, w, r, cell, pending>>
         \/ /\ PushSpan /\ push.pc = "span" /\ push'.pc = "copy" /\ push'.span = push.span
            /\ push'.n = push.n /\ push.n > 0
            /\ spans' = Append(spans, [push.span EXCEPT !.len = push.n, !.causes = @ \cup pending])
            /\ UNCHANGED <<offset, w, r, cell>>
         \/ /\ PushSpan /\ push.pc = "span" /\ push' = NoPush /\ UNCHANGED <<spans, offset, w, r, cell>>
         \/ /\ PushCopy /\ push.pc = "copy" /\ push'.pc = "publish" /\ push'.span = push.span
            /\ push'.n = push.n /\ UNCHANGED <<spans, offset, w, r, pending>>
         \/ /\ PushPublish /\ push.pc = "publish" /\ push' = NoPush
            /\ w' = Ahead(w, push.n) /\ UNCHANGED <<spans, offset, r, cell, pending>>
<1>1. push \in PushType
  BY DEF IInv, TypeOK
<1>2. CASE PushSpace
  BY <1>1, <1>2 DEF PushSpace, PushType
<1>3. CASE PushSpan
  <2>1. push.span \in SpanType
    BY <1>1 DEF PushType
  <2>2. [push.span EXCEPT !.len = push.n, !.causes = @ \cup pending] =
        [push.span EXCEPT !.len = push.n, !.causes = push.span.causes \cup pending]
    BY <2>1 DEF SpanType
  <2>3. /\ push.pc = "span" /\ UNCHANGED <<offset, w, r, cell>>
        /\ \/ /\ push.n > 0
              /\ spans' = Append(spans, [push.span EXCEPT !.len = push.n,
                                           !.causes = push.span.causes \cup pending])
              /\ push' = [push EXCEPT !.pc = "copy"]
           \/ push' = NoPush /\ UNCHANGED spans
    BY <1>3 DEF PushSpan
  <2> QED
    BY <1>1, <1>3, <2>2, <2>3 DEF PushType
<1>4. CASE PushCopy
  BY <1>1, <1>4 DEF PushCopy, PushType
<1>5. CASE PushPublish
  BY <1>5 DEF PushPublish
<1> QED
  BY <1>2, <1>3, <1>4, <1>5 DEF Push

\* The numbers of the ring, as the arithmetic steps need them.
LEMMA RingTypes ==
  ASSUME IInv
  PROVE  /\ w \in 0 .. RingPairs - 1 /\ r \in 0 .. RingPairs - 1
         /\ Used \in 0 .. RingPairs - 1 /\ Space = RingPairs - 1 - Used /\ Space \in Nat
         /\ RingPairs \in Nat \ {0}
         /\ push \in PushType /\ push.n \in Nat /\ push.span \in SpanType /\ push.span.len \in Nat
         /\ push.span.first \in Nat /\ push.span.epoch \in Nat
         /\ rd \in ReadType /\ rd.n \in Nat /\ offset \in Nat
         /\ spans \in Seq(SpanType) /\ Len(spans) \in Nat
         /\ \A i \in 1 .. Len(spans) : /\ spans[i] \in SpanType /\ spans[i].len \in Nat
                                       /\ spans[i].first \in Nat /\ spans[i].epoch \in Nat
         /\ spans # <<>> => Len(spans) >= 1 /\ Head(spans) = spans[1]
         /\ spans = <<>> => Len(spans) = 0
         /\ push.pc \in {"span", "copy", "publish"} => push.n <= Space
         /\ rd.pc \in {"copy", "deliver", "free"} => rd.n <= Used
         /\ rd.pc \in {"copy", "deliver"} => spans # <<>> /\ offset + rd.n <= spans[1].len
         /\ Going \in Nat /\ Arriving \in Nat /\ Written \in Nat /\ Going <= Used
         /\ Used <= Written /\ Written <= Used + Arriving /\ Written <= RingPairs - 1
         /\ cell \in [0 .. RingPairs - 1 -> PairType]
<1>1. /\ w \in 0 .. RingPairs - 1 /\ r \in 0 .. RingPairs - 1
      /\ push \in PushType /\ rd \in ReadType /\ offset \in Nat /\ spans \in Seq(SpanType)
      /\ cell \in [0 .. RingPairs - 1 -> PairType]
  BY DEF IInv, TypeOK
<1>2. Used \in 0 .. RingPairs - 1 /\ Space = RingPairs - 1 - Used /\ Space \in Nat
      /\ RingPairs \in Nat \ {0}
  BY <1>1, UsedInRange, RingAssumption DEF Space
<1>3. push.n \in Nat /\ push.span \in SpanType /\ rd.n \in Nat
  BY <1>1 DEF PushType, ReadType
<1>4. push.span.len \in Nat /\ push.span.first \in Nat /\ push.span.epoch \in Nat
  BY <1>3 DEF SpanType
<1>5. /\ Len(spans) \in Nat /\ \A i \in 1 .. Len(spans) : spans[i] \in SpanType
      /\ spans # <<>> => Len(spans) >= 1 /\ Head(spans) = spans[1]
      /\ spans = <<>> => Len(spans) = 0
  BY <1>1
<1>6. \A i \in 1 .. Len(spans) : spans[i].len \in Nat /\ spans[i].first \in Nat /\ spans[i].epoch \in Nat
  BY <1>5 DEF SpanType
<1>7. /\ push.pc \in {"span", "copy", "publish"} => push.n <= Space
      /\ rd.pc \in {"copy", "deliver", "free"} => rd.n <= Used
      /\ rd.pc \in {"copy", "deliver"} => spans # <<>> /\ offset + rd.n <= spans[1].len
  BY <1>5 DEF IInv, RingFits
<1>8. /\ Going \in Nat /\ Arriving \in Nat /\ Written \in Nat /\ Going <= Used
      /\ Used <= Written /\ Written <= Used + Arriving /\ Written <= RingPairs - 1
  BY <1>2, <1>3, <1>7 DEF Going, Arriving, Written
<1> QED
  BY <1>1, <1>2, <1>3, <1>4, <1>5, <1>6, <1>7, <1>8

\* A descriptor put behind the others begins where they end.
LEMMA LayoutAppend ==
  ASSUME IInv, Layout, NEW span \in SpanType, push.pc = "span", push'.pc = "copy",
         push'.n = push.n, span.len = push.n, spans' = Append(spans, span),
         UNCHANGED <<offset, w, r, cell, rd>>, spans = <<>> => offset = 0
  PROVE  Layout'
<1> DEFINE L == Len(spans)
<1>1. L \in Nat /\ spans \in Seq(SpanType) /\ push.n \in Nat /\ Used \in Nat
  BY RingTypes
<1>2. PICK pos \in [1 .. L + 1 -> Int] : Placed(pos) /\ Filled(pos)
  BY DEF Layout
<1>3. /\ Len(spans') = L + 1 /\ spans'[L + 1] = span
      /\ \A i \in 1 .. L : spans'[i] = spans[i]
  BY <1>1, AppendAt
<1>4. /\ Used' = Used /\ Going' = Going /\ Arriving = 0 /\ Arriving' = push.n
      /\ Written = Used /\ Written' = Used
  BY <1>1 DEF Used, Going, Arriving, Written
<1>a. PICK new : new = [i \in 1 .. L + 2 |-> IF i <= L + 1 THEN pos[i] ELSE pos[L + 1] + push.n]
  OBVIOUS
<1>b. L + 1 \in 1 .. L + 1 /\ pos[L + 1] \in Int /\ push.n \in Int
  BY <1>1, <1>2
<1>c. ASSUME NEW i \in 1 .. L + 2
      PROVE  (IF i <= L + 1 THEN pos[i] ELSE pos[L + 1] + push.n) \in Int
  <2>1. CASE i <= L + 1
    <3>1. i \in 1 .. L + 1
      BY <1>1, <2>1
    <3> QED
      BY <1>2, <2>1, <3>1
  <2>2. CASE ~(i <= L + 1)
    BY <1>b, <2>2
  <2> QED
    BY <2>1, <2>2
<1>5. new \in [1 .. L + 2 -> Int]
  <2> HIDE DEF L
  <2> QED
    BY <1>a, <1>c
<1>6. /\ \A i \in 1 .. L + 1 : new[i] = pos[i] /\ pos[i] \in Int
      /\ new[L + 2] = pos[L + 1] + push.n
      /\ pos[L + 1] = Used
  <2>1. \A i \in 1 .. L + 1 : new[i] = pos[i] /\ pos[i] \in Int
    BY <1>1, <1>2, <1>a
  <2>2. new[L + 2] = pos[L + 1] + push.n
    BY <1>1, <1>a
  <2>3. pos[L + 1] = Used
    BY <1>1, <1>2, <1>4 DEF Placed
  <2> QED
    BY <2>1, <2>2, <2>3
<1>7. Placed(new)'
  <2>1. new[1] = Going' - offset'
    BY <1>1, <1>2, <1>4, <1>6 DEF Placed
  <2>2. ASSUME NEW i \in 1 .. L + 1
        PROVE  new[i + 1] = new[i] + spans'[i].len
    BY <1>1, <1>2, <1>3, <1>6 DEF Placed
  <2>3. ASSUME NEW i \in 1 .. L + 2, NEW j \in 1 .. L + 2, i <= j
        PROVE  new[i] <= new[j]
    <3>1. \A a, b \in 1 .. L + 1 : a <= b => pos[a] <= pos[b]
      BY <1>2 DEF Placed
    <3>2. CASE j = L + 2
      <4>1. pos[L + 1] \in Int /\ new[j] = pos[L + 1] + push.n
        BY <1>1, <1>6, <3>2
      <4>2. CASE i = L + 2
        BY <1>1, <1>6, <3>2, <4>2
      <4>3. CASE i \in 1 .. L + 1
        <5>1. new[i] = pos[i] /\ pos[i] \in Int /\ pos[i] <= pos[L + 1]
          BY <1>1, <1>6, <3>1, <4>3
        <5> QED
          BY <1>1, <4>1, <5>1
      <4> QED
        BY <1>1, <4>2, <4>3
    <3>3. CASE j \in 1 .. L + 1
      BY <1>1, <1>6, <2>3, <3>1, <3>3
    <3> QED
      BY <1>1, <3>2, <3>3
  <2> QED
    BY <1>1, <1>3, <1>4, <1>6, <2>1, <2>2, <2>3 DEF Placed
<1>8. Filled(new)'
  <2> SUFFICES ASSUME NEW i \in 1 .. L + 1, NEW k \in 0 .. spans'[i].len - 1,
                      i = 1 => k >= offset', new[i] + k < Written'
               PROVE  cell'[Ahead(r', new[i] + k)] = Pair(spans'[i], k)
    BY <1>3 DEF Filled, Ahead, Pair
  <2>1. i # L + 1
    BY <1>1, <1>4, <1>6
  <2> QED
    BY <1>1, <1>2, <1>3, <1>4, <1>6, <2>1 DEF Filled
<1> QED
  BY <1>3, <1>5, <1>7, <1>8 DEF Layout
----------------------------------------------------------------------------
\* Distances from r: two in the ring are two places, and w is Used away.
LEMMA Distances ==
  ASSUME IInv
  PROVE  /\ \A p, q \in 0 .. RingPairs - 1 : Ahead(r, p) = Ahead(r, q) => p = q
         /\ \A p \in 0 .. RingPairs - 1 : Ahead(r, p) \in 0 .. RingPairs - 1
         /\ \A k \in 0 .. Space : Ahead(w, k) = Ahead(r, Used + k)
<1>1. /\ w \in 0 .. RingPairs - 1 /\ r \in 0 .. RingPairs - 1 /\ RingPairs \in Nat \ {0}
      /\ Used \in 0 .. RingPairs - 1 /\ Space = RingPairs - 1 - Used
  BY RingTypes
<1>2. \A p \in 0 .. RingPairs :
         /\ Ahead(r, p) = IF r + p < RingPairs THEN r + p ELSE r + p - RingPairs
         /\ Ahead(w, p) = IF w + p < RingPairs THEN w + p ELSE w + p - RingPairs
         /\ Ahead(r, p) \in 0 .. RingPairs - 1
  BY <1>1, AheadWraps
<1>3. ASSUME NEW p \in 0 .. RingPairs - 1, NEW q \in 0 .. RingPairs - 1, Ahead(r, p) = Ahead(r, q)
      PROVE  p = q
  <2>1. /\ Ahead(r, p) = IF r + p < RingPairs THEN r + p ELSE r + p - RingPairs
        /\ Ahead(r, q) = IF r + q < RingPairs THEN r + q ELSE r + q - RingPairs
    BY <1>1, <1>2
  <2>2. (IF r + p < RingPairs THEN r + p ELSE r + p - RingPairs)
          = (IF r + q < RingPairs THEN r + q ELSE r + q - RingPairs)
    BY <1>3, <2>1
  <2>3. r \in Int /\ p \in Int /\ q \in Int /\ RingPairs \in Int /\ p < RingPairs /\ q < RingPairs
        /\ p >= 0 /\ q >= 0
    BY <1>1
  <2> QED
    BY <2>2, <2>3
<1>4. ASSUME NEW k \in 0 .. Space
      PROVE  Ahead(w, k) = Ahead(r, Used + k)
  <2>1. k \in 0 .. RingPairs /\ Used + k \in 0 .. RingPairs
    BY <1>1
  <2>2. /\ Ahead(w, k) = IF w + k < RingPairs THEN w + k ELSE w + k - RingPairs
        /\ Ahead(r, Used + k) = IF r + (Used + k) < RingPairs THEN r + (Used + k) ELSE r + (Used + k) - RingPairs
    BY <1>2, <2>1
  <2>3. Used = IF w >= r THEN w - r ELSE RingPairs - r + w
    BY DEF Used
  <2> QED
    BY <1>1, <2>1, <2>2, <2>3
<1> QED
  BY <1>1, <1>2, <1>3, <1>4

\* Copying in leaves what is used, and fills the room behind it.
LEMMA CopyCells ==
  ASSUME IInv, PushCopy
  PROVE  /\ \A p \in 0 .. Used - 1 : cell'[Ahead(r, p)] = cell[Ahead(r, p)]
         /\ \A k \in 0 .. push.n - 1 : cell'[Ahead(r, Used + k)] = Pair(push.span, k)
<1>1. /\ RingPairs \in Nat \ {0} /\ Used \in 0 .. RingPairs - 1 /\ Space = RingPairs - 1 - Used
      /\ push.n \in Nat /\ push.n <= Space /\ cell \in [0 .. RingPairs - 1 -> PairType]
  BY RingTypes DEF PushCopy
<1>2. cell' = [i \in DOMAIN cell |->
                IF \E k \in 0 .. push.n - 1 : Ahead(w, k) = i
                THEN Pair(push.span, CHOOSE k \in 0 .. push.n - 1 : Ahead(w, k) = i)
                ELSE cell[i]]
  BY DEF PushCopy
<1>3. \A k \in 0 .. push.n - 1 : Ahead(w, k) = Ahead(r, Used + k) /\ Used + k \in 0 .. RingPairs - 1
  <2> SUFFICES ASSUME NEW k \in 0 .. push.n - 1
               PROVE  Ahead(w, k) = Ahead(r, Used + k) /\ Used + k \in 0 .. RingPairs - 1
    OBVIOUS
  <2>1. k \in 0 .. Space /\ Used + k \in 0 .. RingPairs - 1
    BY <1>1
  <2> QED
    BY <2>1, Distances
<1>4. ASSUME NEW p \in 0 .. Used - 1
      PROVE  cell'[Ahead(r, p)] = cell[Ahead(r, p)]
  <2>1. p \in 0 .. RingPairs - 1 /\ Ahead(r, p) \in 0 .. RingPairs - 1
    BY <1>1, Distances
  <2>2. ASSUME NEW k \in 0 .. push.n - 1 PROVE Ahead(w, k) # Ahead(r, p)
    <3>1. Used + k # p /\ Used + k \in 0 .. RingPairs - 1 /\ Ahead(w, k) = Ahead(r, Used + k)
      BY <1>1, <1>3
    <3> QED
      BY <2>1, <3>1, Distances
  <2> QED
    BY <1>1, <1>2, <2>1, <2>2
<1>5. ASSUME NEW k \in 0 .. push.n - 1
      PROVE  cell'[Ahead(r, Used + k)] = Pair(push.span, k)
  <2> DEFINE i == Ahead(r, Used + k)
             c == CHOOSE j \in 0 .. push.n - 1 : Ahead(w, j) = i
  <2>1. i \in 0 .. RingPairs - 1 /\ Ahead(w, k) = i
    BY <1>1, <1>3, Distances
  <2>2. c \in 0 .. push.n - 1 /\ Ahead(w, c) = i
    BY <2>1
  <2>3. c = k
    <3>1. Ahead(r, Used + c) = Ahead(r, Used + k) /\ Used + c \in 0 .. RingPairs - 1
          /\ Used + k \in 0 .. RingPairs - 1
      BY <1>3, <2>2
    <3>2. Used + c = Used + k
      BY <3>1, Distances
    <3> QED
      BY <1>1, <2>2, <3>2
  <2>4. cell'[i] = Pair(push.span, c)
    BY <1>1, <1>2, <2>1
  <2> QED
    BY <2>3, <2>4
<1> QED
  BY <1>4, <1>5

\* The copy writes what the last descriptor says.
LEMMA LayoutCopy ==
  ASSUME IInv, PushShape, Layout, PushCopy
  PROVE  Layout'
<1> DEFINE L == Len(spans)
<1>1. /\ push.pc = "copy" /\ push'.pc = "publish" /\ push'.n = push.n
      /\ UNCHANGED <<spans, offset, w, r, rd>>
  BY PushKinds DEF PushCopy, Push, reader, PushSpace, PushSpan, PushPublish
<1>2. /\ L \in Nat /\ L >= 1 /\ push.n \in Nat /\ Used \in Nat /\ spans[L].len = push.n
      /\ \A i \in 1 .. L : spans[i].len \in Nat
      /\ \A k \in 0 .. push.n - 1 : Pair(spans[L], k) = Pair(push.span, k)
  <2>1. spans # <<>> /\ spans[L].len = push.n
        /\ \A k \in 0 .. push.n - 1 : Pair(spans[L], k) = Pair(push.span, k)
    BY <1>1 DEF PushShape, Pair
  <2>2. L \in Nat /\ L >= 1 /\ \A i \in 1 .. L : spans[i].len \in Nat
    BY <2>1, RingTypes
  <2>3. push.n \in Nat /\ Used \in Nat
    BY RingTypes
  <2> QED
    BY <2>1, <2>2, <2>3
<1>3. PICK pos \in [1 .. L + 1 -> Int] : Placed(pos) /\ Filled(pos)
  BY DEF Layout
<1>4. /\ Used' = Used /\ Going' = Going /\ Arriving = push.n /\ Arriving' = push.n
      /\ Written = Used /\ Written' = Used + push.n
  BY <1>1, <1>2 DEF Used, Going, Arriving, Written
<1>5. Placed(pos)'
  BY <1>1, <1>3, <1>4 DEF Placed
<1>6. pos[L] = Used /\ \A i \in 1 .. L - 1 : pos[i] + spans[i].len <= Used
  <2>1. pos[L + 1] = Used + push.n
    BY <1>2, <1>3, <1>4 DEF Placed
  <2>a. pos[L + 1] = pos[L] + push.n /\ pos[L] \in Int
    BY <1>2, <1>3 DEF Placed
  <2>2. pos[L] = Used
    BY <1>2, <2>1, <2>a
  <2>3. ASSUME NEW i \in 1 .. L - 1 PROVE pos[i] + spans[i].len <= Used
    <3>1. pos[i + 1] = pos[i] + spans[i].len /\ pos[i + 1] <= pos[L]
      BY <1>2, <1>3 DEF Placed
    <3> QED
      BY <2>2, <3>1
  <2> QED
    BY <2>2, <2>3
<1>7. Filled(pos)'
  <2> SUFFICES ASSUME NEW i \in 1 .. L, NEW k \in 0 .. spans[i].len - 1,
                      i = 1 => k >= offset, pos[i] + k < Used + push.n
               PROVE  cell'[Ahead(r, pos[i] + k)] = Pair(spans[i], k)
    BY <1>1, <1>4 DEF Filled, Ahead, Pair
  <2>1. pos[i] \in Int /\ k \in Nat
    BY <1>2, <1>3
  <2>2. CASE i = L
    <3>1. k \in 0 .. push.n - 1 /\ pos[i] + k = Used + k
      BY <1>2, <1>6, <2>2
    <3> QED
      BY <1>2, <2>2, <3>1, CopyCells
  <2>3. CASE i # L
    <3>1. i \in 1 .. L - 1 /\ pos[i] + k < Used
      BY <1>2, <1>6, <2>1, <2>3
    <3>2. cell[Ahead(r, pos[i] + k)] = Pair(spans[i], k)
      BY <1>3, <1>4, <3>1 DEF Filled
    <3>3. pos[i] + k >= 0
      <4>1. pos[1] = Going - offset /\ Going \in Nat /\ offset \in Nat
        BY <1>3, RingTypes DEF Placed
      <4>2. CASE i = 1
        BY <2>1, <4>1, <4>2
      <4>3. CASE i # 1
        <5>1. pos[2] = pos[1] + spans[1].len /\ pos[2] <= pos[i]
          BY <1>2, <1>3, <4>3 DEF Placed
        <5>2. offset < spans[1].len
          BY <1>1, <1>2 DEF PushShape
        <5> QED
          BY <1>2, <1>3, <2>1, <4>1, <5>1, <5>2
      <4> QED
        BY <4>2, <4>3
    <3> QED
      BY <1>2, <2>1, <3>1, <3>2, <3>3, CopyCells
  <2> QED
    BY <2>2, <2>3
<1> QED
  BY <1>1, <1>3, <1>5, <1>7 DEF Layout
\* What the steps of a read do to it.
LEMMA ReadKinds ==
  ASSUME IInv, Reader
  PROVE  /\ UNCHANGED <<push, cell, w, pending, mode, gate, timeline, block, slots, torn>>
         /\ \/ /\ rd.pc = "idle" /\ rd'.pc = "copy" /\ UNCHANGED <<r, spans, offset, cursor, told>>
               /\ spans # <<>> /\ Used > 0
               /\ \E size \in ReadSizes :
                     rd'.n = Min2(Min2(size, Used), spans[1].len - offset)
            \/ /\ rd.pc = "copy" /\ rd'.pc = "deliver" /\ rd'.n = rd.n
               /\ rd'.out = [k \in 1 .. rd.n |-> cell[Ahead(r, k - 1)]]
               /\ UNCHANGED <<r, spans, offset, cursor, told>>
            \/ /\ rd.pc = "deliver" /\ rd'.pc = "free" /\ rd'.n = rd.n /\ UNCHANGED r
               /\ Deliver("read", Peek(rd.n), rd.out)
               /\ \/ offset + rd.n = spans[1].len /\ offset' = 0 /\ spans' = Tail(spans)
                  \/ offset + rd.n < spans[1].len /\ offset' = offset + rd.n /\ spans' = spans
            \/ /\ rd.pc = "free" /\ rd'.pc = "idle" /\ r' = Ahead(r, rd.n)
               /\ UNCHANGED <<spans, offset, cursor, told>>
<1>1. rd \in ReadType
  BY RingTypes
<1>2. ASSUME NEW size \in ReadSizes, ReadLoad(size)
      PROVE  /\ rd.pc = "idle" /\ rd'.pc = "copy" /\ spans # <<>> /\ Used > 0
             /\ rd'.n = Min2(Min2(size, Used), spans[1].len - offset)
  <2>1. spans # <<>> /\ Used > 0
    BY <1>2 DEF ReadLoad
  <2>2. Min2(size, Used) \in Nat
    BY SizesAssumption, RingTypes DEF Min2
  <2>3. Peek(Min2(size, Used)).len = Min2(Min2(size, Used), Head(spans).len - offset)
    BY <2>1, <2>2, PeekTyped DEF IInv
  <2> QED
    BY <1>2, <2>1, <2>3, RingTypes DEF ReadLoad
<1>3. CASE \E size \in ReadSizes : ReadLoad(size)
  BY <1>2, <1>3 DEF ReadLoad, ring
<1>4. CASE ReadCopy
  BY <1>1, <1>4 DEF ReadCopy, ring, ReadType
<1>5. CASE ReadDeliver
  <2>a. rd.pc = "deliver"
    BY <1>5 DEF ReadDeliver
  <2>b. /\ spans # <<>> /\ offset + rd.n <= spans[1].len /\ Head(spans) = spans[1]
        /\ offset \in Nat /\ rd.n \in Nat /\ 1 \in 1 .. Len(spans)
    BY <2>a, RingTypes
  <2>1. /\ spans # <<>> /\ offset + rd.n <= spans[1].len /\ Head(spans) = spans[1]
        /\ offset \in Nat /\ rd.n \in Nat /\ spans[1].len \in Nat
    BY <2>b, RingTypes
  <2> QED
    BY <1>1, <1>5, <2>1 DEF ReadDeliver, ReadType
<1>6. CASE ReadFree
  BY <1>6 DEF ReadFree, NoRead
<1> QED
  BY <1>3, <1>4, <1>5, <1>6 DEF Reader

\* Freed pairs leave the front of the ring when nothing describes them any
\* more.
LEMMA LayoutFree ==
  ASSUME IInv, Layout, rd.pc = "free", rd'.pc = "idle", r' = Ahead(r, rd.n),
         UNCHANGED <<spans, offset, w, push, cell>>, spans # <<>> => offset < spans[1].len
  PROVE  Layout'
<1> DEFINE L == Len(spans)
<1>1. /\ L \in Nat /\ rd.n \in Nat /\ Used \in 0 .. RingPairs - 1 /\ rd.n <= Used
      /\ r \in 0 .. RingPairs - 1 /\ w \in 0 .. RingPairs - 1 /\ RingPairs \in Nat \ {0}
      /\ Arriving \in Nat /\ Written \in Nat /\ Written <= Used + Arriving /\ offset \in Nat
      /\ \A i \in 1 .. L : spans[i].len \in Nat
      /\ push.n \in Nat
  BY RingTypes
<1>2. PICK pos \in [1 .. L + 1 -> Int] : Placed(pos) /\ Filled(pos)
  BY DEF Layout
<1>3. PICK n \in Nat : n = rd.n
  BY <1>1
<1>4. PICK new : new = [i \in 1 .. L + 1 |-> pos[i] - n]
  OBVIOUS
<1>5. new \in [1 .. L + 1 -> Int] /\ \A i \in 1 .. L + 1 : pos[i] \in Int /\ new[i] = pos[i] - n
  BY <1>2, <1>3, <1>4
<1>6. r' \in 0 .. RingPairs - 1 /\ Used' = Used - n
  BY <1>1, <1>3, FreeReturns
<1>7. /\ Going = n /\ Going' = 0 /\ Arriving' = Arriving /\ Written' = Written - n
  <2>1. Going = n /\ Going' = 0 /\ Arriving' = Arriving
    BY <1>3 DEF Going, Arriving
  <2>2. CASE push.pc = "publish"
    <3>1. Written = Used + push.n /\ Written' = Used' + push.n
      BY <2>2 DEF Written
    <3>2. push.n \in Nat /\ Used \in Nat /\ n \in Nat
      BY <1>1
    <3> QED
      BY <1>6, <2>1, <3>1, <3>2
  <2>3. CASE push.pc # "publish"
    <3>1. Written = Used + 0 /\ Written' = Used' + 0
      BY <2>3 DEF Written
    <3>2. Used \in Nat /\ n \in Nat
      BY <1>1
    <3> QED
      BY <1>6, <2>1, <3>1, <3>2
  <2> QED
    BY <2>2, <2>3
<1>8. Placed(new)'
  <2>1. new[1] = 0 - offset
    BY <1>1, <1>2, <1>5, <1>7 DEF Placed
  <2>2. \A i \in 1 .. L : new[i + 1] = new[i] + spans[i].len
    <3> SUFFICES ASSUME NEW i \in 1 .. L PROVE new[i + 1] = new[i] + spans[i].len
      OBVIOUS
    <3>1. pos[i + 1] = pos[i] + spans[i].len
      BY <1>2 DEF Placed
    <3>2. i \in 1 .. L + 1 /\ i + 1 \in 1 .. L + 1 /\ spans[i].len \in Nat
      BY <1>1
    <3>3. /\ pos[i] \in Int /\ new[i] = pos[i] - n
          /\ pos[i + 1] \in Int /\ new[i + 1] = pos[i + 1] - n
      BY <1>5, <3>2
    <3> QED
      BY <3>1, <3>2, <3>3
  <2>3. \A i, j \in 1 .. L + 1 : i <= j => new[i] <= new[j]
    <3> SUFFICES ASSUME NEW i \in 1 .. L + 1, NEW j \in 1 .. L + 1, i <= j PROVE new[i] <= new[j]
      OBVIOUS
    <3>1. pos[i] <= pos[j]
      BY <1>2 DEF Placed
    <3>2. /\ pos[i] \in Int /\ new[i] = pos[i] - n
          /\ pos[j] \in Int /\ new[j] = pos[j] - n
      BY <1>5
    <3> QED
      BY <3>1, <3>2
  <2>4. new[L + 1] = Used' + Arriving'
    <3>1. pos[L + 1] = Used + Arriving
      BY <1>2 DEF Placed
    <3>2. L + 1 \in 1 .. L + 1
      BY <1>1
    <3>3. new[L + 1] = pos[L + 1] - n
      BY <1>5, <3>2
    <3> QED
      BY <1>1, <1>6, <1>7, <3>1, <3>3
  <2> QED
    BY <1>7, <2>1, <2>2, <2>3, <2>4 DEF Placed
<1>9. Filled(new)'
  <2> SUFFICES ASSUME NEW i \in 1 .. L, NEW k \in 0 .. spans[i].len - 1,
                      i = 1 => k >= offset, new[i] + k < Written - n
               PROVE  cell[Ahead(r', new[i] + k)] = Pair(spans[i], k)
    BY <1>7 DEF Filled, Ahead, Pair
  <2>a. k \in Nat /\ i \in 1 .. L + 1 /\ Written \in Nat
    BY <1>1
  <2>b. pos[i] \in Int /\ new[i] = pos[i] - n
    BY <1>5, <2>a
  <2>c. pos[i] + k < Written
    BY <2>a, <2>b
  <2>1. k \in Nat /\ pos[i] \in Int /\ new[i] = pos[i] - n /\ pos[i] + k < Written
    BY <2>a, <2>b, <2>c
  <2>2. cell[Ahead(r, pos[i] + k)] = Pair(spans[i], k)
    BY <1>2, <2>1 DEF Filled
  <2>3. pos[i] + k >= n
    <3>1. pos[1] = n - offset
      BY <1>2, <1>7 DEF Placed
    <3>2. CASE i = 1
      <4>1. k >= offset /\ pos[i] = n - offset
        BY <3>1, <3>2
      <4> QED
        BY <1>1, <2>1, <4>1
    <3>3. CASE i # 1
      <4>1. /\ 1 \in 1 .. L /\ 2 \in 1 .. L + 1 /\ 1 \in 1 .. L + 1 /\ i \in 1 .. L + 1 /\ 2 <= i
            /\ L # 0
        BY <1>1, <3>3
      <4>2. pos[1 + 1] = pos[1] + spans[1].len /\ pos[2] <= pos[i]
        BY <1>2, <4>1 DEF Placed
      <4>3. offset < spans[1].len
        BY <4>1, RingTypes
      <4>4. pos[1] \in Int /\ pos[2] \in Int /\ spans[1].len \in Nat
        BY <1>1, <1>5, <4>1
      <4>5. pos[2] = pos[1] + spans[1].len /\ n \in Nat /\ offset \in Nat
        BY <1>1, <4>2
      <4> QED
        BY <2>1, <3>1, <4>2, <4>3, <4>4, <4>5
    <3> QED
      BY <3>2, <3>3
  <2>4. Ahead(r', new[i] + k) = Ahead(r, pos[i] + k)
    <3>1. PICK p \in Nat : p = pos[i] + k
      BY <1>1, <2>1, <2>3
    <3>2. p \in 0 .. RingPairs /\ p - n \in 0 .. RingPairs /\ n \in 0 .. RingPairs
          /\ new[i] + k = p - n /\ n <= p /\ p <= RingPairs - 1
      <4>1. Written <= RingPairs - 1 /\ RingPairs \in Nat /\ Written \in Nat
        BY <1>1, RingTypes
      <4>2. p < Written /\ n <= p /\ new[i] + k = p - n
        BY <2>1, <2>3, <3>1
      <4> QED
        BY <4>1, <4>2
    <3>3. /\ Ahead(r, n) = IF r + n < RingPairs THEN r + n ELSE r + n - RingPairs
          /\ Ahead(r, p) = IF r + p < RingPairs THEN r + p ELSE r + p - RingPairs
      BY <1>1, <3>2, AheadWraps
    <3>4. Ahead(r', p - n) = IF r' + (p - n) < RingPairs THEN r' + (p - n) ELSE r' + (p - n) - RingPairs
      BY <1>6, <3>2, AheadWraps
    <3>5. r' = IF r + n < RingPairs THEN r + n ELSE r + n - RingPairs
      BY <1>3, <3>3
    <3>6. RingPairs \in Nat /\ r \in Nat /\ r < RingPairs
      BY <1>1
    <3>7. Ahead(r', p - n) = Ahead(r, p)
      <4>1. CASE r + n < RingPairs
        <5>1. r' = r + n
          BY <3>5, <4>1
        <5>2. r' + (p - n) = r + p
          BY <3>2, <3>6, <5>1
        <5> QED
          BY <3>2, <3>3, <3>4, <3>6, <4>1, <5>1, <5>2
      <4>2. CASE ~(r + n < RingPairs)
        <5>1. r' = r + n - RingPairs
          BY <3>5, <4>2
        <5>2. r' + (p - n) = r + p - RingPairs /\ ~(r + p < RingPairs) /\ r + p - RingPairs < RingPairs
          BY <3>2, <3>6, <4>2, <5>1
        <5> QED
          BY <3>3, <3>4, <5>2
      <4> QED
        BY <4>1, <4>2
    <3> QED
      BY <3>1, <3>2, <3>7
  <2> QED
    BY <2>2, <2>4
<1> QED
  BY <1>5, <1>8, <1>9 DEF Layout

\* A part of the first descriptor handed over leaves the rest in place.
LEMMA LayoutPart ==
  ASSUME IInv, Layout, rd.pc = "deliver", rd'.pc = "free", rd'.n = rd.n,
         offset' = offset + rd.n, UNCHANGED <<spans, r, w, push, cell>>
  PROVE  Layout'
<1> DEFINE L == Len(spans)
<1>1. L \in Nat /\ rd.n \in Nat /\ offset \in Nat
  BY RingTypes
<1>2. PICK pos \in [1 .. L + 1 -> Int] : Placed(pos) /\ Filled(pos)
  BY DEF Layout
<1>3. /\ Used' = Used /\ Going = 0 /\ Going' = rd.n /\ Arriving' = Arriving /\ Written' = Written
  BY DEF Used, Going, Arriving, Written
<1>4. pos[1] = Going' - offset'
  <2>1. pos[1] = 0 - offset
    BY <1>2, <1>3 DEF Placed
  <2> QED
    BY <1>1, <1>3, <2>1
<1>5. Placed(pos)'
  BY <1>2, <1>3, <1>4 DEF Placed
<1>6. Filled(pos)'
  <2> SUFFICES ASSUME NEW i \in 1 .. L, NEW k \in 0 .. spans[i].len - 1,
                      i = 1 => k >= offset + rd.n, pos[i] + k < Written
               PROVE  cell[Ahead(r, pos[i] + k)] = Pair(spans[i], k)
    BY <1>3 DEF Filled, Ahead, Pair
  <2>1. spans[i].len \in Nat
    BY RingTypes
  <2>2. k \in Nat
    BY <2>1
  <2>3. i = 1 => k >= offset
    BY <1>1, <2>2
  <2> QED
    BY <1>2, <2>3 DEF Filled
<1> QED
  BY <1>2, <1>5, <1>6 DEF Layout

\* The first descriptor handed over whole leaves the second as the first.
LEMMA LayoutWhole ==
  ASSUME IInv, Layout, rd.pc = "deliver", rd'.pc = "free", rd'.n = rd.n, spans # <<>>,
         offset + rd.n = spans[1].len, offset' = 0, spans' = Tail(spans),
         UNCHANGED <<r, w, push, cell>>
  PROVE  Layout'
<1> DEFINE L == Len(spans)
<1>1. /\ L \in Nat \ {0} /\ rd.n \in Nat /\ offset \in Nat /\ spans[1].len \in Nat
      /\ spans \in Seq(SpanType)
  BY RingTypes
<1>2. PICK pos \in [1 .. L + 1 -> Int] : Placed(pos) /\ Filled(pos)
  BY DEF Layout
<1>3. /\ Used' = Used /\ Going = 0 /\ Going' = rd.n /\ Arriving' = Arriving /\ Written' = Written
  BY DEF Used, Going, Arriving, Written
<1>4. Len(spans') = L - 1 /\ \A i \in 1 .. L - 1 : spans'[i] = spans[i + 1]
  BY <1>1, TailAt
<1>5. PICK new : new = [i \in 1 .. L |-> pos[i + 1]]
  OBVIOUS
<1>6. /\ new \in [1 .. L -> Int]
      /\ \A i \in 1 .. L : new[i] = pos[i + 1] /\ pos[i + 1] \in Int /\ i + 1 \in 1 .. L + 1
  <2>1. \A i \in 1 .. L : i + 1 \in 1 .. L + 1
    BY <1>1
  <2>2. \A i \in 1 .. L : pos[i + 1] \in Int
    BY <1>2, <2>1
  <2> QED
    BY <1>5, <2>1, <2>2
<1>7. Placed(new)'
  <2>1. new[1] = rd.n
    <3>1. pos[1] = 0 - offset /\ pos[1 + 1] = pos[1] + spans[1].len
      BY <1>1, <1>2, <1>3 DEF Placed
    <3>2. new[1] = pos[1 + 1]
      BY <1>1, <1>6
    <3> QED
      BY <1>1, <3>1, <3>2
  <2>2. ASSUME NEW i \in 1 .. L - 1 PROVE new[i + 1] = new[i] + spans'[i].len
    <3>1. i \in 1 .. L /\ i + 1 \in 1 .. L
      BY <1>1
    <3>2. pos[(i + 1) + 1] = pos[i + 1] + spans[i + 1].len
      BY <1>2, <3>1 DEF Placed
    <3> QED
      BY <1>4, <1>6, <3>1, <3>2
  <2>3. ASSUME NEW i \in 1 .. L, NEW j \in 1 .. L, i <= j PROVE new[i] <= new[j]
    <3>1. i + 1 <= j + 1 /\ i + 1 \in 1 .. L + 1 /\ j + 1 \in 1 .. L + 1
      BY <1>1, <2>3
    <3>2. pos[i + 1] <= pos[j + 1]
      BY <1>2, <3>1 DEF Placed
    <3> QED
      BY <1>6, <3>2
  <2>4. new[L] = Used + Arriving
    BY <1>1, <1>2, <1>6 DEF Placed
  <2>5. Len(spans') + 1 = L
    BY <1>1, <1>4
  <2>6. new[1] = Going' - offset'
    BY <1>1, <1>3, <2>1
  <2> QED
    BY <1>3, <1>4, <2>2, <2>3, <2>4, <2>5, <2>6 DEF Placed
<1>8. Filled(new)'
  <2>1. ASSUME NEW i \in 1 .. Len(spans'), NEW k \in 0 .. spans'[i].len - 1, new[i] + k < Written'
        PROVE  cell'[Ahead(r', new[i] + k)] = Pair(spans'[i], k)
    <3>1. i \in 1 .. L - 1 /\ i + 1 \in 1 .. L /\ i + 1 # 1 /\ new[i] = pos[i + 1]
      BY <1>1, <1>4, <1>6
    <3>2. spans'[i] = spans[i + 1]
      BY <1>4, <3>1
    <3>3. pos[i + 1] + k < Written /\ k \in 0 .. spans[i + 1].len - 1
      BY <1>3, <2>1, <3>1, <3>2
    <3>4. cell[Ahead(r, pos[i + 1] + k)] = Pair(spans[i + 1], k)
      BY <1>2, <3>1, <3>3 DEF Filled
    <3> QED
      BY <3>1, <3>2, <3>4 DEF Ahead
  <2> QED
    BY <2>1 DEF Filled, Ahead, Pair
<1>9. Len(spans') + 1 = L
  BY <1>1, <1>4
<1> QED
  BY <1>6, <1>7, <1>8, <1>9 DEF Layout

\* Publishing makes written pairs used.
LEMMA LayoutPublish ==
  ASSUME IInv, Layout, push.pc = "publish", push' = NoPush, w' = Ahead(w, push.n),
         UNCHANGED <<spans, offset, r, cell, rd>>
  PROVE  Layout'
<1>1. /\ w \in 0 .. RingPairs - 1 /\ r \in 0 .. RingPairs - 1 /\ push.n \in Nat /\ push.n <= Space
      /\ Used \in Nat
  BY RingTypes
<1>2. Used' = Used + push.n
  BY <1>1, PublishUses
<1>3. Arriving = push.n /\ Arriving' = 0 /\ Written = Used + push.n /\ Written' = Used' + 0 /\ Going' = Going
  BY DEF Arriving, Written, Going, NoPush
<1>4. (Used + Arriving)' = Used + Arriving /\ Written' = Written
  BY <1>1, <1>2, <1>3
<1> QED
  BY <1>3, <1>4, LayoutKept

\* Which actions change what.
LEMMA Frames ==
  ASSUME [Next]_vars
  PROVE  /\ block' = block \/ block' = NoBlock \/ \E len \in BlockSizes : Observe(len)
         /\ UNCHANGED <<push>> \/ Push \/ PushBlock \/ TakeSlot
         /\ UNCHANGED <<spans, offset>> \/ PushSpan \/ ReadDeliver
         /\ UNCHANGED <<filledQ, slot>> \/ ParkBlock \/ TakeSlot \/ ReturnSlot
         /\ UNCHANGED held \/ TakeSlot \/ CallBack \/ ReturnSlot
         /\ UNCHANGED rd \/ Reader
         /\ UNCHANGED <<r, w, cell>> \/ PushCopy \/ PushPublish \/ ReadFree
         /\ gate' = "closed" \/ gate # "closed" \/ gate' = gate \/ Begin
         /\ UNCHANGED <<cursor, told>> \/ CallBack \/ ReadDeliver
<1>1. CASE Control
  BY <1>1 DEF Control, Close, Begin, RecoverMark, RecoverPause, RecoverResume, ring, slots, reader, timeline
<1>2. CASE Callback
  BY <1>2 DEF Callback, Observe, ObserveOdd, TransferError, DropAtGate, PushBlock, ParkBlock, Starve, ring,
              slots, reader, timeline
<1>3. CASE Push
  BY <1>3 DEF Push, PushSpace, PushSpan, PushCopy, PushPublish, slots, reader
<1>4. CASE Delivery
  BY <1>4 DEF Delivery, TakeSlot, CallBack, ReturnSlot, ring, reader
<1>5. CASE Reader
  BY <1>5 DEF Reader, ReadLoad, ReadCopy, ReadDeliver, ReadFree, ring, slots, timeline
<1>6. CASE UNCHANGED vars
  BY <1>6 DEF vars, ring, slots, reader, timeline
<1> QED
  BY <1>1, <1>2, <1>3, <1>4, <1>5, <1>6 DEF Next

\* Spans are cut, joined behind and dropped, never stretched past what was
\* received.
LEMMA ObservedStep ==
  ASSUME IInv, SlotsApart, PushShape, Observed, [Next]_vars PROVE Observed'
<1>1. /\ freeQ \in Seq(Slots) /\ filledQ \in Seq(Slots) /\ slot \in [Slots -> SpanType]
      /\ held \in HeldType /\ push \in PushType /\ block \in SpanType /\ seen \in Seq(Nat)
      /\ spans \in Seq(SpanType) /\ push.span \in SpanType
      /\ held.pc # "idle" => held.id \in Slots
  BY DEF IInv, TypeOK, PushType, SlotsApart, RingFits, HeldType
<1>2. ASSUME NEW span \in SpanType, SeenIn(seen, span) PROVE SeenIn(seen', span)
  BY <1>2, SeenGrows
<1>3. \A e \in 1 .. Len(seen') : seen'[e] <= MaxIndex
  BY SeenGrows DEF Observed
<1>4. block' # NoBlock => SeenIn(seen', block')
  <2>1. CASE block' = block \/ block' = NoBlock
    BY <1>1, <1>2, <2>1 DEF Observed
  <2>2. ASSUME NEW len \in BlockSizes, Observe(len) PROVE SeenIn(seen', block')
    <3>1. len \in Nat /\ len > 0
      BY SizesAssumption
    <3>2. /\ seen' = [seen EXCEPT ![Len(seen)] = @ + len] /\ seen # <<>>
          /\ block' = [epoch |-> Len(seen), first |-> seen[Len(seen)], len |-> len, gaps |-> gaps,
                       causes |-> causes, torn |-> torn]
      BY <2>2 DEF Observe, Epoch, Position
    <3>3. Len(seen) \in 1 .. Len(seen) /\ seen[Len(seen)] \in Nat
      BY <1>1, <3>2
    <3>4. Len(seen') = Len(seen) /\ seen'[Len(seen)] = seen[Len(seen)] + len
      BY <1>1, <3>2, <3>3
    <3> QED
      BY <3>1, <3>2, <3>3, <3>4 DEF SeenIn
  <2> QED
    BY <2>1, <2>2, Frames
<1>5. push'.pc # "idle" => SeenIn(seen', push'.span)
  <2>1. CASE UNCHANGED push
    BY <1>1, <1>2, <2>1 DEF Observed
  <2>2. CASE Push
    <3>1. push.pc # "idle" /\ (push'.pc = "idle" \/ push'.span = push.span)
      BY <2>2, PushKinds DEF NoPush
    <3> QED
      BY <1>1, <1>2, <3>1 DEF Observed
  <2>3. CASE PushBlock
    BY <1>1, <1>2, <2>3 DEF PushBlock, Observed
  <2>4. CASE TakeSlot
    <3>1. filledQ # <<>> /\ push'.span = slot[Head(filledQ)]
      BY <2>4 DEF TakeSlot
    <3>2. Head(filledQ) = filledQ[1] /\ 1 \in 1 .. Len(filledQ) /\ filledQ[1] \in Slots
      BY <1>1, <3>1, TailAt
    <3> QED
      BY <1>1, <1>2, <3>1, <3>2 DEF Observed
  <2> QED
    BY <2>1, <2>2, <2>3, <2>4, Frames
<1>6. \A i \in 1 .. Len(spans') : SeenIn(seen', spans'[i])
  <2>1. \A i \in 1 .. Len(spans) : spans[i] \in SpanType /\ SeenIn(seen', spans[i])
    BY <1>1, <1>2 DEF Observed
  <2>2. CASE spans' = spans
    BY <2>1, <2>2
  <2>3. CASE spans # <<>> /\ spans' = Tail(spans)
    BY <1>1, <2>1, <2>3, TailAt
  <2>4. CASE PushSpan /\ spans' # spans
    <3>1. PICK span \in SpanType :
             /\ span = [push.span EXCEPT !.len = push.n, !.causes = @ \cup pending]
             /\ spans' = Append(spans, span) /\ push.pc = "span" /\ push.n > 0
      <4>1. /\ spans' = Append(spans, [push.span EXCEPT !.len = push.n, !.causes = @ \cup pending])
            /\ push.pc = "span" /\ push.n > 0
        BY <2>4, PushKinds DEF Push
      <4>2. push.n \in Nat /\ pending \in SUBSET LossCauses
        BY RingTypes DEF IInv, TypeOK
      <4>3. [push.span EXCEPT !.len = push.n, !.causes = @ \cup pending] \in SpanType
        BY <1>1, <4>2 DEF SpanType
      <4> QED
        BY <4>1, <4>3
    <3>2. SeenIn(seen', span)
      <4>1. SeenIn(seen', push.span) /\ push.n <= push.span.len /\ push.n \in Nat /\ push.span.len \in Nat
            /\ push.span.first \in Nat
        BY <1>1, <1>2, <3>1, RingTypes DEF Observed, PushShape
      <4>2. span.epoch = push.span.epoch /\ span.first = push.span.first /\ span.len = push.n
        BY <1>1, <3>1 DEF SpanType
      <4>3. push.span.epoch \in 1 .. Len(seen') /\ push.span.first + push.span.len <= seen'[push.span.epoch]
        BY <4>1 DEF SeenIn
      <4>4. seen'[push.span.epoch] \in Nat
        <5>1. push.span.epoch \in 1 .. Len(seen)
          BY <3>1 DEF Observed, SeenIn
        <5> QED
          BY <5>1, SeenGrows
      <4> QED
        BY <3>1, <4>1, <4>2, <4>3, <4>4 DEF SeenIn
    <3>3. /\ Len(Append(spans, span)) = Len(spans) + 1 /\ Append(spans, span)[Len(spans) + 1] = span
          /\ \A i \in 1 .. Len(spans) : Append(spans, span)[i] = spans[i]
          /\ Len(spans) \in Nat
      BY <1>1, <3>1, AppendAt
    <3> QED
      BY <2>1, <3>1, <3>2, <3>3
  <2>5. spans' = spans \/ (spans # <<>> /\ spans' = Tail(spans)) \/ (PushSpan /\ spans' # spans)
    <3>1. ReadDeliver => spans' = spans \/ (spans # <<>> /\ spans' = Tail(spans))
      BY RingTypes DEF ReadDeliver
    <3> QED
      BY <3>1, Frames
  <2> QED
    BY <2>2, <2>3, <2>4, <2>5
<1>7. \A i \in 1 .. Len(filledQ') : SeenIn(seen', slot'[filledQ'[i]])
  <2>1. \A i \in 1 .. Len(filledQ) : filledQ[i] \in Slots /\ SeenIn(seen', slot[filledQ[i]])
    BY <1>1, <1>2 DEF Observed
  <2>2. CASE UNCHANGED <<filledQ, slot>>
    BY <2>1, <2>2
  <2>3. CASE ParkBlock
    <3>1. /\ freeQ # <<>> /\ block # NoBlock /\ filledQ' = Append(filledQ, Head(freeQ))
          /\ slot' = [slot EXCEPT ![Head(freeQ)] = block]
      BY <2>3 DEF ParkBlock
    <3>2. Head(freeQ) = freeQ[1] /\ 1 \in 1 .. Len(freeQ) /\ freeQ[1] \in Slots
      BY <1>1, <3>1, TailAt
    <3>3. \A i \in 1 .. Len(filledQ) : slot'[filledQ[i]] = slot[filledQ[i]]
      BY <1>1, <2>1, <3>1, <3>2 DEF SlotsApart
    <3>4. SeenIn(seen', slot'[Head(freeQ)])
      BY <1>1, <1>2, <3>1, <3>2 DEF Observed
    <3> QED
      BY <1>1, <2>1, <3>1, <3>2, <3>3, <3>4, AppendAt
  <2>4. CASE TakeSlot
    <3>1. filledQ # <<>> /\ filledQ' = Tail(filledQ) /\ slot' = slot
      BY <2>4 DEF TakeSlot
    <3> QED
      BY <1>1, <2>1, <3>1, TailAt
  <2>5. CASE ReturnSlot
    <3>1. /\ held.pc = "return" /\ filledQ' = filledQ /\ slot' = [slot EXCEPT ![held.id] = NoBlock]
      BY <2>5 DEF ReturnSlot
    <3>2. \A i \in 1 .. Len(filledQ) : slot'[filledQ[i]] = slot[filledQ[i]]
      BY <1>1, <2>1, <3>1 DEF SlotsApart
    <3> QED
      BY <2>1, <3>1, <3>2
  <2> QED
    BY <2>2, <2>3, <2>4, <2>5, Frames
<1>8. held'.pc = "push" => SeenIn(seen', slot'[held'.id])
  <2>1. CASE UNCHANGED <<held, slot>>
    BY <1>1, <1>2, <2>1 DEF Observed
  <2>2. CASE ParkBlock
    <3>1. /\ freeQ # <<>> /\ held' = held /\ slot' = [slot EXCEPT ![Head(freeQ)] = block]
      BY <2>2 DEF ParkBlock
    <3>2. Head(freeQ) = freeQ[1] /\ 1 \in 1 .. Len(freeQ) /\ freeQ[1] \in Slots
      BY <1>1, <3>1, TailAt
    <3>3. held.pc = "push" => slot'[held.id] = slot[held.id]
      BY <1>1, <3>1, <3>2 DEF SlotsApart
    <3> QED
      BY <1>1, <1>2, <3>1, <3>3 DEF Observed
  <2>3. CASE TakeSlot
    <3>1. /\ filledQ # <<>> /\ held'.id = Head(filledQ) /\ slot' = slot
      BY <2>3 DEF TakeSlot
    <3>2. Head(filledQ) = filledQ[1] /\ 1 \in 1 .. Len(filledQ) /\ filledQ[1] \in Slots
      BY <1>1, <3>1, TailAt
    <3> QED
      BY <1>1, <1>2, <3>1, <3>2 DEF Observed
  <2>4. CASE CallBack \/ ReturnSlot
    BY <1>1, <2>4 DEF CallBack, ReturnSlot, HeldType
  <2> QED
    BY <2>1, <2>2, <2>3, <2>4, Frames
<1>9. seen' = <<>> => gate' = "closed"
  <2> SUFFICES ASSUME seen' = <<>> PROVE gate' = "closed"
    OBVIOUS
  <2>1. Len(seen') = 0 /\ Len(seen) = 0
    BY SeenGrows
  <2>2. gate = "closed" /\ seen = <<>>
    BY <1>1, <2>1, AtInside DEF Observed
  <2>3. ~Begin
    <3>1. Len(Append(seen, 0)) = Len(seen) + 1
      BY <1>1
    <3>2. Begin => seen' = Append(seen, 0)
      BY DEF Begin
    <3> QED
      BY <2>1, <3>1, <3>2
  <2> QED
    BY <2>2, <2>3, Frames
<1> QED
  BY <1>3, <1>4, <1>5, <1>6, <1>7, <1>8, <1>9 DEF Observed

\* The producer takes its block in parts.
LEMMA PushShapeStep ==
  ASSUME IInv, Roles, Observed, PushShape, Layout, [Next]_vars PROVE PushShape'
<1>1. /\ push \in PushType /\ push.span \in SpanType /\ spans \in Seq(SpanType)
      /\ push.n \in Nat /\ Used \in Nat /\ Space \in Nat /\ rd \in ReadType
      /\ push.span.len \in Nat /\ Len(spans) \in Nat /\ offset \in Nat
      /\ spans = <<>> => offset = 0
  BY RingTypes DEF IInv, RingFits
<1>2. push'.pc \in {"span", "copy", "publish"} => push'.n <= push'.span.len
  <2>1. CASE UNCHANGED push
    BY <2>1 DEF PushShape
  <2>2. CASE Push
    <3>1. \/ push'.span = push.span /\ push'.n = Min2(push.span.len, Space)
          \/ push.pc \in {"span", "copy"} /\ push'.span = push.span /\ push'.n = push.n
          \/ push' = NoPush
      BY <2>2, PushKinds
    <3>2. Min2(push.span.len, Space) <= push.span.len
      BY <1>1 DEF Min2
    <3> QED
      BY <3>1, <3>2 DEF PushShape, NoPush
  <2>3. CASE PushBlock \/ TakeSlot
    BY <2>3 DEF PushBlock, TakeSlot
  <2> QED
    BY <2>1, <2>2, <2>3, Frames
<1>3. push'.pc \in {"copy", "publish"} =>
       /\ push'.n > 0 /\ spans' # <<>>
       /\ spans'[Len(spans')].len = push'.n
       /\ spans'[Len(spans')].epoch = push'.span.epoch
       /\ spans'[Len(spans')].first = push'.span.first
  <2>1. CASE UNCHANGED <<push, spans>>
    BY <2>1 DEF PushShape
  <2>2. CASE PushBlock \/ TakeSlot
    BY <2>2 DEF PushBlock, TakeSlot
  <2>3. CASE Push
    <3>1. ASSUME spans' = Append(spans, [push.span EXCEPT !.len = push.n, !.causes = @ \cup pending]),
                 push'.span = push.span, push'.n = push.n, push.n > 0
          PROVE  /\ push'.n > 0 /\ spans' # <<>>
                 /\ spans'[Len(spans')].len = push'.n
                 /\ spans'[Len(spans')].epoch = push'.span.epoch
                 /\ spans'[Len(spans')].first = push'.span.first
      <4> DEFINE last == [push.span EXCEPT !.len = push.n, !.causes = @ \cup pending]
      <4>1. /\ last \in SpanType /\ last.len = push.n /\ last.epoch = push.span.epoch
            /\ last.first = push.span.first
        <5>1. pending \in SUBSET LossCauses
          BY DEF IInv, TypeOK
        <5> QED
          BY <1>1, <5>1 DEF SpanType
      <4> HIDE DEF last
      <4>2. spans' # <<>> /\ spans'[Len(spans')] = last
        BY <1>1, <3>1, <4>1, AppendAt DEF last
      <4> QED
        BY <3>1, <4>1, <4>2
    <3>2. \/ push'.pc \notin {"copy", "publish"}
          \/ /\ push.pc = "copy" /\ push'.span = push.span /\ push'.n = push.n /\ spans' = spans
          \/ /\ spans' = Append(spans, [push.span EXCEPT !.len = push.n, !.causes = @ \cup pending])
             /\ push'.span = push.span /\ push'.n = push.n /\ push.n > 0
      BY <2>3, PushKinds DEF NoPush
    <3> QED
      BY <3>1, <3>2 DEF PushShape
  <2>4. CASE ReadDeliver /\ spans' # spans
    <3>1. push' = push /\ rd.pc = "deliver"
      BY <2>4 DEF ReadDeliver
    <3>2. spans # <<>> /\ spans' = Tail(spans) /\ offset + rd.n = spans[1].len /\ rd.n <= Used /\ rd.n > 0
      BY <2>4, <3>1, RingTypes DEF ReadDeliver, PushShape
    <3> SUFFICES ASSUME push.pc \in {"copy", "publish"}
                 PROVE  spans' # <<>> /\ spans'[Len(spans')] = spans[Len(spans)]
      BY <3>1 DEF PushShape
    <3>3. PICK pos \in [1 .. Len(spans) + 1 -> Int] : Placed(pos)
      BY DEF Layout
    <3>4. Len(spans) # 1
      <4> SUFFICES ASSUME Len(spans) = 1 PROVE FALSE
        OBVIOUS
      <4>1. pos[1] = Going - offset /\ pos[1 + 1] = pos[1] + spans[1].len /\ pos[1 + 1] = Used + Arriving
        BY <3>3 DEF Placed
      <4>2. Going = 0 /\ Arriving = push.n /\ spans[1].len = push.n /\ push.n > 0
        BY <3>1 DEF Going, Arriving, PushShape
      <4>3. rd.n \in Nat
        BY <1>1 DEF ReadType
      <4>4. 0 - offset + push.n = Used + push.n /\ offset + rd.n = push.n
        BY <3>2, <4>1, <4>2
      <4> QED
        BY <1>1, <3>2, <4>3, <4>4
    <3>5. Tail(spans) # <<>> /\ Len(Tail(spans)) = Len(spans) - 1 /\ Len(spans) \in Nat \ {0, 1}
          /\ \A i \in 1 .. Len(spans) - 1 : Tail(spans)[i] = spans[i + 1]
      BY <1>1, <3>2, <3>4, TailAt
    <3>6. Tail(spans)[Len(spans) - 1] = spans[Len(spans)]
      BY <3>5
    <3> QED
      BY <3>2, <3>5, <3>6
  <2>5. ReadDeliver => push' = push
    BY DEF ReadDeliver
  <2>6. PushSpan => Push
    BY DEF Push
  <2> QED
    BY <2>1, <2>2, <2>3, <2>4, <2>5, <2>6, Frames
<1>4. spans' # <<>> => offset' < spans'[1].len
  <2>1. CASE UNCHANGED <<spans, offset>>
    BY <2>1 DEF PushShape
  <2>2. CASE PushSpan /\ spans' # spans
    <3>1. /\ spans' = Append(spans, [push.span EXCEPT !.len = push.n, !.causes = @ \cup pending])
          /\ offset' = offset /\ push.n > 0
      BY <2>2, PushKinds DEF Push
    <3> DEFINE last == [push.span EXCEPT !.len = push.n, !.causes = @ \cup pending]
    <3>2. last \in SpanType /\ last.len = push.n
      <4>1. pending \in SUBSET LossCauses
        BY DEF IInv, TypeOK
      <4> QED
        BY <1>1, <4>1 DEF SpanType
    <3> HIDE DEF last
    <3>3. spans' = Append(spans, last)
      BY <3>1 DEF last
    <3>4. CASE spans = <<>>
      <4>1. spans'[1] = last
        BY <3>2, <3>3, <3>4
      <4> QED
        BY <1>1, <3>1, <3>2, <3>4, <4>1
    <3>5. CASE spans # <<>>
      <4>1. 1 \in 1 .. Len(spans)
        BY <1>1, <3>5, TailAt
      <4>2. spans'[1] = spans[1]
        BY <1>1, <3>2, <3>3, <4>1, AppendAt
      <4> QED
        BY <3>1, <3>5, <4>2 DEF PushShape
    <3> QED
      BY <3>4, <3>5
  <2>3. CASE PushSpan /\ spans' = spans
    BY <2>1, <2>3 DEF PushSpan
  <2>4. CASE ReadDeliver
    <3>1. rd.pc = "deliver"
      BY <2>4 DEF ReadDeliver
    <3>2. spans # <<>> /\ rd.n > 0 /\ rd.n \in Nat /\ offset + rd.n <= spans[1].len /\ 1 \in 1 .. Len(spans)
          /\ Head(spans) = spans[1]
      BY <3>1, RingTypes DEF PushShape
    <3>3. spans[1].len \in Nat
      BY <3>2, RingTypes
    <3>4. \/ offset' = 0 /\ spans' = Tail(spans)
          \/ offset' = offset + rd.n /\ spans' = spans /\ offset + rd.n # spans[1].len
      BY <2>4, <3>2 DEF ReadDeliver
    <3>5. CASE offset' = 0 /\ spans' = Tail(spans)
      <4> SUFFICES ASSUME spans' # <<>> PROVE offset' < spans'[1].len
        OBVIOUS
      <4>1. Len(spans) # 1 /\ \A i \in 1 .. Len(spans) - 1 : Tail(spans)[i] = spans[i + 1]
        BY <1>1, <3>2, <3>5, TailAt
      <4>2. 1 \in 1 .. Len(spans) - 1 /\ 2 \in 1 .. Len(spans)
        <5>1. 1 \in 1 .. Len(spans) /\ Len(spans) \in Nat /\ Len(spans) # 1
          BY <1>1, <3>2, <4>1
        <5> QED
          BY <5>1
      <4>3. Tail(spans)[1] = spans[1 + 1] /\ SeenIn(seen, spans[2])
        BY <4>1, <4>2 DEF Observed
      <4> QED
        BY <3>5, <4>3 DEF SeenIn
    <3>6. CASE offset' = offset + rd.n /\ spans' = spans /\ offset + rd.n # spans[1].len
      BY <1>1, <3>2, <3>3, <3>6
    <3> QED
      BY <3>4, <3>5, <3>6
  <2> QED
    BY <2>1, <2>2, <2>3, <2>4, Frames
<1>5. rd'.pc \in {"copy", "deliver"} => rd'.n > 0
  <2>1. CASE UNCHANGED rd
    BY <2>1 DEF PushShape
  <2>2. CASE Reader
    <3>1. ASSUME NEW size \in ReadSizes, spans # <<>>, Used > 0,
                 rd'.n = Min2(Min2(size, Used), spans[1].len - offset)
          PROVE  rd'.n > 0
      <4>1. size \in Nat \ {0}
        BY SizesAssumption
      <4>2. offset < spans[1].len /\ 1 \in 1 .. Len(spans)
        BY <3>1, RingTypes DEF PushShape
      <4>3. spans[1].len \in Nat
        BY <4>2, RingTypes
      <4> QED
        BY <1>1, <3>1, <4>1, <4>2, <4>3 DEF Min2
    <3>2. \/ rd'.pc \notin {"copy", "deliver"}
          \/ rd.pc = "copy" /\ rd'.n = rd.n
          \/ /\ spans # <<>> /\ Used > 0
             /\ \E size \in ReadSizes : rd'.n = Min2(Min2(size, Used), spans[1].len - offset)
      BY <2>2, ReadKinds
    <3> QED
      BY <3>1, <3>2 DEF PushShape
  <2> QED
    BY <2>1, <2>2, Frames
<1> QED
  BY <1>2, <1>3, <1>4, <1>5 DEF PushShape

\* Nothing writes what the reader has under way.
LEMMA TakenStep ==
  ASSUME IInv, PushShape, Layout, Taken, [Next]_vars PROVE Taken'
<1>1. /\ rd \in ReadType /\ rd.n \in Nat /\ offset \in Nat /\ spans \in Seq(SpanType)
      /\ Len(spans) \in Nat
  BY RingTypes
<1>2. CASE UNCHANGED <<rd, spans, offset>>
  BY <1>2 DEF Taken, Pair
<1>3. CASE PushSpan /\ rd' = rd
  <2> SUFFICES ASSUME rd.pc = "deliver"
               PROVE  spans'[1] = spans[1] /\ offset' = offset
    BY <1>3 DEF Taken, Pair
  <2>1. spans # <<>> /\ 1 \in 1 .. Len(spans)
    BY RingTypes
  <2>2. CASE spans' = spans
    BY <1>3, <2>2 DEF PushSpan
  <2>3. CASE spans' = Append(spans, [push.span EXCEPT !.len = push.n, !.causes = @ \cup pending])
    <3>1. [push.span EXCEPT !.len = push.n, !.causes = @ \cup pending] \in SpanType
      <4>1. pending \in SUBSET LossCauses /\ push.span \in SpanType /\ push.n \in Nat
        BY RingTypes DEF IInv, TypeOK
      <4> QED
        BY <4>1 DEF SpanType
    <3> QED
      BY <1>1, <1>3, <2>1, <2>3, <3>1, AppendAt DEF PushSpan
  <2> QED
    BY <1>3, <2>2, <2>3, PushKinds DEF Push
<1>4. CASE Reader
  <2> SUFFICES ASSUME rd'.pc = "deliver" PROVE Taken'
    BY DEF Taken
  <2>1. /\ rd.pc = "copy" /\ rd'.n = rd.n /\ rd'.out = [k \in 1 .. rd.n |-> cell[Ahead(r, k - 1)]]
        /\ UNCHANGED <<r, spans, offset>>
    BY <1>4, ReadKinds
  <2>2. PICK pos \in [1 .. Len(spans) + 1 -> Int] : Placed(pos) /\ Filled(pos)
    BY DEF Layout
  <2>3. spans # <<>> /\ rd.n <= Used /\ offset + rd.n <= spans[1].len /\ 1 \in 1 .. Len(spans)
    BY <2>1, RingTypes
  <2>4. pos[1] = 0 - offset
    BY <2>1, <2>2 DEF Placed, Going
  <2>5. spans[1].len \in Nat /\ Used \in Nat /\ Written \in Nat /\ Used <= Written
    BY <2>3, RingTypes
  <2>6. ASSUME NEW k \in 1 .. rd.n
        PROVE  cell[Ahead(r, k - 1)] = Pair(spans[1], offset + k - 1)
    <3>1. PICK j \in Nat : j = offset + k - 1
      BY <1>1
    <3>a. k \in Nat /\ k >= 1 /\ k <= rd.n
      BY <1>1
    <3>2. /\ j \in 0 .. spans[1].len - 1 /\ j >= offset /\ pos[1] + j = k - 1 /\ k - 1 < Written
      <4>1. j >= offset /\ j < offset + rd.n
        BY <1>1, <3>1, <3>a
      <4>2. j < spans[1].len
        BY <1>1, <2>3, <2>5, <4>1
      <4>3. pos[1] + j = k - 1
        BY <1>1, <2>4, <3>1, <3>a
      <4>4. k - 1 < Written
        BY <1>1, <2>3, <2>5, <3>a
      <4> QED
        BY <2>5, <4>1, <4>2, <4>3, <4>4
    <3>3. cell[Ahead(r, pos[1] + j)] = Pair(spans[1], j)
      BY <2>2, <2>3, <3>2 DEF Filled
    <3> QED
      BY <3>1, <3>2, <3>3
  <2>7. Len(rd'.out) = rd'.n
    BY <1>1, <2>1
  <2>8. ASSUME NEW k \in 1 .. rd'.n
        PROVE  rd'.out[k] = Pair(spans'[1], offset' + k - 1)
    <3>1. k \in 1 .. rd.n /\ rd'.out[k] = cell[Ahead(r, k - 1)]
      BY <2>1
    <3> QED
      BY <2>1, <2>6, <3>1
  <2> QED
    BY <2>7, <2>8 DEF Taken, Pair
<1>5. UNCHANGED <<rd, spans, offset>> \/ (PushSpan /\ rd' = rd) \/ Reader
  <2>1. PushSpan => rd' = rd
    BY DEF PushSpan, reader
  <2>2. ReadDeliver => Reader
    BY DEF Reader
  <2> QED
    BY <2>1, <2>2, Frames
<1> QED
  BY <1>2, <1>3, <1>4, <1>5

\* Each step keeps the layout.
LEMMA LayoutStep ==
  ASSUME IInv, Roles, Observed, PushShape, Layout, [Next]_vars PROVE Layout'
<1>1. rd \in ReadType /\ push \in PushType /\ rd.n \in Nat /\ push.n \in Nat
  BY RingTypes
<1>2. CASE UNCHANGED <<spans, offset, r, w, cell>> /\ Going' = Going /\ Arriving' = Arriving
           /\ (push'.pc = "publish" <=> push.pc = "publish")
           /\ (push.pc = "publish" => push'.n = push.n)
  BY <1>2, LayoutKept DEF Used, Written
<1>3. CASE Push
  <2>1. rd' = rd
    BY <1>3 DEF Push, PushSpace, PushSpan, PushCopy, PushPublish, reader
  <2>2. CASE PushSpace
    <3>1. push.pc = "space" /\ push'.pc = "span" /\ UNCHANGED <<spans, offset, w, r, cell>>
      BY <2>2, PushKinds DEF Push, PushSpan, PushCopy, PushPublish, PushSpace
    <3> QED
      BY <1>2, <2>1, <3>1 DEF Going, Arriving
  <2>3. CASE PushCopy
    BY <2>3, LayoutCopy
  <2>4. CASE PushPublish
    BY <2>1, <2>4, LayoutPublish DEF PushPublish
  <2>5. CASE PushSpan
    <3>1. CASE push' = NoPush /\ push.pc = "span" /\ UNCHANGED <<spans, offset, w, r, cell>>
      BY <1>2, <2>1, <3>1 DEF Going, Arriving, NoPush
    <3>2. CASE /\ push.pc = "span" /\ push'.pc = "copy" /\ push'.n = push.n
               /\ spans' = Append(spans, [push.span EXCEPT !.len = push.n, !.causes = @ \cup pending])
               /\ UNCHANGED <<offset, w, r, cell>>
      <4>1. PICK span \in SpanType :
               /\ span = [push.span EXCEPT !.len = push.n, !.causes = @ \cup pending]
               /\ span.len = push.n
        <5>1. pending \in SUBSET LossCauses /\ push.span \in SpanType /\ push.n \in Nat
          BY RingTypes DEF IInv, TypeOK
        <5>2. /\ [push.span EXCEPT !.len = push.n, !.causes = @ \cup pending] \in SpanType
              /\ [push.span EXCEPT !.len = push.n, !.causes = @ \cup pending].len = push.n
          BY <5>1 DEF SpanType
        <5> QED
          BY <5>2
      <4>2. spans' = Append(spans, span)
        BY <3>2, <4>1
      <4>3. spans = <<>> => offset = 0
        BY DEF IInv, RingFits
      <4> QED
        BY <2>1, <3>2, <4>1, <4>2, <4>3, LayoutAppend
    <3>3. push.pc = "span" /\ Push
      BY <2>5 DEF PushSpan, Push
    <3>4. \/ push' = NoPush /\ UNCHANGED <<spans, offset, w, r, cell>>
          \/ /\ push'.pc = "copy" /\ push'.n = push.n
             /\ spans' = Append(spans, [push.span EXCEPT !.len = push.n, !.causes = @ \cup pending])
             /\ UNCHANGED <<offset, w, r, cell>>
      BY <3>3, PushKinds
    <3> QED
      BY <3>1, <3>2, <3>3, <3>4
  <2> QED
    BY <1>3, <2>2, <2>3, <2>4, <2>5 DEF Push
<1>4. CASE PushBlock \/ TakeSlot
  <2>1. push.pc = "idle"
    <3>1. CASE PushBlock
      BY <3>1, ModeAssumption DEF PushBlock, Roles
    <3>2. CASE TakeSlot
      BY <3>2, ModeAssumption DEF TakeSlot, Roles, IInv, TypeOK
    <3> QED
      BY <1>4, <3>1, <3>2
  <2>2. push'.pc = "space" /\ UNCHANGED <<spans, offset, w, r, cell, rd>>
    BY <1>4 DEF PushBlock, TakeSlot, reader
  <2> QED
    BY <1>2, <2>1, <2>2 DEF Going, Arriving
<1>5. CASE Reader
  <2>0. push' = push /\ cell' = cell /\ w' = w
    BY <1>5, ReadKinds
  <2>1. CASE rd.pc = "free" /\ rd'.pc = "idle" /\ r' = Ahead(r, rd.n) /\ UNCHANGED <<spans, offset>>
    BY <2>0, <2>1, LayoutFree DEF PushShape
  <2>2. CASE rd.pc = "deliver" /\ rd'.pc = "free" /\ rd'.n = rd.n /\ r' = r
             /\ \/ offset + rd.n = spans[1].len /\ offset' = 0 /\ spans' = Tail(spans)
                \/ offset + rd.n < spans[1].len /\ offset' = offset + rd.n /\ spans' = spans
    <3>1. spans # <<>>
      BY <2>2, RingTypes
    <3> QED
      BY <2>0, <2>2, <3>1, LayoutPart, LayoutWhole
  <2>3. CASE rd.pc \in {"idle", "copy"} /\ rd'.pc \in {"copy", "deliver"} /\ UNCHANGED <<r, spans, offset>>
    BY <1>2, <2>0, <2>3 DEF Going, Arriving
  <2> QED
    BY <1>5, <2>1, <2>2, <2>3, ReadKinds
<1>6. UNCHANGED <<spans, offset, r, w, cell, rd, push>> \/ Push \/ PushBlock \/ TakeSlot \/ Reader
  BY Frames DEF Push, Reader
<1> QED
  BY <1>2, <1>3, <1>4, <1>5, <1>6 DEF Going, Arriving

\* What carries the labels: the parts are invariant together.
Flow == SlotsApart /\ Roles /\ Observed /\ PushShape /\ Layout /\ Taken

\* At first nothing is on its way.
LEMMA FlowInit == ASSUME Init PROVE Flow
<1>1. SlotsApart /\ Roles /\ Observed
  BY DEF Init, SlotsApart, Roles, Observed, NoPush
<1>2. PushShape /\ Taken
  BY DEF Init, PushShape, Taken, NoPush, NoRead
<1>3. Layout
  <2>1. spans = <<>> /\ Len(spans) = 0 /\ offset = 0 /\ rd.pc = "idle" /\ push.pc = "idle" /\ w = 0 /\ r = 0
    BY DEF Init, NoPush, NoRead
  <2>2. Used = 0 /\ Going = 0 /\ Arriving = 0
    BY <2>1 DEF Used, Going, Arriving
  <2>3. PICK pos : pos = [i \in 1 .. 1 |-> 0]
    OBVIOUS
  <2>4. pos \in [1 .. Len(spans) + 1 -> Int] /\ pos[1] = 0
    BY <2>1, <2>3
  <2>5. Placed(pos) /\ Filled(pos)
    BY <2>1, <2>2, <2>4 DEF Placed, Filled
  <2> QED
    BY <2>4, <2>5 DEF Layout
<1> QED
  BY <1>1, <1>2, <1>3 DEF Flow

\* Each step keeps all five parts.
LEMMA FlowStep == ASSUME IInv, Flow, [Next]_vars PROVE Flow'
BY SlotsApartStep, RolesStep, ObservedStep, PushShapeStep, TakenStep, LayoutStep DEF Flow

\* The flow of samples, on top of the ring's invariant.
LEMMA FlowInvariance == Spec => [](IInv /\ Flow)
<1>1. Init => Flow
  BY FlowInit
<1>2. IInv /\ Flow /\ [Next]_vars => Flow'
  BY FlowStep
<1> QED
  BY <1>1, <1>2, Invariance, PTL DEF Spec

\* Only hand-overs touch told, and both say of each pair what it is.
LEMMA LabelsStep ==
  ASSUME IInv, Flow, LabelsHold, [Next]_vars PROVE LabelsHold'
<1>1. told \in [Channels -> ToldType] /\ Channels = {"read", "callback"}
  BY DEF IInv, TypeOK, Channels
<1>2. ASSUME NEW c \in Channels, NEW span, NEW pairs, Deliver(c, span, pairs),
             \A k \in DOMAIN pairs : pairs[k] = Pair(span, k - 1)
      PROVE  LabelsHold'
  <2>1. told'[c].label /\ \A d \in Channels : d # c => told'[d] = told[d]
    BY <1>1, <1>2 DEF Deliver
  <2> QED
    BY <2>1 DEF LabelsHold
<1>3. CASE UNCHANGED <<cursor, told>>
  BY <1>3 DEF LabelsHold
<1>4. CASE CallBack
  <2>1. CASE Deliver("callback", slot[held.id], [k \in 1 .. slot[held.id].len |-> Pair(slot[held.id], k - 1)])
    <3> DEFINE span == slot[held.id]
               pairs == [k \in 1 .. span.len |-> Pair(span, k - 1)]
    <3>1. \A k \in DOMAIN pairs : pairs[k] = Pair(span, k - 1)
      OBVIOUS
    <3> QED
      BY <1>1, <1>2, <2>1, <3>1
  <2> QED
    BY <1>3, <1>4, <2>1 DEF CallBack
<1>5. CASE ReadDeliver
  <2>1. rd.pc = "deliver" /\ Deliver("read", Peek(rd.n), rd.out)
    BY <1>5 DEF ReadDeliver
  <2>2. /\ rd.n \in Nat /\ offset \in Nat /\ spans # <<>> /\ Head(spans) = spans[1] /\ spans[1] \in SpanType
        /\ spans[1].first \in Nat
    <3>1. rd.n \in Nat /\ offset \in Nat /\ spans # <<>> /\ Head(spans) = spans[1] /\ 1 \in 1 .. Len(spans)
      BY <2>1, RingTypes
    <3> QED
      BY <3>1, RingTypes
  <2>3. Peek(rd.n).first = spans[1].first + offset /\ Peek(rd.n).epoch = spans[1].epoch
    BY <2>2 DEF Peek, SpanType
  <2>4. DOMAIN rd.out = 1 .. rd.n
    BY <2>1, RingTypes DEF Flow, Taken, ReadType
  <2>5. ASSUME NEW k \in 1 .. rd.n PROVE rd.out[k] = Pair(Peek(rd.n), k - 1)
    <3>1. rd.out[k] = Pair(spans[1], offset + k - 1)
      BY <2>1 DEF Flow, Taken
    <3>2. spans[1].first + (offset + k - 1) = (spans[1].first + offset) + (k - 1)
      BY <2>2
    <3> QED
      BY <2>3, <3>1, <3>2 DEF Pair
  <2> QED
    BY <1>1, <1>2, <2>1, <2>4, <2>5
<1> QED
  BY <1>3, <1>4, <1>5, Frames

\* The pairs a sample claims to be are the pairs it is, whatever the capacities, the block and
\* read sizes and the interleaving: the index a reader or a callback is given is that of the data
\* it is given, across a wrap of the ring, a partial read, an overrun or a stop.
THEOREM LabelsSafe == Spec => []LabelsHold
<1>1. Init => LabelsHold
  BY DEF Init, LabelsHold
<1>2. IInv /\ Flow /\ LabelsHold /\ [Next]_vars => LabelsHold'
  BY LabelsStep
<1> QED
  BY <1>1, <1>2, FlowInvariance, PTL DEF Spec

----------------------------------------------------------------------------
(* The lines: from the transfers to each channel the spans are in order. *)

\* A mark is a place in the stream: an epoch, the pairs up to it, the gaps
\* known and breaks made by then.
MarkType == [epoch : Nat, end : Nat, gaps : Nat, torn : Nat]

\* The place a channel has reached.
Place(c) == [epoch |-> cursor[c].epoch, end |-> cursor[c].end,
             gaps |-> cursor[c].unknown, torn |-> told[c].torn]

\* The place at the end of a span.
Mark(span) == [epoch |-> span.epoch, end |-> span.first + span.len,
               gaps |-> span.gaps, torn |-> span.torn]

\* What comes next from the transfers, as a span without length.
Coming == [epoch |-> Epoch, first |-> Position, len |-> 0, gaps |-> gaps,
           causes |-> causes, torn |-> torn]

\* How far a mark is in an epoch; a new epoch begins at 0.
Reached(m, e) == IF m.epoch = e THEN m.end ELSE 0

\* How many gaps a mark knows of in an epoch.
Known(m, e) == IF m.epoch = e THEN m.gaps ELSE 0

\* A span comes at or after a mark: no earlier epoch, no earlier pair, no
\* fewer gaps, and a break in between is known.
After(m, s) ==
  /\ m.epoch <= s.epoch
  /\ Reached(m, s.epoch) <= s.first
  /\ Known(m, s.epoch) <= s.gaps
  /\ QuietRecovery /\ m.epoch = s.epoch /\ m.torn # s.torn => m.gaps < s.gaps

\* The mark of a span is a mark.
LEMMA MarkTyped ==
  ASSUME NEW s \in SpanType
  PROVE  /\ Mark(s) \in MarkType /\ Mark(s).epoch = s.epoch /\ Mark(s).end = s.first + s.len
         /\ Mark(s).gaps = s.gaps /\ Mark(s).torn = s.torn
BY DEF Mark, MarkType, SpanType

\* What comes after a later span comes after an earlier mark.
LEMMA AfterTrans ==
  ASSUME NEW m \in MarkType, NEW s \in SpanType, NEW t \in SpanType,
         After(m, s), After(Mark(s), t)
  PROVE  After(m, t)
<1>1. /\ m.epoch \in Nat /\ m.end \in Nat /\ m.gaps \in Nat /\ m.torn \in Nat
      /\ s.epoch \in Nat /\ s.first \in Nat /\ s.len \in Nat /\ s.gaps \in Nat /\ s.torn \in Nat
      /\ t.epoch \in Nat /\ t.first \in Nat /\ t.gaps \in Nat /\ t.torn \in Nat
  BY DEF MarkType, SpanType
<1>2. /\ s.epoch <= t.epoch
      /\ s.epoch = t.epoch => s.first + s.len <= t.first
      /\ s.epoch = t.epoch => s.gaps <= t.gaps
      /\ QuietRecovery /\ s.epoch = t.epoch /\ s.torn # t.torn => s.gaps < t.gaps
  BY MarkTyped DEF After, Reached, Known
<1>3. m.epoch <= t.epoch
  BY <1>1, <1>2 DEF After
<1>4. ASSUME m.epoch = t.epoch
      PROVE  m.end <= t.first /\ m.gaps <= t.gaps
             /\ (QuietRecovery /\ m.torn # t.torn => m.gaps < t.gaps)
  <2>1. s.epoch = t.epoch /\ m.epoch = s.epoch
    BY <1>1, <1>2, <1>4 DEF After
  <2>2. m.end <= s.first /\ m.gaps <= s.gaps /\ (QuietRecovery /\ m.torn # s.torn => m.gaps < s.gaps)
    BY <2>1 DEF After, Reached, Known
  <2> QED
    BY <1>1, <1>2, <2>1, <2>2
<1> QED
  BY <1>1, <1>3, <1>4 DEF After, Reached, Known

\* A mark with less handed over is earlier.
LEMMA AfterCut ==
  ASSUME NEW m \in MarkType, NEW n \in MarkType, NEW s \in SpanType, After(m, s),
         n.epoch = m.epoch, n.gaps = m.gaps, n.torn = m.torn, n.end <= m.end
  PROVE  After(n, s)
BY DEF After, Reached, Known, MarkType, SpanType

\* Another span that begins at the same place comes after the same marks.
LEMMA AfterAlike ==
  ASSUME NEW m \in MarkType, NEW s \in SpanType, NEW t \in SpanType, After(m, s),
         t.epoch = s.epoch, t.first = s.first,
         (t.gaps = s.gaps /\ t.torn = s.torn) \/ t.gaps > s.gaps
  PROVE  After(m, t)
BY DEF After, Reached, Known, MarkType, SpanType

\* So does one of a later epoch.
LEMMA AfterNew ==
  ASSUME NEW m \in MarkType, NEW s \in SpanType, NEW t \in SpanType, After(m, s), t.epoch > s.epoch
  PROVE  After(m, t)
BY DEF After, Reached, Known, MarkType, SpanType

\* The producer has part of a block still to put into the ring.
Pushing == push.pc \in {"space", "span"}

\* The place up to which the ring has the stream.
RingMark == IF spans = <<>> THEN Place("read") ELSE Mark(spans[Len(spans)])

\* The place up to which ring and producer have it.
PushMark == IF Pushing THEN Mark(push.span) ELSE RingMark

\* The place up to which callbacks and the slot in the delivery task have it.
TaskMark == IF held.pc = "push" THEN Mark(slot[held.id]) ELSE Place("callback")

\* The same with the filled slots added.
QueueMark(m) == IF filledQ = <<>> THEN m ELSE Mark(slot[filledQ[Len(filledQ)]])

\* The descriptors of the ring are in order, after what was read.
RingLine ==
  /\ spans # <<>> =>
       IF offset = 0 THEN After(Place("read"), spans[1])
       ELSE Place("read") = [Mark(spans[1]) EXCEPT !.end = spans[1].first + offset]
  /\ \A i \in 1 .. Len(spans) - 1 : After(Mark(spans[i]), spans[i + 1])

\* The producer's block comes after the ring.
PushLine == Pushing => After(RingMark, push.span)

\* The delivery task's slot comes after what was called back.
TaskLine == held.pc = "push" => After(Place("callback"), slot[held.id])

\* The filled slots are in order.
QueueLine ==
  /\ filledQ # <<>> => After(PushMark, slot[filledQ[1]]) /\ After(TaskMark, slot[filledQ[1]])
  /\ \A i \in 1 .. Len(filledQ) - 1 : After(Mark(slot[filledQ[i]]), slot[filledQ[i + 1]])

\* The block at the gate comes after all filled slots, and what is to come
\* after the block.
BlockLine ==
  IF block # NoBlock
  THEN /\ After(QueueMark(PushMark), block) /\ After(QueueMark(TaskMark), block)
       /\ After(Mark(block), Coming)
  ELSE After(QueueMark(PushMark), Coming) /\ After(QueueMark(TaskMark), Coming)

\* From the transfers to each channel the stream is in one line.
Line == RingLine /\ PushLine /\ TaskLine /\ QueueLine /\ BlockLine

\* The marks and spans of the line.
LEMMA LineTypes ==
  ASSUME IInv
  PROVE  /\ \A c \in Channels : Place(c) \in MarkType
         /\ Coming \in SpanType /\ block \in SpanType /\ push.span \in SpanType
         /\ \A i \in 1 .. Len(spans) : spans[i] \in SpanType
         /\ \A i \in 1 .. Len(filledQ) : filledQ[i] \in Slots /\ slot[filledQ[i]] \in SpanType
         /\ held.pc # "idle" => slot[held.id] \in SpanType
         /\ RingMark \in MarkType /\ PushMark \in MarkType /\ TaskMark \in MarkType
         /\ QueueMark(PushMark) \in MarkType /\ QueueMark(TaskMark) \in MarkType
         /\ Len(spans) \in Nat /\ Len(filledQ) \in Nat
         /\ spans # <<>> => 1 \in 1 .. Len(spans) /\ Len(spans) \in 1 .. Len(spans)
         /\ filledQ # <<>> => 1 \in 1 .. Len(filledQ) /\ Len(filledQ) \in 1 .. Len(filledQ)
         /\ Channels = {"read", "callback"}
<1>1. /\ cursor \in [Channels -> CursorType] /\ told \in [Channels -> ToldType]
      /\ block \in SpanType /\ push \in PushType /\ spans \in Seq(SpanType) /\ filledQ \in Seq(Slots)
      /\ slot \in [Slots -> SpanType] /\ seen \in Seq(Nat) /\ gaps \in Nat /\ torn \in Nat
      /\ causes \in SUBSET LossCauses /\ Channels = {"read", "callback"}
      /\ held.pc # "idle" => held.id \in Slots
  BY DEF IInv, TypeOK, RingFits, Channels
<1>2. \A c \in Channels : Place(c) \in MarkType
  BY <1>1 DEF Place, MarkType, CursorType, ToldType
<1>3. Coming \in SpanType
  <2>1. Epoch \in Nat /\ Position \in Nat
    BY <1>1 DEF Epoch, Position
  <2> QED
    BY <1>1, <2>1 DEF Coming, SpanType
<1>4. /\ push.span \in SpanType
      /\ \A i \in 1 .. Len(spans) : spans[i] \in SpanType
      /\ \A i \in 1 .. Len(filledQ) : filledQ[i] \in Slots /\ slot[filledQ[i]] \in SpanType
      /\ held.pc # "idle" => slot[held.id] \in SpanType
      /\ Len(spans) \in Nat /\ Len(filledQ) \in Nat
      /\ spans # <<>> => 1 \in 1 .. Len(spans) /\ Len(spans) \in 1 .. Len(spans)
      /\ filledQ # <<>> => 1 \in 1 .. Len(filledQ) /\ Len(filledQ) \in 1 .. Len(filledQ)
  BY <1>1 DEF PushType
<1>5. RingMark \in MarkType
  BY <1>1, <1>2, <1>4, MarkTyped DEF RingMark
<1>6. PushMark \in MarkType
  BY <1>4, <1>5, MarkTyped DEF PushMark
<1>7. TaskMark \in MarkType
  BY <1>1, <1>2, <1>4, MarkTyped DEF TaskMark
<1>8. QueueMark(PushMark) \in MarkType /\ QueueMark(TaskMark) \in MarkType
  BY <1>4, <1>6, <1>7, MarkTyped DEF QueueMark
<1> QED
  BY <1>1, <1>2, <1>3, <1>4, <1>5, <1>6, <1>7, <1>8

\* A mark is earlier than another, or the same.
Earlier(n, m) ==
  \/ n.epoch = m.epoch /\ n.gaps = m.gaps /\ n.torn = m.torn /\ n.end <= m.end
  \/ \E s \in SpanType : After(n, s) /\ m = Mark(s)

\* A mark is not later than itself.
LEMMA EarlierSame == ASSUME NEW m \in MarkType PROVE Earlier(m, m)
BY DEF Earlier, MarkType

\* What comes after a mark comes after earlier ones.
LEMMA EarlierAfter ==
  ASSUME NEW n \in MarkType, NEW m \in MarkType, NEW s \in SpanType, Earlier(n, m), After(m, s)
  PROVE  After(n, s)
<1>1. CASE n.epoch = m.epoch /\ n.gaps = m.gaps /\ n.torn = m.torn /\ n.end <= m.end
  BY <1>1, AfterCut
<1>2. ASSUME NEW t \in SpanType, After(n, t), m = Mark(t) PROVE After(n, s)
  BY <1>2, AfterTrans
<1> QED
  BY <1>1, <1>2 DEF Earlier

\* An earlier mark does not know more.
LEMMA EarlierKnown ==
  ASSUME NEW n \in MarkType, NEW m \in MarkType, Earlier(n, m), NEW e \in Nat, m.epoch <= e
  PROVE  Known(n, e) <= Known(m, e)
<1>1. CASE n.epoch = m.epoch /\ n.gaps = m.gaps /\ n.torn = m.torn /\ n.end <= m.end
  BY <1>1 DEF Known, MarkType
<1>2. ASSUME NEW t \in SpanType, After(n, t), m = Mark(t) PROVE Known(n, e) <= Known(m, e)
  <2>1. m.epoch = t.epoch /\ m.gaps = t.gaps /\ t.epoch \in Nat /\ t.gaps \in Nat
    BY <1>2, MarkTyped DEF SpanType
  <2>2. n.epoch \in Nat /\ n.gaps \in Nat
    BY DEF MarkType
  <2> QED
    BY <1>2, <2>1, <2>2 DEF After, Known
<1> QED
  BY <1>1, <1>2 DEF Earlier

\* The place up to which the read channel's line goes.
ReadEnd == QueueMark(PushMark)

\* The place up to which the callback channel's goes.
TaskEnd == QueueMark(TaskMark)

\* From a marker to its recovery, what comes next knows of a gap that nothing
\* on its way knows of.
Marked ==
  QuietRecovery =>
  /\ gate \in {"marked", "recovering"} => /\ Known(ReadEnd, Epoch) < gaps
                                          /\ Known(TaskEnd, Epoch) < gaps
  /\ gate = "marked" /\ block # NoBlock /\ block.epoch = Epoch => block.gaps < gaps

\* What comes next from the transfers comes after both lines.
LEMMA UpToComing ==
  ASSUME IInv, Line
  PROVE  /\ After(ReadEnd, Coming) /\ After(TaskEnd, Coming)
         /\ ReadEnd \in MarkType /\ TaskEnd \in MarkType /\ Coming \in SpanType /\ block \in SpanType
         /\ ReadEnd.epoch <= Epoch /\ TaskEnd.epoch <= Epoch /\ Epoch \in Nat /\ gaps \in Nat /\ torn \in Nat
         /\ Position \in Nat
<1>1. /\ ReadEnd \in MarkType /\ TaskEnd \in MarkType /\ Coming \in SpanType /\ block \in SpanType
  BY LineTypes DEF ReadEnd, TaskEnd
<1>2. After(ReadEnd, Coming) /\ After(TaskEnd, Coming)
  BY <1>1, AfterTrans DEF Line, BlockLine, ReadEnd, TaskEnd
<1>3. Epoch \in Nat /\ gaps \in Nat /\ torn \in Nat /\ Coming.epoch = Epoch /\ Position \in Nat
  BY <1>1 DEF SpanType, Coming
<1> QED
  BY <1>1, <1>2, <1>3 DEF After

\* A step that leaves the Timeline and the callback alone and moves no end of the line on.
LEMMA EndsKept ==
  ASSUME IInv, Line, Marked, UNCHANGED <<block, seen, gaps, torn, gate>>,
         ReadEnd' \in MarkType, TaskEnd' \in MarkType,
         Earlier(ReadEnd', ReadEnd), Earlier(TaskEnd', TaskEnd)
  PROVE  BlockLine' /\ Marked'
<1>1. PICK m \in MarkType, n \in MarkType : m = ReadEnd' /\ n = TaskEnd'
  OBVIOUS
<1>2. /\ ReadEnd \in MarkType /\ TaskEnd \in MarkType /\ Coming \in SpanType /\ block \in SpanType
      /\ ReadEnd.epoch <= Epoch /\ TaskEnd.epoch <= Epoch /\ Epoch \in Nat /\ gaps \in Nat
  BY UpToComing
<1>3. Epoch' = Epoch /\ Position' = Position
  BY DEF Epoch, Position
<1>4. Earlier(m, ReadEnd) /\ Earlier(n, TaskEnd)
  BY <1>1 DEF Earlier, After, Reached, Known, Mark
<1>5. \A s \in SpanType : /\ After(ReadEnd, s) => After(m, s)
                          /\ After(TaskEnd, s) => After(n, s)
  BY <1>2, <1>4, EarlierAfter
<1>6. BlockLine'
  <2>1. \A a \in MarkType : After(a, Coming)' <=> After(a, Coming)
    BY <1>3 DEF After, Reached, Known, Coming
  <2>2. Mark(block)' = Mark(block) /\ Mark(block) \in MarkType
    BY <1>2, MarkTyped DEF Mark
  <2>3. /\ block # NoBlock => After(m, block) /\ After(n, block) /\ After(Mark(block), Coming)
        /\ block = NoBlock => After(m, Coming) /\ After(n, Coming)
    BY <1>2, <1>5 DEF Line, BlockLine, ReadEnd, TaskEnd
  <2> QED
    BY <1>1, <1>3, <2>3 DEF BlockLine, ReadEnd, TaskEnd, After, Reached, Known, Coming, Mark
<1>7. Marked'
  <2>1. Known(m, Epoch) <= Known(ReadEnd, Epoch) /\ Known(n, Epoch) <= Known(TaskEnd, Epoch)
    BY <1>2, <1>4, EarlierKnown
  <2>2. Known(m, Epoch) \in Nat /\ Known(n, Epoch) \in Nat /\ Known(ReadEnd, Epoch) \in Nat
        /\ Known(TaskEnd, Epoch) \in Nat
    BY <1>2 DEF Known, MarkType
  <2>3. QuietRecovery /\ gate \in {"marked", "recovering"} => Known(m, Epoch) < gaps /\ Known(n, Epoch) < gaps
    BY <1>2, <2>1, <2>2 DEF Marked
  <2> QED
    BY <1>1, <1>3, <2>3 DEF Marked, Known
<1> QED
  BY <1>6, <1>7

\* Lines that nobody moves.
LEMMA StandStill ==
  ASSUME Line, UNCHANGED <<spans, offset, push, cursor, told, filledQ, slot, held>>
  PROVE  /\ RingLine' /\ PushLine' /\ TaskLine' /\ QueueLine'
         /\ ReadEnd' = ReadEnd /\ TaskEnd' = TaskEnd
BY DEF Line, RingLine, PushLine, TaskLine, QueueLine, ReadEnd, TaskEnd, QueueMark, PushMark, TaskMark,
       RingMark, Pushing, Place, Mark, After, Reached, Known

\* Its ends unchanged, the line reaches what the Timeline will number next.
LEMMA LineToComing ==
  ASSUME ReadEnd' = ReadEnd, TaskEnd' = TaskEnd, block' = NoBlock,
         NEW t \in SpanType, t = Coming', After(ReadEnd, t), After(TaskEnd, t)
  PROVE  BlockLine'
BY DEF BlockLine, ReadEnd, TaskEnd, After, Reached, Known

\* A new block at the gate that comes after both lines continues them.
LEMMA LineToBlock ==
  ASSUME ReadEnd' = ReadEnd, TaskEnd' = TaskEnd, block' # NoBlock,
         NEW s \in SpanType, s = block', NEW t \in SpanType, t = Coming',
         After(ReadEnd, s), After(TaskEnd, s), After(Mark(s), t)
  PROVE  BlockLine'
BY DEF BlockLine, ReadEnd, TaskEnd, After, Reached, Known, Mark

\* What comes next, as numbers.
LEMMA ComingNext ==
  ASSUME NEW e \in Nat, NEW f \in Nat, NEW g \in Nat, NEW b \in Nat,
         Epoch' = e, Position' = f, gaps' = g, torn' = b, causes' \in SUBSET LossCauses
  PROVE  \E t \in SpanType : /\ t = Coming' /\ t.epoch = e /\ t.first = f /\ t.gaps = g /\ t.torn = b
                             /\ t.causes = causes'
<1>1. Coming' = [epoch |-> e, first |-> f, len |-> 0, gaps |-> g, causes |-> causes', torn |-> b]
  BY DEF Coming
<1>2. PICK t : t = [epoch |-> e, first |-> f, len |-> 0, gaps |-> g, causes |-> causes', torn |-> b]
  OBVIOUS
<1>3. t \in SpanType
  BY <1>2 DEF SpanType
<1> QED
  BY <1>1, <1>2, <1>3

\* Epochs, gaps and markers only move what is to come.
LEMMA ControlLine ==
  ASSUME IInv, Line, Marked, Control
  PROVE  Line' /\ Marked'
<1>1. UNCHANGED <<spans, offset, push, cursor, told, filledQ, slot, held, block>>
  BY DEF Control, Close, Begin, RecoverMark, RecoverPause, RecoverResume, ring, slots, reader, timeline
<1>2. /\ RingLine' /\ PushLine' /\ TaskLine' /\ QueueLine'
      /\ ReadEnd' = ReadEnd /\ TaskEnd' = TaskEnd
  BY <1>1, StandStill
<1>3. /\ After(ReadEnd, Coming) /\ After(TaskEnd, Coming)
      /\ ReadEnd \in MarkType /\ TaskEnd \in MarkType /\ Coming \in SpanType /\ block \in SpanType
      /\ ReadEnd.epoch <= Epoch /\ TaskEnd.epoch <= Epoch /\ Epoch \in Nat /\ gaps \in Nat /\ torn \in Nat
      /\ Position \in Nat
  BY UpToComing
<1>4. SUFFICES BlockLine' /\ Marked'
  BY <1>2 DEF Line
<1>5. seen \in Seq(Nat) /\ causes \in SUBSET LossCauses
  BY DEF IInv, TypeOK
<1>6. CASE Close \/ RecoverResume
  <2>1. UNCHANGED <<seen, gaps, causes, torn>>
    BY <1>6 DEF Close, RecoverResume, timeline
  <2>2. Epoch' = Epoch /\ Coming' = Coming
    BY <2>1 DEF Epoch, Position, Coming
  <2>3. BlockLine'
    <3>1. CASE block # NoBlock
      <4>1. After(ReadEnd, block) /\ After(TaskEnd, block) /\ After(Mark(block), Coming)
        BY <3>1 DEF Line, BlockLine, ReadEnd, TaskEnd
      <4> QED
        BY <1>1, <1>2, <1>3, <2>2, <3>1, <4>1, LineToBlock DEF NoBlock
    <3>2. CASE block = NoBlock
      BY <1>1, <1>2, <1>3, <2>2, <3>2, LineToComing DEF NoBlock
    <3> QED
      BY <3>1, <3>2
  <2>4. Marked'
    BY <1>6 DEF Close, RecoverResume, Marked
  <2> QED
    BY <2>3, <2>4
<1>7. CASE Begin
  <2>1. block = NoBlock /\ block' = NoBlock
    BY <1>1, <1>7 DEF Begin, CallbackFree, NoBlock
  <2>2. seen' = Append(seen, 0) /\ gaps' \in Nat /\ causes' = {} /\ torn' = torn
    BY <1>7 DEF Begin
  <2>3. Len(seen') = Len(seen) + 1 /\ seen'[Len(seen) + 1] = 0 /\ Len(seen) \in Nat
    BY <1>5, <2>2
  <2>4. Epoch' = Epoch + 1 /\ Position' = 0
    <3>1. seen' # <<>>
      BY <2>3
    <3> QED
      BY <2>3, <3>1 DEF Epoch, Position
  <2>5. PICK t \in SpanType : t = Coming' /\ t.epoch = Epoch + 1
    <3>1. Epoch + 1 \in Nat /\ 0 \in Nat /\ causes' \in SUBSET LossCauses
      BY <1>3, <2>2
    <3> QED
      BY <1>3, <2>2, <2>4, <3>1, ComingNext
  <2>6. t.epoch > Coming.epoch
    BY <1>3, <2>5 DEF Coming
  <2>7. After(ReadEnd, t) /\ After(TaskEnd, t)
    BY <1>3, <2>6, AfterNew
  <2>8. BlockLine'
    BY <1>2, <2>1, <2>5, <2>7, LineToComing
  <2>9. Marked'
    BY <1>7 DEF Begin, Marked
  <2> QED
    BY <2>8, <2>9
<1>8. ASSUME NEW t \in SpanType, t = Coming', UNCHANGED <<seen, gaps>>,
             \A m \in MarkType : After(m, Coming) /\ (QuietRecovery => Known(m, Epoch) < gaps) => After(m, t),
             gate = "marked"
      PROVE  BlockLine'
  <2>1. CASE block = NoBlock
    BY <1>1, <1>2, <1>3, <1>8, <2>1, LineToComing DEF Marked, NoBlock
  <2>2. CASE block # NoBlock
    <3>1. After(ReadEnd, block) /\ After(TaskEnd, block) /\ After(Mark(block), Coming)
      BY <2>2 DEF Line, BlockLine, ReadEnd, TaskEnd
    <3>2. QuietRecovery => Known(Mark(block), Epoch) < gaps
      <4>1. CASE block.epoch = Epoch
        BY <1>3, <1>8, <2>2, <4>1, MarkTyped DEF Marked, Known
      <4>2. CASE block.epoch # Epoch
        <5>1. QuietRecovery => Known(ReadEnd, Epoch) < gaps
          BY <1>8 DEF Marked
        <5>2. Known(ReadEnd, Epoch) \in Nat /\ Known(Mark(block), Epoch) = 0
          BY <1>3, <4>2, MarkTyped DEF Known, MarkType
        <5> QED
          BY <1>3, <5>1, <5>2
      <4> QED
        BY <4>1, <4>2
    <3>3. After(Mark(block), t)
      BY <1>3, <1>8, <3>1, <3>2, MarkTyped
    <3> QED
      BY <1>1, <1>2, <1>3, <1>8, <2>2, <3>1, <3>3, LineToBlock DEF NoBlock
  <2> QED
    BY <2>1, <2>2
<1>9. CASE RecoverPause
  <2>1. gate = "marked" /\ gate' = "recovering" /\ torn' = torn + 1 /\ UNCHANGED <<seen, gaps, causes>>
    BY <1>9 DEF RecoverPause, timeline
  <2>2. Epoch' = Epoch /\ Position' = Position
    BY <2>1 DEF Epoch, Position
  <2>3. PICK t \in SpanType : t = Coming' /\ t.epoch = Epoch /\ t.first = Position /\ t.gaps = gaps
    <3>1. gaps \in Nat /\ torn + 1 \in Nat
      BY <1>3
    <3> QED
      BY <1>3, <1>5, <2>1, <2>2, <3>1, ComingNext
  <2>4. ASSUME NEW m \in MarkType, After(m, Coming), QuietRecovery => Known(m, Epoch) < gaps
        PROVE  After(m, t)
    BY <1>3, <2>3, <2>4 DEF After, Coming, Reached, Known
  <2>5. BlockLine'
    BY <1>8, <2>1, <2>3, <2>4
  <2>6. Marked'
    BY <1>1, <1>2, <2>1, <2>2 DEF Marked, Known
  <2> QED
    BY <2>5, <2>6
<1>10. CASE RecoverMark
  <2>1. gate = "open" /\ gate' = "marked" /\ gaps' = gaps + 1 /\ UNCHANGED <<seen, causes, torn>>
    BY <1>10 DEF RecoverMark
  <2>2. Epoch' = Epoch /\ Position' = Position
    BY <2>1 DEF Epoch, Position
  <2>3. PICK t \in SpanType : t = Coming' /\ t.epoch = Epoch /\ t.first = Position /\ t.gaps = gaps + 1
    <3>1. gaps + 1 \in Nat /\ torn \in Nat
      BY <1>3
    <3> QED
      BY <1>3, <1>5, <2>1, <2>2, <3>1, ComingNext
  <2>4. ASSUME NEW m \in MarkType, After(m, Coming)
        PROVE  After(m, t)
    <3>1. Coming.epoch = Epoch /\ Coming.first = Position /\ Coming.gaps = gaps
      BY DEF Coming
    <3> QED
      BY <1>3, <2>3, <2>4, <3>1, AfterAlike
  <2>5. BlockLine'
    <3>1. CASE block = NoBlock
      BY <1>1, <1>2, <1>3, <2>3, <2>4, <3>1, LineToComing DEF NoBlock
    <3>2. CASE block # NoBlock
      <4>1. After(ReadEnd, block) /\ After(TaskEnd, block) /\ After(Mark(block), Coming)
        BY <3>2 DEF Line, BlockLine, ReadEnd, TaskEnd
      <4> QED
        BY <1>1, <1>2, <1>3, <2>3, <2>4, <3>2, <4>1, MarkTyped, LineToBlock DEF NoBlock
    <3> QED
      BY <3>1, <3>2
  <2>6. Known(ReadEnd, Epoch) < gaps + 1 /\ Known(TaskEnd, Epoch) < gaps + 1
    <3>1. Known(ReadEnd, Epoch) <= gaps /\ Known(TaskEnd, Epoch) <= gaps
      BY <1>3 DEF After, Coming
    <3>2. Known(ReadEnd, Epoch) \in Nat /\ Known(TaskEnd, Epoch) \in Nat
      BY <1>3 DEF Known, MarkType
    <3> QED
      BY <1>3, <3>1, <3>2
  <2>7. block # NoBlock /\ block.epoch = Epoch => block.gaps < gaps + 1
    <3> SUFFICES ASSUME block # NoBlock, block.epoch = Epoch PROVE block.gaps < gaps + 1
      OBVIOUS
    <3>1. After(Mark(block), Coming)
      BY DEF Line, BlockLine
    <3>2. block.gaps <= gaps /\ block.gaps \in Nat
      BY <1>3, <3>1, MarkTyped DEF After, Coming, Known, SpanType
    <3> QED
      BY <1>3, <3>2
  <2>8. Marked'
    BY <1>1, <1>2, <2>1, <2>2, <2>6, <2>7 DEF Marked, Known
  <2> QED
    BY <2>5, <2>8
<1> QED
  BY <1>6, <1>7, <1>9, <1>10 DEF Control

\* A transfer's block takes the place of what was to come.
LEMMA ObserveLine ==
  ASSUME IInv, Line, Marked, NEW len \in BlockSizes, Observe(len)
  PROVE  Line' /\ Marked'
<1>1. UNCHANGED <<spans, offset, push, cursor, told, filledQ, slot, held>>
  BY DEF Observe, ring, slots, reader
<1>2. /\ RingLine' /\ PushLine' /\ TaskLine' /\ QueueLine'
      /\ ReadEnd' = ReadEnd /\ TaskEnd' = TaskEnd
  BY <1>1, StandStill
<1>3. /\ After(ReadEnd, Coming) /\ After(TaskEnd, Coming)
      /\ ReadEnd \in MarkType /\ TaskEnd \in MarkType /\ Coming \in SpanType /\ block \in SpanType
      /\ ReadEnd.epoch <= Epoch /\ TaskEnd.epoch <= Epoch /\ Epoch \in Nat /\ gaps \in Nat /\ torn \in Nat
      /\ Position \in Nat
  BY UpToComing
<1>4. seen \in Seq(Nat) /\ causes \in SUBSET LossCauses /\ len \in Nat /\ len > 0
  BY SizesAssumption DEF IInv, TypeOK
<1>5. /\ seen # <<>> /\ seen' = [seen EXCEPT ![Epoch] = @ + len] /\ UNCHANGED <<gaps, torn, gate>>
      /\ causes' = {} /\ (QuietRecovery => gate # "marked")
      /\ block' = [epoch |-> Epoch, first |-> Position, len |-> len, gaps |-> gaps,
                   causes |-> causes, torn |-> torn]
  BY DEF Observe
<1>6. Epoch' = Epoch /\ Position' = Position + len
  <2>1. Len(seen) \in 1 .. Len(seen) /\ seen[Len(seen)] \in Nat
    BY <1>4, <1>5
  <2>2. Len(seen') = Len(seen) /\ seen' # <<>> /\ seen'[Len(seen)] = seen[Len(seen)] + len
    BY <1>4, <1>5, <2>1 DEF Epoch
  <2> QED
    BY <1>5, <2>2 DEF Epoch, Position
<1>7. PICK s \in SpanType : /\ s = block' /\ s.epoch = Epoch /\ s.first = Position /\ s.len = len
                            /\ s.gaps = gaps /\ s.torn = torn
  <2>1. PICK s : s = [epoch |-> Epoch, first |-> Position, len |-> len, gaps |-> gaps,
                      causes |-> causes, torn |-> torn]
    OBVIOUS
  <2>2. s \in SpanType
    BY <1>3, <1>4, <2>1 DEF SpanType
  <2> QED
    BY <1>5, <2>1, <2>2
<1>8. PICK t \in SpanType : /\ t = Coming' /\ t.epoch = Epoch /\ t.first = Position + len /\ t.gaps = gaps
                            /\ t.torn = torn
  <2>1. Position + len \in Nat /\ causes' \in SUBSET LossCauses
    BY <1>3, <1>4, <1>5
  <2> QED
    BY <1>3, <1>5, <1>6, <2>1, ComingNext
<1>9. Coming.epoch = Epoch /\ Coming.first = Position /\ Coming.gaps = gaps /\ Coming.torn = torn
  BY DEF Coming
<1>10. After(ReadEnd, s) /\ After(TaskEnd, s)
  BY <1>3, <1>7, <1>9, AfterAlike
<1>11. After(Mark(s), t)
  BY <1>3, <1>4, <1>7, <1>8, MarkTyped DEF After, Reached, Known
<1>12. block' # NoBlock
  BY <1>4, <1>7 DEF NoBlock
<1>13. BlockLine'
  BY <1>2, <1>7, <1>8, <1>10, <1>11, <1>12, LineToBlock
<1>14. Marked'
  BY <1>2, <1>5, <1>6 DEF Marked, Known
<1> QED
  BY <1>2, <1>13, <1>14 DEF Line

\* An interruption is one more gap: wherever it falls, the line is told.
LEMMA TornLine ==
  ASSUME IInv, Line, Marked, ObserveOdd \/ TransferError
  PROVE  Line' /\ Marked'
<1>1. /\ UNCHANGED <<spans, offset, push, cursor, told, filledQ, slot, held, block, seen>>
      /\ gaps' = gaps + 1 /\ torn' = torn + 1 /\ (gate' = gate \/ gate' = "closed")
      /\ (causes' = causes \/ causes' = {}) /\ block = NoBlock
  BY DEF ObserveOdd, TransferError, CallbackFree, ring, slots, reader
<1>2. /\ RingLine' /\ PushLine' /\ TaskLine' /\ QueueLine'
      /\ ReadEnd' = ReadEnd /\ TaskEnd' = TaskEnd
  BY <1>1, StandStill
<1>3. /\ After(ReadEnd, Coming) /\ After(TaskEnd, Coming)
      /\ ReadEnd \in MarkType /\ TaskEnd \in MarkType /\ Coming \in SpanType
      /\ Epoch \in Nat /\ gaps \in Nat /\ torn \in Nat /\ Position \in Nat
  BY UpToComing
<1>4. causes \in SUBSET LossCauses
  BY DEF IInv, TypeOK
<1>5. Epoch' = Epoch /\ Position' = Position
  BY <1>1 DEF Epoch, Position
<1>6. PICK t \in SpanType : t = Coming' /\ t.epoch = Epoch /\ t.first = Position /\ t.gaps = gaps + 1
  <2>1. gaps + 1 \in Nat /\ torn + 1 \in Nat /\ causes' \in SUBSET LossCauses
    BY <1>1, <1>3, <1>4
  <2> QED
    BY <1>1, <1>3, <1>5, <2>1, ComingNext
<1>7. Coming.epoch = Epoch /\ Coming.first = Position /\ Coming.gaps = gaps
  BY DEF Coming
<1>8. After(ReadEnd, t) /\ After(TaskEnd, t)
  BY <1>3, <1>6, <1>7, AfterAlike
<1>9. BlockLine'
  BY <1>1, <1>2, <1>6, <1>8, LineToComing DEF NoBlock
<1>10. Known(ReadEnd, Epoch) \in Nat /\ Known(TaskEnd, Epoch) \in Nat
  BY <1>3 DEF Known, MarkType
<1>11. QuietRecovery /\ gate' \in {"marked", "recovering"}
         => Known(ReadEnd, Epoch) < gaps + 1 /\ Known(TaskEnd, Epoch) < gaps + 1
  BY <1>1, <1>3, <1>10 DEF Marked
<1>12. Marked'
  BY <1>1, <1>2, <1>5, <1>11 DEF Marked, Known, NoBlock
<1> QED
  BY <1>2, <1>9, <1>12 DEF Line

\* A block dropped at the gate leaves a hole that the next one comes after.
LEMMA DropLine ==
  ASSUME IInv, Line, Marked, DropAtGate \/ Starve
  PROVE  Line' /\ Marked'
<1>1. /\ UNCHANGED <<spans, offset, push, cursor, told, filledQ, slot, held, seen, gaps, torn, gate>>
      /\ (causes' = causes \/ causes' = causes \cup {"QUEUE_STARVE"}) /\ block' = NoBlock
  BY DEF DropAtGate, Starve, ring, slots, reader, timeline
<1>2. /\ RingLine' /\ PushLine' /\ TaskLine' /\ QueueLine'
      /\ ReadEnd' = ReadEnd /\ TaskEnd' = TaskEnd
  BY <1>1, StandStill
<1>3. /\ After(ReadEnd, Coming) /\ After(TaskEnd, Coming)
      /\ ReadEnd \in MarkType /\ TaskEnd \in MarkType /\ Coming \in SpanType
      /\ Epoch \in Nat /\ gaps \in Nat /\ torn \in Nat /\ Position \in Nat
  BY UpToComing
<1>4. causes \in SUBSET LossCauses
  BY DEF IInv, TypeOK
<1>5. Epoch' = Epoch /\ Position' = Position
  BY <1>1 DEF Epoch, Position
<1>6. PICK t \in SpanType : /\ t = Coming' /\ t.epoch = Epoch /\ t.first = Position /\ t.gaps = gaps
                            /\ t.torn = torn
  <2>1. causes' \in SUBSET LossCauses
    BY <1>1, <1>4 DEF LossCauses
  <2> QED
    BY <1>1, <1>3, <1>5, <2>1, ComingNext
<1>7. Coming.epoch = Epoch /\ Coming.first = Position /\ Coming.gaps = gaps /\ Coming.torn = torn
  BY DEF Coming
<1>8. After(ReadEnd, t) /\ After(TaskEnd, t)
  BY <1>3, <1>6, <1>7, AfterAlike
<1>9. BlockLine'
  BY <1>1, <1>2, <1>6, <1>8, LineToComing
<1>10. Marked'
  BY <1>1, <1>2, <1>5 DEF Marked, Known, NoBlock
<1> QED
  BY <1>2, <1>9, <1>10 DEF Line

\* With QuietRecovery no block is at the gate when a marker comes, so none
\* misses it.
LEMMA BlockKnown ==
  ASSUME IInv, Line, Marked, block # NoBlock, gate = "marked", QuietRecovery
  PROVE  Known(Mark(block), Epoch) < gaps
<1>1. block \in SpanType /\ ReadEnd \in MarkType /\ gaps \in Nat /\ Epoch \in Nat
  BY UpToComing
<1>2. CASE block.epoch = Epoch
  BY <1>1, <1>2, MarkTyped DEF Marked, Known
<1>3. CASE block.epoch # Epoch
  <2>1. Known(ReadEnd, Epoch) < gaps /\ Known(ReadEnd, Epoch) \in Nat
    BY <1>1 DEF Marked, Known, MarkType
  <2>2. Known(Mark(block), Epoch) = 0
    BY <1>1, <1>3, MarkTyped DEF Known
  <2> QED
    BY <1>1, <2>1, <2>2
<1> QED
  BY <1>2, <1>3

\* A block goes from the gate to the producer.
LEMMA PushBlockLine ==
  ASSUME IInv, Roles, Line, Marked, PushBlock
  PROVE  Line' /\ Marked'
<1>1. /\ block # NoBlock /\ mode = "READ" /\ gate \in {"open", "marked"}
      /\ push' = [pc |-> "space", span |-> block, n |-> 0] /\ block' = NoBlock
      /\ UNCHANGED <<gate, seen, gaps, causes, torn, spans, offset, cursor, told, filledQ, slot, held>>
  BY DEF PushBlock, GateOpen, slots, reader, timeline
<1>2. filledQ = <<>> /\ held.pc = "idle" /\ push.pc = "idle"
  BY <1>1 DEF Roles
<1>3. ReadEnd = RingMark /\ TaskEnd = Place("callback")
  BY <1>2 DEF ReadEnd, TaskEnd, QueueMark, PushMark, TaskMark, Pushing
<1>4. /\ RingMark' = RingMark /\ PushMark' = Mark(block) /\ ReadEnd' = Mark(block)
      /\ TaskEnd' = Place("callback")
  BY <1>1, <1>2 DEF RingMark, ReadEnd, TaskEnd, QueueMark, PushMark, TaskMark, Pushing, Place, Mark
<1>5. After(ReadEnd, block) /\ After(TaskEnd, block) /\ After(Mark(block), Coming) /\ After(TaskEnd, Coming)
  BY <1>1, UpToComing DEF Line, BlockLine, ReadEnd, TaskEnd
<1>6. Coming' = Coming /\ Epoch' = Epoch
  BY <1>1 DEF Coming, Epoch, Position
<1>7. RingLine'
  BY <1>1 DEF Line, RingLine, Place, Mark, After, Reached, Known
<1>8. PushLine'
  BY <1>1, <1>3, <1>4, <1>5 DEF PushLine, After, Reached, Known
<1>9. TaskLine' /\ QueueLine'
  BY <1>1, <1>2 DEF TaskLine, QueueLine
<1>10. BlockLine'
  BY <1>1, <1>3, <1>4, <1>5, <1>6 DEF BlockLine, ReadEnd, TaskEnd, After, Reached, Known
<1>11. Marked'
  <2>1. QuietRecovery /\ gate = "marked" => Known(Mark(block), Epoch) < gaps /\ Known(TaskEnd, Epoch) < gaps
    BY <1>1, BlockKnown DEF Marked
  <2> QED
    BY <1>1, <1>3, <1>4, <1>6, <2>1 DEF Marked, Known
<1> QED
  BY <1>7, <1>8, <1>9, <1>10, <1>11 DEF Line

\* A block goes from the gate to the end of the filled slots.
LEMMA ParkBlockLine ==
  ASSUME IInv, SlotsApart, Line, Marked, ParkBlock
  PROVE  Line' /\ Marked'
<1> DEFINE h == freeQ[1]
           L == Len(filledQ)
<1>0. freeQ \in Seq(Slots) /\ filledQ \in Seq(Slots) /\ slot \in [Slots -> SpanType]
      /\ (held.pc # "idle" => held.id \in Slots)
  BY DEF IInv, TypeOK, RingFits
<1>1. /\ block # NoBlock /\ gate \in {"open", "marked"} /\ freeQ # <<>> /\ block' = NoBlock
      /\ filledQ' = Append(filledQ, Head(freeQ)) /\ slot' = [slot EXCEPT ![Head(freeQ)] = block]
      /\ UNCHANGED <<gate, seen, gaps, causes, torn, spans, offset, cursor, told, push, held>>
  BY DEF ParkBlock, GateOpen, ring, reader, timeline
<1>2. h \in Slots /\ Head(freeQ) = h /\ 1 \in 1 .. Len(freeQ)
  BY <1>0, <1>1, TailAt
<1>3. /\ L \in Nat /\ Len(filledQ') = L + 1 /\ filledQ' # <<>> /\ filledQ'[L + 1] = h
      /\ \A i \in 1 .. L : filledQ'[i] = filledQ[i] /\ filledQ[i] \in Slots /\ filledQ[i] # h
      /\ filledQ = <<>> <=> L = 0
  BY <1>0, <1>1, <1>2, AppendAt, AtInside DEF SlotsApart
<1>4. slot'[h] = block /\ \A i \in 1 .. L : slot'[filledQ'[i]] = slot[filledQ[i]]
  BY <1>0, <1>1, <1>2, <1>3
<1>5. held.pc = "push" => slot'[held.id] = slot[held.id]
  BY <1>0, <1>1, <1>2 DEF SlotsApart
<1>6. /\ RingMark' = RingMark /\ PushMark' = PushMark
  BY <1>1 DEF RingMark, PushMark, Pushing, Place, Mark
<1>7. TaskMark' = TaskMark
  BY <1>1, <1>5 DEF TaskMark, Place, Mark
<1>8. ReadEnd' = Mark(block) /\ TaskEnd' = Mark(block)
  BY <1>3, <1>4 DEF ReadEnd, TaskEnd, QueueMark, Mark
<1>9. After(ReadEnd, block) /\ After(TaskEnd, block) /\ After(Mark(block), Coming)
  BY <1>1 DEF Line, BlockLine, ReadEnd, TaskEnd
<1>10. Coming' = Coming /\ Epoch' = Epoch
  BY <1>1 DEF Coming, Epoch, Position
<1>11. RingLine' /\ PushLine'
  BY <1>1, <1>6 DEF Line, RingLine, PushLine, Pushing, Place, Mark, After, Reached, Known
<1>12. TaskLine'
  BY <1>1, <1>5 DEF Line, TaskLine, Place, After, Reached, Known
<1>13. QueueLine'
  <2>1. After(PushMark, slot'[filledQ'[1]]) /\ After(TaskMark, slot'[filledQ'[1]])
    <3>1. CASE L = 0
      BY <1>3, <1>4, <1>9, <3>1 DEF ReadEnd, TaskEnd, QueueMark
    <3>2. CASE L # 0
      BY <1>3, <1>4, <3>2 DEF Line, QueueLine
    <3> QED
      BY <3>1, <3>2
  <2>2. ASSUME NEW i \in 1 .. L
        PROVE  After(Mark(slot'[filledQ'[i]]), slot'[filledQ'[i + 1]])
    <3>1. CASE i = L
      BY <1>3, <1>4, <1>9, <3>1 DEF ReadEnd, QueueMark
    <3>2. CASE i # L
      <4>1. i \in 1 .. L - 1 /\ i \in 1 .. L /\ i + 1 \in 1 .. L
        BY <1>3, <3>2
      <4>2. After(Mark(slot[filledQ[i]]), slot[filledQ[i + 1]])
        BY <4>1 DEF Line, QueueLine
      <4> QED
        BY <1>4, <4>1, <4>2
    <3> QED
      BY <3>1, <3>2
  <2>3. Len(filledQ') - 1 = L
    BY <1>3
  <2> QED
    BY <1>6, <1>7, <2>1, <2>2, <2>3 DEF QueueLine, After, Reached, Known, Mark
<1>14. BlockLine'
  BY <1>1, <1>8, <1>9, <1>10 DEF BlockLine, ReadEnd, TaskEnd, After, Reached, Known
<1>15. Marked'
  <2>1. QuietRecovery /\ gate = "marked" => Known(Mark(block), Epoch) < gaps
    BY <1>1, BlockKnown
  <2> QED
    BY <1>1, <1>8, <1>10, <2>1 DEF Marked, Known
<1> QED
  BY <1>11, <1>12, <1>13, <1>14, <1>15 DEF Line

\* The queue is left alone, and what comes before it does not move on.
LEMMA QueueKept ==
  ASSUME IInv, Line, UNCHANGED <<filledQ, slot>>,
         NEW m \in MarkType, m = PushMark', Earlier(m, PushMark),
         NEW n \in MarkType, n = TaskMark', Earlier(n, TaskMark)
  PROVE  /\ QueueLine' /\ ReadEnd' \in MarkType /\ TaskEnd' \in MarkType
         /\ Earlier(ReadEnd', ReadEnd) /\ Earlier(TaskEnd', TaskEnd)
<1>1. PushMark \in MarkType /\ TaskMark \in MarkType
  BY LineTypes
<1>2. \A s \in SpanType : /\ After(PushMark, s) => After(m, s)
                          /\ After(TaskMark, s) => After(n, s)
  BY <1>1, EarlierAfter
<1>3. QueueLine'
  <2>1. filledQ # <<>> => slot[filledQ[1]] \in SpanType
    BY LineTypes
  <2>2. filledQ # <<>> => After(m, slot[filledQ[1]]) /\ After(n, slot[filledQ[1]])
    BY <1>2, <2>1 DEF Line, QueueLine
  <2> QED
    BY <2>2 DEF Line, QueueLine, After, Reached, Known, Mark
<1>4. CASE filledQ = <<>>
  <2>1. ReadEnd' = m /\ TaskEnd' = n /\ ReadEnd = PushMark /\ TaskEnd = TaskMark
    BY <1>4 DEF ReadEnd, TaskEnd, QueueMark
  <2> QED
    BY <1>3, <2>1
<1>5. CASE filledQ # <<>>
  <2>1. ReadEnd' = ReadEnd /\ TaskEnd' = TaskEnd
    BY <1>5 DEF ReadEnd, TaskEnd, QueueMark, Mark
  <2>2. ReadEnd \in MarkType /\ TaskEnd \in MarkType
    BY LineTypes DEF ReadEnd, TaskEnd
  <2> QED
    BY <1>3, <2>1, <2>2, EarlierSame
<1> QED
  BY <1>4, <1>5

\* The producer cuts its block in two in line.
LEMMA PushSpanLine ==
  ASSUME IInv, PushShape, Line, NEW t \in SpanType, push.pc = "span", push'.pc = "copy",
         t.epoch = push.span.epoch, t.first = push.span.first, t.len = push.n,
         t.gaps = push.span.gaps, t.torn = push.span.torn,
         spans' = Append(spans, t), UNCHANGED <<offset, cursor, told>>
  PROVE  RingLine' /\ PushLine' /\ PushMark' = Mark(t) /\ Earlier(Mark(t), PushMark)
<1> DEFINE L == Len(spans)
<1>1. /\ spans \in Seq(SpanType) /\ L \in Nat /\ push.span \in SpanType /\ offset \in Nat
      /\ spans = <<>> => offset = 0
      /\ push.n \in Nat /\ push.n <= push.span.len
  BY RingTypes DEF IInv, TypeOK, RingFits, PushShape
<1>2. /\ Len(spans') = L + 1 /\ spans' # <<>> /\ spans'[L + 1] = t
      /\ \A i \in 1 .. L : spans'[i] = spans[i]
      /\ spans = <<>> <=> L = 0
  BY <1>1, AppendAt, AtInside
<1>3. PushMark = Mark(push.span) /\ After(RingMark, push.span) /\ RingMark \in MarkType
  BY LineTypes DEF PushMark, Pushing, Line, PushLine
<1>4. After(RingMark, t)
  BY <1>1, <1>3, AfterAlike
<1>5. RingMark' = Mark(t) /\ PushMark' = Mark(t) /\ ~Pushing'
  BY <1>2 DEF RingMark, PushMark, Pushing, Mark
<1>6. Earlier(Mark(t), PushMark)
  <2>1. /\ Mark(t).epoch = t.epoch /\ Mark(t).end = t.first + t.len /\ Mark(t).gaps = t.gaps
        /\ Mark(t).torn = t.torn
    BY MarkTyped
  <2>2. /\ PushMark.epoch = push.span.epoch /\ PushMark.end = push.span.first + push.span.len
        /\ PushMark.gaps = push.span.gaps /\ PushMark.torn = push.span.torn
    BY <1>1, <1>3, MarkTyped
  <2>3. push.span.first \in Nat /\ push.span.len \in Nat
    BY <1>1 DEF SpanType
  <2>4. Mark(t).end <= PushMark.end
    BY <1>1, <2>1, <2>2, <2>3
  <2> QED
    BY <2>1, <2>2, <2>4 DEF Earlier
<1>7. RingLine'
  <2>1. Place("read")' = Place("read")
    BY DEF Place
  <2>2. CASE L = 0
    <3>1. After(Place("read"), t) /\ offset = 0
      BY <1>1, <1>2, <1>4, <2>2 DEF RingMark
    <3>2. spans'[1] = t /\ Len(spans') - 1 = 0
      BY <1>2, <2>2
    <3> QED
      BY <2>1, <3>1, <3>2 DEF RingLine, After, Reached, Known
  <2>3. CASE L # 0
    <3>1. spans'[1] = spans[1] /\ spans # <<>> /\ Len(spans') - 1 = L
      BY <1>1, <1>2, <2>3
    <3>2. ASSUME NEW i \in 1 .. L PROVE After(Mark(spans'[i]), spans'[i + 1])
      <4>1. CASE i = L
        BY <1>2, <1>4, <2>3, <3>1, <4>1 DEF RingMark
      <4>2. CASE i # L
        <5>1. i \in 1 .. L - 1 /\ i \in 1 .. L /\ i + 1 \in 1 .. L
          BY <1>1, <4>2
        <5>2. After(Mark(spans[i]), spans[i + 1])
          BY <5>1 DEF Line, RingLine
        <5> QED
          BY <1>2, <5>1, <5>2
      <4> QED
        BY <4>1, <4>2
    <3>3. IF offset = 0 THEN After(Place("read"), spans[1])
          ELSE Place("read") = [Mark(spans[1]) EXCEPT !.end = spans[1].first + offset]
      BY <3>1 DEF Line, RingLine
    <3>4. IF offset' = 0 THEN After(Place("read"), spans'[1])
          ELSE Place("read") = [Mark(spans'[1]) EXCEPT !.end = spans'[1].first + offset']
      BY <3>1, <3>3
    <3> QED
      BY <2>1, <3>1, <3>2, <3>4 DEF RingLine, After, Reached, Known, Mark
  <2> QED
    BY <2>2, <2>3
<1> QED
  BY <1>5, <1>6, <1>7 DEF PushLine

\* The producer's steps keep the line.
LEMMA PushLineStep ==
  ASSUME IInv, PushShape, Line, Marked, Push
  PROVE  Line' /\ Marked'
<1>1. /\ UNCHANGED <<mode, gate, seen, gaps, causes, torn, block, offset, filledQ, slot, held, cursor, told>>
  BY DEF Push, PushSpace, PushSpan, PushCopy, PushPublish, slots, reader, timeline
<1>2. /\ TaskMark \in MarkType /\ TaskMark' = TaskMark /\ Earlier(TaskMark, TaskMark)
  BY <1>1, LineTypes, EarlierSame DEF TaskMark, Place, Mark
<1>3. TaskLine'
  BY <1>1 DEF Line, TaskLine, Place, After, Reached, Known
<1>4. ASSUME NEW m \in MarkType, m = PushMark', Earlier(m, PushMark), RingLine', PushLine'
      PROVE  Line' /\ Marked'
  <2>1. /\ QueueLine' /\ ReadEnd' \in MarkType /\ TaskEnd' \in MarkType
        /\ Earlier(ReadEnd', ReadEnd) /\ Earlier(TaskEnd', TaskEnd)
    BY <1>1, <1>2, <1>4, QueueKept
  <2>2. BlockLine' /\ Marked'
    BY <1>1, <2>1, EndsKept
  <2> QED
    BY <1>3, <1>4, <2>1, <2>2 DEF Line
<1>5. PushMark \in MarkType /\ RingMark \in MarkType /\ push.span \in SpanType
  BY LineTypes
<1>6. CASE spans' = spans /\ (Pushing' <=> Pushing) /\ (Pushing => push'.span = push.span)
  <2>1. RingMark' = RingMark /\ PushMark' = PushMark
    BY <1>1, <1>6 DEF RingMark, PushMark, Place, Mark
  <2>2. RingLine' /\ PushLine'
    BY <1>1, <1>6, <2>1 DEF Line, RingLine, PushLine, Place, After, Reached, Known, Mark
  <2> QED
    BY <1>4, <1>5, <2>1, <2>2, EarlierSame
<1>7. CASE spans' = spans /\ Pushing /\ ~Pushing'
  <2>1. RingMark' = RingMark /\ PushMark' = RingMark /\ PushMark = Mark(push.span)
    BY <1>1, <1>7 DEF RingMark, PushMark, Place, Mark
  <2>2. RingLine' /\ PushLine'
    BY <1>1, <1>7 DEF Line, RingLine, PushLine, Place, After, Reached, Known, Mark
  <2>3. Earlier(RingMark, PushMark)
    BY <1>5, <1>7, <2>1 DEF Earlier, Line, PushLine
  <2> QED
    BY <1>4, <1>5, <2>1, <2>2, <2>3
<1>8. CASE /\ push.pc = "span" /\ push'.pc = "copy"
           /\ spans' = Append(spans, [push.span EXCEPT !.len = push.n, !.causes = @ \cup pending])
  <2>1. PICK t \in SpanType :
           /\ t = [push.span EXCEPT !.len = push.n, !.causes = @ \cup pending]
           /\ t.epoch = push.span.epoch /\ t.first = push.span.first /\ t.len = push.n
           /\ t.gaps = push.span.gaps /\ t.torn = push.span.torn
    <3>1. pending \in SUBSET LossCauses /\ push.n \in Nat
      BY RingTypes DEF IInv, TypeOK
    <3>2. PICK t : t = [push.span EXCEPT !.len = push.n, !.causes = @ \cup pending]
      OBVIOUS
    <3>3. t \in SpanType
      BY <1>5, <3>1, <3>2 DEF SpanType
    <3>4. /\ t.epoch = push.span.epoch /\ t.first = push.span.first /\ t.len = push.n
          /\ t.gaps = push.span.gaps /\ t.torn = push.span.torn
      BY <1>5, <3>2 DEF SpanType
    <3> QED
      BY <3>2, <3>3, <3>4
  <2>2. RingLine' /\ PushLine' /\ PushMark' = Mark(t) /\ Earlier(Mark(t), PushMark)
    BY <1>1, <1>8, <2>1, PushSpanLine
  <2> QED
    BY <1>4, <2>1, <2>2, MarkTyped
<1> QED
  <2>1. CASE PushSpan
    <3>1. push.pc = "span"
      BY <2>1 DEF PushSpan
    <3>2. \/ push' = NoPush /\ spans' = spans
          \/ /\ push'.pc = "copy"
             /\ spans' = Append(spans, [push.span EXCEPT !.len = push.n, !.causes = @ \cup pending])
      BY <3>1, PushKinds
    <3> QED
      BY <1>7, <1>8, <3>1, <3>2 DEF Pushing, NoPush
  <2>2. CASE PushSpace
    <3>1. push.pc = "space"
      BY <2>2 DEF PushSpace
    <3> QED
      BY <1>6, <3>1, PushKinds DEF Pushing
  <2>3. CASE PushCopy
    <3>1. push.pc = "copy"
      BY <2>3 DEF PushCopy
    <3> QED
      BY <1>6, <3>1, PushKinds DEF Pushing
  <2>4. CASE PushPublish
    BY <1>6, <2>4 DEF PushPublish, Pushing, NoPush
  <2> QED
    BY <2>1, <2>2, <2>3, <2>4 DEF Push

\* The first filled slot goes to the delivery task.
LEMMA TakeSlotLine ==
  ASSUME IInv, Roles, Line, Marked, TakeSlot
  PROVE  Line' /\ Marked'
<1> DEFINE h == filledQ[1]
           L == Len(filledQ)
<1>0. filledQ \in Seq(Slots) /\ mode \in {"READ", "BOTH"} /\ push \in PushType
  BY ModeAssumption DEF IInv, TypeOK
<1>1. /\ held.pc = "idle" /\ filledQ # <<>> /\ filledQ' = Tail(filledQ)
      /\ held' = [pc |-> "push", id |-> Head(filledQ)]
      /\ push' = [pc |-> "space", span |-> slot[Head(filledQ)], n |-> 0]
      /\ UNCHANGED <<gate, seen, gaps, causes, torn, block, spans, offset, cursor, told, slot>>
  BY DEF TakeSlot, reader, timeline
<1>2. /\ L \in Nat \ {0} /\ Head(filledQ) = h /\ Len(filledQ') = L - 1
      /\ \A i \in 1 .. L - 1 : filledQ'[i] = filledQ[i + 1]
      /\ filledQ' = <<>> <=> L = 1
  BY <1>0, <1>1, TailAt
<1>3. push.pc = "idle"
  BY <1>0, <1>1 DEF Roles
<1>4. /\ PushMark = RingMark /\ TaskMark = Place("callback") /\ RingMark' = RingMark
      /\ PushMark' = Mark(slot[h]) /\ TaskMark' = Mark(slot[h]) /\ Place("callback")' = Place("callback")
  BY <1>1, <1>2, <1>3 DEF PushMark, TaskMark, RingMark, Pushing, Place, Mark
<1>5. After(RingMark, slot[h]) /\ After(Place("callback"), slot[h])
  BY <1>1, <1>4 DEF Line, QueueLine
<1>6. RingLine'
  BY <1>1 DEF Line, RingLine, Place, Mark, After, Reached, Known
<1>7. PushLine' /\ TaskLine'
  BY <1>1, <1>2, <1>4, <1>5 DEF PushLine, TaskLine, After, Reached, Known
<1>8. QueueLine'
  <2>1. ASSUME NEW i \in 1 .. L - 1
        PROVE  After(Mark(slot[filledQ[i]]), slot[filledQ[i + 1]])
    BY DEF Line, QueueLine
  <2>2. filledQ' # <<>> => After(Mark(slot[h]), slot[filledQ'[1]])
    <3> SUFFICES ASSUME filledQ' # <<>> PROVE After(Mark(slot[h]), slot[filledQ'[1]])
      OBVIOUS
    <3>1. 1 \in 1 .. L - 1
      BY <1>2
    <3>2. After(Mark(slot[filledQ[1]]), slot[filledQ[1 + 1]])
      BY <2>1, <3>1
    <3> QED
      BY <1>2, <3>1, <3>2
  <2>3. ASSUME NEW i \in 1 .. Len(filledQ') - 1
        PROVE  After(Mark(slot[filledQ'[i]]), slot[filledQ'[i + 1]])
    <3>1. i \in 1 .. L - 1 /\ i + 1 \in 1 .. L - 1
      BY <1>2
    <3>2. After(Mark(slot[filledQ[i + 1]]), slot[filledQ[(i + 1) + 1]])
      BY <2>1, <3>1
    <3> QED
      BY <1>2, <3>1, <3>2
  <2> QED
    BY <1>1, <1>4, <2>2, <2>3 DEF QueueLine, After, Reached, Known, Mark
<1>9. ReadEnd' = ReadEnd /\ TaskEnd' = TaskEnd
  <2>1. CASE L = 1
    BY <1>1, <1>2, <1>4, <2>1 DEF ReadEnd, TaskEnd, QueueMark
  <2>2. CASE L # 1
    <3>1. filledQ'[Len(filledQ')] = filledQ[L] /\ filledQ' # <<>>
      BY <1>2, <2>2
    <3> QED
      BY <1>1, <3>1 DEF ReadEnd, TaskEnd, QueueMark, Mark
  <2> QED
    BY <2>1, <2>2
<1>10. BlockLine' /\ Marked'
  <2>1. ReadEnd \in MarkType /\ TaskEnd \in MarkType
    BY UpToComing
  <2> QED
    BY <1>1, <1>9, <2>1, EarlierSame, EndsKept
<1> QED
  BY <1>6, <1>7, <1>8, <1>10 DEF Line

\* The callback channel moves on by a whole slot.
LEMMA CallBackLine ==
  ASSUME IInv, Roles, Line, Marked, CallBack
  PROVE  Line' /\ Marked'
<1>0. /\ held \in HeldType /\ cursor \in [Channels -> CursorType] /\ told \in [Channels -> ToldType]
      /\ "callback" \in Channels /\ "read" \in Channels /\ slot[held.id] \in SpanType
      /\ Place("callback") \in MarkType
  BY LineTypes DEF IInv, TypeOK, CallBack, Channels
<1>1. /\ held.pc = "push" /\ held' = [held EXCEPT !.pc = "return"]
      /\ UNCHANGED <<gate, seen, gaps, causes, torn, block, spans, offset, push, filledQ, slot>>
  BY DEF CallBack, ring, timeline
<1>2. Place("read")' = Place("read")
      /\ (Place("callback")' = Place("callback") \/ Place("callback")' = Mark(slot[held.id]))
  <2>1. CASE UNCHANGED <<cursor, told>>
    BY <2>1 DEF Place
  <2>2. CASE Deliver("callback", slot[held.id], [k \in 1 .. slot[held.id].len |-> Pair(slot[held.id], k - 1)])
    <3> DEFINE s == slot[held.id]
               pairs == [k \in 1 .. s.len |-> Pair(s, k - 1)]
    <3>1. s.len \in Nat /\ Len(pairs) = s.len
      <4>1. s.len \in Nat
        BY <1>0 DEF SpanType
      <4> QED
        BY <4>1
    <3>2. /\ cursor'["callback"] = [epoch |-> s.epoch, end |-> s.first + Len(pairs), unknown |-> s.gaps]
          /\ cursor'["read"] = cursor["read"]
      BY <1>0, <2>2 DEF Deliver
    <3>3. told'["callback"].torn = s.torn /\ told'["read"] = told["read"]
      BY <1>0, <2>2 DEF Deliver
    <3> QED
      BY <3>1, <3>2, <3>3 DEF Place, Mark
  <2> QED
    BY <2>1, <2>2 DEF CallBack
<1>3. /\ RingMark' = RingMark /\ PushMark' = PushMark
  BY <1>1, <1>2 DEF RingMark, PushMark, Pushing, Mark
<1>4. RingLine' /\ PushLine'
  BY <1>1, <1>2, <1>3 DEF Line, RingLine, PushLine, Pushing, After, Reached, Known, Mark
<1>5. TaskMark' = Place("callback")' /\ ~(held'.pc = "push") /\ TaskMark = Mark(slot[held.id])
  BY <1>0, <1>1 DEF TaskMark, Place, HeldType
<1>6. PICK n \in MarkType : n = TaskMark' /\ Earlier(n, TaskMark)
  <2>1. TaskMark \in MarkType
    BY LineTypes
  <2>2. After(Place("callback"), slot[held.id])
    BY <1>1 DEF Line, TaskLine
  <2>3. Earlier(Place("callback"), TaskMark) /\ Earlier(TaskMark, TaskMark)
    BY <1>0, <1>5, <2>1, <2>2, EarlierSame DEF Earlier
  <2> QED
    BY <1>0, <1>2, <1>5, <2>1, <2>3
<1>7. PushMark \in MarkType /\ Earlier(PushMark, PushMark)
  BY LineTypes, EarlierSame
<1>8. /\ QueueLine' /\ ReadEnd' \in MarkType /\ TaskEnd' \in MarkType
      /\ Earlier(ReadEnd', ReadEnd) /\ Earlier(TaskEnd', TaskEnd)
  BY <1>1, <1>3, <1>6, <1>7, QueueKept
<1>9. BlockLine' /\ Marked'
  BY <1>1, <1>8, EndsKept
<1> QED
  BY <1>4, <1>5, <1>8, <1>9 DEF Line, TaskLine

\* The slot handed back is in no line any more.
LEMMA ReturnSlotLine ==
  ASSUME IInv, SlotsApart, Line, Marked, ReturnSlot
  PROVE  Line' /\ Marked'
<1>0. filledQ \in Seq(Slots) /\ slot \in [Slots -> SpanType]
  BY DEF IInv, TypeOK
<1>1. /\ held.pc = "return" /\ held' = [pc |-> "idle", id |-> 0]
      /\ slot' = [slot EXCEPT ![held.id] = NoBlock]
      /\ UNCHANGED <<gate, seen, gaps, causes, torn, block, spans, offset, push, filledQ, cursor, told>>
  BY DEF ReturnSlot, ring, reader, timeline
<1>2. \A i \in 1 .. Len(filledQ) : slot'[filledQ[i]] = slot[filledQ[i]]
  BY <1>0, <1>1 DEF SlotsApart
<1>3. /\ RingMark' = RingMark /\ PushMark' = PushMark /\ TaskMark' = TaskMark
  BY <1>1 DEF RingMark, PushMark, TaskMark, Pushing, Mark, Place
<1>4. RingLine' /\ PushLine' /\ TaskLine'
  BY <1>1, <1>3 DEF Line, RingLine, PushLine, TaskLine, Pushing, Place, After, Reached, Known, Mark
<1>5. /\ Len(filledQ) \in Nat
      /\ filledQ # <<>> => 1 \in 1 .. Len(filledQ) /\ Len(filledQ) \in 1 .. Len(filledQ)
  BY LineTypes
<1>6. QueueLine'
  <2>1. filledQ # <<>> => /\ After(PushMark, slot'[filledQ[1]])
                          /\ After(TaskMark, slot'[filledQ[1]])
    BY <1>2, <1>5 DEF Line, QueueLine
  <2>2. ASSUME NEW i \in 1 .. Len(filledQ) - 1
        PROVE  After(Mark(slot'[filledQ[i]]), slot'[filledQ[i + 1]])
    <3>1. i \in 1 .. Len(filledQ) /\ i + 1 \in 1 .. Len(filledQ)
      BY <1>5
    <3>2. After(Mark(slot[filledQ[i]]), slot[filledQ[i + 1]])
      BY DEF Line, QueueLine
    <3> QED
      BY <1>2, <3>1, <3>2
  <2> QED
    BY <1>1, <1>3, <2>1, <2>2 DEF QueueLine, After, Reached, Known, Mark
<1>7. ReadEnd' = ReadEnd /\ TaskEnd' = TaskEnd
  BY <1>1, <1>2, <1>3, <1>5 DEF ReadEnd, TaskEnd, QueueMark, Mark
<1>8. BlockLine' /\ Marked'
  <2>1. ReadEnd \in MarkType /\ TaskEnd \in MarkType
    BY UpToComing
  <2> QED
    BY <1>1, <1>7, <2>1, EarlierSame, EndsKept
<1> QED
  BY <1>4, <1>6, <1>8 DEF Line

\* Where a hand-over to the reader leaves it.
LEMMA ReadPlace ==
  ASSUME IInv, PushShape, Taken, ReadDeliver
  PROVE  /\ spans # <<>> /\ spans[1] \in SpanType /\ rd.n \in Nat /\ rd.n > 0 /\ offset \in Nat
         /\ Head(spans) = spans[1] /\ offset + rd.n <= spans[1].len /\ spans[1].len \in Nat
         /\ spans[1].first \in Nat
         /\ Peek(rd.n) = [spans[1] EXCEPT !.first = spans[1].first + offset, !.len = rd.n]
         /\ Deliver("read", Peek(rd.n), rd.out) /\ Len(rd.out) = rd.n
         /\ Place("read")' = [Mark(spans[1]) EXCEPT !.end = spans[1].first + offset + rd.n]
         /\ Place("callback")' = Place("callback")
<1>1. rd.pc = "deliver" /\ Deliver("read", Peek(rd.n), rd.out)
  BY DEF ReadDeliver
<1>2. /\ spans # <<>> /\ 1 \in 1 .. Len(spans) /\ Head(spans) = spans[1] /\ rd.n \in Nat /\ offset \in Nat
      /\ offset + rd.n <= spans[1].len /\ rd.n > 0
  BY <1>1, RingTypes DEF PushShape
<1>3. spans[1] \in SpanType /\ spans[1].len \in Nat /\ spans[1].first \in Nat
  BY <1>2, RingTypes
<1>4. Len(rd.out) = rd.n
  BY <1>1 DEF Taken
<1>5. Min2(rd.n, spans[1].len - offset) = rd.n
  BY <1>2, <1>3 DEF Min2
<1>6. Peek(rd.n) = [spans[1] EXCEPT !.first = spans[1].first + offset, !.len = rd.n]
  <2>1. Peek(rd.n) = [spans[1] EXCEPT !.first = @ + offset, !.len = Min2(rd.n, @ - offset)]
    BY <1>2 DEF Peek
  <2> QED
    BY <1>3, <1>5, <2>1 DEF SpanType
<1>7. PICK s : s = Peek(rd.n)
  OBVIOUS
<1>8. /\ s.first = spans[1].first + offset /\ s.epoch = spans[1].epoch /\ s.gaps = spans[1].gaps
      /\ s.torn = spans[1].torn
  BY <1>3, <1>6, <1>7 DEF SpanType
<1>9. /\ cursor \in [Channels -> CursorType] /\ told \in [Channels -> ToldType]
      /\ "read" \in Channels /\ "callback" \in Channels
  BY DEF IInv, TypeOK, Channels
<1>10. /\ cursor'["read"] = [epoch |-> s.epoch, end |-> s.first + Len(rd.out), unknown |-> s.gaps]
       /\ told'["read"].torn = s.torn
       /\ cursor'["callback"] = cursor["callback"] /\ told'["callback"] = told["callback"]
  BY <1>1, <1>7, <1>9 DEF Deliver
<1>11. Place("read")' = [epoch |-> s.epoch, end |-> s.first + rd.n, gaps |-> s.gaps, torn |-> s.torn]
  BY <1>4, <1>10 DEF Place
<1>12. Place("read")' = [Mark(spans[1]) EXCEPT !.end = spans[1].first + offset + rd.n]
  BY <1>8, <1>11 DEF Mark
<1> QED
  BY <1>1, <1>2, <1>3, <1>4, <1>6, <1>10, <1>12 DEF Place

\* A read takes the first descriptor or a part of it.
LEMMA RetireLine ==
  ASSUME IInv, PushShape, Taken, Line, ReadDeliver
  PROVE  /\ RingLine' /\ RingMark' = RingMark
         /\ \/ offset' # 0 /\ spans' = spans
            \/ spans # <<>> /\ spans' = Tail(spans) /\ Place("read")' = Mark(spans[1])
<1>1. /\ UNCHANGED <<gate, seen, gaps, causes, torn, block, push, filledQ, slot, held>>
  BY DEF ReadDeliver, slots, timeline
<1>2. /\ spans # <<>> /\ spans[1] \in SpanType /\ rd.n \in Nat /\ rd.n > 0 /\ offset \in Nat
      /\ Head(spans) = spans[1] /\ offset + rd.n <= spans[1].len /\ spans[1].len \in Nat
      /\ spans[1].first \in Nat
      /\ Place("read")' = [Mark(spans[1]) EXCEPT !.end = spans[1].first + offset + rd.n]
      /\ Place("callback")' = Place("callback")
  BY ReadPlace
<1>3. Len(spans) \in Nat \ {0} /\ spans \in Seq(SpanType)
  BY <1>2, RingTypes
<1>4. \A i \in 1 .. Len(spans) - 1 : After(Mark(spans[i]), spans[i + 1])
  BY DEF Line, RingLine
<1>5. /\ RingLine' /\ RingMark' = RingMark
      /\ \/ offset' # 0 /\ spans' = spans
         \/ spans' = Tail(spans) /\ Place("read")' = Mark(spans[1])
  <2>1. CASE offset + rd.n = spans[1].len
    <3>1. offset' = 0 /\ spans' = Tail(spans)
      BY <1>2, <2>1 DEF ReadDeliver
    <3>2. /\ Len(spans') = Len(spans) - 1
          /\ \A i \in 1 .. Len(spans) - 1 : spans'[i] = spans[i + 1]
          /\ spans' = <<>> <=> Len(spans) = 1
      BY <1>2, <1>3, <3>1, TailAt
    <3>3. spans[1].first + offset + rd.n = spans[1].first + spans[1].len
      BY <1>2, <2>1
    <3>4. Place("read")' = Mark(spans[1])
      BY <1>2, <3>3 DEF Mark
    <3>5. ASSUME NEW i \in 1 .. Len(spans') - 1 PROVE After(Mark(spans'[i]), spans'[i + 1])
      <4>1. i \in 1 .. Len(spans) - 1 /\ i + 1 \in 1 .. Len(spans) - 1
        BY <1>3, <3>2
      <4>2. After(Mark(spans[i + 1]), spans[(i + 1) + 1])
        BY <1>4, <4>1
      <4> QED
        BY <3>2, <4>1, <4>2
    <3>6. spans' # <<>> => After(Mark(spans[1]), spans'[1])
      <4> SUFFICES ASSUME spans' # <<>> PROVE After(Mark(spans[1]), spans'[1])
        OBVIOUS
      <4>1. 1 \in 1 .. Len(spans) - 1
        BY <1>3, <3>2
      <4>2. After(Mark(spans[1]), spans[1 + 1])
        BY <1>4, <4>1
      <4> QED
        BY <3>2, <4>1, <4>2
    <3>7. RingLine'
      BY <3>1, <3>4, <3>5, <3>6 DEF RingLine, After, Reached, Known, Mark
    <3>8. CASE Len(spans) = 1
      <4>1. spans' = <<>>
        BY <3>2, <3>8
      <4>2. RingMark' = Place("read")'
        BY <4>1 DEF RingMark, Place
      <4> QED
        BY <1>2, <3>1, <3>4, <3>7, <3>8, <4>2 DEF RingMark
    <3>9. CASE Len(spans) # 1
      <4>1. spans'[Len(spans')] = spans[Len(spans)] /\ spans' # <<>>
        BY <1>3, <3>2, <3>9
      <4> QED
        BY <1>2, <3>1, <3>4, <3>7, <4>1 DEF RingMark, Mark
    <3> QED
      BY <3>8, <3>9
  <2>2. CASE offset + rd.n # spans[1].len
    <3>1. offset' = offset + rd.n /\ spans' = spans
      BY <1>2, <2>2 DEF ReadDeliver
    <3>2. offset' # 0 /\ spans[1].first + offset + rd.n = spans[1].first + offset'
      BY <1>2, <3>1
    <3>3. Place("read")' = [Mark(spans[1]) EXCEPT !.end = spans[1].first + offset']
      BY <1>2, <3>2
    <3>4. RingLine'
      BY <1>4, <3>1, <3>2, <3>3 DEF RingLine, After, Reached, Known, Mark
    <3>5. RingMark' = RingMark
      BY <1>2, <3>1 DEF RingMark, Mark
    <3> QED
      BY <3>1, <3>2, <3>4, <3>5
  <2> QED
    BY <2>1, <2>2
<1> QED
  BY <1>2, <1>5

\* The read channel moves on by what was read.
LEMMA ReadDeliverLine ==
  ASSUME IInv, PushShape, Taken, Line, Marked, ReadDeliver
  PROVE  Line' /\ Marked'
<1>1. /\ UNCHANGED <<gate, seen, gaps, causes, torn, block, push, filledQ, slot, held>>
  BY DEF ReadDeliver, slots, timeline
<1>2. Place("callback")' = Place("callback")
  BY ReadPlace
<1>5. RingLine' /\ RingMark' = RingMark
  BY RetireLine
<1>6. PushMark' = PushMark /\ TaskMark' = TaskMark
  BY <1>1, <1>2, <1>5 DEF PushMark, TaskMark, Pushing, Mark
<1>7. PushLine' /\ TaskLine'
  BY <1>1, <1>2, <1>5 DEF Line, PushLine, TaskLine, Pushing, After, Reached, Known
<1>8. PushMark \in MarkType /\ TaskMark \in MarkType
  BY LineTypes
<1>9. /\ QueueLine' /\ ReadEnd' \in MarkType /\ TaskEnd' \in MarkType
      /\ Earlier(ReadEnd', ReadEnd) /\ Earlier(TaskEnd', TaskEnd)
  BY <1>1, <1>6, <1>8, EarlierSame, QueueKept
<1>10. BlockLine' /\ Marked'
  BY <1>1, <1>9, EndsKept
<1> QED
  BY <1>5, <1>7, <1>9, <1>10 DEF Line

\* Steps that touch no line.
LEMMA StillLine ==
  ASSUME IInv, Line, Marked,
         UNCHANGED <<gate, seen, gaps, torn, block, spans, offset, push, cursor, told, filledQ, slot, held>>
  PROVE  Line' /\ Marked'
<1>1. /\ RingLine' /\ PushLine' /\ TaskLine' /\ QueueLine'
      /\ ReadEnd' = ReadEnd /\ TaskEnd' = TaskEnd
  BY StandStill
<1>2. ReadEnd \in MarkType /\ TaskEnd \in MarkType
  BY UpToComing
<1>3. BlockLine' /\ Marked'
  BY <1>1, <1>2, EarlierSame, EndsKept
<1> QED
  BY <1>1, <1>3 DEF Line

\* Every step keeps both lines.
LEMMA LineStep ==
  ASSUME IInv, Flow, Line, Marked, [Next]_vars PROVE Line' /\ Marked'
<1>1. SlotsApart /\ Roles /\ PushShape /\ Taken
  BY DEF Flow
<1>2. CASE Control
  BY <1>2, ControlLine
<1>3. CASE Callback
  BY <1>1, <1>3, ObserveLine, TornLine, DropLine, PushBlockLine, ParkBlockLine DEF Callback
<1>4. CASE Push
  BY <1>1, <1>4, PushLineStep
<1>5. CASE Delivery
  BY <1>1, <1>5, TakeSlotLine, CallBackLine, ReturnSlotLine DEF Delivery
<1>6. CASE Reader
  <2>1. CASE ReadDeliver
    BY <1>1, <2>1, ReadDeliverLine
  <2>2. CASE ReadCopy \/ ReadFree \/ \E size \in ReadSizes : ReadLoad(size)
    <3>1. UNCHANGED <<gate, seen, gaps, torn, block, spans, offset, push, cursor, told, filledQ, slot, held>>
      BY <2>2 DEF ReadCopy, ReadFree, ReadLoad, ring, slots, timeline
    <3> QED
      BY <3>1, StillLine
  <2> QED
    BY <1>6, <2>1, <2>2 DEF Reader
<1>7. CASE UNCHANGED vars
  BY <1>7, StillLine DEF vars, ring, slots, reader, timeline
<1> QED
  BY <1>2, <1>3, <1>4, <1>5, <1>6, <1>7 DEF Next

\* At first both lines are empty.
LEMMA LineInit == ASSUME Init PROVE Line /\ Marked
<1>1. /\ spans = <<>> /\ filledQ = <<>> /\ push.pc = "idle" /\ held.pc = "idle" /\ block = NoBlock
      /\ seen = <<>> /\ gaps = 0 /\ torn = 0 /\ gate = "closed"
      /\ \A c \in Channels : Place(c) = [epoch |-> 0, end |-> 0, gaps |-> 0, torn |-> 0]
  BY DEF Init, NoPush, Place
<1>2. Channels = {"read", "callback"} /\ Len(<<>>) = 0
  BY DEF Channels
<1>3. RingLine /\ PushLine /\ TaskLine /\ QueueLine
  BY <1>1, <1>2 DEF RingLine, PushLine, TaskLine, QueueLine, Pushing
<1>4. /\ ReadEnd = [epoch |-> 0, end |-> 0, gaps |-> 0, torn |-> 0]
      /\ TaskEnd = [epoch |-> 0, end |-> 0, gaps |-> 0, torn |-> 0]
  BY <1>1, <1>2 DEF ReadEnd, TaskEnd, QueueMark, PushMark, TaskMark, RingMark, Pushing
<1>5. Coming.epoch = 0 /\ Coming.first = 0 /\ Coming.gaps = 0 /\ Coming.torn = 0
  BY <1>1, <1>2 DEF Coming, Epoch, Position
<1>6. BlockLine
  BY <1>1, <1>4, <1>5 DEF BlockLine, ReadEnd, TaskEnd, After, Reached, Known
<1>7. Marked
  BY <1>1 DEF Marked
<1> QED
  BY <1>3, <1>6, <1>7 DEF Line

\* The lines, on top of the flow.
LEMMA LineInvariance == Spec => [](IInv /\ Flow /\ Line /\ Marked)
<1>1. Init => Line /\ Marked
  BY LineInit
<1>2. IInv /\ Flow /\ Line /\ Marked /\ [Next]_vars => (Line /\ Marked)'
  BY LineStep
<1> QED
  BY <1>1, <1>2, FlowInvariance, PTL DEF Spec

\* The n pairs from span.first on are counted, and so are those skipped before them.
Counts(c, span, n) ==
  \/ /\ span.epoch > cursor[c].epoch
     /\ told'[c].got = n /\ told'[c].lost = span.first
  \/ /\ span.epoch = cursor[c].epoch /\ span.first >= cursor[c].end
     /\ told'[c].got = told[c].got + n
     /\ told'[c].lost = told[c].lost + (span.first - cursor[c].end)

\* What a hand-over does to its channel, given where the line says it stands.
LEMMA HandsOver ==
  ASSUME NEW c \in Channels, cursor \in [Channels -> CursorType], told \in [Channels -> ToldType],
         NEW span \in SpanType, NEW pairs, NEW n \in Nat, n = Len(pairs), n > 0,
         Deliver(c, span, pairs), After(Place(c), span)
  PROVE  /\ cursor'[c].epoch = span.epoch /\ cursor'[c].end = span.first + n
         /\ [epoch |-> cursor'[c].epoch, end |-> cursor'[c].end]
              # [epoch |-> cursor[c].epoch, end |-> cursor[c].end]
         /\ Counts(c, span, n)
         /\ \A d \in Channels : d # c => cursor'[d] = cursor[d] /\ told'[d] = told[d]
         /\ QuietRecovery => (told'[c].broken => told'[c].unknown)
<1>1. /\ cursor[c].epoch \in Nat /\ cursor[c].end \in Nat /\ cursor[c].unknown \in Nat
      /\ told[c].got \in Nat /\ told[c].lost \in Nat
      /\ span.epoch \in Nat /\ span.first \in Nat /\ span.gaps \in Nat
  BY DEF CursorType, ToldType, SpanType
<1>2. /\ Place(c).epoch = cursor[c].epoch /\ Place(c).end = cursor[c].end
      /\ Place(c).gaps = cursor[c].unknown /\ Place(c).torn = told[c].torn
  BY DEF Place
<1>3. /\ cursor' = [cursor EXCEPT ![c] = [epoch |-> span.epoch, end |-> span.first + n,
                                          unknown |-> span.gaps]]
  BY DEF Deliver
<1>4. /\ cursor'[c] = [epoch |-> span.epoch, end |-> span.first + n, unknown |-> span.gaps]
      /\ \A d \in Channels : d # c => cursor'[d] = cursor[d]
  BY <1>3
<1>5. \A d \in Channels : d # c => told'[d] = told[d]
  BY DEF Deliver
<1>6. CASE cursor[c].epoch # span.epoch
  <2>1. span.epoch > cursor[c].epoch
    BY <1>1, <1>2, <1>6 DEF After
  <2>2. /\ told'[c].got = n + 0 /\ told'[c].lost = span.first - 0 + 0
    BY <1>1, <1>6 DEF Deliver
  <2>3. ~told'[c].broken
    BY <1>6 DEF Deliver
  <2> QED
    BY <1>1, <1>4, <1>5, <1>6, <2>1, <2>2, <2>3 DEF Counts
<1>7. CASE cursor[c].epoch = span.epoch
  <2>1. /\ span.first >= cursor[c].end
        /\ QuietRecovery /\ told[c].torn # span.torn => cursor[c].unknown < span.gaps
    BY <1>1, <1>2, <1>7 DEF After, Reached
  <2>2. /\ told'[c].got = n + told[c].got
        /\ told'[c].lost = span.first - cursor[c].end + told[c].lost
    BY <1>1, <1>7, <2>1 DEF Deliver
  <2>3. told'[c].broken = (span.torn # told[c].torn) /\ told'[c].unknown = (span.gaps # cursor[c].unknown)
    BY <1>7 DEF Deliver
  <2>a. QuietRecovery /\ told[c].torn # span.torn => span.gaps # cursor[c].unknown
    BY <1>1, <2>1
  <2>4. QuietRecovery => (told'[c].broken => told'[c].unknown)
    BY <2>3, <2>a
  <2>5. cursor[c].end # span.first + n
    BY <1>1, <2>1
  <2> QED
    BY <1>1, <1>4, <1>5, <1>7, <2>1, <2>2, <2>4, <2>5 DEF Counts
<1> QED
  BY <1>6, <1>7

\* A read hands over received samples that come after all it handed over
\* before.
LEMMA ReadHandsOver ==
  ASSUME IInv, Flow, Line, ReadDeliver
  PROVE  \E s \in SpanType, n \in Nat :
            /\ s = Peek(rd.n) /\ n = Len(rd.out) /\ n > 0 /\ Deliver("read", s, rd.out)
            /\ After(Place("read"), s)
            /\ s.epoch \in 1 .. Len(seen) /\ s.first + n <= seen[s.epoch]
<1>1. /\ spans # <<>> /\ spans[1] \in SpanType /\ rd.n \in Nat /\ rd.n > 0 /\ offset \in Nat
      /\ offset + rd.n <= spans[1].len /\ spans[1].len \in Nat /\ spans[1].first \in Nat
      /\ Peek(rd.n) = [spans[1] EXCEPT !.first = spans[1].first + offset, !.len = rd.n]
      /\ Deliver("read", Peek(rd.n), rd.out) /\ Len(rd.out) = rd.n
  BY ReadPlace DEF Flow
<1>2. PICK s : s = Peek(rd.n)
  OBVIOUS
<1>3. /\ s \in SpanType /\ s.first = spans[1].first + offset /\ s.epoch = spans[1].epoch
      /\ s.gaps = spans[1].gaps /\ s.torn = spans[1].torn
  <2>1. spans[1].first + offset \in Nat
    BY <1>1
  <2> QED
    BY <1>1, <1>2, <2>1 DEF SpanType
<1>4. After(Place("read"), s)
  <2>1. Place("read") \in MarkType
    BY LineTypes
  <2>2. CASE offset = 0
    <3>1. After(Place("read"), spans[1]) /\ s.first = spans[1].first
      BY <1>1, <1>3, <2>2 DEF Line, RingLine
    <3> QED
      BY <1>1, <1>3, <2>1, <3>1, AfterAlike
  <2>3. CASE offset # 0
    <3>1. Place("read") = [Mark(spans[1]) EXCEPT !.end = spans[1].first + offset]
      BY <1>1, <2>3 DEF Line, RingLine
    <3>2. /\ Place("read").epoch = s.epoch /\ Place("read").end = s.first /\ Place("read").gaps = s.gaps
          /\ Place("read").torn = s.torn
      BY <1>3, <3>1 DEF Mark
    <3>3. s.epoch \in Nat /\ s.first \in Nat /\ s.gaps \in Nat
      BY <1>3 DEF SpanType
    <3> QED
      BY <3>2, <3>3 DEF After, Reached, Known
  <2> QED
    BY <2>2, <2>3
<1>5. s.epoch \in 1 .. Len(seen) /\ s.first + rd.n <= seen[s.epoch]
  <2>1. 1 \in 1 .. Len(spans)
    BY <1>1, RingTypes
  <2>2. SeenIn(seen, spans[1])
    BY <2>1 DEF Flow, Observed
  <2>3. s.epoch \in 1 .. Len(seen) /\ spans[1].first + spans[1].len <= seen[s.epoch]
    BY <1>3, <2>2 DEF SeenIn
  <2>4. seen \in Seq(Nat)
    BY DEF IInv, TypeOK
  <2>5. seen[s.epoch] \in Nat
    BY <2>3, <2>4
  <2>6. /\ s.first + rd.n \in Nat /\ spans[1].first + spans[1].len \in Nat
        /\ s.first + rd.n <= spans[1].first + spans[1].len
    <3>1. /\ rd.n \in Nat /\ offset \in Nat /\ spans[1].len \in Nat /\ spans[1].first \in Nat
          /\ offset + rd.n <= spans[1].len
      BY <1>1
    <3>2. s.first = spans[1].first + offset
      BY <1>3
    <3> QED
      BY <3>1, <3>2
  <2> QED
    BY <2>3, <2>5, <2>6
<1> QED
  BY <1>1, <1>2, <1>3, <1>4, <1>5

\* So does a callback.
LEMMA CallbackHandsOver ==
  ASSUME IInv, Flow, Line, CallBack, ~UNCHANGED <<cursor, told>>
  PROVE  \E s \in SpanType, n \in Nat :
            LET pairs == [k \in 1 .. s.len |-> Pair(s, k - 1)] IN
            /\ n = Len(pairs) /\ n > 0 /\ Deliver("callback", s, pairs)
            /\ s = slot[held.id] /\ After(Place("callback"), s)
            /\ s.epoch \in 1 .. Len(seen) /\ s.first + n <= seen[s.epoch]
<1>1. held.pc = "push"
  BY DEF CallBack
<1>2. PICK s : s = slot[held.id]
  OBVIOUS
<1>3. s \in SpanType /\ SeenIn(seen, s) /\ After(Place("callback"), s) /\ s.len \in Nat
  <2>1. s \in SpanType
    BY <1>1, <1>2, LineTypes
  <2> QED
    BY <1>1, <1>2, <2>1 DEF Flow, Observed, Line, TaskLine, SpanType
<1>4. Deliver("callback", s, [k \in 1 .. s.len |-> Pair(s, k - 1)])
  BY <1>2 DEF CallBack
<1>5. Len([k \in 1 .. s.len |-> Pair(s, k - 1)]) = s.len
  BY <1>3
<1> QED
  BY <1>2, <1>3, <1>4, <1>5 DEF SeenIn

\* A hand-over of channel c is an Advance of what the channel promises, whatever is handed over.
LEMMA Advances ==
  ASSUME NEW c \in Channels, IInv, Flow, seen' = seen,
         NEW span \in SpanType, NEW pairs, NEW n \in Nat, n = Len(pairs), n > 0,
         Deliver(c, span, pairs), After(Place(c), span),
         span.epoch \in 1 .. Len(seen), span.first + n <= seen[span.epoch]
  PROVE  \E e \in DOMAIN seen, from, end \in 0 .. MaxIndex :
            /\ from < end /\ end <= seen[e]
            /\ \/ /\ e > cursor[c].epoch
                  /\ told'[c].got = end - from /\ told'[c].lost = from
               \/ /\ e = cursor[c].epoch /\ from >= cursor[c].end
                  /\ told'[c].got = told[c].got + (end - from)
                  /\ told'[c].lost = told[c].lost + (from - cursor[c].end)
            /\ [epoch |-> cursor'[c].epoch, end |-> cursor'[c].end] = [epoch |-> e, end |-> end]
<1>1. cursor \in [Channels -> CursorType] /\ told \in [Channels -> ToldType] /\ seen \in Seq(Nat)
  BY DEF IInv, TypeOK
<1>2. span.first \in Nat /\ span.epoch \in Nat /\ seen[span.epoch] \in Nat /\ seen[span.epoch] <= MaxIndex
      /\ DOMAIN seen = 1 .. Len(seen)
  BY <1>1 DEF SpanType, Flow, Observed
<1>3. PICK end \in 0 .. MaxIndex : end = span.first + n
  BY <1>2, BoundAssumption
<1>4. span.first \in 0 .. MaxIndex /\ span.first < end /\ end - span.first = n
  BY <1>2, <1>3, BoundAssumption
<1>5. /\ cursor'[c].epoch = span.epoch /\ cursor'[c].end = span.first + n
      /\ Counts(c, span, n)
  BY <1>1, HandsOver
<1> QED
  BY <1>2, <1>3, <1>4, <1>5 DEF Counts

\* How each step looks to a channel.
LEMMA ChannelSteps ==
  ASSUME IInv, [Next]_vars
  PROVE  \/ /\ seen' = Append(seen, 0) /\ UNCHANGED <<cursor, told>>
         \/ /\ seen # <<>> /\ UNCHANGED <<cursor, told>>
            /\ \E n \in 0 .. MaxIndex : n > seen[Len(seen)] /\ seen' = [seen EXCEPT ![Len(seen)] = n]
         \/ UNCHANGED <<seen, cursor, told>>
         \/ seen' = seen /\ ReadDeliver
         \/ seen' = seen /\ CallBack /\ ~UNCHANGED <<cursor, told>>
<1>1. ASSUME NEW len \in BlockSizes, Observe(len)
      PROVE  /\ seen # <<>> /\ UNCHANGED <<cursor, told>>
             /\ \E n \in 0 .. MaxIndex : n > seen[Len(seen)] /\ seen' = [seen EXCEPT ![Len(seen)] = n]
  <2>1. len \in Nat /\ len > 0
    BY SizesAssumption
  <2>2. /\ seen' = [seen EXCEPT ![Len(seen)] = @ + len] /\ seen # <<>> /\ UNCHANGED <<cursor, told>>
        /\ seen[Len(seen)] + len <= MaxIndex
    BY <1>1 DEF Observe, Epoch, Position, reader
  <2>3. seen \in Seq(Nat)
    BY DEF IInv, TypeOK
  <2>4. seen[Len(seen)] \in Nat
    BY <2>2, <2>3
  <2>5. PICK n \in 0 .. MaxIndex : n = seen[Len(seen)] + len
    BY <2>1, <2>2, <2>4, BoundAssumption
  <2>6. n > seen[Len(seen)]
    BY <2>1, <2>4, <2>5
  <2>7. seen' = [seen EXCEPT ![Len(seen)] = n]
    BY <2>2, <2>5
  <2> QED
    BY <2>2, <2>6, <2>7
<1>2. Begin => seen' = Append(seen, 0) /\ UNCHANGED <<cursor, told>>
  BY DEF Begin, reader
<1>3. CASE Control
  BY <1>2, <1>3 DEF Control, Close, RecoverMark, RecoverPause, RecoverResume, reader, timeline
<1>4. CASE Callback
  BY <1>1, <1>4 DEF Callback, ObserveOdd, TransferError, DropAtGate, PushBlock, ParkBlock, Starve,
                    reader, timeline
<1>5. CASE Push
  BY <1>5 DEF Push, PushSpace, PushSpan, PushCopy, PushPublish, reader, timeline
<1>6. CASE Delivery
  BY <1>6 DEF Delivery, TakeSlot, CallBack, ReturnSlot, reader, timeline
<1>7. CASE Reader
  BY <1>7 DEF Reader, ReadLoad, ReadCopy, ReadDeliver, ReadFree, timeline
<1>8. CASE UNCHANGED vars
  BY <1>8 DEF vars, reader, timeline
<1> QED
  BY <1>3, <1>4, <1>5, <1>6, <1>7, <1>8 DEF Next

\* A step of the driver is a step of the read channel's lossy stream, or none.
LEMMA ReadChannelStep ==
  ASSUME IInv, Flow, Line, [Next]_vars
  PROVE  [ReadChannel!Next]_(ReadChannel!vars)
<1>1. CASE seen' = Append(seen, 0) /\ UNCHANGED <<cursor, told>>
  BY <1>1 DEF ReadChannel!Next, ReadChannel!NewEpoch
<1>2. CASE /\ seen # <<>> /\ UNCHANGED <<cursor, told>>
           /\ \E n \in 0 .. MaxIndex : n > seen[Len(seen)] /\ seen' = [seen EXCEPT ![Len(seen)] = n]
  BY <1>2 DEF ReadChannel!Next, ReadChannel!Observe
<1>3. CASE UNCHANGED <<seen, cursor, told>>
  BY <1>3 DEF ReadChannel!vars
<1>4. CASE seen' = seen /\ ReadDeliver
  <2>1. PICK s \in SpanType, n \in Nat :
            /\ s = Peek(rd.n) /\ n = Len(rd.out) /\ n > 0 /\ Deliver("read", s, rd.out)
            /\ After(Place("read"), s)
            /\ s.epoch \in 1 .. Len(seen) /\ s.first + n <= seen[s.epoch]
    BY <1>4, ReadHandsOver
  <2>2. /\ cursor \in [Channels -> CursorType] /\ told \in [Channels -> ToldType] /\ "read" \in Channels
    BY DEF IInv, TypeOK, Channels
  <2>3. \E e \in DOMAIN seen, from, end \in 0 .. MaxIndex :
            /\ from < end /\ end <= seen[e]
            /\ \/ /\ e > cursor["read"].epoch
                  /\ told'["read"].got = end - from /\ told'["read"].lost = from
               \/ /\ e = cursor["read"].epoch /\ from >= cursor["read"].end
                  /\ told'["read"].got = told["read"].got + (end - from)
                  /\ told'["read"].lost = told["read"].lost + (from - cursor["read"].end)
            /\ [epoch |-> cursor'["read"].epoch, end |-> cursor'["read"].end] = [epoch |-> e, end |-> end]
    BY <1>4, <2>1, <2>2, Advances
  <2>4. [epoch |-> cursor'["read"].epoch, end |-> cursor'["read"].end]
          # [epoch |-> cursor["read"].epoch, end |-> cursor["read"].end]
    BY <2>1, <2>2, HandsOver
  <2> QED
    BY <1>4, <2>3, <2>4 DEF ReadChannel!Next, ReadChannel!Advance, ReadChannel!HandOver
<1>5. CASE seen' = seen /\ CallBack
  <2>1. cursor'["read"] = cursor["read"] /\ told'["read"] = told["read"]
    <3>1. CASE UNCHANGED <<cursor, told>>
      BY <3>1
    <3>2. CASE ~UNCHANGED <<cursor, told>>
      <4>1. "read" \in Channels /\ "read" # "callback" /\ "callback" \in Channels
            /\ cursor \in [Channels -> CursorType] /\ told \in [Channels -> ToldType]
        BY DEF IInv, TypeOK, Channels
      <4>2. PICK s, pairs : Deliver("callback", s, pairs)
        BY <1>5, <3>2 DEF CallBack
      <4> QED
        BY <4>1, <4>2 DEF Deliver
    <3> QED
      BY <3>1, <3>2
  <2> QED
    BY <1>5, <2>1 DEF ReadChannel!vars
<1> QED
  BY <1>1, <1>2, <1>3, <1>4, <1>5, ChannelSteps

\* And of the callback channel's.
LEMMA CallbackChannelStep ==
  ASSUME IInv, Flow, Line, [Next]_vars
  PROVE  [CallbackChannel!Next]_(CallbackChannel!vars)
<1>0. /\ cursor \in [Channels -> CursorType] /\ told \in [Channels -> ToldType]
      /\ "callback" \in Channels /\ "read" \in Channels /\ "read" # "callback"
  BY DEF IInv, TypeOK, Channels
<1>1. CASE seen' = Append(seen, 0) /\ UNCHANGED <<cursor, told>>
  BY <1>1 DEF CallbackChannel!Next, CallbackChannel!NewEpoch
<1>2. CASE /\ seen # <<>> /\ UNCHANGED <<cursor, told>>
           /\ \E n \in 0 .. MaxIndex : n > seen[Len(seen)] /\ seen' = [seen EXCEPT ![Len(seen)] = n]
  BY <1>2 DEF CallbackChannel!Next, CallbackChannel!Observe
<1>3. CASE UNCHANGED <<seen, cursor, told>>
  BY <1>3 DEF CallbackChannel!vars
<1>4. CASE seen' = seen /\ ReadDeliver
  <2>1. cursor'["callback"] = cursor["callback"] /\ told'["callback"] = told["callback"]
    BY <1>0, <1>4 DEF ReadDeliver, Deliver
  <2> QED
    BY <1>4, <2>1 DEF CallbackChannel!vars
<1>5. CASE seen' = seen /\ CallBack /\ ~UNCHANGED <<cursor, told>>
  <2>1. PICK s \in SpanType, n \in Nat :
            LET pairs == [k \in 1 .. s.len |-> Pair(s, k - 1)] IN
            /\ n = Len(pairs) /\ n > 0 /\ Deliver("callback", s, pairs)
            /\ s = slot[held.id] /\ After(Place("callback"), s)
            /\ s.epoch \in 1 .. Len(seen) /\ s.first + n <= seen[s.epoch]
    BY <1>5, CallbackHandsOver
  <2>2. PICK pairs : pairs = [k \in 1 .. s.len |-> Pair(s, k - 1)]
    OBVIOUS
  <2>3. \E e \in DOMAIN seen, from, end \in 0 .. MaxIndex :
            /\ from < end /\ end <= seen[e]
            /\ \/ /\ e > cursor["callback"].epoch
                  /\ told'["callback"].got = end - from /\ told'["callback"].lost = from
               \/ /\ e = cursor["callback"].epoch /\ from >= cursor["callback"].end
                  /\ told'["callback"].got = told["callback"].got + (end - from)
                  /\ told'["callback"].lost = told["callback"].lost + (from - cursor["callback"].end)
            /\ [epoch |-> cursor'["callback"].epoch, end |-> cursor'["callback"].end]
                 = [epoch |-> e, end |-> end]
    BY <1>0, <1>5, <2>1, <2>2, Advances
  <2>4. [epoch |-> cursor'["callback"].epoch, end |-> cursor'["callback"].end]
          # [epoch |-> cursor["callback"].epoch, end |-> cursor["callback"].end]
    BY <1>0, <2>1, <2>2, HandsOver
  <2> QED
    BY <1>5, <2>3, <2>4 DEF CallbackChannel!Next, CallbackChannel!Advance, CallbackChannel!HandOver
<1> QED
  BY <1>1, <1>2, <1>3, <1>4, <1>5, ChannelSteps

\* The reader's channel implements the lossy stream.
THEOREM ReadImplements == Spec => ReadIsLossyStream
<1>1. Init => ReadChannel!Init
  BY DEF Init, ReadChannel!Init, Channels
<1>2. IInv /\ Flow /\ Line /\ [Next]_vars => [ReadChannel!Next]_(ReadChannel!vars)
  BY ReadChannelStep
<1> QED
  BY <1>1, <1>2, LineInvariance, PTL DEF Spec, ReadIsLossyStream, ReadChannel!Spec

\* So does the callback's.
THEOREM CallbackImplements == Spec => CallbackIsLossyStream
<1>1. Init => CallbackChannel!Init
  BY DEF Init, CallbackChannel!Init, Channels
<1>2. IInv /\ Flow /\ Line /\ [Next]_vars => [CallbackChannel!Next]_(CallbackChannel!vars)
  BY CallbackChannelStep
<1> QED
  BY <1>1, <1>2, LineInvariance, PTL DEF Spec, CallbackIsLossyStream, CallbackChannel!Spec

\* A break within an epoch has raised the gaps between the marks it is
\* between.
LEMMA BreakStep ==
  ASSUME QuietRecovery, IInv, Flow, Line, NoSilentBreak, [Next]_vars PROVE NoSilentBreak'
<1>1. /\ cursor \in [Channels -> CursorType] /\ told \in [Channels -> ToldType]
      /\ Channels = {"read", "callback"}
  BY DEF IInv, TypeOK, Channels
<1>2. ASSUME NEW c \in Channels, NEW span \in SpanType, NEW pairs, NEW n \in Nat, n = Len(pairs), n > 0,
             Deliver(c, span, pairs), After(Place(c), span)
      PROVE  NoSilentBreak'
  <2>1. /\ \A d \in Channels : d # c => told'[d] = told[d]
        /\ told'[c].broken => told'[c].unknown
    BY <1>1, <1>2, HandsOver
  <2> QED
    BY <2>1 DEF NoSilentBreak
<1>3. CASE UNCHANGED <<cursor, told>>
  BY <1>3 DEF NoSilentBreak
<1>4. CASE CallBack /\ ~UNCHANGED <<cursor, told>>
  BY <1>1, <1>2, <1>4, CallbackHandsOver
<1>5. CASE ReadDeliver
  BY <1>1, <1>2, <1>5, ReadHandsOver
<1> QED
  BY <1>3, <1>4, <1>5, Frames

\* No break of the sample stream hides between two hand-overs of one epoch, if no transfer
\* completes between a stall's marker and the pause that follows it (the code does not see to
\* that: RecoveryWithoutWindow).
THEOREM BreaksTold == ASSUME QuietRecovery PROVE Spec => []NoSilentBreak
<1>1. Init => NoSilentBreak
  BY DEF Init, NoSilentBreak
<1>2. IInv /\ Flow /\ Line /\ NoSilentBreak /\ [Next]_vars => NoSilentBreak'
  BY BreakStep
<1> QED
  BY <1>1, <1>2, LineInvariance, PTL DEF Spec

----------------------------------------------------------------------------
(* The causes: no hole in the read channel's line is without one. *)

\* A hole before a span has a cause in the span, in what is pending for it, or
\* is a known gap.
Covered(m, s, extra) ==
  Reached(m, s.epoch) < s.first => s.causes \cup extra # {} \/ Known(m, s.epoch) < s.gaps

\* The causes that the next block into the ring will take along.
PushExtra == IF Pushing THEN {} ELSE pending

\* The causes that a block behind the filled slots will take along.
QueueExtra == IF filledQ = <<>> THEN PushExtra ELSE {}

\* No hole between the descriptors is without a cause.
CoverRing ==
  /\ spans # <<>> /\ offset = 0 => Covered(Place("read"), spans[1], {})
  /\ \A i \in 1 .. Len(spans) - 1 : Covered(Mark(spans[i]), spans[i + 1], {})

\* Nor one before the producer's block.
CoverPush == Pushing => Covered(RingMark, push.span, pending)

\* Nor one between the filled slots.
CoverQueue ==
  /\ filledQ # <<>> => Covered(PushMark, slot[filledQ[1]], PushExtra)
  /\ \A i \in 1 .. Len(filledQ) - 1 : Covered(Mark(slot[filledQ[i]]), slot[filledQ[i + 1]], {})

\* Nor one before the block at the gate, or before what is to come.
CoverEnd ==
  GateOpen => IF block # NoBlock
              THEN Covered(ReadEnd, block, QueueExtra) /\ Covered(Mark(block), Coming, {})
              ELSE Covered(ReadEnd, Coming, QueueExtra)

\* No hole of the read channel's line is without a cause.
Cover == CoverRing /\ CoverPush /\ CoverQueue /\ CoverEnd

\* Parts that nobody moves.
LEMMA CoverStill ==
  ASSUME Cover, UNCHANGED <<spans, offset, push, pending, filledQ>>, Place("read")' = Place("read"),
         \A i \in 1 .. Len(filledQ) : slot'[filledQ[i]] = slot[filledQ[i]], filledQ \in Seq(Slots)
  PROVE  /\ CoverRing' /\ CoverPush' /\ CoverQueue'
         /\ ReadEnd' = ReadEnd /\ QueueExtra' = QueueExtra
<1>1. /\ RingMark' = RingMark /\ PushMark' = PushMark /\ PushExtra' = PushExtra
  BY DEF RingMark, PushMark, PushExtra, Pushing, Mark
<1>2. CoverRing' /\ CoverPush'
  BY <1>1 DEF Cover, CoverRing, CoverPush, Pushing, Covered, Reached, Known, Mark
<1>3. /\ Len(filledQ) \in Nat
      /\ filledQ # <<>> => 1 \in 1 .. Len(filledQ) /\ Len(filledQ) \in 1 .. Len(filledQ)
  BY AtInside
<1>4. CoverQueue'
  <2>1. filledQ # <<>> => Covered(PushMark, slot'[filledQ[1]], PushExtra)
    BY <1>3 DEF Cover, CoverQueue
  <2>2. ASSUME NEW i \in 1 .. Len(filledQ) - 1
        PROVE  Covered(Mark(slot'[filledQ[i]]), slot'[filledQ[i + 1]], {})
    <3>1. i \in 1 .. Len(filledQ) /\ i + 1 \in 1 .. Len(filledQ)
      BY <1>3
    <3>2. Covered(Mark(slot[filledQ[i]]), slot[filledQ[i + 1]], {})
      BY DEF Cover, CoverQueue
    <3> QED
      BY <3>1, <3>2
  <2> QED
    BY <1>1, <2>1, <2>2 DEF CoverQueue, Covered, Reached, Known, Mark
<1>5. ReadEnd' = ReadEnd /\ QueueExtra' = QueueExtra
  BY <1>1, <1>3 DEF ReadEnd, QueueMark, QueueExtra, Mark
<1> QED
  BY <1>2, <1>4, <1>5

\* The end of the line after a step that leaves the rest of it alone.
LEMMA CoverToComing ==
  ASSUME ReadEnd' = ReadEnd, QueueExtra' = QueueExtra, block' = NoBlock,
         NEW t \in SpanType, t = Coming', GateOpen' => Covered(ReadEnd, t, QueueExtra)
  PROVE  CoverEnd'
BY DEF CoverEnd, Covered, Reached, Known

\* A new block at the gate that is covered.
LEMMA CoverToBlock ==
  ASSUME ReadEnd' = ReadEnd, QueueExtra' = QueueExtra, block' # NoBlock,
         NEW s \in SpanType, s = block', NEW t \in SpanType, t = Coming',
         GateOpen' => Covered(ReadEnd, s, QueueExtra) /\ Covered(Mark(s), t, {})
  PROVE  CoverEnd'
BY DEF CoverEnd, Covered, Reached, Known, Mark

\* More gaps than the mark knows of say enough.
LEMMA CoverByGap ==
  ASSUME NEW m \in MarkType, NEW s \in SpanType, NEW t \in SpanType, After(m, s),
         t.epoch = s.epoch, t.gaps > s.gaps, NEW extra
  PROVE  Covered(m, t, extra)
BY DEF Covered, After, Reached, Known, MarkType, SpanType

\* Another span that begins at the same place with the same causes is covered
\* too.
LEMMA CoverAlike ==
  ASSUME NEW m, NEW s, NEW t, NEW extra, Covered(m, s, extra),
         t.epoch = s.epoch, t.first = s.first, t.gaps = s.gaps, t.causes = s.causes
  PROVE  Covered(m, t, extra)
BY DEF Covered, Reached, Known

\* Nothing is skipped between a block and the number after it.
LEMMA CoverNext ==
  ASSUME NEW s \in SpanType, NEW t \in SpanType, t.epoch = s.epoch, t.first = s.first + s.len, NEW extra
  PROVE  Covered(Mark(s), t, extra)
BY MarkTyped DEF Covered, Reached, SpanType

\* What a control step loses, it leaves a cause or a gap for.
LEMMA CoverControl ==
  ASSUME QuietRecovery, IInv, Line, Marked, Cover, Control PROVE Cover'
<1>1. UNCHANGED <<spans, offset, push, pending, cursor, told, filledQ, slot, block>>
  BY DEF Control, Close, Begin, RecoverMark, RecoverPause, RecoverResume, ring, slots, reader, timeline
<1>2. /\ CoverRing' /\ CoverPush' /\ CoverQueue'
      /\ ReadEnd' = ReadEnd /\ QueueExtra' = QueueExtra
  <2>1. Place("read")' = Place("read") /\ filledQ \in Seq(Slots)
    BY <1>1 DEF Place, IInv, TypeOK
  <2> QED
    BY <1>1, <2>1, CoverStill
<1>3. /\ After(ReadEnd, Coming) /\ ReadEnd \in MarkType /\ Coming \in SpanType /\ block \in SpanType
      /\ Epoch \in Nat /\ gaps \in Nat /\ torn \in Nat /\ Position \in Nat
  BY UpToComing
<1>4. SUFFICES CoverEnd'
  BY <1>2 DEF Cover
<1>5. seen \in Seq(Nat) /\ causes \in SUBSET LossCauses
  BY DEF IInv, TypeOK
<1>6. CASE Close \/ RecoverPause
  BY <1>6 DEF Close, RecoverPause, CoverEnd, GateOpen
<1>7. CASE Begin
  <2>1. block' = NoBlock /\ seen' = Append(seen, 0) /\ gaps' \in Nat /\ causes' = {} /\ torn' = torn
    BY <1>1, <1>7 DEF Begin, CallbackFree, NoBlock
  <2>2. Len(seen') = Len(seen) + 1 /\ seen'[Len(seen) + 1] = 0 /\ Len(seen) \in Nat
    BY <1>5, <2>1
  <2>3. Epoch' = Epoch + 1 /\ Position' = 0
    <3>1. seen' # <<>>
      BY <2>2
    <3> QED
      BY <2>2, <3>1 DEF Epoch, Position
  <2>4. PICK t \in SpanType : t = Coming' /\ t.first = 0
    <3>1. Epoch + 1 \in Nat /\ 0 \in Nat /\ causes' \in SUBSET LossCauses
      BY <1>3, <2>1
    <3> QED
      BY <1>3, <2>1, <2>3, <3>1, ComingNext
  <2>5. Covered(ReadEnd, t, QueueExtra)
    BY <1>3, <2>4 DEF Covered, Reached, MarkType
  <2> QED
    BY <1>2, <2>1, <2>4, <2>5, CoverToComing
<1>8. CASE RecoverResume
  <2>1. block' = NoBlock /\ UNCHANGED <<seen, gaps, causes, torn>> /\ gate = "recovering"
    BY <1>1, <1>8 DEF RecoverResume, CallbackFree, NoBlock, timeline
  <2>2. Coming' = Coming
    BY <2>1 DEF Coming, Epoch, Position
  <2>3. Covered(ReadEnd, Coming, QueueExtra)
    BY <2>1 DEF Marked, Covered, Coming
  <2> QED
    BY <1>2, <1>3, <2>1, <2>2, <2>3, CoverToComing
<1>9. CASE RecoverMark
  <2>1. gate = "open" /\ gaps' = gaps + 1 /\ UNCHANGED <<seen, causes, torn>>
    BY <1>9 DEF RecoverMark
  <2>2. Epoch' = Epoch /\ Position' = Position
    BY <2>1 DEF Epoch, Position
  <2>3. PICK t \in SpanType : /\ t = Coming' /\ t.epoch = Epoch /\ t.first = Position /\ t.gaps = gaps + 1
                              /\ t.causes = causes
    <3>1. gaps + 1 \in Nat
      BY <1>3
    <3> QED
      BY <1>3, <1>5, <2>1, <2>2, <3>1, ComingNext
  <2>4. Coming.epoch = Epoch /\ Coming.gaps = gaps /\ Coming.first = Position /\ Coming.causes = causes
    BY DEF Coming
  <2>5. CASE block = NoBlock
    <3>1. Covered(ReadEnd, t, QueueExtra)
      BY <1>3, <2>3, <2>4, CoverByGap
    <3> QED
      BY <1>1, <1>2, <2>3, <2>5, <3>1, CoverToComing DEF NoBlock
  <2>6. CASE block # NoBlock
    <3>1. After(Mark(block), Coming) /\ Covered(ReadEnd, block, QueueExtra)
      BY <2>1, <2>6 DEF Line, BlockLine, Cover, CoverEnd, GateOpen
    <3>2. Covered(Mark(block), t, {})
      BY <1>3, <2>3, <2>4, <3>1, MarkTyped, CoverByGap
    <3> QED
      BY <1>1, <1>2, <1>3, <2>3, <2>6, <3>1, <3>2, CoverToBlock DEF NoBlock
  <2> QED
    BY <2>5, <2>6
<1> QED
  BY <1>6, <1>7, <1>8, <1>9 DEF Control

\* A block from the transfers takes the causes along.
LEMMA CoverObserve ==
  ASSUME IInv, Line, Cover, NEW len \in BlockSizes, Observe(len) PROVE Cover'
<1>1. UNCHANGED <<spans, offset, push, pending, cursor, told, filledQ, slot>>
  BY DEF Observe, ring, slots, reader
<1>2. /\ CoverRing' /\ CoverPush' /\ CoverQueue'
      /\ ReadEnd' = ReadEnd /\ QueueExtra' = QueueExtra
  <2>1. Place("read")' = Place("read") /\ filledQ \in Seq(Slots)
    BY <1>1 DEF Place, IInv, TypeOK
  <2> QED
    BY <1>1, <2>1, CoverStill
<1>3. /\ Coming \in SpanType /\ Epoch \in Nat /\ gaps \in Nat /\ torn \in Nat /\ Position \in Nat
  BY UpToComing
<1>4. seen \in Seq(Nat) /\ causes \in SUBSET LossCauses /\ len \in Nat /\ len > 0
  BY SizesAssumption DEF IInv, TypeOK
<1>5. /\ seen # <<>> /\ seen' = [seen EXCEPT ![Epoch] = @ + len] /\ UNCHANGED <<gaps, torn, gate>>
      /\ causes' = {} /\ block = NoBlock
      /\ block' = [epoch |-> Epoch, first |-> Position, len |-> len, gaps |-> gaps,
                   causes |-> causes, torn |-> torn]
  BY DEF Observe, CallbackFree
<1>6. Epoch' = Epoch /\ Position' = Position + len
  <2>1. Len(seen) \in 1 .. Len(seen) /\ seen[Len(seen)] \in Nat
    BY <1>4, <1>5
  <2>2. Len(seen') = Len(seen) /\ seen' # <<>> /\ seen'[Len(seen)] = seen[Len(seen)] + len
    BY <1>4, <1>5, <2>1 DEF Epoch
  <2> QED
    BY <1>5, <2>2 DEF Epoch, Position
<1>7. PICK s \in SpanType : /\ s = block' /\ s.epoch = Epoch /\ s.first = Position /\ s.len = len
                            /\ s.gaps = gaps /\ s.causes = causes
  <2>1. PICK s : s = [epoch |-> Epoch, first |-> Position, len |-> len, gaps |-> gaps,
                      causes |-> causes, torn |-> torn]
    OBVIOUS
  <2>2. s \in SpanType
    BY <1>3, <1>4, <2>1 DEF SpanType
  <2> QED
    BY <1>5, <2>1, <2>2
<1>8. PICK t \in SpanType : t = Coming' /\ t.epoch = Epoch /\ t.first = Position + len
  <2>1. Position + len \in Nat /\ causes' \in SUBSET LossCauses
    BY <1>3, <1>4, <1>5
  <2> QED
    BY <1>3, <1>5, <1>6, <2>1, ComingNext
<1>9. Coming.epoch = Epoch /\ Coming.first = Position /\ Coming.gaps = gaps /\ Coming.causes = causes
  BY DEF Coming
<1>10. GateOpen' => Covered(ReadEnd, s, QueueExtra)
  BY <1>5, <1>7, <1>9, CoverAlike DEF Cover, CoverEnd, GateOpen
<1>11. Covered(Mark(s), t, {})
  BY <1>7, <1>8, CoverNext
<1>12. block' # NoBlock
  BY <1>4, <1>7 DEF NoBlock
<1> QED
  BY <1>2, <1>7, <1>8, <1>10, <1>11, <1>12, CoverToBlock DEF Cover

\* A transfer that cannot be taken leaves a gap.
LEMMA CoverTorn ==
  ASSUME IInv, Line, Cover, ObserveOdd \/ TransferError PROVE Cover'
<1>1. /\ UNCHANGED <<spans, offset, push, pending, cursor, told, filledQ, slot, block, seen>>
      /\ gaps' = gaps + 1 /\ torn' = torn + 1 /\ block = NoBlock
      /\ (causes' = causes \/ causes' = {})
  BY DEF ObserveOdd, TransferError, CallbackFree, ring, slots, reader
<1>2. /\ CoverRing' /\ CoverPush' /\ CoverQueue'
      /\ ReadEnd' = ReadEnd /\ QueueExtra' = QueueExtra
  <2>1. Place("read")' = Place("read") /\ filledQ \in Seq(Slots)
    BY <1>1 DEF Place, IInv, TypeOK
  <2> QED
    BY <1>1, <2>1, CoverStill
<1>3. /\ After(ReadEnd, Coming) /\ ReadEnd \in MarkType /\ Coming \in SpanType
      /\ Epoch \in Nat /\ gaps \in Nat /\ torn \in Nat /\ Position \in Nat
  BY UpToComing
<1>4. causes \in SUBSET LossCauses
  BY DEF IInv, TypeOK
<1>5. Epoch' = Epoch /\ Position' = Position
  BY <1>1 DEF Epoch, Position
<1>6. PICK t \in SpanType : t = Coming' /\ t.epoch = Epoch /\ t.first = Position /\ t.gaps = gaps + 1
  <2>1. gaps + 1 \in Nat /\ torn + 1 \in Nat /\ causes' \in SUBSET LossCauses
    BY <1>1, <1>3, <1>4
  <2> QED
    BY <1>1, <1>3, <1>5, <2>1, ComingNext
<1>7. Coming.epoch = Epoch /\ Coming.gaps = gaps
  BY DEF Coming
<1>8. Covered(ReadEnd, t, QueueExtra)
  BY <1>3, <1>6, <1>7, CoverByGap
<1> QED
  BY <1>1, <1>2, <1>6, <1>8, CoverToComing DEF Cover, NoBlock

\* A block dropped leaves its cause.
LEMMA CoverDrop ==
  ASSUME IInv, Line, Cover, DropAtGate \/ Starve PROVE Cover'
<1>1. /\ UNCHANGED <<spans, offset, push, pending, cursor, told, filledQ, slot, seen, gaps, torn, gate>>
      /\ block' = NoBlock
  BY DEF DropAtGate, Starve, ring, slots, reader, timeline
<1>2. /\ CoverRing' /\ CoverPush' /\ CoverQueue'
      /\ ReadEnd' = ReadEnd /\ QueueExtra' = QueueExtra
  <2>1. Place("read")' = Place("read") /\ filledQ \in Seq(Slots)
    BY <1>1 DEF Place, IInv, TypeOK
  <2> QED
    BY <1>1, <2>1, CoverStill
<1>3. CASE DropAtGate
  BY <1>1, <1>2, <1>3 DEF DropAtGate, GateOpen, Cover, CoverEnd
<1>4. CASE Starve
  <2>1. causes' = causes \cup {"QUEUE_STARVE"}
    BY <1>4 DEF Starve
  <2>2. PICK t \in SpanType : t = Coming' /\ t.causes = causes'
    <3>1. /\ Epoch' = Epoch /\ Position' = Position
          /\ Epoch \in Nat /\ gaps \in Nat /\ torn \in Nat /\ Position \in Nat
      BY <1>1, UpToComing DEF Epoch, Position
    <3>2. causes' \in SUBSET LossCauses
      BY <2>1 DEF IInv, TypeOK, LossCauses
    <3> QED
      BY <1>1, <3>1, <3>2, ComingNext
  <2>3. Covered(ReadEnd, t, QueueExtra)
    BY <2>1, <2>2 DEF Covered
  <2> QED
    BY <1>1, <1>2, <2>2, <2>3, CoverToComing DEF Cover
<1> QED
  BY <1>3, <1>4

\* A block taken by the producer is covered by what is pending.
LEMMA CoverPushBlock ==
  ASSUME IInv, Roles, Line, Cover, PushBlock PROVE Cover'
<1>1. /\ block # NoBlock /\ mode = "READ" /\ GateOpen
      /\ push' = [pc |-> "space", span |-> block, n |-> 0] /\ block' = NoBlock
      /\ UNCHANGED <<gate, seen, gaps, causes, torn, spans, offset, pending, cursor, told, filledQ, slot>>
  BY DEF PushBlock, slots, reader, timeline
<1>2. filledQ = <<>> /\ push.pc = "idle"
  BY <1>1 DEF Roles
<1>3. ReadEnd = RingMark /\ QueueExtra = pending
  BY <1>2 DEF ReadEnd, QueueMark, PushMark, Pushing, QueueExtra, PushExtra
<1>4. /\ RingMark' = RingMark /\ ReadEnd' = Mark(block) /\ QueueExtra' = {}
  BY <1>1, <1>2 DEF RingMark, ReadEnd, QueueMark, PushMark, Pushing, Place, Mark, QueueExtra, PushExtra
<1>5. Covered(RingMark, block, pending) /\ Covered(Mark(block), Coming, {})
  BY <1>1, <1>3 DEF Cover, CoverEnd
<1>6. Coming' = Coming
  BY <1>1 DEF Coming, Epoch, Position
<1>7. CoverRing' /\ CoverQueue'
  BY <1>1, <1>2 DEF Cover, CoverRing, CoverQueue, Place, Mark, Covered, Reached, Known
<1>8. CoverPush'
  BY <1>1, <1>4, <1>5 DEF CoverPush, Covered, Reached, Known
<1>9. CoverEnd'
  BY <1>1, <1>4, <1>5, <1>6 DEF CoverEnd, Covered, Reached, Known
<1> QED
  BY <1>7, <1>8, <1>9 DEF Cover

\* A block parked behind the filled slots is covered as it was at the gate.
LEMMA CoverParkBlock ==
  ASSUME IInv, SlotsApart, Line, Cover, ParkBlock PROVE Cover'
<1> DEFINE h == freeQ[1]
           L == Len(filledQ)
<1>0. freeQ \in Seq(Slots) /\ filledQ \in Seq(Slots) /\ slot \in [Slots -> SpanType]
  BY DEF IInv, TypeOK
<1>1. /\ block # NoBlock /\ GateOpen /\ freeQ # <<>> /\ block' = NoBlock
      /\ filledQ' = Append(filledQ, Head(freeQ)) /\ slot' = [slot EXCEPT ![Head(freeQ)] = block]
      /\ UNCHANGED <<gate, seen, gaps, causes, torn, spans, offset, pending, cursor, told, push>>
  BY DEF ParkBlock, ring, reader, timeline
<1>2. h \in Slots /\ Head(freeQ) = h /\ 1 \in 1 .. Len(freeQ)
  BY <1>0, <1>1, TailAt
<1>3. /\ L \in Nat /\ Len(filledQ') = L + 1 /\ filledQ' # <<>> /\ filledQ'[L + 1] = h
      /\ \A i \in 1 .. L : filledQ'[i] = filledQ[i] /\ filledQ[i] \in Slots /\ filledQ[i] # h
      /\ filledQ = <<>> <=> L = 0
  BY <1>0, <1>1, <1>2, AppendAt, AtInside DEF SlotsApart
<1>4. slot'[h] = block /\ \A i \in 1 .. L : slot'[filledQ'[i]] = slot[filledQ[i]]
  BY <1>0, <1>1, <1>2, <1>3
<1>5. /\ RingMark' = RingMark /\ PushMark' = PushMark /\ PushExtra' = PushExtra
  BY <1>1 DEF RingMark, PushMark, Pushing, Place, Mark, PushExtra
<1>6. ReadEnd' = Mark(block) /\ QueueExtra' = {}
  BY <1>3, <1>4 DEF ReadEnd, QueueMark, Mark, QueueExtra
<1>7. Covered(ReadEnd, block, QueueExtra) /\ Covered(Mark(block), Coming, {})
  BY <1>1 DEF Cover, CoverEnd
<1>8. Coming' = Coming
  BY <1>1 DEF Coming, Epoch, Position
<1>9. CoverRing' /\ CoverPush'
  BY <1>1, <1>5 DEF Cover, CoverRing, CoverPush, Pushing, Place, Mark, Covered, Reached, Known
<1>10. CoverQueue'
  <2>1. Covered(PushMark, slot'[filledQ'[1]], PushExtra)
    <3>1. CASE L = 0
      BY <1>3, <1>4, <1>7, <3>1 DEF ReadEnd, QueueMark, QueueExtra
    <3>2. CASE L # 0
      BY <1>3, <1>4, <3>2 DEF Cover, CoverQueue
    <3> QED
      BY <3>1, <3>2
  <2>2. ASSUME NEW i \in 1 .. L
        PROVE  Covered(Mark(slot'[filledQ'[i]]), slot'[filledQ'[i + 1]], {})
    <3>1. CASE i = L
      BY <1>3, <1>4, <1>7, <3>1 DEF ReadEnd, QueueMark, QueueExtra
    <3>2. CASE i # L
      <4>1. i \in 1 .. L - 1 /\ i \in 1 .. L /\ i + 1 \in 1 .. L
        BY <1>3, <3>2
      <4>2. Covered(Mark(slot[filledQ[i]]), slot[filledQ[i + 1]], {})
        BY <4>1 DEF Cover, CoverQueue
      <4> QED
        BY <1>4, <4>1, <4>2
    <3> QED
      BY <3>1, <3>2
  <2>3. Len(filledQ') - 1 = L
    BY <1>3
  <2> QED
    BY <1>5, <2>1, <2>2, <2>3 DEF CoverQueue, Covered, Reached, Known, Mark
<1>11. CoverEnd'
  BY <1>1, <1>6, <1>7, <1>8 DEF CoverEnd, Covered, Reached, Known
<1> QED
  BY <1>9, <1>10, <1>11 DEF Cover

\* What the push at the head of the queue does to the rest of the line.
LEMMA CoverFirst ==
  ASSUME Cover, UNCHANGED <<filledQ, slot, block, gate, seen, gaps, causes, torn>>,
         filledQ \in Seq(Slots),
         (PushMark' = PushMark /\ PushExtra' = PushExtra) \/ PushExtra' # {}
  PROVE  CoverQueue' /\ CoverEnd'
<1>1. /\ Coming' = Coming /\ (GateOpen' <=> GateOpen) /\ Mark(block)' = Mark(block)
  BY DEF Coming, Epoch, Position, GateOpen, Mark
<1>2. PICK m, x : m = PushMark' /\ x = PushExtra'
  OBVIOUS
<1>3. ASSUME NEW s, Covered(PushMark, s, PushExtra) PROVE Covered(m, s, x)
  BY <1>2, <1>3 DEF Covered
<1>4. CoverQueue'
  <2>1. filledQ # <<>> => Covered(m, slot[filledQ[1]], x)
    BY <1>3 DEF Cover, CoverQueue
  <2>2. \A i \in 1 .. Len(filledQ) - 1 : Covered(Mark(slot[filledQ[i]]), slot[filledQ[i + 1]], {})
    BY DEF Cover, CoverQueue
  <2> QED
    BY <1>2, <2>1, <2>2 DEF CoverQueue, Covered, Reached, Known, Mark
<1>5. CASE filledQ = <<>>
  <2>1. ReadEnd = PushMark /\ QueueExtra = PushExtra /\ ReadEnd' = m /\ QueueExtra' = x
    BY <1>2, <1>5 DEF ReadEnd, QueueMark, QueueExtra
  <2>2. GateOpen => IF block # NoBlock THEN Covered(m, block, x) /\ Covered(Mark(block), Coming, {})
                                       ELSE Covered(m, Coming, x)
    BY <1>3, <2>1 DEF Cover, CoverEnd
  <2> QED
    BY <1>1, <1>4, <2>1, <2>2 DEF CoverEnd, Covered, Reached, Known
<1>6. CASE filledQ # <<>>
  <2>1. ReadEnd' = ReadEnd /\ QueueExtra' = QueueExtra
    BY <1>6 DEF ReadEnd, QueueMark, QueueExtra, Mark
  <2> QED
    BY <1>1, <1>4, <2>1 DEF Cover, CoverEnd, Covered, Reached, Known
<1> QED
  BY <1>5, <1>6

\* A descriptor goes in: what did not fit beside it waits for the next one.
LEMMA CoverPushSpan ==
  ASSUME IInv, PushShape, Cover, NEW t \in SpanType, push.pc = "span", push'.pc = "copy",
         t.epoch = push.span.epoch, t.first = push.span.first, t.len = push.n,
         t.gaps = push.span.gaps, t.torn = push.span.torn, t.causes = push.span.causes \cup pending,
         (pending' = {} /\ push.n = push.span.len) \/ pending' # {},
         spans' = Append(spans, t), UNCHANGED <<offset, cursor, told>>
  PROVE  /\ CoverRing' /\ CoverPush'
         /\ (PushMark' = PushMark /\ PushExtra' = PushExtra) \/ PushExtra' # {}
<1> DEFINE L == Len(spans)
<1>1. /\ spans \in Seq(SpanType) /\ L \in Nat /\ push.span \in SpanType /\ offset \in Nat
      /\ spans = <<>> => offset = 0
  BY RingTypes DEF IInv, TypeOK, RingFits
<1>2. /\ Len(spans') = L + 1 /\ spans' # <<>> /\ spans'[L + 1] = t
      /\ \A i \in 1 .. L : spans'[i] = spans[i]
      /\ spans = <<>> <=> L = 0
  BY <1>1, AppendAt, AtInside
<1>3. PushMark = Mark(push.span) /\ Covered(RingMark, push.span, pending)
  BY DEF PushMark, Pushing, Cover, CoverPush
<1>4. Covered(RingMark, t, {})
  BY <1>3 DEF Covered
<1>5. PushMark' = Mark(t) /\ ~Pushing' /\ PushExtra = {} /\ PushExtra' = pending'
  BY <1>2 DEF RingMark, PushMark, Pushing, Mark, PushExtra
<1>6. (PushMark' = PushMark /\ PushExtra' = PushExtra) \/ PushExtra' # {}
  <2>1. CASE pending' = {} /\ push.n = push.span.len
    BY <1>3, <1>5, <2>1 DEF Mark
  <2> QED
    BY <1>5, <2>1
<1>7. CoverRing'
  <2>1. Place("read")' = Place("read")
    BY DEF Place
  <2>2. CASE L = 0
    <3>1. Covered(Place("read"), t, {}) /\ spans'[1] = t /\ Len(spans') - 1 = 0
      BY <1>1, <1>2, <1>4, <2>2 DEF RingMark
    <3> QED
      BY <2>1, <3>1 DEF CoverRing, Covered, Reached, Known
  <2>3. CASE L # 0
    <3>1. spans'[1] = spans[1] /\ spans # <<>> /\ Len(spans') - 1 = L
      BY <1>1, <1>2, <2>3
    <3>2. ASSUME NEW i \in 1 .. L PROVE Covered(Mark(spans'[i]), spans'[i + 1], {})
      <4>1. CASE i = L
        BY <1>2, <1>4, <2>3, <3>1, <4>1 DEF RingMark
      <4>2. CASE i # L
        <5>1. i \in 1 .. L - 1 /\ i \in 1 .. L /\ i + 1 \in 1 .. L
          BY <1>1, <4>2
        <5>2. Covered(Mark(spans[i]), spans[i + 1], {})
          BY <5>1 DEF Cover, CoverRing
        <5> QED
          BY <1>2, <5>1, <5>2
      <4> QED
        BY <4>1, <4>2
    <3>3. offset = 0 => Covered(Place("read"), spans'[1], {})
      BY <3>1 DEF Cover, CoverRing
    <3> QED
      BY <2>1, <3>1, <3>2, <3>3 DEF CoverRing, Covered, Reached, Known, Mark
  <2> QED
    BY <2>2, <2>3
<1> QED
  BY <1>5, <1>6, <1>7 DEF CoverPush

\* The producer cuts a block, or loses its end for want of room and says so.
LEMMA CoverPushStep ==
  ASSUME IInv, Observed, PushShape, Cover, Push PROVE Cover'
<1>1. UNCHANGED <<gate, seen, gaps, causes, torn, block, offset, filledQ, slot, cursor, told>>
  BY DEF Push, PushSpace, PushSpan, PushCopy, PushPublish, slots, reader, timeline
<1>2. filledQ \in Seq(Slots) /\ pending \in SUBSET LossCauses
  BY DEF IInv, TypeOK
<1>3. CASE spans' = spans /\ pending' = pending /\ (Pushing' <=> Pushing) /\ (Pushing => push'.span = push.span)
  <2>1. RingMark' = RingMark /\ PushMark' = PushMark /\ PushExtra' = PushExtra
    BY <1>1, <1>3 DEF RingMark, PushMark, PushExtra, Place, Mark
  <2>2. CoverRing' /\ CoverPush'
    BY <1>1, <1>3, <2>1 DEF Cover, CoverRing, CoverPush, Place, Covered, Reached, Known, Mark
  <2>3. CoverQueue' /\ CoverEnd'
    BY <1>1, <1>2, <2>1, CoverFirst
  <2> QED
    BY <2>2, <2>3 DEF Cover
<1>4. CASE spans' = spans /\ ~Pushing' /\ pending' # {}
  <2>1. PushExtra' # {}
    BY <1>4 DEF PushExtra
  <2>2. CoverRing' /\ CoverPush'
    BY <1>1, <1>4 DEF Cover, CoverRing, CoverPush, Place, Covered, Reached, Known, Mark
  <2>3. CoverQueue' /\ CoverEnd'
    BY <1>1, <1>2, <2>1, CoverFirst
  <2> QED
    BY <2>2, <2>3 DEF Cover
<1>5. CASE PushSpan
  <2> DEFINE over == IF push.n < push.span.len
                     THEN {"PULL_OVERRUN"} \cup (push.span.causes \cup pending) ELSE {}
  <2>0. push.pc = "span" /\ push.span \in SpanType /\ push.n \in Nat /\ push.n <= push.span.len
        /\ push.span.len \in Nat /\ push \in PushType
    <3>1. push.pc = "span"
      BY <1>5 DEF PushSpan
    <3> QED
      BY <3>1, RingTypes DEF PushShape, IInv, TypeOK, SpanType
  <2>1. CASE push' = NoPush /\ spans' = spans /\ pending' # {}
    BY <1>4, <2>1 DEF Pushing, NoPush
  <2>2. CASE /\ spans' = Append(spans, [push.span EXCEPT !.len = push.n, !.causes = @ \cup pending])
             /\ pending' = over /\ push' = [push EXCEPT !.pc = "copy"]
    <3>1. PICK t \in SpanType :
             /\ t = [push.span EXCEPT !.len = push.n, !.causes = @ \cup pending]
             /\ t.epoch = push.span.epoch /\ t.first = push.span.first /\ t.len = push.n
             /\ t.gaps = push.span.gaps /\ t.torn = push.span.torn
             /\ t.causes = push.span.causes \cup pending
      <4>1. PICK t : t = [push.span EXCEPT !.len = push.n, !.causes = @ \cup pending]
        OBVIOUS
      <4>2. t \in SpanType
        BY <1>2, <2>0, <4>1 DEF SpanType
      <4>3. /\ t.epoch = push.span.epoch /\ t.first = push.span.first /\ t.len = push.n
            /\ t.gaps = push.span.gaps /\ t.torn = push.span.torn
            /\ t.causes = push.span.causes \cup pending
        BY <2>0, <4>1 DEF SpanType
      <4> QED
        BY <4>1, <4>2, <4>3
    <3>2. (pending' = {} /\ push.n = push.span.len) \/ pending' # {}
      BY <2>0, <2>2
    <3>3. push'.pc = "copy"
      BY <2>0, <2>2 DEF PushType
    <3>4. /\ CoverRing' /\ CoverPush'
          /\ (PushMark' = PushMark /\ PushExtra' = PushExtra) \/ PushExtra' # {}
      BY <1>1, <2>0, <2>2, <3>1, <3>2, <3>3, CoverPushSpan
    <3>5. CoverQueue' /\ CoverEnd'
      BY <1>1, <1>2, <3>4, CoverFirst
    <3> QED
      BY <3>4, <3>5 DEF Cover
  <2>3. push.n = 0 => over # {}
    <3>1. push.span.len > 0
      BY <2>0 DEF Observed, SeenIn
    <3> QED
      BY <2>0, <3>1
  <2> HIDE DEF over
  <2> QED
    BY <1>5, <2>1, <2>2, <2>3 DEF PushSpan, over
<1>6. CASE PushSpace
  BY <1>3, <1>6, RingTypes DEF PushSpace, Pushing, PushType, IInv, TypeOK
<1>7. CASE PushCopy
  BY <1>3, <1>7, RingTypes DEF PushCopy, Pushing, PushType, IInv, TypeOK
<1>8. CASE PushPublish
  BY <1>3, <1>8 DEF PushPublish, Pushing, NoPush
<1> QED
  BY <1>5, <1>6, <1>7, <1>8 DEF Push

\* A slot goes to the producer with what covered it.
LEMMA CoverTakeSlot ==
  ASSUME IInv, Roles, Cover, TakeSlot PROVE Cover'
<1> DEFINE h == filledQ[1]
           L == Len(filledQ)
<1>0. filledQ \in Seq(Slots) /\ mode \in {"READ", "BOTH"} /\ push \in PushType
  BY ModeAssumption DEF IInv, TypeOK
<1>1. /\ held.pc = "idle" /\ filledQ # <<>> /\ filledQ' = Tail(filledQ)
      /\ push' = [pc |-> "space", span |-> slot[Head(filledQ)], n |-> 0]
      /\ UNCHANGED <<gate, seen, gaps, causes, torn, block, spans, offset, pending, cursor, told, slot>>
  BY DEF TakeSlot, reader, timeline
<1>2. /\ L \in Nat \ {0} /\ Head(filledQ) = h /\ Len(filledQ') = L - 1
      /\ \A i \in 1 .. L - 1 : filledQ'[i] = filledQ[i + 1]
      /\ filledQ' = <<>> <=> L = 1
  BY <1>0, <1>1, TailAt
<1>3. push.pc = "idle"
  BY <1>0, <1>1 DEF Roles
<1>4. /\ PushMark = RingMark /\ RingMark' = RingMark /\ PushMark' = Mark(slot[h])
      /\ PushExtra = pending /\ PushExtra' = {}
  BY <1>1, <1>2, <1>3 DEF PushMark, RingMark, Pushing, Place, Mark, PushExtra
<1>5. CoverRing'
  BY <1>1 DEF Cover, CoverRing, Place, Mark, Covered, Reached, Known
<1>6. CoverPush'
  <2>1. Covered(RingMark, slot[h], pending)
    BY <1>1, <1>4 DEF Cover, CoverQueue
  <2> QED
    BY <1>1, <1>2, <1>4, <2>1 DEF CoverPush, Covered, Reached, Known
<1>7. CoverQueue'
  <2>1. ASSUME NEW i \in 1 .. L - 1
        PROVE  Covered(Mark(slot[filledQ[i]]), slot[filledQ[i + 1]], {})
    BY DEF Cover, CoverQueue
  <2>2. filledQ' # <<>> => Covered(Mark(slot[h]), slot[filledQ'[1]], {})
    <3> SUFFICES ASSUME filledQ' # <<>> PROVE Covered(Mark(slot[h]), slot[filledQ'[1]], {})
      OBVIOUS
    <3>1. 1 \in 1 .. L - 1
      BY <1>2
    <3>2. Covered(Mark(slot[filledQ[1]]), slot[filledQ[1 + 1]], {})
      BY <2>1, <3>1
    <3> QED
      BY <1>2, <3>1, <3>2
  <2>3. ASSUME NEW i \in 1 .. Len(filledQ') - 1
        PROVE  Covered(Mark(slot[filledQ'[i]]), slot[filledQ'[i + 1]], {})
    <3>1. i \in 1 .. L - 1 /\ i + 1 \in 1 .. L - 1
      BY <1>2
    <3>2. Covered(Mark(slot[filledQ[i + 1]]), slot[filledQ[(i + 1) + 1]], {})
      BY <2>1, <3>1
    <3> QED
      BY <1>2, <3>1, <3>2
  <2> QED
    BY <1>1, <1>4, <2>2, <2>3 DEF CoverQueue, Covered, Reached, Known, Mark
<1>8. ReadEnd' = ReadEnd /\ QueueExtra' = {} /\ QueueExtra = {}
  <2>1. CASE L = 1
    BY <1>1, <1>2, <1>4, <2>1 DEF ReadEnd, QueueMark, QueueExtra
  <2>2. CASE L # 1
    <3>1. filledQ'[Len(filledQ')] = filledQ[L] /\ filledQ' # <<>>
      BY <1>2, <2>2
    <3> QED
      BY <1>1, <3>1 DEF ReadEnd, QueueMark, Mark, QueueExtra
  <2> QED
    BY <2>1, <2>2
<1>9. CoverEnd'
  <2>1. /\ Coming' = Coming /\ (GateOpen' <=> GateOpen) /\ Mark(block)' = Mark(block)
    BY <1>1 DEF Coming, Epoch, Position, GateOpen, Mark
  <2> QED
    BY <1>1, <1>8, <2>1 DEF Cover, CoverEnd, Covered, Reached, Known
<1> QED
  BY <1>5, <1>6, <1>7, <1>9 DEF Cover

\* A step that moves nothing of the reader's line.
LEMMA CoverSame ==
  ASSUME Cover, UNCHANGED <<gate, seen, gaps, causes, torn, block, spans, offset, push, pending, filledQ>>,
         Place("read")' = Place("read"), filledQ \in Seq(Slots),
         \A i \in 1 .. Len(filledQ) : slot'[filledQ[i]] = slot[filledQ[i]]
  PROVE  Cover'
<1>1. /\ CoverRing' /\ CoverPush' /\ CoverQueue'
      /\ ReadEnd' = ReadEnd /\ QueueExtra' = QueueExtra
  BY CoverStill
<1>2. /\ Coming' = Coming /\ (GateOpen' <=> GateOpen) /\ Mark(block)' = Mark(block)
  BY DEF Coming, Epoch, Position, GateOpen, Mark
<1>3. CoverEnd'
  BY <1>1, <1>2 DEF Cover, CoverEnd, Covered, Reached, Known
<1> QED
  BY <1>1, <1>3 DEF Cover

\* The callback side does not move the read channel's line.
LEMMA CoverTask ==
  ASSUME IInv, SlotsApart, Cover, CallBack \/ ReturnSlot PROVE Cover'
<1>1. filledQ \in Seq(Slots) /\ slot \in [Slots -> SpanType] /\ Channels = {"read", "callback"}
      /\ cursor \in [Channels -> CursorType] /\ told \in [Channels -> ToldType]
  BY DEF IInv, TypeOK, Channels
<1>2. UNCHANGED <<gate, seen, gaps, causes, torn, block, spans, offset, push, pending, filledQ>>
  BY DEF CallBack, ReturnSlot, ring, timeline
<1>3. CASE CallBack
  <2>1. slot' = slot
    BY <1>3 DEF CallBack
  <2>2. cursor'["read"] = cursor["read"] /\ told'["read"] = told["read"]
    <3>1. CASE UNCHANGED <<cursor, told>>
      BY <3>1
    <3>2. ASSUME NEW s, NEW pairs, Deliver("callback", s, pairs)
          PROVE  cursor'["read"] = cursor["read"] /\ told'["read"] = told["read"]
      BY <1>1, <3>2 DEF Deliver
    <3> QED
      BY <1>3, <3>1, <3>2 DEF CallBack
  <2>3. Place("read")' = Place("read")
    BY <2>2 DEF Place
  <2> QED
    BY <1>1, <1>2, <2>1, <2>3, CoverSame
<1>4. CASE ReturnSlot
  <2>1. held.pc = "return" /\ slot' = [slot EXCEPT ![held.id] = NoBlock] /\ UNCHANGED <<cursor, told>>
    BY <1>4 DEF ReturnSlot, reader
  <2>2. \A i \in 1 .. Len(filledQ) : slot'[filledQ[i]] = slot[filledQ[i]]
    BY <1>1, <2>1 DEF SlotsApart
  <2>3. Place("read")' = Place("read")
    BY <2>1 DEF Place
  <2> QED
    BY <1>1, <1>2, <2>2, <2>3, CoverSame
<1> QED
  BY <1>3, <1>4

\* A read moves on to the next hole.
LEMMA CoverReadDeliver ==
  ASSUME IInv, PushShape, Taken, Line, Cover, ReadDeliver PROVE Cover'
<1>1. UNCHANGED <<gate, seen, gaps, causes, torn, block, push, pending, filledQ, slot>>
  BY DEF ReadDeliver, slots, timeline
<1>2. /\ RingMark' = RingMark
      /\ \/ offset' # 0 /\ spans' = spans
         \/ spans # <<>> /\ spans' = Tail(spans) /\ Place("read")' = Mark(spans[1])
  BY RetireLine
<1>3. spans \in Seq(SpanType) /\ filledQ \in Seq(Slots)
  BY DEF IInv, TypeOK
<1>4. PushMark' = PushMark /\ PushExtra' = PushExtra
  BY <1>1, <1>2 DEF PushMark, PushExtra, Pushing, Mark
<1>5. CoverQueue' /\ CoverEnd'
  BY <1>1, <1>3, <1>4, CoverFirst
<1>6. CoverPush'
  BY <1>1, <1>2 DEF Cover, CoverPush, Pushing, Covered, Reached, Known
<1>7. CoverRing'
  <2>1. \A i \in 1 .. Len(spans) - 1 : Covered(Mark(spans[i]), spans[i + 1], {})
    BY DEF Cover, CoverRing
  <2>2. CASE offset' # 0 /\ spans' = spans
    BY <2>1, <2>2 DEF CoverRing, Covered, Reached, Known, Mark
  <2>3. CASE spans # <<>> /\ spans' = Tail(spans) /\ Place("read")' = Mark(spans[1])
    <3>1. /\ Len(spans') = Len(spans) - 1 /\ Len(spans) \in Nat \ {0}
          /\ \A i \in 1 .. Len(spans) - 1 : spans'[i] = spans[i + 1]
          /\ spans' = <<>> <=> Len(spans) = 1
      BY <1>3, <2>3, TailAt
    <3>2. ASSUME NEW i \in 1 .. Len(spans') - 1 PROVE Covered(Mark(spans'[i]), spans'[i + 1], {})
      <4>1. i \in 1 .. Len(spans) - 1 /\ i + 1 \in 1 .. Len(spans) - 1
        BY <3>1
      <4>2. Covered(Mark(spans[i + 1]), spans[(i + 1) + 1], {})
        BY <2>1, <4>1
      <4> QED
        BY <3>1, <4>1, <4>2
    <3>3. spans' # <<>> => Covered(Mark(spans[1]), spans'[1], {})
      <4> SUFFICES ASSUME spans' # <<>> PROVE Covered(Mark(spans[1]), spans'[1], {})
        OBVIOUS
      <4>1. 1 \in 1 .. Len(spans) - 1
        BY <3>1
      <4>2. Covered(Mark(spans[1]), spans[1 + 1], {})
        BY <2>1, <4>1
      <4> QED
        BY <3>1, <4>1, <4>2
    <3> QED
      BY <2>3, <3>2, <3>3 DEF CoverRing, Covered, Reached, Known, Mark
  <2> QED
    BY <1>2, <2>2, <2>3
<1> QED
  BY <1>5, <1>6, <1>7 DEF Cover

\* Every step keeps the cover.
LEMMA CoverStep ==
  ASSUME QuietRecovery, IInv, Flow, Line, Marked, Cover, [Next]_vars PROVE Cover'
<1>1. SlotsApart /\ Roles /\ Observed /\ PushShape /\ Taken /\ filledQ \in Seq(Slots)
  BY DEF Flow, IInv, TypeOK
<1>2. CASE Control
  BY <1>2, CoverControl
<1>3. CASE Callback
  BY <1>1, <1>3, CoverObserve, CoverTorn, CoverDrop, CoverPushBlock, CoverParkBlock DEF Callback
<1>4. CASE Push
  BY <1>1, <1>4, CoverPushStep
<1>5. CASE Delivery
  BY <1>1, <1>5, CoverTakeSlot, CoverTask DEF Delivery
<1>6. CASE ReadDeliver
  BY <1>1, <1>6, CoverReadDeliver
<1>7. CASE ReadCopy \/ ReadFree \/ (\E size \in ReadSizes : ReadLoad(size)) \/ UNCHANGED vars
  <2>1. /\ UNCHANGED <<gate, seen, gaps, causes, torn, block, spans, offset, push, pending, filledQ>>
        /\ UNCHANGED <<slot, cursor, told>>
    BY <1>7 DEF ReadCopy, ReadFree, ReadLoad, vars, ring, slots, reader, timeline
  <2>2. Place("read")' = Place("read")
    BY <2>1 DEF Place
  <2> QED
    BY <1>1, <2>1, <2>2, CoverSame
<1> QED
  BY <1>2, <1>3, <1>4, <1>5, <1>6, <1>7 DEF Next, Reader

\* At first there is no hole.
LEMMA CoverInit == ASSUME Init PROVE Cover
<1>1. /\ spans = <<>> /\ filledQ = <<>> /\ push.pc = "idle" /\ gate = "closed" /\ Len(<<>>) = 0
  BY DEF Init, NoPush
<1> QED
  BY <1>1 DEF Cover, CoverRing, CoverPush, CoverQueue, CoverEnd, Pushing, GateOpen

\* What the reader is handed after a loss carries the reason, or more gaps than it knew of.
LEMMA LossStep ==
  ASSUME IInv, Flow, Line, Cover, LossHasCause, [Next]_vars PROVE LossHasCause'
<1>1. /\ cursor \in [Channels -> CursorType] /\ told \in [Channels -> ToldType]
      /\ Channels = {"read", "callback"} /\ cursor["read"] \in CursorType
  BY DEF IInv, TypeOK, Channels
<1>2. CASE UNCHANGED <<cursor, told>>
  BY <1>2 DEF LossHasCause
<1>3. CASE CallBack
  <2>1. told'["read"] = told["read"]
    <3>1. CASE UNCHANGED <<cursor, told>>
      BY <3>1
    <3>2. ASSUME NEW s, NEW pairs, Deliver("callback", s, pairs)
          PROVE  told'["read"] = told["read"]
      BY <1>1, <3>2 DEF Deliver
    <3> QED
      BY <1>3, <3>1, <3>2 DEF CallBack
  <2> QED
    BY <2>1 DEF LossHasCause
<1>4. CASE ReadDeliver
  <2> DEFINE old == cursor["read"]
  <2>1. /\ spans # <<>> /\ spans[1] \in SpanType /\ offset \in Nat /\ rd.n \in Nat
        /\ Peek(rd.n) = [spans[1] EXCEPT !.first = spans[1].first + offset, !.len = rd.n]
        /\ Deliver("read", Peek(rd.n), rd.out)
    BY <1>4, ReadPlace DEF Flow
  <2>2. PICK s : s = Peek(rd.n)
    OBVIOUS
  <2>3. /\ s.epoch = spans[1].epoch /\ s.first = spans[1].first + offset /\ s.gaps = spans[1].gaps
        /\ s.causes = spans[1].causes
    BY <2>1, <2>2 DEF SpanType
  <2>4. /\ spans[1].epoch \in Nat /\ spans[1].first \in Nat /\ spans[1].gaps \in Nat
        /\ old.epoch \in Nat /\ old.end \in Nat /\ old.unknown \in Nat
    BY <1>1, <2>1 DEF SpanType, CursorType
  <2>5. PICK end, lost, known :
          /\ end = IF old.epoch # s.epoch THEN 0 ELSE old.end
          /\ lost = IF s.first >= end THEN s.first - end ELSE 0
          /\ known = IF old.epoch # s.epoch THEN 0 ELSE old.unknown
    OBVIOUS
  <2>6. /\ told'["read"].skipped = (lost > 0)
        /\ told'["read"].caused = (s.causes # {})
        /\ told'["read"].unknown = (s.gaps # known)
    BY <1>1, <2>1, <2>2, <2>5 DEF Deliver
  <2>7. lost > 0 => s.causes # {} \/ s.gaps # known
    <3>1. /\ Place("read").epoch = old.epoch /\ Place("read").end = old.end
          /\ Place("read").gaps = old.unknown
      BY DEF Place
    <3>2. CASE offset = 0
      <4>1. Covered(Place("read"), spans[1], {})
        BY <2>1, <3>2 DEF Cover, CoverRing
      <4>2. Reached(Place("read"), s.epoch) = end /\ Known(Place("read"), s.epoch) = known
        BY <2>5, <3>1 DEF Reached, Known
      <4>3. end < spans[1].first => spans[1].causes # {} \/ known < spans[1].gaps
        BY <2>3, <4>1, <4>2 DEF Covered
      <4>4. lost > 0 => end < spans[1].first
        BY <2>3, <2>4, <2>5, <3>2
      <4>5. known < spans[1].gaps => s.gaps # known
        BY <2>3, <2>4, <2>5
      <4> QED
        BY <2>3, <4>3, <4>4, <4>5
    <3>3. CASE offset # 0
      <4>1. Place("read") = [Mark(spans[1]) EXCEPT !.end = spans[1].first + offset]
        BY <2>1, <3>3 DEF Line, RingLine
      <4>2. old.epoch = s.epoch /\ old.end = s.first
        BY <2>3, <3>1, <4>1 DEF Mark
      <4>3. lost = 0
        BY <2>1, <2>3, <2>4, <2>5, <4>2
      <4> QED
        BY <4>3
    <3> QED
      BY <3>2, <3>3
  <2> QED
    BY <2>6, <2>7 DEF LossHasCause
<1> QED
  BY <1>2, <1>3, <1>4, Frames

\* A reader told of a known loss is told why, or that the stream was interrupted besides, if no
\* transfer completes between a stall's marker and the pause that follows it.
THEOREM LossesCaused == ASSUME QuietRecovery PROVE Spec => []LossHasCause
<1>1. Init => Cover /\ LossHasCause
  <2>1. Init => LossHasCause
    BY DEF Init, LossHasCause, Channels
  <2> QED
    BY <2>1, CoverInit
<1>2. IInv /\ Flow /\ Line /\ Marked /\ Cover /\ LossHasCause /\ [Next]_vars => (Cover /\ LossHasCause)'
  BY CoverStep, LossStep
<1> QED
  BY <1>1, <1>2, LineInvariance, PTL DEF Spec

----------------------------------------------------------------------------
(* The account: what was handed over and what was lost make up the epoch. *)

\* What a channel was handed and what it was told is lost make up its epoch so far.
Accounts == \A c \in Channels : told[c].got + told[c].lost = cursor[c].end

\* A hand-over counts what it gives and what it passed over.
LEMMA AccountStep ==
  ASSUME IInv, Flow, Line, Accounts, [Next]_vars PROVE Accounts'
<1>1. /\ cursor \in [Channels -> CursorType] /\ told \in [Channels -> ToldType]
      /\ Channels = {"read", "callback"}
  BY DEF IInv, TypeOK, Channels
<1>2. ASSUME NEW c \in Channels, NEW span \in SpanType, NEW pairs, NEW n \in Nat, n = Len(pairs), n > 0,
             Deliver(c, span, pairs), After(Place(c), span)
      PROVE  Accounts'
  <2>1. /\ \A d \in Channels : d # c => told'[d] = told[d] /\ cursor'[d] = cursor[d]
        /\ cursor'[c].end = span.first + n /\ Counts(c, span, n)
    BY <1>1, <1>2, HandsOver
  <2>2. /\ cursor[c].end \in Nat /\ told[c].got \in Nat /\ told[c].lost \in Nat /\ span.first \in Nat
        /\ told[c].got + told[c].lost = cursor[c].end
    BY <1>1 DEF CursorType, ToldType, SpanType, Accounts
  <2>3. told'[c].got + told'[c].lost = cursor'[c].end
    <3>1. CASE told'[c].got = n /\ told'[c].lost = span.first
      BY <2>1, <2>2, <3>1
    <3>2. CASE /\ span.first >= cursor[c].end
               /\ told'[c].got = told[c].got + n
               /\ told'[c].lost = told[c].lost + (span.first - cursor[c].end)
      BY <2>1, <2>2, <3>2
    <3> QED
      BY <2>1, <3>1, <3>2 DEF Counts
  <2> QED
    BY <2>1, <2>3 DEF Accounts
<1>3. CASE UNCHANGED <<cursor, told>>
  BY <1>3 DEF Accounts
<1>4. CASE CallBack /\ ~UNCHANGED <<cursor, told>>
  BY <1>1, <1>2, <1>4, CallbackHandsOver
<1>5. CASE ReadDeliver
  BY <1>1, <1>2, <1>5, ReadHandsOver
<1> QED
  BY <1>3, <1>4, <1>5, Frames

\* On both channels the pairs handed over and the pairs reported lost make up the epoch up to the
\* last pair handed over: no loss goes unreported, none is reported twice.
THEOREM ChannelsAccounted == Spec => [](ReadChannel!Accounted /\ CallbackChannel!Accounted)
<1>1. Init => Accounts
  BY DEF Init, Accounts
<1>2. IInv /\ Flow /\ Line /\ Accounts /\ [Next]_vars => Accounts'
  BY AccountStep
<1>3. Accounts => ReadChannel!Accounted /\ CallbackChannel!Accounted
  BY DEF Accounts, Channels, ReadChannel!Accounted, CallbackChannel!Accounted
<1> QED
  BY <1>1, <1>2, <1>3, LineInvariance, PTL DEF Spec
=============================================================================
