---------------------------- MODULE Acquisition ----------------------------
(***************************************************************************)
(* The acquisition data path of one receiver: how the sample pairs of a    *)
(* completed bulk transfer reach the application, and what the metadata    *)
(* handed over with them says.                                             *)
(*                                                                         *)
(* Four activities share the handle without a common lock:                 *)
(*   - the USB completion callback (bulk_cb) numbers each block on the     *)
(*     Timeline and, in READ mode, pushes it into the pull ring itself;    *)
(*   - in BOTH mode the callback parks the block in an IqSlot and the      *)
(*     delivery task pushes it and then calls the application back;        *)
(*   - the application's reader (acquisition_read; readers are serialised  *)
(*     by pull_mux) takes one descriptor's worth of pairs out;             *)
(*   - control operations close the stream's gate, drain it and begin a    *)
(*     new epoch, or repair the endpoint within the epoch.                 *)
(*                                                                         *)
(* The pull ring and the descriptor Sidecar are two single-producer single-*)
(* consumer queues that must stay in step although each side publishes     *)
(* them one after the other.                                               *)
(*                                                                         *)
(* Everything is counted in CU8 pairs: the acquisition path faults on an   *)
(* odd transfer, the ring capacity is even, and every length is rounded    *)
(* down to even, so an index is always even.  A pair is named by its epoch *)
(* and its index in the epoch, which is what the metadata claims of it.    *)
(***************************************************************************)
EXTENDS Naturals, Sequences, FiniteSets

CONSTANTS
  Modes,          \* the delivery modes of the instance, of "READ" and "BOTH"
  RingPairs,      \* pairs the pull ring has room for, the unused one included
  SpanSlots,      \* descriptors the Sidecar has room for (64 in the code)
  IqSlots,        \* slots of the IQ ring (kRingDepth = 6)
  BlockSizes,     \* pairs a completed transfer may carry
  ReadSizes,      \* pairs a reader may ask for
  MaxEpochs,      \* bound: epochs begun
  MaxIndex,       \* bound: pairs observed in an epoch
  MaxGaps,        \* bound: interruption markers in an epoch, by mode
  QuietRecovery   \* no transfer completes between the marker and the pause

ASSUME RingAssumption == RingPairs \in Nat \ {0}
ASSUME SpanAssumption == SpanSlots \in Nat \ {0}
ASSUME SlotAssumption == IqSlots \in Nat
ASSUME SizesAssumption == /\ BlockSizes \subseteq Nat \ {0}
                          /\ ReadSizes \subseteq Nat \ {0}
ASSUME ModeAssumption == Modes \subseteq {"READ", "BOTH"}
ASSUME BoundAssumption == MaxEpochs \in Nat /\ MaxIndex \in Nat

VARIABLES
  mode,      \* cfg.delivery_mode
  gate,      \* "open" while streaming, not paused and not gone; else why not
  seen,      \* Timeline: epoch = Len(seen), position_ = its last element
  gaps,      \* Timeline: unknown_gap_count
  causes,    \* Timeline: loss causes the next block will carry
  odd,       \* Timeline: alignment_uncertain_
  block,     \* the block bulk_cb has observed and not yet handed on, or NoBlock
  push,      \* pull_ring_push in progress: [pc, span, n]
  pending,   \* pull_pending_causes
  cell,      \* pull_buf
  w, r,      \* pull_w, pull_r
  spans,     \* Sidecar: the descriptors between read_ and write_
  offset,    \* Sidecar: offset_
  rd,        \* acquisition_read in progress: [pc, n, out]
  freeQ, filledQ,  \* the IqSlot queues
  slot,      \* AcquisitionRuntime.slots
  held,      \* the slot the delivery task works on: [pc, id]
  cursor,    \* read_cursor and callback_cursor
  torn,      \* history: breaks of the physical sample stream so far
  told       \* history: what the channel was told by its last hand-over

timeline == <<seen, gaps, causes, odd>>
ring == <<cell, w, r, spans, offset, pending, push>>
slots == <<freeQ, filledQ, slot, held>>
reader == <<rd, cursor, told>>
vars == <<mode, gate, timeline, block, ring, slots, reader, torn>>

Channels == {"read", "callback"}
LossCauses == {"QUEUE_STARVE", "PULL_OVERRUN", "META_OVERRUN"}
Slots == 1 .. IqSlots

NoBlock == [epoch |-> 0, first |-> 0, len |-> 0, gaps |-> 0,
            causes |-> {}, torn |-> 0]
NoPush == [pc |-> "idle", span |-> NoBlock, n |-> 0]
NoRead == [pc |-> "idle", n |-> 0, out |-> <<>>]
Unpaired == [epoch |-> 0, index |-> 0]

Epoch == Len(seen)
Position == IF seen = <<>> THEN 0 ELSE seen[Epoch]

----------------------------------------------------------------------------
(* The pull ring and the Sidecar.                                          *)

\* pull_ring_used
Used == IF w >= r THEN w - r ELSE RingPairs - r + w

\* Mutant of Space: no place stays empty.
SpaceToTheBrim == RingPairs - Used

\* pull_ring_space, rounded down to a pair: one pair's place stays empty
Space == RingPairs - 1 - Used

\* Mutant of Ahead: the index does not wrap.
AheadUnwrapped(i, k) == i + k

\* An index k pairs further on.
Ahead(i, k) == (i + k) % RingPairs

Min2(a, b) == IF a < b THEN a ELSE b

\* The k-th pair of a block, as the transfer buffer holds it.
Pair(span, k) == [epoch |-> span.epoch, index |-> span.first + k]

\* The callback runs pull_ring_push in READ mode: it is busy meanwhile.
CallbackFree == block = NoBlock /\ (mode = "READ" => push.pc = "idle")

----------------------------------------------------------------------------
Init ==
  /\ mode \in Modes
  /\ gate = "closed"
  /\ seen = <<>> /\ gaps = 0 /\ causes = {} /\ odd = FALSE
  /\ block = NoBlock
  /\ push = NoPush /\ pending = {}
  /\ cell = [i \in 0 .. RingPairs - 1 |-> Unpaired] /\ w = 0 /\ r = 0
  /\ spans = <<>> /\ offset = 0
  /\ rd = NoRead
  /\ freeQ = [i \in Slots |-> i] /\ filledQ = <<>>
  /\ slot = [i \in Slots |-> NoBlock]
  /\ held = [pc |-> "idle", id |-> 0]
  /\ cursor = [c \in Channels |-> [epoch |-> 0, end |-> 0, unknown |-> 0]]
  /\ torn = 0
  /\ told = [c \in Channels |-> [got |-> 0, lost |-> 0, torn |-> 0, label |-> TRUE,
                                 skipped |-> FALSE, caused |-> TRUE,
                                 broken |-> FALSE, unknown |-> FALSE]]

----------------------------------------------------------------------------
(* Control operations, as far as the data path sees them.                  *)

\* A retune, a sideband control, a stop, or a recovery that gives up: no block
\* passes from here on.
Close ==
  /\ gate # "closed"
  /\ gate' = "closed"
  /\ UNCHANGED <<mode, timeline, block, ring, slots, reader, torn>>

\* acquisition_epoch at the end of the drained window or in a start: no
\* transfer is in flight; the gate opens on the new epoch.
Begin ==
  /\ gate = "closed"
  /\ CallbackFree
  /\ Epoch < MaxEpochs
  /\ seen' = Append(seen, 0)
  /\ gaps' = IF Epoch >= 1 THEN 1 ELSE 0
  /\ causes' = {} /\ odd' = FALSE
  /\ gate' = "open"
  /\ UNCHANGED <<mode, block, ring, slots, reader, torn>>

\* bulk_recover_stall marks the interruption ...
RecoverMark ==
  /\ gate = "open"
  /\ gaps < MaxGaps[mode]
  /\ gaps' = gaps + 1
  /\ gate' = "marked"
  /\ UNCHANGED <<mode, seen, causes, odd, block, ring, slots, reader, torn>>

\* ... then pauses, drains and clears the endpoint: what the dongle sent
\* meanwhile is gone ...
RecoverPause ==
  /\ gate = "marked"
  /\ gate' = "recovering"
  /\ torn' = torn + 1
  /\ UNCHANGED <<mode, timeline, block, ring, slots, reader>>

\* ... and resubmits in the same epoch.
RecoverResume ==
  /\ gate = "recovering"
  /\ CallbackFree
  /\ gate' = "open"
  /\ UNCHANGED <<mode, timeline, block, ring, slots, reader, torn>>

----------------------------------------------------------------------------
(* The USB completion callback.                                            *)

\* Blocks pass while streaming and not paused.
GateOpen == gate \in {"open", "marked"}

\* A transfer completed with data: Timeline::observe numbers it, whether or
\* not it will be handed on.
Observe(len) ==
  /\ CallbackFree
  /\ seen # <<>> /\ ~odd
  /\ QuietRecovery => gate # "marked"
  /\ Position + len <= MaxIndex
  /\ block' = [epoch |-> Epoch, first |-> Position, len |-> len, gaps |-> gaps,
               causes |-> causes, torn |-> torn]
  /\ seen' = [seen EXCEPT ![Epoch] = @ + len]
  /\ causes' = {}
  /\ UNCHANGED <<mode, gate, gaps, odd, ring, slots, reader, torn>>

\* An odd transfer: pairs can no longer be told apart; capture faults.
ObserveOdd ==
  /\ CallbackFree
  /\ seen # <<>>
  /\ gaps < MaxGaps[mode]
  /\ gaps' = gaps + 1
  /\ causes' = {} /\ odd' = TRUE
  /\ torn' = torn + 1
  /\ gate' = "closed"
  /\ UNCHANGED <<mode, seen, block, ring, slots, reader>>

\* Mutant of TransferError: the interruption is not marked.
TransferErrorUnmarked ==
  /\ CallbackFree
  /\ seen # <<>>
  /\ torn < 2
  /\ torn' = torn + 1
  /\ UNCHANGED <<mode, gate, timeline, block, ring, slots, reader>>

\* A transfer failed: its samples are lost and nobody knows how many.
TransferError ==
  /\ CallbackFree
  /\ seen # <<>>
  /\ gaps < MaxGaps[mode]
  /\ gaps' = gaps + 1
  /\ torn' = torn + 1
  /\ UNCHANGED <<mode, gate, seen, causes, odd, block, ring, slots, reader>>

\* The gate closed between the observation and the test: the block is dropped.
DropAtGate ==
  /\ block # NoBlock /\ ~GateOpen
  /\ block' = NoBlock
  /\ UNCHANGED <<mode, gate, timeline, ring, slots, reader, torn>>

\* READ: straight from the transfer into the ring.
PushBlock ==
  /\ block # NoBlock /\ GateOpen /\ mode = "READ"
  /\ push' = [pc |-> "space", span |-> block, n |-> 0]
  /\ block' = NoBlock
  /\ UNCHANGED <<mode, gate, timeline, cell, w, r, spans, offset, pending, slots, reader, torn>>

\* BOTH: into a free slot, metadata beside it, and onto filled_q.
ParkBlock ==
  /\ block # NoBlock /\ GateOpen /\ mode = "BOTH"
  /\ freeQ # <<>>
  /\ freeQ' = Tail(freeQ)
  /\ slot' = [slot EXCEPT ![Head(freeQ)] = block]
  /\ filledQ' = Append(filledQ, Head(freeQ))
  /\ block' = NoBlock
  /\ UNCHANGED <<mode, gate, timeline, ring, held, reader, torn>>

\* BOTH: no free slot; the block is lost and the next one says so.
Starve ==
  /\ block # NoBlock /\ GateOpen /\ mode = "BOTH"
  /\ freeQ = <<>>
  /\ causes' = causes \union {"QUEUE_STARVE"}
  /\ block' = NoBlock
  /\ UNCHANGED <<mode, gate, seen, gaps, odd, ring, slots, reader, torn>>

----------------------------------------------------------------------------
(* pull_ring_push, run by the callback (READ) or the delivery task (BOTH). *)

\* What fits is decided once, from the indices of this moment.
PushSpace ==
  /\ push.pc = "space"
  /\ push' = [push EXCEPT !.pc = "span", !.n = Min2(push.span.len, Space)]
  /\ UNCHANGED <<mode, gate, timeline, block, cell, w, r, spans, offset, pending,
                 slots, reader, torn>>

\* Mutant of PushSpan: the causes of an overrun are forgotten.
PushSpanForgetful ==
  /\ push.pc = "span"
  /\ IF push.n > 0 /\ Len(spans) < SpanSlots
     THEN /\ spans' = Append(spans, [push.span EXCEPT !.len = push.n,
                                       !.causes = @ \union pending])
          /\ push' = [push EXCEPT !.pc = "copy"]
     ELSE push' = NoPush /\ UNCHANGED spans
  /\ pending' = {}
  /\ UNCHANGED <<mode, gate, timeline, block, cell, w, r, offset, slots, reader, torn>>

\* The descriptor is published before the pairs it describes.  What does not
\* fit, in the ring or in the Sidecar, is dropped, and its causes wait for
\* the next descriptor that goes in.
PushSpan ==
  /\ push.pc = "span"
  /\ LET n == push.n
         tagged == push.span.causes \union pending
         overrun == IF n < push.span.len THEN {"PULL_OVERRUN"} \union tagged ELSE {}
     IN \/ /\ n > 0 /\ Len(spans) < SpanSlots
           /\ spans' = Append(spans, [push.span EXCEPT !.len = n, !.causes = tagged])
           /\ pending' = overrun
           /\ push' = [push EXCEPT !.pc = "copy"]
        \/ /\ n > 0 /\ Len(spans) >= SpanSlots
           /\ pending' = pending \union {"META_OVERRUN"} \union tagged \union overrun
           /\ push' = NoPush
           /\ UNCHANGED spans
        \/ /\ n = 0
           /\ pending' = pending \union overrun
           /\ push' = NoPush
           /\ UNCHANGED spans
  /\ UNCHANGED <<mode, gate, timeline, block, cell, w, r, offset, slots, reader, torn>>

\* The pairs are copied in behind w, around the end of the buffer ...
PushCopy ==
  /\ push.pc = "copy"
  /\ cell' = [i \in DOMAIN cell |->
                IF \E k \in 0 .. push.n - 1 : Ahead(w, k) = i
                THEN Pair(push.span, CHOOSE k \in 0 .. push.n - 1 : Ahead(w, k) = i)
                ELSE cell[i]]
  /\ push' = [push EXCEPT !.pc = "publish"]
  /\ UNCHANGED <<mode, gate, timeline, block, w, r, spans, offset, pending,
                 slots, reader, torn>>

\* ... and w is released to the reader.
PushPublish ==
  /\ push.pc = "publish"
  /\ w' = Ahead(w, push.n)
  /\ push' = NoPush
  /\ UNCHANGED <<mode, gate, timeline, block, cell, r, spans, offset, pending,
                 slots, reader, torn>>

----------------------------------------------------------------------------
(* A hand-over: Cursor::deliver and what the channel learns from it.  span *)
(* is the metadata with its sample index, pairs the data that goes with it.*)

Deliver(c, span, pairs) ==
  LET old == cursor[c]
      changed == old.epoch # span.epoch
      end == IF changed THEN 0 ELSE old.end
      lost == IF span.first >= end THEN span.first - end ELSE 0
  IN /\ cursor' = [cursor EXCEPT ![c] = [epoch |-> span.epoch,
                                         end |-> span.first + Len(pairs),
                                         unknown |-> span.gaps]]
     /\ told' = [told EXCEPT ![c] =
          [got |-> Len(pairs) + (IF changed THEN 0 ELSE @.got),
           lost |-> lost + (IF changed THEN 0 ELSE @.lost),
           torn |-> span.torn,
           label |-> \A k \in DOMAIN pairs : pairs[k] = Pair(span, k - 1),
           skipped |-> lost > 0,
           caused |-> span.causes # {},
           broken |-> ~changed /\ span.torn # @.torn,
           unknown |-> span.gaps # IF changed THEN 0 ELSE old.unknown]]

(* The delivery task (BOTH).                                               *)

\* Mutant of TakeSlot: the newest block first.
TakeLastSlot ==
  /\ held.pc = "idle" /\ filledQ # <<>>
  /\ LET last == filledQ[Len(filledQ)] IN
       /\ held' = [pc |-> "push", id |-> last]
       /\ push' = [pc |-> "space", span |-> slot[last], n |-> 0]
  /\ filledQ' = SubSeq(filledQ, 1, Len(filledQ) - 1)
  /\ UNCHANGED <<mode, gate, timeline, block, cell, w, r, spans, offset, pending,
                 freeQ, slot, reader, torn>>

TakeSlot ==
  /\ held.pc = "idle" /\ filledQ # <<>>
  /\ held' = [pc |-> "push", id |-> Head(filledQ)]
  /\ filledQ' = Tail(filledQ)
  /\ push' = [pc |-> "space", span |-> slot[Head(filledQ)], n |-> 0]
  /\ UNCHANGED <<mode, gate, timeline, block, cell, w, r, spans, offset, pending,
                 freeQ, slot, reader, torn>>

\* The application's callback gets the block and its metadata, unless the
\* task could not get the handle lock in time to read cfg.event_cb.
CallBack ==
  /\ held.pc = "push" /\ push.pc = "idle"
  /\ LET span == slot[held.id]
     IN \/ Deliver("callback", span, [k \in 1 .. span.len |-> Pair(span, k - 1)])
        \/ UNCHANGED <<cursor, told>>
  /\ held' = [held EXCEPT !.pc = "return"]
  /\ UNCHANGED <<mode, gate, timeline, block, ring, freeQ, filledQ, slot, rd, torn>>

ReturnSlot ==
  /\ held.pc = "return"
  /\ freeQ' = Append(freeQ, held.id)
  /\ slot' = [slot EXCEPT ![held.id] = NoBlock]   \* never read before it is refilled
  /\ held' = [pc |-> "idle", id |-> 0]
  /\ UNCHANGED <<mode, gate, timeline, block, ring, filledQ, reader, torn>>

----------------------------------------------------------------------------
(* acquisition_read.                                                       *)

\* Mutant of Peek: the part already read is not skipped.
PeekWithoutOffset(n) == [Head(spans) EXCEPT !.len = Min2(n, @ - offset)]

\* The first descriptor as Sidecar::peek shows it to a reader that may take
\* at most n pairs.
Peek(n) ==
  [Head(spans) EXCEPT !.first = @ + offset, !.len = Min2(n, @ - offset)]

ReadLoad(size) ==
  /\ rd.pc = "idle"
  /\ Used > 0 /\ spans # <<>>
  /\ rd' = [pc |-> "copy", n |-> Peek(Min2(size, Used)).len, out |-> <<>>]
  /\ UNCHANGED <<mode, gate, timeline, block, ring, slots, cursor, told, torn>>

ReadCopy ==
  /\ rd.pc = "copy"
  /\ rd' = [rd EXCEPT !.pc = "deliver",
                      !.out = [k \in 1 .. rd.n |-> cell[Ahead(r, k - 1)]]]
  /\ UNCHANGED <<mode, gate, timeline, block, ring, slots, cursor, told, torn>>

\* Mutant of ReadDeliver: what a partial read took is not retired.
ReadDeliverUnretired ==
  /\ rd.pc = "deliver"
  /\ Deliver("read", Peek(rd.n), rd.out)
  /\ IF offset + rd.n = Head(spans).len
     THEN offset' = 0 /\ spans' = Tail(spans)
     ELSE UNCHANGED <<offset, spans>>
  /\ rd' = [rd EXCEPT !.pc = "free", !.out = <<>>]
  /\ UNCHANGED <<mode, gate, timeline, block, cell, w, r, pending, push, slots, torn>>

\* Cursor::deliver, then Sidecar::consume retires what was taken ...
ReadDeliver ==
  /\ rd.pc = "deliver"
  /\ Deliver("read", Peek(rd.n), rd.out)
  /\ IF offset + rd.n = Head(spans).len
     THEN offset' = 0 /\ spans' = Tail(spans)
     ELSE offset' = offset + rd.n /\ UNCHANGED spans
  /\ rd' = [rd EXCEPT !.pc = "free", !.out = <<>>]
  /\ UNCHANGED <<mode, gate, timeline, block, cell, w, r, pending, push, slots, torn>>

\* ... and r is released to the producer.
ReadFree ==
  /\ rd.pc = "free"
  /\ r' = Ahead(r, rd.n)
  /\ rd' = NoRead
  /\ UNCHANGED <<mode, gate, timeline, block, cell, w, spans, offset, pending, push,
                 slots, cursor, told, torn>>

----------------------------------------------------------------------------
Control == Close \/ Begin \/ RecoverMark \/ RecoverPause \/ RecoverResume
Callback == \/ \E len \in BlockSizes : Observe(len)
            \/ ObserveOdd \/ TransferError
            \/ DropAtGate \/ PushBlock \/ ParkBlock \/ Starve
Push == PushSpace \/ PushSpan \/ PushCopy \/ PushPublish
Delivery == TakeSlot \/ CallBack \/ ReturnSlot
Reader == \/ \E size \in ReadSizes : ReadLoad(size)
          \/ ReadCopy \/ ReadDeliver \/ ReadFree

Next == Control \/ Callback \/ Push \/ Delivery \/ Reader

Spec == Init /\ [][Next]_vars

----------------------------------------------------------------------------
(* Properties.                                                             *)

SpanType == [epoch : Nat, first : Nat, len : Nat, gaps : Nat,
             causes : SUBSET LossCauses, torn : Nat]
PairType == [epoch : Nat, index : Nat]
PushType == [pc : {"idle", "space", "span", "copy", "publish"}, span : SpanType, n : Nat]
ReadType == [pc : {"idle", "copy", "deliver", "free"}, n : Nat, out : Seq(PairType)]
HeldType == [pc : {"idle", "push", "return"}, id : 0 .. IqSlots]
CursorType == [epoch : Nat, end : Nat, unknown : Nat]
ToldType == [got : Nat, lost : Nat, torn : Nat, label : BOOLEAN, skipped : BOOLEAN,
             caused : BOOLEAN, broken : BOOLEAN, unknown : BOOLEAN]

\* Every variable has the shape its declaration says.
TypeOK ==
  /\ mode \in Modes
  /\ gate \in {"open", "marked", "recovering", "closed"}
  /\ seen \in Seq(Nat) /\ gaps \in Nat /\ causes \subseteq LossCauses /\ odd \in BOOLEAN
  /\ block \in SpanType
  /\ push \in PushType /\ pending \subseteq LossCauses
  /\ cell \in [0 .. RingPairs - 1 -> PairType]
  /\ w \in 0 .. RingPairs - 1 /\ r \in 0 .. RingPairs - 1
  /\ spans \in Seq(SpanType) /\ offset \in Nat
  /\ rd \in ReadType
  /\ freeQ \in Seq(Slots) /\ filledQ \in Seq(Slots) /\ slot \in [Slots -> SpanType]
  /\ held \in HeldType
  /\ cursor \in [Channels -> CursorType]
  /\ torn \in Nat
  /\ told \in [Channels -> ToldType]

\* The places the producer is filling, and those the reader is emptying.
Filling == IF push.pc \in {"copy", "publish"} THEN {Ahead(w, k) : k \in 0 .. push.n - 1}
                                              ELSE {}
Emptying == IF rd.pc \in {"copy", "deliver", "free"} THEN {Ahead(r, k) : k \in 0 .. rd.n - 1}
                                                     ELSE {}

\* The producer never writes where the reader reads, although neither takes
\* a lock: the producer decides what fits from a read index that may be old,
\* and the reader what is there from a write index that may be old.
NeverOverlaps == Filling \cap Emptying = {}

\* The pairs a sample claims to be are the pairs it is: data and descriptors
\* come from two queues, and a partial read, a wrap, an overrun or a stop in
\* between never shifts one against the other.
LabelsHold == \A c \in Channels : told[c].label

\* A reader told of a known loss is told why, or that the stream was
\* interrupted besides.
LossHasCause ==
  told["read"].skipped => told["read"].caused \/ told["read"].unknown

\* No two consecutive hand-overs of one epoch hide a break of the sample
\* stream between them: the second carries UNKNOWN_LOSS.
NoSilentBreak ==
  \A c \in Channels : told[c].broken => told[c].unknown

\* Each channel is a lossy stream of what was observed.
ReadChannel == INSTANCE LossyStream WITH
  Index <- 0 .. MaxIndex,
  at <- [epoch |-> cursor["read"].epoch, end |-> cursor["read"].end],
  got <- told["read"].got, lost <- told["read"].lost
CallbackChannel == INSTANCE LossyStream WITH
  Index <- 0 .. MaxIndex,
  at <- [epoch |-> cursor["callback"].epoch, end |-> cursor["callback"].end],
  got <- told["callback"].got, lost <- told["callback"].lost
ReadIsLossyStream == ReadChannel!Spec
CallbackIsLossyStream == CallbackChannel!Spec
=============================================================================
