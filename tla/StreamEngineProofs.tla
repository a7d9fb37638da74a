------------------------ MODULE StreamEngineProofs ------------------------
(***************************************************************************)
(* Proofs about StreamEngine, for any pool size, any set of application    *)
(* tasks, any calls they make and any bound on faults and retries:         *)
(*   - TypeOK is an invariant,                                             *)
(*   - WindowExclusive is an invariant: the EP0 window has at most one     *)
(*     owner and ep0_sideband_busy is set exactly while it has one.        *)
(* Then, while the bulk pipe and the device hold out and no call overlaps  *)
(* a start (Undisturbed), whatever EP0 sequence fails and whatever wait    *)
(* runs out:                                                               *)
(*   - NoFreeInFlight, LiveExact, StreamingIsReal, IdleHasNoBulk, Ep0Quiet *)
(*     and NoSilentStream are invariants.                                  *)
(***************************************************************************)
EXTENDS StreamEngine, FiniteSetTheorems, TLAPS

ClientPlaces == {"pump", "cb_submit", "cb_load", "cb_store"}

\* Which call a task can be in at each place. WindowExclusive alone is not
\* inductive: the drain, resume and counting steps are shared by calls that
\* own the window and calls that do not, and only op tells them apart.
OpFits(place, op) ==
    /\ place \in {"pause", "ep0", "release"} => op \in {"retune", "side"}
    /\ place \in {"sp_take", "sp_mark", "sp_ep0", "sp_free"} => op \in {"stop", "start"}
    /\ place \in {"rt_enter", "rt_take"} => op = "retune"
    /\ place \in {"resume", "rs_submit"} => op \in {"retune", "side", "recover"}
    /\ place \in {"inc_load", "inc_store"} => op \in {"retune", "side", "recover", "start"}
    /\ place = "rec_begin" => op = "recover"
    /\ place = "sb_enter" => op = "side"
    /\ place \in {"st_claim", "st_ep0", "st_alloc", "st_free", "st_pool", "st_arm",
                  "st_submit", "fail_tail"} => op = "start"

OpsFit ==
    /\ \A t \in Task : OpFits(pc[t], loc[t].op)
    /\ \A t \in Task : t = "client" <=> pc[t] \in ClientPlaces
    /\ pc["client"] = "cb_store" => loc["client"].tmp > 0

IInv == TypeOK /\ OpsFit /\ WindowExclusive

-----------------------------------------------------------------------------
(* Types: the sets TypeOK is made of are closed under the updates the       *)
(* actions make; then one lemma per action, one step per variable it changes. *)

\* Flushes, timeouts, faults and URB changes keep the USB record well-typed.
LEMMA UsbFacts ==
    ASSUME NEW u \in Usb
    PROVE  /\ Flushed(u) \in Usb
           /\ Expired(u) \in Usb
           /\ Faulted(u) \in Usb
           /\ \A v \in {"idle", "flight"} \cup Outcomes :
                 \A i : [u EXCEPT !.urb[i] = v] \in Usb
<1>1. Flushed(u) \in Usb
  BY DEF Flushed, Usb, Outcomes
<1>2. Expired(u) \in Usb
  BY DEF Expired, Usb
<1>3. Faulted(u) \in Usb
  BY DEF Faulted, Usb
<1>4. ASSUME NEW i, NEW v \in {"idle", "flight"} \cup Outcomes
      PROVE  [u EXCEPT !.urb[i] = v] \in Usb
  BY DEF Usb
<1> QED BY <1>1, <1>2, <1>3, <1>4

\* So does every update of a task's locals.
LEMMA LocFacts ==
    ASSUME NEW l \in [Task -> Locals], NEW t \in Task
    PROVE  /\ Fresh \in Locals
           /\ \A v \in Locals : [l EXCEPT ![t] = v] \in [Task -> Locals]
           /\ \A v \in OpNames : [l EXCEPT ![t].op = v] \in [Task -> Locals]
           /\ \A v \in Freqs \cup {NoFreq} : [l EXCEPT ![t].f = v] \in [Task -> Locals]
           /\ \A v \in Nat : [l EXCEPT ![t].idx = v] \in [Task -> Locals]
           /\ \A v \in Nat : [l EXCEPT ![t].tmp = v] \in [Task -> Locals]
           /\ \A v \in BOOLEAN : [l EXCEPT ![t].ok = v] \in [Task -> Locals]
BY DEF Locals, Fresh, OpNames

\* The step of a failing start (StartFails) leaves well-typed locals.
LEMMA Failing ==
    ASSUME loc \in [Task -> Locals], NEW a \in App, NEW isUsb, StartFails(a, isUsb)
    PROVE  loc' \in [Task -> Locals]
<1> DEFINE v == [Fresh EXCEPT !.op = "start", !.tmp = IF isUsb THEN 1 ELSE 0]
<1>1. v \in Locals
  BY DEF Fresh, Locals, OpNames
<1>2. a \in Task /\ loc' = [loc EXCEPT ![a] = v]
  BY DEF StartFails, Task
<1> QED BY <1>1, <1>2

\* The number-valued fields, as the arithmetic steps need them.
LEMMA Types ==
    ASSUME TypeOK
    PROVE  /\ h.live \in Nat
           /\ \A t \in Task : loc[t].idx \in Nat /\ loc[t].tmp \in Nat
BY DEF TypeOK, Handle, Locals

\* One lemma per action: it keeps the type of every variable it changes.
LEMMA CompleteTyped == ASSUME NEW i \in Urbs, TypeOK, Complete(i) PROVE TypeOK'
<1>1. usb' \in Usb
  BY UsbFacts DEF Complete, TypeOK, Outcomes
<1> QED BY <1>1 DEF Complete, TypeOK

LEMMA FailTyped == ASSUME NEW i \in Urbs, TypeOK, Fail(i) PROVE TypeOK'
<1>1. usb' \in Usb
  <2> DEFINE u == [usb EXCEPT !.urb[i] = "lost"]
                v == [u EXCEPT !.halted = TRUE]
  <2>1. u \in Usb
    BY UsbFacts DEF TypeOK, Outcomes
  <2>2. v \in Usb
    BY <2>1 DEF Usb
  <2>3. usb.errors + 1 \in Nat
    BY DEF TypeOK, Usb
  <2>4. usb' = [v EXCEPT !.errors = usb.errors + 1]
    BY DEF Fail
  <2> QED BY <2>2, <2>3, <2>4 DEF Usb
<1> QED BY <1>1 DEF Fail, TypeOK

LEMMA MalformTyped == ASSUME NEW i \in Urbs, TypeOK, Malform(i) PROVE TypeOK'
<1>1. usb' \in Usb
  <2> DEFINE u == [usb EXCEPT !.urb[i] = "bad"]
  <2>1. u \in Usb
    BY UsbFacts DEF TypeOK, Outcomes
  <2>2. usb.errors + 1 \in Nat
    BY DEF TypeOK, Usb
  <2>3. usb' = [u EXCEPT !.errors = usb.errors + 1]
    BY DEF Malform
  <2> QED BY <2>1, <2>2, <2>3 DEF Usb
<1> QED BY <1>1 DEF Malform, TypeOK

LEMMA RetireTyped == ASSUME NEW i \in Urbs, TypeOK, Retire(i) PROVE TypeOK'
<1>1. usb' \in Usb
  BY UsbFacts DEF Retire, TypeOK, Outcomes
<1> QED BY <1>1 DEF Retire, TypeOK

LEMMA CbBeginTyped == ASSUME NEW i \in Urbs, TypeOK, CbBegin(i) PROVE TypeOK'
<1>1. h' \in Handle
  BY FreqValues, ZenonT(60) DEF CbBegin, TypeOK, Handle, States, NoFreq, Locals, Usb, Outcomes
<1>2. usb' \in Usb
  BY UsbFacts DEF CbBegin, TypeOK, Outcomes
<1>3. pc' \in [Task -> PCs]
  BY DEF CbBegin, TypeOK, Goto, PCs, Task
<1>4. loc' \in [Task -> Locals]
  BY FreqValues, UrbCount DEF CbBegin, TypeOK, Locals, OpNames, NoFreq, Handle, Urbs, Task
<1> QED BY <1>1, <1>2, <1>3, <1>4 DEF CbBegin, TypeOK

LEMMA CbSubmitTyped == ASSUME TypeOK, CbSubmit PROVE TypeOK'
<1>1. h' \in Handle
  BY FreqValues, ZenonT(60) DEF CbSubmit, TypeOK, Handle, States, NoFreq, Locals, Usb, Outcomes
<1>2. usb' \in Usb
  <2>1. CASE CanSubmit(loc["client"].idx)
    <3>1. usb' = [usb EXCEPT !.urb[loc["client"].idx] = "flight"]
      BY <2>1 DEF CbSubmit
    <3> QED BY <3>1, UsbFacts DEF TypeOK
  <2>2. CASE ~CanSubmit(loc["client"].idx)
    BY <2>2 DEF CbSubmit, TypeOK
  <2> QED BY <2>1, <2>2
<1>3. pc' \in [Task -> PCs]
  BY DEF CbSubmit, TypeOK, Goto, PCs, Task
<1>4. loc' \in [Task -> Locals]
  BY LocFacts, ZenonT(60) DEF CbSubmit, TypeOK, OpNames, Clear, Handle, Urbs, Task
<1> QED BY <1>1, <1>2, <1>3, <1>4 DEF CbSubmit, TypeOK

LEMMA CbLoadTyped == ASSUME TypeOK, CbLoad PROVE TypeOK'
<1>1. pc' \in [Task -> PCs]
  BY DEF CbLoad, TypeOK, Goto, PCs, Task
<1>2. loc' \in [Task -> Locals]
  <2>1. "client" \in Task
    BY DEF Task
  <2>2. loc' = [loc EXCEPT !["client"].tmp = h.live] \/ loc' = [loc EXCEPT !["client"] = Fresh]
    BY DEF CbLoad, Clear
  <2> QED BY <2>1, <2>2, Types, LocFacts DEF TypeOK
<1> QED BY <1>1, <1>2 DEF CbLoad, TypeOK

LEMMA CbStoreTyped == ASSUME OpsFit, TypeOK, CbStore PROVE TypeOK'
<1>1. h' \in Handle
  <2>1. loc["client"].tmp - 1 \in Nat
    BY Types DEF CbStore, OpsFit, Task
  <2> QED BY <2>1 DEF CbStore, TypeOK, Handle
<1>2. pc' \in [Task -> PCs]
  BY DEF CbStore, TypeOK, Goto, PCs, Task
<1>3. loc' \in [Task -> Locals]
  BY FreqValues, UrbCount DEF CbStore, TypeOK, Locals, OpNames, NoFreq, Fresh, Clear,
     Handle, Urbs, Task
<1> QED BY <1>1, <1>2, <1>3 DEF CbStore, TypeOK

LEMMA PollDoneTyped == ASSUME NEW t \in Task, TypeOK, PollDone(t) PROVE TypeOK'
<1>1. pc' \in [Task -> PCs]
  BY DEF PollDone, TypeOK, Goto, PCs, Task
<1>2. loc' \in [Task -> Locals]
  BY LocFacts DEF PollDone, TypeOK, OpNames, Handle, Urbs, Task
<1> QED BY <1>1, <1>2 DEF PollDone, TypeOK

LEMMA PollExpireTyped == ASSUME NEW t \in Task, TypeOK, PollExpire(t) PROVE TypeOK'
<1>1. usb' \in Usb
  BY UsbFacts DEF PollExpire, TypeOK, Outcomes
<1>2. pc' \in [Task -> PCs]
  BY DEF PollExpire, TypeOK, Goto, PCs, Task
<1>3. loc' \in [Task -> Locals]
  BY LocFacts DEF PollExpire, TypeOK, OpNames, Handle, Urbs, Task
<1> QED BY <1>1, <1>2, <1>3 DEF PollExpire, TypeOK

LEMMA PollGiveUpTyped == ASSUME NEW t \in Task, TypeOK, PollGiveUp(t) PROVE TypeOK'
<1>1. usb' \in Usb
  BY UsbFacts DEF PollGiveUp, TypeOK, Outcomes
<1>2. pc' \in [Task -> PCs]
  BY DEF PollGiveUp, TypeOK, Goto, PCs, Task
<1>3. loc' \in [Task -> Locals]
  BY LocFacts DEF PollGiveUp, TypeOK, OpNames, Handle, Urbs, Task
<1> QED BY <1>1, <1>2, <1>3 DEF PollGiveUp, TypeOK

LEMMA PauseBulkTyped == ASSUME NEW t \in Task, TypeOK, PauseBulk(t) PROVE TypeOK'
<1>1. h' \in Handle
  BY FreqValues DEF PauseBulk, TypeOK, Handle, States, NoFreq, Locals, Usb, Outcomes
<1>2. pc' \in [Task -> PCs]
  BY DEF PauseBulk, TypeOK, Goto, PCs, Task
<1>3. loc' \in [Task -> Locals]
  BY LocFacts DEF PauseBulk, TypeOK, OpNames, Handle, Urbs, Task
<1> QED BY <1>1, <1>2, <1>3 DEF PauseBulk, TypeOK

LEMMA ResumeBeginTyped == ASSUME NEW t \in Task, TypeOK, ResumeBegin(t) PROVE TypeOK'
<1>1. h' \in Handle
  <2> DEFINE u == [h EXCEPT !.pause = FALSE]
  <2>1. u \in Handle
    BY DEF TypeOK, Handle
  <2>2. \A n \in Nat : [u EXCEPT !.live = n] \in Handle
    BY <2>1 DEF Handle
  <2>3. h' = h \/ h' = [u EXCEPT !.live = 0] \/ h' = [u EXCEPT !.live = h.live]
    BY DEF ResumeBegin
  <2> QED BY <2>2, <2>3, Types DEF TypeOK
<1>2. pc' \in [Task -> PCs]
  BY DEF ResumeBegin, TypeOK, Goto, PCs, Task
<1>3. loc' \in [Task -> Locals]
  BY FreqValues, UrbCount DEF ResumeBegin, TypeOK, Locals, OpNames, NoFreq, Handle, Urbs,
     Task
<1> QED BY <1>1, <1>2, <1>3 DEF ResumeBegin, TypeOK

LEMMA ResumeSubmitTyped == ASSUME NEW t \in Task, TypeOK, ResumeSubmit(t) PROVE TypeOK'
<1>1. usb' \in Usb
  <2>1. CASE CanSubmit(loc[t].idx)
    <3>1. usb' = [usb EXCEPT !.urb[loc[t].idx] = "flight"]
      BY <2>1 DEF ResumeSubmit
    <3> QED BY <3>1, UsbFacts DEF TypeOK
  <2>2. CASE ~CanSubmit(loc[t].idx)
    BY <2>2 DEF ResumeSubmit, TypeOK
  <2> QED BY <2>1, <2>2
<1>2. pc' \in [Task -> PCs]
  BY DEF ResumeSubmit, TypeOK, Goto, PCs, Task
<1>3. loc' \in [Task -> Locals]
  BY FreqValues, UrbCount DEF ResumeSubmit, TypeOK, Locals, OpNames, NoFreq, Handle, Urbs,
     Task
<1> QED BY <1>1, <1>2, <1>3 DEF ResumeSubmit, TypeOK

LEMMA ResumeEndTyped == ASSUME NEW t \in Task, TypeOK, ResumeEnd(t) PROVE TypeOK'
<1>1. pc' \in [Task -> PCs]
  BY DEF ResumeEnd, TypeOK, Goto, PCs, After, Task
<1>2. loc' \in [Task -> Locals]
  <2>1. loc' = [loc EXCEPT ![t] = Fresh] \/ loc' = [loc EXCEPT ![t].idx = 1]
    BY DEF ResumeEnd, Clear
  <2> QED BY <2>1, LocFacts DEF TypeOK
<1> QED BY <1>1, <1>2 DEF ResumeEnd, TypeOK

LEMMA IncLoadTyped == ASSUME NEW t \in Task, TypeOK, IncLoad(t) PROVE TypeOK'
<1>1. pc' \in [Task -> PCs]
  BY DEF IncLoad, TypeOK, Goto, PCs, Task
<1>2. loc' \in [Task -> Locals]
  BY FreqValues, UrbCount DEF IncLoad, TypeOK, Locals, OpNames, NoFreq, Handle, Urbs, Task
<1> QED BY <1>1, <1>2 DEF IncLoad, TypeOK

LEMMA IncStoreTyped == ASSUME NEW t \in Task, TypeOK, IncStore(t) PROVE TypeOK'
<1>1. h' \in Handle
  BY FreqValues DEF IncStore, TypeOK, Handle, States, NoFreq, Locals, Usb, Outcomes
<1>2. pc' \in [Task -> PCs]
  BY DEF IncStore, TypeOK, Goto, PCs, Task
<1>3. loc' \in [Task -> Locals]
  BY FreqValues, UrbCount DEF IncStore, TypeOK, Locals, OpNames, NoFreq, Handle, Urbs, Task
<1> QED BY <1>1, <1>2, <1>3 DEF IncStore, TypeOK

LEMMA ReleaseTyped == ASSUME NEW t \in Task, TypeOK, Release(t) PROVE TypeOK'
<1>1. h' \in Handle
  BY FreqValues DEF Release, TypeOK, Handle, States, NoFreq, Locals, Usb, Outcomes
<1>2. pc' \in [Task -> PCs]
  BY DEF Release, TypeOK, Goto, PCs, After, Task
<1>3. loc' \in [Task -> Locals]
  BY FreqValues, UrbCount DEF Release, TypeOK, Locals, OpNames, NoFreq, Fresh, Clear,
     Handle, Urbs, Task
<1> QED BY <1>1, <1>2, <1>3 DEF Release, TypeOK

LEMMA RetuneEnterTyped == ASSUME NEW t \in Task, TypeOK, RetuneEnter(t) PROVE TypeOK'
<1>1. pc' \in [Task -> PCs]
  BY DEF RetuneEnter, TypeOK, Goto, PCs, After, Task
<1>2. loc' \in [Task -> Locals]
  <2>1. CASE h.streaming /\ h.pend # NoFreq
    BY <2>1, LocFacts DEF RetuneEnter, TypeOK, Handle
  <2>2. CASE ~(h.streaming /\ h.pend # NoFreq)
    BY <2>2, LocFacts DEF RetuneEnter, TypeOK, Clear
  <2> QED BY <2>1, <2>2
<1> QED BY <1>1, <1>2 DEF RetuneEnter, TypeOK

LEMMA RetuneTakeTyped == ASSUME NEW t \in Task, TypeOK, RetuneTake(t) PROVE TypeOK'
<1>1. h' \in Handle
  BY FreqValues, ZenonT(60) DEF RetuneTake, TypeOK, Handle, States, NoFreq, Locals, Usb, Outcomes
<1>2. pc' \in [Task -> PCs]
  BY DEF RetuneTake, TypeOK, Goto, PCs, After, Task
<1>3. loc' \in [Task -> Locals]
  BY LocFacts, ZenonT(60) DEF RetuneTake, TypeOK, OpNames, Clear, Handle, Urbs, Task
<1> QED BY <1>1, <1>2, <1>3 DEF RetuneTake, TypeOK

LEMMA RetuneDrainedTyped == ASSUME NEW t \in Task, TypeOK, RetuneDrained(t) PROVE TypeOK'
<1>1. h' \in Handle
  BY FreqValues, ZenonT(60) DEF RetuneDrained, TypeOK, Handle, States, NoFreq, Locals, Usb, Outcomes
<1>2. pc' \in [Task -> PCs]
  BY DEF RetuneDrained, TypeOK, Goto, PCs, Task
<1>3. loc' \in [Task -> Locals]
  BY FreqValues, UrbCount DEF RetuneDrained, TypeOK, Locals, OpNames, NoFreq, Handle,
     Urbs, Task
<1> QED BY <1>1, <1>2, <1>3 DEF RetuneDrained, TypeOK

LEMMA RetuneEp0Typed == ASSUME NEW t \in Task, TypeOK, RetuneEp0(t) PROVE TypeOK'
<1>1. h' \in Handle
  <2> DEFINE done == [h EXCEPT !.pend = IF @ = loc[t].f THEN NoFreq ELSE @]
  <2>1. done \in Handle
    BY DEF TypeOK, Handle
  <2>2. ASSUME NEW s \in BOOLEAN PROVE [done EXCEPT !.freq = loc[t].f, !.side = s] \in Handle
    BY <2>1, ZenonT(60) DEF TypeOK, Handle, Locals
  <2>3. [done EXCEPT !.streaming = FALSE, !.state = "FAULT"] \in Handle
    BY <2>1 DEF Handle, States
  <2>4. h.side \in BOOLEAN
    BY DEF TypeOK, Handle
  <2> HIDE DEF done
  <2>5. \/ \E s \in BOOLEAN : h' = [done EXCEPT !.freq = loc[t].f, !.side = s]
        \/ h' = done
        \/ h' = [done EXCEPT !.streaming = FALSE, !.state = "FAULT"]
    BY <2>4 DEF RetuneEp0, done
  <2> QED BY <2>1, <2>2, <2>3, <2>5
<1>2. usb' \in Usb
  BY UsbFacts DEF RetuneEp0, TypeOK, Outcomes
<1>3. pc' \in [Task -> PCs]
  BY DEF RetuneEp0, TypeOK, Goto, PCs, Task
<1> QED BY <1>1, <1>2, <1>3 DEF RetuneEp0, TypeOK

LEMMA StopTakeTyped == ASSUME NEW t \in Task, TypeOK, StopTake(t) PROVE TypeOK'
<1>1. h' \in Handle
  BY FreqValues, ZenonT(60) DEF StopTake, TypeOK, Handle, States, NoFreq, Locals, Usb, Outcomes
<1>2. usb' \in Usb
  BY DEF StopTake, TypeOK, Usb, Handle, Outcomes, Locals
<1>3. pc' \in [Task -> PCs]
  BY DEF StopTake, TypeOK, Goto, PCs, StopReturn, Task
<1>4. loc' \in [Task -> Locals]
  BY LocFacts, ZenonT(60) DEF StopTake, TypeOK, OpNames, ClearIf, StopReturn, Handle, Urbs, Task
<1> QED BY <1>1, <1>2, <1>3, <1>4 DEF StopTake, TypeOK

LEMMA StopMarkTyped == ASSUME NEW t \in Task, TypeOK, StopMark(t) PROVE TypeOK'
<1>1. h' \in Handle
  BY FreqValues DEF StopMark, TypeOK, Handle, States, NoFreq, Locals, Usb, Outcomes
<1>2. pc' \in [Task -> PCs]
  BY DEF StopMark, TypeOK, Goto, PCs, Task
<1> QED BY <1>1, <1>2 DEF StopMark, TypeOK

LEMMA StopDrainedTyped == ASSUME NEW t \in Task, TypeOK, StopDrained(t) PROVE TypeOK'
<1>1. h' \in Handle
  <2> DEFINE u == [h EXCEPT !.live = 0]
  <2>1. u \in Handle
    BY DEF TypeOK, Handle
  <2>2. [u EXCEPT !.pause = FALSE] \in Handle
    BY <2>1 DEF Handle
  <2>3. [h EXCEPT !.state = "FAULT", !.busy = FALSE] \in Handle
    BY DEF TypeOK, Handle, States
  <2> QED BY <2>2, <2>3 DEF StopDrained
<1>2. pc' \in [Task -> PCs]
  BY DEF StopDrained, TypeOK, Goto, PCs, StopReturn, Task
<1>3. loc' \in [Task -> Locals]
  BY LocFacts, ZenonT(60) DEF StopDrained, TypeOK, OpNames, ClearIf, StopReturn, Handle, Urbs, Task
<1> QED BY <1>1, <1>2, <1>3 DEF StopDrained, TypeOK

LEMMA StopCleanupTyped == ASSUME NEW t \in Task, TypeOK, StopCleanup(t) PROVE TypeOK'
<1>1. h' \in Handle
  BY FreqValues, ZenonT(60) DEF StopCleanup, TypeOK, Handle, States, NoFreq, Locals, Usb, Outcomes
<1>2. pc' \in [Task -> PCs]
  BY DEF StopCleanup, TypeOK, Goto, PCs, Task
<1> QED BY <1>1, <1>2 DEF StopCleanup, TypeOK

LEMMA StopFreeTyped == ASSUME NEW t \in Task, TypeOK, StopFree(t) PROVE TypeOK'
<1>1. h' \in Handle
  <2>1. (h.pool /\ h.live > 0) \in BOOLEAN
    BY DEF TypeOK, Handle
  <2> QED BY <2>1, ZenonT(60) DEF StopFree, TypeOK, Handle, States
<1>2. pc' \in [Task -> PCs]
  BY DEF StopFree, TypeOK, Goto, PCs, StopReturn, Task
<1>3. loc' \in [Task -> Locals]
  BY FreqValues, UrbCount DEF StopFree, TypeOK, Locals, OpNames, NoFreq, Fresh, ClearIf, StopReturn, Handle, Urbs, Task
<1> QED BY <1>1, <1>2, <1>3 DEF StopFree, TypeOK

LEMMA SideEnterTyped == ASSUME TypeOK, SideEnter PROVE TypeOK'
<1>1. h' \in Handle
  BY FreqValues, ZenonT(60) DEF SideEnter, TypeOK, Handle, States, NoFreq, Locals, Usb, Outcomes
<1>2. pc' \in [Task -> PCs]
  BY DEF SideEnter, TypeOK, Goto, PCs, Task
<1>3. loc' \in [Task -> Locals]
  BY LocFacts, ZenonT(60) DEF SideEnter, TypeOK, OpNames, Clear, Handle, Urbs, Task
<1> QED BY <1>1, <1>2, <1>3 DEF SideEnter, TypeOK

LEMMA SideDrainedTyped == ASSUME TypeOK, SideDrained PROVE TypeOK'
<1>1. h' \in Handle
  BY FreqValues DEF SideDrained, TypeOK, Handle, States, NoFreq, Locals, Usb, Outcomes
<1>2. pc' \in [Task -> PCs]
  BY DEF SideDrained, TypeOK, Goto, PCs, Task
<1> QED BY <1>1, <1>2 DEF SideDrained, TypeOK

LEMMA SideEp0Typed == ASSUME TypeOK, SideEp0 PROVE TypeOK'
<1>1. h' \in Handle
  BY FreqValues, ZenonT(60) DEF SideEp0, TypeOK, Handle, States, NoFreq, Locals, Usb, Outcomes
<1>2. usb' \in Usb
  BY UsbFacts DEF SideEp0, TypeOK, Outcomes
<1>3. pc' \in [Task -> PCs]
  BY DEF SideEp0, TypeOK, Goto, PCs, Task
<1> QED BY <1>1, <1>2, <1>3 DEF SideEp0, TypeOK

LEMMA CheckStallTyped == ASSUME TypeOK, CheckStall PROVE TypeOK'
<1>1. pc' \in [Task -> PCs]
  BY DEF CheckStall, TypeOK, Goto, PCs, DeliveryStep, Task
<1>2. loc' \in [Task -> Locals]
  BY FreqValues, UrbCount DEF CheckStall, TypeOK, Locals, OpNames, NoFreq, DeliveryStep,
     Handle, Urbs, Task
<1> QED BY <1>1, <1>2 DEF CheckStall, TypeOK, DeliveryStep

LEMMA CheckRetuneTyped == ASSUME TypeOK, CheckRetune PROVE TypeOK'
<1>1. pc' \in [Task -> PCs]
  BY DEF CheckRetune, TypeOK, Goto, PCs, DeliveryStep, Task
<1>2. loc' \in [Task -> Locals]
  BY FreqValues, UrbCount DEF CheckRetune, TypeOK, Locals, OpNames, NoFreq, DeliveryStep,
     Handle, Urbs, Task
<1> QED BY <1>1, <1>2 DEF CheckRetune, TypeOK, DeliveryStep

LEMMA CheckSideTyped == ASSUME TypeOK, CheckSide PROVE TypeOK'
<1>1. pc' \in [Task -> PCs]
  BY DEF CheckSide, TypeOK, Goto, PCs, DeliveryStep, Task
<1>2. loc' \in [Task -> Locals]
  BY FreqValues, UrbCount DEF CheckSide, TypeOK, Locals, OpNames, NoFreq, DeliveryStep,
     Handle, Urbs, Task
<1> QED BY <1>1, <1>2 DEF CheckSide, TypeOK, DeliveryStep

LEMMA EmitTyped == ASSUME TypeOK, Emit PROVE TypeOK'
<1>1. h' \in Handle
  BY FreqValues DEF Emit, TypeOK, Handle, States, NoFreq, Locals, Usb, Outcomes
<1>2. pc' \in [Task -> PCs]
  BY DEF Emit, TypeOK, Goto, PCs, Task
<1> QED BY <1>1, <1>2 DEF Emit, TypeOK

LEMMA RecoverBeginTyped == ASSUME TypeOK, RecoverBegin PROVE TypeOK'
<1>1. h' \in Handle
  <2>1. h.recov + 1 \in Nat
    BY DEF TypeOK, Handle
  <2>2. \/ h' = h
        \/ h' = [h EXCEPT !.stall = FALSE, !.streaming = FALSE, !.state = "FAULT"]
        \/ h' = [h EXCEPT !.stall = FALSE, !.recov = h.recov + 1, !.pause = TRUE]
    BY DEF RecoverBegin
  <2> QED BY <2>1, <2>2, ZenonT(60) DEF TypeOK, Handle, States
<1>2. pc' \in [Task -> PCs]
  BY DEF RecoverBegin, TypeOK, Goto, PCs, Task
<1>3. loc' \in [Task -> Locals]
  BY LocFacts DEF RecoverBegin, TypeOK, OpNames, Clear, Handle, Urbs, Task
<1> QED BY <1>1, <1>2, <1>3 DEF RecoverBegin, TypeOK

LEMMA RecoverDrainedTyped == ASSUME TypeOK, RecoverDrained PROVE TypeOK'
<1>1. h' \in Handle
  BY FreqValues, ZenonT(60) DEF RecoverDrained, TypeOK, Handle, States, NoFreq, Locals, Usb, Outcomes
<1>2. usb' \in Usb
  BY UsbFacts DEF RecoverDrained, TypeOK, Outcomes
<1>3. pc' \in [Task -> PCs]
  BY DEF RecoverDrained, TypeOK, Goto, PCs, Task
<1>4. loc' \in [Task -> Locals]
  <2>1. loc' = loc \/ loc' = [loc EXCEPT !["delivery"] = Fresh]
    BY DEF RecoverDrained, Clear
  <2> QED BY <2>1, LocFacts DEF TypeOK, Task
<1> QED BY <1>1, <1>2, <1>3, <1>4 DEF RecoverDrained, TypeOK

LEMMA GoneEventTyped == ASSUME TypeOK, GoneEvent PROVE TypeOK'
<1>1. h' \in Handle
  BY FreqValues DEF GoneEvent, TypeOK, Handle, States, NoFreq, Locals, Usb, Outcomes
<1> QED BY <1>1 DEF GoneEvent, TypeOK

LEMMA GoneBeginTyped == ASSUME TypeOK, GoneBegin PROVE TypeOK'
<1>1. h' \in Handle
  BY FreqValues DEF GoneBegin, TypeOK, Handle, States, NoFreq, Locals, Usb, Outcomes
<1>2. gn' \in Gone
  BY DEF GoneBegin, TypeOK, Gone, Client
<1> QED BY <1>1, <1>2 DEF GoneBegin, TypeOK

LEMMA GoneTakeTyped == ASSUME TypeOK, GoneTake PROVE TypeOK'
<1>1. h' \in Handle
  BY FreqValues DEF GoneTake, TypeOK, Handle, States, NoFreq, Locals, Usb, Outcomes
<1>2. gn' \in Gone
  BY DEF GoneTake, TypeOK, Gone, Client
<1> QED BY <1>1, <1>2 DEF GoneTake, TypeOK

LEMMA GoneIdleTyped == ASSUME TypeOK, GoneIdle PROVE TypeOK'
<1>1. gn' \in Gone
  BY DEF GoneIdle, TypeOK, Gone, Client
<1> QED BY <1>1 DEF GoneIdle, TypeOK

LEMMA GoneExpireTyped == ASSUME TypeOK, GoneExpire PROVE TypeOK'
<1>1. usb' \in Usb
  BY UsbFacts DEF GoneExpire, TypeOK, Outcomes
<1>2. gn' \in Gone
  BY DEF GoneExpire, TypeOK, Gone, Client
<1> QED BY <1>1, <1>2 DEF GoneExpire, TypeOK

LEMMA GoneGiveUpTyped == ASSUME TypeOK, GoneGiveUp PROVE TypeOK'
<1>1. usb' \in Usb
  BY UsbFacts DEF GoneGiveUp, TypeOK, Outcomes
<1>2. gn' \in Gone
  BY DEF GoneGiveUp, TypeOK, Gone, Client
<1> QED BY <1>1, <1>2 DEF GoneGiveUp, TypeOK

LEMMA GoneCloseTyped == ASSUME TypeOK, GoneClose PROVE TypeOK'
<1>1. h' \in Handle
  BY FreqValues DEF GoneClose, TypeOK, Handle, States, NoFreq, Locals, Usb, Outcomes
<1>2. gn' \in Gone
  BY DEF GoneClose, TypeOK, Gone, Client
<1> QED BY <1>1, <1>2 DEF GoneClose, TypeOK

LEMMA GoneFinishTyped == ASSUME TypeOK, GoneFinish PROVE TypeOK'
<1>1. h' \in Handle
  BY FreqValues, ZenonT(60) DEF GoneFinish, TypeOK, Handle, States, NoFreq, Locals, Usb, Outcomes
<1>2. gn' \in Gone
  BY DEF GoneFinish, TypeOK, Gone, Client
<1> QED BY <1>1, <1>2 DEF GoneFinish, TypeOK

LEMMA ReopenTyped == ASSUME TypeOK, Reopen PROVE TypeOK'
<1>1. h' \in Handle
  BY FreqValues DEF Reopen, TypeOK, Handle, States, NoFreq, Locals, Usb, Outcomes
<1>2. usb' \in Usb
  BY DEF Reopen, TypeOK, Usb, Handle, Outcomes, Locals
<1> QED BY <1>1, <1>2 DEF Reopen, TypeOK

LEMMA UnplugTyped == ASSUME TypeOK, Unplug PROVE TypeOK'
<1>1. usb' \in Usb
  <2> DEFINE u == [usb EXCEPT !.plugged = FALSE]
  <2>1. u \in Usb
    BY DEF TypeOK, Usb
  <2>2. usb.unplugs + 1 \in Nat
    BY DEF TypeOK, Usb
  <2>3. usb' = [u EXCEPT !.unplugs = usb.unplugs + 1]
    BY DEF Unplug
  <2> QED BY <2>1, <2>2, <2>3 DEF Usb
<1> QED BY <1>1 DEF Unplug, TypeOK

LEMMA StartClaimTyped == ASSUME NEW a \in App, TypeOK, StartClaim(a) PROVE TypeOK'
<1>1. h' \in Handle
  BY FreqValues, ZenonT(60) DEF StartClaim, TypeOK, Handle, States, NoFreq, Locals, Usb, Outcomes
<1>2. usb' \in Usb
  BY UsbFacts DEF StartClaim, TypeOK, Outcomes
<1>3. pc' \in [Task -> PCs]
  BY DEF StartClaim, TypeOK, Goto, PCs, StartFails, Task
<1>4. loc' \in [Task -> Locals]
  BY Failing DEF StartClaim, TypeOK
<1> QED BY <1>1, <1>2, <1>3, <1>4 DEF StartClaim, TypeOK

LEMMA StartEp0Typed == ASSUME NEW a \in App, TypeOK, StartEp0(a) PROVE TypeOK'
<1>1. usb' \in Usb
  BY UsbFacts DEF StartEp0, TypeOK, Outcomes
<1>2. pc' \in [Task -> PCs]
  BY ZenonT(60) DEF StartEp0, TypeOK, Goto, PCs, StartFails, Task
<1>3. loc' \in [Task -> Locals]
  BY Failing DEF StartEp0, TypeOK
<1> QED BY <1>1, <1>2, <1>3 DEF StartEp0, TypeOK

LEMMA StartAllocTyped == ASSUME NEW a \in App, TypeOK, StartAlloc(a) PROVE TypeOK'
<1>1. pc' \in [Task -> PCs]
  BY DEF StartAlloc, TypeOK, Goto, PCs, Enter, Task
<1>2. loc' \in [Task -> Locals]
  BY FreqValues, UrbCount DEF StartAlloc, TypeOK, Locals, OpNames, NoFreq, Enter, Handle,
     Urbs, Task
<1> QED BY <1>1, <1>2 DEF StartAlloc, TypeOK

LEMMA AllocDrainedTyped == ASSUME NEW a \in App, TypeOK, AllocDrained(a) PROVE TypeOK'
<1>1. pc' \in [Task -> PCs]
  BY DEF AllocDrained, TypeOK, Goto, PCs, Enter, StartFails, Task
<1>2. loc' \in [Task -> Locals]
  <2>1. CASE loc[a].ok
    <3>1. a \in Task /\ loc' = [loc EXCEPT ![a].op = "start"]
      BY <2>1 DEF AllocDrained, Enter, Task
    <3> QED BY <3>1, LocFacts DEF TypeOK, OpNames
  <2>2. CASE ~loc[a].ok
    BY <2>2, Failing DEF AllocDrained, TypeOK
  <2> QED BY <2>1, <2>2
<1> QED BY <1>1, <1>2 DEF AllocDrained, TypeOK

LEMMA StartFreeOldTyped == ASSUME NEW a \in App, TypeOK, StartFreeOld(a) PROVE TypeOK'
<1>1. h' \in Handle
  BY FreqValues, ZenonT(60) DEF StartFreeOld, TypeOK, Handle, States, NoFreq, Locals, Usb, Outcomes
<1>2. pc' \in [Task -> PCs]
  BY DEF StartFreeOld, TypeOK, Goto, PCs, StartFails, Task
<1>3. loc' \in [Task -> Locals]
  BY Failing DEF StartFreeOld, TypeOK
<1> QED BY <1>1, <1>2, <1>3 DEF StartFreeOld, TypeOK

LEMMA StartPoolTyped == ASSUME NEW a \in App, TypeOK, StartPool(a) PROVE TypeOK'
<1>1. h' \in Handle
  BY FreqValues, ZenonT(60) DEF StartPool, TypeOK, Handle, States, NoFreq, Locals, Usb, Outcomes
<1>2. usb' \in Usb
  BY UsbFacts DEF StartPool, TypeOK, Outcomes
<1>3. pc' \in [Task -> PCs]
  BY DEF StartPool, TypeOK, Goto, PCs, StartFails, Task
<1>4. loc' \in [Task -> Locals]
  BY Failing DEF StartPool, TypeOK
<1> QED BY <1>1, <1>2, <1>3, <1>4 DEF StartPool, TypeOK

LEMMA StartArmTyped == ASSUME NEW a \in App, TypeOK, StartArm(a) PROVE TypeOK'
<1>1. h' \in Handle
  <2>1. PICK f \in Freqs : h' = Armed(f) \/ h' = [Armed(f) EXCEPT !.streaming = TRUE]
    BY DEF StartArm
  <2>2. Armed(f) \in Handle
    BY DEF Armed, TypeOK, Handle
  <2>3. [Armed(f) EXCEPT !.streaming = TRUE] \in Handle
    BY <2>2 DEF Handle
  <2> QED BY <2>1, <2>2, <2>3
<1>2. usb' \in Usb
  BY UsbFacts DEF StartArm, TypeOK
<1>3. pc' \in [Task -> PCs]
  BY ZenonT(60) DEF StartArm, StartFails, TypeOK, Goto, PCs, Task
<1>4. loc' \in [Task -> Locals]
  <2>1. CASE \E x \in BOOLEAN : StartFails(a, x)
    BY <2>1, Failing DEF TypeOK
  <2>2. CASE ~\E x \in BOOLEAN : StartFails(a, x)
    BY <2>2, FreqValues, UrbCount DEF StartArm, TypeOK, Locals, OpNames, NoFreq, Urbs, Task
  <2> QED BY <2>1, <2>2
<1> QED BY <1>1, <1>2, <1>3, <1>4 DEF StartArm, TypeOK

LEMMA StartSubmitTyped == ASSUME NEW a \in App, TypeOK, StartSubmit(a) PROVE TypeOK'
<1>1. h' \in Handle
  BY FreqValues, ZenonT(60) DEF StartSubmit, TypeOK, Handle, States, NoFreq, Locals, Usb, Outcomes
<1>2. usb' \in Usb
  <2>1. CASE CanSubmit(loc[a].idx)
    <3>1. usb' = [usb EXCEPT !.urb[loc[a].idx] = "flight"]
      BY <2>1 DEF StartSubmit
    <3> QED BY <3>1, UsbFacts DEF TypeOK
  <2>2. CASE ~CanSubmit(loc[a].idx)
    BY <2>2 DEF StartSubmit, TypeOK
  <2> QED BY <2>1, <2>2
<1>3. pc' \in [Task -> PCs]
  BY DEF StartSubmit, TypeOK, Goto, PCs, StartFails, Task
<1>4. loc' \in [Task -> Locals]
  BY Failing DEF StartSubmit, TypeOK
<1> QED BY <1>1, <1>2, <1>3, <1>4 DEF StartSubmit, TypeOK

LEMMA StartEndTyped == ASSUME NEW a \in App, TypeOK, StartEnd(a) PROVE TypeOK'
<1>1. h' \in Handle
  BY FreqValues DEF StartEnd, TypeOK, Handle, States, NoFreq, Locals, Usb, Outcomes
<1>2. pc' \in [Task -> PCs]
  BY DEF StartEnd, TypeOK, Goto, PCs, Task
<1>3. loc' \in [Task -> Locals]
  BY FreqValues, UrbCount DEF StartEnd, TypeOK, Locals, OpNames, NoFreq, Fresh, Clear,
     Handle, Urbs, Task
<1> QED BY <1>1, <1>2, <1>3 DEF StartEnd, TypeOK

LEMMA StartFailTailTyped == ASSUME NEW a \in App, TypeOK, StartFailTail(a) PROVE TypeOK'
<1>1. h' \in Handle
  BY FreqValues DEF StartFailTail, TypeOK, Handle, States, NoFreq, Locals, Usb, Outcomes
<1>2. pc' \in [Task -> PCs]
  BY DEF StartFailTail, TypeOK, Goto, PCs, Task
<1>3. loc' \in [Task -> Locals]
  BY FreqValues, UrbCount DEF StartFailTail, TypeOK, Locals, OpNames, NoFreq, Fresh,
     Clear, Handle, Urbs, Task
<1> QED BY <1>1, <1>2, <1>3 DEF StartFailTail, TypeOK

LEMMA ControlQueueTyped == ASSUME NEW a \in App, TypeOK, ControlQueue(a) PROVE TypeOK'
<1>1. h' \in Handle
  BY FreqValues DEF ControlQueue, TypeOK, Handle, States, NoFreq, Locals, Usb, Outcomes
<1>2. pc' \in [Task -> PCs]
  BY DEF ControlQueue, TypeOK, Goto, PCs, Task
<1>3. loc' \in [Task -> Locals]
  BY FreqValues, UrbCount DEF ControlQueue, TypeOK, Locals, OpNames, NoFreq, Fresh, Clear,
     Handle, Urbs, Task
<1> QED BY <1>1, <1>2, <1>3 DEF ControlQueue, TypeOK

LEMMA ControlEp0Typed == ASSUME NEW a \in App, TypeOK, ControlEp0(a) PROVE TypeOK'
<1>1. pc' \in [Task -> PCs]
  BY DEF ControlEp0, TypeOK, Goto, PCs, Task
<1>2. loc' \in [Task -> Locals]
  BY FreqValues, UrbCount DEF ControlEp0, TypeOK, Locals, OpNames, NoFreq, Fresh, Clear,
     Handle, Urbs, Task
<1> QED BY <1>1, <1>2 DEF ControlEp0, TypeOK

LEMMA StartCallTyped == ASSUME NEW a \in App, TypeOK, StartCall(a) PROVE TypeOK'
<1>1. h' \in Handle
  BY FreqValues DEF StartCall, TypeOK, Handle, States, NoFreq, Locals, Usb, Outcomes
<1>2. pc' \in [Task -> PCs]
  BY DEF StartCall, TypeOK, Goto, PCs, Enter, Task
<1>3. loc' \in [Task -> Locals]
  BY FreqValues, UrbCount DEF StartCall, TypeOK, Locals, OpNames, NoFreq, Enter, Handle,
     Urbs, Task
<1> QED BY <1>1, <1>2, <1>3 DEF StartCall, TypeOK

LEMMA StopCallTyped == ASSUME NEW a \in App, TypeOK, StopCall(a) PROVE TypeOK'
<1>1. pc' \in [Task -> PCs]
  BY DEF StopCall, TypeOK, Goto, PCs, Enter, Task
<1>2. loc' \in [Task -> Locals]
  BY FreqValues, UrbCount DEF StopCall, TypeOK, Locals, OpNames, NoFreq, Enter, Handle,
     Urbs, Task
<1> QED BY <1>1, <1>2 DEF StopCall, TypeOK

LEMMA ResetTyped == ASSUME NEW a \in App, TypeOK, Reset(a) PROVE TypeOK'
<1>1. h' \in Handle
  BY FreqValues DEF Reset, TypeOK, Handle, States, NoFreq, Locals, Usb, Outcomes
<1> QED BY <1>1 DEF Reset, TypeOK

LEMMA RetuneCallTyped == ASSUME NEW a \in App, TypeOK, RetuneCall(a) PROVE TypeOK'
<1>1. h' \in Handle
  BY FreqValues DEF RetuneCall, TypeOK, Handle, States, NoFreq, Locals, Usb, Outcomes
<1>2. pc' \in [Task -> PCs]
  BY DEF RetuneCall, TypeOK, Goto, PCs, Enter, Task
<1>3. loc' \in [Task -> Locals]
  BY FreqValues, UrbCount DEF RetuneCall, TypeOK, Locals, OpNames, NoFreq, Enter, Handle,
     Urbs, Task
<1> QED BY <1>1, <1>2, <1>3 DEF RetuneCall, TypeOK

LEMMA ControlCallTyped == ASSUME NEW a \in App, TypeOK, ControlCall(a) PROVE TypeOK'
<1>1. pc' \in [Task -> PCs]
  BY DEF ControlCall, TypeOK, Goto, PCs, Enter, Task
<1>2. loc' \in [Task -> Locals]
  BY FreqValues, UrbCount DEF ControlCall, TypeOK, Locals, OpNames, NoFreq, Enter, Handle,
     Urbs, Task
<1> QED BY <1>1, <1>2 DEF ControlCall, TypeOK

\* Every step keeps the types.
LEMMA TypesKept == TypeOK /\ OpsFit /\ [Next]_vars => TypeOK'
<1> SUFFICES ASSUME TypeOK, OpsFit, [Next]_vars PROVE TypeOK'
  OBVIOUS
<1> "client" \in Task /\ "delivery" \in Task /\ App \subseteq Task
  BY DEF Task
<1>1. CASE Host
  BY <1>1, CompleteTyped, FailTyped, MalformTyped, RetireTyped DEF Host
<1>2. CASE Callback
  BY <1>2, CbBeginTyped, CbSubmitTyped, CbLoadTyped, CbStoreTyped DEF Callback
<1>3. ASSUME NEW t \in Task, Drain(t) PROVE TypeOK'
  BY <1>3, PollDoneTyped, PollExpireTyped, PollGiveUpTyped, PauseBulkTyped DEF Drain
<1>4. ASSUME NEW t \in Task, Resume(t) PROVE TypeOK'
  BY <1>4, ResumeBeginTyped, ResumeSubmitTyped, ResumeEndTyped, IncLoadTyped,
     IncStoreTyped, ReleaseTyped DEF Resume
<1>5. ASSUME NEW t \in Task, Retune(t) PROVE TypeOK'
  BY <1>5, RetuneEnterTyped, RetuneTakeTyped, RetuneDrainedTyped, RetuneEp0Typed DEF Retune
<1>6. CASE \/ CheckStall \/ CheckRetune \/ CheckSide \/ Emit \/ RecoverBegin
            \/ RecoverDrained \/ SideEnter \/ SideDrained \/ SideEp0
  BY <1>6, CheckStallTyped, CheckRetuneTyped, CheckSideTyped, EmitTyped,
     RecoverBeginTyped, RecoverDrainedTyped, SideEnterTyped, SideDrainedTyped,
     SideEp0Typed
<1>7. ASSUME NEW a \in App, Stop(a) PROVE TypeOK'
  BY <1>7, StopTakeTyped, StopMarkTyped, StopDrainedTyped, StopCleanupTyped, StopFreeTyped
     DEF Stop
<1>8. ASSUME NEW a \in App, Start(a) PROVE TypeOK'
  BY <1>8, StartClaimTyped, StartEp0Typed, StartAllocTyped, AllocDrainedTyped,
     StartFreeOldTyped, StartPoolTyped, StartArmTyped, StartSubmitTyped, StartEndTyped,
     StartFailTailTyped DEF Start
<1>9. ASSUME NEW a \in App, Begin(a) PROVE TypeOK'
  BY <1>9, StartCallTyped, StopCallTyped, ResetTyped, RetuneCallTyped, ControlCallTyped
     DEF Begin
<1>10. ASSUME NEW a \in App, ControlQueue(a) \/ ControlEp0(a) PROVE TypeOK'
  BY <1>10, ControlQueueTyped, ControlEp0Typed
<1>11. CASE GoneStep
  BY <1>11, GoneEventTyped, GoneBeginTyped, GoneTakeTyped, GoneIdleTyped, GoneExpireTyped,
     GoneGiveUpTyped, GoneCloseTyped, GoneFinishTyped DEF GoneStep
<1>12. CASE Delivery
  BY <1>12, <1>3, <1>4, <1>5, <1>6 DEF Delivery
<1>13. ASSUME NEW a \in App, Continue(a) PROVE TypeOK'
  BY <1>13, <1>3, <1>4, <1>5, <1>7, <1>8, <1>10 DEF Continue
<1>14. CASE UNCHANGED vars
  BY <1>14 DEF TypeOK, vars
<1> QED BY <1>1, <1>2, <1>9, <1>11, <1>12, <1>13, <1>14, ReopenTyped, UnplugTyped DEF Next

-----------------------------------------------------------------------------
(* Which call a task is in, and who holds the EP0 window.                    *)

\* How a step of task t may move the EP0 window: it stays where it is, t takes
\* a free window, or t gives back the one it holds.
WindowMove(t) ==
    /\ \A u \in Task \ {t} : Holds(u)' <=> Holds(u)
    /\ \/ (Holds(t)' <=> Holds(t)) /\ (h.busy' <=> h.busy)
       \/ ~h.busy /\ h.busy' /\ Holds(t)'
       \/ Holds(t) /\ ~h.busy' /\ ~Holds(t)'

\* Such a move keeps the window exclusive.
LEMMA WindowKept ==
    ASSUME WindowExclusive, NEW t \in Task, WindowMove(t)
    PROVE  WindowExclusive'
BY Zenon DEF WindowExclusive, WindowMove

\* A task that moves to a place its call has keeps the table.
LEMMA FitKept ==
    ASSUME OpsFit, NEW t \in Task, t # "client",
           \A u \in Task \ {t} : pc'[u] = pc[u] /\ loc'[u] = loc[u],
           OpFits(pc'[t], loc'[t].op), pc'[t] \notin ClientPlaces
    PROVE  OpsFit'
BY DEF OpsFit, Task

\* An application task is neither of the driver's tasks.
LEMMA AppTask == \A a \in App : a \in Task /\ a # "client" /\ a # "delivery"
BY TaskNames DEF Task

\* A failing start goes to the stop path, still as a start.
LEMMA FailingFits ==
    ASSUME TypeOK, NEW a \in App, NEW isUsb, StartFails(a, isUsb)
    PROVE  /\ loc'[a].op = "start" /\ pc'[a] = "sp_take"
           /\ \A u \in Task \ {a} : pc'[u] = pc[u] /\ loc'[u] = loc[u]
<1> DEFINE v == [Fresh EXCEPT !.op = "start", !.tmp = IF isUsb THEN 1 ELSE 0]
<1>1. v.op = "start"
  BY DEF Fresh
<1>2. a \in Task /\ loc' = [loc EXCEPT ![a] = v] /\ pc' = [pc EXCEPT ![a] = "sp_take"]
  BY DEF StartFails, Task, Goto
<1> QED BY <1>1, <1>2 DEF TypeOK

\* The steps of a start that may fail, one lemma each.
LEMMA StartClaimFits == ASSUME NEW a \in App, TypeOK, OpsFit, StartClaim(a) PROVE OpsFit'
<1>1. CASE \E x \in BOOLEAN : StartFails(a, x)
  BY <1>1, FailingFits, FitKept, AppTask DEF OpFits, ClientPlaces
<1>2. CASE ~\E x \in BOOLEAN : StartFails(a, x)
  <2>1. pc' = [pc EXCEPT ![a] = "st_ep0"] /\ UNCHANGED loc
    BY <1>2 DEF StartClaim, Goto
  <2>2. loc[a].op = "start"
    BY AppTask DEF StartClaim, OpsFit, OpFits
  <2>3. loc'[a].op = "start"
    BY <2>1, <2>2, AppTask DEF TypeOK, Locals
  <2> QED BY <2>1, <2>3, FitKept, AppTask DEF OpFits, ClientPlaces, TypeOK
<1> QED BY <1>1, <1>2

LEMMA StartEp0Fits == ASSUME NEW a \in App, TypeOK, OpsFit, StartEp0(a) PROVE OpsFit'
<1>1. CASE \E x \in BOOLEAN : StartFails(a, x)
  BY <1>1, FailingFits, FitKept, AppTask DEF OpFits, ClientPlaces
<1>2. CASE ~\E x \in BOOLEAN : StartFails(a, x)
  <2>1. pc' = [pc EXCEPT ![a] = "st_alloc"] /\ UNCHANGED loc
    BY <1>2 DEF StartEp0, Goto
  <2>2. loc[a].op = "start"
    BY AppTask DEF StartEp0, OpsFit, OpFits
  <2>3. loc'[a].op = "start"
    BY <2>1, <2>2, AppTask DEF TypeOK, Locals
  <2> QED BY <2>1, <2>3, FitKept, AppTask DEF OpFits, ClientPlaces, TypeOK
<1> QED BY <1>1, <1>2

LEMMA AllocDrainedFits == ASSUME NEW a \in App, TypeOK, OpsFit, AllocDrained(a) PROVE OpsFit'
<1>1. CASE \E x \in BOOLEAN : StartFails(a, x)
  BY <1>1, FailingFits, FitKept, AppTask DEF OpFits, ClientPlaces
<1>2. CASE ~\E x \in BOOLEAN : StartFails(a, x)
  <2>1. pc' = [pc EXCEPT ![a] = "st_free"] /\ loc' = [loc EXCEPT ![a].op = "start"]
    BY <1>2 DEF AllocDrained, Enter, Goto
  <2>2. loc'[a].op = "start"
    BY <2>1, AppTask DEF TypeOK, Locals
  <2> QED BY <2>1, <2>2, FitKept, AppTask DEF OpFits, ClientPlaces, TypeOK
<1> QED BY <1>1, <1>2

LEMMA StartFreeOldFits == ASSUME NEW a \in App, TypeOK, OpsFit, StartFreeOld(a) PROVE OpsFit'
<1>1. CASE \E x \in BOOLEAN : StartFails(a, x)
  BY <1>1, FailingFits, FitKept, AppTask DEF OpFits, ClientPlaces
<1>2. CASE ~\E x \in BOOLEAN : StartFails(a, x)
  <2>1. pc' = [pc EXCEPT ![a] = "st_pool"] /\ UNCHANGED loc
    BY <1>2 DEF StartFreeOld, Goto
  <2>2. loc[a].op = "start"
    BY AppTask DEF StartFreeOld, OpsFit, OpFits
  <2>3. loc'[a].op = "start"
    BY <2>1, <2>2, AppTask DEF TypeOK, Locals
  <2> QED BY <2>1, <2>3, FitKept, AppTask DEF OpFits, ClientPlaces, TypeOK
<1> QED BY <1>1, <1>2

LEMMA StartPoolFits == ASSUME NEW a \in App, TypeOK, OpsFit, StartPool(a) PROVE OpsFit'
<1>1. CASE \E x \in BOOLEAN : StartFails(a, x)
  BY <1>1, FailingFits, FitKept, AppTask DEF OpFits, ClientPlaces
<1>2. CASE ~\E x \in BOOLEAN : StartFails(a, x)
  <2>1. /\ pc' = [pc EXCEPT ![a] = "st_arm",
                             !["delivery"] = IF @ = "none" THEN "top" ELSE @]
            /\ UNCHANGED loc
    BY <1>2 DEF StartPool, Goto
  <2>2. loc[a].op = "start"
    BY AppTask DEF StartPool, OpsFit, OpFits
  <2>3. loc'[a].op = "start"
    BY <2>1, <2>2, AppTask DEF TypeOK, Locals
  <2>4. ASSUME NEW u \in Task
        PROVE  OpFits(pc'[u], loc'[u].op) /\ (u = "client" <=> pc'[u] \in ClientPlaces)
    <3>1. CASE u = a
      BY <2>1, <2>3, <3>1, AppTask DEF OpFits, ClientPlaces, TypeOK
    <3>2. CASE u # a /\ pc[u] = "none"
      BY <2>1, <3>2, AppTask DEF OpsFit, OpFits, ClientPlaces, TypeOK
    <3>3. CASE u # a /\ pc[u] # "none"
      BY <2>1, <3>3, AppTask DEF OpsFit, TypeOK
    <3> QED BY <3>1, <3>2, <3>3
  <2>5. pc'["client"] = pc["client"] /\ loc'["client"] = loc["client"]
    BY <2>1, AppTask DEF TypeOK, Task
  <2> QED BY <2>4, <2>5 DEF OpsFit
<1> QED BY <1>1, <1>2

LEMMA StartArmFits == ASSUME NEW a \in App, TypeOK, OpsFit, StartArm(a) PROVE OpsFit'
<1>1. CASE \E x \in BOOLEAN : StartFails(a, x)
  BY <1>1, FailingFits, FitKept, AppTask DEF OpFits, ClientPlaces
<1>2. CASE ~\E x \in BOOLEAN : StartFails(a, x)
  <2>1. pc' = [pc EXCEPT ![a] = "st_submit"] /\ loc' = [loc EXCEPT ![a].idx = 1]
    BY <1>2 DEF StartArm, Goto
  <2>2. loc[a].op = "start"
    BY AppTask DEF StartArm, OpsFit, OpFits
  <2>3. loc'[a].op = "start"
    BY <2>1, <2>2, AppTask DEF TypeOK, Locals
  <2> QED BY <2>1, <2>3, FitKept, AppTask DEF OpFits, ClientPlaces, TypeOK
<1> QED BY <1>1, <1>2

LEMMA StartSubmitFits == ASSUME NEW a \in App, TypeOK, OpsFit, StartSubmit(a) PROVE OpsFit'
<1>1. CASE \E x \in BOOLEAN : StartFails(a, x)
  BY <1>1, FailingFits, FitKept, AppTask DEF OpFits, ClientPlaces
<1>2. CASE ~\E x \in BOOLEAN : StartFails(a, x)
  <2>1. pc' = [pc EXCEPT ![a] = "inc_load"] /\ UNCHANGED loc
    BY <1>2 DEF StartSubmit, Goto
  <2>2. loc[a].op = "start"
    BY AppTask DEF StartSubmit, OpsFit, OpFits
  <2>3. loc'[a].op = "start"
    BY <2>1, <2>2, AppTask DEF TypeOK, Locals
  <2> QED BY <2>1, <2>3, FitKept, AppTask DEF OpFits, ClientPlaces, TypeOK
<1> QED BY <1>1, <1>2

\* The other steps, one lemma per group and one case per action.
LEMMA HostFits ==
    ASSUME TypeOK, OpsFit,
           Host
    PROVE  OpsFit'
<1> USE TaskNames DEF TypeOK, Locals, OpsFit, OpFits, ClientPlaces, Task
<1>1. ASSUME NEW i \in Urbs, Complete(i) PROVE OpsFit'
  BY <1>1 DEF Complete
<1>2. ASSUME NEW i \in Urbs, Fail(i) PROVE OpsFit'
  BY <1>2 DEF Fail
<1>3. ASSUME NEW i \in Urbs, Malform(i) PROVE OpsFit'
  BY <1>3 DEF Malform
<1>4. ASSUME NEW i \in Urbs, Retire(i) PROVE OpsFit'
  BY <1>4 DEF Retire
<1> QED BY <1>1, <1>2, <1>3, <1>4 DEF Host

LEMMA CallbackFits ==
    ASSUME TypeOK, OpsFit,
           Callback
    PROVE  OpsFit'
<1> USE TaskNames DEF TypeOK, Locals, OpsFit, OpFits, ClientPlaces, Task
<1>1. ASSUME NEW i \in Urbs, CbBegin(i) PROVE OpsFit'
  BY <1>1 DEF CbBegin, Goto, Urbs
<1>2. CASE CbSubmit
  BY <1>2 DEF CbSubmit, Goto, Clear, Fresh
<1>3. CASE CbLoad
  BY <1>3 DEF CbLoad, Goto, Clear, Fresh, Handle
<1>4. CASE CbStore
  BY <1>4 DEF CbStore, Goto, Clear, Fresh, Handle
<1> QED BY <1>1, <1>2, <1>3, <1>4 DEF Callback

LEMMA DrainFits ==
    ASSUME TypeOK, OpsFit, NEW t \in Task,
           Drain(t)
    PROVE  OpsFit'
<1> USE TaskNames DEF TypeOK, Locals, OpsFit, OpFits, ClientPlaces, Task
<1>1. CASE PollDone(t)
  BY <1>1 DEF PollDone, Goto
<1>2. CASE PollExpire(t)
  BY <1>2 DEF PollExpire, Goto
<1>3. CASE PollGiveUp(t)
  BY <1>3 DEF PollGiveUp, Goto
<1>4. CASE PauseBulk(t)
  BY <1>4 DEF PauseBulk, Goto
<1> QED BY <1>1, <1>2, <1>3, <1>4 DEF Drain

LEMMA ResumeFits ==
    ASSUME TypeOK, OpsFit, NEW t \in Task,
           Resume(t)
    PROVE  OpsFit'
<1> USE TaskNames DEF TypeOK, Locals, OpsFit, OpFits, ClientPlaces, Task
<1>1. CASE ResumeBegin(t)
  BY <1>1 DEF ResumeBegin, Goto
<1>2. CASE ResumeSubmit(t)
  BY <1>2 DEF ResumeSubmit, Goto
<1>3. CASE ResumeEnd(t)
  BY <1>3 DEF ResumeEnd, Goto, Clear, Fresh, After
<1>4. CASE IncLoad(t)
  BY <1>4 DEF IncLoad, Goto
<1>5. CASE IncStore(t)
  BY <1>5 DEF IncStore, Goto
<1>6. CASE Release(t)
  BY <1>6 DEF Release, Goto, Clear, Fresh, After
<1> QED BY <1>1, <1>2, <1>3, <1>4, <1>5, <1>6 DEF Resume

LEMMA RetuneFits ==
    ASSUME TypeOK, OpsFit, NEW t \in Task,
           Retune(t)
    PROVE  OpsFit'
<1> USE TaskNames DEF TypeOK, Locals, OpsFit, OpFits, ClientPlaces, Task
<1>1. CASE RetuneEnter(t)
  BY <1>1 DEF RetuneEnter, Goto, Clear, Fresh, After
<1>2. CASE RetuneTake(t)
  BY <1>2 DEF RetuneTake, Goto, Clear, Fresh, After
<1>3. CASE RetuneDrained(t)
  BY <1>3 DEF RetuneDrained, Goto
<1>4. CASE RetuneEp0(t)
  BY <1>4 DEF RetuneEp0, Goto
<1> QED BY <1>1, <1>2, <1>3, <1>4 DEF Retune

\* The delivery task's own steps, outside the drains and resumes it shares.
LEMMA OwnFits ==
    ASSUME TypeOK, OpsFit,
           CheckStall \/ CheckRetune \/ CheckSide \/ Emit \/ RecoverBegin
           \/ RecoverDrained \/ SideEnter \/ SideDrained \/ SideEp0
    PROVE  OpsFit'
<1> USE TaskNames DEF TypeOK, Locals, OpsFit, OpFits, ClientPlaces, Task
<1>1. CASE CheckStall
  BY <1>1 DEF CheckStall, Goto, DeliveryStep
<1>2. CASE CheckRetune
  BY <1>2 DEF CheckRetune, Goto, DeliveryStep
<1>3. CASE CheckSide
  BY <1>3 DEF CheckSide, Goto, DeliveryStep
<1>4. CASE Emit
  BY <1>4 DEF Emit, Goto
<1>5. CASE RecoverBegin
  BY <1>5 DEF RecoverBegin, Goto, Clear, Fresh
<1>6. CASE RecoverDrained
  BY <1>6 DEF RecoverDrained, Goto, Clear, Fresh
<1>7. CASE SideEnter
  BY <1>7 DEF SideEnter, Goto, Clear, Fresh
<1>8. CASE SideDrained
  BY <1>8 DEF SideDrained, Goto
<1>9. CASE SideEp0
  BY <1>9 DEF SideEp0, Goto
<1> QED BY <1>1, <1>2, <1>3, <1>4, <1>5, <1>6, <1>7, <1>8, <1>9

LEMMA StopFits ==
    ASSUME TypeOK, OpsFit, NEW a \in App,
           Stop(a)
    PROVE  OpsFit'
<1> USE TaskNames DEF TypeOK, Locals, OpsFit, OpFits, ClientPlaces, Task
<1>1. CASE StopTake(a)
  BY <1>1 DEF StopTake, Goto, ClearIf, Fresh, StopReturn
<1>2. CASE StopMark(a)
  BY <1>2 DEF StopMark, Goto
<1>3. CASE StopDrained(a)
  BY <1>3 DEF StopDrained, Goto, ClearIf, Fresh, StopReturn
<1>4. CASE StopCleanup(a)
  BY <1>4 DEF StopCleanup, Goto
<1>5. CASE StopFree(a)
  BY <1>5 DEF StopFree, Goto, ClearIf, Fresh, StopReturn
<1> QED BY <1>1, <1>2, <1>3, <1>4, <1>5 DEF Stop

LEMMA StartFits ==
    ASSUME TypeOK, OpsFit, NEW a \in App,
           Start(a)
    PROVE  OpsFit'
<1> USE TaskNames DEF TypeOK, Locals, OpsFit, OpFits, ClientPlaces, Task
<1>1. CASE StartClaim(a)
  BY <1>1, StartClaimFits
<1>2. CASE StartEp0(a)
  BY <1>2, StartEp0Fits
<1>3. CASE StartAlloc(a)
  BY <1>3 DEF StartAlloc, Goto, Enter
<1>4. CASE AllocDrained(a)
  BY <1>4, AllocDrainedFits
<1>5. CASE StartFreeOld(a)
  BY <1>5, StartFreeOldFits
<1>6. CASE StartPool(a)
  BY <1>6, StartPoolFits
<1>7. CASE StartArm(a)
  BY <1>7, StartArmFits
<1>8. CASE StartSubmit(a)
  BY <1>8, StartSubmitFits
<1>9. CASE StartEnd(a)
  BY <1>9 DEF StartEnd, Goto, Clear, Fresh
<1>10. CASE StartFailTail(a)
  BY <1>10 DEF StartFailTail, Goto, Clear, Fresh
<1> QED BY <1>1, <1>2, <1>3, <1>4, <1>5, <1>6, <1>7, <1>8, <1>9, <1>10 DEF Start

LEMMA BeginFits ==
    ASSUME TypeOK, OpsFit, NEW a \in App,
           Begin(a)
    PROVE  OpsFit'
<1> USE TaskNames DEF TypeOK, Locals, OpsFit, OpFits, ClientPlaces, Task
<1>1. CASE StartCall(a)
  BY <1>1 DEF StartCall, Goto, Call, Enter
<1>2. CASE StopCall(a)
  BY <1>2 DEF StopCall, Goto, Call, Enter
<1>3. CASE Reset(a)
  BY <1>3 DEF Reset, Call
<1>4. CASE RetuneCall(a)
  BY <1>4 DEF RetuneCall, Goto, Call, Enter
<1>5. CASE ControlCall(a)
  BY <1>5 DEF ControlCall, Goto, Call, Enter
<1> QED BY <1>1, <1>2, <1>3, <1>4, <1>5 DEF Begin

LEMMA SetterFits ==
    ASSUME TypeOK, OpsFit, NEW a \in App,
           ControlQueue(a) \/ ControlEp0(a)
    PROVE  OpsFit'
<1> USE TaskNames DEF TypeOK, Locals, OpsFit, OpFits, ClientPlaces, Task
<1>1. CASE ControlQueue(a)
  BY <1>1 DEF ControlQueue, Goto, Clear, Fresh
<1>2. CASE ControlEp0(a)
  BY <1>2 DEF ControlEp0, Goto, Clear, Fresh
<1> QED BY <1>1, <1>2

LEMMA GoneStepFits ==
    ASSUME TypeOK, OpsFit,
           GoneStep
    PROVE  OpsFit'
<1> USE TaskNames DEF TypeOK, Locals, OpsFit, OpFits, ClientPlaces, Task
<1>1. CASE GoneEvent
  BY <1>1 DEF GoneEvent, Client
<1>2. CASE GoneBegin
  BY <1>2 DEF GoneBegin, Client
<1>3. CASE GoneTake
  BY <1>3 DEF GoneTake, Client
<1>4. CASE GoneIdle
  BY <1>4 DEF GoneIdle, Client
<1>5. CASE GoneExpire
  BY <1>5 DEF GoneExpire, Client
<1>6. CASE GoneGiveUp
  BY <1>6 DEF GoneGiveUp, Client
<1>7. CASE GoneClose
  BY <1>7 DEF GoneClose, Client
<1>8. CASE GoneFinish
  BY <1>8 DEF GoneFinish, Client
<1> QED BY <1>1, <1>2, <1>3, <1>4, <1>5, <1>6, <1>7, <1>8 DEF GoneStep

\* Every action is a WindowMove of the task that takes it.
LEMMA HostMoves ==
    ASSUME TypeOK, OpsFit, WindowExclusive,
           Host
    PROVE  WindowMove("client")
<1> USE TaskNames DEF TypeOK, Locals, OpsFit, OpFits, ClientPlaces, Task,
           WindowMove, Holds, InWindow
<1>1. ASSUME NEW i \in Urbs, Complete(i) PROVE WindowMove("client")
  BY <1>1 DEF Complete, Handle
<1>2. ASSUME NEW i \in Urbs, Fail(i) PROVE WindowMove("client")
  BY <1>2 DEF Fail, Handle
<1>3. ASSUME NEW i \in Urbs, Malform(i) PROVE WindowMove("client")
  BY <1>3 DEF Malform, Handle
<1>4. ASSUME NEW i \in Urbs, Retire(i) PROVE WindowMove("client")
  BY <1>4 DEF Retire, Handle
<1> QED BY <1>1, <1>2, <1>3, <1>4 DEF Host

LEMMA CallbackMoves ==
    ASSUME TypeOK, OpsFit, WindowExclusive,
           Callback
    PROVE  WindowMove("client")
<1> USE TaskNames DEF TypeOK, Locals, OpsFit, OpFits, ClientPlaces, Task,
           WindowMove, Holds, InWindow
<1>1. ASSUME NEW i \in Urbs, CbBegin(i) PROVE WindowMove("client")
  BY <1>1 DEF CbBegin, Goto, Handle
<1>2. CASE CbSubmit
  BY <1>2 DEF CbSubmit, Goto, Clear, Fresh, Handle
<1>3. CASE CbLoad
  BY <1>3 DEF CbLoad, Goto, Clear, Fresh, Handle
<1>4. CASE CbStore
  BY <1>4 DEF CbStore, Goto, Clear, Fresh, Handle
<1> QED BY <1>1, <1>2, <1>3, <1>4 DEF Callback

LEMMA DrainMoves ==
    ASSUME TypeOK, OpsFit, WindowExclusive, NEW t \in Task,
           Drain(t)
    PROVE  WindowMove(t)
<1> USE TaskNames DEF TypeOK, Locals, OpsFit, OpFits, ClientPlaces, Task,
           WindowMove, Holds, InWindow
<1>1. CASE PollDone(t)
  BY <1>1 DEF PollDone, Goto, Handle
<1>2. CASE PollExpire(t)
  BY <1>2 DEF PollExpire, Goto, Handle
<1>3. CASE PollGiveUp(t)
  BY <1>3 DEF PollGiveUp, Goto, Handle
<1>4. CASE PauseBulk(t)
  BY <1>4 DEF PauseBulk, Goto, Handle
<1> QED BY <1>1, <1>2, <1>3, <1>4 DEF Drain

LEMMA ResumeMoves ==
    ASSUME TypeOK, OpsFit, WindowExclusive, NEW t \in Task,
           Resume(t)
    PROVE  WindowMove(t)
<1>0. ResumeBegin(t) => (h.busy' <=> h.busy)
  BY DEF ResumeBegin, TypeOK, Handle
<1> USE TaskNames DEF TypeOK, Locals, OpsFit, OpFits, ClientPlaces, Task,
           WindowMove, Holds, InWindow
<1>1. CASE ResumeBegin(t)
  <2>1. h.busy' <=> h.busy
    BY <1>0, <1>1
  <2> QED BY <1>1, <2>1 DEF ResumeBegin, Goto
<1>2. CASE ResumeSubmit(t)
  BY <1>2 DEF ResumeSubmit, Goto, Handle
<1>3. CASE ResumeEnd(t)
  BY <1>3 DEF ResumeEnd, Goto, Clear, Fresh, After, Handle
<1>4. CASE IncLoad(t)
  BY <1>4 DEF IncLoad, Goto, Handle
<1>5. CASE IncStore(t)
  BY <1>5 DEF IncStore, Goto, Handle
<1>6. CASE Release(t)
  BY <1>6 DEF Release, Goto, Clear, Fresh, After, Handle
<1> QED BY <1>1, <1>2, <1>3, <1>4, <1>5, <1>6 DEF Resume

LEMMA RetuneMoves ==
    ASSUME TypeOK, OpsFit, WindowExclusive, NEW t \in Task,
           Retune(t)
    PROVE  WindowMove(t)
<1> USE TaskNames DEF TypeOK, Locals, OpsFit, OpFits, ClientPlaces, Task,
           WindowMove, Holds, InWindow
<1>1. CASE RetuneEnter(t)
  BY <1>1 DEF RetuneEnter, Goto, Clear, Fresh, After, Handle
<1>2. CASE RetuneTake(t)
  <2>1. CASE h.busy
    BY <1>2, <2>1 DEF RetuneTake, Goto, Clear, Fresh, After
  <2>2. CASE ~h.busy
    <3>1. h'.busy /\ pc' = [pc EXCEPT ![t] = "pause"] /\ UNCHANGED <<loc, gn>>
      BY <1>2, <2>2, ZenonT(60) DEF RetuneTake, Goto, Handle
    <3> QED BY <1>2, <2>2, <3>1 DEF RetuneTake
  <2> QED BY <2>1, <2>2
<1>3. CASE RetuneDrained(t)
  BY <1>3, ZenonT(60) DEF RetuneDrained, Goto, Handle
<1>4. CASE RetuneEp0(t)
  BY <1>4, ZenonT(60) DEF RetuneEp0, Goto, Handle
<1> QED BY <1>1, <1>2, <1>3, <1>4 DEF Retune

LEMMA OwnMoves ==
    ASSUME TypeOK, OpsFit, WindowExclusive,
           CheckStall \/ CheckRetune \/ CheckSide \/ Emit \/ RecoverBegin
           \/ RecoverDrained \/ SideEnter \/ SideDrained \/ SideEp0
    PROVE  WindowMove("delivery")
<1> USE TaskNames DEF TypeOK, Locals, OpsFit, OpFits, ClientPlaces, Task,
           WindowMove, Holds, InWindow
<1>1. CASE CheckStall
  BY <1>1 DEF CheckStall, Goto, DeliveryStep, Handle
<1>2. CASE CheckRetune
  BY <1>2 DEF CheckRetune, Goto, DeliveryStep, Handle
<1>3. CASE CheckSide
  BY <1>3 DEF CheckSide, Goto, DeliveryStep, Handle
<1>4. CASE Emit
  BY <1>4 DEF Emit, Goto, Handle
<1>5. CASE RecoverBegin
  BY <1>5, ZenonT(60) DEF RecoverBegin, Goto, Clear, Fresh, Handle
<1>6. CASE RecoverDrained
  <2>1. h.busy' <=> h.busy
    BY <1>6, ZenonT(60) DEF RecoverDrained, Handle
  <2> QED BY <1>6, <2>1 DEF RecoverDrained, Goto, Clear, Fresh
<1>7. CASE SideEnter
  <2>1. CASE ~h.streaming \/ h.busy \/ ~h.side
    BY <1>7, <2>1 DEF SideEnter, Goto, Clear, Fresh, Handle
  <2>2. CASE ~(~h.streaming \/ h.busy \/ ~h.side)
    <3>1. h'.busy /\ pc' = [pc EXCEPT !["delivery"] = "pause"] /\ UNCHANGED <<loc, gn>>
      BY <1>7, <2>2 DEF SideEnter, Goto, Handle
    <3> QED BY <1>7, <2>2, <3>1 DEF SideEnter
  <2> QED BY <2>1, <2>2
<1>8. CASE SideDrained
  BY <1>8 DEF SideDrained, Goto, Handle
<1>9. CASE SideEp0
  BY <1>9 DEF SideEp0, Goto, Handle
<1> QED BY <1>1, <1>2, <1>3, <1>4, <1>5, <1>6, <1>7, <1>8, <1>9

LEMMA StopMoves ==
    ASSUME TypeOK, OpsFit, WindowExclusive, NEW a \in App,
           Stop(a)
    PROVE  WindowMove(a)
<1>0. StopDrained(a) /\ loc[a].ok => (h.busy' <=> h.busy)
  BY DEF StopDrained, TypeOK, Handle
<1> USE TaskNames DEF TypeOK, Locals, OpsFit, OpFits, ClientPlaces, Task,
           WindowMove, Holds, InWindow
<1>1. CASE StopTake(a)
  BY <1>1 DEF StopTake, Goto, ClearIf, Fresh, StopReturn, Handle
<1>2. CASE StopMark(a)
  BY <1>2 DEF StopMark, Goto, Handle
<1>3. CASE StopDrained(a)
  <2>1. CASE loc[a].ok
    <3>1. h.busy' <=> h.busy
      BY <1>0, <1>3, <2>1
    <3>2. pc' = [pc EXCEPT ![a] = "sp_ep0"] /\ UNCHANGED <<loc, gn>>
      BY <1>3, <2>1 DEF StopDrained, Goto
    <3> QED BY <1>3, <3>1, <3>2, AppTask DEF StopDrained
  <2>2. CASE ~loc[a].ok
    <3>1. ~h'.busy
      BY <1>3, <2>2 DEF StopDrained, Handle
    <3> QED BY <1>3, <2>2, <3>1, AppTask DEF StopDrained, StopReturn, Goto, ClearIf, Fresh
  <2> QED BY <2>1, <2>2
<1>4. CASE StopCleanup(a)
  BY <1>4 DEF StopCleanup, Goto, Handle
<1>5. CASE StopFree(a)
  BY <1>5 DEF StopFree, Goto, ClearIf, Fresh, StopReturn, Handle
<1> QED BY <1>1, <1>2, <1>3, <1>4, <1>5 DEF Stop

LEMMA StartMoves ==
    ASSUME TypeOK, OpsFit, WindowExclusive, NEW a \in App,
           Start(a)
    PROVE  WindowMove(a)
<1> USE TaskNames DEF TypeOK, Locals, OpsFit, OpFits, ClientPlaces, Task,
           WindowMove, Holds, InWindow
<1>1. CASE StartClaim(a)
  BY <1>1 DEF StartClaim, Goto, Fresh, StartFails, Handle
<1>2. CASE StartEp0(a)
  BY <1>2, ZenonT(60) DEF StartEp0, Goto, Fresh, StartFails, Handle
<1>3. CASE StartAlloc(a)
  BY <1>3 DEF StartAlloc, Goto, Enter, Handle
<1>4. CASE AllocDrained(a)
  BY <1>4 DEF AllocDrained, Goto, Fresh, Enter, StartFails, Handle
<1>5. CASE StartFreeOld(a)
  BY <1>5 DEF StartFreeOld, Goto, Fresh, StartFails, Handle
<1>6. CASE StartPool(a)
  BY <1>6 DEF StartPool, Goto, Fresh, StartFails, Handle
<1>7. CASE StartArm(a)
  <2>1. PICK f \in Freqs : h' = Armed(f) \/ h' = [Armed(f) EXCEPT !.streaming = TRUE]
    BY <1>7 DEF StartArm
  <2>2. h'.busy = h.busy
    BY <2>1 DEF Armed, Handle
  <2>3. CASE \E x \in BOOLEAN : StartFails(a, x)
    <3>1. /\ pc' = [pc EXCEPT ![a] = "sp_take"]
          /\ \A u \in Task \ {a} : loc'[u] = loc[u]
      BY <2>3 DEF StartFails, Goto
    <3> QED BY <1>7, <2>2, <3>1 DEF StartArm
  <2>4. CASE ~\E x \in BOOLEAN : StartFails(a, x)
    <3>1. pc' = [pc EXCEPT ![a] = "st_submit"] /\ loc' = [loc EXCEPT ![a].idx = 1]
      BY <1>7, <2>4 DEF StartArm, Goto
    <3> QED BY <1>7, <2>2, <3>1 DEF StartArm
  <2> QED BY <2>3, <2>4
<1>8. CASE StartSubmit(a)
  BY <1>8 DEF StartSubmit, Goto, Fresh, StartFails, Handle
<1>9. CASE StartEnd(a)
  BY <1>9 DEF StartEnd, Goto, Clear, Fresh, Handle
<1>10. CASE StartFailTail(a)
  BY <1>10 DEF StartFailTail, Goto, Clear, Fresh, Handle
<1> QED BY <1>1, <1>2, <1>3, <1>4, <1>5, <1>6, <1>7, <1>8, <1>9, <1>10 DEF Start

LEMMA BeginMoves ==
    ASSUME TypeOK, OpsFit, WindowExclusive, NEW a \in App,
           Begin(a)
    PROVE  WindowMove(a)
<1> USE TaskNames DEF TypeOK, Locals, OpsFit, OpFits, ClientPlaces, Task,
           WindowMove, Holds, InWindow
<1>1. CASE StartCall(a)
  BY <1>1 DEF StartCall, Goto, Call, Enter, Handle
<1>2. CASE StopCall(a)
  BY <1>2 DEF StopCall, Goto, Call, Enter, Handle
<1>3. CASE Reset(a)
  BY <1>3 DEF Reset, Call, Handle
<1>4. CASE RetuneCall(a)
  BY <1>4 DEF RetuneCall, Goto, Call, Enter, Handle
<1>5. CASE ControlCall(a)
  BY <1>5 DEF ControlCall, Goto, Call, Enter, Handle
<1> QED BY <1>1, <1>2, <1>3, <1>4, <1>5 DEF Begin

LEMMA SetterMoves ==
    ASSUME TypeOK, OpsFit, WindowExclusive, NEW a \in App,
           ControlQueue(a) \/ ControlEp0(a)
    PROVE  WindowMove(a)
<1> USE TaskNames DEF TypeOK, Locals, OpsFit, OpFits, ClientPlaces, Task,
           WindowMove, Holds, InWindow
<1>1. CASE ControlQueue(a)
  BY <1>1 DEF ControlQueue, Goto, Clear, Fresh, Handle
<1>2. CASE ControlEp0(a)
  BY <1>2 DEF ControlEp0, Goto, Clear, Fresh, Handle
<1> QED BY <1>1, <1>2

LEMMA GoneStepMoves ==
    ASSUME TypeOK, OpsFit, WindowExclusive,
           GoneStep
    PROVE  WindowMove("client")
<1> USE TaskNames DEF TypeOK, Locals, OpsFit, OpFits, ClientPlaces, Task,
           WindowMove, Holds, InWindow
<1>1. CASE GoneEvent
  BY <1>1 DEF GoneEvent, Client, Handle, Gone
<1>2. CASE GoneBegin
  BY <1>2 DEF GoneBegin, Client, Handle, Gone
<1>3. CASE GoneTake
  BY <1>3 DEF GoneTake, Client, Handle, Gone
<1>4. CASE GoneIdle
  BY <1>4 DEF GoneIdle, Client, Handle, Gone
<1>5. CASE GoneExpire
  BY <1>5 DEF GoneExpire, Client, Handle, Gone
<1>6. CASE GoneGiveUp
  BY <1>6 DEF GoneGiveUp, Client, Handle, Gone
<1>7. CASE GoneClose
  BY <1>7 DEF GoneClose, Client, Handle, Gone
<1>8. CASE GoneFinish
  BY <1>8 DEF GoneFinish, Client, Handle, Gone
<1> QED BY <1>1, <1>2, <1>3, <1>4, <1>5, <1>6, <1>7, <1>8 DEF GoneStep

\* Every step keeps the table of calls and places.
LEMMA FitsKept == TypeOK /\ OpsFit /\ [Next]_vars => OpsFit'
<1> SUFFICES ASSUME TypeOK, OpsFit, [Next]_vars PROVE OpsFit'
  OBVIOUS
<1> "client" \in Task /\ "delivery" \in Task /\ App \subseteq Task
  BY DEF Task
<1>1. CASE Host
  BY <1>1, HostFits
<1>2. CASE Callback
  BY <1>2, CallbackFits
<1>3. ASSUME NEW t \in Task, Drain(t) PROVE OpsFit'
  BY <1>3, DrainFits
<1>4. ASSUME NEW t \in Task, Resume(t) PROVE OpsFit'
  BY <1>4, ResumeFits
<1>5. ASSUME NEW t \in Task, Retune(t) PROVE OpsFit'
  BY <1>5, RetuneFits
<1>6. CASE \/ CheckStall \/ CheckRetune \/ CheckSide \/ Emit \/ RecoverBegin
            \/ RecoverDrained \/ SideEnter \/ SideDrained \/ SideEp0
  BY <1>6, OwnFits
<1>7. ASSUME NEW a \in App, Stop(a) PROVE OpsFit'
  BY <1>7, StopFits
<1>8. ASSUME NEW a \in App, Start(a) PROVE OpsFit'
  BY <1>8, StartFits
<1>9. ASSUME NEW a \in App, Begin(a) PROVE OpsFit'
  BY <1>9, BeginFits
<1>10. ASSUME NEW a \in App, ControlQueue(a) \/ ControlEp0(a) PROVE OpsFit'
  BY <1>10, SetterFits
<1>11. CASE GoneStep
  BY <1>11, GoneStepFits
<1>12. CASE Delivery
  BY <1>12, <1>3, <1>4, <1>5, <1>6 DEF Delivery
<1>13. ASSUME NEW a \in App, Continue(a) PROVE OpsFit'
  BY <1>13, <1>3, <1>4, <1>5, <1>7, <1>8, <1>10 DEF Continue
<1>14. CASE Reopen \/ Unplug \/ UNCHANGED vars
  BY <1>14 DEF Reopen, Unplug, vars, OpsFit, OpFits, Client
<1> QED BY <1>1, <1>2, <1>9, <1>11, <1>12, <1>13, <1>14 DEF Next

\* Every step keeps the window exclusive.
LEMMA WindowsKept == TypeOK /\ OpsFit /\ WindowExclusive /\ [Next]_vars => WindowExclusive'
<1> SUFFICES ASSUME TypeOK, OpsFit, WindowExclusive, [Next]_vars PROVE WindowExclusive'
  OBVIOUS
<1> "client" \in Task /\ "delivery" \in Task /\ App \subseteq Task
  BY DEF Task
<1>1. CASE Host
  BY <1>1, HostMoves, WindowKept
<1>2. CASE Callback
  BY <1>2, CallbackMoves, WindowKept
<1>3. ASSUME NEW t \in Task, Drain(t) PROVE WindowExclusive'
  BY <1>3, DrainMoves, WindowKept
<1>4. ASSUME NEW t \in Task, Resume(t) PROVE WindowExclusive'
  BY <1>4, ResumeMoves, WindowKept
<1>5. ASSUME NEW t \in Task, Retune(t) PROVE WindowExclusive'
  BY <1>5, RetuneMoves, WindowKept
<1>6. CASE \/ CheckStall \/ CheckRetune \/ CheckSide \/ Emit \/ RecoverBegin
            \/ RecoverDrained \/ SideEnter \/ SideDrained \/ SideEp0
  BY <1>6, OwnMoves, WindowKept
<1>7. ASSUME NEW a \in App, Stop(a) PROVE WindowExclusive'
  BY <1>7, StopMoves, WindowKept
<1>8. ASSUME NEW a \in App, Start(a) PROVE WindowExclusive'
  BY <1>8, StartMoves, WindowKept
<1>9. ASSUME NEW a \in App, Begin(a) PROVE WindowExclusive'
  BY <1>9, BeginMoves, WindowKept
<1>10. ASSUME NEW a \in App, ControlQueue(a) \/ ControlEp0(a) PROVE WindowExclusive'
  BY <1>10, SetterMoves, WindowKept
<1>11. CASE GoneStep
  BY <1>11, GoneStepMoves, WindowKept
<1>12. CASE Delivery
  BY <1>12, <1>3, <1>4, <1>5, <1>6 DEF Delivery
<1>13. ASSUME NEW a \in App, Continue(a) PROVE WindowExclusive'
  BY <1>13, <1>3, <1>4, <1>5, <1>7, <1>8, <1>10 DEF Continue
<1>14. CASE Reopen \/ Unplug \/ UNCHANGED vars
  BY <1>14 DEF Reopen, Unplug, vars, WindowExclusive, Holds, InWindow, TypeOK, Handle
<1> QED BY <1>1, <1>2, <1>9, <1>11, <1>12, <1>13, <1>14 DEF Next

-----------------------------------------------------------------------------
(* The theorems.                                                            *)

\* The state a handle is created in satisfies the invariant.
LEMMA InitInv == Init => IInv
<1> SUFFICES ASSUME Init PROVE IInv
  OBVIOUS
<1>1. TypeOK
  BY UrbCount DEF Init, TypeOK, Handle, Usb, Locals, Gone, States, Outcomes, OpNames, PCs,
     Fresh, NoFreq
<1>2. OpsFit
  BY TaskNames DEF Init, OpsFit, OpFits, ClientPlaces, Fresh, Task
<1>3. WindowExclusive
  BY DEF Init, WindowExclusive, Holds, InWindow, Fresh
<1> QED BY <1>1, <1>2, <1>3 DEF IInv

\* IInv is inductive: no step of any task, callback, fault or disconnect
\* leaves it.
LEMMA Inductive == IInv /\ [Next]_vars => IInv'
BY TypesKept, FitsKept, WindowsKept DEF IInv

\* IInv holds in every state the engine reaches.
THEOREM Invariant == Spec => []IInv
<1>1. Init => IInv
  BY InitInv
<1>2. IInv /\ [Next]_vars => IInv'
  BY Inductive
<1> QED BY <1>1, <1>2, PTL DEF Spec

\* Every variable of the engine keeps its type, for every pool size, every set
\* of application tasks and every bound.
THEOREM TypeCorrect == Spec => []TypeOK
<1>1. IInv => TypeOK
  BY DEF IInv
<1> QED BY <1>1, Invariant, PTL

\* The EP0 window is exclusive and never leaked: whatever calls any number of
\* tasks make, whenever a start overlaps them and whatever fails,
\* ep0_sideband_busy is set exactly while one task owns the window.
THEOREM WindowSafe == Spec => []WindowExclusive
<1>1. IInv => WindowExclusive
  BY DEF IInv
<1> QED BY <1>1, Invariant, PTL

-----------------------------------------------------------------------------
(***************************************************************************)
(* The stream undisturbed.                                                 *)
(***************************************************************************)

\* No setter is under way in one task while another stops the stream.
SettersApart == \A a, b \in App : "stop" \in Ops[a] /\ "control" \in Ops[b] => a = b

\* Nothing goes wrong on the bulk pipe and the device stays; EP0 may fail, and
\* a wait may run out, at any time.
Undisturbed == StartAlone /\ SettersApart /\ MaxErrors = 0 /\ MaxUnplugs = 0

Worker == App \cup {"delivery"}
Loop == {"none", "top", "chk_retune", "chk_side", "emit"}
Drains == {"poll", "poll2", "drained"}
Incs == {"inc_load", "inc_store"}
Setup == {"st_ep0", "st_alloc", "st_free", "st_pool", "st_arm"}

\* A task that has the stream to itself: it owns the window, or starts.
Owning(t) == Holds(t) \/ loc[t].op = "start"

\* Places at which a task is about to submit a URB, or has and not counted it.
Submits(t) == pc[t] \in {"rs_submit", "st_submit"} \cup Incs /\ loc[t].idx \in Urbs

\* Places a task reaches only when no URB is out.
Still(t) ==
    \/ pc[t] \in {"ep0", "resume", "sp_ep0", "sp_free", "st_claim", "fail_tail"} \cup Setup
    \/ pc[t] = "drained" /\ loc[t].ok /\ (loc[t].op = "stop" \/ h.streaming)
    \/ pc[t] \in {"sp_take", "sp_mark"} \cup Drains /\ loc[t].op = "start"

\* A task in a call, by what the call may be.
InCall(t) ==
    /\ loc[t].op \in IF t = "delivery" THEN {"none", "retune", "side"}
                     ELSE {"none", "start", "stop", "retune", "control"}
    /\ pc[t] \in Loop \cup {"ready"} => loc[t].op = "none"
    /\ pc[t] \in Drains => loc[t].op \in {"retune", "side", "stop", "start"}
    /\ loc[t].op = "stop" => "stop" \in Ops[t]
    /\ pc[t] = "ct_queue" => t # "delivery" /\ h.iface /\ "control" \in Ops[t]
    /\ pc[t] \in Incs => loc[t].idx \in Urbs

\* A stop that has marked the stream.
Stops(t) == \/ pc[t] \in {"sp_ep0", "sp_free"}
            \/ pc[t] \in Drains /\ loc[t].op \in {"stop", "start"}

\* A task in the window.
InPause(t) ==
    /\ pc[t] \in {"pause"} \cup Drains /\ loc[t].op = "side" => h.streaming
    /\ pc[t] \in Drains /\ loc[t].op \in {"retune", "side"} /\ h.streaming => h.pause
    /\ pc[t] = "ep0" => h.streaming /\ h.pause
    /\ Stops(t) => ~h.streaming /\ ~h.side

\* A start that has armed the stream.
Feeds(t) == loc[t].op = "start" /\ pc[t] \in {"st_submit"} \cup Incs

\* A task in a start, which may have failed.
InStart(t) ==
    /\ loc[t].op = "start" => h.state # "STREAMING"
    /\ loc[t].op = "start" /\ pc[t] \notin Drains \cup {"sp_ep0", "sp_free", "fail_tail"}
       => h.state = "STARTING"
    /\ loc[t].op = "start" /\ ~Feeds(t) => ~h.streaming
    /\ pc[t] \in Setup => h.iface /\ ~h.side
    /\ pc[t] = "st_arm" => h.pool
    /\ pc[t] = "fail_tail" => ~h.pool
    /\ pc[t] = "drained" /\ loc[t].op = "start" => loc[t].ok
    /\ Feeds(t) => h.streaming /\ ~h.pause /\ ~h.side /\ h.pend = NoFreq

\* What a task that submits, or knows that no URB is out, knows.
InBulk(t) == /\ Submits(t) => h.streaming /\ ~h.pause
             /\ Still(t) => h.live = 0

Sits(t) == InCall(t) /\ InPause(t) /\ InStart(t) /\ InBulk(t)

\* The state, the stream and its means.
StreamFits ==
    /\ h.streaming => /\ h.pool /\ h.iface
                      /\ h.state = "STREAMING" \/ \E a \in App : Feeds(a)
    /\ h.state = "STREAMING" => h.streaming
    /\ h.state = "IDLE" => ~h.pool
    /\ h.side => h.iface

\* A task that starts the stream does so alone.
StartsAlone == \A a \in App : loc[a].op = "start" =>
                 (\A b \in App \ {a} : pc[b] = "ready") /\ pc["delivery"] \in Loop

\* Neither the pipe nor the device fails.
Well == /\ usb.plugged /\ ~usb.halted /\ usb.errors = 0 /\ usb.unplugs = 0
        /\ h.dev /\ ~h.gone /\ ~h.stall /\ gn = [phase |-> "none", held |-> FALSE]
        /\ \A i \in Urbs : usb.urb[i] # "bad"

\* The callback that runs has a URB nobody else can submit, and counts it down
\* only while nobody counts up.
CallbackSound ==
    /\ InCallback => loc["client"].idx \in Urbs /\ usb.urb[loc["client"].idx] = "idle"
    /\ pc["client"] \in {"cb_load", "cb_store"} => \A t \in Worker : ~Submits(t)
    /\ pc["client"] = "cb_store" => loc["client"].tmp = h.live

\* The URBs a task has still to submit are not out.
SubmitSound ==
    \A t \in Worker : Submits(t) =>
        /\ \A j \in Urbs : j > loc[t].idx => ~Outstanding(j)
        /\ pc[t] \notin Incs => ~Outstanding(loc[t].idx)
        /\ pc[t] = "inc_store" => loc[t].tmp = h.live

\* What is out has a pool and an interface.
BulkHeld == ~AllReturned => h.pool /\ h.iface

Seats == (\A t \in Worker : Sits(t)) /\ StreamFits /\ StartsAlone /\ Well
Bulk == CallbackSound /\ SubmitSound /\ BulkHeld /\ LiveExact

IRun == IInv /\ Seats /\ Bulk

-----------------------------------------------------------------------------
(* Who has the stream.                                                      *)

\* At most one task has the stream to itself.
LEMMA OneOwner ==
    ASSUME OpsFit, WindowExclusive, Seats, NEW t \in Worker, NEW u \in Worker,
           Owning(t), Owning(u)
    PROVE  t = u
<1> USE TaskNames DEF Worker
<1>1. ASSUME NEW a \in Worker, loc[a].op = "start"
      PROVE  a \in App /\ \A b \in Worker \ {a} : ~Owning(b)
  <2>1. a \in App
    BY <1>1 DEF Seats, Sits, InCall
  <2>2. ASSUME NEW b \in Worker \ {a} PROVE pc[b] \in Loop \cup {"ready"}
    BY <1>1, <2>1 DEF Seats, StartsAlone
  <2>3. ASSUME NEW b \in Worker \ {a} PROVE loc[b].op = "none"
    BY <2>2 DEF Seats, Sits, InCall
  <2>4. ASSUME NEW b \in Worker \ {a} PROVE ~Owning(b)
    BY <2>2, <2>3 DEF Owning, Holds, InWindow, Loop
  <2> QED BY <2>1, <2>4
<1>2. CASE loc[t].op = "start" \/ loc[u].op = "start"
  BY <1>1, <1>2
<1>3. CASE Holds(t) /\ Holds(u)
  BY <1>3 DEF WindowExclusive, Task
<1> QED BY <1>2, <1>3 DEF Owning

\* A task that has not is at no place that says anything about the stream.
LEMMA Bystander ==
    ASSUME NEW t \in Worker, OpFits(pc[t], loc[t].op), InCall(t), ~Owning(t)
    PROVE  ~Submits(t) /\ ~Still(t) /\ ~Stops(t) /\ ~Feeds(t) /\ Sits(t)
<1> USE DEF Owning, Holds, InWindow, OpFits, InCall, Worker
<1>1. ~Stops(t) /\ ~Feeds(t)
  BY DEF Stops, Feeds, Drains, Incs
<1>2. ~Submits(t) /\ ~Still(t)
  BY DEF Submits, Still, Drains, Incs, Setup
<1>3. InPause(t)
  BY <1>1 DEF InPause, Drains
<1>4. InStart(t)
  BY <1>1 DEF InStart, Setup
<1> QED BY <1>1, <1>2, <1>3, <1>4 DEF Sits, InBulk

\* The same of the state after a step.
LEMMA BystanderNext ==
    ASSUME NEW t \in Worker, OpFits(pc[t], loc[t].op)', InCall(t)', ~Owning(t)'
    PROVE  Sits(t)'
<1> USE DEF Owning, Holds, InWindow, OpFits, InCall, Worker
<1>1. ~Stops(t)' /\ ~Feeds(t)'
  BY DEF Stops, Feeds, Drains, Incs
<1>2. ~Submits(t)' /\ ~Still(t)'
  BY DEF Submits, Still, Drains, Incs, Setup
<1>3. InPause(t)'
  BY <1>1 DEF InPause, Drains
<1>4. InStart(t)'
  BY <1>1 DEF InStart, Setup
<1> QED BY <1>1, <1>2, <1>3, <1>4 DEF Sits, InBulk

\* What a step of another task leaves of what u relies on.
Rely(u) ==
    /\ pc'[u] = pc[u] /\ loc'[u] = loc[u]
    /\ pc[u] = "ct_queue" => (h.iface => h'.iface)
    /\ Owning(u) => /\ h'.streaming = h.streaming /\ h'.pause = h.pause
                    /\ h'.iface = h.iface /\ (h'.side => h.side)
                    /\ Still(u) => h'.live = 0
    /\ loc[u].op = "start" => h'.state = h.state /\ h'.pool = h.pool /\ h'.pend = h.pend

\* A task whose rely holds keeps its seat.
LEMMA RelyKeeps ==
    ASSUME OpsFit, Seats, OpsFit', NEW u \in Worker, Rely(u)
    PROVE  Sits(u)'
<1>1. OpFits(pc[u], loc[u].op) /\ Sits(u)
  BY DEF OpsFit, Seats, Worker, Task
<1>2. InCall(u)'
  BY <1>1 DEF Sits, InCall, Rely
<1>3. CASE ~Owning(u)
  <2>1. ~Owning(u)'
    <3>1. u # "client"
      BY TaskNames DEF Worker
    <3> QED BY <1>3, <3>1 DEF Owning, Holds, Rely
  <2>2. OpFits(pc[u], loc[u].op)'
    BY <1>1 DEF Rely
  <2> QED BY <1>2, <2>1, <2>2, BystanderNext
<1>4. CASE Owning(u)
  <2> USE <1>1, <1>4 DEF Sits, Rely
  <2>1. InPause(u)'
    BY DEF InPause, Stops
  <2>2. InStart(u)'
    BY DEF InStart, Feeds, OpFits, Setup
  <2>3. InBulk(u)'
    BY DEF InBulk, Submits, Still
  <2> QED BY <1>2, <2>1, <2>2, <2>3
<1> QED BY <1>3, <1>4

-----------------------------------------------------------------------------
(* What a step needs to show to keep Seats, by who takes it.                *)

\* Only task t moves.
Frame(t) == \A u \in Task \ {t} : pc'[u] = pc[u] /\ loc'[u] = loc[u]

\* The stream and its means stay, and so does a start that feeds it.
SameStream(t) == /\ h'.state = h.state /\ h'.streaming = h.streaming
                 /\ h'.pool = h.pool /\ h'.iface = h.iface /\ (h'.side => h.side)
                 /\ Feeds(t) => Feeds(t)'

\* Then the stream fits as before.
LEMMA SameStreamFits ==
    ASSUME StreamFits, NEW t \in Task, Frame(t), SameStream(t)
    PROVE  StreamFits'
<1>1. ASSUME NEW a \in App, Feeds(a) PROVE Feeds(a)'
  BY <1>1 DEF Frame, SameStream, Feeds, Task
<1> QED BY <1>1 DEF StreamFits, SameStream

\* A task that starts the stream is alone, so another can only rest.
Rests(t) == \A a \in App : a # t /\ loc[a].op = "start" =>
              IF t = "delivery" THEN pc'[t] \in Loop ELSE t \in App => pc'[t] = "ready"

\* So a start stays alone.
LEMMA AloneKept ==
    ASSUME Seats, NEW t \in Task, Frame(t), Rests(t),
           t \in App => (loc'[t].op = "start" => loc[t].op = "start")
    PROVE  StartsAlone'
<1> SUFFICES ASSUME NEW a \in App, loc'[a].op = "start"
             PROVE  (\A b \in App \ {a} : pc'[b] = "ready") /\ pc'["delivery"] \in Loop
  BY DEF StartsAlone, Loop
<1> USE TaskNames DEF Task
<1>1. loc[a].op = "start"
  BY DEF Frame
<1>2. (\A b \in App \ {a} : pc[b] = "ready") /\ pc["delivery"] \in Loop
  BY <1>1 DEF Seats, StartsAlone
<1>3. ASSUME NEW b \in App \ {a} PROVE pc'[b] = "ready"
  BY <1>1, <1>2, <1>3 DEF Frame, Rests
<1>4. pc'["delivery"] \in Loop
  BY <1>1, <1>2 DEF Frame, Rests
<1> QED BY <1>3, <1>4

\* A task that has the stream to itself disturbs nobody.
LEMMA OwnerStep ==
    ASSUME OpsFit, WindowExclusive, Seats, OpsFit', NEW t \in Worker, Owning(t), Frame(t),
           \A u \in Worker : u # t /\ pc[u] = "ct_queue" => (h.iface => h'.iface),
           loc'[t].op = "start" => loc[t].op = "start", Sits(t)', StreamFits', Well'
    PROVE  Seats'
<1> USE TaskNames DEF Worker, Task
<1>1. ASSUME NEW u \in Worker, u # t PROVE Rely(u) /\ loc[u].op # "start"
  <2>1. ~Owning(u)
    BY <1>1, OneOwner
  <2> QED BY <1>1, <2>1 DEF Rely, Frame, Owning
<1>2. \A u \in Worker : Sits(u)'
  BY <1>1, RelyKeeps
<1>3. Rests(t)
  BY <1>1 DEF Rests
<1>4. StartsAlone'
  BY <1>3, AloneKept
<1> QED BY <1>2, <1>4 DEF Seats

\* A task that has not changes little of what the others rely on.
Light == /\ h'.streaming = h.streaming /\ h'.pause = h.pause /\ h'.iface = h.iface
         /\ (h'.side => h.side) /\ (h.live = 0 => h'.live = 0)
         /\ \A a \in Worker : loc[a].op = "start" =>
               h'.state = h.state /\ h'.pool = h.pool /\ h'.pend = h.pend

\* Such a step keeps Seats if the task itself does.
LEMMA LightStep ==
    ASSUME OpsFit, Seats, OpsFit', NEW t \in Task, Frame(t), Light, Rests(t),
           t \in App => (loc'[t].op = "start" => loc[t].op = "start"),
           t \in Worker => Sits(t)', StreamFits', Well'
    PROVE  Seats'
<1> USE TaskNames DEF Worker, Task
<1>1. ASSUME NEW u \in Worker, u # t PROVE Rely(u)
  BY <1>1 DEF Rely, Frame, Light, Seats, Sits, InBulk
<1>2. \A u \in Worker : Sits(u)'
  BY <1>1, RelyKeeps
<1>3. StartsAlone'
  BY AloneKept
<1> QED BY <1>2, <1>3 DEF Seats

-----------------------------------------------------------------------------
(* Nothing goes wrong: no submit is refused, so nothing stalls.             *)

\* Every resubmit and every submit loop finds the pipe ready for its URB.
LEMMA Submittable ==
    ASSUME IRun
    PROVE  /\ InCallback => CanSubmit(loc["client"].idx)
           /\ \A t \in Worker : Submits(t) /\ pc[t] \notin Incs => CanSubmit(loc[t].idx)
<1> USE DEF IRun, Seats, Well
<1>1. ASSUME InCallback PROVE CanSubmit(loc["client"].idx)
  <2>1. loc["client"].idx \in Urbs /\ usb.urb[loc["client"].idx] = "idle"
    BY <1>1 DEF Bulk, CallbackSound
  <2>2. h.pool /\ h.iface
    BY <1>1, <2>1 DEF Bulk, BulkHeld, AllReturned, Outstanding
  <2> QED BY <2>1, <2>2 DEF CanSubmit
<1>2. ASSUME NEW t \in Worker, Submits(t), pc[t] \notin Incs PROVE CanSubmit(loc[t].idx)
  <2>1. usb.urb[loc[t].idx] = "idle"
    BY <1>2 DEF Bulk, SubmitSound, Outstanding
  <2>2. h.pool /\ h.iface
    BY <1>2 DEF StreamFits, Sits, InBulk
  <2> QED BY <2>1, <2>2 DEF CanSubmit
<1> QED BY <1>1, <1>2

\* A flush returns URBs, an expired wait or a failed EP0 sequence counts.
LEMMA UsbWell ==
    ASSUME TypeOK, Well, NEW u, u \in {usb, Expired(usb), Faulted(usb), Flushed(Expired(usb))},
           usb' = u, h'.dev = h.dev, h'.gone = h.gone, h'.stall = h.stall, gn' = gn
    PROVE  Well'
<1>1. /\ u.plugged = usb.plugged /\ u.errors = usb.errors /\ u.unplugs = usb.unplugs
      /\ ~usb.halted => ~u.halted
      /\ \A i \in Urbs : u.urb[i] \in {usb.urb[i], "lost"}
  <2>1. CASE u = Flushed(Expired(usb))
    <3>1. PICK v : v = Expired(usb)
      OBVIOUS
    <3>2. v.urb = usb.urb /\ v \in Usb /\ v.plugged = usb.plugged /\ v.errors = usb.errors
          /\ v.unplugs = usb.unplugs
      BY <3>1, UsbFacts DEF TypeOK, Expired, Usb
    <3>3. u = Flushed(v)
      BY <2>1, <3>1
    <3> QED BY <3>2, <3>3 DEF Flushed, Usb
  <2>2. CASE u = usb
    BY <2>2
  <2>3. CASE u = Expired(usb)
    BY <2>3 DEF TypeOK, Usb, Expired
  <2>4. CASE u = Faulted(usb)
    BY <2>4 DEF TypeOK, Usb, Faulted
  <2> QED BY <2>1, <2>2, <2>3, <2>4
<1> QED BY <1>1 DEF Well

\* The host only completes transfers.
LEMMA HostWell ==
    ASSUME Undisturbed, IRun, Host
    PROVE  Well' /\ \E i \in Urbs : Complete(i)
<1> USE DEF IRun, IInv, TypeOK, Usb, Seats, Well
<1>1. ASSUME NEW i \in Urbs PROVE ~Fail(i) /\ ~Malform(i) /\ ~Retire(i)
  BY DEF Fail, Malform, Retire, Undisturbed
<1>2. PICK i \in Urbs : Complete(i)
  BY <1>1 DEF Host
<1> QED BY <1>2 DEF Complete

\* One lemma per group of actions: no callback, call or queued work makes the pipe or
\* the device fail.
LEMMA CallbackWell ==
    ASSUME IRun, Callback
    PROVE  Well'
<1> USE DEF IRun, IInv, TypeOK, Usb, Handle, Seats, Well
<1>1. ASSUME NEW i \in Urbs, CbBegin(i) PROVE Well'
  BY <1>1 DEF CbBegin
<1>2. CASE CbSubmit
  BY <1>2, Submittable DEF CbSubmit, InCallback
<1>3. CASE CbLoad
  BY <1>3 DEF CbLoad
<1>4. CASE CbStore
  BY <1>4 DEF CbStore
<1> QED BY <1>1, <1>2, <1>3, <1>4 DEF Callback

LEMMA DrainWell ==
    ASSUME IRun, NEW t \in Worker, Drain(t)
    PROVE  Well'
<1> USE DEF IRun, IInv, TypeOK, Handle, Seats
<1>1. CASE PollDone(t)
  BY <1>1, UsbWell DEF PollDone
<1>2. CASE PollExpire(t)
  BY <1>2, UsbWell DEF PollExpire
<1>3. CASE PollGiveUp(t)
  BY <1>3, UsbWell DEF PollGiveUp
<1>4. CASE PauseBulk(t)
  BY <1>4, UsbWell DEF PauseBulk
<1> QED BY <1>1, <1>2, <1>3, <1>4 DEF Drain

LEMMA ResumeWell ==
    ASSUME IRun, NEW t \in Worker, Resume(t)
    PROVE  Well'
<1> USE DEF IRun, IInv, TypeOK, Handle, Seats
<1>1. CASE ResumeBegin(t)
  BY <1>1, UsbWell DEF ResumeBegin
<1>2. CASE ResumeSubmit(t)
  BY <1>2 DEF ResumeSubmit, Usb, Well
<1>3. CASE ResumeEnd(t)
  BY <1>3, UsbWell DEF ResumeEnd
<1>4. CASE IncLoad(t)
  BY <1>4, UsbWell DEF IncLoad
<1>5. CASE IncStore(t)
  BY <1>5, UsbWell DEF IncStore
<1>6. CASE Release(t)
  BY <1>6, UsbWell DEF Release
<1> QED BY <1>1, <1>2, <1>3, <1>4, <1>5, <1>6 DEF Resume

LEMMA RetuneWell ==
    ASSUME IRun, NEW t \in Worker, Retune(t)
    PROVE  Well'
<1> USE DEF IRun, IInv, TypeOK, Handle, Seats
<1>1. CASE RetuneEnter(t)
  BY <1>1, UsbWell DEF RetuneEnter
<1>2. CASE RetuneTake(t)
  BY <1>2, UsbWell DEF RetuneTake
<1>3. CASE RetuneDrained(t)
  BY <1>3, UsbWell DEF RetuneDrained
<1>4. CASE RetuneEp0(t)
  BY <1>4, UsbWell DEF RetuneEp0
<1> QED BY <1>1, <1>2, <1>3, <1>4 DEF Retune

LEMMA OwnWell ==
    ASSUME IRun,
           CheckStall \/ CheckRetune \/ CheckSide \/ Emit \/ RecoverBegin
           \/ RecoverDrained \/ SideEnter \/ SideDrained \/ SideEp0
    PROVE  Well' /\ ~RecoverBegin /\ ~RecoverDrained
<1> USE DEF IRun, IInv, TypeOK, Handle, Seats
<1>1. ~RecoverBegin /\ ~RecoverDrained
  BY DEF RecoverBegin, RecoverDrained, Sits, InCall, OpsFit, OpFits, Worker, Task
<1> SUFFICES Well'
  BY <1>1
<1>2. CASE CheckStall
  BY <1>2, UsbWell DEF CheckStall, DeliveryStep
<1>3. CASE CheckRetune
  BY <1>3, UsbWell DEF CheckRetune, DeliveryStep
<1>4. CASE CheckSide
  BY <1>4, UsbWell DEF CheckSide, DeliveryStep
<1>5. CASE Emit
  BY <1>5, UsbWell DEF Emit
<1>6. CASE SideEnter
  BY <1>6, UsbWell DEF SideEnter
<1>7. CASE SideDrained
  BY <1>7, UsbWell DEF SideDrained
<1>8. CASE SideEp0
  BY <1>8, UsbWell DEF SideEp0
<1> QED BY <1>1, <1>2, <1>3, <1>4, <1>5, <1>6, <1>7, <1>8

LEMMA StopWell ==
    ASSUME IRun, NEW a \in App, Stop(a)
    PROVE  Well'
<1> USE DEF IRun, IInv, TypeOK, Handle, Seats
<1>1. CASE StopTake(a)
  BY <1>1, UsbWell DEF StopTake
<1>2. CASE StopMark(a)
  BY <1>2, UsbWell DEF StopMark
<1>3. CASE StopDrained(a)
  BY <1>3, UsbWell DEF StopDrained
<1>4. CASE StopCleanup(a)
  BY <1>4, UsbWell DEF StopCleanup
<1>5. CASE StopFree(a)
  BY <1>5, UsbWell DEF StopFree
<1> QED BY <1>1, <1>2, <1>3, <1>4, <1>5 DEF Stop

LEMMA StartWell ==
    ASSUME IRun, NEW a \in App, Start(a)
    PROVE  Well'
<1> USE DEF IRun, IInv, TypeOK, Handle, Seats
<1>1. CASE StartClaim(a)
  BY <1>1, UsbWell DEF StartClaim
<1>2. CASE StartEp0(a)
  BY <1>2, UsbWell DEF StartEp0
<1>3. CASE StartAlloc(a)
  BY <1>3, UsbWell DEF StartAlloc
<1>4. CASE AllocDrained(a)
  BY <1>4, UsbWell DEF AllocDrained
<1>5. CASE StartFreeOld(a)
  BY <1>5, UsbWell DEF StartFreeOld
<1>6. CASE StartPool(a)
  BY <1>6, UsbWell DEF StartPool
<1>7. CASE StartArm(a)
  BY <1>7, UsbWell DEF StartArm, Armed
<1>8. CASE StartSubmit(a)
  <2>1. usb' = usb \/ usb' = [usb EXCEPT !.urb[loc[a].idx] = "flight"]
    BY <1>8 DEF StartSubmit
  <2>2. h'.dev = h.dev /\ h'.gone = h.gone /\ h'.stall = h.stall /\ gn' = gn
    BY <1>8 DEF StartSubmit
  <2> QED BY <2>1, <2>2 DEF Usb, Well
<1>9. CASE StartEnd(a)
  BY <1>9, UsbWell DEF StartEnd
<1>10. CASE StartFailTail(a)
  BY <1>10, UsbWell DEF StartFailTail
<1> QED BY <1>1, <1>2, <1>3, <1>4, <1>5, <1>6, <1>7, <1>8, <1>9, <1>10 DEF Start

LEMMA BeginWell ==
    ASSUME IRun, NEW a \in App, Begin(a) \/ ControlQueue(a) \/ ControlEp0(a)
    PROVE  Well'
<1> USE DEF IRun, IInv, TypeOK, Handle, Seats
<1>1. CASE StartCall(a)
  BY <1>1, UsbWell DEF StartCall
<1>2. CASE StopCall(a)
  BY <1>2, UsbWell DEF StopCall
<1>3. CASE Reset(a)
  BY <1>3, UsbWell DEF Reset
<1>4. CASE RetuneCall(a)
  BY <1>4, UsbWell DEF RetuneCall
<1>5. CASE ControlCall(a)
  BY <1>5, UsbWell DEF ControlCall
<1>6. CASE ControlQueue(a)
  BY <1>6, UsbWell DEF ControlQueue
<1>7. CASE ControlEp0(a)
  BY <1>7, UsbWell DEF ControlEp0
<1> QED BY <1>1, <1>2, <1>3, <1>4, <1>5, <1>6, <1>7 DEF Begin

\* The device stays.
LEMMA NoneGone == ASSUME Undisturbed, IRun PROVE ~GoneStep /\ ~Reopen /\ ~Unplug
<1> USE DEF IRun, Seats, Well
<1>1. ~Reopen /\ ~Unplug
  BY DEF Reopen, Unplug, Undisturbed
<1>2. ~GoneStep
  BY DEF GoneStep, GoneEvent, GoneBegin, GoneTake, GoneIdle, GoneExpire, GoneGiveUp,
         GoneClose, GoneFinish, Client
<1> QED BY <1>1, <1>2

-----------------------------------------------------------------------------
(* The steps of a task in the window.                                       *)

\* What a task's own step may assume.
LEMMA OwnFacts ==
    ASSUME IRun, NEW t \in Worker
    PROVE  /\ t \in Task /\ t # "client" /\ Sits(t) /\ OpFits(pc[t], loc[t].op)
           /\ h \in Handle /\ pc \in [Task -> PCs] /\ loc \in [Task -> Locals]
           /\ usb \in Usb /\ h.dev
BY TaskNames DEF IRun, IInv, TypeOK, Seats, Well, OpsFit, Worker, Task

\* A drain knows at its end that no URB is left: the count is zero and exact.
LEMMA DrainSeats ==
    ASSUME IRun, OpsFit', NEW t \in Worker, Drain(t)
    PROVE  Seats'
<1> USE OwnFacts DEF Sits, InCall, OpFits, Handle, Locals
<1>2. Owning(t)
  BY DEF Drain, PollDone, PollExpire, PollGiveUp, PauseBulk, Owning, Holds, InWindow,
     Drains
<1>3. Frame(t) /\ SameStream(t) /\ loc'[t].op = loc[t].op
  BY DEF Drain, PollDone, PollExpire, PollGiveUp, PauseBulk, Goto, Frame, SameStream,
     Feeds, Incs
<1>4. Sits(t)'
  <2> USE DEF Drains, Incs, Loop
  <2>1. InCall(t)'
    BY DEF Drain, PollDone, PollExpire, PollGiveUp, PauseBulk, Goto
  <2>2. InPause(t)'
    BY DEF Drain, PollDone, PollExpire, PollGiveUp, PauseBulk, Goto, InPause, Stops
  <2>3. InStart(t)'
    <3> USE DEF InStart, Feeds, Setup
    <3>1. CASE PollDone(t)
      BY <3>1 DEF PollDone, Goto
    <3>2. CASE PollExpire(t) \/ PollGiveUp(t)
      <4>1. loc[t].op # "start"
        BY <3>2 DEF PollExpire, PollGiveUp, InBulk, Still
      <4> QED BY <3>2, <4>1 DEF PollExpire, PollGiveUp, Goto
    <3>3. CASE PauseBulk(t)
      BY <3>3 DEF PauseBulk, Goto
    <3> QED BY <3>1, <3>2, <3>3 DEF Drain
  <2>4. InBulk(t)'
    BY DEF Drain, PollDone, PollExpire, PollGiveUp, PauseBulk, Goto, InBulk, Submits, Still, Setup
  <2> QED BY <2>1, <2>2, <2>3, <2>4
<1>5. StreamFits'
  BY <1>3, SameStreamFits DEF IRun, Seats
<1> QED BY <1>2, <1>3, <1>4, <1>5, DrainWell, OwnerStep DEF IRun, IInv, SameStream

\* A resume has the stream to itself until it gives the window back.
LEMMA ResumeSeats ==
    ASSUME IRun, OpsFit', NEW t \in Worker, Resume(t)
    PROVE  Seats'
<1> USE OwnFacts DEF Sits, InCall, OpFits, Handle, Locals
<1>2. Owning(t)
  BY DEF Resume, ResumeBegin, ResumeSubmit, ResumeEnd, IncLoad, IncStore, Release, Owning,
     Holds, InWindow
<1>3. Frame(t)
  BY DEF Resume, ResumeBegin, ResumeSubmit, ResumeEnd, IncLoad, IncStore, Release, Goto,
     Clear, Frame
<1>4. loc'[t].op = "start" => loc[t].op = "start"
  BY DEF Resume, ResumeBegin, ResumeSubmit, ResumeEnd, IncLoad, IncStore, Release, Goto,
     Clear, Fresh
<1>5. h'.state = h.state /\ h'.streaming = h.streaming /\ h'.pool = h.pool
      /\ h'.iface = h.iface /\ h'.side = h.side
  BY DEF Resume, ResumeBegin, ResumeSubmit, ResumeEnd, IncLoad, IncStore, Release
<1>6. Feeds(t) => Feeds(t)'
  BY DEF Resume, ResumeBegin, ResumeSubmit, ResumeEnd, IncLoad, IncStore, Release, Goto,
     Clear, Feeds, Incs
<1>7. InCall(t)'
  BY DEF Resume, ResumeBegin, ResumeSubmit, ResumeEnd, IncLoad, IncStore, Release, Goto,
     Clear, Fresh, After, Loop, Drains, Incs
<1>8. InPause(t)'
  BY DEF Resume, ResumeBegin, ResumeSubmit, ResumeEnd, IncLoad, IncStore, Release, Goto,
     Clear, Fresh, After, InPause, Stops, Drains
<1>9. InStart(t)'
  <2>1. CASE loc[t].op = "start"
    <3>1. pc[t] \in Incs /\ loc'[t].op = "start" /\ pc'[t] \in {"inc_store", "st_submit"}
      BY <2>1 DEF Resume, ResumeBegin, ResumeSubmit, ResumeEnd, IncLoad, IncStore, Release,
         Goto, Incs
    <3>2. h' = h \/ h' = [h EXCEPT !.live = loc[t].tmp + 1]
      BY <2>1 DEF Resume, ResumeBegin, ResumeSubmit, ResumeEnd, IncLoad, IncStore, Release
    <3> QED BY <2>1, <3>1, <3>2 DEF InStart, Feeds, Setup, Drains, Incs
  <2>2. CASE loc[t].op # "start"
    <3>1. loc'[t].op # "start" /\ pc'[t] \notin Setup \cup {"st_arm", "fail_tail"}
      BY <1>4, <2>2 DEF Resume, ResumeBegin, ResumeSubmit, ResumeEnd, IncLoad, IncStore,
         Release, Goto, After, Setup
    <3> QED BY <3>1 DEF InStart, Feeds
  <2> QED BY <2>1, <2>2
<1>10. InBulk(t)'
  <2> USE DEF InBulk, Submits, Still, Setup, Drains, Incs
  <2>1. CASE ResumeBegin(t)
    <3>1. \/ pc'[t] = "release"
          \/ pc'[t] = "rs_submit" /\ ~h'.pause /\ h'.streaming = h.streaming
             /\ (loc'[t].idx = N + 1 \/ h.streaming)
      <4>1. CASE h.state = "FAULT" /\ loc[t].op # "recover"
        BY <2>1, <4>1 DEF ResumeBegin, Goto
      <4>2. CASE ~(h.state = "FAULT" /\ loc[t].op # "recover")
        <5>1. pc'[t] = "rs_submit" /\ (loc'[t].idx = N + 1 \/ h.streaming)
          BY <2>1, <4>2 DEF ResumeBegin, Goto
        <5>2. ~h'.pause /\ h'.streaming = h.streaming
          BY <2>1, <4>2 DEF ResumeBegin
        <5> QED BY <5>1, <5>2
      <4> QED BY <4>1, <4>2
    <3>2. N + 1 \notin Urbs
      BY UrbCount DEF Urbs
    <3> QED BY <3>1, <3>2
  <2>2. CASE ResumeSubmit(t)
    BY <2>2 DEF ResumeSubmit, Goto
  <2>3. CASE ResumeEnd(t)
    BY <2>3 DEF ResumeEnd, Goto, Clear, After, Fresh
  <2>4. CASE IncLoad(t)
    BY <2>4 DEF IncLoad, Goto
  <2>5. CASE IncStore(t)
    <3>1. Submits(t)
      BY <2>5 DEF IncStore
    <3> QED BY <2>5, <3>1 DEF IncStore, Goto
  <2>6. CASE Release(t)
    BY <2>6 DEF Release, Goto, Clear, After, Fresh
  <2> QED BY <2>1, <2>2, <2>3, <2>4, <2>5, <2>6 DEF Resume
<1>11. StreamFits'
  BY <1>3, <1>5, <1>6, SameStreamFits DEF IRun, Seats, SameStream
<1> QED BY <1>2, <1>3, <1>4, <1>5, <1>7, <1>8, <1>9, <1>10, <1>11, ResumeWell, OwnerStep
        DEF IRun, IInv

\* A stream that is given up keeps its pool and its interface.
LEMMA FaultFits ==
    ASSUME StreamFits, ~h'.streaming, h'.state # "STREAMING",
           h'.state # "IDLE" \/ ~h'.pool, h'.side => h.side, h'.iface = h.iface
    PROVE  StreamFits'
BY DEF StreamFits

\* Nobody starts while another task is busy.
LEMMA BusyRests ==
    ASSUME Seats, NEW t \in Worker, pc[t] \notin Loop \cup {"ready"}
    PROVE  Rests(t)
BY DEF Rests, Seats, StartsAlone, Worker

\* A retune: enters, takes a free window, drains and works on EP0.
LEMMA RetuneSeats ==
    ASSUME IRun, OpsFit', NEW t \in Worker, Retune(t)
    PROVE  Seats'
<1> USE OwnFacts DEF Sits, InCall, OpFits, Handle, Locals
<1>1. Frame(t)
  BY DEF Retune, RetuneEnter, RetuneTake, RetuneDrained, RetuneEp0, Goto, Clear, Frame
<1>2. loc'[t].op = "start" => loc[t].op = "start"
  BY DEF Retune, RetuneEnter, RetuneTake, RetuneDrained, RetuneEp0, Goto, Clear, Fresh
<1>3. InCall(t)'
  BY DEF Retune, RetuneEnter, RetuneTake, RetuneDrained, RetuneEp0, Goto, Clear, Fresh,
     After, Loop, Drains, Incs
<1>4. CASE RetuneEnter(t) \/ RetuneTake(t)
  <2>1. pc[t] \in {"rt_enter", "rt_take"} /\ loc[t].op = "retune"
    BY <1>4 DEF RetuneEnter, RetuneTake
  <2>2. Rests(t)
    BY <2>1, BusyRests DEF IRun, Loop
  <2>3. \/ h' = h
        \/ h' = [h EXCEPT !.busy = TRUE, !.retuneBusy = TRUE]
    BY <1>4 DEF RetuneEnter, RetuneTake
  <2>4. Light /\ SameStream(t)
    BY <2>1, <2>3 DEF Light, SameStream, Feeds, Incs
  <2>5. pc'[t] \in {"rt_take", "ready", "chk_side", "pause"}
        /\ (loc'[t].op = "retune" \/ loc'[t].op = "none")
    BY <1>4, <2>1 DEF RetuneEnter, RetuneTake, Goto, Clear, Fresh, After
  <2>6. InPause(t)'
    BY <2>5 DEF InPause, Stops, Drains
  <2>7. InStart(t)'
    BY <2>5 DEF InStart, Feeds, Setup, Drains, Incs
  <2>8. InBulk(t)'
    BY <2>5 DEF InBulk, Submits, Still, Setup, Drains, Incs
  <2>9. StreamFits'
    BY <1>1, <2>4, SameStreamFits DEF IRun, Seats
  <2> QED BY <1>1, <1>2, <1>3, <2>2, <2>4, <2>6, <2>7, <2>8, <2>9, RetuneWell, LightStep
          DEF IRun, IInv
<1>5. CASE RetuneDrained(t)
  <2>1. Owning(t)
    BY <1>5 DEF RetuneDrained, Owning, Holds, InWindow
  <2>2. SameStream(t)
    BY <1>5 DEF RetuneDrained, SameStream, Feeds
  <2>3. InPause(t)'
    BY <1>5 DEF RetuneDrained, Goto, InPause, Stops, Drains
  <2>4. InStart(t)'
    BY <1>5 DEF RetuneDrained, Goto, InStart, Feeds, Setup, Drains, Incs
  <2>5. InBulk(t)'
    BY <1>5 DEF RetuneDrained, Goto, InBulk, Submits, Still, Setup, Drains, Incs
  <2>6. StreamFits'
    BY <1>1, <2>2, SameStreamFits DEF IRun, Seats
  <2> QED BY <1>1, <1>2, <1>3, <2>1, <2>2, <2>3, <2>4, <2>5, <2>6, RetuneWell, OwnerStep
          DEF IRun, IInv, SameStream
<1>6. CASE RetuneEp0(t)
  <2>1. Owning(t) /\ pc[t] = "ep0" /\ loc[t].op = "retune" /\ loc' = loc
        /\ pc' = [pc EXCEPT ![t] = "resume"]
    BY <1>6 DEF RetuneEp0, Owning, Holds, InWindow, Goto
  <2>2. /\ h'.iface = h.iface /\ h'.pool = h.pool /\ (h'.side => h.side)
        /\ h'.live = h.live
        /\ \/ h'.streaming = h.streaming /\ h'.state = h.state
           \/ ~h'.streaming /\ h'.state = "FAULT"
    BY <1>6 DEF RetuneEp0
  <2>3. InPause(t)'
    BY <2>1, <2>2 DEF InPause, Stops, Drains
  <2>4. InStart(t)'
    BY <2>1, <2>2 DEF InStart, Feeds, Setup, Drains, Incs
  <2>5. InBulk(t)'
    BY <2>1, <2>2 DEF InBulk, Submits, Still, Setup, Drains, Incs
  <2>6. StreamFits'
    <3>1. CASE h'.streaming = h.streaming /\ h'.state = h.state
      BY <1>1, <2>1, <2>2, <3>1, SameStreamFits DEF IRun, Seats, SameStream, Feeds
    <3>2. CASE ~h'.streaming /\ h'.state = "FAULT"
      BY <2>2, <3>2, FaultFits DEF IRun, Seats
    <3> QED BY <2>2, <3>1, <3>2
  <2> QED BY <1>1, <1>2, <1>3, <2>1, <2>2, <2>3, <2>4, <2>5, <2>6, RetuneWell, OwnerStep
          DEF IRun, IInv
<1> QED BY <1>4, <1>5, <1>6 DEF Retune

\* The delivery task stays in its loop while a stream starts.
LEMMA OwnRests ==
    ASSUME IRun, CheckStall \/ CheckRetune \/ CheckSide \/ Emit
    PROVE  Rests("delivery")
<1> SUFFICES ASSUME NEW a \in App, loc[a].op = "start" PROVE pc'["delivery"] \in Loop
  BY DEF Rests
<1> USE OwnFacts DEF Worker, Loop
<1>1. ~(h.streaming /\ h.pend # NoFreq) /\ ~(h.streaming /\ h.side)
  BY DEF Sits, InStart
<1>2. ~h.stall
  BY DEF IRun, Seats, Well
<1>3. CASE CheckStall
  BY <1>2, <1>3 DEF CheckStall, DeliveryStep, Goto
<1>4. CASE CheckRetune
  BY <1>1, <1>4 DEF CheckRetune, DeliveryStep, Goto
<1>5. CASE CheckSide
  BY <1>1, <1>5 DEF CheckSide, DeliveryStep, Goto
<1>6. CASE Emit
  BY <1>6 DEF Emit, Goto
<1> QED BY <1>3, <1>4, <1>5, <1>6

\* The delivery task between calls relies on nothing.
LEMMA CheckSeats ==
    ASSUME IRun, OpsFit', CheckStall \/ CheckRetune \/ CheckSide \/ Emit
    PROVE  Seats'
<1> DEFINE d == "delivery"
<1>1. d \in Worker
  BY DEF Worker
<1> USE <1>1, OwnFacts DEF Sits, InCall, OpFits, Handle, Locals
<1>2. ~h.stall
  BY DEF IRun, Seats, Well
<1>3. Frame(d)
  BY DEF CheckStall, CheckRetune, CheckSide, Emit, DeliveryStep, Goto, Frame
<1>4. /\ pc[d] \in Loop /\ loc[d].op = "none"
      /\ \/ pc'[d] \in Loop /\ loc'[d] = loc[d]
         \/ pc'[d] = "rt_enter" /\ loc'[d].op = "retune"
         \/ pc'[d] = "sb_enter" /\ loc'[d].op = "side"
  <2>1. pc[d] \in Loop
    BY DEF CheckStall, CheckRetune, CheckSide, Emit, DeliveryStep, Loop
  <2>2. CASE CheckStall
    BY <1>2, <2>1, <2>2 DEF CheckStall, DeliveryStep, Goto, Loop
  <2>3. CASE CheckRetune
    BY <2>1, <2>3 DEF CheckRetune, DeliveryStep, Goto, Loop
  <2>4. CASE CheckSide
    BY <2>1, <2>4 DEF CheckSide, DeliveryStep, Goto, Loop
  <2>5. CASE Emit
    BY <2>1, <2>5 DEF Emit, Goto, Loop
  <2> QED BY <2>2, <2>3, <2>4, <2>5
<1>5. /\ h'.state = h.state /\ h'.streaming = h.streaming /\ h'.pool = h.pool
      /\ h'.iface = h.iface /\ h'.side = h.side /\ h'.pause = h.pause /\ h'.live = h.live
      /\ h'.pend = h.pend \/ h.state = "STREAMING"
  BY DEF CheckStall, CheckRetune, CheckSide, Emit, DeliveryStep
<1>6. ASSUME NEW a \in Worker, loc[a].op = "start" PROVE h.state # "STREAMING"
  BY <1>6 DEF InStart
<1>7. Light
  BY <1>5, <1>6 DEF Light
<1>8. StreamFits'
  BY <1>3, <1>4, <1>5, SameStreamFits DEF IRun, Seats, SameStream, Feeds, Incs, Loop
<1>9. InCall(d)'
  BY <1>4 DEF Loop, Drains, Incs
<1>10. ~Owning(d)'
  BY <1>4 DEF Owning, Holds, InWindow, Loop
<1>11. Sits(d)'
  BY <1>9, <1>10, BystanderNext DEF OpsFit
<1>12. "delivery" \notin App
  BY TaskNames
<1> QED BY <1>3, <1>7, <1>8, <1>11, <1>12, OwnRests, OwnWell, LightStep DEF IRun, IInv

\* Queued setters, applied by the delivery task as a retune is.
LEMMA SideSeats ==
    ASSUME IRun, OpsFit', SideEnter \/ SideDrained \/ SideEp0
    PROVE  Seats'
<1> DEFINE d == "delivery"
<1>1. d \in Worker /\ d \notin App
  BY TaskNames DEF Worker
<1> USE <1>1, OwnFacts DEF Sits, InCall, OpFits, Handle, Locals
<1>2. Frame(d)
  BY DEF SideEnter, SideDrained, SideEp0, Goto, Clear, Frame
<1>3. loc'[d].op \in {loc[d].op, "none"}
  BY DEF SideEnter, SideDrained, SideEp0, Clear, Fresh
<1>4. InCall(d)'
  BY DEF SideEnter, SideDrained, SideEp0, Goto, Clear, Fresh, Loop, Drains, Incs
<1>5. CASE SideEnter
  <2>1. pc[d] = "sb_enter" /\ loc[d].op = "side"
    BY <1>5 DEF SideEnter
  <2>2. Rests(d)
    BY <2>1, BusyRests DEF IRun, Loop
  <2>3. h' = h \/ h' = [h EXCEPT !.busy = TRUE, !.side = FALSE]
    BY <1>5 DEF SideEnter
  <2>4. Light /\ SameStream(d)
    BY <2>1, <2>3 DEF Light, SameStream, Feeds
  <2>5. \/ pc'[d] = "emit" /\ loc'[d].op = "none"
        \/ pc'[d] = "pause" /\ loc'[d].op = "side" /\ h'.streaming
    <3>1. CASE h.streaming /\ ~h.busy /\ h.side
      <4>1. pc'[d] = "pause" /\ loc' = loc
        BY <1>5, <3>1 DEF SideEnter, Goto
      <4> QED BY <2>1, <2>4, <3>1, <4>1 DEF SameStream
    <3>2. CASE ~(h.streaming /\ ~h.busy /\ h.side)
      BY <1>5, <3>2 DEF SideEnter, Goto, Clear, Fresh
    <3> QED BY <3>1, <3>2
  <2>6. InPause(d)'
    BY <2>5 DEF InPause, Stops, Drains
  <2>7. InStart(d)'
    BY <2>5 DEF InStart, Feeds, Setup, Drains, Incs
  <2>8. InBulk(d)'
    BY <2>5 DEF InBulk, Submits, Still, Setup, Drains, Incs
  <2>9. StreamFits'
    BY <1>2, <2>4, SameStreamFits DEF IRun, Seats
  <2> QED BY <1>2, <1>4, <1>5, <2>2, <2>4, <2>6, <2>7, <2>8, <2>9, OwnWell, LightStep
          DEF IRun, IInv
<1>6. CASE SideDrained
  <2>1. Owning(d) /\ pc[d] = "drained" /\ loc[d].op = "side" /\ loc' = loc
        /\ pc'[d] = IF loc[d].ok THEN "ep0" ELSE "release"
    BY <1>6 DEF SideDrained, Owning, Holds, InWindow, Goto
  <2>2. h.streaming /\ h.pause /\ (loc[d].ok => h.live = 0)
    BY <2>1 DEF InPause, InBulk, Still, Drains
  <2>3. /\ h'.iface = h.iface /\ h'.pool = h.pool /\ h'.live = h.live
        /\ h'.streaming = h.streaming /\ h'.state = h.state /\ h'.pause = h.pause
    BY <1>6 DEF SideDrained
  <2>4. InPause(d)'
    BY <2>1, <2>2, <2>3 DEF InPause, Stops, Drains
  <2>5. InStart(d)'
    BY <2>1, <2>2, <2>3 DEF InStart, Feeds, Setup, Drains, Incs
  <2>6. InBulk(d)'
    BY <2>1, <2>2, <2>3 DEF InBulk, Submits, Still, Setup, Drains, Incs
  <2>7. ASSUME NEW a \in App PROVE Feeds(a)' <=> Feeds(a)
    BY <1>2 DEF Frame, Feeds, Task
  <2>8. StreamFits'
    BY <2>2, <2>3, <2>7 DEF IRun, Seats, StreamFits
  <2> QED BY <1>2, <1>3, <1>4, <1>6, <2>1, <2>3, <2>4, <2>5, <2>6, <2>8, OwnWell, OwnerStep
          DEF IRun, IInv
<1>7. CASE SideEp0
  <2>1. Owning(d) /\ pc[d] = "ep0" /\ loc[d].op = "side" /\ loc' = loc
        /\ pc' = [pc EXCEPT ![d] = "resume"]
    BY <1>7 DEF SideEp0, Owning, Holds, InWindow, Goto
  <2>2. /\ h'.iface = h.iface /\ h'.pool = h.pool /\ (h'.side => h.side)
        /\ h'.live = h.live
        /\ \/ h'.streaming = h.streaming /\ h'.state = h.state
           \/ ~h'.streaming /\ h'.state = "FAULT"
    BY <1>7 DEF SideEp0
  <2>3. InPause(d)'
    BY <2>1, <2>2 DEF InPause, Stops, Drains
  <2>4. InStart(d)'
    BY <2>1, <2>2 DEF InStart, Feeds, Setup, Drains, Incs
  <2>5. InBulk(d)'
    BY <2>1, <2>2 DEF InBulk, Submits, Still, Setup, Drains, Incs
  <2>6. StreamFits'
    <3>1. CASE h'.streaming = h.streaming /\ h'.state = h.state
      BY <1>2, <2>1, <2>2, <3>1, SameStreamFits DEF IRun, Seats, SameStream, Feeds
    <3>2. CASE ~h'.streaming /\ h'.state = "FAULT"
      BY <2>2, <3>2, FaultFits DEF IRun, Seats
    <3> QED BY <2>2, <3>1, <3>2
  <2> QED BY <1>2, <1>3, <1>4, <1>7, <2>1, <2>2, <2>3, <2>4, <2>5, <2>6, OwnWell, OwnerStep
          DEF IRun, IInv
<1> QED BY <1>5, <1>6, <1>7

-----------------------------------------------------------------------------
(* The steps of a stop, which a failing start takes too.                    *)

\* A failing start finds the window free.
LEMMA StartFindsFree ==
    ASSUME IRun, NEW a \in App, pc[a] = "sp_take", loc[a].op = "start"
    PROVE  ~h.busy
<1>1. ASSUME NEW u \in Task, Holds(u) PROVE FALSE
  <2>1. a \in Worker /\ Owning(a) /\ ~Holds(a)
    BY TaskNames DEF Worker, Owning, Holds, InWindow
  <2>2. u # "client"
    BY <1>1 DEF Holds, InWindow, IRun, IInv, OpsFit, ClientPlaces, Task, Seats, Well
  <2>3. u \in Worker /\ Owning(u)
    BY <1>1, <2>2 DEF Task, Worker, Owning
  <2> QED BY <1>1, <2>1, <2>3, OneOwner DEF IRun, IInv
<1> QED BY <1>1 DEF IRun, IInv, WindowExclusive

\* A stop takes the window ...
LEMMA StopTakeSeats ==
    ASSUME IRun, OpsFit', NEW a \in App, StopTake(a)
    PROVE  Seats'
<1>1. a \in Worker
  BY DEF Worker
<1> USE <1>1, OwnFacts DEF Sits, InCall, OpFits, Handle, Locals
<1>2. Frame(a) /\ pc[a] = "sp_take" /\ (loc[a].op = "start" \/ loc[a].op = "stop")
  BY DEF StopTake, StopReturn, Goto, ClearIf, Frame
<1>3. \/ /\ pc'[a] = "sp_mark" /\ loc'[a].op = loc[a].op
         /\ h' = [h EXCEPT !.busy = TRUE]
      \/ pc'[a] = "ready" /\ loc'[a].op = "none" /\ h' = h /\ loc[a].op = "stop"
  <2>1. CASE loc[a].op = "start"
    <3>1. ~h.busy
      BY <1>2, <2>1, StartFindsFree
    <3> QED BY <3>1 DEF StopTake, Goto
  <2>2. CASE loc[a].op = "stop"
    BY <2>2 DEF StopTake, Goto, StopReturn, ClearIf, Fresh
  <2> QED BY <1>2, <2>1, <2>2
<1>4. InCall(a)'
  BY <1>2, <1>3 DEF Loop, Drains, Incs
<1>5. InPause(a)'
  BY <1>3 DEF InPause, Stops, Drains
<1>6. InStart(a)'
  BY <1>2, <1>3 DEF InStart, Feeds, Setup, Drains, Incs
<1>7. InBulk(a)'
  BY <1>2, <1>3 DEF InBulk, Submits, Still, Setup, Drains, Incs
<1>8. h'.live = h.live /\ h'.pend = h.pend /\ h'.pause = h.pause /\ SameStream(a)
  BY <1>2, <1>3 DEF SameStream, Feeds, Incs
<1>9. Light
  BY <1>8 DEF Light, SameStream
<1>10. StreamFits'
  BY <1>2, <1>8, SameStreamFits DEF IRun, Seats
<1>11. Rests(a) /\ (loc'[a].op = "start" => loc[a].op = "start")
  BY <1>2, <1>3, BusyRests DEF IRun, Loop
<1>12. Well'
  BY StopWell DEF Stop
<1> QED BY <1>2, <1>4, <1>5, <1>6, <1>7, <1>9, <1>10, <1>11, <1>12, LightStep DEF IRun, IInv

\* ... ends the stream, which from here on only a start can begin ...
LEMMA StopMarkSeats ==
    ASSUME IRun, OpsFit', NEW a \in App, StopMark(a)
    PROVE  Seats'
<1>1. a \in Worker
  BY DEF Worker
<1> USE <1>1, OwnFacts DEF Sits, InCall, OpFits, Handle, Locals
<1>2. Frame(a) /\ pc[a] = "sp_mark" /\ pc'[a] = "poll" /\ loc' = loc
      /\ (loc[a].op = "start" \/ loc[a].op = "stop")
  BY DEF StopMark, Goto, Frame
<1>3. /\ h'.state = "STOPPING" /\ ~h'.streaming /\ ~h'.side /\ h'.live = h.live
      /\ h'.iface = h.iface
  BY DEF StopMark
<1>4. InCall(a)'
  BY <1>2 DEF Loop, Drains, Incs
<1>5. InPause(a)'
  BY <1>2, <1>3 DEF InPause, Stops, Drains
<1>6. InStart(a)'
  BY <1>2, <1>3 DEF InStart, Feeds, Setup, Drains, Incs
<1>7. InBulk(a)'
  BY <1>2, <1>3 DEF InBulk, Submits, Still, Setup, Drains, Incs
<1>8. Owning(a)
  BY <1>2 DEF Owning, Holds, InWindow
<1>9. StreamFits'
  BY <1>3, FaultFits DEF IRun, Seats
<1>10. Well'
  BY StopWell DEF Stop
<1> QED BY <1>2, <1>3, <1>4, <1>5, <1>6, <1>7, <1>8, <1>9, <1>10, OwnerStep DEF IRun, IInv

\* ... and either knows that all URBs are back or gives up with the pool kept ...
LEMMA StopDrainedSeats ==
    ASSUME IRun, OpsFit', NEW a \in App, StopDrained(a)
    PROVE  Seats'
<1>1. a \in Worker
  BY DEF Worker
<1> USE <1>1, OwnFacts DEF Sits, InCall, OpFits, Handle, Locals
<1>2. Frame(a) /\ pc[a] = "drained" /\ (loc[a].op = "start" \/ loc[a].op = "stop")
      /\ Stops(a)
  BY DEF StopDrained, StopReturn, Goto, ClearIf, Frame, Stops, Drains
<1>3. \/ /\ pc'[a] = "sp_ep0" /\ loc' = loc /\ h'.live = 0 /\ h'.state = h.state
      \/ pc'[a] = "ready" /\ loc'[a].op = "none" /\ loc[a].op = "stop"
         /\ h'.state = "FAULT"
  <2>1. CASE loc[a].ok
    BY <2>1 DEF StopDrained, Goto
  <2>2. CASE ~loc[a].ok
    <3>1. loc[a].op = "stop"
      BY <1>2, <2>2 DEF InStart
    <3>2. h'.state = "FAULT" /\ StopReturn(a)
      BY <2>2 DEF StopDrained
    <3> QED BY <3>1, <3>2 DEF StopReturn, Goto, ClearIf, Fresh
  <2> QED BY <2>1, <2>2
<1>4. ~h.streaming /\ ~h.side
  BY <1>2 DEF InPause
<1>5. h'.streaming = h.streaming /\ h'.side = h.side /\ h'.pool = h.pool /\ h'.iface = h.iface
  BY DEF StopDrained
<1>6. InCall(a)'
  BY <1>2, <1>3 DEF Loop, Drains, Incs
<1>7. InPause(a)'
  BY <1>3, <1>4, <1>5 DEF InPause, Stops, Drains
<1>8. InStart(a)'
  BY <1>2, <1>3, <1>4, <1>5 DEF InStart, Feeds, Setup, Drains, Incs
<1>9. InBulk(a)'
  BY <1>2, <1>3 DEF InBulk, Submits, Still, Setup, Drains, Incs
<1>10. Owning(a)
  BY <1>2 DEF Owning, Holds, InWindow
<1>11. StreamFits'
  BY <1>3, <1>4, <1>5 DEF IRun, Seats, StreamFits
<1>12. Well'
  BY StopWell DEF Stop
<1> QED BY <1>2, <1>3, <1>5, <1>6, <1>7, <1>8, <1>9, <1>10, <1>11, <1>12, OwnerStep
        DEF IRun, IInv

\* No setter is between its check and its queueing when a stop gives the
\* interface back.
LEMMA StopCleanupSeats ==
    ASSUME Undisturbed, IRun, OpsFit', NEW a \in App, StopCleanup(a)
    PROVE  Seats'
<1>1. a \in Worker
  BY DEF Worker
<1> USE <1>1, OwnFacts DEF Sits, InCall, OpFits, Handle, Locals
<1>2. Frame(a) /\ pc[a] = "sp_ep0" /\ pc'[a] = "sp_free" /\ loc' = loc
      /\ (loc[a].op = "start" \/ loc[a].op = "stop")
  BY DEF StopCleanup, Goto, Frame
<1>3. Owning(a) /\ Stops(a)
  BY <1>2 DEF Owning, Holds, InWindow, Stops
<1>4. ~h.streaming /\ ~h.side /\ h.live = 0
  BY <1>2, <1>3 DEF InPause, InBulk, Still
<1>5. /\ h'.streaming = h.streaming /\ h'.side = h.side /\ h'.live = h.live
      /\ h'.pool = h.pool /\ h'.state = h.state
  BY DEF StopCleanup
<1>6. ASSUME NEW u \in Worker, u # a, pc[u] = "ct_queue" PROVE FALSE
  <2>1. u \in App /\ "control" \in Ops[u]
    BY <1>6 DEF Worker
  <2>2. loc[a].op # "stop"
    BY <1>6, <2>1 DEF Undisturbed, SettersApart
  <2>3. loc[a].op # "start"
    BY <1>6, <2>1 DEF IRun, Seats, StartsAlone
  <2> QED BY <1>2, <2>2, <2>3
<1>7. InCall(a)'
  BY <1>2 DEF Loop, Drains, Incs
<1>8. InPause(a)'
  BY <1>2, <1>4, <1>5 DEF InPause, Stops, Drains
<1>9. InStart(a)'
  BY <1>2, <1>4, <1>5 DEF InStart, Feeds, Setup, Drains, Incs
<1>10. InBulk(a)'
  BY <1>2, <1>4, <1>5 DEF InBulk, Submits, Still, Setup, Drains, Incs
<1>11. StreamFits'
  BY <1>4, <1>5 DEF IRun, Seats, StreamFits
<1>12. Well'
  BY StopWell DEF Stop
<1> QED BY <1>2, <1>3, <1>6, <1>7, <1>8, <1>9, <1>10, <1>11, <1>12, OwnerStep DEF IRun, IInv

\* ... and frees the pool and leaves.
LEMMA StopFreeSeats ==
    ASSUME IRun, OpsFit', NEW a \in App, StopFree(a)
    PROVE  Seats'
<1>1. a \in Worker
  BY DEF Worker
<1> USE <1>1, OwnFacts DEF Sits, InCall, OpFits, Handle, Locals
<1>2. Frame(a) /\ pc[a] = "sp_free" /\ (loc[a].op = "start" \/ loc[a].op = "stop")
  BY DEF StopFree, StopReturn, Goto, ClearIf, Frame
<1>3. Owning(a) /\ Stops(a)
  BY <1>2 DEF Owning, Holds, InWindow, Stops
<1>4. ~h.streaming /\ ~h.side /\ h.live = 0
  BY <1>2, <1>3 DEF InPause, InBulk, Still
<1>5. /\ h'.streaming = h.streaming /\ h'.side = h.side /\ h'.live = h.live
      /\ ~h'.pool /\ h'.state = "IDLE" /\ h'.iface = h.iface
  <2>1. ~(h.live > 0)
    BY <1>4
  <2> QED BY <2>1 DEF StopFree
<1>6. \/ pc'[a] = "fail_tail" /\ loc'[a].op = "start" /\ loc[a].op = "start"
      \/ pc'[a] = "ready" /\ loc'[a].op = "none"
  BY <1>2 DEF StopFree, StopReturn, Goto, ClearIf, Fresh
<1>7. InCall(a)'
  BY <1>6 DEF Loop, Drains, Incs
<1>8. InPause(a)'
  BY <1>4, <1>5, <1>6 DEF InPause, Stops, Drains
<1>9. InStart(a)'
  BY <1>4, <1>5, <1>6 DEF InStart, Feeds, Setup, Drains, Incs
<1>10. InBulk(a)'
  BY <1>4, <1>5, <1>6 DEF InBulk, Submits, Still, Setup, Drains, Incs
<1>11. StreamFits'
  BY <1>4, <1>5 DEF IRun, Seats, StreamFits
<1>12. Well'
  BY StopWell DEF Stop
<1> QED BY <1>2, <1>3, <1>5, <1>6, <1>7, <1>8, <1>9, <1>10, <1>11, <1>12, OwnerStep
        DEF IRun, IInv

-----------------------------------------------------------------------------
(* The steps of a start.                                                    *)

\* A start that fails before it submits leaves its cleanup to the stop.
LEMMA FailingSits ==
    ASSUME IRun, NEW a \in App, NEW isUsb, StartFails(a, isUsb), loc[a].op = "start",
           h'.state = "STARTING", ~h'.streaming, h'.live = 0
    PROVE  Frame(a) /\ loc'[a].op = "start" /\ Sits(a)'
<1>1. a \in Worker
  BY DEF Worker
<1> USE <1>1, OwnFacts DEF Handle, Locals
<1>2. Frame(a) /\ loc'[a].op = "start" /\ pc'[a] = "sp_take"
  BY TaskNames DEF StartFails, Goto, Frame, Fresh
<1>3. InCall(a)'
  BY <1>2, TaskNames DEF InCall, Loop, Drains, Incs
<1>4. InPause(a)' /\ InStart(a)' /\ InBulk(a)'
  BY <1>2 DEF InPause, Stops, InStart, Feeds, InBulk, Submits, Still, Setup, Drains, Incs
<1> QED BY <1>2, <1>3, <1>4 DEF Sits

\* What a start knows before it has armed the stream.
LEMMA UnfedFacts ==
    ASSUME IRun, NEW a \in App, pc[a] \in Setup \cup {"st_claim", "fail_tail"}
    PROVE  /\ loc[a].op = "start" /\ Owning(a) /\ ~h.streaming /\ h.live = 0
           /\ pc[a] # "fail_tail" => h.state = "STARTING"
<1>1. a \in Worker
  BY DEF Worker
<1> QED BY <1>1, OwnFacts DEF OpFits, Setup, Sits, InStart, Feeds, Incs, Drains, InBulk,
        Still, Owning

\* A start, step by step; it is alone, so only its own seat matters.
LEMMA StartClaimSeats ==
    ASSUME IRun, OpsFit', NEW a \in App, StartClaim(a)
    PROVE  Seats'
<1>1. a \in Worker /\ a # "delivery"
  BY TaskNames DEF Worker
<1> USE <1>1, OwnFacts DEF Handle, Locals
<1>2. pc[a] = "st_claim" /\ loc[a].op = "start" /\ Owning(a) /\ ~h.streaming /\ h.live = 0
      /\ h.state = "STARTING"
  BY UnfedFacts DEF StartClaim
<1>3. Well'
  BY StartWell DEF Start
<1>4. CASE Ep0Works /\ ~h.iface /\ h' = [h EXCEPT !.iface = TRUE] /\ Goto(a, "st_ep0")
           /\ loc' = loc
  <2>1. Frame(a) /\ pc'[a] = "st_ep0"
    BY <1>4 DEF Goto, Frame
  <2>2. /\ h'.iface /\ ~h'.side /\ ~h'.streaming /\ h'.live = 0 /\ h'.state = h.state
        /\ h'.pool = h.pool
    BY <1>2, <1>4 DEF IRun, Seats, StreamFits
  <2>3. InCall(a)'
    BY <1>2, <1>4, <2>1 DEF Sits, InCall, Loop, Drains, Incs
  <2>4. InPause(a)' /\ InStart(a)' /\ InBulk(a)'
    BY <1>2, <1>4, <2>1, <2>2 DEF InPause, Stops, InStart, Feeds, InBulk, Submits, Still,
       Setup, Drains, Incs
  <2>5. StreamFits'
    BY <1>2, <2>2 DEF IRun, Seats, StreamFits
  <2> QED BY <1>2, <1>3, <2>1, <2>2, <2>3, <2>4, <2>5, OwnerStep DEF IRun, IInv, Sits
<1>5. CASE StartFails(a, TRUE) /\ h' = h
  <2>1. Frame(a) /\ loc'[a].op = "start" /\ Sits(a)'
    BY <1>2, <1>5, FailingSits
  <2>2. StreamFits'
    BY <1>2, <1>5 DEF IRun, Seats, StreamFits
  <2> QED BY <1>2, <1>3, <1>5, <2>1, <2>2, OwnerStep DEF IRun, IInv
<1> QED BY <1>4, <1>5 DEF StartClaim

\* Tables, rate and tuner change nothing here, or fail.
LEMMA StartEp0Seats ==
    ASSUME IRun, OpsFit', NEW a \in App, StartEp0(a)
    PROVE  Seats'
<1>1. a \in Worker /\ a # "delivery"
  BY TaskNames DEF Worker
<1> USE <1>1, OwnFacts DEF Handle, Locals
<1>2. pc[a] = "st_ep0" /\ loc[a].op = "start" /\ Owning(a) /\ ~h.streaming /\ h.live = 0
      /\ h.state = "STARTING" /\ h.iface /\ ~h.side
  BY UnfedFacts DEF StartEp0, Setup, Sits, InStart
<1>3. Well'
  BY StartWell DEF Start
<1>4. StreamFits'
  BY <1>2 DEF IRun, Seats, StreamFits, StartEp0
<1>5. CASE Goto(a, "st_alloc") /\ loc' = loc /\ h' = h
  <2>1. Frame(a) /\ pc'[a] = "st_alloc"
    BY <1>5 DEF Goto, Frame
  <2>2. InCall(a)'
    BY <1>2, <1>5, <2>1 DEF Sits, InCall, Loop, Drains, Incs
  <2>3. InPause(a)' /\ InStart(a)' /\ InBulk(a)'
    BY <1>2, <1>5, <2>1 DEF InPause, Stops, InStart, Feeds, InBulk, Submits, Still,
       Setup, Drains, Incs
  <2> QED BY <1>2, <1>3, <1>4, <1>5, <2>1, <2>2, <2>3, OwnerStep DEF IRun, IInv, Sits
<1>6. ASSUME NEW x \in BOOLEAN, StartFails(a, x), h' = h PROVE Seats'
  <2>1. Frame(a) /\ loc'[a].op = "start" /\ Sits(a)'
    BY <1>2, <1>6, FailingSits
  <2> QED BY <1>2, <1>3, <1>4, <1>6, <2>1, OwnerStep DEF IRun, IInv
<1> QED BY <1>5, <1>6 DEF StartEp0

\* No URB is out, so there is nothing to reclaim.
LEMMA StartAllocSeats ==
    ASSUME IRun, OpsFit', NEW a \in App, StartAlloc(a) \/ AllocDrained(a) \/ StartFreeOld(a)
    PROVE  Seats'
<1>1. a \in Worker /\ a # "delivery"
  BY TaskNames DEF Worker
<1> USE <1>1, OwnFacts DEF Handle, Locals
<1>2. ~AllocDrained(a)
  BY DEF AllocDrained, Sits, InCall
<1>3. pc[a] \in {"st_alloc", "st_free"} /\ loc[a].op = "start" /\ Owning(a) /\ ~h.streaming
      /\ h.live = 0 /\ h.state = "STARTING" /\ h.iface /\ ~h.side
  BY <1>2, UnfedFacts DEF StartAlloc, StartFreeOld, Setup, Sits, InStart
<1>4. Well'
  BY <1>2, StartWell DEF Start
<1>5. /\ h'.iface /\ ~h'.side /\ ~h'.streaming /\ h'.live = 0 /\ h'.state = h.state
      /\ pc'[a] \in {"st_free", "st_pool"} /\ loc' = loc /\ Frame(a)
  <2>1. ~(h.live > 0)
    BY <1>3
  <2>2. CASE StartAlloc(a)
    BY <1>3, <2>1, <2>2 DEF StartAlloc, Goto, Frame
  <2>3. CASE StartFreeOld(a)
    <3>1. Goto(a, "st_pool") /\ loc' = loc
      BY <2>1, <2>3 DEF StartFreeOld
    <3>2. /\ h'.iface /\ ~h'.side /\ ~h'.streaming /\ h'.live = 0 /\ h'.state = h.state
      BY <1>3, <2>3 DEF StartFreeOld
    <3> QED BY <3>1, <3>2 DEF Goto, Frame
  <2> QED BY <1>2, <2>2, <2>3
<1>6. InCall(a)'
  BY <1>3, <1>5 DEF Sits, InCall, Loop, Drains, Incs
<1>7. InPause(a)' /\ InStart(a)' /\ InBulk(a)'
  BY <1>3, <1>5 DEF InPause, Stops, InStart, Feeds, InBulk, Submits, Still, Setup, Drains, Incs
<1>8. StreamFits'
  BY <1>3, <1>5 DEF StreamFits
<1> QED BY <1>3, <1>4, <1>5, <1>6, <1>7, <1>8, OwnerStep DEF IRun, IInv, Sits

\* The first start also creates the delivery task.
LEMMA StartPoolSeats ==
    ASSUME IRun, OpsFit', NEW a \in App, StartPool(a)
    PROVE  Seats'
<1>1. a \in Worker /\ a # "delivery" /\ "delivery" \in Worker
  BY TaskNames DEF Worker
<1> USE <1>1, OwnFacts DEF Handle, Locals
<1>2. pc[a] = "st_pool" /\ loc[a].op = "start" /\ Owning(a) /\ ~h.streaming
      /\ h.live = 0 /\ h.state = "STARTING" /\ h.iface /\ ~h.side
  BY UnfedFacts DEF StartPool, Setup, Sits, InStart
<1>3. Well'
  BY StartWell DEF Start
<1>4. h'.iface /\ ~h'.side /\ ~h'.streaming /\ h'.live = 0 /\ h'.state = h.state
      /\ (h' = h \/ h'.pool)
  BY <1>2 DEF StartPool
<1>5. StreamFits'
  BY <1>2, <1>4 DEF StreamFits
<1>6. CASE /\ h' = [h EXCEPT !.pool = TRUE] /\ loc' = loc
           /\ pc' = [pc EXCEPT ![a] = "st_arm",
                               !["delivery"] = IF @ = "none" THEN "top" ELSE @]
  <2>1. /\ pc'[a] = "st_arm" /\ \A u \in Worker \ {a, "delivery"} : pc'[u] = pc[u]
        /\ pc'["delivery"] \in {pc["delivery"], "top"}
    BY <1>6
  <2>2. InCall(a)'
    BY <1>2, <1>6, <2>1 DEF Sits, InCall, Loop, Drains, Incs
  <2>3. InPause(a)' /\ InStart(a)' /\ InBulk(a)'
    BY <1>2, <1>4, <1>6, <2>1 DEF InPause, Stops, InStart, Feeds, InBulk, Submits, Still,
       Setup, Drains, Incs
  <2>4. ASSUME NEW u \in Worker \ {a, "delivery"} PROVE Sits(u)'
    <3>1. ~Owning(u) /\ loc[u].op # "start"
      BY <1>2, OneOwner DEF IRun, IInv, Owning
    <3>2. Rely(u)
      BY <1>2, <1>4, <1>6, <2>1, <3>1 DEF Rely
    <3> QED BY <3>2, RelyKeeps DEF IRun, IInv
  <2>5. pc["delivery"] \in Loop /\ \A b \in App \ {a} : pc[b] = "ready"
    BY <1>2 DEF IRun, Seats, StartsAlone
  <2>6. pc'["delivery"] \in Loop /\ loc'["delivery"].op = "none"
    BY <1>6, <2>1, <2>5 DEF Loop, Sits, InCall
  <2>7. Sits("delivery")'
    <3>1. InCall("delivery")'
      BY <2>6 DEF InCall, Loop, Drains, Incs
    <3>2. ~Owning("delivery")'
      BY <2>6 DEF Owning, Holds, InWindow, Loop
    <3> QED BY <3>1, <3>2, BystanderNext DEF OpsFit
  <2>8. StartsAlone'
    <3>1. \A b \in App \ {a} : pc'[b] = "ready" /\ loc'[b].op # "start"
      BY <1>6, <2>1, <2>5, TaskNames DEF Sits, InCall, Worker
    <3> QED BY <2>6, <3>1 DEF StartsAlone
  <2> QED BY <1>3, <1>5, <2>2, <2>3, <2>4, <2>7, <2>8 DEF Seats, Sits
<1>7. CASE StartFails(a, FALSE)
  <2>1. Frame(a) /\ loc'[a].op = "start" /\ Sits(a)'
    BY <1>2, <1>4, <1>7, FailingSits
  <2> QED BY <1>2, <1>3, <1>4, <1>5, <2>1, OwnerStep DEF IRun, IInv
<1> QED BY <1>6, <1>7 DEF StartPool

\* Arming makes the stream, with nothing out, not paused and nothing queued.
LEMMA StartArmSeats ==
    ASSUME IRun, OpsFit', NEW a \in App, StartArm(a)
    PROVE  Seats'
<1>1. a \in Worker /\ a # "delivery"
  BY TaskNames DEF Worker
<1> USE <1>1, OwnFacts DEF Handle, Locals
<1>2. pc[a] = "st_arm" /\ loc[a].op = "start" /\ Owning(a) /\ ~h.streaming
      /\ h.live = 0 /\ h.state = "STARTING" /\ h.iface /\ ~h.side /\ h.pool
  BY UnfedFacts DEF StartArm, Setup, Sits, InStart
<1>3. Well'
  BY StartWell DEF Start
<1>4. PICK f \in Freqs :
         \/ /\ h' = [Armed(f) EXCEPT !.streaming = TRUE]
            /\ loc' = [loc EXCEPT ![a].idx = 1] /\ Goto(a, "st_submit")
         \/ /\ h' = Armed(f)
            /\ \E isUsb \in BOOLEAN : StartFails(a, isUsb)
  BY DEF StartArm
<1>5. /\ h'.iface /\ ~h'.side /\ h'.live = 0 /\ h'.state = "STARTING" /\ h'.pool
      /\ ~h'.pause /\ h'.pend = NoFreq
  BY <1>2, <1>4 DEF Armed
<1>6. CASE /\ h' = [Armed(f) EXCEPT !.streaming = TRUE]
           /\ loc' = [loc EXCEPT ![a].idx = 1] /\ Goto(a, "st_submit")
  <2>1. Frame(a) /\ pc'[a] = "st_submit" /\ loc'[a].op = "start" /\ h'.streaming
    BY <1>2, <1>6 DEF Goto, Frame, Armed
  <2>2. InCall(a)'
    BY <2>1 DEF InCall, Loop, Drains, Incs
  <2>3. InPause(a)' /\ InStart(a)' /\ InBulk(a)'
    BY <1>5, <2>1 DEF InPause, Stops, InStart, Feeds, InBulk, Submits, Still,
       Setup, Drains, Incs
  <2>4. StreamFits'
    BY <1>5, <2>1 DEF StreamFits, Feeds
  <2> QED BY <1>2, <1>3, <1>5, <2>1, <2>2, <2>3, <2>4, OwnerStep DEF IRun, IInv, Sits
<1>7. ASSUME NEW x \in BOOLEAN, StartFails(a, x), h' = Armed(f) PROVE Seats'
  <2>1. ~h'.streaming
    BY <1>2, <1>7 DEF Armed
  <2>2. Frame(a) /\ loc'[a].op = "start" /\ Sits(a)'
    BY <1>2, <1>5, <1>7, <2>1, FailingSits
  <2>3. StreamFits'
    BY <1>5, <2>1 DEF StreamFits
  <2> QED BY <1>2, <1>3, <1>5, <2>2, <2>3, OwnerStep DEF IRun, IInv
<1> QED BY <1>4, <1>6, <1>7

\* The host takes every URB of a start.
LEMMA StartSubmitSeats ==
    ASSUME IRun, OpsFit', NEW a \in App, StartSubmit(a)
    PROVE  Seats'
<1>1. a \in Worker /\ a # "delivery"
  BY TaskNames DEF Worker
<1> USE <1>1, OwnFacts DEF Handle, Locals
<1>2. pc[a] = "st_submit" /\ loc[a].idx \in Urbs /\ loc[a].op = "start" /\ Feeds(a)
  BY DEF StartSubmit, OpFits, Feeds
<1>3. CanSubmit(loc[a].idx)
  BY <1>2, Submittable DEF Submits, Incs
<1>4. Well'
  BY StartWell DEF Start
<1>5. Frame(a) /\ pc'[a] = "inc_load" /\ loc' = loc /\ h' = h
  BY <1>3 DEF StartSubmit, Goto, Frame
<1>6. Sits(a)'
  <2>1. InCall(a)'
    BY <1>2, <1>5 DEF Sits, InCall, Loop, Drains, Incs
  <2>2. InPause(a)' /\ InStart(a)' /\ InBulk(a)'
    BY <1>2, <1>5 DEF Sits, InPause, Stops, InStart, Feeds, InBulk, Submits, Still,
       Setup, Drains, Incs
  <2> QED BY <2>1, <2>2 DEF Sits
<1>7. StreamFits'
  BY <1>2, <1>5, SameStreamFits DEF SameStream, Feeds, Incs, IRun, Seats
<1> QED BY <1>2, <1>4, <1>5, <1>6, <1>7, OwnerStep DEF IRun, IInv, Owning

\* The start ends in STREAMING, or after its cleanup in IDLE or FAULT.
LEMMA StartEndSeats ==
    ASSUME IRun, OpsFit', NEW a \in App, StartEnd(a) \/ StartFailTail(a)
    PROVE  Seats'
<1>1. a \in Worker /\ a # "delivery"
  BY TaskNames DEF Worker
<1> USE <1>1, OwnFacts DEF Handle, Locals
<1>2. Well'
  BY StartWell DEF Start
<1>3. Frame(a) /\ pc'[a] = "ready" /\ loc'[a].op = "none"
  BY DEF StartEnd, StartFailTail, Goto, Clear, Fresh, Frame
<1>4. Sits(a)'
  <2>1. InCall(a)'
    BY <1>3 DEF InCall, Drains, Incs
  <2>2. ~Owning(a)'
    BY <1>3 DEF Owning, Holds, InWindow
  <2> QED BY <2>1, <2>2, BystanderNext DEF OpsFit
<1>5. loc[a].op = "start" /\ Owning(a) /\ h'.iface = h.iface
  BY DEF StartEnd, StartFailTail, OpFits, Owning
<1>6. StreamFits'
  <2>1. CASE StartEnd(a)
    <3>1. h.streaming
      BY <1>5, <2>1 DEF StartEnd, Sits, InStart, Feeds
    <3> QED BY <2>1, <3>1 DEF StartEnd, IRun, Seats, StreamFits
  <2>2. CASE StartFailTail(a)
    <3>1. ~h.streaming /\ ~h.pool
      BY <2>2, UnfedFacts DEF StartFailTail, Sits, InStart
    <3>2. h'.state \in {"FAULT", "IDLE"}
      BY <2>2 DEF StartFailTail
    <3>3. ~h'.streaming /\ ~h'.pool /\ h'.iface = h.iface /\ h'.side = h.side
      BY <2>2, <3>1 DEF StartFailTail
    <3> QED BY <3>2, <3>3, FaultFits DEF IRun, Seats
  <2> QED BY <2>1, <2>2
<1> QED BY <1>2, <1>3, <1>4, <1>5, <1>6, OwnerStep DEF IRun, IInv

\* All steps of a start.
LEMMA StartSeats ==
    ASSUME IRun, OpsFit', NEW a \in App, Start(a)
    PROVE  Seats'
BY StartClaimSeats, StartEp0Seats, StartAllocSeats, StartPoolSeats, StartArmSeats,
   StartSubmitSeats, StartEndSeats DEF Start

\* All steps of a stop, a failed start's cleanup included.
LEMMA StopSeats ==
    ASSUME Undisturbed, IRun, OpsFit', NEW a \in App, Stop(a)
    PROVE  Seats'
BY StopTakeSeats, StopMarkSeats, StopDrainedSeats, StopCleanupSeats, StopFreeSeats DEF Stop

-----------------------------------------------------------------------------
(* Calls that begin, setters, and the client task.                          *)

\* Nobody calls while a stream starts, and none is fed while nobody starts.
LEMMA CallFacts ==
    ASSUME Undisturbed, IRun, NEW a \in App, NEW op, Call(a, op)
    PROVE  /\ pc[a] = "ready" /\ loc[a].op = "none"
           /\ \A b \in App : loc[b].op # "start"
           /\ \A b \in Worker : loc[b].op # "start"
           /\ h.streaming => h.state = "STREAMING"
<1>1. a \in Worker
  BY DEF Worker
<1>2. pc[a] = "ready" /\ loc[a].op = "none"
  BY <1>1, OwnFacts DEF Call, Sits, InCall
<1>3. \A b \in App : loc[b].op # "start"
  BY DEF Call, Undisturbed, Starting
<1>4. \A b \in Worker : loc[b].op # "start"
  BY <1>3, OwnFacts DEF Sits, InCall, Worker
<1>5. h.streaming => h.state = "STREAMING"
  BY <1>3 DEF IRun, Seats, StreamFits, Feeds
<1> QED BY <1>2, <1>3, <1>4, <1>5

\* A stop, a retune or a setter begins: it owns nothing yet.
LEMMA BeginSeats ==
    ASSUME Undisturbed, IRun, OpsFit', NEW a \in App, StopCall(a) \/ RetuneCall(a) \/ ControlCall(a)
    PROVE  Seats'
<1>1. a \in Worker /\ a # "delivery"
  BY TaskNames DEF Worker
<1> USE <1>1, OwnFacts DEF Handle, Locals
<1>2. PICK op : Call(a, op) /\ op \in {"stop", "retune", "control"}
  BY DEF StopCall, RetuneCall, ControlCall
<1>3. /\ pc[a] = "ready" /\ loc[a].op = "none"
      /\ \A b \in App : loc[b].op # "start"
      /\ \A b \in Worker : loc[b].op # "start"
  BY <1>2, CallFacts
<1>4. Frame(a)
  BY DEF StopCall, RetuneCall, ControlCall, Enter, Goto, Frame
<1>5. \/ pc'[a] = "sp_take" /\ loc'[a].op = "stop" /\ "stop" \in Ops[a]
      \/ pc'[a] = "rt_enter" /\ loc'[a].op = "retune"
      \/ pc'[a] = "ct_queue" /\ loc'[a].op = "control" /\ "control" \in Ops[a] /\ h.iface
      \/ pc'[a] = "ct_ep0" /\ loc'[a].op = "control"
  BY DEF StopCall, RetuneCall, ControlCall, Enter, Goto, Call
<1>6. /\ h'.state = h.state /\ h'.streaming = h.streaming /\ h'.pool = h.pool
      /\ h'.iface = h.iface /\ h'.side = h.side /\ h'.pause = h.pause /\ h'.live = h.live
  BY DEF StopCall, RetuneCall, ControlCall
<1>7. InCall(a)'
  BY <1>5, <1>6 DEF InCall, Loop, Drains, Incs
<1>8. ~Owning(a)'
  BY <1>5 DEF Owning, Holds, InWindow
<1>9. Sits(a)'
  BY <1>7, <1>8, BystanderNext DEF OpsFit
<1>10. Light
  BY <1>3, <1>6 DEF Light
<1>11. StreamFits'
  BY <1>3, <1>4, <1>6, SameStreamFits DEF SameStream, Feeds, IRun, Seats
<1>12. Rests(a)
  BY <1>3 DEF Rests
<1>13. Well'
  BY BeginWell DEF Begin
<1>14. loc'[a].op # "start"
  BY <1>5
<1> QED BY <1>4, <1>9, <1>10, <1>11, <1>12, <1>13, <1>14, LightStep DEF IRun, IInv

\* A reset acts only when nothing streams and nothing is counted.
LEMMA ResetSeats ==
    ASSUME Undisturbed, IRun, OpsFit', NEW a \in App, Reset(a)
    PROVE  Seats'
<1>1. a \in Worker /\ a # "delivery"
  BY TaskNames DEF Worker
<1> USE <1>1, OwnFacts DEF Handle, Locals
<1>2. /\ pc[a] = "ready" /\ loc[a].op = "none"
      /\ \A b \in App : loc[b].op # "start"
      /\ \A b \in Worker : loc[b].op # "start"
      /\ h.streaming => h.state = "STREAMING"
  BY CallFacts DEF Reset
<1>3. Frame(a) /\ pc' = pc /\ loc' = loc
  BY DEF Reset, Frame
<1>4. /\ ~h.streaming /\ h'.streaming = h.streaming /\ ~h'.pool /\ h'.state = "IDLE"
      /\ h'.iface = h.iface /\ h'.side = h.side /\ h'.pause = h.pause /\ h'.live = h.live
  BY <1>2 DEF Reset
<1>5. Light
  BY <1>2, <1>4 DEF Light
<1>6. Sits(a)'
  <2>1. InCall(a)'
    BY <1>2, <1>3 DEF InCall, Drains, Incs
  <2>2. ~Owning(a)'
    BY <1>2, <1>3 DEF Owning, Holds, InWindow
  <2> QED BY <2>1, <2>2, BystanderNext DEF OpsFit
<1>7. StreamFits'
  BY <1>4, FaultFits DEF IRun, Seats
<1>8. Rests(a)
  BY <1>2 DEF Rests
<1>9. Well'
  BY BeginWell DEF Begin
<1> QED BY <1>2, <1>3, <1>5, <1>6, <1>7, <1>8, <1>9, LightStep DEF IRun, IInv

\* A start begins while no call is under way and no URB is out.
LEMMA StartCallSeats ==
    ASSUME Undisturbed, IRun, OpsFit', h.live = 0, NEW a \in App, StartCall(a)
    PROVE  Seats'
<1>1. a \in Worker /\ a # "delivery" /\ "delivery" \in Worker
  BY TaskNames DEF Worker
<1> USE <1>1, OwnFacts DEF Handle, Locals
<1>2. /\ \A b \in App : loc[b].op # "start"
      /\ h.streaming => h.state = "STREAMING"
  BY CallFacts DEF StartCall
<1>3. (\A b \in App : pc[b] = "ready") /\ pc["delivery"] \in Loop
  BY DEF StartCall, Undisturbed, NoCallUnderWay, Loop
<1>4. Frame(a) /\ pc'[a] = "st_claim" /\ loc'[a].op = "start"
  BY DEF StartCall, Enter, Goto, Frame
<1>5. /\ h.state = "IDLE" /\ ~h.streaming /\ h'.state = "STARTING"
      /\ h'.streaming = h.streaming /\ h'.pool = h.pool /\ h'.iface = h.iface
      /\ h'.side = h.side /\ h'.pause = h.pause /\ h'.live = h.live
  BY <1>2 DEF StartCall
<1>6. ASSUME NEW u \in Worker, u # a PROVE Sits(u)'
  <2>1. pc[u] \in Loop \cup {"ready"} /\ loc[u].op = "none"
    BY <1>3 DEF Worker, Sits, InCall
  <2>2. Rely(u)
    BY <1>4, <1>5, <1>6, <2>1 DEF Rely, Frame, Owning, Holds, InWindow, Loop
  <2> QED BY <2>2, RelyKeeps DEF IRun, IInv
<1>7. Sits(a)'
  <2>1. InCall(a)'
    BY <1>4 DEF InCall, Loop, Drains, Incs
  <2>2. InPause(a)' /\ InStart(a)' /\ InBulk(a)'
    BY <1>4, <1>5 DEF InPause, Stops, InStart, Feeds, InBulk, Submits, Still,
       Setup, Drains, Incs
  <2> QED BY <2>1, <2>2 DEF Sits
<1>8. StreamFits'
  BY <1>5 DEF IRun, Seats, StreamFits
<1>9. StartsAlone'
  <2>1. \A b \in App \ {a} : pc'[b] = "ready" /\ loc'[b].op # "start"
    BY <1>2, <1>3, <1>4 DEF Frame, Task
  <2>2. pc'["delivery"] \in Loop
    BY <1>3, <1>4 DEF Frame
  <2> QED BY <2>1, <2>2 DEF StartsAlone
<1>10. Well'
  BY BeginWell DEF Begin
<1> QED BY <1>6, <1>7, <1>8, <1>9, <1>10 DEF Seats

\* A setter queues its work only while nobody stops the stream.
LEMMA SetterSeats ==
    ASSUME Undisturbed, IRun, OpsFit', NEW a \in App, ControlQueue(a) \/ ControlEp0(a)
    PROVE  Seats'
<1>1. a \in Worker /\ a # "delivery"
  BY TaskNames DEF Worker
<1> USE <1>1, OwnFacts DEF Handle, Locals
<1>2. pc[a] \in {"ct_queue", "ct_ep0"} /\ (pc[a] = "ct_queue" \/ h' = h)
  BY DEF ControlQueue, ControlEp0
<1>3. Frame(a) /\ pc'[a] = "ready" /\ loc'[a].op = "none"
  BY DEF ControlQueue, ControlEp0, Goto, Clear, Fresh, Frame
<1>4. /\ h'.state = h.state /\ h'.streaming = h.streaming /\ h'.pool = h.pool
      /\ h'.iface = h.iface /\ h'.pause = h.pause /\ h'.live = h.live /\ h'.pend = h.pend
      /\ h'.side = h.side \/ (pc[a] = "ct_queue" /\ h'.iface)
  BY DEF ControlQueue, ControlEp0, Sits, InCall
<1>5. Sits(a)'
  <2>1. InCall(a)'
    BY <1>3 DEF InCall, Drains, Incs
  <2>2. ~Owning(a)'
    BY <1>3 DEF Owning, Holds, InWindow
  <2> QED BY <2>1, <2>2, BystanderNext DEF OpsFit
<1>6. StreamFits'
  <2>1. ASSUME NEW b \in App PROVE Feeds(b) => Feeds(b)'
    BY <1>2, <1>3 DEF Frame, Feeds, Incs, Task
  <2> QED BY <1>4, <2>1 DEF IRun, Seats, StreamFits
<1>7. Rests(a)
  BY <1>2, BusyRests DEF IRun, Loop
<1>8. Well'
  BY BeginWell
<1>9. CASE h'.side = h.side
  <2>1. Light
    BY <1>4, <1>9 DEF Light
  <2> QED BY <1>3, <1>5, <1>6, <1>7, <1>8, <2>1, LightStep DEF IRun, IInv
<1>10. CASE pc[a] = "ct_queue"
  <2>1. ASSUME NEW b \in App, b # a PROVE loc[b].op # "start" /\ loc[b].op # "stop"
    BY <1>10, <2>1 DEF IRun, Seats, StartsAlone, Undisturbed, SettersApart, Sits, InCall,
       Worker
  <2>2. ASSUME NEW u \in Worker, u # a PROVE Sits(u)'
    <3>1. loc[u].op # "start" /\ loc[u].op # "stop"
      BY <2>1, <2>2 DEF Worker, Sits, InCall
    <3>2. pc'[u] = pc[u] /\ loc'[u] = loc[u] /\ OpFits(pc[u], loc[u].op) /\ Sits(u)
      BY <1>3, <2>2 DEF Frame
    <3>3. ~Stops(u)
      BY <3>1, <3>2 DEF Stops, OpFits
    <3>4. InCall(u)'
      BY <1>4, <3>2 DEF Sits, InCall
    <3>5. InPause(u)'
      BY <1>4, <3>2, <3>3 DEF Sits, InPause, Stops
    <3>6. InStart(u)'
      BY <3>1, <3>2 DEF InStart, Feeds, OpFits, Setup
    <3>7. InBulk(u)'
      BY <1>4, <3>2 DEF Sits, InBulk, Submits, Still
    <3> QED BY <3>4, <3>5, <3>6, <3>7 DEF Sits
  <2>3. StartsAlone'
    BY <1>3, <1>7, AloneKept DEF IRun
  <2> QED BY <1>5, <1>6, <1>8, <2>2, <2>3 DEF Seats
<1> QED BY <1>4, <1>9, <1>10

\* A callback changes only the count and the halt streak.
LEMMA CallbackSeats ==
    ASSUME IRun, OpsFit', Callback
    PROVE  Seats'
<1> DEFINE c == "client"
<1>1. c \in Task /\ c \notin Worker /\ c \notin App
  BY TaskNames DEF Task, Worker
<1>2. h \in Handle /\ pc \in [Task -> PCs] /\ loc \in [Task -> Locals]
  BY DEF IRun, IInv, TypeOK
<1>3. Frame(c)
  <2>1. ASSUME NEW i \in Urbs, CbBegin(i) PROVE Frame(c)
    BY <1>2, <2>1 DEF CbBegin, Goto, Frame
  <2>2. CASE CbSubmit \/ CbLoad \/ CbStore
    BY <1>2, <2>2 DEF CbSubmit, CbLoad, CbStore, Goto, Clear, Frame
  <2> QED BY <2>1, <2>2 DEF Callback
<1>4. /\ h'.state = h.state /\ h'.streaming = h.streaming /\ h'.pool = h.pool
      /\ h'.iface = h.iface /\ h'.side = h.side /\ h'.pause = h.pause /\ h'.pend = h.pend
      /\ h.live = 0 => h'.live = 0
  <2>1. ASSUME NEW i \in Urbs, CbBegin(i)
        PROVE  h' = h \/ h' = [h EXCEPT !.recov = 0]
    <3>1. usb.urb[i] # "bad"
      BY DEF IRun, Seats, Well
    <3> QED BY <1>2, <2>1, <3>1 DEF CbBegin, Handle
  <2>2. CASE CbSubmit
    BY <2>2, Submittable DEF CbSubmit, InCallback
  <2>3. CASE CbLoad
    BY <2>3 DEF CbLoad
  <2>4. CASE CbStore
    <3>1. h.live # 0
      BY <2>4 DEF CbStore, IRun, IInv, OpsFit, Bulk, CallbackSound
    <3> QED BY <1>2, <2>4, <3>1 DEF CbStore, Handle
  <2> QED BY <1>2, <2>1, <2>2, <2>3, <2>4 DEF Callback, Handle
<1>5. Light /\ Rests(c)
  BY <1>1, <1>4 DEF Light, Rests
<1>6. StreamFits'
  <2>1. Feeds(c) => Feeds(c)'
    BY DEF Feeds, IRun, IInv, OpsFit, ClientPlaces, Task, Incs
  <2> QED BY <1>1, <1>3, <1>4, <2>1, SameStreamFits DEF SameStream, IRun, Seats
<1> QED BY <1>1, <1>3, <1>5, <1>6, CallbackWell, LightStep DEF IRun, IInv

\* The host changes no field of the handle.
LEMMA HostSeats ==
    ASSUME Undisturbed, IRun, Host
    PROVE  Seats'
<1>1. Well' /\ UNCHANGED <<h, pc, loc>>
  BY HostWell DEF Complete
<1>2. StreamFits' /\ StartsAlone' /\ \A t \in Worker : Sits(t)'
  BY <1>1 DEF IRun, Seats, StreamFits, StartsAlone, Feeds, Sits, InCall, InPause, Stops, InStart,
     InBulk, Submits, Still
<1> QED BY <1>1, <1>2 DEF Seats

-----------------------------------------------------------------------------
(* What is out, and what is counted.                                        *)

Out == {i \in Urbs : Outstanding(i)}
Counting == {t \in Task : pc[t] \in Incs}

\* Whoever submits, counts, or knows that nothing is out has the stream.
LEMMA Busy ==
    ASSUME IRun, NEW t \in Worker
    PROVE  /\ pc[t] \in Incs => Submits(t)
           /\ Submits(t) \/ Still(t) => Owning(t)
           /\ Still(t) => pc[t] \notin Incs
<1>1. pc[t] \in Incs => Submits(t)
  BY OwnFacts DEF Sits, InCall, Submits
<1>2. Submits(t) \/ Still(t) => Owning(t)
  BY OwnFacts, Bystander DEF Sits
<1>3. Still(t) => pc[t] \notin Incs
  BY DEF Still, Incs, Setup, Drains
<1> QED BY <1>1, <1>2, <1>3

\* No other task submits while one does.
LEMMA Alone ==
    ASSUME IRun, NEW t \in Worker, NEW u \in Worker, Owning(t), Submits(u) \/ Still(u)
    PROVE  u = t
BY Busy, OneOwner DEF IRun, IInv

\* The sets that LiveExact compares are finite, and a submit in progress is one.
LEMMA CountFacts ==
    ASSUME IRun
    PROVE  /\ IsFiniteSet(Out) /\ IsFiniteSet(Counting)
           /\ h.live + Cardinality(Counting) = Cardinality(Out)
           /\ h.live \in Nat /\ Cardinality(Counting) \in Nat /\ Cardinality(Out) \in Nat
           /\ \A t \in Counting : t \in Worker /\ Submits(t)
<1>1. \A t \in Counting : t \in Worker /\ Submits(t)
  <2> SUFFICES ASSUME NEW t \in Counting PROVE t \in Worker /\ Submits(t)
    OBVIOUS
  <2>1. t # "client"
    BY DEF Counting, Incs, IRun, IInv, OpsFit, ClientPlaces
  <2> QED BY <2>1, Busy DEF Counting, Worker, Task
<1>2. IsFiniteSet(Out)
  <2>1. IsFiniteSet(Urbs)
    BY FS_Interval, UrbCount DEF Urbs
  <2> QED BY <2>1, FS_Subset DEF Out
<1>3. IsFiniteSet(Counting)
  <2>1. ASSUME NEW t \in Counting PROVE Counting = {t}
    BY <1>1, Busy, Alone
  <2>2. Counting = {} \/ \E t : Counting = {t}
    BY <2>1
  <2> QED BY <2>2, FS_EmptySet, FS_Singleton
<1>4. h.live + Cardinality(Counting) = Cardinality(Out)
  BY DEF IRun, Bulk, LiveExact, Counting, Incs, Out
<1>5. h.live \in Nat /\ Cardinality(Counting) \in Nat /\ Cardinality(Out) \in Nat
  BY <1>2, <1>3, FS_CardinalityType, Types DEF IRun, IInv
<1> QED BY <1>1, <1>2, <1>3, <1>4, <1>5

\* Where nothing is counted and nobody counts, nothing is out; and conversely.
LEMMA NothingOut ==
    ASSUME IRun
    PROVE  /\ h.live = 0 /\ Counting = {} => AllReturned
           /\ AllReturned => h.live = 0
<1>1. Cardinality({}) = 0
  BY FS_EmptySet
<1>2. h.live = 0 /\ Counting = {} => Out = {}
  BY <1>1, CountFacts, FS_EmptySet
<1>3. AllReturned => h.live = 0
  <2>1. AllReturned => Out = {}
    BY DEF AllReturned, Out
  <2> QED BY <1>1, <2>1, CountFacts
<1> QED BY <1>2, <1>3 DEF AllReturned, Out

\* Where a task relies on stillness, it is still: this is what every EP0 sequence and
\* every free of the pool rests on.
LEMMA StillReturned ==
    ASSUME IRun, NEW t \in Worker, Still(t)
    PROVE  AllReturned /\ h.live = 0 /\ Counting = {}
<1>1. h.live = 0
  BY OwnFacts DEF Sits, InBulk
<1>2. Counting = {}
  <2>1. ASSUME NEW u \in Counting PROVE FALSE
    <3>1. u = t
      BY CountFacts, Busy, Alone
    <3> QED BY <3>1, Busy DEF Counting
  <2> QED BY <2>1
<1> QED BY <1>1, <1>2, NothingOut

\* A step that neither submits nor counts keeps Bulk.
Quiet ==
    /\ \A i \in Urbs : (usb'.urb[i] = "idle") <=> (usb.urb[i] = "idle")
    /\ pc'["client"] = pc["client"] /\ loc'["client"] = loc["client"] /\ h'.live = h.live
    /\ AllReturned \/ (h'.pool = h.pool /\ h'.iface = h.iface)
    /\ \A u \in Worker : \/ pc'[u] = pc[u] /\ loc'[u] = loc[u]
                         \/ pc[u] \notin Incs /\ pc'[u] \notin Incs /\ ~Submits(u)'

\* What is out, counted and submitted is then the same before and after.
LEMMA QuietBulk ==
    ASSUME IRun, Quiet
    PROVE  Bulk'
<1>1. (\A i \in Urbs : Outstanding(i)' <=> Outstanding(i)) /\ (AllReturned' <=> AllReturned)
  BY DEF Quiet, Outstanding, InCallback, AllReturned
<1>2. \A u \in Worker : Submits(u)' => Submits(u) /\ pc'[u] = pc[u] /\ loc'[u] = loc[u]
  BY DEF Quiet, Submits
<1>3. CallbackSound'
  BY <1>2 DEF Quiet, IRun, Bulk, CallbackSound, InCallback
<1>4. SubmitSound'
  <2> SUFFICES ASSUME NEW u \in Worker, Submits(u)'
               PROVE  (/\ \A j \in Urbs : j > loc[u].idx => ~Outstanding(j)
                       /\ pc[u] \notin Incs => ~Outstanding(loc[u].idx)
                       /\ pc[u] = "inc_store" => loc[u].tmp = h.live)'
    BY DEF SubmitSound
  <2>1. Submits(u) /\ pc'[u] = pc[u] /\ loc'[u] = loc[u] /\ loc[u].idx \in Urbs
    BY <1>2 DEF Submits
  <2>2. /\ \A j \in Urbs : j > loc[u].idx => ~Outstanding(j)
        /\ pc[u] \notin Incs => ~Outstanding(loc[u].idx)
        /\ pc[u] = "inc_store" => loc[u].tmp = h.live
    BY <2>1 DEF IRun, Bulk, SubmitSound
  <2>3. h'.live = h.live
    BY DEF Quiet
  <2> QED BY <1>1, <2>1, <2>2, <2>3 DEF Outstanding
<1>5. BulkHeld'
  BY <1>1 DEF Quiet, IRun, Bulk, BulkHeld
<1>6. LiveExact'
  <2>1. ASSUME NEW t \in Task PROVE pc'[t] \in Incs <=> pc[t] \in Incs
    BY DEF Quiet, Worker, Task
  <2>2. {t \in Task : pc'[t] \in Incs} = {t \in Task : pc[t] \in Incs}
    BY <2>1
  <2>3. {i \in Urbs : Outstanding(i)'} = {i \in Urbs : Outstanding(i)}
    BY <1>1
  <2> QED BY <2>2, <2>3 DEF Quiet, IRun, Bulk, LiveExact, Incs
<1> QED BY <1>3, <1>4, <1>5, <1>6 DEF Bulk

\* Flushes, waits and failed EP0 sequences put no URB to rest and send none out.
LEMMA IdleUrbs ==
    ASSUME IRun, usb' \in {usb, Expired(usb), Faulted(usb), Flushed(Expired(usb))}
    PROVE  \A i \in Urbs : (usb'.urb[i] = "idle") <=> (usb.urb[i] = "idle")
<1> SUFFICES ASSUME NEW i \in Urbs PROVE (usb'.urb[i] = "idle") <=> (usb.urb[i] = "idle")
  OBVIOUS
<1>1. usb \in Usb
  BY DEF IRun, IInv, TypeOK
<1>2. CASE usb' = usb
  BY <1>2
<1>3. CASE usb' = Expired(usb) \/ usb' = Faulted(usb)
  BY <1>1, <1>3 DEF Expired, Faulted, Usb
<1>4. CASE usb' = Flushed(Expired(usb))
  <2>1. PICK v : v = Expired(usb)
    OBVIOUS
  <2>2. v \in Usb /\ v.urb = usb.urb
    BY <1>1, <2>1, UsbFacts DEF Expired, Usb
  <2>3. usb' = Flushed(v)
    BY <1>4, <2>1
  <2> QED BY <2>2, <2>3 DEF Flushed, Usb
<1> QED BY <1>2, <1>3, <1>4

\* A step of one task that submits and counts nothing is quiet.
LEMMA QuietStep ==
    ASSUME IRun, NEW t \in Worker, Frame(t), h'.live = h.live,
           usb' \in {usb, Expired(usb), Faulted(usb), Flushed(Expired(usb))},
           AllReturned \/ (h'.pool = h.pool /\ h'.iface = h.iface),
           pc[t] \notin Incs, pc'[t] \notin {"rs_submit", "st_submit"} \cup Incs
                               \/ (pc'[t] \notin Incs /\ loc'[t].idx \notin Urbs)
    PROVE  Bulk'
<1>1. \A i \in Urbs : (usb'.urb[i] = "idle") <=> (usb.urb[i] = "idle")
  BY IdleUrbs
<1>2. pc'["client"] = pc["client"] /\ loc'["client"] = loc["client"]
  BY TaskNames DEF Frame, Task, Worker
<1>3. ASSUME NEW u \in Worker
      PROVE  \/ pc'[u] = pc[u] /\ loc'[u] = loc[u]
             \/ pc[u] \notin Incs /\ pc'[u] \notin Incs /\ ~Submits(u)'
  BY DEF Frame, Task, Worker, Submits
<1> QED BY <1>1, <1>2, <1>3, QuietBulk DEF Quiet

-----------------------------------------------------------------------------
(* The steps that change nothing about the URBs.                            *)

\* Waits and flushes return URBs to the callback, not to the pool.
LEMMA DrainBulk ==
    ASSUME IRun, NEW t \in Worker, Drain(t)
    PROVE  Bulk'
<1> USE OwnFacts DEF Handle
<1>1. Frame(t) /\ pc[t] \notin Incs /\ pc'[t] \notin {"rs_submit", "st_submit"} \cup Incs
  BY DEF Drain, PollDone, PollExpire, PollGiveUp, PauseBulk, Goto, Frame, Incs
<1>2. h'.live = h.live /\ h'.pool = h.pool /\ h'.iface = h.iface
  BY DEF Drain, PollDone, PollExpire, PollGiveUp, PauseBulk
<1>3. usb' \in {usb, Expired(usb), Flushed(Expired(usb))}
  BY DEF Drain, PollDone, PollExpire, PollGiveUp, PauseBulk
<1> QED BY <1>1, <1>2, <1>3, QuietStep

\* The end of a resume and of a window.
LEMMA ReleaseBulk ==
    ASSUME IRun, NEW t \in Worker, ResumeEnd(t) \/ Release(t)
    PROVE  Bulk'
<1> USE OwnFacts DEF Handle
<1>1. Frame(t) /\ pc[t] \notin Incs /\ pc'[t] \notin {"rs_submit", "st_submit"} \cup Incs
  BY DEF ResumeEnd, Release, Goto, Clear, After, Frame, Incs
<1>2. h'.live = h.live /\ h'.pool = h.pool /\ h'.iface = h.iface /\ usb' = usb
  BY DEF ResumeEnd, Release
<1> QED BY <1>1, <1>2, QuietStep

\* The steps of a retune outside its drain and its resume.
LEMMA RetuneBulk ==
    ASSUME IRun, NEW t \in Worker, Retune(t)
    PROVE  Bulk'
<1> USE OwnFacts DEF Handle
<1>1. Frame(t) /\ pc[t] \notin Incs /\ pc'[t] \notin {"rs_submit", "st_submit"} \cup Incs
  BY DEF Retune, RetuneEnter, RetuneTake, RetuneDrained, RetuneEp0, Goto, Clear, After,
     Frame, Incs
<1>2. h'.live = h.live /\ h'.pool = h.pool /\ h'.iface = h.iface
  BY DEF Retune, RetuneEnter, RetuneTake, RetuneDrained, RetuneEp0
<1>3. usb' \in {usb, Faulted(usb)}
  BY DEF Retune, RetuneEnter, RetuneTake, RetuneDrained, RetuneEp0
<1> QED BY <1>1, <1>2, <1>3, QuietStep

\* The steps of the delivery task's own loop.
LEMMA OwnBulk ==
    ASSUME IRun,
           CheckStall \/ CheckRetune \/ CheckSide \/ Emit \/ RecoverBegin
           \/ RecoverDrained \/ SideEnter \/ SideDrained \/ SideEp0
    PROVE  Bulk'
<1> DEFINE d == "delivery"
<1>0. d \in Worker /\ ~RecoverBegin /\ ~RecoverDrained
  BY OwnWell DEF Worker
<1> USE <1>0, OwnFacts DEF Handle
<1>1. Frame(d) /\ pc[d] \notin Incs /\ pc'[d] \notin {"rs_submit", "st_submit"} \cup Incs
  BY DEF CheckStall, CheckRetune, CheckSide, Emit, DeliveryStep, SideEnter, SideDrained,
     SideEp0, Goto, Clear, Frame, Incs
<1>2. h'.live = h.live /\ h'.pool = h.pool /\ h'.iface = h.iface
  BY DEF CheckStall, CheckRetune, CheckSide, Emit, DeliveryStep, SideEnter, SideDrained, SideEp0
<1>3. usb' \in {usb, Faulted(usb)}
  BY DEF CheckStall, CheckRetune, CheckSide, Emit, DeliveryStep, SideEnter, SideDrained, SideEp0
<1> QED BY <1>1, <1>2, <1>3, QuietStep

\* A stop forgets the count, the interface and the pool when nothing is out.
LEMMA StopBulk ==
    ASSUME IRun, NEW a \in App, Stop(a)
    PROVE  Bulk'
<1>1. a \in Worker
  BY DEF Worker
<1> USE <1>1, OwnFacts DEF Handle
<1>2. Frame(a) /\ pc[a] \notin Incs /\ pc'[a] \notin {"rs_submit", "st_submit"} \cup Incs
  BY DEF Stop, StopTake, StopMark, StopDrained, StopCleanup, StopFree, StopReturn, Goto,
     ClearIf, Frame, Incs
<1>3. usb' = usb
  BY DEF Stop, StopTake, StopMark, StopDrained, StopCleanup, StopFree
<1>4. CASE StopTake(a) \/ StopMark(a)
  <2>1. h'.live = h.live /\ h'.pool = h.pool /\ h'.iface = h.iface
    BY <1>4 DEF StopTake, StopMark
  <2> QED BY <1>2, <1>3, <2>1, QuietStep
<1>5. CASE StopDrained(a)
  <2>1. h'.pool = h.pool /\ h'.iface = h.iface /\ (h'.live = h.live \/ (loc[a].ok /\ h'.live = 0))
    BY <1>5 DEF StopDrained
  <2>2. loc[a].ok => Still(a)
    BY <1>5 DEF StopDrained, Still, Drains
  <2>3. h'.live = h.live
    BY <2>1, <2>2, StillReturned
  <2> QED BY <1>2, <1>3, <2>1, <2>3, QuietStep
<1>6. CASE StopCleanup(a) \/ StopFree(a)
  <2>1. Still(a)
    BY <1>6 DEF StopCleanup, StopFree, Still
  <2>2. h'.live = h.live
    BY <1>6 DEF StopCleanup, StopFree
  <2> QED BY <1>2, <1>3, <2>1, <2>2, StillReturned, QuietStep
<1> QED BY <1>4, <1>5, <1>6 DEF Stop

\* So does a start before it has armed the stream.
LEMMA UnfedBulk ==
    ASSUME IRun, NEW a \in App,
           StartClaim(a) \/ StartEp0(a) \/ StartAlloc(a) \/ AllocDrained(a) \/ StartFreeOld(a)
           \/ StartPool(a) \/ StartFailTail(a)
    PROVE  Bulk'
<1>1. a \in Worker /\ "delivery" \in Worker
  BY DEF Worker
<1> USE <1>1, OwnFacts DEF Handle
<1>2. ~AllocDrained(a)
  BY DEF AllocDrained, Sits, InCall
<1>3. Still(a)
  BY <1>2 DEF StartClaim, StartEp0, StartAlloc, StartFreeOld, StartPool, StartFailTail,
     Still, Setup
<1>4. h.live = 0 /\ AllReturned
  BY <1>3, StillReturned
<1>5. h'.live = h.live /\ usb' \in {usb, Faulted(usb)}
  BY <1>2, <1>4 DEF StartClaim, StartEp0, StartAlloc, StartFreeOld, StartPool, StartFailTail
<1>6. CASE ~StartPool(a)
  <2>1. Frame(a) /\ pc[a] \notin Incs /\ pc'[a] \notin {"rs_submit", "st_submit"} \cup Incs
    BY <1>2, <1>4, <1>6 DEF StartClaim, StartEp0, StartAlloc, StartFreeOld, StartFailTail,
       StartFails, Goto, Clear, Enter, Frame, Incs
  <2> QED BY <1>4, <1>5, <2>1, QuietStep
<1>7. CASE StartPool(a)
  <2>1. pc[a] = "st_pool" /\ loc[a].op = "start"
    BY <1>7 DEF StartPool, OpFits
  <2>2. \/ /\ loc' = loc /\ usb' = usb
           /\ pc' = [pc EXCEPT ![a] = "st_arm",
                               !["delivery"] = IF @ = "none" THEN "top" ELSE @]
        \/ StartFails(a, FALSE)
    BY <1>7 DEF StartPool
  <2>3. CASE /\ loc' = loc /\ usb' = usb
             /\ pc' = [pc EXCEPT ![a] = "st_arm",
                                 !["delivery"] = IF @ = "none" THEN "top" ELSE @]
    <3>1. pc["delivery"] \in Loop
      BY <2>1 DEF IRun, Seats, StartsAlone
    <3>2. pc'["client"] = pc["client"]
      <4>1. "client" \in Task /\ a # "client"
        BY DEF Task
      <4> QED BY <2>3, <4>1
    <3>3. ASSUME NEW u \in Worker
          PROVE  \/ pc'[u] = pc[u] /\ loc'[u] = loc[u]
                 \/ pc[u] \notin Incs /\ pc'[u] \notin Incs /\ ~Submits(u)'
      BY <2>1, <2>3, <3>1 DEF Submits, Incs, Loop
    <3> QED BY <1>4, <1>5, <2>3, <3>2, <3>3, QuietBulk DEF Quiet
  <2>4. CASE StartFails(a, FALSE)
    <3>1. Frame(a) /\ pc'[a] = "sp_take"
      BY <2>4 DEF StartFails, Goto, Frame
    <3> QED BY <1>4, <1>5, <2>1, <3>1, QuietStep DEF Incs
  <2> QED BY <2>2, <2>3, <2>4
<1> QED BY <1>6, <1>7

\* Calls begin, setters return, a start ends.
LEMMA BeginBulk ==
    ASSUME Undisturbed, IRun, NEW a \in App,
           Begin(a) \/ ControlQueue(a) \/ ControlEp0(a) \/ StartEnd(a)
    PROVE  Bulk'
<1>1. a \in Worker
  BY DEF Worker
<1> USE <1>1, OwnFacts DEF Handle
<1>2. Frame(a) /\ pc[a] \notin Incs /\ pc'[a] \notin {"rs_submit", "st_submit"} \cup Incs
  BY DEF Begin, StartCall, StopCall, Reset, RetuneCall, ControlCall, ControlQueue, ControlEp0,
     StartEnd, Call, Enter, Goto, Clear, Frame, Incs
<1>3. usb' = usb /\ h'.live = h.live
  BY DEF Begin, StartCall, StopCall, Reset, RetuneCall, ControlCall, ControlQueue, ControlEp0,
     StartEnd
<1>4. CASE ~Reset(a)
  <2>1. h'.pool = h.pool /\ h'.iface = h.iface
    BY <1>4 DEF Begin, StartCall, StopCall, RetuneCall, ControlCall, ControlQueue, ControlEp0,
       StartEnd
  <2> QED BY <1>2, <1>3, <2>1, QuietStep
<1>5. CASE Reset(a)
  <2>1. AllReturned
    <3>1. h.live = 0 /\ ~h.streaming
      BY <1>5, CallFacts DEF Reset
    <3>2. Counting = {}
      <4>1. ASSUME NEW u \in Counting PROVE FALSE
        BY <3>1, CountFacts, OwnFacts DEF Sits, InBulk
      <4> QED BY <4>1
    <3> QED BY <3>1, <3>2, NothingOut
  <2> QED BY <1>2, <1>3, <2>1, QuietStep
<1> QED BY <1>4, <1>5

-----------------------------------------------------------------------------
(* The steps that submit and count.                                         *)

\* The loop that submits begins when nothing is out.
LEMMA LaunchBulk ==
    ASSUME IRun, NEW t \in Worker, Still(t), Frame(t), usb' = usb, h'.live = 0,
           pc'[t] \notin Incs
    PROVE  Bulk'
<1>1. AllReturned /\ Counting = {} /\ Owning(t)
  BY StillReturned, Busy
<1>2. pc'["client"] = pc["client"] /\ loc'["client"] = loc["client"]
  BY TaskNames DEF Frame, Task, Worker
<1>3. ~InCallback /\ ~InCallback'
  BY <1>1, <1>2 DEF IRun, Bulk, CallbackSound, AllReturned, Outstanding, InCallback
<1>4. (\A i \in Urbs : ~Outstanding(i)') /\ AllReturned'
  BY <1>1, <1>3 DEF AllReturned, Outstanding
<1>5. \A u \in Task : pc'[u] \notin Incs
  BY <1>1 DEF Frame, Counting
<1>6. CallbackSound'
  BY <1>3 DEF CallbackSound, InCallback
<1>7. SubmitSound'
  BY <1>4, <1>5 DEF SubmitSound, Submits, Worker, Task, Incs
<1>8. BulkHeld'
  BY <1>4 DEF BulkHeld
<1>9. LiveExact'
  <2>1. {u \in Task : pc'[u] \in Incs} = {}
    BY <1>5
  <2>2. {i \in Urbs : Outstanding(i)'} = {}
    BY <1>4
  <2>3. Cardinality({}) = 0
    BY FS_EmptySet
  <2> QED BY <2>1, <2>2, <2>3 DEF LiveExact, Incs
<1> QED BY <1>6, <1>7, <1>8, <1>9 DEF Bulk

\* A resume begins its loop with nothing out.
LEMMA ResumeBeginBulk ==
    ASSUME IRun, NEW t \in Worker, ResumeBegin(t)
    PROVE  Bulk'
<1> USE OwnFacts DEF Handle
<1>1. Still(t)
  BY DEF ResumeBegin, Still
<1>2. h.live = 0
  BY <1>1, StillReturned
<1>3. Frame(t) /\ usb' = usb /\ pc'[t] \notin Incs
  BY DEF ResumeBegin, Goto, Frame, Incs
<1>4. h'.live = 0
  BY <1>2 DEF ResumeBegin
<1> QED BY <1>1, <1>3, <1>4, LaunchBulk

\* So does a start.
LEMMA StartArmBulk ==
    ASSUME IRun, NEW a \in App, StartArm(a)
    PROVE  Bulk'
<1>1. a \in Worker
  BY DEF Worker
<1> USE <1>1, OwnFacts DEF Handle
<1>2. pc[a] = "st_arm" /\ Still(a)
  BY DEF StartArm, Still, Setup
<1>3. h.live = 0 /\ AllReturned
  BY <1>2, StillReturned
<1>4. h'.live = 0
  BY DEF StartArm, Armed
<1>5. \/ Goto(a, "st_submit") /\ loc' = [loc EXCEPT ![a].idx = 1] /\ usb' = usb
      \/ usb' = Faulted(usb) /\ \E x \in BOOLEAN : StartFails(a, x)
  BY DEF StartArm
<1>6. CASE Goto(a, "st_submit") /\ loc' = [loc EXCEPT ![a].idx = 1] /\ usb' = usb
  <2>1. Frame(a) /\ pc'[a] \notin Incs
    BY <1>6 DEF Goto, Frame, Incs
  <2> QED BY <1>2, <1>4, <1>6, <2>1, LaunchBulk
<1>7. CASE usb' = Faulted(usb) /\ \E x \in BOOLEAN : StartFails(a, x)
  <2>1. Frame(a) /\ pc'[a] = "sp_take"
    BY <1>7 DEF StartFails, Goto, Frame
  <2> QED BY <1>2, <1>3, <1>4, <1>7, <2>1, QuietStep DEF Incs
<1> QED BY <1>5, <1>6, <1>7

\* A URB goes out, and the task that submitted it will count it.
LEMMA SubmitBulk ==
    ASSUME IRun, NEW t \in Worker, ResumeSubmit(t) \/ (t \in App /\ StartSubmit(t))
    PROVE  Bulk'
<1> USE OwnFacts DEF Handle, Locals
<1> DEFINE i == loc[t].idx
<1>1. Submits(t) /\ pc[t] \notin Incs /\ i \in Urbs
  BY DEF ResumeSubmit, StartSubmit, Submits, Incs
<1>2. CanSubmit(i) /\ Owning(t)
  BY <1>1, Submittable, Busy
<1>3. /\ usb' = [usb EXCEPT !.urb[i] = "flight"] /\ loc' = loc /\ h' = h
      /\ pc' = [pc EXCEPT ![t] = "inc_load"]
  BY <1>2 DEF ResumeSubmit, StartSubmit, Goto
<1>4. ~Outstanding(i) /\ \A j \in Urbs : j > i => ~Outstanding(j)
  BY <1>1 DEF IRun, Bulk, SubmitSound
<1>5. pc'["client"] = pc["client"] /\ (InCallback' <=> InCallback)
      /\ pc["client"] \notin {"cb_load", "cb_store"} /\ (InCallback => loc["client"].idx # i)
  <2>1. pc'["client"] = pc["client"]
    BY <1>3
  <2>2. pc["client"] \notin {"cb_load", "cb_store"}
    BY <1>1 DEF IRun, Bulk, CallbackSound
  <2>3. InCallback => loc["client"].idx # i
    BY <1>4 DEF Outstanding
  <2> QED BY <2>1, <2>2, <2>3 DEF InCallback
<1>6. ASSUME NEW j \in Urbs PROVE Outstanding(j)' <=> (j = i \/ Outstanding(j))
  BY <1>1, <1>3, <1>5 DEF Outstanding, Usb
<1>7. ASSUME NEW u \in Worker, Submits(u)' PROVE u = t
  <2>1. CASE u # t
    BY <1>2, <1>3, <1>7, <2>1, Alone DEF Submits
  <2> QED BY <2>1
<1> HIDE DEF i
<1>8. CallbackSound'
  <2>1. InCallback => usb'.urb[loc["client"].idx] = usb.urb[loc["client"].idx]
    BY <1>1, <1>3, <1>5 DEF IRun, Bulk, CallbackSound, Usb
  <2> QED BY <1>3, <1>5, <2>1 DEF IRun, Bulk, CallbackSound, InCallback
<1>9. SubmitSound'
  <2>1. pc'[t] = "inc_load" /\ loc'[t].idx = i /\ loc[t].idx = i
    BY <1>3 DEF i
  <2>2. \A j \in Urbs : j > i => ~Outstanding(j)'
    BY <1>1, <1>4, <1>6 DEF Urbs
  <2> QED BY <1>7, <2>1, <2>2 DEF SubmitSound, Incs
<1>10. BulkHeld'
  BY <1>2, <1>3 DEF BulkHeld, CanSubmit
<1>11. LiveExact'
  <2>1. t \notin Counting /\ i \notin Out
    BY <1>1, <1>4 DEF Counting, Out
  <2>2. {u \in Task : pc'[u] \in Incs} = Counting \cup {t}
    BY <1>3 DEF Counting, Incs
  <2>3. {j \in Urbs : Outstanding(j)'} = Out \cup {i}
    BY <1>1, <1>6 DEF Out
  <2>4. Cardinality(Counting \cup {t}) = Cardinality(Counting) + 1
    BY <2>1, CountFacts, FS_AddElement
  <2>5. Cardinality(Out \cup {i}) = Cardinality(Out) + 1
    BY <2>1, CountFacts, FS_AddElement
  <2>6. h'.live + Cardinality(Counting \cup {t}) = Cardinality(Out \cup {i})
    BY <1>3, <2>4, <2>5, CountFacts
  <2> QED BY <2>2, <2>3, <2>6 DEF LiveExact, Incs
<1> QED BY <1>8, <1>9, <1>10, <1>11 DEF Bulk

\* A count is read and written back with no callback counting in between.
LEMMA CountBulk ==
    ASSUME IRun, NEW t \in Worker, IncLoad(t) \/ IncStore(t)
    PROVE  Bulk'
<1> USE OwnFacts DEF Handle, Locals
<1> DEFINE i == loc[t].idx
<1>1. pc[t] \in Incs /\ t \in Counting
  BY DEF IncLoad, IncStore, Incs, Counting
<1>2. Submits(t) /\ Owning(t) /\ i \in Urbs /\ h.streaming
  BY <1>1, Busy DEF Submits, Sits, InBulk
<1>3. usb' = usb /\ Frame(t) /\ h'.pool = h.pool /\ h'.iface = h.iface
  BY DEF IncLoad, IncStore, Goto, Frame
<1>4. pc'["client"] = pc["client"] /\ loc'["client"] = loc["client"]
  BY <1>3, TaskNames DEF Frame, Task, Worker
<1>5. pc["client"] \notin {"cb_load", "cb_store"}
  BY <1>2 DEF IRun, Bulk, CallbackSound
<1>6. ASSUME NEW j \in Urbs PROVE Outstanding(j)' <=> Outstanding(j)
  BY <1>3, <1>4 DEF Outstanding, InCallback
<1>7. ASSUME NEW u \in Worker, Submits(u)' PROVE u = t
  <2>1. CASE u # t
    BY <1>2, <1>3, <1>7, <2>1, Alone DEF Submits, Frame, Worker, Task
  <2> QED BY <2>1
<1>8. \A j \in Urbs : j > i => ~Outstanding(j)
  BY <1>2 DEF IRun, Bulk, SubmitSound
<1>9. CallbackSound'
  BY <1>3, <1>4, <1>5 DEF IRun, Bulk, CallbackSound, InCallback
<1>10. BulkHeld'
  BY <1>3, <1>6 DEF IRun, Bulk, BulkHeld, AllReturned
<1>11. \A u \in Task \ {t} : pc'[u] \in Incs <=> pc[u] \in Incs
  BY <1>3 DEF Frame
<1>12. {j \in Urbs : Outstanding(j)'} = Out
  BY <1>6 DEF Out
<1>13. CASE IncLoad(t)
  <2>1. pc'[t] = "inc_store" /\ loc'[t].idx = i /\ loc'[t].tmp = h.live /\ h' = h
    BY <1>13 DEF IncLoad, Goto
  <2>2. SubmitSound'
    <3> HIDE DEF i
    <3>1. \A j \in Urbs : j > i => ~Outstanding(j)'
      BY <1>2, <1>6, <1>8
    <3> QED BY <1>7, <2>1, <3>1 DEF SubmitSound, Incs
  <2>3. {u \in Task : pc'[u] \in Incs} = Counting
    BY <1>1, <1>11, <2>1 DEF Counting, Incs
  <2>4. LiveExact'
    BY <1>12, <2>1, <2>3, CountFacts DEF LiveExact, Incs
  <2> QED BY <1>9, <1>10, <2>2, <2>4 DEF Bulk
<1>14. CASE IncStore(t)
  <2>1. pc[t] = "inc_store" /\ loc[t].tmp = h.live
    BY <1>2, <1>14 DEF IncStore, IRun, Bulk, SubmitSound
  <2>2. pc'[t] \notin Incs /\ loc'[t].idx = i + 1 /\ h'.live = h.live + 1
    BY <1>14, <2>1 DEF IncStore, Goto, Incs
  <2>3. SubmitSound'
    <3> HIDE DEF i
    <3>1. \A j \in Urbs : j > i => ~Outstanding(j)'
      BY <1>2, <1>6, <1>8
    <3>2. i \in Nat /\ \A j \in Urbs : j \in Nat
      BY <1>2 DEF Urbs
    <3>3. \A j \in Urbs : j > i + 1 \/ j = i + 1 => ~Outstanding(j)'
      BY <3>1, <3>2
    <3> QED BY <1>7, <2>2, <3>3 DEF SubmitSound, Submits, Incs
  <2>4. {u \in Task : pc'[u] \in Incs} = Counting \ {t}
    BY <1>1, <1>11, <2>2 DEF Counting
  <2>5. Cardinality(Counting \ {t}) = Cardinality(Counting) - 1
    BY <1>1, CountFacts, FS_RemoveElement
  <2>6. h'.live + Cardinality(Counting \ {t}) = Cardinality(Out)
    BY <2>2, <2>5, CountFacts
  <2>7. LiveExact'
    BY <1>12, <2>4, <2>6 DEF LiveExact, Incs
  <2> QED BY <1>9, <1>10, <2>3, <2>7 DEF Bulk
<1> QED BY <1>13, <1>14

-----------------------------------------------------------------------------
(* The callback and the host.                                               *)

\* The client task alone moves, and keeps its hands off the fields.
LEMMA CallbackMovesClient ==
    ASSUME IRun, Callback
    PROVE  /\ \A u \in Worker : pc'[u] = pc[u] /\ loc'[u] = loc[u]
           /\ \A t \in Worker : Submits(t)' <=> Submits(t)
           /\ h'.pool = h.pool /\ h'.iface = h.iface
<1>1. pc \in [Task -> PCs] /\ loc \in [Task -> Locals] /\ h \in Handle
      /\ "client" \in Task /\ "client" \notin Worker /\ Worker \subseteq Task
  BY TaskNames DEF IRun, IInv, TypeOK, Task, Worker
<1>2. ASSUME NEW i \in Urbs, CbBegin(i)
      PROVE  /\ \A u \in Worker : pc'[u] = pc[u] /\ loc'[u] = loc[u]
             /\ h'.pool = h.pool /\ h'.iface = h.iface
  BY <1>1, <1>2 DEF CbBegin, Goto
<1>3. CASE CbSubmit \/ CbLoad \/ CbStore
  <2>1. \A u \in Worker : pc'[u] = pc[u] /\ loc'[u] = loc[u]
    BY <1>1, <1>3 DEF CbSubmit, CbLoad, CbStore, Goto, Clear
  <2>2. h'.pool = h.pool /\ h'.iface = h.iface
    BY <1>1, <1>3 DEF CbSubmit, CbLoad, CbStore, Handle
  <2>3. \A t \in Worker : Submits(t)' <=> Submits(t)
    BY <2>1 DEF Submits
  <2> QED BY <2>1, <2>2, <2>3
<1>4. ASSUME NEW i \in Urbs, CbBegin(i)
      PROVE  \A t \in Worker : Submits(t)' <=> Submits(t)
  BY <1>2, <1>4 DEF Submits
<1> QED BY <1>2, <1>3, <1>4 DEF Callback

\* What is out stays out: a URB that came back is the callback's.
LEMMA CallbackKeeps ==
    ASSUME IRun, OpsFit', Callback, h'.live = h.live,
           \A j \in Urbs : Outstanding(j)' <=> Outstanding(j)
    PROVE  SubmitSound' /\ BulkHeld' /\ LiveExact'
<1>1. SubmitSound'
  <2> SUFFICES ASSUME NEW u \in Worker, Submits(u)'
               PROVE  (/\ \A j \in Urbs : j > loc[u].idx => ~Outstanding(j)
                       /\ pc[u] \notin Incs => ~Outstanding(loc[u].idx)
                       /\ pc[u] = "inc_store" => loc[u].tmp = h.live)'
    BY DEF SubmitSound
  <2>1. Submits(u) /\ pc'[u] = pc[u] /\ loc'[u] = loc[u] /\ loc[u].idx \in Urbs
    BY CallbackMovesClient DEF Submits
  <2>2. /\ \A j \in Urbs : j > loc[u].idx => ~Outstanding(j)
        /\ pc[u] \notin Incs => ~Outstanding(loc[u].idx)
        /\ pc[u] = "inc_store" => loc[u].tmp = h.live
    BY <2>1 DEF IRun, Bulk, SubmitSound
  <2> QED BY <2>1, <2>2 DEF Outstanding
<1>2. BulkHeld'
  BY CallbackMovesClient DEF IRun, Bulk, BulkHeld, AllReturned
<1>3. LiveExact'
  <2>1. pc["client"] \notin Incs /\ pc'["client"] \notin Incs
    BY DEF IRun, IInv, OpsFit, ClientPlaces, Task, Incs
  <2>2. {t \in Task : pc'[t] \in Incs} = {t \in Task : pc[t] \in Incs}
    BY <2>1, CallbackMovesClient DEF Worker, Task
  <2>3. {i \in Urbs : Outstanding(i)'} = {i \in Urbs : Outstanding(i)}
    OBVIOUS
  <2> QED BY <2>2, <2>3 DEF IRun, Bulk, LiveExact, Incs
<1> QED BY <1>1, <1>2, <1>3

\* A URB that came back is the callback's; it will be counted down only if nobody
\* submits: the stream has ended or is paused.
LEMMA CbBeginBulk ==
    ASSUME IRun, OpsFit', NEW i \in Urbs, CbBegin(i)
    PROVE  Bulk'
<1>1. "client" \in Task /\ pc \in [Task -> PCs] /\ loc \in [Task -> Locals] /\ h \in Handle
      /\ usb \in Usb
  BY DEF IRun, IInv, TypeOK, Task
<1>2. Callback
  BY DEF Callback
<1>3. usb.urb[i] \notin {"bad", "idle"} /\ ~h.gone
  BY DEF CbBegin, Outcomes, IRun, Seats, Well
<1>4. /\ h'.live = h.live
      /\ usb' = [usb EXCEPT !.urb[i] = "idle"] /\ loc'["client"].idx = i
      /\ pc'["client"] = IF h.streaming /\ ~h.pause THEN "cb_submit" ELSE "cb_load"
  BY <1>1, <1>3 DEF CbBegin, Goto, Handle, Locals
<1>5. ~InCallback /\ InCallback'
  BY <1>4 DEF CbBegin, InCallback
<1>6. ASSUME NEW j \in Urbs PROVE Outstanding(j)' <=> Outstanding(j)
  <2>1. usb'.urb[j] = IF j = i THEN "idle" ELSE usb.urb[j]
    BY <1>1, <1>4 DEF Usb
  <2> QED BY <2>1, <1>3, <1>4, <1>5 DEF Outstanding
<1>7. CallbackSound'
  <2>1. usb'.urb[i] = "idle"
    BY <1>1, <1>4 DEF Usb
  <2>2. pc'["client"] = "cb_load" => \A t \in Worker : ~Submits(t)'
    <3> SUFFICES ASSUME pc'["client"] = "cb_load", NEW t \in Worker PROVE ~Submits(t)'
      OBVIOUS
    <3>1. ~h.streaming \/ h.pause
      BY <1>4
    <3>2. ~Submits(t)
      BY <3>1, OwnFacts DEF Sits, InBulk
    <3> QED BY <1>2, <3>2, CallbackMovesClient
  <2> QED BY <1>4, <1>5, <2>1, <2>2 DEF CallbackSound
<1>8. SubmitSound' /\ BulkHeld' /\ LiveExact'
  BY <1>2, <1>4, <1>6, CallbackKeeps
<1> QED BY <1>7, <1>8 DEF Bulk

\* The URB goes back to the pipe.
LEMMA CbSubmitBulk ==
    ASSUME IRun, OpsFit', CbSubmit
    PROVE  Bulk'
<1>1. "client" \in Task /\ pc \in [Task -> PCs] /\ loc \in [Task -> Locals] /\ usb \in Usb
  BY DEF IRun, IInv, TypeOK, Task
<1>2. Callback
  BY DEF Callback
<1> DEFINE i == loc["client"].idx
<1>3. InCallback /\ i \in Urbs /\ usb.urb[i] = "idle" /\ CanSubmit(i)
  <2>1. InCallback
    BY DEF CbSubmit, InCallback
  <2> QED BY <2>1, Submittable DEF IRun, Bulk, CallbackSound
<1>4. h' = h /\ usb' = [usb EXCEPT !.urb[i] = "flight"] /\ pc'["client"] = "pump"
  BY <1>1, <1>3 DEF CbSubmit, Goto
<1> HIDE DEF i
<1>5. ~InCallback'
  BY <1>4 DEF InCallback
<1>6. ASSUME NEW j \in Urbs PROVE Outstanding(j)' <=> Outstanding(j)
  <2>1. usb'.urb[j] = IF j = i THEN "flight" ELSE usb.urb[j]
    BY <1>1, <1>3, <1>4 DEF Usb
  <2>2. Outstanding(j) <=> (usb.urb[j] # "idle" \/ j = i)
    BY <1>3 DEF Outstanding, i
  <2>3. Outstanding(j)' <=> usb'.urb[j] # "idle"
    BY <1>5 DEF Outstanding
  <2> QED BY <2>1, <2>2, <2>3
<1>7. CallbackSound'
  BY <1>4, <1>5 DEF CallbackSound
<1>8. SubmitSound' /\ BulkHeld' /\ LiveExact'
  BY <1>2, <1>4, <1>6, CallbackKeeps
<1> QED BY <1>7, <1>8 DEF Bulk

\* The callback reads a count that is not zero: its own URB is in it.
LEMMA CbLoadBulk ==
    ASSUME IRun, OpsFit', CbLoad
    PROVE  Bulk'
<1>1. "client" \in Task /\ pc \in [Task -> PCs] /\ loc \in [Task -> Locals]
  BY DEF IRun, IInv, TypeOK, Task
<1>2. Callback
  BY DEF Callback
<1>3. InCallback /\ loc["client"].idx \in Urbs /\ Outstanding(loc["client"].idx)
      /\ usb.urb[loc["client"].idx] = "idle" /\ \A t \in Worker : ~Submits(t)
  BY DEF CbLoad, InCallback, IRun, Bulk, CallbackSound, Outstanding
<1>4. h.live > 0
  <2>1. Counting = {}
    BY <1>3, CountFacts
  <2>2. h.live # 0
    BY <1>3, <2>1, NothingOut DEF AllReturned
  <2> QED BY <2>2, CountFacts
<1>5. /\ h' = h /\ usb' = usb /\ pc'["client"] = "cb_store"
      /\ loc'["client"].idx = loc["client"].idx /\ loc'["client"].tmp = h.live
  BY <1>1, <1>4 DEF CbLoad, Goto, Locals
<1>6. InCallback'
  BY <1>5 DEF InCallback
<1>7. ASSUME NEW j \in Urbs PROVE Outstanding(j)' <=> Outstanding(j)
  BY <1>3, <1>5, <1>6 DEF Outstanding
<1>8. CallbackSound'
  <2>1. \A t \in Worker : ~Submits(t)'
    BY <1>2, <1>3, CallbackMovesClient
  <2> QED BY <1>3, <1>5, <2>1 DEF CallbackSound
<1>9. SubmitSound' /\ BulkHeld' /\ LiveExact'
  BY <1>2, <1>5, <1>7, CallbackKeeps
<1> QED BY <1>8, <1>9 DEF Bulk

\* The URB is counted down, and is nobody's again.
LEMMA CbStoreBulk ==
    ASSUME IRun, OpsFit', CbStore
    PROVE  Bulk'
<1>1. "client" \in Task /\ pc \in [Task -> PCs] /\ loc \in [Task -> Locals] /\ h \in Handle
  BY DEF IRun, IInv, TypeOK, Task
<1>2. Callback
  BY DEF Callback
<1> DEFINE i == loc["client"].idx
<1>3. InCallback /\ i \in Urbs /\ usb.urb[i] = "idle" /\ loc["client"].tmp = h.live
      /\ \A t \in Worker : ~Submits(t)
  BY DEF CbStore, InCallback, IRun, Bulk, CallbackSound
<1>4. h'.live = h.live - 1 /\ usb' = usb /\ pc'["client"] = "pump"
  BY <1>1, <1>3 DEF CbStore, Goto, Handle
<1> HIDE DEF i
<1>5. ~InCallback'
  BY <1>4 DEF InCallback
<1>6. ASSUME NEW j \in Urbs PROVE Outstanding(j)' <=> (Outstanding(j) /\ j # i)
  <2>1. Outstanding(j) <=> (usb.urb[j] # "idle" \/ j = i)
    BY <1>3 DEF Outstanding, i
  <2>2. Outstanding(j)' <=> usb.urb[j] # "idle"
    BY <1>4, <1>5 DEF Outstanding
  <2> QED BY <1>3, <2>1, <2>2
<1>7. \A t \in Worker : ~Submits(t)'
  BY <1>2, <1>3, CallbackMovesClient
<1>8. CallbackSound'
  BY <1>4, <1>5 DEF CallbackSound
<1>9. SubmitSound'
  BY <1>7 DEF SubmitSound
<1>10. BulkHeld'
  BY <1>2, <1>6, CallbackMovesClient DEF IRun, Bulk, BulkHeld, AllReturned
<1>11. LiveExact'
  <2>1. Counting = {}
    BY <1>3, CountFacts
  <2>2. pc'["client"] \notin Incs
    BY <1>4 DEF Incs
  <2>3. {t \in Task : pc'[t] \in Incs} = {}
    <3>1. \A t \in Worker : pc[t] \notin Incs
      BY <2>1 DEF Counting, Worker, Task
    <3> QED BY <1>2, <2>2, <3>1, CallbackMovesClient DEF Worker, Task
  <2>4. {j \in Urbs : Outstanding(j)'} = Out \ {i}
    BY <1>6 DEF Out
  <2>5. i \in Out
    BY <1>3 DEF Out, Outstanding, i
  <2>6. Cardinality(Out \ {i}) = Cardinality(Out) - 1
    BY <2>5, CountFacts, FS_RemoveElement
  <2>7. Cardinality({}) = 0
    BY FS_EmptySet
  <2>8. h'.live + Cardinality({}) = Cardinality(Out \ {i})
    BY <1>4, <2>1, <2>6, <2>7, CountFacts
  <2> QED BY <2>3, <2>4, <2>8 DEF LiveExact, Incs
<1> QED BY <1>8, <1>9, <1>10, <1>11 DEF Bulk

\* A transfer that completes stays out until its callback is through.
LEMMA HostBulk ==
    ASSUME Undisturbed, IRun, Host
    PROVE  Bulk'
<1>1. UNCHANGED <<h, pc, loc>> /\ \E i \in Urbs : Complete(i)
  BY HostWell DEF Complete
<1>2. ASSUME NEW i \in Urbs PROVE (usb'.urb[i] = "idle") <=> (usb.urb[i] = "idle")
  BY <1>1, <1>2 DEF Complete, Flying, IRun, IInv, TypeOK, Usb
<1> QED BY <1>1, <1>2, QuietBulk DEF Quiet

-----------------------------------------------------------------------------
(* Every step keeps the invariant.                                          *)

\* A start begins with nothing out: an idle handle has no pool.
LEMMA IdleReturned ==
    ASSUME IRun, h.state = "IDLE"
    PROVE  ~h.streaming /\ ~h.pool /\ AllReturned /\ h.live = 0
<1>1. ~h.pool /\ AllReturned
  BY DEF IRun, Seats, StreamFits, Bulk, BulkHeld
<1>2. ~h.streaming
  BY <1>1 DEF IRun, Seats, StreamFits
<1> QED BY <1>1, <1>2, NothingOut

\* A step that changes nothing keeps everything.
LEMMA IdleStep ==
    ASSUME IRun, UNCHANGED vars
    PROVE  Seats' /\ Bulk'
<1> USE DEF IRun, vars
<1>1. Seats'
  BY DEF Seats, StreamFits, StartsAlone, Feeds, Sits, InCall, InPause, Stops, InStart,
     InBulk, Submits, Still, Well
<1>2. Bulk'
  BY QuietBulk DEF Quiet
<1> QED BY <1>1, <1>2

\* Every step keeps every task's seat ...
LEMMA SeatsKept ==
    ASSUME Undisturbed, IRun, Next, OpsFit'
    PROVE  Seats'
<1> "delivery" \in Worker /\ App \subseteq Worker
  BY DEF Worker
<1>1. CASE Host
  BY <1>1, HostSeats
<1>2. CASE Callback
  BY <1>2, CallbackSeats
<1>3. ASSUME NEW t \in Worker, Drain(t) \/ Resume(t) \/ Retune(t) PROVE Seats'
  BY <1>3, DrainSeats, ResumeSeats, RetuneSeats
<1>4. CASE Delivery
  <2>1. ~RecoverBegin /\ ~RecoverDrained
    BY OwnWell
  <2> QED BY <1>3, <1>4, <2>1, CheckSeats, SideSeats DEF Delivery
<1>5. ASSUME NEW a \in App, Begin(a) PROVE Seats'
  <2>1. CASE StartCall(a)
    BY <2>1, IdleReturned, StartCallSeats DEF StartCall
  <2> QED BY <1>5, <2>1, BeginSeats, ResetSeats DEF Begin
<1>6. ASSUME NEW a \in App, Continue(a) PROVE Seats'
  BY <1>3, <1>6, StartSeats, StopSeats, SetterSeats DEF Continue
<1> QED BY <1>1, <1>2, <1>4, <1>5, <1>6, NoneGone DEF Next

\* ... and the account of the URBs.
LEMMA BulkKept ==
    ASSUME Undisturbed, IRun, Next, OpsFit'
    PROVE  Bulk'
<1> "delivery" \in Worker /\ App \subseteq Worker
  BY DEF Worker
<1>1. CASE Host
  BY <1>1, HostBulk
<1>2. CASE Callback
  BY <1>2, CbBeginBulk, CbSubmitBulk, CbLoadBulk, CbStoreBulk DEF Callback
<1>3. ASSUME NEW t \in Worker, Resume(t) PROVE Bulk'
  BY <1>3, ResumeBeginBulk, SubmitBulk, ReleaseBulk, CountBulk DEF Resume
<1>4. ASSUME NEW t \in Worker, Drain(t) \/ Retune(t) PROVE Bulk'
  BY <1>4, DrainBulk, RetuneBulk
<1>5. CASE Delivery
  BY <1>3, <1>4, <1>5, OwnBulk DEF Delivery
<1>6. ASSUME NEW a \in App, Start(a) PROVE Bulk'
  BY <1>6, UnfedBulk, StartArmBulk, SubmitBulk, BeginBulk DEF Start
<1>7. ASSUME NEW a \in App, Continue(a) PROVE Bulk'
  BY <1>3, <1>4, <1>6, <1>7, StopBulk, BeginBulk DEF Continue
<1> QED BY <1>1, <1>2, <1>5, <1>7, BeginBulk, NoneGone DEF Next

\* Undisturbed, IRun is inductive.
LEMMA RunInductive == ASSUME Undisturbed PROVE IRun /\ [Next]_vars => IRun'
<1> SUFFICES ASSUME IRun, [Next]_vars PROVE IRun'
  OBVIOUS
<1>1. IInv' /\ OpsFit'
  BY Inductive DEF IRun, IInv
<1>2. Seats' /\ Bulk'
  BY <1>1, IdleStep, SeatsKept, BulkKept
<1> QED BY <1>1, <1>2 DEF IRun

\* A new handle satisfies the invariant.
LEMMA RunInit == ASSUME Undisturbed PROVE Init => IRun
<1> SUFFICES ASSUME Init PROVE IRun
  OBVIOUS
<1> USE TaskNames DEF Init, Fresh
<1>1. IInv
  BY InitInv
<1>2. pc["client"] = "pump" /\ pc["delivery"] = "none" /\ \A a \in App : pc[a] = "ready"
  BY DEF Task
<1>3. \A t \in Worker : pc[t] \in {"none", "ready"} /\ loc[t].op = "none"
  BY <1>2 DEF Worker, Task
<1>4. ASSUME NEW t \in Worker PROVE Sits(t)
  <2>1. InCall(t)
    <3>1. loc[t].op = "none" /\ pc[t] \notin Drains \cup Incs \cup {"ct_queue"}
      BY <1>3 DEF Drains, Incs
    <3> HIDE DEF Init
    <3> QED BY <3>1 DEF InCall
  <2>2. ~Owning(t)
    BY <1>3, TaskNames DEF Owning, Holds, InWindow, Worker
  <2>3. OpFits(pc[t], loc[t].op)
    BY <1>1 DEF IInv, OpsFit, Worker, Task
  <2> QED BY <2>1, <2>2, <2>3, Bystander
<1>5. StreamFits /\ Well
  BY DEF StreamFits, Well
<1>6. StartsAlone
  BY <1>3 DEF StartsAlone, Worker
<1>7. Seats
  BY <1>4, <1>5, <1>6 DEF Seats
<1>8. ~InCallback
  BY <1>2 DEF InCallback
<1>9. AllReturned
  BY <1>8 DEF AllReturned, Outstanding
<1>10. CallbackSound
  BY <1>2, <1>8 DEF CallbackSound
<1>11. SubmitSound
  BY <1>3 DEF SubmitSound, Submits, Incs
<1>12. LiveExact
  <2>1. {t \in Task : pc[t] \in {"inc_load", "inc_store"}} = {}
    BY <1>2 DEF Task
  <2>2. {i \in Urbs : Outstanding(i)} = {}
    BY <1>9 DEF AllReturned
  <2>3. Cardinality({}) = 0 /\ h.live = 0
    BY FS_EmptySet
  <2> HIDE DEF Init, Fresh
  <2> QED BY <2>1, <2>2, <2>3 DEF LiveExact
<1>13. Bulk
  BY <1>9, <1>10, <1>11, <1>12 DEF Bulk, BulkHeld
<1> QED BY <1>1, <1>7, <1>13 DEF IRun

\* The invariant of the undisturbed stream: in every state reached by any calls
\* of any tasks, whatever EP0 sequence fails and whatever wait runs out, who
\* works on the stream has it to himself, and its URBs, their count and their
\* pool fit what he does.
THEOREM StreamSound == ASSUME Undisturbed PROVE Spec => []IRun
<1>1. Init => IRun
  BY RunInit
<1>2. IRun /\ [Next]_vars => IRun'
  BY RunInductive
<1> QED BY <1>1, <1>2, PTL DEF Spec

\* 2791-2806, 1826-1841: undisturbed, the pool is never freed while the host or a
\* callback has one of its URBs: every path that frees it has seen all of them
\* returned, and nobody submits one in between.
THEOREM PoolSafe == ASSUME Undisturbed PROVE Spec => []NoFreeInFlight
<1>1. IRun => NoFreeInFlight
  BY DEF IRun, Bulk, BulkHeld, NoFreeInFlight
<1> QED BY <1>1, StreamSound, PTL

\* Undisturbed, live_urbs is exact: no increment of a submit loop and no
\* decrement of a callback, each a read and a write, is ever lost.
THEOREM CountExact == ASSUME Undisturbed PROVE Spec => []LiveExact
<1>1. IRun => LiveExact
  BY DEF IRun, Bulk
<1> QED BY <1>1, StreamSound, PTL

\* Undisturbed, a handle in STATE_STREAMING streams, from a claimed interface of
\* an open device into a pool.
THEOREM StreamingSound == ASSUME Undisturbed PROVE Spec => []StreamingIsReal
<1>1. IRun => StreamingIsReal
  BY DEF IRun, Seats, StreamFits, Well, StreamingIsReal
<1> QED BY <1>1, StreamSound, PTL

\* Undisturbed, an idle handle has no stream, no pool and no URB out: whatever
\* start, stop or reset failed on the way, nothing is left for a callback.
THEOREM IdleSound == ASSUME Undisturbed PROVE Spec => []IdleHasNoBulk
<1>1. IRun => IdleHasNoBulk
  BY IdleReturned DEF IdleHasNoBulk
<1> QED BY <1>1, StreamSound, PTL

\* Undisturbed, no bulk URB is in flight while a task works on EP0 inside its
\* window: the drain before it is complete and no callback resubmits meanwhile.
THEOREM Ep0Sound == ASSUME Undisturbed PROVE Spec => []Ep0Quiet
<1>1. IRun => Ep0Quiet
  <2> SUFFICES ASSUME IRun, NEW t \in Task, pc[t] \in {"ep0", "sp_ep0"}, NEW i \in Urbs
               PROVE  ~Flying(i)
    BY DEF Ep0Quiet
  <2>1. t \in Worker
    BY DEF IRun, IInv, OpsFit, ClientPlaces, Task, Worker
  <2>2. Still(t)
    BY DEF Still
  <2> QED BY <2>1, <2>2, StillReturned DEF AllReturned, Outstanding, Flying
<1> QED BY <1>1, StreamSound, PTL

-----------------------------------------------------------------------------
(* A stream that is not paused is fed.                                      *)

\* While the stream runs and is not paused, no callback takes its URB out of it,
\* and either a URB is out or a task is about to submit one.
Fed == h.streaming /\ ~h.pause =>
         /\ pc["client"] \notin {"cb_load", "cb_store"}
         /\ ~AllReturned \/ \E t \in Worker : Submits(t) /\ pc[t] \notin Incs

\* A step of a task that is not about to submit keeps it.
LEMMA CalmStep ==
    ASSUME IRun, Fed, NEW t \in Worker, Frame(t), ~(Submits(t) /\ pc[t] \notin Incs),
           usb' \in {usb, Expired(usb), Faulted(usb), Flushed(Expired(usb))},
           h'.streaming /\ ~h'.pause => h.streaming /\ ~h.pause
    PROVE  Fed'
<1>1. \A i \in Urbs : (usb'.urb[i] = "idle") <=> (usb.urb[i] = "idle")
  BY IdleUrbs
<1>2. pc'["client"] = pc["client"] /\ loc'["client"] = loc["client"]
  BY TaskNames DEF Frame, Task, Worker
<1>3. AllReturned' <=> AllReturned
  BY <1>1, <1>2 DEF AllReturned, Outstanding, InCallback
<1>4. ASSUME NEW u \in Worker, Submits(u), pc[u] \notin Incs
      PROVE  Submits(u)' /\ pc'[u] \notin Incs
  BY <1>4 DEF Frame, Task, Worker, Submits
<1> QED BY <1>2, <1>3, <1>4 DEF Fed

\* A step that begins to submit, with nothing out, keeps it.
LEMMA LaunchFed ==
    ASSUME IRun, NEW t \in Worker, Still(t), Frame(t), Submits(t)', pc'[t] \notin Incs
    PROVE  Fed'
<1>1. AllReturned
  BY StillReturned
<1>2. pc'["client"] = pc["client"]
  BY TaskNames DEF Frame, Task, Worker
<1>3. pc'["client"] \notin {"cb_load", "cb_store"}
  BY <1>1, <1>2 DEF IRun, Bulk, CallbackSound, AllReturned, Outstanding, InCallback
<1> QED BY <1>3 DEF Fed

\* A drain pauses the stream.
LEMMA DrainFed ==
    ASSUME IRun, Fed, NEW t \in Worker, Drain(t)
    PROVE  Fed'
<1> USE OwnFacts DEF Handle
<1>1. Frame(t) /\ ~Submits(t)
  BY DEF Drain, PollDone, PollExpire, PollGiveUp, PauseBulk, Goto, Frame, Submits, Incs
<1>2. h'.streaming = h.streaming /\ (h.pause => h'.pause)
  BY DEF Drain, PollDone, PollExpire, PollGiveUp, PauseBulk
<1>3. usb' \in {usb, Expired(usb), Flushed(Expired(usb))}
  BY DEF Drain, PollDone, PollExpire, PollGiveUp, PauseBulk
<1> QED BY <1>1, <1>2, <1>3, CalmStep

\* A resume ends the pause with a submit.
LEMMA ResumeBeginFed ==
    ASSUME IRun, Fed, NEW t \in Worker, ResumeBegin(t)
    PROVE  Fed'
<1> USE OwnFacts DEF Handle
<1>1. Frame(t) /\ usb' = usb /\ h'.streaming = h.streaming /\ pc[t] = "resume"
  BY DEF ResumeBegin, Goto, Frame
<1>2. Still(t) /\ ~Submits(t)
  BY <1>1 DEF Still, Submits, Incs
<1>3. CASE ~h.streaming
  BY <1>1, <1>3 DEF Fed
<1>4. CASE h.streaming
  <2>1. h.pool
    BY <1>4 DEF IRun, Seats, StreamFits
  <2>2. CASE h' = h
    BY <1>1, <1>2, <2>2, CalmStep
  <2>3. CASE h' # h
    <3>1. loc' = [loc EXCEPT ![t].idx = 1] /\ pc' = [pc EXCEPT ![t] = "rs_submit"]
      BY <1>4, <2>1, <2>3 DEF ResumeBegin, Goto
    <3>2. loc'[t].idx = 1 /\ pc'[t] = "rs_submit"
      BY <3>1 DEF Locals
    <3>3. 1 \in Urbs
      BY UrbCount DEF Urbs
    <3>4. Submits(t)' /\ pc'[t] \notin Incs
      BY <3>2, <3>3 DEF Submits, Incs
    <3> QED BY <1>1, <1>2, <3>4, LaunchFed
  <2> QED BY <2>2, <2>3
<1> QED BY <1>3, <1>4

\* A submit sends a URB out.
LEMMA SubmitFed ==
    ASSUME IRun, Fed, NEW t \in Worker, ResumeSubmit(t) \/ (t \in App /\ StartSubmit(t))
    PROVE  Fed'
<1> USE OwnFacts DEF Handle
<1> DEFINE i == loc[t].idx
<1>1. Submits(t) /\ pc[t] \notin Incs /\ i \in Urbs
  BY DEF ResumeSubmit, StartSubmit, Submits, Incs
<1>2. CanSubmit(i)
  BY <1>1, Submittable
<1>3. usb' = [usb EXCEPT !.urb[i] = "flight"] /\ h' = h /\ pc' = [pc EXCEPT ![t] = "inc_load"]
  BY <1>2 DEF ResumeSubmit, StartSubmit, Goto
<1>4. usb'.urb[i] = "flight"
  BY <1>1, <1>3 DEF Usb
<1>5. ~AllReturned'
  BY <1>1, <1>4 DEF AllReturned, Outstanding
<1>6. pc'["client"] = pc["client"]
  BY <1>3
<1> QED BY <1>3, <1>5, <1>6 DEF Fed

\* Counting, and the end of a resume and of a window, take nothing away.
LEMMA CountFed ==
    ASSUME IRun, Fed, NEW t \in Worker, IncLoad(t) \/ IncStore(t) \/ ResumeEnd(t) \/ Release(t)
    PROVE  Fed'
<1> USE OwnFacts DEF Handle
<1>1. Frame(t)
  BY DEF IncLoad, IncStore, ResumeEnd, Release, Goto, Clear, Frame
<1>2. ~(Submits(t) /\ pc[t] \notin Incs)
  BY DEF IncLoad, IncStore, ResumeEnd, Release, Submits, Incs
<1>3. usb' = usb /\ h'.streaming = h.streaming /\ h'.pause = h.pause
  BY DEF IncLoad, IncStore, ResumeEnd, Release
<1> QED BY <1>1, <1>2, <1>3, CalmStep

\* A retune lifts the pause only of a stream that has ended.
LEMMA RetuneFed ==
    ASSUME IRun, Fed, NEW t \in Worker, Retune(t)
    PROVE  Fed'
<1> USE OwnFacts DEF Handle
<1>1. Frame(t) /\ ~Submits(t)
  BY DEF Retune, RetuneEnter, RetuneTake, RetuneDrained, RetuneEp0, Goto, Clear, Frame,
     Submits, Incs
<1>2. usb' \in {usb, Faulted(usb)}
  BY DEF Retune, RetuneEnter, RetuneTake, RetuneDrained, RetuneEp0
<1>3. h'.streaming /\ ~h'.pause => h.streaming /\ ~h.pause
  BY DEF Retune, RetuneEnter, RetuneTake, RetuneDrained, RetuneEp0
<1> QED BY <1>1, <1>2, <1>3, CalmStep

\* The delivery task's own loop.
LEMMA OwnFed ==
    ASSUME IRun, Fed,
           CheckStall \/ CheckRetune \/ CheckSide \/ Emit \/ RecoverBegin
           \/ RecoverDrained \/ SideEnter \/ SideDrained \/ SideEp0
    PROVE  Fed'
<1> DEFINE d == "delivery"
<1>0. d \in Worker /\ ~RecoverBegin /\ ~RecoverDrained
  BY OwnWell DEF Worker
<1> USE <1>0, OwnFacts DEF Handle
<1>1. Frame(d) /\ ~Submits(d)
  BY DEF CheckStall, CheckRetune, CheckSide, Emit, DeliveryStep, SideEnter, SideDrained,
     SideEp0, Goto, Clear, Frame, Submits, Incs
<1>2. (h'.streaming => h.streaming) /\ h'.pause = h.pause
  BY DEF CheckStall, CheckRetune, CheckSide, Emit, DeliveryStep, SideEnter, SideDrained, SideEp0
<1>3. usb' \in {usb, Faulted(usb)}
  BY DEF CheckStall, CheckRetune, CheckSide, Emit, DeliveryStep, SideEnter, SideDrained, SideEp0
<1> QED BY <1>1, <1>2, <1>3, CalmStep

\* A stop lifts the pause after it has ended the stream.
LEMMA StopFed ==
    ASSUME IRun, Fed, NEW a \in App, Stop(a)
    PROVE  Fed'
<1>1. a \in Worker
  BY DEF Worker
<1> USE <1>1, OwnFacts DEF Handle
<1>2. Frame(a) /\ ~Submits(a)
  BY DEF Stop, StopTake, StopMark, StopDrained, StopCleanup, StopFree, StopReturn, Goto,
     ClearIf, Frame, Submits, Incs
<1>3. usb' = usb
  BY DEF Stop, StopTake, StopMark, StopDrained, StopCleanup, StopFree
<1>4. CASE StopDrained(a)
  <2>1. ~h.streaming
    BY <1>4 DEF StopDrained, Sits, InPause, Stops, Drains
  <2>2. h'.streaming = h.streaming
    BY <1>4 DEF StopDrained
  <2> QED BY <2>1, <2>2 DEF Fed
<1>5. CASE ~StopDrained(a)
  <2>1. (h'.streaming => h.streaming) /\ (h.pause => h'.pause)
    BY <1>5 DEF Stop, StopTake, StopMark, StopCleanup, StopFree
  <2> QED BY <1>2, <1>3, <2>1, CalmStep
<1> QED BY <1>4, <1>5

\* A start that has not armed the stream has none.
LEMMA UnfedFed ==
    ASSUME IRun, NEW a \in App,
           StartClaim(a) \/ StartEp0(a) \/ StartAlloc(a) \/ AllocDrained(a) \/ StartFreeOld(a)
           \/ StartPool(a) \/ StartFailTail(a)
    PROVE  Fed'
<1>1. a \in Worker
  BY DEF Worker
<1> USE <1>1, OwnFacts DEF Handle
<1>2. ~AllocDrained(a)
  BY DEF AllocDrained, Sits, InCall
<1>3. loc[a].op = "start" /\ pc[a] \notin {"st_submit"} \cup Incs
  BY <1>2 DEF StartClaim, StartEp0, StartAlloc, StartFreeOld, StartPool, StartFailTail,
     OpFits, Incs
<1>4. ~h.streaming
  BY <1>3 DEF Sits, InStart, Feeds
<1>5. h'.streaming = h.streaming
  BY <1>2 DEF StartClaim, StartEp0, StartAlloc, StartFreeOld, StartPool, StartFailTail
<1> QED BY <1>4, <1>5 DEF Fed

\* Arming begins to submit.
LEMMA StartArmFed ==
    ASSUME IRun, Fed, NEW a \in App, StartArm(a)
    PROVE  Fed'
<1>1. a \in Worker
  BY DEF Worker
<1> USE <1>1, OwnFacts DEF Handle
<1>2. pc[a] = "st_arm" /\ Still(a) /\ loc[a].op = "start" /\ ~h.streaming
  BY DEF StartArm, Still, Setup, OpFits, Sits, InStart, Feeds, Incs
<1>3. CASE Goto(a, "st_submit") /\ loc' = [loc EXCEPT ![a].idx = 1]
  <2>1. loc'[a].idx = 1 /\ pc'[a] = "st_submit" /\ Frame(a)
    BY <1>3 DEF Goto, Locals, Frame
  <2>2. 1 \in Urbs
    BY UrbCount DEF Urbs
  <2>3. Submits(a)' /\ pc'[a] \notin Incs
    BY <2>1, <2>2 DEF Submits, Incs
  <2> QED BY <1>2, <2>1, <2>3, LaunchFed
<1>4. CASE \E f \in Freqs : h' = Armed(f)
  BY <1>2, <1>4 DEF Armed, Fed
<1> QED BY <1>3, <1>4 DEF StartArm

\* Calls begin, setters return, a start ends.
LEMMA BeginFed ==
    ASSUME IRun, Fed, NEW a \in App,
           Begin(a) \/ ControlQueue(a) \/ ControlEp0(a) \/ StartEnd(a)
    PROVE  Fed'
<1>1. a \in Worker
  BY DEF Worker
<1> USE <1>1, OwnFacts DEF Handle
<1>2. CASE StartEnd(a)
  <2>1. Frame(a) /\ usb' = usb /\ h'.streaming = h.streaming /\ h'.pause = h.pause
    BY <1>2 DEF StartEnd, Goto, Clear, Frame
  <2>2. h.streaming => ~Submits(a)
    BY <1>2 DEF StartEnd, Submits, Incs, IRun, Seats, StreamFits
  <2>3. CASE h.streaming
    BY <2>1, <2>2, <2>3, CalmStep
  <2>4. CASE ~h.streaming
    BY <2>1, <2>4 DEF Fed
  <2> QED BY <2>3, <2>4
<1>3. CASE Begin(a) \/ ControlQueue(a) \/ ControlEp0(a)
  <2>1. Frame(a) /\ ~Submits(a)
    BY <1>3 DEF Begin, StartCall, StopCall, Reset, RetuneCall, ControlCall, ControlQueue,
       ControlEp0, Call, Enter, Goto, Clear, Frame, Submits, Incs
  <2>2. usb' = usb /\ h'.streaming = h.streaming /\ h'.pause = h.pause
    BY <1>3 DEF Begin, StartCall, StopCall, Reset, RetuneCall, ControlCall, ControlQueue,
       ControlEp0
  <2> QED BY <2>1, <2>2, CalmStep
<1> QED BY <1>2, <1>3

\* A callback that finds the stream running submits its URB again.
LEMMA CallbackFed ==
    ASSUME IRun, Fed, Callback
    PROVE  Fed'
<1> USE DEF IRun, IInv, TypeOK, Handle, Usb, Seats, Well
<1>1. "client" \in Task
  BY DEF Task
<1>2. ASSUME NEW i \in Urbs, CbBegin(i) PROVE Fed'
  <2>1. usb.urb[i] # "bad" /\ ~h.gone
    OBVIOUS
  <2>2. h'.streaming = h.streaming /\ h'.pause = h.pause
    BY <1>2, <2>1 DEF CbBegin
  <2>3. h.streaming /\ ~h.pause => pc'["client"] = "cb_submit"
    BY <1>1, <1>2, <2>1 DEF CbBegin, Goto
  <2>4. loc'["client"].idx = i
    BY <1>1, <1>2 DEF CbBegin, Locals
  <2>5. h.streaming /\ ~h.pause => ~AllReturned'
    BY <2>3, <2>4 DEF AllReturned, Outstanding, InCallback
  <2> QED BY <2>2, <2>3, <2>5 DEF Fed
<1>3. CASE CbSubmit
  <2>1. loc["client"].idx \in Urbs /\ CanSubmit(loc["client"].idx)
    BY <1>3, Submittable DEF CbSubmit, InCallback, Bulk, CallbackSound
  <2>2. usb'.urb[loc["client"].idx] = "flight" /\ h' = h /\ pc'["client"] = "pump"
    BY <1>1, <1>3, <2>1 DEF CbSubmit, Goto
  <2>3. ~AllReturned'
    BY <2>1, <2>2 DEF AllReturned, Outstanding
  <2> QED BY <2>2, <2>3 DEF Fed
<1>4. CASE CbLoad \/ CbStore
  <2>1. pc["client"] \in {"cb_load", "cb_store"}
    BY <1>4 DEF CbLoad, CbStore
  <2>2. h'.streaming = h.streaming /\ h'.pause = h.pause
    BY <1>4 DEF CbLoad, CbStore
  <2> QED BY <2>1, <2>2 DEF Fed
<1> QED BY <1>2, <1>3, <1>4 DEF Callback

\* A transfer that completes stays out.
LEMMA HostFed ==
    ASSUME Undisturbed, IRun, Fed, Host
    PROVE  Fed'
<1>1. UNCHANGED <<h, pc, loc>> /\ \E i \in Urbs : Complete(i)
  BY HostWell DEF Complete
<1>2. ASSUME NEW i \in Urbs PROVE (usb'.urb[i] = "idle") <=> (usb.urb[i] = "idle")
  BY <1>1, <1>2 DEF Complete, Flying, IRun, IInv, TypeOK, Usb
<1>3. AllReturned' <=> AllReturned
  BY <1>1, <1>2 DEF AllReturned, Outstanding, InCallback
<1> QED BY <1>1, <1>3 DEF Fed, Submits

\* Every step keeps the stream fed.
LEMMA FedKept == ASSUME Undisturbed, IRun, Fed, [Next]_vars PROVE Fed'
<1> "delivery" \in Worker /\ App \subseteq Worker
  BY DEF Worker
<1>1. CASE UNCHANGED vars
  BY <1>1 DEF vars, Fed, AllReturned, Outstanding, InCallback, Submits
<1>2. ASSUME NEW t \in Worker, Drain(t) \/ Resume(t) \/ Retune(t) PROVE Fed'
  BY <1>2, DrainFed, ResumeBeginFed, SubmitFed, CountFed, RetuneFed DEF Resume
<1>3. CASE Delivery
  BY <1>2, <1>3, OwnFed DEF Delivery
<1>4. ASSUME NEW a \in App, Start(a) PROVE Fed'
  BY <1>4, UnfedFed, StartArmFed, SubmitFed, BeginFed DEF Start
<1>5. ASSUME NEW a \in App, Continue(a) PROVE Fed'
  BY <1>2, <1>4, <1>5, StopFed, BeginFed DEF Continue
<1> QED BY <1>1, <1>3, <1>5, HostFed, CallbackFed, BeginFed, NoneGone DEF Next

\* 2446: undisturbed, a stream in STATE_STREAMING that nobody has paused has a URB
\* out, or a task in the window that is about to submit one: no end of a drain, of
\* a resume or of a callback leaves it without.
THEOREM NeverSilent == ASSUME Undisturbed PROVE Spec => []NoSilentStream
<1>1. Init => Fed
  BY DEF Init, Fed
<1>2. IRun /\ Fed => NoSilentStream
  <2> SUFFICES ASSUME IRun, Fed, h.state = "STREAMING", h.streaming, ~h.pause, ~h.busy,
                      AllReturned
               PROVE  FALSE
    BY DEF NoSilentStream
  <2>1. PICK t \in Worker : Submits(t) /\ pc[t] \notin Incs
    BY DEF Fed
  <2>2. Owning(t)
    BY <2>1, Busy
  <2>3. ~Holds(t)
    BY <2>1, OwnFacts DEF IRun, IInv, WindowExclusive
  <2>4. loc[t].op = "start"
    BY <2>2, <2>3 DEF Owning
  <2> QED BY <2>4, OwnFacts DEF Sits, InStart
<1> QED BY <1>1, <1>2, RunInit, RunInductive, FedKept, PTL DEF Spec
=============================================================================
