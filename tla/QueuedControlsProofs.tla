------------------------- MODULE QueuedControlsProofs -------------------------
(***************************************************************************)
(* Proofs about QueuedControls: types, the bias-T after a stop, and that a *)
(* request is never lost between a setter and the delivery task.           *)
(*                                                                         *)
(* The second rests on TurnsKept: outside a stream nothing is queued and   *)
(* no bias call runs.  The third follows each control's last request on    *)
(* its way: queued, then taken by apply_pending_sideband_ep0, then set.    *)
(* For bias, AGC and width that is PlainDue.  The tuner has two flags, and *)
(* MANUAL takes its step from gain_tenth_db, so TunerDue says where the    *)
(* step is (StepQueued, StepTaken, StepKept), or that AUTO, or no step in  *)
(* particular, is due.                                                     *)
(***************************************************************************)
EXTENDS QueuedControls, WellFoundedInduction, TLAPS

Places == {"none", "look", "queue", "direct", "settle"}
Stages == {"none", "copied", "drain", "bias", "tuner", "agc", "width"}

\* What TypeOK leaves open: the shapes of the functions, and that a value that
\* is queued, taken or being set is one of its control.
Shapes ==
    /\ val \in [Flags -> Nat]
    /\ call \in [Tasks -> [op: Flags \cup {"none"}, v: Nat, at: Places, ok: BOOLEAN]]
    /\ job \in [at: Stages, do: SUBSET Flags, val: [Flags -> Nat]]
    /\ job.at = "none" => job = NoJob
    /\ \A t \in Tasks : call[t].op # "none" => call[t].v \in Values(call[t].op)
    /\ \A t \in Tasks : call[t].at \in {"look", "queue"} => call[t].op \in {"bias", "mode", "gain"}
    /\ \A t \in Tasks : call[t].at = "direct" => call[t].op \in {"bias", "mode", "gain", "agc"}
    /\ \A f \in pend \cup job.do : val[f] \in Values(f)
    /\ \A f \in job.do : job.val[f] \in Values(f)

\* An idle handle has nobody in the window.
IdleIsFree == st = "idle" => busy = "none"

Typed == TypeOK /\ Shapes /\ IdleIsFree

\* With TakeTurns: who queues sees a stream, who writes by itself does not, and
\* outside a stream nothing is queued and no bias call runs.
TurnsKept ==
    /\ \A t \in Tasks : call[t].at = "queue" => st = "streaming"
    /\ \A t \in Tasks : call[t].at = "direct" => st # "streaming"
    /\ st # "streaming" => /\ pend = {} /\ want.bias = 0
                           /\ \A t \in Tasks : call[t].op # "bias"
    /\ st = "idle" /\ "bias" \notin troubled => hw.bias = 0

IBias == Typed /\ TurnsKept

\* The stages of the delivery task at which control f, if copied, is still to do.
Before(f) == {"copied", "drain", "bias"}
             \cup (IF f \in {"mode", "gain"} THEN {"tuner"} ELSE {})
             \cup (IF f = "agc" THEN {"tuner", "agc"} ELSE {})
             \cup (IF f = "width" THEN {"tuner", "agc", "width"} ELSE {})
Todo(f) == f \in job.do /\ job.at \in Before(f)

\* With Quick: between copy and clear nothing is queued; at most a queued gain
\* mode is cancelled.
CopyIsFresh ==
    job.at = "copied" =>
        job.val = val /\ pend \subseteq job.do /\ job.do \ pend \subseteq {"mode"}

\* With OneTuner: one task at most sets gain or gain mode.
OneAtTuner ==
    \A t, u \in Tasks :
        {call[t].op, call[u].op} \subseteq {"gain", "mode"} => t = u

\* What was last queued for bias, AGC or width is queued, being written, or set.
PlainDue(c) ==
    IF c \in pend THEN val[c] = last[c]
    ELSE IF Todo(c) THEN val[c] = last[c] /\ job.val[c] = last[c]
    ELSE hw[c] = last[c]

\* The same for the tuner, when a step, AUTO or whatever step is due.
StepQueued == "gain" \in pend /\ val["gain"] = last.tuner
StepTaken ==
    /\ "gain" \notin pend /\ Todo("gain") /\ job.val["gain"] = last.tuner
    /\ "mode" \in pend => val["mode"] = 1
StepKept ==
    /\ "gain" \notin pend /\ ~Todo("gain") /\ last.tuner \in Gains /\ gain = last.tuner
    /\ "mode" \in pend => val["mode"] = 1
    /\ Todo("mode") => job.val["mode"] = 1
    /\ "mode" \in pend \/ Todo("mode") \/ hw.tuner = last.tuner
AutoDue ==
    /\ last.tuner = AutoGain /\ "gain" \notin pend
    /\ "mode" \in pend => val["mode"] = 0
    /\ "mode" \notin pend => /\ ~Todo("gain")
                             /\ Todo("mode") => job.val["mode"] = 0
                             /\ ~Todo("mode") => hw.tuner = AutoGain
AnyDue ==
    /\ last.tuner = AnyStep /\ "gain" \notin pend
    /\ "mode" \in pend => val["mode"] = 1
    /\ "mode" \notin pend =>
         \/ Todo("gain")
         \/ Todo("mode") /\ job.val["mode"] = 1
         \/ ~Todo("gain") /\ ~Todo("mode") /\ hw.tuner # AutoGain
TunerDue == StepQueued \/ StepTaken \/ StepKept \/ AutoDue \/ AnyDue

\* A gain call has cancelled a queued AUTO before it queues its own step.
GainComing ==
    \E t \in Tasks : call[t].op = "gain" /\ call[t].at \in {"look", "queue"}
GainSettles ==
    \A t \in Tasks : call[t].op = "gain" /\ call[t].at = "settle" => last.tuner = call[t].v

PlainServed == st = "streaming" => \A c \in {"bias", "agc", "width"} \ troubled : PlainDue(c)
TunerServed ==
    st = "streaming" /\ "tuner" \notin troubled => GainSettles /\ (GainComing \/ TunerDue)

IServed == IBias /\ CopyIsFresh /\ OneAtTuner /\ PlainServed /\ TunerServed

-----------------------------------------------------------------------------
\* MANUAL writes a step of the ladder, and the last one set if there is one.
LEMMA StepIsStep == gain \in Gains \cup {0} => Step \in Gains /\ (gain # 0 => Step = gain)
<1>1. Gains \subseteq Nat /\ Gains # {}  BY ControlSets
<1> DEFINE R == OpToRel(<, Nat)
<1>2. \E g \in Gains : \A k \in Gains : ~ (<<k, g>> \in R)
  <2>1. IsWellFoundedOn(R, Nat)  BY NatLessThanWellFounded
  <2> HIDE DEF R
  <2> QED  BY <1>1, <2>1, WFMin
<1>3. PICK g \in Gains : \A k \in Gains : ~ (<<k, g>> \in R)  BY <1>2
<1>4. ASSUME NEW k \in Gains  PROVE g <= k
  <2>1. k \in Nat /\ g \in Nat  BY <1>1
  <2>2. ~ (k < g)
    <3>1. ~ (<<k, g>> \in R)  BY <1>3
    <3> QED  BY <3>1, <2>1 DEF OpToRel
  <2> QED  BY <2>1, <2>2
<1>5. \E h \in Gains : \A k \in Gains : h <= k  BY <1>4
<1> HIDE DEF R
<1> QED  BY <1>5 DEF Step

\* One lemma per action: it keeps the types.
LEMMA LookTyped == ASSUME NEW t \in Tasks, Typed, Look(t) PROVE Typed'
BY ControlSets, ControlBounds, StepIsStep DEF Look, Typed, TypeOK, Shapes, IdleIsFree, Flags,
   Controls, Values, Places, Stages, NoCall, NoJob, settings, history, AutoGain, AnyStep, Goto,
   In

LEMMA QueueTyped == ASSUME NEW t \in Tasks, Typed, Queue(t) PROVE Typed'
BY ControlSets, ControlBounds, StepIsStep DEF Queue, Typed, TypeOK, Shapes, IdleIsFree, Flags,
   Controls, Control, Values, Places, Stages, NoCall, NoJob, AutoGain, AnyStep, Goto, In, Meant

LEMMA DirectTyped == ASSUME NEW t \in Tasks, Typed, Direct(t) PROVE Typed'
<1>1. call[t] \in [op: Flags \cup {"none"}, v: Nat, at: Places, ok: BOOLEAN] /\ call[t].at = "direct"
  BY DEF Typed, Shapes, Direct, In
<1>2. call[t].op \in {"bias", "mode", "gain", "agc"} /\ call[t].v \in Values(call[t].op)
  BY <1>1 DEF Typed, TypeOK, Shapes, Flags, NoCall
<1>3. gain \in Gains \cup {0} /\ Step \in Gains  BY StepIsStep DEF Typed, TypeOK
<1>4. PICK w : /\ w = IF call[t].op \in {"bias", "agc"} THEN call[t].v ELSE TunerOf(call[t].op, call[t].v)
               /\ hw' = [hw EXCEPT ![Control(call[t].op)] = w] /\ last' = [last EXCEPT ![Control(call[t].op)] = w]
               /\ told' = IF Control(call[t].op) = "tuner" THEN w ELSE told
  BY DEF Direct
<1>5. w \in IF call[t].op \in {"bias", "agc"} THEN {0, 1} ELSE Gains \cup {AutoGain}
  BY <1>2, <1>3, <1>4 DEF Values, TunerOf, AutoGain
<1>6. {hw', last'} \subseteq [bias: {0, 1}, tuner: Gains \cup {AutoGain, AnyStep}, agc: {0, 1}, width: Widths]
  BY <1>2, <1>4, <1>5 DEF Typed, TypeOK, Control
<1>7. told' \in Gains \cup {AutoGain, AnyStep}
  BY <1>2, <1>4, <1>5 DEF Typed, TypeOK, Control
<1>8. auto' \in BOOLEAN /\ gain' \in Gains \cup {0}
  BY <1>3 DEF Direct, Typed, TypeOK
<1> QED
  BY <1>1, <1>6, <1>7, <1>8 DEF Direct, Goto, In, Typed, TypeOK, Shapes, IdleIsFree, Flags,
     Controls, Control, Values, Places, Stages, NoCall, NoJob, settings, history, AutoGain,
     AnyStep

LEMMA DirectFailsTyped == ASSUME NEW t \in Tasks, Typed, DirectFails(t) PROVE Typed'
<1>1. call[t] \in [op: Flags \cup {"none"}, v: Nat, at: Places, ok: BOOLEAN] /\ call[t].at = "direct"
  BY DEF Typed, Shapes, DirectFails, In
<1>2. call[t].op \in {"bias", "mode", "gain", "agc"}
  BY <1>1 DEF Typed, TypeOK, Shapes, Flags, NoCall
<1>3. hw' \in [bias: {0, 1}, tuner: Gains \cup {AutoGain, AnyStep}, agc: {0, 1}, width: Widths]
  BY DEF DirectFails, Typed, TypeOK
<1>4. troubled' \subseteq Controls /\ faults' \in 0..MaxFaults
  BY <1>2, ControlBounds DEF DirectFails, Typed, TypeOK, Controls, Control
<1>5. /\ call' = [call EXCEPT ![t].at = "settle", ![t].ok = FALSE]
      /\ UNCHANGED <<st, busy, pend, val, mode, auto, gain, want, job, last, told, ops>>
  BY DEF DirectFails, settings
<1>6. /\ call' \in [Tasks -> [op: Flags \cup {"none"}, v: Nat, at: Places, ok: BOOLEAN]]
      /\ call'[t] = [op |-> call[t].op, v |-> call[t].v, at |-> "settle", ok |-> FALSE]
      /\ \A u \in Tasks \ {t} : call'[u] = call[u]
  BY <1>1, <1>5 DEF Typed, Shapes, Places
<1>7. \A u \in Tasks : /\ call'[u].op \in Flags \cup {"none"}
                       /\ call'[u].at \in {"none", "look", "queue", "direct", "settle"}
                       /\ (call'[u].at = "none" <=> call'[u] = NoCall)
  BY <1>6 DEF Typed, TypeOK, NoCall, Places
<1>8. TypeOK'
  BY <1>3, <1>4, <1>5, <1>7 DEF Typed, TypeOK
<1>9. Shapes' /\ IdleIsFree'
  BY <1>1, <1>5, <1>6 DEF Typed, Shapes, IdleIsFree
<1> QED  BY <1>8, <1>9 DEF Typed

LEMMA SettleTyped == ASSUME NEW t \in Tasks, Typed, Settle(t) PROVE Typed'
BY ControlSets, ControlBounds, StepIsStep DEF Settle, Typed, TypeOK, Shapes, IdleIsFree, Flags,
   Controls, Values, Places, Stages, NoCall, NoJob, history, AutoGain, AnyStep, Leave, In

LEMMA SetBiasTyped == ASSUME NEW t \in Tasks, NEW v \in {0, 1}, Typed, SetBias(t, v) PROVE Typed'
BY ControlSets, ControlBounds, StepIsStep DEF SetBias, Typed, TypeOK, Shapes, IdleIsFree, Flags,
   Controls, Values, Places, Stages, NoCall, NoJob, history, AutoGain, AnyStep, Enter

LEMMA SetModeTyped == ASSUME NEW t \in Tasks, NEW v \in {0, 1}, Typed, SetMode(t, v) PROVE Typed'
BY ControlSets, ControlBounds, StepIsStep DEF SetMode, Typed, TypeOK, Shapes, IdleIsFree, Flags,
   Controls, Values, Places, Stages, NoCall, NoJob, settings, history, AutoGain, AnyStep, Enter,
   TunerFree, Already

LEMMA SetModeAgainTyped == ASSUME NEW t \in Tasks, NEW v \in {0, 1}, Typed, SetModeAgain(t, v) PROVE Typed'
BY ControlSets, ControlBounds, StepIsStep DEF SetModeAgain, Typed, TypeOK, Shapes, IdleIsFree,
   Flags, Controls, Values, Places, Stages, NoCall, NoJob, settings, AutoGain, AnyStep, Meant,
   Already

LEMMA SetAgcTyped == ASSUME NEW t \in Tasks, NEW v \in {0, 1}, Typed, SetAgc(t, v) PROVE Typed'
<1>1. CASE st = "streaming"
  <2>1. /\ pend' = pend \cup {"agc"} /\ val' = [val EXCEPT !["agc"] = v] /\ last' = [last EXCEPT !["agc"] = v]
        /\ want' = [want EXCEPT !.agc = v] /\ UNCHANGED call
    BY <1>1 DEF SetAgc, QueueLocked
  <2>2. last' \in [bias: {0, 1}, tuner: Gains \cup {AutoGain, AnyStep}, agc: {0, 1}, width: Widths]
    BY <2>1 DEF Typed, TypeOK
  <2>3. /\ val' \in [Flags -> Nat] /\ val'["agc"] = v
        /\ \A f \in Flags : val'[f] \in Values(f) \cup {0}
        /\ \A f \in pend' \cup job.do : val'[f] \in Values(f)
    BY <2>1 DEF Typed, TypeOK, Shapes, Flags, Values
  <2>4. want' \in [bias: {0, 1}, agc: {0, 1}] /\ pend' \subseteq Flags
    BY <2>1 DEF Typed, TypeOK, Flags
  <2>5. UNCHANGED <<st, busy, mode, auto, gain, hw, call, job, told, troubled, faults>> /\ ops' \in 0..MaxOps
    BY <1>1, <2>1, ControlBounds DEF SetAgc, Typed, TypeOK
  <2>6. TypeOK'
    BY <2>2, <2>3, <2>4, <2>5 DEF Typed, TypeOK
  <2>7. Shapes' /\ IdleIsFree'
    BY <2>3, <2>5 DEF Typed, Shapes, IdleIsFree, Values
  <2> QED  BY <2>6, <2>7 DEF Typed
<1>2. CASE st # "streaming"
  <2>1. /\ call' = [call EXCEPT ![t] = [op |-> "agc", v |-> v, at |-> "direct", ok |-> TRUE]]
        /\ UNCHANGED <<pend, val, last, want, st, busy, mode, auto, gain, hw, job, told, troubled, faults>>
        /\ ops' \in 0..MaxOps
    BY <1>2, ControlBounds DEF SetAgc, Typed, TypeOK
  <2>2. /\ call' \in [Tasks -> [op: Flags \cup {"none"}, v: Nat, at: Places, ok: BOOLEAN]]
        /\ call'[t] = [op |-> "agc", v |-> v, at |-> "direct", ok |-> TRUE]
        /\ \A u \in Tasks \ {t} : call'[u] = call[u]
    BY <2>1 DEF Typed, Shapes, Places, Flags
  <2>3. \A u \in Tasks : /\ call'[u].op \in Flags \cup {"none"}
                         /\ call'[u].at \in {"none", "look", "queue", "direct", "settle"}
                         /\ (call'[u].at = "none" <=> call'[u] = NoCall)
    BY <2>2 DEF Typed, TypeOK, NoCall, Flags
  <2>4. TypeOK'  BY <2>1, <2>3 DEF Typed, TypeOK
  <2>5. v \in Values("agc")  BY DEF Values
  <2>6. Shapes' /\ IdleIsFree'  BY <2>1, <2>2, <2>5 DEF Typed, Shapes, IdleIsFree
  <2> QED  BY <2>4, <2>6 DEF Typed
<1> QED  BY <1>1, <1>2

LEMMA CopyTyped == ASSUME Typed, Copy PROVE Typed'
BY ControlSets, ControlBounds, StepIsStep DEF Copy, Typed, TypeOK, Shapes, IdleIsFree, Flags,
   Controls, Values, Places, Stages, NoCall, NoJob, settings, history, AutoGain, AnyStep

LEMMA ClearTyped == ASSUME Typed, Clear PROVE Typed'
BY ControlSets, ControlBounds, StepIsStep DEF Clear, Typed, TypeOK, Shapes, IdleIsFree, Flags,
   Controls, Values, Places, Stages, NoCall, NoJob, settings, history, AutoGain, AnyStep

LEMMA DrainedTyped == ASSUME Typed, Drained PROVE Typed'
BY ControlSets, ControlBounds, StepIsStep DEF Drained, Typed, TypeOK, Shapes, IdleIsFree, Flags,
   Controls, Values, Places, Stages, NoCall, NoJob, settings, history, AutoGain, AnyStep

LEMMA PutBackTyped == ASSUME Typed, PutBack PROVE Typed'
BY ControlSets, ControlBounds, StepIsStep DEF PutBack, Typed, TypeOK, Shapes, IdleIsFree, Flags,
   Controls, Values, Places, Stages, NoCall, NoJob, settings, AutoGain, AnyStep

LEMMA SkipTyped == ASSUME Typed, Skip PROVE Typed'
BY ControlSets, ControlBounds, StepIsStep DEF Skip, Typed, TypeOK, Shapes, IdleIsFree, Flags,
   Controls, Values, Places, Stages, NoCall, NoJob, settings, history, AutoGain, AnyStep,
   Onward, Turn, Wanted

LEMMA ApplyTyped == ASSUME Typed, Apply PROVE Typed'
<1>1. gain \in Gains \cup {0} /\ Step \in Gains /\ Gains \subseteq Nat \ {0}
  BY StepIsStep, ControlSets DEF Typed, TypeOK
<1>2. PICK w : /\ w = IF job.at = "tuner" THEN Target ELSE job.val[job.at]
               /\ hw' = [hw EXCEPT ![job.at] = w]
               /\ IF job.at = "tuner"
                  THEN /\ auto' = (w = AutoGain) /\ mode' = (IF w = AutoGain THEN 0 ELSE 1)
                       /\ gain' = IF w = AutoGain THEN gain ELSE w
                  ELSE UNCHANGED <<mode, auto, gain>>
               /\ want' = IF job.at = "bias" THEN [want EXCEPT !.bias = w] ELSE want
  BY DEF Apply
<1>3. job.at \in {"bias", "tuner", "agc", "width"}  BY DEF Apply
<1>4. CASE job.at = "tuner"
  <2>1. w \in Gains \cup {AutoGain}
    BY <1>1, <1>2, <1>4 DEF Target, Typed, Shapes, Values, Flags
  <2>2. hw' \in [bias: {0, 1}, tuner: Gains \cup {AutoGain, AnyStep}, agc: {0, 1}, width: Widths]
    BY <1>2, <1>4, <2>1 DEF Typed, TypeOK
  <2>3. auto' \in BOOLEAN /\ mode' \in {0, 1} /\ gain' \in Gains \cup {0} /\ want' = want
    BY <1>1, <1>2, <1>4, <2>1 DEF AutoGain
  <2> QED
    BY <1>4, <2>2, <2>3 DEF Apply, Onward, Turn, Typed, TypeOK, Shapes, IdleIsFree, Flags,
       Controls, Control, Values, Places, Stages, NoCall, NoJob, settings, history, AutoGain,
       AnyStep
<1>5. CASE job.at # "tuner"
  <2>1. w \in Values(job.at)
    BY <1>2, <1>3, <1>5 DEF Apply, Wanted, Typed, Shapes
  <2>2. hw' \in [bias: {0, 1}, tuner: Gains \cup {AutoGain, AnyStep}, agc: {0, 1}, width: Widths]
    BY <1>2, <1>3, <1>5, <2>1 DEF Typed, TypeOK, Values
  <2>3. want' \in [bias: {0, 1}, agc: {0, 1}]
    BY <1>2, <1>3, <1>5, <2>1 DEF Typed, TypeOK, Values
  <2> QED
    BY <1>2, <1>3, <1>5, <2>2, <2>3 DEF Apply, Onward, Turn, Typed, TypeOK, Shapes,
       IdleIsFree, Flags, Controls, Control, Values, Places, Stages, NoCall, NoJob, settings,
       history, AutoGain, AnyStep
<1> QED  BY <1>4, <1>5

LEMMA ApplyFailsTyped == ASSUME Typed, ApplyFails PROVE Typed'
BY ControlSets, ControlBounds, StepIsStep DEF ApplyFails, Typed, TypeOK, Shapes, IdleIsFree,
   Flags, Controls, Values, Places, Stages, NoCall, NoJob, AutoGain, AnyStep, Onward, Turn,
   Wanted, Target

LEMMA StopBeginsTyped == ASSUME Typed, StopBegins PROVE Typed'
BY ControlSets, ControlBounds, StepIsStep DEF StopBegins, Typed, TypeOK, Shapes, IdleIsFree,
   Flags, Controls, Values, Places, Stages, NoCall, NoJob, history, AutoGain, AnyStep, NoSetter

LEMMA StopEndsTyped == ASSUME Typed, StopEnds PROVE Typed'
BY ControlSets, ControlBounds, StepIsStep DEF StopEnds, Typed, TypeOK, Shapes, IdleIsFree,
   Flags, Controls, Values, Places, Stages, NoCall, NoJob, settings, AutoGain, AnyStep

LEMMA StartTyped == ASSUME Typed, Start PROVE Typed'
BY ControlSets, ControlBounds, StepIsStep DEF Start, Typed, TypeOK, Shapes, IdleIsFree, Flags,
   Controls, Values, Places, Stages, NoCall, NoJob, settings, AutoGain, AnyStep, NoSetter

LEMMA SetGainTyped == ASSUME NEW t \in Tasks, NEW v \in Gains, Typed, SetGain(t, v) PROVE Typed'
<1>1. /\ call' = [call EXCEPT ![t] = [op |-> "gain", v |-> v, at |-> "look", ok |-> TRUE]]
      /\ mode' = 1 /\ auto' = FALSE /\ pend' = pend \ {"mode"}
      /\ UNCHANGED <<val, last, want, st, busy, gain, hw, job, told, troubled, faults>>
      /\ ops' \in 0..MaxOps
  BY ControlBounds DEF SetGain, Enter, Typed, TypeOK, history
<1>2. v \in Nat /\ v \in Values("gain")  BY ControlSets DEF Values
<1>3. /\ call' \in [Tasks -> [op: Flags \cup {"none"}, v: Nat, at: Places, ok: BOOLEAN]]
      /\ call'[t] = [op |-> "gain", v |-> v, at |-> "look", ok |-> TRUE]
      /\ \A u \in Tasks \ {t} : call'[u] = call[u]
  BY <1>1, <1>2 DEF Typed, Shapes, Places, Flags
<1>4. \A u \in Tasks : /\ call'[u].op \in Flags \cup {"none"}
                       /\ call'[u].at \in {"none", "look", "queue", "direct", "settle"}
                       /\ (call'[u].at = "none" <=> call'[u] = NoCall)
  BY <1>3 DEF Typed, TypeOK, NoCall, Flags
<1>5. TypeOK'  BY <1>1, <1>4 DEF Typed, TypeOK
<1>6. Shapes' /\ IdleIsFree'  BY <1>1, <1>2, <1>3 DEF Typed, Shapes, IdleIsFree
<1> QED  BY <1>5, <1>6 DEF Typed

LEMMA SetWidthTyped == ASSUME NEW t \in Tasks, NEW v \in Widths, Typed, SetWidth(t, v) PROVE Typed'
BY ControlSets, ControlBounds DEF SetWidth, Typed, TypeOK, Shapes, IdleIsFree, Flags, Controls,
   Values, Places, Stages, NoCall, NoJob, settings, AutoGain, AnyStep, QueueLocked

LEMMA StutterTyped == ASSUME Typed, UNCHANGED vars PROVE Typed'
BY DEF vars, Typed, TypeOK, Shapes, IdleIsFree, Flags, Controls, Values, Places, Stages, NoCall,
   NoJob, settings, history, AutoGain, AnyStep

LEMMA InitTyped == ASSUME Init PROVE Typed
<1>1. {hw, last} \subseteq [bias: {0, 1}, tuner: Gains \cup {AutoGain, AnyStep}, agc: {0, 1}, width: Widths]
  BY ControlSets DEF Init, Off, AutoGain
<1>2. want \in [bias: {0, 1}, agc: {0, 1}]  BY DEF Init
<1>3. ops \in 0..MaxOps /\ faults \in 0..MaxFaults  BY ControlBounds DEF Init
<1>4. job \in [at: Stages, do: SUBSET Flags, val: [Flags -> Nat]] /\ job.at = "none" /\ job.do = {}
  BY DEF Init, NoJob, Stages
<1>5. val \in [Flags -> Nat] /\ \A f \in Flags : val[f] \in Values(f) \cup {0}  BY DEF Init
<1>6. /\ call \in [Tasks -> [op: Flags \cup {"none"}, v: Nat, at: Places, ok: BOOLEAN]]
      /\ \A t \in Tasks : call[t] = NoCall /\ call[t].op = "none" /\ call[t].at = "none"
  BY DEF Init, NoCall, Places
<1>7. TypeOK
  <2>1. \A t \in Tasks : /\ call[t].op \in Flags \cup {"none"}
                        /\ call[t].at \in {"none", "look", "queue", "direct", "settle"}
                        /\ (call[t].at = "none" <=> call[t] = NoCall)
    BY <1>6
  <2>2. told \in Gains \cup {AutoGain, AnyStep} /\ troubled \subseteq Controls /\ gain \in Gains \cup {0}
    BY DEF Init
  <2> QED  BY <1>1, <1>2, <1>3, <1>4, <1>5, <2>1, <2>2 DEF TypeOK, Init
<1>8. Shapes  BY <1>4, <1>5, <1>6 DEF Shapes, Init
<1>9. IdleIsFree  BY DEF IdleIsFree, Init
<1> QED  BY <1>7, <1>8, <1>9 DEF Typed

\* So does every step.
LEMMA TypesKept == ASSUME Typed, [Next]_vars PROVE Typed'
BY LookTyped, QueueTyped, DirectTyped, DirectFailsTyped, SettleTyped, SetBiasTyped, SetModeTyped, SetModeAgainTyped, SetAgcTyped,
   SetGainTyped,
   SetWidthTyped, CopyTyped, ClearTyped, DrainedTyped, PutBackTyped, SkipTyped, ApplyTyped, ApplyFailsTyped, StopBeginsTyped, StopEndsTyped,
   StartTyped, StutterTyped DEF Next

\* TypeOK, with the shapes, holds for any tasks, gains and widths, whatever the
\* application does (handle fields of esp_rtl_sdr.cpp 418-431).
THEOREM TypeSafe == Spec => []TypeOK
<1>1. Init => Typed  BY InitTyped
<1>2. Typed /\ [Next]_vars => Typed'  BY TypesKept
<1>3. Typed => TypeOK  BY DEF Typed
<1> QED  BY <1>1, <1>2, <1>3, PTL DEF Spec

-----------------------------------------------------------------------------
\* The stream starts with no call under way.
LEMMA TurnsInit == ASSUME Init PROVE TurnsKept
BY DEF Init, TurnsKept, NoCall

\* No call is cut in two by a stop or a start, so where it looked stays true.
LEMMA TurnsStep == ASSUME TakeTurns, Typed, TurnsKept, [Next]_vars PROVE TurnsKept'
<1> USE DEF Typed, TypeOK, Shapes, IdleIsFree, TurnsKept, NoCall, Places
<1>1. ASSUME NEW t \in Tasks, NEW v \in Gains, SetGain(t, v) PROVE TurnsKept'
  BY <1>1 DEF SetGain, Enter, history
<1>2. ASSUME NEW t \in Tasks, NEW v \in {0, 1}, SetBias(t, v) PROVE TurnsKept'
  BY <1>2 DEF SetBias, Enter, history
<1>3. ASSUME NEW t \in Tasks, NEW v \in {0, 1}, SetMode(t, v) PROVE TurnsKept'
  BY <1>3 DEF SetMode, Enter, settings, history
<1>4. ASSUME NEW t \in Tasks, NEW v \in {0, 1}, SetModeAgain(t, v) PROVE TurnsKept'
  BY <1>4 DEF SetModeAgain, settings
<1>5. ASSUME NEW t \in Tasks, NEW v \in {0, 1}, SetAgc(t, v) PROVE TurnsKept'
  BY <1>5 DEF SetAgc, QueueLocked
<1>6. ASSUME NEW t \in Tasks, NEW v \in Widths, SetWidth(t, v) PROVE TurnsKept'
  BY <1>6 DEF SetWidth, QueueLocked, settings
<1>7. ASSUME NEW t \in Tasks, Look(t) PROVE TurnsKept'
  BY <1>7 DEF Look, In, Goto, settings, history
<1>8. ASSUME NEW t \in Tasks, Queue(t) PROVE TurnsKept'
  BY <1>8 DEF Queue, In, Goto
<1>9. ASSUME NEW t \in Tasks, Direct(t) PROVE TurnsKept'
  BY <1>9 DEF Direct, In, Goto, Control
<1>10. ASSUME NEW t \in Tasks, DirectFails(t) PROVE TurnsKept'
  BY <1>10 DEF DirectFails, In, settings, Control
<1>11. ASSUME NEW t \in Tasks, Settle(t) PROVE TurnsKept'
  BY <1>11 DEF Settle, In, Leave, history
<1>12. CASE Copy  BY <1>12 DEF Copy, settings, history
<1>13. CASE Clear  BY <1>13 DEF Clear, settings, history
<1>14. CASE Drained  BY <1>14 DEF Drained, settings, history
<1>15. CASE PutBack  BY <1>15 DEF PutBack, NoJob, settings
<1>16. CASE Skip  BY <1>16 DEF Skip, settings, history
<1>17. CASE Apply  BY <1>17 DEF Apply, history
<1>18. CASE ApplyFails  BY <1>18 DEF ApplyFails
<1>19. CASE StopBegins  BY <1>19 DEF StopBegins, NoSetter, history
<1>20. CASE StopEnds  BY <1>20 DEF StopEnds, settings
<1>21. CASE Start  BY <1>21 DEF Start, NoSetter, settings
<1>22. CASE UNCHANGED vars  BY <1>22 DEF vars, settings, history
<1> QED
  BY <1>1, <1>2, <1>3, <1>4, <1>5, <1>6, <1>7, <1>8, <1>9, <1>10, <1>11, <1>12, <1>13, <1>14, <1>15,
     <1>16, <1>17, <1>18, <1>19, <1>20, <1>21, <1>22 DEF Next

\* The bias-T is off after a stop that did not fail, and nothing asks for it, if
\* the application takes turns (stop_stream_internal, API_REFERENCE.md 1263).
THEOREM BiasIsOff == ASSUME TakeTurns PROVE Spec => []BiasOffStopped
<1>1. Init => IBias  BY InitTyped, TurnsInit DEF IBias
<1>2. IBias /\ [Next]_vars => IBias'  BY TypesKept, TurnsStep DEF IBias
<1>3. IBias => BiasOffStopped
  BY DEF IBias, TurnsKept, BiasOffStopped
<1> QED  BY <1>1, <1>2, <1>3, PTL DEF Spec

\* apply_pending_sideband_ep0 does bias, tuner, AGC, width, in this order.
LEMMA OnwardMoves ==
    ASSUME Typed, job.at \in {"bias", "tuner", "agc", "width"}, Onward
    PROVE  /\ job.at = "width" => job' = NoJob
           /\ job.at = "bias" => job'.at = "tuner"
           /\ job.at = "tuner" => job'.at = "agc"
           /\ job.at = "agc" => job'.at = "width"
           /\ job.at # "width" => job'.do = job.do /\ job'.val = job.val
BY DEF Typed, Shapes, Onward, Turn

\* Between copy and clear the queue only loses a gain mode.
LEMMA CopyStep == ASSUME Quick, Typed, TurnsKept, CopyIsFresh, [Next]_vars PROVE CopyIsFresh'
<1> USE DEF Typed, TypeOK, Shapes, IdleIsFree, TurnsKept, CopyIsFresh, Stages
<1>1. ASSUME NEW t \in Tasks, NEW v \in Gains, SetGain(t, v) PROVE CopyIsFresh'
  BY <1>1 DEF SetGain, Enter, TunerFree, history
<1>2. ASSUME NEW t \in Tasks, NEW v \in {0, 1}, SetBias(t, v) PROVE CopyIsFresh'
  BY <1>2 DEF SetBias, Enter, history
<1>3. ASSUME NEW t \in Tasks, NEW v \in {0, 1}, SetMode(t, v) PROVE CopyIsFresh'
  BY <1>3 DEF SetMode, Enter, TunerFree, settings, history
<1>4. ASSUME NEW t \in Tasks, NEW v \in {0, 1}, SetModeAgain(t, v) PROVE CopyIsFresh'
  BY <1>4 DEF SetModeAgain, settings
<1>5. ASSUME NEW t \in Tasks, NEW v \in {0, 1}, SetAgc(t, v) PROVE CopyIsFresh'
  BY <1>5 DEF SetAgc, QueueLocked
<1>6. ASSUME NEW t \in Tasks, NEW v \in Widths, SetWidth(t, v) PROVE CopyIsFresh'
  BY <1>6 DEF SetWidth, QueueLocked, settings
<1>7. ASSUME NEW t \in Tasks, Look(t) PROVE CopyIsFresh'
  BY <1>7 DEF Look, In, Goto, settings, history
<1>8. ASSUME NEW t \in Tasks, Queue(t) PROVE CopyIsFresh'
  BY <1>8 DEF Queue, In, Goto
<1>9. ASSUME NEW t \in Tasks, Direct(t) PROVE CopyIsFresh'
  BY <1>9 DEF Direct, In, Goto, Control
<1>10. ASSUME NEW t \in Tasks, DirectFails(t) PROVE CopyIsFresh'
  BY <1>10 DEF DirectFails, In, settings, Control
<1>11. ASSUME NEW t \in Tasks, Settle(t) PROVE CopyIsFresh'
  BY <1>11 DEF Settle, In, Leave, history
<1>12. CASE Copy  BY <1>12 DEF Copy, settings, history
<1>13. CASE Clear  BY <1>13 DEF Clear, settings, history
<1>14. CASE Drained  BY <1>14 DEF Drained, settings, history
<1>15. CASE PutBack  BY <1>15 DEF PutBack, NoJob, settings
<1>16. CASE Skip
  <2>1. job'.at # "copied"  BY <1>16, OnwardMoves DEF Skip, NoJob
  <2> QED  BY <2>1
<1>17. CASE Apply
  <2>1. job'.at # "copied"  BY <1>17, OnwardMoves DEF Apply, NoJob
  <2> QED  BY <2>1
<1>18. CASE ApplyFails
  <2>1. job'.at # "copied"  BY <1>18, OnwardMoves DEF ApplyFails, NoJob
  <2> QED  BY <2>1
<1>19. CASE StopBegins
  <2>1. job'.at # "copied"  BY <1>19 DEF StopBegins
  <2> QED  BY <2>1
<1>20. CASE StopEnds  BY <1>20 DEF StopEnds, settings
<1>21. CASE Start  BY <1>21 DEF Start, NoSetter, settings
<1>22. CASE UNCHANGED vars  BY <1>22 DEF vars, settings, history
<1> QED
  BY <1>1, <1>2, <1>3, <1>4, <1>5, <1>6, <1>7, <1>8, <1>9, <1>10, <1>11, <1>12, <1>13, <1>14,
     <1>15, <1>16, <1>17, <1>18, <1>19, <1>20, <1>21, <1>22 DEF Next

\* The guard of a gain or gain mode call keeps others out until it has settled.
LEMMA OneStep == ASSUME OneTuner, Typed, OneAtTuner, [Next]_vars PROVE OneAtTuner'
<1> USE DEF Typed, TypeOK, Shapes, OneAtTuner, Places, NoCall
<1>1. ASSUME NEW t \in Tasks, NEW v \in Gains, SetGain(t, v) PROVE OneAtTuner'
  BY <1>1 DEF SetGain, Enter, TunerFree, history
<1>2. ASSUME NEW t \in Tasks, NEW v \in {0, 1}, SetBias(t, v) PROVE OneAtTuner'
  BY <1>2 DEF SetBias, Enter, history
<1>3. ASSUME NEW t \in Tasks, NEW v \in {0, 1}, SetMode(t, v) PROVE OneAtTuner'
  BY <1>3 DEF SetMode, Enter, TunerFree, settings, history
<1>4. ASSUME NEW t \in Tasks, NEW v \in {0, 1}, SetModeAgain(t, v) PROVE OneAtTuner'
  BY <1>4 DEF SetModeAgain, settings
<1>5. ASSUME NEW t \in Tasks, NEW v \in {0, 1}, SetAgc(t, v) PROVE OneAtTuner'
  BY <1>5 DEF SetAgc, QueueLocked
<1>6. ASSUME NEW t \in Tasks, NEW v \in Widths, SetWidth(t, v) PROVE OneAtTuner'
  BY <1>6 DEF SetWidth, QueueLocked, settings
<1>7. ASSUME NEW t \in Tasks, Look(t) PROVE OneAtTuner'
  BY <1>7 DEF Look, In, Goto, settings, history
<1>8. ASSUME NEW t \in Tasks, Queue(t) PROVE OneAtTuner'
  BY <1>8 DEF Queue, In, Goto
<1>9. ASSUME NEW t \in Tasks, Direct(t) PROVE OneAtTuner'
  BY <1>9 DEF Direct, In, Goto, Control
<1>10. ASSUME NEW t \in Tasks, DirectFails(t) PROVE OneAtTuner'
  BY <1>10 DEF DirectFails, In, settings, Control
<1>11. ASSUME NEW t \in Tasks, Settle(t) PROVE OneAtTuner'
  BY <1>11 DEF Settle, In, Leave, history
<1>12. CASE Copy  BY <1>12 DEF Copy, settings, history
<1>13. CASE Clear  BY <1>13 DEF Clear, settings, history
<1>14. CASE Drained  BY <1>14 DEF Drained, settings, history
<1>15. CASE PutBack  BY <1>15 DEF PutBack, NoJob, settings
<1>16. CASE Skip  BY <1>16 DEF Skip, Onward, Turn, settings, history
<1>17. CASE Apply  BY <1>17 DEF Apply, Onward, Turn, history
<1>18. CASE ApplyFails  BY <1>18 DEF ApplyFails, Onward, Turn
<1>19. CASE StopBegins  BY <1>19 DEF StopBegins, history
<1>20. CASE StopEnds  BY <1>20 DEF StopEnds, settings
<1>21. CASE Start  BY <1>21 DEF Start, NoSetter, settings
<1>22. CASE UNCHANGED vars  BY <1>22 DEF vars, settings, history
<1> QED
  BY <1>1, <1>2, <1>3, <1>4, <1>5, <1>6, <1>7, <1>8, <1>9, <1>10, <1>11, <1>12, <1>13, <1>14,
     <1>15, <1>16, <1>17, <1>18, <1>19, <1>20, <1>21, <1>22 DEF Next

\* Bias, AGC and width: a newer request replaces an older one in the queue, one
\* that was taken is put back or written, and no third thing happens to it.
LEMMA PlainStep ==
    ASSUME Quick, TakeTurns, Typed, TurnsKept, CopyIsFresh, PlainServed, [Next]_vars PROVE PlainServed'
<1> USE DEF Typed, TypeOK, Shapes, IdleIsFree, TurnsKept, CopyIsFresh, PlainServed, PlainDue,
   Todo, Before
<1>1. ASSUME NEW t \in Tasks, NEW v \in Gains, SetGain(t, v) PROVE PlainServed'
  BY <1>1 DEF SetGain, Enter, TunerFree, history
<1>2. ASSUME NEW t \in Tasks, NEW v \in {0, 1}, SetBias(t, v) PROVE PlainServed'
  BY <1>2 DEF SetBias, Enter, history
<1>3. ASSUME NEW t \in Tasks, NEW v \in {0, 1}, SetMode(t, v) PROVE PlainServed'
  BY <1>3 DEF SetMode, Enter, TunerFree, settings, history
<1>4. ASSUME NEW t \in Tasks, NEW v \in {0, 1}, SetModeAgain(t, v) PROVE PlainServed'
  BY <1>4 DEF SetModeAgain, settings
<1>5. ASSUME NEW t \in Tasks, NEW v \in {0, 1}, SetAgc(t, v) PROVE PlainServed'
  <2> SUFFICES ASSUME st' = "streaming", NEW c \in {"bias", "agc", "width"} \ troubled' PROVE PlainDue(c)'
    OBVIOUS
  <2>1. /\ st = "streaming" /\ c \notin troubled /\ PlainDue(c)
        /\ pend' = pend \cup {"agc"} /\ val' = [val EXCEPT !["agc"] = v] /\ last' = [last EXCEPT !["agc"] = v]
        /\ UNCHANGED <<hw, job>>
    BY <1>5 DEF SetAgc, QueueLocked
  <2>2. CASE c = "agc"
    <3>1. c \in pend' /\ val'[c] = v  BY <2>1, <2>2 DEF Flags
    <3>2. last'[c] = v  BY <2>1, <2>2
    <3> QED  BY <3>1, <3>2
  <2>3. CASE c # "agc"
    <3>1. val'[c] = val[c] /\ last'[c] = last[c] /\ (c \in pend' <=> c \in pend)
      BY <2>1, <2>3
    <3>2. job' = job /\ hw' = hw  BY <2>1
    <3> QED  BY <2>1, <3>1, <3>2
  <2> QED  BY <2>2, <2>3
<1>6. ASSUME NEW t \in Tasks, NEW v \in Widths, SetWidth(t, v) PROVE PlainServed'
  <2> SUFFICES ASSUME st' = "streaming", NEW c \in {"bias", "agc", "width"} \ troubled' PROVE PlainDue(c)'
    OBVIOUS
  <2>1. /\ st = "streaming" /\ c \notin troubled /\ PlainDue(c)
        /\ pend' = pend \cup {"width"} /\ val' = [val EXCEPT !["width"] = v] /\ last' = [last EXCEPT !["width"] = v]
        /\ UNCHANGED <<hw, job>>
    BY <1>6 DEF SetWidth, QueueLocked
  <2>2. CASE c = "width"
    <3>1. c \in pend' /\ val'[c] = v  BY <2>1, <2>2 DEF Flags
    <3>2. last'[c] = v  BY <2>1, <2>2
    <3> QED  BY <3>1, <3>2
  <2>3. CASE c # "width"
    <3>1. val'[c] = val[c] /\ last'[c] = last[c] /\ (c \in pend' <=> c \in pend)
      BY <2>1, <2>3
    <3>2. job' = job /\ hw' = hw  BY <2>1
    <3> QED  BY <2>1, <3>1, <3>2
  <2> QED  BY <2>2, <2>3
<1>7. ASSUME NEW t \in Tasks, Look(t) PROVE PlainServed'
  BY <1>7 DEF Look, In, Goto, settings, history
<1>8. ASSUME NEW t \in Tasks, Queue(t) PROVE PlainServed'
  BY <1>8 DEF Queue, In, Goto, Control
<1>9. ASSUME NEW t \in Tasks, Direct(t) PROVE PlainServed'
  BY <1>9 DEF Direct, In, Goto, Control
<1>10. ASSUME NEW t \in Tasks, DirectFails(t) PROVE PlainServed'
  BY <1>10 DEF DirectFails, In, settings, Control
<1>11. ASSUME NEW t \in Tasks, Settle(t) PROVE PlainServed'
  BY <1>11 DEF Settle, In, Leave, history
<1>12. CASE Copy  BY <1>12 DEF Copy, settings, history
<1>13. CASE Clear  BY <1>13 DEF Clear, settings, history
<1>14. CASE Drained  BY <1>14 DEF Drained, settings, history
<1>15. CASE PutBack  BY <1>15 DEF PutBack, NoJob, settings
<1>16. CASE Skip  BY <1>16, OnwardMoves DEF Skip, Wanted, NoJob, settings, history
<1>17. CASE Apply  BY <1>17, OnwardMoves DEF Apply, Wanted, NoJob, history
<1>18. CASE ApplyFails  BY <1>18, OnwardMoves DEF ApplyFails, Wanted, NoJob
<1>19. CASE StopBegins  BY <1>19 DEF StopBegins, history
<1>20. CASE StopEnds  BY <1>20 DEF StopEnds, settings
<1>21. CASE Start  BY <1>21 DEF Start, NoSetter, NoJob, settings
<1>22. CASE UNCHANGED vars  BY <1>22 DEF vars, settings, history
<1> QED
  BY <1>1, <1>2, <1>3, <1>4, <1>5, <1>6, <1>7, <1>8, <1>9, <1>10, <1>11, <1>12, <1>13, <1>14,
     <1>15, <1>16, <1>17, <1>18, <1>19, <1>20, <1>21, <1>22 DEF Next

\* A step after which the same is due at the tuner.
TunerAlone ==
    /\ \A f \in {"gain", "mode"} : /\ f \in pend' <=> f \in pend
                                   /\ Todo(f)' <=> Todo(f)
                                   /\ val'[f] = val[f] /\ job'.val[f] = job.val[f]
    /\ gain' = gain /\ last'.tuner = last.tuner /\ hw'.tuner = hw.tuner

\* What is due at the tuner depends on this alone.
LEMMA SameDue == ASSUME TunerDue, TunerAlone PROVE TunerDue'
<1>1. /\ "gain" \in pend' <=> "gain" \in pend
      /\ "mode" \in pend' <=> "mode" \in pend
      /\ Todo("gain")' <=> Todo("gain")
      /\ Todo("mode")' <=> Todo("mode")
  BY DEF TunerAlone
<1>2. /\ val'["gain"] = val["gain"] /\ val'["mode"] = val["mode"]
      /\ job'.val["gain"] = job.val["gain"] /\ job'.val["mode"] = job.val["mode"]
      /\ gain' = gain /\ last'.tuner = last.tuner /\ hw'.tuner = hw.tuner
  BY DEF TunerAlone
<1> QED
  BY <1>1, <1>2 DEF TunerDue, StepQueued, StepTaken, StepKept, AutoDue, AnyDue

\* A step after which no task is elsewhere in a gain call.
GainCallsSame ==
    \A t \in Tasks : /\ call'[t].op = "gain" /\ call'[t].at = "settle" =>
                            call[t].op = "gain" /\ call[t].at = "settle" /\ call'[t].v = call[t].v
                     /\ call[t].op = "gain" /\ call[t].at \in {"look", "queue"} =>
                            call'[t].op = "gain" /\ call'[t].at \in {"look", "queue"}

\* A step that does not touch the tuner's part keeps the promise.
LEMMA SameServed ==
    ASSUME TunerServed, TunerAlone, GainCallsSame, st = "streaming", "tuner" \notin troubled
    PROVE  TunerServed'
<1>1. GainSettles'  BY DEF TunerServed, GainSettles, GainCallsSame, TunerAlone
<1>2. GainComing => GainComing'  BY DEF GainComing, GainCallsSame
<1>3. TunerDue => TunerDue'  BY SameDue
<1> QED  BY <1>1, <1>2, <1>3 DEF TunerServed

\* Each step of a gain or gain mode call, and of the delivery task, takes what is
\* due at the tuner from one of its places to the next.
LEMMA TunerStep ==
    ASSUME Quick, TakeTurns, OneTuner, Typed, TurnsKept, CopyIsFresh, OneAtTuner, TunerServed, [Next]_vars
    PROVE  TunerServed'
<1>1. ASSUME NEW t \in Tasks, NEW v \in Gains, SetGain(t, v) PROVE TunerServed'
  <2>1. /\ call[t] = NoCall /\ call' = [call EXCEPT ![t] = [op |-> "gain", v |-> v, at |-> "look", ok |-> TRUE]]
        /\ UNCHANGED <<st, troubled, last>>
    BY <1>1 DEF SetGain, Enter, history
  <2>2. call'[t].op = "gain" /\ call'[t].at = "look" /\ \A u \in Tasks \ {t} : call'[u] = call[u]
    BY <2>1 DEF Typed, Shapes
  <2>3. GainComing'  BY <2>2 DEF GainComing
  <2>4. st' = "streaming" /\ "tuner" \notin troubled' => GainSettles'
    BY <2>1, <2>2 DEF TunerServed, GainSettles
  <2> QED  BY <2>3, <2>4 DEF TunerServed
<1>2. ASSUME NEW t \in Tasks, NEW v \in {0, 1}, SetBias(t, v) PROVE TunerServed'
  <2>1. /\ call[t] = NoCall /\ call' = [call EXCEPT ![t] = [op |-> "bias", v |-> v, at |-> "look", ok |-> TRUE]]
        /\ UNCHANGED <<st, troubled, pend, val, job, gain, last, hw>>
    BY <1>2 DEF SetBias, Enter, settings, history
  <2>2. GainCallsSame  BY <2>1 DEF GainCallsSame, NoCall, Typed, Shapes
  <2>3. TunerAlone  BY <2>1 DEF TunerAlone, Todo
  <2> QED  BY <2>1, <2>2, <2>3, SameServed DEF TunerServed
<1>3. ASSUME NEW t \in Tasks, NEW v \in {0, 1}, SetMode(t, v) PROVE TunerServed'
  <2>1. /\ call[t] = NoCall /\ call' = [call EXCEPT ![t] = [op |-> "mode", v |-> v, at |-> "look", ok |-> TRUE]]
        /\ UNCHANGED <<st, troubled, pend, val, job, gain, last, hw>>
    BY <1>3 DEF SetMode, Enter, settings, history
  <2>2. GainCallsSame  BY <2>1 DEF GainCallsSame, NoCall, Typed, Shapes
  <2>3. TunerAlone  BY <2>1 DEF TunerAlone, Todo
  <2> QED  BY <2>1, <2>2, <2>3, SameServed DEF TunerServed
<1>4. ASSUME NEW t \in Tasks, NEW v \in {0, 1}, SetModeAgain(t, v) PROVE TunerServed'
  <2>1. UNCHANGED <<call, st, troubled, pend, val, job, gain, last, hw>>
    BY <1>4 DEF SetModeAgain, settings
  <2>2. GainCallsSame /\ TunerAlone  BY <2>1 DEF GainCallsSame, TunerAlone, Todo
  <2> QED  BY <2>1, <2>2, SameServed DEF TunerServed
<1>5. ASSUME NEW t \in Tasks, NEW v \in {0, 1}, SetAgc(t, v) PROVE TunerServed'
  <2> SUFFICES ASSUME st' = "streaming", "tuner" \notin troubled'  PROVE TunerServed'
    BY DEF TunerServed
  <2>1. /\ st = "streaming" /\ "tuner" \notin troubled
        /\ pend' = pend \cup {"agc"} /\ val' = [val EXCEPT !["agc"] = v] /\ last' = [last EXCEPT !["agc"] = v]
        /\ UNCHANGED <<call, job, gain, hw>>
    BY <1>5 DEF SetAgc, QueueLocked
  <2>2. GainCallsSame  BY <2>1 DEF GainCallsSame
  <2>3. TunerAlone  BY <2>1 DEF TunerAlone, Todo, Typed, Shapes, TypeOK, Flags
  <2> QED  BY <2>1, <2>2, <2>3, SameServed
<1>6. ASSUME NEW t \in Tasks, NEW v \in Widths, SetWidth(t, v) PROVE TunerServed'
  <2> SUFFICES ASSUME st' = "streaming", "tuner" \notin troubled'  PROVE TunerServed'
    BY DEF TunerServed
  <2>1. /\ st = "streaming" /\ "tuner" \notin troubled
        /\ pend' = pend \cup {"width"} /\ val' = [val EXCEPT !["width"] = v] /\ last' = [last EXCEPT !["width"] = v]
        /\ UNCHANGED <<call, job, gain, hw>>
    BY <1>6 DEF SetWidth, QueueLocked, settings
  <2>2. GainCallsSame  BY <2>1 DEF GainCallsSame
  <2>3. TunerAlone  BY <2>1 DEF TunerAlone, Todo, Typed, Shapes, TypeOK, Flags
  <2> QED  BY <2>1, <2>2, <2>3, SameServed
<1>7. ASSUME NEW t \in Tasks, Look(t) PROVE TunerServed'
  <2> SUFFICES ASSUME st' = "streaming", "tuner" \notin troubled'  PROVE TunerServed'
    BY DEF TunerServed
  <2>1. /\ st = "streaming" /\ "tuner" \notin troubled
        /\ call[t].at = "look" /\ call' = [call EXCEPT ![t].at = "queue"]
        /\ UNCHANGED <<pend, val, last, job, gain, hw>>
    BY <1>7 DEF Look, In, Goto, settings, history
  <2>2. GainCallsSame  BY <2>1 DEF GainCallsSame, Typed, Shapes
  <2>3. TunerAlone  BY <2>1 DEF TunerAlone, Todo
  <2> QED  BY <2>1, <2>2, <2>3, SameServed
<1>8. ASSUME NEW t \in Tasks, Queue(t) PROVE TunerServed'
  <2> SUFFICES ASSUME st' = "streaming", "tuner" \notin troubled'  PROVE TunerServed'
    BY DEF TunerServed
  <2>1. /\ st = "streaming" /\ "tuner" \notin troubled /\ call[t].at = "queue" /\ job.at # "copied"
        /\ call' = [call EXCEPT ![t].at = "settle"]
        /\ val' = [val EXCEPT ![call[t].op] = call[t].v]
        /\ UNCHANGED <<job, gain, hw>>
    BY <1>8 DEF Queue, In, Goto
  <2>2. /\ call'[t].op = call[t].op /\ call'[t].v = call[t].v /\ call'[t].at = "settle"
        /\ \A u \in Tasks \ {t} : call'[u] = call[u]
        /\ call[t].op \in {"bias", "mode", "gain"} /\ call[t].v \in Values(call[t].op)
    BY <2>1 DEF Typed, Shapes
  <2>3. CASE call[t].op = "bias"
    <3>1. pend' = pend \cup {"bias"} /\ last' = [last EXCEPT !["bias"] = call[t].v]
      BY <1>8, <2>3 DEF Queue, Control
    <3>2. GainCallsSame  BY <2>2, <2>3 DEF GainCallsSame
    <3>3. TunerAlone  BY <2>1, <2>3, <3>1 DEF TunerAlone, Todo, Typed, Shapes, TypeOK, Flags
    <3> QED  BY <2>1, <3>2, <3>3, SameServed
  <2>4. CASE call[t].op = "gain"
    <3>1. "gain" \in pend'  BY <1>8, <2>4 DEF Queue
    <3>2. last' = [last EXCEPT !["tuner"] = call[t].v]  BY <1>8, <2>4 DEF Queue, Control, Meant
    <3>3. last'.tuner = call[t].v  BY <3>2 DEF Typed, TypeOK
    <3>4. val'["gain"] = call[t].v  BY <2>1, <2>4 DEF Typed, Shapes, Flags
    <3>5. StepQueued'  BY <3>1, <3>3, <3>4 DEF StepQueued
    <3>6. \A u \in Tasks \ {t} : call[u].op # "gain"  BY <2>4 DEF OneAtTuner
    <3>7. GainSettles'  BY <2>2, <3>3, <3>6 DEF GainSettles
    <3> QED  BY <3>5, <3>7 DEF TunerServed, TunerDue
  <2>5. CASE call[t].op = "mode"
    <3>1. \A u \in Tasks : call[u].op # "gain" /\ call'[u].op # "gain"
      BY <2>2, <2>5 DEF OneAtTuner
    <3>2. GainSettles'  BY <3>1 DEF GainSettles
    <3>3. TunerDue  BY <2>1, <3>1 DEF TunerServed, GainComing
    <3>4. "mode" \in pend' /\ val'["mode"] = call[t].v /\ val'["gain"] = val["gain"]
      BY <1>8, <2>1, <2>5 DEF Queue, Typed, Shapes, Flags
    <3>5. last'.tuner = Meant("mode", call[t].v, last.tuner)
      BY <1>8, <2>5 DEF Queue, Control, Typed, TypeOK
    <3>6. Todo("gain")' <=> Todo("gain")  BY <2>1 DEF Todo
    <3>7. CASE call[t].v = 0
      <4>1. "gain" \notin pend'  BY <1>8, <2>5, <3>7 DEF Queue
      <4>2. last'.tuner = AutoGain  BY <3>5, <3>7 DEF Meant
      <4>3. AutoDue'  BY <3>4, <3>7, <4>1, <4>2 DEF AutoDue
      <4> QED  BY <3>2, <4>3 DEF TunerServed, TunerDue
    <3>8. CASE call[t].v # 0
      <4>1. call[t].v = 1  BY <2>2, <2>5, <3>8 DEF Values
      <4>2. "gain" \in pend' <=> "gain" \in pend  BY <1>8, <2>5, <3>8 DEF Queue
      <4>3. CASE last.tuner = AutoGain /\ ~StepQueued /\ ~StepTaken
        <5>1. "gain" \notin pend  BY <3>3, <4>3 DEF TunerDue, StepKept, AutoDue, AnyDue
        <5>2. last'.tuner = AnyStep  BY <3>5, <4>1, <4>3 DEF Meant
        <5>3. AnyDue'  BY <3>4, <4>1, <4>2, <5>1, <5>2 DEF AnyDue
        <5> QED  BY <3>2, <5>3 DEF TunerServed, TunerDue
      <4>4. ASSUME last.tuner # AutoGain  PROVE TunerServed'
        <5>1. last'.tuner = last.tuner  BY <3>5, <4>1, <4>4 DEF Meant
        <5>2. CASE StepQueued
          <6>1. StepQueued'  BY <3>4, <4>2, <5>1, <5>2 DEF StepQueued
          <6> QED  BY <3>2, <6>1 DEF TunerServed, TunerDue
        <5>3. CASE StepTaken
          <6>1. StepTaken'  BY <2>1, <3>4, <3>6, <4>1, <4>2, <5>1, <5>3 DEF StepTaken
          <6> QED  BY <3>2, <6>1 DEF TunerServed, TunerDue
        <5>4. CASE StepKept
          <6>1. StepKept'
            BY <2>1, <3>4, <3>6, <4>1, <4>2, <5>1, <5>4 DEF StepKept, Todo
          <6> QED  BY <3>2, <6>1 DEF TunerServed, TunerDue
        <5>5. CASE AnyDue
          <6>1. AnyDue'  BY <3>4, <4>1, <4>2, <5>1, <5>5 DEF AnyDue
          <6> QED  BY <3>2, <6>1 DEF TunerServed, TunerDue
        <5> QED  BY <3>3, <4>4, <5>2, <5>3, <5>4, <5>5 DEF TunerDue, AutoDue
      <4>5. last.tuner = AutoGain => ~StepQueued /\ ~StepTaken
        <5>1. \A g \in Gains : g # AutoGain  BY ControlSets DEF AutoGain
        <5>2. "gain" \in pend => val["gain"] \in Gains  BY DEF Typed, Shapes, Values
        <5>3. Todo("gain") => job.val["gain"] \in Gains  BY DEF Typed, Shapes, Values, Todo
        <5> QED  BY <5>1, <5>2, <5>3 DEF StepQueued, StepTaken
      <4> QED  BY <4>3, <4>4, <4>5
    <3> QED  BY <3>7, <3>8
  <2> QED  BY <2>2, <2>3, <2>4, <2>5
<1>9. ASSUME NEW t \in Tasks, Direct(t) PROVE TunerServed'
  BY <1>9 DEF Direct, In, TunerServed, TurnsKept
<1>10. ASSUME NEW t \in Tasks, DirectFails(t) PROVE TunerServed'
  BY <1>10 DEF DirectFails, In, TunerServed, TurnsKept
<1>11. ASSUME NEW t \in Tasks, Settle(t) PROVE TunerServed'
  <2> SUFFICES ASSUME st' = "streaming", "tuner" \notin troubled'  PROVE TunerServed'
    BY DEF TunerServed
  <2>1. /\ st = "streaming" /\ "tuner" \notin troubled
        /\ call[t].at = "settle" /\ call' = [call EXCEPT ![t] = NoCall]
        /\ gain' = IF call[t].op = "gain" /\ call[t].ok THEN call[t].v ELSE gain
        /\ UNCHANGED <<pend, val, last, job, hw>>
    BY <1>11 DEF Settle, In, Leave, history
  <2>2. GainCallsSame  BY <2>1 DEF GainCallsSame, NoCall, Typed, Shapes
  <2>3. CASE gain' = gain
    <3>1. TunerAlone  BY <2>1, <2>3 DEF TunerAlone, Todo
    <3> QED  BY <2>1, <2>2, <3>1, SameServed
  <2>4. CASE gain' # gain
    <3>1. gain' = last.tuner  BY <2>1, <2>4 DEF TunerServed, GainSettles
    <3>2. GainSettles' /\ (GainComing => GainComing')
      BY <2>1, <2>2 DEF TunerServed, GainSettles, GainComing, GainCallsSame
    <3>3. TunerDue => TunerDue'
      BY <2>1, <3>1 DEF TunerDue, StepQueued, StepTaken, StepKept, AutoDue, AnyDue, Todo
    <3> QED  BY <2>1, <3>2, <3>3 DEF TunerServed
  <2> QED  BY <2>3, <2>4
<1>12. CASE Copy
  <2> SUFFICES ASSUME st' = "streaming", "tuner" \notin troubled'  PROVE TunerServed'
    BY DEF TunerServed
  <2>1. /\ st = "streaming" /\ "tuner" \notin troubled
        /\ job.at = "none" /\ job'.at = "copied" /\ job'.do = pend /\ job'.val = val
        /\ UNCHANGED <<call, pend, val, last, gain, hw>>
    BY <1>12 DEF Copy, settings, history, Typed, TypeOK
  <2>2. GainSettles' /\ (GainComing => GainComing')
    BY <2>1 DEF TunerServed, GainSettles, GainComing
  <2>3. /\ ~Todo("gain") /\ ~Todo("mode")
        /\ Todo("gain")' <=> "gain" \in pend
        /\ Todo("mode")' <=> "mode" \in pend
    BY <2>1 DEF Todo, Before
  <2>4. TunerDue => TunerDue'
    BY <2>1, <2>3 DEF TunerDue, StepQueued, StepTaken, StepKept, AutoDue, AnyDue
  <2> QED  BY <2>1, <2>2, <2>4 DEF TunerServed
<1>13. CASE Clear
  <2> SUFFICES ASSUME st' = "streaming", "tuner" \notin troubled'  PROVE TunerServed'
    BY DEF TunerServed
  <2>1. /\ st = "streaming" /\ "tuner" \notin troubled
        /\ job.at = "copied" /\ job'.at = "drain" /\ job'.do = job.do /\ job'.val = job.val
        /\ pend' = {} /\ UNCHANGED <<call, val, last, gain, hw>>
    BY <1>13 DEF Clear, settings, history, Typed, Shapes
  <2>2. GainSettles' /\ (GainComing => GainComing')
    BY <2>1 DEF TunerServed, GainSettles, GainComing
  <2>3. /\ Todo("gain") <=> "gain" \in pend
        /\ Todo("gain")' <=> "gain" \in pend
        /\ Todo("mode") <=> "mode" \in job.do
        /\ Todo("mode")' <=> "mode" \in job.do
    BY <2>1 DEF Todo, Before, CopyIsFresh
  <2>4. job.val = val /\ ("mode" \in pend => "mode" \in job.do)  BY <2>1 DEF CopyIsFresh
  <2>5. StepQueued => StepTaken'  BY <2>1, <2>3, <2>4 DEF StepQueued, StepTaken
  <2>6. ~StepTaken  BY <2>3 DEF StepTaken
  <2>7. StepKept => StepKept'  BY <2>1, <2>3, <2>4 DEF StepKept
  <2>8. AutoDue => AutoDue'  BY <2>1, <2>3, <2>4 DEF AutoDue
  <2>9. AnyDue => AnyDue'  BY <2>1, <2>3, <2>4 DEF AnyDue
  <2> QED  BY <2>1, <2>2, <2>5, <2>6, <2>7, <2>8, <2>9 DEF TunerServed, TunerDue
<1>14. CASE Drained
  <2> SUFFICES ASSUME st' = "streaming", "tuner" \notin troubled'  PROVE TunerServed'
    BY DEF TunerServed
  <2>1. /\ st = "streaming" /\ "tuner" \notin troubled
        /\ job.at = "drain" /\ job'.at = "bias" /\ job'.do = job.do /\ job'.val = job.val
        /\ UNCHANGED <<call, pend, val, last, gain, hw>>
    BY <1>14 DEF Drained, settings, history, Typed, Shapes
  <2>2. GainCallsSame  BY <2>1 DEF GainCallsSame
  <2>3. TunerAlone  BY <2>1 DEF TunerAlone, Todo, Before
  <2> QED  BY <2>1, <2>2, <2>3, SameServed
<1>15. CASE PutBack
  <2> SUFFICES ASSUME st' = "streaming", "tuner" \notin troubled'  PROVE TunerServed'
    BY DEF TunerServed
  <2>1. /\ st = "streaming" /\ "tuner" \notin troubled
        /\ job.do \cap {"gain", "mode"} = {} /\ job' = NoJob /\ pend' = pend \cup job.do
        /\ UNCHANGED <<call, val, last, gain, hw>>
    BY <1>15 DEF PutBack, settings
  <2>2. GainSettles' /\ (GainComing => GainComing')
    BY <2>1 DEF TunerServed, GainSettles, GainComing
  <2>3. /\ ~Todo("gain") /\ ~Todo("mode") /\ ~Todo("gain")' /\ ~Todo("mode")'
        /\ "gain" \in pend' <=> "gain" \in pend
        /\ "mode" \in pend' <=> "mode" \in pend
    BY <2>1 DEF Todo, NoJob
  <2>4. TunerDue => TunerDue'
    BY <2>1, <2>3 DEF TunerDue, StepQueued, StepTaken, StepKept, AutoDue, AnyDue
  <2> QED  BY <2>1, <2>2, <2>4 DEF TunerServed
<1>16. CASE Skip
  <2> SUFFICES ASSUME st' = "streaming", "tuner" \notin troubled'  PROVE TunerServed'
    BY DEF TunerServed
  <2>1. /\ st = "streaming" /\ "tuner" \notin troubled /\ (job.at = "tuner" => ~Wanted)
        /\ UNCHANGED <<call, pend, val, last>>
    BY <1>16 DEF Skip, settings, history
  <2>2. hw'.tuner = hw.tuner /\ gain' = gain
    BY <1>16, <2>1 DEF Skip, settings, history, Typed, TypeOK
  <2>3. GainSettles' /\ (GainComing => GainComing')
    BY <2>1 DEF TunerServed, GainSettles, GainComing
  <2>4. \A f \in {"gain", "mode"} : /\ Todo(f)' <=> Todo(f)
                                    /\ Todo(f) => job'.val[f] = job.val[f]
    BY <1>16, <2>1, OnwardMoves DEF Skip, Todo, Before, Wanted, NoJob
  <2>5. TunerDue => TunerDue'
    BY <2>1, <2>2, <2>4 DEF TunerDue, StepQueued, StepTaken, StepKept, AutoDue, AnyDue
  <2> QED  BY <2>1, <2>3, <2>5 DEF TunerServed
<1>17. CASE Apply
  <2> SUFFICES ASSUME st' = "streaming", "tuner" \notin troubled'  PROVE TunerServed'
    BY DEF TunerServed
  <2>1. /\ st = "streaming" /\ "tuner" \notin troubled /\ job.at \in {"bias", "tuner", "agc", "width"}
        /\ Wanted /\ Onward /\ UNCHANGED <<call, pend, val, last>>
    BY <1>17 DEF Apply, history
  <2>2. GainSettles' /\ (GainComing => GainComing')
    BY <2>1 DEF TunerServed, GainSettles, GainComing
  <2>3. CASE job.at # "tuner"
    <3>1. hw'.tuner = hw.tuner /\ gain' = gain
      BY <1>17, <2>3 DEF Apply, Typed, TypeOK
    <3>2. \A f \in {"gain", "mode"} : /\ Todo(f)' <=> Todo(f)
                                      /\ Todo(f) => job'.val[f] = job.val[f]
      BY <2>1, <2>3, OnwardMoves DEF Todo, Before, NoJob
    <3>3. TunerDue => TunerDue'
      BY <2>1, <3>1, <3>2 DEF TunerDue, StepQueued, StepTaken, StepKept, AutoDue, AnyDue
    <3> QED  BY <2>1, <2>2, <3>3 DEF TunerServed
  <2>4. CASE job.at = "tuner"
    <3>1. /\ hw'.tuner = Target
          /\ gain' = IF Target = AutoGain THEN gain ELSE Target
      BY <1>17, <2>4 DEF Apply, Typed, TypeOK
    <3>2. /\ "mode" \in job.do \/ "gain" \in job.do
          /\ Todo("gain") <=> "gain" \in job.do
          /\ Todo("mode") <=> "mode" \in job.do
          /\ ~Todo("gain")' /\ ~Todo("mode")'
      BY <2>1, <2>4, OnwardMoves DEF Todo, Before, Wanted
    <3>3. /\ "gain" \in job.do => Target = job.val["gain"] /\ Target \in Gains
          /\ "gain" \notin job.do /\ job.val["mode"] = 1 => Target = Step
          /\ "gain" \notin job.do /\ job.val["mode"] = 0 => Target = AutoGain
      BY DEF Target, Typed, Shapes, Values
    <3>4. Step \in Gains /\ (gain # 0 => Step = gain)  BY StepIsStep DEF Typed, TypeOK
    <3>5. \A g \in Gains : g # AutoGain /\ g # 0  BY ControlSets DEF AutoGain
    <3>6. StepQueued => StepQueued'  BY <2>1 DEF StepQueued
    <3>7. StepTaken => StepKept'  BY <2>1, <3>1, <3>2, <3>3, <3>5 DEF StepTaken, StepKept
    <3>8. StepKept => StepKept'
      BY <2>1, <3>1, <3>2, <3>3, <3>4, <3>5 DEF StepKept
    <3>9. AutoDue => AutoDue'  BY <2>1, <3>1, <3>2, <3>3 DEF AutoDue
    <3>10. AnyDue => AnyDue'  BY <2>1, <3>1, <3>2, <3>3, <3>4, <3>5 DEF AnyDue
    <3> QED  BY <2>1, <2>2, <3>6, <3>7, <3>8, <3>9, <3>10 DEF TunerServed, TunerDue
  <2> QED  BY <2>3, <2>4
<1>18. CASE ApplyFails
  <2> SUFFICES ASSUME st' = "streaming", "tuner" \notin troubled'  PROVE TunerServed'
    BY DEF TunerServed
  <2>1. /\ st = "streaming" /\ "tuner" \notin troubled /\ job.at \in {"bias", "tuner", "agc", "width"} \ {"tuner"}
        /\ Onward /\ UNCHANGED <<call, pend, val, last, gain>>
    BY <1>18 DEF ApplyFails
  <2>2. hw'.tuner = hw.tuner
    BY <1>18, <2>1 DEF ApplyFails, Typed, TypeOK
  <2>3. GainSettles' /\ (GainComing => GainComing')
    BY <2>1 DEF TunerServed, GainSettles, GainComing
  <2>4. \A f \in {"gain", "mode"} : /\ Todo(f)' <=> Todo(f)
                                    /\ Todo(f) => job'.val[f] = job.val[f]
    BY <2>1, OnwardMoves DEF Todo, Before, NoJob
  <2>5. TunerDue => TunerDue'
    BY <2>1, <2>2, <2>4 DEF TunerDue, StepQueued, StepTaken, StepKept, AutoDue, AnyDue
  <2> QED  BY <2>1, <2>3, <2>5 DEF TunerServed
<1>19. CASE StopBegins  BY <1>19 DEF StopBegins, TunerServed
<1>20. CASE StopEnds  BY <1>20 DEF StopEnds, TunerServed
<1>21. CASE Start
  <2>1. /\ pend' = {} /\ (\A t \in Tasks : call'[t] = NoCall) /\ job' = NoJob /\ gain' = gain
        /\ last' = [hw' EXCEPT !.tuner = IF @ \in {AutoGain, gain} THEN @ ELSE AnyStep]
    BY <1>21 DEF Start, NoSetter, settings, TurnsKept, Typed, TypeOK, Shapes, IdleIsFree
  <2>2. hw' \in [bias: {0, 1}, tuner: Gains \cup {AutoGain, AnyStep}, agc: {0, 1}, width: Widths]
    BY <1>21, StartTyped DEF Typed, TypeOK
  <2>3. GainSettles'  BY <2>1 DEF GainSettles, NoCall
  <2>4. ~Todo("gain")' /\ ~Todo("mode")'  BY <2>1 DEF Todo, NoJob
  <2>5. last'.tuner = IF hw'.tuner \in {AutoGain, gain} THEN hw'.tuner ELSE AnyStep  BY <2>1, <2>2
  <2>6. CASE hw'.tuner = AutoGain
    <3>1. AutoDue'  BY <2>1, <2>4, <2>5, <2>6 DEF AutoDue
    <3> QED  BY <2>3, <3>1 DEF TunerServed, TunerDue
  <2>7. CASE hw'.tuner # AutoGain /\ hw'.tuner = gain
    <3>1. gain \in Gains  BY <2>7 DEF Typed, TypeOK, AutoGain
    <3>2. StepKept'  BY <2>1, <2>4, <2>5, <2>7, <3>1 DEF StepKept
    <3> QED  BY <2>3, <3>2 DEF TunerServed, TunerDue
  <2>8. CASE hw'.tuner # AutoGain /\ hw'.tuner # gain
    <3>1. AnyDue'  BY <2>1, <2>4, <2>5, <2>8 DEF AnyDue
    <3> QED  BY <2>3, <3>1 DEF TunerServed, TunerDue
  <2> QED  BY <2>6, <2>7, <2>8
<1>22. CASE UNCHANGED vars
  <2>1. UNCHANGED <<call, st, troubled, pend, val, job, gain, last, hw>>
    BY <1>22 DEF vars, settings, history
  <2>2. GainCallsSame /\ TunerAlone  BY <2>1 DEF GainCallsSame, TunerAlone, Todo
  <2> QED  BY <2>1, <2>2, SameServed DEF TunerServed
<1> QED
  BY <1>1, <1>2, <1>3, <1>4, <1>5, <1>6, <1>7, <1>8, <1>9, <1>10, <1>11, <1>12, <1>13, <1>14, <1>15,
     <1>16, <1>17, <1>18, <1>19, <1>20, <1>21, <1>22 DEF Next

\* At first nothing is queued and everything is off.
LEMMA ServedInit == ASSUME Init PROVE CopyIsFresh /\ OneAtTuner /\ PlainServed /\ TunerServed
<1>1. CopyIsFresh  BY DEF Init, CopyIsFresh, NoJob
<1>2. OneAtTuner  BY DEF Init, OneAtTuner, NoCall
<1>3. PlainServed  BY DEF Init, PlainServed, PlainDue, Todo, NoJob, Off
<1>4. GainSettles  BY DEF Init, GainSettles, NoCall
<1>5. AutoDue  BY DEF Init, AutoDue, Todo, NoJob, Off
<1> QED  BY <1>1, <1>2, <1>3, <1>4, <1>5 DEF TunerServed, TunerDue

\* With nothing queued, taken or being set, what is due is in the dongle.
LEMMA ServedIsServed == ASSUME IServed PROVE QueuedServed
<1> SUFFICES ASSUME Settled, NEW c \in Controls \ troubled PROVE Same(hw[c], last[c])
  BY DEF QueuedServed
<1>1. st = "streaming" /\ pend = {} /\ (\A t \in Tasks : call[t] = NoCall) /\ job = NoJob
  BY DEF Settled, Rest, NoSetter, IServed, IBias, Typed, TypeOK, Shapes
<1>2. \A f \in Flags : ~Todo(f)  BY <1>1 DEF Todo, NoJob
<1>3. CASE c \in {"bias", "agc", "width"}
  <2>1. PlainDue(c)  BY <1>1, <1>3 DEF IServed, PlainServed
  <2>2. ~Todo(c)  BY <1>2, <1>3 DEF Flags
  <2> QED  BY <1>1, <2>1, <2>2 DEF PlainDue, Same
<1>4. CASE c = "tuner"
  <2>1. ~GainComing  BY <1>1 DEF GainComing, NoCall
  <2>2. TunerDue  BY <1>1, <1>4, <2>1 DEF IServed, TunerServed
  <2>3. ~Todo("gain") /\ ~Todo("mode")  BY <1>2 DEF Flags
  <2>4. Same(hw.tuner, last.tuner)
    BY <1>1, <2>2, <2>3 DEF TunerDue, StepQueued, StepTaken, StepKept, AutoDue, AnyDue, Same
  <2> QED  BY <1>4, <2>4
<1> QED  BY <1>3, <1>4 DEF Controls

\* Once nothing is left to do every control has the value last queued for it,
\* for any tasks, gains and widths (cpp 6384), under the three disciplines; each
\* is needed (LostRequest, BiasAfterStop, StaleStep).
THEOREM QueuedIsServed == ASSUME Quick, TakeTurns, OneTuner PROVE Spec => []QueuedServed
<1>1. Init => IServed  BY InitTyped, TurnsInit, ServedInit DEF IServed, IBias
<1>2. IServed /\ [Next]_vars => IServed'
  BY TypesKept, TurnsStep, CopyStep, OneStep, PlainStep, TunerStep DEF IServed, IBias
<1>3. IServed => QueuedServed  BY ServedIsServed
<1> QED  BY <1>1, <1>2, <1>3, PTL DEF Spec
=============================================================================
